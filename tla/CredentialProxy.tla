-------------------------- MODULE CredentialProxy --------------------------
(***************************************************************************)
(* The credential proxy container: CONNECT tunnels that are intercepted    *)
(* (MitmHandler) or passed through, plain proxy requests, the sliding      *)
(* window rate limiter, the key rotator, the certificate cache, and the     *)
(* reload of credentials.enc on SIGHUP while connections are open.  Log    *)
(* lines and byte counts are left out.                                     *)
(*                                                                         *)
(* A credential rule is a record: name, the hosts its pattern matches, the *)
(* header it sets, limit and span of its rateLimit (limit 0: none), the    *)
(* number of its values (0: only value), its credentialMethod, and whether *)
(* it has request-level rules.                                             *)
(***************************************************************************)
EXTENDS Integers, Sequences, FiniteSets

CONSTANTS
    Hosts,        \* host names agents connect to
    Names,        \* names of credential rules
    Files,        \* contents credentials.enc may have: [rules, bypass]
    Active,       \* CREDENTIAL_METHOD; "none": unset
    MaxEntries,   \* CertCache: maximum number of entries
    CacheTtl,     \* CertCache: time to live of an entry
    Conns,        \* slots for client connections
    MaxTime,      \* bound: the clock
    MaxRequests,  \* bound: connections and requests
    MaxReloads    \* bound: writes of credentials.enc, SIGHUPs and restarts

ASSUME ProxyAssumption ==
    /\ {MaxTime, MaxRequests, MaxReloads, CacheTtl, MaxEntries} \subseteq Nat
    /\ MaxEntries > 0
    /\ \A f \in Files : /\ f.bypass \subseteq Hosts
                        /\ \A i, j \in DOMAIN f.rules : f.rules[i].name = f.rules[j].name => i = j
                        /\ \A i \in DOMAIN f.rules :
                            /\ f.rules[i].name \in Names
                            /\ {f.rules[i].limit, f.rules[i].span, f.rules[i].values} \subseteq Nat

VARIABLES
    now,       \* Date.now()
    disk,      \* credentials.enc: its content, or half written
    rules,     \* ProxyServer.credentials
    bypass,    \* ProxyServer.pinningBypassSet
    window,    \* RateLimiter.windows: rule and timestamps of each name
    rotor,     \* KeyRotator.counters
    cache,     \* CertCache.cache, in the order of the Map
    conn,      \* the client connections
    admitted,  \* history: times of what the limiter let through since the last load
    uses,      \* history: how often each value of a rule was sent since the last load
    mixed,     \* history: a rule that the last load took away or changed has sent a request
    lastUse,   \* history: when each host was last intercepted, as a step number
    requests, reloads

limiter == <<window, admitted>>
store   == <<disk, rules, bypass>>
sending == <<rotor, uses, mixed>>
certs   == <<cache, lastUse>>
vars    == <<now, store, limiter, sending, certs, conn, requests, reloads>>

Headers == {"authorization", "x-api-key"}
NoRule  == [name |-> "none", hosts |-> {}, header |-> "none", limit |-> 0, span |-> 0,
            values |-> 0, method |-> "none", strict |-> FALSE]
Empty   == [rules |-> <<>>, bypass |-> {}]

Win(limit, span, times) == [limit |-> limit, span |-> span, times |-> times]

\* buildRateLimiter.  addCredential and migrateAuthTokens keep names unique.
Registered(rs, n) == {i \in DOMAIN rs : rs[i].name = n /\ rs[i].limit > 0}
BuildRateLimiter(rs) ==
    [n \in Names |->
        IF Registered(rs, n) = {} THEN Win(0, 0, <<>>)
        ELSE LET i == CHOOSE i \in Registered(rs, n) : TRUE
             IN  Win(rs[i].limit, rs[i].span, <<>>)]

\* A connection: its state, the host, and the rules captured when it was opened.
Conn(pc, host, creds) == [pc |-> pc, host |-> host, creds |-> creds]
Closed == Conn("closed", "none", <<>>)
Becomes(c, pc) == conn' = [conn EXCEPT ![c] = Conn(pc, conn[c].host, conn[c].creds)]

Zero == [n \in Names |-> 0]

\* loadCredentialRules: a file that cannot be decrypted leaves no rules at all.
Load(f) ==
    /\ rules' = f.rules
    /\ bypass' = f.bypass
    /\ window' = BuildRateLimiter(f.rules)
    /\ rotor' = Zero
    /\ admitted' = [n \in Names |-> <<>>]
    /\ uses' = [n \in Names |-> <<>>]
    /\ mixed' = FALSE

OnDisk == IF disk.torn THEN Empty ELSE disk.file

Init ==
    /\ now = 0
    /\ disk \in [torn : {FALSE}, file : Files]
    /\ rules = disk.file.rules /\ bypass = disk.file.bypass
    /\ window = BuildRateLimiter(disk.file.rules)
    /\ rotor = Zero
    /\ cache = <<>>
    /\ conn = [c \in Conns |-> Closed]
    /\ admitted = [n \in Names |-> <<>>]
    /\ uses = [n \in Names |-> <<>>]
    /\ mixed = FALSE
    /\ lastUse = [h \in Hosts |-> 0]
    /\ requests = 0 /\ reloads = 0

Tick ==
    /\ now < MaxTime
    /\ now' = now + 1
    /\ UNCHANGED <<store, limiter, sending, certs, conn, requests, reloads>>

-----------------------------------------------------------------------------
(* RateLimiter.consume *)

\* The timestamps are in order, so the filter cuts off the first k of them.
Outside(n, k) ==
    /\ \A i \in 1..k : window[n].times[i] <= now - window[n].span
    /\ \A i \in k + 1 .. Len(window[n].times) : window[n].times[i] > now - window[n].span

Rest(n, k) == SubSeq(window[n].times, k + 1, Len(window[n].times))

\* Mutant: one request too many.
MutHasRoom(n, k) == Len(window[n].times) - k <= window[n].limit

HasRoom(n, k) == Len(window[n].times) - k < window[n].limit

Allowed(n) ==
    \/ n \notin Names /\ UNCHANGED limiter
    \/ n \in Names /\ window[n].limit = 0 /\ UNCHANGED limiter
    \/ /\ n \in Names /\ window[n].limit > 0
       /\ \E k \in 0 .. Len(window[n].times) :
            /\ Outside(n, k) /\ HasRoom(n, k)
            /\ window' = [window EXCEPT ![n] =
                    Win(window[n].limit, window[n].span, Append(Rest(n, k), now))]
            /\ admitted' = [admitted EXCEPT ![n] = Append(admitted[n], now)]

Refused(n) ==
    /\ n \in Names /\ window[n].limit > 0
    /\ \E k \in 0 .. Len(window[n].times) :
        /\ Outside(n, k) /\ ~HasRoom(n, k)
        /\ window' = [window EXCEPT ![n] = Win(window[n].limit, window[n].span, Rest(n, k))]
    /\ UNCHANGED admitted

-----------------------------------------------------------------------------
(* CertCache.getOrCreate: the generator is synchronous, so nothing comes between *)

Position(h) == {i \in DOMAIN cache : cache[i].host = h}
Where(h)    == CHOOSE i \in Position(h) : TRUE
Live(h)     == \E i \in Position(h) : now <= cache[i].made + CacheTtl

\* Map.delete
Without(h) ==
    IF Position(h) = {} THEN cache
    ELSE SubSeq(cache, 1, Where(h) - 1) \o SubSeq(cache, Where(h) + 1, Len(cache))

\* Mutant: a hit does not move the entry to the end.
MutGetOrCreate(h) ==
    LET kept == IF Len(Without(h)) >= MaxEntries THEN Tail(Without(h)) ELSE Without(h)
    IN  IF Live(h) THEN cache ELSE Append(kept, [host |-> h, made |-> now])

\* A hit moves its entry to the end; a miss makes room at the front.
GetOrCreate(h) ==
    LET kept == IF Len(Without(h)) >= MaxEntries THEN Tail(Without(h)) ELSE Without(h)
    IN  IF Live(h) THEN Append(Without(h), cache[Where(h)])
        ELSE Append(kept, [host |-> h, made |-> now])

-----------------------------------------------------------------------------
(* ProxyServer.handleConnect and MitmHandler.handleConnect *)

FindAll(h)     == SelectSeq(rules, LAMBDA r : h \in r.hosts)
ForMethod(rs)  == SelectSeq(rs, LAMBDA r : Active = "none" \/ r.method \in {"none", Active})
Candidates(h)  == ForMethod(FindAll(h))
Primary(h)     == IF Candidates(h) = <<>> THEN NoRule ELSE Head(Candidates(h))
Intercepts(h)  == Candidates(h) # <<>> /\ h \notin bypass

Counts == requests < MaxRequests /\ requests' = requests + 1

\* The rules of the host are captured for as long as the connection lives.
ConnectMitm(c, h) ==
    /\ conn[c].pc = "closed" /\ Counts /\ Intercepts(h)
    /\ Allowed(Primary(h).name)
    /\ cache' = GetOrCreate(h)
    /\ conn' = [conn EXCEPT ![c] = Conn("open", h, Candidates(h))]
    /\ lastUse' = [lastUse EXCEPT ![h] = requests + 1]
    /\ UNCHANGED <<now, store, sending, reloads>>

\* Raw TCP tunnel.
ConnectTunnel(c, h) ==
    /\ conn[c].pc = "closed" /\ Counts /\ ~Intercepts(h)
    /\ Allowed(Primary(h).name)
    /\ conn' = [conn EXCEPT ![c] = Conn("tunnel", h, <<>>)]
    /\ UNCHANGED <<now, store, sending, certs, reloads>>

\* 429.
ConnectRefused(h) ==
    /\ Counts
    /\ Refused(Primary(h).name)
    /\ UNCHANGED <<now, store, sending, certs, conn, reloads>>

\* Either side ends or breaks the tunnel, or the server cannot be reached.
TunnelEnds(c) ==
    /\ conn[c].pc = "tunnel"
    /\ conn' = [conn EXCEPT ![c] = Closed]
    /\ UNCHANGED <<now, store, limiter, sending, certs, requests, reloads>>

\* The agent closes a connection between two requests.
ClientLeaves(c) ==
    /\ conn[c].pc = "open"
    /\ conn' = [conn EXCEPT ![c] = Closed]
    /\ UNCHANGED <<now, store, limiter, sending, certs, requests, reloads>>

-----------------------------------------------------------------------------
(* MitmHandler.handleMitmRequest and ProxyServer.handleRequest *)

\* selectCredentialByHeaders: the first rule whose header the request has.
Select(creds, hs) ==
    LET fit == SelectSeq(creds, LAMBDA r : r.header \in hs)
    IN  IF Len(creds) = 1 \/ fit = <<>> THEN Head(creds) ELSE Head(fit)

\* Mutant: the counter wraps one value early.
MutValueIndex(r) == rotor[r.name] % (IF r.values > 1 THEN r.values - 1 ELSE 1)

ValueIndex(r) == rotor[r.name] % r.values

\* A connection goes on with the rule it captured after a load has dropped or changed it.
Outdated(r) == \A i \in DOMAIN rules : rules[i] # r

\* The credential is injected, rotating over its values, and the request sent.
Forward(r) ==
    IF r.values > 0
    THEN /\ rotor' = [rotor EXCEPT ![r.name] = @ + 1]
         /\ uses' = IF Outdated(r) THEN uses ELSE [uses EXCEPT ![r.name] = Append(@, ValueIndex(r))]
         /\ mixed' = (mixed \/ Outdated(r))
    ELSE UNCHANGED sending

MitmRequest(c, hs) ==
    /\ conn[c].pc = "open" /\ Counts
    /\ Forward(Select(conn[c].creds, hs))
    /\ Becomes(c, "busy")
    /\ UNCHANGED <<now, store, limiter, certs, reloads>>

\* enforceRules: 403 or 413, and the connection stays open.
MitmRejected(c, hs) ==
    /\ conn[c].pc = "open" /\ Counts
    /\ Select(conn[c].creds, hs).strict
    /\ UNCHANGED <<now, store, limiter, sending, certs, conn, reloads>>

\* findCredentialForHost takes the first rule, whatever its method.
First(h) == IF FindAll(h) = <<>> THEN NoRule ELSE Head(FindAll(h))

PlainRequest(c, h) ==
    /\ conn[c].pc = "closed" /\ Counts
    /\ Allowed(First(h).name)
    /\ IF First(h) = NoRule THEN UNCHANGED sending ELSE Forward(First(h))
    /\ conn' = [conn EXCEPT ![c] = Conn("plain", h, <<>>)]
    /\ UNCHANGED <<now, store, certs, reloads>>

\* 429.
PlainRefused(h) ==
    /\ Counts
    /\ Refused(First(h).name)
    /\ UNCHANGED <<now, store, sending, certs, conn, reloads>>

\* 403 or 413, after the limiter has counted the request.
PlainRejected(h) ==
    /\ Counts
    /\ First(h).strict
    /\ Allowed(First(h).name)
    /\ UNCHANGED <<now, store, sending, certs, conn, reloads>>

\* The response came to its end or broke off, or the upstream request failed (502): an
\* intercepted connection stays open for the next request.
ResponseEnds(c) ==
    /\ \/ conn[c].pc = "busy" /\ Becomes(c, "open")
       \/ conn[c].pc = "plain" /\ conn' = [conn EXCEPT ![c] = Closed]
    /\ UNCHANGED <<now, store, limiter, sending, certs, requests, reloads>>

-----------------------------------------------------------------------------
(* credentials.enc and the process *)

Reloads == reloads < MaxReloads /\ reloads' = reloads + 1

\* saveCredentials: writeFile truncates the file and then fills it.
SaveBegins ==
    /\ ~disk.torn /\ Reloads
    /\ \E f \in Files : disk' = [torn |-> TRUE, file |-> f]
    /\ UNCHANGED <<now, rules, bypass, limiter, sending, certs, conn, requests>>

SaveEnds ==
    /\ disk.torn
    /\ disk' = [torn |-> FALSE, file |-> disk.file]
    /\ UNCHANGED <<now, rules, bypass, limiter, sending, certs, conn, requests, reloads>>

Sighup ==
    /\ Reloads
    /\ Load(OnDisk)
    /\ UNCHANGED <<now, disk, certs, conn, requests>>

\* The process ends; ProxyManager.healthCheck starts a new container.
Restart ==
    /\ Reloads
    /\ Load(OnDisk)
    /\ cache' = <<>> /\ lastUse' = [h \in Hosts |-> 0]
    /\ conn' = [c \in Conns |-> Closed]
    /\ UNCHANGED <<now, disk, requests>>

-----------------------------------------------------------------------------
ConnStep(c) ==
    \/ \E h \in Hosts : ConnectMitm(c, h) \/ ConnectTunnel(c, h) \/ PlainRequest(c, h)
    \/ \E hs \in SUBSET Headers : MitmRequest(c, hs) \/ MitmRejected(c, hs)
    \/ TunnelEnds(c) \/ ClientLeaves(c) \/ ResponseEnds(c)

Next ==
    \/ Tick
    \/ \E c \in Conns : ConnStep(c)
    \/ \E h \in Hosts : ConnectRefused(h) \/ PlainRefused(h) \/ PlainRejected(h)
    \/ SaveBegins \/ SaveEnds \/ Sighup \/ Restart

Spec == Init /\ [][Next]_vars

-----------------------------------------------------------------------------
(* Properties *)

TypeOK ==
    /\ now \in 0..MaxTime
    /\ DOMAIN window = Names
    /\ \A n \in Names : /\ window[n].limit \in Nat /\ window[n].span \in Nat
                        /\ window[n].times \in Seq(0..MaxTime)
                        /\ rotor[n] \in Nat
                        /\ admitted[n] \in Seq(0..MaxTime)
    /\ \A c \in Conns : conn[c].pc \in {"closed", "open", "busy", "tunnel", "plain"}
    /\ Len(cache) <= MaxEntries
    /\ requests \in 0..MaxRequests /\ reloads \in 0..MaxReloads

\* In no window of its span does the limiter let through more than its limit, over
\* CONNECTs and plain requests, at whatever times they come and through refusals.
WindowRespected ==
    \A n \in Names : window[n].limit > 0 =>
        \A i \in DOMAIN admitted[n] :
            i > window[n].limit => admitted[n][i] - admitted[n][i - window[n].limit] >= window[n].span

Sent(n, v) == Cardinality({i \in DOMAIN uses[n] : uses[n][i] = v})

\* Round robin: between two loads the values of a rule are sent equally often, over
\* all connections, as long as no connection sends under a rule that has gone or changed.
RotationEven ==
    ~mixed => \A i \in DOMAIN rules : \A v, w \in 0 .. rules[i].values - 1 :
                 Sent(rules[i].name, v) <= Sent(rules[i].name, w) + 1

\* The cache evicts the least recently used host: one that fewer than MaxEntries
\* others were used after is still there.
RecentStays ==
    \A h \in Hosts :
        lastUse[h] > 0 /\ Cardinality({g \in Hosts : lastUse[g] > lastUse[h]}) < MaxEntries
            => Position(h) # {}
=============================================================================
