----------------------------- MODULE AuthBridge -----------------------------
(***************************************************************************)
(* Authentication of a headless machine through the auth bridge: the setup *)
(* flow on the machine (key pair, session, polling, storing, clean-up),    *)
(* the page in the user's browser, and the bridge between them in its two  *)
(* deployments: a Node.js server with a Map, whose handlers run without    *)
(* interruption once the body is there, and a Cloudflare Worker on a KV    *)
(* store, where every get and put is an await and a get may see the value  *)
(* before the last put.                                                    *)
(*                                                                         *)
(* Encryption is what decides who can read a submission: the key it was    *)
(* made for.  The rate limiters may refuse any request; a refused request  *)
(* changes nothing and is left out.                                        *)
(***************************************************************************)
EXTENDS Integers, FiniteSets

CONSTANTS
    Machines,    \* setup flows, one machine each
    Browsers,    \* browsers of their users
    Tokens,      \* session tokens
    None,
    MaxKeys,     \* bound: flows started
    MaxSessions, \* StoreOptions.maxSessions
    Ttl,         \* session TTL
    Timeout,     \* PollOptions.timeoutMs
    MaxTime,     \* bound: the clock, which goes on while a flow polls
    MaxFaults    \* bound: answers that are lost and restarts of the server

ASSUME BridgeAssumption ==
    /\ {MaxKeys, MaxSessions, Ttl, Timeout, MaxTime, MaxFaults} \subseteq Nat
    /\ None \notin Browsers /\ None \notin 1..MaxKeys /\ None \notin Tokens

Keys == 1..MaxKeys

VARIABLES
    deployment, \* "node" or "workers"
    now,
    sessions,   \* SessionStore.sessions, or the KV entries
    lag,        \* KV: what a get may still see of an entry
    flow,       \* runBridgeFlow() on each machine
    page,       \* each browser
    file,       \* ~/.claude/.credentials.json of each machine: whose token it holds
    raced,      \* history: tokens on which calls interfered
    accepted,   \* history: for each key, the browsers told that their token was sent
    keys, faults

vars == <<deployment, now, sessions, lag, flow, page, file, raced, accepted, keys, faults>>

store == <<sessions, lag, raced>>

NoSession == [key |-> None, expires |-> 0, by |-> None, for |-> None]

Node    == deployment = "node"
Workers == deployment = "workers"

Live(s) == s # NoSession /\ now <= s.expires

\* A flow: where it stands, its key, its token, when polling began, the session it read.
Flow(pc, k, t, began, got) == [pc |-> pc, key |-> k, token |-> t, began |-> began, got |-> got]
NoFlow == Flow("idle", None, None, 0, NoSession)
Failed == Flow("failed", None, None, 0, NoSession)

\* A browser: its state, the token scanned, the public key in the page's URL, the session read.
Page(pc, t, pk, got) == [pc |-> pc, token |-> t, pk |-> pk, got |-> got]
NoPage == Page("idle", None, None, NoSession)

\* No session (404). A Worker that read an expired entry still deletes it.
Gone(b, s) == IF Node \/ s = NoSession THEN NoPage ELSE Page("expire", page[b].token, None, s)

\* SessionStore.get() forgets an expired session at once; a Worker's get() deletes the entry
\* one await later (ExpireEntry, ExpireForFlow).
DropExpired(t) ==
    sessions' = IF Node /\ ~Live(sessions[t]) THEN [sessions EXCEPT ![t] = NoSession] ELSE sessions

\* KVNamespace.get: the entry, or for a while what it was before the last write.
Gets(t) == IF Node THEN {sessions[t]} ELSE {sessions[t], lag[t]}

\* A write of the entry of t by somebody who last read `seen' in it.
Write(t, s, seen) ==
    /\ sessions' = [sessions EXCEPT ![t] = s]
    /\ lag' = IF Node THEN lag ELSE [lag EXCEPT ![t] = sessions[t]]
    /\ raced' = IF Live(sessions[t]) /\ sessions[t] # seen THEN raced \cup {t} ELSE raced

FlowTo(m, f) == flow' = [flow EXCEPT ![m] = f]
At(m, pc)    == FlowTo(m, [flow[m] EXCEPT !.pc = pc])
PageTo(b, p) == page' = [page EXCEPT ![b] = p]

Init ==
    /\ deployment \in {"node", "workers"}
    /\ now = 0
    /\ sessions = [t \in Tokens |-> NoSession] /\ lag = [t \in Tokens |-> NoSession]
    /\ flow = [m \in Machines |-> NoFlow]
    /\ page = [b \in Browsers |-> NoPage]
    /\ file = [m \in Machines |-> None]
    /\ raced = {} /\ accepted = [k \in Keys |-> {}]
    /\ keys = 0 /\ faults = 0

-----------------------------------------------------------------------------
(* Time, the server *)

Tick ==
    /\ now < MaxTime \/ \E m \in Machines : flow[m].pc = "poll" /\ now - flow[m].began < Timeout
    /\ now' = now + 1
    /\ UNCHANGED <<deployment, store, flow, page, file, accepted, keys, faults>>

\* SessionStore.cleanup() on its timer; the KV entry's own expiry.
Cleanup ==
    \E S \in SUBSET {t \in Tokens : sessions[t] # NoSession /\ ~Live(sessions[t])} :
        /\ S # {}
        /\ Node => \A t \in Tokens : sessions[t] # NoSession /\ ~Live(sessions[t]) => t \in S
        /\ sessions' = [t \in Tokens |-> IF t \in S THEN NoSession ELSE sessions[t]]
        /\ UNCHANGED <<deployment, now, lag, raced, flow, page, file, accepted, keys, faults>>

\* The last write reaches every location.
Settle(t) ==
    /\ Workers /\ lag[t] # sessions[t]
    /\ lag' = [lag EXCEPT ![t] = sessions[t]]
    /\ UNCHANGED <<deployment, now, sessions, raced, flow, page, file, accepted, keys, faults>>

\* SIGTERM or the end of the Node.js process: sessions are in memory only.
Restart ==
    /\ Node /\ faults < MaxFaults /\ faults' = faults + 1
    /\ sessions' = [t \in Tokens |-> NoSession]
    /\ UNCHANGED <<deployment, now, lag, raced, flow, page, file, accepted, keys>>

-----------------------------------------------------------------------------
(* Creating a session *)

\* runBridgeFlow(): a key pair, and POST /api/session.
StartFlow(m) ==
    /\ flow[m].pc \in {"idle", "failed"} /\ keys < MaxKeys
    /\ keys' = keys + 1
    /\ FlowTo(m, Flow("create", keys + 1, None, 0, NoSession))
    /\ UNCHANGED <<deployment, now, store, page, file, accepted, faults>>

\* The handler of POST /api/session on Node.js: generateUniqueToken() drops an expired
\* session of the token it takes; the size counts the other expired ones.
CreateSession(m) ==
    /\ Node /\ flow[m].pc = "create"
    /\ \E t \in Tokens :
        /\ ~Live(sessions[t])
        /\ LET others == {u \in Tokens \ {t} : sessions[u] # NoSession} IN
           IF Cardinality(others) >= MaxSessions
           THEN /\ FlowTo(m, Failed)
                /\ sessions' = [sessions EXCEPT ![t] = NoSession]
           ELSE /\ FlowTo(m, Flow("created", flow[m].key, t, 0, NoSession))
                /\ sessions' = [sessions EXCEPT ![t] =
                      [key |-> flow[m].key, expires |-> now + Ttl, by |-> None, for |-> None]]
    /\ UNCHANGED <<deployment, now, lag, raced, page, file, accepted, keys, faults>>

\* Ten draws of a token in use: generateUniqueToken() throws (500), or the Worker gives
\* up (503).
NoTokenLeft(m) ==
    /\ flow[m].pc = "create"
    /\ \E t \in Tokens : \E s \in Gets(t) : Live(s)
    /\ FlowTo(m, Failed)
    /\ UNCHANGED <<deployment, now, store, page, file, accepted, keys, faults>>

\* The Worker: store.has(candidate) is one await ...
PickToken(m) ==
    /\ Workers /\ flow[m].pc = "create"
    /\ \E t \in Tokens : \E s \in Gets(t) :
        /\ ~Live(s)
        /\ FlowTo(m, Flow(IF s = NoSession THEN "put" ELSE "expire", flow[m].key, t, 0, s))
    /\ UNCHANGED <<deployment, now, store, page, file, accepted, keys, faults>>

\* An expired entry is deleted on the way; a flow that polled it is told 404.
ExpireForFlow(m) ==
    /\ flow[m].pc \in {"expire", "expired"}
    /\ Write(flow[m].token, NoSession, flow[m].got)
    /\ FlowTo(m, IF flow[m].pc = "expired" THEN Failed
                 ELSE Flow("put", flow[m].key, flow[m].token, 0, NoSession))
    /\ UNCHANGED <<deployment, now, page, file, accepted, keys, faults>>

\* ... and store.create() another. The get after it may not see the new entry, and then
\* the handler throws.
PutSession(m) ==
    /\ flow[m].pc = "put"
    /\ LET t == flow[m].token
           s == [key |-> flow[m].key, expires |-> now + Ttl, by |-> None, for |-> None]
       IN  /\ Write(t, s, flow[m].got)
           /\ \/ FlowTo(m, Flow("created", flow[m].key, t, 0, NoSession))
              \/ FlowTo(m, Failed)
    /\ UNCHANGED <<deployment, now, page, file, accepted, keys, faults>>

\* The answer: the flow shows code and link, and polls.
Created(m) ==
    /\ flow[m].pc = "created"
    /\ FlowTo(m, Flow("poll", flow[m].key, flow[m].token, now, NoSession))
    /\ UNCHANGED <<deployment, now, store, page, file, accepted, keys, faults>>

\* The session was created but the answer is lost: fetch() throws.
CreateLost(m) ==
    /\ flow[m].pc = "created" /\ faults < MaxFaults
    /\ faults' = faults + 1
    /\ FlowTo(m, Failed)
    /\ UNCHANGED <<deployment, now, store, page, file, accepted, keys>>

-----------------------------------------------------------------------------
(* The browser *)

\* The user scans the code, or types the link, that a machine shows.
Scan(b, m) ==
    /\ page[b].pc = "idle" /\ flow[m].pc = "poll"
    /\ PageTo(b, Page("scanned", flow[m].token, None, NoSession))
    /\ UNCHANGED <<deployment, now, store, flow, file, accepted, keys, faults>>

\* GET /:token redirects to the page, with the session's public key in the hash.
Redirect(b) ==
    /\ Node /\ page[b].pc = "scanned"
    /\ DropExpired(page[b].token)
    /\ PageTo(b, IF Live(sessions[page[b].token])
                 THEN Page("served", page[b].token, sessions[page[b].token].key, NoSession) ELSE NoPage)
    /\ UNCHANGED <<deployment, now, lag, raced, flow, file, accepted, keys, faults>>

RedirectFromKV(b) ==
    /\ Workers /\ page[b].pc = "scanned"
    /\ \E s \in Gets(page[b].token) :
          PageTo(b, IF Live(s) THEN Page("served", page[b].token, s.key, NoSession) ELSE Gone(b, s))
    /\ UNCHANGED <<deployment, now, store, flow, file, accepted, keys, faults>>

\* GET /a/:token serves the page while there is a session.
ServePage(b) ==
    /\ Node /\ page[b].pc = "served"
    /\ DropExpired(page[b].token)
    /\ PageTo(b, IF Live(sessions[page[b].token]) THEN [page[b] EXCEPT !.pc = "page"] ELSE NoPage)
    /\ UNCHANGED <<deployment, now, lag, raced, flow, file, accepted, keys, faults>>

ServePageFromKV(b) ==
    /\ Workers /\ page[b].pc = "served"
    /\ \E s \in Gets(page[b].token) :
          PageTo(b, IF Live(s) THEN [page[b] EXCEPT !.pc = "page"] ELSE Gone(b, s))
    /\ UNCHANGED <<deployment, now, store, flow, file, accepted, keys, faults>>

\* GET /qr/:token on Node.js may forget an expired session, and tells nothing new.
ShowQr(b) ==
    /\ Node /\ page[b].pc = "scanned"
    /\ DropExpired(page[b].token)
    /\ sessions' # sessions
    /\ UNCHANGED <<deployment, now, lag, raced, flow, page, file, accepted, keys, faults>>

\* The page's script encrypts the pasted token for the key in the page's URL.
Encrypted(b, s) == [key |-> s.key, expires |-> s.expires, by |-> b, for |-> page[b].pk]

\* Mutant: a second submission replaces the first.
MutSubmit(b) ==
    /\ Node /\ page[b].pc = "page"
    /\ LET t == page[b].token
           s == sessions[t]
       IN  /\ Live(s)
           /\ sessions' = [sessions EXCEPT ![t] = Encrypted(b, s)]
           /\ accepted' = [accepted EXCEPT ![s.key] = @ \cup {b}]
           /\ PageTo(b, Page("sent", t, page[b].pk, NoSession))
    /\ UNCHANGED <<deployment, now, lag, raced, flow, file, keys, faults>>

\* The handler of POST /api/session/:token on Node.js: get and change in one turn of the
\* event loop. After an error the button is enabled again.
Submit(b) ==
    /\ Node /\ page[b].pc = "page"
    /\ LET t == page[b].token
           s == sessions[t]
       IN  IF Live(s) /\ s.by = None
           THEN /\ sessions' = [sessions EXCEPT ![t] = Encrypted(b, s)]
                /\ accepted' = [accepted EXCEPT ![s.key] = @ \cup {b}]
                /\ PageTo(b, Page("sent", t, page[b].pk, NoSession))
           ELSE /\ DropExpired(t)
                /\ UNCHANGED <<accepted, page>>
    /\ UNCHANGED <<deployment, now, lag, raced, flow, file, keys, faults>>

\* Mutant: the Worker does not look whether the entry already holds a submission.
MutSubmitGet(b) ==
    /\ Workers /\ page[b].pc = "page"
    /\ \E s \in Gets(page[b].token) :
          PageTo(b, IF Live(s) THEN Page("put", page[b].token, page[b].pk, s) ELSE Gone(b, s))
    /\ UNCHANGED <<deployment, now, store, flow, file, accepted, keys, faults>>

\* The Worker's submitCredentials(): a get ...
SubmitGet(b) ==
    /\ Workers /\ page[b].pc = "page"
    /\ \E s \in Gets(page[b].token) :
          IF Live(s) /\ s.by = None
          THEN PageTo(b, Page("put", page[b].token, page[b].pk, s))
          ELSE PageTo(b, IF Live(s) THEN page[b] ELSE Gone(b, s))
    /\ UNCHANGED <<deployment, now, store, flow, file, accepted, keys, faults>>

\* ... and a put of the changed copy, whatever the entry holds by then. A put into an
\* entry that is no longer there makes the session live again.
SubmitPut(b) ==
    /\ page[b].pc = "put"
    /\ LET t == page[b].token
           s == page[b].got
       IN  /\ sessions' = [sessions EXCEPT ![t] = Encrypted(b, s)]
           /\ lag' = [lag EXCEPT ![t] = sessions[t]]
           /\ raced' = IF sessions[t] # s THEN raced \cup {t} ELSE raced
           /\ accepted' = [accepted EXCEPT ![s.key] = @ \cup {b}]
           /\ PageTo(b, Page("sent", t, page[b].pk, NoSession))
    /\ UNCHANGED <<deployment, now, flow, file, keys, faults>>

\* The submission went through and the answer is lost: the page shows an error and lets
\* the user try again.
SubmitLost(b) ==
    /\ page[b].pc = "sent" /\ faults < MaxFaults
    /\ faults' = faults + 1
    /\ PageTo(b, Page("page", page[b].token, page[b].pk, NoSession))
    /\ accepted' = [k \in Keys |-> accepted[k] \ {b}]
    /\ UNCHANGED <<deployment, now, store, flow, file, keys>>

\* KVSessionStore.get() of an expired entry deletes it, one await after it was read.
ExpireEntry(b) ==
    /\ page[b].pc = "expire"
    /\ Write(page[b].token, NoSession, page[b].got)
    /\ PageTo(b, NoPage)
    /\ UNCHANGED <<deployment, now, flow, file, accepted, keys, faults>>

-----------------------------------------------------------------------------
(* Polling, storing, clean-up *)

\* pollAndDecrypt() on the answer to one poll: only the key a submission was encrypted for
\* decrypts it. 404 ends the flow; other errors are polls that did not happen.
Polled(m, s) ==
    \/ ~Live(s) /\ FlowTo(m, IF Node \/ s = NoSession THEN Failed
                             ELSE [flow[m] EXCEPT !.pc = "expired", !.got = s])
    \/ Live(s) /\ s.by # None
       /\ FlowTo(m, IF s.for = flow[m].key THEN [flow[m] EXCEPT !.pc = "store", !.got = s] ELSE Failed)

\* GET /api/session/:token/poll.
Poll(m) ==
    /\ Node /\ flow[m].pc = "poll" /\ now - flow[m].began < Timeout
    /\ Polled(m, sessions[flow[m].token])
    /\ DropExpired(flow[m].token)
    /\ UNCHANGED <<deployment, now, lag, raced, page, file, accepted, keys, faults>>

PollKV(m) ==
    /\ Workers /\ flow[m].pc = "poll" /\ now - flow[m].began < Timeout
    /\ \E s \in Gets(flow[m].token) : Polled(m, s)
    /\ UNCHANGED <<deployment, now, store, page, file, accepted, keys, faults>>

TimedOut(m) ==
    /\ flow[m].pc = "poll" /\ now - flow[m].began >= Timeout
    /\ FlowTo(m, Failed)
    /\ UNCHANGED <<deployment, now, store, page, file, accepted, keys, faults>>

\* storeAccessToken().
StoreAccessToken(m) ==
    /\ flow[m].pc = "store"
    /\ file' = [file EXCEPT ![m] = flow[m].got.by]
    /\ At(m, "delete")
    /\ UNCHANGED <<deployment, now, store, page, accepted, keys, faults>>

\* DELETE /api/session/:token of whatever session the token names by now.
DeleteSession(m) ==
    /\ Node /\ flow[m].pc = "delete"
    /\ sessions' = [sessions EXCEPT ![flow[m].token] = NoSession]
    /\ At(m, "done")
    /\ UNCHANGED <<deployment, now, lag, raced, page, file, accepted, keys, faults>>

DeleteEntry(m) ==
    /\ Workers /\ flow[m].pc = "delete"
    /\ sessions' = [sessions EXCEPT ![flow[m].token] = NoSession]
    /\ lag' = [lag EXCEPT ![flow[m].token] = sessions[flow[m].token]]
    /\ At(m, "done")
    /\ UNCHANGED <<deployment, now, raced, page, file, accepted, keys, faults>>

\* The DELETE fails: the flow reports a failure although the token is stored.
DeleteFails(m) ==
    /\ flow[m].pc = "delete" /\ faults < MaxFaults
    /\ faults' = faults + 1
    /\ FlowTo(m, Failed)
    /\ UNCHANGED <<deployment, now, store, page, file, accepted, keys>>

-----------------------------------------------------------------------------

Next ==
    \/ Tick \/ Cleanup \/ Restart
    \/ \E t \in Tokens : Settle(t)
    \/ \E m \in Machines :
          \/ StartFlow(m) \/ CreateSession(m) \/ NoTokenLeft(m) \/ PickToken(m) \/ ExpireForFlow(m)
          \/ PutSession(m) \/ Created(m) \/ CreateLost(m) \/ Poll(m) \/ PollKV(m) \/ TimedOut(m)
          \/ StoreAccessToken(m) \/ DeleteSession(m) \/ DeleteEntry(m) \/ DeleteFails(m)
    \/ \E b \in Browsers :
          \/ \E m \in Machines : Scan(b, m)
          \/ Redirect(b) \/ RedirectFromKV(b) \/ ServePage(b) \/ ServePageFromKV(b) \/ ShowQr(b) \/ Submit(b) \/ SubmitGet(b) \/ SubmitPut(b)
          \/ SubmitLost(b) \/ ExpireEntry(b)

Spec == Init /\ [][Next]_vars

-----------------------------------------------------------------------------
(* Properties *)

Sessions == [key : Keys \cup {None}, expires : Nat, by : Browsers \cup {None}, for : Keys \cup {None}]

TypeOK ==
    /\ deployment \in {"node", "workers"}
    /\ now \in Nat /\ keys \in 0..MaxKeys /\ faults \in 0..MaxFaults
    /\ sessions \in [Tokens -> Sessions] /\ lag \in [Tokens -> Sessions]
    /\ flow \in [Machines -> [pc : {"idle", "create", "expire", "put", "created", "expired", "poll", "store", "delete", "done", "failed"},
                              key : Keys \cup {None}, token : Tokens \cup {None}, began : Nat, got : Sessions]]
    /\ page \in [Browsers -> [pc : {"idle", "scanned", "served", "page", "put", "sent", "expire"},
                              token : Tokens \cup {None}, pk : Keys \cup {None}, got : Sessions]]
    /\ file \in [Machines -> Browsers \cup {None}]
    /\ raced \subseteq Tokens /\ accepted \in [Keys -> SUBSET Browsers]

Promise == INSTANCE BridgeSession WITH
    session <- [t \in Tokens |-> IF Live(sessions[t]) THEN [key |-> sessions[t].key, by |-> sessions[t].by]
                                 ELSE [key |-> None, by |-> None]],
    raced <- raced

\* Both deployments keep what BridgeSession promises: no token is given to two machines, a
\* submission is never replaced, nothing brings a deleted or expired session back, except
\* where calls on one KV entry interfered.
ImplementsPromise == Promise!Spec

\* When the page tells a user that the token was sent, no other user's token ends up on the
\* machine: what the flow stores is the one submission its session accepted (as long as the
\* flow read its own session, and the token was not given out again meanwhile).
AcceptedIsStored ==
    \A m \in Machines :
        flow[m].pc \in {"delete", "done"} /\ flow[m].token \notin raced /\ flow[m].got.key = flow[m].key
            => accepted[flow[m].key] \subseteq {file[m]}
=============================================================================
