-------------------------- MODULE AuthBridgeProofs --------------------------
(***************************************************************************)
(* Proofs about module AuthBridge: both deployments implement              *)
(* BridgeSession, and a flow stores the submission that was accepted.      *)
(*                                                                         *)
(* A session exists in several copies: the entry, what a lagging get still *)
(* sees of it, and what pages and flows have read.  The invariant follows  *)
(* the copies of a key: they all belong to one token, a flow that has not  *)
(* yet written its session finds none, and unless calls raced, a copy with *)
(* a submission excludes an entry without one.                             *)
(***************************************************************************)
EXTENDS AuthBridge, TLAPS

FlowSet == [pc : {"idle", "create", "expire", "put", "created", "expired", "poll", "store", "delete", "done", "failed"},
            key : Keys \cup {None}, token : Tokens \cup {None}, began : Nat, got : Sessions]

PageSet == [pc : {"idle", "scanned", "served", "page", "put", "sent", "expire"},
            token : Tokens \cup {None}, pk : Keys \cup {None}, got : Sessions]

\* A flow, and the credentials file of its machine.
FlowOK(f, c) ==
    /\ f.pc \notin {"idle", "failed"} => f.key \in Keys
    /\ f.pc \notin {"idle", "failed", "create"} => f.token \in Tokens
    /\ f.pc = "put" => f.got = NoSession
    /\ f.pc \in {"store", "delete", "done"} => f.got.by # None
    /\ f.pc \in {"delete", "done"} => c = f.got.by

PageOK(p) ==
    /\ p.pc # "idle" => p.token \in Tokens
    /\ p.pc = "put" => p.got # NoSession /\ p.got.by = None

\* What flows and pages hold at each place.
PlacesOK ==
    /\ \A m \in Machines : FlowOK(flow[m], file[m])
    /\ \A b \in Browsers : PageOK(page[b])

\* A copy of the entry of token t.
Copy(t, s) ==
    \/ s = sessions[t]
    \/ s = lag[t]
    \/ \E b \in Browsers : page[b].token = t /\ page[b].got = s
    \/ \E m \in Machines : flow[m].token = t /\ flow[m].got = s

\* A flow that still has to write its session.
Creating(f) == f.pc \in {"create", "expire", "put"}

\* The keys handed out so far are those of flows, and no two flows share one.
KeysOfFlows ==
    /\ \A m \in Machines : flow[m].key # None => flow[m].key <= keys
    /\ \A m, n \in Machines : flow[m].key # None /\ flow[m].key = flow[n].key => m = n
    /\ \A k \in Keys : accepted[k] # {} => k <= keys
    /\ \A m \in Machines : Creating(flow[m]) => accepted[flow[m].key] = {}

\* A copy has a key handed out, and not that of a flow which has no session yet.
CopiesKeyed ==
    \A t \in Tokens, s \in Sessions : Copy(t, s) =>
        /\ s = NoSession \/ (s.key \in Keys /\ s.key <= keys)
        /\ \A m \in Machines : Creating(flow[m]) => s.key # flow[m].key

\* All copies of a session are copies of one entry.
CopiesTogether ==
    \A t, u \in Tokens, s, r \in Sessions :
        Copy(t, s) /\ Copy(u, r) /\ s.key = r.key /\ s.key # None => t = u

\* Unless calls raced on the token, a copy with a submission has the only one accepted, and
\* the entry is not without it.
SubmittedOnce ==
    \A t \in Tokens \ raced, s \in Sessions : Copy(t, s) /\ s.by # None =>
        /\ accepted[s.key] \subseteq {s.by}
        /\ sessions[t].key = s.key => sessions[t].by # None

\* Unless calls raced on the token, an entry without a submission has none accepted.
NotYetAccepted ==
    \A t \in Tokens \ raced : sessions[t].key # None /\ sessions[t].by = None
        => accepted[sessions[t].key] = {}

CopiesInv == KeysOfFlows /\ CopiesKeyed /\ CopiesTogether /\ SubmittedOnce /\ NotYetAccepted

IInv == TypeOK /\ PlacesOK /\ CopiesInv

-----------------------------------------------------------------------------
(* Types and places *)

LEMMA NoSessionTyped == NoSession \in Sessions /\ NoSession.by = None /\ NoSession.key = None
BY BridgeAssumption DEF NoSession, Sessions, Keys

\* A get returns a copy of the entry.
LEMMA GetsTyped ==
    ASSUME TypeOK, NEW t \in Tokens, NEW s \in Gets(t)
    PROVE  s \in Sessions /\ Copy(t, s)
<1>1. s \in {sessions[t], lag[t]}
    BY DEF Gets
<1> QED
    BY <1>1 DEF TypeOK, Copy

\* A step of one flow.
LEMMA FlowStep ==
    ASSUME TypeOK, PlacesOK, NEW m \in Machines, NEW f \in FlowSet, FlowTo(m, f),
           FlowOK(f, file'[m]), \A n \in Machines \ {m} : file'[n] = file[n]
    PROVE  /\ flow' \in [Machines -> FlowSet]
           /\ \A n \in Machines : FlowOK(flow'[n], file'[n])
           /\ \A n \in Machines : flow'[n] = IF n = m THEN f ELSE flow[n]
<1>1. flow \in [Machines -> FlowSet]
    BY DEF TypeOK, FlowSet
<1>2. \A n \in Machines : flow'[n] = IF n = m THEN f ELSE flow[n]
    BY <1>1 DEF FlowTo
<1>3. \A n \in Machines : FlowOK(flow'[n], file'[n])
    BY <1>2 DEF PlacesOK
<1> QED
    BY <1>1, <1>2, <1>3 DEF FlowTo

\* A step of one page.
LEMMA PageStep ==
    ASSUME TypeOK, PlacesOK, NEW b \in Browsers, NEW p \in PageSet, PageTo(b, p), PageOK(p)
    PROVE  /\ page' \in [Browsers -> PageSet]
           /\ \A c \in Browsers : PageOK(page'[c])
           /\ \A c \in Browsers : page'[c] = IF c = b THEN p ELSE page[c]
<1>1. page \in [Browsers -> PageSet]
    BY DEF TypeOK, PageSet
<1>2. \A c \in Browsers : page'[c] = IF c = b THEN p ELSE page[c]
    BY <1>1 DEF PageTo
<1>3. \A c \in Browsers : PageOK(page'[c])
    BY <1>2 DEF PlacesOK
<1> QED
    BY <1>1, <1>2, <1>3 DEF PageTo

LEMMA FlowsTyped ==
    /\ \A pc \in {"idle", "create", "expire", "put", "created", "expired", "poll", "store", "delete", "done", "failed"},
          k \in Keys \cup {None}, t \in Tokens \cup {None}, n \in Nat, s \in Sessions :
          Flow(pc, k, t, n, s) \in FlowSet
    /\ NoFlow \in FlowSet /\ Failed \in FlowSet
    /\ \A c : FlowOK(NoFlow, c) /\ FlowOK(Failed, c)
BY NoSessionTyped DEF Flow, FlowSet, NoFlow, Failed, FlowOK

LEMMA PagesTyped ==
    /\ \A pc \in {"idle", "scanned", "served", "page", "put", "sent", "expire"},
          t \in Tokens \cup {None}, k \in Keys \cup {None}, s \in Sessions :
          Page(pc, t, k, s) \in PageSet
    /\ NoPage \in PageSet /\ PageOK(NoPage)
BY NoSessionTyped DEF Page, PageSet, NoPage, PageOK

LEMMA DropExpiredTyped ==
    ASSUME TypeOK, NEW t \in Tokens, DropExpired(t)
    PROVE  /\ sessions' \in [Tokens -> Sessions]
           /\ \A u \in Tokens : \/ sessions'[u] = sessions[u]
                                \/ sessions'[u] = NoSession /\ ~Live(sessions[u])
BY NoSessionTyped DEF TypeOK, DropExpired

LEMMA WriteTyped ==
    ASSUME TypeOK, NEW t \in Tokens, NEW s \in Sessions, NEW seen, Write(t, s, seen)
    PROVE  /\ sessions' \in [Tokens -> Sessions] /\ lag' \in [Tokens -> Sessions]
           /\ raced' \subseteq Tokens /\ raced \subseteq raced'
           /\ \A u \in Tokens : sessions'[u] = IF u = t THEN s ELSE sessions[u]
           /\ \A u \in Tokens : lag'[u] \in {lag[u], sessions[u]}
<1>1. sessions' = [sessions EXCEPT ![t] = s]
    BY DEF Write
<1>2. lag' = IF Node THEN lag ELSE [lag EXCEPT ![t] = sessions[t]]
    BY DEF Write
<1>3. raced' = raced \cup {t} \/ raced' = raced
    BY DEF Write
<1>4. sessions \in [Tokens -> Sessions] /\ lag \in [Tokens -> Sessions] /\ raced \subseteq Tokens
    BY DEF TypeOK
<1> QED
    BY <1>1, <1>2, <1>3, <1>4

-----------------------------------------------------------------------------
(* Steps that make no new copy of a session, and give no key to a flow *)

NoNewCopy ==
    /\ \A t \in Tokens : sessions'[t] \in {sessions[t], NoSession}
    /\ \A t \in Tokens : lag'[t] \in {lag[t], sessions[t]}
    /\ \A m \in Machines : \/ flow'[m].got = NoSession
                           \/ flow'[m].token \in Tokens => Copy(flow'[m].token, flow'[m].got)
    /\ \A b \in Browsers : \/ page'[b].got = NoSession
                           \/ page'[b].token \in Tokens => Copy(page'[b].token, page'[b].got)

LEMMA NoNewCopyKeepsCopies ==
    ASSUME TypeOK, NoNewCopy, NEW t \in Tokens, NEW s \in Sessions, Copy(t, s)'
    PROVE  Copy(t, s) \/ s = NoSession
<1>1. CASE s = sessions'[t]
    BY <1>1 DEF NoNewCopy, Copy
<1>2. CASE s = lag'[t]
    BY <1>2 DEF NoNewCopy, Copy
<1>3. CASE \E b \in Browsers : page'[b].token = t /\ page'[b].got = s
    BY <1>3 DEF NoNewCopy
<1>4. CASE \E m \in Machines : flow'[m].token = t /\ flow'[m].got = s
    BY <1>4 DEF NoNewCopy
<1> QED
    BY <1>1, <1>2, <1>3, <1>4 DEF Copy

LEMMA NoNewCopyInv ==
    ASSUME IInv, TypeOK', NoNewCopy, keys' = keys, raced \subseteq raced',
           \A k \in Keys : accepted'[k] \subseteq accepted[k],
           \A m \in Machines : /\ flow'[m].key \in {flow[m].key, None}
                               /\ Creating(flow'[m]) => Creating(flow[m]) /\ flow'[m].key = flow[m].key
    PROVE  CopiesInv'
<1> USE DEF IInv
<1>1. KeysOfFlows'
    <2>1. \A m \in Machines : flow'[m].key # None => flow'[m].key <= keys'
        BY DEF CopiesInv, KeysOfFlows
    <2>2. \A m, n \in Machines : flow'[m].key # None /\ flow'[m].key = flow'[n].key => m = n
        BY DEF CopiesInv, KeysOfFlows
    <2>3. \A k \in Keys : accepted'[k] # {} => k <= keys'
        BY DEF CopiesInv, KeysOfFlows
    <2>4. ASSUME NEW m \in Machines, Creating(flow'[m])
          PROVE  accepted'[flow'[m].key] = {}
        <3>1. Creating(flow[m]) /\ flow'[m].key = flow[m].key
            BY <2>4
        <3>2. flow[m].key \in Keys
            BY <3>1 DEF PlacesOK, FlowOK, Creating
        <3>3. accepted[flow[m].key] = {}
            BY <3>1 DEF CopiesInv, KeysOfFlows
        <3> QED
            BY <3>1, <3>2, <3>3
    <2> QED
        BY <2>1, <2>2, <2>3, <2>4 DEF KeysOfFlows
<1>2. CopiesKeyed'
    <2>1. SUFFICES ASSUME NEW t \in Tokens, NEW s \in Sessions, Copy(t, s)'
                   PROVE  /\ s = NoSession \/ (s.key \in Keys /\ s.key <= keys')
                          /\ \A m \in Machines : Creating(flow'[m]) => s.key # flow'[m].key
        BY DEF CopiesKeyed
    <2>2. \A m \in Machines : Creating(flow'[m]) => flow[m].key \in Keys
        BY DEF PlacesOK, FlowOK, Creating
    <2>3. CASE s = NoSession
        BY <2>2, <2>3, NoSessionTyped, BridgeAssumption DEF Keys
    <2>4. CASE Copy(t, s)
        BY <2>4 DEF CopiesInv, CopiesKeyed
    <2> QED
        BY <2>1, <2>3, <2>4, NoNewCopyKeepsCopies
<1>3. CopiesTogether'
    <2>1. SUFFICES ASSUME NEW t \in Tokens, NEW u \in Tokens, NEW s \in Sessions, NEW r \in Sessions,
                          Copy(t, s)', Copy(u, r)', s.key = r.key, s.key # None
                   PROVE  t = u
        BY DEF CopiesTogether
    <2>2. Copy(t, s) /\ Copy(u, r)
        BY <2>1, NoNewCopyKeepsCopies, NoSessionTyped
    <2> QED
        BY <2>1, <2>2 DEF CopiesInv, CopiesTogether
<1>4. SubmittedOnce'
    <2>1. SUFFICES ASSUME NEW t \in Tokens \ raced', NEW s \in Sessions, Copy(t, s)', s.by # None
                   PROVE  /\ accepted'[s.key] \subseteq {s.by}
                          /\ sessions'[t].key = s.key => sessions'[t].by # None
        BY DEF SubmittedOnce
    <2>2. Copy(t, s)
        BY <2>1, NoNewCopyKeepsCopies, NoSessionTyped
    <2>3. t \in Tokens \ raced /\ s.key \in Keys
        BY <2>1, <2>2, NoSessionTyped DEF CopiesInv, CopiesKeyed
    <2>4. /\ accepted[s.key] \subseteq {s.by}
          /\ sessions[t].key = s.key => sessions[t].by # None
        BY <2>1, <2>2, <2>3 DEF CopiesInv, SubmittedOnce
    <2>5. sessions'[t] = sessions[t] \/ (sessions'[t] = NoSession /\ NoSession.key # s.key)
        BY <2>3, NoSessionTyped, BridgeAssumption DEF NoNewCopy, Keys
    <2> QED
        BY <2>3, <2>4, <2>5
<1>5. NotYetAccepted'
    <2>1. SUFFICES ASSUME NEW t \in Tokens \ raced', sessions'[t].key # None, sessions'[t].by = None
                   PROVE  accepted'[sessions'[t].key] = {}
        BY DEF NotYetAccepted
    <2>2. sessions'[t] = sessions[t]
        BY <2>1, NoSessionTyped DEF NoNewCopy
    <2>3. sessions[t] \in Sessions /\ sessions[t].key \in Keys
        BY <2>1, <2>2 DEF TypeOK, Sessions
    <2>4. accepted[sessions[t].key] = {}
        BY <2>1, <2>2 DEF CopiesInv, NotYetAccepted
    <2> QED
        BY <2>2, <2>3, <2>4
<1> QED
    BY <1>1, <1>2, <1>3, <1>4, <1>5 DEF CopiesInv

\* The entries stay or go; a get may see what was there before.
StoreShrinks ==
    /\ sessions' \in [Tokens -> Sessions] /\ lag' \in [Tokens -> Sessions]
    /\ raced' \subseteq Tokens /\ raced \subseteq raced'
    /\ \A t \in Tokens : sessions'[t] \in {sessions[t], NoSession}
    /\ \A t \in Tokens : lag'[t] \in {lag[t], sessions[t]}

LEMMA StoreStays ==
    ASSUME TypeOK, UNCHANGED <<lag, raced>>,
           sessions' = sessions \/ \E t \in Tokens : DropExpired(t)
    PROVE  StoreShrinks
<1>1. sessions' \in [Tokens -> Sessions] /\ \A t \in Tokens : sessions'[t] \in {sessions[t], NoSession}
    BY DropExpiredTyped DEF TypeOK
<1> QED
    BY <1>1 DEF TypeOK, StoreShrinks

\* What one flow, or one page, may become without giving it a key or a new copy.
FlowMove(m, f) ==
    /\ f \in FlowSet
    /\ FlowOK(f, file'[m])
    /\ f.key \in {flow[m].key, None}
    /\ Creating(f) => Creating(flow[m]) /\ f.key = flow[m].key
    /\ f.got = NoSession \/ Copy(f.token, f.got)

PageMove(p) ==
    /\ p \in PageSet
    /\ PageOK(p)
    /\ p.got = NoSession \/ Copy(p.token, p.got)

\* A step of one flow that makes no new copy keeps the invariant.
LEMMA FlowMoves ==
    ASSUME IInv, NEW m \in Machines, NEW f, FlowTo(m, f), FlowMove(m, f), StoreShrinks,
           file' \in [Machines -> Browsers \cup {None}],
           \A n \in Machines \ {m} : file'[n] = file[n],
           faults' \in 0..MaxFaults, UNCHANGED <<deployment, now, page, accepted, keys>>
    PROVE  IInv'
<1>1. f \in FlowSet /\ FlowOK(f, file'[m])
    BY DEF FlowMove
<1>2. /\ flow' \in [Machines -> FlowSet]
      /\ \A n \in Machines : FlowOK(flow'[n], file'[n])
      /\ \A n \in Machines : flow'[n] = IF n = m THEN f ELSE flow[n]
    BY <1>1, FlowStep DEF IInv
<1>3. TypeOK'
    BY <1>2 DEF IInv, TypeOK, FlowSet, StoreShrinks
<1>4. PlacesOK'
    BY <1>2 DEF IInv, PlacesOK
<1>5. NoNewCopy
    <2>1. \A n \in Machines : flow[n].token \in Tokens => Copy(flow[n].token, flow[n].got)
        BY DEF Copy
    <2>2. \A b \in Browsers : page[b].token \in Tokens => Copy(page[b].token, page[b].got)
        BY DEF Copy
    <2> QED
        BY <1>2, <2>1, <2>2 DEF NoNewCopy, StoreShrinks, FlowMove
<1>6. \A n \in Machines : /\ flow'[n].key \in {flow[n].key, None}
                          /\ Creating(flow'[n]) => Creating(flow[n]) /\ flow'[n].key = flow[n].key
    BY <1>2 DEF FlowMove
<1>7. CopiesInv'
    BY <1>3, <1>5, <1>6, NoNewCopyInv DEF StoreShrinks
<1> QED
    BY <1>3, <1>4, <1>7 DEF IInv

\* The same for a step of one page.
LEMMA PageMoves ==
    ASSUME IInv, NEW b \in Browsers, NEW p, PageTo(b, p), PageMove(p), StoreShrinks,
           accepted' \in [Keys -> SUBSET Browsers], \A k \in Keys : accepted'[k] \subseteq accepted[k],
           faults' \in 0..MaxFaults, UNCHANGED <<deployment, now, flow, file, keys>>
    PROVE  IInv'
<1>1. p \in PageSet /\ PageOK(p)
    BY DEF PageMove
<1>2. /\ page' \in [Browsers -> PageSet]
      /\ \A c \in Browsers : PageOK(page'[c])
      /\ \A c \in Browsers : page'[c] = IF c = b THEN p ELSE page[c]
    BY <1>1, PageStep DEF IInv
<1>3. TypeOK'
    BY <1>2 DEF IInv, TypeOK, PageSet, StoreShrinks
<1>4. PlacesOK'
    BY <1>2 DEF IInv, PlacesOK
<1>5. NoNewCopy
    <2>1. \A n \in Machines : flow[n].token \in Tokens => Copy(flow[n].token, flow[n].got)
        BY DEF Copy
    <2>2. \A c \in Browsers : page[c].token \in Tokens => Copy(page[c].token, page[c].got)
        BY DEF Copy
    <2> QED
        BY <1>2, <2>1, <2>2 DEF NoNewCopy, StoreShrinks, PageMove
<1>6. CopiesInv'
    BY <1>3, <1>5, NoNewCopyInv DEF StoreShrinks
<1> QED
    BY <1>3, <1>4, <1>6 DEF IInv

\* The same for the store alone.
LEMMA StoreMoves ==
    ASSUME IInv, StoreShrinks, now' \in Nat, faults' \in 0..MaxFaults,
           UNCHANGED <<deployment, flow, page, file, accepted, keys>>
    PROVE  IInv'
<1>1. TypeOK'
    BY DEF IInv, TypeOK, StoreShrinks
<1>2. PlacesOK'
    BY DEF IInv, PlacesOK
<1>3. NoNewCopy
    <2>1. \A n \in Machines : flow[n].token \in Tokens => Copy(flow[n].token, flow[n].got)
        BY DEF Copy
    <2>2. \A c \in Browsers : page[c].token \in Tokens => Copy(page[c].token, page[c].got)
        BY DEF Copy
    <2> QED
        BY <2>1, <2>2 DEF NoNewCopy, StoreShrinks
<1>4. CopiesInv'
    BY <1>1, <1>3, NoNewCopyInv DEF StoreShrinks
<1> QED
    BY <1>1, <1>2, <1>4 DEF IInv

-----------------------------------------------------------------------------
(* The actions *)

LEMMA StoreActions ==
    ASSUME IInv, Tick \/ Cleanup \/ Restart \/ \E t \in Tokens : Settle(t)
    PROVE  IInv'
<1> USE DEF IInv
<1>1. CASE Tick
    <2>1. StoreShrinks
        BY <1>1, StoreStays DEF Tick, store
    <2> QED
        BY <1>1, <2>1, StoreMoves DEF Tick, TypeOK
<1>2. CASE Cleanup
    <2>1. StoreShrinks
        BY <1>2, NoSessionTyped DEF Cleanup, TypeOK, StoreShrinks
    <2> QED
        BY <1>2, <2>1, StoreMoves DEF Cleanup, TypeOK
<1>3. CASE Restart
    <2>1. StoreShrinks
        BY <1>3, NoSessionTyped DEF Restart, TypeOK, StoreShrinks
    <2>2. faults' \in 0..MaxFaults
        BY <1>3, BridgeAssumption DEF Restart, TypeOK
    <2> QED
        BY <1>3, <2>1, <2>2, StoreMoves DEF Restart, TypeOK
<1>4. CASE \E t \in Tokens : Settle(t)
    <2>1. PICK t \in Tokens : Settle(t)
        BY <1>4
    <2>2. StoreShrinks
        BY <2>1 DEF Settle, TypeOK, StoreShrinks
    <2> QED
        BY <2>1, <2>2, StoreMoves DEF Settle, TypeOK
<1> QED
    BY <1>1, <1>2, <1>3, <1>4

LEMMA FailedMove ==
    ASSUME NEW m \in Machines
    PROVE  FlowMove(m, Failed)
BY FlowsTyped DEF FlowMove, Failed, Flow, Creating

\* Setting only the place, or the place and what was read.
LEMMA ReadMove ==
    ASSUME IInv, NEW m \in Machines, flow[m].pc \notin {"idle", "failed", "create"},
           NEW pc \in {"poll", "expired", "store", "delete", "done"}, NEW s \in Sessions,
           Copy(flow[m].token, s), pc \in {"store", "delete", "done"} => s.by # None,
           pc \in {"delete", "done"} => file'[m] = s.by
    PROVE  /\ FlowMove(m, [flow[m] EXCEPT !.pc = pc, !.got = s])
           /\ flow[m].token \in Tokens
<1>1. flow[m] \in FlowSet /\ FlowOK(flow[m], file[m])
    BY DEF IInv, TypeOK, FlowSet, PlacesOK
<1> DEFINE f == [flow[m] EXCEPT !.pc = pc, !.got = s]
<1>2. /\ f \in FlowSet /\ f.pc = pc /\ f.got = s /\ f.key = flow[m].key /\ f.token = flow[m].token
    BY <1>1 DEF FlowSet
<1>3. f.key \in Keys /\ f.token \in Tokens
    BY <1>1, <1>2 DEF FlowOK
<1> QED
    BY <1>2, <1>3 DEF FlowMove, FlowOK, Creating

LEMMA PolledKeeps ==
    ASSUME IInv, NEW m \in Machines, flow[m].pc = "poll", NEW s \in Sessions,
           Copy(flow[m].token, s), Polled(m, s), StoreShrinks,
           UNCHANGED <<deployment, now, page, file, accepted, keys, faults>>
    PROVE  IInv'
<1> USE DEF IInv
<1>1. /\ file' \in [Machines -> Browsers \cup {None}] /\ faults' \in 0..MaxFaults
      /\ \A n \in Machines \ {m} : file'[n] = file[n]
    BY DEF TypeOK
<1>2. CASE FlowTo(m, Failed)
    BY <1>1, <1>2, FlowMoves, FailedMove
<1>3. CASE FlowTo(m, [flow[m] EXCEPT !.pc = "expired", !.got = s])
    BY <1>1, <1>3, FlowMoves, ReadMove, Zenon
<1>4. CASE s.by # None /\ FlowTo(m, [flow[m] EXCEPT !.pc = "store", !.got = s])
    BY <1>1, <1>4, FlowMoves, ReadMove, Zenon
<1> QED
    BY <1>2, <1>3, <1>4 DEF Polled

LEMMA FlowActions ==
    ASSUME IInv, NEW m \in Machines,
           \/ NoTokenLeft(m) \/ PickToken(m) \/ ExpireForFlow(m) \/ Created(m) \/ CreateLost(m)
           \/ Poll(m) \/ PollKV(m) \/ TimedOut(m) \/ StoreAccessToken(m) \/ DeleteSession(m)
           \/ DeleteEntry(m) \/ DeleteFails(m)
    PROVE  IInv'
<1> USE DEF IInv
<1>f. /\ flow[m] \in FlowSet /\ FlowOK(flow[m], file[m])
      /\ flow[m].got \in Sessions
    BY DEF TypeOK, FlowSet, PlacesOK
<1>n. faults \in 0..MaxFaults /\ (faults < MaxFaults => faults + 1 \in 0..MaxFaults)
    BY BridgeAssumption DEF TypeOK
<1>s. ASSUME UNCHANGED file
      PROVE  /\ file' \in [Machines -> Browsers \cup {None}]
             /\ \A n \in Machines \ {m} : file'[n] = file[n]
    BY <1>s DEF TypeOK
<1>1. CASE NoTokenLeft(m) \/ TimedOut(m)
    <2>1. StoreShrinks
        BY <1>1, StoreStays DEF NoTokenLeft, TimedOut, store
    <2> QED
        BY <1>1, <1>n, <1>s, <2>1, FailedMove, FlowMoves DEF NoTokenLeft, TimedOut
<1>2. CASE CreateLost(m) \/ DeleteFails(m)
    <2>1. StoreShrinks
        BY <1>2, StoreStays DEF CreateLost, DeleteFails, store
    <2> QED
        BY <1>2, <1>n, <1>s, <2>1, FailedMove, FlowMoves DEF CreateLost, DeleteFails
<1>3. CASE PickToken(m)
    <2>1. PICK t \in Tokens : \E s \in Gets(t) :
              /\ ~Live(s)
              /\ FlowTo(m, Flow(IF s = NoSession THEN "put" ELSE "expire", flow[m].key, t, 0, s))
        BY <1>3 DEF PickToken
    <2>2. PICK s \in Gets(t) :
              FlowTo(m, Flow(IF s = NoSession THEN "put" ELSE "expire", flow[m].key, t, 0, s))
        BY <2>1
    <2> DEFINE f == Flow(IF s = NoSession THEN "put" ELSE "expire", flow[m].key, t, 0, s)
    <2>3. s \in Sessions /\ Copy(t, s)
        BY GetsTyped
    <2>4. flow[m].pc = "create" /\ flow[m].key \in Keys
        BY <1>3, <1>f DEF PickToken, FlowOK
    <2>5. /\ f \in FlowSet /\ f.key = flow[m].key /\ f.token = t /\ f.got = s
          /\ f.pc = IF s = NoSession THEN "put" ELSE "expire"
        BY <2>3, <2>4, FlowsTyped DEF Flow
    <2>6. FlowMove(m, f)
        BY <2>3, <2>4, <2>5 DEF FlowMove, FlowOK, Creating
    <2>7. StoreShrinks
        BY <1>3, StoreStays DEF PickToken, store
    <2> QED
        BY <1>3, <1>n, <1>s, <2>2, <2>6, <2>7, FlowMoves DEF PickToken
<1>4. CASE ExpireForFlow(m)
    <2>1. flow[m].token \in Tokens /\ flow[m].key \in Keys
        BY <1>4, <1>f DEF ExpireForFlow, FlowOK
    <2>2. Write(flow[m].token, NoSession, flow[m].got)
        BY <1>4 DEF ExpireForFlow
    <2>3. StoreShrinks
        BY <2>1, <2>2, WriteTyped, NoSessionTyped DEF StoreShrinks
    <2>4. CASE FlowTo(m, Failed)
        BY <1>4, <1>n, <1>s, <2>3, <2>4, FailedMove, FlowMoves DEF ExpireForFlow
    <2>5. CASE flow[m].pc = "expire" /\ FlowTo(m, Flow("put", flow[m].key, flow[m].token, 0, NoSession))
        <3>1. FlowMove(m, Flow("put", flow[m].key, flow[m].token, 0, NoSession))
            BY <2>1, <2>5, FlowsTyped, NoSessionTyped DEF Flow, FlowMove, FlowOK, Creating
        <3> QED
            BY <1>4, <1>n, <1>s, <2>3, <2>5, <3>1, FlowMoves DEF ExpireForFlow
    <2> QED
        BY <1>4, <2>4, <2>5 DEF ExpireForFlow
<1>5. CASE Created(m)
    <2>1. flow[m].token \in Tokens /\ flow[m].key \in Keys /\ now \in Nat
        BY <1>5, <1>f DEF Created, FlowOK, TypeOK
    <2>2. FlowMove(m, Flow("poll", flow[m].key, flow[m].token, now, NoSession))
        BY <2>1, FlowsTyped, NoSessionTyped DEF Flow, FlowMove, FlowOK, Creating
    <2>3. StoreShrinks
        BY <1>5, StoreStays DEF Created, store
    <2> QED
        BY <1>5, <1>n, <1>s, <2>2, <2>3, FlowMoves DEF Created
<1>6. CASE Poll(m)
    <2>1. flow[m].token \in Tokens
        BY <1>6, <1>f DEF Poll, FlowOK
    <2>2. StoreShrinks
        BY <1>6, <2>1, StoreStays DEF Poll
    <2>3. sessions[flow[m].token] \in Sessions /\ Copy(flow[m].token, sessions[flow[m].token])
        BY <2>1 DEF TypeOK, Copy
    <2> QED
        BY <1>6, <2>2, <2>3, PolledKeeps DEF Poll
<1>7. CASE PollKV(m)
    <2>1. flow[m].token \in Tokens
        BY <1>7, <1>f DEF PollKV, FlowOK
    <2>2. StoreShrinks
        BY <1>7, StoreStays DEF PollKV, store
    <2>3. PICK s \in Gets(flow[m].token) : Polled(m, s)
        BY <1>7 DEF PollKV
    <2>4. s \in Sessions /\ Copy(flow[m].token, s)
        BY <2>1, GetsTyped
    <2> QED
        BY <1>7, <2>2, <2>3, <2>4, PolledKeeps DEF PollKV
<1>8. CASE StoreAccessToken(m)
    <2>1. flow[m].pc = "store" /\ file' = [file EXCEPT ![m] = flow[m].got.by]
        BY <1>8 DEF StoreAccessToken
    <2>2. flow[m].token \in Tokens /\ flow[m].got.by \in Browsers
        BY <1>f, <2>1 DEF FlowOK, Sessions
    <2>3. /\ file' \in [Machines -> Browsers \cup {None}] /\ file'[m] = flow[m].got.by
          /\ \A n \in Machines \ {m} : file'[n] = file[n]
        BY <2>1, <2>2 DEF TypeOK
    <2>4. Copy(flow[m].token, flow[m].got)
        BY DEF Copy
    <2>5. FlowMove(m, [flow[m] EXCEPT !.pc = "delete", !.got = flow[m].got])
        BY <1>f, <2>1, <2>2, <2>3, <2>4, ReadMove, BridgeAssumption, Zenon
    <2>6. [flow[m] EXCEPT !.pc = "delete", !.got = flow[m].got] = [flow[m] EXCEPT !.pc = "delete"]
        BY <1>f DEF FlowSet
    <2>7. StoreShrinks
        BY <1>8, StoreStays DEF StoreAccessToken, store
    <2> QED
        BY <1>8, <1>n, <2>3, <2>5, <2>6, <2>7, FlowMoves DEF StoreAccessToken, At
<1>9. CASE DeleteSession(m) \/ DeleteEntry(m)
    <2>1. flow[m].pc = "delete" /\ UNCHANGED file
        BY <1>9 DEF DeleteSession, DeleteEntry
    <2>2. flow[m].token \in Tokens /\ flow[m].got.by # None /\ file'[m] = flow[m].got.by
        BY <1>f, <2>1 DEF FlowOK
    <2>3. Copy(flow[m].token, flow[m].got)
        BY DEF Copy
    <2>4. FlowMove(m, [flow[m] EXCEPT !.pc = "done", !.got = flow[m].got])
        BY <1>f, <2>1, <2>2, <2>3, ReadMove, Zenon
    <2>5. [flow[m] EXCEPT !.pc = "done", !.got = flow[m].got] = [flow[m] EXCEPT !.pc = "done"]
        BY <1>f DEF FlowSet
    <2>6. StoreShrinks
        BY <1>9, <2>2, NoSessionTyped DEF DeleteSession, DeleteEntry, TypeOK, StoreShrinks
    <2> QED
        BY <1>9, <1>n, <1>s, <2>1, <2>4, <2>5, <2>6, FlowMoves DEF DeleteSession, DeleteEntry, At
<1> QED
    BY <1>1, <1>2, <1>3, <1>4, <1>5, <1>6, <1>7, <1>8, <1>9

LEMMA GoneMove ==
    ASSUME IInv, NEW b \in Browsers, page[b].token \in Tokens, NEW s \in Sessions, Copy(page[b].token, s)
    PROVE  PageMove(Gone(b, s))
<1>1. PageMove(NoPage)
    BY PagesTyped DEF PageMove, NoPage, Page
<1>2. PageMove(Page("expire", page[b].token, None, s))
    <2>1. Page("expire", page[b].token, None, s) \in PageSet
        BY PagesTyped
    <2> QED
        BY <2>1 DEF PageMove, PageOK, Page
<1> QED
    BY <1>1, <1>2 DEF Gone

\* The steps of a browser other than a submission.
LEMMA PageActions ==
    ASSUME IInv, NEW b \in Browsers,
           \/ \E m \in Machines : Scan(b, m)
           \/ Redirect(b) \/ RedirectFromKV(b) \/ ServePage(b) \/ ServePageFromKV(b) \/ ShowQr(b)
           \/ SubmitGet(b) \/ SubmitLost(b) \/ ExpireEntry(b)
    PROVE  IInv'
<1> USE DEF IInv
<1>p. page[b] \in PageSet /\ PageOK(page[b]) /\ page[b].got \in Sessions /\ page[b].pk \in Keys \cup {None}
    BY DEF TypeOK, PageSet, PlacesOK
<1>n. faults \in 0..MaxFaults /\ (faults < MaxFaults => faults + 1 \in 0..MaxFaults)
    BY BridgeAssumption DEF TypeOK
<1>a. UNCHANGED accepted => /\ accepted' \in [Keys -> SUBSET Browsers]
                            /\ \A k \in Keys : accepted'[k] \subseteq accepted[k]
    BY DEF TypeOK
<1>t. page[b].pc # "idle" => page[b].token \in Tokens
    BY <1>p DEF PageOK
<1>g. PageMove(NoPage)
    BY PagesTyped DEF PageMove, NoPage, Page
<1>r. ASSUME NEW pc \in {"scanned", "served", "page", "sent"}, NEW t \in Tokens, NEW k \in Keys \cup {None}
      PROVE  PageMove(Page(pc, t, k, NoSession))
    <2>1. Page(pc, t, k, NoSession) \in PageSet
        BY PagesTyped, NoSessionTyped
    <2> QED
        BY <2>1 DEF PageMove, PageOK, Page
<1>1. CASE \E m \in Machines : Scan(b, m)
    <2>1. PICK m \in Machines : Scan(b, m)
        BY <1>1
    <2>2. flow[m].token \in Tokens
        BY <2>1 DEF Scan, PlacesOK, FlowOK
    <2>3. StoreShrinks
        BY <2>1, StoreStays DEF Scan, store
    <2> QED
        BY <1>n, <1>a, <1>r, <2>1, <2>2, <2>3, PageMoves DEF Scan
<1>2. CASE Redirect(b)
    <2>1. page[b].token \in Tokens
        BY <1>2, <1>t DEF Redirect
    <2>2. sessions[page[b].token].key \in Keys \cup {None}
        BY <2>1 DEF TypeOK, Sessions
    <2>3. StoreShrinks
        BY <1>2, <2>1, StoreStays DEF Redirect
    <2> QED
        BY <1>2, <1>n, <1>a, <1>r, <1>g, <2>1, <2>2, <2>3, PageMoves DEF Redirect
<1>3. CASE RedirectFromKV(b)
    <2>1. page[b].token \in Tokens
        BY <1>3, <1>t DEF RedirectFromKV
    <2>2. PICK s \in Gets(page[b].token) :
              PageTo(b, IF Live(s) THEN Page("served", page[b].token, s.key, NoSession) ELSE Gone(b, s))
        BY <1>3 DEF RedirectFromKV
    <2>3. s \in Sessions /\ Copy(page[b].token, s) /\ s.key \in Keys \cup {None}
        BY <2>1, GetsTyped DEF Sessions
    <2>4. StoreShrinks
        BY <1>3, StoreStays DEF RedirectFromKV, store
    <2> QED
        BY <1>3, <1>n, <1>a, <1>r, <2>1, <2>2, <2>3, <2>4, GoneMove, PageMoves DEF RedirectFromKV
<1>4. CASE ServePage(b)
    <2>1. page[b].token \in Tokens
        BY <1>4, <1>t DEF ServePage
    <2>2. StoreShrinks
        BY <1>4, <2>1, StoreStays DEF ServePage
    <2>3. PageMove([page[b] EXCEPT !.pc = "page"])
        <3>1. Copy(page[b].token, page[b].got)
            BY DEF Copy
        <3> QED
            BY <1>p, <2>1, <3>1 DEF PageMove, PageOK, PageSet
    <2> QED
        BY <1>4, <1>n, <1>a, <1>g, <2>2, <2>3, PageMoves DEF ServePage
<1>5. CASE ServePageFromKV(b)
    <2>1. page[b].token \in Tokens
        BY <1>5, <1>t DEF ServePageFromKV
    <2>2. PICK s \in Gets(page[b].token) :
              PageTo(b, IF Live(s) THEN [page[b] EXCEPT !.pc = "page"] ELSE Gone(b, s))
        BY <1>5 DEF ServePageFromKV
    <2>3. s \in Sessions /\ Copy(page[b].token, s)
        BY <2>1, GetsTyped
    <2>4. StoreShrinks
        BY <1>5, StoreStays DEF ServePageFromKV, store
    <2>5. PageMove([page[b] EXCEPT !.pc = "page"])
        <3>1. Copy(page[b].token, page[b].got)
            BY DEF Copy
        <3> QED
            BY <1>p, <2>1, <3>1 DEF PageMove, PageOK, PageSet
    <2> QED
        BY <1>5, <1>n, <1>a, <2>1, <2>2, <2>3, <2>4, <2>5, GoneMove, PageMoves DEF ServePageFromKV
<1>6. CASE ShowQr(b)
    <2>1. page[b].token \in Tokens
        BY <1>6, <1>t DEF ShowQr
    <2>2. StoreShrinks
        BY <1>6, <2>1, StoreStays DEF ShowQr
    <2> QED
        BY <1>6, <1>n, <2>2, StoreMoves DEF ShowQr, TypeOK
<1>7. CASE SubmitGet(b)
    <2>1. page[b].token \in Tokens
        BY <1>7, <1>t DEF SubmitGet
    <2>2. PICK s \in Gets(page[b].token) :
              IF Live(s) /\ s.by = None
              THEN PageTo(b, Page("put", page[b].token, page[b].pk, s))
              ELSE PageTo(b, IF Live(s) THEN page[b] ELSE Gone(b, s))
        BY <1>7 DEF SubmitGet
    <2>3. s \in Sessions /\ Copy(page[b].token, s)
        BY <2>1, GetsTyped
    <2>4. StoreShrinks
        BY <1>7, StoreStays DEF SubmitGet, store
    <2>5. PageMove(page[b])
        BY <1>p DEF PageMove, Copy
    <2>6. Live(s) /\ s.by = None => PageMove(Page("put", page[b].token, page[b].pk, s))
        <3>1. Page("put", page[b].token, page[b].pk, s) \in PageSet
            BY <1>p, <2>1, <2>3, PagesTyped
        <3> QED
            BY <2>1, <2>3, <3>1 DEF PageMove, PageOK, Page, Live
    <2> QED
        BY <1>7, <1>n, <1>a, <2>1, <2>2, <2>3, <2>4, <2>5, <2>6, GoneMove, PageMoves DEF SubmitGet
<1>8. CASE SubmitLost(b)
    <2>1. page[b].token \in Tokens
        BY <1>8, <1>t DEF SubmitLost
    <2>2. StoreShrinks
        BY <1>8, StoreStays DEF SubmitLost, store
    <2>3. /\ accepted' \in [Keys -> SUBSET Browsers]
          /\ \A k \in Keys : accepted'[k] \subseteq accepted[k]
        BY <1>8 DEF SubmitLost, TypeOK
    <2> QED
        BY <1>8, <1>n, <1>p, <1>r, <2>1, <2>2, <2>3, PageMoves DEF SubmitLost
<1>9. CASE ExpireEntry(b)
    <2>1. page[b].token \in Tokens
        BY <1>9, <1>t DEF ExpireEntry
    <2>2. Write(page[b].token, NoSession, page[b].got)
        BY <1>9 DEF ExpireEntry
    <2>3. StoreShrinks
        BY <2>1, <2>2, WriteTyped, NoSessionTyped DEF StoreShrinks
    <2> QED
        BY <1>9, <1>n, <1>a, <1>g, <2>3, PageMoves DEF ExpireEntry
<1> QED
    BY <1>1, <1>2, <1>3, <1>4, <1>5, <1>6, <1>7, <1>8, <1>9

\* A flow gets the next key.
LEMMA StartFlowKeeps ==
    ASSUME IInv, NEW m \in Machines, StartFlow(m)
    PROVE  IInv'
<1> USE DEF IInv
<1> DEFINE f == Flow("create", keys + 1, None, 0, NoSession)
<1>1. keys' = keys + 1 /\ keys' \in Keys /\ keys \in Nat
    BY BridgeAssumption DEF StartFlow, TypeOK, Keys
<1>2. /\ f \in FlowSet /\ f.pc = "create" /\ f.key = keys' /\ f.token = None /\ f.got = NoSession
    BY <1>1, FlowsTyped, NoSessionTyped DEF Flow, StartFlow
<1>3. UNCHANGED <<deployment, now, sessions, lag, raced, page, file, accepted, faults>>
    BY DEF StartFlow, store
<1>4. /\ flow' \in [Machines -> FlowSet]
      /\ \A n \in Machines : FlowOK(flow'[n], file'[n])
      /\ \A n \in Machines : flow'[n] = IF n = m THEN f ELSE flow[n]
    <2>1. FlowTo(m, f) /\ FlowOK(f, file'[m])
        BY <1>1, <1>2 DEF StartFlow, FlowOK
    <2> QED
        BY <1>2, <1>3, <2>1, FlowStep
<1> HIDE DEF f
<1>5. TypeOK'
    <2>1. keys' \in 0..MaxKeys
        BY <1>1 DEF Keys
    <2> QED
        BY <1>3, <1>4, <2>1 DEF TypeOK, FlowSet
<1>6. PlacesOK'
    BY <1>3, <1>4 DEF PlacesOK
<1>7. \A t \in Tokens, s \in Sessions : Copy(t, s)' => Copy(t, s)
    BY <1>2, <1>3, <1>4, BridgeAssumption DEF Copy
<1>8. KeysOfFlows'
    <2>1. \A n \in Machines : flow[n].key \in Keys \cup {None}
        BY DEF TypeOK
    <2>2. \A n \in Machines : flow[n].key # None => flow[n].key <= keys /\ flow[n].key # keys'
        BY <1>1, <2>1 DEF CopiesInv, KeysOfFlows, Keys
    <2>3. \A n \in Machines : flow'[n].key # None => flow'[n].key <= keys'
        BY <1>1, <1>2, <1>4, <2>1, <2>2 DEF Keys
    <2>4. \A n, o \in Machines : flow'[n].key # None /\ flow'[n].key = flow'[o].key => n = o
        BY <1>2, <1>4, <2>2 DEF CopiesInv, KeysOfFlows
    <2>5. \A k \in Keys : accepted'[k] # {} => k <= keys /\ k <= keys'
        BY <1>1, <1>3 DEF CopiesInv, KeysOfFlows, Keys
    <2>6. \A n \in Machines : Creating(flow'[n]) => accepted'[flow'[n].key] = {}
        <3>1. accepted'[keys'] = {}
            BY <1>1, <2>5
        <3> QED
            BY <1>2, <1>3, <1>4, <3>1 DEF CopiesInv, KeysOfFlows
    <2> QED
        BY <2>3, <2>4, <2>5, <2>6 DEF KeysOfFlows
<1>9. CopiesKeyed'
    <2>1. SUFFICES ASSUME NEW t \in Tokens, NEW s \in Sessions, Copy(t, s)
                   PROVE  /\ s = NoSession \/ (s.key \in Keys /\ s.key <= keys')
                          /\ \A n \in Machines : Creating(flow'[n]) => s.key # flow'[n].key
        BY <1>7 DEF CopiesKeyed
    <2>2. /\ s = NoSession \/ (s.key \in Keys /\ s.key <= keys)
          /\ \A n \in Machines : Creating(flow[n]) => s.key # flow[n].key
        BY <2>1 DEF CopiesInv, CopiesKeyed
    <2>3. s.key # keys' /\ (s = NoSession \/ (s.key \in Keys /\ s.key <= keys'))
        BY <1>1, <2>2, NoSessionTyped, BridgeAssumption DEF Keys
    <2> QED
        BY <1>2, <1>4, <2>2, <2>3
<1>10. CopiesTogether' /\ SubmittedOnce' /\ NotYetAccepted'
    BY <1>3, <1>7 DEF CopiesInv, CopiesTogether, SubmittedOnce, NotYetAccepted
<1> QED
    BY <1>5, <1>6, <1>8, <1>9, <1>10 DEF CopiesInv

\* A session for the key of a flow is written into the entry of t.
LEMMA NewSession ==
    ASSUME IInv, NEW m \in Machines, NEW t \in Tokens, Creating(flow[m]),
           NEW f \in FlowSet, FlowTo(m, f), FlowOK(f, file[m]), ~Creating(f),
           f.got = NoSession, f.key \in {flow[m].key, None},
           NEW s \in Sessions, s.key = flow[m].key, s.by = None,
           sessions' = [sessions EXCEPT ![t] = s],
           lag' \in [Tokens -> Sessions], \A u \in Tokens : lag'[u] \in {lag[u], sessions[u]},
           raced' \subseteq Tokens, raced \subseteq raced',
           UNCHANGED <<deployment, now, page, file, accepted, keys, faults>>
    PROVE  IInv'
<1> USE DEF IInv
<1>1. /\ flow' \in [Machines -> FlowSet]
      /\ \A n \in Machines : FlowOK(flow'[n], file'[n])
      /\ \A n \in Machines : flow'[n] = IF n = m THEN f ELSE flow[n]
    BY FlowStep
<1>2. /\ sessions' \in [Tokens -> Sessions]
      /\ \A u \in Tokens : sessions'[u] = IF u = t THEN s ELSE sessions[u]
    BY DEF TypeOK
<1>3. TypeOK'
    BY <1>1, <1>2 DEF TypeOK, FlowSet
<1>4. PlacesOK'
    BY <1>1 DEF PlacesOK
<1>5. flow[m].key \in Keys /\ s.key \in Keys
    BY DEF PlacesOK, FlowOK, Creating
<1>6. ASSUME NEW u \in Tokens, NEW r \in Sessions, Copy(u, r)'
      PROVE  Copy(u, r) \/ r = NoSession \/ (u = t /\ r = s)
    <2>1. CASE r = sessions'[u]
        BY <1>2, <2>1 DEF Copy
    <2>2. CASE r = lag'[u]
        BY <2>2 DEF Copy
    <2>3. CASE \E b \in Browsers : page'[b].token = u /\ page'[b].got = r
        BY <2>3 DEF Copy
    <2>4. CASE \E n \in Machines : flow'[n].token = u /\ flow'[n].got = r
        BY <1>1, <2>4 DEF Copy
    <2> QED
        BY <1>6, <2>1, <2>2, <2>3, <2>4 DEF Copy
<1>7. \A u \in Tokens, r \in Sessions : Copy(u, r) => r.key # s.key
    BY DEF CopiesInv, CopiesKeyed
<1>8. KeysOfFlows'
    BY <1>1, <1>5 DEF CopiesInv, KeysOfFlows
<1>9. CopiesKeyed'
    <2>1. SUFFICES ASSUME NEW u \in Tokens, NEW r \in Sessions, Copy(u, r)'
                   PROVE  /\ r = NoSession \/ (r.key \in Keys /\ r.key <= keys')
                          /\ \A n \in Machines : Creating(flow'[n]) => r.key # flow'[n].key
        BY DEF CopiesKeyed
    <2>2. \A n \in Machines : Creating(flow'[n]) => n # m /\ flow'[n] = flow[n] /\ flow[n].key \in Keys
        BY <1>1 DEF PlacesOK, FlowOK, Creating
    <2>3. CASE r = NoSession
        BY <2>2, <2>3, NoSessionTyped, BridgeAssumption DEF Keys
    <2>4. CASE Copy(u, r)
        BY <2>2, <2>4 DEF CopiesInv, CopiesKeyed
    <2>5. CASE r = s
        <3>1. s.key <= keys
            BY <1>5, BridgeAssumption DEF CopiesInv, KeysOfFlows, Keys
        <3>2. \A n \in Machines : n # m => flow[n].key # s.key
            BY <1>5, BridgeAssumption DEF CopiesInv, KeysOfFlows, Keys
        <3> QED
            BY <1>5, <2>2, <2>5, <3>1, <3>2
    <2> QED
        BY <1>6, <2>1, <2>3, <2>4, <2>5
<1>10. CopiesTogether'
    <2>1. SUFFICES ASSUME NEW u \in Tokens, NEW v \in Tokens, NEW r \in Sessions, NEW q \in Sessions,
                          Copy(u, r)', Copy(v, q)', r.key = q.key, r.key # None
                   PROVE  u = v
        BY DEF CopiesTogether
    <2>2. Copy(u, r) \/ (u = t /\ r = s)
        BY <1>6, <2>1, NoSessionTyped
    <2>3. Copy(v, q) \/ (v = t /\ q = s)
        BY <1>6, <2>1, NoSessionTyped
    <2> QED
        BY <1>7, <2>1, <2>2, <2>3 DEF CopiesInv, CopiesTogether
<1>11. SubmittedOnce'
    <2>1. SUFFICES ASSUME NEW u \in Tokens \ raced', NEW r \in Sessions, Copy(u, r)', r.by # None
                   PROVE  /\ accepted'[r.key] \subseteq {r.by}
                          /\ sessions'[u].key = r.key => sessions'[u].by # None
        BY DEF SubmittedOnce
    <2>2. Copy(u, r)
        BY <1>6, <2>1, NoSessionTyped
    <2>3. /\ accepted[r.key] \subseteq {r.by}
          /\ sessions[u].key = r.key => sessions[u].by # None
        BY <2>1, <2>2 DEF CopiesInv, SubmittedOnce
    <2> QED
        BY <1>2, <1>7, <2>2, <2>3
<1>12. NotYetAccepted'
    <2>1. accepted[s.key] = {}
        BY DEF CopiesInv, KeysOfFlows
    <2> QED
        BY <1>2, <2>1 DEF CopiesInv, NotYetAccepted
<1> QED
    BY <1>3, <1>4, <1>8, <1>9, <1>10, <1>11, <1>12 DEF CopiesInv

\* A submission: the copy s of the entry of t, which has none, comes back filled by b.
LEMMA Submission ==
    ASSUME IInv, NEW b \in Browsers, NEW t \in Tokens, NEW s \in Sessions, Copy(t, s),
           s # NoSession, s.by = None, NEW p \in PageSet, PageTo(b, p), PageOK(p), p.got = NoSession,
           sessions' = [sessions EXCEPT ![t] = Encrypted(b, s)],
           lag' \in [Tokens -> Sessions], \A u \in Tokens : lag'[u] \in {lag[u], sessions[u]},
           raced' \subseteq Tokens, raced \subseteq raced', t \notin raced' => sessions[t] = s,
           accepted' = [accepted EXCEPT ![s.key] = @ \cup {b}],
           UNCHANGED <<deployment, now, flow, file, keys, faults>>
    PROVE  IInv'
<1> USE DEF IInv
<1> DEFINE e == Encrypted(b, s)
<1>1. /\ page' \in [Browsers -> PageSet]
      /\ \A c \in Browsers : PageOK(page'[c])
      /\ \A c \in Browsers : page'[c] = IF c = b THEN p ELSE page[c]
    BY PageStep
<1>2. e \in Sessions /\ e.key = s.key /\ e.by = b
    BY DEF TypeOK, PageSet, Sessions, Encrypted
<1>3. s.key \in Keys /\ s.key # None
    BY BridgeAssumption DEF CopiesInv, CopiesKeyed, Keys
<1> HIDE DEF e
<1>4. /\ sessions' \in [Tokens -> Sessions]
      /\ \A u \in Tokens : sessions'[u] = IF u = t THEN e ELSE sessions[u]
    BY <1>2 DEF TypeOK, e
<1>5. /\ accepted' \in [Keys -> SUBSET Browsers]
      /\ \A k \in Keys : accepted'[k] = IF k = s.key THEN accepted[k] \cup {b} ELSE accepted[k]
    BY <1>3 DEF TypeOK
<1>6. TypeOK'
    BY <1>1, <1>4, <1>5 DEF TypeOK, PageSet
<1>7. PlacesOK'
    BY <1>1 DEF PlacesOK
<1>8. ASSUME NEW u \in Tokens, NEW r \in Sessions, Copy(u, r)'
      PROVE  Copy(u, r) \/ r = NoSession \/ (u = t /\ r = e)
    <2>1. CASE r = sessions'[u]
        BY <1>4, <2>1 DEF Copy
    <2>2. CASE r = lag'[u]
        BY <2>2 DEF Copy
    <2>3. CASE \E c \in Browsers : page'[c].token = u /\ page'[c].got = r
        BY <1>1, <2>3 DEF Copy
    <2>4. CASE \E n \in Machines : flow'[n].token = u /\ flow'[n].got = r
        BY <2>4 DEF Copy
    <2> QED
        BY <1>8, <2>1, <2>2, <2>3, <2>4 DEF Copy
<1>9. \A u \in Tokens, r \in Sessions : Copy(u, r) /\ r.key = s.key => u = t
    BY <1>3 DEF CopiesInv, CopiesTogether
<1>10. \A n \in Machines : Creating(flow[n]) => flow[n].key \in Keys /\ flow[n].key # s.key
    BY DEF CopiesInv, CopiesKeyed, PlacesOK, FlowOK, Creating
<1>11. KeysOfFlows'
    <2>1. s.key <= keys
        BY DEF CopiesInv, CopiesKeyed
    <2> QED
        BY <1>5, <1>10, <2>1 DEF CopiesInv, KeysOfFlows
<1>12. CopiesKeyed'
    <2>1. SUFFICES ASSUME NEW u \in Tokens, NEW r \in Sessions, Copy(u, r)'
                   PROVE  /\ r = NoSession \/ (r.key \in Keys /\ r.key <= keys')
                          /\ \A n \in Machines : Creating(flow[n]) => r.key # flow[n].key
        BY DEF CopiesKeyed
    <2>2. CASE r = NoSession
        BY <1>10, <2>2, NoSessionTyped, BridgeAssumption DEF Keys
    <2>3. CASE Copy(u, r)
        BY <2>3 DEF CopiesInv, CopiesKeyed
    <2>4. CASE r = e
        BY <1>2, <1>3, <1>10, <2>4 DEF CopiesInv, CopiesKeyed
    <2> QED
        BY <1>8, <2>1, <2>2, <2>3, <2>4
<1>13. CopiesTogether'
    <2>1. SUFFICES ASSUME NEW u \in Tokens, NEW v \in Tokens, NEW r \in Sessions, NEW q \in Sessions,
                          Copy(u, r)', Copy(v, q)', r.key = q.key, r.key # None
                   PROVE  u = v
        BY DEF CopiesTogether
    <2>2. Copy(u, r) \/ (u = t /\ r = e)
        BY <1>8, <2>1, NoSessionTyped
    <2>3. Copy(v, q) \/ (v = t /\ q = e)
        BY <1>8, <2>1, NoSessionTyped
    <2> QED
        BY <1>2, <1>9, <2>1, <2>2, <2>3 DEF CopiesInv, CopiesTogether
<1>14. SubmittedOnce'
    <2>1. SUFFICES ASSUME NEW u \in Tokens \ raced', NEW r \in Sessions, Copy(u, r)', r.by # None
                   PROVE  /\ accepted'[r.key] \subseteq {r.by}
                          /\ sessions'[u].key = r.key => sessions'[u].by # None
        BY DEF SubmittedOnce
    <2>2. b # None
        BY BridgeAssumption
    <2>3. CASE u = t /\ r = e
        <3>1. sessions[t] = s /\ accepted[s.key] = {}
            BY <1>3, <2>1, <2>3 DEF CopiesInv, NotYetAccepted
        <3> QED
            BY <1>2, <1>3, <1>4, <1>5, <2>2, <2>3, <3>1
    <2>4. CASE Copy(u, r)
        <3>1. /\ accepted[r.key] \subseteq {r.by}
              /\ sessions[u].key = r.key => sessions[u].by # None
            BY <2>1, <2>4 DEF CopiesInv, SubmittedOnce
        <3>2. r.key # s.key
            BY <1>9, <2>1, <2>4, <3>1
        <3>3. r.key \in Keys
            BY <2>1, <2>4, NoSessionTyped DEF CopiesInv, CopiesKeyed
        <3> QED
            BY <1>2, <1>4, <1>5, <2>2, <3>1, <3>2, <3>3
    <2> QED
        BY <1>8, <2>1, <2>3, <2>4, NoSessionTyped
<1>15. NotYetAccepted'
    <2>1. SUFFICES ASSUME NEW u \in Tokens \ raced', sessions'[u].key # None, sessions'[u].by = None
                   PROVE  accepted'[sessions'[u].key] = {}
        BY DEF NotYetAccepted
    <2>2. u # t /\ sessions'[u] = sessions[u]
        BY <1>2, <1>4, <2>1, BridgeAssumption
    <2>3. sessions[u] \in Sessions /\ Copy(u, sessions[u]) /\ sessions[u].key \in Keys
        BY <2>1, <2>2 DEF TypeOK, Sessions, Copy
    <2>4. sessions[u].key # s.key
        BY <1>9, <2>2, <2>3
    <2>5. accepted[sessions[u].key] = {}
        BY <2>1, <2>2 DEF CopiesInv, NotYetAccepted
    <2> QED
        BY <1>5, <2>2, <2>3, <2>4, <2>5
<1> QED
    BY <1>6, <1>7, <1>11, <1>12, <1>13, <1>14, <1>15 DEF CopiesInv

LEMMA CreateActions ==
    ASSUME IInv, NEW m \in Machines, CreateSession(m) \/ PutSession(m)
    PROVE  IInv'
<1> USE DEF IInv
<1> DEFINE s == [key |-> flow[m].key, expires |-> now + Ttl, by |-> None, for |-> None]
<1>1. flow[m].key \in Keys /\ Creating(flow[m])
    BY DEF CreateSession, PutSession, PlacesOK, FlowOK, Creating
<1>2. s \in Sessions /\ s.key = flow[m].key /\ s.by = None
    BY <1>1, BridgeAssumption DEF TypeOK, Sessions
<1>3. ASSUME NEW t \in Tokens
      PROVE  LET f == Flow("created", flow[m].key, t, 0, NoSession)
             IN  f \in FlowSet /\ FlowOK(f, file[m]) /\ ~Creating(f) /\ f.got = NoSession /\ f.key = flow[m].key
    BY <1>1, FlowsTyped, NoSessionTyped DEF Flow, FlowOK, Creating
<1>4. Failed \in FlowSet /\ FlowOK(Failed, file[m]) /\ ~Creating(Failed) /\ Failed.got = NoSession /\ Failed.key = None
    BY FlowsTyped DEF Failed, Flow, Creating
<1>5. CASE CreateSession(m)
    <2>1. PICK t \in Tokens :
            \/ /\ FlowTo(m, Failed)
               /\ sessions' = [sessions EXCEPT ![t] = NoSession]
            \/ /\ FlowTo(m, Flow("created", flow[m].key, t, 0, NoSession))
               /\ sessions' = [sessions EXCEPT ![t] = s]
        BY <1>5 DEF CreateSession
    <2>2. UNCHANGED <<deployment, now, lag, raced, page, file, accepted, keys, faults>>
        BY <1>5 DEF CreateSession
    <2>3. CASE FlowTo(m, Failed) /\ sessions' = [sessions EXCEPT ![t] = NoSession]
        <3>1. StoreShrinks
            BY <2>2, <2>3, NoSessionTyped DEF TypeOK, StoreShrinks
        <3>2. /\ file' \in [Machines -> Browsers \cup {None}] /\ faults' \in 0..MaxFaults
              /\ \A n \in Machines \ {m} : file'[n] = file[n]
            BY <2>2 DEF TypeOK
        <3> QED
            BY <2>2, <2>3, <3>1, <3>2, FailedMove, FlowMoves
    <2>4. CASE /\ FlowTo(m, Flow("created", flow[m].key, t, 0, NoSession))
               /\ sessions' = [sessions EXCEPT ![t] = s]
        <3>1. /\ lag' \in [Tokens -> Sessions] /\ \A u \in Tokens : lag'[u] \in {lag[u], sessions[u]}
              /\ raced' \subseteq Tokens /\ raced \subseteq raced'
            BY <2>2 DEF TypeOK
        <3> HIDE DEF s
        <3> QED
            BY <1>1, <1>2, <1>3, <2>2, <2>4, <3>1, NewSession
    <2> QED
        BY <2>1, <2>3, <2>4
<1>6. CASE PutSession(m)
    <2> DEFINE t == flow[m].token
    <2>1. t \in Tokens
        BY <1>6 DEF PutSession, PlacesOK, FlowOK
    <2>2. Write(t, s, flow[m].got)
        BY <1>6 DEF PutSession
    <2> HIDE DEF s
    <2>3. /\ lag' \in [Tokens -> Sessions] /\ \A u \in Tokens : lag'[u] \in {lag[u], sessions[u]}
          /\ raced' \subseteq Tokens /\ raced \subseteq raced'
        BY <1>2, <2>1, <2>2, WriteTyped
    <2>4. sessions' = [sessions EXCEPT ![t] = s]
        BY <2>2 DEF Write
    <2>5. UNCHANGED <<deployment, now, page, file, accepted, keys, faults>>
        BY <1>6 DEF PutSession
    <2>6. FlowTo(m, Flow("created", flow[m].key, t, 0, NoSession)) \/ FlowTo(m, Failed)
        BY <1>6 DEF PutSession
    <2> HIDE DEF t
    <2> QED
        BY <1>1, <1>2, <1>3, <1>4, <2>1, <2>3, <2>4, <2>5, <2>6, NewSession
<1> QED
    BY <1>5, <1>6

LEMMA SubmitActions ==
    ASSUME IInv, NEW b \in Browsers, Submit(b) \/ SubmitPut(b)
    PROVE  IInv'
<1> USE DEF IInv
<1> DEFINE t == page[b].token
           p == Page("sent", t, page[b].pk, NoSession)
<1>1. t \in Tokens /\ page[b].pk \in Keys \cup {None} /\ page[b].got \in Sessions
    BY DEF Submit, SubmitPut, PlacesOK, PageOK, TypeOK
<1>2. p \in PageSet /\ PageOK(p) /\ p.got = NoSession
    <2>1. p \in PageSet
        BY <1>1, PagesTyped, NoSessionTyped
    <2> QED
        BY <1>1, <2>1 DEF Page, PageOK
<1>3. CASE Submit(b)
    <2>1. UNCHANGED <<deployment, now, lag, raced, flow, file, keys, faults>>
        BY <1>3 DEF Submit
    <2>2. CASE Live(sessions[t]) /\ sessions[t].by = None
        <3>1. /\ sessions' = [sessions EXCEPT ![t] = Encrypted(b, sessions[t])]
              /\ accepted' = [accepted EXCEPT ![sessions[t].key] = @ \cup {b}]
              /\ PageTo(b, p)
            BY <1>3, <2>2 DEF Submit
        <3>2. sessions[t] \in Sessions /\ Copy(t, sessions[t]) /\ sessions[t] # NoSession
            BY <1>1, <2>2 DEF TypeOK, Copy, Live
        <3>3. /\ lag' \in [Tokens -> Sessions] /\ \A u \in Tokens : lag'[u] \in {lag[u], sessions[u]}
              /\ raced' \subseteq Tokens /\ raced \subseteq raced'
            BY <2>1 DEF TypeOK
        <3> HIDE DEF t, p
        <3> QED
            BY <1>1, <1>2, <2>1, <2>2, <3>1, <3>2, <3>3, Submission
    <2>3. CASE ~(Live(sessions[t]) /\ sessions[t].by = None)
        <3>1. DropExpired(t) /\ UNCHANGED <<accepted, page>>
            BY <1>3, <2>3 DEF Submit
        <3>2. StoreShrinks
            BY <1>1, <2>1, <3>1, StoreStays
        <3> QED
            BY <2>1, <3>1, <3>2, StoreMoves DEF TypeOK
    <2> QED
        BY <2>2, <2>3
<1>4. CASE SubmitPut(b)
    <2> DEFINE s == page[b].got
    <2>1. /\ sessions' = [sessions EXCEPT ![t] = Encrypted(b, s)]
          /\ lag' = [lag EXCEPT ![t] = sessions[t]]
          /\ raced' = IF sessions[t] # s THEN raced \cup {t} ELSE raced
          /\ accepted' = [accepted EXCEPT ![s.key] = @ \cup {b}]
          /\ PageTo(b, p)
          /\ UNCHANGED <<deployment, now, flow, file, keys, faults>>
        BY <1>4 DEF SubmitPut
    <2>2. s \in Sessions /\ Copy(t, s) /\ s # NoSession /\ s.by = None
        BY <1>1, <1>4 DEF SubmitPut, PlacesOK, PageOK, Copy
    <2>3. /\ lag' \in [Tokens -> Sessions] /\ \A u \in Tokens : lag'[u] \in {lag[u], sessions[u]}
          /\ raced' \subseteq Tokens /\ raced \subseteq raced' /\ (t \notin raced' => sessions[t] = s)
        BY <1>1, <2>1 DEF TypeOK
    <2> HIDE DEF t, p, s
    <2> QED
        BY <1>1, <1>2, <2>1, <2>2, <2>3, Submission
<1> QED
    BY <1>3, <1>4

-----------------------------------------------------------------------------
(* The invariant *)

LEMMA InvInit == Init => IInv
<1> SUFFICES ASSUME Init PROVE IInv
    OBVIOUS
<1>1. /\ \A m \in Machines : flow[m] = NoFlow /\ file[m] = None
      /\ \A b \in Browsers : page[b] = NoPage
      /\ \A t \in Tokens : sessions[t] = NoSession /\ lag[t] = NoSession
      /\ \A k \in Keys : accepted[k] = {}
    BY DEF Init
<1>2. TypeOK
    <2>1. flow \in [Machines -> FlowSet] /\ page \in [Browsers -> PageSet]
        BY FlowsTyped, PagesTyped DEF Init
    <2> QED
        BY <2>1, NoSessionTyped, BridgeAssumption DEF Init, TypeOK, FlowSet, PageSet
<1>3. PlacesOK
    BY <1>1, FlowsTyped, PagesTyped DEF PlacesOK
<1>4. \A t \in Tokens, s \in Sessions : Copy(t, s) => s = NoSession
    BY <1>1 DEF Copy, NoFlow, Flow, NoPage, Page
<1>5. \A m \in Machines : flow[m].key = None /\ ~Creating(flow[m])
    BY <1>1 DEF NoFlow, Flow, Creating
<1>6. KeysOfFlows /\ CopiesKeyed
    BY <1>1, <1>4, <1>5 DEF KeysOfFlows, CopiesKeyed
<1>7. CopiesTogether /\ SubmittedOnce /\ NotYetAccepted
    BY <1>1, <1>4, NoSessionTyped DEF CopiesTogether, SubmittedOnce, NotYetAccepted
<1> QED
    BY <1>2, <1>3, <1>6, <1>7 DEF IInv, CopiesInv

LEMMA InvNext == IInv /\ [Next]_vars => IInv'
<1> SUFFICES ASSUME IInv, [Next]_vars PROVE IInv'
    OBVIOUS
<1>1. CASE UNCHANGED vars
    <2>1. UNCHANGED <<sessions, lag, raced, page, file, faults, now>> /\ UNCHANGED <<deployment, flow, accepted, keys>>
        BY <1>1 DEF vars
    <2>2. StoreShrinks /\ now' \in Nat /\ faults' \in 0..MaxFaults
        BY <2>1, StoreStays DEF IInv, TypeOK
    <2> QED
        BY <2>1, <2>2, StoreMoves
<1>2. ASSUME NEW m \in Machines,
             \/ StartFlow(m) \/ CreateSession(m) \/ NoTokenLeft(m) \/ PickToken(m) \/ ExpireForFlow(m)
             \/ PutSession(m) \/ Created(m) \/ CreateLost(m) \/ Poll(m) \/ PollKV(m) \/ TimedOut(m)
             \/ StoreAccessToken(m) \/ DeleteSession(m) \/ DeleteEntry(m) \/ DeleteFails(m)
      PROVE  IInv'
    BY <1>2, StartFlowKeeps, CreateActions, FlowActions
<1>3. ASSUME NEW b \in Browsers,
             \/ \E m \in Machines : Scan(b, m)
             \/ Redirect(b) \/ RedirectFromKV(b) \/ ServePage(b) \/ ServePageFromKV(b) \/ ShowQr(b)
             \/ Submit(b) \/ SubmitGet(b) \/ SubmitPut(b) \/ SubmitLost(b) \/ ExpireEntry(b)
      PROVE  IInv'
    BY <1>3, PageActions, SubmitActions
<1> QED
    BY <1>1, <1>2, <1>3, StoreActions DEF Next

\* The copies of the sessions are consistent at all times.
THEOREM Invariant == Spec => []IInv
<1> QED
    BY InvInit, InvNext, PTL DEF Spec

\* A flow stores the one submission its session accepted, in both deployments, unless
\* calls raced on its token.
THEOREM AcceptedIsStoredHolds == Spec => []AcceptedIsStored
<1>1. IInv => AcceptedIsStored
    <2>1. SUFFICES ASSUME IInv, NEW m \in Machines, flow[m].pc \in {"delete", "done"},
                          flow[m].token \notin raced, flow[m].got.key = flow[m].key
                   PROVE  accepted[flow[m].key] \subseteq {file[m]}
        BY DEF AcceptedIsStored
    <2>2. flow[m].token \in Tokens /\ flow[m].got.by # None /\ file[m] = flow[m].got.by
        BY <2>1 DEF IInv, PlacesOK, FlowOK
    <2>3. flow[m].got \in Sessions /\ Copy(flow[m].token, flow[m].got)
        BY <2>1 DEF IInv, TypeOK, Copy
    <2> QED
        BY <2>1, <2>2, <2>3 DEF IInv, CopiesInv, SubmittedOnce
<1> QED
    BY <1>1, Invariant, PTL

-----------------------------------------------------------------------------
(* The refinement *)

\* What BridgeSession sees of a session, and of all of them (as in AuthBridge!Promise).
Seen(s) == IF Live(s) THEN [key |-> s.key, by |-> s.by] ELSE [key |-> None, by |-> None]

Abstract == [t \in Tokens |-> IF Live(sessions[t]) THEN [key |-> sessions[t].key, by |-> sessions[t].by]
                              ELSE [key |-> None, by |-> None]]

\* Entries that go or expire are closed sessions.
LEMMA StepCloses ==
    ASSUME raced' = raced,
           \A t \in Tokens : Seen(sessions[t])' \in {Seen(sessions[t]), [key |-> None, by |-> None]}
    PROVE  Promise!Next
<1>1. \A t \in Tokens : Abstract'[t] \in {Abstract[t], [key |-> None, by |-> None]}
    BY Zenon DEF Abstract, Seen
<1>2. PICK S : S = {t \in Tokens : Abstract'[t] = [key |-> None, by |-> None]}
    OBVIOUS
<1>3. Abstract' = [t \in Tokens |-> IF t \in S THEN [key |-> None, by |-> None] ELSE Abstract[t]]
    <2>1. \A t \in Tokens : Abstract'[t] = IF t \in S THEN [key |-> None, by |-> None] ELSE Abstract[t]
        BY <1>1, <1>2
    <2> QED
        BY <2>1 DEF Abstract
<1>4. Promise!Close(S)
    BY <1>3 DEF Promise!Close, Promise!Free, Abstract
<1> QED
    BY <1>2, <1>4 DEF Promise!Next

LEMMA StoreQuiet ==
    ASSUME now' = now, raced' = raced, \A t \in Tokens : sessions'[t] \in {sessions[t], NoSession}
    PROVE  Promise!Next
<1>1. \A t \in Tokens : Seen(sessions[t])' \in {Seen(sessions[t]), [key |-> None, by |-> None]}
    BY DEF Seen, Live
<1> QED
    BY <1>1, StepCloses

\* A write over what somebody else wrote is a race.
LEMMA StepRaces ==
    ASSUME NEW t \in Tokens, now' = now, raced' = raced \cup {t},
           \A u \in Tokens \ {t} : sessions'[u] = sessions[u]
    PROVE  Promise!Next
<1>1. \A u \in Tokens \ {t} : Abstract'[u] = Abstract[u]
    BY DEF Abstract, Live
<1>2. Promise!Race(t)
    BY <1>1 DEF Promise!Race, Abstract
<1> QED
    BY <1>2 DEF Promise!Next

\* A live session where there was none is an opened session.
LEMMA StepOpens ==
    ASSUME TypeOK, NEW t \in Tokens, NEW s \in Sessions, s.key \in Keys, s.by = None, now <= s.expires,
           ~Live(sessions[t]), now' = now, raced' = raced, sessions' = [sessions EXCEPT ![t] = s]
    PROVE  Promise!Next
<1>1. s # NoSession
    BY NoSessionTyped, BridgeAssumption DEF Keys
<1>2. Abstract[t] = [key |-> None, by |-> None]
    BY DEF Abstract
<1>3. \A u \in Tokens : Abstract'[u] = IF u = t THEN [key |-> s.key, by |-> None] ELSE Abstract[u]
    BY <1>1 DEF Abstract, Live, TypeOK
<1>4. Abstract' = [Abstract EXCEPT ![t] = [key |-> s.key, by |-> None]]
    BY <1>3, ZenonT(40) DEF Abstract
<1>5. Promise!Open(t, s.key)
    BY <1>2, <1>4 DEF Promise!Open, Promise!Becomes, Promise!Free, Abstract
<1> QED
    BY <1>5 DEF Promise!Next

\* A submission into the entry as it was read fills a session, or changes nothing that is
\* live.
LEMMA StepFills ==
    ASSUME IInv, NEW b \in Browsers, NEW t \in Tokens, sessions[t] # NoSession, sessions[t].by = None,
           now' = now, raced' = raced, sessions' = [sessions EXCEPT ![t] = Encrypted(b, sessions[t])]
    PROVE  Promise!Next
<1> DEFINE s == sessions[t]
           e == Encrypted(b, s)
<1>1. e.key = s.key /\ e.by = b /\ e.expires = s.expires
    BY DEF Encrypted
<1>2. s \in Sessions /\ s.key \in Keys
    <2>1. s \in Sessions /\ Copy(t, s)
        BY DEF IInv, TypeOK, Copy
    <2> QED
        BY <2>1 DEF IInv, CopiesInv, CopiesKeyed
<1>3. s.key # None /\ e # NoSession
    BY <1>1, <1>2, BridgeAssumption, NoSessionTyped DEF Keys
<1>4. \A u \in Tokens : sessions'[u] = IF u = t THEN e ELSE sessions[u]
    BY DEF IInv, TypeOK
<1>5. CASE Live(s)
    <2>1. Abstract[t] = [key |-> s.key, by |-> None]
        BY <1>5 DEF Abstract
    <2> HIDE DEF e
    <2>2. \A u \in Tokens : Abstract'[u] = IF u = t THEN [key |-> s.key, by |-> b] ELSE Abstract[u]
        BY <1>1, <1>3, <1>4, <1>5 DEF Abstract, Live
    <2>3. Abstract' = [Abstract EXCEPT ![t] = [key |-> Abstract[t].key, by |-> b]]
        BY <2>1, <2>2 DEF Abstract
    <2>4. Abstract[t] # [key |-> None, by |-> None] /\ Abstract[t].by = None
        BY <1>3, <2>1
    <2>5. Promise!Fill(t, b)
        BY <2>3, <2>4 DEF Promise!Fill, Promise!Becomes, Promise!Free, Abstract
    <2> QED
        BY <2>5 DEF Promise!Next
<1>6. CASE ~Live(s)
    <2> HIDE DEF e
    <2>1. \A u \in Tokens : Seen(sessions[u])' = Seen(sessions[u])
        BY <1>1, <1>3, <1>4, <1>6 DEF Seen, Live
    <2> QED
        BY <2>1, StepCloses
<1> QED
    BY <1>5, <1>6

\* A deletion by somebody who read the entry before.
LEMMA ExpiryRefines ==
    ASSUME TypeOK, NEW t \in Tokens, NEW seen, Write(t, NoSession, seen), now' = now
    PROVE  Promise!Next
<1>1. \A u \in Tokens : sessions'[u] = IF u = t THEN NoSession ELSE sessions[u]
    BY NoSessionTyped, WriteTyped
<1>2. CASE raced' = raced
    BY <1>1, <1>2, StoreQuiet
<1>3. CASE raced' = raced \cup {t}
    BY <1>1, <1>3, StepRaces
<1> QED
    BY <1>2, <1>3 DEF Write

LEMMA CreateRefines ==
    ASSUME IInv, NEW m \in Machines, CreateSession(m) \/ PutSession(m)
    PROVE  Promise!Next
<1> USE DEF IInv
<1> DEFINE s == [key |-> flow[m].key, expires |-> now + Ttl, by |-> None, for |-> None]
<1>1. flow[m].key \in Keys
    BY DEF CreateSession, PutSession, PlacesOK, FlowOK
<1>2. s \in Sessions /\ s.key \in Keys /\ s.by = None /\ now <= s.expires
    BY <1>1, BridgeAssumption DEF TypeOK, Sessions
<1>3. CASE CreateSession(m)
    <2>1. PICK t \in Tokens :
            /\ ~Live(sessions[t])
            /\ \/ sessions' = [sessions EXCEPT ![t] = NoSession]
               \/ sessions' = [sessions EXCEPT ![t] = s]
        BY <1>3 DEF CreateSession
    <2>2. now' = now /\ raced' = raced
        BY <1>3 DEF CreateSession
    <2>3. CASE sessions' = [sessions EXCEPT ![t] = NoSession]
        BY <2>2, <2>3, StoreQuiet DEF TypeOK
    <2>4. CASE sessions' = [sessions EXCEPT ![t] = s]
        <3> HIDE DEF s
        <3> QED
            BY <1>2, <2>1, <2>2, <2>4, StepOpens
    <2> QED
        BY <2>1, <2>3, <2>4
<1>4. CASE PutSession(m)
    <2> DEFINE t == flow[m].token
    <2>1. t \in Tokens /\ flow[m].got = NoSession
        BY <1>4 DEF PutSession, PlacesOK, FlowOK
    <2>2. Write(t, s, NoSession) /\ now' = now
        BY <1>4, <2>1 DEF PutSession
    <2> HIDE DEF t, s
    <2>3. sessions' = [sessions EXCEPT ![t] = s]
        BY <2>2 DEF Write
    <2>4. CASE Live(sessions[t])
        <3>1. raced' = raced \cup {t}
            BY <2>2, <2>4 DEF Write, Live
        <3>2. \A u \in Tokens \ {t} : sessions'[u] = sessions[u]
            BY <2>1, <2>3 DEF TypeOK
        <3> QED
            BY <2>1, <2>2, <3>1, <3>2, StepRaces
    <2>5. CASE ~Live(sessions[t])
        <3>1. raced' = raced
            BY <2>2, <2>5 DEF Write
        <3> QED
            BY <1>2, <2>1, <2>2, <2>3, <2>5, <3>1, StepOpens
    <2> QED
        BY <2>4, <2>5
<1> QED
    BY <1>3, <1>4

LEMMA SubmitRefines ==
    ASSUME IInv, NEW b \in Browsers, Submit(b) \/ SubmitPut(b)
    PROVE  Promise!Next
<1> USE DEF IInv
<1> DEFINE t == page[b].token
<1>1. t \in Tokens /\ now' = now
    BY DEF Submit, SubmitPut, PlacesOK, PageOK
<1>2. CASE Submit(b)
    <2>1. CASE Live(sessions[t]) /\ sessions[t].by = None
        <3>1. sessions' = [sessions EXCEPT ![t] = Encrypted(b, sessions[t])] /\ raced' = raced
            BY <1>2, <2>1 DEF Submit
        <3>2. sessions[t] # NoSession
            BY <2>1 DEF Live
        <3> HIDE DEF t
        <3> QED
            BY <1>1, <2>1, <3>1, <3>2, StepFills
    <2>2. CASE ~(Live(sessions[t]) /\ sessions[t].by = None)
        <3>1. DropExpired(t) /\ raced' = raced
            BY <1>2, <2>2 DEF Submit
        <3> QED
            BY <1>1, <3>1, DropExpiredTyped, StoreQuiet
    <2> QED
        BY <2>1, <2>2
<1>3. CASE SubmitPut(b)
    <2> DEFINE s == page[b].got
    <2>1. /\ sessions' = [sessions EXCEPT ![t] = Encrypted(b, s)]
          /\ raced' = IF sessions[t] # s THEN raced \cup {t} ELSE raced
        BY <1>3 DEF SubmitPut
    <2>2. s # NoSession /\ s.by = None
        BY <1>3 DEF SubmitPut, PlacesOK, PageOK
    <2> HIDE DEF t, s
    <2>3. CASE sessions[t] = s
        BY <1>1, <2>1, <2>2, <2>3, StepFills
    <2>4. CASE sessions[t] # s
        <3>1. \A u \in Tokens \ {t} : sessions'[u] = sessions[u]
            BY <1>1, <2>1 DEF TypeOK
        <3> QED
            BY <1>1, <2>1, <2>4, <3>1, StepRaces
    <2> QED
        BY <2>3, <2>4
<1> QED
    BY <1>2, <1>3

LEMMA StepRefines == IInv /\ [Next]_vars => [Promise!Next]_<<Abstract, raced>>
<1> SUFFICES ASSUME IInv, [Next]_vars PROVE [Promise!Next]_<<Abstract, raced>>
    OBVIOUS
<1> USE DEF IInv
<1>1. CASE UNCHANGED <<now, sessions, raced>>
    BY <1>1, StoreQuiet
<1>2. CASE Tick
    <2>1. \A t \in Tokens : Seen(sessions[t])' \in {Seen(sessions[t]), [key |-> None, by |-> None]}
        BY <1>2 DEF Tick, Seen, Live, TypeOK, Sessions, store
    <2> QED
        BY <1>2, <2>1, StepCloses DEF Tick, store
<1>3. CASE Cleanup \/ Restart
    BY <1>3, StoreQuiet DEF Cleanup, Restart
<1>4. ASSUME NEW m \in Machines,
             \/ StartFlow(m) \/ CreateSession(m) \/ NoTokenLeft(m) \/ PickToken(m) \/ ExpireForFlow(m)
             \/ PutSession(m) \/ Created(m) \/ CreateLost(m) \/ Poll(m) \/ PollKV(m) \/ TimedOut(m)
             \/ StoreAccessToken(m) \/ DeleteSession(m) \/ DeleteEntry(m) \/ DeleteFails(m)
      PROVE  Promise!Next
    <2>1. flow[m].pc \notin {"idle", "failed", "create"} => flow[m].token \in Tokens
        BY DEF PlacesOK, FlowOK
    <2>2. CASE CreateSession(m) \/ PutSession(m)
        BY <2>2, CreateRefines
    <2>3. CASE ExpireForFlow(m)
        BY <2>1, <2>3, ExpiryRefines DEF ExpireForFlow
    <2>4. CASE Poll(m)
        <3>1. flow[m].token \in Tokens /\ DropExpired(flow[m].token) /\ now' = now /\ raced' = raced
            BY <2>1, <2>4 DEF Poll
        <3> QED
            BY <3>1, DropExpiredTyped, StoreQuiet
    <2>5. CASE DeleteSession(m) \/ DeleteEntry(m)
        BY <2>1, <2>5, StoreQuiet DEF DeleteSession, DeleteEntry, TypeOK
    <2>6. CASE \/ StartFlow(m) \/ NoTokenLeft(m) \/ PickToken(m) \/ Created(m) \/ CreateLost(m) \/ PollKV(m)
               \/ TimedOut(m) \/ StoreAccessToken(m) \/ DeleteFails(m)
        <3>1. UNCHANGED <<now, sessions, raced>>
            BY <2>6 DEF StartFlow, NoTokenLeft, PickToken, Created, CreateLost, PollKV, TimedOut,
                        StoreAccessToken, DeleteFails, store
        <3> QED
            BY <3>1, StoreQuiet
    <2> QED
        BY <1>4, <2>2, <2>3, <2>4, <2>5, <2>6
<1>5. ASSUME NEW b \in Browsers,
             \/ \E m \in Machines : Scan(b, m)
             \/ Redirect(b) \/ RedirectFromKV(b) \/ ServePage(b) \/ ServePageFromKV(b) \/ ShowQr(b)
             \/ Submit(b) \/ SubmitGet(b) \/ SubmitPut(b) \/ SubmitLost(b) \/ ExpireEntry(b)
      PROVE  Promise!Next
    <2>1. page[b].pc # "idle" => page[b].token \in Tokens
        BY DEF PlacesOK, PageOK
    <2>2. CASE Submit(b) \/ SubmitPut(b)
        BY <2>2, SubmitRefines
    <2>3. CASE ExpireEntry(b)
        BY <2>1, <2>3, ExpiryRefines DEF ExpireEntry
    <2>4. CASE Redirect(b) \/ ServePage(b) \/ ShowQr(b)
        <3>1. page[b].token \in Tokens /\ DropExpired(page[b].token) /\ now' = now /\ raced' = raced
            BY <2>1, <2>4 DEF Redirect, ServePage, ShowQr
        <3> QED
            BY <3>1, DropExpiredTyped, StoreQuiet
    <2>5. CASE \/ \E m \in Machines : Scan(b, m)
               \/ RedirectFromKV(b) \/ ServePageFromKV(b) \/ SubmitGet(b) \/ SubmitLost(b)
        <3>1. UNCHANGED <<now, sessions, raced>>
            BY <2>5 DEF Scan, RedirectFromKV, ServePageFromKV, SubmitGet, SubmitLost, store
        <3> QED
            BY <3>1, StoreQuiet
    <2> QED
        BY <1>5, <2>2, <2>3, <2>4, <2>5
<1>6. CASE \E t \in Tokens : Settle(t)
    BY <1>1, <1>6 DEF Settle
<1>7. CASE UNCHANGED vars
    BY <1>1, <1>7 DEF vars
<1> QED
    BY <1>2, <1>3, <1>4, <1>5, <1>6, <1>7 DEF Next

\* The Node.js server and the Worker keep the promise of BridgeSession: one machine per
\* token, one submission per session, no session that comes back, except where calls raced.
THEOREM ImplementsPromiseHolds == Spec => ImplementsPromise
<1>1. Init => Promise!Init
    BY DEF Init, Promise!Init, Promise!Free, Live
<1> QED
    BY <1>1, Invariant, StepRefines, PTL DEF Spec, ImplementsPromise, Promise!Spec, Abstract
=============================================================================
