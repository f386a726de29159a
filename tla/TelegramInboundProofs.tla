----------------------- MODULE TelegramInboundProofs -----------------------
(***************************************************************************)
(* OnePollLoop, ConfirmedAccounted and RowsSound for any number of loop    *)
(* slots, updates, errors and restarts.                                    *)
(*                                                                         *)
(* OneSource says who may start the next loop: a running loop, an armed    *)
(* reconnect timer and an awaited connect() exclude each other, and a      *)
(* process that is down has none of them.  With one loop, the offset only  *)
(* moves forward while the process lives: what is still to be handled is   *)
(* the run of updates that starts at or after it, and everything before is *)
(* accounted for (Progress).  Rows are counted against the ends of the     *)
(* process (RowsCounted): a message handled in this life, whether it is    *)
(* still under way or already has its row, is one more than before.        *)
(***************************************************************************)
EXTENDS TelegramInbound, FiniteSetTheorems, TLAPS

NoneActive == \A l \in Loops : loop[l].pc = "idle"

OneSource ==
    /\ DOMAIN loop = Loops
    /\ OnePollLoop
    /\ dialing => ~timer /\ NoneActive
    /\ timer => NoneActive
    /\ proc = "down" => ~dialing /\ ~timer /\ NoneActive
    /\ proc = "starting" => ~timer /\ NoneActive

LEMMA LoopPc ==
    ASSUME NEW pc, NEW b
    PROVE  LoopAt(pc, b).pc = pc
BY DEF LoopAt

\* Nothing that starts or ends a loop changes.
LEMMA Untouched ==
    ASSUME OneSource, UNCHANGED <<loop, timer, dialing, proc>>
    PROVE  OneSource'
BY DEF OneSource, OnePollLoop, NoneActive

\* A loop that runs moves on or ends; everything else stays.
LEMMA LoopMoves ==
    ASSUME NEW l \in Loops, NEW v, OneSource, loop[l].pc # "idle",
           loop' = [loop EXCEPT ![l] = v],
           UNCHANGED <<timer, dialing, proc>>
    PROVE  OneSource'
<1>1. ~dialing /\ ~timer /\ proc # "down" /\ proc # "starting"
  BY DEF OneSource, NoneActive
<1>2. DOMAIN loop' = Loops /\ \A k \in Loops \ {l} : loop'[k] = loop[k] /\ loop[k].pc = "idle"
  BY DEF OneSource, OnePollLoop
<1>3. OnePollLoop'
  BY <1>2 DEF OnePollLoop
<1>4. QED
  BY <1>1, <1>2, <1>3 DEF OneSource

\* The process ends: no loop, no timer, no connect() is left.
LEMMA EndKeeps ==
    ASSUME OneSource, ProcessEnds
    PROVE  OneSource'
<1>1. NoneActive' /\ DOMAIN loop' = Loops
  BY LoopPc DEF ProcessEnds, NoneActive, NoLoop
<1>2. ~dialing' /\ ~timer' /\ proc' = "down"
  BY DEF ProcessEnds
<1>3. QED
  BY <1>1, <1>2 DEF OneSource, OnePollLoop, NoneActive

LEMMA LoopKeeps ==
    ASSUME NEW l \in Loops, OneSource, LoopStep(l)
    PROVE  OneSource'
<1>1. CASE ConnectSucceeds(l)
  <2>1. NoneActive /\ ~timer /\ proc # "down"
    BY <1>1 DEF ConnectSucceeds, OneSource
  <2>2. ~dialing' /\ ~timer' /\ proc' # "down" /\ proc' # "starting"
    BY <1>1, <2>1 DEF ConnectSucceeds
  <2>3. DOMAIN loop' = Loops /\ \A k \in Loops \ {l} : loop'[k].pc = "idle"
    BY <1>1, <2>1 DEF ConnectSucceeds, OneSource, NoneActive
  <2>4. OnePollLoop'
    BY <2>3 DEF OnePollLoop
  <2>5. QED
    BY <2>2, <2>3, <2>4 DEF OneSource
<1>2. CASE GetUpdates(l)
  <2>1. PICK b : loop' = [loop EXCEPT ![l] = LoopAt("handle", b)]
    BY <1>2 DEF GetUpdates
  <2>2. QED
    BY <1>2, <2>1, LoopMoves DEF GetUpdates
<1>3. CASE StopPolling(l)
  BY <1>3, LoopMoves DEF StopPolling
<1>4. CASE HandleUpdate(l)
  BY <1>4, LoopMoves DEF HandleUpdate
<1>5. CASE GetFileFails(l)
  BY <1>5, LoopMoves DEF GetFileFails
<1>6. CASE BatchDone(l)
  BY <1>6, LoopMoves DEF BatchDone
<1>7. CASE Conflict(l)
  BY <1>7, LoopMoves DEF Conflict
<1>8. CASE ConflictOver(l)
  BY <1>8, LoopMoves DEF ConflictOver
<1>9. CASE PollError(l)
  <2>1. ~dialing /\ proc # "down" /\ proc # "starting"
    BY <1>9 DEF PollError, OneSource, NoneActive
  <2>2. DOMAIN loop' = Loops /\ \A k \in Loops \ {l} : loop'[k] = loop[k] /\ loop[k].pc = "idle"
    BY <1>9 DEF PollError, OneSource, OnePollLoop
  <2>3. loop'[l].pc = "idle"
    BY <1>9, LoopPc DEF PollError, OneSource, NoLoop
  <2>4. NoneActive'
    BY <2>2, <2>3 DEF NoneActive
  <2>5. ~dialing' /\ proc' # "down" /\ proc' # "starting"
    BY <1>9, <2>1 DEF PollError
  <2>6. QED
    BY <2>2, <2>4, <2>5 DEF OneSource, OnePollLoop, NoneActive
<1>10. QED
  BY <1>1, <1>2, <1>3, <1>4, <1>5, <1>6, <1>7, <1>8, <1>9 DEF LoopStep

\* The steps of the handlers of a message leave the connection alone or end the process.
LEMMA MessageKeeps ==
    ASSUME NEW m \in Updates, OneSource,
           MessageWorks(m) \/ StatementFails(m) \/ TransportCallFails(m)
    PROVE  OneSource'
<1>1. CASE Greet(m)
  BY <1>1, Untouched DEF Greet
<1>2. CASE Download(m)
  BY <1>2, Untouched DEF Download
<1>3. CASE UpsertChat(m)
  BY <1>3, Untouched DEF UpsertChat
<1>4. CASE StoreMessage(m)
  BY <1>4, Untouched DEF StoreMessage
<1>5. CASE EnqueueMessage(m)
  BY <1>5, Untouched DEF EnqueueMessage
<1>6. CASE StatementFails(m)
  BY <1>6, Untouched DEF StatementFails
<1>7. CASE TransportCallFails(m)
  BY <1>7, EndKeeps DEF TransportCallFails
<1>8. QED
  BY <1>1, <1>2, <1>3, <1>4, <1>5, <1>6, <1>7 DEF MessageWorks

LEMMA SourceNext ==
    ASSUME OneSource, [Next]_vars
    PROVE  OneSource'
<1>1. CASE UserSends
  BY <1>1, Untouched DEF UserSends
<1>2. CASE \E l \in Loops : LoopStep(l)
  BY <1>2, LoopKeeps
<1>3. CASE FirstConnectFails
  BY <1>3 DEF FirstConnectFails, OneSource, OnePollLoop, NoneActive
<1>4. CASE ReconnectFails
  BY <1>4, EndKeeps DEF ReconnectFails
<1>5. CASE TimerFires
  BY <1>5 DEF TimerFires, Alive, OneSource, OnePollLoop, NoneActive
<1>6. CASE \E m \in Updates : MessageWorks(m) \/ StatementFails(m) \/ TransportCallFails(m)
  BY <1>6, MessageKeeps
<1>7. CASE Shutdown
  BY <1>7 DEF Shutdown, OneSource, OnePollLoop, NoneActive
<1>8. CASE Exit
  BY <1>8, EndKeeps DEF Exit
<1>9. CASE Crash
  BY <1>9, EndKeeps DEF Crash
<1>10. CASE Start
  BY <1>10 DEF Start, OneSource, OnePollLoop, NoneActive
<1>11. CASE UNCHANGED vars
  BY <1>11, Untouched DEF vars
<1>12. QED
  BY <1>1, <1>2, <1>3, <1>4, <1>5, <1>6, <1>7, <1>8, <1>9, <1>10, <1>11 DEF Next

LEMMA SourceInit == Init => OneSource
<1> SUFFICES ASSUME Init PROVE OneSource
  OBVIOUS
<1>1. NoneActive /\ DOMAIN loop = Loops
  BY LoopPc DEF Init, NoneActive, NoLoop
<1>2. ~timer /\ proc = "starting"
  BY DEF Init
<1>3. QED
  BY <1>1, <1>2 DEF OneSource, OnePollLoop, NoneActive

\* pollLoop() never runs twice: docs/channels.md's "exactly one getUpdates request at a
\* time", for every number of errors, reconnections and restarts.
THEOREM OnePollLoopHolds == Spec => []OnePollLoop
<1>1. Init => OneSource
  BY SourceInit
<1>2. OneSource /\ [Next]_vars => OneSource'
  BY SourceNext
<1>3. OneSource => OnePollLoop
  BY DEF OneSource
<1>4. QED
  BY <1>1, <1>2, <1>3, PTL DEF Spec

-----------------------------------------------------------------------------
(* What becomes of the messages *)

\* What may have become of an update that need not be delivered again.
Accounted(u) == u \in Denied \cup Greeted \cup dropped \/ work[u] # "none" \/ Rows(u) > 0

\* The updates a poll loop still has to handle: a run that starts at or after the offset,
\* everything before it accounted for.
BatchOK(b) ==
    b # <<>> => /\ pollOffset <= b[1]
                /\ \A i \in 1..Len(b) : b[i] = b[1] + i - 1
                /\ \A u \in Updates : u < b[1] => Accounted(u)

Progress ==
    /\ \A u \in Updates : u <= confirmed \/ u < pollOffset => Accounted(u)
    /\ \A l \in Loops : loop[l].pc = "handle" => BatchOK(loop[l].batch)

\* The handlers of a message get only as far as the message allows.
WorkOK ==
    \A m \in Updates :
        /\ work[m] = "greet" => m \in Greeted
        /\ work[m] \in {"media", "chat", "store", "queue"} => m \notin Denied \cup Greeted
        /\ work[m] = "queue" => m \in stored

CountersOK == errors \in Nat /\ initFails \in Nat /\ faults \in Nat /\ restarts \in Nat

Ends == restarts + initFails + faults

\* A message under way counts as its row; handled in this life of the process, it is one
\* more than the lives before explain.
RowsCounted ==
    \A m \in Updates :
        Rows(m) + (IF work[m] = "none" THEN 0 ELSE 1) + (IF proc = "stopping" THEN 1 ELSE 0)
            <= Ends + (IF m < pollOffset THEN 1 ELSE 0)

IInv == TypeOK /\ OneSource /\ CountersOK /\ WorkOK /\ RowsBacked /\ Progress /\ RowsCounted

-----------------------------------------------------------------------------
(* Types *)

LoopSet == [pc : {"idle", "ask", "handle", "conflict"}, batch : Seq(Updates)]

LEMMA LoopsTyped ==
    /\ \A pc \in {"idle", "ask", "handle", "conflict"}, b \in Seq(Updates) : LoopAt(pc, b) \in LoopSet
    /\ NoLoop \in LoopSet /\ Again \in LoopSet
    /\ NoLoop.pc = "idle" /\ Again.pc # "handle"
<1>1. \A pc \in {"idle", "ask", "handle", "conflict"}, b \in Seq(Updates) : LoopAt(pc, b) \in LoopSet
  BY DEF LoopAt, LoopSet
<1>2. LoopAt("idle", <<>>) \in LoopSet /\ LoopAt("ask", <<>>) \in LoopSet
  <2>1. <<>> \in Seq(Updates)
    OBVIOUS
  <2>2. QED
    BY <1>1, <2>1
<1>3. QED
  BY <1>1, <1>2, LoopPc DEF NoLoop, Again

\* The answer to getUpdates is a run of updates after the confirmed ones.
LEMMA AnswerTyped ==
    ASSUME TypeOK, NEW l \in Loops, GetUpdates(l)
    PROVE  /\ confirmed' \in 0..MaxUpdates
           /\ \/ pollOffset - 1 > confirmed /\ confirmed' = pollOffset - 1
              \/ pollOffset - 1 <= confirmed /\ confirmed' = confirmed
           /\ \E b \in Seq(Updates) :
                /\ loop' = [loop EXCEPT ![l] = LoopAt("handle", b)]
                /\ \A i \in 1..Len(b) : b[i] = confirmed' + i
<1> DEFINE upto == IF pollOffset - 1 > confirmed THEN pollOffset - 1 ELSE confirmed
<1>1. /\ upto \in 0..MaxUpdates /\ sent \in 0..MaxUpdates /\ MaxUpdates \in Nat
      /\ \/ pollOffset - 1 > confirmed /\ upto = pollOffset - 1
         \/ pollOffset - 1 <= confirmed /\ upto = confirmed
  BY InboundAssumption DEF TypeOK
<1>2. /\ confirmed' = upto
      /\ \E last \in IF upto < sent THEN upto + 1 .. sent ELSE {upto} :
            loop' = [loop EXCEPT ![l] = LoopAt("handle", [i \in 1 .. last - upto |-> upto + i])]
  BY DEF GetUpdates
<1> HIDE DEF upto
<1>3. PICK last \in IF upto < sent THEN upto + 1 .. sent ELSE {upto} :
          loop' = [loop EXCEPT ![l] = LoopAt("handle", [i \in 1 .. last - upto |-> upto + i])]
  BY <1>2
<1> DEFINE n == last - upto
           b == [i \in 1..n |-> upto + i]
<1>4. n \in Nat /\ upto + n <= MaxUpdates
  <2>1. CASE upto < sent
    BY <1>1, <2>1
  <2>2. CASE ~(upto < sent)
    BY <1>1, <2>2
  <2>3. QED
    BY <2>1, <2>2
<1> HIDE DEF n
<1>5. \A i \in 1..n : upto + i \in Updates
  BY <1>1, <1>4 DEF Updates
<1>6. b \in Seq(Updates) /\ Len(b) = n /\ \A i \in 1..n : b[i] = upto + i
  BY <1>4, <1>5
<1>7. loop' = [loop EXCEPT ![l] = LoopAt("handle", b)]
  BY <1>3 DEF n
<1> HIDE DEF b
<1>8. QED
  BY <1>1, <1>2, <1>6, <1>7

\* The head of what is left to handle.
LEMMA HeadTyped ==
    ASSUME TypeOK, NEW l \in Loops, loop[l].batch # <<>>
    PROVE  /\ Head(loop[l].batch) \in Updates /\ Head(loop[l].batch) = loop[l].batch[1]
           /\ Tail(loop[l].batch) \in Seq(Updates)
           /\ NextOffset(Head(loop[l].batch)) \in 0 .. MaxUpdates + 1
<1>1. loop[l].batch \in Seq(Updates)
  BY DEF TypeOK
<1>2. /\ Head(loop[l].batch) \in Updates /\ Head(loop[l].batch) = loop[l].batch[1]
      /\ Tail(loop[l].batch) \in Seq(Updates)
  BY <1>1
<1>3. QED
  BY <1>2, InboundAssumption DEF NextOffset, Updates

LEMMA EndTyped ==
    ASSUME TypeOK, ProcessEnds, UNCHANGED <<sent, confirmed, tables>>
    PROVE  TypeOK'
<1>1. NoLoop \in LoopSet
  BY LoopsTyped
<1>2. loop' \in [Loops -> LoopSet] /\ work' \in [Updates -> {"none", "greet", "media", "chat", "store", "queue"}]
  BY <1>1 DEF ProcessEnds
<1>3. pollOffset' \in 0 .. MaxUpdates + 1 /\ dropped' \subseteq Updates
  BY InboundAssumption DEF ProcessEnds, TypeOK
<1>4. QED
  BY <1>2, <1>3 DEF ProcessEnds, TypeOK, LoopSet, tables

LEMMA LoopTyped ==
    ASSUME TypeOK, NEW l \in Loops, LoopStep(l)
    PROVE  TypeOK'
<1>1. loop \in [Loops -> LoopSet]
  BY DEF TypeOK, LoopSet
<1>2. CASE ConnectSucceeds(l)
  <2>1. loop' \in [Loops -> LoopSet]
    BY <1>1, <1>2, LoopsTyped DEF ConnectSucceeds
  <2>2. QED
    BY <1>2, <2>1 DEF ConnectSucceeds, TypeOK, LoopSet, tables
<1>3. CASE GetUpdates(l)
  <2>1. loop' \in [Loops -> LoopSet] /\ confirmed' \in 0..MaxUpdates
    BY <1>1, <1>3, AnswerTyped, LoopsTyped
  <2>2. QED
    BY <1>3, <2>1 DEF GetUpdates, TypeOK, LoopSet, tables
<1>4. CASE StopPolling(l) \/ BatchDone(l)
  <2>1. loop' \in [Loops -> LoopSet]
    BY <1>1, <1>4, LoopsTyped DEF StopPolling, BatchDone
  <2>2. QED
    BY <1>4, <2>1 DEF StopPolling, BatchDone, TypeOK, LoopSet, tables
<1>5. CASE HandleUpdate(l)
  <2>1. Head(loop[l].batch) \in Updates /\ Tail(loop[l].batch) \in Seq(Updates) /\ pollOffset' \in 0..MaxUpdates + 1
    BY <1>5, HeadTyped DEF HandleUpdate
  <2>2. loop' \in [Loops -> LoopSet]
    BY <1>1, <1>5, <2>1, LoopsTyped DEF HandleUpdate
  <2>3. work' \in [Updates -> {"none", "greet", "media", "chat", "store", "queue"}]
    BY <1>5, <2>1 DEF HandleUpdate, FirstStep, TypeOK
  <2>4. QED
    BY <1>5, <2>1, <2>2, <2>3 DEF HandleUpdate, TypeOK, LoopSet, tables
<1>6. CASE GetFileFails(l)
  <2>1. Head(loop[l].batch) \in Updates /\ Tail(loop[l].batch) \in Seq(Updates) /\ pollOffset' \in 0..MaxUpdates + 1
    BY <1>6, HeadTyped DEF GetFileFails
  <2>2. loop' \in [Loops -> LoopSet]
    BY <1>1, <1>6, <2>1, LoopsTyped DEF GetFileFails
  <2>3. QED
    BY <1>6, <2>1, <2>2 DEF GetFileFails, TypeOK, LoopSet, tables
<1>7. CASE Conflict(l) \/ ConflictOver(l)
  <2>1. <<>> \in Seq(Updates)
    OBVIOUS
  <2>2. loop' \in [Loops -> LoopSet]
    BY <1>1, <1>7, <2>1, LoopsTyped DEF Conflict, ConflictOver
  <2>3. QED
    BY <1>7, <2>2 DEF Conflict, ConflictOver, TypeOK, LoopSet, tables
<1>8. CASE PollError(l)
  <2>1. loop' \in [Loops -> LoopSet]
    BY <1>1, <1>8, LoopsTyped DEF PollError
  <2>2. QED
    BY <1>8, <2>1 DEF PollError, TypeOK, LoopSet, tables
<1>9. QED
  BY <1>2, <1>3, <1>4, <1>5, <1>6, <1>7, <1>8 DEF LoopStep

LEMMA MessageTyped ==
    ASSUME TypeOK, NEW m \in Updates,
           MessageWorks(m) \/ StatementFails(m) \/ TransportCallFails(m)
    PROVE  TypeOK'
<1>1. CASE Greet(m) \/ Download(m) \/ UpsertChat(m) \/ StoreMessage(m)
  BY <1>1 DEF Greet, Download, UpsertChat, StoreMessage, Moves, TypeOK, tables
<1>2. CASE EnqueueMessage(m)
  BY <1>2 DEF EnqueueMessage, Moves, TypeOK
<1>3. CASE StatementFails(m)
  BY <1>3 DEF StatementFails, Moves, TypeOK, tables
<1>4. CASE TransportCallFails(m)
  BY <1>4, EndTyped DEF TransportCallFails
<1>5. QED
  BY <1>1, <1>2, <1>3, <1>4 DEF MessageWorks

LEMMA TypeNext ==
    ASSUME TypeOK, [Next]_vars
    PROVE  TypeOK'
<1>1. CASE UserSends
  BY <1>1, InboundAssumption DEF UserSends, TypeOK, tables
<1>2. CASE \E l \in Loops : LoopStep(l)
  BY <1>2, LoopTyped
<1>3. CASE FirstConnectFails \/ TimerFires \/ Shutdown \/ Start
  BY <1>3 DEF FirstConnectFails, TimerFires, Shutdown, Start, TypeOK, tables
<1>4. CASE ReconnectFails \/ Exit \/ Crash
  BY <1>4, EndTyped DEF ReconnectFails, Exit, Crash
<1>5. CASE \E m \in Updates : MessageWorks(m) \/ StatementFails(m) \/ TransportCallFails(m)
  BY <1>5, MessageTyped
<1>6. CASE UNCHANGED vars
  BY <1>6 DEF vars, TypeOK
<1>7. QED
  BY <1>1, <1>2, <1>3, <1>4, <1>5, <1>6 DEF Next

LEMMA CountersNext ==
    ASSUME CountersOK, [Next]_vars
    PROVE  CountersOK'
<1>1. CASE \E l \in Loops : LoopStep(l)
  BY <1>1 DEF LoopStep, ConnectSucceeds, GetUpdates, StopPolling, HandleUpdate, GetFileFails, BatchDone,
              Conflict, ConflictOver, PollError, CountersOK, bounds
<1>2. CASE \E m \in Updates : MessageWorks(m) \/ StatementFails(m) \/ TransportCallFails(m)
  BY <1>2 DEF MessageWorks, Greet, Download, UpsertChat, StoreMessage, EnqueueMessage, StatementFails,
              TransportCallFails, CountersOK, bounds
<1>3. CASE UserSends \/ FirstConnectFails \/ ReconnectFails \/ TimerFires \/ Shutdown \/ Exit \/ Crash \/ Start
  BY <1>3 DEF UserSends, FirstConnectFails, ReconnectFails, TimerFires, Shutdown, Exit, Crash, Start,
              CountersOK, bounds
<1>4. CASE UNCHANGED vars
  BY <1>4 DEF vars, CountersOK
<1>5. QED
  BY <1>1, <1>2, <1>3, <1>4 DEF Next

-----------------------------------------------------------------------------
(* The rows of a message *)

LEMMA CountTyped ==
    ASSUME NEW q \in Seq(Updates), NEW m
    PROVE  LET R == {i \in DOMAIN q : q[i] = m}
           IN  IsFiniteSet(R) /\ Cardinality(R) \in Nat /\ (Cardinality(R) > 0 <=> R # {})
<1> DEFINE R == {i \in DOMAIN q : q[i] = m}
<1>1. DOMAIN q = 1..Len(q) /\ Len(q) \in Nat
  OBVIOUS
<1>2. IsFiniteSet(1..Len(q))
  BY <1>1, FS_Interval
<1>3. IsFiniteSet(R)
  BY <1>1, <1>2, FS_Subset
<1>4. Cardinality(R) \in Nat /\ (Cardinality(R) = 0 <=> R = {})
  BY <1>3, FS_CardinalityType, FS_EmptySet
<1> HIDE DEF R
<1>5. IsFiniteSet(R) /\ Cardinality(R) \in Nat /\ (Cardinality(R) > 0 <=> R # {})
  BY <1>3, <1>4
<1>6. QED
  BY <1>5 DEF R

LEMMA RowsTyped ==
    ASSUME TypeOK, NEW m \in Updates
    PROVE  /\ Rows(m) \in Nat /\ IsFiniteSet({i \in DOMAIN queued : queued[i] = m})
           /\ Rows(m) > 0 <=> \E i \in DOMAIN queued : queued[i] = m
<1>1. queued \in Seq(Updates)
  BY DEF TypeOK
<1>2. QED
  BY <1>1, CountTyped DEF Rows

LEMMA EndsTyped ==
    ASSUME CountersOK'
    PROVE  Ends' \in Nat
<1>1. PICK r \in Nat, i \in Nat, f \in Nat : restarts' = r /\ initFails' = i /\ faults' = f
  BY DEF CountersOK
<1>2. r + i + f \in Nat
  OBVIOUS
<1>3. QED
  BY <1>1, <1>2 DEF Ends

\* RowsCounted for one message, with the types of what it adds up.
LEMMA RowsOf ==
    ASSUME IInv, NEW m \in Updates
    PROVE  /\ m \in Nat /\ pollOffset \in Nat
           /\ Rows(m) \in Nat /\ Ends \in Nat
           /\ Rows(m) + (IF work[m] = "none" THEN 0 ELSE 1) + (IF proc = "stopping" THEN 1 ELSE 0)
                          <= Ends + (IF m < pollOffset THEN 1 ELSE 0)
<1>1. m \in Nat /\ pollOffset \in Nat
  BY InboundAssumption DEF Updates, IInv, TypeOK
<1>2. Rows(m) \in Nat
  BY RowsTyped DEF IInv
<1>3. Ends \in Nat
  BY DEF IInv, CountersOK, Ends
<1>4. QED
  BY <1>1, <1>2, <1>3 DEF IInv, RowsCounted

LEMMA RowsAppend ==
    ASSUME TypeOK, NEW m \in Updates, queued' = Append(queued, m)
    PROVE  /\ Rows(m)' = Rows(m) + 1
           /\ \A u \in Updates \ {m} : Rows(u)' = Rows(u)
<1>1. /\ DOMAIN queued = 1..Len(queued) /\ Len(queued) \in Nat
      /\ DOMAIN queued' = 1..(Len(queued) + 1)
      /\ \A i \in 1..Len(queued) : queued'[i] = queued[i]
      /\ queued'[Len(queued) + 1] = m
  BY DEF TypeOK
<1>2. {i \in DOMAIN queued' : queued'[i] = m} = {i \in DOMAIN queued : queued[i] = m} \cup {Len(queued) + 1}
  BY <1>1
<1>3. Len(queued) + 1 \notin {i \in DOMAIN queued : queued[i] = m}
  BY <1>1
<1>4. Rows(m)' = Rows(m) + 1
  BY <1>2, <1>3, RowsTyped, FS_AddElement DEF Rows
<1>5. ASSUME NEW u \in Updates \ {m}
      PROVE  Rows(u)' = Rows(u)
  <2>1. {i \in DOMAIN queued' : queued'[i] = u} = {i \in DOMAIN queued : queued[i] = u}
    BY <1>1
  <2>2. QED
    BY <2>1 DEF Rows
<1>6. QED
  BY <1>4, <1>5

-----------------------------------------------------------------------------
(* The invariant *)

\* What the invariant says of the messages, once the types and the source of the loops
\* are known.
Messages == WorkOK /\ RowsBacked /\ Progress /\ RowsCounted

\* A step that leaves the messages and the offset alone, and gives no loop new updates.
LEMMA QuietKeeps ==
    ASSUME IInv, CountersOK',
           UNCHANGED <<confirmed, pollOffset, work, stored, queued, dropped>>,
           Ends <= Ends', proc' = "stopping" => proc = "stopping" \/ Ends + 1 <= Ends',
           \A l \in Loops : loop'[l].pc = "handle" => loop'[l] = loop[l]
    PROVE  Messages'
<1>1. \A m \in Updates : Rows(m)' = Rows(m) /\ (Accounted(m)' <=> Accounted(m))
  BY DEF Rows, Accounted
<1>2. WorkOK' /\ RowsBacked'
  BY DEF IInv, WorkOK, RowsBacked
<1>3. Progress'
  <2>1. \A l \in Loops : loop[l].pc = "handle" => BatchOK(loop[l].batch)
    BY DEF IInv, Progress
  <2>2. ASSUME NEW l \in Loops, loop'[l].pc = "handle"
        PROVE  BatchOK(loop[l].batch)'
    <3>1. loop'[l] = loop[l] /\ BatchOK(loop[l].batch)
      BY <2>1, <2>2
    <3>2. QED
      BY <1>1, <3>1 DEF BatchOK
  <2>3. \A u \in Updates : u <= confirmed' \/ u < pollOffset' => Accounted(u)'
    BY <1>1 DEF IInv, Progress
  <2>4. QED
    BY <2>2, <2>3 DEF Progress
<1>4. RowsCounted'
  <2>1. SUFFICES ASSUME NEW m \in Updates
                 PROVE  Rows(m) + (IF work[m] = "none" THEN 0 ELSE 1) + (IF proc' = "stopping" THEN 1 ELSE 0)
                          <= Ends' + (IF m < pollOffset THEN 1 ELSE 0)
    BY <1>1 DEF RowsCounted
  <2>2. Ends' \in Nat
    BY EndsTyped
  <2>3. QED
    BY <2>2, RowsOf
<1>5. QED
  BY <1>2, <1>3, <1>4 DEF Messages

\* The process ends, and this is counted unless it was stopping.
LEMMA EndMessages ==
    ASSUME IInv, TypeOK', CountersOK', ProcessEnds, UNCHANGED <<confirmed, stored, queued>>,
           Ends <= Ends', proc = "stopping" \/ Ends + 1 <= Ends'
    PROVE  Messages'
<1>1. /\ \A m \in Updates : work'[m] = "none" /\ (work[m] # "none" => m \in dropped')
      /\ dropped \subseteq dropped' /\ pollOffset' = 0 /\ proc' = "down"
      /\ \A l \in Loops : loop'[l].pc # "handle"
  BY LoopsTyped DEF ProcessEnds
<1>2. \A m \in Updates : Rows(m)' = Rows(m)
  BY DEF Rows
<1>3. \A m \in Updates : Accounted(m) => Accounted(m)'
  BY <1>1, <1>2 DEF Accounted
<1>4. WorkOK' /\ RowsBacked'
  BY <1>1 DEF IInv, WorkOK, RowsBacked
<1>5. Progress'
  BY <1>1, <1>3 DEF IInv, Progress, Updates
<1>6. RowsCounted'
  <2>1. SUFFICES ASSUME NEW m \in Updates
                 PROVE  Rows(m) <= Ends'
    <3>1. ASSUME NEW m \in Updates, Rows(m) <= Ends'
          PROVE  Rows(m)' + (IF work'[m] = "none" THEN 0 ELSE 1) + (IF proc' = "stopping" THEN 1 ELSE 0)
                    <= Ends' + (IF m < pollOffset' THEN 1 ELSE 0)
      <4>1. Rows(m)' = Rows(m) /\ Rows(m) \in Nat /\ m \in Nat /\ Ends' \in Nat
        BY <1>2, RowsOf, EndsTyped
      <4>2. QED
        BY <1>1, <3>1, <4>1
    <3>2. QED
      BY <3>1 DEF RowsCounted
  <2>2. Ends' \in Nat
    BY EndsTyped
  <2>3. QED
    BY <2>2, RowsOf
<1>7. QED
  BY <1>4, <1>5, <1>6 DEF Messages

\* The handlers of m take a step, and the offset and the loops stay.
LEMMA WorkMessages ==
    ASSUME IInv, TypeOK', CountersOK', NEW m \in Updates, UNCHANGED <<confirmed, pollOffset, loop, proc>>,
           work[m] # "none",
           \A u \in Updates \ {m} : work'[u] = work[u] /\ Rows(u)' = Rows(u),
           dropped \subseteq dropped', stored \subseteq stored', Ends <= Ends',
           WorkOK', RowsBacked', Accounted(m)',
           Rows(m)' + (IF work'[m] = "none" THEN 0 ELSE 1) <= Rows(m) + 1
    PROVE  Messages'
<1>1. \A u \in Updates : Accounted(u) => Accounted(u)'
  BY DEF Accounted
<1>2. Progress'
  <2>1. \A b : BatchOK(b) => BatchOK(b)'
    BY <1>1 DEF BatchOK
  <2>2. QED
    BY <1>1, <2>1 DEF IInv, Progress
<1>3. RowsCounted'
  <2>1. SUFFICES ASSUME NEW u \in Updates
                 PROVE  Rows(u)' + (IF work'[u] = "none" THEN 0 ELSE 1) + (IF proc = "stopping" THEN 1 ELSE 0)
                          <= Ends' + (IF u < pollOffset THEN 1 ELSE 0)
    BY DEF RowsCounted
  <2>2. Ends' \in Nat
    BY EndsTyped
  <2>3. Rows(u)' \in Nat
    <3>1. Rows(u)' = Cardinality({i \in DOMAIN queued' : queued'[i] = u})
      BY DEF Rows
    <3>2. queued' \in Seq(Updates)
      BY DEF TypeOK
    <3>3. QED
      BY <3>1, <3>2, CountTyped
  <2>4. CASE u = m
    BY <2>2, <2>3, <2>4, RowsOf
  <2>5. CASE u # m
    BY <2>2, <2>5, RowsOf
  <2>6. QED
    BY <2>4, <2>5
<1>4. QED
  BY <1>2, <1>3 DEF Messages

\* What is left of a run of updates is a run.
LEMMA RunTail ==
    ASSUME NEW b \in Seq(Updates), \A i \in 1..Len(b) : b[i] = b[1] + i - 1, Tail(b) # <<>>
    PROVE  /\ Tail(b)[1] = b[1] + 1 /\ b[1] + 1 <= Tail(b)[1]
           /\ \A i \in 1..Len(Tail(b)) : Tail(b)[i] = Tail(b)[1] + i - 1
<1>1. /\ Len(b) \in Nat /\ Len(b) > 1 /\ Len(Tail(b)) = Len(b) - 1
      /\ \A i \in 1..Len(Tail(b)) : Tail(b)[i] = b[i + 1]
  OBVIOUS
<1>2. b[1] \in Updates
  BY <1>1
<1>3. b[1] \in Int
  BY <1>2 DEF Updates
<1>4. \A i \in 1..Len(Tail(b)) : Tail(b)[i] = b[1] + i
  BY <1>1, <1>3
<1>5. Tail(b)[1] = b[1] + 1
  BY <1>1, <1>4
<1>6. QED
  BY <1>1, <1>3, <1>4, <1>5

\* The first of the updates left is taken: it becomes accounted for, or stays so.
LEMMA TakeMessages ==
    ASSUME IInv, TypeOK', OneSource', CountersOK', NEW l \in Loops, loop[l].pc = "handle", loop[l].batch # <<>>,
           NEW u, u = Head(loop[l].batch),
           UNCHANGED <<confirmed, proc, stored, queued>>, pollOffset' = u + 1,
           loop' = [loop EXCEPT ![l] = LoopAt("handle", Tail(loop[l].batch))],
           \A v \in Updates \ {u} : work'[v] = work[v],
           work[u] # "none" => work'[u] # "none",
           dropped \subseteq dropped', Ends <= Ends', WorkOK', Accounted(u)'
    PROVE  Messages'
<1> PICK b : b = loop[l].batch
  OBVIOUS
<1>1. b \in Seq(Updates) /\ loop \in [Loops -> LoopSet]
  BY DEF IInv, TypeOK, LoopSet
<1>2. u \in Updates /\ u = b[1] /\ Tail(b) \in Seq(Updates)
  BY HeadTyped DEF IInv
<1>3. /\ pollOffset <= u
      /\ \A i \in 1..Len(b) : b[i] = u + i - 1
      /\ \A v \in Updates : v < u => Accounted(v)
  BY <1>2 DEF IInv, Progress, BatchOK
<1>4. \A m \in Updates : Rows(m)' = Rows(m)
  BY DEF Rows
<1>5. \A v \in Updates : Accounted(v) => Accounted(v)'
  BY <1>4 DEF Accounted
<1>6. \A k \in Loops \ {l} : loop'[k].pc # "handle"
  <2>1. loop'[l] = LoopAt("handle", Tail(b)) /\ loop'[l].pc = "handle"
    BY <1>1, LoopPc
  <2>2. QED
    BY <2>1 DEF OneSource, OnePollLoop
<1>7. \A v \in Updates : v < u + 1 => Accounted(v)'
  BY <1>2, <1>3, <1>5 DEF Updates
<1>8. Progress'
  <2>1. loop'[l].batch = Tail(b)
    BY <1>1 DEF LoopAt
  <2>2. BatchOK(Tail(b))'
    <3>1. SUFFICES ASSUME Tail(b) # <<>>
                   PROVE  /\ u + 1 <= Tail(b)[1]
                          /\ \A i \in 1..Len(Tail(b)) : Tail(b)[i] = Tail(b)[1] + i - 1
                          /\ \A v \in Updates : v < Tail(b)[1] => Accounted(v)'
      BY DEF BatchOK
    <3>2. /\ Tail(b)[1] = u + 1 /\ u + 1 <= Tail(b)[1]
          /\ \A i \in 1..Len(Tail(b)) : Tail(b)[i] = Tail(b)[1] + i - 1
      BY <1>1, <1>2, <1>3, <3>1, RunTail
    <3>3. \A v \in Updates : v < Tail(b)[1] => Accounted(v)'
      BY <1>7, <3>2
    <3>4. QED
      BY <3>2, <3>3
  <2>3. ASSUME NEW k \in Loops, loop'[k].pc = "handle"
        PROVE  BatchOK(loop[k].batch)'
    <3>1. loop'[k].batch = Tail(b)
      BY <1>6, <2>1, <2>3
    <3>2. QED
      BY <2>2, <3>1 DEF BatchOK
  <2>4. \A v \in Updates : v <= confirmed' \/ v < pollOffset' => Accounted(v)'
    BY <1>5, <1>7 DEF IInv, Progress
  <2>5. QED
    BY <2>3, <2>4 DEF Progress
<1>9. RowsBacked'
  BY DEF IInv, RowsBacked
<1>10. RowsCounted'
  <2>1. SUFFICES ASSUME NEW m \in Updates
                 PROVE  Rows(m) + (IF work'[m] = "none" THEN 0 ELSE 1) + (IF proc = "stopping" THEN 1 ELSE 0)
                          <= Ends' + (IF m < u + 1 THEN 1 ELSE 0)
    BY <1>4 DEF RowsCounted
  <2>2. Ends' \in Nat
    BY EndsTyped
  <2>3. u \in Nat /\ ~(u < pollOffset) /\ u < u + 1
    <3>1. u \in Nat /\ pollOffset \in Nat
      BY <1>2, RowsOf
    <3>2. QED
      BY <1>3, <3>1
  <2> DEFINE Now   == IF work[m] = "none" THEN 0 ELSE 1
             Then  == IF work'[m] = "none" THEN 0 ELSE 1
             Stops == IF proc = "stopping" THEN 1 ELSE 0
             Past  == IF m < pollOffset THEN 1 ELSE 0
             Gone  == IF m < u + 1 THEN 1 ELSE 0
  <2>n. /\ Rows(m) \in Nat /\ Ends \in Nat
        /\ Rows(m) + Now + Stops <= Ends + Past
    BY RowsOf
  <2>r. /\ Now \in 0..1 /\ Then \in 0..1 /\ Stops \in 0..1 /\ Past \in 0..1 /\ Gone \in 0..1
    OBVIOUS
  <2>4. CASE m = u
    <3>1. Past = 0 /\ Gone = 1
      BY <2>3, <2>4
    <3> HIDE DEF Now, Then, Stops, Past, Gone
    <3>2. Rows(m) + Then + Stops <= Ends' + Gone
      BY <2>2, <2>n, <2>r, <3>1, SMTT(20)
    <3>3. QED
      BY <3>2 DEF Then, Stops, Gone
  <2>5. CASE m # u
    <3>1. Then = Now
      BY <2>5
    <3>2. m \in Nat /\ pollOffset \in Nat /\ Past <= Gone
      BY <1>3, <2>3, RowsOf
    <3> HIDE DEF Now, Then, Stops, Past, Gone
    <3>3. Rows(m) + Then + Stops <= Ends' + Gone
      BY <2>2, <2>n, <2>r, <3>1, <3>2
    <3>4. QED
      BY <3>3 DEF Then, Stops, Gone
  <2>6. QED
    BY <2>4, <2>5
<1>11. QED
  BY <1>8, <1>9, <1>10 DEF Messages

LEMMA LoopMessages ==
    ASSUME IInv, TypeOK', OneSource', CountersOK', NEW l \in Loops, LoopStep(l)
    PROVE  Messages'
<1>t. loop \in [Loops -> LoopSet] /\ restarts \in Nat /\ initFails \in Nat /\ faults \in Nat
  BY DEF IInv, TypeOK, LoopSet, CountersOK
<1>1. CASE ConnectSucceeds(l) \/ StopPolling(l) \/ BatchDone(l) \/ Conflict(l) \/ ConflictOver(l) \/ PollError(l)
  <2>1. PICK v : loop' = [loop EXCEPT ![l] = v] /\ v.pc # "handle"
    BY <1>1, LoopsTyped, LoopPc DEF ConnectSucceeds, StopPolling, BatchDone, Conflict, ConflictOver, PollError
  <2>2. \A k \in Loops : loop'[k].pc = "handle" => loop'[k] = loop[k]
    BY <1>t, <2>1
  <2>3. UNCHANGED <<confirmed, pollOffset, work, stored, queued, dropped>>
    BY <1>1 DEF ConnectSucceeds, StopPolling, BatchDone, Conflict, ConflictOver, PollError, tables
  <2>4. Ends' = Ends /\ (proc' = "stopping" => proc = "stopping")
    BY <1>1 DEF ConnectSucceeds, StopPolling, BatchDone, Conflict, ConflictOver, PollError, Ends, bounds
  <2>5. Ends <= Ends'
    BY <1>t, <2>4 DEF Ends
  <2>6. QED
    BY <2>2, <2>3, <2>4, <2>5, QuietKeeps
<1>2. CASE GetUpdates(l)
  <2>1. /\ \/ pollOffset - 1 > confirmed /\ confirmed' = pollOffset - 1
           \/ pollOffset - 1 <= confirmed /\ confirmed' = confirmed
        /\ confirmed' \in 0..MaxUpdates /\ confirmed \in Int /\ pollOffset \in Int /\ MaxUpdates \in Nat
    BY <1>2, AnswerTyped, InboundAssumption DEF IInv, TypeOK
  <2>2. PICK b \in Seq(Updates) :
            /\ loop' = [loop EXCEPT ![l] = LoopAt("handle", b)]
            /\ \A i \in 1..Len(b) : b[i] = confirmed' + i
    BY <1>2, AnswerTyped DEF IInv
  <2>3. UNCHANGED <<pollOffset, work, stored, queued, dropped, proc>> /\ Ends' = Ends
    BY <1>2 DEF GetUpdates, tables, bounds, Ends
  <2>4. \A u \in Updates : Rows(u)' = Rows(u) /\ (Accounted(u)' <=> Accounted(u))
    BY <2>3 DEF Rows, Accounted
  <2>5. ASSUME NEW u \in Updates, u <= confirmed' \/ u < pollOffset'
        PROVE  Accounted(u)'
    <3>1. u \in Int
      BY <2>1 DEF Updates
    <3>2. u <= confirmed \/ u < pollOffset
      BY <2>1, <2>3, <2>5, <3>1
    <3>3. QED
      BY <2>4, <3>2 DEF IInv, Progress
  <2>6. BatchOK(b)'
    <3>1. SUFFICES ASSUME b # <<>>
                   PROVE  /\ pollOffset <= b[1]
                          /\ \A i \in 1..Len(b) : b[i] = b[1] + i - 1
                          /\ \A u \in Updates : u < b[1] => Accounted(u)'
      BY <2>3 DEF BatchOK
    <3>2. Len(b) \in Nat /\ Len(b) >= 1 /\ b[1] = confirmed' + 1
      BY <2>2, <3>1
    <3>3. pollOffset <= b[1] /\ \A i \in 1..Len(b) : b[i] = b[1] + i - 1
      <4>1. PICK c \in Int : confirmed' = c
        BY <2>1
      <4>2. pollOffset <= c + 1
        BY <2>1, <4>1
      <4>3. \A i \in 1..Len(b) : c + i = (c + 1) + i - 1
        BY <3>2
      <4>4. QED
        BY <2>2, <3>2, <4>1, <4>2, <4>3
    <3>4. ASSUME NEW u \in Updates, u < b[1]
          PROVE  Accounted(u)'
      <4>1. u <= confirmed'
        <5>1. PICK c \in Int : confirmed' = c
          BY <2>1
        <5>2. u \in Int
          BY <2>1 DEF Updates
        <5>3. QED
          BY <3>2, <3>4, <5>1, <5>2
      <4>2. QED
        BY <2>5, <4>1
    <3>5. QED
      BY <3>3, <3>4
  <2>7. ASSUME NEW k \in Loops, loop'[k].pc = "handle"
        PROVE  BatchOK(loop[k].batch)'
    <3>1. loop'[l].pc = "handle" /\ loop'[l].batch = b
      BY <1>t, <2>2 DEF LoopAt
    <3>2. k = l
      BY <2>7, <3>1 DEF OneSource, OnePollLoop
    <3>3. QED
      BY <2>6, <3>1, <3>2 DEF BatchOK
  <2>8. Progress'
    BY <2>5, <2>7 DEF Progress
  <2>9. WorkOK' /\ RowsBacked' /\ RowsCounted'
    BY <2>3, <2>4 DEF IInv, WorkOK, RowsBacked, RowsCounted
  <2>10. QED
    BY <2>8, <2>9 DEF Messages
<1>3. CASE HandleUpdate(l)
  <2> PICK u : u = Head(loop[l].batch)
    OBVIOUS
  <2>1. u \in Updates /\ loop[l].pc = "handle" /\ loop[l].batch # <<>>
    BY <1>3, HeadTyped DEF HandleUpdate, IInv
  <2>2. /\ work' = [work EXCEPT ![u] = IF u \in Denied THEN @ ELSE FirstStep(u)]
        /\ pollOffset' = u + 1
        /\ loop' = [loop EXCEPT ![l] = LoopAt("handle", Tail(loop[l].batch))]
        /\ UNCHANGED <<confirmed, proc, stored, queued, dropped>> /\ Ends' = Ends
    BY <1>3 DEF HandleUpdate, NextOffset, tables, bounds, Ends
  <2>3. /\ \A v \in Updates \ {u} : work'[v] = work[v]
        /\ work'[u] = IF u \in Denied THEN work[u] ELSE FirstStep(u)
    BY <2>1, <2>2 DEF IInv, TypeOK
  <2>4. FirstStep(u) # "none" /\ FirstStep(u) # "queue" /\ FirstStep(u) # "store"
        /\ (FirstStep(u) = "greet" <=> u \in Greeted)
    BY DEF FirstStep
  <2>5. WorkOK'
    BY <2>1, <2>2, <2>3, <2>4 DEF IInv, WorkOK
  <2>6. Accounted(u)' /\ (work[u] # "none" => work'[u] # "none")
    BY <2>3, <2>4 DEF Accounted
  <2>7. Ends <= Ends'
    BY <1>t, <2>2 DEF Ends
  <2>8. QED
    BY <2>1, <2>2, <2>3, <2>5, <2>6, <2>7, TakeMessages
<1>4. CASE GetFileFails(l)
  <2> PICK u : u = Head(loop[l].batch)
    OBVIOUS
  <2>1. u \in Updates /\ loop[l].pc = "handle" /\ loop[l].batch # <<>>
    BY <1>4, HeadTyped DEF GetFileFails, IInv
  <2>2. /\ pollOffset' = u + 1 /\ dropped' = dropped \cup {u}
        /\ loop' = [loop EXCEPT ![l] = LoopAt("handle", Tail(loop[l].batch))]
        /\ UNCHANGED <<confirmed, proc, work, stored, queued>>
    BY <1>4 DEF GetFileFails, NextOffset, tables
  <2>3. WorkOK'
    BY <2>2 DEF IInv, WorkOK
  <2>4. Accounted(u)'
    BY <2>2 DEF Accounted
  <2>5. Ends <= Ends'
    BY <1>4, <1>t DEF GetFileFails, Ends
  <2>6. QED
    BY <2>1, <2>2, <2>3, <2>4, <2>5, TakeMessages
<1>5. QED
  BY <1>1, <1>2, <1>3, <1>4 DEF LoopStep

LEMMA HandlerMessages ==
    ASSUME IInv, TypeOK', CountersOK', NEW m \in Updates,
           MessageWorks(m) \/ StatementFails(m) \/ TransportCallFails(m)
    PROVE  Messages'
<1>t. /\ work \in [Updates -> {"none", "greet", "media", "chat", "store", "queue"}]
      /\ restarts \in Nat /\ initFails \in Nat /\ faults \in Nat /\ Rows(m) \in Nat
  BY RowsTyped DEF IInv, TypeOK, CountersOK
<1>1. CASE Greet(m) \/ Download(m) \/ UpsertChat(m) \/ StoreMessage(m) \/ StatementFails(m)
  <2>1. /\ UNCHANGED <<confirmed, pollOffset, loop, proc, queued>> /\ Ends <= Ends'
        /\ dropped \subseteq dropped' /\ stored \subseteq stored'
    BY <1>1, <1>t DEF Greet, Download, UpsertChat, StoreMessage, StatementFails, Ends, tables, bounds
  <2>2. \A u \in Updates : Rows(u)' = Rows(u)
    BY <2>1 DEF Rows
  <2>3. \A u \in Updates \ {m} : work'[u] = work[u]
    BY <1>1, <1>t DEF Greet, Download, UpsertChat, StoreMessage, StatementFails, Moves
  <2>4. work[m] # "none" /\ Accounted(m)'
    BY <1>1, <1>t, <2>1 DEF Greet, Download, UpsertChat, StoreMessage, StatementFails, Moves, Accounted, IInv, WorkOK
  <2>5. WorkOK'
    BY <1>1, <1>t, <2>1 DEF Greet, Download, UpsertChat, StoreMessage, StatementFails, Moves, IInv, WorkOK, tables
  <2>6. RowsBacked'
    BY <2>1 DEF IInv, RowsBacked
  <2>7. Rows(m)' + (IF work'[m] = "none" THEN 0 ELSE 1) <= Rows(m) + 1
    BY <1>t, <2>2
  <2>8. QED
    BY <2>1, <2>2, <2>3, <2>4, <2>5, <2>6, <2>7, WorkMessages
<1>2. CASE EnqueueMessage(m)
  <2>1. /\ UNCHANGED <<confirmed, pollOffset, loop, proc, stored, dropped>> /\ Ends' = Ends
        /\ work[m] = "queue" /\ queued' = Append(queued, m) /\ work' = [work EXCEPT ![m] = "none"]
    BY <1>2 DEF EnqueueMessage, Moves, Ends, bounds
  <2>2. Ends <= Ends'
    BY <1>t, <2>1 DEF Ends
  <2>3. Rows(m)' = Rows(m) + 1 /\ \A u \in Updates \ {m} : Rows(u)' = Rows(u)
    BY <2>1, RowsAppend DEF IInv
  <2>4. work'[m] = "none" /\ \A u \in Updates \ {m} : work'[u] = work[u]
    BY <1>t, <2>1
  <2>5. Accounted(m)'
    BY <1>t, <2>3 DEF Accounted
  <2>6. WorkOK'
    BY <2>1, <2>4 DEF IInv, WorkOK
  <2>7. RowsBacked'
    <3>1. m \in stored \ (Denied \cup Greeted)
      BY <2>1 DEF IInv, WorkOK
    <3>2. queued \in Seq(Updates)
      BY DEF IInv, TypeOK
    <3>3. \A i \in DOMAIN queued' : (i \in DOMAIN queued /\ queued'[i] = queued[i]) \/ queued'[i] = m
      BY <2>1, <3>2
    <3>4. QED
      BY <2>1, <3>1, <3>3 DEF IInv, RowsBacked
  <2>8. Rows(m)' + (IF work'[m] = "none" THEN 0 ELSE 1) <= Rows(m) + 1
    BY <1>t, <2>3, <2>4
  <2>9. QED
    BY <2>1, <2>2, <2>3, <2>4, <2>5, <2>6, <2>7, <2>8, WorkMessages
<1>3. CASE TransportCallFails(m)
  <2>1. Ends + 1 <= Ends' /\ Ends <= Ends'
    BY <1>3, <1>t DEF TransportCallFails, Ends
  <2>2. QED
    BY <1>3, <2>1, EndMessages DEF TransportCallFails, tables
<1>4. QED
  BY <1>1, <1>2, <1>3 DEF MessageWorks

LEMMA InvNext ==
    ASSUME IInv, [Next]_vars
    PROVE  IInv'
<1>1. TypeOK' /\ OneSource' /\ CountersOK'
  BY TypeNext, SourceNext, CountersNext DEF IInv
<1>t. restarts \in Nat /\ initFails \in Nat /\ faults \in Nat
  BY DEF IInv, CountersOK
<1>2. CASE UserSends \/ FirstConnectFails \/ TimerFires \/ Shutdown \/ Start \/ UNCHANGED vars
  <2>1. UNCHANGED <<confirmed, pollOffset, work, stored, queued, dropped, loop>>
    BY <1>2 DEF UserSends, FirstConnectFails, TimerFires, Shutdown, Start, vars, tables
  <2>2. Ends <= Ends' /\ (proc' = "stopping" => proc = "stopping" \/ Ends + 1 <= Ends')
    BY <1>2, <1>t DEF UserSends, FirstConnectFails, TimerFires, Shutdown, Start, vars, bounds, Ends
  <2>3. Messages'
    BY <1>1, <2>1, <2>2, QuietKeeps
  <2>4. QED
    BY <1>1, <2>3 DEF IInv, Messages
<1>3. CASE ReconnectFails \/ Exit \/ Crash
  <2>1. Ends <= Ends' /\ (proc = "stopping" \/ Ends + 1 <= Ends')
    BY <1>3, <1>t DEF ReconnectFails, Exit, Crash, Ends, bounds
  <2>2. Messages'
    BY <1>1, <1>3, <2>1, EndMessages DEF ReconnectFails, Exit, Crash, tables
  <2>3. QED
    BY <1>1, <2>2 DEF IInv, Messages
<1>4. CASE \E l \in Loops : LoopStep(l)
  BY <1>1, <1>4, LoopMessages DEF IInv, Messages
<1>5. CASE \E m \in Updates : MessageWorks(m) \/ StatementFails(m) \/ TransportCallFails(m)
  BY <1>1, <1>5, HandlerMessages DEF IInv, Messages
<1>6. QED
  BY <1>2, <1>3, <1>4, <1>5 DEF Next

LEMMA InvInit == Init => IInv
<1> SUFFICES ASSUME Init PROVE IInv
  OBVIOUS
<1>1. TypeOK
  <2>1. loop \in [Loops -> LoopSet]
    BY LoopsTyped DEF Init
  <2>2. sent \in 0..MaxUpdates /\ confirmed \in 0..MaxUpdates /\ pollOffset \in 0 .. MaxUpdates + 1
    BY InboundAssumption DEF Init
  <2>3. queued \in Seq(Updates)
    BY DEF Init
  <2>4. QED
    BY <2>1, <2>2, <2>3 DEF Init, TypeOK, LoopSet
<1>2. OneSource
  BY SourceInit
<1>3. CountersOK /\ WorkOK /\ RowsBacked
  BY DEF Init, CountersOK, WorkOK, RowsBacked
<1>4. Progress
  BY LoopsTyped DEF Init, Progress, Updates
<1>5. RowsCounted
  <2>1. \A m \in Updates : Rows(m) = 0
    <3>1. \A m \in Updates : Rows(m) \in Nat /\ ~(Rows(m) > 0)
      BY <1>1, RowsTyped DEF Init
    <3>2. QED
      BY <3>1
  <2>2. \A m \in Updates : work[m] = "none"
    BY DEF Init
  <2>3. ~(proc = "stopping") /\ pollOffset = 0 /\ Ends = 0
    BY DEF Init, Ends
  <2>4. \A m \in Updates : m \in Nat /\ ~(m < 0)
    BY InboundAssumption DEF Updates
  <2>5. QED
    BY <2>1, <2>2, <2>3, <2>4 DEF RowsCounted
<1>6. QED
  BY <1>1, <1>2, <1>3, <1>4, <1>5 DEF IInv

LEMMA Invariant == Spec => []IInv
<1>1. IInv /\ [Next]_vars => IInv'
  BY InvNext
<1>2. QED
  BY <1>1, InvInit, PTL DEF Spec

\* The offset never confirms an update that is not queued, under way or known to be lost,
\* for every number of updates, errors, reconnections and ends of the process.
THEOREM ConfirmedAccountedHolds == Spec => []ConfirmedAccounted
<1>1. IInv => ConfirmedAccounted
  <2>1. SUFFICES ASSUME IInv, NEW u \in 1..confirmed
                 PROVE  Accounted(u)
    BY DEF ConfirmedAccounted, Accounted
  <2>2. u \in Updates /\ u <= confirmed
    <3>1. confirmed \in 0..MaxUpdates /\ MaxUpdates \in Nat
      BY <2>1, InboundAssumption DEF IInv, TypeOK
    <3>2. QED
      BY <3>1 DEF Updates
  <2>3. QED
    BY <2>1, <2>2 DEF IInv, Progress
<1>2. QED
  BY <1>1, Invariant, PTL

\* Every row has its message stored, and a message has no more rows than the ends of the
\* process explain.
THEOREM RowsSoundHolds == Spec => []RowsSound
<1>1. IInv => RowsSound
  <2>1. SUFFICES ASSUME IInv PROVE RowsBounded
    BY DEF RowsSound, IInv
  <2>2. ASSUME NEW m \in Updates
        PROVE  Rows(m) <= 1 + restarts + initFails + faults
    <3>1. restarts \in Nat /\ initFails \in Nat /\ faults \in Nat
      BY <2>1 DEF IInv, CountersOK
    <3>2. Rows(m) <= Ends + 1 /\ Rows(m) \in Nat
      BY <2>1, RowsOf
    <3>3. QED
      BY <3>1, <3>2 DEF Ends
  <2>3. QED
    BY <2>2 DEF RowsBounded
<1>2. QED
  BY <1>1, Invariant, PTL
=============================================================================
