------------------------- MODULE OrchestratorProofs -------------------------
(***************************************************************************)
(* Proofs about module Orchestrator.                                       *)
(*                                                                         *)
(* SingleOwner, CountMatches and AttemptsBound are not inductive: what     *)
(* makes them so is that a running task refers to an inserted row, that    *)
(* the attempts it carries are those in the table, and that a dead process *)
(* leaves nothing running behind.  LifeInv builds on that for what becomes *)
(* of a message: as long as a row may still be answered there is room for  *)
(* one more answer, and an audio file belongs to a row whose task has yet  *)
(* to transcribe it.                                                       *)
(***************************************************************************)
EXTENDS Orchestrator, FiniteSetTheorems, TLAPS

\* An inserted row has a chat; a running task refers to an inserted row.
RowsOfTasks ==
    /\ \A r \in Ids : queue[r].status # "none" => queue[r].chat \in Chats
    /\ \A h \in Handlers : Running(h) =>
           task[h].row \in Ids /\ queue[task[h].row].status # "none"

\* QueuedItem.attempts is the value in the table as long as the task owns the row.
AttemptsFresh ==
    \A h \in Handlers, r \in Ids : Owns(h, r) => task[h].attempts = queue[r].attempts

DownIsEmpty ==
    /\ phase = "down" => /\ notifs = <<>>
                         /\ \A c \in Chats : dequeuing[c] = 0
                         /\ \A h \in Handlers : ~Running(h)
    /\ phase # "down" => boots > 0

\* A pending row can be dequeued once more without leaving AttemptsBound.
PendingAttempts ==
    \A r \in Ids : queue[r].status = "pending" /\ queue[r].attempts > 0
        => queue[r].attempts + 1 < MaxAttempts + boots

IInv ==
    /\ TypeOK
    /\ RowsOfTasks
    /\ SingleOwner
    /\ AttemptsFresh
    /\ CountMatches
    /\ DownIsEmpty
    /\ PendingAttempts
    /\ AttemptsBound

-----------------------------------------------------------------------------
(* Counting the running tasks *)

\* The set processingCount counts is finite: there are finitely many slots.
LEMMA RunningFinite ==
    /\ IsFiniteSet(RunningTasks)
    /\ Cardinality(RunningTasks) \in Nat
<1>1. RunningTasks \in SUBSET Handlers
  BY DEF RunningTasks
<1> QED
  BY <1>1, HandlersFinite, FS_Subset, FS_CardinalityType

\* Registering a task adds one to the count.
LEMMA CountOnStart ==
    ASSUME task \in [Handlers -> Task], CountMatches,
           NEW h \in Handlers, ~Running(h),
           NEW t \in Task, t.pc # "idle",
           task' = [task EXCEPT ![h] = t],
           processingCount' = processingCount + 1
    PROVE  CountMatches'
<1>1. RunningTasks' = RunningTasks \cup {h}
  BY DEF RunningTasks, Running
<1>2. h \notin RunningTasks
  BY DEF RunningTasks
<1> QED
  BY <1>1, <1>2, RunningFinite, FS_AddElement DEF CountMatches

\* The finally block takes one off, and there was one to take.
LEMMA CountOnFinish ==
    ASSUME task \in [Handlers -> Task], CountMatches,
           NEW h \in Handlers, Running(h),
           task' = [task EXCEPT ![h] = Idle],
           processingCount' = processingCount - 1
    PROVE  CountMatches' /\ processingCount' \in Nat
<1>1. RunningTasks' = RunningTasks \ {h}
  BY DEF RunningTasks, Running, Idle
<1>2. h \in RunningTasks
  BY DEF RunningTasks
<1>3. Cardinality(RunningTasks \ {h}) = Cardinality(RunningTasks) - 1
  BY <1>2, RunningFinite, FS_RemoveElement
<1>4. Cardinality(RunningTasks \ {h}) \in Nat
  BY RunningFinite, FS_RemoveElement, FS_CardinalityType
<1> QED
  BY <1>1, <1>3, <1>4 DEF CountMatches

\* A task that moves to another step keeps its slot.
LEMMA CountOnGoto ==
    ASSUME task \in [Handlers -> Task], CountMatches,
           NEW h \in Handlers, Running(h),
           NEW t \in Task, t.pc # "idle",
           task' = [task EXCEPT ![h] = t],
           processingCount' = processingCount
    PROVE  CountMatches'
<1>1. RunningTasks' = RunningTasks
  BY DEF RunningTasks, Running
<1> QED
  BY <1>1 DEF CountMatches

-----------------------------------------------------------------------------
(* What the UPDATE statements do to a row *)

\* An UPDATE keeps the chat and the kind of a row, and its type.
LEMMA RowUpdates ==
    ASSUME NEW row \in Row
    PROVE  /\ \A s \in Statuses :
                 /\ WithStatus(row, s) \in Row
                 /\ WithStatus(row, s).status = s
                 /\ WithStatus(row, s).chat = row.chat
                 /\ WithStatus(row, s).attempts = row.attempts
           /\ /\ Claimed(row) \in Row
              /\ Claimed(row).status = "processing"
              /\ Claimed(row).chat = row.chat
              /\ Claimed(row).attempts = row.attempts + 1
           /\ /\ Revived(row) \in Row
              /\ Revived(row).status = "pending"
              /\ Revived(row).chat = row.chat
              /\ Revived(row).attempts = 0
<1> DEFINE Build(s, n) == [chat |-> row.chat, kind |-> row.kind, status |-> s, attempts |-> n]
<1>1. \A s \in Statuses : WithStatus(row, s) = Build(s, row.attempts)
  BY DEF Row, WithStatus
<1>2. \A n \in Nat : WithAttempts(row, n) = Build(row.status, n)
  BY DEF Row, WithAttempts
<1>3. \A n \in Nat, s \in Statuses : WithStatus(Build(row.status, n), s) = Build(s, n)
  BY DEF WithStatus
<1>4. row.attempts + 1 \in Nat /\ "processing" \in Statuses /\ "pending" \in Statuses
  BY DEF Row, Statuses
<1>5. /\ Claimed(row) = Build("processing", row.attempts + 1)
      /\ Revived(row) = Build("pending", 0)
  <2> HIDE DEF Build
  <2> QED
    BY <1>2, <1>3, <1>4 DEF Claimed, Revived
<1> QED
  BY <1>1, <1>5 DEF Row, Statuses

\* Moving a task to another step keeps its row and attempts, and its type.
LEMMA TaskUpdates ==
    ASSUME NEW t \in Task, NEW pc \in PCs
    PROVE  /\ AtStep(t, pc) \in Task
           /\ AtStep(t, pc).pc = pc
           /\ AtStep(t, pc).row = t.row
           /\ AtStep(t, pc).attempts = t.attempts
           /\ AtStep(t, pc).heard = t.heard
<1>1. AtStep(t, pc) = [pc |-> pc, row |-> t.row, attempts |-> t.attempts, heard |-> t.heard]
  BY DEF Task, AtStep
<1> QED
  BY <1>1 DEF Task

-----------------------------------------------------------------------------
(* The shapes of the steps *)

\* A running task that moves on inside processQueueItem, the table unchanged.
LEMMA GotoStep ==
    ASSUME IInv,
           NEW h \in Handlers, task[h].pc \notin {"idle", "notice"},
           NEW t \in Task, t.pc \notin {"idle", "notice"},
           t.row = task[h].row, t.attempts = task[h].attempts,
           task' = [task EXCEPT ![h] = t],
           queue' = queue, audio' \subseteq Ids, replies' \in [Ids -> Nat],
           faults' \in Nat, Registered, UNCHANGED <<life, notifs>>
    PROVE  IInv'
<1> USE DEF IInv, Registered, life
<1>1. TypeOK'
  BY DEF TypeOK
<1>2. CountMatches'
  BY CountOnGoto DEF TypeOK, Running
<1>3. \A g \in Handlers, r \in Ids : Owns(g, r)' <=> Owns(g, r)
  BY DEF TypeOK, Owns
<1>4. \A g \in Handlers : /\ Running(g)' <=> Running(g)
                          /\ task'[g].row = task[g].row
                          /\ task'[g].attempts = task[g].attempts
  BY DEF TypeOK, Running
<1>5. RowsOfTasks' /\ SingleOwner' /\ AttemptsFresh'
  BY <1>3, <1>4 DEF RowsOfTasks, SingleOwner, AttemptsFresh
<1>6. DownIsEmpty' /\ PendingAttempts' /\ AttemptsBound'
  BY <1>4 DEF DownIsEmpty, PendingAttempts, AttemptsBound
<1> QED
  BY <1>1, <1>2, <1>5, <1>6

\* A task that ends; it may first have settled or returned the row it owned.
LEMMA FinishStep ==
    ASSUME IInv,
           NEW h \in Handlers, Running(h), Finally(h),
           \/ queue' = queue
           \/ /\ Owns(h, task[h].row)
              /\ \E s \in {"completed", "dead_letter", "pending"} :
                    /\ queue' = [queue EXCEPT ![task[h].row] = WithStatus(@, s)]
                    /\ s = "pending" => queue[task[h].row].attempts < MaxAttempts,
           audio' = audio, replies' = replies, faults' \in Nat,
           UNCHANGED <<life, notifs>>
    PROVE  IInv'
<1> USE ConstantsAssumption DEF IInv, life
<1>0. /\ task[h].row \in Ids
      /\ queue[task[h].row].status # "none"
      /\ ChatOf(h) \in Chats
      /\ phase # "down"
      /\ boots > 0
  BY DEF RowsOfTasks, ChatOf, DownIsEmpty
<1>1. CountMatches' /\ processingCount' \in Nat
  BY CountOnFinish DEF TypeOK, Finally
<1>2. task' \in [Handlers -> Task]
  BY DEF TypeOK, Finally, Idle, Task, PCs
<1>3. queue' \in [Ids -> Row]
  BY <1>0, RowUpdates DEF TypeOK, Statuses
<1>4. activeTasks' \in [Chats -> Ids \cup {0}] /\ dequeuing' \in [Chats -> Nat]
  BY <1>0 DEF TypeOK, Finally
<1>5. TypeOK'
  BY <1>1, <1>2, <1>3, <1>4 DEF TypeOK
<1>6. \A g \in Handlers : /\ g # h => task'[g] = task[g]
                          /\ g = h => ~Running(g)' /\ task'[g].pc = "idle"
  BY DEF TypeOK, Finally, Running, Idle
<1>7. \A r \in Ids : /\ r # task[h].row => queue'[r] = queue[r]
                     /\ queue'[r].attempts = queue[r].attempts
                     /\ queue'[r].chat = queue[r].chat
                     /\ queue'[r].status = "none" <=> queue[r].status = "none"
                     /\ queue'[r].status = "pending" =>
                            queue[r].status = "pending" \/ queue[r].attempts < MaxAttempts
  BY <1>0, RowUpdates DEF TypeOK, Statuses
<1>8. RowsOfTasks'
  BY <1>6, <1>7 DEF RowsOfTasks, Running
<1>9. SingleOwner' /\ AttemptsFresh'
  BY <1>6, <1>7 DEF SingleOwner, AttemptsFresh, Owns
<1>10. DownIsEmpty'
  BY <1>0 DEF DownIsEmpty
<1>11. \A r \in Ids : queue[r].attempts \in Nat /\ boots \in Nat
  BY DEF TypeOK, Row
<1>12. PendingAttempts' /\ AttemptsBound'
  BY <1>0, <1>7, <1>11 DEF PendingAttempts, AttemptsBound
<1> QED
  BY <1>1, <1>5, <1>8, <1>9, <1>10, <1>12

\* A row nobody works on is inserted, purged or revived.
LEMMA TableStep ==
    ASSUME IInv,
           NEW r \in Ids, queue[r].status # "processing",
           NEW row \in Row, row.status \in Statuses \ {"none"}, row.chat \in Chats,
           row.attempts > 0 => row.status # "pending" /\ row.attempts = queue[r].attempts,
           queue' = [queue EXCEPT ![r] = row],
           audio' \subseteq Ids, notifs' \in Seq(Chats),
           phase = "down" => notifs' = notifs,
           UNCHANGED <<replies, life, tasks, faults>>
    PROVE  IInv'
<1> USE DEF IInv, life, tasks
<1>1. TypeOK'
  BY DEF TypeOK
<1>2. CountMatches'
  BY DEF CountMatches, RunningTasks, Running
<1>3. \A q \in Ids : /\ q # r => queue'[q] = queue[q]
                     /\ q = r => queue'[q] = row
  BY DEF TypeOK
<1>4. \A g \in Handlers : ~Owns(g, r)
  BY DEF SingleOwner
<1>5. RowsOfTasks'
  BY <1>3 DEF RowsOfTasks, Running
<1>6. SingleOwner' /\ AttemptsFresh'
  BY <1>3, <1>4 DEF SingleOwner, AttemptsFresh, Owns
<1>7. DownIsEmpty'
  BY DEF DownIsEmpty, Running
<1>8. PendingAttempts' /\ AttemptsBound'
  BY <1>3 DEF PendingAttempts, AttemptsBound
<1> QED
  BY <1>1, <1>2, <1>5, <1>6, <1>7, <1>8

\* The process moves on between two deaths; no task starts, moves or ends.
LEMMA ProcessStep ==
    ASSUME IInv,
           phase # "down", phase' \in Phases \ {"down"},
           stopping' \in BOOLEAN, notifs' \in Seq(Chats),
           dequeuing' \in [Chats -> Nat], faults' \in Nat,
           UNCHANGED <<table, task, activeTasks, processingCount, boots>>
    PROVE  IInv'
<1> USE DEF IInv, table
<1>1. TypeOK' /\ CountMatches'
  BY DEF TypeOK, CountMatches, RunningTasks, Running
<1>2. RowsOfTasks' /\ SingleOwner' /\ AttemptsFresh'
  BY DEF RowsOfTasks, SingleOwner, AttemptsFresh, Owns, Running
<1>3. DownIsEmpty' /\ PendingAttempts' /\ AttemptsBound'
  BY DEF DownIsEmpty, PendingAttempts, AttemptsBound
<1> QED
  BY <1>1, <1>2, <1>3

\* The process dies.
LEMMA DeathStep ==
    ASSUME IInv, LoseMemory, UNCHANGED <<table, stopping, boots, faults>>
    PROVE  IInv'
<1> USE DEF IInv, table, LoseMemory
<1>1. \A h \in Handlers : task'[h] = Idle
  OBVIOUS
<1>2. Idle \in Task /\ Idle.pc = "idle"
  BY DEF Idle, Task, PCs
<1>3. TypeOK'
  BY <1>2 DEF TypeOK, Phases
<1>4. RunningTasks' = {}
  BY <1>1, <1>2 DEF RunningTasks, Running
<1>5. CountMatches'
  BY <1>4, FS_EmptySet DEF CountMatches
<1>6. RowsOfTasks' /\ SingleOwner' /\ AttemptsFresh' /\ DownIsEmpty'
  BY <1>1, <1>2 DEF RowsOfTasks, SingleOwner, AttemptsFresh, DownIsEmpty, Owns, Running
<1>7. PendingAttempts' /\ AttemptsBound'
  BY DEF PendingAttempts, AttemptsBound
<1> QED
  BY <1>3, <1>5, <1>6, <1>7

\* queue.start(): the rows a dead process left 'processing' are pending again.
LEMMA BootStep ==
    ASSUME IInv, Boot
    PROVE  IInv'
<1> USE ConstantsAssumption DEF IInv, Boot, tasks
<1>1. \A r \in Ids : /\ queue'[r] \in Row
                     /\ queue'[r].attempts = queue[r].attempts
                     /\ queue'[r].chat = queue[r].chat
                     /\ queue'[r].status = "none" <=> queue[r].status = "none"
  BY RowUpdates DEF TypeOK, RecoverStuckMessages, Statuses
<1>2. TypeOK'
  <2>1. queue' \in [Ids -> Row]
    BY <1>1 DEF RecoverStuckMessages
  <2>2. stopping' \in BOOLEAN
    OBVIOUS
  <2>3. boots' \in Nat /\ phase' \in Phases
    BY DEF TypeOK, Phases
  <2> QED
    BY <2>1, <2>2, <2>3 DEF TypeOK
<1>3. CountMatches'
  BY DEF CountMatches, RunningTasks, Running
<1>4. RowsOfTasks' /\ SingleOwner' /\ AttemptsFresh' /\ DownIsEmpty'
  <2>1. phase' # "down" /\ boots' > 0
    BY DEF TypeOK
  <2>2. \A h \in Handlers : ~Running(h) /\ ~Running(h)'
    BY DEF DownIsEmpty, Running
  <2>3. RowsOfTasks'
    BY <1>1, <2>2 DEF RowsOfTasks
  <2>4. \A h \in Handlers, r \in Ids : ~Owns(h, r)'
    BY <2>2 DEF Owns, Running
  <2>5. SingleOwner' /\ AttemptsFresh'
    BY <2>4 DEF SingleOwner, AttemptsFresh
  <2> QED
    BY <2>1, <2>3, <2>5 DEF DownIsEmpty
<1>5. \A r \in Ids : queue[r].attempts \in Nat /\ boots \in Nat
  BY DEF TypeOK, Row
<1>6. PendingAttempts' /\ AttemptsBound'
  BY <1>1, <1>5 DEF PendingAttempts, AttemptsBound
<1> QED
  BY <1>2, <1>3, <1>4, <1>6

\* dequeueForChat and the registration of its task.
LEMMA DequeueStepKeeps ==
    ASSUME IInv, NEW c \in Chats, DequeueForChat(c)
    PROVE  IInv'
<1> USE ConstantsAssumption DEF IInv, life
<1> PICK r \in Ids, h \in Handlers :
        /\ OldestPending(r, c)
        /\ ~Running(h)
        /\ queue' = [queue EXCEPT ![r] = Claimed(@)]
        /\ task' = [task EXCEPT ![h] =
                [pc |-> FirstStep(queue[r].kind), row |-> r,
                 attempts |-> queue[r].attempts + 1, heard |-> queue[r].kind # "voice"]]
        /\ activeTasks' = [activeTasks EXCEPT ![c] = r]
        /\ processingCount' = processingCount + 1
  BY DEF DequeueForChat
<1> DEFINE t == [pc |-> FirstStep(queue[r].kind), row |-> r,
                 attempts |-> queue[r].attempts + 1, heard |-> queue[r].kind # "voice"]
<1>1. /\ t \in Task /\ t.pc \notin {"idle", "notice"}
      /\ t.row = r /\ t.attempts = queue[r].attempts + 1
  BY DEF TypeOK, Row, Task, PCs, FirstStep
<1> HIDE DEF t
<1>2. task' = [task EXCEPT ![h] = t]
  BY DEF t
<1>3. queue[r].status = "pending" /\ queue[r].chat = c
  BY DEF OldestPending, IsPending
<1>4. \A q \in Ids : /\ q # r => queue'[q] = queue[q]
                     /\ q = r => /\ queue'[q] \in Row
                                 /\ queue'[q].status = "processing"
                                 /\ queue'[q].chat = c
                                 /\ queue'[q].attempts = queue[q].attempts + 1
  BY <1>3, RowUpdates DEF TypeOK
<1>5. \A g \in Handlers : /\ g # h => task'[g] = task[g]
                          /\ g = h => task'[g] = t
  BY <1>2 DEF TypeOK
<1>6. dequeuing[c] > 0 /\ phase # "down" /\ boots > 0
  BY DEF DequeueForChat, DownIsEmpty
<1>7. dequeuing' \in [Chats -> Nat]
  BY <1>6 DEF DequeueForChat, TypeOK
<1>8. TypeOK'
  <2>1. queue' \in [Ids -> Row] /\ task' \in [Handlers -> Task]
    BY <1>1, <1>2, <1>4 DEF TypeOK
  <2> QED
    BY <1>7, <2>1 DEF TypeOK, DequeueForChat, DbWorks
<1>9. CountMatches'
  BY <1>1, <1>2, CountOnStart DEF TypeOK
<1>10. \A g \in Handlers : ~Owns(g, r)
  BY <1>3 DEF SingleOwner
<1>11. RowsOfTasks'
  BY <1>1, <1>4, <1>5 DEF RowsOfTasks, Running
<1>12. SingleOwner' /\ AttemptsFresh'
  BY <1>1, <1>4, <1>5, <1>10 DEF SingleOwner, AttemptsFresh, Owns
<1>13. DownIsEmpty'
  BY <1>6 DEF DownIsEmpty, DequeueForChat
<1>14. \A q \in Ids : queue[q].attempts \in Nat /\ boots \in Nat
  BY DEF TypeOK, Row
<1>15. boots' = boots
  BY DEF DequeueForChat
<1>16. PendingAttempts'
  BY <1>4, <1>15 DEF PendingAttempts
<1>17. queue[r].attempts + 1 < MaxAttempts + boots
  BY <1>3, <1>6, <1>14 DEF PendingAttempts
<1>18. AttemptsBound'
  BY <1>4, <1>15, <1>17 DEF AttemptsBound
<1> QED
  BY <1>8, <1>9, <1>11, <1>12, <1>13, <1>16, <1>18

-----------------------------------------------------------------------------
(* The inductive invariant *)

LEMMA InvInit == Init => IInv
<1> SUFFICES ASSUME Init PROVE IInv
  OBVIOUS
<1> USE ConstantsAssumption DEF Init, IInv
<1>1. /\ NoRow \in Row /\ NoRow.status = "none" /\ NoRow.attempts = 0
      /\ Idle \in Task /\ Idle.pc = "idle"
  BY DEF NoRow, Row, Statuses, Idle, Task, PCs
<1>2. TypeOK
  <2>1. queue \in [Ids -> Row] /\ replies \in [Ids -> Nat] /\ task \in [Handlers -> Task]
    BY <1>1
  <2>2. stopping \in BOOLEAN
    OBVIOUS
  <2>3. notifs \in Seq(Chats) /\ audio \subseteq Ids /\ phase \in Phases
    BY DEF Phases
  <2> QED
    BY <2>1, <2>2, <2>3 DEF TypeOK
<1>3. RunningTasks = {}
  BY <1>1 DEF RunningTasks, Running
<1>4. CountMatches
  BY <1>3, FS_EmptySet DEF CountMatches
<1>5. RowsOfTasks /\ SingleOwner /\ AttemptsFresh /\ DownIsEmpty
  BY <1>1 DEF RowsOfTasks, SingleOwner, AttemptsFresh, DownIsEmpty, Owns, Running
<1>6. PendingAttempts /\ AttemptsBound
  BY <1>1 DEF PendingAttempts, AttemptsBound
<1> QED
  BY <1>2, <1>4, <1>5, <1>6

\* queue.fail: the task that owned the row gives it back, dead-letters it, and in
\* the latter case goes on to tell the user.
LEMMA FailKeeps ==
    ASSUME IInv, NEW h \in Handlers, Fail(h)
    PROVE  IInv'
<1> USE ConstantsAssumption DEF IInv
<1> DEFINE r == task[h].row
<1>1. /\ Running(h) /\ Owns(h, r) /\ r \in Ids
      /\ task[h].attempts = queue[r].attempts /\ queue[r].status = "processing"
      /\ faults' = faults /\ faults \in Nat /\ task[h] \in Task
  BY DEF Fail, Running, Owns, RowsOfTasks, AttemptsFresh, SingleOwner, TypeOK, DbWorks
<1>2. CASE task[h].attempts < MaxAttempts
  <2>1. StatusAfterFail(r) = "pending" /\ ~(task[h].attempts >= MaxAttempts)
    BY <1>1, <1>2 DEF StatusAfterFail, Task
  <2> QED
    BY <1>1, <1>2, <2>1, FinishStep DEF Fail
<1>3. CASE task[h].attempts >= MaxAttempts
  <2>1. StatusAfterFail(r) = "dead_letter"
    BY <1>1, <1>3 DEF StatusAfterFail
  <2>2. /\ task' = [task EXCEPT ![h] = AtStep(task[h], "notice")]
        /\ queue' = [queue EXCEPT ![r] = WithStatus(queue[r], "dead_letter")]
        /\ Registered /\ UNCHANGED <<audio, replies, life, notifs>>
    BY <1>3, <2>1 DEF Fail, Goto
  <2>3. /\ AtStep(task[h], "notice") \in Task
        /\ AtStep(task[h], "notice").pc = "notice"
        /\ AtStep(task[h], "notice").row = r
    BY <1>1, TaskUpdates DEF PCs
  <2>4. \A q \in Ids : /\ queue'[q] \in Row
                       /\ q # r => queue'[q] = queue[q]
                       /\ q = r => queue'[q].status = "dead_letter"
                       /\ queue'[q].attempts = queue[q].attempts
                       /\ queue'[q].chat = queue[q].chat
    BY <1>1, <2>2, RowUpdates DEF TypeOK, Statuses
  <2>5. \A g \in Handlers : /\ g # h => task'[g] = task[g]
                            /\ g = h => task'[g].pc = "notice" /\ task'[g].row = r
    BY <2>2, <2>3 DEF TypeOK
  <2>6. TypeOK'
    BY <1>1, <2>2, <2>3, <2>4 DEF TypeOK, Registered, life
  <2>7. CountMatches'
    BY <1>1, <2>2, <2>3, CountOnGoto DEF TypeOK, Registered
  <2>8. RowsOfTasks'
    BY <1>1, <2>4, <2>5 DEF RowsOfTasks, Running
  <2>9. SingleOwner' /\ AttemptsFresh'
    BY <1>1, <2>4, <2>5 DEF SingleOwner, AttemptsFresh, Owns
  <2>10. DownIsEmpty' /\ PendingAttempts' /\ AttemptsBound'
    BY <1>1, <2>2, <2>4 DEF DownIsEmpty, PendingAttempts, AttemptsBound, Registered, life
  <2> QED
    BY <2>6, <2>7, <2>8, <2>9, <2>10
<1> QED
  BY <1>1, <1>2, <1>3 DEF Task

\* Every step of a task keeps the invariant.
LEMMA TaskStepKeeps ==
    ASSUME IInv, NEW h \in Handlers, TaskStep(h)
    PROVE  IInv'
<1> USE DEF IInv
<1>0. task \in [Handlers -> Task] /\ faults \in Nat /\ audio \subseteq Ids
      /\ replies \in [Ids -> Nat] /\ task[h] \in Task
  BY DEF TypeOK
<1>1. ASSUME NEW pc \in PCs \ {"idle", "notice"}, task[h].pc \notin {"idle", "notice"},
             Goto(h, pc), Registered, queue' = queue, audio' = audio,
             replies' \in [Ids -> Nat], faults' \in Nat, UNCHANGED <<life, notifs>>
      PROVE  IInv'
  <2>1. task' = [task EXCEPT ![h] = AtStep(task[h], pc)]
    BY <1>1 DEF Goto
  <2>2. PICK t : t = AtStep(task[h], pc)
    OBVIOUS
  <2>3. /\ t \in Task /\ t.pc \notin {"idle", "notice"}
        /\ t.row = task[h].row /\ t.attempts = task[h].attempts
    BY <1>0, <2>2, TaskUpdates
  <2>4. task' = [task EXCEPT ![h] = t] /\ audio' \subseteq Ids
    BY <1>0, <1>1, <2>1, <2>2
  <2> HIDE DEF IInv
  <2> QED
    BY <1>1, <2>3, <2>4, GotoStep
<1>2. faults' \in Nat \/ ~(DbWorks \/ DbThrows \/ faults' = faults)
  BY <1>0 DEF DbWorks, DbThrows
<1>3. CASE Transcribe(h)
  <2> PICK heard \in BOOLEAN : task' = [task EXCEPT ![h] = Transcribed(@, heard)]
    BY <1>3 DEF Transcribe
  <2>1. /\ Transcribed(task[h], heard) \in Task
        /\ Transcribed(task[h], heard).pc = "agent"
        /\ Transcribed(task[h], heard).row = task[h].row
        /\ Transcribed(task[h], heard).attempts = task[h].attempts
    BY <1>0 DEF Transcribed, Task, PCs
  <2> QED
    BY <1>0, <1>3, <2>1, GotoStep DEF Transcribe
<1>4. CASE HandleCommand(h)
  BY <1>0, <1>1, <1>4 DEF HandleCommand, PCs, table
<1>5. CASE ExecuteAgent(h)
  BY <1>0, <1>1, <1>5 DEF ExecuteAgent, PCs, table
<1>6. CASE SendResponse(h)
  <2>1. PICK d \in {0, 1} : replies' = [replies EXCEPT ![task[h].row] = @ + d]
    BY <1>6 DEF SendResponse
  <2>2. \A r \in Ids : replies[r] + d \in Nat
    BY <1>0
  <2>3. replies' \in [Ids -> Nat]
    BY <1>0, <2>1, <2>2
  <2> QED
    BY <1>0, <1>1, <1>6, <2>3 DEF SendResponse, PCs
<1>7. CASE SendResponseThrows(h)
  BY <1>0, <1>1, <1>7 DEF SendResponseThrows, PCs, table
<1>8. CASE StoreResponse(h)
  BY <1>0, <1>1, <1>2, <1>8 DEF StoreResponse, PCs, table
<1>9. CASE Acknowledge(h)
  <2>1. Running(h) /\ Owns(h, task[h].row)
    BY <1>9 DEF Acknowledge, Running, Owns
  <2> QED
    BY <1>2, <1>9, <2>1, FinishStep DEF Acknowledge
<1>10. CASE AcknowledgeThrows(h)
  BY <1>0, <1>1, <1>2, <1>10 DEF AcknowledgeThrows, PCs, table
<1>11. CASE Fail(h)
  BY <1>11, FailKeeps
<1>12. CASE FailThrows(h)
  <2>1. Running(h)
    BY <1>12 DEF FailThrows, Running
  <2> QED
    BY <1>2, <1>12, <2>1, FinishStep DEF FailThrows, table
<1>13. CASE SendNotice(h)
  <2>1. Running(h)
    BY <1>13 DEF SendNotice, Running
  <2> QED
    BY <1>0, <1>13, <2>1, FinishStep DEF SendNotice, table
<1> QED
  BY <1>3, <1>4, <1>5, <1>6, <1>7, <1>8, <1>9, <1>10, <1>11, <1>12, <1>13 DEF TaskStep

LEMMA InvNext == IInv /\ [Next]_vars => IInv'
<1> SUFFICES ASSUME IInv, [Next]_vars PROVE IInv'
  OBVIOUS
<1> USE ConstantsAssumption DEF IInv
<1>0. /\ faults \in Nat /\ stopping \in BOOLEAN /\ notifs \in Seq(Chats)
      /\ dequeuing \in [Chats -> Nat] /\ audio \subseteq Ids /\ queue \in [Ids -> Row]
      /\ phase \in Phases /\ boots \in Nat
  BY DEF TypeOK
<1>1. ASSUME NEW c \in Chats, NEW k \in Kinds, Enqueue(c, k) PROVE IInv'
  <2> PICK r \in Ids :
          /\ FreshId(r)
          /\ queue' = [queue EXCEPT ![r] =
                [chat |-> c, kind |-> k, status |-> "pending", attempts |-> 0]]
          /\ audio' = IF k = "voice" THEN audio \cup {r} ELSE audio
    BY <1>1 DEF Enqueue
  <2> DEFINE row == [chat |-> c, kind |-> k, status |-> "pending", attempts |-> 0]
  <2>1. /\ row \in Row /\ row.status = "pending" /\ row.chat = c
        /\ row.attempts = 0 /\ ~(row.attempts > 0)
    BY DEF Row, Statuses
  <2>2. queue[r].status # "processing"
    BY DEF FreshId
  <2>3. notifs' \in Seq(Chats) /\ (phase = "down" => notifs' = notifs)
    BY <1>0, <1>1 DEF Enqueue, Listening
  <2>4. audio' \subseteq Ids
    BY <1>0
  <2> HIDE DEF row
  <2> QED
    BY <1>1, <2>1, <2>2, <2>3, <2>4, TableStep DEF Enqueue, row, Statuses
<1>2. ASSUME NEW r \in Ids, RetryDeadLetter(r) PROVE IInv'
  <2>1. /\ Revived(queue[r]) \in Row /\ Revived(queue[r]).status = "pending"
        /\ Revived(queue[r]).chat \in Chats
        /\ Revived(queue[r]).attempts = 0 /\ ~(Revived(queue[r]).attempts > 0)
    BY <1>0, <1>2, RowUpdates DEF RowsOfTasks, RetryDeadLetter
  <2> QED
    BY <1>0, <1>2, <2>1, TableStep DEF RetryDeadLetter, Statuses
<1>3. ASSUME NEW r \in Ids, PurgeCompleted(r) PROVE IInv'
  <2> DEFINE row == WithStatus(queue[r], "deleted")
  <2>1. /\ row \in Row /\ row.status = "deleted"
        /\ row.attempts = queue[r].attempts /\ row.chat \in Chats
    BY <1>0, <1>3, RowUpdates DEF RowsOfTasks, PurgeCompleted, Statuses
  <2> HIDE DEF row
  <2> QED
    BY <1>0, <1>3, <2>1, TableStep DEF PurgeCompleted, Statuses, row
<1>4. CASE Boot
  BY <1>4, BootStep
<1>5. CASE Subscribe
  BY <1>0, <1>5, ProcessStep DEF Subscribe, Phases, tasks
<1>6. CASE DrainPendingMessages
  <2>1. dequeuing' \in [Chats -> Nat]
    BY <1>0, <1>6 DEF DrainPendingMessages
  <2> QED
    BY <1>0, <1>6, <2>1, ProcessStep DEF DrainPendingMessages, Phases
<1>7. CASE Crash
  BY <1>7, DeathStep DEF Crash
<1>8. CASE Signal
  <2>1. stopping' \in BOOLEAN
    BY <1>8 DEF Signal
  <2> QED
    BY <1>0, <1>8, <2>1, ProcessStep DEF Signal, Phases, tasks
<1>9. CASE DrainComplete \/ DrainTimeout
  BY <1>0, <1>9, ProcessStep DEF DrainComplete, DrainTimeout, Phases, tasks
<1>10. CASE StopQueue
  <2>1. notifs' \in Seq(Chats)
    BY <1>10 DEF StopQueue
  <2> QED
    BY <1>0, <1>10, <2>1, ProcessStep DEF StopQueue, Phases, tasks
<1>11. CASE Exit
  BY <1>11, DeathStep DEF Exit
<1>12. CASE OnNewMessage \/ LoseNotification
  <2>0. notifs # <<>> /\ notifs' = Tail(notifs)
    BY <1>12 DEF OnNewMessage, LoseNotification
  <2>1. notifs # <<>> /\ notifs' \in Seq(Chats) /\ Head(notifs) \in Chats
    BY <1>0, <2>0
  <2>2. phase # "down"
    BY <2>1 DEF DownIsEmpty
  <2>3. dequeuing' \in [Chats -> Nat]
    BY <1>0, <1>12, <2>1 DEF OnNewMessage, LoseNotification, tasks
  <2>4. faults' \in Nat
    BY <1>0, <1>12 DEF OnNewMessage, LoseNotification
  <2> QED
    BY <1>0, <1>12, <2>1, <2>2, <2>3, <2>4, ProcessStep
       DEF OnNewMessage, LoseNotification, life, tasks
<1>13. ASSUME NEW c \in Chats, DequeueStep(c) PROVE IInv'
  <2>1. dequeuing[c] > 0 /\ phase # "down" /\ faults' \in Nat
    BY <1>0, <1>13 DEF DequeueStep, DequeueForChat, DequeueNothing, DequeueRejected,
                       DbWorks, DbThrows, DownIsEmpty
  <2>2. [dequeuing EXCEPT ![c] = @ - 1] \in [Chats -> Nat]
    BY <1>0, <2>1
  <2>3. CASE DequeueForChat(c)
    BY <2>3, DequeueStepKeeps
  <2>4. CASE DequeueNothing(c)
    BY <1>0, <2>1, <2>2, <2>4, ProcessStep DEF DequeueNothing, life
  <2>5. CASE DequeueRejected(c)
    <3>1. stopping' \in BOOLEAN
      BY <2>5 DEF DequeueRejected
    <3>2. phase' \in Phases \ {"down"}
      BY <1>0, <2>1, <2>5 DEF DequeueRejected, PhaseOnShutdown, Phases
    <3> QED
      BY <1>0, <2>1, <2>2, <2>5, <3>1, <3>2, ProcessStep DEF DequeueRejected
  <2> QED
    BY <1>13, <2>3, <2>4, <2>5 DEF DequeueStep
<1>14. ASSUME NEW h \in Handlers, TaskStep(h) PROVE IInv'
  BY <1>14, TaskStepKeeps
<1>15. CASE UNCHANGED vars
  <2>1. TypeOK' /\ CountMatches'
    BY <1>15 DEF vars, TypeOK, CountMatches, RunningTasks, Running
  <2> QED
    BY <1>15, <2>1 DEF vars, RowsOfTasks, SingleOwner, AttemptsFresh, DownIsEmpty,
                       PendingAttempts, AttemptsBound, Owns, Running
<1> QED
  BY <1>1, <1>2, <1>3, <1>4, <1>5, <1>6, <1>7, <1>8, <1>9, <1>10, <1>11, <1>12, <1>13,
     <1>14, <1>15 DEF Next, StartStep, StopStep

\* The strengthened invariant holds in every reachable state.
THEOREM InductiveInvariant == Spec => []IInv
<1> QED
  BY InvInit, InvNext, PTL DEF Spec

\* The table and the memory of the orchestrator always have their declared shape;
\* in particular processingCount and the counts of awaited dequeues never go below 0.
THEOREM TypeCorrect == Spec => []TypeOK
<1>1. IInv => TypeOK
  BY DEF IInv
<1> QED
  BY <1>1, InductiveInvariant, PTL

\* No two tasks ever work on one queue row, and the row of a task is 'processing',
\* through retries, crashes, restarts and overlapping dequeues of one chat.
THEOREM OwnershipHolds == Spec => []SingleOwner
<1>1. IInv => SingleOwner
  BY DEF IInv
<1> QED
  BY <1>1, InductiveInvariant, PTL

\* processingCount, which stop() waits for, counts the running tasks.
THEOREM CountHolds == Spec => []CountMatches
<1>1. IInv => CountMatches
  BY DEF IInv
<1> QED
  BY <1>1, InductiveInvariant, PTL

\* A row is attempted at most max_attempts times, plus once per restart.
THEOREM AttemptsBounded == Spec => []AttemptsBound
<1>1. IInv => AttemptsBound
  BY DEF IInv
<1> QED
  BY <1>1, InductiveInvariant, PTL

-----------------------------------------------------------------------------
(* What becomes of a message *)

\* The phases in which the router still sends.
Answering == {"booting", "listening", "up", "draining"}

\* The row may be answered (again) before the process is next started: it is not
\* completed, and no task has its answer behind it.
Answerable(r) ==
    /\ queue[r].status \notin {"completed", "deleted"}
    /\ \A h \in Handlers : Owns(h, r) => task[h].pc \notin {"store", "ack"}

\* RepliesBound has room for the answer that may still come.
AnswersLeft ==
    \A r \in Ids : phase \in Answering /\ Answerable(r) => replies[r] < boots + faults

\* Only an inserted voice message has a file, and its task is yet to transcribe it.
AudioOfRows ==
    \A r \in audio :
        /\ queue[r].kind = "voice" /\ queue[r].status # "none"
        /\ \A h \in Handlers : Owns(h, r) => task[h].pc = "transcribe"

LifeInv ==
    /\ ActiveTasksBacked
    /\ NoStrandedRow
    /\ RepliesBound
    /\ AnswersLeft
    /\ AudioRemoved
    /\ AudioOfRows

\* An UPDATE keeps the kind of a row.
LEMMA KindKept ==
    ASSUME NEW row \in Row
    PROVE  /\ \A s \in Statuses : WithStatus(row, s).kind = row.kind
           /\ Claimed(row).kind = row.kind
           /\ Revived(row).kind = row.kind
  BY DEF Row, WithStatus, WithAttempts, Claimed, Revived

\* UPDATE queue SET status = s changes nothing else of the row.
LEMMA StatusSet ==
    ASSUME NEW row \in Row, NEW s \in Statuses
    PROVE  /\ WithStatus(row, s).status = s
           /\ WithStatus(row, s).chat = row.chat
           /\ WithStatus(row, s).kind = row.kind
           /\ WithStatus(row, s).attempts = row.attempts
  BY RowUpdates, KindKept

\* The counters these invariants compare are numbers.
LEMMA CountersTyped ==
    ASSUME TypeOK
    PROVE  /\ boots \in Nat /\ faults \in Nat /\ \A r \in Ids : replies[r] \in Nat
           /\ \A r \in Ids : queue[r] \in Row
           /\ \A h \in Handlers : task[h] \in Task
  BY DEF TypeOK

\* The process moves on, and no row and no task changes.
LEMMA LifeOnProcess ==
    ASSUME IInv, LifeInv, faults' \in Nat, faults' >= faults,
           phase' \notin {"down", "queueStopped"} => phase \notin {"down", "queueStopped"},
           phase' \in Answering => phase \in Answering,
           UNCHANGED <<table, task, activeTasks, boots>>
    PROVE  LifeInv'
<1> USE DEF LifeInv, table
<1>0. boots \in Nat /\ faults \in Nat /\ \A r \in Ids : replies[r] \in Nat
  BY CountersTyped DEF IInv
<1>1. \A h \in Handlers, r \in Ids : Owns(h, r)' <=> Owns(h, r)
  BY DEF Owns
<1>2. ActiveTasksBacked'
  BY DEF ActiveTasksBacked, Running, ChatOf
<1>3. NoStrandedRow'
  BY <1>0, <1>1 DEF NoStrandedRow
<1>4. RepliesBound' /\ AnswersLeft'
  BY <1>0, <1>1 DEF RepliesBound, AnswersLeft, Answerable
<1>5. AudioRemoved' /\ AudioOfRows'
  BY <1>1 DEF AudioRemoved, AudioOfRows, IInv, TypeOK
<1> QED
  BY <1>2, <1>3, <1>4, <1>5

\* The process dies: its rows stay behind as they are.
LEMMA LifeOnDeath ==
    ASSUME IInv, LifeInv, LoseMemory, UNCHANGED <<table, stopping, boots, faults>>
    PROVE  LifeInv'
<1> USE DEF LifeInv, table, LoseMemory
<1>1. \A h \in Handlers, r \in Ids : ~Owns(h, r)'
  BY DEF Owns, Idle
<1>2. phase' = "down" /\ \A c \in Chats : activeTasks'[c] = 0
  OBVIOUS
<1>3. ActiveTasksBacked' /\ NoStrandedRow' /\ RepliesBound' /\ AnswersLeft'
  BY <1>2 DEF ActiveTasksBacked, NoStrandedRow, RepliesBound, AnswersLeft, Answering
<1>4. AudioRemoved' /\ AudioOfRows'
  BY <1>1 DEF AudioRemoved, AudioOfRows, IInv, TypeOK
<1> QED
  BY <1>3, <1>4

\* A task moves on inside processQueueItem; the answer may have been sent, and the audio
\* file removed.
LEMMA LifeOnMove ==
    ASSUME IInv, LifeInv, NEW h \in Handlers, task[h].pc \notin {"idle", "notice"},
           NEW t \in Task, t.pc \notin {"idle", "notice"}, t.row = task[h].row,
           task' = [task EXCEPT ![h] = t],
           queue' = queue, Registered, UNCHANGED life,
           faults' \in Nat, faults' >= faults,
           audio' \subseteq audio, task[h].row \in audio' => t.pc = "transcribe",
           replies' \in [Ids -> Nat],
           \A q \in Ids : q # task[h].row => replies'[q] = replies[q],
           replies'[task[h].row] <= boots + faults',
           phase \in Answering /\ t.pc \notin {"store", "ack"}
               => replies'[task[h].row] < boots + faults'
    PROVE  LifeInv'
<1> USE DEF LifeInv, Registered, life
<1>0. boots \in Nat /\ faults \in Nat /\ \A r \in Ids : replies[r] \in Nat
  BY CountersTyped DEF IInv
<1>1. \A g \in Handlers : /\ g # h => task'[g] = task[g]
                          /\ g = h => task'[g] = t
  BY DEF IInv, TypeOK
<1>2. \A g \in Handlers, r \in Ids : Owns(g, r)' <=> Owns(g, r)
  BY <1>1 DEF Owns
<1>3. ActiveTasksBacked'
  BY <1>1 DEF ActiveTasksBacked, Running, ChatOf
<1>4. NoStrandedRow'
  BY <1>0, <1>2 DEF NoStrandedRow
<1>5. Owns(h, task[h].row) /\ task[h].row \in Ids
  BY DEF Owns, IInv, RowsOfTasks, Running
<1>6. RepliesBound'
  BY <1>0 DEF RepliesBound
<1>7. ASSUME NEW r \in Ids, phase \in Answering, Answerable(r)'
      PROVE  replies'[r] < boots + faults'
  <2>1. CASE r = task[h].row
    BY <1>1, <1>2, <1>5, <1>7, <2>1 DEF Answerable
  <2>2. CASE r # task[h].row
    <3>1. Answerable(r)
      BY <1>1, <1>2, <1>7, <2>2 DEF Answerable, Owns
    <3>2. replies[r] < boots + faults
      BY <1>7, <3>1 DEF AnswersLeft
    <3> QED
      BY <1>0, <2>2, <3>2
  <2> QED
    BY <2>1, <2>2
<1>8. AnswersLeft'
  BY <1>7 DEF AnswersLeft
<1>9. AudioRemoved' /\ AudioOfRows'
  <2>1. AudioRemoved'
    BY DEF AudioRemoved
  <2>2. ASSUME NEW r \in audio', NEW g \in Handlers, Owns(g, r)'
        PROVE  task'[g].pc = "transcribe"
    BY <1>1, <1>2, <2>2 DEF AudioOfRows, Owns, IInv, TypeOK
  <2> QED
    BY <2>1, <2>2 DEF AudioOfRows
<1> QED
  BY <1>3, <1>4, <1>6, <1>8, <1>9

\* A task ends. The row it owned is settled or pending again, or the call that
\* should have done so failed; a task that was telling the user owned none.
LEMMA LifeOnFinish ==
    ASSUME IInv, LifeInv, NEW h \in Handlers, Running(h), Finally(h),
           \/ queue' = queue /\ task[h].pc = "notice"
           \/ /\ queue' = queue /\ task[h].pc = "fail"
              /\ phase = "queueStopped" \/ faults' > faults
           \/ \E s \in {"completed", "dead_letter", "pending"} :
                 /\ queue' = [queue EXCEPT ![task[h].row] = WithStatus(@, s)]
                 /\ task[h].pc = (IF s = "completed" THEN "ack" ELSE "fail"),
           audio' = audio, replies' = replies, faults' \in Nat, faults' >= faults,
           UNCHANGED life
    PROVE  LifeInv'
<1> USE DEF LifeInv, life
<1> PICK row : row = task[h].row
  OBVIOUS
<1>0. boots \in Nat /\ faults \in Nat /\ \A r \in Ids : replies[r] \in Nat /\ queue[r] \in Row
  BY CountersTyped DEF IInv
<1>1. row \in Ids /\ queue[row].chat \in Chats /\ phase # "down"
  BY DEF IInv, RowsOfTasks, DownIsEmpty
<1>2. \A g \in Handlers : /\ g # h => task'[g] = task[g]
                          /\ g = h => task'[g].pc = "idle"
  BY DEF IInv, TypeOK, Finally, Idle
<1>3. \A r \in Ids : /\ r # row => queue'[r] = queue[r]
                     /\ queue'[r].chat = queue[r].chat /\ queue'[r].kind = queue[r].kind
                     /\ queue'[r].status = "none" <=> queue[r].status = "none"
  <2>1. CASE queue' = queue
    BY <2>1
  <2>2. CASE queue' # queue
    <3>1. PICK s \in {"completed", "dead_letter", "pending"} :
              /\ queue' = [queue EXCEPT ![row] = WithStatus(@, s)]
              /\ task[h].pc \in {"ack", "fail"}
      BY <2>2
    <3>2. queue[row].status = "processing"
      BY <1>1, <3>1 DEF IInv, SingleOwner, Owns
    <3>3. \A q \in Ids : /\ q # row => queue'[q] = queue[q]
                         /\ q = row => queue'[q].status = s
                         /\ queue'[q].chat = queue[q].chat
                         /\ queue'[q].kind = queue[q].kind
      <4>1. queue \in [Ids -> Row] /\ s \in Statuses /\ row \in Ids
        BY <1>1 DEF IInv, TypeOK, Statuses
      <4>2. \A q \in Ids : queue'[q] = IF q = row THEN WithStatus(queue[row], s) ELSE queue[q]
        BY <3>1, <4>1
      <4>3. queue[row] \in Row
        BY <4>1
      <4> QED
        BY <4>1, <4>2, <4>3, StatusSet
    <3> QED
      BY <3>1, <3>2, <3>3
  <2> QED
    BY <2>1, <2>2
<1>4. \A g \in Handlers, r \in Ids : Owns(g, r)' <=> Owns(g, r) /\ g # h
  BY <1>2 DEF Owns
<1>5. task[h].pc # "notice" => /\ Owns(h, row) /\ queue[row].status = "processing"
                               /\ \A g \in Handlers : ~Owns(g, row)'
  <2>1. task[h].pc # "notice" => Owns(h, row)
    BY DEF Owns, Running
  <2>2. task[h].pc # "notice" => \A g \in Handlers : Owns(g, row) => g = h
    BY <1>1, <2>1 DEF IInv, SingleOwner
  <2>3. task[h].pc # "notice" => queue[row].status = "processing"
    BY <1>1, <2>1 DEF IInv, SingleOwner
  <2> QED
    BY <1>1, <1>4, <2>1, <2>2, <2>3
<1>6. /\ task[h].pc = "ack" => queue'[row].status = "completed"
      /\ task[h].pc = "fail" => \/ queue'[row].status \in {"dead_letter", "pending"}
                                \/ queue' = queue /\ (phase = "queueStopped" \/ faults' > faults)
      /\ task[h].pc = "notice" => queue' = queue
      /\ task[h].pc \in {"ack", "fail", "notice"}
  BY <1>0, <1>1, RowUpdates DEF IInv, TypeOK, Statuses
<1>7. ActiveTasksBacked'
  <2> SUFFICES ASSUME NEW c \in Chats, activeTasks'[c] # 0
               PROVE  \E g \in Handlers : Running(g)' /\ task'[g].row = activeTasks'[c] /\ ChatOf(g)' = c
    BY DEF ActiveTasksBacked
  <2>1. c # ChatOf(h) /\ activeTasks'[c] = activeTasks[c]
    BY <1>1 DEF Finally, ChatOf, IInv, TypeOK
  <2>2. PICK g \in Handlers : Running(g) /\ task[g].row = activeTasks[c] /\ ChatOf(g) = c
    BY <2>1 DEF ActiveTasksBacked
  <2>3. g # h /\ task'[g] = task[g] /\ task[g].row \in Ids
    BY <1>2, <2>1, <2>2 DEF IInv, RowsOfTasks
  <2> QED
    BY <1>3, <2>1, <2>2, <2>3 DEF Running, ChatOf
<1>8. NoStrandedRow'
  <2> SUFFICES ASSUME phase \notin {"down", "queueStopped"}, faults' = 0,
                      NEW r \in Ids, queue'[r].status = "processing"
               PROVE  \E g \in Handlers : Owns(g, r)'
    BY DEF NoStrandedRow
  <2>1. queue[r].status = "processing" /\ (task[h].pc # "notice" => r # row)
    BY <1>0, <1>3, <1>6
  <2>2. PICK g \in Handlers : Owns(g, r)
    BY <1>0, <2>1 DEF NoStrandedRow
  <2>3. g # h
    BY <2>1, <2>2 DEF Owns
  <2> QED
    BY <1>4, <2>2, <2>3
<1>9. RepliesBound'
  BY <1>0 DEF RepliesBound
<1>10. AnswersLeft'
  <2> SUFFICES ASSUME NEW r \in Ids, phase \in Answering, Answerable(r)'
               PROVE  replies[r] < boots + faults'
    BY DEF AnswersLeft
  <2>1. Answerable(r)
    <3>1. queue[r].status \notin {"completed", "deleted"}
      BY <1>3, <1>5, <1>6 DEF Answerable
    <3>2. ASSUME NEW g \in Handlers, Owns(g, r) PROVE task[g].pc \notin {"store", "ack"}
      <4>1. CASE g # h
        BY <1>2, <1>4, <3>2, <4>1 DEF Answerable
      <4>2. CASE g = h
        BY <1>6, <3>2, <4>2 DEF Answerable, Owns
      <4> QED
        BY <4>1, <4>2
    <3> QED
      BY <3>1, <3>2 DEF Answerable
  <2> QED
    BY <1>0, <2>1 DEF AnswersLeft
<1>11. AudioRemoved'
  <2> SUFFICES ASSUME NEW r \in Ids, queue'[r].status \in {"completed", "dead_letter", "deleted"}, r \in audio
               PROVE  FALSE
    BY DEF AudioRemoved
  <2>1. r = row /\ task[h].pc # "notice"
    BY <1>3, <1>6 DEF AudioRemoved
  <2> QED
    BY <1>5, <1>6, <2>1 DEF AudioOfRows
<1>12. AudioOfRows'
  BY <1>2, <1>3, <1>4 DEF AudioOfRows, IInv, TypeOK
<1> QED
  BY <1>7, <1>8, <1>9, <1>10, <1>11, <1>12

\* queue.fail dead-letters the row and its task goes on to tell the user.
LEMMA LifeOnDeadLetter ==
    ASSUME IInv, LifeInv, NEW h \in Handlers, Fail(h), task[h].attempts >= MaxAttempts
    PROVE  LifeInv'
<1> USE DEF LifeInv
<1> PICK row : row = task[h].row
  OBVIOUS
<1>0. boots \in Nat /\ faults \in Nat /\ \A r \in Ids : replies[r] \in Nat /\ queue[r] \in Row
  BY CountersTyped DEF IInv
<1>1. /\ Owns(h, row) /\ Running(h) /\ row \in Ids /\ task[h] \in Task
      /\ queue[row].status = "processing" /\ queue[row].attempts = task[h].attempts
      /\ \A g \in Handlers : Owns(g, row) => g = h
  <2>1. Owns(h, row) /\ Running(h)
    BY DEF Fail, Owns, Running
  <2>2. row \in Ids
    BY <2>1 DEF IInv, RowsOfTasks
  <2> QED
    BY <2>1, <2>2, CountersTyped DEF IInv, AttemptsFresh, SingleOwner
<1>2. /\ task' = [task EXCEPT ![h] = AtStep(task[h], "notice")]
      /\ queue' = [queue EXCEPT ![row] = WithStatus(queue[row], "dead_letter")]
      /\ UNCHANGED <<audio, replies, activeTasks, phase, boots, faults>>
  BY <1>1 DEF Fail, Goto, StatusAfterFail, Registered, life, DbWorks
<1>3. \A g \in Handlers : /\ g # h => task'[g] = task[g]
                          /\ g = h => task'[g].pc = "notice" /\ task'[g].row = row
  BY <1>1, <1>2, TaskUpdates DEF IInv, TypeOK, PCs
<1>4. \A r \in Ids : /\ r # row => queue'[r] = queue[r]
                     /\ r = row => queue'[r].status = "dead_letter"
                     /\ queue'[r].chat = queue[r].chat
                     /\ queue'[r].kind = queue[r].kind
  <2>1. \A q \in Ids : queue'[q] = IF q = row THEN WithStatus(queue[row], "dead_letter") ELSE queue[q]
    BY <1>2 DEF IInv, TypeOK
  <2>2. queue[row] \in Row /\ "dead_letter" \in Statuses
    BY <1>0, <1>1 DEF Statuses
  <2> QED
    BY <2>1, <2>2, StatusSet
<1>5. \A g \in Handlers, r \in Ids : Owns(g, r)' <=> Owns(g, r) /\ g # h
  BY <1>3 DEF Owns
<1>6. ActiveTasksBacked'
  BY <1>1, <1>2, <1>3, <1>4 DEF ActiveTasksBacked, Running, ChatOf, IInv, RowsOfTasks
<1>7. NoStrandedRow'
  BY <1>1, <1>2, <1>4, <1>5 DEF NoStrandedRow, Owns
<1>8. RepliesBound'
  BY <1>2 DEF RepliesBound
<1>9. AnswersLeft'
  <2> SUFFICES ASSUME NEW r \in Ids, phase \in Answering, Answerable(r)'
               PROVE  replies[r] < boots + faults
    BY <1>2 DEF AnswersLeft
  <2>1. \A g \in Handlers : Owns(g, r) => task[g].pc \notin {"store", "ack"}
    BY <1>3, <1>5 DEF Answerable, Fail
  <2>2. Answerable(r)
    BY <1>1, <1>4, <2>1 DEF Answerable
  <2> QED
    BY <2>2 DEF AnswersLeft
<1>10. AudioRemoved'
  <2>1. row \notin audio
    BY <1>1 DEF AudioOfRows, Fail
  <2> QED
    BY <1>2, <1>4, <2>1 DEF AudioRemoved
<1>11. AudioOfRows'
  BY <1>1, <1>2, <1>3, <1>4, <1>5 DEF AudioOfRows, IInv, TypeOK
<1> QED
  BY <1>6, <1>7, <1>8, <1>9, <1>10, <1>11

\* A row nobody works on is inserted, purged or revived.
LEMMA LifeOnTable ==
    ASSUME IInv, LifeInv, NEW r \in Ids,
           queue[r].status \in {"none", "completed", "dead_letter"},
           NEW row \in Row, row.status \in {"pending", "deleted"},
           row.status = "deleted" <=> queue[r].status = "completed",
           queue[r].status # "none" => row.chat = queue[r].chat /\ row.kind = queue[r].kind,
           queue' = [queue EXCEPT ![r] = row],
           audio' = IF queue[r].status = "none" /\ row.kind = "voice" THEN audio \cup {r} ELSE audio,
           UNCHANGED <<replies, life, tasks, faults>>
    PROVE  LifeInv'
<1> USE DEF LifeInv, life, tasks
<1>1. \A q \in Ids : /\ q # r => queue'[q] = queue[q]
                     /\ q = r => queue'[q] = row
  BY DEF IInv, TypeOK
<1>2. \A g \in Handlers, q \in Ids : Owns(g, q)' <=> Owns(g, q)
  BY DEF Owns
<1>3. \A g \in Handlers : ~Owns(g, r)
  BY DEF IInv, SingleOwner
<1>4. ActiveTasksBacked'
  BY <1>1 DEF ActiveTasksBacked, Running, ChatOf, IInv, RowsOfTasks
<1>5. NoStrandedRow'
  BY <1>1, <1>2 DEF NoStrandedRow
<1>6. RepliesBound' /\ AnswersLeft'
  BY <1>1, <1>2 DEF RepliesBound, AnswersLeft, Answerable
<1>7. AudioRemoved'
  BY <1>1, <1>3 DEF AudioRemoved, AudioOfRows
<1>8. AudioOfRows'
  <2> SUFFICES ASSUME NEW q \in audio'
               PROVE  /\ queue'[q].kind = "voice" /\ queue'[q].status # "none"
                      /\ \A h \in Handlers : Owns(h, q)' => task'[h].pc = "transcribe"
    BY DEF AudioOfRows
  <2>1. CASE q = r
    BY <1>1, <1>2, <1>3, <2>1 DEF AudioOfRows
  <2>2. CASE q # r
    BY <1>1, <1>2, <2>2 DEF AudioOfRows, IInv, TypeOK
  <2> QED
    BY <2>1, <2>2
<1> QED
  BY <1>4, <1>5, <1>6, <1>7, <1>8

\* queue.start() leaves no row 'processing', and the process that starts may answer
\* every row once more.
LEMMA LifeOnBoot ==
    ASSUME IInv, LifeInv, Boot
    PROVE  LifeInv'
<1> USE DEF LifeInv, Boot, tasks
<1>0. boots \in Nat /\ faults \in Nat /\ \A r \in Ids : replies[r] \in Nat /\ queue[r] \in Row
  BY CountersTyped DEF IInv
<1>1. \A r \in Ids : /\ queue'[r].chat = queue[r].chat /\ queue'[r].kind = queue[r].kind
                     /\ queue'[r].status = IF queue[r].status = "processing" THEN "pending"
                                           ELSE queue[r].status
  <2> SUFFICES ASSUME NEW r \in Ids
               PROVE  /\ queue'[r].chat = queue[r].chat /\ queue'[r].kind = queue[r].kind
                      /\ queue'[r].status = IF queue[r].status = "processing" THEN "pending"
                                            ELSE queue[r].status
    OBVIOUS
  <2>1. "pending" \in Statuses /\ queue[r] \in Row
    BY <1>0 DEF Statuses
  <2>2. queue'[r] = IF queue[r].status = "processing" THEN WithStatus(queue[r], "pending") ELSE queue[r]
    BY DEF RecoverStuckMessages
  <2> QED
    BY <2>1, <2>2, StatusSet
<1>2. \A h \in Handlers, r \in Ids : ~Owns(h, r)'
  BY DEF Owns, Running, IInv, DownIsEmpty
<1>3. ActiveTasksBacked'
  BY DEF ActiveTasksBacked, IInv, DownIsEmpty, Running
<1>4. NoStrandedRow'
  BY <1>1 DEF NoStrandedRow
<1>5. RepliesBound' /\ AnswersLeft'
  BY <1>0 DEF RepliesBound, AnswersLeft
<1>6. AudioRemoved' /\ AudioOfRows'
  BY <1>1, <1>2 DEF AudioRemoved, AudioOfRows, IInv, TypeOK
<1> QED
  BY <1>3, <1>4, <1>5, <1>6

\* A dequeued row gets an owner, which is yet to answer it and begins with its audio.
LEMMA LifeOnDequeue ==
    ASSUME IInv, LifeInv, NEW c \in Chats, DequeueForChat(c)
    PROVE  LifeInv'
<1> USE DEF LifeInv, life
<1>0. boots \in Nat /\ faults \in Nat /\ \A q \in Ids : replies[q] \in Nat /\ queue[q] \in Row
  BY CountersTyped DEF IInv
<1> PICK r \in Ids, h \in Handlers :
        /\ OldestPending(r, c)
        /\ ~Running(h)
        /\ queue' = [queue EXCEPT ![r] = Claimed(@)]
        /\ task' = [task EXCEPT ![h] =
                [pc |-> FirstStep(queue[r].kind), row |-> r,
                 attempts |-> queue[r].attempts + 1, heard |-> queue[r].kind # "voice"]]
        /\ activeTasks' = [activeTasks EXCEPT ![c] = r]
  BY DEF DequeueForChat
<1>1. queue[r].status = "pending" /\ queue[r].chat = c
  BY DEF OldestPending, IsPending
<1>2. \A q \in Ids : /\ q # r => queue'[q] = queue[q]
                     /\ q = r => queue'[q].status = "processing"
                     /\ queue'[q].chat = queue[q].chat
                     /\ queue'[q].kind = queue[q].kind
  <2>1. \A q \in Ids : queue'[q] = IF q = r THEN Claimed(queue[r]) ELSE queue[q]
    BY DEF IInv, TypeOK
  <2> QED
    BY <1>0, <2>1, RowUpdates, KindKept
<1>3. \A g \in Handlers : /\ g # h => task'[g] = task[g]
                          /\ g = h => /\ task'[g].row = r
                                      /\ task'[g].pc = FirstStep(queue[r].kind)
  BY DEF IInv, TypeOK
<1>4. /\ FirstStep(queue[r].kind) \in {"transcribe", "command", "agent"}
      /\ queue[r].kind = "voice" => FirstStep(queue[r].kind) = "transcribe"
  BY DEF FirstStep
<1>5. UNCHANGED <<audio, replies, phase, boots, faults>>
  BY DEF DequeueForChat, DbWorks
<1>6. \A g \in Handlers, q \in Ids : /\ Owns(g, q)' <=> IF g = h THEN q = r ELSE Owns(g, q)
                                     /\ g = h => ~Owns(g, q)
                                     /\ ~Owns(g, r)
  <2>1. \A g \in Handlers : ~Owns(g, r)
    BY <1>1 DEF IInv, SingleOwner
  <2>2. \A q \in Ids : ~Owns(h, q)
    BY DEF Owns, Running
  <2> QED
    BY <1>3, <1>4, <2>1, <2>2 DEF Owns
<1>7. ActiveTasksBacked'
  <2> SUFFICES ASSUME NEW d \in Chats, activeTasks'[d] # 0
               PROVE  \E g \in Handlers : Running(g)' /\ task'[g].row = activeTasks'[d] /\ ChatOf(g)' = d
    BY DEF ActiveTasksBacked
  <2>1. CASE d = c
    BY <1>1, <1>2, <1>3, <1>4, <2>1 DEF Running, ChatOf, IInv, TypeOK
  <2>2. CASE d # c
    <3>1. activeTasks'[d] = activeTasks[d]
      BY <2>2 DEF IInv, TypeOK
    <3>2. PICK g \in Handlers : Running(g) /\ task[g].row = activeTasks[d] /\ ChatOf(g) = d
      BY <3>1 DEF ActiveTasksBacked
    <3>3. g # h /\ task[g].row \in Ids
      BY <3>2 DEF IInv, RowsOfTasks
    <3> QED
      BY <1>2, <1>3, <3>1, <3>2, <3>3 DEF Running, ChatOf
  <2> QED
    BY <2>1, <2>2
<1>8. NoStrandedRow'
  BY <1>2, <1>5, <1>6 DEF NoStrandedRow
<1>9. RepliesBound'
  BY <1>5 DEF RepliesBound
<1>10. AnswersLeft'
  <2> SUFFICES ASSUME NEW q \in Ids, phase \in Answering, Answerable(q)'
               PROVE  replies[q] < boots + faults
    BY <1>5 DEF AnswersLeft
  <2>1. Answerable(q)
    BY <1>1, <1>2, <1>3, <1>6 DEF Answerable
  <2> QED
    BY <2>1 DEF AnswersLeft
<1>11. AudioRemoved' /\ AudioOfRows'
  <2>1. AudioRemoved'
    BY <1>2, <1>5 DEF AudioRemoved
  <2> SUFFICES ASSUME NEW q \in audio
               PROVE  /\ queue'[q].kind = "voice" /\ queue'[q].status # "none"
                      /\ \A g \in Handlers : Owns(g, q)' => task'[g].pc = "transcribe"
    BY <1>5, <2>1 DEF AudioOfRows
  <2>2. q \in Ids /\ queue[q].kind = "voice" /\ queue[q].status # "none"
    BY DEF AudioOfRows, IInv, TypeOK
  <2>3. ASSUME NEW g \in Handlers, Owns(g, q)' PROVE task'[g].pc = "transcribe"
    BY <1>3, <1>4, <1>6, <2>2, <2>3 DEF AudioOfRows
  <2> QED
    BY <1>2, <2>2, <2>3
<1> QED
  BY <1>7, <1>8, <1>9, <1>10, <1>11

\* Every step of a task keeps the invariant: an answer is sent once between two
\* faults or restarts, and the audio file is gone after the transcription.
LEMMA LifeOnTaskStep ==
    ASSUME IInv, LifeInv, NEW h \in Handlers, TaskStep(h)
    PROVE  LifeInv'
<1> PICK row : row = task[h].row
  OBVIOUS
<1>0. /\ boots \in Nat /\ faults \in Nat /\ \A r \in Ids : replies[r] \in Nat
      /\ replies \in [Ids -> Nat] /\ task[h] \in Task
  BY CountersTyped DEF IInv, TypeOK
<1>1. /\ Running(h) /\ row \in Ids /\ phase # "down"
      /\ task[h].pc # "notice" => Owns(h, row)
  <2>1. Running(h)
    BY DEF Running, TaskStep, Transcribe, HandleCommand, ExecuteAgent, SendResponse,
           SendResponseThrows, StoreResponse, Acknowledge, AcknowledgeThrows, Fail,
           FailThrows, SendNotice
  <2> QED
    BY <2>1 DEF Running, Owns, IInv, RowsOfTasks, DownIsEmpty
<1>2. /\ replies[row] <= boots + faults
      /\ Owns(h, row) /\ row \in audio => task[h].pc = "transcribe"
      /\ Owns(h, row) /\ phase \in Answering /\ task[h].pc \notin {"store", "ack"}
             => replies[row] < boots + faults
  <2>1. Owns(h, row) => queue[row].status = "processing" /\ \A g \in Handlers : Owns(g, row) => g = h
    BY <1>1 DEF IInv, SingleOwner
  <2>2. Owns(h, row) /\ task[h].pc \notin {"store", "ack"} => Answerable(row)
    BY <2>1 DEF Answerable
  <2> QED
    BY <1>1, <2>2 DEF LifeInv, RepliesBound, AnswersLeft, AudioOfRows
\* A step that sends nothing, and leaves the answered state only by a fault or after
\* the router has stopped.
<1>3. ASSUME NEW pc \in PCs \ {"idle", "notice", "transcribe"}, Goto(h, pc), Registered,
             task[h].pc \notin {"idle", "notice", "transcribe"},
             queue' = queue, audio' = audio, replies' = replies, UNCHANGED life,
             faults' \in Nat, faults' >= faults,
             \/ task[h].pc \notin {"store", "ack"}
             \/ pc \in {"store", "ack"} \/ faults' > faults \/ phase \notin Answering
      PROVE  LifeInv'
  <2>1. /\ task' = [task EXCEPT ![h] = AtStep(task[h], pc)]
        /\ AtStep(task[h], pc) \in Task /\ AtStep(task[h], pc).pc = pc
        /\ AtStep(task[h], pc).row = task[h].row
    BY <1>0, <1>3, TaskUpdates DEF Goto
  <2>2. Owns(h, row) /\ row \notin audio
    BY <1>1, <1>2, <1>3
  <2>3. phase \in Answering /\ pc \notin {"store", "ack"} => replies'[row] < boots + faults'
    BY <1>0, <1>1, <1>2, <1>3, <2>2
  <2>4. replies'[row] <= boots + faults'
    BY <1>0, <1>1, <1>2, <1>3
  <2> QED
    BY <1>0, <1>3, <2>1, <2>2, <2>3, <2>4, LifeOnMove
<1>4. /\ DbWorks => faults' = faults
      /\ DbThrows => faults' \in Nat /\ faults' >= faults
                     /\ (phase = "queueStopped" \/ faults' > faults)
      /\ "queueStopped" \notin Answering /\ "routerStopped" \notin Answering
  BY <1>0 DEF DbWorks, DbThrows, Answering
<1>5. CASE Transcribe(h)
  <2> PICK heard \in BOOLEAN : task' = [task EXCEPT ![h] = Transcribed(@, heard)]
    BY <1>5 DEF Transcribe
  <2> DEFINE t == Transcribed(task[h], heard)
  <2>1. /\ t \in Task /\ t.pc = "agent" /\ t.row = row
        /\ task' = [task EXCEPT ![h] = t]
    BY <1>0 DEF Transcribed, Task, PCs
  <2> HIDE DEF t
  <2>2. /\ task[h].pc = "transcribe" /\ audio' = audio \ {row} /\ replies' = replies
        /\ faults' = faults /\ queue' = queue /\ Registered /\ UNCHANGED life
    BY <1>5 DEF Transcribe
  <2>3. replies'[row] <= boots + faults' /\ (phase \in Answering => replies'[row] < boots + faults')
    BY <1>1, <1>2, <2>2
  <2>4. /\ task[h].pc \notin {"idle", "notice"} /\ t.pc \notin {"idle", "notice"}
        /\ t.row = task[h].row /\ audio' \subseteq audio /\ task[h].row \notin audio'
        /\ faults' \in Nat /\ faults' >= faults /\ replies' \in [Ids -> Nat]
    BY <1>0, <2>1, <2>2
  <2> QED
    BY <2>1, <2>2, <2>3, <2>4, LifeOnMove
<1>6. CASE HandleCommand(h)
  BY <1>0, <1>3, <1>6 DEF HandleCommand, PCs, table
<1>7. CASE ExecuteAgent(h)
  BY <1>0, <1>3, <1>7 DEF ExecuteAgent, PCs, table
<1>8. CASE SendResponse(h)
  <2>1. PICK d \in {0, 1} : replies' = [replies EXCEPT ![row] = @ + d]
    BY <1>8 DEF SendResponse
  <2> DEFINE t == AtStep(task[h], "store")
  <2>2. /\ t \in Task /\ t.pc = "store" /\ t.row = row
        /\ task' = [task EXCEPT ![h] = t]
    BY <1>0, <1>8, TaskUpdates DEF SendResponse, Goto, PCs
  <2> HIDE DEF t
  <2>3. /\ task[h].pc = "reply" /\ audio' = audio /\ faults' = faults /\ queue' = queue
        /\ Registered /\ UNCHANGED life /\ phase \in Answering
    BY <1>1, <1>8 DEF SendResponse, Answering, IInv, TypeOK, Phases
  <2>4. replies[row] < boots + faults /\ row \notin audio
    BY <1>1, <1>2, <2>3
  <2>5. /\ replies'[row] = replies[row] + d /\ \A q \in Ids : q # row => replies'[q] = replies[q]
        /\ replies' \in [Ids -> Nat]
    <3>1. \A q \in Ids : replies[q] + d \in Nat
      BY <1>0
    <3> QED
      BY <1>0, <1>1, <2>1, <3>1
  <2>6. replies'[row] <= boots + faults'
    BY <1>0, <1>1, <2>3, <2>4, <2>5
  <2>7. /\ task[h].pc \notin {"idle", "notice"} /\ t.pc \notin {"idle", "notice"}
        /\ t.row = task[h].row /\ audio' \subseteq audio /\ task[h].row \notin audio'
        /\ faults' \in Nat /\ faults' >= faults
        /\ \A q \in Ids : q # task[h].row => replies'[q] = replies[q]
        /\ replies'[task[h].row] <= boots + faults'
    BY <1>0, <2>2, <2>3, <2>4, <2>5, <2>6
  <2> QED
    BY <2>2, <2>3, <2>5, <2>7, LifeOnMove
<1>9. CASE SendResponseThrows(h)
  BY <1>0, <1>3, <1>9 DEF SendResponseThrows, PCs, table
<1>10. CASE StoreResponse(h)
  <2>1. CASE DbWorks /\ Goto(h, "ack")
    BY <1>0, <1>3, <1>4, <1>10, <2>1 DEF StoreResponse, PCs, table
  <2>2. CASE (DbThrows \/ (phase = "routerStopped" /\ faults' = faults)) /\ Goto(h, "fail")
    BY <1>0, <1>3, <1>4, <1>10, <2>2 DEF StoreResponse, PCs, table
  <2>3. \/ DbWorks /\ Goto(h, "ack")
        \/ (DbThrows \/ (phase = "routerStopped" /\ faults' = faults)) /\ Goto(h, "fail")
    BY <1>10 DEF StoreResponse
  <2> QED
    BY <2>1, <2>2, <2>3
<1>11. CASE Acknowledge(h)
  <2>1. /\ queue' = [queue EXCEPT ![task[h].row] = WithStatus(@, "completed")]
        /\ task[h].pc = (IF "completed" = "completed" THEN "ack" ELSE "fail")
        /\ Finally(h) /\ audio' = audio /\ replies' = replies /\ UNCHANGED life
        /\ faults' \in Nat /\ faults' >= faults
    BY <1>0, <1>4, <1>11 DEF Acknowledge
  <2> QED
    BY <1>1, <2>1, LifeOnFinish
<1>12. CASE AcknowledgeThrows(h)
  BY <1>0, <1>3, <1>4, <1>12 DEF AcknowledgeThrows, PCs, table
<1>13. CASE Fail(h)
  <2>1. CASE task[h].attempts >= MaxAttempts
    BY <1>13, <2>1, LifeOnDeadLetter
  <2>2. CASE ~(task[h].attempts >= MaxAttempts)
    <3>1. PICK s \in {"dead_letter", "pending"} : s = StatusAfterFail(task[h].row)
      BY DEF StatusAfterFail
    <3>2. /\ queue' = [queue EXCEPT ![task[h].row] = WithStatus(@, s)]
          /\ task[h].pc = (IF s = "completed" THEN "ack" ELSE "fail")
          /\ Finally(h) /\ audio' = audio /\ replies' = replies /\ UNCHANGED life
          /\ faults' \in Nat /\ faults' >= faults
      BY <1>0, <1>4, <1>13, <2>2, <3>1 DEF Fail
    <3> QED
      BY <1>1, <3>2, LifeOnFinish
  <2> QED
    BY <2>1, <2>2
<1>14. CASE FailThrows(h)
  BY <1>0, <1>1, <1>4, <1>14, LifeOnFinish DEF FailThrows, table
<1>15. CASE SendNotice(h)
  BY <1>0, <1>1, <1>4, <1>15, LifeOnFinish DEF SendNotice, table
<1> QED
  BY <1>5, <1>6, <1>7, <1>8, <1>9, <1>10, <1>11, <1>12, <1>13, <1>14, <1>15 DEF TaskStep

LEMMA LifeInit == Init => LifeInv
<1> SUFFICES ASSUME Init PROVE LifeInv
  OBVIOUS
<1> USE DEF Init, LifeInv
<1>1. \A r \in Ids : queue[r].status = "none"
  BY DEF NoRow
<1> QED
  BY <1>1 DEF ActiveTasksBacked, NoStrandedRow, RepliesBound, AnswersLeft, Answering,
              AudioRemoved, AudioOfRows

LEMMA LifeNext == IInv /\ LifeInv /\ [Next]_vars => LifeInv'
<1> SUFFICES ASSUME IInv, LifeInv, [Next]_vars PROVE LifeInv'
  OBVIOUS
<1>0. /\ boots \in Nat /\ faults \in Nat /\ \A r \in Ids : queue[r] \in Row
      /\ audio \subseteq Ids
  BY CountersTyped DEF IInv, TypeOK
<1>1. ASSUME NEW c \in Chats, NEW k \in Kinds, Enqueue(c, k) PROVE LifeInv'
  <2> DEFINE row == [chat |-> c, kind |-> k, status |-> "pending", attempts |-> 0]
  <2>1. PICK r \in Ids :
          /\ FreshId(r) /\ queue' = [queue EXCEPT ![r] = row]
          /\ audio' = IF k = "voice" THEN audio \cup {r} ELSE audio
    BY <1>1 DEF Enqueue
  <2>2. /\ row \in Row /\ row.status = "pending" /\ row.kind = k
    BY ConstantsAssumption DEF Row, Statuses
  <2> HIDE DEF row
  <2>3. queue[r].status = "none" /\ UNCHANGED <<replies, life, tasks, faults>>
    BY <1>1, <2>1 DEF FreshId, Enqueue
  <2> QED
    BY <2>1, <2>2, <2>3, LifeOnTable
<1>2. ASSUME NEW r \in Ids, RetryDeadLetter(r) PROVE LifeInv'
  <2>1. /\ Revived(queue[r]) \in Row /\ Revived(queue[r]).status = "pending"
        /\ Revived(queue[r]).chat = queue[r].chat /\ Revived(queue[r]).kind = queue[r].kind
    BY <1>0, RowUpdates, KindKept
  <2> QED
    BY <1>2, <2>1, LifeOnTable DEF RetryDeadLetter
<1>3. ASSUME NEW r \in Ids, PurgeCompleted(r) PROVE LifeInv'
  <2> DEFINE row == WithStatus(queue[r], "deleted")
  <2>1. /\ row \in Row /\ row.status = "deleted"
        /\ row.chat = queue[r].chat /\ row.kind = queue[r].kind
    BY <1>0, RowUpdates, KindKept DEF Statuses
  <2>2. queue[r].status = "completed" /\ queue' = [queue EXCEPT ![r] = row]
        /\ audio' = audio /\ UNCHANGED <<replies, life, tasks, faults>>
    BY <1>3 DEF PurgeCompleted
  <2> HIDE DEF row
  <2> QED
    BY <2>1, <2>2, LifeOnTable
<1>4. CASE Boot
  BY <1>4, LifeOnBoot
<1>5. CASE Crash \/ Exit
  BY <1>5, LifeOnDeath DEF Crash, Exit
<1>6. ASSUME NEW c \in Chats, DequeueForChat(c) PROVE LifeInv'
  BY <1>6, LifeOnDequeue
<1>7. ASSUME NEW h \in Handlers, TaskStep(h) PROVE LifeInv'
  BY <1>7, LifeOnTaskStep
<1>8. CASE Subscribe \/ DrainPendingMessages \/ Signal \/ DrainComplete \/ DrainTimeout \/ StopQueue
  BY <1>0, <1>8, LifeOnProcess
     DEF Subscribe, DrainPendingMessages, Signal, DrainComplete, DrainTimeout, StopQueue,
         tasks, table, Answering
<1>9. CASE OnNewMessage \/ LoseNotification
  BY <1>0, <1>9, LifeOnProcess DEF OnNewMessage, LoseNotification, tasks, life
<1>10. ASSUME NEW c \in Chats, DequeueNothing(c) PROVE LifeInv'
  BY <1>0, <1>10, LifeOnProcess DEF DequeueNothing, DbWorks, life
<1>11. ASSUME NEW c \in Chats, DequeueRejected(c) PROVE LifeInv'
  <2>1. faults' \in Nat /\ faults' >= faults
    BY <1>0, <1>11 DEF DequeueRejected, DbThrows
  <2>2. /\ phase' \notin {"down", "queueStopped"} => phase \notin {"down", "queueStopped"}
        /\ phase' \in Answering => phase \in Answering
    BY <1>11 DEF DequeueRejected, PhaseOnShutdown, Answering
  <2> QED
    BY <1>11, <2>1, <2>2, LifeOnProcess DEF DequeueRejected
<1>12. CASE UNCHANGED vars
  BY <1>0, <1>12, LifeOnProcess DEF vars, table
<1> QED
  BY <1>1, <1>2, <1>3, <1>4, <1>5, <1>6, <1>7, <1>8, <1>9, <1>10, <1>11, <1>12
     DEF Next, StartStep, StopStep, DequeueStep

LEMMA LifeInvariant == Spec => []LifeInv
<1> QED
  BY LifeInit, LifeNext, InductiveInvariant, PTL DEF Spec

\* The activeTasks entry of a chat belongs to a task that is still running, whatever
\* tasks of the chat overwrote and deleted each other's entry.
THEOREM ActiveTasksBackedHolds == Spec => []ActiveTasksBacked
<1>1. LifeInv => ActiveTasksBacked
  BY DEF LifeInv
<1> QED
  BY <1>1, LifeInvariant, PTL

\* A row is never left to nobody while the process lives and no call failed; it is
\* answered at most once per start and fault; its audio file is gone when it is settled.
THEOREM RowLifecycleHolds == Spec => []RowLifecycle
<1>1. LifeInv => RowLifecycle
  BY DEF LifeInv, RowLifecycle
<1> QED
  BY <1>1, LifeInvariant, PTL

-----------------------------------------------------------------------------
(* What a step may do to a failed and to a settled row *)

\* The task that fails is told apart by the attempts it carries, which are those in
\* the table; a call that throws and a process that dies leave the row 'processing'.
LEMMA NoticeStep ==
    ASSUME IInv, [Next]_vars, NEW h \in Handlers,
           task[h].pc = "fail", task'[h].pc # "fail"
    PROVE  task'[h].pc = "notice" <=> queue'[task[h].row].status = "dead_letter"
<1> DEFINE row == task[h].row
<1>1. /\ Owns(h, row) /\ row \in Ids /\ queue[row] \in Row /\ task[h] \in Task
      /\ queue[row].status = "processing" /\ task[h].attempts = queue[row].attempts
      /\ phase # "down"
  <2>1. Owns(h, row) /\ row \in Ids /\ phase # "down"
    BY DEF Owns, IInv, RowsOfTasks, Running, DownIsEmpty
  <2> QED
    BY <2>1, CountersTyped DEF IInv, SingleOwner, AttemptsFresh
<1>2. CASE Fail(h)
  <2>1. queue'[row].status = StatusAfterFail(row)
    <3>1. StatusAfterFail(row) \in Statuses
      BY DEF StatusAfterFail, Statuses
    <3>2. queue'[row] = WithStatus(queue[row], StatusAfterFail(row))
      BY <1>1, <1>2 DEF Fail, IInv, TypeOK
    <3> QED
      BY <1>1, <3>1, <3>2, StatusSet
  <2>2. CASE task[h].attempts >= MaxAttempts
    <3>1. task'[h] = AtStep(task[h], "notice")
      BY <1>2, <2>2 DEF Fail, Goto, IInv, TypeOK
    <3>2. task'[h].pc = "notice"
      BY <1>1, <3>1, TaskUpdates DEF PCs
    <3> QED
      BY <1>1, <2>1, <2>2, <3>2 DEF StatusAfterFail
  <2>3. CASE ~(task[h].attempts >= MaxAttempts)
    <3>1. task'[h].pc = "idle"
      BY <1>2, <2>3 DEF Fail, Finally, Idle, IInv, TypeOK
    <3> QED
      BY <1>1, <2>1, <2>3, <3>1 DEF StatusAfterFail
  <2> QED
    BY <2>2, <2>3
<1>3. CASE FailThrows(h)
  BY <1>1, <1>3 DEF FailThrows, Finally, Idle, table, IInv, TypeOK
<1>4. CASE Crash \/ Exit
  BY <1>1, <1>4 DEF Crash, Exit, LoseMemory, Idle, table
<1>5. ASSUME NEW g \in Handlers, TaskStep(g), ~Fail(h), ~FailThrows(h) PROVE FALSE
  <2>1. CASE g = h
    BY <1>5, <2>1 DEF TaskStep, Transcribe, HandleCommand, ExecuteAgent, SendResponse,
       SendResponseThrows, StoreResponse, Acknowledge, AcknowledgeThrows, SendNotice
  <2>2. CASE g # h
    <3>1. \E t : task' = [task EXCEPT ![g] = t]
      BY <1>5 DEF TaskStep, Transcribe, HandleCommand, ExecuteAgent, SendResponse,
         SendResponseThrows, StoreResponse, Acknowledge, AcknowledgeThrows, Fail, FailThrows,
         SendNotice, Goto, Finally
    <3> QED
      BY <2>2, <3>1 DEF IInv, TypeOK
  <2> QED
    BY <2>1, <2>2
<1>6. ASSUME NEW c \in Chats, DequeueForChat(c) PROVE FALSE
  <2>1. \E g \in Handlers : ~Running(g) /\ \E t : task' = [task EXCEPT ![g] = t]
    BY <1>6 DEF DequeueForChat
  <2> QED
    BY <2>1 DEF Running, IInv, TypeOK
<1>7. task' # task
  OBVIOUS
<1> QED
  BY <1>1, <1>2, <1>3, <1>4, <1>5, <1>6, <1>7
     DEF Next, StartStep, StopStep, DequeueStep, Enqueue, RetryDeadLetter, PurgeCompleted, Boot,
         Subscribe, DrainPendingMessages, Signal, DrainComplete, DrainTimeout, StopQueue,
         OnNewMessage, LoseNotification, DequeueNothing, DequeueRejected, tasks, vars

\* The user is told that a message was given up exactly when its row is dead-lettered.
THEOREM NoticeHolds == Spec => NoticeIffDeadLettered
<1>1. IInv /\ [Next]_vars =>
        [\A h \in Handlers : task[h].pc = "fail" /\ task' # task /\ task'[h].pc # "fail" =>
            (task'[h].pc = "notice" <=> queue'[task[h].row].status = "dead_letter")]_vars
  BY NoticeStep
<1> QED
  BY <1>1, InductiveInvariant, PTL DEF Spec, NoticeIffDeadLettered

\* A step changes a completed row only by purging it and a dead-lettered one only by
\* reviving it: acknowledge() and fail() meet rows that are 'processing'.
LEMMA SettledStep ==
    ASSUME IInv, [Next]_vars, NEW r \in Ids, queue[r].status \in {"completed", "dead_letter"},
           queue'[r] # queue[r]
    PROVE  \/ AdminOps /\ queue[r].status = "completed" /\ queue'[r].status = "deleted"
           \/ /\ AdminOps /\ queue[r].status = "dead_letter"
              /\ queue'[r].attempts = 0 /\ queue'[r].status = "pending"
<1>0. queue \in [Ids -> Row] /\ queue[r] \in Row
  BY DEF IInv, TypeOK
<1>1. ASSUME NEW c \in Chats, NEW k \in Kinds, Enqueue(c, k) PROVE FALSE
  BY <1>0, <1>1 DEF Enqueue, FreshId
<1>2. ASSUME NEW q \in Ids, RetryDeadLetter(q)
      PROVE  /\ AdminOps /\ queue[r].status = "dead_letter"
             /\ queue'[r].attempts = 0 /\ queue'[r].status = "pending"
  <2>1. q = r /\ queue'[r] = Revived(queue[r])
    BY <1>0, <1>2 DEF RetryDeadLetter
  <2> QED
    BY <1>0, <1>2, <2>1, RowUpdates DEF RetryDeadLetter
<1>3. ASSUME NEW q \in Ids, PurgeCompleted(q)
      PROVE  AdminOps /\ queue[r].status = "completed" /\ queue'[r].status = "deleted"
  <2>1. q = r /\ queue'[r] = WithStatus(queue[r], "deleted") /\ "deleted" \in Statuses
    BY <1>0, <1>3 DEF PurgeCompleted, Statuses
  <2> QED
    BY <1>0, <1>3, <2>1, StatusSet DEF PurgeCompleted
<1>4. CASE Boot
  BY <1>4 DEF Boot, RecoverStuckMessages
<1>5. ASSUME NEW c \in Chats, DequeueForChat(c) PROVE FALSE
  BY <1>0, <1>5 DEF DequeueForChat, OldestPending, IsPending
<1>6. ASSUME NEW h \in Handlers, Acknowledge(h) \/ Fail(h) PROVE FALSE
  <2>1. Owns(h, task[h].row) /\ task[h].row \in Ids
    BY <1>6 DEF Owns, Acknowledge, Fail, IInv, RowsOfTasks, Running
  <2>2. queue[task[h].row].status = "processing"
    BY <2>1 DEF IInv, SingleOwner
  <2> QED
    BY <1>0, <1>6, <2>2 DEF Acknowledge, Fail
<1>7. queue' # queue
  OBVIOUS
<1> QED
  BY <1>1, <1>2, <1>3, <1>4, <1>5, <1>6, <1>7
     DEF Next, StartStep, StopStep, DequeueStep, TaskStep, Crash, Exit, LoseMemory, Subscribe,
         DrainPendingMessages, Signal, DrainComplete, DrainTimeout, StopQueue, OnNewMessage,
         LoseNotification, DequeueNothing, DequeueRejected, Transcribe, HandleCommand,
         ExecuteAgent, SendResponse, SendResponseThrows, StoreResponse, AcknowledgeThrows,
         FailThrows, SendNotice, table, vars

\* No late acknowledge(), fail() or recovery touches a settled row.
THEOREM SettledStaysHolds == Spec => SettledStays
<1>1. IInv /\ [Next]_vars =>
        [\A r \in Ids :
            /\ queue[r].status = "completed" => queue'[r].status \in {"completed", "deleted"}
            /\ queue[r].status = "dead_letter" /\ queue'[r] # queue[r]
                  => AdminOps /\ queue'[r].attempts = 0 /\ queue'[r].status = "pending"]_vars
  BY SettledStep
<1> QED
  BY <1>1, InductiveInvariant, PTL DEF Spec, SettledStays
=============================================================================
