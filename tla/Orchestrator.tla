---------------------------- MODULE Orchestrator ----------------------------
(***************************************************************************)
(* The message queue table and the orchestrator process that consumes it.  *)
(*                                                                         *)
(* A row is inserted by the channel container; a trigger NOTIFYs its chat. *)
(* onNewMessage checks activeTasks and then AWAITS dequeueForChat, so that *)
(* several dequeues can be under way (`dequeuing') before any of them has  *)
(* registered a task.  A dequeued row is carried by a task through         *)
(* processQueueItem, one step per await whose failure or interruption the  *)
(* code tells apart.  The process can be killed at any step, stopped by a  *)
(* signal or by an unhandled rejection, and is restarted by systemd.       *)
(***************************************************************************)
EXTENDS Integers, FiniteSets, Sequences

CONSTANTS
    Chats,          \* chat ids
    Kinds,          \* subset of {"text", "voice", "command"}: kinds of message
    Handlers,       \* slots for concurrently running processQueueItem calls
    MaxRows,        \* bound: rows ever inserted
    MaxAttempts,    \* queue.max_attempts
    MaxConcurrent,  \* config.agent.maxConcurrentContainers
    MaxBoots,       \* bound: the process dies only while boots < MaxBoots
    MaxFaults,      \* bound: failed database calls and lost notifications
    AdminOps        \* TRUE: retryDeadLetter and purgeCompleted are called

ASSUME ConstantsAssumption ==
    /\ "none" \notin Chats
    /\ Kinds \subseteq {"text", "voice", "command"}
    /\ MaxRows \in Nat
    /\ MaxAttempts \in Nat \ {0}
    /\ MaxConcurrent \in Nat \ {0}
    /\ MaxBoots \in Nat
    /\ MaxFaults \in Nat
    /\ AdminOps \in BOOLEAN

ASSUME HandlersFinite == IsFiniteSet(Handlers)

VARIABLES
    queue,            \* the queue table, indexed by id (ids grow with created_at)
    audio,            \* rows whose audioPath file is on disk
    replies,          \* history: times an answer to the row reached its channel
    phase,            \* where the process is in its life
    stopping,         \* FlowHelmOrchestrator.stopping
    notifs,           \* NOTIFY payloads sent to the LISTEN connection
    dequeuing,        \* per chat, dequeueForChat calls awaited
    task,             \* the running processQueueItem calls
    activeTasks,      \* chat -> queueId of its entry, 0 when the map has none
    processingCount,  \* FlowHelmOrchestrator.processingCount
    boots,            \* how often the process was started
    faults            \* faults injected so far

vars == <<queue, audio, replies, phase, stopping, notifs, dequeuing, task,
          activeTasks, processingCount, boots, faults>>

table == <<queue, audio, replies>>
tasks == <<dequeuing, task, activeTasks, processingCount>>
life  == <<phase, stopping, boots>>

Ids == 1..MaxRows

Statuses == {"none", "pending", "processing", "completed", "dead_letter", "deleted"}

\* "booting": queue.start() done; "listening": subscribed; "up": drained the
\* backlog; "draining" .. "queueStopped": index.ts shutdown(), component by component.
Phases == {"down", "booting", "listening", "up",
           "draining", "routerStopped", "queueStopped"}

Listening == {"listening", "up", "draining", "routerStopped"}

NoRow == [chat |-> "none", kind |-> "text", status |-> "none", attempts |-> 0]
Idle  == [pc |-> "idle", row |-> 0, attempts |-> 0, heard |-> FALSE]

Row == [chat : Chats \cup {"none"}, kind : {"text", "voice", "command"},
        status : Statuses, attempts : Nat]

\* "fail" and "notice" are handleTaskFailure before and after queue.fail.
PCs == {"idle", "transcribe", "command", "agent", "reply", "store", "ack",
        "fail", "notice"}

Task == [pc : PCs, row : Ids \cup {0}, attempts : Nat, heard : BOOLEAN]

Running(h)   == task[h].pc # "idle"
RunningTasks == {h \in Handlers : Running(h)}
ChatOf(h)    == queue[task[h].row].chat

\* UPDATE queue SET status = s, and the UPDATEs that also touch attempts.
WithStatus(row, s)   == [row EXCEPT !.status = s]
WithAttempts(row, n) == [row EXCEPT !.attempts = n]
Claimed(row)         == WithStatus(WithAttempts(row, row.attempts + 1), "processing")
Revived(row)         == WithStatus(WithAttempts(row, 0), "pending")

\* A task that goes on at another step.
AtStep(t, pc) == [t EXCEPT !.pc = pc]

-----------------------------------------------------------------------------
(* Inserting a row, and the admin operations on the table *)

\* Mutant: the SELECT also finds rows being processed.
MutIsPendingLocked(r, c) ==
    queue[r].status \in {"pending", "processing"} /\ queue[r].chat = c

IsPending(r, c) == queue[r].status = "pending" /\ queue[r].chat = c

\* ORDER BY created_at ASC LIMIT 1
OldestPending(r, c) ==
    /\ IsPending(r, c)
    /\ \A q \in Ids : IsPending(q, c) => r <= q

FreshId(r) ==
    /\ queue[r].status = "none"
    /\ \A q \in Ids : queue[q].status = "none" => r <= q

Enqueue(c, k) ==
    \E r \in Ids :
        /\ FreshId(r)
        /\ queue' = [queue EXCEPT ![r] =
                [chat |-> c, kind |-> k, status |-> "pending", attempts |-> 0]]
        /\ audio' = IF k = "voice" THEN audio \cup {r} ELSE audio
        /\ notifs' = IF phase \in Listening THEN Append(notifs, c) ELSE notifs
        /\ UNCHANGED <<replies, life, tasks, faults>>

\* No NOTIFY: the trigger is AFTER INSERT only.
RetryDeadLetter(r) ==
    /\ AdminOps
    /\ queue[r].status = "dead_letter"
    /\ queue' = [queue EXCEPT ![r] = Revived(@)]
    /\ UNCHANGED <<audio, replies, life, notifs, tasks, faults>>

PurgeCompleted(r) ==
    /\ AdminOps
    /\ queue[r].status = "completed"
    /\ queue' = [queue EXCEPT ![r] = WithStatus(@, "deleted")]
    /\ UNCHANGED <<audio, replies, life, notifs, tasks, faults>>

-----------------------------------------------------------------------------
(* The life of the process *)

\* Mutant: queue.start() recovers nothing.
MutRecoverNothing == queue' = queue

\* Mutant: queue.start() resets every row that is not completed.
MutRecoverDeadLetters ==
    queue' = [r \in Ids |-> IF queue[r].status \in {"processing", "dead_letter"}
                            THEN WithStatus(queue[r], "pending")
                            ELSE queue[r]]

RecoverStuckMessages ==
    queue' = [r \in Ids |-> IF queue[r].status = "processing"
                            THEN WithStatus(queue[r], "pending")
                            ELSE queue[r]]

Boot ==
    /\ phase = "down"
    /\ RecoverStuckMessages
    /\ phase' = "booting"
    /\ stopping' = FALSE
    /\ boots' = boots + 1
    /\ UNCHANGED <<audio, replies, notifs, tasks, faults>>

Subscribe ==
    /\ phase = "booting"
    /\ phase' = "listening"
    /\ UNCHANGED <<table, stopping, notifs, tasks, boots, faults>>

ActiveChats == {c \in Chats : activeTasks[c] # 0}

\* The checks onNewMessage makes before it awaits anything.
MayStart(c) ==
    /\ activeTasks[c] = 0
    /\ Cardinality(ActiveChats) < MaxConcurrent

PendingChatIds == {c \in Chats : \E r \in Ids : IsPending(r, c)}

DrainPendingMessages ==
    /\ phase = "listening"
    /\ phase' = "up"
    /\ dequeuing' = [c \in Chats |->
            IF c \in PendingChatIds /\ MayStart(c) THEN dequeuing[c] + 1 ELSE dequeuing[c]]
    /\ UNCHANGED <<table, stopping, notifs, task, activeTasks, processingCount,
                   boots, faults>>

\* Everything in the memory of the process is gone.
LoseMemory ==
    /\ notifs' = <<>>
    /\ dequeuing' = [c \in Chats |-> 0]
    /\ task' = [h \in Handlers |-> Idle]
    /\ activeTasks' = [c \in Chats |-> 0]
    /\ processingCount' = 0
    /\ phase' = "down"

Crash ==
    /\ phase # "down"
    /\ boots < MaxBoots
    /\ LoseMemory
    /\ UNCHANGED <<table, stopping, boots, faults>>

\* SIGTERM or SIGINT: orchestrator.stop() is the first stop() of shutdown().
Signal ==
    /\ phase = "up"
    /\ boots < MaxBoots
    /\ phase' = "draining"
    /\ stopping' = TRUE
    /\ UNCHANGED <<table, notifs, tasks, boots, faults>>

\* stop() waits for processingCount to reach 0 ...
DrainComplete ==
    /\ phase = "draining"
    /\ processingCount = 0
    /\ phase' = "routerStopped"
    /\ UNCHANGED <<table, stopping, notifs, tasks, boots, faults>>

\* ... or for its 15 s to pass; shutdown() then stops the router.
DrainTimeout ==
    /\ phase = "draining"
    /\ processingCount > 0
    /\ phase' = "routerStopped"
    /\ UNCHANGED <<table, stopping, notifs, tasks, boots, faults>>

StopQueue ==
    /\ phase = "routerStopped"
    /\ phase' = "queueStopped"
    /\ notifs' = <<>>
    /\ UNCHANGED <<table, stopping, tasks, boots, faults>>

Exit ==
    /\ phase = "queueStopped"
    /\ LoseMemory
    /\ UNCHANGED <<table, stopping, boots, faults>>

-----------------------------------------------------------------------------
(* NOTIFY and dequeueForChat *)

OnNewMessage ==
    /\ notifs # <<>>
    /\ notifs' = Tail(notifs)
    /\ dequeuing' = IF ~stopping /\ MayStart(Head(notifs))
                    THEN [dequeuing EXCEPT ![Head(notifs)] = @ + 1]
                    ELSE dequeuing
    /\ UNCHANGED <<table, life, task, activeTasks, processingCount, faults>>

\* postgres.js re-LISTENs after a dropped connection; what was sent meanwhile is lost.
LoseNotification ==
    /\ notifs # <<>>
    /\ faults < MaxFaults
    /\ faults' = faults + 1
    /\ notifs' = Tail(notifs)
    /\ UNCHANGED <<table, life, tasks>>

DbWorks  == phase # "queueStopped" /\ faults' = faults
DbThrows ==
    \/ phase = "queueStopped" /\ faults' = faults
    \/ phase # "queueStopped" /\ faults < MaxFaults /\ faults' = faults + 1

FirstStep(k) ==
    IF k = "voice" THEN "transcribe" ELSE IF k = "command" THEN "command" ELSE "agent"

\* UPDATE ... FOR UPDATE SKIP LOCKED, and processQueueItem's registration, which
\* follows the resolved promise without another await.
DequeueForChat(c) ==
    /\ dequeuing[c] > 0
    /\ DbWorks
    /\ dequeuing' = [dequeuing EXCEPT ![c] = @ - 1]
    /\ \E r \in Ids, h \in Handlers :
        /\ OldestPending(r, c)
        /\ ~Running(h)
        /\ queue' = [queue EXCEPT ![r] = Claimed(@)]
        /\ task' = [task EXCEPT ![h] =
                [pc |-> FirstStep(queue[r].kind), row |-> r,
                 attempts |-> queue[r].attempts + 1, heard |-> queue[r].kind # "voice"]]
        /\ activeTasks' = [activeTasks EXCEPT ![c] = r]
        /\ processingCount' = processingCount + 1
    /\ UNCHANGED <<audio, replies, life, notifs>>

DequeueNothing(c) ==
    /\ dequeuing[c] > 0
    /\ DbWorks
    /\ \A r \in Ids : ~IsPending(r, c)
    /\ dequeuing' = [dequeuing EXCEPT ![c] = @ - 1]
    /\ UNCHANGED <<table, life, notifs, task, activeTasks, processingCount>>

\* shutdown(): the orchestrator is not yet among the components to stop before its
\* start() has returned; a second shutdown() changes nothing.
PhaseOnShutdown ==
    IF phase = "up" THEN "draining"
    ELSE IF phase = "listening" THEN "routerStopped" ELSE phase

\* Nobody catches the rejection of onNewMessage or drainChat: unhandledRejection
\* runs shutdown().
DequeueRejected(c) ==
    /\ dequeuing[c] > 0
    /\ DbThrows
    /\ phase = "queueStopped" \/ boots < MaxBoots
    /\ dequeuing' = [dequeuing EXCEPT ![c] = @ - 1]
    /\ phase' = PhaseOnShutdown
    /\ stopping' = (stopping \/ phase = "up")
    /\ UNCHANGED <<table, notifs, task, activeTasks, processingCount, boots>>

-----------------------------------------------------------------------------
(* processQueueItem, handleTaskFailure *)

Goto(h, pc) == task' = [task EXCEPT ![h] = AtStep(@, pc)]

\* Mutant: processingCount is left alone.
MutFinallyNoCount(h) ==
    /\ task' = [task EXCEPT ![h] = Idle]
    /\ activeTasks' = [activeTasks EXCEPT ![ChatOf(h)] = 0]
    /\ processingCount' = processingCount
    /\ dequeuing' = IF stopping THEN dequeuing
                    ELSE [dequeuing EXCEPT ![ChatOf(h)] = @ + 1]

\* Mutant: the entry of the chat is deleted only after a success.
MutFinallyKeepsEntry(h) ==
    /\ task' = [task EXCEPT ![h] = Idle]
    /\ activeTasks' = IF task[h].pc = "ack"
                      THEN [activeTasks EXCEPT ![ChatOf(h)] = 0] ELSE activeTasks
    /\ processingCount' = processingCount - 1
    /\ dequeuing' = IF stopping THEN dequeuing
                    ELSE [dequeuing EXCEPT ![ChatOf(h)] = @ + 1]

\* Mutant: no drainChat after a task.
MutFinallyNoDrain(h) ==
    /\ task' = [task EXCEPT ![h] = Idle]
    /\ activeTasks' = [activeTasks EXCEPT ![ChatOf(h)] = 0]
    /\ processingCount' = processingCount - 1
    /\ dequeuing' = dequeuing

\* The finally block.
Finally(h) ==
    /\ task' = [task EXCEPT ![h] = Idle]
    /\ activeTasks' = [activeTasks EXCEPT ![ChatOf(h)] = 0]
    /\ processingCount' = processingCount - 1
    /\ dequeuing' = IF stopping THEN dequeuing
                    ELSE [dequeuing EXCEPT ![ChatOf(h)] = @ + 1]

Registered == UNCHANGED <<dequeuing, activeTasks, processingCount>>

Transcribed(t, heard) == [pc |-> "agent", row |-> t.row, attempts |-> t.attempts, heard |-> heard]

\* A throwing transcribe() leaves a placeholder text; the file is unlinked
\* either way.
Transcribe(h) ==
    /\ task[h].pc = "transcribe"
    /\ \E heard \in (IF task[h].row \in audio THEN BOOLEAN ELSE {FALSE}) :
           task' = [task EXCEPT ![h] = Transcribed(@, heard)]
    /\ audio' = audio \ {task[h].row}
    /\ Registered
    /\ UNCHANGED <<queue, replies, life, notifs, faults>>

\* ChannelCommandHandler.handle: handled with or without a response, or not a
\* known command (the agent gets it), or an error.
HandleCommand(h) ==
    /\ task[h].pc = "command"
    /\ \E pc \in {"reply", "ack", "agent", "fail"} : Goto(h, pc)
    /\ Registered
    /\ UNCHANGED <<table, life, notifs, faults>>

\* Context, session, MCP server and agentRuntime.execute: any of them may throw;
\* a result without text is not sent.
ExecuteAgent(h) ==
    /\ task[h].pc = "agent"
    /\ \E pc \in {"reply", "ack", "fail"} : Goto(h, pc)
    /\ Registered
    /\ UNCHANGED <<table, life, notifs, faults>>

\* sendResponse up to channelClient.send, whose errors are only logged.
SendResponse(h) ==
    /\ task[h].pc = "reply"
    /\ phase \notin {"routerStopped", "queueStopped"}
    /\ \E delivered \in {0, 1} :
           replies' = [replies EXCEPT ![task[h].row] = @ + delivered]
    /\ Goto(h, "store")
    /\ Registered
    /\ UNCHANGED <<queue, audio, life, notifs, faults>>

\* 'MessageRouter not started'
SendResponseThrows(h) ==
    /\ task[h].pc = "reply"
    /\ phase \in {"routerStopped", "queueStopped"}
    /\ Goto(h, "fail")
    /\ Registered
    /\ UNCHANGED <<table, life, notifs, faults>>

\* storeMessage of the bot's answer and extractMemories; memory.stop() comes
\* between router.stop() and queue.stop().
StoreResponse(h) ==
    /\ task[h].pc = "store"
    /\ \/ DbWorks /\ Goto(h, "ack")
       \/ DbThrows /\ Goto(h, "fail")
       \/ phase = "routerStopped" /\ faults' = faults /\ Goto(h, "fail")
    /\ Registered
    /\ UNCHANGED <<table, life, notifs>>

Acknowledge(h) ==
    /\ task[h].pc = "ack"
    /\ DbWorks
    /\ queue' = [queue EXCEPT ![task[h].row] = WithStatus(@, "completed")]
    /\ Finally(h)
    /\ UNCHANGED <<audio, replies, life, notifs>>

AcknowledgeThrows(h) ==
    /\ task[h].pc = "ack"
    /\ DbThrows
    /\ Goto(h, "fail")
    /\ Registered
    /\ UNCHANGED <<table, life, notifs>>

\* Mutant: one attempt too many.
MutStatusAfterFail(r) == IF queue[r].attempts > MaxAttempts THEN "dead_letter" ELSE "pending"

StatusAfterFail(r) == IF queue[r].attempts >= MaxAttempts THEN "dead_letter" ELSE "pending"

\* Mutant: both comparisons allow one attempt too many.
MutFail(h) ==
    /\ task[h].pc = "fail"
    /\ DbWorks
    /\ queue' = [queue EXCEPT ![task[h].row] =
                            WithStatus(@, IF @.attempts > MaxAttempts THEN "dead_letter" ELSE "pending")]
    /\ IF task[h].attempts > MaxAttempts
       THEN Goto(h, "notice") /\ Registered
       ELSE Finally(h)
    /\ UNCHANGED <<audio, replies, life, notifs>>

\* queue.fail decides on the attempts in the table, the notice on item.attempts.
Fail(h) ==
    /\ task[h].pc = "fail"
    /\ DbWorks
    /\ queue' = [queue EXCEPT ![task[h].row] =
                            WithStatus(@, StatusAfterFail(task[h].row))]
    /\ IF task[h].attempts >= MaxAttempts
       THEN Goto(h, "notice") /\ Registered
       ELSE Finally(h)
    /\ UNCHANGED <<audio, replies, life, notifs>>

\* handleTaskFailure catches its own errors: the row stays 'processing'.
FailThrows(h) ==
    /\ task[h].pc = "fail"
    /\ DbThrows
    /\ Finally(h)
    /\ UNCHANGED <<table, life, notifs>>

SendNotice(h) ==
    /\ task[h].pc = "notice"
    /\ Finally(h)
    /\ UNCHANGED <<table, life, notifs, faults>>

-----------------------------------------------------------------------------
Init ==
    /\ queue = [r \in Ids |-> NoRow]
    /\ audio = {}
    /\ replies = [r \in Ids |-> 0]
    /\ phase = "down"
    /\ stopping = FALSE
    /\ notifs = <<>>
    /\ dequeuing = [c \in Chats |-> 0]
    /\ task = [h \in Handlers |-> Idle]
    /\ activeTasks = [c \in Chats |-> 0]
    /\ processingCount = 0
    /\ boots = 0
    /\ faults = 0

TaskStep(h) ==
    \/ Transcribe(h) \/ HandleCommand(h) \/ ExecuteAgent(h)
    \/ SendResponse(h) \/ SendResponseThrows(h) \/ StoreResponse(h)
    \/ Acknowledge(h) \/ AcknowledgeThrows(h)
    \/ Fail(h) \/ FailThrows(h) \/ SendNotice(h)

DequeueStep(c) == DequeueForChat(c) \/ DequeueNothing(c) \/ DequeueRejected(c)

StartStep == Boot \/ Subscribe \/ DrainPendingMessages
StopStep  == DrainComplete \/ DrainTimeout \/ StopQueue \/ Exit

Next ==
    \/ \E c \in Chats, k \in Kinds : Enqueue(c, k)
    \/ \E r \in Ids : RetryDeadLetter(r) \/ PurgeCompleted(r)
    \/ StartStep
    \/ Crash
    \/ Signal
    \/ StopStep
    \/ OnNewMessage
    \/ LoseNotification
    \/ \E c \in Chats : DequeueStep(c)
    \/ \E h \in Handlers : TaskStep(h)

Spec == Init /\ [][Next]_vars

\* systemd restarts the process (Restart=always); the event loop runs what is
\* ready; database, agent (containerTimeout) and transcription calls return.
Fairness ==
    /\ WF_vars(StartStep)
    /\ WF_vars(StopStep)
    /\ WF_vars(OnNewMessage)
    /\ \A c \in Chats : WF_vars(DequeueStep(c))
    /\ \A h \in Handlers : WF_vars(TaskStep(h))

FairSpec == Spec /\ Fairness

-----------------------------------------------------------------------------
(* Properties *)

TypeOK ==
    /\ queue \in [Ids -> Row]
    /\ audio \subseteq Ids
    /\ replies \in [Ids -> Nat]
    /\ phase \in Phases
    /\ stopping \in BOOLEAN
    /\ notifs \in Seq(Chats)
    /\ dequeuing \in [Chats -> Nat]
    /\ task \in [Handlers -> Task]
    /\ activeTasks \in [Chats -> Ids \cup {0}]
    /\ processingCount \in Nat
    /\ boots \in Nat
    /\ faults \in Nat

Owns(h, r) == task[h].pc \notin {"idle", "notice"} /\ task[h].row = r

\* A row has at most one task working on it, and is 'processing' as long as it
\* has one: acknowledge() and fail() are UPDATEs by id alone and are right only
\* because of this.
SingleOwner ==
    /\ \A h \in Handlers, r \in Ids : Owns(h, r) => queue[r].status = "processing"
    /\ \A g, h \in Handlers, r \in Ids : Owns(g, r) /\ Owns(h, r) => g = h

\* While the process lives and no database call has failed, every 'processing'
\* row has a task that will settle it: recoverStuckMessages runs only at start,
\* so a row without one would wait for the next restart.
NoStrandedRow ==
    phase \notin {"down", "queueStopped"} /\ faults = 0
        => \A r \in Ids : queue[r].status = "processing" => \E h \in Handlers : Owns(h, r)

\* processingCount, on which stop() waits, is the number of running tasks on
\* every path through processQueueItem, the failing ones included.
CountMatches == processingCount = Cardinality(RunningTasks)

\* The activeTasks entry of a chat always belongs to a task that is still
\* running (and will delete it), although tasks of one chat overwrite and delete
\* each other's entry: no chat is locked out by an entry left behind.
ActiveTasksBacked ==
    \A c \in Chats : activeTasks[c] # 0 =>
        \E h \in Handlers : Running(h) /\ task[h].row = activeTasks[c] /\ ChatOf(h) = c

\* max_attempts bounds the attempts except for those a restart interrupted: every
\* start may add one, since dequeueForChat does not look at attempts.
AttemptsBound ==
    \A r \in Ids : queue[r].attempts > 0 => queue[r].attempts < MaxAttempts + boots

\* A user gets a second answer to the same message only when the process was
\* restarted or a database call failed in between.
RepliesBound == \A r \in Ids : replies[r] <= boots + faults

\* fail() dead-letters by the attempts in the table, the notice to the user goes
\* by the attempts of the dequeued item: the two always agree.
NoticeIffDeadLettered ==
    [][\A h \in Handlers : task[h].pc = "fail" /\ task' # task /\ task'[h].pc # "fail" =>
          (task'[h].pc = "notice" <=> queue'[task[h].row].status = "dead_letter")]_vars

\* A completed row is only ever purged and a dead-lettered one only ever retried
\* by the admin: no late acknowledge(), fail() or recovery touches a settled row.
SettledStays ==
    [][\A r \in Ids :
          /\ queue[r].status = "completed" => queue'[r].status \in {"completed", "deleted"}
          /\ queue[r].status = "dead_letter" /\ queue'[r] # queue[r]
                => AdminOps /\ queue'[r].attempts = 0 /\ queue'[r].status = "pending"]_vars

\* No audio file outlives its message: whatever failures and restarts the tasks of a row
\* met, the file is gone by the time the row is settled.
AudioRemoved ==
    \A r \in Ids : queue[r].status \in {"completed", "dead_letter", "deleted"} => r \notin audio

\* What becomes of a message (message-queue.ts, processQueueItem): its row is never left
\* to nobody, it is answered again only after a restart or a failed call, and its audio
\* file is gone when the row is settled.
RowLifecycle == NoStrandedRow /\ RepliesBound /\ AudioRemoved

Settled(r) == queue[r].status \in {"completed", "dead_letter", "deleted"}

\* Every inserted message is eventually answered or dead-lettered, across crashes,
\* restarts and NOTIFYs that are ignored because the chat is busy (checked with
\* MaxConcurrent >= |Chats|, where the concurrency limit refuses nobody).
EventuallySettled ==
    \A r \in Ids : queue[r].status = "pending" ~> Settled(r)

\* orchestrator.ts:204, "one task per chat at a time". (The code does not keep it: README,
\* Divergences.)
OneTaskPerChat ==
    \A g, h \in Handlers :
        Running(g) /\ Running(h) /\ ChatOf(g) = ChatOf(h) => g = h
=============================================================================
