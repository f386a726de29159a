-------------------------- MODULE TelegramInbound --------------------------
(***************************************************************************)
(* The way of a Telegram message into the queue table: the long-poll loop  *)
(* of GrammyTransport, the reconnection of TelegramAdapter, the handler of *)
(* the channel container, which writes chat, message and queue row one     *)
(* after the other, and the Telegram servers, which hand out an update     *)
(* until a getUpdates with a higher offset confirms it.                    *)
(*                                                                         *)
(* Updates are numbered 1, 2, ...; update m carries message m.             *)
(***************************************************************************)
EXTENDS Integers, Sequences, FiniteSets

CONSTANTS
    MaxUpdates,   \* bound: updates users send
    Denied,       \* updates of users that are not allowed
    Greeted,      \* /start
    Media,        \* updates with a voice note or a photo to download
    Loops,        \* slots for pollLoop() activations
    MaxTroubles   \* bound: failing polls, connects, downloads and statements, and ends of the process

Updates == 1..MaxUpdates

ASSUME InboundAssumption ==
    /\ {MaxUpdates, MaxTroubles} \subseteq Nat
    /\ Denied \subseteq Updates /\ Greeted \subseteq Updates /\ Media \subseteq Updates

VARIABLES
    sent,       \* Telegram: updates sent so far
    confirmed,  \* Telegram: updates up to this one are confirmed and forgotten
    proc,       \* the process: "starting", "up", "stopping", "down"
    state,      \* GrammyTransport.state
    dialing,    \* a GrammyTransport.connect() call is awaited
    shouldPoll, \* GrammyTransport.shouldPoll
    pollOffset, \* GrammyTransport.pollOffset
    timer,      \* TelegramAdapter.reconnectTimer is armed
    loop,       \* the pollLoop() activations: phase, and updates still to handle
    work,       \* where the handlers of each message stand
    stored,     \* memory_working
    queued,     \* queue: the message of each row, in order of insertion
    dropped,    \* history: messages given up after a fault or with the process
    errors, initFails, faults, restarts

vars == <<sent, confirmed, proc, state, dialing, shouldPoll, pollOffset, timer, loop, work,
          stored, queued, dropped, errors, initFails, faults, restarts>>

tables == <<stored, queued>>
bounds == <<errors, initFails, faults, restarts>>

LoopAt(pc, batch) == [pc |-> pc, batch |-> batch]
NoLoop == LoopAt("idle", <<>>)
\* The head of the while loop.
Again  == IF shouldPoll THEN LoopAt("ask", <<>>) ELSE NoLoop

Init ==
    /\ sent = 0 /\ confirmed = 0
    /\ proc = "starting"
    /\ state = "connecting" /\ dialing = TRUE /\ shouldPoll = TRUE /\ pollOffset = 0
    /\ timer = FALSE
    /\ loop = [l \in Loops |-> NoLoop]
    /\ work = [m \in Updates |-> "none"]
    /\ stored = {} /\ queued = <<>> /\ dropped = {}
    /\ errors = 0 /\ initFails = 0 /\ faults = 0 /\ restarts = 0

Troubles == errors + initFails + faults + restarts

Alive == proc \in {"up", "starting", "stopping"}

UserSends ==
    /\ sent < MaxUpdates
    /\ sent' = sent + 1
    /\ UNCHANGED <<confirmed, proc, state, dialing, shouldPoll, pollOffset, timer, loop, work,
                   tables, dropped, bounds>>

-----------------------------------------------------------------------------
(* Connecting *)

\* bot.init() and deleteWebhook() succeeded: a new poll loop starts; disconnect()
\* may have been called while they were awaited.
ConnectSucceeds(l) ==
    /\ dialing /\ loop[l].pc = "idle"
    /\ dialing' = FALSE
    /\ state' = "connected"
    /\ loop' = [loop EXCEPT ![l] = Again]
    /\ proc' = IF proc = "starting" THEN "up" ELSE proc
    /\ UNCHANGED <<sent, confirmed, shouldPoll, pollOffset, timer, work, tables, dropped, bounds>>

\* The first connect() throws: main() logs it and goes on without the adapter,
\* whose transport stays in 'connecting'.
FirstConnectFails ==
    /\ proc = "starting" /\ Troubles < MaxTroubles
    /\ initFails' = initFails + 1
    /\ proc' = "up"
    /\ dialing' = FALSE
    /\ UNCHANGED <<sent, confirmed, state, shouldPoll, pollOffset, timer, loop, work, tables,
                   dropped, errors, faults, restarts>>

\* What is in memory is lost with the process.
ProcessEnds ==
    /\ proc' = "down"
    /\ state' = "disconnected" /\ dialing' = FALSE
    /\ shouldPoll' = FALSE /\ pollOffset' = 0 /\ timer' = FALSE
    /\ loop' = [l \in Loops |-> NoLoop]
    /\ work' = [m \in Updates |-> "none"]
    /\ dropped' = dropped \cup {m \in Updates : work[m] # "none"}

\* A later connect() throws: nobody catches it, the process dies.
ReconnectFails ==
    /\ proc = "up" /\ dialing /\ Troubles < MaxTroubles
    /\ initFails' = initFails + 1
    /\ ProcessEnds
    /\ UNCHANGED <<sent, confirmed, tables, errors, faults, restarts>>

\* The reconnect timer calls transport.connect.
TimerFires ==
    /\ timer /\ Alive
    /\ timer' = FALSE
    /\ state' = "connecting" /\ dialing' = TRUE /\ shouldPoll' = TRUE
    /\ UNCHANGED <<sent, confirmed, proc, pollOffset, loop, work, tables, dropped, bounds>>

-----------------------------------------------------------------------------
(* The poll loop *)

\* Mutant: the offset is that of the newest update the bot knows of.
MutNewestOffset(u) == sent + 1

\* Mutant: the offset stays at the update that was handled.
MutSameOffset(u) == u

NextOffset(u) == u + 1

\* Telegram answers getUpdates: the offset confirms, and some of what is left is
\* returned, or nothing after the poll timeout.
GetUpdates(l) ==
    /\ loop[l].pc = "ask"
    /\ LET upto == IF pollOffset - 1 > confirmed THEN pollOffset - 1 ELSE confirmed
       IN  /\ confirmed' = upto
           /\ \E last \in IF upto < sent THEN upto + 1 .. sent ELSE {upto} :
                loop' = [loop EXCEPT ![l] =
                    LoopAt("handle", [i \in 1 .. last - upto |-> upto + i])]
    /\ UNCHANGED <<sent, proc, state, dialing, shouldPoll, pollOffset, timer, work, tables, dropped, bounds>>

\* shouldPoll is looked at between two getUpdates.
StopPolling(l) ==
    /\ loop[l].pc \in {"ask", "conflict"} /\ ~shouldPoll
    /\ loop' = [loop EXCEPT ![l] = NoLoop]
    /\ UNCHANGED <<sent, confirmed, proc, state, dialing, shouldPoll, pollOffset, timer, work, tables,
                   dropped, bounds>>

FirstStep(u) == IF u \in Greeted THEN "greet" ELSE IF u \in Media THEN "media" ELSE "chat"

\* handleUpdate: access control and /start, then the message's own asynchronous way.
HandleUpdate(l) ==
    /\ loop[l].pc = "handle" /\ loop[l].batch # <<>>
    /\ LET u == Head(loop[l].batch)
       IN  /\ pollOffset' = NextOffset(u)
           /\ work' = [work EXCEPT ![u] =
                IF u \in Denied THEN @ ELSE FirstStep(u)]
    /\ loop' = [loop EXCEPT ![l] = LoopAt("handle", Tail(loop[l].batch))]
    /\ UNCHANGED <<sent, confirmed, proc, state, dialing, shouldPoll, timer, tables, dropped, bounds>>

\* getFile throws inside handleUpdate: logged, and the loop goes on.
GetFileFails(l) ==
    /\ loop[l].pc = "handle" /\ loop[l].batch # <<>> /\ Troubles < MaxTroubles
    /\ faults' = faults + 1
    /\ Head(loop[l].batch) \in Media
    /\ pollOffset' = NextOffset(Head(loop[l].batch))
    /\ dropped' = dropped \cup {Head(loop[l].batch)}
    /\ loop' = [loop EXCEPT ![l] = LoopAt("handle", Tail(loop[l].batch))]
    /\ UNCHANGED <<sent, confirmed, proc, state, dialing, shouldPoll, timer, work, tables, errors,
                   initFails, restarts>>

BatchDone(l) ==
    /\ loop[l].pc = "handle" /\ loop[l].batch = <<>>
    /\ loop' = [loop EXCEPT ![l] = Again]
    /\ UNCHANGED <<sent, confirmed, proc, state, dialing, shouldPoll, pollOffset, timer, work, tables,
                   dropped, bounds>>

\* 409: wait for the other session to expire, then ask again.
Conflict(l) ==
    /\ loop[l].pc = "ask" /\ shouldPoll /\ Troubles < MaxTroubles
    /\ errors' = errors + 1
    /\ loop' = [loop EXCEPT ![l] = LoopAt("conflict", <<>>)]
    /\ UNCHANGED <<sent, confirmed, proc, state, dialing, shouldPoll, pollOffset, timer, work, tables,
                   dropped, initFails, faults, restarts>>

\* Mutant: the conflict ends the loop.
MutConflictEnds(l) ==
    /\ loop[l].pc = "conflict" /\ shouldPoll
    /\ loop' = [loop EXCEPT ![l] = NoLoop]
    /\ UNCHANGED <<sent, confirmed, proc, state, dialing, shouldPoll, pollOffset, timer, work, tables,
                   dropped, bounds>>

ConflictOver(l) ==
    /\ loop[l].pc = "conflict" /\ shouldPoll
    /\ loop' = [loop EXCEPT ![l] = LoopAt("ask", <<>>)]
    /\ UNCHANGED <<sent, confirmed, proc, state, dialing, shouldPoll, pollOffset, timer, work, tables,
                   dropped, bounds>>

\* Mutant: the loop reports the error and keeps polling.
MutPollErrorGoesOn(l) ==
    /\ loop[l].pc = "ask" /\ shouldPoll /\ Troubles < MaxTroubles
    /\ errors' = errors + 1
    /\ state' = "disconnected"
    /\ timer' = TRUE
    /\ UNCHANGED <<sent, confirmed, proc, loop, dialing, shouldPoll, pollOffset, work, tables, dropped,
                   initFails, faults, restarts>>

\* Any other error: the loop ends, and handleReconnection arms the timer.
PollError(l) ==
    /\ loop[l].pc = "ask" /\ shouldPoll /\ Troubles < MaxTroubles
    /\ errors' = errors + 1
    /\ loop' = [loop EXCEPT ![l] = NoLoop]
    /\ state' = "disconnected"
    /\ timer' = TRUE
    /\ UNCHANGED <<sent, confirmed, proc, dialing, shouldPoll, pollOffset, work, tables, dropped,
                   initFails, faults, restarts>>

-----------------------------------------------------------------------------
(* handleTransportMessage and handleInbound of one message *)

Moves(m, pc) == work' = [work EXCEPT ![m] = pc]

Greet(m) ==
    /\ work[m] = "greet"
    /\ Moves(m, "none")
    /\ UNCHANGED <<sent, confirmed, proc, state, dialing, shouldPoll, pollOffset, timer, loop, tables,
                   dropped, bounds>>

Download(m) ==
    /\ work[m] = "media"
    /\ Moves(m, "chat")
    /\ UNCHANGED <<sent, confirmed, proc, state, dialing, shouldPoll, pollOffset, timer, loop, tables,
                   dropped, bounds>>

UpsertChat(m) ==
    /\ work[m] = "chat"
    /\ Moves(m, "store")
    /\ UNCHANGED <<sent, confirmed, proc, state, dialing, shouldPoll, pollOffset, timer, loop, tables,
                   dropped, bounds>>

\* ON CONFLICT DO NOTHING.
StoreMessage(m) ==
    /\ work[m] = "store"
    /\ stored' = stored \cup {m}
    /\ Moves(m, "queue")
    /\ UNCHANGED <<sent, confirmed, proc, state, dialing, shouldPoll, pollOffset, timer, loop, queued,
                   dropped, bounds>>

EnqueueMessage(m) ==
    /\ work[m] = "queue"
    /\ queued' = Append(queued, m)
    /\ Moves(m, "none")
    /\ UNCHANGED <<sent, confirmed, proc, state, dialing, shouldPoll, pollOffset, timer, loop, stored,
                   dropped, bounds>>

\* A failing INSERT is logged and the message given up.
StatementFails(m) ==
    /\ work[m] \in {"chat", "store", "queue"} /\ Troubles < MaxTroubles
    /\ faults' = faults + 1
    /\ Moves(m, "none")
    /\ dropped' = dropped \cup {m}
    /\ UNCHANGED <<sent, confirmed, proc, state, dialing, shouldPoll, pollOffset, timer, loop, tables,
                   errors, initFails, restarts>>

\* A failing download or greeting rejects a promise nobody handles: the process dies.
TransportCallFails(m) ==
    /\ work[m] \in {"media", "greet"} /\ Troubles < MaxTroubles
    /\ faults' = faults + 1
    /\ ProcessEnds
    /\ UNCHANGED <<sent, confirmed, tables, errors, initFails, restarts>>

-----------------------------------------------------------------------------
(* The process *)

\* SIGTERM: adapter.disconnect(), then exit.
Shutdown ==
    /\ proc = "up" /\ Troubles < MaxTroubles
    /\ restarts' = restarts + 1
    /\ proc' = "stopping"
    /\ timer' = FALSE
    /\ shouldPoll' = FALSE /\ state' = "disconnected"
    /\ UNCHANGED <<sent, confirmed, dialing, pollOffset, loop, work, tables, dropped, errors,
                   initFails, faults>>

Exit ==
    /\ proc = "stopping"
    /\ ProcessEnds
    /\ UNCHANGED <<sent, confirmed, tables, bounds>>

Crash ==
    /\ Alive /\ Troubles < MaxTroubles
    /\ restarts' = restarts + 1
    /\ ProcessEnds
    /\ UNCHANGED <<sent, confirmed, tables, errors, initFails, faults>>

\* ChannelManager's health check finds the container down and recreates it.
Start ==
    /\ proc = "down"
    /\ proc' = "starting"
    /\ state' = "connecting" /\ dialing' = TRUE /\ shouldPoll' = TRUE
    /\ UNCHANGED <<sent, confirmed, pollOffset, timer, loop, work, tables, dropped, bounds>>

-----------------------------------------------------------------------------
LoopStep(l) ==
    \/ ConnectSucceeds(l) \/ GetUpdates(l) \/ StopPolling(l) \/ HandleUpdate(l)
    \/ GetFileFails(l) \/ BatchDone(l) \/ Conflict(l) \/ ConflictOver(l) \/ PollError(l)

MessageWorks(m) == Greet(m) \/ Download(m) \/ UpsertChat(m) \/ StoreMessage(m) \/ EnqueueMessage(m)

Next ==
    \/ UserSends
    \/ \E l \in Loops : LoopStep(l)
    \/ FirstConnectFails \/ ReconnectFails \/ TimerFires
    \/ \E m \in Updates : MessageWorks(m) \/ StatementFails(m) \/ TransportCallFails(m)
    \/ Shutdown \/ Exit \/ Crash \/ Start

\* Timers fire, network calls and statements end, the health check recurs.
Fairness ==
    /\ \A l \in Loops :
        /\ WF_vars(ConnectSucceeds(l)) /\ WF_vars(GetUpdates(l)) /\ WF_vars(HandleUpdate(l))
        /\ WF_vars(BatchDone(l)) /\ WF_vars(ConflictOver(l)) /\ WF_vars(StopPolling(l))
    /\ WF_vars(TimerFires) /\ WF_vars(Exit) /\ WF_vars(Start)
    /\ \A m \in Updates : WF_vars(MessageWorks(m))

Spec     == Init /\ [][Next]_vars
FairSpec == Spec /\ Fairness

-----------------------------------------------------------------------------
(* Properties *)

TypeOK ==
    /\ sent \in 0..MaxUpdates /\ confirmed \in 0..MaxUpdates
    /\ proc \in {"starting", "up", "stopping", "down"}
    /\ state \in {"disconnected", "connecting", "connected"}
    /\ dialing \in BOOLEAN /\ shouldPoll \in BOOLEAN /\ timer \in BOOLEAN
    /\ pollOffset \in 0 .. MaxUpdates + 1
    /\ loop \in [Loops -> [pc : {"idle", "ask", "handle", "conflict"}, batch : Seq(Updates)]]
    /\ work \in [Updates -> {"none", "greet", "media", "chat", "store", "queue"}]
    /\ stored \subseteq Updates /\ dropped \subseteq Updates
    /\ queued \in Seq(Updates)

\* docs/channels.md:141, "guarantees exactly one getUpdates request at a time": never
\* two poll loops, through errors, 409s, reconnections and disconnect().
OnePollLoop == \A k, l \in Loops : loop[k].pc # "idle" /\ loop[l].pc # "idle" => k = l

Rows(m) == Cardinality({i \in DOMAIN queued : queued[i] = m})

\* An update Telegram has forgotten is queued, under way, or known to be lost: the
\* offset never runs ahead of the messages it confirms.
ConfirmedAccounted ==
    \A u \in 1..confirmed : \/ u \in Denied \cup Greeted \cup dropped
                            \/ work[u] # "none"
                            \/ Rows(u) > 0

\* enqueueMessage does not deduplicate: each end of the process may add one row of
\* a message whose update was not confirmed, and nothing else does.
RowsBounded == \A m \in Updates : Rows(m) <= 1 + restarts + initFails + faults

\* The orchestrator finds the message of every queue row in memory_working, and no
\* row of a user that is not allowed.
RowsBacked == \A i \in DOMAIN queued : queued[i] \in stored \ (Denied \cup Greeted)

\* The rows in the queue (enqueueMessage): no more than the ends of the process explain, each
\* with its message stored.
RowsSound == RowsBounded /\ RowsBacked

\* The first connect() failed, which nothing tries again.
Deaf == state = "connecting" /\ ~dialing

\* Every allowed message is queued in the end, through 409s, reconnections and restarts,
\* unless one of its own statements or downloads failed, the process ended while it
\* handled the message, or the process has given up connecting.
AllQueued ==
    \A m \in Updates \ (Denied \cup Greeted) :
        (sent >= m) ~> (Rows(m) > 0 \/ m \in dropped \/ Deaf)
=============================================================================
