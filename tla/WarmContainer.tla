--------------------------- MODULE WarmContainer ---------------------------
(***************************************************************************)
(* WarmContainerRuntime for one chat: the warm agent container, its idle   *)
(* timer, the asynchronous session backups, and what is left of them after *)
(* the orchestrator restarts.  All containers of a chat have one name; the *)
(* chats are independent of each other.                                    *)
(*                                                                         *)
(* A conversation is abstracted to its session id, and the transcript      *)
(* files to the number of turns they hold of each session.                 *)
(***************************************************************************)
EXTENDS Integers, FiniteSets

CONSTANTS
    Calls,        \* slots for execute() calls
    Idlers,       \* slots for handleIdleTimeout() calls
    Backups,      \* slots for asyncBackupSession() calls not awaited
    MaxBoxes,     \* bound: containers ever created
    MaxTurns,     \* bound: execute() calls made
    MaxUpsets     \* bound: containers that die, crashes and shutdowns of the orchestrator

ASSUME WarmAssumption ==
    {MaxBoxes, MaxTurns, MaxUpsets} \subseteq Nat

VARIABLES
    box,       \* Podman: the containers, by order of creation, and the files in them
    pg,        \* the agent_sessions row of the chat; sid 0: none
    warm,      \* warmContainers: the entry of the chat, 0 when there is none
    known,     \* WarmContainer.sessionId of each container object; 0: null
    timer,     \* idleTimers: "none", "armed", or "fired" and not yet deleted
    stray,     \* armed timers whose handle is no longer in idleTimers
    call,      \* the execute() calls
    idler,     \* the handleIdleTimeout() calls
    backup,    \* the asyncBackupSession() calls nobody awaits
    up,        \* the orchestrator process is running
    turns,     \* execute() calls made so far
    answered,  \* history: the session last answered and the transcripts then
    overlapped, \* history: something has cut into a call or a clean-up, or a backup
                \* has begun before an earlier one ended
    deaths, restarts

vars == <<box, pg, warm, known, timer, stray, call, idler, backup, up, turns,
          answered, overlapped, deaths, restarts>>

memory == <<warm, known, timer, stray>>
budget == <<up, deaths, restarts>>
history == <<answered, overlapped>>

Boxes == 1..MaxBoxes
Sids  == 0..MaxTurns    \* a turn starts at most one session

NoFiles  == [s \in Sids \ {0} |-> 0]
NoBox    == [state |-> "none", files |-> NoFiles]
NoSaved  == [sid |-> 0, files |-> NoFiles]

\* An asynchronous call: where it stands, its container, the session id and the
\* transcripts it carries.
Task(pc, b, sid, files) == [pc |-> pc, box |-> b, sid |-> sid, files |-> files]
At(t, pc) == Task(pc, t.box, t.sid, t.files)
Idle      == Task("idle", 0, 0, NoFiles)

InState(b, st) == [state |-> st, files |-> box[b].files]

\* Containers that podman knows: each of them holds the name of the chat.
Existing  == {b \in Boxes : box[b].state \in {"created", "running", "exited"}}
IsUp(b)   == b \in Boxes /\ box[b].state = "running"

Init ==
    /\ box = [b \in Boxes |-> NoBox]
    /\ pg = NoSaved
    /\ warm = 0
    /\ known = [b \in Boxes |-> 0]
    /\ timer = "none"
    /\ stray = 0
    /\ call = [e \in Calls |-> Idle]
    /\ idler = [i \in Idlers |-> Idle]
    /\ backup = [k \in Backups |-> Idle]
    /\ up = TRUE
    /\ turns = 0
    /\ answered = NoSaved
    /\ overlapped = FALSE
    /\ deaths = 0
    /\ restarts = 0

-----------------------------------------------------------------------------
(* execute() *)

NoIdler   == \A i \in Idlers : idler[i].pc = "idle"
Quiet     == /\ \A e \in Calls : call[e].pc = "idle"
             /\ \A k \in Backups : backup[k].pc = "idle"
             /\ NoIdler

Step(e, pc) == call' = [call EXCEPT ![e] = At(call[e], pc)]

\* getOrCreateContainer up to its first await.
Execute(e) ==
    /\ up /\ call[e].pc = "idle" /\ turns < MaxTurns
    /\ turns' = turns + 1
    /\ overlapped' = (overlapped \/ ~NoIdler \/ \E d \in Calls : call[d].pc # "idle")
    /\ call' = [call EXCEPT ![e] =
            Task(IF warm # 0 THEN "health" ELSE "restore", warm, 0, NoFiles)]
    /\ UNCHANGED <<box, pg, memory, idler, backup, answered, budget>>

\* podman inspect; a healthy container gets the command, with --resume when the
\* container's session is known.
CheckHealth(e) ==
    /\ call[e].pc = "health"
    /\ IF IsUp(call[e].box)
       THEN /\ call' = [call EXCEPT ![e] = Task("exec", call[e].box, known[call[e].box], NoFiles)]
            /\ UNCHANGED <<warm, timer>>
       ELSE /\ call' = [call EXCEPT ![e] = Task("restore", 0, 0, NoFiles)]
            /\ warm' = 0 /\ timer' = "none"
    /\ UNCHANGED <<box, pg, known, stray, idler, backup, turns, history, budget>>

\* Directories, MCP config, skills, credentials, restoreToFilesystem.
Restore(e) ==
    /\ call[e].pc = "restore"
    /\ call' = [call EXCEPT ![e] = Task("create", 0, pg.sid, pg.files)]
    /\ UNCHANGED <<box, pg, memory, idler, backup, turns, history, budget>>

\* podman create --name: refused while a container of that name exists.
CreateBox(e) ==
    /\ call[e].pc = "create"
    /\ Existing = {}
    /\ \E b \in Boxes :
        /\ box[b].state = "none" /\ \A a \in Boxes : box[a].state = "none" => b <= a
        /\ box' = [box EXCEPT ![b] = [state |-> "created", files |-> call[e].files]]
        /\ call' = [call EXCEPT ![e] = Task("start", b, call[e].sid, NoFiles)]
    /\ UNCHANGED <<pg, memory, idler, backup, turns, history, budget>>

NameInUse(e) ==
    /\ call[e].pc = "create"
    /\ Existing # {}
    /\ Step(e, "threw")
    /\ UNCHANGED <<box, pg, memory, idler, backup, turns, history, budget>>

StartBox(e) ==
    /\ call[e].pc = "start"
    /\ box' = [box EXCEPT ![call[e].box] = InState(call[e].box, "running")]
    /\ Step(e, "enter")
    /\ UNCHANGED <<pg, memory, idler, backup, turns, history, budget>>

\* Copying the files into the container, then warmContainers.set and resetIdleTimer.
EnterWarm(e) ==
    /\ call[e].pc = "enter"
    /\ warm' = call[e].box
    /\ known' = [known EXCEPT ![call[e].box] = call[e].sid]
    /\ timer' = "armed"
    /\ Step(e, "exec")
    /\ UNCHANGED <<box, pg, stray, idler, backup, turns, history, budget>>

\* Claude Code gives a conversation that is not resumed a session id of its own.
FreshSid == CHOOSE s \in Sids \ {0} :
                /\ s # pg.sid /\ pg.files[s] = 0
                /\ \A b \in Boxes : known[b] # s /\ box[b].files[s] = 0
                /\ \A k \in Backups : backup[k].sid # s
                /\ \A e \in Calls : call[e].sid # s

\* podman exec answered: the turn is in the transcript inside the container, its
\* backup is started and not awaited, and the idle timer is reset.
ExecAnswers(e) ==
    LET b   == call[e].box
        sid == IF call[e].sid = 0 THEN FreshSid ELSE call[e].sid
        now == [box[b].files EXCEPT ![sid] = @ + 1]
    IN  /\ call[e].pc \in {"exec", "retry"}
        /\ IsUp(b)
        /\ box' = [box EXCEPT ![b] = [state |-> "running", files |-> now]]
        /\ known' = [known EXCEPT ![b] = sid]
        /\ answered' = [sid |-> sid, files |-> now]
        /\ \E k \in Backups :
            /\ backup[k].pc = "idle"
            /\ backup' = [backup EXCEPT ![k] = Task("read", b, sid, NoFiles)]
        /\ overlapped' = (overlapped \/ \E k \in Backups : backup[k].pc # "idle")
        /\ timer' = "armed"
        /\ Step(e, "text")
        /\ UNCHANGED <<pg, warm, stray, idler, turns, budget>>

\* podman exec never throws: a stopped container, a killed or failing CLI give an
\* empty stdout, a result without text and no session id.
ExecEmpty(e) ==
    /\ call[e].pc \in {"exec", "retry"}
    /\ timer' = "armed"
    /\ Step(e, "empty")
    /\ UNCHANGED <<box, pg, warm, known, stray, idler, backup, turns, history, budget>>

\* "No conversation found": once more without --resume.
ExecStale(e) ==
    /\ call[e].pc = "exec"
    /\ IsUp(call[e].box) /\ call[e].sid # 0
    /\ known' = [known EXCEPT ![call[e].box] = 0]
    /\ call' = [call EXCEPT ![e] = Task("retry", call[e].box, 0, NoFiles)]
    /\ UNCHANGED <<box, pg, warm, timer, stray, idler, backup, turns, history, budget>>

\* The result or the error is with the orchestrator.
Return(e) ==
    /\ call[e].pc \in {"text", "empty", "threw"}
    /\ call' = [call EXCEPT ![e] = Idle]
    /\ UNCHANGED <<box, pg, memory, idler, backup, turns, history, budget>>

-----------------------------------------------------------------------------
(* asyncBackupSession, not awaited by execute() *)

\* find and cat inside the container; nothing is found in one that does not run.
BackupRead(k) ==
    /\ backup[k].pc = "read"
    /\ backup' = [backup EXCEPT ![k] =
            IF IsUp(backup[k].box)
            THEN Task("save", backup[k].box, backup[k].sid, box[backup[k].box].files)
            ELSE Idle]
    /\ UNCHANGED <<box, pg, memory, call, idler, turns, history, budget>>

\* Mutant: only the session id is updated when the row exists.
MutBackupSaveKeepsFiles(k) ==
    /\ backup[k].pc = "save"
    /\ pg' = [sid |-> backup[k].sid, files |-> IF pg.sid = 0 THEN backup[k].files ELSE pg.files]
    /\ backup' = [backup EXCEPT ![k] = Idle]
    /\ UNCHANGED <<box, memory, call, idler, turns, history, budget>>

\* saveSession: the upsert replaces the row, whatever it holds by now.
BackupSave(k) ==
    /\ backup[k].pc = "save"
    /\ pg' = [sid |-> backup[k].sid, files |-> backup[k].files]
    /\ backup' = [backup EXCEPT ![k] = Idle]
    /\ UNCHANGED <<box, memory, call, idler, turns, history, budget>>

-----------------------------------------------------------------------------
(* The idle timer and handleIdleTimeout *)

StartIdler(i) ==
    /\ idler[i].pc = "idle"
    /\ idler' = IF warm = 0 THEN idler
                ELSE [idler EXCEPT ![i] =
                        Task(IF known[warm] # 0 THEN "read" ELSE "stop", warm, known[warm], NoFiles)]

TimerFires(i) ==
    /\ timer = "armed"
    /\ overlapped' = (overlapped \/ ~Quiet)
    /\ timer' = "fired"
    /\ StartIdler(i)
    /\ UNCHANGED <<box, pg, warm, known, stray, call, backup, turns, answered, budget>>

StrayFires(i) ==
    /\ stray > 0
    /\ overlapped' = (overlapped \/ ~Quiet)
    /\ stray' = stray - 1
    /\ StartIdler(i)
    /\ UNCHANGED <<box, pg, warm, known, timer, call, backup, turns, answered, budget>>

IdleRead(i) ==
    /\ idler[i].pc = "read"
    /\ idler' = [idler EXCEPT ![i] =
            IF IsUp(idler[i].box)
            THEN Task("save", idler[i].box, idler[i].sid, box[idler[i].box].files)
            ELSE At(idler[i], "stop")]
    /\ UNCHANGED <<box, pg, memory, call, backup, turns, history, budget>>

IdleSave(i) ==
    /\ idler[i].pc = "save"
    /\ pg' = [sid |-> idler[i].sid, files |-> idler[i].files]
    /\ idler' = [idler EXCEPT ![i] = Task("stop", idler[i].box, idler[i].sid, NoFiles)]
    /\ UNCHANGED <<box, memory, call, backup, turns, history, budget>>

\* stop of a container that is gone throws: straight to the finally block.
IdleStop(i) ==
    /\ idler[i].pc = "stop"
    /\ IF idler[i].box \in Existing
       THEN /\ box' = [box EXCEPT ![idler[i].box] = InState(idler[i].box, "exited")]
            /\ idler' = [idler EXCEPT ![i] = At(idler[i], "remove")]
       ELSE /\ box' = box
            /\ idler' = [idler EXCEPT ![i] = At(idler[i], "finally")]
    /\ UNCHANGED <<pg, memory, call, backup, turns, history, budget>>

IdleRemove(i) ==
    /\ idler[i].pc = "remove"
    /\ box' = [box EXCEPT ![idler[i].box] = InState(idler[i].box, "removed")]
    /\ idler' = [idler EXCEPT ![i] = At(idler[i], "finally")]
    /\ UNCHANGED <<pg, memory, call, backup, turns, history, budget>>

\* Mutant: the finally block deletes the timer handle and keeps the entry.
MutIdleFinallyKeepsEntry(i) ==
    /\ idler[i].pc = "finally"
    /\ warm' = warm
    /\ stray' = stray
    /\ timer' = "none"
    /\ idler' = [idler EXCEPT ![i] = Idle]
    /\ UNCHANGED <<box, pg, known, call, backup, turns, history, budget>>

\* warmContainers.delete and idleTimers.delete, whatever they hold by now; a timer
\* armed in the meantime is not cleared.
IdleFinally(i) ==
    /\ idler[i].pc = "finally"
    /\ warm' = 0
    /\ stray' = stray + (IF timer = "armed" THEN 1 ELSE 0)
    /\ timer' = "none"
    /\ idler' = [idler EXCEPT ![i] = Idle]
    /\ UNCHANGED <<box, pg, known, call, backup, turns, history, budget>>

-----------------------------------------------------------------------------
(* Containers that die, and the life of the orchestrator *)

BoxDies(b) ==
    /\ box[b].state = "running" /\ deaths + restarts < MaxUpsets
    /\ overlapped' = (overlapped \/ ~Quiet)
    /\ deaths' = deaths + 1
    /\ box' = [box EXCEPT ![b] = InState(b, "exited")]
    /\ UNCHANGED <<pg, memory, call, idler, backup, up, turns, answered, restarts>>

LoseMemory ==
    /\ up' = FALSE
    /\ warm' = 0
    /\ known' = [b \in Boxes |-> 0]
    /\ timer' = "none"
    /\ stray' = 0
    /\ call' = [e \in Calls |-> Idle]
    /\ idler' = [i \in Idlers |-> Idle]
    /\ backup' = [k \in Backups |-> Idle]

Crash ==
    /\ up /\ deaths + restarts < MaxUpsets
    /\ overlapped' = (overlapped \/ ~Quiet)
    /\ restarts' = restarts + 1
    /\ LoseMemory
    /\ UNCHANGED <<box, pg, turns, answered, deaths>>

\* ContainerLifecycleManager.stop(): every agent container is stopped and removed.
Shutdown ==
    /\ up /\ deaths + restarts < MaxUpsets
    /\ overlapped' = (overlapped \/ ~Quiet)
    /\ restarts' = restarts + 1
    /\ LoseMemory
    /\ box' = [b \in Boxes |-> IF b \in Existing THEN InState(b, "removed") ELSE box[b]]
    /\ UNCHANGED <<pg, turns, answered, deaths>>

\* ContainerLifecycleManager.start(): cleanupOrphans removes what does not run.
Boot ==
    /\ ~up
    /\ up' = TRUE
    /\ box' = [b \in Boxes |-> IF b \in Existing /\ box[b].state # "running"
                               THEN InState(b, "removed") ELSE box[b]]
    /\ UNCHANGED <<pg, memory, call, idler, backup, turns, history, deaths, restarts>>

-----------------------------------------------------------------------------
CallStep(e) ==
    \/ Execute(e) \/ CheckHealth(e) \/ Restore(e) \/ CreateBox(e) \/ NameInUse(e)
    \/ StartBox(e) \/ EnterWarm(e) \/ ExecAnswers(e) \/ ExecEmpty(e) \/ ExecStale(e)
    \/ Return(e)

IdlerStep(i) ==
    \/ TimerFires(i) \/ StrayFires(i) \/ IdleRead(i) \/ IdleSave(i)
    \/ IdleStop(i) \/ IdleRemove(i) \/ IdleFinally(i)

Next ==
    \/ \E e \in Calls : CallStep(e)
    \/ \E k \in Backups : BackupRead(k) \/ BackupSave(k)
    \/ \E i \in Idlers : IdlerStep(i)
    \/ \E b \in Boxes : BoxDies(b)
    \/ Crash \/ Shutdown \/ Boot

Spec == Init /\ [][Next]_vars

-----------------------------------------------------------------------------
(* Properties *)

States == {"none", "created", "running", "exited", "removed"}

Files  == [Sids \ {0} -> 0..MaxTurns]
Tasks  == [pc : STRING, box : Boxes \cup {0}, sid : Sids, files : Files]

TypeOK ==
    /\ box \in [Boxes -> [state : States, files : Files]]
    /\ {pg, answered} \subseteq [sid : Sids, files : Files]
    /\ warm \in Boxes \cup {0}
    /\ known \in [Boxes -> Sids]
    /\ timer \in {"none", "armed", "fired"}
    /\ stray \in Nat
    /\ call \in [Calls -> Tasks] /\ idler \in [Idlers -> Tasks] /\ backup \in [Backups -> Tasks]
    /\ up \in BOOLEAN /\ overlapped \in BOOLEAN
    /\ turns \in 0..MaxTurns

\* A container in the warm map is never immortal: a timer is armed for it or the
\* clean-up of one that fired is under way, through overlapping calls, stray
\* timers and unhealthy containers.
EntryWillExpire ==
    warm # 0 => \/ timer = "armed"
                \/ \E i \in Idlers : idler[i].pc # "idle"

\* A cold start restores the whole conversation and resumes its session, whether an
\* idle clean-up, the death of the container or a restart of the orchestrator ended
\* the last container: no turn the user saw answered is missing, as long as none of
\* them cut into a call, a backup or a clean-up and no backup was begun while an earlier
\* one was under way (nobody awaits them, so the older may be stored last).
NoTurnLost ==
    \A e \in Calls : call[e].pc = "create" /\ ~overlapped =>
        call[e].sid = answered.sid /\ call[e].files = answered.files

\* A cold start finds the chat's container name free: clean-ups remove what they stop before
\* they give up the entry, and only a call that overlaps one, a container that died or a
\* restart can leave a container behind.
NameFree ==
    \A e \in Calls : call[e].pc = "threw" => overlapped \/ deaths + restarts > 0

\* What a cold start relies on (coldStart): the name is free and what it restores is whole.
ColdStartSound == NoTurnLost /\ NameFree

\* docs/sessions.md:83, the idle clean-up happens when no messages arrive: it never
\* stops a container in which an execute() is under way. (The code does not keep it:
\* README, Divergences.)
IdleSparesBusy ==
    [][\A i \in Idlers, b \in Boxes :
          idler[i].pc = "stop" /\ box[b].state = "running" /\ box'[b].state = "exited"
              => \A e \in Calls : ~(call[e].pc \in {"exec", "retry"} /\ call[e].box = b)]_vars
=============================================================================
