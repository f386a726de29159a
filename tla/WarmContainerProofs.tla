------------------------ MODULE WarmContainerProofs ------------------------
(***************************************************************************)
(* EntryWillExpire and ColdStartSound for any number of calls, idle        *)
(* handlers, backups, containers, turns, deaths and restarts.              *)
(*                                                                         *)
(* EntryWillExpire is inductive once the handlers' slots are known to hold *)
(* tasks: every step either leaves the entry, the timer and the slots      *)
(* alone, or arms the timer, or empties the entry, or moves a handler.     *)
(*                                                                         *)
(* ColdStartSound follows the last answered transcripts: they are in the   *)
(* warm container, in the backup or the clean-up under way and, when there *)
(* is none, in the agent_sessions row.  This holds as long as no call, no  *)
(* clean-up and no backup overlaps another.                                *)
(***************************************************************************)
EXTENDS WarmContainer, TLAPS

\* A task constructed with a program counter stands there.
LEMMA TaskFields ==
    ASSUME NEW pc, NEW b, NEW sid, NEW files
    PROVE  Task(pc, b, sid, files).pc = pc
BY DEF Task

LEMMA AtFields ==
    ASSUME NEW t, NEW pc
    PROVE  At(t, pc).pc = pc
BY DEF At, Task

\* What a step may do to the entry, the timer and the handlers.
Expiry == EntryWillExpire /\ DOMAIN idler = Idlers

\* Nothing that decides the expiry of the entry changes.
LEMMA Untouched ==
    ASSUME Expiry, UNCHANGED <<warm, timer, idler>>
    PROVE  Expiry'
BY DEF Expiry, EntryWillExpire

\* A step of execute() arms the timer, drops the entry, or touches neither.
LEMMA CallKeeps ==
    ASSUME NEW e \in Calls, Expiry, CallStep(e)
    PROVE  Expiry'
<1>1. CASE UNCHANGED <<warm, timer, idler>>
  BY <1>1, Untouched
<1>2. CASE (warm' = 0 \/ timer' = "armed") /\ UNCHANGED idler
  BY <1>2 DEF Expiry, EntryWillExpire
<1>3. CASE Execute(e)
  BY <1>1, <1>3 DEF Execute, memory
<1>4. CASE CheckHealth(e)
  BY <1>1, <1>2, <1>4 DEF CheckHealth
<1>5. CASE Restore(e)
  BY <1>1, <1>5 DEF Restore, memory
<1>6. CASE CreateBox(e)
  BY <1>1, <1>6 DEF CreateBox, memory
<1>7. CASE NameInUse(e)
  BY <1>1, <1>7 DEF NameInUse, memory
<1>8. CASE StartBox(e)
  BY <1>1, <1>8 DEF StartBox, memory
<1>9. CASE EnterWarm(e)
  BY <1>2, <1>9 DEF EnterWarm
<1>10. CASE ExecAnswers(e)
  BY <1>2, <1>10 DEF ExecAnswers
<1>11. CASE ExecEmpty(e)
  BY <1>2, <1>11 DEF ExecEmpty
<1>12. CASE ExecStale(e)
  BY <1>1, <1>12 DEF ExecStale
<1>13. CASE Return(e)
  BY <1>1, <1>13 DEF Return, memory
<1>14. QED
  BY <1>3, <1>4, <1>5, <1>6, <1>7, <1>8, <1>9, <1>10, <1>11, <1>12, <1>13 DEF CallStep

\* A handler that has not reached its finally block vouches for the entry.
LEMMA HandlerMoves ==
    ASSUME NEW i \in Idlers, NEW t, Expiry,
           idler' = [idler EXCEPT ![i] = t], t.pc # "idle"
    PROVE  Expiry'
<1>1. idler'[i] = t /\ DOMAIN idler' = Idlers
  BY DEF Expiry
<1>2. EntryWillExpire'
  BY <1>1 DEF EntryWillExpire
<1>3. QED
  BY <1>1, <1>2 DEF Expiry

\* A timer that fires hands the entry, if there is one, to a handler.
LEMMA TimerHandsOver ==
    ASSUME NEW i \in Idlers, Expiry, StartIdler(i), warm' = warm
    PROVE  Expiry'
<1>1. CASE warm = 0
  BY <1>1 DEF StartIdler, Expiry, EntryWillExpire
<1>2. CASE warm # 0
  <2> DEFINE pc == IF known[warm] # 0 THEN "read" ELSE "stop"
  <2>1. idler' = [idler EXCEPT ![i] = Task(pc, warm, known[warm], NoFiles)]
    BY <1>2 DEF StartIdler
  <2>2. Task(pc, warm, known[warm], NoFiles).pc # "idle"
    BY TaskFields
  <2>3. QED
    BY <2>1, <2>2, HandlerMoves
<1>3. QED
  BY <1>1, <1>2

LEMMA IdlerKeeps ==
    ASSUME NEW i \in Idlers, Expiry, IdlerStep(i)
    PROVE  Expiry'
<1>1. CASE TimerFires(i)
  BY <1>1, TimerHandsOver DEF TimerFires
<1>2. CASE StrayFires(i)
  BY <1>2, TimerHandsOver DEF StrayFires
<1>3. CASE IdleRead(i)
  <2>1. At(idler[i], "stop").pc # "idle"
    BY AtFields
  <2>2. Task("save", idler[i].box, idler[i].sid, box[idler[i].box].files).pc # "idle"
    BY TaskFields
  <2>3. CASE IsUp(idler[i].box)
    BY <1>3, <2>2, <2>3, HandlerMoves DEF IdleRead
  <2>4. CASE ~IsUp(idler[i].box)
    BY <1>3, <2>1, <2>4, HandlerMoves DEF IdleRead
  <2>5. QED
    BY <2>3, <2>4
<1>4. CASE IdleSave(i)
  <2>1. Task("stop", idler[i].box, idler[i].sid, NoFiles).pc # "idle"
    BY TaskFields
  <2>2. QED
    BY <1>4, <2>1, HandlerMoves DEF IdleSave
<1>5. CASE IdleStop(i)
  <2>1. At(idler[i], "remove").pc # "idle" /\ At(idler[i], "finally").pc # "idle"
    BY AtFields
  <2>2. CASE idler[i].box \in Existing
    BY <1>5, <2>1, <2>2, HandlerMoves DEF IdleStop
  <2>3. CASE idler[i].box \notin Existing
    BY <1>5, <2>1, <2>3, HandlerMoves DEF IdleStop
  <2>4. QED
    BY <2>2, <2>3
<1>6. CASE IdleRemove(i)
  <2>1. At(idler[i], "finally").pc # "idle"
    BY AtFields
  <2>2. QED
    BY <1>6, <2>1, HandlerMoves DEF IdleRemove
<1>7. CASE IdleFinally(i)
  BY <1>7 DEF IdleFinally, Expiry, EntryWillExpire
<1>8. QED
  BY <1>1, <1>2, <1>3, <1>4, <1>5, <1>6, <1>7 DEF IdlerStep

LEMMA ExpiryNext ==
    ASSUME Expiry, [Next]_vars
    PROVE  Expiry'
<1>1. CASE \E e \in Calls : CallStep(e)
  BY <1>1, CallKeeps
<1>2. CASE \E k \in Backups : BackupRead(k) \/ BackupSave(k)
  BY <1>2, Untouched DEF BackupRead, BackupSave, memory
<1>3. CASE \E i \in Idlers : IdlerStep(i)
  BY <1>3, IdlerKeeps
<1>4. CASE \E b \in Boxes : BoxDies(b)
  BY <1>4, Untouched DEF BoxDies, memory
<1>5. CASE Crash \/ Shutdown
  BY <1>5 DEF Crash, Shutdown, LoseMemory, Expiry, EntryWillExpire
<1>6. CASE Boot
  BY <1>6, Untouched DEF Boot, memory
<1>7. CASE UNCHANGED vars
  BY <1>7, Untouched DEF vars
<1>8. QED
  BY <1>1, <1>2, <1>3, <1>4, <1>5, <1>6, <1>7 DEF Next

\* A container in warmContainers is never immortal, however execute() calls, idle
\* timers and handleIdleTimeout() interleave and whatever containers do.
THEOREM EntryExpires == Spec => []EntryWillExpire
<1>1. Init => Expiry
  BY DEF Init, Expiry, EntryWillExpire
<1>2. Expiry /\ [Next]_vars => Expiry'
  BY ExpiryNext
<1>3. Expiry => EntryWillExpire
  BY DEF Expiry
<1>4. QED
  BY <1>1, <1>2, <1>3, PTL DEF Spec

-----------------------------------------------------------------------------
(* What a cold start finds *)

Slots ==
    /\ DOMAIN box = Boxes /\ DOMAIN known = Boxes
    /\ DOMAIN call = Calls /\ DOMAIN idler = Idlers /\ DOMAIN backup = Backups
    /\ deaths \in Nat /\ restarts \in Nat

Busy(t) == t.pc # "idle"

\* Calls, clean-ups and backups come one after the other; a backup may run beside a call.
Alone ==
    /\ \A d, e \in Calls : Busy(call[d]) /\ Busy(call[e]) => d = e
    /\ \A i, j \in Idlers : Busy(idler[i]) /\ Busy(idler[j]) => i = j
    /\ \A j, k \in Backups : Busy(backup[j]) /\ Busy(backup[k]) => j = k
    /\ \A i \in Idlers : Busy(idler[i]) =>
          (\A e \in Calls : ~Busy(call[e])) /\ (\A k \in Backups : ~Busy(backup[k]))

\* The row has everything that was answered, unless a backup is under way.
RowWhole ==
    (\A k \in Backups : ~Busy(backup[k])) => pg.sid = answered.sid /\ pg.files = answered.files

\* The warm container has everything that was answered.
EntryWhole ==
    warm # 0 => /\ warm \in Boxes
                /\ box[warm].files = answered.files
                /\ known[warm] \in {0, answered.sid}

BackupWhole(t) ==
    Busy(t) => /\ t.pc \in {"read", "save"}
               /\ warm # 0 /\ t.box = warm /\ IsUp(warm)
               /\ t.sid = answered.sid
               /\ t.pc = "save" => t.files = answered.files

IdlerWhole(t) ==
    Busy(t) => /\ warm # 0 /\ t.box = warm
               /\ t.pc \in {"read", "save"} => t.sid = answered.sid
               /\ t.pc = "save" => t.files = answered.files

\* A cold start carries what was answered to its container, a warm one runs in the entry.
CallWhole(t) ==
    /\ t.pc \in {"restore", "create", "start", "enter"} => warm = 0
    /\ t.pc = "create" => t.sid = answered.sid /\ t.files = answered.files
    /\ t.pc \in {"start", "enter"} =>
          t.box \in Boxes /\ t.sid = answered.sid /\ box[t.box].files = answered.files
    /\ t.pc \in {"health", "exec", "retry"} => warm # 0 /\ t.box = warm

Whole ==
    /\ RowWhole /\ EntryWhole
    /\ \A k \in Backups : BackupWhole(backup[k])
    /\ \A i \in Idlers : IdlerWhole(idler[i])
    /\ \A e \in Calls : CallWhole(call[e])

\* Without deaths and restarts, the only container is the entry or the one a cold start makes.
Free ==
    /\ \A b \in Existing : b = warm \/ \E e \in Calls : call[e].pc \in {"start", "enter"} /\ call[e].box = b
    /\ warm # 0 /\ NoIdler => IsUp(warm)
    /\ \A i \in Idlers : idler[i].pc = "finally" => warm \notin Existing
    /\ \A e \in Calls : call[e].pc # "threw" /\ (call[e].pc = "enter" => IsUp(call[e].box))

CInv == Slots /\ (~overlapped => Alone /\ Whole /\ (deaths + restarts = 0 => Free))

\* The fields of the tasks the steps construct.
LEMMA TaskIs ==
    /\ \A pc, b, sid, files :
          LET t == Task(pc, b, sid, files)
          IN  t.pc = pc /\ t.box = b /\ t.sid = sid /\ t.files = files
    /\ \A t, pc :
          At(t, pc).pc = pc /\ At(t, pc).box = t.box /\ At(t, pc).sid = t.sid /\ At(t, pc).files = t.files
    /\ Idle.pc = "idle"
BY DEF Task, At, Idle

\* What an update of a slot or of a container does.
LEMMA CallUpdate ==
    ASSUME Slots, NEW e \in Calls, NEW t, call' = [call EXCEPT ![e] = t]
    PROVE  call'[e] = t /\ DOMAIN call' = Calls /\ \A d \in Calls : d # e => call'[d] = call[d]
BY DEF Slots

LEMMA IdlerUpdate ==
    ASSUME Slots, NEW i \in Idlers, NEW t, idler' = [idler EXCEPT ![i] = t]
    PROVE  idler'[i] = t /\ DOMAIN idler' = Idlers /\ \A j \in Idlers : j # i => idler'[j] = idler[j]
BY DEF Slots

LEMMA BackupUpdate ==
    ASSUME Slots, NEW k \in Backups, NEW t, backup' = [backup EXCEPT ![k] = t]
    PROVE  backup'[k] = t /\ DOMAIN backup' = Backups /\ \A j \in Backups : j # k => backup'[j] = backup[j]
BY DEF Slots

LEMMA BoxUpdate ==
    ASSUME Slots, NEW b \in Boxes, NEW r, box' = [box EXCEPT ![b] = r]
    PROVE  box'[b] = r /\ DOMAIN box' = Boxes /\ \A a \in Boxes : a # b => box'[a] = box[a]
BY DEF Slots

\* podman start, stop and rm change the state of one container and no files.
LEMMA BoxMoves ==
    ASSUME Slots, NEW b \in Boxes, NEW st, box' = [box EXCEPT ![b] = InState(b, st)]
    PROVE  /\ box'[b].state = st /\ box'[b].files = box[b].files
           /\ \A a \in Boxes : a # b => box'[a] = box[a]
<1>1. PICK r : r = InState(b, st)
  OBVIOUS
<1>2. r.state = st /\ r.files = box[b].files
  BY <1>1 DEF InState
<1>3. QED
  BY <1>1, <1>2, BoxUpdate

LEMMA KnownUpdate ==
    ASSUME Slots, NEW b \in Boxes, NEW s, known' = [known EXCEPT ![b] = s]
    PROVE  known'[b] = s /\ DOMAIN known' = Boxes /\ \A a \in Boxes : a # b => known'[a] = known[a]
BY DEF Slots

\* What the steps keep.
Sound == Alone /\ Whole /\ (deaths + restarts = 0 => Free)

LEMMA BoxFacts == 0 \notin Boxes /\ Existing \subseteq Boxes
BY WarmAssumption DEF Boxes, Existing

\* The only busy call moves and leaves the containers and the entry alone.
LEMMA CallMoves ==
    ASSUME Slots, Sound, NEW e \in Calls, NEW t, call' = [call EXCEPT ![e] = t],
           \A d \in Calls : Busy(call[d]) => d = e, NoIdler,
           UNCHANGED <<box, pg, warm, idler, backup, answered, deaths, restarts>>,
           warm # 0 => known'[warm] \in {0, known[warm]},
           CallWhole(t),
           deaths + restarts = 0 /\ Free =>
               /\ t.pc # "threw" /\ t.pc # "enter"
               /\ call[e].pc \notin {"start", "enter"}
    PROVE  Sound'
  <1>1. call'[e] = t /\ \A d \in Calls : d # e => call'[d] = call[d]  BY CallUpdate
  <1>2. \A d \in Calls : Busy(call'[d]) => d = e  BY <1>1
  <1>3. Alone'  BY <1>2 DEF Sound, Alone, NoIdler, Busy
  <1>4. RowWhole' /\ EntryWhole' /\ \A k \in Backups : BackupWhole(backup[k])'
    BY DEF Sound, Whole, RowWhole, EntryWhole, BackupWhole, IsUp
  <1>5. \A i \in Idlers : IdlerWhole(idler[i])'  BY DEF Sound, Whole, IdlerWhole
  <1>6. \A d \in Calls : CallWhole(call[d])'  BY <1>1 DEF Sound, Whole, CallWhole
  <1>7. ASSUME deaths + restarts = 0 PROVE Free'
    <2>1. Free  BY <1>7 DEF Sound
    <2>2. Existing' = Existing  BY DEF Existing
    <2>3. /\ \A b \in Existing' : b = warm' \/ \E d \in Calls : call'[d].pc \in {"start", "enter"} /\ call'[d].box = b
      BY <1>1, <1>7, <2>1, <2>2 DEF Free
    <2>4. \A d \in Calls : call'[d].pc # "threw" /\ (call'[d].pc = "enter" => IsUp(call'[d].box))
      BY <1>1, <1>7, <2>1 DEF Free
    <2>5. warm' # 0 /\ NoIdler' => IsUp(warm)'  BY <2>1 DEF Free, NoIdler, IsUp
    <2>6. \A i \in Idlers : idler'[i].pc = "finally" => warm' \notin Existing'
      BY <2>1, <2>2 DEF Free
    <2>7. \A d \in Calls : IsUp(call'[d].box) => IsUp(call[d].box)'
      BY DEF IsUp
    <2> QED  BY <2>3, <2>4, <2>5, <2>6, <2>7 DEF Free
  <1> QED  BY <1>3, <1>4, <1>5, <1>6, <1>7 DEF Sound, Whole

\* A busy call is the only one, and no clean-up is under way.
LEMMA BusyAlone ==
    ASSUME Alone, NEW e \in Calls, Busy(call[e])
    PROVE  (\A d \in Calls : Busy(call[d]) => d = e) /\ NoIdler
BY DEF Alone, NoIdler, Busy

\* A cold start has no backup under way and no entry.
LEMMA ColdAlone ==
    ASSUME Alone, Whole, NEW e \in Calls, call[e].pc \in {"restore", "create", "start", "enter"}
    PROVE  /\ warm = 0 /\ NoIdler /\ \A k \in Backups : ~Busy(backup[k])
           /\ \A d \in Calls : Busy(call[d]) => d = e
           /\ pg.sid = answered.sid /\ pg.files = answered.files
  <1>1. Busy(call[e])  BY DEF Busy
  <1>2. warm = 0  BY DEF Whole, CallWhole
  <1>3. \A k \in Backups : ~Busy(backup[k])  BY <1>2 DEF Whole, BackupWhole
  <1> QED  BY <1>1, <1>2, <1>3, BusyAlone DEF Whole, RowWhole

\* The steps of a call that only look: the health check, the restore, the result.
LEMMA CallLooks ==
    ASSUME Slots, Sound, NEW e \in Calls, ~overlapped',
           \/ Execute(e) \/ Restore(e) \/ NameInUse(e) \/ ExecEmpty(e) \/ ExecStale(e)
           \/ Return(e) \/ (CheckHealth(e) /\ IsUp(call[e].box))
    PROVE  Sound'
  <1> USE TaskIs, BoxFacts DEF memory, budget, history, Step
  <1>0. Alone /\ Whole /\ CallWhole(call[e]) /\ (deaths + restarts = 0 => Free)
    BY DEF Sound, Whole
  <1>1. CASE Execute(e)
    <2> DEFINE t == Task(IF warm # 0 THEN "health" ELSE "restore", warm, 0, NoFiles)
    <2>1. /\ call' = [call EXCEPT ![e] = t] /\ call[e].pc = "idle" /\ NoIdler
          /\ \A d \in Calls : ~Busy(call[d])
          /\ UNCHANGED <<box, pg, warm, known, idler, backup, answered, deaths, restarts>>
      BY <1>1 DEF Execute, Busy
    <2>2. CallWhole(t)  BY DEF CallWhole
    <2>3. t.pc # "threw" /\ t.pc # "enter"  OBVIOUS
    <2> HIDE DEF t
    <2> QED  BY <2>1, <2>2, <2>3, CallMoves
  <1>2. CASE Restore(e)
    <2> DEFINE t == Task("create", 0, pg.sid, pg.files)
    <2>1. /\ call' = [call EXCEPT ![e] = t] /\ call[e].pc = "restore"
          /\ UNCHANGED <<box, pg, warm, known, idler, backup, answered, deaths, restarts>>
      BY <1>2 DEF Restore
    <2>2. /\ warm = 0 /\ NoIdler /\ \A d \in Calls : Busy(call[d]) => d = e
          /\ pg.sid = answered.sid /\ pg.files = answered.files
      BY <1>0, <2>1, ColdAlone
    <2>3. CallWhole(t) /\ t.pc # "threw" /\ t.pc # "enter"  BY <2>2 DEF CallWhole
    <2> HIDE DEF t
    <2> QED  BY <2>1, <2>2, <2>3, CallMoves
  <1>3. CASE NameInUse(e)
    <2> DEFINE t == At(call[e], "threw")
    <2>1. /\ call' = [call EXCEPT ![e] = t] /\ call[e].pc = "create" /\ Existing # {}
          /\ UNCHANGED <<box, pg, warm, known, idler, backup, answered, deaths, restarts>>
      BY <1>3 DEF NameInUse
    <2>2. warm = 0 /\ NoIdler /\ \A d \in Calls : Busy(call[d]) => d = e
      BY <1>0, <2>1, ColdAlone
    <2>3. CallWhole(t)  BY DEF CallWhole
    <2>4. ~(deaths + restarts = 0 /\ Free)
      BY <2>1, <2>2 DEF Free, Busy
    <2> HIDE DEF t
    <2> QED  BY <2>1, <2>2, <2>3, <2>4, CallMoves
  <1>4. CASE ExecEmpty(e)
    <2> DEFINE t == At(call[e], "empty")
    <2>1. /\ call' = [call EXCEPT ![e] = t] /\ call[e].pc \in {"exec", "retry"} /\ Busy(call[e])
          /\ UNCHANGED <<box, pg, warm, known, idler, backup, answered, deaths, restarts>>
      BY <1>4 DEF ExecEmpty, Busy
    <2>2. CallWhole(t) /\ t.pc = "empty"  BY DEF CallWhole
    <2> HIDE DEF t
    <2> QED  BY <1>0, <2>1, <2>2, BusyAlone, CallMoves
  <1>5. CASE ExecStale(e)
    <2> DEFINE t == Task("retry", call[e].box, 0, NoFiles)
    <2>1. /\ call' = [call EXCEPT ![e] = t] /\ call[e].pc = "exec" /\ Busy(call[e])
          /\ known' = [known EXCEPT ![call[e].box] = 0] /\ IsUp(call[e].box)
          /\ UNCHANGED <<box, pg, warm, idler, backup, answered, deaths, restarts>>
      BY <1>5 DEF ExecStale, Busy
    <2>2. call[e].box = warm /\ warm # 0 /\ warm \in Boxes  BY <1>0, <2>1 DEF CallWhole, IsUp
    <2>3. CallWhole(t) /\ t.pc = "retry"  BY <2>2 DEF CallWhole
    <2>4. known'[warm] = 0  BY <2>1, <2>2, KnownUpdate
    <2> HIDE DEF t
    <2> QED  BY <1>0, <2>1, <2>3, <2>4, BusyAlone, CallMoves
  <1>6. CASE Return(e)
    <2>1. /\ call' = [call EXCEPT ![e] = Idle] /\ call[e].pc \in {"text", "empty", "threw"}
          /\ Busy(call[e])
          /\ UNCHANGED <<box, pg, warm, known, idler, backup, answered, deaths, restarts>>
      BY <1>6 DEF Return, Busy
    <2>2. CallWhole(Idle) /\ Idle.pc = "idle"  BY DEF CallWhole
    <2> QED  BY <1>0, <2>1, <2>2, BusyAlone, CallMoves
  <1>7. CASE CheckHealth(e) /\ IsUp(call[e].box)
    <2> DEFINE t == Task("exec", call[e].box, known[call[e].box], NoFiles)
    <2>1. /\ call' = [call EXCEPT ![e] = t] /\ call[e].pc = "health" /\ Busy(call[e])
          /\ UNCHANGED <<box, pg, warm, known, idler, backup, answered, deaths, restarts>>
      BY <1>7 DEF CheckHealth, Busy
    <2>2. CallWhole(t) /\ t.pc = "exec"  BY <1>0, <2>1 DEF CallWhole
    <2> HIDE DEF t
    <2> QED  BY <1>0, <2>1, <2>2, BusyAlone, CallMoves
  <1> QED  BY <1>1, <1>2, <1>3, <1>4, <1>5, <1>6, <1>7

\* A container that does not run is given up: the entry is empty, and without deaths and
\* restarts this does not happen.
LEMMA HealthKeeps ==
    ASSUME Slots, Sound, NEW e \in Calls, CheckHealth(e), ~IsUp(call[e].box)
    PROVE  Sound'
  <1> USE TaskIs DEF memory, budget, history
  <1>0. Alone /\ Whole /\ CallWhole(call[e]) /\ (deaths + restarts = 0 => Free)
    BY DEF Sound, Whole
  <1> DEFINE t == Task("restore", 0, 0, NoFiles)
  <1>1. /\ call' = [call EXCEPT ![e] = t] /\ call[e].pc = "health" /\ warm' = 0
        /\ UNCHANGED <<box, pg, known, idler, backup, answered, deaths, restarts>>
    BY DEF CheckHealth
  <1>2. call[e].box = warm /\ warm # 0 /\ ~IsUp(warm)  BY <1>0, <1>1 DEF CallWhole
  <1>3. NoIdler /\ \A d \in Calls : Busy(call[d]) => d = e  BY <1>0, <1>1, BusyAlone DEF Busy
  <1>4. \A k \in Backups : ~Busy(backup[k])  BY <1>0, <1>2 DEF Whole, BackupWhole
  <1>5. call'[e] = t /\ \A d \in Calls : d # e => call'[d] = call[d]  BY <1>1, CallUpdate
  <1>6. Alone'  BY <1>0, <1>1, <1>3, <1>5 DEF Alone, NoIdler, Busy
  <1>7. RowWhole' /\ EntryWhole'  BY <1>0, <1>1 DEF Whole, RowWhole, EntryWhole
  <1>8. /\ \A k \in Backups : BackupWhole(backup[k])'
        /\ \A i \in Idlers : IdlerWhole(idler[i])'
    BY <1>1, <1>3, <1>4 DEF BackupWhole, IdlerWhole, NoIdler, Busy
  <1>9. \A d \in Calls : CallWhole(call[d])'
    BY <1>1, <1>3, <1>5 DEF CallWhole, Busy
  <1>10. deaths + restarts # 0  BY <1>0, <1>2, <1>3 DEF Free
  <1> QED  BY <1>1, <1>6, <1>7, <1>8, <1>9, <1>10 DEF Sound, Whole

\* A cold start's own steps: its container gets what was answered, runs and becomes the entry.
LEMMA ColdStartKeeps ==
    ASSUME Slots, Sound, NEW e \in Calls, CreateBox(e) \/ StartBox(e) \/ EnterWarm(e)
    PROVE  Sound'
  <1> USE TaskIs, BoxFacts DEF memory, budget, history, Step
  <1>0. Alone /\ Whole /\ CallWhole(call[e]) /\ (deaths + restarts = 0 => Free)
    BY DEF Sound, Whole
  <1>1. /\ call[e].pc \in {"create", "start", "enter"}
        /\ UNCHANGED <<pg, idler, backup, answered, deaths, restarts>>
    BY DEF CreateBox, StartBox, EnterWarm
  <1>2. /\ warm = 0 /\ NoIdler /\ \A k \in Backups : ~Busy(backup[k])
        /\ \A d \in Calls : Busy(call[d]) => d = e
    BY <1>0, <1>1, ColdAlone
  <1>3. RowWhole'  BY <1>0, <1>1 DEF Whole, RowWhole
  <1>4. /\ \A k \in Backups : BackupWhole(backup[k])'
        /\ \A i \in Idlers : IdlerWhole(idler[i])' /\ NoIdler'
    BY <1>1, <1>2 DEF BackupWhole, IdlerWhole, NoIdler, Busy
  <1>5. ASSUME NEW t, call' = [call EXCEPT ![e] = t], CallWhole(t)'
        PROVE  Alone' /\ \A d \in Calls : CallWhole(call[d])'
    <2>1. call'[e] = t /\ \A d \in Calls : d # e => call'[d] = call[d]  BY <1>5, CallUpdate
    <2>2. Alone'  BY <1>0, <1>1, <1>2, <2>1 DEF Alone, NoIdler, Busy
    <2>3. \A d \in Calls : d # e => CallWhole(call[d])'
      BY <1>2, <2>1 DEF CallWhole, Busy
    <2> QED  BY <1>5, <2>1, <2>2, <2>3
  <1>6. CASE CreateBox(e)
    <2>1. PICK b \in Boxes :
            /\ box' = [box EXCEPT ![b] = [state |-> "created", files |-> call[e].files]]
            /\ call' = [call EXCEPT ![e] = Task("start", b, call[e].sid, NoFiles)]
      BY <1>6 DEF CreateBox
    <2>2. PICK t : t = Task("start", b, call[e].sid, NoFiles)  OBVIOUS
    <2>3. t.pc = "start" /\ t.box = b /\ t.sid = call[e].sid  BY <2>2
    <2>4. /\ box'[b].state = "created" /\ box'[b].files = call[e].files
          /\ \A a \in Boxes : a # b => box'[a] = box[a]
      BY <2>1, BoxUpdate
    <2>5. warm' = 0 /\ call[e].pc = "create" /\ Existing = {}  BY <1>2, <1>6 DEF CreateBox
    <2>6. CallWhole(t)'  BY <1>0, <1>1, <2>3, <2>4, <2>5 DEF CallWhole
    <2>7. Alone' /\ \A d \in Calls : CallWhole(call[d])'  BY <1>5, <2>1, <2>2, <2>6
    <2>8. call'[e] = t /\ \A d \in Calls : d # e => call'[d] = call[d]
      BY <2>1, <2>2, CallUpdate
    <2>9. ASSUME Free PROVE Free'
      <3>1. Existing' = {b}  BY <2>4, <2>5 DEF Existing
      <3> QED  BY <1>4, <2>3, <2>5, <2>8, <2>9, <3>1, <1>2 DEF Free, NoIdler, Busy
    <2> QED  BY <1>0, <1>1, <1>3, <1>4, <2>5, <2>7, <2>9 DEF Sound, Whole, EntryWhole
  <1>7. CASE StartBox(e)
    <2>1. PICK b : b = call[e].box  OBVIOUS
    <2>2. call[e].pc = "start" /\ b \in Boxes /\ warm' = 0
      BY <1>0, <1>2, <1>7, <2>1 DEF StartBox, CallWhole
    <2>3. PICK t : t = At(call[e], "enter")  OBVIOUS
    <2>4. t.pc = "enter" /\ t.box = b /\ t.sid = call[e].sid  BY <2>1, <2>3
    <2>5. /\ box'[b].state = "running" /\ box'[b].files = box[b].files
          /\ \A a \in Boxes : a # b => box'[a] = box[a]
      <3>1. box' = [box EXCEPT ![b] = InState(b, "running")]  BY <1>7, <2>1 DEF StartBox
      <3> QED  BY <2>2, <3>1, BoxMoves
    <2>6. CallWhole(t)'  BY <1>0, <1>1, <2>1, <2>2, <2>4, <2>5 DEF CallWhole
    <2>7. call' = [call EXCEPT ![e] = t]  BY <1>7, <2>3 DEF StartBox
    <2>8. Alone' /\ \A d \in Calls : CallWhole(call[d])'  BY <1>5, <2>6, <2>7
    <2>9. call'[e] = t /\ \A d \in Calls : d # e => call'[d] = call[d]  BY <2>7, CallUpdate
    <2>10. ASSUME Free PROVE Free'
      <3>1. \A a \in Existing' : a = b
        BY <1>2, <2>1, <2>2, <2>5, <2>10 DEF Free, Existing, Busy
      <3>2. IsUp(b)'  BY <2>2, <2>5 DEF IsUp
      <3>3. \A d \in Calls : d # e => call'[d].pc = "idle"  BY <1>2, <2>9 DEF Busy
      <3>4. \A d \in Calls : call'[d].pc # "threw" /\ (call'[d].pc = "enter" => IsUp(call[d].box)')
        BY <2>4, <2>9, <3>2, <3>3
      <3> QED  BY <1>4, <2>2, <2>4, <2>9, <3>1, <3>4 DEF Free, NoIdler
    <2> QED  BY <1>0, <1>1, <1>3, <1>4, <2>2, <2>8, <2>10 DEF Sound, Whole, EntryWhole
  <1>8. CASE EnterWarm(e)
    <2>1. PICK b : b = call[e].box  OBVIOUS
    <2>2. /\ call[e].pc = "enter" /\ b \in Boxes /\ warm' = b /\ box' = box
          /\ call[e].sid = answered.sid /\ box[b].files = answered.files
      BY <1>0, <1>8, <2>1 DEF EnterWarm, CallWhole
    <2>3. PICK t : t = At(call[e], "exec")  OBVIOUS
    <2>4. t.pc = "exec" /\ t.box = b  BY <2>1, <2>3
    <2>5. known'[b] = call[e].sid
      <3>1. known' = [known EXCEPT ![b] = call[e].sid]  BY <1>8, <2>1 DEF EnterWarm
      <3> QED  BY <2>2, <3>1, KnownUpdate
    <2>6. CallWhole(t)'  BY <2>2, <2>4 DEF CallWhole
    <2>7. call' = [call EXCEPT ![e] = t]  BY <1>8, <2>3 DEF EnterWarm
    <2>8. Alone' /\ \A d \in Calls : CallWhole(call[d])'  BY <1>5, <2>6, <2>7
    <2>9. call'[e] = t /\ \A d \in Calls : d # e => call'[d] = call[d]  BY <2>7, CallUpdate
    <2>10. EntryWhole'  BY <1>1, <2>2, <2>5 DEF EntryWhole
    <2>11. ASSUME Free PROVE Free'
      <3>1. \A a \in Existing' : a = b
        BY <1>2, <2>1, <2>2, <2>11 DEF Free, Existing, Busy
      <3>2. IsUp(warm)'  BY <2>1, <2>2, <2>11 DEF IsUp, Free
      <3>3. \A d \in Calls : d # e => call'[d].pc = "idle"  BY <1>2, <2>9 DEF Busy
      <3> QED  BY <1>4, <2>2, <2>4, <2>9, <3>1, <3>2, <3>3 DEF Free, NoIdler
    <2> QED  BY <1>0, <1>1, <1>3, <1>4, <2>8, <2>10, <2>11 DEF Sound, Whole
  <1> QED  BY <1>6, <1>7, <1>8

\* A turn is answered in the entry, and its backup carries it.
LEMMA AnswerKeeps ==
    ASSUME Slots, Sound, NEW e \in Calls, ExecAnswers(e), ~overlapped'
    PROVE  Sound'
  <1> USE TaskIs, BoxFacts DEF memory, budget, history, Step
  <1>0. Alone /\ Whole /\ CallWhole(call[e]) /\ (deaths + restarts = 0 => Free)
    BY DEF Sound, Whole
  <1>1. PICK b, sid, now :
            /\ b = call[e].box
            /\ box' = [box EXCEPT ![b] = [state |-> "running", files |-> now]]
            /\ known' = [known EXCEPT ![b] = sid]
            /\ answered' = [sid |-> sid, files |-> now]
            /\ \E k \in Backups : backup' = [backup EXCEPT ![k] = Task("read", b, sid, NoFiles)]
    <2> DEFINE c == call[e].box
               s == IF call[e].sid = 0 THEN FreshSid ELSE call[e].sid
               f == [box[c].files EXCEPT ![s] = @ + 1]
    <2>1. /\ box' = [box EXCEPT ![c] = [state |-> "running", files |-> f]]
          /\ known' = [known EXCEPT ![c] = s]
          /\ answered' = [sid |-> s, files |-> f]
          /\ \E k \in Backups : backup' = [backup EXCEPT ![k] = Task("read", c, s, NoFiles)]
      BY DEF ExecAnswers
    <2> HIDE DEF s, f
    <2> QED  BY <2>1
  <1>2. /\ call[e].pc \in {"exec", "retry"} /\ IsUp(b) /\ b \in Boxes
        /\ UNCHANGED <<pg, warm, idler, deaths, restarts>>
        /\ \A k \in Backups : ~Busy(backup[k])
    BY <1>1 DEF ExecAnswers, IsUp, Busy
  <1>3. PICK k \in Backups : backup' = [backup EXCEPT ![k] = Task("read", b, sid, NoFiles)]
    BY <1>1
  <1>4. PICK t : t = At(call[e], "text")  OBVIOUS
  <1>5. call' = [call EXCEPT ![e] = t] /\ t.pc = "text"  BY <1>4 DEF ExecAnswers
  <1>6. call'[e] = t /\ \A d \in Calls : d # e => call'[d] = call[d]  BY <1>5, CallUpdate
  <1>7. b = warm /\ warm # 0  BY <1>0, <1>1, <1>2 DEF CallWhole
  <1>8. NoIdler /\ \A d \in Calls : Busy(call[d]) => d = e  BY <1>0, <1>2, BusyAlone DEF Busy
  <1>9. PICK r : r = Task("read", b, sid, NoFiles)  OBVIOUS
  <1>10. backup'[k] = r /\ \A j \in Backups : j # k => backup'[j] = backup[j]
    BY <1>3, <1>9, BackupUpdate
  <1>11. r.pc = "read" /\ r.box = b /\ r.sid = sid  BY <1>9
  <1>12. /\ box'[b].state = "running" /\ box'[b].files = now
         /\ \A a \in Boxes : a # b => box'[a] = box[a]
    BY <1>1, <1>2, BoxUpdate
  <1>13. known'[b] = sid  BY <1>1, <1>2, KnownUpdate
  <1>14. answered'.sid = sid /\ answered'.files = now  BY <1>1
  <1>15. NoIdler' /\ \A d \in Calls : d # e => call'[d].pc = "idle"
    BY <1>2, <1>6, <1>8 DEF NoIdler, Busy
  <1>16. Alone'  BY <1>2, <1>10, <1>15 DEF Alone, NoIdler, Busy
  <1>17. RowWhole'  BY <1>10, <1>11 DEF RowWhole, Busy
  <1>18. EntryWhole'  BY <1>2, <1>7, <1>12, <1>13, <1>14 DEF EntryWhole
  <1>19. IsUp(warm)'  BY <1>2, <1>7, <1>12 DEF IsUp
  <1>20. \A j \in Backups : BackupWhole(backup[j])'
    BY <1>2, <1>7, <1>10, <1>11, <1>14, <1>19 DEF BackupWhole, Busy
  <1>21. \A i \in Idlers : IdlerWhole(idler[i])'  BY <1>15 DEF IdlerWhole, NoIdler, Busy
  <1>22. \A d \in Calls : CallWhole(call[d])'  BY <1>5, <1>6, <1>15 DEF CallWhole
  <1>23. ASSUME Free PROVE Free'
    <2>1. Existing' = Existing  BY <1>2, <1>12 DEF Existing, IsUp
    <2>2. \A a \in Existing' : a = warm'
      BY <1>2, <1>8, <1>23, <2>1 DEF Free, Busy
    <2> QED  BY <1>5, <1>6, <1>15, <1>19, <2>2 DEF Free, NoIdler
  <1> QED  BY <1>0, <1>2, <1>16, <1>17, <1>18, <1>20, <1>21, <1>22, <1>23 DEF Sound, Whole

\* A clean-up moves on: nothing else is under way, it saves what was answered and only takes
\* containers away.
LEMMA CleanUpMoves ==
    ASSUME Slots, Sound, NEW i \in Idlers, NEW t, idler' = [idler EXCEPT ![i] = t], Busy(t),
           \A e \in Calls : ~Busy(call[e]), \A k \in Backups : ~Busy(backup[k]),
           \A j \in Idlers : Busy(idler[j]) => j = i,
           UNCHANGED <<warm, known, call, backup, answered, deaths, restarts>>,
           pg' = pg \/ (pg'.sid = answered.sid /\ pg'.files = answered.files),
           \A b \in Boxes : box'[b].files = box[b].files,
           IdlerWhole(t), Existing' \subseteq Existing,
           t.pc = "finally" => warm \notin Existing'
    PROVE  Sound'
  <1>0. Alone /\ Whole /\ (deaths + restarts = 0 => Free)  BY DEF Sound
  <1>1. idler'[i] = t /\ \A j \in Idlers : j # i => idler'[j] = idler[j]  BY IdlerUpdate
  <1>2. \A j \in Idlers : Busy(idler'[j]) => j = i  BY <1>1
  <1>3. Alone'  BY <1>0, <1>2 DEF Alone, Busy
  <1>4. RowWhole' /\ EntryWhole'  BY <1>0 DEF Whole, RowWhole, EntryWhole
  <1>5. /\ \A k \in Backups : BackupWhole(backup[k])'
        /\ \A e \in Calls : CallWhole(call[e])'
    BY DEF BackupWhole, CallWhole, Busy
  <1>6. \A j \in Idlers : IdlerWhole(idler[j])'  BY <1>1, <1>2 DEF IdlerWhole, Busy
  <1>7. ASSUME Free PROVE Free'
    <2>1. ~NoIdler'  BY <1>1 DEF NoIdler, Busy
    <2>2. \A j \in Idlers : idler'[j].pc = "finally" => warm' \notin Existing'
      BY <1>1, <1>2 DEF Busy
    <2> QED  BY <1>7, <2>1, <2>2 DEF Free, Busy
  <1> QED  BY <1>0, <1>3, <1>4, <1>5, <1>6, <1>7 DEF Sound, Whole

\* A timer that fires when nothing is under way starts a clean-up of the entry.
LEMMA FiresKeeps ==
    ASSUME Slots, Sound, NEW i \in Idlers, StartIdler(i), Quiet,
           UNCHANGED <<box, pg, warm, known, call, backup, answered, deaths, restarts>>
    PROVE  Sound'
  <1> USE TaskIs
  <1>1. Existing' = Existing  BY DEF Existing
  <1>2. CASE warm = 0
    <2>1. idler' = idler  BY <1>2 DEF StartIdler
    <2> QED
      BY <1>1, <2>1 DEF Sound, Alone, Whole, Free, RowWhole, EntryWhole, BackupWhole, IdlerWhole,
         CallWhole, NoIdler, IsUp, Busy
  <1>3. CASE warm # 0
    <2> DEFINE t == Task(IF known[warm] # 0 THEN "read" ELSE "stop", warm, known[warm], NoFiles)
    <2>1. idler' = [idler EXCEPT ![i] = t]  BY <1>3 DEF StartIdler
    <2>2. known[warm] \in {0, answered.sid}  BY <1>3 DEF Sound, Whole, EntryWhole
    <2>3. Busy(t) /\ IdlerWhole(t) /\ t.pc # "finally"  BY <1>3, <2>2 DEF Busy, IdlerWhole
    <2>4. /\ \A e \in Calls : ~Busy(call[e])
          /\ \A k \in Backups : ~Busy(backup[k])
          /\ \A j \in Idlers : ~Busy(idler[j])
      BY DEF Quiet, NoIdler, Busy
    <2>5. \A b \in Boxes : box'[b].files = box[b].files  OBVIOUS
    <2> HIDE DEF t
    <2> QED  BY <1>1, <2>1, <2>3, <2>4, <2>5, CleanUpMoves
  <1> QED  BY <1>2, <1>3

LEMMA CleanUpKeeps ==
    ASSUME Slots, Sound, NEW i \in Idlers, ~overlapped', IdlerStep(i)
    PROVE  Sound'
  <1> USE TaskIs, BoxFacts DEF memory, budget, history
  <1>0. Alone /\ Whole /\ IdlerWhole(idler[i]) /\ (deaths + restarts = 0 => Free)
    BY DEF Sound, Whole
  <1>1. CASE TimerFires(i)
    <2>1. Quiet  BY <1>1 DEF TimerFires
    <2> QED  BY <1>1, <2>1, FiresKeeps DEF TimerFires
  <1>2. CASE StrayFires(i)
    <2>1. Quiet  BY <1>2 DEF StrayFires
    <2> QED  BY <1>2, <2>1, FiresKeeps DEF StrayFires
  <1>3. ASSUME Busy(idler[i])
        PROVE  /\ \A e \in Calls : ~Busy(call[e])
               /\ \A k \in Backups : ~Busy(backup[k])
               /\ \A j \in Idlers : Busy(idler[j]) => j = i
               /\ warm # 0 /\ idler[i].box = warm /\ warm \in Boxes
               /\ box[warm].files = answered.files
    BY <1>0, <1>3 DEF Alone, IdlerWhole, Whole, EntryWhole
  <1>4. CASE IdleRead(i)
    <2>1. /\ idler[i].pc = "read" /\ Busy(idler[i])
          /\ UNCHANGED <<box, pg, warm, known, call, backup, answered, deaths, restarts>>
      BY <1>4 DEF IdleRead, Busy
    <2>2. Existing' = Existing /\ \A b \in Boxes : box'[b].files = box[b].files
      BY <2>1 DEF Existing
    <2>3. CASE IsUp(idler[i].box)
      <3> DEFINE t == Task("save", idler[i].box, idler[i].sid, box[idler[i].box].files)
      <3>1. idler' = [idler EXCEPT ![i] = t]  BY <1>4, <2>3 DEF IdleRead
      <3>2. Busy(t) /\ t.pc = "save"  BY DEF Busy
      <3>3. IdlerWhole(t)  BY <1>0, <1>3, <2>1 DEF IdlerWhole
      <3> HIDE DEF t
      <3> QED  BY <1>3, <2>1, <2>2, <3>1, <3>2, <3>3, CleanUpMoves
    <2>4. CASE ~IsUp(idler[i].box)
      <3> DEFINE t == At(idler[i], "stop")
      <3>1. idler' = [idler EXCEPT ![i] = t]  BY <1>4, <2>4 DEF IdleRead
      <3>2. Busy(t) /\ t.pc = "stop"  BY DEF Busy
      <3>3. IdlerWhole(t)  BY <1>3, <2>1 DEF IdlerWhole
      <3> HIDE DEF t
      <3> QED  BY <1>3, <2>1, <2>2, <3>1, <3>2, <3>3, CleanUpMoves
    <2> QED  BY <2>3, <2>4
  <1>5. CASE IdleSave(i)
    <2> DEFINE t == Task("stop", idler[i].box, idler[i].sid, NoFiles)
    <2>1. /\ idler[i].pc = "save" /\ Busy(idler[i]) /\ idler' = [idler EXCEPT ![i] = t]
          /\ pg' = [sid |-> idler[i].sid, files |-> idler[i].files]
          /\ UNCHANGED <<box, warm, known, call, backup, answered, deaths, restarts>>
      BY <1>5 DEF IdleSave, Busy
    <2>2. pg'.sid = answered.sid /\ pg'.files = answered.files
      BY <1>0, <2>1 DEF IdlerWhole
    <2>3. Existing' = Existing /\ \A b \in Boxes : box'[b].files = box[b].files
      BY <2>1 DEF Existing
    <2>4. Busy(t) /\ t.pc = "stop" /\ IdlerWhole(t)  BY <1>3, <2>1 DEF Busy, IdlerWhole
    <2> HIDE DEF t
    <2> QED  BY <1>3, <2>1, <2>2, <2>3, <2>4, CleanUpMoves
  <1>6. CASE IdleStop(i)
    <2>1. /\ idler[i].pc = "stop" /\ Busy(idler[i])
          /\ UNCHANGED <<pg, warm, known, call, backup, answered, deaths, restarts>>
      BY <1>6 DEF IdleStop, Busy
    <2>2. CASE idler[i].box \in Existing
      <3> DEFINE t == At(idler[i], "remove")
      <3>1. idler' = [idler EXCEPT ![i] = t] /\ box' = [box EXCEPT ![warm] = InState(warm, "exited")]
        BY <1>3, <1>6, <2>1, <2>2 DEF IdleStop
      <3>2. /\ box'[warm].state = "exited" /\ box'[warm].files = box[warm].files
            /\ \A a \in Boxes : a # warm => box'[a] = box[a]
        BY <1>3, <2>1, <3>1, BoxMoves
      <3>3. Existing' \subseteq Existing /\ \A b \in Boxes : box'[b].files = box[b].files
        BY <1>3, <2>1, <2>2, <3>2 DEF Existing
      <3>4. Busy(t) /\ t.pc = "remove" /\ IdlerWhole(t)  BY <1>3, <2>1 DEF Busy, IdlerWhole
      <3> HIDE DEF t
      <3> QED  BY <1>3, <2>1, <3>1, <3>3, <3>4, CleanUpMoves
    <2>3. CASE idler[i].box \notin Existing
      <3> DEFINE t == At(idler[i], "finally")
      <3>1. idler' = [idler EXCEPT ![i] = t] /\ box' = box  BY <1>6, <2>3 DEF IdleStop
      <3>2. Existing' = Existing /\ \A b \in Boxes : box'[b].files = box[b].files
        BY <3>1 DEF Existing
      <3>3. Busy(t) /\ t.pc = "finally" /\ IdlerWhole(t)  BY <1>3, <2>1 DEF Busy, IdlerWhole
      <3>4. warm \notin Existing  BY <1>3, <2>1, <2>3
      <3> HIDE DEF t
      <3> QED  BY <1>3, <2>1, <3>1, <3>2, <3>3, <3>4, CleanUpMoves
    <2> QED  BY <2>2, <2>3
  <1>7. CASE IdleRemove(i)
    <2> DEFINE t == At(idler[i], "finally")
    <2>1. /\ idler[i].pc = "remove" /\ Busy(idler[i]) /\ idler' = [idler EXCEPT ![i] = t]
          /\ UNCHANGED <<pg, warm, known, call, backup, answered, deaths, restarts>>
      BY <1>7 DEF IdleRemove, Busy
    <2>2. box' = [box EXCEPT ![warm] = InState(warm, "removed")]
      BY <1>3, <1>7, <2>1 DEF IdleRemove
    <2>3. /\ box'[warm].state = "removed" /\ box'[warm].files = box[warm].files
          /\ \A a \in Boxes : a # warm => box'[a] = box[a]
      BY <1>3, <2>1, <2>2, BoxMoves
    <2>4. /\ Existing' \subseteq Existing /\ warm \notin Existing'
          /\ \A b \in Boxes : box'[b].files = box[b].files
      BY <1>3, <2>1, <2>3 DEF Existing
    <2>5. Busy(t) /\ IdlerWhole(t)  BY <1>3, <2>1 DEF Busy, IdlerWhole
    <2> HIDE DEF t
    <2> QED  BY <1>3, <2>1, <2>4, <2>5, CleanUpMoves
  <1>8. CASE IdleFinally(i)
    <2>1. /\ idler[i].pc = "finally" /\ Busy(idler[i]) /\ idler' = [idler EXCEPT ![i] = Idle]
          /\ warm' = 0
          /\ UNCHANGED <<box, pg, known, call, backup, answered, deaths, restarts>>
      BY <1>8 DEF IdleFinally, Busy
    <2>2. idler'[i] = Idle /\ \A j \in Idlers : j # i => idler'[j] = idler[j]
      BY <2>1, IdlerUpdate
    <2>3. \A j \in Idlers : ~Busy(idler'[j])  BY <1>3, <2>1, <2>2 DEF Busy
    <2>4. Alone'  BY <1>0, <2>1, <2>3 DEF Alone, Busy
    <2>5. RowWhole' /\ EntryWhole'  BY <1>0, <2>1 DEF Whole, RowWhole, EntryWhole
    <2>6. /\ \A k \in Backups : BackupWhole(backup[k])'
          /\ \A e \in Calls : CallWhole(call[e])'
          /\ \A j \in Idlers : IdlerWhole(idler[j])'
      BY <1>3, <2>1, <2>3 DEF BackupWhole, CallWhole, IdlerWhole, Busy
    <2>7. ASSUME Free PROVE Free'
      <3>1. Existing' = {}  BY <1>3, <2>1, <2>7 DEF Free, Existing, Busy
      <3> QED  BY <1>3, <2>1, <2>3, <3>1 DEF Free, Busy
    <2> QED  BY <1>0, <2>1, <2>4, <2>5, <2>6, <2>7 DEF Sound, Whole
  <1> QED  BY <1>1, <1>2, <1>4, <1>5, <1>6, <1>7, <1>8 DEF IdlerStep

\* The one backup under way reads the transcripts that were answered and stores them.
LEMMA BackupKeeps ==
    ASSUME Slots, Sound, NEW k \in Backups, BackupRead(k) \/ BackupSave(k)
    PROVE  Sound'
  <1> USE TaskIs DEF memory, budget, history
  <1>0. Alone /\ Whole /\ BackupWhole(backup[k]) /\ (deaths + restarts = 0 => Free)
    BY DEF Sound, Whole
  <1>1. /\ Busy(backup[k])
        /\ UNCHANGED <<box, warm, known, call, idler, answered, deaths, restarts>>
    BY DEF BackupRead, BackupSave, Busy
  <1>2. (\A j \in Backups : Busy(backup[j]) => j = k) /\ \A i \in Idlers : ~Busy(idler[i])
    BY <1>0, <1>1 DEF Alone
  <1>3. /\ warm # 0 /\ backup[k].box = warm /\ IsUp(warm) /\ backup[k].sid = answered.sid
        /\ box[warm].files = answered.files
    BY <1>0, <1>1 DEF BackupWhole, Whole, EntryWhole
  <1>4. ASSUME NEW t, backup' = [backup EXCEPT ![k] = t], BackupWhole(t),
               ~Busy(t) => pg'.sid = answered.sid /\ pg'.files = answered.files
        PROVE  Sound'
    <2>1. backup'[k] = t /\ \A j \in Backups : j # k => backup'[j] = backup[j]
      BY <1>4, BackupUpdate
    <2>2. Alone'  BY <1>0, <1>1, <1>2, <2>1 DEF Alone, Busy
    <2>3. RowWhole'  BY <1>1, <1>4, <2>1 DEF RowWhole
    <2>4. EntryWhole'  BY <1>0, <1>1 DEF Whole, EntryWhole
    <2>5. \A j \in Backups : BackupWhole(backup[j])'
      BY <1>1, <1>2, <1>4, <2>1 DEF BackupWhole, IsUp
    <2>6. /\ \A i \in Idlers : IdlerWhole(idler[i])'
          /\ \A e \in Calls : CallWhole(call[e])'
      BY <1>0, <1>1 DEF Whole, IdlerWhole, CallWhole, Busy
    <2>7. ASSUME Free PROVE Free'
      <3>1. Existing' = Existing  BY <1>1 DEF Existing
      <3> QED  BY <1>1, <2>7, <3>1 DEF Free, NoIdler, IsUp
    <2> QED  BY <1>0, <1>1, <2>2, <2>3, <2>4, <2>5, <2>6, <2>7 DEF Sound, Whole
  <1>5. CASE BackupRead(k)
    <2> DEFINE t == Task("save", backup[k].box, backup[k].sid, box[backup[k].box].files)
    <2>1. backup' = [backup EXCEPT ![k] = t]  BY <1>3, <1>5 DEF BackupRead
    <2>2. BackupWhole(t) /\ Busy(t)  BY <1>3 DEF BackupWhole, Busy
    <2> HIDE DEF t
    <2> QED  BY <1>4, <2>1, <2>2
  <1>6. CASE BackupSave(k)
    <2>1. /\ backup' = [backup EXCEPT ![k] = Idle] /\ backup[k].pc = "save"
          /\ pg' = [sid |-> backup[k].sid, files |-> backup[k].files]
      BY <1>6 DEF BackupSave
    <2>2. BackupWhole(Idle)  BY DEF BackupWhole, Busy
    <2>3. pg'.sid = answered.sid /\ pg'.files = answered.files
      BY <1>0, <1>1, <2>1 DEF BackupWhole
    <2> QED  BY <1>4, <2>1, <2>2, <2>3
  <1> QED  BY <1>5, <1>6

\* Deaths and restarts that cut into nothing leave the row, and what survives of memory, whole.
LEMMA UpsetKeeps ==
    ASSUME Slots, Sound, ~overlapped', (\E b \in Boxes : BoxDies(b)) \/ Crash \/ Shutdown
    PROVE  Slots' /\ Sound'
  <1> USE TaskIs DEF memory, budget, history
  <1>0. Alone /\ Whole  BY DEF Sound
  <1>1. /\ Quiet /\ UNCHANGED <<pg, answered>>
        /\ deaths' \in Nat /\ restarts' \in Nat /\ deaths' + restarts' # 0
    <2>1. Quiet /\ UNCHANGED <<pg, answered>>  BY DEF BoxDies, Crash, Shutdown
    <2>2. PICK d \in Nat, r \in Nat : d = deaths /\ r = restarts  BY DEF Slots
    <2>3. (deaths' = d + 1 /\ restarts' = r) \/ (deaths' = d /\ restarts' = r + 1)
      BY <2>2 DEF BoxDies, Crash, Shutdown
    <2> QED  BY <2>1, <2>2, <2>3
  <1>2. /\ \A e \in Calls : ~Busy(call[e])
        /\ \A k \in Backups : ~Busy(backup[k])
        /\ \A i \in Idlers : ~Busy(idler[i])
    BY <1>1 DEF Quiet, NoIdler, Busy
  <1>3. pg'.sid = answered'.sid /\ pg'.files = answered'.files
    BY <1>0, <1>1, <1>2 DEF Whole, RowWhole
  <1>4. SUFFICES /\ DOMAIN box' = Boxes /\ DOMAIN known' = Boxes
                 /\ DOMAIN call' = Calls /\ DOMAIN idler' = Idlers /\ DOMAIN backup' = Backups
                 /\ \A e \in Calls : ~Busy(call'[e])
                 /\ \A k \in Backups : ~Busy(backup'[k])
                 /\ \A i \in Idlers : ~Busy(idler'[i])
                 /\ EntryWhole'
    BY <1>1, <1>3, <1>4
    DEF Slots, Sound, Alone, Whole, RowWhole, BackupWhole, IdlerWhole, CallWhole, Busy
  <1>5. CASE \E b \in Boxes : BoxDies(b)
    <2>1. PICK b \in Boxes : BoxDies(b)  BY <1>5
    <2>2. /\ box' = [box EXCEPT ![b] = InState(b, "exited")]
          /\ UNCHANGED <<warm, known, call, idler, backup>>
      BY <2>1 DEF BoxDies
    <2>3. \A a \in Boxes : box'[a].files = box[a].files
      BY <2>2, BoxUpdate DEF InState
    <2>4. EntryWhole'  BY <1>0, <1>1, <2>2, <2>3 DEF Whole, EntryWhole
    <2> QED  BY <1>2, <2>2, <2>4, BoxUpdate DEF Slots
  <1>6. CASE Crash \/ Shutdown
    <2>1. /\ warm' = 0 /\ known' = [b \in Boxes |-> 0]
          /\ call' = [e \in Calls |-> Idle] /\ idler' = [i \in Idlers |-> Idle]
          /\ backup' = [k \in Backups |-> Idle] /\ DOMAIN box' = Boxes
      BY <1>6 DEF Crash, Shutdown, LoseMemory, Slots
    <2> QED  BY <2>1 DEF EntryWhole, Busy
  <1> QED  BY <1>5, <1>6

\* cleanupOrphans() takes away what does not run.
LEMMA BootKeeps ==
    ASSUME Slots, Sound, Boot
    PROVE  Sound'
  <1>0. Alone /\ Whole /\ (deaths + restarts = 0 => Free)  BY DEF Sound
  <1>1. UNCHANGED <<pg, warm, known, call, idler, backup, answered, deaths, restarts>>
    BY DEF Boot, memory, history
  <1>2. /\ \A b \in Boxes : box'[b].files = box[b].files
        /\ \A b \in Boxes : box[b].state = "running" => box'[b] = box[b]
        /\ Existing' \subseteq Existing
    BY DEF Boot, InState, Existing
  <1>3. \A b : IsUp(b) => IsUp(b)'  BY <1>2 DEF IsUp
  <1>4. Alone'  BY <1>0, <1>1 DEF Alone, Busy
  <1>5. RowWhole' /\ EntryWhole'  BY <1>0, <1>1, <1>2 DEF Whole, RowWhole, EntryWhole
  <1>6. \A k \in Backups : BackupWhole(backup[k])'
    BY <1>0, <1>1, <1>3 DEF Whole, BackupWhole, Busy
  <1>7. /\ \A i \in Idlers : IdlerWhole(idler[i])'
        /\ \A e \in Calls : CallWhole(call[e])'
    BY <1>0, <1>1, <1>2 DEF Whole, IdlerWhole, CallWhole, Busy
  <1>8. ASSUME Free PROVE Free'
    BY <1>1, <1>2, <1>3, <1>8 DEF Free, NoIdler
  <1> QED  BY <1>0, <1>1, <1>4, <1>5, <1>6, <1>7, <1>8 DEF Sound, Whole

\* The slots stay the slots.
LEMMA SlotsKept ==
    ASSUME Slots, [Next]_vars
    PROVE  Slots'
  <1> USE DEF memory, budget, history
  <1>1. CASE \E e \in Calls : CallStep(e)
    <2>1. UNCHANGED <<idler, deaths, restarts>>
      BY <1>1
      DEF CallStep, Execute, CheckHealth, Restore, CreateBox, NameInUse, StartBox, EnterWarm,
          ExecAnswers, ExecEmpty, ExecStale, Return
    <2>2. DOMAIN call' = DOMAIN call
      BY <1>1
      DEF CallStep, Execute, CheckHealth, Restore, CreateBox, NameInUse, StartBox, EnterWarm,
          ExecAnswers, ExecEmpty, ExecStale, Return, Step
    <2>3. DOMAIN box' = DOMAIN box /\ DOMAIN known' = DOMAIN known /\ DOMAIN backup' = DOMAIN backup
      BY <1>1
      DEF CallStep, Execute, CheckHealth, Restore, CreateBox, NameInUse, StartBox, EnterWarm,
          ExecAnswers, ExecEmpty, ExecStale, Return
    <2> QED  BY <2>1, <2>2, <2>3 DEF Slots
  <1>2. CASE \E k \in Backups : BackupRead(k) \/ BackupSave(k)
    BY <1>2 DEF BackupRead, BackupSave, Slots
  <1>3. CASE \E i \in Idlers : IdlerStep(i)
    <2>1. UNCHANGED <<known, call, backup, deaths, restarts>>
      BY <1>3
      DEF IdlerStep, TimerFires, StrayFires, IdleRead, IdleSave, IdleStop, IdleRemove, IdleFinally
    <2>2. DOMAIN idler' = DOMAIN idler /\ DOMAIN box' = DOMAIN box
      BY <1>3
      DEF IdlerStep, TimerFires, StrayFires, IdleRead, IdleSave, IdleStop, IdleRemove, IdleFinally,
          StartIdler
    <2> QED  BY <2>1, <2>2 DEF Slots
  <1>4. CASE \E b \in Boxes : BoxDies(b)  BY <1>4 DEF BoxDies, Slots
  <1>5. CASE Crash \/ Shutdown  BY <1>5 DEF Crash, Shutdown, LoseMemory, Slots
  <1>6. CASE Boot  BY <1>6 DEF Boot, Slots
  <1>7. CASE UNCHANGED vars  BY <1>7 DEF vars, Slots
  <1> QED  BY <1>1, <1>2, <1>3, <1>4, <1>5, <1>6, <1>7 DEF Next

LEMMA NextSound ==
    ASSUME CInv, [Next]_vars
    PROVE  CInv'
  <1>1. Slots /\ Slots'  BY SlotsKept DEF CInv
  <1>2. SUFFICES ASSUME ~overlapped' PROVE Sound'
    BY <1>1 DEF CInv, Sound
  <1>3. ~overlapped
    <2>1. overlapped => overlapped'
      BY Zenon DEF Next, vars, CallStep, IdlerStep, Execute, CheckHealth, Restore, CreateBox, NameInUse,
         StartBox, EnterWarm, ExecAnswers, ExecEmpty, ExecStale, Return, BackupRead, BackupSave,
         TimerFires, StrayFires, IdleRead, IdleSave, IdleStop, IdleRemove, IdleFinally, BoxDies,
         Crash, Shutdown, Boot, history
    <2> QED  BY <1>2, <2>1, Zenon
  <1>4. Sound  BY <1>3 DEF CInv, Sound
  <1>5. ASSUME NEW e \in Calls, CallStep(e) PROVE Sound'
    BY <1>1, <1>2, <1>4, <1>5, CallLooks, HealthKeeps, ColdStartKeeps, AnswerKeeps DEF CallStep
  <1>6. ASSUME NEW k \in Backups, BackupRead(k) \/ BackupSave(k) PROVE Sound'
    BY <1>1, <1>4, <1>6, BackupKeeps
  <1>7. ASSUME NEW i \in Idlers, IdlerStep(i) PROVE Sound'
    BY <1>1, <1>2, <1>4, <1>7, CleanUpKeeps
  <1>8. CASE (\E b \in Boxes : BoxDies(b)) \/ Crash \/ Shutdown
    BY <1>1, <1>2, <1>4, <1>8, UpsetKeeps
  <1>9. CASE Boot  BY <1>1, <1>4, <1>9, BootKeeps
  <1>10. CASE UNCHANGED vars
    BY <1>4, <1>10
    DEF vars, Sound, Alone, Whole, Free, RowWhole, EntryWhole, BackupWhole, IdlerWhole, CallWhole,
        Existing, NoIdler, IsUp, Busy
  <1> QED  BY <1>5, <1>6, <1>7, <1>8, <1>9, <1>10 DEF Next

\* coldStart() restores every turn that was answered, and resumes its session, unless calls,
\* clean-ups, backups, deaths or restarts overlap; and it finds the container's name free
\* unless they overlap or a container died or the orchestrator restarted.
THEOREM ColdStartHolds == Spec => []ColdStartSound
  <1>1. Init => CInv
    <2> SUFFICES ASSUME Init PROVE CInv  OBVIOUS
    <2> USE TaskIs
    <2>1. Slots  BY DEF Init, Slots
    <2>2. Alone  BY DEF Init, Alone, Busy
    <2>3. Whole
      BY DEF Init, Whole, RowWhole, EntryWhole, BackupWhole, IdlerWhole, CallWhole, Busy
    <2>4. Free
      <3>1. Existing = {}  BY DEF Init, Existing, NoBox
      <3> QED  BY <3>1 DEF Init, Free
    <2> QED  BY <2>1, <2>2, <2>3, <2>4 DEF CInv
  <1>2. CInv /\ [Next]_vars => CInv'  BY NextSound
  <1>3. CInv => ColdStartSound
    <2> SUFFICES ASSUME CInv PROVE ColdStartSound  OBVIOUS
    <2>1. NoTurnLost  BY DEF CInv, Whole, CallWhole, NoTurnLost
    <2>2. NameFree
      <3>1. deaths + restarts = 0 \/ deaths + restarts > 0  BY DEF CInv, Slots
      <3> QED  BY <3>1 DEF CInv, Free, NameFree
    <2> QED  BY <2>1, <2>2 DEF ColdStartSound
  <1> QED  BY <1>1, <1>2, <1>3, PTL DEF Spec
=============================================================================
