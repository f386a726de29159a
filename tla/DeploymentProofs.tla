-------------------------- MODULE DeploymentProofs --------------------------
(***************************************************************************)
(* What is proved of a deployment: users, skills, and the containers a     *)
(* shutdown leaves.                                                        *)
(*                                                                         *)
(* UsersApart and SkillsBacked are about stores changed one after the      *)
(* other without a lock. They are proved for commands that do not overlap  *)
(* (torn says which did): then one command is at work, and what it has     *)
(* read is still so when it writes (UserCmd, SkillCmd).                    *)
(*                                                                         *)
(* CleanExit is about a shutdown beside everything else. RunInv says what  *)
(* is registered at each stage of main() and what a quiet shutdown has     *)
(* done so far: a container that runs is one of a component still to be    *)
(* stopped, and the lifecycle, which removes what is left, comes last.     *)
(***************************************************************************)
EXTENDS Deployment, FiniteSetTheorems, WellFoundedInduction, TLAPS

\* Every non-empty set of naturals has a least element.
LEMMA Least ==
  ASSUME NEW S \in SUBSET Nat, S # {}
  PROVE  \E b \in S : \A a \in S : b <= a
<1>1. PICK R : R = {ss \in Nat \X Nat : ss[1] < ss[2]}
  OBVIOUS
<1>2. IsWellFoundedOn(R, Nat)
  BY <1>1, NatLessThanWellFounded DEF OpToRel
<1>3. PICK b \in S : \A a \in S : <<a, b>> \notin R
  BY <1>2, WFMin
<1>4. \A a, c \in Nat : <<a, c>> \notin R => c <= a
  BY <1>1
<1> QED BY <1>3, <1>4

\* There is a gap, and the block found is one.
LEMMA NextBase ==
  ASSUME NEW B \in SUBSET Nat, IsFiniteSet(B)
  PROVE  nextBase(B) \in Nat /\ nextBase(B) \notin B
<1>1. Cardinality(B) \in Nat
  BY FS_CardinalityType
<1>2. PICK n \in 0..Cardinality(B) : n \notin B
  <2> SUFFICES ASSUME 0..Cardinality(B) \subseteq B PROVE FALSE
    OBVIOUS
  <2>1. Cardinality(0..Cardinality(B)) <= Cardinality(B)
    BY FS_Subset
  <2>2. Cardinality(0..Cardinality(B)) = Cardinality(B) - 0 + 1
    BY <1>1, FS_Interval
  <2> QED BY <1>1, <2>1, <2>2
<1>3. PICK b \in Nat \ B : \A a \in Nat \ B : b <= a
  <2>1. Nat \ B \in SUBSET Nat /\ Nat \ B # {}
    BY <1>1, <1>2
  <2> QED BY <2>1, Least
<1>4. b \in 0..Cardinality(B) /\ b \notin B /\ \A a \in 0..(b - 1) : a \in B
  BY <1>1, <1>2, <1>3
<1>5. nextBase(B) \in 0..Cardinality(B) /\ nextBase(B) \notin B
  BY <1>4 DEF nextBase
<1> QED BY <1>1, <1>5

\* The range found lies after all that are taken.
LEMMA NextSubId ==
  ASSUME \A line \in subs : line[2] \in Nat,
         \E n \in Nat : \A line \in subs : line[2] < n
  PROVE  findNextSubIdStart \in Nat /\ \A line \in subs : line[2] < findNextSubIdStart
<1> DEFINE S == {n \in Nat : \A line \in subs : line[2] < n}
<1>1. PICK n \in S : \A m \in S : n <= m
  BY Least
<1>2. n \in {0} \cup {line[2] + 1 : line \in subs}
  <2>1. CASE n = 0
    BY <2>1
  <2>2. CASE n # 0
    <3>1. n - 1 \notin S /\ n - 1 \in Nat
      BY <1>1, <2>2
    <3>2. PICK line \in subs : ~(line[2] < n - 1)
      BY <3>1
    <3>3. line[2] + 1 = n
      BY <1>1, <3>2
    <3> QED BY <3>3
  <2> QED BY <2>1, <2>2
<1>3. findNextSubIdStart \in {0} \cup {line[2] + 1 : line \in subs} /\ \A line \in subs : line[2] < findNextSubIdStart
  BY <1>1, <1>2 DEF findNextSubIdStart
<1> QED BY <1>3

-----------------------------------------------------------------------------
(* The commands under way.                                                 *)

\* The steps of the commands that change users and skills.
CmdOK(x) ==
  /\ DOMAIN x = {"job", "arg", "step", "seen"}
  /\ x.job = "add" => x.step \in {"begin", "subids", "append", "files", "allocate", "unit"}
  /\ x.job = "remove" => x.step \in {"begin", "stop", "stopped", "purge", "free", "splice", "userdel"}
  /\ x.job = "remove" /\ x.step = "stopped" => x.seen = "purge"
  /\ x.job = "install" => x.step \in {"begin", "copy", "read", "write"}
  /\ x.job = "uninstall" => x.step \in {"begin", "remove", "write"}

\* Every slot holds a command at one of its steps.
CmdInv == DOMAIN cmd = Slots /\ \A s \in Slots : CmdOK(cmd[s])

\* Only the command in slot s moves.
Only(s) == DOMAIN cmd' = Slots /\ \A t \in Slots : t # s => cmd'[t] = cmd[t]

\* What the ends of a step do to the slots.
LEMMA GotoCmd ==
  ASSUME CmdInv, NEW s \in Slots, NEW step, NEW seen, Goto(s, step, seen)
  PROVE  /\ Only(s) /\ DOMAIN cmd'[s] = {"job", "arg", "step", "seen"}
         /\ cmd'[s].job = cmd[s].job /\ cmd'[s].arg = cmd[s].arg
         /\ cmd'[s].step = step /\ cmd'[s].seen = seen
BY DEF Goto, CmdInv, CmdOK, Only

LEMMA FinishCmd ==
  ASSUME CmdInv, NEW s \in Slots, Finish(s)
  PROVE  Only(s) /\ cmd'[s] = NoCommand /\ cmd'[s].job = "none" /\ CmdOK(cmd'[s])
BY DEF Finish, CmdInv, Only, NoCommand, CmdOK

LEMMA BeginCmd ==
  ASSUME CmdInv, NEW s \in Slots, NEW job, NEW arg, Begin(s, job, arg)
  PROVE  /\ Only(s) /\ cmd[s].job = "none" /\ CmdOK(cmd'[s])
         /\ cmd'[s].job = job /\ cmd'[s].arg = arg /\ cmd'[s].step = "begin"
BY DEF Begin, IdleSlot, CmdInv, Only, CmdOK

LEMMA SectionCmd ==
  ASSUME CmdInv, NEW s \in Slots, cmd[s].job = "setup", NextSection(s)
  PROVE  Only(s) /\ CmdOK(cmd'[s]) /\ cmd'[s].job \in {"none", "setup"}
BY DEF NextSection, NoCommand, CmdInv, Only, CmdOK

-----------------------------------------------------------------------------
(* Who changes what.                                                       *)

\* A step that changes no user and no command of UserJobs but to end it.
UserSide ==
  /\ UNCHANGED <<acct, reg, subs, units>> /\ torn \subseteq torn'
  /\ \A s \in Slots : cmd'[s] = cmd[s] \/ cmd'[s].job \notin UserJobs

\* A step that changes no skill and no command of SkillJobs, but may end an install.
SkillSide ==
  /\ UNCHANGED <<manifest, dirs>> /\ torn \subseteq torn'
  /\ \A s \in Slots : cmd'[s] = cmd[s] \/ (cmd'[s].job \notin SkillJobs /\ cmd[s].job # "uninstall")

\* One lemma per kind of step.  The process, its containers and systemd change neither.
LEMMA ServicesKind ==
  ASSUME CmdInv, \/ (ServicesStep \/ ServicesEvent) /\ commandsUnchanged
                 \/ UserStart \/ UserStop \/ UNCHANGED vars
  PROVE  CmdInv' /\ UserSide /\ SkillSide
<1>1. UNCHANGED <<cmd, torn, manifest, dirs, acct, reg, subs, units>>
  BY DEF commandsUnchanged, UserStart, UserStop, othersUnchanged, skillVars, adminVars, vars
<1> QED BY <1>1 DEF CmdInv, UserSide, SkillSide

\* Nor does the set-up wizard.
LEMMA SetupKind ==
  ASSUME CmdInv, NEW s \in Slots, SetupStep(s), UNCHANGED adminVars
  PROVE  CmdInv' /\ UserSide /\ SkillSide
<1>1. UNCHANGED <<torn, manifest, dirs, acct, reg, subs, units>>
  BY DEF SetupStep, dispatchSetup, runApiKeyFlow, runSubscriptionFlow, Login, readConfig, writeConfig,
         skillVars, adminVars
<1>2. /\ Only(s) /\ CmdOK(cmd'[s]) /\ cmd'[s].job \in {"none", "setup"}
      /\ cmd[s].job \in {"none", "setup"}
  <2>1. CASE dispatchSetup(s)
    BY <2>1, BeginCmd DEF dispatchSetup
  <2>2. CASE runApiKeyFlow(s) \/ runSubscriptionFlow(s) \/ writeConfig(s)
    BY <2>2, SectionCmd DEF runApiKeyFlow, runSubscriptionFlow, Login, writeConfig, Doing
  <2>3. CASE readConfig(s)
    <3>1. cmd[s].job = "setup" /\ (Goto(s, "write", cfg) \/ Finish(s))
      BY <2>3 DEF readConfig, Doing
    <3> QED BY <3>1, GotoCmd, FinishCmd DEF CmdOK
  <2> QED BY <2>1, <2>2, <2>3 DEF SetupStep
<1> QED BY <1>1, <1>2 DEF CmdInv, Only, UserSide, SkillSide, UserJobs, SkillJobs

\* Nor does a backup.
LEMMA BackupKind ==
  ASSUME CmdInv, NEW s \in Slots, BackupStep(s)
  PROVE  CmdInv' /\ UserSide /\ SkillSide
<1>1. UNCHANGED <<torn, manifest, dirs, acct, reg, subs, units>>
  BY DEF BackupStep, createBackup, dumpDatabase, copyConfig, writeArchive, BackingUp,
         othersUnchanged, skillVars, adminVars
<1>2. /\ Only(s) /\ CmdOK(cmd'[s]) /\ cmd'[s].job \in {"none", "backup"}
      /\ cmd[s].job \in {"none", "backup"}
  <2>1. CASE createBackup(s)
    BY <2>1, BeginCmd DEF createBackup
  <2>2. CASE dumpDatabase(s) \/ copyConfig(s) \/ writeArchive(s)
    <3>1. cmd[s].job = "backup" /\ ((\E step, seen : Goto(s, step, seen)) \/ Finish(s))
      BY <2>2 DEF dumpDatabase, copyConfig, writeArchive, BackingUp, Doing
    <3> QED BY <3>1, GotoCmd, FinishCmd DEF CmdOK
  <2> QED BY <2>1, <2>2 DEF BackupStep
<1> QED BY <1>1, <1>2 DEF CmdInv, Only, UserSide, SkillSide, UserJobs, SkillJobs

\* A restore replaces the manifest, and is known by torn to have done so.
LEMMA RestoreKind ==
  ASSUME CmdInv, NEW s \in Slots, RestoreStep(s)
  PROVE  CmdInv' /\ UserSide /\ (SkillSide \/ "skills" \in torn')
<1>1. /\ UNCHANGED <<acct, reg, subs, units>> /\ torn \subseteq torn'
      /\ "skills" \in torn' \/ UNCHANGED <<manifest, dirs>>
  BY DEF RestoreStep, restoreBackup, stopForRestore, restoreConfig, restoreSecrets, restoreManifest,
         startDatabase, loadDump, stopDatabase, startService, othersUnchanged, skillVars, adminVars
<1>2. /\ Only(s) /\ CmdOK(cmd'[s]) /\ cmd'[s].job \in {"none", "restore"}
      /\ cmd[s].job \in {"none", "restore"}
  <2>1. CASE restoreBackup(s)
    BY <2>1, BeginCmd DEF restoreBackup
  <2>2. CASE ~restoreBackup(s)
    <3>1. cmd[s].job = "restore" /\ ((\E step, seen : Goto(s, step, seen)) \/ Finish(s))
      BY <2>2 DEF RestoreStep, stopForRestore, stopService, restoreConfig, restoreSecrets, restoreManifest,
           startDatabase, loadDump, stopDatabase, startService, Doing
    <3> QED BY <3>1, GotoCmd, FinishCmd DEF CmdOK
  <2> QED BY <2>1, <2>2
<1> QED BY <1>1, <1>2 DEF CmdInv, Only, UserSide, SkillSide, UserJobs, SkillJobs

\* A stopped service only lets the command that waited for it go on.
LEMMA StoppedKind ==
  ASSUME CmdInv, NEW s \in Slots, serviceStopped(s)
  PROVE  /\ CmdInv' /\ SkillSide /\ Only(s) /\ UNCHANGED <<torn, acct, reg, subs, units>>
         /\ cmd'[s].job = cmd[s].job /\ cmd'[s].arg = cmd[s].arg
         /\ cmd[s].job = "remove" => cmd'[s].step = "purge"
         /\ cmd[s].job # "add"
<1>1. UNCHANGED <<torn, manifest, dirs, acct, reg, subs, units>> /\ cmd[s].step = "stopped"
  BY DEF serviceStopped, othersUnchanged, skillVars, adminVars
<1>2. /\ Only(s) /\ DOMAIN cmd'[s] = {"job", "arg", "step", "seen"}
      /\ cmd'[s].job = cmd[s].job /\ cmd'[s].arg = cmd[s].arg /\ cmd'[s].step = cmd[s].seen
  <2>1. Goto(s, cmd[s].seen, "stopped")
    BY DEF serviceStopped
  <2> QED BY <2>1, GotoCmd
<1>3. /\ cmd[s].job \notin {"add", "install", "uninstall"}
      /\ cmd[s].job = "remove" => cmd'[s].step = "purge"
  BY <1>1, <1>2 DEF CmdInv, CmdOK
<1>4. CmdOK(cmd'[s])
  BY <1>2, <1>3 DEF CmdOK
<1> QED BY <1>1, <1>2, <1>3, <1>4 DEF CmdInv, Only, SkillSide, SkillJobs

\* A command that is cut off leaves what it has done.
LEMMA AbandonKind ==
  ASSUME CmdInv, NEW s \in Slots, Abandon(s)
  PROVE  CmdInv' /\ UserSide /\ (SkillSide \/ "skills" \in torn')
<1>1. /\ UNCHANGED <<manifest, dirs, acct, reg, subs, units>> /\ torn \subseteq torn'
      /\ cmd[s].job = "uninstall" => "skills" \in torn'
  BY DEF Abandon, othersUnchanged, skillVars, adminVars
<1>2. Only(s) /\ cmd'[s].job = "none" /\ CmdOK(cmd'[s])
  BY FinishCmd DEF Abandon
<1> QED BY <1>1, <1>2 DEF CmdInv, Only, UserSide, SkillSide, UserJobs, SkillJobs

\* The steps of add-user and remove-user leave the skills alone, those of the
\* skill commands the users.
LEMMA AddKind ==
  ASSUME CmdInv, NEW s \in Slots, AddStep(s)
  PROVE  CmdInv' /\ SkillSide
<1>1. UNCHANGED <<manifest, dirs>> /\ torn \subseteq torn'
  BY DEF AddStep, addUser, Adding, useradd, readSubIds, appendSubIds, readRegistry, allocate, installService,
         Overlap, othersUnchanged, skillVars
<1>2. Only(s) /\ CmdOK(cmd'[s]) /\ cmd'[s].job \in {"none", "add"} /\ cmd[s].job \in {"none", "add"}
  <2>1. CASE addUser(s)
    BY <2>1, BeginCmd DEF addUser
  <2>2. CASE ~addUser(s)
    <3>1. cmd[s].job = "add"
      BY <2>2 DEF AddStep, Adding, useradd, readSubIds, appendSubIds, readRegistry, allocate, installService, Doing
    <3>2. \/ \E step \in {"subids", "append", "files", "allocate", "unit"}: \E seen : Goto(s, step, seen)
          \/ Finish(s)
      BY <2>2 DEF AddStep, useradd, readSubIds, appendSubIds, readRegistry, allocate, installService
    <3> QED BY <3>1, <3>2, GotoCmd, FinishCmd DEF CmdOK
  <2> QED BY <2>1, <2>2
<1> QED BY <1>1, <1>2 DEF CmdInv, Only, SkillSide, SkillJobs

LEMMA RemoveKind ==
  ASSUME CmdInv, NEW s \in Slots, RemoveStep(s)
  PROVE  CmdInv' /\ SkillSide
<1>1. UNCHANGED <<manifest, dirs>> /\ torn \subseteq torn'
  BY DEF RemoveStep, removeUser, stopContainers, stopUser, removeResources, readForFree, free, userdel,
         Overlap, othersUnchanged, skillVars
<1>2. Only(s) /\ CmdOK(cmd'[s]) /\ cmd'[s].job \in {"none", "remove"} /\ cmd[s].job \in {"none", "remove"}
  <2>1. CASE removeUser(s)
    BY <2>1, BeginCmd DEF removeUser
  <2>2. CASE ~removeUser(s)
    <3>1. cmd[s].job = "remove"
      BY <2>2 DEF RemoveStep, stopContainers, stopUser, removeResources, readForFree, free, userdel, Doing
    <3>2. \/ \E step \in {"stop", "purge", "free", "splice", "userdel"}: \E seen : Goto(s, step, seen)
          \/ Goto(s, "stopped", "purge") \/ Finish(s)
      BY <2>2 DEF RemoveStep, stopContainers, stopUser, stopService, removeResources, readForFree, free, userdel
    <3> QED BY <3>1, <3>2, GotoCmd, FinishCmd DEF CmdOK
  <2> QED BY <2>1, <2>2
<1> QED BY <1>1, <1>2 DEF CmdInv, Only, SkillSide, SkillJobs

LEMMA SkillKind ==
  ASSUME CmdInv, NEW s \in Slots, SkillStep(s), UNCHANGED adminVars
  PROVE  CmdInv' /\ UserSide
<1>1. UNCHANGED <<acct, reg, subs, units>> /\ torn \subseteq torn'
  BY DEF SkillStep, installCommand, updateCommand, uninstallCommand, download, copyDir, readManifest, writeManifest,
         checkDependents, removeDir, spliceManifest, Overlap, adminVars
<1>2. Only(s) /\ CmdOK(cmd'[s]) /\ cmd'[s].job \in {"none", "install", "uninstall"}
  <2>1. CASE installCommand(s) \/ updateCommand(s) \/ uninstallCommand(s)
    BY <2>1, BeginCmd DEF installCommand, updateCommand, uninstallCommand
  <2>2. CASE download(s) \/ copyDir(s) \/ readManifest(s) \/ writeManifest(s)
    <3>1. /\ cmd[s].job = "install"
          /\ (\E step \in {"copy", "read", "write"} : \E seen : Goto(s, step, seen)) \/ Finish(s)
      BY <2>2 DEF download, copyDir, readManifest, writeManifest, Doing
    <3> QED BY <3>1, GotoCmd, FinishCmd DEF CmdOK
  <2>3. CASE checkDependents(s) \/ removeDir(s) \/ spliceManifest(s)
    <3>1. /\ cmd[s].job = "uninstall"
          /\ (\E step \in {"remove", "write"} : \E seen : Goto(s, step, seen)) \/ Finish(s)
      BY <2>3 DEF checkDependents, removeDir, spliceManifest, Doing
    <3> QED BY <3>1, GotoCmd, FinishCmd DEF CmdOK
  <2> QED BY <2>1, <2>2, <2>3 DEF SkillStep
<1> QED BY <1>1, <1>2 DEF CmdInv, Only, UserSide, UserJobs

\* All commands are at one of their steps after each of these.
LEMMA CmdStep == CmdInv /\ [Next]_vars => CmdInv'
BY ServicesKind, SetupKind, SkillKind, BackupKind, RestoreKind, StoppedKind, AbandonKind, AddKind, RemoveKind
   DEF Next, Steps, AdminStep

-----------------------------------------------------------------------------
(* UsersApart.                                                             *)

\* The port blocks that are taken.
Blocks == {reg[u] : u \in DOMAIN reg}

\* What a command of one administrator may count on.
UserCmd(x) ==
  /\ x.job = "add" =>
       /\ x.step # "begin" => x.arg \in acct
       /\ x.step = "append" => x.seen \in Nat /\ \A line \in subs : line[2] < x.seen
       /\ x.step = "allocate" => x.seen = reg /\ x.arg \notin DOMAIN reg
       /\ x.step = "unit" => x.arg \in DOMAIN reg
  /\ x.job = "remove" =>
       /\ x.step \in {"free", "splice", "userdel"} => x.arg \notin units
       /\ x.step = "splice" => x.seen = reg
       /\ x.step = "userdel" => x.arg \notin DOMAIN reg

\* UsersApart, with one command at work and what that command counts on.
UsersOK ==
  /\ \A s, t \in Slots : cmd[s].job \in UserJobs /\ cmd[t].job \in UserJobs => s = t
  /\ \A s \in Slots : UserCmd(cmd[s])
  /\ \A u \in DOMAIN reg : reg[u] \in Nat
  /\ \A u, v \in DOMAIN reg : u # v => reg[u] # reg[v]
  /\ IsFiniteSet(Blocks)
  /\ \A line \in subs : line[2] \in Nat
  /\ \E n \in Nat : \A line \in subs : line[2] < n
  /\ \A a, b \in subs : a # b => a[2] # b[2]
  /\ DOMAIN reg \subseteq acct /\ units \subseteq DOMAIN reg

\* Which holds unless commands overlapped.
UserInv == "users" \notin torn => UsersOK

\* A step of the one command at work that leaves the tables as they are.
LEMMA UserGoes ==
  ASSUME UsersOK, NEW s \in Slots, Only(s), cmd[s].job \in UserJobs,
         UNCHANGED <<acct, reg, subs, units>>, UserCmd(cmd'[s])
  PROVE  UsersOK'
<1>1. \A t \in Slots : UserCmd(cmd[t])'
  <2> SUFFICES ASSUME NEW t \in Slots PROVE UserCmd(cmd[t])'
    OBVIOUS
  <2>1. CASE t = s
    BY <2>1 DEF UserCmd
  <2>2. CASE t # s
    BY <2>2 DEF UsersOK, UserCmd, Only
  <2> QED BY <2>1, <2>2
<1>2. \A t, v \in Slots : cmd'[t].job \in UserJobs /\ cmd'[v].job \in UserJobs => t = v
  BY DEF UsersOK, Only
<1> QED BY <1>1, <1>2 DEF UsersOK, Blocks

\* The other slot holds no command on users.
LEMMA UserAlone ==
  ASSUME UsersOK, NEW s \in Slots, Only(s), cmd[s].job \in UserJobs
  PROVE  \A t \in Slots : t # s => cmd'[t].job \notin UserJobs
BY DEF UsersOK, Only

\* A step of the one command at work that changes a table.
LEMMA UserChanges ==
  ASSUME UsersOK, NEW s \in Slots, Only(s), cmd[s].job \in UserJobs, UserCmd(cmd[s])'
  PROVE  /\ \A t \in Slots : UserCmd(cmd[t])'
         /\ \A t, v \in Slots : cmd'[t].job \in UserJobs /\ cmd'[v].job \in UserJobs => t = v
<1>1. \A t \in Slots : t # s => cmd'[t].job \notin UserJobs
  BY UserAlone
<1>2. \A t \in Slots : t # s => UserCmd(cmd[t])'
  BY <1>1 DEF UserCmd, UserJobs
<1> QED BY <1>1, <1>2

\* A command begins while none is at work.
LEMMA UserBegins ==
  ASSUME UsersOK, CmdInv, NEW s \in Slots, NEW job \in UserJobs, NEW arg, Begin(s, job, arg),
         ~Running(UserJobs), UNCHANGED <<acct, reg, subs, units>>
  PROVE  UsersOK'
<1>1. Only(s) /\ cmd'[s].job = job /\ cmd'[s].step = "begin"
  BY BeginCmd
<1>2. \A t \in Slots : t # s => cmd'[t].job \notin UserJobs
  BY <1>1 DEF Running, Only
<1>3. \A t \in Slots : UserCmd(cmd[t])'
  BY <1>1, <1>2 DEF UserCmd, UserJobs
<1>4. \A t, v \in Slots : cmd'[t].job \in UserJobs /\ cmd'[v].job \in UserJobs => t = v
  BY <1>2
<1> QED BY <1>3, <1>4 DEF UsersOK, Blocks

\* add-user takes a range and a block that nobody has.
LEMMA AddKeeps ==
  ASSUME CmdInv, UserInv, NEW s \in Slots, AddStep(s)
  PROVE  UserInv'
<1> SUFFICES ASSUME "users" \notin torn' PROVE UsersOK'
  BY DEF UserInv
<1>0. torn \subseteq torn'
  BY AddKind DEF SkillSide
<1>1. UsersOK
  BY <1>0 DEF UserInv
<1>2. CASE addUser(s)
  BY <1>1, <1>2, UserBegins DEF addUser, Overlap, adminVars, UserJobs
<1>3. CASE useradd(s)
  <2>1. cmd[s].job = "add" /\ cmd[s].step = "begin" /\ UNCHANGED <<reg, subs, units>>
    BY <1>3 DEF useradd, Adding, Doing
  <2>2. CASE Finish(s) /\ UNCHANGED acct
    <3>1. Only(s) /\ cmd'[s].job = "none"
      BY <2>2, FinishCmd
    <3> QED BY <1>1, <2>1, <2>2, <3>1, UserGoes DEF UserCmd, UserJobs
  <2>3. CASE Goto(s, "subids", 0) /\ acct' = acct \cup {cmd[s].arg}
    <3>1. Only(s) /\ cmd'[s].job = "add" /\ cmd'[s].step = "subids" /\ cmd'[s].arg = cmd[s].arg
      BY <2>1, <2>3, GotoCmd
    <3>2. UserCmd(cmd[s])'
      BY <2>3, <3>1 DEF UserCmd
    <3> QED BY <1>1, <2>1, <2>3, <3>1, <3>2, UserChanges DEF UsersOK, UserJobs, Blocks
  <2> QED BY <1>3, <2>2, <2>3 DEF useradd
<1>4. CASE readSubIds(s)
  <2>1. /\ cmd[s].job = "add" /\ cmd[s].step = "subids" /\ UNCHANGED <<acct, reg, subs, units>>
        /\ Goto(s, "append", findNextSubIdStart)
    BY <1>4 DEF readSubIds, Adding, Doing
  <2>2. /\ Only(s) /\ cmd'[s].job = "add" /\ cmd'[s].step = "append" /\ cmd'[s].arg = cmd[s].arg
        /\ cmd'[s].seen = findNextSubIdStart
    BY <2>1, GotoCmd
  <2>3. findNextSubIdStart \in Nat /\ \A line \in subs : line[2] < findNextSubIdStart
    BY <1>1, NextSubId DEF UsersOK
  <2>4. cmd[s].arg \in acct
    BY <1>1, <2>1 DEF UsersOK, UserCmd
  <2>5. UserCmd(cmd'[s])
    BY <2>2, <2>3, <2>4 DEF UserCmd
  <2> QED BY <1>1, <2>1, <2>2, <2>5, UserGoes DEF UserJobs
<1>5. CASE appendSubIds(s)
  <2>1. /\ cmd[s].job = "add" /\ cmd[s].step = "append" /\ UNCHANGED <<acct, reg, units>>
        /\ Goto(s, "files", 0) /\ subs' = subs \cup {<<cmd[s].arg, cmd[s].seen>>}
    BY <1>5 DEF appendSubIds, Adding, Doing
  <2>2. Only(s) /\ cmd'[s].job = "add" /\ cmd'[s].step = "files" /\ cmd'[s].arg = cmd[s].arg
    BY <2>1, GotoCmd
  <2>3. cmd[s].arg \in acct /\ cmd[s].seen \in Nat /\ \A line \in subs : line[2] < cmd[s].seen
    BY <1>1, <2>1 DEF UsersOK, UserCmd
  <2>4. UserCmd(cmd[s])'
    BY <2>1, <2>2, <2>3 DEF UserCmd
  <2>5. PICK new : new = <<cmd[s].arg, cmd[s].seen>>
    OBVIOUS
  <2>6. new[2] \in Nat /\ subs' = subs \cup {new} /\ \A line \in subs : line[2] \in Nat /\ line[2] < new[2]
    BY <1>1, <2>1, <2>3, <2>5 DEF UsersOK
  <2>7. /\ \A line \in subs' : line[2] \in Nat
        /\ \E n \in Nat : \A line \in subs' : line[2] < n
        /\ \A a, b \in subs' : a # b => a[2] # b[2]
    <3>1. \A line \in subs' : line[2] \in Nat /\ line[2] < new[2] + 1
      BY <2>6
    <3>2. new[2] + 1 \in Nat
      BY <2>6
    <3>3. \A a, b \in subs' : a # b => a[2] # b[2]
      BY <1>1, <2>6 DEF UsersOK
    <3> QED BY <3>1, <3>2, <3>3
  <2> QED BY <1>1, <2>1, <2>2, <2>4, <2>7, UserChanges DEF UsersOK, UserJobs, Blocks
<1>6. CASE readRegistry(s)
  <2>1. cmd[s].job = "add" /\ cmd[s].step = "files" /\ UNCHANGED <<acct, reg, subs, units>>
    BY <1>6 DEF readRegistry, Adding, Doing
  <2>2. CASE Finish(s)
    <3>1. Only(s) /\ cmd'[s].job = "none"
      BY <2>2, FinishCmd
    <3> QED BY <1>1, <2>1, <3>1, UserGoes DEF UserCmd, UserJobs
  <2>3. CASE Goto(s, "allocate", reg) /\ cmd[s].arg \notin DOMAIN reg
    <3>1. /\ Only(s) /\ cmd'[s].job = "add" /\ cmd'[s].step = "allocate" /\ cmd'[s].arg = cmd[s].arg
          /\ cmd'[s].seen = reg
      BY <2>1, <2>3, GotoCmd
    <3>2. cmd[s].arg \in acct
      BY <1>1, <2>1 DEF UsersOK, UserCmd
    <3>3. UserCmd(cmd'[s])
      BY <2>3, <3>1, <3>2 DEF UserCmd
    <3> QED BY <1>1, <2>1, <3>1, <3>3, UserGoes DEF UserJobs
  <2> QED BY <1>6, <2>2, <2>3 DEF readRegistry
<1>7. CASE allocate(s)
  <2>1. cmd[s].job = "add" /\ cmd[s].step = "allocate" /\ UNCHANGED <<acct, subs, units>> /\ Goto(s, "unit", 0)
    BY <1>7 DEF allocate, Adding, Doing
  <2>2. Only(s) /\ cmd'[s].job = "add" /\ cmd'[s].step = "unit" /\ cmd'[s].arg = cmd[s].arg
    BY <2>1, GotoCmd
  <2>3. cmd[s].arg \in acct /\ cmd[s].seen = reg /\ cmd[s].arg \notin DOMAIN reg
    BY <1>1, <2>1 DEF UsersOK, UserCmd
  <2>4. PICK u : u = cmd[s].arg
    OBVIOUS
  <2>5. PICK b : b = nextBase(Blocks)
    OBVIOUS
  <2>6. b \in Nat /\ b \notin Blocks
    <3>1. Blocks \in SUBSET Nat /\ IsFiniteSet(Blocks)
      BY <1>1 DEF UsersOK, Blocks
    <3> QED BY <2>5, <3>1, NextBase
  <2>7. reg' = [v \in DOMAIN reg \cup {u} |-> IF v = u THEN b ELSE reg[v]]
    BY <1>7, <2>3, <2>4, <2>5 DEF allocate, Blocks
  <2>8. /\ DOMAIN reg' = DOMAIN reg \cup {u} /\ reg'[u] = b
        /\ \A v \in DOMAIN reg : v # u /\ reg'[v] = reg[v]
    BY <2>3, <2>4, <2>7
  <2>9. UserCmd(cmd[s])'
    BY <2>1, <2>2, <2>3, <2>4, <2>8 DEF UserCmd
  <2>10. /\ \A v \in DOMAIN reg' : reg'[v] \in Nat
         /\ \A v, w \in DOMAIN reg' : v # w => reg'[v] # reg'[w]
    BY <1>1, <2>6, <2>8 DEF UsersOK, Blocks
  <2>11. IsFiniteSet(Blocks')
    <3>1. Blocks' \subseteq Blocks \cup {b}
      BY <2>8 DEF Blocks
    <3>2. IsFiniteSet(Blocks \cup {b})
      BY <1>1, FS_AddElement DEF UsersOK
    <3> QED BY <3>1, <3>2, FS_Subset
  <2>12. DOMAIN reg' \subseteq acct' /\ units' \subseteq DOMAIN reg'
    BY <1>1, <2>1, <2>3, <2>4, <2>8 DEF UsersOK
  <2> QED BY <1>1, <2>1, <2>2, <2>9, <2>10, <2>11, <2>12, UserChanges DEF UsersOK, UserJobs
<1>8. CASE installService(s)
  <2>1. /\ cmd[s].job = "add" /\ cmd[s].step = "unit" /\ UNCHANGED <<acct, reg, subs>> /\ Finish(s)
        /\ units' = units \cup {cmd[s].arg}
    BY <1>8 DEF installService, Adding, Doing
  <2>2. Only(s) /\ cmd'[s].job = "none"
    BY <2>1, FinishCmd
  <2>3. cmd[s].arg \in DOMAIN reg
    BY <1>1, <2>1 DEF UsersOK, UserCmd
  <2>4. UserCmd(cmd[s])'
    BY <2>2 DEF UserCmd
  <2> QED BY <1>1, <2>1, <2>2, <2>3, <2>4, UserChanges DEF UsersOK, UserJobs, Blocks
<1> QED BY <1>2, <1>3, <1>4, <1>5, <1>6, <1>7, <1>8 DEF AddStep

\* remove-user takes the unit away before the block, and the block before the account.
LEMMA RemoveKeeps ==
  ASSUME CmdInv, UserInv, NEW s \in Slots, RemoveStep(s)
  PROVE  UserInv'
<1> SUFFICES ASSUME "users" \notin torn' PROVE UsersOK'
  BY DEF UserInv
<1>0. torn \subseteq torn'
  BY RemoveKind DEF SkillSide
<1>1. UsersOK
  BY <1>0 DEF UserInv
<1>2. CASE removeUser(s)
  BY <1>1, <1>2, UserBegins DEF removeUser, Overlap, adminVars, UserJobs
<1>3. CASE stopContainers(s) \/ stopUser(s)
  <2>1. /\ cmd[s].job = "remove" /\ UNCHANGED <<acct, reg, subs, units>>
        /\ \E step \in {"stop", "stopped", "purge"} : \E seen : Goto(s, step, seen)
    BY <1>3 DEF stopContainers, stopUser, stopService, Doing, adminVars
  <2>2. Only(s) /\ cmd'[s].job = "remove" /\ cmd'[s].step \in {"stop", "stopped", "purge"}
    BY <2>1, GotoCmd
  <2> QED BY <1>1, <2>1, <2>2, UserGoes DEF UserCmd, UserJobs
<1>4. CASE removeResources(s)
  <2>1. /\ cmd[s].job = "remove" /\ UNCHANGED <<acct, reg, subs>> /\ units' = units \ {cmd[s].arg}
        /\ Goto(s, "free", 0)
    BY <1>4 DEF removeResources, Doing
  <2>2. Only(s) /\ cmd'[s].job = "remove" /\ cmd'[s].step = "free" /\ cmd'[s].arg = cmd[s].arg
    BY <2>1, GotoCmd
  <2>3. UserCmd(cmd[s])'
    BY <2>1, <2>2 DEF UserCmd
  <2> QED BY <1>1, <2>1, <2>2, <2>3, UserChanges DEF UsersOK, UserJobs, Blocks
<1>5. CASE readForFree(s)
  <2>1. /\ cmd[s].job = "remove" /\ cmd[s].step = "free" /\ UNCHANGED <<acct, reg, subs, units>>
        /\ Goto(s, IF cmd[s].arg \in DOMAIN reg THEN "splice" ELSE "userdel", reg)
    BY <1>5 DEF readForFree, Doing, adminVars
  <2>2. /\ Only(s) /\ cmd'[s].job = "remove" /\ cmd'[s].arg = cmd[s].arg /\ cmd'[s].seen = reg
        /\ cmd'[s].step = IF cmd[s].arg \in DOMAIN reg THEN "splice" ELSE "userdel"
    BY <2>1, GotoCmd
  <2>3. cmd[s].arg \notin units
    BY <1>1, <2>1 DEF UsersOK, UserCmd
  <2>4. UserCmd(cmd'[s])
    BY <2>2, <2>3 DEF UserCmd
  <2> QED BY <1>1, <2>1, <2>2, <2>4, UserGoes DEF UserJobs
<1>6. CASE free(s)
  <2>1. /\ cmd[s].job = "remove" /\ cmd[s].step = "splice" /\ UNCHANGED <<acct, subs, units>>
        /\ Goto(s, "userdel", 0)
        /\ reg' = [u \in DOMAIN cmd[s].seen \ {cmd[s].arg} |-> cmd[s].seen[u]]
    BY <1>6 DEF free, Doing
  <2>2. Only(s) /\ cmd'[s].job = "remove" /\ cmd'[s].step = "userdel" /\ cmd'[s].arg = cmd[s].arg
    BY <2>1, GotoCmd
  <2>3. cmd[s].arg \notin units /\ cmd[s].seen = reg
    BY <1>1, <2>1 DEF UsersOK, UserCmd
  <2>4. DOMAIN reg' = DOMAIN reg \ {cmd[s].arg} /\ \A u \in DOMAIN reg' : reg'[u] = reg[u]
    BY <2>1, <2>3
  <2>5. UserCmd(cmd[s])'
    BY <2>1, <2>2, <2>3, <2>4 DEF UserCmd
  <2>6. IsFiniteSet(Blocks')
    <3>1. Blocks' \subseteq Blocks
      BY <2>4 DEF Blocks
    <3> QED BY <1>1, <3>1, FS_Subset DEF UsersOK
  <2>7. /\ \A u \in DOMAIN reg' : reg'[u] \in Nat
        /\ \A u, v \in DOMAIN reg' : u # v => reg'[u] # reg'[v]
        /\ DOMAIN reg' \subseteq acct /\ units \subseteq DOMAIN reg'
    BY <1>1, <2>3, <2>4 DEF UsersOK
  <2> QED BY <1>1, <2>1, <2>2, <2>5, <2>6, <2>7, UserChanges DEF UsersOK, UserJobs
<1>7. CASE userdel(s)
  <2>1. /\ cmd[s].job = "remove" /\ cmd[s].step = "userdel" /\ UNCHANGED <<reg, subs, units>>
        /\ Finish(s) /\ acct \ {cmd[s].arg} \subseteq acct'
    BY <1>7 DEF userdel, Doing
  <2>2. Only(s) /\ cmd'[s].job = "none"
    BY <2>1, FinishCmd
  <2>3. cmd[s].arg \notin DOMAIN reg
    BY <1>1, <2>1 DEF UsersOK, UserCmd
  <2>4. UserCmd(cmd[s])'
    BY <2>2 DEF UserCmd
  <2> QED BY <1>1, <2>1, <2>2, <2>3, <2>4, UserChanges DEF UsersOK, UserJobs, Blocks
<1> QED BY <1>2, <1>3, <1>4, <1>5, <1>6, <1>7 DEF RemoveStep

\* A step that changes no user.
LEMMA UserSideKeeps == ASSUME UserInv, UserSide PROVE UserInv'
<1> SUFFICES ASSUME "users" \notin torn' PROVE UsersOK'
  BY DEF UserInv
<1>1. UsersOK
  BY DEF UserInv, UserSide
<1>2. \A t \in Slots : UserCmd(cmd[t])'
  <2> SUFFICES ASSUME NEW t \in Slots PROVE UserCmd(cmd[t])'
    OBVIOUS
  <2>1. CASE cmd'[t] = cmd[t]
    BY <1>1, <2>1 DEF UserSide, UsersOK, UserCmd
  <2>2. CASE cmd'[t].job \notin UserJobs
    BY <2>2 DEF UserCmd, UserJobs
  <2> QED BY <2>1, <2>2 DEF UserSide
<1>3. \A t, v \in Slots : cmd'[t].job \in UserJobs /\ cmd'[v].job \in UserJobs => t = v
  BY <1>1 DEF UserSide, UsersOK
<1> QED BY <1>1, <1>2, <1>3 DEF UserSide, UsersOK, Blocks

\* All steps together.
LEMMA UserStep == CmdInv /\ UserInv /\ [Next]_vars => UserInv'
<1> SUFFICES ASSUME CmdInv, UserInv, [Next]_vars PROVE UserInv'
  OBVIOUS
<1>1. ASSUME NEW s \in Slots, serviceStopped(s) PROVE UserInv'
  <2> SUFFICES ASSUME "users" \notin torn PROVE UsersOK'
    BY <1>1, StoppedKind DEF UserInv
  <2>1. UsersOK
    BY DEF UserInv
  <2>2. CASE cmd[s].job \in UserJobs
    <3>1. Only(s) /\ UNCHANGED <<acct, reg, subs, units>> /\ cmd'[s].job = "remove" /\ cmd'[s].step = "purge"
      BY <1>1, <2>2, StoppedKind DEF UserJobs
    <3> QED BY <2>1, <2>2, <3>1, UserGoes DEF UserCmd
  <2>3. CASE cmd[s].job \notin UserJobs
    <3>1. UserSide
      BY <1>1, <2>3, StoppedKind DEF UserSide, Only
    <3> QED BY <1>1, <3>1, UserSideKeeps, StoppedKind DEF UserInv
  <2> QED BY <2>2, <2>3
<1> QED BY <1>1, UserSideKeeps, AddKeeps, RemoveKeeps, ServicesKind, SetupKind, SkillKind, BackupKind,
           RestoreKind, AbandonKind DEF Next, Steps, AdminStep

-----------------------------------------------------------------------------
(* SkillsBacked.                                                           *)

\* What a skill command that no other overlaps may count on.
SkillCmd(x) ==
  /\ x.job = "install" =>
       /\ x.step # "begin" => Requires[x.arg] \subseteq manifest
       /\ x.step \in {"read", "write"} => x.arg \in dirs
       /\ x.step = "write" => x.seen = manifest
  /\ x.job = "uninstall" /\ x.step # "begin" =>
       /\ x.seen = manifest /\ dependents(x.arg) = {}

\* A skill whose directory has gone and whose line in the manifest goes next.
Leaving == {cmd[s].arg : s \in {t \in Slots : Doing(t, "uninstall", "write")}}

\* SkillsBacked in the middle of a command: the skill being removed may lack its files.
SkillsOK ==
  /\ \A s, t \in Slots : cmd[s].job \in SkillJobs /\ cmd[t].job \in SkillJobs => s = t
  /\ \A s \in Slots : SkillCmd(cmd[s])
  /\ manifest \subseteq dirs \cup Leaving
  /\ \A k \in manifest : Requires[k] \subseteq manifest

\* Which holds unless commands overlapped or an uninstall was cut off.
SkillInv == "skills" \notin torn => SkillsOK

\* A step that changes no skill.
LEMMA SkillSideKeeps == ASSUME SkillInv, SkillSide PROVE SkillInv'
<1> SUFFICES ASSUME "skills" \notin torn' PROVE SkillsOK'
  BY DEF SkillInv
<1>1. SkillsOK
  BY DEF SkillInv, SkillSide
<1>2. \A t \in Slots : SkillCmd(cmd[t])'
  <2> SUFFICES ASSUME NEW t \in Slots PROVE SkillCmd(cmd[t])'
    OBVIOUS
  <2>1. CASE cmd'[t] = cmd[t]
    BY <1>1, <2>1 DEF SkillSide, SkillsOK, SkillCmd, dependents
  <2>2. CASE cmd'[t].job \notin SkillJobs
    BY <2>2 DEF SkillCmd, SkillJobs
  <2> QED BY <2>1, <2>2 DEF SkillSide
<1>3. \A t, v \in Slots : cmd'[t].job \in SkillJobs /\ cmd'[v].job \in SkillJobs => t = v
  BY <1>1 DEF SkillSide, SkillsOK
<1>4. Leaving \subseteq Leaving'
  BY DEF SkillSide, Leaving, Doing
<1> QED BY <1>1, <1>2, <1>3, <1>4 DEF SkillSide, SkillsOK

\* A step of the one command at work.
LEMMA SkillAlone ==
  ASSUME SkillsOK, NEW s \in Slots, Only(s), cmd[s].job \in SkillJobs, SkillCmd(cmd[s])'
  PROVE  /\ \A t \in Slots : SkillCmd(cmd[t])'
         /\ \A t, v \in Slots : cmd'[t].job \in SkillJobs /\ cmd'[v].job \in SkillJobs => t = v
         /\ ~Doing(s, "uninstall", "write") => Leaving = {}
         /\ Leaving \subseteq {cmd[s].arg}
<1>1. \A t \in Slots : t # s => cmd[t].job \notin SkillJobs /\ cmd'[t].job \notin SkillJobs
  BY DEF SkillsOK, Only
<1>2. \A t \in Slots : t # s => SkillCmd(cmd[t])'
  BY <1>1 DEF SkillCmd, SkillJobs
<1>3. \A t \in Slots : Doing(t, "uninstall", "write") => t = s
  BY <1>1 DEF Doing, SkillJobs
<1> QED BY <1>1, <1>2, <1>3 DEF Leaving

\* install and uninstall.
LEMMA SkillKeeps ==
  ASSUME CmdInv, SkillInv, NEW s \in Slots, SkillStep(s), torn \subseteq torn'
  PROVE  SkillInv'
<1> SUFFICES ASSUME "skills" \notin torn' PROVE SkillsOK'
  BY DEF SkillInv
<1>1. SkillsOK
  BY DEF SkillInv
<1>2. CASE installCommand(s) \/ updateCommand(s) \/ uninstallCommand(s)
  <2>1. /\ ~Running(SkillJobs) /\ UNCHANGED <<manifest, dirs>>
        /\ \E job \in SkillJobs : \E k : Begin(s, job, k)
    BY <1>2 DEF installCommand, updateCommand, uninstallCommand, Overlap, skillVars, SkillJobs
  <2>2. Only(s) /\ cmd'[s].step = "begin"
    BY <2>1, BeginCmd
  <2>3. \A t \in Slots : t # s => cmd'[t].job \notin SkillJobs
    BY <2>1, <2>2 DEF Running, Only
  <2>4. \A t \in Slots : SkillCmd(cmd[t])'
    BY <2>2, <2>3 DEF SkillCmd, SkillJobs
  <2>5. Leaving = {}
    BY <2>1 DEF Leaving, Doing, Running, SkillJobs
  <2> QED BY <1>1, <2>1, <2>3, <2>4, <2>5 DEF SkillsOK
<1>3. CASE download(s) \/ readManifest(s) \/ checkDependents(s)
  <2>1. UNCHANGED <<manifest, dirs>> /\ cmd[s].job \in SkillJobs /\ ~Doing(s, "uninstall", "write")
    BY <1>3 DEF download, readManifest, checkDependents, Doing, skillVars, SkillJobs
  <2>2. Only(s) /\ SkillCmd(cmd'[s])
    <3>1. CASE Finish(s)
      BY <3>1, FinishCmd DEF SkillCmd
    <3>2. CASE download(s) /\ Goto(s, "copy", 0)
      <4>1. cmd[s].job = "install" /\ Requires[cmd[s].arg] \subseteq manifest
        BY <3>2, FinishCmd, GotoCmd DEF download, Doing, checkSkillDependencies
      <4> QED BY <3>2, <4>1, GotoCmd DEF SkillCmd
    <3>3. CASE readManifest(s)
      <4>1. /\ cmd[s].job = "install" /\ cmd[s].step = "read" /\ Goto(s, "write", manifest)
            /\ Requires[cmd[s].arg] \subseteq manifest /\ cmd[s].arg \in dirs
        BY <1>1, <3>3 DEF readManifest, Doing, SkillsOK, SkillCmd
      <4> QED BY <4>1, GotoCmd DEF SkillCmd
    <3>4. CASE checkDependents(s) /\ Goto(s, "remove", manifest)
      <4>1. cmd[s].job = "uninstall" /\ dependents(cmd[s].arg) = {}
        BY <3>4, FinishCmd, GotoCmd DEF checkDependents, Doing
      <4> QED BY <3>4, <4>1, GotoCmd DEF SkillCmd
    <3> QED BY <1>3, <3>1, <3>2, <3>3, <3>4 DEF download, checkDependents
  <2>3. SkillCmd(cmd[s])'
    BY <2>1, <2>2 DEF SkillCmd, dependents
  <2> QED BY <1>1, <2>1, <2>2, <2>3, SkillAlone DEF SkillsOK
<1>4. CASE copyDir(s)
  <2>1. /\ cmd[s].job = "install" /\ cmd[s].step = "copy" /\ manifest' = manifest
        /\ dirs' = dirs \cup {cmd[s].arg} /\ Goto(s, "read", 0)
    BY <1>4 DEF copyDir, Doing
  <2>2. Only(s) /\ cmd'[s].job = "install" /\ cmd'[s].step = "read" /\ cmd'[s].arg = cmd[s].arg
    BY <2>1, GotoCmd
  <2>3. SkillCmd(cmd[s])'
    BY <1>1, <2>1, <2>2 DEF SkillCmd, SkillsOK
  <2> QED BY <1>1, <2>1, <2>2, <2>3, SkillAlone DEF SkillsOK, SkillJobs, Doing
<1>5. CASE writeManifest(s)
  <2>1. /\ cmd[s].job = "install" /\ cmd[s].step = "write" /\ dirs' = dirs
        /\ manifest' = cmd[s].seen \cup {cmd[s].arg} /\ Finish(s)
    BY <1>5 DEF writeManifest, Doing
  <2>2. Only(s) /\ cmd'[s].job = "none"
    BY <2>1, FinishCmd
  <2>3. cmd[s].seen = manifest /\ Requires[cmd[s].arg] \subseteq manifest /\ cmd[s].arg \in dirs
    BY <1>1, <2>1 DEF SkillCmd, SkillsOK
  <2>4. SkillCmd(cmd[s])'
    BY <2>2 DEF SkillCmd
  <2> QED BY <1>1, <2>1, <2>2, <2>3, <2>4, SkillAlone DEF SkillsOK, SkillJobs, Doing
<1>6. CASE removeDir(s)
  <2>1. /\ cmd[s].job = "uninstall" /\ cmd[s].step = "remove" /\ manifest' = manifest
        /\ dirs' = dirs \ {cmd[s].arg} /\ Goto(s, "write", cmd[s].seen)
    BY <1>6 DEF removeDir, Doing
  <2>2. /\ Only(s) /\ cmd'[s].job = "uninstall" /\ cmd'[s].step = "write" /\ cmd'[s].arg = cmd[s].arg
        /\ cmd'[s].seen = cmd[s].seen
    BY <2>1, GotoCmd
  <2>3. SkillCmd(cmd[s])'
    BY <1>1, <2>1, <2>2 DEF SkillCmd, SkillsOK, dependents
  <2>4. cmd[s].arg \in Leaving'
    BY <2>2 DEF Leaving, Doing
  <2> QED BY <1>1, <2>1, <2>2, <2>3, <2>4, SkillAlone DEF SkillsOK, SkillJobs, Doing
<1>7. CASE spliceManifest(s)
  <2>1. /\ cmd[s].job = "uninstall" /\ cmd[s].step = "write" /\ dirs' = dirs
        /\ manifest' = cmd[s].seen \ {cmd[s].arg} /\ Finish(s)
    BY <1>7 DEF spliceManifest, Doing
  <2>2. Only(s) /\ cmd'[s].job = "none"
    BY <2>1, FinishCmd
  <2>3. cmd[s].seen = manifest /\ \A k \in manifest \ {cmd[s].arg} : cmd[s].arg \notin Requires[k]
    BY <1>1, <2>1 DEF SkillCmd, SkillsOK, dependents
  <2>4. SkillCmd(cmd[s])'
    BY <2>2 DEF SkillCmd
  <2> QED BY <1>1, <2>1, <2>2, <2>3, <2>4, SkillAlone DEF SkillsOK, SkillJobs
<1> QED BY <1>2, <1>3, <1>4, <1>5, <1>6, <1>7 DEF SkillStep

\* All steps together.
LEMMA SkillsStep == CmdInv /\ SkillInv /\ [Next]_vars => SkillInv'
<1> SUFFICES ASSUME CmdInv, SkillInv, [Next]_vars PROVE SkillInv'
  OBVIOUS
<1>1. ASSUME NEW s \in Slots, SkillStep(s), UNCHANGED adminVars PROVE SkillInv'
  BY <1>1, SkillKeeps, SkillKind DEF UserSide
<1>2. ASSUME NEW s \in Slots, RestoreStep(s) \/ Abandon(s) PROVE SkillInv'
  BY <1>2, SkillSideKeeps, RestoreKind, AbandonKind DEF SkillInv
<1> QED BY <1>1, <1>2, SkillSideKeeps, ServicesKind, SetupKind, BackupKind, StoppedKind, AddKind, RemoveKind
        DEF Next, Steps, AdminStep

-----------------------------------------------------------------------------
\* At first no command is under way, and two users have a block each.
LEMMA CommandsInit == Init => CmdInv /\ UserInv /\ SkillInv
<1> SUFFICES ASSUME Init PROVE CmdInv /\ UserInv /\ SkillInv
  OBVIOUS
<1>1. CmdInv /\ \A s \in Slots : cmd[s].job = "none"
  BY DEF Init, CmdInv, CmdOK, NoCommand
<1>2. UsersOK
  <2>1. PICK other : /\ acct = {Me, other} /\ units = acct /\ reg = [u \in acct |-> IF u = Me THEN 0 ELSE 1]
                     /\ subs = {<<Me, 0>>, <<other, 1>>}
    BY DEF Init
  <2>2. Blocks \subseteq 0..1 /\ DOMAIN reg = acct
    BY <2>1 DEF Blocks
  <2>3. IsFiniteSet(Blocks)
    <3>1. 0 \in Int /\ 1 \in Int
      OBVIOUS
    <3>2. IsFiniteSet(0..1)
      BY <3>1, FS_Interval, Zenon
    <3> QED BY <2>2, <3>2, FS_Subset
  <2>4. \A line \in subs : line[2] \in Nat /\ line[2] < 2
    BY <2>1
  <2>5. \A a, b \in subs : a # b => a[2] # b[2]
    BY <2>1
  <2>6. /\ \A u \in DOMAIN reg : reg[u] \in Nat
        /\ \A u, v \in DOMAIN reg : u # v => reg[u] # reg[v]
    BY <2>1
  <2>7. \A s \in Slots : UserCmd(cmd[s])
    BY <1>1 DEF UserCmd
  <2>8. \A s, t \in Slots : cmd[s].job \in UserJobs /\ cmd[t].job \in UserJobs => s = t
    BY <1>1 DEF UserJobs
  <2> QED BY <2>1, <2>2, <2>3, <2>4, <2>5, <2>6, <2>7, <2>8 DEF UsersOK
<1>3. SkillsOK
  <2>1. manifest = dirs /\ manifest \in {{}, Skills}
    BY DEF Init, Live, Fresh
  <2>2. \A k \in manifest : Requires[k] \subseteq manifest
    BY <2>1, SetupAssumption
  <2>3. \A s \in Slots : SkillCmd(cmd[s])
    BY <1>1 DEF SkillCmd
  <2>4. \A s, t \in Slots : cmd[s].job \in SkillJobs /\ cmd[t].job \in SkillJobs => s = t
    BY <1>1 DEF SkillJobs
  <2> QED BY <2>1, <2>2, <2>3, <2>4 DEF SkillsOK
<1> QED BY <1>1, <1>2, <1>3 DEF UserInv, SkillInv

\* For any number of accounts and of add-user and remove-user commands, one after the
\* other and possibly cut off anywhere, no two users share a port block or a sub-id range,
\* and units, blocks and accounts are nested (addUser(), removeUser(), PortRegistry).
THEOREM UsersApartHolds == Spec => []UsersApart
<1>1. UserInv => UsersApart
  BY DEF UserInv, UsersOK, UsersApart
<1> QED BY <1>1, CommandsInit, CmdStep, UserStep, PTL DEF Spec

\* For any skills and requirements, every skill in the manifest has its files and what it
\* requires whenever no skill command is at work (SkillStore.install() and remove()).
THEOREM SkillsBackedHolds == Spec => []SkillsBacked
<1>1. SkillInv => SkillsBacked
  BY DEF SkillInv, SkillsOK, SkillsBacked, Leaving, Running, Doing, SkillJobs
<1> QED BY <1>1, CommandsInit, CmdStep, SkillsStep, PTL DEF Spec

-----------------------------------------------------------------------------
(* CleanExit.                                                              *)

\* What main() registers for the shutdown.
Parts == {"lifecycle", "proxy", "db", "database", "channel", "service", "orchestrator"}

\* The types the process counts on.
RunTypes ==
  /\ DOMAIN ctr = Names /\ DOMAIN hc = Managed /\ armed \subseteq Managed
  /\ DOMAIN main = {"at", "op"} /\ main.at \in 0..9
  /\ regd \in Seq(Parts)
  /\ DOMAIN sd = {"op", "todo", "seen"} /\ sd.todo \in Seq(Parts)
  /\ quiet \in BOOLEAN

\* main() registers the lifecycle first and once, the database with stage 4,
\* and a manager before its timer is armed.
RegInv ==
  /\ main.at <= 1 => regd = <<>>
  /\ main.at > 1 => Len(regd) >= 1 /\ regd[1] = "lifecycle"
  /\ \A i \in 2..Len(regd) : regd[i] # "lifecycle"
  /\ main.at > 4 => Contains(regd, "db")
  /\ \A c \in armed : Contains(regd, c)
  /\ \A c \in Managed : hc[c] # "idle" => Contains(regd, c)
  /\ sd.op = "off" => \A c \in Managed : hc[c] # "idle" => c \in armed

\* The shutdown stops the lifecycle last.
LastIsLifecycle(todo) ==
  todo # <<>> => /\ todo[Len(todo)] = "lifecycle"
                 /\ \A i \in 1..(Len(todo) - 1) : todo[i] # "lifecycle"

\* What has been done so far by a shutdown that nothing disturbs.
QuietOK ==
  /\ main.at = 9 /\ sd.op # "off"
  /\ \A c \in Managed : hc[c] = "idle"
  /\ \A c \in armed : Up(c) /\ Contains(sd.todo, c)
  /\ LastIsLifecycle(sd.todo)
  /\ sd.op = "purge" /\ sd.todo # <<>> => Head(sd.todo) \notin armed
  /\ Contains(sd.todo, "db") \/ ~Up("db")
  /\ sd.todo = <<>> => \A c \in Names \ {"db"} : ctr[c] = "none"
  /\ sd.op = "purge" /\ Stopping("lifecycle") => \A c \in Names \ {"db"} : ctr[c] # "none" => c \in sd.seen

\* quiet, the flag of CleanExit, means what it says.
QuietInv == quiet => QuietOK

RunInv == RunTypes /\ RegInv /\ QuietInv

\* The stages of main().
LEMMA StagesAre ==
  /\ Len(Stages) = 8 /\ DOMAIN Stages = 1..8
  /\ Stages[1] = "lifecycle" /\ \A i \in 2..8 : Stages[i] # "lifecycle"
  /\ Stages[4] = "db" /\ \A i \in 1..8 : Stages[i] = "db" => i = 4
BY DEF Stages

-----------------------------------------------------------------------------
\* The steps of others keep RunInv: they do not touch the process, or they end the quiet.
LEMMA UntouchedKeeps ==
  ASSUME RunInv, UNCHANGED <<ctr, main, regd, sd, armed, hc, quiet>>
  PROVE  RunInv'
BY DEF RunInv, RunTypes, RegInv, QuietInv, QuietOK, Up, Stopping, LastIsLifecycle

LEMMA DisturbedKeeps ==
  ASSUME RunInv, UNCHANGED <<main, regd, sd, armed, hc>>, quiet' = FALSE, DOMAIN ctr' = Names
  PROVE  RunInv'
BY DEF RunInv, RunTypes, RegInv, QuietInv

\* The process ends.
LEMMA ExitKeeps ==
  ASSUME RunInv, Exit, DOMAIN ctr' = Names
  PROVE  RunInv'
<1>1. /\ main' = Down /\ regd' = <<>> /\ sd' = Off /\ armed' = {} /\ hc' = Idle /\ quiet' = FALSE
  BY DEF Exit
<1>2. RunTypes'
  <2>1. DOMAIN main' = {"at", "op"} /\ main'.at = 0
    BY <1>1 DEF Down
  <2>2. DOMAIN sd' = {"op", "todo", "seen"} /\ sd'.todo = <<>>
    BY <1>1 DEF Off
  <2>3. <<>> \in Seq(Parts) /\ DOMAIN hc' = Managed
    BY <1>1 DEF Idle
  <2>4. armed' \subseteq Managed /\ main'.at \in 0..9
    BY <1>1, <2>1
  <2>6. quiet' \in BOOLEAN
    BY <1>1, Zenon
  <2>5. regd' \in Seq(Parts) /\ sd'.todo \in Seq(Parts)
    BY <1>1, <2>2, <2>3
  <2> QED BY <2>1, <2>2, <2>3, <2>4, <2>5, <2>6 DEF RunTypes
<1>3. RegInv'
  BY <1>1 DEF RegInv, Down, Off, Idle
<1> QED BY <1>1, <1>2, <1>3 DEF RunInv, QuietInv

\* The reverse of what is registered has the lifecycle at its end.
LEMMA Reversed ==
  ASSUME RunTypes, RegInv, main.at = 9, NEW todo, todo = Reverse(regd)
  PROVE  /\ todo \in Seq(Parts) /\ todo # <<>> /\ LastIsLifecycle(todo)
         /\ \A c : Contains(regd, c) => Contains(todo, c)
<1>1. /\ regd \in Seq(Parts) /\ Len(regd) \in Nat /\ Len(regd) >= 1 /\ regd[1] = "lifecycle"
      /\ \A i \in 2..Len(regd) : regd[i] # "lifecycle"
  BY DEF RunTypes, RegInv
<1>2. todo = [i \in 1..Len(regd) |-> regd[(Len(regd) - i) + 1]]
  BY DEF Reverse
<1>3. \A i \in 1..Len(regd) : (Len(regd) - i) + 1 \in 1..Len(regd) /\ regd[(Len(regd) - i) + 1] \in Parts
  BY <1>1
<1>4. todo \in Seq(Parts) /\ Len(todo) = Len(regd)
  BY <1>1, <1>2, <1>3
<1>5. todo # <<>>
  BY <1>1, <1>4
<1>6. todo[Len(todo)] = "lifecycle" /\ \A i \in 1..(Len(todo) - 1) : todo[i] # "lifecycle"
  BY <1>1, <1>2, <1>4
<1>7. ASSUME NEW c, NEW i \in 1..Len(regd), regd[i] = c PROVE Contains(todo, c)
  <2>1. (Len(regd) - i) + 1 \in 1..Len(todo) /\ todo[(Len(regd) - i) + 1] = regd[i]
    BY <1>1, <1>2, <1>4
  <2> QED BY <1>7, <2>1 DEF Contains
<1> QED BY <1>4, <1>5, <1>6, <1>7 DEF Contains, LastIsLifecycle

\* The process is asked to stop: the shutdown begins, or goes on.
LEMMA TerminatedKeeps ==
  ASSUME RunInv, Terminated, UNCHANGED <<ctr, main, regd, armed, hc>>
  PROVE  RunInv'
<1>1. CASE main.at = 0 \/ sd.op # "off"
  BY <1>1, UntouchedKeeps DEF Terminated
<1>2. CASE main.at # 0 /\ sd.op = "off"
  <2>1. PICK todo : todo = Reverse(regd)
    OBVIOUS
  <2>2. /\ sd' = [op |-> "next", todo |-> todo, seen |-> {}]
        /\ quiet' = (Ready /\ \A c \in armed : Up(c) /\ hc[c] = "idle")
    BY <1>2, <2>1 DEF Terminated
  <2>3. sd'.op = "next" /\ sd'.todo = todo /\ DOMAIN sd' = {"op", "todo", "seen"} /\ quiet' \in BOOLEAN
    BY <2>2
  <2>4. todo \in Seq(Parts)
    <3>1. todo = [i \in 1..Len(regd) |-> regd[(Len(regd) - i) + 1]]
      BY <2>1 DEF Reverse
    <3>2. \A i \in 1..Len(regd) : regd[(Len(regd) - i) + 1] \in Parts
      BY DEF RunInv, RunTypes
    <3>3. Len(regd) \in Nat
      BY DEF RunInv, RunTypes
    <3> QED BY <3>1, <3>2, <3>3
  <2>5. RunTypes' /\ RegInv'
    BY <2>3, <2>4 DEF RunInv, RunTypes, RegInv
  <2>6. ASSUME quiet' PROVE QuietOK'
    <3>1. main.at = 9 /\ \A c \in armed : Up(c) /\ hc[c] = "idle"
      <4>1. Ready /\ \A c \in armed : Up(c) /\ hc[c] = "idle"
        BY <2>2, <2>6, Zenon
      <4> QED BY <4>1, StagesAre DEF Ready
    <3>2. /\ todo # <<>> /\ LastIsLifecycle(todo) /\ \A c : Contains(regd, c) => Contains(todo, c)
      BY <2>1, <3>1, Reversed DEF RunInv
    <3>3. \A c \in Managed : hc[c] = "idle"
      BY <1>2, <3>1 DEF RunInv, RegInv
    <3>4. Contains(todo, "db") /\ \A c \in armed : Contains(todo, c)
      BY <3>1, <3>2 DEF RunInv, RegInv
    <3> QED BY <2>3, <3>1, <3>2, <3>3, <3>4 DEF QuietOK, Up
  <2> QED BY <2>5, <2>6 DEF RunInv, QuietInv
<1> QED BY <1>1, <1>2

-----------------------------------------------------------------------------
(* The calls of the managers.                                              *)

\* No call makes or loses a name, and only the container at hand changes.
LEMMA CallNames ==
  ASSUME RunTypes, NEW c \in Names, NEW op, NEW next, Call(c, op, next)
  PROVE  DOMAIN ctr' = Names
<1>1. UNCHANGED ctr \/ \E state : ctr' = [ctr EXCEPT ![c] = state]
  BY DEF Call, Fails, remove, create, start, Set, waitForHealth
<1> QED BY <1>1 DEF RunTypes

\* A shutdown that lists containers keeps its place.
LEMMA RelistedTypes ==
  ASSUME RunTypes, NEW c, NEW op, NEW next, sd' = Relisted(c, op, next)
  PROVE  DOMAIN sd' = {"op", "todo", "seen"} /\ sd'.op = sd.op /\ sd'.todo = sd.todo
BY DEF Relisted, RunTypes

\* A component is registered: main() goes on to the next stage.
LEMMA Registered ==
  ASSUME RunTypes, RegInv, NEW stage \in Parts, registerComponent(stage),
         main.at \in 1..8, Stages[main.at] = stage
  PROVE  /\ DOMAIN main' = {"at", "op"} /\ main'.at = main.at + 1 /\ main'.at \in 2..9
         /\ regd' \in Seq(Parts) /\ Contains(regd', stage)
         /\ \A c : Contains(regd, c) => Contains(regd', c)
         /\ Len(regd') >= 1 /\ regd'[1] = "lifecycle"
         /\ \A i \in 2..Len(regd') : regd'[i] # "lifecycle"
         /\ main'.at > 4 => Contains(regd', "db")
<1>1. main' = [at |-> main.at + 1, op |-> "check"] /\ regd' = Append(regd, stage)
  BY DEF registerComponent
<1>2. /\ regd \in Seq(Parts) /\ Len(regd) \in Nat
      /\ regd' \in Seq(Parts) /\ Len(regd') = Len(regd) + 1 /\ regd'[Len(regd) + 1] = stage
      /\ \A i \in 1..Len(regd) : regd'[i] = regd[i]
  BY <1>1 DEF RunTypes
<1>3. DOMAIN main' = {"at", "op"} /\ main'.at = main.at + 1 /\ main'.at \in 2..9
  BY <1>1
<1>4. Contains(regd', stage)
  BY <1>2 DEF Contains
<1>5. \A c : Contains(regd, c) => Contains(regd', c)
  BY <1>2 DEF Contains
<1>6. CASE main.at = 1
  <2>1. regd = <<>> /\ Len(regd) = 0 /\ stage = "lifecycle"
    BY <1>6, StagesAre DEF RegInv
  <2> QED BY <1>2, <1>3, <1>4, <1>5, <1>6, <2>1
<1>7. CASE main.at > 1
  <2>1. stage # "lifecycle" /\ Len(regd) >= 1 /\ regd[1] = "lifecycle"
        /\ \A i \in 2..Len(regd) : regd[i] # "lifecycle"
    BY <1>7, StagesAre DEF RegInv
  <2>2. regd'[1] = "lifecycle" /\ \A i \in 2..Len(regd') : regd'[i] # "lifecycle"
    BY <1>2, <2>1
  <2>3. main'.at > 4 => Contains(regd', "db")
    <3>1. CASE main.at = 4
      BY <1>4, <3>1, StagesAre
    <3>2. CASE main.at > 4
      BY <1>5, <3>2 DEF RegInv
    <3>3. CASE main.at < 4
      BY <1>3, <3>3
    <3> QED BY <3>1, <3>2, <3>3
  <2> QED BY <1>2, <1>3, <1>4, <1>5, <2>1, <2>2, <2>3
<1> QED BY <1>6, <1>7

\* A stage ends with its component registered; a manager also arms its timer.
LEMMA RegisterKeeps ==
  ASSUME RunInv, NEW stage \in Parts, registerComponent(stage),
         main.at \in 1..8, Stages[main.at] = stage,
         armed' = armed \/ (stage \in Managed /\ armed' = armed \cup {stage}),
         UNCHANGED <<sd, hc, quiet>>, DOMAIN ctr' = Names
  PROVE  RunInv'
<1>1. /\ DOMAIN main' = {"at", "op"} /\ main'.at = main.at + 1 /\ main'.at \in 2..9
      /\ regd' \in Seq(Parts) /\ Contains(regd', stage)
      /\ \A c : Contains(regd, c) => Contains(regd', c)
      /\ Len(regd') >= 1 /\ regd'[1] = "lifecycle"
      /\ \A i \in 2..Len(regd') : regd'[i] # "lifecycle"
      /\ main'.at > 4 => Contains(regd', "db")
  BY Registered DEF RunInv
<1>2. RunTypes'
  BY <1>1 DEF RunInv, RunTypes
<1>3. RegInv'
  BY <1>1 DEF RunInv, RegInv
<1>4. ~quiet
  BY DEF RunInv, QuietInv, QuietOK
<1> QED BY <1>2, <1>3, <1>4 DEF RunInv, QuietInv

\* main() goes on without a component of its own.
LEMMA SkipKeeps ==
  ASSUME RunInv, main' = [at |-> main.at + 1, op |-> "check"],
         main.at \in 2..8, main.at # 4,
         UNCHANGED <<ctr, regd, sd, armed, hc, quiet>>
  PROVE  RunInv'
<1>1. DOMAIN main' = {"at", "op"} /\ main'.at = main.at + 1 /\ main'.at \in 3..9
  OBVIOUS
<1>2. RunTypes'
  BY <1>1 DEF RunInv, RunTypes
<1>3. RegInv'
  BY <1>1 DEF RunInv, RegInv
<1>4. ~quiet
  BY DEF RunInv, QuietInv, QuietOK
<1> QED BY <1>2, <1>3, <1>4 DEF RunInv, QuietInv

\* main() goes on to the next call of the same stage.
LEMMA CalledKeeps ==
  ASSUME RunInv, NEW op, main' = [main EXCEPT !.op = op], main.at \in 1..8,
         DOMAIN sd' = {"op", "todo", "seen"}, sd'.op = sd.op, sd'.todo = sd.todo,
         DOMAIN ctr' = Names, UNCHANGED <<regd, armed, hc, quiet>>
  PROVE  RunInv'
<1>1. DOMAIN main' = {"at", "op"} /\ main'.at = main.at
  BY DEF RunInv, RunTypes
<1>2. RunTypes'
  BY <1>1 DEF RunInv, RunTypes
<1>3. RegInv'
  BY <1>1 DEF RunInv, RegInv
<1>4. ~quiet
  BY DEF RunInv, QuietInv, QuietOK
<1> QED BY <1>2, <1>3, <1>4 DEF RunInv, QuietInv

\* A manager creates, starts and waits for its container.
LEMMA ManagingKeeps ==
  ASSUME RunInv, NEW c \in Managed \cup {"db"}, At(c), Managing(c)
  PROVE  RunInv'
<1>1. main.at \in 1..8 /\ Stages[main.at] = c /\ c \in Names /\ c \in Parts
  BY StagesAre DEF At, Managed, Names, Parts
<1>2. PICK next \in Calls :
        /\ Call(c, main.op, next)
        /\ \/ next = "fail" /\ Exit
           \/ /\ next = "done" /\ registerComponent(c)
              /\ armed' = armed \cup ({c} \cap Managed)
              /\ UNCHANGED <<sd, hc, boot, quiet>>
           \/ /\ next \notin {"done", "fail"} /\ main' = [main EXCEPT !.op = next]
              /\ sd' = Relisted(c, main.op, next)
              /\ UNCHANGED <<regd, armed, hc, boot, quiet>>
  BY DEF Managing
<1>3. DOMAIN ctr' = Names
  BY <1>1, <1>2, CallNames DEF RunInv
<1>4. CASE Exit
  BY <1>3, <1>4, ExitKeeps
<1>5. CASE /\ registerComponent(c) /\ armed' = armed \cup ({c} \cap Managed)
           /\ UNCHANGED <<sd, hc, boot, quiet>>
  <2>1. armed' = armed \/ (c \in Managed /\ armed' = armed \cup {c})
    BY <1>5
  <2> QED BY <1>1, <1>3, <1>5, <2>1, RegisterKeeps
<1>6. CASE /\ main' = [main EXCEPT !.op = next] /\ sd' = Relisted(c, main.op, next)
           /\ UNCHANGED <<regd, armed, hc, boot, quiet>>
  <2>1. DOMAIN sd' = {"op", "todo", "seen"} /\ sd'.op = sd.op /\ sd'.todo = sd.todo
    BY <1>6, RelistedTypes DEF RunInv
  <2> QED BY <1>1, <1>3, <1>6, <2>1, CalledKeeps
<1> QED BY <1>2, <1>4, <1>5, <1>6

\* main(), stage by stage.
LEMMA MainKeeps ==
  ASSUME RunInv, MainStep
  PROVE  RunInv'
<1>1. CASE StartLifecycle
  <2>1. At("lifecycle") /\ registerComponent("lifecycle") /\ UNCHANGED <<sd, armed, hc, quiet>>
    BY <1>1 DEF StartLifecycle
  <2>2. DOMAIN ctr' = Names
    BY <1>1 DEF StartLifecycle, cleanupOrphans, RunInv, RunTypes
  <2> QED BY <2>1, <2>2, StagesAre, RegisterKeeps DEF At, Parts
<1>2. CASE StartSecrets
  <2>1. At("secrets") /\ main' = [at |-> main.at + 1, op |-> "check"]
        /\ UNCHANGED <<ctr, regd, sd, armed, hc, quiet>>
    BY <1>2 DEF StartSecrets
  <2>2. main.at \in 2..8 /\ main.at # 4
    BY <2>1, StagesAre DEF At
  <2> QED BY <2>1, <2>2, SkipKeeps
<1>3. CASE StartDatabase
  <2>1. At("database") /\ UNCHANGED ctr /\ DOMAIN ctr' = Names
    BY <1>3 DEF StartDatabase, RunInv, RunTypes
  <2>2. CASE Exit
    BY <2>1, <2>2, ExitKeeps
  <2>3. CASE registerComponent("database") /\ UNCHANGED <<sd, armed, hc, boot, quiet>>
    BY <2>1, <2>3, StagesAre, RegisterKeeps DEF At, Parts
  <2> QED BY <1>3, <2>2, <2>3 DEF StartDatabase
<1>4. CASE StartProxy \/ StartPostgres
  BY <1>4, ManagingKeeps DEF StartProxy, StartPostgres, Managed
<1>5. ASSUME NEW c \in {"channel", "service"}, At(c), Managing(c) \/ Skip(c) PROVE RunInv'
  <2>1. CASE Managing(c)
    BY <1>5, <2>1, ManagingKeeps DEF Managed
  <2>2. CASE Skip(c)
    <3>1. main.at \in 2..8 /\ main.at # 4
      BY <1>5, StagesAre DEF At
    <3> QED BY <2>2, <3>1, SkipKeeps DEF Skip
  <2> QED BY <1>5, <2>1, <2>2
<1>6. CASE StartOrchestrator
  <2>1. At("orchestrator") /\ registerComponent("orchestrator") /\ UNCHANGED <<ctr, sd, armed, hc, quiet>>
    BY <1>6 DEF StartOrchestrator
  <2>2. DOMAIN ctr' = Names
    BY <2>1 DEF RunInv, RunTypes
  <2> QED BY <2>1, <2>2, StagesAre, RegisterKeeps DEF At, Parts
<1> QED BY <1>1, <1>2, <1>3, <1>4, <1>5, <1>6 DEF MainStep, StartChannel, StartService

\* systemd starts the process.
LEMMA StartKeeps ==
  ASSUME RunInv, SystemdStart
  PROVE  RunInv'
<1>1. /\ main.at = 0 /\ main' = [Down EXCEPT !.at = 1]
      /\ UNCHANGED <<ctr, regd, sd, armed, hc, quiet>>
  BY DEF SystemdStart
<1>2. DOMAIN main' = {"at", "op"} /\ main'.at = 1
  BY <1>1 DEF Down
<1>3. RunTypes' /\ RegInv' /\ ~quiet
  BY <1>1, <1>2 DEF RunInv, RunTypes, RegInv, QuietInv, QuietOK
<1> QED BY <1>1, <1>3 DEF RunInv, QuietInv

\* No manager sees a dead container in a quiet shutdown.
LEMMA HealthKeeps ==
  ASSUME RunInv, NEW c \in Managed, HealthStep(c)
  PROVE  RunInv'
<1>1. ASSUME NEW first, healthCheck(c, first) PROVE RunInv'
  <2>1. /\ c \in armed /\ hc[c] = "idle" /\ ~Up(c) /\ hc' = [hc EXCEPT ![c] = first]
        /\ UNCHANGED <<ctr, main, regd, sd, armed, quiet>>
    BY <1>1 DEF healthCheck
  <2>2. DOMAIN hc' = Managed /\ \A d \in Managed : d # c => hc'[d] = hc[d]
    BY <2>1 DEF RunInv, RunTypes
  <2>3. RunTypes'
    BY <2>1, <2>2 DEF RunInv, RunTypes
  <2>4. RegInv'
    BY <2>1, <2>2 DEF RunInv, RegInv
  <2>5. ~quiet
    BY <2>1 DEF RunInv, QuietInv, QuietOK
  <2> QED BY <2>1, <2>3, <2>4, <2>5 DEF RunInv, QuietInv
<1>2. CASE Restarting(c)
  <2>1. PICK next \in Calls :
          /\ Call(c, hc[c], next)
          /\ \E step : hc' = [hc EXCEPT ![c] = step]
          /\ armed' = armed \/ armed' = armed \cup {c}
          /\ sd' = Relisted(c, hc[c], next)
    BY <1>2 DEF Restarting
  <2>2. hc[c] # "idle" /\ UNCHANGED <<main, regd, quiet>>
    BY <1>2 DEF Restarting
  <2>3. DOMAIN ctr' = Names
    BY <2>1, CallNames DEF RunInv, Names
  <2>4. DOMAIN sd' = {"op", "todo", "seen"} /\ sd'.op = sd.op /\ sd'.todo = sd.todo
    BY <2>1, RelistedTypes DEF RunInv
  <2>5. DOMAIN hc' = Managed /\ \A d \in Managed : d # c => hc'[d] = hc[d]
    BY <2>1 DEF RunInv, RunTypes
  <2>6. RunTypes'
    BY <2>1, <2>2, <2>3, <2>4, <2>5 DEF RunInv, RunTypes
  <2>7. RegInv'
    BY <2>1, <2>2, <2>4, <2>5 DEF RunInv, RegInv
  <2>8. ~quiet
    BY <2>2 DEF RunInv, QuietInv, QuietOK
  <2> QED BY <2>2, <2>6, <2>7, <2>8 DEF RunInv, QuietInv
<1> QED BY <1>1, <1>2 DEF HealthStep, ProxyHealthCheck, ChannelHealthCheck, ServiceHealthCheck

-----------------------------------------------------------------------------
(* shutdown() *)

\* What is left to stop when the first has been.
LEMMA TailKeeps ==
  ASSUME NEW todo \in Seq(Parts), todo # <<>>, LastIsLifecycle(todo)
  PROVE  /\ Tail(todo) \in Seq(Parts) /\ LastIsLifecycle(Tail(todo))
         /\ \A c : Contains(todo, c) /\ Head(todo) # c => Contains(Tail(todo), c)
         /\ Tail(todo) = <<>> <=> Head(todo) = "lifecycle"
<1>1. /\ Len(todo) \in Nat /\ Len(todo) >= 1 /\ Head(todo) = todo[1]
      /\ Tail(todo) \in Seq(Parts) /\ Len(Tail(todo)) = Len(todo) - 1
      /\ \A i \in 1..(Len(todo) - 1) : Tail(todo)[i] = todo[i + 1]
  OBVIOUS
<1>2. LastIsLifecycle(Tail(todo))
  BY <1>1 DEF LastIsLifecycle
<1>3. ASSUME NEW c, NEW i \in 1..Len(todo), todo[i] = c, Head(todo) # c
      PROVE  Contains(Tail(todo), c)
  <2>1. i - 1 \in 1..Len(Tail(todo)) /\ Tail(todo)[i - 1] = c
    BY <1>1, <1>3
  <2> QED BY <2>1 DEF Contains
<1>4. Tail(todo) = <<>> <=> Len(todo) = 1
  <2>1. \A s \in Seq(Parts) : Len(s) = 0 <=> s = <<>>
    OBVIOUS
  <2>2. Len(Tail(todo)) = 0 <=> Len(todo) = 1
    BY <1>1
  <2> QED BY <1>1, <2>1, <2>2
<1>5. Len(todo) = 1 <=> Head(todo) = "lifecycle"
  BY <1>1 DEF LastIsLifecycle
<1> QED BY <1>1, <1>2, <1>3, <1>4, <1>5 DEF Contains

\* The component that is stopped is a registered one.
LEMMA NextTypes ==
  ASSUME RunTypes, sd.todo # <<>>, NextComponent
  PROVE  /\ DOMAIN sd' = {"op", "todo", "seen"} /\ sd'.op = "next" /\ sd'.todo = Tail(sd.todo)
         /\ sd'.todo \in Seq(Parts)
BY DEF NextComponent, RunTypes

\* A manager stops and removes its container, then the next component is at hand.
LEMMA StopManagedKeeps ==
  ASSUME RunInv, NEW c \in Managed, StopManaged(c)
  PROVE  RunInv'
<1>1. sd.op # "off" /\ sd.todo # <<>> /\ Head(sd.todo) = c /\ UNCHANGED <<main, regd, hc>> /\ c # "lifecycle" /\ c # "db"
  BY DEF StopManaged, Stopping, Managed
<1>2. CASE /\ sd.op = "next" /\ armed' = armed \ {c} /\ UNCHANGED <<ctr, quiet>>
           /\ sd' = [sd EXCEPT !.op = "purge"]
  <2>1. DOMAIN sd' = {"op", "todo", "seen"} /\ sd'.op = "purge" /\ sd'.todo = sd.todo
    BY <1>2 DEF RunInv, RunTypes
  <2>2. RunTypes' /\ RegInv'
    BY <1>1, <1>2, <2>1 DEF RunInv, RunTypes, RegInv
  <2>3. ASSUME quiet PROVE QuietOK'
    BY <1>1, <1>2, <2>1, <2>3 DEF RunInv, QuietInv, QuietOK, Up, Stopping, LastIsLifecycle
  <2> QED BY <1>2, <2>2, <2>3 DEF RunInv, QuietInv
<1>3. CASE /\ NextComponent /\ c \notin armed' /\ armed' \subseteq armed
           /\ quiet' = quiet /\ DOMAIN ctr' = Names
           /\ \A d \in Names : d # c => ctr'[d] = ctr[d]
  <2>1. /\ DOMAIN sd' = {"op", "todo", "seen"} /\ sd'.op = "next" /\ sd'.todo = Tail(sd.todo)
        /\ sd'.todo \in Seq(Parts)
    BY <1>1, <1>3, NextTypes DEF RunInv
  <2>2. RunTypes' /\ RegInv'
    BY <1>1, <1>3, <2>1 DEF RunInv, RunTypes, RegInv
  <2>3. ASSUME quiet PROVE QuietOK'
    <3>1. QuietOK
      BY <2>3 DEF RunInv, QuietInv
    <3>2. /\ LastIsLifecycle(sd'.todo) /\ sd'.todo # <<>>
          /\ \A d : Contains(sd.todo, d) /\ Head(sd.todo) # d => Contains(sd'.todo, d)
      BY <1>1, <2>1, <3>1, TailKeeps DEF RunInv, RunTypes, QuietOK
    <3>3. \A d \in armed' : ctr'[d] = "running" /\ Contains(sd'.todo, d)
      BY <1>1, <1>3, <3>1, <3>2 DEF QuietOK, RunInv, RunTypes, Up, Names
    <3>4. Contains(sd'.todo, "db") \/ ctr'["db"] # "running"
      BY <1>1, <1>3, <3>1, <3>2 DEF QuietOK, Up, Names
    <3> QED BY <1>1, <2>1, <3>1, <3>2, <3>3, <3>4 DEF QuietOK, Up
  <2> QED BY <1>3, <2>2, <2>3 DEF RunInv, QuietInv
<1>4. CASE NextComponent /\ UNCHANGED <<ctr, armed>> /\ quiet' = FALSE
  <2>1. /\ DOMAIN sd' = {"op", "todo", "seen"} /\ sd'.op = "next" /\ sd'.todo = Tail(sd.todo)
        /\ sd'.todo \in Seq(Parts)
    BY <1>1, <1>4, NextTypes DEF RunInv
  <2> QED BY <1>1, <1>4, <2>1 DEF RunInv, RunTypes, RegInv, QuietInv
<1>5. CASE /\ sd.op = "next" /\ stopHealthChecks(c)
           /\ IF ctr[c] = "none" THEN NextComponent ELSE sd' = [sd EXCEPT !.op = "purge"]
           /\ UNCHANGED <<ctr, quiet, left>>
  <2>1. armed' = armed \ {c} /\ DOMAIN ctr' = Names
    BY <1>5 DEF stopHealthChecks, RunInv, RunTypes
  <2> QED BY <1>2, <1>3, <1>5, <2>1
<1>6. CASE /\ sd.op = "purge" /\ NextComponent
           /\ \/ remove(c) /\ UNCHANGED <<quiet, left>>
              \/ Fails /\ quiet' = FALSE
           /\ UNCHANGED armed
  <2>1. CASE Fails /\ quiet' = FALSE
    BY <1>4, <1>6, <2>1 DEF Fails
  <2>2. CASE remove(c) /\ UNCHANGED <<quiet, left>>
    <3>1. DOMAIN ctr' = Names /\ \A d \in Names : d # c => ctr'[d] = ctr[d]
      BY <2>2 DEF remove, Set, RunInv, RunTypes
    <3>2. CASE quiet
      <4>1. c \notin armed
        BY <1>1, <1>6, <3>2 DEF RunInv, QuietInv, QuietOK
      <4> QED BY <1>3, <1>6, <2>2, <3>1, <4>1
    <3>3. CASE ~quiet
      <4>1. /\ DOMAIN sd' = {"op", "todo", "seen"} /\ sd'.op = "next" /\ sd'.todo = Tail(sd.todo)
            /\ sd'.todo \in Seq(Parts)
        BY <1>1, <1>6, NextTypes DEF RunInv
      <4> QED BY <1>1, <1>6, <2>2, <3>1, <3>3, <4>1 DEF RunInv, RunTypes, RegInv, QuietInv
    <3> QED BY <3>2, <3>3
  <2> QED BY <1>6, <2>1, <2>2
<1> QED BY <1>5, <1>6 DEF StopManaged

\* The next component with the containers as they are, but for the database.
LEMMA StopPlainKeeps ==
  ASSUME RunInv, NextComponent, sd.op # "off", sd.todo # <<>>, Head(sd.todo) \notin Managed \cup {"lifecycle"},
         UNCHANGED <<main, regd, armed, hc>>, quiet' = quiet \/ quiet' = FALSE, DOMAIN ctr' = Names,
         \A d \in Names \ {"db"} : ctr'[d] = ctr[d],
         ctr'["db"] = "running" => ctr["db"] = "running",
         quiet' /\ Head(sd.todo) = "db" => ctr'["db"] # "running"
  PROVE  RunInv'
<1>1. /\ DOMAIN sd' = {"op", "todo", "seen"} /\ sd'.op = "next" /\ sd'.todo = Tail(sd.todo)
      /\ sd'.todo \in Seq(Parts)
  BY NextTypes DEF RunInv
<1>2. RunTypes' /\ RegInv'
  BY <1>1 DEF RunInv, RunTypes, RegInv
<1>3. ASSUME quiet' PROVE QuietOK'
  <2>1. QuietOK
    BY <1>3 DEF RunInv, QuietInv
  <2>2. /\ LastIsLifecycle(sd'.todo) /\ sd'.todo # <<>>
        /\ \A d : Contains(sd.todo, d) /\ Head(sd.todo) # d => Contains(sd'.todo, d)
    BY <1>1, <2>1, TailKeeps DEF RunInv, RunTypes, QuietOK
  <2>3. \A d \in armed' : ctr'[d] = "running" /\ Contains(sd'.todo, d)
    BY <2>1, <2>2 DEF QuietOK, RunInv, RunTypes, Up, Names, Managed
  <2>4. Contains(sd'.todo, "db") \/ ctr'["db"] # "running"
    BY <1>3, <2>1, <2>2 DEF QuietOK, Up
  <2> QED BY <1>1, <2>1, <2>2, <2>3, <2>4 DEF QuietOK, Up
<1> QED BY <1>2, <1>3 DEF RunInv, QuietInv

\* The lifecycle, the last, removes what containers it finds.
LEMMA StopLifecycleKeeps ==
  ASSUME RunInv, StopLifecycle
  PROVE  RunInv'
<1>1. /\ sd.op # "off" /\ sd.todo # <<>> /\ Head(sd.todo) = "lifecycle"
      /\ UNCHANGED <<main, regd, armed, hc, quiet>>
  BY DEF StopLifecycle, Stopping
<1>2. CASE /\ sd.op = "next" /\ UNCHANGED ctr
           /\ sd' = [sd EXCEPT !.op = "purge", !.seen = {c \in Names \ {"db"} : ctr[c] # "none"}]
  <2>1. /\ DOMAIN sd' = {"op", "todo", "seen"} /\ sd'.op = "purge" /\ sd'.todo = sd.todo
        /\ \A c \in Names \ {"db"} : ctr[c] # "none" => c \in sd'.seen
    BY <1>2 DEF RunInv, RunTypes
  <2>2. RunTypes' /\ RegInv'
    BY <1>1, <1>2, <2>1 DEF RunInv, RunTypes, RegInv
  <2>3. ASSUME quiet PROVE QuietOK'
    <3>1. "lifecycle" \notin armed
      BY DEF RunInv, RunTypes, Managed
    <3> QED BY <1>1, <1>2, <2>1, <2>3, <3>1 DEF RunInv, QuietInv, QuietOK, Up, LastIsLifecycle
  <2> QED BY <1>1, <2>2, <2>3 DEF RunInv, QuietInv
<1>3. CASE /\ sd.op = "purge" /\ NextComponent
           /\ ctr' = [c \in Names |-> IF c \in sd.seen THEN "none" ELSE ctr[c]]
  <2>1. /\ DOMAIN sd' = {"op", "todo", "seen"} /\ sd'.op = "next" /\ sd'.todo = Tail(sd.todo)
        /\ sd'.todo \in Seq(Parts)
    BY <1>1, <1>3, NextTypes DEF RunInv
  <2>2. RunTypes' /\ RegInv'
    BY <1>1, <1>3, <2>1 DEF RunInv, RunTypes, RegInv
  <2>3. ASSUME quiet PROVE QuietOK'
    <3>1. QuietOK
      BY <2>3 DEF RunInv, QuietInv
    <3>2. /\ LastIsLifecycle(sd'.todo) /\ sd'.todo = <<>>
          /\ \A d : Contains(sd.todo, d) /\ Head(sd.todo) # d => Contains(sd'.todo, d)
      BY <1>1, <2>1, <3>1, TailKeeps DEF RunInv, RunTypes, QuietOK
    <3>3. ~Contains(sd'.todo, "db") /\ \A d \in Managed : ~Contains(sd'.todo, d)
      BY <3>2 DEF Contains
    <3>4. armed = {} /\ ctr["db"] # "running"
      BY <1>1, <3>1, <3>2, <3>3 DEF QuietOK, RunInv, RunTypes, Managed, Up
    <3>5. \A c \in Names \ {"db"} : ctr'[c] = "none"
      BY <1>1, <1>3, <3>1 DEF QuietOK, Stopping
    <3>6. ctr'["db"] # "running"
      BY <1>3, <3>4 DEF Names
    <3> QED BY <1>1, <2>1, <3>1, <3>2, <3>4, <3>5, <3>6 DEF QuietOK, Up
  <2> QED BY <1>1, <2>2, <2>3 DEF RunInv, QuietInv
<1> QED BY <1>2, <1>3 DEF StopLifecycle

\* The shutdown, component by component.
LEMMA ShutdownKeeps ==
  ASSUME RunInv, ShutdownStep
  PROVE  RunInv'
<1>1. CASE StopProxy \/ StopChannel \/ StopService
  BY <1>1, StopManagedKeeps DEF StopProxy, StopChannel, StopService, Managed
<1>2. CASE StopPostgres
  <2>1. /\ NextComponent /\ sd.op # "off" /\ sd.todo # <<>> /\ Head(sd.todo) = "db"
        /\ UNCHANGED <<main, regd, armed, hc>>
        /\ \/ Set("db", IF Up("db") THEN "exited" ELSE ctr["db"]) /\ UNCHANGED quiet
           \/ UNCHANGED ctr /\ quiet' = FALSE
    BY <1>2 DEF StopPostgres, Stopping, Fails
  <2>2. /\ DOMAIN ctr' = Names /\ \A d \in Names \ {"db"} : ctr'[d] = ctr[d]
        /\ ctr'["db"] = "running" => ctr["db"] = "running"
        /\ quiet' = FALSE \/ ctr'["db"] # "running"
    BY <2>1 DEF Set, Up, Names, RunInv, RunTypes
  <2>3. Head(sd.todo) \notin Managed \cup {"lifecycle"}
    BY <2>1 DEF Managed
  <2>4. quiet' = quiet \/ quiet' = FALSE
    BY <2>1
  <2> QED BY <2>1, <2>2, <2>3, <2>4, StopPlainKeeps
<1>3. CASE StopLifecycle
  BY <1>3, StopLifecycleKeeps
<1>4. CASE StopOther
  <2>1. /\ NextComponent /\ sd.op # "off" /\ sd.todo # <<>> /\ Head(sd.todo) \in {"database", "orchestrator"}
        /\ UNCHANGED <<ctr, main, regd, armed, hc, quiet>>
    BY <1>4 DEF StopOther, Stopping
  <2>2. DOMAIN ctr' = Names
    BY <2>1 DEF RunInv, RunTypes
  <2>3. Head(sd.todo) \notin Managed \cup {"lifecycle"} /\ Head(sd.todo) # "db"
    BY <2>1 DEF Managed
  <2> QED BY <2>1, <2>2, <2>3, StopPlainKeeps
<1>5. CASE ShutdownComplete
  <2>1. Exit /\ UNCHANGED ctr
    BY <1>5 DEF ShutdownComplete
  <2> QED BY <2>1, ExitKeeps DEF RunInv, RunTypes
<1> QED BY <1>1, <1>2, <1>3, <1>4, <1>5 DEF ShutdownStep

-----------------------------------------------------------------------------
(* Events and commands.                                                    *)

\* Signals, crashes, agents that appear and containers that die.
LEMMA EventKeeps ==
  ASSUME RunInv, ServicesEvent
  PROVE  RunInv'
<1>1. CASE Signal
  BY <1>1, TerminatedKeeps DEF Signal
<1>2. CASE Crash
  <2>1. Exit /\ UNCHANGED ctr
    BY <1>2 DEF Crash
  <2> QED BY <2>1, ExitKeeps DEF RunInv, RunTypes
<1>3. ASSUME NEW c \in Names, Die(c) PROVE RunInv'
  <2>1. DOMAIN ctr' = Names /\ quiet' = FALSE /\ UNCHANGED <<main, regd, sd, armed, hc>>
    BY <1>3 DEF Die, Set, RunInv, RunTypes
  <2> QED BY <2>1, DisturbedKeeps
<1>4. CASE AgentSpawn
  <2>1. /\ sd.op = "off" \/ Contains(sd.todo, "orchestrator")
        /\ ctr' = [ctr EXCEPT !["agent"] = "running"]
        /\ UNCHANGED <<main, regd, sd, armed, hc, quiet>>
    BY <1>4 DEF AgentSpawn, Set, procVars
  <2>2. DOMAIN ctr' = Names /\ \A d \in Names : d # "agent" => ctr'[d] = ctr[d]
    BY <2>1 DEF RunInv, RunTypes
  <2>3. RunTypes' /\ RegInv'
    BY <2>1, <2>2 DEF RunInv, RunTypes, RegInv
  <2>4. ASSUME quiet PROVE QuietOK'
    <3>1. QuietOK /\ Contains(sd.todo, "orchestrator")
      BY <2>1, <2>4 DEF RunInv, QuietInv, QuietOK
    <3>2. sd.todo # <<>>
      BY <3>1 DEF Contains
    <3>3. Head(sd.todo) # "lifecycle"
      <4>1. /\ LastIsLifecycle(sd.todo) /\ sd.todo \in Seq(Parts)
        BY <3>1 DEF QuietOK, RunInv, RunTypes
      <4>2. Tail(sd.todo) = <<>> <=> Head(sd.todo) = "lifecycle"
        BY <3>2, <4>1, TailKeeps
      <4>3. ASSUME Head(sd.todo) = "lifecycle" PROVE Contains(Tail(sd.todo), "orchestrator")
        BY <3>1, <3>2, <4>1, <4>3, TailKeeps
      <4>4. ~Contains(<<>>, "orchestrator")
        BY DEF Contains
      <4> QED BY <4>2, <4>3, <4>4
    <3>4. \A d \in armed : ctr'[d] = "running"
      BY <2>2, <3>1 DEF QuietOK, Up, RunInv, RunTypes, Managed, Names
    <3>5. Contains(sd.todo, "db") \/ ctr'["db"] # "running"
      BY <2>2, <3>1 DEF QuietOK, Up, Names
    <3> QED BY <2>1, <3>1, <3>2, <3>3, <3>4, <3>5 DEF QuietOK, Up, Stopping
  <2> QED BY <2>1, <2>3, <2>4 DEF RunInv, QuietInv
<1> QED BY <1>1, <1>2, <1>3, <1>4 DEF ServicesEvent

\* A command leaves the process and its containers alone, asks it to stop,
\* or disturbs the shutdown.
Untouched == UNCHANGED <<ctr, main, regd, sd, armed, hc, quiet>>
Asked == Terminated /\ UNCHANGED <<ctr, main, regd, armed, hc>>
Disturbed == UNCHANGED <<main, regd, sd, armed, hc>> /\ quiet' = FALSE /\ DOMAIN ctr' = Names

\* Which of the three each command's steps are.
LEMMA CommandKinds ==
  ASSUME RunInv, NEW s \in Slots, SetupStep(s) \/ SkillStep(s) \/ AdminStep(s)
  PROVE  Untouched \/ Asked \/ Disturbed
<1>1. CASE SetupStep(s)
  BY <1>1 DEF SetupStep, dispatchSetup, runApiKeyFlow, runSubscriptionFlow, Login, readConfig, writeConfig,
              procVars, Untouched
<1>2. CASE SkillStep(s)
  BY <1>2 DEF SkillStep, installCommand, updateCommand, uninstallCommand, download, copyDir, readManifest,
              writeManifest, checkDependents, removeDir, spliceManifest, skillUnchanged, procVars, Untouched
<1>3. CASE AddStep(s) \/ serviceStopped(s) \/ BackupStep(s) \/ Abandon(s)
  BY <1>3 DEF AddStep, addUser, Adding, useradd, readSubIds, appendSubIds, readRegistry, allocate, installService,
              serviceStopped, BackupStep, createBackup, BackingUp, dumpDatabase, copyConfig, writeArchive,
              Abandon, servicesUnchanged, procVars, Untouched
<1>4. CASE RemoveStep(s)
  <2>1. CASE removeUser(s) \/ readForFree(s) \/ free(s) \/ userdel(s)
    BY <2>1 DEF removeUser, readForFree, free, userdel, servicesUnchanged, procVars, Untouched
  <2>2. CASE stopContainers(s)
    BY <2>2 DEF stopContainers, Untouched, Disturbed
  <2>3. CASE stopUser(s)
    BY <2>3 DEF stopUser, stopService, Untouched, Asked
  <2>4. CASE removeResources(s)
    BY <2>4 DEF removeResources, Untouched, Disturbed
  <2> QED BY <1>4, <2>1, <2>2, <2>3, <2>4 DEF RemoveStep
<1>5. CASE RestoreStep(s)
  <2>1. CASE restoreBackup(s) \/ restoreConfig(s) \/ restoreSecrets(s) \/ restoreManifest(s) \/ loadDump(s) \/ startService(s)
    BY <2>1 DEF restoreBackup, restoreConfig, restoreSecrets, restoreManifest, loadDump, startService,
                servicesUnchanged, procVars, Untouched
  <2>2. CASE stopForRestore(s)
    BY <2>2 DEF stopForRestore, stopService, Untouched, Asked
  <2>3. CASE startDatabase(s) \/ stopDatabase(s)
    BY <2>3 DEF startDatabase, stopDatabase, start, Set, Untouched, Disturbed, RunInv, RunTypes
  <2> QED BY <1>5, <2>1, <2>2, <2>3 DEF RestoreStep
<1> QED BY <1>1, <1>2, <1>3, <1>4, <1>5 DEF AdminStep

\* And the user's.
LEMMA UserKinds ==
  ASSUME UserStart \/ UserStop \/ UNCHANGED vars
  PROVE  Untouched \/ Asked
BY DEF UserStart, UserStop, vars, procVars, Untouched, Asked

\* All three keep RunInv.
LEMMA KindKeeps ==
  ASSUME RunInv, Untouched \/ Asked \/ Disturbed
  PROVE  RunInv'
BY UntouchedKeeps, TerminatedKeeps, DisturbedKeeps DEF Untouched, Asked, Disturbed

\* All steps together.
LEMMA RunStep == RunInv /\ [Next]_vars => RunInv'
<1> SUFFICES ASSUME RunInv, [Next]_vars PROVE RunInv'
  OBVIOUS
<1>1. ASSUME NEW s \in Slots, SetupStep(s) \/ SkillStep(s) \/ AdminStep(s) PROVE RunInv'
  BY <1>1, CommandKinds, KindKeeps
<1>2. CASE UserStart \/ UserStop \/ UNCHANGED vars
  BY <1>2, UserKinds, KindKeeps
<1>3. CASE ServicesStep
  BY <1>3, StartKeeps, MainKeeps, ShutdownKeeps, HealthKeeps DEF ServicesStep
<1>4. CASE ServicesEvent
  BY <1>4, EventKeeps
<1> QED BY <1>1, <1>2, <1>3, <1>4 DEF Next, Steps

\* The process is down, or up and healthy.
LEMMA RunInit == Init => RunInv
<1> SUFFICES ASSUME Init PROVE RunInv
  OBVIOUS
<1>1. /\ DOMAIN sd = {"op", "todo", "seen"} /\ sd.op = "off" /\ sd.todo = <<>>
      /\ DOMAIN hc = Managed /\ \A c \in Managed : hc[c] = "idle"
  BY DEF Init, Off, Idle
<1>2. ~quiet
  BY DEF Init
<1>3. <<>> \in Seq(Parts) /\ armed \subseteq Managed
  BY DEF Init, Live, Fresh
<1>6. quiet \in BOOLEAN
  BY Zenon DEF Init
<1>4. CASE Live
  <2>1. DOMAIN ctr = Names /\ armed = Managed
    BY <1>4 DEF Live
  <2>2. DOMAIN main = {"at", "op"} /\ main.at = 9
    BY <1>4, StagesAre DEF Live
  <2>3. /\ regd \in Seq(Parts) /\ Len(regd) = 7 /\ regd[1] = "lifecycle" /\ regd[2] = "proxy" /\ regd[3] = "db"
        /\ regd[4] = "database" /\ regd[5] = "channel" /\ regd[6] = "service" /\ regd[7] = "orchestrator"
    BY <1>4 DEF Live, Parts
  <2>4. \A c \in Managed \cup {"db"} : Contains(regd, c)
    BY <2>3 DEF Contains, Managed
  <2>5. \A i \in 2..Len(regd) : regd[i] # "lifecycle"
    BY <2>3
  <2>6. RunTypes
    BY <1>1, <1>3, <1>6, <2>1, <2>2, <2>3 DEF RunTypes
  <2>7. RegInv
    BY <1>1, <2>1, <2>2, <2>3, <2>4, <2>5 DEF RegInv
  <2> QED BY <1>2, <2>6, <2>7 DEF RunInv, QuietInv
<1>5. CASE Fresh
  <2>1. DOMAIN ctr = Names /\ armed = {} /\ regd = <<>> /\ DOMAIN main = {"at", "op"} /\ main.at = 0
    BY <1>5 DEF Fresh, Down
  <2>2. RunTypes
    BY <1>1, <1>3, <1>6, <2>1 DEF RunTypes
  <2>3. RegInv
    BY <1>1, <2>1 DEF RegInv
  <2> QED BY <1>2, <2>2, <2>3 DEF RunInv, QuietInv
<1> QED BY <1>4, <1>5 DEF Init

\* The process ends while nothing is left to stop: every step that ends it
\* leaves the containers as they are.
LEMMA ExitClean ==
  ASSUME RunInv, [Next]_vars, sd.op = "next", sd.todo = <<>>, quiet, main'.at = 0
  PROVE  (\A c \in Names \ {"db"} : ctr'[c] = "none") /\ ctr'["db"] # "running"
<1>1. /\ main.at = 9 /\ (\A c \in Names \ {"db"} : ctr[c] = "none") /\ ctr["db"] # "running"
  <2>1. ~Contains(sd.todo, "db")
    BY DEF Contains
  <2> QED BY <2>1 DEF RunInv, QuietInv, QuietOK, Up
<1>2. main' # main
  BY <1>1
<1>3. \/ ~(\E s \in Slots : SetupStep(s) \/ SkillStep(s) \/ AdminStep(s))
      \/ UNCHANGED ctr
  BY <1>2, CommandKinds DEF Untouched, Asked, Disturbed
<1>4. ~(UserStart \/ UserStop \/ UNCHANGED vars)
  BY <1>2, UserKinds DEF Untouched, Asked
<1>5. ~SystemdStart /\ ~MainStep
  BY <1>1, StagesAre DEF SystemdStart, MainStep, StartLifecycle, StartSecrets, StartProxy, StartPostgres,
       StartDatabase, StartChannel, StartService, StartOrchestrator, At
<1>6. \A c \in Managed : ~HealthStep(c)
  BY <1>2 DEF HealthStep, ProxyHealthCheck, ChannelHealthCheck, ServiceHealthCheck, healthCheck, Restarting
<1>7. ShutdownStep => UNCHANGED ctr
  BY <1>2 DEF ShutdownStep, StopProxy, StopChannel, StopService, StopManaged, StopPostgres, StopLifecycle,
       StopOther, ShutdownComplete
<1>8. ServicesEvent => UNCHANGED ctr
  BY <1>2 DEF ServicesEvent, Signal, Crash, AgentSpawn, Die, procVars
<1>9. UNCHANGED ctr
  BY <1>3, <1>4, <1>5, <1>6, <1>7, <1>8 DEF Next, Steps, ServicesStep
<1> QED BY <1>1, <1>9

\* A shutdown that began in a healthy system and that nothing disturbed ends with no
\* container left but a stopped database, whatever commands run beside it (shutdown()
\* and the stop()s of the managers, the database and the lifecycle).
THEOREM CleanExitHolds == Spec => CleanExit
<1>1. RunInv /\ [Next]_vars =>
        [sd.op = "next" /\ sd.todo = <<>> /\ quiet /\ main'.at = 0
           => /\ \A c \in Names \ {"db"} : ctr'[c] = "none"
              /\ ctr'["db"] # "running"]_vars
  BY ExitClean
<1> QED BY <1>1, RunInit, RunStep, PTL DEF Spec, CleanExit
=============================================================================
