------------------------------- MODULE Admin -------------------------------
(***************************************************************************)
(* The administrator's commands: add-user, remove-user, backup, restore,   *)
(* and what the user does with systemctl.  Me is the user whose home,      *)
(* service and containers modules Services and Setup describe; of the      *)
(* others only the account, the port block, the sub-id range and the unit  *)
(* are kept.  A command may fail or be cut off at any step; none of them   *)
(* undoes what it did.                                                     *)
(***************************************************************************)
EXTENDS Setup

CONSTANTS Users, Me

ASSUME UsersAssumption == Me \in Users

VARIABLES
  acct,  \* Linux users
  reg,   \* the port registry: user -> number of its port block
  subs,  \* lines of /etc/subuid: <<user, number of the range>>
  units, \* users with a unit file
  arch   \* the latest backup

adminVars == <<acct, reg, subs, units, arch>>

NoArchive == [made |-> FALSE]
UserJobs == {"add", "remove"}

othersUnchanged == UNCHANGED <<homeVars, skillVars, files>>
servicesUnchanged == UNCHANGED <<ctr, net, want, procVars>>

-----------------------------------------------------------------------------
(* add-user *)

addUser(s) ==
  /\ \E u \in Users \ (acct \cup {Me}) : Begin(s, "add", u)
  /\ Overlap(UserJobs, "users")
  /\ othersUnchanged /\ servicesUnchanged /\ UNCHANGED adminVars

\* A step of add-user that leaves all but these tables alone.
Adding(s, step) ==
  /\ Doing(s, "add", step)
  /\ othersUnchanged /\ servicesUnchanged /\ UNCHANGED <<left, torn, arch>>

useradd(s) ==
  /\ Adding(s, "begin")
  /\ IF cmd[s].arg \in acct THEN Finish(s) /\ UNCHANGED acct
     ELSE Goto(s, "subids", 0) /\ acct' = acct \cup {cmd[s].arg}
  /\ UNCHANGED <<reg, subs, units>>

\* the first range after every range in the file
findNextSubIdStart == CHOOSE n \in {0} \cup {line[2] + 1 : line \in subs} :
                        \A line \in subs : line[2] < n

readSubIds(s) ==
  /\ Adding(s, "subids") /\ Goto(s, "append", findNextSubIdStart)
  /\ UNCHANGED <<acct, reg, subs, units>>

appendSubIds(s) ==
  /\ Adding(s, "append")
  /\ subs' = subs \cup {<<cmd[s].arg, cmd[s].seen>>} /\ Goto(s, "files", 0)
  /\ UNCHANGED <<acct, reg, units>>

\* Keys, directories, initial configuration, network; then the registry is
\* read: a user that has a block already ends the command.
readRegistry(s) ==
  /\ Adding(s, "files")
  /\ IF cmd[s].arg \in DOMAIN reg THEN Finish(s) ELSE Goto(s, "allocate", reg)
  /\ UNCHANGED <<acct, reg, subs, units>>

\* Mutant: the block after the last, whatever was freed.
MutnextBase(blocks) == Cardinality(blocks)

\* The first gap, going up from the first block.
nextBase(blocks) == CHOOSE b \in 0..Cardinality(blocks) :
                      b \notin blocks /\ \A a \in 0..(b - 1) : a \in blocks

allocate(s) ==
  /\ Adding(s, "allocate")
  /\ reg' = [u \in DOMAIN cmd[s].seen \cup {cmd[s].arg} |->
               IF u = cmd[s].arg THEN nextBase({cmd[s].seen[v] : v \in DOMAIN cmd[s].seen})
               ELSE cmd[s].seen[u]]
  /\ Goto(s, "unit", 0)
  /\ UNCHANGED <<acct, subs, units>>

installService(s) ==
  /\ Adding(s, "unit")
  /\ units' = units \cup {cmd[s].arg} /\ Finish(s)
  /\ UNCHANGED <<acct, reg, subs>>

AddStep(s) == \/ addUser(s) \/ useradd(s) \/ readSubIds(s) \/ appendSubIds(s)
              \/ readRegistry(s) \/ allocate(s) \/ installService(s)

-----------------------------------------------------------------------------
(* systemctl stop: SIGTERM, then it waits until the process has gone. *)

stopService(s, next) ==
  \/ Terminated /\ want' = FALSE /\ Goto(s, "stopped", next) /\ UNCHANGED left
  \/ Occurs("failure") /\ Goto(s, next, "running") /\ UNCHANGED <<sd, quiet, want>>

serviceStopped(s) ==
  /\ cmd[s].step = "stopped" /\ main.at = 0 /\ Goto(s, cmd[s].seen, "stopped")
  /\ othersUnchanged /\ servicesUnchanged /\ UNCHANGED <<left, torn, adminVars>>

-----------------------------------------------------------------------------
(* remove-user *)

removeUser(s) ==
  /\ \E u \in acct : Begin(s, "remove", u)
  /\ Overlap(UserJobs, "users")
  /\ othersUnchanged /\ servicesUnchanged /\ UNCHANGED adminVars

stopContainers(s) == \* podman stop --all
  /\ Doing(s, "remove", "begin") /\ Goto(s, "stop", 0)
  /\ IF cmd[s].arg = Me
     THEN /\ ctr' = [c \in Names |-> IF Up(c) THEN "exited" ELSE ctr[c]]
          /\ quiet' = FALSE
     ELSE UNCHANGED <<ctr, quiet>>
  /\ othersUnchanged
  /\ UNCHANGED <<net, want, main, regd, sd, armed, hc, boot, left, torn, adminVars>>

stopUser(s) ==
  /\ Doing(s, "remove", "stop")
  /\ IF cmd[s].arg = Me THEN stopService(s, "purge")
     ELSE Goto(s, "purge", "stopped") /\ UNCHANGED <<sd, quiet, want, left>>
  /\ othersUnchanged /\ UNCHANGED <<ctr, net, main, regd, armed, hc, boot, torn, adminVars>>

\* The archive; rm --all --force; the network; the unit file.
removeResources(s) ==
  /\ Doing(s, "remove", "purge") /\ Goto(s, "free", 0)
  /\ units' = units \ {cmd[s].arg}
  /\ IF cmd[s].arg = Me
     THEN ctr' = [c \in Names |-> "none"] /\ net' = FALSE /\ quiet' = FALSE
     ELSE UNCHANGED <<ctr, net, quiet>>
  /\ othersUnchanged
  /\ UNCHANGED <<want, main, regd, sd, armed, hc, boot, left, torn, acct, reg, subs, arch>>

readForFree(s) ==
  /\ Doing(s, "remove", "free")
  /\ Goto(s, IF cmd[s].arg \in DOMAIN reg THEN "splice" ELSE "userdel", reg)
  /\ othersUnchanged /\ servicesUnchanged /\ UNCHANGED <<left, torn, adminVars>>

free(s) ==
  /\ Doing(s, "remove", "splice") /\ Goto(s, "userdel", 0)
  /\ reg' = [u \in DOMAIN cmd[s].seen \ {cmd[s].arg} |-> cmd[s].seen[u]]
  /\ othersUnchanged /\ servicesUnchanged
  /\ UNCHANGED <<left, torn, acct, subs, units, arch>>

\* userdel refuses while a process of the user runs
userdel(s) ==
  /\ Doing(s, "remove", "userdel") /\ Finish(s)
  /\ acct' = IF cmd[s].arg = Me /\ main.at # 0 THEN acct ELSE acct \ {cmd[s].arg}
  /\ want' = (want /\ Me \in acct')
  /\ othersUnchanged
  /\ UNCHANGED <<ctr, net, procVars, left, torn, reg, subs, units, arch>>

RemoveStep(s) == \/ removeUser(s) \/ stopContainers(s) \/ stopUser(s) \/ removeResources(s)
                 \/ readForFree(s) \/ free(s) \/ userdel(s)

-----------------------------------------------------------------------------
(* backup and restore, of Me *)

createBackup(s) ==
  /\ Me \in acct /\ Begin(s, "backup", Me)
  /\ othersUnchanged /\ servicesUnchanged /\ UNCHANGED <<torn, adminVars>>

BackingUp(s, step) ==
  /\ Doing(s, "backup", step)
  /\ othersUnchanged /\ servicesUnchanged /\ UNCHANGED <<left, torn, acct, reg, subs, units>>

\* pg_dump, or the end of the command
dumpDatabase(s) ==
  /\ BackingUp(s, "begin") /\ UNCHANGED arch
  /\ IF Up("db") THEN Goto(s, "config", 0) ELSE Finish(s)

copyConfig(s) ==
  /\ BackingUp(s, "config") /\ UNCHANGED arch
  /\ Goto(s, "secrets", [cfg |-> cfg, done |-> done])

\* secrets, the manifest (not the skills), the archive.  A login through the
\* bridge is in ~/.claude and is not saved.
writeArchive(s) ==
  /\ BackingUp(s, "secrets") /\ Finish(s)
  /\ arch' = [made |-> TRUE, cfg |-> cmd[s].seen.cfg, done |-> cmd[s].seen.done,
              files |-> files, auth |-> auth \ {"oauth"}, manifest |-> manifest]

restoreBackup(s) ==
  /\ arch.made /\ Me \in acct /\ Begin(s, "restore", Me)
  /\ othersUnchanged /\ servicesUnchanged /\ UNCHANGED <<torn, adminVars>>

stopForRestore(s) ==
  /\ Doing(s, "restore", "begin") /\ stopService(s, "config")
  /\ othersUnchanged /\ UNCHANGED <<ctr, net, main, regd, armed, hc, boot, torn, adminVars>>

restoreConfig(s) ==
  /\ Doing(s, "restore", "config") /\ Goto(s, "secrets", cmd[s].seen)
  /\ cfg' = arch.cfg /\ done' = arch.done
  /\ servicesUnchanged /\ UNCHANGED <<auth, skillVars, files, left, torn, adminVars>>

restoreSecrets(s) ==
  /\ Doing(s, "restore", "secrets") /\ Goto(s, "manifest", cmd[s].seen)
  /\ files' = files \cup arch.files /\ auth' = auth \cup arch.auth
  /\ servicesUnchanged /\ UNCHANGED <<cfg, done, skillVars, left, torn, adminVars>>

restoreManifest(s) ==
  /\ Doing(s, "restore", "manifest") /\ Goto(s, "database", cmd[s].seen)
  /\ manifest' = arch.manifest /\ torn' = torn \cup {"skills"}
  /\ servicesUnchanged /\ UNCHANGED <<homeVars, dirs, files, left, adminVars>>

\* podman start: without the container the service stays stopped
startDatabase(s) ==
  /\ Doing(s, "restore", "database")
  /\ \/ start("db") /\ quiet' = FALSE /\ Goto(s, "load", cmd[s].seen)
     \/ ctr["db"] = "none" /\ Finish(s) /\ UNCHANGED <<ctr, quiet>>
  /\ othersUnchanged
  /\ UNCHANGED <<net, want, main, regd, sd, armed, hc, boot, left, torn, adminVars>>

\* psql -f; the dump goes over the tables that are there
loadDump(s) ==
  /\ Doing(s, "restore", "load")
  /\ IF Up("db") THEN Goto(s, "stopdb", cmd[s].seen) ELSE Finish(s)
  /\ othersUnchanged /\ servicesUnchanged /\ UNCHANGED <<left, torn, adminVars>>

stopDatabase(s) ==
  /\ Doing(s, "restore", "stopdb") /\ Goto(s, "start", 0)
  /\ Set("db", IF Up("db") THEN "exited" ELSE ctr["db"]) /\ quiet' = FALSE
  /\ othersUnchanged
  /\ UNCHANGED <<net, want, main, regd, sd, armed, hc, boot, left, torn, adminVars>>

startService(s) ==
  /\ Doing(s, "restore", "start") /\ Finish(s) /\ want' = (Me \in units)
  /\ othersUnchanged /\ UNCHANGED <<ctr, net, procVars, left, torn, adminVars>>

BackupStep(s) == createBackup(s) \/ dumpDatabase(s) \/ copyConfig(s) \/ writeArchive(s)
RestoreStep(s) == \/ restoreBackup(s) \/ stopForRestore(s) \/ restoreConfig(s)
                  \/ restoreSecrets(s) \/ restoreManifest(s) \/ startDatabase(s)
                  \/ loadDump(s) \/ stopDatabase(s) \/ startService(s)

-----------------------------------------------------------------------------
(* The user's systemctl start and stop; a command cut off. *)

UserStart ==
  /\ ~want /\ Me \in units /\ Occurs("start") /\ want' = TRUE
  /\ othersUnchanged /\ UNCHANGED <<ctr, net, procVars, torn, cmd, adminVars>>

UserStop ==
  /\ want /\ Occurs("stop") /\ Terminated /\ want' = FALSE
  /\ othersUnchanged
  /\ UNCHANGED <<ctr, net, main, regd, armed, hc, boot, torn, cmd, adminVars>>

\* An error, a signal, a closed terminal: nothing is undone.  (An uninstall
\* between its two writes leaves a skill in the manifest that has no files.)
Abandon(s) ==
  /\ ~IdleSlot(s) /\ Occurs("abandon") /\ Finish(s)
  /\ torn' = IF cmd[s].job = "uninstall" THEN torn \cup {"skills"} ELSE torn
  /\ othersUnchanged /\ servicesUnchanged /\ UNCHANGED adminVars

AdminStep(s) == \/ AddStep(s) \/ RemoveStep(s) \/ serviceStopped(s)
                \/ BackupStep(s) \/ RestoreStep(s) \/ Abandon(s)
=============================================================================
