------------------------------- MODULE Setup -------------------------------
(***************************************************************************)
(* The commands a user runs beside the service: the setup wizard and its   *)
(* single sections, auth switch, install, update and uninstall of skills,  *)
(* start and stop.  Commands are processes of their own and take no lock:  *)
(* each reads a file, changes what it read and writes the file again.      *)
(*                                                                         *)
(* The configuration keeps what decides how the service starts.  A wizard  *)
(* is the sequence of its sections, each a read and a write of             *)
(* config.yaml; what the user answers is the choice of the sequence.  The  *)
(* texts, tokens, models and downloads are left out.                       *)
(***************************************************************************)
EXTENDS Services

CONSTANTS
  Wizards,  \* section sequences of `setup`, `setup <section>`, `auth switch`
  Skills,
  Requires  \* skill -> the skills its SKILL.md requires

ASSUME SetupAssumption == Requires \in [Skills -> SUBSET Skills]

VARIABLES
  cmd,      \* the commands under way
  manifest, \* skills/installed.json
  dirs,     \* skill directories
  done,     \* history: config.yaml is a complete wizard's work
  torn      \* history: files whose updates overlapped or were cut off

homeVars == <<cfg, auth, done>>
skillVars == <<manifest, dirs>>

Slots == {1, 2}
NoCommand == [job |-> "none", arg |-> 0, step |-> "none", seen |-> 0]
IdleSlot(s) == cmd[s].job = "none"
Doing(s, job, step) == cmd[s].job = job /\ cmd[s].step = step
Running(jobs) == \E s \in Slots : cmd[s].job \in jobs

Goto(s, step, seen) ==
  cmd' = [cmd EXCEPT ![s] = [cmd[s] EXCEPT !.step = step, !.seen = seen]]
Finish(s) == cmd' = [cmd EXCEPT ![s] = NoCommand]

\* A command takes the first slot that is free.
Begin(s, job, arg) ==
  /\ IdleSlot(s) /\ (\A t \in Slots : t < s => ~IdleSlot(t)) /\ Occurs(job)
  /\ cmd' = [cmd EXCEPT ![s] = [job |-> job, arg |-> arg, step |-> "begin", seen |-> 0]]

SkillJobs == {"install", "uninstall"}

-----------------------------------------------------------------------------
(* Sections of the wizard: what each makes of the configuration it read. *)

addChannel(c, channel) == [c EXCEPT !.channels = @ \cup {channel}]

setupTelegram(c) == addChannel(c, "telegram")
setupGmail(c) == addChannel(c, "gmail")
enableWhatsApp(c) == addChannel(c, "whatsapp")

\* `enabled: true` goes under what the file says already.
voiceOn(c) == [c EXCEPT !.service = IF @ = "unset" THEN "on" ELSE @]
voiceOff(c) == [c EXCEPT !.service = "off"]

identity(c) == [c EXCEPT !.identity = TRUE]

\* Mutant: the method is not written.
Mutsummary(c, runtime) ==
  [c EXCEPT !.runtime = runtime, !.cc = IF c.channels # {} THEN "on" ELSE @]

\* the method is always api_key, whatever the login was
summary(c, runtime) ==
  [c EXCEPT !.runtime = runtime, !.method = "api_key",
            !.cc = IF c.channels # {} THEN "on" ELSE @]

\* loadConfig() gives every field its default, saveConfig() writes them all.
loadConfig(c) ==
  [c EXCEPT !.cc = IF @ = "unset" THEN "off" ELSE @,
            !.service = IF @ = "unset" THEN "off" ELSE @,
            !.method = IF @ = "unset" THEN "oauth" ELSE @]

\* the runtime section asks, the summary at the end writes
summaries == {"summary_cli", "summary_sdk"}

switchTo(c, method) == [loadConfig(c) EXCEPT !.method = method]

Edits == {"telegram", "gmail", "whatsapp", "voice_on", "voice_off", "identity",
          "switch_api_key", "switch_oauth"} \cup summaries

Edit(section, c) ==
  CASE section = "telegram" -> setupTelegram(c)
    [] section = "gmail" -> setupGmail(c)
    [] section = "whatsapp" -> enableWhatsApp(c)
    [] section = "voice_on" -> voiceOn(c)
    [] section = "voice_off" -> voiceOff(c)
    [] section = "identity" -> identity(c)
    [] section = "summary_cli" -> summary(c, "cli")
    [] section = "summary_sdk" -> summary(c, "sdk")
    [] section = "switch_api_key" -> switchTo(c, "api_key")
    [] section = "switch_oauth" -> switchTo(c, "oauth")

\* A token is saved in the vault on the way; for voice, if it is OpenAI's.
saveSecret(section) ==
  \/ section \in {"telegram", "gmail", "voice_on"} /\ files' = files \cup {"enc"}
  \/ section \notin {"telegram", "gmail"} /\ UNCHANGED files

\* After the section at hand: the next one, or the end of the command.
NextSection(s) ==
  LET rest == Tail(cmd[s].arg)
  IN cmd' = [cmd EXCEPT ![s] = IF rest = <<>> THEN NoCommand
                               ELSE [@ EXCEPT !.arg = rest, !.step = "begin", !.seen = 0]]

dispatchSetup(s) ==
  /\ \E w \in Wizards : Begin(s, "setup", w)
  /\ UNCHANGED <<ctr, net, want, procVars, files, homeVars, skillVars, torn>>

storeLogin(method) == auth' = auth \cup {method}

\* The login is stored, or fails and the wizard goes on.
Login(s, method) ==
  /\ Doing(s, "setup", "begin") /\ Head(cmd[s].arg) = method
  /\ \/ storeLogin(method) /\ UNCHANGED left
     \/ Occurs("failure") /\ UNCHANGED auth
  /\ NextSection(s)
  /\ UNCHANGED <<ctr, net, want, procVars, files, cfg, done, skillVars, torn>>

runApiKeyFlow(s) == Login(s, "api_key")

\* through the bridge or the tunnel: the token is kept in ~/.claude
runSubscriptionFlow(s) == Login(s, "oauth")

checkAuthHealth(section) ==
  /\ section = "switch_api_key" => "api_key" \in auth
  /\ section = "switch_oauth" => "oauth" \in auth

readConfig(s) ==
  /\ Doing(s, "setup", "begin") /\ Head(cmd[s].arg) \in Edits
  /\ IF checkAuthHealth(Head(cmd[s].arg))
     THEN Goto(s, "write", cfg) /\ saveSecret(Head(cmd[s].arg))
     ELSE Finish(s) /\ UNCHANGED files
  /\ UNCHANGED <<ctr, net, want, procVars, left, homeVars, skillVars, torn>>

writeConfig(s) ==
  LET section == Head(cmd[s].arg)
  IN /\ Doing(s, "setup", "write")
     /\ cfg' = Edit(section, cmd[s].seen)
     /\ done' = \/ section \in summaries
                \/ done /\ cmd[s].seen = cfg /\ section # "switch_oauth"
     /\ NextSection(s)
     /\ UNCHANGED <<ctr, net, want, procVars, files, left, auth, skillVars, torn>>

SetupStep(s) == \/ dispatchSetup(s) \/ runApiKeyFlow(s) \/ runSubscriptionFlow(s)
                \/ readConfig(s) \/ writeConfig(s)

-----------------------------------------------------------------------------
(* Skills. *)

Overlap(jobs, area) == torn' = IF Running(jobs) THEN torn \cup {area} ELSE torn

skillUnchanged == UNCHANGED <<ctr, net, want, procVars, files, homeVars>>

installCommand(s) ==
  /\ \E k \in Skills : Begin(s, "install", k)
  /\ Overlap(SkillJobs, "skills") /\ skillUnchanged /\ UNCHANGED skillVars

\* installs again what the manifest names
updateCommand(s) ==
  /\ \E k \in manifest : Begin(s, "install", k)
  /\ Overlap(SkillJobs, "skills") /\ skillUnchanged /\ UNCHANGED skillVars

uninstallCommand(s) ==
  /\ \E k \in manifest : Begin(s, "uninstall", k)
  /\ Overlap(SkillJobs, "skills") /\ skillUnchanged /\ UNCHANGED skillVars

checkSkillDependencies(k) == Requires[k] \subseteq manifest

download(s) == \* and readSkillMd, then the required skills
  /\ Doing(s, "install", "begin")
  /\ IF checkSkillDependencies(cmd[s].arg) THEN Goto(s, "copy", 0) ELSE Finish(s)
  /\ skillUnchanged /\ UNCHANGED <<left, skillVars, torn>>

copyDir(s) ==
  /\ Doing(s, "install", "copy")
  /\ dirs' = dirs \cup {cmd[s].arg} /\ Goto(s, "read", 0)
  /\ skillUnchanged /\ UNCHANGED <<left, manifest, torn>>

readManifest(s) ==
  /\ Doing(s, "install", "read") /\ Goto(s, "write", manifest)
  /\ skillUnchanged /\ UNCHANGED <<left, skillVars, torn>>

writeManifest(s) ==
  /\ Doing(s, "install", "write")
  /\ manifest' = cmd[s].seen \cup {cmd[s].arg} /\ Finish(s)
  /\ skillUnchanged /\ UNCHANGED <<left, dirs, torn>>

\* Mutant: a skill others require may go.
Mutdependents(k) == {}

dependents(k) == {j \in manifest \ {k} : k \in Requires[j]}

checkDependents(s) ==
  /\ Doing(s, "uninstall", "begin")
  /\ IF cmd[s].arg \in manifest /\ dependents(cmd[s].arg) = {}
     THEN Goto(s, "remove", manifest) ELSE Finish(s)
  /\ skillUnchanged /\ UNCHANGED <<left, skillVars, torn>>

removeDir(s) ==
  /\ Doing(s, "uninstall", "remove")
  /\ dirs' = dirs \ {cmd[s].arg} /\ Goto(s, "write", cmd[s].seen)
  /\ skillUnchanged /\ UNCHANGED <<left, manifest, torn>>

spliceManifest(s) ==
  /\ Doing(s, "uninstall", "write")
  /\ manifest' = cmd[s].seen \ {cmd[s].arg} /\ Finish(s)
  /\ skillUnchanged /\ UNCHANGED <<left, dirs, torn>>

SkillStep(s) ==
  \/ installCommand(s) \/ updateCommand(s) \/ download(s) \/ copyDir(s) \/ readManifest(s) \/ writeManifest(s)
  \/ uninstallCommand(s) \/ checkDependents(s) \/ removeDir(s) \/ spliceManifest(s)
=============================================================================
