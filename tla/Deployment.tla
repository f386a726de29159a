----------------------------- MODULE Deployment -----------------------------
(***************************************************************************)
(* The service, the user's commands and the administrator's on one         *)
(* machine.  They meet in the containers, in config.yaml, in the secrets   *)
(* and in systemd.                                                         *)
(***************************************************************************)
EXTENDS Admin

vars == <<ctr, net, main, regd, sd, armed, hc, want, cfg, auth, files, boot, quiet, left, scope,
          cmd, manifest, dirs, done, torn, acct, reg, subs, units, arch>>

\* What add-user writes: an agent section, no method, no channels.
initialConfig == [channels |-> {}, cc |-> "unset", service |-> "unset",
                  runtime |-> "cli", method |-> "unset", identity |-> FALSE]

\* What the wizard makes of it, and the archive of such an installation.
readyConfig == summary(voiceOn(setupTelegram(initialConfig)), "cli")
readyArchive == [made |-> TRUE, cfg |-> readyConfig, done |-> TRUE, files |-> {"enc", "ca"},
                 auth |-> {"api_key"}, manifest |-> Skills]

\* Me has just been added and has set nothing up; there may be an archive
\* from another machine.
Fresh ==
  /\ ctr = [c \in Names |-> "none"]
  /\ main = Down /\ regd = <<>> /\ armed = {} /\ want = FALSE
  /\ boot = [channel |-> FALSE, service |-> FALSE]
  /\ cfg = initialConfig /\ auth = {} /\ files = {} /\ done = FALSE
  /\ manifest = {} /\ dirs = {} /\ arch \in {NoArchive, readyArchive}

\* Me went through the wizard, started the service and was backed up.
Live ==
  /\ ctr = [c \in Names |-> IF c = "agent" THEN "none" ELSE "running"]
  /\ main = [at |-> Len(Stages) + 1, op |-> "check"]
  /\ regd = <<"lifecycle", "proxy", "db", "database", "channel", "service", "orchestrator">>
  /\ armed = Managed /\ want = TRUE
  /\ boot = [channel |-> TRUE, service |-> TRUE]
  /\ cfg = readyConfig
  /\ auth = {"api_key"} /\ files = {"enc", "ca"} /\ done = TRUE
  /\ manifest = Skills /\ dirs = Skills /\ arch = readyArchive

Init ==
  /\ scope \in Scopes /\ left = scope.events
  /\ IF scope.live THEN Live ELSE Fresh
  /\ net = TRUE /\ sd = Off /\ hc = Idle /\ quiet = FALSE
  /\ cmd = [s \in Slots |-> NoCommand] /\ torn = {}
  /\ LET other == CHOOSE u \in Users : u # Me
     IN /\ acct = {Me, other} /\ units = acct /\ reg = [u \in acct |-> IF u = Me THEN 0 ELSE 1]
        /\ subs = {<<Me, 0>>, <<other, 1>>}

commandsUnchanged == UNCHANGED <<homeVars, cmd, skillVars, torn, adminVars, scope>>

Steps ==
  \/ (ServicesStep \/ ServicesEvent) /\ commandsUnchanged
  \/ \E s \in Slots :
       \/ Me \in acct /\ (SetupStep(s) \/ SkillStep(s)) /\ UNCHANGED adminVars
       \/ AdminStep(s)
  \/ UserStart \/ UserStop

Next == Steps /\ UNCHANGED scope

\* systemd restarts the service, main() and shutdown() go on, the timers of
\* the managers fire.  Commands wait for people: nothing is assumed of them.
Fairness ==
  /\ WF_vars(SystemdStart /\ commandsUnchanged)
  /\ WF_vars(MainStep /\ commandsUnchanged)
  /\ WF_vars(ShutdownStep /\ commandsUnchanged)
  /\ \A c \in Managed : WF_vars(HealthStep(c) /\ commandsUnchanged)

Spec == Init /\ [][Next]_vars /\ Fairness

-----------------------------------------------------------------------------
(* Properties. *)

\* The service as the wizard leaves it, with a secret in the vault.
Configured == /\ want /\ Me \in acct /\ done
              /\ "enc" \in files \/ "api_key" \in auth

\* A service set up by a complete wizard comes up whatever containers and
\* half-made containers earlier processes left, and whatever other commands
\* do to its files meanwhile (main(), the managers' start(), the wizard's
\* summary, restoreBackup()).
StartConverges == Configured ~> (Ready \/ ~Configured)

\* The managers' watch over c may act and has what it needs.
Watched(c) == /\ Ready /\ sd.op = "off" /\ c \in armed /\ net
              /\ Mounts[c] \subseteq files /\ Up("db")

\* While the orchestrator runs, a proxy, channel or speech container that
\* died is back in the end (healthCheck() of the three managers).
Serving == \A c \in Managed : Watched(c) ~> (Up(c) \/ ~Watched(c))

\* A shutdown that began in a healthy system and met no failure leaves no
\* container behind but a stopped database (shutdown(), the stop()s).
CleanExit ==
  [][sd.op = "next" /\ sd.todo = <<>> /\ quiet /\ main'.at = 0
       => /\ \A c \in Names \ {"db"} : ctr'[c] = "none"
          /\ ctr'["db"] # "running"]_vars

\* Unless two administrators changed users at the same time: no two users
\* share a port block or a sub-id range, every block belongs to an account
\* and every unit to a block, also when a command was cut off (addUser(),
\* removeUser(), PortRegistry.allocate() and free()).
UsersApart ==
  "users" \notin torn =>
    /\ \A u, v \in DOMAIN reg : u # v => reg[u] # reg[v]
    /\ \A a, b \in subs : a # b => a[2] # b[2]
    /\ DOMAIN reg \subseteq acct /\ units \subseteq DOMAIN reg

\* Between skill commands that did not overlap and were not cut off in an
\* uninstall, every skill in the manifest has its files and the skills it
\* requires (SkillStore.install() and remove()).
SkillsBacked ==
  "skills" \notin torn /\ ~Running(SkillJobs) =>
    manifest \subseteq dirs /\ \A k \in manifest : Requires[k] \subseteq manifest
=============================================================================
