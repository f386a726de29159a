------------------------------ MODULE Services ------------------------------
(***************************************************************************)
(* One user's orchestrator process and its containers: main() starts the   *)
(* components one after the other, the managers look after their           *)
(* containers every 30 seconds, a signal makes shutdown() stop what was    *)
(* registered, last first, and systemd starts the process again.  main(),  *)
(* shutdown() and the health checks are concurrent: shutdown() does not    *)
(* stop main(), and stop() does not wait for a health check under way.     *)
(*                                                                         *)
(* A step is one call of the container runtime (two that belong together:  *)
(* exists and isHealthy, stop and remove).  Images, limits, mounts and     *)
(* environments are left out; a container is none, created, running or     *)
(* exited.  Agent containers are module WarmContainer's: here one stands   *)
(* for them.  The runtime is Podman.                                       *)
(***************************************************************************)
EXTENDS Naturals, FiniteSets, SequencesExt, TLC

CONSTANT Scopes \* bounds: where a behaviour begins, the kinds of its events, how many

ASSUME ScopesAssumption == \A sc \in Scopes : IsFiniteSet(sc.kinds) /\ sc.events \in Nat /\ sc.live \in BOOLEAN

VARIABLES
  ctr,    \* the state of each container
  net,    \* flowhelm-network-{user} exists
  main,   \* where main() is: stage, and the next call of that stage
  regd,   \* components, in order of registration
  sd,     \* shutdown(): what is left to stop, what lifecycle.stop() listed
  armed,  \* managers with a health check timer
  hc,     \* the health check under way in each manager
  want,   \* systemd keeps the service up (Restart=always)
  cfg,    \* ~/.flowhelm/config.yaml
  auth,   \* how the user has logged in: {"api_key", "oauth"} or less
  files,  \* files containers mount: "enc" (credentials.enc), "ca"
  boot,   \* what main() read of the configuration: the optional containers
  quiet,  \* history: nothing disturbed this shutdown
  left,   \* events left
  scope   \* the bounds of this behaviour

procVars == <<main, regd, sd, armed, hc, boot, quiet>>

Managed == {"proxy", "channel", "service"}
Names == Managed \cup {"db", "agent"}

\* "database" stands for steps 6 to 8 of main(): database, queue, memory;
\* "orchestrator" for router, session manager and orchestrator.
Stages == <<"lifecycle", "secrets", "proxy", "db", "database", "channel", "service", "orchestrator">>

Down == [at |-> 0, op |-> "check"]
Off == [op |-> "off", todo |-> <<>>, seen |-> {}]
Idle == [c \in Managed |-> "idle"]
Ready == main.at = Len(Stages) + 1

Up(c) == ctr[c] = "running"
Spend == left > 0 /\ left' = left - 1
Occurs(kind) == kind \in scope.kinds /\ Spend

-----------------------------------------------------------------------------
(* The container runtime. *)

Set(c, state) == ctr' = [ctr EXCEPT ![c] = state]

\* What each container mounts of the files that may be missing.
ProxyMounts == {"enc", "ca"}
PostgresMounts == {}
ChannelMounts == {"enc"}
ServiceMounts == {"ca"}
Mounts == ("proxy" :> ProxyMounts) @@ ("db" :> PostgresMounts)
          @@ ("channel" :> ChannelMounts) @@ ("service" :> ServiceMounts)

\* podman create: the name is free, the network and the mounted files exist.
Creatable(c) == ctr[c] = "none" /\ net /\ Mounts[c] \subseteq files'
create(c) == Creatable(c) /\ Set(c, "created")

\* The channel container ends at once when it cannot reach its database.
start(c) == /\ ctr[c] # "none"
            /\ Set(c, IF c = "channel" /\ ~Up("db") THEN "exited" ELSE "running")

remove(c) == Set(c, "none")

\* The command fails and changes nothing.
Fails == Occurs("failure") /\ UNCHANGED ctr

-----------------------------------------------------------------------------
(* The start() of the managers: from one call to the next. *)

managerCheck(c) ==
  IF ctr[c] = "none" THEN "create" ELSE IF Up(c) THEN "done" ELSE "purge"

postgresCheck ==
  IF ctr["db"] = "none" THEN "create" ELSE IF Up("db") THEN "wait" ELSE "run"

\* before create(): the proxy's manager sees to the certificate authority
ensureCA(c, op) ==
  files' = IF c = "proxy" /\ op = "create" THEN files \cup {"ca"} ELSE files

\* healthy within the time allowed, or not
waitForHealth(c, next) ==
  \/ Up(c) /\ next = "done" /\ UNCHANGED <<ctr, left>>
  \/ ~Up(c) /\ next = "fail" /\ UNCHANGED <<ctr, left>>
  \/ next = "fail" /\ Fails

Call(c, op, next) ==
  /\ ensureCA(c, op)
  /\ \/ /\ op = "check" /\ UNCHANGED <<ctr, left>>
        /\ next = (IF c = "db" THEN postgresCheck ELSE managerCheck(c))
     \/ /\ op = "purge" /\ next = "create" \* stop and remove: errors are swallowed
        /\ \/ remove(c) /\ UNCHANGED left
           \/ Fails
     \/ /\ op = "create"
        /\ \/ create(c) /\ next = "run" /\ UNCHANGED left
           \/ ~Creatable(c) /\ next = "fail" /\ UNCHANGED <<ctr, left>>
           \/ next = "fail" /\ Fails
     \/ /\ op = "run"
        /\ \/ start(c) /\ next = "wait" /\ UNCHANGED left
           \/ ctr[c] = "none" /\ next = "fail" /\ UNCHANGED <<ctr, left>>
           \/ next = "fail" /\ Fails
     \/ op = "wait" /\ waitForHealth(c, next)

Calls == {"purge", "create", "run", "wait", "done", "fail"}

\* lifecycle.stop() removes by id: a container created since is not on its list.
Relisted(c, op, next) ==
  IF op = "create" /\ next = "run" THEN [sd EXCEPT !.seen = @ \ {c}] ELSE sd

-----------------------------------------------------------------------------
(* main() *)

\* SDK runtime requires credentialMethod api_key; unset means oauth.
Accepts(c) == ~(c.runtime = "sdk" /\ c.method # "api_key")

SystemdStart ==
  /\ want /\ main.at = 0 /\ Accepts(cfg)
  /\ main' = [Down EXCEPT !.at = 1]
  /\ boot' = [channel |-> cfg.cc = "on", service |-> cfg.service = "on"]
  /\ UNCHANGED <<ctr, net, regd, sd, armed, hc, want, quiet, left, files>>

Exit ==
  /\ main' = Down /\ regd' = <<>> /\ sd' = Off
  /\ armed' = {} /\ hc' = Idle /\ quiet' = FALSE
  /\ UNCHANGED boot

At(stage) == main.at \in DOMAIN Stages /\ Stages[main.at] = stage

registerComponent(stage) ==
  /\ main' = [at |-> main.at + 1, op |-> "check"]
  /\ regd' = Append(regd, stage)

ensureNetwork == net' = TRUE

cleanupOrphans == ctr' = [ctr EXCEPT !["agent"] = IF @ = "running" THEN @ ELSE "none"]

StartLifecycle ==
  /\ At("lifecycle")
  /\ ensureNetwork /\ cleanupOrphans /\ registerComponent("lifecycle")
  /\ UNCHANGED <<sd, armed, hc, want, boot, quiet, left, files>>

\* One call of the start() of c's manager.
Managing(c) ==
  /\ \E next \in Calls :
       /\ Call(c, main.op, next)
       /\ \/ next = "fail" /\ Exit
          \/ /\ next = "done" /\ registerComponent(c)
             /\ armed' = armed \cup ({c} \cap Managed)
             /\ UNCHANGED <<sd, hc, boot, quiet>>
          \/ /\ next \notin {"done", "fail"} /\ main' = [main EXCEPT !.op = next]
             /\ sd' = Relisted(c, main.op, next)
             /\ UNCHANGED <<regd, armed, hc, boot, quiet>>
  /\ UNCHANGED <<net, want>>

Skip(c) ==
  /\ main' = [at |-> main.at + 1, op |-> "check"]
  /\ UNCHANGED <<ctr, net, regd, sd, armed, hc, want, boot, quiet, left, files>>

StartProxy == At("proxy") /\ Managing("proxy")

\* API keys in plain files go to the vault; nothing to move leaves no vault.
migrateAuthTokens ==
  files' = IF "api_key" \in auth THEN files \cup {"enc"} ELSE files

StartSecrets ==
  /\ At("secrets") /\ migrateAuthTokens
  /\ main' = [at |-> main.at + 1, op |-> "check"]
  /\ UNCHANGED <<ctr, net, regd, sd, armed, hc, want, boot, quiet, left>>

\* waits for pg_isready, then connects; without a connection main() throws
\* (dbPassword() saves the vault, which the proxy has mounted by now)
StartPostgres == At("db") /\ Managing("db")

\* the schema, the queue's LISTEN and the memory need the connection
StartDatabase ==
  /\ At("database")
  /\ \/ Up("db") /\ registerComponent("database") /\ UNCHANGED <<sd, armed, hc, boot, quiet>>
     \/ ~Up("db") /\ Exit
  /\ UNCHANGED <<ctr, net, want, left, files>>

StartChannel ==
  At("channel") /\ IF boot.channel THEN Managing("channel") ELSE Skip("channel")

StartService ==
  At("service") /\ IF boot.service THEN Managing("service") ELSE Skip("service")

StartOrchestrator ==
  /\ At("orchestrator") /\ registerComponent("orchestrator")
  /\ UNCHANGED <<ctr, net, sd, armed, hc, want, boot, quiet, left, files>>

MainStep == \/ StartLifecycle \/ StartSecrets \/ StartProxy \/ StartPostgres \/ StartDatabase
            \/ StartChannel \/ StartService \/ StartOrchestrator

-----------------------------------------------------------------------------
(* Health checks, one at a time in each manager. *)

healthCheck(c, first) ==
  /\ c \in armed /\ hc[c] = "idle" /\ ~Up(c)
  /\ hc' = [hc EXCEPT ![c] = first]
  /\ UNCHANGED <<ctr, net, main, regd, sd, armed, want, boot, quiet, left, files>>

\* the proxy's calls start() again, which arms the timer anew
ProxyHealthCheck == healthCheck("proxy", "check")

\* the other two recreate their container and do not wait for its health
ChannelHealthCheck == healthCheck("channel", "purge")
\* Mutant: the dead container keeps its name.
MutServiceHealthCheck == healthCheck("service", "create")

ServiceHealthCheck == healthCheck("service", "purge")

Restarting(c) ==
  /\ hc[c] # "idle"
  /\ \E next \in Calls :
       LET over == next \in {"done", "fail"} \/ (next = "wait" /\ c # "proxy")
       IN /\ Call(c, hc[c], next)
          /\ hc' = [hc EXCEPT ![c] = IF over THEN "idle" ELSE next]
          /\ armed' = armed \cup (IF next = "done" THEN {c} ELSE {})
          /\ sd' = Relisted(c, hc[c], next)
  /\ UNCHANGED <<net, main, regd, want, boot, quiet>>

HealthStep(c) ==
  \/ c = "proxy" /\ ProxyHealthCheck
  \/ c = "channel" /\ ChannelHealthCheck
  \/ c = "service" /\ ServiceHealthCheck
  \/ Restarting(c)

-----------------------------------------------------------------------------
(* shutdown() *)

\* A second signal starts a second shutdown() over the same components, and
\* the first to finish exits: one stands for both.
Terminated ==
  IF main.at = 0 \/ sd.op # "off" THEN UNCHANGED <<sd, quiet>>
  ELSE /\ sd' = [op |-> "next", todo |-> Reverse(regd), seen |-> {}]
       /\ quiet' = (Ready /\ \A c \in armed : Up(c) /\ hc[c] = "idle")

Signal ==
  /\ main.at # 0 /\ sd.op = "off" /\ Occurs("signal") /\ Terminated
  /\ UNCHANGED <<ctr, net, main, regd, armed, hc, want, boot, files>>

Stopping(c) == sd.op # "off" /\ sd.todo # <<>> /\ Head(sd.todo) = c

NextComponent == sd' = [op |-> "next", todo |-> Tail(sd.todo), seen |-> {}]

\* Mutant: the timer stays armed.
MutstopHealthChecks(c) == armed' = armed

stopHealthChecks(c) == armed' = armed \ {c}

StopManaged(c) ==
  /\ Stopping(c)
  /\ \/ /\ sd.op = "next" /\ stopHealthChecks(c)
        /\ IF ctr[c] = "none" THEN NextComponent ELSE sd' = [sd EXCEPT !.op = "purge"]
        /\ UNCHANGED <<ctr, quiet, left>>
     \/ /\ sd.op = "purge" /\ NextComponent
        /\ \/ remove(c) /\ UNCHANGED <<quiet, left>>
           \/ Fails /\ quiet' = FALSE
        /\ UNCHANGED armed
  /\ UNCHANGED <<net, main, regd, hc, want, boot, files>>

StopProxy == StopManaged("proxy")
StopChannel == StopManaged("channel")
StopService == StopManaged("service")

StopPostgres ==
  /\ Stopping("db") /\ NextComponent
  /\ \/ Set("db", IF Up("db") THEN "exited" ELSE ctr["db"]) /\ UNCHANGED <<quiet, left>>
     \/ Up("db") /\ Fails /\ quiet' = FALSE
  /\ UNCHANGED <<net, main, regd, armed, hc, want, boot, files>>

StopLifecycle ==
  /\ Stopping("lifecycle")
  /\ \/ /\ sd.op = "next"
        /\ sd' = [sd EXCEPT !.op = "purge", !.seen = {c \in Names \ {"db"} : ctr[c] # "none"}]
        /\ UNCHANGED ctr
     \/ /\ sd.op = "purge" /\ NextComponent
        /\ ctr' = [c \in Names |-> IF c \in sd.seen THEN "none" ELSE ctr[c]]
  /\ UNCHANGED <<net, main, regd, armed, hc, want, boot, quiet, left, files>>

StopOther ==
  /\ Stopping("database") \/ Stopping("orchestrator")
  /\ NextComponent
  /\ UNCHANGED <<ctr, net, main, regd, armed, hc, want, boot, quiet, left, files>>

ShutdownComplete ==
  /\ sd.op = "next" /\ sd.todo = <<>> /\ Exit
  /\ UNCHANGED <<ctr, net, want, left, files>>

ShutdownStep == \/ StopProxy \/ StopChannel \/ StopService \/ StopPostgres
                \/ StopLifecycle \/ StopOther \/ ShutdownComplete

-----------------------------------------------------------------------------
(* What happens to the process. *)

\* SIGKILL: out of memory, or TimeoutStopSec after a stop.
Crash == main.at # 0 /\ Occurs("crash") /\ Exit /\ UNCHANGED <<ctr, net, want, files>>

Die(c) ==
  /\ Up(c) /\ Occurs("death") /\ Set(c, "exited") /\ quiet' = FALSE
  /\ UNCHANGED <<net, main, regd, sd, armed, hc, want, boot, files>>

AgentSpawn ==
  /\ Ready /\ (sd.op = "off" \/ Contains(sd.todo, "orchestrator"))
  /\ ctr["agent"] = "none" /\ net /\ Occurs("agent") /\ Set("agent", "running")
  /\ UNCHANGED <<net, want, procVars, files>>

ServicesStep == \/ SystemdStart \/ MainStep \/ ShutdownStep
                \/ \E c \in Managed : HealthStep(c)
ServicesEvent == Signal \/ Crash \/ AgentSpawn \/ \E c \in Names : Die(c)
=============================================================================
