----------------------------- MODULE Reflection -----------------------------
(***************************************************************************)
(* MemoryReflectionJob: semantic memory to meta memory.  A pass goes       *)
(* through the profiles; of each it reads the semantic entries stored      *)
(* since the last pass, lets the model draw depth 0 observations from      *)
(* them, condenses depth n into depth n + 1 while anything is created, and *)
(* lets contradicted entries pull down what was condensed from them.       *)
(* There is no transaction: a row and each of its links commit one by one, *)
(* and semantic entries are stored while the pass runs.                    *)
(*                                                                         *)
(* The links of depth 0 to semantic entries, which the job never reads,    *)
(* are left out.                                                           *)
(*                                                                         *)
(* Confidence is abstracted to what the thresholds tell apart: 0 is below  *)
(* 0.2, 1 is in [0.2, 0.25), which one contradiction takes to 0, and 2 is  *)
(* 0.25 and above.                                                         *)
(***************************************************************************)
EXTENDS Integers, FiniteSets, Sequences

CONSTANTS
  Profiles, Types,
  MinEntries,  \* minSemanticEntries
  MetaThreshold, \* metaCondensationThreshold
  MaxDepth,    \* maxMetaDepth
  Cascade,     \* contradictionCascade
  MaxAnswers,  \* bound: reflections in one answer of the model
  MaxSem, MaxMeta, MaxTime, MaxPasses, MaxFailures \* bounds

ASSUME ReflectionAssumption ==
  /\ {MinEntries, MaxDepth, MaxSem, MaxMeta, MaxTime, MaxPasses, MaxAnswers, MaxFailures} \subseteq Nat
  /\ MetaThreshold \in Nat /\ MetaThreshold >= 2 /\ Cascade \in BOOLEAN

VARIABLES
  clock,   \* Date.now()
  sem,     \* memory_semantic: profile and created_at
  meta,    \* memory_meta: profile, type, depth, confidence, and the pass's call
  metaLinks, \* meta_parent_sources: <<parent, child>>
  last,    \* last_reflection_at
  job,     \* where the pass is; job.pc = "idle" is running = false
  passes, failures, calls, \* counted for the bounds, calls also to tell them apart
  offered, \* history: entries put before the model
  few,     \* history: entries read in a pass that had fewer than MinEntries
  during   \* history: entries stored while a pass ran or in the millisecond it ended

reflectionVars == <<clock, sem, meta, metaLinks, last, job, passes, failures, calls, offered, few, during>>
surroundings == <<clock, sem, passes, failures, during>>

Sem  == 1..Len(sem)
Meta == 1..Len(meta)

NoPass == [pc |-> "idle", todo |-> {}, p |-> "none", depth |-> 0, types |-> {}, t |-> "none",
           ids |-> {}, left |-> 0, row |-> 0, unlinked |-> {}, created |-> 0]
PassAt(pc) == job.pc = pc

-----------------------------------------------------------------------------
(* Confidence.                                                             *)

\* c + (1 - c) / 10, at most 0.95: from [0.2, 0.25) it reaches at least 0.28.
ConfirmConfidence(v) == 2

\* 0.8 c, at least 0.1: from 0.25 and above it may stay above 0.25 or not.
ContradictConfidence(v) == IF v = 2 THEN {1, 2} ELSE {0}

-----------------------------------------------------------------------------
(* What goes on around the job.                                            *)

Tick == /\ clock < MaxTime /\ clock' = clock + 1
        /\ UNCHANGED <<sem, meta, metaLinks, last, job, passes, failures, calls,
                       offered, few, during>>

StoreSemantic(p) ==
  /\ Len(sem) < MaxSem
  /\ sem' = Append(sem, [p |-> p, at |-> clock])
  /\ during' = IF PassAt("idle") /\ clock # last THEN during ELSE during \cup {Len(sem) + 1}
  /\ UNCHANGED <<clock, meta, metaLinks, last, job, passes, failures, calls, offered, few>>

MutAbort ==
  /\ ~PassAt("idle") /\ failures < MaxFailures
  /\ failures' = failures + 1 /\ job' = NoPass /\ last' = clock
  /\ UNCHANGED <<clock, sem, meta, metaLinks, passes, calls, offered, few, during>>

\* A statement outside the try blocks fails, or the process dies: the flag is
\* reset, last_reflection_at stays.
Abort ==
  /\ ~PassAt("idle") /\ failures < MaxFailures
  /\ failures' = failures + 1 /\ job' = NoPass
  /\ UNCHANGED <<clock, sem, meta, metaLinks, last, passes, calls, offered, few, during>>

-----------------------------------------------------------------------------
(* The pass.                                                               *)

\* The scheduler's run(); a second one while the flag is set returns at once.
RunReflection ==
  /\ PassAt("idle") /\ passes < MaxPasses
  /\ passes' = passes + 1
  /\ job' = [NoPass EXCEPT !.pc = "profile", !.todo = Profiles]
  /\ UNCHANGED <<clock, sem, meta, metaLinks, last, failures, calls, offered, few, during>>

RunForProfile(p) ==
  /\ PassAt("profile") /\ p \in job.todo
  /\ job' = [job EXCEPT !.pc = "d0", !.todo = @ \ {p}, !.p = p]
  /\ UNCHANGED <<surroundings, meta, metaLinks, last, calls, offered, few>>

MutFinish ==
  /\ PassAt("profile") /\ job.todo = {}
  /\ last' = clock
  /\ UNCHANGED <<surroundings, job, meta, metaLinks, calls, offered, few>>

\* The pass is stamped with the time of its end.
Finish ==
  /\ PassAt("profile") /\ job.todo = {}
  /\ last' = clock /\ job' = NoPass
  /\ UNCHANGED <<surroundings, meta, metaLinks, calls, offered, few>>

Recent(p) == {i \in Sem : sem[i].p = p /\ sem[i].at > last}

GenerateD0 ==
  LET recent == Recent(job.p) IN
  /\ PassAt("d0")
  /\ IF Cardinality(recent) < MinEntries
       THEN /\ job' = [job EXCEPT !.pc = "types", !.depth = 1, !.types = Types, !.created = 0]
            /\ few' = few \cup recent /\ UNCHANGED offered
       ELSE /\ job' = [job EXCEPT !.pc = "types", !.depth = 0, !.types = Types, !.ids = recent]
            /\ offered' = offered \cup recent /\ UNCHANGED few
  /\ UNCHANGED <<surroundings, meta, metaLinks, last, calls>>

MutUncondensed(p, t, d) ==
  {i \in Meta : meta[i].p = p /\ meta[i].t = t /\ meta[i].depth = d /\ meta[i].conf >= 1}

\* Trusted entries of a depth that no parent has been condensed from.
Uncondensed(p, t, d) ==
  {i \in Meta : /\ meta[i].p = p /\ meta[i].t = t /\ meta[i].depth = d /\ meta[i].conf >= 1
                /\ \A l \in metaLinks : l[2] # i}

\* The next type: at depth 0 the entries are those of GenerateD0, above it too
\* few uncondensed ones end the type.
NextType(t) ==
  LET ids == IF job.depth = 0 THEN job.ids ELSE Uncondensed(job.p, t, job.depth - 1)
      asks == job.depth = 0 \/ Cardinality(ids) >= MetaThreshold IN
  /\ PassAt("types") /\ t \in job.types
  /\ job' = [job EXCEPT !.types = @ \ {t}, !.t = t, !.ids = ids, !.pc = IF asks THEN "ask" ELSE "types"]
  /\ calls' = IF asks THEN calls + 1 ELSE calls
  /\ UNCHANGED <<surroundings, meta, metaLinks, last, offered, few>>

\* All types of the depth are done: the next depth while something was created.
NextDepth ==
  /\ PassAt("types") /\ job.types = {}
  /\ job' = IF job.depth < MaxDepth /\ (job.depth = 0 \/ job.created > 0)
              THEN [job EXCEPT !.depth = @ + 1, !.types = Types, !.created = 0]
              ELSE [job EXCEPT !.pc = IF Cascade THEN "cascade" ELSE "profile", !.depth = 1]
  /\ UNCHANGED <<surroundings, meta, metaLinks, last, calls, offered, few>>

\* The model's answer: a list, at its worst empty.
Ask(n) ==
  /\ PassAt("ask") /\ Len(meta) + n <= MaxMeta
  /\ job' = [job EXCEPT !.pc = "entry", !.left = n]
  /\ UNCHANGED <<surroundings, meta, metaLinks, last, calls, offered, few>>

\* The model fails, the answer is no JSON, or a statement of the try block
\* fails: what has been written stays and the type counts as none created.
CallFails ==
  /\ job.pc \in {"ask", "entry", "insert", "link"} /\ failures < MaxFailures
  /\ failures' = failures + 1
  /\ job' = [job EXCEPT !.pc = "types", !.left = 0, !.unlinked = {}]
  /\ UNCHANGED <<clock, sem, meta, metaLinks, last, passes, calls, offered, few, during>>

AnswerDone ==
  /\ PassAt("entry") /\ job.left = 0
  /\ job' = [job EXCEPT !.pc = "types"]
  /\ UNCHANGED <<surroundings, meta, metaLinks, last, calls, offered, few>>

MutNear == {i \in Meta : meta[i].p = job.p /\ meta[i].t = job.t /\ meta[i].depth = 0}

\* The entries a new observation is compared with.
Near == {i \in Meta : meta[i].p = job.p /\ meta[i].t = job.t /\ meta[i].depth = 0 /\ meta[i].conf >= 1}

\* Similarity above 0.85: the stored entry is confirmed and nothing is added.
Confirm(i) ==
  /\ PassAt("entry") /\ job.left > 0 /\ job.depth = 0 /\ i \in Near
  /\ meta' = [meta EXCEPT ![i].conf = ConfirmConfidence(@)]
  /\ job' = [job EXCEPT !.left = @ - 1]
  /\ UNCHANGED <<surroundings, metaLinks, last, calls, offered, few>>

\* Above 0.7: the stored entry is contradicted and the new one added.
Contradict(i, v) ==
  /\ PassAt("entry") /\ job.left > 0 /\ job.depth = 0 /\ i \in Near
  /\ v \in ContradictConfidence(meta[i].conf)
  /\ meta' = [meta EXCEPT ![i].conf = v]
  /\ job' = [job EXCEPT !.pc = "insert"]
  /\ UNCHANGED <<surroundings, metaLinks, last, calls, offered, few>>

\* Nothing alike, or a condensation, which compares with nothing.
Novel ==
  /\ PassAt("entry") /\ job.left > 0
  /\ job' = [job EXCEPT !.pc = "insert"]
  /\ UNCHANGED <<surroundings, meta, metaLinks, last, calls, offered, few>>

\* A new row starts at 0.25 or more: confidenceThreshold is at least that, and a
\* condensation adds 0.05 to the mean of entries of 0.2 and more.
InsertMeta ==
  /\ PassAt("insert")
  /\ meta' = Append(meta, [p |-> job.p, t |-> job.t, depth |-> job.depth, conf |-> 2, call |-> calls])
  /\ job' = [job EXCEPT !.pc = "link", !.row = Len(meta) + 1,
                           !.unlinked = IF job.depth = 0 THEN {} ELSE job.ids]
  /\ UNCHANGED <<surroundings, metaLinks, last, calls, offered, few>>

Link ==
  \E i \in job.unlinked :
    /\ PassAt("link") /\ \A j \in job.unlinked : i <= j
    /\ metaLinks' = metaLinks \cup {<<job.row, i>>}
    /\ job' = [job EXCEPT !.unlinked = @ \ {i}]
    /\ UNCHANGED <<surroundings, meta, last, calls, offered, few>>

AllLinked ==
  /\ PassAt("link") /\ job.unlinked = {}
  /\ job' = [job EXCEPT !.pc = "entry", !.left = @ - 1, !.created = @ + 1]
  /\ UNCHANGED <<surroundings, meta, metaLinks, last, calls, offered, few>>

\* One depth of the cascade: parents most of whose children are distrusted.
Doubted(d) ==
  {i \in Meta : LET kids == {l[2] : l \in {x \in metaLinks : x[1] = i}}
                IN  /\ meta[i].p = job.p /\ meta[i].depth = d /\ meta[i].conf >= 1 /\ kids # {}
                    /\ 2 * Cardinality({k \in kids : meta[k].conf = 0}) > Cardinality(kids)}

RunContradictionCascade ==
  /\ PassAt("cascade")
  /\ \E v \in [Doubted(job.depth) -> 0..2] :
       /\ \A i \in DOMAIN v : v[i] \in ContradictConfidence(meta[i].conf)
       /\ meta' = [i \in Meta |-> IF i \in DOMAIN v THEN [meta[i] EXCEPT !.conf = v[i]] ELSE meta[i]]
  /\ job' = IF job.depth < MaxDepth THEN [job EXCEPT !.depth = @ + 1] ELSE [job EXCEPT !.pc = "profile"]
  /\ UNCHANGED <<surroundings, metaLinks, last, calls, offered, few>>

-----------------------------------------------------------------------------

ReflectionInit ==
  /\ clock = 1 /\ sem = <<>> /\ meta = <<>> /\ metaLinks = {} /\ last = 0
  /\ job = NoPass /\ passes = 0 /\ failures = 0 /\ calls = 0
  /\ offered = {} /\ few = {} /\ during = {}

PassStep ==
  \/ Finish \/ GenerateD0 \/ NextDepth \/ AnswerDone \/ Novel \/ InsertMeta \/ Link \/ AllLinked
  \/ RunContradictionCascade \/ CallFails
  \/ \E p \in Profiles : RunForProfile(p)
  \/ \E t \in Types : NextType(t)
  \/ \E n \in 0..MaxAnswers : Ask(n)
  \/ \E i \in Meta : Confirm(i) \/ \E v \in 0..2 : Contradict(i, v)

ReflectionNext ==
  \/ Tick \/ RunReflection \/ PassStep \/ Abort
  \/ \E p \in Profiles : StoreSemantic(p)

\* The job's awaits complete: the event loop goes on and every call has a timeout.
ReflectionSpec == ReflectionInit /\ [][ReflectionNext]_reflectionVars /\ WF_reflectionVars(PassStep)

-----------------------------------------------------------------------------
(* Properties.                                                             *)

\* A meta entry is condensed once: all parents of an entry come from one call,
\* although a call that fails half way leaves some of its children unlinked and
\* the next pass takes those up again.
MetaCondensedOnce ==
  \A k, l \in metaLinks : k[2] = l[2] => meta[k[1]].call = meta[l[1]].call

\* No semantic entry from before the last pass was left out of reflection,
\* except one stored while a pass ran or in the very millisecond of its end,
\* whose stamp is not later than the pass's, or one of too few that a pass found.
NothingPassedOver ==
  \A i \in Sem : sem[i].at < last => i \in offered \cup during \cup few

\* An entry contradicted to below 0.2 is never trusted again: neither a later
\* confirmation nor the cascade touches it.
DistrustLasts ==
  [][\A i \in Meta : meta[i].conf = 0 => meta'[i].conf = 0]_reflectionVars

\* A pass comes to an end, so that stop(), which polls the flag, returns.
PassEnds == ~PassAt("idle") ~> PassAt("idle")
=============================================================================
