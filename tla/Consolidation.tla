--------------------------- MODULE Consolidation ---------------------------
(***************************************************************************)
(* MemoryConsolidationJob: working memory (raw messages) to semantic       *)
(* memory (summaries), with the sessions the tasks write messages into.    *)
(*                                                                         *)
(* run() works on ended sessions: it cuts their messages that no summary   *)
(* links to into chunks, and of each chunk inserts a depth 0 summary, then *)
(* the links, one row at a time, then extracts facts.  Enough depth 0      *)
(* summaries are condensed into one of depth 1.  There is no transaction.  *)
(*                                                                         *)
(* A message is the number of its timestamp.  A summary records what its   *)
(* text was made of (src), whether or not the links got written; facts are *)
(* left out.                                                               *)
(***************************************************************************)
EXTENDS Integers, FiniteSets

CONSTANTS
    Jobs,          \* invocations of run(): the timer does not wait for one
    Sessions,      \* row ids of sessions, in the order of started_at
    ChatIds, ChatOf, \* the chat of each session
    Messages,
    MinMessages,   \* minUnconsolidatedMessages
    ChunkSize,     \* chunkSize
    Threshold,     \* consolidationThreshold
    EndsSessions,  \* somebody calls endSession()
    MaxFaults,     \* bound: failing statements and model calls
    MaxCrashes     \* bound: deaths of the orchestrator

ASSUME ConsolidationAssumption ==
    /\ Sessions \subseteq Nat /\ Messages \subseteq Nat
    /\ ChatOf \in [Sessions -> ChatIds]
    /\ {MinMessages, ChunkSize, Threshold, MaxFaults, MaxCrashes} \subseteq Nat
    /\ ChunkSize > 0
    /\ EndsSessions \in BOOLEAN

NoSession == -1

VARIABLES
    sess,      \* sessions: "none", "active" or "ended"
    place,     \* where each message is: [sess, stored]
    sems,      \* memory_semantic: the summaries
    lastId,    \* the id of the newest one
    links,     \* summary_message_sources
    parents,   \* summary_parent_sources
    running,   \* MemoryConsolidationJob.running
    pc,        \* where each run() stands
    list,      \* the sessions it has still to do, then the candidates
    rest,      \* the messages of the session it has still to chunk
    todo,      \* rows it has still to link
    cur,       \* the summary it links them to
    faults, crashes

jobVars == <<pc, list, rest, todo, cur>>
consolidationVars == <<sess, place, sems, lastId, links, parents, running, jobVars, faults, crashes>>

Summary(id, depth, s, src) == [id |-> id, depth |-> depth, sess |-> s, src |-> src]

Linked(m) == \E id \in 1..lastId : <<id, m>> \in links
InSession(s) == {m \in Messages : place[m].stored /\ place[m].sess = s}

ConsolidationInit ==
    /\ sess = [s \in Sessions |-> "none"]
    /\ place = [m \in Messages |-> [sess |-> NoSession, stored |-> FALSE]]
    /\ sems = {} /\ lastId = 0 /\ links = {} /\ parents = {}
    /\ running = FALSE
    /\ pc = [j \in Jobs |-> "idle"]
    /\ list = [j \in Jobs |-> {}] /\ rest = [j \in Jobs |-> {}]
    /\ todo = [j \in Jobs |-> {}]
    /\ cur = [j \in Jobs |-> 0]
    /\ faults = 0 /\ crashes = 0

-----------------------------------------------------------------------------
(* The tasks of the orchestrator *)

tables == <<sems, lastId, links, parents>>

Active(c) == {s \in Sessions : ChatOf[s] = c /\ sess[s] = "active"}
Newest(s, S) == s \in S /\ \A t \in S : t <= s

\* startSession(), after getActiveSession() found none: two tasks of a chat may both have
\* found none, so there may be an active session by now.
StartSession(s) ==
    /\ sess[s] = "none"
    /\ \A t \in Sessions : t < s => sess[t] # "none"
    /\ sess' = [sess EXCEPT ![s] = "active"]
    /\ UNCHANGED <<place, tables, running, jobVars, faults, crashes>>

\* getActiveSession()
PickSession(m, s) ==
    /\ place[m].sess = NoSession
    /\ \A n \in Messages : n < m => place[n].sess # NoSession
    /\ Newest(s, Active(ChatOf[s]))
    /\ place' = [place EXCEPT ![m] = [sess |-> s, stored |-> FALSE]]
    /\ UNCHANGED <<sess, tables, running, jobVars, faults, crashes>>

\* backfillSessionId(), or storeMessage() of an answer
Backfill(m) ==
    /\ place[m].sess # NoSession /\ ~place[m].stored
    /\ place' = [place EXCEPT ![m] = [sess |-> place[m].sess, stored |-> TRUE]]
    /\ UNCHANGED <<sess, tables, running, jobVars, faults, crashes>>

\* endSession(), which nothing in the program calls; tasks of the session may be under way.
EndSession(s) ==
    /\ EndsSessions
    /\ sess[s] = "active"
    /\ sess' = [sess EXCEPT ![s] = "ended"]
    /\ UNCHANGED <<place, tables, running, jobVars, faults, crashes>>

-----------------------------------------------------------------------------
(* run(): which sessions *)

\* The interval timer fires.
Run(j) ==
    /\ pc[j] = "idle" /\ ~running
    /\ running' = TRUE
    /\ pc' = [pc EXCEPT ![j] = "count"]
    /\ UNCHANGED <<sess, place, tables, list, rest, todo, cur, faults, crashes>>

\* finally: running = false
Return(j) ==
    /\ running' = FALSE
    /\ pc' = [pc EXCEPT ![j] = "idle"]
    /\ list' = [list EXCEPT ![j] = {}] /\ rest' = [rest EXCEPT ![j] = {}]
    /\ todo' = [todo EXCEPT ![j] = {}]
    /\ cur' = [cur EXCEPT ![j] = 0]

Ended == {s \in Sessions : sess[s] = "ended"}

\* A session with a single linked message does not count any more.
Unconsolidated ==
    {m \in Messages : \E s \in Ended : m \in InSession(s) /\ \A n \in InSession(s) : ~Linked(n)}

TooFew(j) ==
    /\ pc[j] = "count" /\ Cardinality(Unconsolidated) < MinMessages
    /\ Return(j)
    /\ UNCHANGED <<sess, place, tables, faults, crashes>>

Enough(j) ==
    /\ pc[j] = "count" /\ Cardinality(Unconsolidated) >= MinMessages
    /\ pc' = [pc EXCEPT ![j] = "list"]
    /\ UNCHANGED <<sess, place, tables, running, list, rest, todo, cur, faults, crashes>>

ListSessions(j) ==
    /\ pc[j] = "list"
    /\ list' = [list EXCEPT ![j] = {s \in Ended : \E m \in InSession(s) : ~Linked(m)}]
    /\ pc' = [pc EXCEPT ![j] = "session"]
    /\ UNCHANGED <<sess, place, tables, running, rest, todo, cur, faults, crashes>>

-----------------------------------------------------------------------------
(* consolidateSession() *)

\* Mutant: all messages of the session, as if none had a summary.
MutUnlinked(s) == InSession(s)

Unlinked(s) == {m \in InSession(s) : ~Linked(m)}

FetchMessages(j, s) ==
    /\ pc[j] = "session" /\ s \in list[j]
    /\ list' = [list EXCEPT ![j] = @ \ {s}]
    /\ rest' = [rest EXCEPT ![j] = Unlinked(s)]
    /\ pc' = [pc EXCEPT ![j] = IF Unlinked(s) = {} THEN "session" ELSE "chunk"]
    /\ UNCHANGED <<sess, place, tables, running, todo, cur, faults, crashes>>

\* chunkArray(): the first of what is left, by timestamp
FirstChunk(S) == {m \in S : Cardinality({n \in S : n < m}) < ChunkSize}

\* What summarize() returned is embedded and inserted, be it the log of a container that
\* broke down.
InsertSummary(j) ==
    /\ pc[j] = "chunk"
    /\ LET c == FirstChunk(rest[j])
           s == place[CHOOSE m \in c : TRUE].sess
       IN  /\ sems' = sems \cup {Summary(lastId + 1, 0, s, c)}
           /\ todo' = [todo EXCEPT ![j] = c]
           /\ rest' = [rest EXCEPT ![j] = @ \ c]
    /\ lastId' = lastId + 1
    /\ cur' = [cur EXCEPT ![j] = lastId + 1]
    /\ pc' = [pc EXCEPT ![j] = "link"]
    /\ UNCHANGED <<sess, place, links, parents, running, list, faults, crashes>>

Oldest(m, S) == m \in S /\ \A n \in S : m <= n

LinkMessage(j, m) ==
    /\ pc[j] = "link" /\ Oldest(m, todo[j])
    /\ links' = links \cup {<<cur[j], m>>}
    /\ todo' = [todo EXCEPT ![j] = @ \ {m}]
    /\ pc' = [pc EXCEPT ![j] = IF todo[j] = {m} THEN "facts" ELSE "link"]
    /\ UNCHANGED <<sess, place, sems, lastId, parents, running, list, rest, cur, faults, crashes>>

\* Mutant: a last chunk that is not full is dropped.
MutExtractFacts(j) ==
    /\ pc[j] = "facts"
    /\ pc' = [pc EXCEPT ![j] = IF Cardinality(rest[j]) < ChunkSize THEN "session" ELSE "chunk"]
    /\ UNCHANGED <<sess, place, tables, running, list, rest, todo, cur, faults, crashes>>

\* extractFacts() keeps a failure to itself.
ExtractFacts(j) ==
    /\ pc[j] = "facts"
    /\ pc' = [pc EXCEPT ![j] = IF rest[j] = {} THEN "session" ELSE "chunk"]
    /\ UNCHANGED <<sess, place, tables, running, list, rest, todo, cur, faults, crashes>>

-----------------------------------------------------------------------------
(* condenseIfReady() *)

Condensed(id) == \E p \in 1..lastId : <<p, id>> \in parents

Leaves(s) == {r.id : r \in {r \in sems : r.depth = 0 /\ r.sess = s /\ ~Condensed(r.id)}}

LeavesOfChat(c) == UNION {Leaves(s) : s \in {s \in Sessions : ChatOf[s] = c}}

\* Grouped by session, not by chat.
Candidates == {s \in Sessions : Leaves(s) # {} /\ Cardinality(Leaves(s)) >= Threshold}

FindCandidates(j) ==
    /\ pc[j] = "session" /\ list[j] = {}
    /\ list' = [list EXCEPT ![j] = Candidates]
    /\ pc' = [pc EXCEPT ![j] = "condense"]
    /\ UNCHANGED <<sess, place, tables, running, rest, todo, cur, faults, crashes>>

\* The second candidate of a chat finds its summaries condensed.
SkipCandidate(j, s) ==
    /\ pc[j] = "condense" /\ s \in list[j]
    /\ Cardinality(LeavesOfChat(ChatOf[s])) < Threshold
    /\ list' = [list EXCEPT ![j] = @ \ {s}]
    /\ UNCHANGED <<sess, place, tables, running, pc, rest, todo, cur, faults, crashes>>

\* Mutant: every depth 0 summary of the chat, condensed or not.
MutInsertParent(j, s) ==
    /\ pc[j] = "condense" /\ s \in list[j]
    /\ LET kids == {r.id : r \in {r \in sems : r.depth = 0 /\ ChatOf[r.sess] = ChatOf[s]}}
       IN  /\ Cardinality(kids) >= Threshold
           /\ sems' = sems \cup {Summary(lastId + 1, 1, NoSession, kids)}
           /\ todo' = [todo EXCEPT ![j] = kids]
    /\ lastId' = lastId + 1
    /\ cur' = [cur EXCEPT ![j] = lastId + 1]
    /\ list' = [list EXCEPT ![j] = @ \ {s}]
    /\ pc' = [pc EXCEPT ![j] = "adopt"]
    /\ UNCHANGED <<sess, place, links, parents, running, rest, faults, crashes>>

InsertParent(j, s) ==
    /\ pc[j] = "condense" /\ s \in list[j]
    /\ LET kids == LeavesOfChat(ChatOf[s])
       IN  /\ Cardinality(kids) >= Threshold
           /\ sems' = sems \cup {Summary(lastId + 1, 1, NoSession, kids)}
           /\ todo' = [todo EXCEPT ![j] = kids]
    /\ lastId' = lastId + 1
    /\ cur' = [cur EXCEPT ![j] = lastId + 1]
    /\ list' = [list EXCEPT ![j] = @ \ {s}]
    /\ pc' = [pc EXCEPT ![j] = "adopt"]
    /\ UNCHANGED <<sess, place, links, parents, running, rest, faults, crashes>>

LinkChild(j, id) ==
    /\ pc[j] = "adopt" /\ Oldest(id, todo[j])
    /\ parents' = parents \cup {<<cur[j], id>>}
    /\ todo' = [todo EXCEPT ![j] = @ \ {id}]
    /\ pc' = [pc EXCEPT ![j] = IF todo[j] = {id} THEN "condense" ELSE "adopt"]
    /\ UNCHANGED <<sess, place, sems, lastId, links, running, list, rest, cur, faults, crashes>>

RunDone(j) ==
    /\ pc[j] = "condense" /\ list[j] = {}
    /\ Return(j)
    /\ UNCHANGED <<sess, place, tables, faults, crashes>>

-----------------------------------------------------------------------------
(* Failures *)

\* A statement or a model call throws: run() ends, and the next one starts afresh.
Throw(j) ==
    /\ pc[j] \notin {"idle", "facts"} /\ faults < MaxFaults
    /\ faults' = faults + 1
    /\ Return(j)
    /\ UNCHANGED <<sess, place, tables, crashes>>

\* The process dies and starts again.
Crash ==
    /\ crashes < MaxCrashes
    /\ crashes' = crashes + 1
    /\ running' = FALSE
    /\ pc' = [j \in Jobs |-> "idle"]
    /\ list' = [j \in Jobs |-> {}] /\ rest' = [j \in Jobs |-> {}]
    /\ todo' = [j \in Jobs |-> {}]
    /\ cur' = [j \in Jobs |-> 0]
    /\ UNCHANGED <<sess, place, tables, faults>>

-----------------------------------------------------------------------------
JobStep(j) ==
    \/ Run(j) \/ TooFew(j) \/ Enough(j) \/ ListSessions(j)
    \/ FindCandidates(j) \/ RunDone(j) \/ InsertSummary(j) \/ ExtractFacts(j)
    \/ \E s \in Sessions : FetchMessages(j, s) \/ SkipCandidate(j, s) \/ InsertParent(j, s)
    \/ \E m \in Messages : LinkMessage(j, m)
    \/ \E id \in 1..lastId : LinkChild(j, id)

ConsolidationNext ==
    \/ \E s \in Sessions : StartSession(s) \/ EndSession(s)
    \/ \E m \in Messages : Backfill(m) \/ \E s \in Sessions : PickSession(m, s)
    \/ \E j \in Jobs : JobStep(j) \/ Throw(j)
    \/ Crash

ConsolidationSpec == ConsolidationInit /\ [][ConsolidationNext]_consolidationVars

\* The event loop takes the steps of a run, the interval timer starts runs for ever, and
\* every message's task goes on.
Fairness ==
    /\ \A j \in Jobs : WF_consolidationVars(JobStep(j))
    /\ \A m \in Messages : WF_consolidationVars(Backfill(m))

FairSpec == ConsolidationSpec /\ Fairness

-----------------------------------------------------------------------------
(* Properties *)

Steps == {"idle", "count", "list", "session", "chunk", "link", "facts", "condense", "adopt"}

\* The variables keep their types, and `running` does not stay set after the last run() has ended.
TypeOK ==
    /\ sess \in [Sessions -> {"none", "active", "ended"}]
    /\ place \in [Messages -> [sess : Sessions \cup {NoSession}, stored : BOOLEAN]]
    /\ lastId \in Nat
    /\ sems \subseteq [id : 1..lastId, depth : {0, 1}, sess : Sessions \cup {NoSession},
                       src : SUBSET (Messages \cup 1..lastId)]
    /\ links \subseteq (1..lastId) \X Messages /\ parents \subseteq (1..lastId) \X (1..lastId)
    /\ pc \in [Jobs -> Steps]
    /\ list \in [Jobs -> SUBSET Sessions]
    /\ rest \in [Jobs -> SUBSET Messages]
    /\ todo \in [Jobs -> SUBSET (Messages \cup 1..lastId)] /\ cur \in [Jobs -> 0..lastId]
    /\ faults \in 0..MaxFaults /\ crashes \in 0..MaxCrashes
    /\ running \in BOOLEAN
    /\ running => \E j \in Jobs : pc[j] # "idle"

\* No message is linked to two summaries, although runs start on a timer, fail half-way and
\* find new messages in sessions they have been through.
SummarisedOnce ==
    \A m \in Messages : \A i, k \in 1..lastId : {<<i, m>>, <<k, m>>} \subseteq links => i = k

\* Nor is a depth 0 summary condensed twice, although a chat with several candidate sessions
\* comes up several times.
CondensedOnce ==
    \A c, i, k \in 1..lastId : {<<i, c>>, <<k, c>>} \subseteq parents => i = k

\* A message the count query would count between two runs gets its summary, unless a run
\* breaks off. (One that is stored in an ended session while a run is at that session is
\* passed over by the count for good.)
CountedConsolidated ==
    \A m \in Messages :
        (m \in Unconsolidated /\ ~running) ~> (Linked(m) \/ faults + crashes > 0)

\* docs/memory.md:135, "On a scheduled basis (default every 6 hours), the
\* `MemoryConsolidationJob` compresses ended sessions' messages into summary entries", and
\* sessions end at the latest on restart (:949): what a task stored is summarised one day.
\* (The code does not keep it: README, Divergences.)
StoredConsolidated ==
    \A m \in Messages : place[m].stored ~> (Linked(m) \/ faults + crashes > 0)
=============================================================================
