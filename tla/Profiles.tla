------------------------------ MODULE Profiles ------------------------------
(***************************************************************************)
(* Agent profiles: ProfileManager and IdentityManager over PostgreSQL, and *)
(* the three front ends that call them at the same time: the tools of a    *)
(* chat's MCP server, the channel commands, and the CLI, which is another  *)
(* process.  One action is one SQL statement or one transaction; what a    *)
(* call has read before an await is kept in call[w] until it is used.      *)
(*                                                                         *)
(* A table is abstracted to whether a profile has rows in it, the four     *)
(* join tables to one.  Profile 0 stands for the user's own two tables,    *)
(* which belong to no profile.                                             *)
(***************************************************************************)
EXTENDS Integers, FiniteSets

CONSTANTS
  Chats,       \* chat ids
  Callers,     \* calls that can be in flight at once
  MaxProfiles, \* config.profiles.maxPerUser
  MaxId,       \* bound: profiles ever created
  MaxOps       \* bound: calls ever made

ASSUME ProfilesAssumption ==
  /\ MaxProfiles \in Nat \ {0} /\ MaxId \in Nat /\ MaxOps \in Nat /\ MaxId > MaxProfiles + 1
  /\ IsFiniteSet(Callers) /\ Callers # {}

VARIABLES
  profiles,  \* ids of the rows of agent_profiles
  dflt,      \* the row with is_default, or None
  nextId,    \* the next profile's id
  seed,      \* the profile named 'default'
  chat,      \* chats.profile_id, None where there is no row
  rows,      \* the tables in which a profile has rows
  proposals, \* profiles with an identity_proposal_* key in the state table
  newChats,  \* the default the channel container has cached, or None
  server,    \* McpServer.profileId of a chat's server, None without one
  call,      \* what each caller is in the middle of
  up,        \* the daemon runs
  ops,       \* calls made so far
  had,       \* history: the profiles a chat has been assigned to
  shown,     \* history: the profiles whose rows a chat's agent was shown
  outside,   \* history: the chat was switched past its MCP server
  unsettled  \* history: the default moved under a deletion or to a deleted one

db    == <<profiles, dflt, nextId, seed, chat, rows, proposals>>
ghost == <<had, shown, outside, unsettled>>
vars  == <<db, newChats, server, call, up, ops, ghost>>

Ids    == 1..MaxId
None   == -1
User   == 0
NoChat == "no chat" \* a call of the CLI or of an administrator
Setup  == "setup"   \* one that goes on to the user's identity
Tables == {"identity", "personality", "semantic", "meta", "external", "joins"}

\* The order in which deleteProfile empties the tables, the profile row last.
After == [joins |-> "external", external |-> "meta", meta |-> "semantic",
          semantic |-> "personality", personality |-> "identity", identity |-> "profile"]

Idle == [op |-> "idle", c |-> NoChat, p |-> None, t |-> "none", b |-> FALSE]

\* Deleting a memory row takes its join rows along (ON DELETE CASCADE).
Without(ts, t) == IF t \in {"semantic", "meta"} THEN ts \ {t, "joins"} ELSE ts \ {t}

Referenced(p) == \E c \in Chats : chat[c] = p

-----------------------------------------------------------------------------
(* Calls.                                                                  *)

Begin(w) == /\ call[w].op = "idle" /\ ops < MaxOps
            /\ ops' = ops + 1

At(w, op) == call[w].op = op /\ UNCHANGED ops

Goes(w, op, c, p, t, b) ==
  call' = [call EXCEPT ![w] = [op |-> op, c |-> c, p |-> p, t |-> t, b |-> b]]

Done(w) == call' = [call EXCEPT ![w] = Idle]

-----------------------------------------------------------------------------
(* ProfileManager.                                                         *)

CreateProfile(w) ==
  /\ Begin(w) /\ Cardinality(profiles) < MaxProfiles
  /\ Goes(w, "insert", NoChat, None, "none", profiles = {})
  /\ UNCHANGED <<db, newChats, server, up, ghost>>

\* The partial unique index refuses a second default.
InsertProfile(w) ==
  /\ At(w, "insert") /\ nextId <= MaxId
  /\ Done(w)
  /\ IF call[w].b /\ dflt # None
       THEN UNCHANGED <<profiles, dflt, nextId>>
       ELSE /\ profiles' = profiles \cup {nextId}
            /\ dflt' = IF call[w].b THEN nextId ELSE dflt
            /\ nextId' = nextId + 1
  /\ UNCHANGED <<seed, chat, rows, proposals, newChats, server, up, ghost>>

CloneProfile(w, p) ==
  /\ Begin(w) /\ p \in profiles /\ Cardinality(profiles) < MaxProfiles
  /\ Goes(w, "clone", NoChat, p, "none", FALSE)
  /\ UNCHANGED <<db, newChats, server, up, ghost>>

\* One transaction: the new profile with a copy of every row the source has now.
CloneRows(w) ==
  /\ At(w, "clone") /\ nextId <= MaxId
  /\ profiles' = profiles \cup {nextId}
  /\ rows' = [rows EXCEPT ![nextId] = rows[call[w].p]]
  /\ nextId' = nextId + 1
  /\ Done(w)
  /\ UNCHANGED <<dflt, seed, chat, proposals, newChats, server, up, ghost>>

MutDeleteProfile(w, p) ==
  /\ Begin(w) /\ p \in profiles
  /\ Goes(w, "countChats", NoChat, p, "none", FALSE)
  /\ UNCHANGED <<db, newChats, server, up, ghost>>

DeleteProfile(w, p) ==
  /\ Begin(w) /\ p \in profiles /\ p # dflt
  /\ Goes(w, "countChats", NoChat, p, "none", FALSE)
  /\ UNCHANGED <<db, newChats, server, up, ghost>>

CountChats(w) ==
  /\ At(w, "countChats")
  /\ IF Referenced(call[w].p) THEN Done(w)
     ELSE Goes(w, "delete", NoChat, call[w].p, "joins", FALSE)
  /\ UNCHANGED <<db, newChats, server, up, ghost>>

\* Each DELETE commits by itself.
DeleteRows(w) ==
  LET p == call[w].p
      t == call[w].t IN
  /\ At(w, "delete") /\ t \in Tables
  /\ rows' = [rows EXCEPT ![p] = Without(@, t)]
  /\ Goes(w, "delete", NoChat, p, After[t], FALSE)
  /\ UNCHANGED <<profiles, dflt, nextId, seed, chat, proposals, newChats, server, up, ghost>>

\* Foreign keys without a cascade: the row stays when anything refers to it.
DropProfile(w) ==
  LET p == call[w].p
      kept == Referenced(p) \/ rows[p] # {} IN
  /\ At(w, "delete") /\ call[w].t = "profile"
  /\ profiles' = IF kept THEN profiles ELSE profiles \ {p}
  /\ dflt' = IF ~kept /\ dflt = p THEN None ELSE dflt
  /\ Done(w)
  /\ UNCHANGED <<nextId, seed, chat, rows, proposals, newChats, server, up, ghost>>

SetDefaultProfile(w, p) ==
  /\ Begin(w) /\ p \in profiles /\ p # dflt
  /\ Goes(w, "setDefault", NoChat, p, "none", FALSE)
  /\ UNCHANGED <<db, newChats, server, up, ghost>>

\* The transaction: the old default is unset even when the new one is gone.
MoveDefault(w) ==
  LET p == call[w].p IN
  /\ At(w, "setDefault")
  /\ dflt' = IF p \in profiles THEN p ELSE None
  /\ unsettled' = (unsettled \/ p \notin profiles
                     \/ \E v \in Callers : call[v].op \in {"countChats", "delete"} /\ call[v].p = p)
  /\ Done(w)
  /\ UNCHANGED <<profiles, nextId, seed, chat, rows, proposals, newChats, server, up, had, shown, outside>>

MutAssignChat(w) ==
  LET c == call[w].c
      p == call[w].p IN
  /\ At(w, "assign")
  /\ Done(w)
  /\ chat' = IF p \in profiles THEN [chat EXCEPT ![c] = p] ELSE chat
  /\ had' = IF p \in profiles THEN [had EXCEPT ![c] = @ \cup {p}] ELSE had
  /\ outside' = [outside EXCEPT ![c] = @ \/ ~call[w].b]
  /\ UNCHANGED <<profiles, dflt, nextId, seed, rows, proposals, newChats, server, up, shown, unsettled>>

\* b tells the tool, which goes on to its cached profile, from the command.
\* The switch goes past the server when it is the command's, or when another
\* call of the chat has a profile in hand that it has yet to cache.
AssignChat(w) ==
  LET c == call[w].c
      p == call[w].p
      overlaps == \E v \in Callers \ {w} : call[v].c = c /\ call[v].op \in {"cache", "listen"} IN
  /\ At(w, "assign")
  /\ IF p \in profiles
       THEN /\ chat' = [chat EXCEPT ![c] = p]
            /\ had' = [had EXCEPT ![c] = @ \cup {p}]
            /\ outside' = [outside EXCEPT ![c] = @ \/ ~call[w].b \/ overlaps]
            /\ IF call[w].b THEN Goes(w, "cache", c, p, "none", TRUE) ELSE Done(w)
       ELSE Done(w) /\ UNCHANGED <<chat, had, outside>>
  /\ UNCHANGED <<profiles, dflt, nextId, seed, rows, proposals, newChats, server, up, shown, unsettled>>

-----------------------------------------------------------------------------
(* IdentityManager: a SELECT, then an UPDATE or an INSERT.                 *)

Upsert(w, c, p, t) ==
  /\ Begin(w) /\ Goes(w, "look", c, p, t, FALSE)
  /\ UNCHANGED <<db, newChats, server, up, ghost>>

Look(w) ==
  /\ At(w, "look")
  /\ Goes(w, "write", call[w].c, call[w].p, call[w].t, call[w].t \in rows[call[w].p])
  /\ UNCHANGED <<db, newChats, server, up, ghost>>

\* An INSERT needs the profile; an UPDATE of a row that has gone changes nothing.
Inserts(p, t) == rows' = IF p \in profiles \cup {User} THEN [rows EXCEPT ![p] = @ \cup {t}] ELSE rows

WriteRow(w) ==
  /\ At(w, "write")
  /\ IF call[w].b THEN UNCHANGED rows ELSE Inserts(call[w].p, call[w].t)
  /\ IF call[w].c = Setup THEN Goes(w, "look", NoChat, User, "identity", FALSE) ELSE Done(w)
  /\ UNCHANGED <<profiles, dflt, nextId, seed, chat, proposals, newChats, server, up, ghost>>

SetAgentIdentity(w, c, p)        == Upsert(w, c, p, "identity")
ObserveAgentPersonality(w, c, p) == Upsert(w, c, p, "personality")
UpdateUserIdentity(w, c)         == Upsert(w, c, User, "identity")
ObserveUserPersonality(w, c)     == Upsert(w, c, User, "personality")

DeleteAgentPersonality(w, p) ==
  /\ Begin(w)
  /\ rows' = [rows EXCEPT ![p] = @ \ {"personality"}]
  /\ UNCHANGED <<profiles, dflt, nextId, seed, chat, proposals, newChats, server, call, up, ghost>>

DeleteUserPersonality(w) == DeleteAgentPersonality(w, User)

ProposeIdentityUpdate(w, p) ==
  /\ Begin(w)
  /\ proposals' = proposals \cup {p}
  /\ UNCHANGED <<profiles, dflt, nextId, seed, chat, rows, newChats, server, call, up, ghost>>

ConfirmIdentityUpdate(w, p) ==
  /\ Begin(w) /\ p \in proposals /\ "identity" \in rows[p]
  /\ proposals' = proposals \ {p}
  /\ UNCHANGED <<profiles, dflt, nextId, seed, chat, rows, newChats, server, call, up, ghost>>

-----------------------------------------------------------------------------
(* MemoryManager: stores and queries under one profile.                    *)

Store(w, c, p, t) ==
  /\ Begin(w) /\ Goes(w, "embed", c, p, t, FALSE)
  /\ UNCHANGED <<db, newChats, server, up, ghost>>

StoreSemanticMemory(w) ==
  /\ At(w, "embed") /\ call[w].t = "semantic"
  /\ Inserts(call[w].p, "semantic")
  /\ Done(w)
  /\ UNCHANGED <<profiles, dflt, nextId, seed, chat, proposals, newChats, server, up, ghost>>

StoreExternalMemory(w) ==
  /\ At(w, "embed") /\ call[w].t = "external"
  /\ Inserts(call[w].p, "external")
  /\ Done(w)
  /\ UNCHANGED <<profiles, dflt, nextId, seed, chat, proposals, newChats, server, up, ghost>>

RemoveExternalBySource(w, p) ==
  /\ Begin(w) /\ "external" \in rows[p]
  /\ rows' = [rows EXCEPT ![p] = @ \ {"external"}]
  /\ UNCHANGED <<profiles, dflt, nextId, seed, chat, proposals, newChats, server, call, up, ghost>>

DeleteSemanticMemory(w, p) ==
  /\ Begin(w) /\ "semantic" \in rows[p]
  /\ rows' = [rows EXCEPT ![p] = Without(@, "semantic")]
  /\ UNCHANGED <<profiles, dflt, nextId, seed, chat, proposals, newChats, server, call, up, ghost>>

Query(w, c, p, t) ==
  /\ Begin(w) /\ Goes(w, "query", c, p, t, FALSE)
  /\ UNCHANGED <<db, newChats, server, up, ghost>>

Answers(w, ts) ==
  LET c == call[w].c
      p == call[w].p IN
  /\ At(w, "query")
  /\ shown' = IF ts \cap rows[p] # {} THEN [shown EXCEPT ![c] = @ \cup {p}] ELSE shown
  /\ Done(w)
  /\ UNCHANGED <<db, newChats, server, up, had, outside, unsettled>>

QuerySemanticMemory(w) == call[w].t = "semantic" /\ Answers(w, {"semantic"})
QueryMetaMemory(w)     == call[w].t = "meta" /\ Answers(w, {"meta"})
QueryExternalMemory(w) == call[w].t = "external" /\ Answers(w, {"external"})
ExpandMemory(w)        == call[w].t = "summary" /\ Answers(w, {"semantic"})
ExpandMetaMemory(w)    == call[w].t = "sources" /\ Answers(w, {"meta", "semantic"})
TraceMetaToSources(w)  == call[w].t = "trace" /\ Answers(w, {"semantic"})
ReadIdentity(w)        == call[w].t = "identity" /\ Answers(w, {"identity", "personality"})

\* buildAgentContext: the chat's own profile, whatever its server has cached.
BuildAgentContext(w, c) ==
  /\ up /\ chat[c] # None
  /\ Query(w, c, chat[c], "context")

ReadContext(w) == call[w].t = "context" /\ Answers(w, Tables)
=============================================================================
