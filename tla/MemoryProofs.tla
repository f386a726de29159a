---------------------------- MODULE MemoryProofs ----------------------------
(***************************************************************************)
(* What is proved of the long-term memory: profiles, reflection and        *)
(* consolidation. The three specifications share no name, so that one      *)
(* module extends them all; no theorem is about two of them at once.       *)
(*                                                                         *)
(* Profiles. OnlyOwnProfiles is inductive together with what the calls in  *)
(* flight hold (OwnInv): a call read the profile from the chat's row or    *)
(* from its server some steps ago. ServerFollowsChat needs OwnInv and that *)
(* a call about to cache a profile has the current one. ProfilesSound      *)
(* needs that no call is deleting the default, and counts the calls        *)
(* between the check of the limit and the insert (LimitInv).               *)
(*                                                                         *)
(* Reflection. The parents of an entry are compared with the call under    *)
(* way (CondInv), the entries before the stamp with what the pass has      *)
(* still to read (PassInv). DistrustLasts needs the types only.            *)
(*                                                                         *)
(* Consolidation. SummarisedOnce and CondensedOnce are not inductive: the  *)
(* run under way must be alone (OneRun), and what it is about to link must *)
(* still be free (MessagesFree, LeavesFree).                               *)
(***************************************************************************)
EXTENDS ProfileFrontends, Reflection, Consolidation, FiniteSetTheorems, TLAPS

-----------------------------------------------------------------------------
-----------------------------------------------------------------------------
(***************************************************************************)
(* Profiles: every step is quiet, or one of a few that change who has      *)
(* what.                                                                   *)
(***************************************************************************)

\* The rows of profiles are numbered from 1, the tables of the model are total.
ProfileTypes ==
  /\ nextId \in Nat /\ nextId >= 1
  /\ profiles \subseteq 1..(nextId - 1)
  /\ DOMAIN call = Callers
  /\ DOMAIN chat = Chats /\ DOMAIN server = Chats /\ DOMAIN had = Chats /\ DOMAIN shown = Chats
  /\ outside \in [Chats -> BOOLEAN] /\ unsettled \in BOOLEAN

\* What a call that has nothing but itself to change may become.
Becomes(w, x) ==
  \/ x.op \in {"idle", "look", "write", "embed", "setDefault"}
  \/ x.op \in {"insert", "clone"} /\ Cardinality(profiles) < MaxProfiles
  \/ x.op = "countChats" /\ x.p # dflt
  \/ x.op = "delete" /\ call[w].op \in {"countChats", "delete"} /\ x.p = call[w].p
  \/ x.op = "assign" /\ x.c \in Chats
  \/ x.op = "listen" /\ x.c \in Chats /\ x.p = chat[x.c] /\ x.p # None
  \/ /\ x.op = "query" /\ x.c \in Chats
     /\ x.p \in shown[x.c] \cup ({chat[x.c], server[x.c]} \ {None})

\* A step that leaves the profiles, the chats and their servers alone.
Quiet ==
  /\ UNCHANGED <<profiles, dflt, nextId, seed, chat, server, had, shown, outside, unsettled>>
  /\ \/ call' = call
     \/ \E w \in Callers : \E x : /\ call' = [call EXCEPT ![w] = x] /\ call[w].op # "cache"
                                 /\ Becomes(w, x)

\* The steps that do not.
Loud ==
  \/ Stop \/ Start \/ \E c \in Chats : EnsureChat(c)
  \/ \E w \in Callers :
       \/ InsertProfile(w) \/ CloneRows(w) \/ DropProfile(w) \/ MoveDefault(w) \/ AssignChat(w)
       \/ Listen(w) \/ CacheProfile(w) \/ \E ts : Answers(w, ts)

-----------------------------------------------------------------------------
\* The ways in which a call begins or goes on.
LEMMA GoesQuiet ==
  ASSUME NEW w \in Callers, NEW op, NEW c, NEW p, NEW t, NEW b, Goes(w, op, c, p, t, b),
         UNCHANGED <<db, newChats, server, up, ghost>> \/ UNCHANGED <<profiles, dflt, nextId, seed, chat, server, ghost>>,
         call[w].op # "cache",
         \A x : x.op = op /\ x.c = c /\ x.p = p => Becomes(w, x)
  PROVE  Quiet
<1> DEFINE x == [op |-> op, c |-> c, p |-> p, t |-> t, b |-> b]
<1>1. x.op = op /\ x.c = c /\ x.p = p
  OBVIOUS
<1>2. call' = [call EXCEPT ![w] = x]
  BY DEF Goes
<1> HIDE DEF x
<1>3. Becomes(w, x)
  BY <1>1
<1> QED BY <1>2, <1>3 DEF Quiet, db, ghost

LEMMA DoneQuiet ==
  ASSUME NEW w \in Callers, Done(w), UNCHANGED <<profiles, dflt, nextId, seed, chat, server, ghost>>,
         call[w].op # "cache"
  PROVE  Quiet
<1>1. call' = [call EXCEPT ![w] = Idle] /\ Becomes(w, Idle)
  BY DEF Done, Becomes, Idle
<1> QED BY <1>1 DEF Quiet, ghost

LEMMA UpsertQuiet ==
  ASSUME NEW w \in Callers, NEW c, NEW p, NEW t, Upsert(w, c, p, t)
  PROVE  Quiet
<1>1. \A x : x.op = "look" => Becomes(w, x)
  BY DEF Becomes
<1> QED BY <1>1, GoesQuiet DEF Upsert, Begin

LEMMA StoreQuiet ==
  ASSUME NEW w \in Callers, NEW c, NEW p, NEW t, Store(w, c, p, t)
  PROVE  Quiet
<1>1. \A x : x.op = "embed" => Becomes(w, x)
  BY DEF Becomes
<1> QED BY <1>1, GoesQuiet DEF Store, Begin

LEMMA QueryQuiet ==
  ASSUME NEW w \in Callers, NEW c \in Chats, NEW p, NEW t, Query(w, c, p, t),
         p \in shown[c] \cup ({chat[c], server[c]} \ {None})
  PROVE  Quiet
<1>1. \A x : x.op = "query" /\ x.c = c /\ x.p = p => Becomes(w, x)
  BY DEF Becomes
<1> QED BY <1>1, GoesQuiet DEF Query, Begin

\* A call that is over at once, or that leaves its caller as it is.
LEMMA RowsQuiet ==
  ASSUME call' = call, UNCHANGED <<profiles, dflt, nextId, seed, chat, server, ghost>>
  PROVE  Quiet
BY DEF Quiet, ghost

-----------------------------------------------------------------------------
\* The calls that create, clone, delete and choose profiles.
LEMMA ManageKinds ==
  ASSUME NEW w \in Callers, Manage(w) PROVE Quiet \/ Loud
<1>1. CASE CreateProfile(w)
  <2>1. \A x : x.op = "insert" => Becomes(w, x)
    BY <1>1 DEF Becomes, CreateProfile
  <2> QED BY <1>1, <2>1, GoesQuiet DEF CreateProfile, Begin
<1>2. CASE InsertProfile(w) \/ CloneRows(w) \/ DropProfile(w) \/ MoveDefault(w) \/ AssignChat(w)
  BY <1>2 DEF Loud
<1>3. CASE CountChats(w)
  <2>1. CASE Referenced(call[w].p)
    BY <1>3, <2>1, DoneQuiet DEF CountChats, At, db
  <2>2. CASE ~Referenced(call[w].p)
    <3>1. \A x : x.op = "delete" /\ x.p = call[w].p => Becomes(w, x)
      BY <1>3 DEF Becomes, CountChats, At
    <3> QED BY <1>3, <2>2, <3>1, GoesQuiet DEF CountChats, At
  <2> QED BY <2>1, <2>2
<1>4. CASE DeleteRows(w)
  <2>1. \A x : x.op = "delete" /\ x.p = call[w].p => Becomes(w, x)
    BY <1>4 DEF Becomes, DeleteRows, At
  <2> QED BY <1>4, <2>1, GoesQuiet DEF DeleteRows, At
<1>5. ASSUME NEW p \in profiles, CloneProfile(w, p) PROVE Quiet
  <2>1. \A x : x.op = "clone" => Becomes(w, x)
    BY <1>5 DEF Becomes, CloneProfile
  <2> QED BY <1>5, <2>1, GoesQuiet DEF CloneProfile, Begin
<1>6. ASSUME NEW p \in profiles, DeleteProfile(w, p) PROVE Quiet
  <2>1. \A x : x.op = "countChats" /\ x.p = p => Becomes(w, x)
    BY <1>6 DEF Becomes, DeleteProfile
  <2> QED BY <1>6, <2>1, GoesQuiet DEF DeleteProfile, Begin
<1>7. ASSUME NEW p \in profiles, SetDefaultProfile(w, p) PROVE Quiet
  <2>1. \A x : x.op = "setDefault" => Becomes(w, x)
    BY DEF Becomes
  <2> QED BY <1>7, <2>1, GoesQuiet DEF SetDefaultProfile, Begin
<1> QED BY <1>1, <1>2, <1>3, <1>4, <1>5, <1>6, <1>7 DEF Manage

\* The calls that read and write a profile's rows.
LEMMA RememberKinds ==
  ASSUME NEW w \in Callers, Remember(w) PROVE Quiet \/ Loud
<1>1. CASE Look(w)
  <2>1. \A x : x.op = "write" => Becomes(w, x)
    BY DEF Becomes
  <2> QED BY <1>1, <2>1, GoesQuiet DEF Look, At
<1>2. CASE WriteRow(w)
  <2>1. \A x : x.op = "look" => Becomes(w, x)
    BY DEF Becomes
  <2>2. CASE call[w].c = Setup
    BY <1>2, <2>1, <2>2, GoesQuiet DEF WriteRow, At
  <2>3. CASE call[w].c # Setup
    BY <1>2, <2>3, DoneQuiet DEF WriteRow, At
  <2> QED BY <2>2, <2>3
<1>3. CASE StoreSemanticMemory(w) \/ StoreExternalMemory(w)
  BY <1>3, DoneQuiet DEF StoreSemanticMemory, StoreExternalMemory, At
<1>4. CASE \E ts : Answers(w, ts)
  BY <1>4 DEF Loud
<1>5. ASSUME NEW p \in profiles,
             ConfirmIdentityUpdate(w, p) \/ RemoveExternalBySource(w, p) \/ DeleteSemanticMemory(w, p)
      PROVE  Quiet
  BY <1>5, RowsQuiet DEF ConfirmIdentityUpdate, RemoveExternalBySource, DeleteSemanticMemory
<1>6. ASSUME NEW p \in profiles, Store(w, NoChat, p, "external") PROVE Quiet
  BY <1>6, StoreQuiet
<1>7. CASE \/ QuerySemanticMemory(w) \/ QueryMetaMemory(w) \/ QueryExternalMemory(w)
           \/ ExpandMemory(w) \/ ExpandMetaMemory(w) \/ TraceMetaToSources(w)
           \/ ReadIdentity(w) \/ ReadContext(w)
  BY <1>4, <1>7 DEF QuerySemanticMemory, QueryMetaMemory, QueryExternalMemory, ExpandMemory,
                    ExpandMetaMemory, TraceMetaToSources, ReadIdentity, ReadContext
<1> QED BY <1>1, <1>2, <1>3, <1>5, <1>6, <1>7 DEF Remember

\* The turns of the agents, the tool calls and the channel commands.
LEMMA ChatKinds ==
  ASSUME NEW w \in Callers, NEW c \in Chats,
         \/ Turn(w, c) \/ HandleToolCall(w, c)
         \/ HandleIdentity(w, c) \/ HandlePersonality(w, c) \/ HandleProfile(w, c)
  PROVE  Quiet
<1>a. \A x : x.op = "assign" /\ x.c = c => Becomes(w, x)
  BY DEF Becomes
<1>b. chat[c] # None => ResolveProfileId(c) = chat[c]
  BY DEF ResolveProfileId
<1>1. CASE Turn(w, c)
  <2>1. CASE BuildAgentContext(w, c)
    BY <2>1, QueryQuiet DEF BuildAgentContext
  <2>2. CASE ExtractMemories(w, c)
    BY <2>2, StoreQuiet DEF ExtractMemories
  <2>3. CASE StartServer(w, c)
    <3>1. chat[c] # None /\ Goes(w, "listen", c, chat[c], "none", FALSE)
      BY <2>3 DEF StartServer
    <3>2. \A x : x.op = "listen" /\ x.c = c /\ x.p = chat[c] => Becomes(w, x)
      BY <3>1 DEF Becomes
    <3> QED BY <2>3, <3>1, <3>2, GoesQuiet DEF StartServer, Begin
  <2> QED BY <1>1, <2>1, <2>2, <2>3 DEF Turn
<1>2. CASE HandleToolCall(w, c)
  <2>1. CASE \/ ToolSearchSemantic(w, c) \/ ToolSearchExternal(w, c) \/ ToolSearchMeta(w, c)
             \/ ToolGetIdentity(w, c)
    BY <2>1, QueryQuiet DEF ToolSearchSemantic, ToolSearchExternal, ToolSearchMeta, ToolGetIdentity, Serves
  <2>2. CASE ToolStoreSemantic(w, c)
    BY <2>2, StoreQuiet DEF ToolStoreSemantic
  <2>3. CASE ToolObservePersonality(w, c) \/ ToolObserveUser(w, c) \/ ToolUpdateUserIdentity(w, c)
    BY <2>3, UpsertQuiet DEF ToolObservePersonality, ToolObserveUser, ToolUpdateUserIdentity,
         ObserveAgentPersonality, ObserveUserPersonality, UpdateUserIdentity
  <2>4. CASE ToolProposeIdentityUpdate(w, c)
    BY <2>4, RowsQuiet DEF ToolProposeIdentityUpdate, ProposeIdentityUpdate
  <2>5. ASSUME NEW p \in Ids, ToolExpandMemory(w, c, p) \/ ToolExpandMeta(w, c, p) \/ ToolTraceToSource(w, c, p)
        PROVE  Quiet
    BY <2>5, QueryQuiet DEF ToolExpandMemory, ToolExpandMeta, ToolTraceToSource
  <2>6. ASSUME NEW p \in Ids, ToolSwitchChatProfile(w, c, p) PROVE Quiet
    BY <1>a, <2>6, GoesQuiet DEF ToolSwitchChatProfile, Begin
  <2> QED BY <1>2, <2>1, <2>2, <2>3, <2>4, <2>5, <2>6 DEF HandleToolCall
<1>3. CASE HandleIdentity(w, c)
  <2>1. CASE IdentityShow(w, c)
    BY <1>b, <2>1, QueryQuiet DEF IdentityShow, Command
  <2>2. CASE IdentitySetUser(w, c)
    BY <2>2, UpsertQuiet DEF IdentitySetUser, UpdateUserIdentity
  <2>3. ASSUME NEW complete \in BOOLEAN, IdentitySetAgent(w, c, complete) PROVE Quiet
    BY <2>3, UpsertQuiet DEF IdentitySetAgent, SetAgentIdentity
  <2> QED BY <1>3, <2>1, <2>2, <2>3 DEF HandleIdentity
<1>4. CASE HandlePersonality(w, c)
  <2>1. CASE PersonalityShow(w, c)
    BY <1>b, <2>1, QueryQuiet DEF PersonalityShow, Command
  <2>2. CASE PersonalitySetAgent(w, c) \/ PersonalitySetUser(w, c)
    BY <2>2, UpsertQuiet DEF PersonalitySetAgent, PersonalitySetUser, ObserveAgentPersonality, ObserveUserPersonality
  <2>3. CASE PersonalityResetAgent(w, c) \/ PersonalityResetUser(w, c)
    BY <2>3, RowsQuiet DEF PersonalityResetAgent, PersonalityResetUser, DeleteUserPersonality, DeleteAgentPersonality
  <2> QED BY <1>4, <2>1, <2>2, <2>3 DEF HandlePersonality
<1>5. CASE HandleProfile(w, c)
  BY <1>a, <1>5, GoesQuiet DEF HandleProfile, ProfileSwitch, Begin
<1> QED BY <1>1, <1>2, <1>3, <1>4, <1>5

\* The host's command line.
LEMMA AdminKinds ==
  ASSUME NEW w \in Callers,
         DispatchIdentityCommand(w) \/ DispatchPersonalityCommand(w) \/ SetupIdentityCommand(w)
  PROVE  Quiet
<1>1. CASE DispatchIdentityCommand(w)
  BY <1>1, UpsertQuiet DEF DispatchIdentityCommand, IdentityUserSetCommand, IdentityAgentSetCommand,
       UpdateUserIdentity, SetAgentIdentity
<1>2. CASE PersonalityUserSetCommand(w) \/ \E p \in Ids : PersonalityAgentSetCommand(w, p)
  BY <1>2, UpsertQuiet DEF PersonalityUserSetCommand, PersonalityAgentSetCommand,
       ObserveUserPersonality, ObserveAgentPersonality
<1>3. CASE PersonalityUserResetCommand(w) \/ \E p \in Ids : PersonalityAgentResetCommand(w, p)
  BY <1>3, RowsQuiet DEF PersonalityUserResetCommand, PersonalityAgentResetCommand,
       DeleteUserPersonality, DeleteAgentPersonality
<1>4. CASE SetupIdentityCommand(w)
  BY <1>4, UpsertQuiet DEF SetupIdentityCommand, SetAgentIdentity, UpdateUserIdentity
<1> QED BY <1>1, <1>2, <1>3, <1>4 DEF DispatchPersonalityCommand

\* Every step is of one of the two kinds.
LEMMA StepKinds == [Next]_vars => Quiet \/ Loud
<1> SUFFICES ASSUME [Next]_vars PROVE Quiet \/ Loud
  OBVIOUS
<1>1. CASE UNCHANGED vars
  BY <1>1, RowsQuiet DEF vars, db
<1>2. CASE Stop \/ Start \/ \E c \in Chats : EnsureChat(c)
  BY <1>2 DEF Loud
<1>3. CASE \E p \in profiles : Reflects(p)
  BY <1>3, RowsQuiet DEF Reflects
<1>4. ASSUME NEW w \in Callers, Manage(w) PROVE Quiet \/ Loud
  BY <1>4, ManageKinds
<1>5. ASSUME NEW w \in Callers, Remember(w) PROVE Quiet \/ Loud
  BY <1>5, RememberKinds
<1>6. ASSUME NEW w \in Callers, Listen(w) \/ CacheProfile(w) PROVE Quiet \/ Loud
  BY <1>6 DEF Loud
<1>7. ASSUME NEW w \in Callers,
             DispatchIdentityCommand(w) \/ DispatchPersonalityCommand(w) \/ SetupIdentityCommand(w)
      PROVE  Quiet \/ Loud
  BY <1>7, AdminKinds
<1>8. ASSUME NEW w \in Callers, NEW c \in Chats,
             \/ Turn(w, c) \/ HandleToolCall(w, c)
             \/ HandleIdentity(w, c) \/ HandlePersonality(w, c) \/ HandleProfile(w, c)
      PROVE  Quiet \/ Loud
  BY <1>8, ChatKinds
<1> QED BY <1>1, <1>2, <1>3, <1>4, <1>5, <1>6, <1>7, <1>8 DEF Next

-----------------------------------------------------------------------------
\* The ids given out stay below the next one.
LEMMA IdsBelow ==
    ASSUME NEW n \in Nat, n >= 1, NEW S, S \subseteq 1..(n - 1)
    PROVE  n + 1 \in Nat /\ n + 1 >= 1 /\ S \cup {n} \subseteq 1..((n + 1) - 1)
  OBVIOUS

\* The types are kept.
LEMMA TypesStep == ProfileTypes /\ [Next]_vars => ProfileTypes'
<1> SUFFICES ASSUME ProfileTypes, Quiet \/ Loud PROVE ProfileTypes'
  BY StepKinds
<1>1. CASE Quiet
  BY <1>1 DEF Quiet, ProfileTypes
<1>2. CASE Stop
  BY <1>2 DEF Stop, ProfileTypes, db, ghost
<1>3. CASE Start
  <2>1. CASE UNCHANGED <<profiles, nextId>>
    BY <1>3, <2>1 DEF Start, ProfileTypes, ghost
  <2>2. CASE profiles' = profiles \cup {nextId} /\ nextId' = nextId + 1
    <3>1. nextId \in Nat /\ nextId >= 1 /\ profiles \subseteq 1..(nextId - 1)
      BY DEF ProfileTypes
    <3>2. nextId' \in Nat /\ nextId' >= 1 /\ profiles' \subseteq 1..(nextId' - 1)
      BY <2>2, <3>1, IdsBelow, Zenon
    <3> QED BY <1>3, <3>2 DEF Start, ProfileTypes, ghost
  <2> QED BY <1>3, <2>1, <2>2 DEF Start
<1>4. ASSUME NEW c \in Chats, EnsureChat(c) PROVE ProfileTypes'
  BY <1>4 DEF EnsureChat, ProfileTypes
<1>5. ASSUME NEW w \in Callers, InsertProfile(w) \/ CloneRows(w) PROVE ProfileTypes'
  <2>1. nextId' \in Nat /\ nextId' >= nextId /\ profiles' \subseteq 1..(nextId' - 1)
    BY <1>5 DEF InsertProfile, CloneRows, ProfileTypes
  <2> QED BY <1>5, <2>1 DEF InsertProfile, CloneRows, Done, ProfileTypes, ghost
<1>6. ASSUME NEW w \in Callers, DropProfile(w) PROVE ProfileTypes'
  BY <1>6 DEF DropProfile, Done, ProfileTypes, ghost
<1>7. ASSUME NEW w \in Callers, MoveDefault(w) PROVE ProfileTypes'
  BY <1>7 DEF MoveDefault, Done, ProfileTypes
<1>8. ASSUME NEW w \in Callers, AssignChat(w) PROVE ProfileTypes'
  BY <1>8 DEF AssignChat, Done, Goes, ProfileTypes
<1>9. ASSUME NEW w \in Callers, Listen(w) \/ CacheProfile(w) PROVE ProfileTypes'
  BY <1>9 DEF Listen, CacheProfile, Done, ProfileTypes, db, ghost
<1>10. ASSUME NEW w \in Callers, NEW ts, Answers(w, ts) PROVE ProfileTypes'
  BY <1>10 DEF Answers, Done, ProfileTypes, db
<1> QED BY <1>1, <1>2, <1>3, <1>4, <1>5, <1>6, <1>7, <1>8, <1>9, <1>10 DEF Loud

\* A call that ends is idle, the others are as they were.
LEMMA DoneCall ==
  ASSUME ProfileTypes, NEW w \in Callers, Done(w)
  PROVE  /\ call'[w].op = "idle"
         /\ \A v \in Callers : v # w => call'[v] = call[v]
BY DEF ProfileTypes, Done, Idle

-----------------------------------------------------------------------------
(* OnlyOwnProfiles.                                                        *)

\* A profile in the hands of a call that will show or cache it.
Holds(x) == x.op \in {"query", "listen", "cache"}

\* Whatever a chat's row, server or calls refer to, the chat has been assigned
\* to; a chat without a row has been assigned to nothing.
OwnInv ==
  /\ OnlyOwnProfiles
  /\ \A c \in Chats : /\ chat[c] = None => had[c] = {}
                      /\ chat[c] # None => chat[c] \in had[c]
                      /\ server[c] # None => server[c] \in had[c]
  /\ \A w \in Callers :
       /\ Holds(call[w]) => call[w].c \in Chats /\ call[w].p \in had[call[w].c]
       /\ call[w].op = "assign" => call[w].c \in Chats

LEMMA OwnQuiet == ASSUME ProfileTypes, OwnInv, Quiet PROVE OwnInv'
<1>1. UNCHANGED <<chat, server, had, shown>>
  BY DEF Quiet
<1>2. CASE call' = call
  BY <1>1, <1>2 DEF OwnInv, OnlyOwnProfiles, Holds
<1>3. ASSUME NEW w \in Callers, NEW x, call' = [call EXCEPT ![w] = x], Becomes(w, x) PROVE OwnInv'
  <2>1. call'[w] = x /\ \A v \in Callers : v # w => call'[v] = call[v]
    BY <1>3 DEF ProfileTypes
  <2>2. Holds(x) => x.c \in Chats /\ x.p \in had[x.c]
    <3>1. CASE x.op = "listen"
      BY <1>3, <3>1 DEF Becomes, OwnInv
    <3>2. CASE x.op = "query"
      BY <1>3, <3>2 DEF Becomes, OwnInv, OnlyOwnProfiles
    <3>3. CASE x.op = "cache"
      BY <1>3, <3>3 DEF Becomes
    <3> QED BY <3>1, <3>2, <3>3 DEF Holds
  <2>3. x.op = "assign" => x.c \in Chats
    BY <1>3 DEF Becomes
  <2> QED BY <1>1, <2>1, <2>2, <2>3 DEF OwnInv, OnlyOwnProfiles, Holds
<1> QED BY <1>2, <1>3 DEF Quiet

LEMMA OwnStep == ProfileTypes /\ OwnInv /\ [Next]_vars => OwnInv'
<1> SUFFICES ASSUME ProfileTypes, OwnInv, Quiet \/ Loud PROVE OwnInv'
  BY StepKinds
<1>1. CASE Quiet
  BY <1>1, OwnQuiet
<1>2. CASE Stop
  <2>1. /\ UNCHANGED <<chat, had, shown>> /\ \A c \in Chats : server'[c] = None
        /\ \A w \in Callers : call'[w] = call[w] \/ call'[w].op = "idle"
    BY <1>2 DEF Stop, Idle, db, ghost
  <2> QED BY <2>1 DEF OwnInv, OnlyOwnProfiles, Holds
<1>3. CASE Start
  BY <1>3 DEF Start, OwnInv, OnlyOwnProfiles, Holds, ghost
<1>4. ASSUME NEW c \in Chats, EnsureChat(c) PROVE OwnInv'
  <2>1. UNCHANGED <<call, server, shown>> /\ chat[c] = None
    BY <1>4 DEF EnsureChat
  <2>2. CASE UNCHANGED <<chat, had>>
    BY <2>1, <2>2 DEF OwnInv, OnlyOwnProfiles, Holds
  <2>3. ASSUME NEW p, p # None, chat' = [chat EXCEPT ![c] = p], had' = [had EXCEPT ![c] = {p}] PROVE OwnInv'
    <3>1. /\ chat'[c] = p /\ had'[c] = {p} /\ had[c] = {}
          /\ \A d \in Chats : d # c => chat'[d] = chat[d] /\ had'[d] = had[d]
      BY <2>1, <2>3 DEF ProfileTypes, OwnInv
    <3>2. \A d \in Chats : had[d] \subseteq had'[d]
      BY <3>1
    <3> QED BY <2>1, <2>3, <3>1, <3>2 DEF OwnInv, OnlyOwnProfiles, Holds
  <2> QED BY <1>4, <2>2, <2>3 DEF EnsureChat
<1>5. ASSUME NEW w \in Callers, InsertProfile(w) \/ CloneRows(w) \/ DropProfile(w) \/ MoveDefault(w) PROVE OwnInv'
  <2>1. UNCHANGED <<chat, server, had, shown>> /\ Done(w)
    BY <1>5 DEF InsertProfile, CloneRows, DropProfile, MoveDefault, ghost
  <2> QED BY <2>1, DoneCall DEF OwnInv, OnlyOwnProfiles, Holds
<1>6. ASSUME NEW w \in Callers, AssignChat(w) PROVE OwnInv'
  <2>1. call[w].op = "assign" /\ UNCHANGED <<server, shown>>
    BY <1>6 DEF AssignChat, At
  <2> DEFINE c == call[w].c  p == call[w].p
  <2>2. c \in Chats
    BY <2>1 DEF OwnInv
  <2>3. CASE p \in profiles
    <3>1. /\ chat' = [chat EXCEPT ![c] = p] /\ had' = [had EXCEPT ![c] = @ \cup {p}] /\ p # None
      BY <1>6, <2>3 DEF AssignChat, ProfileTypes, None
    <3>2. \A v \in Callers : v # w => call'[v] = call[v]
      BY <1>6, <2>3 DEF AssignChat, Goes, Done, ProfileTypes
    <3>3. call'[w].op = "idle" \/ (call'[w].op = "cache" /\ call'[w].c = c /\ call'[w].p = p)
      BY <1>6, <2>3 DEF AssignChat, Goes, Done, ProfileTypes, Idle
    <3>4. /\ chat'[c] = p /\ had'[c] = had[c] \cup {p}
          /\ \A d \in Chats : d # c => chat'[d] = chat[d] /\ had'[d] = had[d]
      BY <2>2, <3>1 DEF ProfileTypes
    <3>5. \A d \in Chats : had[d] \subseteq had'[d]
      BY <3>4
    <3> HIDE DEF c, p
    <3> QED BY <2>1, <2>2, <3>1, <3>2, <3>3, <3>4, <3>5 DEF OwnInv, OnlyOwnProfiles, Holds
  <2>4. CASE p \notin profiles
    BY <1>6, <2>1, <2>4, DoneCall DEF AssignChat, OwnInv, OnlyOwnProfiles, Holds
  <2> QED BY <2>3, <2>4
<1>7. ASSUME NEW w \in Callers, Listen(w) \/ CacheProfile(w) PROVE OwnInv'
  <2>1. /\ Holds(call[w]) /\ UNCHANGED <<chat, had, shown>> /\ Done(w)
        /\ server' = [server EXCEPT ![call[w].c] = call[w].p]
    BY <1>7 DEF Listen, CacheProfile, At, Holds, db, ghost
  <2>2. \A d \in Chats : server'[d] = server[d] \/ server'[d] \in had[d]
    BY <2>1 DEF OwnInv, ProfileTypes
  <2> QED BY <2>1, <2>2, DoneCall DEF OwnInv, OnlyOwnProfiles, Holds
<1>8. ASSUME NEW w \in Callers, NEW ts, Answers(w, ts) PROVE OwnInv'
  <2>1. /\ Holds(call[w]) /\ UNCHANGED <<chat, had, server>> /\ Done(w)
        /\ shown' = shown \/ shown' = [shown EXCEPT ![call[w].c] = @ \cup {call[w].p}]
    BY <1>8 DEF Answers, At, Holds, db
  <2>2. call[w].c \in Chats /\ call[w].p \in had[call[w].c]
    BY <2>1 DEF OwnInv
  <2>3. OnlyOwnProfiles'
    BY <2>1, <2>2 DEF OwnInv, OnlyOwnProfiles, ProfileTypes
  <2> QED BY <2>1, <2>3, DoneCall DEF OwnInv, Holds
<1> QED BY <1>1, <1>2, <1>3, <1>4, <1>5, <1>6, <1>7, <1>8 DEF Loud

-----------------------------------------------------------------------------
(* ServerFollowsChat.                                                      *)

\* A profile that will become the server's.
Caches(x) == x.op \in {"listen", "cache"}

\* What is about to be cached is the profile of the chat.
FollowInv ==
  /\ ServerFollowsChat
  /\ \A w \in Callers : Caches(call[w]) /\ ~outside[call[w].c] => call[w].p = chat[call[w].c]

LEMMA FollowQuiet == ASSUME ProfileTypes, FollowInv, Quiet PROVE FollowInv'
<1>1. UNCHANGED <<chat, server, outside>>
  BY DEF Quiet
<1>2. CASE call' = call
  BY <1>1, <1>2 DEF FollowInv, ServerFollowsChat, Caches
<1>3. ASSUME NEW w \in Callers, NEW x, call' = [call EXCEPT ![w] = x], call[w].op # "cache", Becomes(w, x)
      PROVE  FollowInv'
  <2>1. call'[w] = x /\ \A v \in Callers : v # w => call'[v] = call[v]
    BY <1>3 DEF ProfileTypes
  <2>2. Caches(x) => x.p = chat[x.c]
    BY <1>3 DEF Becomes, Caches
  <2>3. \A v \in Callers : call[v].op = "cache" => call'[v] = call[v]
    BY <1>3, <2>1
  <2> QED BY <1>1, <2>1, <2>2, <2>3 DEF FollowInv, ServerFollowsChat, Caches
<1> QED BY <1>2, <1>3 DEF Quiet

LEMMA FollowStep == ProfileTypes /\ OwnInv /\ FollowInv /\ [Next]_vars => FollowInv'
<1> SUFFICES ASSUME ProfileTypes, OwnInv, FollowInv, Quiet \/ Loud PROVE FollowInv'
  BY StepKinds
<1>1. CASE Quiet
  BY <1>1, FollowQuiet
<1>2. CASE Stop
  <2>1. /\ UNCHANGED <<chat, outside>> /\ \A c \in Chats : server'[c] = None
        /\ \A w \in Callers : call'[w] = call[w] \/ call'[w].op = "idle"
    BY <1>2 DEF Stop, Idle, db, ghost
  <2> QED BY <2>1 DEF FollowInv, ServerFollowsChat, Caches
<1>3. CASE Start
  BY <1>3 DEF Start, FollowInv, ServerFollowsChat, Caches, ghost
<1>4. ASSUME NEW c \in Chats, EnsureChat(c) PROVE FollowInv'
  <2>1. UNCHANGED <<call, server, outside>> /\ chat[c] = None
    BY <1>4 DEF EnsureChat
  <2>2. \A d \in Chats : d # c => chat'[d] = chat[d]
    BY <1>4 DEF EnsureChat, ProfileTypes
  <2>3. server[c] = None /\ \A w \in Callers : Caches(call[w]) => call[w].c \in Chats /\ call[w].c # c
    BY <2>1 DEF OwnInv, Caches, Holds
  <2> QED BY <2>1, <2>2, <2>3 DEF FollowInv, ServerFollowsChat, Caches
<1>5. ASSUME NEW w \in Callers,
             InsertProfile(w) \/ CloneRows(w) \/ DropProfile(w) \/ MoveDefault(w) \/ \E ts : Answers(w, ts)
      PROVE  FollowInv'
  <2>1. UNCHANGED <<chat, server, outside>> /\ Done(w) /\ call[w].op # "cache"
    BY <1>5 DEF InsertProfile, CloneRows, DropProfile, MoveDefault, Answers, At, ghost, db
  <2>2. \A v \in Callers : call[v].op = "cache" => call'[v] = call[v]
    BY <2>1, DoneCall
  <2> QED BY <2>1, <2>2, DoneCall DEF FollowInv, ServerFollowsChat, Caches
<1>6. ASSUME NEW w \in Callers, AssignChat(w) PROVE FollowInv'
  <2>1. call[w].op = "assign" /\ UNCHANGED server
    BY <1>6 DEF AssignChat, At
  <2> DEFINE c == call[w].c  p == call[w].p
             overlaps == \E v \in Callers \ {w} : call[v].c = c /\ Caches(call[v])
  <2>2. c \in Chats
    BY <2>1 DEF OwnInv
  <2>3. CASE p \in profiles
    <3>1. /\ chat' = [chat EXCEPT ![c] = p]
          /\ outside' = [outside EXCEPT ![c] = @ \/ ~call[w].b \/ overlaps]
      BY <1>6, <2>3 DEF AssignChat, Caches
    <3>2. \A v \in Callers : v # w => call'[v] = call[v]
      BY <1>6, <2>3 DEF AssignChat, Goes, Done, ProfileTypes
    <3>3. call'[w].op = "idle" \/ (call'[w].op = "cache" /\ call'[w].c = c /\ call'[w].p = p)
      BY <1>6, <2>3 DEF AssignChat, Goes, Done, ProfileTypes, Idle
    <3>4. call[w].b => call'[w].op = "cache"
      BY <1>6, <2>3 DEF AssignChat, Goes, ProfileTypes
    <3>5. chat'[c] = p /\ \A d \in Chats : d # c => chat'[d] = chat[d] /\ outside'[d] = outside[d]
      BY <2>2, <3>1 DEF ProfileTypes
    <3>6. ~outside'[c] => call[w].b /\ ~overlaps
      BY <2>2, <3>1 DEF ProfileTypes
    <3>7. \A v \in Callers : call[v].op = "cache" => call'[v] = call[v]
      BY <2>1, <3>2
    <3>8. ServerFollowsChat'
      BY <2>1, <3>3, <3>4, <3>5, <3>6, <3>7 DEF FollowInv, ServerFollowsChat
    <3>9. ASSUME NEW v \in Callers, Caches(call[v])', ~outside'[call'[v].c]
          PROVE  call'[v].p = chat'[call'[v].c]
      <4>1. CASE v = w
        BY <3>3, <3>5, <3>9, <4>1 DEF Caches
      <4>2. CASE v # w
        <5>1. call'[v] = call[v] /\ Caches(call[v])
          BY <3>2, <3>9, <4>2 DEF Caches
        <5>2. call[v].c \in Chats
          BY <5>1 DEF OwnInv, Holds, Caches
        <5>3. call[v].c # c
          BY <3>6, <3>9, <4>2, <5>1
        <5> QED BY <3>5, <3>9, <5>1, <5>2, <5>3 DEF FollowInv
      <4> QED BY <4>1, <4>2
    <3> QED BY <3>8, <3>9 DEF FollowInv
  <2>4. CASE p \notin profiles
    <3>1. UNCHANGED <<chat, outside>> /\ Done(w)
      BY <1>6, <2>4 DEF AssignChat
    <3>2. \A v \in Callers : call[v].op = "cache" => call'[v] = call[v]
      BY <2>1, <3>1, DoneCall
    <3> QED BY <2>1, <3>1, <3>2, DoneCall DEF FollowInv, ServerFollowsChat, Caches
  <2> QED BY <2>3, <2>4
<1>7. ASSUME NEW w \in Callers, Listen(w) \/ CacheProfile(w) PROVE FollowInv'
  <2>1. /\ Caches(call[w]) /\ UNCHANGED <<chat, outside>> /\ Done(w)
        /\ server' = [server EXCEPT ![call[w].c] = call[w].p]
    BY <1>7 DEF Listen, CacheProfile, At, Caches, db, ghost
  <2>2. call[w].c \in Chats
    BY <2>1 DEF OwnInv, Holds, Caches
  <2>3. /\ server'[call[w].c] = call[w].p
        /\ \A d \in Chats : d # call[w].c => server'[d] = server[d]
    BY <2>1, <2>2 DEF ProfileTypes
  <2>4. \A v \in Callers : v # w => call'[v] = call[v]
    BY <2>1, DoneCall
  <2>5. ServerFollowsChat'
    BY <2>1, <2>2, <2>3, <2>4 DEF FollowInv, ServerFollowsChat
  <2> QED BY <2>1, <2>4, <2>5, DoneCall DEF FollowInv, Caches
<1> QED BY <1>1, <1>2, <1>3, <1>4, <1>5, <1>6, <1>7 DEF Loud

-----------------------------------------------------------------------------
(* ProfilesSound.                                                          *)

\* Unless the default was moved under a deletion, none is deleting it.
DefaultInv ==
  /\ DefaultKept
  /\ \A w \in Callers : ~unsettled /\ call[w].op \in {"countChats", "delete"} => call[w].p # dflt

LEMMA DefaultStep == ProfileTypes /\ DefaultInv /\ [Next]_vars => DefaultInv'
<1> SUFFICES ASSUME ProfileTypes, DefaultInv, Quiet \/ Loud PROVE DefaultInv'
  BY StepKinds
<1>0. None \notin profiles
  BY DEF ProfileTypes, None
<1>1. CASE Quiet
  <2>1. UNCHANGED <<profiles, dflt, unsettled>>
    BY <1>1 DEF Quiet
  <2>2. CASE call' = call
    BY <2>1, <2>2 DEF DefaultInv, DefaultKept
  <2>3. ASSUME NEW w \in Callers, NEW x, call' = [call EXCEPT ![w] = x], Becomes(w, x) PROVE DefaultInv'
    <3>1. call'[w] = x /\ \A v \in Callers : v # w => call'[v] = call[v]
      BY <2>3 DEF ProfileTypes
    <3>2. ~unsettled /\ x.op \in {"countChats", "delete"} => x.p # dflt
      BY <2>3 DEF Becomes, DefaultInv
    <3> QED BY <2>1, <3>1, <3>2 DEF DefaultInv, DefaultKept
  <2> QED BY <1>1, <2>2, <2>3 DEF Quiet
<1>2. CASE Stop
  <2>1. /\ UNCHANGED <<profiles, dflt, unsettled>>
        /\ \A w \in Callers : call'[w] = call[w] \/ call'[w].op = "idle"
    BY <1>2 DEF Stop, Idle, db, ghost
  <2> QED BY <2>1 DEF DefaultInv, DefaultKept
<1>3. CASE Start
  <2>1. UNCHANGED <<call, unsettled>> /\ (unsettled \/ UNCHANGED <<profiles, dflt>>)
    BY <1>0, <1>3 DEF Start, DefaultInv, DefaultKept, ghost
  <2> QED BY <2>1 DEF DefaultInv, DefaultKept
<1>4. ASSUME NEW c \in Chats, EnsureChat(c) PROVE DefaultInv'
  BY <1>4 DEF EnsureChat, DefaultInv, DefaultKept
<1>5. ASSUME NEW w \in Callers, InsertProfile(w) \/ CloneRows(w) PROVE DefaultInv'
  <2>1. /\ profiles \subseteq profiles' /\ UNCHANGED unsettled /\ Done(w)
        /\ unsettled \/ dflt' = dflt
    BY <1>0, <1>5 DEF InsertProfile, CloneRows, DefaultInv, DefaultKept, ghost
  <2> QED BY <2>1, DoneCall DEF DefaultInv, DefaultKept
<1>6. ASSUME NEW w \in Callers, DropProfile(w) PROVE DefaultInv'
  <2>1. /\ UNCHANGED unsettled /\ Done(w) /\ call[w].op = "delete"
        /\ profiles \ {call[w].p} \subseteq profiles'
        /\ dflt # call[w].p => dflt' = dflt
    BY <1>6 DEF DropProfile, At, ghost
  <2>2. unsettled \/ (dflt' = dflt /\ dflt \in profiles')
    BY <2>1 DEF DefaultInv, DefaultKept
  <2> QED BY <2>1, <2>2, DoneCall DEF DefaultInv, DefaultKept
<1>7. ASSUME NEW w \in Callers, MoveDefault(w) PROVE DefaultInv'
  <2>1. profiles' = profiles /\ Done(w)
    BY <1>7 DEF MoveDefault
  <2>2. ~unsettled' => /\ dflt' \in profiles
                       /\ \A v \in Callers : call[v].op \in {"countChats", "delete"} => call[v].p # dflt'
    BY <1>7 DEF MoveDefault, ProfileTypes
  <2> QED BY <2>1, <2>2, DoneCall DEF DefaultInv, DefaultKept
<1>8. ASSUME NEW w \in Callers, AssignChat(w) PROVE DefaultInv'
  <2>1. UNCHANGED <<profiles, dflt, unsettled>>
    BY <1>8 DEF AssignChat
  <2>2. /\ \A v \in Callers : v # w => call'[v] = call[v]
        /\ call'[w].op \in {"idle", "cache"}
    BY <1>8 DEF AssignChat, Goes, Done, ProfileTypes, Idle
  <2> QED BY <2>1, <2>2 DEF DefaultInv, DefaultKept
<1>9. ASSUME NEW w \in Callers, Listen(w) \/ CacheProfile(w) \/ \E ts : Answers(w, ts) PROVE DefaultInv'
  <2>1. UNCHANGED <<profiles, dflt, unsettled>> /\ Done(w)
    BY <1>9 DEF Listen, CacheProfile, Answers, db, ghost
  <2> QED BY <2>1, DoneCall DEF DefaultInv, DefaultKept
<1> QED BY <1>1, <1>2, <1>3, <1>4, <1>5, <1>6, <1>7, <1>8, <1>9 DEF Loud

\* The profiles that the limit explains, and the calls that have passed its
\* check and are about to insert one more.
Counted == IF unsettled THEN profiles \ {seed} ELSE profiles
Creating == {w \in Callers : call[w].op \in {"insert", "clone"}}

\* Each caller has passed the check at most once when the limit is reached.
LimitInv == Cardinality(Counted) + Cardinality(Creating) <= MaxProfiles + Cardinality(Callers) - 1

LEMMA Smaller ==
  ASSUME NEW A, IsFiniteSet(A), NEW B \in SUBSET A
  PROVE  Cardinality(A) \in Nat /\ Cardinality(B) \in Nat /\ Cardinality(B) <= Cardinality(A)
BY FS_Subset, FS_CardinalityType

LEMMA FiniteCounts ==
  ASSUME ProfileTypes
  PROVE  IsFiniteSet(profiles) /\ IsFiniteSet(Counted) /\ IsFiniteSet(Creating)
<1>1. IsFiniteSet(1..(nextId - 1))
  BY FS_Interval DEF ProfileTypes
<1>2. IsFiniteSet(profiles)
  BY <1>1, FS_Subset DEF ProfileTypes
<1>3. Counted \subseteq profiles /\ Creating \subseteq Callers
  BY DEF Counted, Creating
<1> QED BY <1>2, <1>3, FS_Subset, ProfilesAssumption

\* Nothing is added.
LEMMA NoMore ==
  ASSUME ProfileTypes, LimitInv, Counted' \subseteq Counted, Creating' \subseteq Creating
  PROVE  LimitInv'
<1>1. Cardinality(Counted') \in Nat /\ Cardinality(Counted) \in Nat /\ Cardinality(Counted') <= Cardinality(Counted)
  BY FiniteCounts, Smaller
<1>2. Cardinality(Creating') \in Nat /\ Cardinality(Creating) \in Nat /\ Cardinality(Creating') <= Cardinality(Creating)
  BY FiniteCounts, Smaller
<1>3. Cardinality(Callers) \in Nat /\ MaxProfiles \in Nat
  BY FS_CardinalityType, ProfilesAssumption
<1> QED BY <1>1, <1>2, <1>3 DEF LimitInv

\* A call passes the check of the limit.
LEMMA OneMoreCall ==
  ASSUME ProfileTypes, Cardinality(profiles) < MaxProfiles, UNCHANGED <<profiles, seed, unsettled>>
  PROVE  LimitInv'
<1>1. Counted' \subseteq profiles /\ Creating' \subseteq Callers
  BY DEF Counted, Creating
<1>2. Cardinality(Counted') \in Nat /\ Cardinality(profiles) \in Nat /\ Cardinality(Counted') <= Cardinality(profiles)
  BY <1>1, FiniteCounts, Smaller
<1>3. Cardinality(Creating') \in Nat /\ Cardinality(Callers) \in Nat /\ Cardinality(Creating') <= Cardinality(Callers)
  BY <1>1, Smaller, ProfilesAssumption
<1> QED BY <1>2, <1>3, ProfilesAssumption DEF LimitInv

\* A call that has passed it inserts its profile.
LEMMA OneMoreProfile ==
  ASSUME ProfileTypes, LimitInv, NEW w \in Creating, Creating' \subseteq Creating \ {w},
         Counted' \subseteq Counted \cup {nextId}
  PROVE  LimitInv'
<1>1. /\ IsFiniteSet(Counted \cup {nextId}) /\ Cardinality(Counted) \in Nat
      /\ Cardinality(Counted \cup {nextId}) <= Cardinality(Counted) + 1
  <2>1. IsFiniteSet(Counted) /\ Cardinality(Counted) \in Nat
    BY FiniteCounts, FS_CardinalityType
  <2>2. /\ IsFiniteSet(Counted \cup {nextId})
        /\ Cardinality(Counted \cup {nextId}) \in {Cardinality(Counted), Cardinality(Counted) + 1}
    BY <2>1, FS_AddElement, Zenon
  <2> QED BY <2>1, <2>2
<1>2. /\ IsFiniteSet(Creating \ {w}) /\ Cardinality(Creating) \in Nat
      /\ Cardinality(Creating \ {w}) = Cardinality(Creating) - 1
  BY FiniteCounts, FS_RemoveElement, FS_CardinalityType
<1>3. /\ Cardinality(Counted') \in Nat /\ Cardinality(Counted \cup {nextId}) \in Nat
      /\ Cardinality(Counted') <= Cardinality(Counted \cup {nextId})
  BY <1>1, Smaller
<1>4. Cardinality(Creating') \in Nat /\ Cardinality(Creating') <= Cardinality(Creating \ {w})
  BY <1>2, Smaller
<1>5. Cardinality(Callers) \in Nat /\ MaxProfiles \in Nat
  BY FS_CardinalityType, ProfilesAssumption
<1> QED BY <1>1, <1>2, <1>3, <1>4, <1>5 DEF LimitInv

LEMMA LimitStep == ProfileTypes /\ DefaultInv /\ LimitInv /\ [Next]_vars => LimitInv'
<1> SUFFICES ASSUME ProfileTypes, DefaultInv, LimitInv, Quiet \/ Loud PROVE LimitInv'
  BY StepKinds
<1>0. None \notin profiles /\ nextId \notin profiles
  BY DEF ProfileTypes, None
<1>1. CASE Quiet
  <2>1. UNCHANGED <<profiles, seed, unsettled>>
    BY <1>1 DEF Quiet
  <2>2. CASE call' = call
    BY <2>1, <2>2, NoMore DEF Counted, Creating
  <2>3. ASSUME NEW w \in Callers, NEW x, call' = [call EXCEPT ![w] = x], Becomes(w, x) PROVE LimitInv'
    <3>1. CASE x.op \in {"insert", "clone"}
      BY <2>1, <2>3, <3>1, OneMoreCall DEF Becomes
    <3>2. CASE x.op \notin {"insert", "clone"}
      <4>1. Creating' \subseteq Creating
        BY <2>3, <3>2 DEF Creating, ProfileTypes
      <4> QED BY <2>1, <4>1, NoMore DEF Counted
    <3> QED BY <3>1, <3>2
  <2> QED BY <1>1, <2>2, <2>3 DEF Quiet
<1>2. CASE Stop
  <2>1. /\ UNCHANGED <<profiles, seed, unsettled>>
        /\ \A w \in Callers : call'[w] = call[w] \/ call'[w].op = "idle"
    BY <1>2 DEF Stop, Idle, db, ghost
  <2> QED BY <2>1, NoMore DEF Counted, Creating
<1>3. CASE Start
  <2>1. call' = call /\ unsettled' = unsettled
    BY <1>3 DEF Start, ghost
  <2>2. CASE UNCHANGED <<profiles, seed>>
    BY <2>1, <2>2, NoMore DEF Counted, Creating
  <2>3. CASE ~UNCHANGED <<profiles, seed>>
    <3>1. seed \notin profiles /\ dflt = None /\ profiles' = profiles \cup {nextId} /\ seed' = nextId
      BY <1>3, <2>3 DEF Start
    <3>2. unsettled
      BY <1>0, <3>1 DEF DefaultInv, DefaultKept
    <3> QED BY <2>1, <3>1, <3>2, NoMore DEF Counted, Creating
  <2> QED BY <2>2, <2>3
<1>4. ASSUME NEW c \in Chats, EnsureChat(c) PROVE LimitInv'
  BY <1>4, NoMore DEF EnsureChat, Counted, Creating
<1>5. ASSUME NEW w \in Callers, InsertProfile(w) \/ CloneRows(w) PROVE LimitInv'
  <2>1. /\ UNCHANGED <<seed, unsettled>> /\ Done(w) /\ w \in Creating
        /\ profiles' \subseteq profiles \cup {nextId}
    BY <1>5 DEF InsertProfile, CloneRows, At, ghost, Creating
  <2>2. Creating' \subseteq Creating \ {w}
    BY <2>1, DoneCall DEF Creating
  <2>3. Counted' \subseteq Counted \cup {nextId}
    BY <2>1 DEF Counted
  <2> QED BY <2>1, <2>2, <2>3, OneMoreProfile
<1>6. ASSUME NEW w \in Callers,
             \/ DropProfile(w) \/ MoveDefault(w) \/ Listen(w) \/ CacheProfile(w) \/ \E ts : Answers(w, ts)
      PROVE  LimitInv'
  <2>1. Done(w) /\ profiles' \subseteq profiles /\ seed' = seed /\ (unsettled => unsettled')
    BY <1>6 DEF DropProfile, MoveDefault, Listen, CacheProfile, Answers, db, ghost, ProfileTypes
  <2>2. Creating' \subseteq Creating
    BY <2>1, DoneCall DEF Creating
  <2>3. Counted' \subseteq Counted
    BY <2>1 DEF Counted
  <2> QED BY <2>2, <2>3, NoMore
<1>7. ASSUME NEW w \in Callers, AssignChat(w) PROVE LimitInv'
  <2>1. UNCHANGED <<profiles, seed, unsettled>>
    BY <1>7 DEF AssignChat
  <2>2. /\ \A v \in Callers : v # w => call'[v] = call[v]
        /\ call'[w].op \in {"idle", "cache"}
    BY <1>7 DEF AssignChat, Goes, Done, ProfileTypes, Idle
  <2>3. Creating' \subseteq Creating
    BY <2>2 DEF Creating
  <2> QED BY <2>1, <2>3, NoMore DEF Counted
<1> QED BY <1>1, <1>2, <1>3, <1>4, <1>5, <1>6, <1>7 DEF Loud

-----------------------------------------------------------------------------
LEMMA ProfilesInit == Init => ProfileTypes /\ OwnInv /\ FollowInv /\ DefaultInv /\ LimitInv
<1> SUFFICES ASSUME Init PROVE ProfileTypes /\ OwnInv /\ FollowInv /\ DefaultInv /\ LimitInv
  OBVIOUS
<1>1. ProfileTypes
  <2>1. nextId \in Nat /\ nextId >= 1 /\ profiles \subseteq 1..(nextId - 1)
    <3>1. CASE profiles = {1} /\ nextId = 2
      BY <3>1
    <3>2. CASE profiles = {1, 2} /\ nextId = 3
      BY <3>2
    <3> QED BY <3>1, <3>2 DEF Init
  <2>2. DOMAIN chat = Chats
    BY DEF Init
  <2> QED BY <2>1, <2>2 DEF Init, ProfileTypes
<1>2. OwnInv
  BY DEF Init, OwnInv, OnlyOwnProfiles, Holds, Idle, None
<1>3. FollowInv
  BY DEF Init, FollowInv, ServerFollowsChat, Caches, Idle
<1>4. DefaultInv
  BY DEF Init, DefaultInv, DefaultKept, Idle
<1>5. LimitInv
  <2>1. Creating = {} /\ Counted = profiles
    BY DEF Init, Creating, Counted, Idle
  <2>2. Cardinality({}) = 0 /\ Cardinality({1}) = 1
    BY FS_EmptySet, FS_Singleton
  <2>3. Cardinality({1, 2}) = 2
    <3>1. {1, 2} = {1} \cup {2} /\ 2 \notin {1}
      OBVIOUS
    <3>2. Cardinality({1} \cup {2}) = 1 + 1
      <4>1. IsFiniteSet({1})
        BY FS_Singleton
      <4> QED BY <2>2, <3>1, <4>1, FS_AddElement, ZenonT(40)
    <3> QED BY <3>1, <3>2
  <2>4. Cardinality(Callers) \in Nat /\ Cardinality(Callers) # 0
    BY FS_CardinalityType, FS_EmptySet, ProfilesAssumption
  <2>5. Cardinality(profiles) \in Nat /\ Cardinality(profiles) <= MaxProfiles
    <3>1. CASE profiles = {1}
      BY <2>2, <3>1, ProfilesAssumption
    <3>2. CASE profiles = {1, 2} /\ MaxProfiles >= 2
      BY <2>3, <3>2, ProfilesAssumption
    <3> QED BY <3>1, <3>2 DEF Init
  <2> QED BY <2>1, <2>2, <2>4, <2>5, ProfilesAssumption DEF LimitInv
<1> QED BY <1>1, <1>2, <1>3, <1>4, <1>5

\* An agent is shown rows of profiles its chat is or was assigned to and of no other,
\* whatever calls are in flight when a chat is switched and a profile deleted
\* (the query tools, buildAgentContext(), assignChat(), deleteProfile()).
THEOREM OnlyOwnProfilesHolds == Spec => []OnlyOwnProfiles
<1>1. OwnInv => OnlyOwnProfiles
  BY DEF OwnInv
<1> QED BY <1>1, ProfilesInit, TypesStep, OwnStep, PTL DEF Spec

\* The profile a chat's MCP server works for is the profile in the chat's row, unless
\* the chat was switched past it (McpServer's profile, toolSwitchChatProfile()).
THEOREM ServerFollowsChatHolds == Spec => []ServerFollowsChat
<1>1. FollowInv => ServerFollowsChat
  BY DEF FollowInv
<1> QED BY <1>1, ProfilesInit, TypesStep, OwnStep, FollowStep, PTL DEF Spec

\* There is a default unless it moved under a deletion, and the calls that passed the
\* limit's check together go past it by no more than all of them but one
\* (createProfile(), cloneProfile(), deleteProfile(), setDefaultProfile()).
THEOREM ProfilesSoundHolds == Spec => []ProfilesSound
<1>1. ProfileTypes /\ DefaultInv /\ LimitInv => ProfilesSound
  <2> SUFFICES ASSUME ProfileTypes, DefaultInv, LimitInv PROVE ProfilesSound
    OBVIOUS
  <2>1. Cardinality(Counted) \in Nat /\ Cardinality(Creating) \in Nat /\ Cardinality(Callers) \in Nat
    BY FiniteCounts, FS_CardinalityType, ProfilesAssumption
  <2>2. Cardinality(Counted) <= MaxProfiles + Cardinality(Callers) - 1
    BY <2>1, ProfilesAssumption DEF LimitInv
  <2> QED BY <2>2 DEF ProfilesSound, DefaultInv, LimitHolds, Counted
<1> QED BY <1>1, ProfilesInit, TypesStep, DefaultStep, LimitStep, PTL DEF Spec

-----------------------------------------------------------------------------
-----------------------------------------------------------------------------
(***************************************************************************)
(* Reflection.                                                             *)
(***************************************************************************)

\* A row of memory_meta, and the fields of a pass.
MetaRow == [p : Profiles \cup {"none"}, t : Types \cup {"none"}, depth : Nat, conf : 0..2, call : Nat]

PassFields == {"pc", "todo", "p", "depth", "types", "t", "ids", "left", "row", "unlinked", "created"}

PassTypes ==
  /\ DOMAIN job = PassFields
  /\ job.todo \subseteq Profiles
  /\ job.p \in Profiles \cup {"none"} /\ job.t \in Types \cup {"none"}
  /\ job.depth \in Nat
  /\ job.ids \subseteq Nat

\* The types the steps of the pass count on.
ReflectionTypes ==
  /\ clock \in Nat /\ last \in Nat /\ calls \in Nat
  /\ sem \in Seq([p : Profiles, at : Nat])
  /\ meta \in Seq(MetaRow)
  /\ PassTypes

\* Only confidences change in a row, and rows are only added.
Grows == /\ Len(meta) <= Len(meta')
         /\ \A i \in Meta : meta'[i].call = meta[i].call /\ (meta[i].conf = 0 => meta'[i].conf = 0)

\* Confidences of several rows are set: the cascade.
LEMMA SetConf ==
  ASSUME meta \in Seq(MetaRow), NEW S \in SUBSET Meta, NEW v \in [S -> 0..2],
         \A i \in S : meta[i].conf >= 1,
         meta' = [i \in Meta |-> IF i \in S THEN [meta[i] EXCEPT !.conf = v[i]] ELSE meta[i]]
  PROVE  meta' \in Seq(MetaRow) /\ Grows /\ Len(meta') = Len(meta)
<1>1. Len(meta) \in Nat /\ \A i \in Meta : meta[i] \in MetaRow
  BY DEF Meta
<1>2. \A i \in S : /\ [meta[i] EXCEPT !.conf = v[i]] \in MetaRow
                   /\ [meta[i] EXCEPT !.conf = v[i]].call = meta[i].call
  BY <1>1 DEF MetaRow
<1>3. \A i \in Meta : meta'[i] \in MetaRow
  BY <1>1, <1>2
<1>4. DOMAIN meta' = 1..Len(meta)
  BY DEF Meta
<1>5. meta' \in Seq(MetaRow)
  BY <1>1, <1>3, <1>4 DEF Meta
<1>6. Len(meta') = Len(meta)
  BY <1>1, <1>4, <1>5
<1>7. \A i \in Meta : meta'[i].call = meta[i].call
  BY <1>2
<1>8. \A i \in Meta : meta[i].conf = 0 => meta'[i].conf = 0
  OBVIOUS
<1>9. Len(meta) <= Len(meta')
  <2>1. \A m \in Nat : m <= m
    OBVIOUS
  <2> QED BY <1>1, <1>6, <2>1, Zenon
<1> QED BY <1>5, <1>6, <1>7, <1>8, <1>9, Zenon DEF Grows

\* That of one row is: an observation confirms or contradicts it.
LEMMA SetOneConf ==
  ASSUME meta \in Seq(MetaRow), NEW i \in Meta, NEW v \in 0..2, meta[i].conf >= 1,
         meta' = [meta EXCEPT ![i].conf = v]
  PROVE  meta' \in Seq(MetaRow) /\ Grows /\ Len(meta') = Len(meta)
<1>1. [k \in {i} |-> v] \in [{i} -> 0..2] /\ {i} \in SUBSET Meta
  OBVIOUS
<1>2. meta' = [k \in Meta |-> IF k \in {i} THEN [meta[k] EXCEPT !.conf = [m \in {i} |-> v][k]] ELSE meta[k]]
  <2>1. DOMAIN meta = Meta /\ meta = [k \in Meta |-> meta[k]]
    BY DEF Meta
  <2> QED BY <2>1
<1> QED BY <1>1, <1>2, SetConf

\* The types are kept, and no step trusts a distrusted row again.
LEMMA ReflectionTypesStep == ReflectionTypes /\ [ReflectionNext]_reflectionVars => ReflectionTypes' /\ Grows
<1> SUFFICES ASSUME ReflectionTypes, [ReflectionNext]_reflectionVars PROVE ReflectionTypes' /\ Grows
  OBVIOUS
<1> DEFINE Q == ReflectionTypes' /\ Grows
<1>0. /\ clock \in Nat /\ last \in Nat /\ calls \in Nat
      /\ sem \in Seq([p : Profiles, at : Nat]) /\ meta \in Seq(MetaRow) /\ PassTypes
  BY DEF ReflectionTypes
<1>a. ASSUME UNCHANGED meta, PassTypes', clock' \in Nat, last' \in Nat, calls' \in Nat,
             sem' \in Seq([p : Profiles, at : Nat])
      PROVE  Q
  BY <1>0, <1>a DEF ReflectionTypes, Grows
<1> USE DEF PassFields
<1>1. CASE UNCHANGED reflectionVars
  BY <1>0, <1>1, <1>a DEF reflectionVars, PassTypes
<1>2. CASE Tick
  BY <1>0, <1>2, <1>a DEF Tick, PassTypes
<1>3. ASSUME NEW p \in Profiles, StoreSemantic(p) PROVE Q
  BY <1>0, <1>3, <1>a DEF StoreSemantic, PassTypes
<1>4. CASE RunReflection
  <2>1. PassTypes'
    BY <1>4 DEF RunReflection, NoPass, PassTypes
  <2> QED BY <1>0, <1>4, <1>a, <2>1 DEF RunReflection
<1>5. CASE Abort
  <2>1. PassTypes'
    BY <1>5 DEF Abort, NoPass, PassTypes
  <2> QED BY <1>0, <1>5, <1>a, <2>1 DEF Abort
<1>6. CASE Finish
  <2>1. PassTypes'
    BY <1>6 DEF Finish, NoPass, PassTypes
  <2> QED BY <1>0, <1>6, <1>a, <2>1 DEF Finish, surroundings
<1>7. CASE GenerateD0
  <2>1. Recent(job.p) \subseteq Nat
    BY DEF Recent, Sem
  <2>2. PassTypes'
    <3>1. CASE job' = [job EXCEPT !.pc = "types", !.depth = 1, !.types = Types, !.created = 0]
      BY <1>0, <3>1 DEF PassTypes
    <3>2. CASE job' = [job EXCEPT !.pc = "types", !.depth = 0, !.types = Types, !.ids = Recent(job.p)]
      BY <1>0, <2>1, <3>2 DEF PassTypes
    <3> QED BY <1>7, <3>1, <3>2 DEF GenerateD0
  <2> QED BY <1>0, <1>7, <1>a, <2>2 DEF GenerateD0, surroundings
<1>8. CASE NextDepth
  <2>1. PassTypes'
    BY <1>0, <1>8 DEF NextDepth, PassTypes
  <2> QED BY <1>0, <1>8, <1>a, <2>1 DEF NextDepth, surroundings
<1>9. CASE AnswerDone
  <2>1. PassTypes'
    BY <1>0, <1>9 DEF AnswerDone, PassTypes
  <2> QED BY <1>0, <1>9, <1>a, <2>1 DEF AnswerDone, surroundings
<1>10. CASE Novel
  <2>1. PassTypes'
    BY <1>0, <1>10 DEF Novel, PassTypes
  <2> QED BY <1>0, <1>10, <1>a, <2>1 DEF Novel, surroundings
<1>11. CASE InsertMeta
  <2>1. [p |-> job.p, t |-> job.t, depth |-> job.depth, conf |-> 2, call |-> calls] \in MetaRow
    BY <1>0 DEF MetaRow, PassTypes
  <2>2. meta' = Append(meta, [p |-> job.p, t |-> job.t, depth |-> job.depth, conf |-> 2, call |-> calls])
    BY <1>11 DEF InsertMeta
  <2>3. meta' \in Seq(MetaRow) /\ Len(meta') = Len(meta) + 1 /\ \A i \in Meta : meta'[i] = meta[i]
    BY <1>0, <2>1, <2>2 DEF Meta
  <2>4. PassTypes'
    BY <1>0, <1>11 DEF InsertMeta, PassTypes
  <2>5. Grows
    BY <1>0, <2>3 DEF Grows
  <2> QED BY <1>0, <1>11, <2>3, <2>4, <2>5 DEF InsertMeta, surroundings, ReflectionTypes
<1>12. CASE Link
  <2>1. PassTypes'
    BY <1>0, <1>12 DEF Link, PassTypes
  <2> QED BY <1>0, <1>12, <1>a, <2>1 DEF Link, surroundings
<1>13. CASE AllLinked
  <2>1. PassTypes'
    BY <1>0, <1>13 DEF AllLinked, PassTypes
  <2> QED BY <1>0, <1>13, <1>a, <2>1 DEF AllLinked, surroundings
<1>14. CASE RunContradictionCascade
  <2>1. PICK v \in [Doubted(job.depth) -> 0..2] :
            meta' = [i \in Meta |-> IF i \in DOMAIN v THEN [meta[i] EXCEPT !.conf = v[i]] ELSE meta[i]]
    BY <1>14 DEF RunContradictionCascade
  <2>2. DOMAIN v = Doubted(job.depth) /\ Doubted(job.depth) \in SUBSET Meta
    BY DEF Doubted
  <2>3. \A i \in Doubted(job.depth) : meta[i].conf >= 1
    BY DEF Doubted
  <2>4. meta' \in Seq(MetaRow) /\ Grows
    BY <1>0, <2>1, <2>2, <2>3, SetConf
  <2>5. PassTypes'
    BY <1>0, <1>14 DEF RunContradictionCascade, PassTypes
  <2> QED BY <1>0, <1>14, <2>4, <2>5 DEF RunContradictionCascade, surroundings, ReflectionTypes
<1>15. CASE CallFails
  <2>1. PassTypes'
    BY <1>0, <1>15 DEF CallFails, PassTypes
  <2> QED BY <1>0, <1>15, <1>a, <2>1 DEF CallFails
<1>16. ASSUME NEW p \in Profiles, RunForProfile(p) PROVE Q
  <2>1. PassTypes'
    BY <1>0, <1>16 DEF RunForProfile, PassTypes
  <2> QED BY <1>0, <1>16, <1>a, <2>1 DEF RunForProfile, surroundings
<1>17. ASSUME NEW t \in Types, NextType(t) PROVE Q
  <2>1. Uncondensed(job.p, t, job.depth - 1) \subseteq Nat
    BY DEF Uncondensed, Meta
  <2>2. PassTypes'
    BY <1>0, <1>17, <2>1 DEF NextType, PassTypes
  <2> QED BY <1>0, <1>17, <1>a, <2>2 DEF NextType, surroundings
<1>18. ASSUME NEW n \in 0..MaxAnswers, Ask(n) PROVE Q
  <2>1. PassTypes'
    BY <1>0, <1>18 DEF Ask, PassTypes
  <2> QED BY <1>0, <1>18, <1>a, <2>1 DEF Ask, surroundings
<1>19. ASSUME NEW i \in Meta, Confirm(i) PROVE Q
  <2>1. PassTypes'
    BY <1>0, <1>19 DEF Confirm, PassTypes
  <2>2. meta[i].conf >= 1 /\ meta' = [meta EXCEPT ![i].conf = 2]
    BY <1>19 DEF Confirm, Near, ConfirmConfidence
  <2>3. PICK v \in 0..2 : v = 2
    OBVIOUS
  <2>4. meta' = [meta EXCEPT ![i].conf = v]
    BY <2>2, <2>3
  <2>5. meta' \in Seq(MetaRow) /\ Grows
    BY <1>0, <2>2, <2>4, SetOneConf
  <2> QED BY <1>0, <1>19, <2>1, <2>5 DEF Confirm, surroundings, ReflectionTypes
<1>20. ASSUME NEW i \in Meta, NEW v \in 0..2, Contradict(i, v) PROVE Q
  <2>1. PassTypes'
    BY <1>0, <1>20 DEF Contradict, PassTypes
  <2>2. meta[i].conf >= 1 /\ meta' = [meta EXCEPT ![i].conf = v]
    BY <1>20 DEF Contradict, Near
  <2>3. meta' \in Seq(MetaRow) /\ Grows
    BY <1>0, <2>2, SetOneConf
  <2> QED BY <1>0, <1>20, <2>1, <2>3 DEF Contradict, surroundings, ReflectionTypes
<1> QED BY <1>1, <1>2, <1>3, <1>4, <1>5, <1>6, <1>7, <1>8, <1>9, <1>10, <1>11, <1>12, <1>13, <1>14,
           <1>15, <1>16, <1>17, <1>18, <1>19, <1>20 DEF ReflectionNext, PassStep

-----------------------------------------------------------------------------
\* A call of the model whose answer condenses entries is under way.
Condensing(j) == j.pc \in {"ask", "entry", "insert", "link"} /\ j.depth > 0

\* Entries the call was given that have a parent have it from this very call.
CondInv ==
  /\ \A l \in metaLinks : l[1] \in Meta
  /\ MetaCondensedOnce
  /\ Condensing(job) => \A l \in metaLinks : l[2] \in job.ids => meta[l[1]].call = calls
  /\ PassAt("link") => /\ job.row \in Meta /\ meta[job.row].call = calls
                       /\ job.unlinked \subseteq job.ids
                       /\ job.unlinked # {} => job.depth > 0

\* A step that leaves the links and the call alone and starts no condensation.
LEMMA CondFrame ==
  ASSUME ReflectionTypes, CondInv, Grows, ReflectionTypes', metaLinks' = metaLinks, calls' = calls,
         Condensing(job') => Condensing(job) /\ job'.ids = job.ids,
         job'.pc # "link"
  PROVE  CondInv'
<1>1. Len(meta) \in Nat /\ Len(meta') \in Nat /\ Len(meta) <= Len(meta')
  BY DEF ReflectionTypes, Grows
<1>2. \A i \in Meta : i \in 1..Len(meta') /\ meta'[i].call = meta[i].call
  BY <1>1 DEF Grows, Meta
<1>3. \A l \in metaLinks' : l[1] \in 1..Len(meta') /\ meta'[l[1]].call = meta[l[1]].call
  BY <1>2 DEF CondInv
<1>4. MetaCondensedOnce'
  BY <1>3 DEF CondInv, MetaCondensedOnce
<1>5. Condensing(job') => \A l \in metaLinks' : l[2] \in job'.ids => meta'[l[1]].call = calls'
  BY <1>3 DEF CondInv
<1> QED BY <1>3, <1>4, <1>5 DEF CondInv, Meta, PassAt

\* They had none when they were read, and only the call links them.
LEMMA CondStep == ReflectionTypes /\ CondInv /\ [ReflectionNext]_reflectionVars => CondInv'
<1> SUFFICES ASSUME ReflectionTypes, CondInv, [ReflectionNext]_reflectionVars PROVE CondInv'
  OBVIOUS
<1>0. ReflectionTypes' /\ Grows /\ PassTypes
  BY ReflectionTypesStep DEF ReflectionTypes
<1> USE DEF PassFields
<1>1. ASSUME UNCHANGED <<metaLinks, calls>>, Condensing(job') => Condensing(job) /\ job'.ids = job.ids, job'.pc # "link"
      PROVE  CondInv'
  BY <1>0, <1>1, CondFrame
<1>2. ASSUME UNCHANGED <<meta, metaLinks, calls, job>>
      PROVE  CondInv'
  BY <1>2 DEF CondInv, MetaCondensedOnce, Meta, PassAt
<1>3. CASE UNCHANGED reflectionVars
  BY <1>2, <1>3 DEF reflectionVars
<1>4. CASE Tick
  BY <1>2, <1>4 DEF Tick
<1>5. ASSUME NEW p \in Profiles, StoreSemantic(p) PROVE CondInv'
  BY <1>2, <1>5 DEF StoreSemantic
<1>6. CASE RunReflection \/ Abort \/ Finish
  <2>1. job'.pc \in {"profile", "idle"}
    <3>1. CASE RunReflection
      BY <3>1 DEF RunReflection, NoPass
    <3>2. CASE Abort \/ Finish
      BY <3>2 DEF Abort, Finish, NoPass
    <3> QED BY <1>6, <3>1, <3>2
  <2> QED BY <1>1, <1>6, <2>1 DEF RunReflection, Abort, Finish, Condensing
<1>7. CASE GenerateD0
  <2>1. job'.pc = "types"
    BY <1>0, <1>7 DEF GenerateD0, PassTypes
  <2> QED BY <1>1, <1>7, <2>1 DEF GenerateD0, Condensing
<1>8. CASE NextDepth
  <2>1. job'.pc \in {"types", "cascade", "profile"}
    BY <1>0, <1>8 DEF NextDepth, PassTypes, PassAt
  <2> QED BY <1>1, <1>8, <2>1 DEF NextDepth, Condensing
<1>9. CASE AnswerDone \/ CallFails
  <2>1. job'.pc = "types"
    BY <1>0, <1>9 DEF AnswerDone, CallFails, PassTypes
  <2> QED BY <1>1, <1>9, <2>1 DEF AnswerDone, CallFails, Condensing
<1>10. CASE Novel
  <2>1. job'.pc = "insert" /\ job'.depth = job.depth /\ job'.ids = job.ids
    BY <1>0, <1>10 DEF Novel, PassTypes
  <2> QED BY <1>1, <1>10, <2>1 DEF Novel, Condensing, PassAt
<1>11. CASE RunContradictionCascade
  <2>1. job'.pc \in {"cascade", "profile"}
    BY <1>0, <1>11 DEF RunContradictionCascade, PassTypes, PassAt
  <2> QED BY <1>1, <1>11, <2>1 DEF RunContradictionCascade, Condensing
<1>12. ASSUME NEW p \in Profiles, RunForProfile(p) PROVE CondInv'
  <2>1. job'.pc = "d0"
    BY <1>0, <1>12 DEF RunForProfile, PassTypes
  <2> QED BY <1>1, <1>12, <2>1 DEF RunForProfile, Condensing
<1>13. ASSUME NEW n \in 0..MaxAnswers, Ask(n) PROVE CondInv'
  <2>1. job'.pc = "entry" /\ job'.depth = job.depth /\ job'.ids = job.ids
    BY <1>0, <1>13 DEF Ask, PassTypes
  <2> QED BY <1>1, <1>13, <2>1 DEF Ask, Condensing, PassAt
<1>14. ASSUME NEW i \in Meta, Confirm(i) PROVE CondInv'
  <2>1. job'.pc = "entry" /\ job'.depth = job.depth /\ job'.ids = job.ids
    BY <1>0, <1>14 DEF Confirm, PassTypes, PassAt
  <2> QED BY <1>1, <1>14, <2>1 DEF Confirm, Condensing, PassAt
<1>15. ASSUME NEW i \in Meta, NEW v \in 0..2, Contradict(i, v) PROVE CondInv'
  <2>1. job'.pc = "insert" /\ job'.depth = job.depth /\ job'.ids = job.ids
    BY <1>0, <1>15 DEF Contradict, PassTypes
  <2> QED BY <1>1, <1>15, <2>1 DEF Contradict, Condensing, PassAt
<1>16. CASE AllLinked
  <2>1. job'.pc = "entry" /\ job'.depth = job.depth /\ job'.ids = job.ids
    BY <1>0, <1>16 DEF AllLinked, PassTypes
  <2> QED BY <1>1, <1>16, <2>1 DEF AllLinked, Condensing, PassAt
<1>17. ASSUME NEW t \in Types, NextType(t) PROVE CondInv'
  <2>1. meta' = meta /\ metaLinks' = metaLinks
    BY <1>17 DEF NextType
  <2>2. job'.pc \in {"ask", "types"} /\ job'.depth = job.depth
    BY <1>0, <1>17 DEF NextType, PassTypes
  <2>3. job.depth > 0 => job'.ids = Uncondensed(job.p, t, job.depth - 1)
    BY <1>0, <1>17 DEF NextType, PassTypes
  <2>4. Condensing(job') => \A l \in metaLinks : l[2] \notin job'.ids
    BY <2>2, <2>3 DEF Condensing, Uncondensed
  <2> QED BY <2>1, <2>2, <2>4 DEF CondInv, MetaCondensedOnce, Meta, PassAt
<1>18. CASE InsertMeta
  <2>1. metaLinks' = metaLinks /\ calls' = calls
    BY <1>18 DEF InsertMeta
  <2>2. meta' = Append(meta, [p |-> job.p, t |-> job.t, depth |-> job.depth, conf |-> 2, call |-> calls])
    BY <1>18 DEF InsertMeta
  <2>3. /\ Len(meta) \in Nat /\ Len(meta') = Len(meta) + 1 /\ meta'[Len(meta) + 1].call = calls
        /\ \A i \in Meta : i \in 1..Len(meta') /\ meta'[i] = meta[i]
    <3>1. meta \in Seq(MetaRow)
      BY DEF ReflectionTypes
    <3> QED BY <2>2, <3>1 DEF Meta
  <2>4. /\ job'.pc = "link" /\ job'.row = Len(meta) + 1 /\ job'.depth = job.depth /\ job'.ids = job.ids
        /\ job'.unlinked = IF job.depth = 0 THEN {} ELSE job.ids
    BY <1>0, <1>18 DEF InsertMeta, PassTypes
  <2>5. \A l \in metaLinks' : l[1] \in 1..Len(meta') /\ meta'[l[1]] = meta[l[1]]
    BY <2>1, <2>3 DEF CondInv
  <2>6. MetaCondensedOnce'
    BY <2>1, <2>5 DEF CondInv, MetaCondensedOnce
  <2>7. Condensing(job') => \A l \in metaLinks' : l[2] \in job'.ids => meta'[l[1]].call = calls'
    BY <1>18, <2>1, <2>4, <2>5 DEF CondInv, Condensing, InsertMeta, PassAt
  <2>8. /\ job'.row \in 1..Len(meta') /\ meta'[job'.row].call = calls'
        /\ job'.unlinked \subseteq job'.ids
        /\ job'.unlinked # {} => job'.depth > 0
    BY <1>0, <2>1, <2>3, <2>4 DEF PassTypes
  <2> QED BY <2>5, <2>6, <2>7, <2>8 DEF CondInv, Meta, PassAt
<1>19. CASE Link
  <2>1. PICK i \in job.unlinked :
            /\ metaLinks' = metaLinks \cup {<<job.row, i>>} /\ job' = [job EXCEPT !.unlinked = job.unlinked \ {i}]
            /\ meta' = meta /\ calls' = calls /\ PassAt("link")
    BY <1>19 DEF Link
  <2>2. /\ job'.pc = "link" /\ job'.row = job.row /\ job'.ids = job.ids /\ job'.depth = job.depth
        /\ job'.unlinked = job.unlinked \ {i}
    BY <1>0, <2>1 DEF PassTypes, PassAt
  <2>3. /\ i \in job.ids /\ Condensing(job) /\ job.row \in Meta /\ meta[job.row].call = calls
        /\ \A l \in metaLinks : l[1] \in Meta /\ (l[2] \in job.ids => meta[l[1]].call = calls)
    BY <2>1 DEF CondInv, Condensing, PassAt
  <2>4. PICK k : k = <<job.row, i>>
    OBVIOUS
  <2>5. MetaCondensedOnce'
    <3>1. \A l \in metaLinks' : l = k \/ l \in metaLinks
      BY <2>1, <2>4
    <3>2. k[1] = job.row /\ k[2] = i
      BY <2>4
    <3> QED BY <2>1, <2>3, <3>1, <3>2 DEF CondInv, MetaCondensedOnce
  <2>6. \A l \in metaLinks' : l[1] \in Meta /\ (l[2] \in job.ids => meta[l[1]].call = calls)
    BY <2>1, <2>3, <2>4
  <2> QED BY <2>1, <2>2, <2>3, <2>5, <2>6 DEF CondInv, Meta, PassAt, Condensing
<1> QED BY <1>3, <1>4, <1>5, <1>6, <1>7, <1>8, <1>9, <1>10, <1>11, <1>12, <1>13, <1>14,
           <1>15, <1>16, <1>17, <1>18, <1>19 DEF ReflectionNext, PassStep

-----------------------------------------------------------------------------
\* What NothingPassedOver allows to be behind the stamp of the last pass.
Accounted == offered \cup during \cup few

\* An entry behind the stamp is accounted for; one before it is, or is still to
\* be read by the pass under way.
PassInv ==
  /\ last <= clock /\ \A i \in Sem : sem[i].at <= clock
  /\ \A i \in Sem : sem[i].at <= last => i \in Accounted
  /\ ~PassAt("idle") => \A i \in Sem : sem[i].at > last =>
        i \in Accounted \/ sem[i].p \in job.todo \/ (PassAt("d0") /\ sem[i].p = job.p)

LEMMA EntryType ==
  ASSUME ReflectionTypes
  PROVE  Len(sem) \in Nat /\ \A i \in Sem : sem[i].p \in Profiles /\ sem[i].at \in Nat
<1>1. sem \in Seq([p : Profiles, at : Nat])
  BY DEF ReflectionTypes
<1> DEFINE E == [p : Profiles, at : Nat]
<1> HIDE DEF E
<1>2. Len(sem) \in Nat /\ \A i \in 1..Len(sem) : sem[i] \in E
  <2>1. sem \in Seq(E)
    BY <1>1 DEF E
  <2> QED BY <2>1
<1> QED BY <1>2 DEF E, Sem

\* A step within a profile's turn.
LEMMA PassFrame ==
  ASSUME PassInv, UNCHANGED <<clock, sem, last, during, offered, few>>, job.pc \notin {"idle", "d0"},
         job'.todo = job.todo
  PROVE  PassInv'
BY DEF PassInv, Accounted, Sem, PassAt

\* Every step keeps track of them; the end of the pass moves the stamp over entries
\* that are all accounted for.
LEMMA PassedOverStep == ReflectionTypes /\ PassInv /\ [ReflectionNext]_reflectionVars => PassInv'
<1> SUFFICES ASSUME ReflectionTypes, PassInv, [ReflectionNext]_reflectionVars PROVE PassInv'
  OBVIOUS
<1>0. /\ PassTypes /\ clock \in Nat /\ last \in Nat /\ sem \in Seq([p : Profiles, at : Nat])
      /\ Len(sem) \in Nat /\ \A i \in Sem : sem[i].p \in Profiles /\ sem[i].at \in Nat
  BY EntryType DEF ReflectionTypes
<1> USE DEF PassFields
<1>1. CASE UNCHANGED reflectionVars
  BY <1>1 DEF reflectionVars, PassInv, Accounted, Sem, PassAt
<1>2. CASE Tick
  BY <1>0, <1>2 DEF Tick, PassInv, Accounted, Sem, PassAt
<1>3. ASSUME NEW p \in Profiles, StoreSemantic(p) PROVE PassInv'
  <2>1. /\ sem' = Append(sem, [p |-> p, at |-> clock])
        /\ during' = IF PassAt("idle") /\ clock # last THEN during ELSE during \cup {Len(sem) + 1}
        /\ UNCHANGED <<clock, last, job, offered, few>>
    BY <1>3 DEF StoreSemantic
  <2>2. /\ Len(sem') = Len(sem) + 1 /\ \A i \in Sem : sem'[i] = sem[i]
        /\ sem'[Len(sem) + 1].at = clock
    BY <1>0, <2>1 DEF Sem
  <2>3. \A i \in 1..Len(sem') : i \in Sem \/ i = Len(sem) + 1
    BY <1>0, <2>2 DEF Sem
  <2>4. \A i \in Accounted : i \in Accounted'
    BY <2>1 DEF Accounted
  <2>5. (PassAt("idle") /\ clock # last) \/ Len(sem) + 1 \in Accounted'
    BY <2>1 DEF Accounted
  <2>6. last' <= clock' /\ \A i \in 1..Len(sem') : sem'[i].at <= clock'
    BY <1>0, <2>1, <2>2, <2>3 DEF PassInv
  <2>7. \A i \in 1..Len(sem') : sem'[i].at <= last' => i \in Accounted'
    <3> SUFFICES ASSUME NEW i \in 1..Len(sem'), sem'[i].at <= last' PROVE i \in Accounted'
      OBVIOUS
    <3>1. CASE i \in Sem
      BY <2>1, <2>2, <2>4, <3>1 DEF PassInv
    <3>2. CASE i = Len(sem) + 1
      BY <1>0, <2>1, <2>2, <2>5, <3>2 DEF PassInv
    <3> QED BY <2>3, <3>1, <3>2
  <2>8. ASSUME ~PassAt("idle"), NEW i \in 1..Len(sem'), sem'[i].at > last'
        PROVE  i \in Accounted' \/ sem'[i].p \in job.todo \/ (PassAt("d0") /\ sem'[i].p = job.p)
    <3>1. CASE i \in Sem
      BY <2>1, <2>2, <2>4, <2>8, <3>1 DEF PassInv
    <3>2. CASE i = Len(sem) + 1
      BY <2>5, <2>8, <3>2
    <3> QED BY <2>3, <3>1, <3>2
  <2> QED BY <2>1, <2>6, <2>7, <2>8 DEF PassInv, Sem, PassAt
<1>4. CASE RunReflection
  <2>1. job'.todo = Profiles
    BY <1>4 DEF RunReflection, NoPass
  <2> QED BY <1>0, <1>4, <2>1 DEF RunReflection, PassInv, Accounted, Sem, PassAt
<1>5. CASE Abort
  <2>1. job'.pc = "idle"
    BY <1>5 DEF Abort, NoPass
  <2> QED BY <1>5, <2>1 DEF Abort, PassInv, Accounted, Sem, PassAt
<1>6. CASE Finish
  <2>1. job'.pc = "idle" /\ last' = clock /\ UNCHANGED <<clock, sem, during, offered, few>>
    BY <1>6 DEF Finish, NoPass, surroundings
  <2>2. \A i \in Sem : i \in Accounted
    <3> SUFFICES ASSUME NEW i \in Sem PROVE i \in Accounted
      OBVIOUS
    <3>1. CASE sem[i].at <= last
      BY <3>1 DEF PassInv
    <3>2. CASE sem[i].at > last
      BY <1>6, <3>2 DEF PassInv, Finish, PassAt
    <3> QED BY <1>0, <3>1, <3>2
  <2> QED BY <1>0, <2>1, <2>2 DEF PassInv, Accounted, Sem, PassAt
<1>7. CASE GenerateD0
  <2>1. /\ PassAt("d0") /\ UNCHANGED <<clock, sem, during, last>>
        /\ \A i \in Recent(job.p) : i \in Accounted' /\ \A j \in Accounted : j \in Accounted'
    BY <1>7 DEF GenerateD0, surroundings, Accounted
  <2>2. \A j \in Accounted : j \in Accounted'
    BY <1>7 DEF GenerateD0, surroundings, Accounted
  <2>3. job'.todo = job.todo /\ job'.pc = "types"
    BY <1>0, <1>7 DEF GenerateD0, PassTypes
  <2>4. \A i \in Sem : sem[i].at > last => i \in Accounted' \/ sem[i].p \in job.todo
    BY <2>1, <2>2 DEF PassInv, Recent, PassAt
  <2> QED BY <2>1, <2>2, <2>3, <2>4 DEF PassInv, Sem, PassAt
<1>8. ASSUME NEW p \in Profiles, RunForProfile(p) PROVE PassInv'
  <2>1. job'.todo = job.todo \ {p} /\ job'.pc = "d0" /\ job'.p = p
    BY <1>0, <1>8 DEF RunForProfile, PassTypes
  <2> QED BY <1>8, <2>1 DEF RunForProfile, surroundings, PassInv, Accounted, Sem, PassAt
<1>9. CASE NextDepth
  <2>1. job'.todo = job.todo
    BY <1>0, <1>9 DEF NextDepth, PassTypes
  <2> QED BY <1>9, <2>1, PassFrame DEF NextDepth, surroundings, PassAt
<1>10. CASE AnswerDone \/ Novel \/ InsertMeta \/ AllLinked
  <2>1. job'.todo = job.todo
    BY <1>0, <1>10 DEF AnswerDone, Novel, InsertMeta, AllLinked, PassTypes
  <2> QED BY <1>10, <2>1, PassFrame DEF AnswerDone, Novel, InsertMeta, AllLinked, surroundings, PassAt
<1>11. CASE Link
  <2>1. job'.todo = job.todo
    BY <1>0, <1>11 DEF Link, PassTypes
  <2> QED BY <1>11, <2>1, PassFrame DEF Link, surroundings, PassAt
<1>12. CASE RunContradictionCascade
  <2>1. job'.todo = job.todo
    BY <1>0, <1>12 DEF RunContradictionCascade, PassTypes
  <2> QED BY <1>12, <2>1, PassFrame DEF RunContradictionCascade, surroundings, PassAt
<1>13. CASE CallFails
  <2>1. job'.todo = job.todo
    BY <1>0, <1>13 DEF CallFails, PassTypes
  <2> QED BY <1>13, <2>1, PassFrame DEF CallFails, PassAt
<1>14. ASSUME NEW t \in Types, NextType(t) PROVE PassInv'
  <2>1. job'.todo = job.todo
    BY <1>0, <1>14 DEF NextType, PassTypes
  <2> QED BY <1>14, <2>1, PassFrame DEF NextType, surroundings, PassAt
<1>15. ASSUME NEW n \in 0..MaxAnswers, Ask(n) PROVE PassInv'
  <2>1. job'.todo = job.todo
    BY <1>0, <1>15 DEF Ask, PassTypes
  <2> QED BY <1>15, <2>1, PassFrame DEF Ask, surroundings, PassAt
<1>16. ASSUME NEW i \in Meta, Confirm(i) PROVE PassInv'
  <2>1. job'.todo = job.todo
    BY <1>0, <1>16 DEF Confirm, PassTypes
  <2> QED BY <1>16, <2>1, PassFrame DEF Confirm, surroundings, PassAt
<1>17. ASSUME NEW i \in Meta, NEW v \in 0..2, Contradict(i, v) PROVE PassInv'
  <2>1. job'.todo = job.todo
    BY <1>0, <1>17 DEF Contradict, PassTypes
  <2> QED BY <1>17, <2>1, PassFrame DEF Contradict, surroundings, PassAt
<1> QED BY <1>1, <1>2, <1>3, <1>4, <1>5, <1>6, <1>7, <1>8, <1>9, <1>10, <1>11, <1>12, <1>13, <1>14,
           <1>15, <1>16, <1>17 DEF ReflectionNext, PassStep

-----------------------------------------------------------------------------
LEMMA ReflectionStarts == ReflectionInit => ReflectionTypes /\ CondInv /\ PassInv
<1> SUFFICES ASSUME ReflectionInit PROVE ReflectionTypes /\ CondInv /\ PassInv
  OBVIOUS
<1>1. ReflectionTypes
  BY DEF ReflectionInit, ReflectionTypes, PassTypes, NoPass, PassFields
<1>2. CondInv
  BY DEF ReflectionInit, CondInv, MetaCondensedOnce, NoPass, PassAt, Condensing
<1>3. PassInv
  BY DEF ReflectionInit, PassInv, Sem, NoPass, PassAt
<1> QED BY <1>1, <1>2, <1>3

\* All parents of a meta entry come from one call of the model, for any number of
\* profiles, depths, failures and passes (condenseMetaType() and runCondensation(),
\* which inserts the links one by one).
THEOREM MetaCondensedOnceHolds == ReflectionSpec => []MetaCondensedOnce
<1>1. CondInv => MetaCondensedOnce
  BY DEF CondInv
<1> QED BY <1>1, ReflectionStarts, ReflectionTypesStep, CondStep, PTL DEF ReflectionSpec

\* No semantic entry falls behind last_reflection_at unread, but one stored during a
\* pass or in the millisecond it ended, or one of too few (MemoryReflectionJob.run()).
THEOREM NothingPassedOverHolds == ReflectionSpec => []NothingPassedOver
<1>1. ReflectionTypes /\ PassInv => NothingPassedOver
  <2> SUFFICES ASSUME ReflectionTypes, PassInv, NEW i \in Sem, sem[i].at < last
               PROVE  i \in offered \cup during \cup few
    BY DEF NothingPassedOver
  <2>1. sem[i].at \in Nat /\ last \in Nat
    BY EntryType DEF ReflectionTypes
  <2> QED BY <2>1 DEF PassInv, Accounted
<1> QED BY <1>1, ReflectionStarts, ReflectionTypesStep, PassedOverStep, PTL DEF ReflectionSpec

\* No step makes an entry below the trust threshold trusted again (the confirmations
\* and runContradictionCascade()).
THEOREM DistrustLastsHolds == ReflectionSpec => DistrustLasts
<1>1. ReflectionTypes /\ [ReflectionNext]_reflectionVars => [\A i \in Meta : meta[i].conf = 0 => meta'[i].conf = 0]_reflectionVars
  BY ReflectionTypesStep DEF Grows
<1> QED BY <1>1, ReflectionStarts, ReflectionTypesStep, PTL DEF ReflectionSpec, DistrustLasts

-----------------------------------------------------------------------------
-----------------------------------------------------------------------------
(***************************************************************************)
(* Consolidation.                                                          *)
(***************************************************************************)

JobTypes ==
    /\ lastId \in Nat
    /\ pc \in [Jobs -> Steps]
    /\ rest \in [Jobs -> SUBSET Messages]
    /\ todo = [j \in Jobs |-> todo[j]]
    /\ cur \in [Jobs -> Nat]
    /\ links \subseteq (1..lastId) \X Messages
    /\ parents \subseteq (1..lastId) \X Nat

\* A run that is under way has set `running` and is the only one.
OneRun ==
    /\ \A j \in Jobs : pc[j] # "idle" => running
    /\ \A i, j \in Jobs : pc[i] # "idle" /\ pc[j] # "idle" => i = j

\* The messages a run has read and not linked yet have no link.
MessagesFree ==
    \A j \in Jobs :
       /\ pc[j] \in {"chunk", "link", "facts"} => \A m \in rest[j], i \in Nat : <<i, m>> \notin links
       /\ pc[j] = "link" =>
             /\ cur[j] \in 1..lastId
             /\ \A m \in todo[j] : m \notin rest[j] /\ \A i \in Nat : <<i, m>> \notin links

\* The summaries a run has read and not linked yet have no parent.
LeavesFree ==
    \A j \in Jobs : pc[j] = "adopt" =>
       cur[j] \in 1..lastId /\ \A id \in todo[j], p \in Nat : <<p, id>> \notin parents

\* The two properties, of rows with any id.
RowsOnce ==
    /\ \A m \in Messages, i, k \in Nat : <<i, m>> \in links /\ <<k, m>> \in links => i = k
    /\ \A c, i, k \in Nat : <<i, c>> \in parents /\ <<k, c>> \in parents => i = k

OnceInv == JobTypes /\ OneRun /\ MessagesFree /\ LeavesFree /\ RowsOnce

-----------------------------------------------------------------------------
LEMMA InitOnce == ConsolidationInit => OnceInv
  <1> SUFFICES ASSUME ConsolidationInit PROVE OnceInv
    OBVIOUS
  <1>1. JobTypes
    BY DEF ConsolidationInit, JobTypes, Steps
  <1>2. OneRun /\ MessagesFree /\ LeavesFree
    BY DEF ConsolidationInit, OneRun, MessagesFree, LeavesFree
  <1>3. RowsOnce
    BY DEF ConsolidationInit, RowsOnce
  <1> QED
    BY <1>1, <1>2, <1>3 DEF OnceInv

\* What the job reads as not linked and as not condensed has no row at all.
LEMMA Unread ==
    ASSUME JobTypes
    PROVE  /\ \A m : ~Linked(m) => \A i \in Nat : <<i, m>> \notin links
           /\ \A id : ~Condensed(id) => \A p \in Nat : <<p, id>> \notin parents
  BY DEF JobTypes, Linked, Condensed

\* The tasks touch nothing of a run and nothing of the tables.
LEMMA Elsewhere ==
    ASSUME OnceInv, UNCHANGED <<lastId, links, parents, running, pc, rest, todo, cur>>
    PROVE  OnceInv'
  BY DEF OnceInv, JobTypes, OneRun, MessagesFree, LeavesFree, RowsOnce

\* A run that ends leaves what it had read, and lets the next one start.
LEMMA Ends ==
    ASSUME OnceInv, NEW j \in Jobs, pc[j] # "idle", Return(j), UNCHANGED tables
    PROVE  OnceInv'
  <1> USE DEF OnceInv
  <1>1. \A i \in Jobs : pc'[i] = "idle"
    BY DEF Return, OneRun, JobTypes
  <1>2. JobTypes'
    BY DEF JobTypes, Return, tables, Steps
  <1>3. OneRun' /\ MessagesFree' /\ LeavesFree'
    BY <1>1 DEF OneRun, MessagesFree, LeavesFree
  <1>4. RowsOnce'
    BY DEF RowsOnce, tables
  <1> QED
    BY <1>2, <1>3, <1>4

\* A step of the one run under way that writes no row and comes to a place where it has
\* nothing in hand that is yet to be linked.
LEMMA Moves ==
    ASSUME OnceInv, NEW j \in Jobs, NEW p \in Steps, running',
           pc[j] # "idle" \/ ~running,
           pc' = [pc EXCEPT ![j] = p], p \notin {"chunk", "link", "facts", "adopt"},
           UNCHANGED <<lastId, links, parents, todo, cur>>,
           rest' \in [Jobs -> SUBSET Messages]
    PROVE  OnceInv'
  <1> USE DEF OnceInv
  <1>1. \A i \in Jobs : i # j => pc'[i] = "idle"
    BY DEF OneRun, JobTypes
  <1>2. pc'[j] = p
    BY DEF JobTypes
  <1>3. JobTypes'
    BY DEF JobTypes
  <1>4. OneRun' /\ MessagesFree' /\ LeavesFree'
    BY <1>1, <1>2 DEF OneRun, MessagesFree, LeavesFree
  <1>5. RowsOnce'
    BY DEF RowsOnce
  <1> QED
    BY <1>3, <1>4, <1>5

-----------------------------------------------------------------------------
(* The steps that read, insert and link *)

LEMMA Fetches ==
    ASSUME OnceInv, NEW j \in Jobs, NEW s \in Sessions, FetchMessages(j, s)
    PROVE  OnceInv'
  <1> USE DEF OnceInv, FetchMessages, tables
  <1>1. Unlinked(s) \subseteq Messages /\ \A m \in Unlinked(s), i \in Nat : <<i, m>> \notin links
    BY Unread DEF Unlinked, InSession
  <1>2. \A i \in Jobs : i # j => pc'[i] = "idle"
    BY DEF OneRun, JobTypes
  <1>3. pc'[j] \in {"session", "chunk"} /\ rest'[j] = Unlinked(s)
    BY DEF JobTypes
  <1>4. JobTypes'
    BY <1>1 DEF JobTypes, Steps
  <1>5. OneRun' /\ LeavesFree'
    BY <1>2, <1>3 DEF OneRun, LeavesFree
  <1>6. MessagesFree'
    BY <1>1, <1>2, <1>3 DEF MessagesFree
  <1>7. RowsOnce'
    BY DEF RowsOnce
  <1> QED
    BY <1>4, <1>5, <1>6, <1>7

LEMMA Summarises ==
    ASSUME OnceInv, NEW j \in Jobs, InsertSummary(j)
    PROVE  OnceInv'
  <1> USE DEF OnceInv
  <1> DEFINE c == FirstChunk(rest[j])
  <1>1. /\ pc[j] = "chunk" /\ pc' = [pc EXCEPT ![j] = "link"]
        /\ todo' = [todo EXCEPT ![j] = c] /\ rest' = [rest EXCEPT ![j] = rest[j] \ c]
        /\ lastId' = lastId + 1 /\ cur' = [cur EXCEPT ![j] = lastId + 1]
        /\ UNCHANGED <<links, parents, running>>
    BY DEF InsertSummary
  <1>2. c \subseteq rest[j]
    BY DEF FirstChunk
  <1>3. \A i \in Jobs : i # j => pc'[i] = "idle"
    BY <1>1 DEF OneRun, JobTypes
  <1> HIDE DEF c
  <1>4. JobTypes'
    BY <1>1 DEF JobTypes, Steps
  <1>5. /\ pc'[j] = "link" /\ todo'[j] = c /\ rest'[j] = rest[j] \ c
        /\ cur'[j] \in 1..lastId'
    BY <1>1 DEF JobTypes
  <1>6. OneRun' /\ LeavesFree'
    BY <1>1, <1>3, <1>5 DEF OneRun, LeavesFree
  <1>7. MessagesFree'
    BY <1>1, <1>2, <1>3, <1>5 DEF MessagesFree
  <1>8. RowsOnce'
    BY <1>1 DEF RowsOnce
  <1> QED
    BY <1>4, <1>6, <1>7, <1>8

LEMMA Links ==
    ASSUME OnceInv, NEW j \in Jobs, NEW m \in Messages, LinkMessage(j, m)
    PROVE  OnceInv'
  <1> USE DEF OnceInv, LinkMessage
  <1>1. /\ m \in todo[j] /\ m \notin rest[j] /\ cur[j] \in 1..lastId
        /\ \A i \in Nat : <<i, m>> \notin links
    BY DEF Oldest, MessagesFree
  <1>2. \A i \in Jobs : i # j => pc'[i] = "idle"
    BY DEF OneRun, JobTypes
  <1>3. pc'[j] \in {"link", "facts"} /\ todo'[j] = todo[j] \ {m}
    BY DEF JobTypes
  <1>4. JobTypes'
    <2>1. links' \subseteq (1..lastId) \X Messages
      BY <1>1 DEF JobTypes
    <2>2. pc' \in [Jobs -> Steps]
      BY DEF JobTypes, Steps
    <2>3. todo' = [i \in Jobs |-> todo'[i]]
      BY DEF JobTypes
    <2> QED
      BY <2>1, <2>2, <2>3 DEF JobTypes
  <1>5. OneRun' /\ LeavesFree'
    BY <1>2, <1>3 DEF OneRun, LeavesFree
  <1>6. \A n : n # m => \A i \in Nat : <<i, n>> \in links' => <<i, n>> \in links
    OBVIOUS
  <1>7. MessagesFree'
    BY <1>1, <1>2, <1>3, <1>6 DEF MessagesFree
  <1>8. RowsOnce'
    BY <1>1 DEF RowsOnce
  <1> QED
    BY <1>4, <1>5, <1>7, <1>8

LEMMA Extracts ==
    ASSUME OnceInv, NEW j \in Jobs, ExtractFacts(j)
    PROVE  OnceInv'
  <1> USE DEF OnceInv, ExtractFacts, tables
  <1>1. \A i \in Jobs : i # j => pc'[i] = "idle"
    BY DEF OneRun, JobTypes
  <1>2. pc'[j] \in {"session", "chunk"}
    BY DEF JobTypes
  <1>3. JobTypes'
    BY DEF JobTypes, Steps
  <1>4. OneRun' /\ LeavesFree'
    BY <1>1, <1>2 DEF OneRun, LeavesFree
  <1>5. MessagesFree'
    BY <1>1, <1>2 DEF MessagesFree
  <1>6. RowsOnce'
    BY DEF RowsOnce
  <1> QED
    BY <1>3, <1>4, <1>5, <1>6

LEMMA Condenses ==
    ASSUME OnceInv, NEW j \in Jobs, NEW s \in Sessions, InsertParent(j, s)
    PROVE  OnceInv'
  <1> USE DEF OnceInv
  <1> DEFINE kids == LeavesOfChat(ChatOf[s])
  <1>1. /\ pc[j] = "condense" /\ pc' = [pc EXCEPT ![j] = "adopt"]
        /\ todo' = [todo EXCEPT ![j] = kids]
        /\ lastId' = lastId + 1 /\ cur' = [cur EXCEPT ![j] = lastId + 1]
        /\ UNCHANGED <<links, parents, running, rest>>
    BY DEF InsertParent
  <1>2. \A id \in kids, p \in Nat : <<p, id>> \notin parents
    <2>1. \A t : \A id \in Leaves(t) : ~Condensed(id)
      BY DEF Leaves
    <2>2. \A id \in kids : ~Condensed(id)
      BY <2>1 DEF LeavesOfChat
    <2> QED
      BY <2>2, Unread
  <1>3. \A i \in Jobs : i # j => pc'[i] = "idle"
    BY <1>1 DEF OneRun, JobTypes
  <1> HIDE DEF kids
  <1>4. JobTypes'
    <2>1. lastId' \in Nat /\ 1..lastId \subseteq 1..lastId'
      BY <1>1 DEF JobTypes
    <2>2. pc' \in [Jobs -> Steps]
      BY <1>1 DEF JobTypes, Steps
    <2>3. cur' \in [Jobs -> Nat] /\ todo' = [i \in Jobs |-> todo'[i]]
      BY <1>1, <2>1 DEF JobTypes
    <2>4. links' \subseteq (1..lastId') \X Messages /\ parents' \subseteq (1..lastId') \X Nat
      BY <1>1, <2>1 DEF JobTypes
    <2> QED
      BY <1>1, <2>1, <2>2, <2>3, <2>4 DEF JobTypes
  <1>5. pc'[j] = "adopt" /\ todo'[j] = kids /\ cur'[j] \in 1..lastId'
    BY <1>1 DEF JobTypes
  <1>6. OneRun' /\ MessagesFree'
    BY <1>1, <1>3, <1>5 DEF OneRun, MessagesFree
  <1>7. LeavesFree'
    BY <1>1, <1>2, <1>3, <1>5 DEF LeavesFree
  <1>8. RowsOnce'
    BY <1>1 DEF RowsOnce
  <1> QED
    BY <1>4, <1>6, <1>7, <1>8

LEMMA Adopts ==
    ASSUME OnceInv, NEW j \in Jobs, NEW id \in 1..lastId, LinkChild(j, id)
    PROVE  OnceInv'
  <1> USE DEF OnceInv, LinkChild
  <1>1. id \in todo[j] /\ cur[j] \in 1..lastId /\ \A p \in Nat : <<p, id>> \notin parents
    BY DEF Oldest, LeavesFree
  <1>2. \A i \in Jobs : i # j => pc'[i] = "idle"
    BY DEF OneRun, JobTypes
  <1>3. pc'[j] \in {"adopt", "condense"} /\ todo'[j] = todo[j] \ {id}
    BY DEF JobTypes
  <1>4. id \in Nat
    BY DEF JobTypes
  <1>5. JobTypes'
    <2>1. parents' \subseteq (1..lastId) \X Nat
      BY <1>1, <1>4 DEF JobTypes
    <2>2. pc' \in [Jobs -> Steps]
      BY DEF JobTypes, Steps
    <2>3. todo' = [i \in Jobs |-> todo'[i]]
      BY DEF JobTypes
    <2> QED
      BY <2>1, <2>2, <2>3 DEF JobTypes
  <1>6. OneRun' /\ MessagesFree'
    BY <1>2, <1>3 DEF OneRun, MessagesFree
  <1>7. LeavesFree'
    BY <1>1, <1>2, <1>3 DEF LeavesFree
  <1>8. RowsOnce'
    BY <1>1, <1>4 DEF RowsOnce
  <1> QED
    BY <1>5, <1>6, <1>7, <1>8

LEMMA Restarts == OnceInv /\ Crash => OnceInv'
  <1> SUFFICES ASSUME OnceInv, Crash PROVE OnceInv'
    OBVIOUS
  <1> USE DEF OnceInv, Crash, tables
  <1>1. JobTypes'
    BY DEF JobTypes, Steps
  <1>2. OneRun' /\ MessagesFree' /\ LeavesFree'
    BY DEF OneRun, MessagesFree, LeavesFree
  <1>3. RowsOnce'
    BY DEF RowsOnce
  <1> QED
    BY <1>1, <1>2, <1>3

-----------------------------------------------------------------------------
LEMMA StepOnce == OnceInv /\ [ConsolidationNext]_consolidationVars => OnceInv'
  <1> SUFFICES ASSUME OnceInv, [ConsolidationNext]_consolidationVars PROVE OnceInv'
    OBVIOUS
  <1>1. ASSUME NEW s \in Sessions, StartSession(s) \/ EndSession(s) PROVE OnceInv'
    BY <1>1, Elsewhere DEF StartSession, EndSession, tables, jobVars
  <1>2. ASSUME NEW m \in Messages, Backfill(m) \/ \E s \in Sessions : PickSession(m, s) PROVE OnceInv'
    BY <1>2, Elsewhere DEF Backfill, PickSession, tables, jobVars
  <1>3. ASSUME NEW j \in Jobs, JobStep(j) PROVE OnceInv'
    <2>1. CASE Run(j)
      <3>1. rest \in [Jobs -> SUBSET Messages] /\ "count" \in Steps
        BY DEF OnceInv, JobTypes, Steps
      <3> QED
        BY <2>1, <3>1, Moves DEF Run, tables
    <2>2. CASE TooFew(j)
      BY <2>2, Ends DEF TooFew
    <2>3. CASE Enough(j)
      <3>1. rest \in [Jobs -> SUBSET Messages] /\ "list" \in Steps /\ running
        BY <2>3 DEF OnceInv, JobTypes, Steps, OneRun, Enough
      <3> QED
        BY <2>3, <3>1, Moves DEF Enough, tables
    <2>4. CASE ListSessions(j)
      <3>1. rest \in [Jobs -> SUBSET Messages] /\ "session" \in Steps /\ running
        BY <2>4 DEF OnceInv, JobTypes, Steps, OneRun, ListSessions
      <3> QED
        BY <2>4, <3>1, Moves DEF ListSessions, tables
    <2>5. CASE FindCandidates(j)
      <3>1. rest \in [Jobs -> SUBSET Messages] /\ "condense" \in Steps /\ running
        BY <2>5 DEF OnceInv, JobTypes, Steps, OneRun, FindCandidates
      <3> QED
        BY <2>5, <3>1, Moves DEF FindCandidates, tables
    <2>6. CASE RunDone(j)
      BY <2>6, Ends DEF RunDone
    <2>7. ASSUME NEW s \in Sessions, FetchMessages(j, s) PROVE OnceInv'
      BY <2>7, Fetches
    <2>8. ASSUME NEW s \in Sessions, SkipCandidate(j, s) PROVE OnceInv'
      BY <2>8, Elsewhere DEF SkipCandidate, tables
    <2>9. ASSUME NEW s \in Sessions, InsertParent(j, s) PROVE OnceInv'
      BY <2>9, Condenses
    <2>10. ASSUME NEW m \in Messages, LinkMessage(j, m) PROVE OnceInv'
      BY <2>10, Links
    <2>11. ASSUME NEW id \in 1..lastId, LinkChild(j, id) PROVE OnceInv'
      BY <2>11, Adopts
    <2>12. CASE InsertSummary(j)
      BY <2>12, Summarises
    <2>13. CASE ExtractFacts(j)
      BY <2>13, Extracts
    <2> QED
      BY <1>3, <2>1, <2>2, <2>3, <2>4, <2>5, <2>6, <2>7, <2>8, <2>9, <2>10, <2>11, <2>12, <2>13
      DEF JobStep
  <1>4. ASSUME NEW j \in Jobs, Throw(j) PROVE OnceInv'
    BY <1>4, Ends DEF Throw
  <1>5. CASE Crash
    BY <1>5, Restarts
  <1>6. CASE UNCHANGED consolidationVars
    BY <1>6, Elsewhere DEF consolidationVars, jobVars
  <1> QED
    BY <1>1, <1>2, <1>3, <1>4, <1>5, <1>6 DEF ConsolidationNext

-----------------------------------------------------------------------------
\* However often the timer fires, a run throws or the process dies, and whatever sessions the
\* tasks write into meanwhile, consolidateSession() links no message to a second summary.
THEOREM SummarisedOnceHolds == ConsolidationSpec => []SummarisedOnce
  <1>1. OnceInv => SummarisedOnce
    BY DEF OnceInv, RowsOnce, JobTypes, SummarisedOnce
  <1> QED
    BY InitOnce, StepOnce, <1>1, PTL DEF ConsolidationSpec

\* Nor does condenseIfReady() give a summary a second parent.
THEOREM CondensedOnceHolds == ConsolidationSpec => []CondensedOnce
  <1>1. OnceInv => CondensedOnce
    BY DEF OnceInv, RowsOnce, JobTypes, CondensedOnce
  <1> QED
    BY InitOnce, StepOnce, <1>1, PTL DEF ConsolidationSpec
=============================================================================
