-------------------------- MODULE ProfileFrontends --------------------------
(***************************************************************************)
(* What calls the profile and memory managers: the orchestrator's turn,    *)
(* the MCP server it starts once per chat, the commands typed into a chat, *)
(* the CLI, the channel container that creates chats, the background jobs, *)
(* and a stop and start of the daemon.                                     *)
(***************************************************************************)
EXTENDS Profiles

-----------------------------------------------------------------------------
(* The daemon, the channel container and the background jobs.              *)

\* A crash: calls of the daemon are lost, the CLI's (which have no chat) go on.
Stop ==
  /\ up /\ up' = FALSE
  /\ server' = [c \in Chats |-> None]
  /\ newChats' = None
  /\ call' = [w \in Callers |-> IF call[w].c \in {NoChat, Setup} THEN call[w] ELSE Idle]
  /\ UNCHANGED <<db, ops, ghost>>

\* The schema is applied on every start.  Its seed inserts a default profile
\* unless the name is taken; with another default the unique index refuses it
\* and the start fails.
Start ==
  /\ ~up /\ (seed \in profiles \/ (dflt = None /\ nextId <= MaxId))
  /\ up' = TRUE
  /\ IF seed \in profiles
       THEN UNCHANGED <<profiles, dflt, nextId, seed>>
       ELSE /\ profiles' = profiles \cup {nextId}
            /\ dflt' = nextId /\ seed' = nextId /\ nextId' = nextId + 1
  /\ UNCHANGED <<chat, rows, proposals, newChats, server, call, ops, ghost>>

\* The first message of a chat: the channel container asks for the default
\* profile once and keeps it; a profile that has gone fails the insert.
EnsureChat(c) ==
  LET p == IF newChats # None THEN newChats ELSE dflt IN
  /\ up /\ chat[c] = None /\ p # None
  /\ newChats' = p
  /\ IF p \in profiles
       THEN chat' = [chat EXCEPT ![c] = p] /\ had' = [had EXCEPT ![c] = {p}]
       ELSE UNCHANGED <<chat, had>>
  /\ UNCHANGED <<profiles, dflt, nextId, seed, rows, proposals, server, call, up, ops,
                 shown, outside, unsettled>>

\* A reflection pass inserts meta rows and links; so does consolidation, with
\* summaries, under the profile of the chat.
Reflects(p) ==
  /\ up /\ p \in profiles /\ "semantic" \in rows[p] /\ rows[p] \cap {"meta", "joins"} = {}
  /\ rows' = [rows EXCEPT ![p] = @ \cup {"meta", "joins"}]
  /\ UNCHANGED <<profiles, dflt, nextId, seed, chat, proposals, newChats, server, call, up, ops, ghost>>

\* After the turn: facts found in the agent's tool calls are stored under the
\* chat's profile.
ExtractMemories(w, c) == up /\ chat[c] # None /\ Store(w, c, chat[c], "semantic")

-----------------------------------------------------------------------------
(* McpServer: one per chat, kept for the daemon's life.                    *)

MutStartServer(w, c) ==
  /\ up /\ chat[c] # None /\ server[c] = None
  /\ Begin(w) /\ Goes(w, "listen", c, dflt, "none", FALSE)
  /\ UNCHANGED <<db, newChats, server, up, ghost>>

\* The profile is the chat's, else the default; it is read once.
StartServer(w, c) ==
  /\ up /\ chat[c] # None /\ server[c] = None
  /\ Begin(w) /\ Goes(w, "listen", c, IF chat[c] # None THEN chat[c] ELSE dflt, "none", FALSE)
  /\ UNCHANGED <<db, newChats, server, up, ghost>>

Listen(w) ==
  /\ At(w, "listen")
  /\ server' = [server EXCEPT ![call[w].c] = call[w].p]
  /\ Done(w)
  /\ UNCHANGED <<db, newChats, up, ghost>>

Serves(c) == up /\ server[c] # None

ToolSearchSemantic(w, c) == Serves(c) /\ Query(w, c, server[c], "semantic")
ToolSearchExternal(w, c) == Serves(c) /\ Query(w, c, server[c], "external")
ToolSearchMeta(w, c)     == Serves(c) /\ Query(w, c, server[c], "meta")
ToolGetIdentity(w, c)    == Serves(c) /\ Query(w, c, server[c], "identity")

\* The ids these three take come from earlier answers; no profile is checked.
ToolExpandMemory(w, c, p)  == Serves(c) /\ p \in shown[c] /\ Query(w, c, p, "summary")
ToolExpandMeta(w, c, p)    == Serves(c) /\ p \in shown[c] /\ Query(w, c, p, "sources")
ToolTraceToSource(w, c, p) == Serves(c) /\ p \in shown[c] /\ Query(w, c, p, "trace")

ToolStoreSemantic(w, c)      == Serves(c) /\ Store(w, c, server[c], "semantic")
ToolObservePersonality(w, c) == Serves(c) /\ ObserveAgentPersonality(w, c, server[c])
ToolObserveUser(w, c)        == Serves(c) /\ ObserveUserPersonality(w, c)
ToolUpdateUserIdentity(w, c) == Serves(c) /\ UpdateUserIdentity(w, c)
ToolProposeIdentityUpdate(w, c) == Serves(c) /\ ProposeIdentityUpdate(w, server[c])

ToolSwitchChatProfile(w, c, p) ==
  /\ Serves(c) /\ p \in profiles /\ Begin(w)
  /\ Goes(w, "assign", c, p, "none", TRUE)
  /\ UNCHANGED <<db, newChats, server, up, ghost>>

\* The tool's last step, after the chat's row has been changed.
CacheProfile(w) ==
  /\ At(w, "cache")
  /\ server' = [server EXCEPT ![call[w].c] = call[w].p]
  /\ Done(w)
  /\ UNCHANGED <<db, newChats, up, ghost>>

-----------------------------------------------------------------------------
(* Commands typed into a chat.                                             *)

ResolveProfileId(c) == IF chat[c] # None THEN chat[c] ELSE dflt

\* A message from a chat whose profile, or else the default, can be resolved.
Command(c) == up /\ chat[c] # None /\ ResolveProfileId(c) # None

\* complete: the command gives both role and tone, which a first identity needs.
IdentitySetAgent(w, c, complete) ==
  /\ Command(c) /\ (complete \/ "identity" \in rows[ResolveProfileId(c)])
  /\ SetAgentIdentity(w, c, ResolveProfileId(c))

IdentityShow(w, c)          == Command(c) /\ Query(w, c, ResolveProfileId(c), "identity")
IdentitySetUser(w, c)       == Command(c) /\ UpdateUserIdentity(w, c)
PersonalityShow(w, c)       == Command(c) /\ Query(w, c, ResolveProfileId(c), "identity")
PersonalitySetAgent(w, c)   == Command(c) /\ ObserveAgentPersonality(w, c, ResolveProfileId(c))
PersonalitySetUser(w, c)    == Command(c) /\ ObserveUserPersonality(w, c)
PersonalityResetAgent(w, c) == Command(c) /\ DeleteAgentPersonality(w, ResolveProfileId(c))
PersonalityResetUser(w, c)  == Command(c) /\ DeleteUserPersonality(w)

ProfileSwitch(w, c, p) ==
  /\ Command(c) /\ p \in profiles /\ Begin(w)
  /\ Goes(w, "assign", c, p, "none", FALSE)
  /\ UNCHANGED <<db, newChats, server, up, ghost>>

-----------------------------------------------------------------------------
(* The CLI: another process, so the daemon need not run.  A profile is     *)
(* named or the default.                                                   *)

Named(p) == p \in profiles

IdentityAgentSetCommand(w, p, complete) ==
  /\ Named(p) /\ (complete \/ "identity" \in rows[p])
  /\ SetAgentIdentity(w, NoChat, p)

IdentityUserSetCommand(w)           == UpdateUserIdentity(w, NoChat)
PersonalityAgentSetCommand(w, p)    == Named(p) /\ ObserveAgentPersonality(w, NoChat, p)
PersonalityAgentResetCommand(w, p)  == Named(p) /\ DeleteAgentPersonality(w, p)
PersonalityUserSetCommand(w)        == ObserveUserPersonality(w, NoChat)
PersonalityUserResetCommand(w)      == DeleteUserPersonality(w)

\* flowhelm setup identity: the agent's part, then the user's, each only when
\* given; a missing tone has a default, so a role is enough.
SetupIdentityCommand(w) ==
  dflt # None /\ (SetAgentIdentity(w, NoChat, dflt) \/ SetAgentIdentity(w, Setup, dflt)
                    \/ UpdateUserIdentity(w, NoChat))

-----------------------------------------------------------------------------

\* A first start, or a deployment in use: one chat, on the seeded profile or on
\* a second one that holds every kind of memory.
Init ==
  /\ \/ /\ profiles = {1} /\ nextId = 2
        /\ chat = [c \in Chats |-> None]
     \/ /\ profiles = {1, 2} /\ nextId = 3 /\ MaxProfiles >= 2
        /\ \E c0 \in Chats, p \in {1, 2} : chat = [c \in Chats |-> IF c = c0 THEN p ELSE None]
  /\ dflt = 1 /\ seed = 1
  /\ rows = [p \in {User} \cup Ids |-> IF p = 2 /\ 2 \in profiles THEN Tables ELSE {}]
  /\ proposals = {} /\ newChats = None /\ up = TRUE /\ ops = 0
  /\ server = [c \in Chats |-> None]
  /\ call = [w \in Callers |-> Idle]
  /\ had = [c \in Chats |-> {chat[c]} \ {None}]
  /\ shown = [c \in Chats |-> {}]
  /\ outside = [c \in Chats |-> FALSE]
  /\ unsettled = FALSE

Manage(w) ==
  \/ CreateProfile(w) \/ InsertProfile(w) \/ CloneRows(w) \/ CountChats(w)
  \/ DeleteRows(w) \/ DropProfile(w) \/ MoveDefault(w) \/ AssignChat(w)
  \/ \E p \in profiles : CloneProfile(w, p) \/ DeleteProfile(w, p) \/ SetDefaultProfile(w, p)

Remember(w) ==
  \/ Look(w) \/ WriteRow(w) \/ StoreSemanticMemory(w) \/ StoreExternalMemory(w)
  \/ QuerySemanticMemory(w) \/ QueryMetaMemory(w) \/ QueryExternalMemory(w)
  \/ ExpandMemory(w) \/ ExpandMetaMemory(w) \/ TraceMetaToSources(w)
  \/ ReadIdentity(w) \/ ReadContext(w)
  \/ \E p \in profiles :
       \/ ConfirmIdentityUpdate(w, p) \/ RemoveExternalBySource(w, p)
       \/ DeleteSemanticMemory(w, p) \/ Store(w, NoChat, p, "external")

Turn(w, c) == BuildAgentContext(w, c) \/ ExtractMemories(w, c) \/ StartServer(w, c)

HandleToolCall(w, c) ==
  \/ ToolSearchSemantic(w, c) \/ ToolSearchExternal(w, c) \/ ToolSearchMeta(w, c)
  \/ ToolGetIdentity(w, c) \/ ToolStoreSemantic(w, c) \/ ToolObservePersonality(w, c)
  \/ ToolObserveUser(w, c) \/ ToolUpdateUserIdentity(w, c) \/ ToolProposeIdentityUpdate(w, c)
  \/ \E p \in Ids : \/ ToolExpandMemory(w, c, p) \/ ToolExpandMeta(w, c, p)
                    \/ ToolTraceToSource(w, c, p) \/ ToolSwitchChatProfile(w, c, p)

HandleIdentity(w, c) ==
  \/ IdentityShow(w, c) \/ IdentitySetUser(w, c)
  \/ \E complete \in BOOLEAN : IdentitySetAgent(w, c, complete)

HandlePersonality(w, c) ==
  \/ PersonalityShow(w, c) \/ PersonalitySetAgent(w, c) \/ PersonalitySetUser(w, c)
  \/ PersonalityResetAgent(w, c) \/ PersonalityResetUser(w, c)

HandleProfile(w, c) == \E p \in Ids : ProfileSwitch(w, c, p)

DispatchIdentityCommand(w) ==
  \/ IdentityUserSetCommand(w)
  \/ \E p \in Ids, complete \in BOOLEAN : IdentityAgentSetCommand(w, p, complete)

DispatchPersonalityCommand(w) ==
  \/ PersonalityUserSetCommand(w) \/ PersonalityUserResetCommand(w)
  \/ \E p \in Ids : PersonalityAgentSetCommand(w, p) \/ PersonalityAgentResetCommand(w, p)

Next ==
  \/ Stop \/ Start
  \/ \E c \in Chats : EnsureChat(c)
  \/ \E p \in profiles : Reflects(p)
  \/ \E w \in Callers :
       \/ Manage(w) \/ Remember(w) \/ Listen(w) \/ CacheProfile(w)
       \/ DispatchIdentityCommand(w) \/ DispatchPersonalityCommand(w) \/ SetupIdentityCommand(w)
       \/ \E c \in Chats : \/ Turn(w, c) \/ HandleToolCall(w, c)
                           \/ HandleIdentity(w, c) \/ HandlePersonality(w, c) \/ HandleProfile(w, c)

Spec == Init /\ [][Next]_vars

-----------------------------------------------------------------------------
(* Properties.                                                             *)

\* Profiles keep apart: a chat's agent is shown memory, identity or personality
\* only of profiles that the chat has been assigned to, whatever calls overlap,
\* although three tools take bare ids and the server caches its profile.
OnlyOwnProfiles == \A c \in Chats : shown[c] \subseteq had[c]

\* The server of a chat stores and searches under the chat's profile unless the
\* chat was switched past it: by a command, or by a call that overlapped another
\* one that had a profile in hand.  A switch that finished leaves them agreeing.
ServerFollowsChat ==
  \A c \in Chats :
    server[c] # None /\ ~outside[c] /\ (\A w \in Callers : call[w].op # "cache" \/ call[w].c # c)
      => server[c] = chat[c]

\* There is always a default profile to give to a new chat, unless the default
\* was moved to a profile that was being deleted at that moment.
DefaultKept == unsettled \/ dflt \in profiles

\* The limit on profiles is read before the insert, so calls that overlap may
\* pass it together, but by no more than one each.  The seed of a start counts
\* nothing: once a deployment has lost its default, its profile comes on top.
LimitHolds ==
  LET counted == IF unsettled THEN profiles \ {seed} ELSE profiles
  IN  Cardinality(counted) <= MaxProfiles + Cardinality(Callers) - 1

\* The set of profiles (createProfile, cloneProfile, deleteProfile, setDefaultProfile): a
\* default in it, and no more than the limit and the overlapping calls explain.
ProfilesSound == DefaultKept /\ LimitHolds
=============================================================================
