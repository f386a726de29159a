-------------------------- MODULE CredentialVault --------------------------
(***************************************************************************)
(* The encrypted vault (credentials.enc, credentials.key) and those who    *)
(* write to it: the orchestrator at boot (migrateAuthTokens, dbPassword),  *)
(* the CLI (a channel's credentials), and the channel container's WhatsApp *)
(* session (saveCreds on every creds.update, keys.set), whose calls        *)
(* overlap.  Every write is load, change, save; files are written in place.*)
(*                                                                         *)
(* A vault is a function from names to versions, 0 for a name it lacks.    *)
(* Its length stands for the length of the file.                           *)
(***************************************************************************)
EXTENDS Integers, FiniteSets

CONSTANTS
    Orch,       \* the orchestrator
    Cli,        \* CLI processes
    Writers,    \* vault calls of the channel container that may overlap
    Secrets,    \* names the CLI and the channel container write
    Creds,      \* the one of them saveCreds() writes
    Token, Db,  \* the rule migrateAuthTokens() writes, and "db-password"
    MaxOps,     \* bound: writes of Cli and Writers
    MaxBoots,   \* bound: boots of the orchestrator
    MaxCrashes  \* bound: deaths of a process

KeyHolders == {Orch} \cup Cli
Actors == KeyHolders \cup Writers
SecretNames == Secrets \cup {Token, Db}

ASSUME VaultAssumption ==
    /\ Orch \notin Cli \cup Writers /\ Cli \cap Writers = {}
    /\ Creds \in Secrets /\ Token \notin Secrets /\ Db \notin Secrets /\ Token # Db
    /\ {MaxOps, MaxBoots, MaxCrashes} \subseteq Nat

VARIABLES
    file,      \* credentials.enc: its state, its contents and the key it is encrypted with
    keyFile,   \* credentials.key: 0, Blank when created and not written, or a key
    pc,        \* where each actor's call stands
    name, ver, \* the name it writes and the version
    loaded,    \* the rules it loaded
    key,       \* the key it holds; for Writers the keyOverride
    up,        \* the orchestrator has booted
    channel,   \* the channel container runs
    returned,  \* history: passwords dbPassword() returned
    done,      \* history: the version of each name whose write completed last
    clashed,   \* history: who took part in load-change-save calls that overlapped
    ops, boots, crashes

vaultVars == <<file, keyFile, pc, name, ver, loaded, key, up, channel, returned, done, clashed, ops, boots, crashes>>

Blank == -1
EmptyVault == [n \in SecretNames |-> 0]
Vault(st, map, k) == [st |-> st, map |-> map, key |-> k]

Length(map) == Cardinality({n \in SecretNames : map[n] # 0})

EndCalls(S) == [a \in Actors |-> IF a \in S THEN "idle" ELSE pc[a]]

VaultInit ==
    /\ file = Vault("none", EmptyVault, 0) /\ keyFile = 0
    /\ pc = [a \in Actors |-> "idle"]
    /\ name = [a \in Actors |-> Creds] /\ ver = [a \in Actors |-> 0]
    /\ loaded = [a \in Actors |-> EmptyVault] /\ key = [a \in Actors |-> 0]
    /\ up = FALSE /\ channel = FALSE
    /\ returned = {} /\ done = EmptyVault /\ clashed = {}
    /\ ops = 0 /\ boots = 0 /\ crashes = 0

-----------------------------------------------------------------------------
(* Calls begin *)

\* main(): migrateAuthTokens() comes first.
Boot ==
    /\ ~up /\ pc[Orch] = "idle" /\ boots < MaxBoots
    /\ boots' = boots + 1
    /\ pc' = [pc EXCEPT ![Orch] = "key"]
    /\ name' = [name EXCEPT ![Orch] = Token]
    /\ ver' = [ver EXCEPT ![Orch] = boots + 1]
    /\ UNCHANGED <<file, keyFile, loaded, key, up, channel, returned, done, clashed, ops, crashes>>

CliWrites(c, n) ==
    /\ pc[c] = "idle" /\ ops < MaxOps
    /\ ops' = ops + 1
    /\ pc' = [pc EXCEPT ![c] = "key"]
    /\ name' = [name EXCEPT ![c] = n]
    /\ ver' = [ver EXCEPT ![c] = ops + 1]
    /\ UNCHANGED <<file, keyFile, loaded, key, up, channel, returned, done, clashed, boots, crashes>>

\* saveCreds() or keys.set(): fired by events, not awaited by one another.
ChannelWrites(w, n) ==
    /\ channel /\ pc[w] = "idle" /\ ops < MaxOps
    /\ ops' = ops + 1
    /\ pc' = [pc EXCEPT ![w] = "load"]
    /\ name' = [name EXCEPT ![w] = n]
    /\ ver' = [ver EXCEPT ![w] = ops + 1]
    /\ UNCHANGED <<file, keyFile, loaded, key, up, channel, returned, done, clashed, boots, crashes>>

-----------------------------------------------------------------------------
(* ensureKey() *)

KeyOnDisk == keyFile \notin {0, Blank}

\* A missing or short key file makes a new key.
ReadKey(a) ==
    /\ a \in KeyHolders /\ pc[a] = "key"
    /\ pc' = [pc EXCEPT ![a] = IF KeyOnDisk THEN "load" ELSE "createKey"]
    /\ key' = [key EXCEPT ![a] = IF KeyOnDisk THEN keyFile ELSE @]
    /\ UNCHANGED <<file, keyFile, name, ver, loaded, up, channel, returned, done, clashed, ops, boots, crashes>>

\* Mutant: a key file its owner may write again.
MutCreateKey(a) ==
    /\ a \in KeyHolders /\ pc[a] = "createKey"
    /\ keyFile' = Blank
    /\ pc' = [pc EXCEPT ![a] = "fillKey"]
    /\ UNCHANGED <<file, name, ver, loaded, key, up, channel, returned, done, clashed, ops, boots, crashes>>

\* Mode 0400: whoever finds the file there cannot open it for writing and fails.
CreateKey(a) ==
    /\ a \in KeyHolders /\ pc[a] = "createKey"
    /\ keyFile' = IF keyFile = 0 THEN Blank ELSE keyFile
    /\ pc' = [pc EXCEPT ![a] = IF keyFile = 0 THEN "fillKey" ELSE "idle"]
    /\ UNCHANGED <<file, name, ver, loaded, key, up, channel, returned, done, clashed, ops, boots, crashes>>

\* A key is named by the boot or operation that made it.
FillKey(a) ==
    /\ a \in KeyHolders /\ pc[a] = "fillKey"
    /\ keyFile' = IF a = Orch THEN boots ELSE MaxBoots + ver[a]
    /\ key' = [key EXCEPT ![a] = keyFile']
    /\ pc' = [pc EXCEPT ![a] = "load"]
    /\ UNCHANGED <<file, name, ver, loaded, up, channel, returned, done, clashed, ops, boots, crashes>>

-----------------------------------------------------------------------------
(* load() *)

\* Mutant: an unreadable vault taken for a new one.
MutLoads(a) == TRUE

\* A vault that was never written is empty, any other must decrypt and parse.
Loads(a) == file.st = "none" \/ (file.st = "ok" /\ file.key = key[a])

\* The orchestrator has what it asked for: on to dbPassword(), then up.
OrchReturns(map) ==
    IF name[Orch] = Token
    THEN /\ pc' = [pc EXCEPT ![Orch] = "key"]
         /\ name' = [name EXCEPT ![Orch] = Db]
         /\ UNCHANGED <<up, returned>>
    ELSE /\ pc' = [pc EXCEPT ![Orch] = "idle"]
         /\ up' = TRUE
         /\ returned' = returned \cup {map[Db]}
         /\ UNCHANGED name

Changing == {b \in Actors : pc[b] \in {"open", "write"}}
Kind(a, b) == IF a \in Cli \/ b \in Cli THEN "cli" ELSE "channel"

\* Mutant: a new password is handed out before it is saved.
MutLoadAndChange(a) ==
    LET old == IF file.st = "ok" THEN file.map ELSE EmptyVault
    IN  IF a = Orch /\ old[name[a]] # 0
        THEN OrchReturns(old) /\ UNCHANGED <<loaded, clashed>>
        ELSE /\ pc' = [pc EXCEPT ![a] = "open"]
             /\ loaded' = [loaded EXCEPT ![a] = [old EXCEPT ![name[a]] = ver[a]]]
             /\ clashed' = clashed \cup {Kind(a, b) : b \in Changing}
             /\ returned' = IF name[a] = Db THEN returned \cup {ver[a]} ELSE returned
             /\ UNCHANGED <<name, up>>

LoadAndChange(a) ==
    LET old == IF file.st = "ok" THEN file.map ELSE EmptyVault
    IN  IF a = Orch /\ old[name[a]] # 0
        THEN OrchReturns(old) /\ UNCHANGED <<loaded, clashed>>
        ELSE /\ pc' = [pc EXCEPT ![a] = "open"]
             /\ loaded' = [loaded EXCEPT ![a] = [old EXCEPT ![name[a]] = ver[a]]]
             /\ clashed' = clashed \cup {Kind(a, b) : b \in Changing}
             /\ UNCHANGED <<name, up, returned>>

LoadVault(a) ==
    /\ pc[a] = "load"
    /\ Loads(a)
    /\ LoadAndChange(a)
    /\ UNCHANGED <<file, keyFile, ver, key, channel, done, ops, boots, crashes>>

\* A failing boot ends the orchestrator, a failing saveCreds() is an unhandled
\* rejection and ends the container, a failing keys.set() is Baileys' to log.
LoadFails(a) ==
    /\ pc[a] = "load"
    /\ ~Loads(a)
    /\ IF a \in Writers /\ name[a] = Creds
       THEN /\ channel' = FALSE
            /\ pc' = EndCalls(Writers)
       ELSE /\ pc' = EndCalls({a})
            /\ UNCHANGED channel
    /\ UNCHANGED <<file, keyFile, name, ver, loaded, key, up, returned, done, clashed, ops, boots, crashes>>

-----------------------------------------------------------------------------
(* save(): writeFile() truncates the file, then writes *)

OpenFile(a) ==
    /\ pc[a] = "open"
    /\ pc' = [pc EXCEPT ![a] = "write"]
    /\ file' = Vault("empty", EmptyVault, 0)
    /\ key' = [key EXCEPT ![a] = IF a \in KeyHolders THEN keyFile ELSE @]
    /\ UNCHANGED <<keyFile, name, ver, loaded, up, channel, returned, done, clashed, ops, boots, crashes>>

\* Written from the file's start: over the contents another call wrote since, the end of a
\* longer file stays.
Overwrite(a) ==
    IF file.st = "torn" \/ (file.st = "ok" /\ Length(file.map) > Length(loaded[a]))
    THEN Vault("torn", EmptyVault, 0)
    ELSE Vault("ok", loaded[a], key[a])

WriteFile(a) ==
    /\ pc[a] = "write"
    /\ file' = Overwrite(a)
    /\ done' = [done EXCEPT ![name[a]] = ver[a]]
    /\ IF a = Orch
       THEN OrchReturns(loaded[a])
       ELSE /\ pc' = [pc EXCEPT ![a] = "idle"]
            /\ UNCHANGED <<name, up, returned>>
    /\ UNCHANGED <<keyFile, ver, loaded, key, channel, clashed, ops, boots, crashes>>

-----------------------------------------------------------------------------
(* Processes *)

\* The orchestrator starts the channel container, or its health check does again.
StartChannel ==
    /\ up /\ ~channel
    /\ channel' = TRUE
    /\ key' = [a \in Actors |-> IF a \in Writers THEN keyFile ELSE key[a]]
    /\ UNCHANGED <<file, keyFile, pc, name, ver, loaded, up, returned, done, clashed, ops, boots, crashes>>

\* The containers outlive the orchestrator.
OrchDies ==
    /\ up \/ pc[Orch] # "idle"
    /\ crashes < MaxCrashes
    /\ crashes' = crashes + 1
    /\ up' = FALSE
    /\ pc' = EndCalls({Orch})
    /\ UNCHANGED <<file, keyFile, name, ver, loaded, key, channel, returned, done, clashed, ops, boots>>

ChannelDies ==
    /\ channel
    /\ crashes < MaxCrashes
    /\ crashes' = crashes + 1
    /\ channel' = FALSE
    /\ pc' = EndCalls(Writers)
    /\ UNCHANGED <<file, keyFile, name, ver, loaded, key, up, returned, done, clashed, ops, boots>>

-----------------------------------------------------------------------------
VaultNext ==
    \/ Boot \/ StartChannel \/ OrchDies \/ ChannelDies
    \/ \E c \in Cli, n \in Secrets : CliWrites(c, n)
    \/ \E w \in Writers, n \in Secrets : ChannelWrites(w, n)
    \/ \E a \in Actors :
          \/ ReadKey(a) \/ CreateKey(a) \/ FillKey(a)
          \/ LoadVault(a) \/ LoadFails(a) \/ OpenFile(a) \/ WriteFile(a)

VaultSpec == VaultInit /\ [][VaultNext]_vaultVars

-----------------------------------------------------------------------------
(* Properties *)

Versions == 0..(MaxOps + MaxBoots)
Keys == 0..(MaxBoots + MaxOps)
Contents == [SecretNames -> Versions]
Steps == {"idle", "key", "createKey", "fillKey", "load", "open", "write"}

\* The variables keep their types, and no call outlives its container.
VaultTypeOK ==
    /\ file \in [st : {"none", "empty", "ok", "torn"}, map : Contents, key : Keys \cup {Blank}]
    /\ keyFile \in Keys \cup {Blank}
    /\ pc \in [Actors -> Steps]
    /\ name \in [Actors -> SecretNames] /\ ver \in [Actors -> Versions]
    /\ loaded \in [Actors -> Contents] /\ key \in [Actors -> Keys \cup {Blank}]
    /\ up \in BOOLEAN /\ channel \in BOOLEAN
    /\ returned \subseteq Versions /\ done \in Contents /\ clashed \subseteq {"cli", "channel"}
    /\ ops \in 0..MaxOps /\ boots \in 0..MaxBoots /\ crashes \in 0..MaxCrashes
    /\ channel \/ \A w \in Writers : pc[w] = "idle"

\* A vault that was written completely can be decrypted with the key on disk, whoever
\* raced whom to create that key.
VaultReadable == file.st = "ok" => file.key = keyFile

\* dbPassword() returns one password for good, whatever calls of the channel container
\* overlap and whichever process dies, unless a CLI call overlapped another: PostgreSQL
\* was initialised with the first one.
PasswordStable == "cli" \notin clashed => \A p, q \in returned : p = q

\* Without overlapping calls, a complete vault holds the last completed write of every name,
\* through boots, deaths between truncation and write, and restarts.
NoLostUpdate == clashed = {} /\ file.st = "ok" => \A n \in SecretNames : file.map[n] = done[n]
=============================================================================
