---------------------------- MODULE AccountStore ----------------------------
(***************************************************************************)
(* app/daemon/internal/store/store.go: the connected accounts, kept in     *)
(* accounts.json of the configuration directory.                           *)
(*                                                                         *)
(* A process runs one operation at a time (Store.mu), and each access to a *)
(* file is a step of its own: the process may die between two of them, an  *)
(* access may fail, and another process with the same directory            *)
(* (notion-bridge -set-token) may run in between.  os.WriteFile is one     *)
(* step, which leaves a torn file when it fails or the process dies in it. *)
(*                                                                         *)
(* A file with nothing but blanks counts as absent.  The retired cache     *)
(* recents.json, which only RemoveAllAccounts touches, is left out.        *)
(***************************************************************************)
EXTENDS Accounts, Integers, Sequences, FiniteSets

CONSTANTS
    SetTokenOnly,  \* the processes of Procs that are a notion-bridge -set-token
    Torn,          \* a file whose bytes do not parse
    FailKinds,     \* accesses that may fail: a subset of {"read", "write", "remove"}
    MaxCrashes     \* bound on the crashes

Record == [id : Ids, workspace : Names \cup {NoName}, token : Tokens]

ASSUME StoreAssumption ==
    /\ SetTokenOnly \subseteq Procs
    /\ FailKinds \subseteq {"read", "write", "remove"}
    /\ MaxCrashes \in Nat
    /\ Torn # None
    /\ None \notin Seq(Record) /\ Torn \notin Seq(Record)

VARIABLES
    accountsFile,   \* accounts.json
    tmpFile,        \* accounts.json.tmp
    tokenFile,      \* token, of the single-account format
    workspaceFile,  \* workspace, of the single-account format
    pc,             \* pc[p]: the access process p is about to make
    op,             \* op[p]: the operation it runs, or None
    accs,           \* accs[p]: the list it holds in memory
    out,            \* out[p]: what it will answer
    generated,      \* history: identifiers newAccountID returned
    told,           \* history: identifiers an answer carried
    dropped,        \* history: identifiers a removal was asked for
    migrations,     \* history: how often the old format was taken over
    crashes         \* history: how often a process died

files == <<accountsFile, tmpFile, tokenFile, workspaceFile>>
locals == <<pc, op, accs, out>>
history == <<generated, told, dropped, migrations, crashes>>
storeVars == <<files, locals, history>>

RecordOf(id, name, t) == [id |-> id, workspace |-> name, token |-> t]
IdsIn(list) == {list[i].id : i \in DOMAIN list}

Labels ==
    {"idle", "load", "migrateWrite", "migrateRename", "dropToken", "dropWorkspace", "decide",
     "write", "rename", "unlink", "clearAccounts", "clearToken", "clearWorkspace", "answer"}

StoreTypeOK ==
    /\ accountsFile \in {None, Torn} \/ accountsFile \in Seq(Record) \ {<<>>}
    /\ tmpFile \in {None, Torn} \/ tmpFile \in Seq(Record) \ {<<>>}
    /\ tokenFile \in Tokens \cup {None}
    /\ workspaceFile \in Names \cup {NoName}
    /\ pc \in [Procs -> Labels]
    /\ op \in [Procs -> Operations \cup {None}]
    /\ accs \in [Procs -> Seq(Record)]
    /\ out \in [Procs -> StoreAnswers \cup {None}]
    /\ \A p \in Procs : (pc[p] = "idle" <=> op[p] = None) /\ (pc[p] # "answer" <=> out[p] = None)
    /\ told \subseteq generated /\ dropped \subseteq generated /\ generated \subseteq Ids
    /\ migrations \in Nat /\ crashes \in Nat

-----------------------------------------------------------------------------
(* The list in memory. *)

First(S) == CHOOSE i \in S : \A j \in S : i <= j
At(list, id) == {i \in DOMAIN list : list[i].id = id}

\* Mutated form: any unnamed record counts as the workspace being added.
NamedOrUnnamed(list, name) == {i \in DOMAIN list : list[i].workspace = name}
\* Records AddAccount refreshes instead of listing a workspace twice.
Named(list, name) == {i \in DOMAIN list : list[i].workspace = name /\ name # NoName}

Refreshed(list, i, t) == [list EXCEPT ![i] = RecordOf(@.id, @.workspace, t)]
Renamed(list, i, name) == [list EXCEPT ![i] = RecordOf(@.id, name, @.token)]

\* kept, after the first n turns of RemoveAccount's loop.
KeptUpTo(list, id) ==
    LET kept[n \in 0..Len(list)] ==
            IF n = 0 THEN <<>>
            ELSE IF list[n].id # id THEN Append(kept[n - 1], list[n]) ELSE kept[n - 1]
    IN  kept
Removed(list, id) == KeptUpTo(list, id)[Len(list)]
Extended(list, r) == Append(list, r)

NamesIn(list) == [id \in IdsIn(list) |-> list[First(At(list, id))].workspace]

-----------------------------------------------------------------------------
(* Accesses to the files. *)

May(kind) == kind \in FailKinds

Goto(p, label) == pc' = [pc EXCEPT ![p] = label]
AnswerWith(p, v) == Goto(p, "answer") /\ out' = [out EXCEPT ![p] = v]

\* Identifiers an operation may use up: for a migration, for a new account.
IdsNeeded(o) ==
    (IF tokenFile # None /\ o.kind # "RemoveAllAccounts" THEN 1 ELSE 0)
    + (IF o.kind = "AddAccount" THEN 1 ELSE 0)

\* A caller enters the store.  The bound: there are identifiers left for it.
Call(p, o) ==
    /\ pc[p] = "idle"
    /\ p \in SetTokenOnly => o.kind = "AddAccount" /\ o.workspace = NoName
    /\ o.kind \in {"TokenFor", "SetWorkspace", "RemoveAccount"} => o.id \in generated
    /\ Cardinality(Ids \ generated) >= Cardinality(Procs) * IdsNeeded(o)
    /\ op' = [op EXCEPT ![p] = o]
    /\ Goto(p, IF o.kind = "RemoveAllAccounts" THEN "clearAccounts" ELSE "load")
    /\ dropped' = dropped \cup (IF o.kind = "RemoveAccount" THEN {o.id} ELSE {})
    /\ UNCHANGED <<files, accs, out, generated, told, migrations, crashes>>

\* loadAccounts(): a file that cannot be read, or parsed, counts as no account.
LoadList(p) ==
    /\ pc[p] = "load"
    /\ \/ /\ accountsFile \notin {None, Torn}
          /\ accs' = [accs EXCEPT ![p] = accountsFile]
       \/ /\ accountsFile = Torn \/ (accountsFile = None /\ tokenFile = None) \/ May("read")
          /\ accs' = [accs EXCEPT ![p] = <<>>]
    /\ Goto(p, "decide")
    /\ UNCHANGED <<files, op, out, history>>

\* loadAccounts() when only the files of the old format exist.
LoadLegacy(p) ==
    /\ pc[p] = "load" /\ accountsFile = None /\ tokenFile # None
    /\ \E id \in Ids \ generated, name \in {workspaceFile} \cup (IF May("read") THEN {NoName} ELSE {}) :
          /\ accs' = [accs EXCEPT ![p] = <<RecordOf(id, name, tokenFile)>>]
          /\ generated' = generated \cup {id}
    /\ Goto(p, "migrateWrite")
    /\ UNCHANGED <<files, op, out, told, dropped, migrations, crashes>>

\* Mutated form: accounts.json is opened for writing and filled afterwards.
WriteInPlace(p) ==
    /\ pc[p] \in {"write", "migrateWrite"}
    /\ accountsFile' = Torn
    /\ tmpFile' = accs[p]
    /\ Goto(p, IF pc[p] = "write" THEN "rename" ELSE "migrateRename")
    /\ UNCHANGED <<tokenFile, workspaceFile, op, accs, out, history>>

\* writeFileAtomic(): the list goes to a file beside the old one.
Write(p) ==
    /\ pc[p] \in {"write", "migrateWrite"}
    /\ tmpFile' = accs[p]
    /\ Goto(p, IF pc[p] = "write" THEN "rename" ELSE "migrateRename")
    /\ UNCHANGED <<accountsFile, tokenFile, workspaceFile, op, accs, out, history>>

\* A migration that cannot be saved still serves its caller; any other
\* operation answers the error.
SaveFailed(p) ==
    IF pc[p] \in {"migrateWrite", "migrateRename"}
    THEN Goto(p, "decide") /\ UNCHANGED out
    ELSE AnswerWith(p, Failed)

WriteFails(p) ==
    /\ pc[p] \in {"write", "migrateWrite"} /\ May("write")
    /\ tmpFile' \in {tmpFile, Torn}
    /\ SaveFailed(p)
    /\ UNCHANGED <<accountsFile, tokenFile, workspaceFile, op, accs, history>>

\* What AddAccount answers is the identifier of the record it wrote.
SavedValue(p) ==
    IF op[p].kind = "AddAccount"
    THEN accs[p][First({i \in DOMAIN accs[p] :
             \/ i \in Named(accs[p], op[p].workspace)
             \/ Named(accs[p], op[p].workspace) = {} /\ i = Len(accs[p])})].id
    ELSE None

\* ... and takes its place.
RenameFile(p) ==
    /\ pc[p] \in {"rename", "migrateRename"} /\ tmpFile # None
    /\ accountsFile' = tmpFile /\ tmpFile' = None
    /\ IF pc[p] = "migrateRename"
       THEN Goto(p, "dropToken") /\ UNCHANGED out /\ migrations' = migrations + 1
       ELSE AnswerWith(p, Answered(SavedValue(p))) /\ UNCHANGED migrations
    /\ UNCHANGED <<tokenFile, workspaceFile, op, accs, generated, told, dropped, crashes>>

RenameFails(p) ==
    /\ pc[p] \in {"rename", "migrateRename"} /\ (May("write") \/ tmpFile = None)
    /\ SaveFailed(p)
    /\ UNCHANGED <<files, op, accs, history>>

\* Mutated form: the migration leaves the token where it was.
KeepToken(p) ==
    /\ pc[p] = "dropToken"
    /\ Goto(p, "dropWorkspace")
    /\ UNCHANGED <<files, op, accs, out, history>>

\* The migration consumes the old files; nobody looks at these errors.
DropToken(p) ==
    /\ pc[p] = "dropToken"
    /\ tokenFile' \in {None} \cup (IF May("remove") THEN {tokenFile} ELSE {})
    /\ Goto(p, "dropWorkspace")
    /\ UNCHANGED <<accountsFile, tmpFile, workspaceFile, op, accs, out, history>>
DropWorkspace(p) ==
    /\ pc[p] = "dropWorkspace"
    /\ workspaceFile' \in {NoName} \cup (IF May("remove") THEN {workspaceFile} ELSE {})
    /\ Goto(p, "decide")
    /\ UNCHANGED <<accountsFile, tmpFile, tokenFile, op, accs, out, history>>

-----------------------------------------------------------------------------
(* What an operation does with the list it loaded. *)

Deciding(p, kind) == pc[p] = "decide" /\ op[p].kind = kind

\* saveAccounts(): an empty list is no file at all.
Save(p, list) ==
    /\ accs' = [accs EXCEPT ![p] = list]
    /\ Goto(p, IF list = <<>> THEN "unlink" ELSE "write")
    /\ UNCHANGED <<files, op, out, told, dropped, migrations, crashes>>

NothingToSave(p, v) == AnswerWith(p, Answered(v)) /\ UNCHANGED <<files, op, accs, history>>

DecideAccounts(p) ==
    /\ Deciding(p, "Accounts")
    /\ NothingToSave(p, NamesIn(accs[p]))

DecideTokenFor(p) ==
    /\ Deciding(p, "TokenFor")
    /\ LET found == At(accs[p], op[p].id)
       IN  NothingToSave(p, IF found = {} THEN None ELSE accs[p][First(found)].token)

DecideAddAccount(p) ==
    /\ Deciding(p, "AddAccount")
    /\ LET found == Named(accs[p], op[p].workspace)
       IN  \/ /\ found # {}
              /\ Save(p, Refreshed(accs[p], First(found), op[p].token))
              /\ UNCHANGED generated
           \/ /\ found = {}
              /\ \E id \in Ids \ generated :
                    /\ generated' = generated \cup {id}
                    /\ Save(p, Extended(accs[p], RecordOf(id, op[p].workspace, op[p].token)))

DecideSetWorkspace(p) ==
    /\ Deciding(p, "SetWorkspace")
    /\ LET stale == {i \in At(accs[p], op[p].id) : accs[p][i].workspace # op[p].workspace}
       IN  \/ stale = {} /\ NothingToSave(p, None)
           \/ /\ stale # {}
              /\ Save(p, Renamed(accs[p], First(stale), op[p].workspace))
              /\ UNCHANGED generated

DecideRemoveAccount(p) ==
    /\ Deciding(p, "RemoveAccount")
    /\ Save(p, Removed(accs[p], op[p].id))
    /\ UNCHANGED generated

\* os.Remove of accounts.json, for saveAccounts of an empty list.
Unlink(p) ==
    /\ pc[p] = "unlink"
    /\ \/ accountsFile' = None /\ AnswerWith(p, Answered(None))
       \/ /\ accountsFile # None /\ May("remove")
          /\ AnswerWith(p, Failed) /\ UNCHANGED accountsFile
    /\ UNCHANGED <<tmpFile, tokenFile, workspaceFile, op, accs, history>>

\* RemoveAllAccounts: the files one after the other, up to the first error.
ClearAccounts(p) ==
    /\ pc[p] = "clearAccounts"
    /\ \/ /\ accountsFile' = None /\ dropped' = dropped \cup generated
          /\ Goto(p, "clearToken") /\ UNCHANGED out
       \/ /\ accountsFile # None /\ May("remove")
          /\ AnswerWith(p, Failed) /\ UNCHANGED <<accountsFile, dropped>>
    /\ UNCHANGED <<tmpFile, tokenFile, workspaceFile, op, accs, generated, told, migrations, crashes>>
ClearToken(p) ==
    /\ pc[p] = "clearToken"
    /\ \/ tokenFile' = None /\ Goto(p, "clearWorkspace") /\ UNCHANGED out
       \/ /\ tokenFile # None /\ May("remove")
          /\ AnswerWith(p, Failed) /\ UNCHANGED tokenFile
    /\ UNCHANGED <<accountsFile, tmpFile, workspaceFile, op, accs, history>>
ClearWorkspace(p) ==
    /\ pc[p] = "clearWorkspace"
    /\ \/ workspaceFile' = NoName /\ AnswerWith(p, Answered(None))
       \/ /\ workspaceFile # NoName /\ May("remove")
          /\ AnswerWith(p, Failed) /\ UNCHANGED workspaceFile
    /\ UNCHANGED <<accountsFile, tmpFile, tokenFile, op, accs, history>>

-----------------------------------------------------------------------------
\* The process is between two operations, its locals gone.
Leave(p) ==
    /\ Goto(p, "idle")
    /\ op' = [op EXCEPT ![p] = None]
    /\ accs' = [accs EXCEPT ![p] = <<>>]
    /\ out' = [out EXCEPT ![p] = None]

\* Identifiers an answer carries.
IdsToldBy(p) ==
    IF ~out[p].ok THEN {}
    ELSE CASE op[p].kind = "Accounts"   -> DOMAIN out[p].value
           [] op[p].kind = "AddAccount" -> {out[p].value}
           [] OTHER                     -> {}

Respond(p) ==
    /\ pc[p] = "answer"
    /\ told' = told \cup IdsToldBy(p)
    /\ Leave(p)
    /\ UNCHANGED <<files, generated, dropped, migrations, crashes>>

\* The process dies; a write in progress leaves a torn file.
Crash(p) ==
    /\ pc[p] # "idle" /\ crashes < MaxCrashes
    /\ crashes' = crashes + 1
    /\ tmpFile' \in {tmpFile} \cup (IF pc[p] \in {"write", "migrateWrite"} THEN {Torn} ELSE {})
    /\ Leave(p)
    /\ UNCHANGED <<accountsFile, tokenFile, workspaceFile, generated, told, dropped, migrations>>

\* The daemon, or a -set-token, has just started; nothing was saved yet.
StoreInit ==
    /\ accountsFile = None /\ tmpFile = None
    /\ pc = [p \in Procs |-> "idle"]
    /\ op = [p \in Procs |-> None]
    /\ accs = [p \in Procs |-> <<>>]
    /\ out = [p \in Procs |-> None]
    /\ generated = {} /\ told = {} /\ dropped = {}
    /\ migrations = 0 /\ crashes = 0

\* A fresh device, and one paired by a version that knew one account.
FreshInit == StoreInit /\ tokenFile = None /\ workspaceFile = NoName
LegacyInit == StoreInit /\ tokenFile \in Tokens /\ workspaceFile \in Names \cup {NoName}

Access(p) ==
    \/ LoadList(p) \/ LoadLegacy(p)
    \/ Write(p) \/ WriteFails(p) \/ RenameFile(p) \/ RenameFails(p)
    \/ DropToken(p) \/ DropWorkspace(p)
    \/ DecideAccounts(p) \/ DecideTokenFor(p) \/ DecideAddAccount(p)
    \/ DecideSetWorkspace(p) \/ DecideRemoveAccount(p)
    \/ Unlink(p)
    \/ ClearAccounts(p) \/ ClearToken(p) \/ ClearWorkspace(p)
    \/ Respond(p) \/ Crash(p)

StoreNext ==
    \E p \in Procs : Access(p) \/ \E o \in Operations : Call(p, o)

FreshSpec == FreshInit /\ [][StoreNext]_storeVars
LegacySpec == LegacyInit /\ [][StoreNext]_storeVars

-----------------------------------------------------------------------------
(* Properties. *)

Kept == IF accountsFile \in {None, Torn} THEN <<>> ELSE accountsFile

\* An account the store has answered with is on disk until its removal is
\* asked for: no operation on another account, no failing write and no crash
\* in between loses it (store.go:91-104, 210-216).
AcknowledgedIsKept == told \ dropped \subseteq IdsIn(Kept)

\* The files of the single-account format are taken over once (store_test.go:107).
\* A crash may leave the token behind, and it is taken over again when the list
\* has become empty: every repetition needs a crash of its own.
MigrationRunsOnce == migrations <= 1 + crashes

\* The store is one list of accounts (AccountList): what its operations answer
\* and what the next one finds is what some order of them, each taking effect
\* at once, gives; a call that answers an error changed nothing.
AccountsOf(list) ==
    [id \in IdsIn(list) |-> LET r == list[First(At(list, id))] IN Entry(r.workspace, r.token)]
OldAccount ==
    IF accountsFile = None /\ tokenFile # None THEN Entry(workspaceFile, tokenFile) ELSE None
AnswersGiven == [p \in Procs |-> IF pc[p] = "answer" THEN out[p] ELSE None]

Listed == INSTANCE AccountList WITH
    accounts <- AccountsOf(Kept), legacy <- OldAccount, calls <- op, answers <- AnswersGiven

ImplementsAccountList == Listed!ListSpec

=============================================================================
