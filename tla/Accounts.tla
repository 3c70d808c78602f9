------------------------------ MODULE Accounts ------------------------------
(***************************************************************************)
(* The vocabulary of the account store: what an account is, the operations *)
(* of app/daemon/internal/store/store.go and what they answer.             *)
(***************************************************************************)
EXTENDS Maps

CONSTANTS
    Procs,   \* processes that open the configuration directory
    Ids,     \* account identifiers
    Tokens,  \* Notion access tokens
    Names,   \* names of workspaces
    NoName,  \* the empty name
    None     \* nothing

Account == [workspace : Names \cup {NoName}, token : Tokens]
Entry(name, t) == [workspace |-> name, token |-> t]

Operations ==
    [kind : {"Accounts", "RemoveAllAccounts"}]
    \cup [kind : {"TokenFor", "RemoveAccount"}, id : Ids]
    \cup [kind : {"AddAccount"}, token : Tokens, workspace : Names \cup {NoName}]
    \cup [kind : {"SetWorkspace"}, id : Ids, workspace : Names]

\* What an operation answers: a flag, and an identifier, a token, the names of
\* the accounts or nothing.
StoreAnswers ==
    [ok : BOOLEAN,
     value : Ids \cup Tokens \cup {None} \cup UNION {[S -> Names \cup {NoName}] : S \in SUBSET Ids}]
Answered(v) == [ok |-> TRUE, value |-> v]
Failed == [ok |-> FALSE, value |-> None]

\* Nothing is told from everything there can be.
ASSUME AccountsAssumption == NoName \notin Names /\ None \notin Ids \cup Tokens
ASSUME NothingAssumption == None \notin Account \cup Operations \cup StoreAnswers

=============================================================================
