------------------------------- MODULE Bridge -------------------------------
(***************************************************************************)
(* The daemon's socket methods that keep or drop accounts                  *)
(* (app/daemon/internal/bridge/bridge.go), as handlers that run            *)
(* concurrently: the socket server gives each connection a goroutine.      *)
(*                                                                         *)
(* A handler is a record in a slot; each call it makes to the store, to    *)
(* Notion or to the broker is one action, and between two of them anything *)
(* may happen: another handler runs, the owner of a workspace renames it   *)
(* or revokes a token.  The store is the atomic list AccountList promises. *)
(* A send uploads and attaches in one call here; what its files are is of  *)
(* no account's concern.  status and pair.start touch no account.          *)
(***************************************************************************)
EXTENDS Accounts, Integers, FiniteSets

CONSTANTS
    Slots,       \* handlers that can be in flight
    Workspaces,  \* workspaces at Notion
    MaxRenames   \* bound on the renames of workspaces

ASSUME BridgeAssumption == MaxRenames \in Nat /\ None \notin Workspaces

VARIABLES
    accounts,   \* the store: identifier -> [workspace, token]
    handlers,   \* handlers[h]: the handler in slot h
    owner,      \* Notion: token -> the workspace it opens
    revoked,    \* Notion: tokens that answer 401
    nameOf,     \* Notion: the present name of each workspace
    listed,     \* pickers: <<identifier, workspace whose pages it lists>>
    generated,  \* history: identifiers newAccountID returned
    held,       \* history: identifier -> the tokens it has stood for
    renames     \* history: how often a workspace was renamed

bridgeVars == <<accounts, handlers, owner, revoked, nameOf, listed, generated, held, renames>>

Handler == [kind : {"none", "poll", "list", "refresh", "send", "logout"},
            pc : {"idle", "broker", "botinfo", "add", "read", "next", "client", "token",
                  "notion", "forget", "rename", "logout", "answer"},
            id : Ids \cup {None},
            token : Tokens \cup {None},
            name : Names \cup {NoName},
            picked : Workspaces \cup {None},
            todo : SUBSET Ids,
            failed : BOOLEAN]

Handling(kind, pc, id, picked) ==
    [kind |-> kind, pc |-> pc, id |-> id, token |-> None, name |-> NoName,
     picked |-> picked, todo |-> {}, groups |-> EmptyMap, failed |-> FALSE]
Idle == Handling("none", "idle", None, None)

BridgeTypeOK ==
    /\ IsMap(accounts, Ids, Account)
    /\ \A h \in Slots :
          /\ [f \in DOMAIN Idle \ {"groups"} |-> handlers[h][f]] \in Handler
          /\ IsMap(handlers[h].groups, Ids, Workspaces \cup {None})
    /\ IsMap(owner, Tokens, Workspaces) /\ revoked \subseteq DOMAIN owner
    /\ nameOf \in [Workspaces -> Names]
    /\ listed \subseteq Ids \X Workspaces
    /\ generated \subseteq Ids /\ IsMap(held, generated, SUBSET Tokens)
    /\ DOMAIN accounts \subseteq generated
    /\ \A h \in Slots :
          /\ handlers[h].pc \in {"botinfo", "add", "notion", "forget", "rename"} =>
                handlers[h].token \in DOMAIN owner
          /\ handlers[h].pc \in {"token", "notion", "forget", "rename"} => handlers[h].id \in generated
          /\ handlers[h].pc = "forget" => handlers[h].token \in revoked

-----------------------------------------------------------------------------
At(h, pc) == handlers[h].pc = pc
Is(h, kind) == handlers[h].kind = kind
Become(h, r) == handlers' = [handlers EXCEPT ![h] = r]
Goto(h, pc) == Become(h, [handlers[h] EXCEPT !.pc = pc])

\* The handler is done with its account, and done altogether.
GoOn(h, groups) ==
    Become(h, [Handling(handlers[h].kind, "next", None, None) EXCEPT
                   !.todo = handlers[h].todo, !.groups = groups])
Answers(h, groups, failed) ==
    Become(h, [Handling(handlers[h].kind, "answer", None, None) EXCEPT
                   !.groups = groups, !.failed = failed])
Succeeds(h) == Answers(h, EmptyMap, FALSE)
Fails(h) == Answers(h, EmptyMap, TRUE)

StoreUnchanged == UNCHANGED <<accounts, generated, held>>
NotionUnchanged == UNCHANGED <<owner, revoked, nameOf, renames>>

\* A request arrives.  A send names the account of a page some picker shows,
\* or none ("" means the only account).
Request(h) ==
    /\ At(h, "idle")
    /\ \/ Become(h, Handling("poll", "broker", None, None))
       \/ Become(h, Handling("list", "read", None, None))
       \/ Become(h, Handling("refresh", "read", None, None))
       \/ \E page \in listed :
             \/ Become(h, Handling("send", "client", page[1], page[2]))
             \/ Become(h, Handling("send", "client", None, page[2]))
       \/ \E id \in generated \cup {None} : Become(h, Handling("logout", "logout", id, None))
    /\ StoreUnchanged /\ NotionUnchanged /\ UNCHANGED listed

-----------------------------------------------------------------------------
(* pair.poll *)

\* The broker hands over a token for the workspace consent was given to, with
\* its name or without; or the code is pending or expired, or nobody answers.
BrokerAnswers(h) ==
    /\ At(h, "broker")
    /\ \/ \E t \in Tokens \ DOMAIN owner, w \in Workspaces :
             /\ owner' = Put(owner, t, w)
             /\ \/ Become(h, [handlers[h] EXCEPT !.pc = "add", !.token = t, !.name = nameOf[w]])
                \/ Become(h, [handlers[h] EXCEPT !.pc = "botinfo", !.token = t])
       \/ Fails(h) /\ UNCHANGED owner
    /\ StoreUnchanged /\ UNCHANGED <<revoked, nameOf, renames, listed>>

\* The daemon asks Notion for the name the broker did not know.
BotInfo(h) ==
    /\ At(h, "botinfo")
    /\ \E name \in {NoName} \cup (IF handlers[h].token \in revoked THEN {}
                                  ELSE {nameOf[owner[handlers[h].token]]}) :
          Become(h, [handlers[h] EXCEPT !.pc = "add", !.name = name])
    /\ StoreUnchanged /\ NotionUnchanged /\ UNCHANGED listed

\* Accounts listed under a name, which AddAccount refreshes.  Mutated form: an
\* unnamed account matches an unnamed pairing.
NamedOrUnnamed(name) == {id \in DOMAIN accounts : accounts[id].workspace = name}
Named(name) == {id \in DOMAIN accounts : accounts[id].workspace = name /\ name # NoName}

\* Store.AddAccount.
AddAccount(h) ==
    LET t == handlers[h].token
        name == handlers[h].name
    IN  /\ At(h, "add")
        /\ \/ \E id \in Named(name) :
                 /\ accounts' = Put(accounts, id, Entry(name, t))
                 /\ held' = Put(held, id, held[id] \cup {t})
                 /\ UNCHANGED generated
           \/ /\ Named(name) = {}
              /\ \E id \in Ids \ generated :
                    /\ accounts' = Put(accounts, id, Entry(name, t))
                    /\ held' = Put(held, id, {t})
                    /\ generated' = generated \cup {id}
        /\ Succeeds(h)
        /\ NotionUnchanged /\ UNCHANGED listed

-----------------------------------------------------------------------------
(* targets.list, targets.refresh and send *)

\* Store.Accounts: the accounts the handler will go through.
ReadAccounts(h) ==
    /\ At(h, "read")
    /\ IF Is(h, "list") /\ accounts = EmptyMap
       THEN Fails(h)
       ELSE Become(h, [handlers[h] EXCEPT !.pc = "next", !.todo = DOMAIN accounts])
    /\ StoreUnchanged /\ NotionUnchanged /\ UNCHANGED listed

\* The account's part of the work is done: its group lists the pages of
\* workspace w, or an error (None).  Mutated form: an error ends the call.
DoneOrFailed(h, w) ==
    CASE w = None      -> Answers(h, handlers[h].groups, TRUE)
      [] Is(h, "send") -> Succeeds(h)
      [] OTHER         -> GoOn(h, Put(handlers[h].groups, handlers[h].id, w))
Done(h, w) ==
    CASE Is(h, "send") -> IF w = None THEN Fails(h) ELSE Succeeds(h)
      [] Is(h, "list") -> GoOn(h, Put(handlers[h].groups, handlers[h].id, w))
      [] OTHER         -> GoOn(h, EmptyMap)

NextAccount(h) ==
    /\ At(h, "next")
    /\ \E id \in handlers[h].todo :
          Become(h, [handlers[h] EXCEPT !.pc = "client", !.id = id, !.todo = @ \ {id}])
    /\ StoreUnchanged /\ NotionUnchanged /\ UNCHANGED listed

\* accountClient, first read: no account at all, or no name among several, is
\* an error.
ClientAccounts(h) ==
    /\ At(h, "client")
    /\ LET id == handlers[h].id
       IN  IF accounts = EmptyMap \/ (id = None /\ Cardinality(DOMAIN accounts) > 1)
           THEN Done(h, None)
           ELSE \E only \in DOMAIN accounts :
                   Become(h, [handlers[h] EXCEPT !.pc = "token",
                                                 !.id = IF id = None THEN only ELSE id])
    /\ StoreUnchanged /\ NotionUnchanged /\ UNCHANGED listed

\* Mutated form: the token of just any account is used.
ClientTokenOfFirst(h) ==
    /\ At(h, "token")
    /\ IF accounts = EmptyMap
       THEN Done(h, None)
       ELSE \E id \in DOMAIN accounts :
               Become(h, [handlers[h] EXCEPT !.pc = "notion", !.token = accounts[id].token])
    /\ StoreUnchanged /\ NotionUnchanged /\ UNCHANGED listed

\* accountClient, second read: Store.TokenFor.  An account it finds was there at
\* the first read: the name asked for is older than that, and none comes back.
ClientToken(h) ==
    /\ At(h, "token")
    /\ IF handlers[h].id \in DOMAIN accounts
       THEN Become(h, [handlers[h] EXCEPT !.pc = "notion",
                                          !.token = accounts[handlers[h].id].token])
       ELSE Done(h, None)
    /\ StoreUnchanged /\ NotionUnchanged /\ UNCHANGED listed

\* Notion answers the search, the look at the name or the upload: 401 when the
\* token is revoked, otherwise what was asked for or an error.
NotionAnswers(h) ==
    /\ At(h, "notion")
    /\ LET w == owner[handlers[h].token]
       IN  \/ handlers[h].token \in revoked /\ Goto(h, "forget")
           \/ /\ handlers[h].token \notin revoked
              /\ IF Is(h, "refresh")
                 THEN Become(h, [handlers[h] EXCEPT !.pc = "rename", !.name = nameOf[w]])
                 ELSE Done(h, w)
           \/ Done(h, None)
    /\ StoreUnchanged /\ NotionUnchanged /\ UNCHANGED listed

\* Mutated form: a 401 forgets whatever else opens that workspace's name.
Dropped(h) == {id \in DOMAIN accounts : accounts[id].token \notin held[handlers[h].id]}
\* dropTokenOn401: the account is forgotten, whatever token it has by now.
Forgotten(h) == {handlers[h].id}
DropTokenOn401(h) ==
    /\ At(h, "forget")
    /\ accounts' = Without(accounts, Forgotten(h))
    /\ Done(h, None)
    /\ NotionUnchanged /\ UNCHANGED <<generated, held, listed>>

\* Mutated form: the refreshed record is written back even if it is gone.
SetWorkspaceAnyway(id, name, t) == accounts' = Put(accounts, id, Entry(name, t))

\* Store.SetWorkspace.
SetWorkspace(id, name, t) ==
    accounts' = IF id \in DOMAIN accounts
                THEN Put(accounts, id, Entry(name, accounts[id].token))
                ELSE accounts
RefreshName(h) ==
    /\ At(h, "rename")
    /\ SetWorkspace(handlers[h].id, handlers[h].name, handlers[h].token)
    /\ GoOn(h, EmptyMap)
    /\ NotionUnchanged /\ UNCHANGED <<generated, held, listed>>

\* Every account was visited.  targets.refresh goes on as targets.list, and
\* targets.list fails only when there was one account and it failed.
FinishLoop(h) ==
    /\ At(h, "next") /\ handlers[h].todo = {}
    /\ LET groups == handlers[h].groups
       IN  IF Is(h, "refresh")
           THEN Become(h, Handling("list", "read", None, None))
           ELSE Answers(h, groups, /\ Cardinality(DOMAIN groups) = 1
                                   /\ \E id \in DOMAIN groups : groups[id] = None)
    /\ StoreUnchanged /\ NotionUnchanged /\ UNCHANGED listed

-----------------------------------------------------------------------------
\* logout: one account, or all of them, when a file that is removed after
\* accounts.json may still fail.
Logout(h) ==
    /\ At(h, "logout")
    /\ accounts' = IF handlers[h].id = None THEN EmptyMap ELSE Without(accounts, {handlers[h].id})
    /\ Succeeds(h) \/ (handlers[h].id = None /\ Fails(h))
    /\ NotionUnchanged /\ UNCHANGED <<generated, held, listed>>

\* The store cannot write, and keeps what it had.  pair.poll, whose token is
\* spent, and logout answer the error; the others do not look at it.
StoreFails(h) ==
    /\ \/ (At(h, "add") \/ At(h, "logout")) /\ Fails(h)
       \/ At(h, "forget") /\ Done(h, None)
       \/ At(h, "rename") /\ GoOn(h, EmptyMap)
    /\ StoreUnchanged /\ NotionUnchanged /\ UNCHANGED listed

\* The answer is delivered; a picker shows the pages it listed.
Respond(h) ==
    /\ At(h, "answer")
    /\ LET groups == handlers[h].groups
       IN  listed' = IF handlers[h].failed THEN listed
                     ELSE listed \cup {<<id, groups[id]>> : id \in {i \in DOMAIN groups : groups[i] # None}}
    /\ Become(h, Idle)
    /\ StoreUnchanged /\ NotionUnchanged

\* The owner of a workspace takes the grant back.
Revoke(t) ==
    /\ t \in DOMAIN owner \ revoked
    /\ revoked' = revoked \cup {t}
    /\ StoreUnchanged /\ UNCHANGED <<handlers, owner, nameOf, renames, listed>>

\* ... or renames it; nothing keeps two workspaces from having one name.
RenameWorkspace(w, name) ==
    /\ renames < MaxRenames /\ name # nameOf[w]
    /\ nameOf' = [nameOf EXCEPT ![w] = name]
    /\ renames' = renames + 1
    /\ StoreUnchanged /\ UNCHANGED <<handlers, owner, revoked, listed>>

BridgeInit ==
    /\ accounts = EmptyMap
    /\ handlers = [h \in Slots |-> Idle]
    /\ owner = EmptyMap /\ revoked = {}
    /\ nameOf \in [Workspaces -> Names]
    /\ \A v, w \in Workspaces : v # w => nameOf[v] # nameOf[w]
    /\ listed = {} /\ generated = {} /\ held = EmptyMap /\ renames = 0

Handle(h) ==
    \/ Request(h)
    \/ BrokerAnswers(h) \/ BotInfo(h) \/ AddAccount(h)
    \/ ReadAccounts(h) \/ NextAccount(h) \/ ClientAccounts(h) \/ ClientToken(h)
    \/ NotionAnswers(h) \/ DropTokenOn401(h) \/ RefreshName(h) \/ FinishLoop(h)
    \/ Logout(h) \/ StoreFails(h) \/ Respond(h)

BridgeNext ==
    \/ \E h \in Slots : Handle(h)
    \/ \E t \in Tokens : Revoke(t)
    \/ \E w \in Workspaces, name \in Names : RenameWorkspace(w, name)

BridgeSpec == BridgeInit /\ [][BridgeNext]_bridgeVars

-----------------------------------------------------------------------------
(* Properties. *)

Gone == DOMAIN accounts \ DOMAIN accounts'

\* An account disappears only by a logout, or after Notion refused a token the
\* account has held (bridge.go:94-102): a failing account takes no other with
\* it, whatever the handlers in flight.
ForgetsOnlyRevoked ==
    [][(\A h \in Slots : ~At(h, "logout") \/ handlers'[h] = handlers[h]) =>
          \A id \in Gone : held[id] \cap revoked # {}]_bridgeVars

\* "forgetting only the account that was revoked" (bridge.go:95): the token
\* the account has when it is forgotten is one that Notion refuses.
ForgottenIsRevoked ==
    [][(\A h \in Slots : ~At(h, "logout") \/ handlers'[h] = handlers[h]) =>
          \A id \in Gone : accounts[id].token \in revoked]_bridgeVars

\* An account that was removed is not brought back by a handler that read it
\* before (store.go:165-181, bridge.go:239-241).
RemovedStaysRemoved == [][\A id \in generated : id \in DOMAIN accounts' => id \in DOMAIN accounts]_bridgeVars

\* "Pairing adds an account; it never replaces the connected ones"
\* (send-to-notion.qmd:130): an account stands for one workspace for good.
\* The store knows workspaces by name, so this is claimed while they keep the
\* names they had (store.go:148-149).
AccountKeepsItsWorkspace ==
    renames = 0 => \A id \in DOMAIN held : \A s, t \in held[id] : owner[s] = owner[t]

\* A page is sent with a token of the workspace whose pages the account was
\* listed with when the page was picked, while workspaces keep their names.
SendsToPickedWorkspace ==
    renames = 0 => \A h \in Slots :
        At(h, "notion") /\ Is(h, "send") /\ <<handlers[h].id, handlers[h].picked>> \in listed =>
            owner[handlers[h].token] = handlers[h].picked

\* "A single failing account must not hide the others" (bridge.go:184): the
\* pages Notion gave for an account are in the answer.
FailureHidesNoOther ==
    \A h \in Slots :
        LET groups == handlers[h].groups
        IN  (\E id \in DOMAIN groups : groups[id] # None) => ~handlers[h].failed

=============================================================================
