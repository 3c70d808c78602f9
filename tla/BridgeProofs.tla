---------------------------- MODULE BridgeProofs ----------------------------
(***************************************************************************)
(* Proofs about the daemon's handlers, for any number of them and of       *)
(* accounts, tokens and workspaces: what an account stands for, what       *)
(* forgets it, and what a handler that runs meanwhile may still think.     *)
(***************************************************************************)
EXTENDS Bridge, TLAPS, FiniteSetTheorems

-----------------------------------------------------------------------------
(* Handlers as records.                                                    *)

Fields == {"kind", "pc", "id", "token", "name", "picked", "todo", "groups", "failed"}

\* What the proofs need to know of a handler.
Looks(r, pc, id, token, name, groups, failed) ==
    /\ DOMAIN r = Fields
    /\ r.pc = pc /\ r.id = id /\ r.token = token /\ r.name = name
    /\ r.groups = groups /\ r.failed = failed

LEMMA HandlingLooks ==
    ASSUME NEW kind, NEW pc, NEW id, NEW picked
    PROVE  Looks(Handling(kind, pc, id, picked), pc, id, None, NoName, EmptyMap, FALSE)
BY DEF Handling, Looks, Fields

LEMMA GotoLooks ==
    ASSUME NEW r, DOMAIN r = Fields, NEW pc
    PROVE  Looks([r EXCEPT !.pc = pc], pc, r.id, r.token, r.name, r.groups, r.failed)
BY Zenon DEF Looks, Fields

LEMMA GotTokenLooks ==
    ASSUME NEW r, DOMAIN r = Fields, NEW pc, NEW t
    PROVE  Looks([r EXCEPT !.pc = pc, !.token = t], pc, r.id, t, r.name, r.groups, r.failed)
BY Zenon DEF Looks, Fields

LEMMA GotNameLooks ==
    ASSUME NEW r, DOMAIN r = Fields, NEW pc, NEW n
    PROVE  Looks([r EXCEPT !.pc = pc, !.name = n], pc, r.id, r.token, n, r.groups, r.failed)
BY Zenon DEF Looks, Fields

LEMMA GotBothLooks ==
    ASSUME NEW r, DOMAIN r = Fields, NEW pc, NEW t, NEW n
    PROVE  Looks([r EXCEPT !.pc = pc, !.token = t, !.name = n], pc, r.id, t, n, r.groups, r.failed)
BY Zenon DEF Looks, Fields

LEMMA GotTodoLooks ==
    ASSUME NEW r, DOMAIN r = Fields, NEW pc, NEW S
    PROVE  Looks([r EXCEPT !.pc = pc, !.todo = S], pc, r.id, r.token, r.name, r.groups, r.failed)
BY Zenon DEF Looks, Fields

LEMMA GotIdLooks ==
    ASSUME NEW r, DOMAIN r = Fields, NEW pc, NEW i
    PROVE  Looks([r EXCEPT !.pc = pc, !.id = i], pc, i, r.token, r.name, r.groups, r.failed)
BY Zenon DEF Looks, Fields

LEMMA NextIdLooks ==
    ASSUME NEW r, DOMAIN r = Fields, NEW pc, NEW i
    PROVE  Looks([r EXCEPT !.pc = pc, !.id = i, !.todo = @ \ {i}], pc, i, r.token, r.name, r.groups, r.failed)
BY Zenon DEF Looks, Fields

LEMMA GroupsLooks ==
    ASSUME NEW r, Looks(r, "next", None, None, NoName, EmptyMap, FALSE), NEW S, NEW g
    PROVE  Looks([r EXCEPT !.todo = S, !.groups = g], "next", None, None, NoName, g, FALSE)
BY Zenon DEF Looks, Fields

LEMMA AnswerLooks ==
    ASSUME NEW r, Looks(r, "answer", None, None, NoName, EmptyMap, FALSE), NEW g, NEW f
    PROVE  Looks([r EXCEPT !.groups = g, !.failed = f], "answer", None, None, NoName, g, f)
BY Zenon DEF Looks, Fields

-----------------------------------------------------------------------------
(* The invariant.                                                          *)

\* Every token id has stood for opens workspace w.
Opens(id, w) == id \in generated /\ \A t \in held[id] : owner[t] = w

\* What may be said of the store and of Notion in any state ...
StoreOK ==
    /\ DOMAIN held = generated /\ DOMAIN accounts \subseteq generated
    /\ \A id \in DOMAIN accounts : accounts[id].token \in held[id]
    /\ \A id \in generated : held[id] \subseteq DOMAIN owner
    /\ \A t \in DOMAIN owner : owner[t] \in Workspaces
    /\ revoked \subseteq DOMAIN owner
    /\ renames \in Nat

\* ... and what only while workspaces keep their names: no two have the same,
\* the name of an account is the one of all its tokens' workspaces, and what a
\* picker lists is the account's workspace.
NamesOK ==
    renames = 0 =>
        /\ DOMAIN nameOf = Workspaces
        /\ \A v, w \in Workspaces : nameOf[v] = nameOf[w] => v = w
        /\ \A id \in DOMAIN accounts : accounts[id].workspace # NoName =>
              \A t \in held[id] : nameOf[owner[t]] = accounts[id].workspace
        /\ \A id \in generated : \A s, t \in held[id] : owner[s] = owner[t]
        /\ \A pg \in listed : Opens(pg[1], pg[2])

\* What a handler holds: a token of its account, and one that is revoked when
\* it is about to forget it.
HoldsOK(r) ==
    /\ r.pc \in {"add", "botinfo", "notion", "forget", "rename"} => r.token \in DOMAIN owner
    /\ r.pc \in {"notion", "forget", "rename"} => r.id \in generated /\ r.token \in held[r.id]
    /\ r.pc = "forget" => r.token \in revoked

\* ... and what it found out, while names are kept.
KnowsOK(r) ==
    renames = 0 =>
        /\ r.pc \in {"add", "rename"} /\ r.name # NoName => r.name = nameOf[owner[r.token]]
        /\ \A id \in DOMAIN r.groups : r.groups[id] # None => Opens(id, r.groups[id])

\* A call that failed has no pages to show.
FailsOK(r) ==
    /\ IsFiniteSet(DOMAIN r.groups)
    /\ r.failed => \A id \in DOMAIN r.groups : r.groups[id] = None

HandlerOK(r) == DOMAIN r = Fields /\ HoldsOK(r) /\ KnowsOK(r) /\ FailsOK(r)

HandlersOK == DOMAIN handlers = Slots /\ \A h \in Slots : HandlerOK(handlers[h])

BridgeInv == StoreOK /\ NamesOK /\ HandlersOK

LEMMA EmptyGroups == DOMAIN EmptyMap = {} /\ IsFiniteSet({})
BY FS_EmptySet DEF EmptyMap

\* A handler that has only just begun, or answers without pages, is fine.
LEMMA BlankOK ==
    ASSUME NEW r, NEW pc, NEW id, NEW failed,
           Looks(r, pc, id, None, NoName, EmptyMap, failed),
           pc \notin {"add", "botinfo", "notion", "forget", "rename"}
    PROVE  HandlerOK(r)
BY EmptyGroups DEF Looks, HandlerOK, HoldsOK, KnowsOK, FailsOK

LEMMA BridgeInitInv == BridgeInit => BridgeInv
<1> SUFFICES ASSUME BridgeInit PROVE BridgeInv
  OBVIOUS
<1>1. StoreOK /\ NamesOK
  BY EmptyGroups DEF BridgeInit, StoreOK, NamesOK
<1>2. HandlerOK(Idle)
  <2>1. Looks(Idle, "idle", None, None, NoName, EmptyMap, FALSE)
    BY HandlingLooks, Zenon DEF Idle
  <2>2. "idle" \notin {"add", "botinfo", "notion", "forget", "rename"}
    OBVIOUS
  <2> QED BY <2>1, <2>2, BlankOK, Zenon
<1> QED BY <1>1, <1>2 DEF BridgeInit, BridgeInv, HandlersOK

-----------------------------------------------------------------------------
(* What no step takes back.                                                *)

Grows ==
    /\ DOMAIN owner \subseteq DOMAIN owner' /\ \A t \in DOMAIN owner : owner'[t] = owner[t]
    /\ revoked \subseteq revoked' /\ generated \subseteq generated'
    /\ \A id \in generated : held[id] \subseteq held'[id]
    /\ renames' = 0 => renames = 0 /\ nameOf' = nameOf
    /\ renames' = 0 => \A id \in generated : \A w : Opens(id, w) => Opens(id, w)'

\* A handler that does nothing is as right afterwards.
LEMMA HandlerStays ==
    ASSUME StoreOK, Grows, NEW r, HandlerOK(r)
    PROVE  HandlerOK(r)'
<1>1. HoldsOK(r)'
  BY DEF HandlerOK, HoldsOK, Grows, StoreOK
<1>2. KnowsOK(r)'
  <2>1. SUFFICES ASSUME renames' = 0
                 PROVE  /\ r.pc \in {"add", "rename"} /\ r.name # NoName => r.name = nameOf'[owner'[r.token]]
                        /\ \A id \in DOMAIN r.groups : r.groups[id] # None => Opens(id, r.groups[id])'
    BY DEF KnowsOK, Opens
  <2>2. renames = 0 /\ nameOf' = nameOf
    BY <2>1 DEF Grows
  <2>3. r.pc \in {"add", "rename"} /\ r.name # NoName => r.name = nameOf'[owner'[r.token]]
    BY <2>2 DEF HandlerOK, HoldsOK, KnowsOK, Grows
  <2>4. ASSUME NEW id \in DOMAIN r.groups, r.groups[id] # None PROVE Opens(id, r.groups[id])'
    BY <2>1, <2>2, <2>4 DEF HandlerOK, KnowsOK, Grows, Opens
  <2> QED BY <2>3, <2>4
<1> QED BY <1>1, <1>2 DEF HandlerOK, FailsOK

\* The handler that takes a step, and the others.
LEMMA HandlersStep ==
    ASSUME BridgeInv, Grows, NEW h \in Slots, NEW r, Become(h, r), HandlerOK(r)'
    PROVE  HandlersOK'
<1>1. DOMAIN handlers' = Slots /\ handlers'[h] = r /\ \A g \in Slots : g # h => handlers'[g] = handlers[g]
  BY DEF Become, BridgeInv, HandlersOK
<1>2. ASSUME NEW g \in Slots, g # h PROVE HandlerOK(handlers[g])'
  <2>1. PICK x : x = handlers[g]
    OBVIOUS
  <2>2. HandlerOK(x)
    BY <2>1 DEF BridgeInv, HandlersOK
  <2>3. HandlerOK(x)' /\ handlers'[g] = x
    BY <1>1, <1>2, <2>1, <2>2, HandlerStays DEF BridgeInv
  <2> QED BY <2>3 DEF HandlerOK, HoldsOK, KnowsOK, FailsOK, Opens
<1>3. HandlerOK(handlers[h])'
  BY <1>1 DEF HandlerOK, HoldsOK, KnowsOK, FailsOK, Opens
<1> QED BY <1>1, <1>2, <1>3 DEF HandlersOK

-----------------------------------------------------------------------------
(* Steps that change a handler and nothing else.                           *)

\* The handler's step, if what it becomes is right already.
Safely(h) == \E r : Become(h, r) /\ HandlerOK(r)

LEMMA SafeStep ==
    ASSUME BridgeInv, Grows, StoreOK', NamesOK', NEW h \in Slots, Safely(h)
    PROVE  BridgeInv'
<1>1. PICK r : Become(h, r) /\ HandlerOK(r)
  BY DEF Safely
<1>2. HandlerOK(r)'
  BY <1>1, HandlerStays DEF BridgeInv
<1>3. HandlersOK'
  BY <1>1, <1>2, HandlersStep
<1> QED BY <1>3 DEF BridgeInv

LEMMA Quiet ==
    ASSUME BridgeInv, StoreUnchanged, NotionUnchanged
    PROVE  Grows /\ StoreOK' /\ (UNCHANGED listed => NamesOK')
BY DEF BridgeInv, StoreUnchanged, NotionUnchanged, Grows, StoreOK, NamesOK, Opens

LEMMA HandlingOK ==
    ASSUME NEW kind, NEW pc, NEW id, NEW picked,
           pc \notin {"add", "botinfo", "notion", "forget", "rename"}
    PROVE  HandlerOK(Handling(kind, pc, id, picked))
BY HandlingLooks, BlankOK, Zenon

\* A handler that goes on with the groups it has.
LEMMA MovedOK ==
    ASSUME NEW x, HandlerOK(x), NEW r, NEW pc, NEW id, NEW t, NEW n,
           Looks(r, pc, id, t, n, x.groups, x.failed), HoldsOK(r),
           renames = 0 /\ pc \in {"add", "rename"} /\ n # NoName => n = nameOf[owner[t]]
    PROVE  HandlerOK(r)
BY DEF Looks, HandlerOK, KnowsOK, FailsOK

\* One that answers: an error has no pages with it.
LEMMA AnswersOK ==
    ASSUME NEW h \in Slots, NEW g, NEW f, Answers(h, g, f), IsFiniteSet(DOMAIN g),
           f => \A id \in DOMAIN g : g[id] = None,
           renames = 0 => \A id \in DOMAIN g : g[id] # None => Opens(id, g[id])
    PROVE  Safely(h)
<1> DEFINE r == [Handling(handlers[h].kind, "answer", None, None) EXCEPT !.groups = g, !.failed = f]
<1>1. Looks(r, "answer", None, None, NoName, g, f)
  BY HandlingLooks, AnswerLooks, Zenon
<1>2. HandlerOK(r)
  BY <1>1 DEF Looks, HandlerOK, HoldsOK, KnowsOK, FailsOK
<1> QED BY <1>2 DEF Answers, Safely

LEMMA SimpleAnswers == ASSUME NEW h \in Slots, Succeeds(h) \/ Fails(h) PROVE Safely(h)
BY AnswersOK, EmptyGroups DEF Succeeds, Fails

LEMMA GoOnOK ==
    ASSUME NEW h \in Slots, NEW g, GoOn(h, g), IsFiniteSet(DOMAIN g),
           renames = 0 => \A id \in DOMAIN g : g[id] # None => Opens(id, g[id])
    PROVE  Safely(h)
<1> DEFINE r == [Handling(handlers[h].kind, "next", None, None) EXCEPT
                    !.todo = handlers[h].todo, !.groups = g]
<1>1. Looks(r, "next", None, None, NoName, g, FALSE)
  BY HandlingLooks, GroupsLooks, Zenon
<1>2. HandlerOK(r)
  BY <1>1 DEF Looks, HandlerOK, HoldsOK, KnowsOK, FailsOK
<1> QED BY <1>2 DEF GoOn, Safely

\* The account's part of the work is done.
LEMMA DoneOK ==
    ASSUME BridgeInv, NEW h \in Slots, NEW w, Done(h, w),
           renames = 0 /\ w # None => Opens(handlers[h].id, w)
    PROVE  Safely(h)
<1>1. CASE Is(h, "send")
  <2>1. Fails(h) \/ Succeeds(h)
    BY <1>1 DEF Done, Is
  <2> QED BY <1>1, <2>1, SimpleAnswers
<1>2. CASE Is(h, "list") /\ ~Is(h, "send")
  <2> DEFINE g == handlers[h].groups
             G == Put(g, handlers[h].id, w)
  <2>1. GoOn(h, G)
    BY <1>2 DEF Done
  <2>2. /\ DOMAIN G = DOMAIN g \cup {handlers[h].id}
        /\ \A id \in DOMAIN G : G[id] = IF id = handlers[h].id THEN w ELSE g[id]
    BY DEF Put
  <2>3. HandlerOK(handlers[h])
    BY DEF BridgeInv, HandlersOK
  <2>4. IsFiniteSet(DOMAIN G)
    BY <2>2, <2>3, FS_AddElement DEF HandlerOK, FailsOK
  <2>5. renames = 0 => \A id \in DOMAIN G : G[id] # None => Opens(id, G[id])
    BY <2>2, <2>3 DEF HandlerOK, KnowsOK
  <2> HIDE DEF G
  <2> QED BY <2>1, <2>4, <2>5, GoOnOK
<1>3. CASE ~Is(h, "list") /\ ~Is(h, "send")
  <2>1. GoOn(h, EmptyMap)
    BY <1>3 DEF Done
  <2> QED BY <2>1, EmptyGroups, GoOnOK
<1> QED BY <1>1, <1>2, <1>3

LEMMA QuietSafe ==
    ASSUME BridgeInv, StoreUnchanged, NotionUnchanged, UNCHANGED listed, NEW h \in Slots, Safely(h)
    PROVE  BridgeInv'
BY Quiet, SafeStep

LEMMA QuietSteps ==
    ASSUME BridgeInv, NEW h \in Slots,
           \/ Request(h) \/ BotInfo(h) \/ ReadAccounts(h) \/ NextAccount(h) \/ ClientAccounts(h)
           \/ ClientToken(h) \/ NotionAnswers(h) \/ FinishLoop(h) \/ StoreFails(h)
    PROVE  BridgeInv'
<1>0. HandlerOK(handlers[h]) /\ DOMAIN handlers[h] = Fields /\ HoldsOK(handlers[h])
  BY DEF BridgeInv, HandlersOK, HandlerOK
<1>1. StoreUnchanged /\ NotionUnchanged /\ UNCHANGED listed
  BY DEF Request, BotInfo, ReadAccounts, NextAccount, ClientAccounts, ClientToken, NotionAnswers, FinishLoop,
         StoreFails
<1>2. CASE Request(h)
  <2>1. PICK kind, pc, id, pg :
            Become(h, Handling(kind, pc, id, pg)) /\ pc \in {"broker", "read", "client", "logout"}
    BY <1>2 DEF Request
  <2> QED BY <1>1, <2>1, HandlingOK, QuietSafe DEF Safely
<1>3. CASE BotInfo(h)
  <2>1. PICK n \in {NoName, nameOf[owner[handlers[h].token]]} :
            Become(h, [handlers[h] EXCEPT !.pc = "add", !.name = n])
    BY <1>3 DEF BotInfo
  <2> DEFINE r == [handlers[h] EXCEPT !.pc = "add", !.name = n]
  <2>2. Looks(r, "add", handlers[h].id, handlers[h].token, n, handlers[h].groups, handlers[h].failed)
    BY <1>0, GotNameLooks
  <2>3. handlers[h].pc = "botinfo"
    BY <1>3 DEF BotInfo, At
  <2> HIDE DEF r
  <2>4. HoldsOK(r)
    BY <1>0, <2>2, <2>3 DEF Looks, HoldsOK
  <2>5. HandlerOK(r)
    BY <1>0, <2>1, <2>2, <2>4, MovedOK
  <2> QED BY <1>1, <2>1, <2>5, QuietSafe DEF Safely, r
<1>4. CASE ReadAccounts(h)
  <2>1. CASE Fails(h)
    BY <1>1, <2>1, SimpleAnswers, QuietSafe
  <2>2. CASE Become(h, [handlers[h] EXCEPT !.pc = "next", !.todo = DOMAIN accounts])
    <3> DEFINE r == [handlers[h] EXCEPT !.pc = "next", !.todo = DOMAIN accounts]
    <3>1. Looks(r, "next", handlers[h].id, handlers[h].token, handlers[h].name, handlers[h].groups,
                handlers[h].failed)
      BY <1>0, GotTodoLooks
    <3> HIDE DEF r
    <3>2. HoldsOK(r)
      BY <3>1 DEF Looks, HoldsOK
    <3>3. HandlerOK(r)
      BY <1>0, <3>1, <3>2, MovedOK
    <3> QED BY <1>1, <2>2, <3>3, QuietSafe DEF Safely, r
  <2> QED BY <1>4, <2>1, <2>2 DEF ReadAccounts
<1>5. CASE NextAccount(h)
  <2>1. PICK id : Become(h, [handlers[h] EXCEPT !.pc = "client", !.id = id, !.todo = @ \ {id}])
    BY <1>5 DEF NextAccount
  <2> DEFINE r == [handlers[h] EXCEPT !.pc = "client", !.id = id, !.todo = @ \ {id}]
  <2>2. Looks(r, "client", id, handlers[h].token, handlers[h].name, handlers[h].groups, handlers[h].failed)
    BY <1>0, NextIdLooks
  <2> HIDE DEF r
  <2>3. HoldsOK(r)
    BY <2>2 DEF Looks, HoldsOK
  <2>4. HandlerOK(r)
    BY <1>0, <2>2, <2>3, MovedOK
  <2> QED BY <1>1, <2>1, <2>4, QuietSafe DEF Safely, r
<1>6. CASE ClientAccounts(h)
  <2>1. CASE Done(h, None)
    BY <1>1, <2>1, DoneOK, QuietSafe
  <2>2. CASE \E id : Become(h, [handlers[h] EXCEPT !.pc = "token", !.id = id])
    <3>1. PICK id : Become(h, [handlers[h] EXCEPT !.pc = "token", !.id = id])
      BY <2>2
    <3> DEFINE r == [handlers[h] EXCEPT !.pc = "token", !.id = id]
    <3>2. Looks(r, "token", id, handlers[h].token, handlers[h].name, handlers[h].groups, handlers[h].failed)
      BY <1>0, GotIdLooks
    <3> HIDE DEF r
    <3>3. HoldsOK(r)
      BY <3>2 DEF Looks, HoldsOK
    <3>4. HandlerOK(r)
      BY <1>0, <3>2, <3>3, MovedOK
    <3> QED BY <1>1, <3>1, <3>4, QuietSafe DEF Safely, r
  <2> QED BY <1>6, <2>1, <2>2 DEF ClientAccounts
<1>7. CASE ClientToken(h)
  <2> DEFINE id == handlers[h].id
  <2>1. CASE Done(h, None)
    BY <1>1, <2>1, DoneOK, QuietSafe
  <2>2. CASE id \in DOMAIN accounts
             /\ Become(h, [handlers[h] EXCEPT !.pc = "notion", !.token = accounts[id].token])
    <3> DEFINE r == [handlers[h] EXCEPT !.pc = "notion", !.token = accounts[id].token]
    <3>1. Looks(r, "notion", id, accounts[id].token, handlers[h].name, handlers[h].groups, handlers[h].failed)
      BY <1>0, GotTokenLooks
    <3> HIDE DEF r
    <3>2. id \in generated /\ accounts[id].token \in held[id] /\ accounts[id].token \in DOMAIN owner
      BY <2>2 DEF BridgeInv, StoreOK
    <3>3. HoldsOK(r)
      BY <3>1, <3>2 DEF Looks, HoldsOK
    <3>4. HandlerOK(r)
      BY <1>0, <3>1, <3>3, MovedOK
    <3> QED BY <1>1, <2>2, <3>4, QuietSafe DEF Safely, r
  <2> QED BY <1>7, <2>1, <2>2 DEF ClientToken
<1>8. CASE NotionAnswers(h)
  <2> DEFINE x == handlers[h]
             w == owner[x.token]
  <2>1. x.pc = "notion" /\ x.token \in DOMAIN owner /\ x.id \in generated /\ x.token \in held[x.id]
    BY <1>0, <1>8 DEF NotionAnswers, At, HoldsOK
  <2>2. renames = 0 => Opens(x.id, w)
    BY <2>1 DEF BridgeInv, NamesOK, Opens
  <2>3. CASE Done(h, None)
    BY <1>1, <2>3, DoneOK, QuietSafe
  <2>4. CASE Done(h, w)
    BY <1>1, <2>2, <2>4, DoneOK, QuietSafe
  <2>5. CASE x.token \in revoked /\ Goto(h, "forget")
    <3> DEFINE r == [x EXCEPT !.pc = "forget"]
    <3>1. Looks(r, "forget", x.id, x.token, x.name, x.groups, x.failed)
      BY <1>0, GotoLooks
    <3> HIDE DEF r
    <3>2. HoldsOK(r)
      BY <2>1, <2>5, <3>1 DEF Looks, HoldsOK
    <3>3. HandlerOK(r)
      BY <1>0, <3>1, <3>2, MovedOK
    <3> QED BY <1>1, <2>5, <3>3, QuietSafe DEF Safely, Goto, r
  <2>6. CASE Become(h, [x EXCEPT !.pc = "rename", !.name = nameOf[w]])
    <3> DEFINE r == [x EXCEPT !.pc = "rename", !.name = nameOf[w]]
    <3>1. Looks(r, "rename", x.id, x.token, nameOf[w], x.groups, x.failed)
      BY <1>0, GotNameLooks
    <3> HIDE DEF r
    <3>2. HoldsOK(r)
      BY <2>1, <3>1 DEF Looks, HoldsOK
    <3>3. HandlerOK(r)
      BY <1>0, <3>1, <3>2, MovedOK
    <3> QED BY <1>1, <2>6, <3>3, QuietSafe DEF Safely, r
  <2> QED BY <1>8, <2>3, <2>4, <2>5, <2>6 DEF NotionAnswers
<1>9. CASE FinishLoop(h)
  <2> DEFINE g == handlers[h].groups
             f == Cardinality(DOMAIN g) = 1 /\ \E id \in DOMAIN g : g[id] = None
  <2>1. CASE Become(h, Handling("list", "read", None, None))
    BY <1>1, <2>1, HandlingOK, QuietSafe DEF Safely
  <2>2. CASE Answers(h, g, f)
    <3>1. IsFiniteSet(DOMAIN g) /\ (renames = 0 => \A id \in DOMAIN g : g[id] # None => Opens(id, g[id]))
      BY <1>0 DEF HandlerOK, FailsOK, KnowsOK
    <3>2. f => \A id \in DOMAIN g : g[id] = None
      BY <3>1, FS_Singleton
    <3> HIDE DEF f
    <3>3. Safely(h)
      BY <2>2, <3>1, <3>2, AnswersOK
    <3> QED BY <1>1, <3>3, QuietSafe
  <2> QED BY <1>9, <2>1, <2>2 DEF FinishLoop
<1>10. CASE StoreFails(h)
  <2>1. Safely(h)
    <3>1. CASE GoOn(h, EmptyMap)
      BY <3>1, EmptyGroups, GoOnOK
    <3>2. CASE Fails(h)
      BY <3>2, SimpleAnswers
    <3>3. CASE Done(h, None)
      BY <3>3, DoneOK
    <3> QED BY <1>10, <3>1, <3>2, <3>3 DEF StoreFails
  <2> QED BY <1>1, <2>1, QuietSafe
<1> QED BY <1>2, <1>3, <1>4, <1>5, <1>6, <1>7, <1>8, <1>9, <1>10

-----------------------------------------------------------------------------
(* Steps that change the store, Notion or a picker.                        *)

\* The broker's token is a new one.
LEMMA BrokerStep == ASSUME BridgeInv, NEW h \in Slots, BrokerAnswers(h) PROVE BridgeInv'
<1>0. HandlerOK(handlers[h]) /\ DOMAIN handlers[h] = Fields
  BY DEF BridgeInv, HandlersOK, HandlerOK
<1>1. CASE Fails(h) /\ UNCHANGED owner
  <2>1. StoreUnchanged /\ NotionUnchanged /\ UNCHANGED listed
    BY <1>1 DEF BrokerAnswers, NotionUnchanged
  <2> QED BY <1>1, <2>1, SimpleAnswers, QuietSafe
<1>2. ASSUME NEW t \in Tokens \ DOMAIN owner, NEW w \in Workspaces, owner' = Put(owner, t, w),
             \/ Become(h, [handlers[h] EXCEPT !.pc = "add", !.token = t, !.name = nameOf[w]])
             \/ Become(h, [handlers[h] EXCEPT !.pc = "botinfo", !.token = t])
      PROVE  BridgeInv'
  <2>1. StoreUnchanged /\ UNCHANGED <<revoked, nameOf, renames, listed>>
    BY DEF BrokerAnswers
  <2>2. /\ DOMAIN owner' = DOMAIN owner \cup {t}
        /\ \A s \in DOMAIN owner : owner'[s] = owner[s]
        /\ owner'[t] = w
    BY <1>2 DEF Put
  <2>3. Grows
    BY <2>1, <2>2 DEF StoreUnchanged, Grows, Opens, BridgeInv, StoreOK
  <2>4. StoreOK'
    BY <2>1, <2>2 DEF StoreUnchanged, BridgeInv, StoreOK
  <2>5. NamesOK'
    BY <2>1, <2>2 DEF StoreUnchanged, BridgeInv, StoreOK, NamesOK, Opens
  <2>6. PICK x : x = handlers[h]
    OBVIOUS
  <2>7. HandlerOK(x) /\ HandlerOK(x)' /\ DOMAIN x = Fields
    BY <1>0, <2>3, <2>6, HandlerStays DEF BridgeInv
  <2>8. PICK r, pc, n :
            /\ Become(h, r) /\ Looks(r, pc, x.id, t, n, x.groups, x.failed)
            /\ (pc = "add" /\ n = nameOf[w]) \/ pc = "botinfo"
    <3>1. CASE Become(h, [x EXCEPT !.pc = "add", !.token = t, !.name = nameOf[w]])
      BY <2>7, <3>1, GotBothLooks
    <3>2. CASE Become(h, [x EXCEPT !.pc = "botinfo", !.token = t])
      BY <2>7, <3>2, GotTokenLooks
    <3> QED BY <1>2, <2>6, <3>1, <3>2
  <2>9. HandlerOK(r)'
    BY <2>1, <2>2, <2>7, <2>8 DEF Looks, HandlerOK, HoldsOK, KnowsOK, FailsOK
  <2> QED BY <2>3, <2>4, <2>5, <2>8, <2>9, HandlersStep DEF BridgeInv
<1> QED BY <1>1, <1>2 DEF BrokerAnswers

\* An account gets a token of the workspace it stands for.
LEMMA AddStep == ASSUME BridgeInv, NEW h \in Slots, AddAccount(h) PROVE BridgeInv'
<1>0. PICK t, n : t = handlers[h].token /\ n = handlers[h].name
  OBVIOUS
<1>1. NotionUnchanged /\ UNCHANGED listed /\ Succeeds(h) /\ t \in DOMAIN owner
      /\ (renames = 0 /\ n # NoName => n = nameOf[owner[t]])
  BY <1>0 DEF AddAccount, At, BridgeInv, HandlersOK, HandlerOK, HoldsOK, KnowsOK
<1>2. Safely(h)
  BY <1>1, SimpleAnswers
<1>3. ASSUME NEW id \in Named(n), accounts' = Put(accounts, id, Entry(n, t)),
             held' = Put(held, id, held[id] \cup {t}), UNCHANGED generated
      PROVE  Grows /\ StoreOK' /\ NamesOK'
  <2>1. id \in DOMAIN accounts /\ accounts[id].workspace = n /\ n # NoName
        /\ id \in generated /\ accounts[id].token \in held[id] /\ held[id] \subseteq DOMAIN owner
    BY DEF Named, BridgeInv, StoreOK
  <2>2. /\ DOMAIN held' = DOMAIN held /\ DOMAIN accounts' = DOMAIN accounts
        /\ held'[id] = held[id] \cup {t}
        /\ accounts'[id] = Entry(n, t)
        /\ \A i \in DOMAIN held : i # id => held'[i] = held[i]
        /\ \A i \in DOMAIN accounts : i # id => accounts'[i] = accounts[i]
    BY <1>3, <2>1 DEF Put, BridgeInv, StoreOK
  <2>3. Entry(n, t).workspace = n /\ Entry(n, t).token = t
    BY DEF Entry
  <2>4. renames = 0 => \A s \in held[id] : owner[s] = owner[t]
    <3>1. SUFFICES ASSUME renames = 0, NEW s \in held[id] PROVE owner[s] = owner[t]
      OBVIOUS
    <3>2. nameOf[owner[s]] = n /\ nameOf[owner[t]] = n
      BY <1>1, <2>1, <3>1 DEF BridgeInv, NamesOK
    <3>3. owner[s] \in Workspaces /\ owner[t] \in Workspaces
      BY <1>1, <2>1 DEF BridgeInv, StoreOK
    <3> QED BY <3>1, <3>2, <3>3 DEF BridgeInv, NamesOK
  <2>5. StoreOK'
    <3>1. \A i \in DOMAIN accounts' : accounts'[i].token \in held'[i]
      BY <2>1, <2>2, <2>3 DEF BridgeInv, StoreOK
    <3>2. \A i \in generated : held'[i] \subseteq DOMAIN owner
      BY <1>1, <2>1, <2>2 DEF BridgeInv, StoreOK
    <3> QED BY <1>1, <1>3, <2>2, <3>1, <3>2 DEF NotionUnchanged, BridgeInv, StoreOK
  <2>6. renames = 0 => \A i \in generated : \A w : Opens(i, w) => Opens(i, w)'
    <3>1. SUFFICES ASSUME renames = 0, NEW i \in generated, NEW w, Opens(i, w),
                          NEW s \in held'[i]
                   PROVE  owner[s] = w
      BY <1>1, <1>3 DEF NotionUnchanged, Opens
    <3>2. DOMAIN held = generated
      BY DEF BridgeInv, StoreOK
    <3>3. CASE s \in held[i]
      BY <3>1, <3>3 DEF Opens
    <3>4. CASE s \notin held[i]
      <4>1. i = id /\ s = t
        BY <2>2, <3>1, <3>2, <3>4
      <4> QED BY <2>1, <2>4, <3>1, <4>1 DEF Opens
    <3> QED BY <3>3, <3>4
  <2>7. Grows
    BY <1>1, <1>3, <2>2, <2>6 DEF NotionUnchanged, Grows, BridgeInv, StoreOK
  <2>8. NamesOK'
    <3>1. SUFFICES ASSUME renames = 0 PROVE NamesOK'
      BY <1>1 DEF NamesOK, NotionUnchanged
    <3>2. ASSUME NEW i \in DOMAIN accounts', accounts'[i].workspace # NoName, NEW s \in held'[i]
          PROVE  nameOf[owner[s]] = accounts'[i].workspace
      BY <1>1, <2>1, <2>2, <2>3, <3>1, <3>2 DEF BridgeInv, NamesOK, StoreOK
    <3>3. ASSUME NEW i \in generated, NEW s \in held'[i], NEW v \in held'[i] PROVE owner[s] = owner[v]
      BY <2>1, <2>2, <2>4, <3>1 DEF BridgeInv, NamesOK, StoreOK
    <3>4. ASSUME NEW pg \in listed PROVE Opens(pg[1], pg[2])'
      BY <2>6, <3>1 DEF BridgeInv, NamesOK, Opens
    <3>5. DOMAIN nameOf = Workspaces /\ \A v, w \in Workspaces : nameOf[v] = nameOf[w] => v = w
      BY <3>1 DEF BridgeInv, NamesOK
    <3>6. UNCHANGED <<owner, nameOf, listed, generated>>
      BY <1>1, <1>3 DEF NotionUnchanged
    <3> QED BY <3>2, <3>3, <3>4, <3>5, <3>6 DEF NamesOK
  <2> QED BY <2>5, <2>7, <2>8
<1>4. ASSUME NEW id \in Ids \ generated, accounts' = Put(accounts, id, Entry(n, t)),
             held' = Put(held, id, {t}), generated' = generated \cup {id}
      PROVE  Grows /\ StoreOK' /\ NamesOK'
  <2>1. id \notin generated /\ id \notin DOMAIN accounts /\ id \notin DOMAIN held
    BY DEF BridgeInv, StoreOK
  <2>2. /\ DOMAIN held' = generated' /\ DOMAIN accounts' = DOMAIN accounts \cup {id}
        /\ held'[id] = {t}
        /\ accounts'[id] = Entry(n, t)
        /\ \A i \in generated : held'[i] = held[i]
        /\ \A i \in DOMAIN accounts : accounts'[i] = accounts[i]
    BY <1>4, <2>1 DEF Put, BridgeInv, StoreOK
  <2>3. Entry(n, t).workspace = n /\ Entry(n, t).token = t
    BY DEF Entry
  <2>4. StoreOK'
    <3>1. \A i \in DOMAIN accounts' : accounts'[i].token \in held'[i]
      BY <2>2, <2>3 DEF BridgeInv, StoreOK
    <3>2. \A i \in generated' : held'[i] \subseteq DOMAIN owner
      BY <1>1, <1>4, <2>2 DEF BridgeInv, StoreOK
    <3> QED BY <1>1, <1>4, <2>2, <3>1, <3>2 DEF NotionUnchanged, BridgeInv, StoreOK
  <2>5. Grows
    BY <1>1, <1>4, <2>2 DEF NotionUnchanged, Grows, Opens
  <2>6. NamesOK'
    <3>1. SUFFICES ASSUME renames = 0 PROVE NamesOK'
      BY <1>1 DEF NamesOK, NotionUnchanged
    <3>2. ASSUME NEW i \in DOMAIN accounts', accounts'[i].workspace # NoName, NEW s \in held'[i]
          PROVE  nameOf[owner[s]] = accounts'[i].workspace
      BY <1>1, <2>1, <2>2, <2>3, <3>1, <3>2 DEF BridgeInv, NamesOK, StoreOK
    <3>3. ASSUME NEW i \in generated', NEW s \in held'[i], NEW v \in held'[i] PROVE owner[s] = owner[v]
      <4>1. CASE i = id
        BY <2>2, <3>3, <4>1
      <4>2. CASE i # id
        <5>1. i \in generated /\ held'[i] = held[i]
          BY <1>4, <2>2, <3>3, <4>2
        <5>2. \A k \in generated : \A p, q \in held[k] : owner[p] = owner[q]
          BY <3>1 DEF BridgeInv, NamesOK
        <5> QED BY <3>3, <5>1, <5>2
      <4> QED BY <4>1, <4>2
    <3>4. ASSUME NEW pg \in listed PROVE Opens(pg[1], pg[2])'
      BY <1>1, <1>4, <2>2, <3>1 DEF BridgeInv, NamesOK, Opens, NotionUnchanged
    <3>5. DOMAIN nameOf = Workspaces /\ \A v, w \in Workspaces : nameOf[v] = nameOf[w] => v = w
      BY <3>1 DEF BridgeInv, NamesOK
    <3> QED BY <1>1, <3>2, <3>3, <3>4, <3>5 DEF NamesOK, NotionUnchanged, Opens
  <2> QED BY <2>4, <2>5, <2>6
<1>5. Grows /\ StoreOK' /\ NamesOK'
  BY <1>0, <1>3, <1>4 DEF AddAccount
<1> QED BY <1>2, <1>5, SafeStep

\* Nothing is learnt and nothing taken back when accounts go.
LEMMA ForgetGrows ==
    ASSUME BridgeInv, NotionUnchanged, UNCHANGED <<generated, held, listed>>, NEW S,
           accounts' = Without(accounts, S)
    PROVE  Grows /\ StoreOK' /\ NamesOK'
<1>1. /\ DOMAIN accounts' \subseteq DOMAIN accounts
      /\ \A i \in DOMAIN accounts' : accounts'[i] = accounts[i]
  BY DEF Without
<1>2. Grows
  BY DEF NotionUnchanged, Grows, Opens
<1>3. StoreOK'
  BY <1>1 DEF NotionUnchanged, BridgeInv, StoreOK
<1>4. NamesOK'
  BY <1>1 DEF NotionUnchanged, BridgeInv, NamesOK, Opens
<1> QED BY <1>2, <1>3, <1>4

LEMMA ForgetStep == ASSUME BridgeInv, NEW h \in Slots, DropTokenOn401(h) \/ Logout(h) PROVE BridgeInv'
<1>1. PICK S : accounts' = Without(accounts, S)
  <2>1. EmptyMap = Without(accounts, DOMAIN accounts)
    BY DEF EmptyMap, Without
  <2> QED BY <2>1 DEF DropTokenOn401, Logout
<1>2. NotionUnchanged /\ UNCHANGED <<generated, held, listed>>
  BY DEF DropTokenOn401, Logout
<1>3. Safely(h)
  BY SimpleAnswers, DoneOK DEF DropTokenOn401, Logout
<1> QED BY <1>1, <1>2, <1>3, ForgetGrows, SafeStep

\* The name that is written is the one of the account's workspace.
LEMMA RenameStep == ASSUME BridgeInv, NEW h \in Slots, RefreshName(h) PROVE BridgeInv'
<1> DEFINE x == handlers[h]
<1>1. NotionUnchanged /\ UNCHANGED <<generated, held, listed>> /\ GoOn(h, EmptyMap)
      /\ x.id \in generated /\ x.token \in held[x.id]
      /\ (renames = 0 /\ x.name # NoName => x.name = nameOf[owner[x.token]])
  BY DEF RefreshName, At, BridgeInv, HandlersOK, HandlerOK, HoldsOK, KnowsOK
<1>2. Safely(h)
  BY <1>1, EmptyGroups, GoOnOK
<1>3. /\ DOMAIN accounts' = DOMAIN accounts
      /\ \A i \in DOMAIN accounts : i # x.id => accounts'[i] = accounts[i]
      /\ x.id \in DOMAIN accounts => accounts'[x.id] = Entry(x.name, accounts[x.id].token)
  <2>1. CASE x.id \in DOMAIN accounts
    BY <2>1 DEF RefreshName, SetWorkspace, Put
  <2>2. CASE x.id \notin DOMAIN accounts
    BY <2>2 DEF RefreshName, SetWorkspace
  <2> QED BY <2>1, <2>2
<1>4. \A n, t : Entry(n, t).workspace = n /\ Entry(n, t).token = t
  BY DEF Entry
<1>5. Grows
  BY <1>1 DEF NotionUnchanged, Grows, Opens
<1>6. StoreOK'
  BY <1>1, <1>3, <1>4 DEF NotionUnchanged, BridgeInv, StoreOK
<1>7. NamesOK'
  <2>1. SUFFICES ASSUME renames = 0 PROVE NamesOK'
    BY <1>1 DEF NamesOK, NotionUnchanged
  <2>2. ASSUME NEW i \in DOMAIN accounts', accounts'[i].workspace # NoName, NEW t \in held[i]
        PROVE  nameOf[owner[t]] = accounts'[i].workspace
    <3>1. CASE i = x.id
      <4>1. accounts'[i].workspace = x.name /\ i \in generated
        BY <1>1, <1>3, <1>4, <2>2, <3>1
      <4>2. owner[t] = owner[x.token]
        BY <1>1, <2>1, <2>2, <3>1 DEF BridgeInv, NamesOK
      <4> QED BY <1>1, <2>1, <2>2, <4>1, <4>2
    <3>2. CASE i # x.id
      BY <1>3, <2>1, <2>2, <3>2 DEF BridgeInv, NamesOK
    <3> QED BY <3>1, <3>2
  <2> QED BY <1>1, <2>1, <2>2 DEF NotionUnchanged, BridgeInv, NamesOK, Opens
<1> QED BY <1>2, <1>5, <1>6, <1>7, SafeStep

\* A picker lists what the handler found.
LEMMA RespondStep == ASSUME BridgeInv, NEW h \in Slots, Respond(h) PROVE BridgeInv'
<1> DEFINE g == handlers[h].groups
<1>1. StoreUnchanged /\ NotionUnchanged /\ Become(h, Idle)
  BY DEF Respond
<1>2. Safely(h)
  BY <1>1, HandlingOK DEF Safely, Idle
<1>3. \A pg \in listed' : pg \in listed \/ \E id \in DOMAIN g : g[id] # None /\ pg = <<id, g[id]>>
  BY DEF Respond
<1>4. NamesOK'
  <2>1. SUFFICES ASSUME renames = 0 PROVE NamesOK'
    BY <1>1 DEF NamesOK, NotionUnchanged
  <2>2. \A pg \in listed' : Opens(pg[1], pg[2])
    BY <1>3, <2>1 DEF BridgeInv, NamesOK, HandlersOK, HandlerOK, KnowsOK
  <2> QED BY <1>1, <2>1, <2>2 DEF StoreUnchanged, NotionUnchanged, BridgeInv, NamesOK, Opens
<1> QED BY <1>1, <1>2, <1>4, Quiet, SafeStep

\* What the owner of a workspace does.
LEMMA WorldStep ==
    ASSUME BridgeInv, (\E t \in Tokens : Revoke(t)) \/ \E w \in Workspaces, n \in Names : RenameWorkspace(w, n)
    PROVE  BridgeInv'
<1>1. StoreUnchanged /\ UNCHANGED <<handlers, owner, listed>> /\ revoked \subseteq revoked'
      /\ revoked' \subseteq DOMAIN owner
      /\ ((renames' = renames /\ nameOf' = nameOf) \/ renames' = renames + 1)
  BY DEF Revoke, RenameWorkspace, BridgeInv, StoreOK
<1>2. StoreOK'
  BY <1>1 DEF StoreUnchanged, BridgeInv, StoreOK
<1>3. renames' = 0 => renames = 0 /\ nameOf' = nameOf
  BY <1>1 DEF BridgeInv, StoreOK
<1>4. NamesOK'
  BY <1>1, <1>3 DEF StoreUnchanged, BridgeInv, NamesOK, Opens
<1>5. Grows
  BY <1>1, <1>3 DEF StoreUnchanged, Grows, Opens
<1>6. ASSUME NEW g \in Slots PROVE HandlerOK(handlers[g])'
  <2>1. PICK x : x = handlers[g]
    OBVIOUS
  <2>2. HandlerOK(x)' /\ handlers'[g] = x
    BY <1>1, <1>5, <2>1, HandlerStays DEF BridgeInv, HandlersOK
  <2> QED BY <2>2 DEF HandlerOK, HoldsOK, KnowsOK, FailsOK, Opens
<1> QED BY <1>1, <1>2, <1>4, <1>6 DEF BridgeInv, HandlersOK

LEMMA StutterStep == ASSUME BridgeInv, UNCHANGED bridgeVars PROVE BridgeInv'
BY DEF bridgeVars, BridgeInv, StoreOK, NamesOK, HandlersOK, HandlerOK, HoldsOK, KnowsOK, FailsOK, Opens

LEMMA BridgeStepInv == BridgeInv /\ [BridgeNext]_bridgeVars => BridgeInv'
<1> SUFFICES ASSUME BridgeInv, [BridgeNext]_bridgeVars PROVE BridgeInv'
  OBVIOUS
<1>1. ASSUME NEW h \in Slots, Handle(h) PROVE BridgeInv'
  BY <1>1, QuietSteps, BrokerStep, AddStep, ForgetStep, RenameStep, RespondStep DEF Handle
<1> QED BY <1>1, WorldStep, StutterStep DEF BridgeNext

LEMMA BridgeInvHolds == BridgeSpec => []BridgeInv
BY BridgeInitInv, BridgeStepInv, PTL DEF BridgeSpec

-----------------------------------------------------------------------------
(* Theorems.                                                               *)

\* The pages Notion gave for an account are in the answer, whatever the others
\* did, for any number of accounts and handlers (bridge.go:184).
THEOREM NoFailureHidesOthers == BridgeSpec => []FailureHidesNoOther
<1>1. BridgeInv => FailureHidesNoOther
  BY DEF BridgeInv, HandlersOK, HandlerOK, FailsOK, FailureHidesNoOther
<1> QED BY <1>1, BridgeInvHolds, PTL

\* While workspaces keep their names an account stands for one of them for
\* good, however often it is paired again (store.go:148-149).
THEOREM AccountStandsForOne == BridgeSpec => []AccountKeepsItsWorkspace
<1>1. BridgeInv => AccountKeepsItsWorkspace
  BY DEF BridgeInv, StoreOK, NamesOK, AccountKeepsItsWorkspace
<1> QED BY <1>1, BridgeInvHolds, PTL

\* ... and a page picked from it is sent there, though it was removed, paired
\* again or refreshed since the page was listed.
THEOREM SendsWherePicked == BridgeSpec => []SendsToPickedWorkspace
<1>1. BridgeInv => SendsToPickedWorkspace
  <2>1. SUFFICES ASSUME BridgeInv, renames = 0, NEW h \in Slots, At(h, "notion"),
                        <<handlers[h].id, handlers[h].picked>> \in listed
                 PROVE  owner[handlers[h].token] = handlers[h].picked
    BY DEF SendsToPickedWorkspace
  <2>2. handlers[h].token \in held[handlers[h].id]
    BY <2>1 DEF BridgeInv, HandlersOK, HandlerOK, HoldsOK, At
  <2>3. PICK pg \in listed : pg[1] = handlers[h].id /\ pg[2] = handlers[h].picked
    BY <2>1
  <2> QED BY <2>1, <2>2, <2>3 DEF BridgeInv, NamesOK, Opens
<1> QED BY <1>1, BridgeInvHolds, PTL

\* The steps that make accounts go.
LEMMA WhatForgets ==
    ASSUME BridgeInv, [BridgeNext]_bridgeVars, NEW id \in Gone
    PROVE  \/ \E h \in Slots : Logout(h)
           \/ \E h \in Slots : DropTokenOn401(h) /\ id = handlers[h].id
<1>0. id \in DOMAIN accounts /\ id \notin DOMAIN accounts' /\ accounts' # accounts
  BY DEF Gone
<1>1. ~(\E t \in Tokens : Revoke(t)) /\ ~(\E w \in Workspaces, n \in Names : RenameWorkspace(w, n))
  BY <1>0 DEF Revoke, RenameWorkspace, StoreUnchanged
<1>2. PICK h \in Slots : Handle(h)
  BY <1>0, <1>1 DEF BridgeNext, bridgeVars
<1>3. ~(\/ Request(h) \/ BotInfo(h) \/ ReadAccounts(h) \/ NextAccount(h) \/ ClientAccounts(h)
        \/ ClientToken(h) \/ NotionAnswers(h) \/ FinishLoop(h) \/ BrokerAnswers(h) \/ StoreFails(h)
        \/ Respond(h))
  BY <1>0 DEF Request, BotInfo, ReadAccounts, NextAccount, ClientAccounts, ClientToken, NotionAnswers,
              FinishLoop, BrokerAnswers, StoreFails, Respond, StoreUnchanged
<1>4. ~AddAccount(h)
  BY <1>0 DEF AddAccount, Put
<1>5. ~RefreshName(h)
  BY <1>0 DEF RefreshName, SetWorkspace, Put
<1>6. CASE DropTokenOn401(h)
  BY <1>0, <1>6 DEF DropTokenOn401, Without, Forgotten
<1> QED BY <1>2, <1>3, <1>4, <1>5, <1>6 DEF Handle

\* An account disappears only by a logout, or after Notion refused a token it
\* has stood for, whatever the handlers in flight (bridge.go:94-102).
THEOREM OnlyRevokedAreForgotten == BridgeSpec => ForgetsOnlyRevoked
<1>1. ASSUME BridgeInv, [BridgeNext]_bridgeVars
      PROVE  [(\A h \in Slots : ~At(h, "logout") \/ handlers'[h] = handlers[h]) =>
                 \A id \in Gone : held[id] \cap revoked # {}]_bridgeVars
  <2>1. SUFFICES ASSUME \A h \in Slots : ~At(h, "logout") \/ handlers'[h] = handlers[h],
                        NEW id \in Gone
                 PROVE  held[id] \cap revoked # {}
    OBVIOUS
  <2>2. \A h \in Slots : ~Logout(h)
    <3>1. SUFFICES ASSUME NEW h \in Slots, Logout(h) PROVE FALSE
      OBVIOUS
    <3>2. PICK r : Become(h, r) /\ r.pc = "answer"
      <4> DEFINE a == Handling(handlers[h].kind, "answer", None, None)
      <4>1. Looks(a, "answer", None, None, NoName, EmptyMap, FALSE)
        BY HandlingLooks
      <4>2. PICK f \in BOOLEAN : Answers(h, EmptyMap, f)
        BY <3>1 DEF Logout, Succeeds, Fails
      <4> DEFINE r == [a EXCEPT !.groups = EmptyMap, !.failed = f]
      <4>3. Become(h, r)
        BY <4>2, Zenon DEF Answers, a
      <4> HIDE DEF a
      <4>4. Looks(r, "answer", None, None, NoName, EmptyMap, f)
        BY <4>1, AnswerLooks, Zenon
      <4> HIDE DEF r
      <4> QED BY <4>3, <4>4 DEF Looks
    <3>3. handlers'[h].pc = "answer"
      BY <1>1, <3>2 DEF Become, BridgeInv, HandlersOK
    <3>4. handlers[h].pc = "logout"
      BY <3>1 DEF Logout, At
    <3> QED BY <2>1, <3>3, <3>4 DEF At
  <2>3. PICK h \in Slots : DropTokenOn401(h) /\ id = handlers[h].id
    BY <1>1, <2>2, WhatForgets
  <2>4. handlers[h].token \in held[id] /\ handlers[h].token \in revoked
    BY <1>1, <2>3 DEF DropTokenOn401, At, BridgeInv, HandlersOK, HandlerOK, HoldsOK
  <2> QED BY <2>4
<1> QED BY <1>1, BridgeInvHolds, PTL DEF BridgeSpec, ForgetsOnlyRevoked

\* An account that was removed is not brought back by a handler that read it
\* before, for any number of handlers (store.go:165-181, bridge.go:239-241).
THEOREM RemovedIsNotBroughtBack == BridgeSpec => RemovedStaysRemoved
<1>1. ASSUME BridgeInv, [BridgeNext]_bridgeVars
      PROVE  [\A id \in generated : id \in DOMAIN accounts' => id \in DOMAIN accounts]_bridgeVars
  <2>1. SUFFICES ASSUME NEW id \in generated, id \in DOMAIN accounts', id \notin DOMAIN accounts
                 PROVE  FALSE
    OBVIOUS
  <2>2. ~(\E t \in Tokens : Revoke(t)) /\ ~(\E w \in Workspaces, n \in Names : RenameWorkspace(w, n))
    BY <2>1 DEF Revoke, RenameWorkspace, StoreUnchanged
  <2>3. PICK h \in Slots : Handle(h)
    BY <1>1, <2>1, <2>2 DEF BridgeNext, bridgeVars
  <2>4. ~(\/ Request(h) \/ BotInfo(h) \/ ReadAccounts(h) \/ NextAccount(h) \/ ClientAccounts(h)
          \/ ClientToken(h) \/ NotionAnswers(h) \/ FinishLoop(h) \/ BrokerAnswers(h) \/ StoreFails(h)
          \/ Respond(h))
    BY <2>1 DEF Request, BotInfo, ReadAccounts, NextAccount, ClientAccounts, ClientToken, NotionAnswers,
                FinishLoop, BrokerAnswers, StoreFails, Respond, StoreUnchanged
  <2>5. ~(DropTokenOn401(h) \/ Logout(h))
    BY <2>1 DEF DropTokenOn401, Logout, Without, EmptyMap
  <2>6. ~RefreshName(h)
    BY <2>1 DEF RefreshName, SetWorkspace, Put
  <2>7. ~AddAccount(h)
    <3>1. SUFFICES ASSUME AddAccount(h) PROVE FALSE
      OBVIOUS
    <3>2. PICK i : /\ i \in DOMAIN accounts \/ i \notin generated
                   /\ \E e : accounts' = Put(accounts, i, e)
      BY <3>1 DEF AddAccount, Named
    <3>3. DOMAIN accounts' = DOMAIN accounts \cup {i}
      BY <3>2 DEF Put
    <3> QED BY <2>1, <3>2, <3>3
  <2> QED BY <2>3, <2>4, <2>5, <2>6, <2>7 DEF Handle
<1> QED BY <1>1, BridgeInvHolds, PTL DEF BridgeSpec, RemovedStaysRemoved

-----------------------------------------------------------------------------
(* What everything is.                                                     *)

MapsTyped ==
    /\ IsMap(accounts, Ids, Account) /\ IsMap(owner, Tokens, Workspaces)
    /\ nameOf \in [Workspaces -> Names]
    /\ listed \subseteq generated \X Workspaces
    /\ generated \subseteq Ids /\ IsMap(held, generated, SUBSET Tokens)

\* What a handler has to do it read, or was asked, of accounts that were there,
\* and it goes to Notion for an account.
Typed(r) ==
    /\ r.kind \in {"none", "poll", "list", "refresh", "send", "logout"}
    /\ r.pc \in {"idle", "broker", "botinfo", "add", "read", "next", "client", "token",
                 "notion", "forget", "rename", "logout", "answer"}
    /\ r.id \in generated \cup {None} /\ r.token \in Tokens \cup {None}
    /\ r.name \in Names \cup {NoName} /\ r.picked \in Workspaces \cup {None}
    /\ r.todo \subseteq generated /\ r.failed \in BOOLEAN
    /\ IsMap(r.groups, generated, Workspaces \cup {None})
    /\ r.pc = "token" \/ (r.pc = "client" /\ r.kind # "send") => r.id # None

HandlersTyped == \A h \in Slots : Typed(handlers[h])

\* A map stays one of its type when a key of that type is set or some go.
LEMMA PutTyped ==
    ASSUME NEW K, NEW V, NEW m, IsMap(m, K, V), NEW k, NEW v \in V
    PROVE  IsMap(Put(m, k, v), K \cup {k}, V)
BY DEF IsMap, Put

LEMMA WithoutTyped ==
    ASSUME NEW K, NEW V, NEW m, IsMap(m, K, V), NEW S
    PROVE  IsMap(Without(m, S), K, V)
BY DEF IsMap, Without

LEMMA EmptyTyped == \A K, V : IsMap(EmptyMap, K, V)
BY DEF IsMap, EmptyMap

\* The fields that Looks leaves out.
Keeps(r, x) == r.kind = x.kind /\ r.picked = x.picked

LEMMA GroupsKeep ==
    ASSUME NEW x, DOMAIN x = Fields, NEW S, NEW g
    PROVE  Keeps([x EXCEPT !.todo = S, !.groups = g], x) /\ [x EXCEPT !.todo = S, !.groups = g].todo = S
BY Zenon DEF Keeps, Fields

LEMMA AnswerKeeps ==
    ASSUME NEW x, DOMAIN x = Fields, NEW g, NEW f
    PROVE  /\ Keeps([x EXCEPT !.groups = g, !.failed = f], x)
           /\ [x EXCEPT !.groups = g, !.failed = f].todo = x.todo
BY Zenon DEF Keeps, Fields

-----------------------------------------------------------------------------
(* A handler becomes one of its type.                                      *)

Types(h) == \E r : Become(h, r) /\ Typed(r)

LEMMA OneTyped ==
    ASSUME BridgeInv, HandlersTyped, generated \subseteq generated', NEW h \in Slots, Types(h)
    PROVE  HandlersTyped'
<1>1. PICK r : Become(h, r) /\ Typed(r)
  BY DEF Types
<1>2. handlers'[h] = r /\ \A g \in Slots : g # h => handlers'[g] = handlers[g]
  BY <1>1 DEF Become, BridgeInv, HandlersOK
<1>3. \A g \in Slots : Typed(handlers'[g])
  BY <1>1, <1>2 DEF HandlersTyped
<1>4. ASSUME NEW x, Typed(x) PROVE Typed(x)'
  BY <1>4 DEF Typed, IsMap
<1>5. ASSUME NEW g \in Slots PROVE Typed(handlers[g])'
  <2>1. PICK x : x = handlers'[g]
    OBVIOUS
  <2>2. Typed(x)'
    BY <1>3, <1>4, <2>1
  <2> QED BY <2>1, <2>2 DEF Typed
<1> QED BY <1>5 DEF HandlersTyped

LEMMA HandlingTyped ==
    ASSUME NEW kind \in {"none", "poll", "list", "refresh", "send", "logout"},
           NEW pc \in {"idle", "broker", "read", "next", "client", "logout", "answer"},
           NEW id \in generated \cup {None}, NEW picked \in Workspaces \cup {None},
           pc = "client" => kind = "send"
    PROVE  Typed(Handling(kind, pc, id, picked))
<1> DEFINE r == Handling(kind, pc, id, picked)
<1>1. Looks(r, pc, id, None, NoName, EmptyMap, FALSE) /\ r.kind = kind /\ r.picked = picked /\ r.todo = {}
  <2>1. Looks(r, pc, id, None, NoName, EmptyMap, FALSE)
    BY HandlingLooks, Zenon
  <2>2. r.kind = kind /\ r.picked = picked /\ r.todo = {}
    BY DEF Handling
  <2> QED BY <2>1, <2>2
<1>2. IsMap(EmptyMap, generated, Workspaces \cup {None})
  BY EmptyTyped
<1> HIDE DEF r
<1>3. Typed(r)
  BY <1>1, <1>2 DEF Looks, Typed
<1> QED BY <1>3 DEF r

LEMMA AnswersTyped ==
    ASSUME NEW h \in Slots, Typed(handlers[h]), NEW g, IsMap(g, generated, Workspaces \cup {None}),
           NEW f \in BOOLEAN, Answers(h, g, f)
    PROVE  Types(h)
<1> DEFINE a == Handling(handlers[h].kind, "answer", None, None)
           r == [a EXCEPT !.groups = g, !.failed = f]
<1>1. Looks(a, "answer", None, None, NoName, EmptyMap, FALSE) /\ Typed(a)
  <2>1. handlers[h].kind \in {"none", "poll", "list", "refresh", "send", "logout"}
    BY DEF Typed
  <2> QED BY <2>1, HandlingLooks, HandlingTyped
<1>2. Become(h, r)
  BY Zenon DEF Answers
<1> HIDE DEF a
<1>3. Looks(r, "answer", None, None, NoName, g, f)
  BY <1>1, AnswerLooks, Zenon
<1>4. Keeps(r, a) /\ r.todo = a.todo
  <2>1. DOMAIN a = Fields
    BY <1>1 DEF Looks
  <2> QED BY <2>1, AnswerKeeps, Zenon
<1> HIDE DEF r
<1>5. Typed(r)
  BY <1>1, <1>3, <1>4 DEF Looks, Keeps, Typed
<1> QED BY <1>2, <1>5 DEF Types

LEMMA GoOnTyped ==
    ASSUME NEW h \in Slots, Typed(handlers[h]), NEW g, IsMap(g, generated, Workspaces \cup {None}), GoOn(h, g)
    PROVE  Types(h)
<1> DEFINE a == Handling(handlers[h].kind, "next", None, None)
           S == handlers[h].todo
           r == [a EXCEPT !.todo = S, !.groups = g]
<1>1. Looks(a, "next", None, None, NoName, EmptyMap, FALSE) /\ Typed(a) /\ S \subseteq generated
  <2>1. handlers[h].kind \in {"none", "poll", "list", "refresh", "send", "logout"} /\ S \subseteq generated
    BY DEF Typed
  <2> QED BY <2>1, HandlingLooks, HandlingTyped
<1>2. Become(h, r)
  BY Zenon DEF GoOn
<1> HIDE DEF a, S
<1>3. Looks(r, "next", None, None, NoName, g, FALSE)
  BY <1>1, GroupsLooks, Zenon
<1>4. Keeps(r, a) /\ r.todo = S
  <2>1. DOMAIN a = Fields
    BY <1>1 DEF Looks
  <2> QED BY <2>1, GroupsKeep, Zenon
<1> HIDE DEF r
<1>5. Typed(r)
  BY <1>1, <1>3, <1>4 DEF Looks, Keeps, Typed
<1> QED BY <1>2, <1>5 DEF Types

LEMMA BareAnswersTyped ==
    ASSUME NEW h \in Slots, Typed(handlers[h]), Succeeds(h) \/ Fails(h)
    PROVE  Types(h)
BY AnswersTyped, EmptyTyped DEF Succeeds, Fails

\* A group is listed under an account, which a handler at work has.
LEMMA DoneTyped ==
    ASSUME MapsTyped, NEW h \in Slots, Typed(handlers[h]), NEW w \in Workspaces \cup {None}, Done(h, w),
           handlers[h].id # None \/ Is(h, "send")
    PROVE  Types(h)
<1>1. CASE Is(h, "send")
  <2>1. Fails(h) \/ Succeeds(h)
    BY <1>1 DEF Done, Is
  <2> QED BY <2>1, BareAnswersTyped
<1>2. CASE Is(h, "list") /\ ~Is(h, "send")
  <2> DEFINE g == handlers[h].groups
             i == handlers[h].id
  <2>1. GoOn(h, Put(g, i, w))
    BY <1>2 DEF Done
  <2>2. i \in generated /\ IsMap(g, generated, Workspaces \cup {None})
    BY <1>2 DEF Typed
  <2>3. IsMap(Put(g, i, w), generated \cup {i}, Workspaces \cup {None}) /\ generated \cup {i} = generated
    BY <2>2, PutTyped
  <2> QED BY <2>1, <2>3, GoOnTyped
<1>3. CASE ~Is(h, "list") /\ ~Is(h, "send")
  <2>1. GoOn(h, EmptyMap)
    BY <1>3 DEF Done
  <2> QED BY <2>1, EmptyTyped, GoOnTyped
<1> QED BY <1>1, <1>2, <1>3

\* What a handler becomes in each step.
LEMMA StepTypes ==
    ASSUME BridgeInv, MapsTyped, HandlersTyped, NEW h \in Slots, Handle(h), ~AddAccount(h), ~Respond(h)
    PROVE  Types(h)
<1> DEFINE x == handlers[h]
<1>0. Typed(x) /\ DOMAIN x = Fields /\ HoldsOK(x) /\ None \notin generated
  BY AccountsAssumption DEF HandlersTyped, MapsTyped, BridgeInv, HandlersOK, HandlerOK
<1>00. x.id \in generated \cup {None} /\ x.token \in Tokens \cup {None} /\ x.name \in Names \cup {NoName}
       /\ x.todo \subseteq generated /\ x.kind \in {"none", "poll", "list", "refresh", "send", "logout"}
  BY <1>0 DEF Typed
<1>1. CASE Request(h)
  <2>1. PICK kind, pc, id, pg :
            /\ Become(h, Handling(kind, pc, id, pg))
            /\ kind \in {"poll", "list", "refresh", "send", "logout"}
            /\ pc \in {"broker", "read", "client", "logout"} /\ (pc = "client" => kind = "send")
            /\ id \in generated \cup {None} /\ pg \in Workspaces \cup {None}
    BY <1>1 DEF Request, MapsTyped
  <2>2. Typed(Handling(kind, pc, id, pg))
    BY <2>1, HandlingTyped
  <2> QED BY <2>1, <2>2 DEF Types
<1>2. CASE BrokerAnswers(h)
  <2>1. CASE Fails(h)
    BY <1>0, <2>1, BareAnswersTyped
  <2>2. ASSUME NEW t \in Tokens, NEW w \in Workspaces,
               Become(h, [x EXCEPT !.pc = "add", !.token = t, !.name = nameOf[w]])
        PROVE  Types(h)
    <3> DEFINE n == nameOf[w]
               r == [x EXCEPT !.pc = "add", !.token = t, !.name = n]
    <3>1. Become(h, r) /\ n \in Names
      BY <2>2 DEF MapsTyped
    <3> HIDE DEF n
    <3>2. Looks(r, "add", x.id, t, n, x.groups, x.failed)
      BY <1>0, GotBothLooks
    <3>3. Keeps(r, x) /\ r.todo = x.todo
      BY <1>0, Zenon DEF Keeps, Fields
    <3> HIDE DEF r
    <3>4. Typed(r)
      BY <1>0, <1>00, <3>1, <3>2, <3>3 DEF Looks, Keeps, Typed
    <3> QED BY <3>1, <3>4 DEF Types
  <2>3. ASSUME NEW t \in Tokens, Become(h, [x EXCEPT !.pc = "botinfo", !.token = t])
        PROVE  Types(h)
    <3> DEFINE r == [x EXCEPT !.pc = "botinfo", !.token = t]
    <3>1. Looks(r, "botinfo", x.id, t, x.name, x.groups, x.failed)
      BY <1>0, GotTokenLooks
    <3>2. Keeps(r, x) /\ r.todo = x.todo
      BY <1>0, Zenon DEF Keeps, Fields
    <3> HIDE DEF r
    <3>3. Typed(r)
      BY <1>0, <1>00, <3>1, <3>2 DEF Looks, Keeps, Typed
    <3> QED BY <2>3, <3>3 DEF Types, r
  <2> QED BY <1>2, <2>1, <2>2, <2>3 DEF BrokerAnswers
<1>3. CASE BotInfo(h)
  <2>1. PICK n \in {NoName, nameOf[owner[x.token]]} : Become(h, [x EXCEPT !.pc = "add", !.name = n])
    BY <1>3 DEF BotInfo
  <2>2. n \in Names \cup {NoName}
    <3>1. x.token \in DOMAIN owner
      BY <1>0, <1>3 DEF BotInfo, At, HoldsOK
    <3> QED BY <3>1 DEF MapsTyped, IsMap
  <2> DEFINE r == [x EXCEPT !.pc = "add", !.name = n]
  <2>3. Looks(r, "add", x.id, x.token, n, x.groups, x.failed)
    BY <1>0, GotNameLooks
  <2>4. Keeps(r, x) /\ r.todo = x.todo
    BY <1>0, Zenon DEF Keeps, Fields
  <2> HIDE DEF r
  <2>5. Typed(r)
    BY <1>0, <1>00, <2>2, <2>3, <2>4 DEF Looks, Keeps, Typed
  <2> QED BY <2>1, <2>5 DEF Types, r
<1>4. CASE ReadAccounts(h)
  <2>1. CASE Fails(h)
    BY <1>0, <2>1, BareAnswersTyped
  <2>2. CASE Become(h, [x EXCEPT !.pc = "next", !.todo = DOMAIN accounts])
    <3> DEFINE S == DOMAIN accounts
               r == [x EXCEPT !.pc = "next", !.todo = S]
    <3>1. Become(h, r) /\ S \subseteq generated
      BY <2>2 DEF BridgeInv, StoreOK
    <3> HIDE DEF S
    <3>2. Looks(r, "next", x.id, x.token, x.name, x.groups, x.failed)
      BY <1>0, GotTodoLooks
    <3>3. Keeps(r, x) /\ r.todo = S
      BY <1>0, Zenon DEF Keeps, Fields
    <3> HIDE DEF r
    <3>4. Typed(r)
      BY <1>0, <1>00, <3>1, <3>2, <3>3 DEF Looks, Keeps, Typed
    <3> QED BY <3>1, <3>4 DEF Types
  <2> QED BY <1>4, <2>1, <2>2 DEF ReadAccounts
<1>5. CASE NextAccount(h)
  <2>1. PICK id \in x.todo : Become(h, [x EXCEPT !.pc = "client", !.id = id, !.todo = @ \ {id}])
    BY <1>5 DEF NextAccount
  <2> DEFINE r == [x EXCEPT !.pc = "client", !.id = id, !.todo = @ \ {id}]
  <2>2. Looks(r, "client", id, x.token, x.name, x.groups, x.failed)
    BY <1>0, NextIdLooks
  <2>3. Keeps(r, x) /\ r.todo = x.todo \ {id}
    BY <1>0, Zenon DEF Keeps, Fields
  <2>4. id \in generated /\ id # None
    BY <1>0, <1>00, <2>1
  <2> HIDE DEF r
  <2>5. Typed(r)
    BY <1>0, <1>00, <2>2, <2>3, <2>4 DEF Looks, Keeps, Typed
  <2> QED BY <2>1, <2>5 DEF Types, r
<1>6. CASE ClientAccounts(h)
  <2>1. x.id # None \/ Is(h, "send")
    BY <1>0, <1>6 DEF ClientAccounts, At, Is, Typed
  <2>2. CASE Done(h, None)
    BY <1>0, <2>1, <2>2, DoneTyped
  <2>3. ASSUME NEW only \in DOMAIN accounts,
               Become(h, [x EXCEPT !.pc = "token", !.id = IF x.id = None THEN only ELSE x.id])
        PROVE  Types(h)
    <3> DEFINE i == IF x.id = None THEN only ELSE x.id
               r == [x EXCEPT !.pc = "token", !.id = i]
    <3>1. i \in generated /\ i # None
      BY <1>0, <1>00, <2>3 DEF BridgeInv, StoreOK
    <3>2. Become(h, r)
      BY <2>3, Zenon
    <3> HIDE DEF i
    <3>3. Looks(r, "token", i, x.token, x.name, x.groups, x.failed)
      BY <1>0, GotIdLooks
    <3>4. Keeps(r, x) /\ r.todo = x.todo
      BY <1>0, Zenon DEF Keeps, Fields
    <3> HIDE DEF r
    <3>5. Typed(r)
      BY <1>0, <1>00, <3>1, <3>3, <3>4 DEF Looks, Keeps, Typed
    <3> QED BY <3>2, <3>5 DEF Types
  <2> QED BY <1>6, <2>2, <2>3 DEF ClientAccounts
<1>7. CASE ClientToken(h)
  <2>1. x.id # None
    BY <1>0, <1>7 DEF ClientToken, At, Typed
  <2>2. CASE Done(h, None)
    BY <1>0, <2>1, <2>2, DoneTyped
  <2>3. CASE x.id \in DOMAIN accounts
             /\ Become(h, [x EXCEPT !.pc = "notion", !.token = accounts[x.id].token])
    <3> DEFINE t == accounts[x.id].token
               r == [x EXCEPT !.pc = "notion", !.token = t]
    <3>1. t \in Tokens
      BY <2>3 DEF MapsTyped, IsMap, Account
    <3>2. Become(h, r)
      BY <2>3
    <3> HIDE DEF t
    <3>3. Looks(r, "notion", x.id, t, x.name, x.groups, x.failed)
      BY <1>0, GotTokenLooks
    <3>4. Keeps(r, x) /\ r.todo = x.todo
      BY <1>0, Zenon DEF Keeps, Fields
    <3> HIDE DEF r
    <3>5. Typed(r)
      BY <1>0, <1>00, <3>1, <3>3, <3>4 DEF Looks, Keeps, Typed
    <3> QED BY <3>2, <3>5 DEF Types
  <2> QED BY <1>7, <2>2, <2>3 DEF ClientToken
<1>8. CASE NotionAnswers(h)
  <2> DEFINE w == owner[x.token]
  <2>1. x.id # None /\ w \in Workspaces /\ nameOf[w] \in Names
    <3>1. x.id \in generated /\ x.token \in DOMAIN owner
      BY <1>0, <1>8 DEF NotionAnswers, At, HoldsOK
    <3> QED BY <1>0, <3>1 DEF MapsTyped, IsMap
  <2>2. CASE Done(h, None)
    BY <1>0, <2>1, <2>2, DoneTyped
  <2>3. CASE Done(h, w)
    BY <1>0, <2>1, <2>3, DoneTyped
  <2>4. CASE Goto(h, "forget")
    <3> DEFINE r == [x EXCEPT !.pc = "forget"]
    <3>1. Looks(r, "forget", x.id, x.token, x.name, x.groups, x.failed)
      BY <1>0, GotoLooks
    <3>2. Keeps(r, x) /\ r.todo = x.todo
      BY <1>0, Zenon DEF Keeps, Fields
    <3> HIDE DEF r
    <3>3. Typed(r)
      BY <1>0, <1>00, <3>1, <3>2 DEF Looks, Keeps, Typed
    <3> QED BY <2>4, <3>3 DEF Types, Goto, r
  <2>5. CASE Become(h, [x EXCEPT !.pc = "rename", !.name = nameOf[w]])
    <3> DEFINE n == nameOf[w]
               r == [x EXCEPT !.pc = "rename", !.name = n]
    <3>1. Become(h, r) /\ n \in Names
      BY <2>1, <2>5
    <3> HIDE DEF n
    <3>2. Looks(r, "rename", x.id, x.token, n, x.groups, x.failed)
      BY <1>0, GotNameLooks
    <3>3. Keeps(r, x) /\ r.todo = x.todo
      BY <1>0, Zenon DEF Keeps, Fields
    <3> HIDE DEF r
    <3>4. Typed(r)
      BY <1>0, <1>00, <3>1, <3>2, <3>3 DEF Looks, Keeps, Typed
    <3> QED BY <3>1, <3>4 DEF Types
  <2> QED BY <1>8, <2>2, <2>3, <2>4, <2>5 DEF NotionAnswers
<1>9. CASE DropTokenOn401(h)
  <2>1. x.id # None
    BY <1>0, <1>9 DEF DropTokenOn401, At, HoldsOK
  <2> QED BY <1>0, <1>9, <2>1, DoneTyped DEF DropTokenOn401
<1>10. CASE RefreshName(h)
  BY <1>0, <1>10, EmptyTyped, GoOnTyped DEF RefreshName
<1>11. CASE FinishLoop(h)
  <2> DEFINE g == x.groups
             f == Cardinality(DOMAIN g) = 1 /\ \E id \in DOMAIN g : g[id] = None
  <2>1. CASE Become(h, Handling("list", "read", None, None))
    <3>1. Typed(Handling("list", "read", None, None))
      BY HandlingTyped
    <3> QED BY <2>1, <3>1 DEF Types
  <2>2. CASE Answers(h, g, f)
    <3>1. IsMap(g, generated, Workspaces \cup {None}) /\ f \in BOOLEAN
      BY <1>0 DEF Typed
    <3> HIDE DEF f
    <3> QED BY <1>0, <2>2, <3>1, AnswersTyped
  <2> QED BY <1>11, <2>1, <2>2 DEF FinishLoop
<1>12. CASE Logout(h)
  BY <1>0, <1>12, BareAnswersTyped DEF Logout
<1>13. CASE StoreFails(h)
  <2>1. At(h, "forget") => x.id # None
    BY <1>0 DEF At, HoldsOK
  <2>2. \/ Fails(h) \/ GoOn(h, EmptyMap)
        \/ x.id # None /\ Done(h, None)
    BY <1>13, <2>1 DEF StoreFails
  <2>3. CASE x.id # None /\ Done(h, None)
    BY <1>0, <2>3, DoneTyped
  <2> QED BY <1>0, <2>2, <2>3, BareAnswersTyped, EmptyTyped, GoOnTyped
<1> QED BY <1>1, <1>2, <1>3, <1>4, <1>5, <1>6, <1>7, <1>8, <1>9, <1>10, <1>11, <1>12, <1>13 DEF Handle

LEMMA AddedTypes ==
    ASSUME BridgeInv, HandlersTyped, NEW h \in Slots, AddAccount(h) \/ Respond(h)
    PROVE  Types(h)
<1>1. Typed(handlers[h])
  BY DEF HandlersTyped
<1>2. CASE AddAccount(h)
  BY <1>1, <1>2, BareAnswersTyped DEF AddAccount
<1>3. CASE Respond(h)
  <2>1. Typed(Idle)
    BY HandlingTyped DEF Idle
  <2> QED BY <1>3, <2>1 DEF Respond, Types
<1> QED BY <1>2, <1>3

-----------------------------------------------------------------------------
(* The store, Notion and the pickers keep their types.                     *)

LEMMA MapsKept ==
    ASSUME MapsTyped, UNCHANGED <<accounts, owner, nameOf, listed, generated, held>>
    PROVE  MapsTyped'
BY DEF MapsTyped, IsMap

LEMMA AddTyped ==
    ASSUME BridgeInv, MapsTyped, HandlersTyped, NEW h \in Slots, AddAccount(h)
    PROVE  MapsTyped' /\ generated \subseteq generated'
<1> DEFINE t == handlers[h].token
           n == handlers[h].name
<1>1. t \in Tokens /\ n \in Names \cup {NoName}
  <2>1. t \in DOMAIN owner
    BY DEF AddAccount, At, BridgeInv, HandlersOK, HandlerOK, HoldsOK
  <2> QED BY <2>1 DEF HandlersTyped, Typed, MapsTyped, IsMap
<1>2. Entry(n, t) \in Account
  BY <1>1 DEF Entry, Account
<1>3. UNCHANGED <<owner, nameOf, listed>>
  BY DEF AddAccount, NotionUnchanged
<1>4. PICK id \in Ids :
          /\ accounts' = Put(accounts, id, Entry(n, t)) /\ generated' = generated \cup {id}
          /\ \E T \in SUBSET Tokens : held' = Put(held, id, T)
  <2>1. ASSUME NEW id \in Named(n), accounts' = Put(accounts, id, Entry(n, t)),
               held' = Put(held, id, held[id] \cup {t}), UNCHANGED generated
        PROVE  /\ id \in Ids /\ generated' = generated \cup {id}
               /\ held[id] \cup {t} \in SUBSET Tokens
    <3>1. id \in DOMAIN accounts
      BY DEF Named
    <3>2. id \in generated /\ id \in DOMAIN held
      BY <3>1 DEF BridgeInv, StoreOK
    <3>3. id \in Ids /\ held[id] \subseteq Tokens
      BY <3>2 DEF MapsTyped, IsMap
    <3> QED BY <1>1, <2>1, <3>2, <3>3
  <2>2. CASE \E id \in Named(n) : /\ accounts' = Put(accounts, id, Entry(n, t))
                                  /\ held' = Put(held, id, held[id] \cup {t}) /\ UNCHANGED generated
    BY <2>1, <2>2
  <2>3. CASE \E id \in Ids : /\ accounts' = Put(accounts, id, Entry(n, t)) /\ held' = Put(held, id, {t})
                             /\ generated' = generated \cup {id}
    BY <1>1, <2>3
  <2> QED BY <2>2, <2>3 DEF AddAccount
<1> HIDE DEF t, n
<1>5. IsMap(accounts', Ids, Account)
  <2>1. IsMap(accounts', Ids \cup {id}, Account)
    BY <1>2, <1>4, PutTyped DEF MapsTyped
  <2> QED BY <2>1 DEF IsMap
<1>6. IsMap(held', generated', SUBSET Tokens)
  <2>1. PICK T \in SUBSET Tokens : held' = Put(held, id, T)
    BY <1>4
  <2>2. IsMap(held, generated, SUBSET Tokens)
    BY DEF MapsTyped
  <2> QED BY <1>4, <2>1, <2>2, PutTyped
<1>7. IsMap(owner, Tokens, Workspaces) /\ nameOf \in [Workspaces -> Names]
      /\ listed \subseteq generated' \X Workspaces /\ generated' \subseteq Ids
  BY <1>4 DEF MapsTyped
<1> QED BY <1>3, <1>4, <1>5, <1>6, <1>7 DEF MapsTyped, IsMap

LEMMA HandleMaps ==
    ASSUME BridgeInv, MapsTyped, HandlersTyped, NEW h \in Slots, Handle(h)
    PROVE  MapsTyped' /\ generated \subseteq generated'
<1> DEFINE x == handlers[h]
<1>0. Typed(x) /\ HoldsOK(x)
  BY DEF HandlersTyped, BridgeInv, HandlersOK, HandlerOK
<1>1. CASE \/ Request(h) \/ BotInfo(h) \/ ReadAccounts(h) \/ NextAccount(h) \/ ClientAccounts(h)
           \/ ClientToken(h) \/ NotionAnswers(h) \/ FinishLoop(h) \/ StoreFails(h)
  <2>1. StoreUnchanged /\ NotionUnchanged /\ UNCHANGED listed
    BY <1>1 DEF Request, BotInfo, ReadAccounts, NextAccount, ClientAccounts, ClientToken, NotionAnswers,
                FinishLoop, StoreFails
  <2> QED BY <2>1, MapsKept DEF StoreUnchanged, NotionUnchanged
<1>2. CASE BrokerAnswers(h)
  <2>1. StoreUnchanged /\ UNCHANGED <<nameOf, listed>>
    BY <1>2 DEF BrokerAnswers
  <2>2. CASE UNCHANGED owner
    BY <2>1, <2>2, MapsKept DEF StoreUnchanged
  <2>3. ASSUME NEW t \in Tokens, NEW w \in Workspaces, owner' = Put(owner, t, w)
        PROVE  IsMap(owner', Tokens, Workspaces)
    <3>1. IsMap(owner', Tokens \cup {t}, Workspaces)
      BY <2>3, PutTyped DEF MapsTyped
    <3> QED BY <3>1 DEF IsMap
  <2>4. CASE IsMap(owner', Tokens, Workspaces)
    BY <2>1, <2>4 DEF StoreUnchanged, MapsTyped, IsMap
  <2>5. generated' = generated
    BY <2>1 DEF StoreUnchanged
  <2> QED BY <1>2, <2>2, <2>3, <2>4, <2>5 DEF BrokerAnswers
<1>3. CASE AddAccount(h)
  BY <1>3, AddTyped
<1>4. ASSUME IsMap(accounts', Ids, Account), NotionUnchanged, UNCHANGED <<generated, held, listed>>
      PROVE  MapsTyped' /\ generated \subseteq generated'
  BY <1>4 DEF NotionUnchanged, MapsTyped, IsMap
<1>5. CASE DropTokenOn401(h)
  BY <1>4, <1>5, WithoutTyped DEF DropTokenOn401, MapsTyped
<1>6. CASE Logout(h)
  BY <1>4, <1>6, WithoutTyped, EmptyTyped DEF Logout, MapsTyped
<1>7. CASE RefreshName(h)
  <2>1. NotionUnchanged /\ UNCHANGED <<generated, held, listed>> /\ SetWorkspace(x.id, x.name, x.token)
    BY <1>7 DEF RefreshName
  <2>2. CASE x.id \in DOMAIN accounts
    <3>1. accounts' = Put(accounts, x.id, Entry(x.name, accounts[x.id].token))
      BY <2>1, <2>2 DEF SetWorkspace
    <3>2. x.id \in Ids /\ accounts[x.id].token \in Tokens /\ x.name \in Names \cup {NoName}
      BY <1>0, <2>2 DEF Typed, MapsTyped, IsMap, Account
    <3>3. Entry(x.name, accounts[x.id].token) \in Account
      BY <3>2 DEF Entry, Account
    <3>4. IsMap(accounts', Ids \cup {x.id}, Account)
      BY <3>1, <3>3, PutTyped DEF MapsTyped
    <3>5. IsMap(accounts', Ids, Account)
      BY <3>2, <3>4 DEF IsMap
    <3> QED BY <1>4, <2>1, <3>5
  <2>3. CASE x.id \notin DOMAIN accounts
    <3>1. accounts' = accounts
      BY <2>1, <2>3 DEF SetWorkspace
    <3> QED BY <1>4, <2>1, <3>1 DEF MapsTyped
  <2> QED BY <2>2, <2>3
<1>8. CASE Respond(h)
  <2>1. StoreUnchanged /\ NotionUnchanged
    BY <1>8 DEF Respond
  <2>2. listed' \subseteq generated \X Workspaces
    <3> DEFINE g == x.groups
    <3>1. \A id \in DOMAIN g : g[id] # None => id \in generated /\ g[id] \in Workspaces
      BY <1>0 DEF Typed, IsMap
    <3> QED BY <1>8, <3>1 DEF Respond, MapsTyped
  <2> QED BY <2>1, <2>2 DEF StoreUnchanged, NotionUnchanged, MapsTyped, IsMap
<1> QED BY <1>1, <1>2, <1>3, <1>5, <1>6, <1>7, <1>8 DEF Handle

LEMMA TypesInit == BridgeInit => MapsTyped /\ HandlersTyped
<1> SUFFICES ASSUME BridgeInit PROVE MapsTyped /\ HandlersTyped
  OBVIOUS
<1>1. MapsTyped
  BY EmptyTyped DEF BridgeInit, MapsTyped
<1>2. Typed(Idle)
  BY HandlingTyped DEF Idle
<1> QED BY <1>1, <1>2 DEF BridgeInit, HandlersTyped

LEMMA TypesStep ==
    BridgeInv /\ MapsTyped /\ HandlersTyped /\ [BridgeNext]_bridgeVars => (MapsTyped /\ HandlersTyped)'
<1> SUFFICES ASSUME BridgeInv, MapsTyped, HandlersTyped, [BridgeNext]_bridgeVars
             PROVE  MapsTyped' /\ HandlersTyped'
  OBVIOUS
<1>1. ASSUME NEW h \in Slots, Handle(h) PROVE MapsTyped' /\ HandlersTyped'
  BY <1>1, HandleMaps, StepTypes, AddedTypes, OneTyped
<1>2. ASSUME UNCHANGED <<handlers, generated>> PROVE HandlersTyped'
  BY <1>2 DEF HandlersTyped, Typed, IsMap
<1>3. CASE \E t \in Tokens : Revoke(t)
  BY <1>2, <1>3, MapsKept DEF Revoke, StoreUnchanged
<1>4. ASSUME NEW w \in Workspaces, NEW n \in Names, RenameWorkspace(w, n)
      PROVE  MapsTyped' /\ HandlersTyped'
  <2>1. UNCHANGED <<accounts, owner, listed, generated, held, handlers>> /\ nameOf' \in [Workspaces -> Names]
    BY <1>4 DEF RenameWorkspace, StoreUnchanged, MapsTyped
  <2> QED BY <1>2, <2>1 DEF MapsTyped, IsMap
<1>5. CASE UNCHANGED bridgeVars
  BY <1>2, <1>5, MapsKept DEF bridgeVars
<1> QED BY <1>1, <1>3, <1>4, <1>5 DEF BridgeNext

\* The store, Notion, the pickers and every handler keep their types, for any
\* number of handlers and of accounts: a handler that goes to Notion has a token
\* Notion knows, and an account that was there (bridge.go:71-102, 168-248).
THEOREM BridgeTypeCorrect == BridgeSpec => []BridgeTypeOK
<1>1. ASSUME BridgeInv, MapsTyped, HandlersTyped PROVE BridgeTypeOK
  <2>1. ASSUME NEW h \in Slots
        PROVE  [f \in DOMAIN Idle \ {"groups"} |-> handlers[h][f]] \in Handler
    <3>1. DOMAIN Idle = Fields
      BY DEF Idle, Handling, Fields
    <3>2. Fields \ {"groups"} = {"kind", "pc", "id", "token", "name", "picked", "todo", "failed"}
      BY DEF Fields
    <3>3. Typed(handlers[h]) /\ generated \subseteq Ids
      BY <1>1 DEF HandlersTyped, MapsTyped
    <3> DEFINE r == [f \in DOMAIN Idle \ {"groups"} |-> handlers[h][f]]
    <3>4. r = [kind |-> handlers[h].kind, pc |-> handlers[h].pc, id |-> handlers[h].id,
               token |-> handlers[h].token, name |-> handlers[h].name, picked |-> handlers[h].picked,
               todo |-> handlers[h].todo, failed |-> handlers[h].failed]
      BY <3>1, <3>2
    <3> HIDE DEF r
    <3>5. r \in Handler
      BY <3>3, <3>4 DEF Typed, Handler
    <3> QED BY <3>5 DEF r
  <2>2. \A h \in Slots : IsMap(handlers[h].groups, Ids, Workspaces \cup {None})
    BY <1>1 DEF HandlersTyped, Typed, MapsTyped, IsMap
  <2>3. \A h \in Slots :
            /\ handlers[h].pc \in {"botinfo", "add", "notion", "forget", "rename"} =>
                  handlers[h].token \in DOMAIN owner
            /\ handlers[h].pc \in {"token", "notion", "forget", "rename"} => handlers[h].id \in generated
            /\ handlers[h].pc = "forget" => handlers[h].token \in revoked
    BY <1>1 DEF BridgeInv, HandlersOK, HandlerOK, HoldsOK, HandlersTyped, Typed
  <2>4. listed \subseteq Ids \X Workspaces
    BY <1>1 DEF MapsTyped
  <2> QED BY <1>1, <2>1, <2>2, <2>3, <2>4 DEF MapsTyped, BridgeInv, StoreOK, BridgeTypeOK
<1> QED BY <1>1, BridgeInvHolds, TypesInit, TypesStep, PTL DEF BridgeSpec

=============================================================================
