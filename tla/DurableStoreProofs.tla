-------------------------- MODULE DurableStoreProofs --------------------------
(***************************************************************************)
(* Proofs about the hosted broker, for all sets of codes, consents and     *)
(* request slots, every TTL, every number of deaths and every interleaving *)
(* of handlers, alarms and polls.                                          *)
(***************************************************************************)
EXTENDS DurableStore, TLAPS

-----------------------------------------------------------------------------
(* The inductive invariant.  It says, for every place where a user code, a *)
(* device code or a token can be (a pointer, a handler between two calls,  *)
(* an object, an answer), that it belongs to the pairing minted with the   *)
(* user code the phone scanned.                                            *)

\* No two user codes are minted for one device code, and no window ends later
\* than one minted now would.
MintedInPairs ==
    /\ \A u, v \in DOMAIN minted : minted[u].device = minted[v].device => u = v
    /\ \A u \in DOMAIN minted : minted[u].expires <= now + TTL

\* Token g comes from a consent for the pairing of device code d, and Notion
\* has exchanged its code.
BelongsTo(g, d) ==
    /\ g \in DOMAIN consents /\ g \in redeemed
    /\ consents[g] \in DOMAIN minted /\ minted[consents[g]].device = d

\* Consents are given for minted codes.
ConsentsForMinted == \A g \in DOMAIN consents : consents[g] \in DOMAIN minted

\* A pointer leads to the pairing of its user code and outlives its window,
\* and a QR that is shown has one until that window is over.
PointersAgree ==
    /\ \A u \in DOMAIN pointers :
          /\ u \in DOMAIN minted
          /\ pointers[u].device = minted[u].device
          /\ pointers[u].expires >= minted[u].expires
    /\ \A u \in shown : u \in DOMAIN pointers \/ Over(u)

\* The handlers that carry a consent, and those that carry its token.
Carrying == {"check", "exchange", "complete", "put"}
WithToken == {"complete", "put"}

\* A handler works on the pairing of its user code.
HandlerAgrees(h) ==
    /\ h.pc # "idle" => h.user \in DOMAIN minted /\ h.device = minted[h.user].device
    /\ h.pc \in Carrying => h.grant \in DOMAIN consents /\ consents[h.grant] = h.user
    /\ h.pc \in WithToken => h.grant \in redeemed
HandlersAgree == \A r \in Slots : HandlerAgrees(reqs[r])

\* The object of a pairing has the window it was minted with, or none.
ObjectAgrees(u, o) ==
    /\ o.expires # None => o.expires = minted[u].expires
    /\ o.alarm # None => o.alarm = minted[u].expires

\* The object of a device code that was never minted is empty; a token in any
\* other belongs to it.
ObjectsAgree ==
    /\ \A u \in DOMAIN minted : ObjectAgrees(u, objects[minted[u].device])
    /\ \A d \in DeviceCodes : objects[d] # Wiped => \E u \in DOMAIN minted : minted[u].device = d
    /\ \A d \in DeviceCodes : objects[d].token # None => BelongsTo(objects[d].token, d)

\* A pointer, a phone or a handler has user code u.
Known(u) ==
    \/ u \in DOMAIN pointers
    \/ \E g \in DOMAIN consents : consents[g] = u
    \/ \E r \in Slots : reqs[r].pc # "idle" /\ reqs[r].user = u

\* An object has a window without an alarm only if it died while it was minted:
\* then no QR was shown, and nobody knows its user code.
Alarmless(o) == o.expires # None /\ o.alarm = None
AlarmlessIsUnknown ==
    \A u \in DOMAIN minted : Alarmless(objects[minted[u].device]) => ~Known(u)

\* A device code is answered once, with its own token, and its window is closed
\* from then on.
HandedAgree ==
    \A d \in DeviceCodes :
        \/ handed[d] = <<>>
        \/ /\ objects[d].expires = None
           /\ \E g \in Grants : handed[d] = <<g>> /\ BelongsTo(g, d)

\* A token is in one place: with one handler, in one object, or handed over.
TokensInOnePlace ==
    /\ \A r, s \in Slots :
          r # s /\ reqs[r].pc \in WithToken /\ reqs[s].pc \in WithToken
             => reqs[r].grant # reqs[s].grant
    /\ \A r \in Slots, d \in DeviceCodes :
          reqs[r].pc \in WithToken =>
             objects[d].token # reqs[r].grant /\ handed[d] # <<reqs[r].grant>>
    /\ \A d \in DeviceCodes : objects[d].token # None => handed[d] # <<objects[d].token>>

\* Until its end a window closes for a handoff or for a death only ...
OpenUntilOver ==
    \A u \in DOMAIN minted :
        LET d == minted[u].device
        IN  Over(u) \/ crashes > 0 \/ handed[d] # <<>> \/ objects[d].expires # None
\* ... and so does a token leave its object.
ToldAgree ==
    \A g \in told :
        /\ g \in DOMAIN consents
        /\ LET u == consents[g]
               d == minted[u].device
           IN  Over(u) \/ crashes > 0 \/ handed[d] # <<>> \/ objects[d].token # None

DurableInv ==
    /\ DurableTypeOK
    /\ MintedInPairs /\ ConsentsForMinted /\ PointersAgree /\ HandlersAgree
    /\ ObjectsAgree /\ AlarmlessIsUnknown /\ HandedAgree /\ TokensInOnePlace
    /\ OpenUntilOver /\ ToldAgree

-----------------------------------------------------------------------------
(* What every step does and does not do. *)

\* Time, the codes minted, the consents and the codes exchanged only grow.
LEMMA HistoryGrows ==
    ASSUME DurableTypeOK, [DurableNext]_durableVars
    PROVE  /\ now' \in Nat /\ now <= now'
           /\ crashes' \in Nat /\ crashes <= crashes'
           /\ \A u \in DOMAIN minted : u \in DOMAIN minted' /\ minted'[u] = minted[u]
           /\ \A g \in DOMAIN consents : g \in DOMAIN consents' /\ consents'[g] = consents[g]
           /\ redeemed \subseteq redeemed'
           /\ \A u \in DOMAIN minted : Over(u) => Over(u)'
           /\ \A g \in Grants, d \in DeviceCodes : BelongsTo(g, d) => BelongsTo(g, d)'
<1>1. /\ now' \in Nat /\ now <= now'
      /\ crashes' \in Nat /\ crashes <= crashes'
      /\ \A u \in DOMAIN minted : u \in DOMAIN minted' /\ minted'[u] = minted[u]
      /\ \A g \in DOMAIN consents : g \in DOMAIN consents' /\ consents'[g] = consents[g]
      /\ redeemed \subseteq redeemed'
  <2> USE DEF DurableTypeOK, notionVars, historyVars, Survives
  <2>1. ASSUME NEW r \in Slots, NEW d \in DeviceCodes, NEW u \in UserCodes, MintInit(r, d, u)
        PROVE  <1>1
    <3>1. crashes' \in Nat /\ crashes <= crashes'
      BY <2>1 DEF MintInit, Dies
    <3>2. minted' = Put(minted, u, [device |-> d, expires |-> now + TTL]) /\ u \notin DOMAIN minted
      BY <2>1 DEF MintInit
    <3>3. \A v \in DOMAIN minted : v \in DOMAIN minted' /\ minted'[v] = minted[v]
      BY <3>2 DEF Put
    <3> QED BY <2>1, <3>1, <3>3 DEF MintInit
  <2>2. ASSUME NEW r \in Slots, GoCheck(r) PROVE <1>1
    <3>1. \/ consents' = consents
          \/ \E g \in Grants \ DOMAIN consents : consents' = Put(consents, g, reqs[r].user)
      BY <2>2 DEF GoCheck
    <3>2. \A g \in DOMAIN consents : g \in DOMAIN consents' /\ consents'[g] = consents[g]
      BY <3>1 DEF Put
    <3> QED BY <2>2, <3>2 DEF GoCheck
  <2>3. ASSUME NEW r \in Slots,
               \/ MintPoint(r) \/ \E u \in UserCodes : GoResolve(r, u)
               \/ \E g \in Grants : CallbackResolve(r, g)
               \/ CallbackCheck(r) \/ Exchange(r) \/ CompleteCheck(r) \/ CompletePut(r)
               \/ Vanish(r)
        PROVE  <1>1
    BY <2>3 DEF MintPoint, GoResolve, CallbackResolve, CallbackCheck, Exchange, CompleteCheck,
       CompletePut, Vanish
  <2>4. ASSUME NEW d \in DeviceCodes, Claim(d) PROVE <1>1
    <3>1. crashes' \in Nat /\ crashes <= crashes'
      BY <2>4 DEF Claim, Dies
    <3> QED BY <2>4, <3>1 DEF Claim
  <2>5. CASE (\E d \in DeviceCodes : PairingAlarm(d)) \/ (\E u \in UserCodes : PointerAlarm(u))
    <3>1. ASSUME NEW d \in DeviceCodes, PairingAlarm(d) PROVE <1>1
      BY <3>1 DEF PairingAlarm
    <3>2. ASSUME NEW u \in UserCodes, PointerAlarm(u) PROVE <1>1
      BY <3>2 DEF PointerAlarm
    <3> QED BY <2>5, <3>1, <3>2
  <2>6. CASE TimePasses
    BY <2>6 DEF TimePasses
  <2>7. CASE UNCHANGED durableVars
    BY <2>7 DEF durableVars
  <2> QED BY <2>1, <2>2, <2>3, <2>4, <2>5, <2>6, <2>7 DEF DurableNext, Handle
<1>2. \A u \in DOMAIN minted : minted[u].expires \in Nat /\ minted[u].device \in DeviceCodes
  BY DEF DurableTypeOK, IsMap, Birth
<1>3. now \in Nat
  BY DEF DurableTypeOK
<1>4. ASSUME NEW u \in DOMAIN minted, Over(u) PROVE Over(u)'
  BY <1>1, <1>2, <1>3, <1>4 DEF Over
<1>5. ASSUME NEW g \in Grants, NEW d \in DeviceCodes, BelongsTo(g, d) PROVE BelongsTo(g, d)'
  BY <1>1, <1>5 DEF BelongsTo
<1> QED BY <1>1, <1>4, <1>5

\* The initial state.
LEMMA DurableInitInv == DurableInit => DurableInv
<1> SUFFICES ASSUME DurableInit PROVE DurableInv
  OBVIOUS
<1> USE DurableAssumption, PairingsAssumption
    DEF DurableInit, EmptyMap, Idle, Handling, Wiped, Holding
<1>1. DurableTypeOK
  BY DEF DurableTypeOK, IsMap, Object, Handler, OrNone
<1>2. /\ MintedInPairs /\ ConsentsForMinted /\ PointersAgree /\ HandlersAgree
      /\ ObjectsAgree /\ AlarmlessIsUnknown /\ HandedAgree
  BY DEF MintedInPairs, ConsentsForMinted, PointersAgree, HandlersAgree, HandlerAgrees,
     Carrying, WithToken,
     ObjectsAgree, AlarmlessIsUnknown, HandedAgree
<1>3. TokensInOnePlace /\ OpenUntilOver /\ ToldAgree
  BY DEF TokensInOnePlace, OpenUntilOver, ToldAgree, WithToken
<1> QED BY <1>1, <1>2, <1>3 DEF DurableInv

\* What the types say of the parts, for citing.
LEMMA Parts ==
    ASSUME DurableTypeOK
    PROVE  /\ now \in Nat /\ TTL \in Nat
           /\ \A d \in DeviceCodes : objects[d] \in Object
           /\ \A u \in DOMAIN minted :
                 u \in UserCodes /\ minted[u].device \in DeviceCodes /\ minted[u].expires \in Nat
           /\ \A u \in DOMAIN pointers :
                 /\ u \in UserCodes
                 /\ pointers[u].device \in DeviceCodes /\ pointers[u].expires \in Nat
           /\ \A g \in DOMAIN consents : g \in Grants /\ consents[g] \in UserCodes
           /\ \A r \in Slots : reqs[r] \in Handler
BY DurableAssumption DEF DurableTypeOK, IsMap, Birth, Pointer

\* Objects are left alone, or one loses its window and its token: the window is
\* at its end, or the object died.
Fading ==
    \/ UNCHANGED objects
    \/ \E u \in DOMAIN minted :
          /\ Over(u) \/ crashes' > 0
          /\ \E a \in {None, objects[minted[u].device].alarm} :
                objects' = [objects EXCEPT ![minted[u].device] = Holding(None, None, a)]

\* alive() wipes an object only after its window.
LEMMA CheckedFades ==
    ASSUME DurableInv, NEW d \in DeviceCodes, SetObject(d, Checked(objects[d]))
    PROVE  Fading
<1> USE DEF DurableInv
<1>1. CASE objects[d].expires # None /\ now > objects[d].expires
  <2>1. objects[d] # Wiped
    BY <1>1 DEF Wiped, Holding
  <2>2. PICK u \in DOMAIN minted : minted[u].device = d
    BY <2>1 DEF ObjectsAgree
  <2>3. now > minted[u].expires
    BY <1>1, <2>2 DEF ObjectsAgree, ObjectAgrees
  <2>4. Over(u)
    BY <2>3, Parts DEF Over
  <2>5. objects' = [objects EXCEPT ![d] = Holding(None, None, objects[d].alarm)]
    BY <1>1 DEF SetObject, Checked
  <2> QED BY <2>2, <2>4, <2>5 DEF Fading
<1>2. CASE ~(objects[d].expires # None /\ now > objects[d].expires)
  <2>1. objects' = [objects EXCEPT ![d] = objects[d]]
    BY <1>2 DEF SetObject, Checked
  <2>2. objects' = objects
    BY <2>1 DEF DurableTypeOK
  <2> QED BY <2>2 DEF Fading
<1> QED BY <1>1, <1>2

\* What a fading object looks like afterwards.
Faded(d) ==
    /\ objects'[d].token \in {objects[d].token, None}
    /\ objects'[d].expires \in {objects[d].expires, None}
    /\ objects'[d].alarm \in {objects[d].alarm, None}
    /\ objects'[d] # objects[d] =>
          /\ objects'[d].expires = None /\ objects'[d].token = None
          /\ \E u \in DOMAIN minted : minted[u].device = d /\ (Over(u) \/ crashes' > 0)

LEMMA FadingObjects ==
    ASSUME DurableInv, Fading
    PROVE  objects' \in [DeviceCodes -> Object] /\ \A d \in DeviceCodes : Faded(d)
<1> USE DEF Faded
<1>1. objects \in [DeviceCodes -> Object]
  BY DEF DurableInv, DurableTypeOK
<1>2. CASE UNCHANGED objects
  BY <1>1, <1>2
<1>3. ASSUME NEW u \in DOMAIN minted, Over(u) \/ crashes' > 0,
             NEW a \in {None, objects[minted[u].device].alarm},
             objects' = [objects EXCEPT ![minted[u].device] = Holding(None, None, a)]
      PROVE  objects' \in [DeviceCodes -> Object] /\ \A d \in DeviceCodes : Faded(d)
  <2> DEFINE e == minted[u].device
  <2>1. e \in DeviceCodes
    BY Parts DEF DurableInv
  <2>2. Holding(None, None, a) \in Object
    BY <1>1, <2>1 DEF Holding, Object, OrNone
  <2>3. objects' \in [DeviceCodes -> Object]
    BY <1>1, <1>3, <2>2
  <2>4. ASSUME NEW d \in DeviceCodes, d # e PROVE objects'[d] = objects[d]
    BY <1>1, <1>3, <2>4
  <2>5. objects'[e] = Holding(None, None, a)
    BY <1>1, <1>3, <2>1
  <2>6. /\ objects'[e].token = None /\ objects'[e].expires = None
        /\ objects'[e].alarm \in {objects[e].alarm, None}
    BY <2>5 DEF Holding
  <2> QED BY <1>3, <2>3, <2>4, <2>6
<1> QED BY <1>2, <1>3 DEF Fading

LEMMA FadingKeepsObjects ==
    ASSUME DurableInv, [DurableNext]_durableVars, Fading, UNCHANGED <<minted, handed, told>>
    PROVE  ObjectsAgree' /\ HandedAgree' /\ OpenUntilOver' /\ ToldAgree'
<1> USE DEF DurableInv
<1>1. ObjectsAgree'
  <2>1. ASSUME NEW u \in DOMAIN minted PROVE ObjectAgrees(u, objects[minted[u].device])'
    BY FadingObjects, Parts DEF Faded, ObjectsAgree, ObjectAgrees
  <2>2. ASSUME NEW d \in DeviceCodes, objects'[d] # Wiped
        PROVE  \E u \in DOMAIN minted : minted[u].device = d
    BY <2>2, FadingObjects DEF Faded, ObjectsAgree
  <2>3. ASSUME NEW d \in DeviceCodes, objects'[d].token # None
        PROVE  BelongsTo(objects[d].token, d)'
    <3>1. objects'[d].token = objects[d].token /\ objects[d].token \in Grants
      BY <2>3, FadingObjects, Parts DEF Faded, Object, OrNone
    <3>2. BelongsTo(objects[d].token, d)
      BY <2>3, <3>1 DEF ObjectsAgree
    <3>3. /\ \A g \in DOMAIN consents : g \in DOMAIN consents' /\ consents'[g] = consents[g]
          /\ redeemed \subseteq redeemed'
      BY HistoryGrows
    <3> QED BY <3>1, <3>2, <3>3 DEF BelongsTo
  <2>4. Wiped' = Wiped
    BY DEF Wiped, Holding
  <2> QED BY <2>1, <2>2, <2>3, <2>4 DEF ObjectsAgree
<1>2. HandedAgree'
  <2>1. ASSUME NEW d \in DeviceCodes, NEW g \in Grants, BelongsTo(g, d) PROVE BelongsTo(g, d)'
    BY <2>1, HistoryGrows
  <2> QED BY <2>1, FadingObjects DEF Faded, HandedAgree
<1>3. /\ \A u \in DOMAIN minted : Over(u) => Over(u)'
      /\ crashes' \in Nat /\ crashes \in Nat /\ crashes <= crashes'
      /\ \A g \in DOMAIN consents : g \in DOMAIN consents' /\ consents'[g] = consents[g]
  BY HistoryGrows DEF DurableTypeOK
<1>4. ASSUME NEW u \in DOMAIN minted, ~Over(u)', ~(crashes' > 0),
             objects'[minted[u].device] # objects[minted[u].device]
      PROVE  FALSE
  <2>1. PICK v \in DOMAIN minted : minted[v].device = minted[u].device /\ Over(v)
    BY <1>4, FadingObjects, Parts DEF Faded
  <2>2. v = u
    BY <2>1 DEF MintedInPairs
  <2> QED BY <1>3, <1>4, <2>1, <2>2
<1>5. OpenUntilOver'
  BY <1>3, <1>4 DEF OpenUntilOver
<1>6. ToldAgree'
  BY <1>3, <1>4 DEF ToldAgree, ConsentsForMinted
<1> QED BY <1>1, <1>2, <1>5, <1>6

\* No handler gets hold of a token and no object of another one.
LEMMA FadingKeepsTokens ==
    ASSUME DurableInv, Fading, UNCHANGED handed,
           \A r \in Slots : reqs'[r].pc \in WithToken =>
              reqs[r].pc \in WithToken /\ reqs'[r].grant = reqs[r].grant
    PROVE  TokensInOnePlace'
<1>1. \A d \in DeviceCodes : objects'[d].token # None => objects'[d].token = objects[d].token
  BY FadingObjects DEF Faded
<1>2. \A r \in Slots : reqs'[r].pc \in WithToken => reqs'[r].grant # None
  <2> SUFFICES ASSUME NEW r \in Slots, reqs[r].pc \in WithToken PROVE reqs[r].grant # None
    OBVIOUS
  <2>1. reqs[r].grant \in DOMAIN consents
    BY DEF DurableInv, HandlersAgree, HandlerAgrees, Carrying, WithToken
  <2> QED BY <2>1, Parts, PairingsAssumption DEF DurableInv
<1> QED BY <1>1, <1>2 DEF DurableInv, TokensInOnePlace

\* An object does not lose its alarm alone, and no user code is learnt by who
\* does not know it.
LEMMA NothingIsLearnt ==
    ASSUME DurableInv, Fading, UNCHANGED minted, \A u \in DOMAIN minted : Known(u)' => Known(u)
    PROVE  AlarmlessIsUnknown'
<1>1. ASSUME NEW d \in DeviceCodes, Alarmless(objects'[d]) PROVE Alarmless(objects[d])
  BY <1>1, FadingObjects DEF Faded, Alarmless
<1> QED BY <1>1, Parts DEF DurableInv, AlarmlessIsUnknown, Alarmless

\* A handler that comes or goes on agrees with its pairing; the others are where
\* they were.
LEMMA HandlerMoves ==
    ASSUME DurableInv, [DurableNext]_durableVars, NEW r \in Slots, NEW h \in Handler,
           Goto(r, h), HandlerAgrees(h)'
    PROVE  reqs' \in [Slots -> Handler] /\ HandlersAgree'
<1> USE DEF DurableInv
<1>1. /\ reqs' \in [Slots -> Handler]
      /\ reqs'[r] = h
      /\ \A s \in Slots : s # r => reqs'[s] = reqs[s]
  BY DEF Goto, DurableTypeOK
<1>2. ASSUME NEW s \in Slots PROVE HandlerAgrees(reqs[s])'
  <2>1. CASE s = r
    BY <1>1, <2>1
  <2>2. CASE s # r
    <3>1. HandlerAgrees(reqs[s])
      BY DEF HandlersAgree
    <3> QED BY <1>1, <2>2, <3>1, HistoryGrows DEF HandlerAgrees
  <2> QED BY <2>1, <2>2
<1> QED BY <1>1, <1>2 DEF HandlersAgree

LEMMA HandlersStay ==
    ASSUME DurableInv, [DurableNext]_durableVars, UNCHANGED reqs
    PROVE  reqs' \in [Slots -> Handler] /\ HandlersAgree'
BY HistoryGrows DEF DurableInv, DurableTypeOK, HandlersAgree, HandlerAgrees

LEMMA IdleIsAHandler == Idle \in Handler /\ HandlerAgrees(Idle)'
BY DEF Idle, Handling, Handler, OrNone, HandlerAgrees, Carrying, WithToken

\* Pointers only go when their window is over.
LEMMA PointersKept ==
    ASSUME DurableInv, [DurableNext]_durableVars, UNCHANGED <<minted, shown>>,
           NEW S, pointers' = Without(pointers, S),
           \A u \in S \cap DOMAIN pointers : now >= pointers[u].expires
    PROVE  IsMap(pointers, UserCodes, Pointer)' /\ PointersAgree'
<1> USE DEF DurableInv
<1>1. /\ DOMAIN pointers' = DOMAIN pointers \ S
      /\ \A u \in DOMAIN pointers' : pointers'[u] = pointers[u]
  BY DEF Without
<1>2. IsMap(pointers, UserCodes, Pointer)'
  BY DEF Without, DurableTypeOK, IsMap
<1>3. ASSUME NEW u \in DOMAIN pointers, u \in S PROVE Over(u)'
  <2>1. now >= minted[u].expires /\ u \in DOMAIN minted
    BY <1>3, Parts DEF PointersAgree
  <2> QED BY <2>1, HistoryGrows DEF Over
<1>4. ASSUME NEW u \in shown PROVE u \in DOMAIN pointers' \/ Over(u)'
  <2>1. u \in DOMAIN minted
    BY DEF DurableTypeOK
  <2> QED BY <1>1, <1>3, <2>1, HistoryGrows DEF PointersAgree
<1> QED BY <1>1, <1>2, <1>4 DEF PointersAgree

-----------------------------------------------------------------------------
(* Steps that mint nothing, hand nothing over and complete nothing. *)

LEMMA QuietInv ==
    ASSUME DurableInv, [DurableNext]_durableVars,
           Fading, UNCHANGED <<minted, shown, handed, told>>,
           NEW S, pointers' = Without(pointers, S),
           \A u \in S \cap DOMAIN pointers : now >= pointers[u].expires,
           IsMap(consents, Grants, UserCodes)', ConsentsForMinted', redeemed' \subseteq Grants,
           \A g \in DOMAIN consents' : Known(consents'[g]),
           reqs' \in [Slots -> Handler], HandlersAgree',
           \A r \in Slots : reqs'[r].pc # "idle" => Known(reqs'[r].user),
           TokensInOnePlace'
    PROVE  DurableInv'
<1>1. IsMap(pointers, UserCodes, Pointer)' /\ PointersAgree'
  BY PointersKept
<1>2. DurableTypeOK'
  BY <1>1, HistoryGrows, FadingObjects DEF DurableInv, DurableTypeOK
<1>3. MintedInPairs'
  BY HistoryGrows, Parts DEF DurableInv, MintedInPairs
<1>4. ObjectsAgree' /\ HandedAgree' /\ OpenUntilOver' /\ ToldAgree'
  BY FadingKeepsObjects
<1>5. AlarmlessIsUnknown'
  <2>1. DOMAIN pointers' \subseteq DOMAIN pointers
    BY DEF Without
  <2>2. \A u \in DOMAIN minted : Known(u)' => Known(u)
    BY <2>1 DEF Known
  <2> QED BY <2>2, NothingIsLearnt
<1> QED BY <1>1, <1>2, <1>3, <1>4, <1>5 DEF DurableInv

\* What QuietInv asks of the variables a step leaves alone.
LEMMA PointersStay ==
    ASSUME DurableInv, UNCHANGED pointers
    PROVE  pointers' = Without(pointers, {})
BY DEF DurableInv, DurableTypeOK, IsMap, Without

LEMMA ConsentsStay ==
    ASSUME DurableInv, [DurableNext]_durableVars, UNCHANGED <<consents, minted>>
    PROVE  /\ IsMap(consents, Grants, UserCodes)' /\ ConsentsForMinted'
           /\ \A g \in DOMAIN consents' : Known(consents'[g])
BY DEF DurableInv, DurableTypeOK, ConsentsForMinted, Known

\* A handler ends, or all stay where they are.
LEMMA HandlerEnds ==
    ASSUME DurableInv, [DurableNext]_durableVars, Fading, UNCHANGED handed,
           UNCHANGED reqs \/ \E r \in Slots : Goto(r, Idle)
    PROVE  /\ reqs' \in [Slots -> Handler] /\ HandlersAgree' /\ TokensInOnePlace'
           /\ \A r \in Slots : reqs'[r].pc # "idle" => Known(reqs'[r].user)
<1>1. CASE UNCHANGED reqs
  <2>1. reqs' \in [Slots -> Handler] /\ HandlersAgree'
    BY <1>1, HandlersStay
  <2>2. TokensInOnePlace'
    BY <1>1, FadingKeepsTokens
  <2> QED BY <1>1, <2>1, <2>2 DEF Known
<1>2. ASSUME NEW r \in Slots, Goto(r, Idle)
      PROVE  /\ reqs' \in [Slots -> Handler] /\ HandlersAgree' /\ TokensInOnePlace'
             /\ \A s \in Slots : reqs'[s].pc # "idle" => Known(reqs'[s].user)
  <2>1. reqs' \in [Slots -> Handler] /\ HandlersAgree'
    BY <1>2, HandlerMoves, IdleIsAHandler
  <2>2. reqs'[r].pc = "idle" /\ \A s \in Slots : s # r => reqs'[s] = reqs[s]
    BY <1>2 DEF Goto, DurableInv, DurableTypeOK, Idle, Handling
  <2>3. TokensInOnePlace'
    BY <2>2, FadingKeepsTokens DEF WithToken
  <2>4. \A s \in Slots : reqs'[s].pc # "idle" => Known(reqs'[s].user)
    BY <2>2 DEF Known
  <2> QED BY <2>1, <2>3, <2>4
<1> QED BY <1>1, <1>2

\* A handler that carries no token moves on with the codes it has.
LEMMA HandlerGoesOn ==
    ASSUME DurableInv, [DurableNext]_durableVars, Fading, UNCHANGED handed,
           NEW r \in Slots, NEW h \in Handler, Goto(r, h), HandlerAgrees(h)', Known(h.user),
           h.pc \in WithToken => reqs[r].pc \in WithToken /\ h.grant = reqs[r].grant
    PROVE  /\ reqs' \in [Slots -> Handler] /\ HandlersAgree' /\ TokensInOnePlace'
           /\ \A s \in Slots : reqs'[s].pc # "idle" => Known(reqs'[s].user)
<1>1. reqs' \in [Slots -> Handler] /\ HandlersAgree'
  BY HandlerMoves
<1>2. reqs'[r] = h /\ \A s \in Slots : s # r => reqs'[s] = reqs[s]
  BY DEF Goto, DurableInv, DurableTypeOK
<1>3. TokensInOnePlace'
  <2>1. \A s \in Slots : reqs'[s].pc \in WithToken =>
           reqs[s].pc \in WithToken /\ reqs'[s].grant = reqs[s].grant
    BY <1>2
  <2> QED BY <2>1, FadingKeepsTokens
<1>4. \A s \in Slots : reqs'[s].pc # "idle" => Known(reqs'[s].user)
  BY <1>2 DEF Known
<1> QED BY <1>1, <1>3, <1>4

\* An alarm that goes off wipes an object whose window is at its end.
LEMMA AlarmFades ==
    ASSUME DurableInv, NEW d \in DeviceCodes, PairingAlarm(d)
    PROVE  Fading
<1>1. objects[d].alarm # None /\ now >= objects[d].alarm
  BY DEF PairingAlarm, Due
<1>2. objects[d] # Wiped
  BY <1>1 DEF Wiped, Holding
<1>3. PICK u \in DOMAIN minted : minted[u].device = d
  BY <1>2 DEF DurableInv, ObjectsAgree
<1>4. Over(u)
  BY <1>1, <1>3 DEF DurableInv, ObjectsAgree, ObjectAgrees, Over
<1>5. objects' = [objects EXCEPT ![minted[u].device] = Holding(None, None, None)]
  BY <1>3 DEF PairingAlarm, SetObject, Wiped
<1> QED BY <1>4, <1>5 DEF Fading

\* The platform: time, alarms, and handlers that end at an await.
LEMMA PlatformInv ==
    ASSUME DurableInv, [DurableNext]_durableVars,
           \/ \E d \in DeviceCodes : PairingAlarm(d)
           \/ \E u \in UserCodes : PointerAlarm(u)
           \/ \E r \in Slots : Vanish(r)
           \/ TimePasses
           \/ UNCHANGED durableVars
    PROVE  DurableInv'
<1> USE DEF notionVars, historyVars, objectVars
<1>0. redeemed \subseteq Grants
  BY DEF DurableInv, DurableTypeOK
<1>1. ASSUME NEW d \in DeviceCodes, PairingAlarm(d) PROVE DurableInv'
  <2>1. Fading
    BY <1>1, AlarmFades
  <2>2. UNCHANGED <<minted, shown, handed, told, consents, redeemed, pointers, reqs>>
    BY <1>1 DEF PairingAlarm
  <2> QED BY <1>0, <2>1, <2>2, QuietInv, PointersStay, ConsentsStay, HandlerEnds
<1>2. ASSUME NEW u \in UserCodes, PointerAlarm(u) PROVE DurableInv'
  <2>1. Fading
    BY <1>2 DEF PointerAlarm, Fading
  <2>2. /\ UNCHANGED <<minted, shown, handed, told, consents, redeemed, reqs>>
        /\ pointers' = Without(pointers, {u})
        /\ \A v \in {u} \cap DOMAIN pointers : now >= pointers[v].expires
    BY <1>2 DEF PointerAlarm, Due
  <2> QED BY <1>0, <2>1, <2>2, QuietInv, ConsentsStay, HandlerEnds
<1>3. ASSUME NEW r \in Slots, Vanish(r) PROVE DurableInv'
  <2>1. Fading
    BY <1>3 DEF Vanish, Fading
  <2>2. /\ UNCHANGED <<minted, shown, handed, told, consents, redeemed, pointers>>
        /\ Goto(r, Idle)
    BY <1>3 DEF Vanish
  <2> QED BY <1>0, <2>1, <2>2, QuietInv, PointersStay, ConsentsStay, HandlerEnds
<1>4. CASE TimePasses \/ UNCHANGED durableVars
  <2>1. UNCHANGED <<objects, minted, shown, handed, told, consents, redeemed, pointers, reqs>>
    BY <1>4 DEF TimePasses, durableVars
  <2>2. Fading
    BY <2>1 DEF Fading
  <2> QED BY <1>0, <2>1, <2>2, QuietInv, PointersStay, ConsentsStay, HandlerEnds
<1> QED BY <1>1, <1>2, <1>3, <1>4

\* A handler between two calls, with the codes it has.
LEMMA AHandler ==
    ASSUME NEW pc \in {"point", "go", "check", "exchange", "complete", "put"},
           NEW u \in UserCodes, NEW d \in DeviceCodes, NEW g \in OrNone(Grants)
    PROVE  \E h \in Handler : /\ h = Handling(pc, u, d, g)
                              /\ h.pc = pc /\ h.user = u /\ h.device = d /\ h.grant = g
<1> DEFINE h == Handling(pc, u, d, g)
<1>1. h \in Handler
  BY DEF Handling, Handler, OrNone
<1>2. h.pc = pc /\ h.user = u /\ h.device = d /\ h.grant = g
  BY DEF Handling
<1> QED BY <1>1, <1>2

\* A user code that resolves is minted, known, and leads to its own pairing.
LEMMA ResolvedIsMinted ==
    ASSUME DurableInv, NEW u \in UserCodes, Resolved(u) # None
    PROVE  u \in DOMAIN minted /\ Resolved(u) = minted[u].device /\ Known(u)
BY DEF Resolved, DurableInv, PointersAgree, Known

\* Reading a pointer drops it only when its window is over.
LEMMA ReadPointerDrops ==
    ASSUME DurableInv, NEW u \in UserCodes, ReadPointer(u)
    PROVE  \E S : /\ pointers' = Without(pointers, S)
                  /\ \A v \in S \cap DOMAIN pointers : now >= pointers[v].expires
BY Parts DEF ReadPointer, DurableInv

\* A request begins with a look at the pointer.
LEMMA ResolveInv ==
    ASSUME DurableInv, [DurableNext]_durableVars, NEW r \in Slots,
           \/ \E u \in UserCodes : GoResolve(r, u)
           \/ \E g \in Grants : CallbackResolve(r, g)
    PROVE  DurableInv'
<1> USE DEF notionVars, historyVars
<1>0. redeemed \subseteq Grants
  BY DEF DurableInv, DurableTypeOK
<1>1. ASSUME NEW u \in UserCodes, ReadPointer(u), NEW h \in Handler,
             UNCHANGED <<now, objects, notionVars, historyVars>>,
             \/ Resolved(u) = None /\ UNCHANGED reqs
             \/ /\ Goto(r, h) /\ Resolved(u) # None
                /\ h.user = u /\ h.pc \notin WithToken /\ HandlerAgrees(h)'
      PROVE  DurableInv'
  <2>1. Fading
    BY <1>1 DEF Fading
  <2>2. /\ reqs' \in [Slots -> Handler] /\ HandlersAgree' /\ TokensInOnePlace'
        /\ \A s \in Slots : reqs'[s].pc # "idle" => Known(reqs'[s].user)
    <3>1. CASE UNCHANGED reqs
      BY <1>1, <2>1, <3>1, HandlerEnds
    <3>2. CASE /\ Goto(r, h) /\ Resolved(u) # None
               /\ h.user = u /\ h.pc \notin WithToken /\ HandlerAgrees(h)'
      <4>1. Known(h.user)
        BY <3>2, ResolvedIsMinted
      <4> QED BY <1>1, <2>1, <3>2, <4>1, HandlerGoesOn
    <3> QED BY <1>1, <3>1, <3>2
  <2>3. PICK S : /\ pointers' = Without(pointers, S)
                 /\ \A v \in S \cap DOMAIN pointers : now >= pointers[v].expires
    BY <1>1, ReadPointerDrops
  <2> QED BY <1>0, <1>1, <2>1, <2>2, <2>3, ConsentsStay, QuietInv
<1>2. ASSUME NEW u \in UserCodes, GoResolve(r, u) PROVE DurableInv'
  <2>1. /\ ReadPointer(u) /\ UNCHANGED <<now, objects, notionVars, historyVars>>
        /\ IF Resolved(u) = None THEN UNCHANGED reqs
           ELSE Goto(r, Handling("go", u, Resolved(u), None))
    BY <1>2 DEF GoResolve
  <2>2. CASE Resolved(u) = None
    BY <1>1, <2>1, <2>2, IdleIsAHandler
  <2>3. CASE Resolved(u) # None
    <3>1. u \in DOMAIN minted /\ Resolved(u) = minted[u].device /\ Resolved(u) \in DeviceCodes
      BY <2>3, ResolvedIsMinted, Parts DEF DurableInv
    <3>2. PICK h \in Handler : /\ h = Handling("go", u, Resolved(u), None)
                               /\ h.pc = "go" /\ h.user = u /\ h.device = minted[u].device
      BY <3>1, AHandler DEF OrNone
    <3>3. HandlerAgrees(h)'
      BY <2>1, <3>1, <3>2 DEF HandlerAgrees, Carrying, WithToken
    <3>4. h.pc \notin WithToken
      BY <3>2 DEF WithToken
    <3> QED BY <1>1, <2>1, <2>3, <3>2, <3>3, <3>4
  <2> QED BY <2>2, <2>3
<1>3. ASSUME NEW g \in Grants, CallbackResolve(r, g) PROVE DurableInv'
  <2>1. PICK u \in UserCodes : u = consents[g]
    BY <1>3, Parts DEF CallbackResolve, DurableInv
  <2>2. /\ g \in DOMAIN consents
        /\ ReadPointer(u) /\ UNCHANGED <<now, objects, notionVars, historyVars>>
        /\ IF Resolved(u) = None THEN UNCHANGED reqs
           ELSE Goto(r, Handling("check", u, Resolved(u), g))
    BY <1>3, <2>1 DEF CallbackResolve
  <2>3. CASE Resolved(u) = None
    BY <1>1, <2>2, <2>3, IdleIsAHandler
  <2>4. CASE Resolved(u) # None
    <3>1. u \in DOMAIN minted /\ Resolved(u) = minted[u].device /\ Resolved(u) \in DeviceCodes
      BY <2>4, ResolvedIsMinted, Parts DEF DurableInv
    <3>2. PICK h \in Handler : /\ h = Handling("check", u, Resolved(u), g)
                               /\ h.pc = "check" /\ h.user = u /\ h.device = minted[u].device
                               /\ h.grant = g
      BY <3>1, AHandler DEF OrNone
    <3>3. HandlerAgrees(h)'
      BY <2>1, <2>2, <3>1, <3>2 DEF HandlerAgrees, Carrying, WithToken
    <3>4. h.pc \notin WithToken
      BY <3>2 DEF WithToken
    <3> QED BY <1>1, <2>2, <2>4, <3>2, <3>3, <3>4
  <2> QED BY <2>3, <2>4
<1> QED BY <1>2, <1>3

\* What is known of a handler that calls the object of its pairing.
LEMMA BusyHandler ==
    ASSUME DurableInv, NEW r \in Slots, reqs[r].pc # "idle"
    PROVE  /\ reqs[r].user \in DOMAIN minted /\ reqs[r].user \in UserCodes
           /\ reqs[r].device = minted[reqs[r].user].device
           /\ reqs[r].device \in DeviceCodes
           /\ Known(reqs[r].user)
           /\ reqs[r].pc \in Carrying =>
                 /\ reqs[r].grant \in Grants /\ reqs[r].grant \in DOMAIN consents
                 /\ consents[reqs[r].grant] = reqs[r].user
           /\ reqs[r].pc \in WithToken => reqs[r].grant \in redeemed
BY Parts DEF DurableInv, HandlersAgree, HandlerAgrees, Known

\* GET /go's second call, and the consent it leads to.
LEMMA GoCheckInv ==
    ASSUME DurableInv, [DurableNext]_durableVars, NEW r \in Slots, GoCheck(r)
    PROVE  DurableInv'
<1> DEFINE u == reqs[r].user
<1>1. /\ SetObject(reqs[r].device, Checked(objects[reqs[r].device]))
      /\ \/ consents' = consents
         \/ \E g \in Grants \ DOMAIN consents : consents' = Put(consents, g, u)
      /\ Goto(r, Idle)
      /\ UNCHANGED <<minted, shown, handed, told, pointers, redeemed>>
  BY DEF GoCheck, historyVars
<1>2. u \in DOMAIN minted /\ u \in UserCodes /\ Known(u) /\ reqs[r].device \in DeviceCodes
  BY BusyHandler DEF GoCheck, At
<1>3. Fading
  BY <1>1, <1>2, CheckedFades
<1>4. /\ IsMap(consents, Grants, UserCodes)' /\ ConsentsForMinted'
      /\ \A g \in DOMAIN consents' : Known(consents'[g])
  <2>1. CASE consents' = consents
    BY <1>1, <2>1, ConsentsStay
  <2>2. ASSUME NEW g \in Grants \ DOMAIN consents, consents' = Put(consents, g, u)
        PROVE  <1>4
    <3>1. /\ DOMAIN consents' = DOMAIN consents \cup {g} /\ consents'[g] = u
          /\ \A k \in DOMAIN consents : consents'[k] = consents[k]
      BY <2>2 DEF Put
    <3>2. IsMap(consents, Grants, UserCodes)'
      BY <1>2, <2>2 DEF DurableInv, DurableTypeOK, IsMap, Put
    <3> QED BY <1>1, <1>2, <3>1, <3>2 DEF DurableInv, ConsentsForMinted, Known
  <2> QED BY <1>1, <2>1, <2>2
<1>5. redeemed' \subseteq Grants
  BY <1>1 DEF DurableInv, DurableTypeOK
<1> QED BY <1>1, <1>3, <1>4, <1>5, QuietInv, PointersStay, HandlerEnds

\* The callback goes on to the exchange, or from the exchange to the body.
LEMMA CallbackInv ==
    ASSUME DurableInv, [DurableNext]_durableVars, NEW r \in Slots,
           CallbackCheck(r) \/ CompleteCheck(r)
    PROVE  DurableInv'
<1>1. /\ reqs[r].pc \in {"check", "complete"}
      /\ SetObject(reqs[r].device, Checked(objects[reqs[r].device]))
      /\ \/ Goto(r, Idle)
         \/ reqs[r].pc = "check" /\ Advance(r, "exchange")
         \/ reqs[r].pc = "complete" /\ Advance(r, "put")
      /\ UNCHANGED <<minted, shown, handed, told, pointers, redeemed, consents>>
  BY DEF CallbackCheck, CompleteCheck, At, historyVars, notionVars
<1>2. Fading
  BY <1>1, BusyHandler, CheckedFades
<1>3. reqs[r].pc # "idle" /\ reqs[r].pc \in Carrying
  BY <1>1 DEF Carrying
<1>4. /\ reqs' \in [Slots -> Handler] /\ HandlersAgree' /\ TokensInOnePlace'
      /\ \A s \in Slots : reqs'[s].pc # "idle" => Known(reqs'[s].user)
  <2>1. CASE Goto(r, Idle)
    BY <1>1, <1>2, <2>1, HandlerEnds
  <2>2. ASSUME NEW pc \in {"exchange", "put"}, Advance(r, pc),
               pc = "put" => reqs[r].pc = "complete"
        PROVE  <1>4
    <3>1. PICK h \in Handler :
             /\ h = Handling(pc, reqs[r].user, reqs[r].device, reqs[r].grant)
             /\ h.pc = pc /\ h.user = reqs[r].user
             /\ h.device = reqs[r].device /\ h.grant = reqs[r].grant
      BY <1>3, AHandler, BusyHandler DEF OrNone
    <3>2. h.pc \in WithToken => reqs[r].pc \in WithToken
      BY <2>2, <3>1 DEF WithToken
    <3>3. HandlerAgrees(h)'
      BY <1>1, <1>3, <3>1, <3>2, BusyHandler DEF HandlerAgrees
    <3>4. Goto(r, h) /\ Known(h.user)
      BY <1>3, <2>2, <3>1, BusyHandler DEF Advance
    <3> QED BY <1>1, <1>2, <3>1, <3>2, <3>3, <3>4, HandlerGoesOn
  <2> QED BY <1>1, <2>1, <2>2
<1>5. redeemed' \subseteq Grants
  BY <1>1 DEF DurableInv, DurableTypeOK
<1> QED BY <1>1, <1>2, <1>4, <1>5, QuietInv, PointersStay, ConsentsStay

\* A code is exchanged once, so that its token is in no other place.
LEMMA ExchangeInv ==
    ASSUME DurableInv, [DurableNext]_durableVars, NEW r \in Slots, Exchange(r)
    PROVE  DurableInv'
<1>1. PICK g \in Grants : g = reqs[r].grant /\ g \in DOMAIN consents
  BY BusyHandler DEF Exchange, At, Carrying
<1>2. /\ reqs[r].pc = "exchange" /\ g \notin redeemed /\ redeemed' = redeemed \cup {g}
      /\ Advance(r, "complete")
      /\ UNCHANGED <<objects, minted, shown, handed, told, pointers, consents>>
  BY <1>1 DEF Exchange, At, historyVars, objectVars
<1>3. Fading
  BY <1>2 DEF Fading
<1>4. PICK h \in Handler :
         /\ h = Handling("complete", reqs[r].user, reqs[r].device, reqs[r].grant)
         /\ h.pc = "complete" /\ h.user = reqs[r].user
         /\ h.device = reqs[r].device /\ h.grant = reqs[r].grant
  BY <1>1, <1>2, AHandler, BusyHandler DEF OrNone
<1>5. reqs' \in [Slots -> Handler] /\ HandlersAgree'
  <2>1. HandlerAgrees(h)'
    BY <1>1, <1>2, <1>4, BusyHandler DEF HandlerAgrees, Carrying
  <2> QED BY <1>2, <1>4, <2>1, HandlerMoves DEF Advance
<1>6. reqs'[r] = h /\ \A s \in Slots : s # r => reqs'[s] = reqs[s]
  BY <1>2, <1>4 DEF Advance, Goto, DurableInv, DurableTypeOK
<1>7. \A s \in Slots : reqs'[s].pc # "idle" => Known(reqs'[s].user)
  <2>1. Known(reqs[r].user)
    BY <1>2, BusyHandler
  <2> QED BY <1>4, <1>6, <2>1 DEF Known
<1>8. TokensInOnePlace'
  <2>1. \A s \in Slots : reqs[s].pc \in WithToken => reqs[s].grant # g
    BY <1>2 DEF DurableInv, HandlersAgree, HandlerAgrees
  <2>2. \A d \in DeviceCodes : objects[d].token # g
    BY <1>1, <1>2, PairingsAssumption DEF DurableInv, ObjectsAgree, BelongsTo
  <2>3. ASSUME NEW d \in DeviceCodes PROVE handed[d] # <<g>>
    <3>1. CASE handed[d] = <<>>
      BY <3>1
    <3>2. ASSUME NEW k \in Grants, handed[d] = <<k>>, BelongsTo(k, d) PROVE handed[d] # <<g>>
      <4>1. k # g
        BY <1>2, <3>2 DEF BelongsTo
      <4>2. <<k>>[1] = k /\ <<g>>[1] = g
        OBVIOUS
      <4> QED BY <3>2, <4>1, <4>2
    <3> QED BY <3>1, <3>2 DEF DurableInv, HandedAgree
  <2> QED BY <1>1, <1>2, <1>4, <1>6, <2>1, <2>2, <2>3 DEF DurableInv, TokensInOnePlace
<1>9. redeemed' \subseteq Grants
  BY <1>2 DEF DurableInv, DurableTypeOK
<1> QED BY <1>2, <1>3, <1>5, <1>7, <1>8, <1>9, QuietInv, PointersStay, ConsentsStay

\* A poll that is not handed a token finds none, or the object dies under it.
LEMMA IdleClaimFades ==
    ASSUME DurableInv, NEW d \in DeviceCodes, Claim(d), UNCHANGED handed
    PROVE  Fading
<1>1. CASE SetObject(d, Checked(objects[d]))
  BY <1>1, CheckedFades
<1>2. CASE /\ InWindow(objects[d]) /\ Dies
           /\ SetObject(d, Holding(None, None, objects[d].alarm))
  <2>1. objects[d] # Wiped
    BY <1>2 DEF InWindow, Wiped, Holding
  <2>2. PICK u \in DOMAIN minted : minted[u].device = d
    BY <2>1 DEF DurableInv, ObjectsAgree
  <2>3. crashes' > 0
    BY <1>2 DEF Dies, DurableInv, DurableTypeOK
  <2> QED BY <1>2, <2>2, <2>3 DEF Fading, SetObject
<1>3. CASE /\ InWindow(objects[d])
           /\ handed' = [handed EXCEPT ![d] = Append(@, objects[d].token)]
           /\ objects[d].token # None
  <2>1. handed[d] \in Seq(Grants) /\ objects[d].token \in Grants
    BY <1>3, Parts DEF DurableInv, DurableTypeOK, Object, OrNone
  <2>2. Append(handed[d], objects[d].token) # handed[d]
    <3>1. Len(Append(handed[d], objects[d].token)) = Len(handed[d]) + 1 /\ Len(handed[d]) \in Nat
      BY <2>1
    <3> QED BY <3>1
  <2>3. handed'[d] = Append(handed[d], objects[d].token)
    BY <1>3 DEF DurableInv, DurableTypeOK
  <2> QED BY <2>2, <2>3
<1> QED BY <1>1, <1>2, <1>3 DEF Claim

LEMMA IdleClaimInv ==
    ASSUME DurableInv, [DurableNext]_durableVars, NEW d \in DeviceCodes, Claim(d),
           UNCHANGED handed
    PROVE  DurableInv'
<1>1. UNCHANGED <<minted, shown, told, pointers, redeemed, consents, reqs>>
  BY DEF Claim, notionVars
<1>2. redeemed' \subseteq Grants
  BY <1>1 DEF DurableInv, DurableTypeOK
<1> QED BY <1>1, <1>2, IdleClaimFades, QuietInv, PointersStay, ConsentsStay, HandlerEnds

-----------------------------------------------------------------------------
(* The handoff. *)

\* A poll is handed the token that waits for it.
Handoff(d) ==
    /\ InWindow(objects[d]) /\ objects[d].token # None
    /\ SetObject(d, Wiped)
    /\ handed' = [handed EXCEPT ![d] = Append(@, objects[d].token)]
    /\ UNCHANGED <<now, crashes, minted, shown, told, pointers, redeemed, consents, reqs>>

LEMMA ClaimCases ==
    ASSUME NEW d \in DeviceCodes, Claim(d)
    PROVE  Handoff(d) \/ UNCHANGED handed
BY DEF Claim, Handoff, Survives, notionVars

LEMMA HandoffFacts ==
    ASSUME DurableInv, NEW d \in DeviceCodes, Handoff(d)
    PROVE  \E t \in Grants :
             /\ t = objects[d].token /\ t # None /\ BelongsTo(t, d)
             /\ handed[d] = <<>> /\ handed'[d] = <<t>> /\ objects'[d] = Wiped
             /\ \A e \in DeviceCodes : e # d =>
                   handed'[e] = handed[e] /\ objects'[e] = objects[e]
<1>1. objects[d].token \in Grants /\ objects[d].token # None
  BY Parts DEF Handoff, DurableInv, Object, OrNone
<1>2. BelongsTo(objects[d].token, d)
  BY <1>1 DEF DurableInv, ObjectsAgree
<1>3. handed[d] = <<>>
  BY DEF Handoff, InWindow, DurableInv, HandedAgree
<1>4. /\ handed' = [handed EXCEPT ![d] = Append(handed[d], objects[d].token)]
      /\ objects' = [objects EXCEPT ![d] = Wiped]
      /\ d \in DOMAIN handed /\ d \in DOMAIN objects
      /\ DOMAIN handed = DeviceCodes /\ DOMAIN objects = DeviceCodes
  BY DEF Handoff, SetObject, DurableInv, DurableTypeOK
<1>5. handed'[d] = <<objects[d].token>> /\ objects'[d] = Wiped
  BY <1>3, <1>4
<1>6. \A e \in DeviceCodes : e # d => handed'[e] = handed[e] /\ objects'[e] = objects[e]
  BY <1>4
<1> QED BY <1>1, <1>2, <1>3, <1>5, <1>6

LEMMA HandoffInv ==
    ASSUME DurableInv, [DurableNext]_durableVars, NEW d \in DeviceCodes, Handoff(d)
    PROVE  DurableInv'
<1>1. PICK t \in Grants :
         /\ t = objects[d].token /\ t # None /\ BelongsTo(t, d)
         /\ handed[d] = <<>> /\ handed'[d] = <<t>> /\ objects'[d] = Wiped
         /\ \A e \in DeviceCodes : e # d => handed'[e] = handed[e] /\ objects'[e] = objects[e]
  BY HandoffFacts
<1>2. /\ UNCHANGED <<now, crashes, minted, shown, told, pointers, redeemed, consents, reqs>>
      /\ Wiped \in Object /\ Wiped.token = None /\ Wiped.expires = None /\ Wiped.alarm = None
  BY DEF Handoff, Wiped, Holding, Object, OrNone
<1>3. DurableTypeOK'
  <2>1. objects' \in [DeviceCodes -> Object]
    BY <1>2 DEF Handoff, SetObject, DurableInv, DurableTypeOK
  <2>2. handed' \in [DeviceCodes -> Seq(Grants)]
    BY <1>1 DEF Handoff, DurableInv, DurableTypeOK
  <2> QED BY <1>2, <2>1, <2>2 DEF DurableInv, DurableTypeOK
<1>4. MintedInPairs' /\ ConsentsForMinted' /\ PointersAgree' /\ HandlersAgree'
  BY <1>2 DEF DurableInv, MintedInPairs, ConsentsForMinted, PointersAgree, HandlersAgree,
     HandlerAgrees, Over
<1>5. ObjectsAgree'
  <2>1. ASSUME NEW u \in DOMAIN minted PROVE ObjectAgrees(u, objects[minted[u].device])'
    BY <1>1, <1>2, Parts DEF DurableInv, ObjectsAgree, ObjectAgrees
  <2>2. \A e \in DeviceCodes : objects'[e] # Wiped => \E u \in DOMAIN minted : minted[u].device = e
    BY <1>1 DEF DurableInv, ObjectsAgree
  <2>3. \A e \in DeviceCodes : objects'[e].token # None => BelongsTo(objects[e].token, e)'
    BY <1>1, <1>2 DEF DurableInv, ObjectsAgree, BelongsTo
  <2>4. Wiped' = Wiped
    BY DEF Wiped, Holding
  <2> QED BY <1>2, <2>1, <2>2, <2>3, <2>4 DEF ObjectsAgree
<1>6. AlarmlessIsUnknown'
  <2>1. \A e \in DeviceCodes : Alarmless(objects'[e]) => Alarmless(objects[e])
    BY <1>1, <1>2 DEF Alarmless
  <2>2. \A u \in UserCodes : Known(u)' => Known(u)
    BY <1>2 DEF Known
  <2> QED BY <1>2, <2>1, <2>2, Parts DEF DurableInv, AlarmlessIsUnknown, Alarmless
<1>7. HandedAgree'
  <2>1. \A g \in Grants, e \in DeviceCodes : BelongsTo(g, e) => BelongsTo(g, e)'
    BY <1>2 DEF BelongsTo
  <2> QED BY <1>1, <1>2, <2>1 DEF DurableInv, HandedAgree
<1>8. TokensInOnePlace'
  <2>1. ASSUME NEW r \in Slots, reqs[r].pc \in WithToken PROVE reqs[r].grant # t
    BY <1>1, <2>1 DEF DurableInv, TokensInOnePlace
  <2>2. ASSUME NEW r \in Slots, reqs[r].pc \in WithToken, NEW e \in DeviceCodes
        PROVE  objects'[e].token # reqs[r].grant /\ handed'[e] # <<reqs[r].grant>>
    <3>1. CASE e = d
      <4>1. reqs[r].grant # None /\ reqs[r].pc # "idle"
        BY <2>2, BusyHandler, PairingsAssumption DEF WithToken, Carrying
      <4>2. <<t>>[1] = t /\ <<reqs[r].grant>>[1] = reqs[r].grant
        OBVIOUS
      <4> QED BY <1>1, <1>2, <2>1, <2>2, <3>1, <4>1, <4>2
    <3>2. CASE e # d
      BY <1>1, <2>2, <3>2 DEF DurableInv, TokensInOnePlace
    <3> QED BY <3>1, <3>2
  <2>3. \A e \in DeviceCodes : objects'[e].token # None => handed'[e] # <<objects'[e].token>>
    BY <1>1, <1>2 DEF DurableInv, TokensInOnePlace
  <2> QED BY <1>2, <2>2, <2>3 DEF DurableInv, TokensInOnePlace
<1>9. OpenUntilOver' /\ ToldAgree'
  <2>1. handed'[d] # <<>>
    <3>1. Len(<<t>>) = 1 /\ Len(<<>>) = 0
      OBVIOUS
    <3> QED BY <1>1, <3>1
  <2>2. \A u \in DOMAIN minted : Over(u) => Over(u)'
    BY <1>2 DEF Over
  <2>3. OpenUntilOver'
    BY <1>1, <1>2, <2>1, <2>2, Parts DEF DurableInv, OpenUntilOver
  <2>4. \A g \in told : g \in DOMAIN consents /\ consents[g] \in DOMAIN minted
    BY DEF DurableInv, ToldAgree, ConsentsForMinted
  <2>5. ToldAgree'
    <3>1. ToldAgree /\ UNCHANGED <<told, consents>>
      BY <1>1, <1>2, Parts DEF DurableInv
    <3>2. ASSUME NEW g \in told
          PROVE  LET u == consents[g]
                     e == minted[u].device
                 IN  Over(u)' \/ crashes > 0 \/ handed'[e] # <<>> \/ objects'[e].token # None
      <4>0. PICK u, e : u = consents[g] /\ e = minted[u].device
        OBVIOUS
      <4>1. u \in DOMAIN minted /\ e \in DeviceCodes
        BY <2>4, <4>0, Parts DEF DurableInv, MintedInPairs
      <4>2. Over(u) \/ crashes > 0 \/ handed[e] # <<>> \/ objects[e].token # None
        BY <3>1, <4>0 DEF ToldAgree
      <4>3. CASE e = d
        BY <2>1, <4>0, <4>3
      <4>4. CASE e # d
        <5>1. handed'[e] = handed[e] /\ objects'[e] = objects[e]
          BY <1>1, <4>1, <4>4
        <5>2. Over(u) => Over(u)'
          BY <2>2, <4>1
        <5> QED BY <1>2, <4>0, <4>2, <5>1, <5>2
      <4> QED BY <4>3, <4>4
    <3> QED BY <1>2, <2>4, <3>1, <3>2 DEF ToldAgree
  <2> QED BY <2>3, <2>5
<1> QED BY <1>3, <1>4, <1>5, <1>6, <1>7, <1>8, <1>9 DEF DurableInv

-----------------------------------------------------------------------------
(* The mint. *)

\* What the first call of mint finds, and what it changes: pairing u of device
\* code d begins with its window, and with its alarm unless the object dies in
\* between.
Mints(r, d, u) ==
    /\ ~Known(u) /\ u \notin DOMAIN minted
    /\ \A v \in DOMAIN minted : minted[v].device # d
    /\ objects[d] = Wiped /\ handed[d] = <<>>
    /\ DOMAIN minted' = DOMAIN minted \cup {u}
    /\ minted'[u].device = d /\ minted'[u].expires = now + TTL
    /\ \A v \in DOMAIN minted : minted'[v] = minted[v]
    /\ objects' \in [DeviceCodes -> Object]
    /\ \A e \in DeviceCodes : e # d => objects'[e] = objects[e]
    /\ objects'[d].expires = now + TTL /\ objects'[d].token = None
    /\ \/ objects'[d].alarm = now + TTL
       \/ objects'[d].alarm = None /\ UNCHANGED reqs
    /\ UNCHANGED reqs \/ Goto(r, Handling("point", u, d, None))
    /\ UNCHANGED <<now, pointers, consents, redeemed, shown, handed, told>>

LEMMA MintFacts ==
    ASSUME DurableInv, NEW r \in Slots, NEW d \in DeviceCodes, NEW u \in UserCodes,
           MintInit(r, d, u)
    PROVE  Mints(r, d, u)
<1>1. u \notin DOMAIN minted /\ \A v \in DOMAIN minted : minted[v].device # d
  BY DEF MintInit
<1>2. ~Known(u)
  BY <1>1, BusyHandler
  DEF Known, DurableInv, PointersAgree, ConsentsForMinted
<1>3. objects[d] = Wiped
  BY <1>1 DEF DurableInv, ObjectsAgree
<1>4. handed[d] = <<>>
  BY <1>1 DEF DurableInv, HandedAgree, BelongsTo
<1>5. /\ DOMAIN minted' = DOMAIN minted \cup {u}
      /\ minted'[u] = [device |-> d, expires |-> now + TTL]
      /\ \A v \in DOMAIN minted : minted'[v] = minted[v]
  BY <1>1 DEF MintInit, Put
<1>6. PICK a \in {now + TTL, None} :
         /\ objects' = [objects EXCEPT ![d] = Holding(now + TTL, None, a)]
         /\ a = None => UNCHANGED reqs
  BY DurableAssumption, Parts DEF MintInit, AlarmDue, SetObject, DurableInv
<1>7. Holding(now + TTL, None, a) \in Object
  BY <1>6, Parts DEF Holding, Object, OrNone, DurableInv
<1>8. objects \in [DeviceCodes -> Object]
  BY DEF DurableInv, DurableTypeOK
<1>9. objects' \in [DeviceCodes -> Object]
  BY <1>6, <1>7, <1>8
<1>10. /\ objects'[d] = Holding(now + TTL, None, a)
       /\ \A e \in DeviceCodes : e # d => objects'[e] = objects[e]
  BY <1>6, <1>8
<1>11. /\ objects'[d].expires = now + TTL /\ objects'[d].token = None
       /\ objects'[d].alarm = a
  BY <1>10 DEF Holding
<1>12. /\ UNCHANGED reqs \/ Goto(r, Handling("point", u, d, None))
       /\ UNCHANGED <<now, pointers, consents, redeemed, shown, handed, told>>
  BY DEF MintInit, notionVars
<1> QED BY <1>1, <1>2, <1>3, <1>4, <1>5, <1>6, <1>9, <1>10, <1>11, <1>12 DEF Mints

LEMMA MintInitInv ==
    ASSUME DurableInv, [DurableNext]_durableVars, NEW r \in Slots,
           NEW d \in DeviceCodes, NEW u \in UserCodes, MintInit(r, d, u)
    PROVE  DurableInv'
<1> USE DEF DurableInv, Mints
<1>0. Mints(r, d, u)
  BY MintFacts
<1>1. now \in Nat /\ TTL \in Nat /\ now + TTL \in Nat /\ None \notin Nat
  BY Parts, DurableAssumption
<1>2. /\ reqs' \in [Slots -> Handler] /\ HandlersAgree'
      /\ \A s \in Slots : reqs'[s] = reqs[s] \/ (reqs'[s].pc = "point" /\ reqs'[s].user = u)
  <2>1. CASE UNCHANGED reqs
    BY <2>1, HandlersStay
  <2>2. CASE Goto(r, Handling("point", u, d, None))
    <3>1. PICK h \in Handler : /\ h = Handling("point", u, d, None)
                               /\ h.pc = "point" /\ h.user = u /\ h.device = d
      BY AHandler DEF OrNone
    <3>2. HandlerAgrees(h)'
      BY <3>1, <1>0 DEF HandlerAgrees, Carrying, WithToken
    <3>3. reqs' \in [Slots -> Handler] /\ HandlersAgree'
      BY <2>2, <3>1, <3>2, HandlerMoves
    <3>4. reqs'[r] = h /\ \A s \in Slots : s # r => reqs'[s] = reqs[s]
      BY <2>2, <3>1 DEF Goto, DurableTypeOK
    <3> QED BY <3>1, <3>3, <3>4
  <2> QED BY <2>1, <2>2, <1>0
<1>3. DurableTypeOK'
  <2>1. IsMap(minted, UserCodes, Birth)'
    <3>1. minted' = Put(minted, u, [device |-> d, expires |-> now + TTL])
      BY DEF MintInit
    <3>2. [device |-> d, expires |-> now + TTL] \in Birth
      BY <1>1 DEF Birth
    <3> QED BY <3>1, <3>2 DEF DurableTypeOK, IsMap, Put
  <2> QED BY <1>2, <2>1, <1>0, HistoryGrows DEF DurableTypeOK
<1>4. MintedInPairs' /\ ConsentsForMinted'
  BY <1>1, <1>0 DEF MintedInPairs, ConsentsForMinted
<1>5. \A v \in DOMAIN minted : Over(v) => Over(v)'
  BY HistoryGrows
<1>6. PointersAgree'
  <2>1. shown \subseteq DOMAIN minted
    BY DEF DurableTypeOK
  <2> QED BY <1>5, <2>1, <1>0 DEF PointersAgree
<1>7. \A g \in Grants, e \in DeviceCodes : BelongsTo(g, e) => BelongsTo(g, e)'
  BY HistoryGrows
<1>8. ObjectsAgree'
  <2>1. ASSUME NEW v \in DOMAIN minted' PROVE ObjectAgrees(v, objects[minted[v].device])'
    <3>1. CASE v = u
      BY <1>1, <3>1, <1>0 DEF ObjectAgrees
    <3>2. CASE v # u
      BY <3>2, <1>0, Parts DEF ObjectsAgree, ObjectAgrees
    <3> QED BY <3>1, <3>2
  <2>2. \A e \in DeviceCodes :
           objects'[e] # Wiped => \E v \in DOMAIN minted' : minted'[v].device = e
    BY <1>0 DEF ObjectsAgree
  <2>3. ASSUME NEW e \in DeviceCodes, objects'[e].token # None
        PROVE  BelongsTo(objects[e].token, e)'
    <3>1. objects'[e] = objects[e] /\ objects[e].token \in Grants
      BY <2>3, <1>0, Parts DEF Object, OrNone
    <3>2. BelongsTo(objects[e].token, e)
      BY <2>3, <3>1 DEF ObjectsAgree
    <3> QED BY <3>1, <3>2, <1>0, HistoryGrows DEF BelongsTo
  <2>4. Wiped' = Wiped
    BY DEF Wiped, Holding
  <2> QED BY <2>1, <2>2, <2>3, <2>4 DEF ObjectsAgree
<1>9. AlarmlessIsUnknown'
  <2>1. ASSUME NEW v \in DOMAIN minted, Known(v)' PROVE Known(v)
    <3>1. v # u
      BY <1>0
    <3> QED BY <1>2, <2>1, <3>1, <1>0 DEF Known
  <2>2. ASSUME UNCHANGED reqs PROVE ~Known(u)'
    BY <2>2, <1>0 DEF Known
  <2>3. Alarmless(objects'[d]) => UNCHANGED reqs
    BY <1>1, <1>0 DEF Alarmless
  <2>4. ASSUME NEW v \in DOMAIN minted', Alarmless(objects[minted[v].device])'
        PROVE  ~Known(v)'
    <3>1. CASE v = u
      BY <2>2, <2>3, <2>4, <3>1, <1>0 DEF Alarmless
    <3>2. CASE v # u
      <4>1. /\ v \in DOMAIN minted /\ minted'[v] = minted[v]
            /\ objects'[minted[v].device] = objects[minted[v].device]
        BY <3>2, <1>0, Parts
      <4>2. Alarmless(objects[minted[v].device])
        BY <2>4, <4>1 DEF Alarmless
      <4> QED BY <2>1, <4>1, <4>2 DEF AlarmlessIsUnknown
    <3> QED BY <3>1, <3>2
  <2> QED BY <2>4 DEF AlarmlessIsUnknown
<1>10. HandedAgree'
  BY <1>7, <1>0 DEF HandedAgree
<1>11. TokensInOnePlace'
  <2>1. \A s \in Slots : reqs'[s].pc \in WithToken => reqs'[s] = reqs[s]
    BY <1>2 DEF WithToken
  <2>2. ASSUME NEW s \in Slots, reqs[s].pc \in WithToken PROVE reqs[s].grant # None
    BY <2>2, BusyHandler, PairingsAssumption DEF WithToken, Carrying
  <2> QED BY <2>1, <2>2, <1>0 DEF TokensInOnePlace
<1>12. crashes' \in Nat /\ crashes \in Nat /\ crashes <= crashes'
  BY HistoryGrows DEF DurableTypeOK
<1>13. OpenUntilOver'
  <2>1. ASSUME NEW v \in DOMAIN minted'
        PROVE  Over(v)' \/ crashes' > 0 \/ handed'[minted'[v].device] # <<>>
                  \/ objects'[minted'[v].device].expires # None
    <3>1. CASE v = u
      BY <1>1, <3>1, <1>0
    <3>2. CASE v # u
      BY <1>5, <1>12, <3>2, <1>0, Parts DEF OpenUntilOver
    <3> QED BY <3>1, <3>2
  <2> QED BY <2>1 DEF OpenUntilOver
<1>14. ToldAgree'
  <2>1. \A g \in told : g \in DOMAIN consents /\ consents[g] \in DOMAIN minted
    BY DEF ToldAgree, ConsentsForMinted
  <2> QED BY <1>5, <1>12, <2>1, <1>0, Parts DEF ToldAgree
<1> QED BY <1>2, <1>3, <1>4, <1>6, <1>8, <1>9, <1>10, <1>11, <1>13, <1>14

\* The second call of mint: the QR is shown, and its pointer outlives the window.
LEMMA MintPointInv ==
    ASSUME DurableInv, [DurableNext]_durableVars, NEW r \in Slots, MintPoint(r)
    PROVE  DurableInv'
<1> USE DEF DurableInv
<1>1. PICK u \in UserCodes : u = reqs[r].user
  BY BusyHandler DEF MintPoint, At
<1>2. /\ u \in DOMAIN minted /\ reqs[r].device = minted[u].device /\ Known(u)
      /\ reqs[r].device \in DeviceCodes
  BY <1>1, BusyHandler DEF MintPoint, At
<1>3. /\ pointers' = Put(pointers, u, Points(reqs[r].device))
      /\ shown' = shown \cup {u} /\ Goto(r, Idle)
      /\ UNCHANGED <<now, objects, consents, redeemed, minted, handed, told, crashes>>
  BY <1>1 DEF MintPoint, notionVars
<1>4. Fading
  BY <1>3 DEF Fading
<1>5. /\ DOMAIN pointers' = DOMAIN pointers \cup {u}
      /\ pointers'[u].device = minted[u].device /\ pointers'[u].expires = now + TTL
      /\ \A v \in DOMAIN pointers : v # u => pointers'[v] = pointers[v]
  BY <1>2, <1>3 DEF Put, Points
<1>6. /\ reqs' \in [Slots -> Handler] /\ HandlersAgree' /\ TokensInOnePlace'
      /\ \A s \in Slots : reqs'[s].pc # "idle" => Known(reqs'[s].user)
  BY <1>3, <1>4, HandlerEnds
<1>7. DurableTypeOK'
  <2>1. IsMap(pointers, UserCodes, Pointer)'
    <3>1. Points(reqs[r].device) \in Pointer
      BY <1>2, Parts DEF Points, Pointer
    <3> QED BY <1>3, <3>1 DEF DurableTypeOK, IsMap, Put
  <2> QED BY <1>2, <1>3, <1>6, <2>1 DEF DurableTypeOK
<1>8. MintedInPairs' /\ ConsentsForMinted'
  BY <1>3 DEF MintedInPairs, ConsentsForMinted
<1>9. PointersAgree'
  <2>1. \A v \in DOMAIN pointers' : pointers'[v].expires >= minted[v].expires
    BY <1>2, <1>5, Parts DEF PointersAgree, MintedInPairs
  <2> QED BY <1>2, <1>3, <1>5, <2>1 DEF PointersAgree, Over
<1>10. ObjectsAgree' /\ HandedAgree' /\ OpenUntilOver' /\ ToldAgree'
  BY <1>3, <1>4, FadingKeepsObjects
<1>11. AlarmlessIsUnknown'
  <2>1. \A v \in DOMAIN minted : Known(v)' => Known(v)
    BY <1>2, <1>3, <1>5, <1>6 DEF Known
  <2> QED BY <1>3, <1>4, <2>1, NothingIsLearnt
<1> QED BY <1>6, <1>7, <1>8, <1>9, <1>10, <1>11

-----------------------------------------------------------------------------
(* The second half of complete. *)

\* put() writes the token into whatever is left of the object.
Completes(r, d, g) ==
    /\ reqs[r].pc = "put" /\ reqs[r].grant = g /\ reqs[r].device = d
    /\ BelongsTo(g, d) /\ g # None
    /\ reqs[r].user \in DOMAIN minted /\ minted[reqs[r].user].device = d
    /\ consents[g] = reqs[r].user
    /\ objects' \in [DeviceCodes -> Object]
    /\ objects'[d].token = g /\ objects'[d].expires = objects[d].expires
    /\ objects'[d].alarm = objects[d].alarm
    /\ \A e \in DeviceCodes : e # d => objects'[e] = objects[e]
    /\ told' \subseteq told \cup {g}
    /\ reqs' \in [Slots -> Handler] /\ HandlersAgree'
    /\ reqs'[r].pc = "idle" /\ \A s \in Slots : s # r => reqs'[s] = reqs[s]
    /\ UNCHANGED <<now, pointers, consents, redeemed, minted, shown, handed, crashes>>

LEMMA CompleteFacts ==
    ASSUME DurableInv, [DurableNext]_durableVars, NEW r \in Slots, CompletePut(r)
    PROVE  \E d \in DeviceCodes, g \in Grants : Completes(r, d, g)
<1> USE DEF DurableInv
<1>1. reqs[r].pc = "put"
  BY DEF CompletePut, At
<1>2. PICK d \in DeviceCodes, g \in Grants : d = reqs[r].device /\ g = reqs[r].grant
  BY <1>1, BusyHandler DEF Carrying
<1>3. /\ BelongsTo(g, d) /\ reqs[r].user \in DOMAIN minted /\ minted[reqs[r].user].device = d
      /\ consents[g] = reqs[r].user
  BY <1>1, <1>2, BusyHandler DEF Carrying, WithToken, BelongsTo
<1>4. /\ objects' = [objects EXCEPT ![d] = Holding(objects[d].expires, g, objects[d].alarm)]
      /\ told' \subseteq told \cup {g} /\ Goto(r, Idle)
      /\ UNCHANGED <<now, pointers, consents, redeemed, minted, shown, handed, crashes>>
  BY <1>2 DEF CompletePut, SetObject, notionVars
<1>5. /\ objects \in [DeviceCodes -> Object]
      /\ Holding(objects[d].expires, g, objects[d].alarm) \in Object
  BY Parts DEF DurableTypeOK, Holding, Object, OrNone
<1>6. /\ objects' \in [DeviceCodes -> Object]
      /\ \A e \in DeviceCodes : e # d => objects'[e] = objects[e]
      /\ objects'[d] = Holding(objects[d].expires, g, objects[d].alarm)
  BY <1>4, <1>5
<1>7. /\ objects'[d].token = g /\ objects'[d].expires = objects[d].expires
      /\ objects'[d].alarm = objects[d].alarm
  BY <1>6 DEF Holding
<1>8. reqs' \in [Slots -> Handler] /\ HandlersAgree'
  BY <1>4, HandlerMoves, IdleIsAHandler
<1>9. reqs'[r].pc = "idle" /\ \A s \in Slots : s # r => reqs'[s] = reqs[s]
  BY <1>4 DEF Goto, DurableTypeOK, Idle, Handling
<1>10. g # None
  BY PairingsAssumption
<1> QED BY <1>1, <1>2, <1>3, <1>4, <1>6, <1>7, <1>8, <1>9, <1>10 DEF Completes

LEMMA CompletePutInv ==
    ASSUME DurableInv, [DurableNext]_durableVars, NEW r \in Slots, CompletePut(r)
    PROVE  DurableInv'
<1> USE DEF DurableInv
<1>1. PICK d \in DeviceCodes, g \in Grants : Completes(r, d, g)
  BY CompleteFacts
<1> USE <1>1 DEF Completes
<1>2. DurableTypeOK'
  BY DEF DurableTypeOK
<1>3. MintedInPairs' /\ ConsentsForMinted' /\ PointersAgree'
  BY DEF MintedInPairs, ConsentsForMinted, PointersAgree, Over
<1>4. \A h \in Grants, e \in DeviceCodes : BelongsTo(h, e) => BelongsTo(h, e)'
  BY DEF BelongsTo
<1>5. ObjectsAgree'
  <2>1. ASSUME NEW v \in DOMAIN minted PROVE ObjectAgrees(v, objects[minted[v].device])'
    <3>1. ObjectAgrees(v, objects[minted[v].device]) /\ minted[v].device \in DeviceCodes
      BY Parts DEF ObjectsAgree
    <3> QED BY <3>1 DEF ObjectAgrees
  <2>2. \A e \in DeviceCodes : objects'[e] # Wiped => \E v \in DOMAIN minted : minted[v].device = e
    BY DEF ObjectsAgree
  <2>3. ASSUME NEW e \in DeviceCodes, objects'[e].token # None
        PROVE  BelongsTo(objects[e].token, e)'
    BY <2>3 DEF ObjectsAgree, BelongsTo
  <2>4. Wiped' = Wiped
    BY DEF Wiped, Holding
  <2> QED BY <2>1, <2>2, <2>3, <2>4 DEF ObjectsAgree
<1>6. AlarmlessIsUnknown'
  <2>1. \A v \in UserCodes : Known(v)' => Known(v)
    BY DEF Known
  <2>2. \A e \in DeviceCodes : Alarmless(objects'[e]) => Alarmless(objects[e])
    BY DEF Alarmless
  <2> QED BY <2>1, <2>2, Parts DEF AlarmlessIsUnknown, Alarmless
<1>7. HandedAgree'
  BY <1>4 DEF HandedAgree
<1>8. TokensInOnePlace'
  <2>1. \A s \in Slots : reqs'[s].pc \in WithToken => s # r /\ reqs'[s] = reqs[s]
    BY DEF WithToken
  <2>2. reqs[r].pc \in WithToken
    BY DEF WithToken
  <2>3. /\ \A s \in Slots : reqs'[s].pc \in WithToken => reqs[s].grant # g
        /\ handed[d] # <<g>>
    BY <2>1, <2>2 DEF TokensInOnePlace
  <2> QED BY <2>1, <2>3 DEF TokensInOnePlace
<1>9. \A v \in DOMAIN minted : Over(v) => Over(v)'
  BY DEF Over
<1>10. OpenUntilOver'
  <2>1. \A e \in DeviceCodes : objects'[e].expires = objects[e].expires
    OBVIOUS
  <2> QED BY <1>9, <2>1, Parts DEF OpenUntilOver
<1>11. ToldAgree'
  <2>1. ASSUME NEW h \in told'
        PROVE  /\ h \in DOMAIN consents
               /\ \/ Over(consents[h])' \/ crashes > 0 \/ handed[minted[consents[h]].device] # <<>>
                  \/ objects'[minted[consents[h]].device].token # None
    <3>1. CASE h = g
      BY <3>1 DEF BelongsTo
    <3>2. CASE h # g
      <4>1. h \in told /\ h \in DOMAIN consents /\ consents[h] \in DOMAIN minted
        BY <3>2 DEF ToldAgree, ConsentsForMinted
      <4>2. \A e \in DeviceCodes : objects[e].token # None => objects'[e].token # None
        OBVIOUS
      <4> QED BY <1>9, <4>1, <4>2, Parts DEF ToldAgree
    <3> QED BY <3>1, <3>2
  <2> QED BY <2>1 DEF ToldAgree
<1> QED BY <1>2, <1>3, <1>5, <1>6, <1>7, <1>8, <1>10, <1>11

-----------------------------------------------------------------------------
(* The invariant, and what it implies. *)

LEMMA DurableStepInv == DurableInv /\ [DurableNext]_durableVars => DurableInv'
<1> SUFFICES ASSUME DurableInv, [DurableNext]_durableVars PROVE DurableInv'
  OBVIOUS
<1>1. ASSUME NEW r \in Slots, Handle(r) PROVE DurableInv'
  BY <1>1, MintInitInv, MintPointInv, ResolveInv, GoCheckInv, CallbackInv, ExchangeInv,
     CompletePutInv, PlatformInv DEF Handle
<1>2. ASSUME NEW d \in DeviceCodes, Claim(d) PROVE DurableInv'
  BY <1>2, ClaimCases, HandoffInv, IdleClaimInv
<1>3. CASE (\E d \in DeviceCodes : PairingAlarm(d)) \/ (\E u \in UserCodes : PointerAlarm(u))
           \/ TimePasses \/ UNCHANGED durableVars
  BY <1>3, PlatformInv
<1> QED BY <1>1, <1>2, <1>3 DEF DurableNext

\* Whatever the handlers, the alarms and the deaths of objects do, every code,
\* object and token is where the pairing it belongs to says.
THEOREM DurableCorrect == DurableSpec => []DurableInv
BY DurableInitInv, DurableStepInv, PTL DEF DurableSpec

\* TokenGoesToItsDevice: a token only goes to the device whose QR was scanned.
THEOREM TokensGoToTheirDevice == DurableSpec => []TokenGoesToItsDevice
<1>1. DurableInv => TokenGoesToItsDevice
  <2> SUFFICES ASSUME DurableInv, NEW d \in DeviceCodes, NEW i \in DOMAIN handed[d]
               PROVE  BelongsTo(handed[d][i], d)
    BY DEF TokenGoesToItsDevice, BelongsTo
  <2>1. CASE handed[d] = <<>>
    BY <2>1
  <2>2. ASSUME NEW g \in Grants, handed[d] = <<g>>, BelongsTo(g, d)
        PROVE  BelongsTo(handed[d][i], d)
    <3>1. i = 1 /\ <<g>>[1] = g
      BY <2>2
    <3> QED BY <2>2, <3>1
  <2> QED BY <2>1, <2>2 DEF DurableInv, HandedAgree
<1> QED BY <1>1, DurableCorrect, PTL

\* ConnectedHasToken: until the window is at its end, who saw "Connected" has a
\* device with a token, unless an object died in a claim.
THEOREM ConnectedMeansToken == DurableSpec => []ConnectedHasToken
<1>1. DurableInv => ConnectedHasToken
  <2> SUFFICES ASSUME DurableInv, NEW g \in told,
                      ~Over(consents[g]), ~(crashes > 0), handed[minted[consents[g]].device] = <<>>
               PROVE  LET o == objects[minted[consents[g]].device]
                      IN  InWindow(o) /\ o.token # None
    BY DEF ConnectedHasToken
  <2> DEFINE u == consents[g]
             o == objects[minted[u].device]
  <2>1. g \in DOMAIN consents /\ u \in DOMAIN minted /\ o.token # None
    BY DEF DurableInv, ToldAgree, ConsentsForMinted
  <2>2. o.expires # None
    BY <2>1 DEF DurableInv, OpenUntilOver
  <2>3. o.expires = minted[u].expires
    BY <2>1, <2>2 DEF DurableInv, ObjectsAgree, ObjectAgrees
  <2>4. now <= minted[u].expires
    BY <2>1, Parts DEF Over, DurableInv
  <2> QED BY <2>1, <2>2, <2>3, <2>4 DEF InWindow
<1> QED BY <1>1, DurableCorrect, PTL

\* QRLeadsToPairing: a QR that is shown leads to its pairing until the end of
\* the window.
THEOREM QRsLeadToTheirPairing == DurableSpec => []QRLeadsToPairing
<1>1. DurableInv => QRLeadsToPairing
  <2> SUFFICES ASSUME DurableInv, NEW u \in shown, ~Over(u)
               PROVE  Resolved(u) = minted[u].device
    BY DEF QRLeadsToPairing
  <2>1. u \in DOMAIN minted /\ u \in DOMAIN pointers
    BY DEF DurableInv, DurableTypeOK, PointersAgree
  <2>2. now <= pointers[u].expires /\ pointers[u].device = minted[u].device
    BY <2>1, Parts DEF Over, DurableInv, PointersAgree
  <2> QED BY <2>1, <2>2 DEF Resolved
<1> QED BY <1>1, DurableCorrect, PTL

\* LeftTokenIsUnreachable: a token that no alarm will wipe has no window either.
THEOREM LeftTokensAreUnreachable == DurableSpec => []LeftTokenIsUnreachable
<1>1. DurableInv => LeftTokenIsUnreachable
  <2> SUFFICES ASSUME DurableInv, NEW d \in DeviceCodes, objects[d].token # None,
                      Alarmless(objects[d])
               PROVE  FALSE
    BY DEF LeftTokenIsUnreachable, Alarmless
  <2> DEFINE u == consents[objects[d].token]
  <2>1. BelongsTo(objects[d].token, d)
    BY DEF DurableInv, ObjectsAgree
  <2>2. u \in DOMAIN minted /\ minted[u].device = d /\ Known(u)
    BY <2>1 DEF BelongsTo, Known
  <2> QED BY <2>2 DEF DurableInv, AlarmlessIsUnknown
<1> QED BY <1>1, DurableCorrect, PTL

-----------------------------------------------------------------------------
(* The refinement of PairingContract. *)

\* Whatever a step is, it mints one pairing, hands one token over, completes one
\* pairing, or only lets objects fade.
LEMMA DurableStepCases ==
    ASSUME DurableInv, [DurableNext]_durableVars
    PROVE  \/ \E r \in Slots, d \in DeviceCodes, u \in UserCodes : Mints(r, d, u)
           \/ \E d \in DeviceCodes : Handoff(d)
           \/ \E r \in Slots, d \in DeviceCodes, g \in Grants : Completes(r, d, g)
           \/ Fading /\ UNCHANGED <<minted, handed>>
<1> USE DEF historyVars
<1>1. ASSUME NEW r \in Slots, GoCheck(r) \/ CallbackCheck(r) \/ CompleteCheck(r)
      PROVE  Fading /\ UNCHANGED <<minted, handed>>
  <2>1. /\ SetObject(reqs[r].device, Checked(objects[reqs[r].device]))
        /\ UNCHANGED <<minted, handed>> /\ reqs[r].pc # "idle"
    BY <1>1 DEF GoCheck, CallbackCheck, CompleteCheck, At
  <2> QED BY <2>1, BusyHandler, CheckedFades
<1>2. ASSUME NEW r \in Slots,
             \/ MintPoint(r) \/ Exchange(r) \/ Vanish(r)
             \/ \E u \in UserCodes : GoResolve(r, u)
             \/ \E g \in Grants : CallbackResolve(r, g)
      PROVE  Fading /\ UNCHANGED <<minted, handed>>
  BY <1>2 DEF MintPoint, Exchange, Vanish, GoResolve, CallbackResolve, Fading, objectVars
<1>3. ASSUME NEW d \in DeviceCodes, Claim(d)
      PROVE  Handoff(d) \/ (Fading /\ UNCHANGED <<minted, handed>>)
  BY <1>3, ClaimCases, IdleClaimFades DEF Claim
<1>4. ASSUME NEW d \in DeviceCodes, PairingAlarm(d) PROVE Fading /\ UNCHANGED <<minted, handed>>
  BY <1>4, AlarmFades DEF PairingAlarm
<1>5. CASE (\E u \in UserCodes : PointerAlarm(u)) \/ TimePasses \/ UNCHANGED durableVars
  BY <1>5 DEF PointerAlarm, TimePasses, durableVars, objectVars, Fading
<1>6. ASSUME NEW r \in Slots, NEW d \in DeviceCodes, NEW u \in UserCodes, MintInit(r, d, u)
      PROVE  Mints(r, d, u)
  BY <1>6, MintFacts
<1>7. ASSUME NEW r \in Slots, CompletePut(r)
      PROVE  \E d \in DeviceCodes, g \in Grants : Completes(r, d, g)
  BY <1>7, CompleteFacts
<1> QED BY <1>1, <1>2, <1>3, <1>4, <1>5, <1>6, <1>7 DEF DurableNext, Handle

\* What callers see of device code d depends on its object, its answer and on
\* whether it was minted.
IsMinted(d) == \E u \in DOMAIN minted : minted[u].device = d

LEMMA SamePhase ==
    ASSUME NEW d \in DeviceCodes, handed'[d] = handed[d], IsMinted(d)' <=> IsMinted(d),
           \/ InWindow(objects[d]) /\ InWindow(objects[d])' /\ objects'[d].token = objects[d].token
           \/ ~InWindow(objects[d]) /\ ~InWindow(objects[d])'
    PROVE  PhaseOf(d)' = PhaseOf(d) /\ HeldFor(d)' = HeldFor(d)
BY DEF PhaseOf, HeldFor, IsMinted

\* mint.
LEMMA MintRefines ==
    ASSUME DurableInv, NEW r \in Slots, NEW d \in DeviceCodes, NEW u \in UserCodes, Mints(r, d, u)
    PROVE  Contract!ContractMint(d)
<1> USE DEF Mints
<1>0. UNCHANGED handed
  OBVIOUS
<1>1. ~InWindow(objects[d]) /\ ~IsMinted(d) /\ handed[d] = <<>>
  BY DEF InWindow, Wiped, Holding, IsMinted
<1>2. PhaseOf(d) = "unused" /\ HeldFor(d) = None
  BY <1>1 DEF PhaseOf, HeldFor, IsMinted
<1>3. InWindow(objects[d])' /\ objects'[d].token = None
  BY DurableAssumption, Parts DEF InWindow, DurableInv
<1>4. PhaseOf(d)' = "pending" /\ HeldFor(d)' = None
  BY <1>1, <1>3 DEF PhaseOf, HeldFor
<1>5. ASSUME NEW e \in DeviceCodes, e # d PROVE PhaseOf(e)' = PhaseOf(e) /\ HeldFor(e)' = HeldFor(e)
  <2>1. IsMinted(e)' <=> IsMinted(e)
    BY <1>5 DEF IsMinted
  <2>2. objects'[e] = objects[e] /\ (InWindow(objects[e])' <=> InWindow(objects[e]))
    BY <1>5 DEF InWindow
  <2> QED BY <1>5, <2>1, <2>2, SamePhase
<1> HIDE DEF Mints
<1> QED BY <1>0, <1>2, <1>4, <1>5 DEF Contract!ContractMint

\* claim.
LEMMA HandoffRefines ==
    ASSUME DurableInv, NEW d \in DeviceCodes, Handoff(d)
    PROVE  Contract!ContractClaim(d)
<1>1. PICK t \in Grants :
         /\ t = objects[d].token /\ t # None /\ BelongsTo(t, d)
         /\ handed[d] = <<>> /\ handed'[d] = <<t>> /\ objects'[d] = Wiped
         /\ \A e \in DeviceCodes : e # d => handed'[e] = handed[e] /\ objects'[e] = objects[e]
  BY HandoffFacts
<1>2. PhaseOf(d) = "ready" /\ HeldFor(d) = t
  BY <1>1 DEF PhaseOf, HeldFor, Handoff
<1>3. <<t>> # <<>>
  OBVIOUS
<1>4. PhaseOf(d)' = "handed" /\ HeldFor(d)' = None
  BY <1>1, <1>3 DEF PhaseOf, HeldFor
<1>5. ASSUME NEW e \in DeviceCodes, e # d PROVE PhaseOf(e)' = PhaseOf(e) /\ HeldFor(e)' = HeldFor(e)
  <2>1. IsMinted(e)' <=> IsMinted(e)
    BY DEF IsMinted, Handoff
  <2>2. objects'[e] = objects[e] /\ (InWindow(objects[e])' <=> InWindow(objects[e]))
    BY <1>1, <1>5 DEF InWindow, Handoff
  <2> QED BY <1>1, <1>5, <2>1, <2>2, SamePhase
<1>6. handed' = [handed EXCEPT ![d] = Append(@, HeldFor(d))]
  BY <1>1, <1>2 DEF Handoff
<1> QED BY <1>2, <1>4, <1>5, <1>6 DEF Contract!ContractClaim

\* complete, when its second half finds the window open.
LEMMA CompleteRefines ==
    ASSUME DurableInv, NEW r \in Slots, NEW d \in DeviceCodes, NEW g \in Grants, Completes(r, d, g),
           InWindow(objects[d])
    PROVE  Contract!ContractComplete(d, g)
<1> USE DEF Completes
<1>1. handed[d] = <<>>
  BY DEF InWindow, DurableInv, HandedAgree
<1>2. PhaseOf(d) \in {"pending", "ready"}
  BY <1>1 DEF PhaseOf
<1>3. PhaseOf(d)' = "ready" /\ HeldFor(d)' = g
  <2>1. InWindow(objects[d])' /\ objects'[d].token # None /\ handed'[d] = <<>>
    BY <1>1 DEF InWindow
  <2> QED BY <2>1 DEF PhaseOf, HeldFor
<1>4. ASSUME NEW e \in DeviceCodes, e # d PROVE PhaseOf(e)' = PhaseOf(e) /\ HeldFor(e)' = HeldFor(e)
  <2>1. IsMinted(e)' <=> IsMinted(e)
    BY DEF IsMinted
  <2>2. objects'[e] = objects[e] /\ (InWindow(objects[e])' <=> InWindow(objects[e]))
    BY <1>4 DEF InWindow
  <2> QED BY <1>4, <2>1, <2>2, SamePhase
<1>5. ASSUME NEW e \in DeviceCodes PROVE HeldFor(e) # g /\ handed[e] # <<g>>
  <2>1. objects[e].token # g /\ handed[e] # <<g>>
    BY DEF DurableInv, TokensInOnePlace, WithToken
  <2> QED BY <2>1 DEF HeldFor
<1> QED BY <1>2, <1>3, <1>4, <1>5 DEF Contract!ContractComplete

\* What does not touch an open window only closes windows: time, alarms, deaths,
\* and a completion that comes too late.
LEMMA ClosingRefines ==
    ASSUME DurableInv, UNCHANGED <<minted, handed>>,
           \A d \in DeviceCodes : InWindow(objects[d])' =>
              InWindow(objects[d]) /\ objects'[d].token = objects[d].token
    PROVE  Contract!ContractNext
<1> DEFINE S == {d \in DeviceCodes : PhaseOf(d) \in {"pending", "ready"} /\ ~InWindow(objects[d])'}
<1>1. ASSUME NEW d \in DeviceCodes
      PROVE  /\ d \in S => PhaseOf(d)' = "expired" /\ HeldFor(d)' = None
             /\ d \notin S => PhaseOf(d)' = PhaseOf(d) /\ HeldFor(d)' = HeldFor(d)
  <2>1. (IsMinted(d)' <=> IsMinted(d)) /\ handed'[d] = handed[d]
    BY DEF IsMinted
  <2>2. InWindow(objects[d]) => IsMinted(d)
    <3>1. InWindow(objects[d]) => objects[d] # Wiped
      BY DEF InWindow, Wiped, Holding
    <3> QED BY <3>1 DEF DurableInv, ObjectsAgree, IsMinted
  <2>3. CASE d \in S
    BY <2>1, <2>2, <2>3 DEF PhaseOf, HeldFor, IsMinted
  <2>4. CASE d \notin S
    <3>1. CASE handed[d] # <<>>
      BY <2>1, <3>1 DEF PhaseOf, HeldFor
    <3>2. CASE handed[d] = <<>>
      BY <2>1, <2>4, <3>2, SamePhase DEF PhaseOf
    <3> QED BY <3>1, <3>2
  <2> QED BY <2>3, <2>4
<1>2. Contract!ContractExpire(S)
  BY <1>1 DEF Contract!ContractExpire
<1> QED BY <1>2 DEF Contract!ContractNext

LEMMA DurableStepRefines ==
    DurableInv /\ [DurableNext]_durableVars => [Contract!ContractNext]_(Contract!contractVars)
<1> SUFFICES ASSUME DurableInv, [DurableNext]_durableVars PROVE Contract!ContractNext
  OBVIOUS
<1>1. ASSUME NEW r \in Slots, NEW d \in DeviceCodes, NEW u \in UserCodes, Mints(r, d, u)
      PROVE  Contract!ContractNext
  BY <1>1, MintRefines DEF Contract!ContractNext
<1>2. ASSUME NEW d \in DeviceCodes, Handoff(d) PROVE Contract!ContractNext
  BY <1>2, HandoffRefines DEF Contract!ContractNext
<1>3. ASSUME NEW r \in Slots, NEW d \in DeviceCodes, NEW g \in Grants, Completes(r, d, g)
      PROVE  Contract!ContractNext
  <2>1. CASE InWindow(objects[d])
    BY <1>3, <2>1, CompleteRefines DEF Contract!ContractNext
  <2>2. CASE ~InWindow(objects[d])
    BY <1>3, <2>2, ClosingRefines DEF Completes, InWindow
  <2> QED BY <2>1, <2>2
<1>4. CASE Fading /\ UNCHANGED <<minted, handed>>
  <2>1. ASSUME NEW d \in DeviceCodes, InWindow(objects[d])'
        PROVE  InWindow(objects[d]) /\ objects'[d].token = objects[d].token
    <3>1. objects'[d] = objects[d]
      BY <1>4, <2>1, FadingObjects DEF Faded, InWindow
    <3>2. objects[d].expires \in Nat /\ now <= now' /\ now \in Nat /\ now' \in Nat
      BY <2>1, <3>1, HistoryGrows, Parts DEF InWindow, Object, OrNone, DurableInv
    <3> QED BY <2>1, <3>1, <3>2 DEF InWindow
  <2> QED BY <1>4, <2>1, ClosingRefines
<1> QED BY <1>1, <1>2, <1>3, <1>4, DurableStepCases

\* DurableImplementsContract: the objects, with their two-step complete, their
\* alarms and their deaths, keep the contract that store-memory.js writes down.
THEOREM DurableKeepsContract == DurableSpec => DurableImplementsContract
<1>1. DurableInit => Contract!ContractInit
  <2> SUFFICES ASSUME DurableInit PROVE Contract!ContractInit
    OBVIOUS
  <2>1. \A d \in DeviceCodes : PhaseOf(d) = "unused" /\ HeldFor(d) = None
    BY DEF DurableInit, PhaseOf, HeldFor, InWindow, Wiped, Holding, EmptyMap
  <2> QED BY <2>1 DEF Contract!ContractInit, DurableInit
<1> QED BY <1>1, DurableCorrect, DurableStepRefines, PTL
        DEF DurableSpec, DurableImplementsContract, Contract!ContractSpec

\* No poll is handed a second token, and no token goes to two device codes
\* (PairingContract), whatever alarms and deaths do to the objects.
THEOREM DurableAtMostOnce == DurableSpec => []Contract!AtMostOnce
<1>1. DurableInv => Contract!AtMostOnce
  <2> SUFFICES ASSUME DurableInv PROVE Contract!AtMostOnce
    OBVIOUS
  <2>1. ASSUME NEW d \in DeviceCodes PROVE Len(handed[d]) <= 1
    <3>1. CASE handed[d] = <<>>
      BY <3>1
    <3>2. ASSUME NEW g \in Grants, handed[d] = <<g>> PROVE Len(handed[d]) <= 1
      BY <3>2
    <3> QED BY <3>1, <3>2 DEF DurableInv, HandedAgree
  <2>2. ASSUME NEW d \in DeviceCodes, NEW e \in DeviceCodes, d # e, handed[d] # <<>>,
               handed[d] = handed[e]
        PROVE  FALSE
    <3>1. PICK g \in Grants : handed[d] = <<g>> /\ BelongsTo(g, d)
      BY <2>2 DEF DurableInv, HandedAgree
    <3>2. PICK h \in Grants : handed[e] = <<h>> /\ BelongsTo(h, e)
      BY <2>2 DEF DurableInv, HandedAgree
    <3>3. <<g>>[1] = g /\ <<h>>[1] = h
      OBVIOUS
    <3>4. g = h
      BY <2>2, <3>1, <3>2, <3>3
    <3> QED BY <2>2, <3>1, <3>2, <3>4 DEF BelongsTo
  <2> QED BY <2>1, <2>2 DEF Contract!AtMostOnce
<1> QED BY <1>1, DurableCorrect, PTL

=============================================================================
