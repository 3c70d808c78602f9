--------------------------- MODULE PairingBroker ----------------------------
(***************************************************************************)
(* The pairing broker: the HTTP handlers of server/src/broker.js over the  *)
(* in-memory store of server/src/store-memory.js.                          *)
(*                                                                         *)
(* A handler runs without interruption from one `await` to the next, so it *)
(* is modelled as one action per stretch between awaits; time may pass and *)
(* other requests may run in between.  reqs[r] is the local state of the   *)
(* handler in slot r.  GET /pair/{code} awaits a single store call and is  *)
(* one action.                                                             *)
(*                                                                         *)
(* Codes are random strings long enough that mint() draws an unused one.   *)
(* A Grant is one consent at Notion: the authorization code Notion sends   *)
(* back and the token it is exchanged for.                                 *)
(***************************************************************************)
EXTENDS MintLimiter, Pairings, Sequences, FiniteSets

CONSTANTS
    UserCodes,    \* what the QR codes carry
    Slots,        \* requests the process can have in flight
    TTL,          \* TTL_MS
    MaxRestarts,  \* bound on the restarts of the process
    Configured    \* are the Notion OAuth credentials set?

ASSUME BrokerAssumption ==
    /\ TTL \in Nat /\ MaxRestarts \in Nat /\ Configured \in BOOLEAN
    /\ None \notin DeviceCodes \cup UserCodes \cup Grants

VARIABLES
    pairings,     \* this.pairings: device code -> {expires, userCode, token}
    users,        \* this.users: user code -> {expires, device}
    reqs,         \* the handlers in flight
    consents,     \* Notion and the phones: grant -> the state it carries
    redirected,   \* user codes whose phone was sent to Notion
    redeemed,     \* grants whose code Notion has exchanged
    minted,       \* history: user code -> {device, expires, epoch}
    handed,       \* history: tokens answered to pollers of a device code
    told,         \* history: grants whose phone saw the page "Connected"
    restarts      \* how often the process was restarted

storeVars == <<pairings, users>>
notionVars == <<consents, redirected, redeemed>>
historyVars == <<minted, handed, told, restarts>>
brokerVars == <<limiterVars, storeVars, reqs, notionVars, historyVars>>

Pairing == [expires : Nat, userCode : UserCodes, token : Grants \cup {None}]
Pointer == [expires : Nat, device : DeviceCodes]
Handler == [pc : {"idle", "mint", "go", "check", "exchange", "complete"},
            user : UserCodes \cup {None},
            device : DeviceCodes \cup {None},
            grant : Grants \cup {None}]
Birth == [device : DeviceCodes, expires : Nat, epoch : Nat]

Handling(pc, u, d, g) == [pc |-> pc, user |-> u, device |-> d, grant |-> g]
Idle == Handling("idle", None, None, None)

BrokerTypeOK ==
    /\ LimiterTypeOK
    /\ IsMap(pairings, DeviceCodes, Pairing)
    /\ IsMap(users, UserCodes, Pointer)
    /\ reqs \in [Slots -> Handler]
    /\ IsMap(consents, Grants, UserCodes)
    /\ redirected \subseteq UserCodes
    /\ redeemed \subseteq Grants
    /\ IsMap(minted, UserCodes, Birth)
    /\ handed \in [DeviceCodes -> Seq(Grants)]
    /\ told \subseteq Grants
    /\ restarts \in Nat

-----------------------------------------------------------------------------
(* The store.  Every operation reaps first. *)

\* Mutated forms of reap(): an entry dropped in the last instant of its
\* window; no reaping at all.
ReapedPairingsEarly ==
    Without(pairings, {d \in DOMAIN pairings : now >= pairings[d].expires})
ReapedPairingsNever == pairings

ReapedPairings ==
    Without(pairings, {d \in DOMAIN pairings : now > pairings[d].expires})
ReapedUsers ==
    Without(users, {u \in DOMAIN users : now > users[u].expires})

\* An operation that only reads: what remains of it is the reaping.
ReapOnly ==
    /\ ReapBuckets
    /\ pairings' = ReapedPairings
    /\ users' = ReapedUsers

\* Mutated form: any entry of the map rather than the one asked for.
ResolvedAny(u) ==
    IF DOMAIN ReapedUsers = {} THEN None
    ELSE ReapedUsers[CHOOSE v \in DOMAIN ReapedUsers : TRUE].device

\* resolveUser(userCode).
Resolved(u) == IF u \in DOMAIN ReapedUsers THEN ReapedUsers[u].device ELSE None

\* pending(deviceCode).
IsPending(d) == d \in DOMAIN ReapedPairings /\ ReapedPairings[d].token = None

Goto(r, h) == reqs' = [reqs EXCEPT ![r] = h]

\* Handler r moves on and keeps what it has read so far.
Advance(r, pc) == Goto(r, Handling(pc, reqs[r].user, reqs[r].device, reqs[r].grant))

At(r, pc) == reqs[r].pc = pc

-----------------------------------------------------------------------------
(* POST /pair *)

\* Mutated form: a request is charged twice.
PairTakeTwice(r, ip) ==
    /\ At(r, "idle")
    /\ Refilled(ReapedBuckets, ip) >= 2 * Cost
    /\ buckets' = Put(ReapedBuckets, ip,
                      [tokens |-> Refilled(ReapedBuckets, ip) - 2 * Cost, seen |-> now])
    /\ spent' = [spent EXCEPT ![ip] = @ + 2 * Cost]
    /\ Goto(r, Handling("mint", None, None, None))
    /\ pairings' = ReapedPairings
    /\ users' = ReapedUsers
    /\ UNCHANGED <<now, started, notionVars, historyVars>>

\* The request arrives and take() admits it or answers 429.
PairTake(r, ip) ==
    /\ At(r, "idle")
    /\ \/ TakeAdmitted(ip) /\ Goto(r, Handling("mint", None, None, None))
       \/ TakeRefused(ip) /\ UNCHANGED reqs
    /\ pairings' = ReapedPairings
    /\ users' = ReapedUsers
    /\ UNCHANGED <<notionVars, historyVars>>

\* randomCode twice, mint(), and the 200 with both codes.
PairMint(r, d, u) ==
    /\ At(r, "mint")
    /\ u \notin DOMAIN minted
    /\ \A v \in DOMAIN minted : minted[v].device # d
    /\ ReapBuckets
    /\ pairings' = Put(ReapedPairings, d,
                       [expires |-> now + TTL, userCode |-> u, token |-> None])
    /\ users' = Put(ReapedUsers, u, [expires |-> now + TTL, device |-> d])
    /\ minted' = Put(minted, u, [device |-> d, expires |-> now + TTL, epoch |-> restarts])
    /\ Goto(r, Idle)
    /\ UNCHANGED <<notionVars, handed, told, restarts>>

-----------------------------------------------------------------------------
(* GET /pair/{deviceCode} *)

\* Mutated forms of claim(): the user code keeps leading to the spent pairing;
\* the pairing is not deleted; the token is never noticed.
PollKeepsPointer(d) ==
    /\ ReapBuckets
    /\ pairings' = Without(ReapedPairings, {d})
    /\ users' = ReapedUsers
    /\ d \in DOMAIN ReapedPairings /\ ~IsPending(d)
    /\ handed' = [handed EXCEPT ![d] = Append(@, pairings[d].token)]
    /\ UNCHANGED <<reqs, notionVars, minted, told, restarts>>
PollKeepsPairing(d) ==
    /\ ReapBuckets
    /\ d \in DOMAIN ReapedPairings /\ ~IsPending(d)
    /\ pairings' = ReapedPairings
    /\ users' = Without(ReapedUsers, {ReapedPairings[d].userCode})
    /\ handed' = [handed EXCEPT ![d] = Append(@, pairings[d].token)]
    /\ UNCHANGED <<reqs, notionVars, minted, told, restarts>>
PollSeesNothing(d) ==
    /\ ReapOnly
    /\ UNCHANGED <<reqs, notionVars, historyVars>>

\* claim() and the response: what it hands over is gone from the store, so a
\* response that gets lost takes the token with it.
Poll(d) ==
    /\ ReapBuckets
    /\ users' = IF d \in DOMAIN ReapedPairings /\ ~IsPending(d)
                THEN Without(ReapedUsers, {ReapedPairings[d].userCode})
                ELSE ReapedUsers
    /\ IF d \in DOMAIN ReapedPairings /\ ~IsPending(d)
       THEN /\ pairings' = Without(ReapedPairings, {d})
            /\ handed' = [handed EXCEPT ![d] = Append(@, pairings[d].token)]
       ELSE /\ pairings' = ReapedPairings
            /\ UNCHANGED handed
    /\ UNCHANGED <<reqs, notionVars, minted, told, restarts>>

-----------------------------------------------------------------------------
(* GET and POST /go/{userCode} *)

\* The phone opens the QR's URL: resolveUser(), 404 when it finds nothing.
GoResolve(r, u) ==
    /\ At(r, "idle")
    /\ ReapOnly
    /\ IF Resolved(u) = None THEN UNCHANGED reqs
       ELSE Goto(r, Handling("go", u, Resolved(u), None))
    /\ UNCHANGED <<notionVars, historyVars>>

\* pending(), then 404, 503, the confirmation page (GET) or the redirect to
\* Notion with state = userCode (POST).
GoAnswer(r, method) ==
    /\ At(r, "go")
    /\ ReapOnly
    /\ redirected' = IF IsPending(reqs[r].device) /\ Configured /\ method = "POST"
                     THEN redirected \cup {reqs[r].user} ELSE redirected
    /\ Goto(r, Idle)
    /\ UNCHANGED <<consents, redeemed, historyVars>>

\* The user, sent to Notion with state u, grants access (external).
Consent(g, u) ==
    /\ u \in redirected
    /\ g \notin DOMAIN consents
    /\ consents' = Put(consents, g, u)
    /\ UNCHANGED <<limiterVars, storeVars, reqs, redirected, redeemed, historyVars>>

-----------------------------------------------------------------------------
(* GET /callback *)

\* Notion sends the browser back with the grant's code and state -- again if
\* the page is reloaded.  A callback with an error, or without code or state,
\* is answered before it touches the store.
CallbackResolve(r, g) ==
    /\ At(r, "idle")
    /\ g \in DOMAIN consents
    /\ ReapOnly
    /\ LET d == Resolved(consents[g])
       IN IF d = None THEN UNCHANGED reqs
          ELSE Goto(r, Handling("check", consents[g], d, g))
    /\ UNCHANGED <<notionVars, historyVars>>

\* pending(): 404, or on to the token exchange.
CallbackCheck(r) ==
    /\ At(r, "check")
    /\ ReapOnly
    /\ IF IsPending(reqs[r].device) THEN Advance(r, "exchange") ELSE Goto(r, Idle)
    /\ UNCHANGED <<notionVars, historyVars>>

\* Notion exchanges a code once; the broker sees its token.
ExchangeSucceeds(r) ==
    /\ At(r, "exchange")
    /\ reqs[r].grant \notin redeemed
    /\ redeemed' = redeemed \cup {reqs[r].grant}
    /\ Advance(r, "complete")
    /\ UNCHANGED <<limiterVars, storeVars, consents, redirected, historyVars>>

\* The fetch throws or Notion answers an error (502), whether or not it has
\* already used up the code.
ExchangeFails(r) ==
    /\ At(r, "exchange")
    /\ redeemed' \in {redeemed, redeemed \cup {reqs[r].grant}}
    /\ Goto(r, Idle)
    /\ UNCHANGED <<limiterVars, storeVars, consents, redirected, historyVars>>

\* complete(): 404 when the pairing is gone, else store the token -- over an
\* earlier one, if there is one -- and show "Connected".
CallbackComplete(r) ==
    LET d == reqs[r].device
        g == reqs[r].grant
    IN /\ At(r, "complete")
       /\ ReapBuckets
       /\ users' = ReapedUsers
       /\ IF d \in DOMAIN ReapedPairings
          THEN /\ pairings' = Put(ReapedPairings, d,
                                  [expires |-> pairings[d].expires,
                                   userCode |-> pairings[d].userCode, token |-> g])
               /\ told' = told \cup {g}
          ELSE /\ pairings' = ReapedPairings
               /\ UNCHANGED told
       /\ Goto(r, Idle)
       /\ UNCHANGED <<notionVars, minted, handed, restarts>>

-----------------------------------------------------------------------------
TimePasses ==
    /\ Tick
    /\ UNCHANGED <<storeVars, reqs, notionVars, historyVars>>

\* Nothing is persisted: the stores and the handlers in flight are gone.
Restart ==
    /\ restarts < MaxRestarts
    /\ restarts' = restarts + 1
    /\ LimiterRestart
    /\ pairings' = EmptyMap
    /\ users' = EmptyMap
    /\ reqs' = [r \in Slots |-> Idle]
    /\ UNCHANGED <<notionVars, minted, handed, told>>

BrokerInit ==
    /\ LimiterInit
    /\ pairings = EmptyMap
    /\ users = EmptyMap
    /\ reqs = [r \in Slots |-> Idle]
    /\ consents = EmptyMap
    /\ redirected = {}
    /\ redeemed = {}
    /\ minted = EmptyMap
    /\ handed = [d \in DeviceCodes |-> <<>>]
    /\ told = {}
    /\ restarts = 0

\* The rest of a handler that has begun.
Continue(r) ==
    \/ \E d \in DeviceCodes, u \in UserCodes : PairMint(r, d, u)
    \/ \E method \in {"GET", "POST"} : GoAnswer(r, method)
    \/ CallbackCheck(r)
    \/ ExchangeSucceeds(r)
    \/ ExchangeFails(r)
    \/ CallbackComplete(r)

BrokerNext ==
    \/ \E r \in Slots : \/ \E ip \in IPs : PairTake(r, ip)
                        \/ \E u \in UserCodes : GoResolve(r, u)
                        \/ \E g \in Grants : CallbackResolve(r, g)
                        \/ Continue(r)
    \/ \E d \in DeviceCodes : Poll(d)
    \/ \E g \in Grants, u \in UserCodes : Consent(g, u)
    \/ TimePasses
    \/ Restart

BrokerSpec == BrokerInit /\ [][BrokerNext]_brokerVars


-----------------------------------------------------------------------------
(* Safety *)

\* The window of the pairing minted with u is over, or a restart forgot it.
Gone(u) == now > minted[u].expires \/ minted[u].epoch < restarts

\* A token only ever goes to the device that showed the QR its user scanned:
\* the consent it came from carried the user code minted together with the
\* polled device code, however callbacks, polls and expiry interleave
\* (broker.js:96-139).
TokenGoesToItsQR ==
    \A d \in DeviceCodes : \A i \in 1..Len(handed[d]) :
        LET g == handed[d][i]
        IN /\ g \in DOMAIN consents
           /\ consents[g] \in DOMAIN minted
           /\ minted[consents[g]].device = d

\* Once a token was handed over, nothing is kept under that device code and
\* no user code leads to it any more, so neither a second poll nor a callback
\* still in flight can leave a token behind (store-memory.js:70).
NothingLeftAfterHandoff ==
    \A d \in DeviceCodes : handed[d] # <<>> =>
        /\ d \notin DOMAIN pairings
        /\ \A u \in DOMAIN users : users[u].device # d

\* A phone that saw "Connected" did not see it in vain: as long as the window
\* is open and the process lives, its device has been handed a token or one is
\* waiting for it, and it comes from a phone that saw the page as well
\* (broker.js:139-145).
ConnectedIsNotLost ==
    \A g \in told :
        LET d == minted[consents[g]].device
        IN \/ Gone(consents[g])
           \/ \E h \in told : handed[d] = <<h>>
           \/ d \in DOMAIN pairings /\ pairings[d].token \in told

\* A token is handed over only while the window of its code is open, although
\* nothing but traffic makes the store forget a pairing (store-memory.js:29-36).
HandoffInWindow ==
    [][\A d \in DeviceCodes : handed'[d] # handed[d] =>
         \E u \in DOMAIN minted : minted[u].device = d /\ ~Gone(u)]_brokerVars

(* The inductive invariant behind them, in named parts. *)

\* A device code and its user code are minted together, once.
MintedInPairs ==
    \A u \in DOMAIN minted :
        /\ minted[u].epoch <= restarts
        /\ \A v \in DOMAIN minted : minted[u].device = minted[v].device => u = v

\* Phones are only sent to Notion, and come back, with codes that were minted.
ConsentsForMinted ==
    /\ redirected \subseteq DOMAIN minted
    /\ \A g \in DOMAIN consents : consents[g] \in redirected

\* A pointer leads to the pairing it was minted with, which was not claimed.
PointersAgree ==
    \A u \in DOMAIN users :
        /\ u \in DOMAIN minted
        /\ users[u].device = minted[u].device
        /\ handed[users[u].device] = <<>>

\* Token g may be what device code d is waiting for.
Belongs(g, d) ==
    /\ g \in redeemed
    /\ g \in DOMAIN consents
    /\ consents[g] \in DOMAIN minted
    /\ minted[consents[g]].device = d

\* A pairing in the map is one of this process, unclaimed, and its token, once
\* there, came from a consent to its own user code.
PairingAgrees(d, u) ==
    /\ u \in DOMAIN minted
    /\ minted[u].device = d
    /\ minted[u].expires = pairings[d].expires
    /\ minted[u].epoch = restarts
    /\ handed[d] = <<>>
    /\ pairings[d].token # None =>
         Belongs(pairings[d].token, d) /\ pairings[d].token \in told

PairingsAgree == \A d \in DOMAIN pairings : PairingAgrees(d, pairings[d].userCode)

\* What was handed over, at most once, belonged to its device code.
HandedAgree ==
    \A d \in DeviceCodes :
        \/ handed[d] = <<>>
        \/ \E g \in told : handed[d] = <<g>> /\ Belongs(g, d)

\* What a handler carries from one await to the next stays true meanwhile.
HandlersAgree ==
    \A r \in Slots :
        /\ reqs[r].pc \in {"go", "check", "exchange", "complete"} =>
             /\ reqs[r].user \in DOMAIN minted
             /\ reqs[r].device = minted[reqs[r].user].device
        /\ reqs[r].pc \in {"check", "exchange", "complete"} =>
             /\ reqs[r].grant \in DOMAIN consents
             /\ consents[reqs[r].grant] = reqs[r].user
        /\ reqs[r].pc = "complete" => reqs[r].grant \in redeemed

\* A token that an exchange returned is nowhere else until complete() stores it.
TokensInOnePlace ==
    \A r \in Slots : reqs[r].pc = "complete" =>
        /\ reqs[r].grant \notin told
        /\ \A q \in Slots : reqs[q].pc = "complete" /\ reqs[q].grant = reqs[r].grant => q = r

\* Who saw "Connected" came through a consent.
ToldAgree == \A g \in told : g \in redeemed /\ g \in DOMAIN consents

BrokerInv ==
    /\ BrokerTypeOK
    /\ MintedInPairs
    /\ ConsentsForMinted
    /\ PointersAgree
    /\ PairingsAgree
    /\ HandedAgree
    /\ HandlersAgree
    /\ TokensInOnePlace
    /\ ToldAgree
    /\ ConnectedIsNotLost

-----------------------------------------------------------------------------
(* The broker keeps the promise of PairingContract: a pairing is alive while *)
(* it is in the map and its window is open, whether or not it was reaped.    *)

IsMinted(d) == \E u \in DOMAIN minted : minted[u].device = d

IsAlive(d) == d \in DOMAIN pairings /\ now <= pairings[d].expires

PhaseOf(d) ==
    IF handed[d] # <<>> THEN "handed"
    ELSE IF ~IsMinted(d) THEN "unused"
    ELSE IF ~IsAlive(d) THEN "expired"
    ELSE IF pairings[d].token = None THEN "pending"
    ELSE "ready"

HeldFor(d) == IF PhaseOf(d) = "ready" THEN pairings[d].token ELSE None

Contract == INSTANCE PairingContract
            WITH phase <- [d \in DeviceCodes |-> PhaseOf(d)],
                 held <- [d \in DeviceCodes |-> HeldFor(d)],
                 given <- handed

\* The handlers over the in-memory store implement the store's contract.
ImplementsContract == Contract!ContractSpec

-----------------------------------------------------------------------------
(* Liveness *)

\* A handler that began runs on: a promise settles, a fetch answers or throws
\* (server/src/broker.js has no other waits).  The device polls every three
\* seconds while its QR is shown (send-to-notion.qmd:215-221).
BrokerFairness ==
    /\ \A r \in Slots : WF_brokerVars(Continue(r))
    /\ \A d \in DeviceCodes : WF_brokerVars(Poll(d))

FairBrokerSpec == BrokerSpec /\ BrokerFairness

\* A device that keeps polling is handed a token after a phone was told it is
\* connected, unless its window closes first (broker.js:54-63, 139-145).
ConnectedReachesPoller ==
    \A g \in Grants :
        (g \in told) ~> /\ g \in DOMAIN consents
                        /\ \/ Gone(consents[g])
                           \/ handed[minted[consents[g]].device] # <<>>

=============================================================================
