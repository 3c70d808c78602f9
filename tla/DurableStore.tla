---------------------------- MODULE DurableStore ----------------------------
(***************************************************************************)
(* The hosted broker: the handlers of server/src/broker.js over the        *)
(* Durable Object store of server/src/worker.js.                           *)
(*                                                                         *)
(* Every pairing and every user code has an object of its own (and every   *)
(* client address: DurableLimiter).  A handler calls them one after the    *)
(* other and may end in between, so each call is a step.  The platform is  *)
(* external: it lets an object take no other event while it awaits its     *)
(* storage, but it does while it awaits the body of a request.  Hence a    *)
(* call is one step, except `complete`, which reads the body between       *)
(* alive() and put(); and an object may die between two storage calls.  An *)
(* alarm fires at its time or later.                                       *)
(*                                                                         *)
(* An object that was wiped is as one that never was.  What nothing reads  *)
(* (the user code in a pairing object) or what travels with the token (the *)
(* workspace's name) is left out; so are the requests that are answered    *)
(* without a look at the store, and GET /go, which changes nothing.        *)
(***************************************************************************)
EXTENDS Pairings, Maps, Integers, Sequences

CONSTANTS
    UserCodes,   \* what the QR codes carry
    Slots,       \* requests in flight
    TTL,         \* TTL_MS
    MaxTime,     \* bound on the clock
    MaxCrashes   \* bound on the deaths of objects

ASSUME DurableAssumption ==
    /\ TTL \in Nat /\ MaxTime \in Nat /\ MaxCrashes \in Nat
    /\ None \notin DeviceCodes \cup UserCodes \cup Nat

VARIABLES
    now,         \* Date.now()
    objects,     \* device code -> {expires, token, alarm}, None if absent
    pointers,    \* "u:" user code -> {expires, device}, with an alarm at its end
    reqs,        \* the handlers in flight
    consents,    \* Notion and the phones: grant -> the state it carries
    redeemed,    \* grants whose code Notion has exchanged
    minted,      \* history: user code -> {device, expires}
    shown,       \* history: user codes a device has as its QR
    handed,      \* history: tokens answered to pollers of a device code
    told,        \* history: grants whose phone saw the page "Connected"
    crashes      \* history: how many objects died

objectVars == <<objects, pointers>>
notionVars == <<consents, redeemed>>
historyVars == <<minted, shown, handed, told, crashes>>
durableVars == <<now, objectVars, reqs, notionVars, historyVars>>

OrNone(S) == S \cup {None}

Object == [expires : OrNone(Nat), token : OrNone(Grants), alarm : OrNone(Nat)]
Pointer == [expires : Nat, device : DeviceCodes]
Handler == [pc : {"idle", "point", "go", "check", "exchange", "complete", "put"},
            user : OrNone(UserCodes), device : OrNone(DeviceCodes), grant : OrNone(Grants)]
Birth == [device : DeviceCodes, expires : Nat]

Holding(e, t, a) == [expires |-> e, token |-> t, alarm |-> a]
Wiped == Holding(None, None, None)
Handling(pc, u, d, g) == [pc |-> pc, user |-> u, device |-> d, grant |-> g]
Idle == Handling("idle", None, None, None)

DurableTypeOK ==
    /\ now \in Nat
    /\ objects \in [DeviceCodes -> Object]
    /\ IsMap(pointers, UserCodes, Pointer)
    /\ reqs \in [Slots -> Handler]
    /\ IsMap(consents, Grants, UserCodes)
    /\ redeemed \subseteq Grants
    /\ IsMap(minted, UserCodes, Birth)
    /\ shown \subseteq DOMAIN minted
    /\ handed \in [DeviceCodes -> Seq(Grants)]
    /\ told \subseteq Grants /\ crashes \in Nat

-----------------------------------------------------------------------------
At(r, pc) == reqs[r].pc = pc
Goto(r, h) == reqs' = [reqs EXCEPT ![r] = h]
Advance(r, pc) == Goto(r, Handling(pc, reqs[r].user, reqs[r].device, reqs[r].grant))

\* alive(): without a window the object is none; past it, it is wiped, but
\* for its alarm.
InWindow(o) == o.expires # None /\ now <= o.expires
Checked(o) ==
    IF o.expires # None /\ now > o.expires THEN Holding(None, None, o.alarm) ELSE o
SetObject(d, o) == objects' = [objects EXCEPT ![d] = o]

\* An object dies between two storage calls of the event it is handling.
Dies == crashes < MaxCrashes /\ crashes' = crashes + 1
Survives == UNCHANGED crashes

-----------------------------------------------------------------------------
(* POST /pair, once take has admitted it *)

\* When the alarm of a new pairing is due.  Mutated form: a delay in seconds.
AlarmInSeconds == now
AlarmDue == now + TTL

\* mint, first call: both codes are drawn and the pairing object begins.
MintInit(r, d, u) ==
    /\ At(r, "idle")
    /\ u \notin DOMAIN minted
    /\ \A v \in DOMAIN minted : minted[v].device # d
    /\ minted' = Put(minted, u, [device |-> d, expires |-> now + TTL])
    /\ \/ /\ Survives /\ SetObject(d, Holding(now + TTL, None, AlarmDue))
          /\ Goto(r, Handling("point", u, d, None))
       \/ Dies /\ SetObject(d, Holding(now + TTL, None, None)) /\ UNCHANGED reqs
    /\ UNCHANGED <<now, pointers, notionVars, shown, handed, told>>

\* Mutated form: the pointer's window is over as it begins.
PointsUntilNow(d) == [expires |-> now, device |-> d]
Points(d) == [expires |-> now + TTL, device |-> d]

\* mint, second call, and the 200 that puts the QR on the screen.  A pointer
\* without an alarm would only stay longer, past its window.
MintPoint(r) ==
    LET u == reqs[r].user
    IN  /\ At(r, "point")
        /\ pointers' = Put(pointers, u, Points(reqs[r].device))
        /\ shown' = shown \cup {u}
        /\ Goto(r, Idle)
        /\ UNCHANGED <<now, objects, notionVars, minted, handed, told, crashes>>

-----------------------------------------------------------------------------
(* GET /pair/{deviceCode} *)

\* Mutated form: the token stays in the object.
ClaimKeeps(d) ==
    /\ InWindow(objects[d]) /\ objects[d].token # None
    /\ handed' = [handed EXCEPT ![d] = Append(@, objects[d].token)]
    /\ Survives
    /\ UNCHANGED <<now, objectVars, reqs, notionVars, minted, shown, told>>

\* claim: what was there is wiped, then its alarm, and then it is answered.
Claim(d) ==
    LET o == objects[d]
        ready == InWindow(o) /\ o.token # None
    IN  /\ \/ /\ ready /\ Survives /\ SetObject(d, Wiped)
              /\ handed' = [handed EXCEPT ![d] = Append(@, o.token)]
           \/ ready /\ Dies /\ SetObject(d, Holding(None, None, o.alarm)) /\ UNCHANGED handed
           \/ ~ready /\ Survives /\ SetObject(d, Checked(o)) /\ UNCHANGED handed
        /\ UNCHANGED <<now, pointers, reqs, notionVars, minted, shown, told>>

-----------------------------------------------------------------------------
(* POST /go/{userCode} and GET /callback *)

\* Mutated form: a pointer that was not found leads to some other pairing.
ResolvedAny(u) == IF DOMAIN pointers = {} THEN None
                  ELSE pointers[CHOOSE v \in DOMAIN pointers : TRUE].device
Resolved(u) ==
    IF u \in DOMAIN pointers /\ now <= pointers[u].expires THEN pointers[u].device ELSE None
\* resolve: alive() wipes a pointer that is past its window.
ReadPointer(u) ==
    pointers' = Without(pointers, {v \in {u} \cap DOMAIN pointers : now > pointers[v].expires})

GoResolve(r, u) ==
    /\ At(r, "idle")
    /\ ReadPointer(u)
    /\ IF Resolved(u) = None THEN UNCHANGED reqs ELSE Goto(r, Handling("go", u, Resolved(u), None))
    /\ UNCHANGED <<now, objects, notionVars, historyVars>>

\* A reload of the callback page repeats the request.
CallbackResolve(r, g) ==
    /\ At(r, "idle") /\ g \in DOMAIN consents
    /\ ReadPointer(consents[g])
    /\ LET d == Resolved(consents[g])
       IN  IF d = None THEN UNCHANGED reqs ELSE Goto(r, Handling("check", consents[g], d, g))
    /\ UNCHANGED <<now, objects, notionVars, historyVars>>

IsPending(o) == InWindow(o) /\ o.token = None

\* pending: 404, or the redirect to Notion, where the user may grant access:
\* only the callback will tell whether and when.
GoCheck(r) ==
    LET u == reqs[r].user
        d == reqs[r].device
    IN  /\ At(r, "go")
        /\ SetObject(d, Checked(objects[d]))
        /\ IF IsPending(objects[d])
           THEN \/ \E g \in Grants \ DOMAIN consents : consents' = Put(consents, g, u)
                \/ UNCHANGED consents
           ELSE UNCHANGED consents
        /\ Goto(r, Idle)
        /\ UNCHANGED <<now, pointers, redeemed, historyVars>>
\* ... or the exchange.
CallbackCheck(r) ==
    LET d == reqs[r].device
    IN  /\ At(r, "check")
        /\ SetObject(d, Checked(objects[d]))
        /\ IF IsPending(objects[d]) THEN Advance(r, "exchange") ELSE Goto(r, Idle)
        /\ UNCHANGED <<now, pointers, notionVars, historyVars>>

\* Notion exchanges a code once; an answer that is lost, or is no token, ends
\* the handler (Vanish).
Exchange(r) ==
    /\ At(r, "exchange") /\ reqs[r].grant \notin redeemed
    /\ redeemed' = redeemed \cup {reqs[r].grant}
    /\ Advance(r, "complete")
    /\ UNCHANGED <<now, objectVars, consents, historyVars>>

\* complete, up to the body: alive().
CompleteCheck(r) ==
    LET d == reqs[r].device
    IN  /\ At(r, "complete")
        /\ SetObject(d, Checked(objects[d]))
        /\ IF InWindow(objects[d]) THEN Advance(r, "put") ELSE Goto(r, Idle)
        /\ UNCHANGED <<now, pointers, notionVars, historyVars>>

\* Mutated form: a put() that opens the window again.
CompletePutRenews(r) ==
    /\ At(r, "put")
    /\ SetObject(reqs[r].device, Holding(now + TTL, reqs[r].grant, objects[reqs[r].device].alarm))
    /\ told' = told \cup {reqs[r].grant}
    /\ Goto(r, Idle)
    /\ UNCHANGED <<now, pointers, notionVars, minted, shown, handed, crashes>>

\* ... and from the body on: put(), and the page, which the phone may not see.
CompletePut(r) ==
    LET o == objects[reqs[r].device]
        g == reqs[r].grant
    IN  /\ At(r, "put")
        /\ SetObject(reqs[r].device, Holding(o.expires, g, o.alarm))
        /\ told' \in {told, told \cup {g}}
        /\ Goto(r, Idle)
        /\ UNCHANGED <<now, pointers, notionVars, minted, shown, handed, crashes>>

-----------------------------------------------------------------------------
(* The platform *)

Due(alarm) == alarm # None /\ now >= alarm

PairingAlarm(d) ==
    /\ Due(objects[d].alarm)
    /\ SetObject(d, Wiped)
    /\ UNCHANGED <<now, pointers, reqs, notionVars, historyVars>>
PointerAlarm(u) ==
    /\ u \in DOMAIN pointers /\ Due(pointers[u].expires)
    /\ pointers' = Without(pointers, {u})
    /\ UNCHANGED <<now, objects, reqs, notionVars, historyVars>>

\* A handler ends at one of its awaits: a call failed, or the worker is gone.
Vanish(r) ==
    /\ ~At(r, "idle")
    /\ Goto(r, Idle)
    /\ UNCHANGED <<now, objectVars, notionVars, historyVars>>

TimePasses ==
    /\ now < MaxTime
    /\ now' = now + 1
    /\ UNCHANGED <<objectVars, reqs, notionVars, historyVars>>

DurableInit ==
    /\ now = 0
    /\ objects = [d \in DeviceCodes |-> Wiped]
    /\ pointers = EmptyMap
    /\ reqs = [r \in Slots |-> Idle]
    /\ consents = EmptyMap /\ redeemed = {}
    /\ minted = EmptyMap /\ shown = {}
    /\ handed = [d \in DeviceCodes |-> <<>>]
    /\ told = {} /\ crashes = 0

Handle(r) ==
    \/ \E d \in DeviceCodes, u \in UserCodes : MintInit(r, d, u)
    \/ MintPoint(r)
    \/ \E u \in UserCodes : GoResolve(r, u)
    \/ GoCheck(r)
    \/ \E g \in Grants : CallbackResolve(r, g)
    \/ CallbackCheck(r) \/ Exchange(r) \/ CompleteCheck(r) \/ CompletePut(r)
    \/ Vanish(r)

DurableNext ==
    \/ \E r \in Slots : Handle(r)
    \/ \E d \in DeviceCodes : Claim(d) \/ PairingAlarm(d)
    \/ \E u \in UserCodes : PointerAlarm(u)
    \/ TimePasses

DurableSpec == DurableInit /\ [][DurableNext]_durableVars

-----------------------------------------------------------------------------
(* Properties *)

\* The window of the pairing minted with u is at its end, at the latest.
Over(u) == now >= minted[u].expires

\* A token only goes to the device whose QR was scanned, whatever happened to
\* handlers and objects between the consent and the poll (broker.js:96-139).
TokenGoesToItsDevice ==
    \A d \in DeviceCodes : \A i \in DOMAIN handed[d] :
        LET g == handed[d][i]
        IN  /\ g \in DOMAIN consents /\ consents[g] \in DOMAIN minted
            /\ minted[consents[g]].device = d

\* Until the window is at its end, who saw "Connected" has a device that was
\* handed a token or has one waiting, unless an object died in a claim
\* (broker.js:139-145, worker.js:108-122).
ConnectedHasToken ==
    \A g \in told :
        LET u == consents[g]
            d == minted[u].device
        IN  \/ Over(u) \/ crashes > 0
            \/ handed[d] # <<>>
            \/ InWindow(objects[d]) /\ objects[d].token # None

\* While a device shows its QR and its pairing waits, the QR leads to that
\* pairing: the pointer, an object with a window and an alarm of its own, does
\* not go first (worker.js:35-38).
QRLeadsToPairing ==
    \A u \in shown :
        LET d == minted[u].device
        IN  ~Over(u) /\ InWindow(objects[d]) => Resolved(u) = d

\* A token that nothing will wipe is out of reach at least: its object has no
\* window, so no poll is handed it (worker.js:82-84).
LeftTokenIsUnreachable ==
    \A d \in DeviceCodes :
        objects[d].token # None /\ objects[d].alarm = None => objects[d].expires = None

-----------------------------------------------------------------------------
(* The store keeps the promise of PairingContract. *)

PhaseOf(d) ==
    IF handed[d] # <<>> THEN "handed"
    ELSE IF InWindow(objects[d])
         THEN IF objects[d].token = None THEN "pending" ELSE "ready"
         ELSE IF \E u \in DOMAIN minted : minted[u].device = d THEN "expired" ELSE "unused"
HeldFor(d) == IF PhaseOf(d) = "ready" THEN objects[d].token ELSE None

Contract == INSTANCE PairingContract WITH
    phase <- [d \in DeviceCodes |-> PhaseOf(d)],
    held  <- [d \in DeviceCodes |-> HeldFor(d)],
    given <- handed

\* What callers see of the objects is what the contract of the store allows,
\* with its two-step complete, its alarms and its deaths (store-memory.js:5-11).
DurableImplementsContract == Contract!ContractSpec

=============================================================================
