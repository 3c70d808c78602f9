-------------------------- MODULE PairingContract ---------------------------
(***************************************************************************)
(* What a pairing store promises its callers: the contract written at the  *)
(* top of server/src/store-memory.js, which the Durable Object store of    *)
(* server/src/worker.js implements as well.  A device code is minted once, *)
(* completed with a token while it is alive, and claimed at most once; its *)
(* window can close at any moment before the claim.                        *)
(***************************************************************************)
EXTENDS Pairings, Integers, Sequences

VARIABLES
    phase,        \* phase[d] : where device code d is in its life
    held,         \* held[d]  : the token stored for d, or None
    given         \* given[d] : the tokens given out to pollers of d

contractVars == <<phase, held, given>>

Phases == {"unused", "pending", "ready", "handed", "expired"}

ContractTypeOK ==
    /\ phase \in [DeviceCodes -> Phases]
    /\ held \in [DeviceCodes -> Grants \cup {None}]
    /\ given \in [DeviceCodes -> Seq(Grants)]

\* mint(deviceCode, userCode): "create the pairing".
ContractMint(d) ==
    /\ phase[d] = "unused"
    /\ phase' = [phase EXCEPT ![d] = "pending"]
    /\ UNCHANGED <<held, given>>

\* complete(deviceCode, ...): a later completion replaces an earlier one, and
\* no token is stored for two codes.
ContractComplete(d, g) ==
    /\ phase[d] \in {"pending", "ready"}
    /\ \A e \in DeviceCodes : held[e] # g /\ given[e] # <<g>>
    /\ phase' = [phase EXCEPT ![d] = "ready"]
    /\ held' = [held EXCEPT ![d] = g]
    /\ UNCHANGED given

\* claim(deviceCode) answering "ok".
ContractClaim(d) ==
    /\ phase[d] = "ready"
    /\ phase' = [phase EXCEPT ![d] = "handed"]
    /\ given' = [given EXCEPT ![d] = Append(@, held[d])]
    /\ held' = [held EXCEPT ![d] = None]

\* The window of the codes in S closes, or a restart forgets them.
ContractExpire(S) ==
    /\ \A d \in S : phase[d] \in {"pending", "ready"}
    /\ phase' = [d \in DeviceCodes |-> IF d \in S THEN "expired" ELSE phase[d]]
    /\ held' = [d \in DeviceCodes |-> IF d \in S THEN None ELSE held[d]]
    /\ UNCHANGED given

ContractInit ==
    /\ phase = [d \in DeviceCodes |-> "unused"]
    /\ held = [d \in DeviceCodes |-> None]
    /\ given = [d \in DeviceCodes |-> <<>>]

ContractNext ==
    \/ \E d \in DeviceCodes : ContractMint(d) \/ ContractClaim(d)
    \/ \E d \in DeviceCodes, g \in Grants : ContractComplete(d, g)
    \/ \E S \in SUBSET DeviceCodes : ContractExpire(S)

ContractSpec == ContractInit /\ [][ContractNext]_contractVars

-----------------------------------------------------------------------------
\* At most one token ever leaves the store for a device code, and no token
\* leaves it twice (store-memory.js:70, broker.js:54).
AtMostOnce ==
    /\ \A d \in DeviceCodes : Len(given[d]) <= 1
    /\ \A d, e \in DeviceCodes : d # e /\ given[d] # <<>> => given[d] # given[e]

\* A token is held only between its completion and its handoff or expiry, and
\* never for two codes (worker.js:75-76).
HeldOnlyWhileReady ==
    /\ \A d \in DeviceCodes : held[d] # None <=> phase[d] = "ready"
    /\ \A d \in DeviceCodes : given[d] # <<>> <=> phase[d] = "handed"
    /\ \A d, e \in DeviceCodes : d # e /\ held[d] # None => held[d] # held[e]
    /\ \A d, e \in DeviceCodes : held[d] # None => given[e] # <<held[d]>>

=============================================================================
