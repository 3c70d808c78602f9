---------------------------- MODULE MintLimiter -----------------------------
(***************************************************************************)
(* The token bucket that limits POST /pair per client address:             *)
(* MemoryStore.take and the part of MemoryStore.reap that drops idle       *)
(* buckets (server/src/store-memory.js).                                   *)
(*                                                                         *)
(* The code refills MINT_REFILL_PER_SEC = 0.2 tokens per second, caps a    *)
(* bucket at MINT_BURST = 10 and charges 1 token per mint.  Here tokens    *)
(* are counted in the amount refilled per tick of the clock, so every      *)
(* quantity is an integer: with a tick of one millisecond, Cost is 5000,   *)
(* Burst 50000 and IdleLimit 600000.                                       *)
(***************************************************************************)
EXTENDS Integers, Maps

CONSTANTS
    IPs,          \* client addresses
    Burst,        \* capacity of a bucket
    Cost,         \* what one mint takes out of it
    IdleLimit,    \* LIMIT_IDLE_MS
    MaxTime       \* bound on the clock

\* IdleLimit is at least the time an empty bucket takes to fill (50 s against
\* 10 min in the code): reaping a bucket must not hand out tokens early.
ASSUME LimiterAssumption ==
    /\ Burst \in Nat /\ Cost \in Nat \ {0} /\ IdleLimit \in Nat
    /\ MaxTime \in Nat
    /\ Burst <= IdleLimit

VARIABLES
    now,          \* the store's clock, this.now()
    started,      \* when the process started
    buckets,      \* this.buckets: client ip -> {tokens, seen}
    spent         \* history: what each address was charged since the start

limiterVars == <<now, started, buckets, spent>>

Bucket == [tokens : 0..Burst, seen : Nat]

LimiterTypeOK ==
    /\ now \in Nat /\ started \in Nat /\ started <= now
    /\ IsMap(buckets, IPs, Bucket)
    /\ \A ip \in DOMAIN buckets : buckets[ip].seen <= now
    /\ spent \in [IPs -> Nat]

-----------------------------------------------------------------------------
LimiterMin(a, b) == IF a <= b THEN a ELSE b

\* Mutated form: seconds compared with a limit in milliseconds, so that a
\* bucket is forgotten as soon as it is left alone.
ReapedBucketsTooSoon ==
    Without(buckets, {ip \in DOMAIN buckets : now > buckets[ip].seen})

\* The buckets reap() keeps.
ReapedBuckets ==
    Without(buckets, {ip \in DOMAIN buckets : now - buckets[ip].seen > IdleLimit})

\* The refill of take(), for a bucket of map m or a fresh one.
Refilled(m, ip) ==
    IF ip \in DOMAIN m
    THEN LimiterMin(Burst, m[ip].tokens + (now - m[ip].seen))
    ELSE Burst

\* What ip could spend right now, whether or not reap() has run.
Level(ip) == Refilled(buckets, ip)

Admits(ip) == Refilled(ReapedBuckets, ip) >= Cost

\* take(ip) answering true.
TakeAdmitted(ip) ==
    /\ Admits(ip)
    /\ buckets' = Put(ReapedBuckets, ip,
                      [tokens |-> Refilled(ReapedBuckets, ip) - Cost, seen |-> now])
    /\ spent' = [spent EXCEPT ![ip] = @ + Cost]
    /\ UNCHANGED <<now, started>>

\* Mutated form: the refusal forgets the refill it has just computed.
TakeRefusedDropsRefill(ip) ==
    /\ ~Admits(ip)
    /\ buckets' = Put(ReapedBuckets, ip, [tokens |-> 0, seen |-> now])
    /\ UNCHANGED <<now, started, spent>>

\* take(ip) answering false: the refill is kept, nothing is charged.
TakeRefused(ip) ==
    /\ ~Admits(ip)
    /\ buckets' = Put(ReapedBuckets, ip,
                      [tokens |-> Refilled(ReapedBuckets, ip), seen |-> now])
    /\ UNCHANGED <<now, started, spent>>

\* Every other operation of the store starts with reap() too.
ReapBuckets ==
    /\ buckets' = ReapedBuckets
    /\ UNCHANGED <<now, started, spent>>

Tick ==
    /\ now < MaxTime
    /\ now' = now + 1
    /\ UNCHANGED <<started, buckets, spent>>

\* The buckets live in memory only: a restart forgets them.
LimiterRestart ==
    /\ started' = now
    /\ buckets' = EmptyMap
    /\ spent' = [ip \in IPs |-> 0]
    /\ UNCHANGED now

LimiterInit ==
    /\ now = 0
    /\ started = 0
    /\ buckets = EmptyMap
    /\ spent = [ip \in IPs |-> 0]

LimiterNext ==
    \/ \E ip \in IPs : TakeAdmitted(ip) \/ TakeRefused(ip)
    \/ ReapBuckets
    \/ Tick
    \/ LimiterRestart

LimiterSpec == LimiterInit /\ [][LimiterNext]_limiterVars

-----------------------------------------------------------------------------
\* Since the process started, an address was never charged more than one full
\* bucket plus what refilled meanwhile -- although reap() forgets idle buckets
\* and the next take() then starts a full one (store-memory.js:35, 79).
MintRateBounded == \A ip \in IPs : spent[ip] <= Burst + (now - started)

\* The strengthening that makes it inductive: what is left counts as well.
BudgetKept == \A ip \in IPs : spent[ip] + Level(ip) <= Burst + (now - started)

LimiterInv == LimiterTypeOK /\ BudgetKept

\* A step never lowers what an address has left unless it admits a mint of
\* that very address: refusals, reaping and other clients' requests cost
\* nothing, so a refused client that waits is admitted (store-memory.js:79-84).
OnlyMintsCost ==
    [][\A ip \in IPs : spent'[ip] = spent[ip] => Level(ip)' >= Level(ip)]_limiterVars

=============================================================================
