------------------------- MODULE PairingBrokerProofs -------------------------
(***************************************************************************)
(* Proofs about the pairing broker, for all sets of codes, consents and    *)
(* request slots, every TTL and every interleaving of handlers; and about  *)
(* the parts it is built from, each by itself: the token bucket of POST    *)
(* /pair, for every capacity, price, idle limit and set of client          *)
(* addresses, as the in-memory store keeps it (MintLimiter) and as the     *)
(* hosted broker does (DurableLimiter); and the contract of a pairing      *)
(* store, for every set of device codes and tokens.                        *)
(***************************************************************************)
EXTENDS PairingBroker, DurableLimiter, PairingContract, TLAPS

-----------------------------------------------------------------------------
(* The token bucket of the in-memory store.                                *)

\* Reaping keeps a map of buckets a map of buckets, none of them newer than
\* the clock (MemoryStore.reap).
LEMMA ReapKeepsType ==
    ASSUME LimiterTypeOK
    PROVE  /\ IsMap(ReapedBuckets, IPs, Bucket)
           /\ \A ip \in DOMAIN ReapedBuckets : /\ ip \in DOMAIN buckets
                                               /\ ReapedBuckets[ip] = buckets[ip]
                                               /\ ReapedBuckets[ip].seen <= now
BY DEF LimiterTypeOK, ReapedBuckets, Without, IsMap, Bucket

\* What take() computes is a legal number of tokens (MemoryStore.take).
LEMMA RefilledInRange ==
    ASSUME LimiterTypeOK, NEW ip \in IPs
    PROVE  /\ Level(ip) \in 0..Burst
           /\ Refilled(ReapedBuckets, ip) \in 0..Burst
<1>1. Level(ip) \in 0..Burst
  BY LimiterAssumption DEF LimiterTypeOK, Level, Refilled, LimiterMin, IsMap, Bucket
<1>2. Refilled(ReapedBuckets, ip) \in 0..Burst
  BY ReapKeepsType, LimiterAssumption DEF LimiterTypeOK, Refilled, LimiterMin, IsMap, Bucket
<1> QED BY <1>1, <1>2

\* Forgetting an idle bucket gives its owner nothing: the bucket was full
\* again before reap() may drop it (store-memory.js:35).
LEMMA ReapIsHarmless ==
    ASSUME LimiterTypeOK, NEW ip \in IPs
    PROVE  Refilled(ReapedBuckets, ip) = Level(ip)
<1>1. CASE ip \in DOMAIN ReapedBuckets
  BY <1>1, ReapKeepsType DEF Refilled, Level
<1>2. CASE ip \notin DOMAIN buckets
  BY <1>2, ReapKeepsType DEF Refilled, Level
<1>3. CASE ip \in DOMAIN buckets /\ ip \notin DOMAIN ReapedBuckets
  <2>1. now - buckets[ip].seen > IdleLimit
    BY <1>3 DEF ReapedBuckets, Without
  <2>2. buckets[ip].tokens \in Nat /\ buckets[ip].seen \in Nat
    BY <1>3 DEF LimiterTypeOK, IsMap, Bucket
  <2>3. Level(ip) = Burst
    BY <1>3, <2>1, <2>2, LimiterAssumption DEF LimiterTypeOK, Level, Refilled, LimiterMin
  <2> QED BY <1>3, <2>3 DEF Refilled
<1> QED BY <1>1, <1>2, <1>3

\* How one step changes what each address has left.
LEMMA LevelStep ==
    ASSUME LimiterTypeOK, LimiterNext
    PROVE  /\ LimiterTypeOK'
           /\ \A ip \in IPs :
                \/ /\ now' = now /\ started' = started
                   /\ spent'[ip] = spent[ip] + Cost
                   /\ Level(ip)' = Level(ip) - Cost
                \/ /\ now' = now /\ started' = started
                   /\ spent'[ip] = spent[ip]
                   /\ Level(ip)' = Level(ip)
                \/ /\ now' = now + 1 /\ started' = started
                   /\ spent'[ip] = spent[ip]
                   /\ Level(ip)' \in {Level(ip), Level(ip) + 1}
                \/ /\ now' = now /\ started' = now
                   /\ spent'[ip] = 0
                   /\ Level(ip)' = Burst
<1> USE LimiterAssumption
<1>1. ASSUME NEW jp \in IPs, TakeAdmitted(jp)
      PROVE  /\ LimiterTypeOK'
             /\ \A ip \in IPs : /\ now' = now /\ started' = started
                                /\ \/ /\ spent'[ip] = spent[ip] + Cost
                                      /\ Level(ip)' = Level(ip) - Cost
                                   \/ /\ spent'[ip] = spent[ip]
                                      /\ Level(ip)' = Level(ip)
  <2> DEFINE left == Refilled(ReapedBuckets, jp)
  <2>1. left \in 0..Burst /\ left = Level(jp) /\ left >= Cost
    BY <1>1, RefilledInRange, ReapIsHarmless DEF TakeAdmitted, Admits
  <2>2. LimiterTypeOK'
    BY <1>1, <2>1, ReapKeepsType DEF LimiterTypeOK, TakeAdmitted, Put, IsMap, Bucket
  <2>3. spent'[jp] = spent[jp] + Cost /\ Level(jp)' = Level(jp) - Cost
    BY <1>1, <2>1 DEF LimiterTypeOK, TakeAdmitted, Level, Refilled, LimiterMin, Put
  <2>4. ASSUME NEW ip \in IPs, ip # jp
        PROVE  spent'[ip] = spent[ip] /\ Level(ip)' = Level(ip)
    <3>1. Level(ip)' = Refilled(ReapedBuckets, ip)
      BY <1>1, <2>4 DEF TakeAdmitted, Level, Refilled, Put
    <3> QED BY <1>1, <2>4, <3>1, ReapIsHarmless DEF LimiterTypeOK, TakeAdmitted
  <2> QED BY <1>1, <2>2, <2>3, <2>4 DEF TakeAdmitted
<1>2. ASSUME NEW jp \in IPs, TakeRefused(jp)
      PROVE  /\ LimiterTypeOK'
             /\ \A ip \in IPs : /\ now' = now /\ started' = started
                                /\ spent'[ip] = spent[ip]
                                /\ Level(ip)' = Level(ip)
  <2>1. Refilled(ReapedBuckets, jp) \in 0..Burst /\ Refilled(ReapedBuckets, jp) = Level(jp)
    BY RefilledInRange, ReapIsHarmless
  <2>2. LimiterTypeOK'
    BY <1>2, <2>1, ReapKeepsType DEF LimiterTypeOK, TakeRefused, Put, IsMap, Bucket
  <2>3. Level(jp)' = Level(jp)
    BY <1>2, <2>1 DEF LimiterTypeOK, TakeRefused, Level, Refilled, LimiterMin, Put
  <2>4. ASSUME NEW ip \in IPs, ip # jp
        PROVE  Level(ip)' = Level(ip)
    <3>1. Level(ip)' = Refilled(ReapedBuckets, ip)
      BY <1>2, <2>4 DEF TakeRefused, Level, Refilled, Put
    <3> QED BY <3>1, ReapIsHarmless
  <2> QED BY <1>2, <2>2, <2>3, <2>4 DEF TakeRefused
<1>3. ASSUME ReapBuckets
      PROVE  /\ LimiterTypeOK'
             /\ \A ip \in IPs : /\ now' = now /\ started' = started
                                /\ spent'[ip] = spent[ip]
                                /\ Level(ip)' = Level(ip)
  <2>1. LimiterTypeOK'
    BY <1>3, ReapKeepsType DEF LimiterTypeOK, ReapBuckets, IsMap
  <2>2. \A ip \in IPs : Level(ip)' = Refilled(ReapedBuckets, ip)
    BY <1>3 DEF ReapBuckets, Level, Refilled
  <2> QED BY <1>3, <2>1, <2>2, ReapIsHarmless DEF ReapBuckets
<1>4. ASSUME Tick
      PROVE  /\ LimiterTypeOK'
             /\ \A ip \in IPs : /\ now' = now + 1 /\ started' = started
                                /\ spent'[ip] = spent[ip]
                                /\ Level(ip)' \in {Level(ip), Level(ip) + 1}
  <2>1. LimiterTypeOK'
    BY <1>4 DEF LimiterTypeOK, Tick, IsMap, Bucket
  <2>2. ASSUME NEW ip \in IPs
        PROVE  Level(ip)' \in {Level(ip), Level(ip) + 1}
    BY <1>4 DEF LimiterTypeOK, Tick, IsMap, Bucket, Level, Refilled, LimiterMin
  <2> QED BY <1>4, <2>1, <2>2 DEF Tick
<1>5. ASSUME LimiterRestart
      PROVE  /\ LimiterTypeOK'
             /\ \A ip \in IPs : /\ now' = now /\ started' = now
                                /\ spent'[ip] = 0
                                /\ Level(ip)' = Burst
  BY <1>5 DEF LimiterTypeOK, LimiterRestart, EmptyMap, IsMap, Bucket, Level, Refilled
<1> QED BY <1>1, <1>2, <1>3, <1>4, <1>5 DEF LimiterNext

\* The invariant holds initially.
LEMMA LimiterInitInv == LimiterInit => LimiterInv
BY LimiterAssumption
DEF LimiterInit, LimiterInv, LimiterTypeOK, BudgetKept, EmptyMap, IsMap, Bucket, Level, Refilled

\* Every step keeps it.
LEMMA LimiterStepInv == LimiterInv /\ [LimiterNext]_limiterVars => LimiterInv'
<1> SUFFICES ASSUME LimiterInv, [LimiterNext]_limiterVars
             PROVE  LimiterInv'
  OBVIOUS
<1>1. CASE LimiterNext
  <2>1. LimiterTypeOK'
    BY <1>1, LevelStep DEF LimiterInv
  <2>2. ASSUME NEW ip \in IPs
        PROVE  spent'[ip] + Level(ip)' <= Burst + (now' - started')
    <3>1. /\ spent[ip] \in Nat /\ spent'[ip] \in Nat
          /\ now \in Nat /\ started \in Nat /\ started <= now
      BY <2>1 DEF LimiterInv, LimiterTypeOK
    <3>2. Level(ip) \in 0..Burst /\ spent[ip] + Level(ip) <= Burst + (now - started)
      BY RefilledInRange DEF LimiterInv, BudgetKept
    <3> QED BY <1>1, <3>1, <3>2, LevelStep, LimiterAssumption DEF LimiterInv
  <2> QED BY <2>1, <2>2 DEF LimiterInv, BudgetKept
<1>2. CASE UNCHANGED limiterVars
  BY <1>2 DEF limiterVars, LimiterInv, LimiterTypeOK, BudgetKept, IsMap, Bucket, Level, Refilled
<1> QED BY <1>1, <1>2

\* Every reachable state of the limiter is well typed and within budget.
THEOREM LimiterCorrect == LimiterSpec => []LimiterInv
BY LimiterInitInv, LimiterStepInv, PTL DEF LimiterSpec

\* POST /pair is charged at most one bucket plus the refill since the process
\* started, per client address: reaping idle buckets does not loosen the limit
\* (MemoryStore.take, MemoryStore.reap).
THEOREM MintRateIsBounded == LimiterSpec => []MintRateBounded
<1>1. LimiterInv => MintRateBounded
  <2> SUFFICES ASSUME LimiterInv, NEW ip \in IPs
               PROVE  spent[ip] <= Burst + (now - started)
    BY DEF MintRateBounded
  <2>1. Level(ip) \in 0..Burst
    BY RefilledInRange DEF LimiterInv
  <2> QED BY <2>1, LimiterAssumption DEF LimiterInv, BudgetKept, LimiterTypeOK
<1> QED BY <1>1, LimiterCorrect, PTL

\* Only an admitted mint lowers what its own client has left; a refusal, a
\* reap or another client's request never does (MemoryStore.take).
THEOREM OnlyMintsCostHolds == LimiterSpec => OnlyMintsCost
<1>1. LimiterInv /\ [LimiterNext]_limiterVars
        => [\A ip \in IPs : spent'[ip] = spent[ip] => Level(ip)' >= Level(ip)]_limiterVars
  <2> SUFFICES ASSUME LimiterInv, LimiterNext, NEW ip \in IPs, spent'[ip] = spent[ip]
               PROVE  Level(ip)' >= Level(ip)
    OBVIOUS
  <2>1. Level(ip) \in 0..Burst /\ spent[ip] \in Nat /\ now \in Nat
    BY RefilledInRange DEF LimiterInv, LimiterTypeOK
  <2> QED BY <2>1, LevelStep, LimiterAssumption DEF LimiterInv
<1> QED BY <1>1, LimiterCorrect, PTL DEF LimiterSpec, OnlyMintsCost

-----------------------------------------------------------------------------
(* ... and of the hosted one.                                              *)

\* By the time its alarm is due, a bucket is full.
FullWhenDue ==
    \A ip \in DOMAIN wakeups : Level(ip) = Burst \/ Level(ip) + (wakeups[ip] - now) >= Burst

DurableLimiterInv ==
    /\ LimiterInv
    /\ IsMap(wakeups, IPs, Nat)
    /\ FullWhenDue

\* How one step changes what each address has left, and when its alarm is due
\* (take and alarm of worker.js).
LEMMA DurableLevelStep ==
    ASSUME DurableLimiterInv, DurableLimiterNext
    PROVE  /\ LimiterTypeOK' /\ IsMap(wakeups, IPs, Nat)'
           /\ started' = started
           /\ \A ip \in IPs :
                \/ /\ now' = now /\ spent'[ip] = spent[ip] + Cost
                   /\ Level(ip)' = Level(ip) - Cost
                   /\ ip \in DOMAIN wakeups' /\ wakeups'[ip] = now + IdleLimit
                \/ /\ now' = now /\ spent'[ip] = spent[ip]
                   /\ Level(ip)' = Level(ip)
                   /\ ip \in DOMAIN wakeups' =>
                        ip \in DOMAIN wakeups /\ wakeups'[ip] = wakeups[ip]
                \/ /\ now' = now + 1 /\ spent'[ip] = spent[ip]
                   /\ \/ Level(ip)' = Level(ip) + 1
                      \/ Level(ip)' = Level(ip) /\ Level(ip) = Burst
                   /\ wakeups' = wakeups
<1> USE LimiterAssumption DEF DurableLimiterInv, LimiterInv
<1>1. ASSUME NEW jp \in IPs, DurableTake(jp)
      PROVE  /\ LimiterTypeOK' /\ IsMap(wakeups, IPs, Nat)'
             /\ started' = started
             /\ \A ip \in IPs :
                \/ /\ now' = now /\ spent'[ip] = spent[ip] + Cost
                   /\ Level(ip)' = Level(ip) - Cost
                   /\ ip \in DOMAIN wakeups' /\ wakeups'[ip] = now + IdleLimit
                \/ /\ now' = now /\ spent'[ip] = spent[ip]
                   /\ Level(ip)' = Level(ip)
                   /\ ip \in DOMAIN wakeups' =>
                        ip \in DOMAIN wakeups /\ wakeups'[ip] = wakeups[ip]
  <2>1. Level(jp) \in 0..Burst /\ Level(jp) = Refilled(buckets, jp)
    BY RefilledInRange DEF Level
  <2>2. CASE Level(jp) >= Cost
    <3>1. /\ buckets' = Put(buckets, jp, [tokens |-> Level(jp) - Cost, seen |-> now])
          /\ spent' = [spent EXCEPT ![jp] = @ + Cost]
          /\ wakeups' = Put(wakeups, jp, now + IdleLimit)
          /\ UNCHANGED <<now, started>>
      BY <1>1, <2>1, <2>2 DEF DurableTake, AlarmPushedBack, LimiterTypeOK
    <3>2. LimiterTypeOK'
      BY <3>1, <2>1, <2>2 DEF LimiterTypeOK, Put, IsMap, Bucket
    <3>3. IsMap(wakeups, IPs, Nat)'
      BY <3>1 DEF LimiterTypeOK, Put, IsMap
    <3>4. /\ spent'[jp] = spent[jp] + Cost /\ Level(jp)' = Level(jp) - Cost
          /\ jp \in DOMAIN wakeups' /\ wakeups'[jp] = now + IdleLimit
      BY <2>1, <2>2, <3>1 DEF LimiterTypeOK, Level, Refilled, LimiterMin, Put
    <3>5. ASSUME NEW ip \in IPs, ip # jp
          PROVE  /\ spent'[ip] = spent[ip] /\ Level(ip)' = Level(ip)
                 /\ ip \in DOMAIN wakeups' =>
                      ip \in DOMAIN wakeups /\ wakeups'[ip] = wakeups[ip]
      BY <3>1, <3>5 DEF LimiterTypeOK, Level, Refilled, Put
    <3> QED BY <3>1, <3>2, <3>3, <3>4, <3>5
  <2>3. CASE Level(jp) < Cost
    <3>1. /\ buckets' = Put(buckets, jp, [tokens |-> Level(jp), seen |-> now])
          /\ UNCHANGED <<now, started, spent, wakeups>>
      BY <1>1, <2>1, <2>3 DEF DurableTake, LimiterTypeOK
    <3>2. LimiterTypeOK' /\ IsMap(wakeups, IPs, Nat)'
      BY <3>1, <2>1 DEF LimiterTypeOK, Put, IsMap, Bucket
    <3>3. Level(jp)' = Level(jp)
      BY <2>1, <3>1 DEF LimiterTypeOK, Level, Refilled, LimiterMin, Put
    <3>4. ASSUME NEW ip \in IPs, ip # jp
          PROVE  Level(ip)' = Level(ip)
      BY <3>1, <3>4 DEF LimiterTypeOK, Level, Refilled, Put
    <3> QED BY <3>1, <3>2, <3>3, <3>4
  <2> QED BY <2>1, <2>2, <2>3
<1>2. ASSUME NEW jp \in IPs, BucketAlarm(jp)
      PROVE  /\ LimiterTypeOK' /\ IsMap(wakeups, IPs, Nat)'
             /\ started' = started
             /\ \A ip \in IPs :
                /\ now' = now /\ spent'[ip] = spent[ip]
                /\ Level(ip)' = Level(ip)
                /\ ip \in DOMAIN wakeups' =>
                     ip \in DOMAIN wakeups /\ wakeups'[ip] = wakeups[ip]
  <2>1. /\ jp \in DOMAIN wakeups /\ now >= wakeups[jp]
        /\ buckets' = Without(buckets, {jp})
        /\ wakeups' = Without(wakeups, {jp})
        /\ UNCHANGED <<now, started, spent>>
    BY <1>2 DEF BucketAlarm
  <2>2. LimiterTypeOK' /\ IsMap(wakeups, IPs, Nat)'
    BY <2>1 DEF LimiterTypeOK, Without, IsMap
  <2>3. Level(jp) = Burst
    BY <2>1, RefilledInRange DEF FullWhenDue, LimiterTypeOK, IsMap
  <2>4. Level(jp)' = Burst
    BY <2>1 DEF Level, Refilled, Without
  <2>5. \A ip \in IPs : ip # jp => Level(ip)' = Level(ip)
    BY <2>1 DEF Level, Refilled, Without
  <2>6. \A ip \in DOMAIN wakeups' : ip \in DOMAIN wakeups /\ wakeups'[ip] = wakeups[ip]
    BY <2>1 DEF Without
  <2> QED BY <2>1, <2>2, <2>3, <2>4, <2>5, <2>6
<1>3. ASSUME Tick, UNCHANGED wakeups
      PROVE  /\ LimiterTypeOK' /\ IsMap(wakeups, IPs, Nat)'
             /\ started' = started /\ now' = now + 1 /\ wakeups' = wakeups
             /\ \A ip \in IPs :
                /\ spent'[ip] = spent[ip]
                /\ \/ Level(ip)' = Level(ip) + 1
                   \/ Level(ip)' = Level(ip) /\ Level(ip) = Burst
  <2>1. LimiterTypeOK' /\ IsMap(wakeups, IPs, Nat)'
    BY <1>3 DEF LimiterTypeOK, Tick, IsMap, Bucket
  <2>2. ASSUME NEW ip \in IPs
        PROVE  Level(ip)' = Level(ip) + 1 \/ (Level(ip)' = Level(ip) /\ Level(ip) = Burst)
    <3>1. CASE ip \in DOMAIN buckets
      <4>1. UNCHANGED buckets /\ now' = now + 1 /\ now \in Nat /\ buckets[ip] \in Bucket
        BY <1>3, <3>1 DEF LimiterTypeOK, Tick, IsMap
      <4> QED BY <3>1, <4>1 DEF Bucket, Level, Refilled, LimiterMin
    <3>2. CASE ip \notin DOMAIN buckets
      BY <1>3, <3>2 DEF Tick, Level, Refilled
    <3> QED BY <3>1, <3>2
  <2> QED BY <1>3, <2>1, <2>2 DEF Tick
<1> QED BY <1>1, <1>2, <1>3 DEF DurableLimiterNext

\* The invariant holds initially.
LEMMA DurableLimiterInitInv == DurableLimiterInit => DurableLimiterInv
<1>1. LimiterInit => LimiterInv
  BY LimiterInitInv
<1>2. wakeups = EmptyMap => IsMap(wakeups, IPs, Nat) /\ FullWhenDue
  BY DEF EmptyMap, IsMap, FullWhenDue
<1> QED BY <1>1, <1>2 DEF DurableLimiterInit, DurableLimiterInv

\* Every step keeps it.
LEMMA DurableLimiterStepInv ==
    DurableLimiterInv /\ [DurableLimiterNext]_durableLimiterVars => DurableLimiterInv'
<1> SUFFICES ASSUME DurableLimiterInv, [DurableLimiterNext]_durableLimiterVars
             PROVE  DurableLimiterInv'
  OBVIOUS
<1> USE LimiterAssumption
<1>1. CASE DurableLimiterNext
  <2>1. LimiterTypeOK' /\ IsMap(wakeups, IPs, Nat)'
    BY <1>1, DurableLevelStep
  <2>2. /\ now \in Nat /\ started \in Nat /\ started <= now
        /\ \A ip \in IPs : spent[ip] \in Nat
        /\ \A ip \in IPs : Level(ip) \in 0..Burst
        /\ \A ip \in DOMAIN wakeups : ip \in IPs /\ wakeups[ip] \in Nat
    BY RefilledInRange DEF DurableLimiterInv, LimiterInv, LimiterTypeOK, IsMap
  <2>3. ASSUME NEW ip \in IPs
        PROVE  spent'[ip] + Level(ip)' <= Burst + (now' - started')
    <3>1. spent[ip] + Level(ip) <= Burst + (now - started)
      BY DEF DurableLimiterInv, LimiterInv, BudgetKept
    <3> QED BY <1>1, <2>2, <3>1, DurableLevelStep
  <2>4. ASSUME NEW ip \in DOMAIN wakeups'
        PROVE  Level(ip)' = Burst \/ Level(ip)' + (wakeups'[ip] - now') >= Burst
    <3>1. ip \in IPs
      BY <2>1, <2>4 DEF IsMap
    <3>2. ip \in DOMAIN wakeups =>
            Level(ip) = Burst \/ Level(ip) + (wakeups[ip] - now) >= Burst
      BY DEF DurableLimiterInv, FullWhenDue
    <3>3. Level(ip)' \in 0..Burst
      BY <2>1, <3>1 DEF LimiterTypeOK, Level, Refilled, LimiterMin, IsMap, Bucket
    <3> QED BY <1>1, <2>2, <3>1, <3>2, <3>3, DurableLevelStep
  <2> QED BY <2>1, <2>3, <2>4 DEF DurableLimiterInv, LimiterInv, BudgetKept, FullWhenDue
<1>2. CASE UNCHANGED durableLimiterVars
  BY <1>2 DEF durableLimiterVars, limiterVars, DurableLimiterInv, LimiterInv, LimiterTypeOK,
              BudgetKept, FullWhenDue, IsMap, Bucket, Level, Refilled
<1> QED BY <1>1, <1>2

\* Every reachable state of the hosted limiter is well typed and within budget,
\* and no alarm comes too early.
THEOREM DurableLimiterCorrect == DurableLimiterSpec => []DurableLimiterInv
BY DurableLimiterInitInv, DurableLimiterStepInv, PTL DEF DurableLimiterSpec

\* The alarm of a Durable Object wipes a bucket only when it is full, or would
\* be by now, although refused takes do not push the alarm back (worker.js:142).
THEOREM WipedBucketsAreFull == DurableLimiterSpec => []WipedBucketIsFull
<1>1. DurableLimiterInv => WipedBucketIsFull
  <2> SUFFICES ASSUME DurableLimiterInv, NEW ip \in DOMAIN wakeups, now >= wakeups[ip]
               PROVE  Level(ip) = Burst
    BY DEF WipedBucketIsFull
  <2>1. ip \in IPs /\ wakeups[ip] \in Nat /\ now \in Nat /\ LimiterTypeOK
    BY DEF DurableLimiterInv, LimiterInv, LimiterTypeOK, IsMap
  <2>2. Level(ip) \in 0..Burst
    BY <2>1, RefilledInRange
  <2> QED BY <2>1, <2>2, LimiterAssumption DEF DurableLimiterInv, FullWhenDue
<1> QED BY <1>1, DurableLimiterCorrect, PTL

\* The hosted broker keeps the bound of the in-memory one.
THEOREM DurableMintRateIsBounded == DurableLimiterSpec => []MintRateBounded
<1>1. DurableLimiterInv => MintRateBounded
  <2> SUFFICES ASSUME DurableLimiterInv, NEW ip \in IPs
               PROVE  spent[ip] <= Burst + (now - started)
    BY DEF MintRateBounded
  <2>1. Level(ip) \in 0..Burst
    BY RefilledInRange DEF DurableLimiterInv, LimiterInv
  <2> QED BY <2>1, LimiterAssumption DEF DurableLimiterInv, LimiterInv, BudgetKept, LimiterTypeOK
<1> QED BY <1>1, DurableLimiterCorrect, PTL

-----------------------------------------------------------------------------
(* What a pairing store promises.                                          *)

\* AtMostOnce is not inductive alone: that a claim appends to an empty answer
\* needs that a code is ready only before it was handed over.
ContractInv == ContractTypeOK /\ AtMostOnce /\ HeldOnlyWhileReady

LEMMA ContractInitInv == ContractInit => ContractInv
BY PairingsAssumption
DEF ContractInit, ContractInv, ContractTypeOK, AtMostOnce, HeldOnlyWhileReady, Phases

\* complete() stores a token that is nowhere else.
LEMMA ContractCompleteInv ==
    ASSUME ContractInv, NEW d \in DeviceCodes, NEW g \in Grants, ContractComplete(d, g)
    PROVE  ContractInv'
<1> USE PairingsAssumption DEF ContractInv
<1>1. ContractTypeOK'
  BY DEF ContractComplete, ContractTypeOK, Phases
<1>2. AtMostOnce'
  BY DEF ContractComplete, AtMostOnce
<1>3. /\ held'[d] = g /\ phase'[d] = "ready" /\ given[d] = <<>>
      /\ \A e \in DeviceCodes : e # d => held'[e] = held[e] /\ phase'[e] = phase[e]
      /\ \A e \in DeviceCodes : held[e] # g /\ given[e] # <<g>> /\ given'[e] = given[e]
  BY DEF ContractComplete, ContractTypeOK, HeldOnlyWhileReady
<1>4. g # None
  OBVIOUS
<1>5. HeldOnlyWhileReady'
  <2>1. \A e \in DeviceCodes : held'[e] # None <=> phase'[e] = "ready"
    BY <1>3, <1>4 DEF HeldOnlyWhileReady
  <2>2. \A e \in DeviceCodes : given'[e] # <<>> <=> phase'[e] = "handed"
    BY <1>3 DEF HeldOnlyWhileReady
  <2>3. \A e, f \in DeviceCodes : e # f /\ held'[e] # None => held'[e] # held'[f]
    BY <1>3 DEF HeldOnlyWhileReady
  <2>4. \A e, f \in DeviceCodes : held'[e] # None => given'[f] # <<held'[e]>>
    BY <1>3 DEF HeldOnlyWhileReady
  <2> QED BY <2>1, <2>2, <2>3, <2>4 DEF HeldOnlyWhileReady
<1> QED BY <1>1, <1>2, <1>5

\* claim() hands over the token held, once.
LEMMA ContractClaimInv ==
    ASSUME ContractInv, NEW d \in DeviceCodes, ContractClaim(d)
    PROVE  ContractInv'
<1> USE PairingsAssumption DEF ContractInv
<1> DEFINE g == held[d]
<1>1. /\ g \in Grants /\ g # None /\ given[d] = <<>>
      /\ \A e \in DeviceCodes : e # d => held[e] # g
      /\ \A e \in DeviceCodes : given[e] # <<g>>
  BY DEF ContractClaim, ContractTypeOK, HeldOnlyWhileReady
<1>2. Append(given[d], g) = <<g>> /\ <<g>> \in Seq(Grants) /\ Len(<<g>>) = 1
  BY <1>1
<1>3. /\ given' = [given EXCEPT ![d] = <<g>>]
      /\ held' = [held EXCEPT ![d] = None]
      /\ phase' = [phase EXCEPT ![d] = "handed"]
  BY <1>2 DEF ContractClaim
<1>4. ContractTypeOK'
  BY <1>2, <1>3 DEF ContractTypeOK, Phases
<1>5. /\ given'[d] = <<g>> /\ held'[d] = None /\ phase'[d] = "handed"
      /\ \A e \in DeviceCodes : e # d =>
           given'[e] = given[e] /\ held'[e] = held[e] /\ phase'[e] = phase[e]
  BY <1>3 DEF ContractTypeOK
<1>6. AtMostOnce'
  <2>1. ASSUME NEW e \in DeviceCodes PROVE Len(given'[e]) <= 1
    <3>1. CASE e = d
      <4>1. given'[e] = <<g>>
        BY <1>5, <3>1
      <4> QED BY <4>1
    <3>2. CASE e # d
      <4>1. given'[e] = given[e]
        BY <1>5, <3>2
      <4> QED BY <4>1 DEF AtMostOnce
    <3> QED BY <3>1, <3>2
  <2>2. \A e, f \in DeviceCodes : e # f /\ given'[e] # <<>> => given'[e] # given'[f]
    BY <1>1, <1>5 DEF AtMostOnce
  <2> QED BY <2>1, <2>2 DEF AtMostOnce
<1>7. HeldOnlyWhileReady'
  <2>1. \A e \in DeviceCodes : held'[e] # None <=> phase'[e] = "ready"
    BY <1>5 DEF HeldOnlyWhileReady
  <2>2. \A e \in DeviceCodes : given'[e] # <<>> <=> phase'[e] = "handed"
    BY <1>2, <1>5 DEF HeldOnlyWhileReady
  <2>3. \A e, f \in DeviceCodes : e # f /\ held'[e] # None => held'[e] # held'[f]
    BY <1>5 DEF HeldOnlyWhileReady
  <2>4. ASSUME NEW e \in DeviceCodes, NEW f \in DeviceCodes, held'[e] # None
        PROVE  given'[f] # <<held'[e]>>
    <3>1. e # d /\ held'[e] = held[e] /\ held[e] # g
      BY <1>1, <1>5, <2>4
    <3>2. CASE f = d
      BY <1>5, <3>1, <3>2
    <3>3. CASE f # d
      BY <1>5, <2>4, <3>1, <3>3 DEF HeldOnlyWhileReady
    <3> QED BY <3>2, <3>3
  <2> QED BY <2>1, <2>2, <2>3, <2>4 DEF HeldOnlyWhileReady
<1> QED BY <1>4, <1>6, <1>7

\* Minting, expiry and stuttering move no token.
LEMMA ContractStepInv == ContractInv /\ [ContractNext]_contractVars => ContractInv'
<1> SUFFICES ASSUME ContractInv, [ContractNext]_contractVars PROVE ContractInv'
  OBVIOUS
<1> USE PairingsAssumption DEF ContractInv
<1>1. ASSUME NEW d \in DeviceCodes, ContractMint(d) PROVE ContractInv'
  BY <1>1 DEF ContractMint, ContractTypeOK, AtMostOnce, HeldOnlyWhileReady, Phases
<1>2. ASSUME NEW S \in SUBSET DeviceCodes, ContractExpire(S) PROVE ContractInv'
  <2>1. ContractTypeOK'
    BY <1>2 DEF ContractExpire, ContractTypeOK, Phases
  <2>2. AtMostOnce'
    BY <1>2 DEF ContractExpire, AtMostOnce
  <2>3. HeldOnlyWhileReady'
    BY <1>2 DEF ContractExpire, ContractTypeOK, HeldOnlyWhileReady
  <2> QED BY <2>1, <2>2, <2>3
<1>3. CASE UNCHANGED contractVars
  BY <1>3 DEF contractVars, ContractTypeOK, AtMostOnce, HeldOnlyWhileReady
<1> QED BY <1>1, <1>2, <1>3, ContractCompleteInv, ContractClaimInv DEF ContractNext

\* A store that keeps the contract holds a token only while its code is ready.
THEOREM ContractCorrect == ContractSpec => []ContractInv
BY ContractInitInv, ContractStepInv, PTL DEF ContractSpec

\* It gives each device code at most one token, and no token to two codes.
THEOREM ContractAtMostOnce == ContractSpec => []AtMostOnce
<1>1. ContractInv => AtMostOnce
  BY DEF ContractInv
<1> QED BY <1>1, ContractCorrect, PTL

-----------------------------------------------------------------------------
(* The broker's store.                                                     *)

\* reap() keeps exactly the entries whose window is open (MemoryStore.reap).
LEMMA ReapedMaps ==
    ASSUME BrokerTypeOK
    PROVE  /\ IsMap(ReapedPairings, DeviceCodes, Pairing)
           /\ IsMap(ReapedUsers, UserCodes, Pointer)
           /\ \A d \in DOMAIN ReapedPairings :
                /\ d \in DOMAIN pairings
                /\ ReapedPairings[d] = pairings[d]
                /\ now <= pairings[d].expires
           /\ \A d \in DOMAIN pairings :
                now <= pairings[d].expires => d \in DOMAIN ReapedPairings
           /\ \A u \in DOMAIN ReapedUsers :
                /\ u \in DOMAIN users
                /\ ReapedUsers[u] = users[u]
<1>1. now \in Nat /\ \A d \in DOMAIN pairings : pairings[d].expires \in Nat
  BY DEF BrokerTypeOK, LimiterTypeOK, IsMap, Pairing
<1> QED BY <1>1 DEF BrokerTypeOK, ReapedPairings, ReapedUsers, Without, IsMap

\* Whatever the broker does, the rate limiter sees one of its own steps or none.
LEMMA BrokerStepIsLimiterStep ==
    ASSUME [BrokerNext]_brokerVars
    PROVE  [LimiterNext]_limiterVars
BY DEF BrokerNext, brokerVars, limiterVars, LimiterNext, PairTake, GoResolve, GoAnswer,
       CallbackResolve, CallbackCheck, Continue, ExchangeSucceeds, ExchangeFails,
       CallbackComplete, PairMint, Poll, Consent, TimePasses, Restart, ReapOnly

\* A step of the broker keeps the limiter well typed.
LEMMA LimiterTypeKept ==
    ASSUME LimiterTypeOK, [BrokerNext]_brokerVars
    PROVE  LimiterTypeOK'
<1>1. CASE LimiterNext
  BY <1>1, LevelStep
<1>2. CASE UNCHANGED limiterVars
  BY <1>2 DEF limiterVars, LimiterTypeOK, IsMap, Bucket
<1> QED BY <1>1, <1>2, BrokerStepIsLimiterStep

\* The pairing stored for the device code minted with v is v's own.
LEMMA PairingOfUserCode ==
    ASSUME BrokerInv, NEW v \in DOMAIN minted, minted[v].device \in DOMAIN pairings
    PROVE  LET p == pairings[minted[v].device]
           IN /\ p.userCode = v
              /\ minted[v].expires = p.expires
              /\ minted[v].epoch = restarts
              /\ handed[minted[v].device] = <<>>
<1> DEFINE d == minted[v].device
           u == pairings[d].userCode
<1>1. /\ u \in DOMAIN minted
      /\ minted[u].device = d
      /\ minted[u].expires = pairings[d].expires
      /\ minted[u].epoch = restarts
      /\ handed[d] = <<>>
  BY DEF BrokerInv, PairingsAgree, PairingAgrees
<1>2. u = v
  BY <1>1 DEF BrokerInv, MintedInPairs
<1> QED BY <1>1, <1>2

\* What a request that only reads the store cannot disturb: it reaps, or does
\* not touch the store, while the clock may advance, phones may be sent to
\* Notion and codes may be exchanged.
QuietStep ==
    /\ \/ pairings' = ReapedPairings /\ users' = ReapedUsers
       \/ UNCHANGED storeVars
    /\ now' \in {now, now + 1}
    /\ redirected \subseteq redirected' /\ redirected' \subseteq DOMAIN minted
    /\ redeemed \subseteq redeemed' /\ redeemed' \subseteq Grants
    /\ UNCHANGED <<consents, historyVars>>

LEMMA QuietStepKeepsStore ==
    ASSUME BrokerInv, QuietStep
    PROVE  /\ IsMap(pairings, DeviceCodes, Pairing)'
           /\ IsMap(users, UserCodes, Pointer)'
           /\ MintedInPairs' /\ ConsentsForMinted' /\ PointersAgree'
           /\ PairingsAgree' /\ HandedAgree' /\ ToldAgree' /\ ConnectedIsNotLost'
<1> USE DEF BrokerInv
<1>1. /\ \A d \in DOMAIN pairings' : d \in DOMAIN pairings /\ pairings'[d] = pairings[d]
      /\ \A u \in DOMAIN users' : u \in DOMAIN users /\ users'[u] = users[u]
      /\ \A d \in DOMAIN pairings : now <= pairings[d].expires => d \in DOMAIN pairings'
  BY ReapedMaps DEF QuietStep, storeVars
<1>2. IsMap(pairings, DeviceCodes, Pairing)' /\ IsMap(users, UserCodes, Pointer)'
  BY ReapedMaps DEF QuietStep, BrokerTypeOK, IsMap, storeVars
<1>3. MintedInPairs' /\ ConsentsForMinted'
  BY DEF QuietStep, MintedInPairs, ConsentsForMinted, historyVars
<1>4. PointersAgree'
  BY <1>1 DEF QuietStep, PointersAgree, historyVars
<1>5. PairingsAgree'
  BY <1>1 DEF QuietStep, PairingsAgree, PairingAgrees, Belongs, historyVars
<1>6. HandedAgree' /\ ToldAgree'
  BY DEF QuietStep, HandedAgree, ToldAgree, Belongs, historyVars
<1>7. ConnectedIsNotLost'
  <2> SUFFICES ASSUME NEW g \in told
               PROVE  LET d == minted[consents[g]].device
                      IN \/ Gone(consents[g])'
                         \/ \E h \in told : handed[d] = <<h>>
                         \/ d \in DOMAIN pairings' /\ pairings'[d].token \in told
    BY DEF QuietStep, ConnectedIsNotLost, historyVars
  <2> DEFINE v == consents[g]
             d == minted[v].device
  <2>1. v \in DOMAIN minted /\ now \in Nat /\ minted[v].expires \in Nat
    BY DEF ToldAgree, ConsentsForMinted, BrokerTypeOK, LimiterTypeOK, IsMap, Birth
  <2>2. CASE Gone(v)
    BY <2>1, <2>2 DEF Gone, QuietStep, historyVars
  <2>3. CASE d \in DOMAIN pairings /\ pairings[d].token \in told
    <3>1. CASE d \in DOMAIN pairings'
      BY <1>1, <2>3, <3>1
    <3>2. CASE d \notin DOMAIN pairings'
      <4>1. now > pairings[d].expires
        BY <1>1, <2>1, <2>3, <3>2 DEF BrokerTypeOK, IsMap, Pairing
      <4>2. minted[v].expires = pairings[d].expires
        BY <2>1, <2>3, PairingOfUserCode
      <4> QED BY <2>1, <4>1, <4>2 DEF Gone, QuietStep, historyVars
    <3> QED BY <3>1, <3>2
  <2> QED BY <2>2, <2>3 DEF ConnectedIsNotLost
<1> QED BY <1>2, <1>3, <1>4, <1>5, <1>6, <1>7

-----------------------------------------------------------------------------
(* Every step keeps the invariant *)

\* What a handler carries stays true through a quiet step of another handler.
LEMMA QuietStepKeepsHandlers ==
    ASSUME BrokerInv, QuietStep, NEW r \in Slots, NEW h \in Handler,
           reqs' = [reqs EXCEPT ![r] = h],
           h.pc \in {"go", "check", "exchange", "complete"} =>
                h.user \in DOMAIN minted /\ h.device = minted[h.user].device,
           h.pc \in {"check", "exchange", "complete"} =>
                h.grant \in DOMAIN consents /\ consents[h.grant] = h.user,
           h.pc = "complete" =>
                h.grant \in redeemed' /\ h.grant \notin redeemed
    PROVE  reqs' \in [Slots -> Handler] /\ HandlersAgree' /\ TokensInOnePlace'
<1> USE DEF BrokerInv
<1>1. reqs' \in [Slots -> Handler]
  BY DEF BrokerTypeOK
<1>2. reqs'[r] = h /\ \A q \in Slots : q # r => reqs'[q] = reqs[q]
  BY DEF BrokerTypeOK
<1>3. HandlersAgree'
  BY <1>2 DEF HandlersAgree, QuietStep, historyVars
<1>4. TokensInOnePlace'
  BY <1>2 DEF TokensInOnePlace, HandlersAgree, ToldAgree, QuietStep, historyVars
<1> QED BY <1>1, <1>3, <1>4

\* The invariant holds initially.
LEMMA BrokerInitInv == BrokerInit => BrokerInv
<1> SUFFICES ASSUME BrokerInit PROVE BrokerInv
  OBVIOUS
<1>1. BrokerTypeOK
  BY LimiterInitInv, BrokerAssumption
  DEF BrokerInit, BrokerTypeOK, LimiterInv, EmptyMap, IsMap, Idle, Handling, Handler
<1> QED BY <1>1 DEF BrokerInit, BrokerInv, MintedInPairs, ConsentsForMinted, PointersAgree,
        PairingsAgree, HandedAgree, HandlersAgree, TokensInOnePlace, ToldAgree,
        ConnectedIsNotLost, EmptyMap, Idle, Handling

\* A quiet step that leaves the handlers alone or moves one of them on.
LEMMA QuietStepInv ==
    ASSUME BrokerInv, [BrokerNext]_brokerVars, QuietStep,
           reqs' \in [Slots -> Handler] /\ HandlersAgree' /\ TokensInOnePlace'
    PROVE  BrokerInv'
<1>1. LimiterTypeOK'
  BY LimiterTypeKept DEF BrokerInv, BrokerTypeOK
<1>2. BrokerTypeOK'
  BY <1>1, QuietStepKeepsStore
  DEF BrokerInv, BrokerTypeOK, QuietStep, historyVars, IsMap, ConsentsForMinted
<1> QED BY <1>2, QuietStepKeepsStore DEF BrokerInv

\* Such a step when no handler moves.
LEMMA QuietStepNobodyMoves ==
    ASSUME BrokerInv, QuietStep, UNCHANGED reqs
    PROVE  reqs' \in [Slots -> Handler] /\ HandlersAgree' /\ TokensInOnePlace'
BY DEF QuietStep, historyVars, BrokerInv, BrokerTypeOK, HandlersAgree, TokensInOnePlace

\* The first stretch of POST /pair, of /go and of /callback: the request
\* arrives, one store call, and either an answer or the next await.
LEMMA ArrivalInv ==
    ASSUME BrokerInv, NEW r \in Slots,
           \/ \E ip \in IPs : PairTake(r, ip)
           \/ \E u \in UserCodes : GoResolve(r, u)
           \/ \E g \in Grants : CallbackResolve(r, g)
    PROVE  BrokerInv'
<1> USE DEF BrokerInv
<1>0. \A u \in UserCodes : Resolved(u) # None =>
        u \in DOMAIN minted /\ Resolved(u) = minted[u].device /\ Resolved(u) \in DeviceCodes
  BY ReapedMaps DEF Resolved, PointersAgree, IsMap, Pointer
<1>1. ASSUME NEW ip \in IPs, PairTake(r, ip) PROVE BrokerInv'
  <2>1. QuietStep
    BY <1>1 DEF PairTake, QuietStep, TakeAdmitted, TakeRefused, notionVars, ConsentsForMinted,
                BrokerTypeOK, LimiterTypeOK
  <2>2. CASE UNCHANGED reqs
    BY <1>1, <2>1, <2>2, QuietStepInv, QuietStepNobodyMoves DEF BrokerNext
  <2>3. CASE Goto(r, Handling("mint", None, None, None))
    <3> DEFINE h == Handling("mint", None, None, None)
    <3>1. h \in Handler /\ h.pc = "mint"
      BY DEF Handling, Handler
    <3>2. reqs' \in [Slots -> Handler] /\ HandlersAgree' /\ TokensInOnePlace'
      BY <2>1, <2>3, <3>1, QuietStepKeepsHandlers DEF Goto
    <3> QED BY <1>1, <2>1, <3>2, QuietStepInv DEF BrokerNext
  <2> QED BY <1>1, <2>2, <2>3 DEF PairTake
<1>2. ASSUME NEW u \in UserCodes, GoResolve(r, u) PROVE BrokerInv'
  <2>1. QuietStep
    BY <1>2 DEF GoResolve, QuietStep, ReapOnly, ReapBuckets, notionVars, ConsentsForMinted,
                BrokerTypeOK, LimiterTypeOK
  <2>2. CASE UNCHANGED reqs
    BY <1>2, <2>1, <2>2, QuietStepInv, QuietStepNobodyMoves DEF BrokerNext
  <2>3. CASE Resolved(u) # None /\ Goto(r, Handling("go", u, Resolved(u), None))
    <3> DEFINE h == Handling("go", u, Resolved(u), None)
    <3>1. h \in Handler /\ h.pc = "go" /\ h.user = u /\ h.device = Resolved(u)
      BY <1>0, <2>3 DEF Handling, Handler
    <3>2. reqs' \in [Slots -> Handler] /\ HandlersAgree' /\ TokensInOnePlace'
      BY <1>0, <2>1, <2>3, <3>1, QuietStepKeepsHandlers DEF Goto
    <3> QED BY <1>2, <2>1, <3>2, QuietStepInv DEF BrokerNext
  <2> QED BY <1>2, <2>2, <2>3 DEF GoResolve
<1>3. ASSUME NEW g \in Grants, CallbackResolve(r, g) PROVE BrokerInv'
  <2> DEFINE u == consents[g]
  <2>1. QuietStep
    BY <1>3 DEF CallbackResolve, QuietStep, ReapOnly, ReapBuckets, notionVars, ConsentsForMinted,
                BrokerTypeOK, LimiterTypeOK
  <2>2. CASE UNCHANGED reqs
    BY <1>3, <2>1, <2>2, QuietStepInv, QuietStepNobodyMoves DEF BrokerNext
  <2>3. CASE Resolved(u) # None /\ Goto(r, Handling("check", u, Resolved(u), g))
    <3> DEFINE h == Handling("check", u, Resolved(u), g)
    <3>0. u \in UserCodes
      BY <1>3 DEF CallbackResolve, BrokerTypeOK, IsMap
    <3>1. /\ h \in Handler /\ h.pc = "check" /\ h.user = u
          /\ h.device = Resolved(u) /\ h.grant = g
      BY <1>0, <2>3, <3>0 DEF Handling, Handler
    <3>2. reqs' \in [Slots -> Handler] /\ HandlersAgree' /\ TokensInOnePlace'
      BY <1>0, <1>3, <2>1, <2>3, <3>0, <3>1, QuietStepKeepsHandlers DEF Goto, CallbackResolve
    <3> QED BY <1>3, <2>1, <3>2, QuietStepInv DEF BrokerNext
  <2> QED BY <1>3, <2>2, <2>3 DEF CallbackResolve
<1> QED BY <1>1, <1>2, <1>3

\* Going idle is always fine for the handlers' part of the invariant.
LEMMA QuietStepGoesIdle ==
    ASSUME BrokerInv, QuietStep, NEW r \in Slots, Goto(r, Idle)
    PROVE  reqs' \in [Slots -> Handler] /\ HandlersAgree' /\ TokensInOnePlace'
<1>1. Idle \in Handler /\ Idle.pc = "idle"
  BY DEF Idle, Handling, Handler
<1> QED BY <1>1, QuietStepKeepsHandlers DEF Goto

\* The later stretches of /go and /callback, up to complete().
LEMMA QuietContinueInv ==
    ASSUME BrokerInv, NEW r \in Slots,
           \/ \E method \in {"GET", "POST"} : GoAnswer(r, method)
           \/ CallbackCheck(r)
           \/ ExchangeSucceeds(r)
           \/ ExchangeFails(r)
    PROVE  BrokerInv'
<1> USE DEF BrokerInv
<1>0. reqs[r] \in Handler /\ now \in Nat /\ redirected \subseteq DOMAIN minted
  BY DEF BrokerTypeOK, LimiterTypeOK, ConsentsForMinted
<1>1. ASSUME NEW method \in {"GET", "POST"}, GoAnswer(r, method) PROVE BrokerInv'
  <2>1. reqs[r].user \in DOMAIN minted
    BY <1>1 DEF GoAnswer, At, HandlersAgree
  <2>2. QuietStep
    BY <1>0, <1>1, <2>1 DEF GoAnswer, QuietStep, ReapOnly, ReapBuckets, BrokerTypeOK
  <2>3. reqs' \in [Slots -> Handler] /\ HandlersAgree' /\ TokensInOnePlace'
    BY <1>1, <2>2, QuietStepGoesIdle DEF GoAnswer
  <2> QED BY <1>1, <2>2, <2>3, QuietStepInv DEF BrokerNext, Continue
<1>2. ASSUME CallbackCheck(r) PROVE BrokerInv'
  <2>1. QuietStep
    BY <1>0, <1>2 DEF CallbackCheck, QuietStep, ReapOnly, ReapBuckets, notionVars, BrokerTypeOK
  <2>2. CASE Goto(r, Idle)
    <3>1. reqs' \in [Slots -> Handler] /\ HandlersAgree' /\ TokensInOnePlace'
      BY <2>1, <2>2, QuietStepGoesIdle
    <3> QED BY <1>2, <2>1, <3>1, QuietStepInv DEF BrokerNext, Continue
  <2>3. CASE Advance(r, "exchange")
    <3> DEFINE h == Handling("exchange", reqs[r].user, reqs[r].device, reqs[r].grant)
    <3>1. /\ h \in Handler /\ h.pc = "exchange" /\ h.user = reqs[r].user
          /\ h.device = reqs[r].device /\ h.grant = reqs[r].grant
      BY <1>0 DEF Handling, Handler
    <3>2. reqs' \in [Slots -> Handler] /\ HandlersAgree' /\ TokensInOnePlace'
      BY <1>2, <2>1, <2>3, <3>1, QuietStepKeepsHandlers
      DEF Advance, Goto, CallbackCheck, At, HandlersAgree
    <3> QED BY <1>2, <2>1, <3>2, QuietStepInv DEF BrokerNext, Continue
  <2> QED BY <1>2, <2>2, <2>3 DEF CallbackCheck
<1>3. ASSUME ExchangeSucceeds(r) PROVE BrokerInv'
  <2> DEFINE h == Handling("complete", reqs[r].user, reqs[r].device, reqs[r].grant)
  <2>0. reqs[r].grant \in DOMAIN consents /\ DOMAIN consents \subseteq Grants
    BY <1>3 DEF ExchangeSucceeds, At, HandlersAgree, BrokerTypeOK, IsMap
  <2>1. QuietStep
    BY <1>0, <1>3, <2>0 DEF ExchangeSucceeds, QuietStep, limiterVars, BrokerTypeOK
  <2>2. /\ h \in Handler /\ h.pc = "complete" /\ h.user = reqs[r].user
        /\ h.device = reqs[r].device /\ h.grant = reqs[r].grant
    BY <1>0 DEF Handling, Handler
  <2>3. reqs' \in [Slots -> Handler] /\ HandlersAgree' /\ TokensInOnePlace'
    BY <1>3, <2>1, <2>2, QuietStepKeepsHandlers
    DEF ExchangeSucceeds, Advance, Goto, At, HandlersAgree
  <2> QED BY <1>3, <2>1, <2>3, QuietStepInv DEF BrokerNext, Continue
<1>4. ASSUME ExchangeFails(r) PROVE BrokerInv'
  <2>0. reqs[r].grant \in DOMAIN consents /\ DOMAIN consents \subseteq Grants
    BY <1>4 DEF ExchangeFails, At, HandlersAgree, BrokerTypeOK, IsMap
  <2>1. QuietStep
    BY <1>0, <1>4, <2>0 DEF ExchangeFails, QuietStep, limiterVars, BrokerTypeOK
  <2>2. reqs' \in [Slots -> Handler] /\ HandlersAgree' /\ TokensInOnePlace'
    BY <1>4, <2>1, QuietStepGoesIdle DEF ExchangeFails
  <2> QED BY <1>4, <2>1, <2>2, QuietStepInv DEF BrokerNext, Continue
<1> QED BY <1>1, <1>2, <1>3, <1>4

\* The clock ticks.
LEMMA TimePassesInv ==
    ASSUME BrokerInv, TimePasses
    PROVE  BrokerInv'
<1>1. QuietStep
  BY DEF TimePasses, Tick, QuietStep, notionVars, BrokerInv, BrokerTypeOK, ConsentsForMinted
<1>2. reqs' \in [Slots -> Handler] /\ HandlersAgree' /\ TokensInOnePlace'
  BY <1>1, QuietStepNobodyMoves DEF TimePasses
<1> QED BY <1>1, <1>2, QuietStepInv DEF BrokerNext

\* A user grants access: a new grant, whose state is a minted user code.
LEMMA ConsentInv ==
    ASSUME BrokerInv, NEW g \in Grants, NEW u \in UserCodes, Consent(g, u)
    PROVE  BrokerInv'
<1> USE DEF BrokerInv
<1>1. /\ \A k \in DOMAIN consents : k \in DOMAIN consents' /\ consents'[k] = consents[k]
      /\ DOMAIN consents' = DOMAIN consents \cup {g} /\ consents'[g] = u
      /\ u \in redirected /\ g \notin DOMAIN consents
      /\ UNCHANGED <<limiterVars, storeVars, reqs, redirected, redeemed, historyVars>>
  BY DEF Consent, Put
<1>2. BrokerTypeOK'
  <2>1. IsMap(consents, Grants, UserCodes)'
    BY DEF Consent, Put, IsMap, BrokerTypeOK
  <2> QED BY <1>1, <2>1 DEF BrokerTypeOK, LimiterTypeOK, IsMap, limiterVars, storeVars, historyVars
<1>3. MintedInPairs' /\ ConsentsForMinted' /\ PointersAgree'
  BY <1>1 DEF MintedInPairs, ConsentsForMinted, PointersAgree, storeVars, historyVars
<1>4. PairingsAgree' /\ HandedAgree' /\ ToldAgree'
  BY <1>1 DEF PairingsAgree, PairingAgrees, HandedAgree, ToldAgree, Belongs, storeVars, historyVars
<1>5. HandlersAgree' /\ TokensInOnePlace'
  BY <1>1 DEF HandlersAgree, TokensInOnePlace, historyVars
<1>6. ConnectedIsNotLost'
  BY <1>1 DEF ConnectedIsNotLost, ToldAgree, Gone, limiterVars, storeVars, historyVars
<1> QED BY <1>2, <1>3, <1>4, <1>5, <1>6

\* After reaping, a phone that saw "Connected" still has its device served, or
\* its window is over.
LEMMA ConnectedSurvivesReap ==
    ASSUME BrokerInv, NEW g \in told
    PROVE  LET d == minted[consents[g]].device
           IN /\ consents[g] \in DOMAIN minted
              /\ \/ Gone(consents[g])
                 \/ \E h \in told : handed[d] = <<h>>
                 \/ d \in DOMAIN ReapedPairings /\ pairings[d].token \in told
<1> DEFINE v == consents[g]
           d == minted[v].device
<1>1. v \in DOMAIN minted /\ now \in Nat /\ minted[v].expires \in Nat
  BY DEF BrokerInv, ToldAgree, ConsentsForMinted, BrokerTypeOK, LimiterTypeOK, IsMap, Birth
<1>2. CASE d \in DOMAIN pairings /\ d \notin DOMAIN ReapedPairings
  <2>1. pairings[d].expires = minted[v].expires
    BY <1>1, <1>2, PairingOfUserCode
  <2>2. now > minted[v].expires
    BY <1>1, <1>2, <2>1, ReapedMaps DEF BrokerInv
  <2> QED BY <1>1, <2>2 DEF Gone
<1> QED BY <1>1, <1>2 DEF BrokerInv, ConnectedIsNotLost

\* mint() draws codes nobody has seen and stores the pair.
LEMMA PairMintInv ==
    ASSUME BrokerInv, NEW r \in Slots, NEW d \in DeviceCodes, NEW u \in UserCodes,
           PairMint(r, d, u)
    PROVE  BrokerInv'
<1> USE DEF BrokerInv
<1> DEFINE p == [expires |-> now + TTL, userCode |-> u, token |-> None]
           q == [expires |-> now + TTL, device |-> d]
           b == [device |-> d, expires |-> now + TTL, epoch |-> restarts]
<1>1. /\ pairings' = Put(ReapedPairings, d, p)
      /\ users' = Put(ReapedUsers, u, q)
      /\ minted' = Put(minted, u, b)
      /\ reqs' = [reqs EXCEPT ![r] = Idle]
      /\ u \notin DOMAIN minted /\ \A v \in DOMAIN minted : minted[v].device # d
      /\ UNCHANGED <<now, notionVars, handed, told, restarts>>
  BY DEF PairMint, Goto, ReapBuckets
<1>2. /\ now \in Nat /\ now + TTL \in Nat /\ restarts \in Nat
      /\ p \in Pairing /\ q \in Pointer /\ b \in Birth /\ Idle \in Handler
  BY BrokerAssumption DEF BrokerTypeOK, LimiterTypeOK, Pairing, Pointer, Birth, Idle, Handling, Handler
<1>3. handed[d] = <<>>
  BY <1>1 DEF HandedAgree, Belongs
<1>4. /\ DOMAIN minted' = DOMAIN minted \cup {u} /\ minted'[u] = b
      /\ \A v \in DOMAIN minted : v # u /\ minted'[v] = minted[v]
  BY <1>1 DEF Put
<1>5. /\ DOMAIN pairings' = DOMAIN ReapedPairings \cup {d} /\ pairings'[d] = p
      /\ \A e \in DOMAIN pairings' : e # d =>
            e \in DOMAIN pairings /\ e \in DOMAIN ReapedPairings /\ pairings'[e] = pairings[e]
      /\ \A v \in DOMAIN users' : v # u => v \in DOMAIN users /\ users'[v] = users[v]
      /\ users'[u] = q
  BY <1>1, ReapedMaps DEF Put
<1>6. BrokerTypeOK'
  <2>1. LimiterTypeOK'
    BY LimiterTypeKept DEF BrokerTypeOK, BrokerNext, Continue
  <2>2. IsMap(pairings, DeviceCodes, Pairing)' /\ IsMap(users, UserCodes, Pointer)'
    BY <1>1, <1>2, ReapedMaps DEF Put, IsMap
  <2>3. IsMap(minted, UserCodes, Birth)'
    BY <1>1, <1>2 DEF Put, IsMap, BrokerTypeOK
  <2> QED BY <1>1, <1>2, <2>1, <2>2, <2>3 DEF BrokerTypeOK, notionVars, IsMap
<1>7. MintedInPairs'
  BY <1>1, <1>2, <1>4 DEF MintedInPairs
<1>8. ConsentsForMinted' /\ ToldAgree'
  BY <1>1, <1>4 DEF ConsentsForMinted, ToldAgree, notionVars
<1>9. PointersAgree'
  BY <1>1, <1>3, <1>4, <1>5 DEF PointersAgree
<1>10. PairingsAgree'
  <2> SUFFICES ASSUME NEW e \in DOMAIN pairings'
               PROVE  PairingAgrees(e, pairings[e].userCode)'
    BY DEF PairingsAgree
  <2>1. CASE e = d
    BY <1>1, <1>3, <1>4, <1>5, <2>1 DEF PairingAgrees
  <2>2. CASE e # d
    <3>1. e \in DOMAIN pairings /\ pairings'[e] = pairings[e]
      BY <1>5, <2>2
    <3>2. PairingAgrees(e, pairings[e].userCode)
      BY <3>1 DEF PairingsAgree
    <3> QED BY <1>1, <1>4, <3>1, <3>2 DEF PairingAgrees, Belongs, notionVars
  <2> QED BY <2>1, <2>2
<1>11. HandedAgree'
  BY <1>1, <1>4 DEF HandedAgree, Belongs, notionVars
<1>12. HandlersAgree' /\ TokensInOnePlace'
  <2>1. Idle.pc = "idle"
    BY DEF Idle, Handling
  <2>2. \A k \in Slots : reqs'[k].pc = "idle" \/ reqs'[k] = reqs[k]
    BY <1>1, <2>1 DEF BrokerTypeOK
  <2>3. HandlersAgree'
    BY <1>1, <1>4, <2>2 DEF HandlersAgree, notionVars
  <2> QED BY <1>1, <2>2, <2>3 DEF TokensInOnePlace
<1>13. ConnectedIsNotLost'
  <2> SUFFICES ASSUME NEW g \in told
               PROVE  LET e == minted'[consents[g]].device
                      IN \/ Gone(consents[g])'
                         \/ \E h \in told : handed[e] = <<h>>
                         \/ e \in DOMAIN pairings' /\ pairings'[e].token \in told
    BY <1>1 DEF ConnectedIsNotLost, notionVars
  <2>1. consents[g] \in DOMAIN minted /\ minted'[consents[g]] = minted[consents[g]]
    BY <1>4, ConnectedSurvivesReap
  <2>2. Gone(consents[g])' <=> Gone(consents[g])
    BY <1>1, <2>1 DEF Gone, notionVars
  <2>3. minted[consents[g]].device # d
    BY <1>1, <2>1
  <2> DEFINE e == minted[consents[g]].device
  <2>4. minted'[consents[g]].device = e
    BY <2>1
  <2>5. Gone(consents[g]) \/ (\E h \in told : handed[e] = <<h>>)
        \/ (e \in DOMAIN ReapedPairings /\ pairings[e].token \in told)
    BY ConnectedSurvivesReap
  <2> HIDE DEF e
  <2> QED BY <1>5, <2>2, <2>3, <2>4, <2>5 DEF e
<1> QED BY <1>6, <1>7, <1>8, <1>9, <1>10, <1>11, <1>12, <1>13

\* A poll that finds a token: what it takes out of the store, and what it gives.
Claims(d) == d \in DOMAIN ReapedPairings /\ ~IsPending(d)

\* claim() and its answer.
LEMMA PollInv ==
    ASSUME BrokerInv, NEW d \in DeviceCodes, Poll(d)
    PROVE  BrokerInv'
<1> USE DEF BrokerInv
<1>1. CASE ~Claims(d)
  <2>1. QuietStep
    BY <1>1 DEF Poll, Claims, QuietStep, ReapBuckets, notionVars, historyVars, ConsentsForMinted,
                BrokerTypeOK, LimiterTypeOK
  <2>2. reqs' \in [Slots -> Handler] /\ HandlersAgree' /\ TokensInOnePlace'
    BY <2>1, QuietStepNobodyMoves DEF Poll
  <2> QED BY <2>1, <2>2, QuietStepInv DEF BrokerNext
<1>2. CASE Claims(d)
  <2> DEFINE t == pairings[d].token
             u == pairings[d].userCode
  <2>1. d \in DOMAIN pairings /\ t # None /\ t \in Grants /\ u \in DOMAIN minted
        /\ minted[u].device = d /\ handed[d] = <<>> /\ t \in told /\ Belongs(t, d)
    BY <1>2, ReapedMaps
    DEF Claims, IsPending, PairingsAgree, PairingAgrees, BrokerTypeOK, IsMap, Pairing
  <2>2. /\ pairings' = Without(ReapedPairings, {d})
        /\ users' = Without(ReapedUsers, {u})
        /\ handed' = [handed EXCEPT ![d] = <<t>>]
        /\ UNCHANGED <<now, reqs, notionVars, minted, told, restarts>>
    <3>1. Append(handed[d], t) = <<t>>
      BY <2>1
    <3>2. ReapedPairings[d] = pairings[d]
      BY <1>2, ReapedMaps DEF Claims
    <3> QED BY <1>2, <3>1, <3>2 DEF Poll, Claims, ReapBuckets
  <2>3. /\ \A e \in DOMAIN pairings' : /\ e # d /\ e \in DOMAIN pairings
                                       /\ pairings'[e] = pairings[e]
        /\ \A v \in DOMAIN users' : v # u /\ v \in DOMAIN users /\ users'[v] = users[v]
        /\ \A e \in DOMAIN ReapedPairings : e # d => e \in DOMAIN pairings'
        /\ handed'[d] = <<t>> /\ \A e \in DeviceCodes : e # d => handed'[e] = handed[e]
    BY <2>2, ReapedMaps DEF Without, BrokerTypeOK
  <2>4. BrokerTypeOK'
    <3>1. LimiterTypeOK'
      BY LimiterTypeKept DEF BrokerTypeOK, BrokerNext
    <3>2. IsMap(pairings, DeviceCodes, Pairing)' /\ IsMap(users, UserCodes, Pointer)'
      BY <2>2, ReapedMaps DEF Without, IsMap
    <3>3. handed' \in [DeviceCodes -> Seq(Grants)]
      <4>1. <<t>> \in Seq(Grants) /\ handed \in [DeviceCodes -> Seq(Grants)]
        BY <2>1 DEF BrokerTypeOK
      <4> QED BY <2>2, <4>1
    <3> QED BY <2>2, <3>1, <3>2, <3>3 DEF BrokerTypeOK, notionVars, IsMap
  <2>5. MintedInPairs' /\ ConsentsForMinted' /\ ToldAgree'
    BY <2>2 DEF MintedInPairs, ConsentsForMinted, ToldAgree, notionVars
  <2>6. PointersAgree'
    <3>1. ASSUME NEW v \in DOMAIN users' PROVE users[v].device # d /\ users[v].device \in DeviceCodes
      BY <2>1, <2>3 DEF PointersAgree, MintedInPairs, BrokerTypeOK, IsMap, Pointer
    <3>2. ASSUME NEW v \in DOMAIN users'
          PROVE  /\ v \in DOMAIN minted' /\ users'[v].device = minted'[v].device
                 /\ handed'[users'[v].device] = <<>>
      <4>1. v \in DOMAIN users /\ users'[v] = users[v]
        BY <2>3
      <4>2. handed'[users[v].device] = handed[users[v].device]
        BY <2>3, <3>1
      <4> QED BY <2>2, <4>1, <4>2 DEF PointersAgree
    <3> QED BY <3>2 DEF PointersAgree
  <2>7. PairingsAgree'
    <3> SUFFICES ASSUME NEW e \in DOMAIN pairings'
                 PROVE  PairingAgrees(e, pairings[e].userCode)'
      BY DEF PairingsAgree
    <3>1. PairingAgrees(e, pairings[e].userCode) /\ e \in DeviceCodes
      BY <2>3 DEF PairingsAgree, BrokerTypeOK, IsMap
    <3> QED BY <2>2, <2>3, <3>1 DEF PairingAgrees, Belongs, notionVars
  <2>8. HandedAgree'
    BY <2>1, <2>2, <2>3 DEF HandedAgree, Belongs, notionVars
  <2>9. HandlersAgree' /\ TokensInOnePlace'
    BY <2>2 DEF HandlersAgree, TokensInOnePlace, notionVars
  <2>10. ConnectedIsNotLost'
    <3> SUFFICES ASSUME NEW g \in told
                 PROVE  LET e == minted[consents[g]].device
                        IN \/ Gone(consents[g])'
                           \/ \E h \in told : handed'[e] = <<h>>
                           \/ e \in DOMAIN pairings' /\ pairings'[e].token \in told
      BY <2>2 DEF ConnectedIsNotLost, notionVars
    <3> DEFINE e == minted[consents[g]].device
    <3>1. Gone(consents[g])' <=> Gone(consents[g])
      BY <2>2 DEF Gone, notionVars
    <3>2. consents[g] \in DOMAIN minted /\ e \in DeviceCodes
      BY ConnectedSurvivesReap DEF BrokerTypeOK, IsMap, Birth
    <3>3. CASE e = d
      BY <2>1, <2>3, <3>3
    <3>4. CASE e # d
      BY <2>3, <3>1, <3>2, <3>4, ConnectedSurvivesReap
    <3> QED BY <3>3, <3>4
  <2> QED BY <2>4, <2>5, <2>6, <2>7, <2>8, <2>9, <2>10
<1> QED BY <1>1, <1>2

\* complete() after the token exchange.
LEMMA CallbackCompleteInv ==
    ASSUME BrokerInv, NEW r \in Slots, CallbackComplete(r)
    PROVE  BrokerInv'
<1> USE DEF BrokerInv
<1> DEFINE d == reqs[r].device
           g == reqs[r].grant
<1>1. CASE d \notin DOMAIN ReapedPairings
  <2>1. QuietStep
    BY <1>1 DEF CallbackComplete, QuietStep, ReapBuckets, notionVars, historyVars,
                ConsentsForMinted, BrokerTypeOK, LimiterTypeOK
  <2>2. reqs' \in [Slots -> Handler] /\ HandlersAgree' /\ TokensInOnePlace'
    BY <2>1, QuietStepGoesIdle DEF CallbackComplete
  <2> QED BY <2>1, <2>2, QuietStepInv DEF BrokerNext, Continue
<1>2. CASE d \in DOMAIN ReapedPairings
  <2> DEFINE p == [expires |-> pairings[d].expires, userCode |-> pairings[d].userCode, token |-> g]
  <2>1. /\ pairings' = Put(ReapedPairings, d, p)
        /\ users' = ReapedUsers
        /\ told' = told \cup {g}
        /\ reqs' = [reqs EXCEPT ![r] = Idle]
        /\ reqs[r].pc = "complete"
        /\ UNCHANGED <<now, notionVars, minted, handed, restarts>>
    BY <1>2 DEF CallbackComplete, ReapBuckets, Goto, At
  <2>2. d \in DOMAIN pairings /\ d \in DeviceCodes /\ pairings[d] \in Pairing /\ Idle \in Handler
    BY <1>2, ReapedMaps, BrokerAssumption
    DEF BrokerTypeOK, IsMap, Idle, Handling, Handler
  <2>3. g \in Grants /\ g \notin told /\ Belongs(g, d) /\ g # None
    BY <2>1, BrokerAssumption
    DEF HandlersAgree, TokensInOnePlace, Belongs, BrokerTypeOK, IsMap
  <2>4. p \in Pairing
    BY <2>2, <2>3 DEF Pairing
  <2>5. /\ DOMAIN pairings' = DOMAIN ReapedPairings /\ pairings'[d] = p
        /\ \A e \in DOMAIN pairings' : e \in DOMAIN pairings /\ (e # d => pairings'[e] = pairings[e])
        /\ \A v \in DOMAIN users' : v \in DOMAIN users /\ users'[v] = users[v]
    BY <1>2, <2>1, ReapedMaps DEF Put
  <2>6. BrokerTypeOK'
    <3>1. LimiterTypeOK'
      BY LimiterTypeKept DEF BrokerTypeOK, BrokerNext, Continue
    <3>2. IsMap(pairings, DeviceCodes, Pairing)' /\ IsMap(users, UserCodes, Pointer)'
      BY <2>1, <2>2, <2>4, ReapedMaps DEF Put, IsMap
    <3> QED BY <2>1, <2>2, <2>3, <3>1, <3>2 DEF BrokerTypeOK, notionVars, IsMap
  <2>7. MintedInPairs' /\ ConsentsForMinted' /\ PointersAgree'
    <3>1. UNCHANGED <<minted, handed, consents, redirected, restarts>>
      BY <2>1 DEF notionVars
    <3>2. MintedInPairs' /\ ConsentsForMinted'
      BY <3>1 DEF MintedInPairs, ConsentsForMinted
    <3> QED BY <2>5, <3>1, <3>2 DEF PointersAgree
  <2>8. ToldAgree'
    BY <2>1, <2>3 DEF ToldAgree, Belongs, notionVars
  <2>9. PairingsAgree'
    <3> SUFFICES ASSUME NEW e \in DOMAIN pairings'
                 PROVE  PairingAgrees(e, pairings[e].userCode)'
      BY DEF PairingsAgree
    <3>1. PairingAgrees(e, pairings[e].userCode) /\ pairings'[e].userCode = pairings[e].userCode
          /\ pairings'[e].expires = pairings[e].expires
      BY <2>2, <2>5 DEF PairingsAgree
    <3>2. CASE e = d
      <4>1. /\ pairings'[e].token = g /\ g \in told'
            /\ g \in redeemed' /\ g \in DOMAIN consents' /\ consents'[g] \in DOMAIN minted'
            /\ minted'[consents'[g]].device = e
        <5>1. pairings'[e].token = g
          BY <2>5, <3>2
        <5> QED BY <2>1, <2>3, <3>2, <5>1 DEF Belongs, notionVars
      <4>2. /\ pairings[e].userCode \in DOMAIN minted'
            /\ minted'[pairings[e].userCode].device = e
            /\ minted'[pairings[e].userCode].expires = pairings[e].expires
            /\ minted'[pairings[e].userCode].epoch = restarts'
            /\ handed'[e] = <<>>
        BY <2>1, <3>1 DEF PairingAgrees
      <4> QED BY <3>1, <4>1, <4>2 DEF PairingAgrees, Belongs
    <3>3. CASE e # d
      BY <2>1, <2>5, <3>1, <3>3 DEF PairingAgrees, Belongs, notionVars
    <3> QED BY <3>2, <3>3
  <2>10. HandedAgree'
    BY <2>1 DEF HandedAgree, Belongs, notionVars
  <2>11. HandlersAgree' /\ TokensInOnePlace'
    <3>1. Idle.pc = "idle"
      BY DEF Idle, Handling
    <3>2. \A k \in Slots : reqs'[k].pc = "idle" \/ (k # r /\ reqs'[k] = reqs[k])
      BY <2>1, <3>1 DEF BrokerTypeOK
    <3>3. HandlersAgree'
      BY <2>1, <3>2 DEF HandlersAgree, notionVars
    <3> QED BY <2>1, <3>2, <3>3 DEF TokensInOnePlace
  <2>12. ConnectedIsNotLost'
    <3> SUFFICES ASSUME NEW h \in told'
                 PROVE  LET e == minted[consents[h]].device
                        IN \/ Gone(consents[h])'
                           \/ \E k \in told' : handed[e] = <<k>>
                           \/ e \in DOMAIN pairings' /\ pairings'[e].token \in told'
      BY <2>1 DEF ConnectedIsNotLost, notionVars
    <3> DEFINE e == minted[consents[h]].device
    <3>1. Gone(consents[h])' <=> Gone(consents[h])
      BY <2>1 DEF Gone, notionVars
    <3>2. CASE e = d
      <4>1. d \in DOMAIN pairings' /\ pairings'[d].token = g
        BY <1>2, <2>5
      <4>2. g \in told'
        BY <2>1
      <4> QED BY <3>2, <4>1, <4>2
    <3>3. CASE e # d
      <4>1. h \in told
        BY <2>1, <2>3, <3>3 DEF Belongs
      <4> QED BY <2>1, <2>5, <3>1, <3>3, <4>1, ConnectedSurvivesReap
    <3> QED BY <3>2, <3>3
  <2> QED BY <2>6, <2>7, <2>8, <2>9, <2>10, <2>11, <2>12
<1> QED BY <1>1, <1>2

\* A restart of the process forgets the stores and the handlers in flight.
LEMMA RestartInv ==
    ASSUME BrokerInv, Restart
    PROVE  BrokerInv'
<1> USE DEF BrokerInv
<1>1. /\ DOMAIN pairings' = {} /\ DOMAIN users' = {}
      /\ reqs' = [k \in Slots |-> Idle]
      /\ restarts' = restarts + 1 /\ restarts \in Nat
      /\ UNCHANGED <<now, notionVars, minted, handed, told>>
  BY DEF Restart, EmptyMap, LimiterRestart, BrokerTypeOK
<1>2. Idle \in Handler /\ Idle.pc = "idle"
  BY DEF Idle, Handling, Handler
<1>3. BrokerTypeOK'
  <2>1. LimiterTypeOK'
    BY LimiterTypeKept DEF BrokerTypeOK, BrokerNext
  <2>2. IsMap(pairings, DeviceCodes, Pairing)' /\ IsMap(users, UserCodes, Pointer)'
    BY DEF Restart, EmptyMap, IsMap
  <2> QED BY <1>1, <1>2, <2>1, <2>2 DEF BrokerTypeOK, notionVars, IsMap
<1>4. MintedInPairs'
  <2>1. \A u \in DOMAIN minted : minted[u].epoch \in Nat
    BY DEF BrokerTypeOK, IsMap, Birth
  <2> QED BY <1>1, <2>1 DEF MintedInPairs
<1>5. ConsentsForMinted' /\ PointersAgree' /\ PairingsAgree' /\ HandedAgree' /\ ToldAgree'
  BY <1>1 DEF ConsentsForMinted, PointersAgree, PairingsAgree, HandedAgree, ToldAgree, Belongs,
              notionVars
<1>6. HandlersAgree' /\ TokensInOnePlace'
  BY <1>1, <1>2 DEF HandlersAgree, TokensInOnePlace
<1>7. ConnectedIsNotLost'
  <2>1. \A g \in told : consents[g] \in DOMAIN minted /\ minted[consents[g]].epoch \in Nat
                        /\ minted[consents[g]].epoch <= restarts
    BY DEF ToldAgree, ConsentsForMinted, MintedInPairs, BrokerTypeOK, IsMap, Birth
  <2> QED BY <1>1, <2>1 DEF ConnectedIsNotLost, Gone, notionVars
<1> QED BY <1>3, <1>4, <1>5, <1>6, <1>7

\* No step of the broker breaks the invariant.
LEMMA BrokerStepInv == BrokerInv /\ [BrokerNext]_brokerVars => BrokerInv'
<1> SUFFICES ASSUME BrokerInv, [BrokerNext]_brokerVars PROVE BrokerInv'
  OBVIOUS
<1>1. CASE BrokerNext
  BY <1>1, ArrivalInv, QuietContinueInv, PairMintInv, CallbackCompleteInv, PollInv, ConsentInv,
     TimePassesInv, RestartInv DEF BrokerNext, Continue
<1>2. CASE UNCHANGED brokerVars
  <2>1. QuietStep /\ UNCHANGED reqs
    BY <1>2 DEF brokerVars, limiterVars, notionVars, QuietStep, BrokerInv, ConsentsForMinted,
                BrokerTypeOK, LimiterTypeOK
  <2> QED BY <2>1, QuietStepInv, QuietStepNobodyMoves
<1> QED BY <1>1, <1>2

\* Every reachable state of the broker satisfies its invariant, the types of
\* all its state included.
THEOREM BrokerCorrect == BrokerSpec => []BrokerInv
BY BrokerInitInv, BrokerStepInv, PTL DEF BrokerSpec

-----------------------------------------------------------------------------
(* What the invariant gives *)

\* A token only goes to the device whose QR was scanned: whatever a poll is
\* answered came from a consent that carried the user code minted with the
\* polled device code (GET /pair/{code}, GET /callback).
THEOREM TokensGoToTheirQR == BrokerSpec => []TokenGoesToItsQR
<1>1. BrokerInv => TokenGoesToItsQR
  <2> SUFFICES ASSUME BrokerInv, NEW d \in DeviceCodes, NEW i \in 1..Len(handed[d])
               PROVE  /\ handed[d][i] \in DOMAIN consents
                      /\ consents[handed[d][i]] \in DOMAIN minted
                      /\ minted[consents[handed[d][i]]].device = d
    BY DEF TokenGoesToItsQR
  <2>1. PICK g \in told : handed[d] = <<g>> /\ Belongs(g, d)
    BY DEF BrokerInv, HandedAgree
  <2>2. handed[d][i] = g
    BY <2>1
  <2> QED BY <2>1, <2>2 DEF Belongs
<1> QED BY <1>1, BrokerCorrect, PTL

\* Nothing stays behind once a token was handed over (MemoryStore.claim).
THEOREM NothingIsLeftAfterHandoff == BrokerSpec => []NothingLeftAfterHandoff
<1>1. BrokerInv => NothingLeftAfterHandoff
  BY DEF BrokerInv, NothingLeftAfterHandoff, PairingsAgree, PairingAgrees, PointersAgree
<1> QED BY <1>1, BrokerCorrect, PTL

\* No phone is told "Connected" in vain (MemoryStore.complete, GET /callback).
THEOREM ConnectedIsNeverLost == BrokerSpec => []ConnectedIsNotLost
<1>1. BrokerInv => ConnectedIsNotLost
  BY DEF BrokerInv
<1> QED BY <1>1, BrokerCorrect, PTL

\* Tokens leave the store within the window only (MemoryStore.reap, claim).
THEOREM HandoffIsInWindow == BrokerSpec => HandoffInWindow
<1>1. BrokerInv /\ [BrokerNext]_brokerVars =>
        [\A d \in DeviceCodes : handed'[d] # handed[d] =>
           \E u \in DOMAIN minted : minted[u].device = d /\ ~Gone(u)]_brokerVars
  <2> SUFFICES ASSUME BrokerInv, BrokerNext, NEW d \in DeviceCodes, handed'[d] # handed[d]
               PROVE  \E u \in DOMAIN minted : minted[u].device = d /\ ~Gone(u)
    OBVIOUS
  <2>1. PICK e \in DeviceCodes : Poll(e)
    BY DEF BrokerNext, Continue, PairTake, GoResolve, GoAnswer, CallbackResolve, CallbackCheck,
           ExchangeSucceeds, ExchangeFails, CallbackComplete, PairMint, Consent, TimePasses,
           Restart, historyVars
  <2>2. d \in DOMAIN ReapedPairings
    BY <2>1 DEF Poll, BrokerInv, BrokerTypeOK
  <2>3. d \in DOMAIN pairings /\ now <= pairings[d].expires
    BY <2>2, ReapedMaps DEF BrokerInv
  <2>4. /\ pairings[d].expires \in Nat /\ now \in Nat /\ restarts \in Nat
    BY <2>3 DEF BrokerInv, BrokerTypeOK, LimiterTypeOK, IsMap, Pairing
  <2>5. PairingAgrees(d, pairings[d].userCode)
    BY <2>3 DEF BrokerInv, PairingsAgree
  <2> QED BY <2>3, <2>4, <2>5 DEF PairingAgrees, Gone
<1> QED BY <1>1, BrokerCorrect, PTL DEF BrokerSpec, HandoffInWindow

\* An address is charged for POST /pair at the bounded rate, whatever the
\* other handlers of the broker do to the bucket's clock and its reaping.
THEOREM BrokerMintRateBounded == BrokerSpec => []MintRateBounded
<1>1. BrokerInit => LimiterInit
  BY DEF BrokerInit
<1>2. [BrokerNext]_brokerVars => [LimiterNext]_limiterVars
  BY BrokerStepIsLimiterStep
<1> QED BY <1>1, <1>2, MintRateIsBounded, PTL DEF BrokerSpec, LimiterSpec

-----------------------------------------------------------------------------
(* The broker implements the contract of a pairing store *)

\* A quiet step at one instant is invisible to the contract: reaping an entry
\* whose window is over changes nothing a caller could see.
LEMMA QuietStepIsInvisible ==
    ASSUME BrokerInv, QuietStep, UNCHANGED now
    PROVE  \A d \in DeviceCodes : /\ PhaseOf(d)' = PhaseOf(d)
                                  /\ HeldFor(d)' = HeldFor(d)
<1> SUFFICES ASSUME NEW d \in DeviceCodes
             PROVE  PhaseOf(d)' = PhaseOf(d) /\ HeldFor(d)' = HeldFor(d)
  OBVIOUS
<1>1. /\ IsAlive(d)' <=> IsAlive(d)
      /\ IsAlive(d) => pairings'[d] = pairings[d]
  BY ReapedMaps DEF IsAlive, QuietStep, storeVars, BrokerInv
<1>2. (IsMinted(d)' <=> IsMinted(d)) /\ handed'[d] = handed[d]
  BY DEF IsMinted, QuietStep, historyVars
<1>3. PhaseOf(d)' = PhaseOf(d)
  BY <1>1, <1>2 DEF PhaseOf
<1> QED BY <1>1, <1>2, <1>3 DEF HeldFor, PhaseOf

\* The contract's state stays as it is when no device code changes.
LEMMA SameForTheContract ==
    ASSUME \A d \in DeviceCodes : PhaseOf(d)' = PhaseOf(d) /\ HeldFor(d)' = HeldFor(d),
           UNCHANGED handed
    PROVE  UNCHANGED Contract!contractVars
BY DEF Contract!contractVars

\* Time or a restart closes windows.
LEMMA ClosingWindows ==
    ASSUME BrokerInv, UNCHANGED <<minted, handed>>,
           \A d \in DeviceCodes : IsAlive(d)' => IsAlive(d) /\ pairings'[d] = pairings[d]
    PROVE  Contract!ContractNext
<1> DEFINE S == {d \in DeviceCodes : PhaseOf(d) \in {"pending", "ready"} /\ ~IsAlive(d)'}
<1>1. ASSUME NEW d \in DeviceCodes
      PROVE  /\ d \in S => PhaseOf(d)' = "expired" /\ HeldFor(d)' = None
             /\ d \notin S => PhaseOf(d)' = PhaseOf(d) /\ HeldFor(d)' = HeldFor(d)
  <2>1. (IsMinted(d)' <=> IsMinted(d)) /\ handed'[d] = handed[d]
    BY DEF IsMinted
  <2>2. IsAlive(d)' => IsAlive(d) /\ pairings'[d] = pairings[d]
    OBVIOUS
  <2> QED BY <2>1, <2>2 DEF PhaseOf, HeldFor
<1>2. Contract!ContractExpire(S)
  BY <1>1 DEF Contract!ContractExpire
<1> QED BY <1>2 DEF Contract!ContractNext

\* What reaping together with a change to device code d alone does to others.
LEMMA OthersUnchanged ==
    ASSUME BrokerInv, NEW d \in DeviceCodes,
           UNCHANGED now,
           \A e \in DeviceCodes : e # d =>
              /\ handed'[e] = handed[e]
              /\ IsMinted(e)' <=> IsMinted(e)
              /\ e \in DOMAIN ReapedPairings <=> e \in DOMAIN pairings'
              /\ e \in DOMAIN pairings' => pairings'[e] = pairings[e]
    PROVE  \A e \in DeviceCodes : e # d => PhaseOf(e)' = PhaseOf(e) /\ HeldFor(e)' = HeldFor(e)
<1> SUFFICES ASSUME NEW e \in DeviceCodes, e # d
             PROVE  PhaseOf(e)' = PhaseOf(e) /\ HeldFor(e)' = HeldFor(e)
  OBVIOUS
<1>1. /\ IsAlive(e)' <=> IsAlive(e)
      /\ IsAlive(e) => pairings'[e] = pairings[e]
  BY ReapedMaps DEF IsAlive, BrokerInv
<1> QED BY <1>1 DEF PhaseOf, HeldFor

\* POST /pair mints.
LEMMA PairMintRefines ==
    ASSUME BrokerInv, NEW r \in Slots, NEW d \in DeviceCodes, NEW u \in UserCodes,
           PairMint(r, d, u)
    PROVE  Contract!ContractMint(d)
<1>1. /\ pairings' = Put(ReapedPairings, d,
                         [expires |-> now + TTL, userCode |-> u, token |-> None])
      /\ minted' = Put(minted, u, [device |-> d, expires |-> now + TTL, epoch |-> restarts])
      /\ u \notin DOMAIN minted /\ \A v \in DOMAIN minted : minted[v].device # d
      /\ UNCHANGED <<now, handed>>
  BY DEF PairMint, ReapBuckets
<1>2. handed[d] = <<>> /\ now \in Nat
  BY <1>1 DEF BrokerInv, HandedAgree, Belongs, BrokerTypeOK, LimiterTypeOK
<1>3. /\ pairings'[d] = [expires |-> now + TTL, userCode |-> u, token |-> None]
      /\ d \in DOMAIN pairings'
      /\ \A e \in DeviceCodes : e # d =>
            /\ e \in DOMAIN ReapedPairings <=> e \in DOMAIN pairings'
            /\ e \in DOMAIN pairings' => pairings'[e] = pairings[e]
  BY <1>1, ReapedMaps DEF Put, BrokerInv
<1>4. /\ ~IsMinted(d) /\ IsMinted(d)'
      /\ \A e \in DeviceCodes : e # d => (IsMinted(e)' <=> IsMinted(e))
  BY <1>1 DEF Put, IsMinted
<1>5. PhaseOf(d) = "unused" /\ HeldFor(d) = None
  BY <1>2, <1>4 DEF PhaseOf, HeldFor
<1>6. PhaseOf(d)' = "pending" /\ HeldFor(d)' = None
  <2>1. IsAlive(d)'
    BY <1>1, <1>2, <1>3, BrokerAssumption DEF IsAlive
  <2> QED BY <1>1, <1>2, <1>3, <1>4, <2>1 DEF PhaseOf, HeldFor
<1>7. \A e \in DeviceCodes : e # d => PhaseOf(e)' = PhaseOf(e) /\ HeldFor(e)' = HeldFor(e)
  BY <1>1, <1>3, <1>4, OthersUnchanged
<1> QED BY <1>1, <1>5, <1>6, <1>7 DEF Contract!ContractMint

\* A poll that finds a token claims it.
LEMMA PollRefines ==
    ASSUME BrokerInv, NEW d \in DeviceCodes, Poll(d), Claims(d)
    PROVE  Contract!ContractClaim(d)
<1> DEFINE t == pairings[d].token
<1>1. /\ d \in DOMAIN pairings /\ now <= pairings[d].expires /\ t # None
      /\ ReapedPairings[d] = pairings[d]
  BY ReapedMaps DEF Claims, IsPending, BrokerInv
<1>2. PairingAgrees(d, pairings[d].userCode)
  BY <1>1 DEF BrokerInv, PairingsAgree
<1>3. /\ pairings' = Without(ReapedPairings, {d})
      /\ handed' = [handed EXCEPT ![d] = Append(@, t)]
      /\ UNCHANGED <<now, minted>>
  BY DEF Poll, Claims, ReapBuckets
<1>4. PhaseOf(d) = "ready" /\ HeldFor(d) = t
  BY <1>1, <1>2 DEF PhaseOf, HeldFor, IsAlive, IsMinted, PairingAgrees
<1>5. /\ handed'[d] = Append(handed[d], t) /\ handed'[d] # <<>>
      /\ \A e \in DeviceCodes : e # d => handed'[e] = handed[e]
  <2>1. handed \in [DeviceCodes -> Seq(Grants)] /\ handed[d] = <<>>
    BY <1>2 DEF BrokerInv, BrokerTypeOK, PairingAgrees
  <2>2. Append(handed[d], t) # <<>>
    BY <2>1
  <2> QED BY <1>3, <2>1, <2>2
<1>6. PhaseOf(d)' = "handed" /\ HeldFor(d)' = None
  BY <1>5 DEF PhaseOf, HeldFor
<1>7. \A e \in DeviceCodes : e # d => PhaseOf(e)' = PhaseOf(e) /\ HeldFor(e)' = HeldFor(e)
  <2>1. \A e \in DeviceCodes : e # d => (IsMinted(e)' <=> IsMinted(e))
    BY <1>3 DEF IsMinted
  <2>2. \A e \in DeviceCodes : e # d =>
           /\ e \in DOMAIN ReapedPairings <=> e \in DOMAIN pairings'
           /\ e \in DOMAIN pairings' => pairings'[e] = pairings[e]
    BY <1>3, ReapedMaps DEF Without, BrokerInv
  <2> QED BY <1>3, <1>5, <2>1, <2>2, OthersUnchanged
<1> QED BY <1>3, <1>4, <1>6, <1>7 DEF Contract!ContractClaim

\* complete() on a living pairing completes it.
LEMMA CallbackCompleteRefines ==
    ASSUME BrokerInv, NEW r \in Slots, CallbackComplete(r),
           NEW d \in DeviceCodes, d = reqs[r].device, d \in DOMAIN ReapedPairings,
           NEW g \in Grants, g = reqs[r].grant
    PROVE  Contract!ContractComplete(d, g)
<1>1. /\ d \in DOMAIN pairings /\ now <= pairings[d].expires /\ d \in DeviceCodes
  BY ReapedMaps DEF BrokerInv, BrokerTypeOK, IsMap
<1>2. g \in Grants /\ g # None /\ g \notin told
  BY BrokerAssumption
  DEF CallbackComplete, At, BrokerInv, HandlersAgree, TokensInOnePlace, BrokerTypeOK, IsMap
<1>3. PairingAgrees(d, pairings[d].userCode)
  BY <1>1 DEF BrokerInv, PairingsAgree
<1>4. /\ pairings' = Put(ReapedPairings, d,
                         [expires |-> pairings[d].expires,
                          userCode |-> pairings[d].userCode, token |-> g])
      /\ UNCHANGED <<now, minted, handed>>
  BY DEF CallbackComplete, ReapBuckets
<1>5. /\ d \in DOMAIN pairings' /\ pairings'[d].token = g
      /\ pairings'[d].expires = pairings[d].expires
      /\ \A e \in DeviceCodes : e # d =>
           /\ e \in DOMAIN ReapedPairings <=> e \in DOMAIN pairings'
           /\ e \in DOMAIN pairings' => pairings'[e] = pairings[e]
  BY <1>4, ReapedMaps DEF Put, BrokerInv
<1>6. PhaseOf(d) \in {"pending", "ready"}
  BY <1>1, <1>3 DEF PhaseOf, IsAlive, IsMinted, PairingAgrees
<1>7. PhaseOf(d)' = "ready" /\ HeldFor(d)' = g
  <2>1. IsAlive(d)' /\ IsMinted(d)' /\ handed'[d] = <<>>
    BY <1>1, <1>3, <1>4, <1>5 DEF IsAlive, IsMinted, PairingAgrees
  <2> QED BY <1>2, <1>5, <2>1 DEF PhaseOf, HeldFor
<1>8. \A e \in DeviceCodes : e # d => PhaseOf(e)' = PhaseOf(e) /\ HeldFor(e)' = HeldFor(e)
  <2>1. \A e \in DeviceCodes : e # d => (IsMinted(e)' <=> IsMinted(e))
    BY <1>4 DEF IsMinted
  <2> QED BY <1>1, <1>4, <1>5, <2>1, OthersUnchanged
<1>9. ASSUME NEW e \in DeviceCodes PROVE HeldFor(e) # g /\ handed[e] # <<g>>
  <2>0. handed[e] # <<g>>
    <3>1. \/ handed[e] = <<>>
          \/ \E h \in told : handed[e] = <<h>>
      BY DEF BrokerInv, HandedAgree
    <3>2. ASSUME NEW h \in told, handed[e] = <<h>> PROVE handed[e] # <<g>>
      <4>1. handed[e][1] = h /\ h # g /\ <<g>>[1] = g
        BY <1>2, <3>2
      <4> QED BY <4>1
    <3>3. <<>> # <<g>>
      OBVIOUS
    <3> QED BY <3>1, <3>2, <3>3
  <2>1. CASE HeldFor(e) = None
    BY <1>2, <2>0, <2>1
  <2>2. CASE HeldFor(e) # None
    <3>1. e \in DOMAIN pairings /\ HeldFor(e) = pairings[e].token
      BY <2>2 DEF HeldFor, PhaseOf, IsAlive
    <3>2. HeldFor(e) \in told
      BY <2>2, <3>1 DEF BrokerInv, PairingsAgree, PairingAgrees
    <3> QED BY <1>2, <2>0, <3>2
  <2> QED BY <2>1, <2>2
<1> QED BY <1>4, <1>6, <1>7, <1>8, <1>9 DEF Contract!ContractComplete

\* Every step of the broker is a step of the contract or invisible to it.
LEMMA BrokerStepRefines ==
    ASSUME BrokerInv, [BrokerNext]_brokerVars
    PROVE  [Contract!ContractNext]_(Contract!contractVars)
<1> DEFINE Quiet == QuietStep /\ UNCHANGED now
<1>0. ASSUME Quiet PROVE UNCHANGED Contract!contractVars
  <2>1. UNCHANGED handed
    BY <1>0 DEF QuietStep, historyVars
  <2> QED BY <1>0, <2>1, QuietStepIsInvisible, SameForTheContract
<1>a. /\ now \in Nat /\ redirected \subseteq DOMAIN minted /\ redeemed \subseteq Grants
      /\ \A r \in Slots : /\ reqs[r].pc = "go" => reqs[r].user \in DOMAIN minted
                          /\ reqs[r].pc = "exchange" => reqs[r].grant \in Grants
  BY DEF BrokerInv, BrokerTypeOK, LimiterTypeOK, ConsentsForMinted, HandlersAgree, IsMap
<1>1. ASSUME NEW r \in Slots,
             \/ \E ip \in IPs : PairTake(r, ip)
             \/ \E u \in UserCodes : GoResolve(r, u)
             \/ \E g \in Grants : CallbackResolve(r, g)
             \/ CallbackCheck(r)
      PROVE  Quiet
  BY <1>1, <1>a DEF PairTake, GoResolve, CallbackResolve, CallbackCheck, ReapOnly, ReapBuckets,
     TakeAdmitted, TakeRefused, QuietStep, notionVars
<1>2. ASSUME NEW r \in Slots, \E method \in {"GET", "POST"} : GoAnswer(r, method)
      PROVE  Quiet
  BY <1>2, <1>a DEF GoAnswer, At, ReapOnly, ReapBuckets, QuietStep
<1>3. ASSUME NEW r \in Slots, ExchangeSucceeds(r) \/ ExchangeFails(r)
      PROVE  Quiet
  BY <1>3, <1>a DEF ExchangeSucceeds, ExchangeFails, At, QuietStep, limiterVars
<1>4. ASSUME NEW r \in Slots, NEW d \in DeviceCodes, NEW u \in UserCodes, PairMint(r, d, u)
      PROVE  Contract!ContractNext
  BY <1>4, PairMintRefines DEF Contract!ContractNext
<1>5. ASSUME NEW r \in Slots, CallbackComplete(r)
      PROVE  Contract!ContractNext \/ Quiet
  <2>1. CASE reqs[r].device \in DOMAIN ReapedPairings
    <3>1. reqs[r].device \in DeviceCodes /\ reqs[r].grant \in Grants
      BY <1>5, <2>1, ReapedMaps
      DEF CallbackComplete, At, BrokerInv, BrokerTypeOK, HandlersAgree, IsMap
    <3> QED BY <1>5, <2>1, <3>1, CallbackCompleteRefines DEF Contract!ContractNext
  <2>2. CASE reqs[r].device \notin DOMAIN ReapedPairings
    BY <1>5, <1>a, <2>2 DEF CallbackComplete, ReapBuckets, QuietStep, notionVars, historyVars
  <2> QED BY <2>1, <2>2
<1>6. ASSUME NEW d \in DeviceCodes, Poll(d)
      PROVE  Contract!ContractNext \/ Quiet
  <2>1. CASE Claims(d)
    BY <1>6, <2>1, PollRefines DEF Contract!ContractNext
  <2>2. CASE ~Claims(d)
    BY <1>6, <1>a, <2>2 DEF Poll, Claims, ReapBuckets, QuietStep, notionVars, historyVars
  <2> QED BY <2>1, <2>2
<1>7. ASSUME NEW g \in Grants, NEW u \in UserCodes, Consent(g, u)
      PROVE  UNCHANGED Contract!contractVars
  <2>1. UNCHANGED <<now, pairings, minted, handed>>
    BY <1>7 DEF Consent, limiterVars, storeVars, historyVars
  <2>2. \A d \in DeviceCodes : PhaseOf(d)' = PhaseOf(d) /\ HeldFor(d)' = HeldFor(d)
    BY <2>1 DEF PhaseOf, HeldFor, IsMinted, IsAlive
  <2> QED BY <2>1, <2>2, SameForTheContract
<1>8. ASSUME TimePasses \/ Restart
      PROVE  Contract!ContractNext
  <2>1. CASE TimePasses
    <3>1. /\ UNCHANGED <<pairings, minted, handed>> /\ now' = now + 1
          /\ \A d \in DOMAIN pairings : pairings[d].expires \in Nat
      BY <2>1 DEF TimePasses, Tick, storeVars, historyVars, BrokerInv, BrokerTypeOK, IsMap, Pairing
    <3>2. \A d \in DeviceCodes : IsAlive(d)' => IsAlive(d) /\ pairings'[d] = pairings[d]
      BY <1>a, <3>1 DEF IsAlive
    <3> QED BY <3>1, <3>2, ClosingWindows
  <2>2. CASE Restart
    <3>1. UNCHANGED <<minted, handed>> /\ \A d \in DeviceCodes : ~IsAlive(d)'
      BY <2>2 DEF Restart, EmptyMap, IsAlive
    <3> QED BY <3>1, ClosingWindows
  <2> QED BY <1>8, <2>1, <2>2
<1>9. CASE UNCHANGED brokerVars
  <2>1. UNCHANGED <<now, pairings, minted, handed>>
    BY <1>9 DEF brokerVars, limiterVars, storeVars, historyVars
  <2>2. \A d \in DeviceCodes : PhaseOf(d)' = PhaseOf(d) /\ HeldFor(d)' = HeldFor(d)
    BY <2>1 DEF PhaseOf, HeldFor, IsMinted, IsAlive
  <2> QED BY <2>1, <2>2, SameForTheContract
<1> QED BY <1>0, <1>1, <1>2, <1>3, <1>4, <1>5, <1>6, <1>7, <1>8, <1>9 DEF BrokerNext, Continue

\* The handlers over the in-memory store keep the contract at the top of
\* store-memory.js: reaping late, answering late and interleaving handlers
\* make no difference a caller of the store could tell.
THEOREM BrokerImplementsContract == BrokerSpec => ImplementsContract
<1>1. BrokerInit => Contract!ContractInit
  BY DEF BrokerInit, Contract!ContractInit, PhaseOf, HeldFor, IsMinted, EmptyMap
<1>2. BrokerInv /\ [BrokerNext]_brokerVars => [Contract!ContractNext]_(Contract!contractVars)
  BY BrokerStepRefines
<1> QED BY <1>1, <1>2, BrokerCorrect, PTL DEF BrokerSpec, ImplementsContract, Contract!ContractSpec

=============================================================================
