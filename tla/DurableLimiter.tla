--------------------------- MODULE DurableLimiter ---------------------------
(***************************************************************************)
(* The token bucket of POST /pair in the hosted broker: the `take` role of *)
(* the Durable Object in server/src/worker.js, one object per address.     *)
(* Nothing reaps here; the alarm of the last admitted take wipes the       *)
(* object, at its time or later, while refused takes push nothing back.    *)
(* An object takes no other event while it awaits its storage, so a take   *)
(* is one step; that one dies between its put() and its setAlarm() is left *)
(* out (the bucket would then be wiped by an older alarm).                 *)
(***************************************************************************)
EXTENDS MintLimiter

VARIABLE wakeups   \* the alarms: client ip -> when it is due

durableLimiterVars == <<limiterVars, wakeups>>

\* Mutated form: the alarm is due before the bucket is full again.
AlarmTooSoon(ip) == Put(wakeups, ip, now + 1)
\* setAlarm replaces the alarm there was.
AlarmPushedBack(ip) == Put(wakeups, ip, now + IdleLimit)

\* take, on storage that knows of no other bucket.
DurableTake(ip) ==
    LET level == Refilled(buckets, ip)
    IN  /\ \/ /\ level >= Cost
              /\ buckets' = Put(buckets, ip, [tokens |-> level - Cost, seen |-> now])
              /\ spent' = [spent EXCEPT ![ip] = @ + Cost]
              /\ wakeups' = AlarmPushedBack(ip)
           \/ /\ level < Cost
              /\ buckets' = Put(buckets, ip, [tokens |-> level, seen |-> now])
              /\ UNCHANGED <<spent, wakeups>>
        /\ UNCHANGED <<now, started>>

\* alarm().
BucketAlarm(ip) ==
    /\ ip \in DOMAIN wakeups /\ now >= wakeups[ip]
    /\ buckets' = Without(buckets, {ip})
    /\ wakeups' = Without(wakeups, {ip})
    /\ UNCHANGED <<now, started, spent>>

DurableLimiterInit == LimiterInit /\ wakeups = EmptyMap

DurableLimiterNext ==
    \/ \E ip \in IPs : DurableTake(ip) \/ BucketAlarm(ip)
    \/ Tick /\ UNCHANGED wakeups

DurableLimiterSpec == DurableLimiterInit /\ [][DurableLimiterNext]_durableLimiterVars

\* A bucket that an alarm may wipe is full, or would be by now: that refused
\* takes leave the alarm where it was gives nobody a token early
\* (worker.js:142-149).
WipedBucketIsFull ==
    \A ip \in DOMAIN wakeups : now >= wakeups[ip] => Level(ip) = Burst

=============================================================================
