--------------------------- MODULE MCMintLimiter ----------------------------
(***************************************************************************)
(* The token bucket of either store, for TLC: `hosted` tells which.  Cost  *)
(* 2 and Burst 5 leave a remainder, so a bucket can hold less than the     *)
(* price of a mint, and IdleLimit = 5 is the tightest value the            *)
(* assumption of MintLimiter allows.                                       *)
(***************************************************************************)
EXTENDS DurableLimiter, TLC

VARIABLE hosted

EitherInit == DurableLimiterInit /\ hosted \in BOOLEAN

EitherNext ==
    /\ UNCHANGED hosted
    /\ \/ ~hosted /\ LimiterNext /\ UNCHANGED wakeups
       \/ hosted /\ DurableLimiterNext

EitherSpec == EitherInit /\ [][EitherNext]_<<durableLimiterVars, hosted>>

\* Buckets of different addresses do not interact: addresses are symmetric.
SymIPs == Permutations(IPs)

=============================================================================
