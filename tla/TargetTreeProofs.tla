-------------------------- MODULE TargetTreeProofs --------------------------
(***************************************************************************)
(* Proofs about the page picker, for every set of pages and of their       *)
(* titles, every page size, limit and depth, and any number of edits while *)
(* the search runs.                                                        *)
(***************************************************************************)
EXTENDS TargetTree, FiniteSetTheorems, WellFoundedInduction, TLAPS

-----------------------------------------------------------------------------
(* Loops.                                                                  *)

\* What holds before a loop's first turn and survives each of its turns holds
\* at its end; T is the set of the turns at which it holds.
LEMMA TurnByTurn ==
    ASSUME NEW N \in Nat, NEW T, 0 \in T, \A n \in 1..N : n - 1 \in T => n \in T
    PROVE  0..N \subseteq T
<1> DEFINE Bad == {n \in 0..N : n \notin T}
           R == OpToRel(<, Nat)
<1> SUFFICES ASSUME Bad # {} PROVE FALSE
  OBVIOUS
<1>1. IsWellFoundedOn(R, Nat)
  BY NatLessThanWellFounded
<1>2. \A x, y \in Nat : <<x, y>> \in R <=> x < y
  BY DEF OpToRel
<1>3. Bad \subseteq Nat
  OBVIOUS
<1> HIDE DEF R, Bad
<1>4. PICK m \in Bad : \A n \in Bad : ~(<<n, m>> \in R)
  BY <1>1, <1>3, WFMin
<1> USE DEF Bad
<1>5. m \in 1..N
  OBVIOUS
<1>6. m - 1 \notin Bad
  <2>1. m - 1 \in Nat /\ m \in Nat /\ m - 1 < m
    BY <1>5
  <2> QED BY <1>2, <1>4, <2>1
<1> QED BY <1>5, <1>6

\* A loop that makes the value of each turn from that of the turn before.
Loops(f, last, Values, first, turn) ==
    f \in [0..last -> Values] /\ f[0] = first /\ \A n \in 1..last : f[n] = turn[<<n, f[n - 1]>>]

LEMMA LoopRuns ==
    ASSUME NEW last \in Nat, NEW Values, NEW first \in Values, NEW turn \in [(1..last) \X Values -> Values]
    PROVE  \E f : Loops(f, last, Values, first, turn)
<1> DEFINE Runs(f, m) == Loops(f, m, Values, first, turn)
           T == {m \in 0..last : \E f : Runs(f, m)}
<1>1. 0 \in T
  <2> DEFINE g == [n \in 0..0 |-> first]
  <2>1. g \in [0..0 -> Values] /\ g[0] = first
    OBVIOUS
  <2> HIDE DEF g
  <2>2. Runs(g, 0)
    BY <2>1 DEF Loops
  <2> QED BY <2>2
<1>2. ASSUME NEW m \in 1..last, m - 1 \in T PROVE m \in T
  <2>1. PICK f : Runs(f, m - 1)
    BY <1>2
  <2> DEFINE g == [n \in 0..m |-> IF n = m THEN turn[<<m, f[m - 1]>>] ELSE f[n]]
  <2>2. m - 1 \in 0..(m - 1) /\ f[m - 1] \in Values
    BY <2>1 DEF Loops
  <2>3. turn[<<m, f[m - 1]>>] \in Values
    BY <2>2
  <2>4. g \in [0..m -> Values]
    <3>1. ASSUME NEW n \in 0..m PROVE g[n] \in Values
      <4>1. n # m => n \in 0..(m - 1)
        OBVIOUS
      <4> QED BY <2>1, <2>3, <4>1 DEF Loops
    <3> QED BY <3>1
  <2>5. g[0] = first
    BY <2>1 DEF Loops
  <2>6. ASSUME NEW n \in 1..m PROVE g[n] = turn[<<n, g[n - 1]>>]
    <3>1. g[n - 1] = f[n - 1]
      OBVIOUS
    <3>2. CASE n = m
      <4>1. m \in 0..m /\ g[m] = turn[<<m, f[m - 1]>>]
        OBVIOUS
      <4> QED BY <3>1, <3>2, <4>1
    <3>3. CASE n # m
      <4>1. n \in 1..(m - 1) /\ g[n] = f[n]
        BY <3>3
      <4> QED BY <2>1, <3>1, <4>1 DEF Loops
    <3> QED BY <3>2, <3>3
  <2> HIDE DEF g
  <2>7. Runs(g, m)
    BY <2>4, <2>5, <2>6 DEF Loops
  <2> QED BY <2>7
<1>3. last \in T
  <2> HIDE DEF T
  <2>1. 0..last \subseteq T
    BY <1>1, <1>2, TurnByTurn
  <2> QED BY <2>1
<1> QED BY <1>3

-----------------------------------------------------------------------------
(* OnlyIn.                                                                 *)

PickLoop(f, s, S) ==
    f = [n \in 0..Len(s) |-> IF n = 0 THEN <<>>
                             ELSE IF s[n] \in S THEN Append(f[n - 1], s[n]) ELSE f[n - 1]]

\* What the loop of OnlyIn has after each of its turns.
Picks(s, S) == CHOOSE f : PickLoop(f, s, S)

LEMMA PicksRun ==
    ASSUME NEW A, NEW s \in Seq(A), NEW S
    PROVE  /\ Picks(s, S) \in [0..Len(s) -> Seq(A)] /\ OnlyIn(s, S) = Picks(s, S)[Len(s)]
           /\ Picks(s, S)[0] = <<>>
           /\ \A n \in 1..Len(s) :
                 Picks(s, S)[n] = IF s[n] \in S THEN Append(Picks(s, S)[n - 1], s[n])
                                                ELSE Picks(s, S)[n - 1]
<1> DEFINE N == Len(s)
           V == Seq(A)
           base == <<>>
           body(n, v) == IF s[n] \in S THEN Append(v, s[n]) ELSE v
           step == [nv \in (1..N) \X V |-> body(nv[1], nv[2])]
<1>1. N \in Nat /\ base \in V /\ \A n \in 1..N : s[n] \in A
  OBVIOUS
<1>2. \A n \in 1..N, v \in V : body(n, v) \in V /\ step[<<n, v>>] = body(n, v)
  BY <1>1
<1>3. step \in [(1..N) \X V -> V]
  BY <1>2
<1> HIDE DEF N, V, base, step, body
<1>4. PICK f : Loops(f, N, V, base, step)
  BY <1>1, <1>3, LoopRuns
<1>5. \A n \in 1..N : f[n - 1] \in V /\ f[n] = body(n, f[n - 1])
  <2>1. \A n \in 1..N : n - 1 \in 0..N
    BY <1>1
  <2> QED BY <1>2, <1>4, <2>1 DEF Loops
<1>6. PickLoop(f, s, S)
  <2>1. \A n \in 0..N : f[n] = IF n = 0 THEN <<>>
                               ELSE IF s[n] \in S THEN Append(f[n - 1], s[n]) ELSE f[n - 1]
    <3>1. f[0] = <<>>
      BY <1>4 DEF base, Loops
    <3>2. \A n \in 0..N : n # 0 => n \in 1..N
      BY <1>1
    <3> QED BY <1>5, <3>1, <3>2 DEF body
  <2>2. f = [n \in 0..N |-> f[n]]
    BY <1>4 DEF Loops
  <2> QED BY <2>1, <2>2 DEF PickLoop, N
<1>7. PickLoop(Picks(s, S), s, S)
  BY <1>6 DEF Picks
<1> DEFINE p == Picks(s, S)
<1> HIDE DEF p
<1>8. PickLoop(p, s, S)
  BY <1>7 DEF p
<1>9. p[0] = base /\ \A n \in 1..N : p[n] = body(n, p[n - 1])
  <2>1. \A n \in 0..N : p[n] = IF n = 0 THEN <<>>
                               ELSE IF s[n] \in S THEN Append(p[n - 1], s[n]) ELSE p[n - 1]
    BY <1>8 DEF PickLoop, N
  <2>2. 0 \in 0..N /\ \A n \in 1..N : n \in 0..N /\ n # 0
    BY <1>1
  <2> QED BY <2>1, <2>2 DEF base, body
<1>10. 0..N \subseteq {n \in 0..N : p[n] \in V}
  <2> DEFINE T == {n \in 0..N : p[n] \in V}
  <2>1. 0 \in T
    BY <1>1, <1>9
  <2>2. \A n \in 1..N : n - 1 \in T => n \in T
    <3>1. \A n \in 1..N : n \in 0..N
      BY <1>1
    <3> QED BY <1>2, <1>9, <3>1
  <2> HIDE DEF T
  <2>3. 0..N \subseteq T
    BY <1>1, <2>1, <2>2, TurnByTurn
  <2> QED BY <2>3 DEF T
<1>11. p \in [0..N -> V]
  <2>1. p = [n \in 0..N |-> p[n]]
    BY <1>8 DEF PickLoop, N
  <2> QED BY <1>10, <2>1
<1>12. OnlyIn(s, S) = p[N]
  BY DEF OnlyIn, p, Picks, PickLoop, N
<1> QED BY <1>9, <1>11, <1>12 DEF p, N, V, base, body

\* t has those of the first n entries of s that S has, in their order.
PickedFrom(t, s, n, S) ==
    /\ Len(t) <= n
    /\ Elements(t) = {s[i] : i \in 1..n} \cap S
    /\ \A i, j \in DOMAIN t : i < j => \E k, l \in 1..n : k < l /\ t[i] = s[k] /\ t[j] = s[l]

LEMMA PicksPick ==
    ASSUME NEW A, NEW s \in Seq(A), NEW S
    PROVE  \A n \in 0..Len(s) : PickedFrom(Picks(s, S)[n], s, n, S)
<1> DEFINE p == Picks(s, S)
           N == Len(s)
           Good(n) == /\ Len(p[n]) <= n
                      /\ Elements(p[n]) = {s[i] : i \in 1..n} \cap S
                      /\ \A i, j \in DOMAIN p[n] :
                            i < j => \E k, l \in 1..n : k < l /\ p[n][i] = s[k] /\ p[n][j] = s[l]
           T == {n \in 0..N : Good(n)}
<1>1. /\ p \in [0..N -> Seq(A)] /\ p[0] = <<>> /\ N \in Nat
      /\ \A n \in 1..N : p[n] = IF s[n] \in S THEN Append(p[n - 1], s[n]) ELSE p[n - 1]
  BY PicksRun
<1> HIDE DEF p, N
<1>2. Good(0)
  BY <1>1 DEF Elements
<1>3. ASSUME NEW n \in 1..N, Good(n - 1) PROVE Good(n)
  <2> DEFINE u == p[n - 1]
             t == p[n]
  <2>1. u \in Seq(A) /\ n - 1 \in Nat /\ n \in Nat
    BY <1>1
  <2>2. \A i : i \in 1..n <=> i \in 1..(n - 1) \/ i = n
    BY <2>1
  <2>3. CASE s[n] \notin S
    <3>1. t = u
      BY <1>1, <2>3
    <3>2. {s[i] : i \in 1..n} \cap S = {s[i] : i \in 1..(n - 1)} \cap S
      BY <2>2, <2>3
    <3> QED BY <1>3, <2>1, <2>2, <3>1, <3>2
  <2>4. CASE s[n] \in S
    <3>1. t = Append(u, s[n])
      BY <1>1, <2>4
    <3> HIDE DEF u, t
    <3>2. s[n] \in A
      BY DEF N
    <3>3. /\ Len(u) \in Nat /\ DOMAIN u = 1..Len(u) /\ DOMAIN t = 1..(Len(u) + 1) /\ Len(t) = Len(u) + 1
          /\ t[Len(u) + 1] = s[n] /\ \A i \in 1..Len(u) : t[i] = u[i]
      BY <2>1, <3>1, <3>2
    <3>4. Elements(t) = Elements(u) \cup {s[n]}
      BY <3>3 DEF Elements
    <3>5. {s[i] : i \in 1..n} \cap S = ({s[i] : i \in 1..(n - 1)} \cap S) \cup {s[n]}
      BY <2>2, <2>4
    <3>6. ASSUME NEW i \in DOMAIN t, NEW j \in DOMAIN t, i < j
          PROVE  \E k, l \in 1..n : k < l /\ t[i] = s[k] /\ t[j] = s[l]
      <4>1. i \in DOMAIN u /\ t[i] = u[i]
        BY <3>3, <3>6
      <4>2. CASE j \in DOMAIN u
        <5>1. PICK k \in 1..(n - 1), l \in 1..(n - 1) : k < l /\ u[i] = s[k] /\ u[j] = s[l]
          BY <1>3, <3>6, <4>1, <4>2 DEF u
        <5>2. k \in 1..n /\ l \in 1..n /\ t[j] = u[j]
          BY <2>2, <3>3, <4>2
        <5> QED BY <4>1, <5>1, <5>2
      <4>3. CASE j \notin DOMAIN u
        <5>1. t[j] = s[n]
          BY <3>3, <3>6, <4>3
        <5>2. u[i] \in Elements(u)
          BY <4>1 DEF Elements
        <5>3. PICK k \in 1..(n - 1) : u[i] = s[k]
          BY <1>3, <5>2 DEF u
        <5>4. k \in 1..n /\ n \in 1..n /\ k < n
          BY <2>1
        <5> QED BY <4>1, <5>1, <5>3, <5>4
      <4> QED BY <4>2, <4>3
    <3>7. Len(t) <= n
      BY <1>3, <2>1, <3>3 DEF u
    <3> QED BY <1>3, <3>4, <3>5, <3>6, <3>7 DEF u, t
  <2> QED BY <2>3, <2>4
<1>4. 0..N \subseteq T
  <2>1. 0 \in T
    BY <1>1, <1>2
  <2>2. \A n \in 1..N : n - 1 \in T => n \in T
    <3>1. \A n \in 1..N : n \in 0..N
      BY <1>1
    <3> QED BY <1>3, <3>1
  <2> HIDE DEF T
  <2> QED BY <1>1, <2>1, <2>2, TurnByTurn
<1>5. \A n \in 0..N : Good(n)
  BY <1>4
<1> QED BY <1>5 DEF p, N, PickedFrom

\* What is picked in m turns begins what is picked in n.
PicksExtend(s, S, m, n) ==
    /\ Len(Picks(s, S)[m]) <= Len(Picks(s, S)[n])
    /\ \A i \in DOMAIN Picks(s, S)[m] : Picks(s, S)[n][i] = Picks(s, S)[m][i]

\* No turn takes anything back.
LEMMA PicksGrow ==
    ASSUME NEW A, NEW s \in Seq(A), NEW S, NEW m \in 0..Len(s)
    PROVE  \A n \in m..Len(s) : PicksExtend(s, S, m, n)
<1> DEFINE p == Picks(s, S)
           N == Len(s)
           Good(n) == Len(p[m]) <= Len(p[n]) /\ \A i \in DOMAIN p[m] : p[n][i] = p[m][i]
           T == {k \in 0..(N - m) : Good(m + k)}
<1>1. /\ p \in [0..N -> Seq(A)] /\ N \in Nat /\ m \in 0..N
      /\ \A n \in 1..N : p[n] = IF s[n] \in S THEN Append(p[n - 1], s[n]) ELSE p[n - 1]
      /\ \A n \in 1..N : s[n] \in A
  BY PicksRun
<1> HIDE DEF p, N
<1>2. Good(m + 0)
  BY <1>1
<1>3. ASSUME NEW k \in 1..(N - m), Good(m + (k - 1)) PROVE Good(m + k)
  <2> DEFINE n == m + k
  <2>1. n \in 1..N /\ n - 1 = m + (k - 1) /\ n - 1 \in 0..N
    BY <1>1
  <2> HIDE DEF n
  <2>2. Len(p[n - 1]) <= Len(p[n]) /\ \A i \in DOMAIN p[n - 1] : p[n][i] = p[n - 1][i]
    <3>1. p[n - 1] \in Seq(A) /\ s[n] \in A
      BY <1>1, <2>1
    <3>2. CASE s[n] \in S
      <4>1. p[n] = Append(p[n - 1], s[n])
        BY <1>1, <2>1, <3>2
      <4> QED BY <3>1, <4>1
    <3>3. CASE s[n] \notin S
      <4>1. p[n] = p[n - 1]
        BY <1>1, <2>1, <3>3
      <4> QED BY <3>1, <4>1
    <3> QED BY <3>2, <3>3
  <2>3. p[m] \in Seq(A) /\ p[n - 1] \in Seq(A) /\ p[n] \in Seq(A)
    BY <1>1, <2>1
  <2>4. Len(p[m]) <= Len(p[n - 1]) /\ \A i \in DOMAIN p[m] : p[n - 1][i] = p[m][i]
    BY <1>3, <2>1
  <2>5. DOMAIN p[m] \subseteq DOMAIN p[n - 1]
    BY <2>3, <2>4
  <2>6. Len(p[m]) <= Len(p[n])
    BY <2>2, <2>3, <2>4
  <2> QED BY <2>2, <2>4, <2>5, <2>6 DEF n
<1>4. 0..(N - m) \subseteq T
  <2>1. 0 \in T
    BY <1>1, <1>2
  <2>2. \A k \in 1..(N - m) : k - 1 \in T => k \in T
    <3>1. \A k \in 1..(N - m) : k \in 0..(N - m)
      BY <1>1
    <3> QED BY <1>3, <3>1
  <2>3. N - m \in Nat
    BY <1>1
  <2> HIDE DEF T
  <2> QED BY <2>1, <2>2, <2>3, TurnByTurn
<1>5. ASSUME NEW n \in m..N PROVE Good(n)
  <2>1. n - m \in 0..(N - m) /\ m + (n - m) = n
    BY <1>1
  <2>2. Good(m + (n - m))
    BY <1>4, <2>1
  <2> QED BY <2>1, <2>2
<1> QED BY <1>5 DEF p, N, PicksExtend

\* Picking from a sequence a part at a time is picking from all of it.
LEMMA PicksOfParts ==
    ASSUME NEW A, NEW s \in Seq(A), NEW S, NEW a \in 0..Len(s), NEW b \in a..Len(s)
    PROVE  Picks(s, S)[a] \o OnlyIn(SubSeq(s, a + 1, b), S) = Picks(s, S)[b]
<1> DEFINE u == SubSeq(s, a + 1, b)
           N == b - a
           p == Picks(s, S)
           q == Picks(u, S)
           Good(n) == p[a] \o q[n] = p[a + n]
           T == {n \in 0..N : Good(n)}
<1>1. u \in Seq(A) /\ Len(u) = N /\ N \in Nat /\ \A n \in 1..N : u[n] = s[a + n] /\ s[a + n] \in A
  OBVIOUS
<1>2. /\ p \in [0..Len(s) -> Seq(A)]
      /\ \A n \in 1..Len(s) : p[n] = IF s[n] \in S THEN Append(p[n - 1], s[n]) ELSE p[n - 1]
  BY PicksRun
<1>3. a + N = b /\ \A n \in 1..N : a + n \in 1..Len(s) /\ (a + n) - 1 = a + (n - 1)
  OBVIOUS
<1> HIDE DEF u, N, p
<1>4. /\ q \in [0..N -> Seq(A)] /\ q[0] = <<>> /\ OnlyIn(u, S) = q[N]
      /\ \A n \in 1..N : q[n] = IF u[n] \in S THEN Append(q[n - 1], u[n]) ELSE q[n - 1]
  <2>1. /\ q \in [0..Len(u) -> Seq(A)] /\ q[0] = <<>> /\ OnlyIn(u, S) = q[Len(u)]
        /\ \A n \in 1..Len(u) : q[n] = IF u[n] \in S THEN Append(q[n - 1], u[n]) ELSE q[n - 1]
    <3>1. u \in Seq(A)
      BY <1>1
    <3> QED BY <3>1, PicksRun
  <2>2. Len(u) = N
    BY <1>1
  <2> QED BY <2>1, <2>2
<1> HIDE DEF q
<1>5. p[a] \in Seq(A)
  BY <1>2
<1>6. Good(0)
  <2>1. p[a] \o q[0] = p[a] /\ a + 0 = a
    BY <1>4, <1>5
  <2> QED BY <2>1
<1>7. ASSUME NEW n \in 1..N, Good(n - 1) PROVE Good(n)
  <2>1. q[n - 1] \in Seq(A)
    BY <1>1, <1>4
  <2>2. CASE u[n] \in S
    <3>1. q[n] = Append(q[n - 1], u[n]) /\ u[n] \in A
      BY <1>1, <1>4, <2>2
    <3>2. p[a + n] = Append(p[a + (n - 1)], u[n])
      BY <1>1, <1>2, <1>3, <2>2
    <3>3. \A v, w \in Seq(A), x \in A : v \o Append(w, x) = Append(v \o w, x)
      OBVIOUS
    <3>4. p[a] \o q[n] = Append(p[a] \o q[n - 1], u[n])
      <4>1. p[a] \o Append(q[n - 1], u[n]) = Append(p[a] \o q[n - 1], u[n])
        BY <1>5, <2>1, <3>1, <3>3, Zenon
      <4> QED BY <3>1, <4>1, Zenon
    <3> QED BY <1>7, <3>2, <3>4
  <2>3. CASE u[n] \notin S
    BY <1>1, <1>2, <1>3, <1>4, <1>7, <2>3
  <2> QED BY <2>2, <2>3
<1> HIDE DEF Good
<1>8. 0..N \subseteq T
  <2>1. 0 \in T
    BY <1>1, <1>6
  <2>2. \A n \in 1..N : n - 1 \in T => n \in T
    <3>1. \A n \in 1..N : n \in 0..N
      BY <1>1
    <3> QED BY <1>7, <3>1
  <2> HIDE DEF T
  <2> QED BY <1>1, <2>1, <2>2, TurnByTurn
<1>9. Good(N)
  BY <1>1, <1>8
<1> QED BY <1>3, <1>4, <1>9 DEF Good, u, p

-----------------------------------------------------------------------------
(* Search.                                                                 *)

Pages == Ids \ Databases

\* What the calls before the next one have listed: every entry that stands
\* before the cursor was found, or is no page, or was edited meanwhile; and
\* without an edit what was found is what the loop picks of them.
SearchingInv ==
    pc = "search" =>
        /\ cursor = Outside => found = <<>>
        /\ cursor # Outside => cursor \in Elements(shared)
        /\ \A i, j \in DOMAIN shared :
              i < j /\ shared[j] = cursor => shared[i] \in edited \cup Databases \cup Elements(found)
        /\ edited = {} => found = Picks(shared, Pages)[From - 1]

SearchInv ==
    /\ shared \in Seq(Ids) /\ Distinct(shared) /\ found \in Seq(Ids)
    /\ SearchingInv /\ SearchMissesNothing

LEMMA SearchInitInv == ASSUME TreeInit PROVE SearchInv
<1>1. shared \in Seq(Ids) /\ Distinct(shared) /\ found \in Seq(Ids) /\ found = <<>> /\ Len(found) = 0
  BY TreeAssumption DEF TreeInit, Distinct
<1>2. Picks(shared, Pages)[0] = <<>>
  BY <1>1, PicksRun
<1>3. SearchingInv
  <2>1. From - 1 = 0
    BY DEF TreeInit, From
  <2>2. \A j \in DOMAIN shared : shared[j] # cursor
    <3>1. Outside \notin Ids
      BY TreeAssumption
    <3> QED BY <1>1, <3>1 DEF TreeInit
  <2> QED BY <1>1, <1>2, <2>1, <2>2 DEF TreeInit, SearchingInv
<1>4. SearchMissesNothing
  <2>1. pc = "search" /\ 0 <= Limit
    BY TreeAssumption DEF TreeInit
  <2> QED BY <1>1, <2>1 DEF SearchMissesNothing, Searched
<1> QED BY <1>1, <1>3, <1>4 DEF SearchInv

\* The entry a cursor names is the one From finds.
LEMMA CursorPlace ==
    ASSUME NEW s \in Seq(Ids), Distinct(s), NEW j \in DOMAIN s
    PROVE  (CHOOSE i \in DOMAIN s : s[i] = s[j]) = j
BY DEF Distinct

LEMMA EditInv == ASSUME SearchInv, NEW id \in Ids, Edit(id) PROVE SearchInv'
<1> DEFINE rest == OnlyIn(shared, Ids \ {id})
<1>1. /\ pc = "search" /\ shared' = <<id>> \o rest /\ edited' = edited \cup {id}
      /\ UNCHANGED <<pc, cursor, found>>
  BY DEF Edit
<1>2. /\ shared \in Seq(Ids) /\ rest \in Seq(Ids)
      /\ Elements(rest) = {shared[i] : i \in 1..Len(shared)} \cap (Ids \ {id})
      /\ \A i, j \in DOMAIN rest : i < j =>
            \E k, l \in 1..Len(shared) : k < l /\ rest[i] = shared[k] /\ rest[j] = shared[l]
  <2>1. shared \in Seq(Ids) /\ Len(shared) \in 0..Len(shared)
    BY DEF SearchInv
  <2>2. rest = Picks(shared, Ids \ {id})[Len(shared)] /\ rest \in Seq(Ids)
    BY <2>1, PicksRun
  <2> HIDE DEF rest
  <2>3. PickedFrom(rest, shared, Len(shared), Ids \ {id})
    BY <2>1, <2>2, PicksPick
  <2> QED BY <2>1, <2>2, <2>3 DEF PickedFrom
<1> HIDE DEF rest
<1>3. DOMAIN shared = 1..Len(shared) /\ Len(shared) \in Nat /\ \A i \in DOMAIN shared : shared[i] \in Ids
  BY <1>2
<1>4. /\ shared' \in Seq(Ids) /\ DOMAIN shared' = 1..(Len(rest) + 1) /\ Len(rest) \in Nat
      /\ shared'[1] = id /\ DOMAIN rest = 1..Len(rest)
      /\ \A i \in 2..(Len(rest) + 1) : shared'[i] = rest[i - 1] /\ i - 1 \in DOMAIN rest
  <2>1. <<id>> \in Seq(Ids) /\ Len(<<id>>) = 1 /\ <<id>>[1] = id
    OBVIOUS
  <2> QED BY <1>1, <1>2, <2>1
<1>5. \A i \in DOMAIN shared' : i = 1 \/ i \in 2..(Len(rest) + 1)
  BY <1>4
<1>6. \A i \in DOMAIN rest : rest[i] # id /\ rest[i] \in Elements(shared)
  BY <1>2, <1>3 DEF Elements
<1>7. Distinct(rest)
  <2>1. ASSUME NEW i \in DOMAIN rest, NEW j \in DOMAIN rest, i < j PROVE rest[i] # rest[j]
    <3>1. PICK k \in 1..Len(shared), l \in 1..Len(shared) : k < l /\ rest[i] = shared[k] /\ rest[j] = shared[l]
      BY <1>2, <2>1
    <3> QED BY <1>3, <3>1 DEF SearchInv, Distinct
  <2>2. ASSUME NEW i \in DOMAIN rest, NEW j \in DOMAIN rest, rest[i] = rest[j] PROVE i = j
    <3>1. ~(i < j) /\ ~(j < i)
      BY <2>1, <2>2
    <3> QED BY <1>4, <3>1
  <2> QED BY <2>2 DEF Distinct
<1>8. Distinct(shared')
  <2>1. ASSUME NEW i \in DOMAIN shared', NEW j \in DOMAIN shared', shared'[i] = shared'[j] PROVE i = j
    <3>1. CASE i = 1 /\ j \in 2..(Len(rest) + 1)
      BY <1>4, <1>6, <2>1, <3>1
    <3>2. CASE j = 1 /\ i \in 2..(Len(rest) + 1)
      BY <1>4, <1>6, <2>1, <3>2
    <3>3. CASE i \in 2..(Len(rest) + 1) /\ j \in 2..(Len(rest) + 1)
      <4>1. i - 1 = j - 1
        BY <1>4, <1>7, <2>1, <3>3 DEF Distinct
      <4> QED BY <3>3, <4>1
    <3> QED BY <1>5, <3>1, <3>2, <3>3
  <2> QED BY <2>1 DEF Distinct
<1>9. SearchingInv'
  <2>1. (cursor = Outside => found = <<>>) /\ (cursor # Outside => cursor \in Elements(shared))
        /\ \A i, j \in DOMAIN shared :
              i < j /\ shared[j] = cursor => shared[i] \in edited \cup Databases \cup Elements(found)
    BY <1>1 DEF SearchInv, SearchingInv
  <2>2. cursor' # Outside => cursor' \in Elements(shared')
    <3>1. SUFFICES ASSUME cursor # Outside PROVE cursor \in Elements(shared')
      BY <1>1
    <3>2. CASE cursor = id
      BY <1>4, <3>2 DEF Elements
    <3>3. CASE cursor # id
      <4>1. cursor \in Elements(rest)
        BY <1>2, <1>3, <2>1, <3>1, <3>3 DEF Elements
      <4>2. PICK i \in DOMAIN rest : rest[i] = cursor
        BY <4>1 DEF Elements
      <4>3. i + 1 \in DOMAIN shared' /\ shared'[i + 1] = cursor
        BY <1>4, <4>2
      <4> QED BY <4>3 DEF Elements
    <3> QED BY <3>2, <3>3
  <2>3. ASSUME NEW i \in DOMAIN shared', NEW j \in DOMAIN shared', i < j, shared'[j] = cursor
        PROVE  shared'[i] \in edited' \cup Databases \cup Elements(found)
    <3>1. CASE i = 1
      BY <1>1, <1>4, <3>1
    <3>2. CASE i # 1
      <4>1. i - 1 \in DOMAIN rest /\ j - 1 \in DOMAIN rest /\ i - 1 < j - 1
            /\ shared'[i] = rest[i - 1] /\ shared'[j] = rest[j - 1]
        BY <1>4, <2>3, <3>2
      <4>2. PICK k \in 1..Len(shared), l \in 1..Len(shared) :
               k < l /\ rest[i - 1] = shared[k] /\ rest[j - 1] = shared[l]
        BY <1>2, <4>1
      <4> QED BY <1>1, <1>3, <2>1, <2>3, <4>1, <4>2
    <3> QED BY <3>1, <3>2
  <2> QED BY <1>1, <2>1, <2>2, <2>3 DEF SearchingInv, Elements
<1>10. SearchMissesNothing'
  BY <1>1 DEF SearchInv, SearchMissesNothing, Searched
<1> QED BY <1>1, <1>4, <1>8, <1>9, <1>10 DEF SearchInv, Distinct

\* The place the next call starts at.
LEMMA FromPlace ==
    ASSUME SearchInv, pc = "search"
    PROVE  /\ From \in 1..(Len(shared) + 1) /\ Len(shared) \in Nat
           /\ cursor = Outside => From = 1
           /\ cursor # Outside => From \in DOMAIN shared /\ shared[From] = cursor
<1>1. shared \in Seq(Ids) /\ Len(shared) \in Nat /\ DOMAIN shared = 1..Len(shared)
  BY DEF SearchInv
<1>2. CASE cursor = Outside
  BY <1>1, <1>2 DEF From
<1>3. CASE cursor # Outside
  <2>1. \E i \in DOMAIN shared : shared[i] = cursor
    BY <1>3 DEF SearchInv, SearchingInv, Elements
  <2> QED BY <1>1, <1>3, <2>1 DEF From
<1> QED BY <1>1, <1>2, <1>3

\* What one answer adds.
LEMMA AnswerAdds ==
    ASSUME SearchInv, pc = "search", NEW last \in (From - 1)..Len(shared),
           found' = found \o PagesOf(SubSeq(shared, From, last))
    PROVE  /\ found' \in Seq(Ids) /\ Len(found') <= Len(found) + (last - (From - 1))
           /\ \A i \in 1..last : shared[i] \in edited \cup Databases \cup Elements(found')
           /\ edited = {} => found' = Picks(shared, Pages)[last]
<1> DEFINE part == SubSeq(shared, From, last)
           new == PagesOf(part)
<1>1. PICK a : a = From - 1
  OBVIOUS
<1>2. /\ a \in 0..Len(shared) /\ last \in a..Len(shared) /\ From = a + 1
      /\ shared \in Seq(Ids) /\ found \in Seq(Ids) /\ Len(shared) \in Nat /\ DOMAIN shared = 1..Len(shared)
  BY <1>1, FromPlace DEF SearchInv
<1>3. /\ part \in Seq(Ids) /\ Len(part) = last - a /\ last - a \in Nat
      /\ \A k \in 1..(last - a) : part[k] = shared[a + k]
  <2>1. part = SubSeq(shared, a + 1, last) /\ last <= Len(shared) /\ a \in Nat /\ last \in Nat /\ a <= last
    BY <1>2
  <2>2. part = [k \in 1..(last - a) |-> shared[a + k]]
    BY <1>2, <2>1
  <2>3. \A k \in 1..(last - a) : a + k \in 1..Len(shared)
    BY <1>2, <2>1
  <2> QED BY <1>2, <2>1, <2>2, <2>3
<1>4. new \in Seq(Ids) /\ PickedFrom(new, part, Len(part), Pages)
  <2> HIDE DEF part
  <2>1. new = OnlyIn(part, Pages)
    BY DEF PagesOf, Pages
  <2>2. Len(part) \in 0..Len(part)
    BY <1>3
  <2>3. OnlyIn(part, Pages) = Picks(part, Pages)[Len(part)] /\ Picks(part, Pages)[Len(part)] \in Seq(Ids)
    BY <1>3, <2>2, PicksRun
  <2> QED BY <1>3, <2>1, <2>2, <2>3, PicksPick
<1> HIDE DEF part, new
<1>5. found' = found \o new
  BY DEF part, new
<1>6. Len(new) \in Nat /\ DOMAIN new = 1..Len(new) /\ Len(found) \in Nat /\ DOMAIN found = 1..Len(found)
  BY <1>2, <1>4
<1>7. /\ found' \in Seq(Ids) /\ Len(found') = Len(found) + Len(new) /\ DOMAIN found' = 1..(Len(found) + Len(new))
      /\ \A i \in DOMAIN found : found'[i] = found[i]
      /\ \A i \in DOMAIN new : found'[Len(found) + i] = new[i]
  <2>1. found' \in Seq(Ids) /\ Len(found') = Len(found) + Len(new)
    <3>1. \A t, u \in Seq(Ids) : t \o u \in Seq(Ids) /\ Len(t \o u) = Len(t) + Len(u)
      OBVIOUS
    <3> QED BY <1>2, <1>4, <1>5, <3>1
  <2>2. \A t, u \in Seq(Ids) : /\ \A i \in DOMAIN t : (t \o u)[i] = t[i]
                              /\ \A i \in DOMAIN u : (t \o u)[Len(t) + i] = u[i]
    OBVIOUS
  <2>3. DOMAIN found' = 1..(Len(found) + Len(new))
    BY <2>1
  <2>4. /\ \A i \in DOMAIN found : found'[i] = found[i]
        /\ \A i \in DOMAIN new : found'[Len(found) + i] = new[i]
    <3>1. /\ \A i \in DOMAIN found : (found \o new)[i] = found[i]
          /\ \A i \in DOMAIN new : (found \o new)[Len(found) + i] = new[i]
      BY <1>2, <1>4, <2>2, Zenon
    <3> QED BY <1>5, <3>1, Zenon
  <2> QED BY <2>1, <2>3, <2>4
<1>8. Len(found') <= Len(found) + (last - (From - 1))
  <2>1. Len(new) <= last - a
    BY <1>3, <1>4 DEF PickedFrom
  <2> QED BY <1>1, <1>2, <1>3, <1>6, <1>7, <2>1
<1>9. Elements(found) \subseteq Elements(found') /\ Elements(new) \subseteq Elements(found')
  <2>1. \A i \in DOMAIN found : i \in DOMAIN found' /\ found'[i] = found[i]
    BY <1>6, <1>7
  <2>2. \A i \in DOMAIN new : Len(found) + i \in DOMAIN found' /\ found'[Len(found) + i] = new[i]
    BY <1>6, <1>7
  <2>3. \A x \in Elements(found) : x \in Elements(found')
    BY <2>1 DEF Elements
  <2>4. \A x \in Elements(new) : x \in Elements(found')
    BY <2>2 DEF Elements
  <2> QED BY <2>3, <2>4
<1>10. ASSUME NEW i \in 1..last PROVE shared[i] \in edited \cup Databases \cup Elements(found')
  <2>1. CASE i <= a
    <3>1. a + 1 \in DOMAIN shared /\ shared[a + 1] = cursor /\ i \in DOMAIN shared /\ i < a + 1
      BY <1>2, <1>10, <2>1, FromPlace
    <3> QED BY <1>9, <3>1 DEF SearchInv, SearchingInv
  <2>2. CASE i > a
    <3>1. i - a \in 1..(last - a) /\ a + (i - a) = i /\ i \in DOMAIN shared
      BY <1>2, <1>10, <2>2
    <3>2. part[i - a] = shared[i] /\ shared[i] \in Ids
      BY <1>2, <1>3, <3>1
    <3>3. shared[i] \in Pages => shared[i] \in Elements(new)
      BY <1>3, <1>4, <3>1, <3>2 DEF PickedFrom
    <3> QED BY <1>9, <3>2, <3>3 DEF Pages
  <2> QED BY <1>2, <1>10, <2>1, <2>2
<1>11. edited = {} => found' = Picks(shared, Pages)[last]
  <2>1. Picks(shared, Pages)[a] \o OnlyIn(SubSeq(shared, a + 1, last), Pages) = Picks(shared, Pages)[last]
    BY <1>2, PicksOfParts
  <2>2. OnlyIn(SubSeq(shared, a + 1, last), Pages) = new
    BY <1>2 DEF new, part, PagesOf, Pages
  <2>3. edited = {} => found = Picks(shared, Pages)[a]
    BY <1>1 DEF SearchInv, SearchingInv
  <2> QED BY <1>5, <2>1, <2>2, <2>3
<1> QED BY <1>7, <1>8, <1>10, <1>11

LEMMA SearchCallInv == ASSUME SearchInv, SearchCall PROVE SearchInv'
<1>1. PICK n, last :
         /\ n \in 1..Ask
         /\ last = Smaller(From + n - 1, Len(shared))
         /\ found' = found \o PagesOf(SubSeq(shared, From, last))
         /\ cursor' = IF last < Len(shared) THEN shared[last + 1] ELSE Outside
         /\ pc' = IF last < Len(shared) THEN "search" ELSE "arrange"
  BY DEF SearchCall
<1>2. pc = "search" /\ Len(found) < Limit /\ UNCHANGED <<shared, edited>>
  BY DEF SearchCall
<1>3. /\ shared \in Seq(Ids) /\ Distinct(shared) /\ Len(shared) \in Nat /\ DOMAIN shared = 1..Len(shared)
      /\ From \in 1..(Len(shared) + 1) /\ Len(found) \in Nat /\ Limit \in Nat /\ PageSize \in Nat
  BY <1>2, FromPlace, TreeAssumption DEF SearchInv
<1>4. n \in Nat \ {0} /\ n <= Limit - Len(found)
  <2>1. PICK k \in Nat : k = Len(found)
    BY <1>3
  <2>2. Ask = IF Limit - k < PageSize THEN Limit - k ELSE PageSize
    BY <2>1 DEF Ask, Smaller
  <2>3. Ask \in Int /\ Ask <= Limit - k
    BY <1>3, <2>2
  <2>4. n \in 1..Ask
    BY <1>1
  <2>5. n \in Nat \ {0} /\ n <= Limit - k
    <3> HIDE <1>1
    <3> QED BY <1>3, <2>3, <2>4
  <2> QED BY <2>1, <2>5
<1>5. last \in (From - 1)..Len(shared) /\ last - (From - 1) <= n
  <2>1. PICK a \in Nat, N \in Nat : a + 1 = From /\ N = Len(shared) /\ a <= N
    <3>1. From - 1 \in Nat /\ (From - 1) + 1 = From /\ From - 1 <= Len(shared)
      BY <1>3
    <3> QED BY <1>3, <3>1
  <2>2. last = IF a + n < N THEN a + n ELSE N
    <3>1. From + n - 1 = a + n
      BY <1>4, <2>1
    <3> QED BY <1>1, <2>1, <3>1 DEF Smaller
  <2>3. last \in a..N /\ last - a <= n
    BY <1>4, <2>1, <2>2
  <2> QED BY <1>3, <2>1, <2>3
<1>6. /\ found' \in Seq(Ids) /\ Len(found') <= Len(found) + (last - (From - 1))
      /\ \A i \in 1..last : shared[i] \in edited \cup Databases \cup Elements(found')
      /\ edited = {} => found' = Picks(shared, Pages)[last]
  BY <1>1, <1>2, <1>5, AnswerAdds
<1>7. Len(found') \in Nat /\ Len(found') <= Limit
  <2>1. Len(found') \in Nat
    BY <1>6
  <2> QED BY <1>3, <1>4, <1>5, <1>6, <2>1
<1>8. CASE last < Len(shared)
  <2>1. last + 1 \in DOMAIN shared /\ cursor' = shared[last + 1] /\ pc' = "search"
    BY <1>1, <1>3, <1>5, <1>8
  <2>2. cursor' \in Ids /\ cursor' # Outside
    BY <1>3, <2>1, TreeAssumption
  <2>3. From' = last + 1
    BY <1>2, <1>3, <2>1, <2>2, CursorPlace DEF From
  <2>4. SearchingInv'
    <3>1. \A i, j \in DOMAIN shared : i < j /\ shared[j] = cursor' => i \in 1..last
      BY <1>3, <1>5, <2>1 DEF Distinct
    <3>2. From' - 1 = last
      BY <1>3, <1>5, <2>3
    <3>3. cursor' \in Elements(shared)
      BY <2>1 DEF Elements
    <3> QED BY <1>2, <1>6, <2>2, <3>1, <3>2, <3>3 DEF SearchingInv, Elements
  <2>5. SearchMissesNothing'
    BY <1>7, <2>1 DEF SearchMissesNothing, Searched
  <2> QED BY <1>2, <1>3, <1>6, <2>4, <2>5 DEF SearchInv, Distinct
<1>9. CASE ~(last < Len(shared))
  <2>1. last = Len(shared) /\ pc' = "arrange"
    BY <1>1, <1>3, <1>5, <1>9
  <2>2. PagesOf(shared) = Picks(shared, Pages)[last]
    BY <1>3, <2>1, PicksRun DEF PagesOf, Pages
  <2>3. edited = {} => found' = SubSeq(PagesOf(shared), 1, Smaller(Limit, Len(PagesOf(shared))))
    <3>1. SUFFICES ASSUME edited = {}
                   PROVE  found' = SubSeq(found', 1, Smaller(Limit, Len(found')))
      BY <1>6, <2>2
    <3>2. Smaller(Limit, Len(found')) = Len(found')
      BY <1>3, <1>7 DEF Smaller
    <3>3. \A t \in Seq(Ids) : t = SubSeq(t, 1, Len(t))
      OBVIOUS
    <3> QED BY <1>6, <3>2, <3>3
  <2>4. \A i \in DOMAIN shared : shared[i] \in edited \cup Databases \cup Elements(found')
    BY <1>3, <1>6, <2>1
  <2>5. Elements(shared) \ (edited \cup Databases) \subseteq Elements(found')
    BY <2>4 DEF Elements
  <2>6. PagesOf(shared)' = PagesOf(shared) /\ Elements(shared)' = Elements(shared) /\ Elements(found)' = Elements(found')
    BY <1>2 DEF Elements
  <2>7. SearchMissesNothing'
    BY <1>2, <1>7, <2>3, <2>5, <2>6 DEF SearchMissesNothing
  <2> QED BY <1>2, <1>3, <1>6, <2>1, <2>7 DEF SearchInv, SearchingInv, Distinct
<1> QED BY <1>8, <1>9

LEMMA SearchFullInv == ASSUME SearchInv, SearchFull PROVE SearchInv'
<1>1. pc = "search" /\ Len(found) >= Limit /\ pc' = "arrange" /\ UNCHANGED <<shared, found, edited>>
  BY DEF SearchFull
<1>2. /\ shared \in Seq(Ids) /\ Distinct(shared) /\ found \in Seq(Ids) /\ Len(found) <= Limit
      /\ Limit \in Nat /\ Len(found) \in Nat
  BY TreeAssumption DEF SearchInv, SearchMissesNothing
<1>3. Len(found) = Limit
  BY <1>1, <1>2
<1>4. edited = {} => found = SubSeq(PagesOf(shared), 1, Smaller(Limit, Len(PagesOf(shared))))
  <2> SUFFICES ASSUME edited = {} PROVE found = SubSeq(PagesOf(shared), 1, Smaller(Limit, Len(PagesOf(shared))))
    OBVIOUS
  <2> DEFINE all == PagesOf(shared)
  <2>1. found = Picks(shared, Pages)[From - 1] /\ From - 1 \in 0..Len(shared) /\ Len(shared) \in Nat
    BY <1>1, FromPlace DEF SearchInv, SearchingInv
  <2>2. all = Picks(shared, Pages)[Len(shared)] /\ all \in Seq(Ids)
    <3>1. Len(shared) \in 0..Len(shared)
      BY <2>1
    <3> QED BY <1>2, <3>1, PicksRun DEF PagesOf, Pages
  <2>3. Len(found) <= Len(all) /\ \A i \in DOMAIN found : all[i] = found[i]
    <3>1. PICK m \in 0..Len(shared) : m = From - 1
      BY <2>1
    <3>2. Len(shared) \in m..Len(shared)
      BY <2>1
    <3>3. /\ Len(Picks(shared, Pages)[m]) <= Len(Picks(shared, Pages)[Len(shared)])
          /\ \A i \in DOMAIN Picks(shared, Pages)[m] :
                Picks(shared, Pages)[Len(shared)][i] = Picks(shared, Pages)[m][i]
      <4>1. shared \in Seq(Ids) /\ m \in 0..Len(shared)
        BY <1>2, <3>1
      <4>2. \A n \in m..Len(shared) : PicksExtend(shared, Pages, m, n)
        BY <4>1, PicksGrow
      <4> QED BY <3>2, <4>2 DEF PicksExtend
    <3> HIDE DEF all
    <3> QED BY <2>1, <2>2, <3>1, <3>3
  <2> HIDE DEF all
  <2>4. Smaller(Limit, Len(all)) = Len(found)
    BY <1>2, <1>3, <2>2, <2>3 DEF Smaller
  <2>5. found = SubSeq(all, 1, Len(found))
    <3>1. \A t, u \in Seq(Ids) : Len(u) <= Len(t) /\ (\A i \in DOMAIN u : t[i] = u[i]) => u = SubSeq(t, 1, Len(u))
      OBVIOUS
    <3> QED BY <1>2, <2>2, <2>3, <3>1
  <2> QED BY <2>4, <2>5 DEF all
<1>5. PagesOf(shared)' = PagesOf(shared)
  BY <1>1
<1>6. SearchMissesNothing'
  BY <1>1, <1>2, <1>3, <1>4, <1>5 DEF SearchMissesNothing
<1> QED BY <1>1, <1>2, <1>6 DEF SearchInv, SearchingInv, Distinct

LEMMA SearchStepInv == ASSUME SearchInv, [TreeNext]_treeVars PROVE SearchInv'
<1>1. CASE pc # "search" \/ UNCHANGED treeVars \/ SearchFails
  <2>1. /\ UNCHANGED <<shared, found, edited>> /\ (pc' = "search" => UNCHANGED <<pc, cursor>>)
        /\ Searched' => Searched
    BY <1>1 DEF TreeNext, Edit, SearchCall, SearchFull, SearchFails, ChildPageOrder, Arrange, Shown,
       treeVars, Searched
  <2>2. SearchMissesNothing'
    <3>1. PagesOf(shared)' = PagesOf(shared) /\ Elements(shared)' = Elements(shared) /\ Elements(found)' = Elements(found)
      BY <2>1 DEF Elements
    <3> QED BY <2>1, <3>1 DEF SearchInv, SearchMissesNothing
  <2>3. SearchingInv'
    BY <2>1 DEF SearchInv, SearchingInv, From, Elements
  <2> QED BY <2>1, <2>2, <2>3 DEF SearchInv, Distinct
<1>2. CASE \E id \in Ids : Edit(id)
  BY <1>2, EditInv
<1>3. CASE SearchCall
  BY <1>3, SearchCallInv
<1>4. CASE SearchFull
  BY <1>4, SearchFullInv
<1> QED BY <1>1, <1>2, <1>3, <1>4 DEF TreeNext, ChildPageOrder, Arrange, Shown

LEMMA SearchInvHolds == TreeSpec => []SearchInv
BY SearchInitInv, SearchStepInv, PTL DEF TreeSpec

\* The search lists what is shared up to its limit and never more, whatever the
\* sizes of the answers, and misses no page but one edited meanwhile: the cursor
\* is an entry, and what stands before it was listed or moved there by an edit
\* (client.go:177-203).
THEOREM SearchesMissNothing == TreeSpec => []SearchMissesNothing
<1>1. SearchInv => SearchMissesNothing
  BY DEF SearchInv
<1> QED BY <1>1, SearchInvHolds, PTL

-----------------------------------------------------------------------------
(* StableSort.                                                             *)

\* Position j comes before position i, or is i.
Before(s, key, j, i) == key[s[j]] < key[s[i]] \/ (key[s[j]] = key[s[i]] /\ j <= i)

\* t is s in the order of the keys; place[r] is where in s its entry r stood.
SortedBy(t, s, key, place) ==
    /\ place \in [1..Len(s) -> 1..Len(s)]
    /\ \A i \in 1..Len(s) : \E r \in 1..Len(s) : place[r] = i
    /\ \A r \in 1..Len(s) : t[r] = s[place[r]]
    /\ \A r, q \in 1..Len(s) : r < q => ~Before(s, key, place[q], place[r])

LEMMA SortSorts ==
    ASSUME NEW A, NEW s \in Seq(A), NEW key \in [A -> Nat]
    PROVE  /\ StableSort(s, key) \in Seq(A) /\ Len(StableSort(s, key)) = Len(s)
           /\ \E place : SortedBy(StableSort(s, key), s, key, place)
<1> DEFINE N == Len(s)
           D == 1..N
           B(i) == {j \in D : Before(s, key, j, i)}
           Rank == [i \in D |-> Cardinality(B(i))]
<1>1. N \in Nat /\ DOMAIN s = D /\ \A i \in D : s[i] \in A /\ key[s[i]] \in Nat
  OBVIOUS
<1>2. IsFiniteSet(D) /\ Cardinality(D) = N
  <2>1. 1 \in Int /\ N \in Int /\ (IF 1 > N THEN 0 ELSE N - 1 + 1) = N
    BY <1>1
  <2>2. IsFiniteSet(1..N) /\ Cardinality(1..N) = (IF 1 > N THEN 0 ELSE N - 1 + 1)
    BY <2>1, FS_Interval
  <2> QED BY <2>1, <2>2
<1>3. \A i \in D : i \in B(i)
  BY <1>1 DEF Before
<1>4. \A i, k \in D : Before(s, key, i, k) \/ Before(s, key, k, i)
  BY <1>1 DEF Before
<1>5. \A i, k \in D : i # k /\ Before(s, key, i, k) => ~Before(s, key, k, i)
  BY <1>1 DEF Before
<1>6. \A i, j, k \in D : Before(s, key, i, j) /\ Before(s, key, j, k) => Before(s, key, i, k)
  BY <1>1 DEF Before
<1>7. \A i \in D : B(i) \in SUBSET D
  OBVIOUS
<1>8. ASSUME NEW i \in D PROVE Cardinality(B(i)) \in D /\ IsFiniteSet(B(i))
  <2>1. IsFiniteSet(B(i)) /\ Cardinality(B(i)) <= N
    BY <1>2, <1>7, FS_Subset
  <2>2. Cardinality(B(i)) \in Nat
    BY <2>1, FS_CardinalityType
  <2>3. Cardinality(B(i)) # 0
    BY <1>3, <2>1, FS_EmptySet
  <2> QED BY <1>1, <2>1, <2>2, <2>3
<1>9. ASSUME NEW i \in D, NEW k \in D, i # k, Before(s, key, i, k)
      PROVE  Cardinality(B(i)) < Cardinality(B(k))
  <2>1. B(i) \in SUBSET B(k) /\ k \in B(k) /\ k \notin B(i)
    BY <1>3, <1>5, <1>6, <1>9
  <2>2. Cardinality(B(i)) <= Cardinality(B(k)) /\ Cardinality(B(i)) # Cardinality(B(k))
    BY <1>8, <2>1, FS_Subset
  <2>3. Cardinality(B(i)) \in Nat /\ Cardinality(B(k)) \in Nat
    BY <1>1, <1>8
  <2> QED BY <2>2, <2>3
<1>10. Rank \in [D -> D] /\ \A i \in D : Rank[i] = Cardinality(B(i))
  BY <1>8
<1> HIDE DEF B, Rank
<1>11. \A i, k \in D : i # k => Rank[i] # Rank[k]
  <2>1. \A i, k \in D : i # k /\ Before(s, key, i, k) => Rank[i] # Rank[k]
    BY <1>1, <1>9, <1>10
  <2> QED BY <1>4, <2>1
<1>12. \A r \in D : \E i \in D : Rank[i] = r
  <2>1. Rank \in Injection(D, D)
    BY <1>10, <1>11 DEF Injection, IsInjective
  <2>2. Rank \in Surjection(D, D)
    BY <1>2, <2>1, FS_Injection
  <2> QED BY <2>2 DEF Surjection
<1> DEFINE place == [r \in D |-> CHOOSE i \in D : Rank[i] = r]
<1>13. place \in [D -> D] /\ \A r \in D : Rank[place[r]] = r
  BY <1>12
<1>14. StableSort(s, key) = [r \in D |-> s[place[r]]]
  <2>1. StableSort(s, key) =
           [r \in D |-> s[CHOOSE i \in D : Cardinality({j \in D : Before(s, key, j, i)}) = r]]
    BY <1>1 DEF StableSort, Before
  <2>2. \A r \in D : (CHOOSE i \in D : Cardinality({j \in D : Before(s, key, j, i)}) = r)
                     = (CHOOSE i \in D : Rank[i] = r)
    BY <1>10 DEF B
  <2> QED BY <2>1, <2>2
<1> HIDE DEF place
<1>15. StableSort(s, key) \in [D -> A] /\ \A r \in D : StableSort(s, key)[r] = s[place[r]]
  BY <1>1, <1>13, <1>14
<1>16. StableSort(s, key) \in Seq(A) /\ Len(StableSort(s, key)) = N
  BY <1>1, <1>15
<1>17. \A i \in D : \E r \in D : place[r] = i
  <2>1. ASSUME NEW i \in D PROVE Rank[i] \in D /\ place[Rank[i]] = i
    <3>1. Rank[i] \in D
      BY <1>10
    <3>2. place[Rank[i]] \in D /\ Rank[place[Rank[i]]] = Rank[i]
      BY <1>13, <3>1
    <3> QED BY <1>11, <3>1, <3>2
  <2> QED BY <2>1
<1>18. ASSUME NEW r \in D, NEW q \in D, r < q, Before(s, key, place[q], place[r]) PROVE FALSE
  <2>1. place[q] # place[r]
    BY <1>1, <1>13, <1>18
  <2>2. Rank[place[q]] < Rank[place[r]]
    <3>1. place[q] \in D /\ place[r] \in D
      BY <1>13
    <3>2. Cardinality(B(place[q])) < Cardinality(B(place[r]))
      BY <1>9, <1>18, <2>1, <3>1
    <3> QED BY <1>10, <3>1, <3>2
  <2> QED BY <1>1, <1>13, <1>18, <2>2
<1>19. SortedBy(StableSort(s, key), s, key, place)
  BY <1>13, <1>15, <1>17, <1>18 DEF SortedBy
<1> QED BY <1>16, <1>19

-----------------------------------------------------------------------------
(* Sequences that list a set, each element once.                           *)

Lists(t, K) == t \in Seq(K) /\ Elements(t) = K /\ Distinct(t)

LEMMA PickedList ==
    ASSUME NEW A, NEW s \in Seq(A), Distinct(s), NEW S
    PROVE  OnlyIn(s, S) \in Seq(A) /\ Lists(OnlyIn(s, S), Elements(s) \cap S)
<1> DEFINE t == OnlyIn(s, S)
<1>1. Len(s) \in 0..Len(s) /\ DOMAIN s = 1..Len(s)
  OBVIOUS
<1>2. t \in Seq(A) /\ PickedFrom(t, s, Len(s), S)
  <2>1. t = Picks(s, S)[Len(s)] /\ t \in Seq(A)
    BY <1>1, PicksRun
  <2> HIDE DEF t
  <2> QED BY <1>1, <2>1, PicksPick
<1> HIDE DEF t
<1>3. Elements(t) = Elements(s) \cap S
  BY <1>1, <1>2 DEF PickedFrom, Elements
<1>4. Distinct(t)
  <2>1. ASSUME NEW i \in DOMAIN t, NEW j \in DOMAIN t, i < j PROVE t[i] # t[j]
    <3>1. PICK k \in 1..Len(s), l \in 1..Len(s) : k < l /\ t[i] = s[k] /\ t[j] = s[l]
      BY <1>2, <2>1 DEF PickedFrom
    <3> QED BY <1>1, <3>1 DEF Distinct
  <2>2. \A i, j \in DOMAIN t : i < j \/ j < i \/ i = j
    BY <1>2
  <2> QED BY <2>1, <2>2 DEF Distinct
<1>5. t \in Seq(Elements(t))
  BY <1>2 DEF Elements
<1> QED BY <1>2, <1>3, <1>4, <1>5 DEF Lists, t

LEMMA SortedList ==
    ASSUME NEW A, NEW s \in Seq(A), NEW key \in [A -> Nat], NEW K, Lists(s, K)
    PROVE  Lists(StableSort(s, key), K)
<1> DEFINE t == StableSort(s, key)
           D == 1..Len(s)
<1>1. t \in Seq(A) /\ Len(t) = Len(s) /\ \E place : SortedBy(t, s, key, place)
  BY SortSorts
<1> HIDE DEF t
<1>2. PICK place : SortedBy(t, s, key, place)
  BY <1>1
<1>3. DOMAIN t = D /\ DOMAIN s = D /\ Len(s) \in Nat
  BY <1>1
<1>4. /\ \A r \in D : place[r] \in D /\ t[r] = s[place[r]]
      /\ \A i \in D : \E r \in D : place[r] = i
      /\ \A r, q \in D : r < q => place[r] # place[q]
  <2>1. \A i \in D : Before(s, key, i, i)
    BY DEF Before
  <2> QED BY <1>2, <2>1 DEF SortedBy
<1>5. Elements(t) = K
  <2> HIDE DEF D
  <2>1. Elements(t) \subseteq Elements(s)
    <3>1. \A r \in D : t[r] \in {s[i] : i \in D}
      BY <1>4
    <3> QED BY <1>3, <3>1 DEF Elements
  <2>2. Elements(s) \subseteq Elements(t)
    <3>1. \A i \in D : s[i] \in {t[r] : r \in D}
      BY <1>4
    <3> QED BY <1>3, <3>1 DEF Elements
  <2> QED BY <2>1, <2>2 DEF Lists
<1>6. Distinct(t)
  <2>1. ASSUME NEW r \in D, NEW q \in D, r < q PROVE t[r] # t[q]
    <3>1. place[r] \in D /\ place[q] \in D /\ place[r] # place[q]
      BY <1>4, <2>1
    <3>2. s[place[r]] # s[place[q]]
      BY <1>3, <3>1 DEF Lists, Distinct
    <3> QED BY <1>4, <3>2
  <2>2. \A r, q \in D : r < q \/ q < r \/ r = q
    BY <1>3
  <2> QED BY <1>3, <2>1, <2>2 DEF Distinct
<1>7. t \in Seq(K)
  BY <1>1, <1>5 DEF Elements
<1> QED BY <1>5, <1>6, <1>7 DEF Lists, t

\* A sequence after a sequence of other elements.
LEMMA ListsBoth ==
    ASSUME NEW t, NEW u, NEW K, NEW L, Lists(t, K), Lists(u, L), K \cap L = {}
    PROVE  Lists(t \o u, K \cup L)
<1> DEFINE b == t \o u
           B == K \cup L
<1>1. t \in Seq(B) /\ u \in Seq(B) /\ DOMAIN t = 1..Len(t) /\ DOMAIN u = 1..Len(u)
      /\ Len(t) \in Nat /\ Len(u) \in Nat
  BY DEF Lists
<1> HIDE DEF B
<1>2. /\ b \in Seq(B) /\ DOMAIN b = 1..(Len(t) + Len(u))
      /\ \A i \in 1..Len(t) : b[i] = t[i]
      /\ \A i \in 1..Len(u) : b[Len(t) + i] = u[i]
  BY <1>1
<1> HIDE DEF b
<1>3. ASSUME NEW i \in DOMAIN b
      PROVE  i \in DOMAIN t \/ (i - Len(t) \in DOMAIN u /\ Len(t) + (i - Len(t)) = i)
  BY <1>1, <1>2
<1>4. \A i \in DOMAIN t : i \in DOMAIN b /\ b[i] = t[i]
  BY <1>1, <1>2
<1>5. \A i \in DOMAIN u : Len(t) + i \in DOMAIN b /\ b[Len(t) + i] = u[i]
  BY <1>1, <1>2
<1>6. Elements(b) = B
  <2>1. Elements(t) = K /\ Elements(u) = L
    BY DEF Lists
  <2>2. Elements(t) \subseteq Elements(b) /\ Elements(u) \subseteq Elements(b)
    BY <1>4, <1>5 DEF Elements
  <2>3. ASSUME NEW i \in DOMAIN b PROVE b[i] \in Elements(t) \cup Elements(u)
    <3>1. CASE i \in DOMAIN t
      BY <1>4, <3>1 DEF Elements
    <3>2. CASE i \notin DOMAIN t
      <4>1. i - Len(t) \in DOMAIN u /\ b[i] = u[i - Len(t)]
        BY <1>3, <1>5, <3>2
      <4> QED BY <4>1 DEF Elements
    <3> QED BY <3>1, <3>2
  <2>4. Elements(b) \subseteq Elements(t) \cup Elements(u)
    BY <2>3 DEF Elements
  <2> QED BY <2>1, <2>2, <2>4 DEF B
<1>7. Distinct(b)
  <2> SUFFICES ASSUME NEW i \in DOMAIN b, NEW j \in DOMAIN b, b[i] = b[j] PROVE i = j
    BY DEF Distinct
  <2>1. /\ \A k \in DOMAIN t : t[k] \in K
        /\ \A k \in DOMAIN u : u[k] \in L
    BY DEF Lists
  <2>2. CASE i \in DOMAIN t /\ j \in DOMAIN t
    BY <1>4, <2>2 DEF Lists, Distinct
  <2>3. CASE i \in DOMAIN t /\ j \notin DOMAIN t
    <3>1. j - Len(t) \in DOMAIN u /\ b[j] = u[j - Len(t)]
      BY <1>3, <1>5, <2>3
    <3> QED BY <1>4, <2>1, <2>3, <3>1
  <2>4. CASE i \notin DOMAIN t /\ j \in DOMAIN t
    <3>1. i - Len(t) \in DOMAIN u /\ b[i] = u[i - Len(t)]
      BY <1>3, <1>5, <2>4
    <3> QED BY <1>4, <2>1, <2>4, <3>1
  <2>5. CASE i \notin DOMAIN t /\ j \notin DOMAIN t
    <3>1. /\ i - Len(t) \in DOMAIN u /\ b[i] = u[i - Len(t)]
          /\ j - Len(t) \in DOMAIN u /\ b[j] = u[j - Len(t)]
      BY <1>3, <1>5, <2>5
    <3>2. i - Len(t) = j - Len(t)
      BY <3>1 DEF Lists, Distinct
    <3> QED BY <1>1, <1>2, <3>2
  <2> QED BY <2>2, <2>3, <2>4, <2>5
<1> QED BY <1>2, <1>6, <1>7 DEF Lists, b, B

-----------------------------------------------------------------------------
(* Joined.                                                                 *)

JoinLoop(f, s, g) == f = [n \in 0..Len(s) |-> IF n = 0 THEN <<>> ELSE f[n - 1] \o g[s[n]]]

\* What the loop of Joined has after each of its turns.
Joins(s, g) == CHOOSE f : JoinLoop(f, s, g)

Joining(p, s, g, B) ==
    /\ p \in [0..Len(s) -> Seq(B)] /\ p[0] = <<>>
    /\ \A n \in 1..Len(s) : p[n] = p[n - 1] \o g[s[n]]

LEMMA JoinsRun ==
    ASSUME NEW A, NEW B, NEW s \in Seq(A), NEW g \in [A -> Seq(B)]
    PROVE  Joining(Joins(s, g), s, g, B) /\ Joined(s, g) = Joins(s, g)[Len(s)]
<1> DEFINE N == Len(s)
           V == Seq(B)
           base == <<>>
           body(n, v) == v \o g[s[n]]
           step == [nv \in (1..N) \X V |-> body(nv[1], nv[2])]
<1>1. N \in Nat /\ base \in V /\ \A n \in 1..N : g[s[n]] \in V
  OBVIOUS
<1>2. \A n \in 1..N, v \in V : body(n, v) \in V /\ step[<<n, v>>] = body(n, v)
  <2>1. \A t, u \in V : t \o u \in V
    OBVIOUS
  <2> HIDE DEF V
  <2> QED BY <1>1, <2>1
<1>3. step \in [(1..N) \X V -> V]
  BY <1>2
<1> HIDE DEF N, V, base, step, body
<1>4. PICK f : Loops(f, N, V, base, step)
  BY <1>1, <1>3, LoopRuns
<1>5. \A n \in 1..N : f[n - 1] \in V /\ f[n] = body(n, f[n - 1])
  <2>1. \A n \in 1..N : n - 1 \in 0..N
    BY <1>1
  <2> QED BY <1>2, <1>4, <2>1 DEF Loops
<1>6. JoinLoop(f, s, g)
  <2>1. \A n \in 0..N : f[n] = IF n = 0 THEN <<>> ELSE f[n - 1] \o g[s[n]]
    <3>1. f[0] = <<>>
      BY <1>4 DEF base, Loops
    <3>2. \A n \in 0..N : n # 0 => n \in 1..N
      BY <1>1
    <3> QED BY <1>5, <3>1, <3>2 DEF body
  <2>2. f = [n \in 0..N |-> f[n]]
    BY <1>4 DEF Loops
  <2> QED BY <2>1, <2>2 DEF JoinLoop, N
<1>7. JoinLoop(Joins(s, g), s, g)
  BY <1>6 DEF Joins
<1> DEFINE p == Joins(s, g)
<1> HIDE DEF p
<1>8. JoinLoop(p, s, g)
  BY <1>7 DEF p
<1>9. p[0] = base /\ \A n \in 1..N : p[n] = body(n, p[n - 1])
  <2>1. \A n \in 0..N : p[n] = IF n = 0 THEN <<>> ELSE p[n - 1] \o g[s[n]]
    BY <1>8 DEF JoinLoop, N
  <2>2. 0 \in 0..N /\ \A n \in 1..N : n \in 0..N /\ n # 0
    BY <1>1
  <2> QED BY <2>1, <2>2 DEF base, body
<1>10. 0..N \subseteq {n \in 0..N : p[n] \in V}
  <2> DEFINE T == {n \in 0..N : p[n] \in V}
  <2>1. 0 \in T
    BY <1>1, <1>9
  <2>2. \A n \in 1..N : n - 1 \in T => n \in T
    <3>1. \A n \in 1..N : n \in 0..N
      BY <1>1
    <3> QED BY <1>2, <1>9, <3>1
  <2> HIDE DEF T
  <2>3. 0..N \subseteq T
    BY <1>1, <2>1, <2>2, TurnByTurn
  <2> QED BY <2>3 DEF T
<1>11. p \in [0..N -> V]
  <2>1. p = [n \in 0..N |-> p[n]]
    BY <1>8 DEF JoinLoop, N
  <2> QED BY <1>10, <2>1
<1>12. Joined(s, g) = p[N]
  BY DEF Joined, p, Joins, JoinLoop, N
<1>13. Joining(p, s, g, B)
  BY <1>9, <1>11 DEF Joining, N, V, base, body
<1> QED BY <1>12, <1>13 DEF p, N

\* What g makes of the entries of s lists sets that have nothing in common.
ListsApart(s, g, R) ==
    /\ \A a \in Elements(s) : Lists(g[a], R[a])
    /\ \A a, b \in Elements(s) : a # b => R[a] \cap R[b] = {}

AllOf(s, R) == UNION {R[a] : a \in Elements(s)}

\* Lists of disjoint sets, one after the other, list their union.
LEMMA JoinedList ==
    ASSUME NEW A, NEW B, NEW s \in Seq(A), Distinct(s), NEW g \in [A -> Seq(B)], NEW R,
           ListsApart(s, g, R)
    PROVE  Lists(Joined(s, g), AllOf(s, R))
<1> DEFINE N == Len(s)
           p == Joins(s, g)
           Upto(n) == UNION {R[s[i]] : i \in 1..n}
           Good(n) == Lists(p[n], Upto(n))
           T == {n \in 0..N : Good(n)}
<1>1. /\ p \in [0..N -> Seq(B)] /\ N \in Nat /\ p[0] = <<>> /\ Joined(s, g) = p[N]
      /\ \A n \in 1..N : p[n] = p[n - 1] \o g[s[n]]
  <2>1. Len(s) \in Nat
    OBVIOUS
  <2> HIDE DEF p, N
  <2>2. Joining(Joins(s, g), s, g, B) /\ Joined(s, g) = Joins(s, g)[Len(s)]
    BY JoinsRun
  <2> QED BY <2>1, <2>2 DEF p, N, Joining
<1>2. DOMAIN s = 1..N
  OBVIOUS
<1> HIDE DEF p, N
<1>3. Good(0)
  <2>1. Upto(0) = {}
    OBVIOUS
  <2>2. Lists(<<>>, {})
    BY DEF Lists, Elements, Distinct
  <2> QED BY <1>1, <2>1, <2>2
<1>4. ASSUME NEW n \in 1..N, Good(n - 1) PROVE Good(n)
  <2>1. \A i : i \in 1..n <=> i \in 1..(n - 1) \/ i = n
    BY <1>1
  <2>2. Upto(n) = Upto(n - 1) \cup R[s[n]]
    BY <2>1
  <2>3. \A i \in 1..(n - 1) : i \in DOMAIN s /\ n \in DOMAIN s /\ i # n
    BY <1>1, <1>2
  <2>4. \A i \in 1..(n - 1) : s[i] # s[n] /\ s[i] \in Elements(s) /\ s[n] \in Elements(s)
    BY <2>3 DEF Distinct, Elements
  <2>5. Upto(n - 1) \cap R[s[n]] = {}
    BY <2>4 DEF ListsApart
  <2>6. s[n] \in Elements(s)
    BY <1>2 DEF Elements
  <2>7. Lists(g[s[n]], R[s[n]])
    BY <2>6 DEF ListsApart
  <2> HIDE DEF Upto
  <2>8. Lists(p[n - 1] \o g[s[n]], Upto(n - 1) \cup R[s[n]])
    BY <1>4, <2>5, <2>7, ListsBoth
  <2> QED BY <1>1, <2>2, <2>8
<1>5. Good(N)
  <2>1. 0 \in T
    BY <1>1, <1>3
  <2>2. \A n \in 1..N : n - 1 \in T => n \in T
    <3>1. \A n \in 1..N : n \in 0..N
      BY <1>1
    <3> QED BY <1>4, <3>1
  <2> HIDE DEF T
  <2>3. 0..N \subseteq T
    BY <1>1, <2>1, <2>2, TurnByTurn
  <2>4. N \in T
    BY <1>1, <2>3
  <2> QED BY <2>4 DEF T
<1>6. Upto(N) = AllOf(s, R)
  BY <1>2 DEF Elements, AllOf
<1> QED BY <1>1, <1>5, <1>6

-----------------------------------------------------------------------------
(* The pages to arrange.                                                   *)

Row == [id : Ids, depth : 0..MaxDepth]

FoundTyped ==
    /\ found \in Seq(Ids) /\ parentOf \in [Ids -> Ids \cup {Outside}]
    /\ \A p \in DOMAIN order : order[p] \in Seq(Ids)

KidsOf(p) == {id \in Elements(found) : HasParent(id) /\ parentOf[id] = p}

LEMMA SortedPick ==
    ASSUME FoundTyped, NEW S \in SUBSET Ids
    PROVE  /\ ByTitle(OnlyIn(found, S)) \in Seq(Ids)
           /\ Distinct(found) => Lists(ByTitle(OnlyIn(found, S)), Elements(found) \cap S)
<1> DEFINE t == OnlyIn(found, S)
<1>1. found \in Seq(Ids) /\ TitleOf \in [Ids -> Nat] /\ Len(found) \in 0..Len(found)
  BY TreeAssumption DEF FoundTyped
<1>2. t \in Seq(Ids)
  BY <1>1, PicksRun
<1>3. Distinct(found) => Lists(t, Elements(found) \cap S)
  BY <1>1, PickedList
<1> HIDE DEF t
<1>4. StableSort(t, TitleOf) \in Seq(Ids)
  BY <1>1, <1>2, SortSorts
<1>5. Distinct(found) => Lists(StableSort(t, TitleOf), Elements(found) \cap S)
  BY <1>1, <1>2, <1>3, SortedList
<1> QED BY <1>4, <1>5 DEF ByTitle, t

LEMMA RootsListed ==
    ASSUME FoundTyped
    PROVE  /\ Roots \in Seq(Ids)
           /\ Distinct(found) => Lists(Roots, {id \in Elements(found) : ~HasParent(id)})
<1> DEFINE S == {id \in Ids : ~HasParent(id)}
<1>1. S \in SUBSET Ids /\ Elements(found) \subseteq Ids
  BY DEF FoundTyped, Elements
<1>2. Elements(found) \cap S = {id \in Elements(found) : ~HasParent(id)}
  BY <1>1
<1>3. Roots = ByTitle(OnlyIn(found, S))
  BY DEF Roots
<1> HIDE DEF S
<1> QED BY <1>1, <1>2, <1>3, SortedPick

LEMMA KidsListed ==
    ASSUME FoundTyped, NEW p
    PROVE  Kids(p) \in Seq(Ids) /\ (Distinct(found) => Lists(Kids(p), KidsOf(p)))
<1> DEFINE S == {id \in Ids : HasParent(id) /\ parentOf[id] = p}
           t == KidsByTitle(p)
           key == [id \in Ids |-> Place(p, id)]
<1>1. S \in SUBSET Ids /\ Elements(found) \subseteq Ids
  BY DEF FoundTyped, Elements
<1>2. Elements(found) \cap S = KidsOf(p)
  BY <1>1 DEF KidsOf
<1>3. t = ByTitle(OnlyIn(found, S))
  BY DEF KidsByTitle
<1> HIDE DEF S, t
<1>4. t \in Seq(Ids) /\ (Distinct(found) => Lists(t, KidsOf(p)))
  BY <1>1, <1>2, <1>3, SortedPick
<1>5. CASE p \notin DOMAIN order
  BY <1>4, <1>5 DEF Kids, t
<1>6. CASE p \in DOMAIN order
  <2>1. order[p] \in Seq(Ids)
    BY <1>6 DEF FoundTyped
  <2>2. Len(order[p]) \in Nat /\ DOMAIN order[p] = 1..Len(order[p])
    BY <2>1
  <2>3. ASSUME NEW id \in Ids PROVE Place(p, id) \in Nat
    <3>1. CASE \E i \in DOMAIN order[p] : order[p][i] = id
      <4>1. Place(p, id) \in DOMAIN order[p]
        BY <3>1 DEF Place
      <4> QED BY <2>2, <4>1
    <3>2. CASE ~\E i \in DOMAIN order[p] : order[p][i] = id
      BY <2>2, <3>2 DEF Place
    <3> QED BY <3>1, <3>2
  <2>4. key \in [Ids -> Nat]
    BY <2>3
  <2>5. Kids(p) = StableSort(t, key)
    BY <1>6 DEF Kids, t
  <2> HIDE DEF key
  <2>6. StableSort(t, key) \in Seq(Ids)
    BY <1>4, <2>4, SortSorts
  <2>7. Distinct(found) => Lists(StableSort(t, key), KidsOf(p))
    BY <1>4, <2>4, SortedList
  <2> QED BY <2>5, <2>6, <2>7
<1> QED BY <1>5, <1>6

-----------------------------------------------------------------------------
(* walk.                                                                   *)

RowsLoop(f) ==
    f = [left \in 0..MaxDepth |->
            [id \in Ids |-> <<[id |-> id, depth |-> MaxDepth - left]>>
                            \o (IF left = 0 THEN <<>> ELSE Joined(Kids(id), f[left - 1]))]]

\* What the walk below a page makes of the walks below its children.
LEMMA RowsWalk ==
    ASSUME FoundTyped
    PROVE  /\ Rows \in [0..MaxDepth -> [Ids -> Seq(Row)]]
           /\ \A id \in Ids : Rows[0][id] = <<[id |-> id, depth |-> MaxDepth]>>
           /\ \A left \in 1..MaxDepth, id \in Ids :
                 Rows[left][id] = <<[id |-> id, depth |-> MaxDepth - left]>> \o Joined(Kids(id), Rows[left - 1])
<1> DEFINE N == MaxDepth
           V == [Ids -> Seq(Row)]
           head(n, id) == <<[id |-> id, depth |-> N - n]>>
           base == [id \in Ids |-> head(0, id)]
           body(n, v) == [id \in Ids |-> head(n, id) \o Joined(Kids(id), v)]
           step == [nv \in (1..N) \X V |-> body(nv[1], nv[2])]
<1>1. N \in Nat
  BY TreeAssumption
<1>2. \A n \in 0..N, id \in Ids : head(n, id) \in Seq(Row)
  <2>1. \A n \in 0..N, id \in Ids : [id |-> id, depth |-> N - n] \in Row
    BY <1>1 DEF Row
  <2> QED BY <2>1
<1>3. ASSUME NEW v \in V, NEW id \in Ids PROVE Joined(Kids(id), v) \in Seq(Row)
  <2>1. Kids(id) \in Seq(Ids)
    BY KidsListed
  <2>2. Joining(Joins(Kids(id), v), Kids(id), v, Row) /\ Joined(Kids(id), v) = Joins(Kids(id), v)[Len(Kids(id))]
    BY <2>1, JoinsRun
  <2>3. Len(Kids(id)) \in 0..Len(Kids(id))
    BY <2>1
  <2> QED BY <2>2, <2>3 DEF Joining
<1>4. base \in V
  <2>1. \A id \in Ids : head(0, id) \in Seq(Row)
    BY <1>1, <1>2
  <2> QED BY <2>1
<1>5. ASSUME NEW n \in 1..N, NEW v \in V PROVE body(n, v) \in V /\ step[<<n, v>>] = body(n, v)
  <2>1. \A t, u \in Seq(Row) : t \o u \in Seq(Row)
    OBVIOUS
  <2>2. \A id \in Ids : head(n, id) \o Joined(Kids(id), v) \in Seq(Row)
    BY <1>1, <1>2, <1>3, <2>1
  <2> QED BY <2>2
<1>6. step \in [(1..N) \X V -> V]
  <2>1. \A nv \in (1..N) \X V : nv[1] \in 1..N /\ nv[2] \in V
    OBVIOUS
  <2> HIDE DEF body, V
  <2>2. \A nv \in (1..N) \X V : body(nv[1], nv[2]) \in V
    BY <1>5, <2>1
  <2> QED BY <2>2
<1> HIDE DEF N, V, head, base, step, body
<1>7. PICK f : Loops(f, N, V, base, step)
  BY <1>1, <1>4, <1>6, LoopRuns
<1>8. \A n \in 1..N : f[n - 1] \in V /\ f[n] = body(n, f[n - 1])
  <2>1. \A n \in 1..N : n - 1 \in 0..N
    BY <1>1
  <2> QED BY <1>5, <1>7, <2>1 DEF Loops
<1>9. RowsLoop(f)
  <2> DEFINE G(n) == [id \in Ids |-> head(n, id) \o (IF n = 0 THEN <<>> ELSE Joined(Kids(id), f[n - 1]))]
  <2>1. f[0] = G(0)
    <3>1. \A id \in Ids : head(0, id) \o <<>> = head(0, id)
      BY <1>1, <1>2
    <3> QED BY <1>7, <3>1 DEF base, Loops
  <2>2. \A n \in 1..N : f[n] = G(n)
    <3>1. ASSUME NEW n \in 1..N PROVE f[n] = G(n)
      <4>1. n # 0 /\ f[n] = [id \in Ids |-> head(n, id) \o Joined(Kids(id), f[n - 1])]
        BY <1>1, <1>8 DEF body
      <4> QED BY <4>1
    <3> QED BY <3>1
  <2>3. \A n \in 0..N : n = 0 \/ n \in 1..N
    BY <1>1
  <2>4. \A n \in 0..N : f[n] = G(n)
    BY <2>1, <2>2, <2>3
  <2> HIDE DEF G
  <2>5. f = [n \in 0..N |-> G(n)]
    BY <1>7, <2>4 DEF Loops
  <2> QED BY <2>5 DEF RowsLoop, G, N, head
<1>10. RowsLoop(Rows)
  BY <1>9 DEF Rows, RowsLoop
<1> DEFINE p == Rows
<1> HIDE DEF p
<1>11. RowsLoop(p)
  BY <1>10 DEF p
<1>12. p[0] = base /\ \A n \in 1..N : p[n] = body(n, p[n - 1])
  <2>1. \A n \in 0..N : p[n] = [id \in Ids |-> head(n, id) \o (IF n = 0 THEN <<>> ELSE Joined(Kids(id), p[n - 1]))]
    BY <1>11 DEF RowsLoop, N, head
  <2>2. 0 \in 0..N /\ \A n \in 1..N : n \in 0..N /\ n # 0
    BY <1>1
  <2>3. p[0] = [id \in Ids |-> head(0, id) \o <<>>]
    BY <2>1, <2>2
  <2>4. \A id \in Ids : head(0, id) \o <<>> = head(0, id)
    BY <1>1, <1>2
  <2>5. p[0] = base
    BY <2>3, <2>4 DEF base
  <2> QED BY <2>1, <2>2, <2>5 DEF body
<1>13. 0..N \subseteq {n \in 0..N : p[n] \in V}
  <2> DEFINE T == {n \in 0..N : p[n] \in V}
  <2>1. 0 \in T
    BY <1>1, <1>4, <1>12
  <2>2. \A n \in 1..N : n - 1 \in T => n \in T
    <3>1. \A n \in 1..N : n \in 0..N
      BY <1>1
    <3> QED BY <1>5, <1>12, <3>1
  <2> HIDE DEF T
  <2>3. 0..N \subseteq T
    BY <1>1, <2>1, <2>2, TurnByTurn
  <2> QED BY <2>3 DEF T
<1>14. p \in [0..N -> V]
  <2>1. p = [n \in 0..N |-> p[n]]
    BY <1>11 DEF RowsLoop, N
  <2> QED BY <1>13, <2>1
<1>15. \A id \in Ids : p[0][id] = <<[id |-> id, depth |-> MaxDepth]>>
  BY <1>1, <1>12 DEF base, head, N
<1>16. \A n \in 1..N, id \in Ids : p[n][id] = head(n, id) \o Joined(Kids(id), p[n - 1])
  BY <1>12 DEF body
<1> QED BY <1>14, <1>15, <1>16 DEF p, N, V, head

-----------------------------------------------------------------------------
(* The pages above a page.                                                 *)

Up(a) == IF a \in Ids /\ HasParent(a) THEN parentOf[a] ELSE Outside

AncestorLoop(f) ==
    f = [n \in 0..MaxDepth |->
            [id \in Ids |-> IF n = 0 THEN id
                            ELSE IF f[n - 1][id] \in Ids /\ HasParent(f[n - 1][id])
                                 THEN parentOf[f[n - 1][id]] ELSE Outside]]

LEMMA AncestorsClimb ==
    ASSUME FoundTyped
    PROVE  /\ Ancestor \in [0..MaxDepth -> [Ids -> Ids \cup {Outside}]]
           /\ \A id \in Ids : Ancestor[0][id] = id
           /\ \A n \in 1..MaxDepth, id \in Ids : Ancestor[n][id] = Up(Ancestor[n - 1][id])
<1> DEFINE N == MaxDepth
           V == [Ids -> Ids \cup {Outside}]
           base == [id \in Ids |-> id]
           body(v) == [id \in Ids |-> Up(v[id])]
           step == [nv \in (1..N) \X V |-> body(nv[2])]
<1>1. N \in Nat /\ base \in V
  BY TreeAssumption
<1>2. \A a : Up(a) \in Ids \cup {Outside}
  BY DEF Up, FoundTyped
<1>3. \A v \in V : body(v) \in V
  BY <1>2
<1>4. /\ \A n \in 1..N, v \in V : step[<<n, v>>] = body(v)
      /\ \A nv \in (1..N) \X V : nv[2] \in V
  OBVIOUS
<1>5. step \in [(1..N) \X V -> V]
  <2> HIDE DEF body, V
  <2> QED BY <1>3, <1>4
<1> HIDE DEF N, V, base, body, step
<1>6. PICK f : Loops(f, N, V, base, step)
  BY <1>1, <1>5, LoopRuns
<1>7. \A n \in 1..N : f[n - 1] \in V /\ f[n] = body(f[n - 1])
  <2>1. \A n \in 1..N : n - 1 \in 0..N
    BY <1>1
  <2> QED BY <1>4, <1>6, <2>1 DEF Loops
<1>8. AncestorLoop(f)
  <2> DEFINE G(n) == [id \in Ids |-> IF n = 0 THEN id ELSE Up(f[n - 1][id])]
  <2>1. f[0] = G(0)
    BY <1>6 DEF base, Loops
  <2>2. ASSUME NEW n \in 1..N PROVE f[n] = G(n)
    <3>1. n # 0 /\ f[n] = [id \in Ids |-> Up(f[n - 1][id])]
      BY <1>1, <1>7 DEF body
    <3> QED BY <3>1
  <2>3. \A n \in 0..N : n = 0 \/ n \in 1..N
    BY <1>1
  <2>4. \A n \in 0..N : f[n] = G(n)
    BY <2>1, <2>2, <2>3
  <2> HIDE DEF G
  <2>5. f = [n \in 0..N |-> G(n)]
    BY <1>6, <2>4 DEF Loops
  <2> QED BY <2>5 DEF AncestorLoop, G, N, Up
<1>9. AncestorLoop(Ancestor)
  BY <1>8 DEF Ancestor, AncestorLoop
<1> DEFINE p == Ancestor
<1> HIDE DEF p
<1>10. AncestorLoop(p)
  BY <1>9 DEF p
<1>11. p[0] = base /\ \A n \in 1..N : p[n] = body(p[n - 1])
  <2>1. \A n \in 0..N : p[n] = [id \in Ids |-> IF n = 0 THEN id ELSE Up(p[n - 1][id])]
    BY <1>10 DEF AncestorLoop, N, Up
  <2>2. 0 \in 0..N /\ \A n \in 1..N : n \in 0..N /\ n # 0
    BY <1>1
  <2>3. p[0] = base
    BY <2>1, <2>2 DEF base
  <2> QED BY <2>1, <2>2, <2>3 DEF body
<1>12. 0..N \subseteq {n \in 0..N : p[n] \in V}
  <2> DEFINE T == {n \in 0..N : p[n] \in V}
  <2>1. 0 \in T
    BY <1>1, <1>11
  <2>2. \A n \in 1..N : n - 1 \in T => n \in T
    <3>1. \A n \in 1..N : n \in 0..N
      BY <1>1
    <3> QED BY <1>3, <1>11, <3>1
  <2> HIDE DEF T
  <2>3. 0..N \subseteq T
    BY <1>1, <2>1, <2>2, TurnByTurn
  <2> QED BY <2>3 DEF T
<1>13. p \in [0..N -> V]
  <2>1. p = [n \in 0..N |-> p[n]]
    BY <1>10 DEF AncestorLoop, N
  <2> QED BY <1>12, <2>1
<1>14. \A id \in Ids : p[0][id] = id
  BY <1>11 DEF base
<1>15. \A n \in 1..N, id \in Ids : p[n][id] = Up(p[n - 1][id])
  BY <1>11 DEF body
<1> QED BY <1>13, <1>14, <1>15 DEF p, N, V

\* What is above a page that was found was found too.
LEMMA AncestorsAreFound ==
    ASSUME FoundTyped, NEW id \in Elements(found), NEW n \in 0..MaxDepth, Ancestor[n][id] \in Ids
    PROVE  Ancestor[n][id] \in Elements(found)
<1>1. MaxDepth \in Nat /\ Outside \notin Ids /\ id \in Ids
  BY TreeAssumption DEF FoundTyped, Elements
<1>2. Ancestor[0][id] = id /\ \A k \in 1..MaxDepth : Ancestor[k][id] = Up(Ancestor[k - 1][id])
  BY <1>1, AncestorsClimb
<1>3. CASE n = 0
  BY <1>2, <1>3
<1>4. CASE n # 0
  <2>1. n \in 1..MaxDepth
    BY <1>1, <1>4
  <2> QED BY <1>1, <1>2, <2>1 DEF Up, HasParent
<1> QED BY <1>3, <1>4

\* Above a page without a parent there is nothing.
LEMMA OneDepth ==
    ASSUME FoundTyped, NEW id \in Ids, NEW m \in DepthsOf(id), NEW n \in DepthsOf(id)
    PROVE  m = n
<1> DEFINE a == [k \in 0..MaxDepth |-> Ancestor[k][id]]
<1>1. MaxDepth \in Nat /\ Outside \notin Ids
  BY TreeAssumption
<1>2. \A k \in 1..MaxDepth : a[k] = Up(a[k - 1])
  <2>1. \A k \in 1..MaxDepth : k \in 0..MaxDepth /\ k - 1 \in 0..MaxDepth
    BY <1>1
  <2> QED BY <2>1, AncestorsClimb
<1>3. \A k \in DepthsOf(id) : k \in 0..MaxDepth /\ a[k] \in Ids /\ ~HasParent(a[k])
  BY DEF DepthsOf
<1> HIDE DEF a
<1>4. ASSUME NEW k \in DepthsOf(id), NEW l \in DepthsOf(id), k < l PROVE FALSE
  <2> DEFINE T == {d \in 0..(l - k - 1) : a[k + 1 + d] = Outside}
  <2>1. l - k - 1 \in Nat /\ k \in Nat /\ l \in Nat /\ l <= MaxDepth
    BY <1>1, <1>3, <1>4
  <2>2. 0 \in T
    <3>1. k + 1 \in 1..MaxDepth /\ (k + 1) - 1 = k /\ k + 1 + 0 = k + 1
      BY <1>1, <2>1
    <3>2. a[k + 1] = Up(a[k])
      BY <1>2, <3>1
    <3> QED BY <1>3, <2>1, <3>1, <3>2 DEF Up
  <2>3. ASSUME NEW d \in 1..(l - k - 1), d - 1 \in T PROVE d \in T
    <3>1. /\ k + 1 + d \in 1..MaxDepth /\ (k + 1 + d) - 1 = k + 1 + (d - 1)
          /\ d \in 0..(l - k - 1)
      BY <1>1, <2>1
    <3>2. a[k + 1 + d] = Up(a[k + 1 + (d - 1)])
      BY <1>2, <3>1
    <3> QED BY <1>1, <2>3, <3>1, <3>2 DEF Up
  <2> HIDE DEF T
  <2>4. 0..(l - k - 1) \subseteq T
    BY <2>1, <2>2, <2>3, TurnByTurn
  <2>5. l - k - 1 \in T /\ k + 1 + (l - k - 1) = l
    BY <2>1, <2>4
  <2>6. a[l] = Outside
    BY <2>5 DEF T
  <2> QED BY <1>1, <1>3, <2>6
<1>5. m \in Int /\ n \in Int
  BY <1>1, <1>3
<1> QED BY <1>4, <1>5

-----------------------------------------------------------------------------
(* Every page once.                                                        *)

\* The rows of the pages that are under a page, at most so many levels down.
Below(left, id) ==
    {r \in Row : /\ r.id \in Elements(found)
                 /\ \E k \in 0..left : r.depth = MaxDepth - left + k /\ Ancestor[k][r.id] = id}

WalkLists(left) == \A id \in Elements(found) : Lists(Rows[left][id], Below(left, id))

\* A row below a page is that of the page or is below one of its children.
LEMMA BelowIsBelowKids ==
    ASSUME FoundTyped, NEW left \in 1..MaxDepth, NEW id \in Elements(found)
    PROVE  /\ Below(left, id) = {[id |-> id, depth |-> MaxDepth - left]}
                                \cup UNION {Below(left - 1, a) : a \in KidsOf(id)}
           /\ [id |-> id, depth |-> MaxDepth - left] \notin UNION {Below(left - 1, a) : a \in KidsOf(id)}
<1> DEFINE head == [id |-> id, depth |-> MaxDepth - left]
           under == UNION {Below(left - 1, a) : a \in KidsOf(id)}
<1>1. /\ MaxDepth \in Nat /\ left \in Nat /\ left - 1 \in Nat /\ left <= MaxDepth /\ left > 0
      /\ Outside \notin Ids /\ Elements(found) \subseteq Ids
  BY TreeAssumption DEF FoundTyped, Elements
<1>2. /\ \A x \in Ids : Ancestor[0][x] = x
      /\ \A n \in 1..MaxDepth, x \in Ids : Ancestor[n][x] = Up(Ancestor[n - 1][x])
  BY AncestorsClimb
<1>3. head \in Row /\ head.id = id /\ head.depth = MaxDepth - left
  BY <1>1 DEF Row
<1>4. \A r \in Row : r.id = id /\ r.depth = MaxDepth - left => r = head
  BY DEF Row
<1> HIDE DEF head
<1>5. head \in Below(left, id)
  <2>1. 0 \in 0..left /\ head.depth = MaxDepth - left + 0 /\ Ancestor[0][head.id] = id
    BY <1>1, <1>2, <1>3
  <2> QED BY <1>3, <2>1 DEF Below
<1>6. ASSUME NEW r \in Below(left, id) PROVE r = head \/ r \in under
  <2>1. /\ r \in Row /\ r.id \in Elements(found) /\ r.id \in Ids
    BY <1>1 DEF Below
  <2>2. PICK k \in 0..left : r.depth = MaxDepth - left + k /\ Ancestor[k][r.id] = id
    BY DEF Below
  <2>3. CASE k = 0
    <3>1. r.depth = MaxDepth - left
      BY <1>1, <2>2, <2>3
    <3> QED BY <1>2, <1>4, <2>1, <2>2, <2>3, <3>1
  <2>4. CASE k # 0
    <3>1. /\ k \in 1..MaxDepth /\ k - 1 \in 0..(left - 1) /\ k - 1 \in 0..MaxDepth
          /\ r.depth = MaxDepth - (left - 1) + (k - 1)
      BY <1>1, <2>2, <2>4
    <3>2. Up(Ancestor[k - 1][r.id]) = id
      BY <1>2, <2>1, <2>2, <3>1
    <3>3. PICK a : a = Ancestor[k - 1][r.id]
      OBVIOUS
    <3>4. a \in Ids /\ HasParent(a) /\ parentOf[a] = id
      BY <1>1, <3>2, <3>3 DEF Up
    <3>5. a \in KidsOf(id)
      BY <2>1, <3>1, <3>3, <3>4, AncestorsAreFound DEF KidsOf
    <3>6. r \in Below(left - 1, a)
      BY <2>1, <3>1, <3>3 DEF Below
    <3> QED BY <3>5, <3>6
  <2> QED BY <2>3, <2>4
<1>7. ASSUME NEW a \in KidsOf(id), NEW r \in Below(left - 1, a)
      PROVE  r \in Below(left, id) /\ r # head
  <2>1. r \in Row /\ r.id \in Elements(found) /\ r.id \in Ids
    BY <1>1 DEF Below
  <2>2. PICK k \in 0..(left - 1) : r.depth = MaxDepth - (left - 1) + k /\ Ancestor[k][r.id] = a
    BY DEF Below
  <2>3. /\ k + 1 \in 0..left /\ k + 1 \in 1..MaxDepth /\ (k + 1) - 1 = k
        /\ r.depth = MaxDepth - left + (k + 1) /\ r.depth # MaxDepth - left
    BY <1>1, <2>2
  <2>4. Ancestor[k + 1][r.id] = Up(a)
    BY <1>2, <2>1, <2>2, <2>3
  <2>5. Up(a) = id
    BY <1>1 DEF KidsOf, Up
  <2>6. r \in Below(left, id)
    BY <2>1, <2>3, <2>4, <2>5 DEF Below
  <2> QED BY <1>3, <2>3, <2>6
<1>8. Below(left, id) = {head} \cup under /\ head \notin under
  BY <1>5, <1>6, <1>7
<1> QED BY <1>8 DEF head

LEMMA WalksList ==
    ASSUME FoundTyped, Distinct(found)
    PROVE  \A left \in 0..MaxDepth : WalkLists(left)
<1>1. MaxDepth \in Nat /\ Elements(found) \subseteq Ids
  BY TreeAssumption DEF FoundTyped, Elements
<1>2. /\ Rows \in [0..MaxDepth -> [Ids -> Seq(Row)]]
      /\ \A id \in Ids : Rows[0][id] = <<[id |-> id, depth |-> MaxDepth]>>
      /\ \A left \in 1..MaxDepth, id \in Ids :
            Rows[left][id] = <<[id |-> id, depth |-> MaxDepth - left]>> \o Joined(Kids(id), Rows[left - 1])
  BY RowsWalk
<1>3. \A r : Lists(<<r>>, {r})
  BY DEF Lists, Elements, Distinct
<1>4. WalkLists(0)
  <2> SUFFICES ASSUME NEW id \in Elements(found) PROVE Lists(Rows[0][id], Below(0, id))
    BY DEF WalkLists
  <2> DEFINE head == [id |-> id, depth |-> MaxDepth]
  <2>1. Rows[0][id] = <<head>>
    BY <1>1, <1>2
  <2>2. Below(0, id) = {head}
    <3>1. head \in Row /\ head.id = id /\ head.depth = MaxDepth
      BY <1>1 DEF Row
    <3>2. \A r \in Row : r.id = id /\ r.depth = MaxDepth => r = head
      BY DEF Row
    <3> HIDE DEF head
    <3>3. \A k : k \in 0..0 <=> k = 0
      OBVIOUS
    <3>4. MaxDepth - 0 + 0 = MaxDepth
      BY <1>1
    <3>5. \A x \in Elements(found) : Ancestor[0][x] = x
      BY <1>1, AncestorsClimb
    <3> QED BY <3>1, <3>2, <3>3, <3>4, <3>5 DEF Below
  <2> QED BY <1>3, <2>1, <2>2
<1>5. ASSUME NEW left \in 1..MaxDepth, WalkLists(left - 1) PROVE WalkLists(left)
  <2> SUFFICES ASSUME NEW id \in Elements(found) PROVE Lists(Rows[left][id], Below(left, id))
    BY DEF WalkLists
  <2> DEFINE head == [id |-> id, depth |-> MaxDepth - left]
             R == [a \in Ids |-> Below(left - 1, a)]
             walk == Rows[left - 1]
             s == Kids(id)
  <2>1. id \in Ids /\ KidsOf(id) \subseteq Elements(found) /\ KidsOf(id) \subseteq Ids
        /\ left - 1 \in 0..MaxDepth
    BY <1>1 DEF KidsOf
  <2>2. s \in Seq(Ids) /\ Lists(s, KidsOf(id))
    BY KidsListed
  <2>3. walk \in [Ids -> Seq(Row)]
    BY <1>2, <2>1
  <2>4. \A a \in KidsOf(id) : R[a] = Below(left - 1, a)
    BY <2>1
  <2>5. \A a \in KidsOf(id) : Lists(walk[a], R[a])
    BY <1>5, <2>1, <2>4 DEF WalkLists
  <2>6. ASSUME NEW a \in KidsOf(id), NEW b \in KidsOf(id), a # b PROVE R[a] \cap R[b] = {}
    <3> SUFFICES ASSUME NEW r \in Below(left - 1, a), r \in Below(left - 1, b) PROVE FALSE
      BY <2>4
    <3>1. PICK k \in 0..(left - 1) : r.depth = MaxDepth - (left - 1) + k /\ Ancestor[k][r.id] = a
      BY DEF Below
    <3>2. PICK l \in 0..(left - 1) : r.depth = MaxDepth - (left - 1) + l /\ Ancestor[l][r.id] = b
      BY DEF Below
    <3>3. k = l
      BY <1>1, <3>1, <3>2
    <3> QED BY <2>6, <3>1, <3>2, <3>3
  <2>7. Rows[left][id] = <<head>> \o Joined(s, walk)
    BY <1>2, <2>1
  <2> HIDE DEF s, walk, R
  <2>8. Distinct(s) /\ Elements(s) = KidsOf(id)
    BY <2>2 DEF Lists
  <2>9. Lists(Joined(s, walk), AllOf(s, R))
    <3>1. ListsApart(s, walk, R)
      BY <2>5, <2>6, <2>8 DEF ListsApart
    <3> QED BY <2>2, <2>3, <2>8, <3>1, JoinedList
  <2>10. AllOf(s, R) = UNION {Below(left - 1, a) : a \in KidsOf(id)}
    BY <2>4, <2>8 DEF AllOf
  <2> DEFINE under == UNION {Below(left - 1, a) : a \in KidsOf(id)}
  <2>11. Below(left, id) = {head} \cup under /\ {head} \cap under = {}
    <3>1. Below(left, id) = {head} \cup under /\ head \notin under
      BY BelowIsBelowKids
    <3> HIDE DEF head, under
    <3> QED BY <3>1
  <2> HIDE DEF under, head
  <2>12. Lists(<<head>> \o Joined(s, walk), {head} \cup under)
    BY <1>3, <2>9, <2>10, <2>11, ListsBoth DEF under
  <2> QED BY <2>7, <2>11, <2>12
<1>6. 0..MaxDepth \subseteq {left \in 0..MaxDepth : WalkLists(left)}
  <2> DEFINE T == {left \in 0..MaxDepth : WalkLists(left)}
  <2>1. 0 \in T
    BY <1>1, <1>4
  <2>2. \A left \in 1..MaxDepth : left - 1 \in T => left \in T
    <3>1. \A left \in 1..MaxDepth : left \in 0..MaxDepth
      BY <1>1
    <3> QED BY <1>5, <3>1
  <2> HIDE DEF T
  <2>3. 0..MaxDepth \subseteq T
    BY <1>1, <2>1, <2>2, TurnByTurn
  <2> QED BY <2>3 DEF T
<1> QED BY <1>6

\* The rows arrangePages makes.
LEMMA RowsListed ==
    ASSUME FoundTyped, Distinct(found)
    PROVE  Lists(Joined(Roots, Rows[MaxDepth]),
                 {r \in Row : r.id \in Elements(found) /\ r.depth \in DepthsOf(r.id)})
<1> DEFINE walk == Rows[MaxDepth]
           R == [a \in Ids |-> Below(MaxDepth, a)]
           top == {id \in Elements(found) : ~HasParent(id)}
           rows == {r \in Row : r.id \in Elements(found) /\ r.depth \in DepthsOf(r.id)}
<1>1. MaxDepth \in Nat /\ MaxDepth \in 0..MaxDepth /\ Elements(found) \subseteq Ids
  BY TreeAssumption DEF FoundTyped, Elements
<1>2. Roots \in Seq(Ids) /\ Lists(Roots, top)
  BY RootsListed
<1>3. walk \in [Ids -> Seq(Row)]
  BY <1>1, RowsWalk
<1>4. \A a \in top : R[a] = Below(MaxDepth, a) /\ Lists(walk[a], R[a])
  <2>1. WalkLists(MaxDepth)
    BY <1>1, WalksList
  <2> QED BY <1>1, <2>1 DEF WalkLists
<1>5. \A r, a : r \in Below(MaxDepth, a) =>
         r \in Row /\ r.id \in Elements(found) /\ r.depth \in 0..MaxDepth /\ Ancestor[r.depth][r.id] = a
  <2> SUFFICES ASSUME NEW a, NEW r \in Below(MaxDepth, a)
               PROVE  r \in Row /\ r.id \in Elements(found) /\ r.depth \in 0..MaxDepth /\ Ancestor[r.depth][r.id] = a
    OBVIOUS
  <2>1. PICK k \in 0..MaxDepth : r.depth = MaxDepth - MaxDepth + k /\ Ancestor[k][r.id] = a
    BY DEF Below
  <2>2. r.depth = k
    BY <1>1, <2>1
  <2> QED BY <2>1, <2>2 DEF Below
<1>6. \A a, b \in top : a # b => R[a] \cap R[b] = {}
  BY <1>4, <1>5
<1>7. UNION {Below(MaxDepth, a) : a \in top} = rows
  <2>1. ASSUME NEW a \in top, NEW r \in Below(MaxDepth, a) PROVE r \in rows
    BY <1>1, <1>5 DEF DepthsOf
  <2>2. ASSUME NEW r \in rows PROVE \E a \in top : r \in Below(MaxDepth, a)
    <3>1. PICK k \in 0..MaxDepth : k = r.depth
      BY DEF DepthsOf
    <3>2. PICK a : a = Ancestor[k][r.id]
      OBVIOUS
    <3>3. a \in Ids /\ ~HasParent(a)
      BY <3>1, <3>2 DEF DepthsOf
    <3>4. a \in top
      BY <3>2, <3>3, AncestorsAreFound
    <3>5. r.depth = MaxDepth - MaxDepth + k
      BY <1>1, <3>1
    <3> QED BY <3>2, <3>4, <3>5 DEF Below
  <2> QED BY <2>1, <2>2
<1> HIDE DEF walk, R, top
<1>8. Lists(Joined(Roots, walk), AllOf(Roots, R))
  <2>1. Distinct(Roots) /\ Elements(Roots) = top
    BY <1>2 DEF Lists
  <2>2. ListsApart(Roots, walk, R)
    BY <1>4, <1>6, <2>1 DEF ListsApart
  <2> QED BY <1>2, <1>3, <2>1, <2>2, JoinedList
<1>9. AllOf(Roots, R) = rows
  <2>1. Elements(Roots) = top
    BY <1>2 DEF Lists
  <2> HIDE DEF rows
  <2> QED BY <1>4, <1>7, <2>1 DEF AllOf
<1> QED BY <1>8, <1>9 DEF walk

-----------------------------------------------------------------------------
(* The picker.                                                             *)

\* The rows are those arrangePages made of what was found.
ArrangedInv ==
    /\ TreeTypeOK
    /\ pc = "done" => out = Joined(Roots, Rows[MaxDepth])

LEMMA TypedFinds == ASSUME TreeTypeOK PROVE FoundTyped
BY DEF TreeTypeOK, FoundTyped

LEMMA RowsTyped == ASSUME FoundTyped PROVE Joined(Roots, Rows[MaxDepth]) \in Seq(Row)
<1>1. MaxDepth \in 0..MaxDepth
  BY TreeAssumption
<1>2. Roots \in Seq(Ids) /\ Rows[MaxDepth] \in [Ids -> Seq(Row)]
  BY <1>1, RootsListed, RowsWalk
<1>3. Joining(Joins(Roots, Rows[MaxDepth]), Roots, Rows[MaxDepth], Row)
      /\ Joined(Roots, Rows[MaxDepth]) = Joins(Roots, Rows[MaxDepth])[Len(Roots)]
  BY <1>2, JoinsRun
<1>4. Len(Roots) \in 0..Len(Roots)
  BY <1>2
<1> QED BY <1>3, <1>4 DEF Joining

LEMMA SameArrangement ==
    ASSUME UNCHANGED <<found, parentOf, order>>
    PROVE  Rows' = Rows /\ Roots' = Roots
<1>1. \A p, id : Place(p, id)' = Place(p, id)
  BY DEF Place
<1>2. \A p : KidsByTitle(p)' = KidsByTitle(p)
  BY DEF KidsByTitle, HasParent
<1>3. \A p : Kids(p)' = Kids(p)
  BY <1>1, <1>2 DEF Kids
<1>4. Roots' = Roots
  BY DEF Roots, HasParent
<1>5. Rows' = Rows
  BY <1>3 DEF Rows
<1> QED BY <1>4, <1>5

LEMMA ArrangedInit == ASSUME TreeInit PROVE ArrangedInv
<1>1. <<>> \in Seq([id : Ids, depth : 0..MaxDepth])
  OBVIOUS
<1>2. DOMAIN order = {}
  BY DEF TreeInit
<1> QED BY <1>1, <1>2, TreeAssumption DEF TreeInit, ArrangedInv, TreeTypeOK

LEMMA TreeTypesKept ==
    ASSUME TreeTypeOK, SearchInv, SearchInv', [TreeNext]_treeVars
    PROVE  TreeTypeOK'
<1>1. shared' \in Seq(Ids) /\ found' \in Seq(Ids)
  BY DEF SearchInv
<1>2. ASSUME NEW id \in Ids, Edit(id) PROVE TreeTypeOK'
  BY <1>1, <1>2 DEF Edit, TreeTypeOK
<1>3. CASE SearchCall
  <2>1. pc' \in {"search", "arrange"} /\ (pc' = "arrange" => cursor' = Outside)
        /\ UNCHANGED <<parentOf, order, out, edited>>
    BY <1>3 DEF SearchCall
  <2>2. pc' = "search" => cursor' \in Ids \cup {Outside}
    BY <1>1 DEF SearchInv, SearchingInv, Elements
  <2> QED BY <1>1, <2>1, <2>2 DEF TreeTypeOK
<1>4. CASE SearchFull \/ SearchFails \/ Shown \/ UNCHANGED treeVars
  BY <1>1, <1>4 DEF SearchFull, SearchFails, Shown, treeVars, TreeTypeOK
<1>5. CASE ChildPageOrder
  <2>1. PICK p, s :
           /\ p \in Parents /\ s \in ChildOrders(p)
           /\ order' = [q \in DOMAIN order \cup {p} |-> IF q = p THEN s ELSE order[q]]
    BY <1>5 DEF ChildPageOrder
  <2>2. p \in Ids
    BY <2>1 DEF Parents, Elements, TreeTypeOK
  <2>3. s \in Seq(Ids)
    <3> DEFINE kids == {id \in Ids : parentOf[id] = p}
    <3>1. kids \in SUBSET Ids /\ IsFiniteSet(Ids)
      BY TreeAssumption
    <3>2. Cardinality(kids) \in Nat
      BY <3>1, FS_Subset, FS_CardinalityType
    <3>3. PICK n \in 0..Cardinality(kids) : s \in [1..n -> kids]
      BY <2>1 DEF ChildOrders
    <3>4. n \in Nat /\ s \in [1..n -> Ids]
      BY <3>1, <3>2, <3>3
    <3> QED BY <3>4
  <2>4. DOMAIN order' \subseteq Ids /\ \A q \in DOMAIN order' : order'[q] \in Seq(Ids)
    BY <2>1, <2>2, <2>3 DEF TreeTypeOK
  <2> QED BY <1>1, <1>5, <2>4 DEF ChildPageOrder, TreeTypeOK
<1>6. CASE Arrange
  <2>1. out' \in Seq([id : Ids, depth : 0..MaxDepth])
    BY <1>6, TypedFinds, RowsTyped DEF Arrange, Row
  <2> QED BY <1>1, <1>6, <2>1 DEF Arrange, TreeTypeOK
<1> QED BY <1>2, <1>3, <1>4, <1>5, <1>6 DEF TreeNext

LEMMA ArrangedStep ==
    ASSUME ArrangedInv, SearchInv, SearchInv', [TreeNext]_treeVars
    PROVE  ArrangedInv'
<1>1. TreeTypeOK'
  BY TreeTypesKept DEF ArrangedInv
<1>2. ASSUME pc' = "done" PROVE /\ UNCHANGED <<found, parentOf, order>>
                                /\ out' = Joined(Roots, Rows[MaxDepth])
  <2>1. CASE Arrange
    BY <2>1 DEF Arrange
  <2>2. CASE Shown \/ UNCHANGED treeVars
    BY <1>2, <2>2 DEF ArrangedInv, Shown, treeVars
  <2>3. ~\E id \in Ids : Edit(id)
    BY <1>2 DEF Edit
  <2>4. ~SearchCall /\ ~SearchFull /\ ~SearchFails /\ ~ChildPageOrder
    BY <1>2 DEF SearchCall, SearchFull, SearchFails, ChildPageOrder
  <2> QED BY <2>1, <2>2, <2>3, <2>4 DEF TreeNext
<1>3. ASSUME pc' = "done" PROVE out' = Joined(Roots', Rows'[MaxDepth])
  BY <1>2, <1>3, SameArrangement
<1> QED BY <1>1, <1>3 DEF ArrangedInv

\* The values of the page picker's variables are the ones the code's types and
\* its checks leave (client.go, bridge.go).
THEOREM TreeCorrect == TreeSpec => []TreeTypeOK
<1>1. ArrangedInv => TreeTypeOK
  BY DEF ArrangedInv
<1> QED BY <1>1, ArrangedInit, ArrangedStep, SearchInvHolds, PTL DEF TreeSpec

\* Every page the search found has one row, at the depth it has in Notion, or
\* none when it is nested deeper than the walk goes or in a cycle of parents;
\* only a page edited during the search may come twice (bridge.go:301-316).
THEOREM PagesAreListedOnce == TreeSpec => []EveryPageOnce
<1>1. ASSUME ArrangedInv PROVE EveryPageOnce
  <2> SUFFICES ASSUME pc = "done", Distinct(found), NEW id \in Elements(found)
               PROVE  LET rows == {k \in DOMAIN out : out[k].id = id}
                      IN  IF DepthsOf(id) = {} THEN rows = {}
                          ELSE \E k \in rows : rows = {k} /\ DepthsOf(id) = {out[k].depth}
    BY DEF EveryPageOnce
  <2> DEFINE rows == {k \in DOMAIN out : out[k].id = id}
             all == {r \in Row : r.id \in Elements(found) /\ r.depth \in DepthsOf(r.id)}
  <2>1. FoundTyped /\ id \in Ids /\ MaxDepth \in Nat
    BY <1>1, TypedFinds, TreeAssumption DEF ArrangedInv, FoundTyped, Elements
  <2>2. Lists(out, all)
    BY <1>1, <2>1, RowsListed DEF ArrangedInv
  <2>3. \A m, n \in DepthsOf(id) : m = n
    BY <2>1, OneDepth
  <2>4. \A k \in DOMAIN out : out[k] \in all
    BY <2>2 DEF Lists, Elements
  <2>5. \A k \in rows : out[k] \in Row /\ out[k].id = id /\ out[k].depth \in DepthsOf(id)
    BY <2>4
  <2>6. CASE DepthsOf(id) = {}
    BY <2>5, <2>6
  <2>7. CASE DepthsOf(id) # {}
    <3>1. PICK d : d \in DepthsOf(id)
      BY <2>7
    <3>2. d \in 0..MaxDepth
      BY <3>1 DEF DepthsOf
    <3>3. [id |-> id, depth |-> d] \in all
      BY <2>1, <3>1, <3>2 DEF Row
    <3>4. PICK k \in DOMAIN out : out[k] = [id |-> id, depth |-> d]
      BY <2>2, <3>3 DEF Lists, Elements
    <3>5. k \in rows /\ out[k].depth = d
      BY <3>4
    <3>6. ASSUME NEW j \in rows PROVE j = k
      <4>1. out[j] = [id |-> out[j].id, depth |-> out[j].depth]
        BY <2>5 DEF Row
      <4>2. out[j].id = id /\ out[j].depth = d
        BY <2>3, <2>5, <3>1
      <4> QED BY <2>2, <3>4, <4>1, <4>2 DEF Lists, Distinct
    <3>7. DepthsOf(id) = {d}
      BY <2>3, <3>1
    <3> QED BY <2>7, <3>5, <3>6, <3>7
  <2> QED BY <2>6, <2>7
<1> QED BY <1>1, ArrangedInit, ArrangedStep, SearchInvHolds, PTL DEF TreeSpec

-----------------------------------------------------------------------------
(* How rows nest.                                                          *)

\* What RowsNestInOrder asks of a page b that stands somewhere behind its
\* sibling a.
InOrder(a, b) ==
    LET listed == IF parentOf[b] \in DOMAIN order THEN order[parentOf[b]] ELSE <<>>
        At(id) == {i \in DOMAIN listed : listed[i] = id}
    IN  \/ At(a) # {} /\ At(b) = {}
        \/ \E i \in At(a), l \in At(b) : i <= l
        \/ At(a) = {} /\ At(b) = {} /\ TitleOf[a] <= TitleOf[b]

\* Above, of any rows t.
AboveIn(t, k) ==
    {j \in 1..(k - 1) : /\ t[j].depth < t[k].depth
                        /\ \A i \in (j + 1)..(k - 1) : t[i].depth >= t[k].depth}

\* Row k stands under its own parent.
Under(t, k) ==
    /\ HasParent(t[k].id)
    /\ \E j \in AboveIn(t, k) : t[j].id = parentOf[t[k].id] /\ t[j].depth = t[k].depth - 1

\* Rows j and k are as deep, and no row between them is less deep.
Siblings(t, j, k) ==
    j < k /\ t[j].depth = t[k].depth /\ \A i \in j..k : t[i].depth >= t[k].depth

SiblingsInOrder(t) == \A j, k \in DOMAIN t : Siblings(t, j, k) => InOrder(t[j].id, t[k].id)

\* The rows of page a and of what is under it.
IsTree(t, D, a) ==
    /\ t \in Seq(Row) /\ t # <<>> /\ t[1].id = a /\ t[1].depth = D
    /\ \A k \in DOMAIN t : k # 1 => t[k].depth > D /\ Under(t, k)
    /\ SiblingsInOrder(t)

\* The rows of the pages of K, each with what is under it.
IsForest(t, D, K) ==
    /\ t \in Seq(Row)
    /\ \A k \in DOMAIN t : \/ t[k].depth = D /\ t[k].id \in K
                           \/ t[k].depth > D /\ Under(t, k)
    /\ SiblingsInOrder(t)

\* u has the rows of t behind its first o.
Holds(u, o, t) == \A i \in DOMAIN t : o + i \in DOMAIN u /\ u[o + i] = t[i]

LEMMA RowsInRows ==
    ASSUME NEW t \in Seq(Row), NEW u \in Seq(Row), NEW o \in Nat, Holds(u, o, t)
    PROVE  /\ \A k \in DOMAIN t : Under(t, k) => Under(u, o + k)
           /\ \A j, k \in DOMAIN t : Siblings(u, o + j, o + k) => Siblings(t, j, k)
<1>1. DOMAIN t = 1..Len(t) /\ Len(t) \in Nat
  OBVIOUS
<1>2. ASSUME NEW k \in DOMAIN t, Under(t, k) PROVE Under(u, o + k)
  <2>1. PICK j \in 1..(k - 1) :
           /\ t[j].depth < t[k].depth /\ \A i \in (j + 1)..(k - 1) : t[i].depth >= t[k].depth
           /\ t[j].id = parentOf[t[k].id] /\ t[j].depth = t[k].depth - 1
    BY <1>2 DEF Under, AboveIn
  <2>2. j \in DOMAIN t /\ o + j \in 1..((o + k) - 1)
    BY <1>1
  <2>3. u[o + k] = t[k] /\ u[o + j] = t[j]
    BY <2>2 DEF Holds
  <2>4. ASSUME NEW i \in ((o + j) + 1)..((o + k) - 1) PROVE u[i].depth >= u[o + k].depth
    <3>1. i - o \in (j + 1)..(k - 1) /\ i - o \in DOMAIN t /\ o + (i - o) = i
      BY <1>1, <2>2
    <3>2. u[i] = t[i - o]
      BY <3>1 DEF Holds
    <3> QED BY <2>1, <2>3, <3>1, <3>2
  <2>5. o + j \in AboveIn(u, o + k)
    BY <2>1, <2>2, <2>3, <2>4 DEF AboveIn
  <2>6. HasParent(t[k].id)
    BY <1>2 DEF Under
  <2> QED BY <2>1, <2>3, <2>5, <2>6 DEF Under
<1>3. ASSUME NEW j \in DOMAIN t, NEW k \in DOMAIN t, Siblings(u, o + j, o + k) PROVE Siblings(t, j, k)
  <2>1. u[o + k] = t[k] /\ u[o + j] = t[j]
    BY DEF Holds
  <2>2. j < k
    BY <1>1, <1>3 DEF Siblings
  <2>3. ASSUME NEW i \in j..k PROVE t[i].depth >= t[k].depth
    <3>1. i \in DOMAIN t /\ o + i \in (o + j)..(o + k)
      BY <1>1
    <3>2. u[o + i] = t[i]
      BY <3>1 DEF Holds
    <3> QED BY <1>3, <2>1, <3>1, <3>2 DEF Siblings
  <2> QED BY <1>3, <2>1, <2>2, <2>3 DEF Siblings
<1> QED BY <1>2, <1>3

\* Two sequences of rows, one behind the other.
LEMMA RowsBehindRows ==
    ASSUME NEW t \in Seq(Row), NEW u \in Seq(Row)
    PROVE  /\ t \o u \in Seq(Row) /\ Len(t) \in Nat
           /\ DOMAIN t = 1..Len(t) /\ DOMAIN u = 1..Len(u) /\ DOMAIN (t \o u) = 1..(Len(t) + Len(u))
           /\ Holds(t \o u, 0, t) /\ Holds(t \o u, Len(t), u)
           /\ \A k \in DOMAIN (t \o u) : k \in DOMAIN t \/ (k - Len(t) \in DOMAIN u /\ Len(t) + (k - Len(t)) = k)
<1>1. \A v, w \in Seq(Row) :
         /\ v \o w \in Seq(Row) /\ Len(v) \in Nat /\ Len(w) \in Nat
         /\ DOMAIN v = 1..Len(v) /\ DOMAIN (v \o w) = 1..(Len(v) + Len(w))
  OBVIOUS
<1>2. \A v, w \in Seq(Row) : /\ \A i \in DOMAIN v : (v \o w)[i] = v[i]
                             /\ \A i \in DOMAIN w : (v \o w)[Len(v) + i] = w[i]
  OBVIOUS
<1>3. PICK m, n : m = Len(t) /\ n = Len(u)
  OBVIOUS
<1>4. m \in Nat /\ n \in Nat /\ DOMAIN t = 1..m /\ DOMAIN u = 1..n /\ DOMAIN (t \o u) = 1..(m + n)
  BY <1>1, <1>3
<1>5. Holds(t \o u, 0, t)
  <2>1. \A i \in 1..m : 0 + i = i /\ i \in 1..(m + n)
    BY <1>4
  <2>2. \A i \in DOMAIN t : (t \o u)[i] = t[i]
    BY <1>2
  <2> QED BY <1>4, <2>1, <2>2 DEF Holds
<1>6. Holds(t \o u, Len(t), u)
  <2>1. \A i \in 1..n : m + i \in 1..(m + n)
    BY <1>4
  <2>2. \A i \in DOMAIN u : (t \o u)[m + i] = u[i]
    BY <1>2, <1>3
  <2> QED BY <1>3, <1>4, <2>1, <2>2 DEF Holds
<1>7. \A k \in 1..(m + n) : k \in 1..m \/ (k - m \in 1..n /\ m + (k - m) = k)
  BY <1>4
<1>8. t \o u \in Seq(Row)
  BY <1>1
<1> QED BY <1>3, <1>4, <1>5, <1>6, <1>7, <1>8

\* A forest, and behind it a tree for a page that may stand behind its pages.
LEMMA TreeBehindForest ==
    ASSUME NEW D \in Nat, NEW t, NEW K, IsForest(t, D, K), NEW u, NEW a, IsTree(u, D, a),
           \A b \in K : InOrder(b, a)
    PROVE  IsForest(t \o u, D, K \cup {a})
<1> DEFINE v == t \o u
           n == Len(t)
<1>1. t \in Seq(Row) /\ u \in Seq(Row)
  BY DEF IsForest, IsTree
<1>2. /\ v \in Seq(Row) /\ n \in Nat /\ Len(u) \in Nat
      /\ DOMAIN t = 1..n /\ DOMAIN u = 1..Len(u) /\ DOMAIN v = 1..(n + Len(u))
      /\ Holds(v, 0, t) /\ Holds(v, n, u)
      /\ \A k \in DOMAIN v : k \in DOMAIN t \/ (k - n \in DOMAIN u /\ n + (k - n) = k)
  BY <1>1, RowsBehindRows
<1> HIDE DEF v, n
<1>3. /\ \A k \in DOMAIN t : v[k] = t[k] /\ (Under(t, k) => Under(v, k))
      /\ \A j, k \in DOMAIN t : Siblings(v, j, k) => Siblings(t, j, k)
  <2>1. /\ \A k \in DOMAIN t : Under(t, k) => Under(v, 0 + k)
        /\ \A j, k \in DOMAIN t : Siblings(v, 0 + j, 0 + k) => Siblings(t, j, k)
    BY <1>1, <1>2, RowsInRows
  <2>2. \A k \in DOMAIN t : 0 + k = k
    BY <1>2
  <2> QED BY <1>2, <2>1, <2>2 DEF Holds
<1>4. /\ \A k \in DOMAIN u : v[n + k] = u[k] /\ (Under(u, k) => Under(v, n + k))
      /\ \A j, k \in DOMAIN u : Siblings(v, n + j, n + k) => Siblings(u, j, k)
  BY <1>1, <1>2, RowsInRows DEF Holds
<1>5. /\ \A k \in DOMAIN t : (t[k].depth = D /\ t[k].id \in K) \/ (t[k].depth > D /\ Under(t, k))
      /\ SiblingsInOrder(t)
  BY DEF IsForest
<1>6. /\ u[1].id = a /\ u[1].depth = D /\ SiblingsInOrder(u)
      /\ \A k \in DOMAIN u : k # 1 => u[k].depth > D /\ Under(u, k)
  BY DEF IsTree
<1>7. 1 \in DOMAIN u
  BY <1>1 DEF IsTree
<1>8. ASSUME NEW k \in DOMAIN v
      PROVE  (v[k].depth = D /\ v[k].id \in K \cup {a}) \/ (v[k].depth > D /\ Under(v, k))
  <2>1. CASE k \in DOMAIN t
    BY <1>3, <1>5, <2>1
  <2>2. CASE k \notin DOMAIN t
    <3>1. PICK m \in DOMAIN u : n + m = k
      BY <1>2, <2>2
    <3>2. v[k] = u[m] /\ (Under(u, m) => Under(v, k))
      BY <1>4, <3>1
    <3> QED BY <1>6, <3>2
  <2> QED BY <2>1, <2>2
<1>9. ASSUME NEW j \in DOMAIN v, NEW k \in DOMAIN v, Siblings(v, j, k)
      PROVE  InOrder(v[j].id, v[k].id)
  <2>1. j < k
    BY <1>9 DEF Siblings
  <2>2. CASE k \in DOMAIN t
    <3>1. j \in DOMAIN t
      BY <1>2, <2>1, <2>2
    <3> QED BY <1>3, <1>5, <1>9, <2>2, <3>1 DEF SiblingsInOrder
  <2>3. CASE k \notin DOMAIN t
    <3>1. PICK m \in DOMAIN u : n + m = k
      BY <1>2, <2>3
    <3>2. v[k] = u[m]
      BY <1>4, <3>1
    <3>3. CASE j \in DOMAIN t
      <4>1. n + 1 \in j..k /\ v[n + 1] = u[1]
        BY <1>2, <1>4, <1>7, <3>1, <3>3
      <4>2. D >= u[m].depth /\ v[j] = t[j] /\ t[j].depth = u[m].depth
        BY <1>3, <1>6, <1>9, <3>2, <3>3, <4>1 DEF Siblings
      <4>3. m = 1
        <5>1. u[m] \in Row
          BY <1>1
        <5>2. ~(u[m].depth > D)
          BY <4>2, <5>1 DEF Row
        <5> QED BY <1>6, <5>2
      <4>4. t[j].depth = D
        BY <1>6, <4>2, <4>3
      <4>5. t[j].id \in K
        BY <1>5, <3>3, <4>4
      <4> QED BY <1>6, <3>2, <4>2, <4>3, <4>5
    <3>4. CASE j \notin DOMAIN t
      <4>1. PICK l \in DOMAIN u : n + l = j
        BY <1>2, <3>4
      <4>2. v[j] = u[l]
        BY <1>4, <4>1
      <4>3. Siblings(u, l, m)
        BY <1>4, <1>9, <3>1, <4>1
      <4> QED BY <1>6, <3>2, <4>2, <4>3 DEF SiblingsInOrder
    <3> QED BY <3>3, <3>4
  <2> QED BY <2>2, <2>3
<1>10. IsForest(v, D, K \cup {a})
  BY <1>2, <1>8, <1>9 DEF IsForest, SiblingsInOrder
<1> QED BY <1>10 DEF v

\* A page, and behind it the forest of its children.
LEMMA TreeOfForest ==
    ASSUME NEW D \in Nat, NEW r \in Row, r.depth = D, NEW t, NEW K, IsForest(t, D + 1, K),
           \A b \in K : HasParent(b) /\ parentOf[b] = r.id
    PROVE  IsTree(<<r>> \o t, D, r.id)
<1> DEFINE w == <<r>>
           v == w \o t
<1>1. t \in Seq(Row) /\ w \in Seq(Row) /\ Len(w) = 1 /\ w[1] = r /\ 1 \in DOMAIN w
  BY DEF IsForest
<1> HIDE DEF w
<1>2. /\ v \in Seq(Row) /\ Len(t) \in Nat
      /\ DOMAIN w = 1..1 /\ DOMAIN t = 1..Len(t) /\ DOMAIN v = 1..(1 + Len(t))
      /\ Holds(v, 0, w) /\ Holds(v, 1, t)
      /\ \A k \in DOMAIN v : k \in DOMAIN w \/ (k - 1 \in DOMAIN t /\ 1 + (k - 1) = k)
  <2>1. PICK n \in {Len(w)} : n = 1
    BY <1>1
  <2>2. /\ v \in Seq(Row)
        /\ DOMAIN w = 1..n /\ DOMAIN t = 1..Len(t) /\ DOMAIN v = 1..(n + Len(t))
        /\ Holds(v, 0, w) /\ Holds(v, n, t)
        /\ \A k \in DOMAIN v : k \in DOMAIN w \/ (k - n \in DOMAIN t /\ n + (k - n) = k)
    <3>1. w \in Seq(Row) /\ t \in Seq(Row) /\ n = Len(w)
      BY <1>1, <2>1
    <3> QED BY <3>1, RowsBehindRows
  <2>3. Len(t) \in Nat
    BY <1>1
  <2> QED BY <2>1, <2>2, <2>3
<1> HIDE DEF v
<1>3. v[1] = r /\ v # <<>>
  <2>1. v[0 + 1] = w[1] /\ 0 + 1 \in DOMAIN v
    BY <1>1, <1>2 DEF Holds
  <2> QED BY <1>1, <2>1
<1>4. /\ \A k \in DOMAIN t : v[1 + k] = t[k] /\ (Under(t, k) => Under(v, 1 + k))
      /\ \A j, k \in DOMAIN t : Siblings(v, 1 + j, 1 + k) => Siblings(t, j, k)
  BY <1>1, <1>2, RowsInRows DEF Holds
<1>5. /\ \A k \in DOMAIN t : (t[k].depth = D + 1 /\ t[k].id \in K) \/ (t[k].depth > D + 1 /\ Under(t, k))
      /\ SiblingsInOrder(t)
  BY DEF IsForest
<1>6. \A k \in DOMAIN t : t[k] \in Row /\ t[k].depth \in Nat /\ t[k].depth > D /\ t[k].depth >= D + 1
  <2>1. \A k \in DOMAIN t : t[k] \in Row /\ t[k].depth \in Nat
    <3>1. \A x \in Row : x.depth \in Nat
      BY TreeAssumption DEF Row
    <3> HIDE DEF Row
    <3> QED BY <1>1, <3>1
  <2> QED BY <1>5, <2>1
<1>7. \A k \in DOMAIN v : k # 1 => \E m \in DOMAIN t : k = 1 + m /\ v[k] = t[m]
  <2>1. \A k \in DOMAIN v : k # 1 => k - 1 \in DOMAIN t /\ 1 + (k - 1) = k
    BY <1>2
  <2> QED BY <1>4, <2>1
<1>8. ASSUME NEW k \in DOMAIN v, k # 1 PROVE v[k].depth > D /\ Under(v, k)
  <2>1. PICK m \in DOMAIN t : k = 1 + m /\ v[k] = t[m]
    BY <1>7, <1>8
  <2>2. CASE t[m].depth > D + 1 /\ Under(t, m)
    BY <1>4, <1>6, <2>1, <2>2
  <2>3. CASE t[m].depth = D + 1 /\ t[m].id \in K
    <3>1. 1 \in 1..(k - 1)
      BY <1>2, <1>8
    <3>2. v[1].depth < v[k].depth
      BY <1>3, <2>1, <2>3
    <3>3. ASSUME NEW i \in (1 + 1)..(k - 1) PROVE v[i].depth >= v[k].depth
      <4>1. i \in DOMAIN v /\ i # 1
        BY <1>2
      <4> QED BY <1>6, <1>7, <2>1, <2>3, <4>1
    <3>4. 1 \in AboveIn(v, k)
      BY <3>1, <3>2, <3>3 DEF AboveIn
    <3>5. v[1].id = parentOf[v[k].id] /\ v[1].depth = v[k].depth - 1 /\ HasParent(v[k].id)
      BY <1>3, <2>1, <2>3
    <3>6. v[k].depth > D
      BY <2>1, <2>3
    <3> QED BY <3>4, <3>5, <3>6 DEF Under
  <2> QED BY <1>5, <2>2, <2>3
<1>9. ASSUME NEW j \in DOMAIN v, NEW k \in DOMAIN v, Siblings(v, j, k)
      PROVE  InOrder(v[j].id, v[k].id)
  <2>1. j < k /\ k # 1 /\ v[j].depth = v[k].depth
    BY <1>2, <1>9 DEF Siblings
  <2>2. PICK m \in DOMAIN t : k = 1 + m /\ v[k] = t[m]
    BY <1>7, <2>1
  <2>3. j # 1
    BY <1>3, <1>6, <2>1, <2>2
  <2>4. PICK l \in DOMAIN t : j = 1 + l /\ v[j] = t[l]
    BY <1>7, <2>3
  <2>5. Siblings(t, l, m)
    BY <1>4, <1>9, <2>2, <2>4
  <2> QED BY <1>5, <2>2, <2>4, <2>5 DEF SiblingsInOrder
<1>10. IsTree(v, D, r.id)
  BY <1>2, <1>3, <1>8, <1>9 DEF IsTree, SiblingsInOrder
<1> QED BY <1>10 DEF v, w

\* The trees of the entries of s, one behind the other, where every entry may
\* stand behind those before it.
LEMMA JoinedForest ==
    ASSUME NEW D \in Nat, NEW s \in Seq(Ids), NEW g \in [Ids -> Seq(Row)],
           \A i \in 1..Len(s) : IsTree(g[s[i]], D, s[i]),
           \A i, j \in 1..Len(s) : i < j => InOrder(s[i], s[j])
    PROVE  IsForest(Joined(s, g), D, Elements(s))
<1> DEFINE N == Len(s)
           p == Joins(s, g)
           Upto(n) == {s[i] : i \in 1..n}
           Good(n) == IsForest(p[n], D, Upto(n))
           T == {n \in 0..N : Good(n)}
<1>1. /\ N \in Nat /\ p[0] = <<>> /\ Joined(s, g) = p[N]
      /\ \A n \in 1..N : p[n] = p[n - 1] \o g[s[n]]
  <2>1. Len(s) \in Nat
    OBVIOUS
  <2> HIDE DEF p, N
  <2>2. Joining(Joins(s, g), s, g, Row) /\ Joined(s, g) = Joins(s, g)[Len(s)]
    BY JoinsRun
  <2> QED BY <2>1, <2>2 DEF p, N, Joining
<1>2. DOMAIN s = 1..N
  OBVIOUS
<1> HIDE DEF p
<1>3. Good(0)
  <2>1. <<>> \in Seq(Row) /\ DOMAIN <<>> = {}
    OBVIOUS
  <2>2. IsForest(<<>>, D, Upto(0))
    BY <2>1 DEF IsForest, SiblingsInOrder
  <2> QED BY <1>1, <2>2
<1>4. ASSUME NEW n \in 1..N, Good(n - 1) PROVE Good(n)
  <2>1. /\ \A i : i \in 1..n <=> i \in 1..(n - 1) \/ i = n
        /\ \A i \in 1..(n - 1) : i \in 1..N /\ i < n
    BY <1>1
  <2>2. Upto(n) = Upto(n - 1) \cup {s[n]}
    BY <2>1
  <2>3. \A b \in Upto(n - 1) : InOrder(b, s[n])
    BY <2>1
  <2>4. IsTree(g[s[n]], D, s[n])
    OBVIOUS
  <2> HIDE DEF Upto, N
  <2>5. IsForest(p[n - 1] \o g[s[n]], D, Upto(n - 1) \cup {s[n]})
    BY <1>4, <2>3, <2>4, TreeBehindForest
  <2> QED BY <1>1, <2>2, <2>5
<1>5. Good(N)
  <2>1. 0 \in T
    BY <1>1, <1>3
  <2>2. \A n \in 1..N : n - 1 \in T => n \in T
    <3>1. \A n \in 1..N : n \in 0..N
      BY <1>1
    <3> QED BY <1>4, <3>1
  <2> HIDE DEF T, N
  <2>3. 0..N \subseteq T
    BY <1>1, <2>1, <2>2, TurnByTurn
  <2>4. N \in T
    BY <1>1, <2>3
  <2> QED BY <2>4 DEF T
<1>6. Upto(N) = Elements(s)
  BY <1>2 DEF Elements
<1> QED BY <1>1, <1>5, <1>6

-----------------------------------------------------------------------------
(* The order of the children.                                              *)

\* The keys of t never fall, and where they stay its entries stand as in s.
KeysRise(t, s, key, place) ==
    \A r, q \in 1..Len(s) : r < q =>
        /\ t[r] = s[place[r]] /\ t[q] = s[place[q]]
        /\ \/ key[t[r]] < key[t[q]]
           \/ key[t[r]] = key[t[q]] /\ place[r] < place[q]

LEMMA SortedKeys ==
    ASSUME NEW A, NEW s \in Seq(A), NEW key \in [A -> Nat]
    PROVE  /\ StableSort(s, key) \in Seq(A) /\ Len(StableSort(s, key)) = Len(s) /\ Len(s) \in Nat
           /\ Elements(StableSort(s, key)) \subseteq Elements(s)
           /\ \E place \in [1..Len(s) -> 1..Len(s)] : KeysRise(StableSort(s, key), s, key, place)
<1> DEFINE t == StableSort(s, key)
<1>1. t \in Seq(A) /\ Len(t) = Len(s) /\ Len(s) \in Nat /\ \E place : SortedBy(t, s, key, place)
  BY SortSorts
<1> HIDE DEF t
<1>2. PICK place : SortedBy(t, s, key, place)
  BY <1>1
<1>3. place \in [1..Len(s) -> 1..Len(s)] /\ \A r \in 1..Len(s) : t[r] = s[place[r]]
  BY <1>2 DEF SortedBy
<1>4. DOMAIN t = 1..Len(s) /\ DOMAIN s = 1..Len(s)
  BY <1>1
<1>5. Elements(t) \subseteq Elements(s)
  <2>1. \A r \in DOMAIN t : place[r] \in DOMAIN s /\ t[r] = s[place[r]]
    BY <1>3, <1>4
  <2> QED BY <2>1 DEF Elements
<1>6. ASSUME NEW r \in 1..Len(s), NEW q \in 1..Len(s), r < q
      PROVE  \/ key[s[place[r]]] < key[s[place[q]]]
             \/ key[s[place[r]]] = key[s[place[q]]] /\ place[r] < place[q]
  <2>1. ~Before(s, key, place[q], place[r])
    BY <1>2, <1>6 DEF SortedBy
  <2>2. PICK x \in 1..Len(s), y \in 1..Len(s) : x = place[r] /\ y = place[q]
    BY <1>3
  <2>3. s[x] \in A /\ s[y] \in A
    BY <1>4
  <2>4. PICK a \in Nat, b \in Nat : a = key[s[x]] /\ b = key[s[y]]
    BY <2>3
  <2>5. ~(b < a) /\ ~(b = a /\ y <= x)
    BY <2>1, <2>2, <2>4 DEF Before
  <2>6. a < b \/ (a = b /\ x < y)
    BY <1>1, <2>5
  <2> QED BY <2>2, <2>4, <2>6
<1>7. KeysRise(t, s, key, place)
  BY <1>3, <1>6 DEF KeysRise
<1> QED BY <1>1, <1>3, <1>5, <1>7 DEF t

\* Pages that are picked and put in the order of their titles.
LEMMA ByTitleInOrder ==
    ASSUME FoundTyped, NEW S \in SUBSET Ids
    PROVE  /\ ByTitle(OnlyIn(found, S)) \in Seq(Ids)
           /\ Elements(ByTitle(OnlyIn(found, S))) \subseteq Elements(found) \cap S
           /\ \A i, j \in DOMAIN ByTitle(OnlyIn(found, S)) :
                 i < j => TitleOf[ByTitle(OnlyIn(found, S))[i]] <= TitleOf[ByTitle(OnlyIn(found, S))[j]]
<1> DEFINE t == OnlyIn(found, S)
           b == StableSort(t, TitleOf)
<1>1. found \in Seq(Ids) /\ TitleOf \in [Ids -> Nat] /\ Len(found) \in 0..Len(found) /\ DOMAIN found = 1..Len(found)
  BY TreeAssumption DEF FoundTyped
<1>2. t = Picks(found, S)[Len(found)] /\ t \in Seq(Ids)
  <2>1. Picks(found, S) \in [0..Len(found) -> Seq(Ids)] /\ OnlyIn(found, S) = Picks(found, S)[Len(found)]
    BY <1>1, PicksRun
  <2>2. Len(found) \in 0..Len(found)
    BY <1>1
  <2>3. \A P \in [0..Len(found) -> Seq(Ids)] : P[Len(found)] \in Seq(Ids)
    BY <2>2
  <2> QED BY <2>1, <2>3
<1>3. PickedFrom(Picks(found, S)[Len(found)], found, Len(found), S)
  BY <1>1, PicksPick
<1> HIDE DEF t
<1>4. Elements(t) = Elements(found) \cap S
  <2>1. Elements(t) = {found[i] : i \in 1..Len(found)} \cap S
    BY <1>2, <1>3 DEF PickedFrom
  <2> QED BY <1>1, <2>1 DEF Elements
<1>5. /\ b \in Seq(Ids) /\ Len(b) = Len(t) /\ Len(t) \in Nat /\ Elements(b) \subseteq Elements(t)
      /\ \E place \in [1..Len(t) -> 1..Len(t)] : KeysRise(b, t, TitleOf, place)
  BY <1>1, <1>2, SortedKeys
<1> HIDE DEF b
<1>6. DOMAIN b = 1..Len(t)
  BY <1>5
<1>7. ASSUME NEW i \in DOMAIN b, NEW j \in DOMAIN b, i < j PROVE TitleOf[b[i]] <= TitleOf[b[j]]
  <2>1. TitleOf[b[i]] < TitleOf[b[j]] \/ TitleOf[b[i]] = TitleOf[b[j]]
    BY <1>5, <1>6, <1>7 DEF KeysRise
  <2>2. b[i] \in Ids /\ b[j] \in Ids
    BY <1>5
  <2>3. TitleOf[b[i]] \in Nat /\ TitleOf[b[j]] \in Nat
    BY <1>1, <2>2
  <2> QED BY <2>1, <2>3
<1> QED BY <1>4, <1>5, <1>7 DEF b, t, ByTitle

\* Pages without a parent in the picker come by title.
LEMMA RootsInOrder ==
    ASSUME FoundTyped, DOMAIN order \subseteq Elements(found)
    PROVE  /\ Roots \in Seq(Ids) /\ \A id \in Elements(Roots) : ~HasParent(id)
           /\ \A i, j \in 1..Len(Roots) : i < j => InOrder(Roots[i], Roots[j])
<1> DEFINE S == {id \in Ids : ~HasParent(id)}
           t == Roots
<1>1. S \in SUBSET Ids /\ t = ByTitle(OnlyIn(found, S))
  BY DEF Roots
<1> HIDE DEF t
<1>2. /\ t \in Seq(Ids) /\ Elements(t) \subseteq S
      /\ \A i, j \in DOMAIN t : i < j => TitleOf[t[i]] <= TitleOf[t[j]]
  <2> HIDE DEF S
  <2> QED BY <1>1, ByTitleInOrder
<1>3. ASSUME NEW i \in 1..Len(t), NEW j \in 1..Len(t), i < j PROVE InOrder(t[i], t[j])
  <2>1. i \in DOMAIN t /\ j \in DOMAIN t
    BY <1>2
  <2>2. ~HasParent(t[j])
    BY <1>2, <2>1 DEF Elements
  <2>3. parentOf[t[j]] \notin DOMAIN order
    BY <2>2 DEF HasParent
  <2>4. DOMAIN <<>> = {}
    OBVIOUS
  <2> QED BY <1>2, <1>3, <2>1, <2>3, <2>4 DEF InOrder
<1>4. \A id \in Elements(t) : ~HasParent(id)
  BY <1>2
<1> QED BY <1>2, <1>3, <1>4 DEF t

\* m is where s has the page, or behind its end.
IsPlace(m, s, id) ==
    /\ (\E i \in DOMAIN s : s[i] = id) => m \in DOMAIN s /\ s[m] = id
    /\ ~(\E i \in DOMAIN s : s[i] = id) => m = Len(s) + 1

LEMMA PlaceFinds ==
    ASSUME NEW p, NEW s \in Seq(Ids), s = order[p], NEW id
    PROVE  IsPlace(Place(p, id), s, id) /\ Place(p, id) \in Nat
<1>1. Len(s) \in Nat /\ DOMAIN s = 1..Len(s)
  OBVIOUS
<1>2. CASE \E i \in DOMAIN s : s[i] = id
  <2>1. Place(p, id) = CHOOSE i \in DOMAIN s : s[i] = id
    BY <1>2 DEF Place
  <2>2. Place(p, id) \in DOMAIN s /\ s[Place(p, id)] = id
    BY <1>2, <2>1
  <2> QED BY <1>1, <1>2, <2>2 DEF IsPlace
<1>3. CASE ~\E i \in DOMAIN s : s[i] = id
  <2>1. Place(p, id) = Len(s) + 1
    BY <1>3 DEF Place
  <2> QED BY <1>1, <1>3, <2>1 DEF IsPlace
<1> QED BY <1>2, <1>3

\* The children of a page come in the order of the page, and by title where that
\* says nothing of them.
LEMMA KidsInOrder ==
    ASSUME FoundTyped, NEW p
    PROVE  /\ Kids(p) \in Seq(Ids) /\ Elements(Kids(p)) \subseteq KidsOf(p)
           /\ \A i, j \in 1..Len(Kids(p)) : i < j => InOrder(Kids(p)[i], Kids(p)[j])
<1> DEFINE S == {id \in Ids : HasParent(id) /\ parentOf[id] = p}
           t == KidsByTitle(p)
           k == Kids(p)
<1>1. S \in SUBSET Ids /\ t = ByTitle(OnlyIn(found, S)) /\ Elements(found) \cap S \subseteq KidsOf(p)
  BY DEF KidsByTitle, KidsOf
<1> HIDE DEF t
<1>2. /\ t \in Seq(Ids) /\ Elements(t) \subseteq KidsOf(p)
      /\ \A i, j \in DOMAIN t : i < j => TitleOf[t[i]] <= TitleOf[t[j]]
  <2> HIDE DEF S
  <2> QED BY <1>1, ByTitleInOrder
<1>3. DOMAIN t = 1..Len(t) /\ Len(t) \in Nat
  BY <1>2
<1>4. \A b \in KidsOf(p) : parentOf[b] = p /\ b \in Ids
  BY DEF KidsOf, FoundTyped, Elements
<1>5. CASE p \notin DOMAIN order
  <2>1. k = t
    BY <1>5 DEF Kids, t
  <2>2. ASSUME NEW i \in 1..Len(t), NEW j \in 1..Len(t), i < j PROVE InOrder(t[i], t[j])
    <3>1. parentOf[t[j]] \notin DOMAIN order
      BY <1>2, <1>3, <1>4, <1>5 DEF Elements
    <3>2. DOMAIN <<>> = {}
      OBVIOUS
    <3> QED BY <1>2, <1>3, <2>2, <3>1, <3>2 DEF InOrder
  <2> QED BY <1>2, <2>1, <2>2
<1>6. CASE p \in DOMAIN order
  <2> DEFINE key == [id \in Ids |-> Place(p, id)]
  <2>1. PICK s \in Seq(Ids) : s = order[p]
    BY <1>6 DEF FoundTyped
  <2>2. key \in [Ids -> Nat] /\ \A id \in Ids : key[id] = Place(p, id)
    BY <2>1, PlaceFinds
  <2>3. k = StableSort(t, key)
    BY <1>6 DEF Kids, t
  <2> HIDE DEF key, k
  <2>4. /\ k \in Seq(Ids) /\ Len(k) = Len(t) /\ Elements(k) \subseteq Elements(t)
        /\ \E place \in [1..Len(t) -> 1..Len(t)] : KeysRise(k, t, key, place)
    BY <1>2, <2>2, <2>3, SortedKeys
  <2>5. PICK place \in [1..Len(t) -> 1..Len(t)] : KeysRise(k, t, key, place)
    BY <2>4
  <2>6. ASSUME NEW i \in 1..Len(k), NEW j \in 1..Len(k), i < j PROVE InOrder(k[i], k[j])
    <3>1. PICK a, b : a = k[i] /\ b = k[j]
      OBVIOUS
    <3>2. a \in Elements(k) /\ b \in Elements(k) /\ i \in 1..Len(t) /\ j \in 1..Len(t)
      BY <2>4, <3>1 DEF Elements
    <3>3. a \in Ids /\ b \in Ids /\ parentOf[b] = p
      BY <1>2, <1>4, <2>4, <3>2
    <3>4. PICK x \in 1..Len(t), y \in 1..Len(t) : x = place[i] /\ y = place[j]
      BY <3>2
    <3>5. /\ a = t[x] /\ b = t[y]
          /\ key[a] < key[b] \/ (key[a] = key[b] /\ x < y)
      BY <2>5, <2>6, <3>1, <3>2, <3>4 DEF KeysRise
    <3>6. PICK m \in Nat, n \in Nat : m = Place(p, a) /\ n = Place(p, b)
      BY <2>1, PlaceFinds
    <3>7. m < n \/ (m = n /\ TitleOf[a] <= TitleOf[b])
      BY <1>2, <1>3, <2>2, <3>3, <3>5, <3>6
    <3>8. IsPlace(m, s, a) /\ IsPlace(n, s, b) /\ Len(s) \in Nat /\ DOMAIN s = 1..Len(s)
      BY <2>1, <3>6, PlaceFinds
    <3> DEFINE At(id) == {l \in DOMAIN s : s[l] = id}
    <3>9. \/ At(a) # {} /\ At(b) = {}
          \/ \E l \in At(a), o \in At(b) : l <= o
          \/ At(a) = {} /\ At(b) = {} /\ TitleOf[a] <= TitleOf[b]
      <4>1. CASE \E l \in DOMAIN s : s[l] = b
        <5>1. n \in At(b) /\ n <= Len(s)
          BY <3>8, <4>1 DEF IsPlace
        <5>2. \E l \in DOMAIN s : s[l] = a
          BY <3>7, <3>8, <5>1 DEF IsPlace
        <5>3. m \in At(a) /\ m <= n
          BY <3>7, <3>8, <5>2 DEF IsPlace
        <5> QED BY <5>1, <5>3
      <4>2. CASE ~(\E l \in DOMAIN s : s[l] = b) /\ (\E l \in DOMAIN s : s[l] = a)
        BY <4>2
      <4>3. CASE ~(\E l \in DOMAIN s : s[l] = b) /\ ~(\E l \in DOMAIN s : s[l] = a)
        <5>1. m = n
          BY <3>8, <4>3 DEF IsPlace
        <5> QED BY <3>7, <4>3, <5>1
      <4> QED BY <4>1, <4>2, <4>3
    <3> QED BY <1>6, <2>1, <3>1, <3>3, <3>9 DEF InOrder
  <2> QED BY <1>2, <2>4, <2>6 DEF k
<1> QED BY <1>5, <1>6

-----------------------------------------------------------------------------
(* The rows nest.                                                          *)

\* walk makes a tree of every page.
LEMMA WalksNest ==
    ASSUME FoundTyped
    PROVE  \A left \in 0..MaxDepth, id \in Ids : IsTree(Rows[left][id], MaxDepth - left, id)
<1> DEFINE Good(left) == \A id \in Ids : IsTree(Rows[left][id], MaxDepth - left, id)
           T == {left \in 0..MaxDepth : Good(left)}
<1>1. MaxDepth \in Nat
  BY TreeAssumption
<1>2. /\ Rows \in [0..MaxDepth -> [Ids -> Seq(Row)]]
      /\ \A id \in Ids : Rows[0][id] = <<[id |-> id, depth |-> MaxDepth]>>
      /\ \A left \in 1..MaxDepth, id \in Ids :
            Rows[left][id] = <<[id |-> id, depth |-> MaxDepth - left]>> \o Joined(Kids(id), Rows[left - 1])
  BY RowsWalk
<1>3. Good(0)
  <2> SUFFICES ASSUME NEW id \in Ids PROVE IsTree(Rows[0][id], MaxDepth - 0, id)
    OBVIOUS
  <2>0. [id |-> id, depth |-> MaxDepth] \in Row
    BY <1>1 DEF Row
  <2>1. PICK r \in Row : r = [id |-> id, depth |-> MaxDepth]
    BY <2>0
  <2>2. Rows[0][id] = <<r>> /\ r.id = id /\ r.depth = MaxDepth - 0
    BY <1>1, <1>2, <2>1
  <2>3. /\ <<r>> \in Seq(Row) /\ <<r>> # <<>> /\ <<r>>[1] = r
        /\ \A k \in DOMAIN <<r>> : k = 1
    OBVIOUS
  <2>4. SiblingsInOrder(<<r>>)
    <3>1. ~(1 < 1)
      OBVIOUS
    <3> QED BY <2>3, <3>1 DEF SiblingsInOrder, Siblings
  <2> QED BY <2>2, <2>3, <2>4 DEF IsTree
<1>4. ASSUME NEW left \in 1..MaxDepth, Good(left - 1) PROVE Good(left)
  <2> SUFFICES ASSUME NEW id \in Ids PROVE IsTree(Rows[left][id], MaxDepth - left, id)
    OBVIOUS
  <2>1. PICK D \in Nat : D = MaxDepth - left /\ D + 1 = MaxDepth - (left - 1) /\ D <= MaxDepth
    BY <1>1
  <2>0. [id |-> id, depth |-> D] \in Row
    BY <1>1, <2>1 DEF Row
  <2>2. PICK r \in Row : r = [id |-> id, depth |-> D]
    BY <2>0
  <2> DEFINE s == Kids(id)
             g == Rows[left - 1]
  <2>3. g \in [Ids -> Seq(Row)]
    <3>1. left - 1 \in 0..MaxDepth
      BY <1>1
    <3> QED BY <1>2, <3>1
  <2>4. /\ s \in Seq(Ids) /\ Elements(s) \subseteq KidsOf(id)
        /\ \A i, j \in 1..Len(s) : i < j => InOrder(s[i], s[j])
    BY KidsInOrder
  <2>5. Rows[left][id] = <<r>> \o Joined(s, g) /\ r.id = id /\ r.depth = D
    BY <1>2, <2>1, <2>2
  <2>6. \A a \in Ids : IsTree(g[a], D + 1, a)
    BY <1>4, <2>1
  <2> HIDE DEF s, g
  <2>7. \A i \in 1..Len(s) : IsTree(g[s[i]], D + 1, s[i])
    <3>1. \A i \in 1..Len(s) : s[i] \in Ids
      BY <2>4
    <3> QED BY <2>6, <3>1
  <2>8. IsForest(Joined(s, g), D + 1, Elements(s))
    <3>1. D + 1 \in Nat
      BY <2>1
    <3> QED BY <2>3, <2>4, <2>7, <3>1, JoinedForest
  <2>9. \A b \in Elements(s) : HasParent(b) /\ parentOf[b] = r.id
    BY <2>4, <2>5 DEF KidsOf
  <2>10. IsTree(<<r>> \o Joined(s, g), D, r.id)
    BY <2>5, <2>8, <2>9, TreeOfForest
  <2> QED BY <2>1, <2>5, <2>10
<1>5. 0..MaxDepth \subseteq T
  <2>1. 0 \in T
    BY <1>1, <1>3
  <2>2. \A left \in 1..MaxDepth : left - 1 \in T => left \in T
    <3>1. \A left \in 1..MaxDepth : left \in 0..MaxDepth
      BY <1>1
    <3> QED BY <1>4, <3>1
  <2> HIDE DEF T
  <2> QED BY <1>1, <2>1, <2>2, TurnByTurn
<1> QED BY <1>5

\* arrangePages makes a forest of the pages without a parent.
LEMMA ArrangedNests ==
    ASSUME FoundTyped, DOMAIN order \subseteq Elements(found)
    PROVE  IsForest(Joined(Roots, Rows[MaxDepth]), 0, Elements(Roots))
           /\ \A id \in Elements(Roots) : ~HasParent(id)
<1> DEFINE s == Roots
           g == Rows[MaxDepth]
<1>1. MaxDepth \in 0..MaxDepth /\ MaxDepth - MaxDepth = 0 /\ 0 \in Nat
  BY TreeAssumption
<1>2. /\ s \in Seq(Ids) /\ \A id \in Elements(s) : ~HasParent(id)
      /\ \A i, j \in 1..Len(s) : i < j => InOrder(s[i], s[j])
  BY RootsInOrder
<1>3. g \in [Ids -> Seq(Row)]
  BY <1>1, RowsWalk
<1>4. \A a \in Ids : IsTree(g[a], 0, a)
  BY <1>1, WalksNest
<1> HIDE DEF s, g
<1>5. \A i \in 1..Len(s) : IsTree(g[s[i]], 0, s[i])
  <2>1. \A i \in 1..Len(s) : s[i] \in Ids
    BY <1>2
  <2> QED BY <1>4, <2>1
<1>6. IsForest(Joined(s, g), 0, Elements(s))
  BY <1>1, <1>2, <1>3, <1>5, JoinedForest
<1> QED BY <1>2, <1>6 DEF s, g

\* Notion is asked only for the order below pages that were found.
OrderAsked == DOMAIN order \subseteq Elements(found) /\ (pc = "search" => DOMAIN order = {})

LEMMA OrderAskedInit == ASSUME TreeInit PROVE OrderAsked
BY DEF TreeInit, OrderAsked

LEMMA OrderAskedStep == ASSUME OrderAsked, [TreeNext]_treeVars PROVE OrderAsked'
<1>1. CASE ChildPageOrder
  <2>1. PICK p \in Parents : DOMAIN order' = DOMAIN order \cup {p}
    BY <1>1 DEF ChildPageOrder
  <2>2. p \in Elements(found)
    BY DEF Parents
  <2>3. UNCHANGED <<found, pc>> /\ pc = "arrange"
    BY <1>1 DEF ChildPageOrder
  <2> QED BY <2>1, <2>2, <2>3 DEF OrderAsked, Elements
<1>2. CASE SearchCall
  BY <1>2 DEF SearchCall, OrderAsked
<1>3. CASE UNCHANGED <<order, found>> /\ (pc' = "search" => pc = "search")
  BY <1>3 DEF OrderAsked, Elements
<1>4. CASE SearchFull \/ SearchFails \/ Arrange \/ Shown \/ UNCHANGED treeVars \/ \E id \in Ids : Edit(id)
  BY <1>3, <1>4 DEF SearchFull, SearchFails, Arrange, Shown, treeVars, Edit
<1> QED BY <1>1, <1>2, <1>4 DEF TreeNext

\* A row is indented under its own parent, one step deeper, and siblings come in
\* the order of the parent's page, what that does not list behind it, and by
\* title where the call failed, however deep and wide the workspace is and
\* whatever a search listed twice (bridge.go:268-293).
THEOREM RowsNest == TreeSpec => []RowsNestInOrder
<1>1. ASSUME ArrangedInv, OrderAsked PROVE RowsNestInOrder
  <2> SUFFICES ASSUME pc = "done", NEW k \in DOMAIN out
               PROVE  /\ out[k].depth = 0 <=> ~HasParent(out[k].id)
                      /\ out[k].depth > 0 => \E j \in AboveIn(out, k) :
                            out[j].id = parentOf[out[k].id] /\ out[j].depth = out[k].depth - 1
                      /\ \A j \in 1..(k - 1) :
                            AboveIn(out, j) = AboveIn(out, k) /\ out[j].depth = out[k].depth =>
                                InOrder(out[j].id, out[k].id)
    BY DEF RowsNestInOrder, Above, AboveIn, InOrder
  <2>1. FoundTyped /\ out = Joined(Roots, Rows[MaxDepth])
    BY <1>1, TypedFinds DEF ArrangedInv
  <2>2. IsForest(out, 0, Elements(Roots)) /\ \A id \in Elements(Roots) : ~HasParent(id)
    BY <1>1, <2>1, ArrangedNests DEF OrderAsked
  <2>3. DOMAIN out = 1..Len(out) /\ Len(out) \in Nat
    BY <2>2 DEF IsForest
  <2>4. \A i \in DOMAIN out : out[i].depth \in Nat
    <3>1. \A x \in Row : x.depth \in Nat
      BY TreeAssumption DEF Row
    <3>2. \A i \in DOMAIN out : out[i] \in Row
      BY <2>2 DEF IsForest
    <3> QED BY <3>1, <3>2
  <2>5. \A i \in DOMAIN out : (out[i].depth = 0 /\ ~HasParent(out[i].id)) \/ (out[i].depth > 0 /\ Under(out, i))
    BY <2>2 DEF IsForest
  <2>6. out[k].depth = 0 <=> ~HasParent(out[k].id)
    BY <2>4, <2>5 DEF Under
  <2>7. out[k].depth > 0 => \E j \in AboveIn(out, k) :
           out[j].id = parentOf[out[k].id] /\ out[j].depth = out[k].depth - 1
    BY <2>4, <2>5 DEF Under
  <2>8. ASSUME NEW j \in 1..(k - 1), AboveIn(out, j) = AboveIn(out, k), out[j].depth = out[k].depth
        PROVE  InOrder(out[j].id, out[k].id)
    <3>1. j \in DOMAIN out /\ j < k
      BY <2>3
    <3>2. CASE out[k].depth = 0
      <4>1. \A i \in j..k : i \in DOMAIN out
        BY <2>3, <3>1
      <4>2. Siblings(out, j, k)
        BY <2>4, <2>8, <3>1, <3>2, <4>1 DEF Siblings
      <4> QED BY <2>2, <3>1, <4>2 DEF IsForest, SiblingsInOrder
    <3>3. CASE out[k].depth > 0
      <4>1. PICK a \in AboveIn(out, k) : a \in AboveIn(out, j)
        BY <2>7, <2>8, <3>3
      <4>2. a \in 1..(j - 1) /\ \A i \in (a + 1)..(k - 1) : out[i].depth >= out[k].depth
        BY <4>1 DEF AboveIn
      <4>3. \A i \in j..k : i = k \/ i \in (a + 1)..(k - 1)
        BY <2>3, <3>1, <4>2
      <4>4. Siblings(out, j, k)
        BY <2>4, <2>8, <3>1, <4>2, <4>3 DEF Siblings
      <4> QED BY <2>2, <3>1, <4>4 DEF IsForest, SiblingsInOrder
    <3> QED BY <2>4, <3>2, <3>3
  <2> QED BY <2>6, <2>7, <2>8
<1> QED BY <1>1, ArrangedInit, ArrangedStep, SearchInvHolds, OrderAskedInit, OrderAskedStep, PTL DEF TreeSpec

=============================================================================
