----------------------------- MODULE SendProofs -----------------------------
(***************************************************************************)
(* Proofs about the pages a send selects, for every expression over every  *)
(* set of numbers and every notebook: the walk of PageRange by itself, and *)
(* as the send that Send starts again and again.                           *)
(***************************************************************************)
EXTENDS Send, FiniteSetTheorems, WellFoundedInduction, TLAPS

Named(n, i) == \E k \in 1..n : Mentions(k, i)

\* The walk keeps to the notebook ...
WalkInv ==
    /\ \A k \in DOMAIN indices : indices[k] \in 0..(pageCount - 1)
    /\ rangePc \in {"parts", "pages"} =>
          /\ range # <<>> /\ at <= Len(range) + 1
          /\ \A k \in 1..(at - 1) : Fits(range[k])
    /\ rangePc = "pages" =>
          /\ at <= Len(range) /\ Fits(range[at])
          /\ range[at].lo <= next /\ next <= range[at].hi + 1

\* ... and has collected just what it has passed.
PassedInv ==
    /\ rangePc = "parts" => \A i \in Int : Seen(i) <=> Named(at - 1, i)
    /\ rangePc = "pages" =>
          \A i \in Int : Seen(i) <=> Named(at - 1, i) \/ (range[at].lo <= i + 1 /\ i + 1 < next)

RangeInv ==
    RangeTypeOK /\ WalkInv /\ PassedInv /\ SelectsOnce /\ InOrderNamed /\ SelectsWhatItNames

\* A part that fits is a pair of numbers.
LEMMA FitIsPair ==
    ASSUME RangeTypeOK, at <= Len(range), Fits(range[at])
    PROVE  at \in DOMAIN range /\ range[at].lo \in Int /\ range[at].hi \in Int
<1>1. at \in DOMAIN range /\ range[at] \in Part \cup {Malformed}
  BY DEF RangeTypeOK
<1>2. range[at] \in Part
  BY <1>1 DEF Fits
<1>3. \A a \in Part : a.lo \in Numbers /\ a.hi \in Numbers
  BY DEF Part
<1> QED BY <1>1, <1>2, <1>3, RangeAssumption

LEMMA RangeInitInv == RangeInit => RangeInv
BY DEF RangeInit, RangeInv, RangeTypeOK, WalkInv, PassedInv, SelectsOnce, InOrderNamed,
       SelectsWhatItNames

\* A new expression starts a new walk.
LEMMA StartRangeInv ==
    ASSUME NEW expr \in Seq(Part \cup {Malformed}), NEW n \in Nat, StartRange(expr, n)
    PROVE  RangeInv'
<1>1. RangeTypeOK'
  BY DEF StartRange, RangeTypeOK
<1>2. CASE expr = <<>>
  <2>1. indices' = [i \in 1..n |-> i - 1] /\ pageCount' = n /\ range' = <<>> /\ rangePc' = "resolved"
    BY <1>2 DEF StartRange
  <2>2. DOMAIN indices' = 1..n /\ \A k \in 1..n : indices'[k] = k - 1
    BY <2>1
  <2>3. SelectsWhatItNames'
    <3>1. \A i \in 0..(n - 1) : i + 1 \in 1..n /\ indices'[i + 1] = i
      BY <2>2
    <3>2. \A k \in 1..n : indices'[k] \in 0..(n - 1)
      BY <2>2
    <3> QED BY <2>1, <2>2, <3>1, <3>2 DEF SelectsWhatItNames
  <2>4. WalkInv' /\ PassedInv' /\ SelectsOnce' /\ InOrderNamed'
    BY <2>1, <2>2 DEF WalkInv, PassedInv, SelectsOnce, InOrderNamed
  <2> QED BY <1>1, <2>3, <2>4 DEF RangeInv
<1>3. CASE expr # <<>>
  <2>1. indices' = <<>> /\ range' = expr /\ rangePc' = "parts" /\ at' = 1
    BY <1>3 DEF StartRange
  <2> QED BY <1>1, <1>3, <2>1
          DEF RangeInv, WalkInv, PassedInv, Named, Seen, SelectsOnce, InOrderNamed, SelectsWhatItNames
<1> QED BY <1>2, <1>3

\* A part is entered, refused, or there is none left.
LEMMA NextPartInv == RangeInv /\ NextPart => RangeInv'
<1> SUFFICES ASSUME RangeInv, NextPart PROVE RangeInv'
  OBVIOUS
<1>0. UNCHANGED <<range, pageCount, at, indices>> /\ rangePc = "parts" /\ RangeTypeOK
  BY DEF NextPart, RangeInv
<1>1. SelectsOnce' /\ InOrderNamed'
  BY <1>0 DEF RangeInv, SelectsOnce, InOrderNamed, Mentions
<1>2. CASE at > Len(range) /\ rangePc' = "resolved" /\ UNCHANGED next
  <2>1. at = Len(range) + 1 /\ range # <<>>
    BY <1>0, <1>2 DEF RangeInv, WalkInv, RangeTypeOK
  <2>2. \A i \in Int : Seen(i) <=> \E k \in DOMAIN range : Mentions(k, i)
    BY <1>0, <2>1 DEF RangeInv, RangeTypeOK, PassedInv, Named
  <2>3. SelectsWhatItNames'
    BY <1>0, <2>1, <2>2 DEF RangeInv, WalkInv, SelectsWhatItNames, Seen, RangeTypeOK, Mentions
  <2> QED BY <1>0, <1>1, <1>2, <2>3 DEF RangeInv, RangeTypeOK, WalkInv, PassedInv
<1>3. CASE at <= Len(range) /\ Fits(range[at]) /\ rangePc' = "pages" /\ next' = range[at].lo
  <2>1. at \in DOMAIN range /\ range[at].lo \in Int /\ range[at].hi \in Int
    BY <1>0, <1>3, FitIsPair
  <2>2. RangeTypeOK'
    BY <1>0, <1>3, <2>1 DEF RangeTypeOK
  <2>3. WalkInv'
    BY <1>0, <1>3, <2>1 DEF RangeInv, RangeTypeOK, WalkInv, Fits
  <2>4. PassedInv'
    <3>1. \A i \in Int : Seen(i) <=> Named(at - 1, i)
      BY <1>0 DEF RangeInv, PassedInv
    <3>2. \A i \in Int : ~(range[at].lo <= i + 1 /\ i + 1 < next')
      BY <1>3, <2>1
    <3>3. \A i : (Seen(i)' <=> Seen(i)) /\ (Named(at - 1, i)' <=> Named(at - 1, i))
      BY <1>0 DEF Seen, Named, Mentions
    <3> QED BY <1>0, <1>3, <3>1, <3>2, <3>3 DEF PassedInv
  <2> QED BY <1>1, <1>3, <2>2, <2>3, <2>4 DEF RangeInv, SelectsWhatItNames
<1>4. CASE at <= Len(range) /\ ~Fits(range[at]) /\ rangePc' = "refused" /\ UNCHANGED next
  BY <1>0, <1>1, <1>4 DEF RangeInv, RangeTypeOK, WalkInv, PassedInv, SelectsWhatItNames
<1> QED BY <1>2, <1>3, <1>4 DEF NextPart

\* Within a part: what is known of the pages of it.
LEMMA InPart ==
    ASSUME RangeInv, rangePc = "pages"
    PROVE  /\ at \in DOMAIN range /\ range[at] # Malformed
           /\ range[at].lo \in Int /\ range[at].hi \in Int /\ next \in Int
           /\ pageCount \in Nat /\ at \in Nat \ {0}
           /\ 1 <= range[at].lo /\ range[at].hi <= pageCount
           /\ range[at].lo <= next /\ next <= range[at].hi + 1
<1>1. RangeTypeOK /\ at <= Len(range) /\ Fits(range[at])
  BY DEF RangeInv, WalkInv
<1> QED BY <1>1, FitIsPair DEF RangeInv, RangeTypeOK, WalkInv, Fits

\* A page that is seen already is passed, any other is appended.
LEMMA TakePageInv ==
    ASSUME RangeInv, rangePc = "pages", next <= range[at].hi, next' = next + 1,
           indices' = IF Seen(next - 1) THEN indices ELSE Append(indices, next - 1),
           UNCHANGED <<range, pageCount, at, rangePc>>
    PROVE  RangeInv'
<1> DEFINE x == next - 1
           N == Len(indices)
<1>0. RangeTypeOK /\ x \in Int /\ x \in 0..(pageCount - 1) /\ N \in Nat /\ DOMAIN indices = 1..N
  BY InPart DEF RangeInv, RangeTypeOK
<1>1. /\ \A k \in DOMAIN indices : k \in DOMAIN indices' /\ indices'[k] = indices[k]
      /\ \A k \in DOMAIN indices' : k \in DOMAIN indices \/ (k = N + 1 /\ indices'[k] = x /\ ~Seen(x))
      /\ indices' \in Seq(Int) /\ DOMAIN indices' \subseteq Nat
      /\ ~Seen(x) => N + 1 \in DOMAIN indices' /\ indices'[N + 1] = x
  <2>1. CASE Seen(x)
    BY <1>0, <2>1 DEF RangeTypeOK
  <2>2. CASE ~Seen(x)
    <3>1. indices' = Append(indices, x) /\ indices \in Seq(Int)
      BY <1>0, <2>2 DEF RangeTypeOK
    <3>2. DOMAIN indices' = 1..(N + 1)
      BY <1>0, <3>1
    <3> QED BY <1>0, <2>2, <3>1, <3>2
  <2> QED BY <2>1, <2>2
<1>2. RangeTypeOK'
  BY <1>0, <1>1 DEF RangeTypeOK
<1>3. WalkInv'
  <2>1. next \in Int /\ range[at].lo <= next /\ range[at].hi \in Int
    BY InPart DEF RangeInv, WalkInv
  <2>2. range[at].lo <= next' /\ next' <= range[at].hi + 1
    BY <2>1, InPart
  <2>3. \A k \in DOMAIN indices' : indices'[k] \in 0..(pageCount - 1)
    BY <1>0, <1>1 DEF RangeInv, WalkInv
  <2> HIDE DEF x, N
  <2> QED BY <2>2, <2>3 DEF RangeInv, WalkInv, Fits
<1>4. \A i \in Int : Seen(i) <=> Named(at - 1, i) \/ (range[at].lo <= i + 1 /\ i + 1 < next)
  BY DEF RangeInv, PassedInv
<1>5. PassedInv'
  <2>1. \A i \in Int : Seen(i)' <=> Seen(i) \/ i = x
    <3>1. ASSUME NEW i \in Int, Seen(i)' PROVE Seen(i) \/ i = x
      BY <1>1, <3>1 DEF Seen
    <3>2. ASSUME NEW i \in Int, Seen(i) PROVE Seen(i)'
      BY <1>1, <3>2 DEF Seen
    <3>3. \E k \in DOMAIN indices' : indices'[k] = x
      BY <1>0, <1>1 DEF Seen
    <3> QED BY <3>1, <3>2, <3>3 DEF Seen
  <2>2. \A i : Named(at - 1, i)' <=> Named(at - 1, i)
    BY DEF Named, Mentions
  <2>3. \A i \in Int : (range[at].lo <= i + 1 /\ i + 1 < next') <=>
                       (range[at].lo <= i + 1 /\ i + 1 < next) \/ i = x
    <3>1. PICK lo \in Int : lo = range[at].lo /\ lo <= next
      BY InPart
    <3>2. next \in Int
      BY InPart
    <3> QED BY <3>1, <3>2
  <2> QED BY <1>4, <2>1, <2>2, <2>3 DEF PassedInv
<1>6. SelectsOnce'
  <2>1. \A k \in DOMAIN indices : ~Seen(x) => indices[k] # x
    BY DEF Seen
  <2> QED BY <1>1, <2>1 DEF RangeInv, SelectsOnce
<1>7. InOrderNamed'
  <2>1. SUFFICES ASSUME NEW j \in DOMAIN indices', NEW k \in DOMAIN indices', j < k, range # <<>>
                 PROVE  \E p \in DOMAIN range :
                           /\ Mentions(p, indices'[j])
                           /\ \A q \in DOMAIN range : Mentions(q, indices'[k]) =>
                                 p < q \/ (p = q /\ indices'[j] < indices'[k])
    BY DEF InOrderNamed, Mentions
  <2>2. CASE k \in DOMAIN indices
    <3>1. j \in DOMAIN indices
      BY <1>0, <1>1, <2>1, <2>2
    <3>2. indices'[j] = indices[j] /\ indices'[k] = indices[k]
      BY <1>1, <2>2, <3>1
    <3> QED BY <2>1, <2>2, <3>1, <3>2 DEF RangeInv, InOrderNamed
  <2>3. CASE k \notin DOMAIN indices
    <3>1. indices'[k] = x /\ ~Seen(x) /\ j \in DOMAIN indices /\ indices'[j] = indices[j]
      BY <1>0, <1>1, <2>1, <2>3
    <3>2. indices[j] \in Int /\ Seen(indices[j])
      <4>1. indices \in Seq(Int)
        BY <1>0 DEF RangeTypeOK
      <4>2. Seen(indices[j])
        BY <3>1 DEF Seen
      <4> QED BY <3>1, <4>1, <4>2
    <3>3. DOMAIN range = 1..Len(range) /\ Len(range) \in Nat
      BY <1>0 DEF RangeTypeOK
    <3>4. ASSUME NEW q \in DOMAIN range, Mentions(q, x) PROVE q >= at
      <4>1. ~Named(at - 1, x)
        BY <1>0, <1>4, <3>1
      <4>2. q \notin 1..(at - 1)
        BY <3>4, <4>1 DEF Named
      <4> QED BY <3>3, <4>2, InPart
    <3>5. CASE Named(at - 1, indices[j])
      <4>1. PICK p \in 1..(at - 1) : Mentions(p, indices[j])
        BY <3>5 DEF Named
      <4>2. p \in DOMAIN range /\ \A q \in DOMAIN range : q >= at => p < q
        BY <3>3, InPart
      <4> QED BY <3>1, <3>4, <4>1, <4>2
    <3>6. CASE range[at].lo <= indices[j] + 1 /\ indices[j] + 1 < next
      <4>1. Mentions(at, indices[j]) /\ indices[j] < x
        <5>1. range[at].lo <= indices[j] + 1 /\ indices[j] + 1 <= range[at].hi
          BY <3>2, <3>6, InPart
        <5> QED BY <3>2, <3>6, <5>1, InPart DEF Mentions
      <4>2. at \in DOMAIN range /\ \A q \in DOMAIN range : q >= at => at < q \/ at = q
        BY <3>3, InPart
      <4> QED BY <3>1, <3>4, <4>1, <4>2
    <3> QED BY <1>4, <3>2, <3>5, <3>6
  <2> QED BY <2>2, <2>3
<1> QED BY <1>2, <1>3, <1>5, <1>6, <1>7 DEF RangeInv, SelectsWhatItNames

\* A part whose pages are passed is one of those that were.
LEMMA LeavePartInv ==
    ASSUME RangeInv, rangePc = "pages", next > range[at].hi, at' = at + 1, rangePc' = "parts",
           UNCHANGED <<range, pageCount, next, indices>>
    PROVE  RangeInv'
<1>0. RangeTypeOK /\ Len(range) \in Nat /\ DOMAIN range = 1..Len(range)
  BY DEF RangeInv, RangeTypeOK
<1>1. RangeTypeOK' /\ SelectsOnce' /\ InOrderNamed' /\ SelectsWhatItNames'
  BY <1>0 DEF RangeInv, RangeTypeOK, SelectsOnce, InOrderNamed, SelectsWhatItNames, Mentions
<1>2. WalkInv'
  <2>1. /\ range # <<>> /\ Fits(range[at]) /\ at \in 1..Len(range)
        /\ \A k \in 1..(at - 1) : Fits(range[k])
    BY <1>0, InPart DEF RangeInv, WalkInv
  <2>2. \A k \in 1..(at' - 1) : Fits(range[k])
    BY <1>0, <2>1
  <2>3. at' <= Len(range) + 1
    BY <1>0, <2>1
  <2> QED BY <2>1, <2>2, <2>3 DEF RangeInv, WalkInv, Fits
<1>3. ASSUME NEW i \in Int PROVE Seen(i)' <=> Named(at, i)
  <2>1. (range[at].lo <= i + 1 /\ i + 1 < next) <=> Mentions(at, i)
    BY InPart DEF Mentions
  <2>2. Named(at, i) <=> Named(at - 1, i) \/ Mentions(at, i)
    BY InPart DEF Named
  <2> QED BY <2>1, <2>2 DEF RangeInv, PassedInv, Seen
<1>4. \A i : Named(at - 1, i)' <=> Named(at, i)
  BY InPart DEF Named, Mentions
<1>5. PassedInv'
  BY <1>3, <1>4 DEF PassedInv
<1> QED BY <1>1, <1>2, <1>5 DEF RangeInv

LEMMA RangeStepInv == RangeInv /\ RangeStep => RangeInv'
BY NextPartInv, TakePageInv, LeavePartInv DEF RangeStep, NextPage

-----------------------------------------------------------------------------
(* The pages of a notebook.                                                *)

\* Every set of numbers that is not empty has a least one: what the proofs
\* about loops rest on.
LEMMA LeastNumber ==
    ASSUME NEW T, T \subseteq Nat, T # {}
    PROVE  \E x \in T : \A y \in T : x <= y
<1> DEFINE R == OpToRel(<, Nat)
<1>1. IsWellFoundedOn(R, Nat)
  BY NatLessThanWellFounded
<1>2. \A x, y \in Nat : <<x, y>> \in R <=> x < y
  BY DEF OpToRel
<1> HIDE DEF R
<1>3. PICK x \in T : \A y \in T : ~(<<y, x>> \in R)
  BY <1>1, WFMin
<1>4. ASSUME NEW y \in T PROVE x <= y
  <2>1. x \in Nat /\ y \in Nat
    OBVIOUS
  <2>2. ~(y < x)
    BY <1>2, <1>3, <2>1
  <2> QED BY <2>1, <2>2
<1> QED BY <1>4

Listed == [id : Pages, deleted : BOOLEAN]

\* Document's loop, up to its turn m.
Loop(kept, list, m) ==
    kept = [k \in 0..m |->
              IF k = 0 THEN <<>>
              ELSE IF list[k].deleted THEN kept[k - 1] ELSE Append(kept[k - 1], list[k].id)]

LEMMA LoopRuns ==
    ASSUME NEW list \in Seq(Listed)
    PROVE  \A m \in 0..Len(list) : \E kept : Loop(kept, list, m)
<1> DEFINE T == {m \in 0..Len(list) : ~\E kept : Loop(kept, list, m)}
<1> SUFFICES ASSUME T # {} PROVE FALSE
  OBVIOUS
<1>1. T \subseteq Nat
  OBVIOUS
<1> HIDE DEF T
<1>2. PICK m \in T : \A n \in T : m <= n
  BY <1>1, LeastNumber
<1> USE DEF T
<1>3. m # 0
  <2>1. Loop([n \in 0..0 |-> <<>>], list, 0)
    BY DEF Loop
  <2> QED BY <2>1
<1>4. m \in Nat /\ m - 1 \in 0..Len(list) /\ m - 1 \notin T
  BY <1>2, <1>3
<1>5. PICK f : Loop(f, list, m - 1)
  BY <1>4
<1> DEFINE g == [n \in 0..m |-> IF n < m THEN f[n]
                                ELSE IF list[m].deleted THEN f[m - 1] ELSE Append(f[m - 1], list[m].id)]
<1>6. Loop(g, list, m)
  <2> HIDE DEF T
  <2>1. m \in Nat \ {0}
    BY <1>3, <1>4
  <2>2. \A n \in 0..(m - 1) : g[n] = f[n]
    BY <2>1
  <2>3. \A n \in 0..(m - 1) :
           f[n] = IF n = 0 THEN <<>>
                  ELSE IF list[n].deleted THEN f[n - 1] ELSE Append(f[n - 1], list[n].id)
    BY <1>5 DEF Loop
  <2>4. ASSUME NEW n \in 0..m
        PROVE  g[n] = IF n = 0 THEN <<>>
                      ELSE IF list[n].deleted THEN g[n - 1] ELSE Append(g[n - 1], list[n].id)
    <3>1. CASE n = m
      BY <3>1, <2>1, <2>2
    <3>2. CASE n < m /\ n # 0
      <4>1. g[n] = f[n] /\ g[n - 1] = f[n - 1]
        BY <3>2, <2>1, <2>2
      <4> QED BY <4>1, <2>3, <3>2, <2>1
    <3>3. CASE n = 0
      <4>1. g[0] = f[0] /\ f[0] = <<>>
        BY <2>1, <2>2, <2>3
      <4> QED BY <3>3, <4>1
    <3> QED BY <3>1, <3>2, <3>3, <2>1
  <2>5. g = [n \in 0..m |-> g[n]]
    OBVIOUS
  <2> HIDE DEF g
  <2> QED BY <2>4, <2>5 DEF Loop
<1> QED BY <1>6

\* KeptUpTo is that loop.
LEMMA KeptUpToLoops ==
    ASSUME NEW list \in Seq(Listed)
    PROVE  \A k \in 0..Len(list) :
              KeptUpTo(list)[k] = IF k = 0 THEN <<>>
                                  ELSE IF list[k].deleted THEN KeptUpTo(list)[k - 1]
                                  ELSE Append(KeptUpTo(list)[k - 1], list[k].id)
<1>1. Len(list) \in 0..Len(list)
  OBVIOUS
<1>2. \E f : Loop(f, list, Len(list))
  BY LoopRuns, <1>1
<1>3. Loop(KeptUpTo(list), list, Len(list))
  BY <1>2 DEF Loop, KeptUpTo
<1> DEFINE kept == KeptUpTo(list)
<1> HIDE DEF kept
<1>4. Loop(kept, list, Len(list))
  BY <1>3 DEF kept
<1>5. \A k \in 0..Len(list) :
         kept[k] = IF k = 0 THEN <<>>
                   ELSE IF list[k].deleted THEN kept[k - 1] ELSE Append(kept[k - 1], list[k].id)
  BY <1>4 DEF Loop
<1> QED BY <1>5 DEF kept

\* The first n pages of a list that are not deleted.
KeptIn(list, n) == {i \in 1..n : ~list[i].deleted}

\* Of the pages kept after n turns, the k-th is the k-th that is not deleted.
KeepsInOrder(new, list, n) ==
    /\ new \in Seq(Pages) /\ Len(new) = Cardinality(KeptIn(list, n))
    /\ \A k \in DOMAIN new : \E i \in KeptIn(list, n) :
          list[i].id = new[k] /\ Cardinality(KeptIn(list, i)) = k

LEMMA LoopKeepsInOrder ==
    ASSUME NEW list \in Seq(Listed)
    PROVE  KeepsInOrder(KeptUpTo(list)[Len(list)], list, Len(list))
<1> DEFINE kept == KeptUpTo(list)
           T == {n \in 0..Len(list) : ~KeepsInOrder(kept[n], list, n)}
<1>1. \A n \in 0..Len(list) :
         kept[n] = IF n = 0 THEN <<>>
                   ELSE IF list[n].deleted THEN kept[n - 1] ELSE Append(kept[n - 1], list[n].id)
  BY KeptUpToLoops
<1> HIDE DEF kept
<1>2. T = {}
  <2> SUFFICES ASSUME T # {} PROVE FALSE
    OBVIOUS
  <2>1. T \subseteq Nat
    OBVIOUS
  <2> HIDE DEF T
  <2>2. PICK n \in T : \A k \in T : n <= k
    BY <2>1, LeastNumber
  <2>3. n \in 0..Len(list) /\ ~KeepsInOrder(kept[n], list, n)
    BY <2>2 DEF T
  <2>4. n # 0
    <3>1. KeptIn(list, 0) = {}
      BY DEF KeptIn
    <3>2. KeepsInOrder(<<>>, list, 0)
      BY <3>1, FS_EmptySet DEF KeepsInOrder
    <3> QED BY <3>2, <2>3, <1>1
  <2>5. KeepsInOrder(kept[n - 1], list, n - 1)
    BY <2>2, <2>3, <2>4 DEF T
  <2>6. 1..n = 1..(n - 1) \cup {n} /\ n \in DOMAIN list /\ n \in Nat /\ n \notin 1..(n - 1)
    BY <2>3, <2>4
  <2>7. CASE list[n].deleted
    <3>1. kept[n] = kept[n - 1]
      BY <2>7, <2>3, <2>4, <1>1
    <3>2. KeptIn(list, n) = KeptIn(list, n - 1)
      BY <2>6, <2>7 DEF KeptIn
    <3> QED BY <3>1, <3>2, <2>3, <2>5 DEF KeepsInOrder
  <2>8. CASE ~list[n].deleted
    <3> DEFINE old == kept[n - 1]
    <3>1. kept[n] = Append(old, list[n].id) /\ old \in Seq(Pages) /\ list[n].id \in Pages
      <4>1. kept[n] = Append(kept[n - 1], list[n].id)
        BY <2>8, <2>3, <2>4, <1>1
      <4>2. list[n] \in Listed
        BY <2>6
      <4>3. list[n].id \in Pages
        BY <4>2 DEF Listed
      <4> QED BY <4>1, <4>3, <2>5 DEF KeepsInOrder
    <3>2. KeptIn(list, n) = KeptIn(list, n - 1) \cup {n} /\ n \notin KeptIn(list, n - 1)
      BY <2>6, <2>8 DEF KeptIn
    <3>3. IsFiniteSet(KeptIn(list, n - 1))
      <4>1. IsFiniteSet(1..(n - 1))
        BY <2>6, FS_Interval
      <4> QED BY <4>1, FS_Subset DEF KeptIn
    <3>4. Cardinality(KeptIn(list, n)) = Cardinality(KeptIn(list, n - 1)) + 1
      BY <3>2, <3>3, FS_AddElement
    <3>5. Len(old) = Cardinality(KeptIn(list, n - 1))
          /\ \A k \in DOMAIN old : \E i \in KeptIn(list, n - 1) :
                list[i].id = old[k] /\ Cardinality(KeptIn(list, i)) = k
      BY <2>5 DEF KeepsInOrder
    <3> HIDE DEF old
    <3>6. /\ DOMAIN kept[n] = 1..Len(old) \cup {Len(old) + 1} /\ DOMAIN old = 1..Len(old)
          /\ \A j \in 1..Len(old) : kept[n][j] = old[j]
          /\ kept[n][Len(old) + 1] = list[n].id
          /\ kept[n] \in Seq(Pages) /\ Len(kept[n]) = Len(old) + 1
      BY <3>1
    <3>7. \A k \in DOMAIN kept[n] : \E i \in KeptIn(list, n) :
             list[i].id = kept[n][k] /\ Cardinality(KeptIn(list, i)) = k
      BY <3>2, <3>4, <3>5, <3>6
    <3> QED BY <3>4, <3>5, <3>6, <3>7, <2>3 DEF KeepsInOrder
  <2> QED BY <2>7, <2>8
<1>3. Len(list) \in 0..Len(list)
  OBVIOUS
<1>4. Len(list) \notin T
  BY <1>2
<1> QED BY <1>3, <1>4 DEF kept

\* The pages Document lists are the notebook's that are not deleted.
LEMMA DocumentListsPages ==
    ASSUME notebook \in Notebooks
    PROVE  /\ DocumentPages(notebook) \in Seq(Pages)
           /\ \A k \in DOMAIN DocumentPages(notebook) : IsKthPage(DocumentPages(notebook)[k], k)
<1>1. notebook.cPages \in Seq(Listed) /\ notebook.pages \in Seq(Pages)
  BY SendAssumption DEF Listed
<1>2. CASE notebook.cPages = <<>>
  BY <1>1, <1>2 DEF DocumentPages, IsKthPage
<1>3. CASE notebook.cPages # <<>>
  <2> DEFINE list == notebook.cPages
             new == KeptUpTo(list)[Len(list)]
             whole == {i \in DOMAIN list : ~list[i].deleted}
  <2>1. KeepsInOrder(new, list, Len(list))
    BY <1>1, LoopKeepsInOrder
  <2>2. DocumentPages(notebook) = new
    BY <1>3 DEF DocumentPages
  <2>3. \A k, p : IsKthPage(p, k) <=>
           \E i \in whole : list[i].id = p /\ Cardinality({j \in whole : j <= i}) = k
    BY <1>3 DEF IsKthPage
  <2> HIDE DEF new
  <2>4. \A i \in whole : {j \in whole : j <= i} = KeptIn(list, i)
    BY <1>1 DEF KeptIn
  <2>5. KeptIn(list, Len(list)) = whole
    BY <1>1 DEF KeptIn
  <2> HIDE DEF list, whole
  <2>6. \A k \in DOMAIN new : IsKthPage(new[k], k)
    BY <2>1, <2>3, <2>4, <2>5 DEF KeepsInOrder
  <2> QED BY <2>1, <2>2, <2>6 DEF KeepsInOrder
<1> QED BY <1>2, <1>3

-----------------------------------------------------------------------------
(* The send.                                                               *)

SendInv == notebook \in Notebooks /\ RangeInv

LEMMA SendInitInv == SendInit => SendInv
BY RangeInitInv DEF SendInit, SendInv

LEMMA SendStepInv == SendInv /\ [SendNext]_sendVars => SendInv'
<1> SUFFICES ASSUME SendInv, [SendNext]_sendVars PROVE SendInv'
  OBVIOUS
<1>1. CASE UNCHANGED <<rangeVars, notebook>>
  BY <1>1 DEF SendInv, RangeInv, rangeVars, RangeTypeOK, WalkInv, PassedInv, SelectsOnce, InOrderNamed,
              SelectsWhatItNames, Seen, Named, Mentions, Fits
<1>2. ASSUME NEW expr \in Ranges, ReadDocument(expr) PROVE SendInv'
  <2>1. CASE UNCHANGED rangeVars
    BY <1>1, <1>2, <2>1 DEF ReadDocument
  <2>2. CASE StartRange(expr, Len(pageIDs'))
    <3>1. expr \in Seq(Part \cup {Malformed})
      BY SendAssumption
    <3>2. Len(pageIDs') \in Nat
      BY <1>2, DocumentListsPages DEF ReadDocument, SendInv
    <3> QED BY <1>2, <2>2, <3>1, <3>2, StartRangeInv DEF SendInv, ReadDocument
  <2> QED BY <1>2, <2>1, <2>2 DEF ReadDocument
<1>3. CASE ParseRange
  <2>1. CASE RangeStep
    BY <1>3, <2>1, RangeStepInv DEF SendInv, ParseRange
  <2> QED BY <1>1, <1>3, <2>1 DEF ParseRange
<1>4. CASE RenderPage \/ RenderFiles \/ CreateUpload \/ SendUpload \/ AttachFile \/ Delivered
           \/ \E r \in Requests : Press(r)
  BY <1>1, <1>4 DEF RenderPage, RenderFiles, CreateUpload, SendUpload, AttachFile, Delivered, Press
<1>5. CASE Idle \/ UNCHANGED sendVars
  BY <1>1, <1>5 DEF Idle, sendVars
<1> QED BY <1>2, <1>3, <1>4, <1>5 DEF SendNext

LEMMA SendInvHolds == SendSpec => []SendInv
BY SendInitInv, SendStepInv, PTL DEF SendSpec

\* A range that is accepted selects the pages it names and no others, for every
\* notebook and every expression (xochitl.go:120-132).
THEOREM RangeSelectsWhatItNames == SendSpec => []SelectsWhatItNames
<1>1. SendInv => SelectsWhatItNames
  BY DEF SendInv, RangeInv
<1> QED BY <1>1, SendInvHolds, PTL

\* They come in the order they are first named (xochitl.go:110-129).
THEOREM RangeKeepsOrder == SendSpec => []InOrderNamed
<1>1. SendInv => InOrderNamed
  BY DEF SendInv, RangeInv
<1> QED BY <1>1, SendInvHolds, PTL

\* Each comes once, though parts may overlap (xochitl.go:124-128).
THEOREM RangeSelectsOnce == SendSpec => []SelectsOnce
<1>1. SendInv => SelectsOnce
  BY DEF SendInv, RangeInv
<1> QED BY <1>1, SendInvHolds, PTL

-----------------------------------------------------------------------------
(* What is put on the page.  What a file or a block says plays no part: of  *)
(* a sequence only its being one is needed.                                *)

IsSeq(s) == \E S : s \in Seq(S)

\* What appending does to a sequence of anything.
LEMMA AppendToSeq ==
    ASSUME NEW s, NEW x, IsSeq(s)
    PROVE  /\ IsSeq(Append(s, x))
           /\ Len(s) \in Nat /\ DOMAIN s = 1..Len(s) /\ Len(Append(s, x)) = Len(s) + 1
           /\ DOMAIN Append(s, x) = 1..(Len(s) + 1)
           /\ Append(s, x)[Len(s) + 1] = x
           /\ \A i \in 1..Len(s) : Append(s, x)[i] = s[i]
<1>1. PICK T : s \in Seq(T)
  BY DEF IsSeq
<1>2. s \in Seq(T \cup {x})
  BY <1>1
<1>3. Append(s, x) \in Seq(T \cup {x})
  BY <1>2
<1> QED BY <1>2, <1>3 DEF IsSeq

SentTypeOK ==
    /\ IsSeq(content) /\ IsSeq(page) /\ IsSeq(uploads)
    /\ created \in Nat /\ before \in Nat /\ current \in Nat \ {0} /\ uploadID \in Nat

\* An upload is shown by one block at most, and not before it is sent.
UploadsInv ==
    /\ \A i \in DOMAIN page : page[i].upload \in Nat /\ page[i].upload <= created
    /\ \A i, j \in DOMAIN page : page[i].upload = page[j].upload => i = j
    /\ pc \in {"send", "attach"} =>
          uploadID <= created /\ \A i \in DOMAIN page : page[i].upload # uploadID

\* Where deliver is, and how many blocks there are.
CountInv ==
    /\ before <= Len(page)
    /\ pc \in {"document", "range", "render"} => uploads = <<>> /\ current = 1 /\ Len(page) = before
    /\ pc \in {"create", "send", "attach"} => Len(page) - before = current - 1
    /\ pc \in {"send", "attach"} => current <= Len(uploads)
    /\ pc = "idle" /\ uploads # <<>> => Len(page) - before \in (current - 1)..current
    /\ pc \in {"idle", "document", "range", "render", "create", "send", "attach"}

\* The bytes of the file that is about to be attached have arrived.
ArrivedInv ==
    pc = "attach" =>
        \E c \in DOMAIN content : content[c].upload = uploadID /\ content[c].pages = uploads[current].pages

ShownInv == uploads # <<>> => \A i \in (before + 1)..Len(page) : Shows(i, uploads[i - before])

SentInv == SentTypeOK /\ UploadsInv /\ CountInv /\ ArrivedInv /\ ShownInv

LEMMA SentInitInv == SendInit => SentInv
<1>1. IsSeq(<<>>) /\ Len(<<>>) = 0 /\ DOMAIN <<>> = {}
  <2>1. <<>> \in Seq(Nat)
    OBVIOUS
  <2> QED BY <2>1 DEF IsSeq
<1> QED BY <1>1 DEF SendInit, SentInv, SentTypeOK, UploadsInv, CountInv, ArrivedInv, ShownInv

\* Nothing of this changes while only the calls before it are made.
LEMMA SentStutter ==
    ASSUME SentInv, UNCHANGED <<page, content, created, uploads, before, current, req>>,
           \/ UNCHANGED <<pc, uploadID>>
           \/ pc' = "idle" /\ UNCHANGED uploadID
           \/ pc \in {"document", "range", "render"} /\ pc' \in {"document", "range", "render"}
              /\ UNCHANGED uploadID
    PROVE  SentInv'
<1>1. SentTypeOK' /\ UploadsInv' /\ ArrivedInv'
  BY DEF SentInv, SentTypeOK, UploadsInv, ArrivedInv
<1>2. ShownInv'
  BY DEF SentInv, ShownInv, Shows
<1>3. CountInv'
  <2>1. Len(page) \in Nat
    BY DEF SentInv, SentTypeOK, IsSeq
  <2> QED BY <2>1 DEF SentInv, SentTypeOK, CountInv
<1> QED BY <1>1, <1>2, <1>3 DEF SentInv

LEMMA PressSent == ASSUME SentInv, NEW r \in Requests, Press(r) PROVE SentInv'
<1>1. Len(page) \in Nat
  BY DEF SentInv, SentTypeOK, IsSeq
<1>2. IsSeq(<<>>)
  BY DEF IsSeq
<1>3. SentTypeOK' /\ UploadsInv' /\ ArrivedInv' /\ ShownInv'
  BY <1>1, <1>2 DEF SentInv, SentTypeOK, UploadsInv, ArrivedInv, ShownInv, Press, Answer, notion
<1>4. CountInv'
  BY <1>1 DEF Press, Answer, notion, CountInv
<1> QED BY <1>3, <1>4 DEF SentInv

LEMMA RenderFilesSent == ASSUME SentInv, SendInv, RenderFiles PROVE SentInv'
<1>1. IsSeq(Files)
  <2>1. indices \in Seq(Int)
    BY DEF SendInv, RangeInv, RangeTypeOK
  <2>2. CASE req.format = "pdf"
    <3>1. \A f : <<f>> \in Seq({f})
      OBVIOUS
    <3> QED BY <2>2, <3>1 DEF Files, IsSeq
  <2>3. CASE req.format # "pdf"
    <3> DEFINE S == {Files[k] : k \in DOMAIN indices}
    <3>1. DOMAIN Files = DOMAIN indices /\ Files = [k \in DOMAIN indices |-> Files[k]]
      BY <2>3 DEF Files
    <3>2. DOMAIN indices = 1..Len(indices) /\ Len(indices) \in Nat
      BY <2>1
    <3>3. \A k \in 1..Len(indices) : Files[k] \in S
      BY <3>2
    <3> HIDE DEF S
    <3>4. Files \in Seq(S)
      BY <3>1, <3>2, <3>3
    <3> QED BY <3>4 DEF IsSeq
  <2> QED BY <2>2, <2>3
<1>2. Len(page) \in Nat
  BY DEF SentInv, SentTypeOK, IsSeq
<1>3. SentTypeOK' /\ UploadsInv' /\ ArrivedInv' /\ ShownInv'
  BY <1>1, <1>2 DEF SentInv, SentTypeOK, UploadsInv, ArrivedInv, ShownInv, RenderFiles, notion, CountInv
<1>4. CountInv'
  BY <1>2 DEF SentInv, SentTypeOK, RenderFiles, notion, CountInv
<1> QED BY <1>3, <1>4 DEF SentInv

\* A new upload is shown by no block yet.
LEMMA CreateUploadSent == ASSUME SentInv, CreateUpload PROVE SentInv'
<1>1. CASE created' = created /\ Refused
  BY <1>1, SentStutter DEF CreateUpload, Refused, Fails, Answer
<1>2. CASE created' = created + 1
  <2>1. /\ UNCHANGED <<page, content, uploads, before, current, req>> /\ Len(page) \in Nat
        /\ pc = "create" /\ current <= Len(uploads)
        /\ (pc' = "send" /\ uploadID' = created + 1) \/ (pc' = "idle" /\ uploadID' = uploadID)
    BY <1>2 DEF CreateUpload, Fails, Refused, Answer, SentInv, SentTypeOK, IsSeq
  <2>2. SentTypeOK' /\ UploadsInv' /\ ArrivedInv'
    BY <1>2, <2>1 DEF SentInv, SentTypeOK, UploadsInv, ArrivedInv
  <2>3. ShownInv'
    BY <2>1 DEF SentInv, ShownInv, Shows
  <2>4. CountInv'
    BY <2>1 DEF SentInv, SentTypeOK, CountInv
  <2> QED BY <2>2, <2>3, <2>4 DEF SentInv
<1> QED BY <1>1, <1>2 DEF CreateUpload

LEMMA SendUploadSent == ASSUME SentInv, SendUpload PROVE SentInv'
<1>1. CASE content' = content /\ Refused
  BY <1>1, SentStutter DEF SendUpload, Refused, Fails, Answer
<1>2. CASE content' = Append(content, [upload |-> uploadID, pages |-> uploads[current].pages])
  <2>1. UNCHANGED <<page, created, uploads, before, current, req, uploadID>> /\ Len(page) \in Nat
        /\ pc = "send" /\ pc' \in {"attach", "idle"}
    BY DEF SendUpload, Fails, Refused, Answer, SentInv, SentTypeOK, IsSeq
  <2>2. /\ IsSeq(content') /\ DOMAIN content \subseteq DOMAIN content'
        /\ \A c \in DOMAIN content : content'[c] = content[c]
        /\ Len(content) + 1 \in DOMAIN content'
        /\ content'[Len(content) + 1] = [upload |-> uploadID, pages |-> uploads[current].pages]
    BY <1>2, AppendToSeq DEF SentInv, SentTypeOK
  <2>3. SentTypeOK' /\ UploadsInv' /\ ArrivedInv'
    BY <2>1, <2>2 DEF SentInv, SentTypeOK, UploadsInv, ArrivedInv
  <2>4. ShownInv'
    BY <2>1, <2>2 DEF SentInv, ShownInv, Shows
  <2>5. CountInv'
    BY <2>1 DEF SentInv, SentTypeOK, CountInv
  <2> QED BY <2>3, <2>4, <2>5 DEF SentInv
<1> QED BY <1>1, <1>2 DEF SendUpload

LEMMA AttachFileSent == ASSUME SentInv, AttachFile PROVE SentInv'
<1> DEFINE block == [upload |-> uploadID, name |-> uploads[current].name,
                     type |-> BlockTypeFor(uploads[current].type, req.attach_as)]
<1>1. CASE page' = page
  <2>1. page # Append(page, block)
    BY AppendToSeq DEF SentInv, SentTypeOK
  <2> QED BY <1>1, <2>1, SentStutter DEF AttachFile, Refused, Fails, Answer
<1>2. CASE page' = Append(page, block)
  <2>1. /\ UNCHANGED <<content, created, uploads, before, req, uploadID>> /\ Len(page) \in Nat
        /\ pc = "attach"
        /\ (pc' = "create" /\ current' = current + 1) \/ (pc' = "idle" /\ current' = current)
    <3>1. page' # page
      BY <1>2, AppendToSeq DEF SentInv, SentTypeOK
    <3> QED BY <3>1 DEF AttachFile, Fails, Refused, Answer, SentInv, SentTypeOK, IsSeq
  <2>2. /\ IsSeq(page') /\ Len(page') = Len(page) + 1
        /\ DOMAIN page = 1..Len(page) /\ DOMAIN page' = 1..(Len(page) + 1)
        /\ \A i \in DOMAIN page : page'[i] = page[i]
        /\ page'[Len(page) + 1] = block
    BY <1>2, AppendToSeq DEF SentInv, SentTypeOK
  <2>3. /\ block.upload = uploadID /\ block.name = uploads[current].name
        /\ block.type = IF req.attach_as = "file" THEN "file" ELSE uploads[current].type
    BY DEF BlockTypeFor
  <2>4. /\ uploadID \in Nat /\ uploadID <= created /\ current <= Len(uploads)
        /\ \A i \in DOMAIN page : page[i].upload # uploadID
        /\ Len(page) - before = current - 1 /\ before \in Nat /\ current \in Nat \ {0}
    BY <2>1 DEF SentInv, SentTypeOK, UploadsInv, CountInv
  <2>5. SentTypeOK' /\ ArrivedInv'
    BY <2>1, <2>2 DEF SentInv, SentTypeOK, ArrivedInv
  <2>6. UploadsInv'
    <3>1. ASSUME NEW i \in DOMAIN page' PROVE i \in DOMAIN page \/ i = Len(page) + 1
      BY <2>1, <2>2
    <3>2. \A i \in DOMAIN page' : page'[i].upload \in Nat /\ page'[i].upload <= created'
      BY <2>1, <2>2, <2>3, <2>4, <3>1 DEF SentInv, UploadsInv
    <3>3. \A i, j \in DOMAIN page' : page'[i].upload = page'[j].upload => i = j
      BY <2>2, <2>3, <2>4, <3>1 DEF SentInv, UploadsInv
    <3> QED BY <2>1, <3>2, <3>3 DEF UploadsInv
  <2>7. CountInv'
    <3> HIDE DEF block
    <3>1. before' <= Len(page')
      BY <2>1, <2>2, <2>4
    <3>2. CASE pc' = "create" /\ current' = current + 1
      BY <2>1, <2>2, <2>4, <3>1, <3>2 DEF CountInv
    <3>3. CASE pc' = "idle" /\ current' = current
      BY <2>1, <2>2, <2>4, <3>1, <3>3 DEF CountInv
    <3> QED BY <2>1, <3>2, <3>3
  <2>8. ShownInv'
    <3>1. SUFFICES ASSUME uploads # <<>>, NEW i \in (before + 1)..Len(page')
                   PROVE  /\ page'[i].name = uploads[i - before].name
                          /\ page'[i].type = IF req.attach_as = "file" THEN "file"
                                             ELSE uploads[i - before].type
                          /\ \E c \in DOMAIN content : /\ content[c].upload = page'[i].upload
                                                       /\ content[c].pages = uploads[i - before].pages
                          /\ \A j \in DOMAIN page' : page'[j].upload = page'[i].upload => j = i
      BY <2>1 DEF ShownInv, Shows
    <3>2. CASE i <= Len(page)
      <4>1. i \in DOMAIN page /\ Shows(i, uploads[i - before])
        BY <2>2, <2>4, <3>1, <3>2 DEF SentInv, ShownInv
      <4>2. page'[i] = page[i]
        BY <2>2, <4>1
      <4>3. \A j \in DOMAIN page' : page'[j].upload = page[i].upload => j = i
        <5>1. page'[Len(page) + 1].upload # page[i].upload
          BY <2>2, <2>3, <2>4, <4>1
        <5> QED BY <2>2, <4>1, <5>1 DEF Shows
      <4> QED BY <2>1, <4>1, <4>2, <4>3 DEF Shows
    <3>3. CASE i = Len(page) + 1
      <4>1. i - before = current
        BY <2>1, <2>4, <3>3
      <4>2. \E c \in DOMAIN content : content[c].upload = uploadID /\ content[c].pages = uploads[current].pages
        BY <2>1 DEF SentInv, ArrivedInv
      <4>3. page'[i] = block
        BY <2>2, <3>3
      <4>4. ASSUME NEW j \in DOMAIN page', page'[j].upload = uploadID PROVE j = i
        <5>1. j \notin DOMAIN page
          BY <2>2, <2>4, <4>4
        <5> QED BY <2>2, <2>4, <3>3, <5>1
      <4>5. \E c \in DOMAIN content : /\ content'[c].upload = page'[i].upload
                                     /\ content'[c].pages = uploads'[i - before].pages
        BY <2>1, <2>3, <4>1, <4>2, <4>3
      <4> HIDE DEF block
      <4> QED BY <2>1, <2>3, <4>1, <4>3, <4>4, <4>5
    <3> QED BY <2>1, <2>2, <2>4, <3>2, <3>3
  <2> QED BY <2>5, <2>6, <2>7, <2>8 DEF SentInv
<1> QED BY <1>1, <1>2 DEF AttachFile

LEMMA SentStepInv == SentInv /\ SendInv /\ [SendNext]_sendVars => SentInv'
<1> SUFFICES ASSUME SentInv, SendInv, [SendNext]_sendVars PROVE SentInv'
  OBVIOUS
<1>1. CASE \E r \in Requests : Press(r)
  BY <1>1, PressSent
<1>2. CASE (\E expr \in Ranges : ReadDocument(expr)) \/ ParseRange \/ RenderPage
  BY <1>2, SentStutter DEF ReadDocument, ParseRange, RenderPage, Answer, notion
<1>3. CASE RenderFiles
  BY <1>3, RenderFilesSent
<1>4. CASE CreateUpload \/ SendUpload \/ AttachFile
  BY <1>4, CreateUploadSent, SendUploadSent, AttachFileSent
<1>5. CASE Delivered \/ Idle \/ UNCHANGED sendVars
  BY <1>5, SentStutter DEF Delivered, Idle, Answer, sendVars, notion
<1> QED BY <1>1, <1>2, <1>3, <1>4, <1>5 DEF SendNext

\* However a send ends, what it has put on the page are its first files, each
\* once, whole and in order, for every notebook and any number of sends
\* (bridge.go:433-448).
THEOREM DeliveryIsInOrder == SendSpec => []SendsInOrder
<1>1. SentInv => SendsInOrder
  <2>1. SUFFICES ASSUME SentInv, uploads # <<>> PROVE Len(page) - before \in (current - 1)..current
    BY DEF SendsInOrder, SentInv, ShownInv
  <2>2. Len(page) \in Nat /\ before \in Nat /\ current \in Nat
    BY <2>1 DEF SentInv, SentTypeOK, IsSeq
  <2> QED BY <2>1, <2>2 DEF SentInv, CountInv
<1>2. SendSpec => []SentInv
  BY SendInvHolds, SentInitInv, SentStepInv, PTL DEF SendSpec
<1> QED BY <1>1, <1>2, PTL

-----------------------------------------------------------------------------
(* What a send that is over has put there.                                 *)

\* An accepted range is of one page at least.
SelectsSome == rangePc = "resolved" /\ pageCount > 0 => indices # <<>>

\* The pages are those of the notebook, and the range is over them.
PagesRead == pageIDs = DocumentPages(notebook) /\ pageCount = Len(pageIDs) /\ pageIDs # <<>>

\* The bytes of an upload are sent once.
ContentInv ==
    /\ \A c \in DOMAIN content : content[c].upload \in Nat /\ content[c].upload <= created
    /\ \A c, e \in DOMAIN content : content[c].upload = content[e].upload => c = e
    /\ pc = "send" => \A c \in DOMAIN content : content[c].upload # uploadID

WholeInv ==
    /\ pc \in {"range", "render"} => PagesRead
    /\ pc = "render" => rangePc = "resolved"
    /\ pc \in {"create", "send", "attach"} => uploads # <<>> /\ current <= Len(uploads) + 1
    /\ uploads # <<>> => uploads = Files /\ PagesRead /\ rangePc = "resolved"
    /\ pc # "idle" => answer = "none" /\ blockURL \in IF Len(page) = before THEN {0} ELSE {before + 1, PageURL}
    /\ answer = "ok" => /\ uploads # <<>> /\ current = Len(uploads) + 1
                        /\ Len(page) - before = Len(uploads) /\ blockURL \in {before + 1, PageURL}

LEMMA SelectsSomeStart ==
    ASSUME NEW n \in Nat, NEW expr \in Seq(Part \cup {Malformed}), StartRange(expr, n)
    PROVE  SelectsSome'
<1>1. CASE expr = <<>>
  <2>1. pageCount' = n /\ indices' = [i \in 1..n |-> i - 1]
    BY <1>1 DEF StartRange
  <2>2. n > 0 => DOMAIN indices' = 1..n /\ 1 \in DOMAIN indices'
    BY <2>1
  <2>3. DOMAIN <<>> = {}
    OBVIOUS
  <2> QED BY <2>1, <2>2, <2>3 DEF SelectsSome
<1>2. CASE expr # <<>>
  BY <1>2 DEF StartRange, SelectsSome
<1> QED BY <1>1, <1>2

\* The first page of the first part is one of those the walk has collected.
LEMMA SelectsSomeStep == ASSUME RangeInv, SelectsSome, RangeStep PROVE SelectsSome'
<1>1. CASE NextPage
  BY <1>1 DEF NextPage, SelectsSome
<1>2. CASE NextPart
  <2>1. CASE ~(at > Len(range))
    BY <1>2, <2>1 DEF NextPart, SelectsSome
  <2>2. CASE at > Len(range)
    <3>1. rangePc = "parts" /\ range # <<>> /\ range \in Seq(Part \cup {Malformed})
          /\ at \in Nat /\ (\A k \in 1..(at - 1) : Fits(range[k])) /\ UNCHANGED indices
      BY <1>2 DEF RangeInv, RangeTypeOK, WalkInv, NextPart
    <3>2. 1 \in 1..(at - 1) /\ range[1] \in Part \cup {Malformed}
      BY <2>2, <3>1
    <3>3. range[1].lo \in Int /\ range[1].hi \in Int /\ range[1].lo <= range[1].hi /\ range[1] # Malformed
      BY <3>1, <3>2, RangeAssumption DEF Part, Fits
    <3>4. Mentions(1, range[1].lo - 1)
      BY <3>3 DEF Mentions
    <3>5. Seen(range[1].lo - 1)
      BY <3>1, <3>2, <3>3, <3>4 DEF RangeInv, PassedInv, Named
    <3>6. indices # <<>>
      BY <3>5 DEF Seen
    <3> QED BY <3>1, <3>6 DEF SelectsSome
  <2> QED BY <2>1, <2>2
<1> QED BY <1>1, <1>2 DEF RangeStep

LEMMA SelectsSomeKept ==
    ASSUME SendInv, SelectsSome, [SendNext]_sendVars
    PROVE  SelectsSome'
<1>1. CASE UNCHANGED rangeVars
  BY <1>1 DEF rangeVars, SelectsSome
<1>2. ASSUME NEW expr \in Ranges, ReadDocument(expr) PROVE SelectsSome'
  <2>1. CASE StartRange(expr, Len(pageIDs'))
    <3>1. expr \in Seq(Part \cup {Malformed})
      BY SendAssumption
    <3>2. Len(pageIDs') \in Nat
      BY <1>2, DocumentListsPages DEF ReadDocument, SendInv
    <3> QED BY <2>1, <3>1, <3>2, SelectsSomeStart
  <2> QED BY <1>1, <1>2, <2>1 DEF ReadDocument
<1>3. CASE ParseRange
  BY <1>1, <1>3, SelectsSomeStep DEF SendInv, ParseRange
<1>4. CASE RenderPage \/ RenderFiles \/ CreateUpload \/ SendUpload \/ AttachFile \/ Delivered
           \/ \E r \in Requests : Press(r)
  BY <1>1, <1>4 DEF RenderPage, RenderFiles, CreateUpload, SendUpload, AttachFile, Delivered, Press
<1>5. CASE Idle \/ UNCHANGED sendVars
  BY <1>1, <1>5 DEF Idle, sendVars
<1> QED BY <1>2, <1>3, <1>4, <1>5 DEF SendNext

LEMMA ContentKept ==
    ASSUME SentInv, ContentInv, [SendNext]_sendVars
    PROVE  ContentInv'
<1>0. created \in Nat /\ uploadID \in Nat
  BY DEF SentInv, SentTypeOK
<1>1. ASSUME UNCHANGED <<content, created>>, pc' # "send" PROVE ContentInv'
  BY <1>1 DEF ContentInv
<1>2. CASE CreateUpload
  <2>1. /\ created' \in {created, created + 1} /\ UNCHANGED content
        /\ pc' = "send" => created' = created + 1 /\ uploadID' = created + 1
    BY <1>2 DEF CreateUpload, Refused, Fails, Answer
  <2> QED BY <1>0, <2>1 DEF ContentInv
<1>3. CASE SendUpload
  <2> DEFINE new == [upload |-> uploadID, pages |-> uploads[current].pages]
  <2>1. pc = "send" /\ pc' # "send" /\ UNCHANGED created /\ (content' = content \/ content' = Append(content, new))
    BY <1>3 DEF SendUpload, Refused, Fails, Answer
  <2>2. uploadID <= created /\ (\A c \in DOMAIN content : content[c].upload # uploadID) /\ new.upload = uploadID
    BY <2>1 DEF SentInv, UploadsInv, ContentInv
  <2> HIDE DEF new
  <2>3. CASE content' = Append(content, new)
    <3>1. /\ DOMAIN content = 1..Len(content) /\ DOMAIN content' = 1..(Len(content) + 1) /\ Len(content) \in Nat
          /\ \A c \in 1..Len(content) : content'[c] = content[c]
          /\ content'[Len(content) + 1] = new
      BY <2>3, AppendToSeq DEF SentInv, SentTypeOK
    <3>2. ASSUME NEW c \in DOMAIN content' PROVE c \in DOMAIN content \/ c = Len(content) + 1
      BY <3>1
    <3>3. /\ \A c \in DOMAIN content : content'[c] = content[c]
          /\ content'[Len(content) + 1].upload = uploadID
      BY <2>2, <3>1
    <3> QED BY <1>0, <2>1, <2>2, <3>2, <3>3 DEF ContentInv
  <2> QED BY <1>1, <2>1, <2>3
<1>4. CASE \/ \E r \in Requests : Press(r)
           \/ \E expr \in Ranges : ReadDocument(expr)
           \/ ParseRange \/ RenderPage \/ RenderFiles \/ AttachFile \/ Delivered
  <2>1. UNCHANGED <<content, created>>
    BY <1>4 DEF Press, ReadDocument, ParseRange, RenderPage, RenderFiles, AttachFile, Delivered, notion
  <2>2. pc' # "send"
    BY <1>4 DEF Press, ReadDocument, ParseRange, RenderPage, RenderFiles, AttachFile, Delivered,
                Answer, Refused, Fails
  <2> QED BY <1>1, <2>1, <2>2
<1>5. CASE Idle \/ UNCHANGED sendVars
  BY <1>5 DEF Idle, sendVars, notion, ContentInv
<1> QED BY <1>2, <1>3, <1>4, <1>5 DEF SendNext

\* What is read from the notebook stays until the next Send.
LEMMA WholeStutter ==
    ASSUME WholeInv,
           UNCHANGED <<rangeVars, notebook, pageIDs, req, uploads, page, before, current, blockURL>>,
           \/ pc' = pc /\ answer' = answer
           \/ pc' = "idle" /\ answer' \in {"error", "revoked"}
           \/ pc = "create" /\ pc' = "send" /\ answer' = answer
           \/ pc = "send" /\ pc' = "attach" /\ answer' = answer
    PROVE  WholeInv'
<1>1. Files' = Files /\ (PagesRead' <=> PagesRead)
  BY DEF Files, SvgName, PagesRead, rangeVars
<1> QED BY <1>1 DEF WholeInv, rangeVars

LEMMA BeforeFilesWhole ==
    ASSUME SendInv, SentInv, WholeInv,
           \/ \E r \in Requests : Press(r)
           \/ \E expr \in Ranges : ReadDocument(expr)
           \/ ParseRange \/ RenderPage
    PROVE  WholeInv'
<1>1. ASSUME NEW r \in Requests, Press(r) PROVE WholeInv'
  BY <1>1 DEF Press, Answer, notion, WholeInv
<1>2. ASSUME NEW expr \in Ranges, ReadDocument(expr) PROVE WholeInv'
  <2>1. uploads = <<>> /\ UNCHANGED <<uploads, page, before, blockURL>> /\ pc = "document"
    BY <1>2 DEF ReadDocument, notion, SentInv, CountInv
  <2>2. CASE pageIDs' # <<>> /\ pc' = "range" /\ StartRange(expr, Len(pageIDs')) /\ UNCHANGED answer
    <3>1. PagesRead'
      BY <1>2, <2>2 DEF ReadDocument, StartRange, PagesRead
    <3> QED BY <2>1, <2>2, <3>1 DEF WholeInv
  <2>3. CASE Answer("error")
    BY <2>1, <2>3 DEF WholeInv, Answer
  <2> QED BY <1>2, <2>2, <2>3 DEF ReadDocument
<1>3. CASE ParseRange
  <2>1. uploads = <<>> /\ UNCHANGED <<uploads, page, before, blockURL, pageIDs, notebook>> /\ pc = "range"
    BY <1>3 DEF ParseRange, notion, SentInv, CountInv
  <2>2. UNCHANGED pageCount
    BY <1>3 DEF ParseRange, RangeStep, NextPart, NextPage, rangeVars
  <2>3. PagesRead /\ PagesRead'
    BY <2>1, <2>2 DEF WholeInv, PagesRead
  <2>4. \/ pc' = "range" /\ answer' = answer
        \/ pc' = "render" /\ answer' = answer /\ rangePc' = "resolved"
        \/ pc' = "idle" /\ answer' = "error"
    BY <1>3, <2>1 DEF ParseRange, Answer, rangeVars
  <2> QED BY <2>1, <2>3, <2>4 DEF WholeInv
<1>4. CASE RenderPage
  BY <1>4, WholeStutter DEF RenderPage, Answer, notion
<1> QED BY <1>1, <1>2, <1>3, <1>4

LEMMA RenderFilesWhole == ASSUME SendInv, SelectsSome, SentInv, WholeInv, RenderFiles PROVE WholeInv'
<1>1. /\ uploads' = Files /\ pc = "render" /\ pc' = "create" /\ uploads = <<>> /\ current = 1
      /\ UNCHANGED <<rangeVars, notebook, req, pageIDs, current, blockURL, answer, page, before>>
  BY DEF RenderFiles, notion, SentInv, CountInv
<1>2. PagesRead /\ rangePc = "resolved"
  BY <1>1 DEF WholeInv
<1>3. Files' = Files /\ (PagesRead' <=> PagesRead)
  BY <1>1 DEF Files, SvgName, PagesRead, rangeVars
<1>4. pageCount > 0 /\ indices # <<>> /\ indices \in Seq(Int)
  <2>1. pageIDs \in Seq(Pages) /\ pageIDs # <<>>
    BY <1>2, DocumentListsPages DEF PagesRead, SendInv
  <2>2. pageCount > 0
    BY <1>2, <2>1 DEF PagesRead
  <2> QED BY <1>2, <2>2 DEF SelectsSome, SendInv, RangeInv, RangeTypeOK
<1>5. Files # <<>> /\ Len(Files) \in Nat
  <2>1. IsSeq(Files)
    <3>1. SentInv'
      BY RenderFilesSent
    <3> QED BY <1>1, <3>1 DEF SentInv, SentTypeOK
  <2>2. 1 \in DOMAIN indices
    BY <1>4
  <2>3. 1 \in DOMAIN Files
    BY <2>2 DEF Files
  <2> QED BY <2>1, <2>3 DEF IsSeq
<1> QED BY <1>1, <1>2, <1>3, <1>5 DEF WholeInv, rangeVars

LEMMA AttachFileWhole == ASSUME SentInv, WholeInv, AttachFile PROVE WholeInv'
<1> DEFINE block == [upload |-> uploadID, name |-> uploads[current].name,
                     type |-> BlockTypeFor(uploads[current].type, req.attach_as)]
<1>1. CASE page' = page
  <2>1. page # Append(page, block)
    BY AppendToSeq DEF SentInv, SentTypeOK
  <2> QED BY <1>1, <2>1, WholeStutter DEF AttachFile, Refused, Fails, Answer
<1>2. CASE page' = Append(page, block)
  <2>1. /\ UNCHANGED <<rangeVars, notebook, pageIDs, uploads, before, req>> /\ pc = "attach"
        /\ \/ pc' = "create" /\ current' = current + 1 /\ answer' = answer
              /\ blockURL' \in IF blockURL = 0 THEN {Len(page'), PageURL} ELSE {blockURL}
           \/ pc' = "idle" /\ answer' = "error" /\ UNCHANGED <<current, blockURL>>
    <3>1. page' # page
      BY <1>2, AppendToSeq DEF SentInv, SentTypeOK
    <3> QED BY <3>1 DEF AttachFile, Fails, Refused, Answer
  <2>2. Files' = Files /\ (PagesRead' <=> PagesRead)
    BY <2>1 DEF Files, SvgName, PagesRead, rangeVars
  <2>3. Len(page') = Len(page) + 1 /\ Len(page) \in Nat
    BY <1>2, AppendToSeq DEF SentInv, SentTypeOK
  <2>4. before \in Nat /\ before <= Len(page) /\ current \in Nat /\ current <= Len(uploads) /\ Len(uploads) \in Nat
    BY <2>1 DEF SentInv, SentTypeOK, CountInv, IsSeq
  <2>5. answer = "none" /\ blockURL \in IF Len(page) = before THEN {0} ELSE {before + 1, PageURL}
    BY <2>1 DEF WholeInv
  <2>6. pc' = "create" => blockURL' \in IF Len(page') = before' THEN {0} ELSE {before' + 1, PageURL}
    BY <2>1, <2>3, <2>4, <2>5 DEF PageURL
  <2> QED BY <2>1, <2>2, <2>3, <2>4, <2>5, <2>6 DEF WholeInv, rangeVars
<1> QED BY <1>1, <1>2 DEF AttachFile

LEMMA DeliveredWhole == ASSUME SentInv, WholeInv, Delivered PROVE WholeInv'
<1>1. /\ UNCHANGED <<rangeVars, notebook, pageIDs, uploads, before, req, page, current, blockURL>>
      /\ pc = "create" /\ pc' = "idle" /\ answer' = "ok" /\ current > Len(uploads)
  BY DEF Delivered, Answer, notion
<1>2. Files' = Files /\ (PagesRead' <=> PagesRead)
  BY <1>1 DEF Files, SvgName, PagesRead, rangeVars
<1>3. /\ uploads # <<>> /\ Len(uploads) \in Nat \ {0} /\ current \in Nat /\ current <= Len(uploads) + 1
      /\ Len(page) - before = current - 1 /\ Len(page) \in Nat /\ before \in Nat
      /\ blockURL \in IF Len(page) = before THEN {0} ELSE {before + 1, PageURL}
  BY <1>1 DEF SentInv, SentTypeOK, CountInv, WholeInv, IsSeq
<1>4. current = Len(uploads) + 1 /\ Len(page) - before = Len(uploads) /\ blockURL \in {before + 1, PageURL}
  BY <1>1, <1>3
<1> QED BY <1>1, <1>2, <1>3, <1>4 DEF WholeInv, rangeVars

LEMMA WholeKept ==
    ASSUME SendInv, SelectsSome, SentInv, WholeInv, [SendNext]_sendVars
    PROVE  WholeInv'
<1>1. CASE CreateUpload \/ SendUpload
  BY <1>1, WholeStutter DEF CreateUpload, SendUpload, Refused, Fails, Answer
<1>2. CASE Idle \/ UNCHANGED sendVars
  BY <1>2, WholeStutter DEF Idle, sendVars, notion
<1> QED BY <1>1, <1>2, BeforeFilesWhole, RenderFilesWhole, AttachFileWhole, DeliveredWhole DEF SendNext

\* All of it together.
FinishedInv == SendInv /\ SelectsSome /\ SentInv /\ ContentInv /\ WholeInv

LEMMA FinishedInvHolds == SendSpec => []FinishedInv
<1>1. SendInit => FinishedInv
  <2>1. SendInit => SelectsSome /\ ContentInv /\ WholeInv
    BY DEF SendInit, RangeInit, SelectsSome, ContentInv, WholeInv
  <2> QED BY <2>1, SendInitInv, SentInitInv DEF FinishedInv
<1>2. FinishedInv /\ [SendNext]_sendVars => FinishedInv'
  BY SendStepInv, SelectsSomeKept, SentStepInv, ContentKept, WholeKept DEF FinishedInv
<1> QED BY <1>1, <1>2, PTL DEF SendSpec

\* The files of one send, by its pages.
LEMMA NamesOfFiles ==
    ASSUME FinishedInv, uploads # <<>>
    PROVE  NamesTellApart
<1>1. uploads = Files /\ pageIDs = DocumentPages(notebook) /\ pageCount = Len(pageIDs)
  BY DEF FinishedInv, WholeInv, PagesRead
<1>2. /\ indices \in Seq(Int) /\ DOMAIN indices = 1..Len(indices) /\ Len(indices) \in Nat
      /\ \A k \in DOMAIN indices : indices[k] \in 0..(pageCount - 1)
      /\ SelectsOnce
  BY DEF FinishedInv, SendInv, RangeInv, RangeTypeOK, WalkInv
<1>3. /\ pageIDs \in Seq(Pages) /\ DOMAIN pageIDs = 1..pageCount /\ pageCount \in Nat
      /\ \A k \in DOMAIN pageIDs : IsKthPage(pageIDs[k], k)
  BY <1>1, DocumentListsPages DEF FinishedInv, SendInv
<1>4. CASE req.format = "pdf"
  <2>1. \A f : Len(<<f>>) = 1 /\ DOMAIN <<f>> = {1}
    OBVIOUS
  <2>2. Len(uploads) = 1 /\ DOMAIN uploads = {1}
    BY <1>1, <1>4, <2>1 DEF Files
  <2> QED BY <2>2 DEF NamesTellApart
<1>5. CASE req.format # "pdf"
  <2>1. /\ DOMAIN uploads = DOMAIN indices
        /\ \A k \in DOMAIN indices : /\ uploads[k].name = SvgName(k)
                                     /\ uploads[k].pages = <<pageIDs[indices[k] + 1]>>
    BY <1>1, <1>5 DEF Files
  <2>2. Len(uploads) = Len(indices)
    <3>1. IsSeq(uploads)
      BY DEF FinishedInv, SentInv, SentTypeOK
    <3>2. DOMAIN uploads = 1..Len(uploads) /\ Len(uploads) \in Nat
      BY <3>1 DEF IsSeq
    <3>3. 1..Len(uploads) = 1..Len(indices)
      BY <1>2, <2>1, <3>2
    <3>4. Len(uploads) <= Len(indices) /\ Len(indices) <= Len(uploads)
      <4>1. Len(uploads) > 0 => Len(uploads) \in 1..Len(indices)
        BY <3>2, <3>3
      <4>2. Len(indices) > 0 => Len(indices) \in 1..Len(uploads)
        BY <1>2, <3>3
      <4> QED BY <1>2, <3>2, <4>1, <4>2
    <3>5. \A a, b \in Nat : a <= b /\ b <= a => a = b
      OBVIOUS
    <3>6. Len(indices) \in Nat
      BY <1>2
    <3> QED BY <3>2, <3>4, <3>5, <3>6
  <2>3. ASSUME NEW j \in DOMAIN uploads, NEW k \in DOMAIN uploads, uploads[j].name = uploads[k].name
        PROVE  j = k
    <3>1. CASE Len(indices) > 1
      <4>1. indices[j] + 1 = indices[k] + 1 /\ indices[j] \in Int /\ indices[k] \in Int
        BY <1>2, <2>1, <2>3, <3>1 DEF SvgName
      <4>2. indices[j] = indices[k]
        BY <4>1
      <4> QED BY <1>2, <2>1, <4>2 DEF SelectsOnce
    <3>2. CASE ~(Len(indices) > 1)
      BY <1>2, <2>1, <2>3, <3>2
    <3> QED BY <3>1, <3>2
  <2>4. ASSUME Len(uploads) > 1, NEW k \in DOMAIN uploads
        PROVE  IsKthPage(uploads[k].pages[1], uploads[k].name)
    <3> DEFINE n == indices[k] + 1
    <3>1. uploads[k].name = n /\ uploads[k].pages[1] = pageIDs[n]
      BY <2>1, <2>2, <2>4 DEF SvgName
    <3>2. n \in DOMAIN pageIDs
      BY <1>2, <1>3, <2>1
    <3> QED BY <1>3, <3>1, <3>2
  <2> QED BY <2>3, <2>4 DEF NamesTellApart
<1> QED BY <1>4, <1>5

\* Files of one send can be told apart by their names, whatever notebook and
\* range they come from, and the names number the pages as the notebook does
\* (bridge.go:419-424).
THEOREM FilesAreToldApart == SendSpec => []NamesTellApart
<1>1. FinishedInv => NamesTellApart
  <2> SUFFICES ASSUME FinishedInv PROVE NamesTellApart
    OBVIOUS
  <2>1. CASE uploads = <<>>
    <3>1. Len(<<>>) = 0 /\ DOMAIN <<>> = {}
      OBVIOUS
    <3> QED BY <2>1, <3>1 DEF NamesTellApart
  <2> QED BY <2>1, NamesOfFiles
<1> QED BY <1>1, FinishedInvHolds, PTL

\* The loop that joins what the new blocks show, up to block m.
JoinLoop(f, m) == f = [n \in 0..m |-> IF n <= before THEN <<>> ELSE f[n - 1] \o ShownBy(n)]

LEMMA JoinRuns ==
    ASSUME before \in Nat, NEW N \in Nat
    PROVE  \A m \in 0..N : \E f : JoinLoop(f, m)
<1> DEFINE T == {m \in 0..N : ~\E f : JoinLoop(f, m)}
<1> SUFFICES ASSUME T # {} PROVE FALSE
  OBVIOUS
<1>1. T \subseteq Nat
  OBVIOUS
<1> HIDE DEF T
<1>2. PICK m \in T : \A n \in T : m <= n
  BY <1>1, LeastNumber
<1> USE DEF T
<1>3. m # 0
  <2>1. JoinLoop([n \in 0..0 |-> <<>>], 0)
    BY DEF JoinLoop
  <2> QED BY <2>1
<1>4. m \in Nat /\ m - 1 \in 0..N /\ m - 1 \notin T
  BY <1>2, <1>3
<1>5. PICK f : JoinLoop(f, m - 1)
  BY <1>4
<1> DEFINE g == [n \in 0..m |-> IF n < m THEN f[n]
                                ELSE IF m <= before THEN <<>> ELSE f[m - 1] \o ShownBy(m)]
<1>6. JoinLoop(g, m)
  <2> HIDE DEF T
  <2>1. m \in Nat \ {0}
    BY <1>3, <1>4
  <2>2. \A n \in 0..(m - 1) : g[n] = f[n]
    BY <2>1
  <2>3. \A n \in 0..(m - 1) : f[n] = IF n <= before THEN <<>> ELSE f[n - 1] \o ShownBy(n)
    BY <1>5 DEF JoinLoop
  <2>4. ASSUME NEW n \in 0..m
        PROVE  g[n] = IF n <= before THEN <<>> ELSE g[n - 1] \o ShownBy(n)
    <3>1. CASE n = m
      <4>1. g[n - 1] = f[m - 1]
        BY <3>1, <2>1, <2>2
      <4> QED BY <3>1, <4>1
    <3>2. CASE n < m /\ ~(n <= before)
      <4>1. g[n] = f[n] /\ g[n - 1] = f[n - 1]
        BY <3>2, <2>1, <2>2
      <4>2. f[n] = f[n - 1] \o ShownBy(n)
        <5>1. n \in 0..(m - 1)
          BY <2>1, <3>2
        <5>2. f[n] = IF n <= before THEN <<>> ELSE f[n - 1] \o ShownBy(n)
          BY <2>3, <5>1
        <5> QED BY <3>2, <5>2
      <4> QED BY <3>2, <4>1, <4>2
    <3>3. CASE n < m /\ n <= before
      <4>1. g[n] = f[n] /\ f[n] = <<>>
        BY <3>3, <2>1, <2>2, <2>3
      <4> QED BY <3>3, <4>1
    <3> QED BY <3>1, <3>2, <3>3, <2>1
  <2>5. g = [n \in 0..m |-> g[n]]
    OBVIOUS
  <2> HIDE DEF g
  <2> QED BY <2>4, <2>5 DEF JoinLoop
<1> QED BY <1>6

\* PagesUpTo is that loop.
LEMMA PagesUpToLoops ==
    ASSUME before \in Nat, Len(page) \in Nat
    PROVE  \A n \in 0..Len(page) :
              PagesUpTo[n] = IF n <= before THEN <<>> ELSE PagesUpTo[n - 1] \o ShownBy(n)
<1>1. \E f : JoinLoop(f, Len(page))
  BY JoinRuns
<1>2. JoinLoop(PagesUpTo, Len(page))
  BY <1>1 DEF JoinLoop, PagesUpTo
<1>3. PICK f \in {PagesUpTo} : f = PagesUpTo
  OBVIOUS
<1>4. \A n \in 0..Len(page) : f[n] = IF n <= before THEN <<>> ELSE f[n - 1] \o ShownBy(n)
  <2>1. JoinLoop(f, Len(page))
    BY <1>2, <1>3
  <2> QED BY <2>1 DEF JoinLoop
<1> QED BY <1>3, <1>4

\* What a new block shows is the file it stands for.
LEMMA BlocksShowFiles ==
    ASSUME FinishedInv, uploads # <<>>, NEW i \in NewBlocks
    PROVE  ShownBy(i) = uploads[i - before].pages
<1>1. Shows(i, uploads[i - before])
  BY DEF FinishedInv, SentInv, ShownInv, NewBlocks
<1>2. PICK c \in DOMAIN content : content[c].upload = page[i].upload /\ content[c].pages = uploads[i - before].pages
  BY <1>1 DEF Shows
<1>3. \A e \in DOMAIN content : content[e].upload = page[i].upload => e = c
  BY <1>2 DEF FinishedInv, ContentInv
<1>4. (CHOOSE e \in DOMAIN content : content[e].upload = page[i].upload) = c
  BY <1>2, <1>3
<1> QED BY <1>2, <1>4 DEF ShownBy

\* The selected pages, joined up to the m-th.
JoinsSelected(s, m) ==
    /\ s \in Seq(Pages) /\ Len(s) = m
    /\ \A k \in 1..m : s[k] = pageIDs[indices[k] + 1]

\* Where every page is a file, the blocks join to what was selected.
LEMMA ImagesJoin ==
    ASSUME FinishedInv, uploads # <<>>, req.format # "pdf", Len(page) - before = Len(uploads),
           NEW pages, pages = PagesUpTo[Len(page)]
    PROVE  JoinsSelected(pages, Len(indices))
<1>0. /\ before \in Nat /\ Len(page) \in Nat
      /\ uploads = Files
      /\ indices \in Seq(Int) /\ DOMAIN indices = 1..Len(indices) /\ Len(indices) \in Nat
      /\ IsSeq(uploads)
  BY DEF FinishedInv, WholeInv, SentInv, SentTypeOK, IsSeq, SendInv, RangeInv, RangeTypeOK
<1>1. /\ DOMAIN uploads = DOMAIN indices
      /\ \A k \in DOMAIN indices : uploads[k].pages = <<pageIDs[indices[k] + 1]>>
  BY <1>0 DEF Files
<1>2. Len(uploads) = Len(indices)
  <2>2. DOMAIN uploads = 1..Len(uploads) /\ Len(uploads) \in Nat
    BY <1>0 DEF IsSeq
  <2>3. 1..Len(uploads) = 1..Len(indices)
    BY <1>0, <1>1, <2>2
  <2>4. Len(uploads) > 0 => Len(uploads) \in 1..Len(indices)
    BY <2>2, <2>3
  <2>5. Len(indices) > 0 => Len(indices) \in 1..Len(uploads)
    BY <1>0, <2>3
  <2>6. \A a, b \in Nat : (a > 0 => a \in 1..b) /\ (b > 0 => b \in 1..a) => a = b
    OBVIOUS
  <2> QED BY <1>0, <2>2, <2>4, <2>5, <2>6
<1>3. \A k \in DOMAIN indices : pageIDs[indices[k] + 1] \in Pages
  <2>1. pageIDs \in Seq(Pages) /\ pageCount = Len(pageIDs)
    BY DocumentListsPages DEF FinishedInv, SendInv, WholeInv, PagesRead
  <2>2. \A k \in DOMAIN indices : indices[k] + 1 \in DOMAIN pageIDs
    BY <1>0, <2>1 DEF FinishedInv, SendInv, RangeInv, WalkInv
  <2> QED BY <2>1, <2>2
<1> DEFINE T == {m \in 0..Len(indices) : ~JoinsSelected(PagesUpTo[before + m], m)}
<1>4. T = {}
  <2> SUFFICES ASSUME T # {} PROVE FALSE
    OBVIOUS
  <2>1. T \subseteq Nat
    OBVIOUS
  <2> HIDE DEF T
  <2>2. PICK m \in T : \A n \in T : m <= n
    BY <2>1, LeastNumber
  <2>3. m \in 0..Len(indices) /\ ~JoinsSelected(PagesUpTo[before + m], m)
    BY <2>2 DEF T
  <2>4. before + m \in 0..Len(page)
    BY <1>0, <1>2, <2>3
  <2>5. CASE m = 0
    <3>1. PagesUpTo[before + m] = <<>>
      BY <1>0, <2>4, <2>5, PagesUpToLoops
    <3>2. JoinsSelected(<<>>, 0)
      BY DEF JoinsSelected
    <3> QED BY <2>3, <2>5, <3>1, <3>2
  <2>6. CASE m # 0
    <3>1. JoinsSelected(PagesUpTo[before + (m - 1)], m - 1)
      BY <2>2, <2>3, <2>6 DEF T
    <3>2. before + m \in NewBlocks /\ (before + m) - before = m /\ m \in DOMAIN indices
      BY <1>0, <1>2, <2>3, <2>4, <2>6 DEF NewBlocks
    <3>3. ShownBy(before + m) = <<pageIDs[indices[m] + 1]>>
      BY <1>1, <3>2, BlocksShowFiles
    <3>4. PagesUpTo[before + m] = PagesUpTo[before + (m - 1)] \o <<pageIDs[indices[m] + 1]>>
      <4>1. ~(before + m <= before) /\ (before + m) - 1 = before + (m - 1)
        BY <1>0, <2>3, <2>6
      <4> QED BY <1>0, <2>4, <3>3, <4>1, PagesUpToLoops
    <3>5. PICK old, new : old = PagesUpTo[before + (m - 1)] /\ new = PagesUpTo[before + m]
      OBVIOUS
    <3>6. PICK x \in Pages : x = pageIDs[indices[m] + 1]
      BY <1>3, <3>2
    <3>7. new = old \o <<x>> /\ JoinsSelected(old, m - 1)
      BY <3>1, <3>4, <3>5, <3>6
    <3>8. /\ new \in Seq(Pages) /\ Len(new) = m /\ new[m] = x
          /\ \A k \in 1..(m - 1) : new[k] = old[k]
      BY <2>3, <2>6, <3>7 DEF JoinsSelected
    <3>9. JoinsSelected(new, m)
      BY <2>3, <2>6, <3>6, <3>7, <3>8 DEF JoinsSelected
    <3> QED BY <2>3, <3>5, <3>9
  <2> QED BY <2>5, <2>6
<1>5. JoinsSelected(PagesUpTo[before + Len(indices)], Len(indices))
  <2>1. Len(indices) \in 0..Len(indices)
    BY <1>0
  <2> QED BY <1>4, <2>1
<1>6. before + Len(indices) = Len(page)
  <2>1. Len(indices) \in Nat /\ before \in Nat /\ Len(page) \in Nat /\ Len(page) - before = Len(indices)
    BY <1>0, <1>2
  <2> QED BY <2>1
<1> QED BY <1>5, <1>6

\* One document is one block, with the selected pages in it.
LEMMA DocumentJoins ==
    ASSUME FinishedInv, uploads # <<>>, req.format = "pdf", Len(page) - before = Len(uploads),
           NEW pages, pages = PagesUpTo[Len(page)]
    PROVE  JoinsSelected(pages, Len(indices))
<1> DEFINE file == [k \in DOMAIN indices |-> pageIDs[indices[k] + 1]]
<1>1. /\ before \in Nat /\ Len(page) \in Nat
      /\ uploads = Files
      /\ indices \in Seq(Int) /\ DOMAIN indices = 1..Len(indices) /\ Len(indices) \in Nat
  BY DEF FinishedInv, WholeInv, SentInv, SentTypeOK, IsSeq, SendInv, RangeInv, RangeTypeOK
<1>2. Len(uploads) = 1 /\ uploads[1].pages = file
  <2>1. uploads = <<[name |-> 0, type |-> "pdf", pages |-> file]>>
    BY <1>1 DEF Files
  <2> HIDE DEF file
  <2> QED BY <2>1
<1>3. \A k \in DOMAIN indices : pageIDs[indices[k] + 1] \in Pages
  <2>1. pageIDs \in Seq(Pages) /\ pageCount = Len(pageIDs)
    BY DocumentListsPages DEF FinishedInv, SendInv, WholeInv, PagesRead
  <2>2. \A k \in DOMAIN indices : indices[k] + 1 \in DOMAIN pageIDs
    BY <1>1, <2>1 DEF FinishedInv, SendInv, RangeInv, WalkInv
  <2> QED BY <2>1, <2>2
<1>4. JoinsSelected(file, Len(indices))
  <2>1. file \in [1..Len(indices) -> Pages]
    BY <1>1, <1>3
  <2>2. file \in Seq(Pages) /\ Len(file) = Len(indices)
    <3> HIDE DEF file
    <3> QED BY <1>1, <2>1
  <2>3. \A k \in 1..Len(indices) : file[k] = pageIDs[indices[k] + 1]
    BY <1>1
  <2> HIDE DEF file
  <2> QED BY <2>2, <2>3 DEF JoinsSelected
<1> HIDE DEF file
<1>5. Len(page) = before + 1 /\ Len(page) \in NewBlocks /\ Len(page) - before = 1
  BY <1>1, <1>2 DEF NewBlocks
<1>6. ShownBy(Len(page)) = file
  BY <1>2, <1>5, BlocksShowFiles
<1>7. PagesUpTo[Len(page)] = PagesUpTo[Len(page) - 1] \o file
  <2>1. ~(Len(page) <= before) /\ Len(page) \in 0..Len(page)
    BY <1>1, <1>5
  <2> QED BY <1>1, <1>6, <2>1, PagesUpToLoops
<1>8. PagesUpTo[Len(page) - 1] = <<>>
  <2>1. Len(page) - 1 \in 0..Len(page) /\ Len(page) - 1 <= before
    BY <1>1, <1>5
  <2> QED BY <1>1, <2>1, PagesUpToLoops
<1>9. pages = <<>> \o file
  BY <1>7, <1>8
<1>10. file \in Seq(Pages)
  BY <1>4 DEF JoinsSelected
<1>11. pages = file
  BY <1>9, <1>10
<1> QED BY <1>4, <1>11

\* A send that reports success has put every selected page there, in the order
\* selected, and its link leads to the first new block, for every notebook,
\* every range, and whatever sends before it left (bridge.go:371).
THEOREM SuccessPutsAllThere == SendSpec => []SuccessIsWhole
<1>1. FinishedInv => SuccessIsWhole
  <2> SUFFICES ASSUME FinishedInv, answer = "ok" PROVE SuccessIsWhole
    BY DEF SuccessIsWhole
  <2>1. /\ uploads # <<>> /\ Len(page) - before = Len(uploads) /\ blockURL \in {before + 1, PageURL}
        /\ PagesRead /\ before \in Nat /\ Len(page) \in Nat /\ IsSeq(uploads)
    BY DEF FinishedInv, WholeInv, SentInv, SentTypeOK, IsSeq
  <2>2. PICK pages : pages = PagesUpTo[Len(page)]
    OBVIOUS
  <2>3. JoinsSelected(pages, Len(indices))
    BY <2>1, <2>2, ImagesJoin, DocumentJoins
  <2>4. /\ indices \in Seq(Int) /\ DOMAIN indices = 1..Len(indices)
        /\ \A k \in DOMAIN indices : indices[k] \in 0..(pageCount - 1)
    BY DEF FinishedInv, SendInv, RangeInv, RangeTypeOK, WalkInv
  <2>5. \A k \in DOMAIN indices : IsKthPage(pages[k], indices[k] + 1)
    <3>1. /\ pageIDs \in Seq(Pages) /\ pageCount = Len(pageIDs)
          /\ \A n \in DOMAIN pageIDs : IsKthPage(pageIDs[n], n)
      BY <2>1, DocumentListsPages DEF FinishedInv, SendInv, PagesRead
    <3>2. \A k \in DOMAIN indices : indices[k] + 1 \in DOMAIN pageIDs
      BY <2>4, <3>1
    <3> QED BY <2>3, <2>4, <3>1, <3>2 DEF JoinsSelected
  <2>6. Len(uploads) \in Nat \ {0}
    BY <2>1 DEF IsSeq
  <2>7. before + 1 \in NewBlocks
    BY <2>1, <2>6 DEF NewBlocks
  <2>8. Len(pages) = Len(indices)
    BY <2>3 DEF JoinsSelected
  <2> QED BY <2>1, <2>2, <2>5, <2>7, <2>8 DEF SuccessIsWhole
<1> QED BY <1>1, FinishedInvHolds, PTL

=============================================================================
