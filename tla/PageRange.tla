----------------------------- MODULE PageRange ------------------------------
(***************************************************************************)
(* ParsePageRange (xochitl.go): a page range such as "1,4-5", as a walk    *)
(* over its parts.  A part is what is between two commas: a pair of        *)
(* numbers, which are the same for a single page, or Malformed.  The empty *)
(* expression has no parts.                                                *)
(***************************************************************************)
EXTENDS Integers, Sequences

CONSTANTS
    Numbers,    \* numbers a user may write
    Malformed   \* a part that is no number and no pair of them

ASSUME RangeAssumption ==
    /\ Numbers \subseteq Int
    /\ Malformed \notin [lo : Numbers, hi : Numbers]

VARIABLES
    range,      \* the parts of the expression
    pageCount,  \* the pages of the notebook
    at,         \* the part the walk is at
    next,       \* the page of that part it is at
    indices,    \* the indices collected
    rangePc     \* "none", "parts", "pages", "resolved" or "refused"

rangeVars == <<range, pageCount, at, next, indices, rangePc>>

Part == [lo : Numbers, hi : Numbers]

RangeTypeOK ==
    /\ range \in Seq(Part \cup {Malformed})
    /\ pageCount \in Nat /\ at \in Nat \ {0} /\ next \in Int
    /\ indices \in Seq(Int)
    /\ rangePc \in {"none", "parts", "pages", "resolved", "refused"}

RangeInit ==
    /\ range = <<>> /\ pageCount = 0 /\ at = 1 /\ next = 0 /\ indices = <<>>
    /\ rangePc = "none"

\* A blank expression means every page.
StartRange(expr, n) ==
    /\ range' = expr /\ pageCount' = n
    /\ at' = 1 /\ next' = 0
    /\ indices' = IF expr = <<>> THEN [i \in 1..n |-> i - 1] ELSE <<>>
    /\ rangePc' = IF expr = <<>> THEN "resolved" ELSE "parts"

\* Mutated form: the last page of a part is not compared.
FitsAtFront(part) == /\ part # Malformed
                     /\ part.lo >= 1 /\ part.lo <= pageCount /\ part.lo <= part.hi

Fits(part) == /\ part # Malformed
              /\ part.lo >= 1 /\ part.hi <= pageCount /\ part.lo <= part.hi

NextPart ==
    /\ rangePc = "parts"
    /\ \/ /\ at > Len(range)
          /\ rangePc' = "resolved" /\ UNCHANGED next
       \/ /\ at <= Len(range) /\ Fits(range[at])
          /\ rangePc' = "pages" /\ next' = range[at].lo
       \/ /\ at <= Len(range) /\ ~Fits(range[at])
          /\ rangePc' = "refused" /\ UNCHANGED next
    /\ UNCHANGED <<range, pageCount, at, indices>>

\* Mutated form: only a page like the one before it counts as seen.
SeenJustNow(i) == indices # <<>> /\ indices[Len(indices)] = i

Seen(i) == \E k \in DOMAIN indices : indices[k] = i

NextPage ==
    /\ rangePc = "pages"
    /\ \/ /\ next <= range[at].hi
          /\ indices' = IF Seen(next - 1) THEN indices ELSE Append(indices, next - 1)
          /\ next' = next + 1
          /\ UNCHANGED <<at, rangePc>>
       \/ /\ next > range[at].hi
          /\ at' = at + 1 /\ rangePc' = "parts"
          /\ UNCHANGED <<next, indices>>
    /\ UNCHANGED <<range, pageCount>>

RangeStep == NextPart \/ NextPage

-----------------------------------------------------------------------------
(* What an expression denotes. *)

Mentions(k, i) == range[k] # Malformed /\ range[k].lo <= i + 1 /\ i + 1 <= range[k].hi

\* A range that is accepted selects the pages it names, all of the notebook,
\* whatever the overlaps (xochitl.go:120-132).
SelectsWhatItNames ==
    rangePc = "resolved" =>
        /\ \A k \in DOMAIN indices : indices[k] \in 0..(pageCount - 1)
        /\ \A i \in 0..(pageCount - 1) :
              (\E k \in DOMAIN indices : indices[k] = i)
                  <=> (range = <<>> \/ \E k \in DOMAIN range : Mentions(k, i))

\* No page is selected twice (xochitl.go:124-128).
SelectsOnce == \A j, k \in DOMAIN indices : indices[j] = indices[k] => j = k

\* Pages come in the order they are first named: by part, then by number
\* (xochitl.go:110-129).
InOrderNamed ==
    \A j, k \in DOMAIN indices : j < k /\ range # <<>> =>
        \E p \in DOMAIN range :
            /\ Mentions(p, indices[j])
            /\ \A q \in DOMAIN range :
                  Mentions(q, indices[k]) => p < q \/ (p = q /\ indices[j] < indices[k])

=============================================================================
