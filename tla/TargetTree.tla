----------------------------- MODULE TargetTree -----------------------------
(***************************************************************************)
(* The page picker of one account: Search and ChildPageOrder of the Notion *)
(* client (client.go) and arrangePages (bridge.go).                        *)
(*                                                                         *)
(* Notion is external.  A search lists what is shared, last edited first,  *)
(* and its cursor is the entry the next call starts with; pages may be     *)
(* edited between two calls.  A title is its place in the alphabet.        *)
(***************************************************************************)
EXTENDS Integers, Sequences, FiniteSets

CONSTANTS
    Ids,        \* what is shared: pages and, where a search lists them, others
    Databases,  \* the entries that are no pages
    Outside,    \* the parent of a page under no page
    Shared,     \* the order a search starts from: last edited first
    TitleOf,    \* TitleOf[id]: the lower-case title
    PageSize,   \* searchPageSize: 100 in the code
    Limit,      \* DefaultSearchLimit: 300
    MaxDepth,   \* the depth walk stops at: 8
    MaxEdits    \* bound on the edits during a search

ASSUME TreeAssumption ==
    /\ IsFiniteSet(Ids) /\ Databases \subseteq Ids /\ Outside \notin Ids
    /\ Shared \in Seq(Ids) /\ \A i, j \in DOMAIN Shared : Shared[i] = Shared[j] => i = j
    /\ TitleOf \in [Ids -> Nat]
    /\ {PageSize, Limit} \subseteq Nat \ {0} /\ {MaxDepth, MaxEdits} \subseteq Nat

VARIABLES
    shared,    \* Notion: the entries, last edited first
    parentOf,  \* Notion: the page an entry is under
    pc,        \* "search", "arrange", "done" or "failed"
    cursor,    \* the entry to go on with, or Outside
    found,     \* the pages Search collects
    order,     \* order[p]: what ChildPageOrder said, for the parents it was asked
    out,       \* the rows of the picker: an id and a depth
    edited     \* history: entries edited since the search began

treeVars == <<shared, parentOf, pc, cursor, found, order, out, edited>>

Elements(s) == {s[i] : i \in DOMAIN s}
Smaller(a, b) == IF a < b THEN a ELSE b

\* The entries of s that S has, in their order: the loops of collectPages and
\* arrangePages.
OnlyIn(s, S) ==
    LET upto[n \in 0..Len(s)] ==
            IF n = 0 THEN <<>>
            ELSE IF s[n] \in S THEN Append(upto[n - 1], s[n]) ELSE upto[n - 1]
    IN  upto[Len(s)]

\* What f makes of the entries of s, one after the other.
Joined(s, f) ==
    LET upto[n \in 0..Len(s)] == IF n = 0 THEN <<>> ELSE upto[n - 1] \o f[s[n]]
    IN  upto[Len(s)]

PagesOf(s) == OnlyIn(s, Ids \ Databases)

TreeTypeOK ==
    /\ {shared, found} \subseteq Seq(Ids)
    /\ parentOf \in [Ids -> Ids \cup {Outside}]
    /\ pc \in {"search", "arrange", "done", "failed"}
    /\ cursor \in Ids \cup {Outside} /\ edited \subseteq Ids
    /\ DOMAIN order \subseteq Ids /\ \A p \in DOMAIN order : order[p] \in Seq(Ids)
    /\ out \in Seq([id : Ids, depth : 0..MaxDepth])

TreeInit ==
    /\ shared = Shared
    /\ parentOf \in [Ids -> (Ids \ Databases) \cup {Outside}]
    /\ \A id \in Ids : parentOf[id] # id /\ (id \in Databases => parentOf[id] = Outside)
    /\ pc = "search" /\ cursor = Outside /\ found = <<>>
    /\ order = [p \in {} |-> <<>>] /\ out = <<>> /\ edited = {}

\* Somebody edits a page.
Edit(id) ==
    /\ pc = "search" /\ Cardinality(edited) < MaxEdits
    /\ shared' = <<id>> \o OnlyIn(shared, Ids \ {id})
    /\ edited' = edited \cup {id}
    /\ UNCHANGED <<parentOf, pc, cursor, found, order, out>>

-----------------------------------------------------------------------------
(* Search.                                                                 *)

\* Mutated form: each call asks for a full page.
AskAlways == PageSize

Ask == Smaller(Limit - Len(found), PageSize)

From == IF cursor = Outside THEN 1 ELSE CHOOSE i \in DOMAIN shared : shared[i] = cursor

\* One call.  Notion may answer with fewer entries than it was asked for.
SearchCall ==
    /\ pc = "search" /\ Len(found) < Limit
    /\ \E n \in 1..Ask :
          LET last == Smaller(From + n - 1, Len(shared))
              more == last < Len(shared)
          IN  /\ found' = found \o PagesOf(SubSeq(shared, From, last))
              /\ cursor' = IF more THEN shared[last + 1] ELSE Outside
              /\ pc' = IF more THEN "search" ELSE "arrange"
    /\ UNCHANGED <<shared, parentOf, order, out, edited>>

SearchFull ==
    /\ pc = "search" /\ Len(found) >= Limit
    /\ pc' = "arrange"
    /\ UNCHANGED <<shared, parentOf, cursor, found, order, out, edited>>

SearchFails ==
    /\ pc = "search" /\ pc' = "failed"
    /\ UNCHANGED <<shared, parentOf, cursor, found, order, out, edited>>

-----------------------------------------------------------------------------
(* arrangePages.                                                           *)

\* sort.SliceStable: equal keys stay in their order.
StableSort(s, key) ==
    LET Rank(i) == Cardinality({j \in DOMAIN s : key[s[j]] < key[s[i]]
                                                 \/ (key[s[j]] = key[s[i]] /\ j <= i)})
    IN  [r \in DOMAIN s |-> s[CHOOSE i \in DOMAIN s : Rank(i) = r]]

ByTitle(s) == StableSort(s, TitleOf)

\* Mutated form: a page is a root only if it is under nothing at all.
HasParentAnywhere(id) == parentOf[id] # Outside

HasParent(id) == parentOf[id] \in Elements(found)

Roots == ByTitle(OnlyIn(found, {id \in Ids : ~HasParent(id)}))
KidsByTitle(p) == ByTitle(OnlyIn(found, {id \in Ids : HasParent(id) /\ parentOf[id] = p}))
Parents == {p \in Elements(found) : KidsByTitle(p) # <<>>}

\* Mutated form: a page ChildPageOrder does not list comes first.
PlaceFirst(p, id) ==
    IF \E i \in DOMAIN order[p] : order[p][i] = id THEN CHOOSE i \in DOMAIN order[p] : order[p][i] = id
    ELSE 0

\* Pages that were found on the parent come first, in the order they have there.
Place(p, id) ==
    IF \E i \in DOMAIN order[p] : order[p][i] = id THEN CHOOSE i \in DOMAIN order[p] : order[p][i] = id
    ELSE Len(order[p]) + 1

Kids(p) ==
    IF p \in DOMAIN order THEN StableSort(KidsByTitle(p), [id \in Ids |-> Place(p, id)])
    ELSE KidsByTitle(p)

\* What Notion may say of the children of a page: some of them, in its order.
ChildOrders(p) ==
    LET kids == {id \in Ids : parentOf[id] = p}
    IN  UNION {{s \in [1..n -> kids] : \A i, j \in 1..n : s[i] = s[j] => i = j}
               : n \in 0..Cardinality(kids)}

\* The parents are asked one by one, in any order; a failed call leaves its
\* parent to the order by title.
ChildPageOrder ==
    /\ pc = "arrange"
    /\ \E p \in Parents \ DOMAIN order : \E s \in ChildOrders(p) :
          order' = [q \in DOMAIN order \cup {p} |-> IF q = p THEN s ELSE order[q]]
    /\ UNCHANGED <<shared, parentOf, pc, cursor, found, out, edited>>

\* walk: the rows of a page that has `left` levels more to go.
Rows[left \in 0..MaxDepth] ==
    [id \in Ids |-> <<[id |-> id, depth |-> MaxDepth - left]>>
                      \o (IF left = 0 THEN <<>> ELSE Joined(Kids(id), Rows[left - 1]))]

Arrange ==
    /\ pc = "arrange" /\ pc' = "done"
    /\ out' = Joined(Roots, Rows[MaxDepth])
    /\ UNCHANGED <<shared, parentOf, cursor, found, order, edited>>

Shown == pc \in {"done", "failed"} /\ UNCHANGED treeVars

TreeNext ==
    \/ \E id \in Ids : Edit(id)
    \/ SearchCall \/ SearchFull \/ SearchFails \/ ChildPageOrder \/ Arrange \/ Shown

TreeSpec == TreeInit /\ [][TreeNext]_treeVars

-----------------------------------------------------------------------------
(* Properties.                                                             *)

Searched == pc \in {"arrange", "done"}
Distinct(s) == \A i, j \in DOMAIN s : s[i] = s[j] => i = j

\* Search gathers what is shared up to the limit, never more, whatever the
\* sizes of the answers; and a page that nobody edits meanwhile is not missed
\* in between two calls (client.go:177-203).
SearchMissesNothing ==
    /\ Len(found) <= Limit
    /\ Searched /\ edited = {} => found = SubSeq(PagesOf(shared), 1, Smaller(Limit, Len(PagesOf(shared))))
    /\ Searched /\ Len(found) < Limit => Elements(shared) \ (edited \cup Databases) \subseteq Elements(found)

\* The page so many levels above a page, if the search found it.
Ancestor[n \in 0..MaxDepth] ==
    [id \in Ids |-> IF n = 0 THEN id
                    ELSE IF Ancestor[n - 1][id] \in Ids /\ HasParent(Ancestor[n - 1][id])
                         THEN parentOf[Ancestor[n - 1][id]] ELSE Outside]

\* The levels at which a page without a parent is above it: one, or none when it
\* is nested deeper than MaxDepth or in a cycle of parents.
DepthsOf(id) == {n \in 0..MaxDepth : Ancestor[n][id] \in Ids /\ ~HasParent(Ancestor[n][id])}

\* Every page the search found is in the picker exactly once, at the depth it
\* has in Notion, unless it is nested deeper than MaxDepth or in a cycle of
\* parents; only a page edited during the search may come twice
\* (bridge.go:301-316).
EveryPageOnce ==
    pc = "done" /\ Distinct(found) =>
        \A id \in Elements(found) :
            LET rows == {k \in DOMAIN out : out[k].id = id}
            IN  IF DepthsOf(id) = {} THEN rows = {}
                ELSE \E k \in rows : rows = {k} /\ DepthsOf(id) = {out[k].depth}

\* The row a row stands under: the last one before it that is less deep.
Above(k) == {j \in 1..(k - 1) : out[j].depth < out[k].depth /\ \A i \in (j + 1)..(k - 1) : out[i].depth >= out[k].depth}

\* A row is indented under its own parent, one step deeper, and siblings come in
\* the order of the parent's page, what that does not list behind it, and by
\* title where the call failed (bridge.go:268-293).
RowsNestInOrder ==
    pc = "done" => \A k \in DOMAIN out :
        /\ out[k].depth = 0 <=> ~HasParent(out[k].id)
        /\ out[k].depth > 0 => \E j \in Above(k) :
              out[j].id = parentOf[out[k].id] /\ out[j].depth = out[k].depth - 1
        /\ \A j \in 1..(k - 1) :
              Above(j) = Above(k) /\ out[j].depth = out[k].depth =>
                  LET a == out[j].id
                      b == out[k].id
                      listed == IF parentOf[b] \in DOMAIN order THEN order[parentOf[b]] ELSE <<>>
                      At(id) == {i \in DOMAIN listed : listed[i] = id}
                  IN  \/ At(a) # {} /\ At(b) = {}
                      \/ \E i \in At(a), l \in At(b) : i <= l
                      \/ At(a) = {} /\ At(b) = {} /\ TitleOf[a] <= TitleOf[b]

=============================================================================
