-------------------------- MODULE AccountStoreProofs --------------------------
(***************************************************************************)
(* Proofs about the account store, for all sets of identifiers, tokens and *)
(* workspace names, for one process: two processes with one directory lose *)
(* accounts, as does a list that is there but cannot be read, so both are  *)
(* hypotheses of the theorems and not of the model.                        *)
(***************************************************************************)
EXTENDS AccountStore, WellFoundedInduction, TLAPS

-----------------------------------------------------------------------------
(* Numbers and lists *)

\* Every set of numbers that is not empty has a least one: what First picks,
\* and what the proofs about loops rest on.
LEMMA LeastNumber ==
    ASSUME NEW T, T \subseteq Nat, T # {}
    PROVE  \E x \in T : \A y \in T : x <= y
<1> DEFINE R == OpToRel(<, Nat)
<1>1. IsWellFoundedOn(R, Nat)
  BY NatLessThanWellFounded
<1>2. \A x, y \in Nat : <<x, y>> \in R <=> x < y
  BY DEF OpToRel
<1> HIDE DEF R
<1>3. PICK x \in T : \A y \in T : ~(<<y, x>> \in R)
  BY <1>1, WFMin
<1>4. ASSUME NEW y \in T PROVE x <= y
  <2>1. x \in Nat /\ y \in Nat
    OBVIOUS
  <2>2. ~(y < x)
    BY <1>2, <1>3, <2>1
  <2> QED BY <2>1, <2>2
<1> QED BY <1>4

\* First picks the least of a set of indexes that is not empty.
LEMMA FirstPicks ==
    ASSUME NEW T, T \subseteq Nat, T # {}
    PROVE  First(T) \in T
BY LeastNumber DEF First

\* No identifier is listed twice.
Distinct(list) == \A i, j \in DOMAIN list : list[i].id = list[j].id => i = j

\* The records of a list.
RecordsOf(list) == {list[i] : i \in DOMAIN list}

\* A list without repetitions says of every record what AccountsOf says.
LEMMA EveryRecordCounts ==
    ASSUME NEW list \in Seq(Record), Distinct(list), NEW r \in RecordsOf(list)
    PROVE  /\ r.id \in IdsIn(list)
           /\ AccountsOf(list)[r.id] = Entry(r.workspace, r.token)
<1>1. PICK i \in DOMAIN list : r = list[i]
  BY DEF RecordsOf
<1>2. At(list, r.id) \subseteq Nat /\ i \in At(list, r.id)
  BY <1>1 DEF At
<1>3. First(At(list, r.id)) = i
  BY <1>1, <1>2, FirstPicks DEF At, Distinct
<1>4. r.id \in IdsIn(list)
  BY <1>1 DEF IdsIn
<1> QED BY <1>1, <1>3, <1>4 DEF AccountsOf

\* A map is what a list stands for when they agree on every record.
LEMMA SameAccounts ==
    ASSUME NEW list \in Seq(Record), Distinct(list), NEW m,
           m = [id \in IdsIn(list) |-> m[id]],
           \A r \in RecordsOf(list) : m[r.id] = Entry(r.workspace, r.token)
    PROVE  AccountsOf(list) = m
<1>1. ASSUME NEW id \in IdsIn(list) PROVE AccountsOf(list)[id] = m[id]
  <2>1. PICK i \in DOMAIN list : list[i].id = id
    BY DEF IdsIn
  <2>2. list[i] \in RecordsOf(list)
    BY <2>1 DEF RecordsOf
  <2> QED BY <2>1, <2>2, EveryRecordCounts
<1>2. AccountsOf(list) = [id \in IdsIn(list) |-> AccountsOf(list)[id]]
  BY DEF AccountsOf
<1> HIDE DEF AccountsOf
<1> QED BY <1>1, <1>2

\* No list, no accounts.
LEMMA NoAccounts == IdsIn(<<>>) = {} /\ Distinct(<<>>) /\ AccountsOf(<<>>) = EmptyMap
BY DEF IdsIn, Distinct, AccountsOf, EmptyMap

\* AddAccount on a workspace that is listed: a new token, nothing else.
LEMMA RefreshedList ==
    ASSUME NEW list \in Seq(Record), Distinct(list), NEW i \in DOMAIN list, NEW t \in Tokens
    PROVE  LET new == Refreshed(list, i, t)
           IN  /\ new \in Seq(Record) \ {<<>>} /\ Distinct(new) /\ IdsIn(new) = IdsIn(list)
               /\ AccountsOf(new) = Put(AccountsOf(list), list[i].id, Entry(list[i].workspace, t))
<1> DEFINE new == Refreshed(list, i, t)
           m == Put(AccountsOf(list), list[i].id, Entry(list[i].workspace, t))
<1>1. /\ new \in Seq(Record) \ {<<>>} /\ DOMAIN new = DOMAIN list
      /\ \A j \in DOMAIN list : new[j] = IF j = i THEN RecordOf(list[i].id, list[i].workspace, t) ELSE list[j]
  <2>1. RecordOf(list[i].id, list[i].workspace, t) \in Record
    <3>1. list[i] \in Record
      OBVIOUS
    <3> QED BY <3>1 DEF RecordOf, Record
  <2>2. new = [list EXCEPT ![i] = RecordOf(list[i].id, list[i].workspace, t)]
    BY DEF Refreshed
  <2> HIDE DEF new
  <2> QED BY <2>1, <2>2
<1>2. \A j \in DOMAIN list : new[j].id = list[j].id
  BY <1>1 DEF RecordOf
<1>3. Distinct(new) /\ IdsIn(new) = IdsIn(list)
  BY <1>1, <1>2 DEF Distinct, IdsIn
<1>4. ASSUME NEW r \in RecordsOf(new) PROVE m[r.id] = Entry(r.workspace, r.token)
  <2>1. PICK j \in DOMAIN list : r = new[j]
    BY <1>1 DEF RecordsOf
  <2>2. CASE j = i
    BY <2>1, <2>2, <1>1 DEF Put, RecordOf, Entry
  <2>3. CASE j # i
    <3>1. r = list[j] /\ r.id # list[i].id /\ r \in RecordsOf(list)
      BY <2>1, <2>3, <1>1 DEF Distinct, RecordsOf
    <3> QED BY <3>1, EveryRecordCounts DEF Put, AccountsOf
  <2> QED BY <2>2, <2>3
<1>5. m = [id \in IdsIn(new) |-> m[id]]
  BY <1>3 DEF Put, AccountsOf, IdsIn
<1> HIDE DEF new, m
<1>6. AccountsOf(new) = m
  BY <1>1, <1>3, <1>4, <1>5, SameAccounts
<1> QED BY <1>1, <1>3, <1>6 DEF new, m

\* SetWorkspace: a new name, nothing else.
LEMMA RenamedList ==
    ASSUME NEW list \in Seq(Record), Distinct(list), NEW i \in DOMAIN list,
           NEW name \in Names \cup {NoName}
    PROVE  LET new == Renamed(list, i, name)
           IN  /\ new \in Seq(Record) \ {<<>>} /\ Distinct(new) /\ IdsIn(new) = IdsIn(list)
               /\ AccountsOf(new) = Put(AccountsOf(list), list[i].id, Entry(name, list[i].token))
<1> DEFINE new == Renamed(list, i, name)
           m == Put(AccountsOf(list), list[i].id, Entry(name, list[i].token))
<1>1. /\ new \in Seq(Record) \ {<<>>} /\ DOMAIN new = DOMAIN list
      /\ \A j \in DOMAIN list : new[j] = IF j = i THEN RecordOf(list[i].id, name, list[i].token) ELSE list[j]
  <2>1. RecordOf(list[i].id, name, list[i].token) \in Record
    <3>1. list[i] \in Record
      OBVIOUS
    <3> QED BY <3>1 DEF RecordOf, Record
  <2>2. new = [list EXCEPT ![i] = RecordOf(list[i].id, name, list[i].token)]
    BY DEF Renamed
  <2> HIDE DEF new
  <2> QED BY <2>1, <2>2
<1>2. \A j \in DOMAIN list : new[j].id = list[j].id
  BY <1>1 DEF RecordOf
<1>3. Distinct(new) /\ IdsIn(new) = IdsIn(list)
  BY <1>1, <1>2 DEF Distinct, IdsIn
<1>4. ASSUME NEW r \in RecordsOf(new) PROVE m[r.id] = Entry(r.workspace, r.token)
  <2>1. PICK j \in DOMAIN list : r = new[j]
    BY <1>1 DEF RecordsOf
  <2>2. CASE j = i
    BY <2>1, <2>2, <1>1 DEF Put, RecordOf, Entry
  <2>3. CASE j # i
    <3>1. r = list[j] /\ r.id # list[i].id /\ r \in RecordsOf(list)
      BY <2>1, <2>3, <1>1 DEF Distinct, RecordsOf
    <3> QED BY <3>1, EveryRecordCounts DEF Put, AccountsOf
  <2> QED BY <2>2, <2>3
<1>5. m = [id \in IdsIn(new) |-> m[id]]
  BY <1>3 DEF Put, AccountsOf, IdsIn
<1> HIDE DEF new, m
<1>6. AccountsOf(new) = m
  BY <1>1, <1>3, <1>4, <1>5, SameAccounts
<1> QED BY <1>1, <1>3, <1>6 DEF new, m

\* AddAccount on a workspace that is not listed: one account more.
LEMMA ExtendedList ==
    ASSUME NEW list \in Seq(Record), Distinct(list), NEW r \in Record, r.id \notin IdsIn(list)
    PROVE  LET new == Extended(list, r)
           IN  /\ new \in Seq(Record) \ {<<>>} /\ Distinct(new)
               /\ IdsIn(new) = IdsIn(list) \cup {r.id}
               /\ AccountsOf(new) = Put(AccountsOf(list), r.id, Entry(r.workspace, r.token))
<1> DEFINE new == Extended(list, r)
           m == Put(AccountsOf(list), r.id, Entry(r.workspace, r.token))
<1>1. /\ new \in Seq(Record) \ {<<>>} /\ Len(new) = Len(list) + 1
      /\ \A j \in 1..Len(list) : new[j] = list[j]
      /\ new[Len(list) + 1] = r
  BY DEF Extended
<1>2. RecordsOf(new) = RecordsOf(list) \cup {r} /\ IdsIn(new) = IdsIn(list) \cup {r.id}
  <2> HIDE DEF new
  <2>1. DOMAIN new = 1..Len(list) \cup {Len(list) + 1} /\ DOMAIN list = 1..Len(list)
    BY <1>1
  <2> QED BY <1>1, <2>1 DEF RecordsOf, IdsIn
<1>3. Distinct(new)
  <2> HIDE DEF new
  <2>1. DOMAIN new = 1..Len(list) \cup {Len(list) + 1} /\ DOMAIN list = 1..Len(list)
    BY <1>1
  <2>2. \A j \in 1..Len(list) : list[j].id # r.id
    BY <2>1 DEF IdsIn
  <2> QED BY <1>1, <2>1, <2>2 DEF Distinct
<1>4. ASSUME NEW q \in RecordsOf(new) PROVE m[q.id] = Entry(q.workspace, q.token)
  <2>1. CASE q = r
    BY <2>1 DEF Put
  <2>2. CASE q \in RecordsOf(list)
    <3>1. q.id \in IdsIn(list) /\ AccountsOf(list)[q.id] = Entry(q.workspace, q.token)
      BY <2>2, EveryRecordCounts
    <3> QED BY <3>1 DEF Put, AccountsOf
  <2> QED BY <2>1, <2>2, <1>2
<1>5. m = [id \in IdsIn(new) |-> m[id]]
  BY <1>2 DEF Put, AccountsOf
<1> HIDE DEF new, m
<1>6. AccountsOf(new) = m
  BY <1>1, <1>3, <1>4, <1>5, SameAccounts
<1> QED BY <1>1, <1>2, <1>3, <1>6 DEF new, m

\* RemoveAccount's loop, up to its turn m.
Loop(kept, list, id, m) ==
    kept = [n \in 0..m |->
              IF n = 0 THEN <<>>
              ELSE IF list[n].id # id THEN Append(kept[n - 1], list[n]) ELSE kept[n - 1]]

LEMMA LoopRuns ==
    ASSUME NEW list \in Seq(Record), NEW id
    PROVE  \A m \in 0..Len(list) : \E kept : Loop(kept, list, id, m)
<1> DEFINE T == {m \in 0..Len(list) : ~\E kept : Loop(kept, list, id, m)}
<1> SUFFICES ASSUME T # {} PROVE FALSE
  OBVIOUS
<1>1. T \subseteq Nat
  OBVIOUS
<1> HIDE DEF T
<1>2. PICK m \in T : \A n \in T : m <= n
  BY <1>1, LeastNumber
<1> USE DEF T
<1>3. m # 0
  <2>1. Loop([n \in 0..0 |-> <<>>], list, id, 0)
    BY DEF Loop
  <2> QED BY <2>1
<1>4. m \in Nat /\ m - 1 \in 0..Len(list) /\ m - 1 \notin T
  BY <1>2, <1>3
<1>5. PICK f : Loop(f, list, id, m - 1)
  BY <1>4
<1> DEFINE g == [n \in 0..m |-> IF n < m THEN f[n]
                                ELSE IF list[m].id # id THEN Append(f[m - 1], list[m]) ELSE f[m - 1]]
<1>6. Loop(g, list, id, m)
  <2> HIDE DEF T
  <2>1. m \in Nat \ {0}
    BY <1>3, <1>4
  <2>2. \A n \in 0..(m - 1) : g[n] = f[n]
    BY <2>1
  <2>3. \A n \in 0..(m - 1) :
           f[n] = IF n = 0 THEN <<>>
                  ELSE IF list[n].id # id THEN Append(f[n - 1], list[n]) ELSE f[n - 1]
    BY <1>5 DEF Loop
  <2>4. ASSUME NEW n \in 0..m
        PROVE  g[n] = IF n = 0 THEN <<>>
                      ELSE IF list[n].id # id THEN Append(g[n - 1], list[n]) ELSE g[n - 1]
    <3>1. CASE n = m
      BY <3>1, <2>1, <2>2
    <3>2. CASE n < m /\ n # 0
      <4>1. g[n] = f[n] /\ g[n - 1] = f[n - 1]
        BY <3>2, <2>1, <2>2
      <4> QED BY <4>1, <2>3, <3>2, <2>1
    <3>3. CASE n = 0
      BY <3>3, <2>2, <2>3, <2>1
    <3> QED BY <3>1, <3>2, <3>3, <2>1
  <2>5. g = [n \in 0..m |-> g[n]]
    OBVIOUS
  <2> HIDE DEF g
  <2> QED BY <2>4, <2>5 DEF Loop
<1> QED BY <1>6

\* KeptUpTo is that loop.
LEMMA KeptUpToLoops ==
    ASSUME NEW list \in Seq(Record), NEW id
    PROVE  Loop(KeptUpTo(list, id), list, id, Len(list))
<1>1. Len(list) \in 0..Len(list)
  OBVIOUS
<1>2. \E f : Loop(f, list, id, Len(list))
  BY LoopRuns, <1>1
<1> QED BY <1>2 DEF Loop, KeptUpTo

\* What the loop has kept after n turns.
KeepsTheRest(new, list, id, n) ==
    /\ new \in Seq(Record) /\ Distinct(new)
    /\ RecordsOf(new) = {list[i] : i \in {j \in 1..n : list[j].id # id}}

LEMMA LoopKeepsTheRest ==
    ASSUME NEW list \in Seq(Record), Distinct(list), NEW id
    PROVE  KeepsTheRest(Removed(list, id), list, id, Len(list))
<1> DEFINE kept == KeptUpTo(list, id)
           T == {n \in 0..Len(list) : ~KeepsTheRest(kept[n], list, id, n)}
<1>1. \A n \in 0..Len(list) :
         kept[n] = IF n = 0 THEN <<>>
                   ELSE IF list[n].id # id THEN Append(kept[n - 1], list[n]) ELSE kept[n - 1]
  <2>1. Loop(kept, list, id, Len(list))
    BY KeptUpToLoops
  <2> HIDE DEF kept
  <2> QED BY <2>1 DEF Loop
<1> HIDE DEF kept
<1>2. T = {}
  <2> SUFFICES ASSUME T # {} PROVE FALSE
    OBVIOUS
  <2>1. T \subseteq Nat
    OBVIOUS
  <2> HIDE DEF T
  <2>2. PICK n \in T : \A k \in T : n <= k
    BY <2>1, LeastNumber
  <2>3. n \in 0..Len(list) /\ ~KeepsTheRest(kept[n], list, id, n)
    BY <2>2 DEF T
  <2>4. n # 0
    <3>1. KeepsTheRest(<<>>, list, id, 0)
      BY DEF KeepsTheRest, Distinct, RecordsOf
    <3> QED BY <3>1, <2>3, <1>1
  <2>5. KeepsTheRest(kept[n - 1], list, id, n - 1)
    BY <2>2, <2>3, <2>4 DEF T
  <2>6. 1..n = 1..(n - 1) \cup {n} /\ n \in DOMAIN list /\ n \in Nat
    BY <2>3, <2>4
  <2>7. CASE list[n].id = id
    <3>1. kept[n] = kept[n - 1]
      BY <2>7, <2>3, <2>4, <1>1
    <3>2. {j \in 1..n : list[j].id # id} = {j \in 1..(n - 1) : list[j].id # id}
      BY <2>6, <2>7
    <3> QED BY <3>1, <3>2, <2>3, <2>5 DEF KeepsTheRest
  <2>8. CASE list[n].id # id
    <3> DEFINE old == kept[n - 1]
    <3>1. kept[n] = Append(old, list[n]) /\ old \in Seq(Record) /\ list[n] \in Record
      <4>1. kept[n] = Append(kept[n - 1], list[n])
        BY <2>8, <2>3, <2>4, <1>1
      <4>2. list[n] \in Record
        BY <2>6
      <4> QED BY <4>1, <4>2, <2>5 DEF KeepsTheRest
    <3> HIDE DEF old
    <3>2. /\ DOMAIN kept[n] = 1..Len(old) \cup {Len(old) + 1} /\ DOMAIN old = 1..Len(old)
          /\ \A j \in 1..Len(old) : kept[n][j] = old[j]
          /\ kept[n][Len(old) + 1] = list[n]
          /\ kept[n] \in Seq(Record)
      BY <3>1
    <3>3. \A j \in 1..Len(old) : old[j].id # list[n].id
      <4>1. ASSUME NEW j \in 1..Len(old) PROVE old[j].id # list[n].id
        <5>1. PICK i \in 1..(n - 1) : old[j] = list[i]
          BY <2>5, <3>2 DEF KeepsTheRest, RecordsOf, old
        <5>2. i \in DOMAIN list /\ i # n
          BY <5>1, <2>3
        <5> QED BY <5>1, <5>2, <2>6 DEF Distinct
      <4> QED BY <4>1
    <3>4. Distinct(kept[n])
      BY <3>2, <3>3, <2>5 DEF Distinct, KeepsTheRest, old
    <3>5. RecordsOf(kept[n]) = RecordsOf(old) \cup {list[n]}
      BY <3>2 DEF RecordsOf
    <3>6. {j \in 1..n : list[j].id # id} = {j \in 1..(n - 1) : list[j].id # id} \cup {n}
      BY <2>6, <2>8
    <3> QED BY <3>2, <3>4, <3>5, <3>6, <2>3, <2>5 DEF KeepsTheRest, old
  <2> QED BY <2>7, <2>8
<1>3. Len(list) \in 0..Len(list) /\ Removed(list, id) = kept[Len(list)]
  BY DEF Removed, kept
<1> QED BY <1>2, <1>3

\* RemoveAccount: one account less, nothing else.
LEMMA RemovedList ==
    ASSUME NEW list \in Seq(Record), Distinct(list), NEW id
    PROVE  LET new == Removed(list, id)
           IN  /\ new \in Seq(Record) /\ Distinct(new)
               /\ IdsIn(new) = IdsIn(list) \ {id}
               /\ AccountsOf(new) = Without(AccountsOf(list), {id})
<1> DEFINE new == Removed(list, id)
           m == Without(AccountsOf(list), {id})
<1> HIDE DEF new
<1>1. /\ new \in Seq(Record) /\ Distinct(new)
      /\ RecordsOf(new) = {list[i] : i \in {j \in 1..Len(list) : list[j].id # id}}
  BY LoopKeepsTheRest DEF KeepsTheRest, new
<1>2. RecordsOf(new) \subseteq {r \in RecordsOf(list) : r.id # id}
  <2>1. DOMAIN list = 1..Len(list)
    OBVIOUS
  <2>2. ASSUME NEW r \in RecordsOf(new) PROVE r \in RecordsOf(list) /\ r.id # id
    <3>1. PICK i \in 1..Len(list) : list[i].id # id /\ r = list[i]
      BY <1>1
    <3> QED BY <3>1, <2>1 DEF RecordsOf
  <2> QED BY <2>2
<1>3. IdsIn(new) = IdsIn(list) \ {id}
  <2>1. IdsIn(new) = {r.id : r \in RecordsOf(new)}
    BY DEF IdsIn, RecordsOf
  <2>2. DOMAIN list = 1..Len(list)
    OBVIOUS
  <2>3. ASSUME NEW x \in IdsIn(new) PROVE x \in IdsIn(list) \ {id}
    <3>1. PICK r \in RecordsOf(new) : x = r.id
      BY <2>1, <2>3
    <3>2. PICK i \in 1..Len(list) : list[i].id # id /\ r = list[i]
      BY <1>1
    <3> QED BY <2>2, <3>1, <3>2 DEF IdsIn
  <2>4. ASSUME NEW x \in IdsIn(list), x # id PROVE x \in IdsIn(new)
    <3>1. PICK i \in 1..Len(list) : x = list[i].id
      BY <2>2, <2>4 DEF IdsIn
    <3>2. list[i] \in RecordsOf(new)
      BY <1>1, <2>4, <3>1
    <3> QED BY <2>1, <3>1, <3>2
  <2> QED BY <2>3, <2>4
<1>4. ASSUME NEW r \in RecordsOf(new) PROVE m[r.id] = Entry(r.workspace, r.token)
  <2>1. r.id # id /\ r.id \in IdsIn(list) /\ AccountsOf(list)[r.id] = Entry(r.workspace, r.token)
    BY <1>2, EveryRecordCounts
  <2> QED BY <2>1 DEF Without, AccountsOf
<1>5. m = [i \in IdsIn(new) |-> m[i]]
  BY <1>3 DEF Without, AccountsOf
<1> HIDE DEF m
<1>6. AccountsOf(new) = m
  BY <1>1, <1>4, <1>5, SameAccounts
<1> QED BY <1>1, <1>3, <1>6 DEF new, m

-----------------------------------------------------------------------------
(* The invariant *)

OneProcess == \E p : Procs = {p}
NoFaults == FailKinds = {} /\ MaxCrashes = 0

\* The list on disk is whole and lists what was told, and files of the old
\* format exist only where nothing fails.
DiskAgrees ==
    /\ accountsFile # Torn
    /\ Distinct(Kept) /\ IdsIn(Kept) \subseteq generated
    /\ told \ dropped \subseteq IdsIn(Kept)
    /\ tokenFile # None => NoFaults

\* The operation fits the label, and one that asks for a removal was counted.
CallAgrees(p) ==
    /\ pc[p] \in {"load", "migrateWrite", "migrateRename", "dropToken", "dropWorkspace", "decide"} =>
          op[p].kind # "RemoveAllAccounts"
    /\ pc[p] \in {"clearAccounts", "clearToken", "clearWorkspace"} => op[p].kind = "RemoveAllAccounts"
    /\ pc[p] # "idle" /\ op[p].kind = "RemoveAccount" => op[p].id \in dropped

\* How far a migration is, and that the old files are gone when it is over.
MigrationAgrees(p) ==
    /\ tokenFile # None => accountsFile = None \/ pc[p] = "dropToken"
    /\ pc[p] \in {"migrateWrite", "migrateRename"} =>
          /\ accountsFile = None /\ tokenFile # None
          /\ \E id \in generated : accs[p] = <<RecordOf(id, workspaceFile, tokenFile)>>
    /\ pc[p] \in {"dropToken", "dropWorkspace"} => accountsFile = accs[p] /\ accs[p] # <<>>
    /\ pc[p] \in {"dropWorkspace", "decide", "write", "rename", "unlink", "clearWorkspace"} =>
          tokenFile = None
    /\ pc[p] \in {"clearToken", "clearWorkspace"} => accountsFile = None

\* What the operation makes of the list on disk.
Outcome(o, list, new) ==
    \/ /\ o.kind = "AddAccount"
       /\ \/ /\ Named(list, o.workspace) # {}
             /\ new = Refreshed(list, First(Named(list, o.workspace)), o.token)
          \/ /\ Named(list, o.workspace) = {}
             /\ \E id \in generated \ IdsIn(list) :
                   new = Extended(list, RecordOf(id, o.workspace, o.token))
    \/ /\ o.kind = "SetWorkspace"
       /\ LET stale == {i \in At(list, o.id) : list[i].workspace # o.workspace}
          IN  stale # {} /\ new = Renamed(list, First(stale), o.workspace)
    \/ o.kind = "RemoveAccount" /\ new = Removed(list, o.id)

\* The list in memory is the one on disk until the operation has decided, and
\* then what it is about to become.
ListAgrees(p) ==
    /\ pc[p] = "decide" => accs[p] = Kept
    /\ pc[p] \in {"write", "rename", "unlink"} => Outcome(op[p], Kept, accs[p])
    /\ pc[p] \in {"write", "rename"} => accs[p] # <<>>
    /\ pc[p] = "unlink" => accs[p] = <<>>
    /\ pc[p] \in {"rename", "migrateRename"} => tmpFile = accs[p]

\* What an answer is about to tell is on disk, or asked to go.
AnswerAgrees(p) ==
    pc[p] = "answer" =>
        /\ IdsToldBy(p) \subseteq generated
        /\ IdsToldBy(p) \ dropped \subseteq IdsIn(Kept)

ListInv ==
    /\ StoreTypeOK
    /\ DiskAgrees
    /\ \A p \in Procs : /\ CallAgrees(p) /\ MigrationAgrees(p)
                         /\ ListAgrees(p) /\ AnswerAgrees(p)

\* How the files and the history may look after a step.
FilesTyped ==
    /\ accountsFile \in {None, Torn} \/ accountsFile \in Seq(Record) \ {<<>>}
    /\ tmpFile \in {None, Torn} \/ tmpFile \in Seq(Record) \ {<<>>}
    /\ tokenFile \in Tokens \cup {None}
    /\ workspaceFile \in Names \cup {NoName}
HistoryTyped ==
    /\ told \subseteq generated /\ dropped \subseteq generated /\ generated \subseteq Ids
    /\ migrations \in Nat /\ crashes \in Nat

\* A process that goes on to its next access is typed like before.
LEMMA GoesOnTyped ==
    ASSUME StoreTypeOK, NEW p \in Procs, NEW label \in Labels \ {"idle", "answer"},
           pc[p] \notin {"idle", "answer"}, Goto(p, label), UNCHANGED <<op, out>>,
           (accs \in [Procs -> Seq(Record)])', FilesTyped', HistoryTyped'
    PROVE  StoreTypeOK'
BY DEF StoreTypeOK, Goto, FilesTyped, HistoryTyped

\* So is one that has its answer.
LEMMA AnswersTyped ==
    ASSUME StoreTypeOK, NEW p \in Procs, NEW v \in StoreAnswers,
           pc[p] # "idle", AnswerWith(p, v), UNCHANGED <<op, accs>>, FilesTyped', HistoryTyped'
    PROVE  StoreTypeOK'
<1>1. v # None
  BY NothingAssumption
<1>2. /\ pc' = [pc EXCEPT ![p] = "answer"] /\ out' = [out EXCEPT ![p] = v]
  BY DEF AnswerWith, Goto
<1>3. pc' \in [Procs -> Labels] /\ out' \in [Procs -> StoreAnswers \cup {None}]
  BY <1>2 DEF StoreTypeOK, Labels
<1>4. \A q \in Procs : (pc'[q] = "idle" <=> op'[q] = None) /\ (pc'[q] # "answer" <=> out'[q] = None)
  BY <1>1, <1>2 DEF StoreTypeOK
<1> QED BY <1>3, <1>4 DEF StoreTypeOK, FilesTyped, HistoryTyped

\* What the operations answer is an answer.
LEMMA AnswersAreAnswers ==
    /\ Failed \in StoreAnswers /\ Answered(None) \in StoreAnswers
    /\ \A id \in Ids : Answered(id) \in StoreAnswers
    /\ \A t \in Tokens : Answered(t) \in StoreAnswers
BY DEF Failed, Answered, StoreAnswers

\* The names of a list: one for each identifier in it (Store.Accounts).
LEMMA NamesAreAnswers ==
    ASSUME NEW list \in Seq(Record)
    PROVE  /\ DOMAIN NamesIn(list) = IdsIn(list) /\ IdsIn(list) \subseteq Ids
           /\ Answered(NamesIn(list)) \in StoreAnswers
<1>1. DOMAIN list \subseteq Nat /\ \A i \in DOMAIN list : list[i] \in Record
  OBVIOUS
<1>2. ASSUME NEW id \in IdsIn(list)
      PROVE  list[First(At(list, id))].workspace \in Names \cup {NoName}
  <2>1. At(list, id) \subseteq Nat /\ At(list, id) # {}
    BY <1>1 DEF At, IdsIn
  <2>2. First(At(list, id)) \in DOMAIN list
    BY <2>1, FirstPicks DEF At
  <2> QED BY <2>2, <1>1 DEF Record
<1>3. IdsIn(list) \in SUBSET Ids
  BY <1>1 DEF IdsIn, Record
<1>4. NamesIn(list) \in [IdsIn(list) -> Names \cup {NoName}]
  BY <1>2 DEF NamesIn
<1>5. NamesIn(list) \in UNION {[S -> Names \cup {NoName}] : S \in SUBSET Ids}
  BY <1>3, <1>4
<1> QED BY <1>3, <1>4, <1>5 DEF Answered, StoreAnswers

\* The indexes AddAccount, SetWorkspace and TokenFor look for.
LEMMA IndexesFound ==
    ASSUME NEW list \in Seq(Record), NEW id, NEW name
    PROVE  /\ At(list, id) \subseteq DOMAIN list /\ Named(list, name) \subseteq DOMAIN list
           /\ \A S \in SUBSET (DOMAIN list) : S # {} => First(S) \in S
           /\ At(list, id) # {} <=> id \in IdsIn(list)
<1>1. DOMAIN list \subseteq Nat
  OBVIOUS
<1>2. \A S \in SUBSET (DOMAIN list) : S # {} => First(S) \in S
  BY <1>1, FirstPicks
<1> QED BY <1>2 DEF At, Named, IdsIn

\* Whatever an operation makes of a list is a list again, without repetitions,
\* and lists every identifier there was unless its removal was asked for.
LEMMA OutcomeIsList ==
    ASSUME StoreTypeOK, NEW o \in Operations, NEW list \in Seq(Record), NEW new,
           Distinct(list), IdsIn(list) \subseteq generated, Outcome(o, list, new)
    PROVE  /\ new \in Seq(Record) /\ Distinct(new) /\ IdsIn(new) \subseteq generated
           /\ new = <<>> => o.kind = "RemoveAccount"
           /\ IdsIn(list) \subseteq IdsIn(new)
                 \cup (IF o.kind = "RemoveAccount" THEN {o.id} ELSE {})
<1> USE IndexesFound
<1>1. CASE o.kind = "AddAccount"
  <2>1. o.token \in Tokens /\ o.workspace \in Names \cup {NoName}
    BY <1>1 DEF Operations
  <2>2. CASE Named(list, o.workspace) # {}
    <3>1. First(Named(list, o.workspace)) \in DOMAIN list
      BY <2>2
    <3> QED BY <1>1, <2>1, <2>2, <3>1, RefreshedList DEF Outcome
  <2>3. CASE Named(list, o.workspace) = {}
    <3>1. PICK id \in generated \ IdsIn(list) : new = Extended(list, RecordOf(id, o.workspace, o.token))
      BY <1>1, <2>3 DEF Outcome
    <3>2. RecordOf(id, o.workspace, o.token) \in Record /\ RecordOf(id, o.workspace, o.token).id = id
      BY <2>1 DEF RecordOf, Record, StoreTypeOK
    <3> QED BY <3>1, <3>2, ExtendedList
  <2> QED BY <2>2, <2>3
<1>2. CASE o.kind = "SetWorkspace"
  <2> DEFINE stale == {i \in At(list, o.id) : list[i].workspace # o.workspace}
  <2>1. stale # {} /\ new = Renamed(list, First(stale), o.workspace)
    BY <1>2 DEF Outcome
  <2>2. First(stale) \in DOMAIN list
    BY <2>1
  <2>3. o.workspace \in Names
    BY <1>2 DEF Operations
  <2> QED BY <2>1, <2>2, <2>3, RenamedList
<1>3. CASE o.kind = "RemoveAccount"
  <2>1. new = Removed(list, o.id)
    BY <1>3 DEF Outcome
  <2>2. /\ new \in Seq(Record) /\ Distinct(new)
        /\ IdsIn(new) = IdsIn(list) \ {o.id}
    BY <2>1, RemovedList
  <2> QED BY <1>3, <2>2
<1> QED BY <1>1, <1>2, <1>3 DEF Outcome

\* AddAccount answers the identifier of the record it refreshed or added.
LEMMA AddedIsSaved ==
    ASSUME NEW p \in Procs, NEW list \in Seq(Record), op[p].kind = "AddAccount",
           op[p].token \in Tokens, op[p].workspace \in Names \cup {NoName}
    PROVE  /\ LET i == First(Named(list, op[p].workspace))
              IN  /\ Named(list, op[p].workspace) # {}
                  /\ accs[p] = Refreshed(list, i, op[p].token)
                  => SavedValue(p) = list[i].id
           /\ \A id \in Ids : /\ Named(list, op[p].workspace) = {}
                             /\ accs[p] = Extended(list, RecordOf(id, op[p].workspace, op[p].token))
                             => SavedValue(p) = id
<1> DEFINE name == op[p].workspace
           Saved == {i \in DOMAIN accs[p] :
                       \/ i \in Named(accs[p], name)
                       \/ Named(accs[p], name) = {} /\ i = Len(accs[p])}
<1>1. SavedValue(p) = accs[p][First(Saved)].id
  BY DEF SavedValue
<1> HIDE DEF Saved
<1>2. ASSUME Named(list, name) # {}, accs[p] = Refreshed(list, First(Named(list, name)), op[p].token)
      PROVE  SavedValue(p) = list[First(Named(list, name))].id
  <2> DEFINE k == First(Named(list, name))
  <2>1. k \in DOMAIN list
    BY <1>2, IndexesFound
  <2> HIDE DEF k
  <2>2. /\ DOMAIN accs[p] = DOMAIN list
        /\ \A j \in DOMAIN list : /\ accs[p][j].id = list[j].id
                                  /\ accs[p][j].workspace = list[j].workspace
    BY <1>2, <2>1 DEF Refreshed, RecordOf, k
  <2>3. Named(accs[p], name) = Named(list, name)
    BY <2>2 DEF Named
  <2>4. Saved = Named(list, name)
    BY <1>2, <2>3, <2>2, IndexesFound DEF Saved
  <2> QED BY <1>1, <2>1, <2>2, <2>4 DEF k
<1>3. ASSUME NEW id \in Ids, Named(list, name) = {},
             accs[p] = Extended(list, RecordOf(id, name, op[p].token))
      PROVE  SavedValue(p) = id
  <2> DEFINE r == RecordOf(id, name, op[p].token)
  <2>1. r \in Record /\ r.id = id /\ r.workspace = name
    BY DEF RecordOf, Record
  <2> HIDE DEF r
  <2>2. /\ accs[p] \in Seq(Record) /\ Len(accs[p]) = Len(list) + 1
        /\ DOMAIN accs[p] = DOMAIN list \cup {Len(list) + 1}
        /\ \A j \in DOMAIN list : accs[p][j] = list[j]
        /\ accs[p][Len(list) + 1] = r
    BY <1>3, <2>1 DEF Extended, r
  <2>3. Named(accs[p], name) = IF name = NoName THEN {} ELSE {Len(list) + 1}
    BY <1>3, <2>1, <2>2 DEF Named
  <2>4. Saved = {Len(list) + 1}
    BY <2>2, <2>3 DEF Saved
  <2>5. First(Saved) = Len(list) + 1
    <3>1. Len(list) + 1 \in Nat
      OBVIOUS
    <3>2. Saved \subseteq Nat /\ Saved # {}
      BY <2>4, <3>1
    <3>3. First(Saved) \in Saved
      BY <3>2, FirstPicks
    <3> QED BY <2>4, <3>3
  <2> QED BY <1>1, <2>1, <2>2, <2>5
<1> HIDE DEF name
<1> QED BY <1>2, <1>3 DEF name

-----------------------------------------------------------------------------
(* The steps *)

\* The list on disk is a list, and so is what a process holds.
LEMMA ListsInPlace ==
    ASSUME StoreTypeOK, NEW p \in Procs
    PROVE  /\ Kept \in Seq(Record) /\ accs[p] \in Seq(Record)
           /\ accs[p] # <<>> => accs[p] \notin {None, Torn}
           /\ pc[p] # "idle" => op[p] \in Operations
           /\ pc[p] = "answer" => out[p] \in StoreAnswers
BY StoreAssumption DEF StoreTypeOK, Kept

\* When the temporary file takes the place of accounts.json, it holds what the
\* operation, or the migration, made of the list (writeFileAtomic).
LEMMA RenamedFile ==
    ASSUME ListInv, NEW p, Procs = {p}, RenameFile(p)
    PROVE  LET new == accs[p]
           IN  /\ new \in Seq(Record) \ {<<>>} /\ accountsFile' = new /\ Kept' = new /\ tmpFile' = None
               /\ Distinct(new) /\ IdsIn(new) \subseteq generated
               /\ IdsIn(Kept) \ dropped \subseteq IdsIn(new)
               /\ pc[p] = "rename" => Outcome(op[p], Kept, new)
<1>1. p \in Procs /\ ListAgrees(p) /\ CallAgrees(p) /\ MigrationAgrees(p) /\ StoreTypeOK /\ DiskAgrees
  BY DEF ListInv
<1>2. accs[p] \in Seq(Record) /\ accs[p] # <<>> /\ tmpFile = accs[p]
  <2>1. tmpFile = accs[p] /\ accs[p] \in Seq(Record)
    BY <1>1, ListsInPlace DEF ListAgrees, RenameFile
  <2>2. pc[p] = "migrateRename" => \E id : accs[p] = <<RecordOf(id, workspaceFile, tokenFile)>>
    BY <1>1 DEF MigrationAgrees
  <2>3. pc[p] = "rename" => accs[p] # <<>>
    BY <1>1 DEF ListAgrees
  <2> QED BY <2>1, <2>2, <2>3 DEF RenameFile
<1>3. accs[p] \notin {None, Torn} /\ accountsFile' = accs[p] /\ tmpFile' = None
  BY <1>1, <1>2, ListsInPlace DEF RenameFile
<1>4. Kept' = accs[p]
  BY <1>3 DEF Kept
<1>5. CASE pc[p] = "rename"
  <2>1. Outcome(op[p], Kept, accs[p]) /\ op[p] \in Operations
    BY <1>1, <1>5, ListsInPlace DEF ListAgrees
  <2>2. op[p].kind = "RemoveAccount" => op[p].id \in dropped
    BY <1>1, <1>5 DEF CallAgrees
  <2> QED BY <1>1, <1>2, <1>3, <1>4, <2>1, <2>2, ListsInPlace, OutcomeIsList DEF DiskAgrees
<1>6. CASE pc[p] = "migrateRename"
  <2>1. Kept = <<>> /\ \E id \in generated : accs[p] = <<RecordOf(id, workspaceFile, tokenFile)>>
    BY <1>1, <1>6 DEF MigrationAgrees, Kept
  <2>2. Distinct(accs[p]) /\ IdsIn(accs[p]) \subseteq generated
    BY <2>1 DEF Distinct, IdsIn, RecordOf
  <2> QED BY <1>2, <1>3, <1>4, <1>6, <2>1, <2>2, NoAccounts
<1> QED BY <1>5, <1>6 DEF RenameFile

\* AddAccount answers an identifier of the list it has written.
LEMMA SavedIsListed ==
    ASSUME ListInv, NEW p, Procs = {p}, RenameFile(p), pc[p] = "rename"
    PROVE  /\ op[p].kind = "AddAccount" => SavedValue(p) \in IdsIn(accs[p])
           /\ op[p].kind # "AddAccount" => SavedValue(p) = None
<1>1. p \in Procs /\ StoreTypeOK /\ Kept \in Seq(Record) /\ op[p] \in Operations /\ Outcome(op[p], Kept, accs[p])
  BY ListsInPlace, RenamedFile DEF ListInv
<1>2. ASSUME op[p].kind = "AddAccount" PROVE SavedValue(p) \in IdsIn(accs[p])
  <2>1. op[p].token \in Tokens /\ op[p].workspace \in Names \cup {NoName}
    BY <1>1, <1>2 DEF Operations
  <2>2. CASE Named(Kept, op[p].workspace) # {}
    <3> DEFINE i == First(Named(Kept, op[p].workspace))
    <3>1. i \in DOMAIN Kept /\ accs[p] = Refreshed(Kept, i, op[p].token)
      BY <1>1, <1>2, <2>2, IndexesFound DEF Outcome
    <3>2. SavedValue(p) = Kept[i].id
      BY <1>1, <1>2, <2>1, <2>2, <3>1, AddedIsSaved
    <3>3. i \in DOMAIN accs[p] /\ accs[p][i].id = Kept[i].id
      BY <3>1, <1>1 DEF Refreshed, RecordOf
    <3> QED BY <3>2, <3>3 DEF IdsIn
  <2>3. CASE Named(Kept, op[p].workspace) = {}
    <3>1. PICK id \in generated \ IdsIn(Kept) :
             accs[p] = Extended(Kept, RecordOf(id, op[p].workspace, op[p].token))
      BY <1>1, <1>2, <2>3 DEF Outcome
    <3>2. id \in Ids /\ SavedValue(p) = id
      BY <1>1, <1>2, <2>1, <2>3, <3>1, AddedIsSaved DEF StoreTypeOK
    <3> DEFINE r == RecordOf(id, op[p].workspace, op[p].token)
    <3>3. r.id = id
      BY DEF RecordOf
    <3> HIDE DEF r
    <3>4. Len(Kept) + 1 \in DOMAIN accs[p] /\ accs[p][Len(Kept) + 1] = r
      BY <3>1, <1>1 DEF Extended, r
    <3> QED BY <3>2, <3>3, <3>4 DEF IdsIn
  <2> QED BY <2>2, <2>3
<1>3. op[p].kind # "AddAccount" => SavedValue(p) = None
  BY DEF SavedValue
<1> QED BY <1>2, <1>3

\* The operation a process is in fits its next access.
LEMMA CallStep ==
    ASSUME ListInv, NEW p, Procs = {p}, Access(p) \/ \E o \in Operations : Call(p, o)
    PROVE  CallAgrees(p)'
<1>1. p \in Procs /\ CallAgrees(p) /\ StoreTypeOK
  BY DEF ListInv
<1>2. CASE LoadList(p) \/ LoadLegacy(p) \/ Write(p) \/ WriteFails(p) \/ RenameFile(p) \/ RenameFails(p)
           \/ DropToken(p) \/ DropWorkspace(p)
  BY <1>1, <1>2 DEF StoreTypeOK, CallAgrees, LoadList, LoadLegacy, Write, WriteFails, RenameFile,
     RenameFails, DropToken, DropWorkspace, SaveFailed, AnswerWith, Goto, history
<1>3. CASE DecideAccounts(p) \/ DecideTokenFor(p) \/ DecideAddAccount(p) \/ DecideSetWorkspace(p)
           \/ DecideRemoveAccount(p)
  BY <1>1, <1>3 DEF StoreTypeOK, CallAgrees, DecideAccounts, DecideTokenFor, DecideAddAccount,
     DecideSetWorkspace, DecideRemoveAccount, Deciding, NothingToSave, Save, AnswerWith, Goto, history
<1>4. CASE Unlink(p) \/ ClearAccounts(p) \/ ClearToken(p) \/ ClearWorkspace(p)
  BY <1>1, <1>4 DEF StoreTypeOK, CallAgrees, Unlink, ClearAccounts, ClearToken, ClearWorkspace,
     AnswerWith, Goto, history
<1>5. CASE Respond(p) \/ Crash(p)
  BY <1>1, <1>5 DEF StoreTypeOK, CallAgrees, Respond, Crash, Leave, Goto
<1>6. ASSUME NEW o \in Operations, Call(p, o) PROVE CallAgrees(p)'
  BY <1>1, <1>6 DEF StoreTypeOK, CallAgrees, Call, Goto
<1> QED BY <1>2, <1>3, <1>4, <1>5, <1>6 DEF Access

\* The files of the old format are there until the migration is over.
LEMMA MigrationStep ==
    ASSUME ListInv, NEW p, Procs = {p}, Access(p) \/ \E o \in Operations : Call(p, o)
    PROVE  MigrationAgrees(p)'
<1>1. /\ p \in Procs /\ StoreTypeOK /\ CallAgrees(p) /\ MigrationAgrees(p)
      /\ tokenFile # None => NoFaults
      /\ accountsFile # Torn
  BY DEF ListInv, DiskAgrees
<1> USE <1>1
<1>2. CASE LoadList(p) \/ LoadLegacy(p)
  <2>1. CASE LoadList(p)
    <3>1. pc'[p] = "decide" /\ UNCHANGED files /\ (tokenFile # None => accountsFile # None \/ May("read"))
      BY <1>2, <2>1 DEF StoreTypeOK, LoadList, Goto
    <3>2. tokenFile = None
      BY <2>1, <3>1 DEF MigrationAgrees, LoadList, NoFaults, May
    <3> QED BY <3>1, <3>2 DEF MigrationAgrees, files
  <2>2. CASE LoadLegacy(p)
    BY <2>2 DEF StoreTypeOK, MigrationAgrees, LoadLegacy, NoFaults, May, Goto, files
  <2> QED BY <1>2, <2>1, <2>2
<1>3. CASE Write(p) \/ WriteFails(p) \/ RenameFails(p)
  <2>1. pc[p] = "migrateRename" => tmpFile # None
    <3>1. pc[p] = "migrateRename" => tmpFile = accs[p] /\ accs[p] \in Seq(Record)
      BY ListsInPlace DEF ListInv, ListAgrees
    <3> QED BY <3>1, StoreAssumption
  <2> QED BY <1>3, <2>1 DEF StoreTypeOK, MigrationAgrees, Write, WriteFails, RenameFails, NoFaults,
             SaveFailed, May, AnswerWith, Goto, files, history
<1>4. CASE RenameFile(p)
  BY <1>4, RenamedFile DEF StoreTypeOK, MigrationAgrees, RenameFile, AnswerWith, Goto
<1>5. CASE DropToken(p) \/ DropWorkspace(p)
  BY <1>5 DEF StoreTypeOK, MigrationAgrees, DropToken, DropWorkspace, NoFaults, May, Goto, history
<1>6. CASE DecideAccounts(p) \/ DecideTokenFor(p) \/ DecideAddAccount(p) \/ DecideSetWorkspace(p)
           \/ DecideRemoveAccount(p)
  BY <1>6 DEF StoreTypeOK, MigrationAgrees, DecideAccounts, DecideTokenFor, DecideAddAccount,
     DecideSetWorkspace, DecideRemoveAccount, Deciding, NothingToSave, Save, AnswerWith, Goto, history, files
<1>7. CASE Unlink(p) \/ ClearAccounts(p) \/ ClearToken(p) \/ ClearWorkspace(p)
  BY <1>7 DEF StoreTypeOK, MigrationAgrees, Unlink, ClearAccounts, ClearToken, ClearWorkspace,
     AnswerWith, Goto, history
<1>8. CASE Respond(p) \/ Crash(p)
  BY <1>8 DEF StoreTypeOK, MigrationAgrees, Respond, Crash, Leave, Goto, files, NoFaults
<1>9. ASSUME NEW o \in Operations, Call(p, o) PROVE MigrationAgrees(p)'
  BY <1>9 DEF StoreTypeOK, MigrationAgrees, Call, Goto, files
<1> QED BY <1>2, <1>3, <1>4, <1>5, <1>6, <1>7, <1>8, <1>9 DEF Access

\* The list in memory is the one on disk, or what comes after it.  A list that
\* is there but cannot be read would break this: it counts as no account.
LEMMA ListStep ==
    ASSUME ListInv, "read" \notin FailKinds, NEW p, Procs = {p},
           Access(p) \/ \E o \in Operations : Call(p, o)
    PROVE  ListAgrees(p)'
<1>1. /\ p \in Procs /\ StoreTypeOK /\ CallAgrees(p) /\ MigrationAgrees(p) /\ ListAgrees(p)
      /\ accountsFile # Torn
      /\ Kept \in Seq(Record) /\ accs[p] \in Seq(Record)
  BY ListsInPlace DEF ListInv, DiskAgrees
<1> USE <1>1
<1>2. CASE LoadList(p) \/ LoadLegacy(p)
  BY <1>2 DEF StoreTypeOK, ListAgrees, LoadList, LoadLegacy, May, Goto, Kept, history, files
<1>3. CASE Write(p)
  BY <1>3 DEF StoreTypeOK, ListAgrees, Write, Goto, Kept, Outcome, history
<1>4. CASE WriteFails(p) \/ RenameFails(p)
  <2>1. pc[p] = "migrateRename" => tmpFile # None
    BY StoreAssumption DEF ListAgrees
  <2>2. pc[p] \notin {"migrateWrite", "migrateRename"}
    BY <1>4, <2>1 DEF ListInv, DiskAgrees, NoFaults, MigrationAgrees, WriteFails, RenameFails, May
  <2>3. pc'[p] = "answer"
    BY <1>4, <2>2 DEF StoreTypeOK, WriteFails, RenameFails, SaveFailed, AnswerWith, Goto
  <2> QED BY <2>3 DEF ListAgrees
<1>5. CASE RenameFile(p)
  BY <1>5 DEF StoreTypeOK, ListAgrees, RenameFile, AnswerWith, Goto
<1>6. CASE DropToken(p)
  BY <1>6 DEF StoreTypeOK, ListAgrees, DropToken, Goto
<1>7. CASE DropWorkspace(p)
  <2>1. accountsFile = accs[p] /\ accs[p] \notin {None, Torn}
    BY <1>7, StoreAssumption DEF MigrationAgrees, DropWorkspace
  <2> QED BY <1>7, <2>1 DEF StoreTypeOK, ListAgrees, Kept, DropWorkspace, Goto, history
<1>8. CASE DecideAccounts(p) \/ DecideTokenFor(p)
  BY <1>8 DEF StoreTypeOK, ListAgrees, DecideAccounts, DecideTokenFor, NothingToSave, AnswerWith, Goto
<1>9. CASE DecideAddAccount(p)
  <2>1. /\ UNCHANGED <<accountsFile, op, Kept>> /\ accs[p] = Kept
        /\ op[p].kind = "AddAccount"
        /\ pc'[p] = IF accs'[p] = <<>> THEN "unlink" ELSE "write"
    BY <1>9 DEF StoreTypeOK, ListAgrees, DecideAddAccount, Deciding, Save, Goto, Kept, files
  <2>2. Outcome(op[p], Kept, accs[p])'
    <3>1. CASE Named(Kept, op[p].workspace) # {}
      BY <1>9, <2>1, <3>1 DEF StoreTypeOK, DecideAddAccount, Save, Outcome
    <3>2. CASE Named(Kept, op[p].workspace) = {}
      BY <1>9, <2>1, <3>2 DEF StoreTypeOK, DecideAddAccount, Save, Outcome, ListInv, DiskAgrees
    <3> QED BY <3>1, <3>2
  <2> QED BY <2>1, <2>2 DEF ListAgrees
<1>10. CASE DecideSetWorkspace(p)
  <2> DEFINE stale == {i \in At(accs[p], op[p].id) : accs[p][i].workspace # op[p].workspace}
  <2>1. CASE stale = {}
    <3>1. pc'[p] = "answer"
      BY <1>10, <2>1 DEF StoreTypeOK, DecideSetWorkspace, NothingToSave, AnswerWith, Goto, Save
    <3> QED BY <3>1 DEF ListAgrees
  <2>2. CASE stale # {}
    <3>1. Save(p, Renamed(accs[p], First(stale), op[p].workspace)) /\ op[p].kind = "SetWorkspace"
          /\ pc[p] = "decide"
      BY <1>10, <2>2 DEF DecideSetWorkspace, Deciding
    <3> DEFINE new == Renamed(accs[p], First(stale), op[p].workspace)
    <3>2. accs[p] = Kept /\ Outcome(op[p], Kept, new)
      BY <2>2, <3>1 DEF ListAgrees, Outcome
    <3> HIDE DEF new
    <3>3. pc'[p] = (IF new = <<>> THEN "unlink" ELSE "write") /\ accs'[p] = new
          /\ UNCHANGED <<accountsFile, op>>
      BY <3>1 DEF StoreTypeOK, Save, Goto, files, new
    <3>4. Kept' = Kept /\ op'[p] = op[p]
      BY <3>3 DEF Kept
    <3>5. Outcome(op'[p], Kept', accs'[p])
      BY <3>2, <3>3, <3>4
    <3>6. pc'[p] \in {"write", "unlink"} /\ (pc'[p] = "write" <=> accs'[p] # <<>>)
      BY <3>3
    <3> QED BY <3>1, <3>4, <3>5, <3>6 DEF ListAgrees, Outcome
  <2> QED BY <2>1, <2>2
<1>11. CASE DecideRemoveAccount(p)
  BY <1>11 DEF StoreTypeOK, ListAgrees, DecideRemoveAccount, Deciding, Save, Goto, Kept, Outcome, files
<1>12. CASE Unlink(p) \/ ClearAccounts(p) \/ ClearToken(p) \/ ClearWorkspace(p)
  BY <1>12 DEF StoreTypeOK, ListAgrees, Unlink, ClearAccounts, ClearToken, ClearWorkspace,
     AnswerWith, Goto
<1>13. CASE Respond(p) \/ Crash(p)
  BY <1>13 DEF StoreTypeOK, ListAgrees, Respond, Crash, Leave, Goto
<1>14. ASSUME NEW o \in Operations, Call(p, o) PROVE ListAgrees(p)'
  BY <1>14 DEF StoreTypeOK, ListAgrees, Call, Goto
<1> QED BY <1>2, <1>3, <1>4, <1>5, <1>6, <1>7, <1>8, <1>9, <1>10, <1>11, <1>12, <1>13, <1>14 DEF Access

\* What the history and the files say stays the same.
LEMMA DiskUnchanged ==
    ASSUME ListInv, UNCHANGED <<accountsFile, tokenFile, told>>, dropped \subseteq dropped',
           generated \subseteq generated'
    PROVE  DiskAgrees'
BY DEF ListInv, DiskAgrees, Kept, Distinct, IdsIn

\* No step takes an identifier that was told out of the list on disk, unless its
\* removal was asked for.
LEMMA DiskStep ==
    ASSUME ListInv, NEW p, Procs = {p}, Access(p) \/ \E o \in Operations : Call(p, o)
    PROVE  DiskAgrees'
<1>1. /\ p \in Procs /\ StoreTypeOK /\ DiskAgrees /\ CallAgrees(p) /\ MigrationAgrees(p) /\ ListAgrees(p)
      /\ AnswerAgrees(p)
      /\ Kept \in Seq(Record) /\ accs[p] \in Seq(Record)
  BY ListsInPlace DEF ListInv
<1> USE <1>1
<1>2. CASE LoadList(p) \/ LoadLegacy(p) \/ Write(p) \/ WriteFails(p) \/ RenameFails(p) \/ DropWorkspace(p)
  BY <1>2, DiskUnchanged DEF LoadList, LoadLegacy, Write, WriteFails, RenameFails, DropWorkspace, files, history
<1>3. CASE DecideAccounts(p) \/ DecideTokenFor(p) \/ DecideAddAccount(p) \/ DecideSetWorkspace(p)
           \/ DecideRemoveAccount(p) \/ Crash(p)
  BY <1>3, DiskUnchanged DEF DecideAccounts, DecideTokenFor, DecideAddAccount,
     DecideSetWorkspace, DecideRemoveAccount, NothingToSave, Save, files, history, Crash
<1>4. CASE RenameFile(p)
  <2>1. UNCHANGED <<tokenFile, told, dropped, generated>>
    BY <1>4 DEF RenameFile
  <2> DEFINE new == accs[p]
  <2>2. accountsFile' = new /\ Kept' = new /\ new \in Seq(Record)
        /\ Distinct(new) /\ IdsIn(new) \subseteq generated /\ IdsIn(Kept) \ dropped \subseteq IdsIn(new)
    BY <1>4, RenamedFile
  <2>3. accountsFile' # Torn
    BY <2>2, StoreAssumption
  <2>4. PICK list : list = new
    OBVIOUS
  <2>5. Kept' = list /\ Distinct(list) /\ IdsIn(list) \subseteq generated /\ told \ dropped \subseteq IdsIn(list)
    BY <2>2, <2>4 DEF DiskAgrees
  <2> HIDE DEF new
  <2> QED BY <2>1, <2>3, <2>5 DEF DiskAgrees, Distinct, IdsIn
<1>5. CASE DropToken(p)
  BY <1>5 DEF DropToken, DiskAgrees, Kept, Distinct, IdsIn, history
<1>6. CASE Unlink(p)
  <2>1. UNCHANGED <<tokenFile, told, dropped, generated>>
    BY <1>6 DEF Unlink, history
  <2>2. CASE accountsFile' = None
    <3>1. pc[p] = "unlink" /\ Outcome(op[p], Kept, <<>>) /\ op[p] \in Operations
      BY <1>6, ListsInPlace DEF Unlink, ListAgrees
    <3>2. op[p].kind = "RemoveAccount" => op[p].id \in dropped
      BY <3>1 DEF CallAgrees
    <3>3. IdsIn(Kept) \subseteq dropped
      BY <3>1, <3>2, NoAccounts, OutcomeIsList DEF DiskAgrees
    <3>4. Kept' = <<>>
      BY <2>2 DEF Kept
    <3> QED BY <2>1, <2>2, <3>3, <3>4, StoreAssumption DEF DiskAgrees, Distinct, IdsIn
  <2>3. CASE accountsFile' # None
    BY <1>6, <2>1, <2>3, DiskUnchanged DEF Unlink
  <2> QED BY <2>2, <2>3
<1>7. CASE ClearAccounts(p)
  <2>1. UNCHANGED <<tokenFile, told, generated>> /\ dropped \subseteq dropped'
    BY <1>7 DEF ClearAccounts
  <2>2. CASE accountsFile' = None /\ dropped' = dropped \cup generated
    <3>1. Kept' = <<>>
      BY <2>2 DEF Kept
    <3> QED BY <2>1, <2>2, <3>1, StoreAssumption DEF DiskAgrees, Distinct, IdsIn, StoreTypeOK
  <2>3. CASE ~(accountsFile' = None /\ dropped' = dropped \cup generated)
    BY <1>7, <2>1, <2>3, DiskUnchanged DEF ClearAccounts
  <2> QED BY <2>2, <2>3
<1>8. CASE ClearToken(p) \/ ClearWorkspace(p)
  BY <1>8 DEF ClearToken, ClearWorkspace, DiskAgrees, Kept, Distinct, IdsIn, history
<1>9. CASE Respond(p)
  <2>1. IdsToldBy(p) \ dropped \subseteq IdsIn(Kept)
    BY <1>9 DEF Respond, AnswerAgrees
  <2> QED BY <1>9, <2>1 DEF Respond, DiskAgrees, Kept, Distinct, IdsIn, files
<1>10. ASSUME NEW o \in Operations, Call(p, o) PROVE DiskAgrees'
  BY <1>10, DiskUnchanged DEF Call, files
<1> QED BY <1>2, <1>3, <1>4, <1>5, <1>6, <1>7, <1>8, <1>9, <1>10 DEF Access

\* An answer tells identifiers that are on disk.
LEMMA AnswerStep ==
    ASSUME ListInv, NEW p, Procs = {p}, Access(p) \/ \E o \in Operations : Call(p, o)
    PROVE  AnswerAgrees(p)'
<1>1. /\ p \in Procs /\ StoreTypeOK /\ DiskAgrees /\ CallAgrees(p) /\ ListAgrees(p)
      /\ Kept \in Seq(Record) /\ accs[p] \in Seq(Record)
  BY ListsInPlace DEF ListInv
<1> USE <1>1
\* An answer that tells no identifier.
<1>2. ASSUME NEW v, AnswerWith(p, v), op' = op,
             v = Failed \/ (v.ok /\ op[p].kind \notin {"Accounts", "AddAccount"})
      PROVE  AnswerAgrees(p)'
  BY <1>2 DEF StoreTypeOK, AnswerAgrees, AnswerWith, Goto, IdsToldBy, Failed
<1>3. CASE LoadList(p) \/ LoadLegacy(p) \/ Write(p) \/ DropToken(p) \/ DropWorkspace(p)
           \/ DecideAddAccount(p) \/ DecideRemoveAccount(p)
  BY <1>3 DEF StoreTypeOK, AnswerAgrees, LoadList, LoadLegacy, Write, DropToken, DropWorkspace,
     DecideAddAccount, DecideRemoveAccount, Save, Goto
<1>4. CASE WriteFails(p) \/ RenameFails(p)
  <2>1. CASE pc[p] \in {"migrateWrite", "migrateRename"}
    BY <1>4, <2>1 DEF StoreTypeOK, AnswerAgrees, WriteFails, RenameFails, SaveFailed, Goto
  <2>2. CASE pc[p] \notin {"migrateWrite", "migrateRename"}
    <3>1. AnswerWith(p, Failed) /\ op' = op
      BY <1>4, <2>2 DEF WriteFails, RenameFails, SaveFailed
    <3> QED BY <1>2, <3>1
  <2> QED BY <2>1, <2>2
<1>5. CASE RenameFile(p)
  <2>1. CASE pc[p] = "migrateRename"
    BY <1>5, <2>1 DEF StoreTypeOK, AnswerAgrees, RenameFile, Goto
  <2>2. CASE pc[p] = "rename"
    <3>1. op' = op /\ dropped' = dropped /\ generated' = generated
          /\ AnswerWith(p, Answered(SavedValue(p)))
      BY <1>5, <2>2 DEF RenameFile
    <3>2. op[p] \in Operations /\ op[p].kind # "Accounts"
      BY <1>5, <2>2, ListsInPlace, RenamedFile DEF Outcome
    <3>3. CASE op[p].kind = "AddAccount"
      <4>1. PICK id : id = SavedValue(p)
        OBVIOUS
      <4>2. PICK list : list = accs[p]
        OBVIOUS
      <4>3. Kept' = list /\ id \in IdsIn(list) /\ IdsIn(list) \subseteq generated
        BY <1>5, <2>2, <3>3, <4>1, <4>2, SavedIsListed, RenamedFile
      <4>4. IdsToldBy(p)' = {id}
        BY <3>1, <3>3, <4>1 DEF StoreTypeOK, IdsToldBy, AnswerWith, Answered
      <4> QED BY <3>1, <4>3, <4>4 DEF AnswerAgrees, IdsIn
    <3>4. CASE op[p].kind # "AddAccount"
      BY <1>2, <3>1, <3>2, <3>4 DEF Answered
    <3> QED BY <3>3, <3>4
  <2> QED BY <1>5, <2>1, <2>2 DEF RenameFile
<1>6. CASE DecideAccounts(p)
  <2>1. /\ op[p].kind = "Accounts" /\ accs[p] = Kept /\ UNCHANGED <<op, dropped, generated, accountsFile>>
        /\ AnswerWith(p, Answered(NamesIn(Kept)))
    BY <1>6 DEF DecideAccounts, Deciding, NothingToSave, ListAgrees, files, history
  <2>2. PICK list : list = Kept
    OBVIOUS
  <2>3. Kept' = list /\ DOMAIN NamesIn(list) = IdsIn(list) /\ IdsIn(list) \subseteq generated
    BY <2>1, <2>2, NamesAreAnswers DEF Kept, DiskAgrees
  <2>4. out'[p] = Answered(NamesIn(list))
    BY <2>1, <2>2 DEF StoreTypeOK, AnswerWith
  <2>5. IdsToldBy(p)' = IdsIn(list)
    BY <2>1, <2>3, <2>4 DEF IdsToldBy, Answered
  <2> QED BY <2>1, <2>3, <2>5 DEF AnswerAgrees, IdsIn
<1>7. CASE DecideTokenFor(p)
  BY <1>2, <1>7 DEF DecideTokenFor, Deciding, NothingToSave, Answered
<1>8. CASE DecideSetWorkspace(p)
  <2>1. op' = op /\ op[p].kind = "SetWorkspace"
    BY <1>8 DEF DecideSetWorkspace, Deciding, NothingToSave, Save
  <2>2. CASE pc'[p] # "answer"
    BY <2>2 DEF AnswerAgrees
  <2>3. CASE pc'[p] = "answer"
    <3>1. AnswerWith(p, Answered(None))
      BY <1>8, <2>3 DEF StoreTypeOK, DecideSetWorkspace, NothingToSave, Save, Goto
    <3> QED BY <1>2, <2>1, <3>1 DEF Answered
  <2> QED BY <2>2, <2>3
<1>9. CASE Unlink(p)
  <2>1. op[p] \in Operations /\ Outcome(op[p], Kept, <<>>)
    BY <1>9, ListsInPlace DEF Unlink, ListAgrees
  <2>2. op[p].kind = "RemoveAccount"
    BY <2>1, OutcomeIsList DEF DiskAgrees
  <2> QED BY <1>2, <1>9, <2>2 DEF Unlink, Answered
<1>10. CASE ClearAccounts(p) \/ ClearToken(p) \/ ClearWorkspace(p)
  <2>1. op' = op /\ op[p].kind = "RemoveAllAccounts"
    BY <1>10 DEF ClearAccounts, ClearToken, ClearWorkspace, CallAgrees
  <2>2. \/ AnswerWith(p, Failed) \/ AnswerWith(p, Answered(None))
        \/ Goto(p, "clearToken") \/ Goto(p, "clearWorkspace")
    BY <1>10 DEF ClearAccounts, ClearToken, ClearWorkspace
  <2>3. CASE Goto(p, "clearToken") \/ Goto(p, "clearWorkspace")
    BY <2>3 DEF StoreTypeOK, Goto, AnswerAgrees
  <2> QED BY <1>2, <2>1, <2>2, <2>3 DEF Answered
<1>11. CASE Respond(p) \/ Crash(p)
  BY <1>11 DEF StoreTypeOK, AnswerAgrees, Respond, Crash, Leave, Goto
<1>12. ASSUME NEW o \in Operations, Call(p, o) PROVE AnswerAgrees(p)'
  BY <1>12 DEF StoreTypeOK, AnswerAgrees, Call, Goto
<1> QED BY <1>3, <1>4, <1>5, <1>6, <1>7, <1>8, <1>9, <1>10, <1>11, <1>12 DEF Access

\* Every step keeps the store well typed.
LEMMA TypeStep ==
    ASSUME ListInv, NEW p, Procs = {p}, Access(p) \/ \E o \in Operations : Call(p, o)
    PROVE  StoreTypeOK'
<1>1. /\ p \in Procs /\ StoreTypeOK /\ MigrationAgrees(p) /\ ListAgrees(p) /\ FilesTyped /\ HistoryTyped
      /\ AnswerAgrees(p) /\ CallAgrees(p) /\ DiskAgrees
      /\ Kept \in Seq(Record) /\ accs[p] \in Seq(Record)
      /\ accs \in [Procs -> Seq(Record)]
  BY ListsInPlace DEF ListInv, StoreTypeOK, FilesTyped, HistoryTyped
<1> USE <1>1
<1>2. CASE LoadList(p)
  <2>1. accs' \in [Procs -> Seq(Record)]
    <3>1. \E list \in Seq(Record) : accs' = [accs EXCEPT ![p] = list]
      <4>1. \/ accs' = [accs EXCEPT ![p] = accountsFile] /\ accountsFile \in Seq(Record)
            \/ accs' = [accs EXCEPT ![p] = <<>>]
        BY <1>2 DEF LoadList, FilesTyped
      <4>2. <<>> \in Seq(Record)
        OBVIOUS
      <4> QED BY <4>1, <4>2
    <3> QED BY <3>1
  <2> QED BY <1>2, <2>1, GoesOnTyped DEF LoadList, files, history, FilesTyped, HistoryTyped, Labels
<1>3. CASE LoadLegacy(p)
  <2>1. PICK id \in Ids \ generated, name \in {workspaceFile} \cup (IF May("read") THEN {NoName} ELSE {}) :
          /\ accs' = [accs EXCEPT ![p] = <<RecordOf(id, name, tokenFile)>>]
          /\ generated' = generated \cup {id}
    BY <1>3 DEF LoadLegacy
  <2>2. RecordOf(id, name, tokenFile) \in Record
    BY <1>3 DEF LoadLegacy, RecordOf, Record, FilesTyped
  <2>3. accs' \in [Procs -> Seq(Record)]
    BY <2>1, <2>2
  <2> QED BY <1>3, <2>1, <2>3, GoesOnTyped DEF LoadLegacy, files, FilesTyped, HistoryTyped, Labels
<1>4. CASE Write(p)
  <2>1. accs[p] # <<>>
    <3>1. pc[p] = "migrateWrite" => \E id : accs[p] = <<RecordOf(id, workspaceFile, tokenFile)>>
      BY DEF MigrationAgrees
    <3>2. pc[p] = "write" => accs[p] # <<>>
      BY DEF ListAgrees
    <3> QED BY <1>4, <3>1, <3>2 DEF Write
  <2>2. FilesTyped' /\ HistoryTyped' /\ (accs \in [Procs -> Seq(Record)])'
    BY <1>4, <2>1 DEF Write, FilesTyped, HistoryTyped, history
  <2> QED BY <1>4, <2>2, GoesOnTyped DEF Write, Labels
<1>5. CASE WriteFails(p) \/ RenameFails(p)
  <2>1. FilesTyped' /\ HistoryTyped' /\ (accs \in [Procs -> Seq(Record)])'
    BY <1>5 DEF WriteFails, RenameFails, FilesTyped, HistoryTyped, history, files
  <2> QED BY <1>5, <2>1, GoesOnTyped, AnswersTyped, AnswersAreAnswers
          DEF WriteFails, RenameFails, SaveFailed, Labels
<1>6. CASE RenameFile(p)
  <2>1. FilesTyped' /\ HistoryTyped' /\ (accs \in [Procs -> Seq(Record)])'
    BY <1>6, RenamedFile DEF RenameFile, FilesTyped, HistoryTyped
  <2>2. CASE pc[p] = "migrateRename"
    BY <1>6, <2>1, <2>2, GoesOnTyped DEF RenameFile, Labels
  <2>3. CASE pc[p] = "rename"
    <3>1. SavedValue(p) \in Ids \cup {None}
      BY <1>6, <2>3, SavedIsListed, RenamedFile DEF HistoryTyped
    <3> QED BY <1>6, <2>1, <2>3, <3>1, AnswersTyped, AnswersAreAnswers DEF RenameFile
  <2> QED BY <1>6, <2>2, <2>3 DEF RenameFile
<1>7. CASE DropToken(p) \/ DropWorkspace(p)
  <2>1. FilesTyped' /\ HistoryTyped' /\ (accs \in [Procs -> Seq(Record)])'
    BY <1>7 DEF DropToken, DropWorkspace, FilesTyped, HistoryTyped, history
  <2> QED BY <1>7, <2>1, GoesOnTyped DEF DropToken, DropWorkspace, Labels
<1>8. CASE DecideAccounts(p) \/ DecideTokenFor(p)
  <2>1. FilesTyped' /\ HistoryTyped' /\ UNCHANGED <<op, accs>>
    BY <1>8 DEF DecideAccounts, DecideTokenFor, NothingToSave, FilesTyped, HistoryTyped, history, files
  <2>2. CASE DecideAccounts(p)
    BY <2>1, <2>2, NamesAreAnswers, AnswersTyped DEF DecideAccounts, Deciding, NothingToSave
  <2>3. CASE DecideTokenFor(p)
    <3> DEFINE found == At(accs[p], op[p].id)
    <3>1. (IF found = {} THEN None ELSE accs[p][First(found)].token) \in Tokens \cup {None}
      <4>1. found # {} => First(found) \in DOMAIN accs[p]
        BY IndexesFound
      <4>2. \A i \in DOMAIN accs[p] : accs[p][i].token \in Tokens
        <5>1. \A i \in DOMAIN accs[p] : accs[p][i] \in Record
          OBVIOUS
        <5> QED BY <5>1 DEF Record
      <4> QED BY <4>1, <4>2
    <3> HIDE DEF found
    <3> QED BY <2>1, <2>3, <3>1, AnswersAreAnswers, AnswersTyped DEF DecideTokenFor, Deciding, NothingToSave, found
  <2> QED BY <1>8, <2>2, <2>3
<1>9. ASSUME NEW list \in Seq(Record), Save(p, list), pc[p] = "decide", HistoryTyped'
      PROVE  StoreTypeOK'
  <2>1. FilesTyped' /\ (accs \in [Procs -> Seq(Record)])'
    BY <1>9 DEF Save, FilesTyped, files
  <2> QED BY <1>9, <2>1, GoesOnTyped DEF Save, Labels
<1>10. CASE DecideAddAccount(p) \/ DecideSetWorkspace(p) \/ DecideRemoveAccount(p)
  <2>1. op[p] \in Operations /\ pc[p] = "decide" /\ accs[p] = Kept /\ Distinct(Kept)
        /\ IdsIn(Kept) \subseteq generated /\ FilesTyped
    BY <1>10, ListsInPlace DEF DecideAddAccount, DecideSetWorkspace, DecideRemoveAccount, Deciding,
       ListAgrees, DiskAgrees
  <2>2. HistoryTyped'
    BY <1>10 DEF DecideAddAccount, DecideSetWorkspace, DecideRemoveAccount, Save, NothingToSave,
       HistoryTyped, history
  <2>3. CASE DecideAddAccount(p)
    <3>1. op[p].token \in Tokens /\ op[p].workspace \in Names \cup {NoName}
      BY <2>1, <2>3 DEF DecideAddAccount, Deciding, Operations
    <3>2. CASE Named(accs[p], op[p].workspace) # {}
      <4>1. First(Named(accs[p], op[p].workspace)) \in DOMAIN accs[p]
        BY <3>2, IndexesFound
      <4>2. Refreshed(accs[p], First(Named(accs[p], op[p].workspace)), op[p].token) \in Seq(Record)
        BY <2>1, <3>1, <4>1, RefreshedList
      <4> QED BY <1>9, <2>1, <2>2, <2>3, <3>2, <4>2 DEF DecideAddAccount
    <3>3. CASE Named(accs[p], op[p].workspace) = {}
      <4>1. PICK id \in Ids \ generated :
               Save(p, Extended(accs[p], RecordOf(id, op[p].workspace, op[p].token)))
        BY <2>3, <3>3 DEF DecideAddAccount
      <4>2. RecordOf(id, op[p].workspace, op[p].token) \in Record
        BY <3>1 DEF RecordOf, Record
      <4>3. Extended(accs[p], RecordOf(id, op[p].workspace, op[p].token)) \in Seq(Record)
        BY <4>2 DEF Extended
      <4> QED BY <1>9, <2>1, <2>2, <4>1, <4>3
    <3> QED BY <3>2, <3>3
  <2>4. CASE DecideSetWorkspace(p)
    <3> DEFINE stale == {i \in At(accs[p], op[p].id) : accs[p][i].workspace # op[p].workspace}
    <3>1. CASE NothingToSave(p, None)
      <4>1. FilesTyped' /\ UNCHANGED <<op, accs>>
        BY <3>1 DEF NothingToSave, FilesTyped, files
      <4> QED BY <2>1, <2>2, <3>1, <4>1, AnswersTyped, AnswersAreAnswers DEF NothingToSave
    <3>2. CASE stale # {} /\ Save(p, Renamed(accs[p], First(stale), op[p].workspace))
      <4>1. First(stale) \in DOMAIN accs[p] /\ op[p].workspace \in Names
        <5>1. stale \in SUBSET (DOMAIN accs[p])
          BY IndexesFound
        <5>2. op[p].workspace \in Names
          BY <2>1, <2>4 DEF DecideSetWorkspace, Deciding, Operations
        <5> QED BY <3>2, <5>1, <5>2, IndexesFound
      <4>2. Renamed(accs[p], First(stale), op[p].workspace) \in Seq(Record)
        BY <2>1, <4>1, RenamedList
      <4> QED BY <1>9, <2>1, <2>2, <3>2, <4>2
    <3> QED BY <2>4, <3>1, <3>2 DEF DecideSetWorkspace
  <2>5. CASE DecideRemoveAccount(p)
    <3>1. Removed(accs[p], op[p].id) \in Seq(Record)
      BY <2>1, RemovedList
    <3> QED BY <1>9, <2>1, <2>2, <2>5, <3>1 DEF DecideRemoveAccount
  <2> QED BY <1>10, <2>3, <2>4, <2>5
<1>11. CASE Unlink(p) \/ ClearAccounts(p) \/ ClearToken(p) \/ ClearWorkspace(p)
  <2>1. FilesTyped' /\ HistoryTyped' /\ UNCHANGED <<op, accs>> /\ (accs \in [Procs -> Seq(Record)])'
    BY <1>11 DEF Unlink, ClearAccounts, ClearToken, ClearWorkspace, FilesTyped, HistoryTyped, history
  <2>2. /\ pc[p] \notin {"idle", "answer"}
        /\ \/ AnswerWith(p, Failed) \/ AnswerWith(p, Answered(None))
           \/ (Goto(p, "clearToken") \/ Goto(p, "clearWorkspace")) /\ UNCHANGED out
    BY <1>11 DEF Unlink, ClearAccounts, ClearToken, ClearWorkspace
  <2> QED BY <2>1, <2>2, GoesOnTyped, AnswersTyped, AnswersAreAnswers DEF Labels
<1>12. CASE Respond(p) \/ Crash(p)
  <2>1. FilesTyped' /\ HistoryTyped'
    BY <1>12 DEF Respond, Crash, FilesTyped, HistoryTyped, files, AnswerAgrees
  <2>2. Leave(p)
    BY <1>12 DEF Respond, Crash
  <2>3. /\ (pc \in [Procs -> Labels] /\ op \in [Procs -> Operations \cup {None}])'
        /\ (accs \in [Procs -> Seq(Record)] /\ out \in [Procs -> StoreAnswers \cup {None}])'
        /\ (\A q \in Procs : (pc[q] = "idle" <=> op[q] = None) /\ (pc[q] # "answer" <=> out[q] = None))'
    BY <2>2 DEF StoreTypeOK, Leave, Goto, Labels
  <2> QED BY <2>1, <2>3 DEF StoreTypeOK, FilesTyped, HistoryTyped
<1>13. ASSUME NEW o \in Operations, Call(p, o) PROVE StoreTypeOK'
  <2>1. FilesTyped' /\ HistoryTyped' /\ UNCHANGED <<accs, out>>
    BY <1>13 DEF Call, FilesTyped, HistoryTyped, files, Operations
  <2>2. /\ pc[p] = "idle" /\ op' = [op EXCEPT ![p] = o] /\ o # None
        /\ \E label \in {"load", "clearAccounts"} : pc' = [pc EXCEPT ![p] = label]
    BY <1>13, NothingAssumption DEF Call, Goto
  <2>3. op' \in [Procs -> Operations \cup {None}] /\ pc' \in [Procs -> Labels]
    BY <2>2 DEF StoreTypeOK, Labels
  <2> QED BY <2>1, <2>2, <2>3 DEF StoreTypeOK, FilesTyped, HistoryTyped
<1> QED BY <1>2, <1>3, <1>4, <1>5, <1>6, <1>7, <1>8, <1>10, <1>11, <1>12, <1>13 DEF Access

\* The files start in order: on a fresh device in any case, on one paired by an
\* old version where nothing fails.
LEMMA ListInitInv ==
    ASSUME FreshInit \/ (LegacyInit /\ NoFaults)
    PROVE  ListInv
<1>1. Kept = <<>> /\ StoreInit
  BY DEF Kept, FreshInit, LegacyInit, StoreInit
<1>2. StoreTypeOK
  BY <1>1 DEF FreshInit, LegacyInit, StoreInit, StoreTypeOK, Labels
<1>3. DiskAgrees
  BY <1>1, NoAccounts, StoreAssumption DEF FreshInit, LegacyInit, StoreInit, DiskAgrees
<1>4. ASSUME NEW p \in Procs
      PROVE  CallAgrees(p) /\ MigrationAgrees(p) /\ ListAgrees(p) /\ AnswerAgrees(p)
  BY <1>1 DEF StoreInit, CallAgrees, MigrationAgrees, ListAgrees, AnswerAgrees
<1> QED BY <1>2, <1>3, <1>4 DEF ListInv

\* ... and every step of the one process leaves them in order.
LEMMA ListStepInv ==
    ASSUME OneProcess, "read" \notin FailKinds, ListInv, [StoreNext]_storeVars
    PROVE  ListInv'
<1>1. PICK p : Procs = {p}
  BY DEF OneProcess
<1>2. CASE StoreNext
  <2>1. Access(p) \/ \E o \in Operations : Call(p, o)
    BY <1>1, <1>2 DEF StoreNext
  <2>2. /\ StoreTypeOK' /\ DiskAgrees' /\ CallAgrees(p)' /\ MigrationAgrees(p)' /\ ListAgrees(p)'
        /\ AnswerAgrees(p)'
    BY <1>1, <2>1, TypeStep, DiskStep, CallStep, MigrationStep, ListStep, AnswerStep
  <2> QED BY <1>1, <2>2 DEF ListInv
<1>3. CASE UNCHANGED storeVars
  <2>1. UNCHANGED <<accountsFile, tmpFile, tokenFile, workspaceFile, pc, op, accs, out, generated,
                    told, dropped, migrations, crashes>>
    BY <1>3 DEF storeVars, files, locals, history
  <2>2. StoreTypeOK' /\ DiskAgrees'
    BY <2>1, DiskUnchanged DEF ListInv, StoreTypeOK
  <2>3. CallAgrees(p)' /\ MigrationAgrees(p)' /\ AnswerAgrees(p)'
    BY <1>1, <2>1 DEF ListInv, CallAgrees, MigrationAgrees, AnswerAgrees, IdsToldBy, Kept, IdsIn
  <2>4. ListAgrees(p)'
    BY <1>1, <2>1 DEF ListInv, ListAgrees, Outcome, Kept
  <2> QED BY <1>1, <2>2, <2>3, <2>4 DEF ListInv
<1> QED BY <1>2, <1>3

-----------------------------------------------------------------------------
(* The theorems *)

\* On a fresh device the files and the one process that works on them agree at
\* every step, whatever writes and removals fail and however often it dies.
THEOREM StoreCorrect ==
    ASSUME OneProcess, "read" \notin FailKinds
    PROVE  FreshSpec => []ListInv
<1>1. FreshInit => ListInv
  BY ListInitInv
<1>2. ListInv /\ [StoreNext]_storeVars => ListInv'
  BY ListStepInv
<1> QED BY <1>1, <1>2, PTL DEF FreshSpec

\* On a device paired by an old version they do where nothing fails.
THEOREM LegacyStoreCorrect ==
    ASSUME OneProcess, NoFaults
    PROVE  LegacySpec => []ListInv
<1>1. LegacyInit => ListInv
  BY ListInitInv
<1>2. "read" \notin FailKinds
  BY DEF NoFaults
<1>3. ListInv /\ [StoreNext]_storeVars => ListInv'
  BY <1>2, ListStepInv
<1> QED BY <1>1, <1>3, PTL DEF LegacySpec

\* No account that the store has answered with gets lost: no operation on
\* another account, no failing write and no crash takes it out of
\* accounts.json before its removal is asked for (store.go:91-104, 210-216).
THEOREM AcknowledgedAccountsAreKept ==
    ASSUME OneProcess, "read" \notin FailKinds
    PROVE  FreshSpec => []AcknowledgedIsKept
<1>1. ListInv => AcknowledgedIsKept
  BY DEF ListInv, DiskAgrees, AcknowledgedIsKept
<1> QED BY <1>1, StoreCorrect, PTL

\* How far the one process is with a migration, when no removal fails: a token
\* that is still there, and not about to go, was kept by a crash or never taken.
MigrationInv ==
    /\ pc \in [Procs -> Labels] /\ migrations \in Nat /\ crashes \in Nat
    /\ migrations <= 1 + crashes
    /\ \A p \in Procs :
         /\ tokenFile # None /\ pc[p] # "dropToken" => migrations <= crashes
         /\ pc[p] \in {"migrateWrite", "migrateRename"} => tokenFile # None

LEMMA MigrationInvStep ==
    ASSUME OneProcess, "remove" \notin FailKinds, MigrationInv, [StoreNext]_storeVars
    PROVE  MigrationInv'
<1>1. PICK p : Procs = {p}
  BY DEF OneProcess
<1>2. CASE StoreNext
  <2>1. Access(p) \/ \E o \in Operations : Call(p, o)
    BY <1>1, <1>2 DEF StoreNext
  <2>2. CASE LoadList(p) \/ LoadLegacy(p) \/ Write(p) \/ WriteFails(p) \/ RenameFile(p)
             \/ RenameFails(p) \/ DropToken(p) \/ DropWorkspace(p)
    BY <1>1, <2>2 DEF MigrationInv, LoadList, LoadLegacy, Write, WriteFails, RenameFile, RenameFails,
       DropToken, DropWorkspace, SaveFailed, AnswerWith, Goto, May, Labels, files, history
  <2>3. CASE DecideAccounts(p) \/ DecideTokenFor(p) \/ DecideAddAccount(p) \/ DecideSetWorkspace(p)
             \/ DecideRemoveAccount(p)
    BY <1>1, <2>3 DEF MigrationInv, DecideAccounts, DecideTokenFor, DecideAddAccount,
       DecideSetWorkspace, DecideRemoveAccount, Deciding, NothingToSave, Save, AnswerWith, Goto,
       Labels, files, history
  <2>4. CASE Unlink(p) \/ ClearAccounts(p) \/ ClearToken(p) \/ ClearWorkspace(p)
    BY <1>1, <2>4 DEF MigrationInv, Unlink, ClearAccounts, ClearToken, ClearWorkspace, AnswerWith,
       Goto, Labels, history
  <2>5. CASE Respond(p) \/ Crash(p)
    BY <1>1, <2>5 DEF MigrationInv, Respond, Crash, Leave, Goto, Labels, files
  <2>6. ASSUME NEW o \in Operations, Call(p, o) PROVE MigrationInv'
    BY <1>1, <2>6 DEF MigrationInv, Call, Goto, Labels, files
  <2> QED BY <2>1, <2>2, <2>3, <2>4, <2>5, <2>6 DEF Access
<1>3. CASE UNCHANGED storeVars
  BY <1>3 DEF storeVars, files, locals, history, MigrationInv
<1> QED BY <1>2, <1>3

\* The files of the single-account format are taken over once, and once more at
\* most for every crash, by a process whose removals work, however often reads
\* and writes fail meanwhile (loadAccounts, store_test.go:107).
THEOREM MigrationHappensOnce ==
    ASSUME OneProcess, "remove" \notin FailKinds
    PROVE  LegacySpec => []MigrationRunsOnce
<1>1. LegacyInit => MigrationInv
  BY DEF LegacyInit, StoreInit, MigrationInv, Labels
<1>2. MigrationInv /\ [StoreNext]_storeVars => MigrationInv'
  BY MigrationInvStep
<1>3. MigrationInv => MigrationRunsOnce
  BY DEF MigrationInv, MigrationRunsOnce
<1> QED BY <1>1, <1>2, <1>3, PTL DEF LegacySpec

-----------------------------------------------------------------------------
(* The account list *)

\* The list speaks of maps, entries and answers as the files do.
LEMMA SameVocabulary ==
    /\ \A m, k, v : Listed!Put(m, k, v) = Put(m, k, v)
    /\ \A m, S : Listed!Without(m, S) = Without(m, S)
    /\ \A name, t : Listed!Entry(name, t) = Entry(name, t)
    /\ \A v : Listed!Answered(v) = Answered(v)
    /\ Listed!EmptyMap = EmptyMap /\ Listed!Failed = Failed /\ Listed!Account = Account
    /\ Listed!Operations = Operations
BY DEF Listed!Put, Put, Listed!Without, Without, Listed!Entry, Entry, Listed!Answered, Answered,
       Listed!EmptyMap, EmptyMap, Listed!Failed, Failed, Listed!Account, Account,
       Listed!Operations, Operations

\* What a caller sees does not change with a step between two file accesses.
LEMMA InvisibleStep ==
    ASSUME StoreTypeOK, NEW p \in Procs, NEW label \in Labels \ {"answer"}, pc[p] # "answer",
           Goto(p, label), UNCHANGED <<op, out>>, AccountsOf(Kept)' = AccountsOf(Kept), OldAccount' = OldAccount
    PROVE  UNCHANGED Listed!listVars
<1>1. AnswersGiven' = AnswersGiven
  BY DEF StoreTypeOK, Goto, AnswersGiven
<1> QED BY <1>1 DEF Listed!listVars

\* An answer becomes visible when the process is about to give it.
LEMMA VisibleAnswer ==
    ASSUME StoreTypeOK, NEW p \in Procs, NEW v, pc[p] \notin {"idle", "answer"}, AnswerWith(p, v),
           UNCHANGED op
    PROVE  /\ Listed!Answer(p, v)
           /\ \A kind : op[p].kind = kind => Listed!InProgress(p, kind)
<1>1. AnswersGiven' = [AnswersGiven EXCEPT ![p] = v]
  BY DEF StoreTypeOK, AnswerWith, Goto, AnswersGiven
<1>2. AnswersGiven[p] = None /\ op[p] # None
  BY DEF StoreTypeOK, AnswersGiven
<1> QED BY <1>1, <1>2 DEF Listed!Answer, Listed!InProgress

\* AddAccount takes effect with the rename of the file it has written.
LEMMA AddIsListed ==
    ASSUME ListInv, NEW p, Procs = {p}, RenameFile(p), pc[p] = "rename", op[p].kind = "AddAccount",
           OldAccount = None, OldAccount' = None
    PROVE  Listed!RefreshToken(p) \/ Listed!Join(p)
<1>1. p \in Procs /\ StoreTypeOK /\ Kept \in Seq(Record) /\ Distinct(Kept) /\ op[p] \in Operations
      /\ Outcome(op[p], Kept, accs[p]) /\ Kept' = accs[p]
  BY ListsInPlace, RenamedFile DEF ListInv, DiskAgrees
<1>2. op[p].token \in Tokens /\ op[p].workspace \in Names \cup {NoName}
  BY <1>1 DEF Operations
<1>3. Listed!Answer(p, Answered(SavedValue(p))) /\ Listed!InProgress(p, "AddAccount")
  <2>1. AnswerWith(p, Answered(SavedValue(p))) /\ op' = op
    BY DEF RenameFile
  <2> QED BY <1>1, <2>1, VisibleAnswer
<1> DEFINE name == op[p].workspace
           t == op[p].token
<1>4. PICK list \in {Kept}, new \in {accs[p]} : list = Kept /\ new = accs[p]
  OBVIOUS
<1>5. AccountsOf(Kept) = AccountsOf(list) /\ AccountsOf(Kept)' = AccountsOf(new)
  BY <1>1, <1>4
<1>6. DOMAIN AccountsOf(list) = IdsIn(list)
  BY DEF AccountsOf
<1>7. \A i \in DOMAIN list : AccountsOf(list)[list[i].id] = Entry(list[i].workspace, list[i].token)
  BY <1>1, <1>4, EveryRecordCounts DEF RecordsOf
<1>8. CASE Named(list, name) # {}
  <2> DEFINE i == First(Named(list, name))
  <2>1. i \in DOMAIN list /\ i \in Named(list, name)
    BY <1>1, <1>4, <1>8, IndexesFound
  <2>2. list[i].workspace = name /\ name # NoName /\ list[i].id \in IdsIn(list)
    BY <2>1 DEF Named, IdsIn
  <2>3. new = Refreshed(list, i, t)
    BY <1>1, <1>4, <1>8 DEF Outcome
  <2>4. SavedValue(p) = list[i].id
    BY <1>1, <1>2, <1>4, <1>8, <2>3, AddedIsSaved
  <2>5. AccountsOf(new) = Put(AccountsOf(list), list[i].id, Entry(list[i].workspace, t))
    BY <1>1, <1>2, <1>4, <2>1, <2>3, RefreshedList
  <2>6. AccountsOf(list)[list[i].id].workspace = name
    <3>1. AccountsOf(list)[list[i].id] = Entry(list[i].workspace, list[i].token)
      BY <1>7, <2>1
    <3> HIDE DEF i
    <3> QED BY <3>1, <2>2 DEF Entry
  <2> HIDE DEF i
  <2>7. PICK id : id = list[i].id
    OBVIOUS
  <2>8. /\ id \in DOMAIN AccountsOf(Kept)
        /\ AccountsOf(Kept)[id].workspace = name /\ name # NoName
        /\ AccountsOf(Kept)' = Put(AccountsOf(Kept), id, Entry(AccountsOf(Kept)[id].workspace, t))
        /\ Listed!Answer(p, Answered(id))
    BY <1>3, <1>5, <1>6, <2>2, <2>4, <2>5, <2>6, <2>7
  <2> QED BY <1>3, <2>8, SameVocabulary DEF Listed!RefreshToken
<1>9. CASE Named(list, name) = {}
  <2>1. PICK id \in generated \ IdsIn(list) : new = Extended(list, RecordOf(id, name, t))
    BY <1>1, <1>4, <1>9 DEF Outcome
  <2>2. id \in Ids /\ SavedValue(p) = id
    BY <1>1, <1>2, <1>4, <1>9, <2>1, AddedIsSaved DEF StoreTypeOK
  <2>3. RecordOf(id, name, t) \in Record /\ RecordOf(id, name, t).id = id
        /\ RecordOf(id, name, t).workspace = name /\ RecordOf(id, name, t).token = t
    BY <1>2, <2>2 DEF RecordOf, Record
  <2>4. AccountsOf(new) = Put(AccountsOf(list), id, Entry(name, t))
    BY <1>1, <1>4, <2>1, <2>3, ExtendedList
  <2>5. name # NoName => \A j \in DOMAIN AccountsOf(list) : AccountsOf(list)[j].workspace # name
    <3>1. ASSUME name # NoName, NEW j \in IdsIn(list) PROVE AccountsOf(list)[j].workspace # name
      <4>1. PICK i \in DOMAIN list : list[i].id = j
        BY DEF IdsIn
      <4>2. list[i].workspace # name
        BY <1>9, <3>1 DEF Named
      <4>3. AccountsOf(list)[j] = Entry(list[i].workspace, list[i].token)
        BY <1>7, <4>1
      <4> QED BY <4>2, <4>3 DEF Entry
    <3> QED BY <1>6, <3>1
  <2> QED BY <1>3, <1>5, <1>6, <2>1, <2>2, <2>4, <2>5, SameVocabulary DEF Listed!Join
<1> QED BY <1>8, <1>9

\* So does SetWorkspace ...
LEMMA RenameIsListed ==
    ASSUME ListInv, NEW p, Procs = {p}, RenameFile(p), pc[p] = "rename", op[p].kind = "SetWorkspace",
           OldAccount = None, OldAccount' = None
    PROVE  Listed!Rename(p)
<1>1. p \in Procs /\ StoreTypeOK /\ Kept \in Seq(Record) /\ Distinct(Kept) /\ op[p] \in Operations
      /\ Outcome(op[p], Kept, accs[p]) /\ Kept' = accs[p]
  BY ListsInPlace, RenamedFile DEF ListInv, DiskAgrees
<1>2. Listed!Answer(p, Answered(None)) /\ Listed!InProgress(p, "SetWorkspace")
  <2>1. AnswerWith(p, Answered(None)) /\ op' = op
    BY SavedIsListed DEF RenameFile
  <2> QED BY <1>1, <2>1, VisibleAnswer
<1>3. PICK list \in {Kept}, new \in {accs[p]}, id \in {op[p].id}, name \in {op[p].workspace} :
         list = Kept /\ new = accs[p] /\ id = op[p].id /\ name = op[p].workspace
  OBVIOUS
<1>4. AccountsOf(Kept) = AccountsOf(list) /\ AccountsOf(Kept)' = AccountsOf(new)
  BY <1>1, <1>3
<1> DEFINE stale == {i \in At(list, id) : list[i].workspace # name}
           i == First(stale)
<1>5. new = Renamed(list, i, name) /\ stale # {} /\ name \in Names
  BY <1>1, <1>3 DEF Outcome, Operations
<1>6. i \in stale
  <2>1. stale \in SUBSET (DOMAIN list)
    BY <1>1, <1>3, IndexesFound
  <2> QED BY <1>1, <1>3, <1>5, <2>1, IndexesFound
<1>7. i \in DOMAIN list /\ list[i].id = id
  BY <1>6 DEF At
<1> HIDE DEF i, stale
<1>8. AccountsOf(new) = Put(AccountsOf(list), id, Entry(name, list[i].token))
  BY <1>1, <1>3, <1>5, <1>7, RenamedList
<1>9. id \in DOMAIN AccountsOf(list) /\ AccountsOf(list)[id].token = list[i].token
  <2>1. id \in IdsIn(list) /\ AccountsOf(list)[id] = Entry(list[i].workspace, list[i].token)
    BY <1>1, <1>3, <1>7, EveryRecordCounts DEF RecordsOf
  <2>2. AccountsOf(list)[id].token = list[i].token
    BY <2>1 DEF Entry
  <2> QED BY <2>1, <2>2 DEF AccountsOf
<1> QED BY <1>2, <1>3, <1>4, <1>8, <1>9, SameVocabulary DEF Listed!Rename

\* ... and RemoveAccount, with the rename or, when nothing is left, with the
\* removal of the file.
LEMMA RemoveIsListed ==
    ASSUME ListInv, NEW p, Procs = {p}, pc[p] \in {"rename", "unlink"}, op[p].kind = "RemoveAccount",
           Kept' = accs[p], AnswerWith(p, Answered(None)), op' = op,
           OldAccount = None, OldAccount' = None
    PROVE  Listed!Remove(p)
<1>1. p \in Procs /\ StoreTypeOK /\ Kept \in Seq(Record) /\ Distinct(Kept)
      /\ accs[p] = Removed(Kept, op[p].id)
  BY ListsInPlace DEF ListInv, DiskAgrees, ListAgrees, Outcome
<1>2. Listed!Answer(p, Answered(None)) /\ Listed!InProgress(p, "RemoveAccount")
  BY <1>1, VisibleAnswer
<1>3. PICK list \in {Kept}, new \in {accs[p]}, id \in {op[p].id} :
         list = Kept /\ new = accs[p] /\ id = op[p].id
  OBVIOUS
<1>4. AccountsOf(Kept) = AccountsOf(list) /\ AccountsOf(Kept)' = AccountsOf(new)
  BY <1>3
<1>5. AccountsOf(new) = Without(AccountsOf(list), {id})
  BY <1>1, <1>3, RemovedList
<1> QED BY <1>2, <1>3, <1>4, <1>5, SameVocabulary DEF Listed!Remove

\* The rename that ends a migration adopts the old account.
LEMMA MigrationIsListed ==
    ASSUME ListInv, NEW p, Procs = {p}, RenameFile(p), pc[p] = "migrateRename"
    PROVE  Listed!Adopt(p)
<1>1. p \in Procs /\ StoreTypeOK /\ op[p] \in Operations /\ op[p].kind # "RemoveAllAccounts"
      /\ accountsFile = None /\ tokenFile # None /\ accountsFile' = accs[p] /\ Kept' = accs[p]
  BY ListsInPlace, RenamedFile DEF ListInv, CallAgrees, MigrationAgrees
<1>2. PICK id \in generated, list \in {accs[p]} :
         list = accs[p] /\ list = <<RecordOf(id, workspaceFile, tokenFile)>>
  BY <1>1 DEF ListInv, MigrationAgrees
<1>3. id \in Ids /\ RecordOf(id, workspaceFile, tokenFile) \in Record
      /\ Entry(workspaceFile, tokenFile) \in Account
  BY <1>1, <1>2 DEF StoreTypeOK, RecordOf, Record, Entry, Account
<1>4. OldAccount = Entry(workspaceFile, tokenFile) /\ OldAccount # None /\ OldAccount' = None
  <2>1. accountsFile' # None
    BY <1>1, <1>2, <1>3, RenamedFile, StoreAssumption
  <2> QED BY <1>1, <1>3, <2>1, NothingAssumption DEF OldAccount
<1>5. AccountsOf(list) = Put(EmptyMap, id, Entry(workspaceFile, tokenFile))
  <2> DEFINE m == Put(EmptyMap, id, Entry(workspaceFile, tokenFile))
             r == RecordOf(id, workspaceFile, tokenFile)
  <2>1. r.id = id /\ r.workspace = workspaceFile /\ r.token = tokenFile
    BY DEF RecordOf
  <2>2. list = <<r>> /\ r \in Record
    BY <1>2, <1>3
  <2> HIDE DEF r
  <2>3. list \in Seq(Record) /\ RecordsOf(list) = {r} /\ IdsIn(list) = {id} /\ Distinct(list)
    BY <2>1, <2>2 DEF RecordsOf, IdsIn, Distinct
  <2>4. m[r.id] = Entry(r.workspace, r.token) /\ m = [i \in IdsIn(list) |-> m[i]]
    BY <2>1, <2>3 DEF Put, EmptyMap
  <2> HIDE DEF m
  <2>5. AccountsOf(list) = m
    BY <2>3, <2>4, SameAccounts
  <2> QED BY <2>5 DEF m
<1>6. AccountsOf(Kept)' = Put(EmptyMap, id, OldAccount)
  BY <1>1, <1>2, <1>4, <1>5
<1>7. op' = op /\ AnswersGiven' = AnswersGiven
  BY <1>1 DEF RenameFile, Goto, AnswersGiven, StoreTypeOK
<1>8. \E kind \in {"Accounts", "TokenFor", "AddAccount", "SetWorkspace", "RemoveAccount"} :
         Listed!InProgress(p, kind)
  <2>1. op[p] # None /\ AnswersGiven[p] = None
    BY <1>1 DEF StoreTypeOK, AnswersGiven
  <2>2. op[p].kind \in {"Accounts", "TokenFor", "AddAccount", "SetWorkspace", "RemoveAccount"}
    BY <1>1 DEF Operations
  <2> QED BY <2>1, <2>2 DEF Listed!InProgress
<1> QED BY <1>3, <1>4, <1>6, <1>7, <1>8, SameVocabulary DEF Listed!Adopt

\* Operations that change nothing answer what the list says.
LEMMA ReadsAreListed ==
    ASSUME ListInv, NEW p, Procs = {p}, DecideAccounts(p) \/ DecideTokenFor(p)
    PROVE  Listed!ListAccounts(p) \/ Listed!ReadToken(p)
<1>1. p \in Procs /\ StoreTypeOK /\ Kept \in Seq(Record) /\ Distinct(Kept) /\ op[p] \in Operations
      /\ accs[p] = Kept /\ tokenFile = None /\ UNCHANGED <<op, accountsFile, tokenFile>>
  BY ListsInPlace DEF ListInv, DiskAgrees, ListAgrees, MigrationAgrees, DecideAccounts, DecideTokenFor,
     Deciding, NothingToSave, files
<1>2. OldAccount = None /\ OldAccount' = None /\ AccountsOf(Kept)' = AccountsOf(Kept)
  <2>1. Kept' = Kept
    BY <1>1 DEF Kept
  <2> QED BY <1>1, <2>1 DEF OldAccount
<1>3. CASE DecideAccounts(p)
  <2>1. Listed!Answer(p, Answered(NamesIn(Kept))) /\ Listed!InProgress(p, "Accounts")
    <3>1. /\ AnswerWith(p, Answered(NamesIn(Kept))) /\ op[p].kind = "Accounts"
          /\ pc[p] \notin {"idle", "answer"}
      BY <1>1, <1>3 DEF DecideAccounts, Deciding, NothingToSave
    <3> QED BY <1>1, <3>1, VisibleAnswer
  <2>2. NamesIn(Kept) = Listed!NamesOf(AccountsOf(Kept))
    <3>1. PICK list : list = Kept
      OBVIOUS
    <3>2. NamesIn(list) = Listed!NamesOf(AccountsOf(list))
      BY DEF NamesIn, AccountsOf, Listed!NamesOf, Entry
    <3> QED BY <3>1, <3>2
  <2> QED BY <1>2, <2>1, <2>2, SameVocabulary DEF Listed!ListAccounts
<1>4. CASE DecideTokenFor(p)
  <2> DEFINE token == IF op[p].id \in DOMAIN AccountsOf(Kept)
                      THEN AccountsOf(Kept)[op[p].id].token ELSE None
  <2>1. PICK id \in {op[p].id}, v \in {token} : id = op[p].id /\ v = token
    OBVIOUS
  <2>2. PICK list : list = Kept
    OBVIOUS
  <2>3. v = IF At(list, id) = {} THEN None ELSE list[First(At(list, id))].token
    <3>1. v = IF id \in IdsIn(list) THEN AccountsOf(list)[id].token ELSE None
      BY <2>1, <2>2 DEF AccountsOf
    <3>2. id \in IdsIn(list) => AccountsOf(list)[id].token = list[First(At(list, id))].token
      BY DEF AccountsOf, Entry
    <3> QED BY <1>1, <2>2, <3>1, <3>2, IndexesFound
  <2>4. AnswerWith(p, Answered(v)) /\ op[p].kind = "TokenFor" /\ pc[p] \notin {"idle", "answer"}
    BY <1>1, <1>4, <2>1, <2>2, <2>3 DEF DecideTokenFor, Deciding, NothingToSave
  <2>5. Listed!Answer(p, Answered(v)) /\ Listed!InProgress(p, "TokenFor")
    BY <1>1, <2>4, VisibleAnswer
  <2> QED BY <1>2, <2>1, <2>5, SameVocabulary DEF Listed!ReadToken
<1> QED BY <1>3, <1>4

\* SetWorkspace on an account that is not listed, or has that name already.
LEMMA SameNameIsListed ==
    ASSUME ListInv, NEW p, Procs = {p}, DecideSetWorkspace(p), NothingToSave(p, None)
    PROVE  Listed!Rename(p)
<1>1. p \in Procs /\ StoreTypeOK /\ Kept \in Seq(Record) /\ Distinct(Kept) /\ op[p] \in Operations
      /\ accs[p] = Kept /\ tokenFile = None /\ UNCHANGED <<op, accountsFile, tokenFile>>
      /\ op[p].kind = "SetWorkspace" /\ pc[p] = "decide" /\ pc'[p] = "answer"
  BY ListsInPlace DEF ListInv, DiskAgrees, ListAgrees, MigrationAgrees, StoreTypeOK, DecideSetWorkspace,
     Deciding, NothingToSave, AnswerWith, Goto, files
<1>2. OldAccount = None /\ OldAccount' = None /\ AccountsOf(Kept)' = AccountsOf(Kept)
  <2>1. Kept' = Kept
    BY <1>1 DEF Kept
  <2> QED BY <1>1, <2>1 DEF OldAccount
<1>3. Listed!Answer(p, Answered(None)) /\ Listed!InProgress(p, "SetWorkspace")
  <2>1. AnswerWith(p, Answered(None))
    BY DEF NothingToSave
  <2> QED BY <1>1, <2>1, VisibleAnswer
<1>4. PICK list \in {Kept}, id \in {op[p].id}, name \in {op[p].workspace} :
         list = Kept /\ id = op[p].id /\ name = op[p].workspace
  OBVIOUS
<1>5. {i \in At(list, id) : list[i].workspace # name} = {}
  <2>1. ~Goto(p, IF Renamed(accs[p], First({i \in At(list, id) : list[i].workspace # name}), name) = <<>>
                 THEN "unlink" ELSE "write")
    BY <1>1 DEF Goto, StoreTypeOK
  <2> QED BY <1>1, <1>4, <2>1 DEF DecideSetWorkspace, Save
<1>6. ASSUME id \in DOMAIN AccountsOf(list)
      PROVE  AccountsOf(list) = Put(AccountsOf(list), id, Entry(name, AccountsOf(list)[id].token))
  <2>1. PICK i \in DOMAIN list : list[i].id = id
    BY <1>6 DEF AccountsOf, IdsIn
  <2>2. list[i].workspace = name
    BY <1>5, <2>1 DEF At
  <2>3. AccountsOf(list)[id] = Entry(name, list[i].token)
    BY <1>1, <1>4, <2>1, <2>2, EveryRecordCounts DEF RecordsOf
  <2>4. AccountsOf(list)[id].token = list[i].token
    BY <2>3 DEF Entry
  <2>5. AccountsOf(list) = [j \in IdsIn(list) |-> AccountsOf(list)[j]]
    BY DEF AccountsOf
  <2>6. id \in IdsIn(list)
    BY <2>1 DEF IdsIn
  <2> QED BY <2>3, <2>4, <2>5, <2>6 DEF Put
<1> QED BY <1>2, <1>3, <1>4, <1>6, SameVocabulary DEF Listed!Rename

\* RemoveAllAccounts forgets the list and the old account, file by file.
LEMMA ClearIsListed ==
    ASSUME ListInv, NEW p, Procs = {p}, ClearAccounts(p) \/ ClearToken(p) \/ ClearWorkspace(p)
    PROVE  Listed!Clear(p) \/ Listed!Cleared(p) \/ Listed!Fail(p) \/ UNCHANGED Listed!listVars
<1>1. p \in Procs /\ StoreTypeOK /\ MigrationAgrees(p) /\ op' = op /\ op[p].kind = "RemoveAllAccounts"
      /\ pc[p] \notin {"idle", "answer"}
  BY DEF ListInv, CallAgrees, ClearAccounts, ClearToken, ClearWorkspace
<1>2. ASSUME AnswerWith(p, Failed), UNCHANGED <<accountsFile, tokenFile, workspaceFile>>
      PROVE  Listed!Fail(p)
  <2>1. Listed!Answer(p, Failed) /\ Listed!InProgress(p, "RemoveAllAccounts")
    BY <1>1, <1>2, VisibleAnswer
  <2>2. AccountsOf(Kept)' = AccountsOf(Kept) /\ OldAccount' = OldAccount
    <3>1. Kept' = Kept
      BY <1>2 DEF Kept
    <3> QED BY <1>2, <3>1 DEF OldAccount
  <2> QED BY <2>1, <2>2, SameVocabulary DEF Listed!Fail
<1>3. accountsFile = None => AccountsOf(Kept) = EmptyMap
  <2>1. accountsFile = None => Kept = <<>>
    BY DEF Kept
  <2> QED BY <2>1, NoAccounts
<1>4. accountsFile' = None => AccountsOf(Kept)' = EmptyMap
  <2>1. accountsFile' = None => Kept' = <<>>
    BY DEF Kept
  <2>2. PICK list : list = Kept'
    OBVIOUS
  <2>3. AccountsOf(Kept)' = AccountsOf(list)
    BY <2>2
  <2> QED BY <2>1, <2>2, <2>3, NoAccounts
<1>5. ASSUME NEW label \in {"clearToken", "clearWorkspace"}, Goto(p, label), UNCHANGED out,
             accountsFile' = None, OldAccount' = None
      PROVE  Listed!Clear(p)
  <2>1. AnswersGiven' = AnswersGiven /\ AnswersGiven[p] = None /\ op[p] # None
    BY <1>1, <1>5 DEF StoreTypeOK, Goto, AnswersGiven
  <2> QED BY <1>1, <1>4, <1>5, <2>1, SameVocabulary DEF Listed!Clear, Listed!InProgress
<1>6. CASE ClearAccounts(p)
  <2>1. CASE accountsFile' = None /\ Goto(p, "clearToken") /\ UNCHANGED <<out, tokenFile, workspaceFile>>
    <3>1. CASE tokenFile = None
      BY <1>5, <2>1, <3>1 DEF OldAccount
    <3>2. CASE tokenFile # None
      <4>1. accountsFile = None
        BY <1>6, <3>2 DEF MigrationAgrees, ListInv, ClearAccounts
      <4>2. AccountsOf(Kept)' = AccountsOf(Kept) /\ OldAccount' = OldAccount
        BY <1>3, <1>4, <2>1, <4>1 DEF OldAccount
      <4> QED BY <1>1, <2>1, <4>2, InvisibleStep DEF Labels
    <3> QED BY <3>1, <3>2
  <2> QED BY <1>2, <1>6, <2>1 DEF ClearAccounts
<1>7. CASE ClearToken(p)
  <2>1. accountsFile = None /\ accountsFile' = None
    BY <1>1, <1>7 DEF MigrationAgrees, ClearToken
  <2>2. CASE tokenFile' = None /\ Goto(p, "clearWorkspace") /\ UNCHANGED out
    BY <1>5, <2>1, <2>2 DEF OldAccount
  <2> QED BY <1>2, <1>7, <2>2 DEF ClearToken
<1>8. CASE ClearWorkspace(p)
  <2>1. accountsFile = None /\ tokenFile = None /\ UNCHANGED <<accountsFile, tokenFile>>
    BY <1>1, <1>8 DEF MigrationAgrees, ClearWorkspace
  <2>2. CASE AnswerWith(p, Answered(None))
    <3>1. Listed!Answer(p, Answered(None)) /\ Listed!InProgress(p, "RemoveAllAccounts")
      BY <1>1, <2>2, VisibleAnswer
    <3>2. OldAccount = None /\ OldAccount' = None
      BY <2>1 DEF OldAccount
    <3> QED BY <1>3, <1>4, <2>1, <3>1, <3>2, SameVocabulary DEF Listed!Cleared
  <2> QED BY <1>2, <1>8, <2>2 DEF ClearWorkspace
<1> QED BY <1>6, <1>7, <1>8

\* Every step of the store is a step of the list, or none.
LEMMA StoreStepIsListed ==
    ASSUME OneProcess, "read" \notin FailKinds, ListInv, [StoreNext]_storeVars
    PROVE  [Listed!ListNext]_Listed!listVars
<1>1. PICK p : Procs = {p}
  BY DEF OneProcess
<1>2. /\ p \in Procs /\ StoreTypeOK /\ CallAgrees(p) /\ MigrationAgrees(p) /\ ListAgrees(p)
      /\ accs[p] \in Seq(Record) /\ accountsFile # Torn
      /\ tokenFile # None => NoFaults
      /\ pc[p] # "idle" => op[p] \in Operations /\ op[p] # None
  BY <1>1, ListsInPlace, NothingAssumption DEF ListInv, DiskAgrees
<1> USE <1>2
\* Steps that leave accounts.json and the old token alone.
<1>3. ASSUME UNCHANGED <<accountsFile, tokenFile, workspaceFile>>
      PROVE  AccountsOf(Kept)' = AccountsOf(Kept) /\ OldAccount' = OldAccount
  <2>1. Kept' = Kept
    BY <1>3 DEF Kept
  <2> QED BY <1>3, <2>1 DEF OldAccount
<1>4. ASSUME NEW label \in Labels \ {"answer"}, pc[p] # "answer", Goto(p, label),
             UNCHANGED <<op, out, accountsFile, tokenFile, workspaceFile>>
      PROVE  UNCHANGED Listed!listVars
  BY <1>3, <1>4, InvisibleStep
<1>5. CASE LoadList(p) \/ LoadLegacy(p) \/ Write(p) \/ DecideAddAccount(p) \/ DecideRemoveAccount(p)
  BY <1>4, <1>5 DEF LoadList, LoadLegacy, Write, DecideAddAccount, DecideRemoveAccount, Deciding, Save,
     files, history, Labels
<1>6. CASE WriteFails(p) \/ RenameFails(p)
  <2>1. pc[p] = "migrateRename" => tmpFile # None
    BY StoreAssumption DEF ListAgrees
  <2>2. pc[p] \notin {"migrateWrite", "migrateRename"}
    BY <1>6, <2>1 DEF NoFaults, MigrationAgrees, WriteFails, RenameFails, May
  <2>3. AnswerWith(p, Failed) /\ pc[p] \in {"write", "rename"}
        /\ UNCHANGED <<op, accountsFile, tokenFile, workspaceFile>>
    BY <1>6, <2>2 DEF WriteFails, RenameFails, SaveFailed, files
  <2>4. op[p].kind \in {"AddAccount", "SetWorkspace", "RemoveAccount"}
    BY <2>3 DEF ListAgrees, Outcome
  <2>5. Listed!Answer(p, Failed) /\ Listed!InProgress(p, op[p].kind)
    BY <2>3, VisibleAnswer
  <2>6. Listed!Fail(p)
    BY <1>3, <2>3, <2>4, <2>5, SameVocabulary DEF Listed!Fail
  <2> QED BY <2>6 DEF Listed!ListNext
<1>7. CASE RenameFile(p)
  <2>1. CASE pc[p] = "migrateRename"
    BY <1>1, <1>7, <2>1, MigrationIsListed DEF Listed!ListNext
  <2>2. CASE pc[p] = "rename"
    <3>1. OldAccount = None /\ OldAccount' = None
      BY <1>7, <2>2 DEF OldAccount, MigrationAgrees, RenameFile
    <3>2. op[p].kind \in {"AddAccount", "SetWorkspace", "RemoveAccount"}
      BY <2>2 DEF ListAgrees, Outcome
    <3>3. op[p].kind = "RemoveAccount" =>
             Kept' = accs[p] /\ AnswerWith(p, Answered(None)) /\ op' = op
      BY <1>1, <1>7, <2>2, RenamedFile, SavedIsListed DEF RenameFile
    <3>4. Listed!RefreshToken(p) \/ Listed!Join(p) \/ Listed!Rename(p) \/ Listed!Remove(p)
      BY <1>1, <1>7, <2>2, <3>1, <3>2, <3>3, AddIsListed, RenameIsListed, RemoveIsListed
    <3> QED BY <3>4 DEF Listed!ListNext
  <2> QED BY <1>7, <2>1, <2>2 DEF RenameFile
<1>8. CASE DropToken(p) \/ DropWorkspace(p)
  <2>1. accountsFile # None
    BY <1>8, StoreAssumption DEF DropToken, DropWorkspace, MigrationAgrees
  <2>2. accountsFile' = accountsFile /\ UNCHANGED <<op, out>>
        /\ \E label \in Labels \ {"answer"} : pc[p] # "answer" /\ Goto(p, label)
    BY <1>8 DEF DropToken, DropWorkspace, history, Labels
  <2>3. Kept' = Kept /\ OldAccount = None /\ OldAccount' = None
    BY <2>1, <2>2 DEF Kept, OldAccount
  <2>4. AccountsOf(Kept)' = AccountsOf(Kept) /\ OldAccount' = OldAccount
    BY <2>3
  <2> QED BY <2>2, <2>4, InvisibleStep
<1>9. CASE DecideAccounts(p) \/ DecideTokenFor(p)
  BY <1>1, <1>9, ReadsAreListed DEF Listed!ListNext
<1>10. CASE DecideSetWorkspace(p)
  <2>1. CASE NothingToSave(p, None)
    BY <1>1, <1>10, <2>1, SameNameIsListed DEF Listed!ListNext
  <2>2. CASE \E list : Save(p, list)
    BY <1>4, <1>10, <2>2 DEF DecideSetWorkspace, Deciding, Save, files, Labels
  <2> QED BY <1>10, <2>1, <2>2 DEF DecideSetWorkspace
<1>11. CASE Unlink(p)
  <2>1. tokenFile = None /\ tokenFile' = None /\ workspaceFile' = workspaceFile /\ pc[p] = "unlink"
        /\ op' = op /\ accs[p] = <<>>
    BY <1>11 DEF Unlink, MigrationAgrees, ListAgrees, history
  <2>2. OldAccount = None /\ OldAccount' = None
    BY <2>1 DEF OldAccount
  <2>3. op[p].kind = "RemoveAccount"
    <3>1. Outcome(op[p], Kept, <<>>) /\ Kept \in Seq(Record) /\ Distinct(Kept) /\ IdsIn(Kept) \subseteq generated
      BY <2>1, ListsInPlace DEF ListAgrees, ListInv, DiskAgrees
    <3> QED BY <2>1, <3>1, OutcomeIsList
  <2>4. CASE accountsFile' = None /\ AnswerWith(p, Answered(None))
    <3>1. Kept' = accs[p]
      BY <2>1, <2>4 DEF Kept
    <3> QED BY <1>1, <2>1, <2>2, <2>3, <2>4, <3>1, RemoveIsListed DEF Listed!ListNext
  <2>5. CASE AnswerWith(p, Failed) /\ UNCHANGED accountsFile
    <3>1. Listed!Answer(p, Failed) /\ Listed!InProgress(p, "RemoveAccount")
      BY <2>1, <2>3, <2>5, VisibleAnswer
    <3>2. Listed!Fail(p)
      BY <1>3, <2>1, <2>5, <3>1, SameVocabulary DEF Listed!Fail
    <3> QED BY <3>2 DEF Listed!ListNext
  <2> QED BY <1>11, <2>4, <2>5 DEF Unlink
<1>12. CASE ClearAccounts(p) \/ ClearToken(p) \/ ClearWorkspace(p)
  BY <1>1, <1>12, ClearIsListed DEF Listed!ListNext
<1>13. CASE Respond(p) \/ Crash(p)
  <2>1. UNCHANGED <<accountsFile, tokenFile, workspaceFile>> /\ op' = [op EXCEPT ![p] = None] /\ pc[p] # "idle"
    BY <1>13 DEF Respond, Crash, Leave, files
  <2>2. AnswersGiven' = [AnswersGiven EXCEPT ![p] = None]
    BY <1>13 DEF StoreTypeOK, Respond, Crash, Leave, Goto, AnswersGiven
  <2>3. Listed!Finish(p)
    BY <1>3, <2>1, <2>2 DEF Listed!Finish
  <2> QED BY <2>3 DEF Listed!ListNext
<1>14. ASSUME NEW o \in Operations, Call(p, o) PROVE [Listed!ListNext]_Listed!listVars
  <2>1. UNCHANGED <<accountsFile, tokenFile, workspaceFile, out>> /\ op' = [op EXCEPT ![p] = o]
        /\ pc[p] = "idle"
    BY <1>14 DEF Call, files
  <2>2. AnswersGiven' = AnswersGiven
    BY <1>14, <2>1 DEF StoreTypeOK, Call, Goto, AnswersGiven
  <2>3. op[p] = None
    BY <2>1 DEF StoreTypeOK
  <2>4. Listed!Invoke(p, o)
    BY <1>3, <2>1, <2>2, <2>3 DEF Listed!Invoke
  <2> QED BY <1>14, <2>4, SameVocabulary DEF Listed!ListNext
<1>15. CASE UNCHANGED storeVars
  <2>1. UNCHANGED <<accountsFile, tokenFile, workspaceFile, op, out, pc>>
    BY <1>15 DEF storeVars, files, locals
  <2>2. AnswersGiven' = AnswersGiven
    BY <2>1 DEF AnswersGiven
  <2> QED BY <1>3, <2>1, <2>2 DEF Listed!listVars
<1>16. StoreNext => Access(p) \/ \E o \in Operations : Call(p, o)
  BY <1>1 DEF StoreNext
<1> QED BY <1>5, <1>6, <1>7, <1>8, <1>9, <1>10, <1>11, <1>12, <1>13, <1>14, <1>15, <1>16 DEF Access

LEMMA StoreStartsListed ==
    ASSUME FreshInit \/ LegacyInit
    PROVE  Listed!ListInit
<1>1. Kept = <<>> /\ StoreInit
  BY DEF Kept, FreshInit, LegacyInit, StoreInit
<1>2. AccountsOf(Kept) = EmptyMap
  BY <1>1, NoAccounts
<1>3. OldAccount \in {None} \cup Account
  BY DEF OldAccount, FreshInit, LegacyInit, Entry, Account
<1>4. op = [p \in Procs |-> None] /\ AnswersGiven = [p \in Procs |-> None]
  BY <1>1 DEF StoreInit, AnswersGiven
<1> QED BY <1>2, <1>3, <1>4, SameVocabulary DEF Listed!ListInit

\* On a fresh device the files implement the list of accounts: whatever writes
\* and removals fail and wherever the process dies, every operation takes
\* effect at one instant or not at all, and answers what the list says then.
THEOREM StoreImplementsAccountList ==
    ASSUME OneProcess, "read" \notin FailKinds
    PROVE  FreshSpec => ImplementsAccountList
<1>1. FreshInit => Listed!ListInit
  BY StoreStartsListed
<1>2. ListInv /\ [StoreNext]_storeVars => [Listed!ListNext]_Listed!listVars
  BY StoreStepIsListed
<1> QED BY <1>1, <1>2, StoreCorrect, PTL DEF FreshSpec, ImplementsAccountList, Listed!ListSpec

\* So do those of a device paired by an old version, where nothing fails: its
\* one account is adopted into the list once.
THEOREM LegacyStoreImplementsAccountList ==
    ASSUME OneProcess, NoFaults
    PROVE  LegacySpec => ImplementsAccountList
<1>1. LegacyInit => Listed!ListInit
  BY StoreStartsListed
<1>2. "read" \notin FailKinds
  BY DEF NoFaults
<1>3. ListInv /\ [StoreNext]_storeVars => [Listed!ListNext]_Listed!listVars
  BY <1>2, StoreStepIsListed
<1> QED BY <1>1, <1>3, LegacyStoreCorrect, PTL DEF LegacySpec, ImplementsAccountList, Listed!ListSpec
=============================================================================
