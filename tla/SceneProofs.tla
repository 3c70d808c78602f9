---------------------------- MODULE SceneProofs -----------------------------
(***************************************************************************)
(* Proofs about the parser's tree and its flattening, for every set of     *)
(* nodes and every number and shape of blocks.                             *)
(*                                                                         *)
(* What a block says plays no part: the proofs need of a sequence only     *)
(* that it is one, so the invariant has IsSeq where SceneTypeOK has sets.  *)
(***************************************************************************)
EXTENDS Scene, WellFoundedInduction, TLAPS

IsSeq(s) == \E S : s \in Seq(S)

Elements(s) == {s[i] : i \in DOMAIN s}

\* What appending does to a sequence of anything.
LEMMA AppendToSeq ==
    ASSUME NEW s, NEW x, IsSeq(s)
    PROVE  /\ IsSeq(Append(s, x))
           /\ Len(s) \in Nat /\ DOMAIN s = 1..Len(s)
           /\ DOMAIN Append(s, x) = 1..(Len(s) + 1)
           /\ Append(s, x)[Len(s) + 1] = x
           /\ \A i \in 1..Len(s) : Append(s, x)[i] = s[i]
           /\ Elements(Append(s, x)) = Elements(s) \cup {x}
<1>1. PICK T : s \in Seq(T)
  BY DEF IsSeq
<1>2. s \in Seq(T \cup {x})
  BY <1>1
<1>3. Append(s, x) \in Seq(T \cup {x})
  BY <1>2
<1>4. /\ DOMAIN s = 1..Len(s) /\ Len(s) \in Nat
      /\ DOMAIN Append(s, x) = 1..(Len(s) + 1)
      /\ Append(s, x)[Len(s) + 1] = x
      /\ \A i \in 1..Len(s) : Append(s, x)[i] = s[i]
  BY <1>2
<1>5. Elements(Append(s, x)) = Elements(s) \cup {x}
  BY <1>4 DEF Elements
<1> QED BY <1>3, <1>4, <1>5 DEF IsSeq

\* ... and taking its first element off.
LEMMA TailOfSeq ==
    ASSUME NEW s, IsSeq(s), s # <<>>
    PROVE  IsSeq(Tail(s)) /\ Elements(s) \subseteq Elements(Tail(s)) \cup {Head(s)}
<1>1. PICK T : s \in Seq(T)
  BY DEF IsSeq
<1>2. Tail(s) \in Seq(T)
  BY <1>1
<1>3. ASSUME NEW i \in DOMAIN s, i # 1
      PROVE  i - 1 \in DOMAIN Tail(s) /\ Tail(s)[i - 1] = s[i]
  BY <1>1, <1>3
<1>4. s[1] = Head(s)
  BY <1>1
<1>5. IsSeq(Tail(s))
  BY <1>2 DEF IsSeq
<1>6. ASSUME NEW i \in DOMAIN s PROVE s[i] \in Elements(Tail(s)) \cup {Head(s)}
  BY <1>3, <1>4 DEF Elements
<1> QED BY <1>5, <1>6 DEF Elements

-----------------------------------------------------------------------------
(* Blocks.                                                                 *)

\* No block removes a node from the list of nodes.
OrderGrows == IsSeq(order) => IsSeq(order') /\ Known \subseteq Known'

LEMMA ListedGrows ==
    ASSUME NEW s, NEW id, IsSeq(s)
    PROVE  IsSeq(Listed(s, id)) /\ Elements(s) \subseteq Elements(Listed(s, id))
BY AppendToSeq DEF Listed

\* What one block does: it extends the list of nodes, and either takes effect
\* or is counted as skipped and leaves no line, child, parent or text.
BlockEffect ==
    /\ OrderGrows
    /\ \/ UNCHANGED skipped
       \/ Skip /\ UNCHANGED <<parent, children, lines, text>>

\* getNode, once or twice, extends the list; a block that is skipped keeps it.
LEMMA ListingGrows == ASSUME NEW id, order' = Listed(order, id) PROVE OrderGrows
BY ListedGrows DEF OrderGrows, Known, Elements

LEMMA ListingTwiceGrows ==
    ASSUME NEW in, NEW id, order' = Listed(Listed(order, in), id)
    PROVE  OrderGrows
<1>1. SUFFICES ASSUME IsSeq(order) PROVE IsSeq(order') /\ Elements(order) \subseteq Elements(order')
  BY DEF OrderGrows, Known, Elements
<1>2. IsSeq(Listed(order, in)) /\ Elements(order) \subseteq Elements(Listed(order, in))
  BY <1>1, ListedGrows
<1>3. IsSeq(order') /\ Elements(Listed(order, in)) \subseteq Elements(order')
  BY <1>2, ListedGrows
<1> QED BY <1>2, <1>3

LEMMA SkippingKeeps == ASSUME Skip, UNCHANGED tree PROVE BlockEffect
BY DEF BlockEffect, OrderGrows, Known, tree

LEMMA SceneTreeEffect == ASSUME NEW fs, ParseSceneTree(fs) PROVE BlockEffect
<1>1. CASE order' = Listed(order, fs[1].val) /\ UNCHANGED skipped
  BY <1>1, ListingGrows DEF BlockEffect
<1>2. CASE Skip /\ UNCHANGED tree
  BY <1>2, SkippingKeeps
<1> QED BY <1>1, <1>2 DEF ParseSceneTree

LEMMA TreeNodeEffect == ASSUME NEW fs, ParseTreeNode(fs) PROVE BlockEffect
<1>1. CASE order' = Listed(order, fs[1].val) /\ UNCHANGED <<parent, children, lines, text>>
  <2>1. OrderGrows
    BY <1>1, ListingGrows
  <2>2. UNCHANGED skipped \/ Skip
    BY DEF ParseTreeNode
  <2> QED BY <1>1, <2>1, <2>2 DEF BlockEffect
<1>2. CASE Skip /\ UNCHANGED tree
  BY <1>2, SkippingKeeps
<1> QED BY <1>1, <1>2 DEF ParseTreeNode

LEMMA GroupEffect == ASSUME NEW in, NEW fs, AddGroup(in, fs) PROVE BlockEffect
<1>1. CASE order' = Listed(Listed(order, in), fs[1].val) /\ UNCHANGED skipped
  BY <1>1, ListingTwiceGrows DEF BlockEffect
<1>2. CASE Skip /\ UNCHANGED tree
  BY <1>2, SkippingKeeps
<1> QED BY <1>1, <1>2 DEF AddGroup

LEMMA LineEffect == ASSUME NEW in, NEW fs, NEW version, AddLine(in, fs, version) PROVE BlockEffect
<1>1. CASE order' = Listed(order, in) /\ UNCHANGED skipped
  BY <1>1, ListingGrows DEF BlockEffect
<1>2. CASE Skip /\ UNCHANGED tree
  BY <1>2, SkippingKeeps
<1> QED BY <1>1, <1>2 DEF AddLine

LEMMA ItemEffect ==
    ASSUME NEW fs, NEW version, NEW wanted, ParseSceneItem(fs, version, wanted)
    PROVE  BlockEffect
<1>1. CASE AddGroup(fs[1].val, fs[6].val.fields)
  BY <1>1, GroupEffect
<1>2. CASE AddLine(fs[1].val, fs[6].val.fields, version)
  BY <1>2, LineEffect
<1>3. CASE UNCHANGED <<tree, skipped>> \/ (Skip /\ UNCHANGED tree)
  BY <1>3 DEF BlockEffect, OrderGrows, Known, tree
<1> QED BY <1>1, <1>2, <1>3 DEF ParseSceneItem

LEMMA RootTextEffect == ASSUME NEW fs, ParseRootText(fs) PROVE BlockEffect
BY DEF ParseRootText, BlockEffect, OrderGrows, Known, tree

LEMMA AnyBlockEffect == ASSUME ParseBlock PROVE BlockEffect
<1>1. CASE Groups
  BY <1>1, SceneTreeEffect, ItemEffect DEF Groups
<1>2. CASE TreeNodes
  BY <1>2, TreeNodeEffect DEF TreeNodes
<1>3. CASE LineItems
  BY <1>3, ItemEffect DEF LineItems
<1>4. CASE RootTexts
  BY <1>4, RootTextEffect DEF RootTexts
<1>5. CASE ParseOther
  BY <1>5 DEF ParseOther, BlockEffect, OrderGrows, Known, tree
<1> QED BY <1>1, <1>2, <1>3, <1>4, <1>5 DEF ParseBlock

-----------------------------------------------------------------------------
(* The invariant.                                                          *)

DrawnNodes == {drawn[i].node : i \in DOMAIN drawn}

NoneTwice == \A i, j \in DOMAIN drawn : drawn[i].node = drawn[j].node => i = j

\* Nothing is drawn while blocks are read, and collect is not at work.
QuietBefore ==
    /\ pc \in {"blocks", "failed"} => drawn = <<>>
    /\ pc \notin {"layers", "orphans"} => stack = <<>>

\* What assemble has seen is what it has drawn, except that the root is seen
\* from the start and drawn when the orphans' turn comes.
SeenIsDrawn ==
    /\ pc = "layers" => RootID \in seen /\ DrawnNodes = seen \ {RootID}
    /\ pc \in {"orphans", "done"} => DrawnNodes = seen

\* The orphans' loop leaves no node out.
OrphansToCome ==
    /\ pc = "orphans" => IsSeq(todo) /\ Known \subseteq seen \cup Elements(todo)
    /\ pc = "done" => Known \subseteq seen

SceneInv ==
    /\ pc \in {"blocks", "layers", "orphans", "done", "failed"}
    /\ skipped \in Nat
    /\ IsSeq(order) /\ RootID \in Known
    /\ IsSeq(drawn) /\ NoneTwice
    /\ QuietBefore /\ SeenIsDrawn /\ OrphansToCome

\* Drawing a node that was not drawn keeps every node drawn at most once.
LEMMA DrawOnce ==
    ASSUME SceneInv, NEW id, NEW layer, id \notin DrawnNodes,
           drawn' = Append(drawn, [node |-> id, layer |-> layer])
    PROVE  IsSeq(drawn)' /\ NoneTwice' /\ DrawnNodes' = DrawnNodes \cup {id}
<1> DEFINE entry == [node |-> id, layer |-> layer]
<1>1. /\ IsSeq(drawn') /\ Len(drawn) \in Nat /\ DOMAIN drawn = 1..Len(drawn)
      /\ DOMAIN drawn' = 1..(Len(drawn) + 1)
      /\ drawn'[Len(drawn) + 1] = entry
      /\ \A i \in 1..Len(drawn) : drawn'[i] = drawn[i]
  BY AppendToSeq DEF SceneInv
<1>2. entry.node = id
  OBVIOUS
<1> HIDE DEF entry
<1>3. DrawnNodes' = DrawnNodes \cup {id}
  BY <1>1, <1>2 DEF DrawnNodes
<1>4. ASSUME NEW i \in DOMAIN drawn', NEW j \in DOMAIN drawn', drawn'[i].node = drawn'[j].node
      PROVE  i = j
  <2>1. CASE i \in DOMAIN drawn /\ j \in DOMAIN drawn
    BY <1>1, <1>4, <2>1 DEF SceneInv, NoneTwice
  <2>2. CASE i \notin DOMAIN drawn /\ j \notin DOMAIN drawn
    BY <1>1, <2>2
  <2>3. CASE i \in DOMAIN drawn /\ j \notin DOMAIN drawn
    BY <1>1, <1>2, <1>4, <2>3 DEF DrawnNodes
  <2>4. CASE i \notin DOMAIN drawn /\ j \in DOMAIN drawn
    BY <1>1, <1>2, <1>4, <2>4 DEF DrawnNodes
  <2> QED BY <2>1, <2>2, <2>3, <2>4
<1> QED BY <1>1, <1>3, <1>4 DEF NoneTwice

LEMMA SceneInitInv == ASSUME SceneInit PROVE SceneInv
<1>1. IsSeq(order) /\ RootID \in Known
  <2>1. order \in Seq({RootID}) /\ 1 \in DOMAIN order /\ order[1] = RootID
    BY DEF SceneInit
  <2> QED BY <2>1 DEF IsSeq, Known
<1>2. IsSeq(drawn) /\ NoneTwice
  <2>1. drawn \in Seq({}) /\ DOMAIN drawn = {}
    BY DEF SceneInit
  <2> QED BY <2>1 DEF IsSeq, NoneTwice
<1> QED BY <1>1, <1>2 DEF SceneInit, SceneInv, QuietBefore, SeenIsDrawn, OrphansToCome

LEMMA SceneStepInv == ASSUME SceneInv, [SceneNext]_sceneVars PROVE SceneInv'
<1>1. CASE ParseBlock
  <2>1. IsSeq(order') /\ RootID \in Known' /\ skipped' \in Nat
    BY <1>1, AnyBlockEffect DEF SceneInv, BlockEffect, OrderGrows, Skip
  <2>2. pc = "blocks" /\ UNCHANGED <<pc, drawn, stack>>
    BY <1>1 DEF ParseBlock, assembly
  <2> QED BY <2>1, <2>2 DEF SceneInv, NoneTwice, QuietBefore, SeenIsDrawn, OrphansToCome
<1>2. CASE ParseFails
  BY <1>2 DEF ParseFails, tree, assembly, SceneInv, Known, NoneTwice, QuietBefore, SeenIsDrawn,
              OrphansToCome
<1>3. CASE StartAssemble
  <2>1. pc = "blocks" /\ pc' = "layers" /\ seen' = {RootID} /\ drawn = <<>>
        /\ UNCHANGED <<order, skipped, stack, drawn>>
    BY <1>3 DEF StartAssemble, tree, SceneInv, QuietBefore
  <2>2. DrawnNodes' = {}
    BY <2>1 DEF DrawnNodes
  <2> QED BY <2>1, <2>2 DEF SceneInv, Known, NoneTwice, QuietBefore, SeenIsDrawn, OrphansToCome
<1>4. CASE NextLayer
  <2>1. pc = "layers" /\ UNCHANGED <<pc, order, skipped>>
    BY <1>4 DEF NextLayer, tree
  <2>2. CASE Fresh(Head(todo))
    <3>1. Head(todo) \notin DrawnNodes /\ Head(todo) # RootID
      BY <2>1, <2>2 DEF Fresh, SceneInv, SeenIsDrawn
    <3>2. Draw(Head(todo), Head(todo))
      BY <1>4, <2>2 DEF NextLayer
    <3>3. IsSeq(drawn)' /\ NoneTwice' /\ DrawnNodes' = DrawnNodes \cup {Head(todo)}
      BY <3>1, <3>2, DrawOnce DEF Draw
    <3> QED BY <2>1, <3>1, <3>2, <3>3
            DEF Draw, SceneInv, Known, QuietBefore, SeenIsDrawn, OrphansToCome
  <2>3. CASE ~Fresh(Head(todo))
    BY <1>4, <2>1, <2>3
    DEF NextLayer, SceneInv, Known, NoneTwice, DrawnNodes, QuietBefore, SeenIsDrawn, OrphansToCome
  <2> QED BY <2>2, <2>3
<1>5. CASE CollectChild
  <2>1. pc \in {"layers", "orphans"} /\ UNCHANGED <<pc, order, skipped, todo>>
    BY <1>5 DEF CollectChild, tree, SceneInv, QuietBefore
  <2>2. CASE Fresh(Child)
    <3>1. Child \notin DrawnNodes /\ (pc = "layers" => Child # RootID)
      BY <2>1, <2>2 DEF Fresh, SceneInv, SeenIsDrawn
    <3>2. Draw(Child, Layer)
      BY <1>5, <2>2 DEF CollectChild
    <3>3. IsSeq(drawn)' /\ NoneTwice' /\ DrawnNodes' = DrawnNodes \cup {Child}
      BY <3>1, <3>2, DrawOnce DEF Draw
    <3> QED BY <2>1, <3>1, <3>2, <3>3
            DEF Draw, SceneInv, Known, QuietBefore, SeenIsDrawn, OrphansToCome
  <2>3. CASE ~Fresh(Child)
    BY <1>5, <2>1, <2>3
    DEF CollectChild, SceneInv, Known, NoneTwice, DrawnNodes, QuietBefore, SeenIsDrawn, OrphansToCome
  <2> QED BY <2>2, <2>3
<1>6. CASE CollectReturn
  <2>1. pc \in {"layers", "orphans"}
    BY <1>6 DEF CollectReturn, SceneInv, QuietBefore
  <2> QED BY <1>6, <2>1 DEF CollectReturn, tree, SceneInv, Known, NoneTwice, DrawnNodes, QuietBefore,
                             SeenIsDrawn, OrphansToCome
<1>7. CASE StartOrphans
  <2>1. pc = "layers" /\ pc' = "orphans" /\ todo' = order /\ UNCHANGED <<order, skipped, seen>>
    BY <1>7 DEF StartOrphans, tree
  <2>2. RootID \notin DrawnNodes /\ DrawnNodes = seen \ {RootID} /\ RootID \in seen
    BY <2>1 DEF SceneInv, SeenIsDrawn
  <2>3. IsSeq(drawn)' /\ NoneTwice' /\ DrawnNodes' = DrawnNodes \cup {RootID}
    BY <1>7, <2>2, DrawOnce DEF StartOrphans
  <2>4. Known' = Elements(todo')
    BY <2>1 DEF Known, Elements
  <2> QED BY <2>1, <2>2, <2>3, <2>4 DEF SceneInv, Known, QuietBefore, SeenIsDrawn, OrphansToCome
<1>8. CASE NextOrphan
  <2>1. pc = "orphans" /\ todo # <<>> /\ todo' = Tail(todo) /\ UNCHANGED <<pc, order, skipped>>
    BY <1>8 DEF NextOrphan, tree
  <2>2. IsSeq(todo') /\ Elements(todo) \subseteq Elements(todo') \cup {Head(todo)}
    BY <2>1, TailOfSeq DEF SceneInv, OrphansToCome
  <2>3. Known' = Known
    BY <2>1 DEF Known
  <2>4. CASE Fresh(Head(todo))
    <3>1. Head(todo) \notin DrawnNodes
      BY <2>1, <2>4 DEF Fresh, SceneInv, SeenIsDrawn
    <3>2. Draw(Head(todo), RootID)
      BY <1>8, <2>4 DEF NextOrphan
    <3>3. IsSeq(drawn)' /\ NoneTwice' /\ DrawnNodes' = DrawnNodes \cup {Head(todo)}
      BY <3>1, <3>2, DrawOnce DEF Draw
    <3> QED BY <2>1, <2>2, <2>3, <3>2, <3>3
            DEF Draw, SceneInv, QuietBefore, SeenIsDrawn, OrphansToCome
  <2>5. CASE ~Fresh(Head(todo))
    <3>1. UNCHANGED <<seen, drawn, stack>>
      BY <1>8, <2>5 DEF NextOrphan
    <3> QED BY <2>1, <2>2, <2>3, <2>5, <3>1
            DEF Fresh, SceneInv, NoneTwice, DrawnNodes, QuietBefore, SeenIsDrawn, OrphansToCome
  <2> QED BY <2>4, <2>5
<1>9. CASE FinishAssemble
  <2>1. pc = "orphans" /\ stack = <<>> /\ todo = <<>> /\ pc' = "done"
        /\ UNCHANGED <<order, skipped, stack, seen, drawn>>
    BY <1>9 DEF FinishAssemble, tree
  <2>2. Known \subseteq seen
    BY <2>1 DEF SceneInv, OrphansToCome, Elements
  <2> QED BY <2>1, <2>2
          DEF SceneInv, Known, NoneTwice, DrawnNodes, QuietBefore, SeenIsDrawn, OrphansToCome
<1>10. CASE UNCHANGED sceneVars
  BY <1>10 DEF sceneVars, tree, assembly, SceneInv, Known, NoneTwice, DrawnNodes, QuietBefore,
               SeenIsDrawn, OrphansToCome
<1> QED BY <1>1, <1>2, <1>3, <1>4, <1>5, <1>6, <1>7, <1>8, <1>9, <1>10
        DEF SceneNext, Assemble, Finished

\* Every node of every page is drawn exactly once: assemble's seen set is what
\* was drawn, and its last loop goes over all nodes (parse.go:423-478).
THEOREM EachNodeIsDrawnOnce == SceneSpec => []EachNodeDrawnOnce
<1>1. SceneInv => EachNodeDrawnOnce
  BY DEF SceneInv, EachNodeDrawnOnce, OrphansToCome, SeenIsDrawn, DrawnNodes, NoneTwice
<1> QED BY <1>1, SceneInitInv, SceneStepInv, PTL DEF SceneSpec

\* A block that is skipped leaves no line, child, parent or text, wherever in it
\* the reader stopped (parse.go:71-79).
THEOREM SkippedBlocksLeaveNothing == SceneSpec => SkippedLeavesNothing
<1>1. ASSUME SceneInv, [SceneNext]_sceneVars
      PROVE  [skipped' > skipped => UNCHANGED <<parent, children, lines, text>>]_sceneVars
  <2>1. CASE ParseBlock
    BY <1>1, <2>1, AnyBlockEffect DEF BlockEffect, SceneInv
  <2>2. CASE ~ParseBlock
    <3>1. UNCHANGED skipped
      BY <1>1, <2>2 DEF SceneNext, ParseFails, Assemble, StartAssemble, NextLayer, CollectChild,
         CollectReturn, StartOrphans, NextOrphan, FinishAssemble, Finished, sceneVars
    <3> QED BY <1>1, <3>1 DEF SceneInv
  <2> QED BY <2>1, <2>2
<1> QED BY <1>1, SceneInitInv, SceneStepInv, PTL DEF SceneSpec, SkippedLeavesNothing

-----------------------------------------------------------------------------
(* The tree.                                                               *)

\* Every child is a node, and every line is one that was written.
TreeInv ==
    /\ order \in Seq(Ids) /\ children \in [Ids -> Seq(Ids)] /\ lines \in [Ids -> Seq(PointCounts)]
    /\ \A p \in Ids : Elements(children[p]) \subseteq Known

-----------------------------------------------------------------------------
(* What is left of a damaged payload is what was written.                  *)

LEMMA SeqElements ==
    ASSUME NEW S, NEW s \in Seq(S)
    PROVE  DOMAIN s = 1..Len(s) /\ Len(s) \in Nat /\ \A k \in DOMAIN s : s[k] \in S
OBVIOUS

IsPayload(fs) ==
    /\ IsSeq(fs)
    /\ \A k \in DOMAIN fs : fs[k] = [index |-> fs[k].index, typ |-> fs[k].typ, val |-> fs[k].val,
                                     whole |-> fs[k].whole]

\* A payload whose values are those of another, as far as it goes.
PartOf(part, fs) == DOMAIN part \subseteq DOMAIN fs /\ \A k \in DOMAIN part : part[k].val = fs[k].val

LEMMA CutIsPart ==
    ASSUME NEW fs, IsPayload(fs), NEW v \in Cuts(fs)
    PROVE  PartOf(v, fs)
<1>1. PICK S : fs \in Seq(S)
  BY DEF IsPayload, IsSeq
<1>2. Len(fs) \in Nat /\ DOMAIN fs = 1..Len(fs)
  BY <1>1
<1>3. ASSUME NEW k \in 0..Len(fs)
      PROVE  DOMAIN SubSeq(fs, 1, k) = 1..k /\ \A j \in 1..k : SubSeq(fs, 1, k)[j] = fs[j]
  BY <1>1, <1>2
<1>4. ASSUME NEW k \in 0..(Len(fs) - 1), v = SubSeq(fs, 1, k) PROVE PartOf(v, fs)
  <2>1. DOMAIN v = 1..k /\ \A j \in 1..k : v[j] = fs[j]
    BY <1>2, <1>3, <1>4
  <2> QED BY <1>2, <2>1 DEF PartOf
<1>5. ASSUME NEW k \in DOMAIN fs, v = [SubSeq(fs, 1, k) EXCEPT ![k].whole = FALSE] PROVE PartOf(v, fs)
  <2>1. PICK s : s = SubSeq(fs, 1, k)
    OBVIOUS
  <2>2. DOMAIN s = 1..k /\ \A j \in 1..k : s[j] = fs[j]
    BY <1>2, <1>3, <2>1
  <2>3. v = [s EXCEPT ![k] = [s[k] EXCEPT !.whole = FALSE]]
    BY <1>5, <2>1
  <2>4. k \in 1..k /\ 1..k \subseteq DOMAIN fs
    BY <1>2
  <2>5. s[k] = [index |-> s[k].index, typ |-> s[k].typ, val |-> s[k].val, whole |-> s[k].whole]
    BY <2>2, <2>4 DEF IsPayload
  <2>6. [s[k] EXCEPT !.whole = FALSE].val = s[k].val
    BY <2>5
  <2>7. DOMAIN v = 1..k /\ \A j \in 1..k : v[j].val = s[j].val
    BY <2>2, <2>3, <2>6
  <2> QED BY <2>2, <2>4, <2>7 DEF PartOf
<1> QED BY <1>4, <1>5 DEF Cuts

LEMMA DamagedIsPart ==
    ASSUME NEW fs, IsPayload(fs), NEW v \in Damaged(fs)
    PROVE  PartOf(v, fs)
BY CutIsPart DEF Damaged, PartOf

\* Damage inside one value leaves the others.
LEMMA DamagedInKeepsFirst ==
    ASSUME NEW fs, IsPayload(fs), NEW k \in DOMAIN fs, k # 1, NEW v \in DamagedIn(fs, k), 1 \in DOMAIN v
    PROVE  v[1].val = fs[1].val
<1>1. CASE v \in Damaged(fs)
  BY <1>1, DamagedIsPart DEF PartOf
<1>2. ASSUME NEW w, v = [fs EXCEPT ![k].val = w] PROVE v[1].val = fs[1].val
  <2>1. DOMAIN v = DOMAIN fs /\ v[1] = fs[1]
    BY <1>2
  <2> QED BY <2>1
<1> QED BY <1>1, <1>2 DEF DamagedIn

\* A damaged item keeps its parent and what is left of its value, whose type it
\* is still of when there is one.
LEMMA DamagedItemIsPart ==
    ASSUME NEW in, NEW t, NEW value, IsPayload(value),
           NEW fs \in DamagedItem(SceneItem(in, 0, t, value))
    PROVE  /\ 1 \in DOMAIN fs => fs[1].val = in
           /\ 6 \in DOMAIN fs => fs[6].val.type \in {t, "none"} /\ PartOf(fs[6].val.fields, value)
<1> DEFINE item == SceneItem(in, 0, t, value)
           body == [type |-> t, fields |-> value]
<1>1. /\ IsPayload(item) /\ DOMAIN item = 1..6
      /\ item[1].val = in /\ item[6].val = body
      /\ item[6] = [index |-> item[6].index, typ |-> item[6].typ, val |-> item[6].val, whole |-> item[6].whole]
  <2> DEFINE x1 == Id(1, in)
             x2 == Id(2, 0)
             x3 == Id(3, 0)
             x4 == Id(4, 0)
             x5 == Byte4(5, 0)
             x6 == Sub(6, body)
  <2>1. item = <<x1, x2, x3, x4, x5, x6>>
    BY DEF SceneItem
  <2>2. \A x \in {x1, x2, x3, x4, x5, x6} :
           x = [index |-> x.index, typ |-> x.typ, val |-> x.val, whole |-> x.whole]
    BY DEF Id, Byte4, Sub, Field
  <2>3. x1.val = in /\ x6.val = body
    BY DEF Id, Sub, Field
  <2> HIDE DEF x1, x2, x3, x4, x5, x6, item, body
  <2>4. item \in Seq({x1, x2, x3, x4, x5, x6}) /\ Len(item) = 6
    BY <2>1
  <2>5. DOMAIN item = 1..6 /\ \A k \in 1..6 : item[k] \in {x1, x2, x3, x4, x5, x6}
    <3> DEFINE S == {x1, x2, x3, x4, x5, x6}
    <3> HIDE DEF S
    <3>1. item \in Seq(S) /\ Len(item) = 6
      BY <2>4 DEF S
    <3>2. DOMAIN item = 1..Len(item) /\ \A k \in 1..Len(item) : item[k] \in S
      BY <3>1, SeqElements
    <3> QED BY <3>1, <3>2 DEF S
  <2>6. item[1] = x1 /\ item[6] = x6 /\ 6 \in 1..6
    BY <2>1
  <2>7. IsPayload(item)
    BY <2>2, <2>4, <2>5 DEF IsPayload, IsSeq
  <2> QED BY <2>3, <2>5, <2>6, <2>7, <2>2
<1>2. body.type = t /\ body.fields = value
  OBVIOUS
<1>3. PartOf(value, value)
  BY DEF PartOf
<1> HIDE DEF item
<1>4. CASE fs \in Damaged(item)
  <2>1. PartOf(fs, item)
    BY <1>1, <1>4, DamagedIsPart
  <2> QED BY <1>1, <1>2, <1>3, <2>1 DEF PartOf
<1>5. CASE fs = [item EXCEPT ![5].val = 1]
  <2>1. DOMAIN fs = 1..6 /\ fs[1] = item[1] /\ fs[6] = item[6]
    BY <1>1, <1>5
  <2> QED BY <1>1, <1>2, <1>3, <2>1
<1>6. ASSUME NEW v \in Cuts(item[6].val.fields), fs = [item EXCEPT ![6].val.fields = v]
      PROVE  /\ 1 \in DOMAIN fs => fs[1].val = in
             /\ 6 \in DOMAIN fs => fs[6].val.type \in {t, "none"} /\ PartOf(fs[6].val.fields, value)
  <2>1. PartOf(v, value)
    BY <1>1, <1>2, <1>6, CutIsPart
  <2>2. DOMAIN fs = 1..6 /\ fs[1] = item[1]
        /\ fs[6] = [item[6] EXCEPT !.val = [item[6].val EXCEPT !.fields = v]]
    BY <1>1, <1>6
  <2>3. fs[6].val = [body EXCEPT !.fields = v]
    BY <1>1, <2>2
  <2>4. fs[6].val.type = t /\ fs[6].val.fields = v
    BY <2>3
  <2> QED BY <1>1, <2>1, <2>2, <2>4
<1>7. CASE fs = [item EXCEPT ![6].val = EmptyValue]
  <2>1. DOMAIN fs = 1..6 /\ fs[1] = item[1] /\ fs[6].val = EmptyValue
    BY <1>1, <1>7
  <2>2. EmptyValue.type = "none" /\ PartOf(EmptyValue.fields, value)
    BY DEF EmptyValue, PartOf
  <2> QED BY <1>1, <2>1, <2>2
<1> QED BY <1>4, <1>5, <1>6, <1>7 DEF DamagedItem, item

-----------------------------------------------------------------------------
(* Blocks keep TreeInv.                                                    *)

LEMMA ListedNode ==
    ASSUME NEW s \in Seq(Ids), NEW id \in Ids
    PROVE  Listed(s, id) \in Seq(Ids) /\ Elements(Listed(s, id)) = Elements(s) \cup {id}
<1>1. CASE \E i \in DOMAIN s : s[i] = id
  BY <1>1 DEF Listed, Elements
<1>2. CASE ~\E i \in DOMAIN s : s[i] = id
  <2>1. IsSeq(s) /\ Listed(s, id) = Append(s, id)
    BY <1>2 DEF Listed, IsSeq
  <2> QED BY <2>1, AppendToSeq
<1> QED BY <1>1, <1>2

\* Another node in the list changes nothing else.
LEMMA ListingKeeps ==
    ASSUME TreeInv, NEW id \in Ids, order' = Listed(order, id), UNCHANGED <<children, lines>>
    PROVE  TreeInv'
<1>1. order' \in Seq(Ids) /\ Elements(order') = Elements(order) \cup {id}
  BY ListedNode DEF TreeInv
<1>2. Known = Elements(order) /\ Known' = Elements(order')
  BY DEF Known, Elements
<1> QED BY <1>1, <1>2 DEF TreeInv

LEMMA TreeSkipped == ASSUME TreeInv, UNCHANGED tree PROVE TreeInv'
BY DEF TreeInv, tree, Known

LEMMA GroupKeeps ==
    ASSUME TreeInv, NEW in \in Ids, NEW fs, 1 \in DOMAIN fs => fs[1].val \in Ids, AddGroup(in, fs)
    PROVE  TreeInv'
<1>1. CASE UNCHANGED tree
  BY <1>1, TreeSkipped
<1>2. CASE /\ Read(fs, 1, 2, "ID") /\ order' = Listed(Listed(order, in), fs[1].val)
           /\ children' = [children EXCEPT ![in] = Append(@, fs[1].val)] /\ UNCHANGED lines
  <2>1. PICK child \in Ids : child = fs[1].val
    BY <1>2 DEF Read, HasTag
  <2>2. /\ Listed(order, in) \in Seq(Ids) /\ Elements(Listed(order, in)) = Elements(order) \cup {in}
        /\ order' \in Seq(Ids) /\ Elements(order') = Elements(order) \cup {in, child}
    <3>1. Listed(order, in) \in Seq(Ids) /\ Elements(Listed(order, in)) = Elements(order) \cup {in}
      BY ListedNode DEF TreeInv
    <3>2. order' \in Seq(Ids) /\ Elements(order') = Elements(Listed(order, in)) \cup {child}
      BY <1>2, <2>1, <3>1, ListedNode
    <3> QED BY <3>1, <3>2
  <2>3. Known = Elements(order) /\ Known' = Elements(order')
    BY DEF Known, Elements
  <2>4. children[in] \in Seq(Ids) /\ Append(children[in], child) \in Seq(Ids)
    BY DEF TreeInv
  <2>5. children' \in [Ids -> Seq(Ids)] /\ children'[in] = Append(children[in], child)
        /\ \A p \in Ids : p # in => children'[p] = children[p]
    BY <1>2, <2>1, <2>4 DEF TreeInv
  <2>6. Elements(Append(children[in], child)) = Elements(children[in]) \cup {child}
    BY <2>4, AppendToSeq DEF IsSeq
  <2>7. \A p \in Ids : Elements(children'[p]) \subseteq Known'
    BY <2>2, <2>3, <2>5, <2>6 DEF TreeInv
  <2>8. lines' \in [Ids -> Seq(PointCounts)]
    BY <1>2 DEF TreeInv
  <2> QED BY <2>2, <2>5, <2>7, <2>8 DEF TreeInv
<1> QED BY <1>1, <1>2 DEF AddGroup

LEMMA LineKeeps ==
    ASSUME TreeInv, NEW in \in Ids, NEW fs, NEW version,
           ReadsLine(fs, version) => PointsIn(fs, version) \in PointCounts, AddLine(in, fs, version)
    PROVE  TreeInv'
<1>1. CASE UNCHANGED tree
  BY <1>1, TreeSkipped
<1>2. CASE /\ ReadsLine(fs, version) /\ order' = Listed(order, in)
           /\ lines' = [lines EXCEPT ![in] = Append(@, PointsIn(fs, version))] /\ UNCHANGED children
  <2>1. PICK n \in PointCounts : n = PointsIn(fs, version)
    BY <1>2
  <2>2. order' \in Seq(Ids) /\ Elements(order') = Elements(order) \cup {in}
    BY <1>2, ListedNode DEF TreeInv
  <2>3. Known = Elements(order) /\ Known' = Elements(order')
    BY DEF Known, Elements
  <2>4. Append(lines[in], n) \in Seq(PointCounts)
    BY DEF TreeInv
  <2>5. lines' \in [Ids -> Seq(PointCounts)]
    BY <1>2, <2>1, <2>4 DEF TreeInv
  <2> QED BY <1>2, <2>2, <2>3, <2>5 DEF TreeInv
<1> QED BY <1>1, <1>2 DEF AddLine

\* What the blocks of a page, whole or damaged, have in common: the ids in them
\* are of nodes, and a line that can be read has the points that were written.
GoodItem(fs, version) ==
    /\ 1 \in DOMAIN fs => fs[1].val \in Ids
    /\ 6 \in DOMAIN fs /\ fs[6].val.type = "group" =>
          (1 \in DOMAIN fs[6].val.fields => fs[6].val.fields[1].val \in Ids)
    /\ 6 \in DOMAIN fs /\ fs[6].val.type = "line" =>
          (ReadsLine(fs[6].val.fields, version) => PointsIn(fs[6].val.fields, version) \in PointCounts)

LEMMA ItemKeeps ==
    ASSUME TreeInv, NEW fs, NEW version, NEW wanted \in {"group", "line"}, GoodItem(fs, version),
           ParseSceneItem(fs, version, wanted)
    PROVE  TreeInv'
<1>1. CASE UNCHANGED tree
  BY <1>1, TreeSkipped
<1>2. CASE ~UNCHANGED tree
  <2>1. /\ IdsFrom1(fs, 4) /\ HasTag(fs, 6, 6, "Length4") /\ fs[6].val.type = wanted
        /\ IF wanted = "group" THEN AddGroup(fs[1].val, fs[6].val.fields)
                               ELSE AddLine(fs[1].val, fs[6].val.fields, version)
    BY <1>2 DEF ParseSceneItem
  <2>2. 1 \in DOMAIN fs /\ 6 \in DOMAIN fs
    BY <2>1 DEF IdsFrom1, Read, HasTag
  <2>3. PICK inner : inner = fs[6].val.fields
    OBVIOUS
  <2>4. fs[1].val \in Ids
    BY <2>2 DEF GoodItem
  <2>5. CASE wanted = "group"
    BY <2>1, <2>2, <2>3, <2>4, <2>5, GroupKeeps DEF GoodItem
  <2>6. CASE wanted = "line"
    BY <2>1, <2>2, <2>3, <2>4, <2>6, LineKeeps DEF GoodItem
  <2> QED BY <2>5, <2>6
<1> QED BY <1>1, <1>2

LEMMA GroupItemIsGood ==
    ASSUME NEW in \in Ids, NEW id \in Ids, NEW version, NEW fs \in DamagedItem(GroupItem(in, id))
    PROVE  GoodItem(fs, version)
<1> DEFINE value == <<Id(2, id)>>
<1>1. IsPayload(value) /\ value[1].val = id /\ DOMAIN value = {1}
  <2> DEFINE x == Id(2, id)
  <2>1. x.val = id /\ x = [index |-> x.index, typ |-> x.typ, val |-> x.val, whole |-> x.whole]
    BY DEF Id, Field
  <2> HIDE DEF x
  <2>2. <<x>> \in Seq({x}) /\ DOMAIN <<x>> = {1} /\ <<x>>[1] = x
    OBVIOUS
  <2>3. value = <<x>>
    BY DEF x
  <2> QED BY <2>1, <2>2, <2>3 DEF IsPayload, IsSeq
<1> HIDE DEF value
<1>2. GroupItem(in, id) = SceneItem(in, 0, "group", value)
  BY DEF GroupItem, value
<1>3. /\ 1 \in DOMAIN fs => fs[1].val = in
      /\ 6 \in DOMAIN fs => fs[6].val.type \in {"group", "none"} /\ PartOf(fs[6].val.fields, value)
  BY <1>1, <1>2, DamagedItemIsPart
<1> QED BY <1>1, <1>3 DEF GoodItem, PartOf

\* An encoding by its length: what fits no number of points is refused.
LEMMA LineItemIsGood ==
    ASSUME NEW in \in Ids, NEW bytes, NEW version, NEW fs \in DamagedItem(LineItem(in, bytes)),
           PointSize(version, bytes) # 0 => bytes \div PointSize(version, bytes) \in PointCounts
    PROVE  GoodItem(fs, version)
<1> DEFINE value == <<Byte4(1, 0), Byte4(2, 0), Byte8(3, 0), Byte4(4, 0), Sub(5, bytes), Id(6, 0)>>
<1>1. IsPayload(value) /\ value[5].val = bytes
  <2> DEFINE x1 == Byte4(1, 0)
             x2 == Byte4(2, 0)
             x3 == Byte8(3, 0)
             x4 == Byte4(4, 0)
             x5 == Sub(5, bytes)
             x6 == Id(6, 0)
             S == {x1, x2, x3, x4, x5, x6}
  <2>1. value = <<x1, x2, x3, x4, x5, x6>>
    OBVIOUS
  <2>2. \A x \in S : x = [index |-> x.index, typ |-> x.typ, val |-> x.val, whole |-> x.whole]
    BY DEF Id, Byte4, Byte8, Sub, Field
  <2>3. x5.val = bytes
    BY DEF Sub, Field
  <2> HIDE DEF x1, x2, x3, x4, x5, x6, value
  <2>4. value \in Seq(S) /\ Len(value) = 6 /\ value[5] = x5
    BY <2>1
  <2> HIDE DEF S
  <2>5. DOMAIN value = 1..Len(value) /\ \A k \in 1..Len(value) : value[k] \in S
    BY <2>4, SeqElements
  <2> QED BY <2>2, <2>3, <2>4, <2>5 DEF IsPayload, IsSeq
<1> HIDE DEF value
<1>2. LineItem(in, bytes) = SceneItem(in, 0, "line", value)
  BY DEF LineItem, value
<1>3. /\ 1 \in DOMAIN fs => fs[1].val = in
      /\ 6 \in DOMAIN fs => fs[6].val.type \in {"line", "none"} /\ PartOf(fs[6].val.fields, value)
  BY <1>1, <1>2, DamagedItemIsPart
<1>4. ASSUME 6 \in DOMAIN fs, NEW inner, inner = fs[6].val.fields, ReadsLine(inner, version)
      PROVE  PointsIn(inner, version) \in PointCounts
  <2>1. 5 \in DOMAIN inner /\ PointSize(version, inner[5].val) # 0
    BY <1>4 DEF ReadsLine, Read, HasTag
  <2>2. inner[5].val = bytes
    BY <1>1, <1>3, <1>4, <2>1 DEF PartOf
  <2> QED BY <2>1, <2>2 DEF PointsIn
<1> QED BY <1>3, <1>4 DEF GoodItem

\* The length tells the number of points of both encodings, given the version.
LEMMA PointsByLength ==
    ASSUME NEW n \in Nat
    PROVE  /\ (24 * n) \div PointSize(1, 24 * n) = n
           /\ \A version \in {2, 3} : (14 * n) \div PointSize(version, 14 * n) = n
           /\ PointSize(1, 24 * n + 1) = 0
<1>1. (24 * n) % 24 = 0 /\ (24 * n) \div 24 = n
  OBVIOUS
<1>2. (14 * n) % 14 = 0 /\ (14 * n) \div 14 = n
  OBVIOUS
<1>3. (24 * n + 1) % 24 # 0 /\ (24 * n + 1) % 14 # 0
  OBVIOUS
<1>4. PointSize(1, 24 * n) = 24
  BY <1>1 DEF PointSize
<1>5. PointSize(2, 14 * n) = 14 /\ PointSize(3, 14 * n) = 14
  BY <1>2 DEF PointSize
<1>6. PointSize(1, 24 * n + 1) = 0
  BY <1>3 DEF PointSize
<1>7. (24 * n) \div PointSize(1, 24 * n) = n
  BY <1>1, <1>4
<1>8. \A version \in {2, 3} : (14 * n) \div PointSize(version, 14 * n) = n
  <2>1. ASSUME NEW version \in {2, 3} PROVE (14 * n) \div PointSize(version, 14 * n) = n
    <3>1. PointSize(version, 14 * n) = 14
      BY <1>5
    <3> QED BY <1>2, <3>1
  <2> QED BY <2>1
<1> QED BY <1>6, <1>7, <1>8

LEMMA LinesAreGood ==
    ASSUME NEW in \in Ids, NEW n \in PointCounts
    PROVE  /\ \A fs \in DamagedItem(LineItemV1(in, n)) : GoodItem(fs, 1)
           /\ \A version \in {2, 3} : \A fs \in DamagedItem(LineItemV2(in, n)) : GoodItem(fs, version)
           /\ GoodItem(LineItem(in, 24 * n + 1), 1)
<1>1. n \in Nat
  BY SceneAssumption
<1>2. LineItemV1(in, n) = LineItem(in, 24 * n) /\ LineItemV2(in, n) = LineItem(in, 14 * n)
  BY DEF LineItemV1, LineItemV2
<1>3. \A fs \in DamagedItem(LineItem(in, 24 * n)) : GoodItem(fs, 1)
  BY <1>1, PointsByLength, LineItemIsGood
<1>4. ASSUME NEW version \in {2, 3}, NEW fs \in DamagedItem(LineItem(in, 14 * n))
      PROVE  GoodItem(fs, version)
  BY <1>1, PointsByLength, LineItemIsGood
<1>5. LineItem(in, 24 * n + 1) \in DamagedItem(LineItem(in, 24 * n + 1))
  BY DEF DamagedItem, Damaged
<1>6. GoodItem(LineItem(in, 24 * n + 1), 1)
  BY <1>1, <1>5, PointsByLength, LineItemIsGood
<1> QED BY <1>2, <1>3, <1>4, <1>6

LEMMA SceneTreeKeeps ==
    ASSUME TreeInv, NEW id \in Ids, NEW in \in Ids, NEW fs \in DamagedIn(SceneTree(id, in), 4),
           ParseSceneTree(fs)
    PROVE  TreeInv'
<1> DEFINE item == SceneTree(id, in)
           S == {Id(1, id), Id(2, 0), Byte1(3, FALSE), Sub(4, <<Id(1, in)>>)}
<1>1. item \in Seq(S) /\ Len(item) = 4 /\ item[1] = Id(1, id)
  BY DEF SceneTree
<1>2. \A x \in S : x = [index |-> x.index, typ |-> x.typ, val |-> x.val, whole |-> x.whole]
  BY DEF Id, Byte1, Sub, Field
<1> HIDE DEF item, S
<1>3. IsPayload(item) /\ 4 \in DOMAIN item
  BY <1>1, <1>2, SeqElements DEF IsPayload, IsSeq
<1>4. 1 \in DOMAIN fs => fs[1].val = id
  <2>1. Id(1, id).val = id
    BY DEF Id, Field
  <2> QED BY <1>1, <1>3, <2>1, DamagedInKeepsFirst DEF item
<1>5. CASE UNCHANGED tree
  BY <1>5, TreeSkipped
<1>6. CASE IdsFrom1(fs, 2) /\ order' = Listed(order, fs[1].val) /\ UNCHANGED <<children, lines>>
  <2>1. 1 \in DOMAIN fs
    BY <1>6 DEF IdsFrom1, Read, HasTag
  <2> QED BY <1>4, <1>6, <2>1, ListingKeeps
<1> QED BY <1>5, <1>6 DEF ParseSceneTree

LEMMA TreeNodeKeeps ==
    ASSUME TreeInv, NEW id \in Ids, NEW v \in BOOLEAN, NEW k \in {2, 3},
           NEW fs \in DamagedIn(TreeNode(id, v), k), ParseTreeNode(fs)
    PROVE  TreeInv'
<1> DEFINE item == TreeNode(id, v)
           S == {Id(1, id), Lww(2, Sub(2, 0)), Lww(3, Byte1(2, v))}
<1>1. item \in Seq(S) /\ Len(item) = 3 /\ item[1] = Id(1, id)
  BY DEF TreeNode
<1>2. \A x \in S : x = [index |-> x.index, typ |-> x.typ, val |-> x.val, whole |-> x.whole]
  BY DEF Id, Lww, Sub, Field
<1> HIDE DEF item, S
<1>3. IsPayload(item) /\ k \in DOMAIN item
  BY <1>1, <1>2, SeqElements DEF IsPayload, IsSeq
<1>4. 1 \in DOMAIN fs => fs[1].val = id
  <2>1. Id(1, id).val = id
    BY DEF Id, Field
  <2> QED BY <1>1, <1>3, <2>1, DamagedInKeepsFirst DEF item
<1>5. CASE UNCHANGED tree
  BY <1>5, TreeSkipped
<1>6. CASE IdsFrom1(fs, 1) /\ order' = Listed(order, fs[1].val) /\ UNCHANGED <<children, lines>>
  <2>1. 1 \in DOMAIN fs
    BY <1>6 DEF IdsFrom1, Read, HasTag
  <2> QED BY <1>4, <1>6, <2>1, ListingKeeps
<1> QED BY <1>5, <1>6 DEF ParseTreeNode

LEMMA BlockKeepsTree == ASSUME TreeInv, ParseBlock PROVE TreeInv'
<1>1. CASE Groups
  <2>1. PICK in \in Ids, id \in Ids :
           \/ \E fs \in DamagedIn(SceneTree(id, in), 4) : ParseSceneTree(fs)
           \/ \E fs \in DamagedItem(GroupItem(in, id)), wanted \in {"group", "line"} :
                 ParseSceneItem(fs, 1, wanted)
    BY <1>1 DEF Groups
  <2> QED BY <2>1, SceneTreeKeeps, GroupItemIsGood, ItemKeeps
<1>2. CASE TreeNodes
  <2>1. PICK id \in Ids, v \in BOOLEAN :
           \E fs \in DamagedIn(TreeNode(id, v), 2) \cup DamagedIn(TreeNode(id, v), 3) : ParseTreeNode(fs)
    BY <1>2 DEF TreeNodes
  <2> QED BY <2>1, TreeNodeKeeps
<1>3. CASE LineItems
  <2>1. PICK in \in Ids, n \in PointCounts :
           \/ \E fs \in DamagedItem(LineItemV1(in, n)) : ParseSceneItem(fs, 1, "line")
           \/ \E fs \in DamagedItem(LineItemV2(in, n)), version \in {2, 3} :
                 ParseSceneItem(fs, version, "line")
           \/ ParseSceneItem(LineItem(in, 24 * n + 1), 1, "line")
    BY <1>3 DEF LineItems
  <2> QED BY <2>1, LinesAreGood, ItemKeeps
<1>4. CASE RootTexts
  <2>1. UNCHANGED <<order, children, lines>>
    BY <1>4 DEF RootTexts, ParseRootText, tree
  <2> QED BY <2>1 DEF TreeInv, Known
<1>5. CASE ParseOther
  BY <1>5, TreeSkipped DEF ParseOther
<1> QED BY <1>1, <1>2, <1>3, <1>4, <1>5 DEF ParseBlock

LEMMA TreeInvHolds == SceneSpec => []TreeInv
<1>1. SceneInit => TreeInv
  <2> SUFFICES ASSUME SceneInit PROVE TreeInv
    OBVIOUS
  <2>1. order \in Seq(Ids) /\ children \in [Ids -> Seq(Ids)] /\ lines \in [Ids -> Seq(PointCounts)]
    BY SceneAssumption DEF SceneInit
  <2>2. Elements(<<>>) = {}
    BY DEF Elements
  <2> QED BY <2>1, <2>2 DEF SceneInit, TreeInv
<1>2. TreeInv /\ [SceneNext]_sceneVars => TreeInv'
  <2> SUFFICES ASSUME TreeInv, [SceneNext]_sceneVars PROVE TreeInv'
    OBVIOUS
  <2>1. CASE ~ParseBlock
    <3>1. UNCHANGED tree
      BY <2>1 DEF SceneNext, ParseFails, Assemble, StartAssemble, NextLayer, CollectChild,
         CollectReturn, StartOrphans, NextOrphan, FinishAssemble, Finished, sceneVars
    <3> QED BY <3>1, TreeSkipped
  <2> QED BY <2>1, BlockKeepsTree
<1> QED BY <1>1, <1>2, PTL DEF SceneSpec

\* A line has the points it was written with, in either encoding, whatever their
\* number and wherever the block is damaged (parse.go:255-268).
THEOREM LinesKeepTheirPoints == SceneSpec => []LinesAsWritten
<1>1. TreeInv => LinesAsWritten
  BY DEF TreeInv, LinesAsWritten
<1> QED BY <1>1, TreeInvHolds, PTL

-----------------------------------------------------------------------------
(* The order in which assemble goes about its layers.                      *)

Frame == [node : Ids, at : Nat \ {0}]

StackInv ==
    /\ stack \in Seq(Frame) /\ layers \in Seq(Ids) /\ seen \subseteq Ids
    /\ pc \in {"layers", "orphans"} => RootID \in seen

\* collect leaves no child of a node it has seen, except those its calls are
\* still to come to.
ChildrenSeen ==
    pc \in {"layers", "orphans"} => \A p \in seen \ {RootID} :
        \/ Elements(children[p]) \subseteq seen
        \/ \E s \in DOMAIN stack :
              stack[s].node = p /\ \A i \in DOMAIN children[p] : i < stack[s].at => children[p][i] \in seen

\* How many of layerIDs were taken up.
TakenUp == Len(LayerIDs) - Len(todo)

\* The layers taken up before the one at work are seen, with all under them.
LayersTaken ==
    pc = "layers" =>
        /\ todo \in Seq(Ids) /\ Len(todo) <= Len(LayerIDs)
        /\ \A k \in DOMAIN todo : todo[k] = LayerIDs[TakenUp + k]
        /\ \A i \in 1..TakenUp : LayerIDs[i] \in seen
        /\ stack # <<>> => /\ TakenUp > 0 /\ layers # <<>> /\ Layer = LayerIDs[TakenUp] /\ Layer # RootID
                           /\ \A s \in DOMAIN stack : stack[s].node \in Under(Layer)
                           /\ \A i \in 1..(TakenUp - 1) :
                                 LayerIDs[i] # RootID => Under(LayerIDs[i]) \subseteq seen

\* When the orphans' turn comes, whatever is under a layer is drawn.
LayersDone ==
    pc = "orphans" => \A i \in DOMAIN LayerIDs : LayerIDs[i] # RootID => Under(LayerIDs[i]) \subseteq seen

\* The i-th of layerIDs is the first layer that the node is under.
FirstLayerOf(id, i) ==
    /\ i \in DOMAIN LayerIDs /\ LayerIDs[i] # RootID /\ id \in Under(LayerIDs[i])
    /\ \A j \in 1..(i - 1) : LayerIDs[j] # RootID => id \notin Under(LayerIDs[j])

Right(id, layer) ==
    \/ \E i \in DOMAIN LayerIDs : layer = LayerIDs[i] /\ FirstLayerOf(id, i)
    \/ layer = RootID /\ Owners(id) = {}

DrawnRight == \A k \in DOMAIN drawn : Right(drawn[k].node, drawn[k].layer)

LayerInv == TreeInv /\ StackInv /\ ChildrenSeen /\ LayersTaken /\ LayersDone /\ DrawnRight

-----------------------------------------------------------------------------
(* The layers of a tree.                                                   *)

\* Every set of numbers that is not empty has a least one: what the proofs
\* about loops rest on.
LEMMA LeastNumber ==
    ASSUME NEW T, T \subseteq Nat, T # {}
    PROVE  \E x \in T : \A y \in T : x <= y
<1> DEFINE R == OpToRel(<, Nat)
<1>1. IsWellFoundedOn(R, Nat)
  BY NatLessThanWellFounded
<1>2. \A x, y \in Nat : <<x, y>> \in R <=> x < y
  BY DEF OpToRel
<1> HIDE DEF R
<1>3. PICK x \in T : \A y \in T : ~(<<y, x>> \in R)
  BY <1>1, WFMin
<1>4. ASSUME NEW y \in T PROVE x <= y
  <2>1. x \in Nat /\ y \in Nat
    OBVIOUS
  <2>2. ~(y < x)
    BY <1>2, <1>3, <2>1
  <2> QED BY <2>1, <2>2
<1> QED BY <1>4

Claims(id) == id # RootID /\ parent[id] = RootID

\* The loop of childrenClaimingRoot, up to its turn m.
ClaimLoop(f, m) ==
    f = [n \in 0..m |-> IF n = 0 THEN <<>>
                        ELSE IF Claims(order[n]) THEN Append(f[n - 1], order[n]) ELSE f[n - 1]]

LEMMA ClaimLoopRuns == ASSUME NEW N \in Nat PROVE \A m \in 0..N : \E f : ClaimLoop(f, m)
<1> DEFINE T == {m \in 0..N : ~\E f : ClaimLoop(f, m)}
<1> SUFFICES ASSUME T # {} PROVE FALSE
  OBVIOUS
<1>1. T \subseteq Nat
  OBVIOUS
<1> HIDE DEF T
<1>2. PICK m \in T : \A n \in T : m <= n
  BY <1>1, LeastNumber
<1> USE DEF T
<1>3. m # 0
  <2>1. ClaimLoop([n \in 0..0 |-> <<>>], 0)
    BY DEF ClaimLoop
  <2> QED BY <2>1
<1>4. m \in Nat /\ m - 1 \in 0..N /\ m - 1 \notin T
  BY <1>2, <1>3
<1>5. PICK f : ClaimLoop(f, m - 1)
  BY <1>4
<1> DEFINE g == [n \in 0..m |-> IF n < m THEN f[n]
                                ELSE IF Claims(order[m]) THEN Append(f[m - 1], order[m]) ELSE f[m - 1]]
<1>6. ClaimLoop(g, m)
  <2> HIDE DEF T
  <2>1. m \in Nat \ {0}
    BY <1>3, <1>4
  <2>2. \A n \in 0..(m - 1) : g[n] = f[n]
    BY <2>1
  <2>3. \A n \in 0..(m - 1) :
           f[n] = IF n = 0 THEN <<>>
                  ELSE IF Claims(order[n]) THEN Append(f[n - 1], order[n]) ELSE f[n - 1]
    BY <1>5 DEF ClaimLoop
  <2>4. ASSUME NEW n \in 0..m
        PROVE  g[n] = IF n = 0 THEN <<>>
                      ELSE IF Claims(order[n]) THEN Append(g[n - 1], order[n]) ELSE g[n - 1]
    <3>1. CASE n = m
      BY <3>1, <2>1, <2>2
    <3>2. CASE n < m /\ n # 0
      <4>1. g[n] = f[n] /\ g[n - 1] = f[n - 1]
        BY <3>2, <2>1, <2>2
      <4> QED BY <4>1, <2>3, <3>2, <2>1
    <3>3. CASE n = 0
      <4>1. g[0] = f[0] /\ f[0] = <<>>
        BY <2>1, <2>2, <2>3
      <4> QED BY <3>3, <4>1
    <3> QED BY <3>1, <3>2, <3>3, <2>1
  <2>5. g = [n \in 0..m |-> g[n]]
    OBVIOUS
  <2> HIDE DEF g
  <2> QED BY <2>4, <2>5 DEF ClaimLoop
<1> QED BY <1>6

\* The groups that say the root is their parent are a sequence of nodes.
LEMMA ClaimingAreNodes == ASSUME IsSeq(order) PROVE ChildrenClaimingRoot \in Seq(Known)
<1> DEFINE N == Len(order)
           claiming == CHOOSE f : ClaimLoop(f, N)
<1>1. N \in Nat /\ DOMAIN order = 1..N
  BY DEF IsSeq
<1>2. ClaimLoop(claiming, N)
  <2>1. N \in 0..N
    BY <1>1
  <2>2. \E f : ClaimLoop(f, N)
    BY <1>1, <2>1, ClaimLoopRuns
  <2> QED BY <2>2
<1>3. ChildrenClaimingRoot = claiming[N]
  BY DEF ChildrenClaimingRoot, ClaimLoop, Claims
<1> HIDE DEF claiming
<1>4. \A n \in 0..N :
         claiming[n] = IF n = 0 THEN <<>>
                       ELSE IF Claims(order[n]) THEN Append(claiming[n - 1], order[n])
                       ELSE claiming[n - 1]
  BY <1>2 DEF ClaimLoop
<1> HIDE DEF N
<1> DEFINE T == {n \in 0..N : claiming[n] \notin Seq(Known)}
<1>5. T = {}
  <2> SUFFICES ASSUME T # {} PROVE FALSE
    OBVIOUS
  <2>1. T \subseteq Nat
    OBVIOUS
  <2> HIDE DEF T
  <2>2. PICK m \in T : \A n \in T : m <= n
    BY <2>1, LeastNumber
  <2> USE DEF T
  <2>3. m # 0
    <3>1. claiming[0] = <<>>
      BY <1>1, <1>4
    <3>2. <<>> \in Seq(Known)
      OBVIOUS
    <3> QED BY <3>1, <3>2
  <2>4. m \in 1..N /\ m - 1 \in 0..N /\ m - 1 \notin T
    BY <1>1, <2>2, <2>3
  <2>5. claiming[m - 1] \in Seq(Known) /\ order[m] \in Known
    BY <1>1, <2>4 DEF Known
  <2>6. claiming[m] \in Seq(Known)
    <3>1. Append(claiming[m - 1], order[m]) \in Seq(Known)
      BY <2>5
    <3>2. claiming[m] = IF Claims(order[m]) THEN Append(claiming[m - 1], order[m]) ELSE claiming[m - 1]
      BY <1>1, <1>4, <2>4
    <3> QED BY <2>5, <3>1, <3>2
  <2> QED BY <2>6
<1> QED BY <1>1, <1>3, <1>5

LEMMA LayersAreNodes ==
    ASSUME TreeInv
    PROVE  LayerIDs \in Seq(Ids) /\ (\A i \in DOMAIN LayerIDs : LayerIDs[i] \in Known) /\ Known \subseteq Ids
<1>1. Known \subseteq Ids
  BY SeqElements DEF TreeInv, Known
<1>2. CASE children[RootID] # <<>>
  BY <1>1, <1>2, SceneAssumption DEF TreeInv, LayerIDs, Elements
<1>3. CASE children[RootID] = <<>>
  <2>1. LayerIDs \in Seq(Known)
    BY <1>3, ClaimingAreNodes DEF TreeInv, IsSeq, LayerIDs
  <2> QED BY <1>1, <2>1, SeqElements
<1> QED BY <1>1, <1>2, <1>3

\* A node is under itself, ...
LEMMA UnderItself == ASSUME NEW id \in Ids PROVE id \in Under(id)
BY DEF Under

\* ... its children are under what it is under, ...
LEMMA ChildIsUnder ==
    ASSUME TreeInv, NEW g, NEW p \in Under(g), NEW i \in DOMAIN children[p], children[p][i] # RootID
    PROVE  children[p][i] \in Under(g)
<1>1. p \in Ids /\ children[p][i] \in Ids
  BY SeqElements DEF Under, TreeInv
<1>2. ASSUME NEW S \in SUBSET Ids, g \in S, Closed(S) PROVE children[p][i] \in S
  <2>1. p \in S
    BY <1>2 DEF Under
  <2> QED BY <1>2, <2>1 DEF Closed
<1> QED BY <1>1, <1>2 DEF Under

\* ... and whatever is closed and has a node has all that is under it.
LEMMA UnderWithin ==
    ASSUME NEW S \in SUBSET Ids, NEW g \in S, Closed(S)
    PROVE  Under(g) \subseteq S
BY DEF Under

\* The root is under no layer.
LEMMA RootUnderNone ==
    ASSUME TreeInv, NEW g \in Ids, g # RootID
    PROVE  RootID \notin Under(g)
<1> DEFINE S == Ids \ {RootID}
<1>1. Closed(S)
  BY SeqElements DEF TreeInv, Closed
<1>2. Under(g) \subseteq S
  BY <1>1, UnderWithin
<1> QED BY <1>2

\* What the tree says does not change while it is flattened.
LEMMA TreeSame ==
    ASSUME UNCHANGED <<order, parent, children>>
    PROVE  /\ Known' = Known /\ LayerIDs' = LayerIDs
           /\ \A g : Under(g)' = Under(g)
           /\ \A i : Under(LayerIDs[i])' = Under(LayerIDs[i])
           /\ \A id, layer : Right(id, layer)' <=> Right(id, layer)
<1>1. ChildrenClaimingRoot' = ChildrenClaimingRoot
  <2> DEFINE claims(ord, par) ==
               LET claiming[n \in 0..Len(ord)] ==
                       IF n = 0 THEN <<>>
                       ELSE IF ord[n] # RootID /\ par[ord[n]] = RootID
                            THEN Append(claiming[n - 1], ord[n]) ELSE claiming[n - 1]
               IN  claiming[Len(ord)]
  <2>1. ChildrenClaimingRoot = claims(order, parent) /\ ChildrenClaimingRoot' = claims(order', parent')
    BY DEF ChildrenClaimingRoot
  <2> HIDE DEF claims
  <2> QED BY <2>1
<1>2. Known' = Known /\ LayerIDs' = LayerIDs
  BY <1>1 DEF Known, LayerIDs
<1>3. \A S : Closed(S)' <=> Closed(S)
  BY DEF Closed
<1>4. \A g : Under(g)' = Under(g)
  BY <1>3 DEF Under
<1>5. \A i : Under(LayerIDs[i])' = Under(LayerIDs[i])
  BY <1>2, <1>4 DEF Under, Closed
<1>6. \A id : Owners(id)' = Owners(id)
  BY <1>2, <1>5 DEF Owners
<1>7. \A id, i : FirstLayerOf(id, i)' <=> FirstLayerOf(id, i)
  BY <1>2, <1>5 DEF FirstLayerOf
<1>8. \A id, layer : Right(id, layer)' <=> Right(id, layer)
  BY <1>2, <1>6, <1>7 DEF Right
<1> QED BY <1>2, <1>4, <1>5, <1>8

-----------------------------------------------------------------------------
(* Every step keeps it.                                                    *)

\* The states the layers are made in.
Assembling == SceneInv /\ LayerInv

\* What collect's steps do to its calls.
LEMMA StackTop ==
    ASSUME stack \in Seq(Frame), stack # <<>>
    PROVE  /\ Len(stack) \in Nat \ {0} /\ DOMAIN stack = 1..Len(stack) /\ Top \in Frame
           /\ Below \in Seq(Frame) /\ DOMAIN Below = 1..(Len(stack) - 1)
           /\ \A s \in 1..(Len(stack) - 1) : Below[s] = stack[s]
           /\ Onwards \in Seq(Frame) /\ DOMAIN Onwards = DOMAIN stack
           /\ \A s \in 1..(Len(stack) - 1) : Onwards[s] = stack[s]
           /\ Onwards[Len(stack)] = [node |-> Top.node, at |-> Top.at + 1]
<1>1. Len(stack) \in Nat \ {0} /\ DOMAIN stack = 1..Len(stack) /\ Top \in Frame
  BY DEF Top
<1>2. Below \in Seq(Frame) /\ DOMAIN Below = 1..(Len(stack) - 1) /\ Len(Below) = Len(stack) - 1
      /\ \A s \in 1..(Len(stack) - 1) : Below[s] = stack[s]
  BY <1>1 DEF Below
<1> DEFINE frame == [node |-> Top.node, at |-> Top.at + 1]
<1>3. frame \in Frame
  BY <1>1 DEF Frame
<1>4. Onwards = Append(Below, frame)
  BY DEF Onwards
<1> HIDE DEF Frame, frame
<1>5. Onwards \in Seq(Frame) /\ Len(Onwards) = Len(stack) /\ Onwards[Len(stack)] = frame
      /\ \A s \in 1..(Len(stack) - 1) : Onwards[s] = stack[s]
  <2>1. Onwards \in Seq(Frame) /\ Len(Onwards) = Len(Below) + 1
    BY <1>2, <1>3, <1>4
  <2>2. Onwards[Len(Below) + 1] = frame /\ \A s \in 1..Len(Below) : Onwards[s] = Below[s]
    BY <1>2, <1>4, AppendToSeq DEF IsSeq
  <2>3. Len(Below) + 1 = Len(stack)
    BY <1>1, <1>2
  <2>4. ASSUME NEW s \in 1..(Len(stack) - 1) PROVE Onwards[s] = stack[s]
    BY <1>2, <2>2
  <2> QED BY <2>1, <2>2, <2>3, <2>4
<1>6. DOMAIN Onwards = 1..Len(stack)
  BY <1>5, SeqElements
<1> QED BY <1>1, <1>2, <1>5, <1>6 DEF frame

\* A call for one more node: collect starts, or goes into a child.
LEMMA OneCall ==
    ASSUME NEW id \in Ids, NEW calls, calls = <<[node |-> id, at |-> 1]>>
    PROVE  calls \in Seq(Frame) /\ DOMAIN calls = {1} /\ calls[1].node = id /\ calls[1].at = 1
<1> DEFINE frame == [node |-> id, at |-> 1]
<1>1. frame \in Frame /\ frame.node = id /\ frame.at = 1
  BY DEF Frame
<1> HIDE DEF frame, Frame
<1>2. calls = <<frame>>
  BY DEF frame
<1> QED BY <1>1, <1>2

LEMMA DrawRight ==
    ASSUME Assembling, UNCHANGED <<order, parent, children>>, NEW id, NEW layer, Right(id, layer),
           drawn' = Append(drawn, [node |-> id, layer |-> layer])
    PROVE  DrawnRight'
<1> DEFINE entry == [node |-> id, layer |-> layer]
<1>1. entry.node = id /\ entry.layer = layer
  OBVIOUS
<1> HIDE DEF entry
<1>2. /\ DOMAIN drawn = 1..Len(drawn) /\ DOMAIN drawn' = 1..(Len(drawn) + 1)
      /\ drawn'[Len(drawn) + 1] = entry /\ \A k \in 1..Len(drawn) : drawn'[k] = drawn[k]
      /\ Len(drawn) \in Nat
  BY AppendToSeq DEF Assembling, SceneInv, entry
<1>3. ASSUME NEW k \in DOMAIN drawn', NEW node, NEW in, drawn'[k].node = node, drawn'[k].layer = in
      PROVE  Right(node, in)
  <2>1. CASE k \in DOMAIN drawn
    BY <1>2, <1>3, <2>1 DEF Assembling, LayerInv, DrawnRight
  <2>2. CASE k = Len(drawn) + 1
    BY <1>1, <1>2, <1>3, <2>2
  <2> QED BY <1>2, <2>1, <2>2
<1>4. \A node, in : Right(node, in)' <=> Right(node, in)
  BY TreeSame
<1>5. ASSUME NEW k \in DOMAIN drawn' PROVE Right(drawn[k].node, drawn[k].layer)'
  <2>1. PICK node, in : node = drawn'[k].node /\ in = drawn'[k].layer
    OBVIOUS
  <2>2. Right(node, in)'
    BY <1>3, <1>4, <2>1
  <2> QED BY <2>1, <2>2 DEF Right, FirstLayerOf, Owners
<1> QED BY <1>5 DEF DrawnRight

LEMMA KeptRight ==
    ASSUME DrawnRight, UNCHANGED <<order, parent, children, drawn>>
    PROVE  DrawnRight'
<1>1. \A node, in : Right(node, in)' <=> Right(node, in)
  BY TreeSame
<1>2. ASSUME NEW k \in DOMAIN drawn' PROVE Right(drawn[k].node, drawn[k].layer)'
  <2>1. PICK node, in : node = drawn[k].node /\ in = drawn[k].layer
    OBVIOUS
  <2>2. Right(node, in)'
    BY <1>1, <2>1 DEF DrawnRight
  <2> QED BY <2>1, <2>2 DEF Right, FirstLayerOf, Owners
<1> QED BY <1>2 DEF DrawnRight

\* Between two layers all that is under a layer taken up is seen.
LEMMA TakenIsSeen ==
    ASSUME Assembling, pc = "layers", stack = <<>>, NEW i \in DOMAIN LayerIDs, LayerIDs[i] # RootID,
           LayerIDs[i] \in seen
    PROVE  Under(LayerIDs[i]) \subseteq seen
<1> DEFINE S == seen \ {RootID}
<1>1. DOMAIN stack = {}
  OBVIOUS
<1>2. \A p \in S : Elements(children[p]) \subseteq seen
  BY <1>1 DEF Assembling, LayerInv, ChildrenSeen
<1>3. Closed(S)
  BY <1>2 DEF Closed, Elements
<1>4. S \in SUBSET Ids
  BY DEF Assembling, LayerInv, StackInv
<1> QED BY <1>3, <1>4, UnderWithin

\* A node that was not seen when a layer is at work is under no earlier layer.
LEMMA UnseenIsFirst ==
    ASSUME NEW id, NEW m, m \in DOMAIN LayerIDs, LayerIDs[m] # RootID, id \in Under(LayerIDs[m]),
           id \notin seen,
           \A i \in 1..(m - 1) : LayerIDs[i] # RootID => Under(LayerIDs[i]) \subseteq seen
    PROVE  Right(id, LayerIDs[m])
BY DEF Right, FirstLayerOf

\* ... and with the orphans it is under none.
LEMMA UnseenIsOrphan ==
    ASSUME Assembling, pc = "orphans", NEW id, id \notin seen
    PROVE  Right(id, RootID)
BY DEF Assembling, LayerInv, LayersDone, Right, Owners

LEMMA StartAssembleLayers == ASSUME Assembling, StartAssemble PROVE LayerInv'
<1>1. /\ pc' = "layers" /\ todo' = LayerIDs /\ seen' = {RootID} /\ stack' = <<>> /\ drawn' = <<>>
      /\ UNCHANGED <<layers, drawn>> /\ UNCHANGED tree
  BY DEF StartAssemble, Assembling, SceneInv, QuietBefore
<1>2. TreeInv'
  BY <1>1, TreeSkipped DEF Assembling, LayerInv
<1>3. LayerIDs' = LayerIDs /\ LayerIDs \in Seq(Ids)
  BY <1>1, TreeSame, LayersAreNodes DEF tree, Assembling, LayerInv
<1>4. StackInv'
  BY <1>1, SceneAssumption DEF StackInv, Assembling, LayerInv
<1>5. TakenUp' = 0 /\ Len(LayerIDs) \in Nat
  BY <1>1, <1>3 DEF TakenUp
<1>6. LayersTaken'
  <2>1. \A k \in DOMAIN todo' : 0 + k = k
    BY <1>1, <1>3
  <2> QED BY <1>1, <1>3, <1>5, <2>1 DEF LayersTaken
<1>7. DrawnRight'
  BY <1>1 DEF DrawnRight
<1> QED BY <1>1, <1>2, <1>4, <1>6, <1>7 DEF LayerInv, ChildrenSeen, LayersDone

\* The next of layerIDs is the one after those taken up.
LEMMA NextTaken ==
    ASSUME Assembling, pc = "layers", todo # <<>>, todo' = Tail(todo), LayerIDs' = LayerIDs
    PROVE  /\ TakenUp \in Nat /\ TakenUp' = TakenUp + 1
           /\ TakenUp + 1 \in DOMAIN LayerIDs /\ Head(todo) = LayerIDs[TakenUp + 1]
           /\ todo' \in Seq(Ids) /\ Len(todo') <= Len(LayerIDs)
           /\ \A k \in DOMAIN todo' : todo'[k] = LayerIDs[TakenUp + 1 + k]
<1>1. /\ todo \in Seq(Ids) /\ Len(todo) <= Len(LayerIDs)
      /\ \A k \in DOMAIN todo : todo[k] = LayerIDs[TakenUp + k]
  BY DEF Assembling, LayerInv, LayersTaken
<1>2. LayerIDs \in Seq(Ids)
  BY LayersAreNodes DEF Assembling, LayerInv
<1>3. /\ Len(todo) \in Nat \ {0} /\ Len(LayerIDs) \in Nat /\ 1 \in DOMAIN todo /\ Head(todo) = todo[1]
      /\ todo' \in Seq(Ids) /\ Len(todo') = Len(todo) - 1 /\ DOMAIN todo' = 1..(Len(todo) - 1)
      /\ \A k \in DOMAIN todo' : todo'[k] = todo[k + 1] /\ k + 1 \in DOMAIN todo
  BY <1>1, <1>2
<1>4. TakenUp \in Nat /\ TakenUp' = TakenUp + 1 /\ TakenUp + 1 \in 1..Len(LayerIDs)
  BY <1>1, <1>3 DEF TakenUp
<1>5. DOMAIN LayerIDs = 1..Len(LayerIDs)
  BY <1>2
<1> HIDE DEF TakenUp
<1>6. ASSUME NEW k \in DOMAIN todo' PROVE todo'[k] = LayerIDs[TakenUp + 1 + k]
  <2>1. TakenUp + (k + 1) = TakenUp + 1 + k
    BY <1>3, <1>4
  <2> QED BY <1>1, <1>3, <2>1
<1> QED BY <1>1, <1>3, <1>4, <1>5, <1>6

LEMMA NextLayerLayers == ASSUME Assembling, NextLayer PROVE LayerInv'
<1>1. pc = "layers" /\ stack = <<>> /\ todo # <<>> /\ todo' = Tail(todo) /\ UNCHANGED <<pc, tree>>
  BY DEF NextLayer
<1>2. PICK h, m : h = Head(todo) /\ m = TakenUp
  OBVIOUS
<1>3. TreeInv' /\ Known' = Known /\ LayerIDs' = LayerIDs
      /\ (\A g : Under(g)' = Under(g)) /\ (\A i : Under(LayerIDs[i])' = Under(LayerIDs[i]))
  BY <1>1, TreeSkipped, TreeSame DEF tree, Assembling, LayerInv
<1>4. LayerIDs \in Seq(Ids) /\ (\A i \in DOMAIN LayerIDs : LayerIDs[i] \in Known) /\ Known \subseteq Ids
  BY LayersAreNodes DEF Assembling, LayerInv
<1>5. /\ m \in Nat /\ TakenUp' = m + 1 /\ m + 1 \in DOMAIN LayerIDs /\ h = LayerIDs[m + 1]
      /\ todo' \in Seq(Ids) /\ Len(todo') <= Len(LayerIDs)
      /\ \A k \in DOMAIN todo' : todo'[k] = LayerIDs[m + 1 + k]
  BY <1>1, <1>2, <1>3, NextTaken
<1>6. h \in Known /\ h \in Ids /\ RootID \in seen /\ seen \subseteq Ids /\ layers \in Seq(Ids)
  BY <1>1, <1>4, <1>5 DEF Assembling, LayerInv, StackInv
<1>7. \A i \in 1..m : LayerIDs[i] \in seen
  BY <1>1, <1>2 DEF Assembling, LayerInv, LayersTaken
<1>8. \A i \in 1..m : LayerIDs[i] # RootID => Under(LayerIDs[i]) \subseteq seen
  <2>1. 1..m \subseteq DOMAIN LayerIDs
    BY <1>4, <1>5
  <2> QED BY <1>1, <1>7, <2>1, TakenIsSeen
<1>9. \A p \in seen \ {RootID} : Elements(children[p]) \subseteq seen
  BY <1>1 DEF Assembling, LayerInv, ChildrenSeen
<1>10. UNCHANGED children /\ UNCHANGED <<order, parent, children>>
  BY <1>1 DEF tree
<1>11. CASE Fresh(h)
  <2>1. /\ seen' = seen \cup {h} /\ drawn' = Append(drawn, [node |-> h, layer |-> h])
        /\ layers' = Append(layers, h) /\ stack' = <<[node |-> h, at |-> 1]>>
    BY <1>2, <1>11 DEF NextLayer, Draw
  <2>2. h \notin seen /\ h # RootID
    BY <1>6, <1>11 DEF Fresh
  <2>3. stack' \in Seq(Frame) /\ DOMAIN stack' = {1} /\ stack'[1].node = h /\ stack'[1].at = 1
    BY <1>6, <2>1, OneCall
  <2>4. layers' \in Seq(Ids) /\ layers' # <<>> /\ layers'[Len(layers')] = h
    <3>1. layers' \in Seq(Ids) /\ Len(layers') = Len(layers) + 1 /\ Len(layers) \in Nat
      BY <1>6, <2>1
    <3>2. layers'[Len(layers) + 1] = h
      BY <1>6, <2>1, AppendToSeq DEF IsSeq
    <3> QED BY <3>1, <3>2
  <2>5. StackInv'
    BY <1>6, <2>1, <2>3, <2>4 DEF StackInv
  <2>6. ChildrenSeen'
    <3>1. ASSUME NEW p \in seen' \ {RootID}
          PROVE  \/ Elements(children[p])' \subseteq seen'
                 \/ \E s \in DOMAIN stack' : stack'[s].node = p /\ \A i \in DOMAIN children'[p] :
                                                i < stack'[s].at => children'[p][i] \in seen'
      <4>1. CASE p \in seen
        BY <1>9, <1>10, <2>1, <3>1, <4>1 DEF Elements
      <4>2. CASE p = h
        <5>1. \A i \in DOMAIN children[h] : ~(i < 1)
          BY <1>6, SeqElements DEF Assembling, LayerInv, TreeInv
        <5> QED BY <1>10, <2>3, <4>2, <5>1
      <4> QED BY <2>1, <4>1, <4>2
    <3> QED BY <3>1 DEF ChildrenSeen, Elements
  <2>7. Layer' = h
    BY <1>1, <2>4 DEF Layer
  <2>8. h \in Under(h)
    BY <1>6, UnderItself
  <2>9. LayersTaken'
    <3>1. \A i \in 1..(m + 1) : LayerIDs[i] \in seen'
      <4>1. \A i \in 1..(m + 1) : i = m + 1 \/ i \in 1..m
        BY <1>5
      <4> QED BY <1>5, <1>7, <2>1, <4>1
    <3>2. \A i \in 1..((m + 1) - 1) : LayerIDs[i] # RootID => Under(LayerIDs[i])' \subseteq seen'
      <4>1. (m + 1) - 1 = m
        BY <1>5
      <4> QED BY <1>3, <1>8, <2>1, <4>1
    <3>3. \A s \in DOMAIN stack' : stack'[s].node \in Under(Layer)'
      <4>1. h \in Under(h)'
        BY <1>3, <2>8
      <4> QED BY <2>3, <2>7, <4>1 DEF Under, Closed
    <3>4. m + 1 > 0
      BY <1>5
    <3> QED BY <1>3, <1>5, <2>2, <2>4, <2>7, <3>1, <3>2, <3>3, <3>4 DEF LayersTaken
  <2>10. DrawnRight'
    <3>1. Right(h, h)
      <4>1. (m + 1) - 1 = m
        BY <1>5
      <4> QED BY <1>5, <1>8, <2>2, <2>8, <4>1, UnseenIsFirst
    <3> QED BY <1>10, <2>1, <3>1, DrawRight
  <2> QED BY <1>1, <1>3, <2>5, <2>6, <2>9, <2>10 DEF LayerInv, LayersDone
<1>12. CASE ~Fresh(h)
  <2>1. h \in seen /\ UNCHANGED <<seen, drawn, layers, stack>>
    BY <1>2, <1>6, <1>12 DEF NextLayer, Fresh
  <2>2. StackInv'
    BY <1>1, <2>1 DEF Assembling, LayerInv, StackInv
  <2>3. ChildrenSeen'
    BY <1>9, <1>10, <2>1 DEF ChildrenSeen, Elements
  <2>4. LayersTaken'
    <3>1. \A i \in 1..(m + 1) : LayerIDs[i] \in seen'
      <4>1. \A i \in 1..(m + 1) : i = m + 1 \/ i \in 1..m
        BY <1>5
      <4> QED BY <1>5, <1>7, <2>1, <4>1
    <3> QED BY <1>1, <1>3, <1>5, <2>1, <3>1 DEF LayersTaken
  <2>5. DrawnRight'
    BY <1>10, <2>1, KeptRight DEF Assembling, LayerInv
  <2> QED BY <1>1, <1>3, <2>2, <2>3, <2>4, <2>5 DEF LayerInv, LayersDone
<1> QED BY <1>11, <1>12

LEMMA CollectChildLayers == ASSUME Assembling, CollectChild PROVE LayerInv'
<1>1. /\ stack # <<>> /\ Top.at <= Len(children[Top.node]) /\ pc \in {"layers", "orphans"}
      /\ UNCHANGED <<pc, tree, todo, layers>>
  BY DEF CollectChild, Assembling, SceneInv, QuietBefore
<1>2. PICK p, a, c, n : p = Top.node /\ a = Top.at /\ c = Child /\ n = Len(stack)
  OBVIOUS
<1>3. /\ n \in Nat \ {0} /\ DOMAIN stack = 1..n /\ stack[n] = Top /\ p \in Ids /\ a \in Nat \ {0}
      /\ Onwards \in Seq(Frame) /\ DOMAIN Onwards = 1..n
      /\ \A s \in 1..(n - 1) : Onwards[s] = stack[s]
      /\ Onwards[n].node = p /\ Onwards[n].at = a + 1
  <2>1. stack \in Seq(Frame)
    BY DEF Assembling, LayerInv, StackInv
  <2> QED BY <1>1, <1>2, <2>1, StackTop DEF Top, Frame
<1>4. TreeInv' /\ Known' = Known /\ LayerIDs' = LayerIDs
      /\ (\A g : Under(g)' = Under(g)) /\ (\A i : Under(LayerIDs[i])' = Under(LayerIDs[i]))
  BY <1>1, TreeSkipped, TreeSame DEF tree, Assembling, LayerInv
<1>5. UNCHANGED children /\ UNCHANGED <<order, parent, children>>
  BY <1>1 DEF tree
<1>6. a \in DOMAIN children[p] /\ c = children[p][a] /\ DOMAIN children[p] \subseteq Nat
  <2>1. children[p] \in Seq(Ids)
    BY <1>3 DEF Assembling, LayerInv, TreeInv
  <2>2. Len(children[p]) \in Nat /\ DOMAIN children[p] = 1..Len(children[p])
    BY <2>1
  <2> QED BY <1>1, <1>2, <1>3, <2>2 DEF Child
<1>7. c \in Known /\ c \in Ids /\ RootID \in seen /\ seen \subseteq Ids /\ layers \in Seq(Ids)
  BY <1>1, <1>3, <1>6, LayersAreNodes DEF Assembling, LayerInv, StackInv, TreeInv, Elements
<1>8. c \in seen' /\ seen \subseteq seen' /\ seen' \subseteq Ids
  BY <1>2, <1>7 DEF CollectChild, Fresh, Draw
\* The call at work goes on, and what it has passed is seen.
<1>9. /\ stack' \in Seq(Frame) /\ 1..n \subseteq DOMAIN stack'
      /\ \A s \in 1..n : stack'[s] = Onwards[s]
      /\ \A s \in DOMAIN stack' : s \in 1..n \/ (s = n + 1 /\ c \notin seen)
      /\ c \notin seen => n + 1 \in DOMAIN stack' /\ stack'[n + 1].node = c /\ stack'[n + 1].at = 1
  <2>1. CASE Fresh(c)
    <3> DEFINE frame == [node |-> c, at |-> 1]
    <3>1. stack' = Append(Onwards, frame)
      BY <1>2, <2>1 DEF CollectChild
    <3>2. frame \in Frame /\ frame.node = c /\ frame.at = 1
      BY <1>7 DEF Frame
    <3> HIDE DEF frame
    <3>3. Len(Onwards) = n
      BY <1>3
    <3>4. stack' \in Seq(Frame)
      BY <1>3, <3>1, <3>2
    <3>5. DOMAIN stack' = 1..(n + 1) /\ stack'[n + 1] = frame /\ \A s \in 1..n : stack'[s] = Onwards[s]
      BY <1>3, <3>1, <3>3, AppendToSeq DEF IsSeq
    <3> QED BY <1>3, <2>1, <3>2, <3>4, <3>5 DEF Fresh
  <2>2. CASE ~Fresh(c)
    <3>1. stack' = Onwards /\ c \in seen
      BY <1>2, <1>7, <2>2 DEF CollectChild, Fresh
    <3> QED BY <1>3, <3>1
  <2> QED BY <2>1, <2>2
<1>10. \A s \in 1..n : stack'[s].node = stack[s].node
  <2>1. \A s \in 1..n : s = n \/ s \in 1..(n - 1)
    BY <1>3
  <2> QED BY <1>2, <1>3, <1>9, <2>1
<1>11. StackInv'
  BY <1>1, <1>7, <1>8, <1>9 DEF StackInv
<1>12. ChildrenSeen'
  <2>1. ASSUME NEW q \in seen' \ {RootID}
        PROVE  \/ Elements(children[q])' \subseteq seen'
               \/ \E s \in DOMAIN stack' : stack'[s].node = q /\ \A i \in DOMAIN children'[q] :
                                              i < stack'[s].at => children'[q][i] \in seen'
    <3>1. CASE q \in seen /\ Elements(children[q]) \subseteq seen
      BY <1>5, <1>8, <3>1 DEF Elements
    <3>2. CASE q \in seen /\ ~(Elements(children[q]) \subseteq seen)
      <4>1. PICK s \in DOMAIN stack :
               stack[s].node = q /\ \A i \in DOMAIN children[q] : i < stack[s].at => children[q][i] \in seen
        BY <1>1, <2>1, <3>2 DEF Assembling, LayerInv, ChildrenSeen
      <4>2. CASE s = n
        <5>1. q = p /\ stack[s].at = a
          BY <1>2, <1>3, <4>1, <4>2
        <5>2. ASSUME NEW i \in DOMAIN children[q], i < a + 1 PROVE children[q][i] \in seen'
          <6>1. i < a \/ i = a
            BY <1>3, <1>6, <5>1, <5>2
          <6> QED BY <1>6, <1>8, <4>1, <5>1, <6>1
        <5> QED BY <1>3, <1>5, <1>9, <4>2, <5>1, <5>2
      <4>3. CASE s # n
        <5>1. s \in 1..(n - 1) /\ s \in 1..n
          BY <1>3, <4>3
        <5>2. stack'[s] = stack[s] /\ s \in DOMAIN stack'
          BY <1>3, <1>9, <5>1
        <5> QED BY <1>5, <1>8, <4>1, <5>2
      <4> QED BY <4>2, <4>3
    <3>3. CASE q \notin seen
      <4>1. q = c
        BY <1>2, <2>1, <3>3 DEF CollectChild, Draw
      <4>2. \A i \in DOMAIN children[c] : ~(i < 1)
        BY <1>7, SeqElements DEF Assembling, LayerInv, TreeInv
      <4> QED BY <1>5, <1>9, <3>3, <4>1, <4>2
    <3> QED BY <3>1, <3>2, <3>3
  <2> QED BY <2>1 DEF ChildrenSeen, Elements
<1>13. CASE pc = "layers"
  <2>1. PICK m, layer : m = TakenUp /\ layer = Layer
    OBVIOUS
  <2>2. /\ todo \in Seq(Ids) /\ Len(todo) <= Len(LayerIDs)
        /\ \A k \in DOMAIN todo : todo[k] = LayerIDs[m + k]
        /\ \A i \in 1..m : LayerIDs[i] \in seen
        /\ m > 0 /\ layers # <<>> /\ layer = LayerIDs[m] /\ layer # RootID
        /\ \A s \in DOMAIN stack : stack[s].node \in Under(layer)
        /\ \A i \in 1..(m - 1) : LayerIDs[i] # RootID => Under(LayerIDs[i]) \subseteq seen
    BY <1>1, <1>13, <2>1 DEF Assembling, LayerInv, LayersTaken
  <2>3. m \in DOMAIN LayerIDs
    <3>1. LayerIDs \in Seq(Ids)
      BY LayersAreNodes DEF Assembling, LayerInv
    <3>2. Len(LayerIDs) \in Nat /\ DOMAIN LayerIDs = 1..Len(LayerIDs) /\ Len(todo) \in Nat
      BY <2>2, <3>1
    <3> QED BY <2>1, <2>2, <3>2 DEF TakenUp
  <2>4. p \in Under(layer)
    BY <1>2, <1>3, <2>2
  <2>5. c \notin seen => c \in Under(layer)
    BY <1>6, <1>7, <2>4, ChildIsUnder DEF Assembling, LayerInv
  <2>6. TakenUp' = m /\ Layer' = layer
    BY <1>1, <1>4, <2>1 DEF TakenUp, Layer
  <2>7. \A s \in DOMAIN stack' : stack'[s].node \in Under(layer)
    BY <1>3, <1>9, <1>10, <2>2, <2>5
  <2>8. LayersTaken'
    <3>1. \A s \in DOMAIN stack' : stack'[s].node \in Under(Layer)'
      <4>1. Under(layer)' = Under(layer)
        BY <1>4
      <4> QED BY <2>6, <2>7, <4>1 DEF Under, Closed
    <3>2. \A i \in 1..(m - 1) : LayerIDs[i] # RootID => Under(LayerIDs[i])' \subseteq seen'
      BY <1>4, <1>8, <2>2
    <3> QED BY <1>1, <1>4, <1>8, <2>2, <2>6, <3>1, <3>2 DEF LayersTaken
  <2>9. DrawnRight'
    <3>1. CASE Fresh(c)
      <4>1. drawn' = Append(drawn, [node |-> c, layer |-> layer])
        BY <1>2, <2>1, <3>1 DEF CollectChild, Draw
      <4>2. Right(c, layer)
        <5>1. c \notin seen
          BY <3>1 DEF Fresh
        <5> QED BY <2>2, <2>3, <2>5, <5>1, UnseenIsFirst
      <4> QED BY <1>5, <4>1, <4>2, DrawRight
    <3>2. CASE ~Fresh(c)
      <4>1. UNCHANGED drawn
        BY <1>2, <3>2 DEF CollectChild
      <4> QED BY <1>5, <4>1, KeptRight DEF Assembling, LayerInv
    <3> QED BY <3>1, <3>2
  <2> QED BY <1>1, <1>4, <1>11, <1>12, <1>13, <2>8, <2>9 DEF LayerInv, LayersDone
<1>14. CASE pc = "orphans"
  <2>1. LayersDone'
    <3>1. \A i \in DOMAIN LayerIDs : LayerIDs[i] # RootID => Under(LayerIDs[i]) \subseteq seen
      BY <1>14 DEF Assembling, LayerInv, LayersDone
    <3> QED BY <1>4, <1>8, <3>1 DEF LayersDone
  <2>2. DrawnRight'
    <3>1. CASE Fresh(c)
      <4>1. drawn' = Append(drawn, [node |-> c, layer |-> RootID])
        BY <1>2, <1>14, <3>1 DEF CollectChild, Draw, Layer
      <4>2. Right(c, RootID)
        BY <1>14, <3>1, UnseenIsOrphan DEF Fresh
      <4> QED BY <1>5, <4>1, <4>2, DrawRight
    <3>2. CASE ~Fresh(c)
      <4>1. UNCHANGED drawn
        BY <1>2, <3>2 DEF CollectChild
      <4> QED BY <1>5, <4>1, KeptRight DEF Assembling, LayerInv
    <3> QED BY <3>1, <3>2
  <2> QED BY <1>1, <1>4, <1>11, <1>12, <1>14, <2>1, <2>2 DEF LayerInv, LayersTaken
<1> QED BY <1>1, <1>13, <1>14

LEMMA CollectReturnLayers == ASSUME Assembling, CollectReturn PROVE LayerInv'
<1>1. /\ stack # <<>> /\ Top.at > Len(children[Top.node]) /\ stack' = Below /\ pc \in {"layers", "orphans"}
      /\ UNCHANGED <<pc, tree, todo, seen, layers, drawn>>
  BY DEF CollectReturn, Assembling, SceneInv, QuietBefore
<1>2. PICK p, a, n : p = Top.node /\ a = Top.at /\ n = Len(stack)
  OBVIOUS
<1>3. /\ n \in Nat \ {0} /\ DOMAIN stack = 1..n /\ stack[n] = Top /\ p \in Ids /\ a \in Nat \ {0}
      /\ stack' \in Seq(Frame) /\ DOMAIN stack' = 1..(n - 1)
      /\ \A s \in 1..(n - 1) : stack'[s] = stack[s]
  <2>1. stack \in Seq(Frame)
    BY DEF Assembling, LayerInv, StackInv
  <2> QED BY <1>1, <1>2, <2>1, StackTop DEF Top, Frame
<1>4. TreeInv' /\ Known' = Known /\ LayerIDs' = LayerIDs
      /\ (\A g : Under(g)' = Under(g)) /\ (\A i : Under(LayerIDs[i])' = Under(LayerIDs[i]))
  BY <1>1, TreeSkipped, TreeSame DEF tree, Assembling, LayerInv
<1>5. UNCHANGED children /\ UNCHANGED <<order, parent, children>>
  BY <1>1 DEF tree
<1>6. DOMAIN children[p] \subseteq 1..(a - 1)
  <2>1. children[p] \in Seq(Ids)
    BY <1>3 DEF Assembling, LayerInv, TreeInv
  <2> QED BY <1>1, <1>2, <1>3, <2>1
<1>7. StackInv'
  BY <1>1, <1>3 DEF Assembling, LayerInv, StackInv
<1>8. ChildrenSeen'
  <2>1. ASSUME NEW q \in seen \ {RootID}, ~(Elements(children[q]) \subseteq seen)
        PROVE  \E s \in DOMAIN stack' : stack'[s].node = q /\ \A i \in DOMAIN children[q] :
                                           i < stack'[s].at => children[q][i] \in seen
    <3>1. PICK s \in DOMAIN stack :
             stack[s].node = q /\ \A i \in DOMAIN children[q] : i < stack[s].at => children[q][i] \in seen
      BY <1>1, <2>1 DEF Assembling, LayerInv, ChildrenSeen
    <3>2. s # n
      <4>1. SUFFICES ASSUME s = n PROVE Elements(children[q]) \subseteq seen
        BY <2>1
      <4>2. q = p /\ stack[s].at = a
        BY <1>2, <1>3, <3>1, <4>1
      <4>3. \A i \in DOMAIN children[q] : i < a
        BY <1>3, <1>6, <4>2
      <4> QED BY <3>1, <4>2, <4>3 DEF Elements
    <3>3. s \in 1..(n - 1)
      BY <1>3, <3>2
    <3> QED BY <1>3, <3>1, <3>3
  <2> QED BY <1>1, <1>5, <2>1 DEF ChildrenSeen, Elements
<1>9. CASE pc = "layers"
  <2>1. TakenUp' = TakenUp /\ Layer' = Layer
    BY <1>1, <1>4 DEF TakenUp, Layer
  <2>2. \A s \in DOMAIN stack' : stack'[s] = stack[s] /\ s \in DOMAIN stack
    BY <1>3
  <2>3. Under(Layer)' = Under(Layer)
    <3>1. PICK layer : layer = Layer
      OBVIOUS
    <3>2. Under(layer)' = Under(layer)
      BY <1>4
    <3> QED BY <2>1, <3>1, <3>2 DEF Under, Closed
  <2>4. LayersTaken'
    BY <1>1, <1>4, <1>9, <2>1, <2>2, <2>3 DEF Assembling, LayerInv, LayersTaken
  <2> QED BY <1>1, <1>4, <1>5, <1>7, <1>8, <1>9, <2>4, KeptRight DEF Assembling, LayerInv, LayersDone
<1>10. CASE pc = "orphans"
  <2>1. LayersDone'
    BY <1>1, <1>4, <1>10 DEF Assembling, LayerInv, LayersDone
  <2> QED BY <1>1, <1>4, <1>5, <1>7, <1>8, <1>10, <2>1, KeptRight DEF Assembling, LayerInv, LayersTaken
<1> QED BY <1>1, <1>9, <1>10

LEMMA StartOrphansLayers == ASSUME Assembling, StartOrphans PROVE LayerInv'
<1>1. /\ pc = "layers" /\ pc' = "orphans" /\ stack = <<>> /\ todo = <<>>
      /\ drawn' = Append(drawn, [node |-> RootID, layer |-> RootID])
      /\ UNCHANGED <<tree, stack, seen, layers>>
  BY DEF StartOrphans
<1>2. TreeInv' /\ Known' = Known /\ LayerIDs' = LayerIDs
      /\ (\A i : Under(LayerIDs[i])' = Under(LayerIDs[i]))
  BY <1>1, TreeSkipped, TreeSame DEF tree, Assembling, LayerInv
<1>3. UNCHANGED <<order, parent, children>> /\ UNCHANGED children
  BY <1>1 DEF tree
<1>4. LayerIDs \in Seq(Ids)
  BY LayersAreNodes DEF Assembling, LayerInv
<1>5. \A i \in DOMAIN LayerIDs : LayerIDs[i] \in seen
  <2>1. Len(LayerIDs) \in Nat /\ DOMAIN LayerIDs = 1..Len(LayerIDs) /\ TakenUp = Len(LayerIDs)
    BY <1>1, <1>4 DEF TakenUp
  <2> QED BY <1>1, <2>1 DEF Assembling, LayerInv, LayersTaken
<1>6. LayersDone'
  <2>1. \A i \in DOMAIN LayerIDs : LayerIDs[i] # RootID => Under(LayerIDs[i]) \subseteq seen
    BY <1>1, <1>5, TakenIsSeen
  <2> QED BY <1>1, <1>2, <2>1 DEF LayersDone
<1>7. Right(RootID, RootID)
  <2>1. \A i \in DOMAIN LayerIDs : LayerIDs[i] # RootID => RootID \notin Under(LayerIDs[i])
    BY <1>4, RootUnderNone, SeqElements DEF Assembling, LayerInv
  <2> QED BY <2>1 DEF Right, Owners
<1>8. DrawnRight'
  BY <1>1, <1>3, <1>7, DrawRight
<1>9. StackInv'
  BY <1>1 DEF Assembling, LayerInv, StackInv
<1>10. ChildrenSeen'
  BY <1>1, <1>3 DEF Assembling, LayerInv, ChildrenSeen, Elements
<1> QED BY <1>1, <1>2, <1>6, <1>8, <1>9, <1>10 DEF LayerInv, LayersTaken

LEMMA NextOrphanLayers == ASSUME Assembling, NextOrphan PROVE LayerInv'
<1>1. pc = "orphans" /\ stack = <<>> /\ todo # <<>> /\ UNCHANGED <<pc, tree, layers>>
  BY DEF NextOrphan
<1>2. PICK h : h = Head(todo)
  OBVIOUS
<1>3. TreeInv' /\ Known' = Known /\ LayerIDs' = LayerIDs
      /\ (\A i : Under(LayerIDs[i])' = Under(LayerIDs[i]))
  BY <1>1, TreeSkipped, TreeSame DEF tree, Assembling, LayerInv
<1>4. UNCHANGED <<order, parent, children>> /\ UNCHANGED children
  BY <1>1 DEF tree
<1>5. \A p \in seen \ {RootID} : Elements(children[p]) \subseteq seen
  BY <1>1 DEF Assembling, LayerInv, ChildrenSeen
<1>6. seen \subseteq Ids /\ Known \subseteq Ids /\ RootID \in seen /\ layers \in Seq(Ids)
  BY <1>1, LayersAreNodes DEF Assembling, LayerInv, StackInv
<1>7. \A i \in DOMAIN LayerIDs : LayerIDs[i] # RootID => Under(LayerIDs[i]) \subseteq seen
  BY <1>1 DEF Assembling, LayerInv, LayersDone
<1>8. CASE Fresh(h)
  <2>1. /\ seen' = seen \cup {h} /\ drawn' = Append(drawn, [node |-> h, layer |-> RootID])
        /\ stack' = <<[node |-> h, at |-> 1]>>
    BY <1>2, <1>8 DEF NextOrphan, Draw
  <2>2. h \in Ids /\ h \notin seen
    BY <1>6, <1>8 DEF Fresh
  <2>3. stack' \in Seq(Frame) /\ DOMAIN stack' = {1} /\ stack'[1].node = h /\ stack'[1].at = 1
    BY <2>1, <2>2, OneCall
  <2>4. ChildrenSeen'
    <3>1. ASSUME NEW p \in seen' \ {RootID}
          PROVE  \/ Elements(children[p])' \subseteq seen'
                 \/ \E s \in DOMAIN stack' : stack'[s].node = p /\ \A i \in DOMAIN children'[p] :
                                                i < stack'[s].at => children'[p][i] \in seen'
      <4>1. CASE p \in seen
        BY <1>4, <1>5, <2>1, <3>1, <4>1 DEF Elements
      <4>2. CASE p = h
        <5>1. \A i \in DOMAIN children[h] : ~(i < 1)
          BY <2>2, SeqElements DEF Assembling, LayerInv, TreeInv
        <5> QED BY <1>4, <2>3, <4>2, <5>1
      <4> QED BY <2>1, <4>1, <4>2
    <3> QED BY <3>1 DEF ChildrenSeen, Elements
  <2>5. DrawnRight'
    BY <1>1, <1>4, <2>1, <2>2, UnseenIsOrphan, DrawRight
  <2>6. StackInv' /\ LayersDone'
    BY <1>1, <1>3, <1>6, <1>7, <2>1, <2>2, <2>3 DEF StackInv, LayersDone
  <2> QED BY <1>1, <1>3, <2>4, <2>5, <2>6 DEF LayerInv, LayersTaken
<1>9. CASE ~Fresh(h)
  <2>1. UNCHANGED <<seen, drawn, stack>>
    BY <1>2, <1>9 DEF NextOrphan
  <2>2. ChildrenSeen'
    BY <1>4, <1>5, <2>1 DEF ChildrenSeen, Elements
  <2>3. StackInv' /\ LayersDone'
    BY <1>1, <1>3, <1>6, <1>7, <2>1 DEF Assembling, LayerInv, StackInv, LayersDone
  <2>4. DrawnRight'
    BY <1>4, <2>1, KeptRight DEF Assembling, LayerInv
  <2> QED BY <1>1, <1>3, <2>2, <2>3, <2>4 DEF LayerInv, LayersTaken
<1> QED BY <1>8, <1>9

LEMMA FinishAssembleLayers == ASSUME Assembling, FinishAssemble PROVE LayerInv'
<1>1. pc' = "done" /\ UNCHANGED <<tree, stack, seen, drawn>>
  BY DEF FinishAssemble
<1>2. TreeInv'
  BY <1>1, TreeSkipped DEF Assembling, LayerInv
<1>3. layers' \in Seq(Ids)
  <2>1. layers \in Seq(Ids) /\ <<RootID>> \in Seq(Ids)
    BY SceneAssumption DEF Assembling, LayerInv, StackInv
  <2>2. layers' = layers \/ layers' = <<RootID>> \o layers
    BY DEF FinishAssemble
  <2>3. <<RootID>> \o layers \in Seq(Ids)
    BY <2>1
  <2> QED BY <2>1, <2>2, <2>3
<1>4. DrawnRight'
  BY <1>1, KeptRight DEF tree, Assembling, LayerInv
<1> QED BY <1>1, <1>2, <1>3, <1>4
        DEF Assembling, LayerInv, StackInv, ChildrenSeen, LayersTaken, LayersDone

LEMMA LayerInitInv == ASSUME SceneInit, TreeInv PROVE LayerInv
<1>1. stack \in Seq(Frame) /\ layers \in Seq(Ids) /\ seen \subseteq Ids /\ DOMAIN drawn = {}
  BY DEF SceneInit
<1> QED BY <1>1 DEF SceneInit, LayerInv, StackInv, ChildrenSeen, LayersTaken, LayersDone, DrawnRight

LEMMA LayerStepInv == ASSUME Assembling, SceneInv', TreeInv', [SceneNext]_sceneVars PROVE LayerInv'
<1>1. CASE ParseBlock \/ ParseFails
  <2>1. pc' \in {"blocks", "failed"} /\ UNCHANGED <<stack, layers, seen>>
    BY <1>1 DEF ParseBlock, ParseFails, assembly
  <2>2. DOMAIN drawn' = {}
    BY <2>1 DEF SceneInv, QuietBefore
  <2> QED BY <2>1, <2>2 DEF Assembling, LayerInv, StackInv, ChildrenSeen, LayersTaken, LayersDone, DrawnRight
<1>2. CASE Assemble
  BY <1>2, StartAssembleLayers, NextLayerLayers, CollectChildLayers, CollectReturnLayers,
     StartOrphansLayers, NextOrphanLayers, FinishAssembleLayers DEF Assemble
<1>3. CASE UNCHANGED sceneVars
  <2>1. UNCHANGED <<pc, tree, todo, stack, seen, layers, drawn>>
    BY <1>3 DEF sceneVars, assembly
  <2>2. LayerIDs' = LayerIDs /\ \A i : Under(LayerIDs[i])' = Under(LayerIDs[i])
    BY <2>1, TreeSame DEF tree
  <2>3. TakenUp' = TakenUp /\ Layer' = Layer
    BY <2>1, <2>2 DEF TakenUp, Layer
  <2>4. Under(Layer)' = Under(Layer)
    <3>1. PICK layer : layer = Layer
      OBVIOUS
    <3>2. Under(layer)' = Under(layer)
      BY <2>1, TreeSame DEF tree
    <3> QED BY <2>3, <3>1, <3>2 DEF Under, Closed
  <2>5. DrawnRight'
    BY <2>1, KeptRight DEF tree, Assembling, LayerInv
  <2>6. UNCHANGED children /\ ChildrenSeen'
    BY <2>1 DEF tree, Assembling, LayerInv, ChildrenSeen, Elements
  <2> QED BY <2>1, <2>2, <2>3, <2>4, <2>5, <2>6
          DEF Assembling, LayerInv, StackInv, LayersTaken, LayersDone
<1> QED BY <1>1, <1>2, <1>3 DEF SceneNext, Finished

\* Every node is drawn in the first of the page's layers that it is under, at
\* whatever depth, and with the orphans if it is under none, for trees of every
\* shape: assemble finishes one layer, with all that is under it, before it takes
\* up the next, so what it has not seen is under no earlier one (parse.go:441-467).
THEOREM NodesAreDrawnInTheirLayer == SceneSpec => []DrawnInItsLayer
<1>1. SceneInit /\ TreeInv => Assembling
  BY SceneInitInv, LayerInitInv DEF Assembling
<1>2. Assembling /\ TreeInv' /\ [SceneNext]_sceneVars => Assembling'
  BY SceneStepInv, LayerStepInv DEF Assembling
<1>3. ASSUME Assembling, NEW node, NEW layer, Right(node, layer)
      PROVE  IF Owners(node) = {} THEN layer = RootID
             ELSE \E i \in Owners(node) : layer = LayerIDs[i] /\ \A j \in Owners(node) : i <= j
  <2>1. LayerIDs \in Seq(Ids)
    BY <1>3, LayersAreNodes DEF Assembling, LayerInv
  <2>2. CASE layer = RootID /\ Owners(node) = {}
    BY <2>2
  <2>3. ASSUME NEW i \in DOMAIN LayerIDs, layer = LayerIDs[i], FirstLayerOf(node, i)
        PROVE  i \in Owners(node) /\ \A j \in Owners(node) : i <= j
    <3>1. i \in Owners(node)
      BY <2>3 DEF FirstLayerOf, Owners
    <3>2. ASSUME NEW j \in Owners(node) PROVE ~(j < i)
      <4>1. j \in 1..Len(LayerIDs) /\ LayerIDs[j] # RootID /\ node \in Under(LayerIDs[j])
        BY <2>1, <3>2 DEF Owners
      <4>2. j \notin 1..(i - 1)
        BY <2>3, <4>1 DEF FirstLayerOf
      <4> QED BY <2>1, <2>3, <4>1, <4>2
    <3>3. \A j \in Owners(node) : j \in Nat /\ i \in Nat
      BY <2>1 DEF Owners
    <3> QED BY <3>1, <3>2, <3>3
  <2> QED BY <1>3, <2>2, <2>3 DEF Right
<1>4. Assembling => DrawnInItsLayer
  <2> SUFFICES ASSUME Assembling, NEW k \in DOMAIN drawn
               PROVE  LET owners == Owners(drawn[k].node)
                      IN  IF owners = {} THEN drawn[k].layer = RootID
                          ELSE \E i \in owners : drawn[k].layer = LayerIDs[i] /\ \A j \in owners : i <= j
    BY DEF DrawnInItsLayer
  <2>1. Right(drawn[k].node, drawn[k].layer)
    BY DEF Assembling, LayerInv, DrawnRight
  <2> QED BY <1>3, <2>1
<1> QED BY <1>1, <1>2, <1>4, TreeInvHolds, PTL DEF SceneSpec

=============================================================================
