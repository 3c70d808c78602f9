------------------------------- MODULE Scene --------------------------------
(***************************************************************************)
(* rm/parse.go: the blocks of a page become a tree of nodes, and the tree  *)
(* becomes layers.                                                         *)
(*                                                                         *)
(* parser.nodes is kept field by field: a node exists when `order` lists   *)
(* it, and fields of the others have the values getNode starts with.       *)
(* assemble is a walk: `stack` is the recursion of collect, and `drawn`    *)
(* lists the nodes whose lines were appended, with the layer they went to. *)
(* Labels, tools, colours and coordinates are left out; a line is the      *)
(* number of points that were read.                                        *)
(***************************************************************************)
EXTENDS RmFields, Integers, FiniteSets

CONSTANTS
    Ids,          \* CrdtIDs of nodes
    RootID,       \* the scene's root group
    NoId,         \* the zero CrdtID
    PointCounts,  \* how many points a written line may have
    Spans,        \* strings of typed text
    MaxBlocks     \* bound on the blocks of a page

ASSUME SceneAssumption ==
    /\ RootID \in Ids /\ NoId \notin Ids
    /\ PointCounts \subseteq Nat /\ MaxBlocks \in Nat

VARIABLES
    pc,        \* "blocks", "layers", "orphans", "done" or "failed"
    blocks,    \* bound: blocks read
    order,     \* parser.order: node ids in file order
    visible,   \* node.visible
    parent,    \* node.parent
    children,  \* node.children
    lines,     \* node.lines
    text,      \* parser.text: the spans of its body
    skipped,   \* parser.skipped
    todo,      \* ids assemble has still to look at
    stack,     \* collect's calls: the node and the child it is at
    seen,      \* assemble's seen
    layers,    \* the ids of the layers begun so far
    drawn      \* the nodes whose lines are drawn, and in which layer

tree == <<order, visible, parent, children, lines, text>>
assembly == <<todo, stack, seen, layers, drawn>>
sceneVars == <<pc, blocks, tree, skipped, assembly>>

Known == {order[i] : i \in DOMAIN order}

SceneTypeOK ==
    /\ pc \in {"blocks", "layers", "orphans", "done", "failed"}
    /\ blocks \in Nat /\ skipped \in Nat
    /\ order \in Seq(Ids)
    /\ visible \in [Ids -> BOOLEAN]
    /\ parent \in [Ids -> Ids \cup {NoId}]
    /\ children \in [Ids -> Seq(Ids)]
    /\ lines \in [Ids -> Seq(Nat)]
    /\ text \in Seq(Spans)
    /\ todo \in Seq(Ids)
    /\ stack \in Seq([node : Ids, at : Nat])
    /\ seen \in SUBSET Ids
    /\ layers \in Seq(Ids)
    /\ drawn \in Seq([node : Ids, layer : Ids])

SceneInit ==
    /\ pc = "blocks" /\ blocks = 0 /\ skipped = 0
    /\ order = <<RootID>>
    /\ visible = [id \in Ids |-> TRUE]
    /\ parent = [id \in Ids |-> NoId]
    /\ children = [id \in Ids |-> <<>>]
    /\ lines = [id \in Ids |-> <<>>]
    /\ text = <<>>
    /\ todo = <<>> /\ stack = <<>> /\ seen = {} /\ layers = <<>> /\ drawn = <<>>

-----------------------------------------------------------------------------
(* Parse.  A block either takes effect or is skipped.                      *)

\* getNode: the order once the node exists.
Listed(ord, id) == IF \E i \in DOMAIN ord : ord[i] = id THEN ord ELSE Append(ord, id)

Skip == skipped' = skipped + 1

ParseSceneTree(fs) ==
    IF IdsFrom1(fs, 2) /\ Read(fs, 3, 3, "Byte1") /\ Read(fs, 4, 4, "Length4")
       /\ Read(fs[4].val, 1, 1, "ID")
    THEN /\ order' = Listed(order, fs[1].val)
         /\ parent' = [parent EXCEPT ![fs[1].val] = fs[4].val[1].val]
         /\ UNCHANGED <<visible, children, lines, text, skipped>>
    ELSE Skip /\ UNCHANGED tree

\* The node exists from its id on, whatever follows.  Its visibility counts
\* if it can be read, and is no reason to skip the block.
ParseTreeNode(fs) ==
    IF IdsFrom1(fs, 1)
    THEN /\ order' = Listed(order, fs[1].val)
         /\ UNCHANGED <<parent, children, lines, text>>
         /\ IF ReadLww(fs, 2, 2, "Length4")
            THEN /\ visible' = IF ReadLww(fs, 3, 3, "Byte1")
                               THEN [visible EXCEPT ![fs[1].val] = fs[3].val[2].val]
                               ELSE visible
                 /\ UNCHANGED skipped
            ELSE Skip /\ UNCHANGED visible
    ELSE Skip /\ UNCHANGED tree

\* Mutated form: the version does not matter.
PointSizeByLength(version, n) == IF n % 14 = 0 THEN 14 ELSE IF n % 24 = 0 THEN 24 ELSE 0

\* parseLine: the point encoding, from the length; 0 if none fits.
PointSize(version, n) ==
    IF version >= 2 /\ n % 14 = 0 THEN 14
    ELSE IF n % 24 = 0 THEN 24 ELSE IF n % 14 = 0 THEN 14 ELSE 0

ReadsLine(fs, version) ==
    /\ Read(fs, 1, 1, "Byte4") /\ Read(fs, 2, 2, "Byte4") /\ Read(fs, 3, 3, "Byte8")
    /\ Read(fs, 4, 4, "Byte4") /\ Read(fs, 5, 5, "Length4")
    /\ PointSize(version, fs[5].val) # 0
PointsIn(fs, version) == fs[5].val \div PointSize(version, fs[5].val)

AddGroup(in, fs) ==
    IF Read(fs, 1, 2, "ID")
    THEN /\ order' = Listed(Listed(order, in), fs[1].val)
         /\ children' = [children EXCEPT ![in] = Append(@, fs[1].val)]
         /\ UNCHANGED <<visible, parent, lines, text, skipped>>
    ELSE Skip /\ UNCHANGED tree

AddLine(in, fs, version) ==
    IF ReadsLine(fs, version)
    THEN /\ order' = Listed(order, in)
         /\ lines' = [lines EXCEPT ![in] = Append(@, PointsIn(fs, version))]
         /\ UNCHANGED <<visible, parent, children, text, skipped>>
    ELSE Skip /\ UNCHANGED tree

\* A group or a line.  An item without a value is a tombstone, one whose value is
\* empty is skipped; one that is deleted or of another type than its block counts
\* for nothing.
ParseSceneItem(fs, version, wanted) ==
    IF /\ IdsFrom1(fs, 4) /\ Read(fs, 5, 5, "Byte4") /\ ReadIfAny(fs, 6, 6, "Length4")
       /\ HasTag(fs, 6, 6, "Length4") => fs[6].val # EmptyValue
    THEN IF /\ HasTag(fs, 6, 6, "Length4")
            /\ fs[6].val.type = wanted /\ fs[5].val = 0
         THEN IF wanted = "group" THEN AddGroup(fs[1].val, fs[6].val.fields)
                                  ELSE AddLine(fs[1].val, fs[6].val.fields, version)
         ELSE UNCHANGED <<tree, skipped>>
    ELSE Skip /\ UNCHANGED tree

\* parseRootText: one text item, and the spans that count.
ReadsItem(fs) ==
    /\ \A k \in 1..3 : Read(fs, k, k + 1, "ID")
    /\ Read(fs, 4, 5, "Byte4")
    /\ fs[4].val = 0 => ReadIfAny(fs, 5, 6, "Length4")
HasSpan(fs) ==
    /\ fs[4].val = 0 /\ HasTag(fs, 5, 6, "Length4")
    /\ HasTag(fs[5].val, 1, 2, "Length4")
ReadsSpan(fs) == ReadsItem(fs) /\ (HasSpan(fs) => fs[5].val[1].whole)

\* The formatting map, the position and the width may be absent, each.
ReadsLayout(outer) ==
    LET pos == IF HasTag(outer, 2, 2, "Length4") THEN 3 ELSE 2
        width == IF HasTag(outer, pos, 3, "Length4") THEN pos + 1 ELSE pos
    IN  /\ ReadIfAny(outer, 2, 2, "Length4")
        /\ ReadIfAny(outer, pos, 3, "Length4")
        /\ ReadIfAny(outer, width, 4, "Byte4")

ReadsBody(items) ==
    /\ Read(items, 1, 1, "Length4")
    /\ items[1].val.count <= Len(items[1].val.items)
    /\ \A i \in 1..items[1].val.count : ReadsSpan(items[1].val.items[i])

BodyOf(items) ==
    LET spans == SelectSeq(SubSeq(items[1].val.items, 1, items[1].val.count), HasSpan)
    IN  [i \in DOMAIN spans |-> spans[i][5].val[1].val]

\* Mutated form: the text is set before the layout is read.
ParseRootTextAsItGoes(fs) ==
    IF /\ IdsFrom1(fs, 1) /\ Read(fs, 2, 2, "Length4")
       /\ Read(fs[2].val, 1, 1, "Length4") /\ ReadsBody(fs[2].val[1].val)
    THEN /\ text' = BodyOf(fs[2].val[1].val)
         /\ IF ReadsLayout(fs[2].val) THEN UNCHANGED skipped ELSE Skip
         /\ UNCHANGED <<order, visible, parent, children, lines>>
    ELSE Skip /\ UNCHANGED tree

ParseRootText(fs) ==
    IF /\ IdsFrom1(fs, 1) /\ Read(fs, 2, 2, "Length4")
       /\ Read(fs[2].val, 1, 1, "Length4")
       /\ ReadsBody(fs[2].val[1].val) /\ ReadsLayout(fs[2].val)
    THEN /\ text' = IF BodyOf(fs[2].val[1].val) # <<>> THEN BodyOf(fs[2].val[1].val) ELSE text
         /\ UNCHANGED <<order, visible, parent, children, lines, skipped>>
    ELSE Skip /\ UNCHANGED tree

\* Any other block, known or not.
ParseOther == UNCHANGED <<tree, skipped>>

-----------------------------------------------------------------------------
(* The loop of Parse over blocks as the writer makes them, whole or damaged.*)

DamagedItem(fs) ==
    Damaged(fs) \cup {[fs EXCEPT ![5].val = 1], [fs EXCEPT ![6].val = EmptyValue]}
    \cup {[fs EXCEPT ![6].val.fields = v] : v \in Cuts(fs[6].val.fields)}

Texts == {<<Span(s)>> : s \in Spans} \cup {<<Span(s), TextItem(1, Sub(2, s)), Span(s)>> : s \in Spans}
DamagedText(items) ==
    {RootText(items)} \cup Cuts(RootText(items))
    \cup {[RootText(items) EXCEPT ![2].val = v] : v \in Cuts(RootText(items)[2].val)}
    \cup {RootText([items EXCEPT ![Len(items)] = v]) : v \in Cuts(items[Len(items)])}

Groups == \E in \in Ids, id \in Ids :
    \/ \E fs \in DamagedIn(SceneTree(id, in), 4) : ParseSceneTree(fs)
    \/ \E fs \in DamagedItem(GroupItem(in, id)), wanted \in {"group", "line"} :
           ParseSceneItem(fs, 1, wanted)

TreeNodes == \E id \in Ids, v \in BOOLEAN :
    \E fs \in DamagedIn(TreeNode(id, v), 2) \cup DamagedIn(TreeNode(id, v), 3) : ParseTreeNode(fs)

\* Versions later than 2 write points as 2 does.
LineItems == \E in \in Ids, n \in PointCounts :
    \/ \E fs \in DamagedItem(LineItemV1(in, n)) : ParseSceneItem(fs, 1, "line")
    \/ \E fs \in DamagedItem(LineItemV2(in, n)), version \in {2, 3} :
           ParseSceneItem(fs, version, "line")
    \/ ParseSceneItem(LineItem(in, 24 * n + 1), 1, "line")

RootTexts == \E items \in Texts : \E fs \in DamagedText(items) : ParseRootText(fs)

ParseBlock ==
    /\ pc = "blocks" /\ blocks < MaxBlocks
    /\ blocks' = blocks + 1
    /\ Groups \/ TreeNodes \/ LineItems \/ RootTexts \/ ParseOther
    /\ UNCHANGED <<pc, assembly>>

\* No v6 header, or a block longer than the rest of the file.
ParseFails == pc = "blocks" /\ pc' = "failed" /\ UNCHANGED <<blocks, tree, skipped, assembly>>

-----------------------------------------------------------------------------
(* assemble.                                                               *)

ChildrenClaimingRoot ==
    LET claiming[n \in 0..Len(order)] ==
            IF n = 0 THEN <<>>
            ELSE IF order[n] # RootID /\ parent[order[n]] = RootID
                 THEN Append(claiming[n - 1], order[n]) ELSE claiming[n - 1]
    IN  claiming[Len(order)]

LayerIDs == IF children[RootID] # <<>> THEN children[RootID] ELSE ChildrenClaimingRoot

StartAssemble ==
    /\ pc = "blocks"
    /\ pc' = "layers"
    /\ todo' = LayerIDs
    /\ seen' = {RootID}
    /\ UNCHANGED <<blocks, tree, skipped, stack, layers, drawn>>

\* Mutated form: nested groups fold into the first layer.
FirstLayer == IF pc = "layers" THEN layers[1] ELSE RootID

\* The layer being filled; RootID names the synthetic one of the orphans.
Layer == IF pc = "layers" THEN layers[Len(layers)] ELSE RootID

Draw(id, layer) ==
    /\ seen' = seen \cup {id}
    /\ drawn' = Append(drawn, [node |-> id, layer |-> layer])

\* Mutated form: nobody asks whether a node was seen.
FreshIfKnown(id) == id \in Known

Fresh(id) == id \in Known \ seen

\* The next of layerIDs becomes a layer, unless it is no node or was seen.
NextLayer ==
    /\ pc = "layers" /\ stack = <<>> /\ todo # <<>>
    /\ todo' = Tail(todo)
    /\ IF Fresh(Head(todo))
       THEN /\ Draw(Head(todo), Head(todo))
            /\ layers' = Append(layers, Head(todo))
            /\ stack' = <<[node |-> Head(todo), at |-> 1]>>
       ELSE UNCHANGED <<seen, drawn, layers, stack>>
    /\ UNCHANGED <<pc, blocks, tree, skipped>>

Top == stack[Len(stack)]
Below == SubSeq(stack, 1, Len(stack) - 1)
Child == children[Top.node][Top.at]
Onwards == Append(Below, [node |-> Top.node, at |-> Top.at + 1])

\* collect goes to the next child, and into it unless it was seen.
CollectChild ==
    /\ stack # <<>> /\ Top.at <= Len(children[Top.node])
    /\ IF Fresh(Child)
       THEN /\ Draw(Child, Layer)
            /\ stack' = Append(Onwards, [node |-> Child, at |-> 1])
       ELSE stack' = Onwards /\ UNCHANGED <<seen, drawn>>
    /\ UNCHANGED <<pc, blocks, tree, skipped, todo, layers>>

CollectReturn ==
    /\ stack # <<>> /\ Top.at > Len(children[Top.node])
    /\ stack' = Below
    /\ UNCHANGED <<pc, blocks, tree, skipped, todo, seen, layers, drawn>>

\* The orphans' layer starts with the lines of the root.
StartOrphans ==
    /\ pc = "layers" /\ stack = <<>> /\ todo = <<>>
    /\ pc' = "orphans"
    /\ todo' = order
    /\ drawn' = Append(drawn, [node |-> RootID, layer |-> RootID])
    /\ UNCHANGED <<blocks, tree, skipped, stack, seen, layers>>

NextOrphan ==
    /\ pc = "orphans" /\ stack = <<>> /\ todo # <<>>
    /\ todo' = Tail(todo)
    /\ IF Fresh(Head(todo))
       THEN Draw(Head(todo), RootID) /\ stack' = <<[node |-> Head(todo), at |-> 1]>>
       ELSE UNCHANGED <<seen, drawn, stack>>
    /\ UNCHANGED <<pc, blocks, tree, skipped, layers>>

FinishAssemble ==
    /\ pc = "orphans" /\ stack = <<>> /\ todo = <<>>
    /\ pc' = "done"
    /\ layers' = IF \E i \in DOMAIN drawn : drawn[i].layer = RootID /\ lines[drawn[i].node] # <<>>
                 THEN <<RootID>> \o layers ELSE layers
    /\ UNCHANGED <<blocks, tree, skipped, todo, stack, seen, drawn>>

Assemble ==
    StartAssemble \/ NextLayer \/ CollectChild \/ CollectReturn
    \/ StartOrphans \/ NextOrphan \/ FinishAssemble

Finished == pc \in {"done", "failed"} /\ UNCHANGED sceneVars

SceneNext == ParseBlock \/ ParseFails \/ Assemble \/ Finished

SceneSpec == SceneInit /\ [][SceneNext]_sceneVars

-----------------------------------------------------------------------------
(* Properties.                                                             *)

\* Whatever the groups of a page look like (orphaned, listed twice, in a
\* cycle, under the root or around it), the lines of every node are drawn
\* exactly once (parse.go:441-467).
EachNodeDrawnOnce ==
    pc = "done" => \A id \in Known :
        \E i \in DOMAIN drawn : /\ drawn[i].node = id
                                \* no second time
                                /\ \A j \in DOMAIN drawn : drawn[j].node = id => j = i

\* A line has the points it was written with, in either encoding: the length
\* of 168 bytes is 7 points of one and 12 of the other (parse.go:255-268).
LinesAsWritten == \A id \in Ids : \A i \in DOMAIN lines[id] : lines[id][i] \in PointCounts

\* A block that is skipped leaves no line, no child, no parent and no piece of
\* text (parse.go:71-79).  Only a skipped TreeNode is still in `order`
\* (parse.go:152), where a layer that no group lists may find its place.
SkippedLeavesNothing == [][skipped' > skipped => UNCHANGED <<parent, children, lines, text>>]_sceneVars

\* What is under a group: itself, its children, theirs and so on, but not the
\* root; that is, what belongs to every set that has it and is closed.
Closed(S) == \A p \in S : \A i \in DOMAIN children[p] : children[p][i] \in S \cup {RootID}
Under(group) == {id \in Ids : \A S \in SUBSET Ids : group \in S /\ Closed(S) => id \in S}

\* The first of the page's layers that a group is under.
Owners(id) == {i \in DOMAIN LayerIDs : LayerIDs[i] # RootID /\ id \in Under(LayerIDs[i])}

\* A node is drawn in the first layer it is under, at any depth, and with the
\* orphans if it is under none (parse.go:441-467).
DrawnInItsLayer ==
    pc = "done" => \A k \in DOMAIN drawn :
        LET owners == Owners(drawn[k].node)
        IN  IF owners = {} THEN drawn[k].layer = RootID
            ELSE \E i \in owners : drawn[k].layer = LayerIDs[i] /\ \A j \in owners : i <= j

=============================================================================
