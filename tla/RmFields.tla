------------------------------ MODULE RmFields ------------------------------
(***************************************************************************)
(* The tagged values of a .rm v6 block: what rm/writer.go writes and what  *)
(* rm/reader.go accepts.  A payload is a sequence of fields; a field has   *)
(* an index, a wire type and a value, and `whole` is FALSE when the bytes  *)
(* of its value run out, which the reader notices only after the tag.  The *)
(* value of a Length4 field is a payload of its own.                       *)
(***************************************************************************)
EXTENDS Naturals, Sequences

Field(i, t, v) == [index |-> i, typ |-> t, val |-> v, whole |-> TRUE]

Id(i, v) == Field(i, "ID", v)
Byte1(i, v) == Field(i, "Byte1", v)
Byte4(i, v) == Field(i, "Byte4", v)
Byte8(i, v) == Field(i, "Byte8", v)
Sub(i, v) == Field(i, "Length4", v)

\* The next value, the k-th of the payload, carries this index and type.
HasTag(fs, k, i, t) == k \in DOMAIN fs /\ fs[k].index = i /\ fs[k].typ = t

\* It is there to the last byte.
Read(fs, k, i, t) == HasTag(fs, k, i, t) /\ fs[k].whole

\* What is optional is absent or whole.
ReadIfAny(fs, k, i, t) == HasTag(fs, k, i, t) => fs[k].whole

IdsFrom1(fs, n) == \A k \in 1..n : Read(fs, k, k, "ID")

\* A last-writer-wins value: a timestamp, then the value itself.
Lww(i, field) == Sub(i, <<Id(1, 0), field>>)
ReadLww(fs, k, i, t) ==
    Read(fs, k, i, "Length4") /\ Read(fs[k].val, 1, 1, "ID") /\ Read(fs[k].val, 2, 2, t)

-----------------------------------------------------------------------------
(* The blocks of file (writer.go).  Ids that no reader uses are 0.         *)

SceneTree(tree, parent) == <<Id(1, tree), Id(2, 0), Byte1(3, FALSE), Sub(4, <<Id(1, parent)>>)>>

TreeNode(id, visible) == <<Id(1, id), Lww(2, Sub(2, 0)), Lww(3, Byte1(2, visible))>>

SceneItem(parent, deleted, itemType, value) ==
    <<Id(1, parent), Id(2, 0), Id(3, 0), Id(4, 0), Byte4(5, deleted),
      Sub(6, [type |-> itemType, fields |-> value])>>

\* The value of an item that is empty: even its type is missing.
EmptyValue == [type |-> "none", fields |-> <<>>]

GroupItem(parent, child) == SceneItem(parent, 0, "group", <<Id(2, child)>>)

\* The points of a line are as many bytes as its encoding takes.
LineItem(parent, bytes) ==
    SceneItem(parent, 0, "line",
              <<Byte4(1, 0), Byte4(2, 0), Byte8(3, 0), Byte4(4, 0), Sub(5, bytes), Id(6, 0)>>)
LineItemV2(parent, points) == LineItem(parent, 14 * points)
LineItemV1(parent, points) == LineItem(parent, 24 * points)

TextItem(deleted, value) ==
    <<Id(2, 0), Id(3, 0), Id(4, 0), Byte4(5, deleted), Sub(6, <<value>>)>>
Span(s) == TextItem(0, Sub(2, s))

RootText(items) ==
    <<Id(1, 0),
      Sub(2, <<Sub(1, <<Sub(1, [count |-> Len(items), items |-> items])>>),
               Sub(2, <<>>), Sub(3, 0), Byte4(4, 0)>>)>>

-----------------------------------------------------------------------------
(* Damage: the payload ends before a field, or inside it.                  *)

Cuts(fs) ==
    {SubSeq(fs, 1, k) : k \in 0..(Len(fs) - 1)}
    \cup {[SubSeq(fs, 1, k) EXCEPT ![k].whole = FALSE] : k \in DOMAIN fs}

\* A payload, itself or cut, or with a cut in the payload of its k-th field.
Damaged(fs) == {fs} \cup Cuts(fs)
DamagedIn(fs, k) == Damaged(fs) \cup {[fs EXCEPT ![k].val = v] : v \in Cuts(fs[k].val)}

=============================================================================
