------------------------------- MODULE MCSend -------------------------------
(***************************************************************************)
(* Send on small notebooks: one with a deleted page between two others, an *)
(* old one with a flat list, and one whose pages are all deleted.          *)
(***************************************************************************)
EXTENDS Send, TLC

CONSTANTS p1, p2, p3

Kept(p) == [id |-> p, deleted |-> FALSE]
Gone(p) == [id |-> p, deleted |-> TRUE]

MCNotebooks ==
    {[cPages |-> <<Kept(p1), Gone(p2), Kept(p3)>>, pages |-> <<>>],
     [cPages |-> <<>>, pages |-> <<p1, p2, p3>>],
     [cPages |-> <<Gone(p1)>>, pages |-> <<p2>>]}

Request(f, as) == [format |-> f, attach_as |-> as, target |-> TRUE, badID |-> FALSE]

MCRequests ==
    {Request("svg", ""), Request("svg", "file"), Request("pdf", "embed"), Request("png", "embed"),
     Request("pdf", "link"), [Request("pdf", "file") EXCEPT !.badID = TRUE],
     [Request("pdf", "") EXCEPT !.target = FALSE]}

Within == {a \in Part : a.lo \in 1..3 /\ a.hi \in 1..3}

MCRanges ==
    {<<>>, <<Malformed>>} \cup {<<a>> : a \in Part}
    \cup {<<a, b>> : a \in Within, b \in Within \cup {Malformed}}

=============================================================================
