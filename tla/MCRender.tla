------------------------------ MODULE MCRender ------------------------------
(* Lines of two lengths and up to three tokens, overlapping, nested,       *)
(* empty, equal or reaching beyond the shorter line.                       *)
EXTENDS Render

Token(start, end) == [start |-> start, end |-> end, kind |-> "value"]

MCTokens == { Token(0, 1), Token(0, 2), Token(1, 1), Token(1, 2),
              Token(1, 3), Token(2, 3) }

MCLengths == {2, 3}
MCKinds == {"value"}
MCTokenLists == UNION {[1 .. n -> MCTokens] : n \in 0 .. 3}
=============================================================================
