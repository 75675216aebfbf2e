---------------------------- MODULE ChangeHistory ----------------------------
(***************************************************************************)
(* Documents as the changes that made them. A change writes or deletes the *)
(* document of one collection; the state of a document is the place of the *)
(* change that wrote it in the history, 0 when there is no document.       *)
(***************************************************************************)
EXTENDS Naturals, Sequences

Writes(h, c, i) == {j \in 1..i : h[j].collection = c}
LastOf(S) == CHOOSE j \in S : \A k \in S : k <= j

\* The document of collection c after the first i changes of h.
ValueAt(h, c, i) ==
  IF Writes(h, c, i) = {} THEN 0
  ELSE IF h[LastOf(Writes(h, c, i))].delete THEN 0 ELSE LastOf(Writes(h, c, i))

\* The states the document has had since the first i changes.
Since(h, c, i) == {ValueAt(h, c, j) : j \in i..Len(h)}
=============================================================================
