--------------------------- MODULE ProjectForest ---------------------------
(***************************************************************************)
(* What the projects service promises about the hierarchy: a forest, in    *)
(* which a project is known by its parent and by its own name.  The full   *)
(* names and the paths that the documents also keep are derived from it.   *)
(***************************************************************************)
CONSTANTS Ids, NoProject, NoBase

VARIABLE forest   \* [Ids -> [exists, parent, base]]

NoNode == [exists |-> FALSE, parent |-> NoProject, base |-> NoBase]

Live == {p \in Ids : forest[p].exists}

\* A project that others may be put under, or the top level.
Place(q) == q = NoProject \/ q \in Live

\* The projects whose chain of parents goes through p, and p itself.
Below(p) ==
  LET Closed(S) == p \in S /\ \A x \in Live : forest[x].parent \in S => x \in S
  IN  {x \in Live : \A S \in SUBSET Live : Closed(S) => x \in S}

\* No other project under q bears the name b.
FreeUnder(q, b, self) ==
  \A x \in Live \ {self} : ~(forest[x].parent = q /\ forest[x].base = b)

Init == forest = [p \in Ids |-> NoNode]

Add(p, q, b) ==
  /\ p \notin Live /\ Place(q)
  /\ forest' = [forest EXCEPT ![p] = [exists |-> TRUE, parent |-> q, base |-> b]]
  /\ FreeUnder(q, b, p)

Reparent(p, q) ==
  /\ p \in Live /\ Place(q)
  /\ forest' = [forest EXCEPT ![p].parent = q]
  /\ q \notin Below(p) /\ FreeUnder(q, forest[p].base, p)

Rename(p, b) ==
  /\ p \in Live
  /\ forest' = [forest EXCEPT ![p].base = b]
  /\ FreeUnder(forest[p].parent, b, p)

\* A project goes away with all that is under it, and nothing else does.
Remove(p) ==
  /\ p \in Live /\ ~forest'[p].exists
  /\ forest' = [x \in Ids |-> IF x \in Below(p) THEN NoNode ELSE forest[x]]

Next ==
  \E p \in {x \in Ids : forest'[x] # forest[x]} :
    LET node == forest'[p]
    IN  \/ Add(p, node.parent, node.base)
        \/ Reparent(p, node.parent)
        \/ Rename(p, node.base)
        \/ Remove(p)

Spec == Init /\ [][Next]_forest
=============================================================================
