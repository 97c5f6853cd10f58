----------------------------- MODULE MCWlRoles ------------------------------
(* An instance of WlRoles with two clients.  The first allocates up to     *)
(* four blocks, enough for a surface, its xdg_surface, a role and one more *)
(* (a decoration, a positioner, a second xdg_surface or a second role), or *)
(* asks for a frame first, so that the last block finds the table full.    *)
(* The second has a surface and an xdg_surface.                            *)
EXTENDS WlRoles, TLC

CONSTANTS a, b

Both == {a, b}
FourAndTwo == a :> 4 @@ b :> 2

OfKind(c, kinds) == {p \in Blocks(c) : heap[c][p].kind \in kinds}

(* Buffers, positioners and decorations differ only in what points at      *)
(* them: one of each is enough.  One frame makes the table full.           *)
Bounded ==
  /\ Cardinality(OfKind(a, {"buffer", "positioner"})) <= 1
  /\ Cardinality(OfKind(a, {"surface"})) <= 2
  /\ OfKind(b, {"surface", "xdg_surface"}) = Blocks(b)
  /\ obj_count[a] <= Cardinality({p \in Blocks(a) : heap[a][p].named}) + 1
  /\ obj_count[b] = Len(heap[b])
=============================================================================
