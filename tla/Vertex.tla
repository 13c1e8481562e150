------------------------------- MODULE Vertex -------------------------------
(***************************************************************************)
(* The vertices of src/src/model/vertex.cpp.                                *)
(*                                                                          *)
(* hash_ is a blake3 digest over owner, block, round and the strong         *)
(* parents.  It is abstracted to the pair <<owner, round>>: one validator   *)
(* broadcasts at most one vertex per round, which is the invariant          *)
(* NoEquivocation of module Consensus and not an assumption of this module. *)
(* parents_ maps the hash of each parent to that parent's round; the round  *)
(* is the second component of the hash here, so the map is a set.  The      *)
(* block a vertex carries is left out: no property tells two blocks apart.  *)
(***************************************************************************)
EXTENDS Committee

Rounds == Nat \ {0}

Hashes == Validators \X Rounds

VertexSet == [owner : Validators, round : Rounds, parents : SUBSET Hashes]

Hash(v) == <<v.owner, v.round>>

\* Mutant: genesis is round 0.
GenesisAtRoundZero == {[owner |-> n, round |-> 0, parents |-> {}] : n \in Validators}

\* Vertex::genesis: one parentless vertex of round 1 for each committee member.
Genesis == {[owner |-> n, round |-> 1, parents |-> {}] : n \in Validators}

\* Vertex::get_strong_parents: the parents that are exactly one round older.
StrongParents(v) == {p \in v.parents : p[2] + 1 = v.round}

\* Vertex::add_parent, for all the hashes in ps.  hash_ was computed by the
\* constructor and stays what it was.
AddParents(v, ps) == [v EXCEPT !.parents = @ \cup ps]

=============================================================================
