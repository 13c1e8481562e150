----------------------------- MODULE Committee -----------------------------
(***************************************************************************)
(* The committee of src/src/model/committee.cpp as the consensus code uses  *)
(* it: how many validators there are, who they are and how many of them     *)
(* make a quorum.  A validator is named by its position in the sorted list  *)
(* of node public keys (consensus.cpp:163-164), so the index the leader     *)
(* election computes is directly a validator.                               *)
(***************************************************************************)
EXTENDS Naturals, FiniteSets

CONSTANT N      \* Committee::size(); the repository's committee has 4 members

ASSUME CommitteeAssumption == N \in Nat \ {0}

Validators == 0 .. (N - 1)

\* Mutant: the quorum is one too small.
MinQuorumRoundedDown == (2 * N) \div 3

\* Committee::quorum_threshold(), and the same integer expression that State
\* hands to Dag as minQuorum (state.cpp:8).
MinQuorum == (2 * N) \div 3 + 1

=============================================================================
