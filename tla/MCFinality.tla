----------------------------- MODULE MCFinality ------------------------------
(***************************************************************************)
(* One wave of four validators whose leader v1 equivocates at round 0:     *)
(* blocks 1 and 2.                                                         *)
(***************************************************************************)
EXTENDS Finality, Integers, Sequences, TLC

CONSTANTS v1, v2, v3, v4

\* Rows: creator, position in the creator's chain, predecessors.
\* v2 and v3 first see block 1, v4 first sees block 2 and both later; v1
\* extends block 2.
Table == <<
    <<v1, 0, {}>>, <<v1, 0, {}>>, <<v2, 0, {}>>, <<v3, 0, {}>>, <<v4, 0, {}>>,
    <<v2, 1, {1, 3, 4, 5}>>, <<v3, 1, {1, 3, 4}>>, <<v4, 1, {2, 3, 5}>>,
    <<v2, 2, {6, 7}>>, <<v3, 2, {6, 7, 8}>>, <<v4, 2, {6, 7, 8}>>,
    <<v1, 1, {2, 3, 5}>>,
    <<v1, 2, {8, 12}>> >>

MCSymmetry == Permutations(Node)
MCValidator == {v1, v2, v3, v4}
MCBlock == 1 .. Len(Table)
MCCreator == [b \in MCBlock |-> Table[b][1]]
MCSeqno == [b \in MCBlock |-> Table[b][2]]
MCPreds == [b \in MCBlock |-> Table[b][3]]
MCLeader == [w \in 0 .. MaxRound |-> v1]
MCHonest == {v2, v3, v4}
MCStake == [S \in SUBSET MCValidator |-> Cardinality(S) + Cardinality(S \cap {v2, v3})]

=============================================================================
