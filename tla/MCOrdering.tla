----------------------------- MODULE MCOrdering ------------------------------
(***************************************************************************)
(* Two waves of four validators with equal stake, as a table of blocks:    *)
(* creator, position in the creator's chain, predecessors.                 *)
(***************************************************************************)
EXTENDS Ordering, Integers

CONSTANTS v1, v2, v3, v4, HashSeed

MCValidator == {v1, v2, v3, v4}

\* Nobody equivocates.  11, the third witness of the leader 1 of wave 0, is
\* slow: neither the leader 13 of wave 1 nor its witnesses observe it.  v4
\* first signs at depth 3 after its block 8.
Table == <<
    <<v1, 0, {}>>,
    <<v2, 0, {}>>,
    <<v3, 0, {}>>,
    <<v4, 0, {}>>,
    <<v1, 1, {1, 2, 3, 4}>>,
    <<v2, 1, {1, 2, 3, 4}>>,
    <<v3, 1, {1, 2, 3, 4}>>,
    <<v4, 1, {2, 3, 4}>>,
    <<v2, 2, {5, 6, 7, 8}>>,
    <<v3, 2, {5, 6, 7, 8}>>,
    <<v1, 2, {5, 6, 7}>>,
    <<v3, 3, {8, 9, 10}>>,
    <<v2, 3, {8, 9, 10}>>,
    <<v4, 2, {8, 9, 10}>>,
    <<v2, 4, {12, 13, 14}>>,
    <<v3, 4, {12, 13, 14}>>,
    <<v4, 3, {12, 13, 14}>>,
    <<v2, 5, {15, 16, 17}>>,
    <<v3, 5, {15, 16, 17}>>,
    <<v4, 4, {15, 16, 17}>> >>

MCBlock == 1 .. Len(Table)
MCCreator == [b \in MCBlock |-> Table[b][1]]
MCSeqno == [b \in MCBlock |-> Table[b][2]]
MCPreds == [b \in MCBlock |-> Table[b][3]]
MCStake == [S \in SUBSET MCValidator |-> Cardinality(S)]
MCLeader == [w \in 0 .. MaxRound |-> <<v1, v2, v3, v4>>[(w % 4) + 1]]
\* identities are hashes: their order has nothing to do with causality
MCRank == [b \in MCBlock |-> (b * HashSeed) % 29]

=============================================================================
