----------------------------- MODULE MCPruning -----------------------------
(***************************************************************************)
(* Three waves of four validators with equal stake.  v4 forks at its       *)
(* second block: of the branches 8 and 9 the first is acknowledged only by *)
(* the leader 13 of wave 1, the second by 14 and by v4's own late block    *)
(* 31, which arrives when 9 may be gone.                                   *)
(***************************************************************************)
EXTENDS Pruning, Integers

CONSTANTS v1, v2, v3, v4, HashSeed

MCValidator == {v1, v2, v3, v4}

\* creator, position in the creator's chain, predecessors
Table == <<
    <<v1, 0, {}>>,
    <<v2, 0, {}>>,
    <<v3, 0, {}>>,
    <<v4, 0, {}>>,
    <<v1, 1, {1, 2, 3}>>,
    <<v2, 1, {1, 2, 3}>>,
    <<v3, 1, {1, 2, 3}>>,
    <<v4, 1, {1, 2, 4}>>,
    <<v4, 1, {2, 3, 4}>>,
    <<v2, 2, {5, 6, 7}>>,
    <<v1, 2, {5, 6, 7}>>,
    <<v3, 2, {5, 6, 7}>>,
    <<v2, 3, {8, 10, 11, 12}>>,
    <<v1, 3, {9, 10, 11, 12}>>,
    <<v3, 3, {10, 11, 12}>>,
    <<v1, 4, {13, 14, 15}>>,
    <<v2, 4, {13, 14, 15}>>,
    <<v3, 4, {13, 14, 15}>>,
    <<v1, 5, {16, 17, 18}>>,
    <<v2, 5, {16, 17, 18}>>,
    <<v3, 5, {16, 17, 18}>>,
    <<v1, 6, {19, 20, 21}>>,
    <<v2, 6, {19, 20, 21}>>,
    <<v3, 6, {19, 20, 21}>>,
    <<v1, 7, {22, 23, 24}>>,
    <<v2, 7, {22, 23, 24}>>,
    <<v3, 7, {22, 23, 24}>>,
    <<v1, 8, {25, 26, 27}>>,
    <<v2, 8, {25, 26, 27}>>,
    <<v3, 8, {25, 26, 27}>>,
    <<v4, 2, {9, 13, 14, 15}>> >>

MCBlock == 1 .. Len(Table)
MCCreator == [b \in MCBlock |-> Table[b][1]]
MCSeqno == [b \in MCBlock |-> Table[b][2]]
MCPreds == [b \in MCBlock |-> Table[b][3]]
MCStake == [S \in SUBSET MCValidator |-> Cardinality(S)]
MCHonest == {v1, v2, v3}
MCLeader == [w \in 0 .. MaxRound |-> <<v1, v2, v3, v4>>[(w % 4) + 1]]
MCRank == [b \in MCBlock |-> (b * HashSeed) % 37]
=============================================================================
