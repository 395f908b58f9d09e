--------------------------- MODULE MCLiveIngress -----------------------------
(***************************************************************************)
(* Two waves of four equally bonded validators, mirrored from depth 3 on.  *)
(* 11, the third witness of the leader 1 of wave 0, is late: the leader 13 *)
(* of wave 1 and its witnesses do not observe it.  The reputation round    *)
(* gives v2 the weight of four validators.  The deploy is in a recovered   *)
(* block, in the late one and in the leader of wave 1.                     *)
(***************************************************************************)
EXTENDS LiveIngress, Integers

CONSTANTS v1, v2, v3, v4, HashSeed

\* creator, position in the creator's chain, predecessors
MCTable == <<
    <<v1, 0, {}>>,
    <<v2, 0, {}>>,
    <<v3, 0, {}>>,
    <<v4, 0, {}>>,
    <<v1, 1, {1, 2, 3, 4}>>,
    <<v2, 1, {1, 2, 3, 4}>>,
    <<v3, 1, {1, 2, 3, 4}>>,
    <<v4, 1, {2, 3, 4}>>,
    <<v2, 2, {5, 6, 7, 8}>>,
    <<v3, 2, {5, 6, 7, 8}>>,
    <<v1, 2, {5, 6, 7}>>,
    <<v3, 3, {8, 9, 10}>>,
    <<v2, 3, {8, 9, 10}>>,
    <<v4, 2, {8, 9, 10}>>,
    <<v2, 4, {12, 13, 14}>>,
    <<v3, 4, {12, 13, 14}>>,
    <<v4, 3, {12, 13, 14}>>,
    <<v2, 5, {15, 16, 17}>>,
    <<v3, 5, {15, 16, 17}>>,
    <<v4, 4, {15, 16, 17}>> >>

MCValidator == {v1, v2, v3, v4}
MCBlock == 1 .. Len(MCTable)
MCCreator == [b \in MCBlock |-> MCTable[b][1]]
MCSeqno == [b \in MCBlock |-> MCTable[b][2]]
MCPreds == [b \in MCBlock |-> MCTable[b][3]]
MCStake == [S \in SUBSET MCValidator |-> Cardinality(S)]
MCLeader == [w \in 0 .. MaxRound |-> <<v1, v2, v3, v4>>[(w % 4) + 1]]
MCRank == [b \in MCBlock |-> (b * HashSeed) % 23]
MCRecovered == 1 .. 10
MCPorStake == [S \in SUBSET MCValidator |-> Cardinality(S) + (IF v2 \in S THEN 3 ELSE 0)]
MCCarriers == [d \in {"d"} |-> {9, 11, 13}]

=============================================================================
