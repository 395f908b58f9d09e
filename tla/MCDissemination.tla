--------------------------- MODULE MCDissemination ---------------------------
(***************************************************************************)
(* Blocks 1 and 2 of v1 are an equivocation of round 1 on different roots. *)
(* 3, 4, 5, 6 and 7 are an honest history in which 3 and 4 are both        *)
(* greatest common ancestors of 5 and 6, and 7 reaches the block of its    *)
(* creator before it through 6 only.  8 is a second signature of 3, and 9  *)
(* is a block in the name of v1 whose signature is wrong.                  *)
(* The identities are ordered against the history, so that a retry needs   *)
(* several passes.                                                         *)
(***************************************************************************)
EXTENDS Dissemination

MCBlock == 1 .. 9
MCCreator == <<"v1", "v1", "v2", "v3", "v4", "v3", "v2", "v2", "v1">>
MCContent == <<1, 2, 3, 4, 5, 6, 7, 3, 9>>
MCPreds == << {3}, {4}, {}, {}, {3, 4}, {3, 4}, {6}, {}, {3} >>
MCKey == <<5, 2, 8, 7, 4, 3, 1, 6, 9>>

\* A roomy buffer with the default checks; a small one, with v4 not bonded;
\* equivocations let through, without and with the cordiality check; a
\* forged equivocation.
full == [v1 |-> 3, v2 |-> 2, v3 |-> 2, v4 |-> 1]
scenario(bonds, chain, cordial, entries, creator, retries, sent, twice) ==
    [bonds |-> bonds, chain |-> chain, cordial |-> cordial, max_entries |-> entries,
     max_entries_per_creator |-> creator, max_retry_passes |-> retries,
     sent |-> sent, twice |-> twice]
MCConfigs == {
    scenario(full, TRUE, FALSE, 9, 9, 20, {1, 2, 3, 4, 6, 7}, {6}),
    scenario([v1 |-> 3, v2 |-> 2, v3 |-> 2], TRUE, FALSE, 2, 1, 1, {1, 3, 4, 5, 6, 7, 8}, {6}),
    scenario(full, FALSE, FALSE, 2, 2, 1, 1 .. 7, {}),
    scenario(full, FALSE, TRUE, 2, 1, 1, 1 .. 6, {6}),
    scenario(full, TRUE, TRUE, 9, 9, 20, {1, 3, 9}, {9}) }

===============================================================================
