-------------------------- MODULE MCNativeBackfill ---------------------------
(***************************************************************************)
(* A chain 1 .. 5 of heights 0 .. 4 that the host has, and a branch it     *)
(* lists late: 6 on 1, 7 on 6, and 8 at height 5, which joins the chain    *)
(* with both 6 and 7.  7 has a lesser hash than 6.  9 is a late sibling of *)
(* the tip 5 of the chain, and 10 a late sibling of 2 that differs from it *)
(* only in fields the translation drops.                                   *)
(***************************************************************************)
EXTENDS NativeBackfill

MCBlock == 1 .. 10
MCHeight == <<0, 1, 2, 3, 4, 1, 2, 5, 4, 1>>
MCDeps == << {}, {1}, {2}, {3}, {4}, {1}, {6}, {5, 6, 7}, {4}, {1} >>
MCHash == <<1, 2, 3, 4, 5, 8, 6, 7, 9, 10>>
MCBody == <<1, 2, 3, 4, 5, 6, 7, 8, 9, 2>>
MCLate == {6, 7, 8, 9, 10}

=============================================================================
