---------------------------- MODULE NativeBackfill ----------------------------
(***************************************************************************)
(* The native mirror runner: it follows the heights of a host f1r3node,    *)
(* fetches the ancestors a block still lacks, stores every block with its  *)
(* mapping in one transaction, and moves a durable height cursor after     *)
(* each window.  The process may crash between any two steps and exits on  *)
(* an error; the host may list further blocks at any time.                 *)
(***************************************************************************)
EXTENDS Naturals, FiniteSets, Sequences, Sorting

CONSTANTS
    Block,          \* blocks of the host
    Height,         \* body.state.block_number
    Deps,           \* parents and justifications
    Hash,           \* order of the wire hashes
    Body,           \* what the translation keeps of a block, but its predecessors
    Late,           \* blocks the host does not have at the start
    BatchHeights,   \* --batch-heights
    ReplayHeights,  \* --replay-heights
    MaxBackfill,    \* --max-backfill-blocks
    MaxCrashes      \* bound: crashes in a behaviour

\* A host block has a parent one height below it; one block is the genesis.
ASSUME BackfillAssumption ==
    /\ Height \in [Block -> Nat] /\ Hash \in [Block -> Nat]
    /\ \A b, c \in Block : Hash[b] = Hash[c] => b = c
    /\ \A b, c \in Block : Height[b] = 0 /\ Height[c] = 0 => b = c
    /\ \A b \in Block :
           /\ Deps[b] \subseteq Block
           /\ \A p \in Deps[b] : Height[p] < Height[b]
           /\ Height[b] > 0 => \E p \in Deps[b] : Height[p] = Height[b] - 1
    /\ Late \subseteq Block
    /\ \A b \in Block \ Late : Deps[b] \cap Late = {}
    /\ IsFiniteSet(Block \ Late)
    /\ BatchHeights \in Nat \ {0} /\ ReplayHeights \in Nat \ {0}
    /\ MaxBackfill \in Nat /\ MaxCrashes \in Nat

VARIABLES
    hosted,    \* blocks in the host's storage and listings
    store,     \* blocks stored with their native mapping
    next,      \* native_height_cursor + 1, or 0 without a cursor
    index,     \* native_index and mirror of the running process
    stage,     \* "down", "idle", "replay" or "apply"
    head,      \* host head read by poll_to_head
    window,    \* first and last height of the window in progress, or <<>>
    from,      \* first height of the next replay window
    queue,     \* blocks of the window still to be ingested
    stack,     \* work of ingest_with_native_backfill
    fetched,   \* blocks read for the current target
    failed,    \* last error, a set of at most one
    crashes

locals == <<head, window, from, queue, stack, fetched>>
vars == <<hosted, store, next, index, stage, locals, failed, crashes>>

lowest(a, b) == IF a < b THEN a ELSE b
heights(S) == {Height[b] : b \in S}
host_head == CHOOSE h \in heights(hosted) : \A b \in hosted : Height[b] <= h

greater_hash == {p \in Block \X Block : Hash[p[1]] > Hash[p[2]]}
lower_block ==
    {p \in Block \X Block :
        \/ Height[p[1]] < Height[p[2]]
        \/ Height[p[1]] = Height[p[2]] /\ Hash[p[1]] < Hash[p[2]]}

Enter(b) == [op |-> "enter", block |-> b]
Apply(b) == [op |-> "apply", block |-> b]
top == stack[Len(stack)]
entering == stack # <<>> /\ top.op = "enter"
applying == stack # <<>> /\ top.op = "apply"

\* The set ancestry of the code gains a hash when its Apply is pushed and
\* loses it when that Apply is done.
ancestry == {stack[i].block : i \in {j \in DOMAIN stack : stack[j].op = "apply"}}

lacking(b) == Deps[b] \ index

(***************************************************************************)
(* from_protobuf_with_parents: the Cordial identity of a block whose       *)
(* parents are all indexed; host fields that Cordial does not know are     *)
(* dropped.  Indexed blocks have distinct identities, so the wire hashes   *)
(* of the predecessors stand for their identities.                         *)
(***************************************************************************)
from_protobuf_with_parents(b) == [body |-> Body[b], predecessors |-> Deps[b]]

(***************************************************************************)
(* check_candidate against the accepted blocks S: no other wire block has  *)
(* the identity.                                                           *)
(***************************************************************************)
check_candidate(S, b) ==
    \A c \in S : from_protobuf_with_parents(c) = from_protobuf_with_parents(b) => c = b

(***************************************************************************)
(* put_native_block: block and mapping in one transaction, refused if the  *)
(* stored mappings would no longer be one to one.                          *)
(***************************************************************************)
put_native_block(b) == check_candidate(store, b) /\ store' = store \cup {b}

(***************************************************************************)
(* put_native_height_cursor: the cursor never moves backward.              *)
(***************************************************************************)
put_native_height_cursor(h) == h + 1 >= next /\ next' = h + 1

(***************************************************************************)
(* native_block_mappings: read strictly, both directions must agree.       *)
(***************************************************************************)
native_block_mappings == {b \in store : check_candidate(store, b)}
listed(w) == {b \in hosted : Height[b] \in w[1] .. w[2]}

(***************************************************************************)
(* The window poll_to_head asks for next: of the replay or, from the       *)
(* cursor on, of the heights up to the head it has read.                   *)
(***************************************************************************)
next_window ==
    IF stage = "replay"
    THEN <<from, lowest(from + BatchHeights - 1, next - 1)>>
    ELSE <<next, lowest(next + BatchHeights - 1, head)>>

between_windows == stage \in {"replay", "apply"} /\ window = <<>>
window_due == between_windows /\ (IF stage = "replay" THEN from < next ELSE next <= head)

(***************************************************************************)
(* The errors of the next step.  Each ends the process.                    *)
(***************************************************************************)
errors ==
    {r \in {"behind", "MissingHeight", "Cycle", "BackfillLimit", "parent", "collapse", "genesis"} :
        CASE r = "behind" -> stage = "idle" /\ hosted # {} /\ host_head + 1 < next
          [] r = "MissingHeight" ->
                window_due /\ heights(listed(next_window)) # next_window[1] .. next_window[2]
          [] r = "Cycle" ->
                /\ entering /\ top.block \notin index
                /\ ({top.block} \cup lacking(top.block)) \cap ancestry # {}
          [] r = "BackfillLimit" ->
                /\ entering /\ top.block \notin index
                /\ fetched + Cardinality(lacking(top.block)) > MaxBackfill
          [] r = "parent" -> applying /\ lacking(top.block) # {}
          [] r = "collapse" -> applying /\ ~ check_candidate(index, top.block)
          [] r = "genesis" -> applying /\ Height[top.block] = 0 /\ index # {}}

\* Mutant of poll_to_head: a poll goes straight to the heights past the cursor.
poll_without_replay ==
    /\ stage = "idle" /\ hosted # {} /\ errors = {}
    /\ head' = host_head
    /\ stage' = "apply"
    /\ UNCHANGED <<hosted, store, next, index, window, from, queue, stack, fetched, failed, crashes>>

(***************************************************************************)
(* poll_to_head up to its first listing: with a cursor the last            *)
(* ReplayHeights heights are read again.                                   *)
(***************************************************************************)
poll_to_head ==
    /\ stage = "idle" /\ hosted # {} /\ errors = {}
    /\ head' = host_head
    /\ from' = IF next > ReplayHeights THEN next - ReplayHeights ELSE 0
    /\ stage' = IF next = 0 THEN "apply" ELSE "replay"
    /\ UNCHANGED <<hosted, store, next, index, window, queue, stack, fetched, failed, crashes>>

(***************************************************************************)
(* native_blocks_by_heights, and the checks and the sort with which        *)
(* replay_native_height_window begins.                                     *)
(***************************************************************************)
list_window ==
    /\ window_due /\ errors = {}
    /\ window' = next_window
    /\ queue' = sorted(listed(next_window), lower_block)
    /\ UNCHANGED <<hosted, store, next, index, stage, head, from, stack, fetched, failed, crashes>>

(***************************************************************************)
(* The loops of poll_to_head end: the replay is followed by the new        *)
(* heights, those by the sleep before the next poll.                       *)
(***************************************************************************)
end_of_loop ==
    /\ between_windows /\ ~ window_due
    /\ stage' = IF stage = "replay" THEN "apply" ELSE "idle"
    /\ UNCHANGED <<hosted, store, next, index, locals, failed, crashes>>

(***************************************************************************)
(* ingest_with_native_backfill begins on the next block of the window.     *)
(***************************************************************************)
next_target ==
    /\ stack = <<>> /\ queue # <<>>
    /\ stack' = <<Enter(Head(queue))>>
    /\ queue' = Tail(queue)
    /\ fetched' = 0
    /\ UNCHANGED <<hosted, store, next, index, stage, head, window, from, failed, crashes>>

below_top == SubSeq(stack, 1, Len(stack) - 1)

(***************************************************************************)
(* Work::Enter: an indexed block is dropped; of any other the missing      *)
(* dependencies are read and pushed above it, the least hash on top.       *)
(***************************************************************************)
enter_block ==
    /\ entering /\ errors = {}
    /\ LET b == top.block
           deps == sorted(lacking(b), greater_hash)
       IN  IF b \in index THEN stack' = below_top /\ UNCHANGED fetched
           ELSE /\ stack' = below_top \o <<Apply(b)>> \o [i \in DOMAIN deps |-> Enter(deps[i])]
                /\ fetched' = fetched + Len(deps)
    /\ UNCHANGED <<hosted, store, next, index, stage, head, window, from, queue, failed, crashes>>

(***************************************************************************)
(* Work::Apply: put_native_block commits, then the block is mirrored and   *)
(* indexed.  A crash in between loses only memory.                         *)
(***************************************************************************)
apply_block ==
    /\ applying /\ errors = {}
    /\ put_native_block(top.block)
    /\ index' = index \cup {top.block}
    /\ stack' = below_top
    /\ UNCHANGED <<hosted, next, stage, head, window, from, queue, fetched, failed, crashes>>

\* Mutant of end_of_window: the cursor moves to the head that was read.
end_of_window_at_head ==
    /\ window # <<>> /\ queue = <<>> /\ stack = <<>>
    /\ IF stage = "apply" THEN next' = head + 1 /\ UNCHANGED from
                          ELSE from' = window[2] + 1 /\ UNCHANGED next
    /\ window' = <<>>
    /\ UNCHANGED <<hosted, store, index, stage, head, queue, stack, fetched, failed, crashes>>

(***************************************************************************)
(* The end of a window: apply_native_height_window puts the cursor,        *)
(* replay_native_height_window does not.                                   *)
(***************************************************************************)
end_of_window ==
    /\ window # <<>> /\ queue = <<>> /\ stack = <<>>
    /\ IF stage = "apply" THEN put_native_height_cursor(window[2]) /\ UNCHANGED from
                          ELSE from' = window[2] + 1 /\ UNCHANGED next
    /\ window' = <<>>
    /\ UNCHANGED <<hosted, store, index, stage, head, queue, stack, fetched, failed, crashes>>

lose_memory ==
    /\ stage' = "down" /\ index' = {} /\ head' = 0 /\ window' = <<>> /\ from' = 0
    /\ queue' = <<>> /\ stack' = <<>> /\ fetched' = 0

(***************************************************************************)
(* An error leaves main, and the process ends.                             *)
(***************************************************************************)
give_up ==
    /\ \E r \in errors : failed' = {r}
    /\ lose_memory
    /\ UNCHANGED <<hosted, store, next, crashes>>

\* A crash, ctrl-c, or an error of the host's interface at an await.
crash_node ==
    /\ stage # "down" /\ crashes < MaxCrashes
    /\ crashes' = crashes + 1
    /\ lose_memory
    /\ UNCHANGED <<hosted, store, next, failed>>

(***************************************************************************)
(* with_persistent_store: the index is what the replay of the store gives, *)
(* the blocks whose whole ancestry is stored, and must hold every mapping; *)
(* a mapping that disagrees ends the start.                                *)
(***************************************************************************)
restart ==
    /\ stage = "down"
    /\ \A b \in store : Deps[b] \subseteq store
    /\ native_block_mappings = store
    /\ stage' = "idle"
    /\ index' = native_block_mappings
    /\ UNCHANGED <<hosted, store, next, locals, failed, crashes>>

\* The host gets a block; its ancestors are in the host's storage by then.
host_block(b) ==
    /\ b \in Block \ hosted
    /\ Deps[b] \subseteq hosted
    /\ hosted' = hosted \cup {b}
    /\ UNCHANGED <<store, next, index, stage, locals, failed, crashes>>

Init ==
    /\ hosted = Block \ Late
    /\ store = {} /\ next = 0 /\ index = {}
    /\ stage = "down" /\ head = 0
    /\ window = <<>> /\ from = 0 /\ queue = <<>> /\ stack = <<>> /\ fetched = 0
    /\ failed = {} /\ crashes = 0

Process ==
    \/ poll_to_head \/ list_window \/ end_of_loop \/ next_target \/ enter_block
    \/ apply_block \/ end_of_window \/ give_up \/ restart

Next == Process \/ crash_node \/ \E b \in Block : host_block(b)

Spec == Init /\ [][Next]_vars

\* The process keeps running and is restarted after it ends; the host
\* promises nothing and crashes stop.
FairSpec == Spec /\ WF_vars(Process)
-----------------------------------------------------------------------------
\* Type invariant of the runner; the blocks read for one target stay within
\* the limit (ingest_with_native_backfill).
BackfillTypeOK ==
    /\ hosted \subseteq Block /\ store \subseteq hosted /\ index \subseteq Block
    /\ next \in Nat /\ from \in Nat /\ head \in Nat
    /\ stage \in {"down", "idle", "replay", "apply"}
    /\ fetched \in 0 .. MaxBackfill
    /\ queue \in Seq(hosted) /\ stack \in Seq([op : {"enter", "apply"}, block : hosted])
    /\ Cardinality(failed) <= 1

\* Wherever crashes and errors fell: the state is well typed, what is stored is
\* closed under dependencies and holds one wire block per Cordial identity, so
\* that a restart never meets a mapping it refuses, and every block the host had
\* from the start at a height the cursor has passed is stored
\* (put_native_block, apply_native_height_window).
CursorCovers ==
    /\ BackfillTypeOK
    /\ \A b \in store : Deps[b] \subseteq store /\ check_candidate(store, b)
    /\ \A b \in Block \ Late : Height[b] < next => b \in store

\* Unless an error ends the process again and again: in the end every block
\* the host had from the start, and every block within ReplayHeights of the
\* host's head, however late it was listed, is stored (poll_to_head with its
\* replay).
RecentEventuallyStored ==
    \/ <>[](\A b \in hosted :
               b \notin Late \/ Height[b] + ReplayHeights > host_head => b \in store)
    \/ []<><<give_up>>_vars

=============================================================================
