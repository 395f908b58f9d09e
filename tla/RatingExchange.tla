---------------------------- MODULE RatingExchange ----------------------------
(***************************************************************************)
(* One proof-of-reputation rating round of several shadow runners.  Every  *)
(* runner polls: it signs its ratings of the producers in the finalized    *)
(* window, stages the batch in its own outbox, publishes it envelope by    *)
(* envelope in a directory all runners share, reads the envelopes of its   *)
(* peers and closes the round when every eligible rater is complete.  An   *)
(* error ends a runner; it starts again with its outbox and with the       *)
(* output it then replays, which need not be the one it had.               *)
(*                                                                         *)
(* In mode "checkpoint" a round is bound to the finalized prefix, and the  *)
(* shared directory carries a marker of it; in mode "wave" it is bound to  *)
(* the number of the finalized wave only.                                  *)
(***************************************************************************)
EXTENDS Naturals, FiniteSets, FiniteSetsExt

CONSTANTS
    Validator,   \* authorized raters: the validators of the bonds file
    Key,         \* order of their keys
    View,        \* finalized outputs that open the round
    Window,      \* blocks of the round's window in an output
    Creator,     \* creator of a block
    Configs      \* settings of one round, see ExAssumption

Setting == [mode : {"wave", "checkpoint"}, views : SUBSET View,
            weight : [Validator -> Nat], ejected : SUBSET Validator, commit : BOOLEAN, crashes : Nat]

ASSUME ExAssumption ==
    /\ IsFiniteSet(Validator) /\ Key \in [Validator -> Nat]
    /\ \A e \in View : Window[e] \subseteq Nat /\ Window[e] \subseteq DOMAIN Creator
    /\ \A c \in Configs : c.mode \in {"wave", "checkpoint"} /\ c.views \subseteq View
                          /\ c.ejected \subseteq Validator /\ c.commit \in BOOLEAN /\ c.crashes \in Nat

VARIABLES
    config,      \* settings of this round
    outbox,      \* batch each validator has staged, if any
    directory,   \* the round's directory of the exchange exists
    marker,      \* source.bin in it
    files,       \* envelopes in it
    pc,          \* where each runner is
    view,        \* output each runner has replayed
    pass,        \* wave mode observes the exchange before it closes the round
    unsent,      \* recipients whose envelopes are still to be published
    unread,      \* raters whose envelopes are still to be read
    collected,   \* ratings in the collector
    closed,      \* rounds each runner has completed
    error,       \* error that ended the runner, if any
    crashes

disk == <<outbox, directory, marker, files>>
memory == <<pc, view, pass, unsent, unread, collected>>
vars == <<config, disk, memory, closed, error, crashes>>

checkpoint == config.mode = "checkpoint"
eligible == Validator \ config.ejected

(***************************************************************************)
(* The ratings a rater owes for a window: one for every other active       *)
(* producer, with the least of its blocks as reference.  A checkpoint      *)
(* rating is signed for its source.                                        *)
(***************************************************************************)
evidence_ref(e, p) == Min({b \in Window[e] : Creator[b] = p})
is_active_recipient(p) == p \in eligible
admitted(r, e) == {p \in {Creator[b] : b \in Window[e]} : p # r /\ is_active_recipient(p)}
source(e) == IF checkpoint THEN {e} ELSE {}
rating(r, p, e) == [rater |-> r, recipient |-> p, ref |-> evidence_ref(e, p), source |-> source(e)]
rating_batch(r, e) == {rating(r, p, e) : p \in admitted(r, e)}

\* The staged file of the batch, and the envelope to publish first: a batch is
\* in the order of its recipients.
staged(v) == [source |-> source(view[v]), batch |-> rating_batch(v, view[v])]
outgoing(v) ==
    {rating(v, p, view[v]) : p \in {q \in unsent[v] : \A o \in unsent[v] : Key[q] <= Key[o]}}
of_rater(S, r) == {f \in S : f.rater = r}

\* Ejected runners of mode "checkpoint" only observe.
signs(v) == checkpoint => v \in eligible

(***************************************************************************)
(* Completeness and quorum of what is collected.                           *)
(***************************************************************************)
rater_answered(v, r) == rating_batch(r, view[v]) # {} => of_rater(collected[v], r) # {}
is_rater_complete(v, r) ==
    Cardinality(of_rater(collected[v], r)) = Cardinality(rating_batch(r, view[v]))
complete_raters(v) == {r \in eligible : is_rater_complete(v, r)}
weight_of(S) == FoldSet(LAMBDA r, w : w + config.weight[r], 0, S)

strict_required_weight(total, numerator, denominator) ==
    (total \div denominator) * numerator + ((total % denominator) * numerator) \div denominator + 1

is_reached(v) ==
    weight_of(complete_raters(v)) >= strict_required_weight(weight_of(eligible), 2, 3)

quorum_complete(v) == is_reached(v)
all_authorized_raters_complete(v) == complete_raters(v) = eligible
build_complete_batch(v) == {f \in collected[v] : is_rater_complete(v, f.rater)}

(***************************************************************************)
(* The errors a runner meets at pc; each ends it.                          *)
(***************************************************************************)
batch_unchecked(v) == FALSE
envelope_held(v) == \E f \in of_rater(files, v), g \in outgoing(v) : f.recipient = g.recipient

batch_conflicts(v) == ~ outbox[v] \subseteq {staged(v)}
marker_conflicts(v) == ~ marker \subseteq {view[v]}
envelope_conflicts(v) ==
    \E f \in of_rater(files, v), g \in outgoing(v) : f.recipient = g.recipient /\ f # g
marker_mismatch(v) == checkpoint /\ directory /\ marker # {view[v]}
rejects(v, r) ==
    of_rater(files, r) # {} /\ (r \in eligible => ~ of_rater(files, r) \subseteq rating_batch(r, view[v]))

Error == {"NoAuthorizedRaters", "EjectedInteractionRater", "conflicting batch",
          "conflicting marker", "conflicting envelope", "source mismatch", "rejected envelope",
          "ZeroActiveWeight", "QuorumNotReached"}

meets(v, why) ==
    CASE why = "EjectedInteractionRater" ->
            pc[v] = "stage" /\ ~ checkpoint /\ v \notin eligible /\ admitted(v, view[v]) # {}
      [] why = "conflicting batch" -> pc[v] = "stage" /\ signs(v) /\ batch_conflicts(v)
      [] why = "conflicting marker" -> pc[v] = "mark" /\ marker_conflicts(v)
      [] why = "conflicting envelope" -> pc[v] = "link" /\ envelope_conflicts(v)
      [] why = "source mismatch" -> pc[v] = "read" /\ marker_mismatch(v)
      [] why = "rejected envelope" -> pc[v] = "collect" /\ \E r \in unread[v] : rejects(v, r)
      [] why = "NoAuthorizedRaters" -> pc[v] = "decide" /\ checkpoint /\ eligible = {}
      [] why = "ZeroActiveWeight" -> pc[v] = "decide" /\ ~ checkpoint /\ weight_of(eligible) = 0
      [] why = "QuorumNotReached" ->
            /\ pc[v] = "decide" /\ ~ checkpoint /\ pass[v] = "close"
            /\ all_authorized_raters_complete(v) /\ ~ is_reached(v)

errors(v) == {why \in Error : meets(v, why)}

Init ==
    /\ config \in Configs
    /\ outbox = [v \in Validator |-> {}] /\ directory = FALSE /\ marker = {} /\ files = {}
    /\ pc = [v \in Validator |-> "down"] /\ view \in [Validator -> config.views]
    /\ pass = [v \in Validator |-> "observe"]
    /\ unsent = [v \in Validator |-> {}] /\ unread = [v \in Validator |-> {}]
    /\ collected = [v \in Validator |-> {}]
    /\ closed = [v \in Validator |-> {}] /\ error = [v \in Validator |-> {}]
    /\ crashes = 0

goto(v, l) == pc' = [pc EXCEPT ![v] = l]
forget(v) ==
    /\ goto(v, "down") /\ pass' = [pass EXCEPT ![v] = "observe"]
    /\ unsent' = [unsent EXCEPT ![v] = {}]
    /\ unread' = [unread EXCEPT ![v] = {}] /\ collected' = [collected EXCEPT ![v] = {}]
    /\ UNCHANGED view

\* The runner starts and replays the finalized output.
start(v) ==
    /\ pc[v] = "down"
    /\ goto(v, "stage") /\ \E e \in config.views : view' = [view EXCEPT ![v] = e]
    /\ error' = [error EXCEPT ![v] = {}]
    /\ UNCHANGED <<config, disk, pass, unsent, unread, collected, closed, crashes>>

refuse(v) ==
    /\ \E why \in errors(v) : error' = [error EXCEPT ![v] = {why}]
    /\ forget(v)
    /\ UNCHANGED <<config, disk, closed, crashes>>

crash(v) ==
    /\ pc[v] \notin {"down", "committed"} /\ crashes < config.crashes
    /\ crashes' = crashes + 1 /\ forget(v)
    /\ UNCHANGED <<config, disk, closed, error>>

(***************************************************************************)
(* Sign the batch and stage it: the outbox holds one immutable file per    *)
(* round, the same batch is accepted again.                                *)
(***************************************************************************)
stage(v) ==
    /\ pc[v] = "stage" /\ errors(v) = {}
    /\ IF signs(v)
       THEN /\ outbox' = [outbox EXCEPT ![v] = {staged(v)}]
            /\ collected' = [collected EXCEPT ![v] = rating_batch(v, view[v])]
       ELSE UNCHANGED <<outbox, collected>>
    /\ unsent' = [unsent EXCEPT ![v] = IF signs(v) THEN admitted(v, view[v]) ELSE {}]
    /\ goto(v, IF unsent'[v] = {} THEN "read" ELSE "publish")
    /\ UNCHANGED <<config, directory, marker, files, view, pass, unread, closed, error, crashes>>

\* fs::create_dir_all of the directory of the round.
publish(v) ==
    /\ pc[v] = "publish"
    /\ directory' = TRUE /\ goto(v, IF checkpoint THEN "mark" ELSE "link")
    /\ UNCHANGED <<config, outbox, marker, files, view, pass, unsent, unread, collected, closed,
                   error, crashes>>

\* publish_immutable of source.bin.
mark(v) ==
    /\ pc[v] = "mark" /\ errors(v) = {}
    /\ marker' = {view[v]} /\ goto(v, "link")
    /\ UNCHANGED <<config, outbox, directory, files, view, pass, unsent, unread, collected, closed,
                   error, crashes>>

\* publish_immutable of the envelope.
link(v) ==
    /\ pc[v] = "link" /\ errors(v) = {}
    /\ \E f \in outgoing(v) :
        /\ files' = files \cup {f}
        /\ unsent' = [unsent EXCEPT ![v] = @ \ {f.recipient}]
    /\ goto(v, IF unsent'[v] = {} THEN "read" ELSE "publish")
    /\ UNCHANGED <<config, outbox, directory, marker, view, pass, unread, collected, closed,
                   error, crashes>>

\* Open the directory of the round: without it there are no peer envelopes.
read_peer_envelopes(v) ==
    /\ pc[v] = "read" /\ errors(v) = {}
    /\ unread' = [unread EXCEPT ![v] =
                    IF directory THEN (IF checkpoint THEN eligible ELSE Validator) \ {v} ELSE {}]
    /\ goto(v, IF unread'[v] = {} THEN "decide" ELSE "collect")
    /\ UNCHANGED <<config, disk, view, pass, unsent, collected, closed, error, crashes>>

\* Read and collect what one peer has published so far.
collect(v) ==
    /\ pc[v] = "collect" /\ errors(v) = {}
    /\ \E r \in unread[v] :
        /\ unread' = [unread EXCEPT ![v] = @ \ {r}]
        /\ collected' = [collected EXCEPT ![v] = @ \cup of_rater(files, r)]
        /\ goto(v, IF unread[v] = {r} THEN "decide" ELSE "collect")
    /\ UNCHANGED <<config, disk, view, pass, unsent, closed, error, crashes>>

(***************************************************************************)
(* Close the round if every eligible rater is complete.  The runner leaves *)
(* a round it commits; otherwise it polls again, and closes it again.      *)
(***************************************************************************)
decide(v) ==
    /\ pc[v] = "decide" /\ errors(v) = {}
    /\ LET complete == all_authorized_raters_complete(v)
           again == ~ checkpoint /\ complete /\ pass[v] = "observe"
       IN  /\ goto(v, IF complete /\ ~ again /\ config.commit THEN "committed" ELSE "stage")
           /\ pass' = [pass EXCEPT ![v] = IF again THEN "close" ELSE "observe"]
           /\ closed' = [closed EXCEPT ![v] =
                            IF complete /\ ~ again
                            THEN @ \cup {[view |-> view[v], batch |-> build_complete_batch(v)]}
                            ELSE @]
    /\ collected' = [collected EXCEPT ![v] = {}]
    /\ UNCHANGED <<config, disk, view, unsent, unread, error, crashes>>

step(v) == \/ start(v) \/ refuse(v) \/ stage(v) \/ publish(v) \/ mark(v) \/ link(v)
           \/ read_peer_envelopes(v) \/ collect(v) \/ decide(v)

Next == \E v \in Validator : step(v) \/ crash(v)

Spec == Init /\ [][Next]_vars
FairSpec == Spec /\ \A v \in Validator : WF_vars(step(v))

-----------------------------------------------------------------------------
Rating == [rater : Validator, recipient : Validator, ref : Nat, source : SUBSET View]
Batch == [source : SUBSET View, batch : SUBSET Rating]

\* The type of the state of a rating round.
ExTypeOK ==
    /\ config \in Configs
    /\ outbox \in [Validator -> SUBSET Batch] /\ directory \in BOOLEAN
    /\ marker \subseteq View /\ files \subseteq Rating
    /\ pc \in [Validator -> {"down", "stage", "publish", "mark", "link", "read", "collect", "decide",
                          "committed"}]
    /\ view \in [Validator -> View] /\ pass \in [Validator -> {"observe", "close"}]
    /\ unsent \in [Validator -> SUBSET Validator] /\ unread \in [Validator -> SUBSET Validator]
    /\ collected \in [Validator -> SUBSET Rating]
    /\ closed \in [Validator -> SUBSET [view : View, batch : SUBSET Rating]]
    /\ error \in [Validator -> SUBSET Error] /\ crashes \in Nat

(***************************************************************************)
(* Every envelope of the exchange is in the batch its rater has staged:    *)
(* the outbox is written before any delivery, and neither a restart nor a  *)
(* rewritten output lets a rater publish a second version of a rating.     *)
(* (Stated with the types of the state.)                                   *)
(***************************************************************************)
PublishedFromOutbox ==
    /\ ExTypeOK
    /\ \A f \in files : \E s \in outbox[f.rater] : f \in s.batch

(***************************************************************************)
(* In checkpoint mode all rounds that runners complete are the same: the   *)
(* source marker and the gate on all eligible raters give every observer   *)
(* one source and one batch, whatever output each of them has replayed and *)
(* however often it closes the round again.  (Wave mode has no marker: a   *)
(* prefix of the batch of one output may be a whole batch of another.)     *)
(***************************************************************************)
ClosedAgree ==
    checkpoint => \A v, w \in Validator : \A c \in closed[v], d \in closed[w] : c = d

(***************************************************************************)
(* A completed batch is what the finalized evidence calls for: for each    *)
(* eligible rater exactly its ratings of the other active producers.       *)
(***************************************************************************)
ClosedIsEvidence ==
    \A v \in Validator : \A c \in closed[v] :
        c.batch = UNION {rating_batch(r, c.view) : r \in eligible}

\* The rounds that the finalized outputs call for.
called_for == {[view |-> e, batch |-> UNION {rating_batch(r, e) : r \in eligible}] : e \in config.views}

Promise == INSTANCE RatingRound WITH single <- checkpoint, called <- called_for

(***************************************************************************)
(* The exchange implements the abstract rating round: staging, publishing, *)
(* reading, restarts and errors of a runner change nothing that is         *)
(* completed, and decide completes a round that an output calls for and,   *)
(* for a checkpoint, the one every other runner completes.                 *)
(***************************************************************************)
ImplementsRound == Promise!RoundSpec

(***************************************************************************)
(* When the runners replay the same output, every one that may rate, and   *)
(* in checkpoint mode every observer, completes the round in the end: a    *)
(* crash between two envelopes, or a peer that is late, only delays it.    *)
(* Wave mode also needs some weight among the raters.                      *)
(***************************************************************************)
RoundCloses ==
    Cardinality(config.views) = 1 /\ (checkpoint \/ weight_of(eligible) > 0)
        ~> \A v \in IF checkpoint THEN Validator ELSE eligible : closed[v] # {}

=============================================================================
