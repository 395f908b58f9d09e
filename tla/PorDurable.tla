------------------------------ MODULE PorDurable ------------------------------
(***************************************************************************)
(* The durable state of proof of reputation in the shadow runner: the      *)
(* snapshot, the block history, the activation marker, the epoch record    *)
(* and the status file, each written by renaming or linking a synced       *)
(* temporary file and then syncing its directory.  A storage error ends    *)
(* the process, the process may be killed between any two steps, and the   *)
(* power may fail, which undoes any part of what no directory sync         *)
(* followed.                                                               *)
(*                                                                         *)
(* A reputation state is the sequence of the outcomes of its rounds, which *)
(* its block hash commits to.  The finalized output is measured in waves:  *)
(* output n ends with a final leader of wave n - 1.                        *)
(***************************************************************************)
EXTENDS Naturals, FiniteSets, Sequences

CONSTANTS
    Outcome,      \* what a completed rating round may decide
    Projection,   \* weights a round with that outcome projects to
    Genesis,      \* weights of round 0
    Stake,        \* weights of the bonds file
    Paths,        \* commit paths of the runner
    SourceWave,   \* wave of the last block of a round's source checkpoint
    SourceAt,     \* output that first contains this block
    Delay,        \* --checkpoint-epoch-delay-waves
    Refused,      \* weights that would rewrite an output, with the output
    Mixed,        \* bound: power failures and other faults in one behaviour
    MaxRound, MaxOutput, MaxFaults, MaxCrashes, MaxPower    \* bounds

ASSUME PorAssumption ==
    /\ Paths \subseteq {"wave", "checkpoint", "epoch"} /\ Mixed \in BOOLEAN
    /\ {MaxRound, MaxOutput, MaxFaults, MaxCrashes, MaxPower} \subseteq Nat
    /\ Delay \in Nat \ {0}
    /\ \A r \in 1 .. MaxRound : SourceWave[r] \in Nat /\ SourceAt[r] > SourceWave[r]

VARIABLES
    seen,       \* contents of the files of the por directory
    kept,       \* contents each of them may have after a power failure
    files,      \* block files of the history
    firm,       \* those a power failure cannot undo
    pc,         \* where the process is
    renamed,    \* the write at pc is visible and not yet synced
    path,       \* commit path the process is configured with
    state,      \* committed reputation state
    activated,  \* last recorded activation
    bonds,      \* weights of the ingress
    record,     \* epoch_record of the runtime
    installed,  \* future_epoch of the ingress
    job,        \* round being committed, with its epoch record
    then,       \* what follows the activation in progress
    lace,       \* output the mirrored blocks give
    output,     \* output published
    error,      \* last error
    acked,      \* state the runtime last served
    faults, crashes, powers

disk == <<seen, kept, files, firm>>
memory == <<path, state, activated, bonds, record, installed, job, then, lace, output>>
ghosts == <<error, acked, faults, crashes, powers>>
vars == <<disk, pc, renamed, memory, ghosts>>

File == {"snapshot", "marker", "epoch", "status"}
Chain == UNION {[1 .. n -> Outcome] : n \in 0 .. MaxRound}
Weight == {Genesis} \cup {Projection[o] : o \in Outcome}

\* The state before the last round of c.
previous(c) == SubSeq(c, 1, Len(c) - 1)

\* The state c is p or of a later round after p.
extends(c, p) == Len(p) <= Len(c) /\ SubSeq(c, 1, Len(p)) = p

\* authorized_validator_weights of the committed state c.
WeightsOf(c) == IF c = <<>> THEN Genesis ELSE Projection[c[Len(c)]]

Record == [chain : Chain, old : Weight, sealed : 0 .. MaxOutput]
Status == [active : Chain, len : 0 .. MaxOutput]

Opening == {"init", "history", "reconcile", "epoch", "discard", "weights"}
Serving == {"idle", "publish", "retry", "check", "rounds", "status", "propose",
            "commit", "append", "activate"}
Renames == {"init", "discard", "activate", "propose", "commit", "status"}
Links == {"reconcile", "append"}

(***************************************************************************)
(* The activation reported as active: of the installed epoch, otherwise of *)
(* the activation record.                                                  *)
(***************************************************************************)
active == IF installed # {} THEN {e.chain : e \in installed} ELSE activated
reported == {[active |-> c, len |-> output] : c \in active}

\* finalized_prefix_checkpoint finds the source of the committed round.
committed_checkpoint_ready(n) ==
    path = "wave" \/ state = <<>> \/ n >= SourceAt[Len(state)]

\* checked_por_weights: the order under the weights of state c keeps what is
\* published, and the source of c is published.
checked_por_weights(c) ==
    /\ <<WeightsOf(c), output>> \notin Refused
    /\ IF path = "wave" THEN output >= Len(c) ELSE output >= SourceAt[Len(c)]

tip == CHOOSE f \in files : \A g \in files : Len(g) <= Len(f)

(***************************************************************************)
(* recover_history and reconcile_state_tip accept consecutive blocks that  *)
(* end with the block of the snapshot or with its predecessor.             *)
(***************************************************************************)
reconciles ==
    \/ files = {}
    \/ /\ \A f, g \in files : Len(f) < Len(g) => previous(g) \in files
       /\ state # <<>>
       /\ tip = state \/ tip = previous(state)

EpochBoundary(r) == SourceWave[r] + Delay

\* The activation record m is of the block the committed state ends with.
matches_state_checkpoint(m) == m = state

\* The record m is of an earlier round, or of this very state.
validate_activation_record(m) == Len(m) < Len(state) \/ matches_state_checkpoint(m)

\* The epoch record e is of the committed state.
verify_epoch_state(e) == e.chain = state

\* The committed state has no activation record.
has_unactivated_committed_round == ~ \E m \in activated : matches_state_checkpoint(m)

(***************************************************************************)
(* The errors the step at pc may return.  Each ends the runner.            *)
(***************************************************************************)
errors ==
    {r \in {"io", "History", "Activation", "FutureEpochStateMismatch",
            "MissingActivatedWeights", "OldWeights", "EpochReplay", "refused",
            "unsafe", "lost", "regressed", "differs", "late", "ConflictingRecord"} :
        CASE r = "io" -> pc \in Renames \cup Links /\ faults < MaxFaults /\ (Mixed \/ powers = 0)
          [] r = "History" -> pc = "history" /\ ~ reconciles
          [] r = "Activation" ->
                pc = "epoch" /\ \E m \in seen["marker"] : ~ validate_activation_record(m)
          [] r = "FutureEpochStateMismatch" ->
                pc = "epoch" /\ \E e \in seen["epoch"] :
                    ~ verify_epoch_state(e) /\ Len(e.chain) # Len(state) + 1
          [] r = "MissingActivatedWeights" ->
                pc = "weights" /\ activated = {} /\ (state # <<>> \/ record # {})
          [] r = "OldWeights" ->
                pc = "publish" /\ installed = {} /\ \E e \in record : bonds # e.old
          [] r = "EpochReplay" ->
                pc = "publish" /\ \E e \in record : lace < e.sealed
          [] r = "refused" -> pc = "retry" /\ ~ checked_por_weights(state)
          [] r = "unsafe" ->
                /\ pc = "rounds" /\ path = "wave" /\ output = Len(state) + 1
                /\ \E o \in Outcome : ~ checked_por_weights(Append(state, o))
          [] r = "lost" -> pc = "check" /\ \E s \in seen["status"] : output < s.len
          [] r = "regressed" ->
                pc = "check" /\ \E s \in seen["status"], c \in active : Len(c) < Len(s.active)
          [] r = "differs" ->
                pc = "check" /\ \E s \in seen["status"], c \in active :
                    Len(c) = Len(s.active) /\ c # s.active
          [] r = "late" ->
                /\ pc = "rounds" /\ path = "epoch" /\ installed = {} /\ Len(state) < MaxRound
                /\ output > EpochBoundary(Len(state) + 1)
          [] r = "ConflictingRecord" ->
                pc = "propose" /\ ~ renamed /\ \E j \in job : ~ seen["epoch"] \subseteq j.epoch}

\* A write may fail, and the ratings of a round may be complete or not; any
\* other error that is possible is certain.
sound == errors \subseteq {"io", "unsafe", "late"}

Init ==
    /\ seen = [f \in File |-> {}] /\ kept = [f \in File |-> {{}}]
    /\ files = {} /\ firm = {}
    /\ pc = "down" /\ renamed = FALSE /\ path \in Paths
    /\ state = <<>> /\ activated = {} /\ bonds = Stake
    /\ record = {} /\ installed = {} /\ job = {} /\ then = "idle"
    /\ lace = 0 /\ output = 0
    /\ error = {} /\ acked = <<>> /\ faults = 0 /\ crashes = 0 /\ powers = 0

(***************************************************************************)
(* The process ends: everything but the files is lost, and the next one    *)
(* may be configured with another path; a data directory of the wave path  *)
(* is not used with the others.                                            *)
(***************************************************************************)
halt ==
    /\ pc' = "down" /\ renamed' = FALSE /\ path' \in {p \in Paths : p = "wave" <=> path = "wave"}
    /\ state' = <<>> /\ activated' = {} /\ bonds' = Stake
    /\ record' = {} /\ installed' = {} /\ job' = {} /\ then' = "idle"
    /\ lace' = 0 /\ output' = 0

\* File::open(&self.directory)?.sync_all() on the por directory.
sync_all == kept' = [f \in File |-> {seen[f]}]

goto(l) == pc' = l /\ renamed' = FALSE
done(l) == pc = l /\ renamed

\* PorStateStore::open and restore.
open_state ==
    /\ pc = "down"
    /\ IF seen["snapshot"] = {}
       THEN pc' = "init" /\ UNCHANGED state
       ELSE pc' = "history" /\ \E c \in seen["snapshot"] : state' = c
    /\ UNCHANGED <<disk, renamed, path, activated, bonds, record, installed, job, then, lace,
                   output, ghosts>>

(***************************************************************************)
(* The contents a write leaves: the initial state, no epoch record, the    *)
(* activation of the committed state, the records of a commit, the status. *)
(***************************************************************************)
written ==
    CASE pc = "init" -> [file |-> "snapshot", to |-> {<<>>}]
      [] pc = "discard" -> [file |-> "epoch", to |-> {}]
      [] pc = "activate" -> [file |-> "marker", to |-> {state}]
      [] pc = "propose" -> [file |-> "epoch", to |-> UNION {j.epoch : j \in job}]
      [] pc = "commit" -> [file |-> "snapshot", to |-> {j.chain : j \in job}]
      [] pc = "status" -> [file |-> "status", to |-> reported]

\* fs::rename, or fs::remove_file of a discarded epoch record.
rename ==
    /\ pc \in Renames /\ ~ renamed /\ sound
    /\ seen' = [seen EXCEPT ![written.file] = written.to]
    /\ kept' = [kept EXCEPT ![written.file] = @ \cup {written.to}]
    /\ renamed' = TRUE
    /\ UNCHANGED <<files, firm, pc, memory, ghosts>>

\* commit_block_file up to the removal of the temporary name.
hard_link ==
    /\ pc \in Links /\ ~ renamed
    /\ files' = files \cup (IF pc = "reconcile" THEN {state} ELSE {j.chain : j \in job})
    /\ renamed' = TRUE
    /\ UNCHANGED <<seen, kept, firm, pc, memory, ghosts>>

\* DurablePorState::open has persisted the initial state.
initialized ==
    /\ done("init") /\ sync_all /\ goto("history")
    /\ UNCHANGED <<seen, files, firm, memory, ghosts>>

\* Mutant of open_history: a history one block behind is left as it is.
open_history_unreconciled ==
    /\ pc = "history" /\ sound
    /\ sync_all
    /\ goto("epoch")
    /\ UNCHANGED <<seen, files, firm, memory, ghosts>>

\* PorReputationBlockHistory::open, and the comparison of the tips.
open_history ==
    /\ pc = "history" /\ sound
    /\ sync_all
    /\ goto(IF state = <<>> \/ state \in files THEN "epoch" ELSE "reconcile")
    /\ UNCHANGED <<seen, files, firm, memory, ghosts>>

\* reconcile_state_tip has appended the block of the snapshot.
reconciled ==
    /\ done("reconcile") /\ firm' = files /\ goto("epoch")
    /\ UNCHANGED <<seen, kept, files, memory, ghosts>>

\* Mutant of open_epoch: a proposal whose round did not commit is ignored.
open_epoch_undiscarded ==
    /\ pc = "epoch" /\ sound
    /\ activated' = seen["marker"]
    /\ record' = {e \in seen["epoch"] : e.chain = state}
    /\ goto("weights")
    /\ UNCHANGED <<disk, path, state, bonds, installed, job, then, lace, output, ghosts>>

(***************************************************************************)
(* The activation record is read and validated, then the epoch record: a   *)
(* proposal whose round did not commit is discarded.                       *)
(***************************************************************************)
open_epoch ==
    /\ pc = "epoch" /\ sound
    /\ activated' = seen["marker"]
    /\ IF \E e \in seen["epoch"] : Len(e.chain) = Len(state) + 1
       THEN goto("discard") /\ UNCHANGED record
       ELSE goto("weights") /\ record' = seen["epoch"]
    /\ UNCHANGED <<disk, path, state, bonds, installed, job, then, lace, output, ghosts>>

discarded ==
    /\ done("discard") /\ sync_all /\ goto("weights")
    /\ UNCHANGED <<seen, files, firm, memory, ghosts>>

\* The weights of a record replace those of the bonds file unchecked: they
\* were checked before the record was written.
restore_activated_por_weights(m) == bonds' = WeightsOf(m)

\* The weights of the activation record, if there is one.
restore_activated_weights == \E m \in activated : restore_activated_por_weights(m)

(***************************************************************************)
(* restore_activated_weights and the end of PorRuntime::open.  Nothing is  *)
(* mirrored yet, so a committed round waits for its source; only a data    *)
(* directory without a record activates, the weights of round 0.           *)
(***************************************************************************)
open_weights ==
    /\ pc = "weights" /\ sound
    /\ \/ restore_activated_weights /\ goto("idle")
       \/ activated = {} /\ bonds' = WeightsOf(state) /\ goto("activate")
    /\ then' = "idle"
    /\ acked' = state
    /\ UNCHANGED <<disk, path, state, activated, record, installed, job, lace, output,
                   error, faults, crashes, powers>>

\* Mutant of activation_recorded: the directory of the record is not synced.
activation_unsynced ==
    /\ done("activate") /\ goto(then)
    /\ activated' = {state}
    /\ UNCHANGED <<disk, path, state, bonds, record, installed, job, then, lace, output, ghosts>>

\* activate_weights has persisted the record.
activation_recorded ==
    /\ done("activate") /\ sync_all /\ goto(then)
    /\ activated' = {state}
    /\ UNCHANGED <<seen, files, firm, path, state, bonds, record, installed, job, then, lace,
                   output, ghosts>>

\* The runner replays the heights up to the head the host node reports.
poll(n) ==
    /\ pc = "idle"
    /\ lace' = n
    /\ goto("publish")
    /\ UNCHANGED <<disk, path, state, activated, bonds, record, installed, job, then, output,
                   ghosts>>

\* Mutant of publish: the output is published before the epoch is installed.
publish_before_epoch ==
    /\ pc = "publish" /\ sound
    /\ output' = lace
    /\ goto(IF committed_checkpoint_ready(lace) THEN "check" ELSE "idle")
    /\ UNCHANGED <<disk, path, state, activated, bonds, record, installed, job, then, lace,
                   ghosts>>

(***************************************************************************)
(* publish_finalized_output: a committed epoch is installed first.  While  *)
(* the source of the committed round is not replayed the runner polls      *)
(* again.                                                                  *)
(***************************************************************************)
publish ==
    /\ pc = "publish" /\ sound
    /\ installed' = record
    /\ bonds' = IF record = {} THEN bonds ELSE WeightsOf(state)
    /\ output' = lace
    /\ goto(CASE ~ committed_checkpoint_ready(lace) -> "idle"
              [] record = {} /\ has_unactivated_committed_round -> "retry"
              [] OTHER -> "check")
    /\ UNCHANGED <<disk, path, state, activated, record, job, then, lace, ghosts>>

\* Mutant of retry_weight_activation: a pending round is left pending.
retry_skipped ==
    /\ pc = "retry" /\ sound
    /\ goto("check")
    /\ UNCHANGED <<disk, memory, ghosts>>

\* retry_weight_activation, up to the write of the record.
retry_weight_activation ==
    /\ pc = "retry" /\ sound
    /\ bonds' = WeightsOf(state)
    /\ goto("activate") /\ then' = "check"
    /\ UNCHANGED <<disk, path, state, activated, record, installed, job, lace, output, ghosts>>

\* validate_recovered against the published status.
validate_recovered ==
    /\ pc = "check" /\ sound
    /\ goto("rounds")
    /\ UNCHANGED <<disk, memory, ghosts>>

\* No round is complete, or its commit is deferred.
no_commit ==
    /\ pc = "rounds"
    /\ goto("status")
    /\ UNCHANGED <<disk, memory, ghosts>>

begin_commit(c, epoch) ==
    /\ job' = {[chain |-> c, epoch |-> epoch]}
    /\ goto(IF epoch = {} THEN "commit" ELSE "propose")
    /\ UNCHANGED <<disk, path, state, activated, bonds, record, installed, then, lace, output,
                   ghosts>>

\* commit_completed_round: the source is the latest finalized wave.
commit_completed_round(o) ==
    /\ pc = "rounds" /\ path = "wave" /\ Len(state) < MaxRound
    /\ output = Len(state) + 1
    /\ checked_por_weights(Append(state, o))
    /\ begin_commit(Append(state, o), {})

\* A projection that would rewrite the output defers the commit.
commit_completed_checkpoint_round(o) ==
    /\ pc = "rounds" /\ path = "checkpoint" /\ Len(state) < MaxRound
    /\ installed = {}
    /\ checked_por_weights(Append(state, o))
    /\ begin_commit(Append(state, o), {})

(***************************************************************************)
(* The whole publication becomes the sealed prefix; the final leader must  *)
(* be of the wave before the cutover.                                      *)
(***************************************************************************)
commit_completed_checkpoint_round_with_epoch(o) ==
    /\ pc = "rounds" /\ path = "epoch" /\ Len(state) < MaxRound
    /\ installed = {}
    /\ output >= SourceAt[Len(state) + 1]
    /\ output = EpochBoundary(Len(state) + 1)
    /\ begin_commit(Append(state, o),
                    {[chain |-> Append(state, o), old |-> bonds, sealed |-> output]})

\* PorWeightEpochStore::persist has stored the proposal.
proposed ==
    /\ done("propose") /\ sync_all /\ goto("commit")
    /\ UNCHANGED <<seen, files, firm, memory, ghosts>>

\* commit_staged has persisted the snapshot.
snapshot_committed ==
    /\ done("commit") /\ sync_all /\ goto("append")
    /\ UNCHANGED <<seen, files, firm, memory, ghosts>>

(***************************************************************************)
(* commit_staged has appended the block.  The state is published; then the *)
(* weights are applied and recorded, or the epoch is installed.            *)
(***************************************************************************)
committed ==
    /\ done("append") /\ firm' = files
    /\ \E j \in job :
           /\ state' = j.chain /\ acked' = j.chain
           /\ bonds' = WeightsOf(j.chain)
           /\ record' = j.epoch /\ installed' = j.epoch
           /\ goto(IF j.epoch = {} THEN "activate" ELSE "status")
    /\ job' = {} /\ then' = "status"
    /\ UNCHANGED <<seen, kept, files, path, activated, lace, output, error, faults, crashes,
                   powers>>

\* write_status, and the sleep before the next poll.
status_written ==
    /\ done("status") /\ sync_all /\ goto("idle")
    /\ UNCHANGED <<seen, files, firm, memory, ghosts>>

\* The runner returns the error.
give_up ==
    \E e \in errors :
        /\ halt
        /\ error' = {e}
        /\ faults' = faults + (IF e = "io" THEN 1 ELSE 0)
        /\ UNCHANGED <<disk, acked, crashes, powers>>

\* The process is killed.
crash ==
    /\ pc # "down" /\ crashes < MaxCrashes /\ (Mixed \/ powers = 0)
    /\ halt
    /\ crashes' = crashes + 1
    /\ UNCHANGED <<disk, error, acked, faults, powers>>

(***************************************************************************)
(* A power failure keeps of every file one of its possible contents, and   *)
(* of the block files that were not synced an arbitrary part.              *)
(***************************************************************************)
power_failure ==
    /\ powers < MaxPower /\ (Mixed \/ faults + crashes = 0)
    /\ \E s \in kept["snapshot"], m \in kept["marker"], e \in kept["epoch"], t \in kept["status"] :
           seen' = [seen EXCEPT !["snapshot"] = s, !["marker"] = m, !["epoch"] = e, !["status"] = t]
    /\ kept' = [f \in File |-> {seen'[f]}]
    /\ \E lost \in SUBSET (files \ firm) : files' = files \ lost
    /\ firm' = files'
    /\ halt
    /\ powers' = powers + 1
    /\ UNCHANGED <<error, acked, faults, crashes>>

Process ==
    \/ open_state \/ rename \/ hard_link \/ initialized \/ open_history \/ reconciled
    \/ open_epoch \/ discarded \/ open_weights \/ activation_recorded
    \/ publish \/ retry_weight_activation \/ validate_recovered \/ no_commit
    \/ proposed \/ snapshot_committed \/ committed \/ status_written

Next ==
    \/ Process
    \/ \E n \in lace .. MaxOutput : poll(n)
    \/ \E o \in Outcome : commit_completed_round(o)
    \/ \E o \in Outcome : commit_completed_checkpoint_round(o)
    \/ \E o \in Outcome : commit_completed_checkpoint_round_with_epoch(o)
    \/ give_up \/ crash \/ power_failure

Spec == Init /\ [][Next]_vars

(***************************************************************************)
(* The process is restarted when it has ended, takes its steps and ends on *)
(* a certain error; the host node serves its whole chain again and again,  *)
(* though not always.                                                      *)
(***************************************************************************)
FairSpec ==
    /\ Spec /\ WF_vars(Process) /\ WF_vars(~ sound /\ give_up)
    /\ WF_vars(\E n \in lace .. MaxOutput : poll(n)) /\ SF_vars(poll(MaxOutput))

-------------------------------------------------------------------------------

\* The state has its types; what is installed is recorded, and the ingress
\* publishes no more than it has mirrored.
PorTypeOK ==
    /\ DOMAIN seen = File /\ \A f \in File : Cardinality(seen[f]) <= 1
    /\ seen["snapshot"] \cup seen["marker"] \subseteq Chain
    /\ seen["epoch"] \subseteq Record /\ seen["status"] \subseteq Status
    /\ \A f \in File : seen[f] \in kept[f]
    /\ firm \subseteq files /\ files \subseteq Chain
    /\ pc \in {"down"} \cup Opening \cup Serving /\ renamed \in BOOLEAN
    /\ path \in Paths /\ state \in Chain /\ activated \in {{}} \cup {{c} : c \in Chain}
    /\ bonds \in Weight \cup {Stake}
    /\ installed \subseteq record /\ record \in {{}} \cup {{e} : e \in Record}
    /\ lace \in 0 .. MaxOutput /\ output \in 0 .. lace
    /\ acked \in Chain /\ faults \in 0 .. MaxFaults

(***************************************************************************)
(* Whatever write was interrupted, the next start does not refuse the data *)
(* directory: DurablePorState::open reconciles the history and accepts the *)
(* activation record, PorRuntime::open discards or verifies the epoch      *)
(* record, and the first status is not a regression of the published one.  *)
(* The runner ends only because of a storage error, because the order it   *)
(* replays is still short, because new weights would rewrite what it has   *)
(* published, or because a proposal is late.                               *)
(***************************************************************************)
ReopenSucceeds ==
    PorTypeOK /\ error \subseteq {"io", "EpochReplay", "refused", "unsafe", "lost", "late"}

(***************************************************************************)
(* A round the runtime has committed or served is in the snapshot, and in  *)
(* the block history with every round before it, after any restart.        *)
(***************************************************************************)
CommittedRoundSurvives ==
    acked # <<>> =>
        /\ \E c \in seen["snapshot"] : extends(c, acked)
        /\ \A k \in 1 .. Len(acked) : SubSeq(acked, 1, k) \in files

(***************************************************************************)
(* The weights the runner publishes under are those a start from the files *)
(* would restore, whichever of their unsynced contents survive: the        *)
(* activation record has them or, with an installed epoch, the epoch       *)
(* record of the committed state, whose old weights the activation record  *)
(* has.                                                                    *)
(***************************************************************************)
WeightsAreRecorded ==
    pc \in {"idle", "publish", "check", "rounds", "status"} =>
        \A m \in kept["marker"], e \in kept["epoch"], s \in kept["snapshot"] :
            IF installed = {}
            THEN \A c \in m : bonds = WeightsOf(c)
            ELSE \E x \in e :
                     /\ s = {x.chain} /\ bonds = WeightsOf(x.chain)
                     /\ \E c \in m : x.old = WeightsOf(c)

(***************************************************************************)
(* Once an epoch has committed, nothing past its sealed prefix is          *)
(* published under the old weights, not even by the first poll after a     *)
(* restart (PorRuntime::open).                                             *)
(***************************************************************************)
EpochSealsOldWeights ==
    \A e \in seen["epoch"] :
        seen["snapshot"] = {e.chain} /\ output > e.sealed => bonds = WeightsOf(e.chain)

(***************************************************************************)
(* A committed round or a later one is active in the end, unless its       *)
(* weights are refused: an activation that an error, a kill or a power     *)
(* failure interrupted is retried after the replay.                        *)
(***************************************************************************)
CommittedEventuallyActive ==
    \A r \in 1 .. MaxRound :
        Len(acked) = r ~> (error = {"refused"} \/ \E c \in active : Len(c) >= r)

===============================================================================
