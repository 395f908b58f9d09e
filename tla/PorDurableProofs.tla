--------------------------- MODULE PorDurableProofs ---------------------------
(***************************************************************************)
(* Proofs, for every number of rounds, outcomes, outputs and faults, that  *)
(* the durable state of proof of reputation survives storage errors, kills *)
(* and power failures.                                                     *)
(***************************************************************************)
EXTENDS PorDurable, FiniteSetTheorems, TLAPS

-----------------------------------------------------------------------------
(***************************************************************************)
(* The inductive invariant, in the parts the proofs use one at a time.     *)
(***************************************************************************)
Opt(S) == {{}} \cup {{x} : x \in S}
Job == [chain : Chain, epoch : Opt(Record)]

Typed ==
    /\ seen = [f \in File |-> seen[f]] /\ kept = [f \in File |-> kept[f]]
    /\ \A f \in File : seen[f] \in kept[f]
    /\ kept["snapshot"] \subseteq Opt(Chain) /\ kept["marker"] \subseteq Opt(Chain)
    /\ kept["epoch"] \subseteq Opt(Record) /\ kept["status"] \subseteq Opt(Status)
    /\ firm \subseteq files /\ files \subseteq Chain
    /\ pc \in {"down"} \cup Opening \cup Serving /\ renamed \in BOOLEAN
    /\ renamed => pc \in Renames \cup Links
    /\ path \in Paths /\ state \in Chain /\ activated \in Opt(Chain)
    /\ bonds \in Weight \cup {Stake}
    /\ record \in Opt(Record) /\ installed \in {{}, record}
    /\ job \in Opt(Job) /\ then \in {"idle", "check", "status"}
    /\ lace \in 0 .. MaxOutput /\ output \in 0 .. lace
    /\ acked \in Chain /\ faults \in 0 .. MaxFaults

\* Contents of the four files that one start can find together.
Fits(s, m, e, t) ==
    /\ s = {} => m = {} /\ e = {} /\ t = {}
    /\ \A c \in s :
        /\ \A p \in m : extends(c, p)
        /\ m = {} => c = <<>> /\ e = {} /\ t = {}
        /\ \A x \in e : /\ x.chain # <<>>
                        /\ x.chain = c \/ previous(x.chain) = c
                        /\ \A p \in m : x.old = WeightsOf(p)
        /\ \A r \in t : extends(c, r.active)

\* Whatever survives, a start finds contents that fit and what was served.
Sturdy ==
    \A s \in kept["snapshot"], m \in kept["marker"], e \in kept["epoch"], t \in kept["status"] :
        /\ Fits(s, m, e, t)
        /\ path = "wave" => e = {}
        /\ acked # <<>> => \E c \in s : extends(c, acked)

\* The file that the step at pc writes.
target == CASE pc \in {"init", "commit"} -> "snapshot" [] pc = "activate" -> "marker"
            [] pc \in {"discard", "propose"} -> "epoch" [] pc = "status" -> "status"
            [] OTHER -> "none"

\* Once the history is open only the write in progress is not synced.
Settled ==
    pc \notin {"down", "init", "history"} =>
        \A f \in File : kept[f] = {seen[f]} \/ (renamed /\ f = target)

\* A process that has not restored its weights knows the snapshot at most.
Fresh ==
    /\ pc \in {"down", "init"} => state = <<>>
    /\ pc = "init" => seen["snapshot"] = IF renamed THEN {<<>>} ELSE {}
    /\ pc \in {"history", "reconcile", "epoch", "discard", "weights"} => seen["snapshot"] = {state}
    /\ pc \in {"down"} \cup Opening => job = {} /\ installed = {} /\ output = 0 /\ lace = 0
    /\ pc \in {"down"} \cup (Opening \ {"weights"}) => record = {}
    /\ pc \in {"discard", "weights"} => activated = seen["marker"]
    /\ pc = "discard" => IF renamed THEN seen["epoch"] = {}
                         ELSE \E e \in seen["epoch"] : previous(e.chain) = state
    /\ pc = "weights" => record = seen["epoch"] /\ \A e \in record : e.chain = state

\* Serving memory agrees with the files.
Working == {"idle", "publish", "retry", "check", "rounds", "status", "activate"}
Loaded ==
    /\ pc \in Working =>
        /\ seen["snapshot"] = {state} /\ job = {}
        /\ record = seen["epoch"] /\ \A e \in record : e.chain = state
    /\ pc \in Serving \ {"activate"} =>
        /\ activated = seen["marker"] /\ activated # {}
        /\ installed = {} => \A c \in activated : bonds = WeightsOf(c)
        /\ installed # {} => bonds = WeightsOf(state)
    /\ pc \in {"idle", "publish"} => installed = record \/ output = 0
    /\ pc \in {"check", "rounds", "status"} =>
        /\ installed = record
        /\ record = {} => activated = {state}
    /\ pc = "retry" => record = {} /\ installed = {}
    /\ pc = "activate" =>
        /\ record = {} /\ installed = {} /\ bonds = WeightsOf(state)
        /\ IF renamed THEN seen["marker"] = {state} ELSE activated = seen["marker"]
        /\ then = "idle" => state = <<>>

\* The round being committed follows the committed state.
Committing ==
    pc \in {"propose", "commit", "append"} =>
        /\ activated = {state} /\ record = {} /\ installed = {}
        /\ \E j \in job :
            /\ j.chain # <<>> /\ previous(j.chain) = state
            /\ \A x \in j.epoch : x.chain = j.chain /\ x.old = bonds /\ x.sealed = output
            /\ path = "wave" => j.epoch = {}
            /\ pc = "propose" => j.epoch # {} /\ seen["epoch"] = IF renamed THEN j.epoch ELSE {}
            /\ pc # "propose" => seen["epoch"] = j.epoch
            /\ seen["snapshot"] = IF pc = "append" \/ (pc = "commit" /\ renamed)
                                  THEN {j.chain} ELSE {state}

DurInv == Typed /\ Sturdy /\ Settled /\ Fresh /\ Loaded /\ Committing

(***************************************************************************)
(* The block history, when a power failure comes without other faults.     *)
(***************************************************************************)
Hist(c) == {SubSeq(c, 1, k) : k \in 1 .. Len(c)}

Counted ==
    /\ crashes \in Nat /\ powers \in Nat
    /\ powers = 0 \/ faults + crashes = 0

\* The history ends with the snapshot or one block before it.
Chained ==
    /\ seen["snapshot"] = {} => files = {}
    /\ \A c \in seen["snapshot"] : files = Hist(c) \/ (c # <<>> /\ files = Hist(previous(c)))

\* A reconciled history ends with the committed state.
Placed ==
    /\ pc = "reconcile" => state # <<>> /\ files = Hist(IF renamed THEN state ELSE previous(state))
    /\ pc \in {"epoch", "discard", "weights", "idle", "publish", "retry", "check", "rounds",
              "status", "propose", "commit", "activate"} => files = Hist(state)
    /\ pc = "append" /\ ~ renamed => files = Hist(state)
    /\ pc = "append" /\ renamed => \A j \in job : files = Hist(j.chain)
    /\ pc = "init" => {} \in kept["snapshot"]
    /\ pc = "commit" => kept["snapshot"] \subseteq {{state}, seen["snapshot"]}

\* Without errors and kills, at most the write in progress is not synced.
Firmed ==
    faults + crashes = 0 =>
        /\ ~ renamed => \A f \in File : kept[f] = {seen[f]}
        /\ IF pc \in Links /\ renamed
           THEN firm = Hist(IF pc = "reconcile" THEN previous(state) ELSE state)
           ELSE firm = files

\* The rounds served are in the history.
Backed ==
    /\ Hist(acked) \subseteq files
    /\ faults + crashes = 0 => Hist(acked) \subseteq firm

Recorded == Counted /\ Chained /\ Placed /\ Firmed /\ Backed

-----------------------------------------------------------------------------
(***************************************************************************)
(* States, that is, sequences of outcomes.                                 *)
(***************************************************************************)
\* A state is a sequence of at most MaxRound outcomes.
LEMMA ChainIsSeq ==
    /\ \A c \in Chain : c \in Seq(Outcome) /\ Len(c) \in 0 .. MaxRound
    /\ \A c \in Seq(Outcome) : Len(c) <= MaxRound => c \in Chain
    /\ <<>> \in Chain
<1>1. \A c \in Chain : c \in Seq(Outcome) /\ Len(c) \in 0 .. MaxRound
  <2> SUFFICES ASSUME NEW n \in 0 .. MaxRound, NEW c \in [1 .. n -> Outcome]
               PROVE  c \in Seq(Outcome) /\ Len(c) \in 0 .. MaxRound
    BY DEF Chain
  <2>1. n \in Nat
    BY PorAssumption
  <2>2. c \in Seq(Outcome) /\ Len(c) = n
    BY <2>1
  <2> QED
    BY <2>2
<1>2. ASSUME NEW c \in Seq(Outcome), Len(c) <= MaxRound PROVE c \in Chain
  <2>1. Len(c) \in 0 .. MaxRound /\ c \in [1 .. Len(c) -> Outcome]
    BY <1>2, PorAssumption
  <2> QED
    BY <2>1 DEF Chain
<1>3. <<>> \in Seq(Outcome) /\ Len(<<>>) <= MaxRound
  BY PorAssumption
<1> QED
  BY <1>1, <1>2, <1>3, Zenon

\* The first n outcomes of a state.
LEMMA PrefixSeq ==
    ASSUME NEW c \in Seq(Outcome), NEW n \in Nat, n <= Len(c)
    PROVE  /\ SubSeq(c, 1, n) \in Seq(Outcome) /\ Len(SubSeq(c, 1, n)) = n
           /\ \A i \in 1 .. n : SubSeq(c, 1, n)[i] = c[i]
<1>1. Len(c) \in Nat
  OBVIOUS
<1>2. SubSeq(c, 1, n) \in Seq(Outcome)
  BY <1>1
<1>3. Len(SubSeq(c, 1, n)) = n
  BY <1>1
<1>4. \A i \in 1 .. n : SubSeq(c, 1, n)[i] = c[i]
  BY <1>1
<1> QED
  BY <1>2, <1>3, <1>4

\* A prefix agrees up to its length.
LEMMA PrefixIs ==
    ASSUME NEW p \in Chain, NEW c \in Chain
    PROVE  extends(c, p) <=> Len(p) <= Len(c) /\ \A i \in 1 .. Len(p) : p[i] = c[i]
<1>1. p \in Seq(Outcome) /\ c \in Seq(Outcome) /\ Len(p) \in Nat /\ Len(c) \in Nat
  BY ChainIsSeq
<1>2. SubSeq(p, 1, Len(p)) = p
  BY <1>1
<1>3. ASSUME Len(p) <= Len(c)
      PROVE  /\ SubSeq(c, 1, Len(p)) \in Seq(Outcome) /\ Len(SubSeq(c, 1, Len(p))) = Len(p)
             /\ \A i \in 1 .. Len(p) : SubSeq(c, 1, Len(p))[i] = c[i]
  BY <1>1, <1>3
<1>4. ASSUME Len(p) <= Len(c), \A i \in 1 .. Len(p) : p[i] = c[i]
      PROVE  p = SubSeq(c, 1, Len(p))
  BY <1>1, <1>3, <1>4
<1> QED
  BY <1>1, <1>2, <1>3, <1>4 DEF extends

\* Prefixes of a state, and of the state of the next round.
LEMMA PrefixFacts ==
    ASSUME NEW c \in Chain
    PROVE  /\ extends(c, c) /\ extends(c, <<>>)
           /\ \A p \in Chain : extends(c, p) => Len(p) < Len(c) \/ p = c
           /\ \A p \in Chain : extends(<<>>, p) => p = <<>>
<1>1. c \in Seq(Outcome) /\ Len(c) \in Nat /\ <<>> \in Chain /\ Len(<<>>) = 0
  BY ChainIsSeq
<1>2. extends(c, c)
  BY <1>1, PrefixIs
<1>3. extends(c, <<>>)
  BY <1>1, PrefixIs
<1>4. ASSUME NEW p \in Chain, NEW q \in Chain, extends(q, p) PROVE Len(p) < Len(q) \/ p = q
  <2>1. p \in Seq(Outcome) /\ q \in Seq(Outcome) /\ Len(p) \in Nat /\ Len(q) \in Nat
    BY ChainIsSeq
  <2>2. Len(p) <= Len(q) /\ \A i \in 1 .. Len(p) : p[i] = q[i]
    BY <1>4, PrefixIs
  <2> QED
    BY <2>1, <2>2
<1>5. ASSUME NEW p \in Chain, extends(<<>>, p) PROVE p = <<>>
  <2>1. Len(p) < Len(<<>>) \/ p = <<>>
    BY <1>1, <1>4, <1>5
  <2>2. Len(p) \in Nat
    BY ChainIsSeq
  <2> QED
    BY <1>1, <2>1, <2>2
<1> QED
  BY <1>2, <1>3, <1>4, <1>5

\* The state of the next round extends the state before it.
LEMMA NextRound ==
    ASSUME NEW c \in Chain, c # <<>>
    PROVE  /\ previous(c) \in Chain /\ Len(c) = Len(previous(c)) + 1
           /\ \A p \in Chain : extends(previous(c), p) => extends(c, p)
<1>1. c \in Seq(Outcome) /\ Len(c) \in 1 .. MaxRound
  BY ChainIsSeq
<1>2. /\ previous(c) \in Seq(Outcome) /\ Len(previous(c)) = Len(c) - 1
      /\ \A i \in 1 .. Len(c) - 1 : previous(c)[i] = c[i]
  <2>1. Len(c) - 1 \in Nat /\ Len(c) - 1 <= Len(c)
    BY <1>1, PorAssumption
  <2> QED
    BY <1>1, <2>1, PrefixSeq, Zenon DEF previous
<1>3. previous(c) \in Chain
  BY <1>1, <1>2, ChainIsSeq, PorAssumption
<1>4. ASSUME NEW p \in Chain, extends(previous(c), p) PROVE extends(c, p)
  <2>1. Len(p) <= Len(previous(c)) /\ \A i \in 1 .. Len(p) : p[i] = previous(c)[i]
    BY <1>3, <1>4, PrefixIs
  <2>2. Len(p) \in Nat
    BY ChainIsSeq
  <2>3. Len(p) <= Len(c) /\ \A i \in 1 .. Len(p) : p[i] = c[i]
    BY <1>1, <1>2, <2>1, <2>2
  <2> QED
    BY <2>3, PrefixIs
<1> QED
  BY <1>1, <1>2, <1>3, <1>4

\* Appending an outcome gives a next round.
LEMMA AppendRound ==
    ASSUME NEW c \in Chain, Len(c) < MaxRound, NEW o \in Outcome
    PROVE  Append(c, o) \in Chain /\ Append(c, o) # <<>> /\ previous(Append(c, o)) = c
<1>1. c \in Seq(Outcome) /\ Len(c) \in Nat
  BY ChainIsSeq
<1>2. /\ Append(c, o) \in Seq(Outcome) /\ Len(Append(c, o)) = Len(c) + 1
      /\ \A i \in 1 .. Len(c) : Append(c, o)[i] = c[i]
  BY <1>1
<1>3. Append(c, o) \in Chain
  <2>1. Len(Append(c, o)) <= MaxRound
    BY <1>1, <1>2, PorAssumption
  <2> QED
    BY <1>2, <2>1, ChainIsSeq, Zenon
<1>4. previous(Append(c, o)) = c
  <2>1. previous(Append(c, o)) \in Seq(Outcome) /\ Len(previous(Append(c, o))) = Len(c)
        /\ \A i \in 1 .. Len(c) : previous(Append(c, o))[i] = c[i]
    BY <1>1, <1>2 DEF previous
  <2> QED
    BY <1>1, <2>1
<1> QED
  BY <1>2, <1>3, <1>4

\* Every state has weights.
LEMMA WeightsOfChain ==
    ASSUME NEW c \in Chain
    PROVE  WeightsOf(c) \in Weight
<1>1. c \in Seq(Outcome) /\ (c # <<>> => Len(c) \in 1 .. Len(c))
  BY ChainIsSeq
<1>2. c # <<>> => c[Len(c)] \in Outcome
  BY <1>1
<1> QED
  BY <1>2 DEF WeightsOf, Weight

-----------------------------------------------------------------------------
(***************************************************************************)
(* The invariant is kept, action by action.                                *)
(***************************************************************************)
\* A file, a record or a job is absent or the only one.
LEMMA OptIs ==
    ASSUME NEW S, NEW x \in Opt(S)
    PROVE  \A c \in x : x = {c} /\ c \in S
BY DEF Opt

\* Sets of at most one member.
LEMMA Singletons ==
    ASSUME Typed
    PROVE  /\ \A c \in seen["snapshot"] : seen["snapshot"] = {c} /\ c \in Chain
           /\ \A c \in seen["marker"] : seen["marker"] = {c} /\ c \in Chain
           /\ \A e \in seen["epoch"] : seen["epoch"] = {e} /\ e.chain \in Chain
           /\ \A e \in record : record = {e} /\ e.chain \in Chain
           /\ \A c \in activated : activated = {c} /\ c \in Chain
           /\ \A j \in job : /\ job = {j} /\ j = [chain |-> j.chain, epoch |-> j.epoch]
                             /\ j.chain \in Chain /\ j.epoch \in Opt(Record)
                             /\ \A x \in j.epoch : j.epoch = {x} /\ x \in Record
<1>1. /\ seen["snapshot"] \in Opt(Chain) /\ seen["marker"] \in Opt(Chain)
      /\ seen["epoch"] \in Opt(Record)
  BY DEF Typed, File
<1>2. record \in Opt(Record) /\ activated \in Opt(Chain) /\ job \in Opt(Job)
  BY DEF Typed
<1>3. \A e \in Record : e.chain \in Chain
  BY DEF Record
<1>4. \A j \in Job : /\ j = [chain |-> j.chain, epoch |-> j.epoch]
                     /\ j.chain \in Chain /\ j.epoch \in Opt(Record)
  BY DEF Job
<1>5. \A c \in seen["snapshot"] : seen["snapshot"] = {c} /\ c \in Chain
  BY <1>1, OptIs
<1>6. \A c \in seen["marker"] : seen["marker"] = {c} /\ c \in Chain
  BY <1>1, OptIs
<1>7. \A e \in seen["epoch"] : seen["epoch"] = {e} /\ e.chain \in Chain
  BY <1>1, <1>3, OptIs
<1>8. \A e \in record : record = {e} /\ e.chain \in Chain
  BY <1>2, <1>3, OptIs
<1>9. \A c \in activated : activated = {c} /\ c \in Chain
  BY <1>2, OptIs
<1>10. \A j \in job : job = {j} /\ j \in Job
  BY <1>2, OptIs
<1>11. \A j \in Job : \A x \in j.epoch : j.epoch = {x} /\ x \in Record
  BY <1>4, OptIs
<1> QED
  BY <1>4, <1>5, <1>6, <1>7, <1>8, <1>9, <1>10, <1>11

\* Contents that were possible before still fit what was served before.
LEMMA SturdyKept ==
    ASSUME Sturdy, \A f \in File : kept'[f] \subseteq kept[f],
           path' = "wave" <=> path = "wave", acked' = acked
    PROVE  Sturdy'
BY DEF Sturdy, File

\* The files a start finds fit.
LEMMA Found == DurInv => Fits(seen["snapshot"], seen["marker"], seen["epoch"], seen["status"])
BY DEF DurInv, Typed, Sturdy, File

\* When every file is synced, the snapshot may be served.
LEMMA SturdyServed ==
    ASSUME DurInv, \A f \in File : kept'[f] = {seen[f]}, path' = path,
           acked' \in Chain, seen["snapshot"] = {acked'}
    PROVE  Sturdy'
<1>1. extends(acked', acked')
  BY PrefixFacts
<1>2. path = "wave" => seen["epoch"] = {}
  BY DEF DurInv, Typed, Sturdy, File
<1> SUFFICES ASSUME NEW s \in kept'["snapshot"], NEW m \in kept'["marker"],
                    NEW e \in kept'["epoch"], NEW t \in kept'["status"]
             PROVE  /\ Fits(s, m, e, t)
                    /\ path' = "wave" => e = {}
                    /\ acked' # <<>> => \E c \in s : extends(c, acked')
  BY DEF Sturdy
<1>3. s = seen["snapshot"] /\ m = seen["marker"] /\ e = seen["epoch"] /\ t = seen["status"]
  BY DEF File
<1>4. Fits(s, m, e, t)
  BY <1>3, Found
<1> QED
  BY <1>1, <1>2, <1>3, <1>4

\* PorStateStore::open.
LEMMA open_state_keeps == DurInv /\ open_state => DurInv'
<1> SUFFICES ASSUME DurInv, open_state PROVE DurInv'
  OBVIOUS
<1> USE DEF DurInv
<1>1. Typed'
  BY DEF Typed, Opening, Serving, Renames, Links, File, Opt, open_state, disk, ghosts
<1>2. Sturdy'
  BY SturdyKept DEF Typed, File, open_state, disk, ghosts
<1>3. Settled'
  BY DEF Typed, Settled, target, File, Renames, Links, open_state, disk, ghosts
<1>4. Fresh'
  BY Singletons, Zenon DEF Typed, Fresh, Opening, Renames, Links, open_state, disk, ghosts
<1>5. Loaded'
  BY Zenon DEF Typed, Loaded, Fresh, Working, Serving, Renames, Links, open_state, disk, ghosts
<1>6. Committing'
  BY Zenon DEF Typed, Committing, Fresh, Loaded, open_state, disk, ghosts
<1> QED
  BY <1>1, <1>2, <1>3, <1>4, <1>5, <1>6

\* The block of the committed state.
LEMMA hard_link_keeps == DurInv /\ hard_link => DurInv'
<1> SUFFICES ASSUME DurInv, hard_link PROVE DurInv'
  OBVIOUS
<1> USE DEF DurInv
<1>1. Typed'
  <2>1. files' \subseteq Chain /\ firm' \subseteq files'
    BY Singletons DEF Typed, hard_link
  <2> QED
    BY <2>1 DEF Typed, Opening, Serving, Renames, Links, hard_link, memory, ghosts
<1>2. Sturdy'
  BY SturdyKept DEF Typed, File, hard_link, memory, ghosts
<1>3. Settled'
  BY DEF Typed, Settled, target, File, Renames, Links, hard_link, memory, ghosts
<1>4. Fresh'
  BY Zenon DEF Typed, Fresh, Opening, Renames, Links, hard_link, memory, ghosts
<1>5. Loaded'
  BY DEF Typed, Loaded, Fresh, Working, Serving, Renames, Links, hard_link, memory, ghosts
<1>6. Committing'
  <2>1. /\ pc = "append" \/ pc = "reconcile"
        /\ UNCHANGED <<pc, seen, activated, record, installed, state, job, bonds, output, path>>
    BY DEF hard_link, memory, Links
  <2> QED
    BY <2>1, Zenon DEF Committing
<1> QED
  BY <1>1, <1>2, <1>3, <1>4, <1>5, <1>6

\* The initial state is persisted.
LEMMA initialized_keeps == DurInv /\ initialized => DurInv'
<1> SUFFICES ASSUME DurInv, initialized PROVE DurInv'
  OBVIOUS
<1> USE DEF DurInv
<1>1. Typed'
  BY Zenon DEF Typed, Opening, Serving, Renames, Links, File, Opt, initialized, memory, ghosts,
         sync_all, done, goto
<1>2. Sturdy'
  BY SturdyKept DEF Typed, File, initialized, memory, ghosts, sync_all, done, goto
<1>3. Settled'
  BY DEF Typed, Settled, target, File, Renames, Links, initialized, memory, ghosts,
         sync_all, done, goto
<1>4. Fresh'
  BY Zenon DEF Typed, Fresh, Opening, Renames, Links, initialized, memory, ghosts, sync_all, done,
         goto
<1>5. Loaded'
  BY DEF Typed, Loaded, Fresh, Working, Serving, Renames, Links, initialized, memory,
         ghosts, sync_all, done, goto
<1>6. Committing'
  BY DEF Typed, Committing, Fresh, Loaded, initialized, memory, ghosts, sync_all, done, goto
<1> QED
  BY <1>1, <1>2, <1>3, <1>4, <1>5, <1>6

\* The history is open.
LEMMA open_history_keeps == DurInv /\ open_history => DurInv'
<1> SUFFICES ASSUME DurInv, open_history PROVE DurInv'
  OBVIOUS
<1> USE DEF DurInv
<1>1. Typed'
  BY Zenon DEF Typed, Opening, Serving, Renames, Links, File, Opt, open_history, memory, ghosts,
         sync_all, goto
<1>2. Sturdy'
  BY SturdyKept DEF Typed, File, open_history, memory, ghosts, sync_all, goto
<1>3. Settled'
  BY DEF Typed, Settled, target, File, Renames, Links, open_history, memory, ghosts,
         sync_all, goto
<1>4. Fresh'
  BY Zenon DEF Typed, Fresh, Opening, Renames, Links, open_history, memory, ghosts, sync_all, goto
<1>5. Loaded'
  BY DEF Typed, Loaded, Fresh, Working, Serving, Renames, Links, open_history, memory,
         ghosts, sync_all, goto
<1>6. Committing'
  BY DEF Typed, Committing, Fresh, Loaded, open_history, memory, ghosts, sync_all, goto
<1> QED
  BY <1>1, <1>2, <1>3, <1>4, <1>5, <1>6

\* The history is reconciled.
LEMMA reconciled_keeps == DurInv /\ reconciled => DurInv'
<1> SUFFICES ASSUME DurInv, reconciled PROVE DurInv'
  OBVIOUS
<1> USE DEF DurInv
<1>1. Typed'
  BY Zenon DEF Typed, Opening, Serving, Renames, Links, File, Opt, reconciled, memory, ghosts,
         done, goto
<1>2. Sturdy'
  BY SturdyKept DEF Typed, File, reconciled, memory, ghosts, done, goto
<1>3. Settled'
  BY DEF Typed, Settled, target, File, Renames, Links, reconciled, memory, ghosts, done,
         goto
<1>4. Fresh'
  BY DEF Typed, Fresh, Opening, Renames, Links, reconciled, memory, ghosts, done, goto
<1>5. Loaded'
  BY DEF Typed, Loaded, Fresh, Working, Serving, Renames, Links, reconciled, memory, ghosts,
         done, goto
<1>6. Committing'
  BY DEF Typed, Committing, Fresh, Loaded, reconciled, memory, ghosts, done, goto
<1> QED
  BY <1>1, <1>2, <1>3, <1>4, <1>5, <1>6

\* The discarded proposal is synced.
LEMMA discarded_keeps == DurInv /\ discarded => DurInv'
<1> SUFFICES ASSUME DurInv, discarded PROVE DurInv'
  OBVIOUS
<1> USE DEF DurInv
<1>1. Typed'
  BY Zenon DEF Typed, Opening, Serving, Renames, Links, File, Opt, discarded, memory, ghosts,
         sync_all, done, goto
<1>2. Sturdy'
  BY SturdyKept DEF Typed, File, discarded, memory, ghosts, sync_all, done, goto
<1>3. Settled'
  BY DEF Typed, Settled, target, File, Renames, Links, discarded, memory, ghosts, sync_all,
         done, goto
<1>4. Fresh'
  BY Zenon DEF Typed, Fresh, Opening, Renames, Links, discarded, memory, ghosts, sync_all, done,
         goto
<1>5. Loaded'
  BY DEF Typed, Loaded, Fresh, Working, Serving, Renames, Links, discarded, memory, ghosts,
         sync_all, done, goto
<1>6. Committing'
  BY DEF Typed, Committing, Fresh, Loaded, discarded, memory, ghosts, sync_all, done, goto
<1> QED
  BY <1>1, <1>2, <1>3, <1>4, <1>5, <1>6

\* The proposal is synced.
LEMMA proposed_keeps == DurInv /\ proposed => DurInv'
<1> SUFFICES ASSUME DurInv, proposed PROVE DurInv'
  OBVIOUS
<1> USE DEF DurInv
<1>1. Typed'
  BY Zenon DEF Typed, Opening, Serving, Renames, Links, File, Opt, proposed, memory, ghosts,
         sync_all, done, goto
<1>2. Sturdy'
  BY SturdyKept DEF Typed, File, proposed, memory, ghosts, sync_all, done, goto
<1>3. Settled'
  BY DEF Typed, Settled, target, File, Renames, Links, proposed, memory, ghosts, sync_all,
         done, goto
<1>4. Fresh'
  BY DEF Typed, Fresh, Opening, Renames, Links, proposed, memory, ghosts, sync_all, done,
         goto
<1>5. Loaded'
  BY DEF Typed, Loaded, Fresh, Working, Serving, Renames, Links, proposed, memory, ghosts,
         sync_all, done, goto
<1>6. Committing'
  BY DEF Typed, Committing, Fresh, Loaded, proposed, memory, ghosts, sync_all, done, goto
<1> QED
  BY <1>1, <1>2, <1>3, <1>4, <1>5, <1>6

\* The snapshot is synced.
LEMMA snapshot_committed_keeps == DurInv /\ snapshot_committed => DurInv'
<1> SUFFICES ASSUME DurInv, snapshot_committed PROVE DurInv'
  OBVIOUS
<1> USE DEF DurInv
<1>1. Typed'
  BY Zenon DEF Typed, Opening, Serving, Renames, Links, File, Opt, snapshot_committed, memory,
         ghosts, sync_all, done, goto
<1>2. Sturdy'
  BY SturdyKept DEF Typed, File, snapshot_committed, memory, ghosts, sync_all, done, goto
<1>3. Settled'
  BY DEF Typed, Settled, target, File, Renames, Links, snapshot_committed, memory, ghosts,
         sync_all, done, goto
<1>4. Fresh'
  BY DEF Typed, Fresh, Opening, Renames, Links, snapshot_committed, memory, ghosts,
         sync_all, done, goto
<1>5. Loaded'
  BY DEF Typed, Loaded, Fresh, Working, Serving, Renames, Links, snapshot_committed, memory,
         ghosts, sync_all, done, goto
<1>6. Committing'
  BY DEF Typed, Committing, Fresh, Loaded, snapshot_committed, memory, ghosts, sync_all,
         done, goto
<1> QED
  BY <1>1, <1>2, <1>3, <1>4, <1>5, <1>6

\* The status is synced.
LEMMA status_written_keeps == DurInv /\ status_written => DurInv'
<1> SUFFICES ASSUME DurInv, status_written PROVE DurInv'
  OBVIOUS
<1> USE DEF DurInv
<1>1. Typed'
  BY Zenon DEF Typed, Opening, Serving, Renames, Links, File, Opt, status_written, memory, ghosts,
         sync_all, done, goto
<1>2. Sturdy'
  BY SturdyKept DEF Typed, File, status_written, memory, ghosts, sync_all, done, goto
<1>3. Settled'
  BY DEF Typed, Settled, target, File, Renames, Links, status_written, memory, ghosts,
         sync_all, done, goto
<1>4. Fresh'
  BY DEF Typed, Fresh, Opening, Renames, Links, status_written, memory, ghosts, sync_all,
         done, goto
<1>5. Loaded'
  BY DEF Typed, Loaded, Fresh, Working, Serving, Renames, Links, status_written, memory,
         ghosts, sync_all, done, goto
<1>6. Committing'
  BY DEF Typed, Committing, Fresh, Loaded, status_written, memory, ghosts, sync_all, done,
         goto
<1> QED
  BY <1>1, <1>2, <1>3, <1>4, <1>5, <1>6

\* The records are read.
LEMMA open_epoch_keeps == DurInv /\ open_epoch => DurInv'
<1> SUFFICES ASSUME DurInv, open_epoch PROVE DurInv'
  OBVIOUS
<1> USE DEF DurInv
<1>1. Typed'
  <2>1. activated' \in Opt(Chain) /\ record' \in Opt(Record) /\ installed' \in {{}, record'}
    BY DEF Typed, File, Fresh, Opening, open_epoch, goto
  <2> QED
    BY <2>1, Zenon DEF Typed, Opening, Serving, open_epoch, disk, ghosts, goto
<1>2. Sturdy'
  BY SturdyKept DEF Typed, File, open_epoch, disk, ghosts, goto
<1>3. Settled'
  BY DEF Typed, Settled, target, File, Renames, Links, open_epoch, disk, ghosts, goto
<1>4. Fresh'
  <2>1. pc = "epoch" /\ seen["snapshot"] = {state} /\ state \in Chain
    BY DEF Typed, Fresh, open_epoch
  <2>2. \A e \in seen["epoch"] : /\ e.chain \in Chain /\ e.chain # <<>>
                                 /\ e.chain = state \/ previous(e.chain) = state
    BY <2>1, Found, Singletons DEF Fits
  <2>3. \A e \in seen["epoch"] :
            IF Len(e.chain) = Len(state) + 1 THEN previous(e.chain) = state ELSE e.chain = state
    <3> SUFFICES ASSUME NEW e \in seen["epoch"]
                 PROVE  IF Len(e.chain) = Len(state) + 1 THEN previous(e.chain) = state
                        ELSE e.chain = state
      OBVIOUS
    <3>1. Len(e.chain) = Len(previous(e.chain)) + 1 /\ Len(state) \in Nat
      BY <2>1, <2>2, NextRound, ChainIsSeq
    <3> QED
      BY <2>2, <3>1
  <2>4. /\ activated' = seen'["marker"] /\ seen'["snapshot"] = {state'} /\ ~ renamed'
        /\ job' = {} /\ installed' = {} /\ output' = 0 /\ lace' = 0
    BY <2>1 DEF Fresh, Opening, open_epoch, disk, goto
  <2>5. CASE \E e \in seen["epoch"] : Len(e.chain) = Len(state) + 1
    <3>1. pc' = "discard" /\ record' = {} /\ seen' = seen /\ state' = state
      BY <2>1, <2>5 DEF Fresh, Opening, open_epoch, disk, goto
    <3> QED
      BY <2>3, <2>4, <2>5, <3>1 DEF Fresh, Opening
  <2>6. CASE ~ \E e \in seen["epoch"] : Len(e.chain) = Len(state) + 1
    <3>1. pc' = "weights" /\ record' = seen["epoch"] /\ seen' = seen /\ state' = state
      BY <2>6 DEF open_epoch, disk, goto
    <3> QED
      BY <2>3, <2>4, <2>6, <3>1 DEF Fresh, Opening
  <2> QED
    BY <2>5, <2>6
<1>5. Loaded'
  BY Zenon DEF Typed, Loaded, Fresh, Working, Serving, Renames, Links, open_epoch, disk, ghosts,
         goto
<1>6. Committing'
  BY Zenon DEF Typed, Committing, Fresh, Loaded, open_epoch, disk, ghosts, goto
<1> QED
  BY <1>1, <1>2, <1>3, <1>4, <1>5, <1>6

\* The recorded weights are restored.
LEMMA open_weights_keeps == DurInv /\ open_weights => DurInv'
<1> SUFFICES ASSUME DurInv, open_weights PROVE DurInv'
  OBVIOUS
<1> USE DEF DurInv
<1>1. Typed'
  <2>1. bonds' \in Weight
    BY Singletons, WeightsOfChain
       DEF Typed, open_weights, restore_activated_weights, restore_activated_por_weights
  <2> QED
    BY <2>1, Zenon DEF Typed, Opening, Serving, open_weights, disk, goto
<1>2. Sturdy'
  <2>1. \A f \in File : kept'[f] = {seen[f]}
    BY DEF Typed, Settled, Renames, Links, open_weights, disk
  <2>2. seen["snapshot"] = {state} /\ state \in Chain /\ acked' = state /\ path' = path
    BY DEF Typed, Fresh, open_weights
  <2> QED
    BY <2>1, <2>2, SturdyServed
<1>3. Settled'
  BY DEF Typed, Settled, target, File, Renames, Links, open_weights, disk, ghosts, goto,
         restore_activated_weights, restore_activated_por_weights
<1>4. Fresh'
  BY DEF Typed, Fresh, Opening, Renames, Links, open_weights, disk, ghosts, goto,
         restore_activated_weights, restore_activated_por_weights
<1>5. Loaded'
  <2>1. /\ pc = "weights" /\ seen' = seen /\ state' = state /\ activated' = activated
        /\ record' = record /\ installed' = installed /\ job' = job /\ output' = output
        /\ ~ renamed' /\ then' = "idle"
    BY DEF open_weights, disk, goto
  <2>2. /\ seen["snapshot"] = {state} /\ activated = seen["marker"]
        /\ record = seen["epoch"] /\ \A e \in record : e.chain = state
        /\ job = {} /\ installed = {} /\ output = 0
    BY <2>1 DEF Fresh, Opening
  <2>3. activated = {} => state = <<>> /\ record = {}
    BY <2>2, Found DEF Fits
  <2>4. CASE restore_activated_weights /\ goto("idle")
    <3>1. pc' = "idle" /\ activated # {} /\ \A c \in activated : bonds' = WeightsOf(c)
      BY <2>4, Singletons DEF restore_activated_weights, restore_activated_por_weights, goto
    <3> QED
      BY <2>1, <2>2, <3>1 DEF Loaded, Working, Serving
  <2>5. CASE activated = {} /\ bonds' = WeightsOf(state) /\ goto("activate")
    <3>1. pc' = "activate"
      BY <2>5 DEF goto
    <3> QED
      BY <2>1, <2>2, <2>3, <2>5, <3>1 DEF Loaded, Working, Serving
  <2> QED
    BY <2>4, <2>5 DEF open_weights
<1>6. Committing'
  BY Zenon DEF Typed, Committing, Fresh, Loaded, open_weights, disk, ghosts, goto,
         restore_activated_weights, restore_activated_por_weights
<1> QED
  BY <1>1, <1>2, <1>3, <1>4, <1>5, <1>6

\* The activation is recorded.
LEMMA activation_recorded_keeps == DurInv /\ activation_recorded => DurInv'
<1> SUFFICES ASSUME DurInv, activation_recorded PROVE DurInv'
  OBVIOUS
<1> USE DEF DurInv
<1>1. Typed'
  BY Zenon DEF Typed, Opening, Serving, Renames, Links, File, Opt, activation_recorded, ghosts,
         sync_all, done, goto
<1>2. Sturdy'
  BY SturdyKept DEF Typed, File, activation_recorded, ghosts, sync_all, done, goto
<1>3. Settled'
  BY DEF Typed, Settled, target, File, Renames, Links, activation_recorded, ghosts,
         sync_all, done, goto
<1>4. Fresh'
  BY DEF Typed, Fresh, Opening, Renames, Links, activation_recorded, ghosts, sync_all, done,
         goto
<1>5. Loaded'
  BY Zenon DEF Typed, Loaded, Fresh, Working, Serving, Renames, Links, activation_recorded,
         ghosts, sync_all, done, goto
<1>6. Committing'
  BY Zenon DEF Typed, Committing, Fresh, Loaded, activation_recorded, ghosts, sync_all, done, goto
<1> QED
  BY <1>1, <1>2, <1>3, <1>4, <1>5, <1>6

\* The order is published.
LEMMA publish_keeps == DurInv /\ publish => DurInv'
<1> SUFFICES ASSUME DurInv, publish PROVE DurInv'
  OBVIOUS
<1> USE DEF DurInv
<1>1. Typed'
  <2>1. bonds' \in Weight \cup {Stake} /\ output' \in 0 .. lace'
    BY WeightsOfChain DEF Typed, publish
  <2>2. pc' \in Serving /\ ~ renamed'
    BY DEF publish, goto, Serving
  <2>3. record' \in Opt(Record) /\ installed' \in {{}, record'}
    BY DEF Typed, publish
  <2>4. renamed' \in BOOLEAN
    BY Zenon DEF publish, goto
  <2> QED
    BY <2>1, <2>2, <2>3, <2>4 DEF Typed, publish, disk, ghosts
<1>2. Sturdy'
  BY SturdyKept DEF Typed, File, publish, disk, ghosts, goto
<1>3. Settled'
  BY DEF Typed, Settled, target, File, Renames, Links, publish, disk, ghosts, goto
<1>4. Fresh'
  BY DEF Typed, Fresh, Opening, Renames, Links, publish, disk, ghosts, goto
<1>5. Loaded'
  <2>1. /\ pc = "publish" /\ seen' = seen /\ state' = state /\ activated' = activated
        /\ record' = record /\ installed' = record /\ job' = job
        /\ bonds' = IF record = {} THEN bonds ELSE WeightsOf(state)
    BY DEF publish, disk
  <2>2. /\ seen["snapshot"] = {state} /\ job = {}
        /\ record = seen["epoch"] /\ \A e \in record : e.chain = state
        /\ activated = seen["marker"] /\ activated # {}
        /\ installed = {} => \A c \in activated : bonds = WeightsOf(c)
    BY <2>1 DEF Loaded, Working, Serving
  <2>3. record = {} => installed = {}
    BY DEF Typed
  <2>4. \/ pc' = "idle"
        \/ pc' = "retry" /\ record = {}
        \/ pc' = "check" /\ (record = {} => state \in activated)
    BY DEF publish, goto, has_unactivated_committed_round, matches_state_checkpoint
  <2>5. state \in activated => activated = {state}
    BY Singletons
  <2> QED
    BY <2>1, <2>2, <2>3, <2>4, <2>5, Zenon DEF Loaded, Working, Serving
<1>6. Committing'
  BY DEF Typed, Committing, Fresh, Loaded, publish, disk, ghosts, goto
<1> QED
  BY <1>1, <1>2, <1>3, <1>4, <1>5, <1>6

\* A pending activation is retried.
LEMMA retry_weight_activation_keeps == DurInv /\ retry_weight_activation => DurInv'
<1> SUFFICES ASSUME DurInv, retry_weight_activation PROVE DurInv'
  OBVIOUS
<1> USE DEF DurInv
<1>1. Typed'
  <2>1. bonds' \in Weight
    BY WeightsOfChain DEF Typed, retry_weight_activation
  <2> QED
    BY <2>1, Zenon DEF Typed, Opening, Serving, retry_weight_activation, disk, ghosts, goto
<1>2. Sturdy'
  BY SturdyKept DEF Typed, File, retry_weight_activation, disk, ghosts, goto
<1>3. Settled'
  BY DEF Typed, Settled, target, File, Renames, Links, retry_weight_activation, disk,
         ghosts, goto
<1>4. Fresh'
  BY DEF Typed, Fresh, Opening, Renames, Links, retry_weight_activation, disk, ghosts, goto
<1>5. Loaded'
  BY DEF Typed, Loaded, Fresh, Working, Serving, Renames, Links, retry_weight_activation,
         disk, ghosts, goto
<1>6. Committing'
  BY Zenon DEF Typed, Committing, Fresh, Loaded, retry_weight_activation, disk, ghosts, goto
<1> QED
  BY <1>1, <1>2, <1>3, <1>4, <1>5, <1>6

\* The status is validated.
LEMMA validate_recovered_keeps == DurInv /\ validate_recovered => DurInv'
<1> SUFFICES ASSUME DurInv, validate_recovered PROVE DurInv'
  OBVIOUS
<1> USE DEF DurInv
<1>1. Typed'
  BY Zenon DEF Typed, Opening, Serving, Renames, Links, File, Opt, validate_recovered, disk,
         memory, ghosts, goto
<1>2. Sturdy'
  BY SturdyKept DEF Typed, File, validate_recovered, disk, memory, ghosts, goto
<1>3. Settled'
  BY DEF Typed, Settled, target, File, Renames, Links, validate_recovered, disk, memory,
         ghosts, goto
<1>4. Fresh'
  BY DEF Typed, Fresh, Opening, Renames, Links, validate_recovered, disk, memory, ghosts,
         goto
<1>5. Loaded'
  BY Zenon DEF Typed, Loaded, Fresh, Working, Serving, Renames, Links, validate_recovered, disk,
         memory, ghosts, goto
<1>6. Committing'
  BY DEF Typed, Committing, Fresh, Loaded, validate_recovered, disk, memory, ghosts, goto
<1> QED
  BY <1>1, <1>2, <1>3, <1>4, <1>5, <1>6

\* No round commits.
LEMMA no_commit_keeps == DurInv /\ no_commit => DurInv'
<1> SUFFICES ASSUME DurInv, no_commit PROVE DurInv'
  OBVIOUS
<1> USE DEF DurInv
<1>1. Typed'
  BY Zenon DEF Typed, Opening, Serving, Renames, Links, File, Opt, no_commit, disk, memory,
         ghosts, goto
<1>2. Sturdy'
  BY SturdyKept DEF Typed, File, no_commit, disk, memory, ghosts, goto
<1>3. Settled'
  BY DEF Typed, Settled, target, File, Renames, Links, no_commit, disk, memory, ghosts, goto
<1>4. Fresh'
  BY DEF Typed, Fresh, Opening, Renames, Links, no_commit, disk, memory, ghosts, goto
<1>5. Loaded'
  BY Zenon DEF Typed, Loaded, Fresh, Working, Serving, Renames, Links, no_commit, disk, memory,
         ghosts, goto
<1>6. Committing'
  BY Zenon DEF Typed, Committing, Fresh, Loaded, no_commit, disk, memory, ghosts, goto
<1> QED
  BY <1>1, <1>2, <1>3, <1>4, <1>5, <1>6

\* The host node is polled.
LEMMA poll_keeps == DurInv /\ (\E n \in lace .. MaxOutput : poll(n)) => DurInv'
<1> SUFFICES ASSUME DurInv, (\E n \in lace .. MaxOutput : poll(n)) PROVE DurInv'
  OBVIOUS
<1> USE DEF DurInv
<1>1. Typed'
  <2>1. lace' \in 0 .. MaxOutput /\ output' \in 0 .. lace'
    BY PorAssumption DEF Typed, poll
  <2>2. pc' \in Serving /\ ~ renamed'
    BY DEF poll, goto, Serving
  <2> QED
    BY <2>1, <2>2, Zenon DEF Typed, poll, disk, ghosts, goto
<1>2. Sturdy'
  BY SturdyKept DEF Typed, File, poll, disk, ghosts, goto
<1>3. Settled'
  BY DEF Typed, Settled, target, File, Renames, Links, poll, disk, ghosts, goto
<1>4. Fresh'
  BY DEF Typed, Fresh, Opening, Renames, Links, poll, disk, ghosts, goto
<1>5. Loaded'
  BY Zenon DEF Typed, Loaded, Fresh, Working, Serving, Renames, Links, poll, disk, ghosts, goto
<1>6. Committing'
  BY Zenon DEF Typed, Committing, Fresh, Loaded, poll, disk, ghosts, goto
<1> QED
  BY <1>1, <1>2, <1>3, <1>4, <1>5, <1>6

\* The round is committed.
LEMMA committed_keeps == DurInv /\ committed => DurInv'
<1> SUFFICES ASSUME DurInv, committed PROVE DurInv'
  OBVIOUS
<1> USE DEF DurInv
<1>i. PICK j \in job :
          /\ state' = j.chain /\ acked' = j.chain /\ bonds' = WeightsOf(j.chain)
          /\ record' = j.epoch /\ installed' = j.epoch
          /\ goto(IF j.epoch = {} THEN "activate" ELSE "status")
  BY DEF committed
<1>c. /\ pc' = (IF j.epoch = {} THEN "activate" ELSE "status") /\ renamed' = FALSE
      /\ state' = j.chain /\ acked' = j.chain /\ bonds' = WeightsOf(j.chain)
      /\ record' = j.epoch /\ installed' = j.epoch /\ job' = {} /\ then' = "status"
      /\ UNCHANGED <<seen, kept, files, path, activated, lace, output, faults>>
  BY <1>i DEF committed, goto
<1>j. /\ pc = "append" /\ j.chain \in Chain /\ j.epoch \in Opt(Record)
      /\ seen["snapshot"] = {j.chain} /\ seen["epoch"] = j.epoch
      /\ \A x \in j.epoch : x.chain = j.chain
  BY Singletons DEF Committing, committed, done
<1>1. Typed'
  <2>1. bonds' \in Weight
    BY <1>c, <1>j, WeightsOfChain
  <2>2. pc' \in Serving /\ renamed' = FALSE
    BY <1>c DEF Serving
  <2> QED
    BY <1>c, <1>j, <2>1, <2>2, Zenon DEF Typed, Opt, committed
<1>2. Sturdy'
  <2>1. \A f \in File : kept'[f] = {seen[f]}
    BY <1>j DEF Settled, File, target, committed
  <2> QED
    BY <1>c, <1>j, <2>1, SturdyServed, Zenon
<1>3. Settled'
  BY DEF Typed, Settled, target, File, Renames, Links, committed, sync_all, done, goto
<1>4. Fresh'
  BY DEF Typed, Fresh, Opening, Renames, Links, committed, sync_all, done, goto
<1>5. Loaded'
  <2>1. activated' = seen'["marker"] /\ activated' # {}
    BY <1>c, <1>j, Zenon DEF Loaded, Serving
  <2>2. CASE j.epoch = {}
    BY <1>c, <1>j, <2>1, <2>2, Zenon DEF Loaded, Working, Serving
  <2>3. CASE j.epoch # {}
    BY <1>c, <1>j, <2>1, <2>3, Zenon DEF Loaded, Working, Serving
  <2> QED
    BY <2>2, <2>3
<1>6. Committing'
  BY Zenon DEF Typed, Committing, Fresh, Loaded, committed, sync_all, done, goto
<1> QED
  BY <1>1, <1>2, <1>3, <1>4, <1>5, <1>6

\* The invariant when the commit of a round begins.
LEMMA begin_commit_keeps ==
    ASSUME DurInv, pc = "rounds", installed = {},
           NEW c \in Chain, c # <<>>, previous(c) = state,
           NEW epoch \in Opt(Record), path = "wave" => epoch = {},
           \A x \in epoch : x.chain = c /\ x.old = bonds /\ x.sealed = output,
           begin_commit(c, epoch)
    PROVE  DurInv'
<1> USE DEF DurInv
<1>b. /\ job' = {[chain |-> c, epoch |-> epoch]} /\ renamed' = FALSE
      /\ pc' = IF epoch = {} THEN "commit" ELSE "propose"
      /\ UNCHANGED <<disk, path, state, activated, bonds, record, installed, then, lace, output,
                     ghosts>>
  BY DEF begin_commit, goto
<1>c. /\ record = {} /\ activated = {state} /\ seen["snapshot"] = {state} /\ seen["epoch"] = {}
  BY DEF Loaded, Working
<1>1. Typed'
  <2>1. job' \in Opt(Job)
    BY <1>b DEF Opt, Job
  <2>2. pc' \in Serving /\ renamed' = FALSE
    BY <1>b DEF Serving
  <2> QED
    BY <1>b, <2>1, <2>2, Zenon DEF Typed, disk, ghosts
<1>2. Sturdy'
  BY <1>b, SturdyKept DEF disk, ghosts
<1>3. Settled'
  BY <1>b DEF Typed, Settled, Renames, Links, disk
<1>4. Fresh'
  BY <1>b, Zenon DEF Fresh, Opening
<1>5. Loaded'
  BY <1>b, Zenon DEF Loaded, Working, Serving, disk
<1>6. Committing'
  <2> DEFINE j == [chain |-> c, epoch |-> epoch]
  <2>1. j \in job' /\ j.chain = c /\ j.epoch = epoch
    BY <1>b, Zenon
  <2> HIDE DEF j
  <2> QED
    BY <1>b, <1>c, <2>1, Zenon DEF Committing, disk
<1> QED
  BY <1>1, <1>2, <1>3, <1>4, <1>5, <1>6

\* The three commit paths.
LEMMA commit_keeps ==
    ASSUME DurInv, NEW o \in Outcome,
           \/ commit_completed_round(o) \/ commit_completed_checkpoint_round(o)
           \/ commit_completed_checkpoint_round_with_epoch(o)
    PROVE  DurInv'
<1> DEFINE c == Append(state, o)
<1>1. pc = "rounds" /\ Len(state) < MaxRound
  BY DEF commit_completed_round, commit_completed_checkpoint_round,
         commit_completed_checkpoint_round_with_epoch
<1>2. c \in Chain /\ c # <<>> /\ previous(c) = state
  BY <1>1, AppendRound DEF DurInv, Typed
<1> HIDE DEF c
<1>3. {} \in Opt(Record)
  BY DEF Opt
<1>4. CASE commit_completed_round(o)
  <2>1. path = "wave" /\ begin_commit(c, {})
    BY <1>4 DEF commit_completed_round, c
  <2>2. seen["epoch"] = {}
    BY <2>1 DEF DurInv, Typed, Sturdy, File
  <2>3. installed = {}
    BY <1>1, <2>2, Zenon DEF DurInv, Loaded, Working
  <2> QED
    BY <1>1, <1>2, <1>3, <2>1, <2>3, begin_commit_keeps
<1>5. CASE commit_completed_checkpoint_round(o)
  <2>1. installed = {} /\ begin_commit(c, {})
    BY <1>5 DEF commit_completed_checkpoint_round, c
  <2> QED
    BY <1>1, <1>2, <1>3, <2>1, begin_commit_keeps, Zenon
<1>6. CASE commit_completed_checkpoint_round_with_epoch(o)
  <2> DEFINE x == [chain |-> c, old |-> bonds, sealed |-> output]
  <2>1. path = "epoch" /\ installed = {} /\ begin_commit(c, {x})
    BY <1>6, Zenon DEF commit_completed_checkpoint_round_with_epoch, c
  <2>2. activated # {} /\ \A m \in activated : bonds = WeightsOf(m)
    BY <1>1, <2>1, Zenon DEF DurInv, Loaded, Serving
  <2>3. bonds \in Weight
    BY <2>2, Singletons, WeightsOfChain DEF DurInv
  <2>4. output \in 0 .. MaxOutput
    BY PorAssumption DEF DurInv, Typed
  <2>5. x \in Record
    BY <1>2, <2>3, <2>4 DEF Record
  <2>6. {x} \in Opt(Record) /\ \A y \in {x} : y.chain = c /\ y.old = bonds /\ y.sealed = output
    BY <2>5, SMTT(30) DEF Opt
  <2> HIDE DEF x
  <2> QED
    BY <1>1, <1>2, <2>1, <2>6, begin_commit_keeps
<1> QED
  BY <1>4, <1>5, <1>6

\* The process ends; each file keeps one of its possible contents.
LEMMA halt_keeps ==
    ASSUME DurInv, halt,
           seen' = [f \in File |-> seen'[f]], kept' = [f \in File |-> kept'[f]],
           \A f \in File : kept'[f] \subseteq kept[f] /\ seen'[f] \in kept'[f],
           firm' \subseteq files', files' \subseteq files,
           acked' = acked, faults' \in 0 .. MaxFaults
    PROVE  DurInv'
<1> USE DEF DurInv
<1>1. Typed'
  <2>1. /\ kept'["snapshot"] \subseteq Opt(Chain) /\ kept'["marker"] \subseteq Opt(Chain)
        /\ kept'["epoch"] \subseteq Opt(Record) /\ kept'["status"] \subseteq Opt(Status)
    BY DEF Typed, File
  <2>2. files' \subseteq Chain
    BY DEF Typed
  <2>3. /\ state' \in Chain /\ activated' \in Opt(Chain) /\ record' \in Opt(Record)
        /\ job' \in Opt(Job) /\ installed' \in {{}, record'}
    BY ChainIsSeq DEF halt, Opt
  <2>4. lace' \in 0 .. MaxOutput /\ output' \in 0 .. lace'
    BY PorAssumption DEF halt
  <2>5. /\ pc' = "down" /\ renamed' = FALSE /\ path' \in Paths /\ bonds' = Stake
        /\ then' = "idle" /\ acked' \in Chain
    BY DEF halt, Typed
  <2> QED
    BY <2>1, <2>2, <2>3, <2>4, <2>5, Zenon DEF Typed
<1>2. Sturdy'
  BY SturdyKept DEF halt
<1>3. Settled'
  BY DEF Settled, halt
<1>4. Fresh'
  BY DEF Fresh, Opening, halt
<1>5. Loaded'
  BY DEF Loaded, Working, Serving, halt
<1>6. Committing'
  BY DEF Committing, halt
<1> QED
  BY <1>1, <1>2, <1>3, <1>4, <1>5, <1>6

\* The runner returns an error, or the process is killed.
LEMMA ended_keeps == DurInv /\ (give_up \/ crash) => DurInv'
<1> SUFFICES ASSUME DurInv, give_up \/ crash PROVE DurInv'
  OBVIOUS
<1>1. halt /\ UNCHANGED disk /\ acked' = acked
  BY DEF give_up, crash
<1>2. faults' \in 0 .. MaxFaults
  <2>1. CASE crash
    BY <2>1 DEF crash, DurInv, Typed
  <2>2. CASE give_up
    <3>1. PICK e \in errors : faults' = faults + (IF e = "io" THEN 1 ELSE 0)
      BY <2>2 DEF give_up
    <3>2. e = "io" => faults < MaxFaults
      BY DEF errors
    <3> QED
      BY <3>1, <3>2, PorAssumption DEF DurInv, Typed
  <2> QED
    BY <2>1, <2>2
<1> QED
  BY <1>1, <1>2, halt_keeps, Zenon DEF DurInv, Typed, disk

\* The power fails.
LEMMA power_failure_keeps == DurInv /\ power_failure => DurInv'
<1> SUFFICES ASSUME DurInv, power_failure PROVE DurInv'
  OBVIOUS
<1>1. /\ halt /\ kept' = [f \in File |-> {seen'[f]}] /\ firm' = files' /\ files' \subseteq files
      /\ acked' = acked /\ faults' = faults
  BY DEF power_failure
<1>2. PICK s \in kept["snapshot"], m \in kept["marker"], e \in kept["epoch"], t \in kept["status"] :
         seen' = [seen EXCEPT !["snapshot"] = s, !["marker"] = m, !["epoch"] = e, !["status"] = t]
  BY Zenon DEF power_failure
<1>3. seen = [f \in File |-> seen[f]]
  BY DEF DurInv, Typed
<1>4. seen' = [f \in File |-> seen'[f]] /\ \A f \in File : seen'[f] \in kept[f]
  BY <1>2, <1>3, Zenon DEF File
<1>5. \A f \in File : kept'[f] = {seen'[f]}
  BY <1>1
<1>6. kept' = [f \in File |-> kept'[f]]
  BY <1>1
<1>7. \A f \in File : kept'[f] \subseteq kept[f] /\ seen'[f] \in kept'[f]
  BY <1>4, <1>5
<1>8. faults' \in 0 .. MaxFaults
  BY <1>1 DEF DurInv, Typed
<1> QED
  BY <1>1, <1>4, <1>6, <1>7, <1>8, halt_keeps

\* Content of a file that fits whatever the others may hold.
Writable(f, to) ==
    /\ f \in {"snapshot", "marker"} => to \in Opt(Chain)
    /\ f = "epoch" => to \in Opt(Record) /\ (path = "wave" => to = {})
    /\ f = "status" => to \in Opt(Status)
    /\ f = "snapshot" => \A m \in kept["marker"], e \in kept["epoch"], t \in kept["status"] :
           Fits(to, m, e, t) /\ (acked # <<>> => \E c \in to : extends(c, acked))
    /\ f = "marker" => \A s \in kept["snapshot"], e \in kept["epoch"], t \in kept["status"] :
           Fits(s, to, e, t)
    /\ f = "epoch" => \A s \in kept["snapshot"], m \in kept["marker"], t \in kept["status"] :
           Fits(s, m, to, t)
    /\ f = "status" => \A s \in kept["snapshot"], m \in kept["marker"], e \in kept["epoch"] :
           Fits(s, m, e, to)

Writes(f, to) == target = f /\ written = [file |-> f, to |-> to]
Replaced(f, to) ==
    /\ \A g \in File : seen'[g] = IF g = f THEN to ELSE seen[g]
    /\ renamed' = TRUE /\ UNCHANGED <<pc, memory>>

\* A file is replaced by content that fits.
LEMMA write_keeps ==
    ASSUME DurInv, rename, NEW f \in File, NEW to, Writes(f, to), Writable(f, to)
    PROVE  Typed' /\ Sturdy' /\ Settled' /\ Replaced(f, to)
<1> USE DEF DurInv
<1>1. written.file = f /\ written.to = to /\ target = f
  BY DEF Writes
<1>2. /\ seen' = [seen EXCEPT ![f] = to] /\ kept' = [kept EXCEPT ![f] = kept[f] \cup {to}]
      /\ renamed' = TRUE /\ UNCHANGED <<files, firm, pc, memory, ghosts>>
      /\ pc \in Renames /\ ~ renamed
  BY <1>1 DEF rename
<1>3. seen = [g \in File |-> seen[g]] /\ kept = [g \in File |-> kept[g]]
  BY DEF Typed
<1>4. /\ \A g \in File : seen'[g] = IF g = f THEN to ELSE seen[g]
      /\ \A g \in File : kept'[g] = IF g = f THEN kept[f] \cup {to} ELSE kept[g]
      /\ seen' = [g \in File |-> seen'[g]] /\ kept' = [g \in File |-> kept'[g]]
  <2>1. seen' = [g \in File |-> IF g = f THEN to ELSE seen[g]]
    BY <1>2, <1>3, Zenon
  <2>2. kept' = [g \in File |-> IF g = f THEN kept[f] \cup {to} ELSE kept[g]]
    BY <1>2, <1>3, Zenon
  <2>3. \A g \in File : seen'[g] = IF g = f THEN to ELSE seen[g]
    BY <2>1
  <2>4. \A g \in File : kept'[g] = IF g = f THEN kept[f] \cup {to} ELSE kept[g]
    BY <2>2
  <2>5. seen' = [g \in File |-> seen'[g]]
    BY <2>1
  <2>6. kept' = [g \in File |-> kept'[g]]
    BY <2>2
  <2> QED
    BY <2>3, <2>4, <2>5, <2>6
<1>5. Typed'
  <2>1. seen' = [g \in File |-> seen'[g]] /\ kept' = [g \in File |-> kept'[g]]
    BY <1>4
  <2>2. \A g \in File : seen'[g] \in kept'[g]
    BY <1>4 DEF Typed
  <2>3. /\ kept'["snapshot"] \subseteq Opt(Chain) /\ kept'["marker"] \subseteq Opt(Chain)
        /\ kept'["epoch"] \subseteq Opt(Record) /\ kept'["status"] \subseteq Opt(Status)
    BY <1>4, SMTT(30) DEF Typed, File, Writable
  <2> QED
    BY <1>2, <2>1, <2>2, <2>3, Zenon DEF Typed, memory, ghosts
<1>6. Sturdy'
  <2> SUFFICES ASSUME NEW s \in kept'["snapshot"], NEW m \in kept'["marker"],
                      NEW e \in kept'["epoch"], NEW t \in kept'["status"]
               PROVE  /\ Fits(s, m, e, t)
                      /\ path = "wave" => e = {}
                      /\ acked # <<>> => \E c \in s : extends(c, acked)
    <3>1. path' = path /\ acked' = acked
      BY <1>2 DEF memory, ghosts
    <3> QED
      BY <3>1, Zenon DEF Sturdy
  <2>1. /\ seen["snapshot"] \in kept["snapshot"] /\ seen["marker"] \in kept["marker"]
        /\ seen["epoch"] \in kept["epoch"] /\ seen["status"] \in kept["status"]
    BY DEF Typed, File
  <2>2. CASE f = "snapshot"
    <3>1. s \in kept["snapshot"] \cup {to} /\ m \in kept["marker"] /\ e \in kept["epoch"]
          /\ t \in kept["status"]
      BY <1>4, <2>2 DEF File
    <3>2. CASE s \in kept["snapshot"]
      BY <3>1, <3>2, Zenon DEF Sturdy
    <3>3. CASE s = to
      BY <2>1, <2>2, <3>1, <3>3, Zenon DEF Sturdy, Writable
    <3> QED
      BY <3>1, <3>2, <3>3, Zenon
  <2>3. CASE f = "marker"
    <3>1. s \in kept["snapshot"] /\ m \in kept["marker"] \cup {to} /\ e \in kept["epoch"]
          /\ t \in kept["status"]
      BY <1>4, <2>3 DEF File
    <3>2. CASE m \in kept["marker"]
      BY <3>1, <3>2, Zenon DEF Sturdy
    <3>3. CASE m = to
      BY <2>1, <2>3, <3>1, <3>3, Zenon DEF Sturdy, Writable
    <3> QED
      BY <3>1, <3>2, <3>3, Zenon
  <2>4. CASE f = "epoch"
    <3>1. s \in kept["snapshot"] /\ m \in kept["marker"] /\ e \in kept["epoch"] \cup {to}
          /\ t \in kept["status"]
      BY <1>4, <2>4 DEF File
    <3> QED
      BY <2>1, <2>4, <3>1, Zenon DEF Sturdy, Writable
  <2>5. CASE f = "status"
    <3>1. s \in kept["snapshot"] /\ m \in kept["marker"] /\ e \in kept["epoch"]
          /\ t \in kept["status"] \cup {to}
      BY <1>4, <2>5 DEF File
    <3> QED
      BY <2>1, <2>5, <3>1, Zenon DEF Sturdy, Writable
  <2> QED
    BY <2>2, <2>3, <2>4, <2>5, Zenon DEF File
<1>7. Settled'
  <2>1. target' = target
    BY <1>2 DEF target
  <2> QED
    BY <1>1, <1>2, <1>4, <2>1 DEF Settled
<1> QED
  BY <1>2, <1>4, <1>5, <1>6, <1>7 DEF Replaced

\* The writes, place by place.
LEMMA rename_init_keeps == DurInv /\ rename /\ pc = "init" => DurInv'
<1> SUFFICES ASSUME DurInv, rename, pc = "init" PROVE DurInv'
  OBVIOUS
<1>1. target = "snapshot" /\ written = [file |-> "snapshot", to |-> {<<>>}]
  BY DEF target, written
<1>2. seen["snapshot"] = {} /\ ~ renamed
  BY DEF DurInv, Fresh, rename
<1>3. {} \in kept["snapshot"]
  BY <1>2 DEF DurInv, Typed, File
<1>4. \A m \in kept["marker"], e \in kept["epoch"], t \in kept["status"] :
         m = {} /\ e = {} /\ t = {} /\ acked = <<>>
  BY <1>3 DEF DurInv, Sturdy, Fits
<1>5. \A m \in kept["marker"], e \in kept["epoch"], t \in kept["status"] :
         Fits({<<>>}, m, e, t) /\ (acked # <<>> => \E c \in {<<>>} : extends(c, acked))
  BY <1>4 DEF Fits
<1>6. {<<>>} \in Opt(Chain)
  BY ChainIsSeq DEF Opt
<1>w. Writable("snapshot", {<<>>})
  BY <1>5, <1>6 DEF Writable
<1>f. "snapshot" \in File
  BY DEF File
<1>v. Writes("snapshot", {<<>>})
  BY <1>1 DEF Writes
<1>u. Typed' /\ Sturdy' /\ Settled' /\ Replaced("snapshot", {<<>>})
  BY <1>w, <1>f, <1>v, write_keeps
<1>7. /\ Typed' /\ Sturdy' /\ Settled' /\ renamed' = TRUE /\ UNCHANGED <<pc, memory>>
      /\ \A g \in File : seen'[g] = IF g = "snapshot" THEN {<<>>} ELSE seen[g]
  BY <1>u DEF Replaced
<1>8. seen'["snapshot"] = {<<>>}
  BY <1>7 DEF File
<1>9. Fresh'
  BY <1>7, <1>8 DEF DurInv, Fresh, Opening, memory
<1>10. Loaded' /\ Committing'
  BY <1>7, Zenon DEF Loaded, Committing, Working, Serving
<1> QED
  BY <1>7, <1>9, <1>10 DEF DurInv

\* The epoch record of an uncommitted round is removed.
LEMMA rename_discard_keeps == DurInv /\ rename /\ pc = "discard" => DurInv'
<1> SUFFICES ASSUME DurInv, rename, pc = "discard" PROVE DurInv'
  OBVIOUS
<1>1. target = "epoch" /\ written = [file |-> "epoch", to |-> {}]
  BY DEF target, written
<1>2. \A f \in File : f # "epoch" => kept[f] = {seen[f]}
  BY <1>1 DEF DurInv, Settled
<1>3. Fits(seen["snapshot"], seen["marker"], {}, seen["status"])
  BY Found, Zenon DEF Fits
<1>4. \A s \in kept["snapshot"], m \in kept["marker"], t \in kept["status"] : Fits(s, m, {}, t)
  BY <1>2, <1>3 DEF File
<1>5. {} \in Opt(Record)
  BY DEF Opt
<1>w. Writable("epoch", {})
  BY <1>4, <1>5, Zenon DEF Writable
<1>f. "epoch" \in File
  BY DEF File
<1>v. Writes("epoch", {})
  BY <1>1, Zenon DEF Writes
<1>u. Typed' /\ Sturdy' /\ Settled' /\ Replaced("epoch", {})
  BY <1>w, <1>f, <1>v, write_keeps
<1>6. /\ Typed' /\ Sturdy' /\ Settled' /\ renamed' = TRUE /\ UNCHANGED <<pc, memory>>
      /\ \A g \in File : seen'[g] = IF g = "epoch" THEN {} ELSE seen[g]
  BY <1>u DEF Replaced
<1>7. /\ seen'["epoch"] = {} /\ seen'["snapshot"] = seen["snapshot"]
      /\ seen'["marker"] = seen["marker"]
  BY <1>6 DEF File
<1>8. Fresh'
  BY <1>6, <1>7, Zenon DEF DurInv, Fresh, Opening, memory
<1>9. Loaded' /\ Committing'
  BY <1>6, Zenon DEF Loaded, Committing, Working, Serving
<1> QED
  BY <1>6, <1>8, <1>9 DEF DurInv

\* The marker names the state whose weights are activated.
LEMMA rename_activate_keeps == DurInv /\ rename /\ pc = "activate" => DurInv'
<1> SUFFICES ASSUME DurInv, rename, pc = "activate" PROVE DurInv'
  OBVIOUS
<1>1. target = "marker" /\ written = [file |-> "marker", to |-> {state}]
  BY DEF target, written
<1>2. \A f \in File : f # "marker" => kept[f] = {seen[f]}
  BY <1>1 DEF DurInv, Settled
<1>3. state \in Chain /\ seen["snapshot"] = {state} /\ seen["epoch"] = {}
  <2>1. state \in Chain
    BY DEF DurInv, Typed
  <2>2. seen["snapshot"] = {state} /\ record = seen["epoch"] /\ record = {}
    BY DEF DurInv, Loaded, Working
  <2> QED
    BY <2>1, <2>2
<1>4. Fits(seen["snapshot"], {state}, {}, seen["status"])
  BY <1>3, Found, PrefixFacts, SMTT(30) DEF Fits
<1>5. \A s \in kept["snapshot"], e \in kept["epoch"], t \in kept["status"] :
         Fits(s, {state}, e, t)
  BY <1>2, <1>3, <1>4, Zenon DEF File
<1>6. {state} \in Opt(Chain)
  BY <1>3 DEF Opt
<1>w. Writable("marker", {state})
  BY <1>5, <1>6, Zenon DEF Writable
<1>f. "marker" \in File
  BY DEF File
<1>v. Writes("marker", {state})
  BY <1>1 DEF Writes
<1>u. Typed' /\ Sturdy' /\ Settled' /\ Replaced("marker", {state})
  BY <1>w, <1>f, <1>v, write_keeps
<1>7. /\ Typed' /\ Sturdy' /\ Settled' /\ renamed' = TRUE /\ UNCHANGED <<pc, memory>>
      /\ \A g \in File : seen'[g] = IF g = "marker" THEN {state} ELSE seen[g]
  BY <1>u DEF Replaced
<1>8. /\ seen'["marker"] = {state} /\ seen'["snapshot"] = seen["snapshot"]
      /\ seen'["epoch"] = seen["epoch"]
  BY <1>7 DEF File
<1>9. Fresh' /\ Committing'
  BY <1>7 DEF Fresh, Opening, Committing
<1>10. Loaded'
  BY <1>7, <1>8, Zenon DEF DurInv, Loaded, Working, Serving, memory
<1> QED
  BY <1>7, <1>9, <1>10 DEF DurInv

\* The epoch record of the next round takes its place before the snapshot.
LEMMA rename_propose_keeps == DurInv /\ rename /\ pc = "propose" => DurInv'
<1> SUFFICES ASSUME DurInv, rename, pc = "propose" PROVE DurInv'
  OBVIOUS
<1>r. ~ renamed
  BY DEF rename
<1>1. /\ activated = {state} /\ record = {} /\ installed = {} /\ state \in Chain
      /\ seen["marker"] = {state} /\ bonds = WeightsOf(state)
  BY Zenon DEF DurInv, Committing, Loaded, Serving, Typed
<1>2. PICK j \in job :
          /\ j.chain # <<>> /\ previous(j.chain) = state
          /\ \A x \in j.epoch : x.chain = j.chain /\ x.old = bonds /\ x.sealed = output
          /\ path = "wave" => j.epoch = {}
          /\ j.epoch # {} /\ seen["snapshot"] = {state}
  BY <1>r, Zenon DEF DurInv, Committing
<1>3. job = {j} /\ j.chain \in Chain /\ j.epoch \in Opt(Record)
  BY Singletons DEF DurInv
<1>4. target = "epoch" /\ written = [file |-> "epoch", to |-> j.epoch]
  <2>1. UNION {k.epoch : k \in job} = j.epoch
    BY <1>3
  <2>2. target = "epoch" /\ written = [file |-> "epoch", to |-> UNION {k.epoch : k \in job}]
    BY DEF target, written
  <2> QED
    BY <2>1, <2>2, Zenon
<1>5. \A f \in File : f # "epoch" => kept[f] = {seen[f]}
  BY <1>4 DEF DurInv, Settled
<1>6. Fits(seen["snapshot"], seen["marker"], j.epoch, seen["status"])
  BY <1>1, <1>2, Found, Zenon DEF Fits
<1>7. \A s \in kept["snapshot"], m \in kept["marker"], t \in kept["status"] :
         Fits(s, m, j.epoch, t)
  BY <1>5, <1>6 DEF File
<1>w. Writable("epoch", j.epoch)
  BY <1>2, <1>3, <1>7, Zenon DEF Writable
<1>f. "epoch" \in File
  BY DEF File
<1>v. Writes("epoch", j.epoch)
  BY <1>4 DEF Writes
<1>u. Typed' /\ Sturdy' /\ Settled' /\ Replaced("epoch", j.epoch)
  BY <1>w, <1>f, <1>v, write_keeps
<1>8. /\ Typed' /\ Sturdy' /\ Settled' /\ renamed' = TRUE /\ UNCHANGED <<pc, memory>>
      /\ \A g \in File : seen'[g] = IF g = "epoch" THEN j.epoch ELSE seen[g]
  BY <1>u DEF Replaced
<1>9. /\ seen'["epoch"] = j.epoch /\ seen'["snapshot"] = seen["snapshot"]
      /\ seen'["marker"] = seen["marker"]
  BY <1>8 DEF File
<1>10. Fresh'
  BY <1>8 DEF Fresh, Opening
<1>11. Loaded'
  BY <1>8, <1>9, Zenon DEF DurInv, Loaded, Working, Serving, memory
<1>12. Committing'
  BY <1>1, <1>2, <1>8, <1>9, Zenon DEF Committing, memory
<1> QED
  BY <1>8, <1>10, <1>11, <1>12 DEF DurInv

\* The snapshot of the next round takes its place.
LEMMA rename_commit_keeps == DurInv /\ rename /\ pc = "commit" => DurInv'
<1> SUFFICES ASSUME DurInv, rename, pc = "commit" PROVE DurInv'
  OBVIOUS
<1>r. ~ renamed
  BY DEF rename
<1>1. /\ activated = {state} /\ record = {} /\ installed = {} /\ state \in Chain
      /\ seen["marker"] = {state} /\ bonds = WeightsOf(state)
  BY Zenon DEF DurInv, Committing, Loaded, Serving, Typed
<1>2. PICK j \in job :
          /\ j.chain # <<>> /\ previous(j.chain) = state
          /\ \A x \in j.epoch : x.chain = j.chain /\ x.old = bonds /\ x.sealed = output
          /\ path = "wave" => j.epoch = {}
          /\ seen["epoch"] = j.epoch /\ seen["snapshot"] = {state}
  BY <1>r, Zenon DEF DurInv, Committing
<1>3. job = {j} /\ j.chain \in Chain
  BY Singletons DEF DurInv
<1>4. target = "snapshot" /\ written = [file |-> "snapshot", to |-> {j.chain}]
  <2>1. {k.chain : k \in job} = {j.chain}
    BY <1>3
  <2>2. target = "snapshot" /\ written = [file |-> "snapshot", to |-> {k.chain : k \in job}]
    BY DEF target, written
  <2> QED
    BY <2>1, <2>2
<1>5. \A f \in File : f # "snapshot" => kept[f] = {seen[f]}
  BY <1>4 DEF DurInv, Settled
<1>6. \A p \in Chain : extends(state, p) => extends(j.chain, p)
  BY <1>2, <1>3, NextRound
<1>7. Fits({j.chain}, seen["marker"], seen["epoch"], seen["status"])
  <2>1. extends(j.chain, state)
    BY <1>1, <1>6, PrefixFacts
  <2>2. seen["status"] \in Opt(Status)
    BY DEF DurInv, Typed, File
  <2>3. \A r \in seen["status"] : r.active \in Chain
    BY <2>2 DEF Opt, Status
  <2>4. \A r \in seen["status"] : extends(state, r.active)
    BY <1>2, Found DEF Fits
  <2>5. \A r \in seen["status"] : extends(j.chain, r.active)
    BY <1>6, <2>3, <2>4
  <2> QED
    BY <1>1, <1>2, <2>1, <2>5, Zenon DEF Fits
<1>8. acked # <<>> => extends(j.chain, acked)
  <2>1. acked # <<>> => \E c \in seen["snapshot"] : extends(c, acked)
    BY DEF DurInv, Typed, Sturdy, File
  <2>2. acked \in Chain
    BY DEF DurInv, Typed
  <2> QED
    BY <1>2, <1>6, <2>1, <2>2, Zenon
<1>9. \A m \in kept["marker"], e \in kept["epoch"], t \in kept["status"] :
         /\ Fits({j.chain}, m, e, t)
         /\ acked # <<>> => \E c \in {j.chain} : extends(c, acked)
  BY <1>5, <1>7, <1>8 DEF File
<1>10. {j.chain} \in Opt(Chain)
  BY <1>3 DEF Opt
<1>w. Writable("snapshot", {j.chain})
  BY <1>9, <1>10, Zenon DEF Writable
<1>f. "snapshot" \in File
  BY DEF File
<1>v. Writes("snapshot", {j.chain})
  BY <1>4 DEF Writes
<1>u. Typed' /\ Sturdy' /\ Settled' /\ Replaced("snapshot", {j.chain})
  BY <1>w, <1>f, <1>v, write_keeps
<1>11. /\ Typed' /\ Sturdy' /\ Settled' /\ renamed' = TRUE /\ UNCHANGED <<pc, memory>>
       /\ \A g \in File : seen'[g] = IF g = "snapshot" THEN {j.chain} ELSE seen[g]
  BY <1>u DEF Replaced
<1>12. /\ seen'["snapshot"] = {j.chain} /\ seen'["marker"] = seen["marker"]
       /\ seen'["epoch"] = seen["epoch"]
  BY <1>11 DEF File
<1>13. Fresh'
  BY <1>11 DEF Fresh, Opening
<1>14. Loaded'
  BY <1>11, <1>12, Zenon DEF DurInv, Loaded, Working, Serving, memory
<1>15. Committing'
  BY <1>1, <1>2, <1>11, <1>12, Zenon DEF Committing, memory
<1> QED
  BY <1>11, <1>13, <1>14, <1>15, Zenon DEF DurInv

\* What a serving process reports as active is its committed state.
LEMMA ActiveIsState ==
    ASSUME DurInv, pc \in {"check", "rounds", "status"}
    PROVE  active = {state}
<1>1. /\ installed = record /\ (record = {} => activated = {state})
      /\ \A e \in record : e.chain = state
  BY Zenon DEF DurInv, Loaded, Working
<1>2. record # {} => {e.chain : e \in record} = {state}
  BY <1>1, Zenon
<1> QED
  BY <1>1, <1>2 DEF active

\* The status takes its place.
LEMMA rename_status_keeps == DurInv /\ rename /\ pc = "status" => DurInv'
<1> SUFFICES ASSUME DurInv, rename, pc = "status" PROVE DurInv'
  OBVIOUS
<1> DEFINE r == [active |-> state, len |-> output]
<1>1. state \in Chain /\ output \in 0 .. MaxOutput
  BY PorAssumption DEF DurInv, Typed
<1>2. reported = {r}
  BY ActiveIsState DEF reported
<1>3. r \in Status /\ r.active = state
  BY <1>1 DEF Status
<1> HIDE DEF r
<1>4. target = "status" /\ written = [file |-> "status", to |-> {r}]
  BY <1>2 DEF target, written
<1>5. \A f \in File : f # "status" => kept[f] = {seen[f]}
  BY <1>4 DEF DurInv, Settled
<1>6. seen["snapshot"] = {state} /\ seen["marker"] # {}
  BY DEF DurInv, Loaded, Working, Serving
<1>7. Fits(seen["snapshot"], seen["marker"], seen["epoch"], {r})
  BY <1>1, <1>3, <1>6, Found, PrefixFacts, SMTT(30) DEF Fits
<1>8. \A s \in kept["snapshot"], m \in kept["marker"], e \in kept["epoch"] : Fits(s, m, e, {r})
  BY <1>5, <1>7 DEF File
<1>9. {r} \in Opt(Status)
  BY <1>3 DEF Opt
<1>w. Writable("status", {r})
  BY <1>8, <1>9, Zenon DEF Writable
<1>f. "status" \in File
  BY DEF File
<1>v. Writes("status", {r})
  BY <1>4 DEF Writes
<1>u. Typed' /\ Sturdy' /\ Settled' /\ Replaced("status", {r})
  BY <1>w, <1>f, <1>v, write_keeps
<1>10. /\ Typed' /\ Sturdy' /\ Settled' /\ renamed' = TRUE /\ UNCHANGED <<pc, memory>>
       /\ \A g \in File : seen'[g] = IF g = "status" THEN {r} ELSE seen[g]
  BY <1>u DEF Replaced
<1>11. /\ seen'["snapshot"] = seen["snapshot"] /\ seen'["marker"] = seen["marker"]
       /\ seen'["epoch"] = seen["epoch"]
  BY <1>10 DEF File
<1>12. Fresh' /\ Committing'
  BY <1>10, Zenon DEF Fresh, Opening, Committing
<1>13. Loaded'
  BY <1>10, <1>11, Zenon DEF DurInv, Loaded, Working, Serving, memory
<1> QED
  BY <1>10, <1>12, <1>13 DEF DurInv

-----------------------------------------------------------------------------
\* The invariant holds at first.
LEMMA DurInvInit == Init => DurInv
<1> SUFFICES ASSUME Init PROVE DurInv
  OBVIOUS
<1>1. Typed
  <2>1. /\ state \in Chain /\ activated \in Opt(Chain) /\ record \in Opt(Record) /\ acked \in Chain
        /\ job \in Opt(Job) /\ installed \in {{}, record}
    BY ChainIsSeq, Zenon DEF Init, Opt
  <2>2. /\ lace \in 0 .. MaxOutput /\ output \in 0 .. lace /\ faults \in 0 .. MaxFaults
    <3>1. lace = 0 /\ output = 0
      BY DEF Init
    <3>2. faults = 0
      BY DEF Init
    <3> QED
      BY <3>1, <3>2, PorAssumption, SMTT(30)
  <2>3. \A f \in File : seen[f] = {} /\ kept[f] = {{}}
    BY DEF Init
  <2>4. seen = [f \in File |-> seen[f]] /\ kept = [f \in File |-> kept[f]]
    BY DEF Init
  <2>5. /\ kept["snapshot"] \subseteq Opt(Chain) /\ kept["marker"] \subseteq Opt(Chain)
        /\ kept["epoch"] \subseteq Opt(Record) /\ kept["status"] \subseteq Opt(Status)
    BY <2>3 DEF Opt, File
  <2>6. /\ firm = {} /\ files = {} /\ pc = "down" /\ renamed = FALSE /\ path \in Paths
        /\ bonds = Stake /\ then = "idle"
    BY DEF Init
  <2>7. \A f \in File : seen[f] \in kept[f]
    BY <2>3
  <2>8. firm \subseteq files /\ files \subseteq Chain /\ renamed \in BOOLEAN /\ ~ renamed
    BY <2>6, Zenon
  <2> QED
    BY <2>1, <2>2, <2>4, <2>5, <2>6, <2>7, <2>8 DEF Typed
<1>2. Sturdy
  <2> SUFFICES ASSUME NEW s \in kept["snapshot"], NEW m \in kept["marker"],
                      NEW e \in kept["epoch"], NEW t \in kept["status"]
               PROVE  Fits(s, m, e, t) /\ e = {} /\ acked = <<>>
    BY DEF Sturdy
  <2>1. \A f \in File : kept[f] = {{}}
    BY DEF Init
  <2>2. s = {} /\ m = {} /\ e = {} /\ t = {}
    BY <2>1 DEF File
  <2>3. acked = <<>>
    BY DEF Init
  <2> QED
    BY <2>2, <2>3 DEF Fits
<1>3. Settled /\ Fresh
  BY DEF Init, Settled, Fresh, Opening
<1>4. Loaded /\ Committing
  BY Zenon DEF Init, Loaded, Committing, Working, Serving
<1> QED
  BY <1>1, <1>2, <1>3, <1>4 DEF DurInv

\* Every step keeps it.
LEMMA DurInvNext == DurInv /\ [Next]_vars => DurInv'
<1> SUFFICES ASSUME DurInv, [Next]_vars PROVE DurInv'
  OBVIOUS
<1>1. CASE UNCHANGED vars
  <2>1. UNCHANGED <<seen, kept, files, firm, pc, renamed, path, state, activated, bonds, record,
                    installed, job, then, lace, output, acked, faults>>
    BY <1>1 DEF vars, disk, memory, ghosts
  <2>2. Typed'
    BY <2>1, Zenon DEF DurInv, Typed
  <2>3. Sturdy' /\ Settled'
    BY <2>1 DEF DurInv, Sturdy, Settled, target
  <2>4. Fresh'
    BY <2>1, Zenon DEF DurInv, Fresh
  <2>5. Loaded'
    BY <2>1, Zenon DEF DurInv, Loaded
  <2>6. Committing'
    <3>1. UNCHANGED <<pc, renamed, seen, activated, record, installed, state, job, bonds, output,
                      path>>
      BY <2>1
    <3> QED
      BY <3>1, ZenonT(20) DEF DurInv, Committing
  <2> QED
    BY <2>2, <2>3, <2>4, <2>5, <2>6 DEF DurInv
<1>2. CASE rename
  <2>1. pc \in Renames
    BY <1>2 DEF rename
  <2> QED
    BY <1>2, <2>1, rename_init_keeps, rename_discard_keeps, rename_activate_keeps,
       rename_propose_keeps, rename_commit_keeps, rename_status_keeps DEF Renames
<1>3. CASE \E o \in Outcome : \/ commit_completed_round(o) \/ commit_completed_checkpoint_round(o)
                              \/ commit_completed_checkpoint_round_with_epoch(o)
  BY <1>3, commit_keeps
<1>4. CASE give_up \/ crash \/ power_failure
  BY <1>4, ended_keeps, power_failure_keeps
<1>5. CASE \E n \in lace .. MaxOutput : poll(n)
  BY <1>5, poll_keeps
<1>6. CASE Process
  BY <1>2, <1>6, open_state_keeps, hard_link_keeps, initialized_keeps, open_history_keeps,
     reconciled_keeps, open_epoch_keeps, discarded_keeps, open_weights_keeps,
     activation_recorded_keeps, publish_keeps, retry_weight_activation_keeps,
     validate_recovered_keeps, no_commit_keeps, proposed_keeps, snapshot_committed_keeps,
     committed_keeps, status_written_keeps DEF Process
<1> QED
  BY <1>1, <1>3, <1>4, <1>5, <1>6 DEF Next

\* The invariant holds in every reachable state.
LEMMA Durable == Spec => []DurInv
<1> QED
  BY DurInvInit, DurInvNext, PTL DEF Spec

(***************************************************************************)
(* Whichever contents of the files survive, a start restores the weights   *)
(* the runner publishes under: WeightsAreRecorded for every number of      *)
(* rounds and outputs, any projection, and storage errors, kills and power *)
(* failures in any order.                                                  *)
(***************************************************************************)
THEOREM WeightsRecorded == Spec => []WeightsAreRecorded
<1>1. DurInv => WeightsAreRecorded
  <2> SUFFICES ASSUME DurInv, pc \in {"idle", "publish", "check", "rounds", "status"},
                      NEW m \in kept["marker"], NEW e \in kept["epoch"], NEW s \in kept["snapshot"]
               PROVE  IF installed = {}
                      THEN \A c \in m : bonds = WeightsOf(c)
                      ELSE \E x \in e : /\ s = {x.chain} /\ bonds = WeightsOf(x.chain)
                                        /\ \E c \in m : x.old = WeightsOf(c)
    BY Zenon DEF WeightsAreRecorded
  <2>1. m = seen["marker"] /\ e = seen["epoch"] /\ s = seen["snapshot"]
    BY DEF DurInv, Settled, File, target
  <2>2. /\ s = {state} /\ record = e /\ \A x \in record : x.chain = state
        /\ activated = m /\ activated # {}
        /\ installed = {} => \A c \in activated : bonds = WeightsOf(c)
        /\ installed # {} => bonds = WeightsOf(state)
    BY <2>1, Zenon DEF DurInv, Loaded, Working, Serving
  <2>3. \A x \in e : \A c \in m : x.old = WeightsOf(c)
    BY <2>1, <2>2, Found, Zenon DEF Fits
  <2>4. installed # {} => e # {}
    BY <2>2 DEF DurInv, Typed
  <2> QED
    BY <2>2, <2>3, <2>4
<1> QED
  BY <1>1, Durable, PTL

(***************************************************************************)
(* Nothing past the sealed prefix of a committed epoch is published under  *)
(* the old weights, whatever faults come before: EpochSealsOldWeights      *)
(* under the same generality.                                              *)
(***************************************************************************)
THEOREM SealedPrefix == Spec => []EpochSealsOldWeights
<1>1. DurInv => EpochSealsOldWeights
  <2> SUFFICES ASSUME DurInv, NEW e \in seen["epoch"], seen["snapshot"] = {e.chain},
                      output > e.sealed
               PROVE  bonds = WeightsOf(e.chain)
    BY DEF EpochSealsOldWeights
  <2>1. seen["epoch"] \in Opt(Record) /\ output \in Nat /\ lace \in Nat
    BY PorAssumption DEF DurInv, Typed, File
  <2>2. e.sealed \in Nat /\ output # 0
    <3>1. e \in Record
      BY <2>1, OptIs
    <3>2. e.sealed \in 0 .. MaxOutput
      BY <3>1 DEF Record
    <3> QED
      BY <2>1, <3>2, PorAssumption
  <2>3. pc \in Serving
    BY <2>2, Zenon DEF DurInv, Typed, Fresh, Opening
  <2>4. CASE pc \in Working
    <3>1. seen["snapshot"] = {state} /\ record = seen["epoch"]
      BY <2>4, Zenon DEF DurInv, Loaded
    <3>2. pc # "activate" /\ pc # "retry"
      BY <3>1, Zenon DEF DurInv, Loaded
    <3>3. installed = record
      BY <2>2, <2>4, <3>2 DEF DurInv, Loaded, Working
    <3> QED
      BY <2>3, <3>1, <3>2, <3>3, Zenon DEF DurInv, Loaded, Serving
  <2>5. CASE pc \in {"propose", "commit", "append"}
    <3>1. PICK j \in job :
              /\ \A x \in j.epoch : x.chain = j.chain /\ x.sealed = output
              /\ pc = "propose" => seen["epoch"] = IF renamed THEN j.epoch ELSE {}
              /\ pc # "propose" => seen["epoch"] = j.epoch
      BY <2>5 DEF DurInv, Committing
    <3>2. e \in j.epoch
      BY <3>1
    <3> QED
      BY <2>1, <2>2, <3>1, <3>2, SMTT(30)
  <2> QED
    BY <2>3, <2>4, <2>5 DEF Serving, Working
<1> QED
  BY <1>1, Durable, PTL

-----------------------------------------------------------------------------
(***************************************************************************)
(* The block history.  Power failures and other faults do not come in one  *)
(* behaviour.                                                              *)
(***************************************************************************)
\* The blocks of a state are those of the state before it, and its own.
LEMMA HistIs ==
    /\ Hist(<<>>) = {}
    /\ \A c \in Chain : \A f \in Hist(c) : f \in Chain /\ f # <<>> /\ Len(f) <= Len(c)
    /\ \A c \in Chain : c # <<>> => /\ Hist(c) = Hist(previous(c)) \cup {c} /\ c \notin Hist(previous(c))
                                    /\ c \in Hist(c)
    /\ \A c \in Chain : \A f, g \in Hist(c) : Len(f) < Len(g) => previous(g) \in Hist(c)
    /\ \A c \in Chain : \A f \in Hist(c) : Len(f) = Len(c) => f = c
<1>1. Hist(<<>>) = {}
  BY DEF Hist
<1>2. ASSUME NEW c \in Chain, NEW k \in 1 .. Len(c)
      PROVE  /\ SubSeq(c, 1, k) \in Chain /\ Len(SubSeq(c, 1, k)) = k
             /\ \A i \in 1 .. k : SubSeq(c, 1, k)[i] = c[i]
  <2>1. c \in Seq(Outcome) /\ Len(c) \in 0 .. MaxRound
    BY ChainIsSeq
  <2>2. k \in Nat /\ k <= Len(c) /\ k <= MaxRound
    BY <2>1, PorAssumption
  <2>3. /\ SubSeq(c, 1, k) \in Seq(Outcome) /\ Len(SubSeq(c, 1, k)) = k
        /\ \A i \in 1 .. k : SubSeq(c, 1, k)[i] = c[i]
    BY <2>1, <2>2, PrefixSeq
  <2>4. Len(SubSeq(c, 1, k)) <= MaxRound
    BY <2>2, <2>3
  <2>5. SubSeq(c, 1, k) \in Chain
    BY <2>3, <2>4, ChainIsSeq, Zenon
  <2> QED
    BY <2>3, <2>5
<1>3. ASSUME NEW c \in Chain, NEW f \in Hist(c)
      PROVE  f \in Chain /\ f # <<>> /\ Len(f) \in 1 .. Len(c) /\ f = SubSeq(c, 1, Len(f))
  <2>1. PICK k \in 1 .. Len(c) : f = SubSeq(c, 1, k)
    BY DEF Hist
  <2>2. f \in Chain /\ Len(f) = k
    BY <1>2, <2>1
  <2>3. Len(<<>>) = 0 /\ k # 0
    BY ChainIsSeq
  <2> QED
    BY <2>1, <2>2, <2>3
<1>4. ASSUME NEW c \in Chain, c # <<>>, NEW k \in 1 .. Len(c) - 1
      PROVE  SubSeq(previous(c), 1, k) = SubSeq(c, 1, k)
  <2>1. c \in Seq(Outcome) /\ Len(c) \in Nat /\ Len(c) - 1 \in Nat /\ k \in Nat
    BY ChainIsSeq
  <2>2. /\ previous(c) \in Seq(Outcome) /\ Len(previous(c)) = Len(c) - 1
        /\ \A i \in 1 .. Len(c) - 1 : previous(c)[i] = c[i]
    BY <2>1, PrefixSeq DEF previous
  <2>3. /\ SubSeq(c, 1, k) \in Seq(Outcome) /\ Len(SubSeq(c, 1, k)) = k
        /\ \A i \in 1 .. k : SubSeq(c, 1, k)[i] = c[i]
    BY <2>1, PrefixSeq
  <2>4. /\ SubSeq(previous(c), 1, k) \in Seq(Outcome) /\ Len(SubSeq(previous(c), 1, k)) = k
        /\ \A i \in 1 .. k : SubSeq(previous(c), 1, k)[i] = previous(c)[i]
    BY <2>1, <2>2, PrefixSeq
  <2>5. \A i \in 1 .. k : SubSeq(previous(c), 1, k)[i] = SubSeq(c, 1, k)[i]
    BY <2>1, <2>2, <2>3, <2>4
  <2> QED
    BY <2>3, <2>4, <2>5
<1>5. ASSUME NEW c \in Chain, c # <<>>
      PROVE  Hist(c) = Hist(previous(c)) \cup {c} /\ c \notin Hist(previous(c)) /\ c \in Hist(c)
  <2>1. /\ c \in Seq(Outcome) /\ Len(c) \in Nat /\ Len(c) >= 1 /\ previous(c) \in Chain
        /\ Len(previous(c)) = Len(c) - 1
    BY <1>5, ChainIsSeq, NextRound
  <2>2. SubSeq(c, 1, Len(c)) = c
    BY <2>1
  <2>3. c \in Hist(c)
    BY <2>1, <2>2 DEF Hist
  <2>4. c \notin Hist(previous(c))
    BY <1>3, <2>1
  <2>5. ASSUME NEW f \in Hist(c), f # c PROVE f \in Hist(previous(c))
    <3>1. PICK k \in 1 .. Len(c) : f = SubSeq(c, 1, k)
      BY DEF Hist
    <3>2. k \in 1 .. Len(previous(c)) /\ k \in 1 .. Len(c) - 1
      BY <2>1, <2>2, <2>5, <3>1
    <3>3. f = SubSeq(previous(c), 1, k)
      BY <1>4, <1>5, <3>1, <3>2
    <3> QED
      BY <3>2, <3>3 DEF Hist
  <2>6. ASSUME NEW f \in Hist(previous(c)) PROVE f \in Hist(c)
    <3>1. PICK k \in 1 .. Len(previous(c)) : f = SubSeq(previous(c), 1, k)
      BY DEF Hist
    <3>2. k \in 1 .. Len(c) /\ k \in 1 .. Len(c) - 1
      BY <2>1, <3>1
    <3>3. f = SubSeq(c, 1, k)
      BY <1>4, <1>5, <3>1, <3>2
    <3> QED
      BY <3>2, <3>3 DEF Hist
  <2> QED
    BY <2>3, <2>4, <2>5, <2>6
<1>6. ASSUME NEW c \in Chain, NEW f \in Hist(c), NEW g \in Hist(c), Len(f) < Len(g)
      PROVE  previous(g) \in Hist(c)
  <2> DEFINE k == Len(g) - 1
  <2>1. /\ Len(c) \in Nat /\ Len(f) \in 1 .. Len(c) /\ Len(g) \in 1 .. Len(c)
        /\ g = SubSeq(c, 1, Len(g)) /\ g \in Chain /\ g # <<>>
    BY <1>3, ChainIsSeq
  <2>2. k \in 1 .. Len(c) /\ k \in 1 .. Len(g) - 1 /\ k \in Nat
    BY <1>6, <2>1
  <2>3. g \in Seq(Outcome) /\ c \in Seq(Outcome)
    BY <2>1, ChainIsSeq
  <2>4. /\ previous(g) \in Seq(Outcome) /\ Len(previous(g)) = k /\ \A i \in 1 .. k : previous(g)[i] = g[i]
    BY <2>2, <2>3, PrefixSeq DEF previous
  <2>5. \A i \in 1 .. Len(g) : g[i] = c[i]
    BY <1>2, <2>1
  <2>6. /\ SubSeq(c, 1, k) \in Chain /\ Len(SubSeq(c, 1, k)) = k
        /\ \A i \in 1 .. k : SubSeq(c, 1, k)[i] = c[i]
    BY <1>2, <2>2
  <2>7. \A i \in 1 .. k : previous(g)[i] = SubSeq(c, 1, k)[i]
    BY <2>1, <2>2, <2>4, <2>5, <2>6
  <2>8. SubSeq(c, 1, k) \in Seq(Outcome)
    BY <2>6, ChainIsSeq, Zenon
  <2> HIDE DEF k
  <2>9. previous(g) = SubSeq(c, 1, k)
    BY <2>4, <2>6, <2>7, <2>8
  <2> QED
    BY <2>2, <2>9 DEF Hist
<1>7. ASSUME NEW c \in Chain, NEW f \in Hist(c), Len(f) = Len(c) PROVE f = c
  <2>1. f = SubSeq(c, 1, Len(c)) /\ c \in Seq(Outcome)
    BY <1>3, <1>7, ChainIsSeq
  <2> QED
    BY <2>1
<1>8. \A c \in Chain : \A f \in Hist(c) : f \in Chain /\ f # <<>> /\ Len(f) <= Len(c)
  BY <1>3, ChainIsSeq
<1> QED
  BY <1>1, <1>5, <1>6, <1>7, <1>8

\* A history that ends with the snapshot or one block before it reconciles.
LEMMA HistReconciles ==
    ASSUME state \in Chain, files = Hist(state) \/ (state # <<>> /\ files = Hist(previous(state)))
    PROVE  reconciles
<1>1. CASE state = <<>>
  BY <1>1, HistIs DEF reconciles
<1>2. ASSUME NEW c \in Chain, c # <<>>, files = Hist(c) PROVE tip = c
  <2>1. c \in files /\ \A g \in files : Len(g) <= Len(c)
    BY <1>2, HistIs
  <2>2. \E f \in files : \A g \in files : Len(g) <= Len(f)
    BY <2>1
  <2>3. tip \in files /\ \A g \in files : Len(g) <= Len(tip)
    BY <2>2 DEF tip
  <2>4. Len(tip) \in Nat /\ Len(c) \in Nat /\ tip \in Chain
    BY <1>2, <2>3, HistIs, ChainIsSeq
  <2>5. Len(tip) = Len(c)
    BY <2>1, <2>3, <2>4
  <2> QED
    BY <1>2, <2>3, <2>5, HistIs
<1>3. CASE state # <<>>
  <2>1. previous(state) \in Chain
    BY <1>3, NextRound
  <2>2. \A f, g \in files : Len(f) < Len(g) => previous(g) \in files
    BY <2>1, HistIs
  <2>3. CASE files = Hist(state)
    BY <1>2, <1>3, <2>2, <2>3 DEF reconciles
  <2>4. CASE files = Hist(previous(state)) /\ previous(state) # <<>>
    BY <1>2, <1>3, <2>1, <2>2, <2>4 DEF reconciles
  <2>5. CASE files = Hist(previous(state)) /\ previous(state) = <<>>
    BY <2>5, HistIs DEF reconciles
  <2> QED
    BY <2>3, <2>4, <2>5
<1> QED
  BY <1>1, <1>3

\* A step that leaves the snapshot, the history and what was served alone.
Quiet ==
    /\ UNCHANGED <<files, firm, acked, faults, crashes, powers>>
    /\ seen'["snapshot"] = seen["snapshot"]

\* A step that leaves the files and their record alone keeps the record.
LEMMA QuietKeeps == Recorded /\ Quiet => Counted' /\ Chained' /\ Backed'
<1> SUFFICES ASSUME Recorded, Quiet PROVE Counted' /\ Chained' /\ Backed'
  OBVIOUS
<1>1. Counted'
  BY DEF Recorded, Counted, Quiet
<1>2. Chained'
  BY Zenon DEF Recorded, Chained, Quiet
<1>3. Backed'
  BY DEF Recorded, Backed, Quiet
<1> QED
  BY <1>1, <1>2, <1>3

\* PorStateStore::open.
LEMMA open_state_records == DurInv /\ Recorded /\ open_state => Recorded'
<1> SUFFICES ASSUME DurInv, Recorded, open_state PROVE Recorded'
  OBVIOUS
<1>1. Quiet
  BY Zenon DEF Quiet, open_state, disk, ghosts
<1>2. Placed'
  <2>1. /\ pc' \in {"init", "history"} /\ kept' = kept
        /\ pc' = "init" => seen["snapshot"] = {}
    BY DEF open_state, disk
  <2>2. seen["snapshot"] \in kept["snapshot"]
    BY DEF DurInv, Typed, File
  <2> QED
    BY <2>1, <2>2 DEF Placed
<1>3. Firmed'
  BY Zenon DEF DurInv, Typed, Recorded, Firmed, Renames, Links, open_state, disk, ghosts
<1> QED
  BY <1>1, <1>2, <1>3, QuietKeeps DEF Recorded

\* The initial state is persisted.
LEMMA initialized_records == DurInv /\ Recorded /\ initialized => Recorded'
<1> SUFFICES ASSUME DurInv, Recorded, initialized PROVE Recorded'
  OBVIOUS
<1>1. Quiet
  BY DEF Quiet, initialized, memory, ghosts, sync_all, done, goto
<1>2. Placed'
  BY Zenon DEF DurInv, Typed, Recorded, Placed, File, Renames, Links, initialized, memory, ghosts,
     sync_all, done, goto
<1>3. Firmed'
  BY Zenon DEF DurInv, Typed, Recorded, Firmed, Renames, Links, initialized, memory, ghosts,
     sync_all, done, goto
<1> QED
  BY <1>1, <1>2, <1>3, QuietKeeps DEF Recorded

\* The records are read.
LEMMA open_epoch_records == DurInv /\ Recorded /\ open_epoch => Recorded'
<1> SUFFICES ASSUME DurInv, Recorded, open_epoch PROVE Recorded'
  OBVIOUS
<1>1. Quiet
  BY Zenon DEF Quiet, open_epoch, disk, ghosts, goto
<1>2. Placed'
  BY Zenon DEF DurInv, Typed, Recorded, Placed, File, Renames, Links, open_epoch, disk, ghosts,
     goto
<1>3. Firmed'
  BY Zenon DEF DurInv, Typed, Recorded, Firmed, Renames, Links, open_epoch, disk, ghosts, goto
<1> QED
  BY <1>1, <1>2, <1>3, QuietKeeps DEF Recorded

\* The discarded proposal is synced.
LEMMA discarded_records == DurInv /\ Recorded /\ discarded => Recorded'
<1> SUFFICES ASSUME DurInv, Recorded, discarded PROVE Recorded'
  OBVIOUS
<1>1. Quiet
  BY DEF Quiet, discarded, memory, ghosts, sync_all, done, goto
<1>2. Placed'
  BY Zenon DEF DurInv, Typed, Recorded, Placed, File, Renames, Links, discarded, memory, ghosts,
     sync_all, done, goto
<1>3. Firmed'
  BY Zenon DEF DurInv, Typed, Recorded, Firmed, Renames, Links, discarded, memory, ghosts,
     sync_all, done, goto
<1> QED
  BY <1>1, <1>2, <1>3, QuietKeeps DEF Recorded

\* The proposal is synced.
LEMMA proposed_records == DurInv /\ Recorded /\ proposed => Recorded'
<1> SUFFICES ASSUME DurInv, Recorded, proposed PROVE Recorded'
  OBVIOUS
<1>1. Quiet
  BY DEF Quiet, proposed, memory, ghosts, sync_all, done, goto
<1>2. Placed'
  BY Zenon DEF DurInv, Typed, Recorded, Placed, File, Renames, Links, proposed, memory, ghosts,
     sync_all, done, goto
<1>3. Firmed'
  BY Zenon DEF DurInv, Typed, Recorded, Firmed, Renames, Links, proposed, memory, ghosts,
     sync_all, done, goto
<1> QED
  BY <1>1, <1>2, <1>3, QuietKeeps DEF Recorded

\* The snapshot is synced.
LEMMA snapshot_committed_records == DurInv /\ Recorded /\ snapshot_committed => Recorded'
<1> SUFFICES ASSUME DurInv, Recorded, snapshot_committed PROVE Recorded'
  OBVIOUS
<1>1. Quiet
  BY DEF Quiet, snapshot_committed, memory, ghosts, sync_all, done, goto
<1>2. Placed'
  BY Zenon DEF DurInv, Typed, Recorded, Placed, File, Renames, Links, snapshot_committed, memory,
     ghosts, sync_all, done, goto
<1>3. Firmed'
  BY Zenon DEF DurInv, Typed, Recorded, Firmed, Renames, Links, snapshot_committed, memory,
     ghosts, sync_all, done, goto
<1> QED
  BY <1>1, <1>2, <1>3, QuietKeeps DEF Recorded

\* The status is synced.
LEMMA status_written_records == DurInv /\ Recorded /\ status_written => Recorded'
<1> SUFFICES ASSUME DurInv, Recorded, status_written PROVE Recorded'
  OBVIOUS
<1>1. Quiet
  BY DEF Quiet, status_written, memory, ghosts, sync_all, done, goto
<1>2. Placed'
  BY Zenon DEF DurInv, Typed, Recorded, Placed, File, Renames, Links, status_written, memory,
     ghosts, sync_all, done, goto
<1>3. Firmed'
  BY Zenon DEF DurInv, Typed, Recorded, Firmed, Renames, Links, status_written, memory, ghosts,
     sync_all, done, goto
<1> QED
  BY <1>1, <1>2, <1>3, QuietKeeps DEF Recorded

\* The activation is recorded.
LEMMA activation_recorded_records == DurInv /\ Recorded /\ activation_recorded => Recorded'
<1> SUFFICES ASSUME DurInv, Recorded, activation_recorded PROVE Recorded'
  OBVIOUS
<1>1. Quiet
  BY DEF Quiet, activation_recorded, ghosts, sync_all, done, goto
<1>2. Placed'
  BY Zenon DEF DurInv, Typed, Recorded, Placed, File, Renames, Links, activation_recorded, ghosts,
     sync_all, done, goto
<1>3. Firmed'
  BY Zenon DEF DurInv, Typed, Recorded, Firmed, Renames, Links, activation_recorded, ghosts,
     sync_all, done, goto
<1> QED
  BY <1>1, <1>2, <1>3, QuietKeeps DEF Recorded

\* The host node is polled.
LEMMA poll_records == DurInv /\ Recorded /\ (\E n \in lace .. MaxOutput : poll(n)) => Recorded'
<1> SUFFICES ASSUME DurInv, Recorded, (\E n \in lace .. MaxOutput : poll(n)) PROVE Recorded'
  OBVIOUS
<1>1. Quiet
  BY DEF Quiet, poll, disk, ghosts, goto
<1>2. Placed'
  BY Zenon DEF DurInv, Typed, Recorded, Placed, File, Renames, Links, poll, disk, ghosts, goto
<1>3. Firmed'
  BY Zenon DEF DurInv, Typed, Recorded, Firmed, Renames, Links, poll, disk, ghosts, goto
<1> QED
  BY <1>1, <1>2, <1>3, QuietKeeps DEF Recorded

\* The order is published.
LEMMA publish_records == DurInv /\ Recorded /\ publish => Recorded'
<1> SUFFICES ASSUME DurInv, Recorded, publish PROVE Recorded'
  OBVIOUS
<1>1. Quiet
  BY DEF Quiet, publish, disk, ghosts, goto
<1>2. Placed'
  BY DEF DurInv, Typed, Recorded, Placed, File, Renames, Links, publish, disk, ghosts, goto
<1>3. Firmed'
  BY DEF DurInv, Typed, Recorded, Firmed, Renames, Links, publish, disk, ghosts, goto
<1> QED
  BY <1>1, <1>2, <1>3, QuietKeeps DEF Recorded

\* A pending activation is retried.
LEMMA retry_weight_activation_records == DurInv /\ Recorded /\ retry_weight_activation => Recorded'
<1> SUFFICES ASSUME DurInv, Recorded, retry_weight_activation PROVE Recorded'
  OBVIOUS
<1>1. Quiet
  BY DEF Quiet, retry_weight_activation, disk, ghosts, goto
<1>2. Placed'
  BY Zenon DEF DurInv, Typed, Recorded, Placed, File, Renames, Links, retry_weight_activation,
     disk, ghosts, goto
<1>3. Firmed'
  BY Zenon DEF DurInv, Typed, Recorded, Firmed, Renames, Links, retry_weight_activation, disk,
     ghosts, goto
<1> QED
  BY <1>1, <1>2, <1>3, QuietKeeps DEF Recorded

\* The status is validated.
LEMMA validate_recovered_records == DurInv /\ Recorded /\ validate_recovered => Recorded'
<1> SUFFICES ASSUME DurInv, Recorded, validate_recovered PROVE Recorded'
  OBVIOUS
<1>1. Quiet
  BY DEF Quiet, validate_recovered, disk, memory, ghosts, goto
<1>2. Placed'
  BY Zenon DEF DurInv, Typed, Recorded, Placed, File, Renames, Links, validate_recovered, disk,
     memory, ghosts, goto
<1>3. Firmed'
  BY Zenon DEF DurInv, Typed, Recorded, Firmed, Renames, Links, validate_recovered, disk, memory,
     ghosts, goto
<1> QED
  BY <1>1, <1>2, <1>3, QuietKeeps DEF Recorded

\* No round commits.
LEMMA no_commit_records == DurInv /\ Recorded /\ no_commit => Recorded'
<1> SUFFICES ASSUME DurInv, Recorded, no_commit PROVE Recorded'
  OBVIOUS
<1>1. Quiet
  BY DEF Quiet, no_commit, disk, memory, ghosts, goto
<1>2. Placed'
  BY Zenon DEF DurInv, Typed, Recorded, Placed, File, Renames, Links, no_commit, disk, memory,
     ghosts, goto
<1>3. Firmed'
  BY Zenon DEF DurInv, Typed, Recorded, Firmed, Renames, Links, no_commit, disk, memory, ghosts,
     goto
<1> QED
  BY <1>1, <1>2, <1>3, QuietKeeps DEF Recorded

\* The history is open: it ends with the snapshot, or is reconciled.
LEMMA open_history_records == DurInv /\ Recorded /\ open_history => Recorded'
<1> SUFFICES ASSUME DurInv, Recorded, open_history PROVE Recorded'
  OBVIOUS
<1>1. Quiet
  BY DEF Quiet, open_history, ghosts
<1>2. Placed'
  <2>1. /\ pc = "history" /\ files' = files /\ state' = state /\ renamed' = FALSE
        /\ pc' = IF state = <<>> \/ state \in files THEN "epoch" ELSE "reconcile"
    BY DEF open_history, memory, goto
  <2>2. state \in Chain /\ seen["snapshot"] = {state}
    <3>1. state \in Chain
      BY DEF DurInv, Typed
    <3>2. seen["snapshot"] = {state}
      BY <2>1 DEF DurInv, Fresh
    <3> QED
      BY <3>1, <3>2
  <2>3. files = Hist(state) \/ (state # <<>> /\ files = Hist(previous(state)))
    BY <2>2 DEF Recorded, Chained
  <2>4. state \in files <=> (state # <<>> /\ files = Hist(state))
    BY <2>2, <2>3, HistIs
  <2> QED
    BY <2>1, <2>3, <2>4, Zenon DEF Placed
<1>3. Firmed'
  BY Zenon DEF DurInv, Typed, Recorded, Firmed, Renames, Links, open_history, memory, ghosts, sync_all,
         goto
<1> QED
  BY <1>1, <1>2, <1>3, QuietKeeps DEF Recorded

\* The block of the committed state.
LEMMA hard_link_records == DurInv /\ Recorded /\ hard_link => Recorded'
<1> SUFFICES ASSUME DurInv, Recorded, hard_link PROVE Recorded'
  OBVIOUS
<1>1. /\ pc \in Links /\ ~ renamed /\ renamed' = TRUE /\ files \subseteq files'
      /\ UNCHANGED <<seen, kept, firm, pc, state, job, acked, faults, crashes, powers>>
  BY DEF hard_link, memory, ghosts
<1>2. Counted' /\ Backed'
  BY <1>1 DEF Recorded, Counted, Backed
<1>3. CASE pc = "reconcile"
  <2>1. /\ state \in Chain /\ state # <<>> /\ files = Hist(previous(state)) /\ files' = files \cup {state}
        /\ seen["snapshot"] = {state}
    <3>1. state \in Chain
      BY DEF DurInv, Typed
    <3>2. seen["snapshot"] = {state}
      BY <1>3 DEF DurInv, Fresh
    <3>3. state # <<>> /\ files = Hist(previous(state))
      BY <1>1, <1>3 DEF Recorded, Placed
    <3> QED
      BY <1>3, <3>1, <3>2, <3>3, Zenon DEF hard_link
  <2>2. files' = Hist(state)
    BY <2>1, HistIs
  <2>3. Chained'
    BY <1>1, <2>1, <2>2 DEF Chained
  <2>4. Placed'
    BY <1>1, <1>3, <2>1, <2>2 DEF Placed
  <2>5. faults + crashes = 0 => firm = files
    BY <1>1, Zenon DEF Recorded, Firmed
  <2>6. Firmed'
    BY <1>1, <1>3, <2>1, <2>5 DEF Firmed
  <2> QED
    BY <1>2, <2>3, <2>4, <2>6 DEF Recorded
<1>4. CASE pc = "append"
  <2>1. PICK j \in job : j.chain # <<>> /\ previous(j.chain) = state /\ seen["snapshot"] = {j.chain}
    BY <1>4, Zenon DEF DurInv, Committing
  <2>2. job = {j} /\ j.chain \in Chain
    BY Singletons DEF DurInv
  <2>3. files' = files \cup {j.chain} /\ files = Hist(state)
    BY <1>1, <1>4, <2>2 DEF Recorded, Placed, hard_link
  <2>4. files' = Hist(j.chain)
    BY <2>1, <2>2, <2>3, HistIs
  <2>5. Chained'
    BY <1>1, <2>1, <2>4 DEF Chained
  <2>6. Placed'
    BY <1>1, <1>4, <2>2, <2>4 DEF Placed
  <2>7. faults + crashes = 0 => firm = files
    BY <1>1 DEF Recorded, Firmed
  <2>8. Firmed'
    BY <1>1, <1>4, <2>3, <2>7 DEF Firmed
  <2> QED
    BY <1>2, <2>5, <2>6, <2>8 DEF Recorded
<1> QED
  BY <1>1, <1>3, <1>4 DEF Links

\* The history is reconciled.
LEMMA reconciled_records == DurInv /\ Recorded /\ reconciled => Recorded'
<1> SUFFICES ASSUME DurInv, Recorded, reconciled PROVE Recorded'
  OBVIOUS
<1>1. /\ pc = "reconcile" /\ renamed /\ pc' = "epoch" /\ renamed' = FALSE /\ firm' = files
      /\ UNCHANGED <<seen, kept, files, state, acked, faults, crashes, powers>>
  BY DEF reconciled, done, goto, memory, ghosts
<1>2. Counted' /\ Chained'
  BY <1>1 DEF Recorded, Counted, Chained
<1>3. Placed'
  BY <1>1 DEF Recorded, Placed
<1>4. \A f \in File : kept[f] = {seen[f]}
  BY <1>1 DEF DurInv, Settled, target, File
<1>5. Firmed' /\ Backed'
  BY <1>1, <1>4, Zenon DEF Recorded, Firmed, Backed
<1> QED
  BY <1>2, <1>3, <1>5 DEF Recorded

\* The runtime serves the state it has opened.
LEMMA open_weights_records == DurInv /\ Recorded /\ open_weights => Recorded'
<1> SUFFICES ASSUME DurInv, Recorded, open_weights PROVE Recorded'
  OBVIOUS
<1>1. /\ pc = "weights" /\ pc' \in {"idle", "activate"} /\ renamed' = FALSE /\ acked' = state
      /\ UNCHANGED <<seen, kept, files, firm, state, faults, crashes, powers>>
  BY DEF open_weights, disk, goto
<1>2. files = Hist(state) /\ (faults + crashes = 0 => firm = files) /\ ~ renamed
  BY <1>1, Zenon DEF DurInv, Typed, Renames, Recorded, Placed, Firmed, Links
<1>3. Counted' /\ Chained'
  BY <1>1, Zenon DEF Recorded, Counted, Chained
<1>4. Placed'
  BY <1>1, <1>2 DEF Placed
<1>5. Firmed' /\ Backed'
  BY <1>1, <1>2 DEF Recorded, Firmed, Backed, Links
<1> QED
  BY <1>3, <1>4, <1>5 DEF Recorded

\* The commit of a round begins.
LEMMA commit_records ==
    ASSUME DurInv, Recorded, NEW o \in Outcome,
           \/ commit_completed_round(o) \/ commit_completed_checkpoint_round(o)
           \/ commit_completed_checkpoint_round_with_epoch(o)
    PROVE  Recorded'
<1>1. /\ pc = "rounds" /\ pc' \in {"propose", "commit"} /\ renamed' = FALSE
      /\ UNCHANGED <<seen, kept, files, firm, state, acked, faults, crashes, powers>>
  BY Zenon DEF commit_completed_round, commit_completed_checkpoint_round,
         commit_completed_checkpoint_round_with_epoch, begin_commit, goto, disk, ghosts
<1>2. Quiet
  BY <1>1 DEF Quiet
<1>4. ~ renamed
  BY <1>1 DEF DurInv, Typed, Renames, Links
<1>6. kept["snapshot"] = {seen["snapshot"]}
  BY <1>1, <1>4 DEF DurInv, Settled, File
<1>3. Placed'
  BY <1>1, <1>6, Zenon DEF Recorded, Placed
<1>5. Firmed'
  BY <1>1, <1>4, Zenon DEF Recorded, Firmed, Links
<1> QED
  BY <1>2, <1>3, <1>5, QuietKeeps DEF Recorded

\* The round is committed and served.
LEMMA committed_records == DurInv /\ Recorded /\ committed => Recorded'
<1> SUFFICES ASSUME DurInv, Recorded, committed PROVE Recorded'
  OBVIOUS
<1>1. PICK j \in job : state' = j.chain /\ acked' = j.chain
  BY Zenon DEF committed
<1>2. /\ pc = "append" /\ renamed /\ pc' \in {"activate", "status"} /\ renamed' = FALSE
      /\ firm' = files /\ UNCHANGED <<seen, kept, files, faults, crashes, powers>>
  BY Zenon DEF committed, done, goto
<1>3. files = Hist(j.chain)
  BY <1>2, Zenon DEF Recorded, Placed
<1>4. Counted' /\ Chained'
  BY <1>2 DEF Recorded, Counted, Chained
<1>5. Placed'
  BY <1>1, <1>2, <1>3 DEF Placed
<1>6. \A f \in File : kept[f] = {seen[f]}
  BY <1>2 DEF DurInv, Settled, target, File
<1>7. Firmed' /\ Backed'
  BY <1>1, <1>2, <1>3, <1>6 DEF Firmed, Backed
<1> QED
  BY <1>4, <1>5, <1>7 DEF Recorded

\* The writes leave the history alone.
LEMMA rename_records == DurInv /\ Recorded /\ rename => Recorded'
<1> SUFFICES ASSUME DurInv, Recorded, rename PROVE Recorded'
  OBVIOUS
<1>1. /\ pc \in Renames /\ ~ renamed /\ renamed' = TRUE
      /\ UNCHANGED <<files, firm, pc, state, job, acked, faults, crashes, powers>>
  BY DEF rename, memory, ghosts
<1>2. Counted' /\ Backed'
  BY <1>1 DEF Recorded, Counted, Backed
<1>3. Firmed'
  BY <1>1 DEF Recorded, Firmed, Renames, Links
<1>4. seen = [f \in File |-> seen[f]] /\ kept = [f \in File |-> kept[f]]
  BY DEF DurInv, Typed
<1>5. CASE pc = "init"
  <2>1. written = [file |-> "snapshot", to |-> {<<>>}]
    BY <1>5 DEF written
  <2>2. seen["snapshot"] = {} /\ files = {} /\ {} \in kept["snapshot"]
    BY <1>1, <1>5, Zenon DEF DurInv, Fresh, Recorded, Chained, Placed
  <2>3. seen'["snapshot"] = {<<>>} /\ {} \in kept'["snapshot"]
    BY <1>4, <2>1, <2>2 DEF rename, File
  <2>4. Chained'
    BY <1>1, <2>2, <2>3, HistIs, Zenon DEF Chained
  <2>5. Placed'
    BY <1>1, <1>5, <2>3, Zenon DEF Placed
  <2> QED
    BY <1>2, <1>3, <2>4, <2>5 DEF Recorded
<1>6. CASE pc = "commit"
  <2>1. PICK j \in job : j.chain # <<>> /\ previous(j.chain) = state /\ seen["snapshot"] = {state}
    BY <1>1, <1>6 DEF DurInv, Committing
  <2>2. job = {j}
    BY Singletons DEF DurInv
  <2>3. written = [file |-> "snapshot", to |-> {j.chain}]
    <3>1. {k.chain : k \in job} = {j.chain}
      BY <2>2
    <3>2. written = [file |-> "snapshot", to |-> {k.chain : k \in job}]
      BY <1>6 DEF written
    <3> QED
      BY <3>1, <3>2, Zenon
  <2>4. kept["snapshot"] = {{state}}
    <3>1. kept["snapshot"] = {seen["snapshot"]}
      BY <1>1, <1>6 DEF DurInv, Settled, File
    <3> QED
      BY <2>1, <3>1
  <2>5. seen'["snapshot"] = {j.chain} /\ kept'["snapshot"] = {{state}} \cup {{j.chain}}
    BY <1>4, <2>3, <2>4 DEF rename, File
  <2>6. files = Hist(state)
    BY <1>6 DEF Recorded, Placed
  <2>7. Chained'
    BY <1>1, <2>1, <2>5, <2>6 DEF Chained
  <2>8. Placed'
    BY <1>1, <1>6, <2>5, <2>6, Zenon DEF Placed
  <2> QED
    BY <1>2, <1>3, <2>7, <2>8 DEF Recorded
<1>7. CASE pc \notin {"init", "commit"}
  <2>1. written.file # "snapshot"
    BY <1>1, <1>7 DEF written, Renames
  <2>2. seen'["snapshot"] = seen["snapshot"]
    <3> DEFINE f == written.file
               v == written.to
    <3>1. f # "snapshot" /\ seen' = [seen EXCEPT ![f] = v]
      BY <2>1 DEF rename
    <3> HIDE DEF f, v
    <3>2. DOMAIN seen = File
      BY <1>4
    <3> QED
      BY <3>1, <3>2 DEF File
  <2>3. Chained'
    BY <1>1, <2>2, Zenon DEF Recorded, Chained
  <2>4. Placed'
    BY <1>1, <1>7, Zenon DEF Recorded, Placed, Renames
  <2> QED
    BY <1>2, <1>3, <2>3, <2>4 DEF Recorded
<1> QED
  BY <1>5, <1>6, <1>7

\* Where each error comes from.
LEMMA ErrorMeans ==
    ASSUME NEW e \in errors
    PROVE  /\ e \in {"io", "History", "Activation", "FutureEpochStateMismatch", "MissingActivatedWeights",
                    "OldWeights", "EpochReplay", "refused", "unsafe", "lost", "regressed", "differs",
                    "late", "ConflictingRecord"}
           /\ e = "io" =>
                  powers = 0 \/ Mixed
           /\ e = "History" =>
                  pc = "history" /\ ~ reconciles
           /\ e = "Activation" =>
                  pc = "epoch" /\ \E m \in seen["marker"] : ~ validate_activation_record(m)
           /\ e = "FutureEpochStateMismatch" =>
                  pc = "epoch" /\ \E x \in seen["epoch"] :
                  ~ verify_epoch_state(x) /\ Len(x.chain) # Len(state) + 1
           /\ e = "MissingActivatedWeights" =>
                  pc = "weights" /\ activated = {} /\ (state # <<>> \/ record # {})
           /\ e = "OldWeights" =>
                  pc = "publish" /\ installed = {} /\ \E x \in record : bonds # x.old
           /\ e = "EpochReplay" =>
                  pc = "publish"
           /\ e = "refused" =>
                  pc = "retry"
           /\ e = "unsafe" =>
                  pc = "rounds"
           /\ e = "lost" =>
                  pc = "check"
           /\ e = "regressed" =>
                  pc = "check" /\ \E s \in seen["status"], c \in active :
                   Len(c) < Len(s.active)
           /\ e = "differs" =>
                  pc = "check" /\ \E s \in seen["status"], c \in active :
                   Len(c) = Len(s.active) /\ c # s.active
           /\ e = "late" =>
                  pc = "rounds"
           /\ e = "ConflictingRecord" =>
                  pc = "propose" /\ ~ renamed /\ \E j \in job : ~ seen["epoch"] \subseteq j.epoch
<1>1. ASSUME e = "io"
     PROVE  powers = 0 \/ Mixed
  BY <1>1 DEF errors
<1>2. ASSUME e = "History"
     PROVE  pc = "history" /\ ~ reconciles
  BY <1>2 DEF errors
<1>3. ASSUME e = "Activation"
     PROVE  pc = "epoch" /\ \E m \in seen["marker"] : ~ validate_activation_record(m)
  BY <1>3 DEF errors
<1>4. ASSUME e = "FutureEpochStateMismatch"
     PROVE  pc = "epoch" /\ \E x \in seen["epoch"] :
                  ~ verify_epoch_state(x) /\ Len(x.chain) # Len(state) + 1
  BY <1>4 DEF errors
<1>5. ASSUME e = "MissingActivatedWeights"
     PROVE  pc = "weights" /\ activated = {} /\ (state # <<>> \/ record # {})
  BY <1>5 DEF errors
<1>6. ASSUME e = "OldWeights"
     PROVE  pc = "publish" /\ installed = {} /\ \E x \in record : bonds # x.old
  BY <1>6 DEF errors
<1>7. ASSUME e = "EpochReplay"
     PROVE  pc = "publish"
  BY <1>7 DEF errors
<1>8. ASSUME e = "refused"
     PROVE  pc = "retry"
  BY <1>8 DEF errors
<1>9. ASSUME e = "unsafe"
     PROVE  pc = "rounds"
  BY <1>9 DEF errors
<1>10. ASSUME e = "lost"
     PROVE  pc = "check"
  BY <1>10 DEF errors
<1>11. ASSUME e = "regressed"
     PROVE  pc = "check" /\ \E s \in seen["status"], c \in active :
                   Len(c) < Len(s.active)
  BY <1>11 DEF errors
<1>12. ASSUME e = "differs"
     PROVE  pc = "check" /\ \E s \in seen["status"], c \in active :
                   Len(c) = Len(s.active) /\ c # s.active
  BY <1>12 DEF errors
<1>13. ASSUME e = "late"
     PROVE  pc = "rounds"
  BY <1>13 DEF errors
<1>14. ASSUME e = "ConflictingRecord"
     PROVE  pc = "propose" /\ ~ renamed /\ \E j \in job : ~ seen["epoch"] \subseteq j.epoch
  BY <1>14 DEF errors
<1>15. e \in {"io", "History", "Activation", "FutureEpochStateMismatch", "MissingActivatedWeights",
             "OldWeights", "EpochReplay", "refused", "unsafe", "lost", "regressed", "differs",
             "late", "ConflictingRecord"}
  BY DEF errors
<1> QED
  BY <1>1, <1>2, <1>3, <1>4, <1>5, <1>6, <1>7, <1>8,
     <1>9, <1>10, <1>11, <1>12, <1>13, <1>14, <1>15, Zenon

\* Errors other than those of a write come between writes.
LEMMA ErrorPlace ==
    ASSUME DurInv, NEW e \in errors, e # "io"
    PROVE  ~ renamed
<1>1. pc \in {"history", "epoch", "weights", "publish", "retry", "rounds", "check"} \/ ~ renamed
  BY ErrorMeans
<1> QED
  BY <1>1 DEF DurInv, Typed, Renames, Links

\* The process ends and the files are as they were.
LEMMA ended_records == ~ Mixed /\ DurInv /\ Recorded /\ (give_up \/ crash) => Recorded'
<1> SUFFICES ASSUME ~ Mixed, DurInv, Recorded, give_up \/ crash PROVE Recorded'
  OBVIOUS
<1>1. /\ pc' = "down" /\ renamed' = FALSE
      /\ UNCHANGED <<seen, kept, files, firm, acked, powers>>
  BY DEF give_up, crash, halt, disk
<1>2. /\ crashes' \in Nat /\ (faults' + crashes' = 0 => faults + crashes = 0 /\ ~ renamed)
      /\ powers = 0 \/ faults' + crashes' = faults + crashes
  <2>1. faults \in Nat /\ crashes \in Nat
    BY PorAssumption DEF DurInv, Typed, Recorded, Counted
  <2>2. CASE crash
    BY <2>1, <2>2 DEF crash
  <2>3. CASE give_up
    <3>1. PICK e \in errors : faults' = faults + (IF e = "io" THEN 1 ELSE 0)
      BY <2>3 DEF give_up
    <3>2. e = "io" => powers = 0
      BY ErrorMeans
    <3>3. crashes' = crashes
      BY <2>3 DEF give_up
    <3> QED
      BY <2>1, <3>1, <3>2, <3>3, ErrorPlace
  <2> QED
    BY <2>2, <2>3
<1>3. Counted'
  BY <1>1, <1>2 DEF Recorded, Counted
<1>4. Chained'
  BY <1>1 DEF Recorded, Chained
<1>5. Placed'
  BY <1>1 DEF Placed
<1>6. Firmed'
  BY <1>1, <1>2 DEF Recorded, Firmed, Links
<1>7. Backed'
  BY <1>1, <1>2 DEF Recorded, Backed
<1> QED
  BY <1>3, <1>4, <1>5, <1>6, <1>7 DEF Recorded

\* The power fails.
LEMMA power_failure_records == ~ Mixed /\ DurInv /\ Recorded /\ power_failure => Recorded'
<1> SUFFICES ASSUME ~ Mixed, DurInv, Recorded, power_failure PROVE Recorded'
  OBVIOUS
<1>1. /\ pc' = "down" /\ renamed' = FALSE /\ kept' = [f \in File |-> {seen'[f]}]
      /\ firm' = files' /\ powers' = powers + 1 /\ faults + crashes = 0
      /\ UNCHANGED <<acked, faults, crashes>>
  <2>1. halt /\ (Mixed \/ faults + crashes = 0)
    BY DEF power_failure
  <2> QED
    BY <2>1, Zenon DEF power_failure, halt
<1>2. firm \subseteq files' /\ files' \subseteq files
  BY Zenon DEF power_failure, DurInv, Typed
<1>3. seen'["snapshot"] \in kept["snapshot"]
  <2>1. seen = [f \in File |-> seen[f]]
    BY DEF DurInv, Typed
  <2> QED
    BY <2>1 DEF power_failure, File
<1>4. Counted'
  BY <1>1 DEF Recorded, Counted
<1>5. Placed'
  BY <1>1, Zenon DEF Placed
<1>6. Firmed'
  BY <1>1 DEF Firmed
<1>7. Backed'
  BY <1>1, <1>2 DEF Recorded, Backed
<1>8. Chained'
  <2>1. CASE ~ renamed
    <3>1. kept["snapshot"] = {seen["snapshot"]} /\ firm = files
      BY <1>1, <2>1 DEF Recorded, Firmed, File
    <3>2. seen'["snapshot"] = seen["snapshot"]
      BY <1>3, <3>1
    <3>3. files' = files
      BY <1>2, <3>1
    <3> QED
      BY <3>2, <3>3 DEF Recorded, Chained
  <2>2. CASE renamed /\ pc \in Links
    <3>1. seen'["snapshot"] = seen["snapshot"]
      BY <1>3, <2>2 DEF DurInv, Settled, target, Links, File
    <3>2. PICK c \in Chain : /\ c # <<>> /\ seen["snapshot"] = {c}
                             /\ files = Hist(c) /\ firm = Hist(previous(c))
      <4>1. CASE pc = "reconcile"
        <5>1. state \in Chain
          BY DEF DurInv, Typed
        <5>2. seen["snapshot"] = {state}
          BY <4>1, Zenon DEF DurInv, Fresh
        <5>3. state # <<>> /\ files = Hist(state)
          BY <2>2, <4>1, Zenon DEF Recorded, Placed
        <5>4. firm = Hist(previous(state))
          BY <1>1, <2>2, <4>1, Zenon DEF Recorded, Firmed
        <5> QED
          BY <5>1, <5>2, <5>3, <5>4
      <4>2. CASE pc = "append"
        <5>1. PICK j \in job : j.chain # <<>> /\ previous(j.chain) = state
                               /\ seen["snapshot"] = {j.chain}
          BY <4>2 DEF DurInv, Committing
        <5>2. j.chain \in Chain
          BY Singletons DEF DurInv
        <5>3. files = Hist(j.chain)
          BY <2>2, <4>2 DEF Recorded, Placed
        <5>4. firm = Hist(state)
          BY <1>1, <2>2, <4>2 DEF Recorded, Firmed
        <5> QED
          BY <5>1, <5>2, <5>3, <5>4, Zenon
      <4> QED
        BY <2>2, <4>1, <4>2 DEF Links
    <3>3. Hist(c) = Hist(previous(c)) \cup {c}
      BY <3>2, HistIs, Zenon
    <3>4. files' = Hist(c) \/ files' = Hist(previous(c))
      <4>1. Hist(previous(c)) \subseteq files' /\ files' \subseteq Hist(previous(c)) \cup {c}
        BY <1>2, <3>2, <3>3
      <4>2. c \in files' => files' = Hist(previous(c)) \cup {c}
        BY <4>1
      <4>3. c \notin files' => files' = Hist(previous(c))
        BY <4>1
      <4> QED
        BY <3>3, <4>2, <4>3
    <3> QED
      BY <3>1, <3>2, <3>4 DEF Chained
  <2>3. CASE renamed /\ pc \in Renames
    <3>1. files' = files
      <4>1. firm = files
        BY <1>1, <2>3 DEF Recorded, Firmed, Renames, Links
      <4> QED
        BY <1>2, <4>1
    <3>2. CASE pc = "init"
      <4>1. {} \in kept["snapshot"] /\ seen["snapshot"] = {<<>>}
        BY <2>3, <3>2, Zenon DEF DurInv, Fresh, Recorded, Placed
      <4>2. files = {}
        BY <4>1, HistIs, Zenon DEF Recorded, Chained
      <4>3. seen["marker"] \in kept["marker"] /\ seen["epoch"] \in kept["epoch"]
            /\ seen["status"] \in kept["status"]
        BY DEF DurInv, Typed, File
      <4>4. seen["marker"] = {}
        <5>1. Fits({}, seen["marker"], seen["epoch"], seen["status"])
          BY <4>1, <4>3, Zenon DEF DurInv, Sturdy
        <5> QED
          BY <5>1 DEF Fits
      <4>5. \A c \in seen'["snapshot"] : c = <<>>
        BY <1>3, <4>3, <4>4, SMTT(30) DEF DurInv, Sturdy, Fits
      <4> QED
        BY <3>1, <4>2, <4>5, HistIs DEF Chained
    <3>3. CASE pc = "commit"
      <4>1. seen'["snapshot"] = {state} \/ seen'["snapshot"] = seen["snapshot"]
        BY <1>3, <3>3 DEF Recorded, Placed
      <4>2. files = Hist(state)
        BY <3>3 DEF Recorded, Placed
      <4> QED
        BY <3>1, <4>1, <4>2 DEF Recorded, Chained
    <3>4. CASE pc \notin {"init", "commit"}
      <4>1. seen'["snapshot"] = seen["snapshot"]
        BY <1>3, <2>3, <3>4 DEF DurInv, Settled, target, Renames, File
      <4> QED
        BY <3>1, <4>1 DEF Recorded, Chained
    <3> QED
      BY <3>2, <3>3, <3>4
  <2> QED
    BY <2>1, <2>2, <2>3 DEF DurInv, Typed
<1> QED
  BY <1>4, <1>5, <1>6, <1>7, <1>8 DEF Recorded

\* The history is recorded at first, and stays so.
LEMMA RecordedInit == Init => Recorded
<1> SUFFICES ASSUME Init PROVE Recorded
  OBVIOUS
<1>1. Counted
  BY DEF Init, Counted
<1>2. \A f \in File : seen[f] = {} /\ kept[f] = {{}}
  BY DEF Init
<1>3. files = {} /\ firm = {} /\ pc = "down" /\ acked = <<>>
  BY DEF Init
<1>4. Chained
  BY <1>2, <1>3 DEF Chained, File
<1>5. Placed
  BY <1>3 DEF Placed
<1>6. Firmed
  <2>1. \A f \in File : kept[f] = {seen[f]}
    BY <1>2, Zenon
  <2>2. firm = files /\ pc \notin Links
    BY <1>3 DEF Links
  <2> QED
    BY <2>1, <2>2 DEF Firmed
<1>7. Backed
  BY <1>3, HistIs DEF Backed
<1> QED
  BY <1>1, <1>4, <1>5, <1>6, <1>7 DEF Recorded

\* Every step keeps the record of the rounds.
LEMMA RecordedNext == ~ Mixed /\ DurInv /\ Recorded /\ [Next]_vars => Recorded'
<1> SUFFICES ASSUME ~ Mixed, DurInv, Recorded, [Next]_vars PROVE Recorded'
  OBVIOUS
<1>1. CASE UNCHANGED vars
  <2>1. UNCHANGED <<seen, kept, files, firm, pc, renamed, state, job, acked, faults, crashes, powers>>
    BY <1>1 DEF vars, disk, memory, ghosts
  <2>2. Quiet
    BY <2>1 DEF Quiet
  <2>3. Placed'
    BY <2>1, Zenon DEF Recorded, Placed
  <2>4. Firmed'
    BY <2>1, Zenon DEF Recorded, Firmed
  <2> QED
    BY <2>2, <2>3, <2>4, QuietKeeps DEF Recorded
<1>2. CASE \E o \in Outcome : \/ commit_completed_round(o) \/ commit_completed_checkpoint_round(o)
                              \/ commit_completed_checkpoint_round_with_epoch(o)
  BY <1>2, commit_records
<1>3. CASE give_up \/ crash \/ power_failure
  BY <1>3, ended_records, power_failure_records
<1>4. CASE \E n \in lace .. MaxOutput : poll(n)
  BY <1>4, poll_records
<1>5. CASE Process
  BY <1>5, open_state_records, rename_records, hard_link_records, initialized_records,
     open_history_records, reconciled_records, open_epoch_records, discarded_records,
     open_weights_records, activation_recorded_records, publish_records,
     retry_weight_activation_records, validate_recovered_records, no_commit_records,
     proposed_records, snapshot_committed_records, committed_records, status_written_records
     DEF Process
<1> QED
  BY <1>1, <1>2, <1>3, <1>4, <1>5 DEF Next

(***************************************************************************)
(* A round the runtime has committed or served is in the snapshot and in   *)
(* the block history after any restart: CommittedRoundSurvives for every   *)
(* number of rounds and of faults, when power failures do not come with    *)
(* other faults.                                                           *)
(***************************************************************************)
THEOREM RoundsSurvive ==
    ASSUME ~ Mixed
    PROVE  Spec => []CommittedRoundSurvives
<1>1. DurInv /\ Recorded => CommittedRoundSurvives
  <2> SUFFICES ASSUME DurInv, Recorded, acked # <<>>
               PROVE  /\ \E c \in seen["snapshot"] : extends(c, acked)
                      /\ \A k \in 1 .. Len(acked) : SubSeq(acked, 1, k) \in files
    BY DEF CommittedRoundSurvives
  <2>1. \E c \in seen["snapshot"] : extends(c, acked)
    BY Zenon DEF DurInv, Typed, Sturdy, File
  <2>2. \A k \in 1 .. Len(acked) : SubSeq(acked, 1, k) \in Hist(acked)
    BY DEF Hist
  <2>3. Hist(acked) \subseteq files
    BY DEF Recorded, Backed
  <2> QED
    BY <2>1, <2>2, <2>3
<1>2. DurInv /\ Recorded /\ [Next]_vars => Recorded'
  BY RecordedNext
<1> QED
  BY <1>1, <1>2, RecordedInit, Durable, PTL DEF Spec

\* The errors a start may end with.
Accepted == error \subseteq {"io", "EpochReplay", "refused", "unsafe", "lost", "late"}

\* No step ends with any other error.
LEMMA AcceptedNext == DurInv /\ Recorded /\ Accepted /\ [Next]_vars => Accepted'
<1> SUFFICES ASSUME DurInv, Recorded, Accepted, [Next]_vars PROVE Accepted'
  OBVIOUS
<1>1. error' = error \/ give_up
  <2>1. CASE UNCHANGED vars
    BY <2>1 DEF vars, ghosts
  <2>2. \/ open_state \/ rename \/ hard_link \/ initialized \/ open_history \/ reconciled
        => error' = error
    BY Zenon DEF ghosts, open_state, rename, hard_link, initialized, open_history, reconciled
  <2>3. \/ open_epoch \/ discarded \/ open_weights \/ activation_recorded \/ publish
        => error' = error
    BY DEF ghosts, open_epoch, discarded, open_weights, activation_recorded, publish
  <2>4. \/ retry_weight_activation \/ validate_recovered \/ no_commit \/ proposed
        \/ snapshot_committed \/ committed \/ status_written
        => error' = error
    BY Zenon DEF ghosts, retry_weight_activation, validate_recovered, no_commit, proposed,
           snapshot_committed, committed, status_written
  <2>5. \A n \in lace .. MaxOutput : poll(n) => error' = error
    BY DEF ghosts, poll
  <2>6. \A o \in Outcome : \/ commit_completed_round(o) \/ commit_completed_checkpoint_round(o)
                           \/ commit_completed_checkpoint_round_with_epoch(o)
                           => error' = error
    BY Zenon DEF ghosts, begin_commit, commit_completed_round, commit_completed_checkpoint_round,
           commit_completed_checkpoint_round_with_epoch
  <2>7. crash \/ power_failure => error' = error
    BY DEF crash, power_failure
  <2> QED
    BY <2>1, <2>2, <2>3, <2>4, <2>5, <2>6, <2>7 DEF Next, Process
<1>2. CASE error' = error
  BY <1>2 DEF Accepted
<1>3. CASE give_up
  <2>1. PICK e \in errors : error' = {e}
    BY <1>3 DEF give_up
  <2>s. state \in Chain /\ Len(state) \in Nat
    BY ChainIsSeq, SMTT(30) DEF DurInv, Typed
  <2>2. e # "History"
    <3> SUFFICES ASSUME pc = "history" PROVE reconciles
      BY ErrorMeans, Zenon
    <3>1. seen["snapshot"] = {state}
      BY Zenon DEF DurInv, Fresh
    <3>2. files = Hist(state) \/ (state # <<>> /\ files = Hist(previous(state)))
      BY <3>1 DEF Recorded, Chained
    <3> QED
      BY <2>s, <3>2, HistReconciles
  <2>3. e # "Activation"
    <3> SUFFICES ASSUME pc = "epoch", NEW m \in seen["marker"] PROVE validate_activation_record(m)
      BY ErrorMeans, Zenon
    <3>1. seen["snapshot"] = {state}
      BY Zenon DEF DurInv, Fresh
    <3>2. m \in Chain /\ extends(state, m)
      BY <3>1, Found, Singletons, Zenon DEF DurInv, Fits
    <3> QED
      BY <2>s, <3>2, PrefixFacts DEF validate_activation_record, matches_state_checkpoint
  <2>4. e # "FutureEpochStateMismatch"
    <3> SUFFICES ASSUME pc = "epoch", NEW x \in seen["epoch"]
                 PROVE  verify_epoch_state(x) \/ Len(x.chain) = Len(state) + 1
      BY ErrorMeans, Zenon
    <3>1. seen["snapshot"] = {state}
      BY Zenon DEF DurInv, Fresh
    <3>2. x.chain \in Chain /\ x.chain # <<>> /\ (x.chain = state \/ previous(x.chain) = state)
      BY <3>1, Found, Singletons, Zenon DEF DurInv, Fits
    <3> QED
      BY <3>2, NextRound DEF verify_epoch_state
  <2>5. e # "MissingActivatedWeights"
    <3> SUFFICES ASSUME pc = "weights", activated = {} PROVE state = <<>> /\ record = {}
      BY ErrorMeans, Zenon
    <3>1. seen["snapshot"] = {state} /\ activated = seen["marker"] /\ record = seen["epoch"]
      BY Zenon DEF DurInv, Fresh
    <3> QED
      BY <3>1, Found, Zenon DEF Fits
  <2>6. e # "OldWeights"
    <3> SUFFICES ASSUME pc = "publish", installed = {}, NEW x \in record PROVE bonds = x.old
      BY ErrorMeans, Zenon
    <3>1. /\ seen["snapshot"] = {state} /\ record = seen["epoch"] /\ activated = seen["marker"]
          /\ activated # {} /\ \A c \in activated : bonds = WeightsOf(c)
      BY Zenon DEF DurInv, Loaded, Working, Serving
    <3>2. \A c \in activated : x.old = WeightsOf(c)
      BY <3>1, Found, Zenon DEF Fits
    <3> QED
      BY <3>1, <3>2
  <2>7. e \notin {"regressed", "differs"}
    <3> SUFFICES ASSUME pc = "check", NEW s \in seen["status"], NEW c \in active
                 PROVE  ~ Len(c) < Len(s.active) /\ (Len(c) = Len(s.active) => c = s.active)
      BY ErrorMeans, Zenon
    <3>1. c = state
      BY ActiveIsState
    <3>2. seen["snapshot"] = {state}
      BY Zenon DEF DurInv, Loaded, Working
    <3>3. s.active \in Chain
      <4>1. seen["status"] \in Opt(Status)
        BY Zenon DEF DurInv, Typed, File
      <4>2. s \in Status
        BY <4>1, OptIs
      <4> QED
        BY <4>2 DEF Status
    <3>4. extends(state, s.active)
      BY <3>2, Found, Zenon DEF Fits
    <3>5. Len(s.active) < Len(state) \/ s.active = state
      BY <2>s, <3>3, <3>4, PrefixFacts, Zenon
    <3>6. Len(s.active) \in Nat
      BY <3>3, ChainIsSeq, SMTT(30)
    <3> QED
      BY <2>s, <3>1, <3>5, <3>6
  <2>8. e # "ConflictingRecord"
    <3> SUFFICES ASSUME pc = "propose", ~ renamed, NEW j \in job PROVE seen["epoch"] \subseteq j.epoch
      BY ErrorMeans, Zenon
    <3>1. seen["epoch"] = {}
      BY Zenon DEF DurInv, Committing
    <3> QED
      BY <3>1, Zenon
  <2>9. e \in {"io", "EpochReplay", "refused", "unsafe", "lost", "late"}
    BY <2>2, <2>3, <2>4, <2>5, <2>6, <2>7, <2>8, ErrorMeans, Zenon
  <2> QED
    BY <2>1, <2>9 DEF Accepted
<1> QED
  BY <1>1, <1>2, <1>3

\* The type invariant of the module.
LEMMA TypedOK == DurInv => PorTypeOK
<1> SUFFICES ASSUME DurInv PROVE PorTypeOK
  OBVIOUS
<1>1. /\ seen["snapshot"] \in Opt(Chain) /\ seen["marker"] \in Opt(Chain)
      /\ seen["epoch"] \in Opt(Record) /\ seen["status"] \in Opt(Status)
  BY DEF DurInv, Typed, File
<1>2. ASSUME NEW S, NEW x \in Opt(S) PROVE Cardinality(x) <= 1 /\ x \subseteq S
  <2>1. CASE x = {}
    BY <2>1, FS_EmptySet
  <2>2. ASSUME NEW y \in x PROVE Cardinality(x) <= 1 /\ x \subseteq S
    <3>1. x = {y} /\ y \in S
      BY <2>2, OptIs
    <3>2. Cardinality({y}) = 1
      BY FS_Singleton
    <3> QED
      BY <3>1, <3>2
  <2> QED
    BY <2>1, <2>2
<1>3. DOMAIN seen = File /\ \A f \in File : Cardinality(seen[f]) <= 1
  <2>1. DOMAIN seen = File
    BY DEF DurInv, Typed
  <2>2. /\ Cardinality(seen["snapshot"]) <= 1 /\ Cardinality(seen["marker"]) <= 1
        /\ Cardinality(seen["epoch"]) <= 1 /\ Cardinality(seen["status"]) <= 1
    BY <1>1, <1>2, Zenon
  <2> QED
    BY <2>1, <2>2 DEF File
<1>4. /\ seen["snapshot"] \cup seen["marker"] \subseteq Chain
      /\ seen["epoch"] \subseteq Record /\ seen["status"] \subseteq Status
  BY <1>1, <1>2, Zenon
<1>5. /\ \A f \in File : seen[f] \in kept[f]
      /\ firm \subseteq files /\ files \subseteq Chain
      /\ pc \in {"down"} \cup Opening \cup Serving /\ renamed \in BOOLEAN
      /\ path \in Paths /\ state \in Chain /\ bonds \in Weight \cup {Stake}
      /\ lace \in 0 .. MaxOutput /\ output \in 0 .. lace
      /\ acked \in Chain /\ faults \in 0 .. MaxFaults
  BY Zenon DEF DurInv, Typed
<1>6. activated \in {{}} \cup {{c} : c \in Chain} /\ record \in {{}} \cup {{e} : e \in Record}
  BY Zenon DEF DurInv, Typed, Opt
<1>7. installed \subseteq record
  BY Zenon DEF DurInv, Typed
<1> QED
  BY <1>3, <1>4, <1>5, <1>6, <1>7, Zenon DEF PorTypeOK

(***************************************************************************)
(* Whatever write was interrupted, the next start does not refuse the data *)
(* directory: ReopenSucceeds for every number of rounds and of faults,     *)
(* when power failures do not come with other faults.                      *)
(***************************************************************************)
THEOREM Reopens ==
    ASSUME ~ Mixed
    PROVE  Spec => []ReopenSucceeds
<1>1. Init => Accepted
  BY DEF Init, Accepted
<1>2. DurInv /\ Recorded /\ [Next]_vars => Recorded'
  BY RecordedNext
<1>3. DurInv /\ Accepted => ReopenSucceeds
  BY TypedOK DEF Accepted, ReopenSucceeds
<1> QED
  BY <1>1, <1>2, <1>3, RecordedInit, AcceptedNext, Durable, PTL DEF Spec

=============================================================================
