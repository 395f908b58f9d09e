------------------------- MODULE RatingExchangeProofs -------------------------
(***************************************************************************)
(* Proofs, for every set of validators, outputs, windows and settings,     *)
(* that the rounds of one checkpoint which runners complete agree and      *)
(* are what the finalized evidence calls for.                              *)
(***************************************************************************)
EXTENDS RatingExchange, FiniteSetTheorems, WellFoundedInduction, TLAPS

(***************************************************************************)
(* In every output of a checkpoint some eligible rater has another         *)
(* eligible validator, with a block in the window, to rate.  Without one   *)
(* the round is complete as soon as it opens, whatever the marker says.    *)
(***************************************************************************)
SomeoneRates ==
    \A c \in Configs : c.mode = "checkpoint" =>
        \A e \in c.views : \E r, p \in Validator \ c.ejected :
            r # p /\ p \in {Creator[b] : b \in Window[e]}

-----------------------------------------------------------------------------
\* The least block of a non-empty set of blocks is one of them.
LEMMA MinInSet ==
    ASSUME NEW S \in SUBSET Nat, S # {}
    PROVE  Min(S) \in S
<1> DEFINE R == {ss \in Nat \X Nat : ss[1] < ss[2]}
<1>1. IsWellFoundedOn(R, Nat)
  BY NatLessThanWellFounded DEF OpToRel
<1>2. PICK x \in S : \A y \in S : ~ (<<y, x>> \in R)
  <2> HIDE DEF R
  <2> QED
    BY <1>1, WFMin, Zenon
<1>3. \A y \in S : x =< y
  <2> TAKE y \in S
  <2>1. x \in Nat /\ y \in Nat
    OBVIOUS
  <2>2. <<y, x>> \in R <=> y < x
    BY <2>1
  <2> QED
    BY <1>2, <2>1, <2>2
<1> QED
  BY <1>3, Zenon DEF Min

\* The ratings of a batch have the type of a rating.
LEMMA BatchType ==
    ASSUME NEW r \in Validator, NEW e \in View
    PROVE  /\ admitted(r, e) \subseteq Validator
           /\ rating_batch(r, e) \subseteq Rating
<1>1. admitted(r, e) \subseteq Validator
  BY DEF admitted, is_active_recipient, eligible
<1>2. ASSUME NEW p \in admitted(r, e) PROVE rating(r, p, e) \in Rating
  <2>1. evidence_ref(e, p) \in Nat
    <3> DEFINE S == {b \in Window[e] : Creator[b] = p}
    <3>1. S \in SUBSET Nat /\ S # {}
      BY <1>2, ExAssumption DEF admitted
    <3> QED
      BY <3>1, MinInSet DEF evidence_ref
  <2> QED
    BY <1>1, <2>1 DEF rating, Rating, source
<1> QED
  BY <1>1, <1>2 DEF rating_batch

\* A batch is finite.
LEMMA BatchFinite ==
    ASSUME NEW r \in Validator, NEW e \in View
    PROVE  IsFiniteSet(rating_batch(r, e))
<1> DEFINE f == [p \in admitted(r, e) |-> rating(r, p, e)]
<1>1. IsFiniteSet(admitted(r, e))
  BY BatchType, FS_Subset, ExAssumption
<1>2. f \in Surjection(admitted(r, e), rating_batch(r, e))
  BY DEF Surjection, rating_batch
<1> QED
  BY <1>1, <1>2, FS_Surjection

\* What a step that meets no error has checked.
LEMMA NoErrors ==
    ASSUME NEW v \in Validator, errors(v) = {}
    PROVE  /\ pc[v] = "stage" => checkpoint \/ v \in eligible \/ admitted(v, view[v]) = {}
           /\ pc[v] = "mark" => marker \subseteq {view[v]}
           /\ pc[v] = "collect" => \A r \in unread[v] : ~ rejects(v, r)
<1>1. "EjectedInteractionRater" \notin errors(v) /\ "conflicting marker" \notin errors(v)
      /\ "rejected envelope" \notin errors(v)
  OBVIOUS
<1>2. pc[v] = "stage" => checkpoint \/ v \in eligible \/ admitted(v, view[v]) = {}
  BY <1>1, Zenon DEF errors, Error, meets
<1>3. pc[v] = "mark" => marker \subseteq {view[v]}
  BY <1>1, Zenon DEF errors, Error, meets, marker_conflicts
<1>4. pc[v] = "collect" => \A r \in unread[v] : ~ rejects(v, r)
  BY <1>1, Zenon DEF errors, Error, meets
<1> QED
  BY <1>2, <1>3, <1>4

-----------------------------------------------------------------------------
(***************************************************************************)
(* The inductive invariant, in the parts the proofs use one at a time.     *)
(***************************************************************************)
\* A runner has replayed an output of this round.
Replayed == \A v \in Validator : view[v] \in config.views

\* Between rounds nothing is collected, and outside publication nothing is
\* left to send; what is left to send is owed.
Resting ==
    \A v \in Validator :
        /\ pc[v] \in {"down", "stage", "committed"} => collected[v] = {}
        /\ pc[v] \notin {"publish", "mark", "link"} => unsent[v] = {}
        /\ unsent[v] \subseteq admitted(v, view[v])

\* The marker is in place before an envelope is, and names its source.
Marked ==
    checkpoint =>
        /\ \A v \in Validator : pc[v] = "link" => marker = {view[v]}
        /\ \A f \in files : marker = f.source /\ marker # {}

\* What a rater no longer has to send is in the exchange.
Sent ==
    \A v \in Validator : pc[v] \notin {"down", "stage", "committed"} /\ signs(v) =>
        \A p \in admitted(v, view[v]) \ unsent[v] : rating(v, p, view[v]) \in files

\* What is collected is owed by its rater, and a peer's rating is published.
Collected ==
    \A v \in Validator : \A f \in collected[v] :
        /\ f.rater \in eligible
        /\ f \in rating_batch(f.rater, view[v])
        /\ f.rater # v => f \in files

\* The batch of all raters that an output calls for.
owed(e) == UNION {rating_batch(r, e) : r \in eligible}

\* What is completed is owed, and published.
Completed ==
    \A v \in Validator : \A c \in closed[v] :
        /\ c.view \in config.views
        /\ c.batch = owed(c.view)
        /\ checkpoint => c.batch \subseteq files

ExInv == ExTypeOK /\ Replayed /\ Resting /\ Marked /\ Sent /\ Collected /\ Completed

\* The invariant holds when no runner has started.
LEMMA ExInvInit ==
    ASSUME Init
    PROVE  ExInv
<1>1. ExTypeOK
  BY ExAssumption, Zenon DEF Init, ExTypeOK
<1> QED
  BY <1>1 DEF Init, ExInv, Replayed, Resting, Marked, Sent, Collected, Completed

\* What a window calls for does not change within a round.
LEMMA Frame ==
    ASSUME config' = config
    PROVE  /\ checkpoint' = checkpoint
           /\ eligible' = eligible
           /\ \A v : signs(v)' = signs(v)
           /\ \A r, e : admitted(r, e)' = admitted(r, e)
           /\ \A r, p, e : rating(r, p, e)' = rating(r, p, e)
           /\ \A r, e : rating_batch(r, e)' = rating_batch(r, e)
           /\ \A e : owed(e)' = owed(e)
BY DEF checkpoint, eligible, signs, admitted, is_active_recipient, rating, rating_batch, source,
       owed, evidence_ref

\* Completed rounds stay owed and published while nothing is closed or removed.
LEMMA CompletedKept ==
    ASSUME Completed, config' = config, closed' = closed, files \subseteq files'
    PROVE  Completed'
BY Frame DEF Completed

\* What is collected stays owed and published while no runner changes it.
LEMMA CollectedKept ==
    ASSUME Collected, config' = config, view' = view, collected' = collected, files \subseteq files'
    PROVE  Collected'
BY Frame DEF Collected

\* What is sent stays in the exchange.
LEMMA SentKept ==
    ASSUME Sent, config' = config, view' = view, unsent' = unsent, files \subseteq files',
           \A w \in Validator : pc[w] \in {"down", "stage", "committed"}
                                => pc'[w] \in {"down", "stage", "committed"}
    PROVE  Sent'
BY Frame DEF Sent

\* The marker stays while no runner comes to link an envelope.
LEMMA MarkedKept ==
    ASSUME Marked, config' = config, marker' = marker, files' = files, view' = view,
           \A w \in Validator : pc'[w] = "link" => pc[w] = "link"
    PROVE  Marked'
BY Frame, Zenon DEF Marked

\* Other runners rest as before when only v moves on.
LEMMA RestingKept ==
    ASSUME Resting, config' = config, view' = view, NEW v \in Validator,
           \A w \in Validator \ {v} :
               pc'[w] = pc[w] /\ unsent'[w] = unsent[w] /\ collected'[w] = collected[w],
           pc'[v] \in {"down", "stage", "committed"} => collected'[v] = {},
           pc'[v] \notin {"publish", "mark", "link"} => unsent'[v] = {},
           unsent'[v] \subseteq unsent[v]
    PROVE  Resting'
<1>1. \A w \in Validator : admitted(w, view[w])' = admitted(w, view[w])
  BY Frame
<1> QED
  BY <1>1 DEF Resting

\* A runner keeps the output it has replayed.
LEMMA ReplayedKept ==
    ASSUME Replayed, config' = config, view' = view
    PROVE  Replayed'
BY DEF Replayed

\* A batch whose raters are all complete is the batch that is owed.
LEMMA CompleteIsOwed ==
    ASSUME ExInv, NEW v \in Validator, all_authorized_raters_complete(v)
    PROVE  /\ collected[v] = owed(view[v])
           /\ build_complete_batch(v) = owed(view[v])
<1>1. view[v] \in View
  BY DEF ExInv, ExTypeOK
<1>2. ASSUME NEW r \in eligible PROVE of_rater(collected[v], r) = rating_batch(r, view[v])
  <2>1. r \in Validator
    BY DEF eligible
  <2>2. IsFiniteSet(rating_batch(r, view[v]))
    BY <1>1, <2>1, BatchFinite
  <2>3. of_rater(collected[v], r) \in SUBSET rating_batch(r, view[v])
    BY DEF ExInv, Collected, of_rater
  <2>4. is_rater_complete(v, r)
    BY DEF all_authorized_raters_complete, complete_raters
  <2> QED
    BY <2>2, <2>3, <2>4, FS_Subset DEF is_rater_complete
<1>3. \A f \in collected[v] : f.rater \in eligible
  BY DEF ExInv, Collected
<1>4. collected[v] = owed(view[v])
  BY <1>2, <1>3 DEF owed, of_rater
<1>5. \A f \in collected[v] : is_rater_complete(v, f.rater)
  BY <1>3 DEF all_authorized_raters_complete, complete_raters
<1> QED
  BY <1>4, <1>5 DEF build_complete_batch

\* Every step of a runner that forgets its round keeps the invariant.
LEMMA ForgetKeeps ==
    ASSUME ExInv, NEW v \in Validator, forget(v), UNCHANGED <<config, disk, closed>>,
           error' \in [Validator -> SUBSET Error], crashes' \in Nat
    PROVE  ExInv'
<1> USE Frame DEF disk, forget, goto
<1>1. ExTypeOK'
  BY Zenon DEF ExInv, ExTypeOK
<1>2. Replayed'
  BY DEF ExInv, Replayed
<1>3. Resting'
  BY DEF ExInv, ExTypeOK, Resting
<1>4. Marked'
  BY Zenon DEF ExInv, ExTypeOK, Marked
<1>5. Sent'
  BY DEF ExInv, ExTypeOK, Sent
<1>6. Collected'
  BY DEF ExInv, ExTypeOK, Collected
<1>7. Completed'
  BY CompletedKept DEF ExInv
<1> QED
  BY <1>1, <1>2, <1>3, <1>4, <1>5, <1>6, <1>7 DEF ExInv

\* What decide changes: the runner forgets what it collected and may complete a round.
LEMMA DecideEffect ==
    ASSUME ExInv, NEW v \in Validator, decide(v)
    PROVE  /\ pc[v] = "decide"
           /\ \E l \in {"committed", "stage"} : pc' = [pc EXCEPT ![v] = l]
           /\ collected' = [collected EXCEPT ![v] = {}]
           /\ UNCHANGED <<config, marker, files, view, unsent>>
           /\ \/ closed' = closed
              \/ /\ all_authorized_raters_complete(v)
                 /\ closed' = [closed EXCEPT ![v] =
                                  @ \cup {[view |-> view[v], batch |-> build_complete_batch(v)]}]
<1> DEFINE complete == all_authorized_raters_complete(v)
           again == ~ checkpoint /\ complete /\ pass[v] = "observe"
           c == [view |-> view[v], batch |-> build_complete_batch(v)]
<1>1. /\ pc[v] = "decide"
      /\ pc' = [pc EXCEPT ![v] = IF complete /\ ~ again /\ config.commit THEN "committed" ELSE "stage"]
      /\ closed' = [closed EXCEPT ![v] = IF complete /\ ~ again THEN @ \cup {c} ELSE @]
      /\ collected' = [collected EXCEPT ![v] = {}]
      /\ UNCHANGED <<config, marker, files, view, unsent>>
  BY DEF decide, goto, disk
<1>2. DOMAIN closed = Validator /\ closed = [w \in Validator |-> closed[w]]
  BY DEF ExInv, ExTypeOK
<1> HIDE DEF complete, again, c
<1>3. CASE complete /\ ~ again
  <2>1. closed' = [closed EXCEPT ![v] = @ \cup {c}]
    BY <1>1, <1>3
  <2> QED
    BY <1>1, <1>3, <2>1, Zenon DEF complete, c
<1>4. CASE ~ (complete /\ ~ again)
  <2>1. closed' = [closed EXCEPT ![v] = @]
    BY <1>1, <1>4, Zenon
  <2>2. closed' = closed
    BY <1>2, <2>1
  <2>3. pc' = [pc EXCEPT ![v] = "stage"]
    BY <1>1, <1>4, Zenon
  <2> QED
    BY <1>1, <2>2, <2>3, Zenon
<1> QED
  BY <1>3, <1>4

(***************************************************************************)
(* Every step of a runner keeps the invariant.                             *)
(***************************************************************************)
LEMMA StepKeeps ==
    ASSUME ExInv, NEW v \in Validator, step(v)
    PROVE  ExInv'
<1> USE DEF disk, goto
<1>0. /\ DOMAIN pc = Validator /\ DOMAIN view = Validator /\ DOMAIN unsent = Validator
      /\ DOMAIN collected = Validator /\ DOMAIN closed = Validator
  BY DEF ExInv, ExTypeOK
<1>1. CASE start(v)
  <2>1. ExTypeOK'
    BY <1>1, ExAssumption DEF start, ExInv, ExTypeOK
  <2>2. Replayed'
    BY <1>0, <1>1 DEF start, ExInv, Replayed
  <2>3. Resting'
    BY <1>0, <1>1, Frame DEF start, ExInv, Resting
  <2>4. Marked'
    BY <1>0, <1>1, Frame, Zenon DEF start, ExInv, Marked
  <2>5. Sent'
    BY <1>0, <1>1, Frame DEF start, ExInv, Sent
  <2>6. Collected'
    BY <1>0, <1>1, Frame DEF start, ExInv, Resting, Collected
  <2>7. Completed'
    BY <1>1, CompletedKept DEF start, ExInv
  <2> QED
    BY <2>1, <2>2, <2>3, <2>4, <2>5, <2>6, <2>7 DEF ExInv
<1>2. CASE refuse(v)
  <2>1. errors(v) \subseteq Error
    BY DEF errors
  <2>2. error' \in [Validator -> SUBSET Error]
    BY <1>2, <2>1 DEF refuse, ExInv, ExTypeOK
  <2>3. crashes' \in Nat
    BY <1>2 DEF refuse, ExInv, ExTypeOK
  <2> QED
    BY <1>2, <2>2, <2>3, ForgetKeeps DEF refuse
<1>3. CASE stage(v)
  <2>1. ExTypeOK'
    <3>1. rating_batch(v, view[v]) \subseteq Rating /\ admitted(v, view[v]) \subseteq Validator
      BY BatchType DEF ExInv, ExTypeOK
    <3>2. staged(v) \in Batch
      BY <3>1 DEF staged, source, Batch, ExInv, ExTypeOK
    <3> QED
      BY <1>3, <3>1, <3>2 DEF stage, ExInv, ExTypeOK
  <2>2. Replayed'
    BY <1>3, ReplayedKept DEF stage, ExInv
  <2>3. Resting'
    BY <1>0, <1>3, Frame DEF stage, ExInv, Resting
  <2>4. Marked'
    BY <1>0, <1>3, Frame, Zenon DEF stage, ExInv, Marked
  <2>5. Sent'
    BY <1>0, <1>3, Frame DEF stage, ExInv, Sent
  <2>6. Collected'
    <3>1. \A f \in rating_batch(v, view[v]) : f.rater = v
      BY DEF rating_batch, rating
    <3>2. signs(v) /\ rating_batch(v, view[v]) # {} => v \in eligible
      BY <1>3, NoErrors DEF stage, signs, rating_batch
    <3> QED
      BY <1>0, <1>3, <3>1, <3>2, Frame DEF stage, ExInv, Resting, Collected
  <2>7. Completed'
    BY <1>3, CompletedKept DEF stage, ExInv
  <2> QED
    BY <2>1, <2>2, <2>3, <2>4, <2>5, <2>6, <2>7 DEF ExInv
<1>4. CASE publish(v)
  <2>1. ExTypeOK'
    BY <1>4 DEF publish, ExInv, ExTypeOK
  <2>2. Replayed'
    BY <1>4, ReplayedKept DEF publish, ExInv
  <2>3. Resting'
    BY <1>0, <1>4, Frame DEF publish, ExInv, Resting
  <2>4. Marked'
    BY <1>0, <1>4, Frame, Zenon DEF publish, ExInv, Marked
  <2>5. Sent'
    BY <1>0, <1>4, SentKept DEF publish, ExInv
  <2>6. Collected'
    BY <1>4, CollectedKept DEF publish, ExInv
  <2>7. Completed'
    BY <1>4, CompletedKept DEF publish, ExInv
  <2> QED
    BY <2>1, <2>2, <2>3, <2>4, <2>5, <2>6, <2>7 DEF ExInv
<1>5. CASE mark(v)
  <2>1. ExTypeOK'
    BY <1>5 DEF mark, ExInv, ExTypeOK
  <2>2. Replayed'
    BY <1>5, ReplayedKept DEF mark, ExInv
  <2>3. Resting'
    BY <1>0, <1>5, Frame, Zenon DEF mark, ExInv, Resting
  <2>4. Marked'
    <3>1. marker \subseteq {view[v]}
      BY <1>5, NoErrors DEF mark
    <3>2. ASSUME checkpoint, marker # {} PROVE marker' = marker
      BY <1>5, <3>1, <3>2 DEF mark
    <3>3. ASSUME NEW w \in Validator, pc'[w] = "link" PROVE w = v \/ pc[w] = "link"
      BY <1>5, <3>3 DEF mark, ExInv, ExTypeOK
    <3> QED
      BY <1>5, <3>2, <3>3, Frame, Zenon DEF mark, ExInv, Marked
  <2>5. Sent'
    BY <1>0, <1>5, SentKept DEF mark, ExInv
  <2>6. Collected'
    BY <1>5, CollectedKept DEF mark, ExInv
  <2>7. Completed'
    BY <1>5, CompletedKept DEF mark, ExInv
  <2> QED
    BY <2>1, <2>2, <2>3, <2>4, <2>5, <2>6, <2>7 DEF ExInv
<1>6. CASE link(v)
  <2>0. PICK p \in unsent[v] :
          /\ files' = files \cup {rating(v, p, view[v])}
          /\ unsent' = [unsent EXCEPT ![v] = @ \ {p}]
    <3>1. PICK f \in outgoing(v) :
            files' = files \cup {f} /\ unsent' = [unsent EXCEPT ![v] = @ \ {f.recipient}]
      BY <1>6, Zenon DEF link
    <3>2. PICK p \in unsent[v] : f = rating(v, p, view[v])
      BY DEF outgoing
    <3>3. f.recipient = p
      BY <3>2 DEF rating
    <3> QED
      BY <3>1, <3>2, <3>3, Zenon
  <2>a. p \in admitted(v, view[v])
    BY DEF ExInv, Resting
  <2>1. ExTypeOK'
    <3>1. rating(v, p, view[v]) \in Rating
      BY <2>a, BatchType DEF rating_batch, ExInv, ExTypeOK
    <3> QED
      BY <1>6, <2>0, <3>1 DEF link, ExInv, ExTypeOK
  <2>2. Replayed'
    BY <1>6, ReplayedKept DEF link, ExInv
  <2>3. Resting'
    <3>1. /\ UNCHANGED <<config, view, collected>>
          /\ pc' = [pc EXCEPT ![v] = IF unsent'[v] = {} THEN "read" ELSE "publish"]
      BY <1>6 DEF link
    <3>2. /\ \A w \in Validator \ {v} : pc'[w] = pc[w] /\ unsent'[w] = unsent[w]
          /\ pc'[v] = IF unsent'[v] = {} THEN "read" ELSE "publish"
          /\ unsent'[v] \subseteq unsent[v]
      BY <1>0, <2>0, <3>1
    <3> QED
      BY <3>1, <3>2, RestingKept DEF ExInv
  <2>4. Marked'
    <3>1. checkpoint => rating(v, p, view[v]).source = {view[v]}
      BY DEF rating, source
    <3>2. \A w \in Validator : pc'[w] = "link" => pc[w] = "link"
      BY <1>6 DEF link, ExInv, ExTypeOK
    <3> QED
      BY <1>6, <2>0, <3>1, <3>2, Frame, Zenon DEF link, ExInv, Marked
  <2>5. Sent'
    <3> SUFFICES ASSUME NEW w \in Validator, pc'[w] \notin {"down", "stage", "committed"}, signs(w),
                        NEW q \in admitted(w, view[w]) \ unsent'[w]
                 PROVE  rating(w, q, view[w]) \in files'
      BY <1>6, Frame DEF link, Sent
    <3>1. q \in unsent[w] => w = v /\ q = p
      BY <2>0 DEF ExInv, ExTypeOK
    <3>2. pc[w] \notin {"down", "stage", "committed"}
      BY <1>6 DEF link, ExInv, ExTypeOK
    <3> QED
      BY <2>0, <3>1, <3>2, Frame DEF ExInv, Sent
  <2>6. Collected'
    BY <1>6, CollectedKept DEF link, ExInv
  <2>7. Completed'
    BY <1>6, CompletedKept DEF link, ExInv
  <2> QED
    BY <2>1, <2>2, <2>3, <2>4, <2>5, <2>6, <2>7 DEF ExInv
<1>7. CASE read_peer_envelopes(v)
  <2>1. ExTypeOK'
    BY <1>7 DEF read_peer_envelopes, eligible, ExInv, ExTypeOK
  <2>2. Replayed'
    BY <1>7, ReplayedKept DEF read_peer_envelopes, ExInv
  <2>3. Resting'
    BY <1>0, <1>7, Frame, SMTT(20) DEF read_peer_envelopes, ExInv, Resting
  <2>4. Marked'
    BY <1>0, <1>7, MarkedKept, Zenon DEF read_peer_envelopes, ExInv
  <2>5. Sent'
    BY <1>0, <1>7, SentKept, Zenon DEF read_peer_envelopes, ExInv
  <2>6. Collected'
    BY <1>7, CollectedKept DEF read_peer_envelopes, ExInv
  <2>7. Completed'
    BY <1>7, CompletedKept DEF read_peer_envelopes, ExInv
  <2> QED
    BY <2>1, <2>2, <2>3, <2>4, <2>5, <2>6, <2>7 DEF ExInv
<1>8. CASE collect(v)
  <2>0. PICK r \in unread[v] :
          /\ unread' = [unread EXCEPT ![v] = @ \ {r}]
          /\ collected' = [collected EXCEPT ![v] = @ \cup of_rater(files, r)]
          /\ pc' \in [Validator -> {"down", "stage", "publish", "mark", "link", "read", "collect",
                                    "decide", "committed"}]
    BY <1>8, Zenon DEF collect, ExInv, ExTypeOK
  <2>1. ExTypeOK'
    BY <1>8, <2>0 DEF collect, of_rater, ExInv, ExTypeOK
  <2>2. Replayed'
    BY <1>8, ReplayedKept DEF collect, ExInv
  <2>3. Resting'
    <3>1. UNCHANGED <<config, view, unsent>> /\ pc[v] = "collect"
      BY <1>8 DEF collect
    <3>2. \A q, e : admitted(q, e)' = admitted(q, e)
      BY <3>1, Frame
    <3>3. \A w \in Validator : w # v => pc'[w] = pc[w] /\ collected'[w] = collected[w]
      BY <1>0, <1>8, <2>0 DEF collect, goto
    <3>4. pc'[v] \in {"decide", "collect"}
      BY <1>0, <1>8 DEF collect, goto, ExInv, ExTypeOK
    <3>5. ASSUME NEW w \in Validator
          PROVE  /\ pc'[w] \in {"down", "stage", "committed"} => collected'[w] = {}
                 /\ pc'[w] \notin {"publish", "mark", "link"} => unsent[w] = {}
                 /\ unsent[w] \subseteq admitted(w, view[w])
      <4>1. CASE w = v
        BY <3>1, <3>4, <4>1 DEF ExInv, Resting
      <4>2. CASE w # v
        BY <3>3, <4>2 DEF ExInv, Resting
      <4> QED
        BY <4>1, <4>2
    <3> QED
      BY <3>1, <3>2, <3>5 DEF Resting
  <2>4. Marked'
    BY <1>0, <1>8, MarkedKept, Zenon DEF collect, ExInv
  <2>5. Sent'
    BY <1>0, <1>8, SentKept, SMTT(20) DEF collect, ExInv
  <2>6. Collected'
    <3>1. \A f \in of_rater(files, r) :
            f.rater = r /\ r \in eligible /\ f \in rating_batch(r, view[v]) /\ f \in files
      BY <1>8, NoErrors DEF collect, rejects, of_rater
    <3>2. UNCHANGED <<config, files, view>>
      BY <1>8 DEF collect
    <3>3. ASSUME NEW w \in Validator, NEW f \in collected'[w]
          PROVE  f \in collected[w] \/ (w = v /\ f \in of_rater(files, r))
      BY <1>0, <2>0, <3>3
    <3> QED
      <4>1. eligible' = eligible /\ \A q, e : rating_batch(q, e)' = rating_batch(q, e)
        BY <3>2, Frame, Zenon
      <4>2. ASSUME NEW w \in Validator, NEW f \in collected'[w]
            PROVE  f.rater \in eligible /\ f \in rating_batch(f.rater, view[w])
                   /\ (f.rater # w => f \in files)
        <5>1. CASE f \in collected[w]
          BY <5>1 DEF ExInv, Collected
        <5>2. CASE w = v /\ f \in of_rater(files, r)
          BY <3>1, <5>2
        <5> QED
          BY <3>3, <4>2, <5>1, <5>2
      <4> QED
        BY <3>2, <4>1, <4>2, Zenon DEF Collected
  <2>7. Completed'
    BY <1>8, CompletedKept DEF collect, ExInv
  <2> QED
    BY <2>1, <2>2, <2>3, <2>4, <2>5, <2>6, <2>7 DEF ExInv
<1>9. CASE decide(v)
  <2>0. /\ pc[v] = "decide"
        /\ \E l \in {"committed", "stage"} : pc' = [pc EXCEPT ![v] = l]
        /\ collected' = [collected EXCEPT ![v] = {}]
        /\ UNCHANGED <<config, marker, files, view, unsent>>
        /\ \/ closed' = closed
           \/ /\ all_authorized_raters_complete(v)
              /\ closed' = [closed EXCEPT ![v] =
                               @ \cup {[view |-> view[v], batch |-> build_complete_batch(v)]}]
    BY <1>9, DecideEffect, SMTT(20)
  <2>1. ExTypeOK'
    <3>1. closed' \in [Validator -> SUBSET [view : View, batch : SUBSET Rating]]
      BY <2>0 DEF build_complete_batch, ExInv, ExTypeOK
    <3> QED
      BY <1>9, <3>1, Zenon DEF decide, ExInv, ExTypeOK
  <2>2. Replayed'
    BY <2>0, ReplayedKept DEF ExInv
  <2>3. Resting'
    <3>1. /\ \A w \in Validator \ {v} : pc'[w] = pc[w] /\ collected'[w] = collected[w]
          /\ pc'[v] \in {"committed", "stage"} /\ collected'[v] = {}
      <4>1. PICK l \in {"committed", "stage"} : pc' = [pc EXCEPT ![v] = l]
        BY <2>0, Zenon
      <4>2. collected' = [collected EXCEPT ![v] = {}]
        BY <2>0, Zenon
      <4> QED
        BY <1>0, <4>1, <4>2
    <3>2. unsent[v] = {}
      BY <2>0, Zenon DEF ExInv, Resting
    <3> QED
      BY <2>0, <3>1, <3>2, RestingKept, Zenon DEF ExInv
  <2>4. Marked'
    BY <1>0, <2>0, MarkedKept DEF ExInv
  <2>5. Sent'
    BY <1>0, <2>0, SentKept, SMTT(20) DEF ExInv
  <2>6. Collected'
    BY <1>0, <2>0, Frame, SMTT(30) DEF ExInv, Collected
  <2>7. Completed'
    <3>1. CASE closed' = closed
      BY <2>0, <3>1, CompletedKept DEF ExInv
    <3>2. CASE /\ all_authorized_raters_complete(v)
               /\ closed' = [closed EXCEPT ![v] =
                                @ \cup {[view |-> view[v], batch |-> build_complete_batch(v)]}]
      <4>1. collected[v] = owed(view[v]) /\ build_complete_batch(v) = owed(view[v])
        BY <3>2, CompleteIsOwed
      <4>2. ASSUME checkpoint, NEW f \in owed(view[v]) PROVE f \in files
        <5>1. CASE f.rater # v
          BY <4>1, <5>1, Frame, SMTT(20) DEF ExInv, Collected
        <5>2. CASE f.rater = v
          <6>1. signs(v) /\ f \in rating_batch(v, view[v])
            BY <4>1, <5>2 DEF ExInv, Collected, signs
          <6>2. pc[v] = "decide" /\ unsent[v] = {}
            BY <2>0, Frame, Zenon DEF ExInv, Resting
          <6> QED
            BY <6>1, <6>2, Frame, Zenon DEF rating_batch, ExInv, Sent
        <5> QED
          BY <5>1, <5>2
      <4>3. config' = config /\ files' = files
        BY <2>0
      <4>4. ASSUME NEW w \in Validator, NEW c \in closed'[w]
            PROVE  c \in closed[w] \/ c = [view |-> view[v], batch |-> owed(view[v])]
        BY <1>0, <3>2, <4>1, <4>4
      <4>5. view[v] \in config.views
        BY DEF ExInv, Replayed
      <4>6. Completed
        BY DEF ExInv
      <4>7. ASSUME NEW w \in Validator, NEW c \in closed'[w]
            PROVE  /\ c.view \in config.views
                   /\ c.batch = owed(c.view)
                   /\ checkpoint => c.batch \subseteq files
        <5>1. CASE c \in closed[w]
          BY <4>6, <5>1 DEF Completed
        <5>2. CASE c = [view |-> view[v], batch |-> owed(view[v])]
          <6>1. c.view = view[v] /\ c.batch = owed(view[v])
            BY <5>2
          <6> QED
            BY <4>2, <4>5, <6>1
        <5> QED
          BY <4>4, <4>7, <5>1, <5>2
      <4> QED
        BY <4>3, <4>7, Frame DEF Completed
    <3> QED
      BY <2>0, <3>1, <3>2
  <2> QED
    BY <2>1, <2>2, <2>3, <2>4, <2>5, <2>6, <2>7 DEF ExInv
<1> QED
  BY <1>1, <1>2, <1>3, <1>4, <1>5, <1>6, <1>7, <1>8, <1>9 DEF step

\* The invariant is inductive.
LEMMA ExInvNext ==
    ASSUME ExInv, [Next]_vars
    PROVE  ExInv'
<1>1. CASE Next
  <2>1. PICK v \in Validator : step(v) \/ crash(v)
    BY <1>1 DEF Next
  <2>2. CASE step(v)
    BY <2>2, StepKeeps
  <2>3. CASE crash(v)
    <3>1. error' \in [Validator -> SUBSET Error] /\ crashes' \in Nat
      BY <2>3 DEF crash, ExInv, ExTypeOK
    <3> QED
      BY <2>3, <3>1, ForgetKeeps DEF crash
  <2> QED
    BY <2>1, <2>2, <2>3
<1>2. CASE UNCHANGED vars
  <2> USE <1>2, Frame DEF vars, disk, memory
  <2>1. ExTypeOK'
    BY SMTT(20) DEF ExInv, ExTypeOK
  <2>2. Replayed' /\ Resting' /\ Marked'
    BY SMTT(30) DEF ExInv, Replayed, Resting, Marked
  <2>3. Sent'
    BY SentKept DEF ExInv
  <2>4. Collected'
    BY CollectedKept DEF ExInv
  <2>5. Completed'
    BY CompletedKept DEF ExInv
  <2> QED
    BY <2>1, <2>2, <2>3, <2>4, <2>5 DEF ExInv
<1> QED
  BY <1>1, <1>2

\* It holds in every state of a rating round.
LEMMA ExchangeInvariant == Spec => []ExInv
<1>1. Init => ExInv
  BY ExInvInit
<1>2. ExInv /\ [Next]_vars => ExInv'
  BY ExInvNext
<1> QED
  BY <1>1, <1>2, PTL DEF Spec

-----------------------------------------------------------------------------
(***************************************************************************)
(* The state of a rating round keeps its type: no rating of a validator    *)
(* that is not authorized, or of one that has no block in the window,      *)
(* enters a batch, the exchange or a collector.                            *)
(***************************************************************************)
THEOREM ExchangeTypes == Spec => []ExTypeOK
<1>1. ExInv => ExTypeOK
  BY DEF ExInv
<1> QED
  BY <1>1, ExchangeInvariant, PTL

(***************************************************************************)
(* Every batch that close_*_if_complete builds is what the finalized       *)
(* evidence calls for, in both modes, with crashes, rewritten outputs and  *)
(* peers that are read while they publish: counting a rater's ratings is   *)
(* enough because each is checked against what the rater owes.             *)
(***************************************************************************)
THEOREM ExchangeEvidence == Spec => []ClosedIsEvidence
<1>1. ExInv => ClosedIsEvidence
  BY DEF ExInv, Completed, ClosedIsEvidence, owed
<1> QED
  BY <1>1, ExchangeInvariant, PTL

-----------------------------------------------------------------------------
(***************************************************************************)
(* A runner that publishes has staged the batch it publishes from, and no  *)
(* other; every envelope is in the batch its rater has staged.             *)
(***************************************************************************)
Staged ==
    /\ \A v \in Validator : pc[v] \in {"publish", "mark", "link"} => outbox[v] = {staged(v)}
    /\ \A f \in files : \E s \in outbox[f.rater] : f \in s.batch

\* A runner stages only what its outbox does not contradict.
LEMMA StageKeepsBatch ==
    ASSUME NEW v \in Validator, stage(v), signs(v)
    PROVE  outbox[v] \subseteq {staged(v)}
<1>1. "conflicting batch" \notin errors(v) /\ pc[v] = "stage"
  BY DEF stage
<1> QED
  BY <1>1 DEF errors, Error, meets, batch_conflicts

\* The batch of a runner is what it was while it replays nothing.
LEMMA StagedFrame ==
    ASSUME config' = config, NEW v \in Validator, view'[v] = view[v]
    PROVE  staged(v)' = staged(v)
BY Frame, Zenon DEF staged, source, checkpoint

\* Staged batches stay while no outbox changes and no runner comes to publish.
LEMMA StagedKept ==
    ASSUME Staged, UNCHANGED <<config, outbox, files>>,
           \A w \in Validator : pc'[w] \in {"publish", "mark", "link"} =>
               pc[w] \in {"publish", "mark", "link"} /\ view'[w] = view[w]
    PROVE  Staged'
BY StagedFrame DEF Staged

\* Every step of a runner keeps the staged batches.
LEMMA StagedStep ==
    ASSUME ExInv, Staged, NEW v \in Validator, step(v) \/ crash(v)
    PROVE  Staged'
<1> USE DEF disk, goto
<1>0. /\ DOMAIN pc = Validator /\ DOMAIN view = Validator /\ DOMAIN unsent = Validator
      /\ DOMAIN outbox = Validator
  BY DEF ExInv, ExTypeOK
<1>1. CASE start(v)
  BY <1>0, <1>1, StagedKept DEF start
<1>2. CASE refuse(v) \/ crash(v)
  BY <1>0, <1>2, StagedKept, Zenon DEF refuse, crash, forget
<1>3. CASE stage(v)
  <2>1. UNCHANGED <<config, files, view>>
    BY <1>3 DEF stage
  <2>2. CASE signs(v)
    <3>1. outbox' = [outbox EXCEPT ![v] = {staged(v)}]
      BY <1>3, <2>2 DEF stage
    <3>2. \A w \in Validator : outbox[w] \subseteq outbox'[w]
      BY <1>0, <1>3, <2>2, <3>1, StageKeepsBatch
    <3>3. \A f \in files : f.rater \in Validator
      BY DEF ExInv, ExTypeOK, Rating
    <3>4. \A w \in Validator \ {v} : pc'[w] = pc[w] /\ outbox'[w] = outbox[w]
      BY <1>0, <1>3, <3>1 DEF stage
    <3>5. outbox'[v] = {staged(v)}
      BY <1>0, <3>1
    <3>6. \A w \in Validator : staged(w)' = staged(w)
      BY <2>1, StagedFrame
    <3> QED
      BY <2>1, <3>2, <3>3, <3>4, <3>5, <3>6, Zenon DEF Staged
  <2>3. CASE ~ signs(v)
    <3>1. /\ outbox' = outbox /\ unsent'[v] = {}
          /\ pc' = [pc EXCEPT ![v] = IF unsent'[v] = {} THEN "read" ELSE "publish"]
      BY <1>0, <1>3, <2>3 DEF stage
    <3>2. pc' = [pc EXCEPT ![v] = "read"]
      BY <3>1
    <3> QED
      BY <1>0, <2>1, <3>1, <3>2, StagedKept
  <2> QED
    BY <2>2, <2>3
<1>4. CASE publish(v)
  BY <1>0, <1>4, StagedKept DEF publish
<1>5. CASE mark(v)
  BY <1>0, <1>5, StagedKept DEF mark
<1>6. CASE link(v)
  <2>1. PICK p \in unsent[v] : files' = files \cup {rating(v, p, view[v])}
    BY <1>6 DEF link, outgoing
  <2>2. pc[v] = "link" /\ UNCHANGED <<config, outbox, view>>
    BY <1>6 DEF link
  <2>3. outbox[v] = {staged(v)}
    BY <2>2 DEF Staged
  <2>4. rating(v, p, view[v]) \in staged(v).batch /\ rating(v, p, view[v]).rater = v
    BY Zenon DEF ExInv, Resting, staged, rating_batch, rating
  <2>5. \A f \in files' : \E s \in outbox[f.rater] : f \in s.batch
    BY <2>1, <2>3, <2>4 DEF Staged
  <2>6. \A w \in Validator : pc'[w] \in {"publish", "mark", "link"} =>
            pc[w] \in {"publish", "mark", "link"}
    BY <1>0, <1>6, Zenon DEF link
  <2>7. \A w \in Validator : staged(w)' = staged(w)
    BY <2>2, StagedFrame
  <2> QED
    BY <2>2, <2>5, <2>6, <2>7 DEF Staged
<1>7. CASE read_peer_envelopes(v)
  BY <1>0, <1>7, StagedKept DEF read_peer_envelopes
<1>8. CASE collect(v)
  BY <1>0, <1>8, StagedKept DEF collect
<1>9. CASE decide(v)
  BY <1>0, <1>9, StagedKept, DecideEffect, Zenon DEF decide
<1> QED
  BY <1>1, <1>2, <1>3, <1>4, <1>5, <1>6, <1>7, <1>8, <1>9 DEF step

(***************************************************************************)
(* An envelope is published only from the batch that its rater has staged, *)
(* with crashes between staging, marking and linking and with outputs      *)
(* that are rewritten between two starts: the outbox file is immutable,    *)
(* and a runner whose batch differs from it stops.                         *)
(***************************************************************************)
THEOREM ExchangeOutbox == Spec => []PublishedFromOutbox
<1>1. Init => Staged
  BY DEF Init, Staged
<1>2. ExInv /\ Staged /\ [Next]_vars => Staged'
  <2> SUFFICES ASSUME ExInv, Staged, [Next]_vars PROVE Staged'
    OBVIOUS
  <2>1. CASE Next
    BY <2>1, StagedStep DEF Next
  <2>2. CASE UNCHANGED vars
    BY <2>2, StagedKept, Zenon DEF vars, disk, memory
  <2> QED
    BY <2>1, <2>2
<1>3. ExInv /\ Staged => PublishedFromOutbox
  BY Zenon DEF ExInv, Staged, PublishedFromOutbox
<1> QED
  BY <1>1, <1>2, <1>3, ExchangeInvariant, PTL DEF Spec

\* Completed rounds of a checkpoint agree in every state of the invariant.
LEMMA AgreeFromInv ==
    ASSUME SomeoneRates, ExInv
    PROVE  ClosedAgree
<1> SUFFICES ASSUME checkpoint, NEW v \in Validator, NEW w \in Validator,
                    NEW c \in closed[v], NEW d \in closed[w]
             PROVE  c = d
  BY DEF ClosedAgree
<1>1. ASSUME NEW u \in Validator, NEW k \in closed[u]
      PROVE  marker = {k.view} /\ k.batch = owed(k.view)
  <2>1. k.view \in config.views /\ k.batch = owed(k.view) /\ k.batch \subseteq files
    BY <1>1, Zenon DEF ExInv, Completed
  <2>2. config \in Configs /\ config.mode = "checkpoint"
    BY DEF ExInv, ExTypeOK, checkpoint
  <2>3. PICK r \in eligible, p \in eligible :
          r # p /\ p \in {Creator[b] : b \in Window[k.view]}
    BY <2>1, <2>2, SomeoneRates, Zenon DEF SomeoneRates, eligible
  <2>4. rating(r, p, k.view) \in owed(k.view)
    BY <2>3 DEF owed, rating_batch, admitted, is_active_recipient
  <2>5. rating(r, p, k.view).source = {k.view}
    BY Zenon DEF rating, source
  <2> QED
    BY <2>1, <2>4, <2>5, Zenon DEF ExInv, Marked
<1>2. c.view = d.view /\ c.batch = d.batch
  BY <1>1, Zenon
<1>3. c \in [view : View, batch : SUBSET Rating] /\ d \in [view : View, batch : SUBSET Rating]
  BY DEF ExInv, ExTypeOK
<1> QED
  BY <1>2, <1>3

(***************************************************************************)
(* The rounds of one checkpoint that runners complete agree.  A completed  *)
(* batch is published, has a rating, and the rating names the source that  *)
(* the one marker of the exchange names; the batch follows from it.        *)
(***************************************************************************)
THEOREM ExchangeAgreement ==
    ASSUME SomeoneRates
    PROVE  Spec => []ClosedAgree
<1>1. ExInv => ClosedAgree
  BY AgreeFromInv
<1> QED
  BY <1>1, ExchangeInvariant, PTL

\* The batch of every output of the round is fixed when the round begins.
LEMMA CalledForFixed ==
    ASSUME config' = config
    PROVE  called_for' = called_for /\ checkpoint' = checkpoint
BY Frame, Zenon DEF called_for

\* No step changes the settings of a round, and only decide completes one.
LEMMA StepEffect ==
    ASSUME [Next]_vars
    PROVE  /\ config' = config
           /\ closed' = closed \/ \E v \in Validator : decide(v)
<1>1. CASE Next
  <2>1. PICK v \in Validator : step(v) \/ crash(v)
    BY <1>1 DEF Next
  <2>2. CASE decide(v)
    BY <2>2, Zenon DEF decide
  <2>3. CASE start(v)
    BY <2>3 DEF start
  <2>4. CASE refuse(v)
    BY <2>4 DEF refuse
  <2>5. CASE stage(v)
    BY <2>5, Zenon DEF stage
  <2>6. CASE publish(v)
    BY <2>6 DEF publish
  <2>7. CASE mark(v)
    BY <2>7 DEF mark
  <2>8. CASE link(v)
    BY <2>8 DEF link
  <2>9. CASE read_peer_envelopes(v)
    BY <2>9 DEF read_peer_envelopes
  <2>10. CASE collect(v)
    BY <2>10 DEF collect
  <2>11. CASE crash(v)
    BY <2>11 DEF crash
  <2> QED
    BY <2>1, <2>2, <2>3, <2>4, <2>5, <2>6, <2>7, <2>8, <2>9, <2>10, <2>11 DEF step
<1>2. CASE UNCHANGED vars
  BY <1>2 DEF vars
<1> QED
  BY <1>1, <1>2

\* A step of the exchange is a step of the abstract round, or none.
LEMMA StepImplements ==
    ASSUME ExInv, ExInv', ClosedAgree', [Next]_vars
    PROVE  [Promise!RoundNext]_<<checkpoint, called_for, closed>>
<1>1. config' = config /\ UNCHANGED <<checkpoint, called_for>>
  BY StepEffect, CalledForFixed
<1>2. CASE closed' = closed
  BY <1>1, <1>2
<1>3. CASE closed' # closed
  <2>1. PICK v \in Validator : decide(v)
    BY <1>3, StepEffect
  <2> DEFINE c == [view |-> view[v], batch |-> build_complete_batch(v)]
  <2>2. closed \in [Validator -> SUBSET [view : View, batch : SUBSET Rating]]
    BY DEF ExInv, ExTypeOK
  <2>3. closed' = [closed EXCEPT ![v] = @ \cup {c}]
    BY <1>3, <2>1, DecideEffect
  <2> HIDE DEF c
  <2>4. c \in closed'[v]
    BY <2>2, <2>3
  <2>5. c.view \in config.views /\ c.batch = owed(c.view)
    BY <1>1, <2>4, Frame DEF ExInv, Completed
  <2>6. c \in called_for
    <3>1. c = [view |-> c.view, batch |-> c.batch]
      BY DEF c
    <3> QED
      BY <2>5, <3>1 DEF called_for, owed
  <2>7. ASSUME checkpoint, NEW w \in Validator, NEW d \in closed[w]
        PROVE  d = c
    <3>1. d \in closed'[w]
      BY <2>2, <2>3, <2>7
    <3> QED
      BY <1>1, <2>4, <2>7, <3>1 DEF ClosedAgree
  <2>8. Promise!Complete(v, c)
    BY <1>1, <2>3, <2>6, <2>7 DEF Promise!Complete
  <2> QED
    BY <2>6, <2>8 DEF Promise!RoundNext
<1> QED
  BY <1>2, <1>3

(***************************************************************************)
(* The exchange implements the abstract rating round, for every set of     *)
(* validators, outputs and settings: with the settings as the mode, the    *)
(* batches of the finalized outputs as what is called for and closed as    *)
(* itself, every step of a runner is one completion or no step at all.     *)
(***************************************************************************)
THEOREM ExchangeImplementsRound ==
    ASSUME SomeoneRates
    PROVE  Spec => ImplementsRound
<1>1. Init => Promise!RoundInit
  BY DEF Init, Promise!RoundInit
<1>2. ExInv /\ ExInv' /\ ClosedAgree' /\ [Next]_vars
        => [Promise!RoundNext]_<<checkpoint, called_for, closed>>
  BY StepImplements
<1>3. ExInv => ClosedAgree
  BY AgreeFromInv
<1> QED
  BY <1>1, <1>2, <1>3, ExchangeInvariant, PTL DEF Spec, ImplementsRound, Promise!RoundSpec
=============================================================================
