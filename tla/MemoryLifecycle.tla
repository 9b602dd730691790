--------------------------- MODULE MemoryLifecycle ---------------------------
(***************************************************************************)
(* The life of one folded memory (L1 to L4): the lifecycle job scores and  *)
(* promotes or demotes it (LifecycleGovernor.run_cycle), then compresses,  *)
(* rescues or drops it (CompressionLifecycleManager.run), while users      *)
(* confirm, pin and delete it.                                             *)
(*                                                                         *)
(* The job and pin_memory work on a copy of the row and write the whole    *)
(* copy back; signals and deletions change the row in place.  Scores come  *)
(* from clocks and weights: any band of them may come out of a cycle.      *)
(* Time passes in periods of 30 days, the length of an observation.        *)
(***************************************************************************)
EXTENDS Integers

CONSTANTS
  Workers,     \* run lifecycle jobs
  Users,       \* call pin_memory
  MinUp,       \* promotion_min_cycles
  MinDown,     \* demotion_min_cycles
  MinUseful,   \* promotion_min_useful_accesses
  AgeDue,      \* cycles a memory lives before it enters each compression tier
  Modes,       \* modes in which users delete: "tombstone", "physical"
  MaxSignals,  \* bound on the number of useful signals
  MaxCrashes   \* bound on the number of jobs cut short

ASSUME MemoryLifecycleAssumption ==
  /\ Workers \cap Users = {}
  /\ MinUp \in Nat \ {0} /\ MinDown \in Nat \ {0} /\ MinUseful \in Nat
  /\ AgeDue \in [1..4 -> Nat]
  /\ \A t \in 1..3 : AgeDue[t] <= AgeDue[t + 1]
  /\ Modes \subseteq {"tombstone", "physical"}
  /\ MaxSignals \in Nat /\ MaxCrashes \in Nat

Actors == Workers \cup Users

\* What a content is, and what a marker leads to: the text the memory was stored
\* with, or a rendering of it.
Texts  == {"original", "rendering"}
Scores == {"high", "mid", "faint", "low"}  \* >= promotion, > 0.35, > 0.22, the rest

Row == [life    : {"short", "long"},
        status  : {"active", "observing", "compressed", "tombstoned"},
        tier    : 0..4,
        content : Texts,
        marker  : Texts \cup {"none"},     \* ccr_marker
        useful  : 0..MaxSignals,           \* useful_access_count
        base    : 0..MaxSignals,           \* compressed_useful_access_count
        pinned  : BOOLEAN,
        up      : 0..MinUp,                \* promotion_streak, as far as it counts
        down    : 0..MinDown,              \* demotion_streak
        age     : 0..AgeDue[4],            \* lifecycle.age, as far as it counts
        faint   : BOOLEAN,                 \* is resident_score at most 0.35?
        until   : {"none", "open", "over"}]  \* observation_until

VARIABLES
  stored,   \* is the row there?
  row,      \* memory_units
  ccr,      \* ccr_entries: the texts kept as originals, found by their marker
  pc,
  copy,     \* the row as an actor has read it
  source,   \* the text a worker is compressing
  \* history
  signals,  \* useful signals recorded
  wish,     \* the value of the last completed pin or unpin
  run,      \* governance cycles in a row with a high score, or (negative) a low one
  tomb,     \* was the memory tombstoned, and by whom?
  purged,   \* was it physically deleted?
  stale,    \* has an actor acted on a copy that was out of date?
  crashes

locals  == <<pc, copy, source>>
history == <<signals, wish, run, tomb, purged, stale, crashes>>
vars    == <<stored, row, ccr, locals, history>>

WorkerPC == {"govern", "list", "examine", "rescue", "expire", "compress"}
UserPC   == {"pin", "unpin", "confirm"}

TypeOK ==
  /\ stored \in BOOLEAN
  /\ row \in Row
  /\ ccr \subseteq Texts
  /\ pc \in [Actors -> {"idle"} \cup WorkerPC \cup UserPC]
  /\ copy \in [Actors -> Row]
  /\ source \in [Actors -> Texts]
  /\ signals \in 0..MaxSignals
  /\ wish \in BOOLEAN
  /\ run \in -MinDown..MinUp
  /\ tomb \in {"no", "user", "expiry"}
  /\ purged \in BOOLEAN /\ stale \in BOOLEAN
  /\ crashes \in 0..MaxCrashes

\* L2 atoms start active, L3 and L4 candidates observing; merges and approvals
\* make long memories.
NewRow(life, status) ==
  [life |-> life, status |-> status, tier |-> 0, content |-> "original", marker |-> "none",
   useful |-> 0, base |-> 0, pinned |-> FALSE, up |-> 0, down |-> 0, age |-> 0,
   faint |-> TRUE, until |-> "none"]

NoCopy == NewRow("short", "active")

Init ==
  /\ stored = TRUE
  /\ row \in {NewRow("short", "active"), NewRow("short", "observing"), NewRow("long", "active")}
  /\ ccr = {}
  /\ pc = [a \in Actors |-> "idle"]
  /\ copy = [a \in Actors |-> NoCopy]
  /\ source = [a \in Actors |-> "original"]
  /\ signals = 0 /\ wish = FALSE /\ run = 0 /\ tomb = "no"
  /\ purged = FALSE /\ stale = FALSE /\ crashes = 0

-----------------------------------------------------------------------------
GoTo(a, l) == pc' = [pc EXCEPT ![a] = l]
Cap(n, m)  == IF n < m THEN n ELSE m

Read(a) == copy' = [copy EXCEPT ![a] = row]

\* The actor is done.
Leave(a) ==
  /\ GoTo(a, "idle")
  /\ copy' = [copy EXCEPT ![a] = NoCopy]
  /\ source' = [source EXCEPT ![a] = "original"]

\* put_memory_unit: the whole row as the actor has it, inserted if it is gone.
Put(a, r) ==
  /\ row' = r
  /\ stored' = TRUE
  /\ stale' = (stale \/ ~stored \/ copy[a] # row)

-----------------------------------------------------------------------------
(* LifecycleGovernor *)

\* Faulty: a middling score leaves the streaks alone.
Scored_KeepsStreak(s, score) ==
  [s EXCEPT !.faint = score \in {"faint", "low"},
            !.age   = Cap(@ + 1, AgeDue[4]),
            !.up    = IF score = "high" THEN Cap(@ + 1, MinUp) ELSE IF score = "low" THEN 0 ELSE @,
            !.down  = IF score = "low" THEN Cap(@ + 1, MinDown) ELSE IF score = "high" THEN 0 ELSE @]

\* score_memory_unit: one cycle older, and the streaks that go with the score.
Scored(s, score) ==
  [s EXCEPT !.faint = score \in {"faint", "low"},
            !.age   = Cap(@ + 1, AgeDue[4]),
            !.up    = IF score = "high" THEN Cap(@ + 1, MinUp) ELSE 0,
            !.down  = IF score = "low" THEN Cap(@ + 1, MinDown) ELSE 0]

\* _apply_transition.  sound: the evidence is good enough; conflict: a conflict or
\* a rejection stands; full: the long memories use up their token budget.
MayPromote(s, sound, conflict, full) ==
  /\ s.life = "short"
  /\ s.up >= MinUp
  /\ ~conflict
  /\ s.pinned \/ (s.useful >= MinUseful /\ sound /\ ~full)

MayDemote(s) == s.life = "long" /\ s.down >= MinDown /\ ~s.pinned

Promoted(s) ==
  [s EXCEPT !.life = "long", !.up = 0,
            !.status = IF @ = "observing" THEN "active" ELSE @]

Demoted(s) ==
  [s EXCEPT !.life = "short", !.down = 0, !.status = "observing", !.until = "open"]

Transition(s, sound, conflict, full) ==
  CASE MayPromote(s, sound, conflict, full) -> Promoted(s)
    [] MayDemote(s) -> Demoted(s)
    [] OTHER -> s

(* run_cycle lists the memories ... *)
GovernRead(w) ==
  /\ pc[w] = "idle" /\ stored
  /\ Read(w)
  /\ GoTo(w, "govern")
  /\ UNCHANGED <<stored, row, ccr, source, history>>

(* ... and writes all of them back in one transaction. *)
GovernWrite(w) ==
  /\ pc[w] = "govern"
  /\ \E score \in Scores, sound, conflict, full \in BOOLEAN :
       /\ Put(w, Transition(Scored(copy[w], score), sound, conflict, full))
       /\ run' = CASE score = "high" -> Cap((IF run > 0 THEN run ELSE 0) + 1, MinUp)
                   [] score = "low"  -> -Cap((IF run < 0 THEN -run ELSE 0) + 1, MinDown)
                   [] OTHER -> 0
  /\ GoTo(w, "list")
  /\ UNCHANGED <<ccr, copy, source, signals, wish, tomb, purged, crashes>>

-----------------------------------------------------------------------------
(* CompressionLifecycleManager *)

\* Faulty: one useful access is not enough.
Rescuable_Twice(s) == s.marker \in ccr /\ stored /\ s.useful > s.base + 1

\* _rescue_if_useful
Rescuable(s) == s.marker \in ccr /\ stored /\ s.useful > s.base

\* Faulty: the metadata is made anew.
Rescued_DropsPin(s) ==
  [s EXCEPT !.content = s.marker, !.status = "active", !.base = s.useful, !.pinned = FALSE,
            !.tier = IF @ = 0 THEN 0 ELSE @ - 1, !.until = "none"]

Rescued(s) ==
  [s EXCEPT !.content = s.marker, !.status = "active", !.base = s.useful,
            !.tier = IF @ = 0 THEN 0 ELSE @ - 1, !.until = "none"]

\* _observation_expired
Expired(s) == s.tier = 4 /\ s.status = "observing" /\ s.until = "over"

\* _compress_if_due
Due(s) ==
  /\ s.life = "short" /\ ~s.pinned /\ s.faint
  /\ s.tier < 4 /\ s.age >= AgeDue[s.tier + 1]

\* Faulty: compresses what is in the row.
Original_Content(s) == s.content

\* The text to compress: what the marker leads to, or else the content.
Original(s) == IF stored /\ s.marker \in ccr THEN s.marker ELSE s.content

\* Faulty: the last tier gets no date.
Compressed_NoDate(s, text) ==
  [s EXCEPT !.content = "rendering", !.marker = text, !.base = s.useful, !.tier = @ + 1,
            !.status = IF s.tier = 3 THEN "observing" ELSE "compressed"]

Compressed(s, text) ==
  [s EXCEPT !.content = "rendering", !.marker = text, !.base = s.useful, !.tier = @ + 1,
            !.status = IF s.tier = 3 THEN "observing" ELSE "compressed",
            !.until = IF s.tier = 3 THEN "open" ELSE @]

(* run lists the memories. *)
ListMemory(w) ==
  /\ pc[w] = "list"
  /\ IF stored THEN Read(w) /\ GoTo(w, "examine") /\ UNCHANGED source
               ELSE Leave(w)
  /\ UNCHANGED <<stored, row, ccr, history>>

(* It looks at the copy and at the marker.  Before it compresses,          *)
(* put_ccr_entry keeps the original; that raises when the memory is gone,  *)
(* and the job fails.                                                      *)
Examine(w) ==
  LET s == copy[w]
  IN  /\ pc[w] = "examine"
      /\ \/ /\ Rescuable(s)
            /\ GoTo(w, "rescue")
            /\ UNCHANGED <<ccr, copy, source>>
         \/ /\ ~Rescuable(s) /\ Expired(s)
            /\ GoTo(w, "expire")
            /\ UNCHANGED <<ccr, copy, source>>
         \/ /\ ~Rescuable(s) /\ Due(s) /\ stored
            /\ ccr' = ccr \cup {Original(s)}
            /\ source' = [source EXCEPT ![w] = Original(s)]
            /\ GoTo(w, "compress")
            /\ UNCHANGED copy
         \/ /\ ~Rescuable(s) /\ ~Expired(s) /\ ~(Due(s) /\ stored)
            /\ Leave(w)
            /\ UNCHANGED ccr
      /\ UNCHANGED <<stored, row, history>>

Rescue(w) ==
  /\ pc[w] = "rescue"
  /\ Put(w, Rescued(copy[w]))
  /\ Leave(w)
  /\ UNCHANGED <<ccr, signals, wish, run, tomb, purged, crashes>>

Compress(w) ==
  /\ pc[w] = "compress"
  /\ Put(w, Compressed(copy[w], source[w]))
  /\ Leave(w)
  /\ UNCHANGED <<ccr, signals, wish, run, tomb, purged, crashes>>

(* delete_memory in tombstone mode, on the row as it is now. *)
Expire(w) ==
  /\ pc[w] = "expire"
  /\ Leave(w)
  /\ IF stored
       THEN /\ row' = [row EXCEPT !.status = "tombstoned"]
            /\ tomb' = "expiry"
            /\ stale' = (stale \/ copy[w] # row)
       ELSE UNCHANGED <<row, tomb, stale>>
  /\ UNCHANGED <<stored, ccr, signals, wish, run, purged, crashes>>

(* The job is cut short, or was only a call of govern_lifecycle. *)
Crash(w) ==
  /\ pc[w] # "idle"
  /\ crashes < MaxCrashes
  /\ crashes' = crashes + 1
  /\ Leave(w)
  /\ UNCHANGED <<stored, row, ccr, signals, wish, run, tomb, purged, stale>>

-----------------------------------------------------------------------------
(* Users *)

(* record_access_signal with a useful signal *)
UsefulSignal ==
  /\ stored /\ signals < MaxSignals
  /\ row' = [row EXCEPT !.useful = @ + 1]
  /\ signals' = signals + 1
  /\ UNCHANGED <<stored, ccr, locals, wish, run, tomb, purged, stale, crashes>>

(* pin_memory reads the memory, ... *)
PinRead(u) ==
  /\ pc[u] = "idle" /\ stored
  /\ Read(u)
  /\ \E l \in {"pin", "unpin"} : GoTo(u, l)
  /\ UNCHANGED <<stored, row, ccr, source, history>>

(* ... writes it back with the flag, ... *)
PinWrite(u) ==
  /\ pc[u] \in {"pin", "unpin"}
  /\ Put(u, [copy[u] EXCEPT !.pinned = (pc[u] = "pin")])
  /\ wish' = (pc[u] = "pin")
  /\ IF pc[u] = "pin" THEN GoTo(u, "confirm") /\ UNCHANGED <<copy, source>>
                      ELSE Leave(u)
  /\ UNCHANGED <<ccr, signals, run, tomb, purged, crashes>>

(* ... and confirms a pinned memory, which raises when it is gone. *)
PinConfirm(u) ==
  /\ pc[u] = "confirm"
  /\ stored => signals < MaxSignals
  /\ Leave(u)
  /\ IF stored
       THEN /\ row' = [row EXCEPT !.useful = @ + 1]
            /\ signals' = signals + 1
       ELSE UNCHANGED <<row, signals>>
  /\ UNCHANGED <<stored, ccr, wish, run, tomb, purged, stale, crashes>>

(* delete_memory, tombstone mode *)
Tombstone ==
  /\ "tombstone" \in Modes
  /\ stored /\ tomb = "no"
  /\ row' = [row EXCEPT !.status = "tombstoned"]
  /\ tomb' = "user"
  /\ UNCHANGED <<stored, ccr, locals, signals, wish, run, purged, stale, crashes>>

(* delete_memory, physical mode: the row goes, and what it kept in CCR. *)
Purge ==
  /\ "physical" \in Modes
  /\ stored /\ ~purged
  /\ stored' = FALSE
  /\ ccr' = {}
  /\ purged' = TRUE
  /\ UNCHANGED <<row, locals, signals, wish, run, tomb, stale, crashes>>

Over(r) == [r EXCEPT !.until = IF @ = "open" THEN "over" ELSE @]

(* A period of 30 days goes by. *)
Tick ==
  /\ row.until = "open"
  /\ row' = Over(row)
  /\ copy' = [a \in Actors |-> Over(copy[a])]
  /\ UNCHANGED <<stored, ccr, pc, source, history>>

-----------------------------------------------------------------------------
JobStep(w) ==
  \/ GovernRead(w) \/ GovernWrite(w) \/ ListMemory(w) \/ Examine(w)
  \/ Rescue(w) \/ Compress(w) \/ Expire(w)

UserStep(u) == PinRead(u) \/ PinWrite(u) \/ PinConfirm(u)

Next ==
  \/ \E w \in Workers : JobStep(w) \/ Crash(w)
  \/ \E u \in Users : UserStep(u)
  \/ UsefulSignal \/ Tombstone \/ Purge \/ Tick

Spec == Init /\ [][Next]_vars

\* Turns keep coming, each ends in a lifecycle job, and time passes.
FairSpec == Spec /\ (\A w \in Workers : WF_vars(JobStep(w))) /\ WF_vars(Tick)

-----------------------------------------------------------------------------
(***************************************************************************)
(* Properties                                                              *)
(***************************************************************************)

\* What CCR promises: however often a memory is compressed, rescued, promoted and
\* demoted, by however many workers at once, its text can be had back.
CompressionIsReversible ==
  (stored /\ ~purged /\ row.content = "rendering") =>
    (row.marker = "original" /\ "original" \in ccr)

\* As long as nobody writes from an outdated copy, every writer of the whole row
\* carries the users' signals and pins along.
FeedbackIsKept ==
  (stored /\ ~stale) => (row.useful = signals /\ row.pinned = wish)

\* A memory changes its lifecycle state only after the required number of cycles in
\* a row, whatever else rewrites the row between them, and a promotion takes useful
\* accesses or a pin, a demotion the lack of a pin.
TransitionsAreEarned ==
  [][(stored /\ ~stale') =>
       /\ (row.life = "short" /\ row'.life = "long") =>
            run' >= MinUp /\ (signals >= MinUseful \/ wish)
       /\ (row.life = "long" /\ row'.life = "short") => run' <= -MinDown /\ ~wish]_vars

\* A memory that was useful after it was compressed is rescued, not dropped.
UsefulIsNotDropped ==
  [][(tomb # tomb' /\ tomb' = "expiry" /\ ~stale') => signals = row.base]_vars

\* A memory that nobody pins any more and that scores low ever after ends up
\* tombstoned (or deleted).
ForgottenFades ==
  <>[](stored => ~row.pinned /\ run < 0) => <>(tomb # "no" \/ ~stored)

\* docs/quantitative-evaluation-framework.md:337 asks for a tombstone leakage rate of
\* 0, the share of deleted memories that can still be recalled (:208).  Recall leaves
\* out no status but "tombstoned" and "deleted", so that a tombstoned memory must keep
\* its status, whatever the lifecycle job does to the row it then reads and writes.
TombstoneIsFinal ==
  (stored /\ ~stale /\ tomb # "no") => row.status = "tombstoned"
=============================================================================
