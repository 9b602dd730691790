------------------------ MODULE CandidateGovernance ------------------------
(***************************************************************************)
(* What is decided about one memory of layer L3 or L4.  It is made by a    *)
(* rule-based builder, as a candidate (kinds "scene" and "persona"), or by *)
(* AutonomousGovernanceEngine, active at once (kinds "autoScene", from a   *)
(* candidate edge between two atoms, and "autoPersona").                   *)
(*                                                                         *)
(* Users mark what the review queue shows; plans follow from the marks,    *)
(* and are applied one by one, confirmed twice, or in a batch.  Users roll *)
(* back what the engine made.  The lifecycle job scores the memory like    *)
(* any other.  Each caller is a process; every select and every            *)
(* transaction is a step, and rows are written whole, as they were read.   *)
(***************************************************************************)
EXTENDS Integers, FiniteSets

CONSTANTS
  Callers,     \* processes, each with one call at a time
  MaxCalls,    \* bound on the number of calls
  MaxCrashes   \* bound on the number of calls cut short

ASSUME CandidateGovernanceAssumption == MaxCalls \in Nat /\ MaxCrashes \in Nat

Kinds     == {"scene", "persona", "autoScene", "autoPersona"}
Verdicts  == {"approved", "rejected"}
ItemKinds == {"promotion", "demotion", "scene", "persona", "edge"}

\* A plan is named by its item and the action, which follows from the verdict.
Plans  == ItemKinds \X Verdicts
NoPlan == <<"none", "none">>

\* What callers log of a change: review_apply with the plan, autonomous_applied,
\* autonomous_rolled_back.  The events of marks and judgements are left out: nothing
\* is decided from them.
Create == <<"create", "applied">>
Undo   == <<"rollback", "applied">>
Events == Plans \cup {Create, Undo}

Marks  == {"mark"} \X Verdicts

\* Of the memory: status, lifecycle_state, governance_review_status, the
\* candidate_since marks, review_action_id.
Row     == [status : {"none", "observing", "active", "tombstoned"},
            life : {"short", "long", "permanent"}, verdict : Verdicts \cup {"pending"},
            mark : {"none", "promotion", "demotion"}, acted : Plans \cup {NoPlan}]

\* Of the candidate edge: review_status, autonomous_l3_memory_id, review_action_id.
EdgeRow == [known : BOOLEAN, verdict : Verdicts \cup {"pending"}, linked : BOOLEAN,
            acted : Plans \cup {NoPlan}]

NewRow(status, life) == [status |-> status, life |-> life, verdict |-> "pending",
                         mark |-> "none", acted |-> NoPlan]
NoRow  == NewRow("none", "short")
NoEdge == [known |-> FALSE, verdict |-> "pending", linked |-> FALSE, acted |-> NoPlan]

VARIABLES
  kind,     \* how the memory is made
  row,      \* its row of memory_units
  edge,     \* the row of graph_edges
  logged,   \* review_events
  pc,
  task,     \* the plan a caller is applying, or what it is about to log
  todo,     \* the plans left of a batch
  known,    \* applied_plan_ids, as a batch has read them
  copy, edgeCopy,   \* the rows as a caller has read them
  calls, crashes,
  seen,     \* history: the rows when a caller began to look at them
  \* history
  overtaken,\* has a caller written what another had changed since it looked?
  done,     \* what was written, as it should be logged
  cut,      \* what a crash kept from being logged
  said,     \* the last mark of the memory since it was made
  approved, \* was it ever approved?
  promoted, \* did the lifecycle job ever promote it?
  rolled,   \* has it been rolled back since it was deleted last?
  revived   \* did the job, or a demotion, give a tombstoned memory a status?

stored  == <<row, edge, logged>>
read    == <<copy, edgeCopy, seen>>
held    == <<task, todo, known, read>>
local   == <<pc, held>>
records == <<overtaken, done, cut, said, approved, promoted, rolled, revived>>
vars    == <<kind, stored, local, calls, crashes, records>>

Locations == {"idle", "mark", "markEdge", "events", "batch", "find", "apply", "write", "govern",
              "rollback", "putEdge", "look", "createScene", "createPersona", "link", "linkWrite", "log"}

TypeOK ==
  /\ kind \in Kinds /\ row \in Row /\ edge \in EdgeRow
  /\ logged \subseteq Events /\ done \subseteq Events /\ cut \subseteq Events
  /\ pc \in [Callers -> Locations]
  /\ task \in [Callers -> Events \cup Marks \cup {NoPlan}]
  /\ todo \in [Callers -> SUBSET Plans] /\ known \in [Callers -> SUBSET Events]
  /\ copy \in [Callers -> Row] /\ edgeCopy \in [Callers -> EdgeRow]
  /\ seen \in [Callers -> Row \X EdgeRow]
  /\ calls \in 0..MaxCalls /\ crashes \in 0..MaxCrashes
  /\ said \in Verdicts \cup {"pending"}
  /\ {overtaken, approved, promoted, rolled, revived} \subseteq BOOLEAN

Init ==
  /\ kind \in Kinds
  /\ row = NoRow /\ edge = NoEdge /\ logged = {}
  /\ pc = [c \in Callers |-> "idle"] /\ task = [c \in Callers |-> NoPlan]
  /\ todo = [c \in Callers |-> {}] /\ known = [c \in Callers |-> {}]
  /\ copy = [c \in Callers |-> NoRow] /\ edgeCopy = [c \in Callers |-> NoEdge]
  /\ seen = [c \in Callers |-> <<NoRow, NoEdge>>]
  /\ calls = 0 /\ crashes = 0
  /\ overtaken = FALSE /\ done = {} /\ cut = {} /\ said = "pending"
  /\ approved = FALSE /\ promoted = FALSE /\ rolled = FALSE /\ revived = FALSE

-----------------------------------------------------------------------------
(* The review queue and the plans that follow from it. *)

Exists == row.status # "none"

\* ReviewQueue.list_items
Listed(i) ==
  CASE i \in {"promotion", "demotion"} -> Exists /\ row.mark = i
    [] i = "scene"   -> row.status = "observing" /\ kind \in {"scene", "autoScene"}
    [] i = "persona" -> row.status = "observing" /\ kind = "persona"
    [] i = "edge"    -> edge.known

VerdictOf(i) == IF i = "edge" THEN edge.verdict ELSE row.verdict

\* Faulty: what nobody has reviewed counts as approved.
Planned_Pending == {p \in Plans : Listed(p[1]) /\ VerdictOf(p[1]) \in {p[2], "pending"}}

\* ReviewActionPlanner.plan: all items of the memory share its verdict.
Planned == {p \in Plans : Listed(p[1]) /\ VerdictOf(p[1]) = p[2]}

NeedsSecondConfirmation(p) == p[2] = "approved" /\ p[1] # "edge"

\* Faulty: the review is cleared with the mark.
Cleared_Review(i, r) == [r EXCEPT !.mark = "none", !.verdict = "pending"]

\* _clear_lifecycle_candidate
Cleared(i, r) == [r EXCEPT !.mark = IF @ = i THEN "none" ELSE @]

Applied(p, r) ==
  LET a == [r EXCEPT !.acted = p] IN
  CASE p = <<"promotion", "approved">> ->
         [Cleared("promotion", a) EXCEPT !.life = "long", !.verdict = "approved"]
    [] p[1] \in {"promotion", "demotion"} /\ p[2] = "rejected" -> Cleared(p[1], a)
    [] p = <<"demotion", "approved">> -> [a EXCEPT !.status = "observing", !.verdict = "approved"]
    [] p = <<"scene", "approved">>    -> [a EXCEPT !.status = "active", !.verdict = "approved"]
    [] p = <<"persona", "approved">>  ->
         [a EXCEPT !.status = "active", !.life = "permanent", !.verdict = "approved",
                   !.mark = "none"]
    [] p = <<"persona", "rejected">>  -> [a EXCEPT !.verdict = "rejected"]
    [] OTHER -> a

-----------------------------------------------------------------------------
(* Steps of a call *)

GoTo(c, l) == pc' = [pc EXCEPT ![c] = l]

Begin(c, l, t) ==
  /\ pc[c] = "idle" /\ calls < MaxCalls
  /\ calls' = calls + 1
  /\ GoTo(c, l)
  /\ task' = [task EXCEPT ![c] = t]

Look(c) == seen' = [seen EXCEPT ![c] = <<row, edge>>]
Read(c) == copy' = [copy EXCEPT ![c] = row] /\ edgeCopy' = [edgeCopy EXCEPT ![c] = edge]

Drop(c) ==
  /\ copy' = [copy EXCEPT ![c] = NoRow] /\ edgeCopy' = [edgeCopy EXCEPT ![c] = NoEdge]
  /\ seen' = [seen EXCEPT ![c] = <<NoRow, NoEdge>>]

Finish(c) ==
  /\ GoTo(c, "idle") /\ Drop(c)
  /\ task' = [task EXCEPT ![c] = NoPlan] /\ todo' = [todo EXCEPT ![c] = {}]
  /\ known' = [known EXCEPT ![c] = {}]

\* Done with one plan: a batch goes on.
Onward(c) ==
  \/ todo[c] = {} /\ Finish(c)
  \/ todo[c] # {} /\ GoTo(c, "batch") /\ UNCHANGED held

Overtaken(c) == overtaken' = (overtaken \/ seen[c] # <<row, edge>>)

\* A transaction of the caller has made the change it will log next.
Written(c) ==
  /\ Overtaken(c)
  /\ done' = done \cup {task[c]}
  /\ GoTo(c, "log") /\ Drop(c)

\* append_review_event, a transaction of its own, which callers make while
\* enable_review_event_sourcing is set, as it is by default (config.py:37).
Log(c) ==
  /\ pc[c] = "log"
  /\ logged' = logged \cup {task[c]}
  /\ Onward(c)
  /\ UNCHANGED <<kind, row, edge, calls, crashes, records>>

-----------------------------------------------------------------------------
(* Marks *)

\* ReviewQueue.mark_memory, update_memory_metadata ...
MarkRead(c) ==
  /\ Exists
  /\ \E v \in Verdicts : Begin(c, "mark", <<"mark", v>>)
  /\ Read(c) /\ Look(c)
  /\ UNCHANGED <<kind, stored, todo, known, crashes, records>>

MarkWrite(c) ==
  /\ pc[c] = "mark"
  /\ row' = [copy[c] EXCEPT !.verdict = task[c][2]]
  /\ said' = task[c][2]
  /\ approved' = (approved \/ said' = "approved")
  /\ Overtaken(c) /\ Finish(c)
  /\ UNCHANGED <<kind, edge, logged, calls, crashes, done, cut, promoted, rolled, revived>>

\* ReviewQueue.mark_graph_edge, update_graph_edge_metadata ...
MarkEdgeRead(c) ==
  /\ edge.known
  /\ \E v \in Verdicts : Begin(c, "markEdge", <<"mark", v>>)
  /\ Read(c) /\ Look(c)
  /\ UNCHANGED <<kind, stored, todo, known, crashes, records>>

MarkEdgeWrite(c) ==
  /\ pc[c] = "markEdge"
  /\ edge' = [edgeCopy[c] EXCEPT !.verdict = task[c][2]]
  /\ Overtaken(c) /\ Finish(c)
  /\ UNCHANGED <<kind, row, logged, calls, crashes,
                 done, cut, said, approved, promoted, rolled, revived>>

-----------------------------------------------------------------------------
(* Plans *)

\* review_apply of a plan the caller knows of, confirmed as often as it asks for.
ApplyCall(c) ==
  /\ \E p \in Plans : Begin(c, "find", p)
  /\ UNCHANGED <<kind, stored, todo, known, read, crashes, records>>

\* apply_review_action_plans lists the plans, ...
BatchCall(c) ==
  /\ Begin(c, "events", NoPlan)
  /\ \E rejected, second \in BOOLEAN :
       todo' = [todo EXCEPT ![c] = {p \in Planned : /\ p[2] = "rejected" => rejected
                                                    /\ NeedsSecondConfirmation(p) => second}]
  /\ UNCHANGED <<kind, stored, known, read, crashes, records>>

\* ... then the events, ...
BatchEvents(c) ==
  /\ pc[c] = "events"
  /\ GoTo(c, "batch")
  /\ known' = [known EXCEPT ![c] = logged]
  /\ UNCHANGED <<kind, stored, task, todo, read, calls, crashes, records>>

AlreadyApplied(c, p) ==
  \/ p \in known[c]
  \/ p = IF p[1] = "edge" THEN edge.acted ELSE row.acted

\* ... and takes one after the other: lifecycle items first, of which there is one.
Foremost(c) ==
  LET first == {p \in todo[c] : p[1] \in {"promotion", "demotion"}}
  IN CHOOSE p \in todo[c] : first = {} \/ p \in first

BatchNext(c) ==
  /\ pc[c] = "batch"
  /\ \/ todo[c] = {} /\ Finish(c)
     \/ /\ todo[c] # {}
        /\ LET p == Foremost(c) IN
           /\ todo' = [todo EXCEPT ![c] = @ \ {p}]
           /\ IF AlreadyApplied(c, p) THEN UNCHANGED <<pc, task>>
              ELSE GoTo(c, "find") /\ task' = [task EXCEPT ![c] = p]
        /\ UNCHANGED <<known, read>>
  /\ UNCHANGED <<kind, stored, calls, crashes, records>>

\* ReviewActionExecutor._find_plan: is it still a plan?
ApplyFind(c) ==
  /\ pc[c] = "find"
  /\ \/ /\ task[c] \in Planned
        /\ GoTo(c, "apply") /\ Look(c)
        /\ UNCHANGED <<task, todo, known, copy, edgeCopy>>
     \/ task[c] \notin Planned /\ Onward(c)
  /\ UNCHANGED <<kind, stored, calls, crashes, records>>

Target(c) == task[c][1] = "edge" \/ Exists

\* Faulty: the event is appended although the target is gone.
ApplyRead_LogsMissing(c) ==
  /\ pc[c] = "apply"
  /\ Read(c) /\ Overtaken(c)
  /\ GoTo(c, IF Target(c) THEN "write" ELSE "log")
  /\ UNCHANGED <<kind, stored, task, todo, known, seen, calls, crashes,
                 done, cut, said, approved, promoted, rolled, revived>>

\* The target is read again; the plan is not.
ApplyRead(c) ==
  /\ pc[c] = "apply"
  /\ \/ /\ Target(c)
        /\ GoTo(c, "write") /\ Read(c) /\ Overtaken(c)
        /\ UNCHANGED <<task, todo, known, seen>>
     \/ ~Target(c) /\ Onward(c) /\ UNCHANGED overtaken
  /\ UNCHANGED <<kind, stored, calls, crashes,
                 done, cut, said, approved, promoted, rolled, revived>>

ApplyWrite(c) ==
  /\ pc[c] = "write"
  /\ IF task[c][1] = "edge"
     THEN /\ edge' = [edgeCopy[c] EXCEPT !.verdict = task[c][2], !.acted = task[c]]
          /\ UNCHANGED <<row, revived>>
     ELSE /\ row' = Applied(task[c], copy[c])
          /\ revived' = (revived \/ (row.status = "tombstoned" /\ task[c] = <<"demotion", "approved">>))
          /\ UNCHANGED edge
  /\ Written(c)
  /\ UNCHANGED <<kind, logged, task, todo, known, calls, crashes,
                 cut, said, approved, promoted, rolled>>

-----------------------------------------------------------------------------
(* Builders *)

\* The same atoms make the same memory, anew, whatever was decided about it.
Build(c, r) ==
  /\ pc[c] = "idle"
  /\ calls < MaxCalls /\ calls' = calls + 1
  /\ row' = r
  /\ said' = "pending"
  /\ UNCHANGED <<kind, edge, logged, local, crashes,
                 overtaken, done, cut, approved, promoted, rolled, revived>>

\* RuleBasedL3SceneBuilder.build
BuildScene(c) == kind = "scene" /\ Build(c, NewRow("observing", "short"))

\* L4PersonaCandidateBuilder.build
BuildPersona(c) == kind = "persona" /\ Build(c, NewRow("observing", "long"))

\* CrossSessionL3CandidateFinder.find: a known edge keeps its review_status.
FindEdge(c) ==
  /\ kind = "autoScene" /\ pc[c] = "idle"
  /\ calls < MaxCalls /\ calls' = calls + 1
  /\ edge' = [edge EXCEPT !.known = TRUE]
  /\ UNCHANGED <<kind, row, logged, local, crashes, records>>

-----------------------------------------------------------------------------
(* AutonomousGovernanceEngine *)

\* _cross_session_l3_candidates: the verdict on the edge does not matter.
SceneCandidate == kind = "autoScene" /\ ~edge.linked

\* _l4_persona_candidates: a facet that is not active is a candidate, again.
PersonaCandidate == kind = "autoPersona" /\ row.status # "active"

\* A candidate is found and judged "execute"; another judgement changes nothing.
RunScene(c) ==
  /\ SceneCandidate
  /\ Begin(c, "putEdge", Create)
  /\ Look(c)
  /\ UNCHANGED <<kind, stored, todo, known, copy, edgeCopy, crashes, records>>

RunPersona(c) ==
  /\ PersonaCandidate
  /\ Begin(c, "createPersona", Create)
  /\ Look(c)
  /\ UNCHANGED <<kind, stored, todo, known, copy, edgeCopy, crashes, records>>

\* _materialize_l3_scene: the edge ...
PutEdge(c) ==
  /\ pc[c] = "putEdge"
  /\ edge' = [edge EXCEPT !.known = TRUE]
  /\ GoTo(c, "look")
  /\ UNCHANGED <<kind, row, logged, task, todo, known, copy, edgeCopy, seen, calls, crashes, records>>

\* Faulty: a scene that exists is written again.
EngineLook_Overwrites(c) ==
  /\ pc[c] = "look"
  /\ GoTo(c, "createScene")
  /\ Look(c)
  /\ UNCHANGED <<kind, stored, task, todo, known, copy, edgeCopy, calls, crashes, records>>

\* ... the scene, unless it exists, ...
EngineLook(c) ==
  /\ pc[c] = "look"
  /\ GoTo(c, IF Exists THEN "log" ELSE "createScene")
  /\ Look(c)
  /\ UNCHANGED <<kind, stored, task, todo, known, copy, edgeCopy, calls, crashes, records>>

EngineCreate(c, life) ==
  /\ row' = NewRow("active", life)
  /\ said' = "pending"
  /\ Overtaken(c)
  /\ done' = done \cup {Create}
  /\ UNCHANGED <<kind, edge, logged, held, calls, crashes,
                 cut, approved, promoted, rolled, revived>>

CreateScene(c)   == pc[c] = "createScene" /\ EngineCreate(c, "long") /\ GoTo(c, "link")
CreatePersona(c) == pc[c] = "createPersona" /\ EngineCreate(c, "permanent") /\ GoTo(c, "log")

\* ... and autonomous_l3_memory_id.
LinkRead(c) ==
  /\ pc[c] = "link"
  /\ Read(c) /\ Look(c)
  /\ GoTo(c, "linkWrite")
  /\ UNCHANGED <<kind, stored, task, todo, known, calls, crashes, records>>

LinkWrite(c) ==
  /\ pc[c] = "linkWrite"
  /\ edge' = [edgeCopy[c] EXCEPT !.linked = TRUE]
  /\ Written(c)
  /\ UNCHANGED <<kind, row, logged, task, todo, known, calls, crashes,
                 cut, said, approved, promoted, rolled, revived>>

\* AutonomousGovernanceEngine.rollback ...
RollbackRead(c) ==
  /\ kind \in {"autoScene", "autoPersona"} /\ Exists
  /\ Begin(c, "rollback", Undo)
  /\ Read(c) /\ Look(c)
  /\ UNCHANGED <<kind, stored, todo, known, crashes, records>>

RollbackWrite(c) ==
  /\ pc[c] = "rollback"
  /\ row' = [copy[c] EXCEPT !.status = "tombstoned"]
  /\ rolled' = TRUE /\ revived' = FALSE
  /\ Written(c)
  /\ UNCHANGED <<kind, edge, logged, task, todo, known, calls, crashes,
                 cut, said, approved, promoted>>

-----------------------------------------------------------------------------
(* The lifecycle job (LifecycleGovernor.run_cycle), users who delete, crashes *)

GovernRead(c) ==
  /\ Exists
  /\ Begin(c, "govern", NoPlan)
  /\ Read(c) /\ Look(c)
  /\ UNCHANGED <<kind, stored, todo, known, crashes, records>>

\* What a cycle may make of a row: a mark that goes with the score, or, at the end
\* of a streak, a promotion or a demotion.
Governed(r) ==
  {[r EXCEPT !.mark = m] : m \in {"none", "promotion", "demotion"}}
  \cup {g \in {[r EXCEPT !.life = "long", !.mark = "none",
                         !.status = IF @ = "observing" THEN "active" ELSE @]} : r.life = "short"}
  \cup {g \in {[r EXCEPT !.life = "short", !.mark = "none", !.status = "observing"]} : r.life = "long"}

GovernWrite(c) ==
  /\ pc[c] = "govern"
  /\ row' \in Governed(copy[c])
  /\ promoted' = (promoted \/ (row'.life = "long" /\ copy[c].life = "short"))
  /\ revived' = (revived \/ (row.status = "tombstoned" /\ row'.status # "tombstoned"))
  /\ Overtaken(c) /\ Finish(c)
  /\ UNCHANGED <<kind, edge, logged, calls, crashes, done, cut, said, approved, rolled>>

Tombstone ==
  /\ Exists
  /\ calls < MaxCalls /\ calls' = calls + 1
  /\ row' = [row EXCEPT !.status = "tombstoned"]
  /\ UNCHANGED <<kind, edge, logged, local, crashes, records>>

Purge ==
  /\ Exists
  /\ calls < MaxCalls /\ calls' = calls + 1
  /\ row' = NoRow
  /\ said' = "pending" /\ rolled' = FALSE
  /\ UNCHANGED <<kind, edge, logged, local, crashes,
                 overtaken, done, cut, approved, promoted, revived>>

Crash(c) ==
  /\ pc[c] # "idle" /\ crashes < MaxCrashes
  /\ crashes' = crashes + 1
  /\ Finish(c)
  /\ cut' = IF pc[c] \in {"log", "link", "linkWrite"} THEN cut \cup {task[c]} ELSE cut
  /\ UNCHANGED <<kind, stored, calls, overtaken, done, said, approved, promoted, rolled, revived>>

-----------------------------------------------------------------------------
Review(c) ==
  \/ MarkRead(c) \/ MarkWrite(c) \/ MarkEdgeRead(c) \/ MarkEdgeWrite(c)
  \/ ApplyCall(c) \/ BatchCall(c) \/ BatchEvents(c) \/ BatchNext(c)
  \/ ApplyFind(c) \/ ApplyRead(c) \/ ApplyWrite(c)

Engine(c) ==
  \/ RunScene(c) \/ PutEdge(c) \/ EngineLook(c) \/ CreateScene(c)
  \/ RunPersona(c) \/ CreatePersona(c)
  \/ LinkRead(c) \/ LinkWrite(c) \/ RollbackRead(c) \/ RollbackWrite(c)

Next ==
  \/ \E c \in Callers : \/ Review(c) \/ Engine(c) \/ BuildScene(c) \/ BuildPersona(c) \/ FindEdge(c)
                        \/ GovernRead(c) \/ GovernWrite(c) \/ Log(c) \/ Crash(c)
  \/ Tombstone \/ Purge

Spec == Init /\ [][Next]_vars

-----------------------------------------------------------------------------
(* Properties *)

\* Every change of a review or of the engine is in the log, but for those whose
\* caller is about to log it or was cut short, and nothing else is.
LogMatchesWrites ==
  done = logged \cup cut
         \cup {task[c] : c \in {d \in Callers : pc[d] \in {"log", "link", "linkWrite"}}}

\* A builder's candidate is active only if somebody approved it once, or the
\* lifecycle job promoted it; a facet is permanent only if approved.
ActiveIsVouchedFor ==
  kind \in {"scene", "persona"} =>
    /\ row.status = "active" => approved \/ promoted
    /\ row.life = "permanent" => approved

\* As long as nobody is overtaken between looking and writing, the last verdict of
\* a user stands until the memory is made anew: no plan, cycle or rollback turns a
\* rejected memory, which recall leaves out, into an approved one.
VerdictHolds == ~overtaken => row.verdict = said

\* What was rolled back stays out of recall, unless somebody was overtaken, or the
\* lifecycle job or an approved demotion took the tombstone away: the engine does not
\* make the scene again, not even after a crash before it could note the scene in the
\* edge.
RollbackHolds ==
  (kind = "autoScene" /\ rolled /\ ~overtaken /\ ~revived) => row.status = "tombstoned"
=============================================================================
