--------------------------- MODULE SemanticLayers ---------------------------
(***************************************************************************)
(* Layers L3 and L4 of one user workspace: scenes, each made of a fixed    *)
(* set of L2 atoms, and persona facets, of which several (versions, with   *)
(* different statements) may share a facet key.  Each is a memory and a    *)
(* typed row of its own (l3_scenes, l4_persona_facets), written together.  *)
(*                                                                         *)
(* Workers run the jobs semantic_l3 (SemanticL3SceneBuilder.build, then    *)
(* SceneLifecycleManager.advance), semantic_l4                             *)
(* (SemanticL4PersonaDistiller.distill, PersonaLifecycleManager.advance)   *)
(* and lifecycle (LifecycleGovernor, CompressionLifecycleManager).         *)
(* Every select is a step and every transaction is a step; what was read   *)
(* is kept in the worker and may be old when it is written.                *)
(***************************************************************************)
EXTENDS Integers, FiniteSets

CONSTANTS
  Scenes,       \* scenes, named by their source memories
  Personas,     \* facets, named by facet_key and statement
  KeyOf,        \* facet_key of a persona
  Evidence,     \* L2 atoms of a persona atom type
  Sessions,     \* session_id of an atom
  Agents,       \* agent_id of an atom
  Supports,     \* sets of atoms that a component, or an answer, consists of
  Workers,
  SceneCycles, PersonaCycles,   \* min_observation_cycles of the two managers
  SceneUses, PersonaUses,       \* min_useful_accesses
  MaxAnswers, MaxGoverned, MaxDeletions,   \* bounds: what models synthesize or
                \* are asked to resolve, rows governance writes, deletions
  None          \* no item

Items == Scenes \cup Personas
Keys  == {KeyOf[p] : p \in Personas}

Largest(a, b) == IF a > b THEN a ELSE b
CycleCap == Largest(SceneCycles, PersonaCycles)   \* counters stop there: nothing
UseCap   == Largest(SceneUses, PersonaUses)       \* asks for more

ASSUME SemanticLayersAssumption ==
  /\ Scenes \cap Personas = {} /\ None \notin Items
  /\ DOMAIN KeyOf = Personas
  /\ DOMAIN Sessions = Evidence /\ DOMAIN Agents = Evidence
  /\ SceneCycles \in Nat \ {0} /\ PersonaCycles \in Nat \ {0}
  /\ SceneUses \in Nat /\ PersonaUses \in Nat
  /\ Supports \subseteq SUBSET Evidence
  /\ MaxAnswers \in Nat /\ MaxGoverned \in Nat /\ MaxDeletions \in Nat

MinCycles(i) == IF i \in Scenes THEN SceneCycles ELSE PersonaCycles
MinUses(i)   == IF i \in Scenes THEN SceneUses ELSE PersonaUses

Bump(n, cap) == IF n < cap THEN n + 1 ELSE n
OneMore(n)   == Bump(n, CycleCap)

VARIABLES
  memory,     \* rows of memory_units: status, useful_access_count, and the
              \* observation_cycles of the metadata
  card,       \* the typed rows; only facets have a status of their own
  history,    \* l4_persona_history: pairs of a facet and its replacement
  answers, governed, deletions,        \* how often, for the bounds
  pc, item, other, body, copy, shown,  \* what each worker holds
  observed,   \* history: times an item was synthesized and stored
  used,       \* history: useful signals an item had
  replaced,   \* history: facets stored as the replacement of another
  promoted,   \* history: items that governance made active
  revived,    \* history: tombstoned items to which governance gave a status
  purged      \* history: facet keys of which a version was deleted

stored  == <<memory, card, history>>
counts  == <<answers, governed, deletions>>
local   == <<pc, item, other, body, copy, shown>>
records == <<observed, used, replaced, promoted, revived, purged>>
vars    == <<stored, counts, local, records>>

Statuses == {"none", "observing", "active", "compressed", "tombstoned"}
Memory   == [status : Statuses, useful : 0..UseCap, cycles : 0..CycleCap]
Card     == [status : {"none", "scene", "observing", "active", "superseded"},
             cycles : 0..CycleCap, sources : SUBSET Evidence]

NoMemory == [status |-> "none", useful |-> 0, cycles |-> 0]
NoCard   == [status |-> "none", cycles |-> 0, sources |-> {}]

Locations == {"idle", "scene", "putScene", "advanceScene", "activateScene",
              "distill", "lookUp", "resolve", "previous", "supersede",
              "putPersona", "advance", "activate", "govern"}

TypeOK ==
  /\ memory \in [Items -> Memory]
  /\ card \in [Items -> Card]
  /\ history \subseteq Personas \X Personas
  /\ answers \in 0..MaxAnswers /\ governed \in 0..MaxGoverned
  /\ deletions \in 0..MaxDeletions
  /\ pc \in [Workers -> Locations]
  /\ item \in [Workers -> Items \cup {None}] /\ other \in [Workers -> Items \cup {None}]
  /\ body \in [Workers -> SUBSET Evidence]
  /\ copy \in [Workers -> Memory]
  /\ shown \in [Workers -> [Items -> Card]]
  /\ observed \in [Items -> 0..CycleCap] /\ used \in [Items -> 0..UseCap]
  /\ replaced \subseteq Items /\ promoted \subseteq Items /\ revived \subseteq Items
  /\ purged \subseteq Keys

Init ==
  /\ memory = [i \in Items |-> NoMemory] /\ card = [i \in Items |-> NoCard]
  /\ history = {} /\ answers = 0 /\ governed = 0 /\ deletions = 0
  /\ pc = [w \in Workers |-> "idle"]
  /\ item = [w \in Workers |-> None] /\ other = [w \in Workers |-> None]
  /\ body = [w \in Workers |-> {}]
  /\ copy = [w \in Workers |-> NoMemory]
  /\ shown = [w \in Workers |-> [i \in Items |-> NoCard]]
  /\ observed = [i \in Items |-> 0] /\ used = [i \in Items |-> 0]
  /\ replaced = {} /\ promoted = {} /\ revived = {} /\ purged = {}

-----------------------------------------------------------------------------
(* The database. *)

Stored(i) == memory[i].status # "none"
Current(p) == card[p].status \in {"observing", "active"}

CurrentVersions(p) == {q \in Personas : KeyOf[q] = KeyOf[p] /\ Current(q)}

\* Faulty: the index is missing.
IndexAllows_Anything(p, gone) == TRUE

\* idx_l4_persona_current_facet: may p be stored as a current facet, the facets
\* in gone no longer being current?
IndexAllows(p, gone) == CurrentVersions(p) \subseteq gone \cup {p}

\* _has_cross_context_support
CrossContext(E) ==
  \/ Cardinality({Sessions[e] : e \in E}) >= 2
  \/ Cardinality({Agents[e] : e \in E}) >= 2

\* Items that advance lists: scenes by the status of their memory, facets by their own.
ObservingScenes   == {s \in Scenes : memory[s].status = "observing"
                                       /\ card[s].status # "none"}
ObservingPersonas == {p \in Personas : card[p].status = "observing"}

\* A worker at l with empty hands.
Leave(w, l) ==
  /\ pc' = [pc EXCEPT ![w] = l]
  /\ item' = [item EXCEPT ![w] = None] /\ other' = [other EXCEPT ![w] = None]
  /\ body' = [body EXCEPT ![w] = {}]
  /\ copy' = [copy EXCEPT ![w] = NoMemory]

Forgotten(w) == shown' = [shown EXCEPT ![w] = [i \in Items |-> NoCard]]
List(w, S)   == shown' = [shown EXCEPT ![w] = [i \in Items |-> IF i \in S THEN card[i]
                                                              ELSE NoCard]]
Listed(w)    == {i \in Items : shown[w][i].status # "none"}
Drop(w, i)   == shown' = [shown EXCEPT ![w][i] = NoCard]

\* An exception or the end of the process: the job is claimed again, or given up.
Abandon(w) == Leave(w, "idle") /\ Forgotten(w)

Stop(w) ==
  /\ pc[w] # "idle"
  /\ Abandon(w)
  /\ UNCHANGED <<stored, counts, records>>

-----------------------------------------------------------------------------
(* What build and distill store: the memory keeps status, counts and dates of *)
(* the row that was read, and one more observation.                           *)

Observation(old) ==
  [status |-> IF old.status = "none" THEN "observing" ELSE old.status,
   useful |-> old.useful, cycles |-> OneMore(old.cycles)]

SceneCard(w) ==
  [status |-> "scene", cycles |-> OneMore(copy[w].cycles), sources |-> {}]

\* Faulty: the upsert leaves the status of a superseded row alone.
PersonaCard_KeepsStatus(w) ==
  [status |-> CASE card[item[w]].status = "superseded" -> "superseded"
                [] copy[w].status = "active" -> "active"
                [] OTHER -> "observing",
   cycles |-> OneMore(copy[w].cycles), sources |-> body[w]]

PersonaCard(w) ==
  [status |-> IF copy[w].status = "active" THEN "active" ELSE "observing",
   cycles |-> OneMore(copy[w].cycles), sources |-> body[w]]

\* The replacement of facet q: active at once, and heir to its counts.
ReplacementMemory(w) ==
  [status |-> "active", useful |-> copy[w].useful,
   cycles |-> OneMore(shown[w][item[w]].cycles)]

ReplacementCard(w) ==
  [status |-> "active", cycles |-> OneMore(shown[w][item[w]].cycles),
   sources |-> body[w]]

Activated(old) == [old EXCEPT !.status = "active"]

-----------------------------------------------------------------------------
(* Job semantic_l3: build may store scenes, then advance lists them. *)

Building(w) == pc[w] \in {"idle", "scene"}

\* _synthesize, after the gates accepted the pairs of a component: the memory of
\* the scene is read once the model has answered.
SynthesizeScene(w, s) ==
  /\ Building(w)
  /\ answers < MaxAnswers /\ answers' = answers + 1
  /\ pc' = [pc EXCEPT ![w] = "putScene"]
  /\ item' = [item EXCEPT ![w] = s]
  /\ copy' = [copy EXCEPT ![w] = memory[s]]
  /\ UNCHANGED <<stored, governed, deletions, other, body, shown, records>>

PutScene(w) ==
  /\ pc[w] = "putScene"
  /\ memory' = [memory EXCEPT ![item[w]] = Observation(copy[w])]
  /\ card' = [card EXCEPT ![item[w]] = SceneCard(w)]
  /\ observed' = [observed EXCEPT ![item[w]] = OneMore(@)]
  /\ Leave(w, "scene")
  /\ UNCHANGED <<history, counts, shown, used, replaced, promoted, revived, purged>>

ListScenes(w) ==
  /\ Building(w)
  /\ pc' = [pc EXCEPT ![w] = "advanceScene"]
  /\ List(w, ObservingScenes)
  /\ UNCHANGED <<stored, counts, item, other, body, copy, records>>

\* Faulty: uses are not asked for.
SceneReady_Unused(row, old) == row.cycles >= SceneCycles

\* Confidence and boundary_risk may allow it or not.
SceneReady(row, old) == row.cycles >= SceneCycles /\ old.useful >= SceneUses

ReadScene(w, s) ==
  /\ pc[w] = "advanceScene" /\ s \in Listed(w)
  /\ \/ /\ Stored(s) /\ SceneReady(shown[w][s], memory[s])
        /\ pc' = [pc EXCEPT ![w] = "activateScene"]
        /\ item' = [item EXCEPT ![w] = s]
        /\ copy' = [copy EXCEPT ![w] = memory[s]]
        /\ UNCHANGED shown
     \/ Drop(w, s) /\ UNCHANGED <<pc, item, copy>>
  /\ UNCHANGED <<stored, counts, other, body, records>>

ActivateScene(w) ==
  /\ pc[w] = "activateScene"
  /\ memory' = [memory EXCEPT ![item[w]] = Activated(copy[w])]
  /\ card' = [card EXCEPT ![item[w]] = shown[w][item[w]]]
  /\ Drop(w, item[w]) /\ Leave(w, "advanceScene")
  /\ UNCHANGED <<history, counts, records>>

\* semantic_l4 is queued, and may run next, here or elsewhere.
EndScenes(w) ==
  /\ pc[w] = "advanceScene" /\ Listed(w) = {}
  /\ pc' = [pc EXCEPT ![w] = "idle"]
  /\ UNCHANGED <<stored, counts, item, other, body, copy, shown, records>>

-----------------------------------------------------------------------------
(* Job semantic_l4: distill, one component after the other. *)

Distilling(w) == pc[w] \in {"idle", "distill"}

\* The gate asks to resolve a conflict within a component.
ObserveConflict(w, E) ==
  /\ Distilling(w) /\ CrossContext(E)
  /\ answers < MaxAnswers /\ answers' = answers + 1
  /\ pc' = [pc EXCEPT ![w] = "resolve"]
  /\ body' = [body EXCEPT ![w] = E]
  /\ UNCHANGED <<stored, governed, deletions, item, other, copy, shown, records>>

\* The gate accepts a component, and _synthesize makes a facet of it.
SynthesizePersona(w, p, E) ==
  /\ Distilling(w) /\ CrossContext(E)
  /\ answers < MaxAnswers /\ answers' = answers + 1
  /\ pc' = [pc EXCEPT ![w] = "lookUp"]
  /\ item' = [item EXCEPT ![w] = p] /\ body' = [body EXCEPT ![w] = E]
  /\ copy' = [copy EXCEPT ![w] = memory[p]]
  /\ UNCHANGED <<stored, governed, deletions, other, shown, records>>

\* _current_facet: is another facet current for the key?
LookUp(w) ==
  /\ pc[w] = "lookUp"
  /\ pc' = [pc EXCEPT ![w] = IF CurrentVersions(item[w]) \subseteq {item[w]}
                             THEN "putPersona" ELSE "resolve"]
  /\ UNCHANGED <<stored, counts, item, other, body, copy, shown, records>>

PutPersona(w) ==
  /\ pc[w] = "putPersona" /\ IndexAllows(item[w], {})
  /\ memory' = [memory EXCEPT ![item[w]] = Observation(copy[w])]
  /\ card' = [card EXCEPT ![item[w]] = PersonaCard(w)]
  /\ observed' = [observed EXCEPT ![item[w]] = OneMore(@)]
  /\ Leave(w, "distill")
  /\ UNCHANGED <<history, counts, shown, used, replaced, promoted, revived, purged>>

\* The insertion violates idx_l4_persona_current_facet.
PutPersonaFails(w) ==
  /\ pc[w] = "putPersona" /\ ~IndexAllows(item[w], {})
  /\ Abandon(w)
  /\ UNCHANGED <<stored, counts, records>>

\* _resolve_supersession lists the current facets and asks the model.
ListCurrent(w) ==
  /\ pc[w] = "resolve"
  /\ pc' = [pc EXCEPT ![w] = "previous"]
  /\ List(w, {p \in Personas : Current(p)})
  /\ UNCHANGED <<stored, counts, item, other, body, copy, records>>

\* The conditions on the answer: r is to replace q on the evidence E, and is the
\* candidate if there is one.
Acceptable(w, q, r, E) ==
  /\ q \in Listed(w) /\ KeyOf[r] = KeyOf[q] /\ r # q
  /\ E \subseteq body[w] /\ CrossContext(E) /\ ~(E \subseteq shown[w][q].sources)
  /\ item[w] \in {None, r}

Resolve(w, q, r, E) ==
  /\ pc[w] = "previous" /\ Acceptable(w, q, r, E) /\ Stored(q)
  /\ pc' = [pc EXCEPT ![w] = "supersede"]
  /\ item' = [item EXCEPT ![w] = q] /\ other' = [other EXCEPT ![w] = r]
  /\ body' = [body EXCEPT ![w] = E]
  /\ copy' = [copy EXCEPT ![w] = memory[q]]
  /\ shown' = [shown EXCEPT ![w] = [i \in Items |-> IF i = q THEN @[i] ELSE NoCard]]
  /\ UNCHANGED <<stored, counts, records>>

\* The answer is to coexist or to defer, is refused, or the facet is gone.
ResolveNothing(w) ==
  /\ pc[w] = "previous"
  /\ Leave(w, "distill") /\ Forgotten(w)
  /\ UNCHANGED <<stored, counts, records>>

\* What supersede_l4_persona requires inside of its transaction: the old facet is
\* still current, and the row of the history is new.
Supersedable(q, r) ==
  Current(q) /\ Stored(q) /\ KeyOf[q] = KeyOf[r] /\ <<q, r>> \notin history
             /\ IndexAllows(r, {q})

Supersede(w) ==
  LET q == item[w]
      r == other[w] IN
  /\ pc[w] = "supersede" /\ Supersedable(q, r)
  /\ memory' = [memory EXCEPT ![q].status = "tombstoned", ![r] = ReplacementMemory(w)]
  /\ card' = [card EXCEPT ![q].status = "superseded", ![r] = ReplacementCard(w)]
  /\ history' = history \cup {<<q, r>>}
  /\ replaced' = replaced \cup {r}
  /\ Leave(w, "distill") /\ Forgotten(w)
  /\ UNCHANGED <<counts, observed, used, promoted, revived, purged>>

SupersedeFails(w) ==
  /\ pc[w] = "supersede" /\ ~Supersedable(item[w], other[w])
  /\ Abandon(w)
  /\ UNCHANGED <<stored, counts, records>>

-----------------------------------------------------------------------------
(* Job semantic_l4: advance. *)

ListPersonas(w) ==
  /\ Distilling(w)
  /\ pc' = [pc EXCEPT ![w] = "advance"]
  /\ List(w, ObservingPersonas)
  /\ UNCHANGED <<stored, counts, item, other, body, copy, records>>

\* Confidence and stability_score may allow it or not; counter-evidence is only
\* recorded with facets that are active.
PersonaReady(row, old) ==
  /\ row.cycles >= PersonaCycles
  /\ Cardinality({Sessions[e] : e \in row.sources}) >= 2
  /\ old.useful >= PersonaUses

ReadPersona(w, p) ==
  /\ pc[w] = "advance" /\ p \in Listed(w)
  /\ \/ /\ Stored(p) /\ PersonaReady(shown[w][p], memory[p])
        /\ pc' = [pc EXCEPT ![w] = "activate"]
        /\ item' = [item EXCEPT ![w] = p]
        /\ copy' = [copy EXCEPT ![w] = memory[p]]
        /\ UNCHANGED shown
     \/ Drop(w, p) /\ UNCHANGED <<pc, item, copy>>
  /\ UNCHANGED <<stored, counts, other, body, records>>

ActivatePersona(w) ==
  LET p == item[w] IN
  /\ pc[w] = "activate" /\ IndexAllows(p, {})
  /\ memory' = [memory EXCEPT ![p] = Activated(copy[w])]
  /\ card' = [card EXCEPT ![p] = Activated(shown[w][p])]
  /\ Drop(w, p) /\ Leave(w, "advance")
  /\ UNCHANGED <<history, counts, records>>

ActivatePersonaFails(w) ==
  /\ pc[w] = "activate" /\ ~IndexAllows(item[w], {})
  /\ Abandon(w)
  /\ UNCHANGED <<stored, counts, records>>

\* lifecycle and retention are queued.
EndPersonas(w) ==
  /\ pc[w] = "advance" /\ Listed(w) = {}
  /\ pc' = [pc EXCEPT ![w] = "idle"]
  /\ UNCHANGED <<stored, counts, item, other, body, copy, shown, records>>

-----------------------------------------------------------------------------
(* Job lifecycle, and users. *)

\* A governance or compression run has the item in its list, tombstoned or not.
GovernRead(w, i) ==
  /\ pc[w] = "idle" /\ Stored(i)
  /\ governed < MaxGoverned /\ governed' = governed + 1
  /\ pc' = [pc EXCEPT ![w] = "govern"]
  /\ item' = [item EXCEPT ![w] = i]
  /\ copy' = [copy EXCEPT ![w] = memory[i]]
  /\ UNCHANGED <<stored, answers, deletions, other, body, shown, records>>

\* It writes the row back with the status its scores ask for, or the same.
GovernWrite(w, status) ==
  LET i == item[w] IN
  /\ pc[w] = "govern"
  /\ memory' = [memory EXCEPT ![i] = [copy[w] EXCEPT !.status = status]]
  /\ promoted' = IF status = "active" /\ copy[w].status # "active"
                 THEN promoted \cup {i} ELSE promoted
  /\ revived' = IF status # "tombstoned" /\ (memory[i].status = "tombstoned" \/ ~Stored(i))
                THEN revived \cup {i} ELSE revived
  /\ Leave(w, "idle")
  /\ UNCHANGED <<card, history, counts, shown, observed, used, replaced, purged>>

\* A useful signal, on a tombstoned memory too: only a missing one is refused.
Use(i) ==
  /\ Stored(i)
  /\ memory' = [memory EXCEPT ![i].useful = Bump(@, UseCap)]
  /\ used' = [used EXCEPT ![i] = Bump(@, UseCap)]
  /\ UNCHANGED <<card, history, counts, local, observed, replaced, promoted, revived,
                 purged>>

Tombstone(i) ==
  /\ deletions < MaxDeletions /\ Stored(i) /\ memory[i].status # "tombstoned"
  /\ memory' = [memory EXCEPT ![i].status = "tombstoned"]
  /\ deletions' = deletions + 1
  /\ UNCHANGED <<card, history, answers, governed, local, records>>

\* Physical deletion: the typed row and the history follow by their foreign keys.
Purge(i) ==
  /\ deletions < MaxDeletions /\ Stored(i)
  /\ memory' = [memory EXCEPT ![i] = NoMemory]
  /\ card' = [card EXCEPT ![i] = NoCard]
  /\ history' = {h \in history : i \notin {h[1], h[2]}}
  /\ deletions' = deletions + 1
  /\ purged' = IF i \in Personas THEN purged \cup {KeyOf[i]} ELSE purged
  /\ UNCHANGED <<answers, governed, local, observed, used, replaced, promoted, revived>>

-----------------------------------------------------------------------------
SceneJob(w) ==
  \/ PutScene(w) \/ ListScenes(w) \/ ActivateScene(w) \/ EndScenes(w)
  \/ \E s \in Scenes : ReadScene(w, s) \/ SynthesizeScene(w, s)

DistillJob(w) ==
  \/ LookUp(w) \/ PutPersona(w) \/ PutPersonaFails(w)
  \/ ListCurrent(w) \/ ResolveNothing(w) \/ Supersede(w) \/ SupersedeFails(w)
  \/ \E E \in Supports :
       \/ ObserveConflict(w, E)
       \/ \E p \in Personas : SynthesizePersona(w, p, E)
       \/ \E q, r \in Personas : Resolve(w, q, r, E)

AdvanceJob(w) ==
  \/ ListPersonas(w) \/ ActivatePersona(w) \/ ActivatePersonaFails(w) \/ EndPersonas(w)
  \/ \E p \in Personas : ReadPersona(w, p)

LifecycleJob(w) ==
  \/ \E i \in Items : GovernRead(w, i)
  \/ \E status \in {"active", "observing", "compressed", copy[w].status} :
       GovernWrite(w, status)

Next ==
  \/ \E w \in Workers : SceneJob(w) \/ DistillJob(w) \/ AdvanceJob(w) \/ LifecycleJob(w)
                          \/ Stop(w)
  \/ \E i \in Items : Use(i) \/ Tombstone(i) \/ Purge(i)

Spec == Init /\ [][Next]_vars

-----------------------------------------------------------------------------
\* A scene or a facet that is active was either observed in as many job runs and
\* found useful as often as the policy asks (SceneLifecycleManager.advance,
\* PersonaLifecycleManager.advance), or stored as the replacement of another
\* version, or promoted by governance: counts that are read in one transaction and
\* written in another, by several workers, never add up to more than happened.
ActiveIsEarned ==
  \A i \in Items : memory[i].status = "active" =>
    \/ observed[i] >= MinCycles(i) /\ used[i] >= MinUses(i)
    \/ i \in replaced \cup promoted

\* However supersessions, observations and activations of several workers overlap,
\* a facet key has one current version as soon as it has an old one
\* (supersede_l4_persona, put_l4_persona), unless a user deleted a version.
OneCurrentVersion ==
  /\ \A p, q \in Personas : KeyOf[p] = KeyOf[q] /\ Current(p) /\ Current(q) => p = q
  /\ \A p \in Personas : card[p].status = "superseded" /\ KeyOf[p] \notin purged =>
       \E q \in Personas : KeyOf[q] = KeyOf[p] /\ Current(q)

\* A superseded version is not recalled again, unless governance, which lists
\* tombstoned memories too, gives it a status.
SupersededIsHidden ==
  \A p \in Personas : card[p].status = "superseded" /\ p \notin revived =>
    memory[p].status = "tombstoned"
=============================================================================
