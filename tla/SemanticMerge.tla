---------------------------- MODULE SemanticMerge ----------------------------
(***************************************************************************)
(* Merging of L2 atoms that say the same thing.  A governance run          *)
(* (AutonomousGovernanceEngine._run_semantic_dedup, or semantic_dedup of   *)
(* the application) marks similar pairs as edges of the memory graph, has  *)
(* them judged, and merges one atom of a pair into the other               *)
(* (SemanticDeduper.auto_resolve_candidates, apply_semantic_l2_merge).     *)
(* Users roll merges back, review edges and atoms, and delete atoms.       *)
(*                                                                         *)
(* Nothing but the write of a transaction is atomic: every operation reads *)
(* first and writes what it read, changed, later.                          *)
(***************************************************************************)
EXTENDS Integers, FiniteSets

CONSTANTS
  N,            \* number of atoms, numbered by age
  Similar,      \* pairs <<older, younger>> at least as similar as similarity_threshold
  Strong,       \* those at least as similar as auto_merge_threshold and
                \* auto_tombstone_threshold, which have the same default
  Compatible,   \* pairs of atoms with no contradiction between their texts
  Governors, Users,
  Reviews,      \* review statuses that atoms are stored with
  Modes,        \* how runs are started: "autonomous", "auto-merge", "auto-tombstone"
  MaxRuns,      \* bound on the number of runs
  MaxRequests   \* bound on the number of user requests

Atoms == 1..N

ASSUME SemanticMergeAssumption ==
  /\ N \in Nat
  /\ Similar \subseteq {p \in Atoms \X Atoms : p[1] < p[2]}
  /\ Strong \subseteq Similar
  /\ Compatible \subseteq SUBSET Atoms
  /\ Governors \cap Users = {}
  /\ Reviews \subseteq {"pending", "approved"}
  /\ Modes \subseteq {"autonomous", "auto-merge", "auto-tombstone"}
  /\ MaxRuns \in Nat /\ MaxRequests \in Nat

Actors == Governors \cup Users
None   == 0   \* no atom

\* Of an atom: is it neither deleted nor tombstoned, superseded_by,
\* merged_duplicate_ids, review_status.
Row == [status : {"live", "dead"}, sup : 0..N, merged : SUBSET Atoms,
        review : {"pending", "approved"}]

\* Of the metadata of an edge: review_status, resolution_status, and what a merge
\* leaves for a rollback.
EdgeRow == [known : BOOLEAN, review : {"open", "rejected"},
            res : {"none", "auto_merged", "rolled_back"},
            canon : 0..N, dup : 0..N, prevCanon : Row, prevDup : Row]

NewRow(review) == [status |-> "live", sup |-> None, merged |-> {}, review |-> review]
NoRow  == NewRow("pending")
NoEdge == [known |-> FALSE, review |-> "open", res |-> "none",
           canon |-> None, dup |-> None, prevCanon |-> NoRow, prevDup |-> NoRow]

VARIABLES
  row,      \* memory_units
  edge,     \* graph_edges
  pc,
  mode,     \* how a governor's run was started
  found,    \* the candidates of a run
  todo,     \* those a run has yet to mark, or to resolve
  choice,   \* component_canonical_ids
  target,   \* the edge (or atom) an actor is about to write
  plan,     \* the atoms <<canonical, duplicate>> that go with it
  copy,     \* the rows as the actor has read them
  \* history
  undo,     \* the rows a merge found, until somebody else changes one of them
  verdict,  \* what users have decided about an edge
  barred,   \* the edges users had closed when a run began, and have not reopened
  forgotten,\* atoms that users deleted
  stale,    \* has an actor written from an outdated copy, and which kind of actor?
  runs, requests

locals  == <<pc, mode, found, todo, choice, target, plan, copy>>
history == <<undo, verdict, barred, forgotten, stale, runs, requests>>
vars    == <<row, edge, locals, history>>

Copies == [edge : EdgeRow, canon : Row, dup : Row]
NoCopy == [edge |-> NoEdge, canon |-> NoRow, dup |-> NoRow]
NoPair == <<None, None>>
NoUndo == [known |-> FALSE, canon |-> NoRow, dup |-> NoRow]

GovernorPC == {"mark", "resolve", "read", "merge"}
UserPC     == {"rollback", "edge", "atom"}

TypeOK ==
  /\ row \in [Atoms -> Row]
  /\ edge \in [Similar -> EdgeRow]
  /\ pc \in [Actors -> {"idle"} \cup GovernorPC \cup UserPC]
  /\ mode \in [Governors -> Modes \cup {"none"}]
  /\ found \in [Governors -> SUBSET Similar]
  /\ todo \in [Governors -> SUBSET Similar]
  /\ choice \in [Governors -> [Similar -> 0..N]]
  /\ target \in [Actors -> Similar \cup {NoPair} \cup ({None} \X Atoms)]
  /\ plan \in [Actors -> (0..N) \X (0..N)]
  /\ copy \in [Actors -> Copies]
  /\ undo \in [Similar -> [known : BOOLEAN, canon : Row, dup : Row]]
  /\ verdict \in [Similar -> {"none", "rejected", "rolled_back"}]
  /\ barred \in [Governors -> SUBSET Similar]
  /\ forgotten \subseteq Atoms
  /\ stale \in {"no", "merge", "review"}
  /\ runs \in 0..MaxRuns
  /\ requests \in 0..MaxRequests

NoChoice == [e \in Similar |-> None]

Init ==
  /\ row \in [Atoms -> {NewRow(review) : review \in Reviews}]
  /\ edge = [e \in Similar |-> NoEdge]
  /\ pc = [a \in Actors |-> "idle"]
  /\ mode = [g \in Governors |-> "none"]
  /\ found = [g \in Governors |-> {}]
  /\ todo = [g \in Governors |-> {}]
  /\ choice = [g \in Governors |-> NoChoice]
  /\ target = [a \in Actors |-> NoPair]
  /\ plan = [a \in Actors |-> NoPair]
  /\ copy = [a \in Actors |-> NoCopy]
  /\ undo = [e \in Similar |-> NoUndo]
  /\ verdict = [e \in Similar |-> "none"]
  /\ barred = [g \in Governors |-> {}]
  /\ forgotten = {}
  /\ stale = "no"
  /\ runs = 0 /\ requests = 0

-----------------------------------------------------------------------------
(* Roots and components *)

Live(a) == row[a].status = "live"

\* One step of _root_memory: to the atom that supersedes, unless that is gone.
Parent(a) ==
  LET s == row[a].sup IN IF s = None THEN a ELSE IF Live(s) THEN s ELSE a

\* _root_memory: the last atom of the way up, or the first one met again.
Root(a) ==
  LET up[n \in 0..(N + 1)] == IF n = 0 THEN a ELSE Parent(up[n - 1])
      again(n) == \E m \in 0..(n - 1) : up[m] = up[n]
      back == CHOOSE n \in 1..(N + 1) : again(n) /\ \A m \in 1..(n - 1) : ~again(m)
  IN  up[back]

\* The atoms linked to an atom by edges of E.
Group(E, a) ==
  LET near[n \in 0..N] ==
        IF n = 0 THEN {a}
        ELSE near[n - 1] \cup
             {b \in Atoms : \E c \in near[n - 1] : <<b, c>> \in E \/ <<c, b>> \in E}
  IN  near[N]

LiveRoots(G) == {r \in {Root(a) : a \in G} : Live(r)}

\* _component_canonical_ids: each component gets one of its live roots.  Which one
\* is a matter of scores that accesses change all the time: any may come out.
Canonicals(E) ==
  LET groups == {G \in {Group(E, e[1]) : e \in E} : LiveRoots(G) # {}}
      about(a, best) == {best[G] : G \in {H \in groups : a \in H \cup LiveRoots(H)}}
      options(e, best) ==
        IF about(e[1], best) # {} THEN about(e[1], best)
        ELSE IF about(e[2], best) # {} THEN about(e[2], best) ELSE {e[1]}
  IN  {f \in [Similar -> 0..N] :
         /\ \A e \in Similar \ E : f[e] = None
         /\ \E best \in [groups -> Atoms] :
              /\ \A G \in groups : best[G] \in LiveRoots(G)
              /\ \A e \in E : f[e] \in options(e, best)}

\* Candidates come in the order of the list of atoms, which is by age.
IsFirst(e, E) == e \in E /\ \A d \in E : e[1] < d[1] \/ (e[1] = d[1] /\ e[2] <= d[2])

-----------------------------------------------------------------------------
(* A governance run *)

GoTo(a, l) == pc' = [pc EXCEPT ![a] = l]

\* On to the next candidate, or the run is over.
Onward(g, rest) ==
  /\ todo' = [todo EXCEPT ![g] = rest]
  /\ target' = [target EXCEPT ![g] = NoPair]
  /\ plan' = [plan EXCEPT ![g] = NoPair]
  /\ copy' = [copy EXCEPT ![g] = NoCopy]
  /\ IF rest = {}
     THEN /\ GoTo(g, "idle")
          /\ mode' = [mode EXCEPT ![g] = "none"]
          /\ choice' = [choice EXCEPT ![g] = NoChoice]
          /\ found' = [found EXCEPT ![g] = {}]
          /\ barred' = [barred EXCEPT ![g] = {}]
     ELSE /\ GoTo(g, "resolve")
          /\ UNCHANGED <<mode, choice, found, barred>>

\* mark_candidates reads the list; a run without candidates does nothing.
BeginRun(g, m) ==
  LET candidates == {e \in Similar : Live(e[1]) /\ Live(e[2])}
  IN  /\ pc[g] = "idle" /\ runs < MaxRuns
      /\ candidates # {}
      /\ GoTo(g, "mark")
      /\ mode' = [mode EXCEPT ![g] = m]
      /\ found' = [found EXCEPT ![g] = candidates]
      /\ todo' = [todo EXCEPT ![g] = candidates]
      /\ barred' = [barred EXCEPT ![g] = {e \in Similar : verdict[e] # "none"}]
      /\ runs' = runs + 1
      /\ UNCHANGED <<row, edge, choice, target, plan, copy, undo, verdict, forgotten, stale,
                     requests>>

\* Faulty: marking a pair again puts it up for review again.
Marked_Reopens(er) == [er EXCEPT !.known = TRUE, !.review = "open"]

\* _merged_graph_edge_metadata: reviews and resolutions are kept.
Marked(er) == [er EXCEPT !.known = TRUE]

\* put_memory_graph_edge: one transaction.
Mark(g) ==
  /\ pc[g] = "mark"
  /\ \E e \in Similar :
       /\ IsFirst(e, todo[g])
       /\ edge' = [edge EXCEPT ![e] = Marked(@)]
       /\ todo' = [todo EXCEPT ![g] = @ \ {e}]
  /\ UNCHANGED <<row, pc, mode, found, choice, target, plan, copy, history>>

\* The judge picks the edges to execute (outside autonomous runs all are), and
\* auto_resolve_candidates finds the canonical atoms of the components.
Judge(g) ==
  /\ pc[g] = "mark" /\ todo[g] = {}
  /\ \E E \in SUBSET found[g] :
       /\ mode[g] # "autonomous" => E = found[g]
       /\ IF E = {}
          THEN Onward(g, {})
          ELSE /\ GoTo(g, "resolve")
               /\ todo' = [todo EXCEPT ![g] = E]
               /\ \E f \in Canonicals(E) : choice' = [choice EXCEPT ![g] = f]
               /\ UNCHANGED <<mode, found, target, plan, copy, barred>>
  /\ UNCHANGED <<row, edge, undo, verdict, forgotten, stale, runs, requests>>

\* _edge_auto_resolution_blocker
Closed(er) == er.review = "rejected" \/ er.res \in {"auto_merged", "rolled_back"}

\* _auto_resolution_guard, for the roots s and t of the edge e
Guarded(g, e, s, t) ==
  \/ e \notin Strong
  \/ mode[g] # "autonomous" /\ \E a \in {s, t} : row[a].review # "approved"
  \/ {s, t} \notin Compatible

\* The reasons for which a candidate is left alone.
Refused(g, e, s, t) ==
  \/ s = t
  \/ ~Live(s) \/ ~Live(t)
  \/ Closed(edge[e])
  \/ choice[g][e] \notin {s, t}
  \/ Guarded(g, e, s, t)

\* The next candidate: left alone, or turned into a merge of two roots.
Skip(g, e, s, t) ==
  /\ Refused(g, e, s, t)
  /\ Onward(g, todo[g] \ {e})

Choose(g, e, s, t) ==
  /\ ~Refused(g, e, s, t)
  /\ GoTo(g, "read")
  /\ todo' = [todo EXCEPT ![g] = @ \ {e}]
  /\ target' = [target EXCEPT ![g] = e]
  /\ plan' = [plan EXCEPT ![g] = IF choice[g][e] = s THEN <<s, t>> ELSE <<t, s>>]
  /\ UNCHANGED <<mode, found, choice, copy, barred>>

Resolve(g) ==
  /\ pc[g] = "resolve"
  /\ \E e \in Similar :
       /\ IsFirst(e, todo[g])
       /\ \E s \in Atoms \cap {Root(e[1])}, t \in Atoms \cap {Root(e[2])} :
            Skip(g, e, s, t) \/ Choose(g, e, s, t)
  /\ UNCHANGED <<row, edge, undo, verdict, forgotten, stale, runs, requests>>

\* Faulty: the statuses of the atoms are not looked at again.
MergeRead_Unchecked(g) ==
  LET c == plan[g][1]
      d == plan[g][2]
  IN  /\ pc[g] = "read"
      /\ GoTo(g, "merge")
      /\ copy' = [copy EXCEPT ![g] = [edge |-> edge[target[g]], canon |-> row[c], dup |-> row[d]]]
      /\ UNCHANGED <<row, edge, mode, found, todo, choice, target, plan, history>>

\* The SELECTs of apply_semantic_l2_merge, before it holds the write lock.
MergeRead(g) ==
  LET c == plan[g][1]
      d == plan[g][2]
  IN  /\ pc[g] = "read"
      /\ Live(c) /\ Live(d)
      /\ GoTo(g, "merge")
      /\ copy' = [copy EXCEPT ![g] = [edge |-> edge[target[g]], canon |-> row[c], dup |-> row[d]]]
      /\ UNCHANGED <<row, edge, mode, found, todo, choice, target, plan, history>>

\* One of the atoms has been tombstoned since.
MergeRefuse(g) ==
  /\ pc[g] = "read"
  /\ ~Live(plan[g][1]) \/ ~Live(plan[g][2])
  /\ Onward(g, todo[g])
  /\ UNCHANGED <<row, edge, undo, verdict, forgotten, stale, runs, requests>>

Tombstones(m) == m \in {"autonomous", "auto-tombstone"}

\* What a merge makes of the canonical atom, of its duplicate d and of their edge.
Enriched(r, d) == [r EXCEPT !.merged = @ \cup {d}]
Superseded(r, c, m) ==
  [r EXCEPT !.sup = c, !.status = IF Tombstones(m) THEN "dead" ELSE @]

\* Faulty: the canonical row is saved for a rollback after it has been changed.
Settled_LateCanon(er, c, d, rc, rd) ==
  [er EXCEPT !.review = "open", !.res = "auto_merged", !.canon = c, !.dup = d,
             !.prevCanon = Enriched(rc, d), !.prevDup = rd]

\* Faulty: the duplicate's row is saved after it has been changed.
Settled_LateDup(er, c, d, rc, rd) ==
  [er EXCEPT !.review = "open", !.res = "auto_merged", !.canon = c, !.dup = d,
             !.prevCanon = rc, !.prevDup = [rd EXCEPT !.sup = c, !.status = "dead"]]

Settled(er, c, d, rc, rd) ==
  [er EXCEPT !.review = "open", !.res = "auto_merged", !.canon = c, !.dup = d,
             !.prevCanon = rc, !.prevDup = rd]

\* History: rows of these atoms are written, so no earlier merge of them can be taken
\* back exactly.
Touched(atoms) ==
  [e \in Similar |-> IF {edge[e].canon, edge[e].dup} \cap atoms # {} THEN NoUndo ELSE undo[e]]

Outdated(a, c, d) ==
  copy[a].edge # edge[target[a]] \/ copy[a].canon # row[c] \/ copy[a].dup # row[d]

\* The writes of apply_semantic_l2_merge, one transaction.
MergeWrite(g) ==
  LET e == target[g]
      c == plan[g][1]
      d == plan[g][2]
      late == Outdated(g, c, d) \/ Closed(edge[e])
  IN  /\ pc[g] = "merge"
      /\ row' = [row EXCEPT ![c] = Enriched(copy[g].canon, d),
                            ![d] = Superseded(copy[g].dup, c, mode[g])]
      /\ edge' = [edge EXCEPT ![e] =
                    Settled(copy[g].edge, c, d, copy[g].canon, copy[g].dup)]
      /\ undo' = [Touched({c, d}) EXCEPT ![e] =
                    IF late THEN NoUndo ELSE [known |-> TRUE, canon |-> row[c], dup |-> row[d]]]
      /\ stale' = IF late /\ stale = "no" THEN "merge" ELSE stale
      /\ forgotten' = forgotten \ IF Tombstones(mode[g]) THEN {c} ELSE {c, d}
      /\ Onward(g, todo[g])
      /\ UNCHANGED <<verdict, runs, requests>>

\* The process of a run dies between two transactions.
Abandon(g) ==
  /\ pc[g] # "idle"
  /\ Onward(g, {})
  /\ UNCHANGED <<row, edge, undo, verdict, forgotten, stale, runs, requests>>

-----------------------------------------------------------------------------
(* Users *)

Ask(u) == pc[u] = "idle" /\ requests < MaxRequests /\ requests' = requests + 1

Leave(u) ==
  /\ GoTo(u, "idle")
  /\ target' = [target EXCEPT ![u] = NoPair]
  /\ plan' = [plan EXCEPT ![u] = NoPair]
  /\ copy' = [copy EXCEPT ![u] = NoCopy]
  /\ UNCHANGED <<mode, found, todo, choice>>

\* restore_semantic_l2_merge reads the edge and the atoms its last merge was about.
RollbackRead(u, e) ==
  LET c == edge[e].canon
      d == edge[e].dup
  IN  /\ Ask(u)
      /\ c # None /\ d # None
      /\ GoTo(u, "rollback")
      /\ target' = [target EXCEPT ![u] = e]
      /\ plan' = [plan EXCEPT ![u] = <<c, d>>]
      /\ copy' = [copy EXCEPT ![u] = [edge |-> edge[e], canon |-> row[c], dup |-> row[d]]]
      /\ UNCHANGED <<row, edge, mode, found, todo, choice, undo, verdict, barred, forgotten,
                     stale, runs>>

\* It writes status and metadata of both rows as the edge has kept them.
RollbackWrite(u) ==
  LET e == target[u]
      c == plan[u][1]
      d == plan[u][2]
  IN  /\ pc[u] = "rollback"
      /\ row' = [row EXCEPT ![c] = copy[u].edge.prevCanon,
                            ![d] = copy[u].edge.prevDup]
      /\ edge' = [edge EXCEPT ![e] = [copy[u].edge EXCEPT !.res = "rolled_back"]]
      /\ undo' = [Touched({c, d}) EXCEPT ![e] = NoUndo]
      /\ verdict' = [verdict EXCEPT ![e] = "rolled_back"]
      /\ stale' = IF Outdated(u, c, d) /\ stale = "no" THEN "merge" ELSE stale
      /\ forgotten' = forgotten \ {c, d}
      /\ Leave(u)
      /\ UNCHANGED <<barred, runs, requests>>

\* update_graph_edge_metadata, from review_mark: a SELECT,
EdgeReviewRead(u, e) ==
  /\ Ask(u)
  /\ edge[e].known
  /\ GoTo(u, "edge")
  /\ target' = [target EXCEPT ![u] = e]
  /\ copy' = [copy EXCEPT ![u].edge = edge[e]]
  /\ UNCHANGED <<row, edge, mode, found, todo, choice, plan, undo, verdict, barred, forgotten,
                 stale, runs>>

\* and an UPDATE of the whole metadata.
EdgeReviewWrite(u, review) ==
  LET e == target[u]
  IN  /\ pc[u] = "edge"
      /\ edge' = [edge EXCEPT ![e] = [copy[u].edge EXCEPT !.review = review]]
      /\ verdict' = [verdict EXCEPT ![e] =
                       IF @ = "rolled_back" THEN @
                       ELSE IF review = "rejected" THEN "rejected" ELSE "none"]
      /\ barred' = [g \in Governors |-> IF verdict'[e] = "none" THEN barred[g] \ {e}
                                        ELSE barred[g]]
      /\ stale' = IF copy[u].edge # edge[e] /\ stale = "no" THEN "merge" ELSE stale
      /\ Leave(u)
      /\ UNCHANGED <<row, undo, forgotten, runs, requests>>

\* update_l2_review_status: a SELECT of the row,
AtomReviewRead(u, a) ==
  /\ Ask(u)
  /\ GoTo(u, "atom")
  /\ target' = [target EXCEPT ![u] = <<None, a>>]
  /\ copy' = [copy EXCEPT ![u].dup = row[a]]
  /\ UNCHANGED <<row, edge, mode, found, todo, choice, plan, undo, verdict, barred, forgotten,
                 stale, runs>>

\* and put_memory_unit of the whole row.
AtomReviewWrite(u, review) ==
  LET a == target[u][2]
  IN  /\ pc[u] = "atom"
      /\ row' = [row EXCEPT ![a] = [copy[u].dup EXCEPT !.review = review]]
      /\ undo' = IF row'[a] = row[a] THEN undo ELSE Touched({a})
      /\ stale' = IF copy[u].dup # row[a] THEN "review" ELSE stale
      /\ forgotten' = IF copy[u].dup.status = "live" THEN forgotten \ {a} ELSE forgotten
      /\ Leave(u)
      /\ UNCHANGED <<edge, verdict, barred, runs, requests>>

\* delete_memory with a tombstone, also of an atom that a merge has tombstoned.
Forget(u, a) ==
  /\ Ask(u)
  /\ row' = [row EXCEPT ![a].status = "dead"]
  /\ undo' = IF row' = row THEN undo ELSE Touched({a})
  /\ forgotten' = forgotten \cup {a}
  /\ UNCHANGED <<edge, locals, verdict, barred, stale, runs>>

-----------------------------------------------------------------------------
Governor(g) ==
  \/ \E m \in Modes : BeginRun(g, m)
  \/ Mark(g) \/ Judge(g) \/ Resolve(g)
  \/ MergeRead(g) \/ MergeRefuse(g) \/ MergeWrite(g)
  \/ Abandon(g)

User(u) ==
  \/ \E e \in Similar : RollbackRead(u, e) \/ EdgeReviewRead(u, e)
  \/ \E a \in Atoms : AtomReviewRead(u, a) \/ Forget(u, a)
  \/ \E review \in {"open", "rejected"} : EdgeReviewWrite(u, review)
  \/ \E review \in Reviews : AtomReviewWrite(u, review)
  \/ RollbackWrite(u)

Next == (\E g \in Governors : Governor(g)) \/ (\E u \in Users : User(u))

Spec == Init /\ [][Next]_vars

-----------------------------------------------------------------------------
(* Properties *)

\* Follow superseded_by from a dead atom: some way up there is a live one, which says
\* the same, or one that a user deleted.  Merges in whatever order, by runs that
\* overlap, never make all copies of a fact disappear (each writes its canonical atom
\* alive), unless a review brings an outdated row back.
MergedIsRepresented ==
  stale # "review" =>
    \A a \in Atoms :
      LET up[n \in 0..N] ==
            IF n = 0 THEN a
            ELSE IF row[up[n - 1]].sup = None THEN up[n - 1] ELSE row[up[n - 1]].sup
      IN  \E n \in 0..N : Live(up[n]) \/ up[n] \in forgotten

\* Every atom that a merge has tombstoned can be brought back: an edge still has the
\* merge and the row from before it.  This holds until two operations meet on one row
\* or edge, one of them working with what the other has changed.
MergeIsReversible ==
  stale = "no" =>
    \A a \in Atoms :
      \/ Live(a) \/ a \in forgotten
      \/ \E e \in Similar : /\ edge[e].res = "auto_merged" /\ edge[e].dup = a
                            /\ edge[e].prevDup.status = "live"

\* A rollback restores both rows to what they were when the merge was made, if nobody
\* has changed them since.
UndoIsExact ==
  [][\A u \in Users :
       LET e == target[u] IN
       pc[u] = "rollback" /\ RollbackWrite(u) /\ undo[e].known /\ stale' = "no" =>
         /\ row'[edge[e].canon] = undo[e].canon
         /\ row'[edge[e].dup] = undo[e].dup]_vars

\* What users have decided about a pair stands: no run that began after a rollback or
\* a rejection merges that pair, however often it is marked again.
VerdictStands ==
  [][\A g \in Governors :
       pc[g] = "merge" /\ MergeWrite(g) /\ stale = "no" => target[g] \notin barred[g]]_vars
=============================================================================
