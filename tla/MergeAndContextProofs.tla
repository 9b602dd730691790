----------------------- MODULE MergeAndContextProofs -----------------------
(* Proofs about SemanticMerge, for any number of atoms, runs, governors and *)
(* users, any similarities and any order in which operations overlap; and,  *)
(* in the second half, about ContextAssembly, for any memories, channels,   *)
(* budgets and tokenizers.  Both follow a program's loops by the induction  *)
(* proved in between (LeastNatural, SetInduction).                          *)
EXTENDS SemanticMerge, ContextAssembly, FiniteSetTheorems, TLAPS

USE DEF Actors, None

\* The atoms are numbers, and none of them is None.
LEMMA AtomsAreNumbers == Atoms \subseteq 0..N /\ None \notin Atoms /\ None \in 0..N
  BY SemanticMergeAssumption DEF Atoms

\* Edges lead from one atom to another.
LEMMA EdgesLinkAtoms ==
  ASSUME NEW e \in Similar
  PROVE  e[1] \in Atoms /\ e[2] \in Atoms /\ e = <<e[1], e[2]>> /\ e # NoPair
  BY SemanticMergeAssumption DEF Atoms, NoPair

-----------------------------------------------------------------------------
(* What the operators on rows and edges return *)

\* The rows and edges that stand for none have their types.
LEMMA NoneTyped == NoRow \in Row /\ NoEdge \in EdgeRow /\ NoCopy \in Copies
                   /\ NoUndo \in [known : BOOLEAN, canon : Row, dup : Row]
                   /\ NoPair \in (0..N) \X (0..N)
<1>1. NoRow \in Row
  BY AtomsAreNumbers DEF NoRow, NewRow, Row
<1>2. NoEdge \in EdgeRow
  BY <1>1, AtomsAreNumbers DEF NoEdge, EdgeRow
<1> QED
  BY <1>1, <1>2, AtomsAreNumbers DEF NoCopy, Copies, NoUndo, NoPair

\* A merge makes rows of rows, alive where they were, except for a duplicate that is
\* tombstoned.
LEMMA MergedRows ==
  ASSUME NEW r \in Row, NEW a \in Atoms, NEW m
  PROVE  /\ Enriched(r, a) \in Row
         /\ Enriched(r, a).status = r.status
         /\ Superseded(r, a, m) \in Row
         /\ Superseded(r, a, m).status = IF Tombstones(m) THEN "dead" ELSE r.status
<1> DEFINE st == IF Tombstones(m) THEN "dead" ELSE r.status
<1>1. st \in {"live", "dead"}
  BY DEF Row
<1>2. Superseded(r, a, m) = [r EXCEPT !.sup = a, !.status = st]
  BY Zenon DEF Superseded
<1> HIDE DEF st
<1>3. Superseded(r, a, m) \in Row /\ Superseded(r, a, m).status = st
  BY <1>1, <1>2, AtomsAreNumbers DEF Row
<1>4. Enriched(r, a) \in Row /\ Enriched(r, a).status = r.status
  BY DEF Enriched, Row
<1> QED
  BY <1>3, <1>4 DEF st

\* What a settled edge holds.
LEMMA SettledEdge ==
  ASSUME NEW er \in EdgeRow, NEW c \in Atoms, NEW d \in Atoms, NEW rc \in Row, NEW rd \in Row
  PROVE  LET s == Settled(er, c, d, rc, rd)
         IN  /\ s \in EdgeRow
             /\ s.res = "auto_merged" /\ s.canon = c /\ s.dup = d
             /\ s.prevCanon = rc /\ s.prevDup = rd
<1> DEFINE o == "open"
           m == "auto_merged"
           h == [er EXCEPT !.review = o, !.res = m, !.canon = c]
           s == Settled(er, c, d, rc, rd)
<1>1. o \in {"open", "rejected"} /\ m \in {"none", "auto_merged", "rolled_back"} /\ c \in 0..N
      /\ d \in 0..N
  BY AtomsAreNumbers
<1>2. s = [er EXCEPT !.review = o, !.res = m, !.canon = c, !.dup = d,
                     !.prevCanon = rc, !.prevDup = rd]
  BY Zenon DEF Settled
<1> HIDE DEF o, m, s
<1>3. h \in EdgeRow /\ h.res = m /\ h.canon = c
  BY <1>1 DEF EdgeRow
<1>4. s = [h EXCEPT !.dup = d, !.prevCanon = rc, !.prevDup = rd]
  BY <1>2 DEF EdgeRow
<1> HIDE DEF h
<1>5. s \in EdgeRow /\ s.res = m /\ s.canon = c /\ s.dup = d /\ s.prevCanon = rc /\ s.prevDup = rd
  BY <1>1, <1>3, <1>4 DEF EdgeRow
<1> QED
  BY <1>5 DEF s, m

\* Rolling back and reviewing an edge change one column of it.
LEMMA EdgeColumns ==
  ASSUME NEW er \in EdgeRow, NEW v \in {"open", "rejected"}
  PROVE  /\ [er EXCEPT !.res = "rolled_back"] \in EdgeRow
         /\ [er EXCEPT !.review = v] \in EdgeRow
         /\ Marked(er) \in EdgeRow
  BY DEF EdgeRow, Marked

-----------------------------------------------------------------------------
(* Types *)

\* Governors and users are each somewhere in their own code, and what they are about
\* to write is an edge, or an atom.
PlaceOK ==
  /\ \A g \in Governors :
       /\ pc[g] \in {"idle"} \cup GovernorPC
       /\ pc[g] \in {"read", "merge"} =>
            /\ target[g] \in Similar /\ plan[g] \in Atoms \X Atoms /\ plan[g][1] # plan[g][2]
  /\ \A u \in Users :
       /\ pc[u] \in {"idle"} \cup UserPC
       /\ pc[u] \in {"rollback", "edge"} => target[u] \in Similar
       /\ pc[u] = "rollback" => plan[u] = <<copy[u].edge.canon, copy[u].edge.dup>>
                                /\ plan[u] \in Atoms \X Atoms
       /\ pc[u] = "atom" => target[u] \in {None} \X Atoms

TypeInv == TypeOK /\ PlaceOK

\* What a governor's own variables are worth while it works on.
LocalsOK ==
  /\ pc \in [Actors -> {"idle"} \cup GovernorPC \cup UserPC]
  /\ mode \in [Governors -> Modes \cup {"none"}]
  /\ found \in [Governors -> SUBSET Similar]
  /\ todo \in [Governors -> SUBSET Similar]
  /\ choice \in [Governors -> [Similar -> 0..N]]
  /\ target \in [Actors -> Similar \cup {NoPair} \cup ({None} \X Atoms)]
  /\ plan \in [Actors -> (0..N) \X (0..N)]
  /\ copy \in [Actors -> Copies]
  /\ barred \in [Governors -> SUBSET Similar]

\* Going on to the next candidate keeps the types, and everybody in place.
LEMMA OnwardTyped ==
  ASSUME TypeInv, NEW g \in Governors, NEW rest \in SUBSET Similar, Onward(g, rest)
  PROVE  LocalsOK' /\ PlaceOK'
<1>1. /\ pc' = [pc EXCEPT ![g] = IF rest = {} THEN "idle" ELSE "resolve"]
      /\ target' = [target EXCEPT ![g] = NoPair]
      /\ plan' = [plan EXCEPT ![g] = NoPair]
      /\ copy' = [copy EXCEPT ![g] = NoCopy]
  BY DEF Onward, GoTo
<1>2. LocalsOK'
  <2>1. /\ pc' \in [Actors -> {"idle"} \cup GovernorPC \cup UserPC]
        /\ target' \in [Actors -> Similar \cup {NoPair} \cup ({None} \X Atoms)]
        /\ plan' \in [Actors -> (0..N) \X (0..N)]
        /\ copy' \in [Actors -> Copies]
    BY <1>1, NoneTyped DEF TypeInv, TypeOK, GovernorPC
  <2>2. NoChoice \in [Similar -> 0..N]
    BY AtomsAreNumbers DEF NoChoice
  <2>3. /\ mode' \in [Governors -> Modes \cup {"none"}]
        /\ found' \in [Governors -> SUBSET Similar]
        /\ todo' \in [Governors -> SUBSET Similar]
        /\ choice' \in [Governors -> [Similar -> 0..N]]
        /\ barred' \in [Governors -> SUBSET Similar]
    <3>1. CASE rest = {}
      BY <3>1, <2>2 DEF Onward, TypeInv, TypeOK
    <3>2. CASE rest # {}
      BY <3>2 DEF Onward, TypeInv, TypeOK
    <3> QED
      BY <3>1, <3>2
  <2> QED
    BY <2>1, <2>3 DEF LocalsOK
<1>3. PlaceOK'
  BY <1>1, SemanticMergeAssumption DEF TypeInv, TypeOK, PlaceOK, GovernorPC
<1> QED
  BY <1>2, <1>3

\* So does being done with a request.
LEMMA LeaveTyped ==
  ASSUME TypeInv, NEW u \in Users, Leave(u), UNCHANGED barred \/ barred' \in [Governors -> SUBSET Similar]
  PROVE  LocalsOK' /\ PlaceOK'
<1>1. LocalsOK'
  BY NoneTyped DEF Leave, GoTo, TypeInv, TypeOK, LocalsOK
<1>2. PlaceOK'
  BY SemanticMergeAssumption DEF Leave, GoTo, TypeInv, TypeOK, PlaceOK, GovernorPC
<1> QED
  BY <1>1, <1>2

\* The stored rows and the histories.
StoredOK ==
  /\ row \in [Atoms -> Row]
  /\ edge \in [Similar -> EdgeRow]
  /\ undo \in [Similar -> [known : BOOLEAN, canon : Row, dup : Row]]
  /\ verdict \in [Similar -> {"none", "rejected", "rolled_back"}]
  /\ forgotten \subseteq Atoms
  /\ stale \in {"no", "merge", "review"}
  /\ runs \in 0..MaxRuns
  /\ requests \in 0..MaxRequests

\* The type invariant is that of the stored rows and that of the actors' own variables.
LEMMA TypeOKParts == TypeOK <=> StoredOK /\ LocalsOK
  BY DEF TypeOK, StoredOK, LocalsOK

\* Forgetting how to take merges back keeps the type of undo.
LEMMA TouchedTyped ==
  ASSUME TypeOK, NEW atoms
  PROVE  Touched(atoms) \in [Similar -> [known : BOOLEAN, canon : Row, dup : Row]]
  BY NoneTyped DEF Touched, TypeOK

\* Counting a request keeps it within its bound.
LEMMA AskTyped ==
  ASSUME TypeOK, NEW u \in Users, Ask(u)
  PROVE  requests' \in 0..MaxRequests
  BY SemanticMergeAssumption DEF TypeOK, Ask

\* Initially everything has its type and everybody is in place,
LEMMA TypeInit == Init => TypeInv
<1> SUFFICES ASSUME Init PROVE TypeInv
  OBVIOUS
<1>1. StoredOK
  <2>1. \A review \in Reviews : NewRow(review) \in Row
    BY SemanticMergeAssumption, AtomsAreNumbers DEF NewRow, Row
  <2> QED
    BY <2>1, NoneTyped, SemanticMergeAssumption DEF Init, StoredOK
<1>2. LocalsOK
  BY NoneTyped, AtomsAreNumbers DEF Init, LocalsOK, NoChoice
<1>3. PlaceOK
  BY SemanticMergeAssumption DEF Init, PlaceOK
<1> QED
  BY <1>1, <1>2, <1>3, TypeOKParts DEF TypeInv

\* and every operation of a run and of a user keeps it so.
LEMMA TypeNext == TypeInv /\ [Next]_vars => TypeInv'
<1> SUFFICES ASSUME TypeInv, [Next]_vars PROVE StoredOK' /\ LocalsOK' /\ PlaceOK'
  BY DEF TypeInv, TypeOK, StoredOK, LocalsOK
<1> USE DEF TypeInv
<1>0. StoredOK /\ LocalsOK
  BY TypeOKParts
<1>1. ASSUME NEW g \in Governors, NEW m \in Modes, BeginRun(g, m)
      PROVE  StoredOK' /\ LocalsOK' /\ PlaceOK'
  <2>1. StoredOK'
    BY <1>0, <1>1, SemanticMergeAssumption DEF BeginRun, StoredOK
  <2>2. LocalsOK'
    BY <1>0, <1>1 DEF BeginRun, GoTo, LocalsOK, GovernorPC
  <2>3. PlaceOK'
    BY <1>1, SemanticMergeAssumption DEF BeginRun, GoTo, PlaceOK, TypeOK, GovernorPC
  <2> QED
    BY <2>1, <2>2, <2>3
<1>2. ASSUME NEW g \in Governors, Mark(g)
      PROVE  StoredOK' /\ LocalsOK' /\ PlaceOK'
  <2>1. PICK e \in Similar : edge' = [edge EXCEPT ![e] = Marked(edge[e])]
    BY <1>2 DEF Mark
  <2> DEFINE er == Marked(edge[e])
  <2>2. er \in EdgeRow
    <3>1. edge[e] \in EdgeRow /\ "open" \in {"open", "rejected"}
      BY <1>0 DEF StoredOK
    <3> QED
      BY <3>1, EdgeColumns
  <2>3. edge' = [edge EXCEPT ![e] = er]
    BY <2>1
  <2> HIDE DEF er
  <2>4. StoredOK'
    BY <1>0, <1>2, <2>2, <2>3 DEF Mark, StoredOK, history
  <2>5. LocalsOK'
    BY <1>0, <1>2 DEF Mark, LocalsOK, history
  <2>6. PlaceOK'
    BY <1>2 DEF Mark, PlaceOK, TypeOK
  <2> QED
    BY <2>4, <2>5, <2>6
<1>3. ASSUME NEW g \in Governors, Judge(g)
      PROVE  StoredOK' /\ LocalsOK' /\ PlaceOK'
  <2>1. StoredOK'
    BY <1>0, <1>3 DEF Judge, StoredOK
  <2>2. PICK E \in SUBSET found[g] :
          IF E = {} THEN Onward(g, {})
          ELSE /\ GoTo(g, "resolve")
               /\ todo' = [todo EXCEPT ![g] = E]
               /\ \E f \in Canonicals(E) : choice' = [choice EXCEPT ![g] = f]
               /\ UNCHANGED <<mode, found, target, plan, copy, barred>>
    BY <1>3 DEF Judge
  <2>3. CASE E = {}
    BY <2>1, <2>2, <2>3, OnwardTyped
  <2>4. CASE E # {}
    <3>1. Canonicals(E) \subseteq [Similar -> 0..N]
      BY DEF Canonicals
    <3>2. PICK f \in Canonicals(E) : choice' = [choice EXCEPT ![g] = f]
      BY <2>2, <2>4
    <3>3. f \in [Similar -> 0..N]
      BY <3>1
    <3>4. choice' \in [Governors -> [Similar -> 0..N]]
      BY <1>0, <3>2, <3>3 DEF LocalsOK
    <3>5. E \in SUBSET Similar
      BY <1>0 DEF LocalsOK
    <3>6. /\ pc' = [pc EXCEPT ![g] = "resolve"]
          /\ todo' = [todo EXCEPT ![g] = E]
          /\ UNCHANGED <<mode, found, target, plan, copy, barred>>
      BY <2>2, <2>4, Zenon DEF GoTo
    <3>7. LocalsOK'
      BY <1>0, <3>4, <3>5, <3>6 DEF LocalsOK, GovernorPC
    <3>8. PlaceOK'
      BY <2>2, <2>4, SemanticMergeAssumption DEF GoTo, PlaceOK, TypeOK, GovernorPC
    <3> QED
      BY <2>1, <3>7, <3>8
  <2> QED
    BY <2>3, <2>4
<1>4. ASSUME NEW g \in Governors, Resolve(g)
      PROVE  StoredOK' /\ LocalsOK' /\ PlaceOK'
  <2>1. StoredOK'
    BY <1>0, <1>4 DEF Resolve, StoredOK
  <2>2. PICK e \in Similar, s \in Atoms, t \in Atoms : Skip(g, e, s, t) \/ Choose(g, e, s, t)
    BY <1>4 DEF Resolve
  <2>3. CASE Skip(g, e, s, t)
    <3>1. todo[g] \ {e} \in SUBSET Similar
      BY DEF TypeOK
    <3> QED
      BY <2>1, <2>3, <3>1, OnwardTyped DEF Skip
  <2>4. CASE Choose(g, e, s, t)
    <3> DEFINE p == IF choice[g][e] = s THEN <<s, t>> ELSE <<t, s>>
    <3>1. s # t
      BY <2>4 DEF Choose, Refused
    <3>2. p \in Atoms \X Atoms /\ p[1] # p[2] /\ p \in (0..N) \X (0..N)
      BY <3>1, AtomsAreNumbers
    <3>3. plan' = [plan EXCEPT ![g] = p]
      BY <2>4 DEF Choose
    <3> HIDE DEF p
    <3>4. LocalsOK'
      BY <1>0, <2>4, <3>2, <3>3 DEF Choose, GoTo, LocalsOK, GovernorPC
    <3>5. PlaceOK'
      BY <2>4, <3>2, <3>3, SemanticMergeAssumption
         DEF Choose, GoTo, PlaceOK, TypeOK, GovernorPC
    <3> QED
      BY <2>1, <3>4, <3>5
  <2> QED
    BY <2>2, <2>3, <2>4
<1>5. ASSUME NEW g \in Governors, MergeRead(g)
      PROVE  StoredOK' /\ LocalsOK' /\ PlaceOK'
  <2> DEFINE c == plan[g][1]
             d == plan[g][2]
             k == [edge |-> edge[target[g]], canon |-> row[c], dup |-> row[d]]
  <2>1. StoredOK'
    BY <1>0, <1>5 DEF MergeRead, StoredOK, history
  <2>2. k \in Copies
    BY <1>0, <1>5 DEF MergeRead, StoredOK, PlaceOK, Copies
  <2>3. copy' = [copy EXCEPT ![g] = k]
    BY <1>5 DEF MergeRead
  <2> HIDE DEF k
  <2>4. LocalsOK'
    BY <1>0, <1>5, <2>2, <2>3 DEF MergeRead, GoTo, LocalsOK, GovernorPC, history
  <2>5. PlaceOK'
    BY <1>5, <2>3, SemanticMergeAssumption DEF MergeRead, GoTo, PlaceOK, TypeOK, GovernorPC
  <2> QED
    BY <2>1, <2>4, <2>5
<1>6. ASSUME NEW g \in Governors, MergeRefuse(g)
      PROVE  StoredOK' /\ LocalsOK' /\ PlaceOK'
  <2>1. StoredOK'
    BY <1>0, <1>6 DEF MergeRefuse, StoredOK
  <2> QED
    BY <1>6, <2>1, OnwardTyped DEF MergeRefuse, TypeOK
<1>7. ASSUME NEW g \in Governors, MergeWrite(g)
      PROVE  StoredOK' /\ LocalsOK' /\ PlaceOK'
  <2> DEFINE e == target[g]
             c == plan[g][1]
             d == plan[g][2]
             rc == Enriched(copy[g].canon, d)
             rd == Superseded(copy[g].dup, c, mode[g])
             er == Settled(copy[g].edge, c, d, copy[g].canon, copy[g].dup)
             un == [known |-> TRUE, canon |-> row[c], dup |-> row[d]]
  <2>1. e \in Similar /\ c \in Atoms /\ d \in Atoms /\ copy[g] \in Copies
    BY <1>7 DEF MergeWrite, PlaceOK, TypeOK
  <2>2. rc \in Row /\ rd \in Row /\ er \in EdgeRow
    <3>1. copy[g].canon \in Row /\ copy[g].dup \in Row /\ copy[g].edge \in EdgeRow
      BY <2>1 DEF Copies
    <3>2. rc \in Row
      BY <3>1, <2>1, MergedRows
    <3>3. rd \in Row
      BY <3>1, <2>1, MergedRows
    <3>4. er \in EdgeRow
      BY <3>1, <2>1, SettledEdge
    <3> QED
      BY <3>2, <3>3, <3>4
  <2>3. un \in [known : BOOLEAN, canon : Row, dup : Row]
    BY <1>0, <2>1 DEF StoredOK
  <2>4. /\ row' = [row EXCEPT ![c] = rc, ![d] = rd]
        /\ edge' = [edge EXCEPT ![e] = er]
        /\ \/ undo' = [Touched({c, d}) EXCEPT ![e] = NoUndo]
           \/ undo' = [Touched({c, d}) EXCEPT ![e] = un]
        /\ stale' \in {stale, "merge"}
        /\ forgotten' \subseteq forgotten
        /\ Onward(g, todo[g])
        /\ UNCHANGED <<verdict, runs, requests>>
    BY <1>7 DEF MergeWrite
  <2> HIDE DEF e, c, d, rc, rd, er, un
  <2>5. row' \in [Atoms -> Row] /\ edge' \in [Similar -> EdgeRow]
    BY <1>0, <2>1, <2>2, <2>4 DEF StoredOK
  <2>6. undo' \in [Similar -> [known : BOOLEAN, canon : Row, dup : Row]]
    BY <2>1, <2>3, <2>4, TouchedTyped, NoneTyped
  <2>7. StoredOK'
    BY <1>0, <2>4, <2>5, <2>6 DEF StoredOK
  <2> QED
    BY <2>4, <2>7, OnwardTyped DEF TypeOK
<1>8. ASSUME NEW g \in Governors, Abandon(g)
      PROVE  StoredOK' /\ LocalsOK' /\ PlaceOK'
  <2>1. StoredOK'
    BY <1>0, <1>8 DEF Abandon, StoredOK
  <2> QED
    BY <1>8, <2>1, OnwardTyped DEF Abandon
<1>9. ASSUME NEW u \in Users, NEW e \in Similar, RollbackRead(u, e)
      PROVE  StoredOK' /\ LocalsOK' /\ PlaceOK'
  <2> DEFINE c == edge[e].canon
             d == edge[e].dup
             k == [edge |-> edge[e], canon |-> row[c], dup |-> row[d]]
  <2>1. c \in Atoms /\ d \in Atoms
    BY <1>0, <1>9, AtomsAreNumbers DEF RollbackRead, StoredOK, EdgeRow, Atoms
  <2>2. k \in Copies /\ k.edge.canon = c /\ k.edge.dup = d
    BY <1>0, <2>1 DEF StoredOK, Copies
  <2>3. StoredOK'
    BY <1>0, <1>9, AskTyped DEF RollbackRead, StoredOK
  <2>4. /\ copy' = [copy EXCEPT ![u] = k]
        /\ plan' = [plan EXCEPT ![u] = <<c, d>>]
        /\ target' = [target EXCEPT ![u] = e]
        /\ pc' = [pc EXCEPT ![u] = "rollback"]
        /\ UNCHANGED <<mode, found, todo, choice, barred>>
    BY <1>9 DEF RollbackRead, GoTo
  <2> HIDE DEF k, c, d
  <2>5. LocalsOK'
    BY <1>0, <2>1, <2>2, <2>4, AtomsAreNumbers DEF LocalsOK, UserPC
  <2>6. PlaceOK'
    BY <2>1, <2>2, <2>4, SemanticMergeAssumption DEF PlaceOK, TypeOK, UserPC
  <2> QED
    BY <2>3, <2>5, <2>6
<1>10. ASSUME NEW u \in Users, RollbackWrite(u)
       PROVE  StoredOK' /\ LocalsOK' /\ PlaceOK'
  <2> DEFINE e == target[u]
             c == plan[u][1]
             d == plan[u][2]
             rc == copy[u].edge.prevCanon
             rd == copy[u].edge.prevDup
             er == [copy[u].edge EXCEPT !.res = "rolled_back"]
  <2>1. e \in Similar /\ c \in Atoms /\ d \in Atoms /\ copy[u].edge \in EdgeRow
    BY <1>10 DEF RollbackWrite, PlaceOK, TypeOK, Copies
  <2>2. rc \in Row /\ rd \in Row /\ er \in EdgeRow
    BY <2>1 DEF EdgeRow
  <2>3. /\ row' = [row EXCEPT ![c] = rc, ![d] = rd]
        /\ edge' = [edge EXCEPT ![e] = er]
        /\ undo' = [Touched({c, d}) EXCEPT ![e] = NoUndo]
        /\ verdict' = [verdict EXCEPT ![e] = "rolled_back"]
        /\ stale' \in {stale, "merge"}
        /\ forgotten' \subseteq forgotten
        /\ Leave(u)
        /\ UNCHANGED <<barred, runs, requests>>
    BY <1>10 DEF RollbackWrite
  <2> HIDE DEF e, c, d, rc, rd, er
  <2>4. StoredOK'
    BY <1>0, <2>1, <2>2, <2>3, TouchedTyped, NoneTyped DEF StoredOK
  <2> QED
    BY <2>3, <2>4, LeaveTyped
<1>11. ASSUME NEW u \in Users, NEW e \in Similar, EdgeReviewRead(u, e)
       PROVE  StoredOK' /\ LocalsOK' /\ PlaceOK'
  <2>1. StoredOK'
    BY <1>0, <1>11, AskTyped DEF EdgeReviewRead, StoredOK
  <2>2. LocalsOK'
    BY <1>0, <1>11 DEF EdgeReviewRead, GoTo, LocalsOK, UserPC, StoredOK, Copies
  <2>3. PlaceOK'
    BY <1>11, SemanticMergeAssumption DEF EdgeReviewRead, GoTo, PlaceOK, TypeOK, UserPC
  <2> QED
    BY <2>1, <2>2, <2>3
<1>12. ASSUME NEW u \in Users, NEW v \in {"open", "rejected"}, EdgeReviewWrite(u, v)
       PROVE  StoredOK' /\ LocalsOK' /\ PlaceOK'
  <2> DEFINE e  == target[u]
             er == [copy[u].edge EXCEPT !.review = v]
             ve == IF verdict[e] = "rolled_back" THEN verdict[e]
                   ELSE IF v = "rejected" THEN "rejected" ELSE "none"
             st == IF copy[u].edge # edge[e] /\ stale = "no" THEN "merge" ELSE stale
  <2>1. e \in Similar /\ copy[u].edge \in EdgeRow
    BY <1>12 DEF EdgeReviewWrite, PlaceOK, TypeOK, Copies
  <2>2. er \in EdgeRow
    BY <2>1, EdgeColumns
  <2>3. ve \in {"none", "rejected", "rolled_back"} /\ st \in {"no", "merge", "review"}
    BY <1>0 DEF StoredOK
  <2>4. /\ edge' = [edge EXCEPT ![e] = er]
        /\ verdict' = [verdict EXCEPT ![e] = ve]
        /\ stale' = st
        /\ barred' \in [Governors -> SUBSET Similar]
        /\ Leave(u)
        /\ UNCHANGED <<row, undo, forgotten, runs, requests>>
    BY <1>12 DEF EdgeReviewWrite, TypeOK
  <2> HIDE DEF e, er, ve, st
  <2>5. StoredOK'
    BY <1>0, <2>1, <2>2, <2>3, <2>4 DEF StoredOK
  <2> QED
    BY <2>4, <2>5, LeaveTyped
<1>13. ASSUME NEW u \in Users, NEW a \in Atoms, AtomReviewRead(u, a)
       PROVE  StoredOK' /\ LocalsOK' /\ PlaceOK'
  <2>1. StoredOK'
    BY <1>0, <1>13, AskTyped DEF AtomReviewRead, StoredOK
  <2>2. LocalsOK'
    BY <1>0, <1>13 DEF AtomReviewRead, GoTo, LocalsOK, UserPC, StoredOK, Copies
  <2>3. PlaceOK'
    BY <1>13, SemanticMergeAssumption DEF AtomReviewRead, GoTo, PlaceOK, TypeOK, UserPC
  <2> QED
    BY <2>1, <2>2, <2>3
<1>14. ASSUME NEW u \in Users, NEW v \in Reviews, AtomReviewWrite(u, v)
       PROVE  StoredOK' /\ LocalsOK' /\ PlaceOK'
  <2> DEFINE a == target[u][2]
             r == [copy[u].dup EXCEPT !.review = v]
  <2>1. a \in Atoms /\ copy[u].dup \in Row
    BY <1>14 DEF AtomReviewWrite, PlaceOK, TypeOK, Copies
  <2>2. r \in Row
    BY <2>1, SemanticMergeAssumption DEF Row
  <2>3. /\ row' = [row EXCEPT ![a] = r]
        /\ undo' = undo \/ undo' = Touched({a})
        /\ stale' \in {stale, "review"}
        /\ forgotten' \subseteq forgotten
        /\ Leave(u)
        /\ UNCHANGED <<edge, verdict, barred, runs, requests>>
    BY <1>14 DEF AtomReviewWrite
  <2> HIDE DEF a, r
  <2>4. StoredOK'
    BY <1>0, <2>1, <2>2, <2>3, TouchedTyped DEF StoredOK
  <2> QED
    BY <2>3, <2>4, LeaveTyped
<1>15. ASSUME NEW u \in Users, NEW a \in Atoms, Forget(u, a)
       PROVE  StoredOK' /\ LocalsOK' /\ PlaceOK'
  <2>1. [row[a] EXCEPT !.status = "dead"] \in Row
    <3>1. row[a] \in Row
      BY <1>0 DEF StoredOK
    <3> QED
      BY <3>1 DEF Row
  <2>2. StoredOK'
    <3>1. undo' = undo \/ undo' = Touched({a})
      BY <1>15 DEF Forget
    <3> QED
      BY <1>0, <1>15, <2>1, <3>1, AskTyped, TouchedTyped DEF Forget, StoredOK
  <2>3. LocalsOK' /\ PlaceOK'
    BY <1>0, <1>15 DEF Forget, locals, LocalsOK, PlaceOK
  <2> QED
    BY <2>2, <2>3
<1>16. CASE UNCHANGED vars
  BY <1>0, <1>16 DEF vars, locals, history, StoredOK, LocalsOK, PlaceOK
<1> QED
  BY <1>1, <1>2, <1>3, <1>4, <1>5, <1>6, <1>7, <1>8, <1>9, <1>10, <1>11, <1>12, <1>13, <1>14,
     <1>15, <1>16 DEF Next, Governor, User

\* Every variable keeps its type, for any number of atoms and actors.
THEOREM TypeCorrect == Spec => []TypeOK
<1>1. Spec => []TypeInv
  BY TypeInit, TypeNext, PTL DEF Spec
<1>2. TypeInv => TypeOK
  BY DEF TypeInv
<1> QED
  BY <1>1, <1>2, PTL

-----------------------------------------------------------------------------
(* What edges keep of merges *)

\* An edge that has been merged names two atoms, and keeps them as they were, alive.
Keeps(er) ==
  er.canon # None \/ er.dup # None \/ er.res # "none" =>
    /\ er.canon \in Atoms /\ er.dup \in Atoms /\ er.canon # er.dup
    /\ er.prevCanon.status = "live" /\ er.prevDup.status = "live"

StoredKeep == \A e \in Similar : Keeps(edge[e])
CopiedKeep == \A a \in Actors : Keeps(copy[a].edge)
HeldLive   == \A g \in Governors :
                pc[g] = "merge" => copy[g].canon.status = "live" /\ copy[g].dup.status = "live"

KeepInv == StoredKeep /\ CopiedKeep /\ HeldLive

\* Marks and reviews leave what a merge has put on the edge; a rollback changes the
\* resolution only.
LEMMA ColumnsKept ==
  ASSUME NEW er \in EdgeRow, NEW v \in {"open", "rejected"}
  PROVE  /\ \A x \in {Marked(er), [er EXCEPT !.review = v]} :
              x.res = er.res /\ x.canon = er.canon /\ x.dup = er.dup
              /\ x.prevCanon = er.prevCanon /\ x.prevDup = er.prevDup
         /\ Marked(er).review = er.review
         /\ [er EXCEPT !.review = v].review = v
         /\ LET x == [er EXCEPT !.res = "rolled_back"]
            IN  x.canon = er.canon /\ x.dup = er.dup /\ x.res = "rolled_back"
                /\ x.prevCanon = er.prevCanon /\ x.prevDup = er.prevDup
<1>1. LET x == Marked(er)
      IN  x.res = er.res /\ x.canon = er.canon /\ x.dup = er.dup /\ x.review = er.review
          /\ x.prevCanon = er.prevCanon /\ x.prevDup = er.prevDup
  BY DEF Marked, EdgeRow
<1>2. LET x == [er EXCEPT !.review = v]
      IN  x.res = er.res /\ x.canon = er.canon /\ x.dup = er.dup /\ x.review = v
          /\ x.prevCanon = er.prevCanon /\ x.prevDup = er.prevDup
  BY DEF EdgeRow
<1>3. LET x == [er EXCEPT !.res = "rolled_back"]
      IN  x.canon = er.canon /\ x.dup = er.dup /\ x.res = "rolled_back"
          /\ x.prevCanon = er.prevCanon /\ x.prevDup = er.prevDup
  BY DEF EdgeRow
<1> QED
  BY <1>1, <1>2, <1>3, Zenon

\* So they keep what they should.
LEMMA KeepsKept ==
  ASSUME NEW er \in EdgeRow, NEW v \in {"open", "rejected"}, Keeps(er)
  PROVE  /\ Keeps(Marked(er)) /\ Keeps([er EXCEPT !.review = v])
         /\ er.canon # None => Keeps([er EXCEPT !.res = "rolled_back"])
<1>1. Keeps(Marked(er)) /\ Keeps([er EXCEPT !.review = v])
  BY ColumnsKept DEF Keeps
<1>2. ASSUME er.canon # None
      PROVE  Keeps([er EXCEPT !.res = "rolled_back"])
  BY <1>2, ColumnsKept DEF Keeps
<1> QED
  BY <1>1, <1>2

\* An edge without a merge has nothing to keep.
LEMMA KeepsNone == Keeps(NoEdge)
  BY DEF Keeps, NoEdge

\* An actor that goes on or leaves holds no copies any more.
LEMMA DoneKeeps ==
  ASSUME TypeInv, KeepInv, NEW a \in Actors,
         copy' = [copy EXCEPT ![a] = NoCopy], pc'[a] # "merge",
         \A b \in Actors : b # a => pc'[b] = pc[b]
  PROVE  CopiedKeep' /\ HeldLive'
<1>1. NoCopy.edge = NoEdge
  BY DEF NoCopy
<1> QED
  BY <1>1, KeepsNone DEF TypeInv, TypeOK, KeepInv, CopiedKeep, HeldLive

\* So does a run that goes on,
LEMMA OnwardKeeps ==
  ASSUME TypeInv, KeepInv, NEW g \in Governors, NEW rest, Onward(g, rest)
  PROVE  CopiedKeep' /\ HeldLive'
<1>1. copy' = [copy EXCEPT ![g] = NoCopy]
      /\ pc' = [pc EXCEPT ![g] = IF rest = {} THEN "idle" ELSE "resolve"]
  BY DEF Onward, GoTo
<1>2. pc'[g] # "merge" /\ \A b \in Actors : b # g => pc'[b] = pc[b]
  BY <1>1 DEF TypeInv, TypeOK
<1> QED
  BY <1>1, <1>2, DoneKeeps

\* and a user who leaves.
LEMMA LeaveKeeps ==
  ASSUME TypeInv, KeepInv, NEW u \in Users, Leave(u)
  PROVE  CopiedKeep' /\ HeldLive'
<1>1. copy' = [copy EXCEPT ![u] = NoCopy] /\ pc' = [pc EXCEPT ![u] = "idle"]
  BY DEF Leave, GoTo
<1>2. pc'[u] # "merge" /\ \A b \in Actors : b # u => pc'[b] = pc[b]
  BY <1>1 DEF TypeInv, TypeOK
<1> QED
  BY <1>1, <1>2, DoneKeeps

\* Initially there are no merges,
LEMMA KeepInit == Init => KeepInv
<1>1. NoCopy.edge = NoEdge
  BY DEF NoCopy
<1> QED
  BY <1>1, KeepsNone DEF Init, KeepInv, StoredKeep, CopiedKeep, HeldLive

\* and whatever runs and users do, every edge keeps what its last merge found.
LEMMA KeepNext == TypeInv /\ KeepInv /\ [Next]_vars => KeepInv'
<1> SUFFICES ASSUME TypeInv, KeepInv, [Next]_vars PROVE KeepInv'
  OBVIOUS
<1>0. StoredOK /\ LocalsOK /\ PlaceOK /\ StoredKeep /\ CopiedKeep /\ HeldLive
  BY TypeOKParts DEF TypeInv, KeepInv
<1>1. ASSUME NEW g \in Governors, NEW m \in Modes, BeginRun(g, m)
      PROVE  KeepInv'
  BY <1>0, <1>1 DEF BeginRun, GoTo, KeepInv, StoredKeep, CopiedKeep, HeldLive, LocalsOK
<1>2. ASSUME NEW g \in Governors, Mark(g)
      PROVE  KeepInv'
  <2>1. PICK e \in Similar : edge' = [edge EXCEPT ![e] = Marked(edge[e])]
    BY <1>2 DEF Mark
  <2>2. Keeps(Marked(edge[e]))
    <3>1. edge[e] \in EdgeRow /\ Keeps(edge[e]) /\ "open" \in {"open", "rejected"}
      BY <1>0 DEF StoredOK, StoredKeep
    <3> QED
      BY <3>1, KeepsKept
  <2>3. StoredKeep'
    BY <1>0, <2>1, <2>2 DEF StoredKeep, StoredOK
  <2> QED
    BY <1>0, <1>2, <2>3 DEF Mark, KeepInv, CopiedKeep, HeldLive
<1>3. ASSUME NEW g \in Governors, Judge(g)
      PROVE  KeepInv'
  <2>1. CASE Onward(g, {})
    BY <1>0, <1>3, <2>1, OnwardKeeps DEF Judge, KeepInv, StoredKeep
  <2>2. CASE GoTo(g, "resolve") /\ UNCHANGED copy
    BY <1>0, <1>3, <2>2 DEF Judge, GoTo, KeepInv, StoredKeep, CopiedKeep, HeldLive, LocalsOK
  <2> QED
    BY <1>3, <2>1, <2>2 DEF Judge
<1>4. ASSUME NEW g \in Governors, Resolve(g)
      PROVE  KeepInv'
  <2>1. PICK e \in Similar, s \in Atoms, t \in Atoms : Skip(g, e, s, t) \/ Choose(g, e, s, t)
    BY <1>4 DEF Resolve
  <2>2. CASE Skip(g, e, s, t)
    BY <1>0, <1>4, <2>2, OnwardKeeps DEF Resolve, Skip, KeepInv, StoredKeep
  <2>3. CASE Choose(g, e, s, t)
    BY <1>0, <1>4, <2>3
       DEF Resolve, Choose, GoTo, KeepInv, StoredKeep, CopiedKeep, HeldLive, LocalsOK
  <2> QED
    BY <2>1, <2>2, <2>3
<1>5. ASSUME NEW g \in Governors, MergeRead(g)
      PROVE  KeepInv'
  <2> DEFINE c == plan[g][1]
             d == plan[g][2]
             k == [edge |-> edge[target[g]], canon |-> row[c], dup |-> row[d]]
  <2>1. Keeps(k.edge) /\ k.canon.status = "live" /\ k.dup.status = "live"
    BY <1>0, <1>5 DEF MergeRead, Live, PlaceOK, StoredKeep
  <2>2. copy' = [copy EXCEPT ![g] = k] /\ pc' = [pc EXCEPT ![g] = "merge"] /\ edge' = edge
    BY <1>5 DEF MergeRead, GoTo
  <2> HIDE DEF k
  <2> QED
    BY <1>0, <2>1, <2>2 DEF KeepInv, StoredKeep, CopiedKeep, HeldLive, LocalsOK
<1>6. ASSUME NEW g \in Governors, MergeRefuse(g)
      PROVE  KeepInv'
  BY <1>0, <1>6, OnwardKeeps DEF MergeRefuse, KeepInv, StoredKeep
<1>7. ASSUME NEW g \in Governors, MergeWrite(g)
      PROVE  KeepInv'
  <2> DEFINE e == target[g]
             c == plan[g][1]
             d == plan[g][2]
             er == Settled(copy[g].edge, c, d, copy[g].canon, copy[g].dup)
  <2>1. e \in Similar /\ c \in Atoms /\ d \in Atoms /\ c # d /\ copy[g] \in Copies
    BY <1>0, <1>7 DEF MergeWrite, PlaceOK, LocalsOK
  <2>2. copy[g].canon \in Row /\ copy[g].dup \in Row /\ copy[g].edge \in EdgeRow
        /\ copy[g].canon.status = "live" /\ copy[g].dup.status = "live"
    BY <1>0, <1>7, <2>1 DEF MergeWrite, HeldLive, Copies
  <2>3. Keeps(er)
    <3>1. /\ er.canon = c /\ er.dup = d
          /\ er.prevCanon = copy[g].canon /\ er.prevDup = copy[g].dup
      BY <2>1, <2>2, SettledEdge
    <3> HIDE DEF er
    <3> QED
      BY <2>1, <2>2, <3>1 DEF Keeps
  <2>4. edge' = [edge EXCEPT ![e] = er] /\ Onward(g, todo[g])
    BY <1>7 DEF MergeWrite
  <2> HIDE DEF e, er
  <2>5. StoredKeep'
    BY <1>0, <2>1, <2>3, <2>4 DEF StoredKeep, StoredOK
  <2> QED
    BY <2>4, <2>5, OnwardKeeps DEF KeepInv
<1>8. ASSUME NEW g \in Governors, Abandon(g)
      PROVE  KeepInv'
  BY <1>0, <1>8, OnwardKeeps DEF Abandon, KeepInv, StoredKeep
<1>9. ASSUME NEW u \in Users, NEW e \in Similar, RollbackRead(u, e)
      PROVE  KeepInv'
  <2> DEFINE k == [edge |-> edge[e], canon |-> row[edge[e].canon], dup |-> row[edge[e].dup]]
  <2>1. Keeps(k.edge)
    BY <1>0 DEF StoredKeep
  <2>2. copy' = [copy EXCEPT ![u] = k] /\ pc' = [pc EXCEPT ![u] = "rollback"] /\ edge' = edge
    BY <1>9 DEF RollbackRead, GoTo
  <2> HIDE DEF k
  <2> QED
    BY <1>0, <2>1, <2>2, SemanticMergeAssumption
       DEF KeepInv, StoredKeep, CopiedKeep, HeldLive, LocalsOK
<1>10. ASSUME NEW u \in Users, RollbackWrite(u)
       PROVE  KeepInv'
  <2> DEFINE e == target[u]
             er == [copy[u].edge EXCEPT !.res = "rolled_back"]
  <2>1. e \in Similar /\ copy[u].edge \in EdgeRow /\ copy[u].edge.canon \in Atoms
    BY <1>0, <1>10 DEF RollbackWrite, PlaceOK, LocalsOK, Copies
  <2>2. copy[u].edge.canon # None /\ Keeps(copy[u].edge)
    BY <1>0, <2>1, AtomsAreNumbers DEF CopiedKeep
  <2>3. Keeps(er)
    BY <2>1, <2>2, KeepsKept
  <2>4. edge' = [edge EXCEPT ![e] = er] /\ Leave(u)
    BY <1>10 DEF RollbackWrite
  <2> HIDE DEF e, er
  <2>5. StoredKeep'
    BY <1>0, <2>1, <2>3, <2>4 DEF StoredKeep, StoredOK
  <2> QED
    BY <2>4, <2>5, LeaveKeeps DEF KeepInv
<1>11. ASSUME NEW u \in Users, NEW e \in Similar, EdgeReviewRead(u, e)
       PROVE  KeepInv'
  <2>1. copy' = [copy EXCEPT ![u].edge = edge[e]] /\ pc' = [pc EXCEPT ![u] = "edge"]
        /\ edge' = edge
    BY <1>11 DEF EdgeReviewRead, GoTo
  <2> QED
    BY <1>0, <2>1, SemanticMergeAssumption
       DEF KeepInv, StoredKeep, CopiedKeep, HeldLive, LocalsOK, Copies
<1>12. ASSUME NEW u \in Users, NEW v \in {"open", "rejected"}, EdgeReviewWrite(u, v)
       PROVE  KeepInv'
  <2> DEFINE e == target[u]
             er == [copy[u].edge EXCEPT !.review = v]
  <2>1. e \in Similar /\ copy[u].edge \in EdgeRow /\ Keeps(copy[u].edge)
    BY <1>0, <1>12 DEF EdgeReviewWrite, PlaceOK, LocalsOK, Copies, CopiedKeep
  <2>2. Keeps(er)
    BY <2>1, KeepsKept
  <2>3. edge' = [edge EXCEPT ![e] = er] /\ Leave(u)
    BY <1>12 DEF EdgeReviewWrite
  <2> HIDE DEF e, er
  <2>4. StoredKeep'
    BY <1>0, <2>1, <2>2, <2>3 DEF StoredKeep, StoredOK
  <2> QED
    BY <2>3, <2>4, LeaveKeeps DEF KeepInv
<1>13. ASSUME NEW u \in Users, NEW a \in Atoms, AtomReviewRead(u, a)
       PROVE  KeepInv'
  <2>1. copy' = [copy EXCEPT ![u].dup = row[a]] /\ pc' = [pc EXCEPT ![u] = "atom"]
        /\ edge' = edge
    BY <1>13 DEF AtomReviewRead, GoTo
  <2> QED
    BY <1>0, <2>1, SemanticMergeAssumption
       DEF KeepInv, StoredKeep, CopiedKeep, HeldLive, LocalsOK, Copies
<1>14. ASSUME NEW u \in Users, NEW v \in Reviews, AtomReviewWrite(u, v)
       PROVE  KeepInv'
  BY <1>0, <1>14, LeaveKeeps DEF AtomReviewWrite, KeepInv, StoredKeep
<1>15. ASSUME NEW u \in Users, NEW a \in Atoms, Forget(u, a)
       PROVE  KeepInv'
  BY <1>0, <1>15 DEF Forget, locals, KeepInv, StoredKeep, CopiedKeep, HeldLive
<1>16. CASE UNCHANGED vars
  BY <1>0, <1>16 DEF vars, locals, KeepInv, StoredKeep, CopiedKeep, HeldLive
<1> QED
  BY <1>1, <1>2, <1>3, <1>4, <1>5, <1>6, <1>7, <1>8, <1>9, <1>10, <1>11, <1>12, <1>13, <1>14,
     <1>15, <1>16 DEF Next, Governor, User

-----------------------------------------------------------------------------
(* While nobody has written from an outdated copy *)

\* A merge that can be taken back exactly is the last of its edge, and the edge has
\* the rows it found.
Exact ==
  \A e \in Similar :
    undo[e].known => undo[e].canon = edge[e].prevCanon /\ undo[e].dup = edge[e].prevDup

\* What users have closed looks closed to a run,
Decided ==
  \A e \in Similar :
    /\ verdict[e] = "rejected" => edge[e].review = "rejected" \/ edge[e].res # "none"
    /\ verdict[e] = "rolled_back" => edge[e].res # "none"

\* which does not choose it,
Spared ==
  \A g \in Governors :
    /\ \A e \in barred[g] : verdict[e] # "none"
    /\ pc[g] \in {"read", "merge"} => target[g] \notin barred[g]

\* and every atom that a merge has tombstoned can be brought back.
Saved(a) ==
  \E e \in Similar : edge[e].res = "auto_merged" /\ edge[e].dup = a
                      /\ edge[e].prevDup.status = "live"

Reversible == \A a \in Atoms : Live(a) \/ a \in forgotten \/ Saved(a)

FreshInv == stale = "no" => Exact /\ Decided /\ Spared /\ Reversible

Inv == TypeInv /\ KeepInv /\ FreshInv

\* What a run may merge is open; what users have decided is not.
LEMMA DecidedIsClosed ==
  ASSUME TypeOK, Decided, NEW e \in Similar, verdict[e] # "none"
  PROVE  Closed(edge[e])
  BY Zenon DEF TypeOK, EdgeRow, Decided, Closed

\* Initially nobody has merged, decided or chosen anything,
LEMMA FreshInit == Init => FreshInv
<1> SUFFICES ASSUME Init PROVE Exact /\ Decided /\ Spared /\ Reversible
  BY DEF FreshInv
<1>1. Exact
  BY DEF Init, Exact, NoUndo
<1>2. Decided /\ Spared
  BY SemanticMergeAssumption DEF Init, Decided, Spared
<1>3. Reversible
  BY DEF Init, NewRow, Reversible, Live
<1> QED
  BY <1>1, <1>2, <1>3

\* Nothing is lost by steps that leave rows and edges alone.
LEMMA QuietFresh ==
  ASSUME FreshInv, stale' = "no", UNCHANGED <<row, edge, undo, verdict, forgotten, stale>>
  PROVE  Exact' /\ Decided' /\ Reversible'
  BY DEF FreshInv, Exact, Decided, Reversible, Live, Saved

\* A run that goes on is no longer about to write.
LEMMA OnwardSpares ==
  ASSUME TypeInv, Spared, NEW g \in Governors, NEW rest, Onward(g, rest), verdict' = verdict
  PROVE  Spared'
<1>1. pc' = [pc EXCEPT ![g] = IF rest = {} THEN "idle" ELSE "resolve"]
      /\ target' = [target EXCEPT ![g] = NoPair]
  BY DEF Onward, GoTo
<1>2. \A h \in Governors : barred'[h] \subseteq barred[h]
  <2>1. CASE rest = {}
    BY <2>1 DEF Onward, TypeInv, TypeOK
  <2>2. CASE rest # {}
    BY <2>2 DEF Onward
  <2> QED
    BY <2>1, <2>2
<1>3. TypeOK
  BY DEF TypeInv
<1> QED
  BY <1>1, <1>2, <1>3 DEF TypeOK, Spared

\* Users are not runs.
LEMMA UserSpares ==
  ASSUME TypeInv, Spared, NEW u \in Users,
         \A g \in Governors : pc'[g] = pc[g] /\ target'[g] = target[g],
         \A g \in Governors : \A e \in barred'[g] : e \in barred[g] /\ verdict'[e] # "none"
  PROVE  Spared'
  BY DEF Spared

\* A user who leaves does not move a run.
LEMMA LeaveOthers ==
  ASSUME TypeInv, NEW u \in Users, Leave(u)
  PROVE  \A g \in Governors : pc'[g] = pc[g] /\ target'[g] = target[g]
  BY SemanticMergeAssumption DEF TypeInv, TypeOK, Leave, GoTo

\* Rows written by one operation cannot be taken back exactly by another.
LEMMA TouchedExact ==
  ASSUME NEW atoms, NEW e \in Similar, Touched(atoms)[e].known
  PROVE  Touched(atoms)[e] = undo[e]
  BY DEF Touched, NoUndo

\* and all four stay true as long as every write is based on current copies.
LEMMA FreshNext == Inv /\ [Next]_vars => FreshInv'
<1> SUFFICES ASSUME Inv, [Next]_vars, stale' = "no"
             PROVE  Exact' /\ Decided' /\ Spared' /\ Reversible'
  BY DEF FreshInv
<1>0. TypeInv /\ KeepInv /\ FreshInv /\ StoredOK /\ LocalsOK /\ PlaceOK /\ StoredKeep /\ CopiedKeep
      /\ HeldLive
  BY TypeOKParts DEF Inv, TypeInv, KeepInv
<1>1. ASSUME NEW g \in Governors, NEW m \in Modes, BeginRun(g, m)
      PROVE  Exact' /\ Decided' /\ Spared' /\ Reversible'
  <2>1. Spared
    BY <1>0, <1>1 DEF FreshInv, BeginRun
  <2>2. Spared'
    BY <1>0, <1>1, <2>1 DEF BeginRun, GoTo, Spared, LocalsOK
  <2> QED
    BY <1>0, <1>1, <2>2, QuietFresh DEF BeginRun
<1>2. ASSUME NEW g \in Governors, Mark(g)
      PROVE  Exact' /\ Decided' /\ Spared' /\ Reversible'
  <2>1. Exact /\ Decided /\ Spared /\ Reversible
    BY <1>0, <1>2 DEF FreshInv, Mark, history
  <2>2. PICK e \in Similar : edge' = [edge EXCEPT ![e] = Marked(edge[e])]
    BY <1>2 DEF Mark
  <2>3. \A d \in Similar :
          /\ edge'[d].res = edge[d].res /\ edge'[d].review = edge[d].review
          /\ edge'[d].dup = edge[d].dup
          /\ edge'[d].prevCanon = edge[d].prevCanon /\ edge'[d].prevDup = edge[d].prevDup
    <3>1. edge[e] \in EdgeRow /\ "open" \in {"open", "rejected"}
      BY <1>0 DEF StoredOK
    <3>2. LET x == Marked(edge[e])
          IN  x.res = edge[e].res /\ x.dup = edge[e].dup /\ x.review = edge[e].review
              /\ x.prevCanon = edge[e].prevCanon /\ x.prevDup = edge[e].prevDup
      BY <3>1, ColumnsKept
    <3> QED
      BY <1>0, <2>2, <3>2 DEF StoredOK
  <2>4. Exact' /\ Decided'
    BY <1>2, <2>1, <2>3 DEF Mark, history, Exact, Decided
  <2>5. Spared'
    BY <1>2, <2>1 DEF Mark, history, Spared
  <2>6. Reversible'
    BY <1>2, <2>1, <2>3 DEF Mark, history, Reversible, Live, Saved
  <2> QED
    BY <2>4, <2>5, <2>6
<1>3. ASSUME NEW g \in Governors, Judge(g)
      PROVE  Exact' /\ Decided' /\ Spared' /\ Reversible'
  <2>1. Exact' /\ Decided' /\ Reversible'
    BY <1>0, <1>3, QuietFresh DEF Judge
  <2>2. Spared
    BY <1>0, <1>3 DEF FreshInv, Judge
  <2>3. CASE Onward(g, {})
    BY <1>0, <1>3, <2>1, <2>2, <2>3, OnwardSpares DEF Judge
  <2>4. CASE GoTo(g, "resolve") /\ UNCHANGED <<target, barred>>
    BY <1>0, <1>3, <2>1, <2>2, <2>4 DEF Judge, GoTo, Spared, LocalsOK
  <2> QED
    BY <1>3, <2>3, <2>4 DEF Judge
<1>4. ASSUME NEW g \in Governors, Resolve(g)
      PROVE  Exact' /\ Decided' /\ Spared' /\ Reversible'
  <2>1. Exact' /\ Decided' /\ Reversible'
    BY <1>0, <1>4, QuietFresh DEF Resolve
  <2>2. Spared /\ Decided
    BY <1>0, <1>4 DEF FreshInv, Resolve
  <2>3. PICK e \in Similar, s \in Atoms, t \in Atoms : Skip(g, e, s, t) \/ Choose(g, e, s, t)
    BY <1>4 DEF Resolve
  <2>4. CASE Skip(g, e, s, t)
    BY <1>0, <1>4, <2>1, <2>2, <2>4, OnwardSpares DEF Resolve, Skip
  <2>5. CASE Choose(g, e, s, t)
    <3>1. verdict[e] = "none"
      BY <1>0, <2>2, <2>5, DecidedIsClosed DEF Choose, Refused, TypeInv
    <3>2. e \notin barred[g]
      BY <2>2, <3>1 DEF Spared
    <3>3. /\ pc' = [pc EXCEPT ![g] = "read"]
          /\ target' = [target EXCEPT ![g] = e]
          /\ UNCHANGED <<barred, verdict>>
      BY <1>4, <2>5 DEF Resolve, Choose, GoTo
    <3>4. Spared'
      BY <1>0, <2>2, <3>2, <3>3 DEF Spared, LocalsOK
    <3> QED
      BY <2>1, <3>4
  <2> QED
    BY <2>3, <2>4, <2>5
<1>5. ASSUME NEW g \in Governors, MergeRead(g)
      PROVE  Exact' /\ Decided' /\ Spared' /\ Reversible'
  <2>1. Spared
    BY <1>0, <1>5 DEF FreshInv, MergeRead, history
  <2>2. Spared'
    BY <1>0, <1>5, <2>1 DEF MergeRead, GoTo, history, Spared, LocalsOK
  <2> QED
    BY <1>0, <1>5, <2>2, QuietFresh DEF MergeRead, history
<1>6. ASSUME NEW g \in Governors, MergeRefuse(g)
      PROVE  Exact' /\ Decided' /\ Spared' /\ Reversible'
  <2>1. Spared
    BY <1>0, <1>6 DEF FreshInv, MergeRefuse
  <2> QED
    BY <1>0, <1>6, <2>1, QuietFresh, OnwardSpares DEF MergeRefuse
<1>7. ASSUME NEW g \in Governors, MergeWrite(g)
      PROVE  Exact' /\ Decided' /\ Spared' /\ Reversible'
  <2> DEFINE e == target[g]
             c == plan[g][1]
             d == plan[g][2]
             rc == Enriched(copy[g].canon, d)
             rd == Superseded(copy[g].dup, c, mode[g])
             er == Settled(copy[g].edge, c, d, copy[g].canon, copy[g].dup)
             un == [known |-> TRUE, canon |-> row[c], dup |-> row[d]]
             late == Outdated(g, c, d) \/ Closed(edge[e])
             gone == IF Tombstones(mode[g]) THEN {c} ELSE {c, d}
  <2>1. e \in Similar /\ c \in Atoms /\ d \in Atoms /\ c # d /\ copy[g] \in Copies
    BY <1>0, <1>7 DEF MergeWrite, PlaceOK, LocalsOK
  <2>2. /\ row' = [row EXCEPT ![c] = rc, ![d] = rd]
        /\ edge' = [edge EXCEPT ![e] = er]
        /\ undo' = [Touched({c, d}) EXCEPT ![e] = IF late THEN NoUndo ELSE un]
        /\ stale' = IF late /\ stale = "no" THEN "merge" ELSE stale
        /\ forgotten' = forgotten \ gone
        /\ Onward(g, todo[g])
        /\ UNCHANGED verdict
    BY <1>7 DEF MergeWrite
  <2>3. ~late /\ stale = "no"
    BY <2>2, Zenon
  <2>4. /\ copy[g].canon = row[c] /\ copy[g].dup = row[d] /\ ~Closed(edge[e])
        /\ Exact /\ Decided /\ Spared /\ Reversible
    BY <1>0, <2>3 DEF Outdated, FreshInv
  <2>5. /\ copy[g].canon \in Row /\ copy[g].dup \in Row /\ copy[g].edge \in EdgeRow
        /\ copy[g].canon.status = "live" /\ copy[g].dup.status = "live"
    BY <1>0, <1>7, <2>1 DEF MergeWrite, HeldLive, Copies
  <2>6. /\ er.res = "auto_merged" /\ er.dup = d
        /\ er.prevCanon = copy[g].canon /\ er.prevDup = copy[g].dup
    BY <2>1, <2>5, SettledEdge
  <2>7. rc.status = "live" /\ (Tombstones(mode[g]) \/ rd.status = "live")
    BY <2>1, <2>5, MergedRows
  <2>8. undo' = [Touched({c, d}) EXCEPT ![e] = un]
    BY <2>2, <2>3
  <2>9. gone \subseteq {c, d}
    OBVIOUS
  <2> HIDE DEF e, rc, rd, er, late
  <2>10. Exact'
    <3>1. un.canon = er.prevCanon /\ un.dup = er.prevDup
      BY <2>4, <2>6
    <3> HIDE DEF un, c, d
    <3>2. undo'[e] = un /\ edge'[e] = er
      BY <1>0, <2>1, <2>2, <2>8, TouchedTyped DEF TypeInv, StoredOK
    <3>3. ASSUME NEW x \in Similar, x # e, undo'[x].known
          PROVE  undo'[x] = undo[x] /\ edge'[x] = edge[x]
      BY <1>0, <2>1, <2>2, <2>8, <3>3, TouchedTyped, TouchedExact DEF TypeInv, StoredOK
    <3> QED
      BY <2>4, <3>1, <3>2, <3>3 DEF Exact
  <2>11. Decided'
    BY <1>0, <2>1, <2>2, <2>4, <2>6 DEF Decided, StoredOK
  <2>12. Spared'
    BY <1>0, <2>2, <2>4, OnwardSpares
  <2>13. Reversible'
    <3>1. edge[e].res # "auto_merged"
      BY <2>4 DEF Closed
    <3>2. \A x \in Atoms : Saved(x) => Saved(x)'
      BY <1>0, <2>1, <2>2, <3>1 DEF Saved, StoredOK
    <3> HIDE DEF c, d, gone
    <3>3. \A x \in Atoms : x = d => Saved(x)'
      BY <1>0, <2>1, <2>2, <2>5, <2>6 DEF Saved, StoredOK
    <3>4. \A x \in Atoms : x = c => Live(x)'
      BY <1>0, <2>1, <2>2, <2>7 DEF Live, StoredOK
    <3>5. \A x \in Atoms \ {c, d} : (Live(x) => Live(x)') /\ (x \in forgotten => x \in forgotten')
      BY <1>0, <2>1, <2>2, <2>9 DEF Live, StoredOK
    <3> QED
      BY <2>4, <3>2, <3>3, <3>4, <3>5 DEF Reversible
  <2> QED
    BY <2>10, <2>11, <2>12, <2>13
<1>8. ASSUME NEW g \in Governors, Abandon(g)
      PROVE  Exact' /\ Decided' /\ Spared' /\ Reversible'
  <2>1. Spared
    BY <1>0, <1>8 DEF FreshInv, Abandon
  <2> QED
    BY <1>0, <1>8, <2>1, QuietFresh, OnwardSpares DEF Abandon
<1>9. ASSUME NEW u \in Users, NEW e \in Similar, RollbackRead(u, e)
      PROVE  Exact' /\ Decided' /\ Spared' /\ Reversible'
  <2>1. Spared
    BY <1>0, <1>9 DEF FreshInv, RollbackRead
  <2>2. Spared'
    BY <1>0, <1>9, <2>1, SemanticMergeAssumption DEF RollbackRead, GoTo, LocalsOK, Spared
  <2> QED
    BY <1>0, <1>9, <2>2, QuietFresh DEF RollbackRead
<1>10. ASSUME NEW u \in Users, RollbackWrite(u)
       PROVE  Exact' /\ Decided' /\ Spared' /\ Reversible'
  <2> DEFINE e == target[u]
             c == plan[u][1]
             d == plan[u][2]
             rc == copy[u].edge.prevCanon
             rd == copy[u].edge.prevDup
             er == [copy[u].edge EXCEPT !.res = "rolled_back"]
  <2>1. /\ e \in Similar /\ c \in Atoms /\ d \in Atoms /\ copy[u].edge \in EdgeRow
        /\ copy[u].edge.canon = c /\ copy[u].edge.dup = d
    BY <1>0, <1>10 DEF RollbackWrite, PlaceOK, LocalsOK, Copies
  <2>2. /\ row' = [row EXCEPT ![c] = rc, ![d] = rd]
        /\ edge' = [edge EXCEPT ![e] = er]
        /\ undo' = [Touched({c, d}) EXCEPT ![e] = NoUndo]
        /\ verdict' = [verdict EXCEPT ![e] = "rolled_back"]
        /\ stale' = IF Outdated(u, c, d) /\ stale = "no" THEN "merge" ELSE stale
        /\ forgotten' = forgotten \ {c, d}
        /\ Leave(u)
        /\ UNCHANGED barred
    BY <1>10 DEF RollbackWrite
  <2>3. ~Outdated(u, c, d) /\ stale = "no"
    BY <2>2, Zenon
  <2>4. /\ copy[u].edge = edge[e] /\ Exact /\ Decided /\ Spared /\ Reversible
    BY <1>0, <2>3 DEF Outdated, FreshInv
  <2>5. rc.status = "live" /\ rd.status = "live"
    BY <1>0, <2>1, AtomsAreNumbers DEF CopiedKeep, Keeps
  <2>6. er.res = "rolled_back"
    BY <2>1 DEF EdgeRow
  <2>7. edge[e].dup = d
    BY <2>1, <2>4
  <2> HIDE DEF e, c, d, rc, rd, er
  <2>8. Exact'
    <3>1. ~undo'[e].known
      BY <1>0, <2>1, <2>2, TouchedTyped DEF TypeInv, NoUndo
    <3>2. ASSUME NEW x \in Similar, x # e, undo'[x].known
          PROVE  undo'[x] = undo[x] /\ edge'[x] = edge[x]
      BY <1>0, <2>1, <2>2, <3>2, TouchedTyped, TouchedExact DEF TypeInv, StoredOK
    <3> QED
      BY <2>4, <3>1, <3>2 DEF Exact
  <2>9. Decided'
    BY <1>0, <2>1, <2>2, <2>4, <2>6 DEF Decided, StoredOK
  <2>10. Spared'
    <3>1. \A x \in Similar : verdict[x] # "none" => verdict'[x] # "none"
      BY <1>0, <2>1, <2>2 DEF StoredOK
    <3>2. \A g \in Governors : barred[g] \subseteq Similar
      BY <1>0 DEF LocalsOK
    <3>3. \A g \in Governors : \A x \in barred'[g] : x \in barred[g] /\ verdict'[x] # "none"
      BY <2>2, <2>4, <3>1, <3>2 DEF Spared
    <3> QED
      BY <1>0, <2>2, <2>4, <3>3, LeaveOthers, UserSpares
  <2>11. Reversible'
    <3>1. \A x \in Atoms \ {d} : Saved(x) => Saved(x)'
      BY <1>0, <2>1, <2>2, <2>7 DEF Saved, StoredOK
    <3>2. \A x \in Atoms \cap {c, d} : Live(x)'
      BY <1>0, <2>1, <2>2, <2>5 DEF Live, StoredOK
    <3>3. \A x \in Atoms \ {c, d} : (Live(x) => Live(x)') /\ (x \in forgotten => x \in forgotten')
      BY <1>0, <2>1, <2>2 DEF Live, StoredOK
    <3> QED
      BY <2>4, <3>1, <3>2, <3>3 DEF Reversible
  <2> QED
    BY <2>8, <2>9, <2>10, <2>11
<1>11. ASSUME NEW u \in Users, NEW e \in Similar, EdgeReviewRead(u, e)
       PROVE  Exact' /\ Decided' /\ Spared' /\ Reversible'
  <2>1. Spared
    BY <1>0, <1>11 DEF FreshInv, EdgeReviewRead
  <2>2. Spared'
    BY <1>0, <1>11, <2>1, SemanticMergeAssumption DEF EdgeReviewRead, GoTo, LocalsOK, Spared
  <2> QED
    BY <1>0, <1>11, <2>2, QuietFresh DEF EdgeReviewRead
<1>12. ASSUME NEW u \in Users, NEW v \in {"open", "rejected"}, EdgeReviewWrite(u, v)
       PROVE  Exact' /\ Decided' /\ Spared' /\ Reversible'
  <2> DEFINE e  == target[u]
             er == [copy[u].edge EXCEPT !.review = v]
             ve == IF verdict[e] = "rolled_back" THEN verdict[e]
                   ELSE IF v = "rejected" THEN "rejected" ELSE "none"
  <2>1. e \in Similar /\ copy[u].edge \in EdgeRow
    BY <1>0, <1>12 DEF EdgeReviewWrite, PlaceOK, LocalsOK, Copies
  <2>2. /\ edge' = [edge EXCEPT ![e] = er]
        /\ verdict' = [verdict EXCEPT ![e] = ve]
        /\ stale' = IF copy[u].edge # edge[e] /\ stale = "no" THEN "merge" ELSE stale
        /\ barred' = [g \in Governors |-> IF verdict'[e] = "none" THEN barred[g] \ {e}
                                          ELSE barred[g]]
        /\ Leave(u)
        /\ UNCHANGED <<row, undo, forgotten>>
    BY <1>12 DEF EdgeReviewWrite
  <2>3. copy[u].edge = edge[e] /\ stale = "no" /\ Exact /\ Decided /\ Spared /\ Reversible
    BY <1>0, <2>2 DEF FreshInv
  <2>4. /\ er.res = edge[e].res /\ er.dup = edge[e].dup /\ er.review = v
        /\ er.prevCanon = edge[e].prevCanon /\ er.prevDup = edge[e].prevDup
    BY <2>1, <2>3, ColumnsKept
  <2>5. /\ ve = "rejected" => v = "rejected"
        /\ ve = "rolled_back" => verdict[e] = "rolled_back"
    OBVIOUS
  <2> HIDE DEF e, er, ve
  <2>6. \A x \in Similar :
          /\ edge'[x].res = edge[x].res /\ edge'[x].dup = edge[x].dup
          /\ edge'[x].prevCanon = edge[x].prevCanon /\ edge'[x].prevDup = edge[x].prevDup
    BY <1>0, <2>1, <2>2, <2>4 DEF StoredOK
  <2>7. Exact' /\ Reversible'
    BY <2>2, <2>3, <2>6 DEF Exact, Reversible, Live, Saved
  <2>8. Decided'
    <3>1. verdict'[e] = ve /\ edge'[e] = er
      BY <1>0, <2>1, <2>2 DEF StoredOK
    <3>2. \A x \in Similar \ {e} : verdict'[x] = verdict[x] /\ edge'[x] = edge[x]
      BY <1>0, <2>1, <2>2 DEF StoredOK
    <3> QED
      BY <2>1, <2>3, <2>4, <2>5, <3>1, <3>2 DEF Decided
  <2>9. Spared'
    <3>1. \A x \in Similar \ {e} : verdict'[x] = verdict[x]
      BY <1>0, <2>1, <2>2 DEF StoredOK
    <3>2. \A g \in Governors : barred[g] \subseteq Similar
      BY <1>0 DEF LocalsOK
    <3>3. \A g \in Governors : \A x \in barred'[g] : x \in barred[g] /\ verdict'[x] # "none"
      BY <2>2, <2>3, <3>1, <3>2 DEF Spared
    <3> QED
      BY <1>0, <2>2, <2>3, <3>3, LeaveOthers, UserSpares
  <2> QED
    BY <2>7, <2>8, <2>9
<1>13. ASSUME NEW u \in Users, NEW a \in Atoms, AtomReviewRead(u, a)
       PROVE  Exact' /\ Decided' /\ Spared' /\ Reversible'
  <2>1. Spared
    BY <1>0, <1>13 DEF FreshInv, AtomReviewRead
  <2>2. Spared'
    BY <1>0, <1>13, <2>1, SemanticMergeAssumption DEF AtomReviewRead, GoTo, LocalsOK, Spared
  <2> QED
    BY <1>0, <1>13, <2>2, QuietFresh DEF AtomReviewRead
<1>14. ASSUME NEW u \in Users, NEW v \in Reviews, AtomReviewWrite(u, v)
       PROVE  Exact' /\ Decided' /\ Spared' /\ Reversible'
  <2> DEFINE a == target[u][2]
             r == [copy[u].dup EXCEPT !.review = v]
  <2>1. a \in Atoms /\ copy[u].dup \in Row
    BY <1>0, <1>14 DEF AtomReviewWrite, PlaceOK, LocalsOK, Copies
  <2>2. /\ row' = [row EXCEPT ![a] = r]
        /\ undo' = undo \/ undo' = Touched({a})
        /\ stale' = IF copy[u].dup # row[a] THEN "review" ELSE stale
        /\ forgotten' = IF copy[u].dup.status = "live" THEN forgotten \ {a} ELSE forgotten
        /\ Leave(u)
        /\ UNCHANGED <<edge, verdict, barred>>
    BY <1>14 DEF AtomReviewWrite
  <2>3. copy[u].dup = row[a] /\ stale = "no" /\ Exact /\ Decided /\ Spared /\ Reversible
    BY <1>0, <2>2 DEF FreshInv
  <2>4. r.status = row[a].status
    BY <2>1, <2>3 DEF Row
  <2> HIDE DEF a, r
  <2>5. \A x \in Atoms : row'[x].status = row[x].status
    BY <1>0, <2>1, <2>2, <2>4 DEF StoredOK
  <2>6. Reversible'
    BY <2>1, <2>2, <2>3, <2>5 DEF Reversible, Live, Saved
  <2>7. Exact'
    BY <2>2, <2>3, TouchedExact DEF Exact
  <2>8. Decided'
    BY <2>2, <2>3 DEF Decided
  <2>9. Spared'
    BY <1>0, <2>2, <2>3, LeaveOthers DEF Spared
  <2> QED
    BY <2>6, <2>7, <2>8, <2>9
<1>15. ASSUME NEW u \in Users, NEW a \in Atoms, Forget(u, a)
       PROVE  Exact' /\ Decided' /\ Spared' /\ Reversible'
  <2>1. Exact /\ Decided /\ Spared /\ Reversible
    BY <1>0, <1>15 DEF FreshInv, Forget
  <2>2. Exact'
    <3>1. edge' = edge /\ (undo' = undo \/ undo' = Touched({a}))
      BY <1>15 DEF Forget
    <3> QED
      BY <2>1, <3>1, TouchedExact DEF Exact
  <2>3. Decided' /\ Spared'
    BY <1>15, <2>1 DEF Forget, locals, Decided, Spared
  <2>4. \A x \in Atoms \ {a} : Live(x) => Live(x)'
    BY <1>0, <1>15 DEF Forget, Live, StoredOK
  <2>5. Reversible'
    BY <1>15, <2>1, <2>4 DEF Forget, Reversible, Saved
  <2> QED
    BY <2>2, <2>3, <2>5
<1>16. CASE UNCHANGED vars
  <2>1. Spared
    BY <1>0, <1>16 DEF FreshInv, vars, history
  <2> QED
    BY <1>0, <1>16, <2>1, QuietFresh DEF vars, locals, history, Spared
<1> QED
  BY <1>1, <1>2, <1>3, <1>4, <1>5, <1>6, <1>7, <1>8, <1>9, <1>10, <1>11, <1>12, <1>13, <1>14,
     <1>15, <1>16 DEF Next, Governor, User

-----------------------------------------------------------------------------
(* Every atom leads to a live or a forgotten one *)

\* The atom that supersedes a, or a itself.
Up(a) == IF row[a].sup = None THEN a ELSE row[a].sup

\* None of these atoms is left, and no user wanted that.
Lost(S) == \A a \in S : ~Live(a) /\ a \notin forgotten

\* Lost atoms never lead to each other only: this is what a merge that tombstoned its own
\* canonical atom, or two that crossed, would violate.  It says of all sets of atoms what
\* MergedIsRepresented says of the way up from one, so that a step can be looked at
\* without following the ways it changes.
Leads == \A S \in SUBSET Atoms : S # {} /\ Lost(S) => \E a \in S : Up(a) \notin S

LeadInv == stale # "review" => Leads

\* A step keeps that, if every atom that is lost after it was so before and led where it
\* leads now, or leads to a live atom.
LEMMA LeadsKept ==
  ASSUME Leads,
         \A a \in Atoms : ~Live(a)' /\ a \notin forgotten' =>
           \/ ~Live(a) /\ a \notin forgotten /\ row'[a].sup = row[a].sup
           \/ row'[a].sup # None /\ Live(row[a].sup)'
  PROVE  Leads'
<1> SUFFICES ASSUME NEW S \in SUBSET Atoms, S # {},
                    \A a \in S : ~Live(a)' /\ a \notin forgotten'
             PROVE  \E a \in S : ~(Up(a)' \in S)
  BY DEF Leads, Lost
<1>1. CASE \E a \in S : row'[a].sup # None /\ Live(row[a].sup)'
  <2>1. PICK a \in S : row'[a].sup # None /\ Live(row[a].sup)'
    BY <1>1
  <2>2. Up(a)' = row'[a].sup
    BY <2>1 DEF Up
  <2>3. row'[a].sup \notin S
    BY <2>1 DEF Live
  <2> QED
    BY <2>2, <2>3
<1>2. CASE \A a \in S : ~Live(a) /\ a \notin forgotten /\ row'[a].sup = row[a].sup
  <2>1. PICK a \in S : Up(a) \notin S
    BY <1>2 DEF Leads, Lost
  <2>2. Up(a)' = Up(a)
    BY <1>2 DEF Up
  <2> QED
    BY <2>1, <2>2
<1> QED
  BY <1>1, <1>2

\* Initially every atom is alive.
LEMMA LeadInit == Init => LeadInv
  BY DEF Init, NewRow, LeadInv, Leads, Lost, Live

\* No step leaves lost atoms to each other, unless a review brings an outdated row back.
LEMMA LeadNext == TypeInv /\ KeepInv /\ LeadInv /\ [Next]_vars => LeadInv'
<1> SUFFICES ASSUME TypeInv, KeepInv, LeadInv, [Next]_vars, stale' # "review" PROVE Leads'
  BY DEF LeadInv
<1>0. StoredOK /\ LocalsOK /\ PlaceOK /\ CopiedKeep /\ HeldLive
  BY TypeOKParts DEF TypeInv, KeepInv
<1>1. CASE row' = row /\ forgotten' = forgotten /\ stale # "review"
  BY <1>1 DEF LeadInv, Leads, Lost, Live, Up
<1>2. ASSUME NEW g \in Governors, MergeWrite(g)
      PROVE  Leads'
  <2> DEFINE c == plan[g][1]
             d == plan[g][2]
  <2>1. /\ c \in Atoms /\ d \in Atoms /\ c # d /\ c # None
        /\ copy[g].canon \in Row /\ copy[g].dup \in Row
        /\ copy[g].canon.status = "live" /\ copy[g].dup.status = "live"
    BY <1>0, <1>2, AtomsAreNumbers DEF MergeWrite, PlaceOK, LocalsOK, HeldLive, Copies
  <2>2. /\ row' = [row EXCEPT ![c] = Enriched(copy[g].canon, d),
                              ![d] = Superseded(copy[g].dup, c, mode[g])]
        /\ forgotten' = forgotten \ IF Tombstones(mode[g]) THEN {c} ELSE {c, d}
        /\ stale' = IF (Outdated(g, c, d) \/ Closed(edge[target[g]])) /\ stale = "no"
                    THEN "merge" ELSE stale
    BY <1>2 DEF MergeWrite
  <2>3. /\ Enriched(copy[g].canon, d).status = "live"
        /\ Superseded(copy[g].dup, c, mode[g]).sup = c
    <3>1. Superseded(copy[g].dup, c, mode[g]).sup = c
      BY <2>1 DEF Superseded, Row
    <3> QED
      BY <2>1, <3>1, MergedRows
  <2>4. Leads
    BY <2>2 DEF LeadInv
  <2> HIDE DEF c, d
  <2>5. /\ row'[c].status = "live" /\ row'[d].sup = c
        /\ \A a \in Atoms \ {c, d} : row'[a] = row[a]
    BY <1>0, <2>1, <2>2, <2>3 DEF StoredOK
  <2>6. \A a \in Atoms \ {c, d} : a \notin forgotten' => a \notin forgotten
    BY <2>2
  <2> QED
    BY <2>1, <2>4, <2>5, <2>6, LeadsKept DEF Live
<1>3. ASSUME NEW u \in Users, RollbackWrite(u)
      PROVE  Leads'
  <2> DEFINE c == plan[u][1]
             d == plan[u][2]
  <2>1. c \in Atoms /\ d \in Atoms /\ c = copy[u].edge.canon /\ d = copy[u].edge.dup
    BY <1>0, <1>3 DEF RollbackWrite, PlaceOK
  <2>2. Keeps(copy[u].edge)
    BY <1>0 DEF CopiedKeep
  <2>3. /\ copy[u].edge.prevCanon.status = "live" /\ copy[u].edge.prevDup.status = "live"
        /\ c # d
    BY <2>1, <2>2, AtomsAreNumbers DEF Keeps
  <2>4. /\ row' = [row EXCEPT ![c] = copy[u].edge.prevCanon, ![d] = copy[u].edge.prevDup]
        /\ stale' = (IF Outdated(u, c, d) /\ stale = "no" THEN "merge" ELSE stale)
        /\ forgotten' = forgotten \ {c, d}
    BY <1>3 DEF RollbackWrite
  <2>5. Leads
    BY <2>4 DEF LeadInv
  <2> HIDE DEF c, d
  <2>6. /\ row'[c].status = "live" /\ row'[d].status = "live"
        /\ \A a \in Atoms \ {c, d} : row'[a] = row[a]
    BY <1>0, <2>1, <2>3, <2>4 DEF StoredOK
  <2> QED
    BY <2>4, <2>5, <2>6, LeadsKept DEF Live
<1>4. ASSUME NEW u \in Users, NEW review \in Reviews, AtomReviewWrite(u, review)
      PROVE  Leads'
  <2> DEFINE a == target[u][2]
  <2>1. a \in Atoms
    BY <1>0, <1>4 DEF AtomReviewWrite, PlaceOK
  <2>2. /\ row' = [row EXCEPT ![a] = [copy[u].dup EXCEPT !.review = review]]
        /\ copy[u].dup = row[a] /\ stale' = stale
        /\ forgotten' = IF copy[u].dup.status = "live" THEN forgotten \ {a} ELSE forgotten
    BY <1>4 DEF AtomReviewWrite
  <2>3. Leads
    BY <2>2 DEF LeadInv
  <2> HIDE DEF a
  <2>4. /\ row'[a].status = row[a].status /\ row'[a].sup = row[a].sup
        /\ \A b \in Atoms \ {a} : row'[b] = row[b]
    BY <1>0, <2>1, <2>2 DEF StoredOK, Row
  <2> QED
    BY <2>2, <2>3, <2>4, LeadsKept DEF Live
<1>5. ASSUME NEW u \in Users, NEW a \in Atoms, Forget(u, a)
      PROVE  Leads'
  <2>1. \A b \in Atoms \ {a} : row'[b] = row[b]
    BY <1>0, <1>5 DEF Forget, StoredOK
  <2>2. a \in forgotten' /\ forgotten \subseteq forgotten' /\ stale' = stale
    BY <1>5 DEF Forget
  <2>3. Leads
    BY <2>2 DEF LeadInv
  <2> QED
    BY <2>1, <2>2, <2>3, LeadsKept DEF Live
<1>6. stale # "review" \/ \E u \in Users, review \in Reviews : AtomReviewWrite(u, review)
  BY DEF Next, Governor, User, BeginRun, Mark, Judge, Resolve, MergeRead, MergeRefuse, MergeWrite,
     Abandon, RollbackRead, RollbackWrite, EdgeReviewRead, EdgeReviewWrite, AtomReviewRead,
     Forget, vars, history
<1> QED
  BY <1>1, <1>2, <1>3, <1>4, <1>5, <1>6
  DEF Next, Governor, User, BeginRun, Mark, Judge, Resolve, MergeRead, MergeRefuse, Abandon,
      RollbackRead, EdgeReviewRead, EdgeReviewWrite, AtomReviewRead, vars, history

-----------------------------------------------------------------------------
(* Following the ways up *)

\* Every set of numbers has a least one: the library's theorem on minimal elements, for
\* the order of the natural numbers.
LEMMA LeastNatural ==
  ASSUME NEW T \in SUBSET Nat, T # {}
  PROVE  \E x \in T : \A y \in T : x <= y
<1> DEFINE R == OpToRel(<, Nat)
<1>1. IsWellFoundedOn(R, Nat)
  BY NatLessThanWellFounded
<1> HIDE DEF R
<1>2. PICK x \in T : \A y \in T : ~(<<y, x>> \in R)
  BY <1>1, WFMin
<1>3. \A y \in T : ~(y < x)
  BY <1>2 DEF R, OpToRel
<1> QED
  BY <1>3

\* Induction, for the set of numbers of which something holds.
LEMMA SetInduction ==
  ASSUME NEW T \in SUBSET Nat, 0 \in T, \A n \in T : n + 1 \in T
  PROVE  T = Nat
<1> SUFFICES ASSUME Nat \ T # {} PROVE FALSE
  OBVIOUS
<1>1. PICK x \in Nat \ T : \A y \in Nat \ T : x <= y
  BY LeastNatural
<1>2. x # 0 /\ x - 1 \in Nat
  BY <1>1
<1>3. x - 1 \in T
  BY <1>1, <1>2
<1> QED
  BY <1>1, <1>3

\* The way from a, one step of a function after the other.
IsWay(f, next, a, n) == f[0] = a /\ \A k \in 1..n : f[k] = next[f[k - 1]]

\* It exists for every number of steps.
LEMMA WayExists ==
  ASSUME NEW S, NEW next \in [S -> S], NEW a \in S, NEW n \in Nat
  PROVE  \E f \in [0..n -> S] : IsWay(f, next, a, n)
<1> USE DEF IsWay
<1> DEFINE T == {m \in Nat : \E f \in [0..m -> S] : IsWay(f, next, a, m)}
<1>1. 0 \in T
  <2>1. [k \in 0..0 |-> a] \in [0..0 -> S] /\ IsWay([k \in 0..0 |-> a], next, a, 0)
    OBVIOUS
  <2> QED
    BY <2>1
<1>2. ASSUME NEW m \in T
      PROVE  m + 1 \in T
  <2>1. PICK f \in [0..m -> S] : IsWay(f, next, a, m)
    OBVIOUS
  <2> DEFINE g == [k \in 0..(m + 1) |-> IF k = m + 1 THEN next[f[m]] ELSE f[k]]
  <2>2. m \in Nat /\ m \in 0..m
    OBVIOUS
  <2>3. g \in [0..(m + 1) -> S]
    BY <2>2
  <2>4. \A k \in 0..m : g[k] = f[k]
    BY <2>2
  <2>5. g[m + 1] = next[f[m]]
    BY <2>2
  <2> HIDE DEF g
  <2>6. IsWay(g, next, a, m + 1)
    <3>1. g[0] = a
      BY <2>1, <2>2, <2>4
    <3>2. ASSUME NEW k \in 1..(m + 1)
          PROVE  g[k] = next[g[k - 1]]
      <4>1. CASE k = m + 1
        BY <2>2, <2>4, <2>5, <4>1
      <4>2. CASE k # m + 1
        <5>1. k \in 1..m /\ k \in 0..m /\ k - 1 \in 0..m
          BY <2>2, <4>2
        <5> QED
          BY <2>1, <2>4, <5>1
      <4> QED
        BY <4>1, <4>2
    <3> QED
      BY <3>1, <3>2
  <2> QED
    BY <2>2, <2>3, <2>6
<1>3. T = Nat
  <2> HIDE DEF T
  <2>1. T \in SUBSET Nat
    BY DEF T
  <2> QED
    BY <1>1, <1>2, <2>1, SetInduction
<1> QED
  BY <1>3

\* More steps than atoms: two of them meet.
LEMMA Crowded ==
  ASSUME NEW n \in Nat, NEW f \in [0..n -> 1..n]
  PROVE  \E m, k \in 0..n : m # k /\ f[m] = f[k]
<1> DEFINE S == 0..n
           T == 1..n
<1>1. IsFiniteSet(S) /\ Cardinality(S) = n + 1 /\ IsFiniteSet(T) /\ Cardinality(T) = n
  BY FS_Interval
<1>2. f \in [S -> T] /\ Cardinality(T) < Cardinality(S)
  BY <1>1
<1> HIDE DEF S, T
<1>3. \E m, k \in S : m # k /\ f[m] = f[k]
  BY <1>1, <1>2, FS_PigeonHole
<1> QED
  BY <1>3 DEF S

\* The way up from an atom exists.
LEMMA WayUp ==
  ASSUME StoredOK, NEW a \in Atoms
  PROVE  /\ \A b \in Atoms : Up(b) \in Atoms
         /\ \E f \in [0..N -> Atoms] : f[0] = a /\ \A k \in 1..N : f[k] = Up(f[k - 1])
<1>1. N \in Nat
  BY SemanticMergeAssumption
<1>2. \A b \in Atoms : Up(b) \in Atoms
  BY <1>1 DEF StoredOK, Row, Up, Atoms
<1> DEFINE next == [b \in Atoms |-> Up(b)]
<1>3. next \in [Atoms -> Atoms] /\ \A b \in Atoms : next[b] = Up(b)
  BY <1>2
<1> HIDE DEF next
<1>4. PICK f \in [0..N -> Atoms] : IsWay(f, next, a, N)
  BY <1>1, <1>3, WayExists
<1>5. f[0] = a /\ \A k \in 1..N : f[k] = Up(f[k - 1])
  BY <1>1, <1>3, <1>4 DEF IsWay
<1> QED
  BY <1>2, <1>5

\* A way up from an atom meets a live or a forgotten one: on a way of lost atoms every
\* step would lead to an atom it has not met, and there are only N of them.
LEMMA WayIsGood ==
  ASSUME StoredOK, Leads, NEW f \in [0..N -> Atoms], \A k \in 1..N : f[k] = Up(f[k - 1])
  PROVE  \E n \in 0..N : Live(f[n]) \/ f[n] \in forgotten
<1> SUFFICES ASSUME \A n \in 0..N : ~Live(f[n]) /\ f[n] \notin forgotten PROVE FALSE
  OBVIOUS
<1>1. N \in Nat
  BY SemanticMergeAssumption
<1>2. ASSUME NEW m \in 0..N, NEW k \in 0..N, m < k
      PROVE  f[m] # f[k]
  <2> DEFINE S == {f[i] : i \in 0..(k - 1)}
  <2>1. S \in SUBSET Atoms /\ S # {} /\ Lost(S)
    BY <1>1, <1>2 DEF Lost
  <2> HIDE DEF S
  <2>2. PICK b \in S : Up(b) \notin S
    BY <2>1 DEF Leads
  <2>3. PICK i \in 0..(k - 1) : b = f[i]
    BY DEF S
  <2>4. i + 1 \in 1..N /\ f[i + 1] = Up(b)
    BY <1>1, <2>3
  <2>5. i + 1 = k
    BY <1>1, <2>2, <2>4 DEF S
  <2>6. f[m] \in S
    BY <1>1, <1>2 DEF S
  <2> QED
    BY <2>2, <2>4, <2>5, <2>6
<1>3. \A m, k \in 0..N : m # k => f[m] # f[k]
  BY <1>1, <1>2
<1> QED
  BY <1>1, <1>3, Crowded DEF Atoms

\* So every atom is represented.
LEMMA LeadsRepresents == TypeInv /\ LeadInv => MergedIsRepresented
<1> SUFFICES ASSUME TypeInv, LeadInv, stale # "review", NEW a \in Atoms
             PROVE  LET up[n \in 0..N] ==
                          IF n = 0 THEN a
                          ELSE IF row[up[n - 1]].sup = None THEN up[n - 1] ELSE row[up[n - 1]].sup
                    IN  \E n \in 0..N : Live(up[n]) \/ up[n] \in forgotten
  BY DEF MergedIsRepresented
<1> DEFINE up[n \in 0..N] ==
             IF n = 0 THEN a
             ELSE IF row[up[n - 1]].sup = None THEN up[n - 1] ELSE row[up[n - 1]].sup
<1>1. StoredOK /\ Leads /\ N \in Nat
  BY TypeOKParts, SemanticMergeAssumption DEF TypeInv, LeadInv
<1>2. PICK f \in [0..N -> Atoms] : f[0] = a /\ \A k \in 1..N : f[k] = Up(f[k - 1])
  BY <1>1, WayUp
<1>3. \A b \in Atoms : Up(b) \in Atoms
  BY <1>1, WayUp
<1>4. f = [n \in 0..N |-> IF n = 0 THEN a
                          ELSE IF row[f[n - 1]].sup = None THEN f[n - 1] ELSE row[f[n - 1]].sup]
  BY <1>1, <1>2 DEF Up
<1>5. up = [n \in 0..N |-> IF n = 0 THEN a
                           ELSE IF row[up[n - 1]].sup = None THEN up[n - 1] ELSE row[up[n - 1]].sup]
  BY <1>4
<1> HIDE DEF up
<1>6. up[0] = a /\ \A k \in 1..N : up[k] = Up(up[k - 1])
  BY <1>1, <1>5 DEF Up
<1>7. up \in [0..N -> Atoms]
  <2> DEFINE T == {n \in Nat : n \in 0..N => up[n] \in Atoms}
  <2>1. 0 \in T
    BY <1>6
  <2>2. \A n \in T : n + 1 \in T
    BY <1>1, <1>3, <1>6
  <2> HIDE DEF T
  <2>3. T \in SUBSET Nat
    BY DEF T
  <2>4. T = Nat
    BY <2>1, <2>2, <2>3, SetInduction
  <2>5. \A n \in 0..N : up[n] \in Atoms
    BY <1>1, <2>4 DEF T
  <2> QED
    BY <1>5, <2>5
<1>8. \E n \in 0..N : Live(up[n]) \/ up[n] \in forgotten
  BY <1>1, <1>6, <1>7, WayIsGood
<1> QED
  BY <1>8 DEF up

\* The root of an atom is an atom; another than the atom itself is alive.  Of N + 1 steps
\* up two meet, so _root_memory returns.
RootsStand == \A a \in Atoms : Root(a) \in Atoms /\ (Live(Root(a)) \/ Root(a) = a)

\* So it is whatever the rows name: the atoms met on the way up are the first or alive, and
\* _root_memory stops at one of them.
LEMMA RootIsAtom ==
  ASSUME StoredOK, NEW a \in Atoms
  PROVE  Root(a) \in Atoms /\ (Live(Root(a)) \/ Root(a) = a)
<1> DEFINE up[n \in 0..(N + 1)] == IF n = 0 THEN a ELSE Parent(up[n - 1])
           again(n) == \E m \in 0..(n - 1) : up[m] = up[n]
           First(n) == again(n) /\ \A m \in 1..(n - 1) : ~again(m)
<1>1. N \in Nat
  BY SemanticMergeAssumption
<1>2. \A b \in Atoms : Parent(b) \in Atoms /\ (Live(Parent(b)) \/ Parent(b) = b)
  BY <1>1 DEF StoredOK, Row, Parent, Atoms
<1> DEFINE next == [b \in Atoms |-> Parent(b)]
<1>3. next \in [Atoms -> Atoms] /\ \A b \in Atoms : next[b] = Parent(b)
  BY <1>2
<1> HIDE DEF next
<1>4. PICK f \in [0..(N + 1) -> Atoms] : IsWay(f, next, a, N + 1)
  BY <1>1, <1>3, WayExists
<1>5. f = [n \in 0..(N + 1) |-> IF n = 0 THEN a ELSE Parent(f[n - 1])]
  BY <1>1, <1>3, <1>4 DEF IsWay
<1>6. up = [n \in 0..(N + 1) |-> IF n = 0 THEN a ELSE Parent(up[n - 1])]
  BY <1>5
<1> HIDE DEF up
<1>7. up[0] = a /\ \A k \in 1..(N + 1) : up[k] = Parent(up[k - 1])
  BY <1>1, <1>6
<1>8. \A n \in 0..(N + 1) : up[n] \in Atoms /\ (Live(up[n]) \/ up[n] = a)
  <2> DEFINE T == {n \in Nat : n \in 0..(N + 1) => up[n] \in Atoms /\ (Live(up[n]) \/ up[n] = a)}
  <2>1. 0 \in T
    BY <1>7
  <2>2. ASSUME NEW n \in T
        PROVE  n + 1 \in T
    <3> SUFFICES ASSUME n + 1 \in 0..(N + 1)
                 PROVE  up[n + 1] \in Atoms /\ (Live(up[n + 1]) \/ up[n + 1] = a)
      OBVIOUS
    <3>1. n \in 0..(N + 1) /\ n + 1 \in 1..(N + 1) /\ (n + 1) - 1 = n
      BY <1>1
    <3>2. up[n] \in Atoms /\ (Live(up[n]) \/ up[n] = a)
      BY <3>1
    <3>3. up[n + 1] = Parent(up[n])
      BY <1>7, <3>1
    <3> QED
      BY <1>2, <3>2, <3>3
  <2> HIDE DEF T
  <2>3. T \in SUBSET Nat
    BY DEF T
  <2>4. T = Nat
    BY <2>1, <2>2, <2>3, SetInduction
  <2> QED
    BY <1>1, <2>4 DEF T
<1>9. \E n \in 1..(N + 1) : again(n)
  <2> DEFINE g == [n \in 0..N |-> up[n]]
  <2>1. g \in [0..N -> 1..N]
    BY <1>1, <1>8 DEF Atoms
  <2>2. \A n \in 0..N : g[n] = up[n]
    OBVIOUS
  <2> HIDE DEF g
  <2>3. PICK m, k \in 0..N : m # k /\ g[m] = g[k]
    BY <1>1, <2>1, Crowded
  <2>4. up[m] = up[k]
    BY <2>2, <2>3
  <2>5. CASE m < k
    <3>1. m \in 0..(k - 1) /\ k \in 1..(N + 1)
      BY <1>1, <2>5
    <3> QED
      BY <2>4, <3>1
  <2>6. CASE k < m
    <3>1. k \in 0..(m - 1) /\ m \in 1..(N + 1)
      BY <1>1, <2>6
    <3> QED
      BY <2>4, <3>1
  <2> QED
    BY <1>1, <2>3, <2>5, <2>6
<1>10. \E n \in 1..(N + 1) : First(n)
  <2> DEFINE T == {n \in 1..(N + 1) : again(n)}
  <2> HIDE DEF again
  <2>1. T \in SUBSET Nat /\ T # {}
    BY <1>1, <1>9
  <2>2. PICK x \in T : \A y \in T : x <= y
    BY <2>1, LeastNatural
  <2>3. ASSUME NEW m \in 1..(x - 1)
        PROVE  ~again(m)
    <3>1. x \in 1..(N + 1)
      OBVIOUS
    <3>2. m \in 1..(N + 1) /\ ~(x <= m)
      BY <1>1, <3>1
    <3> QED
      BY <2>2, <3>2
  <2> QED
    BY <2>2, <2>3
<1> DEFINE back == CHOOSE n \in 1..(N + 1) : First(n)
<1>11. Root(a) = up[back]
  BY DEF Root, up
<1> HIDE DEF First
<1>12. back \in 1..(N + 1)
  BY <1>10
<1> HIDE DEF back
<1>13. back \in 0..(N + 1)
  BY <1>1, <1>12
<1> QED
  BY <1>8, <1>11, <1>13

-----------------------------------------------------------------------------
(* The theorems *)

\* The inductive invariant.
LEMMA Invariance == Spec => []Inv
<1>1. Init => Inv
  BY TypeInit, KeepInit, FreshInit DEF Inv
<1>2. Inv /\ [Next]_vars => Inv'
  BY TypeNext, KeepNext, FreshNext DEF Inv
<1> QED
  BY <1>1, <1>2, PTL DEF Spec

\* Every atom that a merge has tombstoned can be brought back, however runs and users
\* overlap, as long as none of them has written from a copy that was out of date.
THEOREM MergeIsReversibleHolds == Spec => []MergeIsReversible
<1>1. Inv => MergeIsReversible
  BY DEF Inv, FreshInv, MergeIsReversible, Reversible, Saved
<1> QED
  BY <1>1, Invariance, PTL

\* A rollback restores both rows exactly, if nobody has changed them since the merge.
THEOREM UndoIsExactHolds == Spec => UndoIsExact
<1>1. ASSUME Inv, [Next]_vars, NEW u \in Users, pc[u] = "rollback", RollbackWrite(u),
             undo[target[u]].known, stale' = "no"
      PROVE  /\ row'[edge[target[u]].canon] = undo[target[u]].canon
             /\ row'[edge[target[u]].dup] = undo[target[u]].dup
  <2> DEFINE e == target[u]
             c == plan[u][1]
             d == plan[u][2]
  <2>1. /\ e \in Similar /\ c \in Atoms /\ d \in Atoms /\ row \in [Atoms -> Row]
        /\ copy[u].edge.canon = c /\ copy[u].edge.dup = d
    BY <1>1 DEF Inv, TypeInv, PlaceOK, TypeOK
  <2>2. /\ stale' = IF Outdated(u, c, d) /\ stale = "no" THEN "merge" ELSE stale
        /\ row' = [row EXCEPT ![c] = copy[u].edge.prevCanon, ![d] = copy[u].edge.prevDup]
    BY <1>1 DEF RollbackWrite
  <2>3. ~Outdated(u, c, d) /\ stale = "no"
    BY <1>1, <2>2, Zenon
  <2>4. copy[u].edge = edge[e] /\ Exact
    BY <1>1, <2>3 DEF Outdated, Inv, FreshInv
  <2>5. c # d
    BY <1>1, <2>1, AtomsAreNumbers DEF Inv, KeepInv, CopiedKeep, Keeps
  <2>6. edge[e].canon = c /\ edge[e].dup = d
    BY <2>1, <2>4
  <2>7. undo[e].canon = edge[e].prevCanon /\ undo[e].dup = edge[e].prevDup
    BY <1>1, <2>1, <2>4 DEF Exact
  <2> QED
    BY <2>1, <2>2, <2>4, <2>5, <2>6, <2>7
<1>2. Inv /\ [Next]_vars =>
        [\A u \in Users :
           LET e == target[u] IN
           pc[u] = "rollback" /\ RollbackWrite(u) /\ undo[e].known /\ stale' = "no" =>
             /\ row'[edge[e].canon] = undo[e].canon
             /\ row'[edge[e].dup] = undo[e].dup]_vars
  BY <1>1
<1> QED
  BY <1>2, Invariance, PTL DEF Spec, UndoIsExact

\* No run that began after a rollback or a rejection of a pair merges that pair.
THEOREM VerdictStandsHolds == Spec => VerdictStands
<1>1. Inv /\ [Next]_vars =>
        [\A g \in Governors :
           pc[g] = "merge" /\ MergeWrite(g) /\ stale = "no" => target[g] \notin barred[g]]_vars
  BY DEF Inv, FreshInv, Spared
<1> QED
  BY <1>1, Invariance, PTL DEF Spec, VerdictStands

\* Whatever runs, users and deaths of processes overlap, merging never makes all copies of
\* a fact disappear: from every atom the way up meets one that is alive or that a user
\* deleted, unless a review has brought an outdated row back.
THEOREM MergedIsRepresentedHolds == Spec => []MergedIsRepresented
<1>1. Inv /\ LeadInv /\ [Next]_vars => LeadInv'
  BY LeadNext DEF Inv
<1>2. Inv /\ LeadInv => MergedIsRepresented
  BY LeadsRepresents DEF Inv
<1> QED
  BY <1>1, <1>2, LeadInit, Invariance, PTL DEF Spec

\* Every atom has a root at all times, and a live atom a live one: the way up ends, even if
\* rows name each other, and leaves only for what is alive.
THEOREM EveryAtomHasARoot == Spec => []RootsStand
<1>1. TypeInv => RootsStand
  BY RootIsAtom, TypeOKParts DEF TypeInv, RootsStand
<1>2. Inv => RootsStand
  BY <1>1 DEF Inv
<1> QED
  BY <1>2, Invariance, PTL

-----------------------------------------------------------------------------
(* ContextAssembly: taking the elements of a sequence that are in a set *)

\* The sequences taken so far, after every one of the first n elements.
IsTaken(f, seq, S, n) ==
  /\ f[0] = << >>
  /\ \A k \in 1..n : f[k] = IF seq[k] \in S THEN Append(f[k - 1], seq[k]) ELSE f[k - 1]

\* part takes elements of S from the first n places of seq, in their order.
IsPart(part, seq, S, n) ==
  \E place \in [1..Len(part) -> 1..n] :
    /\ \A i \in 1..Len(part) : part[i] = seq[place[i]] /\ part[i] \in S
    /\ \A i, j \in 1..Len(part) : i < j => place[i] < place[j]

\* There is such a function, by induction on n.
LEMMA TakenExists ==
  ASSUME NEW X, NEW S, NEW seq \in Seq(X), NEW n \in 0..Len(seq)
  PROVE  \E f \in [0..n -> Seq(X)] : IsTaken(f, seq, S, n)
<1> DEFINE P(m) == \E f \in [0..m -> Seq(X)] : IsTaken(f, seq, S, m)
<1>0. Len(seq) \in Nat /\ n \in Nat
  OBVIOUS
<1>1. P(0)
  <2>1. [k \in 0..0 |-> << >>] \in [0..0 -> Seq(X)] /\ IsTaken([k \in 0..0 |-> << >>], seq, S, 0)
    BY DEF IsTaken
  <2> QED
    BY <2>1
<1>2. ASSUME NEW m \in Nat, m + 1 <= Len(seq), P(m)
      PROVE  P(m + 1)
  <2>1. PICK f \in [0..m -> Seq(X)] : IsTaken(f, seq, S, m)
    BY <1>2
  <2>2. seq[m + 1] \in X /\ f[m] \in Seq(X)
    BY <1>0, <1>2
  <2> DEFINE last == IF seq[m + 1] \in S THEN Append(f[m], seq[m + 1]) ELSE f[m]
             g == [k \in 0..(m + 1) |-> IF k = m + 1 THEN last ELSE f[k]]
  <2>3. last \in Seq(X)
    BY <2>2
  <2> HIDE DEF last
  <2>4. g \in [0..(m + 1) -> Seq(X)]
    BY <2>3
  <2>5. g[m + 1] = last /\ \A k \in 0..m : g[k] = f[k]
    OBVIOUS
  <2> HIDE DEF g
  <2>6. IsTaken(g, seq, S, m + 1)
    <3>1. g[0] = << >>
      BY <2>1, <2>5 DEF IsTaken
    <3>2. ASSUME NEW k \in 1..(m + 1)
          PROVE  g[k] = IF seq[k] \in S THEN Append(g[k - 1], seq[k]) ELSE g[k - 1]
      <4>1. CASE k = m + 1
        BY <4>1, <2>5 DEF last
      <4>2. CASE k # m + 1
        <5>1. k \in 1..m /\ g[k] = f[k] /\ g[k - 1] = f[k - 1]
          BY <4>2, <2>5
        <5> QED
          BY <5>1, <2>1 DEF IsTaken
      <4> QED
        BY <4>1, <4>2
    <3> QED
      BY <3>1, <3>2 DEF IsTaken
  <2> QED
    BY <2>4, <2>6
<1> HIDE DEF P
<1> DEFINE T == {m \in Nat : m <= Len(seq) => P(m)}
<1>3. 0 \in T /\ \A m \in T : m + 1 \in T
  BY <1>0, <1>1, <1>2
<1>4. T = Nat
  BY <1>3, SetInduction
<1>5. P(n)
  BY <1>0, <1>4
<1> QED
  BY <1>5 DEF P

\* What it has taken is a part of the sequence.
LEMMA TakenIsPart ==
  ASSUME NEW X, NEW S, NEW seq \in Seq(X), NEW n \in 0..Len(seq),
         NEW f \in [0..n -> Seq(X)], IsTaken(f, seq, S, n)
  PROVE  IsPart(f[n], seq, S, n)
<1> DEFINE P(m) == IsPart(f[m], seq, S, m)
<1>0. Len(seq) \in Nat /\ n \in Nat
  OBVIOUS
<1>1. P(0)
  <2>1. f[0] = << >> /\ [i \in 1..0 |-> i] \in [1..Len(f[0]) -> 1..0]
    BY DEF IsTaken
  <2> QED
    BY <2>1 DEF IsPart
<1>2. ASSUME NEW m \in Nat, m + 1 <= n, P(m)
      PROVE  P(m + 1)
  <2>1. /\ f[m] \in Seq(X) /\ Len(f[m]) \in Nat
        /\ m \in 0..n /\ m + 1 \in 1..n /\ (m + 1) - 1 = m /\ seq[m + 1] \in X
    BY <1>0, <1>2
  <2>f. f[m + 1] = IF seq[m + 1] \in S THEN Append(f[m], seq[m + 1]) ELSE f[m]
    BY <2>1, Zenon DEF IsTaken
  <2> DEFINE old == f[m]
  <2>2. PICK place \in [1..Len(old) -> 1..m] :
          /\ \A i \in 1..Len(old) : old[i] = seq[place[i]] /\ old[i] \in S
          /\ \A i, j \in 1..Len(old) : i < j => place[i] < place[j]
    BY <1>2, <2>1 DEF IsPart
  <2>3. CASE seq[m + 1] \in S
    <3> DEFINE new == Append(old, seq[m + 1])
               last == Len(old) + 1
               to == [i \in 1..last |-> IF i = last THEN m + 1 ELSE place[i]]
    <3>1. f[m + 1] = new
      BY <2>3, <2>f
    <3>2. /\ Len(new) = last /\ new[last] = seq[m + 1] /\ last \in Nat
          /\ \A i \in 1..Len(old) : new[i] = old[i]
      BY <2>1
    <3> HIDE DEF new
    <3>3. to \in [1..last -> 1..(m + 1)] /\ to[last] = m + 1 /\ \A i \in 1..Len(old) : to[i] = place[i]
      BY <2>1, <2>2
    <3> HIDE DEF to
    <3>4. \A i \in 1..last : i # last => i \in 1..Len(old) /\ place[i] < m + 1
      <4>1. ASSUME NEW i \in 1..Len(old)
            PROVE  place[i] < m + 1
        <5>1. place[i] \in 1..m
          BY <2>2
        <5> QED
          BY <5>1, <1>2
      <4>2. \A i \in 1..last : i # last => i \in 1..Len(old)
        BY <2>1
      <4> QED
        BY <4>1, <4>2
    <3>5. \A i \in 1..last : new[i] = seq[to[i]] /\ new[i] \in S
      BY <2>2, <2>3, <3>2, <3>3, <3>4
    <3>6. ASSUME NEW i \in 1..last, NEW j \in 1..last, i < j
          PROVE  to[i] < to[j]
      <4>1. i # last /\ i \in 1..Len(old)
        BY <3>2, <3>4, <3>6
      <4>2. CASE j = last
        BY <4>1, <4>2, <3>3, <3>4
      <4>3. CASE j # last
        BY <4>1, <4>3, <3>3, <3>4, <2>2, <3>6
      <4> QED
        BY <4>2, <4>3
    <3> QED
      BY <3>1, <3>2, <3>3, <3>5, <3>6 DEF IsPart
  <2>4. CASE seq[m + 1] \notin S
    <3>1. f[m + 1] = old
      BY <2>4, <2>f
    <3>2. place \in [1..Len(old) -> 1..(m + 1)]
      BY <1>2, <2>1, <2>2
    <3> QED
      BY <2>2, <3>1, <3>2 DEF IsPart
  <2> QED
    BY <2>3, <2>4
<1> HIDE DEF P
<1> DEFINE T == {m \in Nat : m <= n => P(m)}
<1>3. 0 \in T /\ \A m \in T : m + 1 \in T
  BY <1>0, <1>1, <1>2
<1>4. T = Nat
  BY <1>3, SetInduction
<1>5. n \in T
  BY <1>0, <1>4
<1> HIDE DEF P
<1>6. P(n)
  BY <1>0, <1>5
<1> QED
  BY <1>6 DEF P

\* Within takes a part of its sequence.
LEMMA WithinIsPart ==
  ASSUME NEW X, NEW S, NEW seq \in Seq(X)
  PROVE  Within(seq, S) \in Seq(X) /\ IsPart(Within(seq, S), seq, S, Len(seq))
<1> DEFINE taken[n \in 0..Len(seq)] ==
             IF n = 0 THEN << >>
             ELSE IF seq[n] \in S THEN Append(taken[n - 1], seq[n]) ELSE taken[n - 1]
<1>0. Len(seq) \in Nat /\ Len(seq) \in 0..Len(seq)
  OBVIOUS
<1>1. PICK f \in [0..Len(seq) -> Seq(X)] : IsTaken(f, seq, S, Len(seq))
  BY <1>0, TakenExists
<1>2. f = [n \in 0..Len(seq) |->
             IF n = 0 THEN << >>
             ELSE IF seq[n] \in S THEN Append(f[n - 1], seq[n]) ELSE f[n - 1]]
  <2>1. f[0] = << >>
    BY <1>1 DEF IsTaken
  <2>2. \A k \in 1..Len(seq) : f[k] = IF seq[k] \in S THEN Append(f[k - 1], seq[k]) ELSE f[k - 1]
    BY <1>1 DEF IsTaken
  <2>3. f = [n \in 0..Len(seq) |-> f[n]]
    OBVIOUS
  <2>4. \A n \in 0..Len(seq) : n # 0 => n \in 1..Len(seq)
    BY <1>0
  <2> QED
    BY <2>1, <2>2, <2>3, <2>4, Zenon
<1>3. taken = [n \in 0..Len(seq) |->
                 IF n = 0 THEN << >>
                 ELSE IF seq[n] \in S THEN Append(taken[n - 1], seq[n]) ELSE taken[n - 1]]
  BY <1>2
<1>4. Within(seq, S) = taken[Len(seq)]
  BY DEF Within
<1> HIDE DEF taken
<1>5. IsTaken(taken, seq, S, Len(seq))
  <2>1. 0 \in 0..Len(seq) /\ \A k \in 1..Len(seq) : k \in 0..Len(seq) /\ k # 0
    BY <1>0
  <2>2. \A n \in 0..Len(seq) : taken[n] = IF n = 0 THEN << >>
          ELSE IF seq[n] \in S THEN Append(taken[n - 1], seq[n]) ELSE taken[n - 1]
    BY <1>3, Zenon
  <2> QED
    BY <2>1, <2>2, Zenon DEF IsTaken
<1>6. \A m \in 0..Len(seq) : taken[m] \in Seq(X)
  <2> DEFINE T == {m \in Nat : m <= Len(seq) => taken[m] \in Seq(X)}
  <2>1. 0 \in T
    <3>1. taken[0] = << >>
      BY <1>5 DEF IsTaken
    <3>2. << >> \in Seq(X)
      OBVIOUS
    <3> QED
      BY <3>1, <3>2
  <2>2. ASSUME NEW m \in Nat, m + 1 <= Len(seq), taken[m] \in Seq(X)
        PROVE  taken[m + 1] \in Seq(X)
    <3>1. m + 1 \in 1..Len(seq) /\ seq[m + 1] \in X
      BY <1>0, <2>2
    <3>2. Append(taken[m], seq[m + 1]) \in Seq(X)
      BY <2>2, <3>1
    <3>3. taken[m + 1] = IF seq[m + 1] \in S THEN Append(taken[m], seq[m + 1]) ELSE taken[m]
      BY <1>5, <3>1, <2>2 DEF IsTaken
    <3> QED
      BY <2>2, <3>2, <3>3
  <2>3. \A m \in T : m + 1 \in T
    BY <1>0, <2>2
  <2>4. T = Nat
    BY <2>1, <2>3, SetInduction
  <2> QED
    BY <1>0, <2>4
<1>7. taken \in [0..Len(seq) -> Seq(X)]
  BY <1>3, <1>6
<1> QED
  BY <1>0, <1>4, <1>5, <1>7, TakenIsPart

\* Increasing places among n are at most n.
LEMMA IncreasingIsShort ==
  ASSUME NEW n \in Nat, NEW len \in Nat, NEW place \in [1..len -> 1..n],
         \A i, j \in 1..len : i < j => place[i] < place[j]
  PROVE  len <= n
<1> DEFINE T == {k \in Nat : k \in 1..len => k <= place[k]}
<1>1. 0 \in T
  OBVIOUS
<1>2. ASSUME NEW k \in T
      PROVE  k + 1 \in T
  <2> SUFFICES ASSUME k + 1 \in 1..len
               PROVE  k + 1 <= place[k + 1]
    OBVIOUS
  <2>1. place[k + 1] \in 1..n
    OBVIOUS
  <2>2. CASE k = 0
    BY <2>1, <2>2
  <2>3. CASE k # 0
    <3>1. k \in 1..len /\ k < k + 1
      BY <2>3
    <3>2. place[k] \in 1..n /\ place[k] < place[k + 1] /\ k <= place[k]
      BY <3>1
    <3> QED
      BY <2>1, <3>2
  <2> QED
    BY <2>2, <2>3
<1> HIDE DEF T
<1>3. T = Nat
  BY <1>1, <1>2, SetInduction DEF T
<1>4. CASE len = 0
  BY <1>4
<1>5. CASE len # 0
  <2>1. len \in T /\ len \in 1..len
    BY <1>3, <1>5
  <2>2. len <= place[len] /\ place[len] \in 1..n
    BY <2>1 DEF T
  <2> QED
    BY <2>2
<1> QED
  BY <1>4, <1>5

-----------------------------------------------------------------------------
(* Adding up tokens *)

\* The sums of the tokens of the first n items packed.
IsSum(f, packed, n) == f[0] = 0 /\ \A k \in 1..n : f[k] = f[k - 1] + packed[k].tokens

\* Items, as far as their tokens go.
Counted(packed) ==
  Len(packed) \in Nat /\ \A i \in 1..Len(packed) : packed[i].tokens \in Nat

\* There is such a function.
LEMMA SumExists ==
  ASSUME NEW packed, Counted(packed), NEW n \in Nat, n <= Len(packed)
  PROVE  \E f \in [0..n -> Nat] : IsSum(f, packed, n)
<1> DEFINE P(m) == \E f \in [0..m -> Nat] : IsSum(f, packed, m)
<1>1. P(0)
  <2>1. [k \in 0..0 |-> 0] \in [0..0 -> Nat] /\ IsSum([k \in 0..0 |-> 0], packed, 0)
    BY DEF IsSum
  <2> QED
    BY <2>1
<1>2. ASSUME NEW m \in Nat, m + 1 <= Len(packed), P(m)
      PROVE  P(m + 1)
  <2>1. PICK f \in [0..m -> Nat] : IsSum(f, packed, m)
    BY <1>2
  <2>2. packed[m + 1].tokens \in Nat /\ f[m] \in Nat
    BY <1>2 DEF Counted
  <2> DEFINE last == f[m] + packed[m + 1].tokens
             g == [k \in 0..(m + 1) |-> IF k = m + 1 THEN last ELSE f[k]]
  <2>3. last \in Nat
    BY <2>2
  <2>4. g[m + 1] = last /\ (\A k \in 0..m : g[k] = f[k]) /\ g \in [0..(m + 1) -> Nat]
    BY <2>3
  <2> HIDE DEF g
  <2>5. IsSum(g, packed, m + 1)
    <3>1. g[0] = 0
      BY <2>1, <2>4 DEF IsSum
    <3>2. ASSUME NEW k \in 1..(m + 1)
          PROVE  g[k] = g[k - 1] + packed[k].tokens
      <4>1. CASE k = m + 1
        BY <4>1, <2>4
      <4>2. CASE k # m + 1
        <5>1. k \in 1..m /\ g[k] = f[k] /\ g[k - 1] = f[k - 1]
          BY <4>2, <2>4
        <5> QED
          BY <5>1, <2>1 DEF IsSum
      <4> QED
        BY <4>1, <4>2
    <3> QED
      BY <3>1, <3>2 DEF IsSum
  <2> QED
    BY <2>4, <2>5
<1> HIDE DEF P
<1> DEFINE T == {m \in Nat : m <= Len(packed) => P(m)}
<1>3. 0 \in T /\ \A m \in T : m + 1 \in T
  BY <1>1, <1>2 DEF Counted
<1>4. T = Nat
  BY <1>3, SetInduction
<1>5. P(n)
  BY <1>4
<1> QED
  BY <1>5 DEF P

\* Two of them agree.
LEMMA SumUnique ==
  ASSUME NEW packed, NEW n \in Nat, NEW f, NEW g, IsSum(f, packed, n), IsSum(g, packed, n)
  PROVE  f[n] = g[n]
<1> DEFINE T == {m \in Nat : m <= n => f[m] = g[m]}
<1>1. 0 \in T
  BY DEF IsSum
<1>2. ASSUME NEW m \in Nat, m + 1 <= n, f[m] = g[m]
      PROVE  f[m + 1] = g[m + 1]
  <2>1. m + 1 \in 1..n /\ (m + 1) - 1 = m
    BY <1>2
  <2>2. /\ f[m + 1] = f[(m + 1) - 1] + packed[m + 1].tokens
        /\ g[m + 1] = g[(m + 1) - 1] + packed[m + 1].tokens
    BY <2>1, Zenon DEF IsSum
  <2> QED
    BY <1>2, <2>1, <2>2
<1>3. \A m \in T : m + 1 \in T
  BY <1>2
<1>4. T = Nat
  BY <1>1, <1>3, SetInduction
<1> QED
  BY <1>4

\* Spent is what every such function returns for the last item.
LEMMA SpentIs ==
  ASSUME NEW packed, Counted(packed), NEW f \in [0..Len(packed) -> Nat],
         IsSum(f, packed, Len(packed))
  PROVE  Spent(packed) = f[Len(packed)]
<1> DEFINE sum[n \in 0..Len(packed)] ==
             IF n = 0 THEN 0 ELSE sum[n - 1] + packed[n].tokens
<1>0. Len(packed) \in Nat
  BY DEF Counted
<1>1. f = [n \in 0..Len(packed) |-> IF n = 0 THEN 0 ELSE f[n - 1] + packed[n].tokens]
  BY <1>0 DEF IsSum
<1>2. sum = [n \in 0..Len(packed) |-> IF n = 0 THEN 0 ELSE sum[n - 1] + packed[n].tokens]
  BY <1>1
<1>3. Spent(packed) = sum[Len(packed)]
  BY DEF Spent
<1> HIDE DEF sum
<1>4. IsSum(sum, packed, Len(packed))
  BY <1>0, <1>2 DEF IsSum
<1> QED
  BY <1>0, <1>3, <1>4, SumUnique

\* Nothing costs nothing, and an item more costs its own tokens more.
LEMMA SpentNothing == Spent(<< >>) = 0
<1>1. Counted(<< >>) /\ Len(<< >>) = 0 /\ 0 <= Len(<< >>)
  BY DEF Counted
<1>2. PICK f \in [0..0 -> Nat] : IsSum(f, << >>, 0)
  BY <1>1, SumExists
<1>3. Spent(<< >>) = f[0]
  BY <1>1, <1>2, SpentIs
<1> QED
  BY <1>2, <1>3 DEF IsSum

LEMMA SpentMore ==
  ASSUME NEW X, \A x \in X : x.tokens \in Nat, NEW packed \in Seq(X), NEW item \in X
  PROVE  Spent(Append(packed, item)) = Spent(packed) + item.tokens /\ Spent(packed) \in Nat
<1> DEFINE n == Len(packed)
           more == Append(packed, item)
<1>1. /\ n \in Nat /\ Len(more) = n + 1 /\ more[n + 1] = item
      /\ \A k \in 1..n : more[k] = packed[k] /\ packed[k] \in X
  OBVIOUS
<1>2. Counted(packed)
  BY <1>1 DEF Counted
<1>3. Counted(more)
  <2>1. \A k \in 1..(n + 1) : k \in 1..n \/ k = n + 1
    BY <1>1
  <2> HIDE DEF more
  <2> QED
    BY <1>1, <2>1 DEF Counted
<1> HIDE DEF n, more
<1>4. PICK f \in [0..(n + 1) -> Nat] : IsSum(f, more, n + 1)
  <2>1. n + 1 \in Nat /\ n + 1 <= Len(more)
    BY <1>1
  <2> QED
    BY <1>3, <2>1, SumExists
<1>5. Spent(more) = f[n + 1]
  BY <1>1, <1>3, <1>4, SpentIs
<1> DEFINE g == [k \in 0..n |-> f[k]]
<1>6. g \in [0..n -> Nat] /\ \A k \in 0..n : g[k] = f[k]
  BY <1>1
<1> HIDE DEF g
<1>7. IsSum(g, packed, n)
  <2>1. f[0] = 0 /\ \A k \in 1..n : f[k] = f[k - 1] + packed[k].tokens
    BY <1>1, <1>4 DEF IsSum
  <2>2. \A k \in 1..n : g[k] = f[k] /\ g[k - 1] = f[k - 1]
    BY <1>1, <1>6
  <2>3. g[0] = f[0]
    BY <1>1, <1>6
  <2> QED
    BY <2>1, <2>2, <2>3 DEF IsSum
<1>8. Spent(packed) = g[n]
  BY <1>2, <1>6, <1>7, SpentIs DEF n
<1>9. g[n] = f[n] /\ f[n] \in Nat /\ f[n + 1] = f[n] + item.tokens
  <2>1. n + 1 \in 1..(n + 1) /\ (n + 1) - 1 = n
    BY <1>1
  <2>2. f[n + 1] = f[(n + 1) - 1] + more[n + 1].tokens
    BY <2>1, <1>4, Zenon DEF IsSum
  <2> QED
    BY <1>1, <1>4, <1>6, <2>1, <2>2
<1> QED
  BY <1>5, <1>8, <1>9 DEF more

-----------------------------------------------------------------------------
(* Clipping *)

\* Where the search for the longest prefix can be, and what it does there.
Places(len) == (0..(len + 1)) \X (-1..len) \X (0..len)
Found(f, counts, budget, at) ==
  LET low == at[1]  high == at[2]  best == at[3]
      mid == (low + high) \div 2
  IN IF low > high THEN best
     ELSE IF counts[mid] <= budget THEN f[<<mid + 1, high, mid>>]
                                   ELSE f[<<low, mid - 1, best>>]

\* The middle is between the bounds, and either way the bounds come closer.
LEMMA MidIsBetween ==
  ASSUME NEW len \in Nat, NEW low \in 0..(len + 1), NEW high \in -1..len, NEW best \in 0..len, low <= high
  PROVE  LET mid == (low + high) \div 2
         IN  /\ mid \in low..high /\ mid \in 0..len
             /\ <<mid + 1, high, mid>> \in Places(len) /\ high - (mid + 1) < high - low
             /\ <<low, mid - 1, best>> \in Places(len) /\ (mid - 1) - low < high - low
<1> DEFINE mid == (low + high) \div 2
<1>1. mid \in low..high
  OBVIOUS
<1> HIDE DEF mid
<1>2. mid \in 0..len /\ mid + 1 \in 0..(len + 1) /\ mid - 1 \in -1..len
  BY <1>1
<1>3. high - (mid + 1) < high - low /\ (mid - 1) - low < high - low
  BY <1>1
<1> QED
  BY <1>1, <1>2, <1>3 DEF mid, Places

\* The search does the same for two functions that agree on closer bounds.
LEMMA FoundAgrees ==
  ASSUME NEW len \in Nat, NEW counts, NEW budget, NEW f, NEW g, NEW at \in Places(len),
         \A to \in Places(len) : to[2] - to[1] < at[2] - at[1] => f[to] = g[to]
  PROVE  Found(f, counts, budget, at) = Found(g, counts, budget, at)
<1>1. PICK low \in 0..(len + 1), high \in -1..len, best \in 0..len : at = <<low, high, best>>
  BY DEF Places
<1> DEFINE mid == (low + high) \div 2
<1>2. CASE low <= high
  <2>1. /\ f[<<mid + 1, high, mid>>] = g[<<mid + 1, high, mid>>]
        /\ f[<<low, mid - 1, best>>] = g[<<low, mid - 1, best>>]
    BY <1>1, <1>2, MidIsBetween
  <2> HIDE DEF mid
  <2> QED
    BY <1>1, <2>1 DEF Found, mid
<1>3. CASE ~(low <= high)
  BY <1>1, <1>3 DEF Found
<1> QED
  BY <1>2, <1>3

\* It finds a length.
LEMMA FoundType ==
  ASSUME NEW len \in Nat, NEW counts, NEW budget, NEW f \in [Places(len) -> 0..len], NEW at \in Places(len)
  PROVE  Found(f, counts, budget, at) \in 0..len
<1>1. PICK low \in 0..(len + 1), high \in -1..len, best \in 0..len : at = <<low, high, best>>
  BY DEF Places
<1> DEFINE mid == (low + high) \div 2
<1>2. CASE low <= high
  <2>1. f[<<mid + 1, high, mid>>] \in 0..len /\ f[<<low, mid - 1, best>>] \in 0..len
    BY <1>1, <1>2, MidIsBetween
  <2> HIDE DEF mid
  <2> QED
    BY <1>1, <2>1 DEF Found, mid
<1>3. CASE ~(low <= high)
  BY <1>1, <1>3 DEF Found
<1> QED
  BY <1>2, <1>3

\* f is what the search finds wherever the bounds are less than d apart.
IsSearch(f, counts, budget, len, d) ==
  \A at \in Places(len) : at[2] - at[1] < d => f[at] = Found(f, counts, budget, at)

\* There is such a function for every d.
LEMMA SearchExists ==
  ASSUME NEW len \in Nat, NEW counts, NEW budget, NEW d \in Nat
  PROVE  \E f \in [Places(len) -> 0..len] : IsSearch(f, counts, budget, len, d)
<1> DEFINE P(m) == \E f \in [Places(len) -> 0..len] : IsSearch(f, counts, budget, len, m)
           T == {m \in Nat : P(m)}
<1>1. 0 \in T
  <2> DEFINE f == [at \in Places(len) |-> at[3]]
  <2>1. f \in [Places(len) -> 0..len]
    BY DEF Places
  <2>2. ASSUME NEW at \in Places(len), at[2] - at[1] < 0
        PROVE  f[at] = Found(f, counts, budget, at)
    <3>1. at[1] \in Int /\ at[2] \in Int
      BY DEF Places
    <3>2. at[1] > at[2]
      BY <2>2, <3>1
    <3> QED
      BY <3>2 DEF Found
  <2> HIDE DEF f
  <2> QED
    BY <2>1, <2>2 DEF IsSearch
<1>2. ASSUME NEW m \in T
      PROVE  m + 1 \in T
  <2>1. PICK f \in [Places(len) -> 0..len] : IsSearch(f, counts, budget, len, m)
    OBVIOUS
  <2> DEFINE g == [at \in Places(len) |-> IF at[2] - at[1] < m THEN f[at] ELSE Found(f, counts, budget, at)]
  <2>2. \A at \in Places(len) : g[at] = Found(f, counts, budget, at)
    BY <2>1 DEF IsSearch
  <2>3. \A at \in Places(len) : at[2] - at[1] < m => g[at] = f[at]
    OBVIOUS
  <2>4. g \in [Places(len) -> 0..len]
    <3>1. \A at \in Places(len) : f[at] \in 0..len /\ Found(f, counts, budget, at) \in 0..len
      BY FoundType
    <3> QED
      BY <3>1
  <2> HIDE DEF g
  <2>5. ASSUME NEW at \in Places(len), at[2] - at[1] < m + 1
        PROVE  g[at] = Found(g, counts, budget, at)
    <3>1. \A to \in Places(len) : to[1] \in Int /\ to[2] \in Int
      BY DEF Places
    <3>2. \A to \in Places(len) : to[2] - to[1] < at[2] - at[1] => to[2] - to[1] < m
      BY <2>5, <3>1
    <3>3. \A to \in Places(len) : to[2] - to[1] < at[2] - at[1] => f[to] = g[to]
      BY <2>3, <3>2
    <3>4. Found(f, counts, budget, at) = Found(g, counts, budget, at)
      BY <3>3, FoundAgrees
    <3> QED
      BY <2>2, <3>4
  <2>6. P(m + 1)
    BY <2>4, <2>5 DEF IsSearch
  <2> HIDE DEF P
  <2> QED
    BY <2>6
<1> HIDE DEF P
<1>3. T = Nat
  BY <1>1, <1>2, SetInduction
<1>4. P(d)
  BY <1>3
<1> QED
  BY <1>4 DEF P

\* Searched is where such a function leads from the whole text.
LEMMA SearchedIs ==
  ASSUME NEW len \in Nat, NEW counts, NEW budget
  PROVE  \E f \in [Places(len) -> 0..len] :
           /\ \A at \in Places(len) : f[at] = Found(f, counts, budget, at)
           /\ Searched(counts, budget, len) = f[<<0, len, 0>>]
<1> DEFINE search[at \in (0..(len + 1)) \X (-1..len) \X (0..len)] ==
             LET low == at[1]  high == at[2]  best == at[3]
                 mid == (low + high) \div 2
             IN IF low > high THEN best
                ELSE IF counts[mid] <= budget THEN search[<<mid + 1, high, mid>>]
                                              ELSE search[<<low, mid - 1, best>>]
<1>0. len + 1 \in Nat
  OBVIOUS
<1>1. PICK f \in [Places(len) -> 0..len] : IsSearch(f, counts, budget, len, len + 1)
  BY <1>0, SearchExists
<1>2. \A at \in Places(len) : at[1] \in Int /\ at[2] \in Int /\ at[2] - at[1] < len + 1
  BY DEF Places
<1>3. f = [at \in Places(len) |-> Found(f, counts, budget, at)]
  BY <1>1, <1>2 DEF IsSearch
<1>4. search = [at \in Places(len) |-> Found(search, counts, budget, at)]
  BY <1>3 DEF Places, Found
<1>5. Searched(counts, budget, len) = search[<<0, len, 0>>]
  BY DEF Searched
<1> HIDE DEF search
<1>6. \A at \in Places(len) : search[at] = f[at]
  <2> DEFINE T == {d \in Nat : \A at \in Places(len) : at[2] - at[1] < d - 1 => search[at] = f[at]}
  <2>1. 0 \in T
    <3> SUFFICES ASSUME NEW at \in Places(len), at[2] - at[1] < 0 - 1
                 PROVE  search[at] = f[at]
      OBVIOUS
    <3>1. at[1] > at[2]
      BY <1>2
    <3>2. Found(search, counts, budget, at) = at[3] /\ Found(f, counts, budget, at) = at[3]
      BY <3>1 DEF Found
    <3> QED
      BY <1>3, <1>4, <3>2
  <2>2. ASSUME NEW d \in T
        PROVE  d + 1 \in T
    <3> SUFFICES ASSUME NEW at \in Places(len), at[2] - at[1] < d
                 PROVE  search[at] = f[at]
      OBVIOUS
    <3>1. \A to \in Places(len) : to[2] - to[1] < at[2] - at[1] => to[2] - to[1] < d - 1
      BY <1>2
    <3>2. \A to \in Places(len) : to[2] - to[1] < at[2] - at[1] => search[to] = f[to]
      BY <3>1
    <3>3. Found(search, counts, budget, at) = Found(f, counts, budget, at)
      BY <3>2, FoundAgrees
    <3> QED
      BY <1>3, <1>4, <3>3
  <2> HIDE DEF T
  <2>3. T = Nat
    BY <2>1, <2>2, SetInduction DEF T
  <2>4. len + 2 \in T
    BY <2>3
  <2> QED
    BY <1>2, <2>4 DEF T
<1>7. <<0, len, 0>> \in Places(len)
  BY DEF Places
<1> QED
  BY <1>3, <1>5, <1>6, <1>7

\* The prefix the search finds fits, if the best one so far does.
LEMMA SearchFits ==
  ASSUME NEW len \in Nat, NEW counts, NEW budget, NEW f \in [Places(len) -> 0..len],
         \A at \in Places(len) : f[at] = Found(f, counts, budget, at)
  PROVE  \A at \in Places(len) : counts[at[3]] <= budget => counts[f[at]] <= budget
<1> DEFINE T == {d \in Nat : \A at \in Places(len) :
                   at[2] - at[1] < d - 1 /\ counts[at[3]] <= budget => counts[f[at]] <= budget}
<1>0. \A at \in Places(len) : at[1] \in Int /\ at[2] \in Int /\ at[2] - at[1] < len + 1
  BY DEF Places
<1>1. 0 \in T
  <2> SUFFICES ASSUME NEW at \in Places(len), at[2] - at[1] < 0 - 1, counts[at[3]] <= budget
               PROVE  counts[f[at]] <= budget
    OBVIOUS
  <2>1. at[1] > at[2]
    BY <1>0
  <2>2. f[at] = at[3]
    BY <2>1 DEF Found
  <2> QED
    BY <2>2
<1>2. ASSUME NEW d \in T
      PROVE  d + 1 \in T
  <2> SUFFICES ASSUME NEW at \in Places(len), at[2] - at[1] < d, counts[at[3]] <= budget
               PROVE  counts[f[at]] <= budget
    OBVIOUS
  <2>1. PICK low \in 0..(len + 1), high \in -1..len, best \in 0..len : at = <<low, high, best>>
    BY DEF Places
  <2> DEFINE mid == (low + high) \div 2
             up == <<mid + 1, high, mid>>
             down == <<low, mid - 1, best>>
  <2>2. CASE low <= high
    <3>1. /\ up \in Places(len) /\ high - (mid + 1) < d - 1
          /\ down \in Places(len) /\ (mid - 1) - low < d - 1
      <4>1. /\ up \in Places(len) /\ high - (mid + 1) < high - low
            /\ down \in Places(len) /\ (mid - 1) - low < high - low
            /\ mid \in low..high
        BY <2>2, MidIsBetween
      <4>2. high - low < d
        BY <2>1
      <4> HIDE DEF mid
      <4> QED
        BY <4>1, <4>2
    <3>2. f[at] = IF counts[mid] <= budget THEN f[up] ELSE f[down]
      BY <2>1, <2>2 DEF Found
    <3>3. /\ up[1] = mid + 1 /\ up[2] = high /\ up[3] = mid
          /\ down[1] = low /\ down[2] = mid - 1 /\ down[3] = best
      OBVIOUS
    <3> HIDE DEF mid, up, down
    <3>4. counts[mid] <= budget => counts[f[up]] <= budget
      BY <3>1, <3>3
    <3>5. counts[best] <= budget => counts[f[down]] <= budget
      BY <3>1, <3>3
    <3> QED
      BY <2>1, <3>2, <3>4, <3>5
  <2>3. CASE ~(low <= high)
    <3> HIDE DEF T, mid, up, down
    <3>1. Found(f, counts, budget, at) = best
      BY <2>1, <2>3 DEF Found
    <3>2. f[at] = best /\ at[3] = best
      BY <2>1, <3>1
    <3> QED
      BY <3>2
  <2> QED
    BY <2>2, <2>3
<1> HIDE DEF T
<1>3. T = Nat
  BY <1>1, <1>2, SetInduction DEF T
<1>4. len + 2 \in T
  BY <1>3
<1> QED
  BY <1>0, <1>4 DEF T

\* Of a longer text more tokens are counted, if one character never makes them fewer.
LEMMA RisingIsMonotone ==
  ASSUME NEW counts \in [0..MaxLength -> Nat], MaxLength \in Nat, Rising(counts),
         NEW m \in 0..MaxLength, NEW n \in 0..MaxLength, m <= n
  PROVE  counts[m] <= counts[n]
<1> DEFINE T == {d \in Nat : m + d <= MaxLength => counts[m] <= counts[m + d]}
<1>1. 0 \in T
  OBVIOUS
<1>2. ASSUME NEW d \in T
      PROVE  d + 1 \in T
  <2> SUFFICES ASSUME m + (d + 1) <= MaxLength
               PROVE  counts[m] <= counts[m + (d + 1)]
    OBVIOUS
  <2>1. m + (d + 1) \in 1..MaxLength /\ (m + (d + 1)) - 1 = m + d /\ m + d \in 0..MaxLength
    OBVIOUS
  <2>2. counts[(m + (d + 1)) - 1] <= counts[m + (d + 1)]
    BY <2>1 DEF Rising
  <2>3. counts[m] <= counts[m + d]
    BY <2>1
  <2> QED
    BY <2>1, <2>2, <2>3
<1>3. T = Nat
  BY <1>1, <1>2, SetInduction
<1> HIDE DEF T
<1>4. n - m \in Nat /\ m + (n - m) = n
  OBVIOUS
<1>5. n - m \in T
  BY <1>3, <1>4
<1> QED
  BY <1>4, <1>5 DEF T

\* Where the search has been right so far: it has found the longest prefix below low that
\* fits, and none above high does.
OnTrack(counts, budget, len, at) ==
  /\ at[3] = at[1] - 1 \/ (at[1] = 0 /\ at[3] = 0)
  /\ \A n \in (at[2] + 1)..len : ~(counts[n] <= budget)

\* Then what it finds is the longest one.
LEMMA SearchIsLongest ==
  ASSUME NEW len \in Nat, NEW counts, NEW budget \in Nat, \A n \in 0..len : counts[n] \in Nat,
         NEW f \in [Places(len) -> 0..len],
         \A at \in Places(len) : f[at] = Found(f, counts, budget, at),
         \A m, n \in 0..len : m <= n => counts[m] <= counts[n]
  PROVE  \A at \in Places(len) : OnTrack(counts, budget, len, at) =>
           \A n \in 0..len : counts[n] <= budget => n <= f[at]
<1> DEFINE P(at) == OnTrack(counts, budget, len, at) =>
                      \A n \in 0..len : counts[n] <= budget => n <= f[at]
           T == {d \in Nat : \A at \in Places(len) : at[2] - at[1] < d - 1 => P(at)}
<1>0. \A at \in Places(len) : at[1] \in Int /\ at[2] \in Int /\ at[2] - at[1] < len + 1
  BY DEF Places
<1>1. ASSUME NEW low \in 0..(len + 1), NEW high \in -1..len, NEW best \in 0..len, low > high,
             <<low, high, best>> \in Places(len)
      PROVE  P(<<low, high, best>>)
  <2>1. f[<<low, high, best>>] = best
    BY <1>1 DEF Found
  <2> SUFFICES ASSUME OnTrack(counts, budget, len, <<low, high, best>>),
                      NEW n \in 0..len, counts[n] <= budget
               PROVE  n <= best
    BY <2>1
  <2>2. (best = low - 1 \/ (low = 0 /\ best = 0)) /\ \A k \in (high + 1)..len : ~(counts[k] <= budget)
    BY DEF OnTrack
  <2>3. n <= high
    BY <2>2
  <2> QED
    BY <1>1, <2>2, <2>3
<1>2. 0 \in T
  <2> SUFFICES ASSUME NEW at \in Places(len), at[2] - at[1] < 0 - 1
               PROVE  P(at)
    OBVIOUS
  <2>1. PICK low \in 0..(len + 1), high \in -1..len, best \in 0..len : at = <<low, high, best>>
    BY DEF Places
  <2>2. low > high
    BY <2>1
  <2> HIDE DEF P
  <2> QED
    BY <2>1, <2>2, <1>1
<1>3. ASSUME NEW d \in T
      PROVE  d + 1 \in T
  <2> SUFFICES ASSUME NEW at \in Places(len), at[2] - at[1] < d
               PROVE  P(at)
    OBVIOUS
  <2>1. PICK low \in 0..(len + 1), high \in -1..len, best \in 0..len : at = <<low, high, best>>
    BY DEF Places
  <2> DEFINE mid == (low + high) \div 2
             up == <<mid + 1, high, mid>>
             down == <<low, mid - 1, best>>
  <2>2. CASE low <= high
    <3>1. /\ mid \in low..high /\ mid \in 0..len
          /\ up \in Places(len) /\ high - (mid + 1) < high - low
          /\ down \in Places(len) /\ (mid - 1) - low < high - low
      BY <2>2, MidIsBetween
    <3>2. f[at] = IF counts[mid] <= budget THEN f[up] ELSE f[down]
      <4>1. f[at] = Found(f, counts, budget, at) /\ ~(low > high)
        BY <2>1, <2>2
      <4> HIDE DEF P, T
      <4>2. Found(f, counts, budget, at) =
             IF low > high THEN best ELSE IF counts[mid] <= budget THEN f[up] ELSE f[down]
        BY <2>1 DEF Found
      <4> HIDE DEF mid, up, down
      <4> QED
        BY <4>1, <4>2
    <3>3. /\ up[1] = mid + 1 /\ up[2] = high /\ up[3] = mid
          /\ down[1] = low /\ down[2] = mid - 1 /\ down[3] = best
      OBVIOUS
    <3> HIDE DEF mid, up, down
    <3>4. high - (mid + 1) < d - 1 /\ (mid - 1) - low < d - 1
      BY <2>1, <3>1
    <3>5. P(up) /\ P(down)
      <4> HIDE DEF P
      <4> QED
        BY <3>1, <3>3, <3>4
    <3> SUFFICES ASSUME OnTrack(counts, budget, len, at), NEW n \in 0..len, counts[n] <= budget
                 PROVE  n <= f[at]
      OBVIOUS
    <3>6. (best = low - 1 \/ (low = 0 /\ best = 0)) /\ \A k \in (high + 1)..len : ~(counts[k] <= budget)
      BY <2>1 DEF OnTrack
    <3>7. CASE counts[mid] <= budget
      <4>1. OnTrack(counts, budget, len, up)
        BY <3>1, <3>3, <3>6 DEF OnTrack
      <4> QED
        BY <3>2, <3>5, <3>7, <4>1
    <3>8. CASE ~(counts[mid] <= budget)
      <4>1. \A k \in ((mid - 1) + 1)..len : ~(counts[k] <= budget)
        BY <3>1, <3>8
      <4>2. OnTrack(counts, budget, len, down)
        BY <3>1, <3>3, <3>6, <4>1 DEF OnTrack
      <4> QED
        BY <3>2, <3>5, <3>8, <4>2
    <3> QED
      BY <3>7, <3>8
  <2>3. CASE ~(low <= high)
    <3> HIDE DEF P
    <3> QED
      BY <2>1, <2>3, <1>1
  <2> QED
    BY <2>2, <2>3
<1> HIDE DEF T
<1>4. T = Nat
  BY <1>2, <1>3, SetInduction DEF T
<1>5. len + 2 \in T
  BY <1>4
<1> QED
  BY <1>0, <1>5 DEF T

\* Clipping by characters stays within the budget: so many tokens' worth of characters
\* are kept at most.
LEMMA ClipCharsFits ==
  ASSUME CharsPerToken \in Nat \ {0}, NEW len \in Nat, NEW budget \in Nat
  PROVE  ClipChars(len, budget).tokens \in 0..budget
<1> DEFINE C == CharsPerToken
           kept == Smaller(len, budget * C)
           q == (kept + C - 1) \div C
<1>1. kept \in Nat /\ kept <= budget * C /\ C \in Nat /\ C > 0
  BY DEF Smaller
<1> HIDE DEF kept
<1>2. kept + C - 1 \in Nat
  BY <1>1
<1>3. q \in Nat /\ C * q <= kept + C - 1
  BY <1>1, <1>2
<1> HIDE DEF q
<1>4. q <= budget
  <2> SUFFICES ASSUME budget + 1 <= q PROVE FALSE
    BY <1>3
  <2>1. C * (budget + 1) <= C * q
    BY <1>1, <1>3
  <2>2. C * (budget + 1) = budget * C + C
    BY <1>1
  <2>3. budget * C \in Nat /\ C * q \in Nat
    BY <1>1, <1>3
  <2> QED
    BY <1>1, <1>3, <2>1, <2>2, <2>3
<1>5. ClipChars(len, budget).tokens = q
  BY DEF ClipChars, CharTokens, q, kept
<1> QED
  BY <1>3, <1>4, <1>5

\* Clipping by the tokens counted keeps a prefix that fits, and the longest one if no
\* longer text counts fewer tokens.
LEMMA ClipTokensFits ==
  ASSUME BoundsAssumption, CountsAssumption, NEW counts \in TokenCounts,
         NEW len \in 1..MaxLength, NEW budget \in Nat \ {0}
  PROVE  LET clip == ClipTokens(counts, len, budget)
         IN  /\ clip.kept \in 0..len
             /\ counts[clip.kept] <= budget
             /\ clip.tokens \in 0..budget
             /\ Rising(counts) => \A n \in 0..len : counts[n] <= budget => n <= clip.kept
<1>1. /\ MaxLength \in Nat /\ len \in Nat /\ len <= MaxLength
      /\ counts \in [0..MaxLength -> Nat] /\ counts[0] = 0
  BY DEF BoundsAssumption, CountsAssumption
<1> DEFINE clip == ClipTokens(counts, len, budget)
<1>2. CASE counts[len] <= budget
  <2>1. clip.kept = len /\ clip.tokens = IF counts[len] < 1 THEN 1 ELSE counts[len]
    BY <1>2 DEF ClipTokens
  <2>2. counts[len] \in Nat
    BY <1>1
  <2> HIDE DEF clip
  <2>3. clip.tokens \in 0..budget
    BY <1>2, <2>1, <2>2
  <2> QED
    BY <1>1, <1>2, <2>1, <2>3 DEF clip
<1>3. CASE ~(counts[len] <= budget)
  <2>1. PICK f \in [Places(len) -> 0..len] :
          /\ \A at \in Places(len) : f[at] = Found(f, counts, budget, at)
          /\ Searched(counts, budget, len) = f[<<0, len, 0>>]
    <3>1. len \in Nat
      BY <1>1
    <3> QED
      BY <3>1, SearchedIs
  <2> DEFINE all == <<0, len, 0>>
  <2>2. all \in Places(len) /\ all[1] = 0 /\ all[2] = len /\ all[3] = 0
    BY <1>1 DEF Places
  <2>3. clip.kept = f[all] /\ clip.tokens = counts[f[all]]
    BY <1>3, <2>1 DEF ClipTokens
  <2> HIDE DEF clip, all
  <2>4. f[all] \in 0..len
    BY <2>2
  <2>5. counts[f[all]] <= budget
    <3>1. counts[all[3]] <= budget
      BY <1>1, <2>2
    <3>2. \A at \in Places(len) : counts[at[3]] <= budget => counts[f[at]] <= budget
      BY <1>1, <2>1, SearchFits
    <3> QED
      BY <2>2, <3>1, <3>2
  <2>6. counts[f[all]] \in Nat
    BY <1>1, <2>4
  <2>7. ASSUME Rising(counts)
        PROVE  \A n \in 0..len : counts[n] <= budget => n <= f[all]
    <3>1. \A n \in 0..len : n \in 0..MaxLength /\ counts[n] \in Nat
      BY <1>1
    <3>2. \A m, n \in 0..len : m <= n => counts[m] <= counts[n]
      BY <1>1, <2>7, <3>1, RisingIsMonotone
    <3>3. OnTrack(counts, budget, len, all)
      BY <1>1, <2>2 DEF OnTrack
    <3>4. \A at \in Places(len) : OnTrack(counts, budget, len, at) =>
            \A n \in 0..len : counts[n] <= budget => n <= f[at]
      BY <1>1, <2>1, <3>1, <3>2, SearchIsLongest
    <3> QED
      BY <2>2, <3>3, <3>4
  <2> QED
    BY <2>3, <2>4, <2>5, <2>6, <2>7 DEF clip
<1> QED
  BY <1>2, <1>3

-----------------------------------------------------------------------------
(* The invariant *)

\* What the session may see now it could see during the request.
SeenIsVisible == phase # "idle" => Seen(rows, request.strict) \subseteq visible

\* While the channels are searched, ids and copies are of memories it could see, and a
\* scored memory has a copy; before and after, nothing is scored.
SearchIsVisible ==
  /\ phase = "fetch" => \A i \in 1..Len(hits) : hits[i] \in visible
  /\ \A m \in Memories : scores[m] > 0 =>
       m \in visible /\ copies[m] \in Rows /\ phase \in {"search", "fetch", "like", "rank"}

\* The candidates are memories it could see, each once.
CandidatesAreVisible ==
  /\ \A i \in 1..Len(candidates) : candidates[i].memory \in visible
  /\ \A i, j \in 1..Len(candidates) : candidates[i].memory = candidates[j].memory => i = j

\* The items are the first candidates and have cost what is no longer there; nothing is
\* packed before the candidates are known.
ItemsAreCandidates ==
  /\ Len(items) <= Len(candidates)
  /\ \A i \in 1..Len(items) : items[i].memory = candidates[i].memory
  /\ remaining + Spent(items) = request.budget
  /\ phase \in {"idle", "search", "fetch", "like", "rank"} => candidates = << >>
  /\ phase \in {"idle", "search", "fetch", "like", "rank", "window"} => items = << >>

\* An entry holds the text its marker names; an entry has its memory, an item its entry.
EntriesStand ==
  /\ \A k \in DOMAIN ccr : ccr[k] = k[2] /\ rows[k[1]].there
  /\ \A i \in 1..Len(items) :
       items[i].memory \in purged \/ <<items[i].memory, items[i].text>> \in DOMAIN ccr

AssemblyInv ==
  /\ AssemblyTypeOK
  /\ SeenIsVisible
  /\ SearchIsVisible
  /\ CandidatesAreVisible
  /\ ItemsAreCandidates
  /\ EntriesStand

-----------------------------------------------------------------------------
(* Rankings and scores *)

\* A ranking is a sequence of distinct members, at most limit of them.
LEMMA RankingParts ==
  ASSUME NEW S, NEW limit \in Nat, NEW ranking \in Rankings(S, limit)
  PROVE  /\ ranking \in Seq(S) /\ Len(ranking) \in Nat /\ Len(ranking) <= limit
         /\ DOMAIN ranking = 1..Len(ranking)
         /\ \A i \in 1..Len(ranking) : ranking[i] \in S
         /\ \A i, j \in 1..Len(ranking) : ranking[i] = ranking[j] => i = j
<1>1. PICK n \in 0..limit : ranking \in [1..n -> S] /\ IsInjective(ranking)
  BY DEF Rankings
<1>2. n \in Nat /\ DOMAIN ranking = 1..n
  BY <1>1
<1>3. ranking \in Seq(S) /\ Len(ranking) = n
  BY <1>1, <1>2
<1> QED
  BY <1>1, <1>2, <1>3 DEF IsInjective

\* A row that is there is a whole one.
LEMMA ThereIsRow ==
  /\ \A r \in Rows \union {Absent} : r.there => r \in Rows
  /\ \A r \in Rows : r.there /\ r.text \in Texts
  /\ ~Absent.there
<1>1. \A r \in Rows : r.there = TRUE /\ r.text \in Texts
  BY DEF Rows
<1>2. Absent.there = FALSE
  BY DEF Absent
<1> QED
  BY <1>1, <1>2

\* The rank of a unit is its place or an earlier one.
LEMMA RankOfType ==
  ASSUME NEW units, NEW n \in Nat, NEW i \in 1..n
  PROVE  RankOf(units, i) \in 1..i
<1> DEFINE T == {j \in 1..i : units[j].row.text = units[i].row.text}
<1>1. T \in SUBSET Nat /\ T # {}
  <2>1. i \in T
    OBVIOUS
  <2> QED
    BY <2>1
<1>2. PICK x \in T : \A y \in T : x <= y
  BY <1>1, LeastNatural
<1>3. x \in 1..i /\ units[x].row.text = units[i].row.text
  OBVIOUS
<1>4. \A k \in 1..(x - 1) : units[k].row.text # units[i].row.text
  <2> SUFFICES ASSUME NEW k \in 1..(x - 1), units[k].row.text = units[i].row.text PROVE FALSE
    OBVIOUS
  <2>1. k \in T /\ k < x
    BY <1>3
  <2> QED
    BY <1>2, <1>3, <2>1
<1> QED
  BY <1>3, <1>4 DEF RankOf

\* Scores are numbers, and of those that were none only returned units have one.
AreScores(new, old, units, n) ==
  /\ new \in [Memories -> Nat]
  /\ \A m \in Memories : new[m] > 0 =>
       old[m] > 0 \/ \E i \in 1..n : units[i].memory = m

\* So it is after a channel.
LEMMA ScoredStep ==
  ASSUME NEW old \in [Memories -> Nat], NEW units, NEW n \in Nat, DOMAIN units = 1..n
  PROVE  AreScores(Scored(old, units), old, units, n)
<1> DEFINE at(m) == CHOOSE i \in DOMAIN units : units[i].memory = m
           gain(m) == IF \E i \in DOMAIN units : units[i].memory = m
                      THEN Weight(RankOf(units, at(m))) ELSE 0
<1>1. \A rank \in Nat \ {0} : Weight(rank) \in Nat
  BY ScaleAssumption DEF Weight
<1>2. ASSUME NEW m \in Memories
      PROVE  gain(m) \in Nat
  <2>1. CASE \E i \in DOMAIN units : units[i].memory = m
    <3>1. at(m) \in 1..n
      BY <2>1
    <3> HIDE DEF at
    <3>2. n \in Nat
      OBVIOUS
    <3>3. RankOf(units, at(m)) \in 1..at(m)
      BY <3>1, <3>2, RankOfType
    <3>4. RankOf(units, at(m)) \in Nat \ {0}
      BY <3>1, <3>3
    <3> QED
      BY <1>1, <2>1, <3>4
  <2>2. CASE ~ \E i \in DOMAIN units : units[i].memory = m
    BY <2>2
  <2> QED
    BY <2>1, <2>2
<1>3. Scored(old, units) = [m \in Memories |-> old[m] + gain(m)]
  BY DEF Scored
<1>4. \A m \in Memories : gain(m) > 0 => \E i \in 1..n : units[i].memory = m
  OBVIOUS
<1> HIDE DEF gain
<1>5. \A m \in Memories : old[m] + gain(m) \in Nat /\ (old[m] + gain(m) > 0 => old[m] > 0 \/ gain(m) > 0)
  BY <1>2
<1> QED
  BY <1>3, <1>4, <1>5 DEF AreScores

\* The copies of the units that were returned are theirs.
LEMMA CopiedStep ==
  ASSUME NEW old \in [Memories -> Rows \union {Absent}], NEW units, NEW n \in Nat,
         DOMAIN units = 1..n, \A i \in 1..n : units[i].row \in Rows
  PROVE  /\ Copied(old, units) \in [Memories -> Rows \union {Absent}]
         /\ \A m \in Memories : (\E i \in 1..n : units[i].memory = m) => Copied(old, units)[m] \in Rows
         /\ \A m \in Memories : Copied(old, units)[m] = old[m] \/ Copied(old, units)[m] \in Rows
<1> DEFINE at(m) == CHOOSE i \in DOMAIN units : units[i].memory = m
           taken(m) == IF \E i \in DOMAIN units : units[i].memory = m
                     THEN units[at(m)].row ELSE old[m]
<1>1. ASSUME NEW m \in Memories
      PROVE  /\ (\E i \in 1..n : units[i].memory = m) => taken(m) \in Rows
             /\ ~(\E i \in 1..n : units[i].memory = m) => taken(m) = old[m]
  <2>1. (\E i \in 1..n : units[i].memory = m) => at(m) \in 1..n
    OBVIOUS
  <2> HIDE DEF at
  <2> QED
    BY <2>1
<1>2. Copied(old, units) = [m \in Memories |-> taken(m)]
  BY DEF Copied
<1> HIDE DEF taken
<1> QED
  BY <1>1, <1>2

\* What a search or the window finds the session may see.
LEMMA AllowedIsSeen ==
  ASSUME AssemblyTypeOK, NEW m \in Memories
  PROVE  /\ SearchAllows(m, rows[m], request.strict) => m \in Seen(rows, request.strict)
         /\ WindowAllows(m, rows[m], request.strict) => m \in Seen(rows, request.strict)
BY DEF SearchAllows, WindowAllows, MatchesSession, MaySee, Seen

-----------------------------------------------------------------------------
(* The recall *)

\* The order of a recall is total and strict.
LEMMA BeforeIsOrder ==
  ASSUME scores \in [Memories -> Nat], NEW m \in Memories, NEW n \in Memories
  PROVE  /\ ~(Before(m, n) /\ Before(n, m))
         /\ Before(m, n) \/ Before(n, m) \/ m = n
         /\ \A o \in Memories : Before(m, n) /\ Before(n, o) => Before(m, o)
  BY MemoriesAssumption DEF Before

\* Of finitely many memories one comes before the others.
Foremost(m, S) == m \in S /\ \A n \in S : n = m \/ Before(m, n)

\* By induction on their number.
LEMMA FirstExists ==
  ASSUME scores \in [Memories -> Nat], NEW T \in SUBSET Memories, T # {}, IsFiniteSet(T)
  PROVE  \E m \in T : Foremost(m, T)
<1> USE DEF Foremost
<1> DEFINE D == {c \in Nat : \A S \in SUBSET T : Cardinality(S) = c + 1 => \E m \in S : Foremost(m, S)}
<1>1. 0 \in D
  <2> SUFFICES ASSUME NEW S \in SUBSET T, Cardinality(S) = 1
               PROVE  \E m \in S : Foremost(m, S)
    OBVIOUS
  <2>1. IsFiniteSet(S)
    BY FS_Subset
  <2>2. PICK m : S = {m}
    BY <2>1, FS_Singleton
  <2> QED
    BY <2>2
<1>2. ASSUME NEW c \in D
      PROVE  c + 1 \in D
  <2> SUFFICES ASSUME NEW S \in SUBSET T, Cardinality(S) = c + 2
               PROVE  \E m \in S : Foremost(m, S)
    OBVIOUS
  <2>1. c \in Nat /\ IsFiniteSet(S)
    BY FS_Subset
  <2>2. PICK x \in S : TRUE
    BY <2>1, FS_EmptySet
  <2>3. IsFiniteSet(S \ {x}) /\ Cardinality(S \ {x}) = c + 1
    BY <2>1, FS_RemoveElement
  <2>4. S \ {x} \in SUBSET T
    OBVIOUS
  <2>5. PICK y \in S \ {x} : Foremost(y, S \ {x})
    BY <2>3, <2>4
  <2>6. x \in Memories /\ y \in Memories /\ S \subseteq Memories
    OBVIOUS
  <2>7. CASE Before(x, y)
    <3>1. \A n \in S \ {x} : Before(x, n)
      BY <2>5, <2>6, <2>7, BeforeIsOrder
    <3>2. Foremost(x, S)
      BY <3>1
    <3> QED
      BY <3>2
  <2>8. CASE ~Before(x, y)
    <3>1. Before(y, x)
      BY <2>5, <2>6, <2>8, BeforeIsOrder
    <3>2. Foremost(y, S)
      BY <2>5, <3>1
    <3> QED
      BY <3>2
  <2> QED
    BY <2>7, <2>8
<1>3. D = Nat
  <2> HIDE DEF D
  <2>1. D \in SUBSET Nat
    BY DEF D
  <2> QED
    BY <1>1, <1>2, <2>1, SetInduction
<1>4. Cardinality(T) \in Nat /\ Cardinality(T) # 0
  BY FS_CardinalityType, FS_EmptySet
<1>5. Cardinality(T) - 1 \in D /\ Cardinality(T) = (Cardinality(T) - 1) + 1
  BY <1>3, <1>4
<1> QED
  BY <1>5

\* A recall of at most k memories.
RecalledOf(ranking, k) ==
  /\ \A i, j \in DOMAIN ranking : i < j => Before(ranking[i], ranking[j])
  /\ \A m \in Recallable :
       \/ \E i \in DOMAIN ranking : ranking[i] = m
       \/ Len(ranking) = k /\ \A i \in DOMAIN ranking : Before(ranking[i], m)

\* There is one: as long as there is room, the first of those that are left follows.
LEMMA RecallExists ==
  ASSUME scores \in [Memories -> Nat], IsFiniteSet(Recallable), NEW limit \in Nat
  PROVE  \E ranking \in Rankings(Recallable, limit) : RecalledOf(ranking, limit)
<1>1. Recallable \subseteq Memories
  BY DEF Recallable
<1> DEFINE D == {k \in Nat : \E r \in Rankings(Recallable, k) : RecalledOf(r, k)}
<1>2. 0 \in D
  <2>1. << >> \in [1..0 -> Recallable] /\ IsInjective(<< >>)
    BY DEF IsInjective
  <2>2. << >> \in Rankings(Recallable, 0)
    BY <2>1 DEF Rankings
  <2>3. RecalledOf(<< >>, 0)
    BY DEF RecalledOf
  <2> QED
    BY <2>2, <2>3
<1>3. ASSUME NEW k \in D
      PROVE  k + 1 \in D
  <2>1. k \in Nat
    OBVIOUS
  <2>2. PICK r \in Rankings(Recallable, k) : RecalledOf(r, k)
    OBVIOUS
  <2>3. PICK n \in 0..k : r \in [1..n -> Recallable] /\ IsInjective(r)
    BY <2>2 DEF Rankings
  <2>4. n \in Nat /\ DOMAIN r = 1..n /\ Len(r) = n
    BY <2>1, <2>3
  <2> DEFINE left == Recallable \ {r[i] : i \in 1..n}
  <2>5. CASE left = {}
    <3>1. n \in 0..(k + 1)
      BY <2>1
    <3>2. r \in Rankings(Recallable, k + 1)
      BY <2>3, <3>1 DEF Rankings
    <3>3. RecalledOf(r, k + 1)
      BY <2>2, <2>4, <2>5 DEF RecalledOf
    <3> QED
      BY <2>1, <3>2, <3>3
  <2>6. CASE left # {}
    <3>1. left \in SUBSET Memories /\ left \in SUBSET Recallable /\ IsFiniteSet(left)
      BY <1>1, FS_Subset
    <3>2. n = k /\ \A m \in left, i \in 1..n : Before(r[i], m)
      BY <2>2, <2>4, <2>6 DEF RecalledOf
    <3>3. PICK y \in left : Foremost(y, left)
      BY <2>6, <3>1, FirstExists
    <3> DEFINE q == [i \in 1..(k + 1) |-> IF i = k + 1 THEN y ELSE r[i]]
    <3>4. \A i \in 1..(k + 1) : i = k + 1 \/ i \in 1..n
      BY <2>1, <3>2
    <3>5. /\ q \in [1..(k + 1) -> Recallable] /\ q[k + 1] = y
          /\ \A i \in 1..n : i \in 1..(k + 1) /\ q[i] = r[i]
      BY <2>1, <2>3, <3>1, <3>2, <3>3, <3>4
    <3>6. DOMAIN q = 1..(k + 1) /\ Len(q) = k + 1
      BY <2>1
    <3> HIDE DEF q
    <3>7. IsInjective(q)
      <4>1. \A i \in 1..n : r[i] # y
        BY <3>3
      <4>2. ASSUME NEW i \in 1..(k + 1), NEW j \in 1..(k + 1), q[i] = q[j]
            PROVE  i = j
        BY <2>3, <2>4, <3>4, <3>5, <4>1, <4>2 DEF IsInjective
      <4> QED
        BY <3>6, <4>2 DEF IsInjective
    <3>8. q \in Rankings(Recallable, k + 1)
      BY <2>1, <3>5, <3>7 DEF Rankings
    <3>9. ASSUME NEW i \in 1..(k + 1), NEW j \in 1..(k + 1), i < j
          PROVE  Before(q[i], q[j])
      <4>1. i \in 1..n
        BY <2>1, <3>2, <3>9
      <4>2. CASE j = k + 1
        BY <3>2, <3>3, <3>5, <4>1, <4>2
      <4>3. CASE j \in 1..n
        BY <2>2, <2>4, <3>5, <3>9, <4>1, <4>3 DEF RecalledOf
      <4> QED
        BY <3>4, <4>2, <4>3
    <3>10. ASSUME NEW m \in Recallable, \A i \in 1..(k + 1) : q[i] # m
           PROVE  \A i \in 1..(k + 1) : Before(q[i], m)
      <4>1. m \in left /\ m # y
        BY <2>1, <3>2, <3>5, <3>10
      <4>2. Before(y, m)
        BY <3>3, <4>1 DEF Foremost
      <4> QED
        BY <3>2, <3>4, <3>5, <4>1, <4>2
    <3>11. RecalledOf(q, k + 1)
      BY <3>6, <3>9, <3>10 DEF RecalledOf
    <3> QED
      BY <2>1, <3>8, <3>11
  <2> QED
    BY <2>5, <2>6
<1>4. D = Nat
  <2> HIDE DEF D
  <2>1. D \in SUBSET Nat
    BY DEF D
  <2> QED
    BY <1>2, <1>3, <2>1, SetInduction
<1> QED
  BY <1>4

\* Two recalls agree: where they first differ each would put its own memory before the
\* other's, and the shorter one would have had room for what the longer one adds.
LEMMA RecallIsUnique ==
  ASSUME scores \in [Memories -> Nat], NEW limit \in Nat,
         NEW q \in Rankings(Recallable, limit), NEW r \in Rankings(Recallable, limit),
         RecalledOf(q, limit), RecalledOf(r, limit)
  PROVE  q = r
<1>1. Recallable \subseteq Memories
  BY DEF Recallable
<1>2. /\ q \in Seq(Recallable) /\ Len(q) \in Nat /\ Len(q) <= limit /\ DOMAIN q = 1..Len(q)
      /\ \A i \in 1..Len(q) : q[i] \in Recallable
      /\ \A i, j \in 1..Len(q) : q[i] = q[j] => i = j
  BY RankingParts
<1>3. /\ r \in Seq(Recallable) /\ Len(r) \in Nat /\ Len(r) <= limit /\ DOMAIN r = 1..Len(r)
      /\ \A i \in 1..Len(r) : r[i] \in Recallable
      /\ \A i, j \in 1..Len(r) : r[i] = r[j] => i = j
  BY RankingParts
<1> DEFINE apart == {i \in Nat : i \in 1..Len(q) /\ i \in 1..Len(r) /\ q[i] # r[i]}
<1>4. apart = {}
  <2> SUFFICES ASSUME apart # {} PROVE FALSE
    OBVIOUS
  <2>1. PICK i \in apart : \A j \in apart : i <= j
    BY LeastNatural
  <2>2. i \in Nat /\ i \in 1..Len(q) /\ i \in 1..Len(r) /\ q[i] # r[i]
    OBVIOUS
  <2>3. ASSUME NEW j \in 1..(i - 1)
        PROVE  j \in 1..Len(q) /\ j \in 1..Len(r) /\ q[j] = r[j]
    BY <1>2, <1>3, <2>1, <2>2
  <2>4. Before(r[i], q[i])
    <3>1. CASE \E j \in 1..Len(r) : r[j] = q[i]
      <4>1. PICK j \in 1..Len(r) : r[j] = q[i]
        BY <3>1
      <4>2. j \notin 1..(i - 1)
        BY <1>2, <2>2, <2>3, <4>1
      <4>3. i < j
        BY <1>3, <2>2, <4>1, <4>2
      <4> QED
        BY <1>3, <2>2, <4>1, <4>3 DEF RecalledOf
    <3>2. CASE ~ \E j \in 1..Len(r) : r[j] = q[i]
      BY <1>2, <1>3, <2>2, <3>2 DEF RecalledOf
    <3> QED
      BY <3>1, <3>2
  <2>5. Before(q[i], r[i])
    <3>1. CASE \E j \in 1..Len(q) : q[j] = r[i]
      <4>1. PICK j \in 1..Len(q) : q[j] = r[i]
        BY <3>1
      <4>2. j \notin 1..(i - 1)
        BY <1>3, <2>2, <2>3, <4>1
      <4>3. i < j
        BY <1>2, <2>2, <4>1, <4>2
      <4> QED
        BY <1>2, <2>2, <4>1, <4>3 DEF RecalledOf
    <3>2. CASE ~ \E j \in 1..Len(q) : q[j] = r[i]
      BY <1>2, <1>3, <2>2, <3>2 DEF RecalledOf
    <3> QED
      BY <3>1, <3>2
  <2> QED
    BY <1>1, <1>2, <1>3, <2>2, <2>4, <2>5, BeforeIsOrder
<1>5. \A i \in 1..Len(q) : i \in 1..Len(r) => q[i] = r[i]
  BY <1>2, <1>4
<1> HIDE DEF apart
<1>6. Len(q) \in Nat /\ Len(r) \in Nat
  BY <1>2, <1>3
<1>7. ~(Len(q) < Len(r))
  <2> SUFFICES ASSUME Len(q) < Len(r) PROVE FALSE
    OBVIOUS
  <2> DEFINE m == r[Len(q) + 1]
  <2>1. Len(q) + 1 \in 1..Len(r) /\ Len(q) # limit
    BY <1>3, <1>6
  <2>2. m \in Recallable
    BY <1>3, <2>1
  <2> HIDE DEF m
  <2>3. PICK i \in 1..Len(q) : q[i] = m
    BY <1>2, <2>1, <2>2 DEF RecalledOf
  <2>4. i \in 1..Len(r) /\ i # Len(q) + 1
    BY <1>6, <2>1
  <2>5. r[i] = r[Len(q) + 1]
    BY <1>5, <2>3, <2>4 DEF m
  <2> QED
    BY <1>3, <2>1, <2>4, <2>5
<1>8. ~(Len(r) < Len(q))
  <2> SUFFICES ASSUME Len(r) < Len(q) PROVE FALSE
    OBVIOUS
  <2> DEFINE m == q[Len(r) + 1]
  <2>1. Len(r) + 1 \in 1..Len(q) /\ Len(r) # limit
    BY <1>2, <1>6
  <2>2. m \in Recallable
    BY <1>2, <2>1
  <2> HIDE DEF m
  <2>3. PICK i \in 1..Len(r) : r[i] = m
    BY <1>3, <2>1, <2>2 DEF RecalledOf
  <2>4. i \in 1..Len(q) /\ i # Len(r) + 1
    BY <1>6, <2>1
  <2>5. q[i] = q[Len(r) + 1]
    BY <1>5, <2>3, <2>4 DEF m
  <2> QED
    BY <1>2, <2>1, <2>4, <2>5
<1>9. Len(q) = Len(r)
  BY <1>6, <1>7, <1>8
<1>10. q \in [1..Len(q) -> Recallable] /\ r \in [1..Len(q) -> Recallable]
  BY <1>2, <1>3, <1>9
<1> QED
  BY <1>5, <1>9, <1>10

\* What a request recalls is determined by scores and copies: one ranking, no other.
RecallIsDetermined ==
  \E ranking \in Rankings(Recallable, RecallLimit) :
    /\ Recalled(ranking)
    /\ \A other \in Rankings(Recallable, RecallLimit) : Recalled(other) => other = ranking

-----------------------------------------------------------------------------
(* The steps *)

\* The limits are numbers.
LEMMA LimitTypes ==
  /\ RecallLimit \in Nat /\ ActiveLimit \in Nat /\ MaxWrites \in Nat
  /\ Budgets \subseteq Nat
BY BoundsAssumption

\* In the beginning nothing is searched, packed or stored.
LEMMA InitAssemblyInv == AssemblyInit => AssemblyInv
<1> SUFFICES ASSUME AssemblyInit PROVE AssemblyInv
  OBVIOUS
<1> USE DEF AssemblyInit
<1>1. DOMAIN ccr = {} /\ Len(candidates) = 0 /\ Len(items) = 0 /\ 1..0 = {}
  OBVIOUS
<1>2. AssemblyTypeOK
  <2>1. rows \in [Memories -> Rows \union {Absent}]
    <3>1. \A t \in Texts : [there |-> TRUE, status |-> "active", rejected |-> FALSE, text |-> t] \in Rows
      BY DEF Rows, Statuses
    <3> QED
      BY <3>1
  <2>2. channel \in 1..Len(Channels)
    BY ChannelsAssumption
  <2>3. hits \in Seq(Memories) /\ Len(hits) <= RecallLimit
    BY LimitTypes
  <2>4. candidates \in Seq(Candidates) /\ items \in Seq([memory : Memories, text : Texts, tokens : Nat])
    OBVIOUS
  <2> QED
    BY <1>1, <2>1, <2>2, <2>3, <2>4, LimitTypes DEF AssemblyTypeOK
<1>3. SeenIsVisible /\ SearchIsVisible /\ CandidatesAreVisible /\ EntriesStand
  BY <1>1 DEF SeenIsVisible, SearchIsVisible, CandidatesAreVisible, EntriesStand
<1>4. ItemsAreCandidates
  BY <1>1, SpentNothing DEF ItemsAreCandidates
<1> QED
  BY <1>2, <1>3, <1>4 DEF AssemblyInv

\* A request begins.
LEMMA BeginStep == ASSUME AssemblyInv, NEW asked \in Requests, Begin(asked) PROVE AssemblyInv'
<1> USE DEF AssemblyInv, Begin
<1>1. /\ candidates' = << >> /\ items' = << >> /\ Len(candidates') = 0 /\ Len(items') = 0 /\ 1..0 = {}
      /\ asked.budget \in Nat
  BY LimitTypes DEF Requests
<1>2. AssemblyTypeOK'
  <2>1. channel' \in 1..Len(Channels)
    BY ChannelsAssumption
  <2>2. candidates' \in Seq(Candidates) /\ items' \in Seq([memory : Memories, text : Texts, tokens : Nat])
    BY <1>1
  <2>3. remaining' \in Nat /\ visible' \subseteq Memories /\ purged' \subseteq Memories /\ phase' = "search"
    BY <1>1 DEF Seen
  <2> QED
    BY <2>1, <2>2, <2>3 DEF AssemblyTypeOK
<1>3. SeenIsVisible'
  BY DEF SeenIsVisible
<1>4. SearchIsVisible'
  <2>1. \A m \in Memories : ~(scores[m] > 0)
    BY DEF SearchIsVisible
  <2> QED
    BY <2>1 DEF SearchIsVisible
<1>5. CandidatesAreVisible' /\ EntriesStand'
  BY <1>1 DEF CandidatesAreVisible, EntriesStand
<1>6. ItemsAreCandidates'
  BY <1>1, SpentNothing DEF ItemsAreCandidates
<1> QED
  BY <1>2, <1>3, <1>4, <1>5, <1>6

\* The context and the entries do not change while the memories are searched.
LEMMA ContextKept ==
  ASSUME AssemblyInv, UNCHANGED <<rows, ccr, request, candidates, items, remaining, visible, purged>>,
         phase \notin {"idle", "window", "pack", "done", "failed"}
  PROVE  CandidatesAreVisible' /\ EntriesStand' /\ ItemsAreCandidates'
<1>1. candidates = << >> /\ items = << >>
  BY DEF AssemblyInv, AssemblyTypeOK, ItemsAreCandidates
<1>2. CandidatesAreVisible' /\ EntriesStand'
  BY DEF AssemblyInv, CandidatesAreVisible, EntriesStand
<1>3. ItemsAreCandidates'
  BY <1>1 DEF AssemblyInv, ItemsAreCandidates
<1> QED
  BY <1>2, <1>3

\* A channel returns units that are there and visible.
LEMMA ReturnStep ==
  ASSUME AssemblyInv, NEW ranking \in Seq(Memories), Len(ranking) <= RecallLimit,
         \A i \in 1..Len(ranking) : ranking[i] \in visible /\ rows[ranking[i]].there,
         phase \in {"search", "fetch", "like"},
         Return(Units(ranking)),
         hits' \in Seq(Memories), Len(hits') <= RecallLimit
  PROVE  AssemblyInv'
<1> DEFINE units == Units(ranking)
           n == Len(ranking)
<1>1. n \in Nat /\ DOMAIN ranking = 1..n
  OBVIOUS
<1>2. /\ DOMAIN units = 1..n
      /\ \A i \in 1..n : units[i].memory = ranking[i] /\ units[i].row = rows[ranking[i]]
  BY <1>1 DEF Units
<1>3. \A i \in 1..n : units[i].memory \in visible /\ units[i].row \in Rows
  BY <1>1, <1>2, ThereIsRow DEF AssemblyInv, AssemblyTypeOK
<1>4. scores' = Scored(scores, units) /\ copies' = Copied(copies, units)
  BY DEF Return
<1> HIDE DEF units, n
<1>5. /\ scores' \in [Memories -> Nat]
      /\ \A m \in Memories : scores'[m] > 0 => scores[m] > 0 \/ \E i \in 1..n : units[i].memory = m
  <2>1. scores \in [Memories -> Nat]
    BY DEF AssemblyInv, AssemblyTypeOK
  <2>2. AreScores(Scored(scores, units), scores, units, n)
    BY <1>1, <1>2, <2>1, ScoredStep
  <2> QED
    BY <1>4, <2>2 DEF AreScores
<1>6. /\ copies' \in [Memories -> Rows \union {Absent}]
      /\ \A m \in Memories : (\E i \in 1..n : units[i].memory = m) => copies'[m] \in Rows
      /\ \A m \in Memories : copies'[m] = copies[m] \/ copies'[m] \in Rows
  BY <1>1, <1>2, <1>3, <1>4, CopiedStep DEF AssemblyInv, AssemblyTypeOK
<1>7. /\ UNCHANGED <<rows, ccr, request, candidates, items, remaining, visible, purged, writes>>
      /\ phase' \in {"search", "like", "rank"} /\ channel' \in 1..Len(Channels)
  <2>1. UNCHANGED <<rows, ccr, request, candidates, items, remaining, visible, purged, writes>>
    BY DEF Return
  <2>2. channel \in 1..Len(Channels) /\ Len(Channels) \in Nat
    BY ChannelsAssumption DEF AssemblyInv, AssemblyTypeOK
  <2>3. CASE channel < Len(Channels)
    BY <2>1, <2>2, <2>3 DEF Return
  <2>4. CASE ~(channel < Len(Channels))
    BY <2>1, <2>2, <2>4 DEF Return
  <2> QED
    BY <2>3, <2>4
<1>8. AssemblyTypeOK'
  BY <1>5, <1>6, <1>7 DEF AssemblyInv, AssemblyTypeOK
<1>9. SeenIsVisible'
  BY <1>7 DEF AssemblyInv, SeenIsVisible
<1>10. SearchIsVisible'
  <2>1. ASSUME NEW m \in Memories, scores'[m] > 0
        PROVE  m \in visible' /\ copies'[m] \in Rows
    <3>1. CASE scores[m] > 0
      BY <3>1, <1>6, <1>7 DEF AssemblyInv, SearchIsVisible
    <3>2. CASE \E i \in 1..n : units[i].memory = m
      BY <3>2, <1>3, <1>6, <1>7
    <3> QED
      BY <2>1, <3>1, <3>2, <1>5
  <2> QED
    BY <2>1, <1>7 DEF SearchIsVisible
<1>11. CandidatesAreVisible' /\ EntriesStand' /\ ItemsAreCandidates'
  BY <1>7, ContextKept
<1> QED
  BY <1>8, <1>9, <1>10, <1>11 DEF AssemblyInv

\* A channel that filters the copies it returns.
LEMMA ScanStep == ASSUME AssemblyInv, Scan PROVE AssemblyInv'
<1>1. phase \in {"search", "like"} /\ UNCHANGED hits
  BY DEF Scan
<1>2. PICK ranking \in Rankings(Allowed, RecallLimit) : Return(Units(ranking))
  BY DEF Scan
<1>3. /\ ranking \in Seq(Allowed) /\ Len(ranking) <= RecallLimit
      /\ \A i \in 1..Len(ranking) : ranking[i] \in Allowed
  BY LimitTypes, RankingParts
<1>4. Allowed \subseteq Memories /\ Allowed \subseteq visible /\ \A m \in Allowed : rows[m].there
  BY <1>1, AllowedIsSeen DEF Allowed, AssemblyInv, SeenIsVisible, SearchAllows
<1>5. ranking \in Seq(Memories)
  BY <1>3, <1>4
<1>6. \A i \in 1..Len(ranking) : ranking[i] \in visible /\ rows[ranking[i]].there
  BY <1>3, <1>4
<1>7. hits' \in Seq(Memories) /\ Len(hits') <= RecallLimit
  BY <1>1 DEF AssemblyInv, AssemblyTypeOK
<1> QED
  BY <1>1, <1>2, <1>3, <1>5, <1>6, <1>7, ReturnStep

\* The query of the text index.
LEMMA SelectStep == ASSUME AssemblyInv, Select PROVE AssemblyInv'
<1>1. /\ phase = "search" /\ phase' = "fetch"
      /\ UNCHANGED <<rows, ccr, request, channel, scores, copies, candidates, items, remaining,
                     visible, purged, writes>>
  BY DEF Select
<1>2. PICK ranking \in Rankings(Allowed, RecallLimit) : hits' = ranking
  BY DEF Select
<1>3. /\ ranking \in Seq(Allowed) /\ Len(ranking) <= RecallLimit
      /\ \A i \in 1..Len(ranking) : ranking[i] \in Allowed
  BY LimitTypes, RankingParts
<1>4. Allowed \subseteq Memories /\ Allowed \subseteq visible
  BY <1>1, AllowedIsSeen DEF Allowed, AssemblyInv, SeenIsVisible
<1>5. hits' \in Seq(Memories) /\ Len(hits') <= RecallLimit /\ \A i \in 1..Len(hits') : hits'[i] \in visible'
  BY <1>1, <1>2, <1>3, <1>4
<1>6. AssemblyTypeOK'
  BY <1>1, <1>5 DEF AssemblyInv, AssemblyTypeOK
<1>7. SeenIsVisible' /\ SearchIsVisible'
  BY <1>1, <1>5 DEF AssemblyInv, SeenIsVisible, SearchIsVisible
<1>8. CandidatesAreVisible' /\ EntriesStand' /\ ItemsAreCandidates'
  BY <1>1, ContextKept
<1> QED
  BY <1>6, <1>7, <1>8 DEF AssemblyInv

\* Its hits are read.
LEMMA FetchStep == ASSUME AssemblyInv, Fetch PROVE AssemblyInv'
<1> DEFINE present == {m \in Memories : rows[m].there}
           left == Within(hits, present)
<1>1. phase = "fetch" /\ Return(Units(left)) /\ hits' = << >>
  BY DEF Fetch
<1>2. hits \in Seq(Memories) /\ Len(hits) <= RecallLimit /\ Len(hits) \in Nat
  BY DEF AssemblyInv, AssemblyTypeOK
<1>3. left \in Seq(Memories) /\ IsPart(left, hits, present, Len(hits))
  BY <1>2, WithinIsPart
<1> HIDE DEF left
<1>4. PICK place \in [1..Len(left) -> 1..Len(hits)] :
        /\ \A i \in 1..Len(left) : left[i] = hits[place[i]] /\ left[i] \in present
        /\ \A i, j \in 1..Len(left) : i < j => place[i] < place[j]
  BY <1>3 DEF IsPart
<1>5. \A i \in 1..Len(left) : left[i] \in visible /\ rows[left[i]].there
  BY <1>1, <1>4 DEF AssemblyInv, SearchIsVisible
<1>6. Len(left) <= RecallLimit
  <2>1. Len(left) \in Nat
    BY <1>3
  <2>2. Len(left) <= Len(hits)
    BY <1>2, <1>4, <2>1, IncreasingIsShort
  <2> QED
    BY <1>2, <2>1, <2>2, LimitTypes
<1>7. hits' \in Seq(Memories) /\ Len(hits') <= RecallLimit
  BY <1>1, LimitTypes
<1> QED
  BY <1>1, <1>3, <1>5, <1>6, <1>7, ReturnStep

\* The recall becomes the candidates.
LEMMA RankStep == ASSUME AssemblyInv, Rank PROVE AssemblyInv'
<1>1. /\ phase = "rank" /\ phase' \in {"window", "pack"}
      /\ scores' = [m \in Memories |-> 0] /\ copies' = [m \in Memories |-> Absent]
      /\ UNCHANGED <<rows, ccr, request, channel, hits, items, remaining, visible, purged, writes>>
  BY DEF Rank
<1>2. PICK ranking \in Rankings(Recallable, RecallLimit) :
        candidates' = [i \in DOMAIN ranking |-> [memory |-> ranking[i], row |-> copies[ranking[i]]]]
  BY DEF Rank
<1>3. /\ Len(ranking) \in Nat /\ DOMAIN ranking = 1..Len(ranking)
      /\ \A i \in 1..Len(ranking) : ranking[i] \in Recallable
      /\ \A i, j \in 1..Len(ranking) : ranking[i] = ranking[j] => i = j
  BY LimitTypes, RankingParts
<1> DEFINE n == Len(ranking)
<1>4. \A m \in Recallable : m \in Memories /\ m \in visible /\ copies[m] \in Rows
  BY DEF AssemblyInv, SearchIsVisible, Recallable
<1>5. /\ candidates' = [i \in 1..n |-> [memory |-> ranking[i], row |-> copies[ranking[i]]]]
      /\ \A i \in 1..n : candidates'[i].memory = ranking[i]
  BY <1>2, <1>3
<1>6. candidates' \in Seq(Candidates) /\ Len(candidates') = n
  <2>1. \A i \in 1..n : [memory |-> ranking[i], row |-> copies[ranking[i]]] \in Candidates
    BY <1>3, <1>4 DEF Candidates
  <2> QED
    BY <1>3, <1>5, <2>1
<1>7. items = << >> /\ Len(items) = 0
  BY <1>1 DEF AssemblyInv, ItemsAreCandidates
<1>8. AssemblyTypeOK'
  BY <1>1, <1>6 DEF AssemblyInv, AssemblyTypeOK
<1>9. SeenIsVisible' /\ SearchIsVisible'
  BY <1>1 DEF AssemblyInv, SeenIsVisible, SearchIsVisible
<1>10. CandidatesAreVisible'
  BY <1>1, <1>3, <1>4, <1>5, <1>6 DEF CandidatesAreVisible
<1>11. EntriesStand'
  BY <1>1 DEF AssemblyInv, EntriesStand
<1>12. ItemsAreCandidates'
  BY <1>1, <1>3, <1>6, <1>7 DEF AssemblyInv, ItemsAreCandidates
<1> QED
  BY <1>8, <1>9, <1>10, <1>11, <1>12 DEF AssemblyInv

\* Candidates that are visible, each once.
Proper(list) ==
  /\ list \in Seq(Candidates)
  /\ \A i \in 1..Len(list) : list[i].memory \in visible
  /\ \A i, j \in 1..Len(list) : list[i].memory = list[j].memory => i = j

\* Merging two such lists makes another.
LEMMA MergedIsProper ==
  ASSUME NEW recalled, NEW active, Proper(recalled), Proper(active)
  PROVE  Proper(Merged(recalled, active))
<1> DEFINE new == {c \in Candidates : \A i \in DOMAIN recalled : recalled[i].memory # c.memory}
           rest == Within(active, new)
           n == Len(recalled)
           k == Len(rest)
           list == recalled \o rest
<1>1. /\ recalled \in Seq(Candidates) /\ active \in Seq(Candidates)
      /\ n \in Nat /\ Len(active) \in Nat /\ DOMAIN recalled = 1..n
  BY DEF Proper
<1>2. rest \in Seq(Candidates) /\ IsPart(rest, active, new, Len(active))
  BY <1>1, WithinIsPart
<1>3. Merged(recalled, active) = list
  BY DEF Merged
<1> HIDE DEF rest
<1>4. PICK place \in [1..k -> 1..Len(active)] :
        /\ \A i \in 1..k : rest[i] = active[place[i]] /\ rest[i] \in new
        /\ \A i, j \in 1..k : i < j => place[i] < place[j]
  BY <1>2 DEF IsPart
<1>5. k \in Nat /\ \A i \in 1..k : place[i] \in 1..Len(active)
  BY <1>2, <1>4
<1>6. \A i \in 1..k : rest[i].memory \in visible
  BY <1>4, <1>5 DEF Proper
<1>7. \A i, j \in 1..k : rest[i].memory = rest[j].memory => i = j
  <2> SUFFICES ASSUME NEW i \in 1..k, NEW j \in 1..k, rest[i].memory = rest[j].memory
               PROVE  i = j
    OBVIOUS
  <2>1. place[i] = place[j]
    BY <1>4, <1>5 DEF Proper
  <2>2. ~(place[i] < place[j]) /\ ~(place[j] < place[i])
    BY <1>1, <1>5, <2>1
  <2> QED
    BY <1>4, <1>5, <2>2
<1>8. \A i \in 1..n, j \in 1..k : recalled[i].memory # rest[j].memory
  BY <1>1, <1>4
<1>9. /\ list \in Seq(Candidates) /\ Len(list) = n + k
      /\ \A i \in 1..n : list[i] = recalled[i]
      /\ \A j \in 1..k : list[n + j] = rest[j]
  BY <1>1, <1>2, <1>5
<1> HIDE DEF list, n, k, new
<1>10. \A i \in 1..(n + k) : i \in 1..n \/ (i - n \in 1..k /\ i = n + (i - n))
  BY <1>1, <1>5
<1>11. \A i \in 1..(n + k) : list[i].memory \in visible
  <2> SUFFICES ASSUME NEW i \in 1..(n + k)
               PROVE  list[i].memory \in visible
    OBVIOUS
  <2>1. CASE i \in 1..n
    BY <2>1, <1>9 DEF Proper, n
  <2>2. CASE i - n \in 1..k /\ i = n + (i - n)
    <3>1. list[i] = rest[i - n]
      BY <2>2, <1>9
    <3> QED
      BY <2>2, <3>1, <1>6
  <2> QED
    BY <1>10, <2>1, <2>2
<1>12. ASSUME NEW i \in 1..(n + k), NEW j \in 1..(n + k), list[i].memory = list[j].memory
       PROVE  i = j
  <2>1. CASE i \in 1..n /\ j \in 1..n
    BY <1>12, <2>1, <1>9 DEF Proper, n
  <2>2. CASE i \in 1..n /\ (j - n \in 1..k /\ j = n + (j - n))
    <3>1. list[j] = rest[j - n] /\ list[i] = recalled[i]
      BY <2>2, <1>9
    <3> QED
      BY <1>12, <2>2, <3>1, <1>8
  <2>3. CASE j \in 1..n /\ (i - n \in 1..k /\ i = n + (i - n))
    <3>1. list[i] = rest[i - n] /\ list[j] = recalled[j]
      BY <2>3, <1>9
    <3> QED
      BY <1>12, <2>3, <3>1, <1>8
  <2>4. CASE (i - n \in 1..k /\ i = n + (i - n)) /\ (j - n \in 1..k /\ j = n + (j - n))
    <3>1. list[i] = rest[i - n] /\ list[j] = rest[j - n]
      BY <2>4, <1>9
    <3>2. i - n = j - n
      BY <1>12, <2>4, <3>1, <1>7
    <3> QED
      BY <2>4, <3>2
  <2> QED
    BY <1>10, <2>1, <2>2, <2>3, <2>4
<1> QED
  BY <1>3, <1>9, <1>11, <1>12 DEF Proper

\* The active window adds to them.
LEMMA WindowStep == ASSUME AssemblyInv, Window PROVE AssemblyInv'
<1> DEFINE eligible == {m \in Memories : WindowAllows(m, rows[m], request.strict)}
<1>1. /\ phase = "window" /\ phase' = "pack"
      /\ UNCHANGED <<rows, ccr, request, channel, hits, scores, copies, items, remaining, visible,
                     purged, writes>>
  BY DEF Window
<1>2. PICK ranking \in Rankings(eligible, ActiveLimit) : candidates' = Merged(candidates, Units(ranking))
  BY DEF Window
<1>3. eligible \subseteq Memories /\ eligible \subseteq visible /\ \A m \in eligible : rows[m] \in Rows
  BY <1>1, AllowedIsSeen, ThereIsRow DEF AssemblyInv, AssemblyTypeOK, SeenIsVisible, WindowAllows
<1> HIDE DEF eligible
<1>4. /\ Len(ranking) \in Nat /\ DOMAIN ranking = 1..Len(ranking)
      /\ \A i \in 1..Len(ranking) : ranking[i] \in eligible
      /\ \A i, j \in 1..Len(ranking) : ranking[i] = ranking[j] => i = j
  BY LimitTypes, RankingParts
<1>5. Proper(Units(ranking))
  <2> DEFINE n == Len(ranking)
  <2>1. /\ Units(ranking) = [i \in 1..n |-> [memory |-> ranking[i], row |-> rows[ranking[i]]]]
        /\ \A i \in 1..n : Units(ranking)[i].memory = ranking[i]
    BY <1>4 DEF Units
  <2>2. \A i \in 1..n : [memory |-> ranking[i], row |-> rows[ranking[i]]] \in Candidates
    BY <1>3, <1>4 DEF Candidates
  <2>3. Units(ranking) \in Seq(Candidates) /\ Len(Units(ranking)) = n
    BY <1>4, <2>1, <2>2
  <2> QED
    BY <1>3, <1>4, <2>1, <2>3 DEF Proper
<1>6. Proper(candidates)
  BY DEF AssemblyInv, AssemblyTypeOK, CandidatesAreVisible, Proper
<1>7. Proper(candidates')
  BY <1>2, <1>5, <1>6, MergedIsProper
<1>8. items = << >> /\ Len(items) = 0 /\ Len(candidates') \in Nat
  BY <1>1, <1>7 DEF AssemblyInv, ItemsAreCandidates, Proper
<1>9. AssemblyTypeOK'
  BY <1>1, <1>7 DEF AssemblyInv, AssemblyTypeOK, Proper
<1>10. SeenIsVisible' /\ SearchIsVisible'
  BY <1>1 DEF AssemblyInv, SeenIsVisible, SearchIsVisible
<1>11. CandidatesAreVisible'
  BY <1>1, <1>7 DEF CandidatesAreVisible, Proper
<1>12. EntriesStand'
  BY <1>1 DEF AssemblyInv, EntriesStand
<1>13. ItemsAreCandidates'
  BY <1>1, <1>8 DEF AssemblyInv, ItemsAreCandidates
<1> QED
  BY <1>9, <1>10, <1>11, <1>12, <1>13 DEF AssemblyInv

\* Entries under markers, each with the text its marker names and a memory that is there.
Whole(entries) ==
  \A k \in DOMAIN entries :
    k \in Markers /\ entries[k] \in Texts /\ entries[k] = k[2] /\ rows[k[1]].there

\* Storing a text adds its entry and leaves the others.
LEMMA CachedStep ==
  ASSUME NEW m \in Memories, NEW text \in Texts, rows[m].there, Whole(ccr)
  PROVE  /\ DOMAIN Cached(ccr, m, text) = DOMAIN ccr \union {<<m, text>>}
         /\ Whole(Cached(ccr, m, text))
<1> DEFINE new == Cached(ccr, m, text)
<1>1. DOMAIN new = DOMAIN ccr \union {<<m, text>>}
  BY DEF Cached, Marker
<1>2. new[<<m, text>>] = text /\ \A k \in DOMAIN ccr : k # <<m, text>> => new[k] = ccr[k]
  BY DEF Cached, Marker
<1>3. <<m, text>> \in Markers
  BY DEF Markers, Marker
<1> HIDE DEF new
<1>4. Whole(new)
  BY <1>1, <1>2, <1>3 DEF Whole
<1> QED
  BY <1>1, <1>4 DEF new

\* The entries, as the invariant and the type invariant know them.
LEMMA EntriesNow ==
  ASSUME AssemblyInv
  PROVE  Whole(ccr)
BY DEF AssemblyInv, AssemblyTypeOK, EntriesStand, Whole

\* The next candidate is packed.
LEMMA PackStep ==
  ASSUME AssemblyInv, NEW len \in 1..MaxLength, NEW counts \in TokenCounts, Pack(len, counts)
  PROVE  AssemblyInv'
<1> DEFINE c == Next1
           clip == IF request.tokenizer THEN ClipTokens(counts, len, remaining)
                                        ELSE ClipChars(len, remaining)
           item == [memory |-> c.memory, text |-> c.row.text, tokens |-> clip.tokens]
           Item == [memory : Memories, text : Texts, tokens : Nat]
           n == Len(items)
<1>1. /\ phase = "pack" /\ n < Len(candidates) /\ remaining > 0 /\ rows[c.memory].there
      /\ ccr' = Cached(ccr, c.memory, c.row.text) /\ purged' = purged \ {c.memory}
      /\ UNCHANGED <<rows, request, channel, hits, scores, copies, candidates, visible, writes>>
  BY DEF Pack, CanCache
<1>2. \/ phase' = "done" /\ UNCHANGED <<items, remaining>>
      \/ items' = Append(items, item) /\ remaining' = remaining - clip.tokens /\ phase' = phase
  BY DEF Pack
<1>3. /\ remaining \in Nat /\ items \in Seq(Item) /\ candidates \in Seq(Candidates)
      /\ n \in Nat /\ Len(candidates) \in Nat
  BY DEF AssemblyInv, AssemblyTypeOK
<1>4. clip.tokens \in 0..remaining
  <2>1. CharsPerToken \in Nat \ {0} /\ remaining \in Nat \ {0} /\ len \in Nat
    BY <1>1, <1>3, BoundsAssumption
  <2>2. ClipChars(len, remaining).tokens \in 0..remaining
    BY <2>1, ClipCharsFits
  <2>3. ClipTokens(counts, len, remaining).tokens \in 0..remaining
    BY <2>1, ClipTokensFits, BoundsAssumption, CountsAssumption
  <2> QED
    BY <2>2, <2>3
<1>5. c = candidates[n + 1] /\ n + 1 \in 1..Len(candidates)
  BY <1>1, <1>3 DEF Next1
<1>6. c \in Candidates
  BY <1>3, <1>5
<1>7. c.memory \in Memories /\ c.row.text \in Texts
  BY <1>6, ThereIsRow DEF Candidates
<1> HIDE DEF c, clip
<1>8. item \in Item /\ item.memory = c.memory /\ item.text = c.row.text /\ item.tokens = clip.tokens
  BY <1>4, <1>7
<1> HIDE DEF item, n
<1>9. /\ DOMAIN ccr' = DOMAIN ccr \union {<<c.memory, c.row.text>>}
      /\ \A k \in DOMAIN ccr' : k \in Markers /\ ccr'[k] \in Texts /\ ccr'[k] = k[2] /\ rows[k[1]].there
  <2>1. /\ DOMAIN Cached(ccr, c.memory, c.row.text) = DOMAIN ccr \union {<<c.memory, c.row.text>>}
        /\ Whole(Cached(ccr, c.memory, c.row.text))
    BY <1>1, <1>7, EntriesNow, CachedStep
  <2> QED
    BY <1>1, <2>1 DEF Whole
<1>10. CASE phase' = "done" /\ UNCHANGED <<items, remaining>>
  <2>1. AssemblyTypeOK'
    BY <1>1, <1>9, <1>10 DEF AssemblyInv, AssemblyTypeOK
  <2>2. SeenIsVisible' /\ SearchIsVisible' /\ CandidatesAreVisible'
    BY <1>1, <1>10 DEF AssemblyInv, SeenIsVisible, SearchIsVisible, CandidatesAreVisible
  <2>3. ItemsAreCandidates'
    BY <1>1, <1>10 DEF AssemblyInv, ItemsAreCandidates
  <2>4. EntriesStand'
    <3>1. \A i \in 1..n : items[i].memory # c.memory
      <4>1. \A i \in 1..n : items[i].memory = candidates[i].memory /\ i \in 1..Len(candidates) /\ i # n + 1
        BY <1>1, <1>3 DEF AssemblyInv, ItemsAreCandidates, n
      <4> QED
        BY <1>5, <4>1 DEF AssemblyInv, CandidatesAreVisible
    <3> QED
      BY <1>1, <1>9, <1>10, <3>1 DEF AssemblyInv, EntriesStand, n
  <2> QED
    BY <2>1, <2>2, <2>3, <2>4 DEF AssemblyInv
<1>11. CASE items' = Append(items, item) /\ remaining' = remaining - clip.tokens /\ phase' = phase
  <2>1. /\ items' \in Seq(Item) /\ Len(items') = n + 1 /\ items'[n + 1] = item
        /\ \A i \in 1..n : items'[i] = items[i]
    BY <1>3, <1>8, <1>11 DEF n
  <2>2. \A i \in 1..(n + 1) : i \in 1..n \/ i = n + 1
    BY <1>3
  <2>3. remaining' \in Nat
    BY <1>3, <1>4, <1>11
  <2>4. AssemblyTypeOK'
    BY <1>1, <1>9, <1>11, <2>1, <2>3 DEF AssemblyInv, AssemblyTypeOK
  <2>5. SeenIsVisible' /\ SearchIsVisible' /\ CandidatesAreVisible'
    BY <1>1, <1>11 DEF AssemblyInv, SeenIsVisible, SearchIsVisible, CandidatesAreVisible
  <2>6. \A i \in 1..n : items[i].memory = candidates[i].memory /\ i \in 1..Len(candidates) /\ i # n + 1
    BY <1>1, <1>3 DEF AssemblyInv, ItemsAreCandidates, n
  <2>7. ItemsAreCandidates'
    <3>1. \A x \in Item : x.tokens \in Nat
      OBVIOUS
    <3>2. Spent(items') = Spent(items) + clip.tokens /\ Spent(items) \in Nat
      BY <1>3, <1>8, <1>11, <3>1, SpentMore
    <3>3. remaining' + Spent(items') = request.budget
      BY <1>3, <1>4, <1>11, <3>2 DEF AssemblyInv, ItemsAreCandidates
    <3>4. \A i \in 1..(n + 1) : items'[i].memory = candidates[i].memory
      BY <1>5, <1>8, <2>1, <2>2, <2>6
    <3> QED
      BY <1>1, <1>3, <1>11, <2>1, <3>3, <3>4 DEF ItemsAreCandidates
  <2>8. EntriesStand'
    <3>1. \A i \in 1..n : items[i].memory # c.memory
      BY <1>5, <2>6 DEF AssemblyInv, CandidatesAreVisible
    <3>2. \A i \in 1..n : items[i].memory \in purged' \/ <<items[i].memory, items[i].text>> \in DOMAIN ccr'
      BY <1>1, <1>9, <3>1 DEF AssemblyInv, EntriesStand, n
    <3>3. <<item.memory, item.text>> \in DOMAIN ccr'
      BY <1>8, <1>9
    <3> QED
      BY <1>1, <1>9, <2>1, <2>2, <3>2, <3>3 DEF EntriesStand
  <2> QED
    BY <2>4, <2>5, <2>7, <2>8 DEF AssemblyInv
<1> QED
  BY <1>2, <1>10, <1>11

\* Packing fails or ends.
LEMMA PackOverStep == ASSUME AssemblyInv, PackFails \/ PackEnds PROVE AssemblyInv'
<1>1. /\ phase = "pack" /\ phase' \in {"done", "failed"}
      /\ UNCHANGED <<rows, ccr, request, channel, hits, scores, copies, candidates, items, remaining,
                     visible, purged, writes>>
  BY DEF PackFails, PackEnds
<1>2. AssemblyTypeOK'
  BY <1>1 DEF AssemblyInv, AssemblyTypeOK
<1>3. SeenIsVisible' /\ SearchIsVisible' /\ CandidatesAreVisible' /\ EntriesStand'
  BY <1>1 DEF AssemblyInv, SeenIsVisible, SearchIsVisible, CandidatesAreVisible, EntriesStand
<1>4. ItemsAreCandidates'
  BY <1>1 DEF AssemblyInv, ItemsAreCandidates
<1> QED
  BY <1>2, <1>3, <1>4 DEF AssemblyInv

\* A memory is written by another process.
LEMMA WriteStep == ASSUME AssemblyInv, NEW m \in Memories, NEW new \in Rows, Write(m, new) PROVE AssemblyInv'
<1>1. /\ rows' = [rows EXCEPT ![m] = new] /\ writes < MaxWrites /\ writes' = writes + 1
      /\ visible' = visible \union Seen(rows', request.strict)
      /\ UNCHANGED <<ccr, request, phase, channel, hits, scores, copies, candidates, items, remaining, purged>>
  BY DEF Write
<1>2. /\ rows \in [Memories -> Rows \union {Absent}] /\ writes \in 0..MaxWrites /\ visible \subseteq Memories
      /\ MaxWrites \in Nat
  BY LimitTypes DEF AssemblyInv, AssemblyTypeOK
<1>3. /\ rows' \in [Memories -> Rows \union {Absent}] /\ writes' \in 0..MaxWrites
      /\ visible' \subseteq Memories /\ visible \subseteq visible'
  BY <1>1, <1>2 DEF Seen
<1>4. \A k \in Memories : rows[k].there => rows'[k].there
  BY <1>1, <1>2, ThereIsRow
<1>5. AssemblyTypeOK'
  BY <1>1, <1>3 DEF AssemblyInv, AssemblyTypeOK
<1>6. SeenIsVisible'
  BY <1>1 DEF SeenIsVisible
<1>7. SearchIsVisible' /\ CandidatesAreVisible'
  BY <1>1, <1>3 DEF AssemblyInv, SearchIsVisible, CandidatesAreVisible
<1>8. ItemsAreCandidates'
  BY <1>1 DEF AssemblyInv, ItemsAreCandidates
<1>9. EntriesStand'
  <2>1. \A k \in DOMAIN ccr : k[1] \in Memories
    BY EntriesNow DEF Whole, Markers, Marker
  <2> QED
    BY <1>1, <1>4, <2>1 DEF AssemblyInv, EntriesStand
<1> QED
  BY <1>5, <1>6, <1>7, <1>8, <1>9 DEF AssemblyInv

\* A memory is deleted for good, with its entries.
LEMMA PurgeStep == ASSUME AssemblyInv, NEW m \in Memories, Purge(m) PROVE AssemblyInv'
<1>1. /\ rows' = [rows EXCEPT ![m] = Absent] /\ writes < MaxWrites /\ writes' = writes + 1
      /\ ccr' = [k \in {k \in DOMAIN ccr : k[1] # m} |-> ccr[k]] /\ purged' = purged \union {m}
      /\ UNCHANGED <<request, phase, channel, hits, scores, copies, candidates, items, remaining, visible>>
  BY DEF Purge
<1>2. /\ rows \in [Memories -> Rows \union {Absent}] /\ writes \in 0..MaxWrites
      /\ MaxWrites \in Nat
  BY LimitTypes DEF AssemblyInv, AssemblyTypeOK
<1>3. /\ rows' \in [Memories -> Rows \union {Absent}] /\ writes' \in 0..MaxWrites
      /\ rows'[m] = Absent /\ \A k \in Memories : k # m => rows'[k] = rows[k]
  BY <1>1, <1>2
<1>4. \A k \in DOMAIN ccr' : k \in DOMAIN ccr /\ k[1] # m /\ ccr'[k] = ccr[k]
  BY <1>1
<1>5. \A k \in DOMAIN ccr : k[1] # m => k \in DOMAIN ccr'
  BY <1>1
<1>6. AssemblyTypeOK'
  BY <1>1, <1>3, <1>4 DEF AssemblyInv, AssemblyTypeOK
<1>7. SeenIsVisible'
  <2>1. Seen(rows', request.strict) \subseteq Seen(rows, request.strict)
    BY <1>3, ThereIsRow DEF Seen, MaySee
  <2> QED
    BY <1>1, <2>1 DEF AssemblyInv, SeenIsVisible
<1>8. SearchIsVisible' /\ CandidatesAreVisible'
  BY <1>1 DEF AssemblyInv, SearchIsVisible, CandidatesAreVisible
<1>9. ItemsAreCandidates'
  BY <1>1 DEF AssemblyInv, ItemsAreCandidates
<1>10. EntriesStand'
  <2>1. \A k \in DOMAIN ccr : k[1] \in Memories
    BY EntriesNow DEF Whole, Markers, Marker
  <2>2. \A k \in DOMAIN ccr' : ccr'[k] = k[2] /\ rows'[k[1]].there
    BY <1>3, <1>4, <2>1 DEF AssemblyInv, EntriesStand
  <2>3. ASSUME NEW i \in 1..Len(items)
        PROVE  items[i].memory \in purged' \/ <<items[i].memory, items[i].text>> \in DOMAIN ccr'
    BY <1>1, <1>5 DEF AssemblyInv, EntriesStand
  <2> QED
    BY <1>1, <2>2, <2>3 DEF EntriesStand
<1> QED
  BY <1>6, <1>7, <1>8, <1>9, <1>10 DEF AssemblyInv

\* Another request stores the text of a memory.
LEMMA CompressElsewhereStep ==
  ASSUME AssemblyInv, NEW m \in Memories, CompressElsewhere(m) PROVE AssemblyInv'
<1>1. /\ rows[m].there /\ ccr' = Cached(ccr, m, rows[m].text)
      /\ UNCHANGED <<rows, request, phase, channel, hits, scores, copies, candidates, items, remaining,
                     visible, purged, writes>>
  BY DEF CompressElsewhere
<1>2. rows[m].text \in Texts
  BY <1>1, ThereIsRow DEF AssemblyInv, AssemblyTypeOK
<1>3. /\ DOMAIN ccr' = DOMAIN ccr \union {<<m, rows[m].text>>}
      /\ \A k \in DOMAIN ccr' : k \in Markers /\ ccr'[k] \in Texts /\ ccr'[k] = k[2] /\ rows[k[1]].there
  <2>1. /\ DOMAIN Cached(ccr, m, rows[m].text) = DOMAIN ccr \union {<<m, rows[m].text>>}
        /\ Whole(Cached(ccr, m, rows[m].text))
    BY <1>1, <1>2, EntriesNow, CachedStep
  <2> QED
    BY <1>1, <2>1 DEF Whole
<1>4. AssemblyTypeOK'
  BY <1>1, <1>3 DEF AssemblyInv, AssemblyTypeOK
<1>5. SeenIsVisible' /\ SearchIsVisible' /\ CandidatesAreVisible'
  BY <1>1 DEF AssemblyInv, SeenIsVisible, SearchIsVisible, CandidatesAreVisible
<1>6. ItemsAreCandidates'
  BY <1>1 DEF AssemblyInv, ItemsAreCandidates
<1>7. EntriesStand'
  BY <1>1, <1>3 DEF AssemblyInv, EntriesStand
<1> QED
  BY <1>4, <1>5, <1>6, <1>7 DEF AssemblyInv

\* Every step keeps the invariant.
LEMMA NextAssemblyInv == AssemblyInv /\ [AssemblyNext]_assemblyVars => AssemblyInv'
<1> SUFFICES ASSUME AssemblyInv, [AssemblyNext]_assemblyVars PROVE AssemblyInv'
  OBVIOUS
<1>1. ASSUME NEW asked \in Requests, Begin(asked) PROVE AssemblyInv'
  BY <1>1, BeginStep
<1>2. CASE Scan
  BY <1>2, ScanStep
<1>3. CASE Select
  BY <1>3, SelectStep
<1>4. CASE Fetch
  BY <1>4, FetchStep
<1>5. CASE Rank
  BY <1>5, RankStep
<1>6. CASE Window
  BY <1>6, WindowStep
<1>7. ASSUME NEW len \in 1..MaxLength, NEW counts \in TokenCounts, Pack(len, counts) PROVE AssemblyInv'
  BY <1>7, PackStep
<1>8. CASE PackFails \/ PackEnds
  BY <1>8, PackOverStep
<1>9. ASSUME NEW m \in Memories, NEW new \in Rows, Write(m, new) PROVE AssemblyInv'
  BY <1>9, WriteStep
<1>10. ASSUME NEW m \in Memories, Purge(m) PROVE AssemblyInv'
  BY <1>10, PurgeStep
<1>11. ASSUME NEW m \in Memories, CompressElsewhere(m) PROVE AssemblyInv'
  BY <1>11, CompressElsewhereStep
<1>12. CASE UNCHANGED assemblyVars
  BY <1>12 DEF assemblyVars, AssemblyInv, AssemblyTypeOK, SeenIsVisible, SearchIsVisible,
     CandidatesAreVisible, ItemsAreCandidates, EntriesStand
<1> QED
  BY <1>1, <1>2, <1>3, <1>4, <1>5, <1>6, <1>7, <1>8, <1>9, <1>10, <1>11, <1>12 DEF AssemblyNext

\* So it always holds.
LEMMA AssemblyInvariant == AssemblySpec => []AssemblyInv
  BY InitAssemblyInv, NextAssemblyInv, PTL DEF AssemblySpec

\* Every variable keeps its type (ContextAssembly.tla).
THEOREM AssemblyTypeCorrect == AssemblySpec => []AssemblyTypeOK
<1>1. AssemblyInv => AssemblyTypeOK
  BY DEF AssemblyInv
<1> QED
  BY <1>1, AssemblyInvariant, PTL

\* In every state, of a table that is finite: a request that ranks finds one recall and no
\* other, so that Rank neither stops nor chooses.
THEOREM RecallIsDeterminedHolds ==
  ASSUME IsFiniteSet(Memories)
  PROVE  AssemblySpec => []RecallIsDetermined
<1>1. AssemblyInv => RecallIsDetermined
  <2> SUFFICES ASSUME AssemblyInv PROVE RecallIsDetermined
    OBVIOUS
  <2>1. scores \in [Memories -> Nat] /\ RecallLimit \in Nat
    BY LimitTypes DEF AssemblyInv, AssemblyTypeOK
  <2>2. IsFiniteSet(Recallable)
    BY FS_Subset DEF Recallable
  <2>3. \A ranking : Recalled(ranking) <=> RecalledOf(ranking, RecallLimit)
    BY DEF Recalled, RecalledOf
  <2> QED
    BY <2>1, <2>2, <2>3, RecallExists, RecallIsUnique DEF RecallIsDetermined
<1> QED
  BY <1>1, AssemblyInvariant, PTL

\* A memory the session could not see at any moment of the request is not in its context,
\* through whichever channel or window it came and however old the copy was
\* (recall_policy.py:16, active_window.py:219, fts.py:103).
THEOREM OnlyVisibleIsRecalledHolds == AssemblySpec => []OnlyVisibleIsRecalled
<1>1. AssemblyInv => OnlyVisibleIsRecalled
  <2> SUFFICES ASSUME AssemblyInv, NEW i \in DOMAIN items PROVE items[i].memory \in visible
    BY DEF OnlyVisibleIsRecalled
  <2>1. Len(items) \in Nat /\ Len(candidates) \in Nat /\ i \in 1..Len(items)
    BY DEF AssemblyInv, AssemblyTypeOK
  <2>2. i \in 1..Len(candidates) /\ items[i].memory = candidates[i].memory
    BY <2>1 DEF AssemblyInv, ItemsAreCandidates
  <2> QED
    BY <2>2 DEF AssemblyInv, CandidatesAreVisible
<1> QED
  BY <1>1, AssemblyInvariant, PTL

\* A marker given out retrieves the very text its item was made from until the memory is
\* purged, and no entry outlives its memory (headroom.py:48, sqlite_store.py:1837).
THEOREM MarkersStandHolds == AssemblySpec => []MarkersStand
<1>1. AssemblyInv => MarkersStand
  <2> SUFFICES ASSUME AssemblyInv PROVE MarkersStand
    OBVIOUS
  <2>1. DOMAIN items = 1..Len(items)
    BY DEF AssemblyInv, AssemblyTypeOK
  <2>2. \A i \in DOMAIN items : items[i].memory \notin purged =>
          /\ <<items[i].memory, items[i].text>> \in DOMAIN ccr
          /\ ccr[<<items[i].memory, items[i].text>>] = items[i].text
    BY <2>1 DEF AssemblyInv, EntriesStand
  <2>3. \A m \in Memories, text \in Texts : <<m, text>> \in DOMAIN ccr => rows[m].there
    BY DEF AssemblyInv, EntriesStand
  <2> QED
    BY <2>2, <2>3 DEF MarkersStand, Marker
<1> QED
  BY <1>1, AssemblyInvariant, PTL

\* The items are the first candidates, each memory once, and what they cost and what is
\* left make up the budget (gateway.py:28, fusion.py:25).
THEOREM PackedInOrderHolds == AssemblySpec => []PackedInOrder
<1>1. AssemblyInv => PackedInOrder
  <2> SUFFICES ASSUME AssemblyInv PROVE PackedInOrder
    OBVIOUS
  <2>1. /\ DOMAIN items = 1..Len(items) /\ Len(items) \in Nat /\ Len(candidates) \in Nat
        /\ remaining \in Nat
    BY DEF AssemblyInv, AssemblyTypeOK
  <2>2. /\ Len(items) <= Len(candidates) /\ remaining + Spent(items) = request.budget
        /\ \A i \in DOMAIN items : items[i].memory = candidates[i].memory /\ i \in 1..Len(candidates)
    BY <2>1 DEF AssemblyInv, ItemsAreCandidates
  <2>3. \A i, j \in DOMAIN items : items[i].memory = items[j].memory => i = j
    BY <2>2 DEF AssemblyInv, CandidatesAreVisible
  <2> QED
    BY <2>1, <2>2, <2>3 DEF PackedInOrder
<1> QED
  BY <1>1, AssemblyInvariant, PTL

\* Whatever is left of the budget, the binary search finds a prefix that fits, and the
\* longest one for a tokenizer that never counts fewer tokens of a longer text: for every
\* length and every tokenizer, of which the model checker sees five (token_budget.py:84).
THEOREM ClipIsLongestHolds == AssemblySpec => []ClipIsLongest
<1>1. AssemblyInv => ClipIsLongest
  <2> SUFFICES ASSUME AssemblyInv, remaining > 0, NEW counts \in TokenCounts, NEW len \in 1..MaxLength
               PROVE  LET clip == ClipTokens(counts, len, remaining)
                          fits == {n \in 0..len : counts[n] <= remaining}
                      IN  /\ clip.kept \in fits
                          /\ clip.tokens <= remaining
                          /\ Rising(counts) => \A n \in fits : n <= clip.kept
    BY DEF ClipIsLongest
  <2>1. remaining \in Nat \ {0}
    BY DEF AssemblyInv, AssemblyTypeOK
  <2> DEFINE clip == ClipTokens(counts, len, remaining)
  <2>2. /\ clip.kept \in 0..len /\ counts[clip.kept] <= remaining /\ clip.tokens \in 0..remaining
        /\ Rising(counts) => \A n \in 0..len : counts[n] <= remaining => n <= clip.kept
    BY <2>1, ClipTokensFits, BoundsAssumption, CountsAssumption
  <2> HIDE DEF clip
  <2>3. clip.tokens <= remaining
    BY <2>1, <2>2
  <2> QED
    BY <2>2, <2>3 DEF clip
<1> QED
  BY <1>1, AssemblyInvariant, PTL
=============================================================================
