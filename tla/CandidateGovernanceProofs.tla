--------------------- MODULE CandidateGovernanceProofs ---------------------
(* Proofs about CandidateGovernance, for any number of callers, calls and   *)
(* crashes and any order in which the calls overlap.                        *)
EXTENDS CandidateGovernance, TLAPS

-----------------------------------------------------------------------------
(* What the operators on rows return *)

\* A row as a builder or the engine makes it.
LEMMA NewRows ==
  ASSUME NEW s \in {"none", "observing", "active", "tombstoned"},
         NEW l \in {"short", "long", "permanent"}
  PROVE  /\ NewRow(s, l) \in Row
         /\ NewRow(s, l).status = s /\ NewRow(s, l).life = l
         /\ NewRow(s, l).verdict = "pending"
  BY DEF NewRow, Row

\* The rows that stand for none.
LEMMA NoRows == NoRow \in Row /\ NoRow.status = "none" /\ NoRow.verdict = "pending"
                /\ NoRow.life = "short" /\ NoEdge \in EdgeRow
<1>1. NoEdge \in EdgeRow
  BY DEF NoEdge, EdgeRow
<1> QED
  BY <1>1, NewRows DEF NoRow

\* What a plan makes of a row follows from its verdict; only a scene or a persona
\* item, or an approved demotion, takes a tombstone away.
Follows(p, r, a) ==
  /\ a \in Row
  /\ a.verdict \in {r.verdict, p[2]}
  /\ r.status # "none" => a.status # "none"
  /\ a.status = "active" => r.status = "active" \/ p[2] = "approved"
  /\ a.life = "permanent" => r.life = "permanent" \/ p[2] = "approved"
  /\ r.status = "tombstoned" =>
       a.status = "tombstoned" \/ p[1] \in {"scene", "persona"} \/ p = <<"demotion", "approved">>

\* Clearing a mark changes nothing else.
LEMMA ClearedRows ==
  ASSUME NEW i, NEW r \in Row
  PROVE  /\ Cleared(i, r) \in Row /\ Cleared(i, r).status = r.status
         /\ Cleared(i, r).life = r.life /\ Cleared(i, r).verdict = r.verdict
<1> DEFINE m == IF r.mark = i THEN "none" ELSE r.mark
<1>1. m \in {"none", "promotion", "demotion"}
  BY DEF Row
<1>2. Cleared(i, r) = [r EXCEPT !.mark = m]
  BY Zenon DEF Cleared
<1> HIDE DEF m
<1> QED
  BY <1>1, <1>2 DEF Row

\* The parts of a pair.
LEMMA Second ==
  ASSUME NEW p, NEW x, NEW y, p = <<x, y>>
  PROVE  p[1] = x /\ p[2] = y
  OBVIOUS

\* What applying a plan returns.
LEMMA AppliedRows ==
  ASSUME NEW p \in Plans, NEW r \in Row
  PROVE  Follows(p, r, Applied(p, r))
<1> DEFINE a == [r EXCEPT !.acted = p]
<1>1. a \in Row /\ a.status = r.status /\ a.life = r.life /\ a.verdict = r.verdict
  BY DEF Row
<1>2. Applied(p, r) =
        CASE p = <<"promotion", "approved">> ->
               [Cleared("promotion", a) EXCEPT !.life = "long", !.verdict = "approved"]
          [] p[1] \in {"promotion", "demotion"} /\ p[2] = "rejected" -> Cleared(p[1], a)
          [] p = <<"demotion", "approved">> -> [a EXCEPT !.status = "observing", !.verdict = "approved"]
          [] p = <<"scene", "approved">>    -> [a EXCEPT !.status = "active", !.verdict = "approved"]
          [] p = <<"persona", "approved">>  ->
               [a EXCEPT !.status = "active", !.life = "permanent", !.verdict = "approved",
                         !.mark = "none"]
          [] p = <<"persona", "rejected">>  -> [a EXCEPT !.verdict = "rejected"]
          [] OTHER -> a
  BY Zenon DEF Applied
<1> HIDE DEF a
<1>3. "approved" \in Verdicts /\ "rejected" \in Verdicts
  BY DEF Verdicts
<1>4. CASE p = <<"promotion", "approved">>
  <2> DEFINE b == Cleared("promotion", a)
  <2>1. b \in Row /\ b.status = r.status /\ b.life = r.life /\ b.verdict = r.verdict
    BY <1>1, ClearedRows
  <2>2. Applied(p, r) = [b EXCEPT !.life = "long", !.verdict = "approved"]
    BY <1>2, <1>4
  <2> HIDE DEF b
  <2> QED
    <3>1. Applied(p, r) \in Row /\ Applied(p, r).status = r.status
          /\ Applied(p, r).verdict = "approved" /\ Applied(p, r).life = "long"
      BY <2>1, <2>2, <1>3 DEF Row
    <3> QED
      BY <3>1, <1>4, Second DEF Follows
<1>5. CASE p[1] \in {"promotion", "demotion"} /\ p[2] = "rejected"
  <2>1. Applied(p, r) = Cleared(p[1], a)
    BY <1>2, <1>5
  <2> QED
    BY <2>1, <1>1, ClearedRows DEF Follows
<1>6. CASE p = <<"demotion", "approved">>
  <2>1. Applied(p, r) = [a EXCEPT !.status = "observing", !.verdict = "approved"]
    BY <1>2, <1>6
  <2>2. Applied(p, r) \in Row /\ Applied(p, r).status = "observing"
        /\ Applied(p, r).verdict = "approved" /\ Applied(p, r).life = r.life
    BY <2>1, <1>1, <1>3 DEF Row
  <2> QED
    BY <2>2, <1>6, Second DEF Follows
<1>7. CASE p = <<"scene", "approved">>
  <2>1. Applied(p, r) = [a EXCEPT !.status = "active", !.verdict = "approved"]
    BY <1>2, <1>7
  <2>2. Applied(p, r) \in Row /\ Applied(p, r).status = "active"
        /\ Applied(p, r).verdict = "approved" /\ Applied(p, r).life = r.life
    BY <2>1, <1>1, <1>3 DEF Row
  <2> QED
    BY <2>2, <1>7, Second DEF Follows
<1>8. CASE p = <<"persona", "approved">>
  <2> DEFINE b == [a EXCEPT !.status = "active", !.life = "permanent"]
  <2>1. b \in Row /\ b.status = "active" /\ b.life = "permanent"
    BY <1>1, <1>3 DEF Row
  <2>2. Applied(p, r) = [b EXCEPT !.verdict = "approved", !.mark = "none"]
    BY <1>1, <1>2, <1>8 DEF Row
  <2> HIDE DEF b
  <2>3. Applied(p, r) \in Row /\ Applied(p, r).status = "active"
        /\ Applied(p, r).verdict = "approved" /\ Applied(p, r).life = "permanent"
    BY <2>1, <2>2, <1>3 DEF Row
  <2> QED
    BY <2>3, <1>8, Second DEF Follows
<1>9. CASE p = <<"persona", "rejected">>
  <2>1. Applied(p, r) = [a EXCEPT !.verdict = "rejected"]
    BY <1>2, <1>9
  <2>2. Applied(p, r) \in Row /\ Applied(p, r).status = r.status
        /\ Applied(p, r).verdict = "rejected" /\ Applied(p, r).life = r.life
    BY <2>1, <1>1, <1>3 DEF Row
  <2> QED
    BY <2>2, <1>9, Second DEF Follows
<1>10. CASE p \notin {<<"promotion", "approved">>, <<"demotion", "approved">>,
                      <<"scene", "approved">>, <<"persona", "approved">>, <<"persona", "rejected">>}
            /\ ~(p[1] \in {"promotion", "demotion"} /\ p[2] = "rejected")
  <2>1. Applied(p, r) = a
    BY <1>2, <1>10
  <2> QED
    BY <2>1, <1>1 DEF Follows
<1> QED
  BY <1>4, <1>5, <1>6, <1>7, <1>8, <1>9, <1>10

\* What a lifecycle cycle may make of a row: active only by a promotion, and
\* never permanent or reviewed.
LEMMA GovernedRows ==
  ASSUME NEW r \in Row, NEW g \in Governed(r)
  PROVE  /\ g \in Row /\ g.verdict = r.verdict
         /\ r.status # "none" => g.status # "none"
         /\ g.status = "active" =>
              r.status = "active" \/ (g.life = "long" /\ r.life = "short")
         /\ g.life = "permanent" => r.life = "permanent"
<1>1. CASE \E m \in {"none", "promotion", "demotion"} : g = [r EXCEPT !.mark = m]
  BY <1>1 DEF Row
<1>2. CASE r.life = "short" /\ g = [r EXCEPT !.life = "long", !.mark = "none",
                                    !.status = IF @ = "observing" THEN "active" ELSE @]
  <2> DEFINE s == IF r.status = "observing" THEN "active" ELSE r.status
             b == [r EXCEPT !.life = "long", !.mark = "none"]
  <2>1. s \in {"none", "observing", "active", "tombstoned"} /\ (r.status # "none" => s # "none")
    BY DEF Row
  <2>2. b \in Row /\ b.life = "long" /\ b.verdict = r.verdict /\ b.status = r.status
    BY DEF Row
  <2>3. g = [r EXCEPT !.life = "long", !.mark = "none", !.status = s]
    BY <1>2, Zenon
  <2> HIDE DEF s
  <2>4. g = [b EXCEPT !.status = s]
    BY <2>3 DEF Row
  <2> HIDE DEF b
  <2> QED
    BY <2>1, <2>2, <2>4, <1>2 DEF Row
<1>3. CASE r.life = "long" /\ g = [r EXCEPT !.life = "short", !.mark = "none", !.status = "observing"]
  <2> DEFINE b == [r EXCEPT !.life = "short", !.mark = "none"]
  <2>1. b \in Row /\ b.life = "short" /\ b.verdict = r.verdict
    BY DEF Row
  <2>2. g = [b EXCEPT !.status = "observing"]
    BY <1>3 DEF Row
  <2> HIDE DEF b
  <2> QED
    BY <2>1, <2>2 DEF Row
<1> QED
  <2>1. \/ g \in {[r EXCEPT !.mark = m] : m \in {"none", "promotion", "demotion"}}
        \/ g \in {h \in {[r EXCEPT !.life = "long", !.mark = "none",
                                   !.status = IF @ = "observing" THEN "active" ELSE @]} : r.life = "short"}
        \/ g \in {h \in {[r EXCEPT !.life = "short", !.mark = "none", !.status = "observing"]} : r.life = "long"}
    BY Zenon DEF Governed
  <2> QED
    BY <2>1, <1>1, <1>2, <1>3, Zenon

-----------------------------------------------------------------------------
(* The inductive invariant *)

Logging == {"log", "link", "linkWrite"}
Pending == {task[c] : c \in {d \in Callers : pc[d] \in Logging}}

\* What a caller knows at each place: the kind of its task, what it has read, and
\* what the plan it applies was found from.
Local(c) ==
  /\ pc[c] \in {"mark", "markEdge"} => task[c] \in Marks
  /\ pc[c] \in {"find", "apply", "write"} => task[c] \in Plans
  /\ pc[c] \in {"putEdge", "look", "createScene", "link", "linkWrite"} =>
       task[c] = Create /\ kind = "autoScene"
  /\ pc[c] = "createPersona" => task[c] = Create /\ kind = "autoPersona"
  /\ pc[c] = "rollback" => task[c] = Undo
  /\ pc[c] = "log" => task[c] \in Events
  /\ pc[c] = "createScene" => seen[c][1].status = "none"
  /\ pc[c] \in {"mark", "rollback", "govern"} => seen[c][1] = copy[c]
  /\ pc[c] = "write" /\ ~overtaken => seen[c][1] = copy[c]
  /\ pc[c] \in {"rollback", "govern"} => copy[c].status # "none"
  /\ pc[c] = "write" /\ task[c][1] # "edge" => copy[c].status # "none"
  /\ pc[c] \in {"apply", "write"} /\ task[c][1] # "edge" =>
       /\ seen[c][1].verdict = task[c][2]
       /\ task[c][2] = "approved" => approved
       /\ task[c][1] \in {"scene", "persona"} => seen[c][1].status = "observing"

\* What holds of the row and of every copy of it, however old.
Fine(r) ==
  /\ r.status # "none" /\ kind \in {"autoScene", "autoPersona"} => Create \in done
  /\ r.verdict = "approved" => approved
  /\ kind \in {"scene", "persona"} =>
       /\ r.status = "active" => approved \/ promoted
       /\ r.life = "permanent" => approved

Inv ==
  /\ TypeOK
  /\ \A c \in Callers : Local(c) /\ Fine(copy[c])
  /\ Fine(row)
  /\ done = logged \cup cut \cup Pending
  /\ VerdictHolds
  /\ RollbackHolds

\* A step of one caller: nothing of the others changes, and what has happened stays.
Only(c) ==
  /\ \A d \in Callers \ {c} : /\ pc'[d] = pc[d] /\ task'[d] = task[d]
                              /\ copy'[d] = copy[d] /\ seen'[d] = seen[d]
  /\ kind' = kind
  /\ (approved => approved') /\ (promoted => promoted') /\ (overtaken => overtaken')
  /\ done \subseteq done'

\* A step that writes no row and logs nothing.
Quiet(c) ==
  /\ Only(c)
  /\ row' = row /\ done' = done /\ logged' = logged /\ cut' = cut /\ said' = said
  /\ approved' = approved /\ promoted' = promoted /\ rolled' = rolled /\ revived' = revived
  /\ copy'[c] \in {copy[c], row, NoRow}

\* What the others know and hold stays true.
LEMMA OthersKeep ==
  ASSUME Inv, NEW c \in Callers, Only(c)
  PROVE  \A d \in Callers \ {c} : Local(d)' /\ Fine(copy[d])'
<1> TAKE d \in Callers \ {c}
<1>1. Local(d) /\ Fine(copy[d])
  BY DEF Inv
<1>2. Local(d)'
  BY <1>1 DEF Local, Only
<1>3. Fine(copy[d])'
  BY <1>1 DEF Fine, Only
<1> QED
  BY <1>2, <1>3

\* What is about to be logged changes with the caller's place.
LEMMA PendingChanges ==
  ASSUME NEW c \in Callers, Only(c)
  PROVE  /\ pc[c] \notin Logging /\ pc'[c] \notin Logging => Pending' = Pending
         /\ pc[c] \notin Logging /\ pc'[c] \in Logging => Pending' = Pending \cup {task'[c]}
         /\ pc[c] \in Logging /\ pc'[c] \in Logging /\ task'[c] = task[c] => Pending' = Pending
         /\ pc[c] \in Logging /\ pc'[c] \notin Logging =>
              Pending \cup {task[c]} = Pending' \cup {task[c]}
<1>1. \A d \in Callers \ {c} : pc'[d] = pc[d] /\ task'[d] = task[d]
  BY DEF Only
<1>2. \A x : x \in Pending <=> \E d \in Callers : pc[d] \in Logging /\ x = task[d]
  BY DEF Pending
<1>3. \A x : x \in Pending' <=> \E d \in Callers : pc'[d] \in Logging /\ x = task'[d]
  BY DEF Pending, Logging
<1> HIDE DEF Pending, Logging
<1>4. ASSUME pc[c] \notin Logging, pc'[c] \notin Logging PROVE Pending' = Pending
  BY <1>1, <1>2, <1>3, <1>4
<1>5. ASSUME pc[c] \notin Logging, pc'[c] \in Logging PROVE Pending' = Pending \cup {task'[c]}
  BY <1>1, <1>2, <1>3, <1>5
<1>6. ASSUME pc[c] \in Logging, pc'[c] \in Logging, task'[c] = task[c] PROVE Pending' = Pending
  BY <1>1, <1>2, <1>3, <1>6
<1>7. ASSUME pc[c] \in Logging, pc'[c] \notin Logging
      PROVE  Pending \cup {task[c]} = Pending' \cup {task[c]}
  BY <1>1, <1>2, <1>3, <1>7
<1> QED
  BY <1>4, <1>5, <1>6, <1>7

\* A quiet step keeps the invariant if the caller knows what its new place asks for.
LEMMA QuietKeeps ==
  ASSUME Inv, NEW c \in Callers, Quiet(c), TypeOK', Local(c)', Pending' = Pending
  PROVE  Inv'
<1>1. Fine(row) /\ Fine(copy[c])
  BY DEF Inv
<1>2. Only(c)
  BY DEF Quiet
<1>3. Fine(row)'
  BY <1>1 DEF Quiet, Only, Fine
<1>4. Fine(NoRow)'
  BY NoRows DEF Fine
<1>5. Fine(copy[c])'
  BY <1>1, <1>3, <1>4 DEF Quiet, Only, Fine
<1>6. \A d \in Callers : Local(d)' /\ Fine(copy[d])'
  BY <1>2, <1>5, OthersKeep
<1>7. (done = logged \cup cut \cup Pending)'
  BY DEF Quiet, Inv
<1>8. VerdictHolds'
  BY DEF Inv, VerdictHolds, Quiet, Only
<1>9. RollbackHolds'
  BY DEF Inv, RollbackHolds, Quiet, Only
<1> QED
  BY <1>3, <1>6, <1>7, <1>8, <1>9 DEF Inv

\* The invariant gives the property of the log.
LEMMA PendingIsLogged == Inv => LogMatchesWrites
  BY DEF Inv, Pending, Logging, LogMatchesWrites

\* It holds at first.
LEMMA InitInv == Init => Inv
<1> SUFFICES ASSUME Init PROVE Inv
  OBVIOUS
<1>1. TypeOK
  <2>1. pc \in [Callers -> Locations]
    BY DEF Init, Locations
  <2>2. {overtaken, approved, promoted, rolled, revived} \subseteq BOOLEAN
    BY DEF Init
  <2>3. copy \in [Callers -> Row] /\ edgeCopy \in [Callers -> EdgeRow]
        /\ seen \in [Callers -> Row \X EdgeRow]
    BY NoRows DEF Init
  <2> QED
    BY <2>1, <2>2, <2>3, NoRows, CandidateGovernanceAssumption DEF Init, TypeOK, Kinds
<1>2. \A c \in Callers : Local(c)
  BY DEF Init, Local
<1>3. Fine(NoRow)
  BY NoRows DEF Fine
<1>4. Fine(row) /\ \A c \in Callers : Fine(copy[c])
  BY <1>3 DEF Init
<1>5. done = logged \cup cut \cup Pending
  BY DEF Init, Pending, Logging
<1>6. VerdictHolds /\ RollbackHolds
  BY NoRows DEF Init, VerdictHolds, RollbackHolds
<1> QED
  BY <1>1, <1>2, <1>4, <1>5, <1>6 DEF Inv

-----------------------------------------------------------------------------
(* Steps that write no row *)

Tasks == Events \cup Marks \cup {NoPlan}

\* What the steps of a call do to its state, and that they do it to no other's.
LEMMA Steps ==
  ASSUME TypeOK, NEW c \in Callers
  PROVE  /\ \A l \in Locations : GoTo(c, l) =>
              /\ pc' \in [Callers -> Locations] /\ pc'[c] = l
              /\ \A d \in Callers \ {c} : pc'[d] = pc[d]
         /\ \A l \in Locations, t \in Tasks : Begin(c, l, t) =>
              /\ pc' \in [Callers -> Locations] /\ pc[c] = "idle" /\ pc'[c] = l
              /\ task' \in [Callers -> Tasks] /\ task'[c] = t
              /\ \A d \in Callers \ {c} : pc'[d] = pc[d] /\ task'[d] = task[d]
              /\ calls' \in 0..MaxCalls
         /\ Read(c) =>
              /\ copy' \in [Callers -> Row] /\ copy'[c] = row
              /\ edgeCopy' \in [Callers -> EdgeRow] /\ edgeCopy'[c] = edge
              /\ \A d \in Callers \ {c} : copy'[d] = copy[d] /\ edgeCopy'[d] = edgeCopy[d]
         /\ Look(c) =>
              /\ seen' \in [Callers -> Row \X EdgeRow] /\ seen'[c] = <<row, edge>>
              /\ seen'[c][1] = row
              /\ \A d \in Callers \ {c} : seen'[d] = seen[d]
         /\ Drop(c) =>
              /\ copy' \in [Callers -> Row] /\ copy'[c] = NoRow
              /\ edgeCopy' \in [Callers -> EdgeRow]
              /\ seen' \in [Callers -> Row \X EdgeRow]
              /\ \A d \in Callers \ {c} : copy'[d] = copy[d] /\ seen'[d] = seen[d]
         /\ Finish(c) =>
              /\ pc' \in [Callers -> Locations] /\ pc'[c] = "idle"
              /\ task' \in [Callers -> Tasks]
              /\ todo' \in [Callers -> SUBSET Plans] /\ known' \in [Callers -> SUBSET Events]
              /\ copy' \in [Callers -> Row] /\ copy'[c] = NoRow
              /\ edgeCopy' \in [Callers -> EdgeRow]
              /\ seen' \in [Callers -> Row \X EdgeRow]
              /\ \A d \in Callers \ {c} : /\ pc'[d] = pc[d] /\ task'[d] = task[d]
                                          /\ copy'[d] = copy[d] /\ seen'[d] = seen[d]
         /\ Overtaken(c) => overtaken' \in BOOLEAN /\ (overtaken => overtaken')
                            /\ (~overtaken' => seen[c] = <<row, edge>> /\ seen[c][1] = row)
<1>1. ASSUME NEW l \in Locations, GoTo(c, l)
      PROVE  /\ pc' \in [Callers -> Locations] /\ pc'[c] = l
             /\ \A d \in Callers \ {c} : pc'[d] = pc[d]
  BY <1>1 DEF TypeOK, GoTo
<1>2. ASSUME NEW l \in Locations, NEW t \in Tasks, Begin(c, l, t)
      PROVE  /\ pc' \in [Callers -> Locations] /\ pc[c] = "idle" /\ pc'[c] = l
             /\ task' \in [Callers -> Tasks] /\ task'[c] = t
             /\ \A d \in Callers \ {c} : pc'[d] = pc[d] /\ task'[d] = task[d]
             /\ calls' \in 0..MaxCalls
  BY <1>1, <1>2, CandidateGovernanceAssumption DEF TypeOK, Begin, Tasks
<1>3. ASSUME Read(c)
      PROVE  /\ copy' \in [Callers -> Row] /\ copy'[c] = row
             /\ edgeCopy' \in [Callers -> EdgeRow] /\ edgeCopy'[c] = edge
             /\ \A d \in Callers \ {c} : copy'[d] = copy[d] /\ edgeCopy'[d] = edgeCopy[d]
  BY <1>3 DEF TypeOK, Read
<1>4. ASSUME Look(c)
      PROVE  /\ seen' \in [Callers -> Row \X EdgeRow] /\ seen'[c] = <<row, edge>>
             /\ seen'[c][1] = row
             /\ \A d \in Callers \ {c} : seen'[d] = seen[d]
  BY <1>4 DEF TypeOK, Look
<1>5. ASSUME Drop(c)
      PROVE  /\ copy' \in [Callers -> Row] /\ copy'[c] = NoRow
             /\ edgeCopy' \in [Callers -> EdgeRow]
             /\ seen' \in [Callers -> Row \X EdgeRow]
             /\ \A d \in Callers \ {c} : copy'[d] = copy[d] /\ seen'[d] = seen[d]
  BY <1>5, NoRows DEF TypeOK, Drop
<1>6. ASSUME Finish(c)
      PROVE  /\ pc' \in [Callers -> Locations] /\ pc'[c] = "idle"
             /\ task' \in [Callers -> Tasks]
             /\ todo' \in [Callers -> SUBSET Plans] /\ known' \in [Callers -> SUBSET Events]
             /\ \A d \in Callers \ {c} : pc'[d] = pc[d] /\ task'[d] = task[d]
  <2>1. "idle" \in Locations
    BY DEF Locations
  <2>2. GoTo(c, "idle")
    BY <1>6 DEF Finish
  <2>3. pc' \in [Callers -> Locations] /\ pc'[c] = "idle" /\ \A d \in Callers \ {c} : pc'[d] = pc[d]
    BY <2>1, <2>2, <1>1
  <2> QED
    BY <2>3, <1>6 DEF TypeOK, Finish, Tasks
<1>7. Finish(c) => Drop(c)
  BY DEF Finish
<1>8. ASSUME Overtaken(c)
      PROVE  overtaken' \in BOOLEAN /\ (overtaken => overtaken')
             /\ (~overtaken' => seen[c] = <<row, edge>> /\ seen[c][1] = row)
  <2> DEFINE differs == seen[c] # <<row, edge>>
  <2>1. overtaken' = (overtaken \/ differs)
    BY <1>8, Zenon DEF Overtaken
  <2>2. ~differs => seen[c] = <<row, edge>> /\ seen[c][1] = row
    OBVIOUS
  <2> HIDE DEF differs
  <2>3. overtaken' \in BOOLEAN /\ (overtaken => overtaken') /\ (~overtaken' => ~differs)
    BY <2>1, Zenon
  <2> QED
    BY <2>2, <2>3, Zenon
<1> QED
  BY <1>1, <1>2, <1>3, <1>4, <1>5, <1>6, <1>7, <1>8

\* A call that begins by reading.
LEMMA Begins ==
  ASSUME Inv, NEW c \in Callers, NEW l \in Locations \ Logging, NEW t \in Tasks,
         Begin(c, l, t), Read(c) \/ UNCHANGED <<copy, edgeCopy>>, Look(c) \/ UNCHANGED seen,
         todo' \in [Callers -> SUBSET Plans],
         UNCHANGED <<kind, stored, known, crashes, records>>, Local(c)'
  PROVE  Inv'
<1>1. TypeOK
  BY DEF Inv
<1>2. /\ pc' \in [Callers -> Locations] /\ pc[c] = "idle" /\ pc'[c] = l
      /\ task' \in [Callers -> Tasks] /\ calls' \in 0..MaxCalls
      /\ \A d \in Callers \ {c} : pc'[d] = pc[d] /\ task'[d] = task[d]
  BY <1>1, Steps
<1>3. /\ copy' \in [Callers -> Row] /\ edgeCopy' \in [Callers -> EdgeRow]
      /\ copy'[c] \in {copy[c], row}
      /\ \A d \in Callers \ {c} : copy'[d] = copy[d]
  BY <1>1, Steps DEF TypeOK
<1>4. seen' \in [Callers -> Row \X EdgeRow] /\ \A d \in Callers \ {c} : seen'[d] = seen[d]
  BY <1>1, Steps DEF TypeOK
<1>5. TypeOK'
  BY <1>1, <1>2, <1>3, <1>4 DEF TypeOK, Tasks, stored, records
<1>6. Quiet(c)
  BY <1>2, <1>3, <1>4 DEF Quiet, Only, stored, records
<1>7. Pending' = Pending
  BY <1>2, <1>6, PendingChanges DEF Quiet, Logging
<1> QED
  BY <1>5, <1>6, <1>7, QuietKeeps

\* A step from one place to another that reads, or changes only the edge.
LEMMA Goes ==
  ASSUME Inv, NEW c \in Callers, NEW l \in Locations, GoTo(c, l),
         pc[c] \in Logging <=> l \in Logging,
         Read(c) \/ UNCHANGED <<copy, edgeCopy>>, Look(c) \/ UNCHANGED seen,
         task' \in [Callers -> Tasks], \A d \in Callers \ {c} : task'[d] = task[d],
         pc[c] \in Logging => task'[c] = task[c],
         todo' \in [Callers -> SUBSET Plans], known' \in [Callers -> SUBSET Events],
         edge' \in EdgeRow, overtaken' \in BOOLEAN, overtaken => overtaken',
         UNCHANGED <<kind, row, logged, calls, crashes, done, cut, said,
                     approved, promoted, rolled, revived>>,
         Local(c)'
  PROVE  Inv'
<1>1. TypeOK
  BY DEF Inv
<1>2. pc' \in [Callers -> Locations] /\ pc'[c] = l /\ \A d \in Callers \ {c} : pc'[d] = pc[d]
  BY <1>1, Steps
<1>3. /\ copy' \in [Callers -> Row] /\ edgeCopy' \in [Callers -> EdgeRow]
      /\ copy'[c] \in {copy[c], row}
      /\ \A d \in Callers \ {c} : copy'[d] = copy[d]
  BY <1>1, Steps DEF TypeOK
<1>4. seen' \in [Callers -> Row \X EdgeRow] /\ \A d \in Callers \ {c} : seen'[d] = seen[d]
  BY <1>1, Steps DEF TypeOK
<1>5. TypeOK'
  BY <1>1, <1>2, <1>3, <1>4 DEF TypeOK, Tasks
<1>6. Quiet(c)
  BY <1>2, <1>3, <1>4 DEF Quiet, Only
<1>7. Pending' = Pending
  BY <1>2, <1>6, PendingChanges DEF Quiet
<1> QED
  BY <1>5, <1>6, <1>7, QuietKeeps

\* A step that ends the call with nothing written to the row or to be logged.
LEMMA Ends ==
  ASSUME Inv, NEW c \in Callers, Finish(c), pc[c] \notin Logging,
         edge' \in EdgeRow, overtaken' \in BOOLEAN, overtaken => overtaken',
         UNCHANGED <<kind, row, logged, calls, crashes, done, cut, said,
                     approved, promoted, rolled, revived>>
  PROVE  Inv'
<1>1. TypeOK
  BY DEF Inv
<1>2. /\ pc' \in [Callers -> Locations] /\ pc'[c] = "idle"
      /\ task' \in [Callers -> Tasks]
      /\ todo' \in [Callers -> SUBSET Plans] /\ known' \in [Callers -> SUBSET Events]
      /\ copy' \in [Callers -> Row] /\ copy'[c] = NoRow
      /\ edgeCopy' \in [Callers -> EdgeRow] /\ seen' \in [Callers -> Row \X EdgeRow]
      /\ \A d \in Callers \ {c} : /\ pc'[d] = pc[d] /\ task'[d] = task[d]
                                  /\ copy'[d] = copy[d] /\ seen'[d] = seen[d]
  BY <1>1, Steps
<1>3. TypeOK'
  BY <1>1, <1>2 DEF TypeOK, Tasks
<1>4. Quiet(c)
  BY <1>2 DEF Quiet, Only
<1>5. Local(c)'
  BY <1>2 DEF Local
<1>6. Pending' = Pending
  BY <1>2, <1>4, PendingChanges DEF Quiet, Logging
<1> QED
  BY <1>3, <1>4, <1>5, <1>6, QuietKeeps

\* A mark of the memory, when it is read.
LEMMA MarkReadKeeps ==
  ASSUME Inv, NEW c \in Callers, MarkRead(c)
  PROVE  Inv'
<1>1. PICK v \in Verdicts : Begin(c, "mark", <<"mark", v>>)
  BY DEF MarkRead
<1>2. <<"mark", v>> \in Marks /\ <<"mark", v>> \in Tasks /\ "mark" \in Locations \ Logging
  BY DEF Marks, Tasks, Locations, Logging
<1>3. pc'[c] = "mark" /\ task'[c] = <<"mark", v>> /\ copy'[c] = row /\ seen'[c][1] = row
  BY <1>1, <1>2, Steps DEF MarkRead, Inv
<1>4. Local(c)'
  BY <1>2, <1>3 DEF Local
<1>5. todo' \in [Callers -> SUBSET Plans]
  BY DEF MarkRead, Inv, TypeOK
<1> QED
  BY <1>1, <1>2, <1>4, <1>5, Begins DEF MarkRead

\* A mark of the edge, when it is read.
LEMMA MarkEdgeReadKeeps ==
  ASSUME Inv, NEW c \in Callers, MarkEdgeRead(c)
  PROVE  Inv'
<1>1. PICK v \in Verdicts : Begin(c, "markEdge", <<"mark", v>>)
  BY DEF MarkEdgeRead
<1>2. <<"mark", v>> \in Marks /\ <<"mark", v>> \in Tasks /\ "markEdge" \in Locations \ Logging
  BY DEF Marks, Tasks, Locations, Logging
<1>3. pc'[c] = "markEdge" /\ task'[c] = <<"mark", v>>
  BY <1>1, <1>2, Steps DEF MarkEdgeRead, Inv
<1>4. Local(c)'
  BY <1>2, <1>3 DEF Local
<1>5. todo' \in [Callers -> SUBSET Plans]
  BY DEF MarkEdgeRead, Inv, TypeOK
<1> QED
  BY <1>1, <1>2, <1>4, <1>5, Begins DEF MarkEdgeRead

\* A call that applies one plan.
LEMMA ApplyCallKeeps ==
  ASSUME Inv, NEW c \in Callers, ApplyCall(c)
  PROVE  Inv'
<1>1. PICK p \in Plans : Begin(c, "find", p)
  BY DEF ApplyCall
<1>2. p \in Tasks /\ "find" \in Locations \ Logging
  BY DEF Tasks, Events, Locations, Logging
<1>3. pc'[c] = "find" /\ task'[c] = p
  BY <1>1, <1>2, Steps DEF Inv
<1>4. Local(c)'
  BY <1>3 DEF Local
<1>5. todo' \in [Callers -> SUBSET Plans]
  BY DEF ApplyCall, Inv, TypeOK
<1> QED
  BY <1>1, <1>2, <1>4, <1>5, Begins DEF ApplyCall, read

\* A batch, when it lists the plans.
LEMMA BatchCallKeeps ==
  ASSUME Inv, NEW c \in Callers, BatchCall(c)
  PROVE  Inv'
<1>1. Begin(c, "events", NoPlan)
  BY DEF BatchCall
<1>2. NoPlan \in Tasks /\ "events" \in Locations \ Logging
  BY DEF Tasks, Locations, Logging
<1>3. pc'[c] = "events"
  BY <1>1, <1>2, Steps DEF Inv
<1>4. Local(c)'
  BY <1>3 DEF Local
<1>5. todo' \in [Callers -> SUBSET Plans]
  <2>1. PICK rejected \in BOOLEAN, second \in BOOLEAN :
          todo' = [todo EXCEPT ![c] = {p \in Planned : /\ p[2] = "rejected" => rejected
                                                       /\ NeedsSecondConfirmation(p) => second}]
    BY Zenon DEF BatchCall
  <2>2. Planned \subseteq Plans
    BY DEF Planned
  <2> QED
    BY <2>1, <2>2 DEF Inv, TypeOK
<1> QED
  BY <1>1, <1>2, <1>4, <1>5, Begins DEF BatchCall, read

\* A batch, when it lists the events.
LEMMA BatchEventsKeeps ==
  ASSUME Inv, NEW c \in Callers, BatchEvents(c)
  PROVE  Inv'
<1>1. GoTo(c, "batch") /\ "batch" \in Locations \ Logging /\ pc[c] \notin Logging
  BY DEF BatchEvents, Locations, Logging
<1>2. pc'[c] = "batch"
  BY <1>1, Steps DEF Inv
<1>3. Local(c)'
  BY <1>2 DEF Local
<1>4. /\ todo' \in [Callers -> SUBSET Plans] /\ known' \in [Callers -> SUBSET Events]
      /\ task' \in [Callers -> Tasks] /\ edge' \in EdgeRow /\ overtaken' \in BOOLEAN
  BY DEF BatchEvents, Inv, TypeOK, Tasks, stored, records
<1> QED
  BY <1>1, <1>3, <1>4, Goes DEF BatchEvents, stored, records, read

\* A batch, at its next plan.
LEMMA BatchNextKeeps ==
  ASSUME Inv, NEW c \in Callers, BatchNext(c)
  PROVE  Inv'
<1>1. TypeOK /\ edge' \in EdgeRow /\ overtaken' \in BOOLEAN /\ pc[c] = "batch"
  BY DEF BatchNext, Inv, TypeOK, stored, records
<1>2. CASE todo[c] = {} /\ Finish(c)
  BY <1>1, <1>2, Ends DEF BatchNext, Logging, stored, records
<1>3. CASE todo[c] # {}
  <2> DEFINE p == Foremost(c)
  <2>1. p \in Plans
    <3>1. todo[c] \subseteq Plans
      BY <1>1 DEF TypeOK
    <3>2. \E q \in todo[c] :
            {x \in todo[c] : x[1] \in {"promotion", "demotion"}} = {}
              \/ q \in {x \in todo[c] : x[1] \in {"promotion", "demotion"}}
      BY <1>3
    <3> QED
      BY <3>1, <3>2, Zenon DEF Foremost
  <2>2. /\ todo' = [todo EXCEPT ![c] = @ \ {p}]
        /\ IF AlreadyApplied(c, p) THEN UNCHANGED <<pc, task>>
           ELSE GoTo(c, "find") /\ task' = [task EXCEPT ![c] = p]
        /\ UNCHANGED <<known, read>> /\ UNCHANGED <<kind, stored, calls, crashes, records>>
    BY <1>3, Zenon DEF BatchNext
  <2> HIDE DEF p
  <2>3. /\ todo' \in [Callers -> SUBSET Plans] /\ known' \in [Callers -> SUBSET Events]
    BY <1>1, <2>2 DEF TypeOK
  <2>4. CASE AlreadyApplied(c, p)
    <3>1. GoTo(c, "batch") /\ "batch" \in Locations /\ "batch" \notin Logging
      BY <1>1, <2>2, <2>4 DEF GoTo, TypeOK, Locations, Logging
    <3>2. Local(c)'
      BY <1>1, <2>2, <2>4 DEF Local
    <3>3. task' \in [Callers -> Tasks] /\ task' = task
      BY <1>1, <2>2, <2>4 DEF TypeOK, Tasks
    <3> QED
      BY <1>1, <2>2, <2>3, <3>1, <3>2, <3>3, Goes DEF stored, records, read
  <2>5. CASE ~AlreadyApplied(c, p)
    <3>1. GoTo(c, "find") /\ "find" \in Locations /\ "find" \notin Logging
          /\ "batch" \notin Logging /\ task' = [task EXCEPT ![c] = p]
      BY <2>2, <2>5 DEF Locations, Logging
    <3>2. task' \in [Callers -> Tasks] /\ task'[c] = p
          /\ \A d \in Callers \ {c} : task'[d] = task[d]
      BY <1>1, <2>1, <3>1 DEF TypeOK, Tasks, Events
    <3>3. Local(c)'
      BY <1>1, <2>1, <3>1, <3>2, Steps DEF Local
    <3> QED
      BY <1>1, <2>2, <2>3, <3>1, <3>2, <3>3, Goes DEF stored, records, read
  <2> QED
    BY <2>4, <2>5
<1> QED
  BY <1>2, <1>3 DEF BatchNext

\* Going on after a plan that nothing was made of.
LEMMA OnwardKeeps ==
  ASSUME Inv, NEW c \in Callers, Onward(c), pc[c] \in {"find", "apply"},
         UNCHANGED <<kind, stored, calls, crashes, records>>
  PROVE  Inv'
<1>1. /\ TypeOK /\ edge' \in EdgeRow /\ overtaken' \in BOOLEAN
      /\ pc[c] \notin Logging /\ "batch" \in Locations /\ "batch" \notin Logging
  BY DEF Inv, TypeOK, stored, records, Logging, Locations
<1>2. CASE Finish(c)
  BY <1>1, <1>2, Ends DEF stored, records
<1>3. CASE GoTo(c, "batch") /\ UNCHANGED held
  <2>1. pc'[c] = "batch"
    BY <1>1, <1>3, Steps
  <2>2. Local(c)'
    BY <2>1 DEF Local
  <2>3. /\ task' \in [Callers -> Tasks] /\ task' = task
        /\ todo' \in [Callers -> SUBSET Plans] /\ known' \in [Callers -> SUBSET Events]
    BY <1>1, <1>3 DEF TypeOK, Tasks, held
  <2> QED
    BY <1>1, <1>3, <2>2, <2>3, Goes DEF stored, records, held, read
<1> QED
  BY <1>2, <1>3 DEF Onward

\* What a plan is found from: an item that is listed, and its verdict.
LEMMA PlansFollow ==
  ASSUME NEW p \in Planned, p[1] # "edge"
  PROVE  /\ row.verdict = p[2]
         /\ p[1] \in {"scene", "persona"} => row.status = "observing"
<1>1. p \in Plans /\ Listed(p[1]) /\ VerdictOf(p[1]) = p[2]
  BY DEF Planned
<1>2. row.verdict = p[2]
  BY <1>1 DEF VerdictOf
<1>3. CASE p[1] = "scene"
  BY <1>1, <1>2, <1>3 DEF Listed
<1>4. CASE p[1] = "persona"
  BY <1>1, <1>2, <1>4 DEF Listed
<1> QED
  BY <1>2, <1>3, <1>4

\* A plan is looked for.
LEMMA ApplyFindKeeps ==
  ASSUME Inv, NEW c \in Callers, ApplyFind(c)
  PROVE  Inv'
<1>1. /\ TypeOK /\ pc[c] = "find" /\ task[c] \in Plans /\ Fine(row)
      /\ UNCHANGED <<kind, stored, calls, crashes, records>>
  BY DEF Inv, ApplyFind, Local
<1>2. CASE /\ task[c] \in Planned
           /\ GoTo(c, "apply") /\ Look(c)
           /\ UNCHANGED <<task, todo, known, copy, edgeCopy>>
  <2>1. "apply" \in Locations /\ "apply" \notin Logging /\ pc[c] \notin Logging
        /\ edge' \in EdgeRow /\ overtaken' \in BOOLEAN
    BY <1>1 DEF Locations, Logging, TypeOK, stored, records
  <2>2. pc'[c] = "apply" /\ task'[c] = task[c] /\ seen'[c][1] = row /\ approved' = approved
    BY <1>1, <1>2, <2>1, Steps DEF records
  <2>3. task[c][1] # "edge" =>
          /\ row.verdict = task[c][2]
          /\ task[c][2] = "approved" => approved
          /\ task[c][1] \in {"scene", "persona"} => row.status = "observing"
    BY <1>1, <1>2, PlansFollow DEF Fine
  <2>4. Local(c)'
    BY <1>1, <2>2, <2>3 DEF Local
  <2>5. /\ task' \in [Callers -> Tasks] /\ task' = task
        /\ todo' \in [Callers -> SUBSET Plans] /\ known' \in [Callers -> SUBSET Events]
    BY <1>1, <1>2 DEF TypeOK, Tasks
  <2> QED
    BY <1>1, <1>2, <2>1, <2>4, <2>5, Goes DEF stored, records
<1>3. CASE Onward(c)
  BY <1>1, <1>3, OnwardKeeps
<1> QED
  BY <1>2, <1>3 DEF ApplyFind

\* The target of a plan is read.
LEMMA ApplyReadKeeps ==
  ASSUME Inv, NEW c \in Callers, ApplyRead(c)
  PROVE  Inv'
<1>1. /\ TypeOK /\ pc[c] = "apply" /\ Local(c)
      /\ UNCHANGED <<kind, stored, calls, crashes, done, cut, said, approved,
                     promoted, rolled, revived>>
  BY DEF Inv, ApplyRead
<1>2. CASE /\ Target(c) /\ GoTo(c, "write") /\ Read(c) /\ Overtaken(c)
           /\ UNCHANGED <<task, todo, known, seen>>
  <2>1. "write" \in Locations /\ "write" \notin Logging /\ pc[c] \notin Logging
        /\ edge' \in EdgeRow
    BY <1>1 DEF Locations, Logging, TypeOK, stored
  <2>2. overtaken' \in BOOLEAN /\ (overtaken => overtaken')
        /\ (~overtaken' => seen[c][1] = row)
    BY <1>1, <1>2, Steps
  <2>3. pc'[c] = "write" /\ copy'[c] = row
    BY <1>1, <1>2, <2>1, Steps
  <2>4. task[c][1] # "edge" => row.status # "none"
    BY <1>2 DEF Target, Exists
  <2>5. Local(c)'
    BY <1>1, <1>2, <2>2, <2>3, <2>4 DEF Local
  <2>6. /\ task' \in [Callers -> Tasks] /\ task' = task
        /\ todo' \in [Callers -> SUBSET Plans] /\ known' \in [Callers -> SUBSET Events]
    BY <1>1, <1>2 DEF TypeOK, Tasks
  <2> QED
    BY <1>1, <1>2, <2>1, <2>2, <2>5, <2>6, Goes DEF stored
<1>3. CASE Onward(c) /\ UNCHANGED overtaken
  BY <1>1, <1>3, OnwardKeeps DEF records
<1> QED
  BY <1>2, <1>3 DEF ApplyRead

\* The mark of the edge is written.
LEMMA MarkEdgeWriteKeeps ==
  ASSUME Inv, NEW c \in Callers, MarkEdgeWrite(c)
  PROVE  Inv'
<1>1. TypeOK /\ pc[c] = "markEdge" /\ pc[c] \notin Logging /\ task[c] \in Marks
  BY DEF Inv, MarkEdgeWrite, Local, Logging
<1>2. edge' \in EdgeRow
  <2>1. task[c][2] \in Verdicts
    BY <1>1 DEF Marks
  <2>2. edgeCopy[c] \in EdgeRow
    BY <1>1 DEF TypeOK
  <2>3. edge' = [edgeCopy[c] EXCEPT !.verdict = task[c][2]]
    BY DEF MarkEdgeWrite
  <2> QED
    BY <2>1, <2>2, <2>3 DEF EdgeRow
<1>3. overtaken' \in BOOLEAN /\ (overtaken => overtaken')
  BY <1>1, Steps DEF MarkEdgeWrite
<1> QED
  BY <1>1, <1>2, <1>3, Ends DEF MarkEdgeWrite

\* The engine finds a candidate for a scene.
LEMMA RunSceneKeeps ==
  ASSUME Inv, NEW c \in Callers, RunScene(c)
  PROVE  Inv'
<1>1. Begin(c, "putEdge", Create) /\ kind = "autoScene" /\ kind' = kind
  BY DEF RunScene, SceneCandidate
<1>2. Create \in Tasks /\ "putEdge" \in Locations \ Logging
  BY DEF Tasks, Events, Locations, Logging
<1>3. pc'[c] = "putEdge" /\ task'[c] = Create
  BY <1>1, <1>2, Steps DEF Inv
<1>4. Local(c)'
  BY <1>1, <1>3 DEF Local
<1>5. todo' \in [Callers -> SUBSET Plans]
  BY DEF RunScene, Inv, TypeOK
<1> QED
  BY <1>1, <1>2, <1>4, <1>5, Begins DEF RunScene

\* The engine finds a candidate for a persona.
LEMMA RunPersonaKeeps ==
  ASSUME Inv, NEW c \in Callers, RunPersona(c)
  PROVE  Inv'
<1>1. Begin(c, "createPersona", Create) /\ kind = "autoPersona" /\ kind' = kind
  BY DEF RunPersona, PersonaCandidate
<1>2. Create \in Tasks /\ "createPersona" \in Locations \ Logging
  BY DEF Tasks, Events, Locations, Logging
<1>3. pc'[c] = "createPersona" /\ task'[c] = Create
  BY <1>1, <1>2, Steps DEF Inv
<1>4. Local(c)'
  BY <1>1, <1>3 DEF Local
<1>5. todo' \in [Callers -> SUBSET Plans]
  BY DEF RunPersona, Inv, TypeOK
<1> QED
  BY <1>1, <1>2, <1>4, <1>5, Begins DEF RunPersona

\* A rollback, when the memory is read.
LEMMA RollbackReadKeeps ==
  ASSUME Inv, NEW c \in Callers, RollbackRead(c)
  PROVE  Inv'
<1>1. Begin(c, "rollback", Undo) /\ row.status # "none"
  BY DEF RollbackRead, Exists
<1>2. Undo \in Tasks /\ "rollback" \in Locations \ Logging
  BY DEF Tasks, Events, Locations, Logging
<1>3. pc'[c] = "rollback" /\ task'[c] = Undo /\ copy'[c] = row /\ seen'[c][1] = row
  BY <1>1, <1>2, Steps DEF RollbackRead, Inv
<1>4. Local(c)'
  BY <1>1, <1>3 DEF Local
<1>5. todo' \in [Callers -> SUBSET Plans]
  BY DEF RollbackRead, Inv, TypeOK
<1> QED
  BY <1>1, <1>2, <1>4, <1>5, Begins DEF RollbackRead

\* The lifecycle job, when it reads the memory.
LEMMA GovernReadKeeps ==
  ASSUME Inv, NEW c \in Callers, GovernRead(c)
  PROVE  Inv'
<1>1. Begin(c, "govern", NoPlan) /\ row.status # "none"
  BY DEF GovernRead, Exists
<1>2. NoPlan \in Tasks /\ "govern" \in Locations \ Logging
  BY DEF Tasks, Locations, Logging
<1>3. pc'[c] = "govern" /\ copy'[c] = row /\ seen'[c][1] = row
  BY <1>1, <1>2, Steps DEF GovernRead, Inv
<1>4. Local(c)'
  BY <1>1, <1>3 DEF Local
<1>5. todo' \in [Callers -> SUBSET Plans]
  BY DEF GovernRead, Inv, TypeOK
<1> QED
  BY <1>1, <1>2, <1>4, <1>5, Begins DEF GovernRead

\* The candidate edge is known.
LEMMA KnownEdge == ASSUME TypeOK PROVE [edge EXCEPT !.known = TRUE] \in EdgeRow
<1> DEFINE t == TRUE
<1>1. t \in BOOLEAN /\ edge \in EdgeRow
  BY DEF TypeOK
<1> HIDE DEF t
<1>2. [edge EXCEPT !.known = t] \in EdgeRow
  BY <1>1 DEF EdgeRow
<1> QED
  BY <1>2 DEF t

\* The engine puts the edge.
LEMMA PutEdgeKeeps ==
  ASSUME Inv, NEW c \in Callers, PutEdge(c)
  PROVE  Inv'
<1>1. TypeOK /\ pc[c] = "putEdge" /\ task[c] = Create /\ kind = "autoScene" /\ GoTo(c, "look")
  BY DEF Inv, PutEdge, Local
<1>2. "look" \in Locations /\ "look" \notin Logging /\ pc[c] \notin Logging
  BY <1>1 DEF Locations, Logging
<1>3. pc'[c] = "look"
  BY <1>1, <1>2, Steps
<1>4. Local(c)'
  BY <1>1, <1>3 DEF Local, PutEdge
<1>5. /\ task' \in [Callers -> Tasks] /\ task' = task /\ overtaken' \in BOOLEAN
      /\ todo' \in [Callers -> SUBSET Plans] /\ known' \in [Callers -> SUBSET Events]
  BY <1>1 DEF TypeOK, Tasks, PutEdge, records
<1>6. edge' \in EdgeRow
  BY <1>1, KnownEdge DEF PutEdge
<1> QED
  BY <1>1, <1>2, <1>4, <1>5, <1>6, Goes DEF PutEdge, records

\* The edge is read, to be linked.
LEMMA LinkReadKeeps ==
  ASSUME Inv, NEW c \in Callers, LinkRead(c)
  PROVE  Inv'
<1>1. TypeOK /\ pc[c] = "link" /\ task[c] = Create /\ kind = "autoScene" /\ GoTo(c, "linkWrite")
  BY DEF Inv, LinkRead, Local
<1>2. "linkWrite" \in Locations /\ "linkWrite" \in Logging /\ pc[c] \in Logging
  BY <1>1 DEF Locations, Logging
<1>3. pc'[c] = "linkWrite"
  BY <1>1, <1>2, Steps
<1>4. Local(c)'
  BY <1>1, <1>3 DEF Local, LinkRead
<1>5. /\ task' \in [Callers -> Tasks] /\ task' = task /\ overtaken' \in BOOLEAN
      /\ todo' \in [Callers -> SUBSET Plans] /\ known' \in [Callers -> SUBSET Events]
      /\ edge' \in EdgeRow
  BY <1>1 DEF TypeOK, Tasks, LinkRead, records, stored
<1> QED
  BY <1>1, <1>2, <1>4, <1>5, Goes DEF LinkRead, records, stored

-----------------------------------------------------------------------------
(* Steps that write the row or the log *)

\* A step of one caller keeps the invariant if it keeps each part of it.
LEMMA PartsKeep ==
  ASSUME Inv, NEW c \in Callers, Only(c), TypeOK', Local(c)', Fine(copy[c])', Fine(row)',
         (done = logged \cup cut \cup Pending)', VerdictHolds', RollbackHolds'
  PROVE  Inv'
  BY OthersKeep DEF Inv

\* The engine looks whether the scene exists.
LEMMA EngineLookKeeps ==
  ASSUME Inv, NEW c \in Callers, EngineLook(c)
  PROVE  Inv'
<1>1. /\ TypeOK /\ pc[c] = "look" /\ task[c] = Create /\ kind = "autoScene" /\ Look(c)
      /\ Fine(row) /\ Fine(copy[c])
      /\ UNCHANGED <<kind, stored, task, todo, known, copy, edgeCopy, calls, crashes, records>>
  BY DEF Inv, EngineLook, Local
<1>2. seen' \in [Callers -> Row \X EdgeRow] /\ seen'[c][1] = row
      /\ \A d \in Callers \ {c} : seen'[d] = seen[d]
  BY <1>1, Steps
<1>3. CASE ~Exists
  <2>1. GoTo(c, "createScene") /\ "createScene" \in Locations
        /\ "createScene" \notin Logging /\ pc[c] \notin Logging
    BY <1>1, <1>3 DEF EngineLook, Locations, Logging
  <2>2. pc'[c] = "createScene"
    BY <1>1, <2>1, Steps
  <2>3. Local(c)'
    BY <1>1, <1>2, <1>3, <2>2 DEF Local, Exists
  <2>4. /\ task' \in [Callers -> Tasks] /\ overtaken' \in BOOLEAN
        /\ todo' \in [Callers -> SUBSET Plans] /\ known' \in [Callers -> SUBSET Events]
        /\ edge' \in EdgeRow
    BY <1>1 DEF TypeOK, Tasks, records, stored
  <2> QED
    BY <1>1, <2>1, <2>3, <2>4, Goes DEF records, stored
<1>4. CASE Exists
  <2>1. GoTo(c, "log") /\ "log" \in Locations /\ "log" \in Logging /\ pc[c] \notin Logging
    BY <1>1, <1>4 DEF EngineLook, Locations, Logging
  <2>2. pc' \in [Callers -> Locations] /\ pc'[c] = "log"
        /\ \A d \in Callers \ {c} : pc'[d] = pc[d]
    BY <1>1, <2>1, Steps
  <2>3. Create \in done
    BY <1>1, <1>4 DEF Fine, Exists
  <2>4. Only(c)
    BY <1>1, <1>2, <2>2 DEF Only, records
  <2>5. TypeOK'
    BY <1>1, <1>2, <2>2 DEF TypeOK, stored, records
  <2>6. Local(c)'
    BY <1>1, <2>2 DEF Local, Events
  <2>7. Fine(copy[c])' /\ Fine(row)'
    BY <1>1 DEF Fine, stored, records
  <2>8. Pending' = Pending \cup {Create}
    BY <1>1, <2>1, <2>2, <2>4, PendingChanges
  <2>9. (done = logged \cup cut \cup Pending)'
    BY <1>1, <2>3, <2>8 DEF Inv, stored, records
  <2>10. VerdictHolds' /\ RollbackHolds'
    BY <1>1 DEF Inv, VerdictHolds, RollbackHolds, stored, records
  <2> QED
    BY <2>4, <2>5, <2>6, <2>7, <2>9, <2>10, PartsKeep
<1> QED
  BY <1>3, <1>4

\* An event is logged.
LEMMA LogKeeps ==
  ASSUME Inv, NEW c \in Callers, Log(c)
  PROVE  Inv'
<1>1. /\ TypeOK /\ pc[c] = "log" /\ task[c] \in Events /\ Fine(row) /\ Fine(copy[c])
      /\ logged' = logged \cup {task[c]}
      /\ UNCHANGED <<kind, row, edge, calls, crashes, records>>
  BY DEF Inv, Log, Local
<1>2. /\ pc' \in [Callers -> Locations] /\ pc'[c] \in {"idle", "batch"}
      /\ task' \in [Callers -> Tasks]
      /\ todo' \in [Callers -> SUBSET Plans] /\ known' \in [Callers -> SUBSET Events]
      /\ copy' \in [Callers -> Row] /\ copy'[c] \in {copy[c], NoRow}
      /\ edgeCopy' \in [Callers -> EdgeRow] /\ seen' \in [Callers -> Row \X EdgeRow]
      /\ \A d \in Callers \ {c} : /\ pc'[d] = pc[d] /\ task'[d] = task[d]
                                  /\ copy'[d] = copy[d] /\ seen'[d] = seen[d]
  <2>1. CASE Finish(c)
    BY <1>1, <2>1, Steps
  <2>2. CASE GoTo(c, "batch") /\ UNCHANGED held
    <3>1. "batch" \in Locations
      BY DEF Locations
    <3>2. pc' \in [Callers -> Locations] /\ pc'[c] = "batch"
          /\ \A d \in Callers \ {c} : pc'[d] = pc[d]
      BY <1>1, <2>2, <3>1, Steps
    <3> QED
      BY <1>1, <2>2, <3>2 DEF TypeOK, Tasks, held, read
  <2> QED
    BY <2>1, <2>2 DEF Log, Onward
<1>3. Only(c)
  BY <1>1, <1>2 DEF Only, records
<1>4. TypeOK'
  BY <1>1, <1>2 DEF TypeOK, Tasks, records
<1>5. Local(c)'
  BY <1>2 DEF Local
<1>6. Fine(row)' /\ Fine(copy[c])'
  BY <1>1, <1>2, NoRows DEF Fine, records
<1>7. (done = logged \cup cut \cup Pending)'
  <2>1. Pending \cup {task[c]} = Pending' \cup {task[c]}
    BY <1>1, <1>2, <1>3, PendingChanges DEF Logging
  <2>2. task[c] \in Pending
    BY <1>1 DEF Pending, Logging
  <2> QED
    BY <1>1, <2>1, <2>2 DEF Inv, records
<1>8. VerdictHolds' /\ RollbackHolds'
  BY <1>1 DEF Inv, VerdictHolds, RollbackHolds, records
<1> QED
  BY <1>3, <1>4, <1>5, <1>6, <1>7, <1>8, PartsKeep

\* A call is cut short.
LEMMA CrashKeeps ==
  ASSUME Inv, NEW c \in Callers, Crash(c)
  PROVE  Inv'
<1>1. /\ TypeOK /\ Fine(row) /\ Finish(c) /\ Local(c)
      /\ UNCHANGED <<kind, stored, calls, overtaken, done, said, approved, promoted, rolled, revived>>
  BY DEF Inv, Crash
<1>2. /\ pc' \in [Callers -> Locations] /\ pc'[c] = "idle"
      /\ task' \in [Callers -> Tasks]
      /\ todo' \in [Callers -> SUBSET Plans] /\ known' \in [Callers -> SUBSET Events]
      /\ copy' \in [Callers -> Row] /\ copy'[c] = NoRow
      /\ edgeCopy' \in [Callers -> EdgeRow] /\ seen' \in [Callers -> Row \X EdgeRow]
      /\ \A d \in Callers \ {c} : /\ pc'[d] = pc[d] /\ task'[d] = task[d]
                                  /\ copy'[d] = copy[d] /\ seen'[d] = seen[d]
  BY <1>1, Steps
<1>3. Only(c)
  BY <1>1, <1>2 DEF Only
<1>4. cut' \subseteq Events
  <2>1. pc[c] \in Logging => task[c] \in Events
    BY <1>1 DEF Local, Logging, Events
  <2> QED
    BY <1>1, <2>1 DEF Crash, Logging, TypeOK
<1>5. crashes' \in 0..MaxCrashes
  BY <1>1, CandidateGovernanceAssumption DEF Crash, TypeOK
<1>6. TypeOK'
  BY <1>1, <1>2, <1>4, <1>5 DEF TypeOK, Tasks, stored
<1>7. Local(c)'
  BY <1>2 DEF Local
<1>8. Fine(row)' /\ Fine(copy[c])'
  BY <1>1, <1>2, NoRows DEF Fine, stored
<1>9. (done = logged \cup cut \cup Pending)'
  <2>1. CASE pc[c] \in Logging
    <3>1. Pending \cup {task[c]} = Pending' \cup {task[c]}
      BY <1>2, <1>3, <2>1, PendingChanges DEF Logging
    <3>2. task[c] \in Pending /\ cut' = cut \cup {task[c]}
      BY <2>1 DEF Pending, Logging, Crash
    <3> QED
      BY <1>1, <3>1, <3>2 DEF Inv, stored
  <2>2. CASE pc[c] \notin Logging
    <3>1. Pending' = Pending
      BY <1>2, <1>3, <2>2, PendingChanges DEF Logging
    <3>2. cut' = cut
      BY <2>2 DEF Logging, Crash
    <3> QED
      BY <1>1, <3>1, <3>2 DEF Inv, stored
  <2> QED
    BY <2>1, <2>2
<1>10. VerdictHolds' /\ RollbackHolds'
  BY <1>1 DEF Inv, VerdictHolds, RollbackHolds, stored
<1> QED
  BY <1>3, <1>6, <1>7, <1>8, <1>9, <1>10, PartsKeep

\* A step of nobody's call keeps the invariant if the new row is fine.
LEMMA AloneKeeps ==
  ASSUME Inv, UNCHANGED <<kind, local, logged, done, cut, approved, promoted>>,
         overtaken => overtaken', TypeOK', Fine(row)', VerdictHolds', RollbackHolds'
  PROVE  Inv'
<1>1. \A c \in Callers : Local(c) /\ Fine(copy[c])
  BY DEF Inv
<1>2. \A c \in Callers : Local(c)'
  BY <1>1 DEF Local, local, held, read
<1>3. \A c \in Callers : Fine(copy[c])'
  BY <1>1 DEF Fine, local, held, read
<1>4. (done = logged \cup cut \cup Pending)'
  BY DEF Inv, Pending, local, held
<1> QED
  BY <1>2, <1>3, <1>4 DEF Inv

\* A builder makes the memory, anew.
LEMMA BuildKeeps ==
  ASSUME Inv, NEW c \in Callers, BuildScene(c) \/ BuildPersona(c)
  PROVE  Inv'
<1>1. PICK l \in {"short", "long"} : Build(c, NewRow("observing", l)) /\ kind \in {"scene", "persona"}
  BY DEF BuildScene, BuildPersona
<1>2. /\ row' = NewRow("observing", l) /\ said' = "pending" /\ calls < MaxCalls /\ calls' = calls + 1
      /\ UNCHANGED <<kind, edge, logged, local, crashes,
                     overtaken, done, cut, approved, promoted, rolled, revived>>
  BY <1>1 DEF Build
<1>3. row' \in Row /\ row'.status = "observing" /\ row'.life = l /\ row'.verdict = "pending"
  BY <1>2, NewRows
<1>4. TypeOK'
  BY <1>2, <1>3, CandidateGovernanceAssumption DEF Inv, TypeOK, local, held, read
<1>5. Fine(row)'
  BY <1>1, <1>2, <1>3 DEF Fine
<1>6. VerdictHolds' /\ RollbackHolds'
  BY <1>1, <1>2, <1>3 DEF VerdictHolds, RollbackHolds
<1> QED
  BY <1>2, <1>4, <1>5, <1>6, AloneKeeps

\* A candidate edge is found.
LEMMA FindEdgeKeeps ==
  ASSUME Inv, NEW c \in Callers, FindEdge(c)
  PROVE  Inv'
<1>1. /\ edge' = [edge EXCEPT !.known = TRUE] /\ calls < MaxCalls /\ calls' = calls + 1
      /\ UNCHANGED <<kind, row, logged, local, crashes, records>>
  BY DEF FindEdge
<1>2. edge' \in EdgeRow
  BY <1>1, KnownEdge DEF Inv
<1>3. TypeOK'
  BY <1>1, <1>2, CandidateGovernanceAssumption DEF Inv, TypeOK, local, held, read, records
<1>4. Fine(row)' /\ VerdictHolds' /\ RollbackHolds'
  BY <1>1 DEF Inv, Fine, VerdictHolds, RollbackHolds, records
<1> QED
  BY <1>1, <1>3, <1>4, AloneKeeps DEF records

\* A user deletes the memory.
LEMMA TombstoneKeeps ==
  ASSUME Inv, Tombstone
  PROVE  Inv'
<1>1. /\ row' = [row EXCEPT !.status = "tombstoned"] /\ row.status # "none" /\ row \in Row
      /\ calls < MaxCalls /\ calls' = calls + 1
      /\ UNCHANGED <<kind, edge, logged, local, crashes, records>>
  BY DEF Tombstone, Exists, Inv, TypeOK
<1>2. row' \in Row /\ row'.status = "tombstoned" /\ row'.life = row.life /\ row'.verdict = row.verdict
  BY <1>1 DEF Row
<1>3. TypeOK'
  BY <1>1, <1>2, CandidateGovernanceAssumption DEF Inv, TypeOK, local, held, read, records
<1>4. Fine(row)' /\ VerdictHolds' /\ RollbackHolds'
  BY <1>1, <1>2 DEF Inv, Fine, VerdictHolds, RollbackHolds, records
<1> QED
  BY <1>1, <1>3, <1>4, AloneKeeps DEF records

\* A user purges it.
LEMMA PurgeKeeps ==
  ASSUME Inv, Purge
  PROVE  Inv'
<1>1. /\ row' = NoRow /\ said' = "pending" /\ rolled' = FALSE
      /\ calls < MaxCalls /\ calls' = calls + 1
      /\ UNCHANGED <<kind, edge, logged, local, crashes,
                     overtaken, done, cut, approved, promoted, revived>>
  BY DEF Purge
<1>2. TypeOK'
  <2>1. {overtaken, approved, promoted, rolled, revived}' \subseteq BOOLEAN
    BY <1>1 DEF Inv, TypeOK
  <2>2. calls' \in 0..MaxCalls /\ row' \in Row /\ said' \in Verdicts \cup {"pending"}
    BY <1>1, NoRows, CandidateGovernanceAssumption DEF Inv, TypeOK
  <2> QED
    BY <1>1, <2>1, <2>2 DEF Inv, TypeOK, local, held, read
<1>3. Fine(row)' /\ VerdictHolds' /\ RollbackHolds'
  BY <1>1, NoRows DEF Fine, VerdictHolds, RollbackHolds
<1> QED
  BY <1>1, <1>2, <1>3, AloneKeeps

\* A step that ends the call with the row written.
LEMMA WritesAndEnds ==
  ASSUME Inv, NEW c \in Callers, Finish(c), pc[c] \notin Logging, Overtaken(c),
         UNCHANGED <<kind, edge, logged, calls, crashes, done, cut, rolled>>,
         row' \in Row, said' \in Verdicts \cup {"pending"},
         {approved', promoted', revived'} \subseteq BOOLEAN,
         approved => approved', promoted => promoted',
         Fine(row)', VerdictHolds', RollbackHolds'
  PROVE  Inv'
<1>1. TypeOK
  BY DEF Inv
<1>2. /\ pc' \in [Callers -> Locations] /\ pc'[c] = "idle"
      /\ task' \in [Callers -> Tasks]
      /\ todo' \in [Callers -> SUBSET Plans] /\ known' \in [Callers -> SUBSET Events]
      /\ copy' \in [Callers -> Row] /\ copy'[c] = NoRow
      /\ edgeCopy' \in [Callers -> EdgeRow] /\ seen' \in [Callers -> Row \X EdgeRow]
      /\ \A d \in Callers \ {c} : /\ pc'[d] = pc[d] /\ task'[d] = task[d]
                                  /\ copy'[d] = copy[d] /\ seen'[d] = seen[d]
      /\ overtaken' \in BOOLEAN /\ (overtaken => overtaken')
  BY <1>1, Steps
<1>3. Only(c)
  BY <1>2 DEF Only
<1>4. TypeOK'
  <2>1. {overtaken', approved', promoted', rolled', revived'} \subseteq BOOLEAN
    BY <1>1, <1>2 DEF TypeOK
  <2> QED
    BY <1>1, <1>2, <2>1 DEF TypeOK, Tasks
<1>5. Local(c)'
  BY <1>2 DEF Local
<1>6. Fine(copy[c])'
  BY <1>2, NoRows DEF Fine
<1>7. (done = logged \cup cut \cup Pending)'
  <2>1. Pending' = Pending
    BY <1>2, <1>3, PendingChanges DEF Logging
  <2> QED
    BY <2>1 DEF Inv
<1> QED
  BY <1>3, <1>4, <1>5, <1>6, <1>7, PartsKeep

\* The mark of the memory is written.
LEMMA MarkWriteKeeps ==
  ASSUME Inv, NEW c \in Callers, MarkWrite(c)
  PROVE  Inv'
<1>1. /\ TypeOK /\ Local(c) /\ pc[c] = "mark" /\ task[c] \in Marks /\ Fine(copy[c])
      /\ seen[c][1] = copy[c] /\ copy[c] \in Row
  BY DEF Inv, MarkWrite, Local, TypeOK
<1> DEFINE v == task[c][2]
<1>2. /\ row' = [copy[c] EXCEPT !.verdict = v] /\ said' = v
      /\ approved' = (approved \/ said' = "approved")
      /\ Overtaken(c) /\ Finish(c)
      /\ UNCHANGED <<kind, edge, logged, calls, crashes, done, cut, promoted, rolled, revived>>
  BY DEF MarkWrite
<1>3. v \in Verdicts
  BY <1>1 DEF Marks
<1> HIDE DEF v
<1>4. /\ row' \in Row /\ row'.verdict = v /\ row'.status = copy[c].status /\ row'.life = copy[c].life
  BY <1>1, <1>2, <1>3 DEF Row
<1>5. approved' \in BOOLEAN /\ (approved => approved') /\ (v = "approved" => approved')
  BY <1>2, Zenon
<1>6. (overtaken => overtaken') /\ (~overtaken' => seen[c][1] = row)
  BY <1>1, <1>2, Steps
<1>7. Fine(row)'
  BY <1>1, <1>2, <1>4, <1>5 DEF Fine
<1>8. VerdictHolds'
  BY <1>2, <1>4 DEF VerdictHolds
<1>9. RollbackHolds'
  BY <1>1, <1>2, <1>4, <1>6 DEF Inv, RollbackHolds
<1>10. pc[c] \notin Logging /\ {approved', promoted', revived'} \subseteq BOOLEAN
  BY <1>1, <1>2, <1>5 DEF Logging, TypeOK
<1> QED
  BY <1>2, <1>3, <1>4, <1>5, <1>7, <1>8, <1>9, <1>10, WritesAndEnds

\* The lifecycle job writes what it made of the row.
LEMMA GovernWriteKeeps ==
  ASSUME Inv, NEW c \in Callers, GovernWrite(c)
  PROVE  Inv'
<1>1. /\ TypeOK /\ Local(c) /\ pc[c] = "govern" /\ Fine(copy[c])
      /\ seen[c][1] = copy[c] /\ copy[c] \in Row /\ copy[c].status # "none"
  BY DEF Inv, GovernWrite, Local, TypeOK
<1> DEFINE up == row'.life = "long" /\ copy[c].life = "short"
           back == row.status = "tombstoned" /\ row'.status # "tombstoned"
<1>2. /\ row' \in Governed(copy[c])
      /\ promoted' = (promoted \/ up) /\ revived' = (revived \/ back)
      /\ Overtaken(c) /\ Finish(c)
      /\ UNCHANGED <<kind, edge, logged, calls, crashes, done, cut, said, approved, rolled>>
  BY Zenon DEF GovernWrite
<1>3. /\ row' \in Row /\ row'.verdict = copy[c].verdict /\ row'.status # "none"
      /\ row'.status = "active" => copy[c].status = "active" \/ up
      /\ row'.life = "permanent" => copy[c].life = "permanent"
  BY <1>1, <1>2, GovernedRows
<1>4. back <=> row.status = "tombstoned" /\ row'.status # "tombstoned"
  OBVIOUS
<1> HIDE DEF up, back
<1>5. /\ promoted' \in BOOLEAN /\ (promoted => promoted') /\ (up => promoted')
      /\ revived' \in BOOLEAN /\ (~revived' => ~revived /\ ~back)
  BY <1>2, Zenon
<1>6. ~overtaken' => ~overtaken /\ seen[c][1] = row
  BY <1>1, <1>2, Steps
<1>7. Fine(row)'
  BY <1>1, <1>2, <1>3, <1>5 DEF Fine
<1>8. VerdictHolds'
  BY <1>1, <1>2, <1>3, <1>6 DEF Inv, VerdictHolds
<1>9. RollbackHolds'
  BY <1>1, <1>2, <1>4, <1>5, <1>6 DEF Inv, RollbackHolds
<1>10. pc[c] \notin Logging /\ {approved', promoted', revived'} \subseteq BOOLEAN
       /\ said' \in Verdicts \cup {"pending"} /\ (approved => approved')
  BY <1>1, <1>2, <1>5 DEF Logging, TypeOK
<1> QED
  BY <1>2, <1>3, <1>5, <1>7, <1>8, <1>9, <1>10, WritesAndEnds

\* A step after which the caller logs what it wrote.
LEMMA WrittenKeeps ==
  ASSUME Inv, NEW c \in Callers, Written(c), task[c] \in Events,
         UNCHANGED <<kind, logged, task, todo, known, calls, crashes, cut, said, approved, promoted>>,
         row' \in Row, edge' \in EdgeRow, {rolled', revived'} \subseteq BOOLEAN,
         Fine(row)', VerdictHolds', RollbackHolds'
  PROVE  Inv'
<1>1. TypeOK /\ Overtaken(c) /\ GoTo(c, "log") /\ Drop(c) /\ done' = done \cup {task[c]}
  BY DEF Inv, Written
<1>2. "log" \in Locations /\ "log" \in Logging
  BY DEF Locations, Logging
<1>3. /\ pc' \in [Callers -> Locations] /\ pc'[c] = "log"
      /\ copy' \in [Callers -> Row] /\ copy'[c] = NoRow
      /\ edgeCopy' \in [Callers -> EdgeRow] /\ seen' \in [Callers -> Row \X EdgeRow]
      /\ \A d \in Callers \ {c} : /\ pc'[d] = pc[d] /\ copy'[d] = copy[d] /\ seen'[d] = seen[d]
      /\ overtaken' \in BOOLEAN /\ (overtaken => overtaken')
  BY <1>1, <1>2, Steps
<1>4. Only(c)
  BY <1>1, <1>3 DEF Only
<1>5. TypeOK'
  <2>1. {overtaken, approved, promoted, rolled, revived}' \subseteq BOOLEAN
    BY <1>1, <1>3 DEF TypeOK
  <2> QED
    BY <1>1, <1>3, <2>1 DEF TypeOK
<1>6. Local(c)'
  BY <1>3 DEF Local
<1>7. Fine(copy[c])'
  BY <1>3, NoRows DEF Fine
<1>8. (done = logged \cup cut \cup Pending)'
  <2>1. CASE pc[c] \in Logging
    <3>1. Pending' = Pending
      BY <1>2, <1>3, <1>4, <2>1, PendingChanges
    <3>2. task[c] \in Pending
      BY <2>1 DEF Pending
    <3> QED
      BY <1>1, <3>1, <3>2 DEF Inv
  <2>2. CASE pc[c] \notin Logging
    <3>1. Pending' = Pending \cup {task[c]}
      BY <1>2, <1>3, <1>4, <2>2, PendingChanges
    <3> QED
      BY <1>1, <3>1 DEF Inv
  <2> QED
    BY <2>1, <2>2
<1> QED
  BY <1>4, <1>5, <1>6, <1>7, <1>8, PartsKeep

\* The engine notes the scene in the edge.
LEMMA LinkWriteKeeps ==
  ASSUME Inv, NEW c \in Callers, LinkWrite(c)
  PROVE  Inv'
<1>1. /\ TypeOK /\ pc[c] = "linkWrite" /\ task[c] \in Events /\ Fine(row) /\ Written(c)
      /\ UNCHANGED <<kind, row, logged, task, todo, known, calls, crashes,
                     cut, said, approved, promoted, rolled, revived>>
  BY DEF Inv, LinkWrite, Local, Events
<1>2. edge' \in EdgeRow
  <2> DEFINE t == TRUE
  <2>1. t \in BOOLEAN /\ edgeCopy[c] \in EdgeRow
    BY <1>1 DEF TypeOK
  <2>2. edge' = [edgeCopy[c] EXCEPT !.linked = t]
    BY DEF LinkWrite
  <2> HIDE DEF t
  <2> QED
    BY <2>1, <2>2 DEF EdgeRow
<1>3. overtaken => overtaken'
  BY <1>1, Steps DEF Written
<1>4. done \subseteq done'
  BY <1>1 DEF Written
<1>5. Fine(row)'
  BY <1>1, <1>4 DEF Fine
<1>6. VerdictHolds' /\ RollbackHolds'
  BY <1>1, <1>3 DEF Inv, VerdictHolds, RollbackHolds
<1>7. row' \in Row /\ {rolled', revived'} \subseteq BOOLEAN
  BY <1>1 DEF TypeOK
<1> QED
  BY <1>1, <1>2, <1>5, <1>6, <1>7, WrittenKeeps

\* A memory is rolled back.
LEMMA RollbackWriteKeeps ==
  ASSUME Inv, NEW c \in Callers, RollbackWrite(c)
  PROVE  Inv'
<1>1. /\ TypeOK /\ pc[c] = "rollback" /\ task[c] \in Events /\ Fine(copy[c]) /\ Written(c)
      /\ seen[c][1] = copy[c] /\ copy[c] \in Row /\ copy[c].status # "none"
      /\ row' = [copy[c] EXCEPT !.status = "tombstoned"] /\ rolled' = TRUE /\ revived' = FALSE
      /\ UNCHANGED <<kind, edge, logged, task, todo, known, calls, crashes,
                     cut, said, approved, promoted>>
  BY DEF Inv, RollbackWrite, Local, Events, TypeOK
<1>2. /\ row' \in Row /\ row'.status = "tombstoned" /\ row'.life = copy[c].life
      /\ row'.verdict = copy[c].verdict
  BY <1>1 DEF Row
<1>3. ~overtaken' => ~overtaken /\ seen[c][1] = row
  BY <1>1, Steps DEF Written
<1>4. done \subseteq done'
  BY <1>1 DEF Written
<1>5. Fine(row)'
  BY <1>1, <1>2, <1>4 DEF Fine
<1>6. VerdictHolds' /\ RollbackHolds'
  BY <1>1, <1>2, <1>3 DEF Inv, VerdictHolds, RollbackHolds
<1>7. edge' \in EdgeRow /\ {rolled', revived'} \subseteq BOOLEAN
  BY <1>1 DEF TypeOK
<1> QED
  BY <1>1, <1>2, <1>5, <1>6, <1>7, WrittenKeeps

\* A plan is applied.
LEMMA ApplyWriteKeeps ==
  ASSUME Inv, NEW c \in Callers, ApplyWrite(c)
  PROVE  Inv'
<1>1. /\ TypeOK /\ Local(c) /\ pc[c] = "write" /\ task[c] \in Plans /\ task[c] \in Events
      /\ Written(c) /\ Fine(row) /\ Fine(copy[c]) /\ copy[c] \in Row /\ edgeCopy[c] \in EdgeRow
      /\ UNCHANGED <<kind, logged, task, todo, known, calls, crashes,
                     cut, said, approved, promoted, rolled>>
  BY DEF Inv, ApplyWrite, Local, Events, TypeOK
<1>2. (~overtaken' => ~overtaken /\ seen[c][1] = row)
  BY <1>1, Steps DEF Written
<1>3. done \subseteq done'
  BY <1>1 DEF Written
<1>4. CASE task[c][1] = "edge"
  <2>1. /\ edge' = [edgeCopy[c] EXCEPT !.verdict = task[c][2], !.acted = task[c]]
        /\ UNCHANGED <<row, revived>>
    BY <1>4 DEF ApplyWrite
  <2>2. task[c][2] \in Verdicts
    BY <1>1 DEF Plans
  <2>3. edge' \in EdgeRow
    BY <1>1, <2>1, <2>2 DEF EdgeRow
  <2>4. Fine(row)'
    BY <1>1, <1>3, <2>1 DEF Fine
  <2>5. VerdictHolds' /\ RollbackHolds'
    BY <1>1, <1>2, <2>1 DEF Inv, VerdictHolds, RollbackHolds
  <2>6. row' \in Row /\ {rolled', revived'} \subseteq BOOLEAN
    BY <1>1, <2>1 DEF TypeOK
  <2> QED
    BY <1>1, <2>3, <2>4, <2>5, <2>6, WrittenKeeps
<1>5. CASE task[c][1] # "edge"
  <2> DEFINE back == row.status = "tombstoned" /\ task[c] = <<"demotion", "approved">>
  <2>1. row' = Applied(task[c], copy[c]) /\ revived' = (revived \/ back) /\ edge' = edge
    BY <1>5 DEF ApplyWrite
  <2>2. Follows(task[c], copy[c], row')
    BY <1>1, <2>1, AppliedRows
  <2>3. back <=> row.status = "tombstoned" /\ task[c] = <<"demotion", "approved">>
    OBVIOUS
  <2> HIDE DEF back
  <2>4. revived' \in BOOLEAN /\ (~revived' => ~revived /\ ~back)
    BY <2>1, Zenon
  <2>5. /\ copy[c].status # "none" /\ seen[c][1].verdict = task[c][2]
        /\ task[c][2] = "approved" => approved
        /\ task[c][1] \in {"scene", "persona"} => seen[c][1].status = "observing"
        /\ ~overtaken => seen[c][1] = copy[c]
    BY <1>1, <1>5 DEF Local
  <2>6. Fine(row)'
    BY <1>1, <1>3, <2>2, <2>5 DEF Fine, Follows
  <2>7. VerdictHolds'
    BY <1>1, <1>2, <2>2, <2>5 DEF Inv, VerdictHolds, Follows
  <2>8. RollbackHolds'
    <3>1. SUFFICES ASSUME kind = "autoScene", rolled, ~overtaken', ~revived'
                   PROVE  row'.status = "tombstoned"
      BY <1>1 DEF RollbackHolds
    <3>2. row.status = "tombstoned" /\ copy[c] = row
      BY <1>2, <2>4, <2>5, <3>1 DEF Inv, RollbackHolds
    <3> QED
      BY <1>2, <2>2, <2>3, <2>4, <2>5, <3>1, <3>2 DEF Follows
  <2>9. row' \in Row /\ edge' \in EdgeRow /\ {rolled', revived'} \subseteq BOOLEAN
    BY <1>1, <2>1, <2>2, <2>4 DEF TypeOK, Follows
  <2> QED
    BY <1>1, <2>6, <2>7, <2>8, <2>9, WrittenKeeps
<1> QED
  BY <1>4, <1>5

\* The engine makes the memory.
LEMMA CreateKeeps ==
  ASSUME Inv, NEW c \in Callers, CreateScene(c) \/ CreatePersona(c)
  PROVE  Inv'
<1>1. PICK p \in {"link", "log"}, l \in {"long", "permanent"} :
        EngineCreate(c, l) /\ GoTo(c, p)
  BY DEF CreateScene, CreatePersona
<1>2. /\ TypeOK /\ task[c] = Create /\ pc[c] \notin Logging /\ Fine(copy[c])
      /\ p = "link" => kind = "autoScene" /\ seen[c][1].status = "none"
      /\ p = "log" => kind = "autoPersona"
  BY <1>1, Steps DEF Inv, Local, CreateScene, CreatePersona, Logging, GoTo, TypeOK
<1>3. /\ row' = NewRow("active", l) /\ said' = "pending" /\ Overtaken(c)
      /\ done' = done \cup {Create}
      /\ UNCHANGED <<kind, edge, logged, held, calls, crashes,
                     cut, approved, promoted, rolled, revived>>
  BY <1>1 DEF EngineCreate
<1>4. row' \in Row /\ row'.verdict = "pending"
  BY <1>3, NewRows
<1>5. p \in Locations /\ p \in Logging
  BY DEF Locations, Logging
<1>6. /\ pc' \in [Callers -> Locations] /\ pc'[c] = p
      /\ \A d \in Callers \ {c} : pc'[d] = pc[d]
      /\ overtaken' \in BOOLEAN
      /\ (~overtaken' => ~overtaken /\ seen[c][1] = row)
  BY <1>1, <1>2, <1>3, <1>5, Steps
<1>7. Only(c)
  BY <1>3, <1>6 DEF Only, held, read
<1>8. TypeOK'
  <2>1. {overtaken, approved, promoted, rolled, revived}' \subseteq BOOLEAN
    BY <1>2, <1>3, <1>6 DEF TypeOK
  <2>2. done' \subseteq Events
    BY <1>2, <1>3 DEF TypeOK, Events
  <2> QED
    BY <1>2, <1>3, <1>4, <1>6, <2>1, <2>2 DEF TypeOK, held, read
<1>9. Local(c)'
  BY <1>2, <1>3, <1>6 DEF Local, held, Events
<1>10. kind' \in {"autoScene", "autoPersona"} /\ Create \in done'
  BY <1>2, <1>3
<1>11. Fine(row)'
  BY <1>4, <1>10 DEF Fine
<1>12. Fine(copy[c])'
  BY <1>2, <1>3, <1>10 DEF Fine, held, read
<1>13. (done = logged \cup cut \cup Pending)'
  <2>1. Pending' = Pending \cup {Create}
    BY <1>2, <1>3, <1>5, <1>6, <1>7, PendingChanges DEF held
  <2> QED
    BY <1>3, <2>1 DEF Inv
<1>14. VerdictHolds'
  BY <1>3, <1>4 DEF VerdictHolds
<1>15. RollbackHolds'
  BY <1>2, <1>3, <1>6 DEF Inv, RollbackHolds
<1> QED
  BY <1>7, <1>8, <1>9, <1>11, <1>12, <1>13, <1>14, <1>15, PartsKeep

-----------------------------------------------------------------------------
(* Theorems *)

\* Every step keeps the invariant.
LEMMA NextKeeps == Inv /\ [Next]_vars => Inv'
<1> SUFFICES ASSUME Inv, [Next]_vars PROVE Inv'
  OBVIOUS
<1>1. CASE UNCHANGED vars
  BY <1>1 DEF vars, stored, local, held, read, records, Inv, TypeOK, Local, Fine, Pending,
              VerdictHolds, RollbackHolds
<1>2. ASSUME NEW c \in Callers, Review(c) PROVE Inv'
  BY <1>2, MarkReadKeeps, MarkWriteKeeps, MarkEdgeReadKeeps, MarkEdgeWriteKeeps,
     ApplyCallKeeps, BatchCallKeeps, BatchEventsKeeps, BatchNextKeeps,
     ApplyFindKeeps, ApplyReadKeeps, ApplyWriteKeeps DEF Review
<1>3. ASSUME NEW c \in Callers, Engine(c) PROVE Inv'
  BY <1>3, RunSceneKeeps, PutEdgeKeeps, EngineLookKeeps, CreateKeeps, RunPersonaKeeps,
     LinkReadKeeps, LinkWriteKeeps, RollbackReadKeeps, RollbackWriteKeeps DEF Engine
<1>4. ASSUME NEW c \in Callers,
             BuildScene(c) \/ BuildPersona(c) \/ FindEdge(c) \/ GovernRead(c) \/ GovernWrite(c)
               \/ Log(c) \/ Crash(c)
      PROVE Inv'
  BY <1>4, BuildKeeps, FindEdgeKeeps, GovernReadKeeps, GovernWriteKeeps, LogKeeps, CrashKeeps
<1> QED
  BY <1>1, <1>2, <1>3, <1>4, TombstoneKeeps, PurgeKeeps DEF Next

\* The invariant holds of every state.
LEMMA Invariant == Spec => []Inv
  BY InitInv, NextKeeps, PTL DEF Spec

\* Every variable keeps its type, whatever the callers do.
THEOREM TypeCorrect == Spec => []TypeOK
<1>1. Inv => TypeOK
  BY DEF Inv
<1> QED
  BY <1>1, Invariant, PTL

\* The log tells every change that was made, but for the callers that are about to
\* log or were cut short, and only changes that were made: also when the engine finds
\* the scene it was about to make, it logs what some earlier caller has done.
THEOREM LogMatchesWritesHolds == Spec => []LogMatchesWrites
  BY Invariant, PendingIsLogged, PTL

\* No interleaving of marks, plans, batches, builders and lifecycle cycles, with
\* whole-row writes of stale copies, makes a builder's candidate active that was
\* neither approved nor promoted, or a facet permanent that was not approved.
THEOREM ActiveIsVouchedForHolds == Spec => []ActiveIsVouchedFor
<1>1. Inv => ActiveIsVouchedFor
  BY DEF Inv, Fine, ActiveIsVouchedFor
<1> QED
  BY <1>1, Invariant, PTL

\* While nobody writes over what another has changed, the verdict in the row is the
\* last one a user gave.
THEOREM VerdictStands == Spec => []VerdictHolds
<1>1. Inv => VerdictHolds
  BY DEF Inv
<1> QED
  BY <1>1, Invariant, PTL

\* While nobody writes over what another has changed, a scene that was rolled back
\* stays tombstoned until a lifecycle cycle, an approved demotion or a purge takes
\* the tombstone away.
THEOREM RollbackStands == Spec => []RollbackHolds
<1>1. Inv => RollbackHolds
  BY DEF Inv
<1> QED
  BY <1>1, Invariant, PTL
=============================================================================
