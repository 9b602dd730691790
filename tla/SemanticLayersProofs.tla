------------------------ MODULE SemanticLayersProofs ------------------------
(* Proofs about SemanticLayers, for any number of scenes, facets, versions, *)
(* workers, answers, governance writes and deletions.                       *)
EXTENDS SemanticLayers, TLAPS

-----------------------------------------------------------------------------
(* Counters *)

\* The caps are natural numbers, above what the policies ask for.
LEMMA Caps ==
  /\ CycleCap \in Nat /\ UseCap \in Nat
  /\ \A i : MinCycles(i) \in Nat /\ MinCycles(i) <= CycleCap
  /\ \A i : MinUses(i) \in Nat /\ MinUses(i) <= UseCap
<1>1. /\ SceneCycles \in Nat /\ PersonaCycles \in Nat
      /\ SceneUses \in Nat /\ PersonaUses \in Nat
  BY SemanticLayersAssumption
<1> QED
  BY <1>1 DEF CycleCap, UseCap, Largest, MinCycles, MinUses

\* A counter goes up to its cap, and keeps the order of counters.
LEMMA Counters ==
  ASSUME NEW cap \in Nat, NEW m \in 0..cap, NEW n \in 0..cap
  PROVE  /\ Bump(n, cap) \in 0..cap /\ n <= Bump(n, cap)
         /\ m <= n => Bump(m, cap) <= Bump(n, cap)
  BY DEF Bump

-----------------------------------------------------------------------------
(* The inductive invariant *)

\* What justifies that an item is active.
Earned(i) ==
  \/ observed[i] >= MinCycles(i) /\ used[i] >= MinUses(i)
  \/ i \in replaced \cup promoted

\* A memory m of item i, however old the copy, counts no more than happened.
Counted(i, m) ==
  /\ (m.cycles <= observed[i] /\ m.useful <= used[i]) \/ i \in replaced
  /\ m.status = "active" => Earned(i)

\* Nor does a typed row.
Shown(i, c) == c.cycles <= observed[i] \/ i \in replaced

\* What a worker holds.
Knows(w) ==
  /\ item[w] # None => Counted(item[w], copy[w])
  /\ \A i \in Items : Shown(i, shown[w][i])
  /\ pc[w] \in {"putScene", "activateScene"} => item[w] \in Scenes
  /\ pc[w] \in {"lookUp", "putPersona", "supersede", "activate"} => item[w] \in Personas
  /\ pc[w] = "supersede" => other[w] \in Personas
  /\ pc[w] = "govern" => item[w] \in Items
  /\ pc[w] = "activateScene" => SceneReady(shown[w][item[w]], copy[w])
  /\ pc[w] = "activate" => PersonaReady(shown[w][item[w]], copy[w])

Inv ==
  /\ TypeOK
  /\ \A i \in Items : Counted(i, memory[i]) /\ Shown(i, card[i])
  /\ \A w \in Workers : Knows(w)
  /\ OneCurrentVersion /\ SupersededIsHidden

\* Nothing changes in the hands of a worker.
Keeps(v) ==
  /\ pc'[v] = pc[v] /\ item'[v] = item[v] /\ other'[v] = other[v]
  /\ copy'[v] = copy[v] /\ shown'[v] = shown[v]

\* What has happened stays.
Lasts ==
  /\ \A i \in Items : observed[i] <= observed'[i] /\ used[i] <= used'[i]
  /\ replaced \subseteq replaced' /\ promoted \subseteq promoted'

\* The parts of the type invariant.
StoredOK ==
  /\ memory \in [Items -> Memory] /\ card \in [Items -> Card]
  /\ history \subseteq Personas \X Personas
CountsOK ==
  answers \in 0..MaxAnswers /\ governed \in 0..MaxGoverned /\ deletions \in 0..MaxDeletions
LocalOK ==
  /\ pc \in [Workers -> Locations]
  /\ item \in [Workers -> Items \cup {None}] /\ other \in [Workers -> Items \cup {None}]
  /\ body \in [Workers -> SUBSET Evidence]
  /\ copy \in [Workers -> Memory]
  /\ shown \in [Workers -> [Items -> Card]]
RecordsOK ==
  /\ observed \in [Items -> 0..CycleCap] /\ used \in [Items -> 0..UseCap]
  /\ replaced \subseteq Items /\ promoted \subseteq Items /\ revived \subseteq Items
  /\ purged \subseteq Keys

\* The type invariant is made of them.
LEMMA Types == TypeOK <=> StoredOK /\ CountsOK /\ LocalOK /\ RecordsOK
  BY DEF TypeOK, StoredOK, CountsOK, LocalOK, RecordsOK

\* What was justified and counted stays so.
LEMMA StillCounted ==
  ASSUME RecordsOK, RecordsOK', Lasts, NEW i \in Items
  PROVE  /\ Earned(i) => Earned(i)'
         /\ \A m \in Memory : Counted(i, m) => Counted(i, m)'
         /\ \A c \in Card : Shown(i, c) => Shown(i, c)'
<1>1. /\ observed[i] \in 0..CycleCap /\ observed'[i] \in 0..CycleCap
      /\ used[i] \in 0..UseCap /\ used'[i] \in 0..UseCap
      /\ observed[i] <= observed'[i] /\ used[i] <= used'[i]
      /\ (i \in replaced => i \in replaced') /\ (i \in promoted => i \in promoted')
  BY DEF RecordsOK, Lasts
<1>2. Earned(i) => Earned(i)'
  BY <1>1, Caps DEF Earned, MinCycles, MinUses
<1>3. \A m \in Memory : m.cycles \in 0..CycleCap /\ m.useful \in 0..UseCap
  BY DEF Memory
<1>4. \A c \in Card : c.cycles \in 0..CycleCap
  BY DEF Card
<1>5. CycleCap \in Nat /\ UseCap \in Nat
  BY Caps
<1>6. \A m \in Memory : Counted(i, m) => Counted(i, m)'
  <2> TAKE m \in Memory
  <2> QED
    BY <1>1, <1>2, <1>3, <1>5 DEF Counted
<1>7. \A c \in Card : Shown(i, c) => Shown(i, c)'
  BY <1>1, <1>4, <1>5 DEF Shown
<1> QED
  BY <1>2, <1>6, <1>7

\* What a worker holds stays true while the others work.
LEMMA OthersKnow ==
  ASSUME Inv, RecordsOK', Lasts, NEW v \in Workers, Keeps(v)
  PROVE  Knows(v)'
<1>1. Knows(v) /\ LocalOK /\ RecordsOK
  BY Types DEF Inv
<1>2. /\ item[v] \in Items \cup {None} /\ copy[v] \in Memory
      /\ \A i \in Items : shown[v][i] \in Card
  BY <1>1 DEF LocalOK
<1>3. item'[v] # None => Counted(item[v], copy[v])'
  BY <1>1, <1>2, StillCounted DEF Knows, Keeps
<1>4. \A i \in Items : Shown(i, shown[v][i])'
  BY <1>1, <1>2, StillCounted DEF Knows, Keeps
<1> QED
  BY <1>1, <1>3, <1>4 DEF Knows, Keeps, Counted, Earned, Shown, SceneReady, PersonaReady

\* A step keeps the invariant if the types, the counts and the two properties of facets
\* hold after it, and a worker whose hands it changes knows only what is true.
LEMMA StepKeeps ==
  ASSUME Inv, \A v \in Workers : Keeps(v) \/ Knows(v)', Lasts,
         StoredOK', CountsOK', LocalOK', RecordsOK',
         \A i \in Items : memory'[i] = memory[i] \/ Counted(i, memory[i])',
         \A i \in Items : card'[i] = card[i] \/ Shown(i, card[i])',
         OneCurrentVersion', SupersededIsHidden'
  PROVE  Inv'
<1>1. StoredOK /\ RecordsOK
  BY Types DEF Inv
<1>2. \A i \in Items : memory[i] \in Memory /\ card[i] \in Card
  BY <1>1 DEF StoredOK
<1>3. \A i \in Items : Counted(i, memory[i])'
  <2> TAKE i \in Items
  <2>1. CASE memory'[i] = memory[i]
    <3>1. Counted(i, memory[i])
      BY DEF Inv
    <3> DEFINE m == memory[i]
    <3>2. m \in Memory /\ Counted(i, m) /\ m' = m
      BY <1>2, <2>1, <3>1
    <3> HIDE DEF m
    <3>3. Counted(i, m)'
      BY <1>1, <3>2, StillCounted DEF Counted, Earned
    <3> QED
      BY <3>3 DEF m
  <2> QED
    BY <2>1
<1>4. \A i \in Items : Shown(i, card[i])'
  <2> TAKE i \in Items
  <2>1. CASE card'[i] = card[i]
    <3>1. Shown(i, card[i])
      BY DEF Inv
    <3> DEFINE c == card[i]
    <3>2. c \in Card /\ Shown(i, c) /\ c' = c
      BY <1>2, <2>1, <3>1
    <3> HIDE DEF c
    <3>3. Shown(i, c)'
      BY <1>1, <3>2, StillCounted DEF Shown
    <3> QED
      BY <3>3 DEF c
  <2> QED
    BY <2>1
<1>5. \A v \in Workers : Knows(v)'
  BY OthersKnow
<1>6. TypeOK'
  BY DEF TypeOK, StoredOK, CountsOK, LocalOK, RecordsOK
<1> QED
  BY <1>3, <1>4, <1>5, <1>6 DEF Inv

\* The same for a step that writes nothing.
LEMMA QuietKeeps ==
  ASSUME Inv, NEW w \in Workers, \A v \in Workers \ {w} : Keeps(v),
         UNCHANGED stored, UNCHANGED records, CountsOK', LocalOK', Knows(w)'
  PROVE  Inv'
<1>1. StoredOK /\ RecordsOK /\ OneCurrentVersion /\ SupersededIsHidden
  BY Types DEF Inv
<1>2. UNCHANGED <<memory, card, history, observed, used, replaced, promoted, revived, purged>>
  BY DEF stored, records
<1>3. StoredOK' /\ RecordsOK'
  BY <1>1, <1>2 DEF StoredOK, RecordsOK
<1>4. Lasts
  BY <1>1, <1>2, Caps DEF Lasts, RecordsOK
<1>5. OneCurrentVersion' /\ SupersededIsHidden'
  BY <1>1, <1>2 DEF OneCurrentVersion, SupersededIsHidden, Current
<1> QED
  BY <1>2, <1>3, <1>4, <1>5, StepKeeps

\* A worker that drops what it held.
LEMMA Leaving ==
  ASSUME LocalOK, NEW w \in Workers, NEW l \in Locations, Leave(w, l)
  PROVE  /\ pc'[w] = l /\ item'[w] = None /\ other'[w] = None /\ copy'[w] \in Memory
         /\ pc' \in [Workers -> Locations]
         /\ item' \in [Workers -> Items \cup {None}] /\ other' \in [Workers -> Items \cup {None}]
         /\ body' \in [Workers -> SUBSET Evidence] /\ copy' \in [Workers -> Memory]
         /\ \A v \in Workers \ {w} : /\ pc'[v] = pc[v] /\ item'[v] = item[v]
                                     /\ other'[v] = other[v] /\ copy'[v] = copy[v]
<1>1. NoMemory \in Memory
  BY Caps DEF NoMemory, Memory, Statuses
<1>2. /\ pc' = [pc EXCEPT ![w] = l] /\ item' = [item EXCEPT ![w] = None]
      /\ other' = [other EXCEPT ![w] = None] /\ body' = [body EXCEPT ![w] = {}]
      /\ copy' = [copy EXCEPT ![w] = NoMemory]
  BY DEF Leave
<1>3. pc' \in [Workers -> Locations] /\ pc'[w] = l /\ \A v \in Workers \ {w} : pc'[v] = pc[v]
  BY <1>2 DEF LocalOK
<1>4. /\ item' \in [Workers -> Items \cup {None}] /\ item'[w] = None
      /\ \A v \in Workers \ {w} : item'[v] = item[v]
  BY <1>2 DEF LocalOK
<1>5. /\ other' \in [Workers -> Items \cup {None}] /\ other'[w] = None
      /\ \A v \in Workers \ {w} : other'[v] = other[v]
  BY <1>2 DEF LocalOK
<1>6. body' \in [Workers -> SUBSET Evidence]
  BY <1>2 DEF LocalOK
<1>7. /\ copy' \in [Workers -> Memory] /\ copy'[w] = NoMemory
      /\ \A v \in Workers \ {w} : copy'[v] = copy[v]
  BY <1>1, <1>2 DEF LocalOK
<1> QED
  BY <1>1, <1>3, <1>4, <1>5, <1>6, <1>7

\* What a worker has listed is typed and counted, and the others' lists are untouched.
Relisted(w) ==
  /\ shown' \in [Workers -> [Items -> Card]]
  /\ \A i \in Items : Shown(i, shown'[w][i])
  /\ \A v \in Workers \ {w} : shown'[v] = shown[v]

\* The rows a worker has listed, after it has listed, dropped or forgotten some.
LEMMA Listing ==
  ASSUME Inv, NEW w \in Workers
  PROVE  /\ \A S : List(w, S) => Relisted(w)
         /\ Forgotten(w) => Relisted(w)
         /\ \A i \in Items : Drop(w, i) => Relisted(w)
         /\ \A q : shown' = [shown EXCEPT ![w] = [i \in Items |-> IF i = q THEN @[i] ELSE NoCard]]
                  => Relisted(w)
         /\ shown' = shown => Relisted(w)
<1>1. /\ shown \in [Workers -> [Items -> Card]] /\ card \in [Items -> Card]
      /\ \A i \in Items : observed[i] \in 0..CycleCap /\ Shown(i, card[i])
      /\ \A i \in Items : Shown(i, shown[w][i])
  BY DEF Inv, TypeOK, Knows
<1>2. NoCard \in Card
  BY Caps DEF NoCard, Card
<1>3. \A i \in Items : Shown(i, NoCard)
  BY <1>1, Caps DEF Shown, NoCard
<1>4. ASSUME NEW f \in [Items -> Card], \A i \in Items : Shown(i, f[i]),
             shown' = [shown EXCEPT ![w] = f]
      PROVE  Relisted(w)
  <2>1. shown'[w] = f
    BY <1>1, <1>4
  <2> QED
    BY <1>1, <1>4, <2>1 DEF Relisted
<1>5. ASSUME NEW S, List(w, S)
      PROVE  Relisted(w)
  <2> DEFINE f == [i \in Items |-> IF i \in S THEN card[i] ELSE NoCard]
  <2>1. f \in [Items -> Card] /\ \A i \in Items : Shown(i, f[i])
    BY <1>1, <1>2, <1>3
  <2>2. shown' = [shown EXCEPT ![w] = f]
    BY <1>5 DEF List
  <2> HIDE DEF f
  <2> QED
    BY <1>4, <2>1, <2>2
<1>6. ASSUME Forgotten(w)
      PROVE  Relisted(w)
  <2> DEFINE f == [i \in Items |-> NoCard]
  <2>1. f \in [Items -> Card] /\ \A i \in Items : Shown(i, f[i])
    BY <1>2, <1>3
  <2>2. shown' = [shown EXCEPT ![w] = f]
    BY <1>6 DEF Forgotten
  <2> HIDE DEF f
  <2> QED
    BY <1>4, <2>1, <2>2
<1>7. ASSUME NEW q, shown' = [shown EXCEPT ![w] = [i \in Items |-> IF i = q THEN @[i] ELSE NoCard]]
      PROVE  Relisted(w)
  <2> DEFINE f == [i \in Items |-> IF i = q THEN shown[w][i] ELSE NoCard]
  <2>1. f \in [Items -> Card] /\ \A i \in Items : Shown(i, f[i])
    BY <1>1, <1>2, <1>3
  <2>2. shown' = [shown EXCEPT ![w] = f]
    BY <1>7
  <2> HIDE DEF f
  <2> QED
    BY <1>4, <2>1, <2>2
<1>8. ASSUME NEW j \in Items, Drop(w, j)
      PROVE  Relisted(w)
  <2> DEFINE f == [shown[w] EXCEPT ![j] = NoCard]
  <2>1. f \in [Items -> Card] /\ \A i \in Items : Shown(i, f[i])
    BY <1>1, <1>2, <1>3
  <2>2. shown' = [shown EXCEPT ![w] = f]
    BY <1>1, <1>8 DEF Drop
  <2> HIDE DEF f
  <2> QED
    BY <1>4, <2>1, <2>2
<1>9. CASE shown' = shown
  BY <1>1, <1>9 DEF Relisted
<1> QED
  BY <1>5, <1>6, <1>7, <1>8, <1>9

-----------------------------------------------------------------------------
(* What a worker holds after a step *)

\* What was listed is counted by what has happened since.
LEMMA StillShown ==
  ASSUME Inv, RecordsOK', Lasts, NEW w \in Workers, Relisted(w)
  PROVE  \A i \in Items : Shown(i, shown[w][i])'
<1> TAKE i \in Items
<1> DEFINE c == shown'[w][i]
<1>1. c \in Card /\ Shown(i, c)
  BY DEF Relisted
<1>2. observed[i] \in 0..CycleCap /\ observed'[i] \in 0..CycleCap /\ observed[i] <= observed'[i]
      /\ (i \in replaced => i \in replaced') /\ CycleCap \in Nat
  BY Types, Caps DEF Inv, RecordsOK, Lasts
<1>3. c.cycles \in 0..CycleCap
  BY <1>1 DEF Card
<1> QED
  BY <1>1, <1>2, <1>3 DEF Shown

\* A step that records nothing.
LEMMA SameRecords ==
  ASSUME Inv, UNCHANGED records
  PROVE  RecordsOK' /\ Lasts
<1>1. RecordsOK
  BY Types DEF Inv
<1>2. UNCHANGED <<observed, used, replaced, promoted, revived, purged>>
  BY DEF records
<1> QED
  BY <1>1, <1>2, Caps DEF RecordsOK, Lasts

\* A worker drops what it held and goes to a place where nothing is needed.
LEMMA Dropping ==
  ASSUME Inv, NEW w \in Workers, NEW l \in {"idle", "scene", "advanceScene", "distill", "advance"},
         Leave(w, l), Relisted(w), RecordsOK', Lasts
  PROVE  LocalOK' /\ Knows(w)' /\ \A v \in Workers \ {w} : Keeps(v)
<1>1. LocalOK /\ l \in Locations
  BY Types DEF Inv, Locations
<1>2. /\ pc'[w] = l /\ item'[w] = None
      /\ pc' \in [Workers -> Locations]
      /\ item' \in [Workers -> Items \cup {None}] /\ other' \in [Workers -> Items \cup {None}]
      /\ body' \in [Workers -> SUBSET Evidence] /\ copy' \in [Workers -> Memory]
      /\ \A v \in Workers \ {w} : /\ pc'[v] = pc[v] /\ item'[v] = item[v]
                                  /\ other'[v] = other[v] /\ copy'[v] = copy[v]
  BY <1>1, Leaving
<1>3. LocalOK'
  BY <1>2 DEF LocalOK, Relisted
<1>4. \A v \in Workers \ {w} : Keeps(v)
  BY <1>2 DEF Keeps, Relisted
<1>5. Knows(w)'
  BY <1>2, StillShown DEF Knows
<1> QED
  BY <1>3, <1>4, <1>5

\* The same, as a whole step.
LEMMA DroppingKeeps ==
  ASSUME Inv, NEW w \in Workers, NEW l \in {"idle", "scene", "advanceScene", "distill", "advance"},
         Leave(w, l), Relisted(w), UNCHANGED <<stored, counts, records>>
  PROVE  Inv'
<1>1. RecordsOK' /\ Lasts
  BY SameRecords
<1>2. CountsOK'
  BY Types DEF Inv, CountsOK, counts
<1>3. LocalOK' /\ Knows(w)' /\ \A v \in Workers \ {w} : Keeps(v)
  BY <1>1, Dropping
<1> QED
  BY <1>2, <1>3, QuietKeeps

\* A worker goes on with what it holds.
LEMMA GoingKeeps ==
  ASSUME Inv, NEW w \in Workers, NEW l \in Locations, pc' = [pc EXCEPT ![w] = l],
         UNCHANGED <<item, other, copy>>, body' \in [Workers -> SUBSET Evidence],
         Relisted(w), UNCHANGED stored, UNCHANGED records, CountsOK',
         l \notin {"putScene", "activateScene", "lookUp", "supersede", "govern", "activate"},
         l = "putPersona" => item[w] \in Personas
  PROVE  Inv'
<1>1. LocalOK /\ Knows(w)
  BY Types DEF Inv
<1>2. /\ pc' \in [Workers -> Locations] /\ pc'[w] = l
      /\ \A v \in Workers \ {w} : pc'[v] = pc[v]
  BY <1>1 DEF LocalOK
<1>3. LocalOK' /\ \A v \in Workers \ {w} : Keeps(v)
  BY <1>1, <1>2 DEF LocalOK, Relisted, Keeps
<1>4. \A i \in Items : Shown(i, shown[w][i])'
  BY StillShown, SameRecords
<1>5. item'[w] # None => Counted(item[w], copy[w])'
  BY <1>1 DEF Knows, Counted, Earned, records
<1>6. Knows(w)'
  BY <1>2, <1>4, <1>5 DEF Knows
<1> QED
  BY <1>3, <1>6, QuietKeeps

\* A worker takes the memory of an item.
LEMMA TakingKeeps ==
  ASSUME Inv, NEW w \in Workers, NEW l \in Locations, NEW i \in Items,
         pc' = [pc EXCEPT ![w] = l], item' = [item EXCEPT ![w] = i],
         copy' = [copy EXCEPT ![w] = memory[i]],
         other' \in [Workers -> Items \cup {None}], \A v \in Workers \ {w} : other'[v] = other[v],
         body' \in [Workers -> SUBSET Evidence],
         Relisted(w), UNCHANGED stored, UNCHANGED records, CountsOK',
         l \in {"putScene", "activateScene"} => i \in Scenes,
         l \in {"lookUp", "putPersona", "supersede", "activate"} => i \in Personas,
         l = "supersede" => other'[w] \in Personas,
         l = "activateScene" => SceneReady(shown'[w][i], memory[i]),
         l = "activate" => PersonaReady(shown'[w][i], memory[i])
  PROVE  Inv'
<1>1. LocalOK /\ StoredOK /\ Counted(i, memory[i])
  BY Types DEF Inv
<1>2. /\ pc' \in [Workers -> Locations] /\ pc'[w] = l
      /\ \A v \in Workers \ {w} : pc'[v] = pc[v]
  BY <1>1 DEF LocalOK
<1>3. /\ item' \in [Workers -> Items \cup {None}] /\ item'[w] = i
      /\ \A v \in Workers \ {w} : item'[v] = item[v]
  BY <1>1 DEF LocalOK
<1>4. /\ copy' \in [Workers -> Memory] /\ copy'[w] = memory[i]
      /\ \A v \in Workers \ {w} : copy'[v] = copy[v]
  <2>1. memory[i] \in Memory
    BY <1>1 DEF StoredOK
  <2> QED
    BY <1>1, <2>1 DEF LocalOK
<1>5. LocalOK' /\ \A v \in Workers \ {w} : Keeps(v)
  BY <1>1, <1>2, <1>3, <1>4 DEF LocalOK, Relisted, Keeps
<1>6. \A j \in Items : Shown(j, shown[w][j])'
  BY StillShown, SameRecords
<1>7. Counted(item[w], copy[w])'
  BY <1>1, <1>3, <1>4 DEF Counted, Earned, records
<1>8. Knows(w)'
  BY <1>2, <1>3, <1>4, <1>6, <1>7 DEF Knows, SceneReady, PersonaReady
<1> QED
  BY <1>5, <1>8, QuietKeeps

\* Steps of semantic_l3 that write nothing.
LEMMA SceneQuietKeeps ==
  ASSUME Inv, NEW w \in Workers,
         ListScenes(w) \/ EndScenes(w) \/ \E s \in Scenes : ReadScene(w, s) \/ SynthesizeScene(w, s)
  PROVE  Inv'
<1>1. LocalOK /\ CountsOK
  BY Types DEF Inv
<1>2. CASE ListScenes(w)
  <2>1. pc' = [pc EXCEPT ![w] = "advanceScene"] /\ List(w, ObservingScenes)
        /\ UNCHANGED <<item, other, body, copy>> /\ UNCHANGED stored /\ UNCHANGED records
        /\ UNCHANGED counts
    BY <1>2 DEF ListScenes
  <2>2. Relisted(w) /\ CountsOK' /\ body' \in [Workers -> SUBSET Evidence]
    BY <1>1, <2>1, Listing DEF counts, CountsOK, LocalOK
  <2> QED
    BY <2>1, <2>2, GoingKeeps DEF Locations
<1>3. CASE EndScenes(w)
  <2>1. pc' = [pc EXCEPT ![w] = "idle"] /\ shown' = shown
        /\ UNCHANGED <<item, other, body, copy>> /\ UNCHANGED stored /\ UNCHANGED records
        /\ UNCHANGED counts
    BY <1>3 DEF EndScenes
  <2>2. Relisted(w) /\ CountsOK' /\ body' \in [Workers -> SUBSET Evidence]
    BY <1>1, <2>1, Listing DEF counts, CountsOK, LocalOK
  <2> QED
    BY <2>1, <2>2, GoingKeeps DEF Locations
<1>4. ASSUME NEW s \in Scenes, ReadScene(w, s)
      PROVE  Inv'
  <2>1. /\ pc[w] = "advanceScene" /\ s \in Items
        /\ UNCHANGED <<other, body>> /\ UNCHANGED stored /\ UNCHANGED records /\ UNCHANGED counts
    BY <1>4 DEF ReadScene, Items
  <2>2. CountsOK' /\ body' \in [Workers -> SUBSET Evidence]
        /\ other' \in [Workers -> Items \cup {None}]
    BY <1>1, <2>1 DEF counts, CountsOK, LocalOK
  <2>3. CASE Drop(w, s) /\ UNCHANGED <<pc, item, copy>>
    <3>1. pc' = [pc EXCEPT ![w] = "advanceScene"]
      BY <1>1, <2>1, <2>3 DEF LocalOK
    <3>2. Relisted(w)
      BY <2>1, <2>3, Listing
    <3> QED
      BY <2>1, <2>2, <2>3, <3>1, <3>2, GoingKeeps DEF Locations
  <2>4. CASE ~(Drop(w, s) /\ UNCHANGED <<pc, item, copy>>)
    <3>1. /\ SceneReady(shown[w][s], memory[s]) /\ shown' = shown
          /\ pc' = [pc EXCEPT ![w] = "activateScene"]
          /\ item' = [item EXCEPT ![w] = s] /\ copy' = [copy EXCEPT ![w] = memory[s]]
      BY <1>4, <2>4 DEF ReadScene
    <3>2. Relisted(w)
      BY <3>1, Listing
    <3> QED
      BY <1>1, <2>1, <2>2, <3>1, <3>2, TakingKeeps DEF Locations
  <2> QED
    BY <2>3, <2>4
<1>5. ASSUME NEW s \in Scenes, SynthesizeScene(w, s)
      PROVE  Inv'
  <2>1. /\ s \in Items /\ pc' = [pc EXCEPT ![w] = "putScene"] /\ item' = [item EXCEPT ![w] = s]
        /\ copy' = [copy EXCEPT ![w] = memory[s]] /\ shown' = shown
        /\ answers < MaxAnswers /\ answers' = answers + 1
        /\ UNCHANGED <<other, body, governed, deletions>> /\ UNCHANGED stored /\ UNCHANGED records
    BY <1>5 DEF SynthesizeScene, Items
  <2>2. CountsOK' /\ body' \in [Workers -> SUBSET Evidence]
        /\ other' \in [Workers -> Items \cup {None}]
    BY <1>1, <2>1, SemanticLayersAssumption DEF CountsOK, LocalOK
  <2>3. Relisted(w)
    BY <2>1, Listing
  <2> QED
    BY <2>1, <2>2, <2>3, TakingKeeps DEF Locations
<1> QED
  BY <1>2, <1>3, <1>4, <1>5

\* Steps of distill that write nothing and keep what the worker holds, or drop it.
LEMMA DistillQuietKeeps ==
  ASSUME Inv, NEW w \in Workers,
         \/ LookUp(w) \/ PutPersonaFails(w) \/ ListCurrent(w) \/ ResolveNothing(w)
         \/ SupersedeFails(w) \/ \E E \in Supports : ObserveConflict(w, E)
  PROVE  Inv'
<1>1. LocalOK /\ CountsOK /\ Knows(w)
  BY Types DEF Inv
<1>2. CASE LookUp(w)
  <2> DEFINE l == IF CurrentVersions(item[w]) \subseteq {item[w]} THEN "putPersona" ELSE "resolve"
  <2>1. pc[w] = "lookUp" /\ pc' = [pc EXCEPT ![w] = l] /\ shown' = shown
        /\ UNCHANGED <<item, other, body, copy>> /\ UNCHANGED stored /\ UNCHANGED records
        /\ UNCHANGED counts
    BY <1>2 DEF LookUp
  <2>2. Relisted(w) /\ CountsOK' /\ body' \in [Workers -> SUBSET Evidence] /\ item[w] \in Personas
    BY <1>1, <2>1, Listing DEF counts, CountsOK, LocalOK, Knows
  <2>3. l \in {"putPersona", "resolve"}
    OBVIOUS
  <2> HIDE DEF l
  <2> QED
    BY <2>1, <2>2, <2>3, GoingKeeps DEF Locations
<1>3. CASE PutPersonaFails(w) \/ SupersedeFails(w)
  <2>1. Leave(w, "idle") /\ Forgotten(w) /\ UNCHANGED <<stored, counts, records>>
    BY <1>3 DEF PutPersonaFails, SupersedeFails, Abandon
  <2> QED
    BY <2>1, Listing, DroppingKeeps
<1>4. CASE ListCurrent(w)
  <2>1. pc' = [pc EXCEPT ![w] = "previous"] /\ List(w, {p \in Personas : Current(p)})
        /\ UNCHANGED <<item, other, body, copy>> /\ UNCHANGED stored /\ UNCHANGED records
        /\ UNCHANGED counts
    BY <1>4 DEF ListCurrent
  <2>2. Relisted(w) /\ CountsOK' /\ body' \in [Workers -> SUBSET Evidence]
    BY <1>1, <2>1, Listing DEF counts, CountsOK, LocalOK
  <2> QED
    BY <2>1, <2>2, GoingKeeps DEF Locations
<1>5. CASE ResolveNothing(w)
  <2>1. Leave(w, "distill") /\ Forgotten(w) /\ UNCHANGED <<stored, counts, records>>
    BY <1>5 DEF ResolveNothing
  <2> QED
    BY <2>1, Listing, DroppingKeeps
<1>6. ASSUME NEW E \in Supports, ObserveConflict(w, E)
      PROVE  Inv'
  <2>1. /\ pc' = [pc EXCEPT ![w] = "resolve"] /\ body' = [body EXCEPT ![w] = E] /\ shown' = shown
        /\ answers < MaxAnswers /\ answers' = answers + 1
        /\ UNCHANGED <<item, other, copy>> /\ UNCHANGED <<governed, deletions>>
        /\ UNCHANGED stored /\ UNCHANGED records
    BY <1>6 DEF ObserveConflict
  <2>2. E \subseteq Evidence
    BY SemanticLayersAssumption
  <2>3. Relisted(w) /\ CountsOK' /\ body' \in [Workers -> SUBSET Evidence]
    BY <1>1, <2>1, <2>2, Listing, SemanticLayersAssumption DEF CountsOK, LocalOK
  <2> QED
    BY <2>1, <2>3, GoingKeeps DEF Locations
<1> QED
  BY <1>2, <1>3, <1>4, <1>5, <1>6

\* Steps of distill in which a worker takes a facet.
LEMMA DistillTakesKeeps ==
  ASSUME Inv, NEW w \in Workers, NEW E \in Supports, NEW p \in Personas, NEW q \in Personas,
         SynthesizePersona(w, p, E) \/ Resolve(w, q, p, E)
  PROVE  Inv'
<1>1. LocalOK /\ CountsOK
  BY Types DEF Inv
<1>2. p \in Items /\ q \in Items /\ E \subseteq Evidence
  BY SemanticLayersAssumption DEF Items
<1>3. CASE SynthesizePersona(w, p, E)
  <2>1. /\ pc' = [pc EXCEPT ![w] = "lookUp"] /\ item' = [item EXCEPT ![w] = p]
        /\ body' = [body EXCEPT ![w] = E]
        /\ copy' = [copy EXCEPT ![w] = memory[p]] /\ shown' = shown
        /\ answers < MaxAnswers /\ answers' = answers + 1
        /\ UNCHANGED <<other, governed, deletions>> /\ UNCHANGED stored /\ UNCHANGED records
    BY <1>3 DEF SynthesizePersona
  <2>2. CountsOK' /\ body' \in [Workers -> SUBSET Evidence]
        /\ other' \in [Workers -> Items \cup {None}]
    BY <1>1, <1>2, <2>1, SemanticLayersAssumption DEF CountsOK, LocalOK
  <2>3. Relisted(w)
    BY <2>1, Listing
  <2> QED
    BY <1>2, <2>1, <2>2, <2>3, TakingKeeps DEF Locations
<1>4. CASE Resolve(w, q, p, E)
  <2>1. /\ pc' = [pc EXCEPT ![w] = "supersede"] /\ item' = [item EXCEPT ![w] = q]
        /\ other' = [other EXCEPT ![w] = p] /\ body' = [body EXCEPT ![w] = E]
        /\ copy' = [copy EXCEPT ![w] = memory[q]]
        /\ shown' = [shown EXCEPT ![w] = [i \in Items |-> IF i = q THEN @[i] ELSE NoCard]]
        /\ UNCHANGED stored /\ UNCHANGED records /\ UNCHANGED counts
    BY <1>4 DEF Resolve
  <2>2. CountsOK' /\ body' \in [Workers -> SUBSET Evidence]
    BY <1>1, <1>2, <2>1 DEF CountsOK, LocalOK, counts
  <2>3. /\ other' \in [Workers -> Items \cup {None}] /\ other'[w] = p
        /\ \A v \in Workers \ {w} : other'[v] = other[v]
    BY <1>1, <1>2, <2>1 DEF LocalOK
  <2>4. Relisted(w)
    BY <2>1, Listing
  <2> QED
    BY <1>2, <2>1, <2>2, <2>3, <2>4, TakingKeeps DEF Locations
<1> QED
  BY <1>3, <1>4

\* Steps of advance and of governance that write nothing.
LEMMA AdvanceQuietKeeps ==
  ASSUME Inv, NEW w \in Workers,
         \/ ListPersonas(w) \/ ActivatePersonaFails(w) \/ EndPersonas(w) \/ Stop(w)
         \/ \E p \in Personas : ReadPersona(w, p)
         \/ \E i \in Items : GovernRead(w, i)
  PROVE  Inv'
<1>1. LocalOK /\ CountsOK
  BY Types DEF Inv
<1>2. CASE ListPersonas(w)
  <2>1. pc' = [pc EXCEPT ![w] = "advance"] /\ List(w, ObservingPersonas)
        /\ UNCHANGED <<item, other, body, copy>> /\ UNCHANGED stored /\ UNCHANGED records
        /\ UNCHANGED counts
    BY <1>2 DEF ListPersonas
  <2>2. Relisted(w) /\ CountsOK' /\ body' \in [Workers -> SUBSET Evidence]
    BY <1>1, <2>1, Listing DEF counts, CountsOK, LocalOK
  <2> QED
    BY <2>1, <2>2, GoingKeeps DEF Locations
<1>3. CASE ActivatePersonaFails(w) \/ Stop(w)
  <2>1. Leave(w, "idle") /\ Forgotten(w) /\ UNCHANGED <<stored, counts, records>>
    BY <1>3 DEF ActivatePersonaFails, Stop, Abandon
  <2> QED
    BY <2>1, Listing, DroppingKeeps
<1>4. CASE EndPersonas(w)
  <2>1. pc' = [pc EXCEPT ![w] = "idle"] /\ shown' = shown
        /\ UNCHANGED <<item, other, body, copy>> /\ UNCHANGED stored /\ UNCHANGED records
        /\ UNCHANGED counts
    BY <1>4 DEF EndPersonas
  <2>2. Relisted(w) /\ CountsOK' /\ body' \in [Workers -> SUBSET Evidence]
    BY <1>1, <2>1, Listing DEF counts, CountsOK, LocalOK
  <2> QED
    BY <2>1, <2>2, GoingKeeps DEF Locations
<1>5. ASSUME NEW p \in Personas, ReadPersona(w, p)
      PROVE  Inv'
  <2>1. /\ pc[w] = "advance" /\ p \in Items
        /\ UNCHANGED <<other, body>> /\ UNCHANGED stored /\ UNCHANGED records /\ UNCHANGED counts
    BY <1>5 DEF ReadPersona, Items
  <2>2. CountsOK' /\ body' \in [Workers -> SUBSET Evidence]
        /\ other' \in [Workers -> Items \cup {None}]
    BY <1>1, <2>1 DEF counts, CountsOK, LocalOK
  <2>3. CASE Drop(w, p) /\ UNCHANGED <<pc, item, copy>>
    <3>1. pc' = [pc EXCEPT ![w] = "advance"]
      BY <1>1, <2>1, <2>3 DEF LocalOK
    <3>2. Relisted(w)
      BY <2>1, <2>3, Listing
    <3> QED
      BY <2>1, <2>2, <2>3, <3>1, <3>2, GoingKeeps DEF Locations
  <2>4. CASE ~(Drop(w, p) /\ UNCHANGED <<pc, item, copy>>)
    <3>1. /\ PersonaReady(shown[w][p], memory[p]) /\ shown' = shown
          /\ pc' = [pc EXCEPT ![w] = "activate"]
          /\ item' = [item EXCEPT ![w] = p] /\ copy' = [copy EXCEPT ![w] = memory[p]]
      BY <1>5, <2>4 DEF ReadPersona
    <3>2. Relisted(w)
      BY <3>1, Listing
    <3> QED
      BY <1>1, <2>1, <2>2, <3>1, <3>2, TakingKeeps DEF Locations
  <2> QED
    BY <2>3, <2>4
<1>6. ASSUME NEW i \in Items, GovernRead(w, i)
      PROVE  Inv'
  <2>1. /\ pc' = [pc EXCEPT ![w] = "govern"] /\ item' = [item EXCEPT ![w] = i]
        /\ copy' = [copy EXCEPT ![w] = memory[i]] /\ shown' = shown
        /\ governed < MaxGoverned /\ governed' = governed + 1
        /\ UNCHANGED <<other, body, answers, deletions>> /\ UNCHANGED stored /\ UNCHANGED records
    BY <1>6 DEF GovernRead
  <2>2. CountsOK' /\ body' \in [Workers -> SUBSET Evidence]
        /\ other' \in [Workers -> Items \cup {None}]
    BY <1>1, <2>1, SemanticLayersAssumption DEF CountsOK, LocalOK
  <2>3. Relisted(w)
    BY <2>1, Listing
  <2> QED
    BY <2>1, <2>2, <2>3, TakingKeeps DEF Locations
<1> QED
  BY <1>2, <1>3, <1>4, <1>5, <1>6

-----------------------------------------------------------------------------
(* Steps that write *)

\* A facet is stored as a current one, as the index allows.
LEMMA StoredAsCurrent ==
  ASSUME Inv, NEW p \in Personas, card'[p].status \in {"observing", "active"},
         \A j \in Personas \ {p} : card'[j] = card[j] /\ memory'[j] = memory[j],
         IndexAllows(p, {}), purged' = purged, revived' = revived
  PROVE  OneCurrentVersion' /\ SupersededIsHidden'
<1>1. OneCurrentVersion /\ SupersededIsHidden
  BY DEF Inv
<1>2. \A q \in Personas : Current(q)' <=> (Current(q) \/ q = p)
  BY DEF Current
<1>3. \A q \in Personas : KeyOf[q] = KeyOf[p] /\ Current(q) => q = p
  BY DEF IndexAllows, CurrentVersions
<1>4. \A q \in Personas : card'[q].status = "superseded" =>
         card[q].status = "superseded" /\ q # p
  OBVIOUS
<1>5. \A q, r \in Personas : KeyOf[q] = KeyOf[r] /\ Current(q)' /\ Current(r)' => q = r
  BY <1>1, <1>2, <1>3 DEF OneCurrentVersion
<1>6. \A q \in Personas : card'[q].status = "superseded" /\ KeyOf[q] \notin purged =>
         \E r \in Personas : KeyOf[r] = KeyOf[q] /\ Current(r)'
  BY <1>1, <1>2, <1>4 DEF OneCurrentVersion
<1>7. OneCurrentVersion'
  BY <1>5, <1>6 DEF OneCurrentVersion
<1>8. SupersededIsHidden'
  BY <1>1, <1>4 DEF SupersededIsHidden
<1> QED
  BY <1>7, <1>8

\* The typed rows of the facets stay; their memories stay hidden, or are marked as revived.
LEMMA CardsStay ==
  ASSUME Inv, \A p \in Personas : card'[p] = card[p],
         \A p \in Personas : memory[p].status = "tombstoned" =>
                              memory'[p].status = "tombstoned" \/ p \in revived',
         purged' = purged, revived \subseteq revived'
  PROVE  OneCurrentVersion' /\ SupersededIsHidden'
  BY DEF Inv, OneCurrentVersion, SupersededIsHidden, Current

\* What a synthesis stores counts one observation more than the row it was read from,
\* and one more has happened.
LEMMA Observing ==
  ASSUME Inv, NEW i \in Items, NEW old \in Memory, NEW c \in Card, Counted(i, old),
         c.cycles = OneMore(old.cycles),
         memory' = [memory EXCEPT ![i] = Observation(old)],
         card' = [card EXCEPT ![i] = c],
         observed' = [observed EXCEPT ![i] = OneMore(@)],
         UNCHANGED <<history, counts, used, replaced, promoted, revived, purged>>
  PROVE  /\ StoredOK' /\ CountsOK' /\ RecordsOK' /\ Lasts
         /\ \A j \in Items : memory'[j] = memory[j] \/ Counted(j, memory[j])'
         /\ \A j \in Items : card'[j] = card[j] \/ Shown(j, card[j])'
         /\ card'[i] = c
         /\ \A j \in Items \ {i} : memory'[j] = memory[j] /\ card'[j] = card[j]
<1>1. StoredOK /\ CountsOK /\ RecordsOK /\ CycleCap \in Nat /\ UseCap \in Nat
  BY Types, Caps DEF Inv
<1>2. old.status \in Statuses /\ old.cycles \in 0..CycleCap /\ old.useful \in 0..UseCap
  BY DEF Memory
<1>3. OneMore(old.cycles) \in 0..CycleCap
  BY <1>1, <1>2, Counters DEF OneMore
<1>4. PICK m \in Memory : /\ m = Observation(old)
                          /\ m.cycles = OneMore(old.cycles) /\ m.useful = old.useful
                          /\ m.status = "active" => old.status = "active"
  <2> DEFINE n == Observation(old)
  <2>1. /\ n.cycles = OneMore(old.cycles) /\ n.useful = old.useful
        /\ n.status = "active" => old.status = "active"
    BY DEF Observation
  <2>2. n \in Memory
    BY <1>2, <1>3 DEF Observation, Memory, Statuses
  <2> HIDE DEF n
  <2>3. \E m \in Memory : m = n
    BY <2>2
  <2> QED
    BY <2>1, <2>3 DEF n
<1>5. /\ memory' \in [Items -> Memory] /\ memory'[i] = m
      /\ \A j \in Items \ {i} : memory'[j] = memory[j]
  BY <1>1, <1>4 DEF StoredOK
<1>6. /\ card' \in [Items -> Card] /\ card'[i] = c
      /\ \A j \in Items \ {i} : card'[j] = card[j]
  BY <1>1 DEF StoredOK
<1>7. StoredOK' /\ CountsOK'
  BY <1>1, <1>5, <1>6 DEF StoredOK, CountsOK, counts
<1>8. /\ observed[i] \in 0..CycleCap /\ OneMore(observed[i]) \in 0..CycleCap
      /\ observed[i] <= OneMore(observed[i])
      /\ (old.cycles <= observed[i] => OneMore(old.cycles) <= OneMore(observed[i]))
  <2>1. observed[i] \in 0..CycleCap
    BY <1>1 DEF RecordsOK
  <2> QED
    BY <1>1, <1>2, <2>1, Counters DEF OneMore
<1>9. /\ observed' \in [Items -> 0..CycleCap] /\ observed'[i] = OneMore(observed[i])
      /\ \A j \in Items \ {i} : observed'[j] = observed[j]
  BY <1>1, <1>8 DEF RecordsOK
<1>10. RecordsOK'
  BY <1>1, <1>9 DEF RecordsOK
<1>11. Lasts
  <2>1. \A j \in Items : observed[j] \in 0..CycleCap /\ used[j] \in 0..UseCap
    BY <1>1 DEF RecordsOK
  <2>2. \A j \in Items : observed[j] <= observed'[j]
    BY <1>1, <1>8, <1>9, <2>1
  <2> QED
    BY <1>1, <2>1, <2>2 DEF Lasts
<1>12. (m.cycles <= observed'[i] /\ m.useful <= used'[i]) \/ i \in replaced'
  BY <1>4, <1>8, <1>9 DEF Counted
<1>13. m.status = "active" => Earned(i)'
  BY <1>1, <1>4, <1>10, <1>11, StillCounted DEF Counted
<1>14. Counted(i, m)'
  BY <1>12, <1>13 DEF Counted
<1>15. Shown(i, c)'
  BY <1>4, <1>12 DEF Shown
<1> QED
  BY <1>5, <1>6, <1>7, <1>10, <1>11, <1>14, <1>15 DEF Counted, Shown

\* A scene is stored.
LEMMA PutSceneKeeps ==
  ASSUME Inv, NEW w \in Workers, PutScene(w)
  PROVE  Inv'
<1>1. LocalOK /\ Knows(w)
  BY Types DEF Inv
<1>2. PICK s \in Scenes : s = item[w] /\ s \in Items /\ Counted(s, copy[w])
  BY <1>1, SemanticLayersAssumption DEF Knows, Items, PutScene
<1>3. PICK old \in Memory : old = copy[w]
  BY <1>1 DEF LocalOK
<1>4. Counted(s, old)
  BY <1>2, <1>3 DEF Counted, Earned
<1>5. PICK c : c = SceneCard(w) /\ c.cycles = OneMore(old.cycles)
  <2>1. SceneCard(w).cycles = OneMore(old.cycles)
    BY <1>3 DEF SceneCard
  <2> QED
    BY <2>1
<1>6. c \in Card
  <2>1. old.cycles \in 0..CycleCap
    BY DEF Memory
  <2> QED
    BY <1>3, <1>5, <2>1, Caps, Counters DEF OneMore, Card, SceneCard
<1>7. /\ Leave(w, "scene") /\ shown' = shown
      /\ memory' = [memory EXCEPT ![s] = Observation(old)] /\ card' = [card EXCEPT ![s] = c]
      /\ observed' = [observed EXCEPT ![s] = OneMore(@)]
      /\ UNCHANGED <<history, counts, used, replaced, promoted, revived, purged>>
  BY <1>2, <1>3, <1>5 DEF PutScene
<1>8. /\ StoredOK' /\ CountsOK' /\ RecordsOK' /\ Lasts
      /\ \A j \in Items : memory'[j] = memory[j] \/ Counted(j, memory[j])'
      /\ \A j \in Items : card'[j] = card[j] \/ Shown(j, card[j])'
      /\ \A j \in Items \ {s} : memory'[j] = memory[j] /\ card'[j] = card[j]
  BY <1>2, <1>4, <1>5, <1>6, <1>7, Observing
<1>9. Relisted(w)
  BY <1>7, Listing
<1>10. LocalOK' /\ Knows(w)' /\ \A v \in Workers \ {w} : Keeps(v)
  BY <1>7, <1>8, <1>9, Dropping
<1>11. \A p \in Personas : memory'[p] = memory[p] /\ card'[p] = card[p]
  BY <1>2, <1>8, SemanticLayersAssumption DEF Items
<1>12. OneCurrentVersion' /\ SupersededIsHidden'
  BY <1>7, <1>11, CardsStay
<1> QED
  BY <1>8, <1>10, <1>12, StepKeeps

\* A facet is stored.
LEMMA PutPersonaKeeps ==
  ASSUME Inv, NEW w \in Workers, PutPersona(w)
  PROVE  Inv'
<1>1. LocalOK /\ Knows(w)
  BY Types DEF Inv
<1>2. PICK p \in Personas : p = item[w] /\ p \in Items /\ Counted(p, copy[w])
  BY <1>1, SemanticLayersAssumption DEF Knows, Items, PutPersona
<1>3. PICK old \in Memory : old = copy[w]
  BY <1>1 DEF LocalOK
<1>4. Counted(p, old)
  BY <1>2, <1>3 DEF Counted, Earned
<1>5. PICK c : c = PersonaCard(w) /\ c.cycles = OneMore(old.cycles)
                /\ c.status \in {"observing", "active"}
  <2>1. /\ PersonaCard(w).cycles = OneMore(old.cycles)
        /\ PersonaCard(w).status \in {"observing", "active"}
    BY <1>3 DEF PersonaCard
  <2> QED
    BY <2>1
<1>6. c \in Card
  <2>1. old.cycles \in 0..CycleCap /\ body[w] \subseteq Evidence
    BY <1>1 DEF Memory, LocalOK
  <2> QED
    BY <1>3, <1>5, <2>1, Caps, Counters DEF OneMore, Card, PersonaCard
<1>7. /\ Leave(w, "distill") /\ shown' = shown /\ IndexAllows(p, {})
      /\ memory' = [memory EXCEPT ![p] = Observation(old)] /\ card' = [card EXCEPT ![p] = c]
      /\ observed' = [observed EXCEPT ![p] = OneMore(@)]
      /\ UNCHANGED <<history, counts, used, replaced, promoted, revived, purged>>
  BY <1>2, <1>3, <1>5 DEF PutPersona
<1>8. /\ StoredOK' /\ CountsOK' /\ RecordsOK' /\ Lasts
      /\ \A j \in Items : memory'[j] = memory[j] \/ Counted(j, memory[j])'
      /\ \A j \in Items : card'[j] = card[j] \/ Shown(j, card[j])'
      /\ card'[p] = c
      /\ \A j \in Items \ {p} : memory'[j] = memory[j] /\ card'[j] = card[j]
  BY <1>2, <1>4, <1>5, <1>6, <1>7, Observing
<1>9. Relisted(w)
  BY <1>7, Listing
<1>10. LocalOK' /\ Knows(w)' /\ \A v \in Workers \ {w} : Keeps(v)
  BY <1>7, <1>8, <1>9, Dropping
<1>11. \A j \in Personas \ {p} : memory'[j] = memory[j] /\ card'[j] = card[j]
  BY <1>2, <1>8, SemanticLayersAssumption DEF Items
<1>12. OneCurrentVersion' /\ SupersededIsHidden'
  BY <1>5, <1>7, <1>8, <1>11, StoredAsCurrent
<1> QED
  BY <1>8, <1>10, <1>12, StepKeeps

\* What advance writes: the row that was read, active, with a typed row that is counted.
LEMMA Activating ==
  ASSUME Inv, NEW i \in Items, NEW old \in Memory, NEW c \in Card,
         Counted(i, old), Earned(i), Shown(i, c),
         memory' = [memory EXCEPT ![i] = Activated(old)],
         card' = [card EXCEPT ![i] = c],
         UNCHANGED <<history, counts, records>>
  PROVE  /\ StoredOK' /\ CountsOK' /\ RecordsOK' /\ Lasts
         /\ \A j \in Items : memory'[j] = memory[j] \/ Counted(j, memory[j])'
         /\ \A j \in Items : card'[j] = card[j] \/ Shown(j, card[j])'
         /\ card'[i] = c
         /\ \A j \in Items \ {i} : memory'[j] = memory[j] /\ card'[j] = card[j]
<1>1. StoredOK /\ CountsOK /\ RecordsOK
  BY Types DEF Inv
<1>2. RecordsOK' /\ Lasts
  BY SameRecords
<1>3. PICK m \in Memory : m = Activated(old) /\ m.cycles = old.cycles /\ m.useful = old.useful
  <2>1. Activated(old) \in Memory /\ Activated(old).cycles = old.cycles
        /\ Activated(old).useful = old.useful
    BY DEF Activated, Memory, Statuses
  <2> QED
    BY <2>1
<1>4. /\ memory' \in [Items -> Memory] /\ memory'[i] = m
      /\ \A j \in Items \ {i} : memory'[j] = memory[j]
  BY <1>1, <1>3 DEF StoredOK
<1>5. /\ card' \in [Items -> Card] /\ card'[i] = c
      /\ \A j \in Items \ {i} : card'[j] = card[j]
  BY <1>1 DEF StoredOK
<1>6. StoredOK' /\ CountsOK'
  BY <1>1, <1>4, <1>5 DEF StoredOK, CountsOK, counts
<1>7. Earned(i)' /\ Counted(i, old)' /\ Shown(i, c)'
  BY <1>1, <1>2, StillCounted DEF Counted, Shown, Earned
<1>8. Counted(i, m)'
  BY <1>3, <1>7 DEF Counted
<1> QED
  BY <1>2, <1>4, <1>5, <1>6, <1>7, <1>8 DEF Counted, Shown

\* A policy that is met by what a worker holds was met by what happened.
LEMMA ReadyIsEarned ==
  ASSUME Inv, NEW i \in Items, NEW old \in Memory, NEW c \in Card,
         Counted(i, old), Shown(i, c), c.cycles >= MinCycles(i), old.useful >= MinUses(i)
  PROVE  Earned(i)
<1>1. /\ c.cycles \in 0..CycleCap /\ old.useful \in 0..UseCap
      /\ observed[i] \in 0..CycleCap /\ used[i] \in 0..UseCap
  BY DEF Card, Memory, Inv, TypeOK
<1> QED
  BY <1>1, Caps DEF Counted, Shown, Earned

\* A scene is activated.
LEMMA ActivateSceneKeeps ==
  ASSUME Inv, NEW w \in Workers, ActivateScene(w)
  PROVE  Inv'
<1>1. LocalOK /\ Knows(w)
  BY Types DEF Inv
<1>2. PICK s \in Scenes : s = item[w] /\ s \in Items /\ Counted(s, copy[w])
                          /\ SceneReady(shown[w][s], copy[w]) /\ Shown(s, shown[w][s])
  BY <1>1, SemanticLayersAssumption DEF Knows, Items, ActivateScene
<1>3. PICK old \in Memory : old = copy[w]
  BY <1>1 DEF LocalOK
<1>4. PICK c \in Card : c = shown[w][s]
  BY <1>1, <1>2 DEF LocalOK
<1>5. Counted(s, old) /\ Shown(s, c) /\ c.cycles >= MinCycles(s) /\ old.useful >= MinUses(s)
  BY <1>2, <1>3, <1>4 DEF Counted, Earned, Shown, SceneReady, MinCycles, MinUses
<1>6. Earned(s)
  BY <1>2, <1>5, ReadyIsEarned
<1>7. /\ Leave(w, "advanceScene") /\ Drop(w, s)
      /\ memory' = [memory EXCEPT ![s] = Activated(old)] /\ card' = [card EXCEPT ![s] = c]
      /\ UNCHANGED <<history, counts, records>>
  BY <1>2, <1>3, <1>4 DEF ActivateScene
<1>8. /\ StoredOK' /\ CountsOK' /\ RecordsOK' /\ Lasts
      /\ \A j \in Items : memory'[j] = memory[j] \/ Counted(j, memory[j])'
      /\ \A j \in Items : card'[j] = card[j] \/ Shown(j, card[j])'
      /\ \A j \in Items \ {s} : memory'[j] = memory[j] /\ card'[j] = card[j]
  BY <1>2, <1>5, <1>6, <1>7, Activating
<1>9. Relisted(w)
  BY <1>2, <1>7, Listing
<1>10. LocalOK' /\ Knows(w)' /\ \A v \in Workers \ {w} : Keeps(v)
  BY <1>7, <1>8, <1>9, Dropping
<1>11. \A p \in Personas : memory'[p] = memory[p] /\ card'[p] = card[p]
  BY <1>2, <1>8, SemanticLayersAssumption DEF Items
<1>12. OneCurrentVersion' /\ SupersededIsHidden'
  BY <1>7, <1>11, CardsStay DEF records
<1> QED
  BY <1>8, <1>10, <1>12, StepKeeps

\* A facet is activated.
LEMMA ActivatePersonaKeeps ==
  ASSUME Inv, NEW w \in Workers, ActivatePersona(w)
  PROVE  Inv'
<1>1. LocalOK /\ Knows(w)
  BY Types DEF Inv
<1>2. PICK p \in Personas : p = item[w] /\ p \in Items /\ Counted(p, copy[w])
                            /\ PersonaReady(shown[w][p], copy[w]) /\ Shown(p, shown[w][p])
  BY <1>1, SemanticLayersAssumption DEF Knows, Items, ActivatePersona
<1>3. PICK old \in Memory : old = copy[w]
  BY <1>1 DEF LocalOK
<1>4. PICK c \in Card : c = Activated(shown[w][p]) /\ c.status = "active"
                        /\ c.cycles = shown[w][p].cycles
  <2>1. PICK row \in Card : row = shown[w][p]
    BY <1>1, <1>2 DEF LocalOK
  <2>2. Activated(row) \in Card /\ Activated(row).status = "active"
        /\ Activated(row).cycles = row.cycles
    BY DEF Activated, Card
  <2> QED
    BY <2>1, <2>2
<1>5. /\ Counted(p, old) /\ Shown(p, c)
      /\ c.cycles >= MinCycles(p) /\ old.useful >= MinUses(p)
  <2>1. p \notin Scenes
    BY SemanticLayersAssumption
  <2> QED
    BY <1>2, <1>3, <1>4, <2>1 DEF Counted, Earned, Shown, PersonaReady, MinCycles, MinUses
<1>6. Earned(p)
  BY <1>2, <1>5, ReadyIsEarned
<1>7. /\ Leave(w, "advance") /\ Drop(w, p) /\ IndexAllows(p, {})
      /\ memory' = [memory EXCEPT ![p] = Activated(old)] /\ card' = [card EXCEPT ![p] = c]
      /\ UNCHANGED <<history, counts, records>>
  BY <1>2, <1>3, <1>4 DEF ActivatePersona
<1>8. /\ StoredOK' /\ CountsOK' /\ RecordsOK' /\ Lasts
      /\ \A j \in Items : memory'[j] = memory[j] \/ Counted(j, memory[j])'
      /\ \A j \in Items : card'[j] = card[j] \/ Shown(j, card[j])'
      /\ card'[p] = c
      /\ \A j \in Items \ {p} : memory'[j] = memory[j] /\ card'[j] = card[j]
  BY <1>2, <1>5, <1>6, <1>7, Activating
<1>9. Relisted(w)
  BY <1>2, <1>7, Listing
<1>10. LocalOK' /\ Knows(w)' /\ \A v \in Workers \ {w} : Keeps(v)
  BY <1>7, <1>8, <1>9, Dropping
<1>11. \A j \in Personas \ {p} : memory'[j] = memory[j] /\ card'[j] = card[j]
  BY <1>2, <1>8, SemanticLayersAssumption DEF Items
<1>12. OneCurrentVersion' /\ SupersededIsHidden'
  BY <1>4, <1>7, <1>8, <1>11, StoredAsCurrent DEF records
<1> QED
  BY <1>8, <1>10, <1>12, StepKeeps

\* A facet q becomes superseded and r the current one, as the index allows.
LEMMA ReplacedByCurrent ==
  ASSUME Inv, NEW q \in Personas, NEW r \in Personas, KeyOf[q] = KeyOf[r],
         IndexAllows(r, {q}), card'[r].status \in {"observing", "active"},
         q # r => card'[q].status = "superseded" /\ memory'[q].status = "tombstoned",
         \A j \in Personas \ {q, r} : card'[j] = card[j] /\ memory'[j] = memory[j],
         purged' = purged, revived' = revived
  PROVE  OneCurrentVersion' /\ SupersededIsHidden'
<1>1. OneCurrentVersion /\ SupersededIsHidden
  BY DEF Inv
<1>2. \A j \in Personas : Current(j)' <=> (j = r \/ (Current(j) /\ j # q))
  BY DEF Current
<1>3. \A j \in Personas : KeyOf[j] = KeyOf[r] /\ Current(j) => j = q \/ j = r
  BY DEF IndexAllows, CurrentVersions
<1>4. \A j \in Personas : card'[j].status = "superseded" => j # r
  OBVIOUS
<1>5. \A j, k \in Personas : KeyOf[j] = KeyOf[k] /\ Current(j)' /\ Current(k)' => j = k
  BY <1>1, <1>2, <1>3 DEF OneCurrentVersion
<1>6. ASSUME NEW j \in Personas, card'[j].status = "superseded", KeyOf[j] \notin purged
      PROVE  \E k \in Personas : KeyOf[k] = KeyOf[j] /\ Current(k)'
  <2>1. CASE KeyOf[j] = KeyOf[r]
    BY <1>2, <2>1
  <2>2. CASE KeyOf[j] # KeyOf[r]
    <3>1. card[j].status = "superseded"
      BY <1>4, <1>6, <2>2
    <3>2. PICK k \in Personas : KeyOf[k] = KeyOf[j] /\ Current(k)
      BY <1>1, <1>6, <3>1 DEF OneCurrentVersion
    <3> QED
      BY <1>2, <2>2, <3>2
  <2> QED
    BY <2>1, <2>2
<1>7. OneCurrentVersion'
  BY <1>5, <1>6 DEF OneCurrentVersion
<1>8. SupersededIsHidden'
  BY <1>1, <1>4 DEF SupersededIsHidden
<1> QED
  BY <1>7, <1>8

\* A facet is replaced by another version.
LEMMA SupersedeKeeps ==
  ASSUME Inv, NEW w \in Workers, Supersede(w)
  PROVE  Inv'
<1>1. StoredOK /\ CountsOK /\ LocalOK /\ RecordsOK /\ Knows(w) /\ CycleCap \in Nat
  BY Types, Caps DEF Inv
<1>2. PICK q \in Personas : q = item[w] /\ q \in Items
  BY <1>1 DEF Knows, Items, Supersede
<1>3. PICK r \in Personas : r = other[w] /\ r \in Items
  BY <1>1 DEF Knows, Items, Supersede
<1>4. PICK m \in Memory : m = ReplacementMemory(w)
  <2>1. shown[w][q] \in Card /\ copy[w] \in Memory
    BY <1>1, <1>2 DEF LocalOK
  <2>2. OneMore(shown[w][q].cycles) \in 0..CycleCap /\ copy[w].useful \in 0..UseCap
    BY <1>1, <2>1, Counters DEF OneMore, Card, Memory
  <2>3. ReplacementMemory(w) \in Memory
    BY <1>2, <2>2 DEF ReplacementMemory, Memory, Statuses
  <2> QED
    BY <2>3
<1>5. PICK c \in Card : c = ReplacementCard(w) /\ c.status = "active"
  <2>1. shown[w][q] \in Card /\ body[w] \subseteq Evidence
    BY <1>1, <1>2 DEF LocalOK
  <2>2. OneMore(shown[w][q].cycles) \in 0..CycleCap
    BY <1>1, <2>1, Counters DEF OneMore, Card
  <2>3. ReplacementCard(w) \in Card /\ ReplacementCard(w).status = "active"
    BY <1>2, <2>1, <2>2 DEF ReplacementCard, Card
  <2> QED
    BY <2>3
<1>6. /\ Leave(w, "distill") /\ Forgotten(w)
      /\ memory' = [memory EXCEPT ![q].status = "tombstoned", ![r] = m]
      /\ card' = [card EXCEPT ![q].status = "superseded", ![r] = c]
      /\ history' = history \cup {<<q, r>>} /\ replaced' = replaced \cup {r}
      /\ UNCHANGED <<counts, observed, used, promoted, revived, purged>>
      /\ KeyOf[q] = KeyOf[r] /\ IndexAllows(r, {q})
  BY <1>2, <1>3, <1>4, <1>5 DEF Supersede, Supersedable
<1>7. PICK n \in Memory : n = [memory[q] EXCEPT !.status = "tombstoned"]
                          /\ n.status = "tombstoned"
                          /\ n.cycles = memory[q].cycles /\ n.useful = memory[q].useful
  <2>1. PICK old \in Memory : old = memory[q]
    BY <1>1, <1>2 DEF StoredOK
  <2>2. [old EXCEPT !.status = "tombstoned"] \in Memory
    BY DEF Memory, Statuses
  <2>3. \E n \in Memory : n = [old EXCEPT !.status = "tombstoned"]
    BY <2>2
  <2> QED
    BY <2>1, <2>3 DEF Memory
<1>8. PICK d \in Card : d = [card[q] EXCEPT !.status = "superseded"]
                        /\ d.status = "superseded" /\ d.cycles = card[q].cycles
  <2>1. PICK old \in Card : old = card[q]
    BY <1>1, <1>2 DEF StoredOK
  <2>2. [old EXCEPT !.status = "superseded"] \in Card
    BY DEF Card
  <2>3. \E d \in Card : d = [old EXCEPT !.status = "superseded"]
    BY <2>2
  <2> QED
    BY <2>1, <2>3 DEF Card
<1>9. /\ memory' \in [Items -> Memory] /\ memory'[r] = m /\ (q # r => memory'[q] = n)
      /\ \A j \in Items \ {q, r} : memory'[j] = memory[j]
  BY <1>1, <1>2, <1>3, <1>6, <1>7 DEF StoredOK
<1>10. /\ card' \in [Items -> Card] /\ card'[r] = c /\ (q # r => card'[q] = d)
       /\ \A j \in Items \ {q, r} : card'[j] = card[j]
  BY <1>1, <1>2, <1>3, <1>6, <1>8 DEF StoredOK
<1>11. StoredOK' /\ CountsOK' /\ RecordsOK'
  BY <1>1, <1>3, <1>6, <1>9, <1>10 DEF StoredOK, CountsOK, RecordsOK, counts
<1>12. Lasts
  <2>1. \A j \in Items : observed[j] \in 0..CycleCap /\ used[j] \in 0..UseCap
    BY <1>1 DEF RecordsOK
  <2> QED
    BY <1>6, <2>1, Caps DEF Lasts
<1>13. Counted(r, m)' /\ Shown(r, c)'
  BY <1>6 DEF Counted, Shown, Earned
<1>14. Counted(q, n) /\ Shown(q, d)
  BY <1>2, <1>7, <1>8 DEF Inv, Counted, Shown
<1>15. Counted(q, n)' /\ Shown(q, d)'
  BY <1>1, <1>2, <1>11, <1>12, <1>14, StillCounted
<1>16. /\ \A j \in Items : memory'[j] = memory[j] \/ Counted(j, memory[j])'
       /\ \A j \in Items : card'[j] = card[j] \/ Shown(j, card[j])'
  BY <1>9, <1>10, <1>13, <1>15 DEF Counted, Shown
<1>17. Relisted(w)
  BY <1>6, Listing
<1>18. LocalOK' /\ Knows(w)' /\ \A v \in Workers \ {w} : Keeps(v)
  BY <1>6, <1>11, <1>12, <1>17, Dropping
<1>19. \A j \in Personas \ {q, r} : memory'[j] = memory[j] /\ card'[j] = card[j]
  BY <1>9, <1>10 DEF Items
<1>20. OneCurrentVersion' /\ SupersededIsHidden'
  BY <1>5, <1>6, <1>7, <1>8, <1>9, <1>10, <1>19, ReplacedByCurrent
<1> QED
  BY <1>11, <1>12, <1>16, <1>18, <1>20, StepKeeps

\* Governance writes a row back with a status.
LEMMA GovernWriteKeeps ==
  ASSUME Inv, NEW w \in Workers,
         NEW status \in {"active", "observing", "compressed", copy[w].status},
         GovernWrite(w, status)
  PROVE  Inv'
<1>1. StoredOK /\ CountsOK /\ LocalOK /\ RecordsOK /\ Knows(w)
  BY Types DEF Inv
<1>2. PICK i \in Items : i = item[w] /\ Counted(i, copy[w])
  BY <1>1, SemanticLayersAssumption DEF Knows, GovernWrite
<1>3. PICK old \in Memory : old = copy[w]
  BY <1>1 DEF LocalOK
<1>4. status \in Statuses
  BY <1>3 DEF Statuses, Memory
<1>5. PICK m \in Memory : m = [old EXCEPT !.status = status]
                          /\ m.status = status /\ m.cycles = old.cycles /\ m.useful = old.useful
  <2>1. [old EXCEPT !.status = status] \in Memory
    BY <1>4 DEF Memory
  <2>2. \E m \in Memory : m = [old EXCEPT !.status = status]
    BY <2>1
  <2> QED
    BY <2>2 DEF Memory
<1>6. /\ Leave(w, "idle") /\ memory' = [memory EXCEPT ![i] = m]
      /\ promoted' = (IF status = "active" /\ old.status # "active"
                      THEN promoted \cup {i} ELSE promoted)
      /\ revived' = (IF status # "tombstoned" /\ (memory[i].status = "tombstoned" \/ ~Stored(i))
                     THEN revived \cup {i} ELSE revived)
      /\ UNCHANGED <<card, history, counts, shown, observed, used, replaced, purged>>
  BY <1>2, <1>3, <1>5 DEF GovernWrite
<1>7. /\ memory' \in [Items -> Memory] /\ memory'[i] = m
      /\ \A j \in Items \ {i} : memory'[j] = memory[j]
  BY <1>1, <1>6 DEF StoredOK
<1>8. StoredOK' /\ CountsOK' /\ RecordsOK'
  BY <1>1, <1>6, <1>7 DEF StoredOK, CountsOK, RecordsOK, counts
<1>9. Lasts
  <2>1. \A j \in Items : observed[j] \in 0..CycleCap /\ used[j] \in 0..UseCap
    BY <1>1 DEF RecordsOK
  <2> QED
    BY <1>6, <2>1, Caps DEF Lasts
<1>10. Counted(i, old)
  BY <1>2, <1>3 DEF Counted, Earned
<1>11. Counted(i, old)'
  BY <1>1, <1>8, <1>9, <1>10, StillCounted
<1>12. status = "active" => Earned(i)'
  <2>1. CASE old.status = "active"
    BY <1>11, <2>1 DEF Counted
  <2>2. CASE old.status # "active"
    BY <1>6, <2>2 DEF Earned
  <2> QED
    BY <2>1, <2>2
<1>13. Counted(i, m)'
  BY <1>5, <1>11, <1>12 DEF Counted
<1>14. /\ \A j \in Items : memory'[j] = memory[j] \/ Counted(j, memory[j])'
       /\ \A j \in Items : card'[j] = card[j] \/ Shown(j, card[j])'
  BY <1>6, <1>7, <1>13 DEF Counted
<1>15. Relisted(w)
  BY <1>6, Listing
<1>16. LocalOK' /\ Knows(w)' /\ \A v \in Workers \ {w} : Keeps(v)
  BY <1>6, <1>8, <1>9, <1>15, Dropping
<1>17. \A p \in Personas : memory[p].status = "tombstoned" =>
          memory'[p].status = "tombstoned" \/ p \in revived'
  BY <1>5, <1>6, <1>7 DEF Items
<1>18. OneCurrentVersion' /\ SupersededIsHidden'
  BY <1>6, <1>17, CardsStay
<1> QED
  BY <1>8, <1>9, <1>14, <1>16, <1>18, StepKeeps

\* A useful signal.
LEMMA UseKeeps ==
  ASSUME Inv, NEW i \in Items, Use(i)
  PROVE  Inv'
<1>1. StoredOK /\ CountsOK /\ LocalOK /\ RecordsOK
  BY Types DEF Inv
<1>2. /\ memory' = [memory EXCEPT ![i].useful = Bump(@, UseCap)]
      /\ used' = [used EXCEPT ![i] = Bump(@, UseCap)]
      /\ UNCHANGED <<card, history, counts, local, observed, replaced, promoted, revived, purged>>
  BY DEF Use
<1>3. PICK old \in Memory : old = memory[i] /\ Counted(i, memory[i])
  BY <1>1 DEF StoredOK, Inv
<1>4. /\ old.useful \in 0..UseCap /\ used[i] \in 0..UseCap /\ UseCap \in Nat
      /\ observed[i] \in 0..CycleCap /\ old.cycles \in 0..CycleCap /\ CycleCap \in Nat
  BY <1>1, Caps DEF RecordsOK, Memory
<1>5. /\ Bump(old.useful, UseCap) \in 0..UseCap /\ Bump(used[i], UseCap) \in 0..UseCap
      /\ used[i] <= Bump(used[i], UseCap)
      /\ (old.useful <= used[i] => Bump(old.useful, UseCap) <= Bump(used[i], UseCap))
  BY <1>4, Counters
<1>6. PICK m \in Memory : m = [old EXCEPT !.useful = Bump(@, UseCap)]
                          /\ m.status = old.status /\ m.cycles = old.cycles
                          /\ m.useful = Bump(old.useful, UseCap)
  <2>1. [old EXCEPT !.useful = Bump(@, UseCap)] \in Memory
    BY <1>5 DEF Memory
  <2>2. \E m \in Memory : m = [old EXCEPT !.useful = Bump(@, UseCap)]
    BY <2>1
  <2> QED
    BY <2>2 DEF Memory
<1>7. /\ memory' \in [Items -> Memory] /\ memory'[i] = m
      /\ \A j \in Items \ {i} : memory'[j] = memory[j]
  BY <1>1, <1>2, <1>3, <1>6 DEF StoredOK
<1>8. /\ used' \in [Items -> 0..UseCap] /\ used'[i] = Bump(used[i], UseCap)
      /\ \A j \in Items \ {i} : used'[j] = used[j]
  BY <1>1, <1>2, <1>5 DEF RecordsOK
<1>9. StoredOK' /\ CountsOK' /\ RecordsOK' /\ LocalOK'
  BY <1>1, <1>2, <1>7, <1>8 DEF StoredOK, CountsOK, RecordsOK, LocalOK, counts, local
<1>10. Lasts
  <2>1. \A j \in Items : observed[j] \in 0..CycleCap /\ used[j] \in 0..UseCap
    BY <1>1 DEF RecordsOK
  <2>2. \A j \in Items : used[j] <= used'[j]
    BY <1>4, <1>5, <1>8, <2>1
  <2> QED
    BY <1>2, <1>4, <2>1, <2>2 DEF Lasts
<1>11. Counted(i, old)
  BY <1>3 DEF Counted, Earned
<1>12. Counted(i, old)'
  BY <1>1, <1>9, <1>10, <1>11, StillCounted
<1>13. (m.cycles <= observed'[i] /\ m.useful <= used'[i]) \/ i \in replaced'
  BY <1>2, <1>5, <1>6, <1>8, <1>11 DEF Counted
<1>14. Counted(i, m)'
  BY <1>6, <1>12, <1>13 DEF Counted
<1>15. /\ \A j \in Items : memory'[j] = memory[j] \/ Counted(j, memory[j])'
       /\ \A j \in Items : card'[j] = card[j] \/ Shown(j, card[j])'
  BY <1>2, <1>7, <1>14 DEF Counted
<1>16. \A v \in Workers : Keeps(v)
  BY <1>2 DEF Keeps, local
<1>17. \A j \in Items : memory'[j].status = memory[j].status
  BY <1>3, <1>6, <1>7
<1>18. OneCurrentVersion' /\ SupersededIsHidden'
  BY <1>2, <1>17, CardsStay DEF Items
<1> QED
  BY <1>9, <1>10, <1>15, <1>16, <1>18, StepKeeps

\* A user deletes a memory logically.
LEMMA TombstoneKeeps ==
  ASSUME Inv, NEW i \in Items, Tombstone(i)
  PROVE  Inv'
<1>1. StoredOK /\ CountsOK /\ LocalOK /\ RecordsOK /\ MaxDeletions \in Nat
  BY Types, SemanticLayersAssumption DEF Inv
<1>2. /\ memory' = [memory EXCEPT ![i].status = "tombstoned"]
      /\ deletions < MaxDeletions /\ deletions' = deletions + 1
      /\ UNCHANGED <<card, history, answers, governed, local, records>>
  BY DEF Tombstone
<1>3. PICK old \in Memory : old = memory[i] /\ Counted(i, memory[i])
  BY <1>1 DEF StoredOK, Inv
<1>4. PICK m \in Memory : m = [old EXCEPT !.status = "tombstoned"]
                          /\ m.status = "tombstoned"
                          /\ m.cycles = old.cycles /\ m.useful = old.useful
  <2>1. [old EXCEPT !.status = "tombstoned"] \in Memory
    BY DEF Memory, Statuses
  <2>2. \E m \in Memory : m = [old EXCEPT !.status = "tombstoned"]
    BY <2>1
  <2> QED
    BY <2>2 DEF Memory
<1>5. /\ memory' \in [Items -> Memory] /\ memory'[i] = m
      /\ \A j \in Items \ {i} : memory'[j] = memory[j]
  BY <1>1, <1>2, <1>3, <1>4 DEF StoredOK
<1>6. RecordsOK' /\ Lasts
  BY <1>2, SameRecords
<1>7. StoredOK' /\ CountsOK' /\ LocalOK'
  BY <1>1, <1>2, <1>5 DEF StoredOK, CountsOK, LocalOK, local
<1>8. Counted(i, m)
  BY <1>3, <1>4 DEF Counted
<1>9. Counted(i, m)'
  BY <1>1, <1>6, <1>8, StillCounted
<1>10. /\ \A j \in Items : memory'[j] = memory[j] \/ Counted(j, memory[j])'
       /\ \A j \in Items : card'[j] = card[j] \/ Shown(j, card[j])'
  BY <1>2, <1>5, <1>9 DEF Counted
<1>11. \A v \in Workers : Keeps(v)
  BY <1>2 DEF Keeps, local
<1>12. \A p \in Personas : memory[p].status = "tombstoned" =>
          memory'[p].status = "tombstoned" \/ p \in revived'
  BY <1>4, <1>5 DEF Items
<1>13. OneCurrentVersion' /\ SupersededIsHidden'
  BY <1>2, <1>12, CardsStay DEF records
<1> QED
  BY <1>6, <1>7, <1>10, <1>11, <1>13, StepKeeps

\* A user deletes a memory physically.
LEMMA PurgeKeeps ==
  ASSUME Inv, NEW i \in Items, Purge(i)
  PROVE  Inv'
<1>1. StoredOK /\ CountsOK /\ LocalOK /\ RecordsOK /\ MaxDeletions \in Nat
  BY Types, SemanticLayersAssumption DEF Inv
<1>2. /\ memory' = [memory EXCEPT ![i] = NoMemory] /\ card' = [card EXCEPT ![i] = NoCard]
      /\ history' \subseteq history
      /\ deletions < MaxDeletions /\ deletions' = deletions + 1
      /\ purged' = (IF i \in Personas THEN purged \cup {KeyOf[i]} ELSE purged)
      /\ UNCHANGED <<answers, governed, local, observed, used, replaced, promoted, revived>>
  BY DEF Purge
<1>3. NoMemory \in Memory /\ NoCard \in Card
  BY Caps DEF NoMemory, NoCard, Memory, Card, Statuses
<1>4. /\ memory' \in [Items -> Memory] /\ memory'[i] = NoMemory
      /\ \A j \in Items \ {i} : memory'[j] = memory[j]
      /\ card' \in [Items -> Card] /\ card'[i] = NoCard
      /\ \A j \in Items \ {i} : card'[j] = card[j]
  BY <1>1, <1>2, <1>3 DEF StoredOK
<1>5. StoredOK' /\ CountsOK' /\ LocalOK' /\ RecordsOK'
  BY <1>1, <1>2, <1>4 DEF StoredOK, CountsOK, LocalOK, RecordsOK, local, Keys
<1>6. \A j \in Items : observed[j] \in 0..CycleCap /\ used[j] \in 0..UseCap
  BY <1>1 DEF RecordsOK
<1>7. Lasts
  BY <1>2, <1>6, Caps DEF Lasts
<1>8. Counted(i, NoMemory)' /\ Shown(i, NoCard)'
  BY <1>2, <1>6, Caps DEF Counted, Shown, NoMemory, NoCard
<1>9. /\ \A j \in Items : memory'[j] = memory[j] \/ Counted(j, memory[j])'
      /\ \A j \in Items : card'[j] = card[j] \/ Shown(j, card[j])'
  BY <1>4, <1>8 DEF Counted, Shown
<1>10. \A v \in Workers : Keeps(v)
  BY <1>2 DEF Keeps, local
<1>11. OneCurrentVersion /\ SupersededIsHidden
  BY DEF Inv
<1>12. \A j \in Personas : /\ Current(j)' <=> Current(j) /\ j # i
                           /\ (card'[j].status = "superseded" => j # i)
  BY <1>4 DEF Current, NoCard, Items
<1>13. \A j, k \in Personas : KeyOf[j] = KeyOf[k] /\ Current(j)' /\ Current(k)' => j = k
  BY <1>11, <1>12 DEF OneCurrentVersion
<1>14. ASSUME NEW j \in Personas, card'[j].status = "superseded", KeyOf[j] \notin purged'
       PROVE  \E k \in Personas : KeyOf[k] = KeyOf[j] /\ Current(k)'
  <2>1. card[j].status = "superseded" /\ KeyOf[j] \notin purged
    BY <1>2, <1>4, <1>12, <1>14 DEF Items
  <2>2. PICK k \in Personas : KeyOf[k] = KeyOf[j] /\ Current(k)
    BY <1>11, <2>1 DEF OneCurrentVersion
  <2>3. k # i
    BY <1>2, <1>14, <2>2
  <2> QED
    BY <1>12, <2>2, <2>3
<1>15. OneCurrentVersion'
  BY <1>13, <1>14 DEF OneCurrentVersion
<1>16. SupersededIsHidden'
  BY <1>2, <1>4, <1>11, <1>12 DEF SupersededIsHidden, Items
<1> QED
  BY <1>5, <1>7, <1>9, <1>10, <1>15, <1>16, StepKeeps

-----------------------------------------------------------------------------
(* The theorems *)

\* The invariant holds at first.
LEMMA InvInit == Init => Inv
<1> SUFFICES ASSUME Init PROVE Inv
  OBVIOUS
<1>1. NoMemory \in Memory /\ NoCard \in Card
  BY Caps DEF NoMemory, NoCard, Memory, Card, Statuses
<1>2. StoredOK
  BY <1>1 DEF Init, StoredOK
<1>3. CountsOK /\ RecordsOK
  BY SemanticLayersAssumption, Caps DEF Init, CountsOK, RecordsOK
<1>4. LocalOK
  BY <1>1 DEF Init, LocalOK, Locations
<1>5. \A i \in Items : Counted(i, memory[i]) /\ Shown(i, card[i])
  BY Caps DEF Init, Counted, Shown, NoMemory, NoCard
<1>6. \A w \in Workers : Knows(w)
  BY Caps DEF Init, Knows, Shown, NoCard
<1>7. OneCurrentVersion /\ SupersededIsHidden
  BY DEF Init, OneCurrentVersion, SupersededIsHidden, Current, NoCard, Items
<1> QED
  BY <1>2, <1>3, <1>4, <1>5, <1>6, <1>7, Types DEF Inv

\* Every step keeps the invariant.
LEMMA InvNext == Inv /\ [Next]_vars => Inv'
<1> SUFFICES ASSUME Inv, [Next]_vars PROVE Inv'
  OBVIOUS
<1>1. ASSUME NEW w \in Workers, SceneJob(w)
      PROVE  Inv'
  <2>1. CASE PutScene(w)
    BY <2>1, PutSceneKeeps
  <2>2. CASE ActivateScene(w)
    BY <2>2, ActivateSceneKeeps
  <2>3. CASE ListScenes(w) \/ EndScenes(w) \/ \E s \in Scenes : ReadScene(w, s) \/ SynthesizeScene(w, s)
    BY <2>3, SceneQuietKeeps
  <2> QED
    BY <1>1, <2>1, <2>2, <2>3 DEF SceneJob
<1>2. ASSUME NEW w \in Workers, DistillJob(w)
      PROVE  Inv'
  <2>1. CASE PutPersona(w)
    BY <2>1, PutPersonaKeeps
  <2>2. CASE Supersede(w)
    BY <2>2, SupersedeKeeps
  <2>3. CASE \/ LookUp(w) \/ PutPersonaFails(w) \/ ListCurrent(w) \/ ResolveNothing(w)
             \/ SupersedeFails(w) \/ \E E \in Supports : ObserveConflict(w, E)
    BY <2>3, DistillQuietKeeps
  <2>4. CASE \E E \in Supports : \/ \E p \in Personas : SynthesizePersona(w, p, E)
                                 \/ \E q, r \in Personas : Resolve(w, q, r, E)
    BY <2>4, DistillTakesKeeps
  <2> QED
    BY <1>2, <2>1, <2>2, <2>3, <2>4 DEF DistillJob
<1>3. ASSUME NEW w \in Workers, AdvanceJob(w) \/ Stop(w)
      PROVE  Inv'
  <2>1. CASE ActivatePersona(w)
    BY <2>1, ActivatePersonaKeeps
  <2> QED
    BY <1>3, <2>1, AdvanceQuietKeeps DEF AdvanceJob
<1>4. ASSUME NEW w \in Workers, LifecycleJob(w)
      PROVE  Inv'
  BY <1>4, AdvanceQuietKeeps, GovernWriteKeeps DEF LifecycleJob
<1>5. ASSUME NEW i \in Items, Use(i) \/ Tombstone(i) \/ Purge(i)
      PROVE  Inv'
  BY <1>5, UseKeeps, TombstoneKeeps, PurgeKeeps
<1>6. CASE UNCHANGED vars
  <2>1. UNCHANGED <<memory, card, history, answers, governed, deletions, pc, item, other, body,
                    copy, shown, observed, used, replaced, promoted, revived, purged>>
    BY <1>6 DEF vars, stored, counts, local, records
  <2> QED
    BY <2>1 DEF Inv, TypeOK, Counted, Shown, Earned, Knows, OneCurrentVersion,
                SupersededIsHidden, Current, SceneReady, PersonaReady
<1> QED
  BY <1>1, <1>2, <1>3, <1>4, <1>5, <1>6 DEF Next

\* The invariant holds always.
LEMMA InvAlways == Spec => []Inv
  BY InvInit, InvNext, PTL DEF Spec

\* What an active item owes its activation to has really happened, for any number of
\* workers that read counts in one transaction and write them in another
\* (SceneLifecycleManager.advance, PersonaLifecycleManager.advance).
THEOREM ActiveIsEarnedHolds == Spec => []ActiveIsEarned
<1>1. Inv => ActiveIsEarned
  BY DEF Inv, ActiveIsEarned, Counted, Earned
<1> QED
  BY <1>1, InvAlways, PTL

\* A facet key has at most one current version, and one as soon as it has a superseded
\* one, for any number of versions and workers (put_l4_persona, supersede_l4_persona).
THEOREM OneCurrentVersionHolds == Spec => []OneCurrentVersion
<1>1. Inv => OneCurrentVersion
  BY DEF Inv
<1> QED
  BY <1>1, InvAlways, PTL

\* A superseded version stays hidden unless governance revives it (supersede_l4_persona).
THEOREM SupersededIsHiddenHolds == Spec => []SupersededIsHidden
<1>1. Inv => SupersededIsHidden
  BY DEF Inv
<1> QED
  BY <1>1, InvAlways, PTL

\* The variables keep their types.
THEOREM TypeCorrect == Spec => []TypeOK
<1>1. Inv => TypeOK
  BY DEF Inv
<1> QED
  BY <1>1, InvAlways, PTL

=============================================================================
