------------------------- MODULE FoldPipelineProofs -------------------------
(* Proofs about FoldPipeline, for any number of messages, workers, facts,   *)
(* crashes and failures and any batch size.                                 *)
EXTENDS FoldPipeline, FiniteSetTheorems, TLAPS

-----------------------------------------------------------------------------
(* Rows in their order *)

\* How many rows of B come up to that of x.
Rank(B, row, x) == Cardinality({y \in B : row[y] <= row[x]})

\* Different rows have different ranks, and every rank is taken.
LEMMA Ranks ==
  ASSUME NEW B, IsFiniteSet(B), NEW row, \A x \in B : row[x] \in Nat,
         \A x, y \in B : row[x] = row[y] => x = y
  PROVE  /\ Cardinality(B) \in Nat
         /\ \A x \in B : Rank(B, row, x) \in 1..Cardinality(B)
         /\ \A x, y \in B : Rank(B, row, x) = Rank(B, row, y) => x = y
         /\ \A i \in 1..Cardinality(B) : \E x \in B : Rank(B, row, x) = i
<1> DEFINE Upto(x) == {y \in B : row[y] <= row[x]}
           f == [x \in B |-> Cardinality(Upto(x))]
<1>1. Cardinality(B) \in Nat
  BY FS_CardinalityType
<1>2. \A x \in B : IsFiniteSet(Upto(x)) /\ Cardinality(Upto(x)) \in Nat
                   /\ Cardinality(Upto(x)) <= Cardinality(B)
  <2> TAKE x \in B
  <2>1. Upto(x) \in SUBSET B
    OBVIOUS
  <2> QED
    BY <2>1, FS_Subset, FS_CardinalityType
<1>3. \A x \in B : Cardinality(Upto(x)) # 0
  <2> TAKE x \in B
  <2>1. x \in Upto(x)
    OBVIOUS
  <2> QED
    BY <1>2, <2>1, FS_EmptySet
<1>4. ASSUME NEW x \in B, NEW y \in B, Cardinality(Upto(x)) = Cardinality(Upto(y)), row[x] <= row[y]
      PROVE  x = y
  <2>1. Upto(x) \in SUBSET Upto(y)
    BY <1>4
  <2>2. Upto(x) = Upto(y)
    BY <1>2, <1>4, <2>1, FS_Subset
  <2>3. y \in Upto(x)
    BY <2>2
  <2> QED
    BY <1>4, <2>3
<1>5. ASSUME NEW x \in B, NEW y \in B, Cardinality(Upto(x)) = Cardinality(Upto(y))
      PROVE  x = y
  <2>1. row[x] <= row[y] \/ row[y] <= row[x]
    OBVIOUS
  <2> HIDE DEF Upto
  <2> QED
    BY <1>4, <1>5, <2>1
<1>6. \A x \in B : f[x] = Cardinality(Upto(x)) /\ Rank(B, row, x) = f[x]
  BY DEF Rank
<1>7. f \in [B -> 1..Cardinality(B)]
  BY <1>1, <1>2, <1>3
<1>8. f \in Injection(B, 1..Cardinality(B))
  <2>1. \A x, y \in B : f[x] = f[y] => x = y
    BY <1>5, <1>6
  <2> HIDE DEF f
  <2> QED
    BY <1>7, <2>1 DEF Injection, IsInjective
<1>9. IsFiniteSet(1..Cardinality(B)) /\ Cardinality(1..Cardinality(B)) = Cardinality(B)
  BY <1>1, FS_Interval
<1>10. f \in Surjection(B, 1..Cardinality(B))
  BY <1>8, <1>9, FS_Injection
<1>11. \A i \in 1..Cardinality(B) : \E x \in B : f[x] = i
  BY <1>10 DEF Surjection
<1> HIDE DEF f, Upto
<1> QED
  BY <1>1, <1>5, <1>11, <1>6, <1>7

\* Bounded rows have a first and a last.
LEMMA Extremes ==
  ASSUME NEW S, S # {}, NEW row, NEW n \in Nat, \A x \in S : row[x] \in 0..n
  PROVE  /\ \E x \in S : \A y \in S : row[y] <= row[x]
         /\ \E x \in S : \A y \in S : row[x] <= row[y]
<1> DEFINE R == {row[x] : x \in S}
           id == [r \in R |-> r]
<1>1. IsFiniteSet(R) /\ R # {} /\ \A r \in R : r \in Nat
  <2>1. R \in SUBSET (0..n) /\ IsFiniteSet(0..n)
    BY FS_Interval
  <2> QED
    BY <2>1, FS_Subset
<1>2. /\ Cardinality(R) \in Nat
      /\ \A i \in 1..Cardinality(R) : \E r \in R : Rank(R, id, r) = i
  <2>1. \A r \in R : id[r] \in Nat
    BY <1>1
  <2>2. \A r, q \in R : id[r] = id[q] => r = q
    OBVIOUS
  <2> HIDE DEF R, id
  <2> QED
    BY <1>1, <2>1, <2>2, Ranks
<1>3. \A r \in R : Rank(R, id, r) = Cardinality({q \in R : q <= r})
  <2> TAKE r \in R
  <2>1. {q \in R : id[q] <= id[r]} = {q \in R : q <= r}
    OBVIOUS
  <2> QED
    BY <2>1 DEF Rank
<1>4. Cardinality(R) # 0
  BY <1>1, FS_EmptySet
<1>5. ASSUME NEW i \in 1..Cardinality(R)
      PROVE  \E r \in R : Cardinality({q \in R : q <= r}) = i
  <2>1. PICK r \in R : Rank(R, id, r) = i
    BY <1>2
  <2> QED
    BY <1>3, <2>1
<1>6. \E r \in R : \A q \in R : q <= r
  <2>1. PICK r \in R : Cardinality({q \in R : q <= r}) = Cardinality(R)
    <3>1. Cardinality(R) \in 1..Cardinality(R)
      BY <1>2, <1>4
    <3> HIDE DEF R
    <3> QED
      BY <1>5, <3>1
  <2>2. {q \in R : q <= r} \in SUBSET R
    OBVIOUS
  <2>3. {q \in R : q <= r} = R
    BY <1>1, <2>1, <2>2, FS_Subset
  <2> QED
    BY <2>3
<1>7. \E r \in R : \A q \in R : r <= q
  <2>1. PICK r \in R : Cardinality({q \in R : q <= r}) = 1
    <3>1. 1 \in 1..Cardinality(R)
      BY <1>2, <1>4
    <3> HIDE DEF R
    <3> QED
      BY <1>5, <3>1
  <2>2. {q \in R : q <= r} \in SUBSET R
    OBVIOUS
  <2>3. IsFiniteSet({q \in R : q <= r})
    BY <1>1, <2>2, FS_Subset
  <2>4. PICK z : {q \in R : q <= r} = {z}
    BY <2>1, <2>3, FS_Singleton
  <2> HIDE DEF R
  <2>5. \A q \in R : q <= r => q = r
    BY <1>1, <2>4
  <2>6. \A q \in R : q <= r \/ r <= q
    BY <1>1
  <2> QED
    BY <1>1, <2>5, <2>6
<1> QED
  BY <1>6, <1>7

\* The checkpoint after a batch is the row of one of the batch, and none comes after it.
LEMMA LastRows ==
  ASSUME NEW S, S # {}, NEW row, NEW n \in Nat, \A x \in S : row[x] \in 0..n
  PROVE  /\ \E x \in S : LastRow(S, row) = row[x]
         /\ \A x \in S : row[x] <= LastRow(S, row)
<1>1. PICK x \in S : \A y \in S : row[y] <= row[x]
  BY Extremes
<1>2. \E r \in {row[y] : y \in S} : \A y \in S : row[y] <= r
  BY <1>1
<1>3. LastRow(S, row) \in {row[y] : y \in S} /\ \A y \in S : row[y] <= LastRow(S, row)
  BY <1>2, Zenon DEF LastRow
<1> QED
  BY <1>3

\* The first n of a finite set are at most n.
LEMMA FirstNBound ==
  ASSUME NEW A, IsFiniteSet(A), NEW row, NEW n \in Nat, \A x \in A : row[x] \in Nat,
         \A x, y \in A : row[x] = row[y] => x = y
  PROVE  Cardinality(FirstN(A, row, n)) <= n
<1> DEFINE B == FirstN(A, row, n)
           Upto(x) == {y \in A : row[y] <= row[x]}
<1>1. B \subseteq A /\ \A x \in B : Cardinality(Upto(x)) <= n
  BY DEF FirstN
<1> HIDE DEF B
<1>2. IsFiniteSet(B) /\ Cardinality(B) \in Nat
  BY <1>1, FS_Subset, FS_CardinalityType
<1>3. CASE B = {}
  BY <1>3, FS_EmptySet DEF B
<1>4. CASE B # {}
  <2>1. Cardinality(B) \in 1..Cardinality(B)
    BY <1>2, <1>4, FS_EmptySet
  <2>2. \A i \in 1..Cardinality(B) : \E x \in B : Rank(B, row, x) = i
    BY <1>1, <1>2, Ranks
  <2>3. PICK x \in B : Rank(B, row, x) = Cardinality(B)
    BY <2>1, <2>2
  <2>4. {y \in B : row[y] <= row[x]} \subseteq Upto(x) /\ IsFiniteSet(Upto(x))
    BY <1>1, FS_Subset
  <2>5. /\ Cardinality({y \in B : row[y] <= row[x]}) <= Cardinality(Upto(x))
        /\ Cardinality(Upto(x)) \in Nat
    BY <2>4, FS_Subset, FS_CardinalityType
  <2>6. Cardinality(B) <= Cardinality(Upto(x))
    BY <2>3, <2>5 DEF Rank
  <2> HIDE DEF Upto
  <2> QED
    BY <1>1, <1>2, <2>5, <2>6 DEF B
<1> QED
  BY <1>3, <1>4

\* The first n leave no gap: what comes no later than one of them is one of them.
LEMMA FirstNNoGap ==
  ASSUME NEW A, NEW row, NEW n \in Nat, \A x \in A : row[x] \in Nat \ {0},
         \A x, y \in A : row[x] = row[y] => x = y,
         NEW x \in FirstN(A, row, n), NEW y \in A, row[y] <= row[x]
  PROVE  y \in FirstN(A, row, n)
<1> DEFINE Upto(z) == {u \in A : row[u] <= row[z]}
<1>1. x \in A /\ Cardinality(Upto(x)) <= n
  BY DEF FirstN
<1>r. row[x] \in Nat \ {0}
  BY <1>1
<1>2. IsFiniteSet(Upto(x))
  <2> DEFINE f == [u \in Upto(x) |-> row[u]]
  <2>1. f \in [Upto(x) -> 1..row[x]]
    BY <1>1
  <2>2. \A u, v \in Upto(x) : f[u] = f[v] => u = v
    OBVIOUS
  <2> HIDE DEF f
  <2>3. f \in Injection(Upto(x), 1..row[x])
    BY <2>1, <2>2 DEF Injection, IsInjective
  <2>4. IsFiniteSet(1..row[x])
    BY <1>r, FS_Interval
  <2> QED
    BY <2>3, <2>4, FS_Injection
<1>3. Upto(y) \subseteq Upto(x)
  BY <1>1
<1>4. Cardinality(Upto(y)) <= Cardinality(Upto(x)) /\ Cardinality(Upto(x)) \in Nat
      /\ Cardinality(Upto(y)) \in Nat
  BY <1>2, <1>3, FS_Subset, FS_CardinalityType
<1>5. Cardinality(Upto(y)) <= n
  BY <1>1, <1>4
<1> QED
  BY <1>5 DEF FirstN

-----------------------------------------------------------------------------
(* Capsules and their names *)

\* k is the name of the batch B: its contents in the order of the rows.
Names(k, B) ==
  /\ DOMAIN k = 1..Cardinality(B)
  /\ \A m \in B : k[Rank(B, l0Row, m)] = Content[m]

\* Stored messages, in rows of their own.
Batch(B) ==
  /\ B \subseteq Messages
  /\ \A m \in B : l0Row[m] \in Nat
  /\ \A m, n \in B : l0Row[m] = l0Row[n] => m = n

\* Batches are finite.
LEMMA FiniteBatches ==
  ASSUME NEW B, Batch(B)
  PROVE  IsFiniteSet(B)
  BY FoldPipelineAssumption, FS_Subset DEF Batch

\* A batch gets a name that is its own.
LEMMA CapsuleNames ==
  ASSUME NEW B, Batch(B), B # {}, Cardinality(B) <= BatchSize
  PROVE  CapsuleId(B) \in CapsuleIds /\ Names(CapsuleId(B), B)
<1> DEFINE N == Cardinality(B)
           At(i) == CHOOSE m \in B : Cardinality({n \in B : l0Row[n] <= l0Row[m]}) = i
<1>1. IsFiniteSet(B) /\ N \in Nat /\ N # 0
  BY FiniteBatches, FoldPipelineAssumption, FS_Subset, FS_CardinalityType, FS_EmptySet DEF Batch
<1>2. /\ \A x \in B : Rank(B, l0Row, x) \in 1..N
      /\ \A x, y \in B : Rank(B, l0Row, x) = Rank(B, l0Row, y) => x = y
      /\ \A i \in 1..N : \E x \in B : Rank(B, l0Row, x) = i
  BY <1>1, Ranks DEF Batch
<1>3. ASSUME NEW i \in 1..N PROVE At(i) \in B /\ Rank(B, l0Row, At(i)) = i
  <2>1. \E m \in B : Cardinality({n \in B : l0Row[n] <= l0Row[m]}) = i
    BY <1>2 DEF Rank
  <2> QED
    BY <2>1, Zenon DEF Rank
<1>4. CapsuleId(B) = [i \in 1..N |-> Content[At(i)]]
  BY Zenon DEF CapsuleId
<1> HIDE DEF At
<1>5. CapsuleId(B) \in [1..N -> {Content[m] : m \in Messages}]
  BY <1>3, <1>4 DEF Batch
<1>6. CapsuleId(B) \in CapsuleIds
  <2>1. N \in 1..BatchSize
    BY <1>1, FoldPipelineAssumption
  <2> HIDE DEF N
  <2> QED
    BY <1>5, <2>1 DEF CapsuleIds
<1>7. \A m \in B : CapsuleId(B)[Rank(B, l0Row, m)] = Content[m]
  <2> TAKE m \in B
  <2> DEFINE i == Rank(B, l0Row, m)
  <2>1. i \in 1..N /\ At(i) \in B /\ Rank(B, l0Row, At(i)) = i
    BY <1>2, <1>3
  <2>2. At(i) = m
    BY <1>2, <2>1
  <2> HIDE DEF i
  <2>3. CapsuleId(B)[i] = Content[At(i)]
    BY <1>4, <2>1
  <2> QED
    BY <2>2, <2>3 DEF i
<1> QED
  BY <1>4, <1>6, <1>7 DEF Names

\* Two batches of the same name hold the same contents.
LEMMA OneNameOneContent ==
  ASSUME NEW A, NEW B, Batch(A), Batch(B), NEW k, Names(k, A), Names(k, B), NEW m \in A
  PROVE  \E x \in B : Content[x] = Content[m]
<1>1. IsFiniteSet(A) /\ IsFiniteSet(B)
  BY FiniteBatches
<1>2. Rank(A, l0Row, m) \in 1..Cardinality(A)
  BY <1>1, Ranks DEF Batch
<1>3. \A i \in 1..Cardinality(B) : \E x \in B : Rank(B, l0Row, x) = i
  BY <1>1, Ranks DEF Batch
<1>4. 1..Cardinality(A) = 1..Cardinality(B)
  BY DEF Names
<1>5. PICK x \in B : Rank(B, l0Row, x) = Rank(A, l0Row, m)
  BY <1>2, <1>3, <1>4
<1>6. Content[x] = Content[m]
  BY <1>5 DEF Names
<1> QED
  BY <1>6

-----------------------------------------------------------------------------
(* The inductive invariant *)

\* The rows of both layers, and what is in them.
Rows ==
  /\ top \in Nat
  /\ l0Row \in [Messages -> 0..top] /\ l1Row \in [CapsuleIds -> 0..top]
  /\ \A m, n \in Messages : l0Row[m] = l0Row[n] /\ l0Row[m] # 0 => m = n
  /\ \A k, l \in CapsuleIds : l1Row[k] = l1Row[l] /\ l1Row[k] # 0 => k = l
  /\ evidence \in [CapsuleIds -> SUBSET Messages]
  /\ \A k \in CapsuleIds : l1Row[k] # 0 => evidence[k] # {}
  /\ \A k \in CapsuleIds : evidence[k] # {} =>
       Names(k, evidence[k]) /\ \A m \in evidence[k] : l0Row[m] # 0
  /\ extracted \subseteq CapsuleIds

\* More messages than a batch holds were there when m was.
Beyond(m) == Cardinality({n \in Messages : l0Row[n] \in 1..l0Row[m]}) > BatchSize

FoldsUpTo(r)    == \A m \in Messages : l0Row[m] \in 1..r => Covered(m)
ExtractsUpTo(r) == \A k \in CapsuleIds : l1Row[k] \in 1..r => k \in extracted

\* What a worker in fold_session knows.
Folding(w) ==
  /\ cursor[w] \in 0..top
  /\ pc[w] = "fold.select" => FoldsUpTo(cursor[w])
  /\ pc[w] \in {"fold.capsule", "fold.describe", "fold.checkpoint", "fold.enqueue"} =>
       /\ batch[w] # {} /\ batch[w] \subseteq Messages /\ \A m \in batch[w] : l0Row[m] # 0
       /\ Cardinality(batch[w]) <= BatchSize
       /\ \A m \in Messages, n \in batch[w] :
            l0Row[m] \in 1..l0Row[n] => Covered(m) \/ m \in batch[w]
  /\ pc[w] \in {"fold.describe", "fold.checkpoint", "fold.enqueue"} =>
       \A m \in batch[w] : Covered(m)

\* What a worker in extract_from_session knows.
Extracting(w) ==
  /\ pc[w] = "extract.select" => ExtractsUpTo(cursor[w])
  /\ pc[w] \in {"extract.ask", "extract.find", "extract.put", "extract.checkpoint"} =>
       /\ capsules[w] \subseteq CapsuleIds
       /\ \A k \in capsules[w] : l1Row[k] # 0
       /\ \A k \in CapsuleIds : l1Row[k] \in 1..cursor[w] => k \in extracted \/ k \in capsules[w]
  /\ pc[w] \in {"extract.ask", "extract.find", "extract.put"} => capsules[w] # {}
  /\ pc[w] \in {"extract.find", "extract.put"} => found[w] # {}
  /\ pc[w] = "extract.checkpoint" => capsules[w] = {}

\* Where a worker is with the job of a message.
Working(w) ==
  pc[w] # "idle" =>
    /\ job[w] \in Jobs
    /\ \A m \in Messages : job[w] = <<"fold_l1", m>> =>
         /\ l0Row[m] # 0
         /\ pc[w] \in {"fold.read", "fold.select", "fold.capsule", "fold.describe",
                       "fold.checkpoint", "fold.enqueue", "complete"}
         /\ pc[w] = "fold.capsule" => m \in batch[w] \/ Covered(m) \/ Beyond(m)
         /\ pc[w] \in {"fold.describe", "fold.checkpoint", "fold.enqueue", "complete"} =>
              Covered(m) \/ Beyond(m)

Queue ==
  /\ status \in [Jobs -> JobStatus]
  /\ \A m \in Messages : status[<<"fold_l1", m>>] # "absent" => l0Row[m] # 0

\* The functions of the workers.
Hands ==
  /\ pc \in [Workers -> {"idle", "complete"} \cup FoldPC \cup ExtractPC \cup IndexPC]
  /\ DOMAIN job = Workers /\ DOMAIN cursor = Workers /\ DOMAIN batch = Workers
  /\ DOMAIN capsules = Workers
  /\ found \in [Workers -> SUBSET Facts] /\ created \in [Workers -> SUBSET AtomIds]

Inv ==
  /\ Rows /\ Queue /\ Hands
  /\ l1Cursor \in 0..top /\ l2Cursor \in 0..top
  /\ \A w \in Workers : Folding(w) /\ Extracting(w) /\ Working(w)
  /\ NothingSkipped /\ CompletedIsCovered /\ AtomsHaveEvidence /\ DOMAIN l2Row = AtomIds

\* Rows are added above the others and stay; what is in a capsule stays in one.
Grows ==
  /\ top' \in Nat /\ top <= top'
  /\ \A m \in Messages : l0Row'[m] = l0Row[m] \/ (l0Row[m] = 0 /\ l0Row'[m] > top)
  /\ \A k \in CapsuleIds : l1Row'[k] = l1Row[k] \/ (l1Row[k] = 0 /\ l1Row'[k] > top)
  /\ \A m \in Messages : Covered(m) => Covered(m)'
  /\ extracted \subseteq extracted'

\* Nothing changes in the hands of a worker.
Keeps(w) ==
  /\ pc'[w] = pc[w] /\ job'[w] = job[w] /\ cursor'[w] = cursor[w] /\ batch'[w] = batch[w]
  /\ capsules'[w] = capsules[w] /\ found'[w] = found[w]

\* Whether messages were too many for a batch is settled when the last of them is stored.
LEMMA BeyondStays ==
  ASSUME Rows, Rows', Grows, NEW m \in Messages, l0Row[m] # 0
  PROVE  Beyond(m)' <=> Beyond(m)
<1>1. l0Row[m] \in Nat /\ l0Row[m] <= top /\ l0Row'[m] = l0Row[m]
  BY DEF Rows, Grows
<1>2. \A n \in Messages : l0Row'[n] \in 1..l0Row'[m] <=> l0Row[n] \in 1..l0Row[m]
  BY <1>1 DEF Rows, Grows
<1>3. {n \in Messages : l0Row'[n] \in 1..l0Row'[m]} = {n \in Messages : l0Row[n] \in 1..l0Row[m]}
  BY <1>2
<1> QED
  BY <1>3 DEF Beyond

\* What was covered and extracted up to a row stays so.
LEMMA UpToStays ==
  ASSUME Rows, Rows', Grows, NEW r \in 0..top
  PROVE  (FoldsUpTo(r) => FoldsUpTo(r)') /\ (ExtractsUpTo(r) => ExtractsUpTo(r)')
<1>1. \A m \in Messages : l0Row'[m] \in 1..r => l0Row'[m] = l0Row[m]
  BY DEF Rows, Grows
<1>2. \A k \in CapsuleIds : l1Row'[k] \in 1..r => l1Row'[k] = l1Row[k]
  BY DEF Rows, Grows
<1> QED
  BY <1>1, <1>2 DEF FoldsUpTo, ExtractsUpTo, Grows

\* What an idle or busy worker knows stays true while the others work.
LEMMA OthersKeep ==
  ASSUME Inv, Rows', Grows, NEW w \in Workers, Keeps(w)
  PROVE  Folding(w)' /\ Extracting(w)' /\ Working(w)'
<1>1. Rows /\ Folding(w) /\ Extracting(w) /\ Working(w)
  BY DEF Inv
<1>2. cursor[w] \in 0..top /\ top \in Nat /\ top' \in Nat /\ top <= top'
  BY <1>1 DEF Folding, Rows, Grows
<1>3. Folding(w)'
  <2>1. cursor'[w] \in 0..top'
    BY <1>2 DEF Keeps
  <2>2. pc'[w] = "fold.select" => FoldsUpTo(cursor[w])'
    <3> DEFINE r == cursor[w]
    <3>1. r \in 0..top /\ (pc[w] = "fold.select" => FoldsUpTo(r))
      BY <1>1, <1>2 DEF Folding
    <3> QED
      BY <1>1, <3>1, UpToStays DEF Keeps, FoldsUpTo
  <2>3. pc[w] \in {"fold.capsule", "fold.describe", "fold.checkpoint", "fold.enqueue"} =>
          /\ batch[w] # {} /\ batch[w] \subseteq Messages /\ \A m \in batch[w] : l0Row'[m] # 0
          /\ Cardinality(batch[w]) <= BatchSize
          /\ \A m \in Messages, n \in batch[w] :
               l0Row'[m] \in 1..l0Row'[n] => Covered(m)' \/ m \in batch[w]
    BY <1>1 DEF Folding, Rows, Grows
  <2>4. pc[w] \in {"fold.describe", "fold.checkpoint", "fold.enqueue"} =>
          \A m \in batch[w] : Covered(m)'
    BY <1>1 DEF Folding, Grows
  <2> QED
    BY <2>1, <2>2, <2>3, <2>4 DEF Folding, Keeps
<1>4. Extracting(w)'
  <2>1. pc'[w] = "extract.select" => ExtractsUpTo(cursor[w])'
    BY <1>1, <1>2, UpToStays DEF Extracting, Keeps, ExtractsUpTo
  <2>2. \A k \in CapsuleIds : l1Row'[k] \in 1..cursor[w] => l1Row'[k] = l1Row[k]
    BY <1>1, <1>2 DEF Rows, Grows
  <2>3. \A k \in CapsuleIds : l1Row[k] # 0 => l1Row'[k] # 0
    BY <1>1 DEF Rows, Grows
  <2> QED
    BY <1>1, <2>1, <2>2, <2>3 DEF Extracting, Keeps, Grows
<1>5. Working(w)'
  <2>1. \A m \in Messages : l0Row[m] # 0 => l0Row'[m] # 0 /\ (Beyond(m) => Beyond(m)')
    BY <1>1, BeyondStays DEF Grows, Rows
  <2> QED
    BY <1>1, <2>1 DEF Working, Keeps, Grows
<1> QED
  BY <1>3, <1>4, <1>5

\* A step that writes neither messages nor capsules.
LEMMA SameRows ==
  ASSUME Inv, UNCHANGED <<l0Row, l1Row, evidence>>,
         top' = top \/ (top' \in Nat /\ top <= top'), extracted \subseteq extracted',
         extracted' \subseteq CapsuleIds
  PROVE  Rows' /\ Grows
<1>1. Rows /\ top' \in Nat /\ top <= top' /\ 0..top \subseteq 0..top'
  BY DEF Inv, Rows
<1>2. \A k, B : Names(k, B)' <=> Names(k, B)
  BY DEF Names, Rank
<1>3. Rows'
  <2>1. l0Row' \in [Messages -> 0..top'] /\ l1Row' \in [CapsuleIds -> 0..top']
    BY <1>1 DEF Rows
  <2> QED
    BY <1>1, <1>2, <2>1 DEF Rows
<1>4. Grows
  BY <1>1 DEF Rows, Grows, Covered
<1> QED
  BY <1>3, <1>4

\* A step of one worker keeps the invariant if what the worker knows then is true, the
\* checkpoints hide nothing and no job is completed too early.
LEMMA StepKeeps ==
  ASSUME Inv, Rows', Grows, NEW w \in Workers, \A v \in Workers \ {w} : Keeps(v),
         Hands', Folding(w)', Extracting(w)', Working(w)', Queue',
         l1Cursor' = l1Cursor \/ (l1Cursor' \in 0..top' /\ FoldsUpTo(l1Cursor)'),
         l2Cursor' = l2Cursor \/ (l2Cursor' \in 0..top' /\ ExtractsUpTo(l2Cursor)'),
         DOMAIN l2Row' = AtomIds, \A a \in atoms' : a \in atoms \/ l1Row[a[1]] # 0,
         \A m \in Messages : status'[<<"fold_l1", m>>] = "completed" =>
           status[<<"fold_l1", m>>] = "completed" \/ Covered(m)' \/ Beyond(m)'
  PROVE  Inv'
<1>1. Rows /\ Queue /\ l1Cursor \in 0..top /\ l2Cursor \in 0..top
  BY DEF Inv
<1>2. FoldsUpTo(l1Cursor) /\ ExtractsUpTo(l2Cursor)
  BY DEF Inv, NothingSkipped, FoldsUpTo, ExtractsUpTo
<1>3. l1Cursor' \in 0..top' /\ FoldsUpTo(l1Cursor)'
  <2>1. CASE l1Cursor' = l1Cursor
    BY <1>1, <1>2, <2>1, UpToStays DEF Grows, Rows, FoldsUpTo
  <2> QED
    BY <2>1
<1>4. l2Cursor' \in 0..top' /\ ExtractsUpTo(l2Cursor)'
  <2>1. CASE l2Cursor' = l2Cursor
    BY <1>1, <1>2, <2>1, UpToStays DEF Grows, Rows, ExtractsUpTo
  <2> QED
    BY <2>1
<1>5. NothingSkipped'
  BY <1>3, <1>4 DEF NothingSkipped, FoldsUpTo, ExtractsUpTo
<1>6. CompletedIsCovered'
  <2> SUFFICES ASSUME NEW m \in Messages, status'[<<"fold_l1", m>>] = "completed"
               PROVE  Covered(m)' \/ Beyond(m)'
    BY DEF CompletedIsCovered, Beyond
  <2>1. CASE status[<<"fold_l1", m>>] = "completed"
    <3>1. l0Row[m] # 0 /\ (Covered(m) \/ Beyond(m))
      BY <1>1, <2>1 DEF Queue, Inv, CompletedIsCovered, Beyond
    <3> QED
      BY <1>1, <3>1, BeyondStays DEF Grows
  <2> QED
    BY <2>1
<1>7. AtomsHaveEvidence'
  <2> SUFFICES ASSUME NEW a \in atoms' PROVE l1Row'[a[1]] # 0 /\ evidence'[a[1]] # {}
    BY DEF AtomsHaveEvidence
  <2>1. a[1] \in CapsuleIds
    BY DEF atoms, AtomIds
  <2>2. l1Row[a[1]] # 0
    BY DEF Inv, AtomsHaveEvidence
  <2>3. l1Row'[a[1]] # 0
    BY <1>1, <2>1, <2>2 DEF Rows, Grows
  <2> QED
    BY <2>1, <2>3 DEF Rows
<1>8. \A v \in Workers : Folding(v)' /\ Extracting(v)' /\ Working(v)'
  BY OthersKeep
<1> QED
  BY <1>3, <1>4, <1>5, <1>6, <1>7, <1>8 DEF Inv

\* No job of a message is completed by queueing a job.
LEMMA Enqueued ==
  ASSUME Queue, NEW j \in Jobs, Enqueue(j), l0Row' = l0Row,
         \A m \in Messages : j = <<"fold_l1", m>> => l0Row[m] # 0
  PROVE  /\ Queue'
         /\ \A m \in Messages : status'[<<"fold_l1", m>>] = "completed" =>
              status[<<"fold_l1", m>>] = "completed"
<1>1. \A m \in Messages : <<"fold_l1", m>> \in Jobs
  BY DEF Jobs, FoldJobs
<1>2. status' \in [Jobs -> JobStatus]
  BY DEF Queue, Enqueue, JobStatus
<1>3. \A i \in Jobs : status'[i] = status[i] \/ (i = j /\ status'[i] = "pending")
  BY DEF Queue, Enqueue
<1> QED
  BY <1>1, <1>2, <1>3 DEF Queue

\* A worker that leaves its job.
LEMMA Leaving ==
  ASSUME Inv, NEW w \in Workers, Leave(w), top' = top
  PROVE  /\ Hands' /\ Folding(w)' /\ Extracting(w)' /\ Working(w)'
         /\ \A v \in Workers \ {w} : Keeps(v)
<1>1. Hands /\ top \in Nat
  BY DEF Inv, Rows
<1>2. pc'[w] = "idle" /\ cursor'[w] = 0
  BY <1>1 DEF Leave, GoTo, Hands
<1>3. Hands'
  BY <1>1 DEF Leave, GoTo, Hands
<1>4. \A v \in Workers \ {w} : Keeps(v)
  BY <1>1 DEF Leave, GoTo, Hands, Keeps
<1>5. Folding(w)' /\ Extracting(w)' /\ Working(w)'
  BY <1>1, <1>2 DEF Folding, Extracting, Working
<1> QED
  BY <1>3, <1>4, <1>5

\* The jobs of messages are different from the others.
LEMMA Kinds ==
  /\ \A m \in Messages : <<"fold_l1", m>> \in FoldJobs
  /\ \A j \in FoldJobs : j \notin ExtractJobs \cup IndexJobs
  /\ \A j \in ExtractJobs : j \notin IndexJobs
  BY DEF FoldJobs, ExtractJobs, IndexJobs

-----------------------------------------------------------------------------
(* One lemma per action *)

\* Initially.
LEMMA InitInv == Init => Inv
<1> SUFFICES ASSUME Init PROVE Inv
  OBVIOUS
<1>1. Rows
  BY DEF Init, Rows
<1>2. Queue
  <2>1. \A m \in Messages : <<"fold_l1", m>> \in Jobs
    BY DEF Jobs, FoldJobs
  <2> QED
    BY <2>1 DEF Init, Queue, JobStatus
<1>3. Hands
  BY DEF Init, Hands
<1>4. \A w \in Workers : Folding(w) /\ Extracting(w) /\ Working(w)
  BY DEF Init, Folding, Extracting, Working
<1>5. NothingSkipped /\ AtomsHaveEvidence
  BY DEF Init, NothingSkipped, AtomsHaveEvidence, atoms
<1>6. CompletedIsCovered
  <2>1. \A m \in Messages : <<"fold_l1", m>> \in Jobs
    BY DEF Jobs, FoldJobs
  <2> QED
    BY <2>1 DEF Init, CompletedIsCovered
<1> QED
  BY <1>1, <1>2, <1>3, <1>4, <1>5, <1>6 DEF Init, Inv

\* A step of the host, which no worker sees: the invariant stays if the rows grow and no
\* job of a message is completed.
LEMMA HostKeeps ==
  ASSUME Inv, Rows', Grows, Queue', UNCHANGED <<pc, locals, l1Cursor, l2Cursor, l2Row>>,
         \A m \in Messages : status'[<<"fold_l1", m>>] = "completed" =>
           status[<<"fold_l1", m>>] = "completed"
  PROVE  Inv'
<1>1. Rows /\ Queue /\ Hands /\ l1Cursor \in 0..top /\ l2Cursor \in 0..top
  BY DEF Inv
<1>2. \A w \in Workers : Folding(w)' /\ Extracting(w)' /\ Working(w)'
  <2> TAKE w \in Workers
  <2>1. Keeps(w)
    BY DEF Keeps, locals
  <2> QED
    BY <2>1, OthersKeep
<1>3. Hands'
  BY <1>1 DEF Hands, locals
<1>4. l1Cursor' \in 0..top' /\ l2Cursor' \in 0..top'
  BY <1>1 DEF Rows, Grows
<1>5. FoldsUpTo(l1Cursor)' /\ ExtractsUpTo(l2Cursor)'
  <2>1. FoldsUpTo(l1Cursor) /\ ExtractsUpTo(l2Cursor)
    BY DEF Inv, NothingSkipped, FoldsUpTo, ExtractsUpTo
  <2> QED
    BY <1>1, <2>1, UpToStays DEF FoldsUpTo, ExtractsUpTo
<1>6. NothingSkipped'
  BY <1>5 DEF NothingSkipped, FoldsUpTo, ExtractsUpTo
<1>7. CompletedIsCovered'
  <2> SUFFICES ASSUME NEW m \in Messages, status'[<<"fold_l1", m>>] = "completed"
               PROVE  Covered(m)' \/ Beyond(m)'
    BY DEF CompletedIsCovered, Beyond
  <2>1. l0Row[m] # 0 /\ (Covered(m) \/ Beyond(m))
    BY <1>1 DEF Queue, Inv, CompletedIsCovered, Beyond
  <2> QED
    BY <1>1, <2>1, BeyondStays DEF Grows
<1>8. AtomsHaveEvidence'
  <2> SUFFICES ASSUME NEW a \in atoms PROVE l1Row'[a[1]] # 0 /\ evidence'[a[1]] # {}
    BY DEF AtomsHaveEvidence, atoms
  <2>1. a[1] \in CapsuleIds /\ l1Row[a[1]] # 0
    BY DEF Inv, atoms, AtomIds, AtomsHaveEvidence
  <2>2. l1Row'[a[1]] # 0
    BY <1>1, <2>1 DEF Rows, Grows
  <2> QED
    BY <2>1, <2>2 DEF Rows
<1>9. DOMAIN l2Row' = AtomIds
  BY DEF Inv
<1> QED
  BY <1>2, <1>3, <1>4, <1>6, <1>7, <1>8, <1>9 DEF Inv

\* A message is stored above all rows.
LEMMA CaptureKeeps ==
  ASSUME Inv, NEW m \in Messages, Capture(m)
  PROVE  Inv'
<1>1. Rows /\ Queue
  BY DEF Inv
<1>2. /\ top' = top + 1 /\ top \in Nat /\ l0Row[m] = 0 /\ l0Row' \in [Messages -> 0..top']
      /\ l0Row'[m] = top + 1 /\ \A n \in Messages \ {m} : l0Row'[n] = l0Row[n]
      /\ UNCHANGED <<l1Row, evidence, extracted, status, pc, locals, l1Cursor, l2Cursor, l2Row>>
  BY <1>1 DEF Capture, Rows, cursors, queue, history
<1>3. \A n \in Messages : l0Row[n] \in 0..top /\ l0Row'[n] \in 0..top'
  BY <1>1, <1>2 DEF Rows
<1>4. Grows
  BY <1>1, <1>2 DEF Grows, Rows, Covered
<1>5. Rows'
  <2>1. \A k \in CapsuleIds : evidence[k] # {} =>
          Names(k, evidence[k])' /\ \A n \in evidence[k] : l0Row'[n] # 0
    <3> SUFFICES ASSUME NEW k \in CapsuleIds, evidence[k] # {}
                 PROVE  Names(k, evidence[k])' /\ \A n \in evidence[k] : l0Row'[n] # 0
      OBVIOUS
    <3> DEFINE B == evidence[k]
    <3>1. B \subseteq Messages /\ Names(k, B) /\ \A n \in B : l0Row[n] # 0
      BY <1>1 DEF Rows
    <3>2. \A n \in B : n # m /\ l0Row'[n] = l0Row[n]
      BY <1>2, <3>1
    <3>3. \A n \in B : {y \in B : l0Row'[y] <= l0Row'[n]} = {y \in B : l0Row[y] <= l0Row[n]}
      BY <3>2
    <3>4. B' = B
      BY <1>2
    <3>5. Names(k, B)'
      BY <3>1, <3>3, <3>4 DEF Names, Rank
    <3> QED
      BY <1>2, <3>1, <3>2, <3>5
  <2>2. \A n, o \in Messages : l0Row'[n] = l0Row'[o] /\ l0Row'[n] # 0 => n = o
    BY <1>1, <1>2, <1>3 DEF Rows
  <2>3. l1Row' \in [CapsuleIds -> 0..top']
    BY <1>1, <1>2 DEF Rows
  <2> QED
    BY <1>1, <1>2, <2>1, <2>2, <2>3 DEF Rows
<1>6. Queue'
  BY <1>1, <1>2 DEF Queue
<1> QED
  BY <1>2, <1>4, <1>5, <1>6, HostKeeps

\* The job of a message is queued.
LEMMA QueueFoldKeeps ==
  ASSUME Inv, NEW m \in Messages, QueueFold(m)
  PROVE  Inv'
<1>1. Queue
  BY DEF Inv
<1>2. /\ l0Row[m] # 0 /\ Enqueue(<<"fold_l1", m>>)
      /\ UNCHANGED <<top, l0Row, l1Row, evidence, extracted, pc, locals, l1Cursor, l2Cursor, l2Row>>
  BY DEF QueueFold, tables, cursors, history
<1>3. Rows' /\ Grows
  <2>1. extracted' \subseteq CapsuleIds
    BY <1>2 DEF Inv, Rows
  <2> QED
    BY <1>2, <2>1, SameRows
<1>4. /\ Queue'
      /\ \A n \in Messages : status'[<<"fold_l1", n>>] = "completed" =>
           status[<<"fold_l1", n>>] = "completed"
  <2>1. <<"fold_l1", m>> \in Jobs /\ l0Row' = l0Row
    BY <1>2 DEF Jobs, FoldJobs
  <2>2. \A n \in Messages : <<"fold_l1", m>> = <<"fold_l1", n>> => l0Row[n] # 0
    BY <1>2
  <2> QED
    BY <1>1, <1>2, <2>1, <2>2, Enqueued
<1> QED
  BY <1>2, <1>3, <1>4, HostKeeps

\* A worker that goes on keeps its hands in their domains, and nobody else is touched.
LEMMA Moving ==
  ASSUME Inv, NEW w \in Workers, NEW l, GoTo(w, l),
         l \in {"idle", "complete"} \cup FoldPC \cup ExtractPC \cup IndexPC,
         UNCHANGED locals
  PROVE  /\ Hands' /\ pc'[w] = l
         /\ \A v \in Workers \ {w} : Keeps(v)
<1>1. Hands
  BY DEF Inv
<1>2. /\ pc' \in [Workers -> {"idle", "complete"} \cup FoldPC \cup ExtractPC \cup IndexPC]
      /\ pc'[w] = l /\ \A v \in Workers \ {w} : pc'[v] = pc[v]
  BY <1>1 DEF GoTo, Hands
<1> QED
  BY <1>1, <1>2 DEF Hands, Keeps, locals

\* A job is claimed.
LEMMA ClaimKeeps ==
  ASSUME Inv, NEW w \in Workers, NEW j \in Jobs, Claim(w, j)
  PROVE  Inv'
<1>1. Rows /\ Queue /\ Hands /\ Folding(w)
  BY DEF Inv
<1> DEFINE l == CASE j \in FoldJobs    -> "fold.read"
                  [] j \in ExtractJobs -> "extract.read"
                  [] j \in IndexJobs   -> "index.list"
<1>2. /\ status[j] \in {"pending", "running"} /\ status' = [status EXCEPT ![j] = "running"]
      /\ job' = [job EXCEPT ![w] = j] /\ GoTo(w, l)
      /\ UNCHANGED <<top, l0Row, l1Row, evidence, l2Row, l1Cursor, l2Cursor, cursor, batch,
                     capsules, found, created, extracted>>
  BY DEF Claim, tables, cursors, history
<1>3. l \in {"fold.read", "extract.read", "index.list"} /\ (j \in FoldJobs => l = "fold.read")
  BY Kinds DEF Jobs
<1> HIDE DEF l
<1>4. Rows' /\ Grows
  <2>1. extracted' \subseteq CapsuleIds
    BY <1>1, <1>2 DEF Rows
  <2> QED
    BY <1>2, <2>1, SameRows
<1>5. /\ pc' \in [Workers -> {"idle", "complete"} \cup FoldPC \cup ExtractPC \cup IndexPC]
      /\ pc'[w] = l /\ \A v \in Workers \ {w} : pc'[v] = pc[v]
  BY <1>1, <1>2, <1>3 DEF GoTo, Hands, FoldPC, ExtractPC, IndexPC
<1>6. DOMAIN job' = Workers /\ job'[w] = j /\ \A v \in Workers \ {w} : job'[v] = job[v]
  BY <1>1, <1>2 DEF Hands
<1>7. Hands' /\ \A v \in Workers \ {w} : Keeps(v)
  BY <1>1, <1>2, <1>5, <1>6 DEF Hands, Keeps
<1>8. Folding(w)' /\ Extracting(w)'
  BY <1>1, <1>2, <1>3, <1>5 DEF Folding, Extracting
<1>9. \A m \in Messages : j = <<"fold_l1", m>> => l0Row[m] # 0 /\ l = "fold.read"
  BY <1>1, <1>2, <1>3, Kinds DEF Queue
<1>10. Working(w)'
  BY <1>2, <1>3, <1>5, <1>6, <1>9 DEF Working
<1>11. \A m \in Messages : status'[<<"fold_l1", m>>] = "completed" =>
           status[<<"fold_l1", m>>] = "completed"
  BY <1>1, <1>2, Kinds DEF Queue, Jobs
<1>12. Queue'
  <2>1. status' \in [Jobs -> JobStatus]
    BY <1>1, <1>2 DEF Queue, JobStatus
  <2>2. \A i \in Jobs : status'[i] = status[i] \/ i = j
    BY <1>1, <1>2 DEF Queue
  <2>3. \A m \in Messages : status'[<<"fold_l1", m>>] # "absent" => l0Row[m] # 0
    BY <1>1, <1>9, <2>2, Kinds DEF Queue, Jobs
  <2> QED
    BY <1>2, <2>1, <2>3 DEF Queue
<1>13. DOMAIN l2Row' = AtomIds /\ \A a \in atoms' : a \in atoms
  BY <1>2 DEF Inv, atoms
<1>14. /\ l1Cursor' = l1Cursor \/ (l1Cursor' \in 0..top' /\ FoldsUpTo(l1Cursor)')
       /\ l2Cursor' = l2Cursor \/ (l2Cursor' \in 0..top' /\ ExtractsUpTo(l2Cursor)')
       /\ \A a \in atoms' : a \in atoms \/ l1Row[a[1]] # 0
  BY <1>2 DEF atoms
<1>15. \A m \in Messages : status'[<<"fold_l1", m>>] = "completed" =>
           status[<<"fold_l1", m>>] = "completed" \/ Covered(m)' \/ Beyond(m)'
  BY <1>11
<1> QED
  BY <1>4, <1>7, <1>8, <1>10, <1>12, <1>13, <1>14, <1>15, StepKeeps

\* A worker ends its job, for good or not: its status is set anew.
LEMMA LeaveKeeps ==
  ASSUME Inv, NEW w \in Workers, Leave(w),
         UNCHANGED <<top, l0Row, l1Row, evidence, l2Row, l1Cursor, l2Cursor, extracted>>,
         NEW s \in JobStatus, pc[w] # "idle",
         status' = [status EXCEPT ![job[w]] = s] \/ status' = status,
         s = "completed" => pc[w] = "complete"
  PROVE  Inv'
<1>1. Rows /\ Queue /\ Working(w)
  BY DEF Inv
<1>2. Rows' /\ Grows
  <2>1. extracted' \subseteq CapsuleIds
    BY <1>1 DEF Rows
  <2> QED
    BY <2>1, SameRows
<1>3. /\ Hands' /\ Folding(w)' /\ Extracting(w)' /\ Working(w)'
      /\ \A v \in Workers \ {w} : Keeps(v)
  BY Leaving
<1>4. /\ job[w] \in Jobs
      /\ \A m \in Messages : job[w] = <<"fold_l1", m>> =>
           l0Row[m] # 0 /\ (s = "completed" => Covered(m) \/ Beyond(m))
  BY <1>1 DEF Working
<1>5. /\ status' \in [Jobs -> JobStatus]
      /\ \A i \in Jobs : status'[i] = status[i] \/ (i = job[w] /\ status'[i] = s)
  BY <1>1, <1>4 DEF Queue
<1>6. Queue'
  BY <1>1, <1>4, <1>5, Kinds DEF Queue, Jobs
<1>7. ASSUME NEW m \in Messages, status'[<<"fold_l1", m>>] = "completed"
      PROVE  status[<<"fold_l1", m>>] = "completed" \/ Covered(m)' \/ Beyond(m)'
  <2>1. <<"fold_l1", m>> \in Jobs
    BY Kinds DEF Jobs
  <2>2. CASE <<"fold_l1", m>> = job[w] /\ s = "completed"
    BY <1>4, <2>2 DEF Covered, Beyond
  <2> QED
    BY <1>5, <1>7, <2>1, <2>2
<1>8. DOMAIN l2Row' = AtomIds /\ \A a \in atoms' : a \in atoms
  BY DEF Inv, atoms
<1>9. l1Cursor' = l1Cursor /\ l2Cursor' = l2Cursor
  OBVIOUS
<1> QED
  BY <1>2, <1>3, <1>6, <1>7, <1>8, <1>9, StepKeeps

\* A job is completed.
LEMMA CompleteKeeps ==
  ASSUME Inv, NEW w \in Workers, Complete(w)
  PROVE  Inv'
  BY LeaveKeeps DEF Complete, tables, cursors, history, JobStatus

\* A handler raises.
LEMMA RaiseKeeps ==
  ASSUME Inv, NEW w \in Workers, Raise(w)
  PROVE  Inv'
<1> DEFINE s == IF attempts[job[w]] >= MaxAttempts THEN "failed" ELSE "pending"
<1>1. s \in JobStatus /\ s # "completed" /\ pc[w] # "idle"
  BY DEF JobStatus, Raise, FoldPC, ExtractPC, IndexPC
<1>2. status' = [status EXCEPT ![job[w]] = s] /\ Leave(w)
      /\ UNCHANGED <<top, l0Row, l1Row, evidence, l2Row, l1Cursor, l2Cursor, extracted>>
  BY DEF Raise, tables, cursors
<1> HIDE DEF s
<1> QED
  BY <1>1, <1>2, LeaveKeeps

\* A worker is killed.
LEMMA CrashKeeps ==
  ASSUME Inv, NEW w \in Workers, Crash(w)
  PROVE  Inv'
<1>1. /\ "pending" \in JobStatus /\ "pending" # "completed" /\ pc[w] # "idle"
      /\ status' = status /\ Leave(w)
      /\ UNCHANGED <<top, l0Row, l1Row, evidence, l2Row, l1Cursor, l2Cursor, extracted>>
  BY DEF Crash, tables, cursors, queue, JobStatus
<1> QED
  BY <1>1, LeaveKeeps

\* The checkpoint is read: what lies before it is covered.
LEMMA ReadL1CursorKeeps ==
  ASSUME Inv, NEW w \in Workers, ReadL1Cursor(w)
  PROVE  Inv'
<1>1. Rows /\ Queue /\ Hands /\ Working(w) /\ l1Cursor \in 0..top /\ FoldsUpTo(l1Cursor)
  BY DEF Inv, NothingSkipped, FoldsUpTo
<1>2. /\ pc[w] = "fold.read" /\ GoTo(w, "fold.select")
      /\ cursor' = [cursor EXCEPT ![w] = l1Cursor]
      /\ UNCHANGED <<top, l0Row, l1Row, evidence, l2Row, l1Cursor, l2Cursor, extracted, status,
                     job, batch, capsules, found, created>>
  BY DEF ReadL1Cursor, tables, cursors, queue, history
<1>3. Rows' /\ Grows
  <2>1. extracted' \subseteq CapsuleIds
    BY <1>1, <1>2 DEF Rows
  <2> QED
    BY <1>2, <2>1, SameRows
<1>4. /\ Hands' /\ pc'[w] = "fold.select" /\ cursor'[w] = l1Cursor
      /\ \A v \in Workers \ {w} : Keeps(v)
  BY <1>1, <1>2 DEF GoTo, Hands, Keeps, FoldPC
<1>5. FoldsUpTo(l1Cursor)' /\ cursor'[w] = l1Cursor'
  BY <1>1, <1>2, <1>4 DEF FoldsUpTo, Covered
<1>6. Folding(w)' /\ Extracting(w)'
  BY <1>1, <1>2, <1>4, <1>5 DEF Folding, Extracting, FoldsUpTo
<1>7. Working(w)'
  BY <1>1, <1>2, <1>4 DEF Working
<1>8. Queue'
  BY <1>1, <1>2 DEF Queue
<1>9. /\ l1Cursor' = l1Cursor /\ l2Cursor' = l2Cursor /\ status' = status
      /\ DOMAIN l2Row' = AtomIds /\ \A a \in atoms' : a \in atoms
  BY <1>2 DEF Inv, atoms
<1> QED
  BY <1>3, <1>4, <1>6, <1>7, <1>8, <1>9, StepKeeps

\* A batch is read: it goes on without a gap from the checkpoint, and leaves out only
\* messages that come after as many as it holds.
LEMMA SelectMessagesKeeps ==
  ASSUME Inv, NEW w \in Workers, SelectMessages(w)
  PROVE  Inv'
<1> DEFINE A == After(Messages, l0Row, cursor[w])
           B == FirstN(A, l0Row, BatchSize)
<1>1. /\ Rows /\ Queue /\ Hands /\ Working(w) /\ cursor[w] \in 0..top
      /\ pc[w] = "fold.select" => FoldsUpTo(cursor[w])
  BY DEF Inv, Folding
<1>2. /\ pc[w] = "fold.select" /\ GoTo(w, IF B = {} THEN "complete" ELSE "fold.capsule")
      /\ batch' = [batch EXCEPT ![w] = B]
      /\ UNCHANGED <<top, l0Row, l1Row, evidence, l2Row, l1Cursor, l2Cursor, extracted, status,
                     job, cursor, capsules, found, created>>
  BY DEF SelectMessages, tables, cursors, queue, history
<1>3. /\ A \subseteq Messages /\ B \subseteq A
      /\ \A m \in Messages : m \in A <=> l0Row[m] > cursor[w]
      /\ \A m \in A : m \in B <=> Cardinality({n \in A : l0Row[n] <= l0Row[m]}) <= BatchSize
  BY DEF After, FirstN
<1> HIDE DEF A, B
<1>4. \A m \in Messages : /\ IsFiniteSet({n \in A : l0Row[n] <= l0Row[m]})
                          /\ Cardinality({n \in A : l0Row[n] <= l0Row[m]}) \in Nat
  <2> TAKE m \in Messages
  <2>1. {n \in A : l0Row[n] <= l0Row[m]} \in SUBSET Messages
    BY <1>3
  <2> QED
    BY <2>1, FoldPipelineAssumption, FS_Subset, FS_CardinalityType
<1>5. ASSUME NEW m \in Messages, l0Row[m] # 0, m \notin B
      PROVE  Covered(m) \/ Beyond(m)
  <2>1. l0Row[m] \in Nat /\ cursor[w] \in Nat /\ l0Row[m] # 0
    BY <1>1, <1>5 DEF Rows
  <2>2. CASE m \notin A
    <3>1. l0Row[m] \in 1..cursor[w]
      BY <1>3, <2>1, <2>2
    <3> QED
      BY <1>1, <1>2, <3>1 DEF FoldsUpTo
  <2>3. CASE m \in A
    <3> DEFINE C == {n \in A : l0Row[n] <= l0Row[m]}
               D == {n \in Messages : l0Row[n] \in 1..l0Row[m]}
    <3>1. C \subseteq D
      <4> SUFFICES ASSUME NEW n \in C PROVE n \in D
        OBVIOUS
      <4>1. n \in Messages /\ l0Row[n] > cursor[w] /\ l0Row[n] <= l0Row[m] /\ l0Row[n] \in Nat
        BY <1>1, <1>3 DEF Rows
      <4> QED
        BY <2>1, <4>1
    <3>2. IsFiniteSet(D) /\ Cardinality(D) \in Nat
      BY FoldPipelineAssumption, FS_Subset, FS_CardinalityType
    <3>3. Cardinality(C) <= Cardinality(D)
      BY <3>1, <3>2, FS_Subset
    <3>4. Cardinality(C) \in Nat /\ ~(Cardinality(C) <= BatchSize)
      BY <1>3, <1>4, <1>5, <2>3
    <3> QED
      BY <3>2, <3>3, <3>4, FoldPipelineAssumption DEF Beyond
  <2> QED
    BY <2>2, <2>3
<1>a. /\ IsFiniteSet(A) /\ \A x \in A : l0Row[x] \in Nat \ {0}
      /\ \A x, y \in A : l0Row[x] = l0Row[y] => x = y
  BY <1>1, <1>3, FoldPipelineAssumption, FS_Subset DEF Rows
<1>b. Cardinality(B) <= BatchSize
  BY <1>a, FoldPipelineAssumption, FirstNBound DEF B
<1>6. ASSUME NEW m \in Messages, NEW n \in B, l0Row[m] \in 1..l0Row[n]
      PROVE  Covered(m) \/ m \in B
  <2>1. CASE m \notin A
    <3>1. l0Row[m] \in 1..cursor[w]
      BY <1>1, <1>3, <1>6, <2>1 DEF Rows
    <3> QED
      BY <1>1, <1>2, <3>1 DEF FoldsUpTo
  <2>2. CASE m \in A
    <3>1. BatchSize \in Nat /\ l0Row[m] <= l0Row[n]
      BY <1>6, FoldPipelineAssumption
    <3> QED
      BY <1>a, <2>2, <3>1, FirstNNoGap DEF B
  <2> QED
    BY <2>1, <2>2
<1>7. \A m \in B : m \in Messages /\ l0Row[m] # 0
  BY <1>1, <1>3 DEF Rows
<1>8. Rows' /\ Grows
  <2>1. extracted' \subseteq CapsuleIds
    BY <1>1, <1>2 DEF Rows
  <2> QED
    BY <1>2, <2>1, SameRows
<1>9. /\ Hands' /\ pc'[w] = IF B = {} THEN "complete" ELSE "fold.capsule"
      /\ batch'[w] = B /\ cursor'[w] = cursor[w]
      /\ \A v \in Workers \ {w} : Keeps(v)
  BY <1>1, <1>2 DEF GoTo, Hands, Keeps, FoldPC
<1>10. Folding(w)' /\ Extracting(w)'
  <2>1. \A m \in Messages : Covered(m)' <=> Covered(m)
    BY <1>2 DEF Covered
  <2>2. pc'[w] = "fold.capsule" => B # {}
    BY <1>9
  <2>3. pc'[w] \in {"complete", "fold.capsule"}
    BY <1>9
  <2>4. Folding(w)'
    BY <1>1, <1>2, <1>6, <1>7, <1>9, <1>b, <2>1, <2>2, <2>3 DEF Folding
  <2> QED
    BY <2>3, <2>4 DEF Extracting
<1>11. Working(w)'
  <2>1. \A m \in Messages : (Covered(m)' <=> Covered(m)) /\ (Beyond(m)' <=> Beyond(m))
    BY <1>2 DEF Covered, Beyond
  <2>2. \A m \in Messages : l0Row[m] # 0 /\ m \notin B => Covered(m) \/ Beyond(m)
    BY <1>5
  <2>3. pc'[w] = "complete" => B = {}
    BY <1>9
  <2>4. pc'[w] \in {"complete", "fold.capsule"}
    BY <1>9
  <2> QED
    BY <1>1, <1>2, <1>9, <2>1, <2>2, <2>3, <2>4 DEF Working
<1>12. Queue'
  BY <1>1, <1>2 DEF Queue
<1>13. /\ l1Cursor' = l1Cursor /\ l2Cursor' = l2Cursor /\ status' = status
       /\ DOMAIN l2Row' = AtomIds /\ \A a \in atoms' : a \in atoms
  BY <1>2 DEF Inv, atoms
<1> QED
  BY <1>8, <1>9, <1>10, <1>11, <1>12, <1>13, StepKeeps

\* A worker goes on without touching the messages, the capsules or a checkpoint.
LEMMA QuietKeeps ==
  ASSUME Inv, NEW w \in Workers, \A v \in Workers \ {w} : Keeps(v),
         UNCHANGED <<l0Row, l1Row, evidence, l1Cursor, l2Cursor>>,
         top' = top \/ (top' \in Nat /\ top <= top'),
         extracted \subseteq extracted', extracted' \subseteq CapsuleIds,
         Hands', Folding(w)', Extracting(w)', Working(w)', Queue',
         DOMAIN l2Row' = AtomIds, \A a \in atoms' : a \in atoms \/ l1Row[a[1]] # 0,
         \A m \in Messages : status'[<<"fold_l1", m>>] = "completed" =>
           status[<<"fold_l1", m>>] = "completed"
  PROVE  Inv'
<1>1. Rows' /\ Grows
  BY SameRows
<1>2. l1Cursor' = l1Cursor /\ l2Cursor' = l2Cursor
  OBVIOUS
<1>3. \A m \in Messages : status'[<<"fold_l1", m>>] = "completed" =>
         status[<<"fold_l1", m>>] = "completed" \/ Covered(m)' \/ Beyond(m)'
  OBVIOUS
<1> QED
  BY <1>1, <1>2, <1>3, StepKeeps

\* The batch of a worker is one, and has a name that is its own.
LEMMA BatchInHand ==
  ASSUME Inv, NEW w \in Workers,
         pc[w] \in {"fold.capsule", "fold.describe", "fold.checkpoint", "fold.enqueue"}
  PROVE  /\ Batch(batch[w]) /\ batch[w] # {}
         /\ CapsuleId(batch[w]) \in CapsuleIds /\ Names(CapsuleId(batch[w]), batch[w])
<1>1. Rows /\ Folding(w)
  BY DEF Inv
<1>2. Batch(batch[w]) /\ batch[w] # {} /\ Cardinality(batch[w]) <= BatchSize
  BY <1>1 DEF Rows, Folding, Batch
<1> QED
  BY <1>2, CapsuleNames

\* A capsule is stored, or stored again: then it is that of the same contents.
LEMMA PutCapsuleKeeps ==
  ASSUME Inv, NEW w \in Workers, PutCapsule(w)
  PROVE  Inv'
<1> DEFINE B == batch[w]
           k == CapsuleId(B)
<1>1. Rows /\ Queue /\ Hands /\ Working(w) /\ Folding(w)
  BY DEF Inv
<1>2. /\ pc[w] = "fold.capsule" /\ GoTo(w, "fold.describe")
      /\ IF l1Row[k] = 0 THEN top' = top + 1 /\ l1Row' = [l1Row EXCEPT ![k] = top + 1]
                         ELSE top' = top /\ l1Row' = l1Row
      /\ evidence' = [evidence EXCEPT ![k] = B]
      /\ UNCHANGED <<l0Row, l2Row, l1Cursor, l2Cursor, extracted, status, locals>>
  BY DEF PutCapsule, PutRow, cursors, queue
<1>3. Batch(B) /\ B # {} /\ k \in CapsuleIds /\ Names(k, B)
  BY <1>2, BatchInHand
<1>4. /\ B \subseteq Messages /\ \A m \in B : l0Row[m] # 0
      /\ Cardinality(B) <= BatchSize
      /\ \A m \in Messages, n \in B : l0Row[m] \in 1..l0Row[n] => Covered(m) \/ m \in B
      /\ cursor[w] \in 0..top
  BY <1>1, <1>2 DEF Folding
<1> HIDE DEF k
<1>5. /\ top' \in Nat /\ top <= top' /\ l1Row' \in [CapsuleIds -> 0..top']
      /\ \A c \in CapsuleIds : l1Row'[c] = l1Row[c] \/ (l1Row[c] = 0 /\ l1Row'[c] > top)
      /\ \A c, d \in CapsuleIds : l1Row'[c] = l1Row'[d] /\ l1Row'[c] # 0 => c = d
      /\ l1Row'[k] # 0 /\ \A c \in CapsuleIds \ {k} : l1Row'[c] = l1Row[c]
  <2>1. /\ top \in Nat /\ l1Row \in [CapsuleIds -> 0..top]
        /\ \A c, d \in CapsuleIds : l1Row[c] = l1Row[d] /\ l1Row[c] # 0 => c = d
    BY <1>1 DEF Rows
  <2>2. CASE l1Row[k] = 0
    <3>1. top' = top + 1 /\ l1Row' = [l1Row EXCEPT ![k] = top + 1]
      BY <1>2, <2>2
    <3>2. l1Row'[k] = top + 1 /\ \A c \in CapsuleIds \ {k} : l1Row'[c] = l1Row[c] /\ l1Row[c] <= top
      BY <1>3, <2>1, <3>1
    <3>3. l1Row' \in [CapsuleIds -> 0..top']
      <4>1. \A c \in CapsuleIds : l1Row[c] \in 0..(top + 1)
        BY <2>1
      <4>2. top + 1 \in 0..(top + 1) /\ k \in CapsuleIds
        BY <1>3, <2>1
      <4>3. [l1Row EXCEPT ![k] = top + 1] \in [CapsuleIds -> 0..(top + 1)]
        BY <2>1, <4>1, <4>2
      <4> QED
        BY <3>1, <4>3
    <3> QED
      BY <2>1, <2>2, <3>1, <3>2, <3>3
  <2>3. CASE l1Row[k] # 0
    BY <1>2, <2>1, <2>3
  <2> QED
    BY <2>2, <2>3
<1>6. /\ evidence' \in [CapsuleIds -> SUBSET Messages] /\ evidence'[k] = B
      /\ \A c \in CapsuleIds \ {k} : evidence'[c] = evidence[c]
  BY <1>1, <1>2, <1>3, <1>4 DEF Rows
<1>7. \A m \in Messages : Covered(m) => Covered(m)'
  <2> SUFFICES ASSUME NEW m \in Messages, NEW c \in CapsuleIds, NEW n \in evidence[c],
                      Content[n] = Content[m]
               PROVE  \E d \in CapsuleIds : \E x \in evidence'[d] : Content[x] = Content[m]
    BY DEF Covered
  <2>1. CASE c # k
    BY <1>6, <2>1
  <2>2. CASE c = k
    <3> DEFINE A == evidence[k]
    <3>1. A \subseteq Messages /\ Names(k, A) /\ \A y \in A : l0Row[y] # 0
      BY <1>1, <1>3, <2>2 DEF Rows
    <3>2. Batch(A)
      BY <1>1, <3>1 DEF Rows, Batch
    <3>3. n \in A
      BY <2>2
    <3>4. \E x \in B : Content[x] = Content[n]
      BY <1>3, <3>1, <3>2, <3>3, OneNameOneContent
    <3> QED
      BY <1>3, <1>6, <3>4
  <2> QED
    BY <2>1, <2>2
<1>8. Grows
  BY <1>2, <1>5, <1>7 DEF Grows
<1>9. Rows'
  <2>1. ASSUME NEW c \in CapsuleIds, evidence'[c] # {}
        PROVE  Names(c, evidence[c])' /\ \A n \in evidence'[c] : l0Row[n] # 0
    <3>1. Names(c, evidence'[c]) /\ \A n \in evidence'[c] : l0Row[n] # 0
      BY <1>1, <1>3, <1>4, <1>6, <2>1 DEF Rows
    <3> QED
      BY <1>2, <3>1 DEF Names, Rank
  <2>2. \A c \in CapsuleIds : l1Row'[c] # 0 => evidence'[c] # {}
    BY <1>1, <1>3, <1>5, <1>6 DEF Rows
  <2>3. l0Row' \in [Messages -> 0..top']
    BY <1>1, <1>2, <1>5 DEF Rows
  <2> QED
    BY <1>1, <1>2, <1>5, <1>6, <2>1, <2>2, <2>3 DEF Rows
<1>10. Hands' /\ pc'[w] = "fold.describe" /\ \A v \in Workers \ {w} : Keeps(v)
  BY <1>2, Moving DEF FoldPC
<1>11. batch'[w] = B /\ cursor'[w] = cursor[w] /\ job'[w] = job[w] /\ \A m \in B : Covered(m)'
  BY <1>2, <1>3, <1>6 DEF locals, Covered
<1>12. Folding(w)'
  <2>1. cursor'[w] \in 0..top'
    BY <1>1, <1>4, <1>5, <1>11 DEF Rows
  <2>2. \A m \in B : l0Row'[m] # 0
    BY <1>2, <1>4
  <2>3. \A m \in Messages, n \in B : l0Row'[m] \in 1..l0Row'[n] => Covered(m)' \/ m \in B
    BY <1>2, <1>4, <1>7
  <2> HIDE DEF B
  <2> QED
    BY <1>3, <1>4, <1>10, <1>11, <2>1, <2>2, <2>3 DEF Folding
<1>13. Extracting(w)'
  BY <1>10 DEF Extracting
<1>14. Working(w)'
  <2>1. \A m \in Messages : Beyond(m)' <=> Beyond(m)
    BY <1>2 DEF Beyond
  <2>2. \A m \in Messages : m \in B \/ Covered(m) => Covered(m)'
    BY <1>7, <1>11
  <2> HIDE DEF B
  <2>3. job[w] \in Jobs /\ \A m \in Messages : job[w] = <<"fold_l1", m>> =>
          l0Row[m] # 0 /\ (m \in B \/ Covered(m) \/ Beyond(m))
    BY <1>1, <1>2 DEF Working, B
  <2> QED
    BY <1>2, <1>10, <1>11, <2>1, <2>2, <2>3 DEF Working
<1>15. Queue' /\ status' = status
  BY <1>1, <1>2 DEF Queue
<1>16. /\ l1Cursor' = l1Cursor /\ l2Cursor' = l2Cursor
       /\ DOMAIN l2Row' = AtomIds /\ \A a \in atoms' : a \in atoms
  BY <1>2 DEF Inv, atoms
<1> QED
  BY <1>8, <1>9, <1>10, <1>12, <1>13, <1>14, <1>15, <1>16, StepKeeps

\* The capsule is described.
LEMMA DescribeCapsuleKeeps ==
  ASSUME Inv, NEW w \in Workers, DescribeCapsule(w)
  PROVE  Inv'
<1>1. Rows /\ Queue /\ Working(w) /\ Folding(w)
  BY DEF Inv
<1>2. /\ pc[w] = "fold.describe" /\ GoTo(w, "fold.checkpoint")
      /\ UNCHANGED <<top, l0Row, l1Row, evidence, l2Row, l1Cursor, l2Cursor, extracted, status, locals>>
  BY DEF DescribeCapsule, cursors, queue, history
<1>3. Hands' /\ pc'[w] = "fold.checkpoint" /\ \A v \in Workers \ {w} : Keeps(v)
  BY <1>2, Moving DEF FoldPC
<1>4. \A m \in Messages : (Covered(m)' <=> Covered(m)) /\ (Beyond(m)' <=> Beyond(m))
  BY <1>2 DEF Covered, Beyond
<1>5. batch'[w] = batch[w] /\ cursor'[w] = cursor[w] /\ job'[w] = job[w]
  BY <1>2 DEF locals
<1>6. batch[w] \subseteq Messages
  BY <1>1, <1>2 DEF Folding
<1>7. Folding(w)' /\ Extracting(w)'
  BY <1>1, <1>2, <1>3, <1>4, <1>5, <1>6 DEF Folding, Extracting
<1>8. Working(w)'
  BY <1>1, <1>2, <1>3, <1>4, <1>5 DEF Working
<1>9. Queue' /\ status' = status /\ extracted' \subseteq CapsuleIds
  BY <1>1, <1>2 DEF Queue, Rows
<1>10. DOMAIN l2Row' = AtomIds /\ \A a \in atoms' : a \in atoms
  BY <1>2 DEF Inv, atoms
<1> QED
  BY <1>2, <1>3, <1>7, <1>8, <1>9, <1>10, QuietKeeps

\* The checkpoint is set, back or forth: what lies before it is covered.
LEMMA PutL1CursorKeeps ==
  ASSUME Inv, NEW w \in Workers, PutL1Cursor(w)
  PROVE  Inv'
<1> DEFINE r == LastRow(batch[w], l0Row)
<1>1. Rows /\ Queue /\ Working(w) /\ Folding(w)
  BY DEF Inv
<1>2. /\ pc[w] = "fold.checkpoint" /\ GoTo(w, "fold.enqueue") /\ l1Cursor' = r
      /\ UNCHANGED <<top, l0Row, l1Row, evidence, l2Row, l2Cursor, extracted, status, locals>>
  BY DEF PutL1Cursor, tables, queue, history
<1>3. Hands' /\ pc'[w] = "fold.enqueue" /\ \A v \in Workers \ {w} : Keeps(v)
  BY <1>2, Moving DEF FoldPC
<1>4. \A m \in Messages : (Covered(m)' <=> Covered(m)) /\ (Beyond(m)' <=> Beyond(m))
  BY <1>2 DEF Covered, Beyond
<1>5. batch'[w] = batch[w] /\ cursor'[w] = cursor[w] /\ job'[w] = job[w]
  BY <1>2 DEF locals
<1>6. /\ batch[w] # {} /\ batch[w] \subseteq Messages /\ \A m \in batch[w] : Covered(m)
      /\ \A m \in Messages, n \in batch[w] :
            l0Row[m] \in 1..l0Row[n] => Covered(m) \/ m \in batch[w]
  BY <1>1, <1>2 DEF Folding
<1>7. Folding(w)' /\ Extracting(w)'
  BY <1>1, <1>2, <1>3, <1>4, <1>5, <1>6 DEF Folding, Extracting
<1>8. Working(w)'
  BY <1>1, <1>2, <1>3, <1>4, <1>5 DEF Working
<1>9. r \in 0..top /\ FoldsUpTo(r)
  <2>1. top \in Nat /\ \A m \in Messages : l0Row[m] \in 0..top
    BY <1>1 DEF Rows
  <2>2. PICK n \in batch[w] : r = l0Row[n]
    BY <1>6, <2>1, LastRows
  <2> QED
    BY <1>6, <2>1, <2>2 DEF FoldsUpTo
<1> HIDE DEF r
<1>10. l1Cursor' \in 0..top' /\ FoldsUpTo(l1Cursor)'
  BY <1>2, <1>4, <1>9 DEF FoldsUpTo
<1>11. Rows' /\ Grows
  <2>1. extracted' \subseteq CapsuleIds
    BY <1>1, <1>2 DEF Rows
  <2> QED
    BY <1>2, <2>1, SameRows
<1>12. Queue' /\ status' = status /\ l2Cursor' = l2Cursor
  BY <1>1, <1>2 DEF Queue
<1>13. DOMAIN l2Row' = AtomIds /\ \A a \in atoms' : a \in atoms
  BY <1>2 DEF Inv, atoms
<1> QED
  BY <1>3, <1>7, <1>8, <1>10, <1>11, <1>12, <1>13, StepKeeps

\* The extraction of the capsule is queued.
LEMMA QueueExtractKeeps ==
  ASSUME Inv, NEW w \in Workers, QueueExtract(w)
  PROVE  Inv'
<1> DEFINE j == <<"extract_l2", CapsuleId(batch[w])>>
<1>1. Rows /\ Queue /\ Working(w) /\ Folding(w)
  BY DEF Inv
<1>2. /\ pc[w] = "fold.enqueue" /\ GoTo(w, "complete") /\ Enqueue(j)
      /\ UNCHANGED <<top, l0Row, l1Row, evidence, l2Row, l1Cursor, l2Cursor, extracted, locals>>
  BY DEF QueueExtract, tables, cursors, history
<1>3. Hands' /\ pc'[w] = "complete" /\ \A v \in Workers \ {w} : Keeps(v)
  BY <1>2, Moving
<1>4. \A m \in Messages : (Covered(m)' <=> Covered(m)) /\ (Beyond(m)' <=> Beyond(m))
  BY <1>2 DEF Covered, Beyond
<1>5. cursor'[w] = cursor[w] /\ job'[w] = job[w]
  BY <1>2 DEF locals
<1>6. Folding(w)' /\ Extracting(w)'
  BY <1>1, <1>2, <1>3, <1>5 DEF Folding, Extracting
<1>7. Working(w)'
  BY <1>1, <1>2, <1>3, <1>4, <1>5 DEF Working
<1>8. j \in ExtractJobs
  BY <1>2, BatchInHand DEF ExtractJobs
<1>9. /\ Queue' /\ \A m \in Messages : status'[<<"fold_l1", m>>] = "completed" =>
                     status[<<"fold_l1", m>>] = "completed"
  <2> HIDE DEF j
  <2>1. j \in Jobs /\ \A m \in Messages : j # <<"fold_l1", m>>
    BY <1>8, Kinds DEF Jobs
  <2> QED
    BY <1>1, <1>2, <2>1, Enqueued
<1>10. DOMAIN l2Row' = AtomIds /\ (\A a \in atoms' : a \in atoms) /\ extracted' \subseteq CapsuleIds
  BY <1>1, <1>2 DEF Inv, atoms, Rows
<1> QED
  BY <1>2, <1>3, <1>6, <1>7, <1>9, <1>10, QuietKeeps

\* A worker at extract_l2 or index_embeddings has no job of a message.
LEMMA OtherWork ==
  ASSUME Inv, NEW w \in Workers, pc[w] \in ExtractPC \cup IndexPC, job'[w] = job[w],
         pc'[w] # "idle"
  PROVE  Working(w)'
<1>1. job[w] \in Jobs /\ \A m \in Messages : job[w] # <<"fold_l1", m>>
  BY DEF Inv, Working, ExtractPC, IndexPC
<1> QED
  BY <1>1 DEF Working

\* The second checkpoint is read.
LEMMA ReadL2CursorKeeps ==
  ASSUME Inv, NEW w \in Workers, ReadL2Cursor(w)
  PROVE  Inv'
<1>1. Rows /\ Queue /\ Hands /\ l2Cursor \in 0..top /\ ExtractsUpTo(l2Cursor)
  BY DEF Inv, NothingSkipped, ExtractsUpTo
<1>2. /\ pc[w] = "extract.read" /\ GoTo(w, "extract.select")
      /\ cursor' = [cursor EXCEPT ![w] = l2Cursor]
      /\ UNCHANGED <<top, l0Row, l1Row, evidence, l2Row, l1Cursor, l2Cursor, extracted, status,
                     job, batch, capsules, found, created>>
  BY DEF ReadL2Cursor, tables, cursors, queue, history
<1>3. /\ Hands' /\ pc'[w] = "extract.select" /\ cursor'[w] = l2Cursor /\ job'[w] = job[w]
      /\ \A v \in Workers \ {w} : Keeps(v)
  BY <1>1, <1>2 DEF GoTo, Hands, Keeps, ExtractPC
<1>4. Folding(w)' /\ Extracting(w)'
  BY <1>1, <1>2, <1>3 DEF Folding, Extracting, ExtractsUpTo
<1>5. Working(w)'
  BY <1>2, <1>3, OtherWork DEF ExtractPC
<1>6. Queue' /\ status' = status /\ extracted' \subseteq CapsuleIds
  BY <1>1, <1>2 DEF Queue, Rows
<1>7. DOMAIN l2Row' = AtomIds /\ \A a \in atoms' : a \in atoms
  BY <1>2 DEF Inv, atoms
<1> QED
  BY <1>2, <1>3, <1>4, <1>5, <1>6, <1>7, QuietKeeps

\* The capsules after the checkpoint are read.
LEMMA SelectCapsulesKeeps ==
  ASSUME Inv, NEW w \in Workers, SelectCapsules(w)
  PROVE  Inv'
<1> DEFINE c == cursor[w]
           A == After(CapsuleIds, l1Row, c)
           B == FirstN(A, l1Row, ExtractLimit)
           r == LastRow(B, l1Row)
           d == IF B = {} THEN c ELSE r
           l == IF B = {} THEN "complete" ELSE "extract.ask"
<1>1. /\ Rows /\ Queue /\ Hands /\ c \in 0..top /\ top \in Nat
      /\ \A k \in CapsuleIds : l1Row[k] \in 0..top
      /\ pc[w] = "extract.select" => ExtractsUpTo(c)
  BY DEF Inv, Folding, Extracting, Rows
<1>2. /\ pc[w] = "extract.select" /\ GoTo(w, l)
      /\ capsules' = [capsules EXCEPT ![w] = B] /\ cursor' = [cursor EXCEPT ![w] = d]
      /\ UNCHANGED <<top, l0Row, l1Row, evidence, l2Row, l1Cursor, l2Cursor, extracted, status,
                     job, batch, found, created>>
  BY <1>1 DEF SelectCapsules, tables, cursors, queue, history, Hands
<1>3. A \subseteq CapsuleIds /\ B \subseteq A /\ \A k \in CapsuleIds : k \in A <=> l1Row[k] > c
  BY DEF After, FirstN
<1> HIDE DEF A, B
<1>4. d \in 0..top
  <2>1. CASE B # {}
    <3>1. \A k \in B : l1Row[k] \in 0..top
      BY <1>1, <1>3
    <3>2. PICK k \in B : r = l1Row[k]
      BY <1>1, <2>1, <3>1, LastRows
    <3> QED
      BY <1>1, <1>3, <2>1, <3>2
  <2> QED
    BY <1>1, <2>1
<1>5. l \in {"complete", "extract.ask"} /\ (l = "extract.ask" => B # {})
  OBVIOUS
<1> HIDE DEF d, l, c
<1>6. /\ Hands' /\ pc'[w] = l /\ cursor'[w] = d /\ capsules'[w] = B /\ job'[w] = job[w]
      /\ \A v \in Workers \ {w} : Keeps(v)
  BY <1>1, <1>2, <1>5 DEF GoTo, Hands, Keeps, ExtractPC
<1>7. ASSUME NEW k \in CapsuleIds, l1Row[k] \in 1..d
      PROVE  k \in extracted \/ k \in B
  <2>1. CASE k \notin A
    <3>1. l1Row[k] \in 1..c
      BY <1>1, <1>3, <1>7, <2>1
    <3> QED
      BY <1>1, <1>2, <3>1 DEF ExtractsUpTo
  <2>2. CASE k \in A /\ B # {}
    <3>1. PICK n \in B : d = l1Row[n]
      <4>1. \A x \in B : l1Row[x] \in 0..top
        BY <1>1, <1>3
      <4> QED
        BY <1>1, <2>2, <4>1, LastRows DEF d
    <3>2. /\ ExtractLimit \in Nat /\ l1Row[k] <= l1Row[n]
          /\ \A x \in A : l1Row[x] \in Nat \ {0}
          /\ \A x, y \in A : l1Row[x] = l1Row[y] => x = y
      BY <1>1, <1>3, <1>7, <3>1, FoldPipelineAssumption DEF Rows
    <3> QED
      BY <2>2, <3>2, FirstNNoGap DEF B
  <2>3. CASE k \in A /\ B = {}
    BY <1>1, <1>3, <1>7, <2>3 DEF d
  <2> QED
    BY <2>1, <2>2, <2>3
<1>8. \A k \in B : l1Row[k] # 0
  BY <1>1, <1>3
<1>9. Folding(w)' /\ Extracting(w)'
  <2>1. Folding(w)'
    BY <1>2, <1>4, <1>5, <1>6 DEF Folding
  <2>2. \A k \in CapsuleIds : l1Row'[k] \in 1..cursor'[w] => k \in extracted' \/ k \in B
    BY <1>2, <1>6, <1>7
  <2>3. Extracting(w)'
    BY <1>2, <1>3, <1>5, <1>6, <1>8, <2>2 DEF Extracting
  <2> QED
    BY <2>1, <2>3
<1>10. Working(w)'
  BY <1>2, <1>5, <1>6, OtherWork DEF ExtractPC
<1>11. Queue' /\ status' = status /\ extracted' \subseteq CapsuleIds
  BY <1>1, <1>2 DEF Queue, Rows
<1>12. DOMAIN l2Row' = AtomIds /\ \A a \in atoms' : a \in atoms
  BY <1>2 DEF Inv, atoms
<1> QED
  BY <1>2, <1>6, <1>9, <1>10, <1>11, <1>12, QuietKeeps

\* A worker that extracts has a capsule.
LEMMA CapsuleInHand ==
  ASSUME Inv, NEW w \in Workers, pc[w] \in {"extract.ask", "extract.find", "extract.put"}
  PROVE  Capsule(w) \in capsules[w] /\ capsules[w] \subseteq CapsuleIds /\ l1Row[Capsule(w)] # 0
<1>1. /\ capsules[w] # {} /\ capsules[w] \subseteq CapsuleIds
      /\ \A k \in capsules[w] : l1Row[k] # 0
  BY DEF Inv, Extracting
<1>2. top \in Nat /\ \A k \in capsules[w] : l1Row[k] \in 0..top
  BY <1>1 DEF Inv, Rows
<1>3. \E k \in capsules[w] : \A c \in capsules[w] : l1Row[k] <= l1Row[c]
  BY <1>1, <1>2, Extremes
<1>4. Capsule(w) \in capsules[w]
  BY <1>3, Zenon DEF Capsule
<1> QED
  BY <1>1, <1>4

\* A worker goes on with the facts F of its capsule, or is through with the capsule.
LEMMA Advancing ==
  ASSUME Inv, NEW w \in Workers, pc[w] \in {"extract.ask", "extract.find", "extract.put"},
         NEW F \in SUBSET Facts, Advance(w, F),
         top' = top \/ (top' \in Nat /\ top <= top'),
         created' \in [Workers -> SUBSET AtomIds], DOMAIN l2Row' = AtomIds,
         \A a \in atoms' : a \in atoms \/ l1Row[a[1]] # 0
  PROVE  Inv'
<1> DEFINE k == Capsule(w)
           l == IF F # {} THEN "extract.find"
                ELSE IF capsules[w] = {k} THEN "extract.checkpoint" ELSE "extract.ask"
           C == IF F # {} THEN capsules[w] ELSE capsules[w] \ {k}
           X == IF F # {} THEN extracted ELSE extracted \cup {k}
<1>1. Rows /\ Queue /\ Hands /\ cursor[w] \in 0..top /\ cursor[w] \in 0..top'
  BY DEF Inv, Folding, Rows
<1>2. /\ capsules[w] \subseteq CapsuleIds /\ \A c \in capsules[w] : l1Row[c] # 0
      /\ \A c \in CapsuleIds : l1Row[c] \in 1..cursor[w] => c \in extracted \/ c \in capsules[w]
  BY DEF Inv, Extracting
<1>3. k \in capsules[w] /\ k \in CapsuleIds
  BY CapsuleInHand
<1>4. /\ found' = [found EXCEPT ![w] = F]
      /\ UNCHANGED <<l0Row, l1Row, evidence, l1Cursor, l2Cursor, status, job, cursor, batch>>
  BY DEF Advance, cursors, queue
<1>5. /\ GoTo(w, l) /\ extracted' = X
      /\ DOMAIN capsules' = Workers /\ capsules'[w] = C
      /\ \A v \in Workers \ {w} : capsules'[v] = capsules[v]
  <2>1. CASE F # {}
    BY <1>1, <2>1 DEF Advance, Hands
  <2>2. CASE F = {}
    <3>1. GoTo(w, l) /\ extracted' = X /\ capsules' = [capsules EXCEPT ![w] = capsules[w] \ {k}]
      BY <2>2 DEF Advance
    <3> QED
      BY <1>1, <2>2, <3>1 DEF Hands
  <2> QED
    BY <2>1, <2>2
<1>6. /\ l \in {"extract.find", "extract.checkpoint", "extract.ask"}
      /\ l = "extract.find" => F # {} /\ C # {}
      /\ l = "extract.ask" => C # {}
      /\ l = "extract.checkpoint" => C = {}
      /\ C \subseteq capsules[w] /\ extracted \subseteq X /\ X \subseteq CapsuleIds
      /\ \A c \in capsules[w] : c \in X \/ c \in C
  <2> HIDE DEF k
  <2> QED
    BY <1>1, <1>3 DEF Rows
<1> HIDE DEF k, l, C, X
<1>7. /\ pc' \in [Workers -> {"idle", "complete"} \cup FoldPC \cup ExtractPC \cup IndexPC]
      /\ pc'[w] = l /\ \A v \in Workers \ {w} : pc'[v] = pc[v]
  BY <1>1, <1>5, <1>6 DEF GoTo, Hands, ExtractPC
<1>8. /\ found' \in [Workers -> SUBSET Facts] /\ found'[w] = F
      /\ \A v \in Workers \ {w} : found'[v] = found[v]
  BY <1>1, <1>4 DEF Hands
<1>9. Hands'
  BY <1>1, <1>4, <1>5, <1>7, <1>8 DEF Hands
<1>10. \A v \in Workers \ {w} : Keeps(v)
  BY <1>4, <1>5, <1>7, <1>8 DEF Keeps
<1>11. Folding(w)'
  BY <1>1, <1>4, <1>6, <1>7 DEF Folding
<1>12. Extracting(w)'
  BY <1>2, <1>4, <1>5, <1>6, <1>7, <1>8 DEF Extracting
<1>13. Working(w)'
  BY <1>4, <1>6, <1>7, OtherWork DEF ExtractPC
<1>14. Queue' /\ status' = status /\ extracted \subseteq extracted' /\ extracted' \subseteq CapsuleIds
  BY <1>1, <1>4, <1>5, <1>6 DEF Queue
<1> QED
  BY <1>4, <1>9, <1>10, <1>11, <1>12, <1>13, <1>14, QuietKeeps

\* The model answers.
LEMMA AskFactsKeeps ==
  ASSUME Inv, NEW w \in Workers, AskFacts(w)
  PROVE  Inv'
<1>1. PICK F \in SUBSET Facts : Advance(w, F)
  BY DEF AskFacts
<1>2. /\ pc[w] = "extract.ask" /\ top' = top /\ created' \in [Workers -> SUBSET AtomIds]
      /\ DOMAIN l2Row' = AtomIds /\ \A a \in atoms' : a \in atoms
  BY DEF AskFacts, Inv, Hands, atoms
<1> QED
  BY <1>1, <1>2, Advancing

\* A known fact is passed over, a new one is to be stored.
LEMMA FindDuplicateKeeps ==
  ASSUME Inv, NEW w \in Workers, FindDuplicate(w)
  PROVE  Inv'
<1>1. pc[w] = "extract.find" /\ Hands /\ Rows /\ Queue /\ Folding(w) /\ Extracting(w)
  BY DEF FindDuplicate, Inv
<1>2. CASE \E a \in atoms : a[2] = Fact(w)
  <2>1. Advance(w, found[w] \ {Fact(w)}) /\ UNCHANGED <<top, l2Row, created>>
    BY <1>2 DEF FindDuplicate
  <2>2. found[w] \ {Fact(w)} \in SUBSET Facts /\ created' \in [Workers -> SUBSET AtomIds]
        /\ DOMAIN l2Row' = AtomIds /\ \A a \in atoms' : a \in atoms
    BY <1>1, <2>1 DEF Hands, Inv, atoms
  <2> QED
    BY <1>1, <2>1, <2>2, Advancing
<1>3. CASE ~\E a \in atoms : a[2] = Fact(w)
  <2>1. /\ GoTo(w, "extract.put")
        /\ UNCHANGED <<top, l0Row, l1Row, evidence, l2Row, l1Cursor, l2Cursor, status, extracted, locals>>
    BY <1>3 DEF FindDuplicate, tables, cursors, queue, history
  <2>2. Hands' /\ pc'[w] = "extract.put" /\ \A v \in Workers \ {w} : Keeps(v)
    BY <2>1, Moving DEF ExtractPC
  <2>3. Folding(w)' /\ Extracting(w)'
    BY <1>1, <2>1, <2>2 DEF Folding, Extracting, locals
  <2>4. Working(w)'
    BY <1>1, <2>1, <2>2, OtherWork DEF ExtractPC, locals
  <2>5. Queue' /\ status' = status /\ extracted' \subseteq CapsuleIds
    BY <1>1, <2>1 DEF Queue, Rows
  <2>6. DOMAIN l2Row' = AtomIds /\ \A a \in atoms' : a \in atoms
    BY <2>1 DEF Inv, atoms
  <2> QED
    BY <2>1, <2>2, <2>3, <2>4, <2>5, <2>6, QuietKeeps
<1> QED
  BY <1>2, <1>3

\* A fact is stored as an atom of its capsule.
LEMMA PutAtomKeeps ==
  ASSUME Inv, NEW w \in Workers, PutAtom(w)
  PROVE  Inv'
<1> DEFINE a == <<Capsule(w), Fact(w)>>
<1>1. /\ pc[w] = "extract.put" /\ PutRow(l2Row, a) /\ created' = [created EXCEPT ![w] = {a}]
      /\ Advance(w, found[w] \ {Fact(w)})
  BY DEF PutAtom
<1>2. found \in [Workers -> SUBSET Facts] /\ created \in [Workers -> SUBSET AtomIds]
      /\ found[w] # {} /\ DOMAIN l2Row = AtomIds /\ top \in Nat
  BY <1>1 DEF Inv, Hands, Extracting, Rows
<1>3. Fact(w) \in found[w]
  BY <1>2, Zenon DEF Fact
<1>4. Capsule(w) \in CapsuleIds /\ l1Row[Capsule(w)] # 0
  BY <1>1, CapsuleInHand
<1>5. a \in AtomIds /\ a[1] = Capsule(w)
  BY <1>2, <1>3, <1>4 DEF AtomIds
<1>6. found[w] \ {Fact(w)} \in SUBSET Facts
  BY <1>2
<1> HIDE DEF a
<1>7. /\ top' = top \/ (top' \in Nat /\ top <= top')
      /\ DOMAIN l2Row' = AtomIds /\ \A b \in AtomIds \ {a} : l2Row'[b] = l2Row[b]
  BY <1>1, <1>2 DEF PutRow
<1>8. created' \in [Workers -> SUBSET AtomIds]
      /\ \A b \in atoms' : b \in atoms \/ l1Row[b[1]] # 0
  BY <1>1, <1>2, <1>4, <1>5, <1>7 DEF atoms
<1> QED
  BY <1>1, <1>6, <1>7, <1>8, Advancing

\* The second checkpoint is set: the capsules before it have been gone through.
LEMMA PutL2CursorKeeps ==
  ASSUME Inv, NEW w \in Workers, PutL2Cursor(w)
  PROVE  Inv'
<1> DEFINE l == IF created[w] # {} THEN "extract.enqueue" ELSE "complete"
<1>1. Rows /\ Queue /\ Folding(w) /\ Extracting(w) /\ cursor[w] \in 0..top
  BY DEF Inv, Folding
<1>2. /\ pc[w] = "extract.checkpoint" /\ GoTo(w, l) /\ l2Cursor' = cursor[w]
      /\ UNCHANGED <<top, l0Row, l1Row, evidence, l2Row, l1Cursor, status, extracted, locals>>
  BY DEF PutL2Cursor, tables, queue, history
<1>3. l \in {"extract.enqueue", "complete"}
  OBVIOUS
<1> HIDE DEF l
<1>4. Hands' /\ pc'[w] = l /\ \A v \in Workers \ {w} : Keeps(v)
  BY <1>2, <1>3, Moving DEF ExtractPC
<1>5. Folding(w)' /\ Extracting(w)'
  BY <1>1, <1>2, <1>3, <1>4 DEF Folding, Extracting, locals
<1>6. Working(w)'
  BY <1>2, <1>3, <1>4, OtherWork DEF ExtractPC, locals
<1>7. Rows' /\ Grows
  <2>1. extracted' \subseteq CapsuleIds
    BY <1>1, <1>2 DEF Rows
  <2> QED
    BY <1>2, <2>1, SameRows
<1>8. l2Cursor' \in 0..top' /\ ExtractsUpTo(l2Cursor)'
  BY <1>1, <1>2 DEF Extracting, ExtractsUpTo
<1>9. Queue' /\ status' = status /\ l1Cursor' = l1Cursor
  BY <1>1, <1>2 DEF Queue
<1>10. DOMAIN l2Row' = AtomIds /\ \A a \in atoms' : a \in atoms
  BY <1>2 DEF Inv, atoms
<1> QED
  BY <1>4, <1>5, <1>6, <1>7, <1>8, <1>9, <1>10, StepKeeps

\* The indexing is queued.
LEMMA QueueIndexKeeps ==
  ASSUME Inv, NEW w \in Workers, QueueIndex(w)
  PROVE  Inv'
<1>1. PICK a \in created[w] : Enqueue(<<"index_embeddings", a>>)
  BY DEF QueueIndex
<1> DEFINE j == <<"index_embeddings", a>>
<1>2. Rows /\ Queue /\ Hands /\ cursor[w] \in 0..top
  BY DEF Inv, Folding
<1>3. /\ pc[w] = "extract.enqueue" /\ GoTo(w, "complete")
      /\ UNCHANGED <<top, l0Row, l1Row, evidence, l2Row, l1Cursor, l2Cursor, extracted, locals>>
  BY DEF QueueIndex, tables, cursors, history
<1>4. Hands' /\ pc'[w] = "complete" /\ \A v \in Workers \ {w} : Keeps(v)
  BY <1>3, Moving
<1>5. Folding(w)' /\ Extracting(w)'
  BY <1>2, <1>3, <1>4 DEF Folding, Extracting, locals
<1>6. Working(w)'
  BY <1>3, <1>4, OtherWork DEF ExtractPC, locals
<1>7. j \in IndexJobs
  BY <1>2 DEF Hands, IndexJobs
<1> HIDE DEF j
<1>8. /\ Queue' /\ \A m \in Messages : status'[<<"fold_l1", m>>] = "completed" =>
                     status[<<"fold_l1", m>>] = "completed"
  <2>1. j \in Jobs /\ \A m \in Messages : j # <<"fold_l1", m>>
    BY <1>7, Kinds DEF Jobs
  <2>2. Enqueue(j)
    BY <1>1 DEF j
  <2> QED
    BY <1>2, <1>3, <2>1, <2>2, Enqueued
<1>9. DOMAIN l2Row' = AtomIds /\ (\A b \in atoms' : b \in atoms) /\ extracted' \subseteq CapsuleIds
  BY <1>2, <1>3 DEF Inv, atoms, Rows
<1> QED
  BY <1>3, <1>4, <1>5, <1>6, <1>8, <1>9, QuietKeeps

\* A worker at index_embeddings touches neither rows nor checkpoints.
LEMMA IndexKeeps ==
  ASSUME Inv, NEW w \in Workers, IndexStep(w)
  PROVE  Inv'
<1>1. Rows /\ Queue /\ Hands /\ cursor[w] \in 0..top
  BY DEF Inv, Folding
<1>2. /\ pc[w] \in IndexPC /\ \E l \in {"complete", "index.put"} : GoTo(w, l)
      /\ UNCHANGED <<top, l0Row, l1Row, evidence, l2Row, l1Cursor, l2Cursor, extracted, status,
                     job, cursor, batch, capsules, found, created>>
  BY DEF IndexStep, ListTargets, PutEmbedding, IndexPC, tables, cursors, queue, history
<1>3. Hands' /\ pc'[w] \in {"complete", "index.put"} /\ \A v \in Workers \ {w} : Keeps(v)
  BY <1>1, <1>2 DEF GoTo, Hands, Keeps, IndexPC
<1>4. Folding(w)' /\ Extracting(w)'
  BY <1>1, <1>2, <1>3 DEF Folding, Extracting
<1>5. Working(w)'
  BY <1>2, <1>3, OtherWork
<1>6. Queue' /\ status' = status /\ extracted' \subseteq CapsuleIds
  BY <1>1, <1>2 DEF Queue, Rows
<1>7. DOMAIN l2Row' = AtomIds /\ \A a \in atoms' : a \in atoms
  BY <1>2 DEF Inv, atoms
<1> QED
  BY <1>2, <1>3, <1>4, <1>5, <1>6, <1>7, QuietKeeps

-----------------------------------------------------------------------------
(* Theorems *)

\* A step that changes nothing.
LEMMA StutterKeeps ==
  ASSUME Inv, UNCHANGED vars
  PROVE  Inv'
<1>1. Rows /\ Queue
  BY DEF Inv
<1>2. UNCHANGED <<top, l0Row, l1Row, evidence, l2Row, l1Cursor, l2Cursor, status, extracted, pc, locals>>
  BY DEF vars, tables, cursors, queue, history
<1>3. Rows' /\ Grows
  <2>1. extracted' \subseteq CapsuleIds
    BY <1>1, <1>2 DEF Rows
  <2> QED
    BY <1>2, <2>1, SameRows
<1>4. Queue' /\ status' = status
  BY <1>1, <1>2 DEF Queue
<1> QED
  BY <1>2, <1>3, <1>4, HostKeeps

\* Every step keeps the invariant.
LEMMA NextKeeps == Inv /\ [Next]_vars => Inv'
<1> SUFFICES ASSUME Inv, [Next]_vars PROVE Inv'
  OBVIOUS
<1>1. CASE UNCHANGED vars
  BY <1>1, StutterKeeps
<1>2. ASSUME NEW m \in Messages, Capture(m) \/ QueueFold(m)
      PROVE  Inv'
  BY <1>2, CaptureKeeps, QueueFoldKeeps
<1>3. ASSUME NEW w \in Workers, NEW j \in Jobs, Claim(w, j)
      PROVE  Inv'
  BY <1>3, ClaimKeeps
<1>4. ASSUME NEW w \in Workers, FoldStep(w)
      PROVE  Inv'
  BY <1>4, ReadL1CursorKeeps, SelectMessagesKeeps, PutCapsuleKeeps, DescribeCapsuleKeeps,
     PutL1CursorKeeps, QueueExtractKeeps DEF FoldStep
<1>5. ASSUME NEW w \in Workers, ExtractStep(w)
      PROVE  Inv'
  BY <1>5, ReadL2CursorKeeps, SelectCapsulesKeeps, AskFactsKeeps, FindDuplicateKeeps,
     PutAtomKeeps, PutL2CursorKeeps, QueueIndexKeeps DEF ExtractStep
<1>6. ASSUME NEW w \in Workers, IndexStep(w) \/ Complete(w) \/ Raise(w) \/ Crash(w)
      PROVE  Inv'
  BY <1>6, IndexKeeps, CompleteKeeps, RaiseKeeps, CrashKeeps
<1> QED
  BY <1>1, <1>2, <1>3, <1>4, <1>5, <1>6 DEF Next, HandlerStep

\* The three invariants of the pipeline, and what they rest on.
LEMMA Invariant == Spec => []Inv
<1>1. Init => Inv
  BY InitInv
<1>2. Inv /\ [Next]_vars => Inv'
  BY NextKeeps
<1> QED
  BY <1>1, <1>2, PTL DEF Spec

\* The checkpoints hide nothing: the content of a message before the first checkpoint is
\* in a capsule and a capsule before the second has been extracted, whatever the contents
\* and however many workers take overlapping batches, move the checkpoints back, raise or
\* die (NothingSkipped; l1_summarizer.py:141, l2_extractor.py:73).
THEOREM CheckpointsHideNothing == Spec => []NothingSkipped
<1>1. Inv => NothingSkipped
  BY DEF Inv
<1> QED
  BY <1>1, Invariant, PTL

\* A completed fold_l1 job leaves the content of its message in a capsule, or more
\* messages than a batch holds were there when the message was stored
\* (CompletedIsCovered; l1_summarizer.py:71).
THEOREM CompletedJobsCover == Spec => []CompletedIsCovered
<1>1. Inv => CompletedIsCovered
  BY DEF Inv
<1> QED
  BY <1>1, Invariant, PTL

\* The capsule of an atom exists and has evidence (AtomsHaveEvidence; l2_extractor.py:100).
THEOREM AtomsKeepEvidence == Spec => []AtomsHaveEvidence
<1>1. Inv => AtomsHaveEvidence
  BY DEF Inv
<1> QED
  BY <1>1, Invariant, PTL
=============================================================================
