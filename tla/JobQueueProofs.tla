--------------------------- MODULE JobQueueProofs ---------------------------
(***************************************************************************)
(* Proofs about JobQueue, for any sets of jobs and workers, any number of  *)
(* attempts and any timeouts.  The inductive invariant IInv says that a    *)
(* handler that has not outlived its lease still owns its row, with the    *)
(* very deadline it was granted; everything else follows from that.        *)
(***************************************************************************)
EXTENDS JobQueue, TLAPS

HandlerHoldsJob == \A w \in Workers : InHandler(w) => held[w] \in Jobs

\* A handler within its lease owns the row, and both agree on the deadline.
HandlerOwnsRow ==
  ~overran => \A w \in Workers : InHandler(w) =>
    /\ Owns(w, held[w])
    /\ grant[w] > 0
    /\ lease[held[w]] = grant[w]

\* What a failing worker has read is still true: a last attempt stays the
\* last one, and an owned row gets no further attempt.
TerminalIsRight ==
  \A w \in Workers : pc[w] = "failing" =>
    /\ terminal[w] => attempts[held[w]] = MaxAttempts
    /\ ~overran /\ ~terminal[w] => attempts[held[w]] < MaxAttempts

\* A row that is still to be inserted has used no attempt.
AbsentIsFresh == \A j \in Jobs : status[j] = "absent" => attempts[j] = 0

IInv ==
  /\ TypeOK
  /\ AbsentIsFresh
  /\ OwnerIffRunning
  /\ HandlerHoldsJob
  /\ HandlerOwnsRow
  /\ TerminalIsRight
  /\ FailedOnlyWhenSpent
  /\ PendingIsClaimable

-----------------------------------------------------------------------------
\* Clocks count down within their domains.
LEMMA ElapseType ==
  ASSUME NEW s \in SecondsLeft
  PROVE  Elapse(s) \in SecondsLeft
  BY JobQueueAssumption DEF Elapse, SecondsLeft

\* The stamps that the code writes lie in their domains.
LEMMA StampTypes ==
  /\ 0 \in SecondsLeft /\ RetryDelay \in SecondsLeft /\ 0 \in 0..BusyTimeout
  /\ \A s \in SecondsLeft : s \in Int
  BY JobQueueAssumption DEF SecondsLeft

\* The invariant holds in the initial states.
LEMMA InitIInv == Init => IInv
<1> SUFFICES ASSUME Init PROVE IInv
  OBVIOUS
<1> USE DEF Init
<1>1. TypeOK
  <2>1. 0 \in 0..MaxAttempts /\ 0 \in 0..MaxCrashes
    BY JobQueueAssumption
  <2> QED
    BY <2>1, StampTypes DEF TypeOK, Status, WorkerPC
<1>2. AbsentIsFresh /\ OwnerIffRunning /\ FailedOnlyWhenSpent /\ PendingIsClaimable
  BY DEF AbsentIsFresh, OwnerIffRunning, FailedOnlyWhenSpent, PendingIsClaimable
<1>3. HandlerHoldsJob /\ HandlerOwnsRow /\ TerminalIsRight
  BY DEF HandlerHoldsJob, HandlerOwnsRow, TerminalIsRight, InHandler
<1> QED
  BY <1>1, <1>2, <1>3 DEF IInv

\* Where GoTo leaves a worker is a state of a worker.
LEMMA GoToType ==
  ASSUME TypeOK, NEW w \in Workers, NEW l \in WorkerPC, GoTo(w, l)
  PROVE  /\ pc' \in [Workers -> WorkerPC]
         /\ held' \in [Workers -> Jobs \cup {NoJob}]
         /\ stale' \in [Workers -> 0..BusyTimeout]
         /\ grant' \in [Workers -> SecondsLeft]
         /\ terminal' \in [Workers -> BOOLEAN]
<1>1. pc' \in [Workers -> WorkerPC] /\ held' \in [Workers -> Jobs \cup {NoJob}]
  BY DEF TypeOK, GoTo
<1>2. stale' \in [Workers -> 0..BusyTimeout] /\ grant' \in [Workers -> SecondsLeft]
  BY StampTypes DEF TypeOK, GoTo
<1>3. terminal' \in [Workers -> BOOLEAN]
  BY DEF TypeOK, GoTo
<1> QED
  BY <1>1, <1>2, <1>3

\* EnqueueJob keeps the invariant.
LEMMA EnqueueJobStep ==
  ASSUME IInv, NEW j \in Jobs, EnqueueJob(j)
  PROVE  IInv'
<1> USE JobQueueAssumption DEF EnqueueJob, IInv, procs
<1>1. TypeOK'
  BY DEF TypeOK, Status
<1>2. OwnerIffRunning' /\ AbsentIsFresh'
  BY DEF TypeOK, OwnerIffRunning, AbsentIsFresh
<1>2a. FailedOnlyWhenSpent'
  BY DEF TypeOK, FailedOnlyWhenSpent
<1>2b. PendingIsClaimable'
  BY DEF TypeOK, AbsentIsFresh, PendingIsClaimable
<1>3. HandlerHoldsJob' /\ TerminalIsRight'
  BY DEF HandlerHoldsJob, TerminalIsRight, InHandler
<1>4. HandlerOwnsRow'
  BY DEF TypeOK, HandlerOwnsRow, HandlerHoldsJob, InHandler, Owns
<1> QED
  BY <1>1, <1>2, <1>2a, <1>2b, <1>3, <1>4

\* Steps that leave the table alone and put one worker out of any handler.
LEMMA LeaveHandlerStep ==
  ASSUME IInv, NEW w \in Workers, NEW l \in WorkerPC \ {"working", "failing"},
         GoTo(w, l), UNCHANGED <<rows, second, overran>>, crashes' \in 0..MaxCrashes
  PROVE  IInv'
<1> USE JobQueueAssumption DEF IInv, GoTo, rows
<1>1. TypeOK'
  BY DEF TypeOK, SecondsLeft
<1>2. AbsentIsFresh' /\ OwnerIffRunning' /\ FailedOnlyWhenSpent' /\ PendingIsClaimable'
  BY DEF AbsentIsFresh, OwnerIffRunning, FailedOnlyWhenSpent, PendingIsClaimable
<1>3. \A v \in Workers : InHandler(v)' => v # w /\ InHandler(v)
  BY DEF TypeOK, InHandler
<1>4. \A v \in Workers \ {w} : /\ pc'[v] = pc[v] /\ held'[v] = held[v]
                               /\ grant'[v] = grant[v] /\ terminal'[v] = terminal[v]
  BY DEF TypeOK
<1>5. HandlerHoldsJob' /\ TerminalIsRight'
  BY <1>3, <1>4 DEF HandlerHoldsJob, TerminalIsRight, InHandler
<1>6. HandlerOwnsRow'
  BY <1>3, <1>4 DEF HandlerOwnsRow, Owns
<1> QED
  BY <1>1, <1>2, <1>5, <1>6

\* BeginClaim keeps the invariant.
LEMMA BeginClaimStep ==
  ASSUME IInv, NEW w \in Workers, BeginClaim(w)
  PROVE  IInv'
<1> USE DEF BeginClaim, IInv, rows
<1>1. TypeOK'
  BY DEF TypeOK, WorkerPC
<1>2. AbsentIsFresh' /\ OwnerIffRunning' /\ FailedOnlyWhenSpent' /\ PendingIsClaimable'
  BY DEF AbsentIsFresh, OwnerIffRunning, FailedOnlyWhenSpent, PendingIsClaimable
<1>3. \A v \in Workers : InHandler(v)' => InHandler(v) /\ pc'[v] = pc[v]
  BY DEF TypeOK, InHandler
<1>4. HandlerHoldsJob' /\ TerminalIsRight' /\ HandlerOwnsRow'
  BY <1>3 DEF HandlerHoldsJob, TerminalIsRight, HandlerOwnsRow, InHandler, Owns
<1> QED
  BY <1>1, <1>2, <1>4

\* ClaimJob keeps the invariant.
LEMMA ClaimJobStep ==
  ASSUME IInv, NEW w \in Workers, ClaimJob(w)
  PROVE  IInv'
<1> DEFINE deadline == LeaseSeconds - stale[w]
<1>1. PICK j \in Oldest({k \in Jobs : Claimable(k, stale[w])}) :
        /\ status' = [status EXCEPT ![j] = "running"]
        /\ attempts' = [attempts EXCEPT ![j] = @ + 1]
        /\ owner' = [owner EXCEPT ![j] = w]
        /\ lease' = [lease EXCEPT ![j] = deadline]
        /\ held' = [held EXCEPT ![w] = j]
  BY DEF ClaimJob
<1>2. j \in Jobs /\ Claimable(j, stale[w])
  BY <1>1 DEF Oldest
<1>3. stale[w] \in 0..BusyTimeout /\ deadline \in SecondsLeft /\ deadline \in Int
      /\ attempts[j] \in 0..MaxAttempts /\ attempts[j] < MaxAttempts
      /\ lease[j] \in Int
  BY <1>2, JobQueueAssumption DEF IInv, TypeOK, SecondsLeft, Claimable
<1>4. /\ pc' = [pc EXCEPT ![w] = "working"]
      /\ stale' = [stale EXCEPT ![w] = 0]
      /\ grant' = [grant EXCEPT ![w] = deadline]
      /\ overran' = (overran \/ deadline <= 0)
      /\ UNCHANGED <<available, created, terminal, second, crashes>>
  BY DEF ClaimJob
<1>4a. overran' <=> overran \/ deadline <= 0
  BY DEF ClaimJob
<1> HIDE DEF deadline
<1>5. TypeOK'
  BY <1>1, <1>2, <1>3, <1>4, JobQueueAssumption DEF IInv, TypeOK, Status, WorkerPC
<1>6. /\ status'[j] = "running" /\ owner'[j] = w /\ lease'[j] = deadline
      /\ attempts'[j] = attempts[j] + 1
      /\ \A k \in Jobs \ {j} : /\ status'[k] = status[k] /\ owner'[k] = owner[k]
                               /\ lease'[k] = lease[k] /\ attempts'[k] = attempts[k]
  BY <1>1, <1>2 DEF IInv, TypeOK
<1>7. /\ pc'[w] = "working" /\ held'[w] = j /\ grant'[w] = deadline
      /\ \A v \in Workers \ {w} : pc'[v] = pc[v] /\ held'[v] = held[v] /\ grant'[v] = grant[v]
  BY <1>1, <1>4 DEF IInv, TypeOK
<1>8. AbsentIsFresh' /\ OwnerIffRunning' /\ FailedOnlyWhenSpent' /\ PendingIsClaimable'
  BY <1>4, <1>6, JobQueueAssumption
     DEF IInv, AbsentIsFresh, OwnerIffRunning, FailedOnlyWhenSpent, PendingIsClaimable
<1>9. HandlerHoldsJob'
  BY <1>2, <1>7 DEF IInv, HandlerHoldsJob, InHandler
<1>10. ASSUME ~overran, NEW v \in Workers \ {w}, InHandler(v)
       PROVE  held[v] # j
  <2>1. Owns(v, held[v]) /\ lease[held[v]] > 0
    BY <1>10 DEF IInv, HandlerOwnsRow
  <2> QED
    BY <2>1, <1>2, <1>3 DEF Claimable, Owns
<1>11. HandlerOwnsRow'
  <2> SUFFICES ASSUME ~overran', NEW v \in Workers, InHandler(v)'
               PROVE  Owns(v, held[v])' /\ grant'[v] > 0 /\ lease'[held'[v]] = grant'[v]
    BY DEF HandlerOwnsRow
  <2>0. ~overran /\ deadline > 0
    BY <1>3, <1>4a
  <2>1. CASE v = w
    BY <2>0, <2>1, <1>6, <1>7 DEF Owns
  <2>2. CASE v # w
    <3>1. ~overran /\ InHandler(v) /\ held[v] \in Jobs /\ held[v] # j
      BY <2>2, <1>4, <1>7, <1>10 DEF IInv, HandlerHoldsJob, InHandler
    <3> QED
      BY <3>1, <2>2, <1>6, <1>7 DEF IInv, HandlerOwnsRow, Owns
  <2> QED
    BY <2>1, <2>2
<1>12. TerminalIsRight'
  <2> SUFFICES ASSUME NEW v \in Workers \ {w}, pc[v] = "failing"
               PROVE  /\ terminal[v] => attempts'[held[v]] = MaxAttempts
                      /\ ~overran' /\ ~terminal[v] => attempts'[held[v]] < MaxAttempts
    BY <1>4, <1>7 DEF TerminalIsRight
  <2>1. held[v] \in Jobs /\ InHandler(v)
    BY DEF IInv, HandlerHoldsJob, InHandler
  <2>2. CASE held[v] = j
    <3>1. overran /\ overran'
      BY <2>1, <2>2, <1>4, <1>10
    <3>2. ~terminal[v]
      BY <2>2, <1>3, JobQueueAssumption DEF IInv, TerminalIsRight
    <3> QED
      BY <3>1, <3>2
  <2>3. CASE held[v] # j
    BY <2>1, <2>3, <1>4, <1>6 DEF IInv, TerminalIsRight
  <2> QED
    BY <2>2, <2>3
<1> QED
  BY <1>5, <1>8, <1>9, <1>11, <1>12 DEF IInv

\* FailJobRead keeps the invariant.
LEMMA FailJobReadStep ==
  ASSUME IInv, NEW w \in Workers, FailJobRead(w)
  PROVE  IInv'
<1> USE DEF FailJobRead, IInv, rows
<1>1. InHandler(w) /\ held[w] \in Jobs /\ attempts[held[w]] \in 0..MaxAttempts
  BY DEF HandlerHoldsJob, InHandler, TypeOK
<1>2. TypeOK'
  BY DEF TypeOK, WorkerPC
<1>3. AbsentIsFresh' /\ OwnerIffRunning' /\ FailedOnlyWhenSpent' /\ PendingIsClaimable'
  BY DEF AbsentIsFresh, OwnerIffRunning, FailedOnlyWhenSpent, PendingIsClaimable
<1>4. HandlerHoldsJob' /\ HandlerOwnsRow'
  BY <1>1 DEF HandlerHoldsJob, HandlerOwnsRow, InHandler, Owns, TypeOK
<1>5. TerminalIsRight'
  <2> SUFFICES ASSUME NEW v \in Workers, pc'[v] = "failing"
               PROVE  /\ terminal'[v] => attempts[held[v]] = MaxAttempts
                      /\ ~overran /\ ~terminal'[v] => attempts[held[v]] < MaxAttempts
    BY DEF TerminalIsRight
  <2>1. CASE v = w
    <3>1. terminal'[v] <=> attempts[held[v]] >= MaxAttempts
      BY <2>1 DEF TypeOK
    <3> QED
      BY <2>1, <3>1, <1>1, JobQueueAssumption
  <2>2. CASE v # w
    BY <2>2 DEF TerminalIsRight, TypeOK
  <2> QED
    BY <2>1, <2>2
<1> QED
  BY <1>2, <1>3, <1>4, <1>5

\* complete_job and the write of fail_job both take the row out of the
\* handler's hands.
LEMMA ReleaseStep ==
  ASSUME IInv, NEW w \in Workers, InHandler(w), NEW s \in Status \ {"absent", "running"},
         s = "failed" => attempts[held[w]] = MaxAttempts,
         s = "pending" /\ ~overran => attempts[held[w]] < MaxAttempts,
         Release(held[w], s), GoTo(w, "idle"),
         available' \in [Jobs -> SecondsLeft], UNCHANGED <<second, overran, crashes>>
  PROVE  IInv'
<1> DEFINE j == held[w]
<1>1. j \in Jobs
  BY DEF IInv, HandlerHoldsJob
<1>2. /\ status'[j] = s /\ owner'[j] = NoWorker /\ UNCHANGED attempts
      /\ \A k \in Jobs \ {j} : /\ status'[k] = status[k] /\ owner'[k] = owner[k]
                               /\ lease'[k] = lease[k]
  BY <1>1 DEF IInv, TypeOK, Release
<1>3. /\ ~InHandler(w)'
      /\ \A v \in Workers \ {w} : /\ pc'[v] = pc[v] /\ held'[v] = held[v]
                                  /\ grant'[v] = grant[v] /\ terminal'[v] = terminal[v]
  BY DEF IInv, TypeOK, GoTo, InHandler
<1>4. TypeOK'
  <2>1. /\ status' \in [Jobs -> Status]
        /\ owner' \in [Jobs -> Workers \cup {NoWorker}]
        /\ lease' \in [Jobs -> SecondsLeft]
        /\ UNCHANGED <<attempts, created>>
    BY <1>1, StampTypes DEF IInv, TypeOK, Release
  <2> QED
    BY <2>1, GoToType DEF IInv, TypeOK, WorkerPC
<1>5. AbsentIsFresh' /\ OwnerIffRunning' /\ FailedOnlyWhenSpent' /\ PendingIsClaimable'
  BY <1>2, JobQueueAssumption DEF IInv, AbsentIsFresh, OwnerIffRunning, FailedOnlyWhenSpent, PendingIsClaimable
<1>6. HandlerHoldsJob'
  BY <1>3 DEF IInv, HandlerHoldsJob, InHandler
<1>7. ASSUME ~overran, NEW v \in Workers \ {w}, InHandler(v)
      PROVE  held[v] # j
  BY <1>7 DEF IInv, HandlerOwnsRow, Owns
<1>8. HandlerOwnsRow'
  <2> SUFFICES ASSUME ~overran, NEW v \in Workers \ {w}, InHandler(v)
               PROVE  Owns(v, held[v])' /\ grant'[v] > 0 /\ lease'[held'[v]] = grant'[v]
    BY <1>3 DEF HandlerOwnsRow, InHandler
  <2>1. held[v] \in Jobs /\ held[v] # j
    BY <1>7 DEF IInv, HandlerHoldsJob
  <2> QED
    BY <2>1, <1>2, <1>3 DEF IInv, HandlerOwnsRow, Owns
<1>9. TerminalIsRight'
  BY <1>2, <1>3 DEF IInv, TerminalIsRight, InHandler
<1> QED
  BY <1>4, <1>5, <1>6, <1>8, <1>9 DEF IInv

\* CompleteJob keeps the invariant.
LEMMA CompleteJobStep ==
  ASSUME IInv, NEW w \in Workers, CompleteJob(w)
  PROVE  IInv'
<1>1. InHandler(w) /\ Release(held[w], "completed") /\ GoTo(w, "idle")
      /\ UNCHANGED <<available, second, overran, crashes>>
  BY DEF CompleteJob, InHandler
<1>2. available' \in [Jobs -> SecondsLeft] /\ "completed" \in Status \ {"absent", "running"}
  BY <1>1 DEF IInv, TypeOK, Status
<1> QED
  BY <1>1, <1>2, ReleaseStep

\* FailJobWrite keeps the invariant.
LEMMA FailJobWriteStep ==
  ASSUME IInv, NEW w \in Workers, FailJobWrite(w)
  PROVE  IInv'
<1> DEFINE s == IF terminal[w] THEN "failed" ELSE "pending"
<1>1. InHandler(w) /\ Release(held[w], s) /\ GoTo(w, "idle")
      /\ UNCHANGED <<second, overran, crashes>>
  BY DEF FailJobWrite, InHandler
<1>2. available' \in [Jobs -> SecondsLeft]
  BY StampTypes DEF FailJobWrite, IInv, TypeOK
<1>2a. s \in Status \ {"absent", "running"}
  BY DEF Status
<1>3. /\ s = "failed" => attempts[held[w]] = MaxAttempts
      /\ s = "pending" /\ ~overran => attempts[held[w]] < MaxAttempts
  BY DEF FailJobWrite, IInv, TerminalIsRight
<1> HIDE DEF s
<1> QED
  BY <1>1, <1>2, <1>2a, <1>3, ReleaseStep

\* The passing of time keeps the invariant.
LEMMA TickStep ==
  ASSUME IInv, Tick
  PROVE  IInv'
<1>1. UNCHANGED <<status, attempts, owner, created, pc, held, terminal, crashes>>
  BY DEF Tick
<1>2. ~overran' => ~overran /\ \A w \in Workers : InHandler(w) => grant[w] > 1
  <2>1. \A w \in Workers : grant[w] \in Int
    BY StampTypes DEF IInv, TypeOK
  <2>2. overran' <=> (overran \/ \E w \in Workers : InHandler(w) /\ grant[w] <= 1)
    BY DEF Tick
  <2> QED
    BY <2>1, <2>2
<1>3. TypeOK'
  <2>1. lease' \in [Jobs -> SecondsLeft] /\ available' \in [Jobs -> SecondsLeft]
    BY ElapseType DEF Tick, IInv, TypeOK
  <2>2. grant' \in [Workers -> SecondsLeft]
    BY ElapseType DEF Tick, IInv, TypeOK
  <2>3. stale' \in [Workers -> 0..BusyTimeout]
    BY JobQueueAssumption DEF Tick, IInv, TypeOK
  <2>4. second' \in Nat /\ overran' \in BOOLEAN
    BY DEF Tick, IInv, TypeOK
  <2> QED
    BY <1>1, <2>1, <2>2, <2>3, <2>4 DEF IInv, TypeOK
<1>4. AbsentIsFresh' /\ OwnerIffRunning' /\ FailedOnlyWhenSpent' /\ PendingIsClaimable'
  BY <1>1, <1>2 DEF IInv, AbsentIsFresh, OwnerIffRunning, FailedOnlyWhenSpent, PendingIsClaimable
<1>5. HandlerHoldsJob' /\ TerminalIsRight'
  BY <1>1, <1>2 DEF IInv, HandlerHoldsJob, TerminalIsRight, InHandler
<1>6. HandlerOwnsRow'
  <2> SUFFICES ASSUME ~overran', NEW w \in Workers, InHandler(w)'
               PROVE  Owns(w, held[w])' /\ grant'[w] > 0 /\ lease'[held'[w]] = grant'[w]
    BY DEF HandlerOwnsRow
  <2>1. InHandler(w) /\ held[w] \in Jobs /\ held'[w] = held[w]
    BY <1>1 DEF InHandler, IInv, HandlerHoldsJob
  <2>2. grant[w] > 1 /\ grant[w] \in Int
    BY <1>2, <2>1 DEF IInv, TypeOK, SecondsLeft
  <2>3. Owns(w, held[w]) /\ lease[held[w]] = grant[w]
    BY <1>2, <2>1 DEF IInv, HandlerOwnsRow
  <2>4. lease'[held[w]] = Elapse(grant[w]) /\ grant'[w] = Elapse(grant[w])
    BY <2>1, <2>3 DEF Tick, Owns
  <2>5. Elapse(grant[w]) > 0
    BY <2>2, JobQueueAssumption DEF Elapse
  <2> QED
    BY <1>1, <2>1, <2>3, <2>4, <2>5 DEF Owns
<1> QED
  BY <1>3, <1>4, <1>5, <1>6 DEF IInv

-----------------------------------------------------------------------------
\* Every step keeps the invariant.
LEMMA NextIInv == IInv /\ [Next]_vars => IInv'
<1> SUFFICES ASSUME IInv, [Next]_vars PROVE IInv'
  OBVIOUS
<1> USE DEF WorkerPC
<1>1. ASSUME NEW j \in Jobs, EnqueueJob(j) PROVE IInv'
  BY <1>1, EnqueueJobStep
<1>2. ASSUME NEW w \in Workers, WorkerStep(w) \/ Crash(w) \/ Restart(w) PROVE IInv'
  <2>0. crashes \in 0..MaxCrashes
    BY DEF IInv, TypeOK
  <2>1. CASE BeginClaim(w)
    BY <2>1, BeginClaimStep
  <2>2. CASE ClaimJob(w)
    BY <2>2, ClaimJobStep
  <2>3. CASE ClaimNothing(w)
    BY <2>0, <2>3, LeaveHandlerStep DEF ClaimNothing
  <2>4. CASE ClaimTimesOut(w)
    BY <2>0, <2>4, LeaveHandlerStep DEF ClaimTimesOut
  <2>5. CASE CompleteJob(w)
    BY <2>5, CompleteJobStep
  <2>6. CASE FailJobRead(w)
    BY <2>6, FailJobReadStep
  <2>7. CASE FailJobWrite(w)
    BY <2>7, FailJobWriteStep
  <2>8. CASE LoseLease(w)
    BY <2>0, <2>8, LeaveHandlerStep DEF LoseLease
  <2>9. CASE Crash(w)
    <3>1. crashes' \in 0..MaxCrashes
      BY <2>0, <2>9, JobQueueAssumption DEF Crash
    <3> QED
      BY <2>9, <3>1, LeaveHandlerStep DEF Crash
  <2>10. CASE Restart(w)
    BY <2>0, <2>10, LeaveHandlerStep DEF Restart
  <2> QED
    BY <1>2, <2>1, <2>2, <2>3, <2>4, <2>5, <2>6, <2>7, <2>8, <2>9, <2>10 DEF WorkerStep
<1>3. CASE Tick
  BY <1>3, TickStep
<1>4. CASE UNCHANGED vars
  BY <1>4 DEF vars, rows, procs, IInv, TypeOK, AbsentIsFresh, OwnerIffRunning, HandlerHoldsJob,
     HandlerOwnsRow, TerminalIsRight, FailedOnlyWhenSpent, PendingIsClaimable,
     InHandler, Owns
<1> QED
  BY <1>1, <1>2, <1>3, <1>4 DEF Next

\* The inductive invariant of the queue.
LEMMA InductiveInvariant == Spec => []IInv
  BY InitIInv, NextIInv, PTL DEF Spec

\* Every state of the queue is well typed: in particular no row ever uses more
\* than max_attempts attempts.
THEOREM TypeCorrect == Spec => []TypeOK
<1>1. IInv => TypeOK
  BY DEF IInv
<1> QED
  BY <1>1, InductiveInvariant, PTL

\* A job is in the hands of at most one worker as long as handlers return
\* within their leases.
THEOREM SoleHandlerHolds == Spec => []SoleHandler
<1>1. IInv => SoleHandler
  BY DEF IInv, SoleHandler, HandlerOwnsRow, Owns
<1> QED
  BY <1>1, InductiveInvariant, PTL

\* Under the same condition the unguarded UPDATE of fail_job always hits a row
\* that its caller still owns.
THEOREM FailWriteIsOwnedHolds == Spec => []FailWriteIsOwned
<1>1. IInv => FailWriteIsOwned
  BY DEF IInv, FailWriteIsOwned, HandlerOwnsRow, InHandler
<1> QED
  BY <1>1, InductiveInvariant, PTL

\* Under the same condition a pending row has attempts left.
THEOREM PendingIsClaimableHolds == Spec => []PendingIsClaimable
<1>1. IInv => PendingIsClaimable
  BY DEF IInv
<1> QED
  BY <1>1, InductiveInvariant, PTL

\* A job is given up only after its last attempt, whatever overlaps.
THEOREM FailedOnlyWhenSpentHolds == Spec => []FailedOnlyWhenSpent
<1>1. IInv => FailedOnlyWhenSpent
  BY DEF IInv
<1> QED
  BY <1>1, InductiveInvariant, PTL

\* claim_job never takes a row whose lease has not run out: no other step
\* changes the owner of a row that stays running.
THEOREM NoEarlyStealHolds == Spec => NoEarlySteal
<1> DEFINE Kept(j) == status[j] = "running" /\ status'[j] = "running" /\ owner'[j] # owner[j]
                        => lease[j] <= 0
<1>1. ASSUME IInv, [Next]_vars, NEW j \in Jobs
      PROVE  Kept(j)
  <2>1. CASE \E w \in Workers : ClaimJob(w)
    <3>1. PICK w \in Workers : ClaimJob(w)
      BY <2>1
    <3>2. PICK k \in Oldest({i \in Jobs : Claimable(i, stale[w])}) :
            owner' = [owner EXCEPT ![k] = w]
      BY <3>1 DEF ClaimJob
    <3>3. k \in Jobs /\ Claimable(k, stale[w])
      BY <3>2 DEF Oldest
    <3>4. stale[w] \in 0..BusyTimeout /\ lease[k] \in Int
      BY <1>1, <3>3, StampTypes DEF IInv, TypeOK
    <3>5. CASE j = k
      BY <3>3, <3>4, <3>5, JobQueueAssumption DEF Claimable
    <3>6. CASE j # k
      BY <1>1, <3>2, <3>6 DEF IInv, TypeOK
    <3> QED
      BY <3>5, <3>6
  <2>2. CASE \E w \in Workers : CompleteJob(w) \/ FailJobWrite(w)
    <3>1. PICK w \in Workers : CompleteJob(w) \/ FailJobWrite(w)
      BY <2>2
    <3>2. held[w] \in Jobs
      BY <1>1, <3>1 DEF IInv, HandlerHoldsJob, InHandler, CompleteJob, FailJobWrite
    <3>3. PICK s \in {"completed", "failed", "pending"} : Release(held[w], s)
      BY <3>1 DEF CompleteJob, FailJobWrite
    <3>4. status'[held[w]] # "running" /\ \A k \in Jobs \ {held[w]} : owner'[k] = owner[k]
      BY <1>1, <3>2, <3>3 DEF Release, IInv, TypeOK
    <3> QED
      BY <3>4
  <2>3. CASE owner' = owner
    BY <2>3
  <2> QED
    BY <1>1, <2>1, <2>2, <2>3 DEF Next, WorkerStep, EnqueueJob, BeginClaim, ClaimNothing,
       ClaimTimesOut, FailJobRead, LoseLease, Crash, Restart, Tick, vars, rows
<1>2. IInv /\ [Next]_vars => [\A j \in Jobs : Kept(j)]_vars
  BY <1>1
<1> QED
  BY <1>2, InductiveInvariant, PTL DEF Spec, NoEarlySteal
=============================================================================
