------------------------------ MODULE JobQueue ------------------------------
(***************************************************************************)
(* The durable job queue: the runtime_jobs table of SQLiteMemoryStore and  *)
(* the worker processes (`altm worker`) that loop over process_next_job.   *)
(*                                                                         *)
(* Every SQLite transaction is one action; what a worker does between two  *)
(* transactions is a program counter.  A worker reads the clock BEFORE it  *)
(* asks for the write lock, so a claim may act on a clock reading that is  *)
(* up to BusyTimeout seconds old, and fail_job reads the row in one        *)
(* statement and updates it in another, outside a transaction.             *)
(*                                                                         *)
(* Time stamps are stored as seconds left: a stamp s is in the past of a   *)
(* clock reading taken `stale` seconds ago iff s <= -stale.  They stop     *)
(* counting at -BusyTimeout, the oldest reading anybody can hold.          *)
(***************************************************************************)
EXTENDS Integers, FiniteSets

CONSTANTS
  Jobs,          \* keys (scope, job_type, dedupe_key): a job id is their hash
  Workers,       \* worker processes; a worker_id is unique to its process
  NoJob,         \* what an idle worker holds
  NoWorker,      \* lease_owner IS NULL
  MaxAttempts,   \* runtime_jobs.max_attempts
  LeaseSeconds,  \* --lease-seconds
  RetryDelay,    \* fail_job's retry_delay_seconds
  BusyTimeout,   \* PRAGMA busy_timeout: the longest wait for the write lock
  MaxCrashes     \* bound on the number of killed processes

ASSUME JobQueueAssumption ==
  /\ NoJob \notin Jobs
  /\ NoWorker \notin Workers
  /\ MaxAttempts \in Nat \ {0}
  /\ LeaseSeconds \in Nat \ {0}
  /\ RetryDelay \in Nat
  /\ BusyTimeout \in Nat
  /\ MaxCrashes \in Nat

VARIABLES
  \* the columns of runtime_jobs
  status,     \* "absent" stands for: no such row
  attempts,
  owner,      \* lease_owner
  lease,      \* lease_until
  available,  \* available_at
  created,    \* created_at, up to order
  \* the local state of the worker processes
  pc,
  held,       \* the job a worker handles
  stale,      \* age of the clock reading it claims with
  grant,      \* what is left of the lease it was granted
  terminal,   \* what fail_job has computed from the row it read
  \* time and history
  second,     \* the created_at of a row inserted now
  overran,    \* has any handler outlived its lease?
  crashes     \* number of processes killed so far

rows  == <<status, attempts, owner, lease, available, created>>
procs == <<pc, held, stale, grant, terminal>>
vars  == <<rows, procs, second, overran, crashes>>

Status      == {"absent", "pending", "running", "completed", "failed"}
WorkerPC    == {"idle", "claiming", "working", "failing", "dead"}
SecondsLeft == -BusyTimeout .. (LeaseSeconds + RetryDelay)

TypeOK ==
  /\ status \in [Jobs -> Status]
  /\ attempts \in [Jobs -> 0..MaxAttempts]
  /\ owner \in [Jobs -> Workers \cup {NoWorker}]
  /\ lease \in [Jobs -> SecondsLeft]
  /\ available \in [Jobs -> SecondsLeft]
  /\ created \in [Jobs -> Nat]
  /\ pc \in [Workers -> WorkerPC]
  /\ held \in [Workers -> Jobs \cup {NoJob}]
  /\ stale \in [Workers -> 0..BusyTimeout]
  /\ grant \in [Workers -> SecondsLeft]
  /\ terminal \in [Workers -> BOOLEAN]
  /\ second \in Nat
  /\ overran \in BOOLEAN
  /\ crashes \in 0..MaxCrashes

-----------------------------------------------------------------------------
Init ==
  /\ status = [j \in Jobs |-> "absent"]
  /\ attempts = [j \in Jobs |-> 0]
  /\ owner = [j \in Jobs |-> NoWorker]
  /\ lease = [j \in Jobs |-> 0]
  /\ available = [j \in Jobs |-> 0]
  /\ created = [j \in Jobs |-> 0]
  /\ pc = [w \in Workers |-> "idle"]
  /\ held = [w \in Workers |-> NoJob]
  /\ stale = [w \in Workers |-> 0]
  /\ grant = [w \in Workers |-> 0]
  /\ terminal = [w \in Workers |-> FALSE]
  /\ second = 0
  /\ overran = FALSE
  /\ crashes = 0

InHandler(w) == pc[w] \in {"working", "failing"}

\* The WHERE clause that complete_job and fail_job use to recognise the owner.
Owns(w, j) == status[j] = "running" /\ owner[j] = w

\* Faulty: takes a lease that has one second left for an expired one.
Claimable_Early(j, age) ==
  /\ attempts[j] < MaxAttempts
  /\ available[j] <= -age
  /\ \/ status[j] = "pending"
     \/ status[j] = "running" /\ lease[j] <= 1 - age

\* Faulty: never takes over a lease.
Claimable_PendingOnly(j, age) ==
  /\ attempts[j] < MaxAttempts
  /\ available[j] <= -age
  /\ status[j] = "pending"

\* The WHERE clause of claim_job, for a clock read `age` seconds ago.
Claimable(j, age) ==
  /\ attempts[j] < MaxAttempts
  /\ available[j] <= -age
  /\ \/ status[j] = "pending"
     \/ status[j] = "running" /\ lease[j] <= -age

\* ORDER BY created_at ASC LIMIT 1: rows of the same second tie.
Oldest(S) == {j \in S : \A k \in S : created[j] <= created[k]}

\* Worker w drops what it held and goes to location l.
GoTo(w, l) ==
  /\ pc' = [pc EXCEPT ![w] = l]
  /\ held' = [held EXCEPT ![w] = NoJob]
  /\ stale' = [stale EXCEPT ![w] = 0]
  /\ grant' = [grant EXCEPT ![w] = 0]
  /\ terminal' = [terminal EXCEPT ![w] = FALSE]

\* An UPDATE that ends the lease on row j.
Release(j, s) ==
  /\ status' = [status EXCEPT ![j] = s]
  /\ owner' = [owner EXCEPT ![j] = NoWorker]
  /\ lease' = [lease EXCEPT ![j] = 0]
  /\ UNCHANGED <<attempts, created>>

-----------------------------------------------------------------------------
(* enqueue_job: INSERT ... ON CONFLICT DO NOTHING. *)
EnqueueJob(j) ==
  /\ IF status[j] = "absent"
       THEN /\ status' = [status EXCEPT ![j] = "pending"]
            /\ created' = [created EXCEPT ![j] = second]
       ELSE UNCHANGED <<status, created>>
  /\ UNCHANGED <<attempts, owner, lease, available, procs, second, overran, crashes>>

(* process_next_job calls claim_job, which reads the clock first ... *)
BeginClaim(w) ==
  /\ pc[w] = "idle"
  /\ pc' = [pc EXCEPT ![w] = "claiming"]
  /\ UNCHANGED <<rows, held, stale, grant, terminal, second, overran, crashes>>

(* ... and then takes the oldest claimable row in an immediate transaction. *)
ClaimJob(w) ==
  LET deadline == LeaseSeconds - stale[w]
  IN  /\ pc[w] = "claiming"
      /\ \E j \in Oldest({k \in Jobs : Claimable(k, stale[w])}) :
           /\ status' = [status EXCEPT ![j] = "running"]
           /\ attempts' = [attempts EXCEPT ![j] = @ + 1]
           /\ owner' = [owner EXCEPT ![j] = w]
           /\ lease' = [lease EXCEPT ![j] = deadline]
           /\ held' = [held EXCEPT ![w] = j]
      /\ pc' = [pc EXCEPT ![w] = "working"]
      /\ stale' = [stale EXCEPT ![w] = 0]
      /\ grant' = [grant EXCEPT ![w] = deadline]
      /\ overran' = (overran \/ deadline <= 0)
      /\ UNCHANGED <<available, created, terminal, second, crashes>>

ClaimNothing(w) ==
  /\ pc[w] = "claiming"
  /\ {k \in Jobs : Claimable(k, stale[w])} = {}
  /\ GoTo(w, "idle")
  /\ UNCHANGED <<rows, second, overran, crashes>>

(* "database is locked": the exception leaves process_next_job and the     *)
(* worker loop, so the process ends.                                       *)
ClaimTimesOut(w) ==
  /\ pc[w] = "claiming"
  /\ stale[w] = BusyTimeout
  /\ GoTo(w, "dead")
  /\ UNCHANGED <<rows, second, overran, crashes>>

-----------------------------------------------------------------------------
(* The handler returned: complete_job updates the row it still owns ...    *)
CompleteJob(w) ==
  /\ pc[w] = "working"
  /\ Owns(w, held[w])
  /\ Release(held[w], "completed")
  /\ GoTo(w, "idle")
  /\ UNCHANGED <<available, second, overran, crashes>>

\* Faulty: > for >=.
FailJobRead_Late(w) ==
  /\ pc[w] = "working"
  /\ Owns(w, held[w])
  /\ pc' = [pc EXCEPT ![w] = "failing"]
  /\ terminal' = [terminal EXCEPT ![w] = attempts[held[w]] > MaxAttempts]
  /\ UNCHANGED <<rows, held, stale, grant, second, overran, crashes>>

(* The handler raised: fail_job reads attempts of the row it owns ...      *)
FailJobRead(w) ==
  /\ pc[w] = "working"
  /\ Owns(w, held[w])
  /\ pc' = [pc EXCEPT ![w] = "failing"]
  /\ terminal' = [terminal EXCEPT ![w] = attempts[held[w]] >= MaxAttempts]
  /\ UNCHANGED <<rows, held, stale, grant, second, overran, crashes>>

(* ... and then updates it WHERE id = ?, whoever owns it by now.           *)
FailJobWrite(w) ==
  /\ pc[w] = "failing"
  /\ Release(held[w], IF terminal[w] THEN "failed" ELSE "pending")
  /\ available' = [available EXCEPT ![held[w]] = RetryDelay]
  /\ GoTo(w, "idle")
  /\ UNCHANGED <<second, overran, crashes>>

(* Either call on a row it no longer owns raises "Worker does not own      *)
(* runtime job", which nobody catches: the process ends.                   *)
LoseLease(w) ==
  /\ pc[w] = "working"
  /\ ~Owns(w, held[w])
  /\ GoTo(w, "dead")
  /\ UNCHANGED <<rows, second, overran, crashes>>

-----------------------------------------------------------------------------
(* The process is killed between two transactions. *)
Crash(w) ==
  /\ pc[w] # "dead"
  /\ crashes < MaxCrashes
  /\ crashes' = crashes + 1
  /\ GoTo(w, "dead")
  /\ UNCHANGED <<rows, second, overran>>

(* The operator starts the process again. *)
Restart(w) ==
  /\ pc[w] = "dead"
  /\ GoTo(w, "idle")
  /\ UNCHANGED <<rows, second, overran, crashes>>

Elapse(s) == IF s > -BusyTimeout THEN s - 1 ELSE s

(* A second passes.  Nobody waits for the write lock beyond BusyTimeout. *)
Tick ==
  /\ \A w \in Workers : pc[w] = "claiming" => stale[w] < BusyTimeout
  /\ lease' = [j \in Jobs |-> IF status[j] = "running" THEN Elapse(lease[j]) ELSE lease[j]]
  /\ available' = [j \in Jobs |->
                     IF status[j] = "absent" THEN available[j] ELSE Elapse(available[j])]
  /\ stale' = [w \in Workers |-> IF pc[w] = "claiming" THEN stale[w] + 1 ELSE stale[w]]
  /\ grant' = [w \in Workers |-> IF InHandler(w) THEN Elapse(grant[w]) ELSE grant[w]]
  /\ second' = IF \E j \in Jobs : status[j] # "absent" /\ created[j] = second
                 THEN second + 1 ELSE second
  /\ overran' = (overran \/ \E w \in Workers : InHandler(w) /\ grant[w] <= 1)
  /\ UNCHANGED <<status, attempts, owner, created, pc, held, terminal, crashes>>

-----------------------------------------------------------------------------
\* What a running process does by itself.
WorkerStep(w) ==
  \/ BeginClaim(w)  \/ ClaimJob(w)    \/ ClaimNothing(w) \/ ClaimTimesOut(w)
  \/ CompleteJob(w) \/ FailJobRead(w) \/ FailJobWrite(w) \/ LoseLease(w)

Next ==
  \/ \E j \in Jobs : EnqueueJob(j)
  \/ \E w \in Workers : WorkerStep(w) \/ Crash(w) \/ Restart(w)
  \/ Tick

Spec == Init /\ [][Next]_vars

(***************************************************************************)
(* Time passes, a live process keeps running its loop, and the operator    *)
(* keeps workers running (README.md: one or more workers must be kept      *)
(* running in production).  Write transactions are short, so a worker that *)
(* asks for the write lock again and again gets it in the end.             *)
(***************************************************************************)
Fairness ==
  /\ WF_vars(Tick)
  /\ \A w \in Workers : /\ WF_vars(WorkerStep(w))
                        /\ SF_vars(ClaimJob(w) \/ ClaimNothing(w))
                        /\ WF_vars(Restart(w))

FairSpec == Spec /\ Fairness

-----------------------------------------------------------------------------
(***************************************************************************)
(* Properties                                                              *)
(***************************************************************************)

\* lease_owner is set exactly while a row is running.
OwnerIffRunning ==
  \A j \in Jobs : (status[j] = "running") <=> (owner[j] # NoWorker)

\* As long as every handler returns within its lease, a job is in the hands of
\* at most one worker at a time, however processes crash and clocks lag: a
\* claim never hands out a job whose handler is still running.
SoleHandler ==
  ~overran =>
    \A v, w \in Workers :
      InHandler(v) /\ InHandler(w) /\ held[v] = held[w] => v = w

\* Under the same condition a worker that reports a failure still owns the
\* row when the second statement of fail_job runs, so it never overwrites
\* another worker's lease or a finished row.
FailWriteIsOwned ==
  ~overran => \A w \in Workers : pc[w] = "failing" => Owns(w, held[w])

\* Under the same condition no row is left pending with all attempts used,
\* a state from which claim_job never takes it again.
PendingIsClaimable ==
  ~overran => \A j \in Jobs : status[j] = "pending" => attempts[j] < MaxAttempts

\* A job is given up only after its last attempt, even when leases overlap.
FailedOnlyWhenSpent ==
  \A j \in Jobs : status[j] = "failed" => attempts[j] = MaxAttempts

\* A running row changes hands only after the lease it was given has run out,
\* although the claiming worker compares it with an old clock reading.
NoEarlySteal ==
  [][\A j \in Jobs :
       status[j] = "running" /\ status'[j] = "running"
         /\ owner'[j] # owner[j]
       => lease[j] <= 0]_vars

\* A row that may still be claimed does not wait for ever: it is completed,
\* given up or at least started until its attempts are used.
JobsSettle ==
  \A j \in Jobs :
    (status[j] \in {"pending", "running"} /\ attempts[j] < MaxAttempts)
      ~> (status[j] \in {"completed", "failed"} \/ attempts[j] = MaxAttempts)

=============================================================================
