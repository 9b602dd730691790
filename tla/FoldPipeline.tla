---------------------------- MODULE FoldPipeline ----------------------------
(***************************************************************************)
(* Incremental folding of one session: fold_l1 turns the messages (L0)     *)
(* after a checkpoint into a context capsule (L1), extract_l2 the capsules *)
(* after another checkpoint into atoms (L2), index_embeddings gives the    *)
(* oldest memories without one an embedding, and each stage queues the     *)
(* next.                                                                   *)
(*                                                                         *)
(* Every message has a fold_l1 job of its own, so several workers fold the *)
(* same session at once.  A handler is a sequence of SQLite transactions   *)
(* with a model call in the middle; nothing holds the session meanwhile.   *)
(* The queue is JobQueue reduced to what it guarantees as long as handlers *)
(* return within their leases: a job has one handler at a time and is      *)
(* claimed again after its handler has died or raised, while it has        *)
(* attempts left.                                                          *)
(***************************************************************************)
EXTENDS Integers, FiniteSets

CONSTANTS
  Messages,    \* L0 messages of the session
  Content,     \* the content hash of each
  Facts,       \* texts of L2 atoms (a type and a statement)
  Workers,
  NoJob,
  BatchSize,    \* L0 messages per capsule
  ExtractLimit, \* capsules per extraction (100)
  IndexLimit,   \* memories per indexing (100)
  ListLimit,    \* memories looked at by an indexing (1000)
  MaxAttempts,
  MaxCrashes,  \* bound on the number of killed workers
  MaxRaises    \* bound on the number of handlers that raise

\* stable_id("l1", scope, session, content hashes of the batch).
CapsuleIds == UNION {[1..n -> {Content[m] : m \in Messages}] : n \in 1..BatchSize}

ASSUME FoldPipelineAssumption ==
  /\ IsFiniteSet(Messages)
  /\ Content \in [Messages -> {Content[m] : m \in Messages}]
  /\ BatchSize \in Nat \ {0} /\ ExtractLimit \in Nat \ {0}
  /\ IndexLimit \in Nat \ {0} /\ ListLimit \in Nat \ {0}
  /\ MaxAttempts \in Nat \ {0}
  /\ MaxCrashes \in Nat
  /\ MaxRaises \in Nat

\* stable_id("l2", capsule, type, text).
AtomIds == CapsuleIds \X Facts

\* A job is known by its type and dedupe key.
FoldJobs    == {"fold_l1"} \X Messages
ExtractJobs == {"extract_l2"} \X CapsuleIds
IndexJobs   == {"index_embeddings"} \X AtomIds
Jobs        == FoldJobs \cup ExtractJobs \cup IndexJobs

VARIABLES
  \* memory_units: rowids (0: no such row), shared by all layers
  top,        \* the largest rowid so far
  l0Row, l1Row, l2Row,
  evidence,   \* evidence_refs of each capsule
  described,  \* l1_context_capsules
  indexed,    \* rows with an embedding of their present text
  \* checkpoints
  l1Cursor, l2Cursor,
  \* runtime_jobs
  status, attempts,
  \* the workers
  pc, job,
  cursor,     \* the checkpoint read
  batch,      \* fold_l1: the messages read
  capsules,   \* extract_l2: the capsules not gone through yet,
  found,      \* the facts of the first of them not handled yet,
  created,    \* and the last atom stored (none or one)
  targets,    \* index_embeddings: rows whose embedding is not written yet
  \* history
  extracted,  \* capsules extract_l2 has gone through
  rewritten,  \* rows stored again with another text
  crashes, raises,
  cut         \* has a handler ended between its writes and the next stage's job?

tables  == <<top, l0Row, l1Row, l2Row, evidence, described, indexed>>
cursors == <<l1Cursor, l2Cursor>>
queue   == <<status, attempts>>
locals  == <<job, cursor, batch, capsules, found, created, targets>>
history == <<extracted, rewritten, crashes, raises, cut>>
vars    == <<tables, cursors, queue, pc, locals, history>>

FoldPC    == {"fold.read", "fold.select", "fold.capsule", "fold.describe",
              "fold.checkpoint", "fold.enqueue"}
ExtractPC == {"extract.read", "extract.select", "extract.ask", "extract.find",
              "extract.put", "extract.checkpoint", "extract.enqueue"}
IndexPC   == {"index.list", "index.put"}
JobStatus == {"absent", "pending", "running", "completed", "failed"}

TypeOK ==
  /\ top \in Nat
  /\ l0Row \in [Messages -> 0..top]
  /\ l1Row \in [CapsuleIds -> 0..top]
  /\ evidence \in [CapsuleIds -> SUBSET Messages]
  /\ described \subseteq CapsuleIds
  /\ l2Row \in [AtomIds -> 0..top]
  /\ indexed \subseteq 1..top /\ rewritten \subseteq 1..top
  /\ l1Cursor \in 0..top /\ l2Cursor \in 0..top
  /\ status \in [Jobs -> JobStatus]
  /\ attempts \in [Jobs -> 0..MaxAttempts]
  /\ pc \in [Workers -> {"idle", "complete"} \cup FoldPC \cup ExtractPC \cup IndexPC]
  /\ job \in [Workers -> Jobs \cup {NoJob}]
  /\ cursor \in [Workers -> 0..top]
  /\ batch \in [Workers -> SUBSET Messages]
  /\ capsules \in [Workers -> SUBSET CapsuleIds]
  /\ found \in [Workers -> SUBSET Facts]
  /\ created \in [Workers -> {{}} \cup {{a} : a \in AtomIds}]
  /\ targets \in [Workers -> SUBSET (1..top)]
  /\ extracted \subseteq CapsuleIds
  /\ crashes \in 0..MaxCrashes /\ raises \in 0..MaxRaises
  /\ cut \in BOOLEAN

Init ==
  /\ top = 0
  /\ l0Row = [m \in Messages |-> 0]
  /\ l1Row = [k \in CapsuleIds |-> 0]
  /\ evidence = [k \in CapsuleIds |-> {}]
  /\ described = {}
  /\ l2Row = [a \in AtomIds |-> 0] /\ indexed = {}
  /\ l1Cursor = 0 /\ l2Cursor = 0
  /\ status = [j \in Jobs |-> "absent"]
  /\ attempts = [j \in Jobs |-> 0]
  /\ pc = [w \in Workers |-> "idle"]
  /\ job = [w \in Workers |-> NoJob]
  /\ cursor = [w \in Workers |-> 0]
  /\ batch = [w \in Workers |-> {}]
  /\ capsules = [w \in Workers |-> {}]
  /\ found = [w \in Workers |-> {}]
  /\ created = [w \in Workers |-> {}]
  /\ targets = [w \in Workers |-> {}]
  /\ extracted = {} /\ rewritten = {} /\ crashes = 0 /\ raises = 0 /\ cut = FALSE

-----------------------------------------------------------------------------
GoTo(w, l) == pc' = [pc EXCEPT ![w] = l]

\* Rowids of S that come after c, the first n of them (ORDER BY rowid LIMIT n).
After(S, row, c) == {x \in S : row[x] > c}
FirstN(S, row, n) == {x \in S : Cardinality({y \in S : row[y] <= row[x]}) <= n}

\* The id of the capsule of a batch: the contents in the order of the rows.
CapsuleId(B) ==
  [i \in 1..Cardinality(B) |->
     Content[CHOOSE m \in B : Cardinality({n \in B : l0Row[n] <= l0Row[m]}) = i]]

\* INSERT ... ON CONFLICT(scope, job_type, dedupe_key) DO NOTHING.
Enqueue(j) == status' = IF status[j] = "absent" THEN [status EXCEPT ![j] = "pending"] ELSE status

\* The worker is done with its job.
Leave(w) ==
  /\ GoTo(w, "idle")
  /\ job' = [job EXCEPT ![w] = NoJob]
  /\ cursor' = [cursor EXCEPT ![w] = 0]
  /\ batch' = [batch EXCEPT ![w] = {}]
  /\ capsules' = [capsules EXCEPT ![w] = {}]
  /\ found' = [found EXCEPT ![w] = {}]
  /\ created' = [created EXCEPT ![w] = {}]
  /\ targets' = [targets EXCEPT ![w] = {}]

LastRow(S, row) == CHOOSE r \in {row[x] : x \in S} : \A x \in S : row[x] <= r

\* _put_memory_unit: a new row at the end, or the row there is, which keeps its place
\* and may get another text, of which no embedding is.
PutRow(row, x) ==
  IF row[x] = 0
    THEN /\ top' = top + 1 /\ row' = [row EXCEPT ![x] = top + 1]
         /\ UNCHANGED <<indexed, rewritten>>
    ELSE /\ UNCHANGED <<top, row>>
         /\ \/ UNCHANGED <<indexed, rewritten>>
            \/ indexed' = indexed \ {row[x]} /\ rewritten' = rewritten \cup {row[x]}

\* The L2 atoms there are.
atoms == {a \in AtomIds : l2Row[a] # 0}

-----------------------------------------------------------------------------
(* prepare_turn or commit_turn stores a message ... *)
Capture(m) ==
  /\ l0Row[m] = 0
  /\ top' = top + 1
  /\ l0Row' = [l0Row EXCEPT ![m] = top + 1]
  /\ UNCHANGED <<l1Row, l2Row, evidence, described, indexed, cursors, queue, pc, locals, history>>

(* ... and then queues its folding. *)
QueueFold(m) ==
  /\ l0Row[m] # 0
  /\ status[<<"fold_l1", m>>] = "absent"
  /\ Enqueue(<<"fold_l1", m>>)
  /\ UNCHANGED <<tables, cursors, attempts, pc, locals, history>>

\* Faulty: never takes over the job of a dead worker.
Claim_PendingOnly(w, j) ==
  /\ pc[w] = "idle"
  /\ attempts[j] < MaxAttempts
  /\ status[j] = "pending"
  /\ status' = [status EXCEPT ![j] = "running"]
  /\ attempts' = [attempts EXCEPT ![j] = @ + 1]
  /\ job' = [job EXCEPT ![w] = j]
  /\ GoTo(w, CASE j \in FoldJobs    -> "fold.read"
               [] j \in ExtractJobs -> "extract.read"
               [] j \in IndexJobs   -> "index.list")
  /\ UNCHANGED <<tables, cursors, cursor, batch, capsules, found, created, targets, history>>

(* claim_job: a pending job, or a running one whose lease has lapsed, that *)
(* is, whose handler is gone.                                              *)
Claim(w, j) ==
  /\ pc[w] = "idle"
  /\ attempts[j] < MaxAttempts
  /\ \/ status[j] = "pending"
     \/ (status[j] = "running" /\ \A v \in Workers : job[v] # j)
  /\ status' = [status EXCEPT ![j] = "running"]
  /\ attempts' = [attempts EXCEPT ![j] = @ + 1]
  /\ job' = [job EXCEPT ![w] = j]
  /\ GoTo(w, CASE j \in FoldJobs    -> "fold.read"
               [] j \in ExtractJobs -> "extract.read"
               [] j \in IndexJobs   -> "index.list")
  /\ UNCHANGED <<tables, cursors, cursor, batch, capsules, found, created, targets, history>>

(* complete_job *)
Complete(w) ==
  /\ pc[w] = "complete"
  /\ status' = [status EXCEPT ![job[w]] = "completed"]
  /\ Leave(w)
  /\ UNCHANGED <<tables, cursors, attempts, history>>

-----------------------------------------------------------------------------
(* fold_session.  list_unprocessed_session_memories reads the checkpoint   *)
(* in one transaction ...                                                  *)
ReadL1Cursor(w) ==
  /\ pc[w] = "fold.read"
  /\ cursor' = [cursor EXCEPT ![w] = l1Cursor]
  /\ GoTo(w, "fold.select")
  /\ UNCHANGED <<tables, cursors, queue, job, batch, capsules, found, created, targets, history>>

\* Faulty: moves the checkpoint when it takes the batch.
SelectMessages_MovesCursor(w) ==
  LET B == FirstN(After(Messages, l0Row, cursor[w]), l0Row, BatchSize)
  IN  /\ pc[w] = "fold.select"
      /\ batch' = [batch EXCEPT ![w] = B]
      /\ l1Cursor' = IF B = {} THEN l1Cursor ELSE LastRow(B, l0Row)
      /\ GoTo(w, IF B = {} THEN "complete" ELSE "fold.capsule")
      /\ UNCHANGED <<tables, l2Cursor, queue, job, cursor, capsules, found, created, targets, history>>

(* ... and the messages after it in another; without any the job is done. *)
SelectMessages(w) ==
  LET B == FirstN(After(Messages, l0Row, cursor[w]), l0Row, BatchSize)
  IN  /\ pc[w] = "fold.select"
      /\ batch' = [batch EXCEPT ![w] = B]
      /\ GoTo(w, IF B = {} THEN "complete" ELSE "fold.capsule")
      /\ UNCHANGED <<tables, cursors, queue, job, cursor, capsules, found, created, targets, history>>

\* Faulty: forgets the evidence.
PutCapsule_NoEvidence(w) ==
  LET k == CapsuleId(batch[w])
  IN  /\ pc[w] = "fold.capsule"
      /\ PutRow(l1Row, k)
      /\ GoTo(w, "fold.describe")
      /\ UNCHANGED <<l0Row, l2Row, evidence, described, cursors, queue, locals,
                     extracted, crashes, raises, cut>>

(* The model has answered: put_memory_unit upserts the capsule and         *)
(* replaces its evidence.  An existing row keeps its rowid.                *)
PutCapsule(w) ==
  LET k == CapsuleId(batch[w])
  IN  /\ pc[w] = "fold.capsule"
      /\ PutRow(l1Row, k)
      /\ evidence' = [evidence EXCEPT ![k] = batch[w]]
      /\ GoTo(w, "fold.describe")
      /\ UNCHANGED <<l0Row, l2Row, described, cursors, queue, locals,
                     extracted, crashes, raises, cut>>

(* put_l1_context_capsule *)
DescribeCapsule(w) ==
  /\ pc[w] = "fold.describe"
  /\ described' = described \cup {CapsuleId(batch[w])}
  /\ GoTo(w, "fold.checkpoint")
  /\ UNCHANGED <<top, l0Row, l1Row, l2Row, evidence, indexed, cursors, queue, locals, history>>

\* Faulty: the checkpoint is the newest row, not the last one of the batch.
PutL1Cursor_Newest(w) ==
  /\ pc[w] = "fold.checkpoint"
  /\ l1Cursor' = top
  /\ GoTo(w, "fold.enqueue")
  /\ UNCHANGED <<tables, l2Cursor, queue, locals, history>>

(* put_checkpoint: whatever the checkpoint is by now. *)
PutL1Cursor(w) ==
  /\ pc[w] = "fold.checkpoint"
  /\ l1Cursor' = LastRow(batch[w], l0Row)
  /\ GoTo(w, "fold.enqueue")
  /\ UNCHANGED <<tables, l2Cursor, queue, locals, history>>

\* Faulty: one extract_l2 job for the whole session.
QueueExtract_Once(w) ==
  /\ pc[w] = "fold.enqueue"
  /\ IF \A k \in CapsuleIds : status[<<"extract_l2", k>>] = "absent"
       THEN Enqueue(<<"extract_l2", CapsuleId(batch[w])>>)
       ELSE UNCHANGED status
  /\ GoTo(w, "complete")
  /\ UNCHANGED <<tables, cursors, attempts, locals, history>>

(* process_next_job queues the extraction of the new capsule. *)
QueueExtract(w) ==
  /\ pc[w] = "fold.enqueue"
  /\ Enqueue(<<"extract_l2", CapsuleId(batch[w])>>)
  /\ GoTo(w, "complete")
  /\ UNCHANGED <<tables, cursors, attempts, locals, history>>

-----------------------------------------------------------------------------
(* extract_from_session *)
ReadL2Cursor(w) ==
  /\ pc[w] = "extract.read"
  /\ cursor' = [cursor EXCEPT ![w] = l2Cursor]
  /\ GoTo(w, "extract.select")
  /\ UNCHANGED <<tables, cursors, queue, job, batch, capsules, found, created, targets, history>>

(* next_cursor takes the place of the checkpoint read. *)
SelectCapsules(w) ==
  LET B == FirstN(After(CapsuleIds, l1Row, cursor[w]), l1Row, ExtractLimit)
  IN  /\ pc[w] = "extract.select"
      /\ capsules' = [capsules EXCEPT ![w] = B]
      /\ cursor' = [cursor EXCEPT ![w] = IF B = {} THEN @ ELSE LastRow(B, l1Row)]
      /\ GoTo(w, IF B = {} THEN "complete" ELSE "extract.ask")
      /\ UNCHANGED <<tables, cursors, queue, job, batch, found, created, targets, history>>

\* The capsule being extracted and the fact of it being handled.
Capsule(w) == CHOOSE k \in capsules[w] : \A c \in capsules[w] : l1Row[k] <= l1Row[c]
Fact(w)    == CHOOSE f \in found[w] : TRUE

\* extract_from_l1 goes on with the facts F of the capsule, or with the next one.
Advance(w, F) ==
  /\ found' = [found EXCEPT ![w] = F]
  /\ IF F # {}
       THEN /\ GoTo(w, "extract.find")
            /\ UNCHANGED <<capsules, extracted>>
       ELSE /\ GoTo(w, IF capsules[w] = {Capsule(w)} THEN "extract.checkpoint"
                                                   ELSE "extract.ask")
            /\ capsules' = [capsules EXCEPT ![w] = @ \ {Capsule(w)}]
            /\ extracted' = extracted \cup {Capsule(w)}
  /\ UNCHANGED <<l0Row, l1Row, evidence, described, cursors, queue, job, cursor, batch,
                 targets, crashes, raises, cut>>

(* The model lists the facts of a capsule. *)
AskFacts(w) ==
  /\ pc[w] = "extract.ask"
  /\ \E answer \in SUBSET Facts : Advance(w, answer)
  /\ UNCHANGED <<top, l2Row, indexed, rewritten, created>>

(* find_l2_duplicate: a fact with a text already known is passed over. *)
FindDuplicate(w) ==
  /\ pc[w] = "extract.find"
  /\ IF \E a \in atoms : a[2] = Fact(w)
       THEN /\ Advance(w, found[w] \ {Fact(w)})
            /\ UNCHANGED <<top, l2Row, indexed, rewritten, created>>
       ELSE GoTo(w, "extract.put") /\ UNCHANGED <<tables, cursors, queue, locals, history>>

(* put_l2_atom, whatever was stored since. *)
PutAtom(w) ==
  LET a == <<Capsule(w), Fact(w)>>
  IN  /\ pc[w] = "extract.put"
      /\ PutRow(l2Row, a)
      /\ created' = [created EXCEPT ![w] = {a}]
      /\ Advance(w, found[w] \ {Fact(w)})

PutL2Cursor(w) ==
  /\ pc[w] = "extract.checkpoint"
  /\ l2Cursor' = cursor[w]
  /\ GoTo(w, IF created[w] # {} THEN "extract.enqueue" ELSE "complete")
  /\ UNCHANGED <<tables, l1Cursor, queue, locals, history>>

(* index_embeddings is queued under the id of the last new atom. *)
QueueIndex(w) ==
  /\ pc[w] = "extract.enqueue"
  /\ \E a \in created[w] : Enqueue(<<"index_embeddings", a>>)
  /\ GoTo(w, "complete")
  /\ UNCHANGED <<tables, cursors, attempts, locals, history>>

\* Faulty: looks at no more memories than it may index.
ListTargets_LimitsList(w) ==
  LET T == {r \in 1..top : r <= IndexLimit /\ r <= ListLimit} \ indexed
  IN  /\ pc[w] = "index.list"
      /\ targets' = [targets EXCEPT ![w] = T]
      /\ GoTo(w, IF T = {} THEN "complete" ELSE "index.put")
      /\ UNCHANGED <<tables, cursors, queue, job, cursor, batch, capsules, found, created, history>>

(* index_missing.  list_embedding_targets: of the oldest memories of all   *)
(* layers, those without an embedding of their text, up to a limit.        *)
ListTargets(w) ==
  LET R == {r \in 1..top : r <= ListLimit} \ indexed
      T == FirstN(R, [r \in R |-> r], IndexLimit)
  IN  /\ pc[w] = "index.list"
      /\ targets' = [targets EXCEPT ![w] = T]
      /\ GoTo(w, IF T = {} THEN "complete" ELSE "index.put")
      /\ UNCHANGED <<tables, cursors, queue, job, cursor, batch, capsules, found, created, history>>

(* put_memory_embedding, once the model has answered, for one memory after *)
(* the other.  The text that was embedded may have been replaced since.    *)
PutEmbedding(w) ==
  LET r == CHOOSE x \in targets[w] : \A y \in targets[w] : x <= y
  IN  /\ pc[w] = "index.put"
      /\ \/ indexed' = indexed \cup {r}
         \/ r \in rewritten /\ indexed' = indexed \ {r}
      /\ targets' = [targets EXCEPT ![w] = @ \ {r}]
      /\ GoTo(w, IF targets[w] = {r} THEN "complete" ELSE "index.put")
      /\ UNCHANGED <<top, l0Row, l1Row, l2Row, evidence, described, cursors, queue, job, cursor,
                     batch, capsules, found, created, history>>

-----------------------------------------------------------------------------
\* What a handler has written calls for a job that it has not queued yet.
Owes(w) ==
  \/ pc[w] \in {"fold.describe", "fold.checkpoint", "fold.enqueue"}
  \/ created[w] # {} /\ pc[w] # "complete"

(* The handler raises (the model is down, the database is locked):         *)
(* fail_job.                                                               *)
Raise(w) ==
  /\ pc[w] \in FoldPC \cup ExtractPC \cup IndexPC
  /\ raises < MaxRaises
  /\ raises' = raises + 1
  /\ status' = [status EXCEPT ![job[w]] =
                  IF attempts[job[w]] >= MaxAttempts THEN "failed" ELSE "pending"]
  /\ cut' = (cut \/ Owes(w))
  /\ Leave(w)
  /\ UNCHANGED <<tables, cursors, attempts, extracted, rewritten, crashes>>

(* The worker process is killed; another one takes its place. *)
Crash(w) ==
  /\ pc[w] # "idle"
  /\ crashes < MaxCrashes
  /\ crashes' = crashes + 1
  /\ cut' = (cut \/ Owes(w))
  /\ Leave(w)
  /\ UNCHANGED <<tables, cursors, queue, extracted, rewritten, raises>>

-----------------------------------------------------------------------------
FoldStep(w) ==
  \/ ReadL1Cursor(w) \/ SelectMessages(w) \/ PutCapsule(w) \/ DescribeCapsule(w)
  \/ PutL1Cursor(w) \/ QueueExtract(w)

ExtractStep(w) ==
  \/ ReadL2Cursor(w) \/ SelectCapsules(w) \/ AskFacts(w) \/ FindDuplicate(w) \/ PutAtom(w)
  \/ PutL2Cursor(w) \/ QueueIndex(w)

IndexStep(w) == ListTargets(w) \/ PutEmbedding(w)

HandlerStep(w) == FoldStep(w) \/ ExtractStep(w) \/ IndexStep(w) \/ Complete(w)

Next ==
  \/ \E m \in Messages : Capture(m) \/ QueueFold(m)
  \/ \E w \in Workers : (\E j \in Jobs : Claim(w, j)) \/ HandlerStep(w) \/ Raise(w) \/ Crash(w)

Spec == Init /\ [][Next]_vars

(***************************************************************************)
(* A stored message gets its job (TurnProtocol), handlers return, and      *)
(* workers keep polling.  That a job is claimed in the end follows: each   *)
(* claim uses up an attempt, so the others cannot go before it for ever.   *)
(***************************************************************************)
FairSpec ==
  /\ Spec
  /\ \A m \in Messages : WF_vars(QueueFold(m))
  /\ \A w \in Workers : WF_vars(HandlerStep(w))
  /\ WF_vars(\E w \in Workers, j \in Jobs : Claim(w, j))

-----------------------------------------------------------------------------
(***************************************************************************)
(* Properties                                                              *)
(***************************************************************************)
\* The content of m is in a capsule.  Messages with different contents are covered
\* each by a reference of its own; the capsule of a batch with the same contents takes
\* the place of the references of an earlier one.
Covered(m) == \E k \in CapsuleIds : \E n \in evidence[k] : Content[n] = Content[m]

\* The checkpoints hide nothing: the content of a message that lies before the first is
\* in a capsule and a capsule before the second has been extracted, although workers
\* take overlapping batches and move the checkpoints back
\* (l1_summarizer.py:141, l2_extractor.py:73).
NothingSkipped ==
  /\ \A m \in Messages : l0Row[m] \in 1..l1Cursor => Covered(m)
  /\ \A k \in CapsuleIds : l1Row[k] \in 1..l2Cursor => k \in extracted

\* A completed fold_l1 job has the content of its message in a capsule, whichever
\* worker's batch it went with, unless more messages than a batch holds were there first
\* (l1_summarizer.py:71): those that are left wait for the job of another message.
CompletedIsCovered ==
  \A m \in Messages : status[<<"fold_l1", m>>] = "completed" =>
    \/ Covered(m)
    \/ Cardinality({n \in Messages : l0Row[n] \in 1..l0Row[m]}) > BatchSize

\* An atom keeps its provenance: its capsule exists and has evidence, the messages whose
\* contents its name lists.
AtomsHaveEvidence ==
  \A a \in atoms : l1Row[a[1]] # 0 /\ evidence[a[1]] # {}

\* Every stored message reaches a capsule, crashes and failures included, as
\* long as they do not use up the attempts of its job.
MessagesAreFolded ==
  \A m \in Messages :
    l0Row[m] # 0 ~> (Covered(m) \/ status[<<"fold_l1", m>>] = "failed")

Failed(j) == status[j] = "failed"

\* More capsules wait for extraction up to k than one job takes (l2_extractor.py:69).
ManyCapsulesBefore(k) ==
  Cardinality({c \in CapsuleIds : l1Row[c] \in (l2Cursor + 1)..l1Row[k]}) > ExtractLimit

\* Every capsule is extracted (application.py:459-469), unless a handler ends between its
\* writes and the job it should queue for them.  Even then, any extraction that is queued
\* once the capsule is there takes it along.
CapsulesFollow ==
  \A k \in CapsuleIds :
    /\ (l1Row[k] # 0 /\ status[<<"extract_l2", k>>] = "absent")
         ~> k \in extracted \/ ManyCapsulesBefore(k) \/ Failed(<<"extract_l2", k>>) \/ cut
    /\ (l1Row[k] # 0 /\ \E c \in CapsuleIds :
                          l1Row[c] >= l1Row[k] /\ status[<<"extract_l2", c>>] = "pending")
         ~> k \in extracted \/ ManyCapsulesBefore(k) \/ \E j \in ExtractJobs : Failed(j)

\* More memories wait for an embedding up to row r than one job takes (sqlite_store.py:1981).
ManyTargetsBefore(r) == Cardinality((1..r) \ indexed) > IndexLimit

\* Of the memories an indexing looks at (sqlite_store.py:1976), an atom just stored gets
\* its embedding (application.py:475-485), unless the handler ends before it queues the
\* job.  Even then, any indexing that is queued once it is there takes it along, as it does
\* the memories of the other layers; only a memory stored again meanwhile may lose its
\* embedding.
AtomsFollow ==
  \A r \in 1..ListLimit :
    /\ (\E w \in Workers : \E a \in created[w] : l2Row[a] = r /\ pc[w] # "complete")
         ~> \/ r \in indexed \cup rewritten \/ ManyTargetsBefore(r)
            \/ (\E j \in IndexJobs : Failed(j)) \/ cut
    /\ (\E a \in atoms : l2Row[a] >= r /\ status[<<"index_embeddings", a>>] = "pending")
         ~> \/ r \in indexed \cup rewritten \/ ManyTargetsBefore(r)
            \/ \E j \in IndexJobs : Failed(j)

=============================================================================
