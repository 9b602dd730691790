# ALTM in TLA+

A TLA+ model of the Autonomous Long-Term Memory System (ALTM): what its
operations do to the SQLite database, one transaction at a time, when host
processes, workers and users act at once, retry and die.  TLC checks small
instances; TLAPS proves most of the safety properties for every size.

## 1. The system

Host agents call ALTM around each turn; worker processes turn messages into
layers of memory; governance keeps, compresses or forgets them; users review what
was inferred.  All state is in one SQLite database (WAL, busy timeout), and there is
no lock other than the write lock of a transaction.  Whatever a handler does between
two transactions (model calls take seconds) can interleave with everything else.
Python's sqlite3 opens a transaction at the first write, so what an operation selects
before it is read outside of it.

| Component | State | Operations | Talks to | Correct when | Module |
|---|---|---|---|---|---|
| job queue (`sqlite_store.py`, `application.process_next_job`, `cli.py worker`) | `runtime_jobs`: status, attempts, lease, available_at | enqueue, claim, complete, fail | called by turns and handlers | one handler per job; nothing lost, nothing retried for ever | JobQueue, proved |
| turn protocol (`application.py`, `l0_recorder.py`, `sqlite_store.py`) | L0 rows, `runtime_cycles`, `lifecycle_events` | prepare, commit, abort, physical deletion | recall, queue | each turn is prepared once and ended once; signals once | TurnProtocol, TurnCycle, proved |
| host plugin (`adapters/deepseek-harness`, `adapters/typescript`) | pending turn, operations under way, cached provider | hooks around a host turn, settlement, unloading | turn protocol | the cycle ends as the turn did; nothing is left prepared | HostTurn, proved |
| folding L0-L2 (`l1_summarizer.py`, `l2_extractor.py`) | L1/L2 rows, evidence, checkpoints | fold_l1, extract_l2, index_embeddings | queue, model | no message or capsule skipped, evidence kept | FoldPipeline, proved |
| scenes and personas (`l3_semantic.py`, `l4_semantic.py`, `scene.py`, `persona.py`) | `l3_scenes`, `l4_persona_facets`, `l4_persona_history` | distill, observe, activate, supersede | queue, model, lifecycle | one current facet per key, earned activation | SemanticLayers, proved |
| lifecycle (`governor.py`, `compression.py`, `retention.py`) | status, state, tier, streaks, CCR originals | govern, compress, rescue, expire, pin, delete | queue, CCR | reversible compression, earned transitions, final deletions | MemoryLifecycle (one memory of L1 to L4), proved |
| semantic merge (`semantic_dedup.py`, `autonomous.py`, `sqlite_store.py`) | edges between duplicates, `superseded_by`, snapshots for rollback | mark, judge, merge, roll back, review | L2 rows, graph, review, retention | no fact loses all its copies, a merge can be undone exactly, decisions of users stand | SemanticMerge, proved |
| autonomous L3/L4, rule-based builders, review (`autonomous.py`, `l3_scene.py`, `l4_persona.py`, `cross_session.py`, `review/*`) | candidates, scenes and personas the engine creates, edges, review marks, log | build, judge, create, roll back, queue, plan, confirm, apply | model, lifecycle, graph | a candidate is vouched for; rollback and verdicts stand; the log is complete | CandidateGovernance, proved |
| retrieval and context (`retrieval/*`, `recall_policy.py`, `context/*`, `ccr/*`) | CCR entries; the rest is local to a request | search channels, fusion, active window, packing, compression, drill-down | store | only what is visible; within the budget; originals kept | ContextAssembly, proved |
| graph extraction (`graph_extractor.py`) | nodes, edges | extract | queue, model | edges keep their evidence | - |
| hermes and openclaw adapters | pending turns per session | prepare, commit | turn protocol | each prepared turn is ended | - |
| MCP server, auth, CLI, config, LLM clients, contracts, evaluation, stack scripts | none, or outside the database | forward, parse, call | everything | - | - (worker loop and restarts: JobQueue) |

`PROJECT.json` lists every component with its reason, and under `hazards` the
places where the code is hard to test, each with the properties that watch it.

## 2. Modules

    JobQueue ------------- JobQueueProofs              MCJobQueue
    TurnProtocol --------- TurnProtocolProofs          MCTurnProtocol
        | implements
    TurnCycle
        | used as the runtime by
    HostTurn ------------- HostTurnProofs              MCHostTurn
    FoldPipeline --------- FoldPipelineProofs          MCFoldPipeline
    SemanticLayers ------- SemanticLayersProofs        MCSemanticLayers
    MemoryLifecycle ------ MemoryLifecycleProofs       MCMemoryLifecycle
    SemanticMerge --------+                            MCSemanticMerge
                          +-- MergeAndContextProofs
    ContextAssembly ------+                            MCContextAssembly
    CandidateGovernance -- CandidateGovernanceProofs   MCCandidateGovernance

An action is one SQLite transaction (or one statement, where the code opens no
transaction) together with the local work up to the next one; a program counter
per process says which comes next.  Operators named `X_Something` and marked
`Faulty:` are wrong versions of `X`; no specification uses them.  They record,
for each property, a plausible slip in the code that the property detects.

### JobQueue

Rows of `runtime_jobs` as one function per column, workers as `pc`, `held`, the
age of their clock reading (`stale`) and what is left of their lease (`grant`).
`BeginClaim` reads the clock, `ClaimJob` is the `BEGIN IMMEDIATE` transaction
that may come up to `BusyTimeout` later; `FailJobRead` and `FailJobWrite` are the
two statements of `fail_job`.  Time stamps are stored as seconds left, which
keeps the state finite without bounding time.  `overran` remembers that some
handler outlived its lease: the guarantees about sole handlers hold until then,
and the code offers no more (leases are not renewed).

### TurnProtocol and TurnCycle

One turn id, any number of calls.  `prepare_turn` is `BeginPrepare`, `CheckL0`,
`WriteL0`, `BuildContext`, then `InsertCycle`, `ReuseCycle` or `RejectPrepare`,
and `EnqueueFold`; `commit_turn` is `BeginCommit`, then `CommitCycle`,
`RepeatCommit` or `RejectCommit`, and `EnqueueFold`.  Each call brings its own
message id and text, so retries, conflicting retries and different clients are
all included.  `TurnCycle` is the abstract specification: prepared, committed,
aborted, forgotten, each in one step.  The refinement mapping reads the row:
`phase <- status`, `said <- userText`, and so on (`Cycle` in TurnProtocol).
`lost` remembers the messages whose call was accepted and died before it queued them.

### HostTurn

One turn of a DeepSeek Harness session.  Its runtime is `TurnCycle`, taken with
INSTANCE: what TurnProtocol implements is what HostTurn relies on.  The consumer's
pre-step hook, `settleTurn` and the finalizer each run from one await to the next and
wait for operations (`task`); the provider sends a request per attempt (`Send`,
`Retry`) and gives up at its deadline.  `wire` holds the requests the runtime has not
served; nothing is taken out of it when the client stops waiting, so a request may
be served late, after its repetition, or never.  `Reload` replaces the provider,
`Unload` and the finalizer are the disposal of the consumer.  `unknown` and `spoilt`
record operations that were given up: their outcome is not known to anybody.

### FoldPipeline

One session.  Rowids come from one counter, as in SQLite; the two checkpoints
are rowids.  `fold_l1` is read checkpoint, select, capsule, describe, checkpoint,
enqueue; `extract_l2` likewise with a loop over capsules and the facts of each,
looked up and stored in separate transactions.  `index_embeddings` lists the first
`ListLimit` rows without an embedding (`ListTargets`), takes the first `IndexLimit` of
them, and puts one embedding at a time (`PutEmbedding`); it queues no further job for
what it leaves.  A row that is stored again loses its embedding (`PutRow`, `rewritten`).
The queue is JobQueue reduced to what is proved there: one handler at a time, a dead
handler's job is claimed again while it has attempts.  A capsule is named by the contents
it was made from, as `stable_id` does, so two batches with equal contents are one capsule:
the later one replaces the row and its evidence.  `Covered` therefore asks for the
content of a message in a capsule, not for the message itself.

### SemanticLayers

Scenes and persona facets with their two rows each (`memory`, the typed `card`) and
the history table.  A worker is in one job: `SceneJob` (build: find the scene, ask,
store; then advance), `DistillJob` (per answer: the current facets of the key, the
model's judgement on a contradiction, store, observe or supersede), `AdvanceJob`
(list, then a read and a write per facet) and `LifecycleJob`, reduced to the writes
that give a memory another status.  `Stop` ends a worker at any step.  Answers are
arbitrary subsets of the evidence; observation counts saturate at what the policies
ask for.

### MemoryLifecycle

One memory of L1 to L4.  `row` holds the columns, `copy[a]` the snapshot an actor
works on, and `Put` is `put_memory_unit`: an upsert of the whole copy.  The
lifecycle job is `GovernRead`, `GovernWrite`, `ListMemory`, `Examine`, then
`Rescue`, `Expire` or `Compress`; `pin_memory` is `PinRead`, `PinWrite`,
`PinConfirm`.  `UsefulSignal`, `Tombstone` and `Purge` change the row in place.
Scores are floating point and depend on the clock, so any of the four bands
that the thresholds tell apart may come out of a cycle; evidence quality,
conflicts and budget pressure are free choices too.  Texts are "original" or
"rendering", and a CCR marker is named by the text it hashes.  Permanent
memories, which governance never moves, are left out.

### SemanticMerge

The L2 atoms and the edges between similar ones.  A run (`Governors`) is
`BeginRun` (the candidates), one `Mark` per edge, `Judge` (which edges are
executed, and `component_canonical_ids`), then per candidate `Resolve`, which
skips it (`Refused`) or chooses a merge of two roots, and `MergeRead` with
`MergeWrite` or `MergeRefuse`.  A user's rollback, edge review and atom review are a
read and a write each, `Forget` one transaction.  Every write is a row, or the whole
metadata of an edge, as it was read.  `put_memory_graph_edge` writes its nodes first,
so `Mark` is one step.

`row` holds what merges read and write: alive or not, `superseded_by`,
`merged_duplicate_ids`, the review status.  `edge` holds the marks and the snapshot
(`prevCanon`, `prevDup`) that a rollback writes back.  Similarities are sets of
pairs: `Similar` (candidates), `Strong` (above the thresholds of merging) and
`Compatible` (no contradiction between the texts, no guarded atom type).  Scores
change with every access, so any live root of a component may become its canonical
atom.  The modes of `AltmApplication.semantic_dedup`, which ask for reviewed atoms
and may keep duplicates active, are in the module and the proofs; the run starts
the autonomous engine's.  Simplified: the SELECTs of one operation are one step, and
atoms are not deleted physically.

The properties hold up to the first write from an outdated copy: `stale` says
whether that has happened and whether a merge or the review of an atom did it.
`undo`, `verdict` and `barred` are histories: the rows a merge found, what users
decided, and what they had decided when a run began.

### CandidateGovernance

What is decided about one L3 or L4 memory, of one of four kinds: made by a rule-based
builder or by the autonomous engine, as a scene or as a persona.  `Review` is the
queue, marks, plans (named by item and verdict, as their ids are), single application
with its two confirmations, and batches; `Engine` the autonomous cycle with its
candidate edge, and the rollback; `BuildScene`, `BuildPersona`, `FindEdge` what a
rebuild writes over rows that exist; `GovernRead` and `GovernWrite` the lifecycle job.
Every call is a process that reads, then writes whole rows, then logs.  `overtaken`
says that a row was changed between a read and the write that followed from it;
`said`, `approved`, `promoted`, `revived`, `rolled`, `done` and `cut` are histories.

### ContextAssembly

One `build_context` after another.  The scan channels filter the copies they return;
the text index is searched and its hits are fetched by id afterwards on another
connection (`Select`, `Fetch`), so a row may change in between.  `Rank` is the
reciprocal rank fusion and scoring, `Window` adds what the active window lists,
`Pack` takes one candidate into the budget, with `ClipTokens` (the binary search for
a prefix) and the CCR entry behind the marker, `PackFails` is the entry of a memory
that was purged meanwhile.  `Write`, `Purge` and `CompressElsewhere` are other
processes at any moment.  `visible` collects what the session could see at some moment
of the request.  Which ranking the recall returns is said by what it is, the first
`RecallLimit` memories in the order of scores and ids (`Recalled`), rather than by a
sort.  The specification is called `AssemblySpec`, and its parts likewise, because one
module proves theorems about it and about SemanticMerge.

## 3. Runs

| Run | Instance | Distinct states | Properties |
|---|---|---|---|
| jobqueue | 2 jobs, 2 workers, 2 attempts, lease 2 s, retry 1 s, busy 1 s, 1 crash | 159 thousand | `SoleHandler`, `FailWriteIsOwned`, `PendingIsClaimable`, `NoEarlySteal`, `JobsSettle` |
| turn | 2 calls, 2 user messages, 1 reply, 2 texts, 1 memory, 1 crash, 1 deletion | 2.19 million | `TurnIsWhole`, `SignalsMatchCycle`, `AcceptedCallStands`, `TurnIsQueued`, `RepliesAppendOnly`, `ImplementsTurnCycle` |
| host_turn | 2 pre-steps, 2 attempts, 1 reload, 1 text | 448 thousand | `EndMatchesTurn`, `NothingLeftPrepared`, `DisposalEnds` |
| fold | 2 messages, 1 fact, 2 workers, batches of 2, extractions of 1 capsule, indexings of 1 memory, 1 crash, 1 exception, 2 attempts | 2.33 million | `NothingSkipped`, `CompletedIsCovered`, `AtomsHaveEvidence` |
| fold_live | 2 messages, 2 facts, 1 worker, batches of 1, extractions of 1 capsule, indexings of 3 out of the first 5 memories, 1 crash, 2 attempts | 87 thousand | `MessagesAreFolded`, `CapsulesFollow`, `AtomsFollow` |
| semantic_layers | 1 scene, 2 versions of a facet, 3 atoms, 2 workers, 3 answers, 1 governance write, 1 deletion | 674 thousand | `ActiveIsEarned`, `OneCurrentVersion`, `SupersededIsHidden` |
| memory | 1 worker, streaks of 2, 2 signals, 1 crash, both deletions, tiers due after 1, 1, 2, 2 cycles | 756 thousand | `TransitionsAreEarned`, `UsefulIsNotDropped`, `ForgottenFades` |
| memory_shared | 1 worker and 1 user writing one row, 1 signal, tiers 0 to 2 | 754 thousand | `CompressionIsReversible`, `FeedbackIsKept` |
| semantic_merge | 3 atoms in a chain of 2 similar pairs, 2 runs by 2 governors, 2 requests of 1 user, autonomous mode | 500 thousand | `MergedIsRepresented`, `MergeIsReversible`, `UndoIsExact`, `VerdictStands` |
| candidate_governance | each of the 4 kinds, 2 callers, 5 calls, 1 call cut short | 1.57 million | `LogMatchesWrites`, `ActiveIsVouchedFor`, `VerdictHolds`, `RollbackHolds` |
| context | 3 memories (an atom of the session, a persona and a capsule of other sessions), 2 texts, 2 channels, budgets of 1 and 2, 5 tokenizers, 1 write | 1.10 million | `OnlyVisibleIsRecalled`, `MarkersStand`, `PackedInOrder`, `ClipIsLongest` |
| memory_tombstone | 1 worker, 1 tombstone, no overlap of writers needed | fails | `TombstoneIsFinal`: the lifecycle job lists a tombstoned memory and compresses it, which makes it visible to recall again (`findings` quotes the release gate it breaks) |

What each run shows is its `about` in `PROJECT.json`.

Why the bounds are enough.  The interesting orders need two actors: a second
claimer, a second caller, a second folder, a second writer of whole rows.  Two
jobs let the order of claims matter; two attempts make one of them the last; two
messages give batches that overlap, contain one another or are disjoint; one crash
is placed at every point; leases of two seconds leave room for a claim that is late
by the busy timeout.  Streaks of two cycles distinguish "consecutive" from "in
total".  `memory_shared` stops at the third tier, because the tier plays no part in
which text a marker leads to, and its view leaves out a history that no action
reads and its invariants do not mention; that two lifecycle jobs may run at once is
covered by the proof.  In `fold` and `fold_live` all messages differ; equal contents are
covered by the proofs and by the larger instance below.  Batches of two hold everything
there is, batches of one leave a message behind, and every limit of an extraction or an
indexing is below what there is to do: two messages make two capsules and up to four
atoms, eight rows in all.  A chain of three atoms is the least in which a canonical
atom is itself merged and roots are two steps away; two runs and a user's two
requests let every pair of operations overlap.  Two versions of a facet are replaced
by each other back and forth; three atoms give evidence that overlaps and sessions
that differ.  Five calls are a candidate made, marked, planned, applied and made
again, with another caller overtaking anywhere.  One request to the runtime may be
repeated, given up and overtaken by its repetition with two attempts; the second
pre-step is the one that meets a pending turn.  In `context` a second memory makes
the ranking, the second text a revision between two reads, budgets of one and two
tokens a candidate that fits, one that is clipped and one that has no room; the
five tokenizers differ in what a longer text costs, and two of them count it as fewer
tokens.  Workers, callers and texts are
interchangeable, hence the symmetries.  Deadlock is not checked where the system may
come to rest: all messages folded, all attempts, calls or requests spent, or the one
memory physically deleted.

Larger instances were checked once and left out for their time: FoldPipeline with
three messages of which two have the same content, 2 workers, batches of 2 and no crash
(4.64 million states); HostTurn with 2 texts (1.21
million); ContextAssembly with 2 memories and 2 writes (3.12 million).

## 4. Other consequences of the code

The models show these in their states and the properties allow for them; each was read
in the source and none needs an unusual schedule.

Queue and turns:

- A job whose process dies in its last attempt stays running for ever
  (`claim_job` asks for an attempt left; `JobsSettle` counts it as used up).
- `fail_job` checks the owner and updates in two statements (sqlite_store.py:1770):
  a worker whose lease lapses between them fails the job of its successor.
- The message, the context and the cycle of a turn are stored in separate
  transactions, and the folding job after the commit; README.md:200 and
  docs/agent-runtime-protocol.md:82-88 speak of one.  A call that dies in between leaves a
  user message without a cycle, or a turn that no job folds until it is retried (`lost`).
- Two prepares with one message id may both find no L0 row and overwrite each other
  (sqlite_store.py:675), although docs/agent-runtime-protocol.md:56 has L0 append-only.
- A repeated commit compares the list of citations in order, and not the message
  id: the same set in another order is a conflict, and under another
  assistant_message_id the call is accepted although no such message is written.

Host adapters:

- A prepare that the client gave up but the runtime serves later leaves a prepared
  cycle that nobody aborts (`unknown`); so does a crash of the harness.
- The cycle id is derived from session and turn.  When the provider is reloaded between
  two pre-steps of one turn, the abort of the replaced pending turn hits the very same
  cycle, and the reply is lost.
- OpenClaw and Hermes never call `abort_turn`, which docs/agent-runtime-protocol.md:112
  asks of hosts.  OpenClaw keys pending turns by session, so overlapping runs commit into
  another run's cycle; Hermes without a turn_id commits the reply of a run whose prepare
  failed into the cycle before.

Folding:

- A crash after a stage's writes and before the next stage is queued loses the job of that
  stage (application.py:461; the invariants of docs/agent-runtime-protocol.md:122 expect
  every stage).  `cut` remembers it; what was written waits for the next extraction or
  indexing of the session, which the second parts of `CapsulesFollow` and `AtomsFollow`
  show to take it along.
- Two workers may take the same full batch; both jobs are completed then, and the
  messages after the batch wait for the job of a later message (l1_summarizer.py:52, 71).
- A capsule id hashes the contents of its batch, not the ids of the messages: a later
  batch with the same contents takes over the row and replaces the evidence of the
  earlier one, although the checkpoint has passed both (l1_summarizer.py:172).  The
  content stays in a capsule (`Covered`), the reference to the earlier messages does not.
- `find_l2_duplicate` and `put_l2_atom` are separate transactions, so two workers store
  one fact twice (sqlite_store.py:2307); semantic merge may join them later.
- `index_embeddings` looks at the oldest 1000 memories, with or without an embedding, embeds
  at most 100 of those that need it and queues no continuation (application.py:501,
  sqlite_store.py:1970-1983): what one job leaves waits for another, and a memory beyond
  the oldest 1000 never gets an embedding.  `AtomsFollow` speaks of the rows the list
  reaches and allows for more targets than one job takes.
- The embedding of an atom or a capsule that is stored again with another text no longer
  counts, and a job with the same dedupe key is not queued again.

Lifecycle and merges:

- A whole-row write undoes a citation that came after its read, and brings a
  memory back that was physically deleted since (`FeedbackIsKept` holds until the
  first such write, `stale` says when it is).
- A tombstoned memory is scored, demoted, compressed and rescued like any other, because
  `list_memory_units` leaves out only deleted rows (sqlite_store.py:820); the run
  `memory_tombstone` shows it, and that nobody has to write from an outdated copy for it.
- `pin_memory` writes the flag and its confirmation in two transactions
  (application.py:645).
- Rolling a merge back writes both rows as they were before it, without looking at
  what came after: a later merge into the same canonical atom disappears from its
  `merged_duplicate_ids`, an atom that a user deleted meanwhile is active again, and
  a second rollback of the same edge does it all once more.
- `component_requires_direct_canonical_edge` compares roots, not atoms: in a chain
  A-B-C, once B is merged into A, the edge B-C merges C into A without an edge A-C.
- A review of an edge that overlaps the merge or the rollback of that edge writes its
  metadata back without the snapshot, or with the one that was used
  (sqlite_store.py:2891).  A verdict that comes while a run is under way may be too late
  for that run.
- A review of an atom that overlaps a merge writes the whole row back: the merged
  duplicate is active again, or an atom that others were merged into is dead
  (`MergedIsRepresented` excludes this case, by `stale`).

Scenes, personas, candidates:

- A supersession stores its new facet as active at once, without the observation that
  docs/agent-runtime-protocol.md:149-151 describes.
- `l4_persona_history` has a primary key without a time (sqlite_store.py:1163, 1250):
  once a key went A, B, A, the second replacement of A by B raises, in every later job.
- A facet that a user tombstoned is active again when it is observed often enough
  (persona.py:40), and a synthesis that reaches a facet again drops its SUPERSEDES
  evidence.
- A rebuild overwrites a reviewed, rejected or tombstoned candidate with a fresh
  observing row.  `governance_review_status` is one column shared by all items of a
  memory, and the lifecycle job does not look at it.
- Plan ids are a function of item and action: a batch skips a candidate that is approved
  a second time, for ever.  `list_review_events` orders by time ascending with a limit,
  so beyond 5000 events the newest are not seen.
- A plan that was built before the row changed is applied all the same, as a whole-row
  write (apply.py:174): it activates what was marked otherwise or tombstoned since, and
  re-inserts what was purged.  `MARK_OBSERVING` and demotions revive tombstoned and
  rolled-back memories.
- A persona of the autonomous engine that was rolled back is created active again by
  the next cycle (`RollbackHolds` speaks of scenes only).  A scene is stored before its
  edge is linked; after a crash between the two every cycle asks the judge again.
- `update_graph_edge_metadata` is a SELECT and an UPDATE outside of one transaction.

Recall:

- The marker of a memory that was compressed before retrieves the compressed text, not
  the original (README.md:29, 49).
- The active window and the local vector channel look at the oldest 1000 memories only.
- A memory purged during `build_context` makes `put_ccr_entry` raise (foreign key), and
  the whole prepare fails.
- A memory of the session's own that the review rejected is recalled all the same
  (recall_policy.py:16-34); only the active window leaves it out
  (active_window.py:235-238).
- A copy read by an early channel is delivered even if the memory was tombstoned before
  the request ended (`OnlyVisibleIsRecalled` asks for visibility at some moment of the
  request).
- With a tokenizer that counts a longer text as fewer tokens the prefix found may be
  shorter than the longest that fits (token_budget.py:97; `ClipIsLongest` says what is
  left).

## 5. Fairness

- JobQueue: time passes; a live worker keeps running its loop; the operator
  restarts workers (README.md:381 asks for workers to be kept running); write
  transactions are short, so a worker that keeps asking for the write lock gets
  it (strong fairness of the claim).
- HostTurn: timers fire and the event loop runs what can run, hence weak fairness of
  the hook, of the settlement and of the finalizer.  Neither the host nor the runtime
  has to do anything: `DisposalEnds` rests on deadlines alone.
- FoldPipeline: a stored message gets its job (TurnProtocol's `TurnIsQueued`; a host whose
  call died before that retries it), handlers
  return, and some claim is made when one is possible.  Nothing forces a handler to be
  chosen for a particular job; each claim uses up an attempt, so every job has its turn.
- MemoryLifecycle: lifecycle jobs keep coming (every turn ends in one) and time
  passes.  Signals, pins and deletions are never forced.
- TurnProtocol, SemanticLayers, SemanticMerge, CandidateGovernance, ContextAssembly:
  safety only; nothing obliges anybody to start, repeat or finish a call.

## 6. Proofs

TLAPS checks, for arbitrary constants satisfying the named assumptions (`JobQueueAssumption`
and so on, one in each module, five in ContextAssembly):

- **JobQueueProofs.** `TypeCorrect`, `SoleHandlerHolds`, `FailWriteIsOwnedHolds`,
  `PendingIsClaimableHolds`, `FailedOnlyWhenSpentHolds` and `NoEarlyStealHolds`.
  `SoleHandler` alone is not inductive: that two workers never share a job depends on
  each handler still owning its row. `IInv` says so: as long as no handler has overrun,
  a handler owns the row of its job and the lease on the row is exactly what is left of
  the worker's own grant (`HandlerOwnsRow`); a worker between the statements of
  `fail_job` has computed `terminal` from attempts that are still right
  (`TerminalIsRight`). A claim needs an expired lease even on a late clock reading, so
  it cannot meet a handler with time left.
- **TurnProtocolProofs.** `TypeCorrect`, `TurnIsWholeHolds`, `SignalsMatchCycleHolds`,
  `AcceptedCallStandsHolds`, `TurnIsQueuedHolds`, `RepliesAppendOnlyHolds` and
  `Refinement`, that the protocol implements `TurnCycle`. `IInv` adds what each call
  still holds at each program counter (`ArgsOK`), and which columns are set in which
  status (`RowOK`); the refinement needs it to know that a commit finds an empty answer
  and that citations are a sequence over the context. `TurnIsQueued` speaks of the
  moment when no call is left; `Queued` says of every moment before it that a message
  the turn records is queued or lost or some call is `OnTheWay` to queueing it: whoever
  finds the row as it wants it queues as well, so that the caller who wrote it need not.
- **HostTurnProofs.** `TypeCorrect`, `EndMatchesTurnHolds`, `NothingLeftPreparedHolds`
  and `HostKeepsCycle`, that the turn a host runs implements `TurnCycle`, for any number
  of pre-steps, attempts and reloads. A request may be served long after it was sent, so
  the invariant says of every operation, waited for or still on the wire, why it may be
  under way (`Justified`), and that this never ceases to hold (`Lasts`): the turn ends
  once, and the consumer is unloaded once. That nothing is left prepared needs the
  opposite, that something is under way as long as the cycle is prepared (`Accounted`):
  a cycle that the plugin has not ended is one a prepare may still report, or one the
  plugin knows of (`Learnt`) in a turn still open, or one whose end is owed by an
  operation that waits, is on the wire or is about to be retried (`Owed`, `Underway`).
- **FoldPipelineProofs.** `CheckpointsHideNothing`, `CompletedJobsCover` and
  `AtomsKeepEvidence`, for any number of messages, workers, facts, crashes and
  exceptions, any batch size and limits, and any contents: messages may be equal. `Inv`
  describes what each worker holds: a selected batch goes on without a gap from a row up
  to which everything is covered, and what it leaves out lies before that row or beyond
  a full batch (`Folding`, `Beyond`); the capsules of an extraction that are not in
  `extracted` are still in the worker's hands (`Extracting`). Rows are only added above
  all others (`Grows`), so what a worker knows stays true whatever the others do
  (`OthersKeep`), and a capsule that is stored again has evidence of the same contents,
  because a name determines the contents of its batch (`CapsuleNames`,
  `OneNameOneContent`, which rest on the ranks of rows, `Ranks`).
- **MemoryLifecycleProofs.** `TypeCorrect`, `CompressionIsReversibleHolds`,
  `FeedbackIsKeptHolds`, `TransitionsAreEarnedHolds`, `UsefulIsNotDroppedHolds`, for any
  number of workers and users and any policy. Three invariants build on each other:
  `TypeInv` (a worker about to rescue has a marker, one about to compress a tier to go
  to); `CCRInv` (until a physical deletion every version of the row, also in an actor's
  hands, is `Recoverable`, because CCR only grows and only originals enter it);
  `FreshInv` (as long as nobody wrote from an outdated copy the row agrees with the
  histories, streaks do not run ahead of the scores, and a worker about to expire saw no
  useful access since the compression).
- **MergeAndContextProofs**, first half. `TypeCorrect`, `MergeIsReversibleHolds`,
  `UndoIsExactHolds`, `VerdictStandsHolds`, `MergedIsRepresentedHolds` about
  SemanticMerge, for any number of atoms, runs and users, any similarities and all
  modes. `TypeInv` says where everybody is (two atoms to be merged differ); `KeepInv`
  that an edge with a merge, stored or in somebody's copy, has two different atoms and
  live snapshots of both, because a merge has read them alive; `FreshInv` that, as long
  as no write was outdated, undo histories equal the snapshots (`Exact`), decided edges
  look closed (`Decided`), no run holds a barred one (`Spared`), and every dead atom has
  its edge (`Reversible`). `MergedIsRepresented` follows chains of supersessions of any
  length. Its invariant says it without chains: from every set of lost atoms, neither
  live nor forgotten, some atom's way up leads out of the set (`Leads`). A step changes
  the way up of few atoms, so it is kept by looking at one set at a time. A way of N
  steps that met lost atoms only would have to visit N + 1 different ones, and there are
  N (`Crowded`). By the same count `_root_memory` returns for every atom, with the atom
  or a live one (`EveryAtomHasARoot`).
- **MergeAndContextProofs**, second half. `AssemblyTypeCorrect`,
  `OnlyVisibleIsRecalledHolds`, `MarkersStandHolds`, `PackedInOrderHolds`,
  `ClipIsLongestHolds` and `RecallIsDeterminedHolds` about ContextAssembly, for any
  memories, channels, limits, budgets, tokenizers and writers. Scores are exact
  fractions, counted in units of 1 / `Scale`, a common multiple of the divisors that the
  limit admits (`ScaleAssumption`; there is one for every limit); the code adds
  floating-point numbers, whose rounding may order memories of equal score otherwise.
  `AssemblyInv` follows a memory from the hit to the item: hits, scored memories and
  candidates are ones the session could see, and nothing is scored outside of the
  search, so a request never starts with another's scores (`SearchIsVisible`). Entries
  hold the text their marker names and have their memory, and an item has its entry
  unless its memory was purged since (`EntriesStand`); that packing a memory clears its
  purge for no other item rests on the candidates being distinct, hence on the fusion
  (`MergedIsProper`). The lemmas on the operators say what a program's loops compute,
  for every input: the elements of a sequence that are in a set, in their order
  (`WithinIsPart`), the tokens of one item more (`SpentMore`), and the longest prefix
  that fits (`SearchFits`, `SearchIsLongest`: what lies below `low` has been found and
  what lies above `high` does not fit, `OnTrack`). The fusion is modelled by what it
  returns; that of a finite table it returns one ranking, no other, is
  `RecallIsDeterminedHolds` (`RecallExists`, `RecallIsUnique`).
- **SemanticLayersProofs.** `TypeCorrect`, `ActiveIsEarnedHolds`,
  `OneCurrentVersionHolds`, `SupersededIsHiddenHolds`, for any number of scenes, facets,
  versions, workers and answers. `ActiveIsEarned` speaks of the rows, but a row is
  written from copies: the invariant says of every copy in a worker's hands, however
  old, that it counts no more than happened (`Counted`, `Shown`), and what has happened
  stays (`Lasts`). The current version rests on the index alone, which is checked in the
  transaction that writes (`StoredAsCurrent`, `ReplacedByCurrent`).
- **CandidateGovernanceProofs.** `TypeCorrect`, `LogMatchesWritesHolds`,
  `ActiveIsVouchedForHolds`, `VerdictStands`, `RollbackStands`, for any number of
  callers, calls and crashes. The invariant adds what a caller knows at each place
  (`Local`: the kind of its task, that what it is about to write is still the row as
  long as nobody was overtaken, what the plan it applies was found from) and that every
  copy of the row, old ones included, is as vouched for as the row itself (`Fine`).

Each proof has one step per action, and a lemma per action where it is long.

Induction.  The library's induction theorems take a predicate as a parameter, which the
provers cannot instantiate.  MergeAndContextProofs states induction for sets of numbers
instead: a set that holds 0 and with every number the next is Nat (`SetInduction`), a
consequence of every set of numbers having a least one (`LeastNatural`).  A recursive
function is shown to exist by induction on its domain, or on the distance of the bounds
of a search, and then to be the function its definition chooses.

Every safety property that a passing run checks, invariant or action property, is a
theorem. Only model-checked are the six liveness properties (`JobsSettle`,
`DisposalEnds`, `MessagesAreFolded`, `CapsulesFollow`, `AtomsFollow`, `ForgottenFades`):
fairness and ENABLED are beyond the prover. `RecallIsDeterminedHolds` needs a finite
table; the others need nothing but the assumptions on the constants. No module with a
theorem uses a recursive operator.

## 7. Not modelled

- What a model answers, FTS ranking, vector distances, floating-point scores,
  which memories match a query: arbitrary choices where they matter, otherwise absent.
- SQLite itself: transactions are atomic and durable, `BEGIN IMMEDIATE` waits at
  most the busy timeout.  A database error is an exception in the handler.
- Rowid reuse after physical deletions (sqlite_store.py:1330), `delete_expired_l0` and
  the repair of evidence.
- Graph extraction: one model call and one upsert per node and edge; nothing else
  decides by its rows but floating-point recall scores.
- The Hermes and OpenClaw adapters, which hold one pending turn and forward calls;
  their consequences are in section 4.  The tool host of the harness plugin.
- The scope columns: ContextAssembly distinguishes the session's own memories from
  others; the other modules look at one scope.
- Interfaces without state: CLI, MCP and its authentication, language model clients,
  configuration, contracts, evaluation.  They parse, forward or report: a good part of
  the lines of the repository (server, runner, argument parsers, data classes) has no
  state change of its own that a model could check.

## 8. What is left

1. What lemmas can still say of operators that the theorems take as they are: that the
   component of an atom (`Group`) is closed under the edges in SemanticMerge.
2. Composition of deletion with folding: rowids, evidence repair, L0 retention.
3. The Hermes and OpenClaw adapters as users of TurnCycle, beside HostTurn.
