---------------------------- MODULE TurnProtocol ----------------------------
(***************************************************************************)
(* prepare_turn, commit_turn and abort_turn for one turn id, called by     *)
(* several host processes at once and retried at will, while memories are  *)
(* physically deleted.                                                     *)
(*                                                                         *)
(* A call is a sequence of separate SQLite transactions, one action each;  *)
(* the process may die between any two of them.  The turn has one row in   *)
(* runtime_cycles.  Every call brings its own message id (the message_id   *)
(* and assistant_message_id arguments), so that one turn may store several *)
(* L0 messages.  A call that raises returns to "idle"; a rejected argument *)
(* that changes nothing is not a step.                                     *)
(***************************************************************************)
EXTENDS Integers, Sequences, FiniteSets

CONSTANTS
  Calls,       \* concurrent callers (host processes, MCP requests)
  Messages,    \* ids a user message may be given
  Replies,     \* ids an assistant message may be given
  Texts,       \* message contents
  Queries,     \* recall queries
  Memories,    \* memories that recall may find
  Reasons,     \* abort reasons
  NoMessage, NoText, NoQuery, NoReason,
  MaxCrashes,  \* bound on the calls that die half way
  MaxPurges    \* bound on the physical deletions

ASSUME TurnProtocolAssumption ==
  /\ Messages \cap Replies = {}
  /\ NoMessage \notin Messages \cup Replies
  /\ NoText \notin Texts
  /\ NoQuery \notin Queries
  /\ NoReason \notin Reasons
  /\ IsFiniteSet(Memories)
  /\ MaxCrashes \in Nat
  /\ MaxPurges \in Nat

VARIABLES
  \* memory_units
  l0,           \* content of each L0 message, NoText if there is no such row
  stored,       \* the other memories that exist
  \* the runtime_cycles row of the turn
  status,       \* "absent": no row
  userMemory, userText, query, context,
  assistantMemory, assistantText, cited,
  abortReason,
  \* lifecycle_events tagged with the cycle id, per memory
  injected, citedBy,
  \* runtime_jobs: the fold_l1 dedupe keys
  jobs,
  \* the calls
  pc,
  msg, text, ask, \* their arguments
  bundle,         \* the context a prepare has built
  cites,          \* cited_memory_ids of a commit
  \* history
  crashes, purges,
  forgotten,      \* has the row of the turn ever been deleted?
  lost            \* messages whose accepted call died before it queued them

memory  == <<l0, stored>>
opening == <<userMemory, userText, query, context>>
ending  == <<assistantMemory, assistantText, cited, abortReason>>
signals == <<injected, citedBy>>
args    == <<msg, text, ask, bundle, cites>>
history == <<crashes, purges, forgotten, lost>>
vars    == <<memory, status, opening, ending, signals, jobs, pc, args, history>>

CallPC == {"idle", "checking", "writing", "recalling", "creating", "queueing", "committing"}
CycleStatus == {"absent", "prepared", "committed", "aborted"}
L0Ids == Messages \cup Replies

\* list(dict.fromkeys(cited_memory_ids)): duplicates dropped, order kept.
Citations == {s \in UNION {[1..n -> Memories] : n \in 0..Cardinality(Memories)} :
                \A i, k \in DOMAIN s : s[i] = s[k] => i = k}

Cites(s) == {s[i] : i \in DOMAIN s}

TypeOK ==
  /\ l0 \in [L0Ids -> Texts \cup {NoText}]
  /\ stored \subseteq Memories
  /\ status \in CycleStatus
  /\ userMemory \in Messages \cup {NoMessage}
  /\ userText \in Texts \cup {NoText}
  /\ query \in Queries \cup {NoQuery}
  /\ context \subseteq Memories
  /\ assistantMemory \in Replies \cup {NoMessage}
  /\ assistantText \in Texts \cup {NoText}
  /\ cited \in Seq(Memories)
  /\ abortReason \in Reasons \cup {NoReason}
  /\ injected \in [Memories -> Nat]
  /\ citedBy \in [Memories -> Nat]
  /\ jobs \subseteq L0Ids
  /\ pc \in [Calls -> CallPC]
  /\ msg \in [Calls -> L0Ids \cup {NoMessage}]
  /\ text \in [Calls -> Texts \cup {NoText}]
  /\ ask \in [Calls -> Queries \cup {NoQuery}]
  /\ bundle \in [Calls -> SUBSET Memories]
  /\ cites \in [Calls -> Seq(Memories)]
  /\ crashes \in 0..MaxCrashes
  /\ purges \in 0..MaxPurges
  /\ forgotten \in BOOLEAN
  /\ lost \subseteq L0Ids

NoCycle ==
  /\ status = "absent"
  /\ userMemory = NoMessage /\ userText = NoText /\ query = NoQuery /\ context = {}
  /\ assistantMemory = NoMessage /\ assistantText = NoText /\ cited = <<>>
  /\ abortReason = NoReason

Init ==
  /\ l0 = [m \in L0Ids |-> NoText]
  /\ stored = Memories
  /\ NoCycle
  /\ injected = [k \in Memories |-> 0]
  /\ citedBy = [k \in Memories |-> 0]
  /\ jobs = {}
  /\ pc = [c \in Calls |-> "idle"]
  /\ msg = [c \in Calls |-> NoMessage]
  /\ text = [c \in Calls |-> NoText]
  /\ ask = [c \in Calls |-> NoQuery]
  /\ bundle = [c \in Calls |-> {}]
  /\ cites = [c \in Calls |-> <<>>]
  /\ crashes = 0
  /\ purges = 0
  /\ forgotten = FALSE
  /\ lost = {}

-----------------------------------------------------------------------------
GoTo(c, l) == pc' = [pc EXCEPT ![c] = l]

\* The call ends, with a result or an exception.
Finish(c) ==
  /\ GoTo(c, "idle")
  /\ msg' = [msg EXCEPT ![c] = NoMessage]
  /\ text' = [text EXCEPT ![c] = NoText]
  /\ ask' = [ask EXCEPT ![c] = NoQuery]
  /\ bundle' = [bundle EXCEPT ![c] = {}]
  /\ cites' = [cites EXCEPT ![c] = <<>>]

\* One more event for each memory of S.
Record(log, S) == [k \in Memories |-> IF k \in S THEN log[k] + 1 ELSE log[k]]

-----------------------------------------------------------------------------
(* prepare_turn.  L0Recorder.capture looks the message up; a different     *)
(* content under its id is an idempotency conflict.                        *)
BeginPrepare(c, m, t, q) ==
  /\ pc[c] = "idle"
  /\ l0[m] \in {NoText, t}
  /\ GoTo(c, IF l0[m] = NoText THEN "checking" ELSE "recalling")
  /\ msg' = [msg EXCEPT ![c] = m]
  /\ text' = [text EXCEPT ![c] = t]
  /\ ask' = [ask EXCEPT ![c] = q]
  /\ UNCHANGED <<memory, status, opening, ending, signals, jobs, bundle, cites, history>>

(* _put_memory_unit reads the row before its transaction begins.  A row    *)
(* that has appeared must agree, created_at (in seconds) included.         *)
CheckL0(c) ==
  /\ pc[c] = "checking"
  /\ \/ /\ l0[msg[c]] \in {NoText, text[c]}
        /\ GoTo(c, "writing")
        /\ UNCHANGED args
     \/ /\ l0[msg[c]] # NoText
        /\ Finish(c)
  /\ UNCHANGED <<memory, status, opening, ending, signals, jobs, history>>

(* INSERT ... ON CONFLICT(id) DO UPDATE SET content = excluded.content. *)
WriteL0(c) ==
  /\ pc[c] = "writing"
  /\ l0' = [l0 EXCEPT ![msg[c]] = text[c]]
  /\ GoTo(c, "recalling")
  /\ UNCHANGED <<stored, status, opening, ending, signals, jobs, args, history>>

(* build_context: some of the memories that exist now. *)
BuildContext(c) ==
  /\ pc[c] = "recalling"
  /\ \E S \in SUBSET stored : bundle' = [bundle EXCEPT ![c] = S]
  /\ GoTo(c, "creating")
  /\ UNCHANGED <<memory, status, opening, ending, signals, jobs, msg, text, ask, cites, history>>

(* create_runtime_cycle, one immediate transaction: a new row with one     *)
(* injected event per context memory ...                                   *)
InsertCycle(c) ==
  /\ pc[c] = "creating"
  /\ status = "absent"
  /\ bundle[c] \subseteq stored
  /\ l0[msg[c]] # NoText \* FOREIGN KEY (user_memory_id)
  /\ injected' = Record(injected, bundle[c])
  /\ status' = "prepared"
  /\ userMemory' = msg[c] /\ userText' = text[c] /\ query' = ask[c] /\ context' = bundle[c]
  /\ GoTo(c, "queueing")
  /\ UNCHANGED <<memory, ending, citedBy, jobs, args, history>>

\* Faulty: a repeated prepare records its injected events again.
ReuseCycle_RecordsAgain(c) ==
  /\ pc[c] = "creating"
  /\ status \in {"prepared", "committed"}
  /\ userText = text[c] /\ query = ask[c]
  /\ injected' = Record(injected, context)
  /\ GoTo(c, "queueing")
  /\ UNCHANGED <<memory, status, opening, ending, citedBy, jobs, args, history>>

\* Faulty: accepts another content.
ReuseCycle_AnyContent(c) ==
  /\ pc[c] = "creating"
  /\ status \in {"prepared", "committed"}
  /\ query = ask[c]
  /\ GoTo(c, "queueing")
  /\ UNCHANGED <<memory, status, opening, ending, signals, jobs, args, history>>

(* ... or the row of an earlier call with the same content and query. *)
ReuseCycle(c) ==
  /\ pc[c] = "creating"
  /\ status \in {"prepared", "committed"}
  /\ userText = text[c] /\ query = ask[c]
  /\ GoTo(c, "queueing")
  /\ UNCHANGED <<memory, status, opening, ending, signals, jobs, args, history>>

\* Conflict, aborted turn, deleted context memory or deleted user message.
RejectPrepare(c) ==
  /\ pc[c] = "creating"
  /\ \/ status = "absent" /\ ~(bundle[c] \subseteq stored /\ l0[msg[c]] # NoText)
     \/ status # "absent" /\ (userText # text[c] \/ query # ask[c])
     \/ status = "aborted"
  /\ Finish(c)
  /\ UNCHANGED <<memory, status, opening, ending, signals, jobs, history>>

\* Faulty: a commit queues nothing.
EnqueueFold_PrepareOnly(c) ==
  /\ pc[c] = "queueing"
  /\ jobs' = jobs \cup ({msg[c]} \cap Messages)
  /\ Finish(c)
  /\ UNCHANGED <<memory, status, opening, ending, signals, history>>

(* enqueue_job("fold_l1", the id of the message of this call), after which *)
(* prepare_turn or commit_turn returns.                                    *)
EnqueueFold(c) ==
  /\ pc[c] = "queueing"
  /\ jobs' = jobs \cup {msg[c]}
  /\ Finish(c)
  /\ UNCHANGED <<memory, status, opening, ending, signals, history>>

-----------------------------------------------------------------------------
(* commit_turn reads the cycle and builds the assistant message ... *)
BeginCommit(c, r, t, s) ==
  /\ pc[c] = "idle"
  /\ status # "absent"
  /\ GoTo(c, "committing")
  /\ msg' = [msg EXCEPT ![c] = r]
  /\ text' = [text EXCEPT ![c] = t]
  /\ cites' = [cites EXCEPT ![c] = s]
  /\ UNCHANGED <<memory, status, opening, ending, signals, jobs, ask, bundle, history>>

\* Faulty: does not look for the message that is there already.
MayCommit_Overwrites(c) ==
  /\ status = "prepared"
  /\ Cites(cites[c]) \subseteq context
  /\ Cites(cites[c]) \subseteq stored

\* Faulty: takes the citations as commit_turn has received them.
MayCommit_AnyCitation(c) ==
  /\ status = "prepared"
  /\ Cites(cites[c]) \subseteq stored
  /\ l0[msg[c]] \in {NoText, text[c]}

\* What commit_runtime_cycle requires of a prepared cycle.
MayCommit(c) ==
  /\ status = "prepared"
  /\ Cites(cites[c]) \subseteq context
  /\ Cites(cites[c]) \subseteq stored
  /\ l0[msg[c]] \in {NoText, text[c]}

\* A commit with the content and the citations of the one before.
IsRetry(c) == status = "committed" /\ assistantText = text[c] /\ cited = cites[c]

(* ... and commit_runtime_cycle, in one immediate transaction, writes the  *)
(* message, the cited_by_agent events and the cycle ...                    *)
CommitCycle(c) ==
  /\ pc[c] = "committing"
  /\ MayCommit(c)
  /\ l0' = [l0 EXCEPT ![msg[c]] = text[c]]
  /\ citedBy' = Record(citedBy, Cites(cites[c]))
  /\ status' = "committed"
  /\ assistantMemory' = msg[c] /\ assistantText' = text[c] /\ cited' = cites[c]
  /\ GoTo(c, "queueing")
  /\ UNCHANGED <<stored, opening, abortReason, injected, jobs, args, history>>

(* ... or returns the cycle as it is to a retry ... *)
RepeatCommit(c) ==
  /\ pc[c] = "committing"
  /\ IsRetry(c)
  /\ GoTo(c, "queueing")
  /\ UNCHANGED <<memory, status, opening, ending, signals, jobs, args, history>>

(* ... or raises and rolls back.  An assistant message that is there       *)
(* already is accepted only if it was created in this very second.         *)
RejectCommit(c) ==
  /\ pc[c] = "committing"
  /\ ~IsRetry(c)
  /\ ~MayCommit(c) \/ l0[msg[c]] # NoText
  /\ Finish(c)
  /\ UNCHANGED <<memory, status, opening, ending, signals, jobs, history>>

\* Faulty: aborts a committed turn.
AbortCycle_AnyStatus(r) ==
  /\ status \in {"prepared", "committed"}
  /\ status' = "aborted"
  /\ abortReason' = r
  /\ UNCHANGED <<memory, opening, assistantMemory, assistantText, cited, signals, jobs,
                 pc, args, history>>

(* abort_turn: one immediate transaction; on a cycle that has ended it     *)
(* raises or, for the same reason, repeats its answer.                     *)
AbortCycle(r) ==
  /\ status = "prepared"
  /\ status' = "aborted"
  /\ abortReason' = r
  /\ UNCHANGED <<memory, opening, assistantMemory, assistantText, cited, signals, jobs,
                 pc, args, history>>

-----------------------------------------------------------------------------
(* The process dies between two transactions. *)
Crash(c) ==
  /\ pc[c] # "idle"
  /\ crashes < MaxCrashes
  /\ crashes' = crashes + 1
  /\ lost' = IF pc[c] = "queueing" THEN lost \cup {msg[c]} ELSE lost
  /\ Finish(c)
  /\ UNCHANGED <<memory, status, opening, ending, signals, jobs, purges, forgotten>>

\* DELETE FROM runtime_cycles.
ForgetCycle ==
  /\ status' = "absent"
  /\ userMemory' = NoMessage /\ userText' = NoText /\ query' = NoQuery /\ context' = {}
  /\ assistantMemory' = NoMessage /\ assistantText' = NoText /\ cited' = <<>>
  /\ abortReason' = NoReason
  /\ forgotten' = TRUE

(* RetentionManager.delete_memory(physical): an L0 message goes with the   *)
(* cycle that has it as its user or assistant message ...                  *)
PurgeMessage(m) ==
  /\ l0[m] # NoText
  /\ purges < MaxPurges
  /\ purges' = purges + 1
  /\ l0' = [l0 EXCEPT ![m] = NoText]
  /\ IF m \in {userMemory, assistantMemory}
       THEN ForgetCycle
       ELSE UNCHANGED <<status, opening, ending, forgotten>>
  /\ UNCHANGED <<stored, signals, jobs, pc, args, crashes, lost>>

(* ... and any memory with its lifecycle_events (ON DELETE CASCADE). *)
PurgeMemory(k) ==
  /\ k \in stored
  /\ purges < MaxPurges
  /\ purges' = purges + 1
  /\ stored' = stored \ {k}
  /\ injected' = [injected EXCEPT ![k] = 0]
  /\ citedBy' = [citedBy EXCEPT ![k] = 0]
  /\ UNCHANGED <<l0, status, opening, ending, jobs, pc, args, crashes, forgotten, lost>>

-----------------------------------------------------------------------------
PrepareStep(c) ==
  \/ CheckL0(c) \/ WriteL0(c) \/ BuildContext(c)
  \/ InsertCycle(c) \/ ReuseCycle(c) \/ RejectPrepare(c)

CommitStep(c) == CommitCycle(c) \/ RepeatCommit(c) \/ RejectCommit(c)

\* What a call in progress does by itself.
CallStep(c) == PrepareStep(c) \/ CommitStep(c) \/ EnqueueFold(c)

Next ==
  \/ \E c \in Calls :
       \/ \E m \in Messages, t \in Texts, q \in Queries : BeginPrepare(c, m, t, q)
       \/ \E r \in Replies, t \in Texts, s \in Citations : BeginCommit(c, r, t, s)
       \/ CallStep(c)
       \/ Crash(c)
  \/ \E r \in Reasons : AbortCycle(r)
  \/ \E m \in L0Ids : PurgeMessage(m)
  \/ \E k \in Memories : PurgeMemory(k)

Spec == Init /\ [][Next]_vars

-----------------------------------------------------------------------------
(***************************************************************************)
(* Properties                                                              *)
(***************************************************************************)

\* However calls interleave, die and are retried, the turn goes through the
\* cycle the protocol promises, and what it was prepared and committed with
\* never changes.
Cycle == INSTANCE TurnCycle
           WITH phase <- status, said <- userText, asked <- query, answer <- assistantText,
                cites <- cited, why <- abortReason

ImplementsTurnCycle == Cycle!Spec

\* The rows a turn consists of agree across tables, whichever calls wrote them and
\* whatever was deleted in between: the user message of a cycle exists, the reply of
\* a committed one exists with the content the cycle records, and what it cites was
\* in its context.  The content of the user message is not claimed: two captures
\* under one id may overwrite it.
TurnIsWhole ==
  /\ status # "absent" => l0[userMemory] # NoText
  /\ status = "committed" =>
       /\ l0[assistantMemory] = assistantText
       /\ Cites(cited) \subseteq context

\* Concurrent and repeated calls count once: a memory has one injected event
\* if it is in the context, one cited_by_agent event if the committed turn
\* cites it, and otherwise none.
SignalsMatchCycle ==
  ~forgotten => \A k \in stored :
    /\ injected[k] = IF status # "absent" /\ k \in context THEN 1 ELSE 0
    /\ citedBy[k] = IF status = "committed" /\ k \in Cites(cited) THEN 1 ELSE 0

\* What call c brought is what the turn records, once c has been accepted.
Recorded(c) ==
  pc[c] = "queueing" =>
    /\ msg[c] \in Messages => status # "absent" /\ userText = text[c] /\ query = ask[c]
    /\ msg[c] \in Replies  => status = "committed" /\ assistantText = text[c] /\ cited = cites[c]

\* Of conflicting concurrent calls at most one is accepted: everything that was
\* accepted is what the turn records, until it is forgotten.
AcceptedCallStands == ~forgotten => \A c \in Calls : Recorded(c)

\* An assistant message is written once, whoever commits.
RepliesAppendOnly ==
  [][\A r \in Replies : l0[r] # NoText => l0'[r] \in {l0[r], NoText}]_vars

\* When no call on the turn is left, its user message is queued for folding and,
\* once it is committed, its reply, whichever of several calls brought them
\* (application.py:245, :302).  The one exception is a message whose call was
\* accepted and died before it queued the job.
TurnIsQueued ==
  (\A c \in Calls : pc[c] = "idle") =>
    /\ status # "absent" => userMemory \in jobs \cup lost
    /\ status = "committed" => assistantMemory \in jobs \cup lost
=============================================================================
