------------------------------ MODULE HostTurn ------------------------------
(***************************************************************************)
(* One turn of a DeepSeek Harness session and the plugin that keeps it in  *)
(* memory (adapters/deepseek-harness): the consumer prepares the turn in   *)
(* agent/pre-step, commits or aborts it at turn/end, and aborts what is    *)
(* left when it is unloaded; the provider sends each operation to the      *)
(* runtime, repeats it after an error and gives up at its deadline.        *)
(*                                                                         *)
(* A request that nobody waits for any more may still be served.  The      *)
(* runtime is TurnCycle, which TurnProtocol implements; the turn is known  *)
(* there by one cycle id, derived from the session and the turn.           *)
(*                                                                         *)
(* Three functions of the consumer wait for operations: the pre-step hook, *)
(* settleTurn and the finalizer.  JavaScript runs them one at a time, each *)
(* from one await to the next.                                             *)
(***************************************************************************)
EXTENDS Integers, FiniteSets

CONSTANTS
  Texts,      \* what the user may say
  Reply,      \* the last message of the assistant
  NoText, NoReason,
  Attempts,   \* requestAttempts
  MaxSteps,   \* bound on the calls of agent/pre-step with step 1
  MaxReloads  \* bound on the reloads of the provider plugin

ASSUME HostTurnAssumption ==
  /\ NoText \notin Texts \cup {Reply}
  /\ Attempts \in Nat \ {0} /\ MaxSteps \in Nat /\ MaxReloads \in Nat

Functions == {"hook", "settle", "finalizer"}

\* Reasons of aborts, and how the turn may end.
EndReasons == {"host-turn-failed", "no-assistant-message", "commit-failed"}
Reasons    == EndReasons \cup {"consumer-unloaded", "host-turn-aborted", "prepared-turn-replaced"}

NoProvider == -1
Idle == [op |-> "none", arg |-> NoText, by |-> NoProvider, attempt |-> 0, state |-> "idle"]

VARIABLES
  \* the runtime_cycles row
  phase, said, answer, why,
  \* the host
  turn,       \* "open", "completed" (or stopped at max-tokens) or "failed"
  replied,    \* is there assistant text?
  cancelled,  \* signal.aborted
  steps,      \* pre-steps so far
  \* the provider plugin
  provider,   \* the instance in ctx; those before it are closed
  \* the consumer
  plugin,     \* "loaded", "draining", "aborting" or "unloaded"
  pending,    \* the provider of the pending turn, if there is one
  hook,       \* where the hook is
  own,        \* the provider the hook prepared with
  task,       \* the operation each function waits for
  wire,       \* requests the runtime has not served
  \* history
  unknown,    \* was a prepare or an abort given up?
  spoilt,     \* was a commit given up, or a pending turn replaced?
  forgotten   \* has the turn been deleted?

cycle   == <<phase, said, answer, why>>
host    == <<turn, replied, cancelled, steps>>
records == <<unknown, spoilt, forgotten>>
vars    == <<cycle, host, provider, plugin, pending, hook, own, task, wire, records>>

Runtime == INSTANCE TurnCycle
             WITH asked <- said, context <- {}, cites <- <<>>, Queries <- Texts, NoQuery <- NoText,
                  Memories <- {}, Texts <- Texts \cup {Reply}

Closing == plugin # "loaded"
Active  == {f \in Functions : task[f].op # "none"}

Task == [op : {"none", "prepare", "commit", "abort"},
         arg : Texts \cup Reasons \cup {Reply, NoText}, by : 0..MaxReloads \cup {NoProvider},
         attempt : 0..Attempts, state : {"idle", "ready", "refused", "waiting", "ok", "rejected"}]

TypeOK ==
  /\ phase \in {"absent", "prepared", "committed", "aborted"}
  /\ said \in Texts \cup {NoText} /\ answer \in {Reply, NoText} /\ why \in Reasons \cup {NoReason}
  /\ turn \in {"open", "completed", "failed"} /\ steps \in 0..MaxSteps
  /\ plugin \in {"loaded", "draining", "aborting", "unloaded"}
  /\ provider \in 0..MaxReloads
  /\ pending \in 0..MaxReloads \cup {NoProvider} /\ own \in 0..MaxReloads \cup {NoProvider}
  /\ hook \in {"idle", "next", "prepare", "abort", "replace"}
  /\ task \in [Functions -> Task]
  /\ {replied, cancelled, unknown, spoilt, forgotten} \subseteq BOOLEAN

Init ==
  /\ Runtime!Init
  /\ turn = "open" /\ replied = FALSE /\ cancelled = FALSE /\ steps = 0
  /\ provider = 0
  /\ plugin = "loaded" /\ pending = NoProvider /\ hook = "idle" /\ own = NoProvider
  /\ task = [f \in Functions |-> Idle]
  /\ wire = {}
  /\ unknown = FALSE /\ spoilt = FALSE /\ forgotten = FALSE

-----------------------------------------------------------------------------
(* The provider *)

\* An operation of provider p, as a function begins to wait for it.  A closed provider
\* takes nothing but aborts.
Operation(op, arg, p) ==
  [op |-> op, arg |-> arg, by |-> p, attempt |-> 1,
   state |-> IF p < provider /\ op # "abort" THEN "refused" ELSE "ready"]

Start(f, op, arg, p) == task' = [task EXCEPT ![f] = Operation(op, arg, p)]
Stop(f)              == task' = [task EXCEPT ![f] = Idle]

\* prepare listens to the signal of the turn.
Interrupted(f) == task[f].op = "prepare" /\ cancelled

Request(f) == [from |-> f, step |-> steps, op |-> task[f].op, arg |-> task[f].arg,
               attempt |-> task[f].attempt]

\* One attempt: a connection of its own and a request.
Send(f) ==
  /\ task[f].state = "ready" /\ ~Interrupted(f)
  /\ task' = [task EXCEPT ![f].state = "waiting"]
  /\ wire' = wire \cup {Request(f)}
  /\ UNCHANGED <<cycle, host, provider, plugin, pending, hook, own, records>>

\* Whatever the error, there is another attempt.
Retry(f) ==
  /\ task[f].state \in {"waiting", "rejected"}
  /\ task[f].attempt < Attempts /\ ~Interrupted(f)
  /\ task' = [task EXCEPT ![f].state = "ready", ![f].attempt = @ + 1]
  /\ UNCHANGED <<cycle, host, provider, plugin, pending, hook, own, wire, records>>

Fulfilled(f) == task[f].op # "none" /\ task[f].state = "ok"

\* Faulty: waits for an answer without a deadline.
Failed_NoDeadline(f) ==
  task[f].op # "none" /\ (task[f].state \in {"rejected", "refused"} \/ Interrupted(f))

\* The deadline of the operation ends it unless it has been answered: it may fail at
\* any time, after one attempt or several.
Failed(f) == task[f].op # "none" /\ task[f].state # "ok"

-----------------------------------------------------------------------------
(* The runtime *)

Accepts(r) ==
  CASE r.op = "prepare" -> phase = "absent" \/ (phase \in {"prepared", "committed"} /\ said = r.arg)
    [] r.op = "commit"  -> phase = "prepared" \/ (phase = "committed" /\ answer = r.arg)
    [] r.op = "abort"   -> phase = "prepared" \/ (phase = "aborted" /\ why = r.arg)

\* The answer reaches the caller if it still waits for this request.
Answer(r, state) ==
  LET f == r.from IN
  task' = IF task[f].state = "waiting" /\ Request(f) = r /\ ~Interrupted(f)
          THEN [task EXCEPT ![f].state = state] ELSE task

\* prepare_turn, commit_turn, abort_turn: a transition of the cycle, the repetition of
\* one, or an error.
Serve(r) ==
  /\ wire' = wire \ {r}
  /\ \/ /\ Accepts(r) /\ Answer(r, "ok")
        /\ \/ r.op = "prepare" /\ Runtime!Prepare /\ said' = r.arg
           \/ r.op = "commit"  /\ Runtime!Commit /\ answer' = r.arg
           \/ r.op = "abort"   /\ Runtime!Abort /\ why' = r.arg
           \/ phase \notin {"absent", "prepared"} /\ UNCHANGED cycle
           \/ phase = "prepared" /\ r.op = "prepare" /\ UNCHANGED cycle
     \/ ~Accepts(r) /\ Answer(r, "rejected") /\ UNCHANGED cycle
  /\ UNCHANGED <<host, provider, plugin, pending, hook, own, records>>

Lose(r) ==
  /\ wire' = wire \ {r}
  /\ UNCHANGED <<cycle, host, provider, plugin, pending, hook, own, task, records>>

\* The user deletes a message of the turn.
Forget ==
  /\ ~forgotten /\ forgotten' = TRUE
  /\ Runtime!Forget
  /\ UNCHANGED <<host, provider, plugin, pending, hook, own, task, wire, unknown, spoilt>>

-----------------------------------------------------------------------------
(* The host *)

PreStep ==
  /\ turn = "open" /\ plugin = "loaded" /\ hook = "idle" /\ steps < MaxSteps
  /\ steps' = steps + 1
  /\ hook' = "next"
  /\ UNCHANGED <<cycle, turn, replied, cancelled, provider, plugin, pending, own, task, wire, records>>

Cancel ==
  /\ turn = "open" /\ ~cancelled
  /\ cancelled' = TRUE
  /\ UNCHANGED <<cycle, turn, replied, steps, provider, plugin, pending, hook, own, task, wire, records>>

\* Faulty: any reply is committed.
Settlement_AnyEnd(end, reply) ==
  IF reply THEN <<"commit", Reply>> ELSE <<"abort", "no-assistant-message">>

\* What settleTurn does first.
Settlement(end, reply) ==
  CASE end = "failed" -> <<"abort", "host-turn-failed">>
    [] end = "completed" /\ reply -> <<"commit", Reply>>
    [] OTHER -> <<"abort", "no-assistant-message">>

\* turn/end, and the call of settleTurn if the consumer still listens.  A cancelled turn
\* may end before the hook has returned.
TurnEnd ==
  /\ turn = "open" /\ (hook = "idle" \/ cancelled)
  /\ turn' \in IF cancelled THEN {"failed"} ELSE {"completed", "failed"}
  /\ replied' \in BOOLEAN
  /\ IF Closing \/ pending = NoProvider
     THEN UNCHANGED <<pending, task>>
     ELSE /\ pending' = NoProvider
          /\ LET s == Settlement(turn', replied') IN Start("settle", s[1], s[2], pending)
  /\ UNCHANGED <<cycle, cancelled, steps, provider, plugin, hook, own, wire, records>>

\* The provider plugin is reloaded: dispose() closes the old instance.
Reload ==
  /\ provider < MaxReloads
  /\ provider' = provider + 1
  /\ UNCHANGED <<cycle, host, plugin, pending, hook, own, task, wire, records>>

-----------------------------------------------------------------------------
(* The hook: agent/pre-step *)

\* The decision of the others has come: reject, or go on.
HookNext ==
  /\ hook = "next"
  /\ \/ /\ ~cancelled /\ ~Closing
        /\ \E t \in Texts : Start("hook", "prepare", t, provider)
        /\ hook' = "prepare" /\ own' = provider
     \/ hook' = "idle" /\ UNCHANGED <<task, own>>
  /\ UNCHANGED <<cycle, host, provider, plugin, pending, wire, records>>

HookPrepared ==
  /\ hook = "prepare" /\ Fulfilled("hook")
  /\ CASE cancelled \/ Closing ->
            /\ Start("hook", "abort", IF Closing THEN "consumer-unloaded" ELSE "host-turn-aborted", own)
            /\ hook' = "abort"
            /\ UNCHANGED <<pending, own, spoilt>>
       [] ~cancelled /\ ~Closing /\ pending \notin {NoProvider, own} ->
            /\ Start("hook", "abort", "prepared-turn-replaced", pending)
            /\ hook' = "replace" /\ spoilt' = TRUE
            /\ UNCHANGED <<pending, own>>
       [] OTHER ->
            /\ pending' = own
            /\ Stop("hook") /\ hook' = "idle" /\ own' = NoProvider
            /\ UNCHANGED spoilt
  /\ UNCHANGED <<cycle, host, provider, plugin, wire, unknown, forgotten>>

\* The map of the session's turns is out of pending once the turn has ended.
HookReplaced ==
  /\ hook = "replace" /\ Fulfilled("hook")
  /\ pending' = IF turn = "open" THEN own ELSE pending
  /\ Stop("hook") /\ hook' = "idle" /\ own' = NoProvider
  /\ UNCHANGED <<cycle, host, provider, plugin, wire, records>>

HookAborted ==
  /\ hook = "abort" /\ Fulfilled("hook")
  /\ Stop("hook") /\ hook' = "idle" /\ own' = NoProvider
  /\ UNCHANGED <<cycle, host, provider, plugin, pending, wire, records>>

HookFails ==
  /\ Failed("hook")
  /\ unknown' = (unknown \/ task["hook"].state # "rejected")
  /\ Stop("hook") /\ hook' = "idle" /\ own' = NoProvider
  /\ UNCHANGED <<cycle, host, provider, plugin, pending, wire, spoilt, forgotten>>

-----------------------------------------------------------------------------
(* settleTurn *)

SettleDone ==
  /\ Fulfilled("settle")
  /\ Stop("settle")
  /\ UNCHANGED <<cycle, host, provider, plugin, pending, hook, own, wire, records>>

\* Faulty: a failed commit is only logged.
CommitFails_Logged ==
  /\ task["settle"].op = "commit" /\ Failed("settle")
  /\ Stop("settle")
  /\ spoilt' = TRUE
  /\ UNCHANGED <<cycle, host, provider, plugin, pending, hook, own, wire, unknown, forgotten>>

CommitFails ==
  /\ task["settle"].op = "commit" /\ Failed("settle")
  /\ Start("settle", "abort", "commit-failed", task["settle"].by)
  /\ spoilt' = TRUE
  /\ UNCHANGED <<cycle, host, provider, plugin, pending, hook, own, wire, unknown, forgotten>>

SettleFails ==
  /\ task["settle"].op = "abort" /\ Failed("settle")
  /\ Stop("settle")
  /\ unknown' = (unknown \/ task["settle"].state # "rejected")
  /\ UNCHANGED <<cycle, host, provider, plugin, pending, hook, own, wire, spoilt, forgotten>>

-----------------------------------------------------------------------------
(* The finalizer: the listeners are gone and closing is set *)

Unload ==
  /\ plugin = "loaded" /\ plugin' = "draining"
  /\ UNCHANGED <<cycle, host, provider, pending, hook, own, task, wire, records>>

Drained ==
  /\ plugin = "draining" /\ Active = {}
  /\ plugin' = "aborting"
  /\ pending' = NoProvider
  /\ IF pending = NoProvider THEN UNCHANGED task
     ELSE Start("finalizer", "abort", "consumer-unloaded", pending)
  /\ UNCHANGED <<cycle, host, provider, hook, own, wire, records>>

FinalizerAborts ==
  /\ Fulfilled("finalizer") \/ Failed("finalizer")
  /\ Stop("finalizer")
  /\ unknown' = (unknown \/ task["finalizer"].state \notin {"ok", "rejected"})
  /\ UNCHANGED <<cycle, host, provider, plugin, pending, hook, own, wire, spoilt, forgotten>>

Unloaded ==
  /\ plugin = "aborting" /\ Active = {}
  /\ plugin' = "unloaded"
  /\ UNCHANGED <<cycle, host, provider, pending, hook, own, task, wire, records>>

-----------------------------------------------------------------------------
\* What happens once an operation is over.
Hook      == HookPrepared \/ HookReplaced \/ HookAborted \/ HookFails
Settle    == SettleDone \/ CommitFails \/ SettleFails
Finalizer == Drained \/ FinalizerAborts \/ Unloaded

Next ==
  \/ PreStep \/ Cancel \/ TurnEnd \/ Reload \/ Unload \/ Forget \/ HookNext
  \/ Hook \/ Settle \/ Finalizer
  \/ \E f \in Functions : Send(f) \/ Retry(f)
  \/ \E r \in wire : Serve(r) \/ Lose(r)

Spec == Init /\ [][Next]_vars

\* Timers fire and the event loop runs what can run; neither the host nor the runtime
\* has to do anything.
FairSpec == Spec /\ WF_vars(Hook) /\ WF_vars(Settle) /\ WF_vars(Finalizer)

-----------------------------------------------------------------------------
(* Properties *)

\* How the turn ends in memory is how it ended in the host: it is committed only if it
\* was completed with a reply, and such a turn is aborted only if the consumer left, the
\* commit was given up or the pending turn was replaced, however requests are repeated,
\* delayed and overtake each other.
EndMatchesTurn ==
  /\ phase = "committed" => turn = "completed" /\ replied
  /\ phase = "aborted" /\ turn = "completed" /\ replied => Closing \/ spoilt \/ forgotten

Over ==
  /\ plugin = "unloaded" \/ (plugin = "loaded" /\ turn # "open")
  /\ Active = {} /\ hook = "idle" /\ wire = {}

\* When the turn has ended, or the consumer has gone, and nothing is under way, the cycle
\* is not left prepared, unless a prepare or an abort was given up without an answer, or
\* the turn was deleted in the meantime.
NothingLeftPrepared == Over => phase # "prepared" \/ unknown \/ forgotten

\* Unloading comes to an end: the finalizer does not wait for ever for operations, which
\* may start new ones while it waits, nor they for it.
DisposalEnds == Closing ~> plugin = "unloaded"
=============================================================================
