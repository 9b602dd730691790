--------------------------- MODULE HostTurnProofs ---------------------------
(* Proofs about HostTurn, for any number of pre-steps, attempts and reloads *)
(* and any loss, delay and repetition of requests.                          *)
EXTENDS HostTurn, TLAPS

\* Why an operation may be under way.  It never ceases to be one: the turn ends once,
\* and the consumer is unloaded once.
Justified(op) ==
  /\ op = "commit" => turn = "completed" /\ replied
  /\ op = "abort"  => \/ Closing \/ spoilt \/ cancelled \/ turn = "failed"
                      \/ turn = "completed" /\ ~replied

\* The inductive invariant: every operation under way, in a function of the consumer or
\* in a request, late ones included, is justified, and so is the end of the cycle.
Inv ==
  /\ DOMAIN task = Functions
  /\ turn \in {"open", "completed", "failed"}
  /\ turn = "completed" => ~cancelled
  /\ \A f \in Functions : Justified(task[f].op)
  /\ \A r \in wire : Justified(r.op)
  /\ phase = "committed" => Justified("commit")
  /\ phase = "aborted" => Justified("abort")

\* What justifies an operation lasts.
Lasts ==
  /\ turn' = turn \/ turn = "open"
  /\ turn' = "completed" => ~cancelled'
  /\ turn' = turn => replied' = replied
  /\ cancelled => cancelled'
  /\ spoilt => spoilt'
  /\ Closing => Closing'
  /\ turn' \in {"open", "completed", "failed"}

\* An operation that was justified still is.
LEMMA StillJustified ==
  ASSUME Inv, Lasts, NEW op, Justified(op)
  PROVE  Justified(op)'
  BY DEF Inv, Lasts, Justified

\* A step keeps the invariant if every operation under way was under way before or is
\* justified anew.
LEMMA StepKeeps ==
  ASSUME Inv, Lasts, DOMAIN task' = Functions,
         \A f \in Functions : \A op : op = task'[f].op =>
           (\E g \in Functions : op = task[g].op) \/ Justified(op)',
         \A r \in wire' : r \in wire \/ \E f \in Functions : r.op = task[f].op,
         phase' # phase => \/ phase' \in {"absent", "prepared"}
                           \/ phase' = "committed" /\ Justified("commit")
                           \/ phase' = "aborted" /\ Justified("abort")
  PROVE  Inv'
<1>1. \A f \in Functions : \A op : op = task'[f].op => Justified(op)'
  BY StillJustified DEF Inv
<1>2. \A r \in wire' : Justified(r.op)'
  BY StillJustified DEF Inv
<1>4. (\A f \in Functions : Justified(task[f].op))'
  BY <1>1
<1>3. /\ phase' = "committed" => Justified("commit")'
      /\ phase' = "aborted" => Justified("abort")'
  BY StillJustified DEF Inv
<1> QED
  BY <1>2, <1>3, <1>4 DEF Inv, Lasts

\* What starting and stopping an operation do to what is under way.
LEMMA Operations ==
  ASSUME Inv, NEW f \in Functions, NEW op, NEW arg, NEW p
  PROVE  /\ Start(f, op, arg, p) =>
              /\ DOMAIN task' = Functions /\ task'[f].op = op
              /\ \A g \in Functions \ {f} : task'[g] = task[g]
         /\ Stop(f) =>
              /\ DOMAIN task' = Functions /\ task'[f].op = "none"
              /\ \A g \in Functions \ {f} : task'[g] = task[g]
<1>1. Idle.op = "none" /\ Operation(op, arg, p).op = op
  BY DEF Idle, Operation
<1> QED
  BY <1>1 DEF Inv, Start, Stop

\* No operation is justified without a reason.
LEMMA NoneIsJustified == Justified("none")
  BY DEF Justified

\* The cycle before any turn.
LEMMA InitInv == Init => Inv
<1> SUFFICES ASSUME Init PROVE Inv
  OBVIOUS
<1>1. phase = "absent"
  BY DEF Init, Runtime!Init
<1>2. \A f \in Functions : task[f].op = "none"
  BY DEF Init, Idle
<1> QED
  BY <1>1, <1>2, NoneIsJustified DEF Init, Inv

-----------------------------------------------------------------------------
\* The host and the plugins: whatever lasts.
LEMMA HostKeeps ==
  ASSUME Inv, PreStep \/ Cancel \/ Reload \/ Unload \/ Forget
  PROVE  Inv'
<1>1. Lasts
  BY DEF Inv, Lasts, PreStep, Cancel, Reload, Unload, Forget, host, records, Closing
<1>2. task' = task /\ wire' = wire
  BY DEF PreStep, Cancel, Reload, Unload, Forget
<1>3. phase' = phase \/ phase' = "absent"
  BY DEF PreStep, Cancel, Reload, Unload, Forget, cycle, Runtime!Forget
<1> QED
  BY <1>1, <1>2, <1>3, StepKeeps DEF Inv

\* The turn ends, and settleTurn starts with what goes with its end.
LEMMA TurnEndKeeps ==
  ASSUME Inv, TurnEnd
  PROVE  Inv'
<1>1. /\ turn = "open" /\ turn' \in {"completed", "failed"} /\ replied' \in BOOLEAN
      /\ turn' = "completed" => ~cancelled
      /\ UNCHANGED <<cycle, cancelled, plugin, wire, records>>
  BY DEF TurnEnd
<1>2. Lasts
  BY <1>1 DEF Lasts, records, Closing
<1>3. CASE Closing \/ pending = NoProvider
  BY <1>1, <1>2, <1>3, StepKeeps DEF TurnEnd, cycle, Inv
<1>4. CASE ~(Closing \/ pending = NoProvider)
  <2>1. PICK s : s = Settlement(turn', replied') /\ Start("settle", s[1], s[2], pending)
    BY <1>4 DEF TurnEnd
  <2>2. Justified(s[1])'
    <3>1. CASE turn' = "failed"
      BY <2>1, <3>1 DEF Settlement, Justified
    <3>2. CASE turn' = "completed" /\ replied'
      BY <2>1, <3>2 DEF Settlement, Justified
    <3>3. CASE turn' = "completed" /\ ~replied'
      BY <2>1, <3>3 DEF Settlement, Justified
    <3> QED
      BY <1>1, <3>1, <3>2, <3>3
  <2>3. /\ DOMAIN task' = Functions /\ task'["settle"].op = s[1]
        /\ \A g \in Functions \ {"settle"} : task'[g] = task[g]
    BY <2>1, Operations DEF Functions
  <2>4. \A f \in Functions : \A op : op = task'[f].op =>
          (\E g \in Functions : op = task[g].op) \/ Justified(op)'
    BY <2>2, <2>3
  <2> QED
    BY <1>1, <1>2, <2>3, <2>4, StepKeeps DEF cycle
<1> QED
  BY <1>3, <1>4

-----------------------------------------------------------------------------
\* A step that starts an operation in one function.
LEMMA StartKeeps ==
  ASSUME Inv, Lasts, NEW f \in Functions, NEW op, NEW arg, NEW p, Start(f, op, arg, p),
         Justified(op)', wire' = wire, phase' = phase
  PROVE  Inv'
<1>1. /\ DOMAIN task' = Functions /\ task'[f].op = op
      /\ \A g \in Functions \ {f} : task'[g] = task[g]
  BY Operations
<1> QED
  BY <1>1, StepKeeps

\* A step that ends the operation of one function.
LEMMA StopKeeps ==
  ASSUME Inv, Lasts, NEW f \in Functions, Stop(f), wire' = wire, phase' = phase
  PROVE  Inv'
<1>1. /\ DOMAIN task' = Functions /\ task'[f].op = "none"
      /\ \A g \in Functions \ {f} : task'[g] = task[g]
  BY Operations
<1>2. Justified("none")'
  BY DEF Justified
<1> QED
  BY <1>1, <1>2, StepKeeps

\* A step that leaves the operations alone.
LEMMA RestKeeps ==
  ASSUME Inv, Lasts, task' = task, wire' = wire, phase' = phase
  PROVE  Inv'
  BY StepKeeps DEF Inv

\* The provider sends requests and repeats them.
LEMMA ProviderKeeps ==
  ASSUME Inv, NEW f \in Functions, Send(f) \/ Retry(f)
  PROVE  Inv'
<1>1. Lasts /\ phase' = phase
  BY DEF Inv, Lasts, Send, Retry, host, records, cycle, Closing
<1>2. DOMAIN task' = Functions /\ \A g \in Functions : task'[g].op = task[g].op
  <2>1. CASE Send(f)
    BY <2>1 DEF Send, Inv
  <2>2. CASE Retry(f)
    BY <2>2 DEF Retry, Inv
  <2> QED
    BY <2>1, <2>2
<1>3. \A x \in wire' : x \in wire \/ \E g \in Functions : x.op = task[g].op
  BY DEF Send, Retry, Request
<1> QED
  BY <1>1, <1>2, <1>3, StepKeeps

\* A request is lost.
LEMMA LoseKeeps ==
  ASSUME Inv, NEW r \in wire, Lose(r)
  PROVE  Inv'
<1>1. Lasts /\ phase' = phase /\ task' = task /\ wire' \subseteq wire
  BY DEF Inv, Lasts, Lose, host, records, cycle, Closing
<1> QED
  BY <1>1, StepKeeps DEF Inv

\* The runtime serves a request, however late: what it makes of the cycle is justified,
\* as the request was.
LEMMA ServeKeeps ==
  ASSUME Inv, NEW r \in wire, Serve(r)
  PROVE  Inv'
<1>1. Lasts /\ wire' \subseteq wire
  BY DEF Inv, Lasts, Serve, host, records, Closing
<1>2. DOMAIN task' = Functions /\ \A g \in Functions : task'[g].op = task[g].op
  <2>1. PICK state : Answer(r, state)
    BY DEF Serve
  <2>2. CASE task' = task
    BY <2>2 DEF Inv
  <2>3. CASE task' = [task EXCEPT ![r.from].state = state]
    BY <2>3 DEF Inv
  <2> QED
    BY <2>1, <2>2, <2>3, Zenon DEF Answer
<1>3. \/ phase' = phase \/ phase' = "prepared"
      \/ phase' = "committed" /\ r.op = "commit"
      \/ phase' = "aborted" /\ r.op = "abort"
  BY DEF Serve, Runtime!Prepare, Runtime!Commit, Runtime!Abort, cycle
<1>4. Justified(r.op)
  BY DEF Inv
<1> QED
  BY <1>1, <1>2, <1>3, <1>4, StepKeeps

-----------------------------------------------------------------------------
\* The hook: what it aborts is not wanted any more.
LEMMA HookKeeps ==
  ASSUME Inv, HookNext \/ Hook
  PROVE  Inv'
<1>1. Lasts /\ wire' = wire /\ phase' = phase /\ "hook" \in Functions
  BY DEF Inv, Lasts, HookNext, Hook, HookPrepared, HookReplaced, HookAborted, HookFails,
         host, records, cycle, Closing, Functions
<1>2. CASE HookNext
  <2>1. CASE \E t \in Texts : Start("hook", "prepare", t, provider)
    <3>1. PICK t \in Texts : Start("hook", "prepare", t, provider)
      BY <2>1
    <3>2. Justified("prepare")'
      BY DEF Justified
    <3> QED
      BY <1>1, <3>1, <3>2, StartKeeps
  <2>2. CASE task' = task
    BY <1>1, <2>2, RestKeeps
  <2> QED
    BY <1>2, <2>1, <2>2 DEF HookNext
<1>3. CASE HookPrepared
  <2>1. CASE cancelled \/ Closing
    <3>1. PICK arg : Start("hook", "abort", arg, own)
      BY <1>3, <2>1 DEF HookPrepared
    <3>2. Justified("abort")'
      BY <1>1, <2>1 DEF Justified, Lasts
    <3> QED
      BY <1>1, <3>1, <3>2, StartKeeps
  <2>2. CASE ~cancelled /\ ~Closing /\ pending \notin {NoProvider, own}
    <3>1. Start("hook", "abort", "prepared-turn-replaced", pending) /\ spoilt'
      BY <1>3, <2>2 DEF HookPrepared
    <3>2. Justified("abort")'
      BY <3>1 DEF Justified
    <3> QED
      BY <1>1, <3>1, <3>2, StartKeeps
  <2>3. CASE ~cancelled /\ ~Closing /\ ~(pending \notin {NoProvider, own})
    <3>1. Stop("hook")
      BY <1>3, <2>3 DEF HookPrepared
    <3> QED
      BY <1>1, <3>1, StopKeeps
  <2> QED
    BY <2>1, <2>2, <2>3
<1>4. CASE HookReplaced \/ HookAborted \/ HookFails
  <2>1. Stop("hook")
    BY <1>4 DEF HookReplaced, HookAborted, HookFails
  <2> QED
    BY <1>1, <2>1, StopKeeps
<1> QED
  BY <1>2, <1>3, <1>4 DEF Hook

\* settleTurn and the finalizer.
LEMMA SettleKeeps ==
  ASSUME Inv, Settle \/ Finalizer
  PROVE  Inv'
<1>1. Lasts /\ wire' = wire /\ phase' = phase /\ {"settle", "finalizer"} \subseteq Functions
  BY DEF Inv, Lasts, Settle, Finalizer, SettleDone, CommitFails, SettleFails, Drained,
         FinalizerAborts, Unloaded, host, records, cycle, Closing, Functions
<1>2. CASE SettleDone \/ SettleFails
  BY <1>1, <1>2, StopKeeps DEF SettleDone, SettleFails
<1>3. CASE CommitFails
  <2>1. Start("settle", "abort", "commit-failed", task["settle"].by) /\ Justified("abort")'
    BY <1>3 DEF CommitFails, Justified
  <2> QED
    BY <1>1, <2>1, StartKeeps
<1>4. CASE Drained
  <2>1. CASE task' = task
    BY <1>1, <2>1, RestKeeps
  <2>2. CASE Start("finalizer", "abort", "consumer-unloaded", pending)
    <3>1. Justified("abort")'
      BY <1>4 DEF Drained, Justified, Closing
    <3> QED
      BY <1>1, <2>2, <3>1, StartKeeps
  <2> QED
    BY <1>4, <2>1, <2>2 DEF Drained
<1>5. CASE FinalizerAborts
  BY <1>1, <1>5, StopKeeps DEF FinalizerAborts
<1>6. CASE Unloaded
  BY <1>1, <1>6, RestKeeps DEF Unloaded
<1> QED
  BY <1>2, <1>3, <1>4, <1>5, <1>6 DEF Settle, Finalizer

-----------------------------------------------------------------------------
\* Every step keeps the invariant.
LEMMA NextKeeps == Inv /\ [Next]_vars => Inv'
<1> SUFFICES ASSUME Inv, [Next]_vars PROVE Inv'
  OBVIOUS
<1>1. CASE UNCHANGED vars
  <2>1. Lasts /\ task' = task /\ wire' = wire /\ phase' = phase
    BY <1>1 DEF vars, host, cycle, records, Inv, Lasts, Closing
  <2> QED
    BY <2>1, RestKeeps
<1>2. CASE \E r \in wire : Lose(r) \/ Serve(r)
  BY <1>2, LoseKeeps, ServeKeeps
<1>3. CASE \E f \in Functions : Send(f) \/ Retry(f)
  BY <1>3, ProviderKeeps
<1> QED
  BY <1>1, <1>2, <1>3, HostKeeps, TurnEndKeeps, HookKeeps, SettleKeeps DEF Next

\* The invariant holds of every state.
LEMMA Invariant == Spec => []Inv
  BY InitInv, NextKeeps, PTL DEF Spec

\* No loss, repetition, delay or overtaking of requests, no reload of the provider and
\* no unloading of the consumer makes the cycle end otherwise than the turn: it is
\* committed only if the turn was completed with a reply, and such a turn is aborted only
\* if the consumer was unloaded, the commit given up or the pending turn replaced.
THEOREM EndMatchesTurnHolds == Spec => []EndMatchesTurn
<1>1. Inv => EndMatchesTurn
  BY DEF Inv, Justified, EndMatchesTurn
<1> QED
  BY <1>1, Invariant, PTL
-----------------------------------------------------------------------------
(* Nothing is left prepared *)

Ends == {"commit", "abort"}

\* The argument an operation or a request carries.
Whole(r) ==
  /\ r.op = "prepare" => r.arg \in Texts
  /\ r.op = "commit"  => r.arg = Reply
  /\ r.op = "abort"   => r.arg \in Reasons

\* What is under way is an operation.
Underway ==
  /\ \A f \in Functions : /\ task[f].op = "none" <=> task[f].state = "idle"
                          /\ Whole(task[f])
  /\ \A r \in wire : /\ r.op \in {"prepare", "commit", "abort"} /\ r.from \in Functions
                     /\ Whole(r)

\* Which function runs which operation, and when: the hook runs within the turn unless
\* that is cancelled, settleTurn after it, the finalizer once the hook can no longer
\* prepare anything.
Places ==
  /\ task["hook"].op = CASE hook = "prepare" -> "prepare"
                         [] hook \in {"abort", "replace"} -> "abort"
                         [] OTHER -> "none"
  /\ hook \in {"prepare", "abort", "replace"} => own # NoProvider
  /\ hook # "idle" /\ ~cancelled => turn = "open"
  /\ task["settle"].op \in {"none"} \cup Ends
  /\ turn = "open" => task["settle"].op = "none"
  /\ task["finalizer"].op \in {"none", "abort"}
  /\ task["finalizer"].op # "none" => plugin = "aborting"
  /\ plugin \in {"aborting", "unloaded"} => pending = NoProvider /\ hook \in {"idle", "next"}
  /\ pending # NoProvider => turn = "open" \/ Closing

\* What the answers say about the cycle: it exists when somebody wants to end it, a
\* prepare is rejected because it has another text or has ended, and an abort only
\* because it has ended.
Learnt(f) ==
  LET op == task[f].op
      state == task[f].state
  IN  /\ op \in Ends => phase # "absent"
      /\ op = "prepare" /\ state = "ok" => phase # "absent"
      /\ op = "prepare" /\ state = "rejected" =>
           phase # "absent" /\ (phase = "prepared" => said # task[f].arg)
      /\ op \in Ends /\ state = "ok" => phase # "prepared"
      /\ op = "abort" /\ state = "rejected" => phase # "prepared"

\* The hook waits for the turn to be prepared with text t.
Prepares(t) == hook = "prepare" /\ task["hook"].arg = t

\* Somebody will end the prepared cycle: it is pending, or an operation that ends it is
\* under way, or the hook, which will see to it, still waits for the answer.
Owed ==
  \/ pending # NoProvider
  \/ \E f \in Functions : task[f].op \in Ends
  \/ Prepares(said)

\* As long as the turn is not deleted: a request that may still prepare it is one that
\* was given up or one the hook waits for, and a prepared cycle is owed an end unless an
\* operation was given up.
Accounted ==
  ~forgotten =>
    /\ \A f \in Functions : Learnt(f)
    /\ pending # NoProvider => phase # "absent"
    /\ \A r \in wire : r.op = "prepare" => phase # "absent" \/ unknown \/ Prepares(r.arg)
    /\ phase = "prepared" => unknown \/ Owed

IInv == TypeOK /\ Underway /\ Places /\ Accounted

\* The cycle before any turn is accounted for.
LEMMA InitIInv == Init => IInv
<1> SUFFICES ASSUME Init PROVE IInv
  OBVIOUS
<1> USE HostTurnAssumption DEF Init
<1>1. phase = "absent" /\ said = NoText /\ answer = NoText /\ why = NoReason
  BY DEF Runtime!Init
<1>2. Idle \in Task
  BY DEF Idle, Task, NoProvider
<1>3. \A f \in Functions : task[f] = Idle
  OBVIOUS
<1>4. Idle.op = "none" /\ Idle.state = "idle"
  BY DEF Idle
<1>5. {replied, cancelled, unknown, spoilt, forgotten} \subseteq BOOLEAN
  BY Zenon
<1>6. TypeOK
  BY <1>1, <1>2, <1>5 DEF TypeOK
<1>7. Underway
  BY <1>3, <1>4 DEF Underway, Whole
<1>8. Places
  BY <1>3, <1>4 DEF Places, Functions
<1>9. Accounted
  BY <1>1, <1>3, <1>4 DEF Accounted, Learnt, Ends
<1> QED
  BY <1>6, <1>7, <1>8, <1>9 DEF IInv

\* An operation that starts takes the place of the one before it.
LEMMA Started ==
  ASSUME TypeOK, NEW f \in Functions, NEW op \in {"prepare", "commit", "abort"},
         NEW arg \in Texts \cup Reasons \cup {Reply}, NEW p \in 0..MaxReloads \cup {NoProvider},
         Start(f, op, arg, p)
  PROVE  /\ task' \in [Functions -> Task]
         /\ task'[f].op = op /\ task'[f].arg = arg /\ task'[f].state \in {"ready", "refused"}
         /\ \A g \in Functions \ {f} : task'[g] = task[g]
<1>1. Operation(op, arg, p) \in Task
  BY HostTurnAssumption DEF Operation, Task
<1>2. /\ Operation(op, arg, p).op = op /\ Operation(op, arg, p).arg = arg
      /\ Operation(op, arg, p).state \in {"ready", "refused"}
  BY DEF Operation
<1> QED
  BY <1>1, <1>2 DEF TypeOK, Start

\* An operation that is over leaves its function idle.
LEMMA Stopped ==
  ASSUME TypeOK, NEW f \in Functions, Stop(f)
  PROVE  /\ task' \in [Functions -> Task]
         /\ task'[f].op = "none" /\ task'[f].state = "idle"
         /\ \A g \in Functions \ {f} : task'[g] = task[g]
<1>1. Idle \in Task /\ Idle.op = "none" /\ Idle.state = "idle"
  BY HostTurnAssumption DEF Idle, Task
<1> QED
  BY <1>1 DEF TypeOK, Stop

\* The host, the provider and the user: no operation changes.
LEMMA HostAccounted ==
  ASSUME IInv, PreStep \/ Cancel \/ Reload \/ Unload
  PROVE  IInv'
<1> USE DEF PreStep, Cancel, Reload, Unload, cycle, host, records
<1>1. TypeOK'
  <2>1. {replied, cancelled, unknown, spoilt, forgotten}' \subseteq BOOLEAN
    BY DEF IInv, TypeOK
  <2>2. provider' \in 0..MaxReloads /\ steps' \in 0..MaxSteps
    BY HostTurnAssumption DEF IInv, TypeOK
  <2> QED
    BY <2>1, <2>2 DEF IInv, TypeOK
<1>2. Underway'
  BY DEF IInv, Underway, Whole
<1>3. Places'
  BY DEF IInv, TypeOK, Places, Closing
<1>4. Accounted'
  BY DEF IInv, Accounted, Learnt, Owed, Prepares
<1> QED
  BY <1>1, <1>2, <1>3, <1>4 DEF IInv

\* A deleted turn owes nothing.
LEMMA ForgetAccounted ==
  ASSUME IInv, Forget
  PROVE  IInv'
<1> USE DEF Forget, host
<1>1. TypeOK'
  BY DEF IInv, TypeOK, Runtime!Forget
<1>2. Underway'
  BY DEF IInv, Underway, Whole
<1>3. Places'
  BY DEF IInv, Places, Closing
<1>4. Accounted'
  BY DEF Accounted
<1> QED
  BY <1>1, <1>2, <1>3, <1>4 DEF IInv

\* The turn ends: settleTurn takes over what was pending.
LEMMA TurnEndAccounted ==
  ASSUME IInv, TurnEnd
  PROVE  IInv'
<1> USE DEF records, cycle
<1>1. /\ turn = "open" /\ turn' \in {"completed", "failed"} /\ replied' \in BOOLEAN
      /\ hook = "idle" \/ cancelled
      /\ UNCHANGED <<cycle, cancelled, steps, provider, plugin, hook, own, wire, records>>
  BY DEF TurnEnd
<1>2. {replied, cancelled, unknown, spoilt, forgotten}' \subseteq BOOLEAN
  BY <1>1 DEF IInv, TypeOK
<1>3. CASE Closing \/ pending = NoProvider
  <2>1. task' = task /\ pending' = pending
    BY <1>3 DEF TurnEnd
  <2>2. TypeOK'
    BY <1>1, <1>2, <2>1 DEF IInv, TypeOK
  <2>3. Underway'
    BY <1>1, <2>1 DEF IInv, Underway, Whole
  <2>4. Places'
    BY <1>1, <1>3, <2>1 DEF IInv, Places, Closing
  <2>5. Accounted'
    BY <1>1, <2>1 DEF IInv, Accounted, Learnt, Owed, Prepares
  <2> QED
    BY <2>2, <2>3, <2>4, <2>5 DEF IInv
<1>4. CASE ~(Closing \/ pending = NoProvider)
  <2>1. PICK s : s = Settlement(turn', replied') /\ Start("settle", s[1], s[2], pending)
    BY <1>4 DEF TurnEnd
  <2>2. s[1] \in Ends /\ Whole([op |-> s[1], arg |-> s[2]])
        /\ s[2] \in Texts \cup Reasons \cup {Reply}
    BY <2>1 DEF Settlement, Ends, Whole, Reasons, EndReasons
  <2>3. /\ task' \in [Functions -> Task]
        /\ task'["settle"].op = s[1] /\ task'["settle"].arg = s[2]
        /\ task'["settle"].state \in {"ready", "refused"}
        /\ \A g \in Functions \ {"settle"} : task'[g] = task[g]
    BY <2>1, <2>2, Started DEF IInv, TypeOK, Functions, Ends
  <2>4. pending' = NoProvider
    BY <1>4 DEF TurnEnd
  <2>5. TypeOK'
    BY <1>1, <1>2, <2>3, <2>4 DEF IInv, TypeOK
  <2>6. Underway'
    BY <1>1, <2>2, <2>3 DEF IInv, Underway, Whole, Ends
  <2>7. Places'
    BY <1>1, <2>2, <2>3, <2>4 DEF IInv, Places, Closing, Functions
  <2>8. Accounted'
    BY <1>1, <1>4, <2>2, <2>3 DEF IInv, Accounted, Learnt, Owed, Prepares, Functions
  <2> QED
    BY <2>5, <2>6, <2>7, <2>8 DEF IInv
<1> QED
  BY <1>3, <1>4

-----------------------------------------------------------------------------
\* A request is sent: it is the one the function waits for.
LEMMA SendAccounted ==
  ASSUME IInv, NEW f \in Functions, Send(f)
  PROVE  IInv'
<1> USE DEF cycle, host, records
<1>1. /\ task[f].state = "ready" /\ task' = [task EXCEPT ![f].state = "waiting"]
      /\ wire' = wire \cup {Request(f)}
      /\ UNCHANGED <<cycle, host, provider, plugin, pending, hook, own, records>>
  BY DEF Send
<1>2. /\ task' \in [Functions -> Task]
      /\ task'[f].op = task[f].op /\ task'[f].arg = task[f].arg /\ task'[f].state = "waiting"
      /\ \A g \in Functions \ {f} : task'[g] = task[g]
  BY <1>1 DEF IInv, TypeOK, Task
<1>3. /\ Request(f).op = task[f].op /\ Request(f).arg = task[f].arg /\ Request(f).from = f
      /\ task[f].op \in {"prepare", "commit", "abort"}
  BY <1>1 DEF Request, IInv, TypeOK, Task, Underway
<1>4. TypeOK'
  BY <1>1, <1>2 DEF IInv, TypeOK
<1>5. Underway'
  BY <1>1, <1>2, <1>3 DEF IInv, Underway, Whole
<1>6. Places'
  BY <1>1, <1>2 DEF IInv, Places, Closing, Functions
<1>7. task[f].op = "prepare" => Prepares(task[f].arg)
  BY DEF IInv, Places, Functions, Prepares, Ends
<1>8. Accounted'
  BY <1>1, <1>2, <1>3, <1>7 DEF IInv, Accounted, Learnt, Owed, Prepares, Functions
<1> QED
  BY <1>4, <1>5, <1>6, <1>8 DEF IInv

\* Another attempt forgets what the one before has learnt.
LEMMA RetryAccounted ==
  ASSUME IInv, NEW f \in Functions, Retry(f)
  PROVE  IInv'
<1> USE DEF cycle, host, records
<1>1. /\ task[f].state \in {"waiting", "rejected"} /\ task[f].attempt < Attempts
      /\ task' = [task EXCEPT ![f].state = "ready", ![f].attempt = @ + 1]
      /\ UNCHANGED <<cycle, host, provider, plugin, pending, hook, own, wire, records>>
  BY DEF Retry
<1>2. /\ task' \in [Functions -> Task]
      /\ task'[f].op = task[f].op /\ task'[f].arg = task[f].arg /\ task'[f].state = "ready"
      /\ \A g \in Functions \ {f} : task'[g] = task[g]
  BY <1>1, HostTurnAssumption DEF IInv, TypeOK, Task
<1>3. TypeOK'
  BY <1>1, <1>2 DEF IInv, TypeOK
<1>4. Underway'
  BY <1>1, <1>2 DEF IInv, Underway, Whole
<1>5. Places'
  BY <1>1, <1>2 DEF IInv, Places, Closing, Functions
<1>6. Accounted'
  BY <1>1, <1>2 DEF IInv, Accounted, Learnt, Owed, Prepares, Functions
<1> QED
  BY <1>3, <1>4, <1>5, <1>6 DEF IInv

\* A lost request changes nothing: whoever waits for it goes on waiting.
LEMMA LoseAccounted ==
  ASSUME IInv, NEW r \in wire, Lose(r)
  PROVE  IInv'
<1> USE DEF Lose, cycle, host, records
<1>1. TypeOK'
  BY DEF IInv, TypeOK
<1>2. Underway'
  BY DEF IInv, Underway, Whole
<1>3. Places'
  BY DEF IInv, Places, Closing
<1>4. Accounted'
  BY DEF IInv, Accounted, Learnt, Owed, Prepares
<1> QED
  BY <1>1, <1>2, <1>3, <1>4 DEF IInv

\* What an answer does to the operations: at most the one that waits for this request
\* learns of it.
LEMMA Answered ==
  ASSUME IInv, NEW r \in wire, NEW state \in {"ok", "rejected"}, Answer(r, state)
  PROVE  /\ task' \in [Functions -> Task]
         /\ \A f \in Functions :
              /\ task'[f].op = task[f].op /\ task'[f].arg = task[f].arg
              /\ \/ task'[f].state = task[f].state
                 \/ /\ task'[f].state = state /\ task[f].state = "waiting"
                    /\ task[f].op = r.op /\ task[f].arg = r.arg
<1>1. r.from \in Functions
  BY DEF IInv, Underway
<1>2. CASE task' = task
  BY <1>2 DEF IInv, TypeOK
<1>3. CASE /\ task' = [task EXCEPT ![r.from].state = state]
           /\ task[r.from].state = "waiting" /\ Request(r.from) = r
  <2>1. task[r.from].op = r.op /\ task[r.from].arg = r.arg
    <3>1. Request(r.from).op = task[r.from].op /\ Request(r.from).arg = task[r.from].arg
      BY DEF Request
    <3> QED
      BY <1>3, <3>1
  <2>2. task' \in [Functions -> Task]
    BY <1>1, <1>3 DEF IInv, TypeOK, Task
  <2> QED
    BY <1>1, <1>3, <2>1, <2>2 DEF IInv, TypeOK, Task
<1> QED
  BY <1>2, <1>3, Zenon DEF Answer

\* A request is served, in its turn or late: what is answered is so, and only a request
\* the hook waits for prepares the cycle, unless a prepare was given up.
LEMMA ServeAccounted ==
  ASSUME IInv, NEW r \in wire, Serve(r)
  PROVE  IInv'
<1> USE DEF host, records
<1>1. /\ wire' = wire \ {r}
      /\ UNCHANGED <<turn, replied, cancelled, steps, provider, plugin, pending, hook, own,
                     unknown, spoilt, forgotten>>
  BY DEF Serve
<1>2. r.op \in {"prepare", "commit", "abort"} /\ Whole(r)
  BY DEF IInv, Underway
<1>3. CASE ~Accepts(r) /\ Answer(r, "rejected") /\ UNCHANGED cycle
  <2>1. /\ task' \in [Functions -> Task]
        /\ \A f \in Functions :
             /\ task'[f].op = task[f].op /\ task'[f].arg = task[f].arg
             /\ \/ task'[f].state = task[f].state
                \/ /\ task'[f].state = "rejected" /\ task[f].state = "waiting"
                   /\ task[f].op = r.op /\ task[f].arg = r.arg
    BY <1>3, Answered
  <2>2. UNCHANGED <<phase, said, answer, why>>
    BY <1>3 DEF cycle
  <2>3. /\ r.op = "prepare" => phase # "absent" /\ (phase = "prepared" => said # r.arg)
        /\ r.op = "abort" => phase # "prepared"
    BY <1>3 DEF Accepts
  <2>4. TypeOK'
    BY <1>1, <2>1, <2>2 DEF IInv, TypeOK
  <2>5. Underway'
    BY <1>1, <2>1 DEF IInv, Underway, Whole
  <2>6. Places'
    BY <1>1, <2>1 DEF IInv, Places, Closing, Functions
  <2>7. Accounted'
    BY <1>1, <2>1, <2>2, <2>3 DEF IInv, Accounted, Learnt, Owed, Prepares, Functions
  <2> QED
    BY <2>4, <2>5, <2>6, <2>7 DEF IInv
<1>4. CASE Accepts(r) /\ Answer(r, "ok")
  <2>1. /\ task' \in [Functions -> Task]
        /\ \A f \in Functions :
             /\ task'[f].op = task[f].op /\ task'[f].arg = task[f].arg
             /\ \/ task'[f].state = task[f].state
                \/ /\ task'[f].state = "ok" /\ task[f].state = "waiting"
                   /\ task[f].op = r.op /\ task[f].arg = r.arg
    BY <1>4, Answered
  <2>2. Underway'
    BY <1>1, <2>1 DEF IInv, Underway, Whole
  <2>3. Places'
    BY <1>1, <2>1 DEF IInv, Places, Closing, Functions
  <2>4. CASE r.op = "prepare" /\ phase = "absent" /\ Runtime!Prepare /\ said' = r.arg
    <3>1. phase' = "prepared" /\ UNCHANGED <<answer, why>> /\ said' \in Texts
      BY <1>2, <2>4 DEF Runtime!Prepare, Whole
    <3>2. TypeOK'
      BY <1>1, <2>1, <3>1 DEF IInv, TypeOK
    <3>3. ~forgotten => unknown \/ Prepares(r.arg)
      BY <2>4 DEF IInv, Accounted
    <3>4. Accounted'
      BY <1>1, <2>1, <2>4, <3>1, <3>3 DEF IInv, Accounted, Learnt, Owed, Prepares, Functions, Ends
    <3> QED
      BY <2>2, <2>3, <3>2, <3>4 DEF IInv
  <2>5. CASE \/ r.op = "commit" /\ Runtime!Commit /\ answer' = r.arg
             \/ r.op = "abort"  /\ Runtime!Abort /\ why' = r.arg
    <3>1. /\ phase = "prepared" /\ phase' \in {"committed", "aborted"} /\ said' = said
          /\ answer' \in {answer, Reply} /\ why' \in {why} \cup Reasons
      BY <1>2, <2>5 DEF Runtime!Commit, Runtime!Abort, Whole
    <3>2. TypeOK'
      BY <1>1, <2>1, <3>1 DEF IInv, TypeOK
    <3>3. Accounted'
      BY <1>1, <2>1, <3>1 DEF IInv, Accounted, Learnt, Prepares
    <3> QED
      BY <2>2, <2>3, <3>2, <3>3 DEF IInv
  <2>6. CASE UNCHANGED cycle /\ phase # "absent" /\ (phase = "prepared" => r.op = "prepare")
    <3>1. UNCHANGED <<phase, said, answer, why>>
      BY <2>6 DEF cycle
    <3>2. TypeOK'
      BY <1>1, <2>1, <3>1 DEF IInv, TypeOK
    <3>3. Accounted'
      BY <1>1, <2>1, <2>6, <3>1 DEF IInv, Accounted, Learnt, Owed, Prepares, Functions, Ends
    <3> QED
      BY <2>2, <2>3, <3>2, <3>3 DEF IInv
  <2> QED
    BY <1>2, <1>4, <2>4, <2>5, <2>6 DEF Serve, Runtime!Prepare
<1> QED
  BY <1>3, <1>4 DEF Serve

-----------------------------------------------------------------------------
\* The hook goes on or gives up before it has prepared anything.
LEMMA HookNextAccounted ==
  ASSUME IInv, HookNext
  PROVE  IInv'
<1> USE DEF cycle, host, records
<1>1. /\ hook = "next"
      /\ UNCHANGED <<cycle, host, provider, plugin, pending, wire, records>>
  BY DEF HookNext
<1>2. task["hook"].op = "none" /\ "hook" \in Functions
  BY <1>1 DEF IInv, Places, Functions
<1>3. CASE hook' = "idle" /\ UNCHANGED <<task, own>>
  <2>1. TypeOK'
    BY <1>1, <1>3 DEF IInv, TypeOK
  <2>2. Underway'
    BY <1>1, <1>3 DEF IInv, Underway, Whole
  <2>3. Places'
    BY <1>1, <1>3 DEF IInv, Places, Closing
  <2>4. Accounted'
    BY <1>1, <1>3 DEF IInv, Accounted, Learnt, Owed, Prepares
  <2> QED
    BY <2>1, <2>2, <2>3, <2>4 DEF IInv
<1>4. CASE /\ ~cancelled /\ ~Closing /\ hook' = "prepare" /\ own' = provider
           /\ \E t \in Texts : Start("hook", "prepare", t, provider)
  <2>1. PICK t \in Texts : Start("hook", "prepare", t, provider)
    BY <1>4
  <2>2. /\ task' \in [Functions -> Task]
        /\ task'["hook"].op = "prepare" /\ task'["hook"].arg = t
        /\ task'["hook"].state \in {"ready", "refused"}
        /\ \A g \in Functions \ {"hook"} : task'[g] = task[g]
    BY <1>2, <2>1, Started DEF IInv, TypeOK
  <2>3. own' \in 0..MaxReloads
    BY <1>4 DEF IInv, TypeOK
  <2>4. TypeOK'
    BY <1>1, <1>4, <2>2, <2>3 DEF IInv, TypeOK
  <2>5. Underway'
    BY <1>1, <2>2 DEF IInv, Underway, Whole
  <2>6. own' # NoProvider
    BY <2>3 DEF NoProvider
  <2>7. Places'
    BY <1>1, <1>4, <2>2, <2>6 DEF IInv, TypeOK, Places, Closing, Functions
  <2>8. Accounted'
    BY <1>1, <1>2, <2>2 DEF IInv, Accounted, Learnt, Owed, Prepares, Functions, Ends
  <2> QED
    BY <2>4, <2>5, <2>7, <2>8 DEF IInv
<1> QED
  BY <1>3, <1>4 DEF HookNext

\* A step of the hook that starts an abort, in the place of a prepare that was answered.
LEMMA HookAbortStarts ==
  ASSUME IInv, hook = "prepare", Fulfilled("hook"),
         NEW reason \in Reasons, NEW p \in 0..MaxReloads \cup {NoProvider},
         Start("hook", "abort", reason, p), hook' \in {"abort", "replace"},
         UNCHANGED <<cycle, host, provider, plugin, pending, own, wire, unknown, forgotten>>,
         spoilt' \in BOOLEAN
  PROVE  IInv'
<1> USE DEF cycle, host
<1>1. /\ task["hook"].op = "prepare" /\ task["hook"].state = "ok" /\ "hook" \in Functions
      /\ own # NoProvider
  BY DEF IInv, Places, Functions, Fulfilled
<1>2. /\ task' \in [Functions -> Task]
      /\ task'["hook"].op = "abort" /\ task'["hook"].arg = reason
      /\ task'["hook"].state \in {"ready", "refused"}
      /\ \A g \in Functions \ {"hook"} : task'[g] = task[g]
  BY <1>1, Started DEF IInv
<1>3. TypeOK'
  <2>1. {replied, cancelled, unknown, spoilt, forgotten}' \subseteq BOOLEAN
    BY DEF IInv, TypeOK
  <2> QED
    BY <1>2, <2>1 DEF IInv, TypeOK
<1>4. Underway'
  BY <1>2 DEF IInv, Underway, Whole
<1>5. Places'
  BY <1>1, <1>2 DEF IInv, Places, Closing, Functions
<1>6. ~forgotten => phase # "absent"
  BY <1>1 DEF IInv, Accounted, Learnt
<1>7. Accounted'
  BY <1>1, <1>2, <1>6 DEF IInv, Accounted, Learnt, Owed, Prepares, Functions, Ends
<1> QED
  BY <1>3, <1>4, <1>5, <1>7 DEF IInv

\* A step that ends the operation of the hook, if what was owed by it no longer is.
LEMMA HookStops ==
  ASSUME IInv, hook \in {"prepare", "abort", "replace"}, Stop("hook"),
         hook' = "idle", own' = NoProvider,
         UNCHANGED <<cycle, host, provider, plugin, wire, spoilt, forgotten>>,
         pending' \in {pending, own}, pending' # NoProvider => turn = "open" \/ Closing,
         unknown' \in BOOLEAN, unknown => unknown',
         ~forgotten =>
           /\ pending' # NoProvider => phase # "absent"
           /\ hook = "prepare" => phase # "absent" \/ unknown'
           /\ phase = "prepared" => \/ unknown' \/ pending' # NoProvider
                                    \/ \E f \in Functions \ {"hook"} : task[f].op \in Ends
  PROVE  IInv'
<1> USE DEF cycle, host
<1>1. "hook" \in Functions
  BY DEF Functions
<1>2. /\ task' \in [Functions -> Task]
      /\ task'["hook"].op = "none" /\ task'["hook"].state = "idle"
      /\ \A g \in Functions \ {"hook"} : task'[g] = task[g]
  BY <1>1, Stopped DEF IInv
<1>3. TypeOK'
  <2>1. {replied, cancelled, unknown, spoilt, forgotten}' \subseteq BOOLEAN
    BY DEF IInv, TypeOK
  <2> QED
    BY <1>2, <2>1 DEF IInv, TypeOK
<1>4. Underway'
  BY <1>2 DEF IInv, Underway, Whole
<1>5. Places'
  BY <1>1, <1>2 DEF IInv, Places, Closing, Functions
<1>6. ASSUME ~forgotten
      PROVE  /\ \A f \in Functions : Learnt(f)'
             /\ \A r \in wire : r.op = "prepare" => phase # "absent" \/ unknown'
             /\ phase = "prepared" => unknown' \/ Owed'
  <2>1. \A f \in Functions : Learnt(f)'
    BY <1>2, <1>6 DEF IInv, Accounted, Learnt, Ends
  <2>2. \A r \in wire : r.op = "prepare" => phase # "absent" \/ unknown'
    BY <1>6 DEF IInv, Accounted, Prepares
  <2>3. phase = "prepared" => unknown' \/ Owed'
    BY <1>2, <1>6 DEF Owed
  <2> QED
    BY <2>1, <2>2, <2>3
<1>7. Accounted'
  BY <1>6 DEF Accounted
<1> QED
  BY <1>3, <1>4, <1>5, <1>7 DEF IInv

\* The hook's operation was fulfilled: a prepared turn is pending or replaced, or aborted
\* if it is not wanted any more.
LEMMA HookDoneAccounted ==
  ASSUME IInv, HookPrepared \/ HookReplaced \/ HookAborted
  PROVE  IInv'
<1>1. CASE HookPrepared
  <2>1. hook = "prepare" /\ Fulfilled("hook")
    BY <1>1 DEF HookPrepared
  <2>2. /\ task["hook"].op = "prepare" /\ task["hook"].state = "ok" /\ "hook" \in Functions
        /\ own # NoProvider
    BY <2>1 DEF IInv, Places, Functions, Fulfilled
  <2>3. ~forgotten => phase # "absent"
    BY <2>2 DEF IInv, Accounted, Learnt
  <2>4. CASE cancelled \/ Closing
    <3>1. PICK reason \in Reasons : Start("hook", "abort", reason, own)
      BY <1>1, <2>4 DEF HookPrepared, Reasons
    <3> QED
      BY <1>1, <2>1, <2>4, <3>1, HookAbortStarts DEF HookPrepared, IInv, TypeOK
  <2>5. CASE ~cancelled /\ ~Closing /\ pending \notin {NoProvider, own}
    <3>1. Start("hook", "abort", "prepared-turn-replaced", pending) /\ spoilt' \in BOOLEAN
      BY <1>1, <2>5 DEF HookPrepared
    <3> QED
      BY <1>1, <2>1, <2>5, <3>1, HookAbortStarts DEF HookPrepared, IInv, TypeOK, Reasons
  <2>6. CASE ~cancelled /\ ~Closing /\ ~(pending \notin {NoProvider, own})
    <3>1. turn = "open"
      BY <2>1, <2>6 DEF IInv, Places
    <3>2. /\ pending' = own /\ Stop("hook") /\ hook' = "idle" /\ own' = NoProvider
          /\ UNCHANGED <<spoilt, cycle, host, provider, plugin, wire, unknown, forgotten>>
      BY <1>1, <2>6 DEF HookPrepared
    <3> QED
      BY <2>1, <2>2, <2>3, <3>1, <3>2, HookStops DEF IInv, TypeOK
  <2> QED
    BY <2>4, <2>5, <2>6
<1>2. CASE HookReplaced \/ HookAborted
  <2>1. hook \in {"abort", "replace"} /\ Fulfilled("hook")
    BY <1>2 DEF HookReplaced, HookAborted
  <2>2. task["hook"].op = "abort" /\ task["hook"].state = "ok" /\ "hook" \in Functions
    BY <2>1 DEF IInv, Places, Functions, Fulfilled
  <2>3. ~forgotten => phase \notin {"absent", "prepared"}
    BY <2>2 DEF IInv, Accounted, Learnt, Ends
  <2>4. /\ Stop("hook") /\ hook' = "idle" /\ own' = NoProvider
        /\ UNCHANGED <<cycle, host, provider, plugin, wire, unknown, spoilt, forgotten>>
        /\ pending' = pending \/ (turn = "open" /\ pending' = own)
    BY <1>2 DEF HookReplaced, HookAborted, records
  <2>5. pending' # NoProvider => turn = "open" \/ Closing
    BY <2>4 DEF IInv, Places
  <2> QED
    BY <2>1, <2>3, <2>4, <2>5, HookStops DEF IInv, TypeOK
<1> QED
  BY <1>1, <1>2

\* The hook's operation failed: unless it was given up, the answer said that the cycle
\* has ended or belongs to another text, for which somebody else answers.
LEMMA HookFailsAccounted ==
  ASSUME IInv, HookFails
  PROVE  IInv'
<1>1. /\ Stop("hook") /\ hook' = "idle" /\ own' = NoProvider
      /\ UNCHANGED <<cycle, host, provider, plugin, pending, wire, spoilt, forgotten>>
      /\ unknown' = (unknown \/ task["hook"].state # "rejected")
      /\ task["hook"].op # "none" /\ "hook" \in Functions /\ task["hook"].state # "ok"
  BY DEF HookFails, Failed, Functions
<1>2. /\ hook \in {"prepare", "abort", "replace"}
      /\ task["hook"].op = (IF hook = "prepare" THEN "prepare" ELSE "abort")
  BY <1>1 DEF IInv, TypeOK, Places
<1>3. pending' # NoProvider => turn = "open" \/ Closing
  BY <1>1 DEF IInv, Places
<1>4. unknown' \in BOOLEAN /\ (unknown => unknown') /\ (task["hook"].state # "rejected" => unknown')
  BY <1>1, Zenon
<1>5. ASSUME ~forgotten, ~unknown'
      PROVE  /\ phase # "absent"
             /\ phase = "prepared" => \/ pending # NoProvider
                                      \/ \E f \in Functions \ {"hook"} : task[f].op \in Ends
  <2>1. task["hook"].state = "rejected" /\ ~unknown
    BY <1>4, <1>5
  <2>2. CASE hook = "prepare"
    BY <1>1, <1>2, <1>5, <2>1, <2>2 DEF IInv, Accounted, Learnt, Owed, Prepares, Ends
  <2>3. CASE hook # "prepare"
    BY <1>1, <1>2, <1>5, <2>1, <2>3 DEF IInv, Accounted, Learnt, Ends
  <2> QED
    BY <2>2, <2>3
<1>6. ~forgotten /\ pending # NoProvider => phase # "absent"
  BY DEF IInv, Accounted
<1> QED
  BY <1>1, <1>2, <1>3, <1>4, <1>5, <1>6, HookStops

-----------------------------------------------------------------------------
\* A step that ends the operation of settleTurn or the finalizer, when the cycle has
\* ended or the operation was given up.
LEMMA EndStops ==
  ASSUME IInv, NEW f \in {"settle", "finalizer"}, Stop(f), task[f].op \in Ends,
         UNCHANGED <<cycle, host, provider, plugin, pending, hook, own, wire, spoilt, forgotten>>,
         unknown' \in BOOLEAN, unknown => unknown',
         ~forgotten => phase # "prepared" \/ unknown'
  PROVE  IInv'
<1> USE DEF cycle, host
<1>1. f \in Functions
  BY DEF Functions
<1>2. /\ task' \in [Functions -> Task]
      /\ task'[f].op = "none" /\ task'[f].state = "idle"
      /\ \A g \in Functions \ {f} : task'[g] = task[g]
  BY <1>1, Stopped DEF IInv
<1>3. TypeOK'
  <2>1. {replied, cancelled, unknown, spoilt, forgotten}' \subseteq BOOLEAN
    BY DEF IInv, TypeOK
  <2> QED
    BY <1>2, <2>1 DEF IInv, TypeOK
<1>4. Underway'
  BY <1>2 DEF IInv, Underway, Whole
<1>5. Places'
  BY <1>1, <1>2 DEF IInv, Places, Closing, Functions
<1>6. Accounted'
  BY <1>2 DEF IInv, Accounted, Learnt, Prepares, Functions, Ends
<1> QED
  BY <1>3, <1>4, <1>5, <1>6 DEF IInv

\* settleTurn is done: after an answer, or after an abort that was given up.
LEMMA SettleAccounted ==
  ASSUME IInv, SettleDone \/ SettleFails
  PROVE  IInv'
<1>1. "settle" \in Functions /\ task["settle"].op \in Ends
  BY DEF SettleDone, SettleFails, Fulfilled, IInv, Places, Functions, Ends
<1>2. /\ Stop("settle")
      /\ UNCHANGED <<cycle, host, provider, plugin, pending, hook, own, wire, spoilt, forgotten>>
  BY DEF SettleDone, SettleFails, records
<1>3. /\ unknown' \in BOOLEAN /\ (unknown => unknown')
      /\ SettleFails => (task["settle"].state # "rejected" => unknown')
  <2>1. CASE SettleDone
    <3>1. unknown' = unknown /\ unknown \in BOOLEAN /\ task["settle"].state = "ok"
      BY <2>1 DEF SettleDone, Fulfilled, records, IInv, TypeOK
    <3>2. ~SettleFails
      BY <3>1 DEF SettleFails, Failed
    <3> QED
      BY <3>1, <3>2, Zenon
  <2>2. CASE SettleFails
    <3>1. unknown' = (unknown \/ task["settle"].state # "rejected")
      BY <2>2 DEF SettleFails
    <3> QED
      BY <3>1, Zenon
  <2> QED
    BY <2>1, <2>2
<1>4. ~forgotten => phase # "prepared" \/ unknown'
  BY <1>1, <1>3 DEF SettleDone, SettleFails, Fulfilled, IInv, Accounted, Learnt, Ends
<1> QED
  BY <1>1, <1>2, <1>3, <1>4, EndStops

\* A failed commit is followed by an abort.
LEMMA CommitFailsAccounted ==
  ASSUME IInv, CommitFails
  PROVE  IInv'
<1> USE DEF cycle, host
<1>1. /\ task["settle"].op = "commit" /\ "settle" \in Functions
      /\ Start("settle", "abort", "commit-failed", task["settle"].by) /\ spoilt' = TRUE
      /\ UNCHANGED <<cycle, host, provider, plugin, pending, hook, own, wire, unknown, forgotten>>
  BY DEF CommitFails, Functions
<1>2. "commit-failed" \in Reasons /\ task["settle"].by \in 0..MaxReloads \cup {NoProvider}
  BY <1>1 DEF Reasons, EndReasons, IInv, TypeOK, Task
<1>3. /\ task' \in [Functions -> Task]
      /\ task'["settle"].op = "abort" /\ task'["settle"].arg = "commit-failed"
      /\ task'["settle"].state \in {"ready", "refused"}
      /\ \A g \in Functions \ {"settle"} : task'[g] = task[g]
  BY <1>1, <1>2, Started DEF IInv
<1>4. TypeOK'
  <2>1. {replied, cancelled, unknown, spoilt, forgotten}' \subseteq BOOLEAN
    BY <1>1 DEF IInv, TypeOK
  <2> QED
    BY <1>1, <1>3, <2>1 DEF IInv, TypeOK
<1>5. Underway'
  BY <1>1, <1>2, <1>3 DEF IInv, Underway, Whole
<1>6. Places'
  BY <1>1, <1>3 DEF IInv, Places, Closing, Functions, Ends
<1>7. Accounted'
  BY <1>1, <1>3 DEF IInv, Accounted, Learnt, Owed, Prepares, Functions, Ends
<1> QED
  BY <1>4, <1>5, <1>6, <1>7 DEF IInv

\* The finalizer takes over what is pending, when no operation is left.
LEMMA DrainedAccounted ==
  ASSUME IInv, Drained
  PROVE  IInv'
<1> USE DEF cycle, host, records
<1>1. /\ plugin = "draining" /\ plugin' = "aborting" /\ pending' = NoProvider
      /\ \A f \in Functions : task[f].op = "none"
      /\ UNCHANGED <<cycle, host, provider, hook, own, wire, records>>
  BY DEF Drained, Active
<1>2. hook \in {"idle", "next"} /\ "finalizer" \in Functions
  BY <1>1 DEF IInv, TypeOK, Places, Functions
<1>3. CASE pending = NoProvider /\ task' = task
  <2>1. TypeOK'
    BY <1>1, <1>3 DEF IInv, TypeOK
  <2>2. Underway'
    BY <1>1, <1>3 DEF IInv, Underway, Whole
  <2>3. Places'
    BY <1>1, <1>2, <1>3 DEF IInv, Places, Closing, Functions
  <2>4. Accounted'
    BY <1>1, <1>3 DEF IInv, Accounted, Learnt, Owed, Prepares
  <2> QED
    BY <2>1, <2>2, <2>3, <2>4 DEF IInv
<1>4. CASE pending # NoProvider /\ Start("finalizer", "abort", "consumer-unloaded", pending)
  <2>1. "consumer-unloaded" \in Reasons /\ pending \in 0..MaxReloads \cup {NoProvider}
    BY DEF Reasons, IInv, TypeOK
  <2>2. /\ task' \in [Functions -> Task]
        /\ task'["finalizer"].op = "abort" /\ task'["finalizer"].arg = "consumer-unloaded"
        /\ task'["finalizer"].state \in {"ready", "refused"}
        /\ \A g \in Functions \ {"finalizer"} : task'[g] = task[g]
    BY <1>2, <1>4, <2>1, Started DEF IInv
  <2>3. TypeOK'
    BY <1>1, <2>2 DEF IInv, TypeOK
  <2>4. Underway'
    BY <1>1, <2>1, <2>2 DEF IInv, Underway, Whole
  <2>5. Places'
    BY <1>1, <1>2, <2>2 DEF IInv, Places, Closing, Functions
  <2>6. Accounted'
    BY <1>1, <1>4, <2>2 DEF IInv, Accounted, Learnt, Owed, Prepares, Functions, Ends
  <2> QED
    BY <2>3, <2>4, <2>5, <2>6 DEF IInv
<1> QED
  BY <1>3, <1>4 DEF Drained

\* The finalizer's abort is over, and then the consumer is gone.
LEMMA FinalizerAccounted ==
  ASSUME IInv, FinalizerAborts \/ Unloaded
  PROVE  IInv'
<1>1. CASE FinalizerAborts
  <2>1. "finalizer" \in Functions /\ task["finalizer"].op = "abort"
    BY <1>1 DEF FinalizerAborts, Fulfilled, Failed, IInv, Places, Functions
  <2>2. /\ Stop("finalizer")
        /\ UNCHANGED <<cycle, host, provider, plugin, pending, hook, own, wire, spoilt, forgotten>>
        /\ unknown' = (unknown \/ task["finalizer"].state \notin {"ok", "rejected"})
    BY <1>1 DEF FinalizerAborts
  <2>3. /\ unknown' \in BOOLEAN /\ (unknown => unknown')
        /\ task["finalizer"].state \notin {"ok", "rejected"} => unknown'
    BY <2>2, Zenon
  <2>4. ~forgotten => phase # "prepared" \/ unknown'
    BY <2>1, <2>3 DEF IInv, Accounted, Learnt, Ends
  <2> QED
    BY <2>1, <2>2, <2>3, <2>4, EndStops DEF Ends
<1>2. CASE Unloaded
  <2> USE DEF cycle, host, records
  <2>1. /\ plugin = "aborting" /\ plugin' = "unloaded"
        /\ \A f \in Functions : task[f].op = "none"
        /\ UNCHANGED <<cycle, host, provider, pending, hook, own, task, wire, records>>
    BY <1>2 DEF Unloaded, Active
  <2>2. TypeOK'
    BY <2>1 DEF IInv, TypeOK
  <2>3. Underway'
    BY <2>1 DEF IInv, Underway, Whole
  <2>4. Places'
    BY <2>1 DEF IInv, Places, Closing, Functions
  <2>5. Accounted'
    BY <2>1 DEF IInv, Accounted, Learnt, Owed, Prepares
  <2> QED
    BY <2>2, <2>3, <2>4, <2>5 DEF IInv
<1> QED
  BY <1>1, <1>2

-----------------------------------------------------------------------------
\* Every step keeps the account.
LEMMA NextIInv == IInv /\ [Next]_vars => IInv'
<1> SUFFICES ASSUME IInv, [Next]_vars PROVE IInv'
  OBVIOUS
<1>1. CASE UNCHANGED vars
  <2> USE <1>1 DEF vars, cycle, host, records
  <2>1. TypeOK'
    BY DEF IInv, TypeOK
  <2>2. Underway'
    BY DEF IInv, Underway, Whole
  <2>3. Places'
    BY DEF IInv, Places, Closing
  <2>4. Accounted'
    BY DEF IInv, Accounted, Learnt, Owed, Prepares
  <2> QED
    BY <2>1, <2>2, <2>3, <2>4 DEF IInv
<1>2. CASE \E f \in Functions : Send(f) \/ Retry(f)
  BY <1>2, SendAccounted, RetryAccounted
<1>3. CASE \E r \in wire : Serve(r) \/ Lose(r)
  BY <1>3, ServeAccounted, LoseAccounted
<1>4. CASE Hook \/ HookNext
  BY <1>4, HookNextAccounted, HookDoneAccounted, HookFailsAccounted DEF Hook
<1>5. CASE Settle \/ Finalizer
  BY <1>5, SettleAccounted, CommitFailsAccounted, DrainedAccounted, FinalizerAccounted
  DEF Settle, Finalizer
<1> QED
  BY <1>1, <1>2, <1>3, <1>4, <1>5, HostAccounted, ForgetAccounted, TurnEndAccounted DEF Next

\* The account holds in every state.
LEMMA InductiveInvariant == Spec => []IInv
  BY InitIInv, NextIInv, PTL DEF Spec

\* Every state of host, plugins and cycle is well typed.
THEOREM TypeCorrect == Spec => []TypeOK
<1>1. IInv => TypeOK
  BY DEF IInv
<1> QED
  BY <1>1, InductiveInvariant, PTL

\* Whatever is lost, late or repeated, and whenever the turn is cancelled, the provider
\* reloaded or the consumer unloaded: once nothing is under way, the cycle is not left
\* prepared, unless a prepare or an abort was given up or the turn was deleted.
THEOREM NothingLeftPreparedHolds == Spec => []NothingLeftPrepared
<1>1. IInv => NothingLeftPrepared
  <2> SUFFICES ASSUME IInv, Over, phase = "prepared", ~forgotten, ~unknown PROVE FALSE
    BY DEF NothingLeftPrepared
  <2>1. Owed
    BY DEF IInv, Accounted
  <2>2. \A f \in Functions : task[f].op = "none"
    BY DEF Over, Active
  <2>3. pending = NoProvider
    BY DEF Over, IInv, Places, Closing
  <2> QED
    BY <2>1, <2>2, <2>3 DEF Owed, Ends, Prepares, Over
<1> QED
  BY <1>1, InductiveInvariant, PTL
-----------------------------------------------------------------------------
(* The cycle of the turn *)

\* What the rest of the plugin and the host do leaves the cycle alone; a request that is
\* served and the user who deletes take one of its steps, or none.
LEMMA CycleSteps ==
  ASSUME [Next]_vars
  PROVE  [Runtime!Next]_(Runtime!turn)
<1> USE DEF cycle, host, records, vars
<1>1. UNCHANGED cycle => UNCHANGED Runtime!turn
  BY DEF Runtime!turn
<1>2. ASSUME NEW r \in wire, Serve(r)
      PROVE  UNCHANGED cycle \/ Runtime!Next
  BY <1>2 DEF Serve, Runtime!Next
<1>3. ASSUME NEW f \in Functions, Send(f) \/ Retry(f)
      PROVE  UNCHANGED cycle
  BY <1>3 DEF Send, Retry
<1>4. ASSUME NEW r \in wire, Lose(r)
      PROVE  UNCHANGED cycle
  BY <1>4 DEF Lose
<1>5. Forget => Runtime!Next
  BY DEF Forget, Runtime!Next
<1>6. PreStep \/ Cancel \/ TurnEnd \/ Reload \/ Unload \/ HookNext => UNCHANGED cycle
  BY DEF PreStep, Cancel, TurnEnd, Reload, Unload, HookNext
<1>7. Hook => UNCHANGED cycle
  BY DEF Hook, HookPrepared, HookReplaced, HookAborted, HookFails
<1>8. Settle => UNCHANGED cycle
  BY DEF Settle, SettleDone, CommitFails, SettleFails
<1>9. Finalizer => UNCHANGED cycle
  BY DEF Finalizer, Drained, FinalizerAborts, Unloaded
<1>10. CASE UNCHANGED vars
  BY <1>1, <1>10
<1> QED
  BY <1>1, <1>2, <1>3, <1>4, <1>5, <1>6, <1>7, <1>8, <1>9, <1>10 DEF Next

\* Requests lost, late and repeated, retries and reloads included, the turn a host runs is
\* one that TurnCycle describes: prepared once, ended once, never changed afterwards.
THEOREM HostKeepsCycle == Spec => Runtime!Spec
<1>1. Init => Runtime!Init
  BY DEF Init
<1>2. [Next]_vars => [Runtime!Next]_(Runtime!turn)
  BY CycleSteps
<1> QED
  BY <1>1, <1>2, PTL DEF Spec, Runtime!Spec
=============================================================================
