------------------------- MODULE TurnProtocolProofs -------------------------
(***************************************************************************)
(* Proofs about TurnProtocol, for any sets of callers, messages, texts and *)
(* memories, and any number of crashes and deletions.  The inductive       *)
(* invariant IInv adds to the properties what each call still holds in its *)
(* arguments, and which columns of the cycle are set in which status.      *)
(***************************************************************************)
EXTENDS TurnProtocol, FiniteSetTheorems, TLAPS

\* The arguments a call holds at each point.
ArgsOK(c) ==
  /\ pc[c] \in {"checking", "writing", "recalling", "creating"} =>
       msg[c] \in Messages /\ text[c] \in Texts /\ ask[c] \in Queries
  /\ pc[c] = "committing" => msg[c] \in Replies /\ text[c] \in Texts
  /\ pc[c] = "queueing" => msg[c] \in L0Ids

\* The columns that are set in each status.
RowOK ==
  /\ status = "absent" => userMemory = NoMessage
  /\ status # "absent" => userMemory \in Messages
  /\ status # "committed" => assistantMemory = NoMessage
  /\ status = "committed" => assistantMemory \in Replies

IInv ==
  /\ TypeOK
  /\ \A c \in Calls : ArgsOK(c)
  /\ RowOK
  /\ TurnIsWhole
  /\ SignalsMatchCycle
  /\ AcceptedCallStands

\* The part of the state that is about the turn and not about the calls.
turnRows == <<memory, status, opening, ending, signals, forgotten>>

-----------------------------------------------------------------------------
\* Citations are sequences of memories.
LEMMA CitationsAreSeqs == Citations \subseteq Seq(Memories)
<1> SUFFICES ASSUME NEW s \in Citations PROVE s \in Seq(Memories)
  OBVIOUS
<1>1. PICK n \in 0..Cardinality(Memories) : s \in [1..n -> Memories]
  BY DEF Citations
<1>2. n \in Nat
  BY FS_CardinalityType, TurnProtocolAssumption
<1> QED
  BY <1>1, <1>2

\* The invariant holds in the initial states.
LEMMA InitIInv == Init => IInv
<1> SUFFICES ASSUME Init PROVE IInv
  OBVIOUS
<1> USE TurnProtocolAssumption DEF Init, NoCycle
<1>1. TypeOK
  <2>1. l0 \in [L0Ids -> Texts \cup {NoText}] /\ stored \subseteq Memories
        /\ injected \in [Memories -> Nat] /\ citedBy \in [Memories -> Nat] /\ jobs \subseteq L0Ids
    OBVIOUS
  <2>2. status \in CycleStatus /\ context \subseteq Memories /\ cited \in Seq(Memories)
    BY DEF CycleStatus
  <2>3. pc \in [Calls -> CallPC] /\ bundle \in [Calls -> SUBSET Memories]
        /\ cites \in [Calls -> Seq(Memories)]
    BY DEF CallPC
  <2>4. msg \in [Calls -> L0Ids \cup {NoMessage}] /\ text \in [Calls -> Texts \cup {NoText}]
        /\ ask \in [Calls -> Queries \cup {NoQuery}]
    OBVIOUS
  <2>5. crashes \in 0..MaxCrashes /\ purges \in 0..MaxPurges
    BY SMT
  <2>7. forgotten \in BOOLEAN
    BY Zenon
  <2>8. lost \subseteq L0Ids
    BY Zenon
  <2>6. /\ userMemory \in Messages \cup {NoMessage} /\ userText \in Texts \cup {NoText}
        /\ query \in Queries \cup {NoQuery} /\ abortReason \in Reasons \cup {NoReason}
        /\ assistantMemory \in Replies \cup {NoMessage} /\ assistantText \in Texts \cup {NoText}
    OBVIOUS
  <2> QED
    BY <2>1, <2>2, <2>3, <2>4, <2>5, <2>6, <2>7, <2>8 DEF TypeOK
<1>2. \A c \in Calls : ArgsOK(c)
  BY DEF ArgsOK
<1>3. RowOK /\ TurnIsWhole /\ SignalsMatchCycle
  BY DEF RowOK, TurnIsWhole, SignalsMatchCycle
<1>4. AcceptedCallStands
  BY DEF AcceptedCallStands, Recorded
<1> QED
  BY <1>1, <1>2, <1>3, <1>4 DEF IInv

\* The types of a call that Finish has ended.
LEMMA FinishType ==
  ASSUME TypeOK, NEW c \in Calls, Finish(c)
  PROVE  /\ pc' \in [Calls -> CallPC]
         /\ msg' \in [Calls -> L0Ids \cup {NoMessage}]
         /\ text' \in [Calls -> Texts \cup {NoText}]
         /\ ask' \in [Calls -> Queries \cup {NoQuery}]
         /\ bundle' \in [Calls -> SUBSET Memories]
         /\ cites' \in [Calls -> Seq(Memories)]
  BY DEF TypeOK, Finish, GoTo, CallPC

\* A step of one call that leaves the turn alone.
LEMMA LocalStep ==
  ASSUME IInv, NEW c \in Calls, UNCHANGED turnRows,
         /\ pc' \in [Calls -> CallPC]
         /\ msg' \in [Calls -> L0Ids \cup {NoMessage}]
         /\ text' \in [Calls -> Texts \cup {NoText}]
         /\ ask' \in [Calls -> Queries \cup {NoQuery}]
         /\ bundle' \in [Calls -> SUBSET Memories]
         /\ cites' \in [Calls -> Seq(Memories)],
         jobs' \subseteq L0Ids, crashes' \in 0..MaxCrashes, purges' \in 0..MaxPurges,
         lost' \subseteq L0Ids,
         \A d \in Calls \ {c} : /\ pc'[d] = pc[d] /\ msg'[d] = msg[d] /\ text'[d] = text[d]
                                /\ ask'[d] = ask[d] /\ cites'[d] = cites[d],
         ArgsOK(c)', ~forgotten => Recorded(c)'
  PROVE  IInv'
<1> USE DEF turnRows, memory, opening, ending, signals
<1>1. TypeOK'
  BY DEF IInv, TypeOK
<1>2. \A d \in Calls : ArgsOK(d)'
  BY DEF IInv, ArgsOK
<1>3. RowOK' /\ TurnIsWhole' /\ SignalsMatchCycle'
  BY DEF IInv, RowOK, TurnIsWhole, SignalsMatchCycle
<1>4. ASSUME ~forgotten, NEW d \in Calls \ {c}
      PROVE  Recorded(d)'
  BY <1>4 DEF IInv, AcceptedCallStands, Recorded
<1>5. AcceptedCallStands'
  BY <1>4 DEF AcceptedCallStands
<1> QED
  BY <1>1, <1>2, <1>3, <1>5 DEF IInv

\* A call that ends without touching the turn keeps the invariant.
LEMMA FinishStep ==
  ASSUME IInv, NEW c \in Calls, Finish(c), UNCHANGED turnRows,
         jobs' \subseteq L0Ids, crashes' \in 0..MaxCrashes, purges' \in 0..MaxPurges,
         lost' \subseteq L0Ids
  PROVE  IInv'
<1>1. pc'[c] = "idle"
  BY DEF IInv, TypeOK, Finish, GoTo
<1>2. ArgsOK(c)' /\ Recorded(c)'
  BY <1>1 DEF ArgsOK, Recorded
<1>3. \A d \in Calls \ {c} : /\ pc'[d] = pc[d] /\ msg'[d] = msg[d] /\ text'[d] = text[d]
                             /\ ask'[d] = ask[d] /\ cites'[d] = cites[d]
  BY DEF IInv, TypeOK, Finish, GoTo
<1> QED
  BY <1>2, <1>3, FinishType, LocalStep DEF IInv

\* BeginPrepare keeps the invariant.
LEMMA BeginPrepareStep ==
  ASSUME IInv, NEW c \in Calls, NEW m \in Messages, NEW t \in Texts, NEW q \in Queries,
         BeginPrepare(c, m, t, q)
  PROVE  IInv'
<1> USE DEF IInv, TypeOK, BeginPrepare, GoTo, history
<1>1. pc'[c] \in {"checking", "recalling"} /\ msg'[c] = m /\ text'[c] = t /\ ask'[c] = q
  OBVIOUS
<1>2. ArgsOK(c)' /\ Recorded(c)'
  BY <1>1 DEF ArgsOK, Recorded
<1>3. /\ pc' \in [Calls -> CallPC]
      /\ msg' \in [Calls -> L0Ids \cup {NoMessage}]
      /\ text' \in [Calls -> Texts \cup {NoText}]
      /\ ask' \in [Calls -> Queries \cup {NoQuery}]
  BY DEF CallPC, L0Ids
<1> QED
  BY <1>2, <1>3, LocalStep DEF turnRows

\* BeginCommit keeps the invariant.
LEMMA BeginCommitStep ==
  ASSUME IInv, NEW c \in Calls, NEW r \in Replies, NEW t \in Texts, NEW s \in Citations,
         BeginCommit(c, r, t, s)
  PROVE  IInv'
<1> USE DEF IInv, TypeOK, BeginCommit, GoTo, history
<1>1. pc'[c] = "committing" /\ msg'[c] = r /\ text'[c] = t
  OBVIOUS
<1>2. ArgsOK(c)' /\ Recorded(c)'
  BY <1>1 DEF ArgsOK, Recorded
<1>3. /\ pc' \in [Calls -> CallPC]
      /\ msg' \in [Calls -> L0Ids \cup {NoMessage}]
      /\ text' \in [Calls -> Texts \cup {NoText}]
      /\ cites' \in [Calls -> Seq(Memories)]
  BY CitationsAreSeqs DEF CallPC, L0Ids
<1> QED
  BY <1>2, <1>3, LocalStep DEF turnRows

\* A call that goes on to location l, and may replace its bundle.
LEMMA MoveStep ==
  ASSUME IInv, NEW c \in Calls, NEW l \in CallPC, GoTo(c, l),
         UNCHANGED <<turnRows, jobs, msg, text, ask, cites, history>>,
         bundle' \in [Calls -> SUBSET Memories],
         ArgsOK(c)', ~forgotten => Recorded(c)'
  PROVE  IInv'
  BY LocalStep DEF IInv, TypeOK, GoTo, history

\* CheckL0 keeps the invariant.
LEMMA CheckL0Step ==
  ASSUME IInv, NEW c \in Calls, CheckL0(c)
  PROVE  IInv'
<1>1. CASE GoTo(c, "writing") /\ UNCHANGED args
  <2>1. pc'[c] = "writing"
    BY <1>1 DEF IInv, TypeOK, GoTo
  <2>2. ArgsOK(c)' /\ Recorded(c)'
    BY <1>1, <2>1 DEF CheckL0, IInv, ArgsOK, Recorded, args
  <2> QED
    BY <1>1, <2>2, MoveStep DEF CheckL0, IInv, TypeOK, CallPC, turnRows, args, history
<1>2. CASE Finish(c)
  BY <1>2, FinishStep DEF CheckL0, IInv, TypeOK, turnRows, history
<1> QED
  BY <1>1, <1>2 DEF CheckL0

\* WriteL0 keeps the invariant.
LEMMA WriteL0Step ==
  ASSUME IInv, NEW c \in Calls, WriteL0(c)
  PROVE  IInv'
<1>1. /\ msg[c] \in Messages /\ text[c] \in Texts /\ ask[c] \in Queries
      /\ pc'[c] = "recalling" /\ \A d \in Calls \ {c} : pc'[d] = pc[d]
      /\ l0'[msg[c]] = text[c] /\ \A m \in L0Ids \ {msg[c]} : l0'[m] = l0[m]
  BY DEF WriteL0, IInv, TypeOK, ArgsOK, GoTo, L0Ids
<1> USE DEF WriteL0, GoTo, args, opening, ending, signals, history
<1>2. TypeOK'
  BY <1>1 DEF IInv, TypeOK, CallPC, L0Ids
<1>3. \A d \in Calls : ArgsOK(d)'
  BY <1>1 DEF IInv, ArgsOK
<1>4. RowOK' /\ SignalsMatchCycle'
  BY DEF IInv, RowOK, SignalsMatchCycle
<1>5. TurnIsWhole'
  BY <1>1, TurnProtocolAssumption DEF IInv, RowOK, TurnIsWhole, L0Ids
<1>6. AcceptedCallStands'
  BY <1>1 DEF IInv, AcceptedCallStands, Recorded
<1> QED
  BY <1>2, <1>3, <1>4, <1>5, <1>6 DEF IInv

\* BuildContext keeps the invariant.
LEMMA BuildContextStep ==
  ASSUME IInv, NEW c \in Calls, BuildContext(c)
  PROVE  IInv'
<1>1. pc'[c] = "creating" /\ bundle' \in [Calls -> SUBSET Memories]
  BY DEF BuildContext, IInv, TypeOK, GoTo
<1>2. ArgsOK(c)' /\ Recorded(c)'
  BY <1>1 DEF BuildContext, IInv, ArgsOK, Recorded
<1> QED
  BY <1>1, <1>2, MoveStep DEF BuildContext, CallPC, turnRows, history

\* InsertCycle keeps the invariant.
LEMMA InsertCycleStep ==
  ASSUME IInv, NEW c \in Calls, InsertCycle(c)
  PROVE  IInv'
<1>1. /\ msg[c] \in Messages /\ text[c] \in Texts /\ ask[c] \in Queries
      /\ bundle[c] \subseteq Memories
      /\ pc'[c] = "queueing" /\ \A d \in Calls \ {c} : pc'[d] = pc[d]
  BY DEF InsertCycle, IInv, TypeOK, ArgsOK, GoTo
<1> USE DEF InsertCycle, GoTo, args, memory, ending, history
<1>2. TypeOK'
  <2>1. injected' \in [Memories -> Nat]
    BY DEF IInv, TypeOK, Record
  <2>2. pc' \in [Calls -> CallPC] /\ status' \in CycleStatus
    BY DEF IInv, TypeOK, CallPC, CycleStatus
  <2> QED
    BY <1>1, <2>1, <2>2 DEF IInv, TypeOK
<1>3. \A d \in Calls : ArgsOK(d)'
  BY <1>1 DEF IInv, ArgsOK, L0Ids
<1>4. RowOK' /\ TurnIsWhole'
  BY <1>1 DEF IInv, RowOK, TurnIsWhole
<1>5. SignalsMatchCycle'
  BY DEF IInv, TypeOK, SignalsMatchCycle, Record
<1>6. ASSUME ~forgotten, NEW d \in Calls
      PROVE  Recorded(d)'
  <2>1. CASE d = c
    BY <1>1, <2>1, TurnProtocolAssumption DEF Recorded
  <2>2. CASE d # c
    BY <1>1, <1>6, <2>2 DEF IInv, TypeOK, AcceptedCallStands, Recorded, L0Ids
  <2> QED
    BY <2>1, <2>2
<1>7. AcceptedCallStands'
  BY <1>6 DEF AcceptedCallStands
<1> QED
  BY <1>2, <1>3, <1>4, <1>5, <1>7 DEF IInv

\* A call accepted with what is recorded keeps the invariant.
LEMMA AcceptStep ==
  ASSUME IInv, NEW c \in Calls, ReuseCycle(c) \/ RepeatCommit(c)
  PROVE  IInv'
<1>1. pc'[c] = "queueing" /\ GoTo(c, "queueing")
      /\ UNCHANGED <<turnRows, jobs, msg, text, ask, bundle, cites, history>>
  BY DEF ReuseCycle, RepeatCommit, IInv, TypeOK, GoTo, turnRows, args, history
<1>2. Recorded(c)'
  BY <1>1, TurnProtocolAssumption
  DEF ReuseCycle, RepeatCommit, IsRetry, IInv, ArgsOK, Recorded, turnRows, opening, ending
<1>3. ArgsOK(c)'
  BY <1>1 DEF ReuseCycle, RepeatCommit, IInv, ArgsOK, L0Ids
<1> QED
  BY <1>1, <1>2, <1>3, MoveStep DEF IInv, TypeOK, CallPC

\* A call that ends keeps the invariant.
LEMMA EndStep ==
  ASSUME IInv, NEW c \in Calls,
         RejectPrepare(c) \/ RejectCommit(c) \/ EnqueueFold(c) \/ Crash(c)
  PROVE  IInv'
<1>1. jobs' \subseteq L0Ids
  <2>1. CASE EnqueueFold(c)
    <3>1. msg[c] \in L0Ids
      BY <2>1, TurnProtocolAssumption DEF EnqueueFold, IInv, TypeOK, ArgsOK
    <3> QED
      BY <2>1, <3>1 DEF EnqueueFold, IInv, TypeOK
  <2> QED
    BY <2>1 DEF RejectPrepare, RejectCommit, Crash, IInv, TypeOK
<1>2. crashes' \in 0..MaxCrashes /\ purges' = purges
  BY TurnProtocolAssumption
  DEF RejectPrepare, RejectCommit, EnqueueFold, Crash, IInv, TypeOK, history
<1>3. Finish(c) /\ UNCHANGED turnRows
  BY DEF RejectPrepare, RejectCommit, EnqueueFold, Crash, turnRows, history
<1>4. lost' \subseteq L0Ids
  <2>1. CASE Crash(c)
    <3>1. pc[c] = "queueing" => msg[c] \in L0Ids
      BY DEF IInv, ArgsOK
    <3> QED
      BY <2>1, <3>1 DEF Crash, IInv, TypeOK
  <2> QED
    BY <2>1 DEF RejectPrepare, RejectCommit, EnqueueFold, IInv, TypeOK, history
<1> QED
  BY <1>1, <1>2, <1>3, <1>4, FinishStep DEF IInv, TypeOK

\* CommitCycle keeps the invariant.
LEMMA CommitCycleStep ==
  ASSUME IInv, NEW c \in Calls, CommitCycle(c)
  PROVE  IInv'
<1>1. /\ msg[c] \in Replies /\ text[c] \in Texts
      /\ pc'[c] = "queueing" /\ \A d \in Calls \ {c} : pc'[d] = pc[d]
      /\ l0'[msg[c]] = text[c] /\ \A m \in L0Ids \ {msg[c]} : l0'[m] = l0[m]
      /\ status = "prepared"
  BY DEF CommitCycle, MayCommit, IInv, TypeOK, ArgsOK, GoTo, L0Ids
<1> USE DEF CommitCycle, GoTo, args, opening, history
<1>2. TypeOK'
  <2>1. citedBy' \in [Memories -> Nat]
    BY DEF IInv, TypeOK, Record
  <2>2. pc' \in [Calls -> CallPC] /\ status' \in CycleStatus
        /\ l0' \in [L0Ids -> Texts \cup {NoText}]
    BY <1>1 DEF IInv, TypeOK, CallPC, CycleStatus
  <2> QED
    BY <1>1, <2>1, <2>2 DEF IInv, TypeOK
<1>3. \A d \in Calls : ArgsOK(d)'
  BY <1>1 DEF IInv, ArgsOK, L0Ids
<1>4. RowOK'
  BY <1>1 DEF IInv, RowOK
<1>5. TurnIsWhole'
  BY <1>1, TurnProtocolAssumption DEF IInv, RowOK, TurnIsWhole, MayCommit, L0Ids
<1>6. SignalsMatchCycle'
  BY <1>1 DEF IInv, TypeOK, SignalsMatchCycle, Record
<1>7. ASSUME ~forgotten, NEW d \in Calls
      PROVE  Recorded(d)'
  <2>1. CASE d = c
    BY <1>1, <2>1, TurnProtocolAssumption DEF Recorded
  <2>2. CASE d # c
    BY <1>1, <1>7, <2>2 DEF IInv, AcceptedCallStands, Recorded
  <2> QED
    BY <2>1, <2>2
<1>8. AcceptedCallStands'
  BY <1>7 DEF AcceptedCallStands
<1> QED
  BY <1>2, <1>3, <1>4, <1>5, <1>6, <1>8 DEF IInv

\* AbortCycle keeps the invariant.
LEMMA AbortCycleStep ==
  ASSUME IInv, NEW r \in Reasons, AbortCycle(r)
  PROVE  IInv'
<1> USE DEF AbortCycle, memory, opening, signals, args, history
<1>1. TypeOK'
  BY DEF IInv, TypeOK, CycleStatus
<1>2. \A d \in Calls : ArgsOK(d)'
  BY DEF IInv, ArgsOK
<1>3. RowOK' /\ TurnIsWhole' /\ SignalsMatchCycle'
  BY DEF IInv, RowOK, TurnIsWhole, SignalsMatchCycle
<1>4. AcceptedCallStands'
  BY DEF IInv, AcceptedCallStands, Recorded
<1> QED
  BY <1>1, <1>2, <1>3, <1>4 DEF IInv

\* PurgeMessage keeps the invariant.
LEMMA PurgeMessageStep ==
  ASSUME IInv, NEW m \in L0Ids, PurgeMessage(m)
  PROVE  IInv'
<1> USE TurnProtocolAssumption DEF PurgeMessage, signals, args
<1>1. l0'[m] = NoText /\ \A n \in L0Ids \ {m} : l0'[n] = l0[n]
  BY DEF IInv, TypeOK
<1>2. purges' \in 0..MaxPurges /\ l0' \in [L0Ids -> Texts \cup {NoText}]
  BY DEF IInv, TypeOK
<1>3. \A d \in Calls : ArgsOK(d)'
  BY DEF IInv, ArgsOK
<1>4. CASE m \in {userMemory, assistantMemory}
  <2>1. TypeOK'
    BY <1>2, <1>4 DEF IInv, TypeOK, ForgetCycle, CycleStatus
  <2>2. RowOK' /\ TurnIsWhole' /\ SignalsMatchCycle' /\ AcceptedCallStands'
    BY <1>4 DEF ForgetCycle, RowOK, TurnIsWhole, SignalsMatchCycle, AcceptedCallStands
  <2> QED
    BY <1>3, <2>1, <2>2 DEF IInv
<1>5. CASE m \notin {userMemory, assistantMemory}
  <2>0. UNCHANGED <<status, opening, ending, forgotten>>
    BY <1>5
  <2> USE <2>0 DEF opening, ending
  <2>1. TypeOK'
    BY <1>2 DEF IInv, TypeOK
  <2>2. RowOK' /\ SignalsMatchCycle'
    BY DEF IInv, RowOK, SignalsMatchCycle
  <2>3. TurnIsWhole'
    BY <1>1, <1>5 DEF IInv, RowOK, TurnIsWhole, L0Ids
  <2>4. AcceptedCallStands'
    BY DEF IInv, AcceptedCallStands, Recorded
  <2> QED
    BY <1>3, <2>1, <2>2, <2>3, <2>4 DEF IInv
<1> QED
  BY <1>4, <1>5

\* PurgeMemory keeps the invariant.
LEMMA PurgeMemoryStep ==
  ASSUME IInv, NEW k \in Memories, PurgeMemory(k)
  PROVE  IInv'
<1> USE DEF PurgeMemory, opening, ending, args
<1>1. TypeOK'
  BY TurnProtocolAssumption DEF IInv, TypeOK
<1>2. \A d \in Calls : ArgsOK(d)'
  BY DEF IInv, ArgsOK
<1>3. RowOK' /\ TurnIsWhole'
  BY DEF IInv, RowOK, TurnIsWhole
<1>4. SignalsMatchCycle'
  BY DEF IInv, TypeOK, SignalsMatchCycle
<1>5. AcceptedCallStands'
  BY DEF IInv, AcceptedCallStands, Recorded
<1> QED
  BY <1>1, <1>2, <1>3, <1>4, <1>5 DEF IInv

-----------------------------------------------------------------------------
\* Every step keeps the invariant.
LEMMA NextIInv == IInv /\ [Next]_vars => IInv'
<1> SUFFICES ASSUME IInv, [Next]_vars PROVE IInv'
  OBVIOUS
<1>1. ASSUME NEW c \in Calls, NEW m \in Messages, NEW t \in Texts, NEW q \in Queries,
             BeginPrepare(c, m, t, q)
      PROVE  IInv'
  BY <1>1, BeginPrepareStep
<1>2. ASSUME NEW c \in Calls, NEW r \in Replies, NEW t \in Texts, NEW s \in Citations,
             BeginCommit(c, r, t, s)
      PROVE  IInv'
  BY <1>2, BeginCommitStep
<1>3. ASSUME NEW c \in Calls, CallStep(c) \/ Crash(c)
      PROVE  IInv'
  BY <1>3, CheckL0Step, WriteL0Step, BuildContextStep, InsertCycleStep, AcceptStep, EndStep,
     CommitCycleStep DEF CallStep, PrepareStep, CommitStep
<1>4. ASSUME NEW r \in Reasons, AbortCycle(r)
      PROVE  IInv'
  BY <1>4, AbortCycleStep
<1>5. ASSUME NEW m \in L0Ids, PurgeMessage(m)
      PROVE  IInv'
  BY <1>5, PurgeMessageStep
<1>6. ASSUME NEW k \in Memories, PurgeMemory(k)
      PROVE  IInv'
  BY <1>6, PurgeMemoryStep
<1>7. CASE UNCHANGED vars
  BY <1>7 DEF vars, memory, opening, ending, signals, args, history, IInv, TypeOK, ArgsOK,
     RowOK, TurnIsWhole, SignalsMatchCycle, AcceptedCallStands, Recorded
<1> QED
  BY <1>1, <1>2, <1>3, <1>4, <1>5, <1>6, <1>7 DEF Next

\* The inductive invariant of the protocol.
LEMMA InductiveInvariant == Spec => []IInv
  BY InitIInv, NextIInv, PTL DEF Spec

\* Every state of the protocol is well typed.
THEOREM TypeCorrect == Spec => []TypeOK
<1>1. IInv => TypeOK
  BY DEF IInv
<1> QED
  BY <1>1, InductiveInvariant, PTL

\* The messages of a turn exist, its reply with the content the cycle records, and a
\* turn cites only memories of its context.
THEOREM TurnIsWholeHolds == Spec => []TurnIsWhole
<1>1. IInv => TurnIsWhole
  BY DEF IInv
<1> QED
  BY <1>1, InductiveInvariant, PTL

\* However many calls are repeated and overlap, a memory is counted as injected
\* and as cited once per turn.
THEOREM SignalsMatchCycleHolds == Spec => []SignalsMatchCycle
<1>1. IInv => SignalsMatchCycle
  BY DEF IInv
<1> QED
  BY <1>1, InductiveInvariant, PTL

\* Of conflicting concurrent calls at most one is accepted.
THEOREM AcceptedCallStandsHolds == Spec => []AcceptedCallStands
<1>1. IInv => AcceptedCallStands
  BY DEF IInv
<1> QED
  BY <1>1, InductiveInvariant, PTL

\* Only the user's capture can overwrite a message: replies are written once.
THEOREM RepliesAppendOnlyHolds == Spec => RepliesAppendOnly
<1> DEFINE Kept(r) == l0[r] # NoText => l0'[r] \in {l0[r], NoText}
<1>1. ASSUME IInv, [Next]_vars, NEW r \in Replies
      PROVE  Kept(r)
  <2>0. r \in L0Ids /\ r \notin Messages /\ l0 \in [L0Ids -> Texts \cup {NoText}]
    BY <1>1, TurnProtocolAssumption DEF IInv, TypeOK, L0Ids
  <2>1. CASE \E c \in Calls : WriteL0(c)
    BY <1>1, <2>0, <2>1 DEF WriteL0, IInv, ArgsOK
  <2>2. CASE \E c \in Calls : CommitCycle(c)
    BY <1>1, <2>0, <2>2 DEF CommitCycle, MayCommit
  <2>3. CASE \E m \in L0Ids : PurgeMessage(m)
    BY <2>0, <2>3 DEF PurgeMessage
  <2>4. CASE l0' = l0
    BY <2>4
  <2> QED
    BY <1>1, <2>1, <2>2, <2>3, <2>4
    DEF Next, CallStep, PrepareStep, CommitStep, BeginPrepare, CheckL0, BuildContext,
        InsertCycle, ReuseCycle, RejectPrepare, BeginCommit, RepeatCommit, RejectCommit,
        EnqueueFold, Crash, AbortCycle, PurgeMemory, vars, memory
<1>2. IInv /\ [Next]_vars => [\A r \in Replies : Kept(r)]_vars
  BY <1>1
<1> QED
  BY <1>2, InductiveInvariant, PTL DEF Spec, RepliesAppendOnly

-----------------------------------------------------------------------------
\* Message m is queued for folding, or a call that has been accepted will queue it or
\* died before it did.
OnTheWay(m) == m \in jobs \cup lost \/ \E c \in Calls : pc[c] = "queueing" /\ msg[c] = m

\* The strengthening of TurnIsQueued: what the turn records is queued, lost or still in
\* the hands of a call, not necessarily the one that recorded it.
Queued ==
  /\ status # "absent" => OnTheWay(userMemory)
  /\ status = "committed" => OnTheWay(assistantMemory)

\* A call that begins, goes on, ends or dies puts no message out of the way.
LEMMA StaysOnTheWay ==
  ASSUME IInv, [Next]_vars, NEW m, OnTheWay(m)
  PROVE  OnTheWay(m)'
<1>1. jobs \subseteq jobs' /\ lost \subseteq lost'
  BY DEF Next, CallStep, PrepareStep, CommitStep, BeginPrepare, CheckL0, WriteL0, BuildContext,
     InsertCycle, ReuseCycle, RejectPrepare, BeginCommit, CommitCycle, RepeatCommit,
     RejectCommit, EnqueueFold, Crash, AbortCycle, PurgeMessage, PurgeMemory, vars, history
<1>2. CASE m \in jobs \cup lost
  BY <1>1, <1>2 DEF OnTheWay
<1>3. ASSUME NEW c \in Calls, pc[c] = "queueing", msg[c] = m
      PROVE  OnTheWay(m)'
  <2>1. CASE EnqueueFold(c)
    BY <1>3, <2>1 DEF EnqueueFold, OnTheWay
  <2>2. CASE pc'[c] = pc[c] /\ msg'[c] = msg[c]
    BY <1>3, <2>2 DEF OnTheWay
  <2>3. ASSUME NEW d \in Calls, CallStep(d), d # c
        PROVE  pc'[c] = pc[c] /\ msg'[c] = msg[c]
    BY <2>3 DEF CallStep, PrepareStep, CommitStep, CheckL0, WriteL0, BuildContext, InsertCycle,
       ReuseCycle, RejectPrepare, CommitCycle, RepeatCommit, RejectCommit, EnqueueFold, GoTo,
       Finish, args, IInv, TypeOK
  <2>4. CASE CallStep(c)
    BY <1>3, <2>1, <2>4 DEF CallStep, PrepareStep, CommitStep, CheckL0, WriteL0, BuildContext,
       InsertCycle, ReuseCycle, RejectPrepare, CommitCycle, RepeatCommit, RejectCommit
  <2>5. CASE \E d \in Calls :
               \/ \E k \in Messages, t \in Texts, q \in Queries : BeginPrepare(d, k, t, q)
               \/ \E r \in Replies, t \in Texts, s \in Citations : BeginCommit(d, r, t, s)
    <3>1. PICK d \in Calls :
               \/ \E k \in Messages, t \in Texts, q \in Queries : BeginPrepare(d, k, t, q)
               \/ \E r \in Replies, t \in Texts, s \in Citations : BeginCommit(d, r, t, s)
      BY <2>5
    <3>2. d # c
      BY <1>3, <3>1 DEF BeginPrepare, BeginCommit
    <3>3. pc'[c] = pc[c] /\ msg'[c] = msg[c]
      BY <3>1, <3>2 DEF BeginPrepare, BeginCommit, GoTo, IInv, TypeOK
    <3> QED
      BY <2>2, <3>3
  <2>6. CASE \E d \in Calls : Crash(d)
    <3>1. PICK d \in Calls : Crash(d)
      BY <2>6
    <3>2. CASE d = c
      BY <1>3, <3>1, <3>2 DEF Crash, OnTheWay
    <3>3. CASE d # c
      <4>1. pc'[c] = pc[c] /\ msg'[c] = msg[c]
        BY <3>1, <3>3 DEF Crash, Finish, GoTo, IInv, TypeOK
      <4> QED
        BY <2>2, <4>1
    <3> QED
      BY <3>2, <3>3
  <2>7. CASE pc' = pc /\ msg' = msg
    BY <2>2, <2>7
  <2> QED
    BY <2>2, <2>3, <2>4, <2>5, <2>6, <2>7
    DEF Next, AbortCycle, PurgeMessage, PurgeMemory, vars, args
<1> QED
  BY <1>2, <1>3 DEF OnTheWay

\* The turn starts with nothing to queue.
LEMMA InitQueued == Init => Queued
  BY DEF Init, NoCycle, Queued

\* What a step newly records is in the hands of the call that brought it.
LEMMA NextQueued == IInv /\ Queued /\ [Next]_vars => Queued'
<1> SUFFICES ASSUME IInv, Queued, [Next]_vars PROVE Queued'
  OBVIOUS
<1>1. CASE UNCHANGED <<status, userMemory, assistantMemory>>
  BY <1>1, StaysOnTheWay DEF Queued
<1>2. CASE \E c \in Calls : InsertCycle(c)
  <2>1. PICK c \in Calls : InsertCycle(c)
    BY <1>2
  <2>2. pc'[c] = "queueing" /\ msg'[c] = msg[c] /\ userMemory' = msg[c] /\ status' = "prepared"
    BY <2>1 DEF InsertCycle, GoTo, args, IInv, TypeOK
  <2> QED
    BY <2>2 DEF Queued, OnTheWay
<1>3. CASE \E c \in Calls : CommitCycle(c)
  <2>1. PICK c \in Calls : CommitCycle(c)
    BY <1>3
  <2>2. /\ pc'[c] = "queueing" /\ msg'[c] = msg[c] /\ assistantMemory' = msg[c]
        /\ userMemory' = userMemory /\ status = "prepared"
    BY <2>1 DEF CommitCycle, MayCommit, GoTo, args, opening, IInv, TypeOK
  <2>3. OnTheWay(userMemory)'
    BY <2>2, StaysOnTheWay DEF Queued, OnTheWay
  <2> QED
    BY <2>2, <2>3 DEF Queued, OnTheWay
<1>4. CASE \E r \in Reasons : AbortCycle(r)
  <2>1. status = "prepared" /\ status' = "aborted" /\ userMemory' = userMemory
    BY <1>4 DEF AbortCycle, opening
  <2>2. OnTheWay(userMemory)'
    BY <2>1, StaysOnTheWay DEF Queued, OnTheWay
  <2> QED
    BY <2>1, <2>2 DEF Queued
<1>5. CASE \E m \in L0Ids : PurgeMessage(m) /\ m \in {userMemory, assistantMemory}
  BY <1>5 DEF PurgeMessage, ForgetCycle, Queued
<1> QED
  BY <1>1, <1>2, <1>3, <1>4, <1>5
  DEF Next, CallStep, PrepareStep, CommitStep, BeginPrepare, CheckL0, WriteL0, BuildContext,
      ReuseCycle, RejectPrepare, BeginCommit, RepeatCommit, RejectCommit, EnqueueFold, Crash,
      PurgeMessage, PurgeMemory, vars, opening, ending

\* The message and the reply of the turn are queued for folding once no call is left,
\* whichever call queues them and however the calls overlap, unless the call that
\* brought them died before it did.
THEOREM TurnIsQueuedHolds == Spec => []TurnIsQueued
<1>1. Queued => TurnIsQueued
  BY DEF Queued, OnTheWay, TurnIsQueued
<1> QED
  BY <1>1, InitQueued, NextQueued, InductiveInvariant, PTL DEF Spec
-----------------------------------------------------------------------------
\* A sequence whose entries lie in a set is a sequence over it.
LEMMA SeqOver ==
  ASSUME NEW S, NEW T, NEW s \in Seq(S), Cites(s) \subseteq T
  PROVE  s \in Seq(T)
<1>1. Len(s) \in Nat /\ s \in [1..Len(s) -> S] /\ DOMAIN s = 1..Len(s)
  OBVIOUS
<1>2. \A i \in 1..Len(s) : s[i] \in T
  BY <1>1 DEF Cites
<1>3. s \in [1..Len(s) -> T]
  BY <1>1, <1>2
<1> QED
  BY <1>1, <1>3

\* The initial states are initial states of the abstract turn.
LEMMA InitRefines == Init => Cycle!Init
  BY DEF Init, NoCycle, Cycle!Init

\* Each step of the protocol is a step of the abstract turn or leaves it alone.
LEMMA StepRefines == IInv /\ [Next]_vars => [Cycle!Next]_Cycle!turn
<1> SUFFICES ASSUME IInv, [Next]_vars PROVE Cycle!Next \/ UNCHANGED Cycle!turn
  OBVIOUS
<1>1. ASSUME NEW c \in Calls, InsertCycle(c)
      PROVE  Cycle!Prepare
  BY <1>1 DEF InsertCycle, IInv, TypeOK, ArgsOK, Cycle!Prepare, ending
<1>2. ASSUME NEW c \in Calls, CommitCycle(c)
      PROVE  Cycle!Commit
  <2>1. cites[c] \in Seq(context)
    <3>1. cites[c] \in Seq(Memories) /\ Cites(cites[c]) \subseteq context
      BY <1>2 DEF CommitCycle, MayCommit, IInv, TypeOK
    <3> QED
      BY <3>1, SeqOver
  <2> QED
    BY <1>2, <2>1 DEF CommitCycle, MayCommit, IInv, ArgsOK, Cycle!Commit, opening
<1>3. ASSUME NEW r \in Reasons, AbortCycle(r)
      PROVE  Cycle!Abort
  BY <1>3 DEF AbortCycle, Cycle!Abort, opening
<1>4. ASSUME NEW m \in L0Ids, PurgeMessage(m)
      PROVE  Cycle!Forget \/ UNCHANGED Cycle!turn
  <2>1. CASE m \in {userMemory, assistantMemory}
    <3>1. status # "absent"
      BY <2>1, TurnProtocolAssumption DEF IInv, RowOK, L0Ids
    <3> QED
      BY <1>4, <2>1, <3>1 DEF PurgeMessage, ForgetCycle, Cycle!Forget
  <2>2. CASE m \notin {userMemory, assistantMemory}
    BY <1>4, <2>2 DEF PurgeMessage, Cycle!turn, opening, ending
  <2> QED
    BY <2>1, <2>2
<1>5. CASE UNCHANGED <<status, opening, ending>>
  BY <1>5 DEF Cycle!turn, opening, ending
<1> QED
  BY <1>1, <1>2, <1>3, <1>4, <1>5
  DEF Next, CallStep, PrepareStep, CommitStep, BeginPrepare, CheckL0, WriteL0, BuildContext,
      ReuseCycle, RejectPrepare, BeginCommit, RepeatCommit, RejectCommit, EnqueueFold, Crash,
      PurgeMemory, vars, Cycle!Next

\* The interleaved transactions of all calls implement the turn the protocol
\* documents.
THEOREM Refinement == Spec => ImplementsTurnCycle
<1>1. ImplementsTurnCycle <=> Cycle!Spec
  BY DEF ImplementsTurnCycle
<1> QED
  BY <1>1, InitRefines, StepRefines, InductiveInvariant, PTL DEF Spec, Cycle!Spec
=============================================================================
