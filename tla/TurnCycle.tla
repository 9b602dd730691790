----------------------------- MODULE TurnCycle ------------------------------
(***************************************************************************)
(* What the runtime protocol promises about one turn                       *)
(* (docs/agent-runtime-protocol.md, sections 2 to 5):                      *)
(*                                                                         *)
(*            absent -> prepared -> committed                              *)
(*                      prepared -> aborted                                *)
(*                                                                         *)
(* Each arrow is taken at once.  What a turn was prepared with, and how it *)
(* ended, never change; only the physical deletion of one of its messages  *)
(* forgets the turn, as a whole.                                           *)
(***************************************************************************)
EXTENDS Sequences

CONSTANTS Texts, NoText, Queries, NoQuery, Memories, Reasons, NoReason

VARIABLES
  phase,    \* where the turn is
  said,     \* the user's message
  asked,    \* the recall query
  context,  \* the memories in the prepared ContextBundle
  answer,   \* the assistant's message
  cites,    \* the context memories the assistant used, in order
  why       \* the abort reason

turn == <<phase, said, asked, context, answer, cites, why>>

Init ==
  /\ phase = "absent" /\ said = NoText /\ asked = NoQuery /\ context = {}
  /\ answer = NoText /\ cites = <<>> /\ why = NoReason

Prepare ==
  /\ phase = "absent" /\ phase' = "prepared"
  /\ said' \in Texts /\ asked' \in Queries /\ context' \in SUBSET Memories
  /\ UNCHANGED <<answer, cites, why>>

Commit ==
  /\ phase = "prepared" /\ phase' = "committed"
  /\ answer' \in Texts
  /\ cites' \in Seq(context)
  /\ UNCHANGED <<said, asked, context, why>>

Abort ==
  /\ phase = "prepared" /\ phase' = "aborted"
  /\ why' \in Reasons
  /\ UNCHANGED <<said, asked, context, answer, cites>>

Forget ==
  /\ phase # "absent" /\ phase' = "absent"
  /\ said' = NoText /\ asked' = NoQuery /\ context' = {}
  /\ answer' = NoText /\ cites' = <<>> /\ why' = NoReason

Next == Prepare \/ Commit \/ Abort \/ Forget

Spec == Init /\ [][Next]_turn
=============================================================================
