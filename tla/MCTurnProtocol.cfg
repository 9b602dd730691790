CONSTANTS
  Calls = {c1, c2}
  Messages = {u1, u2}
  Replies = {a1}
  Texts = {t1, t2}
  Queries = {q1}
  Memories = {m1}
  Reasons = {r1}
  NoMessage = NoMessage
  NoText = NoText
  NoQuery = NoQuery
  NoReason = NoReason
  MaxCrashes = 1
  MaxPurges = 1
SPECIFICATION Spec
SYMMETRY Symmetry
INVARIANTS
  TurnIsWhole
  SignalsMatchCycle
  AcceptedCallStands
  TurnIsQueued
PROPERTIES
  RepliesAppendOnly
  ImplementsTurnCycle
