----------------------- MODULE MemoryLifecycleProofs -----------------------
(* Proofs about MemoryLifecycle, for any number of workers and users, any   *)
(* policy and any number of signals and crashes.                            *)
EXTENDS MemoryLifecycle, TLAPS

USE DEF Texts, Scores, Actors

\* The bounds of the policy, as the provers need them.
LEMMA Ranges == MinUp \in Nat \ {0} /\ MinDown \in Nat \ {0} /\ MinUseful \in Nat
                /\ MaxSignals \in Nat /\ MaxCrashes \in Nat
                /\ \A t \in 1..4 : AgeDue[t] \in Nat
  BY MemoryLifecycleAssumption

-----------------------------------------------------------------------------
(* What the operators on rows return *)

\* A governance cycle scores a row into a row.
LEMMA ScoredType ==
  ASSUME NEW s \in Row, NEW score \in Scores
  PROVE  Scored(s, score) \in Row
<1> DEFINE f == score \in {"faint", "low"}
           a == Cap(s.age + 1, AgeDue[4])
           u == IF score = "high" THEN Cap(s.up + 1, MinUp) ELSE 0
           d == IF score = "low" THEN Cap(s.down + 1, MinDown) ELSE 0
<1>1. a \in 0..AgeDue[4] /\ u \in 0..MinUp /\ d \in 0..MinDown
  BY Ranges DEF Row, Cap
<1>2. f \in BOOLEAN
  BY DEF f
<1>3. Scored(s, score) = [s EXCEPT !.faint = f, !.age = a, !.up = u, !.down = d]
  BY Zenon DEF Scored
<1> HIDE DEF f, a, u, d
<1> QED
  BY <1>1, <1>2, <1>3 DEF Row

\* Promotion and demotion make rows of rows.
LEMMA TransitionType ==
  ASSUME NEW s \in Row, NEW sound \in BOOLEAN, NEW conflict \in BOOLEAN, NEW full \in BOOLEAN
  PROVE  Transition(s, sound, conflict, full) \in Row
<1>1. Promoted(s) \in Row
  <2> DEFINE st == IF s.status = "observing" THEN "active" ELSE s.status
             l  == "long"
             z  == 0
  <2>1. /\ st \in {"active", "observing", "compressed", "tombstoned"}
        /\ l \in {"short", "long"} /\ z \in 0..MinUp
    BY Ranges DEF Row
  <2>2. Promoted(s) = [s EXCEPT !.life = l, !.up = z, !.status = st]
    BY Zenon DEF Promoted
  <2> HIDE DEF st, l, z
  <2> QED
    BY <2>1, <2>2 DEF Row
<1>2. Demoted(s) \in Row
  <2> DEFINE st == "observing"
             l  == "short"
             z  == 0
             o  == "open"
  <2>1. /\ st \in {"active", "observing", "compressed", "tombstoned"}
        /\ l \in {"short", "long"} /\ z \in 0..MinDown /\ o \in {"none", "open", "over"}
    BY Ranges
  <2>2. Demoted(s) = [s EXCEPT !.life = l, !.down = z, !.status = st, !.until = o]
    BY Zenon DEF Demoted
  <2> HIDE DEF st, l, z, o
  <2> DEFINE h == [s EXCEPT !.life = l, !.down = z]
  <2>3. h \in Row
    BY <2>1 DEF Row
  <2>4. Demoted(s) = [h EXCEPT !.status = st, !.until = o]
    BY <2>2 DEF Row
  <2> HIDE DEF h
  <2> QED
    BY <2>1, <2>3, <2>4 DEF Row
<1> QED
  BY <1>1, <1>2 DEF Transition

\* A rescue makes a row, given a marker that names a text.
LEMMA RescuedType ==
  ASSUME NEW s \in Row, s.marker \in Texts
  PROVE  Rescued(s) \in Row
<1> DEFINE c  == s.marker
           st == "active"
           u  == s.useful
           t  == IF s.tier = 0 THEN 0 ELSE s.tier - 1
           o  == "none"
<1>1. /\ c \in Texts /\ st \in {"active", "observing", "compressed", "tombstoned"}
      /\ u \in 0..MaxSignals /\ t \in 0..4 /\ o \in {"none", "open", "over"}
  BY DEF Row
<1>2. Rescued(s) = [s EXCEPT !.content = c, !.status = st, !.base = u, !.tier = t, !.until = o]
  BY Zenon DEF Rescued
<1> HIDE DEF c, st, u, t, o
<1> QED
  BY <1>1, <1>2 DEF Row

\* A compression makes a row, given a tier to go to.
LEMMA CompressedType ==
  ASSUME NEW s \in Row, s.tier < 4, NEW text \in Texts
  PROVE  Compressed(s, text) \in Row
<1> DEFINE c  == "rendering"
           st == IF s.tier = 3 THEN "observing" ELSE "compressed"
           u  == s.useful
           t  == s.tier + 1
           o  == IF s.tier = 3 THEN "open" ELSE s.until
           x  == text
<1>1. /\ c \in Texts /\ st \in {"active", "observing", "compressed", "tombstoned"}
      /\ u \in 0..MaxSignals /\ t \in 0..4 /\ o \in {"none", "open", "over"}
      /\ x \in Texts \cup {"none"}
  BY DEF Row
<1>2. Compressed(s, text) = [s EXCEPT !.content = c, !.marker = x, !.base = u, !.tier = t,
                                      !.status = st, !.until = o]
  BY Zenon DEF Compressed
<1> HIDE DEF c, st, u, t, o, x
<1> DEFINE h == [s EXCEPT !.content = c, !.marker = x, !.base = u]
<1>3. h \in Row
  BY <1>1 DEF Row
<1>4. Compressed(s, text) = [h EXCEPT !.tier = t, !.status = st, !.until = o]
  BY <1>2 DEF Row
<1> HIDE DEF h
<1> QED
  BY <1>1, <1>3, <1>4 DEF Row

\* What compression and users own in a row is the same.
Untouched(r, s) ==
  /\ r.content = s.content /\ r.marker = s.marker /\ r.tier = s.tier
  /\ r.useful = s.useful /\ r.base = s.base /\ r.pinned = s.pinned

\* A governance cycle leaves alone what compression and users own.
LEMMA Governed ==
  ASSUME NEW s \in Row, NEW score \in Scores,
         NEW sound \in BOOLEAN, NEW conflict \in BOOLEAN, NEW full \in BOOLEAN
  PROVE  /\ Transition(Scored(s, score), sound, conflict, full) \in Row
         /\ Untouched(Transition(Scored(s, score), sound, conflict, full), s)
<1>1. Scored(s, score) \in Row /\ Untouched(Scored(s, score), s)
  <2>1. Scored(s, score) \in Row
    BY ScoredType
  <2> QED
    BY <2>1 DEF Scored, Row, Untouched
<1>2. ASSUME NEW u \in Row
      PROVE  Untouched(Promoted(u), u) /\ Untouched(Demoted(u), u)
  BY DEF Promoted, Demoted, Row, Untouched
<1> DEFINE t == Scored(s, score)
<1>3. t \in Row /\ Untouched(t, s) /\ Untouched(Promoted(t), t) /\ Untouched(Demoted(t), t)
  BY <1>1, <1>2
<1>4. Transition(t, sound, conflict, full) \in Row
  BY <1>3, TransitionType
<1>5. Transition(t, sound, conflict, full) \in {Promoted(t), Demoted(t), t}
  BY DEF Transition
<1> HIDE DEF t
<1>6. Untouched(Transition(t, sound, conflict, full), s)
  BY <1>3, <1>5 DEF Untouched
<1> QED
  BY <1>4, <1>6 DEF t

\* The passing of time changes nothing but the observation.
LEMMA OverType ==
  ASSUME NEW s \in Row
  PROVE  /\ Over(s) \in Row
         /\ Over(s).content = s.content /\ Over(s).marker = s.marker /\ Over(s).tier = s.tier
         /\ Over(s).useful = s.useful /\ Over(s).base = s.base /\ Over(s).pinned = s.pinned
         /\ Over(s).up = s.up /\ Over(s).down = s.down /\ Over(s).life = s.life
  BY DEF Over, Row

\* What an idle actor holds.
LEMMA NoCopyType ==
  NoCopy \in Row /\ NoCopy.useful = 0 /\ NoCopy.base = 0 /\ NoCopy.tier = 0
  /\ NoCopy.marker = "none" /\ NoCopy.content = "original"
  BY Ranges DEF NoCopy, NewRow, Row

-----------------------------------------------------------------------------
(* Types.  Signals bound every count in the row and its copies, and what a  *)
(* worker is about to write fits.                                           *)

Counted == row.useful <= signals /\ \A a \in Actors : copy[a].useful <= signals

Ready ==
  \A a \in Actors :
    /\ pc[a] = "rescue" => copy[a].marker \in Texts
    /\ pc[a] = "compress" => copy[a].tier < 4

TypeInv == TypeOK /\ Counted /\ Ready

\* put_memory_unit writes a row and keeps the types.
LEMMA PutType ==
  ASSUME TypeOK, NEW a \in Actors, NEW r \in Row, Put(a, r)
  PROVE  row' \in Row /\ stored' \in BOOLEAN /\ stale' \in BOOLEAN
<1>1. row' \in Row /\ stored' \in BOOLEAN
  BY DEF Put
<1>2. stale' \in BOOLEAN
  BY DEF Put, TypeOK
<1> QED
  BY <1>1, <1>2

\* An actor that leaves keeps the types, and nobody else moves.
LEMMA LeaveType ==
  ASSUME TypeInv, NEW a \in Actors, Leave(a)
  PROVE  /\ pc' \in [Actors -> {"idle"} \cup WorkerPC \cup UserPC]
         /\ copy' \in [Actors -> Row]
         /\ source' \in [Actors -> Texts]
         /\ \A b \in Actors : copy'[b].useful <= signals
         /\ \A b \in Actors : pc'[b] # "idle" => pc'[b] = pc[b] /\ copy'[b] = copy[b]
         /\ Ready'
<1>1. signals \in Nat
  BY Ranges DEF TypeInv, TypeOK
<1>2. /\ pc' \in [Actors -> {"idle"} \cup WorkerPC \cup UserPC]
      /\ copy' \in [Actors -> Row]
      /\ source' \in [Actors -> Texts]
  BY NoCopyType DEF TypeInv, TypeOK, Leave, GoTo
<1>3. \A b \in Actors : pc'[b] = (IF b = a THEN "idle" ELSE pc[b])
                        /\ copy'[b] = (IF b = a THEN NoCopy ELSE copy[b])
  BY DEF TypeInv, TypeOK, Leave, GoTo
<1>4. \A b \in Actors : copy'[b].useful <= signals
  BY <1>1, <1>3, NoCopyType DEF TypeInv, Counted
<1>5. Ready'
  BY <1>3 DEF TypeInv, Ready
<1> QED
  BY <1>2, <1>3, <1>4, <1>5

\* The types hold in the initial states.
LEMMA TypeInit == Init => TypeInv
<1> SUFFICES ASSUME Init PROVE TypeInv
  OBVIOUS
<1>1. /\ NewRow("short", "active") \in Row /\ NewRow("short", "observing") \in Row
      /\ NewRow("long", "active") \in Row
      /\ \A l, st : NewRow(l, st).useful = 0
  BY Ranges DEF NewRow, Row
<1>2. row \in Row /\ row.useful = 0
  BY <1>1 DEF Init
<1>3. /\ pc \in [Actors -> {"idle"} \cup WorkerPC \cup UserPC]
      /\ copy \in [Actors -> Row] /\ source \in [Actors -> Texts]
      /\ \A a \in Actors : pc[a] = "idle" /\ copy[a].useful = 0
  BY NoCopyType DEF Init
<1>4. signals \in 0..MaxSignals /\ run \in -MinDown..MinUp /\ crashes \in 0..MaxCrashes
  BY Ranges DEF Init
<1>5. stored \in BOOLEAN /\ wish \in BOOLEAN /\ purged \in BOOLEAN /\ stale \in BOOLEAN
      /\ ccr \subseteq Texts /\ tomb \in {"no", "user", "expiry"}
  BY DEF Init
<1>6. TypeOK
  BY <1>2, <1>3, <1>4, <1>5 DEF TypeOK
<1>7. Counted /\ Ready
  BY <1>2, <1>3 DEF Init, Counted, Ready
<1> QED
  BY <1>6, <1>7 DEF TypeInv

\* What an action owes when it leaves the actors, or the row, alone.
LEMMA FrameType ==
  ASSUME TypeInv,
         row' \in Row, stored' \in BOOLEAN, stale' \in BOOLEAN, ccr' \subseteq Texts,
         UNCHANGED <<wish, run, tomb, purged>> \/
           (wish' \in BOOLEAN /\ run' \in -MinDown..MinUp
              /\ tomb' \in {"no", "user", "expiry"} /\ purged' \in BOOLEAN),
         signals' \in 0..MaxSignals, signals' >= signals, crashes' \in 0..MaxCrashes,
         row'.useful <= signals',
         pc' \in [Actors -> {"idle"} \cup WorkerPC \cup UserPC],
         copy' \in [Actors -> Row], source' \in [Actors -> Texts],
         \A b \in Actors : copy'[b].useful <= signals,
         Ready'
  PROVE  TypeInv'
<1>1. \A b \in Actors : copy'[b].useful \in 0..MaxSignals
  BY DEF Row
<1>2. Counted'
  <2>1. \A b \in Actors : copy'[b].useful <= signals'
    BY <1>1, Ranges DEF TypeInv, TypeOK
  <2> QED
    BY <2>1 DEF Counted
<1>3. TypeOK'
  <2>1. /\ wish' \in BOOLEAN /\ run' \in -MinDown..MinUp
        /\ tomb' \in {"no", "user", "expiry"} /\ purged' \in BOOLEAN
    BY DEF TypeInv, TypeOK
  <2> QED
    BY <2>1 DEF TypeOK
<1> QED
  BY <1>2, <1>3 DEF TypeInv

\* GovernRead keeps the types.
LEMMA GovernReadType ==
  ASSUME TypeInv, NEW w \in Workers, GovernRead(w)
  PROVE  TypeInv'
<1>1. /\ pc' \in [Actors -> {"idle"} \cup WorkerPC \cup UserPC]
      /\ copy' \in [Actors -> Row]
  BY DEF GovernRead, GoTo, Read, TypeInv, TypeOK, WorkerPC
<1>2. \A b \in Actors : /\ copy'[b] = IF b = w THEN row ELSE copy[b]
                        /\ pc'[b] = IF b = w THEN "govern" ELSE pc[b]
  BY DEF GovernRead, GoTo, Read, TypeInv, TypeOK
<1>3. (\A b \in Actors : copy'[b].useful <= signals) /\ Ready'
  BY <1>2 DEF TypeInv, Counted, Ready
<1>4. UNCHANGED <<stored, row, ccr, source, history>>
  BY DEF GovernRead
<1> QED
  BY <1>1, <1>3, <1>4, FrameType, Ranges DEF history, TypeInv, TypeOK, Counted

\* PinRead keeps the types.
LEMMA PinReadType ==
  ASSUME TypeInv, NEW u \in Users, PinRead(u)
  PROVE  TypeInv'
<1>0. PICK l \in {"pin", "unpin"} : GoTo(u, l)
  BY DEF PinRead
<1>1. /\ pc' \in [Actors -> {"idle"} \cup WorkerPC \cup UserPC]
      /\ copy' \in [Actors -> Row]
  BY <1>0 DEF PinRead, GoTo, Read, TypeInv, TypeOK, UserPC
<1>2. \A b \in Actors : /\ copy'[b] = IF b = u THEN row ELSE copy[b]
                        /\ pc'[b] = IF b = u THEN l ELSE pc[b]
  BY <1>0 DEF PinRead, GoTo, Read, TypeInv, TypeOK
<1>3. (\A b \in Actors : copy'[b].useful <= signals) /\ Ready'
  BY <1>2 DEF TypeInv, Counted, Ready
<1>4. UNCHANGED <<stored, row, ccr, source, history>>
  BY DEF PinRead
<1> QED
  BY <1>1, <1>3, <1>4, FrameType, Ranges DEF history, TypeInv, TypeOK, Counted

\* GovernWrite keeps the types.
LEMMA GovernWriteType ==
  ASSUME TypeInv, NEW w \in Workers, GovernWrite(w)
  PROVE  TypeInv'
<1>0. PICK score \in Scores, sound, conflict, full \in BOOLEAN :
        /\ Put(w, Transition(Scored(copy[w], score), sound, conflict, full))
        /\ run' = CASE score = "high" -> Cap((IF run > 0 THEN run ELSE 0) + 1, MinUp)
                    [] score = "low"  -> -Cap((IF run < 0 THEN -run ELSE 0) + 1, MinDown)
                    [] OTHER -> 0
  BY DEF GovernWrite
<1>1. run' \in -MinDown..MinUp
  BY <1>0, Ranges DEF Cap, TypeInv, TypeOK
<1> DEFINE r == Transition(Scored(copy[w], score), sound, conflict, full)
<1>2. copy[w] \in Row
  BY DEF TypeInv, TypeOK
<1>3. r \in Row /\ Untouched(r, copy[w])
  BY <1>2, Governed, Zenon
<1>4. Put(w, r)
  BY <1>0
<1> HIDE DEF r
<1>5. /\ row' \in Row /\ stored' \in BOOLEAN /\ stale' \in BOOLEAN
      /\ row'.useful <= signals
  BY <1>3, <1>4, PutType DEF TypeInv, Counted, Put, Untouched
<1>6. UNCHANGED <<ccr, copy, source, signals, wish, tomb, purged, crashes>> /\ GoTo(w, "list")
  BY DEF GovernWrite
<1>7. pc' \in [Actors -> {"idle"} \cup WorkerPC \cup UserPC]
  BY <1>6 DEF GoTo, TypeInv, TypeOK, WorkerPC
<1>8. \A b \in Actors : pc'[b] = IF b = w THEN "list" ELSE pc[b]
  BY <1>6 DEF GoTo, TypeInv, TypeOK
<1>9. (\A b \in Actors : copy'[b].useful <= signals) /\ Ready'
  BY <1>6, <1>8 DEF TypeInv, Counted, Ready
<1> QED
  BY <1>1, <1>5, <1>6, <1>7, <1>9, FrameType, Ranges DEF TypeInv, TypeOK

\* ListMemory keeps the types.
LEMMA ListMemoryType ==
  ASSUME TypeInv, NEW w \in Workers, ListMemory(w)
  PROVE  TypeInv'
<1>1. UNCHANGED <<stored, row, ccr, history>>
  BY DEF ListMemory
<1>2. CASE stored
  <2>1. Read(w) /\ GoTo(w, "examine") /\ UNCHANGED source
    BY <1>2 DEF ListMemory
  <2>2. /\ pc' \in [Actors -> {"idle"} \cup WorkerPC \cup UserPC]
        /\ copy' \in [Actors -> Row]
    BY <2>1 DEF GoTo, Read, TypeInv, TypeOK, WorkerPC
  <2>3. \A b \in Actors : /\ copy'[b] = IF b = w THEN row ELSE copy[b]
                          /\ pc'[b] = IF b = w THEN "examine" ELSE pc[b]
    BY <2>1 DEF GoTo, Read, TypeInv, TypeOK
  <2>4. (\A b \in Actors : copy'[b].useful <= signals) /\ Ready'
    BY <2>3 DEF TypeInv, Counted, Ready
  <2> QED
    BY <1>1, <2>1, <2>2, <2>4, FrameType, Ranges DEF history, TypeInv, TypeOK, Counted
<1>3. CASE ~stored
  <2>1. Leave(w)
    BY <1>3 DEF ListMemory
  <2> QED
    BY <1>1, <2>1, LeaveType, FrameType, Ranges DEF history, TypeInv, TypeOK, Counted
<1> QED
  BY <1>2, <1>3

\* Examine keeps the types.
LEMMA ExamineType ==
  ASSUME TypeInv, NEW w \in Workers, Examine(w)
  PROVE  TypeInv'
<1> DEFINE s == copy[w]
<1>1. UNCHANGED <<stored, row, history>> /\ s \in Row
  BY DEF Examine, TypeInv, TypeOK
<1>2. ASSUME NEW l \in WorkerPC, GoTo(w, l), UNCHANGED copy,
             ccr' \subseteq Texts, source' \in [Actors -> Texts],
             l = "rescue" => s.marker \in Texts, l = "compress" => s.tier < 4
      PROVE  TypeInv'
  <2>1. pc' \in [Actors -> {"idle"} \cup WorkerPC \cup UserPC]
    BY <1>2 DEF GoTo, TypeInv, TypeOK
  <2>2. \A b \in Actors : pc'[b] = IF b = w THEN l ELSE pc[b]
    BY <1>2 DEF GoTo, TypeInv, TypeOK
  <2>3. (\A b \in Actors : copy'[b].useful <= signals) /\ Ready'
    BY <1>2, <2>2 DEF TypeInv, Counted, Ready
  <2> QED
    BY <1>1, <1>2, <2>1, <2>3, FrameType, Ranges DEF history, TypeInv, TypeOK, Counted
<1>3. ASSUME Rescuable(s), GoTo(w, "rescue"), UNCHANGED <<ccr, copy, source>>
      PROVE  TypeInv'
  <2>1. s.marker \in Texts
    BY <1>3 DEF Rescuable, TypeInv, TypeOK
  <2> QED
    BY <1>2, <1>3, <2>1 DEF WorkerPC, TypeInv, TypeOK
<1>4. ASSUME GoTo(w, "expire"), UNCHANGED <<ccr, copy, source>>
      PROVE  TypeInv'
  BY <1>2, <1>4 DEF WorkerPC, TypeInv, TypeOK
<1>5. ASSUME GoTo(w, "compress"), Due(s), UNCHANGED copy,
             ccr' = ccr \cup {Original(s)}, source' = [source EXCEPT ![w] = Original(s)]
      PROVE  TypeInv'
  <2>1. Original(s) \in Texts
    BY <1>1 DEF Original, TypeInv, TypeOK, Row
  <2>2. ccr' \subseteq Texts /\ source' \in [Actors -> Texts] /\ s.tier < 4
    BY <1>5, <2>1 DEF TypeInv, TypeOK, Due
  <2> QED
    BY <1>2, <1>5, <2>2 DEF WorkerPC
<1>6. ASSUME Leave(w), UNCHANGED ccr PROVE TypeInv'
  BY <1>1, <1>6, LeaveType, FrameType, Ranges DEF history, TypeInv, TypeOK, Counted
<1> QED
  BY <1>3, <1>4, <1>5, <1>6 DEF Examine

\* A write that ends a handler keeps the types.
LEMMA WriteType ==
  ASSUME TypeInv, NEW a \in Actors, NEW r \in Row, Put(a, r), Leave(a),
         r.useful <= signals,
         UNCHANGED <<ccr, signals, run, tomb, purged, crashes>>,
         wish' \in BOOLEAN
  PROVE  TypeInv'
<1>1. row' \in Row /\ stored' \in BOOLEAN /\ stale' \in BOOLEAN /\ row' = r
  BY PutType DEF TypeInv, Put
<1> QED
  BY <1>1, LeaveType, FrameType, Ranges DEF TypeInv, TypeOK, Counted

\* Rescue keeps the types.
LEMMA RescueType ==
  ASSUME TypeInv, NEW w \in Workers, Rescue(w)
  PROVE  TypeInv'
<1>1. copy[w] \in Row /\ copy[w].marker \in Texts /\ copy[w].useful <= signals
  BY DEF Rescue, TypeInv, TypeOK, Ready, Counted
<1>2. Rescued(copy[w]) \in Row /\ Rescued(copy[w]).useful = copy[w].useful
  <2>1. Rescued(copy[w]) \in Row
    BY <1>1, RescuedType
  <2> QED
    BY <1>1, <2>1 DEF Rescued, Row
<1> QED
  BY <1>1, <1>2, WriteType DEF Rescue, TypeInv, TypeOK

\* Compress keeps the types.
LEMMA CompressType ==
  ASSUME TypeInv, NEW w \in Workers, Compress(w)
  PROVE  TypeInv'
<1>1. copy[w] \in Row /\ copy[w].tier < 4 /\ copy[w].useful <= signals /\ source[w] \in Texts
  BY DEF Compress, TypeInv, TypeOK, Ready, Counted
<1>2. /\ Compressed(copy[w], source[w]) \in Row
      /\ Compressed(copy[w], source[w]).useful = copy[w].useful
  <2>1. Compressed(copy[w], source[w]) \in Row
    BY <1>1, CompressedType
  <2> QED
    BY <1>1, <2>1 DEF Compressed, Row
<1> QED
  BY <1>1, <1>2, WriteType DEF Compress, TypeInv, TypeOK

\* Expire keeps the types.
LEMMA ExpireType ==
  ASSUME TypeInv, NEW w \in Workers, Expire(w)
  PROVE  TypeInv'
<1>1. Leave(w) /\ UNCHANGED <<stored, ccr, signals, wish, run, purged, crashes>>
  BY DEF Expire
<1>2. CASE stored
  <2>1. /\ row' = [row EXCEPT !.status = "tombstoned"] /\ tomb' = "expiry"
        /\ stale' = (stale \/ copy[w] # row)
    BY <1>2 DEF Expire
  <2>2. row' \in Row /\ row'.useful <= signals
    BY <2>1 DEF TypeInv, TypeOK, Row, Counted
  <2>3. stale' \in BOOLEAN
    BY <2>1 DEF TypeInv, TypeOK
  <2> QED
    BY <1>1, <2>1, <2>2, <2>3, LeaveType, FrameType, Ranges DEF TypeInv, TypeOK, Counted
<1>3. CASE ~stored
  <2>1. UNCHANGED <<row, tomb, stale>>
    BY <1>3 DEF Expire
  <2> QED
    BY <1>1, <2>1, LeaveType, FrameType, Ranges DEF TypeInv, TypeOK, Counted
<1> QED
  BY <1>2, <1>3

\* Crash keeps the types.
LEMMA CrashType ==
  ASSUME TypeInv, NEW w \in Workers, Crash(w)
  PROVE  TypeInv'
<1>1. /\ Leave(w) /\ crashes < MaxCrashes /\ crashes' = crashes + 1
      /\ UNCHANGED <<stored, row, ccr, signals, wish, run, tomb, purged, stale>>
  BY DEF Crash
<1>2. crashes' \in 0..MaxCrashes
  BY <1>1, Ranges DEF TypeInv, TypeOK
<1> QED
  BY <1>1, <1>2, LeaveType, FrameType, Ranges DEF TypeInv, TypeOK, Counted

\* One more useful signal, in the row and in the count of signals.
LEMMA SignalType ==
  ASSUME TypeInv, signals < MaxSignals, row' = [row EXCEPT !.useful = @ + 1],
         signals' = signals + 1
  PROVE  row' \in Row /\ signals' \in 0..MaxSignals /\ signals' >= signals
         /\ row'.useful <= signals'
<1>1. row \in Row /\ signals \in 0..MaxSignals /\ row.useful <= signals
  BY DEF TypeInv, TypeOK, Counted
<1>2. row.useful + 1 \in 0..MaxSignals /\ row.useful + 1 <= signals'
  BY <1>1, Ranges DEF Row
<1> DEFINE n == row.useful + 1
<1>3. n \in 0..MaxSignals /\ n <= signals' /\ row' = [row EXCEPT !.useful = n]
  BY <1>2
<1> HIDE DEF n
<1>4. row' \in Row /\ row'.useful = n
  BY <1>1, <1>3 DEF Row
<1> QED
  BY <1>1, <1>3, <1>4, Ranges

\* UsefulSignal keeps the types.
LEMMA UsefulSignalType ==
  ASSUME TypeInv, UsefulSignal
  PROVE  TypeInv'
<1>1. /\ signals < MaxSignals /\ row' = [row EXCEPT !.useful = @ + 1] /\ signals' = signals + 1
      /\ UNCHANGED <<stored, ccr, pc, copy, source, wish, run, tomb, purged, stale, crashes>>
  BY DEF UsefulSignal, locals
<1>2. Ready'
  BY <1>1 DEF TypeInv, Ready
<1> QED
  BY <1>1, <1>2, SignalType, FrameType DEF TypeInv, TypeOK, Counted

\* PinWrite keeps the types.
LEMMA PinWriteType ==
  ASSUME TypeInv, NEW u \in Users, PinWrite(u)
  PROVE  TypeInv'
<1> DEFINE f == pc[u] = "pin"
           r == [copy[u] EXCEPT !.pinned = f]
<1>1. /\ Put(u, r) /\ wish' = f /\ UNCHANGED <<ccr, signals, run, tomb, purged, crashes>>
  BY Zenon DEF PinWrite
<1>2. f \in BOOLEAN
  OBVIOUS
<1>3. copy[u] \in Row /\ copy[u].useful <= signals
  BY DEF TypeInv, TypeOK, Counted
<1>4. CASE f
  <2>1. GoTo(u, "confirm") /\ UNCHANGED <<copy, source>>
    BY <1>4 DEF PinWrite
  <2> HIDE DEF f
  <2>2. r \in Row /\ r.useful = copy[u].useful
    BY <1>2, <1>3 DEF Row
  <2>3. row' \in Row /\ stored' \in BOOLEAN /\ stale' \in BOOLEAN /\ row'.useful <= signals
    <3> HIDE DEF r
    <3> QED
      BY <1>1, <1>3, <2>2, PutType DEF TypeInv, Put
  <2>4. pc' \in [Actors -> {"idle"} \cup WorkerPC \cup UserPC]
    BY <2>1 DEF GoTo, TypeInv, TypeOK, UserPC
  <2>5. \A b \in Actors : pc'[b] = IF b = u THEN "confirm" ELSE pc[b]
    BY <2>1 DEF GoTo, TypeInv, TypeOK
  <2>6. Ready' /\ (\A b \in Actors : copy'[b].useful <= signals)
    BY <2>1, <2>5 DEF TypeInv, Ready, Counted
  <2>7. wish' \in BOOLEAN
    BY <1>1, <1>2
  <2> QED
    <3> HIDE DEF r
    <3> QED
      BY <1>1, <2>1, <2>3, <2>4, <2>6, <2>7, FrameType, Ranges DEF TypeInv, TypeOK
<1>5. CASE ~f
  <2>1. Leave(u)
    BY <1>5 DEF PinWrite
  <2> HIDE DEF f
  <2>2. r \in Row /\ r.useful = copy[u].useful
    BY <1>2, <1>3 DEF Row
  <2>3. wish' \in BOOLEAN
    BY <1>1, <1>2
  <2> HIDE DEF r
  <2> QED
    BY <1>1, <1>3, <2>1, <2>2, <2>3, WriteType
<1> QED
  BY <1>4, <1>5

\* PinConfirm keeps the types.
LEMMA PinConfirmType ==
  ASSUME TypeInv, NEW u \in Users, PinConfirm(u)
  PROVE  TypeInv'
<1>1. Leave(u) /\ UNCHANGED <<stored, ccr, wish, run, tomb, purged, stale, crashes>>
  BY DEF PinConfirm
<1>2. CASE stored
  <2>1. /\ signals < MaxSignals /\ row' = [row EXCEPT !.useful = @ + 1]
        /\ signals' = signals + 1
    BY <1>2 DEF PinConfirm
  <2> QED
    BY <1>1, <2>1, SignalType, LeaveType, FrameType DEF TypeInv, TypeOK
<1>3. CASE ~stored
  <2>1. UNCHANGED <<row, signals>>
    BY <1>3 DEF PinConfirm
  <2> QED
    BY <1>1, <2>1, LeaveType, FrameType, Ranges DEF TypeInv, TypeOK, Counted
<1> QED
  BY <1>2, <1>3

\* A deletion keeps the types.
LEMMA DeletionType ==
  ASSUME TypeInv, Tombstone \/ Purge
  PROVE  TypeInv'
<1>1. CASE Tombstone
  <2>1. /\ row' = [row EXCEPT !.status = "tombstoned"] /\ tomb' = "user"
        /\ UNCHANGED <<stored, ccr, pc, copy, source, signals, wish, run, purged, stale, crashes>>
    BY <1>1 DEF Tombstone, locals
  <2>2. row' \in Row /\ row'.useful <= signals
    BY <2>1 DEF TypeInv, TypeOK, Row, Counted
  <2>3. Ready'
    BY <2>1 DEF TypeInv, Ready
  <2> QED
    BY <2>1, <2>2, <2>3, FrameType, Ranges DEF TypeInv, TypeOK, Counted
<1>2. CASE Purge
  <2>1. /\ stored' = FALSE /\ ccr' = {} /\ purged' = TRUE
        /\ UNCHANGED <<row, pc, copy, source, signals, wish, run, tomb, stale, crashes>>
    BY <1>2 DEF Purge, locals
  <2>2. Ready'
    BY <2>1 DEF TypeInv, Ready
  <2> QED
    BY <2>1, <2>2, FrameType, Ranges DEF TypeInv, TypeOK, Counted
<1> QED
  BY <1>1, <1>2

\* Tick keeps the types.
LEMMA TickType ==
  ASSUME TypeInv, Tick
  PROVE  TypeInv'
<1>1. /\ row' = Over(row) /\ copy' = [a \in Actors |-> Over(copy[a])]
      /\ UNCHANGED <<stored, ccr, pc, source>> /\ UNCHANGED history
  BY DEF Tick
<1>2. row' \in Row /\ row'.useful <= signals
  BY <1>1, OverType DEF TypeInv, TypeOK, Counted
<1>3. /\ copy' \in [Actors -> Row]
      /\ \A b \in Actors : copy'[b].useful <= signals
      /\ \A b \in Actors : copy'[b].marker = copy[b].marker /\ copy'[b].tier = copy[b].tier
  BY <1>1, OverType DEF TypeInv, TypeOK, Counted
<1>4. Ready'
  BY <1>1, <1>3 DEF TypeInv, Ready
<1>5. UNCHANGED <<signals, wish, run, tomb, purged, stale, crashes>>
  BY <1>1 DEF history
<1> QED
  BY <1>1, <1>2, <1>3, <1>4, <1>5, FrameType, Ranges DEF TypeInv, TypeOK

\* Every step keeps the types.
LEMMA TypeStep == TypeInv /\ [Next]_vars => TypeInv'
<1> SUFFICES ASSUME TypeInv, [Next]_vars PROVE TypeInv'
  OBVIOUS
<1>1. ASSUME NEW w \in Workers, JobStep(w) \/ Crash(w) PROVE TypeInv'
  BY <1>1, GovernReadType, GovernWriteType, ListMemoryType, ExamineType, RescueType,
     CompressType, ExpireType, CrashType DEF JobStep
<1>2. ASSUME NEW u \in Users, UserStep(u) PROVE TypeInv'
  BY <1>2, PinReadType, PinWriteType, PinConfirmType DEF UserStep
<1>3. CASE UNCHANGED vars
  <2>1. /\ UNCHANGED <<stored, row, ccr, pc, copy, source>>
        /\ UNCHANGED <<signals, wish, run, tomb, purged, stale, crashes>>
    BY <1>3 DEF vars, locals, history
  <2>2. Ready'
    BY <2>1 DEF TypeInv, Ready
  <2> QED
    BY <2>1, <2>2, FrameType, Ranges DEF TypeInv, TypeOK, Counted
<1> QED
  BY <1>1, <1>2, <1>3, UsefulSignalType, DeletionType, TickType DEF Next

\* The row, its copies and the histories stay in their domains.
THEOREM TypeCorrect == Spec => []TypeOK
<1>1. Spec => []TypeInv
  BY TypeInit, TypeStep, PTL DEF Spec
<1> QED
  BY <1>1, PTL DEF TypeInv

-----------------------------------------------------------------------------
(* Compression.  Until the memory is deleted physically, every version of   *)
(* the row, in the table or in an actor's hands, leads back to the original *)
(* text: renderings are only made of what is kept in CCR already, and only  *)
(* a deletion takes anything out of it.                                     *)

Recoverable(r) ==
  /\ r.content = "rendering" => r.marker = "original"
  /\ r.marker # "none" => r.marker = "original" /\ "original" \in ccr
  /\ r.tier > 0 => r.marker # "none"

CCRInv ==
  ~purged =>
    /\ stored
    /\ ccr \subseteq {"original"}
    /\ Recoverable(row)
    /\ \A a \in Actors :
         /\ Recoverable(copy[a])
         /\ pc[a] = "compress" => source[a] = "original" /\ "original" \in ccr

\* Nothing is compressed at first.
LEMMA CCRInit == Init => CCRInv
<1> SUFFICES ASSUME Init PROVE CCRInv
  OBVIOUS
<1>1. \A l, st : Recoverable(NewRow(l, st))
  BY DEF NewRow, Recoverable
<1> QED
  BY <1>1 DEF Init, CCRInv, NoCopy

\* What leaves text, marker and tier alone stays recoverable.
LEMMA UntouchedRecoverable ==
  ASSUME NEW r, NEW s, Untouched(r, s), Recoverable(s)
  PROVE  Recoverable(r)
  BY DEF Untouched, Recoverable

\* An actor that leaves keeps every version recoverable.
LEMMA CCRLeave ==
  ASSUME TypeInv, CCRInv, NEW a \in Actors, Leave(a),
         UNCHANGED <<ccr, purged>>, stored' = TRUE, ~purged => Recoverable(row)'
  PROVE  CCRInv'
<1>1. \A b \in Actors : /\ copy'[b] = IF b = a THEN NoCopy ELSE copy[b]
                        /\ pc'[b] = IF b = a THEN "idle" ELSE pc[b]
                        /\ source'[b] = IF b = a THEN "original" ELSE source[b]
  BY DEF Leave, GoTo, TypeInv, TypeOK
<1>2. Recoverable(NoCopy)
  BY DEF NoCopy, NewRow, Recoverable
<1> QED
  BY <1>1, <1>2 DEF CCRInv, Recoverable

\* Every step keeps every version recoverable.
LEMMA CCRStep ==
  ASSUME TypeInv, CCRInv, [Next]_vars
  PROVE  CCRInv'
<1> SUFFICES ASSUME ~purged' PROVE CCRInv'
  BY DEF CCRInv
<1>1. ASSUME NEW w \in Workers, GovernRead(w) PROVE CCRInv'
  <2>1. \A b \in Actors : /\ copy'[b] = IF b = w THEN row ELSE copy[b]
                          /\ pc'[b] = IF b = w THEN "govern" ELSE pc[b]
    BY <1>1 DEF GovernRead, GoTo, Read, TypeInv, TypeOK
  <2> QED
    BY <1>1, <2>1 DEF GovernRead, CCRInv, Recoverable, history
<1>2. ASSUME NEW w \in Workers, GovernWrite(w) PROVE CCRInv'
  <2>1. PICK score \in Scores, sound, conflict, full \in BOOLEAN :
          Put(w, Transition(Scored(copy[w], score), sound, conflict, full))
    BY <1>2 DEF GovernWrite
  <2>2. UNCHANGED <<ccr, copy, source, purged>> /\ GoTo(w, "list")
    BY <1>2 DEF GovernWrite
  <2>3. copy[w] \in Row /\ Recoverable(copy[w])
    BY <2>2 DEF TypeInv, TypeOK, CCRInv
  <2>4. Untouched(Transition(Scored(copy[w], score), sound, conflict, full), copy[w])
    BY <2>3, Governed, Zenon
  <2>5. Recoverable(Transition(Scored(copy[w], score), sound, conflict, full))
    BY <2>3, <2>4, UntouchedRecoverable
  <2>6. stored' = TRUE /\ Recoverable(row)'
    BY <2>1, <2>2, <2>5 DEF Put, Recoverable
  <2>7. \A b \in Actors : pc'[b] = IF b = w THEN "list" ELSE pc[b]
    BY <2>2 DEF GoTo, TypeInv, TypeOK
  <2> QED
    BY <2>2, <2>6, <2>7 DEF CCRInv, Recoverable
<1>3. ASSUME NEW w \in Workers, ListMemory(w) PROVE CCRInv'
  <2>1. stored /\ UNCHANGED <<stored, row, ccr, purged>>
    BY <1>3 DEF ListMemory, CCRInv, history
  <2>2. Read(w) /\ GoTo(w, "examine") /\ UNCHANGED source
    BY <1>3, <2>1 DEF ListMemory
  <2>3. \A b \in Actors : /\ copy'[b] = IF b = w THEN row ELSE copy[b]
                          /\ pc'[b] = IF b = w THEN "examine" ELSE pc[b]
    BY <2>2 DEF GoTo, Read, TypeInv, TypeOK
  <2> QED
    BY <2>1, <2>2, <2>3 DEF CCRInv, Recoverable
<1>4. ASSUME NEW w \in Workers, Examine(w) PROVE CCRInv'
  <2>1. UNCHANGED <<stored, row, purged>> /\ stored
    BY <1>4 DEF Examine, CCRInv, history
  <2>2. ASSUME NEW l \in {"rescue", "expire"}, GoTo(w, l), UNCHANGED <<ccr, copy, source>>
        PROVE  CCRInv'
    <3>1. \A b \in Actors : pc'[b] = IF b = w THEN l ELSE pc[b]
      BY <2>2 DEF GoTo, TypeInv, TypeOK
    <3> QED
      BY <2>1, <2>2, <3>1 DEF CCRInv, Recoverable
  <2>3. ASSUME GoTo(w, "compress"), UNCHANGED copy,
               ccr' = ccr \cup {Original(copy[w])},
               source' = [source EXCEPT ![w] = Original(copy[w])]
        PROVE  CCRInv'
    <3>1. copy[w] \in Row /\ Recoverable(copy[w]) /\ ccr \subseteq {"original"}
      BY <2>1 DEF TypeInv, TypeOK, CCRInv
    <3>2. Original(copy[w]) = "original"
      BY <2>1, <3>1 DEF Original, Recoverable, Row
    <3>3. \A b \in Actors : /\ pc'[b] = IF b = w THEN "compress" ELSE pc[b]
                            /\ source'[b] = IF b = w THEN "original" ELSE source[b]
      BY <2>3, <3>2 DEF GoTo, TypeInv, TypeOK
    <3> QED
      BY <2>1, <2>3, <3>1, <3>2, <3>3 DEF CCRInv, Recoverable
  <2>4. ASSUME Leave(w), UNCHANGED ccr PROVE CCRInv'
    BY <2>1, <2>4, CCRLeave DEF CCRInv, Recoverable
  <2> QED
    BY <1>4, <2>2, <2>3, <2>4 DEF Examine
<1>5. ASSUME NEW w \in Workers, Rescue(w) PROVE CCRInv'
  <2>1. /\ Put(w, Rescued(copy[w])) /\ Leave(w) /\ UNCHANGED <<ccr, purged>>
        /\ copy[w] \in Row /\ copy[w].marker \in Texts
    BY <1>5 DEF Rescue, TypeInv, TypeOK, Ready
  <2>2. ~purged => Recoverable(copy[w])
    BY DEF CCRInv
  <2>3. ~purged => Recoverable(Rescued(copy[w]))
    <3>1. /\ Rescued(copy[w]).content = copy[w].marker
          /\ Rescued(copy[w]).marker = copy[w].marker
      BY <2>1 DEF Rescued, Row
    <3> QED
      BY <2>1, <2>2, <3>1 DEF Recoverable
  <2> QED
    BY <2>1, <2>3, CCRLeave DEF Put, Recoverable
<1>6. ASSUME NEW w \in Workers, Compress(w) PROVE CCRInv'
  <2>1. /\ Put(w, Compressed(copy[w], source[w])) /\ Leave(w) /\ UNCHANGED <<ccr, purged>>
        /\ copy[w] \in Row /\ pc[w] = "compress"
    BY <1>6 DEF Compress, TypeInv, TypeOK
  <2>2. /\ Compressed(copy[w], source[w]).marker = source[w]
    BY <2>1 DEF Compressed, Row
  <2>3. ~purged => Recoverable(Compressed(copy[w], source[w]))
    BY <2>1, <2>2 DEF CCRInv, Recoverable
  <2> QED
    BY <2>1, <2>3, CCRLeave DEF Put, Recoverable
<1>7. ASSUME NEW w \in Workers, Expire(w) PROVE CCRInv'
  <2>1. /\ Leave(w) /\ UNCHANGED <<stored, ccr, purged>> /\ stored
        /\ row' = [row EXCEPT !.status = "tombstoned"]
    BY <1>7 DEF Expire, CCRInv
  <2>2. Untouched(row', row)
    BY <2>1 DEF TypeInv, TypeOK, Row, Untouched
  <2>3. ~purged => Recoverable(row)'
    BY <2>1, <2>2 DEF CCRInv, Recoverable, Untouched
  <2> QED
    BY <2>1, <2>3, CCRLeave DEF TypeInv, TypeOK
<1>8. ASSUME NEW w \in Workers, Crash(w) PROVE CCRInv'
  <2>1. Leave(w) /\ UNCHANGED <<stored, row, ccr, purged>> /\ stored = TRUE
    BY <1>8 DEF Crash, CCRInv, TypeInv, TypeOK
  <2> QED
    BY <2>1, CCRLeave DEF CCRInv, Recoverable
<1>9. ASSUME NEW u \in Users, UserStep(u) PROVE CCRInv'
  <2>1. CASE PinRead(u)
    <3>1. PICK l \in {"pin", "unpin"} : GoTo(u, l)
      BY <2>1 DEF PinRead
    <3>2. \A b \in Actors : /\ copy'[b] = IF b = u THEN row ELSE copy[b]
                            /\ pc'[b] = IF b = u THEN l ELSE pc[b]
      BY <2>1, <3>1 DEF PinRead, GoTo, Read, TypeInv, TypeOK
    <3> QED
      BY <2>1, <3>2 DEF PinRead, CCRInv, Recoverable, history
  <2>2. CASE PinWrite(u)
    <3>1. /\ Put(u, [copy[u] EXCEPT !.pinned = (pc[u] = "pin")]) /\ UNCHANGED <<ccr, purged>>
          /\ copy[u] \in Row
      BY <2>2 DEF PinWrite, TypeInv, TypeOK
    <3>2. stored' = TRUE /\ row'.content = copy[u].content /\ row'.marker = copy[u].marker
          /\ row'.tier = copy[u].tier
      BY <3>1 DEF Put, Row
    <3>3. ~purged => Recoverable(row)'
      BY <3>1, <3>2 DEF CCRInv, Recoverable
    <3>4. CASE pc[u] = "pin"
      <4>1. GoTo(u, "confirm") /\ UNCHANGED <<copy, source>>
        BY <2>2, <3>4 DEF PinWrite
      <4>2. \A b \in Actors : pc'[b] = IF b = u THEN "confirm" ELSE pc[b]
        BY <4>1 DEF GoTo, TypeInv, TypeOK
      <4> QED
        BY <3>1, <3>2, <3>3, <4>1, <4>2 DEF CCRInv, Recoverable
    <3>5. CASE pc[u] # "pin"
      <4>1. Leave(u)
        BY <2>2, <3>5 DEF PinWrite
      <4> QED
        BY <3>1, <3>2, <3>3, <4>1, CCRLeave
    <3> QED
      BY <3>4, <3>5
  <2>3. CASE PinConfirm(u)
    <3>1. /\ Leave(u) /\ UNCHANGED <<stored, ccr, purged>> /\ stored = TRUE
          /\ row' = [row EXCEPT !.useful = @ + 1]
      BY <2>3 DEF PinConfirm, CCRInv, TypeInv, TypeOK
    <3>2. row'.content = row.content /\ row'.marker = row.marker /\ row'.tier = row.tier
      BY <3>1 DEF TypeInv, TypeOK, Row
    <3>3. ~purged => Recoverable(row)'
      BY <3>1, <3>2 DEF CCRInv, Recoverable
    <3> QED
      BY <3>1, <3>3, CCRLeave
  <2> QED
    BY <1>9, <2>1, <2>2, <2>3 DEF UserStep
<1>10. CASE UsefulSignal \/ Tombstone
  <2>1. UNCHANGED <<stored, ccr, pc, copy, source, purged>>
    BY <1>10 DEF UsefulSignal, Tombstone, locals
  <2>2. row'.content = row.content /\ row'.marker = row.marker /\ row'.tier = row.tier
    BY <1>10 DEF UsefulSignal, Tombstone, TypeInv, TypeOK, Row
  <2> QED
    BY <2>1, <2>2 DEF CCRInv, Recoverable
<1>11. CASE Purge
  BY <1>11 DEF Purge, CCRInv
<1>12. CASE Tick
  <2>1. /\ row' = Over(row) /\ copy' = [a \in Actors |-> Over(copy[a])]
        /\ UNCHANGED <<stored, ccr, pc, source, purged>>
    BY <1>12 DEF Tick, history
  <2>2. \A a \in Actors : /\ copy'[a].content = copy[a].content
                          /\ copy'[a].marker = copy[a].marker /\ copy'[a].tier = copy[a].tier
    BY <2>1, OverType DEF TypeInv, TypeOK
  <2>3. row'.content = row.content /\ row'.marker = row.marker /\ row'.tier = row.tier
    BY <2>1, OverType DEF TypeInv, TypeOK
  <2>4. /\ Recoverable(row) => Recoverable(row)'
        /\ \A a \in Actors : Recoverable(copy[a]) => Recoverable(copy[a])'
    BY <2>1, <2>2, <2>3 DEF Recoverable
  <2> QED
    BY <2>1, <2>4 DEF CCRInv
<1>13. CASE UNCHANGED vars
  BY <1>13 DEF vars, locals, history, CCRInv, Recoverable
<1> QED
  BY <1>1, <1>2, <1>3, <1>4, <1>5, <1>6, <1>7, <1>8, <1>9, <1>10, <1>11, <1>12, <1>13
     DEF Next, JobStep

\* However many jobs and users write the row from copies of whatever age, its text
\* can be had back until the memory is deleted physically.
THEOREM CompressionIsReversibleHolds == Spec => []CompressionIsReversible
<1>1. Spec => [](TypeInv /\ CCRInv)
  BY TypeInit, TypeStep, CCRInit, CCRStep, PTL DEF Spec
<1>2. CCRInv => CompressionIsReversible
  BY DEF CCRInv, CompressionIsReversible, Recoverable
<1> QED
  BY <1>1, <1>2, PTL

-----------------------------------------------------------------------------
(* Feedback, streaks and expiry.  A write from an outdated copy sets stale; *)
(* until then the row agrees with the histories.                            *)

Positive(n) == IF n > 0 THEN n ELSE 0

Fresh ==
  /\ row.useful = signals /\ row.pinned = wish
  /\ row.base <= row.useful
  /\ row.up <= Positive(run) /\ row.down <= Positive(-run)

FreshInv ==
  /\ purged /\ stored => stale
  /\ stored /\ ~stale => Fresh
  /\ \A a \in Actors : pc[a] = "expire" /\ ~purged => copy[a].useful <= copy[a].base

\* Who writes without making the row stale wrote from what is in the table.
LEMMA FreshPut ==
  ASSUME NEW a \in Actors, NEW r, Put(a, r), ~stale'
  PROVE  stored /\ ~stale /\ copy[a] = row /\ row' = r
  BY DEF Put

\* The streaks in a row follow the scores of the last cycles: they never run ahead of
\* the history, and a full streak means a full run of scores.
LEMMA ScoredStreaks ==
  ASSUME NEW s \in Row, NEW score \in Scores, run \in -MinDown..MinUp, NEW n,
         s.up <= Positive(run), s.down <= Positive(-run),
         n = CASE score = "high" -> Cap((IF run > 0 THEN run ELSE 0) + 1, MinUp)
               [] score = "low"  -> -Cap((IF run < 0 THEN -run ELSE 0) + 1, MinDown)
               [] OTHER -> 0
  PROVE  /\ Scored(s, score).up <= Positive(n) /\ Scored(s, score).down <= Positive(-n)
         /\ Scored(s, score).up >= MinUp => n >= MinUp
         /\ Scored(s, score).down >= MinDown => n <= -MinDown
<1> DEFINE u == IF score = "high" THEN Cap(s.up + 1, MinUp) ELSE 0
           d == IF score = "low" THEN Cap(s.down + 1, MinDown) ELSE 0
<1>1. Scored(s, score).up = u /\ Scored(s, score).down = d
  BY DEF Scored, Row
<1>2. s.up \in Nat /\ s.down \in Nat
  BY Ranges DEF Row
<1>3. CASE score = "high"
  <2>1. n = Cap((IF run > 0 THEN run ELSE 0) + 1, MinUp)
    BY <1>3
  <2> QED
    BY <1>1, <1>2, <1>3, <2>1, Ranges DEF Cap, Positive
<1>4. CASE score = "low"
  <2>1. n = -Cap((IF run < 0 THEN -run ELSE 0) + 1, MinDown)
    BY <1>4
  <2> QED
    BY <1>1, <1>2, <1>4, <2>1, Ranges DEF Cap, Positive
<1>5. CASE score \notin {"high", "low"}
  <2>1. n = 0
    BY <1>5
  <2> QED
    BY <1>1, <1>5, <2>1, Ranges DEF Positive
<1> QED
  BY <1>3, <1>4, <1>5

\* A transition only ends streaks, and takes a full one.
LEMMA TransitionStreaks ==
  ASSUME NEW t \in Row, NEW sound \in BOOLEAN, NEW conflict \in BOOLEAN, NEW full \in BOOLEAN
  PROVE  /\ Transition(t, sound, conflict, full).up <= t.up
         /\ Transition(t, sound, conflict, full).down <= t.down
         /\ (t.life = "short" /\ Transition(t, sound, conflict, full).life = "long") =>
              t.up >= MinUp /\ (t.pinned \/ t.useful >= MinUseful)
         /\ (t.life = "long" /\ Transition(t, sound, conflict, full).life = "short") =>
              t.down >= MinDown /\ ~t.pinned
<1>1. t.up \in Nat /\ t.down \in Nat
  BY Ranges DEF Row
<1>2. /\ Promoted(t).up = 0 /\ Promoted(t).down = t.down /\ Promoted(t).life = "long"
      /\ Demoted(t).up = t.up /\ Demoted(t).down = 0 /\ Demoted(t).life = "short"
  BY DEF Promoted, Demoted, Row
<1>3. CASE MayPromote(t, sound, conflict, full)
  <2>2. t.life = "short" /\ t.up >= MinUp /\ (t.pinned \/ t.useful >= MinUseful)
    BY <1>3, Zenon DEF MayPromote
  <2>3. ~MayDemote(t)
    BY <2>2 DEF MayDemote
  <2>1. Transition(t, sound, conflict, full) = Promoted(t)
    BY <1>3, <2>3, Zenon DEF Transition
  <2> QED
    BY <1>1, <1>2, <2>1, <2>2
<1>4. CASE ~MayPromote(t, sound, conflict, full) /\ MayDemote(t)
  <2>1. Transition(t, sound, conflict, full) = Demoted(t)
    BY <1>4, Zenon DEF Transition
  <2>2. t.life = "long" /\ t.down >= MinDown /\ ~t.pinned
    BY <1>4, Zenon DEF MayDemote
  <2> QED
    BY <1>1, <1>2, <2>1, <2>2
<1>5. CASE ~MayPromote(t, sound, conflict, full) /\ ~MayDemote(t)
  <2>1. Transition(t, sound, conflict, full) = t
    BY <1>5 DEF Transition
  <2> QED
    BY <1>1, <2>1
<1> QED
  BY <1>3, <1>4, <1>5

\* A governance cycle that writes from what is in the table keeps the row fresh, and
\* moves it between the lifecycle states only when that is earned.
LEMMA GovernWriteFresh ==
  ASSUME TypeInv, FreshInv, NEW w \in Workers, GovernWrite(w), ~stale'
  PROVE  /\ stored /\ ~stale /\ Fresh'
         /\ (row.life = "short" /\ row'.life = "long") =>
              run' >= MinUp /\ (signals >= MinUseful \/ wish)
         /\ (row.life = "long" /\ row'.life = "short") => run' <= -MinDown /\ ~wish
<1>1. PICK score \in Scores, sound, conflict, full \in BOOLEAN :
        /\ Put(w, Transition(Scored(copy[w], score), sound, conflict, full))
        /\ run' = CASE score = "high" -> Cap((IF run > 0 THEN run ELSE 0) + 1, MinUp)
                    [] score = "low"  -> -Cap((IF run < 0 THEN -run ELSE 0) + 1, MinDown)
                    [] OTHER -> 0
  BY DEF GovernWrite
<1> DEFINE t == Scored(row, score)
           r == Transition(t, sound, conflict, full)
<1>2. stored /\ ~stale /\ copy[w] = row /\ row' = Transition(Scored(copy[w], score), sound, conflict, full)
  <2> DEFINE x == Transition(Scored(copy[w], score), sound, conflict, full)
  <2>1. Put(w, x)
    BY <1>1
  <2> HIDE DEF x
  <2>2. stored /\ ~stale /\ copy[w] = row /\ row' = x
    BY <2>1, FreshPut
  <2> QED
    BY <2>2 DEF x
<1>3. row' = r
  BY <1>2
<1>4. UNCHANGED <<signals, wish>>
  BY DEF GovernWrite
<1>5. row \in Row /\ run \in -MinDown..MinUp /\ Fresh
  BY <1>2 DEF TypeInv, TypeOK, FreshInv
<1>6. t \in Row /\ t.useful = row.useful /\ t.pinned = row.pinned /\ t.life = row.life
  <2>1. t \in Row
    BY <1>5, ScoredType
  <2> QED
    BY <1>5, <2>1 DEF Scored, Row
<1>7. r \in Row /\ Untouched(r, row)
  BY <1>5, Governed, Zenon
<1>8. /\ t.up <= Positive(run') /\ t.down <= Positive(-run')
      /\ t.up >= MinUp => run' >= MinUp
      /\ t.down >= MinDown => run' <= -MinDown
  <2> DEFINE n == CASE score = "high" -> Cap((IF run > 0 THEN run ELSE 0) + 1, MinUp)
                    [] score = "low"  -> -Cap((IF run < 0 THEN -run ELSE 0) + 1, MinDown)
                    [] OTHER -> 0
  <2>1. row.up <= Positive(run) /\ row.down <= Positive(-run)
    BY <1>5 DEF Fresh
  <2>2. run' = n
    BY <1>1
  <2>3. /\ t.up <= Positive(n) /\ t.down <= Positive(-n)
        /\ t.up >= MinUp => n >= MinUp
        /\ t.down >= MinDown => n <= -MinDown
    BY <1>5, <2>1, ScoredStreaks
  <2> QED
    BY <2>2, <2>3
<1> HIDE DEF t
<1>9. /\ r.up <= t.up /\ r.down <= t.down
      /\ (t.life = "short" /\ r.life = "long") => t.up >= MinUp /\ (t.pinned \/ t.useful >= MinUseful)
      /\ (t.life = "long" /\ r.life = "short") => t.down >= MinDown /\ ~t.pinned
  BY <1>6, TransitionStreaks, Zenon
<1> HIDE DEF r
<1>10. r.up \in Nat /\ r.down \in Nat /\ t.up \in Nat /\ t.down \in Nat
  BY <1>6, <1>7, Ranges DEF Row
<1>11. run' \in Int
  BY <1>1, <1>5, Ranges DEF Cap
<1>12. Fresh'
  <2>1. r.useful = signals /\ r.pinned = wish /\ r.base <= r.useful
    BY <1>5, <1>7 DEF Fresh, Untouched
  <2>2. r.up <= Positive(run') /\ r.down <= Positive(-run')
    <3>1. \A x, y \in Nat, n \in Int : x <= y /\ y <= Positive(n) => x <= Positive(n)
      BY DEF Positive
    <3>2. -run' \in Int
      BY <1>11
    <3> QED
      BY <1>8, <1>9, <1>10, <1>11, <3>1, <3>2
  <2> QED
    BY <1>3, <1>4, <2>1, <2>2 DEF Fresh
<1> QED
  BY <1>2, <1>3, <1>5, <1>6, <1>8, <1>9, <1>12 DEF Fresh

\* The row agrees with the histories at first.
LEMMA FreshInit == Init => FreshInv
<1> SUFFICES ASSUME Init PROVE FreshInv
  OBVIOUS
<1>1. \A l, st : /\ NewRow(l, st).useful = 0 /\ NewRow(l, st).base = 0
                 /\ NewRow(l, st).pinned = FALSE
                 /\ NewRow(l, st).up = 0 /\ NewRow(l, st).down = 0
  BY DEF NewRow
<1>2. /\ row.useful = 0 /\ row.base = 0 /\ row.pinned = FALSE
      /\ row.up = 0 /\ row.down = 0
  BY <1>1 DEF Init
<1>3. Fresh
  <2>1. row.useful = signals /\ row.base <= row.useful
    BY <1>2 DEF Init
  <2>2. row.pinned = wish
    BY <1>2, Zenon DEF Init
  <2>3. row.up <= Positive(run) /\ row.down <= Positive(-run)
    BY <1>2 DEF Init, Positive
  <2> QED
    BY <2>1, <2>2, <2>3 DEF Fresh
<1>4. \A a \in Actors : pc[a] # "expire"
  BY DEF Init
<1> QED
  BY <1>3, <1>4 DEF Init, FreshInv

\* Leaving adds nobody to those about to expire the memory.
LEMMA FreshLeave ==
  ASSUME TypeInv, FreshInv, NEW a \in Actors, Leave(a), UNCHANGED purged
  PROVE  \A b \in Actors : pc'[b] = "expire" /\ ~purged' => copy'[b].useful <= copy'[b].base
BY LeaveType DEF FreshInv

\* The useful columns of a fresh row after a write that leaves them alone.
Alike(r, s) ==
  /\ r.useful = s.useful /\ r.pinned = s.pinned /\ r.up = s.up /\ r.down = s.down
  /\ r.life = s.life

\* What the writes of compression and rescue leave alone.
LEMMA CompressionAlike ==
  ASSUME NEW s \in Row, NEW text \in Texts
  PROVE  /\ Alike(Rescued(s), s) /\ Rescued(s).base = s.useful
         /\ Alike(Compressed(s, text), s) /\ Compressed(s, text).base = s.useful
  BY DEF Rescued, Compressed, Alike, Row

\* Compression and rescue keep a row fresh.
LEMMA WorkerWriteFresh ==
  ASSUME TypeInv, FreshInv, NEW w \in Workers, NEW r, Put(w, r), ~stale',
         UNCHANGED <<signals, wish, run>>, Alike(r, copy[w]), r.base = r.useful
  PROVE  stored /\ ~stale /\ Fresh' /\ row'.life = row.life
<1>1. stored /\ ~stale /\ copy[w] = row /\ row' = r
  BY FreshPut
<1>2. Fresh /\ row \in Row
  BY <1>1 DEF FreshInv, TypeInv, TypeOK
<1>3. r.useful \in Nat
  BY <1>1, <1>2, Ranges DEF Alike, Row
<1> QED
  BY <1>1, <1>2, <1>3 DEF Fresh, Alike

\* A step of a worker.
LEMMA FreshJobStep ==
  ASSUME TypeInv, CCRInv, FreshInv, NEW w \in Workers, JobStep(w) \/ Crash(w)
  PROVE  FreshInv'
<1>1. CASE GovernRead(w)
  <2>1. UNCHANGED <<stored, row, history>>
    BY <1>1 DEF GovernRead
  <2>2. \A b \in Actors : /\ copy'[b] = IF b = w THEN row ELSE copy[b]
                          /\ pc'[b] = IF b = w THEN "govern" ELSE pc[b]
    BY <1>1 DEF GovernRead, GoTo, Read, TypeInv, TypeOK
  <2> QED
    BY <2>1, <2>2 DEF FreshInv, Fresh, history
<1>2. CASE GovernWrite(w)
  <2>1. ~stale' => stored /\ ~stale /\ Fresh'
    BY <1>2, GovernWriteFresh
  <2>2. UNCHANGED <<copy, purged>> /\ GoTo(w, "list")
    BY <1>2 DEF GovernWrite
  <2>3. \A b \in Actors : pc'[b] = IF b = w THEN "list" ELSE pc[b]
    BY <2>2 DEF GoTo, TypeInv, TypeOK
  <2> QED
    BY <2>1, <2>2, <2>3 DEF FreshInv
<1>3. CASE ListMemory(w)
  <2>1. UNCHANGED <<stored, row, history>>
    BY <1>3 DEF ListMemory
  <2>2. CASE stored
    <3>1. Read(w) /\ GoTo(w, "examine")
      BY <1>3, <2>2 DEF ListMemory
    <3>2. \A b \in Actors : /\ copy'[b] = IF b = w THEN row ELSE copy[b]
                            /\ pc'[b] = IF b = w THEN "examine" ELSE pc[b]
      BY <3>1 DEF GoTo, Read, TypeInv, TypeOK
    <3> QED
      BY <2>1, <3>2 DEF FreshInv, Fresh, history
  <2>3. CASE ~stored
    <3>1. Leave(w)
      BY <1>3, <2>3 DEF ListMemory
    <3>2. \A b \in Actors : pc'[b] = "expire" /\ ~purged' => copy'[b].useful <= copy'[b].base
      BY <2>1, <3>1, FreshLeave DEF history
    <3> QED
      BY <2>1, <3>2 DEF FreshInv, Fresh, history
  <2> QED
    BY <2>2, <2>3
<1>4. CASE Examine(w)
  <2>1. UNCHANGED <<stored, row, history>>
    BY <1>4 DEF Examine
  <2>2. ASSUME NEW l \in WorkerPC, GoTo(w, l), UNCHANGED copy,
               l = "expire" /\ ~purged => copy[w].useful <= copy[w].base
        PROVE  FreshInv'
    <3>1. \A b \in Actors : pc'[b] = IF b = w THEN l ELSE pc[b]
      BY <2>2 DEF GoTo, TypeInv, TypeOK
    <3>2. \A b \in Actors : pc'[b] = "expire" /\ ~purged' => copy'[b].useful <= copy'[b].base
      BY <2>1, <2>2, <3>1 DEF FreshInv, history
    <3> QED
      BY <2>1, <3>2 DEF FreshInv, Fresh, history
  <2>3. ASSUME ~Rescuable(copy[w]), Expired(copy[w]), ~purged
        PROVE  copy[w].useful <= copy[w].base
    <3>1. copy[w].marker \in ccr /\ stored
      BY <2>3 DEF Expired, CCRInv, Recoverable
    <3>2. copy[w].useful \in Nat /\ copy[w].base \in Nat
      BY Ranges DEF TypeInv, TypeOK, Row
    <3> QED
      BY <2>3, <3>1, <3>2 DEF Rescuable
  <2>4. ASSUME Leave(w) PROVE FreshInv'
    <3>1. \A b \in Actors : pc'[b] = "expire" /\ ~purged' => copy'[b].useful <= copy'[b].base
      BY <2>1, <2>4, FreshLeave DEF history
    <3> QED
      BY <2>1, <3>1 DEF FreshInv, Fresh, history
  <2> QED
    BY <1>4, <2>2, <2>3, <2>4 DEF Examine, WorkerPC
<1>5. CASE Rescue(w)
  <2> DEFINE r == Rescued(copy[w])
  <2>1. Put(w, r) /\ Leave(w) /\ UNCHANGED <<signals, wish, run, purged>>
    BY <1>5 DEF Rescue
  <2>2. Alike(r, copy[w]) /\ r.base = r.useful
    BY CompressionAlike DEF TypeInv, TypeOK, Alike
  <2> HIDE DEF r
  <2>3. ~stale' => stored /\ ~stale /\ Fresh'
    BY <2>1, <2>2, WorkerWriteFresh
  <2> QED
    BY <2>1, <2>3, FreshLeave DEF FreshInv
<1>6. CASE Compress(w)
  <2> DEFINE r == Compressed(copy[w], source[w])
  <2>1. Put(w, r) /\ Leave(w) /\ UNCHANGED <<signals, wish, run, purged>>
    BY <1>6 DEF Compress
  <2>2. Alike(r, copy[w]) /\ r.base = r.useful
    BY CompressionAlike DEF TypeInv, TypeOK, Alike
  <2> HIDE DEF r
  <2>3. ~stale' => stored /\ ~stale /\ Fresh'
    BY <2>1, <2>2, WorkerWriteFresh
  <2> QED
    BY <2>1, <2>3, FreshLeave DEF FreshInv
<1>7. CASE Expire(w)
  <2>1. Leave(w) /\ UNCHANGED <<stored, signals, wish, run, purged>> /\ (~stale' => ~stale)
        /\ row' \in {row, [row EXCEPT !.status = "tombstoned"]} /\ (stale => stale')
    BY <1>7 DEF Expire
  <2>2. Alike(row', row) /\ row'.base = row.base
    BY <2>1 DEF Alike, TypeInv, TypeOK, Row
  <2>3. stored' /\ ~stale' => Fresh'
    BY <2>1, <2>2 DEF FreshInv, Fresh, Alike
  <2> QED
    BY <2>1, <2>3, FreshLeave DEF FreshInv
<1>8. CASE Crash(w)
  <2>1. Leave(w) /\ UNCHANGED <<stored, row, signals, wish, run, purged, stale>>
    BY <1>8 DEF Crash
  <2>2. \A b \in Actors : pc'[b] = "expire" /\ ~purged' => copy'[b].useful <= copy'[b].base
    BY <2>1, FreshLeave
  <2> QED
    BY <2>1, <2>2 DEF FreshInv, Fresh
<1> QED
  BY <1>1, <1>2, <1>3, <1>4, <1>5, <1>6, <1>7, <1>8 DEF JobStep

\* One more useful signal, counted in the row and in the history.
LEMMA SignalFresh ==
  ASSUME TypeInv, FreshInv, row' = [row EXCEPT !.useful = @ + 1], signals' = signals + 1,
         UNCHANGED <<stored, wish, run, stale>>
  PROVE  stored' /\ ~stale' => Fresh'
<1> SUFFICES ASSUME stored, ~stale PROVE Fresh'
  OBVIOUS
<1>1. row'.useful = row.useful + 1 /\ row'.pinned = row.pinned /\ row'.base = row.base
      /\ row'.up = row.up /\ row'.down = row.down
  BY DEF TypeInv, TypeOK, Row
<1>2. row.useful \in Nat /\ row.base \in Nat /\ Fresh
  BY Ranges DEF TypeInv, TypeOK, Row, FreshInv
<1> QED
  BY <1>1, <1>2 DEF Fresh

\* A step of a user.
LEMMA FreshUserStep ==
  ASSUME TypeInv, FreshInv, NEW u \in Users, UserStep(u)
  PROVE  FreshInv'
<1>1. CASE PinRead(u)
  <2>1. UNCHANGED <<stored, row, history>>
    BY <1>1 DEF PinRead
  <2>2. PICK l \in {"pin", "unpin"} : GoTo(u, l)
    BY <1>1 DEF PinRead
  <2>3. \A b \in Actors : /\ copy'[b] = IF b = u THEN row ELSE copy[b]
                          /\ pc'[b] = IF b = u THEN l ELSE pc[b]
    BY <1>1, <2>2 DEF PinRead, GoTo, Read, TypeInv, TypeOK
  <2> QED
    BY <2>1, <2>3 DEF FreshInv, Fresh, history
<1>2. CASE PinWrite(u)
  <2> DEFINE f == pc[u] = "pin"
             r == [copy[u] EXCEPT !.pinned = f]
  <2>1. Put(u, r) /\ wish' = f /\ UNCHANGED <<signals, run, purged>>
    BY <1>2, Zenon DEF PinWrite
  <2>2. \A b \in Actors : pc'[b] = "expire" /\ ~purged' => copy'[b].useful <= copy'[b].base
    <3>1. CASE f
      <4>1. GoTo(u, "confirm") /\ UNCHANGED copy
        BY <1>2, <3>1 DEF PinWrite
      <4>2. \A b \in Actors : pc'[b] = IF b = u THEN "confirm" ELSE pc[b]
        BY <4>1 DEF GoTo, TypeInv, TypeOK
      <4>3. UNCHANGED purged
        BY <1>2 DEF PinWrite
      <4> QED
        BY <4>1, <4>2, <4>3 DEF FreshInv
    <3>2. CASE ~f
      <4>1. Leave(u) /\ UNCHANGED purged
        BY <1>2, <3>2 DEF PinWrite
      <4> QED
        BY <4>1, FreshLeave
    <3> QED
      BY <3>1, <3>2
  <2> HIDE DEF f
  <2>3. ASSUME ~stale' PROVE stored /\ ~stale /\ Fresh'
    <3>1. stored /\ ~stale /\ copy[u] = row /\ row' = r
      <4> HIDE DEF r
      <4> QED
        BY <2>1, <2>3, FreshPut
    <3>2. Fresh /\ row \in Row
      BY <3>1 DEF FreshInv, TypeInv, TypeOK
    <3>3. row'.useful = row.useful /\ row'.base = row.base /\ row'.up = row.up
          /\ row'.down = row.down /\ row'.pinned = f
      BY <3>1, <3>2 DEF Row
    <3> QED
      BY <2>1, <3>1, <3>2, <3>3 DEF Fresh
  <2>4. UNCHANGED purged
    BY <1>2 DEF PinWrite
  <2> QED
    BY <2>2, <2>3, <2>4 DEF FreshInv
<1>3. CASE PinConfirm(u)
  <2>1. Leave(u) /\ UNCHANGED <<stored, wish, run, purged, stale>>
    BY <1>3 DEF PinConfirm
  <2>2. stored => row' = [row EXCEPT !.useful = @ + 1] /\ signals' = signals + 1
    BY <1>3 DEF PinConfirm
  <2>3. stored' /\ ~stale' => Fresh'
    BY <2>1, <2>2, SignalFresh
  <2> QED
    BY <2>1, <2>3, FreshLeave DEF FreshInv
<1> QED
  BY <1>1, <1>2, <1>3 DEF UserStep

\* Every step keeps a row fresh that is not stale.
LEMMA FreshStep ==
  ASSUME TypeInv, CCRInv, FreshInv, [Next]_vars
  PROVE  FreshInv'
<1>1. CASE UsefulSignal
  <2>1. /\ row' = [row EXCEPT !.useful = @ + 1] /\ signals' = signals + 1
        /\ UNCHANGED <<stored, pc, copy, wish, run, purged, stale>>
    BY <1>1 DEF UsefulSignal, locals
  <2>2. stored' /\ ~stale' => Fresh'
    BY <2>1, SignalFresh
  <2> QED
    BY <2>1, <2>2 DEF FreshInv
<1>2. CASE Tombstone
  <2>1. /\ row' = [row EXCEPT !.status = "tombstoned"]
        /\ UNCHANGED <<stored, pc, copy, signals, wish, run, purged, stale>>
    BY <1>2 DEF Tombstone, locals
  <2>2. Alike(row', row) /\ row'.base = row.base
    BY <2>1 DEF Alike, TypeInv, TypeOK, Row
  <2>3. Fresh => Fresh'
    BY <2>1, <2>2 DEF Fresh, Alike
  <2> QED
    BY <2>1, <2>3 DEF FreshInv
<1>3. CASE Purge
  BY <1>3 DEF Purge, FreshInv
<1>4. CASE Tick
  <2>1. /\ row' = Over(row) /\ copy' = [a \in Actors |-> Over(copy[a])]
        /\ UNCHANGED <<stored, pc, signals, wish, run, purged, stale>>
    BY <1>4 DEF Tick, history
  <2>2. \A a \in Actors : copy'[a].useful = copy[a].useful /\ copy'[a].base = copy[a].base
    BY <2>1, OverType DEF TypeInv, TypeOK
  <2>3. Alike(row', row) /\ row'.base = row.base
    BY <2>1, OverType DEF Alike, TypeInv, TypeOK
  <2>4. Fresh => Fresh'
    BY <2>1, <2>3 DEF Fresh, Alike
  <2> QED
    BY <2>1, <2>2, <2>4 DEF FreshInv
<1>5. CASE UNCHANGED vars
  BY <1>5 DEF vars, locals, history, FreshInv, Fresh
<1> QED
  BY <1>1, <1>2, <1>3, <1>4, <1>5, FreshJobStep, FreshUserStep DEF Next

\* The inductive invariant of the lifecycle of a memory.
LEMMA Invariant == Spec => [](TypeInv /\ CCRInv /\ FreshInv)
  BY TypeInit, TypeStep, CCRInit, CCRStep, FreshInit, FreshStep, PTL DEF Spec

\* As long as every write comes from what is in the table, no signal and no pin is
\* lost, whoever writes.
THEOREM FeedbackIsKeptHolds == Spec => []FeedbackIsKept
<1>1. FreshInv => FeedbackIsKept
  BY DEF FreshInv, Fresh, FeedbackIsKept
<1> QED
  BY <1>1, Invariant, PTL

-----------------------------------------------------------------------------
(* What a step may do: only governance moves a memory between its lifecycle *)
(* states, and only an expiry drops it.                                     *)

Earned ==
  (stored /\ ~stale') =>
    /\ (row.life = "short" /\ row'.life = "long") =>
         run' >= MinUp /\ (signals >= MinUseful \/ wish)
    /\ (row.life = "long" /\ row'.life = "short") => run' <= -MinDown /\ ~wish

\* Every step earns its transition.
LEMMA EarnedStep ==
  ASSUME TypeInv, FreshInv, [Next]_vars
  PROVE  Earned
<1>1. ASSUME NEW w \in Workers, GovernWrite(w) PROVE Earned
  BY <1>1, GovernWriteFresh DEF Earned
<1>2. ASSUME stored /\ ~stale' => row'.life = row.life PROVE Earned
  BY <1>2 DEF Earned
<1>3. ASSUME NEW w \in Workers,
             GovernRead(w) \/ ListMemory(w) \/ Examine(w) \/ Crash(w)
      PROVE  Earned
  BY <1>2, <1>3 DEF GovernRead, ListMemory, Examine, Crash
<1>4. ASSUME NEW w \in Workers, Rescue(w) PROVE Earned
  <2> DEFINE r == Rescued(copy[w])
  <2>1. Put(w, r)
    BY <1>4 DEF Rescue
  <2>2. Alike(r, copy[w])
    BY CompressionAlike DEF TypeInv, TypeOK
  <2> HIDE DEF r
  <2> QED
    BY <1>2, <2>1, <2>2, FreshPut DEF Alike
<1>5. ASSUME NEW w \in Workers, Compress(w) PROVE Earned
  <2> DEFINE r == Compressed(copy[w], source[w])
  <2>1. Put(w, r)
    BY <1>5 DEF Compress
  <2>2. Alike(r, copy[w])
    BY CompressionAlike DEF TypeInv, TypeOK
  <2> HIDE DEF r
  <2> QED
    BY <1>2, <2>1, <2>2, FreshPut DEF Alike
<1>6. ASSUME NEW w \in Workers, Expire(w) PROVE Earned
  BY <1>2, <1>6 DEF Expire, TypeInv, TypeOK, Row
<1>7. ASSUME NEW u \in Users, UserStep(u) PROVE Earned
  <2>1. CASE PinRead(u)
    BY <1>2, <2>1 DEF PinRead
  <2>2. CASE PinWrite(u)
    <3> DEFINE f == pc[u] = "pin"
               r == [copy[u] EXCEPT !.pinned = f]
    <3>1. Put(u, r)
      BY <2>2, Zenon DEF PinWrite
    <3> HIDE DEF f
    <3>2. copy[u] \in Row /\ r.life = copy[u].life
      BY DEF TypeInv, TypeOK, Row
    <3> HIDE DEF r
    <3> QED
      BY <1>2, <3>1, <3>2, FreshPut
  <2>3. CASE PinConfirm(u)
    BY <1>2, <2>3 DEF PinConfirm, TypeInv, TypeOK, Row
  <2> QED
    BY <1>7, <2>1, <2>2, <2>3 DEF UserStep
<1>8. CASE UsefulSignal \/ Tombstone \/ Purge
  BY <1>2, <1>8 DEF UsefulSignal, Tombstone, Purge, TypeInv, TypeOK, Row
<1>9. CASE Tick
  <2>1. row' = Over(row)
    BY <1>9 DEF Tick
  <2> QED
    BY <1>2, <2>1, OverType DEF TypeInv, TypeOK
<1>10. CASE UNCHANGED vars
  BY <1>2, <1>10 DEF vars
<1> QED
  BY <1>1, <1>3, <1>4, <1>5, <1>6, <1>7, <1>8, <1>9, <1>10 DEF Next, JobStep

\* A memory is promoted or demoted only after the required number of cycles in a
\* row, and with or without the feedback that the policy asks for.
THEOREM TransitionsAreEarnedHolds == Spec => TransitionsAreEarned
<1>1. TypeInv /\ FreshInv /\ [Next]_vars => [Earned]_vars
  BY EarnedStep
<1> QED
  BY <1>1, Invariant, PTL DEF Spec, TransitionsAreEarned, Earned

NotDropped == (tomb # tomb' /\ tomb' = "expiry" /\ ~stale') => signals = row.base

\* Every step that drops the memory drops one that was not useful.
LEMMA NotDroppedStep ==
  ASSUME TypeInv, FreshInv, [Next]_vars
  PROVE  NotDropped
<1>1. ASSUME NEW w \in Workers, Expire(w) PROVE NotDropped
  <2> SUFFICES ASSUME tomb # tomb', ~stale' PROVE signals = row.base
    BY DEF NotDropped
  <2>1. stored /\ ~stale /\ copy[w] = row /\ pc[w] = "expire"
    BY <1>1 DEF Expire
  <2>2. ~purged /\ Fresh /\ row.useful <= row.base
    BY <2>1 DEF FreshInv
  <2>3. row.useful \in Nat /\ row.base \in Nat
    BY Ranges DEF TypeInv, TypeOK, Row
  <2> QED
    BY <2>2, <2>3 DEF Fresh
<1>2. ASSUME UNCHANGED tomb \/ tomb' = "user" PROVE NotDropped
  BY <1>2 DEF NotDropped
<1>3. ASSUME NEW w \in Workers, JobStep(w) \/ Crash(w) PROVE NotDropped
  BY <1>1, <1>2, <1>3 DEF JobStep, GovernRead, GovernWrite, ListMemory, Examine, Rescue,
     Compress, Crash, history
<1>4. ASSUME NEW u \in Users, UserStep(u) PROVE NotDropped
  BY <1>2, <1>4 DEF UserStep, PinRead, PinWrite, PinConfirm, history
<1>5. CASE UsefulSignal \/ Tombstone \/ Purge \/ Tick
  BY <1>2, <1>5 DEF UsefulSignal, Tombstone, Purge, Tick, history
<1>6. CASE UNCHANGED vars
  BY <1>2, <1>6 DEF vars, history
<1> QED
  BY <1>3, <1>4, <1>5, <1>6 DEF Next

\* A memory dropped at the end of its observation was not useful since it was
\* compressed.
THEOREM UsefulIsNotDroppedHolds == Spec => UsefulIsNotDropped
<1>1. TypeInv /\ FreshInv /\ [Next]_vars => [NotDropped]_vars
  BY NotDroppedStep
<1> QED
  BY <1>1, Invariant, PTL DEF Spec, UsefulIsNotDropped, NotDropped
=============================================================================
