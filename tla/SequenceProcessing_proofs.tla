----------------------- MODULE SequenceProcessing_proofs -----------------------
(***************************************************************************)
(* Proofs about SequenceProcessing: its invariant, and under the timing    *)
(* premise Timely that suppressed sequences stay silent, that recordings   *)
(* are complete, and that AlarmLifecycle is implemented.                   *)
(***************************************************************************)
EXTENDS SequenceProcessing, TLAPS

-----------------------------------------------------------------------------
(* Operators of the model.                                                 *)

\* A sequence has a start and a code, and is not "no sequence".
LEMMA SequenceFields ==
  ASSUME NEW s \in Sequences
  PROVE  s.start \in Nat /\ s.code \in Codes /\ s # NoSequence
BY SequenceProcessingAssumption DEF Sequences, SequenceProcessingAssumption

\* Later is the maximum of two numbers.
LEMMA LaterIsMaximum ==
  ASSUME NEW m \in Int, NEW n \in Int
  PROVE  /\ Later(m, n) \in Int
         /\ m <= Later(m, n) /\ n <= Later(m, n)
         /\ Later(m, n) = m \/ Later(m, n) = n
BY DEF Later

\* Among detected sequences the first of a set is unique.
LEMMA FirstIsUnique ==
  ASSUME InOrder, TypeOK, NEW S \in SUBSET detected,
         NEW s, First(s, S), NEW t, First(t, S)
  PROVE  s = t
<1>1. s \in S /\ t \in S /\ s.start <= t.start /\ t.start <= s.start
  BY DEF First
<1>2. s.start \in Nat /\ t.start \in Nat
  BY <1>1, SequenceFields DEF TypeOK
<1>3. s.start = t.start
  BY <1>1, <1>2
<1> QED
  BY <1>1, <1>3 DEF InOrder

-----------------------------------------------------------------------------
(* Types.                                                                  *)

\* The main thread keeps the types.
LEMMA MainTypes ==
  ASSUME TypeOK, MainNext
  PROVE  TypeOK'
<1> USE DEF TypeOK
<1>1. CASE Capture
  BY <1>1 DEF Capture, NotifyRecorder, Woken, passerVars, history
<1>2. ASSUME NEW S \in SUBSET [code : Codes,
                               start : Later(1, audio - MaxDelay) .. audio],
             PassSequences(S)
      PROVE  TypeOK'
  <2>1. S \subseteq Sequences
    <3>1. audio - MaxDelay \in Int
      BY SequenceProcessingAssumption DEF SequenceProcessingAssumption
    <3>2. Later(1, audio - MaxDelay) \in Int /\ 1 <= Later(1, audio - MaxDelay)
      BY <3>1 DEF Later
    <3>3. Later(1, audio - MaxDelay) .. audio \subseteq Nat
      BY <3>2
    <3> QED
      BY <3>3 DEF Sequences
  <2> QED
    BY <1>2, <2>1 DEF PassSequences, Woken, recorderVars
<1>3. CASE KeepSequences
  BY <1>3 DEF KeepSequences, NotifyRecorder, Woken, passerVars, history
<1> QED
  BY <1>1, <1>2, <1>3 DEF MainNext

\* The passer keeps the types.
LEMMA PasserTypes ==
  ASSUME TypeOK, PasserNext \/ PasserFails
  PROVE  TypeOK'
<1> USE DEF TypeOK, recorderVars, history
<1>1. CASE PasserTakes
  BY <1>1 DEF PasserTakes
<1>2. ASSUME NEW s \in copy, Suppress(s)
      PROVE  TypeOK'
  BY <1>2 DEF Suppress, Rest, Forgotten
<1>3. ASSUME NEW s \in copy, Accept(s)
      PROVE  TypeOK'
  BY <1>3 DEF Accept, Forgotten
<1>4. ASSUME NEW s \in copy, Announce(s)
      PROVE  TypeOK'
  BY <1>4 DEF Announce, Rest
<1>5. CASE PasserFails
  BY <1>5 DEF PasserFails
<1> QED
  BY <1>1, <1>2, <1>3, <1>4, <1>5 DEF PasserNext

\* Dropping a sequence keeps the types.
LEMMA DropTypes ==
  ASSUME TypeOK, NEW s \in pending, Drop(s)
  PROVE  /\ pending' \subseteq Sequences /\ toScan' \subseteq Sequences
         /\ incoming' = incoming /\ heard' = heard
         /\ kept' \in Int
<1>1. CASE pending \ {s} = {}
  BY <1>1 DEF Drop, KeepForPending, TypeOK
<1>2. CASE pending \ {s} # {}
  <2>1. PICK t \in pending \ {s} : kept' = Later(kept, t.start - Buffer)
    BY <1>2 DEF Drop, KeepForPending
  <2>2. t.start - Buffer \in Int /\ kept \in Int
    BY SequenceFields, SequenceProcessingAssumption
    DEF TypeOK, SequenceProcessingAssumption
  <2>3. kept' \in Int
    BY <2>1, <2>2, LaterIsMaximum
  <2> QED
    BY <2>3 DEF Drop, TypeOK
<1> QED
  BY <1>1, <1>2

\* The preserver keeps the types.
LEMMA RecorderTypes ==
  ASSUME TypeOK, toScan \subseteq pending, RecorderNext \/ RecorderFails
  PROVE  TypeOK'
<1>1. CASE Collect
  <2>1. audio + 1 - Buffer \in Int /\ kept \in Int
    BY SequenceProcessingAssumption DEF TypeOK, SequenceProcessingAssumption
  <2>2. IdleKeeps(audio) \in Int
    BY <2>1, LaterIsMaximum DEF IdleKeeps
  <2> QED
    BY <1>1, <2>1, <2>2 DEF Collect, TypeOK, passerVars, history
<1>2. ASSUME NEW s \in toScan, Postpone(s)
      PROVE  TypeOK'
  BY <1>2 DEF Postpone, TypeOK, passerVars, history
<1>3. ASSUME NEW s \in toScan, Ignore(s)
      PROVE  TypeOK'
  <2>1. Drop(s)
    BY <1>3 DEF Ignore
  <2> QED
    BY <1>3, <2>1, DropTypes DEF Ignore, TypeOK, passerVars, history
<1>4. ASSUME NEW s \in toScan, ComeTooLate(s)
      PROVE  TypeOK'
  BY <1>4 DEF ComeTooLate, TypeOK, passerVars, history
<1>5. ASSUME NEW s \in toScan, BeginStoring(s)
      PROVE  TypeOK'
  BY <1>5 DEF BeginStoring, TypeOK, passerVars, history
<1>6. ASSUME NEW s \in toScan, Store(s)
      PROVE  TypeOK'
  <2>1. Drop(s)
    BY <1>6 DEF Store
  <2>2. recorded' \subseteq Sequences /\ cut' \subseteq Sequences
    BY <1>6 DEF Store, TypeOK
  <2> QED
    BY <1>6, <2>1, <2>2, DropTypes DEF Store, TypeOK, passerVars
<1>7. CASE RecorderRests
  BY <1>7 DEF RecorderRests, TypeOK, passerVars, history
<1>8. CASE RecorderFails
  BY <1>8 DEF RecorderFails, TypeOK, passerVars, history
<1> QED
  BY <1>1, <1>2, <1>3, <1>4, <1>5, <1>6, <1>7, <1>8 DEF RecorderNext

-----------------------------------------------------------------------------
(* Order.                                                                  *)

\* The main thread keeps the order.
LEMMA MainOrder ==
  ASSUME TypeOK, InOrder, NothingIsForgotten, MainNext
  PROVE  InOrder'
<1>1. CASE Capture
  <2>1. audio <= audio' /\ detected' = detected /\ detected \subseteq Sequences
    BY <1>1 DEF Capture, history, TypeOK
  <2>2. \A s \in detected' : s.start <= audio'
    BY <1>1, <2>1, SequenceFields DEF Capture, InOrder, TypeOK
  <2>3. heard' <= audio'
    BY <1>1 DEF Capture, InOrder, TypeOK
  <2> QED
    BY <1>1, <2>2, <2>3 DEF Capture, InOrder, passerVars, history
<1>2. ASSUME NEW S, PassSequences(S)
      PROVE  InOrder'
  <2>1. /\ \A s \in S : s.start <= audio /\ \A t \in detected : t.start < s.start
        /\ \A s, t \in S : t.start = s.start => t = s
        /\ S \subseteq detected' /\ detected' = detected \cup S
        /\ fresh = {} /\ fresh' = S /\ queue' = queue \cup S
        /\ UNCHANGED <<audio, copy, blacklist, suppressed, incoming, pending,
                       toScan, heard, recorded>>
    BY <1>2 DEF PassSequences, recorderVars
  <2>2. detected \subseteq Sequences
    BY DEF TypeOK
  <2>3. \A s, t \in detected' : s.start = t.start => s = t
    <3> SUFFICES ASSUME NEW s \in detected', NEW t \in detected',
                        s.start = t.start
                 PROVE  s = t
      OBVIOUS
    <3>1. CASE s \in detected /\ t \in detected
      BY <3>1 DEF InOrder
    <3>2. CASE s \in S /\ t \in S
      BY <3>2, <2>1
    <3>3. CASE s \in detected /\ t \in S
      <4>1. s.start < s.start /\ s.start \in Nat
        BY <3>3, <2>1, <2>2, SequenceFields
      <4> QED
        BY <4>1
    <3>4. CASE s \in S /\ t \in detected
      <4>1. t.start < t.start /\ t.start \in Nat
        BY <3>4, <2>1, <2>2, SequenceFields
      <4> QED
        BY <4>1
    <3> QED
      BY <2>1, <3>1, <3>2, <3>3, <3>4
  <2>4. \A s \in detected' : s.start <= audio'
    BY <2>1 DEF InOrder
  <2>5. copy \subseteq detected
    BY DEF NothingIsForgotten
  <2>6. \A s \in copy', t \in queue' : s.start < t.start
    BY <2>1, <2>5 DEF InOrder
  <2>7. pending \subseteq detected /\ incoming \subseteq detected
    BY DEF InOrder
  <2>8. \A s \in pending', t \in incoming' \cup fresh' : s.start < t.start
    BY <2>1, <2>7 DEF InOrder
  <2>9. \A s \in incoming', t \in fresh' : s.start < t.start
    BY <2>1, <2>7
  <2>10. /\ pending' \cup incoming' \cup fresh' \cup recorded' \subseteq detected'
         /\ blacklist' \subseteq suppressed'
         /\ toScan' \subseteq pending'
         /\ heard' <= audio'
    BY <2>1, <2>7 DEF InOrder
  <2>11. /\ passer' \in {"processing", "announcing"} => copy' # {}
         /\ passer' \in {"top", "waiting"} => copy' = {}
    BY <1>2 DEF PassSequences, Woken, InOrder
  <2> QED
    BY <2>3, <2>4, <2>6, <2>8, <2>9, <2>10, <2>11 DEF InOrder
<1>3. CASE KeepSequences
  BY <1>3 DEF KeepSequences, InOrder, passerVars, history
<1> QED
  BY <1>1, <1>2, <1>3 DEF MainNext

\* The passer keeps the order.
LEMMA PasserOrder ==
  ASSUME TypeOK, InOrder, PasserNext \/ PasserFails
  PROVE  InOrder'
<1> USE DEF InOrder, recorderVars, history
<1>1. CASE PasserTakes
  BY <1>1 DEF PasserTakes
<1>2. ASSUME NEW s \in copy, Suppress(s)
      PROVE  InOrder'
  BY <1>2 DEF Suppress, Rest, Forgotten
<1>3. ASSUME NEW s \in copy, Accept(s)
      PROVE  InOrder'
  BY <1>3 DEF Accept, Forgotten
<1>4. ASSUME NEW s \in copy, Announce(s)
      PROVE  InOrder'
  BY <1>4 DEF Announce, Rest
<1>5. CASE PasserFails
  BY <1>5 DEF PasserFails
<1> QED
  BY <1>1, <1>2, <1>3, <1>4, <1>5 DEF PasserNext

\* The preserver keeps the order.
LEMMA RecorderOrder ==
  ASSUME TypeOK, InOrder, RecorderNext \/ RecorderFails
  PROVE  InOrder'
<1> USE DEF InOrder, passerVars, history
<1>1. CASE Collect
  <2>1. heard' <= audio'
    BY <1>1 DEF Collect, TypeOK
  <2> QED
    BY <1>1, <2>1 DEF Collect
<1>2. ASSUME NEW s \in toScan, Postpone(s)
      PROVE  InOrder'
  BY <1>2 DEF Postpone
<1>3. ASSUME NEW s \in toScan, Ignore(s)
      PROVE  InOrder'
  BY <1>3 DEF Ignore, Drop
<1>4. ASSUME NEW s \in toScan, ComeTooLate(s)
      PROVE  InOrder'
  BY <1>4 DEF ComeTooLate
<1>5. ASSUME NEW s \in toScan, BeginStoring(s)
      PROVE  InOrder'
  BY <1>5 DEF BeginStoring
<1>6. ASSUME NEW s \in toScan, Store(s)
      PROVE  InOrder'
  BY <1>6 DEF Store, Drop
<1>7. CASE RecorderRests
  BY <1>7 DEF RecorderRests
<1>8. CASE RecorderFails
  BY <1>8 DEF RecorderFails
<1> QED
  BY <1>1, <1>2, <1>3, <1>4, <1>5, <1>6, <1>7, <1>8 DEF RecorderNext

-----------------------------------------------------------------------------
(* No sequence is forgotten.                                               *)

\* The main thread gives a sequence to both sides.
LEMMA MainForgetsNothing ==
  ASSUME TypeOK, InOrder, NothingIsForgotten, MainNext
  PROVE  NothingIsForgotten'
<1>1. CASE Capture
  BY <1>1 DEF Capture, NothingIsForgotten, Recording, passerVars, history
<1>2. ASSUME NEW S, PassSequences(S)
      PROVE  NothingIsForgotten'
  <2>1. /\ fresh = {} /\ fresh' = S /\ queue' = queue \cup S
        /\ detected' = detected \cup S
        /\ \A s \in S, t \in detected : t.start < s.start
        /\ UNCHANGED <<copy, incoming, pending, announced, suppressed, recorded>>
    BY <1>2 DEF PassSequences, recorderVars
  <2>2. S \cap detected = {}
    <3>1. \A s \in detected : ~(s.start < s.start)
      BY SequenceFields DEF TypeOK
    <3> QED
      BY <2>1, <3>1
  <2>3. passer' # "waiting"
    BY <1>2 DEF PassSequences, Woken
  <2>4. recorded \cap S = {} /\ Recording' = Recording \cup S
    BY <2>1, <2>2 DEF InOrder, Recording
  <2> QED
    BY <2>1, <2>2, <2>3, <2>4 DEF NothingIsForgotten
<1>3. CASE KeepSequences
  BY <1>3 DEF KeepSequences, NothingIsForgotten, Recording, passerVars, history
<1> QED
  BY <1>1, <1>2, <1>3 DEF MainNext

\* The passer takes, decides and announces, and loses no sequence.
LEMMA PasserForgetsNothing ==
  ASSUME TypeOK, InOrder, NothingIsForgotten, PasserNext \/ PasserFails
  PROVE  NothingIsForgotten'
<1> USE DEF NothingIsForgotten, Recording, recorderVars, history
<1>1. CASE PasserTakes
  BY <1>1 DEF PasserTakes, InOrder
<1>2. ASSUME NEW s \in copy, Suppress(s)
      PROVE  NothingIsForgotten'
  BY <1>2 DEF Suppress, Rest
<1>3. ASSUME NEW s \in copy, Accept(s)
      PROVE  NothingIsForgotten'
  BY <1>3 DEF Accept
<1>4. ASSUME NEW s \in copy, Announce(s)
      PROVE  NothingIsForgotten'
  BY <1>4 DEF Announce, Rest
<1>5. CASE PasserFails
  BY <1>5 DEF PasserFails
<1> QED
  BY <1>1, <1>2, <1>3, <1>4, <1>5 DEF PasserNext

\* A sequence that is pending is not among those that come after.
LEMMA PendingIsApart ==
  ASSUME TypeOK, InOrder
  PROVE  pending \cap (incoming \cup fresh) = {}
<1>1. \A s \in pending : ~(s.start < s.start)
  BY SequenceFields DEF TypeOK
<1> QED
  BY <1>1 DEF InOrder

\* The preserver collects, drops and stores, and loses no sequence.
LEMMA RecorderForgetsNothing ==
  ASSUME TypeOK, InOrder, NothingIsForgotten, RecorderNext \/ RecorderFails
  PROVE  NothingIsForgotten'
<1> USE DEF NothingIsForgotten, Recording, passerVars, history
<1>1. CASE Collect
  BY <1>1 DEF Collect
<1>2. ASSUME NEW s \in toScan, Postpone(s)
      PROVE  NothingIsForgotten'
  BY <1>2 DEF Postpone
<1>3. ASSUME NEW s \in toScan, Ignore(s)
      PROVE  NothingIsForgotten'
  BY <1>3 DEF Ignore, Drop, InOrder
<1>4. ASSUME NEW s \in toScan, ComeTooLate(s)
      PROVE  NothingIsForgotten'
  BY <1>4 DEF ComeTooLate
<1>5. ASSUME NEW s \in toScan, BeginStoring(s)
      PROVE  NothingIsForgotten'
  BY <1>5 DEF BeginStoring
<1>6. ASSUME NEW s \in toScan, Store(s)
      PROVE  NothingIsForgotten'
  <2>1. s \in pending /\ s \notin incoming \cup fresh
    BY PendingIsApart DEF InOrder
  <2> QED
    BY <1>6, <2>1 DEF Store, Drop
<1>7. CASE RecorderRests
  BY <1>7 DEF RecorderRests
<1>8. CASE RecorderFails
  BY <1>8 DEF RecorderFails
<1> QED
  BY <1>1, <1>2, <1>3, <1>4, <1>5, <1>6, <1>7, <1>8 DEF RecorderNext

-----------------------------------------------------------------------------
(* The sequence decided on last.                                           *)

\* The sequences decided on were detected.
LEMMA DecidedIsDetected ==
  ASSUME NothingIsForgotten
  PROVE  Decided \subseteq detected /\ Alarming \subseteq Decided
BY DEF NothingIsForgotten, Decided, Alarming, Announcing

\* The main thread and the preserver leave the decisions alone.
LEMMA OthersDecideNothing ==
  ASSUME TypeOK, InOrder, NothingIsForgotten, LastIsLatest, Separated(Alarming),
         MainNext \/ RecorderNext \/ RecorderFails
  PROVE  LastIsLatest' /\ Separated(Alarming)'
<1>1. ASSUME UNCHANGED <<passerVars, detected, announced, suppressed>>
      PROVE  LastIsLatest' /\ Separated(Alarming)'
  <2>1. Announcing' = Announcing
    BY <1>1 DEF Announcing, passerVars
  <2>2. Alarming' = Alarming /\ Decided' = Decided
    BY <1>1, <2>1 DEF Alarming, Decided
  <2> QED
    BY <1>1, <2>2 DEF passerVars, LastIsLatest, Separated
<1>2. ASSUME NEW S, PassSequences(S)
      PROVE  LastIsLatest' /\ Separated(Alarming)'
  <2>1. \A s \in S, t \in Decided : t.start < s.start
    BY <1>2, DecidedIsDetected DEF PassSequences
  <2>2. Announcing' = Announcing
    BY <1>2 DEF PassSequences, Announcing, Woken
  <2>3. Alarming' = Alarming /\ Decided' = Decided
    BY <1>2, <2>2 DEF PassSequences, Alarming, Decided
  <2>4. Separated(Alarming)'
    BY <1>2, <2>3 DEF PassSequences, Separated
  <2>5. LastIsLatest'
    BY <1>2, <2>1, <2>3 DEF PassSequences, LastIsLatest
  <2> QED
    BY <2>4, <2>5
<1>3. CASE MainNext
  BY <1>1, <1>2, <1>3 DEF MainNext, Capture, KeepSequences, history
<1>4. CASE RecorderNext \/ RecorderFails
  BY <1>1, <1>4
  DEF RecorderNext, RecorderFails, Collect, Postpone, Ignore, ComeTooLate,
      BeginStoring, Store, RecorderRests, history
<1> QED
  BY <1>3, <1>4

\* While the passer processes, its next sequence comes after all decided on.
LEMMA NextIsLatest ==
  ASSUME TypeOK, InOrder, NothingIsForgotten, LastIsLatest,
         passer = "processing", NEW s, First(s, copy)
  PROVE  /\ Announcing = {} /\ Decided = announced \cup suppressed
         /\ s \in copy \ Decided /\ s \in Sequences /\ s \in detected
         /\ \A t \in Decided : t.start < s.start
         /\ \A t \in (copy \cup queue) \ {s} : s.start < t.start
<1>1. Announcing = {} /\ Decided = announced \cup suppressed
  BY DEF Announcing, Alarming, Decided
<1>2. s \in copy \ Decided /\ s \in Sequences /\ s \in detected
  BY <1>1 DEF First, NothingIsForgotten, TypeOK
<1>3. \A t \in Decided : t.start < s.start
  BY <1>2 DEF LastIsLatest
<1>4. ASSUME NEW t \in copy, t # s
      PROVE  s.start < t.start
  <2>1. s.start <= t.start
    BY DEF First
  <2>2. s.start # t.start
    BY <1>2, <1>4 DEF InOrder, NothingIsForgotten
  <2>3. s.start \in Nat /\ t.start \in Nat
    BY <1>2, SequenceFields DEF TypeOK
  <2> QED
    BY <2>1, <2>2, <2>3
<1>5. \A t \in queue : s.start < t.start
  BY <1>2 DEF InOrder
<1> QED
  BY <1>1, <1>2, <1>3, <1>4, <1>5

\* After a decision on s the last sequence is s.
LEMMA DecideOn ==
  ASSUME TypeOK, InOrder, NothingIsForgotten, LastIsLatest,
         passer = "processing", NEW s, First(s, copy),
         last' = s, queue' = queue, copy' \subseteq copy,
         Decided' = Decided \cup {s}
  PROVE  LastIsLatest'
<1>1. /\ s \in Sequences
      /\ \A t \in Decided : t.start < s.start
      /\ \A t \in (copy \cup queue) \ {s} : s.start < t.start
  BY NextIsLatest
<1>2. s # NoSequence /\ s.start \in Nat
  BY <1>1, SequenceFields
<1>3. \A t \in Decided' : last' # NoSequence /\ t.start <= last'.start
  <2> SUFFICES ASSUME NEW t \in Decided'
               PROVE  last' # NoSequence /\ t.start <= last'.start
    OBVIOUS
  <2>1. CASE t = s
    BY <1>2, <2>1
  <2>2. CASE t \in Decided
    <3>1. t.start \in Nat
      BY <2>2, DecidedIsDetected, SequenceFields DEF TypeOK
    <3> QED
      BY <1>1, <1>2, <2>2, <3>1
  <2> QED
    BY <2>1, <2>2
<1>4. \A u \in Decided', t \in (copy' \cup queue') \ Decided' : u.start < t.start
  <2> SUFFICES ASSUME NEW u \in Decided',
                      NEW t \in (copy' \cup queue') \ Decided'
               PROVE  u.start < t.start
    OBVIOUS
  <2>1. t \in (copy \cup queue) \ {s} /\ t \notin Decided
    OBVIOUS
  <2>2. CASE u = s
    BY <1>1, <2>1, <2>2
  <2>3. CASE u \in Decided
    BY <2>1, <2>3 DEF LastIsLatest
  <2> QED
    BY <2>2, <2>3
<1> QED
  BY <1>2, <1>3, <1>4 DEF LastIsLatest

\* An alarm that is accepted is separated from those before.
LEMMA AcceptSeparates ==
  ASSUME TypeOK, InOrder, NothingIsForgotten, LastIsLatest, Separated(Alarming),
         passer = "processing", NEW s, First(s, copy), ~Repeats(s)
  PROVE  Separated(Alarming \cup {s})
<1>1. /\ s \in Sequences /\ s.start \in Nat
      /\ \A t \in Decided : t.start < s.start
  BY NextIsLatest, SequenceFields
<1>2. \A t \in Decided : t \in detected /\ t \in Sequences /\ t.start \in Nat
  BY DecidedIsDetected, SequenceFields DEF TypeOK
<1>3. ASSUME NEW t \in Alarming, t.code = s.code,
             s.start < t.start + MinDistance
      PROVE  \E u \in detected :
               t.start < u.start /\ u.start < s.start /\ u.code # t.code
  <2>1. t \in Decided /\ t.start \in Nat
    BY <1>2, DecidedIsDetected
  <2>2. /\ last # NoSequence /\ last \in Decided /\ t.start <= last.start
        /\ last.start \in Nat
    BY <2>1, <1>2 DEF LastIsLatest
  <2>3. MinDistance \in Nat
    BY SequenceProcessingAssumption DEF SequenceProcessingAssumption
  <2>4. last.code # s.code
    BY <1>1, <1>3, <2>1, <2>2, <2>3 DEF Repeats
  <2>5. t # last
    BY <1>3, <2>4
  <2>6. t.start # last.start
    BY <1>2, <2>1, <2>2, <2>5 DEF InOrder
  <2>7. t.start < last.start /\ last.start < s.start
    BY <1>1, <2>1, <2>2, <2>6
  <2> QED
    BY <1>2, <1>3, <2>2, <2>4, <2>7
<1>4. ASSUME NEW t \in Alarming, s.start < t.start
      PROVE  FALSE
  BY <1>1, <1>2, <1>4, DecidedIsDetected
<1> QED
  BY <1>1, <1>3, <1>4 DEF Separated

\* The passer keeps its last sequence the latest and alarms separated.
LEMMA PasserDecides ==
  ASSUME TypeOK, InOrder, NothingIsForgotten, LastIsLatest, Separated(Alarming),
         PasserNext \/ PasserFails
  PROVE  LastIsLatest' /\ Separated(Alarming)'
<1>1. CASE PasserTakes
  <2>1. Announcing = {} /\ Announcing' = {} /\ copy = {}
    BY <1>1 DEF PasserTakes, Announcing, InOrder
  <2>2. /\ copy' \cup queue' = copy \cup queue
        /\ UNCHANGED <<last, announced, suppressed, detected>>
    BY <1>1, <2>1 DEF PasserTakes, history
  <2>3. Alarming' = Alarming /\ Decided' = Decided
    BY <2>1, <2>2 DEF Alarming, Decided
  <2>4. LastIsLatest'
    BY <2>2, <2>3 DEF LastIsLatest
  <2> QED
    BY <2>2, <2>3, <2>4 DEF Separated
<1>2. ASSUME NEW s \in copy, Suppress(s)
      PROVE  LastIsLatest' /\ Separated(Alarming)'
  <2>1. Announcing = {} /\ Announcing' = {}
    BY <1>2 DEF Suppress, Announcing, Rest
  <2>2. Alarming' = Alarming /\ Decided' = Decided \cup {s}
    BY <1>2, <2>1 DEF Suppress, Alarming, Decided
  <2>3. LastIsLatest'
    BY <1>2, <2>2, DecideOn DEF Suppress
  <2> QED
    BY <1>2, <2>2, <2>3 DEF Suppress, Separated
<1>3. ASSUME NEW s \in copy, Accept(s)
      PROVE  LastIsLatest' /\ Separated(Alarming)'
  <2>1. Announcing = {}
    BY <1>3 DEF Accept, Announcing
  <2>2. Announcing' = {s}
    <3>1. copy \subseteq detected
      BY DEF NothingIsForgotten
    <3>2. \A t : First(t, copy) => t = s
      BY <1>3, <3>1, FirstIsUnique DEF Accept
    <3> QED
      BY <1>3, <3>2 DEF Accept, Announcing, First
  <2>3. /\ Alarming' = Alarming \cup {s} /\ Decided' = Decided \cup {s}
        /\ UNCHANGED <<copy, queue, detected>>
    BY <1>3, <2>1, <2>2 DEF Accept, Alarming, Decided, history
  <2>4. LastIsLatest'
    BY <1>3, <2>3, DecideOn DEF Accept
  <2>5. Separated(Alarming \cup {s})
    BY <1>3, AcceptSeparates DEF Accept
  <2> QED
    BY <2>3, <2>4, <2>5 DEF Separated
<1>4. ASSUME NEW s \in copy, Announce(s)
      PROVE  LastIsLatest' /\ Separated(Alarming)'
  <2>1. Announcing = {s}
    <3>1. copy \subseteq detected
      BY DEF NothingIsForgotten
    <3>2. \A t : First(t, copy) => t = s
      BY <1>4, <3>1, FirstIsUnique DEF Announce
    <3> QED
      BY <1>4, <3>2 DEF Announce, Announcing
  <2>2. Announcing' = {}
    BY <1>4 DEF Announce, Announcing, Rest
  <2>3. /\ Alarming' = Alarming /\ Decided' = Decided
        /\ copy' = copy \ {s} /\ UNCHANGED <<queue, detected, last>>
    BY <1>4, <2>1, <2>2 DEF Announce, Alarming, Decided
  <2>4. LastIsLatest'
    BY <2>3 DEF LastIsLatest
  <2> QED
    BY <2>3, <2>4 DEF Separated
<1>5. CASE PasserFails
  <2>1. Announcing' = Announcing
    BY <1>5 DEF PasserFails, Announcing
  <2>2. /\ Alarming' = Alarming /\ Decided' = Decided
        /\ UNCHANGED <<copy, queue, detected, last>>
    BY <1>5, <2>1 DEF PasserFails, Alarming, Decided, history
  <2> QED
    BY <2>2 DEF LastIsLatest, Separated
<1> QED
  BY <1>1, <1>2, <1>3, <1>4, <1>5 DEF PasserNext

-----------------------------------------------------------------------------
(* The invariant.                                                          *)

\* IInv holds at the start.
LEMMA InitIInv ==
  ASSUME Init
  PROVE  IInv
BY DEF Init, IInv, TypeOK, InOrder, NothingIsForgotten, LastIsLatest, Separated,
       Alarming, Announcing, Decided, Recording

\* Every step keeps IInv.
LEMMA NextIInv ==
  ASSUME IInv, [Next]_vars
  PROVE  IInv'
<1>1. /\ TypeOK /\ InOrder /\ NothingIsForgotten /\ LastIsLatest
      /\ Separated(Alarming) /\ toScan \subseteq pending
  BY DEF IInv, InOrder
<1>2. CASE MainNext
  BY <1>1, <1>2, MainTypes, MainOrder, MainForgetsNothing, OthersDecideNothing
  DEF IInv
<1>3. CASE PasserNext \/ PasserFails
  BY <1>1, <1>3, PasserTypes, PasserOrder, PasserForgetsNothing, PasserDecides
  DEF IInv
<1>4. CASE RecorderNext \/ RecorderFails
  BY <1>1, <1>4, RecorderTypes, RecorderOrder, RecorderForgetsNothing,
     OthersDecideNothing
  DEF IInv
<1>5. CASE UNCHANGED vars
  BY <1>1, <1>5
  DEF IInv, TypeOK, InOrder, NothingIsForgotten, LastIsLatest, Separated,
      Alarming, Announcing, Decided, Recording, vars, passerVars,
      recorderVars, history
<1> QED
  BY <1>2, <1>3, <1>4, <1>5 DEF Next

\* Whatever the delays: types, order, no sequence forgotten, alarms apart.
THEOREM Invariant == Spec => []IInv
<1>1. Init => IInv
  BY InitIInv
<1>2. IInv /\ [Next]_vars => IInv'
  BY NextIInv
<1> QED
  BY <1>1, <1>2, PTL DEF Spec

\* TypeOK is an invariant.
THEOREM TypeCorrect == Spec => []TypeOK
<1>1. IInv => TypeOK
  BY DEF IInv
<1> QED
  BY <1>1, Invariant, PTL

\* A detected sequence is in its places on both sides, or done with.
THEOREM NoneForgotten == Spec => []NothingIsForgotten
<1>1. IInv => NothingIsForgotten
  BY DEF IInv
<1> QED
  BY <1>1, Invariant, PTL

\* Two alarms of a code within MinDistance have another code between them.
THEOREM AlarmsApart == Spec => []AlarmsAreApart
<1>1. IInv => AlarmsAreApart
  BY DEF IInv, AlarmsAreApart, Separated, Alarming
<1> QED
  BY <1>1, Invariant, PTL

-----------------------------------------------------------------------------
(* The threads are in time.                                                *)

\* Timely and the assumption on the constants, as facts on numbers.
LEMMA TimelyNumbers ==
  ASSUME Timely
  PROVE  /\ MaxDelay \in Nat /\ PasserLag \in Nat /\ RecorderLag \in Nat
         /\ RecordFrom \in Int /\ RecordUntil \in Nat /\ Buffer \in Nat
         /\ 0 <= Buffer + RecordFrom /\ MaxDelay < Buffer + RecordFrom
         /\ MaxDelay <= PasserLag /\ PasserLag <= RecordUntil
         /\ MaxDelay <= RecorderLag /\ RecorderLag <= 2 * DeleteTimespan
         /\ DeleteTimespan \in Nat
BY SequenceProcessingAssumption
DEF Timely, SequenceProcessingAssumption, DeleteTimespan

\* A step that brings no time and no sequence leaves the threads in time.
LEMMA StaysInTime ==
  ASSUME InTime, audio' = audio, Passing' \subseteq Passing,
         Recording' \subseteq Recording, fresh' \subseteq fresh,
         passer = "ended" => passer' = "ended",
         recorder = "ended" => recorder' = "ended"
  PROVE  InTime'
BY DEF InTime

\* Every step leaves the threads in time.
LEMMA NextInTime ==
  ASSUME Timely, IInv, InTime, Next
  PROVE  InTime'
<1> USE DEF Passing, Recording
<1>1. CASE Capture
  <2>1. audio \in Nat /\ audio' <= audio + 1 /\ audio' \in Nat
    BY <1>1 DEF Capture, IInv, TypeOK
  <2>2. \A s \in Passing \cup Recording : s.start \in Nat
    BY SequenceFields DEF IInv, TypeOK
  <2>3. ASSUME passer # "ended", NEW s \in Passing
        PROVE  audio' <= s.start + PasserLag
    BY <1>1, <2>1, <2>2, <2>3, TimelyNumbers DEF Capture
  <2>4. ASSUME recorder # "ended", NEW s \in Recording
        PROVE  audio' <= s.start + RecorderLag
    BY <1>1, <2>1, <2>2, <2>4, TimelyNumbers DEF Capture
  <2>5. /\ Passing' = Passing /\ Recording' = Recording
        /\ passer' = passer /\ fresh' = {}
        /\ recorder = "ended" => recorder' = "ended"
    BY <1>1 DEF Capture, NotifyRecorder, Woken, passerVars
  <2> QED
    BY <2>3, <2>4, <2>5 DEF InTime
<1>2. ASSUME NEW S, PassSequences(S)
      PROVE  InTime'
  <2>1. /\ Passing' = Passing \cup S /\ Recording' = Recording \cup S
        /\ audio' = audio /\ recorder' = recorder /\ fresh' = S
        /\ passer = "ended" => passer' = "ended"
        /\ \A s \in S : audio <= s.start + MaxDelay
        /\ S \subseteq detected'
    BY <1>2 DEF PassSequences, recorderVars, Woken
  <2>2. audio \in Nat /\ \A s \in S : s.start \in Nat
    BY <1>2, <2>1, SequenceFields, NextIInv DEF IInv, TypeOK, Next, MainNext
  <2>3. \A s \in S : audio <= s.start + PasserLag /\ audio <= s.start + RecorderLag
    BY <2>1, <2>2, TimelyNumbers
  <2> QED
    BY <2>1, <2>3 DEF InTime
<1>3. CASE KeepSequences
  BY <1>3, StaysInTime DEF KeepSequences, NotifyRecorder, Woken, passerVars
<1>4. CASE PasserNext \/ PasserFails
  BY <1>4, StaysInTime
  DEF PasserNext, PasserFails, PasserTakes, Suppress, Accept, Announce,
      recorderVars
<1>5. CASE RecorderNext \/ RecorderFails
  BY <1>5, StaysInTime
  DEF RecorderNext, RecorderFails, Collect, Postpone, Ignore, ComeTooLate,
      BeginStoring, Store, RecorderRests, Drop, passerVars
<1> QED
  BY <1>1, <1>2, <1>3, <1>4, <1>5 DEF Next, MainNext

-----------------------------------------------------------------------------
(* The blacklist.                                                          *)

\* What is deleted from the blacklist at a sequence detected is not recorded
\* any more.
LEMMA ForgottenIsRecorded ==
  ASSUME Timely, IInv, InTime, recorder # "ended", NEW s \in detected,
         NEW t \in Recording
  PROVE  t \notin Forgotten(s)
<1>1. s.start <= audio /\ audio <= t.start + RecorderLag
  BY DEF IInv, InOrder, InTime
<1>2. s.start \in Nat /\ t.start \in Nat /\ audio \in Nat
  BY SequenceFields DEF IInv, TypeOK, Recording
<1> QED
  BY <1>1, <1>2, TimelyNumbers DEF Forgotten

\* A sequence that is ready for its recording has been decided on, as long as
\* the passer is there.
LEMMA ReadyIsDecided ==
  ASSUME Timely, IInv, InTime, passer # "ended", NEW s \in pending, Ready(s)
  PROVE  s \notin Passing
<1>1. ASSUME s \in Passing
      PROVE  FALSE
  <2>1. audio <= s.start + PasserLag
    BY <1>1 DEF InTime
  <2>2. heard - s.start > RecordUntil /\ heard <= audio
    BY DEF Ready, IInv, InOrder
  <2>3. s.start \in Nat /\ audio \in Nat /\ heard \in Nat
    BY SequenceFields DEF IInv, TypeOK
  <2> QED
    BY <2>1, <2>2, <2>3, TimelyNumbers
<1> QED
  BY <1>1

\* The main thread does not touch what is remembered.
LEMMA MainRemembers ==
  ASSUME Timely, IInv, InTime, Remembered, MainNext
  PROVE  Remembered'
<1>1. CASE Capture \/ KeepSequences
  BY <1>1
  DEF Capture, KeepSequences, NotifyRecorder, Woken, passerVars, history,
      Remembered, SuppressedStaysSilent, Recording, Ready
<1>2. ASSUME NEW S, PassSequences(S)
      PROVE  Remembered'
  <2>1. S \cap detected = {}
    <3>1. \A s \in detected : ~(s.start < s.start)
      BY SequenceFields DEF IInv, TypeOK
    <3> QED
      BY <1>2, <3>1 DEF PassSequences
  <2>2. suppressed \cap S = {}
    BY <2>1 DEF IInv, NothingIsForgotten
  <2>3. Recording' = Recording \cup S
    BY <1>2 DEF PassSequences, Recording, recorderVars
  <2> QED
    BY <1>2, <2>2, <2>3
    DEF PassSequences, recorderVars, Woken, Remembered, SuppressedStaysSilent,
        Ready
<1> QED
  BY <1>1, <1>2 DEF MainNext

\* The passer decides in time, and remembers what it suppresses.
LEMMA PasserRemembers ==
  ASSUME Timely, IInv, InTime, Remembered, PasserNext \/ PasserFails
  PROVE  Remembered'
<1> USE DEF SuppressedStaysSilent
<1>1. CASE PasserTakes
  BY <1>1 DEF PasserTakes, Remembered, Recording, Ready, recorderVars, history
<1>2. ASSUME NEW s \in copy, Suppress(s)
      PROVE  Remembered'
  <2>1. /\ passer # "ended" /\ s \in detected /\ s \in Passing
        /\ s \notin announced
    BY <1>2 DEF Suppress, IInv, NothingIsForgotten, Passing
  <2>2. /\ suppressed' = suppressed \cup {s} /\ Recording' = Recording
        /\ blacklist' = (blacklist \ Forgotten(s)) \cup {s}
        /\ \A u : Ready(u)' <=> Ready(u)
        /\ UNCHANGED <<recorder, announced, recorded, toScan>>
    BY <1>2 DEF Suppress, Recording, recorderVars, Ready
  <2>3. recorder # "ended" => suppressed' \cap Recording' \subseteq blacklist'
    BY <2>1, <2>2, ForgottenIsRecorded DEF Remembered
  <2>4. ASSUME recorder = "storing", NEW u \in toScan, First(u, toScan)
        PROVE  Ready(u) /\ u \notin suppressed'
    <3>1. Ready(u) /\ u \notin suppressed /\ u \in pending
      BY <2>4 DEF Remembered, IInv, InOrder
    <3>2. u \notin Passing
      BY <2>1, <3>1, ReadyIsDecided
    <3> QED
      BY <2>1, <2>2, <3>1, <3>2
  <2>5. SuppressedStaysSilent'
    BY <2>1, <2>2 DEF Remembered
  <2>6. recorded' \subseteq announced'
    BY <2>1, <2>2 DEF Remembered
  <2> QED
    BY <2>2, <2>3, <2>4, <2>5, <2>6 DEF Remembered, First
<1>3. ASSUME NEW s \in copy, Accept(s)
      PROVE  Remembered'
  <2>1. s \in detected
    BY DEF IInv, NothingIsForgotten
  <2>2. /\ Recording' = Recording /\ blacklist' = blacklist \ Forgotten(s)
        /\ \A u : Ready(u)' <=> Ready(u)
        /\ UNCHANGED <<recorder, announced, recorded, suppressed, toScan>>
    BY <1>3 DEF Accept, Recording, recorderVars, Ready, history
  <2>3. recorder # "ended" => suppressed' \cap Recording' \subseteq blacklist'
    BY <2>1, <2>2, ForgottenIsRecorded DEF Remembered
  <2> QED
    BY <1>3, <2>2, <2>3 DEF Accept, Remembered, First
<1>4. ASSUME NEW s \in copy, Announce(s)
      PROVE  Remembered'
  <2>1. s \notin suppressed
    BY DEF IInv, NothingIsForgotten
  <2> QED
    BY <1>4, <2>1 DEF Announce, Rest, Remembered, Recording, Ready, recorderVars
<1>5. CASE PasserFails
  BY <1>5 DEF PasserFails, Remembered, Recording, Ready, recorderVars, history
<1> QED
  BY <1>1, <1>2, <1>3, <1>4, <1>5 DEF PasserNext

\* The preserver stores only what has been decided on and not suppressed.
LEMMA RecorderRemembers ==
  ASSUME Timely, IInv, InTime, Remembered, RecorderNext \/ RecorderFails
  PROVE  Remembered'
<1> USE DEF SuppressedStaysSilent
<1>1. CASE Collect
  BY <1>1 DEF Collect, Remembered, Recording, passerVars, history
<1>2. ASSUME NEW s \in toScan, Postpone(s)
      PROVE  Remembered'
  BY <1>2 DEF Postpone, Remembered, Recording, passerVars, history
<1>3. ASSUME NEW s \in toScan, Ignore(s)
      PROVE  Remembered'
  BY <1>3 DEF Ignore, Drop, Remembered, Recording, passerVars, history
<1>4. CASE RecorderFails \/ RecorderRests \/ \E s \in toScan : ComeTooLate(s)
  BY <1>4
  DEF RecorderFails, RecorderRests, ComeTooLate, Remembered, Recording,
      passerVars, history
<1>5. ASSUME NEW s \in toScan, BeginStoring(s)
      PROVE  Remembered'
  <2>1. /\ Ready(s) /\ s \notin blacklist /\ recorder # "ended"
        /\ recorder' = "storing" /\ Recording' = Recording
        /\ \A u : Ready(u)' <=> Ready(u)
        /\ UNCHANGED <<passer, blacklist, toScan, announced, suppressed, recorded>>
    BY <1>5 DEF BeginStoring, Recording, Ready, passerVars, history
  <2>2. s \in Recording /\ toScan \subseteq detected
    BY DEF Recording, IInv, InOrder
  <2>3. s \notin suppressed
    BY <2>1, <2>2 DEF Remembered
  <2>4. \A u : First(u, toScan) => u = s
    BY <1>5, <2>2, FirstIsUnique DEF BeginStoring, IInv
  <2> QED
    BY <2>1, <2>3, <2>4 DEF Remembered, First
<1>6. ASSUME NEW s \in toScan, Store(s)
      PROVE  Remembered'
  <2>1. /\ recorded' = recorded \cup {s} /\ Recording' \subseteq Recording
        /\ recorder # "ended" /\ recorder' = "scanning"
        /\ UNCHANGED <<passer, blacklist, announced, suppressed>>
    BY <1>6 DEF Store, Drop, Recording, passerVars
  <2>2. Ready(s) /\ s \notin suppressed
    BY <1>6 DEF Store, Remembered
  <2>3. s \in pending /\ s \in detected
    BY DEF IInv, InOrder
  <2>4. passer # "ended" => s \in announced
    BY <2>2, <2>3, ReadyIsDecided DEF IInv, NothingIsForgotten, Passing
  <2> QED
    BY <2>1, <2>2, <2>4 DEF Remembered
<1> QED
  BY <1>1, <1>2, <1>3, <1>4, <1>5, <1>6 DEF RecorderNext

-----------------------------------------------------------------------------
(* The audio.                                                              *)

\* A step that deletes no audio and brings no sequence keeps the audio.
LEMMA NoAudioDeleted ==
  ASSUME IInv, AudioIsKept, kept' = kept,
         NEW now \in Nat, audio' = now, audio <= now,
         Recording' \subseteq Recording,
         recorder = "ended" => recorder' = "ended"
  PROVE  AudioIsKept'
<1>1. audio \in Nat /\ kept \in Int /\ Buffer \in Nat
  BY SequenceProcessingAssumption
  DEF IInv, TypeOK, SequenceProcessingAssumption
<1>2. kept <= Later(1, audio + 1 - Buffer)
  BY DEF AudioIsKept
<1>3. kept <= Later(1, now + 1 - Buffer)
  BY <1>1, <1>2 DEF Later
<1> QED
  BY <1>3 DEF AudioIsKept

\* The main thread finds sequences whose audio is still there.
LEMMA MainKeepsAudio ==
  ASSUME Timely, IInv, AudioIsKept, MainNext
  PROVE  AudioIsKept'
<1>0. audio \in Nat /\ kept \in Int /\ Buffer \in Nat
  BY SequenceProcessingAssumption
  DEF IInv, TypeOK, SequenceProcessingAssumption
<1>1. CASE Capture
  <2>1. audio' \in Nat /\ audio <= audio'
    BY <1>0, <1>1 DEF Capture
  <2> QED
    BY <1>1, <2>1, NoAudioDeleted
    DEF Capture, Recording, NotifyRecorder, Woken
<1>2. ASSUME NEW S, PassSequences(S)
      PROVE  AudioIsKept'
  <2>1. /\ Recording' = Recording \cup S
        /\ UNCHANGED <<audio, kept, recorder>>
        /\ \A s \in S : audio <= s.start + MaxDelay
        /\ S \subseteq detected'
    BY <1>2 DEF PassSequences, Recording, recorderVars
  <2>2. \A s \in S : s.start \in Nat
    BY <2>1, SequenceFields, MainTypes DEF IInv, TypeOK
  <2>3. \A s \in S : kept <= Later(1, s.start + RecordFrom)
    BY <1>0, <2>1, <2>2, TimelyNumbers DEF AudioIsKept, Later
  <2> QED
    BY <2>1, <2>3 DEF AudioIsKept
<1>3. CASE KeepSequences
  BY <1>0, <1>3, NoAudioDeleted
  DEF KeepSequences, Recording, NotifyRecorder, Woken
<1> QED
  BY <1>1, <1>2, <1>3 DEF MainNext

\* What is deleted before the first pending sequence is not needed later.
LEMMA DropKeepsAudio ==
  ASSUME Timely, IInv, AudioIsKept, recorder # "ended",
         NEW s \in pending, Drop(s), UNCHANGED <<audio, fresh>>
  PROVE  AudioIsKept'
<1>0. audio \in Nat /\ kept \in Int
  BY DEF IInv, TypeOK
<1>1. Recording' = (pending \ {s}) \cup incoming \cup fresh
  BY DEF Drop, Recording
<1>2. CASE pending \ {s} = {}
  BY <1>0, <1>1, <1>2, NoAudioDeleted DEF Drop, KeepForPending, Recording
<1>3. CASE pending \ {s} # {}
  <2>1. PICK t \in pending \ {s} :
          First(t, pending \ {s}) /\ kept' = Later(kept, t.start - Buffer)
    BY <1>3 DEF Drop, KeepForPending
  <2>2. t.start \in Nat /\ t.start <= audio
    BY SequenceFields DEF IInv, InOrder, TypeOK
  <2>3. kept' <= Later(1, audio' + 1 - Buffer)
    BY <1>0, <2>1, <2>2, TimelyNumbers DEF AudioIsKept, Later
  <2>4. ASSUME NEW u \in Recording'
        PROVE  kept' <= Later(1, u.start + RecordFrom)
    <3>1. u \in Recording /\ u.start \in Nat
      BY <1>1, SequenceFields DEF Recording, IInv, TypeOK
    <3>2. t.start <= u.start
      <4>1. CASE u \in pending \ {s}
        BY <2>1, <4>1 DEF First
      <4>2. CASE u \in incoming \cup fresh
        BY <2>2, <3>1, <4>2 DEF IInv, InOrder
      <4> QED
        BY <1>1, <4>1, <4>2
    <3>3. kept <= Later(1, u.start + RecordFrom)
      BY <3>1 DEF AudioIsKept
    <3> QED
      BY <1>0, <2>1, <2>2, <3>1, <3>2, <3>3, TimelyNumbers DEF Later
  <2> QED
    BY <2>3, <2>4 DEF AudioIsKept
<1> QED
  BY <1>2, <1>3

\* The preserver keeps the audio for every sequence it knows or will know.
LEMMA RecorderKeepsAudio ==
  ASSUME Timely, IInv, InTime, AudioIsKept, RecorderNext \/ RecorderFails
  PROVE  AudioIsKept'
<1>0. audio \in Nat /\ kept \in Int /\ toScan \subseteq pending
  BY DEF IInv, TypeOK, InOrder
<1>1. CASE Collect
  <2>1. Recording' = Recording /\ audio' = audio /\ fresh' = fresh
    BY <1>1 DEF Collect, Recording
  <2>2. CASE pending' # {}
    <3>1. kept' = kept /\ recorder # "ended"
      BY <1>1, <2>2 DEF Collect
    <3> QED
      BY <1>0, <2>1, <3>1, NoAudioDeleted
  <2>3. CASE pending' = {}
    <3>1. /\ kept' = Later(kept, audio + 1 - Buffer)
          /\ recorder # "ended" /\ Recording = fresh
      BY <1>1, <2>3 DEF Collect, IdleKeeps, Recording
    <3>2. kept' <= Later(1, audio' + 1 - Buffer)
      BY <1>0, <2>1, <3>1, TimelyNumbers DEF AudioIsKept, Later
    <3>3. ASSUME NEW u \in fresh
          PROVE  kept' <= Later(1, u.start + RecordFrom)
      <4>1. u.start \in Nat /\ audio <= u.start + MaxDelay
        BY SequenceFields DEF IInv, TypeOK, InTime
      <4>2. kept <= Later(1, u.start + RecordFrom)
        BY <3>1 DEF AudioIsKept
      <4> QED
        BY <1>0, <3>1, <4>1, <4>2, TimelyNumbers DEF Later
    <3> QED
      BY <2>1, <3>1, <3>2, <3>3 DEF AudioIsKept
  <2> QED
    BY <2>2, <2>3
<1>2. ASSUME NEW s \in toScan, Ignore(s) \/ Store(s)
      PROVE  AudioIsKept'
  BY <1>0, <1>2, DropKeepsAudio DEF Ignore, Store
<1>3. CASE RecorderFails \/ RecorderRests
             \/ \E s \in toScan : Postpone(s) \/ ComeTooLate(s) \/ BeginStoring(s)
  BY <1>0, <1>3, NoAudioDeleted
  DEF RecorderFails, RecorderRests, Postpone, ComeTooLate, BeginStoring,
      Recording
<1> QED
  BY <1>1, <1>2, <1>3 DEF RecorderNext

-----------------------------------------------------------------------------
(* The invariant of timely threads.                                        *)

\* TimelyInv holds at the start.
LEMMA InitTimelyInv ==
  ASSUME Init
  PROVE  TimelyInv
<1>1. InTime /\ Remembered /\ RecordingsAreComplete
  BY DEF Init, InTime, Remembered, SuppressedStaysSilent,
         RecordingsAreComplete, Passing, Recording
<1>2. AudioIsKept
  BY SequenceProcessingAssumption
  DEF Init, AudioIsKept, Recording, Later, SequenceProcessingAssumption
<1> QED
  BY <1>1, <1>2, InitIInv DEF TimelyInv

\* No step cuts a recording.
LEMMA NextCompletes ==
  ASSUME IInv, AudioIsKept, RecordingsAreComplete, Next
  PROVE  RecordingsAreComplete'
<1>1. ASSUME NEW s \in toScan, Store(s)
      PROVE  cut' = {}
  <2>1. s \in Recording /\ s.start \in Nat
    BY SequenceFields DEF Recording, IInv, InOrder, TypeOK
  <2>2. kept <= Later(1, s.start + RecordFrom)
    BY <1>1, <2>1 DEF Store, AudioIsKept
  <2>3. kept \in Int /\ s.start + RecordFrom \in Int
    BY <2>1, SequenceProcessingAssumption
    DEF IInv, TypeOK, SequenceProcessingAssumption
  <2>4. ~(kept > Later(1, s.start + RecordFrom))
    BY <2>2, <2>3 DEF Later
  <2> QED
    BY <1>1, <2>4 DEF Store, RecordingsAreComplete
<1>2. CASE MainNext
  BY <1>2
  DEF MainNext, Capture, PassSequences, KeepSequences, history,
      RecordingsAreComplete
<1>3. CASE PasserNext \/ PasserFails
  BY <1>3
  DEF PasserNext, PasserTakes, Suppress, Accept, Announce, PasserFails,
      history, RecordingsAreComplete
<1>4. CASE RecorderNext \/ RecorderFails
  BY <1>1, <1>4
  DEF RecorderNext, Collect, Postpone, Ignore, ComeTooLate, BeginStoring,
      RecorderRests, RecorderFails, history, RecordingsAreComplete
<1> QED
  BY <1>2, <1>3, <1>4 DEF Next

\* Every step keeps TimelyInv.
LEMMA NextTimelyInv ==
  ASSUME Timely, TimelyInv, [Next]_vars
  PROVE  TimelyInv'
<1>1. IInv /\ InTime /\ Remembered /\ AudioIsKept /\ RecordingsAreComplete
  BY DEF TimelyInv
<1>2. CASE Next
  <2>1. IInv' /\ InTime' /\ RecordingsAreComplete'
    BY <1>1, <1>2, NextIInv, NextInTime, NextCompletes
  <2>2. Remembered'
    BY <1>1, <1>2, MainRemembers, PasserRemembers, RecorderRemembers DEF Next
  <2>3. AudioIsKept'
    <3>1. CASE PasserNext \/ PasserFails
      <4>1. UNCHANGED <<audio, fresh, recorderVars>>
        BY <3>1
        DEF PasserNext, PasserTakes, Suppress, Accept, Announce, PasserFails
      <4>2. audio \in Nat
        BY <1>1 DEF IInv, TypeOK
      <4> QED
        BY <1>1, <4>1, <4>2, NoAudioDeleted DEF recorderVars, Recording
    <3> QED
      BY <1>1, <1>2, <3>1, MainKeepsAudio, RecorderKeepsAudio DEF Next
  <2> QED
    BY <2>1, <2>2, <2>3 DEF TimelyInv
<1>3. CASE UNCHANGED vars
  <2>1. IInv'
    BY <1>1, NextIInv
  <2> QED
    BY <1>1, <1>3, <2>1
    DEF TimelyInv, InTime, Remembered, SuppressedStaysSilent, AudioIsKept,
        RecordingsAreComplete, Passing, Recording, Ready, vars, passerVars,
        recorderVars, history
<1> QED
  BY <1>2, <1>3

\* With timely threads, the threads stay in time, the blacklist remembers
\* and the audio is kept.
THEOREM TimelyInvariant == Timely /\ Spec => []TimelyInv
<1>1. Init => TimelyInv
  BY InitTimelyInv
<1>2. Timely /\ TimelyInv /\ [Next]_vars => TimelyInv'
  BY NextTimelyInv
<1>3. CASE Timely
  <2>1. TimelyInv /\ [Next]_vars => TimelyInv'
    BY <1>2, <1>3
  <2> QED
    BY <1>1, <2>1, PTL DEF Spec
<1>4. CASE ~Timely
  BY <1>4
<1> QED
  BY <1>3, <1>4

\* With timely threads a suppressed sequence is never announced nor recorded.
THEOREM SuppressedSilent == Timely /\ Spec => []SuppressedStaysSilent
<1>1. TimelyInv => SuppressedStaysSilent
  BY DEF TimelyInv, Remembered
<1> QED
  BY <1>1, TimelyInvariant, PTL

\* With timely threads every recording begins where it should.
THEOREM RecordingsComplete == Timely /\ Spec => []RecordingsAreComplete
<1>1. TimelyInv => RecordingsAreComplete
  BY DEF TimelyInv
<1> QED
  BY <1>1, TimelyInvariant, PTL

-----------------------------------------------------------------------------
(* The life of an alarm.                                                   *)

\* Every step is a step of AlarmLifecycle or changes nothing of it.
LEMMA NextIsLifecycle ==
  ASSUME Timely, TimelyInv, [Next]_vars
  PROVE  [Lifecycle!LifecycleNext]_Lifecycle!lifecycleVars
<1>0. IInv /\ InTime /\ Remembered /\ NothingIsForgotten /\ toScan \subseteq pending
  BY DEF TimelyInv, IInv, InOrder
<1> USE DEF Lifecycle!LifecycleNext, Lifecycle!lifecycleVars
<1>1. ASSUME UNCHANGED <<detected, announced, suppressed, recorded>>,
             (passer' = "ended") = (passer = "ended")
      PROVE  [Lifecycle!LifecycleNext]_Lifecycle!lifecycleVars
  BY <1>1
<1>2. ASSUME NEW S, PassSequences(S)
      PROVE  Lifecycle!Learn
  BY <1>2 DEF PassSequences, Woken, Lifecycle!Learn, recorderVars
<1>3. ASSUME NEW s \in copy, Suppress(s)
      PROVE  s \in detected /\ Lifecycle!Silence(s)
  <2>1. /\ s \in detected \ (announced \cup suppressed)
        /\ passer = "processing" /\ recorded \subseteq announced
    BY <1>0, <1>3 DEF Suppress, NothingIsForgotten, Remembered
  <2>2. /\ suppressed' = suppressed \cup {s} /\ passer' # "ended"
        /\ UNCHANGED <<detected, announced, recorded>>
    BY <1>3 DEF Suppress, Rest
  <2> QED
    BY <2>1, <2>2 DEF Lifecycle!Silence, Lifecycle!Undecided
<1>4. ASSUME NEW s \in copy, Announce(s)
      PROVE  s \in detected /\ Lifecycle!Alarm(s)
  <2>1. s \in detected \ (announced \cup suppressed) /\ passer = "announcing"
    BY <1>0, <1>4 DEF Announce, NothingIsForgotten
  <2>2. /\ announced' = announced \cup {s} /\ passer' # "ended"
        /\ UNCHANGED <<detected, suppressed, recorded>>
    BY <1>4 DEF Announce, Rest, recorderVars
  <2> QED
    BY <2>1, <2>2 DEF Lifecycle!Alarm, Lifecycle!Undecided
<1>5. ASSUME NEW s \in toScan, Store(s)
      PROVE  s \in detected /\ Lifecycle!Keep(s)
  <2>1. s \in detected /\ s \notin suppressed /\ Ready(s) /\ s \in pending
    BY <1>0, <1>5 DEF Store, Remembered, IInv, InOrder
  <2>2. s \notin recorded
    BY <1>0, <2>1 DEF NothingIsForgotten, Recording
  <2>3. s \in announced \/ (passer = "ended" /\ s \notin announced)
    BY <1>0, <2>1, ReadyIsDecided DEF NothingIsForgotten, Passing
  <2>4. /\ recorded' = recorded \cup {s}
        /\ UNCHANGED <<detected, announced, suppressed, passer>>
    BY <1>5 DEF Store, passerVars
  <2> QED
    BY <2>1, <2>2, <2>3, <2>4 DEF Lifecycle!Keep, Lifecycle!Undecided
<1>6. CASE PasserFails
  BY <1>6 DEF PasserFails, Lifecycle!Break, history
<1>7. CASE MainNext
  BY <1>1, <1>2, <1>7 DEF MainNext, Capture, KeepSequences, passerVars, history
<1>8. CASE PasserNext
  <2>1. ASSUME PasserTakes \/ \E s \in copy : Accept(s)
        PROVE  /\ UNCHANGED <<detected, announced, suppressed, recorded>>
               /\ passer' # "ended" /\ passer # "ended"
    BY <2>1 DEF PasserTakes, Accept, history
  <2> QED
    BY <1>1, <1>3, <1>4, <1>8, <2>1 DEF PasserNext
<1>9. CASE RecorderNext \/ RecorderFails
  <2>1. ASSUME \/ Collect \/ RecorderRests \/ RecorderFails
               \/ \E s \in toScan : \/ Postpone(s) \/ Ignore(s)
                                    \/ ComeTooLate(s) \/ BeginStoring(s)
        PROVE  UNCHANGED <<detected, announced, suppressed, recorded, passer>>
    BY <2>1
    DEF Collect, RecorderRests, RecorderFails, Postpone, Ignore, ComeTooLate,
        BeginStoring, passerVars, history
  <2> QED
    BY <1>1, <1>5, <1>9, <2>1 DEF RecorderNext
<1>10. CASE UNCHANGED vars
  BY <1>1, <1>10 DEF vars, passerVars, history
<1> QED
  BY <1>6, <1>7, <1>8, <1>9, <1>10 DEF Next

\* With timely threads the two threads implement AlarmLifecycle.
THEOREM LifecycleImplemented == Timely /\ Spec => ImplementsLifecycle
<1>1. Init => Lifecycle!Begin
  BY DEF Init, Lifecycle!Begin
<1>2. CASE Timely
  <2>1. TimelyInv /\ [Next]_vars
          => [Lifecycle!LifecycleNext]_Lifecycle!lifecycleVars
    BY <1>2, NextIsLifecycle
  <2>2. Spec => []TimelyInv
    BY <1>2, TimelyInvariant
  <2> QED
    BY <1>1, <2>1, <2>2, PTL DEF Spec, ImplementsLifecycle, Lifecycle!Spec
<1>3. CASE ~Timely
  BY <1>3
<1> QED
  BY <1>2, <1>3
=============================================================================
