------------------------ MODULE CommandEncoderProofs ------------------------
(***************************************************************************)
(* Proofs about CommandEncoder, for every set of buffers and every set of  *)
(* programs that keep to WritesFollowReads: barriers and fences serialize  *)
(* conflicting dispatches.                                                 *)
(***************************************************************************)
EXTENDS CommandEncoder, TLAPS

(***************************************************************************)
(* Encoders and their barriers partition the recorded dispatches in        *)
(* program order, and no encoder is empty.                                 *)
(***************************************************************************)
OrderInv ==
  /\ enc <= recorded + 1
  /\ \A d \in Recorded : encOf[d] \in 1 .. enc /\ encOf[d] <= d
  /\ \A c, d \in Recorded : c < d =>
        /\ encOf[c] <= encOf[d]
        /\ encOf[c] = encOf[d] => epoch[c] <= epoch[d]

(***************************************************************************)
(* What the encoder under way knows of its dispatches.                     *)
(***************************************************************************)
CurrentInv ==
  /\ \A d \in Recorded : encOf[d] = enc =>
        /\ epoch[d] <= barriers
        /\ epoch[d] = barriers => Out(d) \subseteq prev_outputs
        /\ Binds(d) \subseteq all_inputs
  /\ \A b \in all_outputs : \E d \in Recorded : encOf[d] = enc /\ b \in Out(d)
  /\ \A d \in Recorded : encOf[d] = enc => Out(d) \subseteq all_outputs

(***************************************************************************)
(* Within an encoder a barrier separates a writer from what binds the      *)
(* buffer after it.                                                        *)
(***************************************************************************)
BarrierInv ==
  \A c, d \in Recorded :
    c < d /\ encOf[c] = encOf[d] /\ Out(c) \cap Binds(d) # {} => epoch[c] < epoch[d]

(***************************************************************************)
(* Encoder f writes b and is not older than the dispatch c.                *)
(***************************************************************************)
Covers(f, c, b) ==
  /\ f >= encOf[c]
  /\ \E k \in Recorded : encOf[k] = f /\ b \in Out(k)

(***************************************************************************)
(* The stream remembers the last writer of a buffer, and a committed       *)
(* encoder waits for one, unless the writer has finished.                  *)
(***************************************************************************)
OutputsInv ==
  \A c \in Recorded : \A b \in Out(c) :
    encOf[c] \in committed /\ c \notin finished => Covers(outputs[b], c, b)

WaitInv ==
  \A c, d \in Recorded : \A b \in Out(c) \cap Binds(d) :
    encOf[d] \in committed /\ encOf[c] < encOf[d] /\ c \notin finished =>
      \E f \in waits[encOf[d]] : Covers(f, c, b)

(***************************************************************************)
(* Serialization of the tracked conflicts.                                 *)
(***************************************************************************)
TrackedInv ==
  \A c, d \in Recorded :
    c < d /\ Out(c) \cap Binds(d) # {} /\ d \in started => c \in finished

IInv ==
  /\ TypeOK /\ OrderInv /\ CurrentInv /\ BarrierInv
  /\ OutputsInv /\ WaitInv /\ TrackedInv

(***************************************************************************)
(* The elements of a sequence.                                             *)
(***************************************************************************)
LEMMA SequenceElements ==
  ASSUME NEW S, NEW p \in Seq(S)
  PROVE  Len(p) \in Nat /\ DOMAIN p = 1 .. Len(p) /\ \A d \in 1 .. Len(p) : p[d] \in S
OBVIOUS

(***************************************************************************)
(* What the assumption says of the program of a run.                       *)
(***************************************************************************)
LEMMA ProgramFacts ==
  ASSUME prog \in Programs
  PROVE  /\ Len(prog) \in Nat
         /\ DOMAIN prog = Dispatch
         /\ \A d \in Dispatch : In(d) \subseteq Buffer /\ Out(d) \subseteq Buffer
                                 /\ Binds(d) \subseteq Buffer
         /\ WritesFollowReads(prog)
<1>1. prog \in Seq([in : SUBSET Buffer, out : SUBSET Buffer]) /\ WritesFollowReads(prog)
  BY ProgramsAssumption
<1>2. /\ Len(prog) \in Nat /\ DOMAIN prog = Dispatch
      /\ \A d \in Dispatch : prog[d] \in [in : SUBSET Buffer, out : SUBSET Buffer]
  BY <1>1, SequenceElements DEF Dispatch
<1> QED
  BY <1>1, <1>2 DEF In, Out, Binds, Touched

LEMMA InitInv == Init => IInv
<1> SUFFICES ASSUME Init PROVE IInv
  OBVIOUS
<1>1. Len(prog) \in Nat /\ prog \in Programs
  BY ProgramFacts DEF Init
<1>2. Recorded = {}
  BY DEF Init, Recorded
<1>3. TypeOK
  BY <1>1, <1>2 DEF Init, TypeOK, Encoder, Dispatch
<1> QED
  BY <1>2, <1>3 DEF Init, IInv, OrderInv, CurrentInv, BarrierInv, OutputsInv,
     WaitInv, TrackedInv

LEMMA RecordInv == IInv /\ Record => IInv'
<1> SUFFICES ASSUME IInv, Record PROVE IInv'
  OBVIOUS
<1> DEFINE n == recorded + 1
<1>1. /\ prog \in Programs /\ Len(prog) \in Nat /\ recorded \in Nat
      /\ n \in Dispatch /\ recorded < n /\ n \notin Recorded
      /\ Recorded' = Recorded \cup {n} /\ Recorded \subseteq Dispatch
      /\ Dispatch' = Dispatch /\ Encoder' = Encoder /\ recorded' = n
  BY ProgramFacts DEF IInv, TypeOK, Record, Recorded, Dispatch, Encoder
<1>2. \A d : In(d)' = In(d) /\ Out(d)' = Out(d) /\ Binds(d)' = Binds(d)
  BY DEF Record, In, Out, Binds
<1>3. /\ encOf'[n] = enc /\ epoch'[n] = barriers'
      /\ \A d \in Recorded : encOf'[d] = encOf[d] /\ epoch'[d] = epoch[d]
  BY <1>1 DEF Record, IInv, TypeOK, Recorded
<1>4. /\ enc \in Nat \ {0} /\ barriers \in Nat /\ enc \in Encoder
      /\ barriers' \in Nat /\ barriers' >= barriers
  BY <1>1 DEF Record, IInv, TypeOK, Encoder
<1>5. /\ enc' = enc /\ committed' = committed /\ finished' = finished
      /\ started' = started /\ outputs' = outputs /\ waits' = waits
      /\ n \notin started /\ committed = 1 .. enc-1 /\ enc \notin committed
  BY <1>1, <1>4 DEF Record, IInv, TypeOK
<1>6. \A d \in Recorded : d \in Nat /\ d < n /\ encOf[d] \in Nat /\ epoch[d] \in Nat
                           /\ encOf[d] <= enc
  BY <1>1, <1>4 DEF IInv, TypeOK, Recorded, Dispatch, OrderInv
<1>7. TypeOK'
  <2>1. encOf' \in [Dispatch -> 0 .. enc] /\ epoch' \in [Dispatch -> Nat]
    BY <1>1, <1>4 DEF Record, IInv, TypeOK
  <2>2. /\ prev_outputs' \subseteq Buffer /\ all_inputs' \subseteq Buffer
        /\ all_outputs' \subseteq Buffer
    BY <1>1, ProgramFacts DEF Record, IInv, TypeOK
  <2>3. recorded' \in 0 .. Len(prog') /\ prog' = prog /\ handled' = handled
    BY <1>1 DEF Record, IInv, TypeOK
  <2> QED
    BY <1>1, <1>4, <1>5, <2>1, <2>2, <2>3 DEF IInv, TypeOK
<1>8. OrderInv'
  BY <1>1, <1>3, <1>4, <1>5, <1>6 DEF IInv, OrderInv, CurrentInv
<1>9. CurrentInv'
  <2>1. /\ all_inputs' = all_inputs \cup Binds(n)
        /\ all_outputs' = all_outputs \cup Out(n)
    BY DEF Record
  <2>2. Out(n) \subseteq prev_outputs'
    BY DEF Record
  <2>3. barriers' = barriers => prev_outputs \subseteq prev_outputs'
    BY <1>4 DEF Record
  <2>4. \A d \in Recorded : encOf[d] = enc /\ epoch[d] = barriers' =>
           Out(d) \subseteq prev_outputs'
    BY <1>4, <1>6, <2>3 DEF IInv, CurrentInv
  <2> QED
    BY <1>1, <1>2, <1>3, <1>4, <1>5, <1>6, <2>1, <2>2, <2>4 DEF IInv, CurrentInv
<1>10. BarrierInv'
  <2> SUFFICES ASSUME NEW c \in Recorded', NEW d \in Recorded', c < d,
                      encOf'[c] = encOf'[d], Out(c) \cap Binds(d) # {}
               PROVE  epoch'[c] < epoch'[d]
    BY <1>2 DEF BarrierInv
  <2>1. CASE d \in Recorded
    BY <1>1, <1>3, <1>6, <2>1 DEF IInv, BarrierInv
  <2>2. CASE d = n
    <3>1. c \in Recorded /\ encOf[c] = enc /\ epoch[c] <= barriers
      BY <1>1, <1>3, <1>6, <2>2 DEF IInv, CurrentInv
    <3>2. CASE epoch[c] < barriers
      BY <1>3, <1>4, <1>6, <2>2, <3>1, <3>2
    <3>3. CASE epoch[c] = barriers
      <4>1. NeedsBarrier(n)
        BY <2>2, <3>1, <3>3 DEF IInv, CurrentInv, NeedsBarrier
      <4> QED
        BY <1>3, <1>4, <1>6, <2>2, <3>1, <3>3, <4>1 DEF Record
    <3> QED
      BY <1>4, <1>6, <3>1, <3>2, <3>3
  <2> QED
    BY <1>1, <2>1, <2>2
<1>11. \A f, b : \A c \in Recorded : Covers(f, c, b) => Covers(f, c, b)'
  BY <1>1, <1>2, <1>3 DEF Covers
<1>12. OutputsInv'
  BY <1>1, <1>2, <1>3, <1>5, <1>11 DEF IInv, OutputsInv
<1>13. WaitInv'
  <2> SUFFICES ASSUME NEW c \in Recorded', NEW d \in Recorded',
                      NEW b \in Out(c) \cap Binds(d),
                      encOf'[d] \in committed, encOf'[c] < encOf'[d], c \notin finished
               PROVE  \E f \in waits[encOf'[d]] : Covers(f, c, b)'
    BY <1>2, <1>5 DEF WaitInv
  <2>1. d \in Recorded
    BY <1>1, <1>3, <1>5
  <2>2. c \in Recorded
    BY <1>1, <1>3, <1>4, <1>6, <2>1
  <2> QED
    BY <1>3, <1>11, <2>1, <2>2 DEF IInv, WaitInv
<1>14. TrackedInv'
  BY <1>1, <1>2, <1>5, <1>6 DEF IInv, TrackedInv
<1> QED
  BY <1>7, <1>8, <1>9, <1>10, <1>12, <1>13, <1>14 DEF IInv

LEMMA EndEncodingInv == IInv /\ EndEncoding => IInv'
<1> SUFFICES ASSUME IInv, EndEncoding PROVE IInv'
  OBVIOUS
<1>1. /\ prog \in Programs /\ prog' = prog /\ Len(prog) \in Nat
      /\ recorded \in Nat /\ recorded' = recorded
      /\ Recorded' = Recorded /\ Recorded \subseteq Dispatch
      /\ Dispatch' = Dispatch /\ Encoder' = Encoder
      /\ encOf' = encOf /\ epoch' = epoch /\ started' = started
      /\ finished' = finished /\ handled' = handled
  BY ProgramFacts DEF IInv, TypeOK, EndEncoding, Recorded, Dispatch, Encoder
<1>2. \A d : In(d)' = In(d) /\ Out(d)' = Out(d) /\ Binds(d)' = Binds(d)
  BY DEF EndEncoding, In, Out, Binds
<1>3. /\ enc \in Encoder /\ enc \in Nat \ {0} /\ enc' = enc + 1
      /\ committed = 1 .. enc-1 /\ committed' = 1 .. enc
      /\ committed' = committed \cup {enc} /\ enc \notin committed
  <2>1. enc \in Nat \ {0} /\ enc \in Encoder
    BY <1>1 DEF IInv, TypeOK, Encoder
  <2> QED
    BY <2>1 DEF EndEncoding, IInv, TypeOK
<1>4. \A d \in Recorded : /\ d \in Nat /\ d <= recorded
                           /\ encOf[d] \in Nat /\ epoch[d] \in Nat
                           /\ encOf[d] \in 1 .. enc /\ encOf[d] <= d
  <2> SUFFICES ASSUME NEW d \in Recorded
               PROVE  /\ d \in Nat /\ d <= recorded
                      /\ encOf[d] \in Nat /\ epoch[d] \in Nat
                      /\ encOf[d] \in 1 .. enc /\ encOf[d] <= d
    OBVIOUS
  <2>1. d \in Nat /\ d <= recorded
    BY <1>1 DEF Recorded
  <2>2. epoch \in [Dispatch -> Nat] /\ d \in Dispatch
    BY <1>1 DEF IInv, TypeOK
  <2>3. encOf[d] \in 1 .. enc /\ encOf[d] <= d
    BY DEF IInv, OrderInv
  <2> QED
    BY <1>3, <2>1, <2>2, <2>3
<1>5. enc + 1 <= recorded + 1 /\ enc + 1 \in Encoder
  <2>1. PICK d \in Recorded : encOf[d] = enc
    BY DEF EndEncoding, InEncoder
  <2>2. recorded <= Len(prog)
    BY <1>1 DEF IInv, TypeOK
  <2> QED
    BY <1>1, <1>3, <1>4, <2>1, <2>2 DEF Encoder
<1>6. \A d \in Recorded : encOf[d] # enc + 1
  BY <1>3, <1>4
<1>7. /\ waits' \in [Encoder -> SUBSET committed']
      /\ waits'[enc] = {outputs[b] : b \in all_inputs} \ {0}
      /\ waits'[enc] \subseteq committed
      /\ \A e \in committed : waits'[e] = waits[e]
      /\ \A e \in Encoder : waits'[e] \subseteq 1 .. e-1
  <2>1. waits \in [Encoder -> SUBSET committed] /\ committed \subseteq Encoder
    BY <1>3, <1>1 DEF IInv, TypeOK, Encoder
  <2>2. {outputs[b] : b \in all_inputs} \ {0} \subseteq committed
    BY DEF IInv, TypeOK
  <2>3. waits' = [waits EXCEPT ![enc] = {outputs[b] : b \in all_inputs} \ {0}]
    BY DEF EndEncoding
  <2> QED
    BY <1>1, <1>3, <2>1, <2>2, <2>3 DEF IInv, TypeOK
<1>8. outputs' = [b \in Buffer |-> IF b \in all_outputs THEN enc ELSE outputs[b]]
  BY DEF EndEncoding
<1>9. TypeOK'
  <2>1. encOf \in [Dispatch -> 0 .. enc+1]
    BY <1>3 DEF IInv, TypeOK
  <2>2. /\ barriers' = 0 /\ prev_outputs' = {} /\ all_inputs' = {}
        /\ all_outputs' = {}
    BY DEF EndEncoding
  <2>3. outputs' \in [Buffer -> {0} \cup committed']
    BY <1>3, <1>8 DEF IInv, TypeOK
  <2>4. committed' = 1 .. enc'-1
    BY <1>3
  <2> QED
    BY <1>1, <1>3, <1>5, <1>7, <2>1, <2>2, <2>3, <2>4 DEF IInv, TypeOK
<1>10. OrderInv'
  BY <1>1, <1>3, <1>4, <1>5 DEF IInv, OrderInv
<1>11. CurrentInv'
  BY <1>1, <1>2, <1>3, <1>6 DEF EndEncoding, CurrentInv
<1>12. BarrierInv'
  BY <1>1, <1>2 DEF IInv, BarrierInv
<1>13. \A f, c, b : Covers(f, c, b)' = Covers(f, c, b)
  BY <1>1, <1>2 DEF Covers
<1>14. \A d \in Recorded : \A b \in Out(d) : b \in Buffer
  BY <1>1, ProgramFacts
<1>15. OutputsInv'
  <2> SUFFICES ASSUME NEW c \in Recorded, NEW b \in Out(c),
                      encOf[c] \in committed', c \notin finished
               PROVE  Covers(outputs'[b], c, b)
    BY <1>1, <1>2, <1>13 DEF OutputsInv
  <2>1. CASE b \in all_outputs
    <3>1. \E k \in Recorded : encOf[k] = enc /\ b \in Out(k)
      BY <2>1 DEF IInv, CurrentInv
    <3> QED
      BY <1>4, <1>8, <1>14, <2>1, <3>1 DEF Covers
  <2>2. CASE b \notin all_outputs
    <3>1. encOf[c] # enc
      BY <2>2 DEF IInv, CurrentInv
    <3> QED
      BY <1>3, <1>8, <1>14, <2>2, <3>1 DEF IInv, OutputsInv
  <2> QED
    BY <2>1, <2>2
<1>16. WaitInv'
  <2> SUFFICES ASSUME NEW c \in Recorded, NEW d \in Recorded,
                      NEW b \in Out(c) \cap Binds(d),
                      encOf[d] \in committed', encOf[c] < encOf[d], c \notin finished
               PROVE  \E f \in waits'[encOf[d]] : Covers(f, c, b)
    BY <1>1, <1>2, <1>13 DEF WaitInv
  <2>1. CASE encOf[d] \in committed
    BY <1>7, <2>1 DEF IInv, WaitInv
  <2>2. CASE encOf[d] = enc
    <3>1. b \in all_inputs
      BY <2>2 DEF IInv, CurrentInv
    <3>2. encOf[c] \in committed
      BY <1>3, <1>4, <2>2
    <3>3. Covers(outputs[b], c, b)
      BY <3>2 DEF IInv, OutputsInv
    <3>4. outputs[b] # 0
      BY <1>4, <3>3 DEF Covers
    <3> QED
      BY <1>7, <2>2, <3>1, <3>3, <3>4
  <2> QED
    BY <1>3, <2>1, <2>2
<1>17. TrackedInv'
  BY <1>1, <1>2 DEF IInv, TrackedInv
<1> QED
  BY <1>9, <1>10, <1>11, <1>12, <1>15, <1>16, <1>17 DEF IInv

(***************************************************************************)
(* The steps after recording leave the recorded program as it is.          *)
(***************************************************************************)
Recording == <<prog, host, committed, waits>>

LEMMA SameRecording ==
  ASSUME UNCHANGED Recording, finished \subseteq finished', IInv
  PROVE  /\ OrderInv' /\ CurrentInv' /\ BarrierInv' /\ WaitInv'
         /\ Recorded' = Recorded /\ Dispatch' = Dispatch /\ Encoder' = Encoder
         /\ \A d : Out(d)' = Out(d) /\ Binds(d)' = Binds(d)
         /\ \A f, c, b : Covers(f, c, b)' = Covers(f, c, b)
<1>1. /\ Recorded' = Recorded /\ Dispatch' = Dispatch /\ Encoder' = Encoder
      /\ encOf' = encOf /\ epoch' = epoch /\ waits' = waits
      /\ committed' = committed /\ enc' = enc /\ barriers' = barriers
      /\ recorded' = recorded /\ prev_outputs' = prev_outputs
      /\ all_inputs' = all_inputs /\ all_outputs' = all_outputs
  BY DEF Recording, host, Recorded, Dispatch, Encoder
<1>2. \A d : Out(d)' = Out(d) /\ Binds(d)' = Binds(d)
  BY DEF Recording, Out, Binds
<1>3. \A f, c, b : Covers(f, c, b)' = Covers(f, c, b)
  BY <1>1, <1>2 DEF Covers
<1>4. OrderInv' /\ CurrentInv' /\ BarrierInv'
  BY <1>1, <1>2 DEF IInv, OrderInv, CurrentInv, BarrierInv
<1>5. WaitInv'
  BY <1>1, <1>2, <1>3 DEF IInv, WaitInv
<1> QED
  BY <1>1, <1>2, <1>3, <1>4, <1>5

(***************************************************************************)
(* Once the dispatches of an encoder that covers c have finished, so has c *)
(* itself: the writer of b in that encoder is c, or comes later and could  *)
(* not have started before c finished.                                     *)
(***************************************************************************)
LEMMA CoveredFinished ==
  ASSUME IInv, NEW c \in Recorded, NEW b \in Out(c), NEW f, Covers(f, c, b),
         \A k \in Recorded : encOf[k] = f => k \in finished
  PROVE  c \in finished
<1>1. PICK k \in Recorded : encOf[k] = f /\ b \in Out(k)
  BY DEF Covers
<1>2. k \in finished /\ k \in started
  BY <1>1 DEF IInv, TypeOK
<1>3. \A d \in Recorded : d \in Nat /\ encOf[d] \in Nat
  <2>1. enc \in Nat /\ Recorded \subseteq Dispatch
    BY ProgramFacts DEF IInv, TypeOK, Encoder, Recorded, Dispatch
  <2> QED
    BY <2>1 DEF IInv, TypeOK, Recorded
<1>4. CASE encOf[c] = f
  BY <1>4
<1>5. CASE encOf[c] < f
  <2>1. c < k
    <3>1. ~(k < c) /\ k # c
      BY <1>1, <1>3, <1>5 DEF IInv, OrderInv
    <3> QED
      BY <1>3, <3>1
  <2>2. Out(c) \cap Binds(k) # {}
    BY <1>1 DEF Binds, Out, Touched
  <2> QED
    BY <1>2, <2>1, <2>2 DEF IInv, TrackedInv
<1> QED
  BY <1>1, <1>3, <1>4, <1>5 DEF Covers

LEMMA HandlerInv == ASSUME IInv, NEW e \in Encoder, Handler(e) PROVE IInv'
<1>1. UNCHANGED Recording /\ finished' = finished /\ started' = started
  BY DEF Handler, Recording
<1>2. OrderInv' /\ CurrentInv' /\ BarrierInv' /\ WaitInv'
  BY <1>1, SameRecording
<1>3. TypeOK'
  <2>1. outputs' \in [Buffer -> {0} \cup committed]
    BY DEF Handler, IInv, TypeOK
  <2>2. handled' \subseteq committed
    BY DEF Handler, IInv, TypeOK
  <2>3. Recorded' = Recorded /\ Dispatch' = Dispatch /\ Encoder' = Encoder
    BY <1>1, SameRecording
  <2> QED
    BY <1>1, <2>1, <2>2, <2>3 DEF IInv, TypeOK, Recording, host
<1>4. \A d \in Recorded : \A b \in Out(d) : b \in Buffer
  <2>1. Recorded \subseteq Dispatch /\ prog \in Programs
    BY ProgramFacts DEF IInv, TypeOK, Recorded, Dispatch
  <2> QED
    BY <2>1, ProgramFacts
<1>5. OutputsInv'
  <2> SUFFICES ASSUME NEW c \in Recorded, NEW b \in Out(c),
                      encOf[c] \in committed, c \notin finished
               PROVE  Covers(outputs'[b], c, b)
    BY <1>1, SameRecording DEF OutputsInv, Recording, host
  <2>1. Covers(outputs[b], c, b)
    BY DEF IInv, OutputsInv
  <2>2. CASE b \in Written(e) /\ outputs[b] = e
    \* The entry is the handler's own: encoder e is complete, and so is c.
    <3>1. \A k \in Recorded : encOf[k] = e => k \in finished
      BY DEF Handler, Complete, InEncoder
    <3> QED
      BY <2>1, <2>2, <3>1, CoveredFinished
  <2>3. CASE ~(b \in Written(e) /\ outputs[b] = e)
    <3>1. outputs'[b] = outputs[b]
      BY <1>4, <2>3 DEF Handler
    <3> QED
      BY <2>1, <3>1
  <2> QED
    BY <2>2, <2>3
<1>6. TrackedInv'
  BY <1>1, SameRecording DEF IInv, TrackedInv
<1> QED
  BY <1>1, <1>2, <1>3, <1>5, <1>6 DEF IInv

LEMMA StartInv == ASSUME IInv, NEW j \in Dispatch, Start(j) PROVE IInv'
<1>1. /\ UNCHANGED Recording /\ finished' = finished /\ outputs' = outputs
      /\ started' = started \cup {j} /\ handled' = handled /\ j \in Recorded
  BY DEF Start, Recording
<1>2. /\ OrderInv' /\ CurrentInv' /\ BarrierInv' /\ WaitInv'
      /\ Recorded' = Recorded /\ Dispatch' = Dispatch /\ Encoder' = Encoder
  BY <1>1, SameRecording
<1>3. TypeOK'
  BY <1>1, <1>2 DEF IInv, TypeOK, Recording, host
<1>4. OutputsInv'
  BY <1>1, SameRecording DEF IInv, OutputsInv, Recording, host
<1>5. \A d \in Recorded : d \in Nat /\ encOf[d] \in Nat /\ epoch[d] \in Nat
  <2>1. enc \in Nat /\ Recorded \subseteq Dispatch
    BY ProgramFacts DEF IInv, TypeOK, Encoder, Recorded, Dispatch
  <2> QED
    BY <2>1 DEF IInv, TypeOK, Recorded
<1>6. \A c \in Recorded : c < j /\ Out(c) \cap Binds(j) # {} => c \in finished
  <2> SUFFICES ASSUME NEW c \in Recorded, c < j, NEW b \in Out(c) \cap Binds(j)
               PROVE  c \in finished
    OBVIOUS
  <2>1. CASE encOf[c] = encOf[j]
    <3>1. epoch[c] < epoch[j]
      BY <1>1, <2>1 DEF IInv, BarrierInv
    <3> QED
      BY <2>1, <3>1 DEF Start, InEncoder
  <2>2. CASE encOf[c] < encOf[j]
    <3> SUFFICES ASSUME c \notin finished PROVE FALSE
      OBVIOUS
    <3>1. PICK f \in waits[encOf[j]] : Covers(f, c, b)
      BY <1>1, <2>2 DEF Start, IInv, WaitInv
    <3>2. \A k \in Recorded : encOf[k] = f => k \in finished
      BY <3>1 DEF Start, Complete, InEncoder
    <3> QED
      BY <3>1, <3>2, CoveredFinished
  <2>3. encOf[c] <= encOf[j]
    BY <1>1 DEF IInv, OrderInv
  <2> QED
    BY <1>1, <1>5, <2>1, <2>2, <2>3
<1>7. TrackedInv'
  BY <1>1, <1>2, <1>6, SameRecording DEF IInv, TrackedInv
<1> QED
  BY <1>2, <1>3, <1>4, <1>7 DEF IInv

LEMMA FinishInv == ASSUME IInv, NEW j \in Dispatch, Finish(j) PROVE IInv'
<1>1. /\ UNCHANGED Recording /\ outputs' = outputs /\ handled' = handled
      /\ started' = started /\ finished' = finished \cup {j} /\ j \in started
  BY DEF Finish, Recording
<1>2. /\ OrderInv' /\ CurrentInv' /\ BarrierInv' /\ WaitInv'
      /\ Recorded' = Recorded /\ Dispatch' = Dispatch /\ Encoder' = Encoder
  BY <1>1, SameRecording
<1>3. TypeOK'
  BY <1>1, <1>2 DEF IInv, TypeOK, Recording, host
<1>4. OutputsInv'
  BY <1>1, SameRecording DEF IInv, OutputsInv, Recording, host
<1>5. TrackedInv'
  BY <1>1, <1>2, SameRecording DEF IInv, TrackedInv
<1> QED
  BY <1>2, <1>3, <1>4, <1>5 DEF IInv

LEMMA StutterInv == IInv /\ UNCHANGED vars => IInv'
<1> SUFFICES ASSUME IInv, UNCHANGED vars PROVE IInv'
  OBVIOUS
<1>1. /\ UNCHANGED Recording /\ outputs' = outputs /\ handled' = handled
      /\ started' = started /\ finished' = finished
  BY DEF vars, Recording
<1>2. /\ OrderInv' /\ CurrentInv' /\ BarrierInv' /\ WaitInv'
      /\ Recorded' = Recorded /\ Dispatch' = Dispatch /\ Encoder' = Encoder
  BY <1>1, SameRecording
<1>3. TypeOK'
  BY <1>1, <1>2 DEF IInv, TypeOK, Recording, host
<1>4. OutputsInv' /\ TrackedInv'
  BY <1>1, SameRecording DEF IInv, OutputsInv, TrackedInv, Recording, host
<1> QED
  BY <1>2, <1>3, <1>4 DEF IInv

LEMMA Invariance == Spec => []IInv
<1>1. IInv /\ [Next]_vars => IInv'
  BY RecordInv, EndEncodingInv, HandlerInv, StartInv, FinishInv, StutterInv DEF Next
<1> QED
  BY InitInv, <1>1, PTL DEF Spec

(***************************************************************************)
(* CommandEncoder never leaves its types: in particular an encoder waits   *)
(* only for older ones, so that no two wait for each other.                *)
(***************************************************************************)
THEOREM TypeCorrect == Spec => []TypeOK
<1>1. IInv => TypeOK
  BY DEF IInv
<1> QED
  BY <1>1, Invariance, PTL

(***************************************************************************)
(* Tracking outputs is enough: in every program that keeps to              *)
(* WritesFollowReads all conflicting dispatches, reads before writes       *)
(* included, run one after the other in program order.                     *)
(***************************************************************************)
THEOREM ConflictsAreSerialized == Spec => []Serialized
<1>1. IInv => Serialized
  <2> SUFFICES ASSUME IInv, NEW c \in Recorded, NEW d \in Recorded,
                      c < d, Conflict(c, d), d \in started
               PROVE  c \in finished
    BY DEF Serialized
  <2>1. CASE Out(c) \cap Binds(d) # {}
    BY <2>1 DEF IInv, TrackedInv
  <2>2. CASE In(c) \cap Out(d) # {}
    <3>1. c \in DOMAIN prog /\ d \in DOMAIN prog /\ WritesFollowReads(prog)
      <4>1. Recorded \subseteq Dispatch /\ prog \in Programs
        BY ProgramFacts DEF IInv, TypeOK, Recorded, Dispatch
      <4> QED
        BY <4>1, ProgramFacts
    <3>2. Out(c) \cap Binds(d) # {}
      BY <2>2, <3>1 DEF WritesFollowReads, In, Out, Binds
    <3> QED
      BY <2>1, <3>2
  <2>3. Binds(c) = In(c) \cup Out(c) /\ Out(d) \subseteq Binds(d)
    BY DEF Binds, In, Out, Touched
  <2> QED
    BY <2>1, <2>2, <2>3 DEF Conflict
<1> QED
  BY <1>1, Invariance, PTL

(***************************************************************************)
(* The stream remembers the writer of a buffer until that writer is done,  *)
(* although the handlers remove entries concurrently.                      *)
(***************************************************************************)
THEOREM WritersAreRemembered == Spec => []WriterRemembered
<1>1. IInv => WriterRemembered
  <2> SUFFICES ASSUME IInv, NEW c \in Recorded \ finished, NEW b \in Out(c),
                      encOf[c] \in committed
               PROVE  outputs[b] >= encOf[c] /\ b \in Written(outputs[b])
    BY DEF WriterRemembered
  <2>1. Covers(outputs[b], c, b)
    BY DEF IInv, OutputsInv
  <2> QED
    BY <2>1 DEF Covers, Written, InEncoder
<1> QED
  BY <1>1, Invariance, PTL
=============================================================================
