--------------------------- MODULE AudioRingProofs ---------------------------
(***************************************************************************)
(* Proofs about AudioRing, for every ring size, fill length, play mark and *)
(* frame length.                                                           *)
(***************************************************************************)
EXTENDS AudioRing, TLAPS

(* RingHoldsBacklog is inductive once the sample stored ahead of its index *)
(* (StoreThenBump) is added.                                               *)
StoredAhead == pc = "bump" => out_buffer[out_e] = written + 1

IInv == TypeOK /\ RingHoldsBacklog /\ StoredAhead

LEMMA InitTypeOK == Init => TypeOK
<1> SUFFICES ASSUME Init PROVE TypeOK
  OBVIOUS
<1> USE RingAssumption DEF Slots
<1>1. /\ out_buffer \in [Slots -> Nat] /\ out_s \in Slots
      /\ out_e \in 0 .. OUT_BUFFER_SIZE /\ out_e < OUT_BUFFER_SIZE
      /\ stream = "clean" /\ pc = "idle" /\ left = 0 /\ written = 0 /\ read = 0
  BY DEF Init
<1>2. is_playing \in BOOLEAN /\ audio_on \in BOOLEAN
  BY DEF Init
<1> QED
  BY <1>1, <1>2 DEF TypeOK

LEMMA StepTypeOK == TypeOK /\ [Next]_vars => TypeOK'
<1> SUFFICES ASSUME TypeOK, [Next]_vars PROVE TypeOK'
  OBVIOUS
<1> USE RingAssumption DEF TypeOK, Slots
<1>1. ASSUME NEW n \in FRAMES, Frame(n) PROVE TypeOK'
  BY <1>1 DEF Frame
<1>2. CASE StoreThenBump
  BY <1>2 DEF StoreThenBump
<1>3. CASE BumpAfterStore
  BY <1>3 DEF BumpAfterStore, Bump
<1>4. CASE BumpBeforeStore
  BY <1>4 DEF BumpBeforeStore, Bump
<1>5. CASE LateStore
  BY <1>5 DEF LateStore
<1>6. CASE MaskEnd
  BY <1>6 DEF MaskEnd, Mask
<1>7. CASE EndOfCall
  BY <1>7 DEF EndOfCall
<1>8. ASSUME NEW on \in BOOLEAN, SetAudio(on) PROVE TypeOK'
  BY <1>8 DEF SetAudio
<1>9. CASE Fill
  BY <1>9 DEF Fill, Mask
<1>10. CASE UNCHANGED vars
  BY <1>10 DEF vars
<1> QED
  BY <1>1, <1>2, <1>3, <1>4, <1>5, <1>6, <1>7, <1>8, <1>9, <1>10 DEF Next, MainLoop

(* Every index used on out_buffer is inside the array, in every            *)
(* interleaving of process_mbe and the audio interrupt.                    *)
THEOREM RingTypeCorrect == Spec => []TypeOK
BY InitTypeOK, StepTypeOK, PTL DEF Spec

(* What the interrupt takes from a ring that stays intact: never more than *)
(* the backlog, and all of it unless that exceeds one fill.                *)
LEMMA TakesFromBacklog ==
  ASSUME TypeOK, RingHoldsBacklog, intact,
         NEW k \in 0 .. FILL, Takes(k), k > 0, read + k <= written
  PROVE  k = IF Backlog < FILL THEN Backlog ELSE FILL
<1> USE RingAssumption DEF TypeOK, Slots, Backlog, intact
<1>1. is_playing /\ audio_on
  <2>1. 0 \in 0 .. k - 1
    OBVIOUS
  <2>2. ~Silent(0)
    BY <2>1 DEF Takes
  <2> QED
    BY <2>2 DEF Silent
<1>2. CASE k = FILL
  BY <1>2
<1>3. CASE k < FILL
  <2>1. Mask(out_s + k) = out_e
    <3>1. Silent(k)
      BY <1>3 DEF Takes
    <3> QED
      BY <1>1, <3>1 DEF Silent
  <2>2. out_e \in Slots
    BY <2>1 DEF Mask
  <2>3. Mask(out_s + Backlog) = out_e
    BY <2>2 DEF RingHoldsBacklog, Mask
  <2>4. k = Backlog
    BY <2>1, <2>3 DEF RingHoldsBacklog, Mask
  <2> QED
    BY <2>4, <1>3
<1> QED
  BY <1>2, <1>3

(* While the interrupt does not hit the end of the array it cannot take    *)
(* more than the backlog.                                                  *)
LEMMA TakesAtMostBacklog ==
  ASSUME TypeOK, RingHoldsBacklog, intact,
         NEW k \in 0 .. FILL, Takes(k), read + k > written
  PROVE  out_e = OUT_BUFFER_SIZE /\ Backlog < FILL
<1> USE RingAssumption DEF TypeOK, Slots, Backlog, intact
<1>1. Backlog < k /\ Backlog \in 0 .. OUT_BUFFER_SIZE - 1
  BY DEF RingHoldsBacklog
<1>2. ~Silent(Backlog)
  BY <1>1 DEF Takes
<1>3. Mask(out_s + Backlog) # out_e
  BY <1>2 DEF Silent
<1>4. Mask(out_s + Backlog) = Mask(out_e)
  BY DEF RingHoldsBacklog
<1>5. out_e = OUT_BUFFER_SIZE
  BY <1>3, <1>4 DEF Mask
<1> QED
  BY <1>1, <1>5

(* The slot the next sample goes to holds none of the backlog.             *)
LEMMA FreeSlot ==
  ASSUME TypeOK, RingHoldsBacklog, intact, out_e < OUT_BUFFER_SIZE,
         NEW j \in 0 .. Backlog - 1
  PROVE  Mask(out_s + j) \in Slots /\ Mask(out_s + j) # out_e
<1> USE RingAssumption DEF TypeOK, Slots, Backlog, intact
<1>1. Backlog \in 0 .. OUT_BUFFER_SIZE - 1 /\ Mask(out_s + Backlog) = out_e
  BY DEF RingHoldsBacklog, Mask
<1> QED
  BY <1>1 DEF Mask

(* RingHoldsBacklog depends on the main loop's position only through late. *)
LEMMA SameRing ==
  ASSUME RingHoldsBacklog, stream' = stream, written' = written, read' = read,
         out_s' = out_s, Mask(out_e') = Mask(out_e), out_buffer' = out_buffer,
         pc # "late"
  PROVE  RingHoldsBacklog'
BY DEF RingHoldsBacklog, Backlog, Pending, Mask, intact

(* One step preserves the inductive invariant. *)
LEMMA RingStep == IInv /\ TypeOK' /\ [Next]_vars => IInv'
<1> SUFFICES ASSUME IInv, TypeOK', [Next]_vars
             PROVE  RingHoldsBacklog' /\ StoredAhead'
  BY DEF IInv
<1> USE RingAssumption DEF IInv, TypeOK, Slots, intact
<1>1. ASSUME NEW n \in FRAMES, Frame(n)
      PROVE  RingHoldsBacklog' /\ StoredAhead'
  BY <1>1, SameRing DEF Frame, StoredAhead
<1>2. CASE StoreThenBump
  <2>1. StoredAhead'
    BY <1>2 DEF StoreThenBump, StoredAhead
  <2>2. ASSUME intact, NEW j \in 0 .. Backlog - 1
        PROVE  out_buffer'[Mask(out_s + j)] = read + j + 1
    <3>1. out_buffer[Mask(out_s + j)] = read + j + 1
      BY <1>2, <2>2 DEF StoreThenBump, RingHoldsBacklog, Pending
    <3> QED
      BY <1>2, <2>2, <3>1, FreeSlot DEF StoreThenBump
  <2> QED
    BY <1>2, <2>1, <2>2 DEF StoreThenBump, RingHoldsBacklog, Backlog
<1>3. CASE BumpAfterStore
  <2>1. StoredAhead'
    BY <1>3 DEF BumpAfterStore, Bump, StoredAhead
  <2> SUFFICES ASSUME intact' PROVE RingHoldsBacklog'
    BY <2>1 DEF RingHoldsBacklog
  <2>2. intact /\ Backlog + 1 \in 0 .. OUT_BUFFER_SIZE - 1 /\ pc = "bump"
    BY <1>3 DEF BumpAfterStore, Bump, RingHoldsBacklog, Backlog
  <2>3. Mask(out_s + Backlog) = out_e
    BY <2>2 DEF RingHoldsBacklog, Mask, Backlog
  <2>4. Mask(out_e + 1) = Mask(out_s + (Backlog + 1))
    BY <2>2, <2>3 DEF Mask, Backlog
  <2>5. out_buffer[Mask(out_s + Backlog)] = read + Backlog + 1
    BY <2>2, <2>3, SMTT(20) DEF StoredAhead, Backlog
  <2>6. ASSUME NEW j \in 0 .. (Backlog + 1) - 1
        PROVE  out_buffer[Mask(out_s + j)] = read + j + 1
    <3>1. j \in 0 .. Backlog - 1 \/ j = Backlog
      BY <2>2 DEF Backlog
    <3> QED
      BY <2>2, <2>5, <3>1 DEF RingHoldsBacklog, Pending
  <2>7. Backlog' = Backlog + 1
    BY <1>3 DEF BumpAfterStore, Bump, Backlog
  <2> QED
    BY <1>3, <2>2, <2>4, <2>6, <2>7 DEF BumpAfterStore, Bump, RingHoldsBacklog, Mask
<1>4. CASE BumpBeforeStore
  <2>1. StoredAhead'
    BY <1>4 DEF BumpBeforeStore, Bump, StoredAhead
  <2> SUFFICES ASSUME intact' PROVE RingHoldsBacklog'
    BY <2>1 DEF RingHoldsBacklog
  <2>2. intact /\ Backlog + 1 \in 0 .. OUT_BUFFER_SIZE - 1 /\ pc = "store"
    BY <1>4 DEF BumpBeforeStore, Bump, RingHoldsBacklog, Backlog
  <2>3. Mask(out_s + Backlog) = out_e
    BY <2>2 DEF RingHoldsBacklog, Mask, Backlog
  <2>4. Mask(out_e + 1) = Mask(out_s + (Backlog + 1))
    BY <2>2, <2>3 DEF Mask, Backlog
  <2>5. pc' = "late" /\ read + Backlog + 1 = written'
    BY <1>4 DEF BumpBeforeStore, Bump, Backlog
  <2>6. ASSUME NEW j \in 0 .. (Backlog + 1) - 1
        PROVE  out_buffer[Mask(out_s + j)] = read + j + 1 \/ j = Backlog
    <3>1. j \in 0 .. Backlog - 1 \/ j = Backlog
      BY <2>2 DEF Backlog
    <3> QED
      BY <2>2, <3>1 DEF RingHoldsBacklog, Pending
  <2>7. Backlog' = Backlog + 1
    BY <1>4 DEF BumpBeforeStore, Bump, Backlog
  <2>8. ASSUME NEW j \in 0 .. Backlog' - 1
        PROVE  \/ out_buffer[Mask(out_s + j)] = read + j + 1
               \/ pc' = "late" /\ read + j + 1 = written'
    BY <2>5, <2>6, <2>7
  <2> QED
    BY <1>4, <2>2, <2>4, <2>7, <2>8 DEF BumpBeforeStore, Bump, RingHoldsBacklog, Mask, Pending
<1>5. CASE LateStore
  <2>1. StoredAhead'
    BY <1>5 DEF LateStore, StoredAhead
  <2> SUFFICES ASSUME intact PROVE RingHoldsBacklog'
    BY <1>5, <2>1 DEF LateStore, RingHoldsBacklog
  <2>2. ASSUME NEW j \in 0 .. Backlog - 1
        PROVE  out_buffer'[Mask(out_s + j)] = read + j + 1
    <3>1. Backlog \in 0 .. OUT_BUFFER_SIZE - 1 /\ Mask(out_e) = Mask(out_s + Backlog)
      BY DEF RingHoldsBacklog
    <3>2. Mask(out_s + j) = out_e - 1 <=> read + j + 1 = written
      BY <1>5, <3>1 DEF LateStore, Mask, Backlog
    <3>3. Mask(out_s + j) \in Slots
      BY <3>1 DEF Mask
    <3>4. out_buffer[Mask(out_s + j)] = read + j + 1 \/ read + j + 1 = written
      BY DEF RingHoldsBacklog, Pending
    <3> QED
      BY <1>5, <3>2, <3>3, <3>4 DEF LateStore
  <2> QED
    BY <1>5, <2>2 DEF LateStore, RingHoldsBacklog, Backlog
<1>6. CASE MaskEnd
  <2>1. Mask(Mask(out_e)) = Mask(out_e)
    BY DEF Mask
  <2> QED
    BY <1>6, <2>1, SameRing DEF MaskEnd, StoredAhead
<1>7. CASE EndOfCall
  BY <1>7, SameRing DEF EndOfCall, StoredAhead
<1>8. ASSUME NEW on \in BOOLEAN, SetAudio(on)
      PROVE  RingHoldsBacklog' /\ StoredAhead'
  BY <1>8, SameRing DEF SetAudio, StoredAhead
<1>9. CASE Fill
  <2>1. StoredAhead'
    BY <1>9 DEF Fill, StoredAhead
  <2> SUFFICES ASSUME intact' PROVE RingHoldsBacklog'
    BY <2>1 DEF RingHoldsBacklog
  <2>2. PICK k \in 0 .. FILL :
          /\ read + k <= written /\ intact
          /\ read' = read + k /\ out_s' = Mask(out_s + k)
    BY <1>9 DEF Fill
  <2>3. Backlog' = Backlog - k
    BY <1>9, <2>2 DEF Fill, Backlog
  <2>4. /\ Backlog - k \in 0 .. OUT_BUFFER_SIZE - 1
        /\ Mask(out_e) = Mask(out_s + Backlog)
    BY <2>2 DEF RingHoldsBacklog, Backlog
  <2>5. ASSUME NEW j \in 0 .. Backlog - k
        PROVE  Mask(Mask(out_s + k) + j) = Mask(out_s + (j + k))
    BY <2>2, <2>4 DEF Mask, Backlog
  <2>6. Mask(out_e) = Mask(Mask(out_s + k) + (Backlog - k))
    BY <2>2, <2>4 DEF Mask, Backlog
  <2>7. ASSUME NEW j \in 0 .. (Backlog - k) - 1
        PROVE  \/ out_buffer[Mask(Mask(out_s + k) + j)] = (read + k) + j + 1
               \/ Pending((read + k) + j + 1)
    <3>1. j + k \in 0 .. Backlog - 1 /\ j \in 0 .. Backlog - k
      BY <2>2 DEF Backlog
    <3>2. out_buffer[Mask(out_s + (j + k))] = read + (j + k) + 1 \/ Pending(read + (j + k) + 1)
      BY <3>1, <2>2 DEF RingHoldsBacklog
    <3>3. read + (j + k) + 1 = (read + k) + j + 1
      OBVIOUS
    <3> QED
      BY <2>5, <3>1, <3>2, <3>3
  <2>8. /\ out_buffer' = out_buffer /\ out_e' = out_e /\ pc' = pc /\ written' = written
        /\ out_s' = Mask(out_s + k) /\ read' = read + k
    BY <1>9, <2>2 DEF Fill
  <2> QED
    BY <2>2, <2>3, <2>4, <2>6, <2>7, <2>8 DEF RingHoldsBacklog, Pending, Mask
<1>10. CASE UNCHANGED vars
  BY <1>10 DEF vars, RingHoldsBacklog, StoredAhead, Backlog, Pending, Mask
<1> QED
  BY <1>1, <1>2, <1>3, <1>4, <1>5, <1>6, <1>7, <1>8, <1>9, <1>10 DEF Next, MainLoop

LEMMA InitIInv == Init => IInv
BY InitTypeOK, RingAssumption
DEF Init, Slots, IInv, RingHoldsBacklog, StoredAhead, Backlog, Mask

LEMMA Step == IInv /\ [Next]_vars => IInv'
BY StepTypeOK, RingStep DEF IInv

LEMMA RingInvariant == Spec => []IInv
BY InitIInv, Step, PTL DEF Spec

(* The ring holds exactly the samples made and not yet played, as long as  *)
(* no mishap has spoiled it.                                               *)
THEOREM RingHolds == Spec => []RingHoldsBacklog
BY RingInvariant, PTL DEF IInv

(* Between mishaps the audio interrupt plays the decoded voice in order,   *)
(* without a gap and without a repeat.                                     *)
THEOREM RingFillsInOrder == Spec => FillInOrder
<1> DEFINE Ordered ==
      (intact /\ intact' /\ read' # read) =>
        /\ read' - read = IF Backlog < FILL THEN Backlog ELSE FILL
        /\ \A j \in 0 .. read' - read - 1 :
             \/ out_buffer[Mask(out_s + j)] = read + j + 1
             \/ Pending(read + j + 1)
<1>1. IInv /\ [Next]_vars => [Ordered]_vars
  <2> SUFFICES ASSUME IInv, [Next]_vars, intact, intact', read' # read
               PROVE  /\ read' - read = IF Backlog < FILL THEN Backlog ELSE FILL
                      /\ \A j \in 0 .. read' - read - 1 :
                           \/ out_buffer[Mask(out_s + j)] = read + j + 1
                           \/ Pending(read + j + 1)
    OBVIOUS
  <2>1. Fill
    BY DEF Next, MainLoop, Frame, StoreThenBump, BumpAfterStore, BumpBeforeStore,
           Bump, LateStore, MaskEnd, EndOfCall, SetAudio, vars
  <2>2. PICK k \in 0 .. FILL : Takes(k) /\ read' = read + k /\ read + k <= written /\ k > 0
    BY <2>1, RingAssumption DEF Fill, IInv, TypeOK
  <2>3. k = IF Backlog < FILL THEN Backlog ELSE FILL
    BY <2>2, TakesFromBacklog DEF IInv
  <2>4. read' - read = k /\ k <= Backlog
    BY <2>2, RingAssumption DEF IInv, TypeOK, Backlog
  <2>5. \A j \in 0 .. k - 1 : j \in 0 .. Backlog - 1
    BY <2>4, RingAssumption DEF IInv, TypeOK, Backlog
  <2> QED
    BY <2>3, <2>4, <2>5 DEF IInv, RingHoldsBacklog
<1> QED
  BY <1>1, RingInvariant, PTL DEF Spec, FillInOrder

(* The stream can be spoiled in two ways only: an interrupt in the window  *)
(* before the wrap-around mask, or a producer one whole lap ahead.         *)
THEOREM RingSpoiledOnlyByWrapOrLap == Spec => SpoiledOnlyByWrapOrLap
<1> DEFINE Culprit ==
      (intact /\ ~intact') =>
        \/ out_e = OUT_BUFFER_SIZE /\ Backlog < FILL /\ UNCHANGED producer
        \/ Backlog = OUT_BUFFER_SIZE - 1 /\ UNCHANGED <<out_s, read>>
<1>1. IInv /\ [Next]_vars => [Culprit]_vars
  <2> SUFFICES ASSUME IInv, [Next]_vars, intact, ~intact'
               PROVE  \/ out_e = OUT_BUFFER_SIZE /\ Backlog < FILL /\ UNCHANGED producer
                      \/ Backlog = OUT_BUFFER_SIZE - 1 /\ UNCHANGED <<out_s, read>>
    OBVIOUS
  <2>1. Fill \/ BumpAfterStore \/ BumpBeforeStore
    BY DEF Next, MainLoop, Frame, StoreThenBump, LateStore, MaskEnd, EndOfCall,
           SetAudio, vars, intact
  <2>2. CASE Fill
    <3>1. PICK k \in 0 .. FILL :
            Takes(k) /\ stream' = IF read + k <= written THEN stream ELSE "spoiled"
      BY <2>2 DEF Fill
    <3> USE RingAssumption DEF IInv, TypeOK, intact
    <3>4. read + k > written
      BY <3>1
    <3>2. out_e = OUT_BUFFER_SIZE /\ Backlog < FILL
      BY <3>1, <3>4, TakesAtMostBacklog
    <3> QED
      BY <3>2, <2>2 DEF Fill, producer
  <2>3. CASE BumpAfterStore \/ BumpBeforeStore
    BY <2>3, RingAssumption
    DEF BumpAfterStore, BumpBeforeStore, Bump, IInv, TypeOK, RingHoldsBacklog, Backlog, intact
  <2> QED
    BY <2>1, <2>2, <2>3
<1> QED
  BY <1>1, RingInvariant, PTL DEF Spec, SpoiledOnlyByWrapOrLap

=============================================================================
