-------------------------- MODULE SampleBufferProofs --------------------------
(***************************************************************************)
(* Proofs about SampleBuffer, for every buffer size, block length and      *)
(* datagram length, and every mixture of builds.                           *)
(***************************************************************************)
EXTENDS SampleBuffer, TLAPS

(* The names of actions and of their parts that every step below expands.  *)
USE DEF Bytes, shared, batch, udp

(* What Append makes of the buffer. *)
LEMMA RoomFits ==
  ASSUME in_buffer_len \in 0 .. CAP, NEW n \in CHUNKS
  PROVE  Room(n) \in Nat /\ in_buffer_len + Room(n) <= CAP
BY BufferAssumption DEF Room

(* TypeOK is inductive once it is known that what the main loop has found  *)
(* in the buffer is still there when it loads the length again.            *)
TypeInv == TypeOK /\ (pc = "load" => in_buffer_len > 0)

LEMMA InitTypeInv == Init => TypeInv
<1> SUFFICES ASSUME Init PROVE TypeInv
  OBVIOUS
<1> USE BufferAssumption
<1>1. in_buffer \in [Bytes -> Nat] /\ in_buffer_tmp \in [Bytes -> Nat]
  BY DEF Init
<1>2. build \in [hoisted : BOOLEAN, reload : BOOLEAN]
  BY DEF Init
<1> QED
  BY <1>1, <1>2 DEF Init, TypeOK, TypeInv

LEMMA StepTypeInv == TypeInv /\ [Next]_vars => TypeInv'
<1> SUFFICES ASSUME TypeInv, [Next]_vars PROVE TypeInv'
  OBVIOUS
<1> USE BufferAssumption DEF TypeOK, TypeInv
<1>1. ASSUME NEW n \in CHUNKS, Append(n) PROVE TypeInv'
  <2>1. Room(n) \in Nat /\ in_buffer_len + Room(n) <= CAP
    BY RoomFits
  <2>2. in_buffer' \in [Bytes -> Nat]
    <3>1. \A i \in Bytes : i \in in_buffer_len .. in_buffer_len + Room(n) - 1
                             => made + 1 + i - in_buffer_len \in Nat
      BY <2>1
    <3> QED
      BY <1>1, <3>1, <2>1 DEF Append
  <2>3. in_buffer_len' \in 0 .. CAP
    BY <1>1, <2>1 DEF Append, Advance
  <2>4. hit' \in {"no", "yes"} /\ echo' \in {"product", "other"}
    BY <1>1 DEF Append
  <2>5. made' \in Nat /\ in_buffer_len' >= in_buffer_len
    BY <1>1, <2>1 DEF Append, Advance
  <2>6. UNCHANGED <<in_buffer_tmp, ii_len, copied, pc, reg, left, build, mark, from>>
    BY <1>1 DEF Append
  <2> QED
    BY <2>2, <2>3, <2>4, <2>5, <2>6
<1>2. ASSUME NEW n \in DATAGRAMS, Datagram(n) PROVE TypeInv'
  BY <1>2 DEF Datagram
<1>3. CASE LoadLen
  BY <1>3 DEF LoadLen
<1>4. CASE Byte
  <2>1. CASE reg < CAP
    <3>1. in_buffer' \in [Bytes -> Nat] /\ reg' \in 0 .. CAP /\ made' \in Nat
      BY <1>4, <2>1, SMTT(20) DEF Byte
    <3> QED
      BY <1>4, <3>1 DEF Byte
  <2>2. CASE ~(reg < CAP)
    BY <1>4, <2>2 DEF Byte
  <2> QED
    BY <2>1, <2>2
<1>5. CASE Publish
  BY <1>5 DEF Publish
<1>6. CASE Test
  BY <1>6 DEF Test, Ready
<1>7. CASE Load
  BY <1>7 DEF Load
<1>8. CASE Reset
  BY <1>8 DEF Reset, Emptied
<1>9. CASE Copy
  BY <1>9 DEF Copy
<1>10. CASE NotReady \/ UNCHANGED vars
  BY <1>10 DEF NotReady, vars
<1> QED
  BY <1>1, <1>2, <1>3, <1>4, <1>5, <1>6, <1>7, <1>8, <1>9, <1>10
  DEF Next, MainLoop

(* No index leaves in_buffer or in_buffer_tmp, whatever the two producers  *)
(* and the main loop do to each other's copies of in_buffer_len.           *)
THEOREM SampleTypeCorrect == Spec => []TypeOK
<1>1. TypeInv => TypeOK
  BY DEF TypeInv
<1> QED
  BY <1>1, InitTypeInv, StepTypeInv, PTL DEF Spec

-----------------------------------------------------------------------------
(* NothingStale is inductive once it also covers the bytes below a length  *)
(* that is only in a register: udp_data_rx's, and the main loop's ii_len.  *)
FreshBelow(n) == \A i \in 0 .. n - 1 : in_buffer[i] > mark

(* What a memcpy under way has copied, and what it has yet to copy. *)
CopyIsFresh ==
  /\ \A i \in 0 .. copied - 1 : in_buffer_tmp[i] > from
  /\ \A i \in copied .. ii_len - 1 : in_buffer[i] > from

FreshInv ==
  /\ from <= mark /\ mark <= made
  /\ FreshBelow(in_buffer_len)
  /\ pc \in {"byte", "publish"} => FreshBelow(reg)
  /\ pc = "reset" => FreshBelow(ii_len)
  /\ pc = "copy" => CopyIsFresh

LEMMA InitFreshInv == Init => FreshInv
BY BufferAssumption DEF Init, FreshInv, FreshBelow

(* Append overwrites nothing but with bytes younger than all others. *)
LEMMA AppendKeepsOrRenews ==
  ASSUME TypeInv, FreshInv, NEW n \in CHUNKS, Append(n), NEW i \in Bytes
  PROVE  \/ in_buffer'[i] = in_buffer[i] /\ ~(i \in in_buffer_len .. in_buffer_len' - 1)
         \/ in_buffer'[i] > mark
<1> USE BufferAssumption DEF TypeInv, TypeOK, FreshInv
<1>1. Room(n) \in Nat /\ in_buffer_len + Room(n) <= CAP
  BY RoomFits
<1>2. in_buffer_len' = in_buffer_len + Room(n)
  BY DEF Append, Advance
<1>3. CASE i \in in_buffer_len .. in_buffer_len + Room(n) - 1
  <2>1. in_buffer'[i] = made + 1 + i - in_buffer_len
    BY <1>3 DEF Append
  <2>2. in_buffer'[i] > mark
    BY <1>3, <2>1
  <2> QED
    BY <2>2
<1>4. CASE ~(i \in in_buffer_len .. in_buffer_len + Room(n) - 1)
  <2>1. in_buffer'[i] = in_buffer[i]
    BY <1>4 DEF Append
  <2>2. i < in_buffer_len \/ i >= in_buffer_len + Room(n)
    BY <1>1, <1>4
  <2>3. ~(i \in in_buffer_len .. in_buffer_len' - 1)
    BY <1>1, <1>2, <2>2
  <2> QED
    BY <2>1, <2>3
<1> QED
  BY <1>3, <1>4

LEMMA StepFreshInv == TypeInv /\ FreshInv /\ [Next]_vars => FreshInv'
<1> SUFFICES ASSUME TypeInv, FreshInv, [Next]_vars PROVE FreshInv'
  OBVIOUS
<1> USE BufferAssumption DEF TypeInv, TypeOK, FreshInv, FreshBelow
<1>1. ASSUME NEW n \in CHUNKS, Append(n) PROVE FreshInv'
  <2>1. Room(n) \in Nat /\ in_buffer_len' = in_buffer_len + Room(n)
        /\ in_buffer_len' <= CAP
    BY <1>1, RoomFits DEF Append, Advance
  <2>2. made' = made + Room(n) /\ mark' = mark /\ from' = from
        /\ UNCHANGED <<pc, reg, ii_len, copied, in_buffer_tmp>>
    BY <1>1 DEF Append
  <2>3. \A i \in Bytes : \/ /\ in_buffer'[i] = in_buffer[i]
                            /\ ~(i \in in_buffer_len .. in_buffer_len' - 1)
                         \/ in_buffer'[i] > mark
    BY <1>1, AppendKeepsOrRenews
  <2>4. \A i \in 0 .. in_buffer_len' - 1 : in_buffer'[i] > mark
    BY <2>1, <2>3, SMTT(20)
  <2>5. pc \in {"byte", "publish"} => \A i \in 0 .. reg - 1 : in_buffer'[i] > mark
    BY <2>3
  <2>6. pc = "reset" => \A i \in 0 .. ii_len - 1 : in_buffer'[i] > mark
    BY <2>3
  <2>7. pc = "copy" => \A i \in copied .. ii_len - 1 : in_buffer'[i] > from
    <3> SUFFICES ASSUME pc = "copy", NEW i \in copied .. ii_len - 1
                 PROVE  in_buffer'[i] > from
      OBVIOUS
    <3>1. i \in Bytes /\ in_buffer[i] > from
      BY DEF CopyIsFresh
    <3>2. in_buffer'[i] = in_buffer[i] \/ in_buffer'[i] > mark
      BY <3>1, <2>3
    <3>3. mark >= from
      OBVIOUS
    <3> QED
      <4>1. CASE in_buffer'[i] = in_buffer[i]
        BY <3>1, <4>1
      <4>2. CASE in_buffer'[i] > mark
        <5>1. in_buffer' \in [Bytes -> Nat]
          BY <1>1, StepTypeInv DEF Next
        <5> QED
          BY <3>1, <3>3, <4>2, <5>1
      <4> QED
        BY <3>2, <4>1, <4>2
  <2> QED
    BY <2>1, <2>2, <2>4, <2>5, <2>6, <2>7 DEF CopyIsFresh
<1>2. ASSUME NEW n \in DATAGRAMS, Datagram(n) PROVE FreshInv'
  BY <1>2 DEF Datagram
<1>3. CASE LoadLen
  BY <1>3 DEF LoadLen
<1>4. CASE Byte
  <2>1. CASE reg < CAP
    <3>1. \A i \in Bytes : in_buffer'[i] = IF i = reg THEN made + 1 ELSE in_buffer[i]
      BY <1>4, <2>1 DEF Byte
    <3>2. made' = made + 1 /\ reg' = reg + 1 /\ pc' \in {"byte", "publish"} /\ pc = "byte"
          /\ UNCHANGED <<in_buffer_len, mark, from>>
      BY <1>4, <2>1 DEF Byte
    <3>3. made + 1 > mark /\ \A i \in 0 .. reg - 1 : in_buffer[i] > mark
      BY <3>2
    <3>4. \A i \in 0 .. reg : in_buffer'[i] > mark
      <4> SUFFICES ASSUME NEW i \in 0 .. reg PROVE in_buffer'[i] > mark
        OBVIOUS
      <4>1. i \in Bytes /\ in_buffer'[i] = IF i = reg THEN made + 1 ELSE in_buffer[i]
        BY <2>1, <3>1
      <4>2. CASE i = reg
        BY <3>3, <4>1, <4>2
      <4>3. CASE i # reg
        BY <3>3, <4>1, <4>3
      <4> QED
        BY <4>2, <4>3
    <3>5. \A i \in 0 .. in_buffer_len - 1 : in_buffer'[i] > mark
      <4> SUFFICES ASSUME NEW i \in 0 .. in_buffer_len - 1 PROVE in_buffer'[i] > mark
        OBVIOUS
      <4>1. i \in Bytes /\ in_buffer[i] > mark
        OBVIOUS
      <4>2. in_buffer'[i] = IF i = reg THEN made + 1 ELSE in_buffer[i]
        BY <3>1, <4>1
      <4> QED
        BY <3>3, <4>1, <4>2
    <3> QED
      BY <3>2, <3>4, <3>5
  <2>2. CASE ~(reg < CAP)
    BY <1>4, <2>2 DEF Byte
  <2> QED
    BY <2>1, <2>2
<1>5. CASE Publish
  BY <1>5 DEF Publish
<1>6. CASE Test
  BY <1>6 DEF Test, Ready
<1>7. CASE Load
  BY <1>7 DEF Load
<1>8. CASE Reset
  <2>1. pc' = "copy" /\ copied' = 0 /\ from' = mark /\ mark' = made
        /\ in_buffer_len' = 0 /\ UNCHANGED <<in_buffer, ii_len, made>>
    BY <1>8 DEF Reset, Emptied
  <2>2. \A i \in 0 .. ii_len - 1 : in_buffer[i] > mark
    BY <1>8 DEF Reset
  <2> QED
    BY <2>1, <2>2 DEF CopyIsFresh
<1>9. CASE Copy
  <2>1. pc = "copy" /\ copied < ii_len /\ copied' = copied + 1
        /\ UNCHANGED <<in_buffer, in_buffer_len, ii_len, made, mark, from>>
    BY <1>9 DEF Copy
  <2>2. pc' \in {"copy", "loop"}
    BY <1>9 DEF Copy
  <2>3. \A i \in 0 .. copied : in_buffer_tmp'[i] > from
    <3>1. \A i \in Bytes : in_buffer_tmp'[i] =
                            IF i = copied THEN in_buffer[copied] ELSE in_buffer_tmp[i]
      BY <1>9 DEF Copy
    <3>2. in_buffer[copied] > from
      BY <2>1 DEF CopyIsFresh
    <3> QED
      BY <2>1, <3>1, <3>2 DEF CopyIsFresh
  <2> QED
    BY <2>1, <2>2, <2>3 DEF CopyIsFresh
<1>10. CASE NotReady \/ UNCHANGED vars
  BY <1>10 DEF NotReady, vars, CopyIsFresh
<1> QED
  BY <1>1, <1>2, <1>3, <1>4, <1>5, <1>6, <1>7, <1>8, <1>9, <1>10
  DEF Next, MainLoop

(* However EXTI1, udp_data_rx and the main loop preempt each other, no     *)
(* sample is demodulated as new a batch after it was consumed.             *)
THEOREM SampleNothingStale == Spec => []NothingStale
<1>1. Init => TypeInv /\ FreshInv
  BY InitTypeInv, InitFreshInv
<1>2. TypeInv /\ FreshInv /\ [Next]_vars => (TypeInv /\ FreshInv)'
  BY StepTypeInv, StepFreshInv
<1>3. FreshInv => NothingStale
  BY DEF FreshInv, FreshBelow, CopyIsFresh, NothingStale
<1> QED
  BY <1>1, <1>2, <1>3, PTL DEF Spec

-----------------------------------------------------------------------------
(* How many bytes have been stored since the buffer was emptied: the       *)
(* length, or what some register is about to make of it.                   *)
Level == IF pc \in {"byte", "publish"} THEN reg
         ELSE IF pc = "reset" THEN ii_len ELSE in_buffer_len

Filled(n) == /\ made = mark + n
             /\ \A i \in 0 .. n - 1 : in_buffer[i] = mark + 1 + i

(* The batch the memcpy is working on. *)
CopyIsBatch ==
  /\ mark - from = ii_len
  /\ \A i \in 0 .. copied - 1 : in_buffer_tmp[i] = from + 1 + i
  /\ \A i \in copied .. ii_len - 1 : in_buffer[i] = from + 1 + i

BatchInv ==
  /\ hit = "no" \/ pc = "copy" => Filled(Level)
  /\ pc = "copy" /\ hit = "no" => CopyIsBatch

LEMMA InitBatchInv == Init => BatchInv
BY BufferAssumption DEF Init, BatchInv, Filled, Level

(* A block for which there is no room changes nothing. *)
LEMMA AppendNothing ==
  ASSUME TypeInv, NEW n \in CHUNKS, Append(n), Room(n) = 0
  PROVE  /\ UNCHANGED <<in_buffer_len, made, hit>>
         /\ \A i \in Bytes : in_buffer'[i] = in_buffer[i]
<1> USE BufferAssumption DEF TypeInv, TypeOK
<1>1. ~(Room(n) > 0)
  OBVIOUS
<1>2. UNCHANGED <<in_buffer_len, made, hit>>
  BY <1>1 DEF Append, Advance
<1>3. \A i \in Bytes : ~(i \in in_buffer_len .. in_buffer_len + Room(n) - 1)
  OBVIOUS
<1> QED
  BY <1>2, <1>3 DEF Append

(* A block appended to a buffer that holds what was stored since it was    *)
(* emptied leaves a buffer that does.                                      *)
LEMMA AppendFills ==
  ASSUME TypeInv, NEW n \in CHUNKS, Append(n), Filled(in_buffer_len)
  PROVE  /\ made' = mark + in_buffer_len'
         /\ \A i \in 0 .. in_buffer_len' - 1 : in_buffer'[i] = mark + 1 + i
<1> USE BufferAssumption DEF TypeInv, TypeOK, Filled
<1>1. Room(n) \in Nat /\ in_buffer_len + Room(n) <= CAP
  BY RoomFits
<1>2. in_buffer_len' = in_buffer_len + Room(n) /\ made' = made + Room(n)
  BY DEF Append, Advance
<1>3. ASSUME NEW i \in 0 .. in_buffer_len + Room(n) - 1
      PROVE  in_buffer'[i] = mark + 1 + i
  <2>1. i \in Bytes
    BY <1>1
  <2>2. CASE i \in in_buffer_len .. in_buffer_len + Room(n) - 1
    <3>1. in_buffer'[i] = made + 1 + i - in_buffer_len
      BY <2>1, <2>2 DEF Append
    <3> QED
      BY <2>1, <3>1
  <2>3. CASE ~(i \in in_buffer_len .. in_buffer_len + Room(n) - 1)
    <3>1. in_buffer'[i] = in_buffer[i]
      BY <2>1, <2>3 DEF Append
    <3>2. i \in 0 .. in_buffer_len - 1
      BY <1>1, <2>1, <2>3
    <3> QED
      BY <3>1, <3>2
  <2> QED
    BY <2>2, <2>3
<1> QED
  BY <1>1, <1>2, <1>3, SMTT(20)

LEMMA StepBatchInv == TypeInv /\ BatchInv /\ [Next]_vars => BatchInv'
<1> SUFFICES ASSUME TypeInv, BatchInv, [Next]_vars PROVE BatchInv'
  OBVIOUS
<1> USE BufferAssumption DEF TypeInv, TypeOK, BatchInv, Filled, Level
<1>1. ASSUME NEW n \in CHUNKS, Append(n) PROVE BatchInv'
  <2>0. UNCHANGED <<pc, reg, ii_len, mark, from, copied, in_buffer_tmp>>
    BY <1>1 DEF Append
  <2>1. CASE Room(n) = 0
    <3>1. UNCHANGED <<in_buffer_len, made, hit>>
          /\ \A i \in Bytes : in_buffer'[i] = in_buffer[i]
      BY <1>1, <2>1, AppendNothing
    <3> QED
      BY <2>0, <3>1, SMTT(20) DEF CopyIsBatch
  <2>2. CASE Room(n) # 0
    <3>1. Exposed => hit' = "yes"
      <4>1. Room(n) > 0
        BY <2>2, RoomFits
      <4> QED
        BY <1>1, <4>1 DEF Append
    <3>2. ~Exposed => hit' = hit
      BY <1>1 DEF Append
    <3>3. CASE pc \in {"byte", "publish", "reset"}
      BY <2>0, <3>1, <3>3 DEF Exposed
    <3>4. CASE pc \notin {"byte", "publish", "reset"}
      <4>1. (hit = "no" \/ pc = "copy") => Filled(in_buffer_len)
        BY <3>4
      <4>2. (hit' = "no" \/ pc' = "copy") => Filled(in_buffer_len)
        BY <2>0, <3>1, <3>2, <4>1 DEF Exposed
      <4>3. (hit' = "no" \/ pc' = "copy") =>
              /\ made' = mark + in_buffer_len'
              /\ \A i \in 0 .. in_buffer_len' - 1 : in_buffer'[i] = mark + 1 + i
        BY <1>1, <4>2, AppendFills
      <4>4. pc = "copy" => hit' = "yes"
        BY <3>1 DEF Exposed
      <4> QED
        BY <2>0, <3>4, <4>3, <4>4
    <3> QED
      BY <3>3, <3>4
  <2> QED
    BY <2>1, <2>2
<1>2. ASSUME NEW n \in DATAGRAMS, Datagram(n) PROVE BatchInv'
  BY <1>2 DEF Datagram
<1>3. CASE LoadLen
  BY <1>3 DEF LoadLen
<1>4. CASE Byte
  <2>0. pc = "byte" /\ pc' \in {"byte", "publish"} /\ UNCHANGED <<mark, hit>>
    BY <1>4 DEF Byte
  <2>1. CASE reg < CAP
    <3>1. \A i \in Bytes : in_buffer'[i] = IF i = reg THEN made + 1 ELSE in_buffer[i]
      BY <1>4, <2>1 DEF Byte
    <3>2. made' = made + 1 /\ reg' = reg + 1
      BY <1>4, <2>1 DEF Byte
    <3>3. hit = "no" => \A i \in 0 .. reg : in_buffer'[i] = mark + 1 + i
      <4> SUFFICES ASSUME hit = "no", NEW i \in 0 .. reg
                   PROVE  in_buffer'[i] = mark + 1 + i
        OBVIOUS
      <4>1. i \in Bytes /\ in_buffer'[i] = IF i = reg THEN made + 1 ELSE in_buffer[i]
        BY <2>1, <3>1
      <4>2. CASE i = reg
        BY <2>0, <4>1, <4>2
      <4>3. CASE i # reg
        BY <2>0, <4>1, <4>3
      <4> QED
        BY <4>2, <4>3
    <3> QED
      BY <2>0, <3>2, <3>3
  <2>2. CASE ~(reg < CAP)
    BY <1>4, <2>0, <2>2 DEF Byte
  <2> QED
    BY <2>1, <2>2
<1>5. CASE Publish
  BY <1>5 DEF Publish
<1>6. CASE Test
  BY <1>6 DEF Test, Ready
<1>7. CASE Load
  BY <1>7 DEF Load
<1>8. CASE Reset
  <2>1. pc = "reset" /\ pc' = "copy" /\ copied' = 0 /\ from' = mark /\ mark' = made
        /\ in_buffer_len' = 0 /\ UNCHANGED <<in_buffer, ii_len, made, hit>>
    BY <1>8 DEF Reset, Emptied
  <2> QED
    BY <2>1 DEF CopyIsBatch
<1>9. CASE Copy
  <2>1. pc = "copy" /\ copied < ii_len /\ copied' = copied + 1
        /\ UNCHANGED <<in_buffer, in_buffer_len, ii_len, made, mark, from>>
    BY <1>9 DEF Copy
  <2>2. \/ pc' = "loop"
        \/ pc' = "copy" /\ hit' = hit
    BY <1>9 DEF Copy
  <2>3. hit = "no" => \A i \in 0 .. copied : in_buffer_tmp'[i] = from + 1 + i
    <3>1. \A i \in Bytes : in_buffer_tmp'[i] =
                            IF i = copied THEN in_buffer[copied] ELSE in_buffer_tmp[i]
      BY <1>9 DEF Copy
    <3>2. hit = "no" => in_buffer[copied] = from + 1 + copied
      BY <2>1 DEF CopyIsBatch
    <3> QED
      BY <2>1, <3>1, <3>2 DEF CopyIsBatch
  <2> QED
    BY <2>1, <2>2, <2>3 DEF CopyIsBatch
<1>10. CASE NotReady \/ UNCHANGED vars
  BY <1>10 DEF NotReady, vars, CopyIsBatch
<1> QED
  BY <1>1, <1>2, <1>3, <1>4, <1>5, <1>6, <1>7, <1>8, <1>9, <1>10
  DEF Next, MainLoop

(* Between two loads of the length that no interrupt overtakes, a batch is *)
(* what was stored since the batch before: nothing lost, doubled or moved. *)
THEOREM SampleBatches == Spec => BatchIsWhatWasStored
<1>1. Init => TypeInv /\ BatchInv
  BY InitTypeInv, InitBatchInv
<1>2. TypeInv /\ BatchInv /\ [Next]_vars => (TypeInv /\ BatchInv)'
  BY StepTypeInv, StepBatchInv
<1>3. TypeInv /\ BatchInv /\ [Next]_vars =>
        [ (pc = "copy" /\ pc' = "loop" /\ hit = "no") =>
            /\ mark - from = ii_len
            /\ \A i \in 0 .. ii_len - 1 : in_buffer_tmp'[i] = from + 1 + i ]_vars
  <2> SUFFICES ASSUME TypeInv, BatchInv, [Next]_vars,
                      pc = "copy", pc' = "loop", hit = "no"
               PROVE  /\ mark - from = ii_len
                      /\ \A i \in 0 .. ii_len - 1 : in_buffer_tmp'[i] = from + 1 + i
    OBVIOUS
  <2>1. CopyIsBatch
    BY DEF BatchInv
  <2>2. Copy
    BY DEF Next, MainLoop, Append, Datagram, LoadLen, Byte, Publish, Test, Load, Reset,
           NotReady, vars
  <2>3. copied + 1 = ii_len
    BY <2>2 DEF Copy
  <2>4. \A i \in Bytes : in_buffer_tmp'[i] =
                          IF i = copied THEN in_buffer[copied] ELSE in_buffer_tmp[i]
    BY <2>2 DEF Copy, TypeInv, TypeOK
  <2>5. ASSUME NEW i \in 0 .. ii_len - 1 PROVE in_buffer_tmp'[i] = from + 1 + i
    <3>1. i \in Bytes /\ copied \in 0 .. ii_len - 1
      BY BufferAssumption, <2>3 DEF TypeInv, TypeOK
    <3>2. in_buffer_tmp'[i] = IF i = copied THEN in_buffer[copied] ELSE in_buffer_tmp[i]
      BY <2>4, <3>1
    <3>3. CASE i = copied
      <4>1. in_buffer[i] = from + 1 + i
        BY <2>1, <3>1, <3>3 DEF CopyIsBatch
      <4> QED
        BY <3>2, <3>3, <4>1
    <3>4. CASE i # copied
      <4>1. i \in 0 .. copied - 1
        BY <2>3, <3>1, <3>4
      <4>2. in_buffer_tmp[i] = from + 1 + i
        BY <2>1, <4>1 DEF CopyIsBatch
      <4> QED
        BY <3>2, <3>4, <4>2
    <3> QED
      BY <3>3, <3>4
  <2> QED
    BY <2>1, <2>5 DEF CopyIsBatch
<1> QED
  BY <1>1, <1>2, <1>3, PTL DEF Spec, BatchIsWhatWasStored

=============================================================================
