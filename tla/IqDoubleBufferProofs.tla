------------------------- MODULE IqDoubleBufferProofs -------------------------
(***************************************************************************)
(* IqDoubleBuffer for banks of any size and any processor that outruns the *)
(* samples: types, whole blocks, at most one seam however late the handler *)
(* is, and no block lost, repeated or swapped while it keeps up.           *)
(***************************************************************************)
EXTENDS IqDoubleBuffer, TLAPS

Reached == Word(iq900_addr)   \* word of its bank the FPGA writes next

(* The bank being written holds the half under way up to the write address *)
(* and the half before the last from there on; the other bank holds the    *)
(* last one.                                                               *)
BanksHoldThreeHalves ==
  \A i \in Words :
    /\ Succ(bank[Bank(~A1)][i]) = half
    /\ i < Reached => bank[Bank(A1)][i] = half
    /\ i >= Reached => Succ(Succ(bank[Bank(A1)][i])) = half

(* An interrupt raised while the processor is free is taken before the     *)
(* next sample.                                                            *)
TakenAtOnce ==
  (pending /\ due = "punctual") => isr = "idle" /\ Reached = 0 /\ slack = SPEED

(* A copy that started in time stays ahead of the FPGA. *)
CopyAhead ==
  (isr = "copy" /\ start = "punctual") =>
    /\ ~pending
    /\ rx_fifo0_900_ready = A1
    /\ Reached + SPEED - slack <= copied
    /\ \A i \in 0 .. copied - 1 : Succ(Succ(iq_data[i])) = half

(* How far the stream is ahead of a whole block, until the next is begun.  *)
BlockInPlace ==
  (isr # "copy" /\ start = "punctual") =>
    /\ \A i \in Words : iq_data[i] = iq_data[0]
    /\ ~pending => Succ(Succ(iq_data[0])) = half
    /\ (pending /\ due = "punctual") => Succ(Succ(Succ(iq_data[0]))) = half

IInv ==
  /\ TypeOK
  /\ BanksHoldThreeHalves
  /\ TakenAtOnce
  /\ CopyAhead
  /\ BlockInPlace

-----------------------------------------------------------------------------

LEMMA SuccTag ==
  ASSUME NEW h \in Tags
  PROVE  /\ Succ(h) \in Tags
         /\ \A k \in Tags : Succ(k) = Succ(h) => k = h
BY IqAssumption, SMT DEF Tags, Succ

LEMMA TypeInit == Init => TypeOK
<1> SUFFICES ASSUME Init PROVE TypeOK
  OBVIOUS
<1> USE IqAssumption
<1>1. bank \in [{1, 2} -> [Words -> Tags]]
  BY SMT DEF Init, Words, Tags
<1>2. iq_data \in [Words -> Tags]
  BY SMT DEF Init, Words, Tags
<1>3. /\ iq900_addr \in 0 .. 2 * WORDS - 1
      /\ half \in Tags
      /\ copied \in 0 .. WORDS
      /\ slack \in 0 .. SPEED
  BY SMT DEF Init, Words, Tags
<1> QED
  BY <1>1, <1>2, <1>3 DEF Init, TypeOK

LEMMA TypeNext == TypeOK /\ [Next]_vars => TypeOK'
<1> SUFFICES ASSUME TypeOK, [Next]_vars PROVE TypeOK'
  OBVIOUS
<1> USE IqAssumption DEF TypeOK
<1>1. CASE Sample
  <2>1. Word(iq900_addr) \in Words /\ Bank(A1) \in {1, 2}
    BY SMT DEF Word, Words, Bank
  <2>2. bank' \in [{1, 2} -> [Words -> Tags]]
    BY <1>1, <2>1, Zenon DEF Sample
  <2>3. iq900_addr' \in 0 .. 2 * WORDS - 1
    BY <1>1, SMT DEF Sample
  <2>4. half' \in Tags
    BY <1>1, SuccTag DEF Sample
  <2>5. pending' \in BOOLEAN
    BY <1>1, Zenon DEF Sample
  <2>6. /\ slack' \in 0 .. SPEED
        /\ due' \in {"punctual", "late"}
    BY <1>1, SMT DEF Sample
  <2> QED
    BY <1>1, <2>2, <2>3, <2>4, <2>5, <2>6 DEF Sample
<1>2. CASE EXTI1_IRQHandler
  <2>1. rx_fifo0_900_ready' \in BOOLEAN
    <3>1. (iq900_addr >= WORDS) \in BOOLEAN
      OBVIOUS
    <3> QED
      BY <1>2, <3>1, Zenon DEF EXTI1_IRQHandler, A1
  <2>2. copied' \in 0 .. WORDS /\ copied' < WORDS
    BY <1>2, SMT DEF EXTI1_IRQHandler
  <2> QED
    BY <1>2, <2>1, <2>2 DEF EXTI1_IRQHandler
<1>3. CASE Copy
  <2>1. copied \in Words /\ Bank(rx_fifo0_900_ready) \in {1, 2}
    BY <1>3, SMT DEF Copy, Words, Bank
  <2>2. iq_data' \in [Words -> Tags]
    BY <1>3, <2>1, Zenon DEF Copy
  <2>3. /\ copied' \in 0 .. WORDS
        /\ slack' \in 0 .. SPEED
        /\ isr' = "copy" => copied' < WORDS
        /\ isr' \in {"idle", "copy", "busy"}
    BY <1>3, SMT DEF Copy
  <2> QED
    BY <1>3, <2>2, <2>3 DEF Copy
<1>4. CASE Return
  BY <1>4, SMT DEF Return
<1>5. CASE UNCHANGED vars
  BY <1>5, Zenon DEF vars
<1> QED
  BY <1>1, <1>2, <1>3, <1>4, <1>5 DEF Next

-----------------------------------------------------------------------------

LEMMA Initially == Init => IInv
<1> SUFFICES ASSUME Init PROVE IInv
  OBVIOUS
<1> USE IqAssumption
<1>1. TypeOK
  BY TypeInit
<1>2. ~A1 /\ Reached = iq900_addr
  BY SMT DEF Init, A1, Reached, Word, Words
<1>3. BanksHoldThreeHalves
  <2> SUFFICES ASSUME NEW i \in Words
               PROVE  /\ Succ(bank[1][i]) = half
                      /\ i < iq900_addr => bank[2][i] = half
                      /\ i >= iq900_addr => Succ(Succ(bank[2][i])) = half
    BY <1>2 DEF BanksHoldThreeHalves, Bank
  <2>1. \A b \in {1, 2} :
          bank[b][i] = IF b = 1 THEN 1 ELSE IF i < iq900_addr THEN 2 ELSE 0
    BY SMT DEF Init
  <2> QED
    BY <2>1, SMT DEF Init, Succ, Words
<1>4. TakenAtOnce /\ CopyAhead /\ BlockInPlace
  BY DEF Init, TakenAtOnce, CopyAhead, BlockInPlace
<1> QED
  BY <1>1, <1>3, <1>4 DEF IInv

(* What one more sample does to the banks and to the write address. *)
LEMMA SampleStep ==
  ASSUME IInv, Sample
  PROVE  /\ BanksHoldThreeHalves'
         /\ \/ /\ Reached' = 0 /\ Reached = WORDS - 1
               /\ A1' = ~A1 /\ half' = Succ(half) /\ pending' = TRUE
               /\ due' = IF isr = "idle" THEN "punctual" ELSE "late"
            \/ /\ Reached' = Reached + 1
               /\ A1' = A1 /\ half' = half /\ pending' = pending /\ due' = due
<1> USE IqAssumption
<1> DEFINE next == IF iq900_addr + 1 = 2 * WORDS THEN 0 ELSE iq900_addr + 1
           edge == (next >= WORDS) # A1
<1>1. iq900_addr \in 0 .. 2 * WORDS - 1 /\ half \in Tags
  BY DEF IInv, TypeOK
<1>2. iq900_addr' = next
  BY DEF Sample
<1>3. \/ Reached = WORDS - 1 /\ edge /\ Word(next) = 0
      \/ Reached # WORDS - 1 /\ ~edge /\ Word(next) = Reached + 1
  BY <1>1, SMT DEF Reached, Word, A1
<1>4. Reached' = Word(next) /\ A1' = (next >= WORDS)
  BY <1>2 DEF Reached, Word, A1
<1>5. /\ half' = IF edge THEN Succ(half) ELSE half
      /\ pending' = (pending \/ edge)
      /\ due' = IF edge THEN IF isr = "idle" THEN "punctual" ELSE "late" ELSE due
  BY Zenon DEF Sample
<1>5a. pending \in BOOLEAN
  BY DEF IInv, TypeOK
<1>6. \/ /\ Reached' = 0 /\ Reached = WORDS - 1
         /\ A1' = ~A1 /\ half' = Succ(half) /\ pending' = TRUE
         /\ due' = IF isr = "idle" THEN "punctual" ELSE "late"
      \/ /\ Reached' = Reached + 1
         /\ A1' = A1 /\ half' = half /\ pending' = pending /\ due' = due
  <2>1. CASE Reached = WORDS - 1 /\ edge /\ Word(next) = 0
    <3>1. A1' = ~A1
      BY <1>4, <2>1, SMT DEF A1
    <3>2. /\ half' = Succ(half)
          /\ pending' = TRUE
          /\ due' = IF isr = "idle" THEN "punctual" ELSE "late"
      BY <1>5, <2>1, Zenon
    <3> QED
      BY <1>4, <2>1, <3>1, <3>2
  <2>2. CASE Reached # WORDS - 1 /\ ~edge /\ Word(next) = Reached + 1
    <3>1. A1' = A1
      BY <1>4, <2>2, SMT DEF A1
    <3>2. /\ half' = half
          /\ pending' = pending
          /\ due' = due
      BY <1>5, <1>5a, <2>2, Zenon
    <3> QED
      BY <1>4, <2>2, <3>1, <3>2
  <2> QED
    BY <1>3, <2>1, <2>2
<1>7. BanksHoldThreeHalves'
  <2> SUFFICES ASSUME NEW i \in Words
               PROVE  /\ Succ(bank'[Bank(~A1')][i]) = half'
                      /\ i < Reached' => bank'[Bank(A1')][i] = half'
                      /\ i >= Reached' => Succ(Succ(bank'[Bank(A1')][i])) = half'
    BY Zenon DEF BanksHoldThreeHalves, Words, Bank
  <2>1. Reached \in Words /\ Bank(A1) \in {1, 2} /\ Bank(~A1) \in {1, 2}
    BY <1>1, SMT DEF Reached, Word, Words, Bank
  <2>2. /\ bank'[Bank(A1)][i] = IF i = Reached THEN half ELSE bank[Bank(A1)][i]
        /\ bank'[Bank(~A1)][i] = bank[Bank(~A1)][i]
    <3>1. bank' = [bank EXCEPT ![Bank(A1)][Reached] = half]
      BY Zenon DEF Sample, Reached
    <3>2. bank \in [{1, 2} -> [Words -> Tags]]
      BY DEF IInv, TypeOK
    <3>3. Bank(A1) # Bank(~A1)
      BY SMT DEF Bank
    <3> QED
      BY <2>1, <3>1, <3>2, <3>3, SMT
  <2>3. /\ Succ(bank[Bank(~A1)][i]) = half
        /\ i < Reached => bank[Bank(A1)][i] = half
        /\ i >= Reached => Succ(Succ(bank[Bank(A1)][i])) = half
    BY DEF IInv, BanksHoldThreeHalves
  <2>4. CASE Reached' = 0
    <3>1. Reached = WORDS - 1 /\ A1' = ~A1 /\ half' = Succ(half)
      BY <1>6, <2>1, <2>4, SMT DEF Words
    <3>2. Bank(~A1') = Bank(A1) /\ Bank(A1') = Bank(~A1)
      BY <3>1, SMT DEF Bank, A1
    <3>3. i <= Reached
      BY <3>1, SMT DEF Words
    <3>4. bank'[Bank(A1)][i] = half
      BY <2>1, <2>2, <2>3, <3>3, SMT DEF Words
    <3>5. Succ(bank'[Bank(~A1')][i]) = half'
      BY <3>1, <3>2, <3>4, Zenon
    <3>6. Succ(Succ(bank'[Bank(A1')][i])) = half'
      BY <2>2, <2>3, <3>1, Zenon
    <3>7. ~(i < Reached')
      BY <2>4, SMT DEF Words
    <3> QED
      BY <3>5, <3>6, <3>7
  <2>5. CASE Reached' # 0
    <3>1. Reached' = Reached + 1 /\ A1' = A1 /\ half' = half
      BY <1>6, <2>5
    <3>2. i < Reached' => bank'[Bank(A1)][i] = half
      BY <2>1, <2>2, <2>3, <3>1, SMT DEF Words
    <3>3. i >= Reached' => Succ(Succ(bank'[Bank(A1)][i])) = half
      BY <2>1, <2>2, <2>3, <3>1, SMT DEF Words
    <3> QED
      BY <2>2, <2>3, <3>1, <3>2, <3>3
  <2> QED
    BY <2>4, <2>5
<1> QED
  BY <1>6, <1>7

LEMMA SampleKeeps == IInv /\ Sample => IInv'
<1> SUFFICES ASSUME IInv, Sample PROVE IInv'
  OBVIOUS
<1> USE IqAssumption
<1>1. TypeOK' /\ BanksHoldThreeHalves'
  BY TypeNext, SampleStep DEF IInv, Next
<1>2. /\ TypeOK /\ TakenAtOnce /\ CopyAhead /\ BlockInPlace
      /\ isr = "idle" => ~pending
      /\ isr = "copy" => slack = 0
      /\ slack' = IF isr = "busy" THEN 0 ELSE SPEED
      /\ isr' = isr /\ start' = start /\ copied' = copied /\ iq_data' = iq_data
      /\ rx_fifo0_900_ready' = rx_fifo0_900_ready
  BY Zenon DEF IInv, Sample, SampleMayCome
<1>3. Reached \in Words
  BY <1>2, SMT DEF TypeOK, Reached, Word, Words
<1>4. CASE /\ Reached' = 0 /\ Reached = WORDS - 1
           /\ A1' = ~A1 /\ half' = Succ(half) /\ pending' = TRUE
           /\ due' = IF isr = "idle" THEN "punctual" ELSE "late"
  <2>1. TakenAtOnce'
    BY <1>2, <1>4, Zenon DEF TakenAtOnce
  <2>2. ~(isr = "copy" /\ start = "punctual")
    BY <1>2, <1>4, SMT DEF CopyAhead, TypeOK
  <2>3. CopyAhead'
    BY <1>2, <2>2, Zenon DEF CopyAhead
  <2>4. BlockInPlace'
    BY <1>2, <1>4, Zenon DEF BlockInPlace
  <2> QED
    BY <1>1, <2>1, <2>3, <2>4 DEF IInv
<1>5. CASE /\ Reached' = Reached + 1
           /\ A1' = A1 /\ half' = half /\ pending' = pending /\ due' = due
  <2>1. TakenAtOnce'
    BY <1>2, <1>5, Zenon DEF TakenAtOnce
  <2>2. CopyAhead'
    <3> SUFFICES ASSUME isr = "copy", start = "punctual"
                 PROVE  /\ ~pending'
                        /\ rx_fifo0_900_ready' = A1'
                        /\ Reached' + SPEED - slack' <= copied'
                        /\ \A i \in 0 .. copied' - 1 : Succ(Succ(iq_data'[i])) = half'
      BY <1>2 DEF CopyAhead
    <3>1. /\ ~pending
          /\ rx_fifo0_900_ready = A1
          /\ Reached + SPEED - slack <= copied
          /\ \A i \in 0 .. copied - 1 : Succ(Succ(iq_data[i])) = half
      BY <1>2 DEF CopyAhead
    <3>2. Reached + 1 + SPEED - SPEED <= copied
      BY <1>2, <1>3, <3>1, SMT DEF TypeOK, Words
    <3>3. Reached' + SPEED - slack' <= copied'
      BY <1>2, <1>5, <3>2
    <3> QED
      BY <1>2, <1>5, <3>1, <3>3
  <2>3. BlockInPlace'
    BY <1>2, <1>5, Zenon DEF BlockInPlace
  <2> QED
    BY <1>1, <2>1, <2>2, <2>3 DEF IInv
<1> QED
  BY <1>4, <1>5, SampleStep

LEMMA HandlerKeeps == IInv /\ EXTI1_IRQHandler => IInv'
<1> SUFFICES ASSUME IInv, EXTI1_IRQHandler PROVE IInv'
  OBVIOUS
<1> USE IqAssumption
<1>1. TypeOK'
  BY TypeNext DEF IInv, Next
<1>2. /\ TypeOK /\ BanksHoldThreeHalves /\ TakenAtOnce /\ BlockInPlace
      /\ isr = "idle" /\ pending /\ pending' = FALSE
      /\ rx_fifo0_900_ready' = A1 /\ isr' = "copy" /\ copied' = 0 /\ start' = due
      /\ iq900_addr' = iq900_addr /\ half' = half /\ bank' = bank
      /\ iq_data' = iq_data /\ slack' = slack /\ due' = due
  BY Zenon DEF IInv, EXTI1_IRQHandler
<1>3. Reached' = Reached /\ A1' = A1
  BY <1>2, Zenon DEF Reached, Word, A1
<1>4. BanksHoldThreeHalves'
  BY <1>2, Zenon DEF BanksHoldThreeHalves, Reached, Word, A1, Bank, Words, Succ
<1>5. TakenAtOnce' /\ BlockInPlace'
  BY <1>2 DEF TakenAtOnce, BlockInPlace
<1>6. CopyAhead'
  <2> SUFFICES ASSUME due = "punctual"
               PROVE  /\ Reached + SPEED - slack <= 0
                      /\ \A i \in 0 .. 0 - 1 : Succ(Succ(iq_data[i])) = half
    BY <1>2, <1>3 DEF CopyAhead
  <2>1. Reached = 0 /\ slack = SPEED
    BY <1>2 DEF TakenAtOnce
  <2> QED
    BY <2>1, SMT
<1> QED
  BY <1>1, <1>4, <1>5, <1>6 DEF IInv

LEMMA CopyKeeps == IInv /\ Copy => IInv'
<1> SUFFICES ASSUME IInv, Copy PROVE IInv'
  OBVIOUS
<1> USE IqAssumption
<1>1. TypeOK'
  BY TypeNext DEF IInv, Next
<1>2. /\ TypeOK /\ BanksHoldThreeHalves /\ TakenAtOnce /\ CopyAhead
      /\ isr = "copy" /\ copied' = copied + 1
      /\ iq_data' = [iq_data EXCEPT ![copied] = bank[Bank(rx_fifo0_900_ready)][copied]]
      /\ slack' = IF slack = 0 THEN 0 ELSE slack - 1
      /\ isr' = IF copied + 1 = WORDS THEN "busy" ELSE "copy"
      /\ pending' = pending /\ due' = due /\ start' = start
      /\ rx_fifo0_900_ready' = rx_fifo0_900_ready
      /\ iq900_addr' = iq900_addr /\ half' = half /\ bank' = bank
  BY Zenon DEF IInv, Copy
<1>3. Reached' = Reached /\ A1' = A1
  BY <1>2, Zenon DEF Reached, Word, A1
<1>4. BanksHoldThreeHalves'
  BY <1>2, Zenon DEF BanksHoldThreeHalves, Reached, Word, A1, Bank, Words, Succ
<1>5. TakenAtOnce'
  BY <1>2, Zenon DEF TakenAtOnce
<1>6. ASSUME start = "punctual"
      PROVE  /\ ~pending
             /\ rx_fifo0_900_ready = A1
             /\ Reached + SPEED - slack' <= copied + 1
             /\ \A i \in 0 .. copied : Succ(Succ(iq_data'[i])) = half
  <2>1. /\ ~pending
        /\ rx_fifo0_900_ready = A1
        /\ Reached + SPEED - slack <= copied
        /\ \A i \in 0 .. copied - 1 : Succ(Succ(iq_data[i])) = half
    BY <1>2, <1>6 DEF CopyAhead
  <2>2. Reached \in Nat /\ copied \in Words /\ slack \in 0 .. SPEED
    BY <1>2, SMT DEF TypeOK, Reached, Word, Words
  <2>3. Reached <= copied
    BY <2>1, <2>2, SMT DEF Words
  <2>4. Succ(Succ(bank[Bank(A1)][copied])) = half
    BY <1>2, <2>2, <2>3, SMT DEF BanksHoldThreeHalves
  <2>5. \A i \in 0 .. copied : Succ(Succ(iq_data'[i])) = half
    <3> TAKE i \in 0 .. copied
    <3>1. iq_data'[i] = IF i = copied THEN bank[Bank(A1)][copied] ELSE iq_data[i]
      BY <1>2, <2>1, <2>2, SMT DEF TypeOK, Words
    <3>2. i # copied => i \in 0 .. copied - 1
      BY <2>2, SMT DEF Words
    <3> QED
      BY <2>1, <2>4, <3>1, <3>2
  <2>6. Reached + SPEED - slack' <= copied + 1
    BY <1>2, <2>1, <2>2, SMT DEF Words
  <2> QED
    BY <2>1, <2>5, <2>6
<1>7. CopyAhead'
  <2> SUFFICES ASSUME isr' = "copy", start' = "punctual"
               PROVE  /\ ~pending'
                      /\ rx_fifo0_900_ready' = A1'
                      /\ Reached' + SPEED - slack' <= copied'
                      /\ \A i \in 0 .. copied' - 1 : Succ(Succ(iq_data'[i])) = half'
    BY DEF CopyAhead
  <2>1. 0 .. copied = 0 .. (copied + 1) - 1
    BY <1>2, SMT DEF TypeOK
  <2> QED
    BY <1>2, <1>3, <1>6, <2>1
<1>8. BlockInPlace'
  <2> SUFFICES ASSUME isr' # "copy", start' = "punctual"
               PROVE  /\ \A i \in Words : iq_data'[i] = iq_data'[0]
                      /\ Succ(Succ(iq_data'[0])) = half
                      /\ ~pending
    BY <1>2 DEF BlockInPlace
  <2>1. \A i \in Words : Succ(Succ(iq_data'[i])) = half
    BY <1>2, <1>6, SMT DEF TypeOK, Words
  <2>2. 0 \in Words /\ iq_data' \in [Words -> Tags]
    BY <1>1, SMT DEF TypeOK, Words
  <2>3. \A i \in Words : iq_data'[i] = iq_data'[0]
    <3> TAKE i \in Words
    <3>1. Succ(Succ(iq_data'[i])) = Succ(Succ(iq_data'[0]))
      BY <2>1, <2>2
    <3>2. iq_data'[i] \in Tags /\ iq_data'[0] \in Tags
      BY <2>2
    <3> QED
      BY <3>1, <3>2, SuccTag
  <2> QED
    BY <1>2, <1>6, <2>1, <2>2, <2>3
<1> QED
  BY <1>1, <1>4, <1>5, <1>7, <1>8 DEF IInv

LEMMA ReturnKeeps == IInv /\ Return => IInv'
<1> SUFFICES ASSUME IInv, Return PROVE IInv'
  OBVIOUS
<1>1. TypeOK'
  BY TypeNext DEF IInv, Next
<1>2. /\ BanksHoldThreeHalves /\ TakenAtOnce /\ BlockInPlace
      /\ isr = "busy" /\ isr' = "idle"
      /\ pending' = pending /\ due' = due /\ start' = start
      /\ iq900_addr' = iq900_addr /\ half' = half /\ bank' = bank
      /\ iq_data' = iq_data
  BY Zenon DEF IInv, Return
<1>3. ~(pending /\ due = "punctual")
  BY <1>2 DEF TakenAtOnce
<1>4. BanksHoldThreeHalves'
  BY <1>2, Zenon DEF BanksHoldThreeHalves, Reached, Word, A1, Bank, Words, Succ
<1>5. TakenAtOnce'
  BY <1>2, <1>3, Zenon DEF TakenAtOnce
<1>6. CopyAhead'
  BY <1>2 DEF CopyAhead
<1>7. BlockInPlace'
  BY <1>2, Zenon DEF BlockInPlace, Words, Succ
<1> QED
  BY <1>1, <1>4, <1>5, <1>6, <1>7 DEF IInv

LEMMA Inductive == IInv /\ [Next]_vars => IInv'
<1>1. ASSUME IInv, UNCHANGED vars PROVE IInv'
  BY <1>1, Zenon DEF vars, IInv, TypeOK, BanksHoldThreeHalves, TakenAtOnce, CopyAhead,
     BlockInPlace, Reached, Word, A1, Bank, Words, Tags, Succ
<1> QED
  BY <1>1, SampleKeeps, HandlerKeeps, CopyKeeps, ReturnKeeps DEF Next

THEOREM IqInvariant == Spec => []IInv
BY Initially, Inductive, PTL DEF Spec

-----------------------------------------------------------------------------

(* Every address the FPGA and the handler use is inside its memory, for    *)
(* banks of any size.                                                      *)
THEOREM IqTypeCorrect == Spec => []TypeOK
<1>1. IInv => TypeOK
  BY DEF IInv
<1> QED
  BY <1>1, IqInvariant, PTL

(* A handler that starts at its edge hands on one whole half, although the *)
(* FPGA writes the very bank it copies.                                    *)
THEOREM IqWholeUnlessLate == Spec => []WholeUnlessLate
<1>1. IInv => WholeUnlessLate
  BY DEF IInv, BlockInPlace, WholeUnlessLate
<1> QED
  BY <1>1, IqInvariant, PTL

-----------------------------------------------------------------------------

(* Of the first n words of a block, those before k are of half h, the      *)
(* others of the half before the last of it.                               *)
Blend(block, n, k, h) ==
  /\ \A i \in 0 .. k - 1 : block[i] = h
  /\ \A i \in k .. n - 1 : Succ(Succ(block[i])) = h

(* A copy, whenever it started, is behind the FPGA in the bank being       *)
(* written and reads the half under way,                                   *)
Behind ==
  /\ rx_fifo0_900_ready = A1
  /\ copied <= Reached
  /\ Blend(iq_data, copied, copied, half)

(* or has passed it, and stays ahead of it to the end of the bank,         *)
Passed ==
  /\ rx_fifo0_900_ready = A1
  /\ copied >= Reached
  /\ copied + slack >= Reached + 1
  /\ \E k \in 0 .. copied : Blend(iq_data, copied, k, half)

(* or was still behind when the FPGA left the bank, and is done with it    *)
(* before the FPGA returns.                                                *)
Alone ==
  /\ rx_fifo0_900_ready = ~A1
  /\ copied + slack >= 2 * Reached + 2
  /\ \E h \in Tags : Succ(h) = half /\ Blend(iq_data, copied, copied, h)

Seamed ==
  /\ isr = "copy" => Behind \/ Passed \/ Alone
  /\ isr = "busy" => \E h \in Tags : \E k \in 0 .. WORDS : Blend(iq_data, WORDS, k, h)

(* One more sample: the writer advances, or changes banks.                 *)
LEMMA SampleSeamed == IInv /\ Seamed /\ Sample => Seamed'
<1> SUFFICES ASSUME IInv, Seamed, Sample PROVE Seamed'
  OBVIOUS
<1> USE IqAssumption
<1>1. /\ isr = "copy" => slack = 0
      /\ slack' = IF isr = "busy" THEN 0 ELSE SPEED
      /\ isr' = isr /\ copied' = copied /\ iq_data' = iq_data
      /\ rx_fifo0_900_ready' = rx_fifo0_900_ready
  BY Zenon DEF Sample, SampleMayCome
<1>2. /\ Reached \in Words /\ copied \in 0 .. WORDS /\ half \in Tags
      /\ isr = "copy" => copied < WORDS
      /\ (A1 = TRUE \/ A1 = FALSE)
      /\ rx_fifo0_900_ready \in BOOLEAN
  <2>1. iq900_addr \in 0 .. 2 * WORDS - 1
    BY DEF IInv, TypeOK
  <2>2. Reached \in Words
    BY <2>1, SMT DEF Reached, Word, Words
  <2>3. A1 = TRUE \/ A1 = FALSE
    BY <2>1, SMT DEF A1
  <2> QED
    BY <2>2, <2>3 DEF IInv, TypeOK
<1>3. CASE isr = "busy"
  BY <1>1, <1>3 DEF Seamed
<1>4. CASE isr = "copy"
  <2>1. slack = 0 /\ slack' = SPEED /\ isr' = "copy" /\ copied < WORDS
    BY <1>1, <1>2, <1>4
  <2>2. CASE /\ Reached' = 0 /\ Reached = WORDS - 1
             /\ A1' = ~A1 /\ half' = Succ(half)
    <3>1. ~Passed /\ ~Alone
      BY <1>2, <2>1, <2>2, SMT DEF Passed, Alone
    <3>2. Behind
      BY <1>4, <3>1 DEF Seamed
    <3>3. rx_fifo0_900_ready' = ~A1'
      BY <1>1, <1>2, <2>2, <3>2, Zenon DEF Behind
    <3>4. copied' + slack' >= 2 * Reached' + 2
      BY <1>1, <1>2, <2>1, <2>2
    <3>5. Succ(half) = half' /\ Blend(iq_data', copied', copied', half)
      BY <1>1, <2>2, <3>2 DEF Behind
    <3>6. Alone'
      BY <1>2, <3>3, <3>4, <3>5 DEF Alone
    <3> QED
      BY <2>1, <3>6 DEF Seamed
  <2>3. CASE Reached' = Reached + 1 /\ A1' = A1 /\ half' = half
    <3>1. CASE Behind
      <4>1. Behind'
        BY <1>1, <1>2, <2>3, <3>1 DEF Behind, Words
      <4> QED
        BY <2>1, <4>1 DEF Seamed
    <3>2. CASE Passed
      <4>1. copied' >= Reached' /\ copied' + slack' >= Reached' + 1
        BY <1>1, <1>2, <2>1, <2>3, <3>2 DEF Passed, Words
      <4>2. Passed'
        BY <1>1, <2>3, <3>2, <4>1 DEF Passed
      <4> QED
        BY <2>1, <4>2 DEF Seamed
    <3>3. CASE Alone
      <4>1. copied' + slack' >= 2 * Reached' + 2
        BY <1>1, <1>2, <2>1, <2>3, <3>3 DEF Alone, Words
      <4>2. Alone'
        BY <1>1, <2>3, <3>3, <4>1 DEF Alone
      <4> QED
        BY <2>1, <4>2 DEF Seamed
    <3> QED
      BY <1>4, <3>1, <3>2, <3>3 DEF Seamed
  <2> QED
    BY <2>2, <2>3, SampleStep
<1>5. CASE isr = "idle"
  BY <1>1, <1>5 DEF Seamed
<1> QED
  BY <1>3, <1>4, <1>5 DEF IInv, TypeOK

LEMMA NoneLeft ==
  ASSUME NEW n \in Int
  PROVE  \A i \in n .. n - 1 : FALSE
OBVIOUS

LEMMA AheadStill ==
  ASSUME NEW c \in Int, NEW s \in Int, NEW d \in Int, NEW t \in Int, NEW r \in Int,
         d + t >= c + s, c + s >= 2 * r + 2
  PROVE  d + t >= 2 * r + 2
OBVIOUS

(* One more word copied.                                                   *)
LEMMA CopySeamed == IInv /\ Seamed /\ Copy => Seamed'
<1> SUFFICES ASSUME IInv, Seamed, Copy PROVE Seamed'
  OBVIOUS
<1> USE IqAssumption
<1>1. /\ TypeOK /\ BanksHoldThreeHalves
      /\ isr = "copy" /\ copied' = copied + 1
      /\ iq_data' = [iq_data EXCEPT ![copied] = bank[Bank(rx_fifo0_900_ready)][copied]]
      /\ slack' = IF slack = 0 THEN 0 ELSE slack - 1
      /\ isr' = IF copied + 1 = WORDS THEN "busy" ELSE "copy"
      /\ rx_fifo0_900_ready' = rx_fifo0_900_ready
      /\ iq900_addr' = iq900_addr /\ half' = half
  BY Zenon DEF IInv, Copy
<1>2. Reached' = Reached /\ A1' = A1
  BY <1>1, Zenon DEF Reached, Word, A1
<1>3. /\ Reached \in Words /\ copied \in Words /\ half \in Tags /\ slack \in 0 .. SPEED
      /\ copied' \in 1 .. WORDS
  BY <1>1, SMT DEF TypeOK, Reached, Word, Words
<1>4. \A i \in Words :
        iq_data'[i] = IF i = copied THEN bank[Bank(rx_fifo0_900_ready)][copied]
                                    ELSE iq_data[i]
  BY <1>1, <1>3, SMT DEF TypeOK
\* What was copied stays, whatever comes after it.
<1>5. ASSUME NEW h, NEW k \in 0 .. copied, Blend(iq_data, copied, k, h),
             Succ(Succ(bank[Bank(rx_fifo0_900_ready)][copied])) = h
      PROVE  Blend(iq_data', copied', k, h)
  <2>1. \A i \in 0 .. k - 1 : iq_data'[i] = h
    BY <1>3, <1>4, <1>5, SMT DEF Blend, Words
  <2>2. \A i \in k .. copied' - 1 : Succ(Succ(iq_data'[i])) = h
    <3> TAKE i \in k .. copied' - 1
    <3>1. i \in Words /\ (i = copied \/ i \in k .. copied - 1)
      BY <1>1, <1>3, SMT DEF Words
    <3> QED
      BY <1>4, <1>5, <3>1 DEF Blend
  <2> QED
    BY <2>1, <2>2 DEF Blend, Succ
<1>6. ASSUME NEW h, Blend(iq_data, copied, copied, h),
             bank[Bank(rx_fifo0_900_ready)][copied] = h
      PROVE  Blend(iq_data', copied', copied', h)
  <2>1. \A i \in 0 .. copied' - 1 : iq_data'[i] = h
    <3> TAKE i \in 0 .. copied' - 1
    <3>1. i \in Words /\ (i = copied \/ i \in 0 .. copied - 1)
      BY <1>1, <1>3, SMT DEF Words
    <3> QED
      BY <1>4, <1>6, <3>1 DEF Blend
  <2>2. copied' \in Int
    BY <1>3
  <2>3. \A i \in copied' .. copied' - 1 : FALSE
    BY <2>2, NoneLeft, Zenon
  <2> QED
    BY <2>1, <2>3 DEF Blend
<1>7. copied' + slack' >= copied + slack /\ copied' + slack' >= copied + 1
  BY <1>1, <1>3 DEF Words
<1>8. Behind' \/ Passed' \/ Alone'
  <2>1. CASE Behind /\ copied < Reached
    <3>1. bank[Bank(rx_fifo0_900_ready)][copied] = half
      BY <1>1, <1>3, <2>1 DEF BanksHoldThreeHalves, Behind
    <3>2. Blend(iq_data', copied', copied', half)
      BY <1>6, <2>1, <3>1 DEF Behind
    <3> QED
      BY <1>1, <1>2, <1>3, <2>1, <3>2 DEF Behind, Words
  <2>2. CASE (Behind /\ copied = Reached) \/ Passed
    <3>1. /\ rx_fifo0_900_ready = A1 /\ copied >= Reached
          /\ \E k \in 0 .. copied : Blend(iq_data, copied, k, half)
      BY <1>3, <2>2 DEF Behind, Passed, Words
    <3>2. Succ(Succ(bank[Bank(rx_fifo0_900_ready)][copied])) = half
      BY <1>1, <1>3, <3>1 DEF BanksHoldThreeHalves
    <3>3. PICK k \in 0 .. copied : Blend(iq_data, copied, k, half)
      BY <3>1
    <3>4. Blend(iq_data', copied', k, half)
      BY <1>5, <3>2, <3>3
    <3>5. k \in 0 .. copied' /\ copied' >= Reached' /\ copied' + slack' >= Reached' + 1
      BY <1>1, <1>2, <1>3, <1>7, <3>1 DEF Words
    <3>6. \E m \in 0 .. copied' : Blend(iq_data', copied', m, half')
      BY <1>1, <3>4, <3>5
    <3>7. Passed'
      BY <1>1, <1>2, <3>1, <3>5, <3>6 DEF Passed
    <3> QED
      BY <3>7
  <2>3. CASE Alone
    <3>1. PICK h \in Tags : Succ(h) = half /\ Blend(iq_data, copied, copied, h)
      BY <2>3 DEF Alone
    <3>2. bank[Bank(rx_fifo0_900_ready)][copied] \in Tags
      <4>1. Bank(rx_fifo0_900_ready) \in {1, 2}
        BY DEF Bank
      <4> QED
        BY <1>1, <1>3, <4>1, Zenon DEF TypeOK
    <3>3. Succ(bank[Bank(rx_fifo0_900_ready)][copied]) = half
      BY <1>1, <1>3, <2>3 DEF BanksHoldThreeHalves, Alone
    <3>4. bank[Bank(rx_fifo0_900_ready)][copied] = h
      BY <3>1, <3>2, <3>3, SuccTag
    <3>5. Blend(iq_data', copied', copied', h)
      BY <1>6, <3>1, <3>4
    <3>6. copied' + slack' >= 2 * Reached' + 2
      <4>1. slack' \in Nat
        BY <1>1, <1>3
      <4>2. copied + slack >= 2 * Reached + 2
        BY <2>3 DEF Alone
      <4>3. copied \in Int /\ slack \in Int /\ copied' \in Int /\ slack' \in Int
            /\ Reached \in Int
        BY <1>3, <4>1 DEF Words
      <4>4. copied' + slack' >= 2 * Reached + 2
        BY <1>7, <4>2, <4>3, AheadStill, Zenon
      <4> QED
        BY <1>2, <4>4, Zenon
    <3>7. Succ(h)' = half'
      BY <1>1, <3>1 DEF Succ
    <3>8. Alone'
      BY <1>1, <1>2, <2>3, <3>1, <3>5, <3>6, <3>7 DEF Alone
    <3> QED
      BY <3>8
  <2> QED
    BY <1>1, <1>3, <2>1, <2>2, <2>3 DEF Seamed, Behind, Words
<1>9. ASSUME isr' = "busy"
      PROVE  \E h \in Tags : \E k \in 0 .. WORDS : Blend(iq_data', WORDS, k, h)
  <2>1. copied' = WORDS /\ WORDS \in 0 .. WORDS
    BY <1>1, <1>9
  <2>2. CASE Behind' \/ Passed'
    BY <1>1, <1>3, <2>1, <2>2 DEF Behind, Passed
  <2>3. CASE Alone'
    BY <2>1, <2>3 DEF Alone
  <2> QED
    BY <1>8, <2>2, <2>3
<1> QED
  BY <1>8, <1>9 DEF Seamed

LEMMA SeamedStep == IInv /\ Seamed /\ [Next]_vars => Seamed'
<1> SUFFICES ASSUME IInv, Seamed, [Next]_vars PROVE Seamed'
  OBVIOUS
<1> USE IqAssumption
<1>1. CASE EXTI1_IRQHandler
  <2>1. /\ isr' = "copy" /\ copied' = 0 /\ rx_fifo0_900_ready' = A1
        /\ iq900_addr' = iq900_addr /\ iq900_addr \in 0 .. 2 * WORDS - 1
    BY <1>1 DEF EXTI1_IRQHandler, IInv, TypeOK
  <2>2. Reached' = Reached /\ A1' = A1 /\ Reached >= 0
    BY <2>1, SMT DEF Reached, Word, A1
  <2>3. Blend(iq_data', 0, 0, half')
    BY DEF Blend
  <2>4. Behind'
    BY <2>1, <2>2, <2>3 DEF Behind
  <2> QED
    BY <2>1, <2>4 DEF Seamed
<1>2. CASE Return
  BY <1>2 DEF Return, Seamed
<1>3. CASE UNCHANGED vars
  <2>1. /\ iq900_addr' = iq900_addr /\ half' = half /\ isr' = isr /\ iq_data' = iq_data
        /\ copied' = copied /\ slack' = slack /\ rx_fifo0_900_ready' = rx_fifo0_900_ready
    BY <1>3 DEF vars
  <2>2. Reached' = Reached /\ A1' = A1
    BY <2>1, Zenon DEF Reached, Word, A1
  <2>3. (Behind' <=> Behind) /\ (Passed' <=> Passed) /\ (Alone' <=> Alone)
    BY <2>1, <2>2, Zenon DEF Behind, Passed, Alone
  <2> QED
    BY <2>1, <2>3, Zenon DEF Seamed
<1> QED
  BY <1>1, <1>2, <1>3, SampleSeamed, CopySeamed DEF Next

(* However late it starts, the handler crosses the FPGA's writing at most  *)
(* once: a block of iq_data has one seam, from the lap under way to the    *)
(* lap before, and never mixes the two.                                    *)
THEOREM IqOneSeam == Spec => []OneSeam
<1>1. Init => Seamed
  BY DEF Init, Seamed
<1>2. IInv /\ Seamed => OneSeam
  <2> SUFFICES ASSUME IInv, Seamed, isr = "busy", NEW i \in Seams
               PROVE  Seams = {i} /\ Succ(Succ(iq_data[i])) = iq_data[i - 1]
    BY DEF OneSeam
  <2> USE IqAssumption
  <2>1. PICK h \in Tags, k \in 0 .. WORDS : Blend(iq_data, WORDS, k, h)
    BY DEF Seamed
  <2>2. \A j \in Words : iq_data[j] \in Tags
    BY DEF IInv, TypeOK
  <2>3. ASSUME NEW j \in Words \ {0}, iq_data[j] # iq_data[j - 1]
        PROVE  j = k
    <3>1. CASE j < k
      <4>1. iq_data[j] = h /\ iq_data[j - 1] = h
        BY <2>1, <2>3, <3>1 DEF Blend, Words
      <4> QED
        BY <2>3, <4>1
    <3>2. CASE j > k
      <4>1. j \in Words /\ j - 1 \in Words /\ j \in k .. WORDS - 1 /\ j - 1 \in k .. WORDS - 1
        BY <2>1, <2>3, <3>2 DEF Words
      <4>2. Succ(Succ(iq_data[j])) = h /\ Succ(Succ(iq_data[j - 1])) = h
        BY <2>1, <4>1 DEF Blend
      <4>3. iq_data[j] = iq_data[j - 1]
        BY <2>2, <4>1, <4>2, SuccTag
      <4> QED
        BY <2>3, <4>3
    <3> QED
      BY <3>1, <3>2 DEF Words
  <2>4. Seams = {i} /\ i = k
    BY <2>3 DEF Seams
  <2>5. i \in k .. WORDS - 1 /\ i - 1 \in 0 .. k - 1
    BY <2>4 DEF Seams, Words
  <2> QED
    BY <2>1, <2>4, <2>5 DEF Blend
<1> QED
  BY <1>1, <1>2, Initially, Inductive, SeamedStep, PTL DEF Spec

-----------------------------------------------------------------------------

(* Two blocks started at their edges in a row are consecutive halves. *)
THEOREM IqGaplessUnlessLate == Spec => GaplessUnlessLate
<1>1. ASSUME IInv, [Next]_vars,
             isr = "idle", isr' = "copy", start = "punctual", start' = "punctual"
      PROVE  bank[Bank(A1)][WORDS - 1] = Succ(iq_data[WORDS - 1])
  <2> USE IqAssumption
  <2>1. EXTI1_IRQHandler
    BY <1>1 DEF Next, Sample, Copy, Return, vars
  <2>2. pending /\ due = "punctual"
    BY <1>1, <2>1 DEF EXTI1_IRQHandler
  <2>3. TypeOK /\ Reached = 0 /\ WORDS - 1 \in Words /\ 0 \in Words
    BY <1>1, <2>2, SMT DEF IInv, TakenAtOnce, Words
  <2>4. Succ(Succ(Succ(iq_data[WORDS - 1]))) = half
    BY <1>1, <2>2, <2>3 DEF IInv, BlockInPlace
  <2>5. Succ(Succ(bank[Bank(A1)][WORDS - 1])) = half
    <3>1. WORDS - 1 >= Reached
      BY <2>3, SMT
    <3> QED
      BY <1>1, <2>3, <3>1 DEF IInv, BanksHoldThreeHalves
  <2>6. Bank(A1) \in {1, 2}
    BY DEF Bank
  <2>7. bank[Bank(A1)][WORDS - 1] \in Tags /\ iq_data[WORDS - 1] \in Tags
    BY <2>3, <2>6, Zenon DEF TypeOK
  <2> QED
    BY <2>4, <2>5, <2>7, SuccTag
<1>2. IInv /\ [Next]_vars =>
        [ (isr = "idle" /\ isr' = "copy" /\ start = "punctual" /\ start' = "punctual") =>
            bank[Bank(A1)][WORDS - 1] = Succ(iq_data[WORDS - 1]) ]_vars
  BY <1>1
<1> QED
  BY <1>2, IqInvariant, PTL DEF Spec, GaplessUnlessLate

=============================================================================
