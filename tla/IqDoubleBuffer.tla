---------------------------- MODULE IqDoubleBuffer ----------------------------
(***************************************************************************)
(* The two I/Q banks between the FPGA and EXTI1_IRQHandler.  The FPGA      *)
(* writes one sample after the other, half a lap into bank 1 (while the    *)
(* top address bit, pin A1, is high) and half a lap into bank 2; either    *)
(* edge of A1 raises EXTI1, and the handler copies bank 1 if it finds the  *)
(* pin high, bank 2 if it finds it low.  That is the bank being WRITTEN:   *)
(* what it copies is the previous lap, read just ahead of the writer.      *)
(* (The ports of the memories say the other bank is the readable one, but  *)
(* the body of bram_256_16_dual ignores ren.)                              *)
(*                                                                         *)
(* The halves of the stream are numbered modulo HALVES; a word of a bank   *)
(* or of iq_data holds the number of the half its sample belongs to.       *)
(***************************************************************************)
EXTENDS Integers

CONSTANTS
  WORDS,  \* I/Q words in a bank (256)
  SPEED,  \* words the handler copies between two samples, at least
  HALVES  \* half numbers are kept modulo HALVES

(* Reading a word over the bus takes a fraction of a sample period.  That  *)
(* is all that is assumed of the processor: how long a handler spends on   *)
(* the block once it is copied is left open.                               *)
ASSUME IqAssumption ==
  /\ WORDS \in Nat \ {0}
  /\ SPEED \in Nat
  /\ SPEED >= 2
  /\ HALVES \in Nat
  /\ HALVES >= 4

VARIABLES
  iq900_addr, half, bank,
  pending,   \* the EXTI1 pending bit
  isr,       \* "idle", "copy" (in memcpy) or "busy" (in what follows it)
  rx_fifo0_900_ready,
  iq_data,
  copied,    \* words of iq_data copied
  slack,     \* words certain to be copied before the next sample comes
  due,       \* history: was the processor free at the last edge of A1?
  start      \* history: that, for the block in iq_data

fpga == <<iq900_addr, half, bank>>
vars == <<iq900_addr, half, bank, pending, isr, rx_fifo0_900_ready, iq_data,
          copied, slack, due, start>>

Words == 0 .. WORDS - 1
Tags == 0 .. HALVES - 1
Succ(h) == IF h = HALVES - 1 THEN 0 ELSE h + 1

A1 == iq900_addr >= WORDS
Bank(a1) == IF a1 THEN 1 ELSE 2
Word(addr) == IF addr >= WORDS THEN addr - WORDS ELSE addr

-----------------------------------------------------------------------------

(* EXTI1 is enabled after the FPGA has been running for more than a lap:   *)
(* halves 0 and 1 are complete, half 2 is being written to bank 2.         *)
Init ==
  /\ iq900_addr \in Words
  /\ half = 2
  /\ bank = [b \in {1, 2} |->
               [i \in Words |-> IF b = 1 THEN 1 ELSE IF i < iq900_addr THEN 2 ELSE 0]]
  /\ pending = FALSE
  /\ isr = "idle"
  /\ rx_fifo0_900_ready = FALSE
  /\ iq_data = [i \in Words |-> 0]
  /\ copied = 0
  /\ slack = 0
  /\ due = "punctual"
  /\ start = "late"

(* A processor free to do so takes an interrupt and copies at least SPEED  *)
(* words from one sample to the next.                                      *)
SampleMayCome ==
  /\ isr = "idle" => ~pending
  /\ isr = "copy" => slack = 0

\* Mutant: only the rising edge of A1 interrupts.
Sample_RisingOnly ==
  LET next == IF iq900_addr + 1 = 2 * WORDS THEN 0 ELSE iq900_addr + 1
      edge == (next >= WORDS) # A1
  IN
  /\ SampleMayCome
  /\ bank' = [bank EXCEPT ![Bank(A1)][Word(iq900_addr)] = half]
  /\ iq900_addr' = next
  /\ half' = IF edge THEN Succ(half) ELSE half
  /\ pending' = (pending \/ (edge /\ next >= WORDS))
  /\ due' = IF edge THEN IF isr = "idle" THEN "punctual" ELSE "late" ELSE due
  /\ slack' = IF isr = "busy" THEN 0 ELSE SPEED
  /\ UNCHANGED <<isr, rx_fifo0_900_ready, iq_data, copied, start>>

(* rf900_data is stored at the current address, which then advances.       *)
Sample ==
  LET next == IF iq900_addr + 1 = 2 * WORDS THEN 0 ELSE iq900_addr + 1
      edge == (next >= WORDS) # A1
  IN
  /\ SampleMayCome
  /\ bank' = [bank EXCEPT ![Bank(A1)][Word(iq900_addr)] = half]
  /\ iq900_addr' = next
  /\ half' = IF edge THEN Succ(half) ELSE half
  /\ pending' = (pending \/ edge)
  /\ due' = IF edge THEN IF isr = "idle" THEN "punctual" ELSE "late" ELSE due
  /\ slack' = IF isr = "busy" THEN 0 ELSE SPEED
  /\ UNCHANGED <<isr, rx_fifo0_900_ready, iq_data, copied, start>>

(* The pending bit is cleared, then the pin is read. *)
EXTI1_IRQHandler ==
  /\ isr = "idle"
  /\ pending
  /\ pending' = FALSE
  /\ rx_fifo0_900_ready' = A1
  /\ isr' = "copy"
  /\ copied' = 0
  /\ start' = due
  /\ UNCHANGED <<iq900_addr, half, bank, iq_data, slack, due>>

\* Mutant: from the last word down.
Copy_Descending ==
  LET word == WORDS - 1 - copied IN
  /\ isr = "copy"
  /\ iq_data' = [iq_data EXCEPT ![word] = bank[Bank(rx_fifo0_900_ready)][word]]
  /\ copied' = copied + 1
  /\ slack' = IF slack = 0 THEN 0 ELSE slack - 1
  /\ isr' = IF copied + 1 = WORDS THEN "busy" ELSE "copy"
  /\ UNCHANGED <<iq900_addr, half, bank, pending, rx_fifo0_900_ready, due, start>>

\* Mutant: the pin is read again for every word.
Copy_RereadsPin ==
  /\ isr = "copy"
  /\ iq_data' = [iq_data EXCEPT ![copied] = bank[Bank(A1)][copied]]
  /\ copied' = copied + 1
  /\ slack' = IF slack = 0 THEN 0 ELSE slack - 1
  /\ isr' = IF copied + 1 = WORDS THEN "busy" ELSE "copy"
  /\ UNCHANGED <<iq900_addr, half, bank, pending, rx_fifo0_900_ready, due, start>>

\* Mutant: one word too many.
Copy_OneMore ==
  /\ isr = "copy"
  /\ iq_data' = [iq_data EXCEPT ![copied] = bank[Bank(rx_fifo0_900_ready)][copied % WORDS]]
  /\ copied' = copied + 1
  /\ slack' = IF slack = 0 THEN 0 ELSE slack - 1
  /\ isr' = IF copied = WORDS THEN "busy" ELSE "copy"
  /\ UNCHANGED <<iq900_addr, half, bank, pending, rx_fifo0_900_ready, due, start>>

(* One word of the memcpy. *)
Copy ==
  /\ isr = "copy"
  /\ iq_data' = [iq_data EXCEPT ![copied] = bank[Bank(rx_fifo0_900_ready)][copied]]
  /\ copied' = copied + 1
  /\ slack' = IF slack = 0 THEN 0 ELSE slack - 1
  /\ isr' = IF copied + 1 = WORDS THEN "busy" ELSE "copy"
  /\ UNCHANGED <<iq900_addr, half, bank, pending, rx_fifo0_900_ready, due, start>>

(* udp_send_response_iq900 or process_incoming_rf is done with the block.  *)
Return ==
  /\ isr = "busy"
  /\ isr' = "idle"
  /\ slack' = 0
  /\ UNCHANGED <<iq900_addr, half, bank, pending, rx_fifo0_900_ready, iq_data,
                 copied, due, start>>

Next == Sample \/ EXTI1_IRQHandler \/ Copy \/ Return

Spec == Init /\ [][Next]_vars

-----------------------------------------------------------------------------
(* The addresses stay inside the banks and the block. *)
TypeOK ==
  /\ iq900_addr \in 0 .. 2 * WORDS - 1
  /\ half \in Tags
  /\ bank \in [{1, 2} -> [Words -> Tags]]
  /\ pending \in BOOLEAN
  /\ isr \in {"idle", "copy", "busy"}
  /\ rx_fifo0_900_ready \in BOOLEAN
  /\ iq_data \in [Words -> Tags]
  /\ copied \in 0 .. WORDS
  /\ isr = "copy" => copied < WORDS
  /\ slack \in 0 .. SPEED
  /\ due \in {"punctual", "late"}
  /\ start \in {"punctual", "late"}

(* When the processor was free at the edge of A1, the block it hands on is *)
(* one whole half of the stream, and the oldest of the three in the banks  *)
(* for as long as the next edge has not come.                              *)
WholeUnlessLate ==
  (isr = "busy" /\ start = "punctual") =>
    /\ \A i \in Words : iq_data[i] = iq_data[0]
    /\ ~pending => Succ(Succ(iq_data[0])) = half

(* However late the handler is, a block has at most one seam: samples of   *)
(* the lap under way first, then samples of the lap before, never the      *)
(* reverse and never the two interleaved.                                  *)
Seams == { i \in Words \ {0} : iq_data[i] # iq_data[i - 1] }
OneSeam ==
  isr = "busy" =>
    \A i \in Seams :
      /\ Seams = {i}
      /\ Succ(Succ(iq_data[i])) = iq_data[i - 1]

(* Two blocks in a row that were both started at once are consecutive      *)
(* halves: no block is lost, repeated or swapped while the handler keeps   *)
(* up, whatever happened before.                                           *)
GaplessUnlessLate ==
  [][ (isr = "idle" /\ isr' = "copy" /\ start = "punctual" /\ start' = "punctual") =>
        bank[Bank(A1)][WORDS - 1] = Succ(iq_data[WORDS - 1]) ]_vars

=============================================================================
