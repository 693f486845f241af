------------------------------ MODULE AudioFifo ------------------------------
(***************************************************************************)
(* The audio FIFO: a block RAM in the FPGA that the I2S player reads word  *)
(* by word, round and round, and that the microcontroller refills half at  *)
(* a time.  The top bit of the read counter is pin A0; either edge of it   *)
(* raises EXTI0, which reads the pin to tell which half to fill            *)
(* (fpga_top.v, EXTI0_IRQHandler, do_audio_fifo_fill).                     *)
(*                                                                         *)
(* The two bus writes of one iteration are separate: a data write goes to  *)
(* the address latched by the PREVIOUS address write.  So the first sample *)
(* of a refill lands on the last word of the other half.                   *)
(*                                                                         *)
(* The n-th sample the handler sends is tagged n, modulo TAGS.             *)
(***************************************************************************)
EXTENDS Integers

CONSTANTS
  HALF,    \* AUDIO_BUFFER_SIZE / 2, also the iterations of the refill loop (512)
  LATEST,  \* word of a half the player may reach while its refill is running
  TAGS     \* sample numbers are kept modulo TAGS

(* A refill takes well under a millisecond and a half lasts 31, so LATEST  *)
(* is small; what correctness needs is only that the refill is over before *)
(* the player reaches the last word of the half.                           *)
ASSUME FifoAssumption ==
  /\ HALF \in Nat \ {0}
  /\ LATEST \in Nat
  /\ LATEST < HALF - 1
  /\ TAGS \in Nat
  /\ TAGS > 4 * HALF

VARIABLES
  bram, bram_raddr, bram_waddr,
  played,      \* the word last handed to the DAC (left_channel, right_channel)
  pending,     \* the EXTI0 pending bit
  isr,         \* "idle", or the next bus write of the handler
  vi,          \* iterations of the refill loop done
  audio_fifo_addr_offset,
  sent         \* tag of the last sample the handler sent

vars == <<bram, bram_raddr, bram_waddr, played, pending, isr, vi,
          audio_fifo_addr_offset, sent>>

SIZE == 2 * HALF
Words == 0 .. SIZE - 1
JUNK == TAGS     \* what the RAM holds at power-up
Tags == 0 .. TAGS - 1

A0(addr) == addr >= HALF
Succ(tag) == (tag + 1) % TAGS

-----------------------------------------------------------------------------

Init ==
  /\ bram = [a \in Words |-> JUNK]
  /\ bram_raddr \in Words
  /\ bram_waddr = 0
  /\ played = JUNK
  /\ pending = FALSE
  /\ isr = "idle"
  /\ vi = 0
  /\ audio_fifo_addr_offset = 0
  /\ sent = 0

Refilling == pending \/ isr # "idle"

\* Mutant: only the rising edge of A0 interrupts.
Play_RisingOnly ==
  LET next == (bram_raddr + 1) % SIZE
      edge == A0(next) # A0(bram_raddr)
  IN
  /\ Refilling => ~edge /\ next % HALF <= LATEST
  /\ bram_raddr' = next
  /\ played' = bram[next]
  /\ pending' = (pending \/ (edge /\ A0(next)))
  /\ UNCHANGED <<bram, bram_waddr, isr, vi, audio_fifo_addr_offset, sent>>

(* One half frame of I2S: the read counter steps, the word it now points   *)
(* at becomes the sample, and a change of the top bit interrupts.          *)
Play ==
  LET next == (bram_raddr + 1) % SIZE
      edge == A0(next) # A0(bram_raddr)
  IN
  /\ Refilling => ~edge /\ next % HALF <= LATEST
  /\ bram_raddr' = next
  /\ played' = bram[next]
  /\ pending' = (pending \/ edge)
  /\ UNCHANGED <<bram, bram_waddr, isr, vi, audio_fifo_addr_offset, sent>>

\* Mutant: the half being played is the one refilled.
EXTI0_IRQHandler_WrongHalf ==
  /\ pending
  /\ isr = "idle"
  /\ pending' = FALSE
  /\ audio_fifo_addr_offset' = IF A0(bram_raddr) THEN HALF ELSE 0
  /\ vi' = 0
  /\ isr' = "data"
  /\ UNCHANGED <<bram, bram_raddr, bram_waddr, played, sent>>

(* The pending bit is cleared before the pin is read. *)
EXTI0_IRQHandler ==
  /\ pending
  /\ isr = "idle"
  /\ pending' = FALSE
  /\ audio_fifo_addr_offset' = IF A0(bram_raddr) THEN 0 ELSE HALF
  /\ vi' = 0
  /\ isr' = "data"
  /\ UNCHANGED <<bram, bram_raddr, bram_waddr, played, sent>>

(* *audio_ptr = sample: the FPGA stores it at the address latched last.    *)
WriteData ==
  /\ isr = "data"
  /\ sent' = Succ(sent)
  /\ bram' = [bram EXCEPT ![bram_waddr] = sent']
  /\ isr' = "addr"
  /\ UNCHANGED <<bram_raddr, bram_waddr, played, pending, vi, audio_fifo_addr_offset>>

\* Mutant: the loop runs one iteration too far.
WriteAddress_OneMore ==
  /\ isr = "addr"
  /\ bram_waddr' = audio_fifo_addr_offset % SIZE
  /\ audio_fifo_addr_offset' = audio_fifo_addr_offset + 1
  /\ vi' = vi + 1
  /\ isr' = IF vi = HALF THEN "idle" ELSE "data"
  /\ UNCHANGED <<bram, bram_raddr, played, pending, sent>>

(* *audio_addr_ptr = audio_fifo_addr_offset++, of which the FPGA keeps the *)
(* low ten bits, and the loop test.                                        *)
WriteAddress ==
  /\ isr = "addr"
  /\ bram_waddr' = audio_fifo_addr_offset % SIZE
  /\ audio_fifo_addr_offset' = audio_fifo_addr_offset + 1
  /\ vi' = vi + 1
  /\ isr' = IF vi' = HALF THEN "idle" ELSE "data"
  /\ UNCHANGED <<bram, bram_raddr, played, pending, sent>>

Refill == EXTI0_IRQHandler \/ WriteData \/ WriteAddress

Next == Play \/ Refill

Spec == Init /\ [][Next]_vars /\ WF_vars(Play) /\ WF_vars(Refill)

-----------------------------------------------------------------------------
(* The write address is always inside the RAM, and the refill loop's       *)
(* counters agree with each other.                                         *)
TypeOK ==
  /\ bram \in [Words -> Tags \cup {JUNK}]
  /\ bram_raddr \in Words
  /\ bram_waddr \in Words
  /\ played \in Tags \cup {JUNK}
  /\ pending \in BOOLEAN
  /\ isr \in {"idle", "data", "addr"}
  /\ vi \in 0 .. HALF
  /\ audio_fifo_addr_offset \in {vi, vi + HALF}
  /\ sent \in Tags

(* Whatever the handler sends is heard once, in order and without a gap,   *)
(* although every refill is shifted by one word: the word each refill      *)
(* leaves behind is completed by the next one before the player reaches    *)
(* it, and no store, the shifted one included, hits the word under the     *)
(* read pointer and cuts it off in the middle of its half frame.           *)
PlayedWholeInOrder ==
  [][ played # JUNK => /\ bram_raddr' # bram_raddr => played' = Succ(played)
                       /\ bram' # bram => bram_waddr # bram_raddr ]_vars

(* The player never starves: real samples are heard for ever.              *)
EventuallySound == <>[](played # JUNK)

=============================================================================
