------------------------------- MODULE VoicePath -------------------------------
(***************************************************************************)
(* The voice path from the decoder to the ear: AudioRing and AudioFifo     *)
(* with the interrupt that is in both.  EXTI0 takes from the ring the      *)
(* words it sends to the FPGA; it preempts the main loop, which is at rest *)
(* until the last of them is written, so that all are taken in its first   *)
(* step.  The FIFO's tags number the words sent, samples and silence alike;*)
(* word says what the tag stands for.                                      *)
(***************************************************************************)
EXTENDS Integers

CONSTANTS
  OUT_BUFFER_SIZE, PLAY_MARK, FRAMES, MAX_WRITTEN,  \* see AudioRing
  HALF, LATEST, TAGS                                \* see AudioFifo

SILENCE == -1
SLUR == -2

VARIABLES
  out_buffer, out_s, out_e, is_playing, audio_on, pc, left, written, read, stream,
  bram, bram_raddr, bram_waddr, played, pending, isr, vi, audio_fifo_addr_offset, sent,
  word,    \* history: what was sent under a tag, a sample's number or SILENCE
  heard,   \* history: words other than silence played, counted while clean
  slurred  \* history: samples taken before they were stored

R == INSTANCE AudioRing WITH FILL <- HALF
F == INSTANCE AudioFifo

(* The ring is refilled by halves of the RAM: FILL is HALF.                *)
ASSUME PathAssumption == R!RingAssumption /\ F!FifoAssumption

ring == <<out_buffer, out_s, out_e, is_playing, audio_on, pc, left, written, read, stream>>
fifo == <<bram, bram_raddr, bram_waddr, played, pending, isr, vi, audio_fifo_addr_offset, sent>>
vars == <<ring, fifo, word, heard, slurred>>

(* What a word of the RAM sounds like.  At power-up it is noise, which is  *)
(* not voice.                                                              *)
Sounds(tag) == IF tag = F!JUNK THEN SILENCE ELSE word[tag]

-----------------------------------------------------------------------------

Init ==
  /\ R!Init
  /\ F!Init
  /\ word = [t \in F!Tags |-> SILENCE]
  /\ heard = 0
  /\ slurred = {}

(* The main loop: decoder and console.  The FIFO is running, with silence, *)
(* long before the receiver has found a first frame: it takes one turn of  *)
(* the RAM, 62 ms, to replace what was in it at power-up.                  *)
Decoder ==
  /\ isr = "idle"
  /\ played # F!JUNK
  /\ \/ \E n \in FRAMES : R!Frame(n)
     \/ R!MainLoop
     \/ R!EndOfCall
     \/ \E on \in BOOLEAN : R!SetAudio(on)
  /\ UNCHANGED <<fifo, word, heard, slurred>>

\* Mutant: the index is incremented before it is used.
Sent_NextSlot(k, n) == IF n <= k THEN out_buffer[R!Mask(out_s + n)] ELSE SILENCE

(* The n-th word of a refill that takes k samples. *)
Sent(k, n) == IF n <= k THEN out_buffer[R!Mask(out_s + n - 1)] ELSE SILENCE

(* EXTI0 begins: the half is chosen, and what goes into it.                *)
Interrupt ==
  /\ F!EXTI0_IRQHandler
  /\ R!Fill
  /\ \E k \in 0 .. HALF :
       /\ R!Takes(k)
       /\ word' = [t \in F!Tags |->
            LET n == (t - sent) % TAGS
            IN  CASE n \in 1 .. HALF -> Sent(k, n)
                  [] n = 0 \/ n > TAGS - F!SIZE -> word[t]
                  [] OTHER -> SILENCE]    \* no longer in the RAM
       /\ slurred' = IF pc = "late" /\ k > 0 /\ read + k >= written
                       THEN slurred \cup {written} ELSE slurred
  /\ UNCHANGED heard

(* EXTI0 goes on: the words are written into the half, one by one.         *)
Refill ==
  /\ F!WriteData \/ F!WriteAddress
  /\ UNCHANGED <<ring, word, heard, slurred>>

(* The player moves on to the next word. *)
Play ==
  /\ F!Play
  /\ heard' = IF R!intact /\ Sounds(played') # SILENCE THEN heard + 1 ELSE heard
  /\ UNCHANGED <<ring, word, slurred>>

Next == Decoder \/ Interrupt \/ Refill \/ Play

Spec == Init /\ [][Next]_vars

-----------------------------------------------------------------------------
(* The path implements the channel.  A word is slurred when it is not the  *)
(* sample whose turn it is.                                                *)
Sound ==
  IF Sounds(played) \in {SILENCE, heard} THEN Sounds(played) ELSE SLUR

Channel == INSTANCE VoiceChannel WITH made <- written, sound <- Sound

(* From process_mbe to the DAC, through a ring without a lock and a RAM    *)
(* refilled one word off: every sample is heard once, in order, unless the *)
(* ring was spoiled.                                                       *)
ImplementsChannel == Channel!Spec

=============================================================================
