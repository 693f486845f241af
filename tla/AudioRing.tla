------------------------------ MODULE AudioRing ------------------------------
(***************************************************************************)
(* The ring out_buffer that carries decoded voice from the main loop       *)
(* (process_mbe, p25/p25_decode.c) to the audio interrupt (EXTI0,          *)
(* do_audio_fifo_fill, fpga.c).  There is no lock and no "full" test: the  *)
(* main loop is preempted between any two of its volatile accesses, and    *)
(* the interrupt runs to completion before the main loop goes on.  (EXTI1  *)
(* preempts both, but touches none of this state.)                         *)
(*                                                                         *)
(* Samples are numbered 1, 2, 3, ... in the order the decoder makes them;  *)
(* a slot of the ring holds the number of the sample last stored there,    *)
(* and 0 before the first lap.                                             *)
(***************************************************************************)
EXTENDS Integers

CONSTANTS
  OUT_BUFFER_SIZE, \* slots in the ring (16384)
  FILL,            \* samples written to the FPGA per interrupt (512)
  PLAY_MARK,       \* the 1024 of process_mbe
  FRAMES,          \* lengths upsample_audio can return for one frame (about 325)
  MAX_WRITTEN      \* bound on the number of samples produced

ASSUME RingAssumption ==
  /\ OUT_BUFFER_SIZE \in Nat \ {0}
  /\ FILL \in Nat \ {0}
  /\ FILL < OUT_BUFFER_SIZE
  /\ PLAY_MARK \in Nat \ {0}
  /\ FRAMES \subseteq Nat \ {0}
  /\ MAX_WRITTEN \in Nat

VARIABLES
  out_buffer, out_s, out_e, is_playing,
  audio_on,   \* config->audio_on
  pc,         \* where the main loop stands inside process_mbe
  left,       \* samples of the frame still to be stored (n - i)
  written,    \* history: samples whose out_e++ has taken effect
  read,       \* history: samples consumed by the interrupt, counted while intact
  stream      \* history: "spoiled" once a sample was lapped or read before it was made

producer == <<out_e, pc, left, written>>
vars == <<out_buffer, out_s, out_e, is_playing, audio_on, pc, left, written, read, stream>>

intact == stream = "clean"

Slots == 0 .. OUT_BUFFER_SIZE - 1

(* x & (OUT_BUFFER_SIZE-1) for an index less than two laps ahead. *)
Mask(x) == IF x >= OUT_BUFFER_SIZE THEN x - OUT_BUFFER_SIZE ELSE x

(* (a ^ b) >= PLAY_MARK, PLAY_MARK a power of two: they differ in a bit at *)
(* or above the mark.                                                      *)
XorReaches(a, b) == a \div PLAY_MARK # b \div PLAY_MARK

-----------------------------------------------------------------------------

Init ==
  /\ out_buffer = [i \in Slots |-> 0]
  /\ out_s = 0
  /\ out_e = 0
  /\ is_playing = FALSE
  /\ audio_on = TRUE
  /\ pc = "idle"
  /\ left = 0
  /\ written = 0
  /\ read = 0
  /\ stream = "clean"

(* A clear voice frame: the playing test, then n samples to store.  The    *)
(* test is made before the frame is stored, and of the two indices only    *)
(* out_s can change under it.                                              *)
Frame(n) ==
  /\ pc = "idle"
  /\ written + n <= MAX_WRITTEN
  /\ is_playing' = (is_playing \/ XorReaches(out_e, out_s))
  /\ left' = n
  /\ pc' = "store"
  /\ UNCHANGED <<out_buffer, out_s, out_e, audio_on, written, read, stream>>

(* out_buffer[out_e++] = upsampled[i]: two volatile stores that the C      *)
(* standard leaves unordered.  Either the sample goes first ...            *)
StoreThenBump ==
  /\ pc = "store"
  /\ out_buffer' = [out_buffer EXCEPT ![out_e] = written + 1]
  /\ pc' = "bump"
  /\ UNCHANGED <<out_s, out_e, is_playing, audio_on, left, written, read, stream>>

(* The index becomes visible; the ring is broken if it laps the reader.    *)
Bump(next) ==
  /\ out_e' = out_e + 1
  /\ written' = written + 1
  /\ pc' = next
  /\ stream' = IF written' - read < OUT_BUFFER_SIZE THEN stream ELSE "spoiled"
  /\ UNCHANGED <<out_buffer, out_s, is_playing, audio_on, left, read>>

BumpAfterStore == pc = "bump" /\ Bump("mask")

(* ... or the index does, and the sample follows. *)
BumpBeforeStore == pc = "store" /\ Bump("late")

\* Mutant: the address is taken after the increment.
LateStore_AtNewIndex ==
  /\ pc = "late"
  /\ out_buffer' = [out_buffer EXCEPT ![Mask(out_e)] = written]
  /\ pc' = "mask"
  /\ UNCHANGED <<out_s, out_e, is_playing, audio_on, left, written, read, stream>>

LateStore ==
  /\ pc = "late"
  /\ out_buffer' = [out_buffer EXCEPT ![out_e - 1] = written]
  /\ pc' = "mask"
  /\ UNCHANGED <<out_s, out_e, is_playing, audio_on, left, written, read, stream>>

\* Mutant: the index is not masked.
MaskEnd_NoMask ==
  /\ pc = "mask"
  /\ left' = left - 1
  /\ pc' = IF left = 1 THEN "idle" ELSE "store"
  /\ UNCHANGED <<out_buffer, out_s, out_e, is_playing, audio_on, written, read, stream>>

(* out_e &= OUT_BUFFER_SIZE-1, and the loop test. *)
MaskEnd ==
  /\ pc = "mask"
  /\ out_e' = Mask(out_e)
  /\ left' = left - 1
  /\ pc' = IF left = 1 THEN "idle" ELSE "store"
  /\ UNCHANGED <<out_buffer, out_s, is_playing, audio_on, written, read, stream>>

(* End of a transmission: the TDULC frame starts playback whatever is buffered. *)
EndOfCall ==
  /\ pc = "idle"
  /\ is_playing' = TRUE
  /\ UNCHANGED <<out_buffer, out_s, out_e, audio_on, pc, left, written, read, stream>>

(* The "audio 0|1" console command. *)
SetAudio(on) ==
  /\ pc = "idle"
  /\ audio_on' = on
  /\ UNCHANGED <<out_buffer, out_s, out_e, is_playing, pc, left, written, read, stream>>

\* Mutant: the test for an empty ring is forgotten.
Silent_NoEmptyTest(k) == ~is_playing \/ ~audio_on

(* The interrupt's loop has taken k samples when it finds nothing to take. *)
Silent(k) == ~is_playing \/ ~audio_on \/ Mask(out_s + k) = out_e

\* Mutant: one iteration short.
Takes_OneShort(k) ==
  /\ k = FILL - 1 \/ Silent(k)
  /\ \A j \in 0 .. k - 1 : ~Silent(j)

(* It ends after FILL words, and once silent stays silent. *)
Takes(k) ==
  /\ k = FILL \/ Silent(k)
  /\ \A j \in 0 .. k - 1 : ~Silent(j)

\* Mutant: the disabled line "if(out_s==out_e) is_playing=0" comes back.
Fill_StopsWhenEmpty ==
  \E k \in 0 .. FILL :
    /\ Takes(k)
    /\ out_s' = Mask(out_s + k)
    /\ stream' = IF read + k <= written THEN stream ELSE "spoiled"
    /\ read' = IF stream' = "clean" THEN read + k ELSE read
    /\ is_playing' = (is_playing /\ Mask(out_s + k) # out_e)
    /\ UNCHANGED <<out_buffer, out_e, audio_on, pc, left, written>>

(* EXTI0: FILL words to the FPGA, samples first and then silence. *)
Fill ==
  \E k \in 0 .. FILL :
    /\ Takes(k)
    /\ out_s' = Mask(out_s + k)
    /\ stream' = IF read + k <= written THEN stream ELSE "spoiled"
    /\ read' = IF stream' = "clean" THEN read + k ELSE read
    /\ UNCHANGED <<out_buffer, out_e, is_playing, audio_on, pc, left, written>>

MainLoop ==
  \/ StoreThenBump \/ BumpAfterStore
  \/ BumpBeforeStore \/ LateStore
  \/ MaskEnd

Next ==
  \/ \E n \in FRAMES : Frame(n)
  \/ MainLoop
  \/ EndOfCall
  \/ \E on \in BOOLEAN : SetAudio(on)
  \/ Fill

(* The FPGA raises the interrupt at every half buffer for as long as it is *)
(* powered, and an interrupted main loop is always resumed.                *)
Spec == Init /\ [][Next]_vars /\ WF_vars(MainLoop) /\ WF_vars(Fill)

-----------------------------------------------------------------------------
(* Every index used on out_buffer is inside the array: out_e may stand at  *)
(* OUT_BUFFER_SIZE only between its increment and its mask.                *)
TypeOK ==
  /\ out_buffer \in [Slots -> Nat]
  /\ out_s \in Slots
  /\ pc \in {"idle", "store", "bump", "late", "mask"}
  /\ out_e \in 0 .. OUT_BUFFER_SIZE
  /\ IF pc \in {"late", "mask"} THEN out_e > 0 ELSE out_e < OUT_BUFFER_SIZE
  /\ is_playing \in BOOLEAN
  /\ audio_on \in BOOLEAN
  /\ left \in Nat
  /\ (pc # "idle") => left > 0
  /\ written \in Nat
  /\ read \in Nat
  /\ stream \in {"clean", "spoiled"}

Backlog == written - read

(* The sample whose index is published but whose value is not stored yet.  *)
Pending(n) == pc = "late" /\ n = written

(* While the ring is intact the two indices and the slots between them are *)
(* exactly the samples made and not yet taken, oldest first.               *)
RingHoldsBacklog ==
  intact =>
    /\ Backlog \in 0 .. OUT_BUFFER_SIZE - 1
    /\ Mask(out_e) = Mask(out_s + Backlog)
    /\ \A j \in 0 .. Backlog - 1 :
         \/ out_buffer[Mask(out_s + j)] = read + j + 1
         \/ Pending(read + j + 1)

(* do_audio_fifo_fill on an intact ring plays the oldest samples in order, *)
(* and as many as are there, up to a full half buffer; the one sample that *)
(* can be wrong is one published before it is stored.                      *)
FillInOrder ==
  [][ (intact /\ intact' /\ read' # read) =>
        /\ read' - read = IF Backlog < FILL THEN Backlog ELSE FILL
        /\ \A j \in 0 .. read' - read - 1 :
             \/ out_buffer[Mask(out_s + j)] = read + j + 1
             \/ Pending(read + j + 1) ]_vars

(* There are only two ways to spoil the stream: the interrupt falls        *)
(* between out_e++ and its mask at the very end of the array, while the    *)
(* ring holds less than a half buffer (out_s can then never meet out_e);   *)
(* or the producer, which has no full test, laps the reader.               *)
SpoiledOnlyByWrapOrLap ==
  [][ (intact /\ ~intact') =>
        \/ out_e = OUT_BUFFER_SIZE /\ Backlog < FILL /\ UNCHANGED producer
        \/ Backlog = OUT_BUFFER_SIZE - 1 /\ UNCHANGED <<out_s, read>> ]_vars

(* With audio left on, once playback has started every sample is eventually *)
(* played: no tail shorter than PLAY_MARK is stranded between two calls.    *)
EverySampleHeard ==
  <>[]audio_on =>
    \A x \in 1 .. MAX_WRITTEN :
      [](is_playing => [](written >= x => <>(read >= x \/ ~intact)))

=============================================================================
