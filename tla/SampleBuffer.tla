----------------------------- MODULE SampleBuffer -----------------------------
(***************************************************************************)
(* in_buffer, between its two producers and the main loop (Src/main.c).    *)
(* process_incoming_rf appends demodulated samples inside EXTI1 and cannot *)
(* be interrupted; udp_data_rx appends the bytes of a datagram from within *)
(* the main loop (MX_LWIP_Process); the main loop empties the buffer into  *)
(* in_buffer_tmp.  Nothing masks EXTI1 meanwhile, and in_buffer_len is not *)
(* volatile, so the module also lets the build keep it in a register where *)
(* an optimising compiler may:                                             *)
(*   build.hoisted  udp_data_rx loads it once per datagram, not per byte;  *)
(*   build.reload   the main loop loads it again between its test and the  *)
(*                  assignment of ii_len.                                  *)
(* in_buffer_len -= ii_len right after ii_len = in_buffer_len is a store   *)
(* of zero in every build with optimisation (the Makefile's -O2).          *)
(*                                                                         *)
(* The bytes stored are numbered 1, 2, 3, ... in the order of their        *)
(* stores; a byte of a buffer holds the number of the one stored there.    *)
(***************************************************************************)
EXTENDS Integers

CONSTANTS
  CAP,        \* sizeof in_buffer (24000)
  CHUNKS,     \* values of ch_ny, samples per I/Q block
  DATAGRAMS,  \* lengths of the datagrams on port 8889, those of 10 bytes or less left out
  MAX_MADE    \* bound on the number of bytes stored

ASSUME BufferAssumption ==
  /\ CAP \in Nat
  /\ CHUNKS \subseteq Nat \ {0}
  /\ DATAGRAMS \subseteq Nat \ {0}
  /\ MAX_MADE \in Nat

VARIABLES
  in_buffer, in_buffer_len, in_buffer_tmp,
  ii_len,
  copied,   \* bytes of in_buffer_tmp copied
  pc,       \* where the main loop stands
  reg,      \* udp_data_rx's copy of in_buffer_len
  left,     \* bytes of the datagram still to be stored
  build,
  made,     \* history: bytes stored so far
  mark,     \* history: made when in_buffer_len was last zeroed
  from,     \* history: and the time before
  hit,      \* history: was something stored between a load and the use of what was loaded?
  echo      \* history: does the last datagram sent hold the samples just made?

shared == <<in_buffer, in_buffer_len>>
batch == <<in_buffer_tmp, ii_len, copied>>
udp == <<reg, left>>
vars == <<in_buffer, in_buffer_len, in_buffer_tmp, ii_len, copied, pc, reg, left,
          build, made, mark, from, hit, echo>>

Bytes == 0 .. CAP - 1

-----------------------------------------------------------------------------

Init ==
  /\ in_buffer = [i \in Bytes |-> 0]
  /\ in_buffer_len = 0
  /\ in_buffer_tmp = [i \in Bytes |-> 0]
  /\ ii_len = 0
  /\ copied = 0
  /\ pc = "loop"
  /\ reg = 0
  /\ left = 0
  /\ build \in [hoisted : BOOLEAN, reload : BOOLEAN]
  /\ made = 0
  /\ mark = 0
  /\ from = 0
  /\ hit = "no"
  /\ echo = "product"

(* The main loop has loaded in_buffer_len and not used it yet. *)
Exposed == pc \in {"reset", "copy", "byte", "publish"}

\* Mutant: one free byte is enough.
Room_OneByte(n) == IF 2 * n <= CAP - in_buffer_len THEN 2 * n
                   ELSE 2 * ((CAP + 1 - in_buffer_len) \div 2)

(* Bytes of n samples that fit: each is stored if two bytes are free.      *)
Room(n) == IF 2 * n <= CAP - in_buffer_len THEN 2 * n
           ELSE 2 * ((CAP - in_buffer_len) \div 2)

\* Mutant: the length counts samples.
Advance_CountsSamples(stored) == in_buffer_len + stored \div 2

(* in_buffer_len++ for each byte stored. *)
Advance(stored) == in_buffer_len + stored

(* EXTI1 with sa_mode 0: the samples (or the squelch's zeros) are stored   *)
(* while there is room, and then 2n bytes from where the first of them     *)
(* would go are sent to the UDP peer.                                      *)
Append(n) ==
  LET stored == Room(n) IN
  /\ made + stored + left <= MAX_MADE
  /\ in_buffer' = [i \in Bytes |->
       IF i \in in_buffer_len .. in_buffer_len + stored - 1
         THEN made + 1 + i - in_buffer_len ELSE in_buffer[i]]
  /\ in_buffer_len' = Advance(stored)
  /\ made' = made + stored
  /\ hit' = IF Exposed /\ stored > 0 THEN "yes" ELSE hit
  /\ echo' = IF \A j \in 0 .. 2 * n - 1 :
                  /\ in_buffer_len + j \in Bytes
                  /\ in_buffer'[in_buffer_len + j] = made + 1 + j
               THEN "product" ELSE "other"
  /\ UNCHANGED <<batch, pc, udp, build, mark, from>>

-----------------------------------------------------------------------------
(* udp_data_rx. *)

(* A datagram that fits is accepted, others are dropped. *)
Datagram(n) ==
  /\ pc = "loop"
  /\ in_buffer_len + n < CAP
  /\ made + n <= MAX_MADE
  /\ left' = n
  /\ reg' = in_buffer_len
  /\ pc' = IF build.hoisted THEN "byte" ELSE "load_len"
  /\ UNCHANGED <<shared, batch, build, made, mark, from, hit, echo>>

LoadLen ==
  /\ pc = "load_len"
  /\ reg' = in_buffer_len
  /\ pc' = "byte"
  /\ UNCHANGED <<shared, batch, left, build, made, mark, from, hit, echo>>

(* if( in_buffer_len < sizeof( in_buffer ) ) in_buffer[...] = *ptr++       *)
Byte ==
  /\ pc = "byte"
  /\ left > 0
  /\ left' = left - 1
  /\ IF reg < CAP
       THEN /\ in_buffer' = [in_buffer EXCEPT ![reg] = made + 1]
            /\ reg' = reg + 1
            /\ made' = made + 1
       ELSE UNCHANGED <<in_buffer, reg, made>>
  /\ pc' = IF build.hoisted /\ left > 1 THEN "byte" ELSE "publish"
  /\ UNCHANGED <<in_buffer_len, batch, build, mark, from, hit, echo>>

(* in_buffer_len++, after each byte or once for all. *)
Publish ==
  /\ pc = "publish"
  /\ in_buffer_len' = reg
  /\ pc' = IF left = 0 THEN "loop" ELSE "load_len"
  /\ UNCHANGED <<in_buffer, batch, udp, build, made, mark, from, hit, echo>>

-----------------------------------------------------------------------------
(* The main loop. *)

Ready == in_buffer_len > 0 /\ in_buffer_len % 2 = 0

(* The test fails: on to main_tick, command_tick and round again. *)
NotReady ==
  /\ pc = "loop"
  /\ ~Ready
  /\ UNCHANGED vars

Test ==
  /\ pc = "loop"
  /\ Ready
  /\ ii_len' = in_buffer_len
  /\ pc' = IF build.reload THEN "load" ELSE "reset"
  /\ UNCHANGED <<shared, in_buffer_tmp, copied, udp, build, made, mark, from, hit, echo>>

Load ==
  /\ pc = "load"
  /\ ii_len' = in_buffer_len
  /\ pc' = "reset"
  /\ UNCHANGED <<shared, in_buffer_tmp, copied, udp, build, made, mark, from, hit, echo>>

\* Mutant: the subtraction is carried out on what in_buffer_len has become.
Emptied_Subtract == in_buffer_len - ii_len

\* Mutant: the length is not reset.
Emptied_Forgotten == in_buffer_len

(* in_buffer_len -= ii_len, a store of zero. *)
Emptied == 0

Reset ==
  /\ pc = "reset"
  /\ in_buffer_len' = Emptied
  /\ copied' = 0
  /\ pc' = "copy"
  /\ from' = mark
  /\ mark' = made
  /\ UNCHANGED <<in_buffer, in_buffer_tmp, ii_len, udp, build, made, hit, echo>>

(* One byte of the memcpy.  After the last the samples are demodulated,    *)
(* with a call of MX_LWIP_Process for each, and the loop starts again.     *)
Copy ==
  /\ pc = "copy"
  /\ in_buffer_tmp' = [in_buffer_tmp EXCEPT ![copied] = in_buffer[copied]]
  /\ copied' = copied + 1
  /\ IF copied + 1 = ii_len THEN pc' = "loop" /\ hit' = "no" ELSE UNCHANGED <<pc, hit>>
  /\ UNCHANGED <<shared, ii_len, udp, build, made, mark, from, echo>>

MainLoop ==
  \/ LoadLen \/ Byte \/ Publish
  \/ Test \/ Load \/ Reset \/ Copy

Next ==
  \/ \E n \in CHUNKS : Append(n)
  \/ \E n \in DATAGRAMS : Datagram(n)
  \/ MainLoop
  \/ NotReady

(* An interrupted main loop is resumed and goes round for ever. *)
Spec == Init /\ [][Next]_vars /\ WF_vars(MainLoop)

-----------------------------------------------------------------------------
(* Every index into the two buffers is inside them; the length never       *)
(* exceeds the array, whatever the two producers do to each other.         *)
TypeOK ==
  /\ in_buffer \in [Bytes -> Nat]
  /\ in_buffer_len \in 0 .. CAP
  /\ in_buffer_tmp \in [Bytes -> Nat]
  /\ ii_len \in 0 .. CAP
  /\ copied \in 0 .. CAP
  /\ pc \in {"loop", "load_len", "byte", "publish", "load", "reset", "copy"}
  /\ pc = "copy" => copied < ii_len
  /\ pc \in {"load", "reset"} => ii_len > 0
  /\ reg \in 0 .. CAP
  /\ left \in Nat
  /\ build \in [hoisted : BOOLEAN, reload : BOOLEAN]
  /\ made \in Nat /\ mark \in Nat /\ from \in Nat
  /\ hit \in {"no", "yes"}
  /\ echo \in {"product", "other"}

(* However the producers and the main loop preempt each other, a byte      *)
(* below in_buffer_len was stored after the buffer was last emptied, and   *)
(* a byte handed to the demodulator after it was emptied the time before:  *)
(* no sample is ever demodulated as new a batch after it was consumed.     *)
NothingStale ==
  /\ \A i \in 0 .. in_buffer_len - 1 : in_buffer[i] > mark
  /\ pc = "copy" =>
       /\ \A i \in 0 .. copied - 1 : in_buffer_tmp[i] > from
       /\ \A i \in copied .. ii_len - 1 : in_buffer[i] > from

(* Unless an interrupt falls between a load of the length and its use, a   *)
(* batch is exactly what was stored since the batch before, in order.      *)
BatchIsWhatWasStored ==
  [][ (pc = "copy" /\ pc' = "loop" /\ hit = "no") =>
        /\ mark - from = ii_len
        /\ \A i \in 0 .. ii_len - 1 : in_buffer_tmp'[i] = from + 1 + i ]_vars

(* Samples do not wait for ever: the buffer is emptied, unless a datagram  *)
(* of odd length has left it with a length the main loop does not accept.  *)
Drains == Ready ~> (in_buffer_len = 0 \/ in_buffer_len % 2 = 1)

(* main.c: "send the final fm-demod/filtered audio product over udp".      *)
EchoIsProduct == echo = "product"

=============================================================================
