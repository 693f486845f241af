------------------------------- MODULE P25Decode -------------------------------
(***************************************************************************)
(* P25 framing: p25_decode, called once per dibit (p25/p25_decode.c).      *)
(* Every action is one call; they differ in what the call finds.  The      *)
(* counters have their real values.  Abstracted: the soft symbol and the   *)
(* contents of the codewords; a match of the sync pattern, of the NAC, the *)
(* DUID and what the header says are inputs.  While sync is lost nothing   *)
(* reads the two counters and a sync pattern clears them, so they stand    *)
(* still here.  The words of the header are collected at consecutive       *)
(* values of bit_count, so of word_count only "all there" is kept.         *)
(***************************************************************************)
EXTENDS Integers

CONSTANTS
  BREAKS,   \* positions in a frame at which the signal may break off
  MISREADS  \* bound on the NIDs looked for away from their place, per sync pattern

ASSUME DecodeAssumption ==
  /\ BREAKS \subseteq Nat
  /\ MISREADS \in Nat

VARIABLES
  is_synced, status_bit_counter, bit_count, voice_state,
  duid, prev_duid,
  nac,            \* "zero", or "old" when a NID has been shifted into it
  found_header, algid, do_mute, hex_bit_count,
  words_done,     \* word_count = 8*9
  allow_all,      \* config->p25_network_id_allow_all
  pos,            \* history: dibits since the sync pattern, or since it was last
                  \* supposed, off frame, that a NID begins
  call,           \* history: what the last header said of the call
  misreads        \* history: NIDs looked for away from their place since the sync pattern

levels == <<algid, do_mute, call>>
vars == <<is_synced, status_bit_counter, bit_count, voice_state, duid, prev_duid,
          nac, found_header, algid, do_mute, hex_bit_count, words_done,
          allow_all, pos, call, misreads>>

Duids == {"hdu", "ldu1", "ldu2", "tdu", "tdulc", "other"}
Voice == {1, 2, 4, 6, 8, 10, 12, 14, 16}   \* states that collect a voice codeword
HexWords == {3, 5, 7, 9, 11, 13}           \* states that collect link control

-----------------------------------------------------------------------------

Init ==
  /\ is_synced = 0
  /\ status_bit_counter = 0
  /\ bit_count = 0
  /\ voice_state = 0
  /\ duid = "hdu"
  /\ prev_duid = "hdu"
  /\ nac = "zero"
  /\ found_header = FALSE
  /\ algid = "clear"
  /\ do_mute = FALSE
  /\ hex_bit_count = 0
  /\ words_done = FALSE
  /\ allow_all \in BOOLEAN
  /\ pos = 0
  /\ call = "unknown"
  /\ misreads = 0

MayBreak == is_synced = 0 \/ pos \in BREAKS

(* Every 36th dibit is a status symbol. *)
skip == status_bit_counter + 1 = 37

\* Mutant: status symbols are counted.
bits_CountsStatus == IF bit_count + 2 > 426 THEN 0 ELSE bit_count + 2

(* bit_count once this dibit is counted. *)
bits == IF skip THEN bit_count
        ELSE IF bit_count + 2 > 426 THEN 0 ELSE bit_count + 2

(* The sync pattern is found, in or out of place, or for the first time.   *)
(* is_synced is set to 200 and counted down in the same call.              *)
Sync ==
  /\ MayBreak
  /\ is_synced' = 32 * 6 + 8 - 1
  /\ nac' = "zero"
  /\ duid' = "none"
  /\ status_bit_counter' = 0
  /\ bit_count' = 0
  /\ voice_state' = -1
  /\ found_header' = (is_synced # 0 /\ found_header)
  /\ pos' = 0
  /\ misreads' = 0
  /\ UNCHANGED <<prev_duid, levels, hex_bit_count, words_done, allow_all>>

Unsynced ==
  /\ is_synced = 0
  /\ found_header' = FALSE
  /\ UNCHANGED <<is_synced, status_bit_counter, bit_count, voice_state, duid,
                 prev_duid, nac, levels, hex_bit_count, words_done, allow_all,
                 pos, misreads>>

(* The countdown runs out. *)
LoseSync ==
  /\ is_synced = 1
  /\ is_synced' = 0
  /\ algid' = "clear"
  /\ bit_count' = 0
  /\ voice_state' = 0
  /\ duid' = "none"
  /\ found_header' = FALSE
  /\ pos' = 0
  /\ call' = "unknown"
  /\ UNCHANGED <<status_bit_counter, prev_duid, nac, do_mute, hex_bit_count,
                 words_done, allow_all, misreads>>

(* p25_reset_stats, from p25_net_tick when no sync pattern has been found  *)
(* for 15000 ticks (the decoder may be paused for longer than that: it is  *)
(* called only while the scanner has a signal).                            *)
p25_reset_stats ==
  /\ MayBreak
  /\ is_synced' = 0
  /\ nac' = "zero"
  /\ duid' = "none"
  /\ status_bit_counter' = 0
  /\ bit_count' = 0
  /\ voice_state' = -1
  /\ algid' = "clear"
  /\ found_header' = FALSE
  /\ pos' = 0
  /\ call' = "unknown"
  /\ UNCHANGED <<prev_duid, do_mute, hex_bit_count, words_done, allow_all, misreads>>

-----------------------------------------------------------------------------
(* The calls that find the decoder in sync, and leave it so. *)

Ticks ==
  /\ is_synced > 1
  /\ status_bit_counter' = IF skip THEN 1 ELSE status_bit_counter + 1
  /\ UNCHANGED allow_all

Counters == Ticks /\ pos' = pos + 1

Count ==
  /\ Counters
  /\ is_synced' = is_synced - 1
  /\ bit_count' = bits

NidDue == voice_state = -1 /\ bits \in 2 .. 18
WordDue == duid = "hdu" /\ voice_state = 0 /\ bits > 66 + 9 * 12 * 2 /\ ~words_done
VoiceDue == duid \in {"ldu1", "ldu2"} /\ (voice_state > 0 \/ (voice_state = 0 /\ bits = 66))

(* A status symbol, or a dibit nobody waits for. *)
Pass ==
  /\ Count
  /\ skip \/ ~(NidDue \/ WordDue \/ VoiceDue)
  /\ UNCHANGED <<voice_state, duid, prev_duid, nac, found_header, levels,
                 hex_bit_count, words_done, misreads>>

(* The twelve bits of the NAC are shifted in. *)
Nac ==
  /\ Count
  /\ ~skip /\ voice_state = -1 /\ bits \in 2 .. 12
  /\ duid' = "hdu"
  /\ UNCHANGED <<voice_state, prev_duid, nac, found_header, levels,
                 hex_bit_count, words_done, misreads>>

\* Mutant: nac starts afresh with every NID.
NacMatches_Afresh(ours) == allow_all \/ ours

(* The test of the network is made at both dibits of the DUID, on the same *)
(* NAC.  nac is cleared by a sync pattern only: a second NID makes it a    *)
(* number of more than twelve bits, which is no network's.                 *)
NacMatches(ours) == allow_all \/ (ours /\ nac = "zero")

DuidBits ==
  /\ Count
  /\ ~skip /\ voice_state = -1
  /\ \/ bits = 14 /\ (\E ours \in BOOLEAN : NacMatches(ours)) /\ nac' = "old"
     \/ bits = 16 /\ UNCHANGED nac
  /\ duid' = "nid"
  /\ UNCHANGED <<voice_state, prev_duid, found_header, levels, hex_bit_count,
                 words_done, misreads>>

ForeignNetwork ==
  /\ Ticks
  /\ ~skip /\ voice_state = -1 /\ bits = 14
  /\ \E ours \in BOOLEAN : ~NacMatches(ours)
  /\ bit_count' = 0
  /\ is_synced' = 0
  /\ pos' = 0
  /\ algid' = "clear"
  /\ nac' = "old"
  /\ call' = "unknown"
  /\ UNCHANGED <<voice_state, duid, prev_duid, found_header, do_mute, hex_bit_count,
                 words_done, misreads>>

(* The DUID is complete: what kind of frame is it?                         *)
NidComplete == Ticks /\ ~skip /\ voice_state = -1 /\ bits = 18

DataUnit ==
  /\ NidComplete
  /\ pos' = pos + 1
  /\ UNCHANGED <<nac, do_mute, hex_bit_count>>

HDU ==
  /\ DataUnit
  /\ is_synced' = 1200
  /\ bit_count' = bits
  /\ voice_state' = 0
  /\ duid' = "hdu" /\ prev_duid' = "hdu"
  /\ found_header' = TRUE
  /\ words_done' = FALSE
  /\ algid' = "clear"
  /\ call' = "unknown"
  /\ UNCHANGED misreads

LDU1 ==
  /\ DataUnit
  /\ is_synced' = 1200
  /\ bit_count' = bits
  /\ voice_state' = 0
  /\ duid' = "ldu1" /\ prev_duid' = "ldu1"
  /\ found_header' = TRUE
  /\ UNCHANGED <<algid, call, words_done, misreads>>

LDU2 ==
  /\ DataUnit
  /\ prev_duid = "ldu1"
  /\ is_synced' = 1200
  /\ bit_count' = bits
  /\ voice_state' = 0
  /\ duid' = "ldu2" /\ prev_duid' = "ldu2"
  /\ UNCHANGED <<found_header, algid, call, words_done, misreads>>

(* An LDU2 that does not follow an LDU1 is refused: the next bits, which   *)
(* belong to its voice, are taken for another NID.                         *)
LDU2OutOfTurn ==
  /\ NidComplete
  /\ prev_duid # "ldu1"
  /\ misreads < MISREADS
  /\ is_synced' = 1200
  /\ bit_count' = 0
  /\ duid' = "ldu2"
  /\ found_header' = FALSE
  /\ misreads' = misreads + 1
  /\ pos' = 0
  /\ UNCHANGED <<voice_state, prev_duid, nac, levels, hex_bit_count, words_done>>

TDU ==
  /\ DataUnit
  /\ is_synced' = 1200
  /\ bit_count' = bits
  /\ voice_state' = 0
  /\ duid' = "tdu" /\ prev_duid' = "tdu"
  /\ UNCHANGED <<found_header, algid, call, words_done, misreads>>

TDULC ==
  /\ DataUnit
  /\ is_synced' = is_synced - 1
  /\ bit_count' = bits
  /\ voice_state' = 0
  /\ duid' = "none" /\ prev_duid' = "none"
  /\ found_header' = FALSE
  /\ UNCHANGED <<algid, call, words_done, misreads>>

OtherUnit ==
  /\ DataUnit
  /\ is_synced' = is_synced - 1
  /\ bit_count' = bits
  /\ duid' = "none" /\ prev_duid' = "none"
  /\ found_header' = FALSE
  /\ UNCHANGED <<voice_state, algid, call, words_done, misreads>>

(* One dibit of the header's last eight words. *)
HeaderDibit ==
  /\ Count
  /\ ~skip /\ WordDue /\ bits < 426
  /\ UNCHANGED <<voice_state, duid, prev_duid, nac, found_header, levels,
                 hex_bit_count, words_done, misreads>>

(* The last one: p25_processHDU.  Without uncorrectable words the header   *)
(* says how the call is encrypted; with one, nothing changes.              *)
Header(says) ==
  /\ Count
  /\ ~skip /\ WordDue /\ bits = 426
  /\ words_done' = TRUE
  /\ algid' = IF says = "errors" THEN algid ELSE says
  /\ call' = IF says = "encrypted" THEN "encrypted" ELSE call
  /\ UNCHANGED <<voice_state, duid, prev_duid, nac, found_header, do_mute,
                 hex_bit_count, misreads>>

\* Mutant: the status symbols are not re-aligned.
Realigned_Not == status_bit_counter + 1

(* The 22 that makes the next status symbol fall due where it is sent. *)
Realigned == 22

(* The end of the NID: voice begins, and the status symbols are re-aligned.*)
VoiceBegins ==
  /\ is_synced > 1
  /\ is_synced' = is_synced - 1
  /\ ~skip /\ VoiceDue /\ voice_state = 0
  /\ bit_count' = 0
  /\ voice_state' = 1
  /\ status_bit_counter' = Realigned
  /\ pos' = pos + 1
  /\ UNCHANGED <<duid, prev_duid, nac, found_header, levels, hex_bit_count,
                 words_done, allow_all, misreads>>

(* deinterleave_frame: dibit (bits - 2) / 2 of a voice codeword. *)
VoiceDibit ==
  /\ Count
  /\ ~skip /\ VoiceDue /\ voice_state \in Voice /\ bits < 144
  /\ UNCHANGED <<voice_state, duid, prev_duid, nac, found_header, levels,
                 hex_bit_count, words_done, misreads>>

\* Mutant: algid is zeroed whether the frame is muted or not.
AlgidKept_Never == "clear"

(* Anything but 0x80 becomes 0 at the first codeword of a frame. *)
AlgidKept == IF algid = "encrypted" THEN algid ELSE "clear"

(* The last dibit of a codeword: it is decoded, and played by process_mbe  *)
(* if found_header && !do_mute.  The first codeword of a frame decides     *)
(* do_mute; the second resets hex_bit_count; the ninth ends the frame.     *)
VoiceFrame ==
  /\ Counters
  /\ is_synced' = is_synced - 1
  /\ ~skip /\ VoiceDue /\ voice_state \in Voice /\ bits = 144
  /\ bit_count' = 0
  /\ voice_state' = IF voice_state = 16 THEN 0 ELSE voice_state + 1
  /\ duid' = IF voice_state = 16 THEN "none" ELSE duid
  /\ hex_bit_count' = IF voice_state = 2 THEN 0 ELSE hex_bit_count
  /\ do_mute' = IF voice_state = 1 THEN algid = "encrypted" ELSE do_mute
  /\ algid' = IF voice_state = 1 THEN AlgidKept ELSE algid
  /\ UNCHANGED <<prev_duid, nac, found_header, call, words_done, misreads>>

\* Mutant: hex_bit_count advances by two, like bit_count.
HexNext_ByTwo == hex_bit_count + 2

HexNext == hex_bit_count + 1

(* Between the codewords: link control is kept, low speed data is not.     *)
HexDibit ==
  /\ Count
  /\ ~skip /\ VoiceDue
  /\ \/ voice_state \in HexWords /\ bits < 40 /\ hex_bit_count' = HexNext
     \/ voice_state = 15 /\ bits < 32 /\ UNCHANGED hex_bit_count
  /\ UNCHANGED <<voice_state, duid, prev_duid, nac, found_header, levels,
                 words_done, misreads>>

HexEnds ==
  /\ Counters
  /\ is_synced' = is_synced - 1
  /\ ~skip /\ VoiceDue
  /\ \/ voice_state \in HexWords /\ bits >= 40
     \/ voice_state = 15 /\ bits >= 32
  /\ bit_count' = 0
  /\ voice_state' = voice_state + 1
  /\ UNCHANGED <<duid, prev_duid, nac, found_header, levels, hex_bit_count,
                 words_done, misreads>>

Nid == Nac \/ DuidBits \/ ForeignNetwork
Unit == HDU \/ LDU1 \/ LDU2 \/ LDU2OutOfTurn \/ TDU \/ TDULC \/ OtherUnit
LDU == VoiceBegins \/ VoiceDibit \/ VoiceFrame \/ HexDibit \/ HexEnds

Next ==
  \/ Sync \/ Unsynced \/ LoseSync \/ p25_reset_stats
  \/ Pass \/ Nid \/ Unit
  \/ HeaderDibit
  \/ \E says \in {"clear", "encrypted", "other", "errors"} : Header(says)
  \/ LDU

Spec == Init /\ [][Next]_vars

-----------------------------------------------------------------------------
CountersOK ==
  /\ is_synced \in 0 .. 1200
  /\ status_bit_counter \in 0 .. 36
  /\ bit_count \in 0 .. 426 /\ bit_count % 2 = 0
  /\ voice_state \in -1 .. 16
  /\ voice_state \in Voice => bit_count <= 142
  /\ voice_state \in HexWords \cup {15} => bit_count <= 38
  /\ hex_bit_count \in 0 .. 20 * 6
  /\ pos \in Nat
  /\ misreads \in 0 .. MISREADS

FrameOK ==
  /\ duid \in {"none", "nid", "hdu", "ldu1", "ldu2", "tdu"}
  /\ prev_duid \in {"none", "hdu", "ldu1", "ldu2", "tdu"}
  /\ nac \in {"zero", "old"}
  /\ algid \in {"clear", "encrypted", "other"}
  /\ call \in {"unknown", "encrypted"}

FlagsOK ==
  /\ found_header \in BOOLEAN /\ do_mute \in BOOLEAN
  /\ words_done \in BOOLEAN /\ allow_all \in BOOLEAN

(* The counters and the arrays they index: imbe_fr is written at dibits    *)
(* 0 .. 142, and the 20*6 words of ldu_hex_parity are never overrun.       *)
TypeOK == CountersOK /\ FrameOK /\ FlagsOK

(* The layout of a logical link data unit in P25 phase 1, in dibits after  *)
(* the sync pattern: a status symbol after every 35 others, a NID of 32,   *)
(* nine codewords of 72, six words of link control of 20 between the       *)
(* second and the eighth, 16 of low speed data before the ninth.           *)
IsStatus(p) == (p + 24) % 36 = 0
DataDibits(p) == p - (p + 24) \div 36
Codeword(state) == IF state <= 2 THEN state ELSE state \div 2 + 1
CodewordStart(n) ==
  32 + 72 * (n - 1) + (IF n <= 2 THEN 0 ELSE IF n = 9 THEN 120 + 16 ELSE 20 * (n - 2))

(* Each dibit of a voice codeword comes from the place the air interface   *)
(* puts it, through all status symbols and both kinds of words between,    *)
(* unless the decoder was misled by an LDU2 out of turn.  The header is    *)
(* not re-aligned like voice, so its words (from the 108th dibit after the *)
(* NID) are sampled beside their places, but by no more than one dibit: an *)
(* error the code of a word may have to correct.                           *)
DibitsInPlace ==
  [][ (misreads = 0 /\ pos' = pos + 1 /\ ~skip) =>
        /\ voice_state \in Voice =>
             /\ ~IsStatus(pos')
             /\ DataDibits(pos') =
                  CodewordStart(Codeword(voice_state)) + (bits - 2) \div 2 + 1
        /\ WordDue /\ is_synced > 1 =>
             DataDibits(pos') - (32 + 108 + (bits - 284) \div 2 + 1) \in -1 .. 1 ]_vars

(* Once an intact header has said that a call is encrypted, none of its    *)
(* voice reaches process_mbe until sync is lost or another header begins,  *)
(* whatever frames arrive in between.                                      *)
Plays ==
  /\ voice_state \in Voice /\ ~skip /\ bits = 144 /\ pos' = pos + 1
  /\ found_header /\ ~do_mute'
EncryptedStaysMuted == [][ Plays => call # "encrypted" ]_vars

(* Unless it accepts every network, the decoder gives up at most 1209      *)
(* dibits after the last sync pattern, and at the next NID if it was       *)
(* misled: it never stays in sync on voice that it takes for NIDs.         *)
GivesUp ==
  (is_synced > 0 /\ ~allow_all) =>
    pos + is_synced <= (IF misreads > 0 THEN 1200 ELSE 1209) /\ (misreads > 0 => pos < 7)

(* p25_decode.c: "to collect total of 40 * 6 bits" of link control.        *)
LinkControlComplete ==
  [][ (voice_state = 16 /\ voice_state' = 0 /\ duid' = "none" /\ pos' = pos + 1) =>
        2 * hex_bit_count = 40 * 6 ]_vars

=============================================================================
