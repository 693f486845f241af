----------------------------- MODULE ReceiverProofs -----------------------------
(***************************************************************************)
(* Theorems about the two modules that share the receiver's main loop:     *)
(* P25Decode, for every place at which the signal may break off and any    *)
(* number of NIDs looked for away from their place, and Scanner, for every *)
(* number of channels and all timeouts in the order of the real ones.      *)
(***************************************************************************)
EXTENDS P25Decode, Scanner, TLAPS

(* Voice is collected in frames of voice only.                             *)
VoiceInLdu == voice_state > 0 => duid \in {"ldu1", "ldu2"}

(* How much link control has been collected at most: nineteen dibits of    *)
(* each word.                                                              *)
HexBounded ==
  /\ voice_state \in HexWords => 2 * hex_bit_count <= 19 * (voice_state - 3) + bit_count
  /\ voice_state \in {4, 6, 8, 10, 12, 14} => 2 * hex_bit_count <= 19 * (voice_state - 2)
  /\ 2 * hex_bit_count <= 19 * 12

TypeInv == TypeOK /\ VoiceInLdu /\ HexBounded

-----------------------------------------------------------------------------

LEMMA BitsRange ==
  ASSUME CountersOK
  PROVE  /\ bits \in 0 .. 426 /\ bits % 2 = 0
         /\ ~skip => bits = bit_count + 2 \/ (bits = 0 /\ bit_count = 426)
         /\ skip => bits = bit_count
BY DEF CountersOK, bits, skip

LEMMA TicksRange ==
  ASSUME CountersOK, Ticks
  PROVE  /\ status_bit_counter' \in 0 .. 36
         /\ is_synced - 1 \in 0 .. 1200
         /\ allow_all' = allow_all
BY DEF CountersOK, Ticks, skip

LEMMA TypeInit == Init => TypeInv
<1>1. Init => CountersOK /\ HexBounded
  BY DecodeAssumption DEF Init, CountersOK, HexBounded, Voice, HexWords
<1>2. Init => FrameOK /\ VoiceInLdu
  BY DEF Init, FrameOK, VoiceInLdu
<1>3. Init => FlagsOK
  BY DEF Init, FlagsOK
<1> QED
  BY <1>1, <1>2, <1>3 DEF TypeInv, TypeOK

LEMMA FlagsStep == FlagsOK /\ [Next]_vars => FlagsOK'
<1> SUFFICES ASSUME FlagsOK, [Next]_vars PROVE FlagsOK'
  OBVIOUS
<1> USE DEF FlagsOK, levels
<1>1. CASE Sync \/ Unsynced \/ LoseSync \/ p25_reset_stats
  BY <1>1 DEF Sync, Unsynced, LoseSync, p25_reset_stats
<1>2. CASE Pass \/ Nid
  BY <1>2 DEF Pass, Nid, Nac, DuidBits, ForeignNetwork, Count, Counters, Ticks
<1>3. CASE Unit
  <2>1. allow_all' = allow_all /\ do_mute' = do_mute
    BY <1>3 DEF Unit, HDU, LDU1, LDU2, LDU2OutOfTurn, TDU, TDULC, OtherUnit,
                DataUnit, NidComplete, Ticks
  <2>2. found_header' = found_header \/ found_header' = TRUE \/ found_header' = FALSE
    BY <1>3 DEF Unit, HDU, LDU1, LDU2, LDU2OutOfTurn, TDU, TDULC, OtherUnit
  <2>3. words_done' = words_done \/ words_done' = FALSE
    BY <1>3 DEF Unit, HDU, LDU1, LDU2, LDU2OutOfTurn, TDU, TDULC, OtherUnit
  <2> QED
    BY <2>1, <2>2, <2>3, Zenon
<1>4. CASE HeaderDibit \/ \E says \in {"clear", "encrypted", "other", "errors"} : Header(says)
  <2>1. allow_all' = allow_all /\ found_header' = found_header /\ do_mute' = do_mute
    BY <1>4 DEF HeaderDibit, Header, Count, Counters, Ticks
  <2>2. words_done' = words_done \/ words_done' = TRUE
    BY <1>4 DEF HeaderDibit, Header
  <2> QED
    BY <2>1, <2>2, Zenon
<1>5. CASE LDU
  <2>1. allow_all' = allow_all /\ found_header' = found_header /\ words_done' = words_done
    BY <1>5 DEF LDU, VoiceBegins, VoiceDibit, VoiceFrame, HexDibit, HexEnds, Count, Counters, Ticks
  <2>2. do_mute' = do_mute \/ do_mute' = (algid = "encrypted")
    BY <1>5 DEF LDU, VoiceBegins, VoiceDibit, VoiceFrame, HexDibit, HexEnds
  <2> QED
    BY <2>1, <2>2, Zenon
<1>6. CASE UNCHANGED vars
  BY <1>6 DEF vars
<1> QED
  BY <1>1, <1>2, <1>3, <1>4, <1>5, <1>6 DEF Next

LEMMA RestStep ==
  CountersOK /\ FrameOK /\ VoiceInLdu /\ HexBounded /\ [Next]_vars
    => (CountersOK /\ FrameOK /\ VoiceInLdu /\ HexBounded)'
<1> SUFFICES ASSUME CountersOK, FrameOK, VoiceInLdu, HexBounded, [Next]_vars
             PROVE  (CountersOK /\ FrameOK /\ VoiceInLdu /\ HexBounded)'
  OBVIOUS
<1> USE DecodeAssumption, BitsRange DEF CountersOK, FrameOK, VoiceInLdu, HexBounded, Voice, HexWords, levels
<1>1. CASE Sync
  BY <1>1 DEF Sync
<1>2. CASE Unsynced
  BY <1>2 DEF Unsynced
<1>3. CASE LoseSync
  BY <1>3 DEF LoseSync
<1>4. CASE p25_reset_stats
  BY <1>4 DEF p25_reset_stats
<1>5. CASE Pass
  BY <1>5, TicksRange DEF Pass, Count, Counters, VoiceDue
<1>6. CASE Nac
  BY <1>6, TicksRange DEF Nac, Count, Counters
<1>7. CASE DuidBits
  BY <1>7, TicksRange DEF DuidBits, Count, Counters
<1>8. CASE ForeignNetwork
  BY <1>8, TicksRange DEF ForeignNetwork
<1>9. CASE Unit
  <2>1. CASE HDU \/ TDU
    BY <2>1, TicksRange DEF HDU, TDU, DataUnit, NidComplete
  <2>0. CASE LDU1 \/ LDU2
    BY <2>0, TicksRange DEF LDU1, LDU2, DataUnit, NidComplete
  <2>2. CASE LDU2OutOfTurn
    BY <2>2, TicksRange DEF LDU2OutOfTurn, NidComplete
  <2>3. CASE TDULC
    BY <2>3, TicksRange DEF TDULC, DataUnit, NidComplete
  <2>4. CASE OtherUnit
    BY <2>4, TicksRange DEF OtherUnit, DataUnit, NidComplete
  <2> QED
    BY <1>9, <2>0, <2>1, <2>2, <2>3, <2>4 DEF Unit
<1>10. CASE HeaderDibit
  BY <1>10, TicksRange DEF HeaderDibit, Count, Counters, WordDue
<1>11. ASSUME NEW says \in {"clear", "encrypted", "other", "errors"}, Header(says)
       PROVE  (CountersOK /\ FrameOK /\ VoiceInLdu /\ HexBounded)'
  BY <1>11, TicksRange DEF Header, Count, Counters, WordDue
<1>12. CASE VoiceBegins
  BY <1>12, TicksRange DEF VoiceBegins, VoiceDue, Realigned
<1>13. CASE VoiceDibit
  BY <1>13, TicksRange DEF VoiceDibit, Count, Counters
<1>14. CASE VoiceFrame
  BY <1>14, TicksRange DEF VoiceFrame, Counters, AlgidKept
<1>15. CASE HexDibit
  BY <1>15, TicksRange DEF HexDibit, Count, Counters, HexNext
<1>16. CASE HexEnds
  BY <1>16, TicksRange DEF HexEnds, Counters
<1>17. CASE UNCHANGED vars
  BY <1>17 DEF vars, bits, skip
<1> HIDE DecodeAssumption, BitsRange DEF CountersOK, FrameOK, VoiceInLdu, HexBounded
<1> QED
  BY <1>1, <1>2, <1>3, <1>4, <1>5, <1>6, <1>7, <1>8, <1>9, <1>10, <1>11, <1>12, <1>13,
     <1>14, <1>15, <1>16, <1>17, ZenonT(20) DEF Next, Nid, LDU

LEMMA TypeStep == TypeInv /\ [Next]_vars => TypeInv'
BY RestStep, FlagsStep DEF TypeInv, TypeOK

(* Every counter of the decoder stays in its range and every flag a flag,  *)
(* whatever is received and whenever the statistics are reset.             *)
THEOREM TypeCorrect == Spec => []TypeOK
<1>1. TypeInv => TypeOK
  BY DEF TypeInv
<1> QED
  BY <1>1, TypeInit, TypeStep, PTL DEF Spec

-----------------------------------------------------------------------------

(* As long as a header has said that the call is encrypted, the decoder    *)
(* knows it, accepts no other header, and mutes every frame of which it    *)
(* has seen the first codeword.                                            *)
Muted ==
  call = "encrypted" =>
    /\ algid = "encrypted"
    /\ words_done
    /\ voice_state >= 2 => do_mute

LEMMA MutedStep == TypeInv /\ Muted /\ [Next]_vars => Muted'
<1> SUFFICES ASSUME TypeInv, Muted, [Next]_vars PROVE Muted'
  OBVIOUS
<1> USE DEF TypeInv, TypeOK, CountersOK, Muted, levels
<1>1. CASE Sync \/ Unsynced \/ LoseSync \/ p25_reset_stats
  BY <1>1 DEF Sync, Unsynced, LoseSync, p25_reset_stats
<1>2. CASE Pass \/ Nid
  BY <1>2 DEF Pass, Nid, Nac, DuidBits, ForeignNetwork, Count
<1>3. CASE Unit
  BY <1>3 DEF Unit, HDU, LDU1, LDU2, LDU2OutOfTurn, TDU, TDULC, OtherUnit, DataUnit, NidComplete
<1>4. CASE HeaderDibit
  BY <1>4 DEF HeaderDibit
<1>5. ASSUME NEW says \in {"clear", "encrypted", "other", "errors"}, Header(says)
      PROVE  Muted'
  BY <1>5 DEF Header, WordDue
<1>6. CASE VoiceBegins \/ VoiceDibit \/ HexDibit \/ HexEnds
  BY <1>6 DEF VoiceBegins, VoiceDibit, HexDibit, HexEnds, HexWords
<1>7. CASE VoiceFrame
  <2> SUFFICES ASSUME call' = "encrypted" PROVE Muted'
    OBVIOUS
  <2>1. algid = "encrypted" /\ words_done /\ (voice_state >= 2 => do_mute)
    BY <1>7 DEF VoiceFrame
  <2>2. algid' = "encrypted" /\ words_done'
    BY <1>7, <2>1 DEF VoiceFrame, AlgidKept
  <2>3. voice_state = 1 => do_mute'
    BY <1>7, <2>1, ZenonT(20) DEF VoiceFrame
  <2>4. voice_state # 1 => do_mute' = do_mute
    BY <1>7, ZenonT(20) DEF VoiceFrame
  <2>5. voice_state \in Voice
    BY <1>7 DEF VoiceFrame
  <2>6. voice_state = 1 \/ voice_state >= 2
    BY <2>5 DEF Voice
  <2>7. do_mute'
    BY <2>1, <2>3, <2>4, <2>6, ZenonT(20)
  <2> QED
    BY <2>2, <2>7
<1>8. CASE UNCHANGED vars
  BY <1>8 DEF vars
<1> QED
  BY <1>1, <1>2, <1>3, <1>4, <1>5, <1>6, <1>7, <1>8 DEF Next, LDU

(* Only the end of a voice codeword plays.                                 *)
LEMMA PlaysMuted ==
  TypeInv /\ Muted /\ [Next]_vars => (Plays => call # "encrypted")
<1> SUFFICES ASSUME TypeInv, Muted, [Next]_vars, Plays, call = "encrypted" PROVE FALSE
  OBVIOUS
<1>1. VoiceDue /\ ~skip /\ bits = 144 /\ voice_state \in Voice /\ voice_state > 0
  BY DEF TypeInv, VoiceInLdu, VoiceDue, Plays, Voice
<1>2. pos' = pos + 1 /\ pos \in Nat
  BY DEF TypeInv, TypeOK, CountersOK, Plays
<1>3. ~do_mute' /\ algid = "encrypted" /\ (voice_state >= 2 => do_mute)
  BY DEF Muted, Plays
<1>4. VoiceFrame
  <2>1. ~(Sync \/ Unsynced \/ LoseSync \/ p25_reset_stats)
    BY <1>2 DEF Sync, Unsynced, LoseSync, p25_reset_stats
  <2>2. ~(Pass \/ Nid)
    BY <1>1 DEF Pass, Nid, Nac, DuidBits, ForeignNetwork
  <2>3. ~Unit
    BY <1>1 DEF Unit, HDU, LDU1, LDU2, LDU2OutOfTurn, TDU, TDULC, OtherUnit, DataUnit, NidComplete
  <2>4. ~HeaderDibit /\ \A says \in {"clear", "encrypted", "other", "errors"} : ~Header(says)
    BY <1>1 DEF HeaderDibit, Header, WordDue
  <2>5. ~(VoiceBegins \/ VoiceDibit)
    BY <1>1 DEF VoiceBegins, VoiceDibit
  <2>6. ~(HexDibit \/ HexEnds)
    BY <1>1 DEF HexDibit, HexEnds, HexWords, Voice
  <2>7. ~UNCHANGED vars
    BY <1>2 DEF vars
  <2> QED
    BY <2>1, <2>2, <2>3, <2>4, <2>5, <2>6, <2>7 DEF Next, LDU
<1>5. voice_state = 1 => do_mute'
  BY <1>3, <1>4, Zenon DEF VoiceFrame
<1>6. voice_state # 1 => do_mute' = do_mute
  BY <1>4, Zenon DEF VoiceFrame
<1>7. voice_state = 1 \/ voice_state >= 2
  BY <1>1 DEF Voice
<1> QED
  BY <1>3, <1>5, <1>6, <1>7, Zenon

(* EncryptedStaysMuted: no voice of a call that an intact header has called *)
(* encrypted reaches process_mbe.                                          *)
THEOREM EncryptedIsNotHeard == Spec => EncryptedStaysMuted
<1>1. Init => Muted
  BY DEF Init, Muted
<1> QED
  BY <1>1, TypeInit, TypeStep, MutedStep, PlaysMuted, PTL DEF Spec, EncryptedStaysMuted

-----------------------------------------------------------------------------
(* Where the decoder is between a sync pattern and the end of the NID.     *)

(* After a sync pattern, without a NID, bit_count never wraps before the   *)
(* countdown runs out; and up to the NID every dibit is counted.           *)
Window ==
  is_synced > 0 /\ misreads = 0 /\ voice_state = -1 =>
    /\ 2 * is_synced + bit_count <= 398
    /\ bit_count <= 16 => 2 * pos = bit_count /\ status_bit_counter = pos

(* A decoder that accepts one network and was misled knows the NAC it has  *)
(* seen, and is in the NAC of a supposed NID.                              *)
Misled ==
  is_synced > 0 =>
    /\ nac = "zero" => voice_state = -1 /\ bit_count <= 12
    /\ misreads > 0 /\ ~allow_all =>
         /\ voice_state = -1
         /\ nac = "old"
         /\ bit_count <= 12
         /\ 2 * pos = bit_count
         /\ status_bit_counter = pos + 9

Supposed == TypeInv /\ Window /\ Misled /\ GivesUp

LEMMA WindowStep == TypeInv /\ Window /\ [Next]_vars => Window'
<1> SUFFICES ASSUME TypeInv, Window, [Next]_vars, Window!1' PROVE Window!2'
  BY DEF Window
<1> USE BitsRange DEF TypeInv, TypeOK, CountersOK, Window
<1>1. CASE Sync \/ Unsynced \/ LoseSync \/ p25_reset_stats
  BY <1>1 DEF Sync, Unsynced, LoseSync, p25_reset_stats
<1>2. CASE Pass
  BY <1>2 DEF Pass, Count, Counters, Ticks, NidDue, skip
<1>3. CASE Nid
  BY <1>3 DEF Nid, Nac, DuidBits, ForeignNetwork, Count, Counters, Ticks
<1>4. CASE Unit
  BY <1>4 DEF Unit, HDU, LDU1, LDU2, LDU2OutOfTurn, TDU, TDULC, OtherUnit, DataUnit, NidComplete, Ticks
<1>5. CASE HeaderDibit \/ \E says \in {"clear", "encrypted", "other", "errors"} : Header(says)
  BY <1>5 DEF HeaderDibit, Header, WordDue
<1>6. CASE LDU
  BY <1>6 DEF LDU, VoiceBegins, VoiceDibit, VoiceFrame, HexDibit, HexEnds, Voice, HexWords
<1>7. CASE UNCHANGED vars
  BY <1>7 DEF vars
<1> QED
  BY <1>1, <1>2, <1>3, <1>4, <1>5, <1>6, <1>7 DEF Next

LEMMA MisledStep == TypeInv /\ Window /\ Misled /\ [Next]_vars => Misled'
<1> SUFFICES ASSUME TypeInv, Window, Misled, [Next]_vars, is_synced' > 0 PROVE Misled!2'
  BY DEF Misled
<1> USE BitsRange DEF TypeInv, TypeOK, CountersOK, FrameOK, Window, Misled
<1>1. CASE Sync \/ Unsynced \/ LoseSync \/ p25_reset_stats
  BY <1>1 DEF Sync, Unsynced, LoseSync, p25_reset_stats
<1>2. CASE Pass
  BY <1>2 DEF Pass, Count, Counters, Ticks, NidDue, skip
<1>3. CASE Nac
  BY <1>3 DEF Nac, Count, Counters, Ticks
<1>4. CASE DuidBits
  BY <1>4 DEF DuidBits, NacMatches, Count, Counters, Ticks
<1>5. CASE ForeignNetwork
  BY <1>5 DEF ForeignNetwork
<1>6. CASE Unit
  BY <1>6 DEF Unit, HDU, LDU1, LDU2, LDU2OutOfTurn, TDU, TDULC, OtherUnit, DataUnit, NidComplete, Ticks,
              levels
<1>7. CASE HeaderDibit \/ \E says \in {"clear", "encrypted", "other", "errors"} : Header(says)
  BY <1>7 DEF HeaderDibit, Header, WordDue, Count, Counters, Ticks
<1>8. CASE LDU
  BY <1>8 DEF LDU, VoiceBegins, VoiceDibit, VoiceFrame, HexDibit, HexEnds, Voice, HexWords, Count, Counters, Ticks
<1>9. CASE UNCHANGED vars
  BY <1>9 DEF vars
<1> QED
  BY <1>1, <1>2, <1>3, <1>4, <1>5, <1>6, <1>7, <1>8, <1>9 DEF Next, Nid

LEMMA GivesUpStep == Supposed /\ [Next]_vars => GivesUp'
<1> SUFFICES ASSUME Supposed, [Next]_vars, GivesUp!1' PROVE GivesUp!2'
  BY DEF GivesUp
<1> USE BitsRange DEF Supposed, TypeInv, TypeOK, CountersOK, FrameOK, Window, Misled, GivesUp
<1>1. CASE Sync \/ Unsynced \/ LoseSync \/ p25_reset_stats
  BY <1>1 DEF Sync, Unsynced, LoseSync, p25_reset_stats
<1>2. CASE Pass
  BY <1>2 DEF Pass, Count, Counters, Ticks, NidDue, skip
<1>3. CASE Nac
  BY <1>3 DEF Nac, Count, Counters, Ticks
<1>4. CASE DuidBits
  BY <1>4 DEF DuidBits, NacMatches, Count, Counters, Ticks
<1>5. CASE ForeignNetwork
  BY <1>5 DEF ForeignNetwork
<1>6. CASE Unit
  BY <1>6 DEF Unit, HDU, LDU1, LDU2, LDU2OutOfTurn, TDU, TDULC, OtherUnit, DataUnit, NidComplete, Ticks,
              levels
<1>7. CASE HeaderDibit \/ \E says \in {"clear", "encrypted", "other", "errors"} : Header(says)
  BY <1>7 DEF HeaderDibit, Header, WordDue, Count, Counters, Ticks
<1>8. CASE LDU
  BY <1>8 DEF LDU, VoiceBegins, VoiceDibit, VoiceFrame, HexDibit, HexEnds, Voice, HexWords, Count, Counters, Ticks
<1>9. CASE UNCHANGED vars
  BY <1>9 DEF vars
<1> QED
  BY <1>1, <1>2, <1>3, <1>4, <1>5, <1>6, <1>7, <1>8, <1>9 DEF Next, Nid

LEMMA SupposedStep == Supposed /\ [Next]_vars => Supposed'
BY TypeStep, WindowStep, MisledStep, GivesUpStep DEF Supposed

(* GivesUp: the countdown ends within 1209 dibits of the last sync pattern *)
(* and within 1200 of the last NID looked for away from its place.         *)
THEOREM AlwaysGivesUp == Spec => []GivesUp
<1>1. Init => Supposed
  BY TypeInit DEF Init, Supposed, Window, Misled, GivesUp
<1>2. Supposed => GivesUp
  BY DEF Supposed
<1> QED
  BY <1>1, <1>2, SupposedStep, PTL DEF Spec

-----------------------------------------------------------------------------
(* Where the dibits of a frame are sampled.                                *)

(* Twice the number of data dibits before the word of a voice state.       *)
WordStart(state) ==
  CASE state = 1 -> 64
    [] state = 2 -> 208
    [] state \in HexWords -> 92 * state + 76
    [] state \in {4, 6, 8, 10, 12, 14} -> 92 * state + 24
    [] state = 15 -> 1456
    [] OTHER -> 1488

(* After q status symbols, at the place the status counter says.           *)
InWord(q) ==
  /\ pos + 25 = 36 * q + status_bit_counter
  /\ status_bit_counter \in 1 .. 36
  /\ 2 * (pos - q) = WordStart(voice_state) + bit_count

(* In the header the status symbols are counted from the sync pattern.     *)
InHeader(k) ==
  /\ pos = 36 * k + status_bit_counter
  /\ bit_count = 2 * (35 * k + status_bit_counter)

InFrame ==
  is_synced > 0 /\ misreads = 0 =>
    /\ voice_state = 0 /\ duid \in {"ldu1", "ldu2"} =>
         bit_count \in 18 .. 64 /\ 2 * pos = bit_count /\ status_bit_counter = pos
    /\ voice_state >= 1 => \E q \in Nat : InWord(q)
    /\ voice_state = 15 => bit_count <= 30
    /\ voice_state = 0 /\ duid = "hdu" /\ ~words_done =>
         bit_count <= 424 /\ \E k \in Nat : InHeader(k)

Placed == TypeInv /\ Window /\ InFrame

(* One more dibit, a status symbol or not, stays in the same word.         *)
LEMMA StaysInWord ==
  ASSUME Placed, Counters, NEW q \in Nat, InWord(q), misreads = 0,
         bit_count' = bits, voice_state' = voice_state, bits \in 0 .. 144, voice_state >= 1,
         bit_count <= 142
  PROVE  \E n \in Nat : InWord(n)'
<1> USE BitsRange DEF Placed, TypeInv, TypeOK, CountersOK, Counters, Ticks, InWord
<1>1. WordStart(voice_state)' = WordStart(voice_state) /\ WordStart(voice_state) \in Nat
  BY DEF WordStart, HexWords
<1>2. CASE skip
  <2>1. q + 1 \in Nat /\ InWord(q + 1)'
    BY <1>1, <1>2 DEF skip
  <2> QED
    BY <2>1, ZenonT(20)
<1>3. CASE ~skip
  <2>1. bit_count' = bit_count + 2 /\ status_bit_counter' = status_bit_counter + 1
    BY <1>3 DEF skip
  <2>2. InWord(q)'
    BY <1>1, <1>3, <2>1 DEF skip
  <2> QED
    BY <2>2
<1> QED
  BY <1>2, <1>3

LEMMA StaysInHeader ==
  ASSUME Placed, Counters, NEW k \in Nat, InHeader(k), bit_count' = bits, bit_count <= 424
  PROVE  \E n \in Nat : InHeader(n)'
<1> USE BitsRange DEF Placed, TypeInv, TypeOK, CountersOK, Counters, Ticks, InHeader
<1>1. CASE skip
  <2>1. k + 1 \in Nat /\ InHeader(k + 1)'
    BY <1>1 DEF skip
  <2> QED
    BY <2>1
<1>2. CASE ~skip
  <2>1. InHeader(k)'
    BY <1>2 DEF skip
  <2> QED
    BY <2>1
<1> QED
  BY <1>1, <1>2

(* The words of a frame follow one another without a gap.                  *)
LEMMA NextWord ==
  /\ \A s \in Voice : s # 16 => WordStart(s) + 144 = WordStart(s + 1)
  /\ \A s \in HexWords : WordStart(s) + 40 = WordStart(s + 1)
  /\ WordStart(15) + 32 = WordStart(16)
  /\ \A s \in Voice : WordStart(s) = 2 * CodewordStart(Codeword(s))
BY DEF Voice, HexWords, WordStart, Codeword, CodewordStart

LEMMA InFrameStep == Placed /\ [Next]_vars => InFrame'
<1> SUFFICES ASSUME Placed, [Next]_vars, InFrame!1' PROVE InFrame!2'
  BY DEF InFrame
<1> USE BitsRange DEF Placed, TypeInv, TypeOK, CountersOK, FrameOK, VoiceInLdu, Window
<1>1. CASE Sync \/ Unsynced \/ LoseSync \/ p25_reset_stats
  BY <1>1 DEF Sync, Unsynced, LoseSync, p25_reset_stats, InFrame
<1>2. CASE Pass
  <2> USE <1>2 DEF Pass, Count, Counters, Ticks, InFrame
  <2>1. CASE voice_state >= 1
    <3>1. VoiceDue /\ skip
      BY <2>1 DEF VoiceDue
    <3>2. PICK q \in Nat : InWord(q)
      BY <2>1
    <3>3. bit_count <= 142
      BY <2>1 DEF Voice, HexWords
    <3> QED
      BY <2>1, <3>1, <3>2, <3>3, StaysInWord
  <2>2. CASE voice_state = 0 /\ duid \in {"ldu1", "ldu2"}
    BY <2>2 DEF skip, VoiceDue
  <2>3. CASE voice_state = 0 /\ duid = "hdu" /\ ~words_done
    <3>1. PICK k \in Nat : InHeader(k)
      BY <2>3
    <3>2. bit_count' <= 424
      BY <2>3 DEF WordDue
    <3> QED
      BY <2>3, <3>1, <3>2, StaysInHeader
  <2> QED
    BY <2>1, <2>2, <2>3
<1>3. CASE Nid
  BY <1>3 DEF Nid, Nac, DuidBits, ForeignNetwork, Count, Counters, Ticks, InFrame
<1>4. CASE Unit
  <2>1. CASE HDU
    <3>1. InHeader(0)'
      BY <2>1 DEF HDU, DataUnit, NidComplete, Ticks, InHeader, skip
    <3> QED
      BY <2>1, <3>1 DEF HDU, DataUnit, NidComplete
  <2>2. CASE LDU1 \/ LDU2
    BY <2>2 DEF LDU1, LDU2, DataUnit, NidComplete, Ticks, skip
  <2>3. CASE LDU2OutOfTurn \/ TDU \/ TDULC \/ OtherUnit
    BY <2>3 DEF LDU2OutOfTurn, TDU, TDULC, OtherUnit, DataUnit, NidComplete
  <2> QED
    BY <1>4, <2>1, <2>2, <2>3 DEF Unit
<1>5. CASE HeaderDibit
  <2> USE <1>5 DEF HeaderDibit, WordDue, Count, Counters, Ticks, InFrame
  <2>1. PICK k \in Nat : InHeader(k)
    OBVIOUS
  <2> QED
    BY <2>1, StaysInHeader
<1>6. ASSUME NEW says \in {"clear", "encrypted", "other", "errors"}, Header(says)
      PROVE  InFrame!2'
  BY <1>6 DEF Header, WordDue
<1>7. CASE VoiceBegins
  <2>1. status_bit_counter' = 22 /\ bit_count' = 0 /\ voice_state' = 1 /\ pos' = 33
    BY <1>7 DEF VoiceBegins, VoiceDue, Realigned, InFrame
  <2>2. WordStart(voice_state)' = 64
    BY <2>1 DEF WordStart, HexWords
  <2>3. InWord(1)'
    BY <2>1, <2>2 DEF InWord
  <2> QED
    BY <2>1, <2>3
<1>8. CASE VoiceDibit \/ HexDibit
  <2> USE <1>8 DEF VoiceDibit, HexDibit, Count, Counters, Ticks, InFrame, Voice, HexWords
  <2>1. PICK q \in Nat : InWord(q)
    OBVIOUS
  <2> QED
    BY <2>1, StaysInWord
<1>9. CASE VoiceFrame \/ HexEnds
  <2> USE <1>9 DEF VoiceFrame, HexEnds, Counters, Ticks, InFrame
  <2>1. PICK q \in Nat : InWord(q)
    BY DEF Voice, HexWords
  <2>2. CASE voice_state = 16
    BY <2>2 DEF HexWords
  <2>3. CASE voice_state # 16
    <3>1. /\ voice_state' = voice_state + 1 /\ voice_state \in 1 .. 15
          /\ bit_count' = 0 /\ pos' = pos + 1
          /\ status_bit_counter' = status_bit_counter + 1 /\ status_bit_counter # 36
      BY <2>3 DEF skip, Voice, HexWords
    <3>2. WordStart(voice_state) \in Nat
      BY <3>1 DEF WordStart, HexWords
    <3>3. ASSUME VoiceFrame
          PROVE  WordStart(voice_state) + bit_count + 2 = WordStart(voice_state + 1)
      <4>1. voice_state \in Voice /\ voice_state # 16 /\ bit_count = 142
        BY <2>3, <3>3
      <4>2. WordStart(voice_state) + 144 = WordStart(voice_state + 1)
        BY <4>1, NextWord, ZenonT(40)
      <4> QED
        BY <3>2, <4>1, <4>2
    <3>4. ASSUME HexEnds
          PROVE  WordStart(voice_state) + bit_count + 2 = WordStart(voice_state + 1)
      <4>1. \/ voice_state \in HexWords /\ bit_count = 38
            \/ voice_state = 15 /\ bit_count = 30
        BY <3>4
      <4>2. voice_state \in HexWords => WordStart(voice_state) + 40 = WordStart(voice_state + 1)
        BY NextWord, ZenonT(20)
      <4>3. voice_state = 15 => WordStart(voice_state) + 32 = WordStart(voice_state + 1)
        BY NextWord
      <4> QED
        BY <3>2, <4>1, <4>2, <4>3
    <3>5. WordStart(voice_state) + bit_count + 2 = WordStart(voice_state + 1)
      BY <1>9, <3>3, <3>4
    <3>6. WordStart(voice_state)' = WordStart(voice_state) + bit_count + 2
      BY <3>1, <3>5
    <3>7. InWord(q)'
      BY <2>1, <3>1, <3>2, <3>6 DEF InWord
    <3> QED
      BY <3>1, <3>7
  <2> QED
    BY <2>2, <2>3
<1>10. CASE UNCHANGED vars
  <2>1. \A n \in Nat : (InWord(n) => InWord(n)') /\ (InHeader(n) => InHeader(n)')
    BY <1>10 DEF vars, InWord, InHeader
  <2> QED
    BY <1>10, <2>1 DEF vars, InFrame
<1> QED
  BY <1>1, <1>2, <1>3, <1>4, <1>5, <1>6, <1>7, <1>8, <1>9, <1>10 DEF Next, LDU

(* Inside a voice codeword, the dibit comes from its place.                *)
LEMMA VoiceInPlace ==
  ASSUME TypeInv, InFrame, misreads = 0, is_synced > 0, ~skip, voice_state \in Voice
  PROVE  /\ ~IsStatus(pos + 1)
         /\ DataDibits(pos + 1) = CodewordStart(Codeword(voice_state)) + (bits - 2) \div 2 + 1
<1> USE DEF TypeInv, TypeOK, CountersOK
<1>1. PICK q \in Nat : InWord(q)
  BY DEF InFrame, Voice
<1>2. bits = bit_count + 2 /\ status_bit_counter \in 1 .. 35
  BY <1>1, BitsRange DEF InWord, skip
<1>3. WordStart(voice_state) = 2 * CodewordStart(Codeword(voice_state))
  BY NextWord
<1>4. CodewordStart(Codeword(voice_state)) \in Nat
  BY DEF CodewordStart, Codeword, Voice
<1>5. (pos + 25) % 36 = status_bit_counter /\ (pos + 25) \div 36 = q
  BY <1>1, <1>2 DEF InWord
<1>6. 2 * (pos - q) = 2 * CodewordStart(Codeword(voice_state)) + bit_count
  BY <1>1, <1>3 DEF InWord
<1> QED
  BY <1>1, <1>2, <1>4, <1>5, <1>6 DEF IsStatus, DataDibits

(* A header's dibit comes from its place or the next.                      *)
LEMMA HeaderInPlace ==
  ASSUME TypeInv, InFrame, misreads = 0, is_synced > 0, ~skip, WordDue
  PROVE  DataDibits(pos + 1) - (32 + 108 + (bits - 284) \div 2 + 1) \in -1 .. 1
<1> USE DEF TypeInv, TypeOK, CountersOK
<1>1. PICK k \in Nat : InHeader(k)
  BY DEF InFrame, WordDue
<1>2. bits = bit_count + 2
  BY BitsRange DEF WordDue
<1>3. (bits - 284) \div 2 = 35 * k + status_bit_counter - 141
  BY <1>1, <1>2 DEF InHeader
<1>4. (pos + 25) \div 36 \in k .. k + 1
  BY <1>1 DEF InHeader
<1> QED
  BY <1>1, <1>3, <1>4 DEF InHeader, DataDibits

(* DibitsInPlace: voice is sampled where the air interface puts it, the    *)
(* header no more than a dibit beside.                                     *)
THEOREM SampledInPlace == Spec => DibitsInPlace
<1>1. Init => Placed
  BY TypeInit DEF Init, Placed, Window, InFrame
<1>2. Placed /\ [Next]_vars => Placed'
  BY TypeStep, WindowStep, InFrameStep DEF Placed
<1>3. ASSUME Placed, [Next]_vars, misreads = 0, pos' = pos + 1, ~skip
      PROVE  DibitsInPlace!1
  <2>1. is_synced > 0
    BY <1>3 DEF Placed, TypeInv, TypeOK, CountersOK, Next, vars, Sync, Unsynced,
                LoseSync, p25_reset_stats, Pass, Nid, Nac, DuidBits, ForeignNetwork, Unit, HDU,
                LDU1, LDU2, LDU2OutOfTurn, TDU, TDULC, OtherUnit, DataUnit, NidComplete,
                HeaderDibit, Header, LDU, VoiceBegins, VoiceDibit, VoiceFrame, HexDibit,
                HexEnds, Count, Counters, Ticks
  <2> QED
    BY <1>3, <2>1, VoiceInPlace, HeaderInPlace DEF Placed
<1> QED
  BY <1>1, <1>2, <1>3, PTL DEF Spec, DibitsInPlace

-----------------------------------------------------------------------------
(* The scanner.                                                            *)

LEMMA Timeouts ==
  /\ FOUND \in Nat /\ HOP \in Nat /\ IN_SYNC \in Nat /\ SYNC_FOUND \in Nat
  /\ CALL_ENDS \in Nat
  /\ 0 < FOUND /\ 0 < CALL_ENDS
  /\ FOUND < IN_SYNC /\ HOP < IN_SYNC /\ CALL_ENDS < IN_SYNC /\ IN_SYNC < SYNC_FOUND
BY ScannerAssumption

LEMMA Sizes ==
  /\ N_SAMPLES \in Nat /\ N_SAMPLES > 1
  /\ BATCHES \subseteq Nat
  /\ CHANNELS \in Nat /\ CHANNELS > 2
  /\ RESET_TICKS \in Nat
BY ScannerAssumption

-----------------------------------------------------------------------------
(* What a block makes of the timeout and of found_signal.                  *)
LEMMA BlockTimeout ==
  ASSUME ScannerTypeOK, NEW loud \in BOOLEAN
  PROVE  /\ Timeout(loud) \in 0 .. SYNC_FOUND
         /\ Found(loud) \in BOOLEAN
         /\ ~Finds(loud) => Timeout(loud) = IF channel_timeout > 0
                                             THEN channel_timeout - 1 ELSE 0
         /\ Finds(loud) => Timeout(loud) = FOUND - 1
<1> USE Timeouts DEF ScannerTypeOK, Timeout, Finds
<1>1. Timeout(loud) \in 0 .. SYNC_FOUND
  OBVIOUS
<1>2. Found(loud) \in BOOLEAN
  BY DEF Found
<1> QED
  BY <1>1, <1>2

LEMMA InitTypeOK == ScannerInit => ScannerTypeOK
<1> SUFFICES ASSUME ScannerInit PROVE ScannerTypeOK
  OBVIOUS
<1>1. found_signal \in BOOLEAN /\ synced \in BOOLEAN /\ up \in BOOLEAN /\ cut \in BOOLEAN
  BY DEF ScannerInit
<1>2. /\ scanner_mode \in {0, 1} /\ scanner_channel \in 0 .. CHANNELS - 1
      /\ channel_timeout \in 0 .. SYNC_FOUND /\ stddev_n \in 0 .. N_SAMPLES - 2
      /\ p25_reset_tick \in 0 .. RESET_TICKS + 1 /\ missed \in 0 .. IN_SYNC
  BY Timeouts, Sizes DEF ScannerInit
<1>3. ss_q \in {"null", "set"} /\ band \in {"active", "silent"}
  BY DEF ScannerInit
<1> QED
  BY <1>1, <1>2, <1>3 DEF ScannerTypeOK

LEMMA StepTypeOK == ScannerTypeOK /\ [ScannerNext]_scanner_vars => ScannerTypeOK'
<1> SUFFICES ASSUME ScannerTypeOK, [ScannerNext]_scanner_vars PROVE ScannerTypeOK'
  OBVIOUS
<1> USE Timeouts, Sizes DEF ScannerTypeOK
<1>1. ASSUME NEW n \in BATCHES, PartOfBlock(n) PROVE ScannerTypeOK'
  BY <1>1 DEF PartOfBlock
<1>2. ASSUME NEW n \in BATCHES, NEW loud \in BOOLEAN, Block(n, loud) PROVE ScannerTypeOK'
  <2>1. Timeout(loud) \in 0 .. SYNC_FOUND /\ Found(loud) \in BOOLEAN
    BY BlockTimeout
  <2>2. found_signal' \in BOOLEAN
    BY <1>2, <2>1 DEF Block
  <2>3. cut' \in BOOLEAN
    BY <1>2 DEF Block
  <2>4. scanner_channel' \in 0 .. CHANNELS - 1
    BY <1>2 DEF Block, NextChannel
  <2>5. channel_timeout' \in 0 .. SYNC_FOUND
    BY <1>2, <2>1 DEF Block, Hold
  <2>6. missed' \in 0 .. IN_SYNC /\ stddev_n' \in 0 .. N_SAMPLES - 2
    BY <1>2 DEF Block
  <2>7. UNCHANGED <<scanner_mode, synced, ss_q, p25_reset_tick, up, band>>
    BY <1>2 DEF Block
  <2> QED
    BY <2>2, <2>3, <2>4, <2>5, <2>6, <2>7
<1>3. CASE SyncFound
  BY <1>3 DEF SyncFound, Decode
<1>4. CASE CallEnds
  BY <1>4 DEF CallEnds, Decode
<1>5. CASE SyncLost
  BY <1>5 DEF SyncLost, Decode
<1>6. CASE Tick
  BY <1>6 DEF Tick
<1>7. CASE Reset
  <2>1. synced' \in BOOLEAN /\ cut' \in BOOLEAN
    BY <1>7 DEF Reset
  <2>2. channel_timeout' \in 0 .. SYNC_FOUND /\ p25_reset_tick' = 0
    BY <1>7 DEF Reset
  <2>3. UNCHANGED <<scanner_mode, scanner_channel, found_signal, stddev_n, ss_q, up,
                    band, missed>>
    BY <1>7 DEF Reset
  <2> QED
    BY <2>1, <2>2, <2>3
<1>8. ASSUME NEW m \in {0, 1}, SetMode(m) PROVE ScannerTypeOK'
  BY <1>8 DEF SetMode
<1>9. CASE Uptime
  BY <1>9 DEF Uptime
<1>10. CASE Silence
  BY <1>10 DEF Silence
<1>11. CASE UNCHANGED scanner_vars
  BY <1>11 DEF scanner_vars
<1> QED
  BY <1>1, <1>2, <1>3, <1>4, <1>5, <1>6, <1>7, <1>8, <1>9, <1>10, <1>11
  DEF ScannerNext, Samples, p25_net_tick

(* The channel stays inside the scanner's tables and the block inside      *)
(* stddev_in, in every order of blocks, decoder events and commands.       *)
THEOREM ScannerTypeCorrect == ScannerSpec => []ScannerTypeOK
BY InitTypeOK, StepTypeOK, PTL DEF ScannerSpec

-----------------------------------------------------------------------------
(* A block never takes the scanner from a running timeout, or from no      *)
(* signal, to a found signal without timeout.                              *)
LEMMA BlockDoesNotPark ==
  ASSUME ScannerTypeOK, NEW n \in BATCHES, NEW loud \in BOOLEAN, Block(n, loud), ~Parked
  PROVE  ~Parked'
<1> USE Timeouts DEF ScannerTypeOK
<1>1. SUFFICES ASSUME found_signal' PROVE channel_timeout' # 0
  BY DEF Parked
<1>2. Found(loud)
  BY <1>1 DEF Block
<1>3. Timeout(loud) > 0
  <2>1. CASE Finds(loud)
    <3>1. FOUND # 1
      BY <1>2, <2>1 DEF Found
    <3> QED
      BY <2>1, <3>1, BlockTimeout
  <2>2. CASE ~Finds(loud)
    <3>1. found_signal /\ channel_timeout # 1
      BY <1>2, <2>2 DEF Found
    <3>2. channel_timeout # 0
      BY <3>1 DEF Parked
    <3> QED
      BY <2>2, <3>1, <3>2, BlockTimeout
  <2> QED
    BY <2>1, <2>2
<1>4. channel_timeout' = Hold(loud)
  BY <1>2, <1>3 DEF Block, Leaves
<1> QED
  BY <1>3, <1>4, BlockTimeout DEF Hold

(* The scanner is parked on a channel by nothing but the decoder's reset   *)
(* while it holds a signal.                                                *)
THEOREM ScannerParkedOnlyByReset == ScannerSpec => ParkedOnlyByReset
<1>1. ScannerTypeOK /\ [ScannerNext]_scanner_vars =>
        [ (~Parked /\ Parked') => Reset /\ found_signal ]_scanner_vars
  <2> SUFFICES ASSUME ScannerTypeOK, [ScannerNext]_scanner_vars, ~Parked, Parked'
               PROVE  Reset /\ found_signal
    OBVIOUS
  <2> USE Timeouts
  <2>1. ASSUME NEW n \in BATCHES, NEW loud \in BOOLEAN, Block(n, loud) PROVE FALSE
    BY <2>1, BlockDoesNotPark
  <2>2. CASE SyncFound
    BY <2>2 DEF SyncFound, Decode, Parked
  <2>3. CASE CallEnds
    BY <2>3 DEF CallEnds, Decode, Parked
  <2>4. CASE Reset
    <3>1. found_signal' /\ UNCHANGED found_signal
      BY <2>4 DEF Reset, Parked
    <3> QED
      BY <2>4, <3>1
  <2>5. UNCHANGED <<found_signal, channel_timeout>> => FALSE
    BY DEF Parked
  <2> QED
    BY <2>1, <2>2, <2>3, <2>4, <2>5
    DEF ScannerNext, Samples, PartOfBlock, SyncLost, Decode, p25_net_tick, Tick, SetMode,
        Uptime, Silence, scanner_vars
<1> QED
  BY <1>1, InitTypeOK, StepTypeOK, PTL DEF ScannerSpec, ParkedOnlyByReset

-----------------------------------------------------------------------------
(* Why a call keeps its channel: until its sync has been missed IN_SYNC    *)
(* times, or something has cut the timeout short, the timeout still to run *)
(* makes up for the blocks missed; it is of no consequence on a parked     *)
(* scanner, and a decoder frozen in sync blocks the hop by itself.         *)
StillHeld ==
  IF found_signal THEN channel_timeout = 0 \/ channel_timeout + missed >= IN_SYNC
                  ELSE synced

HoldInv == cut \/ missed = IN_SYNC \/ StillHeld

LEMMA InitHoldInv == ScannerInit => HoldInv
BY DEF ScannerInit, HoldInv

LEMMA BlockHoldInv ==
  ASSUME ScannerTypeOK, HoldInv, NEW n \in BATCHES, NEW loud \in BOOLEAN, Block(n, loud)
  PROVE  /\ HoldInv'
         /\ scanner_channel' # scanner_channel => missed' = IN_SYNC \/ cut
<1> USE Timeouts DEF ScannerTypeOK
<1>1. CASE synced
  <2>1. ~Leaves(loud) /\ UNCHANGED <<scanner_channel, synced>>
    BY <1>1 DEF Block, Leaves
  <2>2. missed' = 0
    BY <1>1 DEF Block
  <2>3. CASE ~Found(loud)
    <3>1. ~found_signal' /\ synced'
      BY <1>1, <2>1, <2>3 DEF Block
    <3> QED
      BY <2>1, <3>1 DEF HoldInv, StillHeld
  <2>4. CASE Found(loud) /\ Timeout(loud) = 0
    <3>1. found_signal' /\ channel_timeout' = 0
      BY <2>1, <2>4 DEF Block
    <3> QED
      BY <2>1, <3>1 DEF HoldInv, StillHeld
  <2>5. CASE Found(loud) /\ Timeout(loud) > 0
    <3>1. found_signal'
      BY <2>5 DEF Block
    <3>2. channel_timeout' = IN_SYNC
      BY <1>1, <2>1, <2>5 DEF Block, Hold
    <3> QED
      BY <2>1, <2>2, <3>1, <3>2 DEF HoldInv, StillHeld
  <2> QED
    BY <2>3, <2>4, <2>5, BlockTimeout
<1>2. CASE ~synced
  <2>1. missed' = IF missed < IN_SYNC THEN missed + 1 ELSE missed
    BY <1>2 DEF Block
  <2>2. cut' = cut
    BY <1>2 DEF Block
  <2>3. CASE cut
    BY <2>2, <2>3 DEF HoldInv
  <2>4. CASE missed = IN_SYNC
    BY <2>1, <2>4 DEF HoldInv
  <2>5. CASE ~cut /\ missed # IN_SYNC
    <3>1. found_signal /\ (channel_timeout = 0 \/ channel_timeout + missed >= IN_SYNC)
      BY <1>2, <2>5 DEF HoldInv, StillHeld
    <3>2. ~Finds(loud)
      BY <3>1 DEF Finds
    <3>3. CASE channel_timeout = 1
      <4>1. missed' = IN_SYNC
        BY <2>1, <3>1, <3>3, <2>5
      <4> QED
        BY <4>1 DEF HoldInv
    <3>4. CASE channel_timeout # 1
      <4>1. Found(loud)
        BY <3>1, <3>2, <3>4 DEF Found
      <4>2. found_signal' /\ UNCHANGED scanner_channel
        BY <4>1 DEF Block, Leaves
      <4>3. Timeout(loud) = IF channel_timeout > 0 THEN channel_timeout - 1 ELSE 0
        BY <3>2, BlockTimeout
      <4>4. channel_timeout' = Timeout(loud)
        BY <1>2, <4>1 DEF Block, Leaves, Hold
      <4>5. channel_timeout' = 0 \/ channel_timeout' + missed' >= IN_SYNC
        BY <2>1, <2>5, <3>1, <4>3, <4>4
      <4> QED
        BY <4>2, <4>5 DEF HoldInv, StillHeld
    <3> QED
      BY <3>3, <3>4
  <2> QED
    BY <2>3, <2>4, <2>5
<1> QED
  BY <1>1, <1>2

LEMMA StepHoldInv == ScannerTypeOK /\ HoldInv /\ [ScannerNext]_scanner_vars => HoldInv'
<1> SUFFICES ASSUME ScannerTypeOK, HoldInv, [ScannerNext]_scanner_vars PROVE HoldInv'
  OBVIOUS
<1> USE Timeouts DEF ScannerTypeOK
<1>1. ASSUME NEW n \in BATCHES, NEW loud \in BOOLEAN, Block(n, loud) PROVE HoldInv'
  BY <1>1, BlockHoldInv
<1>2. CASE SyncFound
  BY <1>2 DEF SyncFound, Decode, HoldInv, StillHeld
<1>3. CASE CallEnds
  BY <1>3 DEF CallEnds, HoldInv
<1>4. CASE SyncLost
  <2>1. found_signal /\ UNCHANGED <<found_signal, channel_timeout, missed, cut>>
    BY <1>4 DEF SyncLost, Decode
  <2> QED
    BY <2>1 DEF HoldInv, StillHeld
<1>5. CASE Reset
  <2>1. CASE ss_q = "set"
    <3>1. cut'
      BY <1>5, <2>1 DEF Reset
    <3> QED
      BY <3>1 DEF HoldInv
  <2>2. CASE ss_q # "set"
    <3>1. UNCHANGED <<found_signal, missed>> /\ channel_timeout' = channel_timeout
      BY <1>5, <2>2 DEF Reset
    <3>2. (synced' <=> synced) /\ (cut' <=> cut)
      BY <1>5, <2>2 DEF Reset, ResetsSync
    <3> QED
      BY <3>1, <3>2 DEF HoldInv, StillHeld
  <2> QED
    BY <2>1, <2>2
<1>6. UNCHANGED <<found_signal, channel_timeout, synced, missed, cut>> => HoldInv'
  BY DEF HoldInv, StillHeld
<1> QED
  BY <1>1, <1>2, <1>3, <1>4, <1>5, <1>6
  DEF ScannerNext, Samples, PartOfBlock, p25_net_tick, Tick, SetMode, Uptime, Silence, scanner_vars

(* The scanner leaves the channel of a call only after IN_SYNC blocks in a *)
(* row without sync, unless the timeout was cut short.                     *)
THEOREM ScannerCallKeepsChannel == ScannerSpec => CallKeepsChannel
<1>1. ScannerTypeOK /\ HoldInv /\ [ScannerNext]_scanner_vars =>
        [ scanner_channel' # scanner_channel => missed' = IN_SYNC \/ cut ]_scanner_vars
  <2> SUFFICES ASSUME ScannerTypeOK, HoldInv, [ScannerNext]_scanner_vars,
                      scanner_channel' # scanner_channel
               PROVE  missed' = IN_SYNC \/ cut
    OBVIOUS
  <2>1. PICK n \in BATCHES, loud \in BOOLEAN : Block(n, loud)
    BY DEF ScannerNext, Samples, PartOfBlock, SyncFound, CallEnds, SyncLost, Decode,
           p25_net_tick, Tick, Reset, SetMode, Uptime, Silence, scanner_vars
  <2> QED
    BY <2>1, BlockHoldInv
<1> QED
  BY <1>1, InitTypeOK, StepTypeOK, InitHoldInv, StepHoldInv, PTL DEF ScannerSpec, CallKeepsChannel

=============================================================================
