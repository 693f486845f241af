---------------------------------- MODULE Rle ----------------------------------
(***************************************************************************)
(* The run-length code of the FPGA image: the two encoders, rle_encode of  *)
(* the firmware (rle.c) and the build tool compress_fpga_image.java, and   *)
(* the decoder, which is the same in rle_decode (rle.c) and                *)
(* fpga_rle_decode (fpga.c).                                               *)
(*                                                                         *)
(* Two equal bytes are followed by the number of further repetitions, at   *)
(* most MAX (255).  The firmware encodes one byte more than it is asked    *)
(* for and the decoder produces one more; the tool encodes just the file.  *)
(* A byte read beyond an array may be any byte.                            *)
(***************************************************************************)
EXTENDS Integers, Sequences

CONSTANTS
  MAX,      \* the longest count
  LENGTHS   \* the lengths of image considered

ASSUME RleAssumption == MAX \in Nat \ {0} /\ LENGTHS \subseteq Nat

Chars == 0 .. MAX
RLE_NULL == -1
Encoders == {"rle_encode", "tool"}

VARIABLES
  encoder,              \* who compressed the image
  in,                   \* what the encoder reads
  index, prevChar, count, in_run,
  code,                 \* what it has written
  decoding,
  ptr, last,            \* the decoder's in pointer and prevChar
  out                   \* the bytes it has produced, or clocked into the FPGA

encode_vars == <<index, prevChar, count, in_run, code>>
decode_vars == <<ptr, last, out>>
rle_vars == <<encoder, in, encode_vars, decoding, decode_vars>>

\* rle_encode's input ends with the byte that follows the image in memory.
len == IF encoder = "rle_encode" THEN Len(in) - 1 ELSE Len(in)
image == SubSeq(in, 1, len)

-----------------------------------------------------------------------------

RleInit ==
  /\ encoder \in Encoders
  /\ \E n \in LENGTHS :
        in \in [1 .. (IF encoder = "rle_encode" THEN n + 1 ELSE n) -> Chars]
  /\ index = 0 /\ prevChar = RLE_NULL /\ count = 0 /\ in_run = FALSE
  /\ code = <<>>
  /\ decoding = FALSE
  /\ ptr = 0 /\ last = RLE_NULL /\ out = <<>>

\* Mutant: rle_encode, too, leaves the last run open.
LastCount_Never(n) == <<>>

(* The test index == len + 1 at the end of the outer loop: in rle_encode   *)
(* it holds after the last byte, in the tool never.                        *)
LastCount(n) ==
  IF encoder = "rle_encode" /\ index' = Len(in) THEN <<n>> ELSE <<>>

\* The body of the outer loop.
EncodeByte ==
  /\ ~in_run /\ index < Len(in)
  /\ index' = index + 1
  /\ LET currChar == in[index'] IN
       /\ in_run' = (currChar = prevChar)
       /\ count' = IF in_run' THEN 0 ELSE count
       /\ prevChar' = currChar
       /\ code' = code \o <<currChar>> \o LastCount(count')
  /\ UNCHANGED <<encoder, in, decoding, decode_vars>>

\* Mutant: after a run of the greatest length the character is not forgotten.
EncodeRepeat_KeepsChar ==
  /\ in_run /\ index < Len(in)
  /\ index' = index + 1
  /\ in[index'] = prevChar
  /\ count' = count + 1
  /\ in_run' = (count' < MAX)
  /\ code' = code \o (IF in_run' THEN <<>> ELSE <<count'>>) \o LastCount(count')
  /\ UNCHANGED <<encoder, in, prevChar, decoding, decode_vars>>

\* Mutant: a count too many.
EncodeRepeat_OneMore ==
  /\ in_run /\ index < Len(in)
  /\ index' = index + 1
  /\ in[index'] = prevChar
  /\ count' = count + 1
  /\ in_run' = (count' <= MAX)
  /\ prevChar' = IF in_run' THEN prevChar ELSE RLE_NULL
  /\ code' = code \o (IF in_run' THEN <<>> ELSE <<count'>>) \o LastCount(count')
  /\ UNCHANGED <<encoder, in, decoding, decode_vars>>

\* The body of the inner loop: one more repetition, or the end of the run.
EncodeRepeat ==
  /\ in_run /\ index < Len(in)
  /\ index' = index + 1
  /\ in[index'] = prevChar
  /\ count' = count + 1
  /\ in_run' = (count' < MAX)
  /\ prevChar' = IF in_run' THEN prevChar ELSE RLE_NULL
  /\ code' = code \o (IF in_run' THEN <<>> ELSE <<count'>>) \o LastCount(count')
  /\ UNCHANGED <<encoder, in, decoding, decode_vars>>

EncodeChange ==
  /\ in_run /\ index < Len(in)
  /\ index' = index + 1
  /\ in[index'] # prevChar
  /\ in_run' = FALSE
  /\ prevChar' = in[index']
  /\ code' = code \o <<count, in[index']>> \o LastCount(count)
  /\ UNCHANGED <<encoder, in, count, decoding, decode_vars>>

\* The compressed image is put where the decoder finds it.
StartDecoding ==
  /\ index = Len(in) /\ ~decoding
  /\ decoding' = TRUE
  /\ UNCHANGED <<encoder, in, encode_vars, decode_vars>>

\* What the decoder may find at a place of the compressed image or beyond it.
ByteAt(k) == IF k <= Len(code) THEN {code[k]} ELSE Chars

\* Mutant: after a run the character is not forgotten.
DecodeByte_KeepsLast ==
  /\ decoding /\ Len(out) < len + 1
  /\ \E currChar \in ByteAt(ptr + 1) :
        /\ last' = currChar
        /\ IF currChar = last
             THEN \E n \in ByteAt(ptr + 2) :
                    /\ out' = out \o [k \in 1 .. n + 1 |-> currChar]
                    /\ ptr' = ptr + 2
             ELSE /\ out' = Append(out, currChar)
                  /\ ptr' = ptr + 1
  /\ UNCHANGED <<encoder, in, encode_vars, decoding>>

\* The body of the decoder's loop.
DecodeByte ==
  /\ decoding /\ Len(out) < len + 1
  /\ \E currChar \in ByteAt(ptr + 1) :
        IF currChar = last
          THEN \E n \in ByteAt(ptr + 2) :
                 /\ out' = out \o [k \in 1 .. n + 1 |-> currChar]
                 /\ last' = RLE_NULL
                 /\ ptr' = ptr + 2
          ELSE /\ out' = Append(out, currChar)
               /\ last' = currChar
               /\ ptr' = ptr + 1
  /\ UNCHANGED <<encoder, in, encode_vars, decoding>>

RleNext == EncodeByte \/ EncodeRepeat \/ EncodeChange \/ StartDecoding \/ DecodeByte

RleSpec == RleInit /\ [][RleNext]_rle_vars

-----------------------------------------------------------------------------

(* Types; a count fits its byte, and the decoder overshoots what it was    *)
(* asked for by one run at most.                                           *)
RleTypeOK ==
  /\ encoder \in Encoders
  /\ in \in Seq(Chars) /\ code \in Seq(Chars) /\ out \in Seq(Chars)
  /\ index \in 0 .. Len(in)
  /\ prevChar \in Chars \cup {RLE_NULL} /\ last \in Chars \cup {RLE_NULL}
  /\ count \in Chars
  /\ in_run \in BOOLEAN /\ decoding \in BOOLEAN
  /\ ptr \in Nat
  /\ Len(out) <= len + 1 + MAX

\* Two sequences agree as far as both go.
Agree(s, t) == \A k \in 1 .. Len(s) : k <= Len(t) => s[k] = t[k]

EndsInRun == len >= 3 /\ image[len] = image[len - 1] /\ image[len] = image[len - 2]

(* What either encoder wrote is read back, with the byte too many if the   *)
(* firmware wrote it, also when the last run is open, of the greatest      *)
(* length, or followed by a stale count; unless the tool's image ends in   *)
(* three equal bytes, for it writes no count for a run that is open then   *)
(* (the file in the repository ends with 01 06 00).  The decoder touches   *)
(* no byte beyond rle_encode's code.  Of the tool's it is made to ask for  *)
(* one byte more than was compressed, and reads at most two of whatever    *)
(* follows it in flash.                                                    *)
ReadBack ==
  IF encoder = "rle_encode" THEN Agree(out, in) /\ ptr <= Len(code)
  ELSE EndsInRun \/ (Agree(out, image) /\ ptr <= Len(code) + 2)
=============================================================================
