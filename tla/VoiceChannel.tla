----------------------------- MODULE VoiceChannel -----------------------------
(***************************************************************************)
(* What the voice path promises: the samples the decoder makes are heard   *)
(* once each and in order, with any amount of silence before, between and  *)
(* after them.  Two things may go wrong and no others: the sample just     *)
(* made may be slurred, that is, be heard as something else in its place,  *)
(* and the order may be spoiled, after which nothing is promised.          *)
(***************************************************************************)
EXTENDS Integers

CONSTANTS SILENCE, SLUR  \* sounds that are not samples

VARIABLES
  made,    \* samples made
  heard,   \* samples heard
  sound,   \* what is heard now: a sample's number, SLUR, or SILENCE
  slurred, \* samples that were asked for before they were there
  stream   \* "clean" or "spoiled"

vars == <<made, heard, sound, slurred, stream>>

Init ==
  /\ made = 0
  /\ heard = 0
  /\ sound = SILENCE
  /\ slurred = {}
  /\ stream = "clean"

Speak ==
  /\ made' = made + 1
  /\ UNCHANGED <<heard, sound, slurred, stream>>

Slur ==
  /\ made > heard
  /\ slurred' = slurred \cup {made}
  /\ UNCHANGED <<made, heard, sound, stream>>

Hear ==
  /\ heard < made
  /\ heard' = heard + 1
  /\ sound' = heard' \/ (heard' \in slurred /\ sound' = SLUR)
  /\ UNCHANGED <<made, slurred, stream>>

Rest ==
  /\ sound' = SILENCE
  /\ UNCHANGED <<made, heard, slurred, stream>>

(* The order is lost; from then on anything may be heard. *)
Spoil == stream' = "spoiled"

Next == Speak \/ Slur \/ Hear \/ Rest \/ Spoil

Spec == Init /\ [][Next]_vars

=============================================================================
