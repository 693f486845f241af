----------------------------- MODULE MCVoicePath -----------------------------
(* VoicePath with a ring of four slots and halves of three words.          *)
EXTENDS VoicePath

MCFrames == {3}
=============================================================================
