----------------------------- MODULE MCAudioRing -----------------------------
(* AudioRing scaled down: 8 slots, 3 words per interrupt, mark at 4.       *)
EXTENDS AudioRing

MCFrames == {1, 2}
=============================================================================
