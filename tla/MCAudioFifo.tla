----------------------------- MODULE MCAudioFifo -----------------------------
(* AudioFifo with halves of four words; the refill may still be running    *)
(* when the player is one word short of the last of the half.              *)
EXTENDS AudioFifo

MCLatest == HALF - 2
=============================================================================
