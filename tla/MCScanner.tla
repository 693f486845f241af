------------------------------- MODULE MCScanner -------------------------------
(* Scanner with three channels, blocks of one or two batches and timeouts  *)
(* in the order of the real ones.                                          *)
EXTENDS Scanner

MCBatches == {2, 6}
=============================================================================
