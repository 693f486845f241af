--------------------------- MODULE MCIqDoubleBuffer ---------------------------
(* IqDoubleBuffer with banks of five words and the slowest processor that  *)
(* still outruns the samples: two words copied per sample.  Six half       *)
(* numbers: the banks and the block never hold more than four.             *)
EXTENDS IqDoubleBuffer

=============================================================================
