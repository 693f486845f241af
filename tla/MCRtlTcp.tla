------------------------------- MODULE MCRtlTcp -------------------------------
(* RtlTcp with two connections and segments of up to three commands, one   *)
(* of the lengths cutting a command.  The sector of the configuration      *)
(* holds one that was saved, or one whose programming was cut short after  *)
(* scanner_mode, the rest being erased.                                    *)
EXTENDS RtlTcp

MCConns == {"a", "b"}
MCLengths == {5, 7, 10, 15}
MCGains == {12}
MCRates == {400000}
MCModes == {0, 1}
MCSaved ==
  {[srate |-> 400000, rfgain |-> 12, sa_mode |-> 0, scanner_mode |-> 0],
   [srate |-> -1, rfgain |-> -1, sa_mode |-> 0, scanner_mode |-> 1]}
=============================================================================
