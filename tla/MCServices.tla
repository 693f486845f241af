------------------------------ MODULE MCServices ------------------------------
(***************************************************************************)
(* The parts of the firmware beside the signal path: console,              *)
(* configuration store, FPGA image code, Ethernet transmission and iperf   *)
(* server.  They share no variable, so no step of one affects a property   *)
(* of another, and a behaviour here is one of a single part.               *)
(*                                                                         *)
(* Two connections and room for two prints on the console, and a dump that *)
(* waits twice; a configuration of two bytes of two bits, all zero after a *)
(* start; images of up to six bytes and counts of at most two; a ring of   *)
(* two descriptors, for which six names of frames are enough: those in the *)
(* ring, in TxConfig and in hand, and a new one; two iperf clients, the    *)
(* second one in reverse.                                                  *)
(***************************************************************************)
EXTENDS Console, ConfigStore, Rle, EthTx, Iperf

VARIABLE part

Parts == {"console", "config_store", "rle", "eth_tx", "iperf"}

MCConns == {"a", "b"}
MCBits == {1, 2}
MCDefault == [n \in 1 .. 2 |-> {}]
MCLengths == 0 .. 6
MCClients == 1 .. 2
MCReverse == {2}

Init ==
  /\ part \in Parts
  /\ ConsoleInit /\ ConfigInit /\ EthInit /\ IperfInit
  /\ RleInit
  /\ part # "rle" => encoder = "tool" /\ in = <<>>

Runs(p) == part = p /\ UNCHANGED part

Next ==
  \/ /\ Runs("console") /\ ConsoleNext
     /\ UNCHANGED <<config_vars, rle_vars, eth_vars, iperf_vars>>
  \/ /\ Runs("config_store") /\ ConfigNext
     /\ UNCHANGED <<console_vars, rle_vars, eth_vars, iperf_vars>>
  \/ /\ Runs("rle") /\ RleNext
     /\ UNCHANGED <<console_vars, config_vars, eth_vars, iperf_vars>>
  \/ /\ Runs("eth_tx") /\ EthNext
     /\ UNCHANGED <<console_vars, config_vars, rle_vars, iperf_vars>>
  \/ /\ Runs("iperf") /\ IperfNext
     /\ UNCHANGED <<console_vars, config_vars, rle_vars, eth_vars>>

vars == <<part, console_vars, config_vars, rle_vars, eth_vars, iperf_vars>>

(* A part that does not run has nothing to do that is taken to be fair.    *)
Spec == Init /\ [][Next]_vars /\ ConsoleFairness /\ EthFairness /\ IperfFairness

(* The type invariants of all parts: flags that exclude each other, places *)
(* in flash, ring and code that stay inside, counts that fit a byte.       *)
ServicesTypeOK == ConsoleTypeOK /\ ConfigTypeOK /\ RleTypeOK /\ EthTypeOK /\ IperfTypeOK
=============================================================================
