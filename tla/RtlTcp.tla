-------------------------------- MODULE RtlTcp --------------------------------
(***************************************************************************)
(* The rtl_tcp server (rtl_tcp_driver.c): sessions of a remote receiver    *)
(* (GQRX), their five-byte commands and the settings of the radio they     *)
(* change; and everything else that sets the radio's rate and gain or      *)
(* their configured values: the console's commands, the scanner and the    *)
(* initialisation of the radio.  Callbacks, commands and the scanner run   *)
(* in the main loop, one after the other.                                  *)
(*                                                                         *)
(* A segment reaches the callback as a single pbuf: every frame is received*)
(* into one, and lwIP does not queue segments out of order in this build.  *)
(* The loop over its bytes is modelled iteration by iteration, with the    *)
(* value cmd_mod happens to have on the stack.                             *)
(***************************************************************************)
EXTENDS Integers

CONSTANTS
  CONNS,    \* connections
  LENGTHS,  \* lengths of segments
  GAINS,    \* gains asked for, 0 left out: 0 is the AGC
  RATES,    \* values of srate asked for on the console
  MODES,    \* values of sa_mode and scanner_mode asked for on the console
  SAVED     \* configurations that read_config may find

RATE == 2000000
DEFAULT == 800000
Rates == {4000000, 2000000, 1333333, 1000000, 800000, 666666, 500000, 400000}
AGC == -1
Gains == 0 .. 31 \cup {AGC}
Configs == [srate : Int, rfgain : Int, sa_mode : Int, scanner_mode : Int]

ASSUME RtlAssumption ==
  /\ LENGTHS \subseteq Nat \ {0}
  /\ GAINS \subseteq 1 .. 23
  /\ RATES \subseteq Rates
  /\ MODES \subseteq Int
  /\ SAVED \subseteq Configs

VARIABLES
  do_gqrx, first_agc, prev_gain,
  srate, gain,   \* the radio's sample rate and gain control word, or AGC
  did_atrf_init, \* has the radio been initialised?
  config,        \* config->srate, ->rfgain, ->sa_mode and ->scanner_mode
  open,          \* connections established
  pc,            \* "idle", or "loop" in rtl_tcp_driver_recv
  len, i, cmd_mod,
  done,          \* commands taken from the segment: ptr is 5 * done
  wanted,        \* history: config->sa_mode as last set other than by a session
  parted         \* history: what has been set on one side only since the last
                 \* session was closed: the stream, the rate, the gain

agc == <<first_agc, prev_gain>>
radio == <<srate, gain, did_atrf_init>>
loop == <<len, i, cmd_mod, done>>
history == <<wanted, parted>>
vars == <<do_gqrx, agc, radio, config, open, pc, loop, history>>

Commands == {"gain", "frequency", "agc on", "agc off", "other"}

\* at86rf215_set_srate: what the radio does not have is taken for the default.
RadioRate(rate) == IF rate \in Rates THEN rate ELSE DEFAULT

\* at86rf215_set_gain: five bits of it, unless it is 0.
RadioGain(g) == IF g = 0 THEN AGC ELSE g % 32

Parts(what) == parted' = IF open = {} THEN parted \cup what ELSE parted

-----------------------------------------------------------------------------

(* The configuration is not read from flash.  The radio is as its power-on *)
(* left it: nothing sets it before a session or the console does.          *)
Init ==
  /\ do_gqrx = 0
  /\ first_agc = 1
  /\ prev_gain = 0
  /\ srate \in Rates
  /\ gain \in Gains
  /\ did_atrf_init = 0
  /\ config = [srate |-> DEFAULT, rfgain |-> 0, sa_mode |-> 0, scanner_mode |-> 0]
  /\ open = {}
  /\ pc = "idle"
  /\ len = 0
  /\ i = 0
  /\ cmd_mod = 0
  /\ done = 0
  /\ wanted = 0
  /\ parted = {"rate", "gain"}

rtl_tcp_driver_accept(c) ==
  /\ pc = "idle"
  /\ c \notin open
  /\ open' = open \cup {c}
  /\ do_gqrx' = 1
  /\ srate' = RATE
  /\ config' = [config EXCEPT !.sa_mode = 4]
  /\ gain' = AGC
  /\ parted' = {}
  /\ UNCHANGED <<agc, did_atrf_init, pc, loop, wanted>>

(* Data arrives: cmd_mod is not initialised, so that any of the five       *)
(* remainders can come first.                                              *)
rtl_tcp_driver_recv(c, n) ==
  /\ pc = "idle"
  /\ c \in open
  /\ pc' = "loop"
  /\ len' = n
  /\ i' = 0
  /\ cmd_mod' \in 0 .. 4
  /\ done' = 0
  /\ UNCHANGED <<do_gqrx, agc, radio, config, open, history>>

Iterates == pc = "loop" /\ i < len

Skip ==
  /\ Iterates
  /\ cmd_mod # 4
  /\ cmd_mod' = cmd_mod + 1
  /\ i' = i + 1
  /\ UNCHANGED <<do_gqrx, agc, radio, config, open, pc, len, done, history>>

\* Mutant: the loop's own increment is made up for.
AfterCommand_ByFive == i + 5

(* i += 5, and i++ at the end of the iteration. *)
AfterCommand == i + 6

\* Mutant: the limit of a gain is off by one.
SetGain_OneMore(cmd) ==
  /\ cmd = "gain"
  /\ prev_gain' \in GAINS \cup {24}
  /\ gain' = RadioGain(prev_gain')
  /\ UNCHANGED first_agc

(* What a command does to the radio.  A gain is brought into 1 .. 23; of a *)
(* command cut by TCP anything may be read.                                *)
SetGain(cmd) ==
  /\ cmd = "gain"
  /\ prev_gain' \in GAINS
  /\ gain' = RadioGain(prev_gain')
  /\ UNCHANGED first_agc

SetFrequency(cmd) ==
  /\ cmd = "frequency"
  /\ first_agc' = 0
  /\ gain' = IF first_agc = 1 THEN AGC ELSE gain
  /\ UNCHANGED prev_gain

SetAgc(cmd) ==
  /\ cmd \in {"agc on", "agc off"}
  /\ gain' = RadioGain(IF cmd = "agc on" THEN 0 ELSE prev_gain)
  /\ UNCHANGED agc

Command(cmd) ==
  /\ Iterates
  /\ cmd_mod = 4
  /\ cmd_mod' = 0
  /\ done' = done + 1
  /\ i' = AfterCommand
  /\ \/ SetGain(cmd) \/ SetFrequency(cmd) \/ SetAgc(cmd)
     \/ cmd = "other" /\ UNCHANGED <<agc, gain>>
  /\ UNCHANGED <<do_gqrx, srate, did_atrf_init, config, open, pc, len, history>>

(* The callback returns, and its variables are no more. *)
Received ==
  /\ pc = "loop"
  /\ i >= len
  /\ pc' = "idle"
  /\ len' = 0 /\ i' = 0 /\ cmd_mod' = 0 /\ done' = 0
  /\ UNCHANGED <<do_gqrx, agc, radio, config, open, history>>

\* Mutant: only the last session restores.
Close_LastOnly(c) ==
  /\ pc = "idle"
  /\ c \in open
  /\ open' = open \ {c}
  /\ do_gqrx' = 0
  /\ first_agc' = 1
  /\ srate' = IF do_gqrx = 1 THEN RadioRate(config.srate) ELSE srate
  /\ gain' = IF do_gqrx = 1 THEN RadioGain(config.rfgain) ELSE gain
  /\ UNCHANGED <<prev_gain, did_atrf_init, config, pc, loop, history>>

(* The callback is told that the peer has closed: "restore settings".      *)
Close(c) ==
  /\ pc = "idle"
  /\ c \in open
  /\ open' = open \ {c}
  /\ do_gqrx' = 0
  /\ first_agc' = 1
  /\ srate' = RadioRate(config.srate)
  /\ gain' = RadioGain(config.rfgain)
  /\ UNCHANGED <<prev_gain, did_atrf_init, config, pc, loop, history>>

(* The peer resets the connection.  There is no tcp_err callback: lwIP     *)
(* drops the connection and tells nobody.                                  *)
Reset(c) ==
  /\ pc = "idle"
  /\ c \in open
  /\ open' = open \ {c}
  /\ parted' = IF open' = {} THEN {"stream", "rate", "gain"} ELSE parted
  /\ UNCHANGED <<do_gqrx, agc, radio, config, pc, loop, wanted>>

-----------------------------------------------------------------------------
(* The console and the scanner.                                            *)

rfgain(g) ==
  /\ pc = "idle"
  /\ config' = [config EXCEPT !.rfgain = g]
  /\ gain' = RadioGain(g)
  /\ parted' = parted \ {"gain"}
  /\ UNCHANGED <<do_gqrx, agc, srate, did_atrf_init, open, pc, loop, wanted>>

\* The command srate.
set_srate(rate) ==
  /\ pc = "idle"
  /\ config' = [config EXCEPT !.srate = rate]
  /\ srate' = RadioRate(rate)
  /\ parted' = parted \ {"rate"}
  /\ UNCHANGED <<do_gqrx, agc, gain, did_atrf_init, open, pc, loop, wanted>>

sa(mode) ==
  /\ pc = "idle"
  /\ config' = [config EXCEPT !.sa_mode = mode]
  /\ wanted' = mode
  /\ UNCHANGED <<do_gqrx, agc, radio, open, pc, loop, parted>>

scanner_mode_off ==
  /\ pc = "idle"
  /\ config' = [config EXCEPT !.scanner_mode = 0]
  /\ UNCHANGED <<do_gqrx, agc, radio, open, pc, loop, history>>

\* Other settings for the scanner, in the configuration alone; without an
\* argument too, while the mode is not 0.
scanner_mode(mode) ==
  /\ pc = "idle"
  /\ mode # 0
  /\ config' = [srate |-> DEFAULT, rfgain |-> 0, sa_mode |-> 0, scanner_mode |-> mode]
  /\ wanted' = 0
  /\ Parts({"rate", "gain"})
  /\ UNCHANGED <<do_gqrx, agc, radio, open, pc, loop>>

\* read_config takes what the sector holds, whatever that is, and leaves the
\* radio alone.
read_config(saved) ==
  /\ pc = "idle"
  /\ config' = saved
  /\ wanted' = saved.sa_mode
  /\ Parts({"rate", "gain"})
  /\ UNCHANGED <<do_gqrx, agc, radio, open, pc, loop>>

(* The first at_dump or at_scan resets the radio and initialises it, for   *)
(* 1333333 samples per second: do_iq_mode is not yet set.  What turns the  *)
(* AGC on is the reset; if that does not, the gain control word is 23.     *)
atrf_check_init ==
  /\ pc = "idle"
  /\ did_atrf_init = 0
  /\ did_atrf_init' = 1
  /\ srate' = 1333333
  /\ gain' \in {AGC, 23}
  /\ Parts({"rate", "gain"})
  /\ UNCHANGED <<do_gqrx, agc, config, open, pc, loop, wanted>>

scanner_gain == {8, 12}

(* The scanner goes to the next channel, for which it has a gain.          *)
scanner_next_channel ==
  /\ pc = "idle"
  /\ config.scanner_mode = 1
  /\ gain' \in scanner_gain
  /\ Parts({"gain"})
  /\ UNCHANGED <<do_gqrx, agc, srate, did_atrf_init, config, open, pc, loop, wanted>>

-----------------------------------------------------------------------------

Session(c) ==
  \/ rtl_tcp_driver_accept(c)
  \/ \E n \in LENGTHS : rtl_tcp_driver_recv(c, n)
  \/ Close(c)
  \/ Reset(c)

Console ==
  \/ \E g \in GAINS \cup {0} : rfgain(g)
  \/ \E rate \in RATES : set_srate(rate)
  \/ \E mode \in MODES : sa(mode)
  \/ scanner_mode_off
  \/ \E mode \in MODES \cup {config.scanner_mode} : scanner_mode(mode)
  \/ \E saved \in SAVED : read_config(saved)
  \/ atrf_check_init

Next ==
  \/ \E c \in CONNS : Session(c)
  \/ Skip
  \/ \E cmd \in Commands : Command(cmd)
  \/ Received
  \/ Console
  \/ scanner_next_channel

Spec == Init /\ [][Next]_vars

-----------------------------------------------------------------------------
(* cmd_mod stays below five, the loop stops less than one command after    *)
(* the segment, and rate, gain and shadow are ones the radio has.          *)
TypeOK ==
  /\ do_gqrx \in {0, 1}
  /\ first_agc \in {0, 1}
  /\ prev_gain \in GAINS \cup {0}
  /\ srate \in Rates
  /\ gain \in Gains
  /\ did_atrf_init \in {0, 1}
  /\ config \in Configs
  /\ open \subseteq CONNS
  /\ pc \in {"idle", "loop"}
  /\ len \in Nat
  /\ i \in 0 .. len + 5
  /\ cmd_mod \in 0 .. 4
  /\ done \in Nat
  /\ wanted \in Int
  /\ parted \subseteq {"stream", "rate", "gain"}

(* Of a segment of m times five bytes exactly the first half of the fives, *)
(* the middle one included, is executed and echoed, whatever cmd_mod was:  *)
(* a command sent on its own is never lost, one that TCP has merged with   *)
(* another may be.                                                         *)
FirstHalfTaken ==
  (pc = "loop" /\ i >= len /\ len % 5 = 0) => done = (len \div 5 + 1) \div 2

(* However sessions have overlapped with each other, with the console, the *)
(* scanner and a first look at the radio's registers: when the last one is *)
(* closed, I/Q is no longer streamed and the radio is back at the          *)
(* configuration's rate and gain, or at what the radio makes of them when  *)
(* it does not have them.  They stay together until one of the two sides   *)
(* alone is set: the configuration by read_config or scanner_mode, the     *)
(* radio by the first dump or by a hop of the scanner, all three by a last *)
(* session that its peer resets.  Setting the rate or the gain on the      *)
(* console brings that one together again.                                 *)
Restored ==
  open = {} =>
    /\ "stream" \notin parted => do_gqrx = 0
    /\ "rate" \notin parted => srate = RadioRate(config.srate)
    /\ "gain" \notin parted => gain = RadioGain(config.rfgain)

(* rtl_tcp_driver.c: "restore settings".  That would include the sa_mode   *)
(* set before the session.                                                 *)
ModeRestored == (open = {} /\ "stream" \notin parted) => config.sa_mode = wanted

=============================================================================
