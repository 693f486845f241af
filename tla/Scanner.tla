-------------------------------- MODULE Scanner --------------------------------
(***************************************************************************)
(* The scanner (Src/main.c): calc_stddev decides after every block of      *)
(* samples whether to stay on a channel, and found_signal gates the        *)
(* decoder: p25_decode runs only while it is set.  The decoder in turn     *)
(* sets channel_timeout when it finds sync and at the end of a call, and   *)
(* p25_net_tick resets the decoder AND the timeout when no sync has been   *)
(* found for a while.  All of this runs in the main loop.                  *)
(*                                                                         *)
(* Of the decoder only "in sync or not" is kept (P25Decode has the rest),  *)
(* of the receiver only whether the channel is above its threshold.        *)
(***************************************************************************)
EXTENDS Integers

CONSTANTS
  N_SAMPLES,    \* size of stddev_in (256)
  BATCHES,      \* lengths main passes to calc_stddev
  CHANNELS,     \* scanner_freqs, all of them enabled in scanner_channel_mask
  FOUND,        \* channel_timeout after a signal is found (10)
  HOP,          \* ... after a hop (4)
  IN_SYNC,      \* ... after a block in sync (60)
  SYNC_FOUND,   \* ... after a sync pattern (30*6)
  CALL_ENDS,    \* ... after TDU or TDULC (2)
  RESET_TICKS   \* the 15000 of p25_net_tick

ASSUME ScannerAssumption ==
  /\ N_SAMPLES \in Nat /\ N_SAMPLES > 1
  /\ BATCHES \subseteq Nat \ {0}
  /\ CHANNELS \in Nat /\ CHANNELS > 2
  /\ {FOUND, HOP, IN_SYNC, SYNC_FOUND, CALL_ENDS} \subseteq Nat \ {0}
  /\ \A t \in {FOUND, HOP, CALL_ENDS} : t < IN_SYNC
  /\ IN_SYNC < SYNC_FOUND
  /\ RESET_TICKS \in Nat

VARIABLES
  scanner_mode, scanner_channel, found_signal, channel_timeout, stddev_n,
  synced,          \* is_synced # 0
  ss_q,            \* "null" until p25_decode is called for the first time
  p25_reset_tick,
  up,              \* uptime_sec >= 20
  band,            \* "active", or "silent" from some time on
  missed,          \* history: blocks since the decoder was last in sync
  cut              \* history: was the timeout cut short since?

scanner_vars ==
  <<scanner_mode, scanner_channel, found_signal, channel_timeout, stddev_n,
    synced, ss_q, p25_reset_tick, up, band, missed, cut>>

Parked == found_signal /\ channel_timeout = 0

-----------------------------------------------------------------------------

ScannerInit ==
  /\ scanner_mode = 0
  /\ scanner_channel = 2
  /\ found_signal = FALSE
  /\ channel_timeout = 0
  /\ stddev_n = 0
  /\ synced = FALSE
  /\ ss_q = "null"
  /\ p25_reset_tick = 0
  /\ up = FALSE
  /\ band = "active"
  /\ missed = IN_SYNC
  /\ cut = FALSE

(* A batch is too short to fill the block. *)
PartOfBlock(n) ==
  /\ scanner_mode = 1 /\ stddev_n < N_SAMPLES - 1
  /\ stddev_n + n < N_SAMPLES - 1
  /\ stddev_n' = stddev_n + n
  /\ UNCHANGED <<scanner_mode, scanner_channel, found_signal, channel_timeout,
                 synced, ss_q, p25_reset_tick, up, band, missed, cut>>

(* channel_timeout and found_signal after the first two tests of a block.  *)
Finds(loud) == ~found_signal /\ loud
Timeout(loud) ==
  LET t == IF Finds(loud) THEN FOUND ELSE channel_timeout
  IN  IF t > 0 THEN t - 1 ELSE 0

\* Mutant: the timeout runs out, the signal stays found.
Found_Kept(loud) == found_signal \/ Finds(loud)

Found(loud) ==
  LET t == IF Finds(loud) THEN FOUND ELSE channel_timeout
  IN  (found_signal \/ Finds(loud)) /\ t # 1

\* Mutant: the timeout is not set again while in sync.
Hold_SyncForgotten(loud) == Timeout(loud)

Hold(loud) == IF synced THEN IN_SYNC ELSE Timeout(loud)

Leaves(loud) == ~Found(loud) /\ Timeout(loud) = 0 /\ ~synced

\* Mutant: the last channel is followed by one that does not exist.
NextChannel_OneMore == IF scanner_channel = CHANNELS THEN 0 ELSE scanner_channel + 1

NextChannel == IF scanner_channel + 1 = CHANNELS THEN 0 ELSE scanner_channel + 1

(* The block is full: calc_stddev decides.                                 *)
Block(n, loud) ==
  /\ scanner_mode = 1 /\ stddev_n < N_SAMPLES - 1
  /\ stddev_n + n >= N_SAMPLES - 1
  /\ band = "silent" => ~loud
  /\ stddev_n' = 0
  /\ found_signal' = Found(loud)
  /\ IF Leaves(loud)
       THEN /\ scanner_channel' = NextChannel
            /\ channel_timeout' = HOP
       ELSE /\ channel_timeout' = IF Timeout(loud) > 0 /\ Found(loud)
                                    THEN Hold(loud) ELSE Timeout(loud)
            /\ UNCHANGED scanner_channel
  /\ missed' = IF synced THEN 0 ELSE IF missed < IN_SYNC THEN missed + 1 ELSE missed
  /\ cut' = (cut /\ ~synced)
  /\ UNCHANGED <<scanner_mode, synced, ss_q, p25_reset_tick, up, band>>

-----------------------------------------------------------------------------
(* What the decoder does to the scanner, while it is allowed to run.       *)

Decode ==
  /\ found_signal
  /\ ss_q' = "set"
  /\ UNCHANGED <<scanner_mode, scanner_channel, found_signal, stddev_n, up, band>>

SyncFound ==
  /\ Decode
  /\ band = "active"
  /\ synced' = TRUE
  /\ channel_timeout' = SYNC_FOUND
  /\ p25_reset_tick' = 0
  /\ UNCHANGED <<missed, cut>>

(* TDU or TDULC: set_channel_timeout_tdulc. *)
CallEnds ==
  /\ Decode
  /\ synced
  /\ channel_timeout' = CALL_ENDS
  /\ cut' = TRUE
  /\ UNCHANGED <<synced, p25_reset_tick, missed>>

SyncLost ==
  /\ Decode
  /\ synced' = FALSE
  /\ UNCHANGED <<channel_timeout, p25_reset_tick, missed, cut>>

Tick ==
  /\ p25_reset_tick <= RESET_TICKS
  /\ p25_reset_tick' = p25_reset_tick + 1
  /\ UNCHANGED <<scanner_mode, scanner_channel, found_signal, channel_timeout,
                 stddev_n, synced, ss_q, up, band, missed, cut>>

\* Mutant: the reset spares a decoder that is in sync.
ResetsSync_SparesCall == ss_q = "set" /\ up /\ ~synced

(* p25_reset_stats does nothing before the first symbol and, in the first  *)
(* 20 seconds, only the first half of its work.                            *)
ResetsSync == ss_q = "set" /\ up

Reset ==
  /\ p25_reset_tick > RESET_TICKS
  /\ p25_reset_tick' = 0
  /\ channel_timeout' = IF ss_q = "null" THEN channel_timeout ELSE 0
  /\ synced' = (synced /\ ~ResetsSync)
  /\ cut' = (cut \/ ss_q = "set")
  /\ UNCHANGED <<scanner_mode, scanner_channel, found_signal, stddev_n, ss_q, up,
                 band, missed>>

p25_net_tick == Tick \/ Reset

(* scanner_mode 0|1 on the console. *)
SetMode(m) ==
  /\ scanner_mode' = m
  /\ UNCHANGED <<scanner_channel, found_signal, channel_timeout, stddev_n, synced,
                 ss_q, p25_reset_tick, up, band, missed, cut>>

Uptime ==
  /\ ~up
  /\ up' = TRUE
  /\ UNCHANGED <<scanner_mode, scanner_channel, found_signal, channel_timeout,
                 stddev_n, synced, ss_q, p25_reset_tick, band, missed, cut>>

Silence ==
  /\ band' = "silent"
  /\ UNCHANGED <<scanner_mode, scanner_channel, found_signal, channel_timeout,
                 stddev_n, synced, ss_q, p25_reset_tick, up, missed, cut>>

Samples ==
  \E n \in BATCHES : PartOfBlock(n) \/ \E loud \in BOOLEAN : Block(n, loud)

ScannerNext ==
  \/ Samples
  \/ SyncFound \/ CallEnds \/ SyncLost
  \/ p25_net_tick
  \/ \E m \in {0, 1} : SetMode(m)
  \/ Uptime
  \/ Silence

(* Samples and milliseconds keep coming, and the decoder, while it runs on *)
(* a silent channel, counts its sync down.                                 *)
ScannerSpec ==
  ScannerInit /\ [][ScannerNext]_scanner_vars
    /\ WF_scanner_vars(Samples) /\ WF_scanner_vars(p25_net_tick) /\ WF_scanner_vars(Uptime)
    /\ WF_scanner_vars(band = "silent" /\ synced /\ SyncLost)

-----------------------------------------------------------------------------
(* The channel indexes the tables of CHANNELS entries, and the block never *)
(* overruns stddev_in nor stops at a length main would not pass on.        *)
ScannerTypeOK ==
  /\ scanner_mode \in {0, 1}
  /\ scanner_channel \in 0 .. CHANNELS - 1
  /\ found_signal \in BOOLEAN
  /\ channel_timeout \in 0 .. SYNC_FOUND
  /\ stddev_n \in 0 .. N_SAMPLES - 2
  /\ synced \in BOOLEAN
  /\ ss_q \in {"null", "set"}
  /\ p25_reset_tick \in 0 .. RESET_TICKS + 1
  /\ up \in BOOLEAN
  /\ band \in {"active", "silent"}
  /\ missed \in 0 .. IN_SYNC
  /\ cut \in BOOLEAN

(* A call keeps its channel through fades: the scanner leaves it only      *)
(* after IN_SYNC blocks in a row without sync, unless the call's end or    *)
(* the reset of the decoder has cut that short.                            *)
CallKeepsChannel ==
  [][ scanner_channel' # scanner_channel => missed' = IN_SYNC \/ cut ]_scanner_vars

(* found_signal without a running timeout, which no block ends, comes from *)
(* one thing only: the decoder's reset while a signal is held.             *)
ParkedOnlyByReset ==
  [][ (~Parked /\ Parked') => Reset /\ found_signal ]_scanner_vars

(* In a silent band the scanner keeps hopping, even if it lost the signal  *)
(* while the decoder was in sync and is frozen so; only a parked scanner   *)
(* stays where it is.                                                      *)
HopsInSilence ==
  <>[](scanner_mode = 1 /\ band = "silent") =>
    \/ []<><<scanner_channel' # scanner_channel>>_scanner_vars
    \/ <>[]Parked

=============================================================================
