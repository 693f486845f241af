----------------------------- MODULE RtlTcpProofs -----------------------------
(***************************************************************************)
(* Theorems about RtlTcp, for segments of any length, any number of        *)
(* sessions and whatever configurations the flash may hold.                *)
(***************************************************************************)
EXTENDS RtlTcp, TLAPS

LEMMA RadioHas ==
  ASSUME NEW n \in Int
  PROVE  RadioRate(n) \in Rates /\ RadioGain(n) \in Gains
<1>1. RadioRate(n) \in Rates
  BY DEF RadioRate, Rates, DEFAULT
<1>2. n % 32 \in 0 .. 31
  OBVIOUS
<1> QED
  BY <1>1, <1>2 DEF RadioGain, Gains

LEMMA InitTypeOK == Init => TypeOK
<1> SUFFICES ASSUME Init PROVE TypeOK
  OBVIOUS
<1>1. config \in Configs
  BY DEF Init, Configs, DEFAULT
<1>2. /\ do_gqrx \in {0, 1} /\ first_agc \in {0, 1} /\ prev_gain \in GAINS \cup {0}
      /\ srate \in Rates /\ gain \in Gains /\ did_atrf_init \in {0, 1}
  BY DEF Init
<1>3. /\ open \subseteq CONNS /\ pc \in {"idle", "loop"}
      /\ wanted \in Int /\ parted \subseteq {"stream", "rate", "gain"}
  BY DEF Init
<1>4. len \in Nat /\ i \in 0 .. len + 5 /\ cmd_mod \in 0 .. 4 /\ done \in Nat
  BY DEF Init
<1> QED
  BY <1>1, <1>2, <1>3, <1>4 DEF TypeOK

-----------------------------------------------------------------------------
(* The console, the scanner and the first look at the radio.               *)

Settings == Console \/ scanner_next_channel

LEMMA SettingsFrame == Settings => UNCHANGED <<do_gqrx, agc, open, pc, loop>>
BY DEF Settings, Console, rfgain, set_srate, sa, scanner_mode_off, scanner_mode,
       read_config, atrf_check_init, scanner_next_channel

Typed ==
  /\ config \in Configs /\ wanted \in Int
  /\ srate \in Rates /\ gain \in Gains /\ did_atrf_init \in {0, 1}
  /\ parted \subseteq {"stream", "rate", "gain"}

LEMMA SettingsTyped == Typed /\ Settings => Typed'
<1> SUFFICES ASSUME Typed, Settings PROVE Typed'
  OBVIOUS
<1> USE DEF Typed, radio, history
<1>1. /\ config.srate \in Int /\ config.rfgain \in Int
      /\ config.sa_mode \in Int /\ config.scanner_mode \in Int
  BY DEF Configs
<1>2. ASSUME NEW g \in GAINS \cup {0}, rfgain(g) PROVE Typed'
  <2>1. g \in Int
    BY RtlAssumption
  <2>2. config' \in Configs
    BY <1>2, <2>1 DEF rfgain, Configs
  <2> QED
    BY <1>2, <2>1, <2>2, RadioHas DEF rfgain
<1>3. ASSUME NEW rate \in RATES, set_srate(rate) PROVE Typed'
  <2>1. rate \in Int
    BY RtlAssumption DEF Rates
  <2>2. config' \in Configs
    BY <1>3, <2>1 DEF set_srate, Configs
  <2> QED
    BY <1>3, <2>1, <2>2, RadioHas DEF set_srate
<1>4. ASSUME NEW mode \in MODES, sa(mode) PROVE Typed'
  <2>1. mode \in Int
    BY RtlAssumption
  <2>2. config' \in Configs
    BY <1>4, <2>1 DEF sa, Configs
  <2> QED
    BY <1>4, <2>1, <2>2 DEF sa
<1>5. CASE scanner_mode_off
  <2>1. config' \in Configs
    BY <1>5 DEF scanner_mode_off, Configs
  <2> QED
    BY <1>5, <2>1 DEF scanner_mode_off
<1>6. ASSUME NEW mode \in MODES \cup {config.scanner_mode}, scanner_mode(mode)
      PROVE  Typed'
  <2>1. mode \in Int
    BY <1>1, RtlAssumption
  <2>2. config' \in Configs
    BY <1>6, <2>1 DEF scanner_mode, Configs, DEFAULT
  <2> QED
    BY <1>6, <2>2 DEF scanner_mode, Parts
<1>7. ASSUME NEW saved \in SAVED, read_config(saved) PROVE Typed'
  <2>1. saved \in Configs
    BY RtlAssumption
  <2>2. saved.sa_mode \in Int
    BY <2>1 DEF Configs
  <2> QED
    BY <1>7, <2>1, <2>2 DEF read_config, Parts
<1>8. CASE atrf_check_init
  BY <1>8 DEF atrf_check_init, Parts, Rates, Gains
<1>9. CASE scanner_next_channel
  BY <1>9 DEF scanner_next_channel, scanner_gain, Parts, Gains
<1> QED
  BY <1>2, <1>3, <1>4, <1>5, <1>6, <1>7, <1>8, <1>9 DEF Settings, Console

LEMMA StepTypeOK == TypeOK /\ [Next]_vars => TypeOK'
<1> SUFFICES ASSUME TypeOK, [Next]_vars PROVE TypeOK'
  OBVIOUS
<1>0. Typed
  BY DEF TypeOK, Typed
<1> USE RtlAssumption DEF TypeOK, agc, radio, loop, history
<1>1. ASSUME NEW c \in CONNS, rtl_tcp_driver_accept(c) PROVE TypeOK'
  <2>1. config' \in Configs
    BY <1>1 DEF rtl_tcp_driver_accept, Configs
  <2>2. srate' \in Rates /\ gain' \in Gains
    BY <1>1 DEF rtl_tcp_driver_accept, Rates, RATE, Gains
  <2> QED
    BY <1>1, <2>1, <2>2 DEF rtl_tcp_driver_accept
<1>2. ASSUME NEW c \in CONNS, NEW n \in LENGTHS, rtl_tcp_driver_recv(c, n)
      PROVE  TypeOK'
  BY <1>2 DEF rtl_tcp_driver_recv
<1>3. ASSUME NEW c \in CONNS, Close(c) PROVE TypeOK'
  <2>1. config.srate \in Int /\ config.rfgain \in Int
    BY DEF Configs
  <2>2. srate' \in Rates /\ gain' \in Gains
    BY <1>3, <2>1, RadioHas DEF Close
  <2> QED
    BY <1>3, <2>2 DEF Close
<1>4. ASSUME NEW c \in CONNS, Reset(c) PROVE TypeOK'
  BY <1>4 DEF Reset
<1>5. CASE Skip
  BY <1>5 DEF Skip, Iterates
<1>6. ASSUME NEW cmd \in Commands, Command(cmd) PROVE TypeOK'
  <2>1. i' \in 0 .. len' + 5 /\ cmd_mod' \in 0 .. 4 /\ done' \in Nat /\ len' \in Nat
    BY <1>6 DEF Command, Iterates, AfterCommand
  <2>2. first_agc' \in {0, 1} /\ prev_gain' \in GAINS \cup {0}
    BY <1>6 DEF Command, SetGain, SetFrequency, SetAgc
  <2>3. /\ RadioGain(0) \in Gains /\ RadioGain(prev_gain) \in Gains
        /\ RadioGain(prev_gain') \in Gains
    <3>1. 0 \in Int /\ prev_gain \in Int /\ prev_gain' \in Int
      BY <2>2
    <3> QED
      BY <3>1, RadioHas
  <2>4. gain' \in Gains
    <3>1. CASE SetGain(cmd)
      BY <2>3, <3>1 DEF SetGain
    <3>2. CASE SetFrequency(cmd)
      BY <3>2 DEF SetFrequency, Gains
    <3>3. CASE SetAgc(cmd)
      BY <2>3, <3>3 DEF SetAgc
    <3>4. CASE UNCHANGED gain
      BY <3>4
    <3> QED
      BY <1>6, <3>1, <3>2, <3>3, <3>4 DEF Command
  <2> QED
    BY <1>6, <2>1, <2>2, <2>4 DEF Command
<1>7. CASE Received
  BY <1>7 DEF Received
<1>8. CASE Settings
  BY <1>0, <1>8, SettingsFrame, SettingsTyped DEF Typed
<1>9. CASE UNCHANGED vars
  BY <1>9 DEF vars
<1> QED
  BY <1>1, <1>2, <1>3, <1>4, <1>5, <1>6, <1>7, <1>8, <1>9 DEF Next, Session, Settings

(* The loop over a segment never leaves it by more than a command, and no  *)
(* sequence of sessions, commands and configurations read from flash sets  *)
(* what the radio does not have.                                           *)
THEOREM RtlTypeCorrect == Spec => []TypeOK
BY InitTypeOK, StepTypeOK, PTL DEF Spec

-----------------------------------------------------------------------------
(* Where the next command is taken is i + 4 - cmd_mod.  A command advances *)
(* that by ten bytes, so that it runs ahead of 10 * done by the four bytes *)
(* at most it was off at the start; and a command was taken only within    *)
(* the segment.                                                            *)
TakesEveryOther ==
  /\ i + 4 - cmd_mod - 10 * done \in 0 .. 4
  /\ done > 0 => 10 * (done - 1) < len

LoopInv == pc = "loop" => TakesEveryOther

LEMMA InitLoopInv == Init => LoopInv
BY DEF Init, LoopInv

LEMMA StepLoopInv == TypeOK /\ LoopInv /\ [Next]_vars => LoopInv'
<1> SUFFICES ASSUME TypeOK, LoopInv, [Next]_vars PROVE LoopInv'
  OBVIOUS
<1> USE DEF loop
<1>0. len \in Nat /\ i \in Nat /\ cmd_mod \in 0 .. 4 /\ done \in Nat
  BY DEF TypeOK
<1>1. ASSUME NEW c \in CONNS, NEW n \in LENGTHS, rtl_tcp_driver_recv(c, n)
      PROVE  LoopInv'
  <2>1. n \in Nat /\ len' = n /\ i' = 0 /\ cmd_mod' \in 0 .. 4 /\ done' = 0
    BY <1>1, RtlAssumption DEF rtl_tcp_driver_recv
  <2>2. PICK k \in 0 .. 4 : cmd_mod' = k
    BY <2>1
  <2> QED
    BY <2>1, <2>2 DEF LoopInv, TakesEveryOther
<1>2. ASSUME NEW c \in CONNS, rtl_tcp_driver_accept(c) \/ Close(c) \/ Reset(c)
      PROVE  LoopInv'
  BY <1>2 DEF rtl_tcp_driver_accept, Close, Reset, LoopInv
<1>3. CASE Skip
  BY <1>0, <1>3 DEF Skip, Iterates, LoopInv, TakesEveryOther
<1>4. ASSUME NEW cmd \in Commands, Command(cmd) PROVE LoopInv'
  <2>1. /\ i < len /\ cmd_mod = 4 /\ pc = "loop"
        /\ cmd_mod' = 0 /\ done' = done + 1 /\ i' = i + 6
        /\ UNCHANGED <<len, pc>>
    BY <1>4 DEF Command, Iterates, AfterCommand
  <2> QED
    BY <1>0, <2>1 DEF LoopInv, TakesEveryOther
<1>5. CASE Received
  BY <1>5 DEF Received, LoopInv
<1>6. CASE Settings
  BY <1>6, SettingsFrame DEF LoopInv, TakesEveryOther
<1>7. CASE UNCHANGED vars
  BY <1>7 DEF vars, LoopInv, TakesEveryOther
<1> QED
  BY <1>1, <1>2, <1>3, <1>4, <1>5, <1>6, <1>7 DEF Next, Session, Settings

(* Of m times five bytes in a segment the first half of the fives is       *)
(* taken, whatever cmd_mod was on the stack.                               *)
THEOREM RtlFirstHalfTaken == Spec => []FirstHalfTaken
<1>1. TypeOK /\ LoopInv => FirstHalfTaken
  <2> SUFFICES ASSUME TypeOK, LoopInv, pc = "loop", i >= len, len % 5 = 0
               PROVE  done = (len \div 5 + 1) \div 2
    BY DEF FirstHalfTaken
  <2>1. len \in Nat /\ i \in Nat /\ cmd_mod \in 0 .. 4 /\ done \in Nat
    BY DEF TypeOK
  <2>2. PICK m \in Nat : len = 5 * m
    BY <2>1
  <2>3. len \div 5 = m
    BY <2>2
  <2>4. 10 * done + 4 >= 5 * m
    BY <2>1, <2>2 DEF LoopInv, TakesEveryOther
  <2>5. done > 0 => 10 * (done - 1) < 5 * m
    BY <2>2 DEF LoopInv, TakesEveryOther
  <2>6. 2 * done >= m /\ 2 * done <= m + 1
    BY <2>1, <2>4, <2>5
  <2> QED
    BY <2>1, <2>3, <2>6
<1> QED
  BY <1>1, InitTypeOK, StepTypeOK, InitLoopInv, StepLoopInv, PTL DEF Spec

-----------------------------------------------------------------------------
(* Data is received on an open connection only. *)
RestoredInv == Restored /\ (pc = "loop" => open # {})

LEMMA SettingsRestored == TypeOK /\ Restored /\ Settings => Restored'
<1> SUFFICES ASSUME TypeOK, Restored, Settings PROVE Restored'
  OBVIOUS
<1> USE DEF Restored, radio, history
<1>0. config \in Configs
  BY DEF TypeOK
<1>1. UNCHANGED <<do_gqrx, open>>
  BY SettingsFrame
<1>2. ASSUME NEW g \in GAINS \cup {0}, rfgain(g) PROVE Restored'
  <2>1. config'.rfgain = g /\ config'.srate = config.srate
    BY <1>0, <1>2 DEF rfgain, Configs
  <2> QED
    BY <1>1, <1>2, <2>1 DEF rfgain
<1>3. ASSUME NEW rate \in RATES, set_srate(rate) PROVE Restored'
  <2>1. config'.srate = rate /\ config'.rfgain = config.rfgain
    BY <1>0, <1>3 DEF set_srate, Configs
  <2> QED
    BY <1>1, <1>3, <2>1 DEF set_srate
<1>4. ASSUME NEW mode \in MODES, sa(mode) PROVE Restored'
  <2>1. config'.srate = config.srate /\ config'.rfgain = config.rfgain
    BY <1>0, <1>4 DEF sa, Configs
  <2> QED
    BY <1>1, <1>4, <2>1 DEF sa
<1>5. CASE scanner_mode_off
  <2>1. config'.srate = config.srate /\ config'.rfgain = config.rfgain
    BY <1>0, <1>5 DEF scanner_mode_off, Configs
  <2> QED
    BY <1>1, <1>5, <2>1 DEF scanner_mode_off
<1>6. ASSUME NEW mode \in MODES \cup {config.scanner_mode}, scanner_mode(mode)
      PROVE  Restored'
  BY <1>1, <1>6 DEF scanner_mode, Parts
<1>7. ASSUME NEW saved \in SAVED, read_config(saved) PROVE Restored'
  BY <1>1, <1>7 DEF read_config, Parts
<1>8. CASE atrf_check_init
  BY <1>1, <1>8 DEF atrf_check_init, Parts
<1>9. CASE scanner_next_channel
  BY <1>1, <1>9 DEF scanner_next_channel, Parts
<1> QED
  BY <1>2, <1>3, <1>4, <1>5, <1>6, <1>7, <1>8, <1>9 DEF Settings, Console

LEMMA StepRestored == TypeOK /\ RestoredInv /\ [Next]_vars => RestoredInv'
<1> SUFFICES ASSUME TypeOK, RestoredInv, [Next]_vars PROVE RestoredInv'
  OBVIOUS
<1> USE DEF RestoredInv, Restored, agc, radio, loop, history
<1>1. ASSUME NEW c \in CONNS, rtl_tcp_driver_accept(c) PROVE RestoredInv'
  BY <1>1 DEF rtl_tcp_driver_accept
<1>2. ASSUME NEW c \in CONNS, NEW n \in LENGTHS, rtl_tcp_driver_recv(c, n)
      PROVE  RestoredInv'
  BY <1>2 DEF rtl_tcp_driver_recv
<1>3. ASSUME NEW c \in CONNS, Close(c) \/ Reset(c) PROVE RestoredInv'
  BY <1>3 DEF Close, Reset
<1>4. CASE Skip
  BY <1>4 DEF Skip, Iterates
<1>5. ASSUME NEW cmd \in Commands, Command(cmd) PROVE RestoredInv'
  BY <1>5 DEF Command, Iterates
<1>6. CASE Received
  BY <1>6 DEF Received
<1>7. CASE Settings
  BY <1>7, SettingsFrame, SettingsRestored
<1>8. CASE UNCHANGED vars
  BY <1>8 DEF vars
<1> QED
  BY <1>1, <1>2, <1>3, <1>4, <1>5, <1>6, <1>7, <1>8 DEF Next, Session, Settings

(* However sessions overlap with each other, the console and the scanner,  *)
(* the last one to close leaves the stream off and the radio as configured;*)
(* and rate and gain stay so until the radio alone or the configuration    *)
(* alone is set.                                                           *)
THEOREM RtlRestored == Spec => []Restored
<1>1. Init => RestoredInv
  BY DEF Init, RestoredInv, Restored
<1>2. RestoredInv => Restored
  BY DEF RestoredInv
<1> QED
  BY <1>1, <1>2, InitTypeOK, StepTypeOK, StepRestored, PTL DEF Spec

=============================================================================
