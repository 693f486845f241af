---------------------------- MODULE ServicesProofs ----------------------------
(***************************************************************************)
(* Theorems about the parts of the firmware beside the signal path, for every *)
(* value of the constants: console, configuration store, run-length code,  *)
(* Ethernet transmission and iperf server, one section each, and the types of *)
(* all of them together.                                                   *)
(***************************************************************************)
EXTENDS MCServices, SequenceTheorems, TLAPS

-----------------------------------------------------------------------------
(***************************************************************************)
(* The console, for any number of connections and every size of buffer: its *)
(* flags never contradict each other, a command that was not cut off is kept *)
(* for the one reader it came from, and understood as it was sent.         *)
(***************************************************************************)

(* The flags, without the rest.                                            *)
ConsoleFlagsOK ==
  /\ do_close \in BOOLEAN /\ is_closed \in BOOLEAN
  /\ left \in BOOLEAN /\ do_at_dump \in BOOLEAN /\ do_system_reset \in BOOLEAN
  /\ lost \in BOOLEAN /\ ended \in BOOLEAN /\ overlap \in BOOLEAN
  /\ torn \in BOOLEAN /\ mangled \in BOOLEAN

OneFlag == ~(do_close /\ is_closed)

ConsoleDataOK ==
  /\ net \in Seq(CONNS \cup {"log"})
  /\ Len(net) <= NET
  /\ conn \in [CONNS -> {"none", "open", "closing", "freed"}]
  /\ rx \in CONNS \cup {"none"}
  /\ dump \in 0 .. DUMP

LEMMA ConsoleParts == ConsoleTypeOK <=> ConsoleFlagsOK /\ OneFlag /\ ConsoleDataOK
BY Zenon DEF ConsoleTypeOK, ConsoleFlagsOK, OneFlag, ConsoleDataOK

(* What a print may make of the buffer.                                    *)
LEMMA PrintedOK ==
  ASSUME NEW who \in CONNS \cup {"log"}, NEW n \in Seq(CONNS \cup {"log"}), Len(n) <= NET
  PROVE  /\ Printed(n, who) \in Seq(CONNS \cup {"log"})
         /\ Len(Printed(n, who)) <= NET
BY ConsoleAssumption DEF Printed

LEMMA TailOK ==
  ASSUME NEW n \in Seq(CONNS \cup {"log"}), Len(n) <= NET, n # <<>>
  PROVE  /\ Tail(n) \in Seq(CONNS \cup {"log"})
         /\ Len(Tail(n)) <= NET
         /\ \A p \in DOMAIN Tail(n) : p + 1 \in DOMAIN n /\ Tail(n)[p] = n[p + 1]
BY ConsoleAssumption, HeadTailProperties

LEMMA ConsoleStart == ConsoleInit => ConsoleTypeOK
<1> SUFFICES ASSUME ConsoleInit PROVE ConsoleFlagsOK /\ OneFlag /\ ConsoleDataOK
  BY ConsoleParts
<1>1. ConsoleFlagsOK /\ OneFlag
  BY DEF ConsoleInit, ConsoleFlagsOK, OneFlag
<1>2. ConsoleDataOK
  BY ConsoleAssumption DEF ConsoleInit, ConsoleDataOK
<1> QED
  BY <1>1, <1>2

LEMMA ConsoleFlagsStep ==
  ConsoleFlagsOK /\ OneFlag /\ [ConsoleNext]_console_vars => (ConsoleFlagsOK /\ OneFlag)'
<1> SUFFICES ASSUME ConsoleFlagsOK, OneFlag, [ConsoleNext]_console_vars
             PROVE  (ConsoleFlagsOK /\ OneFlag)'
  OBVIOUS
<1> USE DEF ConsoleFlagsOK, OneFlag, flags, deferred, sessions, lines
<1>1. ASSUME NEW c \in CONNS, telnet_accept(c) PROVE (ConsoleFlagsOK /\ OneFlag)'
  <2>1. /\ do_close' = do_close /\ do_at_dump' = do_at_dump
        /\ do_system_reset' = do_system_reset
    BY <1>1 DEF telnet_accept
  <2>2. /\ is_closed' = FALSE /\ left' = FALSE /\ lost' = FALSE
        /\ ended' = FALSE /\ torn' = FALSE /\ mangled' = FALSE
    BY <1>1, Zenon DEF telnet_accept, Reopened, Cleared
  <2>3. overlap' \in BOOLEAN
    BY <1>1, Zenon DEF telnet_accept
  <2>8. ConsoleFlagsOK'
    BY <2>1, <2>2, <2>3
  <2>9. OneFlag'
    BY <2>1, <2>2, <2>3
  <2> QED
    BY <2>8, <2>9
<1>2. ASSUME NEW c \in CONNS, telnet_poll(c) PROVE (ConsoleFlagsOK /\ OneFlag)'
  <2>1. /\ is_closed' = is_closed /\ left' = left
        /\ do_at_dump' = do_at_dump /\ do_system_reset' = do_system_reset
        /\ lost' = lost /\ ended' = ended /\ overlap' = overlap
        /\ torn' = torn /\ mangled' = mangled
    BY <1>2 DEF telnet_poll
  <2>2. do_close' = FALSE \/ do_close' = do_close
    BY <1>2, Zenon DEF telnet_poll, Closes, Sends
  <2>8. ConsoleFlagsOK'
    BY <2>1, <2>2
  <2>9. OneFlag'
    BY <2>1, <2>2
  <2> QED
    BY <2>8, <2>9
<1>3. ASSUME NEW c \in CONNS, NEW cmd \in Commands, NEW whole \in BOOLEAN,
             Line(c, cmd, whole)
      PROVE  (ConsoleFlagsOK /\ OneFlag)'
  <2>1. /\ is_closed' = is_closed /\ left' = FALSE
        /\ lost' = lost /\ ended' = ended /\ overlap' = overlap
    BY <1>3 DEF Line
  <2>2. do_close' = FALSE \/ do_close' = do_close
    BY <1>3, Zenon DEF Line, Closes, Sends, Idles
  <2>3. torn' \in BOOLEAN /\ mangled' \in BOOLEAN
    BY <1>3, Zenon DEF Line
  <2>4. do_at_dump' \in BOOLEAN /\ do_system_reset' \in BOOLEAN
    BY <1>3, Zenon DEF Line
  <2>8. ConsoleFlagsOK'
    BY <2>1, <2>2, <2>3, <2>4
  <2>9. OneFlag'
    BY <2>1, <2>2
  <2> QED
    BY <2>8, <2>9
<1>4. ASSUME NEW c \in CONNS, Part(c) \/ Negotiation(c)
      PROVE  (ConsoleFlagsOK /\ OneFlag)'
  <2>1. \/ do_close' = FALSE /\ is_closed' = TRUE /\ ended' = (ended \/ dump > 0)
        \/ do_close' = do_close /\ is_closed' = is_closed /\ ended' = ended
    BY <1>4, Zenon DEF Part, Negotiation, Aborts, AbortsIf, Returns
  <2>2. /\ do_at_dump' = do_at_dump /\ do_system_reset' = do_system_reset
        /\ lost' = lost /\ overlap' = overlap /\ mangled' = mangled
    BY <1>4 DEF Part, Negotiation, Aborts, AbortsIf, Returns
  <2>3. left' = TRUE \/ left' = FALSE
    BY <1>4, Zenon DEF Part, Negotiation
  <2>4. torn' = TRUE \/ torn' = torn
    BY <1>4, Zenon DEF Part, Negotiation
  <2>8. ConsoleFlagsOK'
    BY <2>1, <2>2, <2>3, <2>4
  <2>9. OneFlag'
    BY <2>1, <2>2, <2>3, <2>4
  <2> QED
    BY <2>8, <2>9
<1>5. ASSUME NEW c \in CONNS, Quit(c) \/ Fin(c) PROVE (ConsoleFlagsOK /\ OneFlag)'
  BY <1>5, Zenon DEF Quit, Fin, Aborts, AfterQuit
<1>6. ASSUME NEW c \in CONNS, Vanish(c) PROVE (ConsoleFlagsOK /\ OneFlag)'
  BY <1>6, Zenon DEF Vanish
<1>7. CASE MainLoop \/ tcp_output
  <2>1. CASE Log \/ NextPortion \/ tcp_output
    <3>1. /\ do_close' = do_close /\ is_closed' = is_closed /\ left' = left
          /\ do_at_dump' = do_at_dump /\ do_system_reset' = do_system_reset
          /\ lost' = lost /\ ended' = ended /\ overlap' = overlap
          /\ torn' = torn /\ mangled' = mangled
      BY <2>1 DEF Log, NextPortion, tcp_output
    <3> QED
      BY <3>1, Zenon
  <2>2. CASE Closing
    BY <2>2, Zenon DEF Closing
  <2>3. CASE SystemReset
    BY <2>3, Zenon DEF SystemReset
  <2>4. CASE atrf_dump_regs
    <3>1. do_at_dump' = FALSE
      BY <2>4, Zenon DEF atrf_dump_regs
    <3>2. /\ do_close' = do_close /\ is_closed' = is_closed /\ left' = left
          /\ do_system_reset' = do_system_reset /\ lost' = lost /\ ended' = ended
          /\ overlap' = overlap /\ torn' = torn /\ mangled' = mangled
      BY <2>4 DEF atrf_dump_regs
    <3> QED
      BY <3>1, <3>2, Zenon
  <2> QED
    BY <1>7, <2>1, <2>2, <2>3, <2>4 DEF MainLoop
<1>8. CASE UNCHANGED console_vars
  BY <1>8 DEF console_vars
<1> QED
  BY <1>1, <1>2, <1>3, <1>4, <1>5, <1>6, <1>7, <1>8
     DEF ConsoleNext, Lwip, telnet_recv

LEMMA ConsoleDataStep ==
  ConsoleDataOK /\ [ConsoleNext]_console_vars => ConsoleDataOK'
<1> SUFFICES ASSUME ConsoleDataOK, [ConsoleNext]_console_vars PROVE ConsoleDataOK'
  OBVIOUS
<1> USE ConsoleAssumption DEF ConsoleDataOK, flags, deferred, sessions, lines
<1>1. ASSUME NEW c \in CONNS, telnet_accept(c) PROVE ConsoleDataOK'
  <2>1. Greeting(c) \in Seq(CONNS \cup {"log"}) /\ Len(Greeting(c)) <= NET
    <3>1. <<>> \in Seq(CONNS \cup {"log"}) /\ Len(<<>>) <= NET
      OBVIOUS
    <3>2. <<c>> \in Seq(CONNS \cup {"log"}) /\ Len(<<c>>) <= NET
      OBVIOUS
    <3> QED
      BY <3>1, <3>2, Zenon DEF Greeting
  <2>2. net' = Greeting(c) /\ rx' = rx /\ dump' = dump
    BY <1>1 DEF telnet_accept
  <2>3. conn' \in [CONNS -> {"none", "open", "closing", "freed"}]
    BY <1>1 DEF telnet_accept
  <2> QED
    BY <2>1, <2>2, <2>3
<1>2. ASSUME NEW c \in CONNS, telnet_poll(c) PROVE ConsoleDataOK'
  BY <1>2, TailOK, SMTT(20) DEF telnet_poll, Closes, Sends
<1>3. ASSUME NEW c \in CONNS, NEW cmd \in Commands, NEW whole \in BOOLEAN,
             Line(c, cmd, whole)
      PROVE  ConsoleDataOK'
  <2>1. <<>> \in Seq(CONNS \cup {"log"}) /\ Len(<<>>) <= NET
    OBVIOUS
  <2>2. Printed(<<>>, c) \in Seq(CONNS \cup {"log"}) /\ Len(Printed(<<>>, c)) <= NET
    BY <2>1, PrintedOK, Zenon
  <2>3. PICK n \in Seq(CONNS \cup {"log"}) : n = Printed(<<>>, c) /\ Len(n) <= NET
    BY <2>2, Zenon
  <2>4. (Closes(c, n) \/ Sends(n) \/ Idles(n)) /\ rx' = c /\ dump' = dump
    BY <1>3, <2>3, Zenon DEF Line, Receives
  <2>5. CASE Closes(c, n)
    BY <2>3, <2>4, <2>5 DEF Closes
  <2>6. CASE Sends(n)
    <3>1. net' = Tail(n) /\ n # <<>> /\ conn' = conn
      BY <2>6 DEF Sends
    <3>2. Tail(n) \in Seq(CONNS \cup {"log"}) /\ Len(Tail(n)) <= NET
      BY <2>3, <3>1, TailOK, Zenon
    <3> QED
      BY <2>4, <3>1, <3>2
  <2>7. CASE Idles(n)
    BY <2>3, <2>4, <2>7 DEF Idles
  <2> QED
    BY <2>4, <2>5, <2>6, <2>7
<1>4. ASSUME NEW c \in CONNS, Part(c) \/ Negotiation(c)
      PROVE  ConsoleDataOK'
  BY <1>4 DEF Part, Negotiation, Receives, Aborts, AbortsIf, Returns
<1>5. ASSUME NEW c \in CONNS, Quit(c) \/ Fin(c) PROVE ConsoleDataOK'
  BY <1>5 DEF Quit, Fin, Receives, Aborts
<1>6. ASSUME NEW c \in CONNS, Vanish(c) PROVE ConsoleDataOK'
  BY <1>6 DEF Vanish
<1>7. CASE MainLoop \/ tcp_output
  <2>1. Printed(net, "log") \in Seq(CONNS \cup {"log"}) /\ Len(Printed(net, "log")) <= NET
    BY PrintedOK
  <2>2. CASE Log \/ atrf_dump_regs \/ NextPortion
    BY <2>1, <2>2 DEF Log, atrf_dump_regs, NextPortion
  <2>3. CASE Closing \/ SystemReset
    <3>1. <<>> \in Seq(CONNS \cup {"log"}) /\ Len(<<>>) <= NET
      OBVIOUS
    <3>2. [c \in CONNS |-> "none"] \in [CONNS -> {"none", "open", "closing", "freed"}]
      OBVIOUS
    <3>3. \/ net' = net /\ conn' = conn
          \/ net' = <<>> /\ conn' = [c \in CONNS |-> "none"]
      BY <2>3 DEF Closing, SystemReset
    <3>4. rx' = rx /\ dump' = dump
      BY <2>3 DEF Closing, SystemReset
    <3> QED
      BY <3>1, <3>2, <3>3, <3>4, Zenon
  <2>4. CASE tcp_output
    BY <2>4 DEF tcp_output
  <2> QED
    BY <1>7, <2>2, <2>3, <2>4 DEF MainLoop
<1>8. CASE UNCHANGED console_vars
  BY <1>8 DEF console_vars
<1> QED
  BY <1>1, <1>2, <1>3, <1>4, <1>5, <1>6, <1>7, <1>8
     DEF ConsoleNext, Lwip, telnet_recv

LEMMA ConsoleStep == ConsoleTypeOK /\ [ConsoleNext]_console_vars => ConsoleTypeOK'
<1>1. ConsoleTypeOK' <=> ConsoleFlagsOK' /\ OneFlag' /\ ConsoleDataOK'
  BY Zenon DEF ConsoleTypeOK, ConsoleFlagsOK, OneFlag, ConsoleDataOK
<1> QED
  BY <1>1, ConsoleParts, ConsoleFlagsStep, ConsoleDataStep

(* The types of the console; its two flags are never both set.             *)
THEOREM ConsoleTyping == ConsoleSpec => []ConsoleTypeOK
BY ConsoleStart, ConsoleStep, PTL DEF ConsoleSpec

-----------------------------------------------------------------------------
(* A session that has the console to itself is alone, so that nobody else  *)
(* can have been answered since it was accepted.                           *)
Alone == ~overlap => \A c, d \in There : c = d

SoleReader ==
  \A c \in CONNS :
    conn[c] = "open" /\ ~overlap => \A p \in DOMAIN net : net[p] \in {"log", c}

Reported == There = {} /\ ~lost => is_telnet_closed

SessionInv == Alone /\ SoleReader /\ Reported

(* Every step but an accept leaves overlap alone and no session arrives.   *)
Leaves == There' \subseteq There /\ (overlap' = overlap \/ There' = {})

LEMMA AloneStep ==
  ConsoleDataOK /\ Alone /\ [ConsoleNext]_console_vars => Alone'
<1> SUFFICES ASSUME ConsoleDataOK, Alone, [ConsoleNext]_console_vars PROVE Alone'
  OBVIOUS
<1>1. ASSUME NEW c \in CONNS, telnet_accept(c) PROVE Alone'
  BY <1>1 DEF telnet_accept, ConsoleDataOK, Alone, There
<1>2. Leaves => Alone'
  BY DEF Leaves, Alone
<1> USE DEF ConsoleDataOK, Leaves, There, flags, deferred, sessions, lines
<1>3. ASSUME NEW c \in CONNS, telnet_poll(c) PROVE Leaves
  BY <1>3 DEF telnet_poll, Closes, Sends
<1>4. ASSUME NEW c \in CONNS, NEW cmd \in Commands, NEW whole \in BOOLEAN,
             Line(c, cmd, whole)
      PROVE  Leaves
  BY <1>4 DEF Line, Receives, Closes, Sends, Idles
<1>5. ASSUME NEW c \in CONNS, Part(c) \/ Negotiation(c) \/ Quit(c) \/ Fin(c)
      PROVE  Leaves
  BY <1>5 DEF Part, Negotiation, Quit, Fin, Aborts, AbortsIf, Returns
<1>6. ASSUME NEW c \in CONNS, Vanish(c) PROVE Leaves
  BY <1>6 DEF Vanish
<1>7. MainLoop => Leaves
  BY DEF MainLoop, Log, Closing, SystemReset, atrf_dump_regs, NextPortion
<1>8. tcp_output => Leaves
  BY DEF tcp_output
<1>9. UNCHANGED console_vars => Leaves
  BY DEF console_vars
<1> QED
  BY <1>1, <1>2, <1>3, <1>4, <1>5, <1>6, <1>7, <1>8, <1>9
     DEF ConsoleNext, Lwip, telnet_recv

(* What is in the buffer stays, moves up, or is joined by the main loop's  *)
(* output; only the reader of it, alone, is answered.                      *)
Joins(who) ==
  \A p \in DOMAIN net' : \/ net'[p] \in {"log", who}
                          \/ \E j \in DOMAIN net : net'[p] = net[j]

LEMMA PrintedJoins ==
  ASSUME ConsoleDataOK, NEW who \in CONNS \cup {"log"}, net' = Printed(net, who)
  PROVE  Joins(who)
BY DEF ConsoleDataOK, Printed, Joins

LEMMA SoleReaderStep ==
  ConsoleDataOK /\ Alone /\ SoleReader /\ [ConsoleNext]_console_vars => SoleReader'
<1> SUFFICES ASSUME ConsoleDataOK, Alone, SoleReader, [ConsoleNext]_console_vars
             PROVE  SoleReader'
  OBVIOUS
<1>1. ASSUME NEW c \in CONNS, telnet_accept(c) PROVE SoleReader'
  <2>1. \A p \in DOMAIN net' : net'[p] = c
    BY <1>1 DEF telnet_accept, Greeting
  <2>2. \A d \in CONNS : conn'[d] = "open" /\ ~overlap' => d = c
    BY <1>1 DEF telnet_accept, ConsoleDataOK, There
  <2> QED
    BY <2>1, <2>2 DEF SoleReader
<1>2. ASSUME Joins("log"), overlap' = overlap,
             \A d \in CONNS : conn'[d] = "open" => conn[d] = "open"
      PROVE  SoleReader'
  BY <1>2 DEF SoleReader, Joins
<1> USE DEF ConsoleDataOK, flags, deferred, sessions, lines
<1>3. ASSUME NEW c \in CONNS, telnet_poll(c) PROVE SoleReader'
  <2>1. Joins("log")
    BY <1>3, TailOK DEF telnet_poll, Closes, Sends, Joins
  <2> QED
    BY <1>2, <1>3, <2>1 DEF telnet_poll, Closes, Sends
<1>4. ASSUME NEW c \in CONNS, NEW cmd \in Commands, NEW whole \in BOOLEAN,
             Line(c, cmd, whole)
      PROVE  SoleReader'
  <2>1. \A p \in DOMAIN net' : net'[p] = c
    <3>1. Printed(<<>>, c) \in {<<>>, <<c>>}
      BY ConsoleAssumption DEF Printed
    <3>2. /\ net' \in {Printed(<<>>, c), Tail(Printed(<<>>, c))}
          /\ net' # Printed(<<>>, c) => Printed(<<>>, c) # <<>>
      BY <1>4 DEF Line, Closes, Sends, Idles
    <3>3. Tail(<<c>>) = <<>>
      OBVIOUS
    <3>4. net' \in {<<>>, <<c>>}
      BY <3>1, <3>2, <3>3
    <3> QED
      BY <3>4
  <2>2. /\ conn[c] = "open" /\ overlap' = overlap
        /\ \A d \in CONNS : conn'[d] = "open" => conn[d] = "open"
    BY <1>4 DEF Line, Receives, Closes, Sends, Idles
  <2>3. \A d \in CONNS : conn[d] = "open" /\ ~overlap => d = c
    BY <2>2 DEF Alone, There
  <2> QED
    BY <2>1, <2>2, <2>3 DEF SoleReader
<1>5. ASSUME NEW c \in CONNS, Part(c) \/ Negotiation(c) \/ Quit(c) \/ Fin(c)
      PROVE  SoleReader'
  <2>1. /\ net' = net /\ overlap' = overlap
        /\ \A d \in CONNS : conn'[d] = "open" => conn[d] = "open"
    BY <1>5 DEF Part, Negotiation, Quit, Fin, Aborts, AbortsIf, Returns
  <2> QED
    BY <1>2, <2>1 DEF Joins
<1>6. ASSUME NEW c \in CONNS, Vanish(c) PROVE SoleReader'
  BY <1>2, <1>6 DEF Vanish, Joins
<1>7. CASE Log \/ atrf_dump_regs \/ NextPortion
  <2>1. Joins("log")
    BY <1>7, PrintedJoins DEF Log, atrf_dump_regs, NextPortion
  <2> QED
    BY <1>2, <1>7, <2>1 DEF Log, atrf_dump_regs, NextPortion
<1>8. CASE Closing \/ tcp_output \/ UNCHANGED console_vars
  BY <1>2, <1>8 DEF Closing, tcp_output, console_vars, Joins
<1>9. CASE SystemReset
  BY <1>9 DEF SystemReset, SoleReader
<1> QED
  BY <1>1, <1>3, <1>4, <1>5, <1>6, <1>7, <1>8, <1>9
  DEF ConsoleNext, MainLoop, Lwip, telnet_recv

LEMMA ReportedStep ==
  ConsoleDataOK /\ Reported /\ [ConsoleNext]_console_vars => Reported'
<1> SUFFICES ASSUME ConsoleDataOK, Reported, [ConsoleNext]_console_vars PROVE Reported'
  OBVIOUS
<1> USE DEF ConsoleDataOK, Reported, is_telnet_closed, There, flags, deferred, sessions, lines
<1>1. ASSUME NEW c \in CONNS, telnet_accept(c) PROVE Reported'
  BY <1>1 DEF telnet_accept
<1>3. ASSUME NEW c \in CONNS, telnet_poll(c) PROVE Reported'
  BY <1>3 DEF telnet_poll, Closes, Sends
<1>4. ASSUME NEW c \in CONNS, NEW cmd \in Commands, NEW whole \in BOOLEAN,
             Line(c, cmd, whole)
      PROVE  Reported'
  BY <1>4 DEF Line, Receives, Closes, Sends, Idles
<1>5. ASSUME NEW c \in CONNS, Part(c) \/ Negotiation(c) \/ Quit(c) \/ Fin(c)
      PROVE  Reported'
  BY <1>5 DEF Part, Negotiation, Quit, Fin, Aborts, AbortsIf, Returns
<1>6. ASSUME NEW c \in CONNS, Vanish(c) PROVE Reported'
  BY <1>6 DEF Vanish
<1>7. CASE MainLoop
  BY <1>7 DEF MainLoop, Log, Closing, SystemReset, atrf_dump_regs, NextPortion
<1>8. CASE tcp_output
  BY <1>8 DEF tcp_output
<1>9. CASE UNCHANGED console_vars
  BY <1>9 DEF console_vars
<1> QED
  BY <1>1, <1>3, <1>4, <1>5, <1>6, <1>7, <1>8, <1>9
     DEF ConsoleNext, Lwip, telnet_recv

(* KeptForItsReader: nothing is kept for nobody, and a session that has    *)
(* the console to itself reads no one else's answers.                      *)
THEOREM Kept == ConsoleSpec => []KeptForItsReader
<1> DEFINE Inv == ConsoleTypeOK /\ SessionInv
<1>1. ConsoleInit => Inv
  <2>1. ConsoleInit => SessionInv
    BY DEF ConsoleInit, SessionInv, Alone, SoleReader, Reported, There,
       is_telnet_closed
  <2> QED
    BY <2>1, ConsoleStart
<1>2. Inv /\ [ConsoleNext]_console_vars => Inv'
  BY ConsoleStep, ConsoleParts, AloneStep, SoleReaderStep, ReportedStep
     DEF SessionInv
<1>3. Inv => KeptForItsReader
  BY DEF SessionInv, SoleReader, Reported, KeptForItsReader
<1> QED
  BY <1>1, <1>2, <1>3, PTL DEF ConsoleSpec

(* A rest in the line buffer comes from a torn line.                       *)
LeftOver == left => torn

LEMMA UnderstoodStep ==
  LeftOver /\ Understood /\ [ConsoleNext]_console_vars => (LeftOver /\ Understood)'
<1> SUFFICES ASSUME LeftOver, Understood, [ConsoleNext]_console_vars
             PROVE  (LeftOver /\ Understood)'
  OBVIOUS
<1> USE DEF LeftOver, Understood, flags, deferred, sessions, lines
<1>1. ASSUME NEW c \in CONNS, telnet_accept(c) PROVE (LeftOver /\ Understood)'
  BY <1>1, Zenon DEF telnet_accept, Cleared
<1>3. ASSUME NEW c \in CONNS, telnet_poll(c) \/ Vanish(c) PROVE (LeftOver /\ Understood)'
  BY <1>3 DEF telnet_poll, Vanish
<1>4. ASSUME NEW c \in CONNS, NEW cmd \in Commands, NEW whole \in BOOLEAN,
             Line(c, cmd, whole)
      PROVE  (LeftOver /\ Understood)'
  BY <1>4, Zenon DEF Line
<1>5. ASSUME NEW c \in CONNS, Part(c) \/ Negotiation(c) \/ Quit(c) \/ Fin(c)
      PROVE  (LeftOver /\ Understood)'
  <2>1. CASE Part(c)
    BY <2>1, Zenon DEF Part
  <2>2. CASE Negotiation(c) \/ Quit(c) \/ Fin(c)
    <3>1. left' = FALSE \/ left' = left
      BY <2>2, Zenon DEF Negotiation, Quit, Fin, AfterQuit
    <3>2. torn' = torn /\ mangled' = mangled
      BY <2>2 DEF Negotiation, Quit, Fin
    <3> QED
      BY <3>1, <3>2
  <2> QED
    BY <1>5, <2>1, <2>2
<1>7. CASE MainLoop
  BY <1>7 DEF MainLoop, Log, Closing, SystemReset, atrf_dump_regs, NextPortion
<1>8. CASE tcp_output
  BY <1>8 DEF tcp_output
<1>9. CASE UNCHANGED console_vars
  BY <1>9 DEF console_vars
<1> QED
  BY <1>1, <1>3, <1>4, <1>5, <1>7, <1>8, <1>9 DEF ConsoleNext, Lwip, telnet_recv

(* Understood: a line is taken for another only after a torn one.          *)
THEOREM LinesUnderstood == ConsoleSpec => []Understood
<1>1. ConsoleInit => LeftOver /\ Understood
  BY DEF ConsoleInit, LeftOver, Understood
<1> QED
  BY <1>1, UnderstoodStep, PTL DEF ConsoleSpec

-----------------------------------------------------------------------------
(***************************************************************************)
(* The configuration store, for every size of the configuration and every  *)
(* number of bits: the CRC tells a whole configuration from what a loss of *)
(* power left, so that the flash implements a store that is written all or *)
(* nothing; and read_config waits for its turn.                            *)
(***************************************************************************)

(* Every step keeps the types.                                             *)
LEMMA ConfigStep == ConfigTypeOK /\ [ConfigNext]_config_vars => ConfigTypeOK'
<1> SUFFICES ASSUME ConfigTypeOK, [ConfigNext]_config_vars PROVE ConfigTypeOK'
  OBVIOUS
<1> USE ConfigAssumption DEF ConfigTypeOK, Configs, Bytes, Erased
<1>1. CASE Set
  BY <1>1 DEF Set, flash, write, pending, history
<1>2. CASE TypeWrite
  BY <1>2 DEF TypeWrite, ram, flash, write
<1>3. CASE TypeRead
  <2>1. expected' \subseteq Configs
    BY <1>3 DEF TypeRead, Stored
  <2> QED
    BY <1>3, <2>1 DEF TypeRead, ram, flash, write
<1>4. CASE BeginWrite
  BY <1>4 DEF BeginWrite, crc32_range, flash, history
<1>5. CASE EraseByte
  BY <1>5 DEF EraseByte, ram, write, pending, history
<1>6. CASE EraseCrc
  BY <1>6 DEF EraseCrc, ram, write, pending, history
<1>7. CASE EraseDone
  <2>1. i' \in 0 .. SIZE + 1
    BY <1>7 DEF EraseDone
  <2> QED
    BY <1>7, <2>1 DEF EraseDone, ram, flash, pending, history
<1>8. CASE ProgramByte
  <2>1. sector' \in Configs
    BY <1>8 DEF ProgramByte
  <2>2. i' \in 0 .. SIZE + 1
    BY <1>8 DEF ProgramByte
  <2> QED
    BY <1>8, <2>1, <2>2 DEF ProgramByte, ram, pending, history
<1>9. CASE ProgramCrc
  <2>1. sector_crc' \subseteq Configs
    BY <1>9 DEF ProgramCrc, ram
  <2>2. expected' \subseteq Configs
    BY <1>9 DEF ProgramCrc
  <2>3. i' \in 0 .. SIZE + 1
    BY <1>9 DEF ProgramCrc
  <2> QED
    BY <1>9, <2>1, <2>2, <2>3 DEF ProgramCrc, ram, pending
<1>10. CASE ReadConfig
  BY <1>10 DEF ReadConfig, flash, write
<1>11. CASE PowerLoss
  <2>1. i' \in 0 .. SIZE + 1
    BY <1>11 DEF PowerLoss
  <2> QED
    BY <1>11, <2>1 DEF PowerLoss, flash
<1>12. CASE UNCHANGED config_vars
  BY <1>12 DEF config_vars, ram, flash, write, pending, history
<1> QED
  BY <1>1, <1>2, <1>3, <1>4, <1>5, <1>6, <1>7, <1>8, <1>9, <1>10, <1>11, <1>12
     DEF ConfigNext, ConfigCommand, ConfigWrite

LEMMA ConfigStart == ConfigInit => ConfigTypeOK
<1> SUFFICES ASSUME ConfigInit PROVE ConfigTypeOK
  OBVIOUS
<1>1. i \in 0 .. SIZE + 1
  BY ConfigAssumption DEF ConfigInit
<1> QED
  BY ConfigAssumption, <1>1 DEF ConfigInit, ConfigTypeOK, Configs, Bytes, Erased

(* The variables keep their types.                                         *)
THEOREM ConfigTyping == ConfigSpec => []ConfigTypeOK
BY ConfigStart, ConfigStep, PTL DEF ConfigSpec

-----------------------------------------------------------------------------

(* Every step keeps what the CRC tells.                                    *)
LEMMA TellsStep == ConfigTypeOK /\ CrcTells /\ [ConfigNext]_config_vars => CrcTells'
<1> SUFFICES ASSUME ConfigTypeOK, CrcTells, [ConfigNext]_config_vars PROVE CrcTells'
  OBVIOUS
<1> USE ConfigAssumption DEF CrcTells, Writing, crc32_range
<1>1. CASE Set
  BY <1>1 DEF Set, ConfigTypeOK, flash, write, pending, history
<1>2. CASE TypeWrite
  BY <1>2 DEF TypeWrite, ram, flash, write
<1>3. CASE TypeRead
  BY <1>3 DEF TypeRead, ram, flash, write
<1>4. CASE BeginWrite
  BY <1>4 DEF BeginWrite, flash, history
<1>5. CASE EraseByte
  BY <1>5 DEF EraseByte, ConfigTypeOK, Configs, ram, write, pending, history
<1>6. CASE EraseCrc
  BY <1>6 DEF EraseCrc, ram, write, pending, history
<1>7. CASE EraseDone
  BY <1>7 DEF EraseDone, Blank, ram, flash, pending, history
<1>8. CASE ProgramByte
  <2>1. i' > 0 /\ i' \in Nat /\ i' = i + 1
    BY <1>8 DEF ProgramByte
  <2>2. sector_crc' = {} /\ ~erasing' /\ crc32' = {configuration'}
    BY <1>8 DEF ProgramByte, ram
  <2>3. ASSUME NEW n \in 1 .. SIZE
        PROVE sector'[n] = IF n < i' THEN configuration'[n] ELSE Erased
    <3>1. configuration' = configuration
      BY <1>8 DEF ProgramByte, ram
    <3>2. configuration[n] \subseteq BITS
      BY DEF ConfigTypeOK, Configs, Bytes
    <3>3. CASE n = i
      <4>1. sector'[n] = sector[n] \cap configuration[n]
        BY <1>8, <3>3 DEF ProgramByte, ConfigTypeOK, Configs
      <4>2. sector[n] = BITS
        BY <1>8, <3>3 DEF ProgramByte, Erased
      <4> QED
        BY <2>1, <3>1, <3>2, <3>3, <4>1, <4>2
    <3>4. CASE n # i
      <4>1. sector'[n] = sector[n]
        BY <1>8, <3>4 DEF ProgramByte, ConfigTypeOK, Configs
      <4> QED
        BY <1>8, <2>1, <3>1, <3>4, <4>1 DEF ProgramByte
    <3> QED
      BY <3>3, <3>4
  <2> QED
    BY <2>1, <2>2, <2>3
<1>9. CASE ProgramCrc
  <2>1. sector' = sector /\ sector_crc' = {configuration} /\ i' = 0 /\ ~erasing'
    BY <1>9 DEF ProgramCrc, ram
  <2>2. \A n \in 1 .. SIZE : sector[n] = configuration[n]
    BY <1>9 DEF ProgramCrc
  <2> QED
    BY <2>1, <2>2 DEF ConfigTypeOK
<1>10. CASE ReadConfig
  BY <1>10 DEF ReadConfig, flash, write
<1>11. CASE PowerLoss
  <2>1. sector' = sector /\ sector_crc' = sector_crc /\ i' = 0 /\ ~erasing'
    BY <1>11 DEF PowerLoss, flash
  <2>2. i = 0 \/ i > 0
    BY DEF ConfigTypeOK
  <2> QED
    BY <2>1, <2>2
<1>12. CASE UNCHANGED config_vars
  BY <1>12 DEF config_vars, ram, flash, write, pending, history
<1> QED
  BY <1>1, <1>2, <1>3, <1>4, <1>5, <1>6, <1>7, <1>8, <1>9, <1>10, <1>11, <1>12
     DEF ConfigNext, ConfigCommand, ConfigWrite

(* What the CRC tells holds in every state.                                *)
THEOREM Tells == ConfigSpec => []CrcTells
<1>1. ConfigInit => CrcTells
  BY ConfigAssumption DEF ConfigInit, CrcTells, Writing
<1> QED
  BY <1>1, ConfigTyping, TellsStep, PTL DEF ConfigSpec

-----------------------------------------------------------------------------

(* Bytes being erased never complete a configuration: what is stored stays *)
(* or is no more.                                                          *)
LEMMA ErasingForgets ==
  ASSUME ConfigTypeOK, CrcTells, EraseByte PROVE Stored' = Stored \/ Stored' = {}
<1>1. i = 0 /\ sector_crc' = sector_crc
  BY DEF EraseByte, CrcTells
<1>2. PICK n \in 1 .. SIZE : sector' = [sector EXCEPT ![n] = Erased]
  BY DEF EraseByte
<1>3. CASE Valid' /\ sector_crc = {}
  BY <1>1, <1>3 DEF Valid, crc32_range
<1>4. CASE Valid' /\ sector_crc # {}
  <2>1. PICK c \in Configs :
          sector_crc = {c} /\ \A m \in 1 .. SIZE : sector[m] \in {c[m], Erased}
    BY <1>1, <1>4 DEF CrcTells, crc32_range
  <2>2. sector' = c
    BY <1>1, <1>4, <2>1 DEF Valid, crc32_range
  <2>3. c[n] = Erased
    BY <1>2, <2>2 DEF ConfigTypeOK, Configs
  <2>4. sector[n] = Erased
    BY <2>1, <2>3
  <2>5. \A m \in 1 .. SIZE : sector'[m] = sector[m]
    BY <1>2, <2>4 DEF ConfigTypeOK, Configs
  <2>6. sector' = sector
    BY <1>2, <2>5 DEF ConfigTypeOK, Configs
  <2> QED
    BY <1>1, <2>6 DEF Stored, Valid
<1>5. CASE ~Valid'
  BY <1>5 DEF Stored
<1> QED
  BY <1>3, <1>4, <1>5

(* Programming the CRC completes the configuration in force.               *)
LEMMA CrcCompletes ==
  ASSUME ConfigTypeOK, CrcTells, ProgramCrc
  PROVE  Writing /\ ~Writing' /\ sector = configuration /\ Stored' = {configuration}
<1>1. i > 0 /\ i # 0 /\ i = SIZE + 1 /\ i' = 0 /\ sector' = sector
  BY ConfigAssumption DEF ProgramCrc, ram
<1>2. sector_crc' = {configuration} /\ ~erasing /\ ~erasing'
  BY <1>1 DEF ProgramCrc, CrcTells, Writing, crc32_range
<1>3. \A n \in 1 .. SIZE : n < i
  BY <1>1, ConfigAssumption
<1>4. \A n \in 1 .. SIZE : sector[n] = configuration[n]
  BY <1>1, <1>3 DEF CrcTells
<1>5. sector \in [1 .. SIZE -> Bytes] /\ configuration \in [1 .. SIZE -> Bytes]
  BY DEF ConfigTypeOK, Configs
<1>6. sector = configuration
  <2>1. sector = [n \in 1 .. SIZE |-> sector[n]]
    BY <1>5
  <2>2. configuration = [n \in 1 .. SIZE |-> configuration[n]]
    BY <1>5
  <2> QED
    BY <1>4, <2>1, <2>2, Zenon
<1>7. Stored' = {configuration}
  BY <1>1, <1>2, <1>6 DEF Stored, Valid, crc32_range
<1> QED
  BY <1>1, <1>2, <1>6, <1>7 DEF Writing

(* Every step is one of the abstract store, or changes nothing of it.      *)
LEMMA StoreStep ==
  ConfigTypeOK /\ ConfigTypeOK' /\ CrcTells /\ [ConfigNext]_config_vars => [NV!Next]_NV!vars
<1> SUFFICES ASSUME ConfigTypeOK, ConfigTypeOK', CrcTells, [ConfigNext]_config_vars
             PROVE  [NV!Next]_NV!vars
  OBVIOUS
<1> USE DEF NV!vars
<1>1. CASE Set
  <2>1. configuration' \in Configs
    BY DEF ConfigTypeOK
  <2>2. NV!Change
    BY <1>1, <2>1 DEF Set, NV!Change, Stored, Valid, Writing, flash, write
  <2> QED
    BY <2>2 DEF NV!Next
<1>2. CASE TypeWrite
  BY <1>2 DEF TypeWrite, Stored, Valid, Writing, ram, flash, write
<1>3. CASE TypeRead
  BY <1>3 DEF TypeRead, Stored, Valid, Writing, ram, flash, write
<1>4. CASE BeginWrite
  <2>1. NV!Begin
    BY <1>4 DEF BeginWrite, NV!Begin, Stored, Valid, Writing, flash
  <2> QED
    BY <2>1 DEF NV!Next
<1>5. CASE EraseByte
  <2>1. configuration' = configuration /\ Writing /\ Writing'
    BY <1>5 DEF EraseByte, Writing, ram, write
  <2>2. Stored' = Stored \/ Stored' = {}
    BY <1>5, ErasingForgets
  <2> QED
    BY <2>1, <2>2 DEF NV!Next, NV!Forget
<1>6. CASE EraseCrc
  <2>1. configuration' = configuration /\ Writing /\ Writing'
    BY <1>6 DEF EraseCrc, Writing, ram, write
  <2>2. Stored' = {}
    BY <1>6 DEF EraseCrc, Stored, Valid, crc32_range
  <2> QED
    BY <2>1, <2>2 DEF NV!Next, NV!Forget
<1>7. CASE EraseDone
  BY <1>7 DEF EraseDone, Stored, Valid, Writing, ram, flash
<1>8. CASE ProgramByte
  <2>1. sector_crc = {} /\ sector_crc' = {} /\ i # 0
    BY <1>8 DEF ProgramByte, CrcTells
  <2>2. i' # 0 /\ configuration' = configuration
    BY <1>8 DEF ProgramByte, ram
  <2>3. Stored = {} /\ Stored' = {}
    BY <2>1 DEF Stored, Valid, crc32_range
  <2> QED
    BY <2>1, <2>2, <2>3 DEF Writing
<1>9. CASE ProgramCrc
  <2>1. configuration' = configuration /\ Writing /\ ~Writing' /\ Stored' = {configuration}
    BY <1>9, CrcCompletes DEF ProgramCrc, ram
  <2>2. NV!Commit
    BY <2>1 DEF NV!Commit
  <2> QED
    BY <2>2 DEF NV!Next
<1>10. CASE ReadConfig
  <2>1. ~Writing /\ Writing' = Writing /\ Stored' = Stored
    BY <1>10 DEF ReadConfig, Writing, Stored, Valid, flash, write
  <2>2. configuration' = sector /\ configuration' \in Configs
    BY <1>10 DEF ReadConfig, ConfigTypeOK
  <2>3. CASE Valid
    <3>1. NV!Load
      BY <2>1, <2>2, <2>3 DEF NV!Load, Stored
    <3> QED
      BY <3>1 DEF NV!Next
  <2>4. CASE ~Valid
    <3>1. NV!LoadNothing
      BY <2>1, <2>2, <2>4 DEF NV!LoadNothing, Stored
    <3> QED
      BY <3>1 DEF NV!Next
  <2> QED
    BY <2>3, <2>4
<1>11. CASE PowerLoss
  <2>1. NV!PowerLoss
    BY <1>11 DEF PowerLoss, NV!PowerLoss, Writing, Stored, Valid, flash
  <2> QED
    BY <2>1 DEF NV!Next
<1>12. CASE UNCHANGED config_vars
  BY <1>12 DEF config_vars, Stored, Valid, Writing, ram, flash, write
<1> QED
  BY <1>1, <1>2, <1>3, <1>4, <1>5, <1>6, <1>7, <1>8, <1>9, <1>10, <1>11, <1>12
     DEF ConfigNext, ConfigCommand, ConfigWrite

(* The flash with its CRC implements the store that is written all or      *)
(* nothing.                                                                *)
THEOREM Implements == ConfigSpec => ImplementsStore
<1>1. ConfigInit => NV!Init
  BY DEF ConfigInit, NV!Init, Stored, Valid, Writing, crc32_range
<1> QED
  BY <1>1, ConfigTyping, Tells, StoreStep, PTL
     DEF ConfigSpec, ImplementsStore, NV!Spec

-----------------------------------------------------------------------------

(* What a pending read_config that was not overtaken knows.                *)
PlaceInTurn ==
  /\ Writing => ~do_write_config
  /\ awaits => do_read_config /\ (do_write_config \/ Writing)
  /\ do_read_config /\ ~crossed /\ ~awaits =>
       /\ ~do_write_config
       /\ ~Writing
       /\ expected # {} => expected = Stored

(* Every step keeps it.                                                    *)
LEMMA TurnStep ==
  ConfigTypeOK /\ CrcTells /\ PlaceInTurn /\ [ConfigNext]_config_vars => PlaceInTurn'
<1> SUFFICES ASSUME ConfigTypeOK, CrcTells, PlaceInTurn, [ConfigNext]_config_vars
             PROVE  PlaceInTurn'
  OBVIOUS
<1> USE DEF PlaceInTurn
<1>1. CASE Set
  BY <1>1 DEF Set, Stored, Valid, Writing, flash, write, pending, history
<1>2. CASE TypeWrite
  BY <1>2 DEF TypeWrite, ConfigTypeOK, Stored, Valid, Writing, ram, flash, write
<1>3. CASE TypeRead
  BY <1>3 DEF TypeRead, ConfigTypeOK, Stored, Valid, Writing, ram, flash, write
<1>4. CASE BeginWrite
  BY <1>4 DEF BeginWrite, ConfigTypeOK, Writing, flash, history
<1>5. CASE EraseByte
  BY <1>5 DEF EraseByte, Writing, ram, write, pending, history
<1>6. CASE EraseCrc
  BY <1>6 DEF EraseCrc, Writing, ram, write, pending, history
<1>7. CASE EraseDone
  BY <1>7 DEF EraseDone, Writing, ram, flash, pending, history
<1>8. CASE ProgramByte
  <2>1. Writing /\ Writing'
    BY <1>8 DEF ProgramByte, Writing
  <2> QED
    BY <1>8, <2>1 DEF ProgramByte, ram, pending, history
<1>9. CASE ProgramCrc
  <2>1. Writing /\ ~Writing' /\ Stored' = {sector}
    BY <1>9, CrcCompletes
  <2>2. ~awaits' /\ do_read_config' = do_read_config /\ ~do_write_config'
    BY <1>9, <2>1 DEF ProgramCrc, pending
  <2>3. crossed' = crossed /\ expected' = IF awaits THEN {sector} ELSE expected
    BY <1>9 DEF ProgramCrc
  <2> QED
    BY <2>1, <2>2, <2>3
<1>10. CASE ReadConfig
  BY <1>10 DEF ReadConfig, Writing, flash, write
<1>11. CASE PowerLoss
  BY <1>11 DEF PowerLoss
<1>12. CASE UNCHANGED config_vars
  BY <1>12 DEF config_vars, Stored, Valid, Writing, ram, flash, write, pending,
     history
<1> QED
  BY <1>1, <1>2, <1>3, <1>4, <1>5, <1>6, <1>7, <1>8, <1>9, <1>10, <1>11, <1>12
     DEF ConfigNext, ConfigCommand, ConfigWrite

(* read_config gives what was saved when it was typed, unless it is        *)
(* overtaken.                                                              *)
THEOREM ReadsInTurn == ConfigSpec => ReadInTurn
<1>1. ConfigInit => PlaceInTurn
  BY DEF ConfigInit, PlaceInTurn, Writing
<1>2. ConfigTypeOK /\ PlaceInTurn /\ [ConfigNext]_config_vars =>
        [ReadConfig /\ ~crossed =>
           ~awaits /\ (expected # {} => expected = {configuration'})]_config_vars
  <2> SUFFICES ASSUME PlaceInTurn, ReadConfig, ~crossed
               PROVE  ~awaits /\ (expected # {} => expected = {configuration'})
    OBVIOUS
  <2>1. ~awaits
    BY DEF PlaceInTurn, ReadConfig, MayRead
  <2>2. expected # {} => expected = Stored
    BY <2>1 DEF PlaceInTurn, ReadConfig, MayRead
  <2> QED
    BY <2>1, <2>2 DEF ReadConfig, Stored
<1>3. ConfigSpec => []PlaceInTurn
  BY <1>1, ConfigTyping, Tells, TurnStep, PTL DEF ConfigSpec
<1> QED
  BY <1>2, <1>3, ConfigTyping, PTL DEF ConfigSpec, ReadInTurn

-----------------------------------------------------------------------------
(***************************************************************************)
(* The run-length code, for every longest count and every image: a count   *)
(* fits its byte, the decoder overshoots by one run at most, and what      *)
(* either encoder wrote is read back.                                      *)
(***************************************************************************)

RleFlagsOK == in_run \in BOOLEAN /\ decoding \in BOOLEAN

RleCodeOK ==
  /\ encoder \in Encoders
  /\ in \in Seq(Chars) /\ code \in Seq(Chars)
  /\ index \in 0 .. Len(in)
  /\ prevChar \in Chars \cup {RLE_NULL}
  /\ count \in Chars

(* A run that goes on has not reached its greatest length.                 *)
RunGoesOn == in_run => count < MAX

RleOutOK ==
  /\ out \in Seq(Chars)
  /\ last \in Chars \cup {RLE_NULL}
  /\ ptr \in Nat
  /\ Len(out) <= len + 1 + MAX

RleInv == RleTypeOK /\ RunGoesOn

LEMMA RleParts == RleTypeOK <=> RleFlagsOK /\ RleCodeOK /\ RleOutOK
BY Zenon DEF RleTypeOK, RleFlagsOK, RleCodeOK, RleOutOK

LEMMA RleStart == RleInit => RleInv
<1> SUFFICES ASSUME RleInit PROVE RleInv
  OBVIOUS
<1> USE RleAssumption
<1>1. in \in Seq(Chars)
  <2>1. PICK n \in LENGTHS :
          in \in [1 .. (IF encoder = "rle_encode" THEN n + 1 ELSE n) -> Chars]
    BY DEF RleInit
  <2> QED
    BY <2>1
<1>2. RleCodeOK
  BY <1>1 DEF RleInit, RleCodeOK, Chars
<1>3. RleOutOK
  BY <1>1 DEF RleInit, RleOutOK, len
<1>4. RleFlagsOK /\ RunGoesOn
  BY DEF RleInit, RleFlagsOK, RunGoesOn
<1> QED
  BY <1>2, <1>3, <1>4, RleParts DEF RleInv

LEMMA LastCountOK ==
  ASSUME NEW n \in Chars
  PROVE  LastCount(n) \in Seq(Chars)
BY DEF LastCount

LEMMA Comparison ==
  ASSUME NEW m \in Int, NEW n \in Int
  PROVE  (m < n) = TRUE \/ (m < n) = FALSE
OBVIOUS

LEMMA RleFlagsStep == RleFlagsOK /\ RleCodeOK /\ [RleNext]_rle_vars => RleFlagsOK'
<1> SUFFICES ASSUME RleFlagsOK, RleCodeOK, [RleNext]_rle_vars PROVE RleFlagsOK'
  OBVIOUS
<1>1. CASE EncodeByte
  <2>1. in_run' = (in[index'] = prevChar)
    BY <1>1 DEF EncodeByte
  <2>2. decoding' = decoding
    BY <1>1 DEF EncodeByte
  <2>3. in[index'] = prevChar => in_run' = TRUE
    BY <2>1, Zenon
  <2>4. in[index'] # prevChar => in_run' = FALSE
    BY <2>1, Zenon
  <2>5. in_run' \in {TRUE, FALSE}
    BY <2>3, <2>4, Zenon
  <2> QED
    BY <2>2, <2>5, Zenon DEF RleFlagsOK
<1>2. CASE EncodeRepeat
  <2>1. in_run' = (count' < MAX) /\ decoding' = decoding
    BY <1>2 DEF EncodeRepeat
  <2>2. count' \in Int /\ MAX \in Int
    BY <1>2, RleAssumption DEF EncodeRepeat, RleCodeOK, Chars
  <2>3. (count' < MAX) = TRUE \/ (count' < MAX) = FALSE
    BY <2>2, Comparison, Zenon
  <2>4. in_run' \in {TRUE, FALSE}
    BY <2>1, <2>3, Zenon
  <2> QED
    BY <2>1, <2>4, Zenon DEF RleFlagsOK
<1>3. CASE EncodeChange \/ StartDecoding
  BY <1>3, Zenon DEF EncodeChange, StartDecoding, RleFlagsOK, encode_vars
<1>4. CASE DecodeByte \/ UNCHANGED rle_vars
  BY <1>4 DEF DecodeByte, rle_vars, RleFlagsOK, encode_vars
<1> QED
  BY <1>1, <1>2, <1>3, <1>4 DEF RleNext

LEMMA RleCodeStep ==
  RleCodeOK /\ RunGoesOn /\ [RleNext]_rle_vars => RleCodeOK' /\ RunGoesOn'
<1> SUFFICES ASSUME RleCodeOK, RunGoesOn, [RleNext]_rle_vars
             PROVE  RleCodeOK' /\ RunGoesOn'
  OBVIOUS
<1> USE RleAssumption DEF RleCodeOK, RunGoesOn, decode_vars, encode_vars
<1> 0 \in Chars
  BY DEF Chars
<1>1. CASE EncodeByte
  <2>1. index' = index + 1 /\ index' \in 1 .. Len(in) /\ in[index'] \in Chars
    BY <1>1 DEF EncodeByte
  <2>2. count' \in Chars /\ (in_run' => count' = 0) /\ prevChar' = in[index']
    BY <1>1, <2>1 DEF EncodeByte
  <2>3. code' \in Seq(Chars)
    BY <1>1, <2>1, <2>2, LastCountOK DEF EncodeByte
  <2> QED
    BY <1>1, <2>1, <2>2, <2>3 DEF EncodeByte
<1>2. CASE EncodeRepeat
  <2>1. in_run /\ index < Len(in) /\ index' = index + 1 /\ count' = count + 1
    BY <1>2 DEF EncodeRepeat
  <2>2. count < MAX
    BY <2>1
  <2>3. index' \in 1 .. Len(in) /\ count' \in Chars
    BY <2>1, <2>2 DEF Chars
  <2>4. in_run' => count' < MAX
    BY <1>2, Zenon DEF EncodeRepeat
  <2>5. code' \in Seq(Chars)
    BY <1>2, <2>1, <2>3, LastCountOK DEF EncodeRepeat
  <2>6. prevChar' \in Chars \cup {RLE_NULL} /\ encoder' = encoder /\ in' = in
    BY <1>2 DEF EncodeRepeat
  <2> QED
    BY <2>3, <2>4, <2>5, <2>6
<1>3. CASE EncodeChange
  <2>1. index' = index + 1 /\ index' \in 1 .. Len(in) /\ in[index'] \in Chars
    BY <1>3 DEF EncodeChange
  <2>2. code' \in Seq(Chars)
    BY <1>3, <2>1, LastCountOK DEF EncodeChange
  <2> QED
    BY <1>3, <2>1, <2>2 DEF EncodeChange
<1>4. CASE StartDecoding \/ DecodeByte
  BY <1>4 DEF StartDecoding, DecodeByte
<1>5. CASE UNCHANGED rle_vars
  BY <1>5 DEF rle_vars
<1> QED
  BY <1>1, <1>2, <1>3, <1>4, <1>5 DEF RleNext

LEMMA RleOutStep == RleCodeOK /\ RleOutOK /\ [RleNext]_rle_vars => RleOutOK'
<1> SUFFICES ASSUME RleCodeOK, RleOutOK, [RleNext]_rle_vars PROVE RleOutOK'
  OBVIOUS
<1> USE RleAssumption DEF RleCodeOK, RleOutOK, decode_vars, encode_vars
<1>1. CASE DecodeByte
  <2>1. PICK currChar \in ByteAt(ptr + 1) :
          IF currChar = last
            THEN \E n \in ByteAt(ptr + 2) :
                   /\ out' = out \o [k \in 1 .. n + 1 |-> currChar]
                   /\ last' = RLE_NULL
                   /\ ptr' = ptr + 2
            ELSE /\ out' = Append(out, currChar)
                 /\ last' = currChar
                 /\ ptr' = ptr + 1
    BY <1>1 DEF DecodeByte
  <2>2. len' = len /\ len \in Int /\ Len(out) < len + 1
    BY <1>1 DEF DecodeByte, len
  <2>3. ByteAt(ptr + 1) \subseteq Chars /\ ByteAt(ptr + 2) \subseteq Chars
    BY DEF ByteAt
  <2>4. CASE currChar = last
    <3>1. PICK n \in Chars : /\ out' = out \o [k \in 1 .. n + 1 |-> currChar]
                             /\ last' = RLE_NULL
                             /\ ptr' = ptr + 2
      BY <2>1, <2>3, <2>4
    <3>2. n \in 0 .. MAX /\ currChar \in Chars
      BY <2>3 DEF Chars
    <3>3. /\ [k \in 1 .. n + 1 |-> currChar] \in Seq(Chars)
          /\ Len([k \in 1 .. n + 1 |-> currChar]) = n + 1
      BY <3>2
    <3>4. out' \in Seq(Chars) /\ Len(out') = Len(out) + n + 1
      BY <3>1, <3>2, <3>3
    <3> QED
      BY <2>2, <3>1, <3>2, <3>4
  <2>5. CASE currChar # last
    <3>1. /\ out' = Append(out, currChar) /\ last' = currChar
          /\ ptr' = ptr + 1 /\ currChar \in Chars
      BY <2>1, <2>3, <2>5
    <3>2. out' \in Seq(Chars) /\ Len(out') = Len(out) + 1
      BY <3>1
    <3> QED
      BY <2>2, <3>1, <3>2
  <2> QED
    BY <2>4, <2>5
<1>2. CASE EncodeByte \/ EncodeRepeat \/ EncodeChange \/ StartDecoding \/ UNCHANGED rle_vars
  BY <1>2 DEF EncodeByte, EncodeRepeat, EncodeChange, StartDecoding, rle_vars, len
<1> QED
  BY <1>1, <1>2 DEF RleNext

LEMMA RleStep == RleInv /\ [RleNext]_rle_vars => RleInv'
<1>1. RleTypeOK' <=> RleFlagsOK' /\ RleCodeOK' /\ RleOutOK'
  BY Zenon DEF RleTypeOK, RleFlagsOK, RleCodeOK, RleOutOK
<1> QED
  BY <1>1, RleParts, RleFlagsStep, RleCodeStep, RleOutStep DEF RleInv

(* A count fits its byte, and the decoder overshoots by one run at most.   *)
THEOREM RleTyping == RleSpec => []RleTypeOK
<1>1. RleInv => RleTypeOK
  BY DEF RleInv
<1> QED
  BY <1>1, RleStart, RleStep, PTL DEF RleSpec

-----------------------------------------------------------------------------

(* The decoder's steps on a finished code.  A state of it is the bytes it  *)
(* has read, the number it has produced, and last; a step from c to d is   *)
(* right if what it produces is in s, of which n bytes are encoded.        *)
DecoderStates == Nat \X Nat \X (Chars \cup {RLE_NULL})

OneByte(c, d, cd, s, n) ==
  /\ c[1] + 1 <= Len(cd) /\ cd[c[1] + 1] # c[3]
  /\ c[2] + 1 <= n /\ s[c[2] + 1] = cd[c[1] + 1]
  /\ d = <<c[1] + 1, c[2] + 1, cd[c[1] + 1]>>

Run(c, d, cd, s, n) ==
  /\ c[1] + 2 <= Len(cd) /\ cd[c[1] + 1] = c[3]
  /\ c[2] + cd[c[1] + 2] + 1 <= n
  /\ \A k \in c[2] + 1 .. c[2] + cd[c[1] + 2] + 1 : s[k] = c[3]
  /\ d = <<c[1] + 2, c[2] + cd[c[1] + 2] + 1, RLE_NULL>>

Right(c, d, cd, s, n) == OneByte(c, d, cd, s, n) \/ Run(c, d, cd, s, n)

(* P holds the states the decoder goes through, from its first to f: from  *)
(* each other one a right step leads on.                                   *)
Path(P, f, cd, s, n) ==
  /\ P \subseteq DecoderStates
  /\ <<0, 0, RLE_NULL>> \in P /\ f \in P
  /\ \A c \in P : c = f \/ \E d \in P : Right(c, d, cd, s, n)

(* rle_encode has written the byte after the last one.                     *)
Ended == encoder = "rle_encode" /\ index = Len(in)

(* How far the decoder would get with what has been written: to all that   *)
(* has been read, or to the second byte of an open run.                    *)
Frontier(f) ==
  /\ Ended => f[1] <= Len(code) /\ f[2] = index
  /\ ~Ended /\ ~in_run =>
       /\ f = <<Len(code), index, prevChar>>
       /\ prevChar # RLE_NULL => index >= 1 /\ in[index] = prevChar
  /\ ~Ended /\ in_run =>
       /\ f = <<Len(code) - 1, index - 1 - count, prevChar>>
       /\ Len(code) >= 1 /\ code[Len(code)] = prevChar /\ prevChar \in Chars
       /\ index - 1 - count >= 1
       /\ \A k \in index - 1 - count .. index : in[k] = prevChar

(* cd2 is cd with more behind it.                                          *)
Longer(cd, cd2) ==
  /\ cd \in Seq(Chars) /\ cd2 \in Seq(Chars)
  /\ Len(cd) <= Len(cd2)
  /\ \A k \in 1 .. Len(cd) : cd2[k] = cd[k]

LEMMA OneMore ==
  ASSUME NEW cd \in Seq(Chars), NEW b \in Chars
  PROVE  /\ cd \o <<b>> \in Seq(Chars) /\ Len(cd \o <<b>>) = Len(cd) + 1
         /\ (cd \o <<b>>)[Len(cd) + 1] = b
         /\ \A k \in 1 .. Len(cd) : (cd \o <<b>>)[k] = cd[k]
OBVIOUS

LEMMA NoMore == ASSUME NEW cd \in Seq(Chars) PROVE cd \o <<>> = cd
OBVIOUS

LEMMA TwoMore ==
  ASSUME NEW cd \in Seq(Chars), NEW b \in Chars, NEW a \in Chars
  PROVE  /\ cd \o <<b>> \o <<a>> \in Seq(Chars)
         /\ Len(cd \o <<b>> \o <<a>>) = Len(cd) + 2
         /\ (cd \o <<b>> \o <<a>>)[Len(cd) + 1] = b
         /\ (cd \o <<b>> \o <<a>>)[Len(cd) + 2] = a
         /\ \A k \in 1 .. Len(cd) : (cd \o <<b>> \o <<a>>)[k] = cd[k]
<1> DEFINE c == cd \o <<b>>
<1>1. /\ c \in Seq(Chars) /\ Len(c) = Len(cd) + 1 /\ c[Len(cd) + 1] = b
      /\ \A k \in 1 .. Len(cd) : c[k] = cd[k]
  BY OneMore
<1> HIDE DEF c
<1>2. /\ c \o <<a>> \in Seq(Chars) /\ Len(c \o <<a>>) = Len(c) + 1
      /\ (c \o <<a>>)[Len(c) + 1] = a
      /\ \A k \in 1 .. Len(c) : (c \o <<a>>)[k] = c[k]
  BY <1>1, OneMore
<1>3. /\ c \o <<a>> \in Seq(Chars) /\ Len(c \o <<a>>) = Len(cd) + 2
      /\ (c \o <<a>>)[Len(cd) + 1] = b /\ (c \o <<a>>)[Len(cd) + 2] = a
      /\ \A k \in 1 .. Len(cd) : (c \o <<a>>)[k] = cd[k]
  BY <1>1, <1>2
<1> QED
  BY <1>3 DEF c

LEMMA RightStill ==
  ASSUME NEW cd, NEW cd2, Longer(cd, cd2), NEW s,
         NEW n \in Nat, NEW m \in Nat, n <= m,
         NEW c \in DecoderStates, NEW d, Right(c, d, cd, s, n)
  PROVE  Right(c, d, cd2, s, m)
<1> USE DEF Longer
<1>1. c[1] \in Nat /\ c[2] \in Nat
  BY DEF DecoderStates
<1>2. CASE OneByte(c, d, cd, s, n)
  <2>1. c[1] + 1 \in 1 .. Len(cd)
    BY <1>1, <1>2 DEF OneByte
  <2>2. cd2[c[1] + 1] = cd[c[1] + 1]
    BY <2>1
  <2>3. c[1] + 1 <= Len(cd2) /\ c[2] + 1 <= m
    BY <1>1, <1>2 DEF OneByte
  <2>4. OneByte(c, d, cd2, s, m)
    BY <1>2, <2>2, <2>3, Zenon DEF OneByte
  <2> QED
    BY <2>4 DEF Right
<1>3. CASE Run(c, d, cd, s, n)
  <2>1. c[1] + 1 \in 1 .. Len(cd) /\ c[1] + 2 \in 1 .. Len(cd)
    BY <1>1, <1>3 DEF Run
  <2>2. cd2[c[1] + 1] = cd[c[1] + 1] /\ cd2[c[1] + 2] = cd[c[1] + 2]
    BY <2>1
  <2>3. cd[c[1] + 2] \in Nat
    BY <2>1, RleAssumption, SMTT(20) DEF Chars
  <2>4. c[1] + 2 <= Len(cd2) /\ c[2] + cd[c[1] + 2] + 1 <= m
    BY <1>1, <1>3, <2>3 DEF Run
  <2>5. Run(c, d, cd2, s, m)
    BY <1>3, <2>2, <2>4, Zenon DEF Run
  <2> QED
    BY <2>5 DEF Right
<1> QED
  BY <1>2, <1>3 DEF Right

LEMMA PathStays ==
  ASSUME NEW P, NEW f, NEW cd, NEW cd2, NEW s, NEW n \in Nat, NEW m \in Nat, n <= m,
         Longer(cd, cd2), Path(P, f, cd, s, n)
  PROVE  Path(P, f, cd2, s, m)
<1>1. ASSUME NEW c \in P, c # f PROVE \E d \in P : Right(c, d, cd2, s, m)
  <2>1. PICK d \in P : Right(c, d, cd, s, n)
    BY <1>1 DEF Path
  <2>2. c \in DecoderStates
    BY DEF Path
  <2>3. Right(c, d, cd2, s, m)
    BY <2>1, <2>2, RightStill
  <2> QED
    BY <2>3
<1> QED
  BY <1>1, Zenon DEF Path

LEMMA PathGrows ==
  ASSUME NEW P, NEW f, NEW cd, NEW s, NEW n, Path(P, f, cd, s, n),
         NEW d \in DecoderStates, Right(f, d, cd, s, n)
  PROVE  Path(P \cup {d}, d, cd, s, n)
<1>1. ASSUME NEW c \in P \cup {d}, c # d
      PROVE  \E e \in P \cup {d} : Right(c, e, cd, s, n)
  <2>1. CASE c = f
    BY <2>1
  <2>2. CASE c # f
    BY <1>1, <2>2 DEF Path
  <2> QED
    BY <2>1, <2>2
<1> QED
  BY <1>1, Zenon DEF Path

LEMMA LastCountAdds ==
  ASSUME NEW n \in Chars, encoder' = encoder, in' = in
  PROVE  LastCount(n) = IF Ended' THEN <<n>> ELSE <<>>
BY DEF LastCount, Ended

Decodable ==
  \E P \in SUBSET DecoderStates : \E f \in P : Path(P, f, code, in, index) /\ Frontier(f)

LEMMA EncodeByteDecodable == RleCodeOK /\ Decodable /\ EncodeByte => Decodable'
<1> SUFFICES ASSUME RleCodeOK, Decodable, EncodeByte PROVE Decodable'
  OBVIOUS
<1> USE RleAssumption
<1>1. /\ in \in Seq(Chars) /\ code \in Seq(Chars) /\ index \in 0 .. Len(in)
      /\ prevChar \in Chars \cup {RLE_NULL} /\ count \in Chars
      /\ ~in_run /\ index < Len(in) /\ index' = index + 1
      /\ encoder' = encoder /\ in' = in
  BY DEF RleCodeOK, EncodeByte
<1> DEFINE ch == in[index']
<1>2. /\ in_run' = (ch = prevChar)
      /\ count' = IF in_run' THEN 0 ELSE count
      /\ prevChar' = ch
      /\ code' = code \o <<ch>> \o LastCount(count')
  BY Zenon DEF EncodeByte
<1>3. ch \in Chars /\ count' \in Chars /\ ch # RLE_NULL
  BY <1>1, <1>2 DEF Chars, RLE_NULL
<1>4. ~Ended
  BY <1>1 DEF Ended
<1>5. LastCount(count') = IF Ended' THEN <<count'>> ELSE <<>>
  BY <1>1, <1>3, LastCountAdds
<1>6. PICK P \in SUBSET DecoderStates :
          \E f \in P : Path(P, f, code, in, index) /\ Frontier(f)
  BY DEF Decodable
<1>7. PICK f \in P : Path(P, f, code, in, index) /\ Frontier(f)
  BY <1>6
<1>8. /\ f = <<Len(code), index, prevChar>>
      /\ prevChar # RLE_NULL => index >= 1 /\ in[index] = prevChar
  BY <1>1, <1>4, <1>7 DEF Frontier
<1>9. /\ code' \in Seq(Chars) /\ Len(code') = IF Ended' THEN Len(code) + 2 ELSE Len(code) + 1
      /\ \A k \in 1 .. Len(code) : code'[k] = code[k]
      /\ code'[Len(code) + 1] = ch
      /\ Ended' => code'[Len(code) + 2] = count'
  <2>1. CASE Ended'
    <3>1. code' = code \o <<ch>> \o <<count'>>
      BY <1>2, <1>5, <2>1, Zenon
    <3>2. /\ code' \in Seq(Chars) /\ Len(code') = Len(code) + 2
          /\ code'[Len(code) + 1] = ch /\ code'[Len(code) + 2] = count'
          /\ \A k \in 1 .. Len(code) : code'[k] = code[k]
      BY <1>1, <1>3, <3>1, TwoMore
    <3> QED
      BY <2>1, <3>2
  <2>2. CASE ~Ended'
    <3>1. LastCount(count') = <<>>
      BY <1>5, <2>2, Zenon
    <3>2. code' = code \o <<ch>>
      BY <1>1, <1>2, <1>3, <3>1
    <3>3. /\ code' \in Seq(Chars) /\ Len(code') = Len(code) + 1
          /\ code'[Len(code) + 1] = ch
          /\ \A k \in 1 .. Len(code) : code'[k] = code[k]
      BY <1>1, <1>3, <3>2, OneMore, Zenon
    <3> QED
      BY <2>2, <3>3
  <2> QED
    BY <2>1, <2>2
<1>10. Path(P, f, code', in, index')
  <2>1. Longer(code, code')
    BY <1>1, <1>9 DEF Longer
  <2> QED
    BY <1>1, <1>7, <2>1, PathStays
<1>11. CASE ch # prevChar
  <2>0. <<Len(code) + 1, index', ch>> \in DecoderStates
    BY <1>1, <1>3 DEF DecoderStates
  <2>1. PICK d \in DecoderStates : d = <<Len(code) + 1, index', ch>>
    BY <2>0, Zenon
  <2>2. OneByte(f, d, code', in, index')
    BY <1>1, <1>8, <1>9, <1>11, <2>1 DEF OneByte
  <2>3. Path(P \cup {d}, d, code', in, index')
    BY <1>10, <2>1, <2>2, PathGrows DEF Right
  <2>4. ~in_run'
    BY <1>2, <1>11
  <2>5. Frontier(d)'
    BY <1>1, <1>2, <1>9, <2>1, <2>4 DEF Frontier
  <2> QED
    BY <1>1, <2>1, <2>3, <2>5 DEF Decodable
<1>12. CASE ch = prevChar /\ Ended'
  <2>0. <<Len(code) + 2, index', RLE_NULL>> \in DecoderStates
    BY <1>1 DEF DecoderStates
  <2>1. PICK d \in DecoderStates : d = <<Len(code) + 2, index', RLE_NULL>>
    BY <2>0, Zenon
  <2>2. in_run' /\ count' = 0
    BY <1>2, <1>12
  <2>3. Run(f, d, code', in, index')
    BY <1>1, <1>8, <1>9, <1>12, <2>1, <2>2 DEF Run
  <2>4. Path(P \cup {d}, d, code', in, index')
    BY <1>10, <2>1, <2>3, PathGrows DEF Right
  <2>5. Frontier(d)'
    BY <1>9, <1>12, <2>1 DEF Frontier
  <2> QED
    BY <1>1, <2>1, <2>4, <2>5, SMTT(20) DEF Decodable
<1>13. CASE ch = prevChar /\ ~Ended'
  <2>1. in_run' /\ count' = 0
    BY <1>2, <1>13
  <2>2. \A k \in index' - 1 - count' .. index' : in[k] = prevChar
    BY <1>1, <1>3, <1>8, <1>13, <2>1
  <2>3. f = <<Len(code') - 1, index' - 1 - count', prevChar'>>
    BY <1>1, <1>2, <1>8, <1>9, <1>13, <2>1
  <2>4. /\ Len(code') >= 1 /\ code'[Len(code')] = prevChar' /\ prevChar' \in Chars
        /\ index' - 1 - count' >= 1
        /\ \A k \in index' - 1 - count' .. index' : in'[k] = prevChar'
    BY <1>1, <1>2, <1>3, <1>8, <1>9, <1>13, <2>1, <2>2
  <2>5. Frontier(f)'
    BY <1>13, <2>1, <2>3, <2>4 DEF Frontier
  <2> QED
    BY <1>1, <1>10, <2>5 DEF Decodable
<1> QED
  BY <1>11, <1>12, <1>13

(* One more of the same: the run is finished by its count, or goes on.     *)
LEMMA EncodeRepeatDecodable ==
  RleCodeOK /\ RunGoesOn /\ Decodable /\ EncodeRepeat => Decodable'
<1> SUFFICES ASSUME RleCodeOK, RunGoesOn, Decodable, EncodeRepeat PROVE Decodable'
  OBVIOUS
<1> USE RleAssumption
<1>1. /\ in \in Seq(Chars) /\ code \in Seq(Chars) /\ index \in 0 .. Len(in)
      /\ count \in Chars /\ count < MAX
      /\ in_run /\ index < Len(in) /\ index' = index + 1 /\ in[index'] = prevChar
      /\ encoder' = encoder /\ in' = in /\ count' = count + 1
  BY DEF RleCodeOK, RunGoesOn, EncodeRepeat
<1>2. /\ in_run' = (count' < MAX)
      /\ prevChar' = IF in_run' THEN prevChar ELSE RLE_NULL
      /\ code' = code \o (IF in_run' THEN <<>> ELSE <<count'>>) \o LastCount(count')
  BY Zenon DEF EncodeRepeat
<1>3. count' \in Chars /\ count \in Nat /\ count' \in Nat
  BY <1>1 DEF Chars
<1>4. ~Ended
  BY <1>1 DEF Ended
<1>5. LastCount(count') = IF Ended' THEN <<count'>> ELSE <<>>
  BY <1>1, <1>3, LastCountAdds
<1>6. PICK P \in SUBSET DecoderStates :
          \E f \in P : Path(P, f, code, in, index) /\ Frontier(f)
  BY DEF Decodable
<1>7. PICK f \in P : Path(P, f, code, in, index) /\ Frontier(f)
  BY <1>6
<1>8. /\ f = <<Len(code) - 1, index - 1 - count, prevChar>>
      /\ Len(code) >= 1 /\ code[Len(code)] = prevChar /\ prevChar \in Chars
      /\ index - 1 - count >= 1
      /\ \A k \in index - 1 - count .. index : in[k] = prevChar
  BY <1>1, <1>4, <1>7 DEF Frontier
<1>9. \A k \in index - 1 - count .. index' : in[k] = prevChar
  BY <1>1, <1>3, <1>8
<1>10. CASE in_run' /\ ~Ended'
  <2>1. LastCount(count') = <<>>
    BY <1>5, <1>10, Zenon
  <2>2. code' = code /\ prevChar' = prevChar
    <3>1. code' = code \o <<>> \o <<>> /\ prevChar' = prevChar
      BY <1>2, <1>10, <2>1, Zenon
    <3> QED
      BY <1>1, <3>1, NoMore
  <2>3. Longer(code, code')
    BY <1>1, <2>2 DEF Longer
  <2>4. Path(P, f, code', in, index')
    BY <1>1, <1>7, <2>3, PathStays
  <2>5. index' - 1 - count' = index - 1 - count
    BY <1>1, <1>3
  <2>6. Frontier(f)'
    BY <1>1, <1>8, <1>9, <1>10, <2>2, <2>5 DEF Frontier
  <2> QED
    BY <1>1, <2>4, <2>6 DEF Decodable
<1>11. CASE ~in_run' \/ Ended'
  <2>1. /\ code' \in Seq(Chars) /\ Len(code') >= Len(code) + 1
        /\ code'[Len(code) + 1] = count'
        /\ \A k \in 1 .. Len(code) : code'[k] = code[k]
        /\ ~Ended' => Len(code') = Len(code) + 1
    <3>1. CASE Ended' /\ ~in_run'
      <4>1. code' = code \o <<count'>> \o <<count'>>
        BY <1>2, <1>5, <3>1, Zenon
      <4>2. /\ code' \in Seq(Chars) /\ Len(code') = Len(code) + 2
            /\ code'[Len(code) + 1] = count'
            /\ \A k \in 1 .. Len(code) : code'[k] = code[k]
        BY <1>1, <1>3, <4>1, TwoMore
      <4> QED
        BY <1>1, <3>1, <4>2
    <3>2. CASE Ended' /\ in_run'
      <4>1. code' = code \o <<>> \o <<count'>>
        BY <1>2, <1>5, <3>2, Zenon
      <4>2. code' = code \o <<count'>>
        BY <1>1, <1>3, <4>1
      <4>3. /\ code' \in Seq(Chars) /\ Len(code') = Len(code) + 1
            /\ code'[Len(code) + 1] = count'
            /\ \A k \in 1 .. Len(code) : code'[k] = code[k]
        BY <1>1, <1>3, <4>2, OneMore, Zenon
      <4> QED
        BY <1>1, <3>2, <4>3
    <3>3. CASE ~Ended' /\ ~in_run'
      <4>1. code' = code \o <<count'>> \o <<>>
        BY <1>2, <1>5, <3>3, Zenon
      <4>2. code' = code \o <<count'>>
        BY <1>1, <1>3, <4>1
      <4>3. /\ code' \in Seq(Chars) /\ Len(code') = Len(code) + 1
            /\ code'[Len(code) + 1] = count'
            /\ \A k \in 1 .. Len(code) : code'[k] = code[k]
        BY <1>1, <1>3, <4>2, OneMore, Zenon
      <4> QED
        BY <1>1, <3>3, <4>3
    <3> QED
      BY <1>11, <3>1, <3>2, <3>3
  <2>2. Longer(code, code')
    BY <1>1, <2>1 DEF Longer
  <2>3. Path(P, f, code', in, index')
    BY <1>1, <1>7, <2>2, PathStays
  <2>4. <<Len(code) + 1, index', RLE_NULL>> \in DecoderStates
    BY <1>1 DEF DecoderStates
  <2>5. PICK d \in DecoderStates : d = <<Len(code) + 1, index', RLE_NULL>>
    BY <2>4, Zenon
  <2>6. /\ f[1] + 1 = Len(code) /\ f[1] + 2 = Len(code) + 1 /\ f[3] = prevChar
        /\ f[2] + count' + 1 = index' /\ f[2] = index - 1 - count
        /\ d[1] = Len(code) + 1 /\ d[2] = index'
    BY <1>1, <1>3, <1>8, <2>5
  <2>7. code'[Len(code)] = prevChar
    <3>1. Len(code) \in 1 .. Len(code) /\ code[Len(code)] = prevChar
      BY <1>1, <1>8
    <3> QED
      BY <2>1, <3>1, Zenon
  <2>8. \A k \in f[2] + 1 .. index' : in[k] = prevChar
    BY <1>1, <1>3, <1>9, <2>6
  <2>9. Run(f, d, code', in, index')
    <3>1. /\ code'[f[1] + 1] = f[3] /\ code'[f[1] + 2] = count'
          /\ f[1] + 2 <= Len(code') /\ f[2] + count' + 1 <= index'
      BY <1>1, <1>3, <2>1, <2>6, <2>7, SMTT(20)
    <3>2. d = <<f[1] + 2, f[2] + count' + 1, RLE_NULL>>
      BY <2>5, <2>6
    <3>3. \A k \in f[2] + 1 .. f[2] + count' + 1 : in[k] = f[3]
      BY <2>6, <2>8
    <3> QED
      BY <3>1, <3>2, <3>3, Zenon DEF Run
  <2>10. Path(P \cup {d}, d, code', in, index')
    BY <2>3, <2>9, PathGrows DEF Right
  <2>11. CASE Ended'
    <3>1. Frontier(d)'
      BY <2>1, <2>6, <2>11 DEF Frontier
    <3> QED
      BY <1>1, <2>10, <3>1 DEF Decodable
  <2>12. CASE ~Ended'
    <3>1. ~in_run' /\ prevChar' = RLE_NULL /\ Len(code') = Len(code) + 1
      BY <1>2, <1>11, <2>1, <2>12
    <3>2. Frontier(d)'
      BY <2>5, <2>12, <3>1 DEF Frontier
    <3> QED
      BY <1>1, <2>10, <3>2 DEF Decodable
  <2> QED
    BY <2>11, <2>12
<1> QED
  BY <1>10, <1>11

(* Another character: the count, and the character, which begins anew.     *)
LEMMA EncodeChangeDecodable == RleCodeOK /\ Decodable /\ EncodeChange => Decodable'
<1> SUFFICES ASSUME RleCodeOK, Decodable, EncodeChange PROVE Decodable'
  OBVIOUS
<1> USE RleAssumption
<1>1. /\ in \in Seq(Chars) /\ code \in Seq(Chars) /\ index \in 0 .. Len(in)
      /\ count \in Chars /\ count \in Nat
      /\ in_run /\ index < Len(in) /\ index' = index + 1 /\ in[index'] # prevChar
      /\ encoder' = encoder /\ in' = in
      /\ in_run' = FALSE /\ prevChar' = in[index']
  BY DEF RleCodeOK, Chars, EncodeChange
<1> DEFINE ch == in[index']
<1>2. ch \in Chars /\ ch # RLE_NULL
  BY <1>1 DEF Chars, RLE_NULL
<1>3. code' = code \o <<count, ch>> \o LastCount(count)
  BY Zenon DEF EncodeChange
<1>4. ~Ended
  BY <1>1 DEF Ended
<1>5. LastCount(count) = IF Ended' THEN <<count>> ELSE <<>>
  BY <1>1, LastCountAdds
<1>6. PICK P \in SUBSET DecoderStates :
          \E f \in P : Path(P, f, code, in, index) /\ Frontier(f)
  BY DEF Decodable
<1>7. PICK f \in P : Path(P, f, code, in, index) /\ Frontier(f)
  BY <1>6
<1>8. /\ f = <<Len(code) - 1, index - 1 - count, prevChar>>
      /\ Len(code) >= 1 /\ code[Len(code)] = prevChar /\ prevChar \in Chars
      /\ index - 1 - count >= 1
      /\ \A k \in index - 1 - count .. index : in[k] = prevChar
  BY <1>1, <1>4, <1>7 DEF Frontier
<1>9. /\ code' \in Seq(Chars) /\ Len(code') >= Len(code) + 2
      /\ code'[Len(code) + 1] = count /\ code'[Len(code) + 2] = ch
      /\ \A k \in 1 .. Len(code) : code'[k] = code[k]
      /\ ~Ended' => Len(code') = Len(code) + 2
  <2> DEFINE two == code \o <<count>> \o <<ch>>
  <2>1. /\ two \in Seq(Chars) /\ Len(two) = Len(code) + 2
        /\ two[Len(code) + 1] = count /\ two[Len(code) + 2] = ch
        /\ \A k \in 1 .. Len(code) : two[k] = code[k]
    BY <1>1, <1>2, TwoMore
  <2>2. two = code \o <<count, ch>>
    BY <1>1, <1>2
  <2> HIDE DEF two
  <2>3. CASE Ended'
    <3>1. code' = two \o <<count>>
      BY <1>3, <1>5, <2>2, <2>3, Zenon
    <3>2. /\ code' \in Seq(Chars) /\ Len(code') = Len(two) + 1
          /\ \A k \in 1 .. Len(two) : code'[k] = two[k]
      BY <1>1, <2>1, <3>1, OneMore, Zenon
    <3>3. 1 .. Len(code) \subseteq 1 .. Len(two)
          /\ Len(code) + 1 \in 1 .. Len(two) /\ Len(code) + 2 \in 1 .. Len(two)
      BY <1>1, <2>1
    <3>4. /\ code'[Len(code) + 1] = count /\ code'[Len(code) + 2] = ch
          /\ \A k \in 1 .. Len(code) : code'[k] = code[k]
      BY <2>1, <3>2, <3>3, Zenon
    <3>5. Len(code') >= Len(code) + 2
      BY <1>1, <2>1, <3>2
    <3> QED
      BY <2>3, <3>2, <3>4, <3>5
  <2>4. CASE ~Ended'
    <3>1. code' = two \o <<>>
      BY <1>3, <1>5, <2>2, <2>4, Zenon
    <3>2. code' = two
      BY <2>1, <3>1
    <3> QED
      BY <1>1, <2>1, <2>4, <3>2
  <2> QED
    BY <2>3, <2>4
<1>10. Path(P, f, code', in, index')
  <2>1. Longer(code, code')
    BY <1>1, <1>9 DEF Longer
  <2> QED
    BY <1>1, <1>7, <2>1, PathStays
<1>11. <<Len(code) + 1, index, RLE_NULL>> \in DecoderStates
  BY <1>1 DEF DecoderStates
<1>12. PICK d \in DecoderStates : d = <<Len(code) + 1, index, RLE_NULL>>
  BY <1>11, Zenon
<1>13. <<Len(code) + 2, index', ch>> \in DecoderStates
  BY <1>1, <1>2 DEF DecoderStates
<1>14. PICK e \in DecoderStates : e = <<Len(code) + 2, index', ch>>
  BY <1>13, Zenon
<1>15. /\ f[1] + 1 = Len(code) /\ f[1] + 2 = Len(code) + 1 /\ f[3] = prevChar
       /\ f[2] + count + 1 = index /\ f[2] = index - 1 - count
       /\ d[1] = Len(code) + 1 /\ d[2] = index /\ d[3] = RLE_NULL
       /\ e[1] = Len(code) + 2 /\ e[2] = index'
  BY <1>1, <1>8, <1>12, <1>14
<1>16. Run(f, d, code', in, index')
  <2>0. Len(code) \in 1 .. Len(code)
    BY <1>1, <1>8
  <2>1. code'[Len(code)] = prevChar
    BY <1>8, <1>9, <2>0, Zenon
  <2>2. \A k \in f[2] + 1 .. index : in[k] = prevChar
    BY <1>1, <1>8, <1>15
  <2> QED
    <3>1. /\ code'[f[1] + 1] = f[3] /\ code'[f[1] + 2] = count
          /\ f[1] + 2 <= Len(code') /\ f[2] + count + 1 <= index'
      BY <1>1, <1>9, <1>15, <2>1, SMTT(20)
    <3>2. d = <<f[1] + 2, f[2] + count + 1, RLE_NULL>>
      BY <1>12, <1>15
    <3>3. \A k \in f[2] + 1 .. f[2] + count + 1 : in[k] = f[3]
      BY <1>15, <2>2
    <3> QED
      BY <3>1, <3>2, <3>3, Zenon DEF Run
<1>17. OneByte(d, e, code', in, index')
  BY <1>1, <1>2, <1>9, <1>14, <1>15 DEF OneByte
<1>18. Path(P \cup {d}, d, code', in, index')
  BY <1>10, <1>16, PathGrows DEF Right
<1>19. Path((P \cup {d}) \cup {e}, e, code', in, index')
  BY <1>17, <1>18, PathGrows DEF Right
<1>20. Frontier(e)'
  BY <1>1, <1>9, <1>14, <1>15 DEF Frontier
<1> QED
  BY <1>1, <1>19, <1>20 DEF Decodable

LEMMA AgreeRun ==
  ASSUME NEW s \in Seq(Chars), NEW t \in Seq(Chars), NEW ch \in Chars, NEW m \in Nat,
         Agree(s, t), \A k \in Len(s) + 1 .. Len(s) + m : k <= Len(t) => t[k] = ch
  PROVE  /\ Agree(s \o [k \in 1 .. m |-> ch], t)
         /\ Len(s \o [k \in 1 .. m |-> ch]) = Len(s) + m
<1> DEFINE r == [k \in 1 .. m |-> ch]
<1>1. r \in Seq(Chars) /\ Len(r) = m /\ \A k \in 1 .. m : r[k] = ch
  OBVIOUS
<1> HIDE DEF r
<1>2. /\ Len(s \o r) = Len(s) + m
      /\ \A k \in 1 .. Len(s) : (s \o r)[k] = s[k]
      /\ \A k \in Len(s) + 1 .. Len(s) + m : (s \o r)[k] = ch
  <2>1. /\ Len(s \o r) = Len(s) + Len(r)
        /\ \A k \in 1 .. Len(s) + Len(r) :
             (s \o r)[k] = IF k <= Len(s) THEN s[k] ELSE r[k - Len(s)]
    BY <1>1, ConcatProperties
  <2>2. \A k \in Len(s) + 1 .. Len(s) + m : k - Len(s) \in 1 .. m
    OBVIOUS
  <2> QED
    BY <1>1, <2>1, <2>2
<1>3. ASSUME NEW k \in 1 .. Len(s) + m, k <= Len(t) PROVE (s \o r)[k] = t[k]
  <2>1. CASE k <= Len(s)
    BY <1>2, <1>3, <2>1 DEF Agree
  <2>2. CASE k > Len(s)
    <3>1. k \in Len(s) + 1 .. Len(s) + m
      BY <2>2
    <3>2. (s \o r)[k] = ch
      BY <1>2, <3>1
    <3>3. t[k] = ch
      BY <1>3, <3>1, Zenon
    <3> QED
      BY <3>2, <3>3, Zenon
  <2>3. k <= Len(s) \/ k > Len(s)
    OBVIOUS
  <2> QED
    BY <2>1, <2>2, <2>3, Zenon
<1>4. Agree(s \o r, t)
  BY <1>2, <1>3 DEF Agree
<1> QED
  BY <1>2, <1>4 DEF r

LEMMA AgreeAppend ==
  ASSUME NEW s \in Seq(Chars), NEW t \in Seq(Chars), NEW ch \in Chars,
         Agree(s, t), Len(s) + 1 <= Len(t) => t[Len(s) + 1] = ch
  PROVE  Agree(Append(s, ch), t) /\ Len(Append(s, ch)) = Len(s) + 1
BY DEF Agree

(* The decoder is in a state of the path, and has produced what is in in;  *)
Here(P) == <<ptr, Len(out), last>> \in P /\ Agree(out, in)

(* or it is past the tool's code, which ended without a run, and has one   *)
(* byte more to produce at most.                                           *)
Beyond ==
  /\ encoder = "tool" /\ Agree(out, in) /\ ptr <= Len(code) + 2
  /\ Len(out) >= Len(in)
  /\ Len(out) = Len(in) => ptr = Len(code) + 1 /\ last = RLE_NULL

OpenEnd == encoder = "tool" /\ EndsInRun

\* One state of the path after the other.
LEMMA DecodeOnPath ==
  ASSUME RleCodeOK, RleOutOK, DecodeByte,
         NEW P, NEW f, Path(P, f, code, in, index), <<ptr, Len(out), last>> # f, Here(P)
  PROVE  <<ptr', Len(out'), last'>> \in P /\ Agree(out', in)
<1> USE RleAssumption
<1>1. /\ in \in Seq(Chars) /\ code \in Seq(Chars) /\ index \in 0 .. Len(in)
      /\ out \in Seq(Chars) /\ ptr \in Nat /\ Len(out) \in Nat
      /\ Agree(out, in)
  BY DEF RleCodeOK, RleOutOK, Here
<1>2. PICK d \in P : Right(<<ptr, Len(out), last>>, d, code, in, index)
  BY DEF Path, Here
<1>3. ptr + 1 \in 1 .. Len(code)
  BY <1>1, <1>2 DEF Right, OneByte, Run
<1> DEFINE ch == code[ptr + 1]
<1>4. ch \in Chars /\ ByteAt(ptr + 1) = {ch}
  BY <1>1, <1>3 DEF ByteAt
<1>5. CASE ch # last
  <2>1. /\ Len(out) + 1 <= index /\ in[Len(out) + 1] = ch
        /\ d = <<ptr + 1, Len(out) + 1, ch>>
    BY <1>2, <1>5 DEF Right, OneByte, Run
  <2>2. out' = Append(out, ch) /\ last' = ch /\ ptr' = ptr + 1
    BY <1>4, <1>5 DEF DecodeByte
  <2>3. Agree(out', in) /\ Len(out') = Len(out) + 1
    BY <1>1, <1>4, <2>1, <2>2, AgreeAppend, Zenon
  <2> QED
    BY <2>1, <2>2, <2>3, Zenon
<1>6. CASE ch = last
  <2>1. /\ ptr + 2 <= Len(code)
        /\ Len(out) + code[ptr + 2] + 1 <= index
        /\ \A k \in Len(out) + 1 .. Len(out) + code[ptr + 2] + 1 : in[k] = ch
        /\ d = <<ptr + 2, Len(out) + code[ptr + 2] + 1, RLE_NULL>>
    BY <1>2, <1>6 DEF Right, OneByte, Run
  <2>2. code[ptr + 2] \in Chars /\ code[ptr + 2] \in Nat /\ ByteAt(ptr + 2) = {code[ptr + 2]}
    BY <1>1, <2>1, SMTT(20) DEF ByteAt, Chars
  <2>3. /\ out' = out \o [k \in 1 .. code[ptr + 2] + 1 |-> ch]
        /\ last' = RLE_NULL /\ ptr' = ptr + 2
    BY <1>4, <1>6, <2>2 DEF DecodeByte
  <2>4. /\ code[ptr + 2] + 1 \in Nat
        /\ Len(out) + (code[ptr + 2] + 1) = Len(out) + code[ptr + 2] + 1
    BY <1>1, <2>2
  <2>5. /\ Agree(out', in)
        /\ Len(out') = Len(out) + (code[ptr + 2] + 1)
    <3>1. \A k \in Len(out) + 1 .. Len(out) + (code[ptr + 2] + 1) :
            k <= Len(in) => in[k] = ch
      BY <2>1, <2>4
    <3> QED
      BY <1>1, <1>4, <2>3, <2>4, <3>1, AgreeRun, ZenonT(30)
  <2> QED
    BY <2>1, <2>3, <2>4, <2>5, Zenon
<1> QED
  BY <1>5, <1>6

\* The end of the path: rle_encode's decoder is done, the tool's is not.
LEMMA DecodeAtFrontier ==
  ASSUME RleCodeOK, RleOutOK, DecodeByte, index = Len(in),
         NEW P, NEW f, f = <<ptr, Len(out), last>>, Frontier(f), Here(P)
  PROVE  Beyond' \/ OpenEnd
<1> USE RleAssumption
<1>1. /\ in \in Seq(Chars) /\ code \in Seq(Chars) /\ Len(in) \in Nat /\ Len(code) \in Nat
      /\ out \in Seq(Chars) /\ ptr \in Nat /\ Len(out) \in Nat
      /\ Agree(out, in) /\ count \in Nat
      /\ UNCHANGED <<encoder, in, code>>
      /\ Len(out) < len + 1
      /\ f[1] = ptr /\ f[2] = Len(out) /\ f[3] = last
  BY DEF RleCodeOK, RleOutOK, Here, DecodeByte, encode_vars, Chars
<1>2. encoder = "tool" /\ len = Len(in)
  <2>1. ASSUME encoder = "rle_encode" PROVE FALSE
    BY <1>1, <2>1 DEF Frontier, Ended, len
  <2> QED
    BY <2>1 DEF RleCodeOK, Encoders, len
<1>3. ~Ended
  BY <1>2 DEF Ended
<1>4. PICK ch \in ByteAt(ptr + 1) :
        \/ /\ ch = last
           /\ \E n \in ByteAt(ptr + 2) :
                /\ out' = out \o [k \in 1 .. n + 1 |-> ch]
                /\ last' = RLE_NULL /\ ptr' = ptr + 2
        \/ /\ ch # last
           /\ out' = Append(out, ch) /\ last' = ch /\ ptr' = ptr + 1
  BY DEF DecodeByte
<1>5. ByteAt(ptr + 1) \subseteq Chars /\ ByteAt(ptr + 2) \subseteq Chars
  BY <1>1 DEF ByteAt
<1>6. CASE ~in_run
  <2>1. ptr = Len(code) /\ Len(out) = Len(in)
    BY <1>1, <1>3, <1>6 DEF Frontier
  <2>2. CASE ch = last
    <3>1. PICK n \in Chars : /\ out' = out \o [k \in 1 .. n + 1 |-> ch]
                             /\ ptr' = ptr + 2
      BY <1>4, <1>5, <2>2
    <3>2. ch \in Chars /\ n + 1 \in Nat /\ n \in Nat
      BY <1>5 DEF Chars
    <3>3. \A k \in Len(out) + 1 .. Len(out) + (n + 1) : k <= Len(in) => in[k] = ch
      BY <1>1, <2>1, <3>2
    <3>4. Agree(out', in) /\ Len(out') = Len(out) + (n + 1)
      BY <1>1, <3>1, <3>2, <3>3, AgreeRun, ZenonT(30)
    <3> QED
      BY <1>1, <1>2, <2>1, <3>1, <3>2, <3>4, SMTT(20) DEF Beyond
  <2>3. CASE ch # last
    <3>1. out' = Append(out, ch) /\ ptr' = ptr + 1 /\ ch \in Chars
      BY <1>4, <1>5, <2>3
    <3>2. Agree(out', in) /\ Len(out') = Len(out) + 1
      <4>1. ~(Len(out) + 1 <= Len(in))
        BY <1>1, <2>1
      <4> QED
        BY <1>1, <3>1, <4>1, AgreeAppend, Zenon
    <3> QED
      BY <1>1, <1>2, <2>1, <3>1, <3>2 DEF Beyond
  <2> QED
    BY <2>2, <2>3
<1>7. CASE in_run /\ count = 0
  <2>1. /\ ptr = Len(code) - 1 /\ Len(out) = Len(in) - 1 /\ last = prevChar
        /\ Len(code) >= 1 /\ code[Len(code)] = prevChar /\ in[Len(in)] = prevChar
        /\ Len(in) >= 1
    BY <1>1, <1>3, <1>7 DEF Frontier
  <2>2. ByteAt(ptr + 1) = {last}
    BY <1>1, <2>1 DEF ByteAt
  <2>3. PICK n \in Chars : /\ out' = out \o [k \in 1 .. n + 1 |-> ch]
                           /\ last' = RLE_NULL /\ ptr' = ptr + 2
    BY <1>4, <1>5, <2>2
  <2>4. ch \in Chars /\ ch = prevChar /\ n + 1 \in Nat /\ n \in Nat
    BY <1>5, <2>1, <2>2 DEF Chars
  <2>5. \A k \in Len(out) + 1 .. Len(out) + (n + 1) : k <= Len(in) => in[k] = ch
    BY <1>1, <2>1, <2>4
  <2>6. Agree(out', in) /\ Len(out') = Len(out) + (n + 1)
    BY <1>1, <2>3, <2>4, <2>5, AgreeRun, ZenonT(30)
  <2> QED
    BY <1>1, <1>2, <2>1, <2>3, <2>4, <2>6, SMTT(20) DEF Beyond
<1>8. CASE in_run /\ count # 0
  <2>1. /\ index - 1 - count >= 1
        /\ \A k \in index - 1 - count .. index : in[k] = prevChar
    BY <1>1, <1>3, <1>8 DEF Frontier
  <2>2. /\ Len(in) >= 3 /\ in[Len(in)] = prevChar /\ in[Len(in) - 1] = prevChar
        /\ in[Len(in) - 2] = prevChar
    BY <1>1, <1>8, <2>1
  <2>3. \A k \in 1 .. Len(in) : image[k] = in[k]
    BY <1>1, <1>2 DEF image
  <2> QED
    BY <1>1, <1>2, <2>2, <2>3 DEF OpenEnd, EndsInRun
<1> QED
  BY <1>6, <1>7, <1>8

(* The decoder's whole way.                                                *)
ReadInv ==
  /\ decoding => index = Len(in)
  /\ ~decoding => ptr = 0 /\ out = <<>> /\ last = RLE_NULL
  /\ \E P \in SUBSET DecoderStates : \E f \in P :
        /\ Path(P, f, code, in, index) /\ Frontier(f)
        /\ Here(P) \/ Beyond \/ OpenEnd

LEMMA EncodeRead ==
  RleCodeOK /\ RunGoesOn /\ ReadInv /\ (EncodeByte \/ EncodeRepeat \/ EncodeChange) => ReadInv'
<1> SUFFICES ASSUME RleCodeOK, RunGoesOn, ReadInv, EncodeByte \/ EncodeRepeat \/ EncodeChange
             PROVE  ReadInv'
  OBVIOUS
<1>1. /\ index < Len(in) /\ decoding' = decoding
      /\ ptr' = ptr /\ last' = last /\ out' = out
  BY DEF EncodeByte, EncodeRepeat, EncodeChange, decode_vars
<1>2. ~decoding /\ ptr = 0 /\ out = <<>> /\ last = RLE_NULL
  BY <1>1 DEF ReadInv, RleCodeOK
<1>3. Decodable
  BY Zenon DEF ReadInv, Decodable
<1>4. Decodable'
  BY <1>3, EncodeByteDecodable, EncodeRepeatDecodable, EncodeChangeDecodable
<1>5. PICK P \in SUBSET DecoderStates :
        \E f \in P : Path(P, f, code', in', index') /\ Frontier(f)'
  BY <1>4 DEF Decodable
<1>6. PICK f \in P : Path(P, f, code', in', index') /\ Frontier(f)'
  BY <1>5
<1>7. Here(P)'
  <2>1. <<0, 0, RLE_NULL>> \in P
    BY <1>6 DEF Path
  <2>2. Len(out') = 0 /\ Agree(out', in')
    BY <1>1, <1>2 DEF Agree
  <2> QED
    BY <1>1, <1>2, <2>1, <2>2, Zenon DEF Here
<1> QED
  BY <1>1, <1>2, <1>6, <1>7, Zenon DEF ReadInv

LEMMA DecodeRead == RleCodeOK /\ RleOutOK /\ ReadInv /\ DecodeByte => ReadInv'
<1> SUFFICES ASSUME RleCodeOK, RleOutOK, ReadInv, DecodeByte PROVE ReadInv'
  OBVIOUS
<1>1. /\ encoder' = encoder /\ in' = in /\ index' = index /\ prevChar' = prevChar
      /\ count' = count /\ in_run' = in_run /\ code' = code /\ decoding' = decoding
      /\ decoding /\ Len(out) < len + 1
  BY DEF DecodeByte, encode_vars
<1>2. index = Len(in)
  BY <1>1 DEF ReadInv
<1>3. PICK P \in SUBSET DecoderStates :
        \E f \in P : /\ Path(P, f, code, in, index) /\ Frontier(f)
                     /\ Here(P) \/ Beyond \/ OpenEnd
  BY DEF ReadInv
<1>4. PICK f \in P : /\ Path(P, f, code, in, index) /\ Frontier(f)
                     /\ Here(P) \/ Beyond \/ OpenEnd
  BY <1>3
<1>5. Path(P, f, code', in', index') /\ Frontier(f)'
  BY <1>1, <1>4, Zenon DEF Frontier, Ended
<1>6. Here(P)' \/ Beyond' \/ OpenEnd'
  <2>1. CASE Here(P) /\ f # <<ptr, Len(out), last>>
    <3>1. Here(P)'
      BY <1>1, <1>4, <2>1, DecodeOnPath DEF Here
    <3> QED
      BY <3>1
  <2>2. CASE Here(P) /\ f = <<ptr, Len(out), last>>
    <3>1. Beyond' \/ OpenEnd
      BY <1>2, <1>4, <2>2, DecodeAtFrontier
    <3> QED
      BY <1>1, <3>1 DEF OpenEnd, EndsInRun, image, len
  <2>3. CASE Beyond
    <3>1. /\ len = Len(in) /\ Len(out) = Len(in)
          /\ ptr = Len(code) + 1 /\ last = RLE_NULL
          /\ in \in Seq(Chars) /\ out \in Seq(Chars) /\ code \in Seq(Chars)
          /\ Agree(out, in) /\ encoder = "tool"
      BY <1>1, <2>3 DEF Beyond, len, RleCodeOK, RleOutOK
    <3>2. ByteAt(ptr + 1) \subseteq Chars /\ RLE_NULL \notin Chars
      BY <3>1, RleAssumption DEF ByteAt, Chars, RLE_NULL
    <3>3. PICK ch \in Chars : out' = Append(out, ch) /\ ptr' = ptr + 1
      BY <3>1, <3>2 DEF DecodeByte
    <3>4. Agree(out', in) /\ Len(out') = Len(out) + 1
      <4>1. ~(Len(out) + 1 <= Len(in))
        BY <3>1
      <4> QED
        BY <3>1, <3>3, <4>1, AgreeAppend, Zenon
    <3>5. Beyond'
      BY <1>1, <3>1, <3>3, <3>4 DEF Beyond
    <3> QED
      BY <3>5
  <2>4. CASE OpenEnd
    BY <1>1, <2>4 DEF OpenEnd, EndsInRun, image, len
  <2> QED
    BY <1>4, <2>1, <2>2, <2>3, <2>4
<1> QED
  BY <1>1, <1>2, <1>5, <1>6, Zenon DEF ReadInv

LEMMA ReadStep ==
  RleCodeOK /\ RunGoesOn /\ RleOutOK /\ ReadInv /\ [RleNext]_rle_vars => ReadInv'
<1> SUFFICES ASSUME RleCodeOK, RunGoesOn, RleOutOK, ReadInv, [RleNext]_rle_vars
             PROVE  ReadInv'
  OBVIOUS
<1>1. CASE StartDecoding \/ UNCHANGED rle_vars
  <2>1. /\ encoder' = encoder /\ in' = in /\ index' = index /\ prevChar' = prevChar
        /\ count' = count /\ in_run' = in_run /\ code' = code
        /\ ptr' = ptr /\ last' = last /\ out' = out
        /\ decoding' = decoding \/ (index = Len(in) /\ decoding' = TRUE)
    BY <1>1 DEF StartDecoding, rle_vars, encode_vars, decode_vars
  <2>2. PICK P \in SUBSET DecoderStates :
          \E f \in P : /\ Path(P, f, code, in, index) /\ Frontier(f)
                       /\ Here(P) \/ Beyond \/ OpenEnd
    BY DEF ReadInv
  <2>3. PICK f \in P : /\ Path(P, f, code, in, index) /\ Frontier(f)
                       /\ Here(P) \/ Beyond \/ OpenEnd
    BY <2>2
  <2>4. Path(P, f, code', in', index') /\ Frontier(f)'
    BY <2>1, <2>3, Zenon DEF Frontier, Ended
  <2>5. Here(P)' \/ Beyond' \/ OpenEnd'
    BY <2>1, <2>3, Zenon DEF Here, Beyond, OpenEnd, EndsInRun, image, len
  <2>6. /\ decoding' => index' = Len(in')
        /\ ~decoding' => ptr' = 0 /\ out' = <<>> /\ last' = RLE_NULL
    BY <2>1 DEF ReadInv
  <2> QED
    BY <2>4, <2>5, <2>6, Zenon DEF ReadInv
<1> QED
  BY <1>1, EncodeRead, DecodeRead DEF RleNext

(* What either encoder wrote is read back, for every longest count and     *)
(* every image; and the decoder reads nothing beyond rle_encode's code,    *)
(* and two bytes at most beyond the tool's.                                *)
THEOREM ReadsBack == RleSpec => []ReadBack
<1>1. RleInit => ReadInv
  <2> SUFFICES ASSUME RleInit PROVE ReadInv
    OBVIOUS
  <2> DEFINE f == <<0, 0, RLE_NULL>>
  <2>1. {f} \in SUBSET DecoderStates
    BY DEF DecoderStates
  <2>2. RleCodeOK
    BY RleStart, RleParts DEF RleInv
  <2>3. Path({f}, f, code, in, index)
    BY <2>1 DEF Path
  <2>4. Frontier(f)
    BY <2>2 DEF RleInit, Frontier, Ended
  <2>5. Here({f})
    BY DEF RleInit, Here, Agree
  <2> QED
    BY <2>1, <2>3, <2>4, <2>5 DEF RleInit, ReadInv
<1>2. RleInv /\ ReadInv => ReadBack
  <2> SUFFICES ASSUME RleCodeOK, RleOutOK, ReadInv PROVE ReadBack
    BY RleParts DEF RleInv
  <2>1. PICK P \in SUBSET DecoderStates :
          \E f \in P : /\ Path(P, f, code, in, index) /\ Frontier(f)
                       /\ Here(P) \/ Beyond \/ OpenEnd
    BY DEF ReadInv
  <2>2. PICK f \in P : /\ Path(P, f, code, in, index) /\ Frontier(f)
                       /\ Here(P) \/ Beyond \/ OpenEnd
    BY <2>1
  <2>3. code \in Seq(Chars) /\ in \in Seq(Chars) /\ out \in Seq(Chars) /\ ptr \in Nat
    BY DEF RleCodeOK, RleOutOK
  <2>4. Here(P) => Agree(out, in) /\ ptr <= Len(code)
    <3>1. CASE f = <<ptr, Len(out), last>> /\ Here(P)
      BY <2>2, <2>3, <3>1 DEF Here, Frontier, RleCodeOK
    <3>2. CASE f # <<ptr, Len(out), last>> /\ Here(P)
      <4>1. PICK d \in P : Right(<<ptr, Len(out), last>>, d, code, in, index)
        BY <2>2, <3>2 DEF Path, Here
      <4> QED
        BY <2>3, <3>2, <4>1 DEF Right, OneByte, Run, Here
    <3> QED
      BY <3>1, <3>2
  <2>5. CASE encoder = "rle_encode"
    BY <2>2, <2>4, <2>5 DEF ReadBack, Beyond, OpenEnd
  <2>6. CASE encoder # "rle_encode"
    <3>1. len = Len(in)
      BY <2>6 DEF len
    <3>2. Len(image) = Len(in) /\ \A k \in 1 .. Len(in) : image[k] = in[k]
      BY <2>3, <3>1 DEF image
    <3>3. Agree(out, in) => Agree(out, image)
      BY <2>3, <3>2 DEF Agree
    <3>4. Here(P) \/ Beyond => Agree(out, in) /\ ptr <= Len(code) + 2
      BY <2>3, <2>4 DEF Beyond
    <3> QED
      BY <2>2, <2>6, <3>3, <3>4 DEF ReadBack, OpenEnd
  <2> QED
    BY <2>5, <2>6
<1>3. RleInv /\ ReadInv /\ [RleNext]_rle_vars => ReadInv'
  BY RleParts, ReadStep DEF RleInv
<1> QED
  BY <1>1, <1>2, <1>3, RleStart, RleStep, PTL DEF RleSpec

-----------------------------------------------------------------------------
(***************************************************************************)
(* Ethernet transmission, for every length of the ring and every set of    *)
(* names: until an interrupt comes at a bad moment, frames go out whole, once *)
(* and in turn, and none is refused while a descriptor is free.            *)
(***************************************************************************)

N == ETH_TX_DESC_CNT

(* Where the main loop is in low_level_output tells how far it has got.    *)
Phase ==
  calm =>
    /\ pc \in {"index", "advance"} =>
         /\ CurTxDesc = descidx
         /\ INCR_TX_DESC_INDEX(descidx, 1) = INCR_TX_DESC_INDEX(dma, Len(accepted))
    /\ pc \notin {"index", "advance"} =>
         CurTxDesc = INCR_TX_DESC_INDEX(dma, Len(accepted))
    /\ pc \in {"TxBuffer", "prepare", "DESC0", "DESC3"} => TxConfig.Length = frame
    /\ pc \in {"prepare", "DESC0", "DESC3"} => TxConfig.TxBuffer = frame
    /\ pc \in {"DESC0", "DESC3"} =>
         /\ descidx = CurTxDesc /\ txbuffer = frame
         /\ Len(accepted) < ETH_TX_DESC_CNT
    /\ pc = "DESC3" => desc[descidx].buf = frame

EthInv == EthTypeOK /\ InTurn /\ Phase

-----------------------------------------------------------------------------

(* The places of the ring.                                                 *)
LEMMA IncrIndex ==
  ASSUME NEW p \in Index, NEW k \in 0 .. N
  PROVE  INCR_TX_DESC_INDEX(p, k) \in Index
BY EthTxAssumption DEF INCR_TX_DESC_INDEX, Index, N

LEMMA PlaceIndex ==
  ASSUME dma \in Index, NEW k \in 1 .. N
  PROVE  Place(k) \in Index
BY EthTxAssumption DEF INCR_TX_DESC_INDEX, Index, N, Place

LEMMA PlaceInjective ==
  ASSUME dma \in Index, NEW j \in 1 .. N, NEW k \in 1 .. N, Place(j) = Place(k)
  PROVE  j = k
BY EthTxAssumption DEF INCR_TX_DESC_INDEX, Index, N, Place

LEMMA PlaceNext ==
  ASSUME NEW p \in Index, NEW k \in 1 .. N
  PROVE  INCR_TX_DESC_INDEX(INCR_TX_DESC_INDEX(p, 1), k - 1) = INCR_TX_DESC_INDEX(p, k)
BY EthTxAssumption DEF INCR_TX_DESC_INDEX, Index, N

LEMMA IncrNext ==
  ASSUME NEW p \in Index, NEW k \in 0 .. N - 1
  PROVE  INCR_TX_DESC_INDEX(INCR_TX_DESC_INDEX(p, k), 1) = INCR_TX_DESC_INDEX(p, k + 1)
BY EthTxAssumption DEF INCR_TX_DESC_INDEX, Index, N

(* CurTxDesc is taken just when the ring is full.                          *)
LEMMA Full ==
  ASSUME EthInv, calm, pc \notin {"index", "advance"}
  PROVE  /\ Len(accepted) \in 0 .. N
         /\ desc[CurTxDesc].own <=> Len(accepted) = N
         /\ Len(accepted) < N => CurTxDesc = Place(Len(accepted) + 1)
<1>1. Len(accepted) \in 0 .. N
  BY EthTxAssumption DEF EthInv, EthTypeOK, InTurn, N
<1>2. CurTxDesc = INCR_TX_DESC_INDEX(dma, Len(accepted))
  BY DEF EthInv, Phase
<1>3. CASE Len(accepted) = N
  <2>1. Place(1) = dma /\ CurTxDesc = dma
    BY <1>2, <1>3, EthTxAssumption
       DEF EthInv, EthTypeOK, Index, INCR_TX_DESC_INDEX, Place, N
  <2>2. desc[Place(1)].own
    BY <1>3, EthTxAssumption DEF EthInv, InTurn, N
  <2> QED
    BY <1>1, <1>3, <2>1, <2>2
<1>4. CASE Len(accepted) < N
  <2>1. CurTxDesc = Place(Len(accepted) + 1)
    BY <1>1, <1>2 DEF Place
  <2>2. Len(accepted) + 1 \in 1 .. N /\ ~(Len(accepted) + 1 <= Len(accepted))
    BY <1>1, <1>4, EthTxAssumption DEF N
  <2>3. ~desc[Place(Len(accepted) + 1)].own
    BY <2>2 DEF EthInv, InTurn, N
  <2> QED
    BY <1>1, <1>4, <2>1, <2>3
<1> QED
  BY <1>1, <1>3, <1>4, EthTxAssumption DEF N

(* Putting a frame into the first free descriptor keeps the ring in turn.  *)
LEMMA Accept ==
  ASSUME EthInv, calm, NEW f \in FRAMES, NEW p \in Index,
         Len(accepted) < N, p = INCR_TX_DESC_INDEX(dma, Len(accepted)),
         dma' = dma, accepted' = Append(accepted, f),
         desc' = [desc EXCEPT ![p] = [own |-> TRUE, buf |-> f, len |-> f]]
  PROVE  InTurn'
<1> DEFINE n == Len(accepted)
<1>0. n \in Nat /\ n + 1 \in 1 .. N /\ accepted \in Seq(FRAMES)
  BY EthTxAssumption DEF EthInv, EthTypeOK, N
<1>1. Len(accepted') = n + 1
  BY <1>0
<1>2. \A k \in 1 .. N : Place(k)' = Place(k) /\ Place(k) \in Index
  BY PlaceIndex DEF EthInv, EthTypeOK, Place
<1>3. p = Place(n + 1)
  BY <1>0 DEF Place
<1>4. \A k \in 1 .. N : k # n + 1 => Place(k) # p
  BY <1>0, <1>3, PlaceInjective DEF EthInv, EthTypeOK
<1>5. \A k \in 1 .. N : k # n + 1 => desc'[Place(k)] = desc[Place(k)]
  BY <1>2, <1>4 DEF EthInv, EthTypeOK
<1>6. desc'[p] = [own |-> TRUE, buf |-> f, len |-> f]
  BY DEF EthInv, EthTypeOK
<1>7. ASSUME NEW k \in 1 .. N
      PROVE  desc'[Place(k)'].own <=> k <= Len(accepted')
  <2>1. CASE k = n + 1
    BY <2>1, <1>0, <1>1, <1>2, <1>3, <1>6
  <2>2. CASE k # n + 1
    <3>1. desc[Place(k)].own <=> k <= n
      BY DEF EthInv, InTurn, N
    <3>2. k <= n <=> k <= n + 1
      BY <2>2, <1>0
    <3> QED
      BY <2>2, <3>1, <3>2, <1>1, <1>2, <1>5
  <2> QED
    BY <2>1, <2>2
<1>8. ASSUME NEW k \in 1 .. Len(accepted')
      PROVE  desc'[Place(k)'].buf = accepted'[k] /\ desc'[Place(k)'].len = accepted'[k]
  <2>0. k \in 1 .. N
    BY <1>0, <1>1, EthTxAssumption DEF N
  <2>1. CASE k = n + 1
    <3>1. accepted'[k] = f
      BY <2>1, <1>0
    <3> QED
      BY <2>0, <2>1, <3>1, <1>2, <1>3, <1>6
  <2>2. CASE k # n + 1
    <3>1. k \in 1 .. n
      BY <2>2, <1>0, <1>1
    <3>2. accepted'[k] = accepted[k]
      BY <3>1, <1>0
    <3>3. desc[Place(k)].buf = accepted[k] /\ desc[Place(k)].len = accepted[k]
      BY <3>1 DEF EthInv, InTurn
    <3> QED
      BY <2>0, <2>2, <3>2, <3>3, <1>2, <1>5
  <2> QED
    BY <2>1, <2>2
<1> QED
  BY <1>0, <1>1, <1>7, <1>8, EthTxAssumption DEF InTurn, N

-----------------------------------------------------------------------------

LEMMA EthStart == EthInit => EthInv
<1> SUFFICES ASSUME EthInit PROVE EthInv
  OBVIOUS
<1>0. 0 \in Index /\ INCR_TX_DESC_INDEX(0, 0) = 0
  BY EthTxAssumption DEF Index, INCR_TX_DESC_INDEX
<1>1. accepted = <<>> /\ Len(accepted) = 0 /\ accepted \in Seq(FRAMES)
  BY DEF EthInit
<1>2. desc \in [Index -> [own : BOOLEAN, buf : Names, len : Names]]
  BY DEF EthInit, Unused, Names
<1>3. calm \in BOOLEAN
  BY DEF EthInit
<1>4. EthTypeOK
  BY <1>0, <1>1, <1>2, <1>3 DEF EthInit, EthTypeOK, Names
<1>5. InTurn
  <2>1. dma \in Index
    BY <1>4 DEF EthTypeOK
  <2>2. \A k \in 1 .. N : ~desc[Place(k)].own
    BY <2>1, PlaceIndex DEF EthInit, Unused
  <2> QED
    BY <1>1, <2>2, EthTxAssumption DEF InTurn, N
<1>6. Phase
  BY <1>0, <1>1 DEF EthInit, Phase
<1> QED
  BY <1>4, <1>5, <1>6 DEF EthInv

(* A new frame has a name.                                                 *)
LEMMA NewFrameName == Nameable => NewFrame \in FRAMES
BY EthTxAssumption DEF Nameable, NewFrame

(* Nothing the ring shows changes: it stays in turn.                       *)
LEMMA Untouched ==
  ASSUME EthInv, desc' = desc, dma' = dma, accepted' = accepted,
         calm' = calm
  PROVE  InTurn'
<1>1. \A k : Place(k)' = Place(k)
  BY DEF Place
<1> QED
  BY <1>1 DEF EthInv, InTurn

LEMMA BeginStep == EthInv /\ Begin => EthInv'
<1> SUFFICES ASSUME EthInv, Begin PROVE EthInv'
  OBVIOUS
<1> USE DEF Begin, Goto, ring, engine
<1>1. EthTypeOK'
  BY NewFrameName DEF EthInv, EthTypeOK, Names
<1>2. InTurn'
  BY Untouched
<1>3. Phase'
  BY DEF EthInv, Phase
<1> QED
  BY <1>1, <1>2, <1>3 DEF EthInv

LEMMA SetLengthStep == EthInv /\ SetLength => EthInv'
<1> SUFFICES ASSUME EthInv, SetLength PROVE EthInv'
  OBVIOUS
<1> USE DEF SetLength, Goto, ring, engine, locals
<1>1. EthTypeOK'
  BY DEF EthInv, EthTypeOK
<1>2. InTurn'
  BY Untouched
<1>3. Phase'
  BY DEF EthInv, Phase, EthTypeOK
<1> QED
  BY <1>1, <1>2, <1>3 DEF EthInv

LEMMA SetTxBufferStep == EthInv /\ SetTxBuffer => EthInv'
<1> SUFFICES ASSUME EthInv, SetTxBuffer PROVE EthInv'
  OBVIOUS
<1> USE DEF SetTxBuffer, Goto, ring, engine, locals
<1>1. EthTypeOK'
  BY DEF EthInv, EthTypeOK
<1>2. InTurn'
  BY Untouched
<1>3. Phase'
  BY DEF EthInv, Phase, EthTypeOK
<1> QED
  BY <1>1, <1>2, <1>3 DEF EthInv

LEMMA BusyStep == EthInv /\ Busy => EthInv'
<1> SUFFICES ASSUME EthInv, Busy PROVE EthInv'
  OBVIOUS
<1> USE DEF Busy, Goto, ring, engine, locals
<1>1. EthTypeOK'
  BY DEF EthInv, EthTypeOK
<1>2. InTurn'
  BY Untouched
<1>3. Phase'
  BY DEF EthInv, Phase
<1> QED
  BY <1>1, <1>2, <1>3 DEF EthInv

LEMMA PrepareStep == EthInv /\ Prepare => EthInv'
<1> SUFFICES ASSUME EthInv, Prepare PROVE EthInv'
  OBVIOUS
<1> USE DEF Prepare, Goto, ring, engine
<1>1. EthTypeOK'
  BY DEF EthInv, EthTypeOK
<1>2. InTurn'
  BY Untouched
<1>3. calm => Len(accepted) < N
  <2> SUFFICES ASSUME calm PROVE Len(accepted) < N
    OBVIOUS
  <2>1. Len(accepted) \in 0 .. N /\ Len(accepted) # N
    BY Full
  <2> QED
    BY <2>1, EthTxAssumption DEF N
<1>4. Phase'
  BY <1>3 DEF EthInv, Phase, N
<1> QED
  BY <1>1, <1>2, <1>4 DEF EthInv

LEMMA WriteAddressStep == EthInv /\ WriteAddress => EthInv'
<1> SUFFICES ASSUME EthInv, WriteAddress PROVE EthInv'
  OBVIOUS
<1> USE DEF WriteAddress, Goto, engine, locals
<1>1. EthTypeOK'
  BY DEF EthInv, EthTypeOK
<1>2. \A p \in Index : desc'[p].own = desc[p].own /\ desc'[p].len = desc[p].len
  BY DEF EthInv, EthTypeOK
<1>3. desc'[descidx].buf = txbuffer /\ \A p \in Index : p # descidx => desc'[p] = desc[p]
  BY DEF EthInv, EthTypeOK
<1>4. InTurn'
  <2> SUFFICES ASSUME calm PROVE InTurn'
    BY DEF InTurn
  <2>1. \A k \in 1 .. N : Place(k)' = Place(k) /\ Place(k) \in Index
    BY PlaceIndex DEF EthInv, EthTypeOK, Place
  <2>2. descidx = CurTxDesc /\ Len(accepted) < N
    BY DEF EthInv, Phase, N
  <2>3. ~desc[descidx].own
    <3>1. Len(accepted) # N
      BY <2>2, EthTxAssumption DEF N, EthInv, EthTypeOK
    <3> QED
      BY <3>1, <2>2, Full
  <2>4. ASSUME NEW k \in 1 .. N PROVE desc'[Place(k)'].own <=> k <= Len(accepted')
    BY <1>2, <2>1 DEF EthInv, InTurn, N
  <2>5. ASSUME NEW k \in 1 .. Len(accepted')
        PROVE  desc'[Place(k)'].buf = accepted'[k] /\ desc'[Place(k)'].len = accepted'[k]
    <3>1. k \in 1 .. N /\ k <= Len(accepted)
      BY <2>2, EthTxAssumption DEF N, EthInv, EthTypeOK
    <3>2. desc[Place(k)].own
      BY <3>1 DEF EthInv, InTurn, N
    <3>3. Place(k) # descidx
      BY <3>2, <2>3
    <3> QED
      BY <3>1, <3>3, <1>3, <2>1 DEF EthInv, InTurn
  <2> QED
    BY <2>4, <2>5 DEF EthInv, InTurn, N
<1>5. Phase'
  BY <1>3 DEF EthInv, Phase
<1> QED
  BY <1>1, <1>4, <1>5 DEF EthInv

LEMMA WriteOwnStep == EthInv /\ WriteOwn => EthInv'
<1> SUFFICES ASSUME EthInv, WriteOwn PROVE EthInv'
  OBVIOUS
<1> USE DEF WriteOwn, Goto, engine, locals
<1>1. EthTypeOK'
  <2>1. accepted' \in Seq(FRAMES)
    BY DEF EthInv, EthTypeOK
  <2> QED
    BY <2>1 DEF EthInv, EthTypeOK
<1>2. calm => InTurn' /\ Len(accepted') = Len(accepted) + 1
  <2> SUFFICES ASSUME calm PROVE InTurn' /\ Len(accepted') = Len(accepted) + 1
    OBVIOUS
  <2>1. /\ descidx = INCR_TX_DESC_INDEX(dma, Len(accepted)) /\ Len(accepted) < N
        /\ TxConfig.Length = frame /\ desc[descidx].buf = frame
    BY DEF EthInv, Phase, N
  <2>2. desc' = [desc EXCEPT ![descidx] = [own |-> TRUE, buf |-> frame, len |-> frame]]
    <3> DEFINE r == [own |-> TRUE, buf |-> frame, len |-> frame]
               e == [desc EXCEPT ![descidx] = r]
    <3>1. DOMAIN desc = Index /\ descidx \in Index
          /\ desc[descidx] \in [own : BOOLEAN, buf : Names, len : Names]
      BY DEF EthInv, EthTypeOK
    <3>2. desc'[descidx] = [[desc[descidx] EXCEPT !.len = TxConfig.Length] EXCEPT !.own = TRUE]
      BY <3>1
    <3>3. desc'[descidx] = r
      BY <3>1, <3>2, <2>1
    <3>4. \A p \in Index : p # descidx => desc'[p] = desc[p]
      BY <3>1
    <3>5. \A p \in Index : e[p] = IF p = descidx THEN r ELSE desc[p]
      BY <3>1
    <3>6. \A p \in Index : desc'[p] = e[p]
      BY <3>3, <3>4, <3>5, ZenonT(30)
    <3>7. DOMAIN desc' = Index /\ desc' = [p \in DOMAIN desc' |-> desc'[p]]
      BY <3>1
    <3>8. DOMAIN e = Index /\ e = [p \in DOMAIN e |-> e[p]]
      BY <3>1
    <3> QED
      BY <3>6, <3>7, <3>8, ZenonT(30)
  <2>3. frame \in FRAMES /\ descidx \in Index
    BY DEF EthInv, EthTypeOK
  <2>4. InTurn'
    BY <2>1, <2>2, <2>3, Accept
  <2> QED
    BY <2>4 DEF EthInv, EthTypeOK
<1>3. InTurn'
  BY <1>2 DEF InTurn
<1>4. Phase'
  <2> SUFFICES ASSUME calm PROVE Phase'
    BY DEF Phase
  <2>1. CurTxDesc = descidx /\ descidx = INCR_TX_DESC_INDEX(dma, Len(accepted))
    BY DEF EthInv, Phase
  <2>2. dma \in Index /\ Len(accepted) \in 0 .. N - 1
    BY EthTxAssumption DEF EthInv, EthTypeOK, Phase, N
  <2>3. INCR_TX_DESC_INDEX(descidx, 1) = INCR_TX_DESC_INDEX(dma, Len(accepted) + 1)
    BY <2>1, <2>2, IncrNext
  <2> QED
    BY <1>2, <2>1, <2>3 DEF Phase, INCR_TX_DESC_INDEX
<1> QED
  BY <1>1, <1>3, <1>4 DEF EthInv

LEMMA StoreIndexStep == EthInv /\ StoreIndex => EthInv'
<1> SUFFICES ASSUME EthInv, StoreIndex PROVE EthInv'
  OBVIOUS
<1> USE DEF StoreIndex, Goto, engine, locals
<1>1. EthTypeOK'
  BY DEF EthInv, EthTypeOK
<1>2. InTurn'
  BY Untouched
<1>3. Phase'
  BY DEF EthInv, Phase, INCR_TX_DESC_INDEX
<1> QED
  BY <1>1, <1>2, <1>3 DEF EthInv

LEMMA AdvanceStep == EthInv /\ Advance => EthInv'
<1> SUFFICES ASSUME EthInv, Advance PROVE EthInv'
  OBVIOUS
<1> USE DEF Advance, Goto, engine, locals
<1>1. EthTypeOK'
  <2>1. CurTxDesc' \in Index
    BY IncrIndex, EthTxAssumption DEF EthInv, EthTypeOK, N
  <2> QED
    BY <2>1 DEF EthInv, EthTypeOK
<1>2. InTurn'
  BY Untouched
<1>3. Phase'
  BY DEF EthInv, Phase, INCR_TX_DESC_INDEX
<1> QED
  BY <1>1, <1>2, <1>3 DEF EthInv

LEMMA LoadTailStep == EthInv /\ LoadTail => EthInv'
<1> SUFFICES ASSUME EthInv, LoadTail PROVE EthInv'
  OBVIOUS
<1> USE DEF LoadTail, Goto, ring, engine
<1>1. EthTypeOK'
  BY DEF EthInv, EthTypeOK
<1>2. InTurn'
  BY Untouched
<1>3. Phase'
  BY DEF EthInv, Phase, INCR_TX_DESC_INDEX
<1> QED
  BY <1>1, <1>2, <1>3 DEF EthInv

LEMMA EthPollStep == EthInv /\ Poll => EthInv'
<1> SUFFICES ASSUME EthInv, Poll PROVE EthInv'
  OBVIOUS
<1> USE DEF Poll, Goto, ring, locals
<1>1. EthTypeOK'
  BY DEF EthInv, EthTypeOK
<1>2. InTurn'
  BY Untouched
<1>3. Phase'
  BY DEF EthInv, Phase, INCR_TX_DESC_INDEX
<1> QED
  BY <1>1, <1>2, <1>3 DEF EthInv

LEMMA ReturnStep == EthInv /\ Return => EthInv'
<1> SUFFICES ASSUME EthInv, Return PROVE EthInv'
  OBVIOUS
<1> USE DEF Return, Goto, ring, engine
<1>1. EthTypeOK'
  BY DEF EthInv, EthTypeOK, Names
<1>2. InTurn'
  BY Untouched
<1>3. Phase'
  BY DEF EthInv, Phase, INCR_TX_DESC_INDEX
<1> QED
  BY <1>1, <1>2, <1>3 DEF EthInv

LEMMA InterruptStep == EthInv /\ EXTI1_IRQHandler => EthInv'
<1> SUFFICES ASSUME EthInv, EXTI1_IRQHandler PROVE EthInv'
  OBVIOUS
<1> DEFINE f == NewFrame
<1>0. f \in FRAMES
  BY NewFrameName DEF EXTI1_IRQHandler
<1>1. calm' \in BOOLEAN
  BY DEF EXTI1_IRQHandler, EthInv, EthTypeOK
<1>2. TxConfig' \in [Length : Names, TxBuffer : Names]
  BY <1>0 DEF EXTI1_IRQHandler, Names
<1>3. calm' => calm /\ pc \notin BadMoments
  BY DEF EXTI1_IRQHandler, EthInv, EthTypeOK
<1>4. CASE desc[CurTxDesc].own
  <2>1. UNCHANGED <<desc, CurTxDesc, tail, running, accepted, pc, frame, descidx, txbuffer, dma>>
    BY <1>4 DEF EXTI1_IRQHandler, ring, locals
  <2>2. EthTypeOK'
    BY <1>1, <1>2, <2>1 DEF EthInv, EthTypeOK
  <2>3. \A k : Place(k)' = Place(k)
    BY <2>1 DEF Place
  <2>4. InTurn'
    BY <1>3, <2>1, <2>3 DEF EthInv, InTurn
  <2>5. Phase'
    BY <1>3, <2>1 DEF EthInv, Phase, BadMoments, INCR_TX_DESC_INDEX
  <2> QED
    BY <2>2, <2>4, <2>5 DEF EthInv
<1>5. CASE ~desc[CurTxDesc].own
  <2>1. /\ desc' = [desc EXCEPT ![CurTxDesc] = [own |-> TRUE, buf |-> f, len |-> f]]
        /\ CurTxDesc' = INCR_TX_DESC_INDEX(CurTxDesc, 1)
        /\ tail' = CurTxDesc' /\ running' = TRUE
        /\ accepted' = IF calm' THEN Append(accepted, f) ELSE <<>>
        /\ UNCHANGED <<pc, frame, descidx, txbuffer, dma>>
    BY <1>5 DEF EXTI1_IRQHandler, locals
  <2>2. desc' \in [Index -> [own : BOOLEAN, buf : Names, len : Names]]
    BY <1>0, <2>1 DEF EthInv, EthTypeOK, Names
  <2>3. CurTxDesc' \in Index
    BY <2>1, IncrIndex, EthTxAssumption DEF EthInv, EthTypeOK, N
  <2>4. accepted' \in Seq(FRAMES)
    BY <1>0, <2>1 DEF EthInv, EthTypeOK
  <2>5. EthTypeOK'
    BY <1>1, <1>2, <2>1, <2>2, <2>3, <2>4 DEF EthInv, EthTypeOK
  <2>6. ASSUME calm'
        PROVE  InTurn' /\ CurTxDesc' = INCR_TX_DESC_INDEX(dma, Len(accepted'))
    <3>1. calm /\ pc \notin {"index", "advance"}
      BY <1>3, <2>6 DEF BadMoments
    <3>2. CurTxDesc = INCR_TX_DESC_INDEX(dma, Len(accepted))
      BY <3>1 DEF EthInv, Phase
    <3>3. Len(accepted) \in 0 .. N /\ Len(accepted) # N
      BY <1>5, <3>1, Full
    <3>4. Len(accepted) < N /\ Len(accepted) \in 0 .. N - 1
      BY <3>3, EthTxAssumption DEF N
    <3>5. accepted' = Append(accepted, f)
      BY <2>1, <2>6
    <3>6. Len(accepted') = Len(accepted) + 1
      BY <3>5 DEF EthInv, EthTypeOK
    <3>7. InTurn'
      BY <1>0, <2>1, <3>1, <3>2, <3>4, <3>5, Accept DEF EthInv, EthTypeOK
    <3>8. CurTxDesc' = INCR_TX_DESC_INDEX(dma, Len(accepted) + 1)
      BY <2>1, <3>2, <3>4, IncrNext DEF EthInv, EthTypeOK
    <3> QED
      BY <3>6, <3>7, <3>8
  <2>7. InTurn'
    BY <2>6 DEF InTurn
  <2>8. Phase'
    BY <1>3, <2>1, <2>6 DEF Phase, BadMoments, INCR_TX_DESC_INDEX
  <2> QED
    BY <2>5, <2>7, <2>8 DEF EthInv
<1> QED
  BY <1>4, <1>5

(* In calm, what the DMA owns first is the oldest frame accepted.          *)
LEMMA Oldest ==
  ASSUME EthInv, calm, desc[dma].own
  PROVE  Place(1) = dma /\ Len(accepted) \in 1 .. N
<1>1. Place(1) = dma
  BY EthTxAssumption DEF EthInv, EthTypeOK, Index, INCR_TX_DESC_INDEX, Place, N
<1>2. 1 \in 1 .. N
  BY EthTxAssumption DEF N
<1>3. 1 <= Len(accepted)
  BY <1>1, <1>2 DEF EthInv, InTurn, N
<1>4. Len(accepted) \in Nat /\ Len(accepted) <= N
  BY DEF EthInv, EthTypeOK, InTurn, N
<1> QED
  BY <1>1, <1>3, <1>4, EthTxAssumption DEF N

LEMMA DmaSendStep == EthInv /\ DmaSend => EthInv'
<1> SUFFICES ASSUME EthInv, DmaSend PROVE EthInv'
  OBVIOUS
<1> USE DEF DmaSend, locals
<1>0. dma \in Index /\ dma' \in Index /\ dma' = INCR_TX_DESC_INDEX(dma, 1)
  BY IncrIndex, EthTxAssumption DEF EthInv, EthTypeOK, N
<1>1. EthTypeOK'
  <2>1. desc' \in [Index -> [own : BOOLEAN, buf : Names, len : Names]]
    BY DEF EthInv, EthTypeOK, Unused, Names
  <2>2. accepted' \in Seq(FRAMES)
    <3>1. CASE calm
      <4>1. Len(accepted) \in 1 .. N
        BY <3>1, Oldest
      <4>2. accepted \in Seq(FRAMES) /\ accepted # <<>>
        BY <4>1 DEF EthInv, EthTypeOK
      <4> QED
        BY <3>1, <4>2
    <3>2. CASE ~calm
      BY <3>2
    <3> QED
      BY <3>1, <3>2
  <2>3. running' \in BOOLEAN
    OBVIOUS
  <2> QED
    BY <1>0, <2>1, <2>2, <2>3 DEF EthInv, EthTypeOK
<1>2. ASSUME calm
      PROVE  InTurn' /\ Phase'
  <2> DEFINE n == Len(accepted)
  <2>1. Place(1) = dma /\ n \in 1 .. N
    BY <1>2, Oldest
  <2>2. accepted' = Tail(accepted) /\ accepted \in Seq(FRAMES) /\ accepted # <<>>
    BY <1>2, <2>1 DEF EthInv, EthTypeOK
  <2>3. Len(accepted') = n - 1 /\ \A k \in 1 .. n - 1 : accepted'[k] = accepted[k + 1]
    <3>1. /\ Len(Tail(accepted)) = Len(accepted) - 1
          /\ \A k \in 1 .. Len(Tail(accepted)) : Tail(accepted)[k] = accepted[k + 1]
      BY <2>2, HeadTailProperties
    <3> QED
      BY <2>2, <3>1
  <2>4. \A k \in 1 .. N : Place(k)' = INCR_TX_DESC_INDEX(dma, k)
    BY <1>0, PlaceNext DEF Place
  <2>5. \A k \in 1 .. N - 1 : Place(k)' = Place(k + 1)
    <3>1. \A k \in 1 .. N - 1 : k \in 1 .. N /\ (k + 1) - 1 = k
      BY EthTxAssumption DEF N
    <3> QED
      BY <2>4, <3>1 DEF Place
  <2>6. Place(N)' = dma
    <3>1. N \in 1 .. N /\ INCR_TX_DESC_INDEX(dma, N) = dma
      BY <1>0, EthTxAssumption DEF N, INCR_TX_DESC_INDEX, Index
    <3> QED
      BY <2>4, <3>1
  <2>7. desc'[dma] = Unused /\ \A p \in Index : p # dma => desc'[p] = desc[p]
    BY <1>0 DEF EthInv, EthTypeOK
  <2>8. \A k \in 2 .. N : Place(k) \in Index /\ Place(k) # dma
    <3>1. \A k \in 2 .. N : k \in 1 .. N /\ k # 1 /\ 1 \in 1 .. N
      BY EthTxAssumption DEF N
    <3> QED
      BY <1>0, <2>1, <3>1, PlaceIndex, PlaceInjective
  <2>9. \A k \in 1 .. N - 1 : k + 1 \in 2 .. N /\ k + 1 \in 1 .. N
    BY EthTxAssumption DEF N
  <2>10. \A k \in 1 .. N - 1 : desc'[Place(k)'] = desc[Place(k + 1)]
    BY <2>5, <2>7, <2>8, <2>9
  <2>11. ASSUME NEW k \in 1 .. N
         PROVE  desc'[Place(k)'].own <=> k <= Len(accepted')
    <3>1. CASE k = N
      <4>1. ~(k <= Len(accepted'))
        BY <3>1, <2>1, <2>3, EthTxAssumption DEF N
      <4>2. ~desc'[Place(k)'].own
        BY <3>1, <2>6, <2>7 DEF Unused
      <4> QED
        BY <4>1, <4>2
    <3>2. CASE k # N
      <4>1. k \in 1 .. N - 1
        BY <3>2, EthTxAssumption DEF N
      <4>2. desc[Place(k + 1)].own <=> k + 1 <= n
        BY <1>2, <4>1, <2>9 DEF EthInv, InTurn, N
      <4>3. k + 1 <= n <=> k <= n - 1
        BY <2>1, EthTxAssumption DEF N
      <4> QED
        BY <4>1, <4>2, <4>3, <2>3, <2>10
    <3> QED
      BY <3>1, <3>2
  <2>12. ASSUME NEW k \in 1 .. Len(accepted')
         PROVE  desc'[Place(k)'].buf = accepted'[k] /\ desc'[Place(k)'].len = accepted'[k]
    <3>1. k \in 1 .. n - 1 /\ k \in 1 .. N - 1 /\ k + 1 \in 1 .. n
      BY <2>1, <2>3, EthTxAssumption DEF N
    <3>2. desc[Place(k + 1)].buf = accepted[k + 1] /\ desc[Place(k + 1)].len = accepted[k + 1]
      BY <1>2, <3>1 DEF EthInv, InTurn
    <3> QED
      BY <3>1, <3>2, <2>3, <2>10
  <2>13. InTurn'
    <3>1. Len(accepted') <= N
      BY <2>1, <2>3, EthTxAssumption DEF N
    <3> QED
      BY <3>1, <2>11, <2>12 DEF InTurn, N
  <2>14. INCR_TX_DESC_INDEX(dma', Len(accepted')) = INCR_TX_DESC_INDEX(dma, n)
    BY <1>0, <2>1, <2>3, PlaceNext
  <2>15. pc = "DESC3" => desc'[descidx].buf = frame
    <3> SUFFICES ASSUME pc = "DESC3" PROVE desc'[descidx].buf = frame
      OBVIOUS
    <3>1. descidx = INCR_TX_DESC_INDEX(dma, n) /\ n < N /\ desc[descidx].buf = frame
      BY <1>2 DEF EthInv, Phase, N
    <3>2. n + 1 \in 2 .. N /\ (n + 1) - 1 = n
      BY <2>1, <3>1, EthTxAssumption DEF N
    <3>3. descidx = Place(n + 1)
      BY <3>1, <3>2 DEF Place
    <3> QED
      BY <3>1, <3>2, <3>3, <2>7, <2>8
  <2>16. pc \in {"DESC0", "DESC3"} => Len(accepted') < N
    BY <1>2, <2>1, <2>3, EthTxAssumption DEF EthInv, Phase, N
  <2>17. UNCHANGED <<CurTxDesc, TxConfig, pc, frame, descidx, txbuffer, calm>>
    OBVIOUS
  <2>18. INCR_TX_DESC_INDEX(descidx, 1)' = INCR_TX_DESC_INDEX(descidx, 1)
         /\ INCR_TX_DESC_INDEX(dma, Len(accepted))' = INCR_TX_DESC_INDEX(dma, n)
    BY <2>14, <2>17 DEF INCR_TX_DESC_INDEX
  <2>19. Phase'
    BY <1>2, <2>15, <2>16, <2>17, <2>18 DEF EthInv, Phase, N
  <2> QED
    BY <2>13, <2>19
<1>3. CASE ~calm
  BY <1>1, <1>3 DEF EthInv, InTurn, Phase
<1> QED
  BY <1>1, <1>2, <1>3 DEF EthInv

LEMMA DmaSuspendStep == EthInv /\ DmaSuspend => EthInv'
<1> SUFFICES ASSUME EthInv, DmaSuspend PROVE EthInv'
  OBVIOUS
<1> USE DEF DmaSuspend, ring, locals
<1>1. EthTypeOK'
  BY DEF EthInv, EthTypeOK
<1>2. InTurn'
  BY Untouched
<1>3. Phase'
  BY DEF EthInv, Phase, INCR_TX_DESC_INDEX
<1> QED
  BY <1>1, <1>2, <1>3 DEF EthInv

LEMMA StutterStep == EthInv /\ UNCHANGED eth_vars => EthInv'
<1> SUFFICES ASSUME EthInv, UNCHANGED eth_vars PROVE EthInv'
  OBVIOUS
<1> USE DEF eth_vars, ring, locals, engine
<1>1. EthTypeOK'
  BY DEF EthInv, EthTypeOK
<1>2. InTurn'
  BY Untouched
<1>3. Phase'
  BY DEF EthInv, Phase, INCR_TX_DESC_INDEX
<1> QED
  BY <1>1, <1>2, <1>3 DEF EthInv

LEMMA EthStep == EthInv /\ [EthNext]_eth_vars => EthInv'
BY BeginStep, SetLengthStep, SetTxBufferStep, BusyStep, PrepareStep,
   WriteAddressStep, WriteOwnStep, StoreIndexStep, AdvanceStep, LoadTailStep,
   EthPollStep, ReturnStep, InterruptStep, DmaSendStep, DmaSuspendStep, StutterStep
   DEF EthNext, Main, low_level_output, HAL_ETH_Transmit

-----------------------------------------------------------------------------

(* The ring of descriptors, its indices and TxConfig stay well formed,     *)
(* whatever the interrupt preempts.                                        *)
THEOREM EthTyping == EthSpec => []EthTypeOK
<1>1. EthInv => EthTypeOK
  BY DEF EthInv
<1> QED
  BY EthStart, EthStep, <1>1, PTL DEF EthSpec

(* low_level_output and HAL_ETH_Transmit, called from both contexts,       *)
(* hand frames to the DMA whole, once and in turn as long as no interrupt  *)
(* comes at a bad moment.                                                  *)
THEOREM SentInTurn == EthSpec => []InTurn
<1>1. EthInv => InTurn
  BY DEF EthInv
<1> QED
  BY EthStart, EthStep, <1>1, PTL DEF EthSpec

(* Until then HAL_ETH_Transmit answers BUSY only when as many frames wait  *)
(* as there are descriptors.                                               *)
THEOREM Refusals == EthSpec => RefusedWhenFull
<1>1. ASSUME EthInv, Refuses, calm'
      PROVE  Len(accepted) = ETH_TX_DESC_CNT
  <2>1. calm /\ pc \notin {"index", "advance"} /\ desc[CurTxDesc].own
    <3>1. CASE Busy
      BY <1>1, <3>1 DEF Busy, Goto
    <3>2. CASE EXTI1_IRQHandler /\ desc[CurTxDesc].own
      <4>1. calm /\ pc \notin BadMoments
        BY <1>1, <3>2 DEF EXTI1_IRQHandler, EthInv, EthTypeOK
      <4> QED
        BY <3>2, <4>1 DEF BadMoments
    <3> QED
      BY <1>1, <3>1, <3>2 DEF Refuses
  <2> QED
    BY <1>1, <2>1, Full DEF N
<1>2. EthInv /\ [EthNext]_eth_vars
        => [Refuses /\ calm' => Len(accepted) = ETH_TX_DESC_CNT]_eth_vars
  BY <1>1
<1> QED
  BY EthStart, EthStep, <1>2, PTL DEF EthSpec, RefusedWhenFull

-----------------------------------------------------------------------------
(***************************************************************************)
(* The iperf server, for any number of clients: however their tests overlap *)
(* and break off, each connection hears the messages of a test in order.   *)
(* IperfFairness plays no part.                                            *)
(***************************************************************************)

Messages == {Order[k] : k \in 1 .. 5}
Told(n) == SubSeq(Order, 1, n)

(* How many messages have been said in a state.                            *)
Said(s) == IF s = 0 THEN 0 ELSE IF s <= 2 THEN 1 ELSE IF s <= 4 THEN 2 ELSE s - 2

(* The control connection, while it is open, has heard what the state      *)
(* says; one that has not been accepted has heard nothing.                 *)
Where ==
  /\ iperf_control_pcb \in Connections =>
       /\ pcb[iperf_control_pcb] # "new"
       /\ pcb[iperf_control_pcb] = "open" => told[iperf_control_pcb] = Told(Said(local_state))
  /\ \A x \in Connections : pcb[x] = "new" => told[x] = Told(0)

IperfInv == IperfTypeOK /\ ToldInOrder /\ Where

-----------------------------------------------------------------------------

LEMMA OrderLength == Len(Order) = 5 /\ Order \in Seq(Messages)
BY DEF Order, Messages

LEMMA ToldNothing == Told(0) = <<>>
BY DEF Told, Order

LEMMA ToldNext ==
  ASSUME NEW n \in 0 .. 4
  PROVE  Append(Told(n), Order[n + 1]) = Told(n + 1)
<1>1. CASE n = 0
  BY <1>1 DEF Told, Order
<1>2. CASE n = 1
  BY <1>2 DEF Told, Order
<1>3. CASE n = 2
  BY <1>3 DEF Told, Order
<1>4. CASE n = 3
  BY <1>4 DEF Told, Order
<1>5. CASE n = 4
  BY <1>5 DEF Told, Order
<1> QED
  BY <1>1, <1>2, <1>3, <1>4, <1>5

(* Connections are only closed and lost in a step, not opened.             *)
Fewer ==
  \A x \in Connections : /\ pcb'[x] = "open" => pcb[x] = "open"
                         /\ pcb'[x] = "new" <=> pcb[x] = "new"

LEMMA Unspoken ==
  ASSUME IperfInv, UNCHANGED <<told, iperf_control_pcb>>, Fewer,
         \/ Said(local_state') = Said(local_state)
         \/ iperf_control_pcb \in Connections => pcb'[iperf_control_pcb] # "open"
  PROVE  ToldInOrder' /\ Where'
<1>1. ToldInOrder'
  BY DEF IperfInv, ToldInOrder
<1>2. Where'
  BY DEF IperfInv, Where, Fewer, Told
<1> QED
  BY <1>1, <1>2

LEMMA Spoken ==
  ASSUME IperfInv, UNCHANGED iperf_control_pcb, Fewer, NEW m,
         Said(local_state) \in 0 .. 4, m = Order[Said(local_state) + 1],
         told' = IF iperf_control_pcb \in Connections /\ pcb[iperf_control_pcb] = "open"
                   THEN [told EXCEPT ![iperf_control_pcb] = Append(@, m)] ELSE told,
         \/ Said(local_state') = Said(local_state) + 1
         \/ iperf_control_pcb \in Connections => pcb'[iperf_control_pcb] # "open"
  PROVE  told' \in [Connections -> Seq(Messages)] /\ ToldInOrder' /\ Where'
<1> DEFINE c == iperf_control_pcb
           n == Said(local_state)
<1>1. CASE c \in Connections /\ pcb[c] = "open"
  <2>1. told[c] = Told(n)
    BY <1>1 DEF IperfInv, Where
  <2>2. Append(told[c], m) = Told(n + 1) /\ n + 1 \in 0 .. 5
    BY <2>1, ToldNext, SMTT(20)
  <2>3. told' = [told EXCEPT ![c] = Told(n + 1)]
    BY <1>1, <2>2
  <2>4. told'[c] = Told(n + 1) /\ \A x \in Connections : x # c => told'[x] = told[x]
    BY <1>1, <2>3 DEF IperfInv, IperfTypeOK
  <2>5. m \in Messages
    BY DEF Messages
  <2>6. told' \in [Connections -> Seq(Messages)]
    BY <1>1, <2>5 DEF IperfInv, IperfTypeOK, Messages
  <2>7. ToldInOrder'
    BY <2>2, <2>4, OrderLength DEF IperfInv, ToldInOrder, Told
  <2>8. Where'
    BY <1>1, <2>4 DEF IperfInv, Where, Fewer, Told
  <2> QED
    BY <2>6, <2>7, <2>8
<1>2. CASE ~(c \in Connections /\ pcb[c] = "open")
  <2>1. told' = told
    BY <1>2
  <2>2. c \in Connections => pcb'[c] # "open"
    BY <1>2 DEF Fewer
  <2> QED
    BY <2>1, <2>2, Unspoken DEF IperfInv, IperfTypeOK, Messages
<1> QED
  BY <1>1, <1>2

LEMMA SayWhat ==
  ASSUME IperfInv, NEW m \in Messages, Say(m)
  PROVE  /\ told' = IF iperf_control_pcb \in Connections /\ pcb[iperf_control_pcb] = "open"
                      THEN [told EXCEPT ![iperf_control_pcb] = Append(@, m)] ELSE told
         /\ unacked' \in [Connections -> Nat]
BY DEF Say, outgoing, IperfInv, IperfTypeOK

LEMMA AcknowledgedNat ==
  ASSUME IperfInv, NEW x \in Connections, NEW n \in 1 .. unacked[x], NEW y,
         Acknowledged(x, n, y)
  PROVE  unacked' \in [Connections -> Nat]
<1>1. \A z \in Connections : unacked[z] \in Nat
  BY DEF IperfInv, IperfTypeOK
<1>2. \A z \in Connections : (IF z = x THEN unacked[z] - n ELSE unacked[z])
                             + (IF z = y THEN 1 ELSE 0) \in Nat
  BY <1>1
<1> QED
  BY <1>2 DEF Acknowledged

LEMMA ClosingPcb ==
  ASSUME IperfInv, NEW how \in {"closing", "closed"}, CloseBoth(how),
         UNCHANGED iperf_control_pcb
  PROVE  /\ Fewer /\ pcb' \in [Connections -> {"new", "open", "closing", "closed"}]
         /\ iperf_control_pcb \in Connections => pcb'[iperf_control_pcb] # "open"
BY DEF CloseBoth, Fewer, IperfInv, IperfTypeOK

-----------------------------------------------------------------------------

LEMMA IperfStart == IperfInit => IperfInv
<1> SUFFICES ASSUME IperfInit PROVE IperfInv
  OBVIOUS
<1>1. IperfTypeOK
  <2>1. told \in [Connections -> Seq({Order[k] : k \in 1 .. 5})]
    <3>1. <<>> \in Seq({Order[k] : k \in 1 .. 5})
      OBVIOUS
    <3> QED
      BY <3>1 DEF IperfInit
  <2>2. do_reverse \in BOOLEAN
    BY DEF IperfInit
  <2> QED
    BY <2>1, <2>2 DEF IperfInit, IperfTypeOK
<1>2. ToldInOrder
  BY ToldNothing, OrderLength DEF IperfInit, ToldInOrder, Told
<1>3. Where
  BY ToldNothing, IperfAssumption DEF IperfInit, Where, Connections
<1> QED
  BY <1>1, <1>2, <1>3 DEF IperfInv

LEMMA QuietStep ==
  ASSUME IperfInv, UNCHANGED <<server, pcb, outgoing>>
  PROVE  IperfInv'
<1>1. IperfTypeOK'
  BY DEF IperfInv, IperfTypeOK, server, outgoing
<1>2. ToldInOrder' /\ Where'
  BY Unspoken DEF Fewer, server, outgoing
<1> QED
  BY <1>1, <1>2 DEF IperfInv

LEMMA DropStep == \A x \in Connections : IperfInv /\ Drop(x) => IperfInv'
<1> SUFFICES ASSUME NEW x \in Connections, IperfInv, Drop(x) PROVE IperfInv'
  OBVIOUS
<1>1. Fewer
  BY DEF Drop, IperfInv, IperfTypeOK, Fewer
<1>2. IperfTypeOK'
  BY DEF Drop, IperfInv, IperfTypeOK, server
<1>3. ToldInOrder' /\ Where'
  BY <1>1, Unspoken DEF Drop, server
<1> QED
  BY <1>2, <1>3 DEF IperfInv

LEMMA AcceptStep == \A x \in Connections : IperfInv /\ tcp_iperf_accept(x) => IperfInv'
<1> SUFFICES ASSUME NEW x \in Connections, IperfInv, tcp_iperf_accept(x) PROVE IperfInv'
  OBVIOUS
<1> USE DEF tcp_iperf_accept, Accepted, outgoing
<1>1. IperfTypeOK'
  BY DEF IperfInv, IperfTypeOK
<1>2. ToldInOrder'
  BY DEF IperfInv, ToldInOrder
<1>3. told[x] = Told(0) /\ pcb[x] = "new" /\ pcb'[x] = "open"
      /\ \A y \in Connections : y # x => pcb'[y] = pcb[y]
  BY DEF IperfInv, IperfTypeOK, Where
<1>4. \A y \in Connections : pcb'[y] = "new" => told'[y] = Told(0)
  BY <1>3 DEF IperfInv, Where
<1>5. ASSUME iperf_control_pcb' \in Connections
      PROVE  /\ pcb'[iperf_control_pcb'] # "new"
             /\ pcb'[iperf_control_pcb'] = "open" =>
                  told'[iperf_control_pcb'] = Told(Said(local_state'))
  <2>1. CASE local_state = 3
    BY <1>3, <1>5, <2>1 DEF IperfInv, Where
  <2>2. CASE local_state # 3
    BY <1>3, <2>2 DEF Said
  <2> QED
    BY <2>1, <2>2
<1>6. Told(0)' = Told(0) /\ Told(Said(local_state))' = Told(Said(local_state'))
  BY DEF Told, Said
<1>7. Where'
  BY <1>4, <1>5, <1>6 DEF Where
<1> QED
  BY <1>1, <1>2, <1>7 DEF IperfInv

(* A segment is received, whatever it holds and wherever it comes from.    *)
LEMMA RecStep ==
  ASSUME NEW x \in Connections, NEW seg, IperfInv, tcp_iperf_rec(x, seg)
  PROVE  IperfInv'
<1>0. UNCHANGED <<iperf_control_pcb, iperf_data_pcb>>
  BY DEF tcp_iperf_rec
<1>1. ASSUME UNCHANGED pcb
      PROVE  Fewer
  BY <1>1 DEF Fewer
<1>2. CASE Terminate(seg)
  BY <1>0, <1>2, ClosingPcb, Unspoken
     DEF Terminate, CloseBoth, outgoing, IperfInv, IperfTypeOK
<1>3. CASE Greets(seg)
  <2>1. Said(local_state) = 0 /\ Said(local_state') = 1
    BY <1>3 DEF Greets, Step, Said
  <2>2. "PARAM_EXCHANGE" = Order[Said(local_state) + 1] /\ "PARAM_EXCHANGE" \in Messages
    BY <2>1 DEF Order, Messages
  <2>3. Say("PARAM_EXCHANGE") /\ UNCHANGED <<do_reverse, pcb>> /\ local_state' = 1
    BY <1>3 DEF Greets, Step
  <2>4. told' \in [Connections -> Seq(Messages)] /\ ToldInOrder' /\ Where'
    BY <1>0, <1>1, <2>1, <2>2, <2>3, SayWhat, Spoken
  <2>5. IperfTypeOK'
    BY <1>0, <2>2, <2>3, <2>4, SayWhat DEF IperfInv, IperfTypeOK, Messages
  <2> QED
    BY <2>4, <2>5 DEF IperfInv
<1>4. CASE Measures(seg)
  BY <1>0, <1>1, <1>4, Unspoken
     DEF Measures, outgoing, Said, IperfInv, IperfTypeOK
<1>5. CASE SetsUp(x, seg)
  <2>1. Said(local_state) = 1 /\ Said(local_state') = 2
    BY <1>5 DEF SetsUp, Said
  <2>2. "CREATE_STREAMS" = Order[Said(local_state) + 1] /\ "CREATE_STREAMS" \in Messages
    BY <2>1 DEF Order, Messages
  <2>3. Say("CREATE_STREAMS") /\ UNCHANGED pcb /\ local_state' = 3 /\ do_reverse' \in BOOLEAN
    BY <1>5 DEF SetsUp
  <2>4. told' \in [Connections -> Seq(Messages)] /\ ToldInOrder' /\ Where'
    BY <1>0, <1>1, <2>1, <2>2, <2>3, SayWhat, Spoken
  <2>5. IperfTypeOK'
    BY <1>0, <2>2, <2>3, <2>4, SayWhat DEF IperfInv, IperfTypeOK, Messages
  <2> QED
    BY <2>4, <2>5 DEF IperfInv
<1>6. CASE Streams(seg)
  <2>1. CASE do_reverse
    <3>1. Said(local_state) = 2 /\ Said(local_state') = 3
      BY <1>6, <2>1 DEF Streams, Step, Said
    <3>2. "TEST_START" = Order[Said(local_state) + 1] /\ "TEST_START" \in Messages
      BY <3>1 DEF Order, Messages
    <3>3. Say("TEST_START") /\ UNCHANGED <<do_reverse, pcb>> /\ local_state' = 5
      BY <1>6, <2>1 DEF Streams, Step
    <3>4. told' \in [Connections -> Seq(Messages)] /\ ToldInOrder' /\ Where'
      BY <1>0, <1>1, <3>1, <3>2, <3>3, SayWhat, Spoken
    <3>5. IperfTypeOK'
      BY <1>0, <3>2, <3>3, <3>4, SayWhat DEF IperfInv, IperfTypeOK, Messages
    <3> QED
      BY <3>4, <3>5 DEF IperfInv
  <2>2. CASE ~do_reverse
    BY <1>0, <1>1, <1>6, <2>2, Unspoken
       DEF Streams, outgoing, Said, IperfInv, IperfTypeOK
  <2> QED
    BY <2>1, <2>2
<1>7. CASE Ends(seg)
  <2>1. Said(local_state) = 4
    BY <1>7 DEF Ends, Said
  <2>2. "IPERF_DONE" = Order[Said(local_state) + 1] /\ "IPERF_DONE" \in Messages
    BY <2>1 DEF Order, Messages
  <2>3. Say("IPERF_DONE") /\ UNCHANGED do_reverse
    BY <1>7 DEF Ends
  <2>4. /\ Fewer /\ pcb' \in [Connections -> {"new", "open", "closing", "closed"}]
        /\ local_state' \in 0 .. 7
        /\ \/ Said(local_state') = Said(local_state) + 1
           \/ iperf_control_pcb \in Connections => pcb'[iperf_control_pcb] # "open"
    <3>1. CASE do_reverse
      BY <1>1, <1>7, <2>1, <3>1 DEF Ends, Said, IperfInv, IperfTypeOK
    <3>2. CASE ~do_reverse
      BY <1>0, <1>7, <3>2, ClosingPcb DEF Ends, CloseBoth
    <3> QED
      BY <3>1, <3>2
  <2>5. told' \in [Connections -> Seq(Messages)] /\ ToldInOrder' /\ Where'
    BY <1>0, <2>1, <2>2, <2>3, <2>4, SayWhat, Spoken
  <2>6. IperfTypeOK'
    BY <1>0, <2>2, <2>3, <2>4, <2>5, SayWhat DEF IperfInv, IperfTypeOK, Messages
  <2> QED
    BY <2>5, <2>6 DEF IperfInv
<1>8. CASE Ignored(seg)
  BY <1>0, <1>8, QuietStep DEF Ignored, server
<1> QED
  BY <1>2, <1>3, <1>4, <1>5, <1>6, <1>7, <1>8 DEF tcp_iperf_rec

LEMMA SentStep == \A x \in Connections : IperfInv /\ tcp_iperf_sent(x) => IperfInv'
<1> SUFFICES ASSUME NEW x \in Connections, IperfInv, tcp_iperf_sent(x) PROVE IperfInv'
  OBVIOUS
<1>0. UNCHANGED <<do_reverse, iperf_control_pcb, iperf_data_pcb>>
  BY DEF tcp_iperf_sent
<1>1. PICK n \in 1 .. unacked[x] : SentStarts(x, n) \/ SentRuns(x, n) \/ SentFills(x, n)
                                   \/ SentEnds(x, n) \/ SentNothing(x, n)
  BY DEF tcp_iperf_sent
<1>2. ASSUME UNCHANGED pcb
      PROVE  Fewer
  BY <1>2 DEF Fewer
<1>3. ASSUME NEW m, SentSays(x, n, m)
      PROVE  /\ unacked' \in [Connections -> Nat]
             /\ told' = IF iperf_control_pcb \in Connections /\ pcb[iperf_control_pcb] = "open"
                          THEN [told EXCEPT ![iperf_control_pcb] = Append(@, m)] ELSE told
  BY <1>3, AcknowledgedNat DEF SentSays
<1>4. CASE SentStarts(x, n)
  <2>1. Said(local_state) = 2 /\ Said(local_state') = 3
    BY <1>4 DEF SentStarts, Said
  <2>2. "TEST_START" = Order[Said(local_state) + 1]
    BY <2>1 DEF Order
  <2>3. SentSays(x, n, "TEST_START") /\ UNCHANGED pcb /\ local_state' = 5
    BY <1>4 DEF SentStarts
  <2>4. told' \in [Connections -> Seq(Messages)] /\ ToldInOrder' /\ Where'
    BY <1>0, <1>2, <1>3, <2>1, <2>2, <2>3, Spoken
  <2>5. IperfTypeOK'
    BY <1>0, <1>3, <2>3, <2>4 DEF IperfInv, IperfTypeOK, Messages
  <2> QED
    BY <2>4, <2>5 DEF IperfInv
<1>5. CASE SentRuns(x, n)
  <2>1. Said(local_state) = 3 /\ Said(local_state') = 4
    BY <1>5 DEF SentRuns, Said
  <2>2. "TEST_RUNNING" = Order[Said(local_state) + 1]
    BY <2>1 DEF Order
  <2>3. SentSays(x, n, "TEST_RUNNING") /\ UNCHANGED pcb /\ local_state' = 6
    BY <1>5 DEF SentRuns
  <2>4. told' \in [Connections -> Seq(Messages)] /\ ToldInOrder' /\ Where'
    BY <1>0, <1>2, <1>3, <2>1, <2>2, <2>3, Spoken
  <2>5. IperfTypeOK'
    BY <1>0, <1>3, <2>3, <2>4 DEF IperfInv, IperfTypeOK, Messages
  <2> QED
    BY <2>4, <2>5 DEF IperfInv
<1>6. CASE SentFills(x, n) \/ SentNothing(x, n)
  <2>1. UNCHANGED <<local_state, told, pcb>> /\ unacked' \in [Connections -> Nat]
    BY <1>6, AcknowledgedNat DEF SentFills, SentNothing
  <2>2. ToldInOrder' /\ Where'
    BY <1>0, <1>2, <2>1, Unspoken
  <2> QED
    BY <1>0, <2>1, <2>2 DEF IperfInv, IperfTypeOK
<1>7. CASE SentEnds(x, n)
  <2>1. UNCHANGED told /\ CloseBoth("closing") /\ unacked' \in [Connections -> Nat]
    BY <1>7, AcknowledgedNat DEF SentEnds
  <2>2. ToldInOrder' /\ Where'
    BY <1>0, <2>1, ClosingPcb, Unspoken
  <2> QED
    BY <1>0, <2>1, <2>2, ClosingPcb DEF IperfInv, IperfTypeOK, CloseBoth
<1> QED
  BY <1>1, <1>4, <1>5, <1>6, <1>7

LEMMA IperfPollStep == \A x \in Connections : IperfInv /\ tcp_iperf_poll(x) => IperfInv'
<1> SUFFICES ASSUME NEW x \in Connections, IperfInv, tcp_iperf_poll(x) PROVE IperfInv'
  OBVIOUS
<1> USE DEF tcp_iperf_poll, Step
<1>1. Said(local_state) = 2 /\ Said(local_state') = 3
  BY DEF Said
<1>2. "TEST_START" = Order[Said(local_state) + 1] /\ "TEST_START" \in Messages
  BY <1>1 DEF Order, Messages
<1>3. Fewer
  BY DEF Fewer
<1>4. told' \in [Connections -> Seq(Messages)] /\ ToldInOrder' /\ Where'
  BY <1>1, <1>2, <1>3, SayWhat, Spoken
<1>5. IperfTypeOK'
  BY <1>2, <1>4, SayWhat DEF IperfInv, IperfTypeOK, Messages
<1> QED
  BY <1>4, <1>5 DEF IperfInv

LEMMA IperfStep == IperfInv /\ [IperfNext]_iperf_vars => IperfInv'
<1> SUFFICES ASSUME IperfInv, [IperfNext]_iperf_vars PROVE IperfInv'
  OBVIOUS
<1>1. CASE \E x \in Connections : Write(x)
  BY <1>1, QuietStep DEF Write
<1>2. CASE \E c \in CLIENTS : Interrupt(c) \/ Die(c)
  BY <1>2, QuietStep DEF Interrupt, Die
<1>3. CASE \E x \in Connections : Receive(x)
  BY <1>3, RecStep DEF Receive
<1>4. CASE \E x \in Connections : ReceivePayload(x)
  BY <1>4, RecStep DEF ReceivePayload
<1>5. CASE UNCHANGED iperf_vars
  BY <1>5, QuietStep DEF iperf_vars
<1> QED
  BY <1>1, <1>2, <1>3, <1>4, <1>5, DropStep, AcceptStep, SentStep, IperfPollStep
     DEF IperfNext, Peer, Callback

-----------------------------------------------------------------------------

(* The state of the server and of its connections stays well formed.       *)
THEOREM IperfTyping == IperfSpec => []IperfTypeOK
<1>1. IperfInv => IperfTypeOK
  BY DEF IperfInv
<1> QED
  BY IperfStart, IperfStep, <1>1, PTL DEF IperfSpec

(* local_state and its callbacks never tell a connection of any client a   *)
(* message of the test outgoing of its turn.                                    *)
THEOREM InOrder == IperfSpec => []ToldInOrder
<1>1. IperfInv => ToldInOrder
  BY DEF IperfInv
<1> QED
  BY IperfStart, IperfStep, <1>1, PTL DEF IperfSpec

-----------------------------------------------------------------------------
(***************************************************************************)
(* All of them together.                                                   *)
(***************************************************************************)

AllInv == ConsoleTypeOK /\ ConfigTypeOK /\ RleInv /\ EthInv /\ IperfInv

LEMMA ServicesStart == Init => AllInv
<1>1. Init => ConsoleInit /\ ConfigInit /\ RleInit /\ EthInit /\ IperfInit
  BY DEF Init
<1> QED
  BY <1>1, ConsoleStart, ConfigStart, RleStart, EthStart, IperfStart DEF AllInv

(* A step of one part leaves the others alone.                             *)
LEMMA ServicesStep == AllInv /\ [Next]_vars => AllInv'
<1>1. [Next]_vars => /\ [ConsoleNext]_console_vars /\ [ConfigNext]_config_vars
                     /\ [RleNext]_rle_vars /\ [EthNext]_eth_vars
                     /\ [IperfNext]_iperf_vars
  BY DEF Next, vars
<1> QED
  BY <1>1, ConsoleStep, ConfigStep, RleStep, EthStep, IperfStep DEF AllInv

(* No part of the firmware beside the signal path leaves its types: flags  *)
(* that exclude each other, places in flash, ring and code that stay       *)
(* inside, counts that fit a byte.                                         *)
THEOREM ServicesTyping == Spec => []ServicesTypeOK
<1>1. AllInv => ServicesTypeOK
  BY DEF AllInv, RleInv, EthInv, IperfInv, ServicesTypeOK
<1> QED
  BY <1>1, ServicesStart, ServicesStep, PTL DEF Spec
=============================================================================
