-------------------------------- MODULE Console --------------------------------
(***************************************************************************)
(* The console: telnet sessions (telnet.c), the output buffer they share   *)
(* (std_io.c), the commands the main loop executes for them (command_tick) *)
(* and the register dump, which waits for its output to be sent            *)
(* (atrf_dump_regs).                                                       *)
(*                                                                         *)
(* Everything here runs in the main loop: lwIP calls the callbacks from    *)
(* MX_LWIP_Process, which the dump calls again and again while it waits.   *)
(* An element of net stands for what is printed in one go and fits in one  *)
(* segment.  No other server prints while a dump waits.                    *)
(***************************************************************************)
EXTENDS Integers, Sequences

CONSTANTS
  CONNS,  \* TCP connections, each to be used again once it is gone
  NET,    \* prints that net_buffer has room for
  DUMP    \* portions of a register dump that are waited for

ASSUME ConsoleAssumption ==
  /\ NET \in Nat \ {0}
  /\ DUMP \in Nat \ {0}
  /\ {"log", "none"} \cap CONNS = {}

VARIABLES
  do_close, is_closed,
  net,              \* net_buffer: whose answers it holds, "log" for the main loop's output
  conn,             \* the pcb of each connection, as lwIP knows it
  rx,               \* the pcb tcp_input goes on with after the callback, or "none"
  left,             \* cmd_buffer is not empty between two segments
  do_at_dump, do_system_reset,
  dump,             \* portions of the running dump still to be waited for
  lost,             \* history: has a session vanished since the last accept?
  ended,            \* history: has one been closed while a dump ran, since then?
  overlap,          \* history: was another session there at the last accept?
  torn,             \* history: did a segment hold other than one line, since then?
  mangled           \* history: was the last line since then taken for another?

flags == <<do_close, is_closed>>
deferred == <<do_at_dump, do_system_reset>>
sessions == <<lost, ended, overlap>>
lines == <<torn, mangled>>
console_vars == <<flags, net, conn, rx, left, deferred, dump, sessions, lines>>

Commands == {"plain", "at_dump", "system_reset"}

is_telnet_closed == do_close \/ is_closed

(* What printing for who makes of the buffer n: what does not fit is       *)
(* dropped, and without a session everything goes to the UART.             *)
Printed(n, who) ==
  IF is_telnet_closed THEN <<>>
  ELSE IF Len(n) < NET THEN Append(n, who) ELSE n

There == {c \in CONNS : conn[c] \in {"open", "closing"}}

-----------------------------------------------------------------------------

ConsoleInit ==
  /\ do_close = FALSE
  /\ is_closed = TRUE
  /\ net = <<>>
  /\ conn = [c \in CONNS |-> "none"]
  /\ rx = "none"
  /\ left = FALSE
  /\ do_at_dump = FALSE
  /\ do_system_reset = FALSE
  /\ dump = 0
  /\ lost = FALSE
  /\ ended = FALSE
  /\ overlap = FALSE
  /\ torn = FALSE
  /\ mangled = FALSE

\* Mutant: the greeting is appended to what the last session left.
Greeting_Appended(c) == Printed(net, c)

Greeting(c) == IF do_close THEN <<>> ELSE <<c>>

\* Mutant: a second session does not open the output again.
Reopened_FirstOnly == IF There = {} THEN FALSE ELSE is_closed

Reopened == FALSE

\* Mutant: the line buffer is not cleared, only its first bytes are.
Cleared_Partly == left

Cleared == FALSE

(* A session is accepted whether or not there is another.                  *)
telnet_accept(c) ==
  /\ rx = "none"
  /\ conn[c] = "none"
  /\ conn' = [conn EXCEPT ![c] = "open"]
  /\ is_closed' = Reopened
  /\ net' = Greeting(c)
  /\ left' = Cleared
  /\ lost' = FALSE
  /\ ended' = FALSE
  /\ overlap' = (There # {})
  /\ torn' = FALSE
  /\ mangled' = FALSE
  /\ UNCHANGED <<do_close, rx, deferred, dump>>

-----------------------------------------------------------------------------
(* telnet_poll for c, with the buffer n.                                   *)

Closes(c, n) ==
  /\ ~is_closed
  /\ do_close
  /\ do_close' = FALSE
  /\ conn' = [conn EXCEPT ![c] = "closing"]
  /\ net' = n

(* A connection that is being closed refuses the data, but the buffer is   *)
(* moved up all the same.                                                  *)
Sends(n) ==
  /\ ~is_telnet_closed
  /\ n # <<>>
  /\ net' = Tail(n)
  /\ UNCHANGED <<do_close, conn>>

\* No session, nothing to send, or no room in the send buffer.
Idles(n) ==
  /\ is_closed \/ ~do_close
  /\ net' = n
  /\ UNCHANGED <<do_close, conn>>

telnet_poll(c) ==
  /\ rx = "none"
  /\ c \in There
  /\ Closes(c, net) \/ Sends(net)
  /\ UNCHANGED <<is_closed, rx, left, deferred, dump, sessions, lines>>

-----------------------------------------------------------------------------
(* telnet_recv.                                                            *)

Receives(c) ==
  /\ rx = "none"
  /\ conn[c] = "open"
  /\ rx' = c

(* The end of the callback with p == NULL or do_close set.                 *)
Aborts(c) ==
  /\ do_close' = FALSE
  /\ is_closed' = TRUE
  /\ conn' = [conn EXCEPT ![c] = "freed"]
  /\ ended' = (ended \/ dump > 0)
  /\ UNCHANGED <<net, deferred, dump, lost, overlap>>

Returns == UNCHANGED <<flags, net, conn, deferred, dump, sessions>>

AbortsIf(c, closing) == IF closing THEN Aborts(c) ELSE Returns

(* A segment with a line.  Of a buffer that holds more than this one line  *)
(* anything may be read.  telnet_poll deals with do_close, so that the end *)
(* of the callback finds it reset.                                         *)
Line(c, cmd, whole) ==
  /\ Receives(c)
  /\ \E taken \in IF whole /\ ~left THEN {cmd} ELSE Commands \cup {"unknown"} :
       /\ do_at_dump' = (do_at_dump \/ taken = "at_dump")
       /\ do_system_reset' = (do_system_reset \/ taken = "system_reset")
       /\ mangled' = (taken # cmd)
  /\ LET answer == Printed(<<>>, c) IN
       Closes(c, answer) \/ Sends(answer) \/ Idles(answer)
  /\ left' = FALSE
  /\ torn' = (torn \/ ~whole)
  /\ UNCHANGED <<is_closed, dump, sessions>>

(* A segment without an end of line, which an earlier one may complete to  *)
(* a "quit".                                                               *)
Part(c) ==
  /\ Receives(c)
  /\ \/ left' = TRUE /\ AbortsIf(c, do_close)
     \/ left /\ left' = FALSE /\ Aborts(c)
  /\ torn' = TRUE
  /\ UNCHANGED mangled

Negotiation(c) ==
  /\ Receives(c)
  /\ left' = FALSE
  /\ AbortsIf(c, do_close)
  /\ UNCHANGED lines

\* Mutant: what was typed to leave is still there for the next session.
AfterQuit_Kept == TRUE

AfterQuit == FALSE

Quit(c) ==
  /\ Receives(c)
  /\ left' = AfterQuit
  /\ Aborts(c)
  /\ UNCHANGED lines

\* Mutant: the end of a session is not noted.
Fin_Forgets(c) ==
  /\ rx = "none"
  /\ c \in There
  /\ rx' = c
  /\ conn' = [conn EXCEPT ![c] = "freed"]
  /\ ended' = (ended \/ dump > 0)
  /\ UNCHANGED <<flags, net, left, deferred, dump, lost, overlap, lines>>

(* The peer closes: the callback gets no data.                             *)
Fin(c) ==
  /\ rx = "none"
  /\ c \in There
  /\ rx' = c
  /\ Aborts(c)
  /\ UNCHANGED <<left, lines>>

telnet_recv(c) ==
  \/ \E cmd \in Commands, whole \in BOOLEAN : Line(c, cmd, whole)
  \/ Part(c)
  \/ Negotiation(c)
  \/ Quit(c)
  \/ Fin(c)

-----------------------------------------------------------------------------
(* lwIP: what it does after the callback, and a connection it removes      *)
(* (reset by the peer, not acknowledged, data after a close), of which the *)
(* console is not told.                                                    *)

tcp_output ==
  /\ rx # "none"
  /\ rx' = "none"
  /\ conn' = [conn EXCEPT ![rx] = IF @ = "freed" THEN "none" ELSE @]
  /\ UNCHANGED <<flags, net, left, deferred, dump, sessions, lines>>

Vanish(c) ==
  /\ rx = "none"
  /\ c \in There
  /\ conn' = [conn EXCEPT ![c] = "none"]
  /\ lost' = TRUE
  /\ UNCHANGED <<flags, net, rx, left, deferred, dump, ended, overlap, lines>>

-----------------------------------------------------------------------------
(* The main loop.                                                          *)

InLoop == rx = "none" /\ dump = 0

Log ==
  /\ InLoop
  /\ net' = Printed(net, "log")
  /\ UNCHANGED <<flags, conn, rx, left, deferred, dump, sessions, lines>>

\* Mutant: closing asks for a close only.
Closing_KeepsClosed ==
  /\ InLoop
  /\ do_system_reset
  /\ do_close' = TRUE
  /\ UNCHANGED <<is_closed, net, conn, rx, left, deferred, dump, sessions, lines>>

(* close_telnet, from 500 ms after system_reset on.                        *)
Closing ==
  /\ InLoop
  /\ do_system_reset
  /\ is_closed' = FALSE
  /\ do_close' = TRUE
  /\ UNCHANGED <<net, conn, rx, left, deferred, dump, sessions, lines>>

SystemReset ==
  /\ InLoop
  /\ do_system_reset
  /\ do_close' = FALSE
  /\ is_closed' = TRUE
  /\ net' = <<>>
  /\ conn' = [c \in CONNS |-> "none"]
  /\ left' = FALSE
  /\ do_at_dump' = FALSE
  /\ do_system_reset' = FALSE
  /\ lost' = FALSE
  /\ ended' = FALSE
  /\ overlap' = FALSE
  /\ torn' = FALSE
  /\ mangled' = FALSE
  /\ UNCHANGED <<rx, dump>>

atrf_dump_regs ==
  /\ InLoop
  /\ do_at_dump
  /\ do_at_dump' = FALSE
  /\ dump' = DUMP
  /\ net' = Printed(net, "log")
  /\ UNCHANGED <<flags, conn, rx, left, do_system_reset, sessions, lines>>

(* while( net_buffer[0] != 0 ) main_tick(); is over: the next portion.     *)
NextPortion ==
  /\ rx = "none"
  /\ dump > 0
  /\ net = <<>>
  /\ dump' = dump - 1
  /\ net' = Printed(net, "log")
  /\ UNCHANGED <<flags, conn, rx, left, deferred, sessions, lines>>

-----------------------------------------------------------------------------

MainLoop == Log \/ Closing \/ SystemReset \/ atrf_dump_regs \/ NextPortion
Lwip(c) == telnet_accept(c) \/ telnet_recv(c) \/ telnet_poll(c) \/ Vanish(c)

ConsoleNext == MainLoop \/ tcp_output \/ \E c \in CONNS : Lwip(c)

(* Callbacks return.  lwIP polls every connection each time its slow timer *)
(* fires, ten times a second in this build, however much arrives in        *)
(* between, and one whose peer takes no data is removed in the end.  The   *)
(* dump tests its condition after every round of lwIP, in which polls come *)
(* last.                                                                   *)
ConsoleFairness ==
  /\ WF_console_vars(tcp_output)
  /\ \A c \in CONNS : SF_console_vars(telnet_poll(c))
  /\ SF_console_vars(NextPortion)

ConsoleSpec == ConsoleInit /\ [][ConsoleNext]_console_vars /\ ConsoleFairness

-----------------------------------------------------------------------------

(* The types of the variables; and the two flags are never both set, which *)
(* the end of a line in telnet_recv depends on.                            *)
ConsoleTypeOK ==
  /\ do_close \in BOOLEAN /\ is_closed \in BOOLEAN
  /\ left \in BOOLEAN /\ do_at_dump \in BOOLEAN /\ do_system_reset \in BOOLEAN
  /\ lost \in BOOLEAN /\ ended \in BOOLEAN /\ overlap \in BOOLEAN
  /\ torn \in BOOLEAN /\ mangled \in BOOLEAN
  /\ net \in Seq(CONNS \cup {"log"})
  /\ Len(net) <= NET
  /\ conn \in [CONNS -> {"none", "open", "closing", "freed"}]
  /\ rx \in CONNS \cup {"none"}
  /\ dump \in 0 .. DUMP
  /\ ~(do_close /\ is_closed)

(* What is in the output buffer is for somebody who will get it: with no   *)
(* connection left, all goes to the UART, unless a session vanished        *)
(* without a word (telnet_init registers no error callback) and none came  *)
(* after it; and a session that has the console to itself finds nobody     *)
(* else's answers there.                                                   *)
KeptForItsReader ==
  /\ There = {} /\ ~lost => is_telnet_closed
  /\ \A c \in CONNS :
       conn[c] = "open" /\ ~is_closed /\ ~overlap =>
         \A i \in DOMAIN net : net[i] \in {"log", c}

(* As long as every segment since the last accept is one line, every line  *)
(* is taken for what it is, whoever used the line buffer before.           *)
Understood == mangled => torn

(* The register dump, in which the main loop waits for the buffer to be    *)
(* sent, ends: unless a session is closed meanwhile, or one has vanished,  *)
(* and none is accepted after that.  If one is, it frees the main loop.    *)
DumpEnds == (dump > 0 /\ ~lost /\ ~ended) ~> (dump = 0 \/ lost \/ ended)
=============================================================================
