--------------------------------- MODULE Iperf ---------------------------------
(***************************************************************************)
(* The iperf3 server (iperf.c): one automaton, local_state, for whatever   *)
(* connections are open on its port, driven by lwIP's callbacks.           *)
(*                                                                         *)
(* A client opens a control connection, is led through the test by one     *)
(* message after the other, and opens a data connection on the way.  The   *)
(* server tells connections apart only when it accepts them, by the state  *)
(* it is in.  A segment is the sequence of the client's writes it carries. *)
(***************************************************************************)
EXTENDS Naturals, Sequences, FiniteSets

CONSTANTS
  CLIENTS,
  REVERSE,     \* those that ask for a test in reverse
  FAULTS,      \* at most so many do not see their test through
  NOBODY       \* a null pointer

ASSUME IperfAssumption ==
  /\ REVERSE \subseteq CLIENTS
  /\ FAULTS \in Nat
  /\ NOBODY \notin CLIENTS \X {"control", "data"}

VARIABLES
  local_state, do_reverse,
  iperf_control_pcb, iperf_data_pcb,
  pcb,        \* of each connection
  told,       \* the messages written to each connection
  unacked,    \* writes of the server not yet acknowledged
  wire,       \* writes of the client not yet received
  wrote,      \* how many writes the client has made
  alive,      \* the clients that are running
  spoiled     \* history: the clients that were not alone, or not well-behaved

server == <<local_state, do_reverse, iperf_control_pcb, iperf_data_pcb>>
outgoing == <<told, unacked>>
client == <<wrote, alive>>
iperf_vars == <<server, pcb, outgoing, wire, client, spoiled>>

Control(c) == <<c, "control">>
Data(c) == <<c, "data">>
Connections == CLIENTS \X {"control", "data"}
Of(x) == x[1]

\* What the server has to say, in turn.
Order == <<"PARAM_EXCHANGE", "CREATE_STREAMS", "TEST_START", "TEST_RUNNING", "IPERF_DONE">>

IperfInit ==
  /\ local_state = 0 /\ do_reverse = FALSE
  /\ iperf_control_pcb = NOBODY /\ iperf_data_pcb = NOBODY
  /\ pcb = [x \in Connections |-> "new"]
  /\ told = [x \in Connections |-> <<>>]
  /\ unacked = [x \in Connections |-> 0]
  /\ wire = [x \in Connections |-> <<>>]
  /\ wrote = [x \in Connections |-> 0]
  /\ alive = CLIENTS /\ spoiled = {}

-----------------------------------------------------------------------------

(* The client.                                                             *)
Script(x) == IF x[2] = "control" THEN <<"cookie", "length", "params", "end">>
                                 ELSE <<"cookie">>
\* The messages it waits for before each write on the control connection.
Awaits == <<0, 1, 1, 4>>

Heard(c) == Len(told[Control(c)])
Finished(c) == Heard(c) = Len(Order)

\* Another client's test is under way.
Others(c) == {d \in CLIENTS \ {c} : pcb[Control(d)] # "new" /\ ~Finished(d)}

Write(x) ==
  /\ Of(x) \in alive /\ pcb[x] = "open"
  /\ wrote[x] < Len(Script(x))
  /\ x[2] = "control" => Heard(Of(x)) >= Awaits[wrote[x] + 1]
  /\ wrote' = [wrote EXCEPT ![x] = @ + 1]
  /\ wire' = [wire EXCEPT ![x] = Append(@, Script(x)[wrote[x] + 1])]
  /\ UNCHANGED <<server, pcb, outgoing, alive, spoiled>>

(* It is interrupted and says so, or dies or is cut off and does not.      *)
MayFail == Cardinality(CLIENTS \ alive) < FAULTS

Interrupt(c) ==
  /\ c \in alive /\ MayFail /\ pcb[Control(c)] = "open"
  /\ alive' = alive \ {c} /\ spoiled' = spoiled \cup {c}
  /\ wire' = [wire EXCEPT ![Control(c)] = Append(@, "terminate")]
  /\ UNCHANGED <<server, pcb, outgoing, wrote>>

Die(c) ==
  /\ c \in alive /\ MayFail /\ pcb[Control(c)] # "new"
  /\ alive' = alive \ {c} /\ spoiled' = spoiled \cup {c}
  /\ wire' = [wire EXCEPT ![Control(c)] = <<>>, ![Data(c)] = <<>>]
  /\ UNCHANGED <<server, pcb, outgoing, wrote>>

\* lwIP gives a connection up; nothing tells iperf, which sets no tcp_err.
Drop(x) ==
  /\ Of(x) \notin alive \/ pcb[x] = "closing"
  /\ pcb[x] \in {"open", "closing"}
  /\ pcb' = [pcb EXCEPT ![x] = "closed"]
  /\ unacked' = [unacked EXCEPT ![x] = 0]
  /\ wire' = [wire EXCEPT ![x] = <<>>]
  /\ UNCHANGED <<server, told, client, spoiled>>

-----------------------------------------------------------------------------

\* Mutant: a new client does not reset the automaton.
Accepted_AsIs(x) ==
  IF local_state = 3
    THEN iperf_data_pcb' = x /\ UNCHANGED <<local_state, iperf_control_pcb>>
    ELSE iperf_control_pcb' = x /\ UNCHANGED <<local_state, iperf_data_pcb>>

\* Any connection but the one awaited in state 3 is the control connection.
Accepted(x) ==
  IF local_state = 3
    THEN iperf_data_pcb' = x /\ UNCHANGED <<local_state, iperf_control_pcb>>
    ELSE iperf_control_pcb' = x /\ local_state' = 0 /\ UNCHANGED iperf_data_pcb

tcp_iperf_accept(x) ==
  /\ Of(x) \in alive /\ pcb[x] = "new"
  /\ x[2] = "data" => pcb[Control(Of(x))] = "open" /\ Heard(Of(x)) >= 2
  /\ Accepted(x)
  /\ pcb' = [pcb EXCEPT ![x] = "open"]
  /\ spoiled' = spoiled \cup Others(Of(x))
       \cup (IF x[2] = "control" /\ local_state = 3 THEN {Of(x)} ELSE {})
  /\ UNCHANGED <<do_reverse, outgoing, wire, client>>

(* tcp_write and tcp_output.  A connection that is closed takes nothing;   *)
(* one that is open is taken to have room for a byte: if it had none, the  *)
(* code would go on all the same, since nobody looks at the result.        *)
Say(m) ==
  IF iperf_control_pcb \in Connections /\ pcb[iperf_control_pcb] = "open"
    THEN /\ told' = [told EXCEPT ![iperf_control_pcb] = Append(@, m)]
         /\ unacked' = [unacked EXCEPT ![iperf_control_pcb] = @ + 1]
    ELSE UNCHANGED outgoing

Step(s, m) == local_state' = s /\ Say(m) /\ UNCHANGED <<do_reverse, pcb>>

(* tcp_close leaves the callback for what was still to be acknowledged;    *)
(* tcp_iperf_close detaches it first.  A client that terminates before     *)
(* there was a data connection closes a null pointer, taken to do nothing. *)
CloseBoth(how) ==
  /\ local_state' = 0
  /\ pcb' = [x \in Connections |->
               IF x \in {iperf_control_pcb, iperf_data_pcb} /\ pcb[x] \in {"open", "closing"}
                 THEN how ELSE pcb[x]]

(* What a segment holds: a number of writes that were sent together.       *)
Single(seg, w) == seg = <<w>>
EndsInCookie(seg) == seg[Len(seg)] = "cookie"
Holds(seg, w) == \E k \in 1 .. Len(seg) : seg[k] = w
Long(seg) == Holds(seg, "cookie") \/ Holds(seg, "params") \/ Holds(seg, "payload")

Terminates(seg) == Single(seg, "terminate")

\* The cookie, the length and the parameters, the cookie of the data
\* connection, the end.
Greets(seg) ==
  /\ local_state = 0 /\ EndsInCookie(seg)
  /\ Step(1, "PARAM_EXCHANGE")

Measures(seg) ==
  /\ local_state = 1 /\ Single(seg, "length")
  /\ local_state' = 2 /\ UNCHANGED <<do_reverse, pcb, outgoing>>

SetsUp(x, seg) ==
  /\ local_state = 2 /\ Long(seg)
  /\ do_reverse' = (Holds(seg, "params") /\ Of(x) \in REVERSE)
  /\ local_state' = 3 /\ Say("CREATE_STREAMS") /\ UNCHANGED pcb

Streams(seg) ==
  /\ local_state = 3 /\ EndsInCookie(seg)
  /\ IF do_reverse THEN Step(5, "TEST_START")
                   ELSE local_state' = 4 /\ UNCHANGED <<do_reverse, pcb, outgoing>>

Ends(seg) ==
  /\ local_state = 6 /\ Single(seg, "end")
  /\ Say("IPERF_DONE")
  /\ UNCHANGED do_reverse
  /\ IF do_reverse THEN local_state' = 7 /\ UNCHANGED pcb ELSE CloseBoth("closing")

Terminate(seg) ==
  /\ Terminates(seg)
  /\ CloseBoth("closed") /\ UNCHANGED <<do_reverse, outgoing>>

Ignored(seg) ==
  /\ ~Terminates(seg)
  /\ ~(local_state \in {0, 3} /\ EndsInCookie(seg))
  /\ ~(local_state = 1 /\ Single(seg, "length"))
  /\ ~(local_state = 2 /\ Long(seg))
  /\ ~(local_state = 6 /\ Single(seg, "end"))
  /\ UNCHANGED <<local_state, do_reverse, pcb, outgoing>>

tcp_iperf_rec(x, seg) ==
  /\ \/ Terminate(seg)
     \/ Greets(seg) \/ Measures(seg) \/ SetsUp(x, seg) \/ Streams(seg) \/ Ends(seg)
     \/ Ignored(seg)
  /\ UNCHANGED <<iperf_control_pcb, iperf_data_pcb>>

\* What is sent again after a loss may come in one segment.
Receive(x) ==
  \E n \in 1 .. Len(wire[x]) :
    /\ pcb[x] = "open"
    /\ tcp_iperf_rec(x, SubSeq(wire[x], 1, n))
    /\ wire' = [wire EXCEPT ![x] = SubSeq(@, n + 1, Len(@))]
    /\ spoiled' = spoiled \cup Others(Of(x)) \cup (IF n > 1 THEN {Of(x)} ELSE {})
    /\ UNCHANGED client

\* Payload of the test: the client sends it from TEST_START to the end.
ReceivePayload(x) ==
  /\ x[2] = "data" /\ Of(x) \in alive \ REVERSE
  /\ pcb[x] = "open" /\ wrote[x] = 1 /\ wire[x] = <<>>
  /\ Heard(Of(x)) >= 3 /\ ~Finished(Of(x))
  /\ tcp_iperf_rec(x, <<"payload">>)
  /\ spoiled' = spoiled \cup Others(Of(x))
  /\ UNCHANGED <<wire, client>>

-----------------------------------------------------------------------------

\* Mutant: what is acknowledged is counted twice.
Acknowledged_Again(x, n, more) ==
  unacked' = [y \in Connections |->
                (IF y = x THEN unacked[y] - 2 * n ELSE unacked[y])
                + (IF y = more THEN 1 ELSE 0)]

\* n of the writes to a connection have been acknowledged.
Acknowledged(x, n, more) ==
  unacked' = [y \in Connections |->
                (IF y = x THEN unacked[y] - n ELSE unacked[y])
                + (IF y = more THEN 1 ELSE 0)]

\* The message m is written; x has been acknowledged.
SentSays(x, n, m) ==
  IF iperf_control_pcb \in Connections /\ pcb[iperf_control_pcb] = "open"
    THEN /\ told' = [told EXCEPT ![iperf_control_pcb] = Append(@, m)]
         /\ Acknowledged(x, n, iperf_control_pcb)
    ELSE UNCHANGED told /\ Acknowledged(x, n, NOBODY)

\* In reverse, the window of the data connection is filled again.
Fills ==
  IF iperf_data_pcb \in Connections /\ pcb[iperf_data_pcb] = "open" THEN iperf_data_pcb
                                                                   ELSE NOBODY

SentStarts(x, n) ==
  /\ local_state = 4
  /\ local_state' = 5 /\ SentSays(x, n, "TEST_START") /\ UNCHANGED pcb

SentRuns(x, n) ==
  /\ local_state = 5
  /\ local_state' = 6 /\ SentSays(x, n, "TEST_RUNNING") /\ UNCHANGED pcb

SentFills(x, n) ==
  /\ local_state = 6 /\ do_reverse
  /\ Acknowledged(x, n, Fills) /\ UNCHANGED <<local_state, told, pcb>>

SentEnds(x, n) ==
  /\ local_state = 7
  /\ CloseBoth("closing") /\ Acknowledged(x, n, NOBODY) /\ UNCHANGED told

SentNothing(x, n) ==
  /\ local_state \in 0 .. 3 \/ (local_state = 6 /\ ~do_reverse)
  /\ Acknowledged(x, n, NOBODY) /\ UNCHANGED <<local_state, told, pcb>>

tcp_iperf_sent(x) ==
  /\ Of(x) \in alive /\ pcb[x] \in {"open", "closing"}
  /\ \E n \in 1 .. unacked[x] :
       SentStarts(x, n) \/ SentRuns(x, n) \/ SentFills(x, n) \/ SentEnds(x, n)
       \/ SentNothing(x, n)
  /\ UNCHANGED <<do_reverse, iperf_control_pcb, iperf_data_pcb, wire, client, spoiled>>

\* Mutant: the poll does not look whether TEST_START has been sent.
tcp_iperf_poll_Always(x) ==
  /\ pcb[x] \in {"open", "closing"} /\ local_state \in {4, 5}
  /\ Step(5, "TEST_START")
  /\ UNCHANGED <<iperf_control_pcb, iperf_data_pcb, wire, client, spoiled>>

\* Ten times a second; when two seconds have passed in state 4.
tcp_iperf_poll(x) ==
  /\ pcb[x] \in {"open", "closing"} /\ local_state = 4
  /\ Step(5, "TEST_START")
  /\ UNCHANGED <<iperf_control_pcb, iperf_data_pcb, wire, client, spoiled>>

Peer == \/ \E x \in Connections : Write(x) \/ Drop(x)
        \/ \E c \in CLIENTS : Interrupt(c) \/ Die(c)
Callback == \E x \in Connections :
              \/ tcp_iperf_accept(x) \/ Receive(x) \/ ReceivePayload(x)
              \/ tcp_iperf_sent(x) \/ tcp_iperf_poll(x)
IperfNext == Peer \/ Callback

(* Each of these happens only so often, so that fairness of them taken     *)
(* together is fairness of each; acknowledgements may go on for ever.      *)
Proceeds(x) == \/ Write(x) \/ Receive(x) \/ tcp_iperf_poll(x)
               \/ x[2] = "data" /\ tcp_iperf_accept(x)

IperfFairness ==
  /\ WF_iperf_vars(\E x \in Connections : Proceeds(x))
  /\ \A x \in Connections : WF_iperf_vars(tcp_iperf_sent(x))

IperfSpec == IperfInit /\ [][IperfNext]_iperf_vars /\ IperfFairness

-----------------------------------------------------------------------------

(* Types: the automaton stays in its states, and no connection has more    *)
(* acknowledged than was written to it.                                    *)
IperfTypeOK ==
  /\ local_state \in 0 .. 7 /\ do_reverse \in BOOLEAN
  /\ iperf_control_pcb \in Connections \cup {NOBODY}
  /\ iperf_data_pcb \in Connections \cup {NOBODY}
  /\ pcb \in [Connections -> {"new", "open", "closing", "closed"}]
  /\ told \in [Connections -> Seq({Order[k] : k \in 1 .. 5})]
  /\ unacked \in [Connections -> Nat]

(* However tests overlap, are cut off or interrupted, and whichever        *)
(* callbacks of which connections drive the automaton: no connection is    *)
(* told a message twice, too early, or with one left out.                  *)
ToldInOrder ==
  \A x \in Connections : \E n \in 0 .. Len(Order) : told[x] = SubSeq(Order, 1, n)

(* A client that is alone, stays, and whose writes arrive one by one is    *)
(* led to the end of its test, whatever state earlier clients have left    *)
(* behind - except state 3, in which it is taken for a data connection.    *)
Served ==
  []<>(\A c \in CLIENTS :
         pcb[Control(c)] # "new" => Finished(c) \/ c \in spoiled)
=============================================================================
