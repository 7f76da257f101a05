------------------------------- MODULE TcpEcho --------------------------------
(***************************************************************************)
(* c/tcp_echo: one client of the echo server, from accept to close_client. *)
(* The units the client sends are numbered, so that the buffer, its two    *)
(* indices and their resets decide which unit is written when.  Every read *)
(* and write is a step.                                                    *)
(***************************************************************************)
EXTENDS EdgeSocket, Sequences

CONSTANTS
    BufSize,     \* CLIENT_BUF_SIZE
    MaxUnits,    \* bound: units the client sends in one connection
    Requests     \* bound: how many of them before it has the echo of the first

ASSUME BufAssumption ==
    BufSize \in Nat \ {0} /\ MaxUnits \in Nat /\ Requests \subseteq Nat

VARIABLES
    conn, csock,       \* the client's io_context exists; its socket
    prd, pwr,          \* io_context: may be readable, may be writable
    buf, sz, wr,       \* struct client
    epc,               \* where handle_client_io is
    given, taken,      \* auxiliary: units sent by the client, units read
    echoed,            \* auxiliary: the units written, in order
    round, request     \* bound: where the current request began; its largest size

client == <<buf, sz, wr>>
echoVars == <<conn, csock, prd, pwr, client, epc, given, taken, echoed, round, request>>

Blank == [i \in 0..BufSize - 1 |-> 0]

EchoInit ==
    /\ conn = FALSE /\ csock = Added(FALSE)
    /\ prd = FALSE /\ pwr = FALSE
    /\ buf = Blank /\ sz = 0 /\ wr = 0
    /\ epc = "wait"
    /\ given = 0 /\ taken = 0 /\ echoed = <<>> /\ round = 0
    /\ request \in Requests

-----------------------------------------------------------------------------
(* The client at the other end *)

ClientStep(k) ==
    /\ conn /\ csock' = k
    /\ UNCHANGED <<conn, prd, pwr, client, epc, taken, echoed, request>>

ClientSends ==
    /\ CanArrive(csock) /\ given < MaxUnits
    /\ round' = IF given = Len(echoed) THEN given ELSE round
    /\ given - round' < request
    /\ given' = given + 1
    /\ ClientStep(Arrived(csock))

ClientFinishes == CanArrive(csock) /\ ClientStep(Finished(csock)) /\ UNCHANGED <<given, round>>

ClientResets == ~csock.rst /\ ClientStep(WasReset(csock)) /\ UNCHANGED <<given, round>>

ClientTakes == csock.snd > 0 /\ ClientStep(Taken(csock)) /\ UNCHANGED <<given, round>>

-----------------------------------------------------------------------------
(* accept_client, handle_new_client and close_client *)

HandleNewClient ==
    /\ epc = "wait" /\ ~conn
    /\ conn' = TRUE /\ csock' = Added(TRUE)
    /\ prd' = FALSE /\ pwr' = FALSE
    /\ buf' = Blank /\ sz' = 0 /\ wr' = 0
    /\ given' = 0 /\ taken' = 0 /\ echoed' = <<>> /\ round' = 0
    /\ UNCHANGED <<epc, request>>

CloseClient ==
    /\ conn' = FALSE /\ csock' = Added(FALSE)
    /\ epc' = "wait"
    /\ UNCHANGED <<prd, pwr, client, given, taken, echoed, round, request>>

-----------------------------------------------------------------------------
(* The event loop and handle_client_io *)

\* The events are remembered in prd and pwr, then process_io runs.
Event ==
    /\ epc = "wait" /\ conn /\ csock.armed /\ Mask(csock) # {}
    /\ csock' = Reported(csock)
    /\ prd' = (prd \/ "IN" \in Mask(csock))
    /\ pwr' = (pwr \/ "OUT" \in Mask(csock))
    /\ epc' = IF prd' THEN "read" ELSE "write"
    /\ UNCHANGED <<conn, client, given, taken, echoed, round, request>>

\* The end of the loop that reads.
AfterRead == epc' = IF pwr THEN "write" ELSE "wait"

ReadSome(n) ==
    /\ epc = "read" /\ sz < BufSize
    /\ n <= csock.rcv /\ sz + n <= BufSize
    /\ csock' = Read(csock, n)
    /\ buf' = [i \in DOMAIN buf |-> IF i \in sz..sz + n - 1 THEN taken + 1 + (i - sz) ELSE buf[i]]
    /\ sz' = sz + n
    /\ taken' = taken + n
    /\ UNCHANGED <<conn, prd, pwr, wr, epc, given, echoed, round, request>>

ReadAgain ==
    /\ epc = "read" /\ sz < BufSize /\ Drained(csock)
    /\ prd' = FALSE
    /\ AfterRead
    /\ UNCHANGED <<conn, csock, pwr, client, given, taken, echoed, round, request>>

\* The buffer is full: prd stays set.
ReadFull ==
    /\ epc = "read" /\ sz = BufSize
    /\ AfterRead
    /\ UNCHANGED <<conn, csock, prd, pwr, client, given, taken, echoed, round, request>>

ReadEnds ==
    /\ epc = "read" /\ sz < BufSize /\ Ended(csock)
    /\ CloseClient

WriteSome(n) ==
    /\ epc = "write" /\ wr + n <= sz
    /\ ~csock.rst /\ csock.snd + n <= Room
    /\ csock' = Wrote(csock, n)
    /\ echoed' = echoed \o [i \in 1..n |-> buf[wr + i - 1]]
    /\ wr' = wr + n
    /\ UNCHANGED <<conn, prd, pwr, buf, sz, epc, given, taken, round, request>>

WriteAgain ==
    /\ epc = "write" /\ wr < sz
    /\ ~csock.rst /\ csock.snd = Room
    /\ csock' = Refused(csock)
    /\ pwr' = FALSE
    /\ epc' = "wait"
    /\ UNCHANGED <<conn, prd, client, given, taken, echoed, round, request>>

WriteFails ==
    /\ epc = "write" /\ wr < sz /\ csock.rst
    /\ CloseClient

\* Mutations: only wr is reset, or nothing.
RewindWritten == wr' = 0 /\ UNCHANGED sz

NoRewind == UNCHANGED <<sz, wr>>

\* Everything is written: the buffer starts over.
Rewind == wr' = 0 /\ sz' = 0

WriteDone ==
    /\ epc = "write" /\ wr = sz
    /\ Rewind
    /\ epc' = "wait"
    /\ UNCHANGED <<conn, csock, prd, pwr, buf, given, taken, echoed, round, request>>

EchoLoop ==
    \/ Event \/ ReadAgain \/ ReadFull \/ ReadEnds
    \/ WriteAgain \/ WriteFails \/ WriteDone
    \/ \E n \in 1..BufSize : ReadSome(n) \/ WriteSome(n)

EchoNext ==
    \/ ClientSends \/ ClientFinishes \/ ClientResets \/ ClientTakes
    \/ HandleNewClient \/ EchoLoop

EchoSafety == EchoInit /\ [][EchoNext]_echoVars

\* The loop runs whenever it can, and the client takes its echo.
EchoFairness == WF_echoVars(EchoLoop) /\ WF_echoVars(ClientTakes)

-----------------------------------------------------------------------------
(* Properties *)

EchoTypeOK ==
    /\ conn \in BOOLEAN /\ csock \in Socket
    /\ prd \in BOOLEAN /\ pwr \in BOOLEAN
    /\ buf \in [0..BufSize - 1 -> Nat]
    /\ sz \in 0..BufSize /\ wr \in 0..sz
    /\ epc \in {"wait", "read", "write"}
    /\ given \in Nat /\ taken \in Nat /\ echoed \in Seq(Nat)
    /\ round \in Nat /\ request \in Requests

\* What is written is what was read, each unit once and in order, however reads and
\* writes are cut and wherever the indices were when the buffer started over.
EchoExact == \A i \in DOMAIN echoed : echoed[i] = i

\* When the loop waits, prd and pwr remember every readiness that epoll will not
\* report again.
FlagsHonest ==
    epc = "wait" /\ conn /\ ~csock.armed =>
        /\ "IN" \in Mask(csock) => prd
        /\ "OUT" \in Mask(csock) => pwr

\* When the loop waits with an echo not yet written, the socket was full, and it
\* will report room.
EchoCovered ==
    epc = "wait" /\ conn /\ wr < sz =>
        csock.nospace \/ (csock.armed /\ "OUT" \in Mask(csock))

\* A client that sends at most a bufferful and waits for the echo gets all of it, or
\* is disconnected.  (After more than that the server may stop with prd set: nothing
\* runs the reading loop again when the writing loop has made room.)
Answered ==
    (request <= BufSize /\ conn /\ Len(echoed) < given) ~> (~conn \/ Len(echoed) = given)

\* The connection of a client whose requests never fill the buffer is closed after
\* it hangs up.
HangupCloses == (request < BufSize /\ conn /\ csock.fin) ~> ~conn

\* The echo is the input, and no readiness that it waits for is forgotten.
EchoSound == EchoExact /\ FlagsHonest /\ EchoCovered

\* A client gets its echo in the end, and one that hangs up is closed.
EchoProgress == Answered /\ HangupCloses
===============================================================================
