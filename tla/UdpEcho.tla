------------------------------ MODULE UdpEcho ------------------------------
(***************************************************************************)
(* lab7/udp: clients send a line in a datagram and wait for it to come     *)
(* back; one server answers in turn.  Datagrams may be lost and overtake   *)
(* each other; nobody sends one again.                                     *)
(***************************************************************************)
EXTENDS Integers, Sequences

CONSTANTS UdpClients, Lines    \* bound: lines typed at each client

VARIABLES
  udpClient,   \* the lines sent, and the echo that came last
  net,         \* datagrams: a request of a client or the answer to it, and the line
  udpServer    \* the datagram it has received and not yet answered, if any

udpVars == <<udpClient, net, udpServer>>

Init == /\ udpClient = [c \in UdpClients |-> [at |-> "type", line |-> 0, heard |-> 0]]
        /\ net = {}
        /\ udpServer = <<>>

\* fgets, sendto; the end of the input is cleared and ignored
Send(c) == /\ udpClient[c].at = "type" /\ udpClient[c].line < Lines
           /\ udpClient' = [udpClient EXCEPT ![c].at = "wait", ![c].line = @ + 1]
           /\ net' = net \cup {[kind |-> "request", client |-> c, line |-> <<c, udpClient[c].line + 1>>]}
           /\ UNCHANGED udpServer

\* an error of recvfrom is reported, and the server receives again
ServerReceives == /\ udpServer = <<>>
                  /\ \E d \in net : d.kind = "request" /\ udpServer' = <<d>> /\ net' = net \ {d}
                  /\ UNCHANGED udpClient

\* mutant: the address of some client, not of the one who sent this
ServerAnswersAnyone == /\ udpServer # <<>>
                       /\ \E c \in UdpClients :
                            net' = net \cup {[kind |-> "answer", client |-> c, line |-> Head(udpServer).line]}
                       /\ udpServer' = <<>>
                       /\ UNCHANGED udpClient

ServerAnswers == /\ udpServer # <<>>
                 /\ net' = net \cup {[Head(udpServer) EXCEPT !.kind = "answer"]}
                 /\ udpServer' = <<>>
                 /\ UNCHANGED udpClient

Receive(c) == /\ udpClient[c].at = "wait"
              /\ \E d \in net : /\ d.kind = "answer" /\ d.client = c
                                /\ udpClient' = [udpClient EXCEPT ![c].at = "type", ![c].heard = d.line]
                                /\ net' = net \ {d}
              /\ UNCHANGED udpServer

Lose == /\ \E d \in net : net' = net \ {d}
        /\ UNCHANGED <<udpClient, udpServer>>

-----------------------------------------------------------------------------
Server == ServerReceives \/ ServerAnswers
Next == Server \/ Lose \/ \E c \in UdpClients : Send(c) \/ Receive(c)

-----------------------------------------------------------------------------
\* What a client shows as the echo of a line is that line, although the server serves
\* them all through one buffer and one address (udp_server.c:45, udp_client.c:40).
EchoOfLast == \A c \in UdpClients : udpClient[c].at = "type" /\ udpClient[c].line > 0
                                    => udpClient[c].heard = <<c, udpClient[c].line>>

\* A client waits for ever only for a datagram that was lost.
InFlight(c) == \/ \E d \in net : d.client = c
               \/ udpServer # <<>> /\ Head(udpServer).client = c
Waiting(c) == udpClient[c].at = "wait"
Answered(c) == udpClient[c].at = "type"
Lost(c) == Waiting(c) /\ ~InFlight(c)
=============================================================================
