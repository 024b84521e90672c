------------------------------ MODULE TcpEcho ------------------------------
(***************************************************************************)
(* lab7/tcp: a server that forks a child for each connection; the child    *)
(* echoes what it reads until the client is gone.  A connection is two     *)
(* streams of bytes, numbered in the order in which the client wrote them: *)
(* a read may return fewer bytes than a write has put in.                  *)
(***************************************************************************)
EXTENDS Integers, Sequences, FiniteSets

CONSTANTS TcpClients,
          Bytes,        \* bound: bytes a client writes in all
          MaxFd         \* bound: connections the server can hold open

VARIABLES
  tcpClient,   \* the next call, the bytes written and those heard
  up, down,    \* the streams of each connection
  backlog,     \* connections not yet accepted
  server,      \* its next call, the connection it has at hand, and those it holds open
  worker       \* the child of each connection: its next call, and the bytes in its buffer

tcpVars == <<tcpClient, up, down, backlog, server, worker>>

Init == /\ tcpClient = [c \in TcpClients |-> [at |-> "connect", wrote |-> 0, heard |-> <<>>]]
        /\ up = [c \in TcpClients |-> <<>>] /\ down = [c \in TcpClients |-> <<>>]
        /\ backlog = <<>>
        /\ server = [at |-> "accept", sock |-> {}, open |-> {}]
        /\ worker = [c \in TcpClients |-> [at |-> "none", buffer |-> <<>>]]

-----------------------------------------------------------------------------
(* The client.                                                             *)
Connect(c) == /\ tcpClient[c].at = "connect"
              /\ tcpClient' = [tcpClient EXCEPT ![c].at = "write"]
              /\ backlog' = Append(backlog, c)
              /\ UNCHANGED <<up, down, server, worker>>

\* a line of n bytes; an empty one writes nothing, and the client reads all the same
Type(c) == /\ tcpClient[c].at = "write"
           /\ \E n \in 0..Bytes - tcpClient[c].wrote :
                /\ tcpClient' = [tcpClient EXCEPT ![c].at = "read", ![c].wrote = @ + n]
                /\ up' = [up EXCEPT ![c] = @ \o [i \in 1..n |-> tcpClient[c].wrote + i]]
           /\ UNCHANGED <<down, backlog, server, worker>>

Hear(c) == /\ tcpClient[c].at = "read" /\ down[c] # <<>>
           /\ \E n \in 1..Len(down[c]) :
                /\ tcpClient' = [tcpClient EXCEPT ![c].at = "write",
                                                  ![c].heard = @ \o SubSeq(down[c], 1, n)]
                /\ down' = [down EXCEPT ![c] = SubSeq(@, n + 1, Len(@))]
           /\ UNCHANGED <<up, backlog, server, worker>>

\* somebody ends the client
ClientDies(c) == /\ tcpClient[c].at \in {"write", "read"}
                 /\ tcpClient' = [tcpClient EXCEPT ![c].at = "dead"]
                 /\ UNCHANGED <<up, down, backlog, server, worker>>

-----------------------------------------------------------------------------
(* The server.                                                             *)
Accept == /\ server.at = "accept" /\ backlog # <<>> /\ Cardinality(server.open) < MaxFd
          /\ server' = [at |-> "fork", sock |-> {Head(backlog)}, open |-> server.open \cup {Head(backlog)}]
          /\ backlog' = Tail(backlog)
          /\ UNCHANGED <<tcpClient, up, down, worker>>

\* the child has its own copy of the descriptor; the parent closes its own afterwards
Fork == /\ server.at = "fork"
        /\ server' = [server EXCEPT !.at = "close"]
        /\ worker' = [c \in TcpClients |-> IF c \in server.sock THEN [worker[c] EXCEPT !.at = "read"] ELSE worker[c]]
        /\ UNCHANGED <<tcpClient, up, down, backlog>>

\* mutant: the parent keeps its descriptor
CloseForgotten == /\ server.at = "close"
                  /\ server' = [server EXCEPT !.at = "accept", !.sock = {}]
                  /\ UNCHANGED <<tcpClient, up, down, backlog, worker>>

Close == /\ server.at = "close"
         /\ server' = [at |-> "accept", sock |-> {}, open |-> server.open \ server.sock]
         /\ UNCHANGED <<tcpClient, up, down, backlog, worker>>

\* without a child the connection stays open, and nobody serves it
ForkFails == /\ server.at = "fork"
             /\ server' = [server EXCEPT !.at = "accept", !.sock = {}]
             /\ UNCHANGED <<tcpClient, up, down, backlog, worker>>

-----------------------------------------------------------------------------
(* Its children, handle_client.                                            *)
Read(c) == /\ worker[c].at = "read" /\ up[c] # <<>>
           /\ \E n \in 1..Len(up[c]) :
                /\ worker' = [worker EXCEPT ![c] = [at |-> "write", buffer |-> SubSeq(up[c], 1, n)]]
                /\ up' = [up EXCEPT ![c] = SubSeq(@, n + 1, Len(@))]
           /\ UNCHANGED <<tcpClient, down, backlog, server>>

\* mutant: what is in the buffer stays there
EchoAgain(c) == /\ worker[c].at = "write" /\ tcpClient[c].at # "dead"
                /\ worker' = [worker EXCEPT ![c].at = "read"]
                /\ down' = [down EXCEPT ![c] = worker[c].buffer \o worker[c].buffer]
                /\ UNCHANGED <<tcpClient, up, backlog, server>>

\* mutant: the child is gone when it has answered once
EchoOnce(c) == /\ worker[c].at = "write" /\ tcpClient[c].at # "dead"
               /\ worker' = [worker EXCEPT ![c] = [at |-> "gone", buffer |-> <<>>]]
               /\ down' = [down EXCEPT ![c] = @ \o worker[c].buffer]
               /\ UNCHANGED <<tcpClient, up, backlog, server>>

Echo(c) == /\ worker[c].at = "write" /\ tcpClient[c].at # "dead"
           /\ worker' = [worker EXCEPT ![c] = [at |-> "read", buffer |-> <<>>]]
           /\ down' = [down EXCEPT ![c] = @ \o worker[c].buffer]
           /\ UNCHANGED <<tcpClient, up, backlog, server>>

\* the end of the stream, or SIGPIPE at a write, when the client is gone; SIGCHLD is
\* ignored, so that no zombie stays
Ends(c) == /\ tcpClient[c].at = "dead"
           /\ (worker[c].at = "read" /\ up[c] = <<>>) \/ worker[c].at = "write"
           /\ worker' = [worker EXCEPT ![c] = [at |-> "gone", buffer |-> <<>>]]
           /\ UNCHANGED <<tcpClient, up, down, backlog, server>>

-----------------------------------------------------------------------------
Server == Accept \/ Fork \/ Close
Worker(c) == Read(c) \/ Echo(c) \/ Ends(c)
Client(c) == Connect(c) \/ Type(c) \/ ClientDies(c)
Next == Server \/ ForkFails \/ \E c \in TcpClients : Client(c) \/ Hear(c) \/ Worker(c)

-----------------------------------------------------------------------------
\* What a client has heard, what is on its way and what its child holds make up, in
\* this order, exactly what the client wrote: the stop-and-wait of the client never
\* gets bytes twice or out of order, however the streams are cut (tcp_server.c:16,
\* tcp_client.c:36).
EchoPrefix == \A c \in TcpClients : tcpClient[c].at # "dead" =>
  tcpClient[c].heard \o down[c] \o worker[c].buffer \o up[c] = [i \in 1..tcpClient[c].wrote |-> i]

\* When the server waits for the next connection it holds open none that a child
\* serves or has served: a descriptor is lost only with a fork that failed
\* (tcp_server.c:64).
NothingKept == server.at = "accept" => \A c \in server.open : worker[c].at = "none"

\* A client that waits for the echo of something gets some of it, unless its fork
\* failed, or so many did before that the server has no descriptor left.
Owed(c) == tcpClient[c].at = "read" /\ Len(tcpClient[c].heard) < tcpClient[c].wrote
Served(c) == tcpClient[c].at \in {"write", "dead"}
Abandoned(c) == server.at = "accept" /\ (c \in server.open \/ Cardinality(server.open) >= MaxFd)
=============================================================================
