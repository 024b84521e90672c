---------------------------- MODULE FirstSemester ----------------------------
(***************************************************************************)
(* The programs of the first semester share nothing: family says which one *)
(* of them a behaviour is about, and the others stay as they began.        *)
(***************************************************************************)
EXTENDS ReverseCopy

CONSTANTS PipeSize, PipeWrap, PAGE_ENTRIES, Laps, UdpClients, Lines, TcpClients, Bytes, MaxFd,
          Name, Ino, SymName, Packed, Modes

ASSUME NumberAssumption == /\ PipeSize \in Nat /\ PipeWrap \in Nat \ {0}
                           /\ PAGE_ENTRIES \in Nat \ {0} /\ Laps \in Nat \ {0}
                           /\ Lines \in Nat /\ Bytes \in Nat /\ MaxFd \in Nat

\* inode 0 is none; 1 is a file and 2 a package at the start
ASSUME DirectoryAssumption ==
  /\ {1, 2} \subseteq Ino /\ 0 \notin Ino
  /\ {"dir", "hard_link"} \subseteq Name /\ Packed \subseteq Name \ {"dir"}
  /\ DOMAIN SymName \subseteq Name /\ \A n \in DOMAIN SymName : SymName[n] \in Name
  /\ \A rights \in Modes : rights \subseteq {"r", "w"}

VARIABLES family, parent, child, pipe, ends, writer, reader, ring, scan,
          udpClient, net, udpServer, tcpClient, up, down, backlog, server, worker,
          entry, inode, command

Forking == INSTANCE ForkWait
Piping == INSTANCE NumberPipe
Ringing == INSTANCE RawRing
Udp == INSTANCE UdpEcho
Tcp == INSTANCE TcpEcho
Files == INSTANCE FileTools

forkV == <<parent, child>>
pipeV == <<pipe, ends, writer, reader>>
ringV == <<ring, scan>>
udpV == <<udpClient, net, udpServer>>
tcpV == <<tcpClient, up, down, backlog, server, worker>>
filesV == <<entry, inode, command>>

Families == {"fork", "pipe", "ring", "udp", "tcp", "copy", "files"}

AllInit == /\ family \in Families
           /\ Forking!Init /\ (family # "fork" => parent.program = "once")
           /\ InitCopy /\ (family # "copy" => \A f \in FileNames : entries[f] = 0)
           /\ Piping!Init /\ Ringing!Init /\ Udp!Init /\ Tcp!Init /\ Files!Init

ForkNext == /\ family = "fork" /\ Forking!Next
            /\ UNCHANGED <<family, pipeV, ringV, udpV, tcpV, filesV, copyVars>>
PipeNext == /\ family = "pipe" /\ Piping!Next
            /\ UNCHANGED <<family, forkV, ringV, udpV, tcpV, filesV, copyVars>>
RingNext == /\ family = "ring" /\ Ringing!Next
            /\ UNCHANGED <<family, forkV, pipeV, udpV, tcpV, filesV, copyVars>>
UdpNext == /\ family = "udp" /\ Udp!Next
           /\ UNCHANGED <<family, forkV, pipeV, ringV, tcpV, filesV, copyVars>>
TcpNext == /\ family = "tcp" /\ Tcp!Next
           /\ UNCHANGED <<family, forkV, pipeV, ringV, udpV, filesV, copyVars>>
CopyNext == /\ family = "copy" /\ NextCopy
            /\ UNCHANGED <<family, forkV, pipeV, ringV, udpV, tcpV, filesV>>
FilesNext == /\ family = "files" /\ Files!Next
             /\ UNCHANGED <<family, forkV, pipeV, ringV, udpV, tcpV, copyVars>>

AllNext == ForkNext \/ PipeNext \/ RingNext \/ UdpNext \/ TcpNext \/ CopyNext \/ FilesNext
allVars == <<family, forkV, pipeV, ringV, udpV, tcpV, filesV, copyVars>>

(* Processes are scheduled and the calls that can return do; nothing is    *)
(* assumed of the user, of failures and of the loss of datagrams.          *)
AllFairness ==
  /\ WF_forkV(family = "fork" /\ Forking!Parent) /\ WF_forkV(family = "fork" /\ Forking!Child)
  /\ WF_pipeV(family = "pipe" /\ Piping!Reader) /\ WF_pipeV(family = "pipe" /\ Piping!Writer)
  /\ WF_udpV(family = "udp" /\ Udp!Server)
  /\ \A c \in UdpClients : WF_udpV(family = "udp" /\ Udp!Receive(c))
  /\ WF_tcpV(family = "tcp" /\ Tcp!Server)
  /\ \A c \in TcpClients : /\ WF_tcpV(family = "tcp" /\ Tcp!Worker(c))
                           /\ WF_tcpV(family = "tcp" /\ Tcp!Hear(c))

AllSpec == AllInit /\ [][AllNext]_allVars /\ AllFairness

-----------------------------------------------------------------------------
(* The properties of the modules, under the names of the run.              *)
\* lab5: what a parent reports of its child is so.
ReportsTruth == Forking!ReportsTruth

\* lab6: the pipe has no gaps, and those of the raw ring are whole laps.
GapsAreReal == Piping!PipeNoGap /\ Ringing!RawGapsAreLaps

\* lab7, TCP: the server keeps open no connection that a child serves.
NothingKept == Tcp!NothingKept

\* lab7: an echo is what was sent, over UDP and over TCP.
Echoed == Udp!EchoOfLast /\ Tcp!EchoPrefix

\* lab3: the ways in which a command loses data, seven in all.
NamedDataLost == Files!NamedDataLost

\* lab5 and lab6: a parent ends, unless somebody leaves its child stopped; and when one
\* end of the pipe is gone, the other process ends too.
Ending == /\ (family = "fork") ~> Forking!Settled
          /\ (family = "pipe" /\ Piping!OneGone) ~> Piping!BothGone

\* lab7: a client gets its echo, unless over UDP a datagram is lost, or over TCP its fork
\* fails or the server is out of descriptors.
Answering == /\ \A c \in UdpClients : (family = "udp" /\ Udp!Waiting(c)) ~> (Udp!Answered(c) \/ Udp!Lost(c))
             /\ \A c \in TcpClients : (family = "tcp" /\ Tcp!Owed(c)) ~> (Tcp!Served(c) \/ Tcp!Abandoned(c))
=============================================================================
