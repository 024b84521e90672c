----------------------------- MODULE NumberPipe -----------------------------
(***************************************************************************)
(* lab6/pipe.c: the child writes 0, 1, 2, ... into a pipe, the parent      *)
(* reads and complains of a gap.  Nothing ends them but a signal.          *)
(***************************************************************************)
EXTENDS Integers, Sequences

CONSTANTS PipeSize,   \* numbers the pipe holds
          PipeWrap    \* bound: unsigned int, 2^32 in the code

VARIABLES
  pipe,      \* the numbers in it
  ends,      \* who holds its read and its write end
  writer,    \* the child
  reader     \* the parent

pipeVars == <<pipe, ends, writer, reader>>

Init == /\ pipe = <<>>
        /\ ends = [read |-> {"reader"}, write |-> {"reader"}]
        /\ writer = [at |-> "none", cnt |-> 0]
        /\ reader = [at |-> "fork", prev |-> 0, gap |-> FALSE]

Fork == /\ reader.at = "fork"
        /\ reader' = [reader EXCEPT !.at = "close"]
        /\ writer' = [writer EXCEPT !.at = "close"]
        /\ ends' = [read |-> {"reader", "writer"}, write |-> {"reader", "writer"}]
        /\ UNCHANGED pipe

\* -1 is not looked for: the parent goes on as the reader
ForkFails == /\ reader.at = "fork"
             /\ reader' = [reader EXCEPT !.at = "close"]
             /\ UNCHANGED <<pipe, ends, writer>>

WriterCloses == /\ writer.at = "close"
                /\ writer' = [writer EXCEPT !.at = "write"]
                /\ ends' = [ends EXCEPT !.read = @ \ {"writer"}]
                /\ UNCHANGED <<pipe, reader>>

Write == /\ writer.at = "write" /\ ends.read # {} /\ Len(pipe) < PipeSize
         /\ pipe' = Append(pipe, writer.cnt)
         /\ writer' = [writer EXCEPT !.cnt = (@ + 1) % PipeWrap]
         /\ UNCHANGED <<ends, reader>>

Without(p) == [read |-> ends.read \ {p}, write |-> ends.write \ {p}]

\* SIGPIPE, when nobody can read; or somebody kills the child
WriterDies == /\ writer.at \in {"close", "write"}
              /\ writer' = [writer EXCEPT !.at = "dead"]
              /\ ends' = Without("writer")
              /\ UNCHANGED <<pipe, reader>>

\* mutant: the parent keeps its write end
ReaderKeepsEnd == /\ reader.at = "close"
                  /\ reader' = [reader EXCEPT !.at = "first"]
                  /\ UNCHANGED <<pipe, ends, writer>>

ReaderCloses == /\ reader.at = "close"
                /\ reader' = [reader EXCEPT !.at = "first"]
                /\ ends' = [ends EXCEPT !.write = @ \ {"reader"}]
                /\ UNCHANGED <<pipe, writer>>

ReadFirst == /\ reader.at = "first" /\ pipe # <<>>
             /\ reader' = [reader EXCEPT !.at = "next", !.prev = Head(pipe)]
             /\ pipe' = Tail(pipe)
             /\ UNCHANGED <<ends, writer>>

\* mutant: prev is not brought up to date
ReadForgetful == /\ reader.at = "next" /\ pipe # <<>>
                 /\ reader' = [reader EXCEPT !.gap = Head(pipe) # (reader.prev + 1) % PipeWrap]
                 /\ pipe' = Tail(pipe)
                 /\ UNCHANGED <<ends, writer>>

ReadNext == /\ reader.at = "next" /\ pipe # <<>>
            /\ reader' = [reader EXCEPT !.prev = Head(pipe),
                                        !.gap = Head(pipe) # (reader.prev + 1) % PipeWrap]
            /\ pipe' = Tail(pipe)
            /\ UNCHANGED <<ends, writer>>

\* the end of the file: exit at once if nothing came, else wait for the child
EndOfFile == /\ pipe = <<>> /\ ends.write = {}
             /\ \/ reader.at = "first" /\ reader' = [reader EXCEPT !.at = "dead"] /\ ends' = Without("reader")
                \/ reader.at = "next" /\ reader' = [reader EXCEPT !.at = "wait"] /\ UNCHANGED ends
             /\ UNCHANGED <<pipe, writer>>

Wait == /\ reader.at = "wait" /\ writer.at = "dead"
        /\ reader' = [reader EXCEPT !.at = "dead"]
        /\ ends' = Without("reader")
        /\ UNCHANGED <<pipe, writer>>

ReaderKilled == /\ reader.at \notin {"fork", "dead"}
                /\ reader' = [reader EXCEPT !.at = "dead"]
                /\ ends' = Without("reader")
                /\ UNCHANGED <<pipe, writer>>

-----------------------------------------------------------------------------
Reader == Fork \/ ForkFails \/ ReaderCloses \/ ReadFirst \/ ReadNext \/ EndOfFile \/ Wait
Writer == WriterCloses \/ Write \/ (ends.read = {} /\ WriterDies)
Next == Reader \/ Writer \/ WriterDies \/ ReaderKilled

-----------------------------------------------------------------------------
\* Nothing is lost or reordered on the way, also when cnt wraps: the parent never
\* complains, and what is in the pipe goes on from what it has read (pipe.c:33).
PipeNoGap == /\ ~reader.gap
             /\ reader.at = "next" =>
                  \A i \in 1..Len(pipe) : pipe[i] = (reader.prev + i) % PipeWrap

\* When one of the two is gone the other ends too: the reader at the end of the file,
\* the writer by SIGPIPE.  Each must have closed the end it does not use.
OneGone == reader.at # "fork" /\ (writer.at \in {"none", "dead"} \/ reader.at = "dead")
BothGone == writer.at \in {"none", "dead"} /\ reader.at = "dead"
=============================================================================
