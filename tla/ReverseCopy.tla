---------------------------- MODULE ReverseCopy ----------------------------
(***************************************************************************)
(* lab3/main.c copies the regular files of a directory into a new one,     *)
(* names and contents reversed.  A file is the sequence of its bytes, and  *)
(* a byte is known by its place in the file: a copied byte is the place    *)
(* where it was read.  Any call may fail, and while one file is copied     *)
(* others may make it longer or shorter.                                   *)
(***************************************************************************)
EXTENDS Integers, Sequences

CONSTANTS DirName,      \* the last part of the path: a sequence of characters, empty after a slash
          FileNames,    \* the regular files in it
          MaxSize,      \* bound: the largest file
          IntHalf       \* int holds -IntHalf .. IntHalf - 1, 2^31 in the code

ASSUME CopyAssumption == MaxSize \in Nat /\ IntHalf \in Nat \ {0}

\* a name is a string of characters
ASSUME NameAssumption == \A s \in FileNames \cup {DirName} :
                           Len(s) \in Nat /\ s = [k \in 1..Len(s) |-> s[k]]

VARIABLES
  copier,      \* where the program is
  entries,     \* the size of each source file
  unread,      \* the entries readdir has still to give
  current,     \* the file being copied
  file_size, i,   \* of copy_file_reverse
  copies       \* the new directory: name |-> the source, the size it had as an int, the bytes, and an error

copyVars == <<copier, entries, unread, current, file_size, i, copies>>

Mirror(s) == [k \in 1..Len(s) |-> s[Len(s) - k + 1]]

\* mutant: one pair too few
ReverseShort(s) ==
  LET swap[n \in 0..Len(s)] ==
        IF n = 0 THEN s
        ELSE [swap[n - 1] EXCEPT ![n] = swap[n - 1][Len(s) - n + 1], ![Len(s) - n + 1] = swap[n - 1][n]]
  IN  swap[(Len(s) - 1) \div 2]

\* reverse_string swaps in place, from both ends
ReverseString(s) ==
  LET swap[n \in 0..Len(s)] ==
        IF n = 0 THEN s
        ELSE [swap[n - 1] EXCEPT ![n] = swap[n - 1][Len(s) - n + 1], ![Len(s) - n + 1] = swap[n - 1][n]]
  IN  swap[Len(s) \div 2]

\* st_size is a long; int keeps its low bits
ToInt(n) == ((n + IntHalf) % (2 * IntHalf)) - IntHalf

InitCopy == /\ copier = "mkdir"
            /\ entries \in [FileNames -> 0..MaxSize]
            /\ unread = FileNames
            /\ current = DirName
            /\ file_size = 0 /\ i = 0
            /\ copies = [n \in {} |-> n]

\* the new directory must not be there yet: a name that reads the same both ways is
MakeDir == /\ copier = "mkdir" /\ ReverseString(DirName) # DirName
           /\ copier' = "list"
           /\ UNCHANGED <<entries, unread, current, file_size, i, copies>>

\* mkdir or opendir fails
GiveUp == /\ copier \in {"mkdir", "list"} /\ unread = FileNames
          /\ copier' = "failed"
          /\ UNCHANGED <<entries, unread, current, file_size, i, copies>>

Open == /\ copier = "list"
        /\ \E f \in unread : /\ current' = f /\ unread' = unread \ {f}
                             /\ file_size' = ToInt(entries[f])
        /\ copier' = "create"
        /\ UNCHANGED <<entries, i, copies>>

\* stat, open or fstat fails, or it is no regular file
Skip == /\ copier = "list"
        /\ \E f \in unread : unread' = unread \ {f}
        /\ UNCHANGED <<copier, entries, current, file_size, i, copies>>

\* file_size - 1 is undefined for the least int: it wraps to the largest, or the compiler
\* takes the loop not to be entered
BelowSize == IF file_size = -IntHalf THEN {IntHalf - 1, -1} ELSE {file_size - 1}

CreateCopy == /\ copier = "create"
              /\ LET copy == [of |-> current, size |-> file_size, bytes |-> <<>>, broken |-> FALSE] IN
                   copies' = [n \in DOMAIN copies \cup {ReverseString(current)} |->
                                IF n = ReverseString(current) THEN copy ELSE copies[n]]
              /\ i' \in BelowSize
              /\ copier' = "copy"
              /\ UNCHANGED <<entries, unread, current, file_size>>

CreateCopyFails == /\ copier = "create"
                   /\ copier' = "list"
                   /\ UNCHANGED <<entries, unread, current, file_size, i, copies>>

Put(place) == copies' = [copies EXCEPT ![ReverseString(current)].bytes = Append(@, place)]

\* mutant: the loop counts down from file_size - 1, but reads on from where it is
CopyForward == /\ copier = "copy" /\ i >= 0 /\ i < entries[current]
               /\ Put(file_size - i)
               /\ i' = i - 1
               /\ UNCHANGED <<copier, entries, unread, current, file_size>>

\* lseek, read and write of one byte, which is there
CopyByte == /\ copier = "copy" /\ i >= 0 /\ i < entries[current]
            /\ Put(i + 1)
            /\ i' = i - 1
            /\ UNCHANGED <<copier, entries, unread, current, file_size>>

\* read finds the end of the file, or one of the three fails
CopyFails == /\ copier = "copy" /\ i >= 0
             /\ copies' = [copies EXCEPT ![ReverseString(current)].broken = TRUE]
             /\ copier' = "list"
             /\ UNCHANGED <<entries, unread, current, file_size, i>>

CopyEnds == /\ copier = "copy" /\ i < 0
            /\ copier' = "list"
            /\ UNCHANGED <<entries, unread, current, file_size, i, copies>>

Finish == /\ copier = "list" /\ unread = {}
          /\ copier' = "done"
          /\ UNCHANGED <<entries, unread, current, file_size, i, copies>>

\* another program
Resize == /\ copier \notin {"done", "failed"}
          /\ \E f \in FileNames, n \in 0..MaxSize : entries' = [entries EXCEPT ![f] = n]
          /\ UNCHANGED <<copier, unread, current, file_size, i, copies>>

-----------------------------------------------------------------------------
NextCopy == \/ MakeDir \/ GiveUp \/ Open \/ Skip \/ CreateCopy \/ CreateCopyFails
            \/ CopyByte \/ CopyFails \/ CopyEnds \/ Finish \/ Resize

-----------------------------------------------------------------------------
\* what the loop counts down from, and how much of the file that is
Top(d) == IF d.size = -IntHalf THEN IntHalf ELSE d.size
Whole(d) == IF Top(d) > 0 THEN Top(d) ELSE 0

\* Each copy holds, from the last byte seen down, the bytes of its source in reverse:
\* all of them once the program has gone on without an error, else a first part of
\* them.  "All" is what int made of the size (main.c:34, main.c:44): nothing of a file of
\* more than 2^31 bytes and less than 2^32, and of one of 2^31 bytes, where the
\* subtraction overflows, everything or nothing; success is printed all the same
\* (main.c:149).
CopyReversed ==
  \A n \in DOMAIN copies : LET d == copies[n] IN
    /\ Len(d.bytes) <= Whole(d)
    /\ \A k \in 1..Len(d.bytes) : d.bytes[k] = Top(d) + 1 - k
    /\ \/ d.broken \/ (copier = "copy" /\ d.of = current)
       \/ Len(d.bytes) = Whole(d)
       \/ d.size = -IntHalf /\ Len(d.bytes) = 0

\* The name of a copy is the mirror image of its source's name, of even and of odd
\* length, so that no two copies share one (main.c:10).
NamesMirrored == \A n \in DOMAIN copies : n = Mirror(copies[n].of)
=============================================================================
