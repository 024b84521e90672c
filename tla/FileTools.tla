----------------------------- MODULE FileTools -----------------------------
(***************************************************************************)
(* lab3/Task2/main1.c: fourteen commands on files, packages (directories)  *)
(* and links, called one after the other by their names in one directory.  *)
(* An entry of the directory is nothing, a symbolic link or an inode; an   *)
(* inode is a file or a package.  A command runs alone and ends.           *)
(***************************************************************************)
EXTENDS Integers

CONSTANTS Name,        \* names in the directory, among them "hard_link"
          Ino,         \* bound: inodes
          SymName,     \* a name |-> that name with "_symlink" behind it
          Packed,      \* the names of the files in the package "dir", and of the first file here
          Modes        \* bound: what chmod is asked for, subsets of {"r", "w"}

VARIABLES entry, inode, command

fileVars == <<entry, inode, command>>

Nothing == [kind |-> "none"]
Hard(x) == [kind |-> "hard", ino |-> x]
Soft(n) == [kind |-> "soft", to |-> n]
File(data) == [kind |-> "file", data |-> data, rights |-> {"r", "w"}, names |-> {}]
Package(names) == [kind |-> "package", data |-> FALSE, rights |-> {"r", "w"}, names |-> names]

\* the inode a name leads to, through links, or 0
Walk(e, n) ==
  LET step[d \in 0..3] == IF d = 0 THEN n
                          ELSE LET m == step[d - 1] IN IF e[m].kind = "soft" THEN e[m].to ELSE m
      m == step[3]
  IN  IF e[m].kind = "hard" THEN e[m].ino ELSE 0

Led(n) == Walk(entry, n)
Kind(n) == IF Led(n) = 0 THEN "none" ELSE inode[Led(n)].kind
May(n, right) == Led(n) # 0 /\ right \in inode[Led(n)].rights
Linked(e, x) == \E n \in Name : e[n] = Hard(x)

\* a file with data and a package that has files of that name
Init == /\ entry = [n \in Name |-> IF n \in Packed THEN Hard(1) ELSE IF n = "dir" THEN Hard(2) ELSE Nothing]
        /\ inode = [x \in Ino |-> IF x = 2 THEN Package(Packed) ELSE File(TRUE)]
        /\ command = <<"none", "dir">>

Run(c, n) == command' = <<c, n>>
Fresh == {x \in Ino : ~Linked(entry, x)}
Become(n, what) == entry' = [entry EXCEPT ![n] = what]

\* open with O_CREAT and O_TRUNC: the file is emptied or made, through links too
Target(n) == IF entry[n].kind = "soft" THEN entry[n].to ELSE n

create_file(n) ==
  /\ Run("create_file", n)
  /\ \/ /\ Kind(n) = "file" /\ May(n, "w")
        /\ inode' = [inode EXCEPT ![Led(n)].data = FALSE] /\ UNCHANGED entry
     \/ /\ Kind(n) = "none" /\ entry[Target(n)].kind = "none"
        /\ \E x \in Fresh : Become(Target(n), Hard(x)) /\ inode' = [inode EXCEPT ![x] = File(FALSE)]

create_dir(n) ==
  /\ Run("create_dir", n) /\ entry[n].kind = "none"
  /\ \E x \in Fresh : Become(n, Hard(x)) /\ inode' = [inode EXCEPT ![x] = Package({})]

\* print_info_dir, print_file, infofile_symlink and info_symlink only read

\* remove: a link or a file is unlinked, a package only when it is empty
Removable(n) == entry[n].kind = "soft" \/ (entry[n].kind = "hard" /\ inode[entry[n].ino].names = {})
Empty(ns) == entry' = [n \in Name |-> IF n \in ns /\ Removable(n) THEN Nothing ELSE entry[n]]

\* readdir gives the names in the package, but remove takes them from here; then rmdir,
\* which wants an empty package and no link
remove_dir(n) ==
  /\ Run("remove_dir", n) /\ Kind(n) = "package" /\ May(n, "r")
  /\ LET inside == inode[Led(n)].names IN
       Empty(inside \cup (IF entry[n].kind = "hard" /\ inside = {} THEN {n} ELSE {}))
  /\ UNCHANGED inode

\* called on "." every entry is removed
remove_here == /\ Run("remove_here", "dir")
               /\ Empty(Name)
               /\ UNCHANGED inode

\* only what can be opened for reading is removed
remove_file(n) == /\ Run("remove_file", n) /\ May(n, "r")
                  /\ Empty({n})
                  /\ UNCHANGED inode

create_symlink(n) ==
  /\ Run("create_symlink", n) /\ n \in DOMAIN SymName /\ entry[SymName[n]].kind = "none"
  /\ Become(SymName[n], Soft(n))
  /\ UNCHANGED inode

\* unlink, of whatever has that name
remove_symlink(n) ==
  /\ Run("remove_symlink", n)
  /\ entry[n].kind = "soft" \/ (entry[n].kind = "hard" /\ inode[entry[n].ino].kind = "file")
  /\ Become(n, Nothing)
  /\ UNCHANGED inode

\* link does not follow a link, and refuses a package
create_hardlink(n) ==
  /\ Run("create_hardlink", n) /\ entry["hard_link"].kind = "none"
  /\ entry[n].kind = "soft" \/ (entry[n].kind = "hard" /\ inode[entry[n].ino].kind = "file")
  /\ Become("hard_link", entry[n])
  /\ UNCHANGED inode

\* mutant: the name that was given is not left out
remove_hardlink_all(n) ==
  /\ Run("remove_hardlink", n) /\ Led(n) # 0
  /\ Empty({m \in Name : Led(m) = Led(n)})
  /\ UNCHANGED inode

\* every other name that stat leads to the same inode is unlinked, links to it too; the
\* order of readdir decides whether a link still leads there when its turn comes
remove_hardlink(n) ==
  /\ Run("remove_hardlink", n) /\ Led(n) # 0
  /\ LET same == {m \in Name \ {n} : Led(m) = Led(n) /\ ~(entry[m].kind = "hard" /\ Kind(m) = "package")}
         hard == {m \in same : entry[m].kind = "hard"}
         late == {m \in same \ hard : entry[m].to \in same}
     IN  \E kept \in SUBSET late : entry' = [m \in Name |-> IF m \in same \ kept THEN Nothing ELSE entry[m]]
  /\ UNCHANGED inode

\* stat, remove, and then what stat found is printed
info_about_file(n) == /\ Run("info_about_file", n) /\ Led(n) # 0
                      /\ Empty({n})
                      /\ UNCHANGED inode

change_rights(n) ==
  /\ Run("change_rights", n) /\ Led(n) # 0
  /\ \E rights \in Modes : inode' = [inode EXCEPT ![Led(n)].rights = rights]
  /\ UNCHANGED entry

\* somebody writes into a file
Edit(n) == /\ Run("edit", n) /\ Kind(n) = "file"
           /\ inode' = [inode EXCEPT ![Led(n)].data = TRUE]
           /\ UNCHANGED entry

-----------------------------------------------------------------------------
Next == \/ remove_here
        \/ \E n \in Name :
             \/ create_file(n) \/ create_dir(n) \/ remove_dir(n) \/ remove_file(n)
             \/ create_symlink(n) \/ remove_symlink(n) \/ create_hardlink(n)
             \/ remove_hardlink(n) \/ info_about_file(n) \/ change_rights(n) \/ Edit(n)

-----------------------------------------------------------------------------
HasData(e, nodes, x) == nodes[x].data /\ Linked(e, x)

\* a step empties the inode, or takes its last name
Loses(x) == HasData(entry, inode, x) /\ ~HasData(entry', inode', x)

\* lost to a command that was called to remove it
Asked(c, n, x) == c = "remove_here" \/ (c = "remove_file" /\ Led(n) = x)

\* lost to a command that was called for something else
Unasked(c, n, x) ==
  \/ Led(n) = x /\ c \in {"create_file", "remove_symlink", "info_about_file"}
  \/ Led(n) = x /\ c = "remove_hardlink" /\ entry[n].kind = "soft"
  \/ c = "remove_dir" /\ \E m \in inode[Led(n)].names : entry[m] = Hard(x)

LossIsNamed == \A x \in Ino : Loses(x) => \/ Asked(command'[1], command'[2], x)
                                         \/ Unasked(command'[1], command'[2], x)

\* Where data can go.  Two commands are called to remove files; five more lose data that
\* they were not asked to: create_file_link empties a file that is there (main1.c:10),
\* rm_sym_link unlinks what it is given although it is no link (main1.c:150),
\* info_about_link removes the file before it prints what stat said (main1.c:207),
\* rm_hard_link that is given a symbolic link unlinks the file itself (main1.c:185), and
\* rmdir_link removes the namesakes, here, of the files in the package (main1.c:31).
\* These are all: what goes is the file that the name given leads to, or such a namesake,
\* whatever other names and links there are, and rm_hard_link, which unlinks all other
\* names of a file, does not take the last with them when it is given one of them.
NamedDataLost == [][LossIsNamed]_fileVars
=============================================================================
