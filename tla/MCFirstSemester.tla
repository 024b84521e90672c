-------------------------- MODULE MCFirstSemester --------------------------
EXTENDS FirstSemester

SymNames == [n \in {"a"} |-> "a_symlink"]
Here == <<"l", "a", "b">>
NamesHere == {<<"a", "b">>, <<"b", "c", "c">>}
=============================================================================
