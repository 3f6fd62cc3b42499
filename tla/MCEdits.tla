------------------------------ MODULE MCEdits ------------------------------
EXTENDS Edits

X == <<"x", 1>>
WideX == <<"x", 2>>
Y == <<"y", 1>>
FileLines == {X, WideX, Y}

Calls == {"read", "one", "two", "create", "commit"}
KindOf == [c \in Calls |-> IF c \in {"one", "two"} THEN "edit" ELSE c]

(* The first edit means its block up to spacing only, and in the file at    *)
(* the start two places overlap for it; the second finds its block exactly, *)
(* and leaves one place to the first. The revision it leaves was read       *)
(* before, when the file had it already.                                    *)
SearchOf == [c \in Calls |-> CASE c = "one" -> <<WideX, WideX>> [] c = "two" -> <<X, Y>>
                               [] OTHER -> <<>>]
ReplaceOf == [c \in Calls |-> CASE c = "one" -> <<Y>> [] c = "two" -> <<Y, Y>>
                                [] c = "create" -> <<X, X, X, Y>> [] OTHER -> <<>>]

Sessions ==
  {{"one", "two"}, {"read", "two"}, {"one", "commit"}, {"create", "read", "commit"}}
Texts == {<<X, X, X, Y>>, NoFile}
EarlierTexts == {<<X, X, X, Y>>, <<X, X, Y, Y>>}

Requests ==
  ({"one", "two"} \X {"look"} \X {Worktree, File})
    \cup ({"read", "one", "two", "create"} \X {"do"} \X {Worktree, File})
    \cup {<<"commit", "do", Worktree>>}
Keys == {Worktree, File}
KeyFor == [r \in Requests |-> r[3]]
Mutations ==
  ({"one", "two", "create"} \X {"do"} \X {File}) \cup {<<"commit", "do", Worktree>>}

(* The search up to spacing finds what it means on every text of up to five *)
(* lines and every block of up to three.                                    *)
Lines == {"x", "y"} \X {1}
ASSUME ScanIsExact(UNION {[1..n -> Lines] : n \in 0..5}, UNION {[1..n -> Lines] : n \in 1..3})
=============================================================================
