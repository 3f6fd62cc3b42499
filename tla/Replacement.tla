---------------------------- MODULE Replacement ----------------------------
(* The text an edit makes (internal/tools, SearchAndReplace from the exact  *)
(* match on). A text is a sequence of lines, a line the words it has and    *)
(* the spacing between them; blocks are whole lines.                        *)
EXTENDS Integers, Sequences

Block(text, i, n) == SubSeq(text, i, i + n - 1)

Spliced(text, i, n, block) ==
  SubSeq(text, 1, i - 1) \o block \o SubSeq(text, i + n, Len(text))

(* strings.Fields joined with one space. *)
Normalized(text) == [i \in DOMAIN text |-> text[i][1]]

(* strings.Count: matches that do not overlap, from the left. *)
Count(text, block) ==
  LET n == Len(block)
      from[i \in 1..Len(text) + 1] ==
        IF i + n - 1 > Len(text) THEN 0
        ELSE IF Block(text, i, n) = block THEN 1 + from[i + n] ELSE from[i + 1]
  IN from[1]

Matches(text, block) ==
  {i \in 1..Len(text) - Len(block) + 1 : Block(text, i, Len(block)) = block}

------------------------------------------------------------------------------
(* Knuth, Morris and Pratt over normalized lines. *)

(* From j lines matched, how many still are once the next must be "line". *)
Fallen(block, prefix, j, line) ==
  LET fall[k \in 0..j] ==
        IF k > 0 /\ line # block[k + 1] THEN fall[prefix[k]] ELSE k
  IN fall[j]

Advanced(block, prefix, j, line) ==
  LET k == Fallen(block, prefix, j, line) IN IF line = block[k + 1] THEN k + 1 ELSE k

Prefix(block) ==
  LET prefix[i \in 1..Len(block)] ==
        IF i = 1 THEN 0 ELSE Advanced(block, prefix, prefix[i - 1], block[i])
  IN prefix

(* Where the block starts; the code stops at a second place. *)
Scan(text, block) ==
  LET prefix == Prefix(block)
      scan[i \in 0..Len(text)] ==
        IF i = 0 THEN [matched |-> 0, starts |-> {}]
        ELSE LET j == Advanced(block, prefix, scan[i - 1].matched, text[i]) IN
             IF j = Len(block)
             THEN [matched |-> prefix[j], starts |-> scan[i - 1].starts \cup {i - j + 1}]
             ELSE [matched |-> j, starts |-> scan[i - 1].starts]
  IN scan[Len(text)].starts

------------------------------------------------------------------------------
(* mutant: the first place that fits is taken. *)
EditedFirst(text, search, replace) ==
  {Spliced(text, i, Len(search), replace) :
     i \in {k \in Scan(Normalized(text), Normalized(search)) :
             \A o \in Scan(Normalized(text), Normalized(search)) : k <= o}}

(* The texts the code may write, none when it refuses: the one exact match  *)
(* replaced, or with no exact match the one match up to spacing.            *)
Edited(text, search, replace) ==
  LET n == Len(search)
      count == Count(text, search)
      starts == Scan(Normalized(text), Normalized(search)) IN
  IF count = 1 THEN {Spliced(text, CHOOSE i \in Matches(text, search) :
                                     \A k \in Matches(text, search) : i <= k, n, replace)}
  ELSE IF count = 0 /\ \E i \in starts : starts = {i}
       THEN {Spliced(text, i, n, replace) : i \in starts}
       ELSE {}

(* What "the one match" means, without a word on how it is looked for.      *)
(* Exact matches may overlap, and strings.Count then counts one; matches up *)
(* to spacing may not.                                                      *)
OnlyMatch(text, search, i) ==
  LET exact == Matches(text, search)
      close == Matches(Normalized(text), Normalized(search)) IN
  IF exact # {} THEN i \in exact /\ \A k \in exact : k \in i..i + Len(search) - 1
                ELSE close = {i}

(* The scan finds every place, overlapping ones too (filesystem.go 616-650).*)
ScanIsExact(texts, blocks) ==
  \A t \in texts, b \in blocks :
    Scan(Normalized(t), Normalized(b)) = Matches(Normalized(t), Normalized(b))
=============================================================================
