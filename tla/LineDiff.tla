------------------------------ MODULE LineDiff -------------------------------
(***************************************************************************)
(* context/diff.ts: the edit that is sent in place of a changed file, and  *)
(* what it means to apply it.  A text is a sequence of lines.              *)
(***************************************************************************)
EXTENDS Integers, SequencesExt

CONSTANT ContextLines   \* contextLines, 3 in the code

(* Places in the two texts, their ends included.                           *)
Cells(before, after) == (1 .. Len(before) + 1) \X (1 .. Len(after) + 1)

(* operations: how long a subsequence the rests of the texts have in       *)
(* common.                                                                 *)
Table(before, after) ==
  LET table[c \in Cells(before, after)] ==
        IF c[1] > Len(before) \/ c[2] > Len(after) THEN 0
        ELSE IF before[c[1]] = after[c[2]] THEN table[<<c[1] + 1, c[2] + 1>>] + 1
        ELSE Max({table[<<c[1] + 1, c[2]>>], table[<<c[1], c[2] + 1>>]})
  IN  table

Same(line)    == [kind |-> "same", text |-> line]
Added(line)   == [kind |-> "add", text |-> line]
Removed(line) == [kind |-> "remove", text |-> line]

(* The edit script for the rests of the texts, read off the table.         *)
Scripts(before, after) ==
  LET table == Table(before, after)
      walk[c \in Cells(before, after)] ==
        IF c[1] > Len(before)
        THEN [k \in 1 .. Len(after) + 1 - c[2] |-> Added(after[c[2] - 1 + k])]
        ELSE IF c[2] > Len(after)
        THEN [k \in 1 .. Len(before) + 1 - c[1] |-> Removed(before[c[1] - 1 + k])]
        ELSE IF before[c[1]] = after[c[2]]
        THEN <<Same(before[c[1]])>> \o walk[<<c[1] + 1, c[2] + 1>>]
        ELSE IF table[<<c[1] + 1, c[2]>>] >= table[<<c[1], c[2] + 1>>]
        THEN <<Removed(before[c[1]])>> \o walk[<<c[1] + 1, c[2]>>]
        ELSE <<Added(after[c[2]])>> \o walk[<<c[1], c[2] + 1>>]
  IN  walk

Operations(before, after) == Scripts(before, after)[<<1, 1>>]

-----------------------------------------------------------------------------
(* The i-th smallest member of a set of numbers.                           *)
Nth(S, i) == CHOOSE k \in S : Cardinality({j \in S : j <= k}) = i

CountNot(ops, from, to, kind) ==
  Cardinality({k \in from .. to : ops[k].kind # kind})

(* A hunk over the script from one of its places to another.               *)
Hunk(ops, from, to) ==
  [oldStart |-> 1 + CountNot(ops, 1, from - 1, "add"),
   oldLines |-> CountNot(ops, from, to, "add"),
   lines    |-> SubSeq(ops, from, to)]

Changed(ops) == {k \in DOMAIN ops : ops[k].kind # "same"}

(* Where a group of changes begins: those close together share a hunk.     *)
Firsts(ops) ==
  {k \in Changed(ops) : \A j \in Changed(ops) : j < k => k - j > 2 * ContextLines}

Final(ops, first) ==
  Max({k \in Changed(ops) : \A s \in Firsts(ops) : first < s => k < s})

From(ops, first) == Max({1, first - ContextLines})
To(ops, first)   == Min({Len(ops), Final(ops, first) + ContextLines})

diffLines(before, after) ==
  LET ops == Operations(before, after)
      first(i) == Nth(Firsts(ops), i)
  IN  [i \in 1 .. Cardinality(Firsts(ops)) |->
         Hunk(ops, From(ops, first(i)), To(ops, first(i)))]

-----------------------------------------------------------------------------
(* The reader's side: each hunk replaces the lines it quotes, the last one  *)
(* first, so that the numbers of the others stay true.  An edit of lines   *)
(* that are not there is left alone.                                       *)
LinesNot(ops, kind) ==
  LET kept == {k \in DOMAIN ops : ops[k].kind # kind}
  IN  [i \in 1 .. Cardinality(kept) |-> ops[Nth(kept, i)].text]

Quotes(text, h) ==
  SubSeq(text, h.oldStart, Min({Len(text), h.oldStart + h.oldLines - 1})) = LinesNot(h.lines, "add")

Replaced(text, h) ==
  SubSeq(text, 1, h.oldStart - 1) \o LinesNot(h.lines, "remove")
    \o SubSeq(text, h.oldStart + h.oldLines, Len(text))

Apply(text, hunks) ==
  LET edited[k \in 0 .. Len(hunks)] ==
        IF k = 0 THEN text ELSE Replaced(edited[k - 1], hunks[Len(hunks) + 1 - k])
  IN  IF \A h \in Range(hunks) : Quotes(text, h) THEN edited[Len(hunks)] ELSE text
=============================================================================
