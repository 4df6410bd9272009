---------------------------- MODULE LineDiff_proof -----------------------------
(***************************************************************************)
(* Proof that an edit is exact: applied to the text it was made for, it    *)
(* yields the text it was made from, whatever the two texts are and        *)
(* however many lines of context a hunk carries.                           *)
(*                                                                         *)
(* The prover has no induction over a recursive definition.  In its place  *)
(* stands that a set of numbers has a least member (Least): the least      *)
(* distance, place or step for which a claim fails is shown not to exist.  *)
(* A recursive function is the choice of one that satisfies its equation,  *)
(* so that one exists is shown the same way before it is used.             *)
(***************************************************************************)
EXTENDS LineDiff, SequenceTheorems, FiniteSetTheorems, TLAPS

-----------------------------------------------------------------------------
(* A set of numbers that is not empty has a least one: what follows is   *)
(* shown by looking at the least number for which it fails.                *)
LEMMA Least ==
  ASSUME NEW S \in SUBSET Nat, NEW n \in S
  PROVE  \E k \in S : \A j \in S : k <= j
<1> DEFINE Below == {k \in 0 .. n : \A j \in S : k <= j}
           c == Cardinality(Below)
<1>1. IsFiniteSet(0 .. n) /\ Below \subseteq 0 .. n
  BY FS_Interval
<1>2. IsFiniteSet(Below) /\ c \in Nat
  BY <1>1, FS_Subset, FS_CardinalityType
<1>3. 0 \in Below
  OBVIOUS
<1>4. c # 0
  BY <1>2, <1>3, FS_EmptySet
<1>5. \A k \in Below : 0 .. k \subseteq Below
  OBVIOUS
<1>6. c - 1 \in Below
  <2>1. SUFFICES ASSUME c - 1 \notin Below PROVE FALSE
    OBVIOUS
  <2>2. Below \subseteq 0 .. c - 2
    <3> SUFFICES ASSUME NEW k \in Below, k > c - 2 PROVE FALSE
      BY <1>2, <1>4
    <3>1. c - 1 \in 0 .. k
      BY <1>2, <1>4
    <3> QED
      BY <3>1, <1>5, <2>1
  <2>3. Cardinality(0 .. c - 2) = c - 1 /\ IsFiniteSet(0 .. c - 2)
    <3> HIDE DEF c
    <3>1. c - 2 \in Int /\ 0 \in Int
      BY <1>2
    <3> QED
      BY <3>1, <1>2, <1>4, FS_Interval
  <2> HIDE DEF Below
  <2> QED
    BY <2>2, <2>3, <1>2, <1>4, FS_Subset
<1>7. c \notin Below
  <2>1. SUFFICES ASSUME c \in Below PROVE FALSE
    OBVIOUS
  <2>2. 0 .. c \subseteq Below
    BY <2>1, <1>5
  <2>3. Cardinality(0 .. c) = c + 1
    BY <1>2, FS_Interval
  <2> HIDE DEF Below
  <2> QED
    BY <2>2, <2>3, <1>2, FS_Subset
<1>8. PICK j \in S : ~(c <= j) \/ c > n
  <2>1. c \in 0 .. n \/ c > n
    BY <1>2
  <2> QED
    BY <1>7, <2>1
<1>9. c - 1 \in S
  <2>1. \A i \in S : c - 1 <= i
    BY <1>6
  <2>2. CASE ~(c <= j)
    BY <2>1, <2>2, <1>2, <1>4
  <2>3. CASE c > n
    BY <2>1, <2>3, <1>2, <1>4, <1>6
  <2> QED
    BY <2>2, <2>3, <1>8
<1> QED
  BY <1>9, <1>6
-----------------------------------------------------------------------------
(* The edit script.                                                        *)

(* What walk makes of a cell, given the scripts of the cells behind it.    *)
Walk(before, after, w, c) ==
  IF c[1] > Len(before)
  THEN [k \in 1 .. Len(after) + 1 - c[2] |-> Added(after[c[2] - 1 + k])]
  ELSE IF c[2] > Len(after)
  THEN [k \in 1 .. Len(before) + 1 - c[1] |-> Removed(before[c[1] - 1 + k])]
  ELSE IF before[c[1]] = after[c[2]]
  THEN <<Same(before[c[1]])>> \o w[<<c[1] + 1, c[2] + 1>>]
  ELSE IF Table(before, after)[<<c[1] + 1, c[2]>>] >= Table(before, after)[<<c[1], c[2] + 1>>]
  THEN <<Removed(before[c[1]])>> \o w[<<c[1] + 1, c[2]>>]
  ELSE <<Added(after[c[2]])>> \o w[<<c[1], c[2] + 1>>]

(* How far a cell is from the ends, and the cells no farther than that.    *)
Far(before, after, c) == Len(before) + Len(after) + 2 - c[1] - c[2]
Near(before, after, d) == {c \in Cells(before, after) : Far(before, after, c) <= d}

LEMMA FarType ==
  ASSUME NEW A, NEW before \in Seq(A), NEW after \in Seq(A), NEW c \in Cells(before, after)
  PROVE  /\ Far(before, after, c) \in 0 .. Len(before) + Len(after)
         /\ c[1] \in 1 .. Len(before) + 1 /\ c[2] \in 1 .. Len(after) + 1
         /\ c = <<c[1], c[2]>>
BY DEF Cells, Far

(* Walk looks behind its cell only.                                        *)
LEMMA WalkLocal ==
  ASSUME NEW A, NEW before \in Seq(A), NEW after \in Seq(A), NEW c \in Cells(before, after),
         NEW g, NEW h,
         \A e \in Near(before, after, Far(before, after, c) - 1) : g[e] = h[e]
  PROVE  Walk(before, after, g, c) = Walk(before, after, h, c)
<1> DEFINE n == Len(before)
           m == Len(after)
<1>1. n \in Nat /\ m \in Nat /\ c[1] \in 1 .. n + 1 /\ c[2] \in 1 .. m + 1
  BY FarType
<1> DEFINE R == Near(before, after, Far(before, after, c) - 1)
<1>2. ASSUME c[1] <= n, c[2] <= m
      PROVE  <<c[1] + 1, c[2] + 1>> \in R /\ <<c[1] + 1, c[2]>> \in R /\ <<c[1], c[2] + 1>> \in R
  <2> DEFINE i == c[1]
             j == c[2]
             p == Far(before, after, <<i + 1, j + 1>>)
             q == Far(before, after, <<i + 1, j>>)
             r == Far(before, after, <<i, j + 1>>)
             s == Far(before, after, c)
  <2>1. i \in 1 .. n /\ i + 1 \in 1 .. n + 1 /\ j \in 1 .. m /\ j + 1 \in 1 .. m + 1
    BY <1>1, <1>2
  <2>2. \A e \in Cells(before, after) :
          Far(before, after, e) <= Far(before, after, c) - 1 => e \in R
    BY DEF Near
  <2> HIDE DEF R
  <2>3. /\ <<i + 1, j + 1>> \in Cells(before, after)
        /\ <<i + 1, j>> \in Cells(before, after)
        /\ <<i, j + 1>> \in Cells(before, after)
    BY <2>1, <1>1 DEF Cells
  <2>4. /\ p = n + m + 2 - (i + 1) - (j + 1)
        /\ q = n + m + 2 - (i + 1) - j
        /\ r = n + m + 2 - i - (j + 1)
        /\ s = n + m + 2 - i - j
    BY <2>1, <1>1 DEF Far
  <2> HIDE DEF n, m, i, j, p, q, r, s
  <2>5. p <= s - 1 /\ q <= s - 1 /\ r <= s - 1
    BY <2>1, <1>1, <2>4
  <2> QED
    BY <2>2, <2>3, <2>5, Zenon DEF i, j, p, q, r, s
<1> HIDE DEF R
<1>3. CASE c[1] > n \/ c[2] > m
  BY <1>3, Zenon DEF Walk
<1>4. CASE c[1] <= n /\ c[2] <= m
  <2>1. /\ g[<<c[1] + 1, c[2] + 1>>] = h[<<c[1] + 1, c[2] + 1>>]
        /\ g[<<c[1] + 1, c[2]>>] = h[<<c[1] + 1, c[2]>>]
        /\ g[<<c[1], c[2] + 1>>] = h[<<c[1], c[2] + 1>>]
    BY <1>4, <1>2 DEF R
  <2> QED
    BY <2>1, Zenon DEF Walk
<1> QED
  BY <1>1, <1>3, <1>4

(* Scripts for the cells near the ends, and so for all, fit together.      *)
LEMMA WalkExists ==
  ASSUME NEW A, NEW before \in Seq(A), NEW after \in Seq(A)
  PROVE  \A d \in Nat :
           \E g : g = [c \in Near(before, after, d) |-> Walk(before, after, g, c)]
<1> DEFINE G(d) == \E g : g = [c \in Near(before, after, d) |-> Walk(before, after, g, c)]
           B == {d \in Nat : ~G(d)}
<1> SUFFICES ASSUME NEW f \in B PROVE FALSE
  OBVIOUS
<1>1. PICK d \in B : \A j \in B : d <= j
  <2> HIDE DEF B
  <2>1. B \in SUBSET Nat
    BY DEF B
  <2> QED
    BY <2>1, Least
<1>2. d \in Nat
  OBVIOUS
<1> DEFINE N(k) == Near(before, after, k)
           g0 == CHOOSE g : g = [c \in N(d - 1) |-> Walk(before, after, g, c)]
<1>3. g0 = [c \in N(d - 1) |-> Walk(before, after, g0, c)]
  <2>1. CASE d = 0
    <3>1. N(d - 1) = {}
      BY <2>1, FarType DEF Near
    <3> DEFINE e == [c \in N(d - 1) |-> 0]
    <3>2. \A w : [c \in N(d - 1) |-> Walk(before, after, w, c)] = e
      BY <3>1
    <3>3. e = [c \in N(d - 1) |-> Walk(before, after, e, c)]
      BY <3>2
    <3> QED
      BY <3>3, Zenon
  <2>2. CASE d # 0
    <3>1. d - 1 \in Nat /\ d - 1 \notin B
      BY <2>2, <1>1, <1>2
    <3>2. G(d - 1)
      BY <3>1
    <3> QED
      BY <3>2, Zenon
  <2> QED
    BY <2>1, <2>2
<1> HIDE DEF g0
<1> DEFINE h == [c \in N(d) |-> IF c \in N(d - 1) THEN g0[c] ELSE Walk(before, after, g0, c)]
<1>4. ASSUME NEW c \in N(d)
      PROVE  h[c] = Walk(before, after, h, c)
  <2>1. c \in Cells(before, after) /\ Far(before, after, c) \in Nat
        /\ Far(before, after, c) <= d
    BY FarType DEF Near
  <2>2. \A e \in Near(before, after, Far(before, after, c) - 1) : e \in N(d) /\ e \in N(d - 1)
    BY <2>1, <1>2, FarType DEF Near
  <2>3. \A e \in Near(before, after, Far(before, after, c) - 1) : g0[e] = h[e]
    BY <2>2
  <2>4. Walk(before, after, g0, c) = Walk(before, after, h, c)
    <3> HIDE DEF h
    <3> QED
      BY <2>1, <2>3, WalkLocal
  <2>5. h[c] = Walk(before, after, g0, c)
    BY <1>3
  <2> QED
    BY <2>4, <2>5
<1>5. h = [c \in N(d) |-> Walk(before, after, h, c)]
  <2>1. h = [c \in N(d) |-> h[c]]
    OBVIOUS
  <2> HIDE DEF h
  <2> QED
    BY <2>1, <1>4
<1>6. G(d)
  <2> HIDE DEF h
  <2> QED
    BY <1>5
<1> QED
  BY <1>6

LEMMA ScriptsWalk ==
  ASSUME NEW A, NEW before \in Seq(A), NEW after \in Seq(A), NEW c \in Cells(before, after)
  PROVE  Scripts(before, after)[c] = Walk(before, after, Scripts(before, after), c)
<1>1. Scripts(before, after) =
        CHOOSE w : w = [e \in Cells(before, after) |-> Walk(before, after, w, e)]
  BY Zenon DEF Scripts, Walk
<1>2. Near(before, after, Len(before) + Len(after)) = Cells(before, after)
  BY FarType DEF Near
<1>3. Len(before) + Len(after) \in Nat
  OBVIOUS
<1>4. \E g : g = [e \in Cells(before, after) |-> Walk(before, after, g, e)]
  BY <1>2, <1>3, WalkExists
<1>5. Scripts(before, after) =
        [e \in Cells(before, after) |-> Walk(before, after, Scripts(before, after), e)]
  BY <1>1, <1>4, Zenon
<1> DEFINE w == Scripts(before, after)
<1> HIDE DEF w
<1> QED
  BY <1>5 DEF w
(* A script leads through both texts: before its k-th operation, o[k] and  *)
(* a[k] are the lines that come next.                                      *)
Ops(A) == [kind : {"same", "add", "remove"}, text : A]

Leads(before, after, ops, o, a) ==
  /\ o \in [1 .. Len(ops) + 1 -> 1 .. Len(before) + 1]
  /\ a \in [1 .. Len(ops) + 1 -> 1 .. Len(after) + 1]
  /\ o[Len(ops) + 1] = Len(before) + 1 /\ a[Len(ops) + 1] = Len(after) + 1
  /\ \A k \in 1 .. Len(ops) :
       /\ o[k + 1] = IF ops[k].kind = "add" THEN o[k] ELSE o[k] + 1
       /\ a[k + 1] = IF ops[k].kind = "remove" THEN a[k] ELSE a[k] + 1
       /\ ops[k].kind # "add" => ops[k].text = before[o[k]]
       /\ ops[k].kind # "remove" => ops[k].text = after[a[k]]

LeadsFrom(before, after, ops, i, j) ==
  \E o, a : Leads(before, after, ops, o, a) /\ o[1] = i /\ a[1] = j

LEMMA OnlyAdds ==
  ASSUME NEW A, NEW before \in Seq(A), NEW after \in Seq(A), NEW j \in 1 .. Len(after) + 1,
         NEW s, s = [k \in 1 .. Len(after) + 1 - j |-> Added(after[j - 1 + k])]
  PROVE  s \in Seq(Ops(A)) /\ LeadsFrom(before, after, s, Len(before) + 1, j)
<1> DEFINE n == Len(before)
           m == Len(after)
           o == [k \in 1 .. (m + 1 - j) + 1 |-> n + 1]
           a == [k \in 1 .. (m + 1 - j) + 1 |-> j - 1 + k]
<1>1. n \in Nat /\ m \in Nat /\ m + 1 - j \in Nat
  OBVIOUS
<1>2. \A k \in 1 .. m + 1 - j : j - 1 + k \in 1 .. m /\ after[j - 1 + k] \in A
  OBVIOUS
<1>3. \A k \in 1 .. m + 1 - j : Added(after[j - 1 + k]) \in Ops(A)
  BY <1>2 DEF Added, Ops
<1>4. s \in Seq(Ops(A)) /\ Len(s) = m + 1 - j
  <2> HIDE DEF m
  <2> QED
    BY <1>1, <1>3 DEF m
<1>5. \A k \in 1 .. Len(s) : s[k].kind = "add" /\ s[k].text = after[j - 1 + k]
  BY <1>4 DEF Added
<1>6. o \in [1 .. Len(s) + 1 -> 1 .. n + 1] /\ a \in [1 .. Len(s) + 1 -> 1 .. m + 1]
  BY <1>1, <1>4
<1>7. o[Len(s) + 1] = n + 1 /\ a[Len(s) + 1] = m + 1 /\ o[1] = n + 1 /\ a[1] = j
  BY <1>1, <1>4
<1>8. \A k \in 1 .. Len(s) : o[k + 1] = o[k] /\ a[k + 1] = a[k] + 1 /\ a[k] = j - 1 + k
  BY <1>1, <1>4
<1>9. Leads(before, after, s, o, a)
  <2> HIDE DEF o, a
  <2> QED
    BY <1>5, <1>6, <1>7, <1>8, ZenonT(40) DEF Leads
<1> HIDE DEF o, a
<1> QED
  BY <1>4, <1>7, <1>9 DEF LeadsFrom

LEMMA OnlyRemoves ==
  ASSUME NEW A, NEW before \in Seq(A), NEW after \in Seq(A), NEW i \in 1 .. Len(before) + 1,
         NEW s, s = [k \in 1 .. Len(before) + 1 - i |-> Removed(before[i - 1 + k])]
  PROVE  s \in Seq(Ops(A)) /\ LeadsFrom(before, after, s, i, Len(after) + 1)
<1> DEFINE n == Len(before)
           m == Len(after)
           o == [k \in 1 .. (n + 1 - i) + 1 |-> i - 1 + k]
           a == [k \in 1 .. (n + 1 - i) + 1 |-> m + 1]
<1>1. n \in Nat /\ m \in Nat /\ n + 1 - i \in Nat
  OBVIOUS
<1>2. \A k \in 1 .. n + 1 - i : i - 1 + k \in 1 .. n /\ before[i - 1 + k] \in A
  OBVIOUS
<1>3. \A k \in 1 .. n + 1 - i : Removed(before[i - 1 + k]) \in Ops(A)
  BY <1>2 DEF Removed, Ops
<1>4. s \in Seq(Ops(A)) /\ Len(s) = n + 1 - i
  <2> HIDE DEF n
  <2> QED
    BY <1>1, <1>3 DEF n
<1>5. \A k \in 1 .. Len(s) : s[k].kind = "remove" /\ s[k].text = before[i - 1 + k]
  BY <1>4 DEF Removed
<1>6. o \in [1 .. Len(s) + 1 -> 1 .. n + 1] /\ a \in [1 .. Len(s) + 1 -> 1 .. m + 1]
  BY <1>1, <1>4
<1>7. o[Len(s) + 1] = n + 1 /\ a[Len(s) + 1] = m + 1 /\ o[1] = i /\ a[1] = m + 1
  BY <1>1, <1>4
<1>8. \A k \in 1 .. Len(s) : o[k + 1] = o[k] + 1 /\ a[k + 1] = a[k] /\ o[k] = i - 1 + k
  BY <1>1, <1>4
<1>9. Leads(before, after, s, o, a)
  <2> HIDE DEF o, a
  <2> QED
    BY <1>5, <1>6, <1>7, <1>8, ZenonT(40) DEF Leads
<1> HIDE DEF o, a
<1> QED
  BY <1>4, <1>7, <1>9 DEF LeadsFrom

(* An operation in front of a script.                                      *)
LEMMA OneMore ==
  ASSUME NEW A, NEW before \in Seq(A), NEW after \in Seq(A),
         NEW i \in 1 .. Len(before) + 1, NEW j \in 1 .. Len(after) + 1,
         NEW op \in Ops(A), NEW s \in Seq(Ops(A)),
         op.kind # "add" => op.text = before[i],
         op.kind # "remove" => op.text = after[j],
         LeadsFrom(before, after, s, IF op.kind = "add" THEN i ELSE i + 1,
                                     IF op.kind = "remove" THEN j ELSE j + 1)
  PROVE  <<op>> \o s \in Seq(Ops(A)) /\ LeadsFrom(before, after, <<op>> \o s, i, j)
<1> DEFINE t == <<op>> \o s
<1>1. PICK o, a : /\ Leads(before, after, s, o, a)
                  /\ o[1] = IF op.kind = "add" THEN i ELSE i + 1
                  /\ a[1] = IF op.kind = "remove" THEN j ELSE j + 1
  BY DEF LeadsFrom
<1>2. /\ Len(s) \in Nat
      /\ t \in Seq(Ops(A)) /\ Len(t) = Len(s) + 1 /\ t[1] = op
      /\ \A k \in 2 .. Len(t) : t[k] = s[k - 1]
  <2>1. <<op>> \in Seq(Ops(A)) /\ Len(<<op>>) = 1 /\ <<op>>[1] = op
    OBVIOUS
  <2>2. /\ t \in Seq(Ops(A)) /\ Len(t) = 1 + Len(s)
        /\ \A k \in 1 .. Len(t) : t[k] = IF k <= 1 THEN <<op>>[k] ELSE s[k - 1]
    <3> DEFINE q == <<op>>
    <3> HIDE DEF q
    <3>1. q \in Seq(Ops(A)) /\ Len(q) = 1
      BY <2>1 DEF q
    <3>2. q \o s \in Seq(Ops(A)) /\ Len(q \o s) = 1 + Len(s)
          /\ \A k \in 1 .. 1 + Len(s) : (q \o s)[k] = IF k <= 1 THEN q[k] ELSE s[k - 1]
      <4> DEFINE S == Ops(A)
      <4> HIDE DEF S
      <4>1. q \in Seq(S) /\ s \in Seq(S)
        BY <3>1 DEF S
      <4>2. /\ q \o s \in Seq(S) /\ Len(q \o s) = Len(q) + Len(s)
            /\ \A k \in 1 .. Len(q) + Len(s) :
                 (q \o s)[k] = IF k <= Len(q) THEN q[k] ELSE s[k - Len(q)]
        BY <4>1, ConcatProperties
      <4> QED
        BY <3>1, <4>2 DEF S
    <3> QED
      BY <3>2 DEF q
  <2> HIDE DEF t
  <2> QED
    BY <2>1, <2>2
<1> HIDE DEF t
<1> DEFINE p == [k \in 1 .. Len(t) + 1 |-> IF k = 1 THEN i ELSE o[k - 1]]
           b == [k \in 1 .. Len(t) + 1 |-> IF k = 1 THEN j ELSE a[k - 1]]
<1>3. /\ o \in [1 .. Len(s) + 1 -> 1 .. Len(before) + 1]
      /\ a \in [1 .. Len(s) + 1 -> 1 .. Len(after) + 1]
      /\ o[Len(s) + 1] = Len(before) + 1 /\ a[Len(s) + 1] = Len(after) + 1
  BY <1>1 DEF Leads
<1>4. /\ p \in [1 .. Len(t) + 1 -> 1 .. Len(before) + 1]
      /\ b \in [1 .. Len(t) + 1 -> 1 .. Len(after) + 1]
  <2>1. \A k \in 1 .. Len(t) + 1 : k # 1 => k - 1 \in 1 .. Len(s) + 1
    BY <1>2
  <2>2. \A k \in 1 .. Len(t) + 1 : k # 1 => /\ o[k - 1] \in 1 .. Len(before) + 1
                                           /\ a[k - 1] \in 1 .. Len(after) + 1
    BY <2>1, <1>3
  <2> QED
    BY <2>2
<1>5. /\ p[Len(t) + 1] = Len(before) + 1 /\ b[Len(t) + 1] = Len(after) + 1
      /\ p[1] = i /\ b[1] = j
      /\ p[2] = o[1] /\ b[2] = a[1]
      /\ \A k \in 2 .. Len(t) : p[k + 1] = o[k] /\ b[k + 1] = a[k] /\ p[k] = o[k - 1] /\ b[k] = a[k - 1]
  BY <1>2, <1>3
<1> HIDE DEF p, b
<1>6. ASSUME NEW k \in 1 .. Len(t)
      PROVE  /\ p[k + 1] = IF t[k].kind = "add" THEN p[k] ELSE p[k] + 1
             /\ b[k + 1] = IF t[k].kind = "remove" THEN b[k] ELSE b[k] + 1
             /\ t[k].kind # "add" => t[k].text = before[p[k]]
             /\ t[k].kind # "remove" => t[k].text = after[b[k]]
  <2>1. CASE k = 1
    BY <2>1, <1>1, <1>2, <1>5
  <2>2. CASE k # 1
    <3>1. k \in 2 .. Len(t) /\ k - 1 \in 1 .. Len(s) /\ (k - 1) + 1 = k
      BY <2>2, <1>2
    <3>2. /\ o[k] = IF s[k - 1].kind = "add" THEN o[k - 1] ELSE o[k - 1] + 1
          /\ a[k] = IF s[k - 1].kind = "remove" THEN a[k - 1] ELSE a[k - 1] + 1
          /\ s[k - 1].kind # "add" => s[k - 1].text = before[o[k - 1]]
          /\ s[k - 1].kind # "remove" => s[k - 1].text = after[a[k - 1]]
      BY <3>1, <1>1 DEF Leads
    <3>3. t[k] = s[k - 1] /\ p[k + 1] = o[k] /\ b[k + 1] = a[k] /\ p[k] = o[k - 1] /\ b[k] = a[k - 1]
      BY <3>1, <1>2, <1>5
    <3> QED
      BY <3>2, <3>3
  <2> QED
    BY <2>1, <2>2
<1>7. Leads(before, after, t, p, b)
  BY <1>4, <1>5, <1>6 DEF Leads
<1> QED
  BY <1>2, <1>5, <1>7 DEF LeadsFrom, t
(* Every script that walk finds leads from its cell to both ends.          *)
LEMMA ScriptsLead ==
  ASSUME NEW A, NEW before \in Seq(A), NEW after \in Seq(A)
  PROVE  \A c \in Cells(before, after) :
           /\ Scripts(before, after)[c] \in Seq(Ops(A))
           /\ LeadsFrom(before, after, Scripts(before, after)[c], c[1], c[2])
<1> DEFINE n == Len(before)
           m == Len(after)
           w == Scripts(before, after)
           Good(c) == w[c] \in Seq(Ops(A)) /\ LeadsFrom(before, after, w[c], c[1], c[2])
           F(c) == Far(before, after, c)
           B == {F(c) : c \in {e \in Cells(before, after) : ~Good(e)}}
<1> SUFFICES ASSUME NEW f \in B PROVE FALSE
  OBVIOUS
<1>1. PICK d \in B : \A j \in B : d <= j
  <2>1. B \in SUBSET Nat
    BY FarType
  <2> HIDE DEF B
  <2> QED
    BY <2>1, Least
<1>2. PICK c \in Cells(before, after) : d = F(c) /\ ~Good(c)
  OBVIOUS
<1>3. /\ n \in Nat /\ m \in Nat /\ c[1] \in 1 .. n + 1 /\ c[2] \in 1 .. m + 1
      /\ F(c) \in Nat
  BY FarType
<1>4. \A e \in Cells(before, after) : F(e) < F(c) => Good(e)
  <2> SUFFICES ASSUME NEW e \in Cells(before, after), F(e) < F(c), ~Good(e) PROVE FALSE
    OBVIOUS
  <2>1. F(e) \in B /\ F(e) \in Nat
    BY FarType
  <2> HIDE DEF F, B, Good
  <2> QED
    BY <2>1, <1>1, <1>2, <1>3
<1>5. w[c] = Walk(before, after, w, c)
  BY ScriptsWalk
<1> DEFINE i == c[1]
           j == c[2]
<1>6. CASE i > n
  <2>1. w[c] = [k \in 1 .. m + 1 - j |-> Added(after[j - 1 + k])]
    BY <1>5, <1>6, Zenon DEF Walk
  <2>2. i = n + 1
    BY <1>3, <1>6
  <2> HIDE DEF w
  <2>3. w[c] \in Seq(Ops(A)) /\ LeadsFrom(before, after, w[c], n + 1, j)
    BY <2>1, <1>3, OnlyAdds
  <2> QED
    BY <2>2, <2>3, <1>2
<1>7. CASE ~(i > n) /\ j > m
  <2>1. w[c] = [k \in 1 .. n + 1 - i |-> Removed(before[i - 1 + k])]
    BY <1>5, <1>7, Zenon DEF Walk
  <2>2. j = m + 1
    BY <1>3, <1>7
  <2> HIDE DEF w
  <2>3. w[c] \in Seq(Ops(A)) /\ LeadsFrom(before, after, w[c], i, m + 1)
    BY <2>1, <1>3, OnlyRemoves
  <2> QED
    BY <2>2, <2>3, <1>2
<1>8. CASE ~(i > n) /\ ~(j > m)
  <2>1. i \in 1 .. n /\ i + 1 \in 1 .. n + 1 /\ j \in 1 .. m /\ j + 1 \in 1 .. m + 1
    BY <1>3, <1>8
  <2>2. before[i] \in A /\ after[j] \in A
    BY <2>1
  <2>3. /\ <<i + 1, j + 1>> \in Cells(before, after)
        /\ <<i + 1, j>> \in Cells(before, after)
        /\ <<i, j + 1>> \in Cells(before, after)
    BY <2>1, <1>3 DEF Cells
  <2>4. /\ F(<<i + 1, j + 1>>) < F(c) /\ F(<<i + 1, j>>) < F(c) /\ F(<<i, j + 1>>) < F(c)
    <3> DEFINE p == F(<<i + 1, j + 1>>)
               q == F(<<i + 1, j>>)
               r == F(<<i, j + 1>>)
               s == F(c)
    <3>1. /\ p = n + m + 2 - (i + 1) - (j + 1)
          /\ q = n + m + 2 - (i + 1) - j
          /\ r = n + m + 2 - i - (j + 1)
          /\ s = n + m + 2 - i - j
      BY <2>1, <1>3 DEF Far
    <3> HIDE DEF n, m, i, j, p, q, r, s
    <3>2. p < s /\ q < s /\ r < s
      BY <2>1, <1>3, <3>1
    <3> QED
      BY <3>2, Zenon DEF i, j, p, q, r, s
  <2>5. /\ w[<<i + 1, j + 1>>] \in Seq(Ops(A))
        /\ LeadsFrom(before, after, w[<<i + 1, j + 1>>], i + 1, j + 1)
    <3> HIDE DEF w, F
    <3> QED
      BY <2>3, <2>4, <1>4
  <2>6. /\ w[<<i + 1, j>>] \in Seq(Ops(A))
        /\ LeadsFrom(before, after, w[<<i + 1, j>>], i + 1, j)
    <3> HIDE DEF w, F
    <3> QED
      BY <2>3, <2>4, <1>4
  <2>7. /\ w[<<i, j + 1>>] \in Seq(Ops(A))
        /\ LeadsFrom(before, after, w[<<i, j + 1>>], i, j + 1)
    <3> HIDE DEF w, F
    <3> QED
      BY <2>3, <2>4, <1>4
  <2>8. \E op \in Ops(A), s \in Seq(Ops(A)) :
          /\ w[c] = <<op>> \o s
          /\ op.kind # "add" => op.text = before[i]
          /\ op.kind # "remove" => op.text = after[j]
          /\ LeadsFrom(before, after, s, IF op.kind = "add" THEN i ELSE i + 1,
                                         IF op.kind = "remove" THEN j ELSE j + 1)
    <3>1. /\ Same(before[i]) \in Ops(A) /\ Same(before[i]).kind = "same"
          /\ Same(before[i]).text = before[i]
      BY <2>2 DEF Ops, Same
    <3>2. /\ Removed(before[i]) \in Ops(A) /\ Removed(before[i]).kind = "remove"
          /\ Removed(before[i]).text = before[i]
      BY <2>2 DEF Ops, Removed
    <3>3. /\ Added(after[j]) \in Ops(A) /\ Added(after[j]).kind = "add"
          /\ Added(after[j]).text = after[j]
      BY <2>2 DEF Ops, Added
    <3>4. CASE before[i] = after[j]
      <4>1. w[c] = <<Same(before[i])>> \o w[<<i + 1, j + 1>>]
        BY <1>5, <1>8, <3>4, Zenon DEF Walk
      <4> HIDE DEF w, i, j
      <4> QED
        BY <4>1, <3>1, <3>4, <2>5
    <3>5. CASE before[i] # after[j]
      <4>1. \/ w[c] = <<Removed(before[i])>> \o w[<<i + 1, j>>]
            \/ w[c] = <<Added(after[j])>> \o w[<<i, j + 1>>]
        BY <1>5, <1>8, <3>5, Zenon DEF Walk
      <4> HIDE DEF w, i, j
      <4> QED
        BY <4>1, <3>2, <3>3, <2>6, <2>7
    <3> QED
      BY <3>4, <3>5
  <2> HIDE DEF w
  <2>9. PICK op \in Ops(A), s \in Seq(Ops(A)) :
          /\ w[c] = <<op>> \o s
          /\ op.kind # "add" => op.text = before[i]
          /\ op.kind # "remove" => op.text = after[j]
          /\ LeadsFrom(before, after, s, IF op.kind = "add" THEN i ELSE i + 1,
                                         IF op.kind = "remove" THEN j ELSE j + 1)
    BY <2>8
  <2> HIDE DEF i, j
  <2>10. <<op>> \o s \in Seq(Ops(A)) /\ LeadsFrom(before, after, <<op>> \o s, i, j)
    BY <2>1, <2>9, <1>3, OneMore DEF i, j
  <2> QED
    BY <2>9, <2>10, <1>2 DEF i, j
<1> QED
  BY <1>6, <1>7, <1>8

LEMMA OperationsLead ==
  ASSUME NEW A, NEW before \in Seq(A), NEW after \in Seq(A)
  PROVE  /\ Operations(before, after) \in Seq(Ops(A))
         /\ LeadsFrom(before, after, Operations(before, after), 1, 1)
<1>1. <<1, 1>> \in Cells(before, after)
  BY DEF Cells
<1> QED
  BY <1>1, ScriptsLead DEF Operations
-----------------------------------------------------------------------------
(* Counting.                                                               *)

(* A set of numbers in order: its i-th member has i members up to it.      *)
Upto(S, k) == {j \in S : j <= k}

LEMMA OneStepUp ==
  ASSUME NEW N \in Nat, NEW S \in SUBSET (1 .. N), NEW k \in Nat
  PROVE  /\ IsFiniteSet(Upto(S, k)) /\ Cardinality(Upto(S, k)) \in Nat
         /\ Cardinality(Upto(S, k + 1)) =
              Cardinality(Upto(S, k)) + (IF k + 1 \in S THEN 1 ELSE 0)
<1>1. IsFiniteSet(1 .. N) /\ Upto(S, k) \subseteq 1 .. N
  <2>1. 1 \in Int /\ N \in Int
    OBVIOUS
  <2>2. IsFiniteSet(1 .. N)
    BY <2>1, FS_Interval
  <2> QED
    BY <2>2 DEF Upto
<1>2. IsFiniteSet(Upto(S, k)) /\ Cardinality(Upto(S, k)) \in Nat
  BY <1>1, FS_Subset, FS_CardinalityType
<1> DEFINE m == k + 1
<1>5. /\ \A j \in S : j \in Nat /\ (j <= m <=> j <= k \/ j = m)
       /\ ~(m <= k)
  OBVIOUS
<1>3. CASE k + 1 \in S
  <2>1. Upto(S, k + 1) = Upto(S, k) \cup {k + 1} /\ k + 1 \notin Upto(S, k)
    BY <1>3, <1>5, Zenon DEF Upto
  <2> QED
    BY <2>1, <1>2, <1>3, FS_AddElement
<1>4. CASE k + 1 \notin S
  <2>1. Upto(S, k + 1) = Upto(S, k)
    BY <1>4, <1>5, Zenon DEF Upto
  <2> QED
    BY <2>1, <1>2, <1>4
<1> QED
  BY <1>2, <1>3, <1>4

LEMMA NthFacts ==
  ASSUME NEW N \in Nat, NEW S \in SUBSET (1 .. N), NEW i \in 1 .. Cardinality(S)
  PROVE  /\ Nth(S, i) \in S /\ Cardinality(Upto(S, Nth(S, i))) = i
         /\ IsFiniteSet(S) /\ Cardinality(S) \in Nat
<1>1. IsFiniteSet(S) /\ Cardinality(S) \in Nat
  <2>1. 1 \in Int /\ N \in Int
    OBVIOUS
  <2>2. IsFiniteSet(1 .. N)
    BY <2>1, FS_Interval
  <2> QED
    BY <2>2, FS_Subset, FS_CardinalityType
<1> DEFINE C(k) == Cardinality(Upto(S, k))
           K == {k \in Nat : C(k) >= i}
<1>2. Upto(S, N) = S
  <2>1. \A j \in S : j <= N
    OBVIOUS
  <2> QED
    BY <2>1, Zenon DEF Upto
<1>3. N \in K
  BY <1>1, <1>2
<1>4. PICK k \in K : \A j \in K : k <= j
  <2>1. K \in SUBSET Nat
    OBVIOUS
  <2> HIDE DEF K
  <2> QED
    BY <2>1, <1>3, Least
<1>5. k \in Nat /\ C(k) >= i
  OBVIOUS
<1>6. k # 0
  <2>1. Upto(S, 0) = {}
    <3>1. \A j \in S : ~(j <= 0)
      OBVIOUS
    <3> QED
      BY <3>1, Zenon DEF Upto
  <2>2. C(0) = 0
    BY <2>1, FS_EmptySet
  <2> HIDE DEF C
  <2> QED
    BY <2>2, <1>1, <1>5
<1>7. k - 1 \in Nat /\ k - 1 \notin K
  <2> HIDE DEF K
  <2> QED
    BY <1>4, <1>5, <1>6
<1>8. ~(C(k - 1) >= i)
  BY <1>7
<1>9. /\ C(k) = C(k - 1) + (IF k \in S THEN 1 ELSE 0)
      /\ C(k - 1) \in Nat
  <2>1. (k - 1) + 1 = k
    BY <1>5
  <2>2. k - 1 \in Nat
    BY <1>7
  <2> DEFINE h == k - 1
  <2> HIDE DEF h
  <2>3. h \in Nat /\ h + 1 = k
    BY <2>1, <2>2 DEF h
  <2>4. /\ Cardinality(Upto(S, h + 1)) = Cardinality(Upto(S, h)) + (IF h + 1 \in S THEN 1 ELSE 0)
        /\ Cardinality(Upto(S, h)) \in Nat
    BY <2>3, OneStepUp
  <2> QED
    BY <2>3, <2>4 DEF h
<1> HIDE DEF C, K
<1>10. k \in S /\ C(k) = i
  BY <1>1, <1>5, <1>8, <1>9
<1>11. \E e \in S : Cardinality({j \in S : j <= e}) = i
  BY <1>10 DEF C, Upto
<1>12. Nth(S, i) \in S /\ Cardinality({j \in S : j <= Nth(S, i)}) = i
  BY <1>11, Zenon DEF Nth
<1> QED
  BY <1>1, <1>12 DEF Upto

(* A text along a script: before its k-th operation, p[k] is its next line.*)
Follows(text, ops, kind, p) ==
  /\ p \in [1 .. Len(ops) + 1 -> 1 .. Len(text) + 1]
  /\ \A k \in 1 .. Len(ops) :
       /\ p[k + 1] = IF ops[k].kind = kind THEN p[k] ELSE p[k] + 1
       /\ ops[k].kind # kind => ops[k].text = text[p[k]]

LEMMA CountLines ==
  ASSUME NEW A, NEW text \in Seq(A), NEW B, NEW ops \in Seq(B), NEW kind, NEW p,
         Follows(text, ops, kind, p), NEW f \in 1 .. Len(ops) + 1
  PROVE  \A t \in f - 1 .. Len(ops) : CountNot(ops, f, t, kind) = p[t + 1] - p[f]
<1> DEFINE C(t) == CountNot(ops, f, t, kind)
           Bad == {t \in f - 1 .. Len(ops) : C(t) # p[t + 1] - p[f]}
<1> SUFFICES ASSUME NEW t0 \in Bad PROVE FALSE
  OBVIOUS
<1>1. /\ Len(ops) \in Nat /\ Len(text) \in Nat /\ f - 1 \in Nat
      /\ p \in [1 .. Len(ops) + 1 -> 1 .. Len(text) + 1]
  BY DEF Follows
<1>2. PICK t \in Bad : \A j \in Bad : t <= j
  <2>1. Bad \in SUBSET Nat
    BY <1>1
  <2> HIDE DEF Bad
  <2> QED
    BY <2>1, Least
<1>3. t \in f - 1 .. Len(ops) /\ C(t) # p[t + 1] - p[f]
  OBVIOUS
<1>4. t # f - 1
  <2> SUFFICES ASSUME t = f - 1 PROVE FALSE
    OBVIOUS
  <2>1. {k \in f .. t : ops[k].kind # kind} = {}
    BY <1>1
  <2>2. C(t) = 0
    BY <2>1, FS_EmptySet DEF CountNot
  <2>3. p[t + 1] - p[f] = 0
    BY <1>1
  <2> HIDE DEF C
  <2> QED
    BY <2>2, <2>3, <1>3
<1>5. t - 1 \in f - 1 .. Len(ops) /\ t \in 1 .. Len(ops) /\ t - 1 \notin Bad
  <2> HIDE DEF Bad
  <2> QED
    BY <1>1, <1>2, <1>3, <1>4
<1>6. C(t - 1) = p[t] - p[f]
  BY <1>1, <1>5
<1> DEFINE S == {k \in f .. t - 1 : ops[k].kind # kind}
           T == {k \in f .. t : ops[k].kind # kind}
<1>7. IsFiniteSet(S) /\ t \notin S
  <2>1. f \in Int /\ t - 1 \in Int
    BY <1>1, <1>5
  <2>2. S \subseteq f .. t - 1 /\ t \notin S
    BY <2>1
  <2> HIDE DEF S
  <2>3. IsFiniteSet(f .. t - 1)
    BY <2>1, FS_Interval
  <2> QED
    BY <2>2, <2>3, FS_Subset
<1>8. C(t - 1) = Cardinality(S) /\ C(t) = Cardinality(T) /\ Cardinality(S) \in Nat
  BY <1>7, FS_CardinalityType DEF CountNot
<1>9. p[t + 1] = IF ops[t].kind = kind THEN p[t] ELSE p[t] + 1
  BY <1>5 DEF Follows
<1>10. p[t] \in Int /\ p[f] \in Int
  BY <1>1, <1>5
<1>11. CASE ops[t].kind = kind
  <2>1. T = S
    BY <1>11, <1>3, <1>5
  <2> HIDE DEF S, T, C
  <2> QED
    BY <2>1, <1>3, <1>6, <1>8, <1>9, <1>11
<1>12. CASE ops[t].kind # kind
  <2>1. T = S \cup {t}
    BY <1>12, <1>1, <1>3, <1>4, <1>5
  <2> HIDE DEF S, T
  <2>2. Cardinality(T) = Cardinality(S) + 1
    BY <2>1, <1>7, FS_AddElement
  <2> HIDE DEF C
  <2> QED
    BY <2>2, <1>3, <1>6, <1>8, <1>9, <1>10, <1>12, SMTT(30)
<1> QED
  BY <1>11, <1>12
(* The lines a script keeps are the text it follows.                       *)
LEMMA KeptLines ==
  ASSUME NEW A, NEW text \in Seq(A), NEW B, NEW ops \in Seq(B), NEW kind, NEW p,
         Follows(text, ops, kind, p)
  PROVE  LinesNot(ops, kind) = SubSeq(text, p[1], p[Len(ops) + 1] - 1)
<1> DEFINE N == Len(ops)
           S == {k \in 1 .. N : ops[k].kind # kind}
           c == Cardinality(S)
<1>1. /\ N \in Nat /\ Len(text) \in Nat /\ DOMAIN ops = 1 .. N
      /\ p \in [1 .. N + 1 -> 1 .. Len(text) + 1]
  BY DEF Follows
<1>2. /\ p[1] \in Nat \ {0} /\ p[N + 1] \in Nat \ {0} /\ p[N + 1] <= Len(text) + 1
      /\ p[1] \in Int /\ p[N + 1] - 1 \in Int
  BY <1>1
<1>3. \A k \in 0 .. N : CountNot(ops, 1, k, kind) = p[k + 1] - p[1]
  <2>1. 1 \in 1 .. Len(ops) + 1 /\ 1 - 1 = 0
    BY <1>1
  <2> QED
    BY <2>1, CountLines
<1>4. \A k \in 0 .. N : Upto(S, k) = {j \in 1 .. k : ops[j].kind # kind}
  BY <1>1 DEF Upto
<1>5. \A k \in 0 .. N : Cardinality(Upto(S, k)) = p[k + 1] - p[1]
  BY <1>3, <1>4 DEF CountNot
<1>6. c = p[N + 1] - p[1]
  BY <1>1, <1>3 DEF CountNot
<1>7. LinesNot(ops, kind) = [i \in 1 .. c |-> ops[Nth(S, i)].text]
  BY <1>1 DEF LinesNot
<1> HIDE DEF c
<1>8. ASSUME NEW i \in 1 .. c
      PROVE  /\ ops[Nth(S, i)].text = text[p[1] + i - 1]
             /\ p[1] + i - 1 \in 1 .. Len(text)
  <2> DEFINE k == Nth(S, i)
  <2>1. k \in S /\ Cardinality(Upto(S, k)) = i
    <3> HIDE DEF S
    <3>1. S \in SUBSET (1 .. N)
      BY DEF S
    <3>2. i \in 1 .. Cardinality(S)
      BY DEF c
    <3> HIDE DEF N
    <3> QED
      BY <1>1, <3>1, <3>2, NthFacts
  <2> HIDE DEF k
  <2>2. k \in 1 .. N /\ ops[k].kind # kind
    BY <2>1
  <2>3. i = p[k + 1] - p[1]
    BY <2>1, <2>2, <1>5
  <2>4. p[k + 1] = p[k] + 1 /\ ops[k].text = text[p[k]]
    BY <2>2 DEF Follows
  <2>5. p[k] \in Int
    BY <1>1, <2>2
  <2>6. p[k] = p[1] + i - 1
    BY <2>3, <2>4, <2>5, <1>2, SMTT(30)
  <2>7. p[1] + i - 1 \in 1 .. Len(text)
    BY <1>1, <1>2, <1>6
  <2> QED
    BY <2>4, <2>6, <2>7 DEF k
<1>9. LinesNot(ops, kind) = [i \in 1 .. c |-> text[p[1] + i - 1]]
  BY <1>7, <1>8
<1> DEFINE u == [i \in 1 .. c |-> text[p[1] + i - 1]]
           v == SubSeq(text, p[1], p[N + 1] - 1)
<1>10. c \in Nat
  <2>1. S \in SUBSET (1 .. N) /\ 1 \in Int /\ N \in Int
    BY <1>1
  <2> HIDE DEF S
  <2>2. IsFiniteSet(1 .. N)
    BY <2>1, FS_Interval
  <2> QED
    BY <2>1, <2>2, FS_Subset, FS_CardinalityType DEF c
<1>11. \A i \in 1 .. c : text[p[1] + i - 1] \in A
  <2>1. \A k \in 1 .. Len(text) : text[k] \in A
    OBVIOUS
  <2> QED
    BY <2>1, <1>8
<1>12. u \in Seq(A) /\ Len(u) = c /\ \A i \in 1 .. c : u[i] = text[p[1] + i - 1]
  BY <1>10, <1>11
<1>13. /\ v \in Seq(A) /\ Len(v) = c
       /\ \A i \in 1 .. c : v[i] = text[p[1] + i - 1]
  <2>1. \A i \in p[1] .. p[N + 1] - 1 : text[i] \in A
    BY <1>1, <1>2
  <2> DEFINE a == p[1]
             b == p[N + 1] - 1
  <2>2. a \in Int /\ b \in Int /\ c = b - a + 1
    BY <1>2, <1>6
  <2>3. \A i \in a .. b : text[i] \in A
    BY <2>1
  <2> HIDE DEF a, b
  <2>4. /\ SubSeq(text, a, b) \in Seq(A)
        /\ Len(SubSeq(text, a, b)) = IF a <= b THEN b - a + 1 ELSE 0
        /\ \A i \in 1 .. b - a + 1 : SubSeq(text, a, b)[i] = text[a + i - 1]
    BY <2>2, <2>3, SubSeqProperties
  <2>5. Len(SubSeq(text, a, b)) = c
    BY <2>2, <2>4, <1>10
  <2> QED
    BY <2>2, <2>4, <2>5 DEF a, b
<1> HIDE DEF u, v
<1>14. u = v
  BY <1>12, <1>13, SeqEqual
<1> QED
  BY <1>9, <1>14 DEF u, v

(* A part of a script keeps the part of the text that it leads through.    *)
LEMMA LinesOfPart ==
  ASSUME NEW A, NEW text \in Seq(A), NEW B, NEW ops \in Seq(B), NEW kind, NEW p,
         Follows(text, ops, kind, p),
         NEW f \in 1 .. Len(ops) + 1, NEW t \in f - 1 .. Len(ops)
  PROVE  LinesNot(SubSeq(ops, f, t), kind) = SubSeq(text, p[f], p[t + 1] - 1)
<1> DEFINE q == SubSeq(ops, f, t)
           r == [k \in 1 .. Len(q) + 1 |-> p[f + k - 1]]
<1>1. /\ Len(ops) \in Nat /\ Len(text) \in Nat /\ f \in Int /\ t \in Int
      /\ p \in [1 .. Len(ops) + 1 -> 1 .. Len(text) + 1]
  BY DEF Follows
<1>2. /\ q \in Seq(B) /\ Len(q) = t + 1 - f
      /\ \A k \in 1 .. t + 1 - f : q[k] = ops[f + k - 1]
  <2>1. \A k \in f .. t : ops[k] \in B
    BY <1>1
  <2>2. /\ q \in Seq(B) /\ Len(q) = IF f <= t THEN t - f + 1 ELSE 0
        /\ \A k \in 1 .. t - f + 1 : q[k] = ops[f + k - 1]
    BY <1>1, <2>1, SubSeqProperties
  <2> HIDE DEF q
  <2> QED
    BY <1>1, <2>2
<1> HIDE DEF q
<1>3. \A k \in 1 .. Len(q) + 1 : f + k - 1 \in 1 .. Len(ops) + 1 /\ r[k] = p[f + k - 1]
  BY <1>1, <1>2
<1>4. r \in [1 .. Len(q) + 1 -> 1 .. Len(text) + 1]
  BY <1>1, <1>3
<1>5. r[1] = p[f] /\ r[Len(q) + 1] = p[t + 1]
  <2>1. 1 \in 1 .. Len(q) + 1 /\ Len(q) + 1 \in 1 .. Len(q) + 1
        /\ f + 1 - 1 = f /\ f + (Len(q) + 1) - 1 = t + 1
    BY <1>1, <1>2
  <2> QED
    BY <2>1, <1>3
<1>6. ASSUME NEW k \in 1 .. Len(q)
      PROVE  /\ r[k + 1] = IF q[k].kind = kind THEN r[k] ELSE r[k] + 1
             /\ q[k].kind # kind => q[k].text = text[r[k]]
  <2> DEFINE j == f + k - 1
  <2>1. /\ j \in 1 .. Len(ops) /\ j + 1 = f + (k + 1) - 1
        /\ k \in 1 .. Len(q) + 1 /\ k + 1 \in 1 .. Len(q) + 1
    <3>1. Len(q) = t + 1 - f /\ k \in 1 .. t + 1 - f
      BY <1>2
    <3>2. f >= 1 /\ t <= Len(ops) /\ f \in Int /\ t \in Int /\ Len(ops) \in Nat
      BY <1>1
    <3> QED
      BY <3>1, <3>2
  <2>2. q[k] = ops[j] /\ r[k] = p[j] /\ r[k + 1] = p[j + 1]
    BY <2>1, <1>2, <1>3
  <2> HIDE DEF j
  <2>3. /\ p[j + 1] = IF ops[j].kind = kind THEN p[j] ELSE p[j] + 1
        /\ ops[j].kind # kind => ops[j].text = text[p[j]]
    BY <2>1 DEF Follows
  <2> QED
    BY <2>2, <2>3
<1> HIDE DEF r
<1>7. Follows(text, q, kind, r)
  BY <1>4, <1>6 DEF Follows
<1>8. LinesNot(q, kind) = SubSeq(text, r[1], r[Len(q) + 1] - 1)
  BY <1>2, <1>7, KeptLines
<1> QED
  BY <1>5, <1>8 DEF q

LEMMA NthInOrder ==
  ASSUME NEW N \in Nat, NEW S \in SUBSET (1 .. N)
  PROVE  /\ \A i, j \in 1 .. Cardinality(S) : i < j => Nth(S, i) < Nth(S, j)
         /\ \A s \in S : \E i \in 1 .. Cardinality(S) : s = Nth(S, i)
<1>1. IsFiniteSet(S) /\ Cardinality(S) \in Nat /\ S \subseteq Nat
  <2>1. 1 \in Int /\ N \in Int
    OBVIOUS
  <2>2. IsFiniteSet(1 .. N)
    BY <2>1, FS_Interval
  <2>3. S \subseteq Nat
    OBVIOUS
  <2> QED
    BY <2>2, <2>3, FS_Subset, FS_CardinalityType
<1> DEFINE C(k) == Cardinality(Upto(S, k))
<1>2. \A k : IsFiniteSet(Upto(S, k)) /\ C(k) \in Nat /\ C(k) <= Cardinality(S)
  <2>1. \A k : Upto(S, k) \subseteq S
    BY DEF Upto
  <2> QED
    BY <2>1, <1>1, FS_Subset, FS_CardinalityType
<1>3. \A j, k \in Nat : j <= k => C(j) <= C(k)
  <2> SUFFICES ASSUME NEW j \in Nat, NEW k \in Nat, j <= k PROVE C(j) <= C(k)
    OBVIOUS
  <2>1. Upto(S, j) \subseteq Upto(S, k)
    <3>1. \A e \in S : e <= j => e <= k
      BY <1>1
    <3> QED
      BY <3>1, Zenon DEF Upto
  <2> QED
    BY <2>1, <1>2, FS_Subset
<1>4. \A i \in 1 .. Cardinality(S) : Nth(S, i) \in S /\ C(Nth(S, i)) = i
  BY NthFacts
<1> HIDE DEF C
<1>5. ASSUME NEW i \in 1 .. Cardinality(S), NEW j \in 1 .. Cardinality(S), i < j
      PROVE  Nth(S, i) < Nth(S, j)
  <2>1. Nth(S, i) \in Nat /\ Nth(S, j) \in Nat /\ C(Nth(S, i)) = i /\ C(Nth(S, j)) = j
    BY <1>1, <1>4
  <2>2. ~(j <= i)
    BY <1>1, <1>5
  <2> QED
    BY <2>1, <2>2, <1>3
<1>6. ASSUME NEW s \in S
      PROVE  \E i \in 1 .. Cardinality(S) : s = Nth(S, i)
  <2> DEFINE i == C(s)
             e == Nth(S, i)
  <2>1. s \in Upto(S, s) /\ s \in Nat
    BY <1>1 DEF Upto
  <2>2. i # 0
    BY <2>1, <1>2, FS_EmptySet DEF C
  <2>3. i \in 1 .. Cardinality(S)
    BY <2>2, <1>1, <1>2
  <2>4. e \in S /\ C(e) = C(s) /\ e \in Nat
    BY <2>3, <1>1, <1>4
  <2> HIDE DEF e
  <2>5. ASSUME NEW x \in S, NEW y \in S, x < y, C(x) = C(y) PROVE FALSE
    <3>1. x \in Nat /\ y \in Nat
      BY <1>1
    <3>2. Upto(S, x) \subseteq Upto(S, y) /\ y \in Upto(S, y) /\ y \notin Upto(S, x)
      <4>1. \A z \in S : z <= x => z <= y
        BY <3>1, <1>1, <2>5
      <4>2. y <= y /\ ~(y <= x)
        BY <3>1, <2>5
      <4> QED
        BY <4>1, <4>2, Zenon DEF Upto
    <3> QED
      BY <3>2, <2>5, <1>2, FS_Subset DEF C
  <2>6. s = e
    BY <2>1, <2>4, <2>5
  <2> QED
    BY <2>3, <2>6 DEF e
<1> QED
  BY <1>5, <1>6

LEMMA MaxFacts ==
  ASSUME NEW N \in Nat, NEW S \in SUBSET (1 .. N), S # {}
  PROVE  Max(S) \in S /\ \A s \in S : s <= Max(S)
<1> DEFINE c == Cardinality(S)
           e == Nth(S, c)
<1>1. PICK x \in S : TRUE
  OBVIOUS
<1>2. PICK i \in 1 .. c : x = Nth(S, i)
  BY NthInOrder
<1>3. c \in Nat /\ c \in 1 .. c
  BY <1>2, NthFacts, SMTT(30)
<1>4. e \in S
  BY <1>3, NthFacts
<1>5. ASSUME NEW s \in S PROVE s <= e
  <2>1. PICK j \in 1 .. c : s = Nth(S, j)
    BY NthInOrder
  <2>2. j = c \/ j < c
    BY <1>3
  <2>3. j < c => s < e
    BY <2>1, <1>3, NthInOrder
  <2>4. e \in Int
    <3> HIDE DEF e
    <3> QED
      BY <1>4
  <2>5. j = c => s = e
    BY <2>1
  <2> HIDE DEF e
  <2> QED
    BY <2>2, <2>3, <2>4, <2>5
<1>6. \A s \in S : e >= s
  BY <1>4, <1>5
<1> HIDE DEF e
<1>7. Max(S) \in S /\ \A s \in S : Max(S) >= s
  BY <1>4, <1>6, Zenon DEF Max
<1> QED
  BY <1>7

LEMMA OfTwo ==
  ASSUME NEW x \in Int, NEW y \in Int
  PROVE  /\ Max({x, y}) = IF x >= y THEN x ELSE y
         /\ Min({x, y}) = IF x <= y THEN x ELSE y
<1>1. \E e \in {x, y} : \A s \in {x, y} : e >= s
  OBVIOUS
<1>2. Max({x, y}) \in {x, y} /\ \A s \in {x, y} : Max({x, y}) >= s
  BY <1>1, Zenon DEF Max
<1>3. \E e \in {x, y} : \A s \in {x, y} : e <= s
  OBVIOUS
<1>4. Min({x, y}) \in {x, y} /\ \A s \in {x, y} : Min({x, y}) <= s
  BY <1>3, Zenon DEF Min
<1> QED
  BY <1>2, <1>4

(* The groups of changes are apart, context included, and miss no change.  *)
First(ops, i) == Nth(Firsts(ops), i)
Groups(ops)   == 1 .. Cardinality(Firsts(ops))
Start(ops, i) == From(ops, First(ops, i))
End(ops, i)   == To(ops, First(ops, i))

LEMMA GroupFacts ==
  ASSUME ContextLines \in Nat, NEW B, NEW ops \in Seq(B)
  PROVE  /\ Cardinality(Firsts(ops)) \in Nat
         /\ \A i \in Groups(ops) :
              /\ Start(ops, i) \in 1 .. Len(ops) /\ End(ops, i) \in 1 .. Len(ops)
              /\ Start(ops, i) <= End(ops, i)
         /\ \A i, j \in Groups(ops) : i < j => End(ops, i) < Start(ops, j)
         /\ \A k \in Changed(ops) :
              \E i \in Groups(ops) : Start(ops, i) <= k /\ k <= End(ops, i)
<1> DEFINE L == Len(ops)
           D == Firsts(ops)
           X(s) == {k \in Changed(ops) : \A e \in D : s < e => k < e}
<1>1. L \in Nat /\ Changed(ops) \in SUBSET (1 .. L) /\ D \in SUBSET (1 .. L) /\ D \subseteq Changed(ops)
  BY DEF Changed, Firsts
<1>2. Cardinality(D) \in Nat
  <2>1. 1 \in Int /\ L \in Int
    BY <1>1
  <2> HIDE DEF L, D
  <2>2. IsFiniteSet(1 .. L)
    BY <2>1, FS_Interval
  <2> QED
    BY <2>2, <1>1, FS_Subset, FS_CardinalityType
<1>3. ASSUME NEW s \in D
      PROVE  /\ Final(ops, s) \in X(s) /\ \A k \in X(s) : k <= Final(ops, s)
             /\ s \in X(s)
  <2>1. s \in X(s) /\ X(s) \in SUBSET (1 .. L)
    BY <1>1
  <2>2. Final(ops, s) = Max(X(s))
    BY DEF Final
  <2> HIDE DEF X, D, L
  <2> QED
    BY <2>1, <2>2, <1>1, MaxFacts
<1>4. ASSUME NEW s \in D
      PROVE  /\ From(ops, s) \in 1 .. L /\ From(ops, s) <= s /\ From(ops, s) >= s - ContextLines
             /\ To(ops, s) \in 1 .. L /\ s <= To(ops, s)
             /\ Final(ops, s) <= To(ops, s) /\ To(ops, s) <= Final(ops, s) + ContextLines
  <2>1. s \in 1 .. L /\ Final(ops, s) \in 1 .. L /\ s <= Final(ops, s)
    BY <1>1, <1>3
  <2>2. /\ From(ops, s) = IF 1 >= s - ContextLines THEN 1 ELSE s - ContextLines
        /\ To(ops, s) = IF L <= Final(ops, s) + ContextLines THEN L
                        ELSE Final(ops, s) + ContextLines
    <3>1. /\ 1 \in Int /\ s - ContextLines \in Int /\ L \in Int
          /\ Final(ops, s) + ContextLines \in Int
      BY <2>1, <1>1
    <3> QED
      BY <3>1, OfTwo DEF From, To
  <2> HIDE DEF L
  <2> QED
    BY <2>1, <2>2, <1>1
<1>5. ASSUME NEW s \in D, NEW e \in D, s < e
      PROVE  To(ops, s) < From(ops, e)
  <2>1. Final(ops, s) \in Changed(ops) /\ Final(ops, s) < e
    BY <1>3, <1>5
  <2>2. e - Final(ops, s) > 2 * ContextLines
    BY <2>1 DEF Firsts
  <2>3. Final(ops, s) \in Int /\ e \in Int /\ s \in Int
    BY <2>1, <1>1
  <2>4. To(ops, s) \in Int /\ From(ops, e) \in Int
    BY <1>4
  <2>5. To(ops, s) <= Final(ops, s) + ContextLines /\ From(ops, e) >= e - ContextLines
    BY <1>4
  <2> HIDE DEF L, D
  <2> QED
    BY <2>2, <2>3, <2>4, <2>5
<1>6. ASSUME NEW k \in Changed(ops)
      PROVE  \E s \in D : From(ops, s) <= k /\ k <= To(ops, s)
  <2> DEFINE Y == {s \in D : s <= k}
  <2>1. Y # {}
    <3>1. Changed(ops) \in SUBSET Nat
      BY <1>1
    <3>2. PICK m \in Changed(ops) : \A j \in Changed(ops) : m <= j
      BY <3>1, Least
    <3>3. m \in D /\ m <= k
      BY <3>1, <3>2 DEF Firsts
    <3> QED
      BY <3>3
  <2>2. Y \in SUBSET (1 .. L)
    BY <1>1
  <2> DEFINE s == Max(Y)
  <2>3. s \in Y /\ \A e \in Y : e <= s
    <3> HIDE DEF Y, L
    <3> QED
      BY <2>1, <2>2, <1>1, MaxFacts
  <2> HIDE DEF s
  <2>4. s \in D /\ s <= k /\ s \in Int /\ k \in Int
    BY <2>3, <1>1
  <2>5. k \in X(s)
    <3> SUFFICES ASSUME NEW e \in D, s < e, ~(k < e) PROVE FALSE
      OBVIOUS
    <3>1. e \in Int
      BY <1>1
    <3>2. e \in Y
      BY <3>1, <2>4
    <3> QED
      BY <3>1, <3>2, <2>3, <2>4
  <2>6. k <= Final(ops, s) /\ Final(ops, s) \in 1 .. L
    BY <2>4, <2>5, <1>1, <1>3
  <2>7. From(ops, s) <= s /\ Final(ops, s) <= To(ops, s) /\ From(ops, s) \in Int /\ To(ops, s) \in Int
    BY <2>4, <1>4
  <2> HIDE DEF D, L, X, Y
  <2>8. Final(ops, s) \in Int
    BY <2>6, <1>1
  <2> QED
    BY <2>4, <2>6, <2>7, <2>8
<1> HIDE DEF L, D
<1>7. \A i \in 1 .. Cardinality(D) : Nth(D, i) \in D
  BY <1>1, NthFacts
<1>8. \A i, j \in 1 .. Cardinality(D) : i < j => Nth(D, i) < Nth(D, j)
  BY <1>1, NthInOrder
<1>9. \A s \in D : \E i \in 1 .. Cardinality(D) : s = Nth(D, i)
  BY <1>1, NthInOrder
<1>10. \A i \in 1 .. Cardinality(D) :
         /\ From(ops, Nth(D, i)) \in 1 .. L /\ To(ops, Nth(D, i)) \in 1 .. L
         /\ From(ops, Nth(D, i)) <= To(ops, Nth(D, i))
  <2> SUFFICES ASSUME NEW s \in D
               PROVE  /\ From(ops, s) \in 1 .. L /\ To(ops, s) \in 1 .. L
                      /\ From(ops, s) <= To(ops, s)
    BY <1>7
  <2>1. /\ From(ops, s) \in 1 .. L /\ To(ops, s) \in 1 .. L /\ s \in 1 .. L
        /\ From(ops, s) <= s /\ s <= To(ops, s)
    BY <1>1, <1>4
  <2> QED
    BY <2>1, <1>1
<1>11. \A i, j \in 1 .. Cardinality(D) :
         i < j => To(ops, Nth(D, i)) < From(ops, Nth(D, j))
  BY <1>5, <1>7, <1>8
<1>12. \A k \in Changed(ops) : \E i \in 1 .. Cardinality(D) :
         From(ops, Nth(D, i)) <= k /\ k <= To(ops, Nth(D, i))
  BY <1>6, <1>9
<1> QED
  BY <1>2, <1>10, <1>11, <1>12 DEF Groups, Start, End, First, D, L
-----------------------------------------------------------------------------
(* Pieces of texts.                                                        *)
LEMMA PieceFacts ==
  ASSUME NEW A, NEW s \in Seq(A), NEW x \in 1 .. Len(s) + 1, NEW y \in x .. Len(s) + 1
  PROVE  /\ SubSeq(s, x, y - 1) \in Seq(A) /\ Len(SubSeq(s, x, y - 1)) = y - x
         /\ \A i \in 1 .. y - x : SubSeq(s, x, y - 1)[i] = s[x + i - 1]
<1> DEFINE z == y - 1
<1>1. x \in Int /\ z \in Int /\ y \in Int /\ x <= y /\ y <= Len(s) + 1 /\ x >= 1 /\ Len(s) \in Nat
  OBVIOUS
<1>2. \A i \in x .. z : s[i] \in A
  BY <1>1
<1>3. z - x + 1 = y - x
  BY <1>1
<1> HIDE DEF z
<1>4. /\ SubSeq(s, x, z) \in Seq(A)
      /\ Len(SubSeq(s, x, z)) = IF x <= z THEN z - x + 1 ELSE 0
      /\ \A i \in 1 .. z - x + 1 : SubSeq(s, x, z)[i] = s[x + i - 1]
  BY <1>1, <1>2, SubSeqProperties
<1>5. Len(SubSeq(s, x, z)) = y - x
  BY <1>1, <1>4 DEF z
<1> QED
  BY <1>3, <1>4, <1>5 DEF z

(* The beginning of one text before the rest of another.                   *)
Spliced(before, after, x, y) ==
  SubSeq(before, 1, x - 1) \o SubSeq(after, y, Len(after))

JoinedAt(A, before, after, x, y, s) ==
  /\ s \in Seq(A) /\ Len(s) = x + Len(after) - y
  /\ \A i \in 1 .. x - 1 : s[i] = before[i]
  /\ \A i \in x .. x + Len(after) - y : s[i] = after[y + i - x]

LEMMA SplicedFacts ==
  ASSUME NEW A, NEW before \in Seq(A), NEW after \in Seq(A),
         NEW x \in 1 .. Len(before) + 1, NEW y \in 1 .. Len(after) + 1
  PROVE  JoinedAt(A, before, after, x, y, Spliced(before, after, x, y))
<1> SUFFICES ASSUME NEW s, s = Spliced(before, after, x, y)
             PROVE  JoinedAt(A, before, after, x, y, s)
  OBVIOUS
<1> DEFINE u == SubSeq(before, 1, x - 1)
           v == SubSeq(after, y, Len(after))
           m == Len(after)
<1>1. x \in Nat /\ y \in Nat /\ m \in Nat /\ x >= 1 /\ y <= m + 1
  OBVIOUS
<1>2. /\ u \in Seq(A) /\ Len(u) = x - 1 /\ \A i \in 1 .. x - 1 : u[i] = before[i]
  <2>1. 1 \in 1 .. Len(before) + 1 /\ x \in 1 .. Len(before) + 1
    OBVIOUS
  <2>2. u \in Seq(A) /\ Len(u) = x - 1 /\ \A i \in 1 .. x - 1 : u[i] = before[1 + i - 1]
    BY <2>1, PieceFacts
  <2>3. \A i \in 1 .. x - 1 : 1 + i - 1 = i
    BY <1>1
  <2> HIDE DEF u
  <2> QED
    BY <2>2, <2>3
<1>3. /\ v \in Seq(A) /\ Len(v) = m + 1 - y /\ \A i \in 1 .. m + 1 - y : v[i] = after[y + i - 1]
  <2>1. m + 1 \in y .. Len(after) + 1 /\ (m + 1) - 1 = m
    BY <1>1
  <2>2. /\ SubSeq(after, y, (m + 1) - 1) \in Seq(A)
        /\ Len(SubSeq(after, y, (m + 1) - 1)) = m + 1 - y
        /\ \A i \in 1 .. m + 1 - y : SubSeq(after, y, (m + 1) - 1)[i] = after[y + i - 1]
    BY <2>1, PieceFacts, SMTT(30)
  <2> QED
    BY <2>1, <2>2
<1>4. s = u \o v
  BY DEF Spliced
<1> HIDE DEF u, v
<1>5. /\ s \in Seq(A) /\ Len(s) = Len(u) + Len(v)
      /\ \A i \in 1 .. Len(u) + Len(v) : s[i] = IF i <= Len(u) THEN u[i] ELSE v[i - Len(u)]
  <2>1. u \in Seq(A) /\ v \in Seq(A)
    BY <1>2, <1>3
  <2> QED
    BY <2>1, <1>4, ConcatProperties
<1> HIDE DEF m
<1>6. Len(s) = x + m - y
  BY <1>1, <1>2, <1>3, <1>5, SMTT(30)
<1>7. ASSUME NEW i \in 1 .. x - 1 PROVE s[i] = before[i]
  <2>1. i \in 1 .. Len(u) + Len(v) /\ i <= Len(u)
    BY <1>1, <1>2, <1>3
  <2> QED
    BY <2>1, <1>2, <1>5
<1>8. ASSUME NEW i \in x .. x + m - y PROVE s[i] = after[y + i - x]
  <2>1. i \in 1 .. Len(u) + Len(v) /\ ~(i <= Len(u)) /\ i - Len(u) = i - x + 1
    BY <1>1, <1>2, <1>3
  <2>2. i - x + 1 \in 1 .. m + 1 - y /\ y + (i - x + 1) - 1 = y + i - x
    BY <1>1
  <2>3. s[i] = v[i - x + 1]
    BY <2>1, <1>5
  <2> QED
    BY <2>2, <2>3, <1>3
<1> QED
  BY <1>5, <1>6, <1>7, <1>8 DEF m, JoinedAt

(* A line both texts have may come from either.                            *)
LEMMA SplicedSame ==
  ASSUME NEW A, NEW before \in Seq(A), NEW after \in Seq(A),
         NEW x \in 1 .. Len(before), NEW y \in 1 .. Len(after), before[x] = after[y]
  PROVE  Spliced(before, after, x, y) = Spliced(before, after, x + 1, y + 1)
<1> SUFFICES ASSUME NEW p \in Int, p = x + 1, NEW q \in Int, q = y + 1
             PROVE  Spliced(before, after, x, y) = Spliced(before, after, p, q)
  OBVIOUS
<1> DEFINE s == Spliced(before, after, x, y)
           t == Spliced(before, after, p, q)
           m == Len(after)
<1>1. /\ x \in 1 .. Len(before) + 1 /\ p \in 1 .. Len(before) + 1
      /\ y \in 1 .. m + 1 /\ q \in 1 .. m + 1 /\ m \in Nat /\ y <= m
      /\ x \in Nat /\ y \in Nat /\ p + m - q = x + m - y /\ p - 1 = x
      /\ s = Spliced(before, after, x, y) /\ t = Spliced(before, after, p, q)
  OBVIOUS
<1> HIDE DEF m
<1>0. JoinedAt(A, before, after, x, y, s) /\ JoinedAt(A, before, after, p, q, t)
  BY <1>1, SplicedFacts DEF m
<1> HIDE DEF s, t
<1>2. /\ s \in Seq(A) /\ Len(s) = x + m - y
      /\ \A i \in 1 .. x - 1 : s[i] = before[i]
      /\ \A i \in x .. x + m - y : s[i] = after[y + i - x]
  BY <1>0 DEF JoinedAt, m
<1>3. /\ t \in Seq(A) /\ Len(t) = p + m - q
      /\ \A i \in 1 .. p - 1 : t[i] = before[i]
      /\ \A i \in p .. p + m - q : t[i] = after[q + i - p]
  BY <1>0 DEF JoinedAt, m
<1>4. ASSUME NEW i \in 1 .. x + m - y PROVE s[i] = t[i]
  <2>1. CASE i < x
    <3>1. i \in 1 .. x - 1 /\ i \in 1 .. p - 1
      BY <2>1, <1>1
    <3> QED
      BY <3>1, <1>2, <1>3
  <2>2. CASE i = x
    <3>1. x \in 1 .. p - 1 /\ x \in x .. x + m - y /\ y + x - x = y
      BY <1>1, p = x + 1, SMTT(30)
    <3> QED
      BY <3>1, <2>2, <1>2, <1>3
  <2>3. CASE i > x
    <3>1. /\ i \in x .. x + m - y /\ i \in p .. p + m - q
          /\ q + i - p = y + i - x
      BY <2>3, <1>1
    <3>2. s[i] = after[y + i - x]
      BY <3>1, <1>2
    <3>3. t[i] = after[q + i - p]
      BY <3>1, <1>3
    <3> QED
      BY <3>1, <3>2, <3>3
  <2> QED
    BY <2>1, <2>2, <2>3, <1>1
<1>5. Len(s) = Len(t)
  BY <1>1, <1>2, <1>3
<1>6. s = t
  BY <1>2, <1>3, <1>4, <1>5, SeqEqual
<1> QED
  BY <1>6 DEF s, t

LEMMA SplicedEnds ==
  ASSUME NEW A, NEW before \in Seq(A), NEW after \in Seq(A)
  PROVE  /\ Spliced(before, after, Len(before) + 1, Len(after) + 1) = before
         /\ Spliced(before, after, 1, 1) = after
<1>1. ASSUME NEW p \in Int, p = Len(before) + 1, NEW q \in Int, q = Len(after) + 1
      PROVE  Spliced(before, after, p, q) = before
  <2>1. p \in 1 .. Len(before) + 1 /\ q \in 1 .. Len(after) + 1
    BY <1>1
  <2> DEFINE s == Spliced(before, after, p, q)
  <2>0. JoinedAt(A, before, after, p, q, s)
    BY <2>1, SplicedFacts
  <2>2. s = Spliced(before, after, p, q)
    OBVIOUS
  <2> HIDE DEF s
  <2>3. /\ s \in Seq(A) /\ Len(s) = p + Len(after) - q
        /\ \A i \in 1 .. p - 1 : s[i] = before[i]
    BY <2>0 DEF JoinedAt
  <2>4. p + Len(after) - q = Len(before) /\ p - 1 = Len(before)
    BY <1>1
  <2>5. Len(s) = Len(before) /\ \A i \in 1 .. Len(s) : s[i] = before[i]
    BY <2>3, <2>4
  <2> QED
    BY <2>2, <2>3, <2>5, SeqEqual
<1>2. ASSUME NEW p \in Int, p = 1 PROVE Spliced(before, after, p, p) = after
  <2> DEFINE t == Spliced(before, after, p, p)
  <2>1. p \in 1 .. Len(before) + 1 /\ p \in 1 .. Len(after) + 1 /\ Len(after) \in Nat
    BY <1>2
  <2>0. JoinedAt(A, before, after, p, p, t)
    BY <2>1, SplicedFacts
  <2>2. t = Spliced(before, after, p, p)
    OBVIOUS
  <2> HIDE DEF t
  <2>3. /\ t \in Seq(A) /\ Len(t) = p + Len(after) - p
        /\ \A i \in p .. p + Len(after) - p : t[i] = after[p + i - p]
    BY <2>0 DEF JoinedAt
  <2>4. p + Len(after) - p = Len(after) /\ \A i \in 1 .. Len(after) : p + i - p = i
    BY <2>1, <1>2
  <2>5. Len(t) = Len(after) /\ \A i \in 1 .. Len(t) : t[i] = after[i]
    BY <2>3, <2>4, <1>2
  <2> QED
    BY <2>2, <2>3, <2>5, SeqEqual
<1> QED
  BY <1>1, <1>2
-----------------------------------------------------------------------------
(* What a hunk puts between the lines before and behind it.                *)
PieceOf(A, s, x, y, u) ==
  /\ u \in Seq(A) /\ Len(u) = y - x
  /\ \A i \in 1 .. y - x : u[i] = s[x + i - 1]

LEMMA PieceIs ==
  ASSUME NEW A, NEW s \in Seq(A), NEW x \in 1 .. Len(s) + 1, NEW y \in x .. Len(s) + 1
  PROVE  PieceOf(A, s, x, y, SubSeq(s, x, y - 1))
BY PieceFacts DEF PieceOf

LEMMA ThreePieces ==
  ASSUME NEW A, NEW u \in Seq(A), NEW v \in Seq(A), NEW w \in Seq(A), NEW t \in Seq(A),
         Len(t) = Len(u) + Len(v) + Len(w),
         \A i \in 1 .. Len(u) : t[i] = u[i],
         \A i \in 1 .. Len(v) : t[Len(u) + i] = v[i],
         \A i \in 1 .. Len(w) : t[Len(u) + Len(v) + i] = w[i]
  PROVE  (u \o v) \o w = t
<1> DEFINE r == u \o v
           q == r \o w
<1>1. r \in Seq(A) /\ Len(r) = Len(u) + Len(v)
      /\ \A i \in 1 .. Len(u) + Len(v) : r[i] = IF i <= Len(u) THEN u[i] ELSE v[i - Len(u)]
  BY ConcatProperties
<1> HIDE DEF r
<1>2. q \in Seq(A) /\ Len(q) = Len(r) + Len(w)
      /\ \A i \in 1 .. Len(r) + Len(w) : q[i] = IF i <= Len(r) THEN r[i] ELSE w[i - Len(r)]
  BY <1>1, ConcatProperties
<1> HIDE DEF q
<1>3. Len(u) \in Nat /\ Len(v) \in Nat /\ Len(w) \in Nat /\ Len(q) = Len(t)
  BY <1>1, <1>2
<1>4. ASSUME NEW i \in 1 .. Len(t) PROVE q[i] = t[i]
  <2>1. CASE i <= Len(u)
    <3>1. /\ i \in 1 .. Len(u) /\ i \in 1 .. Len(u) + Len(v) /\ i \in 1 .. Len(r) + Len(w)
          /\ i <= Len(r)
      BY <2>1, <1>1, <1>3
    <3>2. q[i] = r[i] /\ r[i] = u[i]
      BY <2>1, <3>1, <1>1, <1>2
    <3> QED
      BY <3>1, <3>2
  <2>2. CASE i > Len(u) /\ i <= Len(u) + Len(v)
    <3>1. i - Len(u) \in 1 .. Len(v) /\ i = Len(u) + (i - Len(u))
      BY <2>2, <1>3
    <3>2. t[i] = v[i - Len(u)]
      BY <3>1
    <3> QED
      BY <2>2, <3>2, <1>1, <1>2, <1>3
  <2>3. CASE i > Len(u) + Len(v)
    <3>1. /\ i - (Len(u) + Len(v)) \in 1 .. Len(w)
          /\ i = Len(u) + Len(v) + (i - (Len(u) + Len(v)))
      BY <2>3, <1>3
    <3>2. t[i] = w[i - (Len(u) + Len(v))]
      BY <3>1
    <3> QED
      BY <2>3, <3>2, <1>1, <1>2, <1>3
  <2> QED
    BY <2>1, <2>2, <2>3, <1>3
<1>5. q = t
  BY <1>2, <1>3, <1>4, SeqEqual
<1> QED
  BY <1>5 DEF q, r

LEMMA SpliceJoins ==
  ASSUME NEW A, NEW before \in Seq(A), NEW after \in Seq(A),
         NEW x \in 1 .. Len(before) + 1, NEW p \in x .. Len(before) + 1,
         NEW y \in 1 .. Len(after) + 1, NEW q \in y .. Len(after) + 1,
         NEW s, s = Spliced(before, after, p, q)
  PROVE  (SubSeq(s, 1, x - 1) \o SubSeq(after, y, q - 1)) \o SubSeq(s, p, Len(s))
           = Spliced(before, after, x, y)
<1> DEFINE t == Spliced(before, after, x, y)
           m == Len(after)
<1>1. JoinedAt(A, before, after, p, q, s) /\ JoinedAt(A, before, after, x, y, t)
  <2>1. p \in 1 .. Len(before) + 1 /\ q \in 1 .. Len(after) + 1
    OBVIOUS
  <2> QED
    BY <2>1, SplicedFacts
<1>2. /\ m \in Nat /\ x \in Nat /\ p \in Nat /\ y \in Nat /\ q \in Nat
      /\ 1 <= x /\ x <= p /\ 1 <= y /\ y <= q /\ q <= m + 1
  OBVIOUS
<1> HIDE DEF t
<1>3. /\ s \in Seq(A) /\ Len(s) = p + m - q
      /\ \A i \in 1 .. p - 1 : s[i] = before[i]
      /\ \A i \in p .. p + m - q : s[i] = after[q + i - p]
  BY <1>1 DEF JoinedAt
<1>4. /\ t \in Seq(A) /\ Len(t) = x + m - y
      /\ \A i \in 1 .. x - 1 : t[i] = before[i]
      /\ \A i \in x .. x + m - y : t[i] = after[y + i - x]
  BY <1>1 DEF JoinedAt
<1> DEFINE u == SubSeq(s, 1, x - 1)
           v == SubSeq(after, y, q - 1)
           w == SubSeq(s, p, Len(s))
<1>5. PieceOf(A, s, 1, x, u)
  <2>1. 1 \in 1 .. Len(s) + 1 /\ x \in 1 .. Len(s) + 1
    BY <1>2, <1>3
  <2> QED
    BY <2>1, <1>3, PieceIs
<1>6. PieceOf(A, after, y, q, v)
  BY PieceIs
<1>7. ASSUME NEW e \in Int, e = Len(s) + 1 PROVE PieceOf(A, s, p, e, w)
  <2>1. p \in 1 .. Len(s) + 1 /\ e \in p .. Len(s) + 1 /\ e - 1 = Len(s)
    BY <1>2, <1>3, <1>7
  <2>2. PieceOf(A, s, p, e, SubSeq(s, p, e - 1))
    BY <2>1, <1>3, PieceIs
  <2> QED
    BY <2>1, <2>2
<1> HIDE DEF u, v, w, m
<1>8. u \in Seq(A) /\ Len(u) = x - 1 /\ \A i \in 1 .. x - 1 : u[i] = t[i]
  <2>1. u \in Seq(A) /\ Len(u) = x - 1 /\ \A i \in 1 .. x - 1 : u[i] = s[1 + i - 1]
    BY <1>5 DEF PieceOf
  <2>2. \A i \in 1 .. x - 1 : 1 + i - 1 = i /\ i \in 1 .. p - 1
    BY <1>2
  <2>3. \A i \in 1 .. x - 1 : s[i] = before[i]
    BY <2>2, <1>3
  <2> QED
    BY <2>1, <2>2, <2>3, <1>4
<1>9. v \in Seq(A) /\ Len(v) = q - y /\ \A i \in 1 .. q - y : t[(x - 1) + i] = v[i]
  <2>1. v \in Seq(A) /\ Len(v) = q - y /\ \A i \in 1 .. q - y : v[i] = after[y + i - 1]
    BY <1>6 DEF PieceOf
  <2>2. \A i \in 1 .. q - y : /\ (x - 1) + i \in x .. x + m - y
                              /\ y + ((x - 1) + i) - x = y + i - 1
    BY <1>2
  <2> QED
    BY <2>1, <2>2, <1>4
<1>10. /\ w \in Seq(A) /\ Len(w) = m + 1 - q
       /\ \A i \in 1 .. m + 1 - q : t[(x - 1) + (q - y) + i] = w[i]
  <2>1. Len(s) + 1 \in Int
    BY <1>2, <1>3
  <2>2. PieceOf(A, s, p, Len(s) + 1, w)
    BY <2>1, <1>7
  <2>3. Len(s) + 1 - p = m + 1 - q
    BY <1>2, <1>3
  <2>4. w \in Seq(A) /\ Len(w) = m + 1 - q /\ \A i \in 1 .. m + 1 - q : w[i] = s[p + i - 1]
    BY <2>2, <2>3 DEF PieceOf
  <2>5. ASSUME NEW i \in 1 .. m + 1 - q PROVE t[(x - 1) + (q - y) + i] = w[i]
    <3> DEFINE j == p + i - 1
               k == (x - 1) + (q - y) + i
    <3>1. j \in p .. p + m - q /\ k \in x .. x + m - y /\ q + j - p = y + k - x
      BY <1>2
    <3> HIDE DEF j, k
    <3>2. s[j] = after[q + j - p] /\ t[k] = after[y + k - x]
      BY <3>1, <1>3, <1>4
    <3>3. w[i] = s[j]
      BY <2>4 DEF j
    <3> QED
      BY <3>1, <3>2, <3>3 DEF k
  <2> QED
    BY <2>4, <2>5
<1>11. /\ Len(t) = Len(u) + Len(v) + Len(w)
       /\ \A i \in 1 .. Len(u) : t[i] = u[i]
       /\ \A i \in 1 .. Len(v) : t[Len(u) + i] = v[i]
       /\ \A i \in 1 .. Len(w) : t[Len(u) + Len(v) + i] = w[i]
  <2>1. x + m - y = (x - 1) + (q - y) + (m + 1 - q)
    BY <1>2
  <2> QED
    BY <2>1, <1>4, <1>8, <1>9, <1>10
<1>12. (u \o v) \o w = t
  BY <1>4, <1>8, <1>9, <1>10, <1>11, ThreePieces, ZenonT(40)
<1> QED
  BY <1>12 DEF t, u, v, w
-----------------------------------------------------------------------------
(* A hunk of the script, applied.                                          *)
LEMMA BothFollow ==
  ASSUME NEW A, NEW before \in Seq(A), NEW after \in Seq(A), NEW ops \in Seq(Ops(A)),
         NEW o, NEW a, Leads(before, after, ops, o, a)
  PROVE  Follows(before, ops, "add", o) /\ Follows(after, ops, "remove", a)
BY DEF Leads, Follows

LEMMA NeverBack ==
  ASSUME NEW A, NEW text \in Seq(A), NEW B, NEW ops \in Seq(B), NEW kind, NEW p,
         Follows(text, ops, kind, p),
         NEW f \in 1 .. Len(ops) + 1, NEW t \in f - 1 .. Len(ops)
  PROVE  p[f] \in 1 .. Len(text) + 1 /\ p[t + 1] \in p[f] .. Len(text) + 1
<1>1. CountNot(ops, f, t, kind) = p[t + 1] - p[f]
  BY CountLines
<1>2. IsFiniteSet(f .. t)
  BY FS_Interval
<1>3. CountNot(ops, f, t, kind) \in Nat
  <2> DEFINE S == {k \in f .. t : ops[k].kind # kind}
  <2>1. S \subseteq f .. t
    OBVIOUS
  <2> HIDE DEF S
  <2>2. Cardinality(S) \in Nat
    BY <2>1, <1>2, FS_Subset, FS_CardinalityType
  <2> QED
    BY <2>2 DEF CountNot, S
<1>4. t + 1 \in 1 .. Len(ops) + 1
  OBVIOUS
<1>5. p[f] \in 1 .. Len(text) + 1 /\ p[t + 1] \in 1 .. Len(text) + 1
  BY <1>4 DEF Follows
<1> QED
  BY <1>1, <1>3, <1>5

(* Between two places with nothing but lines both texts have, it is the    *)
(* same where the one text ends and the other begins.                      *)
LEMMA Unchanged ==
  ASSUME NEW A, NEW before \in Seq(A), NEW after \in Seq(A), NEW ops \in Seq(Ops(A)),
         NEW o, NEW a, Leads(before, after, ops, o, a),
         NEW f \in 1 .. Len(ops) + 1, NEW t \in f .. Len(ops) + 1,
         \A k \in f .. t - 1 : ops[k].kind = "same"
  PROVE  Spliced(before, after, o[f], a[f]) = Spliced(before, after, o[t], a[t])
<1> DEFINE At(k) == Spliced(before, after, o[k], a[k])
           S == {k \in f .. t : At(k) # At(f)}
<1> SUFFICES ASSUME S # {} PROVE FALSE
  OBVIOUS
<1>1. f \in Nat /\ t \in Nat /\ f >= 1 /\ t <= Len(ops) + 1 /\ Len(ops) \in Nat
  OBVIOUS
<1>2. S \in SUBSET Nat
  BY <1>1
<1>3. PICK n \in S : TRUE
  OBVIOUS
<1>4. PICK k \in S : \A j \in S : k <= j
  <2> HIDE DEF S
  <2> QED
    BY <1>2, <1>3, Least
<1>5. k \in f .. t /\ At(k) # At(f) /\ k # f /\ k \in Int
  BY <1>1
<1> SUFFICES ASSUME NEW j \in Int, j = k - 1 PROVE FALSE
  BY <1>5
<1>6. j \in f .. t /\ j < k /\ j \in f .. t - 1 /\ j \in 1 .. Len(ops) /\ k = j + 1
      /\ k \in 1 .. Len(ops) + 1
  BY <1>1, <1>5
<1>7. At(j) = At(f)
  <2>1. j \notin S
    BY <1>4, <1>5, <1>6
  <2> QED
    BY <2>1, <1>6
<1> HIDE DEF S
<1>8. /\ o[k] = o[j] + 1 /\ a[k] = a[j] + 1 /\ before[o[j]] = after[a[j]]
      /\ o[j] \in 1 .. Len(before) + 1 /\ a[j] \in 1 .. Len(after) + 1
      /\ o[k] \in 1 .. Len(before) + 1 /\ a[k] \in 1 .. Len(after) + 1
  <2>1. ops[j].kind = "same"
    BY <1>6
  <2>2. /\ o[j + 1] = IF ops[j].kind = "add" THEN o[j] ELSE o[j] + 1
        /\ a[j + 1] = IF ops[j].kind = "remove" THEN a[j] ELSE a[j] + 1
        /\ ops[j].kind # "add" => ops[j].text = before[o[j]]
        /\ ops[j].kind # "remove" => ops[j].text = after[a[j]]
    BY <1>6, Zenon DEF Leads
  <2>3. /\ o[k] = o[j] + 1 /\ a[k] = a[j] + 1 /\ before[o[j]] = after[a[j]]
    BY <2>1, <2>2, <1>6
  <2>4. j \in 1 .. Len(ops) + 1
    BY <1>6
  <2>5. /\ o[j] \in 1 .. Len(before) + 1 /\ a[j] \in 1 .. Len(after) + 1
        /\ o[k] \in 1 .. Len(before) + 1 /\ a[k] \in 1 .. Len(after) + 1
    BY <1>6, <2>4 DEF Leads
  <2> QED
    BY <2>3, <2>5
<1>9. o[j] \in 1 .. Len(before) /\ a[j] \in 1 .. Len(after)
  BY <1>8, SMTT(30)
<1>10. Spliced(before, after, o[j], a[j]) = Spliced(before, after, o[j] + 1, a[j] + 1)
  <2> SUFFICES ASSUME NEW x \in 1 .. Len(before), NEW y \in 1 .. Len(after), before[x] = after[y]
               PROVE  Spliced(before, after, x, y) = Spliced(before, after, x + 1, y + 1)
    BY <1>8, <1>9
  <2> QED
    BY SplicedSame
<1> QED
  BY <1>5, <1>7, <1>8, <1>10, Zenon

LEMMA HunkJoins ==
  ASSUME NEW A, NEW before \in Seq(A), NEW after \in Seq(A), NEW ops \in Seq(Ops(A)),
         NEW o, NEW a, Leads(before, after, ops, o, a), o[1] = 1,
         NEW f \in 1 .. Len(ops), NEW t \in f .. Len(ops)
  PROVE  /\ Quotes(before, Hunk(ops, f, t))
         /\ Replaced(Spliced(before, after, o[t + 1], a[t + 1]), Hunk(ops, f, t))
              = Spliced(before, after, o[f], a[f])
<1> DEFINE h == Hunk(ops, f, t)
           x == o[f]
           p == o[t + 1]
           y == a[f]
           q == a[t + 1]
           s == Spliced(before, after, p, q)
<1>1. Follows(before, ops, "add", o) /\ Follows(after, ops, "remove", a)
  BY BothFollow
<1>2. f \in 1 .. Len(ops) + 1 /\ t \in f - 1 .. Len(ops)
  OBVIOUS
<1>3. /\ x \in 1 .. Len(before) + 1 /\ p \in x .. Len(before) + 1
      /\ y \in 1 .. Len(after) + 1 /\ q \in y .. Len(after) + 1
  BY <1>1, <1>2, NeverBack
<1>4. h.oldStart = x
  <2>1. 1 \in 1 .. Len(ops) + 1
    OBVIOUS
  <2>2. \A e \in 1 - 1 .. Len(ops) : CountNot(ops, 1, e, "add") = o[e + 1] - o[1]
    BY <2>1, <1>1, CountLines
  <2>3. f - 1 \in 1 - 1 .. Len(ops) /\ (f - 1) + 1 = f
    OBVIOUS
  <2>4. CountNot(ops, 1, f - 1, "add") = o[f] - 1
    BY <2>2, <2>3
  <2>5. 1 + (o[f] - 1) = o[f]
    BY <1>3
  <2> QED
    BY <2>4, <2>5 DEF Hunk
<1>5. h.oldLines = p - x
  <2>1. CountNot(ops, f, t, "add") = o[t + 1] - o[f]
    BY <1>1, <1>2, CountLines
  <2> QED
    BY <2>1 DEF Hunk
<1>6. LinesNot(h.lines, "add") = SubSeq(before, x, p - 1)
  <2>1. LinesNot(SubSeq(ops, f, t), "add") = SubSeq(before, o[f], o[t + 1] - 1)
    BY <1>1, <1>2, LinesOfPart
  <2> QED
    BY <2>1 DEF Hunk
<1>7. LinesNot(h.lines, "remove") = SubSeq(after, y, q - 1)
  <2>1. LinesNot(SubSeq(ops, f, t), "remove") = SubSeq(after, a[f], a[t + 1] - 1)
    BY <1>1, <1>2, LinesOfPart
  <2> QED
    BY <2>1 DEF Hunk
<1> HIDE DEF h, x, y, p, q
<1>8. Quotes(before, h)
  <2>1. h.oldStart + h.oldLines - 1 = p - 1
    BY <1>3, <1>4, <1>5
  <2>2. p - 1 \in Int /\ Len(before) \in Int /\ p - 1 <= Len(before)
    BY <1>3
  <2> SUFFICES ASSUME NEW e \in Int, e = p - 1 PROVE Quotes(before, h)
    BY <2>2
  <2>4. e <= Len(before) /\ Len(before) \in Int
    BY <2>2
  <2>5. Min({Len(before), e}) = IF Len(before) <= e THEN Len(before) ELSE e
    BY <2>4, OfTwo
  <2>3. Min({Len(before), e}) = e
    BY <2>4, <2>5
  <2> QED
    BY <2>1, <2>3, <1>4, <1>6 DEF Quotes
<1>9. Replaced(s, h) = Spliced(before, after, x, y)
  <2>1. h.oldStart + h.oldLines = p
    BY <1>3, <1>4, <1>5
  <2>2. Replaced(s, h) =
          (SubSeq(s, 1, x - 1) \o SubSeq(after, y, q - 1)) \o SubSeq(s, p, Len(s))
    BY <2>1, <1>4, <1>7 DEF Replaced
  <2> HIDE DEF s
  <2>3. s = Spliced(before, after, p, q)
    BY DEF s
  <2>4. (SubSeq(s, 1, x - 1) \o SubSeq(after, y, q - 1)) \o SubSeq(s, p, Len(s))
          = Spliced(before, after, x, y)
    BY <2>3, <1>3, SpliceJoins
  <2> QED
    BY <2>2, <2>4
<1> QED
  BY <1>8, <1>9 DEF h, x, y, p, q, s
-----------------------------------------------------------------------------
(* The edit applied, hunk by hunk.                                         *)
Applied(text, hunks, e, k) ==
  IF k = 0 THEN text ELSE Replaced(e[k - 1], hunks[Len(hunks) + 1 - k])

LEMMA AppliedExists ==
  ASSUME NEW text, NEW hunks
  PROVE  \A n \in Nat : \E e : e = [k \in 0 .. n |-> Applied(text, hunks, e, k)]
<1> DEFINE G(n) == \E e : e = [k \in 0 .. n |-> Applied(text, hunks, e, k)]
           B == {n \in Nat : ~G(n)}
<1> SUFFICES ASSUME NEW f \in B PROVE FALSE
  OBVIOUS
<1>1. PICK n \in B : \A j \in B : n <= j
  <2> HIDE DEF B
  <2>1. B \in SUBSET Nat
    BY DEF B
  <2> QED
    BY <2>1, Least
<1>2. n \in Nat
  OBVIOUS
<1>3. \E g : \A k \in 0 .. n - 1 : g[k] = Applied(text, hunks, g, k)
  <2>1. CASE n = 0
    BY <2>1
  <2>2. CASE n # 0
    <3>1. n - 1 \in Nat /\ n - 1 \notin B
      BY <2>2, <1>1, <1>2
    <3>2. G(n - 1)
      BY <3>1
    <3>3. PICK e : e = [k \in 0 .. n - 1 |-> Applied(text, hunks, e, k)]
      BY <3>2, Zenon
    <3>4. \A k \in 0 .. n - 1 : e[k] = Applied(text, hunks, e, k)
      BY <3>3, Zenon
    <3> QED
      BY <3>4, Zenon
  <2> QED
    BY <2>1, <2>2
<1>4. PICK g : \A k \in 0 .. n - 1 : g[k] = Applied(text, hunks, g, k)
  BY <1>3, Zenon
<1> DEFINE h == [k \in 0 .. n |-> IF k \in 0 .. n - 1 THEN g[k] ELSE Applied(text, hunks, g, k)]
<1>5. ASSUME NEW k \in 0 .. n PROVE h[k] = Applied(text, hunks, h, k)
  <2>1. h[k] = Applied(text, hunks, g, k)
    BY <1>4
  <2>2. Applied(text, hunks, g, k) = Applied(text, hunks, h, k)
    <3>1. CASE k = 0
      BY <3>1, Zenon DEF Applied
    <3>2. CASE k # 0
      <4>1. k - 1 \in 0 .. n /\ k - 1 \in 0 .. n - 1
        BY <3>2, <1>2
      <4>2. h[k - 1] = g[k - 1]
        BY <4>1
      <4> HIDE DEF h
      <4> QED
        BY <4>2, Zenon DEF Applied
    <3> QED
      BY <3>1, <3>2
  <2> HIDE DEF h
  <2> QED
    BY <2>1, <2>2
<1>6. h = [k \in 0 .. n |-> Applied(text, hunks, h, k)]
  <2>1. h = [k \in 0 .. n |-> h[k]]
    OBVIOUS
  <2> HIDE DEF h
  <2> QED
    BY <2>1, <1>5
<1>7. G(n)
  <2> HIDE DEF h
  <2> QED
    BY <1>6
<1> QED
  BY <1>7

AppliedIs(text, hunks, e) ==
  /\ Apply(text, hunks) = e[Len(hunks)] /\ e[0] = text
  /\ \A k \in 1 .. Len(hunks) : e[k] = Replaced(e[k - 1], hunks[Len(hunks) + 1 - k])

LEMMA ApplySteps ==
  ASSUME NEW text, NEW hunks, Len(hunks) \in Nat,
         \A h \in Range(hunks) : Quotes(text, h)
  PROVE  \E e : AppliedIs(text, hunks, e)
<1> DEFINE r == Len(hunks)
           e == CHOOSE e : e = [k \in 0 .. r |-> Applied(text, hunks, e, k)]
<1>1. Apply(text, hunks) = e[r]
  BY Zenon DEF Apply, Applied
<1>2. \E w : w = [k \in 0 .. r |-> Applied(text, hunks, w, k)]
  BY AppliedExists
<1>3. e = [k \in 0 .. r |-> Applied(text, hunks, e, k)]
  BY <1>2, Zenon
<1> HIDE DEF e
<1>4. \A k \in 0 .. r : e[k] = Applied(text, hunks, e, k)
  BY <1>3, Zenon
<1>5. e[0] = text
  <2>1. 0 \in 0 .. r
    OBVIOUS
  <2> QED
    BY <2>1, <1>4, Zenon DEF Applied
<1>6. ASSUME NEW k \in 1 .. r PROVE e[k] = Replaced(e[k - 1], hunks[r + 1 - k])
  <2>1. k \in 0 .. r /\ k # 0
    OBVIOUS
  <2> QED
    BY <2>1, <1>4, Zenon DEF Applied
<1> QED
  BY <1>1, <1>5, <1>6, Zenon DEF AppliedIs

(* Around the groups: where the lines behind one begin, and where the next *)
(* one does.                                                               *)
Behind(ops, i) == IF i = 0 THEN 1 ELSE End(ops, i) + 1
Ahead(ops, i)  ==
  IF i = Cardinality(Firsts(ops)) + 1 THEN Len(ops) + 1 ELSE Start(ops, i)

LEMMA Gaps ==
  ASSUME ContextLines \in Nat, NEW B, NEW ops \in Seq(B),
         NEW i \in 1 .. Cardinality(Firsts(ops)) + 1
  PROVE  /\ Behind(ops, i - 1) \in 1 .. Len(ops) + 1
         /\ Ahead(ops, i) \in Behind(ops, i - 1) .. Len(ops) + 1
         /\ \A k \in Behind(ops, i - 1) .. Ahead(ops, i) - 1 : ops[k].kind = "same"
<1> DEFINE r == Cardinality(Firsts(ops))
           n == Len(ops)
           b(j) == Start(ops, j)
           e(j) == End(ops, j)
<1>1. /\ r \in Nat /\ n \in Nat
      /\ \A j \in 1 .. r : b(j) \in 1 .. n /\ e(j) \in 1 .. n /\ b(j) <= e(j)
      /\ \A j, k \in 1 .. r : j < k => e(j) < b(k)
      /\ \A k \in Changed(ops) : \E j \in 1 .. r : b(j) <= k /\ k <= e(j)
  BY GroupFacts DEF Groups
<1> DEFINE x == Behind(ops, i - 1)
           y == Ahead(ops, i)
<1>2. x = IF i = 1 THEN 1 ELSE e(i - 1) + 1
  BY DEF Behind
<1>3. y = IF i = r + 1 THEN n + 1 ELSE b(i)
  BY DEF Ahead
<1>4. \A k \in 1 .. n : k \in Changed(ops) \/ ops[k].kind = "same"
  BY DEF Changed
<1> HIDE DEF r, n, b, e, x, y
<1>5. i \in 1 .. r + 1
  BY DEF r
<1>6. x \in 1 .. n + 1 /\ (i = 1 => x = 1) /\ (i # 1 => i - 1 \in 1 .. r /\ x = e(i - 1) + 1)
  BY <1>1, <1>2, <1>5
<1>7. y \in 1 .. n + 1 /\ (i # r + 1 => i \in 1 .. r /\ y = b(i))
  BY <1>1, <1>3, <1>5
<1>8. y \in x .. n + 1
  <2>1. CASE i = r + 1
    BY <2>1, <1>3, <1>6, <1>1
  <2>2. CASE i = 1
    BY <2>2, <1>6, <1>7, <1>1
  <2>3. CASE i # 1 /\ i # r + 1
    <3>1. e(i - 1) < b(i)
      BY <2>3, <1>1, <1>6, <1>7
    <3> QED
      BY <3>1, <2>3, <1>1, <1>6, <1>7
  <2> QED
    BY <2>1, <2>2, <2>3
<1>9. ASSUME NEW k \in x .. y - 1, ops[k].kind # "same" PROVE FALSE
  <2>1. k \in 1 .. n /\ x <= k /\ k < y
    BY <1>6, <1>7, <1>1
  <2>2. PICK j \in 1 .. r : b(j) <= k /\ k <= e(j)
    BY <2>1, <1>9, <1>4, <1>1
  <2>3. b(j) \in Int /\ e(j) \in Int /\ b(j) <= e(j)
    BY <1>1
  <2>4. CASE j < i
    <3>1. i - 1 \in 1 .. r /\ x = e(i - 1) + 1 /\ j <= i - 1
      BY <2>4, <1>5, <1>6, <1>1
    <3>2. b(i - 1) \in Int /\ e(i - 1) \in Int /\ b(i - 1) <= e(i - 1)
      BY <3>1, <1>1
    <3>3. j < i - 1 => e(j) < b(i - 1)
      BY <3>1, <1>1
    <3>4. j = i - 1 => e(j) = e(i - 1)
      OBVIOUS
    <3> QED
      BY <3>1, <3>2, <3>3, <3>4, <2>1, <2>2, <2>3
  <2>5. CASE j >= i
    <3>1. i \in 1 .. r /\ y = b(i)
      BY <2>5, <1>1, <1>5, <1>7
    <3>2. b(i) \in Int /\ e(i) \in Int /\ b(i) <= e(i)
      BY <3>1, <1>1
    <3>3. i < j => e(i) < b(j)
      BY <3>1, <1>1
    <3>4. i = j => b(i) = b(j)
      OBVIOUS
    <3> QED
      BY <3>1, <3>2, <3>3, <3>4, <2>1, <2>2, <2>3, <2>5, <1>5
  <2> QED
    BY <2>4, <2>5, <1>5
<1>10. \A k \in x .. y - 1 : ops[k].kind = "same"
  BY <1>9
<1> QED
  BY <1>6, <1>8, <1>10 DEF x, y, n
-----------------------------------------------------------------------------
(* For every two texts, the edit found for them turns the one into the     *)
(* other.                                                                  *)
THEOREM EditIsExact ==
  ASSUME ContextLines \in Nat, NEW A, NEW before \in Seq(A), NEW after \in Seq(A)
  PROVE  Apply(before, diffLines(before, after)) = after
<1> DEFINE ops == Operations(before, after)
           hunks == diffLines(before, after)
           r == Cardinality(Firsts(ops))
<1>1. ops \in Seq(Ops(A)) /\ LeadsFrom(before, after, ops, 1, 1)
  BY OperationsLead
<1>2. hunks = [i \in 1 .. r |-> Hunk(ops, Start(ops, i), End(ops, i))]
  BY Zenon DEF diffLines, Start, End, First
<1> HIDE DEF ops, hunks
<1>3. /\ r \in Nat
      /\ \A i \in 1 .. r : /\ Start(ops, i) \in 1 .. Len(ops)
                           /\ End(ops, i) \in Start(ops, i) .. Len(ops)
  BY <1>1, GroupFacts DEF Groups
<1>4. PICK o, a : Leads(before, after, ops, o, a) /\ o[1] = 1 /\ a[1] = 1
  BY <1>1, Zenon DEF LeadsFrom
<1> DEFINE At(k) == Spliced(before, after, o[k], a[k])
<1>5. ASSUME NEW i \in 1 .. r + 1 PROVE At(Behind(ops, i - 1)) = At(Ahead(ops, i))
  <2> SUFFICES ASSUME NEW f, f = Behind(ops, i - 1), NEW t, t = Ahead(ops, i)
               PROVE  At(f) = At(t)
    OBVIOUS
  <2>1. f \in 1 .. Len(ops) + 1 /\ t \in f .. Len(ops) + 1
        /\ \A k \in f .. t - 1 : ops[k].kind = "same"
    BY <1>1, Gaps
  <2> QED
    BY <2>1, <1>1, <1>4, Unchanged
<1>6. ASSUME NEW i \in 1 .. r
      PROVE  /\ Quotes(before, hunks[i])
             /\ Replaced(At(Behind(ops, i)), hunks[i]) = At(Ahead(ops, i))
  <2> SUFFICES ASSUME NEW f, f = Start(ops, i), NEW t, t = End(ops, i)
               PROVE  /\ Quotes(before, Hunk(ops, f, t))
                      /\ Replaced(At(t + 1), Hunk(ops, f, t)) = At(f)
    <3>1. Behind(ops, i) = End(ops, i) + 1 /\ Ahead(ops, i) = Start(ops, i)
      BY <1>3 DEF Behind, Ahead
    <3> QED
      BY <3>1, <1>2
  <2>1. f \in 1 .. Len(ops) /\ t \in f .. Len(ops)
    BY <1>3
  <2> QED
    BY <2>1, <1>1, <1>4, HunkJoins
<1>7. Len(hunks) = r /\ \A h \in Range(hunks) : Quotes(before, h)
  <2>1. Len(hunks) = r /\ DOMAIN hunks = 1 .. r
    BY <1>2, <1>3
  <2>2. \A i \in 1 .. r : Quotes(before, hunks[i])
    BY <1>6
  <2> QED
    BY <2>1, <2>2 DEF Range
<1>8. PICK e : /\ Apply(before, hunks) = e[r] /\ e[0] = before
               /\ \A k \in 1 .. r : e[k] = Replaced(e[k - 1], hunks[r + 1 - k])
  <2>1. Len(hunks) \in Nat /\ \A h \in Range(hunks) : Quotes(before, h)
    BY <1>3, <1>7
  <2>2. PICK e : AppliedIs(before, hunks, e)
    BY <2>1, ApplySteps
  <2> QED
    BY <2>2, <1>7, Zenon DEF AppliedIs
<1> HIDE DEF r, At
<1>9. \A k \in 0 .. r : e[k] = At(Behind(ops, r - k))
  <2> DEFINE S == {k \in 0 .. r : e[k] # At(Behind(ops, r - k))}
  <2> SUFFICES ASSUME NEW n \in S PROVE FALSE
    OBVIOUS
  <2>1. PICK k \in S : \A j \in S : k <= j
    <3>1. S \in SUBSET Nat
      BY <1>3
    <3> HIDE DEF S
    <3> QED
      BY <3>1, Least
  <2>2. k \in 0 .. r /\ e[k] # At(Behind(ops, r - k))
    OBVIOUS
  <2>3. CASE k = 0
    <3>1. At(Behind(ops, r)) = At(Ahead(ops, r + 1))
      <4>1. r + 1 \in 1 .. r + 1 /\ (r + 1) - 1 = r
        BY <1>3
      <4> QED
        BY <4>1, <1>5
    <3>2. Ahead(ops, r + 1) = Len(ops) + 1
      BY DEF Ahead, r
    <3>3. At(Len(ops) + 1) = before
      <4>1. o[Len(ops) + 1] = Len(before) + 1 /\ a[Len(ops) + 1] = Len(after) + 1
        BY <1>4, Zenon DEF Leads
      <4> QED
        BY <4>1, SplicedEnds DEF At
    <3>4. r - k = r
      BY <2>3, <1>3
    <3> QED
      BY <2>2, <2>3, <3>1, <3>2, <3>3, <3>4, <1>8
  <2>4. CASE k # 0
    <3> SUFFICES ASSUME NEW i, i = r + 1 - k PROVE FALSE
      OBVIOUS
    <3>1. /\ k - 1 \in 0 .. r /\ k - 1 < k /\ k \in 1 .. r
          /\ i \in 1 .. r /\ i \in 1 .. r + 1 /\ r - (k - 1) = i /\ r - k = i - 1
      BY <2>2, <2>4, <1>3
    <3>2. k - 1 \notin S
      BY <2>1, <2>2, <3>1, <1>3
    <3>3. e[k - 1] = At(Behind(ops, i))
      BY <3>1, <3>2
    <3>4. e[k] = Replaced(e[k - 1], hunks[i])
      BY <3>1, <1>8
    <3>5. Replaced(At(Behind(ops, i)), hunks[i]) = At(Ahead(ops, i))
      BY <3>1, <1>6
    <3>6. At(Behind(ops, i - 1)) = At(Ahead(ops, i))
      BY <3>1, <1>5
    <3> QED
      BY <2>2, <3>1, <3>3, <3>4, <3>5, <3>6
  <2> QED
    BY <2>3, <2>4
<1>10. e[r] = At(Behind(ops, 0))
  <2>1. r \in 0 .. r /\ r - r = 0
    BY <1>3
  <2> QED
    BY <2>1, <1>9
<1>11. At(Behind(ops, 0)) = after
  <2>1. Behind(ops, 0) = 1
    BY DEF Behind
  <2> QED
    BY <2>1, <1>4, SplicedEnds DEF At
<1> QED
  BY <1>8, <1>10, <1>11 DEF hunks
=============================================================================
