------------------------- MODULE SliceTableProofs -------------------------
(***************************************************************************)
(* The dispatch table's slice, for every set of plugins, manifest and      *)
(* number of requests: it keeps its types, it implements the list of       *)
(* RouteTable, additions never disturb a request in Dispatch, and what     *)
(* match chooses.                                                          *)
(*                                                                         *)
(* removeRoutes and append run over routes, so the proofs about them go by *)
(* induction on how many routes have been read.  The induction principle   *)
(* is stated for a set of numbers, and comes from the well-foundedness of  *)
(* the natural numbers.                                                    *)
(***************************************************************************)
EXTENDS SliceTable, SequenceTheorems, WellFoundedInduction, FiniteSetTheorems, TLAPS

----------------------------------------------------------------------------
(* Induction                                                               *)

\* A set of natural numbers that is not empty has a least element.
LEMMA LeastNumber ==
  ASSUME NEW S, S \subseteq Nat, S # {}
  PROVE  \E x \in S : \A y \in S : x <= y
<1>1. PICK x \in S : \A y \in S : ~ (<<y, x>> \in OpToRel(<, Nat))
  BY NatLessThanWellFounded, WFMin
<1>2. \A y \in S : ~ (y < x)
  BY <1>1 DEF OpToRel
<1>3. QED
  BY <1>2

\* A set with 0 and the successors of its numbers has every natural number.
LEMMA Induction ==
  ASSUME NEW S, 0 \in S, \A n \in Nat : n \in S => n + 1 \in S
  PROVE  Nat \subseteq S
<1> DEFINE T == Nat \ S
<1>1. SUFFICES ASSUME T # {} PROVE FALSE
  OBVIOUS
<1>2. PICK x \in T : \A y \in T : x <= y
  <2>1. T \subseteq Nat
    OBVIOUS
  <2> HIDE DEF T
  <2>2. QED
    BY <1>1, <2>1, LeastNumber
<1>3. x # 0 /\ x - 1 \in Nat /\ x - 1 \notin T
  BY <1>2
<1>4. x \in S
  BY <1>3
<1>5. QED
  BY <1>4

----------------------------------------------------------------------------
(* removeRoutes: what Without keeps                                        *)

\* One turn of the loop on s, and kept as its function on the first m entries.
Turn(kept, s, id, n) ==
  IF n = 0 THEN << >>
  ELSE IF s[n].id # id THEN Append(kept[n - 1], s[n]) ELSE kept[n - 1]

Loop(kept, s, id, m) == kept = [n \in 0..m |-> Turn(kept, s, id, n)]

\* The function's values.
LEMMA LoopTurn ==
  ASSUME NEW kept, NEW s, NEW id, NEW m, Loop(kept, s, id, m), NEW n \in 0..m
  PROVE  kept[n] = Turn(kept, s, id, n)
<1> DEFINE f == [k \in 0..m |-> Turn(kept, s, id, k)]
<1>1. f[n] = Turn(kept, s, id, n)
  OBVIOUS
<1>2. kept = f
  BY DEF Loop
<1> HIDE DEF f
<1>3. QED
  BY <1>1, <1>2

\* The loop's function exists, for any number of turns.
LEMMA LoopExists ==
  ASSUME NEW s, NEW id
  PROVE  \A m \in Nat : \E kept : Loop(kept, s, id, m)
<1> DEFINE S == {m \in Nat : \E kept : Loop(kept, s, id, m)}
<1>1. 0 \in S
  <2>1. Loop([n \in 0..0 |-> << >>], s, id, 0)
    BY DEF Loop, Turn
  <2>2. QED
    BY <2>1
<1>2. ASSUME NEW m \in Nat, m \in S PROVE m + 1 \in S
  <2>1. PICK kept : Loop(kept, s, id, m)
    BY <1>2
  <2> DEFINE more == [n \in 0..(m + 1) |->
                        IF n \in 0..m THEN kept[n] ELSE Turn(kept, s, id, n)]
  <2>2. ASSUME NEW n \in 0..(m + 1)
        PROVE  more[n] = Turn(more, s, id, n)
    <3>1. n # 0 => more[n - 1] = kept[n - 1]
      OBVIOUS
    <3>2. more[n] = Turn(kept, s, id, n)
      BY <2>1, LoopTurn
    <3> HIDE DEF more
    <3>3. QED
      BY <3>1, <3>2 DEF Turn
  <2>3. Loop(more, s, id, m + 1)
    <3> DEFINE other == [n \in 0..(m + 1) |-> Turn(more, s, id, n)]
    <3>1. \A n \in 0..(m + 1) : more[n] = other[n]
      BY <2>2
    <3>2. more = other
      BY <3>1
    <3>3. QED
      BY <3>2 DEF Loop
  <2>4. QED
    BY <2>3
<1>3. QED
  <2> HIDE DEF S
  <2>1. Nat \subseteq S
    BY <1>1, <1>2, Induction
  <2>2. QED
    BY <2>1 DEF S

\* Without computes its loop's function.
LEMMA WithoutLoop ==
  ASSUME NEW s, Len(s) \in Nat, NEW id
  PROVE  \E kept : Loop(kept, s, id, Len(s)) /\ List!Without(s, id) = kept[Len(s)]
<1> DEFINE kept == CHOOSE kept : Loop(kept, s, id, Len(s))
<1>1. Loop(kept, s, id, Len(s))
  BY LoopExists
<1>2. List!Without(s, id) = kept[Len(s)]
  BY DEF List!Without, Loop, Turn
<1>3. QED
  BY <1>1, <1>2

\* What the loop has kept: entries of s that are not of the id, and all of
\* them, in place, when there is none of the id.
LEMMA WithoutFacts ==
  ASSUME NEW E, NEW s \in Seq(E), NEW id
  PROVE  /\ List!Without(s, id) \in Seq(E)
         /\ Len(List!Without(s, id)) <= Len(s)
         /\ \A j \in 1..Len(List!Without(s, id)) : List!Without(s, id)[j].id # id
         /\ (\A j \in 1..Len(s) : s[j].id # id) => List!Without(s, id) = s
<1>1. PICK kept : Loop(kept, s, id, Len(s)) /\ List!Without(s, id) = kept[Len(s)]
  BY WithoutLoop
<1> DEFINE Good(n) == /\ kept[n] \in Seq(E)
                      /\ Len(kept[n]) <= n
                      /\ \A j \in 1..Len(kept[n]) : kept[n][j].id # id
                      /\ (\A j \in 1..Len(s) : s[j].id # id)
                            => Len(kept[n]) = n /\ \A j \in 1..n : kept[n][j] = s[j]
           S == {n \in Nat : n <= Len(s) => Good(n)}
<1>2. 0 \in S
  <2>1. kept[0] = << >>
    BY <1>1, LoopTurn, 0 \in 0..Len(s) DEF Turn
  <2>2. Good(0)
    BY <2>1
  <2>3. QED
    BY <2>2
<1>3. ASSUME NEW n \in Nat, n \in S PROVE n + 1 \in S
  <2>1. SUFFICES ASSUME n + 1 <= Len(s) PROVE Good(n + 1)
    OBVIOUS
  <2>2. Good(n)
    BY <1>3, <2>1
  <2>3. kept[n + 1] = IF s[n + 1].id # id THEN Append(kept[n], s[n + 1]) ELSE kept[n]
    BY <1>1, <2>1, LoopTurn, n + 1 \in 0..Len(s) DEF Turn
  <2>4. s[n + 1] \in E
    BY <2>1
  <2>5. CASE s[n + 1].id = id
    BY <2>1, <2>2, <2>3, <2>5
  <2>6. CASE s[n + 1].id # id
    <3>1. kept[n + 1] = Append(kept[n], s[n + 1])
      BY <2>3, <2>6
    <3>2. /\ kept[n + 1] \in Seq(E)
          /\ Len(kept[n + 1]) = Len(kept[n]) + 1
          /\ kept[n + 1][Len(kept[n]) + 1] = s[n + 1]
          /\ \A j \in 1..Len(kept[n]) : kept[n + 1][j] = kept[n][j]
      BY <2>2, <2>4, <3>1, AppendProperties
    <3>3. \A j \in 1..Len(kept[n + 1]) : kept[n + 1][j].id # id
      <4>1. \A j \in 1..Len(kept[n + 1]) : j \in 1..Len(kept[n]) \/ j = Len(kept[n]) + 1
        BY <2>2, <3>2
      <4>2. QED
        BY <2>2, <2>6, <3>2, <4>1
    <3>4. ASSUME \A j \in 1..Len(s) : s[j].id # id
          PROVE  Len(kept[n + 1]) = n + 1 /\ \A j \in 1..(n + 1) : kept[n + 1][j] = s[j]
      <4>1. Len(kept[n]) = n /\ \A j \in 1..n : kept[n][j] = s[j]
        BY <2>2, <3>4
      <4>2. \A j \in 1..(n + 1) : j \in 1..n \/ j = n + 1
        OBVIOUS
      <4>3. QED
        BY <3>2, <4>1, <4>2
    <3>5. Len(kept[n + 1]) <= n + 1
      BY <2>2, <3>2
    <3>6. QED
      BY <3>2, <3>3, <3>4, <3>5
  <2>7. QED
    BY <2>5, <2>6
<1>4. Good(Len(s))
  <2> HIDE DEF S
  <2>1. Nat \subseteq S
    BY <1>2, <1>3, Induction
  <2>2. QED
    BY <2>1 DEF S
<1>5. (\A j \in 1..Len(s) : s[j].id # id) => kept[Len(s)] = s
  BY <1>4, SeqEqual
<1>6. QED
  BY <1>1, <1>4, <1>5

----------------------------------------------------------------------------
(* removeRoutes and append on the arrays                                   *)

Cells == AllEntries \cup {NoEntry}

\* There is an array, and it has room for the slice.
TableOK(t) ==
  /\ t.heap \in Seq(Seq(Cells))
  /\ Len(t.heap) \in Nat \ {0}
  /\ t.len \in 0..Len(t.heap[Len(t.heap)])

\* The cells of the newest array, and the slice.
Cell(t, i) == t.heap[Len(t.heap)][i]
Slice(t) == SubSeq(t.heap[Len(t.heap)], 1, t.len)

\* Every cell of t is still there in u, and one that was written stays so.
SameCells(t, u) ==
  /\ Len(t.heap) <= Len(u.heap)
  /\ \A a \in 1..Len(t.heap) :
       /\ Len(u.heap[a]) = Len(t.heap[a])
       /\ \A i \in 1..Len(t.heap[a]) : t.heap[a][i] \in AllEntries => u.heap[a][i] \in AllEntries

\* u has grown from t: the slice of t, and the arrays before it, are as they were.
Grown(t, u) ==
  /\ SameCells(t, u)
  /\ t.len <= u.len
  /\ \A a \in 1..Len(t.heap) : \A i \in 1..Len(t.heap[a]) :
       a # Len(t.heap) \/ i <= t.len => u.heap[a][i] = t.heap[a][i]

\* The slice of a table, cell by cell.
LEMMA SliceCells ==
  ASSUME NEW t, TableOK(t)
  PROVE  /\ Slice(t) \in Seq(Cells)
         /\ Len(Slice(t)) = t.len
         /\ \A i \in 1..t.len : Slice(t)[i] = Cell(t, i)
<1>1. t.heap[Len(t.heap)] \in Seq(Cells) /\ t.len \in Nat /\ t.len <= Len(t.heap[Len(t.heap)])
  BY DEF TableOK
<1>2. QED
  BY <1>1 DEF Slice, Cell

\* removeRoutes on the arrays: the slice loses the routes of id, nothing is
\* cleared, and nothing at all happens when there are none.
LEMMA CompactFacts ==
  ASSUME NEW t, TableOK(t), Slice(t) \in Seq(AllEntries), NEW id
  PROVE  LET u == Compact(t, id)
         IN /\ TableOK(u)
            /\ Len(u.heap) = Len(t.heap)
            /\ SameCells(t, u)
            /\ Slice(u) = List!Without(Slice(t), id)
            /\ (\A i \in 1..t.len : Cell(t, i).id # id) => u.heap = t.heap /\ u.len = t.len
<1> DEFINE N     == Len(t.heap)
           array == t.heap[N]
           kept  == List!Without(Slice(t), id)
           rest  == SubSeq(array, Len(kept) + 1, Len(array))
           u     == Compact(t, id)
<1>1. /\ t.heap \in Seq(Seq(Cells)) /\ N \in Nat \ {0} /\ N \in DOMAIN t.heap
      /\ array \in Seq(Cells) /\ t.len \in Nat /\ t.len <= Len(array)
  BY DEF TableOK
<1>2. kept \in Seq(AllEntries) /\ Len(kept) \in Nat /\ Len(kept) <= t.len
  BY <1>1, SliceCells, WithoutFacts, LenProperties
<1>3. kept \in Seq(Cells)
  BY <1>2, SeqMonotonic DEF Cells
<1>4. u.heap = [t.heap EXCEPT ![N] = kept \o rest] /\ u.len = Len(kept)
  BY DEF Compact, Slice, Last
<1>5. /\ rest \in Seq(Cells) /\ Len(rest) = Len(array) - Len(kept)
      /\ \A i \in 1..Len(rest) : rest[i] = array[Len(kept) + i]
  BY <1>1, <1>2
<1> HIDE DEF u, kept, rest
<1>6. /\ kept \o rest \in Seq(Cells) /\ Len(kept \o rest) = Len(array)
      /\ \A i \in 1..Len(kept) : (kept \o rest)[i] = kept[i]
      /\ \A i \in 1..Len(array) : i > Len(kept) => (kept \o rest)[i] = array[i]
  BY <1>1, <1>2, <1>3, <1>5
<1>7. /\ u.heap \in Seq(Seq(Cells)) /\ Len(u.heap) = N /\ u.heap[N] = kept \o rest
      /\ \A a \in 1..N : a # N => u.heap[a] = t.heap[a]
  BY <1>1, <1>4, <1>6, ExceptSeq
<1>8. TableOK(u)
  BY <1>1, <1>2, <1>4, <1>6, <1>7 DEF TableOK
<1>9. SameCells(t, u)
  <2>1. \A a \in 1..N : Len(u.heap[a]) = Len(t.heap[a])
    BY <1>6, <1>7
  <2>2. ASSUME NEW a \in 1..N, NEW i \in 1..Len(t.heap[a]), t.heap[a][i] \in AllEntries
        PROVE  u.heap[a][i] \in AllEntries
    <3>1. CASE a # N
      BY <1>7, <2>2, <3>1
    <3>2. CASE a = N /\ i <= Len(kept)
      <4>1. i \in 1..Len(kept)
        BY <1>2, <3>2
      <4>2. kept[i] \in AllEntries
        BY <1>2, <4>1
      <4>3. QED
        BY <1>6, <1>7, <3>2, <4>1, <4>2
    <3>3. CASE a = N /\ i > Len(kept)
      BY <1>6, <1>7, <2>2, <3>3
    <3>4. QED
      BY <1>1, <1>2, <3>1, <3>2, <3>3
  <2>3. QED
    BY <1>1, <1>7, <2>1, <2>2 DEF SameCells
<1>10. Slice(u) = kept
  <2>1. Slice(u) \in Seq(Cells) /\ Len(Slice(u)) = Len(kept)
        /\ \A i \in 1..Len(kept) : Slice(u)[i] = kept[i]
    <3>1. \A i \in 1..Len(kept) : Cell(u, i) = kept[i]
      BY <1>6, <1>7 DEF Cell
    <3>2. QED
      BY <1>4, <1>8, <3>1, SliceCells
  <2>2. QED
    BY <1>3, <2>1, SeqEqual
<1>11. ASSUME \A i \in 1..t.len : Cell(t, i).id # id
       PROVE  u.heap = t.heap /\ u.len = t.len
  <2>1. kept = Slice(t)
    BY <1>11, SliceCells, WithoutFacts DEF kept
  <2>2. Len(kept) = t.len /\ \A i \in 1..t.len : kept[i] = array[i]
    BY <2>1, SliceCells DEF Cell
  <2>3. \A i \in 1..Len(array) : (kept \o rest)[i] = array[i]
    BY <1>1, <1>6, <2>2, SMTT(30)
  <2>4. kept \o rest = array
    BY <1>1, <1>6, <2>3, SeqEqual, ZenonT(60)
  <2>5. u.heap = t.heap
    BY <1>1, <1>4, <2>4, SMTT(30)
  <2>6. QED
    BY <1>4, <2>2, <2>5
<1>12. QED
  BY <1>7, <1>8, <1>9, <1>10, <1>11 DEF u, kept

\* One append.
LEMMA AppendFacts ==
  ASSUME NEW t, TableOK(t), NEW e \in AllEntries
  PROVE  LET u == AppendEntry(t, e)
         IN /\ TableOK(u)
            /\ Grown(t, u)
            /\ u.len = t.len + 1
            /\ \A i \in 1..t.len : Cell(u, i) = Cell(t, i)
            /\ Cell(u, t.len + 1) = e
<1> DEFINE N     == Len(t.heap)
           array == t.heap[N]
           u     == AppendEntry(t, e)
<1>1. /\ t.heap \in Seq(Seq(Cells)) /\ N \in Nat \ {0} /\ N \in DOMAIN t.heap
      /\ array \in Seq(Cells) /\ Len(array) \in Nat /\ t.len \in Nat /\ t.len <= Len(array)
  BY DEF TableOK
<1>2. e \in Cells /\ AllEntries \subseteq Cells
  BY DEF Cells
<1>3. u.len = t.len + 1
  BY DEF AppendEntry
<1>4. CASE t.len < Len(array)
  <2> DEFINE written == [array EXCEPT ![t.len + 1] = e]
  <2>1. u.heap = [t.heap EXCEPT ![N] = written]
    BY <1>4 DEF AppendEntry, Last
  <2>2. /\ written \in Seq(Cells) /\ Len(written) = Len(array)
        /\ written[t.len + 1] = e
        /\ \A i \in 1..Len(array) : i # t.len + 1 => written[i] = array[i]
    BY <1>1, <1>2, <1>4, ExceptSeq
  <2> HIDE DEF u, written
  <2>3. /\ u.heap \in Seq(Seq(Cells)) /\ Len(u.heap) = N /\ u.heap[N] = written
        /\ \A a \in 1..N : a # N => u.heap[a] = t.heap[a]
    BY <1>1, <2>1, <2>2, ExceptSeq
  <2>4. TableOK(u)
    BY <1>1, <1>3, <1>4, <2>2, <2>3 DEF TableOK
  <2>5. \A a \in 1..N : Len(u.heap[a]) = Len(t.heap[a])
    BY <2>2, <2>3
  <2>6. ASSUME NEW a \in 1..N, NEW i \in 1..Len(t.heap[a])
        PROVE  /\ t.heap[a][i] \in AllEntries => u.heap[a][i] \in AllEntries
               /\ a # N \/ i <= t.len => u.heap[a][i] = t.heap[a][i]
    <3>1. CASE a # N
      BY <2>3, <3>1
    <3>2. CASE a = N
      <4>1. i = t.len + 1 => u.heap[a][i] = e
        BY <2>2, <2>3, <3>2
      <4>2. i # t.len + 1 => u.heap[a][i] = t.heap[a][i]
        BY <2>2, <2>3, <3>2
      <4>3. i <= t.len => i # t.len + 1
        BY <1>1
      <4>4. QED
        BY <3>2, <4>1, <4>2, <4>3
    <3>3. QED
      BY <3>1, <3>2
  <2>7. Grown(t, u)
    BY <1>1, <1>3, <2>3, <2>5, <2>6 DEF Grown, SameCells
  <2>8. \A i \in 1..t.len : Cell(u, i) = Cell(t, i)
    BY <1>1, <2>2, <2>3, SMTT(30) DEF Cell
  <2>9. Cell(u, t.len + 1) = e
    BY <2>2, <2>3, SMTT(30) DEF Cell
  <2>10. QED
    BY <1>3, <2>4, <2>7, <2>8, <2>9 DEF u
<1>5. CASE ~(t.len < Len(array))
  <2> DEFINE free == [i \in 1..(t.len - 1) |-> NoEntry]
             grown == array \o <<e>> \o free
  <2>1. u.heap = Append(t.heap, grown)
    BY <1>5 DEF AppendEntry, Last
  <2>2. free \in Seq(Cells)
    <3>1. CASE t.len = 0
      <4>1. 1..(t.len - 1) = {}
        BY <3>1
      <4>2. free = << >>
        BY <4>1
      <4> HIDE DEF free
      <4>3. QED
        BY <4>2, EmptySeq
    <3>2. CASE t.len # 0
      <4>1. t.len - 1 \in Nat
        BY <1>1, <3>2
      <4>2. \A i \in 1..(t.len - 1) : NoEntry \in Cells
        BY DEF Cells
      <4>3. QED
        BY <4>1, <4>2, IsASeq
    <3>3. QED
      BY <3>1, <3>2
  <2> HIDE DEF free
  <2>3. /\ grown \in Seq(Cells) /\ Len(grown) >= Len(array) + 1
        /\ \A i \in 1..Len(array) : grown[i] = array[i]
        /\ grown[Len(array) + 1] = e
    <3>1. /\ array \o <<e>> \in Seq(Cells) /\ Len(array \o <<e>>) = Len(array) + 1
          /\ \A i \in 1..Len(array) : (array \o <<e>>)[i] = array[i]
          /\ (array \o <<e>>)[Len(array) + 1] = e
      BY <1>1, <1>2
    <3>2. QED
      BY <1>1, <2>2, <3>1, ConcatProperties, LenProperties
  <2>4. t.len = Len(array)
    BY <1>1, <1>5
  <2> HIDE DEF u, grown
  <2>5. /\ u.heap \in Seq(Seq(Cells)) /\ Len(u.heap) = N + 1 /\ u.heap[N + 1] = grown
        /\ \A a \in 1..N : u.heap[a] = t.heap[a]
    BY <1>1, <2>1, <2>3, AppendProperties
  <2>6. TableOK(u)
    BY <1>1, <1>3, <2>3, <2>4, <2>5 DEF TableOK
  <2>7. Grown(t, u)
    <3>1. N <= Len(u.heap) /\ t.len <= u.len
      BY <1>1, <1>3, <2>5
    <3>2. \A a \in 1..Len(t.heap) : u.heap[a] = t.heap[a]
      BY <2>5
    <3>3. QED
      BY <3>1, <3>2 DEF Grown, SameCells
  <2>8. \A i \in 1..t.len : Cell(u, i) = Cell(t, i)
    BY <2>3, <2>4, <2>5 DEF Cell
  <2>9. Cell(u, t.len + 1) = e
    BY <2>3, <2>4, <2>5 DEF Cell
  <2>10. QED
    BY <1>3, <2>6, <2>7, <2>8, <2>9 DEF u
<1>6. QED
  BY <1>4, <1>5

\* Growing and growing again is growing.
LEMMA GrownTransitive ==
  ASSUME NEW t, NEW u, NEW v, TableOK(t), TableOK(u), TableOK(v), Grown(t, u), Grown(u, v)
  PROVE  Grown(t, v)
<1>1. /\ Len(t.heap) \in Nat /\ Len(u.heap) \in Nat /\ Len(v.heap) \in Nat
      /\ t.len \in Nat /\ u.len \in Nat /\ v.len \in Nat
  BY DEF TableOK
<1>2. Len(t.heap) <= Len(u.heap) /\ Len(u.heap) <= Len(v.heap) /\ t.len <= u.len /\ u.len <= v.len
  BY DEF Grown, SameCells
<1>3. Len(t.heap) <= Len(v.heap) /\ t.len <= v.len
  BY <1>1, <1>2
<1>4. ASSUME NEW a \in 1..Len(t.heap)
      PROVE  Len(v.heap[a]) = Len(t.heap[a]) /\ Len(u.heap[a]) = Len(t.heap[a]) /\ a \in 1..Len(u.heap)
  <2>1. a \in 1..Len(u.heap)
    BY <1>1, <1>2
  <2>2. QED
    BY <2>1 DEF Grown, SameCells
<1>5. ASSUME NEW a \in 1..Len(t.heap), NEW i \in 1..Len(t.heap[a])
      PROVE  /\ t.heap[a][i] \in AllEntries => v.heap[a][i] \in AllEntries
             /\ a # Len(t.heap) \/ i <= t.len => v.heap[a][i] = t.heap[a][i]
  <2>1. a \in 1..Len(u.heap) /\ i \in 1..Len(u.heap[a])
    BY <1>4
  <2>2. i \in Int
    <3>1. t.heap[a] \in Seq(Cells)
      BY DEF TableOK
    <3>2. Len(t.heap[a]) \in Nat
      BY <3>1
    <3>3. QED
      BY <3>2
  <2>3. a # Len(t.heap) \/ i <= t.len => a # Len(u.heap) \/ i <= u.len
    BY <1>1, <1>2, <2>2
  <2>4. QED
    BY <2>1, <2>3 DEF Grown, SameCells
<1>6. QED
  BY <1>3, <1>4, <1>5 DEF Grown, SameCells

\* The loop of AddRoutes, as a function on its first m routes.
Appending(t, entries, after, n) ==
  IF n = 0 THEN t ELSE AppendEntry(after[n - 1], entries[n])

AppendLoop(after, t, entries, m) == after = [n \in 0..m |-> Appending(t, entries, after, n)]

\* The function's values.
LEMMA AppendLoopTurn ==
  ASSUME NEW after, NEW t, NEW entries, NEW m, AppendLoop(after, t, entries, m), NEW n \in 0..m
  PROVE  after[n] = Appending(t, entries, after, n)
<1> DEFINE f == [k \in 0..m |-> Appending(t, entries, after, k)]
<1>1. f[n] = Appending(t, entries, after, n)
  OBVIOUS
<1>2. after = f
  BY DEF AppendLoop
<1> HIDE DEF f
<1>3. QED
  BY <1>1, <1>2

\* The loop's function exists, for any number of turns.
LEMMA AppendLoopExists ==
  ASSUME NEW t, NEW entries
  PROVE  \A m \in Nat : \E after : AppendLoop(after, t, entries, m)
<1> DEFINE S == {m \in Nat : \E after : AppendLoop(after, t, entries, m)}
<1>1. 0 \in S
  <2>1. AppendLoop([n \in 0..0 |-> t], t, entries, 0)
    <3>1. ASSUME NEW n \in 0..0 PROVE Appending(t, entries, [k \in 0..0 |-> t], n) = t
      BY DEF Appending
    <3>2. QED
      BY <3>1 DEF AppendLoop
  <2>2. QED
    BY <2>1
<1>2. ASSUME NEW m \in Nat, m \in S PROVE m + 1 \in S
  <2>1. PICK after : AppendLoop(after, t, entries, m)
    BY <1>2
  <2> DEFINE more == [n \in 0..(m + 1) |->
                        IF n \in 0..m THEN after[n] ELSE Appending(t, entries, after, n)]
  <2>2. ASSUME NEW n \in 0..(m + 1)
        PROVE  more[n] = Appending(t, entries, more, n)
    <3>1. n # 0 => more[n - 1] = after[n - 1]
      OBVIOUS
    <3>2. more[n] = Appending(t, entries, after, n)
      BY <2>1, AppendLoopTurn
    <3> HIDE DEF more
    <3>3. QED
      BY <3>1, <3>2 DEF Appending
  <2>3. AppendLoop(more, t, entries, m + 1)
    <3> DEFINE other == [n \in 0..(m + 1) |-> Appending(t, entries, more, n)]
    <3>1. \A n \in 0..(m + 1) : more[n] = other[n]
      BY <2>2
    <3>2. more = other
      BY <3>1
    <3>3. QED
      BY <3>2 DEF AppendLoop
  <2>4. QED
    BY <2>3
<1>3. QED
  <2> HIDE DEF S
  <2>1. Nat \subseteq S
    BY <1>1, <1>2, Induction
  <2>2. QED
    BY <2>1 DEF S

\* All the appends of AddRoutes: the routes follow the slice, in their order,
\* and nothing a request may be reading has changed.
LEMMA AppendAllFacts ==
  ASSUME NEW t, TableOK(t), NEW entries \in Seq(AllEntries)
  PROVE  LET u == AppendAll(t, entries)
         IN /\ TableOK(u)
            /\ Grown(t, u)
            /\ Slice(u) = Slice(t) \o entries
<1> DEFINE after == CHOOSE f : AppendLoop(f, t, entries, Len(entries))
           u     == AppendAll(t, entries)
<1>0. Len(entries) \in Nat
  OBVIOUS
<1>1. AppendLoop(after, t, entries, Len(entries))
  BY <1>0, AppendLoopExists
<1>2. u = after[Len(entries)]
  BY DEF AppendAll, AppendLoop, Appending
<1> HIDE DEF after, u
<1> DEFINE Good(n) == /\ TableOK(after[n])
                      /\ Grown(t, after[n])
                      /\ after[n].len = t.len + n
                      /\ \A i \in 1..t.len : Cell(after[n], i) = Cell(t, i)
                      /\ \A i \in 1..n : Cell(after[n], t.len + i) = entries[i]
           S == {n \in Nat : n <= Len(entries) => Good(n)}
<1>3. t.len \in Nat
  BY DEF TableOK
<1>4. 0 \in S
  <2>1. after[0] = t
    BY <1>1, AppendLoopTurn, 0 \in 0..Len(entries) DEF Appending
  <2>2. Grown(t, t)
    BY <1>3 DEF Grown, SameCells, TableOK
  <2>3. Good(0)
    BY <1>3, <2>1, <2>2
  <2>4. QED
    BY <2>3
<1>5. ASSUME NEW n \in Nat, n \in S PROVE n + 1 \in S
  <2> HIDE DEF Good
  <2>1. SUFFICES ASSUME n + 1 <= Len(entries) PROVE Good(n + 1)
    OBVIOUS
  <2>2. Good(n)
    BY <1>0, <1>5, <2>1
  <2> USE DEF Good
  <2>a. after[n].len = t.len + n
    BY <2>2
  <2>3. after[n + 1] = AppendEntry(after[n], entries[n + 1])
    BY <1>1, <2>1, AppendLoopTurn, n + 1 \in 0..Len(entries) DEF Appending
  <2>4. entries[n + 1] \in AllEntries
    BY <2>1
  <2>5. /\ TableOK(after[n + 1])
        /\ Grown(after[n], after[n + 1])
        /\ after[n + 1].len = after[n].len + 1
        /\ \A i \in 1..after[n].len : Cell(after[n + 1], i) = Cell(after[n], i)
        /\ Cell(after[n + 1], after[n].len + 1) = entries[n + 1]
    BY <2>2, <2>3, <2>4, AppendFacts
  <2>6. Grown(t, after[n + 1])
    BY <2>2, <2>5, GrownTransitive
  <2>7. \A i \in 1..t.len : Cell(after[n + 1], i) = Cell(t, i)
    <3>1. \A i \in 1..t.len : i \in 1..after[n].len
      BY <1>3, <2>2
    <3>2. QED
      BY <2>2, <2>5, <3>1
  <2>8. ASSUME NEW i \in 1..(n + 1) PROVE Cell(after[n + 1], t.len + i) = entries[i]
    <3>1. CASE i = n + 1
      <4>1. t.len + i = after[n].len + 1
        BY <1>3, <2>a, <3>1
      <4>2. QED
        BY <2>5, <3>1, <4>1
    <3>2. CASE i # n + 1
      <4>1. i \in 1..n /\ t.len + i \in 1..after[n].len
        BY <1>3, <2>a, <3>2
      <4>2. QED
        BY <2>2, <2>5, <4>1
    <3>3. QED
      BY <3>1, <3>2
  <2>9. after[n + 1].len = t.len + (n + 1)
    <3>1. after[n + 1].len = after[n].len + 1
      BY <2>5
    <3>2. QED
      BY <1>3, <2>a, <3>1
  <2>10. QED
    BY <2>5, <2>6, <2>7, <2>8, <2>9
<1>6. Good(Len(entries))
  <2> HIDE DEF S
  <2>1. Nat \subseteq S
    BY <1>4, <1>5, Induction
  <2>2. QED
    BY <2>1 DEF S
<1> HIDE DEF S
<1>7. Slice(u) = Slice(t) \o entries
  <2>1. /\ Slice(u) \in Seq(Cells) /\ Len(Slice(u)) = t.len + Len(entries)
        /\ \A i \in 1..(t.len + Len(entries)) : Slice(u)[i] = Cell(u, i)
    BY <1>2, <1>6, SliceCells
  <2>2. Slice(t) \in Seq(Cells) /\ Len(Slice(t)) = t.len /\ \A i \in 1..t.len : Slice(t)[i] = Cell(t, i)
    BY SliceCells
  <2>3. entries \in Seq(Cells)
    BY SeqMonotonic DEF Cells
  <2> DEFINE both == Slice(t) \o entries
  <2>4. /\ both \in Seq(Cells) /\ Len(both) = t.len + Len(entries)
        /\ \A i \in 1..t.len : both[i] = Slice(t)[i]
        /\ \A i \in 1..Len(entries) : both[t.len + i] = entries[i]
    BY <1>0, <1>3, <2>2, <2>3
  <2>5. ASSUME NEW i \in 1..(t.len + Len(entries)) PROVE Slice(u)[i] = both[i]
    <3>1. CASE i <= t.len
      <4>1. i \in 1..t.len
        BY <1>0, <1>3, <3>1
      <4>2. QED
        BY <1>2, <1>6, <2>1, <2>2, <2>4, <4>1
    <3>2. CASE ~(i <= t.len)
      <4>1. i - t.len \in 1..Len(entries) /\ i = t.len + (i - t.len)
        BY <1>0, <1>3, <3>2
      <4>2. Cell(u, i) = entries[i - t.len] /\ both[i] = entries[i - t.len]
        BY <1>2, <1>6, <2>4, <4>1
      <4>3. QED
        BY <2>1, <4>2
    <3>3. QED
      BY <3>1, <3>2
  <2> HIDE DEF both
  <2>6. Slice(u) = both
    BY <2>1, <2>4, <2>5, SeqEqual
  <2>7. QED
    BY <2>6 DEF both
<1>8. QED
  BY <1>2, <1>6, <1>7 DEF u

----------------------------------------------------------------------------
(* The operations on the table, in a state                                 *)

table == [heap |-> heap, len |-> len]

\* The routes of a plugin carry its id, and every entry is of some plugin.
LEMMA EntriesFacts ==
  /\ \A id \in Ids : /\ Entries(id) \in Seq(AllEntries)
                     /\ \A i \in 1..Len(Entries(id)) : Entries(id)[i].id = id
  /\ \A e \in AllEntries : e.id \in Ids
<1>1. ASSUME NEW id \in Ids
      PROVE  /\ Len(Manifest[id]) \in Nat
             /\ DOMAIN Entries(id) = 1..Len(Manifest[id])
             /\ \A i \in 1..Len(Manifest[id]) : Entries(id)[i].id = id
  BY TableAssumption DEF Entries
<1>2. ASSUME NEW id \in Ids
      PROVE  Entries(id) \in Seq(AllEntries) /\ Len(Entries(id)) = Len(Manifest[id])
  <2>1. \A i \in 1..Len(Manifest[id]) : Entries(id)[i] \in AllEntries
    BY <1>1 DEF AllEntries, Range
  <2>2. \A i \in 1..Len(Manifest[id]) : [id |-> id, route |-> Manifest[id][i]] \in AllEntries
    BY <2>1 DEF Entries
  <2>3. Entries(id) \in Seq(AllEntries)
    BY <1>1, <2>2, IsASeq DEF Entries
  <2>4. QED
    BY <1>1, <2>3, LenProperties
<1>3. \A e \in AllEntries : e.id \in Ids
  <2>1. SUFFICES ASSUME NEW e \in AllEntries PROVE e.id \in Ids
    OBVIOUS
  <2>2. PICK id \in Ids : e \in Range(Entries(id))
    BY DEF AllEntries
  <2>3. PICK i \in DOMAIN Entries(id) : e = Entries(id)[i]
    BY <2>2 DEF Range
  <2>4. QED
    BY <1>1, <2>2, <2>3
<1>4. QED
  BY <1>1, <1>2, <1>3

\* The table of a state, and its slice.
LEMMA TableOfState ==
  ASSUME IndInv
  PROVE  /\ TableOK(table)
         /\ table.heap = heap /\ table.len = len
         /\ Slice(table) = Routes
         /\ Routes \in Seq(AllEntries)
         /\ Len(Routes) = len
         /\ \A i \in 1..len : Routes[i] = heap[Newest][i] /\ Cell(table, i) = heap[Newest][i]
<1>1. table.heap = heap /\ table.len = len
  BY DEF table
<1>2. heap \in Seq(Seq(Cells)) /\ heap # << >> /\ len \in 0..Len(heap[Newest])
  BY DEF IndInv, HeapTypes, Cells
<1>3. Len(heap) \in Nat \ {0}
  BY <1>2, EmptySeq, LenProperties
<1>4. TableOK(table)
  BY <1>1, <1>2, <1>3 DEF TableOK, Newest
<1>5. Slice(table) = Routes
  BY <1>1 DEF Slice, Routes, Newest
<1>6. \A i \in 1..len : Cell(table, i) = heap[Newest][i]
  BY <1>1 DEF Cell, Newest
<1>7. Routes \in Seq(Cells) /\ Len(Routes) = len /\ \A i \in 1..len : Routes[i] = heap[Newest][i]
  BY <1>1, <1>4, <1>5, <1>6, SliceCells
<1>8. \A i \in 1..len : Routes[i] \in AllEntries
  BY <1>7 DEF IndInv, SliceOwned
<1>9. Routes = [i \in 1..len |-> Routes[i]]
  BY <1>7
<1>10. Routes \in Seq(AllEntries)
  <2>1. [i \in 1..len |-> Routes[i]] \in Seq(AllEntries)
    BY <1>2, <1>8, IsASeq
  <2>2. QED
    BY <1>9, <2>1
<1>11. QED
  BY <1>1, <1>4, <1>5, <1>6, <1>7, <1>10

\* A table a step leaves behind is the next state's.
LEMMA TableAfter ==
  ASSUME NEW u, TableOK(u), heap' = u.heap, len' = u.len
  PROVE  HeapTypes' /\ Routes' = Slice(u) /\ Newest' = Len(u.heap)
<1>1. u.heap # << >>
  BY EmptySeq DEF TableOK
<1>2. QED
  BY <1>1 DEF TableOK, HeapTypes, Cells, Routes, Slice, Newest

\* What a step of a writer may do to cells that requests point to.
CellsKept ==
  /\ Newest <= Newest'
  /\ \A a \in 1..Newest :
       /\ Len(heap'[a]) = Len(heap[a])
       /\ \A i \in 1..Len(heap[a]) : heap[a][i] \in AllEntries => heap'[a][i] \in AllEntries

\* AddRoutes: the new routes follow, and no cell of the slice is disturbed.
LEMMA AddRoutesFacts ==
  ASSUME IndInv, NEW id \in Ids, AddRoutes(id)
  PROVE  /\ HeapTypes'
         /\ Routes' = Routes \o Entries(id)
         /\ List!Without(Routes, id) = Routes
         /\ CellsKept
         /\ len <= len'
         /\ \A a \in 1..Newest : \A i \in 1..Len(heap[a]) :
              a # Newest \/ i <= len => heap'[a][i] = heap[a][i]
<1> DEFINE c == Compact(table, id)
           u == AppendAll(c, Entries(id))
<1>1. /\ TableOK(table) /\ table.heap = heap /\ table.len = len
      /\ Slice(table) = Routes /\ Routes \in Seq(AllEntries) /\ Len(Routes) = len
      /\ \A i \in 1..len : Routes[i] = heap[Newest][i] /\ Cell(table, i) = heap[Newest][i]
  BY TableOfState
<1>2. \A i \in 1..len : heap[Newest][i].id # id
  BY DEF AddRoutes, IndInv, SliceOwned
<1>3. /\ TableOK(c) /\ c.heap = heap /\ c.len = len /\ Slice(c) = List!Without(Routes, id)
  BY <1>1, <1>2, CompactFacts
<1>4. List!Without(Routes, id) = Routes
  BY <1>1, <1>2, WithoutFacts
<1>5. heap' = u.heap /\ len' = u.len
  BY DEF AddRoutes, table
<1> HIDE DEF c
<1>6. TableOK(u) /\ Grown(c, u) /\ Slice(u) = Slice(c) \o Entries(id)
  BY <1>3, AppendAllFacts, EntriesFacts
<1> HIDE DEF u
<1>7. HeapTypes' /\ Routes' = Slice(u) /\ Newest' = Len(u.heap)
  BY <1>5, <1>6, TableAfter
<1>8. QED
  BY <1>3, <1>4, <1>5, <1>6, <1>7 DEF Grown, SameCells, CellsKept, Newest

\* RemoveRoutes: the slice without the routes of id.
LEMMA RemoveRoutesFacts ==
  ASSUME IndInv, NEW id \in Ids, RemoveRoutes(id)
  PROVE  /\ HeapTypes'
         /\ Routes' = List!Without(Routes, id)
         /\ CellsKept
<1> DEFINE u == Compact(table, id)
<1>1. /\ TableOK(table) /\ table.heap = heap /\ table.len = len
      /\ Slice(table) = Routes /\ Routes \in Seq(AllEntries)
  BY TableOfState
<1>2. /\ TableOK(u) /\ SameCells(table, u) /\ Slice(u) = List!Without(Routes, id)
  BY <1>1, CompactFacts
<1>3. heap' = u.heap /\ len' = u.len
  BY DEF RemoveRoutes, table
<1> HIDE DEF u
<1>4. HeapTypes' /\ Routes' = Slice(u) /\ Newest' = Len(u.heap)
  BY <1>2, <1>3, TableAfter
<1>5. QED
  BY <1>1, <1>2, <1>3, <1>4 DEF SameCells, CellsKept, Newest

----------------------------------------------------------------------------
(* The inductive invariant                                                 *)

\* What IndInv says of one request in Dispatch, x being what is known of it.
GoodRecord(x) ==
  x.at # "idle" =>
    /\ x.arr \in 1..Newest
    /\ x.pos \in 1..Len(heap[x.arr])
    /\ heap[x.arr][x.pos] \in AllEntries
    /\ x.at \in {"serve", "release"} => x.release \in Ids
    /\ ~x.shaken =>
         /\ x.arr = Newest => x.pos <= len
         /\ heap[x.arr][x.pos] = x.matched
         /\ {x.target, x.key, x.release, x.recorded} \subseteq {x.matched.id, NoEntry}

\* The invariant, request by request.
LEMMA RequestsGood ==
  ASSUME HeapTypes
  PROVE  PointersGood /\ EntriesSteady <=> \A r \in Requests : GoodRecord(req[r])
<1>1. DOMAIN heap = 1..Newest /\ \A a \in 1..Newest : DOMAIN heap[a] = 1..Len(heap[a])
  BY DEF HeapTypes, Newest
<1>2. QED
  BY <1>1 DEF PointersGood, EntriesSteady, GoodRecord, Entry

\* The same in the next state.
LEMMA RequestsGoodNext ==
  ASSUME HeapTypes', \A r \in Requests : GoodRecord(req[r])'
  PROVE  PointersGood' /\ EntriesSteady'
<1>1. DOMAIN heap' = 1..Newest' /\ \A a \in 1..Newest' : DOMAIN heap'[a] = 1..Len(heap'[a])
  BY DEF HeapTypes, Newest
<1>2. QED
  BY <1>1 DEF PointersGood, EntriesSteady, GoodRecord, Entry

\* The table and the requests are good when the gateway starts.
LEMMA InvInit == Init => IndInv
<1>1. SUFFICES ASSUME Init PROVE IndInv
  OBVIOUS
<1>2. heap \in Seq(Seq(AllEntries \cup {NoEntry})) /\ heap # << >> /\ len = 0 /\ Len(heap) = 1
      /\ heap[1] = << >>
  BY <1>1 DEF Init
<1>3. HeapTypes
  BY <1>2 DEF HeapTypes, Newest
<1>4. RequestTypes
  BY <1>1 DEF Init, RequestTypes, RequestRecord, Idle, Stages, Phases
<1>5. active \in [Ids -> 0..MaxConc]
  BY <1>1, TableAssumption DEF Init
<1>6. SliceOwned
  BY <1>2 DEF SliceOwned
<1>7. PointersGood /\ EntriesSteady
  BY <1>1 DEF Init, PointersGood, EntriesSteady, Idle
<1>8. QED
  BY <1>3, <1>4, <1>5, <1>6, <1>7 DEF IndInv

\* A step of Dispatch, which leaves the table alone: only what is known of its
\* own request changes.
LEMMA ReaderStep ==
  ASSUME IndInv, UNCHANGED <<heap, len, phase>>, active' \in [Ids -> 0..MaxConc],
         NEW r \in Requests, NEW x \in RequestRecord, GoodRecord(x),
         req' = [req EXCEPT ![r] = x]
  PROVE  IndInv'
<1>1. HeapTypes' /\ SliceOwned'
  BY DEF IndInv, HeapTypes, SliceOwned, Newest
<1>2. RequestTypes'
  BY DEF IndInv, RequestTypes
<1>3. ASSUME NEW q \in Requests PROVE GoodRecord(req[q])'
  <2>1. GoodRecord(req[q])
    BY RequestsGood DEF IndInv
  <2>2. req'[q] = IF q = r THEN x ELSE req[q]
    BY DEF IndInv, RequestTypes
  <2>3. QED
    BY <2>1, <2>2 DEF GoodRecord, Newest
<1>4. PointersGood' /\ EntriesSteady'
  BY <1>1, <1>3, RequestsGoodNext
<1>5. QED
  BY <1>1, <1>2, <1>4 DEF IndInv

\* match: the pointer is one of the slice's.
LEMMA MatchInv ==
  ASSUME IndInv, NEW r \in Requests, NEW q \in Queries, Match(r, q),
         MatchIndex(Routes, q) \in 1..len
  PROVE  IndInv'
<1> DEFINE i == MatchIndex(Routes, q)
           x == [Idle EXCEPT !.at = "get", !.arr = Newest, !.pos = i, !.matched = Routes[i]]
<1>1. /\ x.at = "get" /\ x.arr = Newest /\ x.pos = i /\ x.matched = Routes[i] /\ ~x.shaken
      /\ {x.target, x.key, x.release, x.recorded} = {NoEntry}
  BY DEF Idle
<1>2. /\ Routes[i] = heap[Newest][i] /\ Routes[i] \in AllEntries
      /\ Newest \in Nat \ {0} /\ len \in Nat /\ len <= Len(heap[Newest])
  <2>1. Routes[i] = heap[Newest][i]
    BY TableOfState
  <2>2. heap[Newest][i] \in AllEntries
    BY DEF IndInv, SliceOwned
  <2>3. TableOK(table) /\ table.heap = heap /\ table.len = len
    BY TableOfState
  <2>4. QED
    BY <2>1, <2>2, <2>3 DEF TableOK, Newest
<1>3. x \in RequestRecord
  <2>1. i \in Nat
    BY <1>2
  <2> HIDE DEF i
  <2>2. QED
    BY <1>2, <2>1 DEF RequestRecord, Idle, Stages
<1>4. GoodRecord(x)
  <2> HIDE DEF x, i
  <2>1. Newest \in 1..Newest /\ i \in 1..Len(heap[Newest]) /\ i <= len
    BY <1>2 DEF i
  <2>2. QED
    BY <1>1, <1>2, <2>1 DEF GoodRecord
<1>5. req' = [req EXCEPT ![r] = x] /\ UNCHANGED <<heap, len, phase, active>>
  BY DEF Match
<1> HIDE DEF x, i
<1>6. active' \in [Ids -> 0..MaxConc]
  BY <1>5 DEF IndInv
<1>7. QED
  BY <1>3, <1>4, <1>5, <1>6, ReaderStep

\* reg.Get.
LEMMA GetInv ==
  ASSUME IndInv, NEW r \in Requests, Get(r)
  PROVE  IndInv'
<1> DEFINE y == req[r]
           x == IF Registered(Entry(r).id)
                  THEN [y EXCEPT !.at = "acquire", !.target = Entry(r).id]
                  ELSE Idle
<1>1. y \in RequestRecord /\ GoodRecord(y) /\ y.at = "get" /\ req \in [Requests -> RequestRecord]
  BY RequestsGood DEF IndInv, RequestTypes, Get
<1>2. Entry(r) \in AllEntries /\ Entry(r).id \in Ids /\ Entry(r) = heap[y.arr][y.pos]
  BY <1>1, EntriesFacts DEF GoodRecord, Entry
<1>3. x \in RequestRecord
  BY <1>1, <1>2 DEF RequestRecord, Idle, Stages
<1>4. GoodRecord(x)
  BY <1>1, <1>2 DEF GoodRecord, RequestRecord, Idle
<1>5. req' = [req EXCEPT ![r] = x]
  BY <1>1 DEF Get, RequestRecord
<1>6. UNCHANGED <<heap, len, phase>> /\ active' \in [Ids -> 0..MaxConc]
  BY DEF Get, IndInv
<1> HIDE DEF x
<1>7. QED
  BY <1>3, <1>4, <1>5, <1>6, ReaderStep

\* bh.Acquire: the slot is counted within the limit.
LEMMA AcquireInv ==
  ASSUME IndInv, NEW r \in Requests, Acquire(r)
  PROVE  IndInv'
<1> DEFINE y == req[r]
           x == IF active[Entry(r).id] < MaxConc
                  THEN [y EXCEPT !.at = "defer", !.key = Entry(r).id]
                  ELSE Idle
<1>1. y \in RequestRecord /\ GoodRecord(y) /\ y.at = "acquire" /\ req \in [Requests -> RequestRecord]
  BY RequestsGood DEF IndInv, RequestTypes, Acquire
<1>2. Entry(r) \in AllEntries /\ Entry(r).id \in Ids /\ Entry(r) = heap[y.arr][y.pos]
  BY <1>1, EntriesFacts DEF GoodRecord, Entry
<1>3. x \in RequestRecord
  BY <1>1, <1>2 DEF RequestRecord, Idle, Stages
<1>4. GoodRecord(x)
  <2>1. CASE active[Entry(r).id] < MaxConc
    BY <1>1, <1>2, <2>1 DEF GoodRecord, RequestRecord
  <2>2. CASE ~(active[Entry(r).id] < MaxConc)
    BY <2>2 DEF GoodRecord, Idle
  <2>3. QED
    BY <2>1, <2>2
<1>5. req' = [req EXCEPT ![r] = x] /\ UNCHANGED <<heap, len, phase>>
  BY <1>1 DEF Acquire, RequestRecord
<1>6. active' \in [Ids -> 0..MaxConc]
  <2>1. active \in [Ids -> 0..MaxConc]
    BY DEF IndInv
  <2>2. CASE active[Entry(r).id] < MaxConc
    BY <1>2, <2>1, <2>2, TableAssumption DEF Acquire
  <2>3. CASE ~(active[Entry(r).id] < MaxConc)
    BY <2>1, <2>3 DEF Acquire
  <2>4. QED
    BY <2>2, <2>3
<1> HIDE DEF x
<1>7. QED
  BY <1>3, <1>4, <1>5, <1>6, ReaderStep

\* defer d.bh.Release(entry.pluginID).
LEMMA DeferReleaseInv ==
  ASSUME IndInv, NEW r \in Requests, DeferRelease(r)
  PROVE  IndInv'
<1> DEFINE y == req[r]
           x == [y EXCEPT !.at = "serve", !.release = Entry(r).id]
<1>1. y \in RequestRecord /\ GoodRecord(y) /\ y.at = "defer" /\ req \in [Requests -> RequestRecord]
  BY RequestsGood DEF IndInv, RequestTypes, DeferRelease
<1>2. Entry(r) \in AllEntries /\ Entry(r).id \in Ids /\ Entry(r) = heap[y.arr][y.pos]
  BY <1>1, EntriesFacts DEF GoodRecord, Entry
<1>3. x \in RequestRecord
  BY <1>1, <1>2 DEF RequestRecord, Stages
<1>4. GoodRecord(x)
  BY <1>1, <1>2 DEF GoodRecord, RequestRecord
<1>5. req' = [req EXCEPT ![r] = x]
  BY <1>1 DEF DeferRelease, RequestRecord
<1>6. UNCHANGED <<heap, len, phase>> /\ active' \in [Ids -> 0..MaxConc]
  BY DEF DeferRelease, IndInv
<1> HIDE DEF x
<1>7. QED
  BY <1>3, <1>4, <1>5, <1>6, ReaderStep

\* The breaker refuses, or the outcome is recorded.
LEMMA ServeInv ==
  ASSUME IndInv, NEW r \in Requests, Refuse(r) \/ Record(r)
  PROVE  IndInv'
<1> DEFINE y == req[r]
           x == IF Refuse(r) THEN [y EXCEPT !.at = "release"]
                ELSE [y EXCEPT !.at = "release", !.recorded = Entry(r).id]
<1>1. y \in RequestRecord /\ GoodRecord(y) /\ y.at = "serve" /\ req \in [Requests -> RequestRecord]
  BY RequestsGood DEF IndInv, RequestTypes, Refuse, Record
<1>2. Entry(r) \in AllEntries /\ Entry(r).id \in Ids /\ Entry(r) = heap[y.arr][y.pos]
  BY <1>1, EntriesFacts DEF GoodRecord, Entry
<1>3. x \in RequestRecord
  BY <1>1, <1>2 DEF RequestRecord, Stages
<1>4. GoodRecord(x)
  BY <1>1, <1>2 DEF GoodRecord, RequestRecord
<1>5. req' = [req EXCEPT ![r] = x]
  BY <1>1 DEF Refuse, Record, RequestRecord
<1>6. UNCHANGED <<heap, len, phase>> /\ active' \in [Ids -> 0..MaxConc]
  BY DEF Refuse, Record, IndInv
<1> HIDE DEF x
<1>7. QED
  BY <1>3, <1>4, <1>5, <1>6, ReaderStep

\* The deferred bh.Release.
LEMMA ReleaseInv ==
  ASSUME IndInv, NEW r \in Requests, Release(r)
  PROVE  IndInv'
<1>1. GoodRecord(req[r]) /\ req[r].at = "release"
  BY RequestsGood DEF IndInv, Release
<1>2. req[r].release \in Ids
  BY <1>1 DEF GoodRecord
<1>3. Idle \in RequestRecord
  BY DEF RequestRecord, Idle, Stages
<1>4. GoodRecord(Idle)
  BY DEF GoodRecord, Idle
<1>5. active' \in [Ids -> 0..MaxConc]
  BY <1>2, TableAssumption DEF Release, IndInv
<1>6. QED
  BY <1>3, <1>4, <1>5, ReaderStep DEF Release

\* reg.Register and reg.Deregister: no route changes its owner's standing.
LEMMA RegistryInv ==
  ASSUME IndInv, NEW id \in Ids, Register(id) \/ Deregister(id)
  PROVE  IndInv'
<1>1. PICK to \in {"registered", "leaving", "ousted"} :
        /\ UNCHANGED <<heap, len, active, req>>
        /\ phase' = [phase EXCEPT ![id] = to]
        /\ to # "leaving" => phase[id] \in {"new", "registered"}
  BY DEF Register, Deregister, Registered
<1>2. HeapTypes' /\ active' \in [Ids -> 0..MaxConc] /\ PointersGood' /\ EntriesSteady'
  BY <1>1 DEF IndInv, HeapTypes, PointersGood, EntriesSteady, Entry, Newest
<1>3. RequestTypes'
  BY <1>1 DEF IndInv, RequestTypes, Phases
<1>4. SliceOwned'
  <2>1. SUFFICES ASSUME NEW i \in 1..len
                 PROVE  /\ heap[Newest][i] \in AllEntries
                        /\ phase'[heap[Newest][i].id] \in {"routed", "leaving"}
    BY <1>1 DEF SliceOwned, Newest
  <2>2. /\ heap[Newest][i] \in AllEntries /\ heap[Newest][i].id \in Ids
        /\ phase[heap[Newest][i].id] \in {"routed", "leaving"}
    BY EntriesFacts DEF IndInv, SliceOwned
  <2>3. QED
    BY <1>1, <2>2 DEF IndInv, RequestTypes
<1>5. QED
  BY <1>2, <1>3, <1>4 DEF IndInv

\* The first n of a sequence.
LEMMA FirstOnes ==
  ASSUME NEW E, NEW s \in Seq(E), NEW n \in 0..Len(s)
  PROVE  Len(SubSeq(s, 1, n)) = n /\ \A i \in 1..n : SubSeq(s, 1, n)[i] = s[i]
<1>1. Len(s) \in Nat /\ n \in Int /\ n >= 0 /\ \A i \in 1..n : s[i] \in E
  OBVIOUS
<1>2. /\ Len(SubSeq(s, 1, n)) = IF 1 <= n THEN n - 1 + 1 ELSE 0
      /\ \A i \in 1..(n - 1 + 1) : SubSeq(s, 1, n)[i] = s[1 + i - 1]
  BY <1>1, SubSeqProperties
<1>3. n - 1 + 1 = n /\ \A i \in 1..n : 1 + i - 1 = i
  BY <1>1
<1>4. QED
  BY <1>1, <1>2, <1>3

\* The slice in the next state is owned when every route in it is an entry of
\* a plugin that has its routes in the table then.
LEMMA OwnedAfter ==
  ASSUME HeapTypes',
         NEW s \in Seq(AllEntries), Routes' = s,
         \A i \in 1..Len(s) : phase'[s[i].id] \in {"routed", "leaving"}
  PROVE  SliceOwned'
<1>1. heap' \in Seq(Seq(Cells)) /\ heap' # << >> /\ len' \in 0..Len(heap'[Newest'])
  BY DEF HeapTypes, Cells
<1>2. Newest' \in 1..Len(heap') /\ heap'[Newest'] \in Seq(Cells)
  BY <1>1, EmptySeq, LenProperties DEF Newest
<1>3. Len(Routes') = len' /\ \A i \in 1..len' : Routes'[i] = heap'[Newest'][i]
  <2> DEFINE array == heap'[Newest']
  <2>1. Routes' = SubSeq(array, 1, len')
    BY DEF Routes
  <2>2. array \in Seq(Cells) /\ len' \in 0..Len(array)
    BY <1>1, <1>2
  <2> HIDE DEF array
  <2>3. /\ Len(SubSeq(array, 1, len')) = len'
        /\ \A i \in 1..len' : SubSeq(array, 1, len')[i] = array[i]
    BY <2>2, FirstOnes
  <2>4. QED
    BY <2>1, <2>3 DEF array
<1>4. QED
  BY <1>3 DEF SliceOwned

\* AddRoutes.
LEMMA AddRoutesInv ==
  ASSUME IndInv, NEW id \in Ids, AddRoutes(id)
  PROVE  IndInv'
<1>1. /\ HeapTypes' /\ Routes' = Routes \o Entries(id) /\ CellsKept /\ len <= len'
      /\ \A a \in 1..Newest : \A i \in 1..Len(heap[a]) :
           a # Newest \/ i <= len => heap'[a][i] = heap[a][i]
  BY AddRoutesFacts
<1>2. PICK to \in {"routed", "leaving"} :
        UNCHANGED <<active, req>> /\ phase' = [phase EXCEPT ![id] = to]
  BY DEF AddRoutes
<1>3. RequestTypes' /\ active' \in [Ids -> 0..MaxConc]
  BY <1>2 DEF IndInv, RequestTypes, Phases
<1>4. SliceOwned'
  <2> DEFINE s == Routes \o Entries(id)
  <2>1. /\ Routes \in Seq(AllEntries) /\ Len(Routes) = len
        /\ \A i \in 1..len : Routes[i] = heap[Newest][i]
    BY TableOfState
  <2>2. Entries(id) \in Seq(AllEntries) /\ \A i \in 1..Len(Entries(id)) : Entries(id)[i].id = id
    BY EntriesFacts
  <2>3. s \in Seq(AllEntries)
    BY <2>1, <2>2
  <2>4. ASSUME NEW i \in 1..Len(s) PROVE phase'[s[i].id] \in {"routed", "leaving"}
    <3>1. CASE i <= len
      <4>1. i \in 1..len /\ s[i] = heap[Newest][i]
        BY <2>1, <2>2, <3>1
      <4>2. s[i].id \in Ids /\ phase[s[i].id] \in {"routed", "leaving"}
        BY <4>1, EntriesFacts DEF IndInv, SliceOwned
      <4>3. QED
        BY <1>2, <4>2 DEF IndInv, RequestTypes
    <3>2. CASE ~(i <= len)
      <4>1. i - len \in 1..Len(Entries(id)) /\ s[i] = Entries(id)[i - len]
        BY <2>1, <2>2, <3>2
      <4>2. s[i].id = id
        BY <2>2, <4>1
      <4>3. QED
        BY <1>2, <4>2 DEF IndInv, RequestTypes
    <3>3. QED
      BY <3>1, <3>2
  <2> HIDE DEF s
  <2>5. Routes' = s
    BY <1>1 DEF s
  <2>6. QED
    BY <1>1, <2>3, <2>4, <2>5, OwnedAfter
<1>5. ASSUME NEW r \in Requests PROVE GoodRecord(req[r])'
  <2> DEFINE x == req[r]
  <2>1. GoodRecord(x) /\ x \in RequestRecord /\ x' = x
    BY <1>2, RequestsGood DEF IndInv, RequestTypes
  <2>2. SUFFICES ASSUME x.at # "idle" PROVE GoodRecord(x)'
    BY <2>1 DEF GoodRecord
  <2>3. /\ x.arr \in 1..Newest /\ x.pos \in 1..Len(heap[x.arr])
        /\ heap[x.arr][x.pos] \in AllEntries
    BY <2>1, <2>2 DEF GoodRecord
  <2>4. /\ x.arr \in 1..Newest' /\ x.pos \in 1..Len(heap'[x.arr])
        /\ heap'[x.arr][x.pos] \in AllEntries
    <3>1. Newest \in Nat /\ Newest' \in Nat
      BY <1>1 DEF IndInv, HeapTypes, Newest
    <3>2. QED
      BY <1>1, <2>3, <3>1 DEF CellsKept
  <2>5. ASSUME ~x.shaken
        PROVE  /\ x.arr = Newest' => x.pos <= len'
               /\ heap'[x.arr][x.pos] = heap[x.arr][x.pos]
    <3>1. x.arr = Newest => x.pos <= len
      BY <2>1, <2>2, <2>5 DEF GoodRecord
    <3>2. Newest \in Nat /\ Newest' \in Nat /\ len \in Nat /\ len' \in Nat
      BY <1>1 DEF IndInv, HeapTypes, Newest
    <3>3. Newest <= Newest' /\ x.arr <= Newest /\ x.pos \in Nat
      BY <1>1, <2>1, <2>3, <3>2 DEF CellsKept, RequestRecord
    <3>4. len <= len' /\ \A a \in 1..Newest : \A i \in 1..Len(heap[a]) :
                           a # Newest \/ i <= len => heap'[a][i] = heap[a][i]
      BY <1>1
    <3>5. heap'[x.arr][x.pos] = heap[x.arr][x.pos]
      <4> HIDE DEF x
      <4> QED
        BY <2>3, <3>1, <3>4
    <3>6. x.arr = Newest' => x.pos <= len'
      <4> HIDE DEF x
      <4>1. x.arr = Newest' => x.arr = Newest
        BY <2>3, <3>2, <3>3
      <4> QED
        BY <3>1, <3>2, <3>3, <3>4, <4>1
    <3>7. QED
      BY <3>5, <3>6
  <2>6. QED
    BY <2>1, <2>2, <2>4, <2>5 DEF GoodRecord
<1>6. PointersGood' /\ EntriesSteady'
  BY <1>1, <1>5, RequestsGoodNext
<1>7. QED
  BY <1>1, <1>3, <1>4, <1>6 DEF IndInv

\* RemoveRoutes: requests in Dispatch are shaken, and still read entries.
LEMMA RemoveRoutesInv ==
  ASSUME IndInv, NEW id \in Ids, RemoveRoutes(id)
  PROVE  IndInv'
<1>1. HeapTypes' /\ Routes' = List!Without(Routes, id) /\ CellsKept
  BY RemoveRoutesFacts
<1>2. /\ UNCHANGED active /\ phase' = [phase EXCEPT ![id] = "gone"]
      /\ req' = [r \in Requests |->
                   IF req[r].at = "idle" THEN req[r] ELSE [req[r] EXCEPT !.shaken = TRUE]]
  BY DEF RemoveRoutes
<1>3. RequestTypes' /\ active' \in [Ids -> 0..MaxConc]
  BY <1>2 DEF IndInv, RequestTypes, RequestRecord, Phases
<1>4. SliceOwned'
  <2> DEFINE E == {e \in AllEntries : phase[e.id] \in {"routed", "leaving"}}
             s == List!Without(Routes, id)
  <2>1. Routes \in Seq(E)
    <3>1. /\ Routes \in Seq(AllEntries) /\ Len(Routes) = len
          /\ \A i \in 1..len : Routes[i] = heap[Newest][i]
      BY TableOfState
    <3>2. \A i \in 1..len : Routes[i] \in E
      BY <3>1 DEF IndInv, SliceOwned
    <3>3. Routes = [i \in 1..len |-> Routes[i]] /\ len \in Nat
      BY <3>1
    <3> HIDE DEF E
    <3>4. [i \in 1..len |-> Routes[i]] \in Seq(E)
      BY <3>2, <3>3, IsASeq
    <3>5. QED
      BY <3>3, <3>4
  <2>2. s \in Seq(E) /\ \A i \in 1..Len(s) : s[i].id # id
    <3> HIDE DEF E
    <3>1. QED
      BY <2>1, WithoutFacts
  <2> HIDE DEF s
  <2>3. s \in Seq(AllEntries)
    BY <2>2, SeqMonotonic
  <2>4. \A i \in 1..Len(s) : phase'[s[i].id] \in {"routed", "leaving"}
    BY <1>2, <2>2, EntriesFacts DEF IndInv, RequestTypes
  <2>5. QED
    BY <1>1, <2>3, <2>4, OwnedAfter DEF s
<1>5. ASSUME NEW r \in Requests PROVE GoodRecord(req[r])'
  <2> DEFINE x == req[r]
  <2>1. GoodRecord(x) /\ x \in RequestRecord
    BY RequestsGood DEF IndInv, RequestTypes
  <2>2. CASE x.at = "idle"
    BY <1>2, <2>2 DEF GoodRecord
  <2>3. CASE x.at # "idle"
    <3>1. /\ x'.shaken /\ x'.at = x.at /\ x'.arr = x.arr /\ x'.pos = x.pos /\ x'.release = x.release
      BY <1>2, <2>1, <2>3 DEF RequestRecord
    <3>2. /\ x.arr \in 1..Newest /\ x.pos \in 1..Len(heap[x.arr])
          /\ heap[x.arr][x.pos] \in AllEntries
          /\ x.at \in {"serve", "release"} => x.release \in Ids
      BY <2>1, <2>3 DEF GoodRecord
    <3>3. Newest \in Nat /\ Newest' \in Nat
      BY <1>1 DEF IndInv, HeapTypes, Newest
    <3>4. /\ x.arr \in 1..Newest' /\ x.pos \in 1..Len(heap'[x.arr])
          /\ heap'[x.arr][x.pos] \in AllEntries
      BY <1>1, <3>2, <3>3 DEF CellsKept
    <3> HIDE DEF x
    <3>5. GoodRecord(x)'
      BY <3>1, <3>2, <3>4 DEF GoodRecord
    <3>6. QED
      BY <3>5 DEF x
  <2>4. QED
    BY <2>2, <2>3
<1>6. PointersGood' /\ EntriesSteady'
  BY <1>1, <1>5, RequestsGoodNext
<1>7. QED
  BY <1>1, <1>3, <1>4, <1>6 DEF IndInv

----------------------------------------------------------------------------
(* match                                                                   *)

\* The least number of a set.
LEMMA MinFacts ==
  ASSUME NEW I, I \subseteq Nat, I # {}
  PROVE  Min(I) \in I /\ \A y \in I : Min(I) <= y
BY LeastNumber DEF Min

\* The first pass of match: the first exact route, or 0 when there is none.
LEMMA ExactIndex ==
  ASSUME NEW E, NEW s \in Seq(E), NEW q
  PROVE  LET k == SelectInSeq(s, LAMBDA e : Exact(e, q))
         IN /\ k \in 0..Len(s)
            /\ k = 0 => \A i \in 1..Len(s) : ~Exact(s[i], q)
            /\ k # 0 => Exact(s[k], q) /\ \A i \in 1..(k - 1) : ~Exact(s[i], q)
<1> DEFINE I == {i \in 1..Len(s) : Exact(s[i], q)}
           k == SelectInSeq(s, LAMBDA e : Exact(e, q))
<1>1. k = IF I # {} THEN Min(I) ELSE 0
  BY DEF SelectInSeq
<1>2. Len(s) \in Nat /\ I \subseteq Nat /\ 0 \notin I
  OBVIOUS
<1>3. I # {} => k \in I /\ \A i \in I : k <= i
  <2> HIDE DEF I, k
  <2>1. QED
    BY <1>1, <1>2, MinFacts
<1>4. k \in 0..Len(s)
  <2> HIDE DEF k
  <2>1. QED
    BY <1>1, <1>2, <1>3
<1>5. k = 0 => \A i \in 1..Len(s) : ~Exact(s[i], q)
  <2> HIDE DEF k
  <2>1. k = 0 => I = {}
    BY <1>2, <1>3
  <2>2. QED
    BY <2>1
<1>6. k # 0 => Exact(s[k], q) /\ \A i \in 1..(k - 1) : ~Exact(s[i], q)
  <2> HIDE DEF k
  <2>1. ASSUME k # 0 PROVE k \in I /\ \A i \in I : k <= i
    BY <1>1, <1>3, <2>1
  <2>2. ASSUME k # 0, NEW i \in 1..(k - 1) PROVE i \in 1..Len(s) /\ ~(k <= i)
    BY <1>2, <1>4, <2>2
  <2>3. QED
    BY <2>1, <2>2
<1>7. QED
  BY <1>4, <1>5, <1>6

\* The second pass: the first route that covers the path, or 0.
LEMMA CoverIndex ==
  ASSUME NEW E, NEW s \in Seq(E), NEW q
  PROVE  LET k == SelectInSeq(s, LAMBDA e : Covers(e, q))
         IN /\ k \in 0..Len(s)
            /\ k = 0 => \A i \in 1..Len(s) : ~Covers(s[i], q)
            /\ k # 0 => Covers(s[k], q) /\ \A i \in 1..(k - 1) : ~Covers(s[i], q)
<1> DEFINE I == {i \in 1..Len(s) : Covers(s[i], q)}
           k == SelectInSeq(s, LAMBDA e : Covers(e, q))
<1>1. k = IF I # {} THEN Min(I) ELSE 0
  BY DEF SelectInSeq
<1>2. Len(s) \in Nat /\ I \subseteq Nat /\ 0 \notin I
  OBVIOUS
<1>3. I # {} => k \in I /\ \A i \in I : k <= i
  <2> HIDE DEF I, k
  <2>1. QED
    BY <1>1, <1>2, MinFacts
<1>4. k \in 0..Len(s)
  <2> HIDE DEF k
  <2>1. QED
    BY <1>1, <1>2, <1>3
<1>5. k = 0 => \A i \in 1..Len(s) : ~Covers(s[i], q)
  <2> HIDE DEF k
  <2>1. k = 0 => I = {}
    BY <1>2, <1>3
  <2>2. QED
    BY <2>1
<1>6. k # 0 => Covers(s[k], q) /\ \A i \in 1..(k - 1) : ~Covers(s[i], q)
  <2> HIDE DEF k
  <2>1. ASSUME k # 0 PROVE k \in I /\ \A i \in I : k <= i
    BY <1>1, <1>3, <2>1
  <2>2. ASSUME k # 0, NEW i \in 1..(k - 1) PROVE i \in 1..Len(s) /\ ~(k <= i)
    BY <1>2, <1>4, <2>2
  <2>3. QED
    BY <2>1, <2>2
<1>7. QED
  BY <1>4, <1>5, <1>6

\* What match finds: the first exact route; without one, the first that covers.
LEMMA MatchFacts ==
  ASSUME NEW E, NEW s \in Seq(E), NEW q
  PROVE  LET k == MatchIndex(s, q)
         IN /\ k \in 0..Len(s)
            /\ k = 0 => \A i \in 1..Len(s) : ~Exact(s[i], q) /\ ~Covers(s[i], q)
            /\ k # 0 => \/ Exact(s[k], q) /\ \A i \in 1..(k - 1) : ~Exact(s[i], q)
                        \/ /\ \A i \in 1..Len(s) : ~Exact(s[i], q)
                           /\ Covers(s[k], q) /\ \A i \in 1..(k - 1) : ~Covers(s[i], q)
<1> DEFINE x == SelectInSeq(s, LAMBDA e : Exact(e, q))
           c == SelectInSeq(s, LAMBDA e : Covers(e, q))
           k == MatchIndex(s, q)
<1>1. k = IF x # 0 THEN x ELSE c
  BY DEF MatchIndex
<1>2. /\ x \in 0..Len(s)
      /\ x = 0 => \A i \in 1..Len(s) : ~Exact(s[i], q)
      /\ x # 0 => Exact(s[x], q) /\ \A i \in 1..(x - 1) : ~Exact(s[i], q)
  BY ExactIndex
<1>3. /\ c \in 0..Len(s)
      /\ c = 0 => \A i \in 1..Len(s) : ~Covers(s[i], q)
      /\ c # 0 => Covers(s[c], q) /\ \A i \in 1..(c - 1) : ~Covers(s[i], q)
  BY CoverIndex
<1> HIDE DEF x, c, k
<1>4. CASE x # 0
  BY <1>1, <1>2, <1>4 DEF k
<1>5. CASE x = 0
  BY <1>1, <1>2, <1>3, <1>5 DEF k
<1>6. QED
  BY <1>4, <1>5

----------------------------------------------------------------------------
(* Every step                                                              *)

\* Every step keeps the invariant.
LEMMA InvStep == IndInv /\ [Next]_vars => IndInv'
<1>1. SUFFICES ASSUME IndInv, [Next]_vars PROVE IndInv'
  OBVIOUS
<1>2. CASE UNCHANGED vars
  <2>1. UNCHANGED <<heap, len, phase, active, req>>
    BY <1>2 DEF vars
  <2>2. HeapTypes' /\ SliceOwned' /\ RequestTypes' /\ active' \in [Ids -> 0..MaxConc]
    BY <1>1, <2>1 DEF IndInv, HeapTypes, SliceOwned, RequestTypes, Newest
  <2>3. PointersGood' /\ EntriesSteady'
    BY <1>1, <2>1 DEF IndInv, PointersGood, EntriesSteady, Entry, Newest
  <2>4. QED
    BY <2>2, <2>3 DEF IndInv
<1>3. ASSUME NEW r \in Requests, NEW q \in Queries, Match(r, q) PROVE IndInv'
  <2>1. Routes \in Seq(AllEntries) /\ Len(Routes) = len
    BY <1>1, TableOfState
  <2>2. MatchIndex(Routes, q) \in 0..len /\ MatchIndex(Routes, q) # 0
    BY <1>3, <2>1, MatchFacts DEF Match
  <2>3. MatchIndex(Routes, q) \in 1..len
    BY <2>1, <2>2
  <2>4. QED
    BY <1>1, <1>3, <2>3, MatchInv
<1>4. QED
  BY <1>1, <1>2, <1>3, GetInv, AcquireInv, DeferReleaseInv, ServeInv, ReleaseInv,
     RegistryInv, AddRoutesInv, RemoveRoutesInv DEF Next

----------------------------------------------------------------------------
(* Slots of the bulkhead, before the first removal                         *)

\* What SlotsCounted says of one request.
SlotRecord(x) ==
  /\ ~x.shaken
  /\ x.at \in {"defer", "serve", "release"} => x.key = x.matched.id
  /\ x.at \in {"serve", "release"} => x.release = x.matched.id

\* x holds a slot of id's bulkhead.
Holds(x, id) == x.at \in {"defer", "serve", "release"} /\ x.key = id

\* Requests are finitely many, and so are those that hold a slot.
LEMMA HoldersFinite ==
  \A id \in Ids : IsFiniteSet(Holders(id)) /\ Cardinality(Holders(id)) \in Nat
BY TableAssumption, FS_Subset, FS_CardinalityType DEF Holders

\* Nobody holds a slot when the gateway starts.
LEMMA SlotsInit == Init => SlotsCounted
<1>1. SUFFICES ASSUME Init PROVE SlotsCounted
  OBVIOUS
<1>2. \A id \in Ids : Holders(id) = {} /\ active[id] = 0
  BY <1>1 DEF Init, Idle, Holders
<1>3. QED
  BY <1>1, <1>2, FS_EmptySet DEF Init, Idle, SlotsCounted

\* A step of Dispatch keeps the count when it moves the count of one plugin
\* exactly as its own request starts or stops to hold that plugin's slot.
LEMMA SlotStep ==
  ASSUME RequestTypes, SlotsCounted, NoRemovals,
         NEW r \in Requests, NEW x \in RequestRecord, SlotRecord(x),
         req' = [req EXCEPT ![r] = x],
         \A id \in Ids :
           \/ active'[id] = active[id] /\ (Holds(x, id) <=> Holds(req[r], id))
           \/ active'[id] = active[id] + 1 /\ Holds(x, id) /\ ~Holds(req[r], id)
           \/ /\ Holds(req[r], id) /\ ~Holds(x, id)
              /\ active'[id] = IF active[id] > 0 THEN active[id] - 1 ELSE active[id]
  PROVE  SlotsCounted'
<1>1. \A q \in Requests : req'[q] = IF q = r THEN x ELSE req[q]
  BY DEF RequestTypes
<1>2. \A q \in Requests : SlotRecord(req'[q])
  BY <1>1 DEF SlotsCounted, SlotRecord
<1>3. ASSUME NEW id \in Ids PROVE active'[id] = Cardinality(Holders(id)')
  <2>1. active[id] = Cardinality(Holders(id))
    BY DEF SlotsCounted
  <2>2. IsFiniteSet(Holders(id)) /\ Cardinality(Holders(id)) \in Nat
    BY HoldersFinite
  <2>3. CASE active'[id] = active[id] /\ (Holds(x, id) <=> Holds(req[r], id))
    <3>1. Holders(id)' = Holders(id)
      BY <1>1, <2>3 DEF Holders, Holds
    <3>2. QED
      BY <2>1, <2>3, <3>1
  <2>4. CASE active'[id] = active[id] + 1 /\ Holds(x, id) /\ ~Holds(req[r], id)
    <3>1. Holders(id)' = Holders(id) \union {r} /\ r \notin Holders(id)
      BY <1>1, <2>4 DEF Holders, Holds
    <3>2. QED
      BY <2>1, <2>2, <2>4, <3>1, FS_AddElement
  <2>5. CASE /\ Holds(req[r], id) /\ ~Holds(x, id)
             /\ active'[id] = IF active[id] > 0 THEN active[id] - 1 ELSE active[id]
    <3>1. Holders(id)' = Holders(id) \ {r} /\ r \in Holders(id)
      BY <1>1, <2>5 DEF Holders, Holds
    <3>2. Cardinality(Holders(id)') = Cardinality(Holders(id)) - 1
      BY <2>2, <3>1, FS_RemoveElement
    <3>3. Cardinality(Holders(id)) # 0
      BY <2>2, <3>1, FS_EmptySet
    <3>4. QED
      BY <2>1, <2>2, <2>5, <3>2, <3>3
  <2>6. QED
    BY <2>3, <2>4, <2>5
<1>4. QED
  BY <1>2, <1>3 DEF SlotsCounted, SlotRecord

\* Each step of Dispatch is one of those: the entry it reads is the one it
\* matched, so the slot is taken and given back for the same plugin.
LEMMA DispatchKeepsSlots ==
  ASSUME IndInv, SlotsCounted, NoRemovals, NEW r \in Requests,
         \/ \E q \in Queries : Match(r, q)
         \/ Get(r) \/ Acquire(r) \/ DeferRelease(r) \/ Refuse(r) \/ Record(r) \/ Release(r)
  PROVE  SlotsCounted'
<1> DEFINE y == req[r]
<1>1. /\ req \in [Requests -> RequestRecord] /\ y \in RequestRecord /\ RequestTypes
      /\ active \in [Ids -> 0..MaxConc]
  BY DEF IndInv, RequestTypes
<1>2. SlotRecord(y)
  BY DEF SlotsCounted, SlotRecord
<1>3. y.at # "idle" => /\ Entry(r) = y.matched /\ y.matched \in AllEntries /\ y.matched.id \in Ids
  BY <1>2, EntriesFacts DEF IndInv, EntriesSteady, PointersGood, SlotRecord
<1>4. Idle \in RequestRecord /\ SlotRecord(Idle) /\ \A id : ~Holds(Idle, id)
  BY DEF Idle, RequestRecord, Stages, SlotRecord, Holds
<1>5. ASSUME NEW q \in Queries, Match(r, q) PROVE SlotsCounted'
  <2> DEFINE i == MatchIndex(Routes, q)
             x == [Idle EXCEPT !.at = "get", !.arr = Newest, !.pos = i, !.matched = Routes[i]]
  <2>1. req' = [req EXCEPT ![r] = x] /\ active' = active /\ y.at = "idle"
    BY <1>5 DEF Match
  <2>2. SlotRecord(x) /\ \A id : ~Holds(x, id) /\ ~Holds(y, id)
    BY <2>1 DEF SlotRecord, Holds, Idle
  <2>3. x \in RequestRecord
    <3>1. IndInv'
      BY <1>5, InvStep DEF Next
    <3>2. req'[r] \in RequestRecord
      BY <3>1 DEF IndInv, RequestTypes
    <3>3. QED
      BY <1>1, <2>1, <3>2
  <2> HIDE DEF x, y
  <2>4. QED
    BY <1>1, <2>1, <2>2, <2>3, SlotStep DEF y
<1>6. ASSUME Get(r) PROVE SlotsCounted'
  <2> DEFINE x == IF Registered(Entry(r).id)
                    THEN [y EXCEPT !.at = "acquire", !.target = Entry(r).id]
                    ELSE Idle
  <2>1. req' = [req EXCEPT ![r] = x] /\ active' = active /\ y.at = "get"
    BY <1>1, <1>6 DEF Get, RequestRecord
  <2>2. /\ x \in RequestRecord /\ SlotRecord(x)
        /\ \A id : ~Holds(x, id) /\ ~Holds(y, id)
    <3>1. CASE Registered(Entry(r).id)
      BY <1>1, <1>2, <1>3, <1>4, <2>1, <3>1 DEF RequestRecord, Stages, SlotRecord, Holds
    <3>2. CASE ~Registered(Entry(r).id)
      BY <1>1, <1>2, <1>3, <1>4, <2>1, <3>2 DEF RequestRecord, Stages, SlotRecord, Holds
    <3>3. QED
      BY <3>1, <3>2
  <2> HIDE DEF x, y
  <2>3. QED
    BY <1>1, <2>1, <2>2, SlotStep DEF y
<1>7. ASSUME Acquire(r) PROVE SlotsCounted'
  <2>1. y.at = "acquire" /\ Entry(r).id = y.matched.id
    BY <1>3, <1>7 DEF Acquire
  <2>2. CASE active[Entry(r).id] < MaxConc
    <3> DEFINE x == [y EXCEPT !.at = "defer", !.key = Entry(r).id]
    <3>1. req' = [req EXCEPT ![r] = x] /\ active' = [active EXCEPT ![y.matched.id] = @ + 1]
      BY <1>1, <1>7, <2>1, <2>2 DEF Acquire, RequestRecord
    <3>2. /\ x \in RequestRecord /\ SlotRecord(x)
          /\ \A id : ~Holds(y, id) /\ (Holds(x, id) <=> id = y.matched.id)
      BY <1>1, <1>2, <1>3, <2>1 DEF RequestRecord, Stages, SlotRecord, Holds
    <3>3. \A id \in Ids : active'[id] = IF id = y.matched.id THEN active[id] + 1 ELSE active[id]
      BY <1>1, <3>1
    <3> HIDE DEF x, y
    <3>4. QED
      BY <1>1, <3>1, <3>2, <3>3, SlotStep DEF y
  <2>3. CASE ~(active[Entry(r).id] < MaxConc)
    <3>1. req' = [req EXCEPT ![r] = Idle] /\ active' = active
      BY <1>7, <2>3 DEF Acquire
    <3>2. \A id : ~Holds(y, id)
      BY <2>1 DEF Holds
    <3> HIDE DEF y
    <3>3. QED
      BY <1>1, <1>4, <3>1, <3>2, SlotStep DEF y
  <2>4. QED
    BY <2>2, <2>3
<1>8. ASSUME DeferRelease(r) PROVE SlotsCounted'
  <2> DEFINE x == [y EXCEPT !.at = "serve", !.release = Entry(r).id]
  <2>1. req' = [req EXCEPT ![r] = x] /\ active' = active /\ y.at = "defer"
    BY <1>1, <1>8 DEF DeferRelease, RequestRecord
  <2>2. /\ x \in RequestRecord /\ SlotRecord(x)
        /\ \A id : Holds(x, id) <=> Holds(y, id)
    BY <1>1, <1>2, <1>3, <2>1 DEF RequestRecord, Stages, SlotRecord, Holds
  <2> HIDE DEF x, y
  <2>3. QED
    BY <1>1, <2>1, <2>2, SlotStep DEF y
<1>9. ASSUME Refuse(r) \/ Record(r) PROVE SlotsCounted'
  <2> DEFINE x == IF Refuse(r) THEN [y EXCEPT !.at = "release"]
                  ELSE [y EXCEPT !.at = "release", !.recorded = Entry(r).id]
  <2>1. req' = [req EXCEPT ![r] = x] /\ active' = active /\ y.at = "serve"
    BY <1>1, <1>9 DEF Refuse, Record, RequestRecord
  <2>2. /\ x \in RequestRecord /\ SlotRecord(x)
        /\ \A id : Holds(x, id) <=> Holds(y, id)
    BY <1>1, <1>2, <1>3, <2>1 DEF RequestRecord, Stages, SlotRecord, Holds
  <2> HIDE DEF x, y
  <2>3. QED
    BY <1>1, <2>1, <2>2, SlotStep DEF y
<1>10. ASSUME Release(r) PROVE SlotsCounted'
  <2>1. /\ y.at = "release" /\ y.release = y.matched.id /\ y.key = y.matched.id
        /\ y.matched.id \in Ids
    BY <1>2, <1>3, <1>10 DEF Release, SlotRecord
  <2>2. /\ req' = [req EXCEPT ![r] = Idle]
        /\ active' = [active EXCEPT ![y.matched.id] = IF @ > 0 THEN @ - 1 ELSE @]
    BY <1>10, <2>1 DEF Release
  <2>3. \A id : Holds(y, id) <=> id = y.matched.id
    BY <2>1 DEF Holds
  <2>4. \A id \in Ids : active'[id] = IF id = y.matched.id
                                        THEN IF active[id] > 0 THEN active[id] - 1 ELSE active[id]
                                        ELSE active[id]
    BY <1>1, <2>2
  <2>5. \A id \in Ids :
          \/ active'[id] = active[id] /\ (Holds(Idle, id) <=> Holds(y, id))
          \/ /\ Holds(y, id) /\ ~Holds(Idle, id)
             /\ active'[id] = IF active[id] > 0 THEN active[id] - 1 ELSE active[id]
    BY <1>4, <2>3, <2>4
  <2>6. QED
    BY <1>1, <1>4, <2>2, <2>5, SlotStep
<1>11. QED
  BY <1>5, <1>6, <1>7, <1>8, <1>9, <1>10

\* The writers of the table leave slots and requests alone, but for a removal,
\* after which nothing is claimed.
LEMMA SlotsKept == IndInv /\ SlotsCounted /\ [Next]_vars => SlotsCounted'
<1>1. SUFFICES ASSUME IndInv, SlotsCounted, [Next]_vars, NoRemovals' PROVE SlotsCounted'
  BY DEF SlotsCounted
<1>2. ASSUME UNCHANGED <<active, req>>, NoRemovals PROVE SlotsCounted'
  BY <1>1, <1>2 DEF SlotsCounted, Holders
<1>3. phase \in [Ids -> Phases]
  BY <1>1 DEF IndInv, RequestTypes
<1>4. ASSUME NEW id \in Ids, Register(id) \/ AddRoutes(id) \/ Deregister(id)
      PROVE  UNCHANGED <<active, req>> /\ NoRemovals
  BY <1>1, <1>3, <1>4 DEF Register, AddRoutes, Deregister, Registered, NoRemovals
<1>5. ASSUME NEW id \in Ids, RemoveRoutes(id) PROVE FALSE
  BY <1>1, <1>3, <1>5 DEF RemoveRoutes, NoRemovals
<1>6. ASSUME NEW r \in Requests,
             \/ \E q \in Queries : Match(r, q)
             \/ Get(r) \/ Acquire(r) \/ DeferRelease(r) \/ Refuse(r) \/ Record(r) \/ Release(r)
      PROVE  SlotsCounted'
  <2>1. UNCHANGED phase
    BY <1>6 DEF Match, Get, Acquire, DeferRelease, Refuse, Record, Release
  <2>2. NoRemovals
    BY <1>1, <2>1 DEF NoRemovals
  <2>3. QED
    BY <1>1, <1>6, <2>2, DispatchKeepsSlots
<1>7. CASE UNCHANGED vars
  <2>1. UNCHANGED <<phase, active, req>>
    BY <1>7 DEF vars
  <2>2. NoRemovals
    BY <1>1, <2>1 DEF NoRemovals
  <2>3. QED
    BY <1>2, <2>1, <2>2
<1>8. QED
  BY <1>1, <1>2, <1>4, <1>5, <1>6, <1>7 DEF Next

----------------------------------------------------------------------------
(* Theorems                                                                *)

\* The invariant and the count hold in every reachable state.
LEMMA Invariant == Spec => [](IndInv /\ SlotsCounted)
  BY InvInit, InvStep, SlotsInit, SlotsKept, PTL DEF Spec

\* Slots stay within the limit, and no request ever reads a cell of a backing
\* array that was never written, whatever removeRoutes and append have done to
\* the slice since match (dispatcher.go:109-125, 227-236, 379-437).
THEOREM TypeCorrect == Spec => []TypeOK
<1>1. IndInv => TypeOK
  <2>1. SUFFICES ASSUME IndInv PROVE TypeOK
    OBVIOUS
  <2>2. \A a \in DOMAIN heap : Range(heap[a]) \subseteq AllEntries \cup {NoEntry}
    BY <2>1 DEF IndInv, HeapTypes, Range
  <2>3. QED
    BY <2>1, <2>2 DEF TypeOK, IndInv, HeapTypes, PointersGood
<1>2. QED
  BY Invariant, <1>1, PTL

\* Until some plugin's routes are removed, Dispatch reads the entry it matched
\* at every step and takes and gives back that plugin's slot, however many
\* plugins register meanwhile and however often append moves the slice
\* (dispatcher.go:109-125, 238-261, 379-437; bulkhead.go:30-47).
THEOREM AdditionsDisturbNobody == Spec => []SteadyWithoutRemovals
<1>1. IndInv /\ SlotsCounted => SteadyWithoutRemovals
  BY DEF IndInv, SlotsCounted, SteadyWithoutRemovals
<1>2. QED
  BY Invariant, <1>1, PTL

\* The slice, compacted in place and grown by append, implements the ordered
\* list of routes (dispatcher.go:109-125, 219-236).
THEOREM SliceIsRouteList == Spec => IsRouteList
<1>1. Init => List!Init
  <2>1. SUFFICES ASSUME Init PROVE Routes = << >>
    BY DEF List!Init
  <2>2. heap[Newest] = << >> /\ len = 0
    BY <2>1 DEF Init, Newest
  <2>3. QED
    BY <2>2 DEF Routes
<1>2. IndInv /\ [Next]_vars => [List!Next]_Routes
  <2>1. SUFFICES ASSUME IndInv, [Next]_vars PROVE List!Next \/ Routes' = Routes
    OBVIOUS
  <2>2. ASSUME NEW id \in Ids, AddRoutes(id) PROVE List!Next
    <3>1. Routes' = List!Without(Routes, id) \o List!Entries(id)
      BY <2>1, <2>2, AddRoutesFacts DEF Entries, List!Entries
    <3>2. QED
      BY <3>1 DEF List!Next, List!AddRoutes
  <2>3. ASSUME NEW id \in Ids, RemoveRoutes(id) PROVE List!Next
    <3>1. Routes' = List!Without(Routes, id)
      BY <2>1, <2>3, RemoveRoutesFacts
    <3>2. QED
      BY <3>1 DEF List!Next, List!RemoveRoutes
  <2>4. ASSUME UNCHANGED <<heap, len>> PROVE Routes' = Routes
    BY <2>4 DEF Routes, Newest
  <2>5. ASSUME NEW id \in Ids, Register(id) \/ Deregister(id) PROVE UNCHANGED <<heap, len>>
    BY <2>5 DEF Register, Deregister
  <2>6. ASSUME NEW r \in Requests,
               (\E q \in Queries : Match(r, q)) \/ Get(r) \/ Acquire(r) \/ DeferRelease(r)
                 \/ Refuse(r) \/ Record(r) \/ Release(r)
        PROVE  UNCHANGED <<heap, len>>
    BY <2>6 DEF Match, Get, Acquire, DeferRelease, Refuse, Record, Release
  <2>7. CASE UNCHANGED vars
    BY <2>4, <2>7 DEF vars
  <2>8. QED
    BY <2>1, <2>2, <2>3, <2>4, <2>5, <2>6, <2>7 DEF Next
<1>3. QED
  BY Invariant, <1>1, <1>2, PTL DEF Spec, IsRouteList, List!Spec

\* A route that names the very path asked for is what a request gets
\* (dispatcher.go:238-246).
THEOREM ExactRouteWins == Spec => ExactFirst
<1> DEFINE Wins == \A r \in Requests, q \in Queries :
                     Match(r, q) /\ (\E e \in Range(Routes) : Exact(e, q))
                       => req'[r].matched.route.pattern = q.path
<1>1. ASSUME IndInv PROVE Wins
  <2>1. SUFFICES ASSUME NEW r \in Requests, NEW q \in Queries, Match(r, q),
                        NEW e \in Range(Routes), Exact(e, q)
                 PROVE  req'[r].matched.route.pattern = q.path
    OBVIOUS
  <2> DEFINE k == MatchIndex(Routes, q)
  <2>2. Routes \in Seq(AllEntries)
    BY <1>1, TableOfState
  <2>3. PICK i \in 1..Len(Routes) : Exact(Routes[i], q)
    BY <2>1, <2>2 DEF Range
  <2>4. k # 0
    BY <2>1 DEF Match
  <2>5. Exact(Routes[k], q)
    BY <2>2, <2>3, <2>4, MatchFacts
  <2> HIDE DEF k
  <2>6. req'[r].matched = Routes[k]
    BY <1>1, <2>1 DEF Match, k, IndInv, RequestTypes, Idle
  <2>7. QED
    BY <2>5, <2>6 DEF Exact
<1>2. QED
  BY Invariant, <1>1, PTL DEF Spec, ExactFirst

\* A plugin that registers takes over a path only by declaring the very path,
\* where the other covered it (dispatcher.go:109-125, 238-261).
THEOREM NobodyIsTakenOver == Spec => NoTakeover
<1> DEFINE before(q) == Routes[MatchIndex(Routes, q)]
           after(q)  == Routes'[MatchIndex(Routes', q)]
           Kept == \A id \in Ids, q \in Queries :
                     AddRoutes(id) /\ MatchIndex(Routes, q) # 0 =>
                       after(q) = before(q)
                         \/ (after(q).id = id /\ Exact(after(q), q) /\ ~Exact(before(q), q))
<1>1. ASSUME IndInv PROVE Kept
  <2>1. SUFFICES ASSUME NEW id \in Ids, NEW q \in Queries, AddRoutes(id),
                        MatchIndex(Routes, q) # 0
                 PROVE  after(q) = before(q)
                          \/ (after(q).id = id /\ Exact(after(q), q) /\ ~Exact(before(q), q))
    OBVIOUS
  <2> DEFINE s == Routes
             t == Routes \o Entries(id)
             k == MatchIndex(s, q)
             j == MatchIndex(t, q)
  <2>2. s \in Seq(AllEntries)
    BY <1>1, TableOfState
  <2>3. Entries(id) \in Seq(AllEntries) /\ \A i \in 1..Len(Entries(id)) : Entries(id)[i].id = id
    BY EntriesFacts
  <2>4. /\ t \in Seq(AllEntries) /\ Len(t) = Len(s) + Len(Entries(id))
        /\ \A i \in 1..Len(s) : t[i] = s[i]
        /\ \A i \in 1..Len(t) : i > Len(s) => t[i].id = id
    <3>1. /\ t \in Seq(AllEntries) /\ Len(t) = Len(s) + Len(Entries(id))
          /\ \A i \in 1..Len(s) : t[i] = s[i]
          /\ \A i \in 1..Len(t) : i > Len(s) => t[i] = Entries(id)[i - Len(s)]
      BY <2>2, <2>3
    <3>2. \A i \in 1..Len(t) : i > Len(s) => i - Len(s) \in 1..Len(Entries(id))
      BY <2>2, <2>3, <3>1
    <3>3. QED
      BY <2>3, <3>1, <3>2
  <2>5. Routes' = t
    BY <1>1, <2>1, AddRoutesFacts
  <2>6. Len(s) \in Nat /\ Len(t) \in Nat /\ Len(s) <= Len(t)
    BY <2>2, <2>3, <2>4
  <2>7. /\ k \in 1..Len(s)
        /\ \/ Exact(s[k], q) /\ \A i \in 1..(k - 1) : ~Exact(s[i], q)
           \/ /\ \A i \in 1..Len(s) : ~Exact(s[i], q)
              /\ Covers(s[k], q) /\ \A i \in 1..(k - 1) : ~Covers(s[i], q)
    <3>1. k \in 0..Len(s) /\ k # 0
      BY <2>1, <2>2, MatchFacts
    <3>2. k \in 1..Len(s)
      BY <2>6, <3>1
    <3>3. QED
      BY <2>2, <3>1, <3>2, MatchFacts
  <2>8. /\ j \in 0..Len(t)
        /\ j = 0 => \A i \in 1..Len(t) : ~Exact(t[i], q) /\ ~Covers(t[i], q)
        /\ j # 0 => \/ Exact(t[j], q) /\ \A i \in 1..(j - 1) : ~Exact(t[i], q)
                    \/ /\ \A i \in 1..Len(t) : ~Exact(t[i], q)
                       /\ Covers(t[j], q) /\ \A i \in 1..(j - 1) : ~Covers(t[i], q)
    BY <2>4, MatchFacts
  <2> HIDE DEF s, t, k, j
  <2>9. k \in 1..Len(t) /\ t[k] = s[k] /\ j # 0 /\ j \in 1..Len(t)
    BY <2>4, <2>6, <2>7, <2>8
  <2>10. CASE Exact(s[k], q)
    <3>1. Exact(t[j], q) /\ \A i \in 1..(j - 1) : ~Exact(t[i], q)
      BY <2>8, <2>9, <2>10
    <3>2. j <= k
      BY <2>6, <2>9, <2>10, <3>1
    <3>3. j \in 1..Len(s) /\ t[j] = s[j]
      BY <2>4, <2>6, <2>7, <2>9, <3>2
    <3>4. k <= j
      BY <2>6, <2>7, <2>10, <3>1, <3>3
    <3>5. j = k
      BY <2>6, <2>7, <2>9, <3>2, <3>4
    <3>6. QED
      BY <2>5, <2>9, <3>5 DEF s, t, k, j
  <2>11. CASE ~Exact(s[k], q)
    <3>1. /\ \A i \in 1..Len(s) : ~Exact(s[i], q)
          /\ Covers(s[k], q) /\ \A i \in 1..(k - 1) : ~Covers(s[i], q)
      BY <2>7, <2>11
    <3>2. CASE Exact(t[j], q)
      <4>1. ~(j \in 1..Len(s))
        BY <2>4, <3>1, <3>2
      <4>2. j > Len(s)
        BY <2>6, <2>9, <4>1
      <4>3. t[j].id = id
        BY <2>4, <2>9, <4>2
      <4>4. QED
        BY <2>5, <2>11, <3>2, <4>3 DEF s, t, k, j
    <3>3. CASE ~Exact(t[j], q)
      <4>1. Covers(t[j], q) /\ \A i \in 1..(j - 1) : ~Covers(t[i], q)
        BY <2>8, <2>9, <3>3
      <4>2. j <= k
        BY <2>6, <2>9, <3>1, <4>1
      <4>3. j \in 1..Len(s) /\ t[j] = s[j]
        BY <2>4, <2>6, <2>7, <2>9, <4>2
      <4>4. k <= j
        BY <2>6, <2>7, <3>1, <4>1, <4>3
      <4>5. j = k
        BY <2>6, <2>7, <2>9, <4>2, <4>4
      <4>6. QED
        BY <2>5, <2>9, <4>5 DEF s, t, k, j
    <3>4. QED
      BY <3>2, <3>3
  <2>12. QED
    BY <2>10, <2>11
<1>2. QED
  BY Invariant, <1>1, PTL DEF Spec, NoTakeover
=============================================================================
