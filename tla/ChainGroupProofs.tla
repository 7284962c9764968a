-------------------------- MODULE ChainGroupProofs --------------------------
(***************************************************************************)
(* Proofs about ChainGroup, for any number of groups, chains and           *)
(* middlewares: the groups of a program that shares no slice with unused   *)
(* capacity (CallerSpare = 0) behave as values.  The argument: of the      *)
(* slices that share an array with the slice of a group, none is longer    *)
(* than the group's, and if one is another group's, the array is full.  So *)
(* what append writes in place is seen by that group alone.                *)
(***************************************************************************)
EXTENDS ChainGroup, SequenceTheorems, FiniteSetTheorems, TLAPS

Holders == Groups \cup Chains

\* What the append of one group must not reach.
Separate ==
    /\ Len(heap) >= 2 /\ Len(heap[1]) = 0 /\ Len(heap[2]) = 1
    /\ heap[2][1] \in Middlewares
    /\ \A g \in Groups : slice[g].arr = 2 => slice[g].len = 1
    /\ \A g \in Groups : \A x \in Holders \ {g} :
         slice[x].arr = slice[g].arr =>
            /\ slice[x].len <= slice[g].len
            /\ x \in Groups => slice[g].len = Cap(slice[g])

-----------------------------------------------------------------------------
\* Sequences and slices.

LEMMA FunctionIsSeq ==
    ASSUME NEW S, NEW n \in Nat, NEW f \in [1..n -> S]
    PROVE  f \in Seq(S) /\ Len(f) = n
<1>1. f \in Seq(S)
  BY SeqDef
<1>2. Len(f) \in Nat /\ DOMAIN f = 1..Len(f)
  BY <1>1, LenProperties
<1>3. 1..n = 1..Len(f)
  BY <1>2
<1> QED BY <1>1, <1>2, <1>3

LEMMA ArgumentsAreLists ==
    ASSUME NEW ms \in ArgLists
    PROVE  ms \in Seq(Cell) /\ Len(ms) \in Nat
<1>1. PICK n \in Nat : ms \in [1..n -> Cell]
  BY ChainGroupAssumption DEF ArgLists, Cell
<1> QED BY <1>1, FunctionIsSeq

\* An array holds its elements.
LEMMA ArrayFacts ==
    ASSUME NEW ms \in Seq(Cell), NEW n \in Nat
    PROVE  /\ Array(ms, n) \in Seq(Cell)
           /\ Len(Array(ms, n)) = Len(ms) + n
           /\ \A i \in 1..Len(ms) : Array(ms, n)[i] = ms[i]
<1>1. Len(ms) \in Nat /\ \A i \in 1..Len(ms) : ms[i] \in Cell
  BY LenProperties, ElementOfSeq
<1>2. Len(ms) + n \in Nat /\ \A i \in 1..Len(ms) : i \in 1..(Len(ms) + n)
  BY <1>1
<1>3. Array(ms, n) \in [1..(Len(ms) + n) -> Cell]
  BY <1>1 DEF Array, Cell
<1> QED BY <1>1, <1>2, <1>3, FunctionIsSeq DEF Array

\* A slice shows the beginning of its array.
LEMMA SliceFacts ==
    ASSUME TypeOK, NEW x \in Holders
    PROVE  /\ slice[x].arr \in 1..Len(heap) /\ Len(heap) \in Nat
           /\ slice[x].len \in 0..Cap(slice[x])
           /\ heap[slice[x].arr] \in Seq(Cell) /\ Cap(slice[x]) \in Nat
           /\ Elements(slice[x]) \in Seq(Cell) /\ Len(Elements(slice[x])) = slice[x].len
<1>1. /\ heap \in Seq(Seq(Cell)) /\ slice[x].arr \in 1..Len(heap) /\ slice[x].len \in Nat
      /\ slice[x].len <= Cap(slice[x])
  BY DEF TypeOK, Holders
<1>2. heap[slice[x].arr] \in Seq(Cell) /\ Len(heap) \in Nat
  BY <1>1, ElementOfSeq, LenProperties
<1>3. /\ Cap(slice[x]) \in Nat
      /\ \A i \in 1..Cap(slice[x]) : heap[slice[x].arr][i] \in Cell
  BY <1>2, LenProperties, ElementOfSeq DEF Cap
<1>4. Elements(slice[x]) \in [1..slice[x].len -> Cell]
  BY <1>1, <1>3 DEF Elements
<1>5. Elements(slice[x]) \in Seq(Cell) /\ Len(Elements(slice[x])) = slice[x].len
  BY <1>1, <1>4, FunctionIsSeq
<1>6. slice[x].len \in 0..Cap(slice[x])
  BY <1>1, <1>3
<1> QED BY <1>1, <1>2, <1>3, <1>5, <1>6

\* x gets an array of its own; nothing else changes.
LEMMA AllocateFacts ==
    ASSUME TypeOK, Separate, NEW x \in Holders, NEW all \in Seq(Cell), NEW spare \in Nat,
           Allocate(x, Array(all, spare), Len(all)), made' \subseteq Holders
    PROVE  /\ TypeOK' /\ Separate'
           /\ Elements(slice[x])' = all
           /\ \A y \in Holders \ {x} : Elements(slice[y])' = Elements(slice[y])
<1> DEFINE n == Len(heap)
           array == Array(all, spare)
<1>1. /\ n \in Nat /\ heap \in Seq(Seq(Cell)) /\ Len(all) \in Nat
      /\ slice \in [Holders -> [arr : 1..n, len : Nat]]
  BY LenProperties DEF TypeOK, Holders
<1>2. /\ array \in Seq(Cell) /\ Len(array) = Len(all) + spare
      /\ \A i \in 1..Len(all) : array[i] = all[i]
  BY ArrayFacts
<1>3. heap' = Append(heap, array) /\ slice' = [slice EXCEPT ![x] = [arr |-> n + 1, len |-> Len(all)]]
  BY DEF Allocate
<1> HIDE DEF array
<1>4. /\ heap' \in Seq(Seq(Cell)) /\ Len(heap') = n + 1
      /\ heap'[n + 1] = array
      /\ \A a \in 1..n : heap'[a] = heap[a]
  BY <1>1, <1>2, <1>3
<1>5. /\ slice' \in [Holders -> [arr : 1..(n + 1), len : Nat]]
      /\ slice'[x].arr = n + 1 /\ slice'[x].len = Len(all)
      /\ \A y \in Holders \ {x} : slice'[y] = slice[y]
  BY <1>1, <1>3
<1>6. \A y \in Holders \ {x} : /\ slice[y].arr \in 1..n
                               /\ Cap(slice[y])' = Cap(slice[y])
                               /\ Elements(slice[y])' = Elements(slice[y])
  BY <1>1, <1>4, <1>5 DEF Cap, Elements
<1>7. Cap(slice[x])' = Len(all) + spare
  BY <1>2, <1>4, <1>5 DEF Cap
<1>8. Elements(slice[x])' = all
  <2>1. Elements(slice[x])' = [i \in 1..Len(all) |-> array[i]]
    BY <1>4, <1>5 DEF Elements
  <2>2. all = [i \in 1..Len(all) |-> all[i]]
    BY LenProperties
  <2> QED BY <1>2, <2>1, <2>2
<1>9. TypeOK'
  <2>1. \A y \in Holders : slice'[y].len <= Cap(slice[y])'
    <3>1. slice'[x].len <= Cap(slice[x])'
      BY <1>1, <1>5, <1>7
    <3>2. \A y \in Holders \ {x} : slice'[y].len <= Cap(slice[y])'
      BY <1>5, <1>6 DEF TypeOK, Holders
    <3> QED BY <3>1, <3>2
  <2> QED BY <1>4, <1>5, <2>1 DEF TypeOK, Holders
<1>10. Separate'
  <2>1. /\ n >= 2 /\ n + 1 >= 2 /\ Len(heap'[1]) = 0 /\ Len(heap'[2]) = 1
        /\ heap'[2][1] \in Middlewares
    <3>1. n >= 2 /\ Len(heap[1]) = 0 /\ Len(heap[2]) = 1 /\ heap[2][1] \in Middlewares
      BY DEF Separate
    <3>2. 1 \in 1..n /\ 2 \in 1..n /\ n + 1 >= 2
      BY <1>1, <3>1
    <3> QED BY <1>4, <3>1, <3>2
  <2>2. \A y \in Holders \ {x} : slice'[y].arr # slice'[x].arr
    BY <1>1, <1>5, <1>6
  <2>3. \A g \in Groups : slice'[g].arr = 2 => slice'[g].len = 1
    <3>1. slice'[x].arr # 2
      BY <1>1, <1>5, <2>1
    <3> QED BY <1>5, <3>1 DEF Separate, Holders
  <2>4. ASSUME NEW g \in Groups, NEW y \in Holders \ {g}, slice'[y].arr = slice'[g].arr
        PROVE  /\ slice'[y].len <= slice'[g].len
               /\ y \in Groups => slice'[g].len = Cap(slice[g])'
    <3>1. g # x /\ y # x
      BY <2>2, <2>4 DEF Holders
    <3>2. slice'[g] = slice[g] /\ slice'[y] = slice[y] /\ Cap(slice[g])' = Cap(slice[g])
      BY <1>5, <1>6, <3>1 DEF Holders
    <3> QED BY <2>4, <3>2 DEF Separate
  <2> QED BY <1>4, <2>1, <2>3, <2>4 DEF Separate
<1> QED BY <1>6, <1>8, <1>9, <1>10

\* x becomes a second holder of a slice, no longer than any group's on the same
\* array.
LEMMA ShareFacts ==
    ASSUME TypeOK, Separate, NEW x \in Holders, NEW a \in 1..Len(heap),
           NEW n \in 0..Len(heap[a]),
           slice' = [slice EXCEPT ![x] = [arr |-> a, len |-> n]],
           heap' = heap, made' \subseteq Holders,
           \A g \in Groups \ {x} : slice[g].arr = a => n <= slice[g].len,
           x \in Groups => a = 2 /\ n = 1
    PROVE  /\ TypeOK' /\ Separate'
           /\ Elements(slice[x])' = [i \in 1..n |-> heap[a][i]]
           /\ \A y \in Holders \ {x} : Elements(slice[y])' = Elements(slice[y])
<1>1. /\ Len(heap) \in Nat /\ heap \in Seq(Seq(Cell)) /\ heap[a] \in Seq(Cell)
      /\ Len(heap[a]) \in Nat /\ n \in Nat
      /\ slice \in [Holders -> [arr : 1..Len(heap), len : Nat]]
  BY LenProperties, ElementOfSeq DEF TypeOK, Holders
<1>2. /\ slice' \in [Holders -> [arr : 1..Len(heap), len : Nat]]
      /\ slice'[x].arr = a /\ slice'[x].len = n
      /\ \A y \in Holders \ {x} : slice'[y] = slice[y]
  BY <1>1
<1>3. \A y \in Holders \ {x} : /\ Cap(slice[y])' = Cap(slice[y])
                               /\ Elements(slice[y])' = Elements(slice[y])
  BY <1>2 DEF Cap, Elements
<1>4. /\ Cap(slice[x])' = Len(heap[a])
      /\ Elements(slice[x])' = [i \in 1..n |-> heap[a][i]]
  BY <1>2 DEF Cap, Elements
<1>5. TypeOK'
  <2>1. \A y \in Holders : slice'[y].len <= Cap(slice[y])'
    <3>1. slice'[x].len <= Cap(slice[x])'
      BY <1>1, <1>2, <1>4
    <3>2. \A y \in Holders \ {x} : slice'[y].len <= Cap(slice[y])'
      BY <1>2, <1>3 DEF TypeOK, Holders
    <3> QED BY <3>1, <3>2
  <2> QED BY <1>1, <1>2, <2>1 DEF TypeOK, Holders
<1>6. Separate'
  <2>1. \A g \in Groups : slice'[g].arr = 2 => slice'[g].len = 1
    BY <1>2 DEF Separate, Holders
  <2>2. ASSUME NEW g \in Groups, NEW y \in Holders \ {g}, slice'[y].arr = slice'[g].arr
        PROVE  /\ slice'[y].len <= slice'[g].len
               /\ y \in Groups => slice'[g].len = Cap(slice[g])'
    <3>1. CASE g # x /\ y # x
      <4>1. slice'[g] = slice[g] /\ slice'[y] = slice[y] /\ Cap(slice[g])' = Cap(slice[g])
        BY <1>2, <1>3, <3>1 DEF Holders
      <4> QED BY <2>2, <4>1 DEF Separate
    <3>2. CASE y = x
      <4>1. slice'[g] = slice[g] /\ Cap(slice[g])' = Cap(slice[g]) /\ slice[g].arr = a
        BY <1>2, <1>3, <2>2, <3>2 DEF Holders
      <4>2. slice'[y].len <= slice'[g].len
        BY <1>2, <3>2, <4>1, <2>2
      <4>3. y \in Groups => slice'[g].len = Cap(slice[g])'
        BY <3>2, <4>1 DEF Separate, Cap
      <4> QED BY <4>2, <4>3
    <3>3. CASE g = x
      <4>1. a = 2 /\ n = 1 /\ Len(heap[2]) = 1
        BY <3>3 DEF Separate
      <4>2. slice'[y] = slice[y] /\ slice[y].arr = 2 /\ Cap(slice[y]) = 1
        BY <1>2, <2>2, <3>3, <4>1 DEF Cap
      <4>3. slice[y].len <= 1
        BY <4>2 DEF TypeOK, Holders
      <4> QED BY <1>2, <1>4, <3>3, <4>1, <4>2, <4>3
    <3> QED BY <3>1, <3>2, <3>3
  <2> QED BY <2>1, <2>2 DEF Separate
<1> QED BY <1>3, <1>4, <1>5, <1>6

\* append on the slice of a group: the group alone grows.
LEMMA AppendFacts ==
    ASSUME TypeOK, Separate, NEW g \in Groups, NEW ms \in ArgLists,
           AppendSlice(g, ms), made' \subseteq Holders
    PROVE  /\ TypeOK' /\ Separate'
           /\ Elements(slice[g])' = Elements(slice[g]) \o ms
           /\ \A y \in Holders \ {g} : Elements(slice[y])' = Elements(slice[y])
<1> DEFINE s == slice[g]
           n == s.len + Len(ms)
           a == s.arr
           row == [i \in 1..Cap(s) |-> IF i \in (s.len + 1)..n THEN ms[i - s.len] ELSE heap[a][i]]
<1>1. g \in Holders /\ ms \in Seq(Cell) /\ Len(ms) \in Nat
  BY ArgumentsAreLists DEF Holders
<1>2. /\ a \in 1..Len(heap) /\ Len(heap) \in Nat
      /\ s.len \in 0..Cap(s) /\ Cap(s) \in Nat
      /\ heap[a] \in Seq(Cell) /\ Cap(s) = Len(heap[a])
      /\ Elements(s) \in Seq(Cell) /\ Len(Elements(s)) = s.len
  BY <1>1, SliceFacts DEF Cap
<1>3. /\ Elements(s) \o ms \in Seq(Cell) /\ Len(Elements(s) \o ms) = n
      /\ \A i \in 1..n : (Elements(s) \o ms)[i] =
            IF i <= s.len THEN Elements(s)[i] ELSE ms[i - s.len]
  <2> DEFINE e == Elements(s)
  <2>1. e \in Seq(Cell) /\ ms \in Seq(Cell) /\ Len(e) = s.len
    BY <1>1, <1>2
  <2> HIDE DEF e
  <2>2. /\ e \o ms \in Seq(Cell) /\ Len(e \o ms) = Len(e) + Len(ms)
        /\ \A i \in 1..(Len(e) + Len(ms)) : (e \o ms)[i] =
              IF i <= Len(e) THEN e[i] ELSE ms[i - Len(e)]
    BY <2>1, ConcatProperties
  <2> QED BY <2>1, <2>2 DEF e
<1>4. CASE \E spare \in 0..MaxSpare : Allocate(g, Array(Elements(s) \o ms, spare), n)
  <2>1. PICK spare \in Nat : Allocate(g, Array(Elements(s) \o ms, spare), n)
    BY <1>4, ChainGroupAssumption
  <2> HIDE DEF s, n
  <2>2. Allocate(g, Array(Elements(s) \o ms, spare), Len(Elements(s) \o ms))
    BY <2>1, <1>3
  <2> QED BY <2>2, <1>1, <1>3, AllocateFacts DEF s
<1>5. CASE /\ n <= Cap(s)
           /\ heap' = [heap EXCEPT ![a] = row]
           /\ slice' = [slice EXCEPT ![g] = [arr |-> a, len |-> n]]
  <2>1. n \in 0..Cap(s) /\ heap \in Seq(Seq(Cell))
        /\ slice \in [Holders -> [arr : 1..Len(heap), len : Nat]]
    BY <1>1, <1>2, <1>5 DEF TypeOK, Holders
  <2>2. /\ row \in Seq(Cell) /\ Len(row) = Cap(s)
        /\ \A i \in 1..Cap(s) : row[i] = IF i \in (s.len + 1)..n THEN ms[i - s.len] ELSE heap[a][i]
    <3>1. \A i \in 1..Cap(s) : heap[a][i] \in Cell
      BY <1>2, ElementOfSeq
    <3>2. \A i \in (s.len + 1)..n : ms[i - s.len] \in Cell
      <4>1. \A i \in (s.len + 1)..n : i - s.len \in 1..Len(ms)
        BY <1>1, <1>2
      <4> QED BY <1>1, <4>1, ElementOfSeq
    <3>3. row \in [1..Cap(s) -> Cell]
      BY <3>1, <3>2
    <3> QED BY <1>2, <3>3, FunctionIsSeq
  <2> HIDE DEF row
  <2>3. /\ heap' \in Seq(Seq(Cell)) /\ Len(heap') = Len(heap)
        /\ heap'[a] = row
        /\ \A b \in 1..Len(heap) : b # a => heap'[b] = heap[b]
    BY <1>2, <1>5, <2>1, <2>2, ExceptSeq
  <2>4. \A b \in 1..Len(heap) : Len(heap'[b]) = Len(heap[b])
    BY <1>2, <2>2, <2>3
  <2>5. /\ slice' \in [Holders -> [arr : 1..Len(heap), len : Nat]]
        /\ slice'[g].arr = a /\ slice'[g].len = n
        /\ \A y \in Holders \ {g} : slice'[y] = slice[y]
    BY <1>1, <1>2, <1>5, <2>1
  <2>6. \A y \in Holders : Cap(slice[y])' = Cap(slice[y])
    BY <1>1, <2>1, <2>4, <2>5 DEF Cap
  <2>7. Elements(slice[g])' = Elements(s) \o ms
    <3>1. Elements(slice[g])' = [i \in 1..n |-> row[i]]
      BY <2>3, <2>5 DEF Elements
    <3>2. ASSUME NEW i \in 1..n
          PROVE  row[i] = (Elements(s) \o ms)[i]
      <4>1. i \in 1..Cap(s) /\ (i \in (s.len + 1)..n <=> ~(i <= s.len))
        BY <1>1, <1>2, <2>1
      <4>2. i <= s.len => Elements(s)[i] = heap[a][i]
        BY <1>2 DEF Elements
      <4> QED BY <1>3, <2>2, <4>1, <4>2
    <3>3. Elements(s) \o ms = [i \in 1..n |-> (Elements(s) \o ms)[i]]
      BY <1>3, LenProperties
    <3> QED BY <3>1, <3>2, <3>3
  <2>8. ASSUME NEW y \in Holders \ {g}
        PROVE  Elements(slice[y])' = Elements(slice[y])
    <3>1. /\ slice'[y] = slice[y] /\ slice[y].arr \in 1..Len(heap)
          /\ slice[y].len \in 0..Cap(slice[y]) /\ Cap(slice[y]) \in Nat
      BY <2>5, SliceFacts
    <3>2. \A i \in 1..slice[y].len : heap'[slice[y].arr][i] = heap[slice[y].arr][i]
      <4>1. CASE slice[y].arr = a
        <5>1. slice[y].len <= s.len
          BY <4>1 DEF Separate
        <5>2. \A i \in 1..slice[y].len : i \in 1..Cap(s) /\ i \notin (s.len + 1)..n
          BY <1>2, <3>1, <5>1
        <5> QED BY <2>2, <2>3, <4>1, <5>2
      <4>2. CASE slice[y].arr # a
        BY <2>3, <3>1, <4>2
      <4> QED BY <4>1, <4>2
    <3> QED BY <3>1, <3>2 DEF Elements
  <2>9. TypeOK'
    <3>1. \A y \in Holders : slice'[y].len <= Cap(slice[y])'
      <4>1. slice'[g].len <= Cap(slice[g])'
        BY <1>1, <1>2, <2>1, <2>5, <2>6
      <4>2. \A y \in Holders \ {g} : slice'[y].len <= Cap(slice[y])'
        BY <2>5, <2>6 DEF TypeOK, Holders
      <4> QED BY <4>1, <4>2
    <3> QED BY <2>3, <2>5, <3>1 DEF TypeOK, Holders
  <2>10. Separate'
    <3>0. heap'[2][1] = heap[2][1]
      <4>1. CASE a = 2
        <5>1. s.len = 1 /\ Cap(s) = 1
          BY <4>1 DEF Separate, Cap
        <5>2. row[1] = heap[a][1]
          BY <1>1, <2>1, <2>2, <5>1
        <5> QED BY <2>3, <4>1, <5>2
      <4>2. CASE a # 2
        BY <1>2, <2>3, <4>2 DEF Separate
      <4> QED BY <4>1, <4>2
    <3>1. /\ Len(heap') >= 2 /\ Len(heap'[1]) = 0 /\ Len(heap'[2]) = 1
          /\ heap'[2][1] \in Middlewares
      BY <1>2, <2>3, <2>4, <3>0 DEF Separate
    <3>2. \A h \in Groups : slice'[h].arr = 2 => slice'[h].len = 1
      <4>1. ASSUME a = 2
            PROVE  n = 1
        <5>1. s.len = 1 /\ Cap(s) = 1
          BY <4>1 DEF Separate, Cap
        <5> QED BY <1>1, <2>1, <5>1
      <4>2. \A h \in Groups \ {g} : slice'[h] = slice[h]
        BY <2>5 DEF Holders
      <4> QED BY <2>5, <4>1, <4>2 DEF Separate
    <3>3. ASSUME NEW h \in Groups, NEW y \in Holders \ {h}, slice'[y].arr = slice'[h].arr
          PROVE  /\ slice'[y].len <= slice'[h].len
                 /\ y \in Groups => slice'[h].len = Cap(slice[h])'
      <4>1. slice[y].arr = slice[h].arr
        BY <2>5, <3>3 DEF Holders
      <4>2. /\ slice[y].len <= slice[h].len
            /\ y \in Groups => slice[h].len = Cap(slice[h])
        BY <4>1 DEF Separate
      <4>3. CASE h # g /\ y # g
        BY <2>5, <2>6, <4>2, <4>3 DEF Holders
      <4>4. CASE h = g
        <5>1. slice'[y].len = slice[y].len /\ slice[y].len \in Nat
          BY <2>5, <4>4, SliceFacts DEF TypeOK, Holders
        <5> QED BY <1>1, <1>2, <2>1, <2>5, <2>6, <4>2, <4>4, <5>1
      <4>5. CASE y = g /\ h # g
        <5>1. s.len = Cap(s)
          BY <4>1, <4>5 DEF Separate, Holders
        <5>2. n = s.len
          BY <1>1, <1>2, <2>1, <5>1
        <5> QED BY <2>5, <2>6, <4>2, <4>5, <5>2 DEF Holders
      <4> QED BY <4>3, <4>4, <4>5
    <3> QED BY <3>1, <3>2, <3>3 DEF Separate
  <2> QED BY <2>7, <2>8, <2>9, <2>10
<1> QED BY <1>4, <1>5 DEF AppendSlice

-----------------------------------------------------------------------------
\* Chain.

\* A non-empty set of indices has a least element.
LEMMA LeastIndex ==
    ASSUME NEW n \in Nat, NEW T \in SUBSET (0..n), T # {}
    PROVE  \E m \in T : \A k \in T : m <= k
<1> DEFINE All == 0..n
           Below(k) == {i \in T : i <= k}
           Cuts == {Below(k) : k \in T}
<1>1. IsFiniteSet(All)
  BY FS_Interval
<1>2. \A k \in T : k \in Nat
  BY SMT
<1>3. Cuts \subseteq SUBSET All /\ Cuts # {}
  <2>1. \A k : Below(k) \subseteq All
    OBVIOUS
  <2> HIDE DEF All, Below
  <2> QED BY <2>1
<1>4. IsWellFoundedOn(StrictSubsetOrdering(All), SUBSET All)
  <2> HIDE DEF All
  <2> QED BY <1>1, FS_FiniteSubsetsOfFinite, FS_StrictSubsetOrderingWellFounded
<1>5. PICK C \in Cuts : \A D \in Cuts : <<D, C>> \notin StrictSubsetOrdering(All)
  <2> HIDE DEF All, Cuts
  <2> QED BY <1>3, <1>4, WFMin
<1>6. PICK m \in T : C = Below(m)
  OBVIOUS
<1>7. ASSUME NEW k \in T, k < m
      PROVE  FALSE
  <2>1. m \in Nat /\ k \in Nat
    BY <1>2
  <2>2. \A j \in T : j <= k => j <= m
    BY <1>2, <1>7, <2>1
  <2>3. Below(k) \subseteq Below(m)
    BY <2>2
  <2>4. m \in Below(m) /\ m \notin Below(k)
    BY <1>7, <2>1
  <2>5. Below(k) \in Cuts /\ Below(m) \in Cuts
    OBVIOUS
  <2> HIDE DEF All, Below, Cuts
  <2> QED BY <1>3, <1>5, <1>6, <2>3, <2>4, <2>5 DEF StrictSubsetOrdering
<1> QED BY <1>2, <1>7

\* One layer more around the last i middlewares of ms.
LEMMA OneLayerMore ==
    ASSUME NEW S, NEW ms \in Seq(S), NEW i \in 1..Len(ms)
    PROVE  <<ms[Len(ms) + 1 - i]>> \o [j \in 1..(i - 1) |-> ms[Len(ms) - (i - 1) + j]]
             = [j \in 1..i |-> ms[Len(ms) - i + j]]
<1> DEFINE n == Len(ms)
           one == <<ms[n + 1 - i]>>
           tail == [j \in 1..(i - 1) |-> ms[n - (i - 1) + j]]
           all == [j \in 1..i |-> ms[n - i + j]]
<1>1. n \in Nat /\ \A j \in 1..n : ms[j] \in S
  BY LenProperties, ElementOfSeq
<1>2. one \in Seq(S) /\ Len(one) = 1 /\ one[1] = ms[n + 1 - i]
  BY <1>1
<1>3. tail \in Seq(S) /\ Len(tail) = i - 1 /\ \A j \in 1..(i - 1) : tail[j] = ms[n - (i - 1) + j]
  <2>1. tail \in [1..(i - 1) -> S] /\ i - 1 \in Nat
    BY <1>1
  <2> QED BY <2>1, FunctionIsSeq
<1>4. all \in Seq(S) /\ Len(all) = i /\ \A j \in 1..i : all[j] = ms[n - i + j]
  <2>1. all \in [1..i -> S] /\ i \in Nat
    BY <1>1
  <2> QED BY <2>1, FunctionIsSeq
<1> HIDE DEF n, one, tail, all
<1>5. /\ one \o tail \in Seq(S) /\ Len(one \o tail) = i
      /\ \A j \in 1..i : (one \o tail)[j] = IF j <= 1 THEN one[j] ELSE tail[j - 1]
  <2>1. /\ one \o tail \in Seq(S) /\ Len(one \o tail) = Len(one) + Len(tail)
        /\ \A j \in 1..(Len(one) + Len(tail)) : (one \o tail)[j] =
              IF j <= Len(one) THEN one[j] ELSE tail[j - Len(one)]
    BY <1>2, <1>3, ConcatProperties
  <2>2. Len(one) + Len(tail) = i
    BY <1>2, <1>3
  <2> QED BY <1>2, <2>1, <2>2
<1>6. \A j \in 1..i : (one \o tail)[j] = all[j]
  <2> SUFFICES ASSUME NEW j \in 1..i PROVE (one \o tail)[j] = all[j]
    OBVIOUS
  <2>1. CASE j = 1
    <3>1. (one \o tail)[j] = one[1]
      BY <1>5, <2>1
    <3>2. all[j] = ms[n - i + j] /\ n - i + j = n + 1 - i
      BY <1>1, <1>4, <2>1
    <3> QED BY <1>2, <3>1, <3>2
  <2>2. CASE j # 1
    <3>1. j - 1 \in 1..(i - 1) /\ n - (i - 1) + (j - 1) = n - i + j /\ ~(j <= 1)
      BY <1>1, <2>2
    <3>2. (one \o tail)[j] = tail[j - 1]
      BY <1>5, <3>1
    <3>3. tail[j - 1] = ms[n - (i - 1) + (j - 1)]
      BY <1>3, <3>1
    <3> QED BY <1>4, <3>1, <3>2, <3>3
  <2> QED BY <2>1, <2>2
<1>7. one \o tail = all
  BY <1>4, <1>5, <1>6, SeqEqual
<1> QED BY <1>7 DEF n, one, tail, all

\* Chain calls the middlewares in the order of its arguments: layers is the one
\* function that fits its recursive definition.
LEMMA ChainKeepsOrder ==
    ASSUME NEW S, NEW ms \in Seq(S)
    PROVE  Chain(ms) = ms
<1> DEFINE n == Len(ms)
           Last(i) == [j \in 1..i |-> ms[n - i + j]]
           Wraps(f) == f = [i \in 0..n |-> IF i = 0 THEN <<>> ELSE <<ms[n + 1 - i]>> \o f[i - 1]]
           sol == [i \in 0..n |-> Last(i)]
           f == CHOOSE g : Wraps(g)
<1>1. n \in Nat
  BY LenProperties
<1>2. Last(0) = <<>>
  <2>1. Last(0) \in [1..0 -> S]
    BY SMT
  <2>2. Last(0) \in Seq(S) /\ Len(Last(0)) = 0
    BY <2>1, FunctionIsSeq
  <2> QED BY <2>2, EmptySeq
<1>3. \A i \in 1..n : <<ms[n + 1 - i]>> \o Last(i - 1) = Last(i)
  BY OneLayerMore
<1> HIDE DEF Last, n
<1>4. Wraps(sol)
  <2>1. ASSUME NEW i \in 0..n
        PROVE  Last(i) = IF i = 0 THEN <<>> ELSE <<ms[n + 1 - i]>> \o sol[i - 1]
    <3>1. CASE i = 0
      BY <1>2, <3>1
    <3>2. CASE i # 0
      <4>1. i \in 1..n /\ i - 1 \in 0..n
        BY <1>1, <3>2
      <4>2. sol[i - 1] = Last(i - 1)
        BY <4>1
      <4> QED BY <1>3, <3>2, <4>1, <4>2
    <3> QED BY <3>1, <3>2
  <2> QED BY <2>1
<1>5. Wraps(f)
  BY <1>4
<1> HIDE DEF f
<1>6. \A i \in 0..n : f[i] = Last(i)
  <2> DEFINE T == {i \in 0..n : f[i] # Last(i)}
  <2>1. ASSUME T # {}
        PROVE  FALSE
    <3>1. PICK m \in T : \A k \in T : m <= k
      <4>1. T \in SUBSET (0..n)
        OBVIOUS
      <4> HIDE DEF T
      <4> QED BY <1>1, <2>1, <4>1, LeastIndex
    <3>2. CASE m = 0
      BY <1>1, <1>2, <1>5, <3>1, <3>2
    <3>3. CASE m # 0
      <4>1. m \in 1..n /\ m - 1 \in 0..n /\ ~(m <= m - 1)
        BY <1>1, <3>3
      <4>2. f[m - 1] = Last(m - 1)
        BY <3>1, <4>1
      <4>3. f[m] = <<ms[n + 1 - m]>> \o f[m - 1]
        BY <1>5, <3>3, <4>1
      <4> QED BY <1>3, <3>1, <4>1, <4>2, <4>3
    <3> QED BY <3>2, <3>3
  <2> QED BY <2>1
<1>7. Last(n) = ms
  <2>1. Last(n) = [j \in 1..n |-> ms[j]]
    BY <1>1 DEF Last
  <2> QED BY <2>1, LenProperties DEF n
<1>8. Chain(ms) = f[n]
  BY DEF Chain, f, n
<1> QED BY <1>1, <1>6, <1>7, <1>8

-----------------------------------------------------------------------------
\* Types, whatever capacity the caller's slice has.

\* Arrays never shrink, and the caller's own has its element.
Shape == TypeOK /\ Len(heap) >= 2 /\ Len(heap[2]) >= 1

\* One holder gets a slice that lies within its array.
LEMMA SliceMoves ==
    ASSUME Shape, NEW x \in Holders, made' \subseteq Holders,
           heap' \in Seq(Seq(Cell)), Len(heap') >= Len(heap),
           \A b \in 1..Len(heap) : Len(heap'[b]) = Len(heap[b]),
           NEW a \in 1..Len(heap'), NEW n \in 0..Len(heap'[a]),
           slice' = [slice EXCEPT ![x] = [arr |-> a, len |-> n]]
    PROVE  Shape'
<1>1. /\ Len(heap) \in Nat /\ Len(heap') \in Nat /\ Len(heap) >= 2 /\ Len(heap[2]) >= 1
      /\ slice \in [Holders -> [arr : 1..Len(heap), len : Nat]]
      /\ \A y \in Holders : slice[y].len <= Len(heap[slice[y].arr])
  BY LenProperties DEF Shape, TypeOK, Holders, Cap
<1>2. a \in Nat /\ n \in Nat /\ n <= Len(heap'[a])
  BY LenProperties, ElementOfSeq
<1>3. /\ slice' \in [Holders -> [arr : 1..Len(heap'), len : Nat]]
      /\ slice'[x].arr = a /\ slice'[x].len = n
      /\ \A y \in Holders \ {x} : slice'[y] = slice[y]
  BY <1>1, <1>2
<1>4. ASSUME NEW y \in Holders
      PROVE  slice'[y].len <= Len(heap'[slice'[y].arr])
  <2>1. CASE y = x
    BY <1>2, <1>3, <2>1
  <2>2. CASE y # x
    BY <1>1, <1>3, <2>2
  <2> QED BY <2>1, <2>2
<1>5. Len(heap') >= 2 /\ Len(heap'[2]) >= 1
  <2>1. 2 \in 1..Len(heap)
    BY <1>1
  <2> QED BY <1>1, <2>1
<1> QED BY <1>3, <1>4, <1>5 DEF Shape, TypeOK, Holders, Cap

\* A new array is long enough for the slice that is made of it.
LEMMA AllocateKeepsShape ==
    ASSUME Shape, NEW x \in Holders, NEW all \in Seq(Cell), NEW spare \in Nat,
           Allocate(x, Array(all, spare), Len(all)), made' \subseteq Holders
    PROVE  Shape'
<1> DEFINE array == Array(all, spare)
           a == Len(heap) + 1
           n == Len(all)
<1>1. heap \in Seq(Seq(Cell)) /\ Len(heap) \in Nat /\ n \in Nat
  BY LenProperties DEF Shape, TypeOK
<1>2. array \in Seq(Cell) /\ Len(array) = n + spare
  BY ArrayFacts
<1>3. heap' = Append(heap, array) /\ slice' = [slice EXCEPT ![x] = [arr |-> a, len |-> n]]
  BY DEF Allocate
<1> HIDE DEF array, n
<1>4. /\ heap' \in Seq(Seq(Cell)) /\ Len(heap') = Len(heap) + 1
      /\ heap'[a] = array
      /\ \A b \in 1..Len(heap) : heap'[b] = heap[b]
  BY <1>1, <1>2, <1>3
<1>5. a \in 1..Len(heap') /\ n \in 0..Len(heap'[a]) /\ Len(heap') >= Len(heap)
  BY <1>1, <1>2, <1>4
<1> HIDE DEF a
<1> QED BY <1>3, <1>4, <1>5, SliceMoves

\* append keeps the length of the array it writes into.
LEMMA AppendKeepsShape ==
    ASSUME Shape, NEW g \in Holders, NEW ms \in ArgLists, AppendSlice(g, ms),
           made' \subseteq Holders
    PROVE  Shape'
<1> DEFINE s == slice[g]
           n == s.len + Len(ms)
           a == s.arr
           row == [i \in 1..Cap(s) |-> IF i \in (s.len + 1)..n THEN ms[i - s.len] ELSE heap[a][i]]
<1>1. ms \in Seq(Cell) /\ Len(ms) \in Nat
  BY ArgumentsAreLists
<1>2. /\ a \in 1..Len(heap) /\ Len(heap) \in Nat /\ heap \in Seq(Seq(Cell))
      /\ s.len \in 0..Cap(s) /\ Cap(s) \in Nat
      /\ heap[a] \in Seq(Cell) /\ Cap(s) = Len(heap[a])
      /\ Elements(s) \in Seq(Cell) /\ Len(Elements(s)) = s.len
  BY SliceFacts DEF Cap, Shape, TypeOK
<1>3. CASE \E spare \in 0..MaxSpare : Allocate(g, Array(Elements(s) \o ms, spare), n)
  <2>1. PICK spare \in Nat : Allocate(g, Array(Elements(s) \o ms, spare), n)
    BY <1>3, ChainGroupAssumption
  <2> DEFINE e == Elements(s)
  <2>2. e \in Seq(Cell) /\ Len(e) = s.len
    BY <1>2
  <2> HIDE DEF e
  <2>3. e \o ms \in Seq(Cell) /\ Len(e \o ms) = n
    BY <1>1, <2>2, ConcatProperties
  <2> HIDE DEF s, n
  <2>4. Allocate(g, Array(e \o ms, spare), Len(e \o ms))
    BY <2>1, <2>3 DEF e
  <2> QED BY <2>3, <2>4, AllocateKeepsShape
<1>4. CASE /\ n <= Cap(s)
           /\ heap' = [heap EXCEPT ![a] = row]
           /\ slice' = [slice EXCEPT ![g] = [arr |-> a, len |-> n]]
  <2>1. \A i \in 1..Cap(s) : heap[a][i] \in Cell
    BY <1>2, ElementOfSeq
  <2>2. \A i \in (s.len + 1)..n : ms[i - s.len] \in Cell
    <3>1. \A i \in (s.len + 1)..n : i - s.len \in 1..Len(ms)
      BY <1>1, <1>2
    <3> QED BY <1>1, <3>1, ElementOfSeq
  <2>3. row \in [1..Cap(s) -> Cell] /\ Cap(s) \in Nat
    BY <1>2, <2>1, <2>2
  <2>4. row \in Seq(Cell) /\ Len(row) = Cap(s)
    <3> DEFINE c == Cap(s)
    <3>1. row \in [1..c -> Cell] /\ c \in Nat
      BY <2>3
    <3> HIDE DEF row, c
    <3>2. row \in Seq(Cell) /\ Len(row) = c
      BY <3>1, FunctionIsSeq
    <3> QED BY <3>2 DEF c
  <2>5. n \in 0..Len(heap[a])
    BY <1>1, <1>2, <1>4
  <2> HIDE DEF row, n
  <2>6. /\ heap' \in Seq(Seq(Cell)) /\ Len(heap') = Len(heap)
        /\ heap'[a] = row
        /\ \A b \in 1..Len(heap) : b # a => heap'[b] = heap[b]
    BY <1>2, <1>4, <2>4, ExceptSeq
  <2>7. Len(heap'[a]) = Len(heap[a])
    BY <1>2, <2>4, <2>6
  <2>8. \A b \in 1..Len(heap) : Len(heap'[b]) = Len(heap[b])
    BY <2>6, <2>7
  <2>9. Len(heap') >= Len(heap) /\ a \in 1..Len(heap') /\ n \in 0..Len(heap'[a])
    BY <1>2, <2>5, <2>6, <2>7
  <2> HIDE DEF s, a
  <2> QED BY <1>4, <2>6, <2>8, <2>9, SliceMoves
<1> QED BY <1>3, <1>4 DEF AppendSlice

LEMMA InitHasShape ==
    ASSUME Init
    PROVE  Shape
<1>1. PICK m \in Middlewares : heap = <<Array(<<>>, 0), Array(<<m>>, CallerSpare)>>
  BY DEF Init
<1> DEFINE none == <<>>
           one == <<m>>
           zero == 0
<1>2. /\ none \in Seq(Cell) /\ one \in Seq(Cell) /\ Len(none) = 0 /\ Len(one) = 1
      /\ zero \in Nat /\ zero = 0 /\ CallerSpare \in Nat
  BY ChainGroupAssumption DEF Cell
<1>3. heap = <<Array(none, zero), Array(one, CallerSpare)>>
  BY <1>1
<1> HIDE DEF none, one, zero
<1>4. /\ Array(none, zero) \in Seq(Cell) /\ Len(Array(none, zero)) = 0
      /\ Array(one, CallerSpare) \in Seq(Cell) /\ Len(Array(one, CallerSpare)) = 1 + CallerSpare
  <2>1. /\ Array(none, zero) \in Seq(Cell) /\ Len(Array(none, zero)) = Len(none) + zero
    BY <1>2, ArrayFacts
  <2>2. /\ Array(one, CallerSpare) \in Seq(Cell)
        /\ Len(Array(one, CallerSpare)) = Len(one) + CallerSpare
    BY <1>2, ArrayFacts
  <2> QED BY <1>2, <2>1, <2>2
<1>5. heap \in Seq(Seq(Cell)) /\ Len(heap) = 2 /\ Len(heap[1]) = 0 /\ Len(heap[2]) >= 1
  BY <1>2, <1>3, <1>4
<1>6. /\ slice \in [Holders -> [arr : 1..Len(heap), len : Nat]] /\ made = {}
      /\ \A x \in Holders : slice[x].arr = 1 /\ slice[x].len = 0
  BY <1>5 DEF Init, Holders
<1> QED BY <1>5, <1>6 DEF Shape, TypeOK, Holders, Cap

LEMMA NextKeepsShape ==
    ASSUME Shape, [Next]_vars
    PROVE  Shape'
<1>1. /\ TypeOK /\ made \subseteq Holders /\ heap \in Seq(Seq(Cell)) /\ Len(heap) \in Nat
      /\ \A x \in Holders : Create(x) => made' \subseteq Holders
      /\ \A g \in Groups : g \in Holders
      /\ \A c \in Chains : c \in Holders
  BY LenProperties DEF Shape, TypeOK, Holders, Create
\* heap is as it was and x gets a part of an array.
<1>2. ASSUME NEW x \in Holders, NEW a \in 1..Len(heap), NEW n \in 0..Len(heap[a]),
             heap' = heap, made' \subseteq Holders,
             slice' = [slice EXCEPT ![x] = [arr |-> a, len |-> n]]
      PROVE  Shape'
  <2>1. /\ heap' \in Seq(Seq(Cell)) /\ Len(heap') >= Len(heap)
        /\ \A b \in 1..Len(heap) : Len(heap'[b]) = Len(heap[b])
        /\ a \in 1..Len(heap') /\ n \in 0..Len(heap'[a])
    BY <1>1, <1>2
  <2> QED BY <1>2, <2>1, SliceMoves
<1>3. ASSUME NEW g \in Groups, NewGroup(g)
      PROVE  Shape'
  <2>1. PICK ms \in ArgLists : Allocate(g, Array(ms, 0), Len(ms))
    BY <1>3 DEF NewGroup
  <2> DEFINE zero == 0
  <2>2. zero \in Nat /\ Allocate(g, Array(ms, zero), Len(ms)) /\ ms \in Seq(Cell)
    BY <2>1, ArgumentsAreLists
  <2> HIDE DEF zero
  <2> QED BY <1>1, <1>3, <2>2, AllocateKeepsShape DEF NewGroup
<1>4. ASSUME NEW g \in Groups, NewGroupOf(g)
      PROVE  Shape'
  <2>1. 2 \in 1..Len(heap)
    BY <1>1 DEF Shape
  <2>2. 1 \in 0..Len(heap[2])
    BY <1>1, <2>1, ElementOfSeq, LenProperties DEF Shape
  <2> QED BY <1>1, <1>2, <1>4, <2>1, <2>2 DEF NewGroupOf
<1>5. ASSUME NEW g \in Groups, Use(g)
      PROVE  Shape'
  BY <1>1, <1>5, AppendKeepsShape DEF Use
<1>6. ASSUME NEW g \in Groups, NEW h \in Groups, Clone(g, h)
      PROVE  Shape'
  <2> DEFINE all == Elements(slice[g])
             zero == 0
  <2>1. all \in Seq(Cell) /\ Len(all) = slice[g].len
    BY <1>1, SliceFacts
  <2>2. zero \in Nat /\ Allocate(h, Array(all, zero), Len(all))
    BY <1>6, <2>1 DEF Clone
  <2> HIDE DEF all, zero
  <2> QED BY <1>1, <1>6, <2>1, <2>2, AllocateKeepsShape DEF Clone
<1>7. ASSUME NEW g \in Groups, NEW h \in Groups, Extend(g, h)
      PROVE  Shape'
  <2>1. PICK ms \in ArgLists, spare \in Nat :
          Allocate(h, Array(Elements(slice[g]) \o ms, spare), Len(Elements(slice[g]) \o ms))
    BY <1>7, ChainGroupAssumption DEF Extend
  <2> DEFINE all == Elements(slice[g]) \o ms
  <2>2. all \in Seq(Cell)
    BY <1>1, SliceFacts, ArgumentsAreLists, ConcatProperties
  <2>3. Allocate(h, Array(all, spare), Len(all))
    BY <2>1
  <2> HIDE DEF all
  <2> QED BY <1>1, <1>7, <2>2, <2>3, AllocateKeepsShape DEF Extend
<1>8. ASSUME NEW g \in Groups, NEW c \in Chains, Middleware(g, c)
      PROVE  Shape'
  <2> DEFINE a == slice[g].arr
             n == slice[g].len
  <2>1. a \in 1..Len(heap) /\ n \in 0..Len(heap[a])
    BY <1>1, SliceFacts DEF Cap
  <2>2. slice' = [slice EXCEPT ![c] = [arr |-> a, len |-> n]]
    BY <1>1, <1>8 DEF Middleware, TypeOK, Holders
  <2> HIDE DEF a, n
  <2> QED BY <1>1, <1>2, <1>8, <2>1, <2>2 DEF Middleware
<1>9. CASE UNCHANGED vars
  BY <1>9 DEF vars, Shape, TypeOK, Cap
<1> QED BY <1>3, <1>4, <1>5, <1>6, <1>7, <1>8, <1>9 DEF Next

-----------------------------------------------------------------------------
\* The refinement.

\* The list each holder stands for.
Lists == [x \in Groups \cup Chains |-> Elements(slice[x])]

\* One holder's list changes.
LEMMA OneListChanges ==
    ASSUME NEW x \in Holders, NEW all, Elements(slice[x])' = all,
           \A y \in Holders \ {x} : Elements(slice[y])' = Elements(slice[y])
    PROVE  Lists' = [Lists EXCEPT ![x] = all]
BY DEF Lists, Holders

LEMMA InitFacts ==
    ASSUME CallerSpare = 0, Init
    PROVE  TypeOK /\ Separate /\ G!GInit
<1>1. PICK m \in Middlewares : heap = <<Array(<<>>, 0), Array(<<m>>, 0)>>
  BY DEF Init
<1> DEFINE none == <<>>
           one == <<m>>
<1>2. none \in Seq(Cell) /\ one \in Seq(Cell) /\ Len(none) = 0 /\ Len(one) = 1 /\ one[1] = m
  BY DEF Cell
<1>9. heap = <<Array(none, 0), Array(one, 0)>>
  BY <1>1
<1> HIDE DEF none, one
<1>3. /\ Array(none, 0) \in Seq(Cell) /\ Len(Array(none, 0)) = 0
      /\ Array(one, 0) \in Seq(Cell) /\ Len(Array(one, 0)) = 1
      /\ Array(one, 0)[1] = m
  <2>1. ASSUME NEW ms \in Seq(Cell)
        PROVE  /\ Array(ms, 0) \in Seq(Cell) /\ Len(Array(ms, 0)) = Len(ms)
               /\ \A i \in 1..Len(ms) : Array(ms, 0)[i] = ms[i]
    <3> DEFINE zero == 0
    <3>1. zero \in Nat /\ Len(ms) + zero = Len(ms)
      BY LenProperties
    <3> HIDE DEF zero
    <3>2. /\ Array(ms, zero) \in Seq(Cell) /\ Len(Array(ms, zero)) = Len(ms) + zero
          /\ \A i \in 1..Len(ms) : Array(ms, zero)[i] = ms[i]
      BY <3>1, ArrayFacts
    <3>3. Array(ms, zero) = Array(ms, 0)
      BY DEF zero
    <3> QED BY <3>1, <3>2, <3>3
  <2>2. 1 \in 1..Len(one)
    BY <1>2
  <2>3. /\ Array(none, 0) \in Seq(Cell) /\ Len(Array(none, 0)) = 0
    BY <1>2, <2>1
  <2>4. /\ Array(one, 0) \in Seq(Cell) /\ Len(Array(one, 0)) = 1
    BY <1>2, <2>1
  <2>5. Array(one, 0)[1] = one[1]
    BY <1>2, <2>1, <2>2
  <2> QED BY <1>2, <2>3, <2>4, <2>5
<1>4. /\ heap \in Seq(Seq(Cell)) /\ Len(heap) = 2
      /\ Len(heap[1]) = 0 /\ Len(heap[2]) = 1 /\ heap[2][1] \in Middlewares
  BY <1>9, <1>3
<1>5. /\ slice \in [Holders -> [arr : 1..Len(heap), len : Nat]] /\ made = {}
      /\ \A x \in Holders : slice[x].arr = 1 /\ slice[x].len = 0
  BY <1>4 DEF Init, Holders
<1>6. TypeOK
  BY <1>4, <1>5 DEF TypeOK, Holders, Cap
<1>7. Separate
  BY <1>4, <1>5 DEF Separate, Holders, Cap
<1>8. G!GInit
  <2>1. \A x \in Holders : Elements(slice[x]) = <<>>
    <3>1. \A x \in Holders : Elements(slice[x]) \in Seq(Cell) /\ Len(Elements(slice[x])) = 0
      BY <1>5, <1>6, SliceFacts
    <3> QED BY <3>1, EmptySeq
  <2> QED BY <1>5, <2>1 DEF G!GInit, Holders
<1> QED BY <1>6, <1>7, <1>8

\* What each function of the package does is what the specification of groups
\* says of it.
LEMMA NextFacts ==
    ASSUME TypeOK, Separate, Next
    PROVE  TypeOK' /\ Separate' /\ G!GNext
<1>1. /\ made \subseteq Holders
      /\ \A x \in Holders : Create(x) => made' = made \cup {x} /\ x \notin made /\ made' \subseteq Holders
  BY DEF TypeOK, Holders, Create
<1>2. ASSUME NEW g \in Groups, NewGroup(g)
      PROVE  TypeOK' /\ Separate' /\ G!New(g)
  <2>1. PICK ms \in ArgLists : Allocate(g, Array(ms, 0), Len(ms))
    BY <1>2 DEF NewGroup
  <2>2. /\ TypeOK' /\ Separate'
        /\ Elements(slice[g])' = ms
        /\ \A y \in Holders \ {g} : Elements(slice[y])' = Elements(slice[y])
    BY <1>1, <1>2, <2>1, ArgumentsAreLists, AllocateFacts DEF NewGroup, Holders
  <2>3. Lists' = [Lists EXCEPT ![g] = ms]
    BY <2>2, OneListChanges DEF Holders
  <2> QED BY <1>1, <1>2, <2>1, <2>2, <2>3 DEF NewGroup, G!New, G!Make, Lists, Holders
<1>3. ASSUME NEW g \in Groups, NewGroupOf(g)
      PROVE  TypeOK' /\ Separate' /\ G!New(g)
  <2> DEFINE ms == [i \in 1..1 |-> heap[2][i]]
  <2>1. ms \in ArgLists
    <3>1. 1 \in 0..MaxArgs
      BY ChainGroupAssumption
    <3>2. ms \in [1..1 -> Middlewares]
      BY DEF Separate
    <3> QED BY <3>1, <3>2 DEF ArgLists
  <2>2. 2 \in 1..Len(heap) /\ 1 \in 0..Len(heap[2])
    BY LenProperties DEF Separate, TypeOK
  <2>3. \A h \in Groups \ {g} : slice[h].arr = 2 => 1 <= slice[h].len
    BY DEF Separate
  <2>4. /\ TypeOK' /\ Separate'
        /\ Elements(slice[g])' = ms
        /\ \A y \in Holders \ {g} : Elements(slice[y])' = Elements(slice[y])
    BY <1>1, <1>3, <2>2, <2>3, ShareFacts DEF NewGroupOf, Holders
  <2> HIDE DEF ms
  <2>5. Lists' = [Lists EXCEPT ![g] = ms]
    BY <2>4, OneListChanges DEF Holders
  <2> QED BY <1>1, <1>3, <2>1, <2>4, <2>5 DEF NewGroupOf, G!New, G!Make, Lists, Holders
<1>4. ASSUME NEW g \in Groups, Use(g)
      PROVE  TypeOK' /\ Separate' /\ G!Add(g)
  <2>1. PICK ms \in ArgLists : AppendSlice(g, ms)
    BY <1>4 DEF Use
  <2>2. /\ TypeOK' /\ Separate'
        /\ Elements(slice[g])' = Elements(slice[g]) \o ms
        /\ \A y \in Holders \ {g} : Elements(slice[y])' = Elements(slice[y])
    BY <1>1, <1>4, <2>1, AppendFacts DEF Use
  <2>3. Lists' = [Lists EXCEPT ![g] = Elements(slice[g]) \o ms]
    BY <2>2, OneListChanges DEF Holders
  <2> QED BY <1>4, <2>2, <2>3 DEF Use, G!Add, Lists
<1>5. ASSUME NEW g \in Groups, NEW h \in Groups, Clone(g, h)
      PROVE  TypeOK' /\ Separate' /\ G!Copy(g, h)
  <2> DEFINE all == Elements(slice[g])
  <2>1. g \in Holders /\ h \in Holders /\ all \in Seq(Cell) /\ Len(all) = slice[g].len
    BY SliceFacts DEF Holders
  <2>2. Allocate(h, Array(all, 0), Len(all))
    BY <1>5, <2>1 DEF Clone
  <2> HIDE DEF all
  <2>3. /\ TypeOK' /\ Separate'
        /\ Elements(slice[h])' = all
        /\ \A y \in Holders \ {h} : Elements(slice[y])' = Elements(slice[y])
    BY <1>1, <1>5, <2>1, <2>2, AllocateFacts DEF Clone
  <2>4. Lists' = [Lists EXCEPT ![h] = all]
    BY <2>1, <2>3, OneListChanges
  <2> QED BY <1>1, <1>5, <2>1, <2>3, <2>4 DEF Clone, G!Copy, G!Make, Lists, all
<1>6. ASSUME NEW g \in Groups, NEW h \in Groups, Extend(g, h)
      PROVE  TypeOK' /\ Separate' /\ G!CopyAndAdd(g, h)
  <2>1. PICK ms \in ArgLists, spare \in Nat :
          Allocate(h, Array(Elements(slice[g]) \o ms, spare), Len(Elements(slice[g]) \o ms))
    BY <1>6, ChainGroupAssumption DEF Extend
  <2> DEFINE all == Elements(slice[g]) \o ms
  <2>2. g \in Holders /\ h \in Holders /\ all \in Seq(Cell)
    BY SliceFacts, ArgumentsAreLists, ConcatProperties DEF Holders
  <2> HIDE DEF all
  <2>3. /\ TypeOK' /\ Separate'
        /\ Elements(slice[h])' = all
        /\ \A y \in Holders \ {h} : Elements(slice[y])' = Elements(slice[y])
    BY <1>1, <1>6, <2>1, <2>2, AllocateFacts DEF Extend, all
  <2>4. Lists' = [Lists EXCEPT ![h] = all]
    BY <2>2, <2>3, OneListChanges
  <2> QED BY <1>1, <1>6, <2>2, <2>3, <2>4 DEF Extend, G!CopyAndAdd, G!Make, Lists, all
<1>7. ASSUME NEW g \in Groups, NEW c \in Chains, Middleware(g, c)
      PROVE  TypeOK' /\ Separate' /\ G!Copy(g, c)
  <2> DEFINE a == slice[g].arr
             n == slice[g].len
  <2>1. /\ g \in Holders /\ c \in Holders /\ c \notin Groups
        /\ a \in 1..Len(heap) /\ n \in 0..Len(heap[a])
    BY SliceFacts, ChainGroupAssumption DEF Holders, Cap
  <2>2. \A h \in Groups \ {c} : slice[h].arr = a => n <= slice[h].len
    BY <2>1 DEF Separate
  <2>3. slice' = [slice EXCEPT ![c] = [arr |-> a, len |-> n]]
    BY <1>7, <2>1 DEF Middleware, TypeOK, Holders
  <2>4. Elements(slice[g]) = [i \in 1..n |-> heap[a][i]]
    BY DEF Elements
  <2> HIDE DEF a, n
  <2>5. /\ TypeOK' /\ Separate'
        /\ Elements(slice[c])' = Elements(slice[g])
        /\ \A y \in Holders \ {c} : Elements(slice[y])' = Elements(slice[y])
    <3>1. heap' = heap /\ made' \subseteq Holders
      BY <1>1, <1>7, <2>1 DEF Middleware
    <3>2. /\ TypeOK' /\ Separate'
          /\ Elements(slice[c])' = [i \in 1..n |-> heap[a][i]]
          /\ \A y \in Holders \ {c} : Elements(slice[y])' = Elements(slice[y])
      BY <2>1, <2>2, <2>3, <3>1, ShareFacts
    <3> QED BY <2>4, <3>2
  <2>6. Lists' = [Lists EXCEPT ![c] = Elements(slice[g])]
    BY <2>1, <2>5, OneListChanges
  <2> QED BY <1>1, <1>7, <2>1, <2>5, <2>6 DEF Middleware, G!Copy, G!Make, Lists
<1> QED BY <1>2, <1>3, <1>4, <1>5, <1>6, <1>7 DEF Next, G!GNext

LEMMA StutterFacts ==
    ASSUME TypeOK, Separate, UNCHANGED vars
    PROVE  TypeOK' /\ Separate' /\ UNCHANGED G!gvars
BY DEF vars, TypeOK, Separate, Cap, Elements, G!gvars

-----------------------------------------------------------------------------
\* The theorems.

\* Type correctness: no slice is longer than its array, whatever append does.
THEOREM TypeCorrect == Spec => []TypeOK
<1>1. Init => Shape
  BY InitHasShape
<1>2. Shape /\ [Next]_vars => Shape'
  BY NextKeepsShape
<1>3. Shape => TypeOK
  BY DEF Shape
<1> QED BY <1>1, <1>2, <1>3, PTL DEF Spec

\* However many middlewares a group has, and even if groups share an array, what
\* is served through it runs them in their order, the first one outermost.
THEOREM FirstStaysOutermost == Spec => []FirstIsOutermost
<1>1. TypeOK => FirstIsOutermost
  <2> SUFFICES ASSUME TypeOK, NEW x \in made
               PROVE  Chain(Elements(slice[x])) = Elements(slice[x])
    BY DEF FirstIsOutermost
  <2>1. Elements(slice[x]) \in Seq(Cell)
    BY SliceFacts DEF TypeOK, Holders
  <2> QED BY <2>1, ChainKeepsOrder
<1> QED BY <1>1, TypeCorrect, PTL

\* Groups and chains behave as values, however many there are and however long
\* they get: each function of the package is the one operation of Groups that
\* its comment promises, although append may write in place.
THEOREM GroupsAreValues ==
    ASSUME CallerSpare = 0
    PROVE  Spec => ImplementsGroups
<1>1. Init => TypeOK /\ Separate /\ G!GInit
  BY InitFacts
<1>2. TypeOK /\ Separate /\ [Next]_vars =>
        (TypeOK /\ Separate)' /\ [G!GNext]_(G!gvars)
  BY NextFacts, StutterFacts
<1> QED BY <1>1, <1>2, PTL DEF Spec, ImplementsGroups, G!GSpec
=============================================================================
