-------------------------- MODULE FileToolsProofs ---------------------------
(***************************************************************************)
(* Proofs about FileTools, for any texts, calls, processes and bounds: a   *)
(* call at whose file nobody else is at work does what it answers.         *)
(***************************************************************************)
EXTENDS FileTools, DataLemmas

-----------------------------------------------------------------------------
(***************************************************************************)
(* What a write leaves: n characters, and behind them what was there.      *)
(***************************************************************************)
LEMMA WrittenOver ==
  ASSUME NEW new \in Texts, NEW old \in Texts, NEW n \in 0..Len(new)
  PROVE  SubSeq(new, 1, n) \o SubSeq(old, n + 1, Len(old)) \in Texts
  BY DEF Texts

LEMMA WrittenAfresh ==
  ASSUME NEW new \in Texts, NEW n \in 0..Len(new)
  PROVE  LET written == SubSeq(new, 1, n) \o SubSeq(<< >>, n + 1, Len(<< >>))
         IN  /\ IsPrefix(written, new)
             /\ n = Len(new) => written = new
<1> DEFINE written == SubSeq(new, 1, n) \o SubSeq(<< >>, n + 1, Len(<< >>))
<1>1. n \in Nat /\ Len(new) \in Nat /\ n <= Len(new) /\ new \in Seq(Characters)
  BY DEF Texts
<1>2. SubSeq(<< >>, n + 1, Len(<< >>)) = << >>
  BY <1>1
<1>3. SubSeq(new, 1, n) \in Seq(Characters) /\ Len(SubSeq(new, 1, n)) = n
  BY <1>1
<1>4. written = SubSeq(new, 1, n)
  BY <1>2, <1>3
<1>5. /\ Len(written) = n
      /\ \A i \in 1..n : written[i] = new[i]
      /\ written \in Seq(Characters)
  BY <1>1, <1>3, <1>4
<1>6. SubSeq(written, 1, n) = SubSeq(new, 1, n)
  BY <1>1, <1>5
<1>7. n = Len(new) => written = new
  <2> HIDE DEF written
  <2> QED
    BY <1>1, <1>5, SeqEqual
<1> HIDE DEF written
<1> QED
  BY <1>1, <1>5, <1>6, <1>7 DEF IsPrefix, written

-----------------------------------------------------------------------------
(***************************************************************************)
(* Items of edit_file: what a list of them makes of a text is what one     *)
(* after the other makes of it.                                            *)
(***************************************************************************)
LEMMA ItemType ==
  ASSUME NEW text0 \in Texts \cup {Refused}, NEW item \in Items
  PROVE  ApplyItem(text0, item) \in Texts \cup {Refused}
<1>1. CASE ApplyItem(text0, item) = Refused
  BY <1>1
<1>2. CASE ApplyItem(text0, item) # Refused
  <2> DEFINE offset == Place(text0, item.search)
  <2>1. /\ text0 \in Texts /\ item.search \in Texts /\ item.replace \in Texts
        /\ Matches(text0, item.search) # {}
        /\ ApplyItem(text0, item) = SubSeq(text0, 1, offset) \o item.replace
             \o SubSeq(text0, offset + Len(item.search) + 1, Len(text0))
    BY <1>2 DEF ApplyItem, Items
  <2>2. offset \in 0..(Len(text0) - Len(item.search))
    <3>1. Matches(text0, item.search) \in SUBSET Nat
      BY DEF Matches
    <3>2. \E x \in Matches(text0, item.search) : \A y \in Matches(text0, item.search) : x <= y
      BY <2>1, <3>1, LeastExists, Zenon
    <3>3. offset \in Matches(text0, item.search)
      BY <3>2, Zenon DEF Place
    <3> QED BY <3>3 DEF Matches
  <2> HIDE DEF offset
  <2>3. SubSeq(text0, 1, offset) \in Texts
    BY <2>1, <2>2 DEF Texts
  <2>4. SubSeq(text0, offset + Len(item.search) + 1, Len(text0)) \in Texts
    BY <2>1, <2>2 DEF Texts
  <2>5. SubSeq(text0, 1, offset) \o item.replace \in Texts
    BY <2>1, <2>3 DEF Texts
  <2>6. ApplyItem(text0, item) \in Texts
    BY <2>1, <2>4, <2>5 DEF Texts
  <2> QED BY <2>6
<1> QED BY <1>1, <1>2

\* What is there after each item.
OnTheWay(g, old, items) ==
  /\ g[0] = old
  /\ \A k \in 1..Len(items) : g[k] = ApplyItem(g[k - 1], items[k])

LEMMA EditedFolds ==
  ASSUME NEW old \in Texts, NEW items \in Seq(Items)
  PROVE  \E g \in [0..Len(items) -> Texts \cup {Refused}] :
           OnTheWay(g, old, items) /\ Edited(old, items) = g[Len(items)]
<1> DEFINE n == Len(items)
           V == Texts \cup {Refused}
           F == [at \in V \X (1..n) |-> ApplyItem(at[1], items[at[2]])]
           Iter(it) == it = [s \in SUBSET (DOMAIN items) |->
                               IF s = {} THEN old
                               ELSE ApplyItem(it[s \ {Max(s)}], items[Max(s)])]
           iter == CHOOSE it : Iter(it)
<1>1. Edited(old, items) = iter[DOMAIN items]
  BY Zenon DEF Edited, FoldLeft, MapThenFoldSet
<1>2. n \in Nat /\ DOMAIN items = 1..n /\ old \in V
  OBVIOUS
<1>3. \A v \in V, k \in 1..n : ApplyItem(v, items[k]) \in V
  <2>1. \A k \in 1..n : items[k] \in Items
    OBVIOUS
  <2> QED BY <2>1, ItemType, Zenon
<1>4. F \in [V \X (1..n) -> V] /\ \A v \in V, k \in 1..n : F[<<v, k>>] = ApplyItem(v, items[k])
  <2> HIDE DEF n, V
  <2> QED BY <1>3
<1>5. PICK it \in [SUBSET (1..n) -> V] : Folding(F, old, n, it)
  <2> HIDE DEF n, V, F
  <2> QED BY <1>2, <1>4, FoldExists, Zenon
<1> HIDE DEF n, V, F
<1>6. \A s \in SUBSET (1..n) : s # {} => Max(s) \in s
  BY <1>2, GreatestIn, Zenon
<1>7. Iter(it)
  <2>1. ASSUME NEW s \in SUBSET (1..n), s # {}
        PROVE  F[<<it[s \ {Max(s)}], Max(s)>>] = ApplyItem(it[s \ {Max(s)}], items[Max(s)])
    BY <1>4, <1>6, <2>1, s \ {Max(s)} \in SUBSET (1..n), Zenon
  <2>2. it = [s \in SUBSET (1..n) |-> it[s]]
    OBVIOUS
  <2>3. \A s \in SUBSET (1..n) :
          it[s] = IF s = {} THEN old ELSE ApplyItem(it[s \ {Max(s)}], items[Max(s)])
    BY <1>5, <2>1, Zenon DEF Folding
  <2> QED BY <1>2, <2>2, <2>3, Zenon
<1>8. Iter(iter)
  BY <1>7, Zenon
<1> HIDE DEF iter
<1> DEFINE next == [s \in SUBSET (1..n) |-> ApplyItem(iter[s \ {Max(s)}], items[Max(s)])]
<1>9. Folded(iter, next, old, n)
  BY <1>2, <1>8, Zenon DEF Folded
<1>10. AsGiven(iter, next, F, V, n)
  BY <1>4, <1>6, Zenon DEF AsGiven
<1> HIDE DEF next
<1>11. PICK g \in [0..n -> V] : Values(g, F, old, n, iter)
  BY <1>2, <1>4, <1>9, <1>10, FoldSteps, Zenon
<1>12. \A k \in 1..n : g[k] = ApplyItem(g[k - 1], items[k])
  <2>1. \A k \in 1..n : k - 1 \in 0..n
    BY <1>2
  <2> QED BY <1>4, <1>11, <2>1 DEF Values
<1> QED BY <1>1, <1>2, <1>11, <1>12, Zenon DEF n, V, Values, OnTheWay

\* So the first items of a list make what they make on the way.
LEMMA EditedOnTheWay ==
  ASSUME NEW old \in Texts, NEW items \in Seq(Items),
         NEW g \in [0..Len(items) -> Texts \cup {Refused}], OnTheWay(g, old, items),
         NEW k \in 0..Len(items)
  PROVE  Edited(old, SubSeq(items, 1, k)) = g[k]
<1> DEFINE first == SubSeq(items, 1, k)
<1>1. first \in Seq(Items) /\ Len(first) = k /\ \A i \in 1..k : first[i] = items[i]
  OBVIOUS
<1> HIDE DEF first
<1>2. PICK h \in [0..k -> Texts \cup {Refused}] :
        OnTheWay(h, old, first) /\ Edited(old, first) = h[k]
  BY <1>1, EditedFolds, Zenon
<1> DEFINE A == {i \in 0..k : g[i] = h[i]}
<1>3. 0 \in A
  BY <1>2 DEF OnTheWay
<1>4. ASSUME NEW i \in 0..k - 1, i \in A PROVE i + 1 \in A
  <2>1. i + 1 \in 1..k /\ i + 1 \in 1..Len(items) /\ (i + 1) - 1 = i /\ i + 1 \in 0..k
    OBVIOUS
  <2>2. g[i + 1] = ApplyItem(g[i], items[i + 1]) /\ h[i + 1] = ApplyItem(h[i], first[i + 1])
    BY <1>1, <1>2, <2>1 DEF OnTheWay
  <2>3. first[i + 1] = items[i + 1] /\ g[i] = h[i]
    BY <1>1, <1>4, <2>1, Zenon
  <2> QED BY <2>1, <2>2, <2>3, Zenon
<1>5. k \in A
  <2> HIDE DEF A
  <2>1. k \in Nat /\ k \in 0..k
    OBVIOUS
  <2> QED BY <1>3, <1>4, <2>1, UpTo, Zenon
<1> QED BY <1>2, <1>5, Zenon DEF first

\* Once an item is refused, so is the call.
LEMMA RefusedForGood ==
  ASSUME NEW old, NEW items \in Seq(Items), NEW g, OnTheWay(g, old, items),
         g[Len(items)] # Refused
  PROVE  \A k \in 0..Len(items) : g[k] # Refused
<1> DEFINE n == Len(items)
<1> SUFFICES ASSUME NEW k \in 0..n, g[k] = Refused PROVE FALSE
  OBVIOUS
<1>0. n \in Nat /\ \A i \in 1..n : g[i] = ApplyItem(g[i - 1], items[i])
  BY DEF OnTheWay
<1> HIDE DEF n
<1> DEFINE A == {i \in 0..n - k : g[k + i] = Refused}
<1>1. n - k \in Nat /\ k + 0 = k /\ k + (n - k) = n /\ n - k \in 0..n - k /\ 0 \in 0..n - k
  BY <1>0
<1>2. 0 \in A
  BY <1>1
<1>3. ASSUME NEW i \in 0..(n - k) - 1, i \in A PROVE i + 1 \in A
  <2>1. k + (i + 1) \in 1..n /\ (k + (i + 1)) - 1 = k + i /\ i + 1 \in 0..n - k
    BY <1>0
  <2>2. g[k + (i + 1)] = ApplyItem(g[k + i], items[k + (i + 1)])
    BY <1>0, <2>1
  <2>3. g[k + (i + 1)] = Refused
    BY <1>3, <2>2, Zenon DEF ApplyItem
  <2> QED BY <2>1, <2>3
<1>4. n - k \in A
  <2> HIDE DEF A
  <2> QED BY <1>1, <1>2, <1>3, UpTo
<1> QED BY <1>1, <1>4 DEF n

\* An item that is accepted changes the text at the first place of its search.
LEMMA ItemIsEdit ==
  ASSUME NEW old \in Texts, NEW item \in Items, ApplyItem(old, item) # Refused
  PROVE  IsEdit(old, item, ApplyItem(old, item))
<1> DEFINE search == item.search
           replace == item.replace
           offset == Place(old, search)
           at(i) == SubSeq(old, i + 1, Len(old))
<1>1. /\ search \in Texts /\ replace \in Texts /\ Matches(old, search) # {}
      /\ ApplyItem(old, item) = SubSeq(old, 1, offset) \o replace
           \o SubSeq(old, offset + Len(search) + 1, Len(old))
  BY RefusedAssumption DEF ApplyItem, Items
<1>2. /\ offset \in Matches(old, search)
      /\ \A other \in Matches(old, search) : offset <= other
  <2>1. Matches(old, search) \in SUBSET Nat
    BY DEF Matches
  <2>2. \E x \in Matches(old, search) : \A y \in Matches(old, search) : x <= y
    BY <1>1, <2>1, LeastExists, Zenon
  <2> QED BY <2>2, Zenon DEF Place
<1> HIDE DEF search, replace, offset
<1>3. /\ Len(old) \in Nat /\ Len(search) \in Nat /\ Len(replace) \in Nat /\ offset \in Nat
      /\ offset + Len(search) <= Len(old)
      /\ old \in Seq(Characters) /\ search \in Seq(Characters) /\ replace \in Seq(Characters)
  BY <1>1, <1>2 DEF Matches, Texts
<1>4. \A i \in 0..Len(old) : IsPrefix(search, at(i)) <=> i \in Matches(old, search)
  <2> SUFFICES ASSUME NEW i \in 0..Len(old)
               PROVE  IsPrefix(search, at(i)) <=> i \in Matches(old, search)
    OBVIOUS
  <2>1. at(i) \in Seq(Characters) /\ Len(at(i)) = Len(old) - i
    BY <1>3
  <2>2. SubSeq(search, 1, Len(search)) = search
    BY <1>3
  <2>3. Len(search) <= Len(at(i)) => SubSeq(at(i), 1, Len(search)) = SubSeq(old, i + 1, i + Len(search))
    BY <1>3, <2>1
  <2>4. i \in 0..(Len(old) - Len(search)) <=> Len(search) <= Len(at(i))
    BY <1>3, <2>1
  <2> HIDE DEF at
  <2> QED BY <2>2, <2>3, <2>4 DEF IsPrefix, Matches, MatchesAt
<1> DEFINE new == ApplyItem(old, item)
           head == SubSeq(old, 1, offset) \o replace
           tail == SubSeq(old, offset + Len(search) + 1, Len(old))
<1>5. /\ SubSeq(old, 1, offset) \in Seq(Characters) /\ Len(SubSeq(old, 1, offset)) = offset
      /\ tail \in Seq(Characters) /\ Len(tail) = Len(old) - (offset + Len(search))
  BY <1>3
<1>6. head \in Seq(Characters) /\ Len(head) = offset + Len(replace)
  BY <1>3, <1>5
<1>7. new = head \o tail
  BY <1>1, Zenon DEF offset, search, replace
<1> HIDE DEF new, head, tail
<1>8. IsPrefix(head, new) /\ SubSeq(new, Len(head) + 1, Len(new)) = tail
  BY <1>5, <1>6, <1>7, PrefixOfConcat
<1>9. offset \in 0..Len(old) /\ IsPrefix(search, at(offset))
  BY <1>2, <1>3, <1>4
<1>10. \A earlier \in 0..(offset - 1) : ~IsPrefix(search, at(earlier))
  <2>1. \A earlier \in 0..(offset - 1) : earlier \in 0..Len(old) /\ ~(offset <= earlier)
    BY <1>3
  <2> HIDE DEF at
  <2> QED BY <1>2, <1>4, <2>1, Zenon
<1>11. SubSeq(at(offset), Len(search) + 1, Len(at(offset))) = tail
  BY <1>3 DEF tail
<1>12. IsPrefix(SubSeq(old, 1, offset) \o item.replace, new)
  BY <1>8, Zenon DEF head, replace
<1>13. SubSeq(new, offset + Len(item.replace) + 1, Len(new)) = tail
  BY <1>6, <1>8 DEF replace
<1>14. /\ IsPrefix(item.search, at(offset))
       /\ \A earlier \in 0..(offset - 1) : ~IsPrefix(item.search, at(earlier))
       /\ SubSeq(at(offset), Len(item.search) + 1, Len(at(offset))) = tail
  BY <1>9, <1>10, <1>11, Zenon DEF search
<1> QED BY <1>9, <1>12, <1>13, <1>14, Zenon DEF IsEdit, new

-----------------------------------------------------------------------------
(***************************************************************************)
(* Lines.  Each character goes into the last line or begins one, so that   *)
(* the lines of a text that ends with a newline, and those of what is      *)
(* behind it, are the lines of both.                                       *)
(***************************************************************************)
WithCharacter(lines, c) ==
  IF lines = << >> \/ ~EndsOpen(Last(lines)) THEN Append(lines, <<c>>)
  ELSE [lines EXCEPT ![Len(lines)] = Append(@, c)]

LEMMA WithCharacterType ==
  ASSUME NEW lines \in Seq(Texts), NEW c \in Characters
  PROVE  WithCharacter(lines, c) \in Seq(Texts)
<1>1. <<c>> \in Texts
  BY DEF Texts
<1>2. Append(lines, <<c>>) \in Seq(Texts)
  BY <1>1
<1>3. CASE lines = << >>
  BY <1>2, <1>3 DEF WithCharacter
<1>4. CASE lines # << >>
  <2>1. Len(lines) \in DOMAIN lines /\ lines[Len(lines)] \in Texts
    BY <1>4
  <2>2. Append(lines[Len(lines)], c) \in Texts
    BY <2>1 DEF Texts
  <2>3. [lines EXCEPT ![Len(lines)] = Append(@, c)] \in Seq(Texts)
    BY <2>1, <2>2
  <2> QED BY <1>2, <2>3, Zenon DEF WithCharacter
<1> QED BY <1>3, <1>4

\* What is there after each character.
CutUp(g, t) ==
  /\ g[0] = << >>
  /\ \A k \in 1..Len(t) : g[k] = WithCharacter(g[k - 1], t[k])

LEMMA LinesFolds ==
  ASSUME NEW t \in Texts
  PROVE  \E g \in [0..Len(t) -> Seq(Texts)] : CutUp(g, t) /\ Lines(t) = g[Len(t)]
<1> DEFINE n == Len(t)
           V == Seq(Texts)
           F == [at \in V \X (1..n) |-> WithCharacter(at[1], t[at[2]])]
           Iter(it) == it = [s \in SUBSET (DOMAIN t) |->
                               IF s = {} THEN << >>
                               ELSE WithCharacter(it[s \ {Max(s)}], t[Max(s)])]
           iter == CHOOSE it : Iter(it)
<1>1. Lines(t) = iter[DOMAIN t]
  BY Zenon DEF Lines, FoldLeft, MapThenFoldSet, WithCharacter
<1>2. n \in Nat /\ DOMAIN t = 1..n /\ << >> \in V /\ \A k \in 1..n : t[k] \in Characters
  BY DEF Texts
<1>3. \A v \in V, k \in 1..n : WithCharacter(v, t[k]) \in V
  BY <1>2, WithCharacterType, Zenon
<1>4. F \in [V \X (1..n) -> V] /\ \A v \in V, k \in 1..n : F[<<v, k>>] = WithCharacter(v, t[k])
  <2> HIDE DEF n, V
  <2> QED BY <1>3
<1>5. PICK it \in [SUBSET (1..n) -> V] : Folding(F, << >>, n, it)
  <2> HIDE DEF n, V, F
  <2> QED BY <1>2, <1>4, FoldExists, Zenon
<1> HIDE DEF n, V, F
<1>6. \A s \in SUBSET (1..n) : s # {} => Max(s) \in s
  BY <1>2, GreatestIn, Zenon
<1>7. Iter(it)
  <2>1. ASSUME NEW s \in SUBSET (1..n), s # {}
        PROVE  F[<<it[s \ {Max(s)}], Max(s)>>] = WithCharacter(it[s \ {Max(s)}], t[Max(s)])
    BY <1>4, <1>6, <2>1, s \ {Max(s)} \in SUBSET (1..n), Zenon
  <2>2. it = [s \in SUBSET (1..n) |-> it[s]]
    OBVIOUS
  <2>3. \A s \in SUBSET (1..n) :
          it[s] = IF s = {} THEN << >> ELSE WithCharacter(it[s \ {Max(s)}], t[Max(s)])
    BY <1>5, <2>1, Zenon DEF Folding
  <2> QED BY <1>2, <2>2, <2>3, Zenon
<1>8. Iter(iter)
  BY <1>7, Zenon
<1> HIDE DEF iter
<1> DEFINE next == [s \in SUBSET (1..n) |-> WithCharacter(iter[s \ {Max(s)}], t[Max(s)])]
<1>9. Folded(iter, next, << >>, n)
  BY <1>2, <1>8, Zenon DEF Folded
<1>10. AsGiven(iter, next, F, V, n)
  BY <1>4, <1>6, Zenon DEF AsGiven
<1> HIDE DEF next
<1>11. PICK g \in [0..n -> V] : Values(g, F, << >>, n, iter)
  BY <1>2, <1>4, <1>9, <1>10, FoldSteps, Zenon
<1>12. \A k \in 1..n : g[k] = WithCharacter(g[k - 1], t[k])
  <2>1. \A k \in 1..n : k - 1 \in 0..n
    BY <1>2
  <2> QED BY <1>4, <1>11, <2>1 DEF Values
<1> QED BY <1>1, <1>2, <1>11, <1>12, Zenon DEF n, V, Values, CutUp

LEMMA LinesOfNone == Lines(<< >>) = << >>
<1>1. << >> \in Texts /\ Len(<< >>) = 0
  BY DEF Texts
<1> QED BY <1>1, LinesFolds DEF CutUp

LEMMA LinesOfMore ==
  ASSUME NEW t \in Texts, NEW c \in Characters
  PROVE  Lines(t) \in Seq(Texts) /\ Lines(Append(t, c)) = WithCharacter(Lines(t), c)
<1> DEFINE n == Len(t)
           u == Append(t, c)
<1>1. n \in Nat /\ u \in Texts /\ Len(u) = n + 1 /\ u[n + 1] = c /\ \A k \in 1..n : u[k] = t[k]
  BY DEF Texts
<1>2. PICK g \in [0..n -> Seq(Texts)] : CutUp(g, t) /\ Lines(t) = g[n]
  BY LinesFolds, Zenon
<1> HIDE DEF u
<1>3. PICK h \in [0..Len(u) -> Seq(Texts)] : CutUp(h, u) /\ Lines(u) = h[Len(u)]
  BY <1>1, LinesFolds, Zenon
<1> DEFINE A == {k \in 0..n : g[k] = h[k]}
<1>4. 0 \in A
  BY <1>1, <1>2, <1>3 DEF CutUp
<1> HIDE DEF n
<1>5. ASSUME NEW k \in 0..n - 1, k \in A PROVE k + 1 \in A
  <2>1. k + 1 \in 1..n /\ k + 1 \in 1..n + 1 /\ (k + 1) - 1 = k /\ k + 1 \in 0..n
    BY <1>1
  <2>2. g[k + 1] = WithCharacter(g[k], t[k + 1]) /\ h[k + 1] = WithCharacter(h[k], u[k + 1])
    BY <1>1, <1>2, <1>3, <2>1 DEF CutUp, n
  <2> QED BY <1>1, <1>5, <2>1, <2>2, Zenon
<1>6. n \in A
  <2> HIDE DEF A
  <2>1. n \in 0..n
    BY <1>1
  <2> QED BY <1>1, <1>4, <1>5, <2>1, UpTo, Zenon
<1>7. h[n + 1] = WithCharacter(h[n], c) /\ g[n] \in Seq(Texts)
  <2>1. n + 1 \in 1..Len(u) /\ (n + 1) - 1 = n /\ n \in 0..n
    BY <1>1
  <2> QED BY <1>1, <1>2, <1>3, <2>1 DEF CutUp
<1> QED BY <1>1, <1>2, <1>3, <1>6, <1>7, Zenon DEF u, n

\* A text and its lines.
Shape(t) ==
  /\ Lines(t) = << >> <=> t = << >>
  /\ t # << >> => (EndsOpen(Last(Lines(t))) <=> EndsOpen(t))
  /\ Len(Lines(t)) = TotalLines(t)

LEMMA EndOfMore ==
  ASSUME NEW t \in Texts, NEW c \in Characters
  PROVE  /\ EndsOpen(Append(t, c)) <=> c # Newline
         /\ Append(t, c) # << >> /\ Append(t, c) \in Texts
BY DEF EndsOpen, Last, Texts

LEMMA NewlinesOfMore ==
  ASSUME NEW t \in Texts, NEW c \in Characters
  PROVE  /\ IsFiniteSet(Newlines(t)) /\ Cardinality(Newlines(t)) \in Nat
         /\ Cardinality(Newlines(Append(t, c)))
              = Cardinality(Newlines(t)) + IF c = Newline THEN 1 ELSE 0
<1>1. IsFiniteSet(Newlines(t))
  <2>1. Newlines(t) \subseteq 1..Len(t) /\ Len(t) \in Nat
    BY DEF Newlines, Texts
  <2>2. IsFiniteSet(1..Len(t))
    BY <2>1, FS_Interval
  <2> QED BY <2>1, <2>2, FS_Subset, Zenon
<1>2. Cardinality(Newlines(t)) \in Nat
  BY <1>1, FS_CardinalityType
<1> DEFINE u == Append(t, c)
<1>3. DOMAIN u = DOMAIN t \cup {Len(t) + 1} /\ Len(t) + 1 \notin DOMAIN t
      /\ u[Len(t) + 1] = c /\ \A i \in DOMAIN t : u[i] = t[i]
  BY DEF Texts
<1> HIDE DEF u
<1>4. CASE c = Newline
  <2>1. Newlines(u) = Newlines(t) \cup {Len(t) + 1} /\ Len(t) + 1 \notin Newlines(t)
    BY <1>3, <1>4 DEF Newlines
  <2>2. Cardinality(Newlines(u)) = Cardinality(Newlines(t)) + 1
    BY <1>1, <2>1, FS_AddElement
  <2> QED BY <1>1, <1>2, <1>4, <2>2 DEF u
<1>5. CASE c # Newline
  <2>1. Newlines(u) = Newlines(t)
    BY <1>3, <1>5 DEF Newlines
  <2> QED BY <1>1, <1>2, <1>5, <2>1 DEF u
<1> QED BY <1>4, <1>5

LEMMA ShapeOfMore ==
  ASSUME NEW t \in Texts, NEW c \in Characters, Shape(t)
  PROVE  Shape(Append(t, c))
<1> DEFINE u == Append(t, c)
           lines == Lines(t)
           more == Lines(u)
<1>1. lines \in Seq(Texts) /\ more = WithCharacter(lines, c)
  BY LinesOfMore
<1>2. /\ EndsOpen(u) <=> c # Newline
      /\ u # << >>
  BY EndOfMore
<1>3. /\ Cardinality(Newlines(t)) \in Nat
      /\ Cardinality(Newlines(u)) = Cardinality(Newlines(t)) + IF c = Newline THEN 1 ELSE 0
  BY NewlinesOfMore
<1>4. Len(lines) = TotalLines(t)
  BY DEF Shape
<1>5. <<c>> \in Texts /\ (EndsOpen(<<c>>) <=> c # Newline)
  BY DEF Texts, EndsOpen, Last
<1> HIDE DEF u, lines, more
<1>6. CASE ~EndsOpen(t)
  <2>1. lines = << >> \/ ~EndsOpen(Last(lines))
    BY <1>6 DEF Shape, lines
  <2>2. more = Append(lines, <<c>>)
    BY <1>1, <2>1, Zenon DEF WithCharacter
  <2>3. more # << >> /\ Last(more) = <<c>> /\ Len(more) = Len(lines) + 1
    BY <1>1, <1>5, <2>2 DEF Last
  <2>4. TotalLines(u) = TotalLines(t) + 1
    BY <1>2, <1>3, <1>6 DEF TotalLines
  <2> QED BY <1>2, <1>4, <1>5, <2>3, <2>4 DEF Shape, u, more
<1>7. CASE EndsOpen(t)
  <2>1. lines # << >> /\ EndsOpen(Last(lines))
    BY <1>7 DEF Shape, lines, EndsOpen
  <2>2. more = [lines EXCEPT ![Len(lines)] = Append(@, c)]
    BY <1>1, <2>1, Zenon DEF WithCharacter
  <2>3. Len(lines) \in DOMAIN lines /\ lines[Len(lines)] \in Texts
    BY <1>1, <2>1
  <2>4. more # << >> /\ Last(more) = Append(lines[Len(lines)], c) /\ Len(more) = Len(lines)
    BY <1>1, <2>2, <2>3 DEF Last
  <2>5. EndsOpen(Last(more)) <=> c # Newline
    BY <2>3, <2>4, EndOfMore
  <2>6. TotalLines(u) = TotalLines(t)
    BY <1>2, <1>3, <1>7 DEF TotalLines
  <2> QED BY <1>2, <1>4, <2>4, <2>5, <2>6 DEF Shape, u, more
<1> QED BY <1>6, <1>7

LEMMA ShapeOfText ==
  ASSUME NEW t \in Texts
  PROVE  Shape(t) /\ Lines(t) \in Seq(Texts)
<1> DEFINE n == Len(t)
           A == {k \in 0..n : Shape(SubSeq(t, 1, k))}
<1>1. n \in Nat /\ t \in Seq(Characters) /\ \A k \in 1..n : t[k] \in Characters
  BY DEF Texts
<1>2. 0 \in A
  <2>1. SubSeq(t, 1, 0) = << >>
    BY <1>1
  <2>2. Newlines(<< >>) = {}
    BY DEF Newlines
  <2>3. TotalLines(<< >>) = 0
    <3>1. ~EndsOpen(<< >>)
      BY DEF EndsOpen
    <3>2. Cardinality(Newlines(<< >>)) = 0
      BY <2>2, FS_EmptySet, Zenon
    <3> QED BY <3>1, <3>2 DEF TotalLines
  <2>4. Shape(<< >>)
    BY <2>3, LinesOfNone DEF Shape
  <2>5. Shape(SubSeq(t, 1, 0)) /\ 0 \in 0..n
    <3>1. Shape(SubSeq(t, 1, 0))
      BY <2>1, <2>4, Zenon
    <3> QED BY <1>1, <3>1
  <2> QED BY <2>5, Zenon
<1>3. ASSUME NEW k \in 0..n - 1, k \in A PROVE k + 1 \in A
  <2>1. SubSeq(t, 1, k + 1) = Append(SubSeq(t, 1, k), t[k + 1])
    BY <1>1, OneMore
  <2>2. SubSeq(t, 1, k) \in Texts /\ t[k + 1] \in Characters /\ k + 1 \in 0..n
    BY <1>1 DEF Texts
  <2>3. Shape(SubSeq(t, 1, k))
    BY <1>3
  <2> QED BY <2>1, <2>2, <2>3, ShapeOfMore
<1>4. n \in A
  <2> HIDE DEF A
  <2> HIDE DEF n
  <2>1. n \in 0..n
    BY <1>1
  <2> QED BY <1>1, <1>2, <1>3, <2>1, UpTo, Zenon
<1>5. SubSeq(t, 1, n) = t
  BY <1>1
<1>6. Lines(t) \in Seq(Texts)
  BY LinesOfMore, NewlineAssumption
<1> QED BY <1>4, <1>5, <1>6

\* A character in the last of the lines behind some others.
LEMMA WithCharacterBehind ==
  ASSUME NEW x \in Seq(Texts), NEW y \in Seq(Texts), y # << >>, NEW c \in Characters
  PROVE  WithCharacter(x \o y, c) = x \o WithCharacter(y, c)
<1> DEFINE xy == x \o y
<1>1. /\ xy \in Seq(Texts) /\ Len(xy) = Len(x) + Len(y) /\ Len(x) \in Nat /\ Len(y) \in Nat \ {0}
      /\ xy # << >>
      /\ \A i \in 1..Len(x) : xy[i] = x[i]
      /\ \A i \in 1..Len(y) : xy[Len(x) + i] = y[i]
  OBVIOUS
<1>2. Last(xy) = Last(y) /\ Last(y) \in Texts
  BY <1>1 DEF Last
<1>3. <<c>> \in Texts
  BY DEF Texts
<1> HIDE DEF xy
<1>4. CASE ~EndsOpen(Last(y))
  <2>1. WithCharacter(xy, c) = Append(xy, <<c>>) /\ WithCharacter(y, c) = Append(y, <<c>>)
    BY <1>2, <1>4, Zenon DEF WithCharacter
  <2>2. Append(x \o y, <<c>>) = x \o Append(y, <<c>>)
    <3>1. /\ Append(x \o y, <<c>>) = (x \o y) \o <<<<c>>>>
          /\ Append(y, <<c>>) = y \o <<<<c>>>>
      BY <1>1, <1>3, AppendIsConcat DEF xy
    <3>2. <<<<c>>>> \in Seq(Texts)
      BY <1>3
    <3>3. (x \o y) \o <<<<c>>>> = x \o (y \o <<<<c>>>>)
      BY <3>2, ConcatAssociative
    <3> QED BY <3>1, <3>3, Zenon
  <2> QED BY <2>1, <2>2, Zenon DEF xy
<1>5. CASE EndsOpen(Last(y))
  <2>1. /\ WithCharacter(xy, c) = [xy EXCEPT ![Len(xy)] = Append(@, c)]
        /\ WithCharacter(y, c) = [y EXCEPT ![Len(y)] = Append(@, c)]
    BY <1>1, <1>2, <1>5, Zenon DEF WithCharacter
  <2> DEFINE a == WithCharacter(xy, c)
             z == WithCharacter(y, c)
             b == x \o z
             l == Append(Last(y), c)
  <2>2. l \in Texts
    BY <1>2, EndOfMore
  <2>3. /\ Len(a) = Len(xy)
        /\ a[Len(xy)] = l
        /\ \A i \in 1..Len(xy) - 1 : a[i] = xy[i]
    BY <1>1, <1>2, <2>1 DEF Last
  <2>4. z \in Seq(Texts) /\ a \in Seq(Texts)
    BY <1>1, WithCharacterType, Zenon
  <2>5. /\ Len(z) = Len(y)
        /\ z[Len(y)] = l
        /\ \A i \in 1..Len(y) - 1 : z[i] = y[i]
    BY <1>1, <1>2, <2>1 DEF Last
  <2> HIDE DEF a, z, l
  <2>6. /\ b \in Seq(Texts) /\ Len(b) = Len(xy)
        /\ \A i \in 1..Len(x) : b[i] = x[i]
        /\ \A i \in 1..Len(y) : b[Len(x) + i] = z[i]
    <3>1. /\ b \in Seq(Texts) /\ Len(b) = Len(x) + Len(z)
          /\ \A i \in 1..Len(x) + Len(z) : b[i] = IF i <= Len(x) THEN x[i] ELSE z[i - Len(x)]
      BY <2>4, ConcatProperties
    <3> HIDE DEF b
    <3>2. \A i \in 1..Len(y) : Len(x) + i \in 1..Len(x) + Len(z) /\ ~(Len(x) + i <= Len(x))
            /\ (Len(x) + i) - Len(x) = i
      BY <1>1, <2>5
    <3>3. \A i \in 1..Len(y) : b[Len(x) + i] = z[i]
      BY <3>1, <3>2, Zenon
    <3>4. \A i \in 1..Len(x) : b[i] = x[i]
      BY <1>1, <2>5, <3>1
    <3> QED BY <1>1, <2>5, <3>1, <3>3, <3>4
  <2> HIDE DEF b
  <2>7. ASSUME NEW i \in 1..Len(xy) PROVE a[i] = b[i]
    <3>1. CASE i \in 1..Len(x)
      BY <1>1, <2>3, <2>6, <3>1
    <3>2. CASE i \in Len(x) + 1..Len(xy) - 1
      <4>1. i - Len(x) \in 1..Len(y) - 1 /\ Len(x) + (i - Len(x)) = i /\ i - Len(x) \in 1..Len(y)
        BY <1>1, <3>2
      <4>2. b[i] = y[i - Len(x)] /\ xy[i] = y[i - Len(x)] /\ a[i] = xy[i]
        <5>1. b[Len(x) + (i - Len(x))] = z[i - Len(x)] /\ xy[Len(x) + (i - Len(x))] = y[i - Len(x)]
          BY <1>1, <2>6, <4>1, Zenon
        <5>2. z[i - Len(x)] = y[i - Len(x)]
          BY <2>5, <4>1, Zenon
        <5>3. i \in 1..Len(xy) - 1
          BY <1>1, <3>2
        <5>4. a[i] = xy[i]
          BY <2>3, <5>3, Zenon
        <5> QED BY <4>1, <5>1, <5>2, <5>4, Zenon
      <4> QED BY <4>2
    <3>3. CASE i = Len(xy)
      <4>1. Len(y) \in 1..Len(y) /\ i = Len(x) + Len(y)
        BY <1>1, <3>3
      <4> QED BY <2>3, <2>5, <2>6, <3>3, <4>1
    <3> QED BY <1>1, <3>1, <3>2, <3>3
  <2>8. a = b
    BY <2>3, <2>4, <2>6, <2>7, SeqEqual
  <2> QED BY <2>8, Zenon DEF a, b, xy, z
<1> QED BY <1>4, <1>5

\* The lines of a text behind one that ends with a newline.
LEMMA LinesBehind ==
  ASSUME NEW s \in Texts, ~EndsOpen(s), NEW t \in Texts
  PROVE  Lines(s \o t) = Lines(s) \o Lines(t)
<1> DEFINE n == Len(t)
           Splits(u) == Lines(s \o u) = Lines(s) \o Lines(u)
           A == {k \in 0..n : Splits(SubSeq(t, 1, k))}
<1>1. n \in Nat /\ t \in Seq(Characters) /\ \A k \in 1..n : t[k] \in Characters
  BY DEF Texts
<1>2. Shape(s) /\ Lines(s) \in Seq(Texts)
  BY ShapeOfText
<1>3. 0 \in A
  <2>1. SubSeq(t, 1, 0) = << >>
    BY <1>1
  <2>2. s \o << >> = s /\ Lines(s) \o << >> = Lines(s)
    BY <1>2, ConcatEmptySeq DEF Texts
  <2>3. Splits(<< >>)
    BY <2>2, LinesOfNone, Zenon
  <2> HIDE DEF Splits
  <2>4. Splits(SubSeq(t, 1, 0))
    BY <2>1, <2>3, Zenon
  <2>5. 0 \in 0..n
    BY <1>1
  <2> QED BY <2>4, <2>5
<1>4. ASSUME NEW u \in Texts, NEW c \in Characters, Splits(u) PROVE Splits(Append(u, c))
  <2>1. s \o Append(u, c) = Append(s \o u, c) /\ s \o u \in Texts
    <3>1. s \in Seq(Characters) /\ u \in Seq(Characters) /\ s \o u \in Seq(Characters)
          /\ <<c>> \in Seq(Characters)
      BY DEF Texts
    <3>2. Append(u, c) = u \o <<c>> /\ Append(s \o u, c) = (s \o u) \o <<c>>
      BY <3>1, AppendIsConcat
    <3>3. s \o (u \o <<c>>) = (s \o u) \o <<c>>
      BY <3>1, ConcatAssociative
    <3> QED BY <3>1, <3>2, <3>3, Zenon DEF Texts
  <2>2. Lines(s \o Append(u, c)) = WithCharacter(Lines(s) \o Lines(u), c)
    BY <1>4, <2>1, LinesOfMore, Zenon
  <2>3. /\ Lines(Append(u, c)) = WithCharacter(Lines(u), c)
        /\ Lines(u) \in Seq(Texts) /\ Shape(u)
    BY LinesOfMore, ShapeOfText, Zenon
  <2>4. CASE u = << >>
    <3>1. Lines(s) = << >> \/ ~EndsOpen(Last(Lines(s)))
      BY <1>2, Zenon DEF Shape
    <3>2. Lines(u) = << >>
      BY <2>4, LinesOfNone, Zenon
    <3>3. Lines(s) \o << >> = Lines(s)
      BY <1>2, ConcatEmptySeq
    <3>4. /\ WithCharacter(Lines(s), c) = Append(Lines(s), <<c>>)
          /\ WithCharacter(<< >>, c) = Append(<< >>, <<c>>)
      BY <3>1, Zenon DEF WithCharacter
    <3>5. Append(Lines(s), <<c>>) = Lines(s) \o Append(<< >>, <<c>>)
      <4>1. <<c>> \in Texts
        BY DEF Texts
      <4>2. Append(Lines(s), <<c>>) = Lines(s) \o <<<<c>>>>
        BY <1>2, <4>1, AppendIsConcat
      <4>3. Append(<< >>, <<c>>) = <<<<c>>>>
        OBVIOUS
      <4> QED BY <4>2, <4>3, Zenon
    <3> QED BY <2>2, <2>3, <3>2, <3>3, <3>4, <3>5, Zenon
  <2>5. CASE u # << >>
    <3>1. Lines(u) # << >>
      BY <2>3, <2>5, Zenon DEF Shape
    <3>2. WithCharacter(Lines(s) \o Lines(u), c) = Lines(s) \o WithCharacter(Lines(u), c)
      BY <1>2, <2>3, <3>1, WithCharacterBehind, Zenon
    <3> QED BY <2>2, <2>3, <3>2, Zenon
  <2> QED BY <2>4, <2>5
<1> HIDE DEF Splits
<1>5. ASSUME NEW k \in 0..n - 1, k \in A PROVE k + 1 \in A
  <2>1. SubSeq(t, 1, k + 1) = Append(SubSeq(t, 1, k), t[k + 1])
    BY <1>1, OneMore
  <2>2. SubSeq(t, 1, k) \in Texts /\ t[k + 1] \in Characters /\ k + 1 \in 0..n
    BY <1>1 DEF Texts
  <2>3. Splits(SubSeq(t, 1, k))
    BY <1>5
  <2>4. Splits(SubSeq(t, 1, k + 1))
    BY <1>4, <2>1, <2>2, <2>3, Zenon
  <2> QED BY <2>2, <2>4
<1>6. n \in A
  <2> HIDE DEF A, n
  <2>1. n \in 0..n
    BY <1>1
  <2> QED BY <1>1, <1>3, <1>5, <2>1, UpTo, Zenon
<1>7. SubSeq(t, 1, n) = t
  BY <1>1
<1>8. Splits(t)
  BY <1>6, <1>7
<1> QED BY <1>8 DEF Splits

-----------------------------------------------------------------------------
(***************************************************************************)
(* The places that AfterLines finds cut a text where its lines are cut.    *)
(***************************************************************************)
LEMMA SomeNewlines ==
  ASSUME NEW t \in Texts
  PROVE  /\ IsFiniteSet(Newlines(t)) /\ Cardinality(Newlines(t)) \in Nat
         /\ Newlines(t) \in SUBSET (1..Len(t)) /\ Len(t) \in Nat
<1>1. IsFiniteSet(Newlines(t)) /\ Cardinality(Newlines(t)) \in Nat
  BY NewlinesOfMore, NewlineAssumption
<1>2. Newlines(t) \in SUBSET (1..Len(t)) /\ Len(t) \in Nat
  BY DEF Newlines, Texts
<1> QED BY <1>1, <1>2

\* The text up to behind its n-th newline.
LEMMA AfterNewlines ==
  ASSUME NEW t \in Texts, NEW n \in 0..Cardinality(Newlines(t))
  PROVE  /\ AfterLines(t, n) \in 0..Len(t)
         /\ ~EndsOpen(SubSeq(t, 1, AfterLines(t, n)))
         /\ Cardinality(Newlines(SubSeq(t, 1, AfterLines(t, n)))) = n
<1> DEFINE a == AfterLines(t, n)
           head == SubSeq(t, 1, a)
           Before(i) == {j \in Newlines(t) : j <= i}
<1>1. /\ Cardinality(Newlines(t)) \in Nat /\ n \in Nat
      /\ Newlines(t) \in SUBSET (1..Len(t)) /\ Len(t) \in Nat
  BY SomeNewlines
<1>2. CASE n = 0
  <2>1. a = 0 /\ 0 \in 0..Len(t)
    BY <1>1, <1>2 DEF AfterLines
  <2>2. head = << >>
    BY <2>1 DEF Texts
  <2>3. Newlines(<< >>) = {} /\ ~EndsOpen(<< >>)
    BY DEF Newlines, EndsOpen
  <2> HIDE DEF a
  <2> QED BY <1>2, <2>1, <2>2, <2>3, FS_EmptySet, Zenon DEF a
<1>3. CASE n # 0
  <2>1. n \in 1..Cardinality(Newlines(t)) /\ ~(n < 1) /\ ~(n > Cardinality(Newlines(t)))
    BY <1>1, <1>3
  <2>2. \E i \in Newlines(t) : Cardinality(Before(i)) = n
    BY <1>1, <2>1, RankIsTaken, Zenon
  <2>3. a = CHOOSE i \in Newlines(t) : Cardinality(Before(i)) = n
    BY <2>1, Zenon DEF AfterLines
  <2>4. a \in Newlines(t) /\ Cardinality(Before(a)) = n
    BY <2>2, <2>3, Zenon
  <2> HIDE DEF a
  <2>5. a \in 1..Len(t) /\ t[a] = Newline
    BY <2>4 DEF Newlines, Texts
  <2>6. /\ head \in Seq(Characters) /\ Len(head) = a /\ a \in Nat
        /\ \A i \in 1..a : head[i] = t[i]
    BY <2>5 DEF Texts
  <2> HIDE DEF head
  <2>7. ~EndsOpen(head)
    BY <2>5, <2>6 DEF EndsOpen, Last
  <2>8. Newlines(head) = Before(a)
    <3>1. ASSUME NEW i \in Newlines(head) PROVE i \in Before(a)
      BY <1>1, <2>5, <2>6 DEF Newlines, Texts
    <3>2. ASSUME NEW i \in Before(a) PROVE i \in Newlines(head)
      <4>1. i \in 1..a /\ t[i] = Newline
        BY <1>1, <2>5 DEF Newlines
      <4> QED BY <2>6, <4>1 DEF Newlines
    <3> QED BY <3>1, <3>2, Zenon
  <2>9. a \in 0..Len(t)
    BY <2>5
  <2> QED BY <2>4, <2>7, <2>8, <2>9, Zenon DEF a, head
<1> QED BY <1>2, <1>3

\* A text is cut behind a line where its list of lines is.
LEMMA CutBehindLine ==
  ASSUME NEW t \in Texts, NEW n \in 0..TotalLines(t)
  PROVE  /\ AfterLines(t, n) \in 0..Len(t)
         /\ Lines(SubSeq(t, 1, AfterLines(t, n))) = SubSeq(Lines(t), 1, n)
         /\ Lines(SubSeq(t, AfterLines(t, n) + 1, Len(t)))
              = SubSeq(Lines(t), n + 1, Len(Lines(t)))
<1> DEFINE a == AfterLines(t, n)
           head == SubSeq(t, 1, a)
           rest == SubSeq(t, a + 1, Len(t))
           lines == Lines(t)
<1>1. /\ Cardinality(Newlines(t)) \in Nat /\ Len(t) \in Nat /\ t \in Seq(Characters)
      /\ TotalLines(t) \in Nat
  BY SomeNewlines DEF TotalLines, Texts
<1>2. lines \in Seq(Texts) /\ Len(lines) = TotalLines(t) /\ n \in Nat
  BY <1>1, ShapeOfText DEF Shape
<1>3. CASE n <= Cardinality(Newlines(t))
  <2>1. a \in 0..Len(t) /\ ~EndsOpen(head) /\ Cardinality(Newlines(head)) = n
    BY <1>1, <1>2, <1>3, AfterNewlines
  <2> HIDE DEF a
  <2>2. head \in Texts /\ rest \in Texts /\ t = head \o rest
    <3>1. head \in Seq(Characters) /\ rest \in Seq(Characters)
      BY <1>1, <2>1
    <3>2. 1 \in 1..Len(t) + 1 /\ a \in 1 - 1..Len(t) /\ Len(t) \in a..Len(t)
      BY <1>1, <2>1
    <3>3. head \o rest = SubSeq(t, 1, Len(t))
      BY <1>1, <3>2, ConcatAdjacentSubSeq
    <3>4. SubSeq(t, 1, Len(t)) = t
      BY <1>1
    <3> QED BY <3>1, <3>3, <3>4 DEF Texts
  <2> HIDE DEF head, rest
  <2>3. lines = Lines(head) \o Lines(rest)
    BY <2>1, <2>2, LinesBehind
  <2>4. Len(Lines(head)) = n /\ Lines(head) \in Seq(Texts) /\ Lines(rest) \in Seq(Texts)
    <3>1. Shape(head) /\ Lines(head) \in Seq(Texts) /\ Lines(rest) \in Seq(Texts)
      BY <2>2, ShapeOfText
    <3>2. TotalLines(head) = n
      BY <1>2, <2>1 DEF TotalLines
    <3> QED BY <3>1, <3>2 DEF Shape
  <2> HIDE DEF lines
  <2>5. lines = Lines(head) \o Lines(rest) /\ n = Len(Lines(head))
    BY <2>3, <2>4
  <2>6. SubSeq(lines, 1, n) = Lines(head) /\ SubSeq(lines, n + 1, Len(lines)) = Lines(rest)
    <3> DEFINE x == Lines(head)
               y == Lines(rest)
    <3> HIDE DEF x, y
    <3>1. x \in Seq(Texts) /\ y \in Seq(Texts) /\ lines = x \o y /\ n = Len(x)
      BY <2>4, <2>5 DEF x, y
    <3>2. IsPrefix(x, x \o y) /\ SubSeq(x \o y, Len(x) + 1, Len(x \o y)) = y
      BY <3>1, PrefixOfConcat
    <3>3. SubSeq(x, 1, Len(x)) = x
      BY <3>1
    <3> QED BY <3>1, <3>2, <3>3 DEF IsPrefix, x, y
  <2> QED BY <2>1, <2>6 DEF a, head, rest, lines
<1>4. CASE n > Cardinality(Newlines(t))
  <2>1. a = Len(t) /\ n = Len(lines)
    BY <1>1, <1>2, <1>4 DEF AfterLines, TotalLines
  <2>2. head = t /\ rest = << >>
    BY <1>1, <2>1
  <2> HIDE DEF lines
  <2>3. SubSeq(lines, 1, n) = lines /\ SubSeq(lines, n + 1, Len(lines)) = << >>
    BY <1>2, <2>1
  <2> HIDE DEF a, head, rest
  <2>4. a \in 0..Len(t) /\ Lines(head) = lines /\ Lines(rest) = << >>
    BY <1>1, <2>1, <2>2, LinesOfNone DEF lines
  <2> QED BY <2>3, <2>4 DEF a, head, rest, lines
<1> QED BY <1>1, <1>2, <1>3, <1>4

LEMMA EndedText ==
  ASSUME NEW content \in Texts
  PROVE  Ended(content) \in Texts /\ ~EndsOpen(Ended(content))
<1>1. CASE EndsOpen(content)
  <2>1. Ended(content) = Append(content, Newline)
    BY <1>1, Zenon DEF Ended
  <2>2. Append(content, Newline) \in Texts /\ ~EndsOpen(Append(content, Newline))
    BY EndOfMore, NewlineAssumption
  <2> QED BY <2>1, <2>2, Zenon
<1>2. CASE ~EndsOpen(content)
  BY <1>2, Zenon DEF Ended
<1> QED BY <1>1, <1>2

LEMMA ReplacedLines ==
  ASSUME NEW t \in Texts, NEW content \in Texts, NEW start, NEW end,
         InRange(t, start, end)
  PROVE  Lines(LinesReplaced(t, start, end, content)) =
           SubSeq(Lines(t), 1, start - 1) \o Lines(Ended(content))
             \o SubSeq(Lines(t), end + 1, Len(Lines(t)))
<1> DEFINE a == AfterLines(t, start - 1)
           b == AfterLines(t, end)
           head == SubSeq(t, 1, a)
           tail == SubSeq(t, b + 1, Len(t))
           middle == Ended(content)
<1>1. /\ Cardinality(Newlines(t)) \in Nat /\ TotalLines(t) \in Nat /\ t \in Seq(Characters)
      /\ TotalLines(t) <= Cardinality(Newlines(t)) + 1
  BY SomeNewlines DEF TotalLines, Texts
<1>2. /\ start - 1 \in 0..Cardinality(Newlines(t))
      /\ start - 1 \in 0..TotalLines(t) /\ end \in 0..TotalLines(t)
  BY <1>1 DEF InRange
<1>3. /\ a \in 0..Len(t) /\ b \in 0..Len(t)
      /\ Lines(head) = SubSeq(Lines(t), 1, start - 1)
      /\ Lines(tail) = SubSeq(Lines(t), end + 1, Len(Lines(t)))
  BY <1>2, CutBehindLine
<1>4. ~EndsOpen(head)
  BY <1>2, AfterNewlines
<1>5. head \in Texts /\ tail \in Texts
  <2> HIDE DEF a, b
  <2> QED BY <1>1, <1>3 DEF Texts
<1>6. middle \in Texts /\ ~EndsOpen(middle)
  BY EndedText
<1>7. LinesReplaced(t, start, end, content) = head \o middle \o tail
  BY Zenon DEF LinesReplaced
<1> HIDE DEF head, tail, middle
<1>8. head \o middle \o tail = head \o (middle \o tail) /\ middle \o tail \in Texts
  <2>1. head \in Seq(Characters) /\ middle \in Seq(Characters) /\ tail \in Seq(Characters)
    BY <1>5, <1>6, Zenon DEF Texts
  <2>2. (head \o middle) \o tail = head \o (middle \o tail)
    BY <2>1, ConcatAssociative, SMTT(30)
  <2>3. middle \o tail \in Seq(Characters)
    BY <2>1
  <2> QED BY <2>2, <2>3, Zenon DEF Texts
<1>9. Lines(head \o (middle \o tail)) = Lines(head) \o (Lines(middle) \o Lines(tail))
  BY <1>4, <1>5, <1>6, <1>8, LinesBehind
<1>10. Lines(head) \o (Lines(middle) \o Lines(tail)) = Lines(head) \o Lines(middle) \o Lines(tail)
  <2> DEFINE x == Lines(head)
             y == Lines(middle)
             z == Lines(tail)
  <2>1. x \in Seq(Texts) /\ y \in Seq(Texts) /\ z \in Seq(Texts)
    BY <1>5, <1>6, ShapeOfText
  <2> HIDE DEF x, y, z
  <2>2. (x \o y) \o z = x \o (y \o z)
    BY <2>1, ConcatAssociative, SMTT(30)
  <2> QED BY <2>2 DEF x, y, z
<1> QED BY <1>3, <1>7, <1>8, <1>9, <1>10, Zenon DEF middle

-----------------------------------------------------------------------------
(***************************************************************************)
(* Chunks.  Each begins where the one before it ends, and the first that is*)
(* empty, or refused, begins at the end of the text.                       *)
(***************************************************************************)
\* Behind more lines is further on, unless the text is over.
LEMMA AfterMoreLines ==
  ASSUME NEW t \in Texts, NEW n \in Nat, NEW m \in Nat, n < m
  PROVE  /\ AfterLines(t, n) \in 0..Len(t) /\ AfterLines(t, m) \in 0..Len(t)
         /\ \/ AfterLines(t, n) < AfterLines(t, m)
            \/ AfterLines(t, n) = Len(t) /\ AfterLines(t, m) = Len(t)
<1> DEFINE a == AfterLines(t, n)
           b == AfterLines(t, m)
           C == Cardinality(Newlines(t))
           Before(i) == Newlines(SubSeq(t, 1, i))
<1>1. /\ C \in Nat /\ IsFiniteSet(Newlines(t))
      /\ Newlines(t) \in SUBSET (1..Len(t)) /\ Len(t) \in Nat
  BY SomeNewlines
<1>2. \A k \in Nat : k > C => AfterLines(t, k) = Len(t)
  <2>1. \A k \in Nat : k > C => ~(k < 1)
    BY <1>1
  <2> QED BY <2>1, Zenon DEF AfterLines
<1>3. \A k \in 0..C : AfterLines(t, k) \in 0..Len(t) /\ Cardinality(Before(AfterLines(t, k))) = k
  BY AfterNewlines
<1> HIDE DEF C
<1>4. a \in 0..Len(t) /\ b \in 0..Len(t)
  <2>1. n > C \/ n \in 0..C
    BY <1>1
  <2>2. m > C \/ m \in 0..C
    BY <1>1
  <2> QED BY <1>1, <1>2, <1>3, <2>1, <2>2
<1>5. CASE m > C
  <2>1. b = Len(t)
    BY <1>2, <1>5
  <2> HIDE DEF a, b
  <2> QED BY <1>1, <1>4, <2>1 DEF a, b
<1>6. CASE ~(m > C)
  <2>1. n \in 0..C /\ m \in 0..C
    BY <1>1, <1>6
  <2>2. Cardinality(Before(a)) = n /\ Cardinality(Before(b)) = m
    BY <1>3, <2>1
  <2> HIDE DEF a, b
  <2>3. SUFFICES ASSUME b <= a PROVE FALSE
    BY <1>4 DEF a, b
  <2>4. Before(b) \subseteq Before(a) /\ Before(a) \subseteq Newlines(t)
    BY <1>1, <1>4, <2>3 DEF Newlines, Texts
  <2> HIDE DEF Before
  <2>5. IsFiniteSet(Before(a)) /\ Cardinality(Before(b)) <= Cardinality(Before(a))
    BY <1>1, <2>4, FS_Subset
  <2> QED BY <2>2, <2>5
<1> QED BY <1>4, <1>5, <1>6

\* The chunk of so many lines behind so many.
LEMMA ChunkBehind ==
  ASSUME NEW t \in Texts, NEW limit \in Nat \ {0}, NEW b \in Nat
  PROVE  LET chunk == ReadLines(t, 1 + b, limit)
             from == AfterLines(t, b)
             to == AfterLines(t, b + limit)
         IN  /\ from \in 0..Len(t) /\ to \in from..Len(t)
             /\ chunk \notin {<< >>, Refused} => chunk = SubSeq(t, from + 1, to)
             /\ chunk \in {<< >>, Refused} => from = Len(t)
<1> DEFINE chunk == ReadLines(t, 1 + b, limit)
           from == AfterLines(t, b)
           to == AfterLines(t, b + limit)
<1>1. b + limit \in Nat /\ b < b + limit /\ Len(t) \in Nat /\ t \in Seq(Characters)
  BY DEF Texts
<1>2. from \in 0..Len(t) /\ to \in from..Len(t) /\ (from < to \/ from = Len(t))
  <2>1. /\ from \in 0..Len(t) /\ to \in 0..Len(t)
        /\ from < to \/ (from = Len(t) /\ to = Len(t))
    BY <1>1, AfterMoreLines
  <2> HIDE DEF from, to
  <2> QED BY <1>1, <2>1
<1>3. chunk = IF b > Cardinality(Newlines(t)) THEN Refused ELSE SubSeq(t, from + 1, to)
  <2>1. LinesBefore(1 + b) = b
    BY DEF LinesBefore
  <2>2. ~(limit < 0)
    OBVIOUS
  <2> QED BY <2>1, <2>2, Zenon DEF ReadLines
<1>4. b > Cardinality(Newlines(t)) => from = Len(t)
  <2>1. b > Cardinality(Newlines(t)) => ~(b < 1)
    BY SomeNewlines
  <2> QED BY <2>1, Zenon DEF AfterLines
<1> HIDE DEF from, to
<1>5. from < to => SubSeq(t, from + 1, to) # << >> /\ SubSeq(t, from + 1, to) \in Texts
  BY <1>1, <1>2 DEF Texts
<1> HIDE DEF chunk
<1>6. chunk \notin {<< >>, Refused} => chunk = SubSeq(t, from + 1, to)
  BY <1>3, Zenon
<1>7. chunk \in {<< >>, Refused} => from = Len(t)
  <2>1. from < to => SubSeq(t, from + 1, to) \notin {<< >>, Refused}
    BY <1>5, RefusedAssumption, Zenon
  <2> QED BY <1>2, <1>3, <1>4, <2>1, Zenon
<1> QED BY <1>2, <1>6, <1>7 DEF chunk, from, to

\* Texts that are pieces of a text, one behind the other, make it up.
LEMMA PiecesAddUp ==
  ASSUME NEW t \in Texts, NEW n \in Nat, NEW cut \in [0..n -> 0..Len(t)], cut[0] = 0,
         \A i \in 1..n : cut[i - 1] <= cut[i],
         NEW pieces, pieces = [i \in 1..n |-> SubSeq(t, cut[i - 1] + 1, cut[i])]
  PROVE  FlattenSeq(pieces) = SubSeq(t, 1, cut[n])
<1>1. Len(t) \in Nat /\ t \in Seq(Characters)
  BY DEF Texts
<1>2. Len(pieces) = n /\ pieces \in Seq(Texts)
  <2>1. \A i \in 1..n : SubSeq(t, cut[i - 1] + 1, cut[i]) \in Texts
    <3> SUFFICES ASSUME NEW i \in 1..n PROVE SubSeq(t, cut[i - 1] + 1, cut[i]) \in Texts
      OBVIOUS
    <3>1. cut[i - 1] \in 0..Len(t) /\ cut[i] \in 0..Len(t)
      OBVIOUS
    <3> DEFINE from == cut[i - 1] + 1
               to == cut[i]
    <3>2. from \in 1..Len(t) + 1 /\ to \in 0..Len(t)
      <4> DEFINE l == Len(t)
                 start == cut[i - 1]
      <4>1. l \in Nat /\ start \in 0..l
        BY <1>1, <3>1
      <4> HIDE DEF l, start
      <4>2. start + 1 \in 1..l + 1
        BY <4>1
      <4> QED BY <3>1, <4>2, Zenon DEF l, start
    <3> HIDE DEF from, to
    <3>3. SubSeq(t, from, to) \in Seq(Characters)
      BY <1>1, <3>2
    <3> QED BY <3>3 DEF Texts, from, to
  <2> QED BY <2>1
<1>3. CASE n = 0
  <2>1. pieces = << >>
    BY <1>2, <1>3
  <2>2. FlattenSeq(pieces) = pieces
    BY <1>2, <1>3, Zenon DEF FlattenSeq
  <2>3. SubSeq(t, 1, cut[n]) = << >>
    BY <1>1, <1>3
  <2> QED BY <2>1, <2>2, <2>3
<1>4. CASE n # 0
  <2> DEFINE Flat(f) == f = [i \in 1..n |-> IF i = 1 THEN pieces[i] ELSE f[i - 1] \o pieces[i]]
             flatten == CHOOSE f : Flat(f)
             heads == [i \in 1..n |-> SubSeq(t, 1, cut[i])]
  <2>1. FlattenSeq(pieces) = flatten[n]
    BY <1>2, <1>4, Zenon DEF FlattenSeq
  <2>2. \A i \in 1..n : pieces[i] = SubSeq(t, cut[i - 1] + 1, cut[i])
    OBVIOUS
  <2>3. pieces[1] = SubSeq(t, 1, cut[1])
    <3>1. 1 \in 1..n /\ 1 - 1 = 0
      BY <1>4
    <3>2. pieces[1] = SubSeq(t, cut[0] + 1, cut[1])
      BY <2>2, <3>1
    <3> QED BY <3>2
  <2>4. ASSUME NEW i \in 1..n, i # 1 PROVE SubSeq(t, 1, cut[i - 1]) \o pieces[i] = SubSeq(t, 1, cut[i])
    <3>1. cut[i - 1] \in 0..Len(t) /\ cut[i] \in cut[i - 1]..Len(t)
      <4> DEFINE l == Len(t)
                 from == cut[i - 1]
                 to == cut[i]
      <4>1. i - 1 \in 0..n /\ i \in 0..n
        BY <2>4
      <4>2. l \in Nat /\ from \in 0..l /\ to \in 0..l /\ from <= to
        BY <1>1, <2>4, <4>1, Zenon
      <4> HIDE DEF l, from, to
      <4>3. from \in 0..l /\ to \in from..l
        BY <4>2
      <4> QED BY <4>3 DEF l, from, to
    <3>2. 1 \in 1..Len(t) + 1 /\ cut[i - 1] \in 1 - 1..Len(t)
      BY <1>1, <3>1
    <3> QED BY <1>1, <2>2, <3>1, <3>2, ConcatAdjacentSubSeq
  <2>5. Flat(heads)
    <3>1. \A i \in 1..n : i # 1 => i - 1 \in 1..n
      OBVIOUS
    <3>2. \A i \in 1..n : SubSeq(t, 1, cut[i]) =
            IF i = 1 THEN pieces[i] ELSE heads[i - 1] \o pieces[i]
      BY <2>3, <2>4, <3>1
    <3> QED BY <3>2, Zenon
  <2>6. Flat(flatten)
    <3> HIDE DEF Flat
    <3> QED BY <2>5, Zenon
  <2> HIDE DEF flatten
  <2>7. \A i \in 1..n : flatten[i] = IF i = 1 THEN pieces[i] ELSE flatten[i - 1] \o pieces[i]
    BY <2>6, Zenon
  <2> DEFINE A == {i \in 0..n : i # 0 => flatten[i] = SubSeq(t, 1, cut[i])}
  <2>8. 0 \in A
    OBVIOUS
  <2>9. ASSUME NEW i \in 0..n - 1, i \in A PROVE i + 1 \in A
    <3>1. i + 1 \in 1..n /\ (i + 1) - 1 = i /\ i + 1 \in 0..n
      OBVIOUS
    <3>2. CASE i = 0
      <4>1. i + 1 = 1
        BY <3>2
      <4>2. flatten[1] = pieces[1]
        BY <2>7, <3>1, <4>1, Zenon
      <4> QED BY <2>3, <3>1, <4>1, <4>2, Zenon
    <3>3. CASE i # 0
      <4>1. flatten[i] = SubSeq(t, 1, cut[i]) /\ i + 1 # 1
        BY <2>9, <3>3
      <4>2. flatten[i + 1] = flatten[i] \o pieces[i + 1]
        BY <2>7, <3>1, <4>1, Zenon
      <4>3. SubSeq(t, 1, cut[i]) \o pieces[i + 1] = SubSeq(t, 1, cut[i + 1])
        BY <2>4, <3>1, <4>1
      <4> QED BY <3>1, <4>1, <4>2, <4>3, Zenon
    <3> QED BY <3>2, <3>3
  <2>10. n \in A
    <3> HIDE DEF A
    <3>1. n \in 0..n
      OBVIOUS
    <3> QED BY <2>8, <2>9, <3>1, UpTo, Zenon
  <2> QED BY <1>4, <2>1, <2>10
<1> QED BY <1>3, <1>4

LEMMA ChunksMakeText ==
  ASSUME NEW t \in Texts, NEW limit \in Nat \ {0}
  PROVE  InChunks(t, limit) = t
<1> DEFINE chunk(k) == ReadLines(t, 1 + (k - 1) * limit, limit)
           Ends(k) == chunk(k) \in {<< >>, Refused}
           First(k) == Ends(k) /\ \A j \in 1..(k - 1) : ~Ends(j)
           none == CHOOSE k \in 1..(Len(t) + 2) :
                     /\ chunk(k) \in {<< >>, Refused}
                     /\ \A j \in 1..(k - 1) : chunk(j) \notin {<< >>, Refused}
<1>1. Len(t) \in Nat /\ t \in Seq(Characters) /\ Newlines(t) \in SUBSET (1..Len(t))
      /\ Cardinality(Newlines(t)) \in Nat
  BY SomeNewlines DEF Texts
<1>2. none \in 1..Len(t) + 2 /\ First(none)
  <2> DEFINE K == {k \in 1..Len(t) + 2 : Ends(k)}
  <2>1. Len(t) + 2 \in K
    <3>1. Cardinality(Newlines(t)) <= Len(t)
      <4>1. IsFiniteSet(1..Len(t)) /\ Cardinality(1..Len(t)) = Len(t)
        <5>1. IsFiniteSet(1..Len(t))
              /\ Cardinality(1..Len(t)) = IF 1 > Len(t) THEN 0 ELSE Len(t) - 1 + 1
          BY <1>1, FS_Interval, 1 \in Int, Len(t) \in Int
        <5> QED BY <1>1, <5>1
      <4> QED BY <1>1, <4>1, FS_Subset
    <3> DEFINE b == (Len(t) + 2 - 1) * limit
    <3>2. b \in Nat /\ b >= Len(t) + 1
      BY <1>1
    <3> HIDE DEF b
    <3>3. LinesBefore(1 + b) = b /\ b > Cardinality(Newlines(t))
      BY <1>1, <3>1, <3>2 DEF LinesBefore
    <3>4. ReadLines(t, 1 + b, limit) = Refused
      BY <3>3, Zenon DEF ReadLines
    <3>5. Ends(Len(t) + 2)
      BY <3>4 DEF b
    <3>6. Len(t) + 2 \in 1..Len(t) + 2
      BY <1>1
    <3> HIDE DEF Ends
    <3> QED BY <3>5, <3>6
  <2>2. K \in SUBSET Nat
    OBVIOUS
  <2> HIDE DEF Ends
  <2>3. PICK k \in K : \A j \in K : k <= j
    <3> HIDE DEF K
    <3> QED BY <2>1, <2>2, LeastExists, Zenon
  <2>4. ASSUME NEW j \in 1..(k - 1) PROVE ~Ends(j)
    <3>1. j \in 1..Len(t) + 2 /\ ~(k <= j)
      BY <1>1, <2>3
    <3> QED BY <2>3, <3>1
  <2>5. k \in 1..Len(t) + 2 /\ First(k)
    BY <2>3, <2>4
  <2> QED BY <2>5, Zenon DEF Ends
<1> HIDE DEF none
<1> DEFINE n == none - 1
           b(i) == i * limit
           cut == [i \in 0..n |-> AfterLines(t, b(i))]
           pieces == [k \in 1..(none - 1) |-> chunk(k)]
<1>3. n \in Nat /\ InChunks(t, limit) = FlattenSeq(pieces)
  <2>1. n \in Nat
    BY <1>1, <1>2
  <2>2. InChunks(t, limit) = FlattenSeq(pieces)
    BY Zenon DEF InChunks, none
  <2> QED BY <2>1, <2>2
<1>4. \A i \in Nat : b(i) \in Nat /\ b(i + 1) = b(i) + limit
  OBVIOUS
<1>5. b(0) = 0 /\ AfterLines(t, 0) = 0
  BY DEF AfterLines
<1>6. ASSUME NEW i \in 1..n
      PROVE  /\ AfterLines(t, b(i - 1)) \in 0..Len(t)
             /\ AfterLines(t, b(i)) \in AfterLines(t, b(i - 1))..Len(t)
             /\ chunk(i) = SubSeq(t, AfterLines(t, b(i - 1)) + 1, AfterLines(t, b(i)))
  <2>1. b(i - 1) \in Nat /\ b(i) = b(i - 1) + limit /\ chunk(i) = ReadLines(t, 1 + b(i - 1), limit)
    <3>1. i - 1 \in Nat /\ (i - 1) + 1 = i
      BY <1>3
    <3> QED BY <1>4, <3>1
  <2>2. chunk(i) \notin {<< >>, Refused}
    <3>1. i \in 1..(none - 1)
      BY <1>3
    <3> QED BY <1>2, <3>1, Zenon
  <2> HIDE DEF b
  <2> DEFINE from == AfterLines(t, b(i - 1))
             to == AfterLines(t, b(i - 1) + limit)
             piece == ReadLines(t, 1 + b(i - 1), limit)
  <2>3. /\ from \in 0..Len(t) /\ to \in from..Len(t)
        /\ piece \notin {<< >>, Refused} => piece = SubSeq(t, from + 1, to)
    BY <2>1, ChunkBehind
  <2> HIDE DEF chunk
  <2> QED BY <2>1, <2>2, <2>3, Zenon
<1>7. AfterLines(t, b(n)) = Len(t)
  <2>1. chunk(none) = ReadLines(t, 1 + b(n), limit)
    OBVIOUS
  <2>2. ReadLines(t, 1 + b(n), limit) \in {<< >>, Refused}
    BY <1>2, <2>1, Zenon
  <2>3. b(n) \in Nat
    BY <1>3, <1>4
  <2> HIDE DEF b
  <2> QED BY <2>2, <2>3, ChunkBehind
<1> HIDE DEF b
<1>8. /\ cut \in [0..n -> 0..Len(t)] /\ cut[0] = 0
      /\ \A i \in 1..n : cut[i - 1] <= cut[i]
      /\ cut[n] = Len(t)
  <2> HIDE DEF chunk, n
  <2>1. \A i \in 0..n : AfterLines(t, b(i)) \in 0..Len(t)
    <3> SUFFICES ASSUME NEW i \in 0..n PROVE AfterLines(t, b(i)) \in 0..Len(t)
      OBVIOUS
    <3>1. CASE i = 0
      BY <1>1, <1>5, <3>1
    <3>2. CASE i # 0
      <4>1. i \in 1..n
        BY <1>3, <3>2
      <4> QED BY <1>1, <1>6, <4>1
    <3> QED BY <3>1, <3>2
  <2>2. 0 \in 0..n /\ n \in 0..n /\ \A i \in 1..n : i - 1 \in 0..n /\ i \in 0..n
    BY <1>3
  <2>3. \A i \in 1..n : AfterLines(t, b(i - 1)) <= AfterLines(t, b(i))
    BY <1>6
  <2> QED BY <1>5, <1>7, <2>1, <2>2, <2>3
<1>9. pieces = [i \in 1..n |-> SubSeq(t, cut[i - 1] + 1, cut[i])]
  <2>1. \A i \in 1..n : cut[i - 1] = AfterLines(t, b(i - 1)) /\ cut[i] = AfterLines(t, b(i))
    BY <1>3
  <2>2. \A i \in 1..n : chunk(i) = SubSeq(t, cut[i - 1] + 1, cut[i])
    <3> HIDE DEF chunk, n, cut
    <3> QED BY <1>6, <2>1, Zenon
  <2> HIDE DEF chunk, cut
  <2> QED BY <2>2, Zenon
<1> HIDE DEF pieces, cut, n
<1>10. FlattenSeq(pieces) = SubSeq(t, 1, cut[n])
  BY <1>3, <1>8, <1>9, PiecesAddUp
<1>11. SubSeq(t, 1, Len(t)) = t
  BY <1>1
<1> QED BY <1>3, <1>8, <1>10, <1>11

USE NewlineAssumption, AbsentAssumption, NowhereAssumption, CallsAssumption,
    FilesAssumption, BoundsAssumption

-----------------------------------------------------------------------------
(***************************************************************************)
(* Type correctness.  Outcome needs none of its own: what is no text is    *)
(* refused.                                                                *)
(***************************************************************************)
LEMMA ReturnType ==
  ASSUME TypeOK, NEW p \in Callers, NEW how \in Results, Return(p, how),
         files' \in [Paths -> Texts \cup {Absent}],
         disturbed' \in [Callers -> BOOLEAN],
         handle' \in [Callers -> Paths \cup {Nowhere}],
         handle'[p] = Nowhere,
         \A q \in Callers \ {p} : handle'[q] # Nowhere =>
           pc[q] = "opened" /\ files'[handle'[q]] # Absent
  PROVE  TypeOK'
<1>1. NoCall \in Calls
  BY DEF NoCall
<1>2. << >> \in Texts
  BY DEF Texts
<1>3. \A q \in Callers : q # p => pc'[q] = pc[q] /\ call'[q] = call[q]
  BY DEF TypeOK, Return
<1>4. pc'[p] = "idle"
  BY DEF TypeOK, Return
<1>5. /\ calls' \in 0..MaxCalls /\ outside' \in 0..MaxOutside
      /\ pc' \in [Callers -> Steps]
      /\ call' \in [Callers -> Calls]
      /\ text' \in [Callers -> Texts]
      /\ result' \in [Callers -> Results]
      /\ before' \in [Callers -> Texts \cup {Absent}]
  BY <1>1, <1>2 DEF TypeOK, Return, Steps
<1>6. \A q \in Callers :
        pc'[q] = "move" <=> pc'[q] # "idle" /\ call'[q] \in Moves
  BY <1>3, <1>4 DEF TypeOK
<1>7. \A q \in Callers : handle'[q] # Nowhere =>
        pc'[q] = "opened" /\ files'[handle'[q]] # Absent
  BY <1>3
<1> QED
  BY <1>5, <1>6, <1>7 DEF TypeOK

LEMMA WriteType ==
  ASSUME TypeOK, NEW p \in Callers, NEW n \in 0..Len(text[p]), Write(p, n),
         Close(p), NEW how \in Results, Return(p, how)
  PROVE  TypeOK'
<1>1. /\ handle' \in [Callers -> Paths \cup {Nowhere}]
      /\ handle'[p] = Nowhere
      /\ \A q \in Callers : q # p => handle'[q] = handle[q]
  BY DEF TypeOK, Close
<1>2. CASE handle[p] = Nowhere
  <2>1. SameFiles
    BY <1>2 DEF Write
  <2> QED
    BY <1>1, <2>1, ReturnType DEF SameFiles, TypeOK
<1>3. CASE handle[p] # Nowhere
  <2> DEFINE new(old) == SubSeq(text[p], 1, n) \o SubSeq(old, n + 1, Len(old))
             written == [path \in {handle[p]} |-> new(files[path])]
  <2>1. handle[p] \in Paths /\ files[handle[p]] \in Texts /\ text[p] \in Texts
    BY <1>3 DEF TypeOK
  <2>2. new(files[handle[p]]) \in Texts
    BY <2>1, WrittenOver
  <2>3. Change(p, {handle[p]}, written)
    BY <1>3 DEF Write
  <2>4. /\ {handle[p]} \in SUBSET Paths
        /\ \A path \in {handle[p]} : written[path] \in Texts \cup {Absent}
        /\ written[handle[p]] \in Texts
    BY <2>1, <2>2
  <2> HIDE DEF written
  <2>5. /\ files' \in [Paths -> Texts \cup {Absent}]
        /\ disturbed' \in [Callers -> BOOLEAN]
        /\ \A path \in Paths : files'[path] =
             IF path \in {handle[p]} THEN written[path] ELSE files[path]
    BY <2>3, <2>4 DEF Change, TypeOK
  <2>6. \A q \in Callers \ {p} : handle'[q] # Nowhere =>
          pc[q] = "opened" /\ files'[handle'[q]] # Absent
    BY <1>1, <2>4, <2>5 DEF TypeOK
  <2> QED
    BY <1>1, <2>5, <2>6, ReturnType
<1> QED
  BY <1>2, <1>3

\* The files hold texts, a file that is open is there, and only a call that has
\* opened it holds it (base/file.cc as it is used by the tools).
THEOREM TypeCorrect == Spec => []TypeOK
<1>1. Init => TypeOK
  <2> SUFFICES ASSUME Init PROVE TypeOK
    OBVIOUS
  <2>1. NoCall \in Calls
    BY DEF NoCall
  <2>2. << >> \in Texts
    BY DEF Texts
  <2>3. \A p \in Callers : pc[p] = "idle" /\ handle[p] = Nowhere
    BY DEF Init
  <2> QED
    BY <2>1, <2>2, <2>3 DEF Init, TypeOK, Steps, Results
<1>2. TypeOK /\ [Next]_vars => TypeOK'
  <2> SUFFICES ASSUME TypeOK, [Next]_vars
               PROVE  TypeOK'
    OBVIOUS
  <2>1. ASSUME NEW p \in Callers, NEW c \in Calls, Begin(p, c)
        PROVE  TypeOK'
    <3>1. /\ c.path \in Paths
          /\ c \in Writes => c.content \in Texts /\ c \notin Moves
      BY DEF Edits, Replacements, Writes, Moves
    <3>2. << >> \in Texts
      BY DEF Texts
    <3>3. handle[p] = Nowhere
      BY <2>1 DEF Begin, TypeOK
    <3>4. \A q \in Callers : q # p => pc'[q] = pc[q] /\ call'[q] = call[q]
      BY <2>1 DEF Begin, TypeOK
    <3>5. /\ pc'[p] = CASE c \in Moves -> "move"
                         [] c \in Writes -> "show"
                         [] OTHER -> "read"
          /\ call'[p] = c
          /\ pc' \in [Callers -> Steps]
      BY <2>1, <3>1 DEF Begin, TypeOK, Steps
    <3>6. \A q \in Callers :
            pc'[q] = "move" <=> pc'[q] # "idle" /\ call'[q] \in Moves
      BY <3>1, <3>4, <3>5 DEF TypeOK
    <3>7. /\ calls' \in 0..MaxCalls /\ outside' \in 0..MaxOutside
          /\ call' \in [Callers -> Calls]
          /\ text' \in [Callers -> Texts]
          /\ result' \in [Callers -> Results]
          /\ before' \in [Callers -> Texts \cup {Absent}]
          /\ disturbed' \in [Callers -> BOOLEAN]
          /\ UNCHANGED <<files, handle>>
      BY <2>1, <3>1, <3>2 DEF Begin, TypeOK, Results
    <3> QED
      BY <3>3, <3>4, <3>5, <3>6, <3>7 DEF TypeOK
  <2>2. ASSUME NEW p \in Callers, NEW how \in Results, Return(p, how),
               SameFiles, UNCHANGED handle, pc[p] # "opened"
        PROVE  TypeOK'
    <3>1. handle[p] = Nowhere
      BY <2>2 DEF TypeOK
    <3> QED
      BY <2>2, <3>1, ReturnType DEF SameFiles, TypeOK
  <2>3. ASSUME NEW p \in Callers, Reading(p) PROVE TypeOK'
    <3>1. CASE ReadFails(p)
      BY <2>2, <3>1 DEF ReadFails, Results
    <3>2. CASE Refuse(p)
      BY <2>2, <3>2 DEF Refuse, Results
    <3>3. CASE Accept(p)
      <4>1. \A q \in Callers : handle[q] # Nowhere => q # p
        BY <3>3 DEF Accept, TypeOK
      <4>2. /\ pc' = [pc EXCEPT ![p] = "show"] /\ pc[p] = "read"
            /\ \A q \in Callers : q # p => pc'[q] = pc[q]
            /\ pc'[p] = "show"
        BY <3>3 DEF Accept, Goto, TypeOK
      <4>3. text' \in [Callers -> Texts]
        BY <3>3 DEF Accept, TypeOK
      <4> QED
        BY <3>3, <4>1, <4>2, <4>3 DEF Accept, Goto, SameFiles, TypeOK, Steps
    <3>4. CASE Throw(p)
      BY <2>2, <3>4 DEF Throw, Results
    <3> QED
      BY <2>3, <3>1, <3>2, <3>3, <3>4 DEF Reading
  <2>4. ASSUME NEW p \in Callers, Writing(p) PROVE TypeOK'
    <3>1. CASE OpenFails(p)
      BY <2>2, <3>1 DEF OpenFails, Results
    <3>2. CASE Open(p)
      <4>1. call[p].path \in Paths
        BY DEF TypeOK, Edits, Replacements, Writes, Moves
      <4>2. << >> \in Texts /\ << >> # Absent
        <5>1. << >> \in Texts
          BY DEF Texts
        <5> QED
          BY <5>1
      <4>3. /\ files' \in [Paths -> Texts \cup {Absent}]
            /\ disturbed' \in [Callers -> BOOLEAN]
            /\ \A path \in Paths : files[path] # Absent => files'[path] # Absent
            /\ files'[call[p].path] # Absent
        BY <3>2, <4>1, <4>2 DEF Open, Change, TypeOK
      <4>4. /\ pc[p] = "show" /\ pc' = [pc EXCEPT ![p] = "opened"]
            /\ handle' = [handle EXCEPT ![p] = call[p].path]
            /\ UNCHANGED <<calls, outside, call, text, result, before>>
        BY <3>2 DEF Open, Goto
      <4>5. \A q \in Callers : handle'[q] # Nowhere =>
              pc'[q] = "opened" /\ files'[handle'[q]] # Absent
        BY <4>3, <4>4 DEF TypeOK
      <4> QED
        BY <4>1, <4>3, <4>4, <4>5 DEF TypeOK, Steps
    <3>3. CASE Put(p)
      <4>1. Len(text[p]) \in 0..Len(text[p])
        BY DEF TypeOK, Texts
      <4> QED
        BY <3>3, <4>1, WriteType DEF Put, Results
    <3>4. ASSUME NEW how \in {"broken", "killed"}, Break(p, how) PROVE TypeOK'
      BY <3>4, WriteType DEF Break, Results
    <3> QED
      BY <2>4, <3>1, <3>2, <3>3, <3>4 DEF Writing
  <2>5. ASSUME NEW p \in Callers, Rename(p) PROVE TypeOK'
    <3> DEFINE source == call[p].path
               destination == call[p].destination
    <3>1. pc[p] = "move" /\ call[p] \in Moves /\ handle[p] = Nowhere
      BY <2>5 DEF Rename, TypeOK
    <3>2. source \in Paths /\ destination \in Paths
      BY <3>1 DEF Moves
    <3>3. CASE source = destination
      BY <2>2, <2>5, <3>1, <3>3 DEF Rename, Results
    <3>4. CASE source # destination
      <4>1. /\ files' \in [Paths -> Texts \cup {Absent}]
            /\ disturbed' \in [Callers -> BOOLEAN]
            /\ files'[destination] = files[source]
            /\ files[source] # Absent
            /\ \A path \in Paths \ {source, destination} :
                 files'[path] = files[path]
        <5> DEFINE moved == [path \in Paths |-> IF path = source THEN Absent
                                                ELSE files[source]]
        <5>1. Change(p, {source, destination}, moved) /\ files[source] # Absent
          BY <2>5, <3>4 DEF Rename
        <5>2. /\ files' = [path \in Paths |->
                             IF path \in {source, destination} THEN moved[path]
                             ELSE files[path]]
              /\ disturbed' \in [Callers -> BOOLEAN]
          BY <5>1 DEF Change, TypeOK
        <5>3. /\ \A path \in Paths : moved[path] \in Texts \cup {Absent}
              /\ moved[destination] = files[source]
          BY <3>2, <3>4 DEF TypeOK
        <5> HIDE DEF moved, source, destination
        <5> QED
          BY <3>2, <5>1, <5>2, <5>3 DEF TypeOK
      <4>2. /\ \A q \in Callers : handle'[q] =
                 CASE handle[q] = source -> destination
                   [] handle[q] = destination -> Nowhere
                   [] OTHER -> handle[q]
            /\ handle' \in [Callers -> Paths \cup {Nowhere}]
        BY <2>5, <3>2, <3>4 DEF Rename, TypeOK
      <4>3. handle'[p] = Nowhere
        BY <3>1, <3>2, <4>2
      <4>4. \A q \in Callers \ {p} : handle'[q] # Nowhere =>
              pc[q] = "opened" /\ files'[handle'[q]] # Absent
        BY <3>2, <4>1, <4>2 DEF TypeOK
      <4>5. Return(p, "ok") /\ "ok" \in Results
        BY <2>5 DEF Rename, Results
      <4> QED
        BY <4>1, <4>2, <4>3, <4>4, <4>5, ReturnType
    <3> QED
      BY <3>3, <3>4
  <2>6. ASSUME NEW p \in Callers, RenameFails(p) PROVE TypeOK'
    BY <2>2, <2>6 DEF RenameFails, Results
  <2>7. ASSUME NEW p \in Callers, Die(p) PROVE TypeOK'
    BY <2>2, <2>7 DEF Die, Results
  <2>8. ASSUME NEW path \in Paths, NEW new \in OutsideTexts \cup {Absent},
               Outside(path, new)
        PROVE  TypeOK'
    <3>1. /\ files' \in [Paths -> Texts \cup {Absent}]
          /\ disturbed' \in [Callers -> BOOLEAN]
          /\ \A other \in Paths :
               files'[other] = IF other = path THEN new ELSE files[other]
      BY <2>8 DEF Outside, Change, TypeOK
    <3>2. /\ handle' \in [Callers -> Paths \cup {Nowhere}]
          /\ \A q \in Callers : handle'[q] =
               IF new = Absent /\ handle[q] = path THEN Nowhere ELSE handle[q]
          /\ outside' \in 0..MaxOutside
          /\ UNCHANGED <<calls, pc, call, text, result, before>>
      BY <2>8 DEF Outside, TypeOK
    <3>3. \A q \in Callers : handle'[q] # Nowhere =>
            pc'[q] = "opened" /\ files'[handle'[q]] # Absent
      BY <3>1, <3>2 DEF TypeOK
    <3> QED
      BY <3>1, <3>2, <3>3 DEF TypeOK
  <2>9. CASE UNCHANGED vars
    BY <2>9 DEF TypeOK, vars
  <2> QED
    BY <2>1, <2>3, <2>4, <2>5, <2>6, <2>7, <2>8, <2>9 DEF Next
<1> QED
  BY <1>1, <1>2, PTL DEF Spec

-----------------------------------------------------------------------------
(***************************************************************************)
(* The inductive invariant of CallsKeepTheirWord: as long as nobody has    *)
(* disturbed a call, the file is as it was, or empty once it is open, and  *)
(* what is going to be written is the outcome.                             *)
(***************************************************************************)
Undisturbed(p) == pc[p] # "idle" /\ ~disturbed[p]

Settled(p) ==
  /\ pc[p] \in {"read", "show"} => files[call[p].path] = before[p]
  /\ pc[p] \in {"show", "opened"} =>
       /\ text[p] = Outcome(call[p], before[p])
       /\ call[p] \in Writes \/ before[p] # Absent
  /\ pc[p] = "opened" =>
       handle[p] = call[p].path /\ files[call[p].path] = << >>

IInv == \A p \in Callers : Undisturbed(p) => Settled(p)

(***************************************************************************)
(* A step of somebody else leaves a call where it is, and its file alone,  *)
(* or disturbs it.                                                         *)
(***************************************************************************)
SameCall(q) ==
  /\ pc'[q] = pc[q] /\ call'[q] = call[q]
  /\ text'[q] = text[q] /\ before'[q] = before[q]

LeftAlone(q) ==
  Undisturbed(q)' =>
    /\ Undisturbed(q)
    /\ files'[call[q].path] = files[call[q].path]
    /\ handle[q] = call[q].path => handle'[q] = handle[q]

LEMMA OthersSettled ==
  ASSUME NEW q \in Callers, Undisturbed(q) => Settled(q),
         SameCall(q), LeftAlone(q)
  PROVE  (Undisturbed(q) => Settled(q))'
  BY DEF Undisturbed, Settled, SameCall, LeftAlone

LEMMA PathOfCall ==
  ASSUME TypeOK, NEW p \in Callers
  PROVE  call[p].path \in Paths
  BY DEF TypeOK, Edits, Replacements, Writes, Moves

LEMMA ReturnLeavesOthers ==
  ASSUME TypeOK, NEW p \in Callers, NEW how, Return(p, how)
  PROVE  /\ \A q \in Callers \ {p} : SameCall(q)
         /\ pc'[p] = "idle"
  BY DEF TypeOK, Return, SameCall

LEMMA GotoLeavesOthers ==
  ASSUME TypeOK, NEW p \in Callers, NEW step, Goto(p, step),
         \A q \in Callers \ {p} : text'[q] = text[q]
  PROVE  \A q \in Callers \ {p} : SameCall(q)
  BY DEF TypeOK, Goto, SameCall

\* What Change does to the calls of others.
LEMMA ChangeDisturbs ==
  ASSUME TypeOK, NEW p, NEW paths, NEW new, Change(p, paths, new),
         NEW q \in Callers, q # p, pc'[q] = pc[q],
         handle[q] \notin paths => handle'[q] = handle[q]
  PROVE  LeftAlone(q)
<1>1. call[q].path \in Paths
  BY PathOfCall
<1>2. /\ disturbed'[q] = \/ disturbed[q]
                         \/ pc[q] # "idle" /\ call[q].path \in paths
      /\ files'[call[q].path] = IF call[q].path \in paths
                               THEN new[call[q].path] ELSE files[call[q].path]
  BY <1>1 DEF Change
<1> QED
  BY <1>2 DEF LeftAlone, Undisturbed

\* A step that only ends call p, or moves it on, keeps the invariant.
LEMMA EndKeeps ==
  ASSUME TypeOK, IInv, NEW p \in Callers, NEW how, Return(p, how), SameFiles,
         \A q \in Callers \ {p} : handle'[q] = handle[q]
  PROVE  IInv'
<1>1. \A q \in Callers \ {p} : SameCall(q) /\ LeftAlone(q)
  BY ReturnLeavesOthers DEF SameCall, LeftAlone, SameFiles, Undisturbed
<1>2. \A q \in Callers \ {p} : (Undisturbed(q) => Settled(q))'
  BY <1>1, OthersSettled DEF IInv
<1>3. ~Undisturbed(p)'
  BY ReturnLeavesOthers DEF Undisturbed
<1> QED
  BY <1>2, <1>3 DEF IInv

LEMMA WriteKeeps ==
  ASSUME TypeOK, IInv, NEW p \in Callers, NEW n \in 0..Len(text[p]),
         Write(p, n), Close(p), NEW how, Return(p, how)
  PROVE  IInv'
<1>1. \A q \in Callers \ {p} : handle'[q] = handle[q]
  BY DEF Close, TypeOK
<1>2. CASE handle[p] = Nowhere
  BY <1>1, <1>2, EndKeeps DEF Write
<1>3. CASE handle[p] # Nowhere
  <2>1. PICK paths, new : Change(p, paths, new)
    BY <1>3 DEF Write
  <2>2. \A q \in Callers \ {p} : SameCall(q)
    BY ReturnLeavesOthers
  <2>3. \A q \in Callers \ {p} : LeftAlone(q)
    BY <1>1, <2>1, <2>2, ChangeDisturbs DEF SameCall
  <2>4. \A q \in Callers \ {p} : (Undisturbed(q) => Settled(q))'
    BY <2>2, <2>3, OthersSettled DEF IInv
  <2>5. ~Undisturbed(p)'
    BY ReturnLeavesOthers DEF Undisturbed
  <2> QED
    BY <2>4, <2>5 DEF IInv
<1> QED
  BY <1>2, <1>3

LEMMA ReadingKeeps ==
  ASSUME TypeOK, IInv, NEW p \in Callers, Reading(p)
  PROVE  IInv'
<1>1. CASE ReadFails(p)
  BY <1>1, EndKeeps DEF ReadFails
<1>2. CASE Refuse(p)
  BY <1>2, EndKeeps DEF Refuse
<1>3. CASE Throw(p)
  BY <1>3, EndKeeps DEF Throw
<1>4. CASE Accept(p)
  <2>1. /\ pc[p] = "read" /\ pc'[p] = "show" /\ files[call[p].path] # Absent
        /\ text'[p] = Outcome(call[p], files[call[p].path])
        /\ \A q \in Callers \ {p} : text'[q] = text[q]
        /\ UNCHANGED <<files, disturbed, handle, call, before>>
    BY <1>4 DEF Accept, Goto, SameFiles, TypeOK
  <2>2. \A q \in Callers \ {p} : SameCall(q) /\ LeftAlone(q)
    BY <1>4, <2>1, GotoLeavesOthers
       DEF Accept, SameCall, LeftAlone, Undisturbed
  <2>3. \A q \in Callers \ {p} : (Undisturbed(q) => Settled(q))'
    BY <2>2, OthersSettled DEF IInv
  <2>4. (Undisturbed(p) => Settled(p))'
    BY <2>1 DEF IInv, Undisturbed, Settled
  <2> QED
    BY <2>3, <2>4 DEF IInv
<1> QED
  BY <1>1, <1>2, <1>3, <1>4 DEF Reading

LEMMA WritingKeeps ==
  ASSUME TypeOK, IInv, NEW p \in Callers, Writing(p)
  PROVE  IInv'
<1>1. CASE OpenFails(p)
  BY <1>1, EndKeeps DEF OpenFails
<1>2. CASE Open(p)
  <2>1. /\ pc[p] = "show" /\ pc'[p] = "opened"
        /\ handle' = [handle EXCEPT ![p] = call[p].path]
        /\ UNCHANGED <<text, call, before>>
        /\ Change(p, {call[p].path}, [path \in Paths |-> << >>])
    BY <1>2 DEF Open, Goto, TypeOK
  <2>2. \A q \in Callers \ {p} : SameCall(q) /\ handle'[q] = handle[q]
    BY <1>2, <2>1, GotoLeavesOthers DEF Open, TypeOK
  <2>3. PICK paths, new : Change(p, paths, new)
    BY <2>1
  <2>4. \A q \in Callers \ {p} : (Undisturbed(q) => Settled(q))'
    BY <2>2, <2>3, ChangeDisturbs, OthersSettled DEF IInv, SameCall
  <2>5. /\ disturbed'[p] = disturbed[p]
        /\ files'[call[p].path] = << >>
    BY <2>1, PathOfCall DEF Change, TypeOK
  <2>6. handle'[p] = call[p].path
    BY <2>1 DEF TypeOK
  <2>7. (Undisturbed(p) => Settled(p))'
    BY <2>1, <2>5, <2>6 DEF IInv, Undisturbed, Settled
  <2> QED
    BY <2>4, <2>7 DEF IInv
<1>3. CASE Put(p)
  <2>1. Len(text[p]) \in 0..Len(text[p])
    BY DEF TypeOK, Texts
  <2> QED
    BY <1>3, <2>1, WriteKeeps DEF Put
<1>4. ASSUME NEW how \in {"broken", "killed"}, Break(p, how) PROVE IInv'
  BY <1>4, WriteKeeps DEF Break
<1> QED
  BY <1>1, <1>2, <1>3, <1>4 DEF Writing

LEMMA BeginKeeps ==
  ASSUME TypeOK, IInv, NEW p \in Callers, NEW c \in Calls, Begin(p, c)
  PROVE  IInv'
<1>1. /\ pc'[p] = CASE c \in Moves -> "move"
                     [] c \in Writes -> "show"
                     [] OTHER -> "read"
      /\ call'[p] = c /\ before'[p] = files[c.path]
      /\ c \in Writes => text'[p] = c.content
      /\ UNCHANGED <<files, handle>>
  BY DEF Begin, TypeOK
<1>2. \A q \in Callers \ {p} : SameCall(q) /\ LeftAlone(q)
  BY <1>1 DEF Begin, SameCall, LeftAlone, Undisturbed, TypeOK
<1>3. \A q \in Callers \ {p} : (Undisturbed(q) => Settled(q))'
  BY <1>2, OthersSettled DEF IInv
<1>4. c \in Writes => c.content = Outcome(c, files[c.path])
  BY DEF Outcome, Writes
<1>5. pc'[p] = "show" => c \in Writes
  BY <1>1
<1>6. pc'[p] # "opened"
  BY <1>1
<1>7. Settled(p)'
  BY <1>1, <1>4, <1>5, <1>6 DEF Settled
<1> QED
  BY <1>3, <1>7 DEF IInv

LEMMA RenameKeeps ==
  ASSUME TypeOK, IInv, NEW p \in Callers, Rename(p)
  PROVE  IInv'
<1> DEFINE source == call[p].path
           destination == call[p].destination
<1>1. Return(p, "ok")
  BY DEF Rename
<1>2. CASE source = destination
  BY <1>1, <1>2, EndKeeps DEF Rename
<1>3. CASE source # destination
  <2>1. PICK new : Change(p, {source, destination}, new)
    BY <1>3 DEF Rename
  <2>2. \A q \in Callers : handle[q] \notin {source, destination} =>
          handle'[q] = handle[q]
    BY <1>3 DEF Rename
  <2>3. PICK paths : /\ Change(p, paths, new)
                     /\ \A q \in Callers :
                          handle[q] \notin paths => handle'[q] = handle[q]
    BY <2>1, <2>2
  <2>4. \A q \in Callers \ {p} : SameCall(q)
    BY <1>1, ReturnLeavesOthers
  <2>5. \A q \in Callers \ {p} : (Undisturbed(q) => Settled(q))'
    BY <2>3, <2>4, ChangeDisturbs, OthersSettled DEF IInv, SameCall
  <2>6. ~Undisturbed(p)'
    BY <1>1, ReturnLeavesOthers DEF Undisturbed
  <2> QED
    BY <2>5, <2>6 DEF IInv
<1> QED
  BY <1>2, <1>3

LEMMA OutsideKeeps ==
  ASSUME TypeOK, IInv, NEW path \in Paths, NEW new, Outside(path, new)
  PROVE  IInv'
<1>1. PICK paths, what : /\ Change(Nowhere, paths, what)
                         /\ \A q \in Callers :
                              handle[q] \notin paths => handle'[q] = handle[q]
  <2>1. \A q \in Callers : handle[q] \notin {path} => handle'[q] = handle[q]
    BY DEF Outside
  <2> QED
    BY <2>1 DEF Outside
<1>2. \A q \in Callers : SameCall(q) /\ q # Nowhere
  BY DEF Outside, SameCall
<1> QED
  BY <1>1, <1>2, ChangeDisturbs, OthersSettled DEF IInv, SameCall

LEMMA IInvKept ==
  ASSUME TypeOK, IInv, [Next]_vars
  PROVE  IInv'
<1>1. ASSUME NEW p \in Callers, RenameFails(p) PROVE IInv'
  BY <1>1, EndKeeps DEF RenameFails
<1>2. ASSUME NEW p \in Callers, Die(p) PROVE IInv'
  BY <1>2, EndKeeps DEF Die
<1>3. CASE UNCHANGED vars
  BY <1>3 DEF vars, IInv, Undisturbed, Settled
<1> QED
  BY <1>1, <1>2, <1>3, BeginKeeps, ReadingKeeps, WritingKeeps, RenameKeeps,
     OutsideKeeps DEF Next

-----------------------------------------------------------------------------
(***************************************************************************)
(* What a returning call has done follows from the invariant.              *)
(***************************************************************************)
LEMMA WriteKeepsWord ==
  ASSUME TypeOK, NEW p \in Callers, pc[p] = "opened", Settled(p),
         NEW n \in 0..Len(text[p]), Write(p, n)
  PROVE  /\ IsPrefix(files'[call[p].path], Outcome(call[p], before[p]))
         /\ n = Len(text[p]) =>
              files'[call[p].path] = Outcome(call[p], before[p])
<1> DEFINE new(old) == SubSeq(text[p], 1, n) \o SubSeq(old, n + 1, Len(old))
<1>1. /\ handle[p] = call[p].path /\ files[call[p].path] = << >>
      /\ text[p] = Outcome(call[p], before[p])
      /\ text[p] \in Texts
  BY DEF Settled, TypeOK
<1>2. call[p].path \in Paths /\ handle[p] # Nowhere
  BY <1>1, PathOfCall
<1>3. Change(p, {handle[p]}, [path \in {handle[p]} |-> new(files[path])])
  BY <1>2 DEF Write
<1>4. files'[call[p].path] = new(<< >>)
  <2> HIDE DEF new
  <2> QED
    BY <1>1, <1>2, <1>3 DEF Change
<1>5. /\ IsPrefix(new(<< >>), text[p])
      /\ n = Len(text[p]) => new(<< >>) = text[p]
  BY <1>1, WrittenAfresh
<1> QED
  BY <1>1, <1>4, <1>5

(***************************************************************************)
(* A call at whose file nobody else was at work, from its reading to its   *)
(* return, has made of the file what it answers (edit_file.cc 62-121,      *)
(* replace_lines.cc 78-157, write_file.cc 43-46).                          *)
(***************************************************************************)
LEMMA StepKeepsWord ==
  ASSUME TypeOK, IInv, [Next]_vars, NEW p \in Callers,
         pc[p] \in {"read", "show", "opened"}, pc'[p] = "idle", ~disturbed[p]
  PROVE  KeepsWord(p)
<1>1. Settled(p) /\ call[p].path \in Paths
  BY PathOfCall DEF IInv, Undisturbed
<1>2. ASSUME NEW how, Return(p, how), SameFiles,
             pc[p] \in {"read", "show"}, how \in Results \ {"ok"}
      PROVE  KeepsWord(p)
  BY <1>1, <1>2 DEF Return, SameFiles, KeepsWord, Settled, TypeOK
<1>3. CASE Put(p)
  <2>1. Len(text[p]) \in 0..Len(text[p])
    BY DEF TypeOK, Texts
  <2>2. files'[call[p].path] = Outcome(call[p], before[p])
    BY <1>1, <1>3, <2>1, WriteKeepsWord DEF Put
  <2>3. result'[p] = "ok"
    BY <1>3 DEF Put, Return, TypeOK
  <2> QED
    BY <2>2, <2>3 DEF KeepsWord
<1>4. ASSUME NEW how \in {"broken", "killed"}, Break(p, how)
      PROVE  KeepsWord(p)
  <2>1. IsPrefix(files'[call[p].path], Outcome(call[p], before[p]))
    BY <1>1, <1>4, WriteKeepsWord DEF Break
  <2>2. result'[p] = how
    BY <1>4 DEF Break, Return, TypeOK
  <2> QED
    BY <2>1, <2>2 DEF KeepsWord
<1>5. CASE Reading(p)
  BY <1>2, <1>5 DEF Reading, ReadFails, Refuse, Accept, Goto, Throw, Results,
                    TypeOK
<1>6. CASE Writing(p)
  <2>1. ~Open(p)
    BY DEF Open, Goto, TypeOK
  <2> QED
    BY <1>2, <1>3, <1>4, <1>6, <2>1 DEF Writing, OpenFails, Results
<1>7. CASE Die(p)
  BY <1>2, <1>7 DEF Die, Results
<1>8. ~Rename(p) /\ ~RenameFails(p) /\ \A c \in Calls : ~Begin(p, c)
  BY DEF Rename, RenameFails, Begin
<1>9. ASSUME NEW q \in Callers \ {p},
             \/ \E c \in Calls : Begin(q, c)
             \/ Reading(q) \/ Writing(q) \/ Rename(q) \/ RenameFails(q) \/ Die(q)
      PROVE  FALSE
  <2>1. pc' = [pc EXCEPT ![q] = pc'[q]]
    BY <1>9 DEF Begin, Reading, Writing, Rename, RenameFails, Die, ReadFails,
       Refuse, Accept, Throw, OpenFails, Open, Put, Break, Return, Goto, TypeOK
  <2> QED
    BY <1>9, <2>1 DEF TypeOK
<1>10. ~UNCHANGED vars
  BY DEF vars
<1>11. \A path \in Paths, new \in OutsideTexts \cup {Absent} : ~Outside(path, new)
  BY DEF Outside
<1> QED
  BY <1>5, <1>6, <1>7, <1>8, <1>9, <1>10, <1>11 DEF Next

LEMMA Invariance == Spec => [](TypeOK /\ IInv)
<1>1. Init => IInv
  BY DEF Init, IInv, Undisturbed
<1>2. TypeOK /\ IInv /\ [Next]_vars => IInv'
  BY IInvKept
<1> QED
  BY <1>1, <1>2, TypeCorrect, PTL DEF Spec

(***************************************************************************)
(* A call that answers while nobody else has touched its file has made of  *)
(* that file exactly what it answers, or a beginning of it where it broke  *)
(* off (edit_file.cc, replace_lines.cc, write_file.cc, move_file.cc).      *)
(***************************************************************************)
THEOREM WordKept == Spec => CallsKeepTheirWord
<1>1. TypeOK /\ IInv /\ [Next]_vars =>
        [\A p \in Callers :
           /\ pc[p] \in {"read", "show", "opened"} /\ pc'[p] = "idle"
           /\ ~disturbed[p]
           => KeepsWord(p)]_vars
  BY StepKeepsWord
<1> QED
  BY <1>1, Invariance, PTL DEF Spec, CallsKeepTheirWord

\* A call that is about to write has read a text.
LEMMA AtWorkHasRead ==
  ASSUME TypeOK, IInv, NEW p \in Callers, NEW tools, AtWork(p, tools), call[p] \notin Writes
  PROVE  /\ before[p] \in Texts
         /\ text[p] = Outcome(call[p], before[p]) /\ text[p] \in Texts
BY DEF TypeOK, IInv, Undisturbed, Settled, AtWork

LEMMA EditsFollow ==
  ASSUME TypeOK, IInv
  PROVE  EditsAreApplied
<1> SUFFICES ASSUME NEW p \in Callers, AtWork(p, Edits), NEW k \in DOMAIN call[p].items
             PROVE  LET after(i) == Edited(before[p], SubSeq(call[p].items, 1, i))
                    IN  IsEdit(after(k - 1), call[p].items[k], after(k))
  BY DEF EditsAreApplied
<1> DEFINE items == call[p].items
           n == Len(items)
<1>1. call[p] \in Edits /\ call[p].tool = "edit" /\ call[p] \notin Writes
  BY DEF AtWork, Edits, Writes
<1>2. items \in Seq(Items) /\ n \in Nat /\ k \in 1..n /\ SubSeq(items, 1, n) = items
  BY <1>1 DEF Edits
<1>3. /\ before[p] \in Texts
      /\ Edited(before[p], items) # Refused
  BY <1>1, AtWorkHasRead, RefusedAssumption DEF Outcome
<1>4. PICK g \in [0..n -> Texts \cup {Refused}] :
        OnTheWay(g, before[p], items) /\ Edited(before[p], items) = g[n]
  BY <1>2, <1>3, EditedFolds, Zenon
<1>5. ASSUME NEW i \in 0..n PROVE Edited(before[p], SubSeq(items, 1, i)) = g[i]
  BY <1>2, <1>3, <1>4, EditedOnTheWay
<1>6. \A i \in 0..n : g[i] # Refused
  BY <1>2, <1>3, <1>4, RefusedForGood, ZenonT(30)
<1>7. k \in 0..n /\ k - 1 \in 0..n /\ items[k] \in Items
  BY <1>2
<1>8. g[k - 1] \in Texts /\ g[k] = ApplyItem(g[k - 1], items[k]) /\ g[k] # Refused
  BY <1>2, <1>4, <1>6, <1>7 DEF OnTheWay
<1>9. IsEdit(g[k - 1], items[k], g[k])
  <2>1. ApplyItem(g[k - 1], items[k]) # Refused
    BY <1>8, Zenon
  <2>2. IsEdit(g[k - 1], items[k], ApplyItem(g[k - 1], items[k]))
    BY <1>7, <1>8, <2>1, ItemIsEdit
  <2> QED BY <1>8, <2>2, Zenon
<1> QED BY <1>5, <1>7, <1>9, Zenon

(***************************************************************************)
(* edit_file that is about to write has made one change per item, each at  *)
(* the first place of its search text (edit_file.cc 68-99).                *)
(***************************************************************************)
THEOREM EditsApplied == Spec => []EditsAreApplied
BY EditsFollow, Invariance, PTL

LEMMA LinesFollow ==
  ASSUME TypeOK, IInv
  PROVE  LinesAreReplaced
<1> SUFFICES ASSUME NEW p \in Callers, AtWork(p, Replacements)
             PROVE  LET old == Lines(before[p])
                        start == ToInt(call[p].start)
                        end == ToInt(call[p].end)
                    IN  Lines(text[p]) =
                          SubSeq(old, 1, start - 1) \o Lines(Ended(call[p].content))
                            \o SubSeq(old, end + 1, Len(old))
  BY DEF LinesAreReplaced
<1> DEFINE start == ToInt(call[p].start)
           end == ToInt(call[p].end)
           content == call[p].content
<1>1. /\ call[p] \in Replacements /\ call[p].tool = "replace" /\ call[p] \notin Writes
      /\ content \in Texts
  BY DEF AtWork, Replacements, Writes
<1>2. /\ before[p] \in Texts /\ text[p] \in Texts
      /\ text[p] = Outcome(call[p], before[p])
  BY <1>1, AtWorkHasRead
<1>3. text[p] = LinesReplaced(before[p], start, end, content)
  BY <1>1, <1>2 DEF Outcome
<1> HIDE DEF start, end, content
<1>4. InRange(before[p], start, end)
  BY <1>2, <1>3, RefusedAssumption, Zenon DEF LinesReplaced
<1> DEFINE t == before[p]
<1> HIDE DEF t
<1>5. t \in Texts /\ content \in Texts /\ InRange(t, start, end)
  BY <1>1, <1>2, <1>4, Zenon DEF t, content
<1>6. Lines(LinesReplaced(t, start, end, content)) =
        SubSeq(Lines(t), 1, start - 1) \o Lines(Ended(content))
          \o SubSeq(Lines(t), end + 1, Len(Lines(t)))
  BY <1>5, ReplacedLines, ZenonT(30)
<1> QED BY <1>3, <1>6, Zenon DEF start, end, content, t

(***************************************************************************)
(* replace_lines that is about to write has the lines from start to end    *)
(* replaced and no other one, whatever the texts, and with numbers that    *)
(* lose their high bits (replace_lines.cc 78-134).                         *)
(***************************************************************************)
THEOREM LinesReplacedOnly == Spec => []LinesAreReplaced
BY LinesFollow, Invariance, PTL

(***************************************************************************)
(* What chunks of one line or of two hold together is the file: it is so   *)
(* of every text and every number of lines (ChunksMakeText), and a file    *)
(* that is there holds a text (read_file.cc 52-92).                        *)
(***************************************************************************)
THEOREM ChunksMakeFile == Spec => []ChunksAddUp
<1>1. TypeOK => ChunksAddUp
  <2> SUFFICES ASSUME TypeOK, NEW path \in Paths, files[path] # Absent, NEW limit \in 1..2
               PROVE  InChunks(files[path], limit) = files[path]
    BY DEF ChunksAddUp
  <2>1. files[path] \in Texts /\ limit \in Nat \ {0}
    BY DEF TypeOK
  <2> QED BY <2>1, ChunksMakeText
<1> QED BY <1>1, TypeCorrect, PTL
=============================================================================
