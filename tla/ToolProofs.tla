----------------------------- MODULE ToolProofs -----------------------------
(***************************************************************************)
(* Theorems about the tools that search and the tools that run a command.  *)
(*                                                                         *)
(* FindFiles: a search finds the names that match and no others, for all   *)
(* patterns and all directories, whatever the matcher skips and wherever   *)
(* it comes back to.                                                       *)
(*                                                                         *)
(* CommandTools: what is started was allowed, what was killed is reported, *)
(* and the output is what the filters promise, for all commands, texts,    *)
(* filters, timeouts and users.                                            *)
(***************************************************************************)
EXTENDS FindFiles, CommandTools, DataLemmas

-----------------------------------------------------------------------------
(* Ways to cut a beginning of the name for a beginning of the items.        *)

Texts == Seq(Characters \cup {"*"})

\* The first i items can use up the first j characters.
Reach(its, s, i, j) ==
  \E cut \in [0..i -> 0..Len(s)] :
    /\ cut[0] = 0 /\ cut[i] = j
    /\ \A k \in 1..i : Piece(its, s, k, cut[k - 1], cut[k], Crossing(its))

\* The star at i may use up the character at j.
MayEat(its, s, i, j) == i \in Crossing(its) \/ s[j] \notin Separators

LEMMA ItemsTyped ==
  ASSUME NEW pat \in Texts
  PROVE  /\ Len(Items(pat)) \in Nat /\ DOMAIN Items(pat) = 1..Len(Items(pat))
         /\ \A i \in DOMAIN Items(pat) : Items(pat)[i].type \in {"any", "star", "char"}
<1> DEFINE kept == {i \in DOMAIN pat : ~(pat[i] = "*" /\ i > 1 /\ pat[i - 1] = "*")}
           N == Cardinality(kept)
           at(k) == pat[CHOOSE i \in kept : Cardinality({j \in kept : j <= i}) = k]
<1>1. Len(pat) \in Nat /\ DOMAIN pat = 1..Len(pat)
  BY DEF Texts
<1>2. N \in Nat
  <2>1. kept \in SUBSET (1..Len(pat))
    BY <1>1, Zenon
  <2> HIDE DEF kept
  <2>2. IsFiniteSet(kept)
    BY <1>1, <2>1, FS_Interval, FS_Subset, 1 \in Int, Len(pat) \in Int
  <2> QED BY <2>2, FS_CardinalityType
<1>3. Items(pat) = [k \in 1..N |-> Item(at(k))]
  BY Zenon DEF Items
<1> HIDE DEF kept, N, at
<1>4. \A c : Item(c).type \in {"any", "star", "char"}
  <2> SUFFICES ASSUME NEW c PROVE Item(c).type \in {"any", "star", "char"}
    OBVIOUS
  <2>1. CASE c = "?"
    <3>1. Item(c) = AnyChar
      BY <2>1, Zenon DEF Item
    <3> QED BY <3>1 DEF AnyChar
  <2>2. CASE c = "*"
    <3>1. Item(c) = Star
      BY <2>2, "*" # "?", Zenon DEF Item
    <3> QED BY <3>1 DEF Star
  <2>3. CASE c # "?" /\ c # "*"
    <3>1. Item(c) = [type |-> "char", value |-> c]
      BY <2>3, Zenon DEF Item
    <3> QED BY <3>1
  <2> QED BY <2>1, <2>2, <2>3
<1>5. DOMAIN Items(pat) = 1..N /\ \A i \in 1..N : Items(pat)[i].type \in {"any", "star", "char"}
  BY <1>3, <1>4, Zenon
<1>6. Len(Items(pat)) = N
  BY <1>2, <1>3
<1> QED BY <1>2, <1>5, <1>6

\* Before anything is read.
LEMMA ReachStart ==
  ASSUME NEW its, NEW s, Len(s) \in Nat
  PROVE  Reach(its, s, 0, 0)
<1> DEFINE cut == [k \in 0..0 |-> 0]
<1>1. cut \in [0..0 -> 0..Len(s)] /\ cut[0] = 0
  OBVIOUS
<1>2. 1..0 = {}
  OBVIOUS
<1> HIDE DEF cut
<1> QED BY <1>1, <1>2, Zenon DEF Reach

\* One more item.
LEMMA ReachMore ==
  ASSUME NEW its, NEW s, Len(s) \in Nat, NEW i \in Nat, NEW a \in 0..Len(s), NEW b \in 0..Len(s),
         Reach(its, s, i, a), Piece(its, s, i + 1, a, b, Crossing(its))
  PROVE  Reach(its, s, i + 1, b)
<1>1. PICK cut \in [0..i -> 0..Len(s)] :
        /\ cut[0] = 0 /\ cut[i] = a
        /\ \A k \in 1..i : Piece(its, s, k, cut[k - 1], cut[k], Crossing(its))
  BY Zenon DEF Reach
<1> DEFINE more == [k \in 0..(i + 1) |-> IF k = i + 1 THEN b ELSE cut[k]]
<1>2. more \in [0..(i + 1) -> 0..Len(s)]
  BY <1>1
<1>3. more[0] = 0 /\ more[i + 1] = b /\ more[i] = a
  BY <1>1
<1>4. \A k \in 1..i : more[k - 1] = cut[k - 1] /\ more[k] = cut[k]
  OBVIOUS
<1> HIDE DEF more
<1>5. ASSUME NEW k \in 1..(i + 1)
      PROVE  Piece(its, s, k, more[k - 1], more[k], Crossing(its))
  <2>1. CASE k = i + 1
    <3>1. k - 1 = i
      BY <2>1
    <3> QED BY <1>3, <2>1, <3>1, Zenon
  <2>2. CASE k # i + 1
    <3>1. k \in 1..i
      BY <2>2
    <3> QED BY <1>1, <1>4, <3>1, Zenon
  <2> QED BY <2>1, <2>2
<1> QED BY <1>2, <1>3, <1>5, Zenon DEF Reach

\* A star at the end of a cut uses up more.
LEMMA ReachFurther ==
  ASSUME NEW its, NEW s, Len(s) \in Nat, NEW i \in Nat \ {0},
         NEW a \in 0..Len(s), NEW b \in 0..Len(s), a <= b,
         its[i].type = "star", Reach(its, s, i, a),
         \A j \in a + 1..b : MayEat(its, s, i, j)
  PROVE  Reach(its, s, i, b)
<1>1. PICK cut \in [0..i -> 0..Len(s)] :
        /\ cut[0] = 0 /\ cut[i] = a
        /\ \A k \in 1..i : Piece(its, s, k, cut[k - 1], cut[k], Crossing(its))
  BY Zenon DEF Reach
<1> DEFINE more == [k \in 0..i |-> IF k = i THEN b ELSE cut[k]]
           c == cut[i - 1]
<1>2. more \in [0..i -> 0..Len(s)]
  BY <1>1
<1>3. more[0] = 0 /\ more[i] = b /\ more[i - 1] = c /\ c \in 0..Len(s)
  BY <1>1
<1>4. \A k \in 1..i : k # i => more[k - 1] = cut[k - 1] /\ more[k] = cut[k]
  OBVIOUS
<1>5. Piece(its, s, i, c, a, Crossing(its))
  <2>1. i \in 1..i
    OBVIOUS
  <2> QED BY <1>1, <2>1, Zenon
<1> HIDE DEF more, c
<1>6. c <= a /\ (i \in Crossing(its) \/ \A j \in c + 1..a : s[j] \notin Separators)
  BY <1>5, Zenon DEF Piece
<1>7. i \in Crossing(its) \/ \A j \in c + 1..b : s[j] \notin Separators
  <2>1. SUFFICES ASSUME i \notin Crossing(its), NEW j \in c + 1..b
                 PROVE  s[j] \notin Separators
    OBVIOUS
  <2>2. j \in c + 1..a \/ j \in a + 1..b
    BY <1>3
  <2> QED BY <1>6, <2>1, <2>2, Zenon DEF MayEat
<1>8. c <= b
  BY <1>3, <1>6
<1>9. Piece(its, s, i, c, b, Crossing(its))
  BY <1>7, <1>8, Zenon DEF Piece
<1>10. ASSUME NEW k \in 1..i
       PROVE  Piece(its, s, k, more[k - 1], more[k], Crossing(its))
  <2>1. CASE k = i
    BY <1>3, <1>9, <2>1, Zenon
  <2>2. CASE k # i
    BY <1>1, <1>4, <2>2, Zenon
  <2> QED BY <2>1, <2>2
<1> QED BY <1>2, <1>3, <1>10, Zenon DEF Reach

-----------------------------------------------------------------------------
(* The inductive invariant.                                                 *)

\* What is cut when the matcher is at item i and has used a characters: the
\* star it is at may have used up some of them.
Here(its, s, i, a) ==
  IF i \in DOMAIN its /\ its[i].type = "star" THEN Reach(its, s, i, a)
                                              ELSE Reach(its, s, i - 1, a)

\* A place to come back to: a star that may use up one more character.
Place(its, s, place) ==
  /\ place \in Nat \X Nat
  /\ place[1] \in DOMAIN its /\ its[place[1]].type = "star"
  /\ place[2] \in 1..Len(s)
  /\ Reach(its, s, place[1], place[2] - 1)
  /\ MayEat(its, s, place[1], place[2])

Typed ==
  /\ pass \in {1, 2} /\ status \in {"next", "matching", "done"}
  /\ pattern \in Texts
  /\ todo \in Seq(Seq(Characters))
  /\ {todo[i] : i \in DOMAIN todo} \subseteq names
  /\ found \subseteq names
  /\ Len(items) \in Nat /\ DOMAIN items = 1..Len(items)
  /\ p \in 1..Len(items) + 1

Matching ==
  status = "matching" =>
    /\ todo # <<>> /\ items = Items(pattern)
    /\ n \in 1..Len(name) + 1
    /\ Here(items, name, p, n - 1)
    /\ backtrack \in Seq(Nat \X Nat)
    /\ \A k \in DOMAIN backtrack : Place(items, name, backtrack[k])

IInv == Typed /\ Matching /\ FoundMatches

\* A matcher that comes to an item has not used any character for it yet.
LEMMA Arrive ==
  ASSUME NEW its, NEW s, Len(s) \in Nat, NEW i \in Nat \ {0}, NEW a \in 0..Len(s),
         Reach(its, s, i - 1, a)
  PROVE  Here(its, s, i, a)
<1>1. CASE i \in DOMAIN its /\ its[i].type = "star"
  <2>1. i - 1 \in Nat /\ (i - 1) + 1 = i
    OBVIOUS
  <2>2. a + 1..a = {} /\ a <= a
    OBVIOUS
  <2>3. Piece(its, s, i, a, a, Crossing(its))
    BY <1>1, <2>2, Zenon DEF Piece
  <2>4. Reach(its, s, (i - 1) + 1, a)
    <3> DEFINE h == i - 1
    <3>1. h \in Nat /\ h + 1 = i
      BY <2>1
    <3> HIDE DEF h
    <3>2. Reach(its, s, h, a)
      BY Zenon DEF h
    <3>3. Reach(its, s, h + 1, a)
      BY <2>3, <3>1, <3>2, ReachMore
    <3> QED BY <3>3, Zenon DEF h
  <2> QED BY <1>1, <2>1, <2>4, Zenon DEF Here
<1>2. CASE ~(i \in DOMAIN its /\ its[i].type = "star")
  BY <1>2, Zenon DEF Here
<1> QED BY <1>1, <1>2

LEMMA NameTyped ==
  ASSUME Typed, todo # <<>>
  PROVE  /\ name \in Seq(Characters) /\ Len(name) \in Nat /\ DOMAIN name = 1..Len(name)
         /\ name \in names
         /\ Tail(todo) \in Seq(Seq(Characters))
         /\ {Tail(todo)[i] : i \in DOMAIN Tail(todo)} \subseteq names
<1>1. todo \in Seq(Seq(Characters)) /\ todo # <<>>
  BY DEF Typed
<1>2. /\ name = todo[1] /\ 1 \in DOMAIN todo
      /\ name \in Seq(Characters)
  BY <1>1 DEF name
<1>3. name \in names
  BY <1>2, Zenon DEF Typed
<1>4. /\ Tail(todo) \in Seq(Seq(Characters))
      /\ \A i \in DOMAIN Tail(todo) : i + 1 \in DOMAIN todo /\ Tail(todo)[i] = todo[i + 1]
  BY <1>1
<1>5. {Tail(todo)[i] : i \in DOMAIN Tail(todo)} \subseteq names
  BY <1>4, Zenon DEF Typed
<1> QED BY <1>2, <1>3, <1>4, <1>5

LEMMA InitIInv == Init => IInv
<1> SUFFICES ASSUME Init PROVE IInv
  OBVIOUS
<1>1. Typed
  <2>1. pattern \in Seq(Characters) /\ todo \in Seq(Seq(Characters))
    BY TextsAssumption DEF Init
  <2>2. pattern \in Texts
    BY <2>1 DEF Texts
  <2> QED BY <2>1, <2>2 DEF Init, Typed
<1> QED BY <1>1 DEF Init, IInv, Matching, FoundMatches

-----------------------------------------------------------------------------
(* The search.                                                              *)

LEMMA MatchNextIInv == ASSUME IInv, MatchNext PROVE IInv'
<1>1. /\ todo # <<>> /\ status' = "matching" /\ items' = Items(pattern)
      /\ p' = 1 /\ n' = 1 /\ backtrack' = <<>>
      /\ UNCHANGED <<pattern, todo, found, failed, pass, names>>
  BY DEF MatchNext, search
<1>2. Len(name) \in Nat /\ name' = name
  BY <1>1, NameTyped DEF IInv, name
<1>3. Len(Items(pattern)) \in Nat /\ DOMAIN Items(pattern) = 1..Len(Items(pattern))
  BY ItemsTyped DEF IInv, Typed
<1>4. Typed'
  BY <1>1, <1>3 DEF IInv, Typed
<1>5. Here(items', name, 1, 0)
  <2>1. Reach(items', name, 0, 0)
    BY <1>2, ReachStart
  <2>2. 1 - 1 = 0 /\ 0 \in 0..Len(name) /\ 1 \in Nat \ {0}
    BY <1>2
  <2> QED BY <1>2, <2>1, <2>2, Arrive, Zenon
<1>6. Matching'
  <2>1. n' - 1 = 0 /\ n' \in 1..Len(name) + 1
    BY <1>1, <1>2
  <2>2. backtrack' \in Seq(Nat \X Nat) /\ DOMAIN backtrack' = {}
    BY <1>1
  <2> QED BY <1>1, <1>2, <1>5, <2>1, <2>2, Zenon DEF Matching
<1>7. FoundMatches'
  BY <1>1, Zenon DEF IInv, FoundMatches
<1> QED BY <1>4, <1>6, <1>7, Zenon DEF IInv

LEMMA SearchIInv ==
  ASSUME IInv, IterationFails \/ SearchWider \/ Finish
  PROVE  IInv'
<1>1. CASE IterationFails
  <2>1. todo' = <<>> /\ status = "next"
        /\ UNCHANGED <<pattern, found, pass, names, status, items, p, n, backtrack>>
    BY <1>1 DEF IterationFails
  <2>2. Typed'
    BY <2>1 DEF IInv, Typed
  <2>3. Matching'
    BY <2>1 DEF Matching
  <2>4. FoundMatches'
    BY <2>1, Zenon DEF IInv, FoundMatches
  <2> QED BY <2>2, <2>3, <2>4 DEF IInv
<1>2. CASE SearchWider
  <2>1. /\ pattern' = <<"*">> \o pattern \o <<"*">> /\ pass' = 2 /\ status = "next"
        /\ UNCHANGED <<found, failed, names, status, items, p, n, backtrack>>
        /\ found = {}
    BY <1>2 DEF SearchWider, Retries
  <2>2. PICK again \in Directories : names = {again[i] : i \in DOMAIN again} /\ todo' = again
    BY <1>2, Zenon DEF SearchWider
  <2>3. pattern' \in Texts
    <3>1. <<"*">> \in Texts /\ pattern \in Texts
      BY DEF IInv, Typed, Texts
    <3> QED BY <2>1, <3>1 DEF Texts
  <2>4. todo' \in Seq(Seq(Characters))
    BY <2>2, TextsAssumption
  <2>5. {todo'[i] : i \in DOMAIN todo'} \subseteq names'
    BY <2>1, <2>2, Zenon
  <2>6. Typed'
    BY <2>1, <2>3, <2>4, <2>5 DEF IInv, Typed
  <2>7. Matching' /\ FoundMatches'
    BY <2>1 DEF Matching, FoundMatches
  <2> QED BY <2>6, <2>7 DEF IInv
<1>3. CASE Finish
  <2>1. status' = "done" /\ UNCHANGED <<pattern, todo, found, failed, pass, names, items, p, n,
                                        backtrack>>
    BY <1>3 DEF Finish, search
  <2>2. Typed'
    BY <2>1 DEF IInv, Typed
  <2>3. Matching'
    BY <2>1 DEF Matching
  <2>4. FoundMatches'
    BY <2>1, Zenon DEF IInv, FoundMatches
  <2> QED BY <2>2, <2>3, <2>4 DEF IInv
<1> QED BY <1>1, <1>2, <1>3

-----------------------------------------------------------------------------
(* The matcher.                                                             *)

Places(its, s, stack) ==
  stack \in Seq(Nat \X Nat) /\ \A k \in DOMAIN stack : Place(its, s, stack[k])

LEMMA PushedPlaces ==
  ASSUME NEW its, NEW s, NEW stack, NEW i, NEW j,
         Places(its, s, stack), Place(its, s, <<i, j>>)
  PROVE  Places(its, s, Pushed(stack, i, j))
<1>1. stack \in Seq(Nat \X Nat) /\ <<i, j>> \in Nat \X Nat
  BY Zenon DEF Places, Place
<1>2. /\ Pushed(stack, i, j) \in Seq(Nat \X Nat)
      /\ \A k \in DOMAIN Pushed(stack, i, j) :
            \/ Pushed(stack, i, j)[k] = <<i, j>>
            \/ k \in DOMAIN stack /\ Pushed(stack, i, j)[k] = stack[k]
  BY <1>1 DEF Pushed
<1> QED BY <1>2, Zenon DEF Places

\* A step of the matcher within a name.
LEMMA MatcherStep ==
  ASSUME IInv, status = "matching", UNCHANGED <<search, status, items>>,
         p' \in 1..Len(items) + 1, n' \in 1..Len(name) + 1,
         Here(items, name, p', n' - 1), Places(items, name, backtrack')
  PROVE  IInv'
<1>1. /\ UNCHANGED <<pattern, todo, found, failed, pass, names, status, items>>
      /\ name' = name
  BY DEF search, name
<1>2. Typed'
  BY <1>1 DEF IInv, Typed
<1>3. Matching'
  BY <1>1, Zenon DEF IInv, Matching, Places
<1>4. FoundMatches'
  BY <1>1, Zenon DEF IInv, FoundMatches
<1> QED BY <1>2, <1>3, <1>4, Zenon DEF IInv

\* What is known while an item is read.
LEMMA WhileReading ==
  ASSUME IInv, Reading
  PROVE  /\ status = "matching" /\ p \in Nat \ {0} /\ p \in DOMAIN items
         /\ Len(items) \in Nat /\ DOMAIN items = 1..Len(items)
         /\ Len(name) \in Nat /\ DOMAIN name = 1..Len(name)
         /\ n \in 1..Len(name) + 1 /\ n - 1 \in 0..Len(name)
         /\ Here(items, name, p, n - 1) /\ Places(items, name, backtrack)
<1>1. status = "matching" /\ p <= Len(items)
  BY DEF Reading
<1>2. /\ todo # <<>> /\ n \in 1..Len(name) + 1
      /\ Here(items, name, p, n - 1) /\ Places(items, name, backtrack)
  BY <1>1, Zenon DEF IInv, Matching, Places
<1>3. Len(name) \in Nat /\ DOMAIN name = 1..Len(name)
  BY <1>2, NameTyped DEF IInv
<1>4. /\ Len(items) \in Nat /\ DOMAIN items = 1..Len(items)
      /\ p \in Nat \ {0} /\ p \in DOMAIN items
  BY <1>1 DEF IInv, Typed
<1> QED BY <1>1, <1>2, <1>3, <1>4

\* The skip ends, and passes nothing a star may not use up.
LEMMA SkippedTyped ==
  ASSUME IInv, Reading
  PROVE  /\ Skipped \in n..Len(name) + 1
         /\ \A j \in n..Skipped - 1 : name[j] \notin Separators /\ ~SkipStops(j)
<1>1. Len(name) \in Nat /\ n \in 1..Len(name) + 1
  BY WhileReading
<1> DEFINE S == {j \in n..Len(name) + 1 : SkipStops(j)}
<1>2. Len(name) + 1 \in S
  <2>1. Len(name) + 1 > Len(name) /\ Len(name) + 1 \in n..Len(name) + 1
    BY <1>1
  <2> QED BY <2>1, Zenon DEF SkipStops
<1>3. \A j \in S : j \in Nat
  BY <1>1
<1>4. PICK x \in S : \A y \in S : x <= y
  <2> HIDE DEF S
  <2>1. S \in SUBSET Nat /\ S # {}
    BY <1>2, <1>3
  <2> QED BY <2>1, LeastExists, Zenon
<1>5. \A k \in n..x - 1 : ~SkipStops(k)
  <2>1. SUFFICES ASSUME NEW k \in n..x - 1, SkipStops(k) PROVE FALSE
    OBVIOUS
  <2>2. k \in n..Len(name) + 1 /\ ~(x <= k)
    BY <1>1, <1>3
  <2>3. k \in S
    BY <2>1, <2>2, Zenon
  <2> QED BY <1>4, <2>2, <2>3, Zenon
<1>6. x \in n..Len(name) + 1 /\ SkipStops(x)
  OBVIOUS
<1>7. /\ Skipped \in n..Len(name) + 1
      /\ \A k \in n..Skipped - 1 : ~SkipStops(k)
  BY <1>5, <1>6, Zenon DEF Skipped
<1> QED BY <1>7, Zenon DEF SkipStops

LEMMA ReadStarIInv == ASSUME IInv, ReadStar PROVE IInv'
<1>1. Reading /\ items[p].type = "star" /\ p' = p + 1 /\ UNCHANGED <<search, status, items>>
  BY DEF ReadStar
<1>2. /\ status = "matching" /\ p \in Nat \ {0} /\ p \in DOMAIN items
      /\ Len(items) \in Nat /\ DOMAIN items = 1..Len(items)
      /\ Len(name) \in Nat /\ DOMAIN name = 1..Len(name)
      /\ n \in 1..Len(name) + 1 /\ n - 1 \in 0..Len(name)
      /\ Here(items, name, p, n - 1) /\ Places(items, name, backtrack)
  BY <1>1, WhileReading
<1>3. Reach(items, name, p, n - 1)
  BY <1>1, <1>2, Zenon DEF Here
<1>4. p + 1 \in 1..Len(items) + 1 /\ p + 1 \in Nat \ {0} /\ (p + 1) - 1 = p
  BY <1>2
\* A place the star can come back to, if it may use up the character there.
<1>5. ASSUME NEW j \in 1..Len(name), Reach(items, name, p, j - 1), MayEat(items, name, p, j)
      PROVE  Place(items, name, <<p, j>>)
  <2>1. <<p, j>> \in Nat \X Nat /\ <<p, j>>[1] = p /\ <<p, j>>[2] = j
    BY <1>2
  <2> QED BY <1>1, <1>2, <1>5, <2>1, Zenon DEF Place
<1>6. CASE BeforeAny(p)
  <2>1. n' = n /\ backtrack' = IF AtEnd THEN backtrack ELSE Pushed(backtrack, p, n)
    BY <1>6, Zenon DEF ReadStar
  <2>2. p \in Crossing(items)
    BY <1>2, <1>6 DEF BeforeAny, Crossing
  <2>3. ~AtEnd => Place(items, name, <<p, n>>)
    <3>1. ~AtEnd => n \in 1..Len(name)
      BY <1>2 DEF AtEnd
    <3> QED BY <1>3, <1>5, <2>2, <3>1, Zenon DEF MayEat
  <2>4. Places(items, name, backtrack')
    BY <1>2, <2>1, <2>3, PushedPlaces, Zenon
  <2>5. Here(items, name, p + 1, n - 1)
    BY <1>2, <1>3, <1>4, Arrive, Zenon
  <2> QED BY <1>1, <1>2, <1>4, <2>1, <2>4, <2>5, MatcherStep, Zenon
<1>7. CASE ~BeforeAny(p)
  <2> DEFINE first == IF InSegment(n) THEN Pushed(backtrack, p, n) ELSE backtrack
             m == Skipped
  <2>1. /\ n' = m
        /\ backtrack' = IF InSegment(m) THEN Pushed(first, p, m) ELSE first
    BY <1>7, Zenon DEF ReadStar
  <2>2. m \in n..Len(name) + 1 /\ \A j \in n..m - 1 : name[j] \notin Separators
    BY <1>1, SkippedTyped
  <2> HIDE DEF m
  <2>3. m \in 1..Len(name) + 1 /\ m - 1 \in 0..Len(name) /\ n - 1 <= m - 1
    BY <1>2, <2>2
  <2>4. Reach(items, name, p, m - 1)
    <3> DEFINE a == n - 1
               b == m - 1
    <3>1. /\ a \in 0..Len(name) /\ b \in 0..Len(name) /\ a <= b
          /\ \A j \in a + 1..b : j \in n..m - 1
      BY <1>2, <2>2, <2>3
    <3>2. \A j \in a + 1..b : MayEat(items, name, p, j)
      BY <2>2, <3>1, Zenon DEF MayEat
    <3>3. Reach(items, name, p, a)
      BY <1>3, Zenon
    <3> HIDE DEF a, b
    <3>4. Reach(items, name, p, b)
      BY <1>1, <1>2, <3>1, <3>2, <3>3, ReachFurther, Zenon
    <3> QED BY <3>4, Zenon DEF b
  <2>5. \A j \in Nat \ {0} : InSegment(j) => j \in 1..Len(name) /\ MayEat(items, name, p, j)
    <3>1. \A j \in Nat \ {0} : j <= Len(name) => j \in 1..Len(name)
      BY <1>2
    <3> QED BY <3>1, Zenon DEF InSegment, MayEat
  <2>6. n \in Nat \ {0} /\ m \in Nat \ {0}
    BY <1>2, <2>3
  <2>7. Places(items, name, first)
    BY <1>2, <1>3, <1>5, <2>5, <2>6, PushedPlaces, Zenon
  <2> HIDE DEF first
  <2>8. Places(items, name, backtrack')
    BY <1>5, <2>1, <2>4, <2>5, <2>6, <2>7, PushedPlaces, Zenon
  <2>9. Here(items, name, p + 1, m - 1)
    BY <1>2, <1>4, <2>3, <2>4, Arrive, Zenon
  <2> QED BY <1>1, <1>2, <1>4, <2>1, <2>3, <2>8, <2>9, MatcherStep, Zenon
<1> QED BY <1>6, <1>7

LEMMA ReadCharIInv == ASSUME IInv, ReadChar PROVE IInv'
<1>1. /\ Reading /\ items[p].type # "star" /\ ItemMatches
      /\ p' = p + 1 /\ n' = n + 1 /\ UNCHANGED <<search, status, items, backtrack>>
  BY DEF ReadChar
<1>2. /\ status = "matching" /\ p \in Nat \ {0} /\ p \in DOMAIN items
      /\ Len(items) \in Nat /\ DOMAIN items = 1..Len(items)
      /\ Len(name) \in Nat /\ DOMAIN name = 1..Len(name)
      /\ n \in 1..Len(name) + 1 /\ n - 1 \in 0..Len(name)
      /\ Here(items, name, p, n - 1) /\ Places(items, name, backtrack)
  BY <1>1, WhileReading
<1>3. Reach(items, name, p - 1, n - 1)
  BY <1>1, <1>2, Zenon DEF Here
<1>4. n \in 1..Len(name) /\ (items[p].type = "any" \/ CharMatches(name[n], items[p]))
  BY <1>1, <1>2 DEF ItemMatches, AtEnd
<1> DEFINE h == p - 1
           a == n - 1
<1>5. h \in Nat /\ h + 1 = p /\ a \in 0..Len(name) /\ n = a + 1 /\ n \in 0..Len(name)
  BY <1>2, <1>4
<1>6. Reach(items, name, h, a)
  BY <1>3, Zenon
<1> HIDE DEF h, a
<1>7. Piece(items, name, h + 1, a, n, Crossing(items))
  BY <1>1, <1>4, <1>5, Zenon DEF Piece
<1>8. Reach(items, name, p, n)
  <2>1. Reach(items, name, h + 1, n)
    BY <1>2, <1>5, <1>6, <1>7, ReachMore
  <2> QED BY <1>5, <2>1, Zenon
<1>9. /\ p + 1 \in 1..Len(items) + 1 /\ p + 1 \in Nat \ {0} /\ (p + 1) - 1 = p
      /\ n + 1 \in 1..Len(name) + 1 /\ (n + 1) - 1 = n
  BY <1>2, <1>4
<1>10. Here(items, name, p + 1, n)
  BY <1>2, <1>5, <1>8, <1>9, Arrive, Zenon
<1>11. UNCHANGED <<search, status, items>> /\ Places(items, name, backtrack')
  BY <1>1, <1>2, Zenon
<1> QED BY <1>1, <1>2, <1>9, <1>10, <1>11, MatcherStep, Zenon

\* The stack without its top.
LEMMA Popped ==
  ASSUME NEW S, NEW stack \in Seq(S), stack # <<>>
  PROVE  LET rest == SubSeq(stack, 1, Len(stack) - 1)
         IN  /\ Len(stack) \in DOMAIN stack
             /\ rest \in Seq(S)
             /\ \A k \in DOMAIN rest : k \in DOMAIN stack /\ rest[k] = stack[k]
             /\ \A k \in DOMAIN stack : k = Len(stack) \/ k \in DOMAIN rest
<1> DEFINE l == Len(stack)
           rest == SubSeq(stack, 1, l - 1)
<1>1. l \in Nat /\ l # 0 /\ DOMAIN stack = 1..l
  OBVIOUS
<1>2. l \in DOMAIN stack /\ l - 1 \in Nat
  BY <1>1
<1>3. rest \in Seq(S) /\ DOMAIN rest = 1..(l - 1)
  OBVIOUS
<1>4. ASSUME NEW k \in DOMAIN rest PROVE k \in DOMAIN stack /\ rest[k] = stack[k]
  <2>1. k \in 1..(l - 1)
    BY <1>3
  <2>2. k \in 1..l
    BY <1>1, <2>1
  <2>3. rest[k] = stack[k]
    BY <1>1, <2>1
  <2> QED BY <1>1, <2>2, <2>3
<1>5. \A k \in DOMAIN stack : k = Len(stack) \/ k \in DOMAIN rest
  <2>1. \A k \in 1..l : k = l \/ k \in 1..(l - 1)
    <3>1. l \in Nat
      BY <1>1
    <3> HIDE DEF l
    <3> QED BY <3>1
  <2> QED BY <1>1, <1>3, <2>1, Zenon
<1> QED BY <1>2, <1>3, <1>4, <1>5, Zenon

LEMMA BacktrackIInv == ASSUME IInv, Backtrack PROVE IInv'
<1> DEFINE top == backtrack[Len(backtrack)]
           i == top[1]
           j == top[2]
<1>1. /\ backtrack # <<>> /\ status = "matching"
      /\ p' = i /\ n' = j + 1
      /\ backtrack' = SubSeq(backtrack, 1, Len(backtrack) - 1)
      /\ UNCHANGED <<search, status, items>>
  BY DEF Backtrack, Stuck, Reading
<1>2. /\ todo # <<>> /\ Places(items, name, backtrack)
      /\ backtrack \in Seq(Nat \X Nat)
  BY <1>1, Zenon DEF IInv, Matching, Places
<1>3. /\ Len(name) \in Nat /\ Len(items) \in Nat /\ DOMAIN items = 1..Len(items)
  BY <1>2, NameTyped DEF IInv, Typed
<1>4. /\ Len(backtrack) \in DOMAIN backtrack
      /\ backtrack' \in Seq(Nat \X Nat)
      /\ \A k \in DOMAIN backtrack' : k \in DOMAIN backtrack /\ backtrack'[k] = backtrack[k]
  BY <1>1, <1>2, Popped, Zenon
<1>5. Place(items, name, top)
  BY <1>2, <1>4, Zenon DEF Places
<1>6. Places(items, name, backtrack')
  BY <1>2, <1>4, Zenon DEF Places
<1> HIDE DEF top
<1>7. /\ i \in DOMAIN items /\ items[i].type = "star" /\ j \in 1..Len(name)
      /\ Reach(items, name, i, j - 1) /\ MayEat(items, name, i, j)
  BY <1>5, Zenon DEF Place
<1> HIDE DEF i, j
<1>8. Reach(items, name, i, j)
  <2> DEFINE a == j - 1
  <2>1. a \in 0..Len(name) /\ j \in 0..Len(name) /\ a <= j /\ i \in Nat \ {0}
    BY <1>3, <1>7
  <2>2. \A k \in a + 1..j : k = j
    BY <1>3, <1>7
  <2>3. Reach(items, name, i, a) /\ \A k \in a + 1..j : MayEat(items, name, i, k)
    BY <1>7, <2>2, Zenon
  <2> HIDE DEF a
  <2> QED BY <1>3, <1>7, <2>1, <2>3, ReachFurther, Zenon
<1>9. /\ i \in 1..Len(items) + 1 /\ j + 1 \in 1..Len(name) + 1 /\ (j + 1) - 1 = j
  BY <1>3, <1>7
<1>10. Here(items, name, i, j)
  BY <1>7, <1>8, Zenon DEF Here
<1> QED BY <1>1, <1>6, <1>9, <1>10, MatcherStep, Zenon

\* At the end of the items and of the name there is a match.
LEMMA AcceptedMatches ==
  ASSUME IInv, status = "matching", p > Len(items), AtEnd
  PROVE  Matches(pattern, name)
<1>1. /\ todo # <<>> /\ items = Items(pattern) /\ n \in 1..Len(name) + 1
      /\ Here(items, name, p, n - 1)
  BY Zenon DEF IInv, Matching
<1>2. Len(name) \in Nat /\ Len(items) \in Nat /\ DOMAIN items = 1..Len(items)
      /\ p \in 1..Len(items) + 1
  BY <1>1, NameTyped DEF IInv, Typed
<1>3. p \notin DOMAIN items /\ p - 1 = Len(items) /\ n - 1 = Len(name)
  BY <1>1, <1>2 DEF AtEnd
<1>4. Reach(items, name, Len(items), Len(name))
  BY <1>1, <1>3, Zenon DEF Here
<1>5. MatchesCrossing(items, name, Crossing(items))
  BY <1>4, Zenon DEF Reach, MatchesCrossing, IsCut
<1> QED BY <1>1, <1>5, Zenon DEF Matches

LEMMA DecideIInv ==
  ASSUME IInv, status = "matching", NEW matches \in BOOLEAN, Decide(matches),
         matches => Matches(pattern, name)
  PROVE  IInv'
<1>1. /\ found' = IF matches THEN found \cup {name} ELSE found
      /\ todo' = Tail(todo) /\ status' = "next"
      /\ UNCHANGED <<pattern, failed, pass, names, items, p, n, backtrack>>
  BY DEF Decide
<1>2. todo # <<>>
  BY Zenon DEF IInv, Matching
<1>3. /\ name \in names /\ Tail(todo) \in Seq(Seq(Characters))
      /\ {Tail(todo)[i] : i \in DOMAIN Tail(todo)} \subseteq names
  BY <1>2, NameTyped DEF IInv
<1>4. found' \subseteq names /\ \A s \in found' : s \in found \/ (s = name /\ matches)
  <2>1. found \subseteq names
    BY Zenon DEF IInv, Typed
  <2>2. CASE matches
    <3>1. found' = found \cup {name}
      BY <1>1, <2>2, Zenon
    <3> QED BY <1>3, <2>1, <2>2, <3>1
  <2>3. CASE ~matches
    <3>1. found' = found
      BY <1>1, <2>3, Zenon
    <3> QED BY <2>1, <3>1
  <2> QED BY <2>2, <2>3, Zenon
<1>5. Typed'
  <2>1. {todo'[i] : i \in DOMAIN todo'} \subseteq names'
    BY <1>1, <1>3, Zenon
  <2> QED BY <1>1, <1>3, <1>4, <2>1 DEF IInv, Typed
<1>6. Matching'
  BY <1>1 DEF Matching
<1>7. FoundMatches'
  BY <1>1, <1>4, Zenon DEF IInv, FoundMatches
<1> QED BY <1>5, <1>6, <1>7 DEF IInv

LEMMA NextIInv == IInv /\ [Next]_vars => IInv'
<1> SUFFICES ASSUME IInv, [Next]_vars PROVE IInv'
  OBVIOUS
<1>1. CASE MatchNext
  BY <1>1, MatchNextIInv
<1>2. CASE IterationFails \/ SearchWider \/ Finish
  BY <1>2, SearchIInv
<1>3. CASE ReadStar
  BY <1>3, ReadStarIInv
<1>4. CASE ReadChar
  BY <1>4, ReadCharIInv
<1>5. CASE Backtrack
  BY <1>5, BacktrackIInv
<1>6. CASE Accept
  BY <1>6, AcceptedMatches, DecideIInv, Zenon DEF Accept
<1>7. CASE Reject
  <2>1. status = "matching" /\ Decide(FALSE)
    BY <1>7, Zenon DEF Reject, Stuck, Reading
  <2> QED BY <2>1, DecideIInv, Zenon
<1>8. CASE UNCHANGED vars
  <2>1. UNCHANGED <<pattern, todo, found, failed, pass, status, items, p, n, backtrack, names>>
        /\ UNCHANGED name
    BY <1>8 DEF vars, name
  <2>2. Typed'
    BY <2>1 DEF IInv, Typed
  <2>3. Matching' /\ FoundMatches'
    BY <2>1, Zenon DEF IInv, Matching, FoundMatches
  <2> QED BY <2>2, <2>3 DEF IInv
<1> QED BY <1>1, <1>2, <1>3, <1>4, <1>5, <1>6, <1>7, <1>8, Zenon DEF Next

LEMMA Invariance == Spec => []IInv
BY InitIInv, NextIInv, PTL DEF Spec

-----------------------------------------------------------------------------

(***************************************************************************)
(* The positions stay within the items and the name, and the stack holds   *)
(* stars and characters that are there: matchglob_impl() dereferences no   *)
(* end iterator.                                                           *)
(***************************************************************************)
THEOREM TypeCorrect == Spec => []TypeOK
<1>1. ASSUME IInv PROVE TypeOK
  <2>1. ASSUME status = "matching"
        PROVE  /\ todo # <<>> /\ n \in 1..Len(name) + 1
               /\ \A i \in DOMAIN backtrack :
                    /\ backtrack[i][1] \in DOMAIN items
                    /\ items[backtrack[i][1]].type = "star"
                    /\ backtrack[i][2] \in DOMAIN name
    <3>1. todo # <<>> /\ n \in 1..Len(name) + 1
          /\ \A i \in DOMAIN backtrack : Place(items, name, backtrack[i])
      BY <1>1, <2>1, Zenon DEF IInv, Matching
    <3>2. DOMAIN name = 1..Len(name)
      BY <1>1, <3>1, NameTyped DEF IInv
    <3> QED BY <3>1, <3>2, Zenon DEF Place
  <2> QED BY <1>1, <2>1, Zenon DEF IInv, Typed, TypeOK
<1>2. IInv => TypeOK
  BY <1>1
<1> QED BY <1>2, Invariance, PTL

-----------------------------------------------------------------------------
(* Nothing is lost.  What is left to do is cut as what is done: the items   *)
(* from i on can use up the characters after the first a.                   *)

Rest(its, s, i, a) ==
  \E cut \in [(i - 1)..Len(its) -> 0..Len(s)] :
    /\ cut[i - 1] = a /\ cut[Len(its)] = Len(s)
    /\ \A k \in i..Len(its) : Piece(its, s, k, cut[k - 1], cut[k], Crossing(its))

\* A match is all that is left to do at the beginning.
LEMMA RestAll ==
  ASSUME NEW its, NEW s, MatchesCrossing(its, s, Crossing(its))
  PROVE  Rest(its, s, 1, 0)
<1>1. 1 - 1 = 0
  OBVIOUS
<1> QED BY <1>1, Zenon DEF MatchesCrossing, IsCut, Rest

\* Nothing is left to do when the items are used up: the name is, too.
LEMMA RestNone ==
  ASSUME NEW its, Len(its) \in Nat, NEW s, NEW a, Rest(its, s, Len(its) + 1, a)
  PROVE  a = Len(s)
<1>1. (Len(its) + 1) - 1 = Len(its)
  OBVIOUS
<1> QED BY <1>1, Zenon DEF Rest

\* The first of the items left uses up some characters, the others the rest.
LEMMA RestOfOne ==
  ASSUME NEW its, Len(its) \in Nat, NEW s, Len(s) \in Nat,
         NEW i \in 1..Len(its), NEW a \in 0..Len(s), Rest(its, s, i, a)
  PROVE  \E b \in 0..Len(s) : Piece(its, s, i, a, b, Crossing(its)) /\ Rest(its, s, i + 1, b)
<1> DEFINE l == Len(its)
           t == Len(s)
<1>1. PICK cut \in [(i - 1)..l -> 0..t] :
        /\ cut[i - 1] = a /\ cut[l] = t
        /\ \A k \in i..l : Piece(its, s, k, cut[k - 1], cut[k], Crossing(its))
  BY Zenon DEF Rest
<1> DEFINE less == [k \in ((i + 1) - 1)..l |-> cut[k]]
<1>2. i \in (i - 1)..l /\ i \in i..l /\ (i + 1) - 1 = i
  OBVIOUS
<1>3. cut[i] \in 0..t /\ Piece(its, s, i, a, cut[i], Crossing(its))
  BY <1>1, <1>2, Zenon
<1>4. \A k \in i..l : k \in (i - 1)..l
  OBVIOUS
<1>5. less \in [((i + 1) - 1)..l -> 0..t]
  BY <1>1, <1>2, <1>4
<1>6. less[(i + 1) - 1] = cut[i] /\ less[l] = t
  BY <1>1, <1>2
<1>7. ASSUME NEW k \in (i + 1)..l
      PROVE  Piece(its, s, k, less[k - 1], less[k], Crossing(its))
  <2>1. k \in i..l /\ less[k - 1] = cut[k - 1] /\ less[k] = cut[k]
    OBVIOUS
  <2> QED BY <1>1, <2>1, Zenon
<1> HIDE DEF less
<1>8. Rest(its, s, i + 1, cut[i])
  BY <1>5, <1>6, <1>7, Zenon DEF Rest
<1> QED BY <1>3, <1>8, Zenon

\* One more item before them.
LEMMA RestWithOne ==
  ASSUME NEW its, Len(its) \in Nat, NEW s, Len(s) \in Nat,
         NEW i \in 1..Len(its), NEW a \in 0..Len(s), NEW b \in 0..Len(s),
         Piece(its, s, i, a, b, Crossing(its)), Rest(its, s, i + 1, b)
  PROVE  Rest(its, s, i, a)
<1> DEFINE l == Len(its)
           t == Len(s)
<1>1. PICK cut \in [((i + 1) - 1)..l -> 0..t] :
        /\ cut[(i + 1) - 1] = b /\ cut[l] = t
        /\ \A k \in (i + 1)..l : Piece(its, s, k, cut[k - 1], cut[k], Crossing(its))
  BY Zenon DEF Rest
<1>2. (i + 1) - 1 = i
  OBVIOUS
<1> DEFINE more == [k \in (i - 1)..l |-> IF k = i - 1 THEN a ELSE cut[k]]
<1>3. more \in [(i - 1)..l -> 0..t]
  <2>1. \A k \in (i - 1)..l : k # i - 1 => k \in ((i + 1) - 1)..l
    OBVIOUS
  <2> QED BY <1>1, <2>1
<1>4. more[i - 1] = a /\ more[i] = b /\ more[l] = t
  BY <1>1, <1>2
<1>5. ASSUME NEW k \in i..l
      PROVE  Piece(its, s, k, more[k - 1], more[k], Crossing(its))
  <2>1. CASE k = i
    BY <1>4, <2>1, Zenon
  <2>2. CASE k # i
    <3>1. k \in (i + 1)..l /\ more[k - 1] = cut[k - 1] /\ more[k] = cut[k]
      BY <2>2
    <3> QED BY <1>1, <3>1, Zenon
  <2> QED BY <2>1, <2>2
<1> HIDE DEF more
<1> QED BY <1>3, <1>4, <1>5, Zenon DEF Rest

\* A star that uses up the characters up to b may do so from any one before.
LEMMA StarCutShort ==
  ASSUME NEW its, Len(its) \in Nat, NEW s, Len(s) \in Nat,
         NEW i \in 1..Len(its), its[i].type = "star",
         NEW a \in 0..Len(s), NEW b \in 0..Len(s), NEW j \in 0..Len(s), a <= j, j <= b,
         Piece(its, s, i, a, b, Crossing(its)), Rest(its, s, i + 1, b)
  PROVE  Rest(its, s, i, j)
<1>1. i \in Crossing(its) \/ \A k \in a + 1..b : s[k] \notin Separators
  BY Zenon DEF Piece
<1>2. \A k \in j + 1..b : k \in a + 1..b
  OBVIOUS
<1>3. Piece(its, s, i, j, b, Crossing(its))
  BY <1>1, <1>2, Zenon DEF Piece
<1> QED BY <1>3, RestWithOne, Zenon

-----------------------------------------------------------------------------
(* No star of the items follows a star, as Items drops it.                  *)

\* Two elements of a set whose ranks differ by one have none between them.
LEMMA RanksTouch ==
  ASSUME NEW l \in Nat, NEW S \in SUBSET (1..l), NEW a \in S, NEW b \in S, NEW k \in Nat,
         Cardinality({j \in S : j <= a}) = k, Cardinality({j \in S : j <= b}) = k + 1
  PROVE  a < b /\ \A c \in S : ~(a < c /\ c < b)
<1> DEFINE Below(m) == {j \in S : j <= m}
<1>0. \A j \in S : j \in Nat
  OBVIOUS
<1>1. IsFiniteSet(S)
  BY FS_Interval, FS_Subset, 1 \in Int, l \in Int
<1>2. \A m : IsFiniteSet(Below(m))
  BY <1>1, FS_Subset
<1>3. a < b
  <2>1. SUFFICES ASSUME b <= a PROVE FALSE
    BY <1>0
  <2>2. Below(b) \subseteq Below(a)
    <3>1. a \in Nat /\ b \in Nat
      BY <1>0
    <3>2. \A j \in Nat : j <= b => j <= a
      BY <2>1, <3>1
    <3> QED BY <1>0, <3>2, Zenon
  <2>3. Cardinality(Below(b)) <= Cardinality(Below(a))
    BY <1>2, <2>2, FS_Subset
  <2> QED BY <2>3
<1>4. ASSUME NEW c \in S, a < c, c < b PROVE FALSE
  <2>1. c \notin Below(a) /\ b \notin Below(a) \cup {c}
    BY <1>0, <1>4
  <2>2. Below(a) \cup {c} \cup {b} \subseteq Below(b)
    <3>1. a \in Nat /\ b \in Nat /\ c \in Nat
      BY <1>0
    <3>2. c <= b /\ b <= b /\ \A j \in Nat : j <= a => j <= b
      BY <1>4, <3>1
    <3> QED BY <1>0, <3>2, Zenon
  <2> DEFINE A == Below(a)
             B == Below(b)
  <2>3. IsFiniteSet(A) /\ IsFiniteSet(B) /\ Cardinality(A) = k /\ Cardinality(B) = k + 1
        /\ c \notin A /\ b \notin A \cup {c} /\ (A \cup {c}) \cup {b} \subseteq B
    BY <1>2, <2>1, <2>2
  <2> HIDE DEF A, B
  <2>4. IsFiniteSet(A \cup {c}) /\ Cardinality(A \cup {c}) = k + 1
    BY <2>3, FS_AddElement
  <2> DEFINE AC == A \cup {c}
  <2>a. IsFiniteSet(AC) /\ Cardinality(AC) = k + 1 /\ b \notin AC
    BY <2>3, <2>4
  <2> HIDE DEF AC
  <2>b. Cardinality(AC \cup {b}) = (k + 1) + 1
    BY <2>a, FS_AddElement
  <2>5. Cardinality((A \cup {c}) \cup {b}) = (k + 1) + 1
    BY <2>b, Zenon DEF AC
  <2>6. Cardinality((A \cup {c}) \cup {b}) <= Cardinality(B)
    BY <2>3, FS_Subset
  <2> QED BY <2>3, <2>5, <2>6
<1> QED BY <1>3, <1>4

LEMMA NoTwoStars ==
  ASSUME NEW pat \in Texts, NEW k \in Nat \ {0}, k + 1 \in DOMAIN Items(pat)
  PROVE  ~(Items(pat)[k].type = "star" /\ Items(pat)[k + 1].type = "star")
<1> DEFINE kept == {i \in DOMAIN pat : ~(pat[i] = "*" /\ i > 1 /\ pat[i - 1] = "*")}
           N == Cardinality(kept)
           nth(j) == CHOOSE i \in kept : Cardinality({h \in kept : h <= i}) = j
           l == Len(pat)
<1>1. l \in Nat /\ DOMAIN pat = 1..l
  BY DEF Texts
<1>2. kept \in SUBSET (1..l)
  BY <1>1, Zenon
<1>3. \A i \in 1..l : i \in kept <=> ~(pat[i] = "*" /\ i > 1 /\ pat[i - 1] = "*")
  BY <1>1, Zenon
<1>4. Items(pat) = [j \in 1..N |-> Item(pat[nth(j)])]
  BY Zenon DEF Items
<1> HIDE DEF kept, l
<1>5. N \in Nat
  BY <1>1, <1>2, FS_Interval, FS_Subset, FS_CardinalityType, 1 \in Int, l \in Int
<1>6. \A j \in 1..N : nth(j) \in kept /\ Cardinality({h \in kept : h <= nth(j)}) = j
  <2>1. SUFFICES ASSUME NEW j \in 1..N
                 PROVE  nth(j) \in kept /\ Cardinality({h \in kept : h <= nth(j)}) = j
    OBVIOUS
  <2>2. \E i \in kept : Cardinality({h \in kept : h <= i}) = j
    BY <1>1, <1>2, <2>1, RankIsTaken, Zenon
  <2> QED BY <2>2, Zenon
<1> HIDE DEF N, nth
<1>7. k \in 1..N /\ k + 1 \in 1..N
  <2>1. k + 1 \in 1..N
    BY <1>4, Zenon
  <2> QED BY <1>5, <2>1
<1> DEFINE a == nth(k)
           b == nth(k + 1)
<1>8. /\ a \in kept /\ Cardinality({h \in kept : h <= a}) = k
      /\ b \in kept /\ Cardinality({h \in kept : h <= b}) = k + 1
      /\ Items(pat)[k] = Item(pat[a]) /\ Items(pat)[k + 1] = Item(pat[b])
  BY <1>4, <1>6, <1>7, Zenon
<1> HIDE DEF a, b
<1>9. a < b /\ \A c \in kept : ~(a < c /\ c < b)
  BY <1>1, <1>2, <1>8, RanksTouch, k \in Nat, Zenon
<1>10. SUFFICES ASSUME Item(pat[a]).type = "star", Item(pat[b]).type = "star" PROVE FALSE
  BY <1>8, Zenon
<1>11. \A c : Item(c).type = "star" => c = "*"
  <2> SUFFICES ASSUME NEW c, c # "*" PROVE Item(c).type # "star"
    OBVIOUS
  <2>1. CASE c = "?"
    <3>1. Item(c) = AnyChar
      BY <2>1, Zenon DEF Item
    <3> QED BY <3>1 DEF AnyChar
  <2>2. CASE c # "?"
    <3>1. Item(c) = [type |-> "char", value |-> c]
      BY <2>2, Zenon DEF Item
    <3> QED BY <3>1
  <2> QED BY <2>1, <2>2
<1>12. pat[a] = "*" /\ pat[b] = "*"
  BY <1>10, <1>11, Zenon
<1>13. a \in 1..l /\ b \in 1..l /\ b > 1 /\ b - 1 \in 1..l
  BY <1>1, <1>2, <1>8, <1>9
<1>14. pat[b - 1] # "*"
  BY <1>3, <1>8, <1>12, <1>13, Zenon
<1>15. b - 1 \in kept /\ b - 1 # a
  BY <1>3, <1>12, <1>13, <1>14, Zenon
<1>16. a < b - 1 /\ b - 1 < b
  BY <1>9, <1>13, <1>15
<1> QED BY <1>9, <1>15, <1>16, Zenon

-----------------------------------------------------------------------------
(* The invariant of what is left: a name that matches can be finished from  *)
(* where the matcher is or from a place it will come back to.               *)

Rests(its, s, stack) == \E k \in DOMAIN stack : Rest(its, s, stack[k][1], stack[k][2])

WithinReach ==
  status = "matching" /\ Matches(pattern, name) =>
    Rest(items, name, p, n - 1) \/ Rests(items, name, backtrack)

NoneLost == ~failed => \A s \in Given : Matches(pattern, s) => s \in found

CInv == WithinReach /\ NoneLost

LEMMA PushedTyped ==
  ASSUME NEW stack \in Seq(Nat \X Nat), NEW i \in Nat, NEW j \in Nat
  PROVE  Pushed(stack, i, j) \in Seq(Nat \X Nat)
BY DEF Pushed

LEMMA PushedRests ==
  ASSUME NEW its, NEW s, NEW stack \in Seq(Nat \X Nat), NEW i \in Nat, NEW j \in Nat
  PROVE  /\ Rests(its, s, stack) => Rests(its, s, Pushed(stack, i, j))
         /\ Rest(its, s, i, j) => Rests(its, s, Pushed(stack, i, j))
<1> DEFINE l == Len(stack) + 1
           more == Pushed(stack, i, j)
<1>1. /\ l \in DOMAIN more /\ more[l] = <<i, j>>
      /\ \A k \in DOMAIN stack : k \in DOMAIN more /\ more[k] = stack[k]
  BY DEF Pushed
<1>2. more[l][1] = i /\ more[l][2] = j
  BY <1>1
<1> HIDE DEF more, l
<1>3. Rests(its, s, stack) => Rests(its, s, more)
  BY <1>1, Zenon DEF Rests
<1>4. Rest(its, s, i, j) => Rests(its, s, more)
  BY <1>1, <1>2, Zenon DEF Rests
<1> QED BY <1>3, <1>4, Zenon DEF more

\* A step of the matcher within a name.
LEMMA StepKeepsReach ==
  ASSUME CInv, status = "matching", UNCHANGED <<search, status, items>>,
         (Rest(items, name, p, n - 1) \/ Rests(items, name, backtrack))
           => (Rest(items, name, p', n' - 1) \/ Rests(items, name, backtrack'))
  PROVE  CInv'
<1>1. /\ UNCHANGED <<pattern, todo, found, failed, pass, names, status, items>>
      /\ name' = name
  BY DEF search, name
<1>2. WithinReach'
  BY <1>1, Zenon DEF CInv, WithinReach
<1>3. NoneLost'
  BY <1>1, Zenon DEF CInv, NoneLost, Given
<1> QED BY <1>2, <1>3, Zenon DEF CInv

\* Where the matcher can go no further nothing can be finished.
LEMMA StuckIsLost == ASSUME IInv, Stuck PROVE ~Rest(items, name, p, n - 1)
<1>1. /\ status = "matching" /\ todo # <<>> /\ n \in 1..Len(name) + 1
  BY Zenon DEF Stuck, Reading, IInv, Matching
<1>2. /\ Len(name) \in Nat /\ Len(items) \in Nat /\ p \in 1..Len(items) + 1
      /\ n - 1 \in 0..Len(name)
  BY <1>1, NameTyped DEF IInv, Typed
<1>3. CASE Reading /\ items[p].type # "star" /\ ~ItemMatches
  <2>1. SUFFICES ASSUME Rest(items, name, p, n - 1) PROVE FALSE
    BY Zenon
  <2>2. p \in 1..Len(items)
    BY <1>2, <1>3 DEF Reading
  <2>3. PICK b \in 0..Len(name) : Piece(items, name, p, n - 1, b, Crossing(items))
    <3> DEFINE a == n - 1
    <3>1. a \in 0..Len(name) /\ Rest(items, name, p, a)
      BY <1>2, <2>1, Zenon
    <3> HIDE DEF a
    <3>2. \E b \in 0..Len(name) : Piece(items, name, p, a, b, Crossing(items))
      BY <1>2, <2>2, <3>1, RestOfOne, Zenon
    <3> QED BY <3>2, Zenon DEF a
  <2>4. b = (n - 1) + 1 /\ (items[p].type = "any" \/ CharMatches(name[b], items[p]))
    BY <1>3, <2>3, Zenon DEF Piece
  <2>5. b = n /\ ~(n > Len(name))
    BY <1>1, <1>2, <2>3, <2>4
  <2> QED BY <1>3, <2>4, <2>5, Zenon DEF ItemMatches, AtEnd
<1>4. CASE p > Len(items) /\ ~AtEnd
  <2>1. SUFFICES ASSUME Rest(items, name, p, n - 1) PROVE FALSE
    BY Zenon
  <2>2. p = Len(items) + 1
    BY <1>2, <1>4
  <2>3. n - 1 = Len(name)
    <3>1. Rest(items, name, Len(items) + 1, n - 1)
      BY <2>1, <2>2, Zenon
    <3> QED BY <1>2, <3>1, RestNone, Zenon
  <2>4. n > Len(name)
    BY <1>1, <1>2, <2>3
  <2> QED BY <1>4, <2>4, Zenon DEF AtEnd
<1> QED BY <1>3, <1>4, Zenon DEF Stuck

LEMMA InitCInv == Init => CInv
<1> SUFFICES ASSUME Init PROVE CInv
  OBVIOUS
<1>1. status = "next" /\ Given = {}
  BY DEF Init, Given
<1> QED BY <1>1, "next" # "matching", Zenon DEF CInv, WithinReach, NoneLost

LEMMA MatchNextCInv == ASSUME IInv, CInv, MatchNext PROVE CInv'
<1>1. /\ todo # <<>> /\ status' = "matching" /\ items' = Items(pattern)
      /\ p' = 1 /\ n' = 1 /\ backtrack' = <<>>
      /\ UNCHANGED <<pattern, todo, found, failed, pass, names>>
      /\ name' = name
  BY DEF MatchNext, search, name
<1>2. n' - 1 = 0
  BY <1>1
<1>3. Matches(pattern, name) => Rest(items', name, 1, 0)
  BY <1>1, RestAll, Zenon DEF Matches
<1>4. WithinReach'
  BY <1>1, <1>2, <1>3, Zenon DEF WithinReach
<1>5. NoneLost'
  BY <1>1, Zenon DEF CInv, NoneLost, Given
<1> QED BY <1>4, <1>5, Zenon DEF CInv

LEMMA SearchCInv ==
  ASSUME IInv, CInv, IterationFails \/ SearchWider \/ Finish
  PROVE  CInv'
<1>1. CASE IterationFails
  <2>1. failed' = TRUE /\ status' = "next"
    BY <1>1, Zenon DEF IterationFails
  <2> QED BY <2>1, "next" # "matching", Zenon DEF CInv, WithinReach, NoneLost
<1>2. CASE SearchWider
  <2>1. status' = "next" /\ names' = names
        /\ \E again \in Directories : names = {again[i] : i \in DOMAIN again} /\ todo' = again
    BY <1>2, Zenon DEF SearchWider
  <2>2. Given' = {}
    BY <2>1, Zenon DEF Given
  <2> QED BY <2>1, <2>2, "next" # "matching", Zenon DEF CInv, WithinReach, NoneLost
<1>3. CASE Finish
  <2>1. status' = "done" /\ UNCHANGED <<pattern, todo, found, failed, names>>
    BY <1>3 DEF Finish, search
  <2>2. NoneLost'
    BY <2>1, Zenon DEF CInv, NoneLost, Given
  <2> QED BY <2>1, <2>2, "done" # "matching", Zenon DEF CInv, WithinReach
<1> QED BY <1>1, <1>2, <1>3

LEMMA NotLast ==
  ASSUME NEW l \in Nat, NEW k \in 1..l, k # l
  PROVE  k + 1 \in 1..l /\ k < l
OBVIOUS

\* What the skip passes is no place where the next item matches.
LEMMA SkipIsSafe ==
  ASSUME IInv, Reading, items[p].type = "star", ~BeforeAny(p),
         NEW b \in n - 1..Len(name), b + 1 < Skipped, Rest(items, name, p + 1, b)
  PROVE  FALSE
<1>1. /\ status = "matching" /\ p \in Nat \ {0} /\ p \in DOMAIN items
      /\ Len(items) \in Nat /\ DOMAIN items = 1..Len(items)
      /\ Len(name) \in Nat /\ n \in 1..Len(name) + 1
  BY WhileReading
<1>2. /\ Skipped \in n..Len(name) + 1
      /\ \A j \in n..Skipped - 1 : ~SkipStops(j)
  BY SkippedTyped, Zenon
<1>3. b \in 0..Len(name) /\ b + 1 \in n..Skipped - 1 /\ b # Len(name)
  BY <1>1, <1>2
<1>4. CASE p = Len(items)
  <2>1. Rest(items, name, Len(items) + 1, b)
    BY <1>4, Zenon
  <2> QED BY <1>1, <1>3, <2>1, RestNone, Zenon
<1>5. CASE p # Len(items)
  <2>1. p + 1 \in 1..Len(items) /\ p < Len(items) /\ p + 1 \in DOMAIN items
    <3>1. p \in 1..Len(items)
      BY <1>1, Zenon
    <3>2. p + 1 \in 1..Len(items) /\ p < Len(items)
      BY <1>1, <1>5, <3>1, NotLast, Zenon
    <3> QED BY <1>1, <3>2, Zenon
  <2>2. PICK c \in 0..Len(name) : Piece(items, name, p + 1, b, c, Crossing(items))
    BY <1>1, <1>3, <2>1, RestOfOne, Zenon
  <2>3. items = Items(pattern) /\ pattern \in Texts
    BY <1>1, Zenon DEF IInv, Matching, Typed
  <2>4. items[p + 1].type # "star"
    BY <1>1, <2>1, <2>3, NoTwoStars, Zenon
  <2>5. items[p + 1].type # "any"
    BY <2>1, Zenon DEF BeforeAny
  <2>6. c = b + 1 /\ CharMatches(name[c], items[p + 1])
    BY <2>2, <2>4, <2>5, Zenon DEF Piece
  <2>7. ~SkipStops(b + 1)
    BY <1>2, <1>3, Zenon
  <2> QED BY <2>1, <2>6, <2>7, Zenon DEF SkipStops, CharMatches
<1> QED BY <1>4, <1>5

LEMMA ReadStarCInv == ASSUME IInv, CInv, ReadStar PROVE CInv'
<1>1. Reading /\ items[p].type = "star" /\ p' = p + 1 /\ UNCHANGED <<search, status, items>>
  BY DEF ReadStar
<1>2. /\ status = "matching" /\ p \in Nat \ {0} /\ p \in DOMAIN items
      /\ Len(items) \in Nat /\ DOMAIN items = 1..Len(items)
      /\ Len(name) \in Nat
      /\ n \in 1..Len(name) + 1 /\ n - 1 \in 0..Len(name)
      /\ backtrack \in Seq(Nat \X Nat)
  BY <1>1, WhileReading DEF Places
<1>3. p \in Nat /\ n \in Nat /\ p \in 1..Len(items)
  BY <1>2
\* The star uses up the characters up to b.
<1>4. Rest(items, name, p, n - 1) =>
        \E b \in 0..Len(name) : /\ Piece(items, name, p, n - 1, b, Crossing(items))
                                /\ Rest(items, name, p + 1, b)
  <2> DEFINE a == n - 1
  <2>1. a \in 0..Len(name)
    BY <1>2
  <2> HIDE DEF a
  <2>2. Rest(items, name, p, a) =>
          \E b \in 0..Len(name) : /\ Piece(items, name, p, a, b, Crossing(items))
                                  /\ Rest(items, name, p + 1, b)
    BY <1>2, <1>3, <2>1, RestOfOne, Zenon
  <2> QED BY <2>2, Zenon DEF a
\* It may as well begin after any of them.
<1>5. ASSUME NEW b \in 0..Len(name), NEW j \in 1..Len(name), n <= j, j <= b,
             Piece(items, name, p, n - 1, b, Crossing(items)), Rest(items, name, p + 1, b)
      PROVE  Rest(items, name, p, j)
  <2> DEFINE a == n - 1
  <2>1. a \in 0..Len(name) /\ j \in 0..Len(name) /\ a <= j
    BY <1>2, <1>5
  <2>2. Piece(items, name, p, a, b, Crossing(items))
    BY <1>5, Zenon
  <2> HIDE DEF a
  <2> QED BY <1>1, <1>2, <1>3, <1>5, <2>1, <2>2, StarCutShort, Zenon
<1>6. CASE BeforeAny(p)
  <2>1. n' = n /\ backtrack' = IF AtEnd THEN backtrack ELSE Pushed(backtrack, p, n)
    BY <1>6, Zenon DEF ReadStar
  <2>2. Rests(items, name, backtrack) => Rests(items, name, backtrack')
    BY <1>2, <1>3, <2>1, PushedRests, Zenon
  <2>3. ASSUME Rest(items, name, p, n - 1)
        PROVE  Rest(items, name, p + 1, n - 1) \/ Rests(items, name, backtrack')
    <3>1. PICK b \in 0..Len(name) : /\ Piece(items, name, p, n - 1, b, Crossing(items))
                                    /\ Rest(items, name, p + 1, b)
      BY <1>4, <2>3, Zenon
    <3>2. n - 1 <= b
      BY <1>1, <3>1, Zenon DEF Piece
    <3>3. CASE b = n - 1
      BY <3>1, <3>3, Zenon
    <3>4. CASE b # n - 1
      <4>1. n <= b /\ n \in 1..Len(name) /\ n <= n /\ ~(n > Len(name))
        BY <1>2, <3>2, <3>4
      <4>2. Rest(items, name, p, n)
        BY <1>5, <3>1, <4>1, Zenon
      <4>3. backtrack' = Pushed(backtrack, p, n)
        BY <2>1, <4>1, Zenon DEF AtEnd
      <4> QED BY <1>2, <1>3, <4>2, <4>3, PushedRests, Zenon
    <3> QED BY <3>3, <3>4
  <2> QED BY <1>1, <1>2, <2>1, <2>2, <2>3, StepKeepsReach, Zenon
<1>7. CASE ~BeforeAny(p)
  <2> DEFINE first == IF InSegment(n) THEN Pushed(backtrack, p, n) ELSE backtrack
             m == Skipped
  <2>1. /\ n' = m
        /\ backtrack' = IF InSegment(m) THEN Pushed(first, p, m) ELSE first
    BY <1>7, Zenon DEF ReadStar
  <2>2. m \in n..Len(name) + 1
    BY <1>1, SkippedTyped
  <2>3. \A b \in n - 1..Len(name) : b + 1 < m => ~Rest(items, name, p + 1, b)
    BY <1>1, <1>7, SkipIsSafe, Zenon
  <2> HIDE DEF m
  <2>4. m \in Nat /\ m \in 1..Len(name) + 1
    BY <1>2, <2>2
  <2>5. first \in Seq(Nat \X Nat)
    BY <1>2, <1>3, PushedTyped, Zenon
  <2>6. Rests(items, name, backtrack) => Rests(items, name, first)
    BY <1>2, <1>3, PushedRests, Zenon
  <2> HIDE DEF first
  <2>7. Rests(items, name, backtrack) => Rests(items, name, backtrack')
    BY <1>3, <2>1, <2>4, <2>5, <2>6, PushedRests, Zenon
  <2>8. ASSUME Rest(items, name, p, n - 1)
        PROVE  Rest(items, name, p + 1, m - 1) \/ Rests(items, name, backtrack')
    <3>1. PICK b \in 0..Len(name) : /\ Piece(items, name, p, n - 1, b, Crossing(items))
                                    /\ Rest(items, name, p + 1, b)
      BY <1>4, <2>8, Zenon
    <3>2. /\ n - 1 <= b
          /\ p \in Crossing(items) \/ \A j \in (n - 1) + 1..b : name[j] \notin Separators
      BY <1>1, <3>1, Zenon DEF Piece
    <3>3. p \notin Crossing(items)
      <4>1. p \in 1..Len(items) - 1 => p < Len(items)
        BY <1>2
      <4> QED BY <1>7, <4>1, Zenon DEF BeforeAny, Crossing
    <3>4. b \in n - 1..Len(name)
      BY <1>2, <3>2
    <3>5. ~(b + 1 < m)
      BY <2>3, <3>1, <3>4, Zenon
    <3>6. CASE b + 1 = m
      <4>1. b = m - 1
        BY <3>6
      <4> QED BY <3>1, <4>1, Zenon
    <3>7. CASE b + 1 # m
      <4>1. m <= b /\ n <= m /\ m \in 1..Len(name) /\ m <= Len(name) /\ m \in (n - 1) + 1..b
        BY <1>2, <2>2, <3>4, <3>5, <3>7
      <4>2. InSegment(m)
        BY <3>2, <3>3, <4>1, Zenon DEF InSegment
      <4>3. Rest(items, name, p, m)
        BY <1>5, <3>1, <4>1, Zenon
      <4>4. backtrack' = Pushed(first, p, m)
        BY <2>1, <4>2, Zenon
      <4> QED BY <1>3, <2>4, <2>5, <4>3, <4>4, PushedRests, Zenon
    <3> QED BY <3>6, <3>7
  <2> QED BY <1>1, <1>2, <2>1, <2>7, <2>8, StepKeepsReach, Zenon
<1> QED BY <1>6, <1>7

LEMMA ReadCharCInv == ASSUME IInv, CInv, ReadChar PROVE CInv'
<1>1. /\ Reading /\ items[p].type # "star"
      /\ p' = p + 1 /\ n' = n + 1 /\ UNCHANGED <<search, status, items, backtrack>>
  BY DEF ReadChar
<1>2. /\ status = "matching" /\ p \in Nat \ {0} /\ p \in DOMAIN items
      /\ Len(items) \in Nat /\ DOMAIN items = 1..Len(items)
      /\ Len(name) \in Nat
      /\ n \in 1..Len(name) + 1 /\ n - 1 \in 0..Len(name)
  BY <1>1, WhileReading
<1> DEFINE a == n - 1
<1>3. a \in 0..Len(name) /\ p \in 1..Len(items) /\ a + 1 = n' - 1
  <2>1. p \in 1..Len(items)
    BY <1>2, Zenon
  <2>2. a + 1 = (n + 1) - 1
    BY <1>2
  <2> QED BY <1>1, <1>2, <2>1, <2>2, Zenon
<1>4. Rest(items, name, p, n - 1) => Rest(items, name, p', n' - 1)
  <2>1. SUFFICES ASSUME Rest(items, name, p, a) PROVE Rest(items, name, p', n' - 1)
    BY Zenon
  <2> HIDE DEF a
  <2>2. PICK b \in 0..Len(name) : /\ Piece(items, name, p, a, b, Crossing(items))
                                  /\ Rest(items, name, p + 1, b)
    BY <1>2, <1>3, <2>1, RestOfOne, Zenon
  <2>3. b = a + 1
    BY <1>1, <2>2, Zenon DEF Piece
  <2> QED BY <1>1, <1>3, <2>2, <2>3, Zenon
<1>5. UNCHANGED <<search, status, items>> /\ backtrack' = backtrack
  BY <1>1
<1> QED BY <1>2, <1>4, <1>5, StepKeepsReach, Zenon

LEMMA BacktrackCInv == ASSUME IInv, CInv, Backtrack PROVE CInv'
<1> DEFINE top == backtrack[Len(backtrack)]
<1>1. /\ Stuck /\ backtrack # <<>> /\ status = "matching"
      /\ p' = top[1] /\ n' = top[2] + 1
      /\ backtrack' = SubSeq(backtrack, 1, Len(backtrack) - 1)
      /\ UNCHANGED <<search, status, items>>
  BY DEF Backtrack, Stuck, Reading
<1>2. /\ todo # <<>> /\ Places(items, name, backtrack)
      /\ backtrack \in Seq(Nat \X Nat)
  BY <1>1, Zenon DEF IInv, Matching, Places
<1>3. ~Rest(items, name, p, n - 1)
  BY <1>1, StuckIsLost
<1>4. \A k \in DOMAIN backtrack :
         k = Len(backtrack) \/ (k \in DOMAIN backtrack' /\ backtrack'[k] = backtrack[k])
  BY <1>1, <1>2, Popped, Zenon
<1>5. n' - 1 = top[2]
  <2>1. Len(backtrack) \in DOMAIN backtrack
    BY <1>1, <1>2
  <2>2. top \in Nat \X Nat
    BY <1>2, <2>1, Zenon DEF Places, Place
  <2> HIDE DEF top
  <2>3. top[2] \in Nat
    BY <2>2
  <2> QED BY <1>1, <2>3
<1>6. Rests(items, name, backtrack)
        => Rest(items, name, p', n' - 1) \/ Rests(items, name, backtrack')
  BY <1>1, <1>4, <1>5, Zenon DEF Rests
<1> QED BY <1>1, <1>3, <1>6, StepKeepsReach, Zenon

LEMMA DecideCInv ==
  ASSUME IInv, CInv, status = "matching", NEW matches \in BOOLEAN, Decide(matches),
         Matches(pattern, name) => matches
  PROVE  CInv'
<1>1. /\ found' = IF matches THEN found \cup {name} ELSE found
      /\ todo' = Tail(todo) /\ status' = "next"
      /\ UNCHANGED <<pattern, failed, pass, names, items, p, n, backtrack>>
  BY DEF Decide
<1>2. todo # <<>> /\ todo \in Seq(Seq(Characters))
  BY Zenon DEF IInv, Matching, Typed
<1>3. \A i \in DOMAIN todo : todo[i] = name
                             \/ (i - 1 \in DOMAIN Tail(todo) /\ Tail(todo)[i - 1] = todo[i])
  BY <1>2 DEF name
<1>4. \A s \in Given' : s = name \/ s \in Given
  BY <1>1, <1>3, Zenon DEF Given
<1>5. \A s \in found : s \in found'
  BY <1>1, Zenon
<1>6. matches => name \in found'
  BY <1>1, Zenon
<1>7. NoneLost'
  <2>1. SUFFICES ASSUME ~failed, NEW s \in Given', Matches(pattern, s) PROVE s \in found'
    BY <1>1, Zenon DEF NoneLost
  <2>2. CASE s = name
    BY <1>6, <2>1, <2>2, Zenon
  <2>3. CASE s \in Given
    BY <1>5, <2>1, <2>3, Zenon DEF CInv, NoneLost
  <2> QED BY <1>4, <2>2, <2>3, Zenon
<1> QED BY <1>1, <1>7, "next" # "matching", Zenon DEF CInv, WithinReach

LEMMA RejectCInv == ASSUME IInv, CInv, Reject PROVE CInv'
<1>1. Stuck /\ backtrack = <<>> /\ Decide(FALSE) /\ status = "matching"
  BY Zenon DEF Reject, Stuck, Reading
<1>2. ~Rest(items, name, p, n - 1)
  BY <1>1, StuckIsLost
<1>3. ~Rests(items, name, backtrack)
  <2>1. DOMAIN backtrack = {}
    BY <1>1
  <2> QED BY <2>1, Zenon DEF Rests
<1>4. ~Matches(pattern, name)
  BY <1>1, <1>2, <1>3, Zenon DEF CInv, WithinReach
<1> QED BY <1>1, <1>4, DecideCInv, Zenon

LEMMA NextCInv == IInv /\ CInv /\ [Next]_vars => CInv'
<1> SUFFICES ASSUME IInv, CInv, [Next]_vars PROVE CInv'
  OBVIOUS
<1>1. CASE MatchNext
  BY <1>1, MatchNextCInv
<1>2. CASE IterationFails \/ SearchWider \/ Finish
  BY <1>2, SearchCInv
<1>3. CASE ReadStar
  BY <1>3, ReadStarCInv
<1>4. CASE ReadChar
  BY <1>4, ReadCharCInv
<1>5. CASE Backtrack
  BY <1>5, BacktrackCInv
<1>6. CASE Accept
  <2>1. status = "matching" /\ Decide(TRUE)
    BY <1>6, Zenon DEF Accept
  <2> QED BY <2>1, DecideCInv, Zenon
<1>7. CASE Reject
  BY <1>7, RejectCInv
<1>8. CASE UNCHANGED vars
  <2>1. UNCHANGED <<pattern, todo, found, failed, pass, status, items, p, n, backtrack, names>>
        /\ UNCHANGED name
    BY <1>8 DEF vars, name
  <2> QED BY <2>1, Zenon DEF CInv, WithinReach, NoneLost, Given
<1> QED BY <1>1, <1>2, <1>3, <1>4, <1>5, <1>6, <1>7, <1>8, Zenon DEF Next

(***************************************************************************)
(* find_files returns the names that match its pattern and no others: no   *)
(* skip and no backtrack of matchglob_impl() invents a match or loses one, *)
(* for all patterns and all directories; a search that was cut short by    *)
(* the iterator returns some of them.                                      *)
(***************************************************************************)
THEOREM FoundExactly == Spec => []FoundIsRight
<1>1. Init => IInv /\ CInv
  BY InitIInv, InitCInv
<1>2. (IInv /\ CInv) /\ [Next]_vars => (IInv /\ CInv)'
  BY NextIInv, NextCInv
<1>3. IInv /\ CInv => FoundIsRight
  BY Zenon DEF IInv, CInv, NoneLost, FoundIsRight
<1> QED BY <1>1, <1>2, <1>3, PTL DEF Spec

-----------------------------------------------------------------------------
(* CommandTools: the lines filter_lines() leaves.                           *)

\* The lines that are left when one more has been looked at.
OneLine(left, l, S) == IF l \in S THEN Append(left, l) ELSE left

LEMMA OneLineType ==
  ASSUME NEW left \in Seq(Line), NEW l \in Line, NEW S
  PROVE  OneLine(left, l, S) \in Seq(Line)
BY DEF OneLine

\* What is left after each line.
Selecting(g, lines, S) ==
  /\ g[0] = << >>
  /\ \A k \in 1..Len(lines) : g[k] = OneLine(g[k - 1], lines[k], S)

LEMMA SelectedFolds ==
  ASSUME NEW lines \in Seq(Line), NEW S
  PROVE  \E g \in [0..Len(lines) -> Seq(Line)] :
            Selecting(g, lines, S) /\ Selected(lines, S) = g[Len(lines)]
<1> DEFINE last == Len(lines)
           V == Seq(Line)
           F == [at \in V \X (1..last) |-> OneLine(at[1], lines[at[2]], S)]
           Iter(it) == it = [s \in SUBSET (DOMAIN lines) |->
                               IF s = {} THEN << >>
                               ELSE OneLine(it[s \ {Max(s)}], lines[Max(s)], S)]
           iter == CHOOSE it : Iter(it)
<1>1. Selected(lines, S) = iter[DOMAIN lines]
  BY Zenon DEF Selected, FoldLeft, MapThenFoldSet, OneLine
<1>2. last \in Nat /\ DOMAIN lines = 1..last /\ << >> \in V /\ \A k \in 1..last : lines[k] \in Line
  OBVIOUS
<1>3. \A v \in V, k \in 1..last : OneLine(v, lines[k], S) \in V
  BY <1>2, OneLineType, Zenon
<1>4. /\ F \in [V \X (1..last) -> V]
      /\ \A v \in V, k \in 1..last : F[<<v, k>>] = OneLine(v, lines[k], S)
  <2> HIDE DEF last, V
  <2> QED BY <1>3
<1>5. PICK it \in [SUBSET (1..last) -> V] : Folding(F, << >>, last, it)
  <2> HIDE DEF last, V, F
  <2> QED BY <1>2, <1>4, FoldExists, Zenon
<1> HIDE DEF last, V, F
<1>6. \A s \in SUBSET (1..last) : s # {} => Max(s) \in s
  BY <1>2, GreatestIn, Zenon
<1>7. Iter(it)
  <2>1. ASSUME NEW s \in SUBSET (1..last), s # {}
        PROVE  F[<<it[s \ {Max(s)}], Max(s)>>] = OneLine(it[s \ {Max(s)}], lines[Max(s)], S)
    BY <1>4, <1>6, <2>1, s \ {Max(s)} \in SUBSET (1..last), Zenon
  <2>2. it = [s \in SUBSET (1..last) |-> it[s]]
    OBVIOUS
  <2>3. \A s \in SUBSET (1..last) :
          it[s] = IF s = {} THEN << >> ELSE OneLine(it[s \ {Max(s)}], lines[Max(s)], S)
    BY <1>5, <2>1, Zenon DEF Folding
  <2> QED BY <1>2, <2>2, <2>3, Zenon
<1>8. Iter(iter)
  BY <1>7, Zenon
<1> HIDE DEF iter
<1> DEFINE next == [s \in SUBSET (1..last) |-> OneLine(iter[s \ {Max(s)}], lines[Max(s)], S)]
<1>9. Folded(iter, next, << >>, last)
  BY <1>2, <1>8, Zenon DEF Folded
<1>10. AsGiven(iter, next, F, V, last)
  BY <1>4, <1>6, Zenon DEF AsGiven
<1> HIDE DEF next
<1>11. PICK g \in [0..last -> V] : Values(g, F, << >>, last, iter)
  BY <1>2, <1>4, <1>9, <1>10, FoldSteps, Zenon
<1>12. \A k \in 1..last : g[k] = OneLine(g[k - 1], lines[k], S)
  <2>1. \A k \in 1..last : k - 1 \in 0..last
    BY <1>2
  <2> QED BY <1>4, <1>11, <2>1 DEF Values
<1> QED BY <1>1, <1>2, <1>11, <1>12, Zenon DEF last, V, Values, Selecting

-----------------------------------------------------------------------------
(* What is left of some lines, and which of them it is.                     *)

\* from takes up every line of the text that is in S.
Taken(from, text, result, S) ==
  \A i \in DOMAIN text : text[i] \in S => \E j \in DOMAIN result : from[j] = i

\* The result holds lines of the text, in their order, and all those in S.
Part(result, text, S) ==
  /\ result \in Seq(Line)
  /\ \E from \in [DOMAIN result -> DOMAIN text] :
       Picked(from, text, result) /\ Taken(from, text, result, S)

\* A line more.
LEMMA PartOfMore ==
  ASSUME NEW text \in Seq(Line), NEW k \in 1..Len(text), NEW S, NEW left \in Seq(Line),
         \A i \in DOMAIN left : left[i] \in S,
         Part(left, SubSeq(text, 1, k - 1), S)
  PROVE  /\ Part(OneLine(left, text[k], S), SubSeq(text, 1, k), S)
         /\ \A i \in DOMAIN OneLine(left, text[k], S) : OneLine(left, text[k], S)[i] \in S
<1> DEFINE before == SubSeq(text, 1, k - 1)
           upTo == SubSeq(text, 1, k)
           l == text[k]
           more == OneLine(left, l, S)
           m == Len(left)
<1>1. /\ before \in Seq(Line) /\ Len(before) = k - 1 /\ DOMAIN before = 1..k - 1
      /\ \A i \in 1..k - 1 : before[i] = text[i]
  OBVIOUS
<1>2. /\ upTo \in Seq(Line) /\ Len(upTo) = k /\ DOMAIN upTo = 1..k
      /\ \A i \in 1..k : upTo[i] = text[i]
  OBVIOUS
<1>3. m \in Nat /\ DOMAIN left = 1..m /\ l \in Line /\ k \in Nat \ {0}
  OBVIOUS
<1>4. PICK from \in [DOMAIN left -> DOMAIN before] :
        Picked(from, before, left) /\ Taken(from, before, left, S)
  BY Zenon DEF Part
<1> HIDE DEF before, upTo, l, m
<1>5. \A i \in 1..m : from[i] \in 1..k - 1
  BY <1>1, <1>3, <1>4
<1>6. \A i \in 1..k - 1 : before[i] = upTo[i]
  <2>1. \A i \in 1..k - 1 : i \in 1..k
    BY <1>3
  <2> QED BY <1>1, <1>2, <2>1, Zenon
<1>7. CASE l \in S
  <2> DEFINE longer == [i \in 1..m + 1 |-> IF i = m + 1 THEN k ELSE from[i]]
  <2>1. more = Append(left, l)
    BY <1>7, Zenon DEF OneLine
  <2>2. /\ more \in Seq(Line) /\ DOMAIN more = 1..m + 1 /\ more[m + 1] = l
        /\ \A i \in 1..m : more[i] = left[i]
    BY <1>3, <2>1 DEF m
  <2> HIDE DEF more
  <2>3. longer[m + 1] = k /\ \A i \in 1..m : longer[i] = from[i]
    BY <1>3
  <2>4. longer \in [DOMAIN more -> DOMAIN upTo]
    BY <1>2, <1>3, <1>5, <2>2
  <2> HIDE DEF longer
  <2>5. Picked(longer, upTo, more)
    <3>1. \A i, j \in DOMAIN more : i < j => longer[i] < longer[j]
      <4>1. SUFFICES ASSUME NEW i \in 1..m + 1, NEW j \in 1..m + 1, i < j
                     PROVE  longer[i] < longer[j]
        BY <2>2
      <4>2. i \in 1..m
        BY <1>3, <4>1
      <4>3. CASE j = m + 1
        BY <1>3, <1>5, <2>3, <4>2, <4>3
      <4>4. CASE j # m + 1
        <5>1. j \in 1..m
          BY <1>3, <4>4
        <5> QED BY <1>3, <1>4, <2>3, <4>1, <4>2, <5>1 DEF Picked
      <4> QED BY <4>3, <4>4
    <3>2. \A i \in DOMAIN more : more[i] = upTo[longer[i]]
      <4>1. \A i \in 1..m : more[i] = upTo[longer[i]]
        <5>1. \A i \in 1..m : left[i] = before[from[i]]
          BY <1>3, <1>4 DEF Picked
        <5>2. \A i \in 1..m : before[from[i]] = upTo[from[i]]
          BY <1>5, <1>6, Zenon
        <5> QED BY <2>2, <2>3, <5>1, <5>2, Zenon
      <4>2. more[m + 1] = upTo[longer[m + 1]]
        BY <1>2, <1>3, <2>2, <2>3 DEF l
      <4>3. \A i \in 1..m + 1 : i \in 1..m \/ i = m + 1
        BY <1>3
      <4> QED BY <2>2, <4>1, <4>2, <4>3, Zenon
    <3> QED BY <2>4, <3>1, <3>2, Zenon DEF Picked
  <2>6. Taken(longer, upTo, more, S)
    <3>1. SUFFICES ASSUME NEW i \in DOMAIN upTo, upTo[i] \in S
                   PROVE  \E j \in DOMAIN more : longer[j] = i
      BY Zenon DEF Taken
    <3>2. CASE i = k
      BY <1>3, <2>2, <2>3, <3>2
    <3>3. CASE i # k
      <4>1. i \in 1..k - 1 /\ before[i] \in S
        <5>1. i \in 1..k - 1
          BY <1>2, <1>3, <3>1, <3>3
        <5> QED BY <1>6, <3>1, <5>1
      <4>2. PICK j \in 1..m : from[j] = i
        BY <1>1, <1>3, <1>4, <4>1, Zenon DEF Taken
      <4>3. j \in DOMAIN more /\ longer[j] = i
        BY <1>3, <2>2, <2>3, <4>2
      <4> QED BY <4>3
    <3> QED BY <3>2, <3>3
  <2>7. \A i \in DOMAIN more : more[i] \in S
    <3>1. \A i \in 1..m + 1 : i \in 1..m \/ i = m + 1
      BY <1>3
    <3> QED BY <1>3, <1>7, <2>2, <3>1, Zenon
  <2> QED BY <2>2, <2>4, <2>5, <2>6, <2>7, Zenon DEF Part, more, l, upTo
<1>8. CASE l \notin S
  <2>1. more = left
    BY <1>8, Zenon DEF OneLine
  <2>2. from \in [DOMAIN left -> DOMAIN upTo]
    BY <1>2, <1>3, <1>4, <1>5
  <2>3. Picked(from, upTo, left)
    <3>1. \A i \in DOMAIN left : left[i] = upTo[from[i]]
      <4>1. \A i \in 1..m : left[i] = before[from[i]]
        BY <1>3, <1>4 DEF Picked
      <4>2. \A i \in 1..m : before[from[i]] = upTo[from[i]]
        BY <1>5, <1>6, Zenon
      <4> QED BY <1>3, <4>1, <4>2, Zenon
    <3> QED BY <1>4, <2>2, <3>1, Zenon DEF Picked
  <2>4. Taken(from, upTo, left, S)
    <3>1. \A i \in 1..k : upTo[i] \in S => i \in 1..k - 1 /\ before[i] \in S
      BY <1>1, <1>2, <1>3, <1>8, SMTT(30) DEF l
    <3> QED BY <1>1, <1>2, <1>4, <3>1, Zenon DEF Taken
  <2> HIDE DEF more
  <2> QED BY <2>1, <2>2, <2>3, <2>4, Zenon DEF Part, more, l, upTo
<1> QED BY <1>7, <1>8, Zenon

LEMMA SelectedIsPart ==
  ASSUME NEW text \in Seq(Line), NEW S
  PROVE  /\ Selected(text, S) \in Seq(Line)
         /\ \A i \in DOMAIN Selected(text, S) : Selected(text, S)[i] \in S
         /\ Part(Selected(text, S), text, S)
<1> DEFINE last == Len(text)
<1>1. last \in Nat /\ DOMAIN text = 1..last
  OBVIOUS
<1>2. PICK g \in [0..last -> Seq(Line)] : Selecting(g, text, S) /\ Selected(text, S) = g[last]
  BY SelectedFolds, Zenon
<1> DEFINE A == {k \in 0..last : /\ \A i \in DOMAIN g[k] : g[k][i] \in S
                              /\ Part(g[k], SubSeq(text, 1, k), S)}
<1>3. 0 \in A
  <2>1. g[0] = << >> /\ 0 \in 0..last
    BY <1>1, <1>2 DEF Selecting
  <2>2. SubSeq(text, 1, 0) = << >>
    OBVIOUS
  <2>3. Part(<< >>, << >>, S)
    <3>1. << >> \in [DOMAIN << >> -> DOMAIN << >>]
      OBVIOUS
    <3>2. Picked(<< >>, << >>, << >>) /\ Taken(<< >>, << >>, << >>, S)
      BY DEF Picked, Taken
    <3> QED BY <3>1, <3>2 DEF Part
  <2>4. \A i \in DOMAIN << >> : << >>[i] \in S
    OBVIOUS
  <2> QED BY <2>1, <2>2, <2>3, <2>4, Zenon
<1>4. ASSUME NEW k \in 0..last - 1, k \in A PROVE k + 1 \in A
  <2>1. k + 1 \in 1..last /\ (k + 1) - 1 = k /\ k \in 0..last /\ k + 1 \in 0..last
    BY <1>1
  <2>2. g[k + 1] = OneLine(g[k], text[k + 1], S)
    BY <1>2, <2>1 DEF Selecting
  <2>3. g[k] \in Seq(Line)
    BY <1>2, <2>1
  <2>4. /\ \A i \in DOMAIN g[k] : g[k][i] \in S
        /\ Part(g[k], SubSeq(text, 1, (k + 1) - 1), S)
    BY <1>4, <2>1, Zenon
  <2> HIDE DEF last
  <2>5. /\ Part(OneLine(g[k], text[k + 1], S), SubSeq(text, 1, k + 1), S)
        /\ \A i \in DOMAIN OneLine(g[k], text[k + 1], S) : OneLine(g[k], text[k + 1], S)[i] \in S
    <3>1. k + 1 \in 1..Len(text)
      BY <2>1 DEF last
    <3> QED BY <2>3, <2>4, <3>1, PartOfMore, Zenon
  <2> QED BY <2>1, <2>2, <2>5, Zenon
<1>5. last \in A
  <2> HIDE DEF A, last
  <2>1. last \in 0..last
    BY <1>1
  <2> QED BY <1>1, <1>3, <1>4, <2>1, UpTo, Zenon
<1>6. SubSeq(text, 1, last) = text
  OBVIOUS
<1> HIDE DEF last
<1>7. Selected(text, S) \in Seq(Line)
  BY <1>1, <1>2
<1> QED BY <1>2, <1>5, <1>6, <1>7, Zenon

LEMMA PartOfItself ==
  ASSUME NEW text \in Seq(Line), NEW S
  PROVE  Part(text, text, S)
<1> DEFINE from == [i \in DOMAIN text |-> i]
<1>1. from \in [DOMAIN text -> DOMAIN text] /\ \A i \in DOMAIN text : from[i] = i
  OBVIOUS
<1> HIDE DEF from
<1>2. Picked(from, text, text) /\ Taken(from, text, text, S)
  BY <1>1, Zenon DEF Picked, Taken
<1> QED BY <1>1, <1>2, Zenon DEF Part

\* Some lines in a row.
LEMMA PartInARow ==
  ASSUME NEW text \in Seq(Line), NEW a \in 0..Len(text), NEW b \in a..Len(text)
  PROVE  Part(SubSeq(text, a + 1, b), text, {}) /\ Len(SubSeq(text, a + 1, b)) = b - a
<1> DEFINE cut == SubSeq(text, a + 1, b)
           from == [i \in 1..b - a |-> a + i]
<1>1. /\ cut \in Seq(Line) /\ Len(cut) = b - a /\ DOMAIN cut = 1..b - a
      /\ \A i \in 1..b - a : cut[i] = text[a + i]
  OBVIOUS
<1>2. /\ from \in [1..b - a -> DOMAIN text]
      /\ \A i \in 1..b - a : from[i] = a + i
  OBVIOUS
<1>3. \A i, j \in 1..b - a : i < j => a + i < a + j
  OBVIOUS
<1> HIDE DEF from, cut
<1>4. Picked(from, text, cut)
  <2>1. \A i, j \in DOMAIN cut : i < j => from[i] < from[j]
    BY <1>1, <1>2, <1>3
  <2>2. \A i \in DOMAIN cut : cut[i] = text[from[i]]
    BY <1>1, <1>2
  <2> QED BY <1>1, <1>2, <2>1, <2>2, Zenon DEF Picked
<1>5. Taken(from, text, cut, {})
  BY DEF Taken
<1> QED BY <1>1, <1>2, <1>4, <1>5, Zenon DEF Part, cut

\* A part of a part is a part, and takes what both take.
LEMMA PartOfPart ==
  ASSUME NEW text \in Seq(Line), NEW middle, NEW result, NEW S, NEW R,
         Part(middle, text, S), Part(result, middle, R)
  PROVE  Part(result, text, S \cap R)
<1>1. PICK f \in [DOMAIN middle -> DOMAIN text] :
        Picked(f, text, middle) /\ Taken(f, text, middle, S)
  BY Zenon DEF Part
<1>2. PICK g \in [DOMAIN result -> DOMAIN middle] :
        Picked(g, middle, result) /\ Taken(g, middle, result, R)
  BY Zenon DEF Part
<1> DEFINE h == [i \in DOMAIN result |-> f[g[i]]]
<1>3. h \in [DOMAIN result -> DOMAIN text] /\ \A i \in DOMAIN result : h[i] = f[g[i]]
  BY <1>1, <1>2
<1> HIDE DEF h
<1>4. \A i \in DOMAIN result : g[i] \in DOMAIN middle
  BY <1>2
<1>5. Picked(h, text, result)
  BY <1>1, <1>2, <1>3, <1>4, ZenonT(30) DEF Picked
<1>6. Taken(h, text, result, S \cap R)
  <2>1. SUFFICES ASSUME NEW i \in DOMAIN text, text[i] \in S \cap R
                 PROVE  \E j \in DOMAIN result : h[j] = i
    BY Zenon DEF Taken
  <2>2. PICK k \in DOMAIN middle : f[k] = i
    BY <1>1, <2>1, Zenon DEF Taken
  <2>3. middle[k] \in R
    BY <1>1, <2>1, <2>2, Zenon DEF Picked
  <2>4. PICK j \in DOMAIN result : g[j] = k
    BY <1>2, <2>3, Zenon DEF Taken
  <2> QED BY <1>3, <2>2, <2>4, Zenon
<1>7. result \in Seq(Line)
  BY Zenon DEF Part
<1> QED BY <1>3, <1>5, <1>6, <1>7, Zenon DEF Part

\* A part is no longer than what it is a part of, and says nothing else.
LEMMA PartIsShorter ==
  ASSUME NEW text \in Seq(Line), NEW result, NEW S, Part(result, text, S)
  PROVE  /\ Len(result) <= Len(text)
         /\ \A i \in DOMAIN result : \E j \in DOMAIN text : result[i] = text[j]
<1> DEFINE last == Len(text)
           m == Len(result)
<1>1. /\ last \in Nat /\ DOMAIN text = 1..last
      /\ result \in Seq(Line) /\ m \in Nat /\ DOMAIN result = 1..m
  BY DEF Part
<1>2. PICK from \in [DOMAIN result -> DOMAIN text] : Picked(from, text, result)
  BY Zenon DEF Part
<1> HIDE DEF last, m
<1>3. \A i \in 1..m : from[i] \in 1..last
  BY <1>1, <1>2
<1> DEFINE A == {i \in 0..m : i = 0 \/ i <= from[i]}
<1>4. 0 \in A
  BY <1>1
<1>5. ASSUME NEW i \in 0..m - 1, i \in A PROVE i + 1 \in A
  <2>1. i + 1 \in 1..m /\ i + 1 \in 0..m /\ from[i + 1] \in 1..last
    BY <1>1, <1>3
  <2>2. CASE i = 0
    BY <1>1, <2>1, <2>2
  <2>3. CASE i # 0
    <3>1. i \in 1..m /\ i < i + 1
      BY <1>1, <2>3
    <3>2. from[i] < from[i + 1] /\ from[i] \in 1..last
      BY <1>1, <1>2, <1>3, <2>1, <3>1, Zenon DEF Picked
    <3>3. i <= from[i]
      BY <1>5, <2>3
    <3> QED BY <1>1, <2>1, <3>2, <3>3
  <2> QED BY <2>2, <2>3
<1>6. m \in A
  <2> HIDE DEF A
  <2>1. m \in 0..m
    BY <1>1
  <2> QED BY <1>1, <1>4, <1>5, <2>1, UpTo, Zenon
<1>7. m <= last
  BY <1>1, <1>3, <1>6
<1>8. \A i \in DOMAIN result : \E j \in DOMAIN text : result[i] = text[j]
  BY <1>2, Zenon DEF Picked
<1> QED BY <1>7, <1>8 DEF last, m

-----------------------------------------------------------------------------
(* What one filter leaves, and what all of them leave.                      *)

\* The lines a filter lets pass, as long as it does not count them.
Passing(filter) == {l \in Line : Lets(filter, l) /\ ~Counts(filter)}

LEMMA KeptPatterns ==
  ASSUME NEW lines \in Seq(Line), NEW filter \in Filter, HasPattern(filter)
  PROVE  /\ Part(Kept(lines, filter), lines, Passing(filter))
         /\ \A i \in DOMAIN Kept(lines, filter) : Lets(filter, Kept(lines, filter)[i])
<1>1. ~Counts(filter)
  BY DEF Counts
<1>2. CASE filter.by = "exclude"
  <2>1. Kept(lines, filter) = Selected(lines, Line \ filter.lines)
    BY <1>2 DEF Kept
  <2>2. Passing(filter) = Line \ filter.lines
    BY <1>1, <1>2 DEF Passing, Lets
  <2>3. \A i \in DOMAIN Kept(lines, filter) : Kept(lines, filter)[i] \in Line \ filter.lines
    BY <2>1, SelectedIsPart, Zenon
  <2>4. \A l : l \in Line \ filter.lines => Lets(filter, l)
    BY <1>2 DEF Lets
  <2> QED BY <2>1, <2>2, <2>3, <2>4, SelectedIsPart, Zenon
<1>3. CASE filter.by = "include"
  <2>1. Kept(lines, filter) = Selected(lines, filter.lines)
    BY <1>3 DEF Kept
  <2>2. Passing(filter) \subseteq filter.lines
    BY <1>3 DEF Passing, Lets
  <2>3. \A l : l \in filter.lines => Lets(filter, l)
    BY <1>3 DEF Lets
  <2>4. /\ \A i \in DOMAIN Kept(lines, filter) : Kept(lines, filter)[i] \in filter.lines
        /\ Part(Kept(lines, filter), lines, filter.lines)
    BY <2>1, SelectedIsPart, Zenon
  <2>5. Part(Kept(lines, filter), lines, Passing(filter))
    BY <2>2, <2>4, Zenon DEF Part, Taken
  <2> QED BY <2>3, <2>4, <2>5, Zenon
<1> QED BY <1>2, <1>3 DEF HasPattern

LEMMA KeptCounts ==
  ASSUME NEW lines \in Seq(Line), NEW filter \in Filter, ~HasPattern(filter)
  PROVE  /\ Part(Kept(lines, filter), lines, Passing(filter))
         /\ \A l : Lets(filter, l)
         /\ Counts(filter) => Len(Kept(lines, filter)) <= filter.count
<1> DEFINE c == filter.count
           last == Len(lines)
<1>1. filter.by \in {"head", "tail"} /\ c \in Int /\ last \in Nat
  BY DEF HasPattern, Filter
<1>2. \A l : Lets(filter, l)
  BY <1>1 DEF Lets
<1>3. CASE c \in 0..last - 1
  <2>1. Passing(filter) = {}
    BY <1>1, <1>3 DEF Passing, Counts
  <2>2. Part(Kept(lines, filter), lines, {}) /\ Len(Kept(lines, filter)) = c
    <3>1. CASE filter.by = "head"
      <4>1. Kept(lines, filter) = SubSeq(lines, 1, c)
        BY <1>3, <3>1 DEF Kept
      <4>2. c \in 0..last /\ 0 \in 0..last /\ 0 + 1 = 1 /\ c - 0 = c
        BY <1>1, <1>3
      <4>3. Part(SubSeq(lines, 0 + 1, c), lines, {}) /\ Len(SubSeq(lines, 0 + 1, c)) = c - 0
        BY <4>2, PartInARow
      <4> QED BY <4>1, <4>2, <4>3
    <3>2. CASE filter.by = "tail"
      <4>1. Kept(lines, filter) = SubSeq(lines, last - c + 1, last)
        BY <1>3, <3>2 DEF Kept
      <4>2. last - c \in 0..last /\ last \in last - c..last /\ last - (last - c) = c
        BY <1>1, <1>3
      <4>3. /\ Part(SubSeq(lines, (last - c) + 1, last), lines, {})
            /\ Len(SubSeq(lines, (last - c) + 1, last)) = last - (last - c)
        BY <4>2, PartInARow
      <4> QED BY <4>1, <4>2, <4>3
    <3> QED BY <1>1, <3>1, <3>2
  <2>3. Part(Kept(lines, filter), lines, Passing(filter))
    BY <2>1, <2>2, Zenon
  <2> QED BY <1>1, <1>2, <2>2, <2>3
<1>4. CASE c \notin 0..last - 1
  <2>1. Kept(lines, filter) = lines
    BY <1>1, <1>4 DEF Kept
  <2>2. Counts(filter) => last <= c
    BY <1>1, <1>4 DEF Counts
  <2>3. Part(Kept(lines, filter), lines, Passing(filter))
    BY <2>1, PartOfItself, Zenon
  <2> QED BY <1>2, <2>1, <2>2, <2>3
<1> QED BY <1>3, <1>4

\* What is left after each filter.
Filtering(g, text, filters) ==
  /\ g[0] = text
  /\ \A k \in 1..Len(filters) : g[k] = Kept(g[k - 1], filters[k])

LEMMA KeptType ==
  ASSUME NEW lines \in Seq(Line), NEW filter \in Filter
  PROVE  Kept(lines, filter) \in Seq(Line)
BY KeptPatterns, KeptCounts, Zenon DEF Part

LEMMA FiltersFold ==
  ASSUME NEW text \in Seq(Line), NEW filters \in Seq(Filter)
  PROVE  \E g \in [0..Len(filters) -> Seq(Line)] :
            Filtering(g, text, filters) /\ FilterLines(text, filters) = g[Len(filters)]
<1> DEFINE last == Len(filters)
           V == Seq(Line)
           F == [at \in V \X (1..last) |-> Kept(at[1], filters[at[2]])]
           Iter(it) == it = [s \in SUBSET (DOMAIN filters) |->
                               IF s = {} THEN text
                               ELSE Kept(it[s \ {Max(s)}], filters[Max(s)])]
           iter == CHOOSE it : Iter(it)
<1>1. FilterLines(text, filters) = iter[DOMAIN filters]
  BY Zenon DEF FilterLines, FoldLeft, MapThenFoldSet
<1>2. /\ last \in Nat /\ DOMAIN filters = 1..last /\ text \in V
      /\ \A k \in 1..last : filters[k] \in Filter
  OBVIOUS
<1>3. \A v \in V, k \in 1..last : Kept(v, filters[k]) \in V
  BY <1>2, KeptType, Zenon
<1>4. F \in [V \X (1..last) -> V] /\ \A v \in V, k \in 1..last : F[<<v, k>>] = Kept(v, filters[k])
  <2> HIDE DEF last, V
  <2> QED BY <1>3
<1>5. PICK it \in [SUBSET (1..last) -> V] : Folding(F, text, last, it)
  <2> HIDE DEF last, V, F
  <2> QED BY <1>2, <1>4, FoldExists, Zenon
<1> HIDE DEF last, V, F
<1>6. \A s \in SUBSET (1..last) : s # {} => Max(s) \in s
  BY <1>2, GreatestIn, Zenon
<1>7. Iter(it)
  <2>1. ASSUME NEW s \in SUBSET (1..last), s # {}
        PROVE  F[<<it[s \ {Max(s)}], Max(s)>>] = Kept(it[s \ {Max(s)}], filters[Max(s)])
    BY <1>4, <1>6, <2>1, s \ {Max(s)} \in SUBSET (1..last), Zenon
  <2>2. it = [s \in SUBSET (1..last) |-> it[s]]
    OBVIOUS
  <2>3. \A s \in SUBSET (1..last) :
          it[s] = IF s = {} THEN text ELSE Kept(it[s \ {Max(s)}], filters[Max(s)])
    BY <1>5, <2>1, Zenon DEF Folding
  <2> QED BY <1>2, <2>2, <2>3, Zenon
<1>8. Iter(iter)
  BY <1>7, Zenon
<1> HIDE DEF iter
<1> DEFINE next == [s \in SUBSET (1..last) |-> Kept(iter[s \ {Max(s)}], filters[Max(s)])]
<1>9. Folded(iter, next, text, last)
  BY <1>2, <1>8, Zenon DEF Folded
<1>10. AsGiven(iter, next, F, V, last)
  BY <1>4, <1>6, Zenon DEF AsGiven
<1> HIDE DEF next
<1>11. PICK g \in [0..last -> V] : Values(g, F, text, last, iter)
  BY <1>2, <1>4, <1>9, <1>10, FoldSteps, Zenon
<1>12. \A k \in 1..last : g[k] = Kept(g[k - 1], filters[k])
  <2>1. \A k \in 1..last : k - 1 \in 0..last
    BY <1>2
  <2> QED BY <1>4, <1>11, <2>1 DEF Values
<1> QED BY <1>1, <1>2, <1>11, <1>12, Zenon DEF last, V, Values, Filtering

\* What the first k filters promise.
Through(filters, k) == {l \in Line : \A h \in 1..k : Lets(filters[h], l) /\ ~Counts(filters[h])}

SoFar(text, filters, k, left) ==
  /\ Part(left, text, Through(filters, k))
  /\ \A i \in DOMAIN left : \A h \in 1..k : Lets(filters[h], left[i])
  /\ \A h \in 1..k : Counts(filters[h]) => Len(left) <= filters[h].count

LEMMA SoFarOfMore ==
  ASSUME NEW text \in Seq(Line), NEW filters \in Seq(Filter), NEW k \in 1..Len(filters),
         NEW left \in Seq(Line), SoFar(text, filters, k - 1, left)
  PROVE  SoFar(text, filters, k, Kept(left, filters[k]))
<1> DEFINE filter == filters[k]
           result == Kept(left, filter)
<1>1. filter \in Filter /\ \A h \in 1..k : h \in 1..k - 1 \/ h = k
  OBVIOUS
<1>2. \A h \in 1..k : filters[h] \in Filter
  OBVIOUS
<1> HIDE DEF filter, result
<1>3. /\ Part(result, left, Passing(filter))
      /\ \A i \in DOMAIN result : Lets(filter, result[i])
      /\ Counts(filter) => Len(result) <= filter.count
  <2>1. CASE HasPattern(filter)
    <3>1. ~Counts(filter)
      BY <2>1 DEF Counts
    <3> QED BY <1>1, <2>1, <3>1, KeptPatterns, Zenon DEF result
  <2>2. CASE ~HasPattern(filter)
    BY <1>1, <2>2, KeptCounts, Zenon DEF result
  <2> QED BY <2>1, <2>2
<1>4. /\ Len(result) <= Len(left) /\ Len(result) \in Nat /\ Len(left) \in Nat
      /\ \A i \in DOMAIN result : \E j \in DOMAIN left : result[i] = left[j]
  <2>1. result \in Seq(Line)
    BY <1>3 DEF Part
  <2> QED BY <1>3, <2>1, PartIsShorter
<1>5. Part(result, text, Through(filters, k - 1) \cap Passing(filter))
  BY <1>3, PartOfPart, Zenon DEF SoFar
<1>6. Through(filters, k) \subseteq Through(filters, k - 1) \cap Passing(filter)
  <2>1. \A h \in 1..k - 1 : h \in 1..k
    OBVIOUS
  <2>2. k \in 1..k
    OBVIOUS
  <2> QED BY <2>1, <2>2, Zenon DEF Through, Passing, filter
<1>7. Part(result, text, Through(filters, k))
  BY <1>5, <1>6, Zenon DEF Part, Taken
<1>8. \A i \in DOMAIN result : \A h \in 1..k : Lets(filters[h], result[i])
  <2>1. \A i \in DOMAIN left : \A h \in 1..k - 1 : Lets(filters[h], left[i])
    BY DEF SoFar
  <2> QED BY <1>1, <1>3, <1>4, <2>1, Zenon DEF filter
<1>9. ASSUME NEW h \in 1..k, Counts(filters[h]) PROVE Len(result) <= filters[h].count
  <2>1. CASE h = k
    BY <1>3, <1>9, <2>1 DEF filter
  <2>2. CASE h \in 1..k - 1
    <3>1. Len(left) <= filters[h].count
      BY <1>9, <2>2 DEF SoFar
    <3>2. filters[h].count \in Int
      BY <1>2, <1>9 DEF Filter, Counts, HasPattern
    <3> QED BY <1>4, <3>1, <3>2
  <2> QED BY <1>1, <2>1, <2>2
<1> QED BY <1>7, <1>8, <1>9, Zenon DEF SoFar, result, filter

(***************************************************************************)
(* filter_lines() keeps what the filters promise, whatever the text and    *)
(* whatever the filters and their order.                                   *)
(***************************************************************************)
LEMMA FiltersKeepPromise ==
  ASSUME NEW text \in Seq(Line), NEW filters \in Seq(Filter)
  PROVE  Promised(text, filters, FilterLines(text, filters))
<1> DEFINE last == Len(filters)
           result == FilterLines(text, filters)
<1>1. last \in Nat /\ DOMAIN filters = 1..last /\ last \in 0..last
  OBVIOUS
<1>2. PICK g \in [0..last -> Seq(Line)] : Filtering(g, text, filters) /\ result = g[last]
  BY FiltersFold, Zenon
<1> DEFINE A == {k \in 0..last : SoFar(text, filters, k, g[k])}
<1>3. 0 \in A
  <2>1. g[0] = text /\ 0 \in 0..last /\ 1..0 = {}
    BY <1>1, <1>2 DEF Filtering
  <2>2. SoFar(text, filters, 0, text)
    BY <2>1, PartOfItself, Zenon DEF SoFar
  <2> QED BY <2>1, <2>2, Zenon
<1>4. ASSUME NEW k \in 0..last - 1, k \in A PROVE k + 1 \in A
  <2>1. k + 1 \in 1..last /\ (k + 1) - 1 = k /\ k \in 0..last /\ k + 1 \in 0..last
    BY <1>1
  <2>2. g[k + 1] = Kept(g[k], filters[k + 1]) /\ g[k] \in Seq(Line)
    BY <1>2, <2>1 DEF Filtering
  <2>3. SoFar(text, filters, (k + 1) - 1, g[k])
    BY <1>4, <2>1, Zenon
  <2>4. SoFar(text, filters, k + 1, Kept(g[k], filters[k + 1]))
    BY <2>1, <2>2, <2>3, SoFarOfMore, Zenon
  <2> QED BY <2>1, <2>2, <2>4, Zenon
<1>5. last \in A
  <2> HIDE DEF A, last
  <2> QED BY <1>1, <1>3, <1>4, UpTo, Zenon
<1>6. SoFar(text, filters, last, result)
  BY <1>2, <1>5, Zenon
<1> HIDE DEF last, result
<1>7. PICK from \in [DOMAIN result -> DOMAIN text] :
        Picked(from, text, result) /\ Taken(from, text, result, Through(filters, last))
  BY <1>6, Zenon DEF SoFar, Part
<1>8. \A i \in DOMAIN text : text[i] \in Line
  OBVIOUS
<1> DEFINE counts == {k \in DOMAIN filters : Counts(filters[k])}
<1>9. ASSUME counts = {}, NEW i \in DOMAIN text, \A k \in DOMAIN filters : Lets(filters[k], text[i])
      PROVE  \E j \in DOMAIN result : from[j] = i
  <2>1. text[i] \in Through(filters, last)
    BY <1>1, <1>8, <1>9, Zenon DEF Through
  <2> QED BY <1>7, <2>1, Zenon DEF Taken
<1> QED BY <1>1, <1>6, <1>7, <1>9, Zenon DEF Promised, SoFar, result

-----------------------------------------------------------------------------
(* The inductive invariant.                                                 *)

\* Nothing is started before there is a yes, and no answer is there before
\* the call has ended.
Before ==
  phase \in {"idle", "asking", "menu"} => started = 0 /\ child.status = "none" /\ said = "nothing"

Asking == phase = "asking" => request.tool \in registered \cap Commands

Running == phase = "running" => started = 1

Unanswered == phase # "answered" => answer.kind = "none"

\* What a started process was started for.
Allowed ==
  /\ started \in {0, 1}
  /\ started = 1 =>
       /\ request.tool \in registered \cap Commands
       /\ request.confirm => said = "yes" \/ (said = "nothing" /\ defaultYes)

\* A call that started nothing has no result.
Refused ==
  answer.kind \in {"invalid", "not found", "cancelled", "selected", "no terminal"}
    => started = 0

\* The library kills a child for its timeout only, and the clock does not go back.
Killed ==
  child.status = "killed" =>
    child.code # 0 /\ request.timeout # Infinite /\ elapsed >= request.timeout

Verdict == answer.kind = "result" => (answer.timedOut <=> TimedOut)

\* What the child wrote is what came out, less what the filters took away.
Written == child.out \in Seq(Line) /\ child.err \in Seq(Line)

Filtered ==
  answer.kind = "result" =>
    /\ answer.out = FilterLines(child.out, request.filters)
    /\ answer.err = FilterLines(child.err, request.filters)

Output == Written /\ Filtered

CommandIInv ==
  /\ CommandTypeOK /\ elapsed \in Nat
  /\ Before /\ Asking /\ Running /\ Unanswered
  /\ Allowed /\ Refused /\ Killed /\ Verdict /\ Output

LEMMA InitCommandIInv == CommandInit => CommandIInv
<1> SUFFICES ASSUME CommandInit PROVE CommandIInv
  OBVIOUS
<1> USE DEF CommandInit, NoCall, NoLine, NoChild, Replied
<1>1. registered \subseteq Tools
  BY DEF Enabled, Tools, Commands, Shells
<1>2. CommandTypeOK /\ elapsed \in Nat
  BY <1>1, BoundsAssumption DEF CommandTypeOK, Infinite
<1>3. Before /\ Asking /\ Running /\ Unanswered
  BY DEF Before, Asking, Running, Unanswered
<1>4. Allowed /\ Refused /\ Killed
  BY DEF Allowed, Refused, Killed
<1>5. Verdict
  BY DEF Verdict
<1>6. Output
  BY DEF Output, Written, Filtered
<1> QED BY <1>2, <1>3, <1>4, <1>5, <1>6 DEF CommandIInv

\* A step after which nothing has been started, as far as what it did goes.
LEMMA NothingStarted ==
  ASSUME started' = 0, child'.status = "none"
  PROVE  Allowed' /\ Refused' /\ Killed'
<1>1. started' # 1 /\ started' \in {0, 1}
  OBVIOUS
<1>2. child'.status # "killed"
  OBVIOUS
<1> QED BY <1>1, <1>2, Zenon DEF Allowed, Refused, Killed

LEMMA RefusedCallIInv ==
  ASSUME CommandIInv, NEW tool \in Tools \cup {"unknown"}, NEW kind \in {"invalid", "not found"},
         CallRefused(tool, kind)
  PROVE  CommandIInv'
<1>1. /\ phase = "idle" /\ phase' = "answered"
      /\ request' = [tool |-> tool, confirm |-> FALSE, timeout |-> Infinite, filters |-> <<>>]
      /\ answer' = Replied(kind)
      /\ UNCHANGED <<flag, registered, tty, typed, child, elapsed, started, said>>
  BY DEF CallRefused, Begin, Return, fixed, terminal, process
<1>2. CommandTypeOK' /\ elapsed' \in Nat
  BY <1>1 DEF CommandIInv, CommandTypeOK, Replied
<1>3. Before' /\ Asking' /\ Running' /\ Unanswered'
  BY <1>1 DEF Before, Asking, Running, Unanswered
<1>4. Allowed' /\ Refused' /\ Killed'
  <2>1. started' = 0 /\ child'.status = "none"
    BY <1>1 DEF CommandIInv, Before
  <2> QED BY <2>1, NothingStarted
<1>5. Verdict'
  BY <1>1 DEF Verdict, Replied
<1>6. Output'
  BY <1>1 DEF CommandIInv, Output, Written, Filtered, Replied
<1> QED BY <1>2, <1>3, <1>4, <1>5, <1>6 DEF CommandIInv

-----------------------------------------------------------------------------
(* Calls.                                                                   *)

LEMMA StartedCommand ==
  ASSUME Start
  PROVE  /\ phase' = "running" /\ started' = started + 1 /\ elapsed' = 0
         /\ child' = [status |-> "running", code |-> 0, out |-> <<>>, err |-> <<>>]
BY DEF Start, NoChild

LEMMA CallCommandIInv ==
  ASSUME CommandIInv, NEW tool \in Commands, NEW confirm \in BOOLEAN,
         NEW timeout \in Timeouts \cup {Infinite}, NEW filters \in Filters,
         CallCommand(tool, confirm, timeout, filters)
  PROVE  CommandIInv'
<1>1. /\ phase = "idle" /\ tool \in registered \cap Commands
      /\ request' = [tool |-> tool, confirm |-> confirm, timeout |-> timeout, filters |-> filters]
      /\ UNCHANGED <<flag, registered, tty, typed, said, answer>>
  BY DEF CallCommand, Begin, fixed, terminal
<1>2. started = 0 /\ child.status = "none" /\ said = "nothing" /\ answer.kind = "none"
  BY <1>1 DEF CommandIInv, Before, Unanswered
<1>3. request'.tool = tool /\ (request'.confirm <=> confirm)
  BY <1>1, Zenon
<1>4. CASE confirm
  <2>1. phase' = "asking" /\ UNCHANGED <<child, elapsed, started>>
    BY <1>4 DEF CallCommand, process
  <2>2. CommandTypeOK' /\ elapsed' \in Nat
    BY <1>1, <2>1 DEF CommandIInv, CommandTypeOK, Tools
  <2>3. Before' /\ Asking' /\ Running' /\ Unanswered'
    BY <1>1, <1>2, <1>3, <2>1 DEF Before, Asking, Running, Unanswered
  <2>4. Allowed' /\ Refused' /\ Killed' /\ Verdict'
    BY <1>1, <1>2, <2>1 DEF Allowed, Refused, Killed, Verdict
  <2>5. Output'
    BY <1>1, <1>2, <2>1 DEF CommandIInv, Output, Written, Filtered
  <2> QED BY <2>2, <2>3, <2>4, <2>5 DEF CommandIInv
<1>5. CASE ~confirm
  <2>1. Start
    BY <1>5 DEF CallCommand
  <2>2. /\ phase' = "running" /\ started' = 1 /\ elapsed' = 0
        /\ child' = [status |-> "running", code |-> 0, out |-> <<>>, err |-> <<>>]
    BY <1>2, <2>1, StartedCommand
  <2>3. CommandTypeOK' /\ elapsed' \in Nat
    BY <1>1, <2>2, BoundsAssumption DEF CommandIInv, CommandTypeOK, Tools
  <2>4. Before' /\ Asking' /\ Running' /\ Unanswered'
    BY <1>1, <1>2, <2>2 DEF Before, Asking, Running, Unanswered
  <2>5. Allowed'
    <3>1. request'.tool \in registered' \cap Commands /\ ~request'.confirm
      BY <1>1, <1>3, <1>5, Zenon
    <3> QED BY <2>2, <3>1, Zenon DEF Allowed
  <2>6. Refused' /\ Killed' /\ Verdict'
    BY <1>1, <1>2, <2>2 DEF Refused, Killed, Verdict
  <2>7. Output'
    BY <1>1, <1>2, <2>2 DEF Output, Written, Filtered
  <2> QED BY <2>3, <2>4, <2>5, <2>6, <2>7 DEF CommandIInv
<1> QED BY <1>4, <1>5

LEMMA CallAskUserIInv == ASSUME CommandIInv, CallAskUser PROVE CommandIInv'
<1>1. /\ phase = "idle"
      /\ request' = [tool |-> "ask_user", confirm |-> FALSE, timeout |-> Infinite,
                     filters |-> <<>>]
      /\ UNCHANGED <<flag, registered, tty, typed, child, elapsed, started, said>>
      /\ \/ phase' = "answered" /\ answer' = Replied("no terminal")
         \/ phase' = "menu" /\ UNCHANGED answer
  BY DEF CallAskUser, Begin, Return, fixed, terminal, process
<1>2. started' = 0 /\ child'.status = "none" /\ said' = "nothing" /\ answer.kind = "none"
  BY <1>1 DEF CommandIInv, Before, Unanswered
<1>3. \/ phase' = "answered" /\ answer'.kind = "no terminal"
      \/ phase' = "menu" /\ answer'.kind = "none"
  <2>1. Replied("no terminal").kind = "no terminal"
    BY DEF Replied
  <2> QED BY <1>1, <1>2, <2>1, Zenon
<1>4. CommandTypeOK' /\ elapsed' \in Nat
  BY <1>1, <1>3 DEF CommandIInv, CommandTypeOK, Tools
<1>5. Before' /\ Asking' /\ Running' /\ Unanswered'
  BY <1>2, <1>3 DEF Before, Asking, Running, Unanswered
<1>6. Allowed' /\ Refused' /\ Killed'
  BY <1>2, NothingStarted, Zenon
<1>7. Verdict'
  BY <1>3 DEF Verdict
<1>8. Output'
  BY <1>1, <1>3 DEF CommandIInv, Output, Written, Filtered
<1> QED BY <1>4, <1>5, <1>6, <1>7, <1>8 DEF CommandIInv

-----------------------------------------------------------------------------
(* The terminal.                                                            *)

LEMMA TerminalIInv ==
  ASSUME CommandIInv, tty' \in {"none", "open", "ended"}, typed' \in Typable \cup {NoLine},
         UNCHANGED <<flag, registered, request, phase, child, elapsed, answer, started, said>>
  PROVE  CommandIInv'
<1>1. CommandTypeOK' /\ elapsed' \in Nat
  BY DEF CommandIInv, CommandTypeOK
<1>2. Output'
  BY Zenon DEF CommandIInv, Output, Written, Filtered
<1> QED BY <1>1, <1>2, Zenon DEF CommandIInv, Before, Asking, Running, Unanswered, Allowed, defaultYes, Refused,
                            Killed, Verdict, TimedOut

LEMMA ReadLineTyped ==
  ASSUME CommandTypeOK, NEW line, ReadLine(line)
  PROVE  typed' \in Typable \cup {NoLine} /\ tty' \in {"none", "open", "ended"}
BY DEF CommandTypeOK, ReadLine

LEMMA ConfirmReadsIInv == ASSUME CommandIInv, ConfirmReads PROVE CommandIInv'
<1>1. PICK line \in {"empty", "yes", "no", "other", "number"} :
        /\ ReadLine(line)
        /\ said' = IF line \in {"yes", "no"} THEN line
                   ELSE IF line = "empty" THEN "nothing" ELSE said
        /\ IF line = "yes" \/ (line = "empty" /\ defaultYes)
           THEN Start /\ UNCHANGED answer
           ELSE /\ UNCHANGED process
                /\ IF line \in {"no", "empty"} THEN Return(Replied("cancelled"))
                                               ELSE UNCHANGED <<phase, answer>>
  BY Zenon DEF ConfirmReads
<1>2. phase = "asking" /\ UNCHANGED <<flag, registered, request>>
  BY DEF ConfirmReads, fixed
<1>3. /\ started = 0 /\ child.status = "none" /\ said = "nothing" /\ answer.kind = "none"
      /\ request.tool \in registered \cap Commands
  BY <1>2 DEF CommandIInv, Before, Unanswered, Asking
<1>4. said' \in {"nothing", "yes", "no"}
  BY <1>1, <1>3
<1>5. typed' \in Typable \cup {NoLine} /\ tty' \in {"none", "open", "ended"}
  BY <1>1, ReadLineTyped DEF CommandIInv
<1>6. CASE line = "yes" \/ (line = "empty" /\ defaultYes)
  <2>1. Start /\ UNCHANGED answer
    BY <1>1, <1>6, Zenon
  <2>2. /\ phase' = "running" /\ started' = 1 /\ elapsed' = 0
        /\ child' = [status |-> "running", code |-> 0, out |-> <<>>, err |-> <<>>]
    BY <1>3, <2>1, StartedCommand
  <2>3. said' = "yes" \/ (said' = "nothing" /\ defaultYes)
    BY <1>1, <1>6
  <2>4. CommandTypeOK' /\ elapsed' \in Nat
    BY <1>2, <1>4, <1>5, <2>1, <2>2, BoundsAssumption DEF CommandIInv, CommandTypeOK
  <2>5. Before' /\ Asking' /\ Running' /\ Unanswered'
    BY <1>3, <2>1, <2>2 DEF Before, Asking, Running, Unanswered
  <2>6. Allowed'
    BY <1>2, <1>3, <2>2, <2>3, Zenon DEF Allowed, defaultYes
  <2>7. Refused' /\ Killed' /\ Verdict'
    BY <1>3, <2>1, <2>2 DEF Refused, Killed, Verdict
  <2>8. Output'
    BY <1>3, <2>1, <2>2 DEF Output, Written, Filtered
  <2> QED BY <2>4, <2>5, <2>6, <2>7, <2>8 DEF CommandIInv
<1>7. CASE ~(line = "yes" \/ (line = "empty" /\ defaultYes))
  <2>1. /\ UNCHANGED <<child, elapsed, started>>
        /\ \/ phase' = "answered" /\ answer' = Replied("cancelled")
           \/ UNCHANGED <<phase, answer>> /\ line \notin {"no", "empty"}
    BY <1>1, <1>7, Zenon DEF process, Return
  <2>2. Replied("cancelled").kind = "cancelled"
    BY DEF Replied
  <2>3. \/ phase' = "answered" /\ answer'.kind = "cancelled"
        \/ phase' = "asking" /\ answer'.kind = "none" /\ said' = "nothing"
    <3>1. line \notin {"no", "empty"} => said' = "nothing"
      BY <1>1, <1>3, <1>7, Zenon
    <3> QED BY <1>2, <1>3, <2>1, <2>2, <3>1, Zenon
  <2>4. CommandTypeOK' /\ elapsed' \in Nat
    BY <1>2, <1>4, <1>5, <2>1, <2>3 DEF CommandIInv, CommandTypeOK
  <2>5. Before' /\ Asking' /\ Running' /\ Unanswered'
    BY <1>2, <1>3, <2>1, <2>3 DEF Before, Asking, Running, Unanswered
  <2>6. Allowed' /\ Refused' /\ Killed'
    BY <1>3, <2>1, NothingStarted, Zenon
  <2>7. Verdict'
    BY <2>3 DEF Verdict
  <2>8. Output'
    BY <2>1, <2>3 DEF CommandIInv, Output, Written, Filtered
  <2> QED BY <2>4, <2>5, <2>6, <2>7, <2>8 DEF CommandIInv
<1> QED BY <1>6, <1>7, Zenon

LEMMA MenuReadsIInv == ASSUME CommandIInv, MenuReads PROVE CommandIInv'
<1>1. /\ phase = "menu"
      /\ UNCHANGED <<flag, registered, request, child, elapsed, started, said>>
      /\ IF typed.word = "number" /\ typed.number \in 1..Options
         THEN Return([Replied("selected") EXCEPT !.choice = typed.number])
         ELSE UNCHANGED <<phase, answer>>
  BY DEF MenuReads, fixed, process
<1>2. typed' \in Typable \cup {NoLine} /\ tty' \in {"none", "open", "ended"}
  <2>1. PICK line \in {"empty", "yes", "no", "other", "number"} : ReadLine(line)
    BY Zenon DEF MenuReads
  <2> QED BY <2>1, ReadLineTyped DEF CommandIInv
<1>3. started = 0 /\ child.status = "none" /\ said = "nothing" /\ answer.kind = "none"
  BY <1>1 DEF CommandIInv, Before, Unanswered
<1>4. \/ phase' = "answered" /\ answer'.kind = "selected" /\ answer'.choice \in 1..Options
      \/ phase' = "menu" /\ answer'.kind = "none"
  <2>1. CASE typed.word = "number" /\ typed.number \in 1..Options
    BY <1>1, <2>1 DEF Return, Replied
  <2>2. CASE ~(typed.word = "number" /\ typed.number \in 1..Options)
    BY <1>1, <1>3, <2>2, Zenon
  <2> QED BY <2>1, <2>2
<1>5. CommandTypeOK' /\ elapsed' \in Nat
  BY <1>1, <1>2, <1>4 DEF CommandIInv, CommandTypeOK
<1>6. Before' /\ Asking' /\ Running' /\ Unanswered'
  BY <1>1, <1>3, <1>4 DEF Before, Asking, Running, Unanswered
<1>7. Allowed' /\ Refused' /\ Killed'
  BY <1>1, <1>3, NothingStarted, Zenon
<1>8. Verdict'
  BY <1>4 DEF Verdict
<1>9. Output'
  BY <1>1, <1>4 DEF CommandIInv, Output, Written, Filtered
<1> QED BY <1>5, <1>6, <1>7, <1>8, <1>9 DEF CommandIInv

-----------------------------------------------------------------------------
(* The child.                                                               *)

\* The child has ended, of itself or killed.
LEMMA ChildEndsIInv ==
  ASSUME CommandIInv, phase = "running",
         child'.status \in {"exited", "killed"}, Written',
         child'.status = "killed" =>
           child'.code # 0 /\ request.timeout # Infinite /\ elapsed >= request.timeout,
         UNCHANGED <<flag, registered, request, phase, tty, typed, elapsed, started, answer,
                     said>>
  PROVE  CommandIInv'
<1>1. CommandTypeOK' /\ elapsed' \in Nat
  BY DEF CommandIInv, CommandTypeOK
<1>2. Before' /\ Asking' /\ Running' /\ Unanswered'
  BY Zenon DEF CommandIInv, Before, Asking, Running, Unanswered
<1>3. Allowed' /\ Refused'
  BY Zenon DEF CommandIInv, Allowed, defaultYes, Refused
<1>4. Killed'
  BY Zenon DEF Killed
<1>5. Verdict'
  <2>1. answer'.kind = "none"
    BY DEF CommandIInv, Unanswered
  <2> QED BY <2>1 DEF Verdict
<1>6. Output'
  <2>1. answer'.kind = "none"
    BY DEF CommandIInv, Unanswered
  <2> QED BY <2>1 DEF Output, Filtered
<1> QED BY <1>1, <1>2, <1>3, <1>4, <1>5, <1>6 DEF CommandIInv

LEMMA ChildIInv == ASSUME CommandIInv, Child PROVE CommandIInv'
<1>1. PICK out \in Outputs, err \in Outputs :
        (\E code \in {0, 1} : ChildExits(code, out, err)) \/ ChildKilled(out, err)
  BY Zenon DEF Child
<1>2. /\ phase = "running"
      /\ UNCHANGED <<flag, registered, request, phase, tty, typed, elapsed, started, answer,
                     said>>
  BY <1>1 DEF ChildExits, ChildKilled, ChildRuns, fixed, terminal
<1>3. Written'
  <2>1. child'.out = out /\ child'.err = err
    BY <1>1 DEF ChildExits, ChildKilled
  <2> QED BY <2>1, BoundsAssumption DEF Written
<1>4. CASE \E code \in {0, 1} : ChildExits(code, out, err)
  <2>1. child'.status = "exited"
    BY <1>4 DEF ChildExits
  <2>2. child'.status # "killed" /\ child'.status \in {"exited", "killed"}
    BY <2>1
  <2> QED BY <1>2, <1>3, <2>2, ChildEndsIInv, Zenon
<1>5. CASE ChildKilled(out, err)
  <2>1. /\ child'.status = "killed" /\ child'.code # 0
        /\ request.timeout # Infinite /\ elapsed >= request.timeout
    BY <1>5 DEF ChildKilled
  <2>2. child'.status \in {"exited", "killed"}
    BY <2>1
  <2> QED BY <1>2, <1>3, <2>1, <2>2, ChildEndsIInv, Zenon
<1> QED BY <1>1, <1>4, <1>5

LEMMA TickIInv == ASSUME CommandIInv, Tick PROVE CommandIInv'
<1>1. /\ phase = "running" /\ elapsed < MaxTime /\ elapsed' = elapsed + 1
      /\ UNCHANGED <<flag, registered, request, phase, tty, typed, child, started, answer,
                     said>>
  BY DEF Tick, fixed, terminal
<1>2. CommandTypeOK' /\ elapsed' \in Nat
  BY <1>1, BoundsAssumption DEF CommandIInv, CommandTypeOK
<1>3. Before' /\ Asking' /\ Running' /\ Unanswered'
  BY <1>1, Zenon DEF CommandIInv, Before, Asking, Running, Unanswered
<1>4. Allowed' /\ Refused'
  BY <1>1, Zenon DEF CommandIInv, Allowed, defaultYes, Refused
<1>5. Killed'
  <2>1. request.timeout \in Int
    <3>1. request.timeout \in Timeouts \cup {Infinite}
      BY Zenon DEF CommandIInv, CommandTypeOK
    <3>2. Infinite \in Int /\ Timeouts \subseteq Int
      BY BoundsAssumption DEF Infinite
    <3> QED BY <3>1, <3>2, Zenon
  <2>2. elapsed >= request.timeout => elapsed' >= request.timeout
    BY <1>1, <2>1 DEF CommandIInv
  <2> QED BY <1>1, <2>2, Zenon DEF CommandIInv, Killed
<1>6. Verdict'
  <2>1. answer'.kind = "none"
    BY <1>1 DEF CommandIInv, Unanswered
  <2> QED BY <2>1 DEF Verdict
<1>7. Output'
  BY <1>1, Zenon DEF CommandIInv, Output, Written, Filtered
<1> QED BY <1>2, <1>3, <1>4, <1>5, <1>6, <1>7 DEF CommandIInv

LEMMA ReportIInv == ASSUME CommandIInv, Report PROVE CommandIInv'
<1>1. /\ phase = "running" /\ phase' = "answered"
      /\ UNCHANGED <<flag, registered, request, tty, typed, child, elapsed, started, said>>
  BY DEF Report, Return, fixed, terminal, process
<1>2. /\ answer'.kind \in {"tool error", "result"}
      /\ answer'.kind = "result" => (answer'.timedOut <=> TimedOut)
  <2>1. CASE answer' = Replied("tool error")
    BY <2>1 DEF Replied
  <2>2. CASE \E out, err : answer' = [Replied("result") EXCEPT !.out = out, !.err = err,
                                                               !.timedOut = TimedOut]
    <3>1. PICK out, err : answer' = [kind |-> "result", out |-> out, err |-> err,
                                     timedOut |-> TimedOut, choice |-> 0]
      BY <2>2 DEF Replied
    <3>2. answer'.kind = "result"
      BY <3>1, Zenon
    <3>3. answer'.timedOut <=> TimedOut
      BY <3>1, Zenon
    <3> QED BY <3>2, <3>3, Zenon
  <2> QED BY <2>1, <2>2, Zenon DEF Report, Return
<1>3. CommandTypeOK' /\ elapsed' \in Nat
  <2>1. answer'.kind # "selected"
    BY <1>2
  <2> QED BY <1>1, <2>1 DEF CommandIInv, CommandTypeOK
<1>4. Before' /\ Asking' /\ Running' /\ Unanswered'
  BY <1>1 DEF Before, Asking, Running, Unanswered
<1>5. Allowed' /\ Killed'
  BY <1>1, Zenon DEF CommandIInv, Allowed, defaultYes, Killed
<1>6. Refused'
  BY <1>2 DEF Refused
<1>7. Verdict'
  BY <1>1, <1>2, Zenon DEF Verdict, TimedOut
<1>8. Output'
  <2>1. Written'
    BY <1>1, Zenon DEF CommandIInv, Output, Written
  <2>2. CASE answer' = Replied("tool error")
    <3>1. answer'.kind # "result"
      BY <2>2 DEF Replied
    <3> QED BY <2>1, <3>1 DEF Output, Filtered
  <2>3. CASE answer' = [Replied("result") EXCEPT !.out = FilterLines(child.out, request.filters),
                                                 !.err = FilterLines(child.err, request.filters),
                                                 !.timedOut = TimedOut]
    <3> DEFINE out == FilterLines(child.out, request.filters)
               err == FilterLines(child.err, request.filters)
    <3>1. answer'.out = out /\ answer'.err = err
      <4> HIDE DEF out, err
      <4>1. answer' = [Replied("result") EXCEPT !.out = out, !.err = err, !.timedOut = TimedOut]
        BY <2>3 DEF out, err
      <4> QED BY <4>1 DEF Replied
    <3> QED BY <1>1, <2>1, <3>1, Zenon DEF Output, Filtered
  <2> QED BY <2>2, <2>3, Zenon DEF Report, Return
<1> QED BY <1>3, <1>4, <1>5, <1>6, <1>7, <1>8 DEF CommandIInv

LEMMA TakeAnswerIInv == ASSUME CommandIInv, TakeAnswer PROVE CommandIInv'
<1>1. /\ phase' = "idle" /\ request' = NoCall /\ child' = NoChild /\ elapsed' = 0
      /\ answer' = Replied("none") /\ started' = 0 /\ said' = "nothing"
      /\ UNCHANGED <<flag, registered, tty, typed>>
  BY DEF TakeAnswer, fixed, terminal
<1>2. child'.status = "none" /\ answer'.kind = "none"
  BY <1>1 DEF NoChild, Replied
<1>3. CommandTypeOK' /\ elapsed' \in Nat
  BY <1>1, <1>2, BoundsAssumption DEF CommandIInv, CommandTypeOK, NoCall
<1>4. Before' /\ Asking' /\ Running' /\ Unanswered'
  BY <1>1, <1>2 DEF Before, Asking, Running, Unanswered
<1>5. Allowed' /\ Refused' /\ Killed'
  BY <1>1, <1>2, NothingStarted, Zenon
<1>6. Verdict'
  BY <1>2 DEF Verdict
<1>7. Output'
  BY <1>1, <1>2 DEF Output, Written, Filtered, NoChild
<1> QED BY <1>3, <1>4, <1>5, <1>6, <1>7 DEF CommandIInv

LEMMA NextCommandIInv == CommandIInv /\ [CommandNext]_commandVars => CommandIInv'
<1> SUFFICES ASSUME CommandIInv, [CommandNext]_commandVars PROVE CommandIInv'
  OBVIOUS
<1>1. CASE Call
  <2>1. ASSUME NEW tool \in Tools \cup {"unknown"}, NEW kind \in {"invalid", "not found"},
               CallRefused(tool, kind)
        PROVE  CommandIInv'
    BY <2>1, RefusedCallIInv
  <2>2. ASSUME NEW tool \in Commands, NEW confirm \in BOOLEAN,
               NEW timeout \in Timeouts \cup {Infinite}, NEW filters \in Filters,
               CallCommand(tool, confirm, timeout, filters)
        PROVE  CommandIInv'
    BY <2>2, CallCommandIInv
  <2>3. CASE CallAskUser
    BY <2>3, CallAskUserIInv
  <2> QED BY <1>1, <2>1, <2>2, <2>3, Zenon DEF Call
<1>2. CASE HangUp
  BY <1>2, TerminalIInv DEF HangUp, fixed, process, CommandIInv, CommandTypeOK
<1>3. ASSUME NEW line \in Typable, UserTypes(line) PROVE CommandIInv'
  BY <1>3, TerminalIInv DEF UserTypes, fixed, process, CommandIInv, CommandTypeOK
<1>4. CASE ConfirmReads
  BY <1>4, ConfirmReadsIInv
<1>5. CASE MenuReads
  BY <1>5, MenuReadsIInv
<1>6. CASE Child
  BY <1>6, ChildIInv
<1>7. CASE Tick
  BY <1>7, TickIInv
<1>8. CASE Report
  BY <1>8, ReportIInv
<1>9. CASE TakeAnswer
  BY <1>9, TakeAnswerIInv
<1>10. CASE UNCHANGED commandVars
  BY <1>10, TerminalIInv DEF commandVars, CommandIInv, CommandTypeOK
<1> QED BY <1>1, <1>2, <1>3, <1>4, <1>5, <1>6, <1>7, <1>8, <1>9, <1>10, Zenon DEF CommandNext

LEMMA CommandInvariance == CommandSpec => []CommandIInv
BY InitCommandIInv, NextCommandIInv, PTL DEF CommandSpec

-----------------------------------------------------------------------------

(***************************************************************************)
(* Every variable has its type, and an option that was selected exists     *)
(* (ask_user reads options[index] without a check).                        *)
(***************************************************************************)
THEOREM CommandTypeCorrect == CommandSpec => []CommandTypeOK
<1>1. CommandIInv => CommandTypeOK
  BY DEF CommandIInv
<1> QED BY <1>1, CommandInvariance, PTL

(***************************************************************************)
(* Whatever is typed, and whenever the user hangs up, a command starts     *)
(* once, and one that asks for confirmation not without it (confirm() and  *)
(* the tools of tools/execute).                                            *)
(***************************************************************************)
THEOREM OnlyAllowedRuns == CommandSpec => []RunsOnlyAllowed
<1>1. CommandIInv => RunsOnlyAllowed
  <2> SUFFICES ASSUME CommandIInv PROVE RunsOnlyAllowed
    OBVIOUS
  <2>1. started <= 1
    BY DEF CommandIInv, Allowed
  <2> QED BY <2>1, Zenon DEF CommandIInv, Allowed, Refused, RunsOnlyAllowed
<1> QED BY <1>1, CommandInvariance, PTL

(***************************************************************************)
(* A child the library kills for its timeout is always reported as timed   *)
(* out, and one that succeeds or has no timeout never is, however the      *)
(* clock runs between its end and the verdict.                             *)
(***************************************************************************)
THEOREM KillIsReported == CommandSpec => []KilledIsTimedOut
<1>1. CommandIInv => KilledIsTimedOut
  BY Zenon DEF CommandIInv, Killed, Verdict, TimedOut, KilledIsTimedOut
<1> QED BY <1>1, CommandInvariance, PTL

(***************************************************************************)
(* What a call returns of a command's output is what the filters promise   *)
(* of what the command wrote (filter_lines() and the tools that call it),  *)
(* for every text, and for every list of filters in every order.           *)
(***************************************************************************)
THEOREM FiltersKeepTheirPromise == CommandSpec => []FilteredAsPromised
<1>1. CommandIInv => FilteredAsPromised
  <2> SUFFICES ASSUME CommandIInv, answer.kind = "result" PROVE FilteredAsPromised
    BY Zenon DEF FilteredAsPromised
  <2>1. request.filters \in Seq(Filter)
    <3>1. request.filters \in Filters \cup {<<>>}
      BY Zenon DEF CommandIInv, CommandTypeOK
    <3>2. <<>> \in Seq(Filter)
      OBVIOUS
    <3> QED BY <3>1, <3>2, FiltersAssumption, Zenon
  <2>2. /\ Written
        /\ answer.out = FilterLines(child.out, request.filters)
        /\ answer.err = FilterLines(child.err, request.filters)
    BY Zenon DEF CommandIInv, Output, Filtered
  <2> QED BY <2>1, <2>2, FiltersKeepPromise, Zenon DEF Written, FilteredAsPromised
<1> QED BY <1>1, CommandInvariance, PTL
=============================================================================
