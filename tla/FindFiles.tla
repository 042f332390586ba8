----------------------------- MODULE FindFiles -----------------------------
(***************************************************************************)
(* The find_files tool: base/matchglob.cc, a matcher of glob patterns that *)
(* backtracks over a stack of its own; base/glob.cc, which runs it on the  *)
(* name of every entry of a directory; and find_files.cc, which searches   *)
(* again with a wider pattern when nothing was found.                      *)
(*                                                                         *)
(* The matcher is modelled step by step, with its two positions and its    *)
(* stack.  What it computes is compared with a definition of a match that  *)
(* has no positions, no stack and no order: a way to cut the name into     *)
(* pieces, one for every item of the pattern.                              *)
(***************************************************************************)
EXTENDS Naturals, Sequences, FiniteSets

CONSTANTS
    Characters,
    Patterns,       \* the patterns a search may start with
    Directories     \* the names a directory may hold, in the order of its iterator

ASSUME TextsAssumption ==
    Patterns \subseteq Seq(Characters) /\ Directories \subseteq Seq(Seq(Characters))

VARIABLES
    pattern,        \* the pattern of this pass
    todo,           \* the names the iterator has still to give; the first is matched now
    found,          \* the names that matched
    failed,         \* ghost: the iterator threw and the pass ended early
    pass,           \* 1, and 2 when the wider pattern is searched
    status,         \* "next", "matching" or "done"
    items,          \* the pattern's items
    p, n,           \* the matcher's positions in the items and in the name
    backtrack,      \* its stack of positions to come back to
    names           \* ghost: what the directory holds

vars == <<pattern, todo, found, failed, pass, status, items, p, n, backtrack, names>>
search == <<pattern, todo, found, failed, pass, names>>

Separators == {"/", "\\"}

-----------------------------------------------------------------------------
(* The pattern and its characters.                                          *)

\* find_files ignores the case; "a" and "A" are the letters that differ in it.
SameChar(a, b) == a = b \/ {a, b} = {"a", "A"}

AnyChar == [type |-> "any", value |-> "none"]
Star == [type |-> "star", value |-> "none"]
Item(c) == CASE c = "?" -> AnyChar [] c = "*" -> Star [] OTHER -> [type |-> "char", value |-> c]

\* A star that follows a star is dropped.
Items(pat) ==
    LET kept == {i \in DOMAIN pat : ~(pat[i] = "*" /\ i > 1 /\ pat[i - 1] = "*")}
        nth(k) == CHOOSE i \in kept : Cardinality({j \in kept : j <= i}) = k
    IN  [k \in 1..Cardinality(kept) |-> Item(pat[nth(k)])]

\* A character of the pattern; a separator matches either separator.
CharMatches(c, item) ==
    SameChar(c, item.value) \/ (c \in Separators /\ item.value \in Separators)

\* Is the star at i followed by a question mark?
BeforeAny(i) == i < Len(items) /\ items[i + 1].type = "any"

-----------------------------------------------------------------------------
(* The search.                                                              *)

Init ==
    /\ pattern \in Patterns
    /\ todo \in Directories /\ names = {todo[i] : i \in DOMAIN todo}
    /\ found = {} /\ failed = FALSE
    /\ pass = 1 /\ status = "next"
    /\ items = <<>> /\ p = 1 /\ n = 1 /\ backtrack = <<>>

\* matchglob() is called with the next name.
MatchNext ==
    /\ status = "next" /\ todo # <<>>
    /\ status' = "matching"
    /\ items' = Items(pattern)
    /\ p' = 1 /\ n' = 1 /\ backtrack' = <<>>
    /\ UNCHANGED search

\* The iterator throws; what was found so far is kept.
IterationFails ==
    /\ status = "next" /\ todo # <<>>
    /\ todo' = <<>>
    /\ failed' = TRUE
    /\ UNCHANGED <<pattern, found, pass, names, status, items, p, n, backtrack>>

\* Nothing found by a pattern without a star: once more, between two stars.
HasStar(pat) == \E i \in DOMAIN pat : pat[i] = "*"
Retries == found = {} /\ ~HasStar(pattern)

SearchWider ==
    /\ status = "next" /\ todo = <<>> /\ Retries
    /\ pattern' = <<"*">> \o pattern \o <<"*">>
    /\ pass' = 2
    /\ \E again \in Directories :
        /\ names = {again[i] : i \in DOMAIN again}
        /\ todo' = again
    /\ UNCHANGED <<found, failed, names, status, items, p, n, backtrack>>

Finish ==
    /\ status = "next" /\ todo = <<>> /\ ~Retries
    /\ status' = "done"
    /\ UNCHANGED <<search, items, p, n, backtrack>>

-----------------------------------------------------------------------------
(* The matcher.                                                             *)

name == Head(todo)
AtEnd == n > Len(name)
Reading == status = "matching" /\ p <= Len(items)

Pushed(stack, i, j) == Append(stack, <<i, j>>)

\* Where the skip over the characters of a star stops.
SkipStops(j) ==
    \/ j > Len(name)
    \/ name[j] \in Separators
    \/ p < Len(items) /\ SameChar(name[j], items[p + 1].value)
Skipped ==
    CHOOSE j \in n..Len(name) + 1 : SkipStops(j) /\ \A k \in n..j - 1 : ~SkipStops(k)

InSegment(j) == j <= Len(name) /\ name[j] \notin Separators

\* Mutant of ReadStar: where the skip stopped is not remembered.
ReadStarForGood ==
    /\ Reading /\ items[p].type = "star"
    /\ IF BeforeAny(p)
       THEN /\ backtrack' = IF AtEnd THEN backtrack ELSE Pushed(backtrack, p, n)
            /\ n' = n
       ELSE n' = Skipped /\ UNCHANGED backtrack
    /\ p' = p + 1
    /\ UNCHANGED <<search, status, items>>

ReadStar ==
    /\ Reading /\ items[p].type = "star"
    /\ IF BeforeAny(p)
       THEN /\ backtrack' = IF AtEnd THEN backtrack ELSE Pushed(backtrack, p, n)
            /\ n' = n
       ELSE LET first == IF InSegment(n) THEN Pushed(backtrack, p, n) ELSE backtrack
            IN  /\ n' = Skipped
                /\ backtrack' = IF InSegment(Skipped) THEN Pushed(first, p, Skipped) ELSE first
    /\ p' = p + 1
    /\ UNCHANGED <<search, status, items>>

ItemMatches ==
    ~AtEnd /\ (items[p].type = "any" \/ CharMatches(name[n], items[p]))

ReadChar ==
    /\ Reading /\ items[p].type # "star" /\ ItemMatches
    /\ p' = p + 1 /\ n' = n + 1
    /\ UNCHANGED <<search, status, items, backtrack>>

\* Here the matcher can go no further: the item does not match, or the items
\* are used up and the name is not.
Stuck ==
    \/ Reading /\ items[p].type # "star" /\ ~ItemMatches
    \/ status = "matching" /\ p > Len(items) /\ ~AtEnd

\* Mutant of Backtrack: it comes back to the same character.
BacktrackInPlace ==
    /\ Stuck /\ backtrack # <<>>
    /\ LET top == backtrack[Len(backtrack)]
       IN  p' = top[1] /\ n' = top[2]
    /\ backtrack' = SubSeq(backtrack, 1, Len(backtrack) - 1)
    /\ UNCHANGED <<search, status, items>>

Backtrack ==
    /\ Stuck /\ backtrack # <<>>
    /\ LET top == backtrack[Len(backtrack)]
       IN  p' = top[1] /\ n' = top[2] + 1
    /\ backtrack' = SubSeq(backtrack, 1, Len(backtrack) - 1)
    /\ UNCHANGED <<search, status, items>>

Decide(matches) ==
    /\ found' = IF matches THEN found \cup {name} ELSE found
    /\ todo' = Tail(todo)
    /\ status' = "next"
    /\ UNCHANGED <<pattern, failed, pass, names, items, p, n, backtrack>>

Accept == status = "matching" /\ p > Len(items) /\ AtEnd /\ Decide(TRUE)
Reject == Stuck /\ backtrack = <<>> /\ Decide(FALSE)

Next ==
    \/ MatchNext \/ IterationFails \/ SearchWider \/ Finish
    \/ ReadStar \/ ReadChar \/ Backtrack \/ Accept \/ Reject

Spec == Init /\ [][Next]_vars /\ WF_vars(Next)

-----------------------------------------------------------------------------
(* What a match is: cut[i] characters are used by the first i items.        *)

\* The stars in crossing match separators too.
Piece(its, s, i, from, to, crossing) ==
    IF its[i].type = "star"
    THEN from <= to /\ (i \in crossing \/ \A j \in from + 1..to : s[j] \notin Separators)
    ELSE to = from + 1 /\ (its[i].type = "any" \/ CharMatches(s[to], its[i]))

IsCut(its, s, cut, crossing) ==
    /\ cut[0] = 0 /\ cut[Len(its)] = Len(s)
    /\ \A i \in 1..Len(its) : Piece(its, s, i, cut[i - 1], cut[i], crossing)

MatchesCrossing(its, s, crossing) ==
    \E cut \in [0..Len(its) -> 0..Len(s)] : IsCut(its, s, cut, crossing)

Crossing(its) == {i \in 1..Len(its) - 1 : its[i + 1].type = "any"}
Matches(pat, s) == MatchesCrossing(Items(pat), s, Crossing(Items(pat)))
MatchesInSegment(pat, s) == MatchesCrossing(Items(pat), s, {})

-----------------------------------------------------------------------------
(* Properties.                                                              *)

TypeOK ==
    /\ pass \in {1, 2} /\ status \in {"next", "matching", "done"}
    /\ found \subseteq names
    /\ p \in 1..Len(items) + 1
    /\ status = "matching" =>
        /\ todo # <<>> /\ n \in 1..Len(name) + 1
        /\ \A i \in DOMAIN backtrack :
            /\ backtrack[i][1] \in DOMAIN items /\ items[backtrack[i][1]].type = "star"
            /\ backtrack[i][2] \in DOMAIN name

\* The names the iterator has given in this pass.
Given == names \ {todo[i] : i \in DOMAIN todo}

\* Nothing is found that does not match.
FoundMatches == \A s \in found : Matches(pattern, s)

(***************************************************************************)
(* find_files returns exactly the names that match its pattern - the wider *)
(* one in the second pass: no skip, no backtrack and no order of trying    *)
(* loses a match or invents one.  If the iterator threw it returns some of *)
(* them.                                                                   *)
(***************************************************************************)
FoundIsRight ==
    /\ FoundMatches
    /\ ~failed => \A s \in Given : Matches(pattern, s) => s \in found

\* Every search ends: the stack does not bring the matcher back for ever.
SearchEnds == <>(status = "done")

(***************************************************************************)
(* What the tests say of a star, that it does not match across '/' or '\': *)
(* a name that was found has a match where no star does.                   *)
(***************************************************************************)
StarStaysInSegment == \A s \in found : MatchesInSegment(pattern, s)
=============================================================================
