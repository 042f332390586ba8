----------------------------- MODULE BaseProofs -----------------------------
(***************************************************************************)
(* Proofs about src/base: Expected, for any variables and any contents,    *)
(* and Timer, for any threads.                                             *)
(*                                                                         *)
(* Expected.  The tag is true, and until a construction throws there is    *)
(* always a value or an error.  The storage of every variable in scope is  *)
(* Sane.  A call is Good if all its outcomes are sane, given that what it  *)
(* was called on is, and Clean if those that do not throw are whole, given *)
(* the same.  What a call did is a predicate of its outcomes, too: Kept,   *)
(* Untouched and Halved speak of those that threw, Copied, Moved and       *)
(* Exchanged of those that returned.                                       *)
(*                                                                         *)
(* Timer.  While starts are kept apart, every State that is not dead has   *)
(* an owner that will join or notify it: see Apart.                        *)
(***************************************************************************)
EXTENDS Expected, Timer, FiniteSetTheorems, TLAPS

\* The forms and types for which the tag tells the truth whatever throws.
TagMatters == form = "reference" \/ (form = "object" /\ throwing # Sides)

\* The types of TypeOK for one variable.
Fits(o) ==
    /\ o \in Storage
    /\ form = "void" => o.tag \in Sides /\ o.value = Dead

\* The member that the tag names is alive.
Names(o) == (HasValue(o) => o.value # Dead) /\ (HasError(o) => o.error # Dead)

Sane(o) ==
    /\ Fits(o)
    /\ form # "void" => Names(o)
    /\ TagMatters => TagTellsTruth(o)

SaneOrAbsent(o) == o = Absent \/ Sane(o)
WholeOrAbsent(o) == o = Absent \/ Whole(o)

Good(outcomes) ==
    \A r \in outcomes : SaneOrAbsent(r.this) /\ SaneOrAbsent(r.other)
Clean(outcomes) ==
    \A r \in outcomes :
        r.end # "threw" => r.end # "died" /\ WholeOrAbsent(r.this) /\ WholeOrAbsent(r.other)

LEMMA ReturnsGood ==
    ASSUME NEW o, NEW p
    PROVE  /\ SaneOrAbsent(o) /\ SaneOrAbsent(p) => Good(Returns(o, p))
           /\ WholeOrAbsent(o) /\ WholeOrAbsent(p) => Clean(Returns(o, p))
BY DEF Good, Clean, Returns, Outcome

LEMMA ThrowsGood ==
    ASSUME NEW o, NEW p
    PROVE  /\ SaneOrAbsent(o) /\ SaneOrAbsent(p) => Good(Throws(o, p))
           /\ Clean(Throws(o, p))
BY DEF Good, Clean, Throws, Outcome

LEMMA AttemptGood ==
    ASSUME NEW may, NEW done, NEW kept
    PROVE  /\ Good(done) /\ (may => Good(kept)) => Good(Attempt(may, done, kept))
           /\ Clean(done) /\ Clean(kept) => Clean(Attempt(may, done, kept))
BY DEF Good, Clean, Attempt

-----------------------------------------------------------------------------
(* What the calls do to a storage.                                          *)

LEMMA EmptySane ==
    ASSUME form # "void"
    PROVE  Sane(Empty)
BY DEF Sane, Names, Fits, TagMatters, TagTellsTruth, Storage, Empty, Stored, HasValue, HasError,
   Sides

LEMMA DestroyedSane ==
    ASSUME form # "void", NEW o, Sane(o)
    PROVE  Sane(Destroyed(o)) /\ Destroyed(o).tag = "empty"
<1>1. o.tag \in Sides \cup {"empty"} /\ o.value \in Alive \cup {Dead} /\ o.error \in Alive \cup {Dead}
  BY DEF Sane, Fits, Storage
<1> QED BY <1>1 DEF Sane, Names, Fits, TagMatters, TagTellsTruth, Storage, Destroyed, Stored,
   HasValue, HasError, Sides

LEMMA ReadySane ==
    ASSUME form # "void", NEW o, NEW side, Sane(o)
    PROVE  Sane(Ready(o, side)) /\ Ready(o, side).tag \in {side, "empty"}
BY DestroyedSane DEF Ready

LEMMA WithValueSane ==
    ASSUME form # "void", NEW o, TagMatters => o.tag \in {"value", "empty"}, Sane(o),
           NEW c \in Alive
    PROVE  Sane(WithValue(o, c)) /\ (c # Garbage => Whole(WithValue(o, c)))
<1>1. o.error \in Alive \cup {Dead} /\ c # Dead
  BY ContentsAssumption DEF Sane, Fits, Storage, Alive
<1>2. Fits(WithValue(o, c))
  BY <1>1 DEF Fits, Storage, WithValue, Stored, Sides
<1>3. TagMatters => TagTellsTruth(WithValue(o, c))
  BY <1>1 DEF Sane, TagTellsTruth, HasValue, HasError, WithValue, Stored
<1>4. c # Garbage => Whole(WithValue(o, c))
  BY DEF Whole, Alive, HasValue, WithValue, Stored
<1>5. Names(WithValue(o, c))
  BY <1>1 DEF Names, HasValue, HasError, WithValue, Stored
<1> QED BY <1>2, <1>3, <1>4, <1>5 DEF Sane

LEMMA WithErrorSane ==
    ASSUME NEW o, TagMatters => o.tag \in {"error", "empty"}, Sane(o), NEW c \in Alive
    PROVE  Sane(WithError(o, c)) /\ (c # Garbage => Whole(WithError(o, c)))
<1>1. o.value \in Alive \cup {Dead} /\ c # Dead
  BY ContentsAssumption DEF Sane, Fits, Storage, Alive
<1>2. Fits(WithError(o, c))
  BY <1>1 DEF Sane, Fits, Storage, WithError, Stored, Sides
<1>3. TagMatters => TagTellsTruth(WithError(o, c))
  BY <1>1 DEF TagMatters, Sane, TagTellsTruth, HasValue, HasError, WithError, Stored
<1>4. c # Garbage => Whole(WithError(o, c))
  BY DEF Whole, Alive, HasError, WithError, Stored
<1>5. Names(WithError(o, c))
  BY <1>1 DEF Names, HasValue, HasError, WithError, Stored
<1> QED BY <1>2, <1>3, <1>4, <1>5 DEF Sane

LEMMA ValueTakenSane ==
    ASSUME NEW o, Sane(o)
    PROVE  Sane(ValueTaken(o)) /\ (Whole(o) => Whole(ValueTaken(o)))
<1>1. o.tag \in Sides \cup {"empty"} /\ o.value \in Alive \cup {Dead} /\ o.error \in Alive \cup {Dead}
  BY DEF Sane, Fits, Storage
<1>2. MovedOut \in Alive /\ MovedOut # Dead
  BY ContentsAssumption DEF Alive
<1>3. form = "object" /\ o.value # Dead => Sane(Stored(o.tag, MovedOut, o.error))
  BY <1>1, <1>2 DEF Sane, Names, Fits, TagMatters, TagTellsTruth, Storage, Stored, HasValue,
     HasError
<1>4. Whole(o) => Whole(Stored(o.tag, MovedOut, o.error))
  BY <1>1, <1>2 DEF Whole, Stored, HasValue, HasError
<1> QED BY <1>3, <1>4 DEF ValueTaken

LEMMA ErrorTakenSane ==
    ASSUME NEW o, Sane(o)
    PROVE  Sane(ErrorTaken(o)) /\ (Whole(o) => Whole(ErrorTaken(o)))
<1>1. o.tag \in Sides \cup {"empty"} /\ o.value \in Alive \cup {Dead} /\ o.error \in Alive \cup {Dead}
  BY DEF Sane, Fits, Storage
<1>2. MovedOut \in Alive /\ MovedOut # Dead
  BY ContentsAssumption DEF Alive
<1>3. o.error # Dead => Sane(Stored(o.tag, o.value, MovedOut))
  BY <1>1, <1>2 DEF Sane, Names, Fits, TagMatters, TagTellsTruth, Storage, Stored, HasValue,
     HasError
<1>4. Whole(o) => Whole(Stored(o.tag, o.value, MovedOut))
  BY <1>1, <1>2 DEF Whole, Stored, HasValue, HasError
<1> QED BY <1>3, <1>4 DEF ErrorTaken

\* What is read from a storage.
LEMMA ReadFits ==
    ASSUME NEW o, Sane(o)
    PROVE  /\ HasValue(o) /\ form # "void" => o.value \in Alive
           /\ HasError(o) /\ form # "void" => o.error \in Alive
           /\ Read(o.value) \in Alive /\ Read(o.error) \in Alive
           /\ Whole(o) /\ HasValue(o) /\ form # "void" =>
                    o.value \in Alive \ {Garbage} /\ Read(o.value) = o.value
           /\ Whole(o) /\ ~HasValue(o) =>
                    HasError(o) /\ o.error \in Alive \ {Garbage} /\ Read(o.error) = o.error
<1>1. o.tag \in Sides \cup {"empty"} /\ o.value \in Alive \cup {Dead} /\ o.error \in Alive \cup {Dead}
  BY DEF Sane, Fits, Storage
<1> QED BY <1>1, ContentsAssumption DEF Sane, Names, Whole, Read, HasValue, HasError, Alive

\* A live member gets a content, in an assignment or half way through one.
LEMMA RefilledSane ==
    ASSUME NEW o, Sane(o), NEW side \in Sides, NEW c \in Alive
    PROVE  /\ Sane(Refilled(o, side, c))
           /\ Whole(o) /\ c # Garbage => Whole(Refilled(o, side, c))
<1>1. /\ o.tag \in Sides \cup {"empty"} /\ o.value \in Alive \cup {Dead} /\ o.error \in Alive \cup {Dead}
      /\ c # Dead
  BY ContentsAssumption DEF Sane, Fits, Storage, Alive
<1>2. o.error # Dead => Sane(Stored(o.tag, o.value, c))
  BY <1>1 DEF Sane, Names, Fits, TagMatters, TagTellsTruth, Storage, Stored, HasValue, HasError
<1>3. o.value # Dead => Sane(Stored(o.tag, c, o.error))
  BY <1>1 DEF Sane, Names, Fits, TagMatters, TagTellsTruth, Storage, Stored, HasValue, HasError
<1>4. Whole(o) /\ c # Garbage => Whole(Stored(o.tag, o.value, c)) /\ Whole(Stored(o.tag, c, o.error))
  BY <1>1 DEF Whole, Stored, HasValue, HasError, Alive
<1>5. /\ side = "value" /\ o.value # Dead => Refilled(o, side, c) = Stored(o.tag, c, o.error)
      /\ side = "error" /\ o.error # Dead => Refilled(o, side, c) = Stored(o.tag, o.value, c)
      /\ ~(side = "value" /\ o.value # Dead) /\ ~(side = "error" /\ o.error # Dead) => Refilled(o, side, c) = o
  <2>1. "value" # "error"
    OBVIOUS
  <2> QED BY <2>1, Zenon DEF Refilled
<1> QED BY <1>2, <1>3, <1>4, <1>5, Zenon

LEMMA FailsGood ==
    ASSUME form # "void", NEW o, NEW p, NEW side \in Sides, Sane(o), Sane(p)
    PROVE  Good(Fails(o, side, p)) /\ Clean(Fails(o, side, p))
<1>1. MovedOut \in Alive
  BY DEF Alive
<1>2. Sane(Refilled(o, side, MovedOut)) /\ Sane(Destroyed(o))
  BY <1>1, RefilledSane, DestroyedSane
<1>. DEFINE kept == Throws(o, p)
            lost == Throws(Refilled(o, side, MovedOut), p)
            bare == Throws(Destroyed(o), p)
<1>3. Good(kept) /\ Clean(kept) /\ Good(lost) /\ Clean(lost) /\ Good(bare) /\ Clean(bare)
  BY <1>2, ThrowsGood DEF SaneOrAbsent
<1>4. Fails(o, side, p) = IF o.tag = side THEN kept \cup lost ELSE bare
  BY DEF Fails
<1>. HIDE DEF kept, lost, bare
<1> QED BY <1>3, <1>4 DEF Good, Clean

-----------------------------------------------------------------------------
(* expected<T, E>                                                           *)

LEMMA CopyFromGood ==
    ASSUME form = "object", NEW o, NEW p, Sane(o), Sane(p)
    PROVE  /\ Good(ObjectCopyFrom(o, p))
           /\ Whole(p) => Clean(ObjectCopyFrom(o, p))
<1>. DEFINE ready == Ready(o, p.tag)
<1>1. Sane(ready) /\ ready.tag \in {p.tag, "empty"}
  BY ReadySane
<1>. HIDE DEF ready
<1>2. HasValue(p) => Sane(WithValue(ready, p.value)) /\ (Whole(p) => Whole(WithValue(ready, p.value)))
  BY <1>1, WithValueSane, ReadFits DEF HasValue
<1>3. HasError(p) => Sane(WithError(ready, p.error)) /\ (Whole(p) => Whole(WithError(ready, p.error)))
  BY <1>1, WithErrorSane, ReadFits DEF HasValue, HasError
<1>4. Whole(p) => HasValue(p) \/ HasError(p)
  BY DEF Whole
<1> QED BY <1>1, <1>2, <1>3, <1>4, FailsGood, ReturnsGood, AttemptGood
    DEF ObjectCopyFrom, SaneOrAbsent, WholeOrAbsent, ready, Sides

LEMMA MoveFromGood ==
    ASSUME form = "object", NEW o, NEW p, Sane(o), Sane(p)
    PROVE  /\ Good(ObjectMoveFrom(o, p))
           /\ Whole(p) => Clean(ObjectMoveFrom(o, p))
<1>. DEFINE ready == Ready(o, p.tag)
<1>1. Sane(ready) /\ ready.tag \in {p.tag, "empty"}
  BY ReadySane
<1>. HIDE DEF ready
<1>2. HasValue(p) => Sane(WithValue(ready, p.value)) /\ (Whole(p) => Whole(WithValue(ready, p.value)))
  BY <1>1, WithValueSane, ReadFits DEF HasValue
<1>3. HasError(p) => Sane(WithError(ready, p.error)) /\ (Whole(p) => Whole(WithError(ready, p.error)))
  BY <1>1, WithErrorSane, ReadFits DEF HasValue, HasError
<1>4. Whole(p) => HasValue(p) \/ HasError(p)
  BY DEF Whole
<1>5. /\ Sane(ValueTaken(p)) /\ (Whole(p) => Whole(ValueTaken(p)))
      /\ Sane(ErrorTaken(p)) /\ (Whole(p) => Whole(ErrorTaken(p)))
  BY ValueTakenSane, ErrorTakenSane
<1> QED BY <1>1, <1>2, <1>3, <1>4, <1>5, FailsGood, ReturnsGood, AttemptGood
    DEF ObjectMoveFrom, SaneOrAbsent, WholeOrAbsent, ready, Sides

LEMMA ContentsAlive ==
    ASSUME NEW c \in Contents
    PROVE  c \in Alive /\ c # Garbage /\ c # Dead
BY ContentsAssumption DEF Alive

LEMMA ObjectNewGood ==
    ASSUME form = "object", NEW side \in Sides, NEW c \in Contents
    PROVE  Good(ObjectNew(side, c)) /\ Clean(ObjectNew(side, c))
<1>1. Sane(Empty) /\ Empty.tag = "empty"
  BY EmptySane DEF Empty, Stored
<1>2. /\ Sane(WithValue(Empty, c)) /\ Whole(WithValue(Empty, c))
      /\ Sane(WithError(Empty, c)) /\ Whole(WithError(Empty, c))
  BY <1>1, WithValueSane, WithErrorSane, ContentsAlive
<1> QED BY <1>2, ReturnsGood, ThrowsGood, AttemptGood DEF ObjectNew, SaneOrAbsent, WholeOrAbsent

LEMMA ObjectAssignGood ==
    ASSUME form = "object", NEW o, Sane(o), NEW c \in Contents
    PROVE  /\ Good(ObjectAssignValue(o, c)) /\ Good(ObjectEmplace(o, c))
           /\ Whole(o) => Clean(ObjectAssignValue(o, c)) /\ Clean(ObjectEmplace(o, c))
<1>. DEFINE ready == Ready(o, "value")
<1>1. Sane(ready) /\ ready.tag \in {"value", "empty"}
  BY ReadySane
<1>2. Sane(Destroyed(o)) /\ Destroyed(o).tag = "empty"
  BY DestroyedSane
<1>. HIDE DEF ready
<1>3. /\ Sane(WithValue(ready, c)) /\ Whole(WithValue(ready, c))
      /\ Sane(WithValue(Destroyed(o), c)) /\ Whole(WithValue(Destroyed(o), c))
  BY <1>1, <1>2, WithValueSane, ContentsAlive
<1> QED BY <1>1, <1>2, <1>3, FailsGood, ReturnsGood, ThrowsGood, AttemptGood
    DEF ObjectAssignValue, ObjectEmplace, SaneOrAbsent, WholeOrAbsent, ready, Sides

\* swap()
LEMMA TurnedGood ==
    ASSUME NEW outcomes
    PROVE  /\ Good(outcomes) => Good(Turned(outcomes))
           /\ Clean(outcomes) => Clean(Turned(outcomes))
BY DEF Good, Clean, Turned, Outcome

\* std::swap of two members, of any form.
LEMMA SwapMembersGood ==
    ASSUME NEW o, NEW p, NEW side \in Sides, Sane(o), Sane(p),
           side = "value" => HasValue(o) /\ HasValue(p) /\ form # "void",
           side = "error" => ~HasValue(o) /\ ~HasValue(p)
    PROVE  /\ Good(SwapMembers(o, p, side))
           /\ Whole(o) /\ Whole(p) => Clean(SwapMembers(o, p, side))
<1>1. /\ MovedOut \in Alive /\ Content(o, side) \in Alive /\ Content(p, side) \in Alive
      /\ Whole(o) /\ Whole(p) => Content(o, side) # Garbage /\ Content(p, side) # Garbage
  BY ReadFits DEF Alive, Content, Sides
<1>. DEFINE first == Refilled(o, side, Content(p, side))
            second == Refilled(p, side, Content(o, side))
            lost == Refilled(o, side, MovedOut)
            half == Refilled(p, side, MovedOut)
<1>2. /\ Sane(first) /\ Sane(second) /\ Sane(lost) /\ Sane(half)
      /\ Whole(o) /\ Whole(p) => Whole(first) /\ Whole(second)
  BY <1>1, RefilledSane
<1>. HIDE DEF first, second, lost, half
<1>. DEFINE done == Attempt(MoveMayThrow(side), Returns(first, second), Throws(o, p))
<1>3. Good(done) /\ (Whole(o) /\ Whole(p) => Clean(done))
  BY <1>2, ReturnsGood, ThrowsGood, AttemptGood DEF SaneOrAbsent, WholeOrAbsent
<1>4. /\ Good(Throws(lost, p)) /\ Clean(Throws(lost, p))
      /\ Good(Throws(first, half)) /\ Clean(Throws(first, half))
  BY <1>2, ThrowsGood DEF SaneOrAbsent
<1>5. SwapMembers(o, p, side) = done \cup Throws(lost, p) \cup Throws(first, half)
  BY DEF SwapMembers, first, second, lost, half
<1>. HIDE DEF done
<1> QED BY <1>3, <1>4, <1>5 DEF Good, Clean

LEMMA SwapSameGood ==
    ASSUME form = "object", NEW o, NEW p, Sane(o), Sane(p)
    PROVE  /\ HasValue(o) /\ HasValue(p) =>
                /\ Good(ObjectSwapValues(o, p))
                /\ Whole(o) /\ Whole(p) => Clean(ObjectSwapValues(o, p))
           /\ HasError(o) /\ HasError(p) =>
                /\ Good(ObjectSwapErrors(o, p))
                /\ Whole(o) /\ Whole(p) => Clean(ObjectSwapErrors(o, p))
<1>1. "value" \in Sides /\ "error" \in Sides /\ "value" # "error"
  BY DEF Sides
<1>2. HasError(o) /\ HasError(p) => ~HasValue(o) /\ ~HasValue(p)
  BY DEF HasError, HasValue
<1> QED BY <1>1, <1>2, SwapMembersGood DEF ObjectSwapValues, ObjectSwapErrors

LEMMA SwapByErrorGood ==
    ASSUME form = "object", NEW o, NEW p, Sane(o), Sane(p), HasValue(o), ~HasValue(p)
    PROVE  /\ Good(ObjectSwapByError(o, p))
           /\ Whole(o) /\ Whole(p) => Clean(ObjectSwapByError(o, p))
<1>1. /\ Sane(Destroyed(o)) /\ Destroyed(o).tag = "empty"
      /\ Sane(Destroyed(p)) /\ Destroyed(p).tag = "empty"
  BY DestroyedSane
<1>2. /\ Sane(WithError(Destroyed(o), Read(p.error)))
      /\ Sane(WithError(Destroyed(p), Read(p.error)))
      /\ Whole(p) => Whole(WithError(Destroyed(o), Read(p.error)))
  BY <1>1, WithErrorSane, ReadFits
<1>3. /\ Sane(WithValue(Destroyed(p), o.value))
      /\ Whole(o) => Whole(WithValue(Destroyed(p), o.value))
  BY <1>1, WithValueSane, ReadFits
<1> QED BY <1>2, <1>3, ReturnsGood, ThrowsGood, AttemptGood
    DEF ObjectSwapByError, SaneOrAbsent, WholeOrAbsent

\* Only where both moves may throw does a value get built over an error.
LEMMA SwapByValueGood ==
    ASSUME form = "object", NEW o, NEW p, Sane(o), Sane(p), HasValue(o), ~HasValue(p),
           "error" \in throwing, throwing \in SUBSET Sides
    PROVE  /\ Good(ObjectSwapByValue(o, p))
           /\ Whole(o) /\ Whole(p) => Clean(ObjectSwapByValue(o, p))
<1>. DEFINE bare == Destroyed(o)
            crossed == WithError(bare, Read(p.error))
            over == Attempt("value" \in throwing, {},
                     Throws(o, p) \cup Throws(bare, p)
                     \cup Throws(WithValue(crossed, o.value), Destroyed(p))
                     \cup Throws(crossed, Destroyed(p)))
<1>1. /\ Sane(bare) /\ bare.tag = "empty"
      /\ Sane(Destroyed(p)) /\ Destroyed(p).tag = "empty"
  BY DestroyedSane
<1>2. Sane(crossed) /\ (Whole(p) => Whole(crossed))
  BY <1>1, WithErrorSane, ReadFits
<1>3. /\ Sane(WithValue(Destroyed(p), o.value))
      /\ Whole(o) => Whole(WithValue(Destroyed(p), o.value))
      /\ Sane(WithValue(bare, o.value))
  BY <1>1, WithValueSane, ReadFits
<1>4. "value" \in throwing => Sane(WithValue(crossed, o.value))
  <2>1. "value" \in throwing => ~TagMatters
    BY DEF TagMatters, Sides
  <2> QED BY <1>2, <2>1, WithValueSane, ReadFits
<1>. HIDE DEF bare, crossed
<1>5. Good(over) /\ Clean(over)
  <2>1. \A a, b : Good(a) /\ Good(b) => Good(a \cup b)
    BY DEF Good
  <2>2. \A a, b : Clean(a) /\ Clean(b) => Clean(a \cup b)
    BY DEF Clean
  <2>3. Good({}) /\ Clean({})
    BY DEF Good, Clean
  <2>. DEFINE one == Throws(o, p)
              two == Throws(bare, p)
              three == Throws(WithValue(crossed, o.value), Destroyed(p))
              four == Throws(crossed, Destroyed(p))
  <2>4. Good(one) /\ Good(two) /\ ("value" \in throwing => Good(three)) /\ Good(four)
    BY <1>1, <1>2, <1>4, ThrowsGood DEF SaneOrAbsent
  <2>5. Clean(one) /\ Clean(two) /\ Clean(three) /\ Clean(four)
    BY ThrowsGood
  <2>. HIDE DEF one, two, three, four
  <2>6. Clean(one \cup two \cup three \cup four)
    BY <2>2, <2>5
  <2>7. "value" \in throwing => Good(one \cup two \cup three \cup four)
    BY <2>1, <2>4
  <2>8. over = Attempt("value" \in throwing, {}, one \cup two \cup three \cup four)
    BY DEF one, two, three, four
  <2> QED BY <2>3, <2>6, <2>7, <2>8, AttemptGood
<1>. HIDE DEF over
<1>6. ObjectSwapByValue(o, p)
        = Returns(crossed, WithValue(Destroyed(p), o.value))
          \cup Throws(WithValue(bare, o.value), p) \cup over
  BY DEF ObjectSwapByValue, over, crossed, bare
<1>7. /\ Good(Returns(crossed, WithValue(Destroyed(p), o.value)))
      /\ Whole(o) /\ Whole(p) => Clean(Returns(crossed, WithValue(Destroyed(p), o.value)))
  BY <1>2, <1>3, ReturnsGood DEF SaneOrAbsent, WholeOrAbsent
<1>8. Good(Throws(WithValue(bare, o.value), p)) /\ Clean(Throws(WithValue(bare, o.value), p))
  BY <1>3, ThrowsGood DEF SaneOrAbsent
<1> QED BY <1>5, <1>6, <1>7, <1>8 DEF Good, Clean

LEMMA ObjectSwapGood ==
    ASSUME form = "object", throwing \in SUBSET Sides, NEW o, NEW p, Sane(o), Sane(p)
    PROVE  /\ Good(ObjectSwap(o, p))
           /\ Whole(o) /\ Whole(p) => Clean(ObjectSwap(o, p))
<1>1. \A q, s : Sane(q) /\ Sane(s) /\ HasValue(q) /\ ~HasValue(s) =>
        /\ Good(ObjectSwapValueFor(q, s))
        /\ Whole(q) /\ Whole(s) => Clean(ObjectSwapValueFor(q, s))
  BY SwapByErrorGood, SwapByValueGood DEF ObjectSwapValueFor
<1>2. "value" # "error"
  OBVIOUS
<1>3. CASE HasValue(o) /\ HasValue(p)
  <2>1. ObjectSwap(o, p) = ObjectSwapValues(o, p)
    BY <1>2, <1>3, Zenon DEF ObjectSwap, HasValue, HasError
  <2> QED BY <1>3, <2>1, SwapSameGood
<1>4. CASE HasError(o) /\ HasError(p)
  <2>1. ObjectSwap(o, p) = ObjectSwapErrors(o, p)
    BY <1>2, <1>4, Zenon DEF ObjectSwap, HasValue, HasError
  <2> QED BY <1>4, <2>1, SwapSameGood
<1>5. CASE HasValue(o) /\ ~HasValue(p)
  <2>1. ObjectSwap(o, p) = ObjectSwapValueFor(o, p)
    BY <1>2, <1>5, Zenon DEF ObjectSwap, HasValue, HasError
  <2> QED BY <1>1, <1>5, <2>1
<1>6. CASE ~HasValue(o) /\ HasValue(p)
  <2>1. ObjectSwap(o, p) = Turned(ObjectSwapValueFor(p, o))
    BY <1>2, <1>6, Zenon DEF ObjectSwap, HasValue, HasError
  <2> QED BY <1>1, <1>6, <2>1, TurnedGood
<1>7. CASE ~HasValue(o) /\ ~HasValue(p) /\ ~(HasError(o) /\ HasError(p))
  <2>1. ObjectSwap(o, p) = {Outcome(o, p, "died")}
    BY <1>7, Zenon DEF ObjectSwap
  <2>2. Good({Outcome(o, p, "died")})
    BY DEF Good, Outcome, SaneOrAbsent
  <2>3. ~(Whole(o) /\ Whole(p))
    BY <1>7 DEF Whole
  <2> QED BY <2>1, <2>2, <2>3
<1> QED BY <1>3, <1>4, <1>5, <1>6, <1>7

-----------------------------------------------------------------------------
(* The monadic calls, of all three forms.                                   *)

LEMMA LeftSane ==
    ASSUME NEW o, NEW side, NEW rvalue, Sane(o)
    PROVE  Sane(Left(o, side, rvalue)) /\ (Whole(o) => Whole(Left(o, side, rvalue)))
BY ValueTakenSane, ErrorTakenSane DEF Left

LEMMA MadeSane ==
    ASSUME form \in Forms, NEW c \in Alive
    PROVE  /\ Sane(MadeValue(c)) /\ (c # Garbage => Whole(MadeValue(c)))
           /\ Sane(MadeError(c)) /\ (c # Garbage => Whole(MadeError(c)))
<1>1. Empty.tag = "empty"
  BY DEF Empty, Stored
<1>2. form # "void" => Sane(WithValue(Empty, c)) /\ (c # Garbage => Whole(WithValue(Empty, c)))
  BY <1>1, EmptySane, WithValueSane
<1>3. form = "void" => Sane(VoidValue) /\ Whole(VoidValue)
  BY DEF Sane, Fits, Storage, TagMatters, VoidValue, Stored, Whole, HasValue, Sides
<1>4. CASE form # "void"
  BY <1>1, <1>2, <1>4, EmptySane, WithErrorSane DEF MadeValue, MadeError
<1>5. CASE form = "void"
  <2>1. c \in Alive \cup {Dead} /\ Dead \in Alive \cup {Dead}
    OBVIOUS
  <2>2. Sane(WithError(Empty, c))
    BY <1>5, <2>1 DEF Sane, Fits, Storage, TagMatters, WithError, Empty, Stored, Sides
  <2>3. c # Garbage => Whole(WithError(Empty, c))
    BY DEF Whole, HasError, WithError, Empty, Stored, Alive
  <2> QED BY <1>3, <1>5, <2>2, <2>3 DEF MadeValue, MadeError
<1> QED BY <1>4, <1>5

LEMMA MadeSetsSane ==
    ASSUME form \in Forms
    PROVE  /\ \A r \in MadeValues : Sane(r) /\ Whole(r)
           /\ \A r \in MadeErrors : Sane(r) /\ Whole(r)
           /\ \A r \in MadeValues \cup MadeErrors : Sane(r) /\ Whole(r)
BY MadeSane, ContentsAlive DEF MadeValues, MadeErrors

LEMMA ApplyGood ==
    ASSUME NEW o, NEW side, NEW rvalue, NEW results, Sane(o),
           \A r \in results : Sane(r) /\ Whole(r)
    PROVE  /\ Good(Apply(o, side, rvalue, results))
           /\ Whole(o) => Clean(Apply(o, side, rvalue, results))
<1>. DEFINE left == Left(o, side, rvalue)
            returned == {Outcome(left, r, "returned") : r \in results}
<1>1. Sane(left) /\ (Whole(o) => Whole(left))
  BY LeftSane
<1>. HIDE DEF left
<1>2. Good(returned) /\ (Whole(o) => Clean(returned))
  BY <1>1 DEF Good, Clean, Outcome, SaneOrAbsent, WholeOrAbsent
<1>3. Good(Throws(left, Absent)) /\ Clean(Throws(left, Absent))
  BY <1>1, ThrowsGood DEF SaneOrAbsent
<1>. HIDE DEF returned
<1>4. Apply(o, side, rvalue, results) = Attempt(TRUE, returned, Throws(left, Absent))
  BY DEF Apply, returned, left
<1> QED BY <1>2, <1>3, <1>4, AttemptGood

LEMMA HandOverGood ==
    ASSUME form \in Forms, NEW o, NEW side \in Sides, NEW rvalue, Sane(o)
    PROVE  /\ Good(HandOver(o, side, rvalue))
           /\ Whole(o) /\ (side = "value" <=> HasValue(o)) /\ (side = "value" => form # "void")
                => Clean(HandOver(o, side, rvalue))
<1>. DEFINE made == IF side = "value" THEN MadeValue(Read(o.value)) ELSE MadeError(Read(o.error))
            may == IF rvalue THEN MoveMayThrow(side) ELSE CopyMayThrow(side)
            left == Left(o, side, rvalue)
<1>1. Sane(left) /\ (Whole(o) => Whole(left))
  BY LeftSane
<1>2. /\ Sane(made)
      /\ Whole(o) /\ (side = "value" <=> HasValue(o)) /\ (side = "value" => form # "void") => Whole(made)
  BY MadeSane, ReadFits
<1>. HIDE DEF made, left
<1>3. /\ Good(Returns(left, made)) /\ Good(Throws(o, Absent)) /\ Clean(Throws(o, Absent))
      /\ Whole(left) /\ Whole(made) => Clean(Returns(left, made))
  BY <1>1, <1>2, ReturnsGood, ThrowsGood DEF SaneOrAbsent, WholeOrAbsent
<1>. HIDE DEF may
<1>4. HandOver(o, side, rvalue) = Attempt(may, Returns(left, made), Throws(o, Absent))
  BY DEF HandOver, made, may, left
<1> QED BY <1>1, <1>2, <1>3, <1>4, AttemptGood

LEMMA MonadicGood ==
    ASSUME form \in Forms, NEW o, NEW rvalue, Sane(o)
    PROVE  /\ form = "object" =>
                /\ Good(ObjectAndThen(o, rvalue)) /\ Good(ObjectTransform(o, rvalue))
                /\ Good(ObjectTransformError(o, rvalue)) /\ Good(ObjectOrElse(o, rvalue))
                /\ Whole(o) =>
                    /\ Clean(ObjectAndThen(o, rvalue)) /\ Clean(ObjectTransform(o, rvalue))
                    /\ Clean(ObjectTransformError(o, rvalue)) /\ Clean(ObjectOrElse(o, rvalue))
           /\ form = "reference" =>
                /\ Good(ReferenceAndThen(o, rvalue)) /\ Good(ReferenceTransform(o, rvalue))
                /\ Good(ReferenceTransformError(o, rvalue)) /\ Good(ReferenceOrElse(o, rvalue))
                /\ Whole(o) =>
                    /\ Clean(ReferenceAndThen(o, rvalue)) /\ Clean(ReferenceTransform(o, rvalue))
                    /\ Clean(ReferenceTransformError(o, rvalue)) /\ Clean(ReferenceOrElse(o, rvalue))
           /\ form = "void" =>
                /\ Good(VoidAndThen(o, rvalue)) /\ Good(VoidTransform(o, rvalue))
                /\ Good(VoidTransformError(o, rvalue)) /\ Good(VoidOrElse(o, rvalue))
                /\ Whole(o) =>
                    /\ Clean(VoidAndThen(o, rvalue)) /\ Clean(VoidTransform(o, rvalue))
                    /\ Clean(VoidTransformError(o, rvalue)) /\ Clean(VoidOrElse(o, rvalue))
<1>1. \A side \in Sides : \A taken \in {rvalue, FALSE} :
        \A results \in {MadeValues, MadeErrors, MadeValues \cup MadeErrors} :
            /\ Good(Apply(o, side, taken, results))
            /\ Whole(o) => Clean(Apply(o, side, taken, results))
  BY ApplyGood, MadeSetsSane
<1>2. "value" \in Sides /\ "error" \in Sides /\ "value" # "error"
  BY DEF Sides
<1>3. /\ Good(HandOver(o, "value", rvalue)) /\ Good(HandOver(o, "error", rvalue))
      /\ Whole(o) /\ HasValue(o) /\ form # "void" => Clean(HandOver(o, "value", rvalue))
      /\ Whole(o) /\ ~HasValue(o) => Clean(HandOver(o, "error", rvalue))
  BY <1>2, HandOverGood
<1>4. form = "void" => Sane(VoidValue) /\ Whole(VoidValue)
  BY DEF Sane, Fits, Storage, TagMatters, VoidValue, Stored, Whole, HasValue, Sides
<1>5. form = "void" => Good(Returns(o, VoidValue)) /\ (Whole(o) => Clean(Returns(o, VoidValue)))
  BY <1>4, ReturnsGood DEF SaneOrAbsent, WholeOrAbsent
<1>6. CASE form = "object"
  BY <1>1, <1>2, <1>3, <1>6
     DEF ObjectAndThen, ObjectTransform, ObjectTransformError, ObjectOrElse
<1>7. CASE form = "reference"
  BY <1>1, <1>2, <1>3, <1>7
     DEF ReferenceAndThen, ReferenceTransform, ReferenceTransformError, ReferenceOrElse
<1>8. CASE form = "void"
  BY <1>1, <1>2, <1>3, <1>5, <1>8
     DEF VoidAndThen, VoidTransform, VoidTransformError, VoidOrElse
<1> QED BY <1>6, <1>7, <1>8 DEF Forms

-----------------------------------------------------------------------------
(* expected<T&, E>                                                          *)

LEMMA ReferenceNewGood ==
    ASSUME form = "reference", NEW side \in Sides, NEW c \in Contents
    PROVE  Good(ReferenceNew(side, c)) /\ Clean(ReferenceNew(side, c))
<1>1. Sane(Empty) /\ Empty.tag = "empty"
  BY EmptySane DEF Empty, Stored
<1>2. /\ Sane(WithValue(Empty, c)) /\ Whole(WithValue(Empty, c))
      /\ Sane(WithError(Empty, c)) /\ Whole(WithError(Empty, c))
  BY <1>1, WithValueSane, WithErrorSane, ContentsAlive
<1> QED BY <1>2, ReturnsGood, ThrowsGood, AttemptGood DEF ReferenceNew, SaneOrAbsent,
   WholeOrAbsent

LEMMA ReferenceTakeGood ==
    ASSUME form = "reference", NEW o, NEW p, Sane(o), o.tag = "empty", Sane(p)
    PROVE  /\ Good(ReferenceCopied(o, p)) /\ Good(ReferenceMoved(o, p))
           /\ Whole(p) => Clean(ReferenceCopied(o, p)) /\ Clean(ReferenceMoved(o, p))
<1>1. HasValue(p) => Sane(WithValue(o, p.value)) /\ (Whole(p) => Whole(WithValue(o, p.value)))
  BY WithValueSane, ReadFits
<1>2. /\ Sane(WithError(o, Read(p.error)))
      /\ ~HasValue(p) /\ Whole(p) => Whole(WithError(o, Read(p.error)))
  BY WithErrorSane, ReadFits
<1>3. Sane(ErrorTaken(p)) /\ (Whole(p) => Whole(ErrorTaken(p)))
  BY ErrorTakenSane
<1> QED BY <1>1, <1>2, <1>3, ReturnsGood, ThrowsGood, AttemptGood
    DEF ReferenceCopied, ReferenceMoved, SaneOrAbsent, WholeOrAbsent

LEMMA ReferenceAssignGood ==
    ASSUME form = "reference", NEW o, NEW p, Sane(o), Sane(p), NEW c \in Contents
    PROVE  /\ Good(ReferenceCopyAssign(o, p)) /\ Good(ReferenceMoveAssign(o, p))
           /\ Good(ReferenceEmplace(o, c))
           /\ Whole(p) => Clean(ReferenceCopyAssign(o, p)) /\ Clean(ReferenceMoveAssign(o, p))
           /\ Whole(o) => Clean(ReferenceEmplace(o, c))
<1>1. Sane(Destroyed(o)) /\ Destroyed(o).tag = "empty"
  BY DestroyedSane
<1>2. Sane(WithValue(Destroyed(o), c)) /\ Whole(WithValue(Destroyed(o), c))
  BY <1>1, WithValueSane, ContentsAlive
<1>3. /\ Good(ReferenceCopyAssign(o, p)) /\ Good(ReferenceMoveAssign(o, p))
      /\ Whole(p) => Clean(ReferenceCopyAssign(o, p)) /\ Clean(ReferenceMoveAssign(o, p))
  BY <1>1, ReferenceTakeGood DEF ReferenceCopyAssign, ReferenceMoveAssign
<1> QED BY <1>2, <1>3, ReturnsGood DEF ReferenceEmplace, SaneOrAbsent, WholeOrAbsent

\* Two errors are exchanged, also where there are none.
LEMMA SwapErrorsGood ==
    ASSUME NEW o, NEW p, Sane(o), Sane(p), ~HasValue(o), ~HasValue(p)
    PROVE  /\ Good(ReferenceSwapErrors(o, p)) /\ Good(VoidSwapErrors(o, p))
           /\ Whole(o) /\ Whole(p) =>
                Clean(ReferenceSwapErrors(o, p)) /\ Clean(VoidSwapErrors(o, p))
<1>1. "error" \in Sides /\ "value" # "error"
  BY DEF Sides
<1> QED BY <1>1, SwapMembersGood DEF ReferenceSwapErrors, VoidSwapErrors

LEMMA ReferenceSwapGood ==
    ASSUME form = "reference", NEW o, NEW p, Sane(o), Sane(p)
    PROVE  /\ Good(ReferenceSwap(o, p))
           /\ Whole(o) /\ Whole(p) => Clean(ReferenceSwap(o, p))
<1>1. \A q, s : Sane(q) /\ Sane(s) /\ HasValue(q) /\ ~HasValue(s) =>
        /\ Good(ReferenceSwapValueFor(q, s))
        /\ Whole(q) /\ Whole(s) => Clean(ReferenceSwapValueFor(q, s))
  <2> SUFFICES ASSUME NEW q, NEW s, Sane(q), Sane(s), HasValue(q), ~HasValue(s)
               PROVE  /\ Good(ReferenceSwapValueFor(q, s))
                      /\ Whole(q) /\ Whole(s) => Clean(ReferenceSwapValueFor(q, s))
    OBVIOUS
  <2>1. /\ Sane(Destroyed(q)) /\ Destroyed(q).tag = "empty"
        /\ Sane(Destroyed(s)) /\ Destroyed(s).tag = "empty"
    BY DestroyedSane
  <2>2. /\ Sane(WithError(Destroyed(q), Read(s.error)))
        /\ Whole(s) => Whole(WithError(Destroyed(q), Read(s.error)))
    BY <2>1, WithErrorSane, ReadFits
  <2>3. /\ Sane(WithValue(Destroyed(s), q.value))
        /\ Whole(q) => Whole(WithValue(Destroyed(s), q.value))
    BY <2>1, WithValueSane, ReadFits
  <2> QED BY <2>2, <2>3, ReturnsGood, ThrowsGood, AttemptGood
      DEF ReferenceSwapValueFor, SaneOrAbsent, WholeOrAbsent
<1>2. CASE HasValue(o) /\ HasValue(p)
  <2>1. ReferenceSwap(o, p) = Returns(p, o)
    BY <1>2, Zenon DEF ReferenceSwap
  <2> QED BY <2>1, ReturnsGood DEF SaneOrAbsent, WholeOrAbsent
<1>3. CASE ~HasValue(o) /\ ~HasValue(p)
  <2>1. ReferenceSwap(o, p) = ReferenceSwapErrors(o, p)
    BY <1>3, Zenon DEF ReferenceSwap
  <2> QED BY <1>3, <2>1, SwapErrorsGood
<1>4. CASE HasValue(o) /\ ~HasValue(p)
  <2>1. ReferenceSwap(o, p) = ReferenceSwapValueFor(o, p)
    BY <1>4, Zenon DEF ReferenceSwap
  <2> QED BY <1>1, <1>4, <2>1
<1>5. CASE ~HasValue(o) /\ HasValue(p)
  <2>1. ReferenceSwap(o, p) = Turned(ReferenceSwapValueFor(p, o))
    BY <1>5, Zenon DEF ReferenceSwap
  <2> QED BY <1>1, <1>5, <2>1, TurnedGood
<1> QED BY <1>2, <1>3, <1>4, <1>5

-----------------------------------------------------------------------------
(* expected<void, E>                                                        *)

LEMMA VoidStorageSane ==
    ASSUME form = "void", NEW o, Sane(o)
    PROVE  /\ Sane(VoidValue) /\ Whole(VoidValue)
           /\ Sane(Stored("value", o.value, o.error)) /\ Whole(Stored("value", o.value, o.error))
           /\ \A tag \in Sides : Sane(Tagged(o, tag))
           /\ Whole(Tagged(o, "value"))
           /\ o.tag \in Sides
<1>1. /\ o.tag \in Sides /\ o.value = Dead /\ o.error \in Alive \cup {Dead}
      /\ "value" \in Sides /\ "value" # "error"
  BY DEF Sane, Fits, Storage, Sides
<1>2. Sane(VoidValue) /\ Whole(VoidValue)
  BY DEF Sane, Fits, Storage, TagMatters, VoidValue, Stored, Whole, HasValue, Sides
<1>3. Sane(Stored("value", o.value, o.error)) /\ Whole(Stored("value", o.value, o.error))
  BY <1>1 DEF Sane, Fits, Storage, TagMatters, Stored, Whole, HasValue
<1>4. ASSUME NEW tag \in Sides PROVE Sane(Tagged(o, tag))
  BY <1>1 DEF Sane, Fits, Storage, TagMatters, Tagged, Stored
<1>5. Whole(Tagged(o, "value"))
  BY DEF Whole, HasValue, Tagged, Stored
<1> QED BY <1>1, <1>2, <1>3, <1>4, <1>5

LEMMA VoidNewGood ==
    ASSUME form = "void", NEW side \in Sides, NEW c \in Contents
    PROVE  Good(VoidNew(side, c)) /\ Clean(VoidNew(side, c))
<1>1. Sane(VoidValue) /\ Whole(VoidValue)
  BY DEF Sane, Fits, Storage, TagMatters, VoidValue, Stored, Whole, HasValue, Sides
<1>2. Sane(MadeError(c)) /\ Whole(MadeError(c))
  BY MadeSane, ContentsAlive DEF Forms
<1> QED BY <1>1, <1>2, ReturnsGood, ThrowsGood, AttemptGood DEF VoidNew, SaneOrAbsent,
   WholeOrAbsent

LEMMA VoidTakeGood ==
    ASSUME form = "void", NEW o, NEW p, Sane(o), Sane(p)
    PROVE  /\ Good(VoidCopyNew(p)) /\ Good(VoidMoveNew(p))
           /\ Good(VoidCopyAssign(o, p)) /\ Good(VoidMoveAssign(o, p))
           /\ Whole(p) =>
                /\ Clean(VoidCopyNew(p)) /\ Clean(VoidMoveNew(p))
                /\ Clean(VoidCopyAssign(o, p)) /\ Clean(VoidMoveAssign(o, p))
<1>. DEFINE bare == Tagged(o, p.tag)
<1>1. Sane(bare) /\ (HasValue(p) => Whole(bare)) /\ Sane(VoidValue) /\ Whole(VoidValue)
  BY VoidStorageSane DEF HasValue
<1>2. ~TagMatters
  BY DEF TagMatters
<1>. HIDE DEF bare
<1>3. /\ Sane(WithError(bare, Read(p.error)))
      /\ ~HasValue(p) /\ Whole(p) => Whole(WithError(bare, Read(p.error)))
  BY <1>1, <1>2, WithErrorSane, ReadFits
<1>4. /\ Sane(MadeError(Read(p.error)))
      /\ ~HasValue(p) /\ Whole(p) => Whole(MadeError(Read(p.error)))
  BY MadeSane, ReadFits DEF Forms
<1>5. Sane(ErrorTaken(p)) /\ (Whole(p) => Whole(ErrorTaken(p)))
  BY ErrorTakenSane
<1>6. /\ Good(VoidCopyNew(p)) /\ Good(VoidMoveNew(p))
      /\ Whole(p) => Clean(VoidCopyNew(p)) /\ Clean(VoidMoveNew(p))
  BY <1>1, <1>4, <1>5, ReturnsGood, ThrowsGood, AttemptGood
     DEF VoidCopyNew, VoidMoveNew, SaneOrAbsent, WholeOrAbsent
<1>7. /\ Good(VoidCopyAssign(o, p)) /\ Good(VoidMoveAssign(o, p))
      /\ Whole(p) => Clean(VoidCopyAssign(o, p)) /\ Clean(VoidMoveAssign(o, p))
  BY <1>1, <1>3, <1>5, ReturnsGood, ThrowsGood, AttemptGood
     DEF VoidCopyAssign, VoidMoveAssign, SaneOrAbsent, WholeOrAbsent, bare
<1> QED BY <1>6, <1>7

LEMMA VoidEmplaceGood ==
    ASSUME form = "void", NEW o, Sane(o)
    PROVE  Good(VoidEmplace(o)) /\ (Whole(o) => Clean(VoidEmplace(o)))
BY VoidStorageSane, ReturnsGood DEF VoidEmplace, SaneOrAbsent, WholeOrAbsent

LEMMA VoidSwapGood ==
    ASSUME form = "void", NEW o, NEW p, Sane(o), Sane(p)
    PROVE  /\ Good(VoidSwap(o, p))
           /\ Whole(o) /\ Whole(p) => Clean(VoidSwap(o, p))
<1>1. \A q, s : Sane(q) /\ Sane(s) /\ HasValue(q) /\ ~HasValue(s) =>
        /\ Good(VoidSwapValueFor(q, s))
        /\ Whole(q) /\ Whole(s) => Clean(VoidSwapValueFor(q, s))
  <2> SUFFICES ASSUME NEW q, NEW s, Sane(q), Sane(s), HasValue(q), ~HasValue(s)
               PROVE  /\ Good(VoidSwapValueFor(q, s))
                      /\ Whole(q) /\ Whole(s) => Clean(VoidSwapValueFor(q, s))
    OBVIOUS
  <2>1. ~TagMatters
    BY DEF TagMatters
  <2>2. /\ Sane(WithError(q, Read(s.error)))
        /\ Whole(s) => Whole(WithError(q, Read(s.error)))
    BY <2>1, WithErrorSane, ReadFits
  <2>3. Sane(Tagged(s, "value")) /\ Whole(Tagged(s, "value"))
    BY VoidStorageSane DEF Sides
  <2> QED BY <2>2, <2>3, ReturnsGood, ThrowsGood, AttemptGood
      DEF VoidSwapValueFor, SaneOrAbsent, WholeOrAbsent
<1>2. CASE HasValue(o) /\ HasValue(p)
  <2>1. VoidSwap(o, p) = Returns(o, p)
    BY <1>2, Zenon DEF VoidSwap
  <2> QED BY <2>1, ReturnsGood DEF SaneOrAbsent, WholeOrAbsent
<1>3. CASE ~HasValue(o) /\ ~HasValue(p)
  <2>1. VoidSwap(o, p) = VoidSwapErrors(o, p)
    BY <1>3, Zenon DEF VoidSwap
  <2> QED BY <1>3, <2>1, SwapErrorsGood
<1>4. CASE HasValue(o) /\ ~HasValue(p)
  <2>1. VoidSwap(o, p) = VoidSwapValueFor(o, p)
    BY <1>4, Zenon DEF VoidSwap
  <2> QED BY <1>1, <1>4, <2>1
<1>5. CASE ~HasValue(o) /\ HasValue(p)
  <2>1. VoidSwap(o, p) = Turned(VoidSwapValueFor(p, o))
    BY <1>5, Zenon DEF VoidSwap
  <2> QED BY <1>1, <1>5, <2>1, TurnedGood
<1> QED BY <1>2, <1>3, <1>4, <1>5

-----------------------------------------------------------------------------
(* Calls that read.                                                         *)

GoodRead(o, outcomes) ==
    \A r \in outcomes :
        Sane(r.this) /\ (Whole(o) => Whole(r.this) /\ r.other # Garbage)

LEMMA OneRead ==
    ASSUME NEW o, NEW q, NEW got, NEW end, Sane(q), Whole(o) => Whole(q) /\ got # Garbage
    PROVE  GoodRead(o, {Outcome(q, got, end)})
BY DEF GoodRead, Outcome

LEMMA ReadsGood ==
    ASSUME NEW o, Sane(o), NEW rvalue, NEW c \in Contents
    PROVE  /\ form = "object" =>
                /\ GoodRead(o, ObjectValue(o, rvalue)) /\ GoodRead(o, ObjectDereference(o, rvalue))
                /\ GoodRead(o, ObjectError(o, rvalue)) /\ GoodRead(o, ObjectValueOr(o, rvalue, c))
                /\ GoodRead(o, ObjectErrorOr(o, rvalue, c))
           /\ form = "reference" =>
                /\ GoodRead(o, ReferenceValue(o)) /\ GoodRead(o, ReferenceDereference(o))
                /\ GoodRead(o, ReferenceError(o, rvalue)) /\ GoodRead(o, ReferenceValueOr(o, c))
                /\ GoodRead(o, ReferenceErrorOr(o, rvalue, c))
           /\ form = "void" =>
                /\ GoodRead(o, VoidCheck(o)) /\ GoodRead(o, VoidError(o, rvalue))
                /\ GoodRead(o, VoidErrorOr(o, rvalue, c))
<1>1. \A side : Sane(Left(o, side, rvalue)) /\ (Whole(o) => Whole(Left(o, side, rvalue)))
  BY LeftSane
<1>2. /\ c # Garbage /\ Dead # Garbage
      /\ Whole(o) /\ HasValue(o) /\ form # "void" => o.value # Garbage
      /\ Whole(o) /\ ~HasValue(o) => Read(o.error) # Garbage
  BY ContentsAssumption, ContentsAlive, ReadFits
<1>3. GoodRead(o, {})
  BY DEF GoodRead
<1>4. CASE form = "object"
  BY <1>1, <1>2, <1>3, <1>4, OneRead
     DEF ObjectValue, ObjectDereference, ObjectError, ObjectValueOr, ObjectErrorOr, ObjectCheckFails,
         Returns, Throws
<1>5. CASE form = "reference"
  BY <1>1, <1>2, <1>3, <1>5, OneRead
     DEF ReferenceValue, ReferenceDereference, ReferenceError, ReferenceValueOr, ReferenceErrorOr,
         Returns, Throws
<1>6. CASE form = "void"
  BY <1>1, <1>2, <1>3, <1>6, OneRead DEF VoidCheck, VoidError, VoidErrorOr, Returns, Throws
<1> QED BY <1>4, <1>5, <1>6

-----------------------------------------------------------------------------
(* The invariant and the steps.                                             *)

IInv ==
    /\ form \in Forms
    /\ throwing \in SUBSET Sides
    /\ thrown \in BOOLEAN
    /\ DOMAIN holds = Variables
    /\ holds = [v \in Variables |-> holds[v]]
    /\ \A v \in Variables : SaneOrAbsent(holds[v])
    /\ ~thrown => \A v \in Variables : WholeOrAbsent(holds[v])
    /\ ~thrown => call.got # Garbage /\ (call.op = "swap" => call.end # "died")

LEMMA InvariantImplies == IInv => TypeOK /\ TagIsTrue /\ WholeUntilThrown
<1> SUFFICES ASSUME IInv PROVE TypeOK /\ TagIsTrue /\ WholeUntilThrown
  OBVIOUS
<1>1. TypeOK
  <2>1. \A v \in Variables : holds[v] \in Storage \cup {Absent}
    BY DEF IInv, SaneOrAbsent, Sane, Fits
  <2>2. holds \in [Variables -> Storage \cup {Absent}]
    BY <2>1 DEF IInv
  <2>3. form = "void" =>
          \A v \in Variables : InScope(v) => holds[v].tag \in Sides /\ holds[v].value = Dead
    BY DEF IInv, SaneOrAbsent, Sane, Fits, InScope
  <2> QED BY <2>2, <2>3 DEF TypeOK, IInv
<1>2. WholeUntilThrown
  BY DEF IInv, WholeUntilThrown, WholeOrAbsent, InScope
<1>3. TagIsTrue
  <2> SUFFICES ASSUME NEW v \in Variables, InScope(v)
               PROVE  CASE form = "reference" -> TagTellsTruth(holds[v])
                        [] form = "object" -> throwing # Sides => TagTellsTruth(holds[v])
                        [] form = "void" -> HasError(holds[v]) /\ ~thrown => holds[v].error # Dead
    BY DEF TagIsTrue
  <2>1. Sane(holds[v])
    BY DEF IInv, SaneOrAbsent, InScope
  <2>2. ~thrown => Whole(holds[v])
    BY DEF IInv, WholeOrAbsent, InScope
  <2>3. "reference" # "object" /\ "reference" # "void" /\ "object" # "void"
    OBVIOUS
  <2>4. CASE form = "reference"
    <3>1. TagTellsTruth(holds[v])
      BY <2>1, <2>4 DEF Sane, TagMatters
    <3> QED BY <2>3, <2>4, <3>1, Zenon
  <2>5. CASE form = "object"
    <3>1. throwing # Sides => TagTellsTruth(holds[v])
      BY <2>1, <2>5 DEF Sane, TagMatters
    <3> QED BY <2>3, <2>5, <3>1, Zenon
  <2>6. CASE form = "void"
    <3>1. HasError(holds[v]) /\ ~thrown => holds[v].error # Dead
      BY <2>2, ContentsAssumption DEF Whole, HasError, HasValue
    <3> QED BY <2>3, <2>6, <3>1, Zenon
  <2> QED BY <2>4, <2>5, <2>6 DEF IInv, Forms
<1> QED BY <1>1, <1>2, <1>3

LEMMA InitInvariant == Init => IInv
<1> SUFFICES ASSUME Init PROVE IInv
  OBVIOUS
<1>1. call.got # Garbage /\ call.op # "swap"
  BY ContentsAssumption DEF Init
<1>2. DOMAIN holds = Variables /\ holds = [v \in Variables |-> holds[v]]
  BY DEF Init
<1>3. \A v \in Variables : SaneOrAbsent(holds[v]) /\ WholeOrAbsent(holds[v])
  BY DEF Init, SaneOrAbsent, WholeOrAbsent
<1> QED BY <1>1, <1>2, <1>3 DEF Init, IInv

\* What is sane and whole stays so, as the form and the types stay.
LEMMA ChangesKeeps ==
    ASSUME IInv, NEW op, NEW v \in Variables, NEW w \in Variables, NEW outcomes,
           Changes(op, v, w, outcomes), Good(outcomes), ~thrown => Clean(outcomes)
    PROVE  IInv'
<1>1. PICK r \in outcomes :
        /\ holds' = IF v = w THEN [holds EXCEPT ![v] = r.this]
                    ELSE [holds EXCEPT ![v] = r.this, ![w] = r.other]
        /\ thrown' = (thrown \/ r.end = "threw")
        /\ Ends(op, v, w, r.end, Dead)
  BY DEF Changes
<1>2. /\ SaneOrAbsent(r.this) /\ SaneOrAbsent(r.other)
      /\ ~thrown /\ r.end # "threw" =>
            r.end # "died" /\ WholeOrAbsent(r.this) /\ WholeOrAbsent(r.other)
  BY <1>1 DEF Good, Clean
<1>3. form' = form /\ throwing' = throwing
  BY <1>1 DEF Ends
<1>4. \A u \in Variables : holds'[u] = holds[u] \/ holds'[u] = r.this \/ holds'[u] = r.other
  BY <1>1 DEF IInv
<1>5. DOMAIN holds' = Variables /\ holds' = [u \in Variables |-> holds'[u]]
  BY <1>1 DEF IInv
<1>6. thrown' \in BOOLEAN /\ (~thrown' => ~thrown /\ r.end # "threw")
  BY <1>1 DEF IInv
<1>7. \A u \in Variables : SaneOrAbsent(holds'[u])
  BY <1>2, <1>4 DEF IInv
<1>8. ~thrown' => \A u \in Variables : WholeOrAbsent(holds'[u])
  BY <1>2, <1>4, <1>6 DEF IInv
<1>9. ~thrown' => call'.got # Garbage /\ (call'.op = "swap" => call'.end # "died")
  BY <1>1, <1>2, <1>6, ContentsAssumption DEF Ends
<1>10. \A u \in Variables : SaneOrAbsent(holds[u])'
  BY <1>3, <1>7 DEF SaneOrAbsent, Sane, Fits, Names, TagMatters, TagTellsTruth, Storage,
     HasValue, HasError
<1>11. ~thrown' => \A u \in Variables : WholeOrAbsent(holds[u])'
  BY <1>3, <1>8 DEF WholeOrAbsent, Whole, HasValue, HasError
<1> QED BY <1>3, <1>5, <1>6, <1>9, <1>10, <1>11 DEF IInv

LEMMA ReadsKeeps ==
    ASSUME IInv, NEW op, op # "swap", NEW v \in Variables, NEW outcomes, Reads(op, v, outcomes),
           GoodRead(holds[v], outcomes)
    PROVE  IInv'
<1>1. PICK r \in outcomes :
        /\ holds' = [holds EXCEPT ![v] = r.this]
        /\ UNCHANGED thrown
        /\ Ends(op, v, v, r.end, r.other)
  BY DEF Reads
<1>2. Sane(r.this) /\ (Whole(holds[v]) => Whole(r.this) /\ r.other # Garbage)
  BY <1>1 DEF GoodRead
<1>3. ~thrown => Whole(holds[v])
  BY DEF IInv, WholeOrAbsent, Reads, InScope
<1>4. form' = form /\ throwing' = throwing
  BY <1>1 DEF Ends
<1>5. DOMAIN holds' = Variables /\ holds' = [u \in Variables |-> holds'[u]]
  BY <1>1 DEF IInv
<1>6. \A u \in Variables : SaneOrAbsent(holds'[u])
  BY <1>1, <1>2 DEF IInv, SaneOrAbsent
<1>7. ~thrown' => \A u \in Variables : WholeOrAbsent(holds'[u])
  BY <1>1, <1>2, <1>3 DEF IInv, WholeOrAbsent
<1>8. ~thrown' => call'.got # Garbage /\ (call'.op = "swap" => call'.end # "died")
  BY <1>1, <1>2, <1>3 DEF Ends
<1>9. \A u \in Variables : SaneOrAbsent(holds[u])'
  BY <1>4, <1>6 DEF SaneOrAbsent, Sane, Fits, Names, TagMatters, TagTellsTruth, Storage,
     HasValue, HasError
<1>10. ~thrown' => \A u \in Variables : WholeOrAbsent(holds[u])'
  BY <1>4, <1>7 DEF WholeOrAbsent, Whole, HasValue, HasError
<1> QED BY <1>1, <1>4, <1>5, <1>8, <1>9, <1>10 DEF IInv

LEMMA ByFormOf ==
    ASSUME NEW a, NEW b, NEW c
    PROVE  /\ form = "object" => ByForm(a, b, c) = a
           /\ form = "reference" => ByForm(a, b, c) = b
           /\ form = "void" => ByForm(a, b, c) = c
<1>1. "reference" # "object" /\ "reference" # "void" /\ "object" # "void"
  OBVIOUS
<1> QED BY <1>1, Zenon DEF ByForm

\* Whatever the form is, a call that is good in its form is good.
LEMMA ByFormGood ==
    ASSUME form \in Forms, NEW a, NEW b, NEW c,
           form = "object" => Good(a) /\ (~thrown => Clean(a)),
           form = "reference" => Good(b) /\ (~thrown => Clean(b)),
           form = "void" => Good(c) /\ (~thrown => Clean(c))
    PROVE  Good(ByForm(a, b, c)) /\ (~thrown => Clean(ByForm(a, b, c)))
BY ByFormOf DEF Forms

LEMMA ByFormRead ==
    ASSUME form \in Forms, NEW o, NEW a, NEW b, NEW c,
           form = "object" => GoodRead(o, a),
           form = "reference" => GoodRead(o, b),
           form = "void" => GoodRead(o, c)
    PROVE  GoodRead(o, ByForm(a, b, c))
BY ByFormOf DEF Forms

LEMMA ConstructedGood ==
    ASSUME NEW outcomes, Good(outcomes)
    PROVE  Good(Constructed(outcomes)) /\ (Clean(outcomes) => Clean(Constructed(outcomes)))
BY DEF Good, Clean, Constructed, Outcome, SaneOrAbsent

\* What holds of the variables in scope.
LEMMA InScopeSane ==
    ASSUME IInv, NEW v \in Variables, InScope(v)
    PROVE  Sane(holds[v]) /\ (~thrown => Whole(holds[v]))
BY DEF IInv, InScope, SaneOrAbsent, WholeOrAbsent

LEMMA ConstructKeeps == ASSUME IInv, NEW v \in Variables, Construct(v) PROVE IInv'
<1>1. PICK side \in Sides, c \in Contents :
        Changes("construct", v, v,
                ByForm(ObjectNew(side, c), ReferenceNew(side, c), VoidNew(side, c)))
  BY DEF Construct
<1>2. LET made == ByForm(ObjectNew(side, c), ReferenceNew(side, c), VoidNew(side, c))
      IN  Good(made) /\ (~thrown => Clean(made))
  BY ObjectNewGood, ReferenceNewGood, VoidNewGood, ByFormGood DEF IInv
<1> QED BY <1>1, <1>2, ChangesKeeps

LEMMA CopyConstructKeeps ==
    ASSUME IInv, NEW v \in Variables, NEW w \in Variables, CopyConstruct(v, w)
    PROVE  IInv'
<1>. DEFINE p == holds[w]
            taken == ByForm(ObjectCopyFrom(Empty, p), ReferenceCopied(Empty, p), VoidCopyNew(p))
<1>1. Sane(p) /\ (~thrown => Whole(p))
  BY InScopeSane DEF CopyConstruct
<1>2. form # "void" => Sane(Empty) /\ Empty.tag = "empty"
  BY EmptySane DEF Empty, Stored
<1>3. Good(taken) /\ (~thrown => Clean(taken))
  BY <1>1, <1>2, CopyFromGood, ReferenceTakeGood, VoidTakeGood, ByFormGood DEF IInv
<1>4. Changes("copy", v, w, Constructed(taken))
  BY DEF CopyConstruct
<1>. HIDE DEF taken
<1> QED BY <1>3, <1>4, ConstructedGood, ChangesKeeps

LEMMA MoveConstructKeeps ==
    ASSUME IInv, NEW v \in Variables, NEW w \in Variables, MoveConstruct(v, w)
    PROVE  IInv'
<1>. DEFINE p == holds[w]
            taken == ByForm(ObjectMoveFrom(Empty, p), ReferenceMoved(Empty, p), VoidMoveNew(p))
<1>1. Sane(p) /\ (~thrown => Whole(p))
  BY InScopeSane DEF MoveConstruct
<1>2. form # "void" => Sane(Empty) /\ Empty.tag = "empty"
  BY EmptySane DEF Empty, Stored
<1>3. Good(taken) /\ (~thrown => Clean(taken))
  BY <1>1, <1>2, MoveFromGood, ReferenceTakeGood, VoidTakeGood, ByFormGood DEF IInv
<1>4. Changes("move", v, w, Constructed(taken))
  BY DEF MoveConstruct
<1>. HIDE DEF taken
<1> QED BY <1>3, <1>4, ConstructedGood, ChangesKeeps

LEMMA AssignKeeps ==
    ASSUME IInv, NEW v \in Variables, NEW w \in Variables, CopyAssign(v, w) \/ MoveAssign(v, w)
    PROVE  IInv'
<1>. DEFINE o == holds[v]
            p == holds[w]
            copied == ByForm(ObjectCopyFrom(o, p), ReferenceCopyAssign(o, p), VoidCopyAssign(o, p))
            moved == ByForm(ObjectMoveFrom(o, p), ReferenceMoveAssign(o, p), VoidMoveAssign(o, p))
<1>1. Sane(o) /\ (~thrown => Whole(o)) /\ Sane(p) /\ (~thrown => Whole(p))
  BY InScopeSane DEF CopyAssign, MoveAssign
<1>2. Good(Returns(o, o)) /\ (~thrown => Clean(Returns(o, o)))
  BY <1>1, ReturnsGood DEF SaneOrAbsent, WholeOrAbsent
<1>3. /\ form = "reference" =>
            /\ Good(ReferenceCopyAssign(o, p)) /\ Good(ReferenceMoveAssign(o, p))
            /\ ~thrown => Clean(ReferenceCopyAssign(o, p)) /\ Clean(ReferenceMoveAssign(o, p))
  <2>1. ASSUME form = "reference"
        PROVE  /\ Good(ReferenceCopied(Destroyed(o), p)) /\ Good(ReferenceMoved(Destroyed(o), p))
               /\ ~thrown =>
                    Clean(ReferenceCopied(Destroyed(o), p)) /\ Clean(ReferenceMoved(Destroyed(o), p))
    BY <1>1, <2>1, DestroyedSane, ReferenceTakeGood
  <2> QED BY <2>1 DEF ReferenceCopyAssign, ReferenceMoveAssign
<1>4. Good(copied) /\ (~thrown => Clean(copied))
  BY <1>1, <1>3, CopyFromGood, VoidTakeGood, ByFormGood DEF IInv
<1>5. Good(moved) /\ (~thrown => Clean(moved))
  BY <1>1, <1>3, MoveFromGood, VoidTakeGood, ByFormGood DEF IInv
<1>6. \/ Changes("copy", v, w, IF v = w THEN Returns(o, o) ELSE copied)
      \/ Changes("move", v, w, IF v = w THEN Returns(o, o) ELSE moved)
  BY DEF CopyAssign, MoveAssign
<1>. HIDE DEF copied, moved
<1> QED BY <1>2, <1>4, <1>5, <1>6, ChangesKeeps

LEMMA AssignValueKeeps == ASSUME IInv, NEW v \in Variables, AssignValue(v) PROVE IInv'
<1>1. PICK c \in Contents : Changes("assign", v, v, ObjectAssignValue(holds[v], c))
  BY DEF AssignValue
<1>2. Sane(holds[v]) /\ (~thrown => Whole(holds[v])) /\ form = "object"
  BY InScopeSane DEF AssignValue
<1>3. /\ Good(ObjectAssignValue(holds[v], c))
      /\ ~thrown => Clean(ObjectAssignValue(holds[v], c))
  BY <1>2, ObjectAssignGood
<1> QED BY <1>1, <1>3, ChangesKeeps

LEMMA EmplaceKeeps == ASSUME IInv, NEW v \in Variables, Emplace(v) PROVE IInv'
<1>1. PICK c \in Contents :
        Changes("emplace", v, v,
                ByForm(ObjectEmplace(holds[v], c), ReferenceEmplace(holds[v], c), VoidEmplace(holds[v])))
  BY DEF Emplace
<1>2. Sane(holds[v]) /\ (~thrown => Whole(holds[v]))
  BY InScopeSane DEF Emplace
<1>3. LET made == ByForm(ObjectEmplace(holds[v], c), ReferenceEmplace(holds[v], c), VoidEmplace(holds[v]))
      IN  Good(made) /\ (~thrown => Clean(made))
  BY <1>2, ObjectAssignGood, ReferenceAssignGood, VoidEmplaceGood, ByFormGood DEF IInv
<1> QED BY <1>1, <1>3, ChangesKeeps

LEMMA SwapKeeps == ASSUME IInv, NEW v \in Variables, NEW w \in Variables, Swap(v, w) PROVE IInv'
<1>. DEFINE o == holds[v]
            p == holds[w]
            swapped == ByForm(ObjectSwap(o, p), ReferenceSwap(o, p), VoidSwap(o, p))
<1>1. Sane(o) /\ (~thrown => Whole(o)) /\ Sane(p) /\ (~thrown => Whole(p))
  BY InScopeSane DEF Swap
<1>2. Good(swapped) /\ (~thrown => Clean(swapped))
  BY <1>1, ObjectSwapGood, ReferenceSwapGood, VoidSwapGood, ByFormGood DEF IInv
<1>3. Changes("swap", v, w, swapped)
  BY DEF Swap
<1>. HIDE DEF swapped
<1> QED BY <1>2, <1>3, ChangesKeeps

LEMMA MonadicKeeps == ASSUME IInv, NEW v \in Variables, NEW w \in Variables, Monadic(v, w) PROVE IInv'
<1>1. PICK rvalue \in BOOLEAN :
        LET o == holds[v]
        IN  \/ Changes("and_then", v, w, ByForm(ObjectAndThen(o, rvalue),
                       ReferenceAndThen(o, rvalue), VoidAndThen(o, rvalue)))
            \/ Changes("transform", v, w, ByForm(ObjectTransform(o, rvalue),
                       ReferenceTransform(o, rvalue), VoidTransform(o, rvalue)))
            \/ Changes("transform_error", v, w, ByForm(ObjectTransformError(o, rvalue),
                       ReferenceTransformError(o, rvalue), VoidTransformError(o, rvalue)))
            \/ Changes("or_else", v, w, ByForm(ObjectOrElse(o, rvalue),
                       ReferenceOrElse(o, rvalue), VoidOrElse(o, rvalue)))
  BY DEF Monadic
<1>. DEFINE o == holds[v]
            one == ByForm(ObjectAndThen(o, rvalue), ReferenceAndThen(o, rvalue), VoidAndThen(o, rvalue))
            two == ByForm(ObjectTransform(o, rvalue), ReferenceTransform(o, rvalue), VoidTransform(o, rvalue))
            three == ByForm(ObjectTransformError(o, rvalue), ReferenceTransformError(o, rvalue),
                            VoidTransformError(o, rvalue))
            four == ByForm(ObjectOrElse(o, rvalue), ReferenceOrElse(o, rvalue), VoidOrElse(o, rvalue))
<1>2. Sane(o) /\ (~thrown => Whole(o))
  BY InScopeSane DEF Monadic
<1>3. Good(one) /\ (~thrown => Clean(one))
  BY <1>2, MonadicGood, ByFormGood DEF IInv
<1>4. Good(two) /\ (~thrown => Clean(two))
  BY <1>2, MonadicGood, ByFormGood DEF IInv
<1>5. Good(three) /\ (~thrown => Clean(three))
  BY <1>2, MonadicGood, ByFormGood DEF IInv
<1>6. Good(four) /\ (~thrown => Clean(four))
  BY <1>2, MonadicGood, ByFormGood DEF IInv
<1>7. \/ Changes("and_then", v, w, one) \/ Changes("transform", v, w, two)
      \/ Changes("transform_error", v, w, three) \/ Changes("or_else", v, w, four)
  BY <1>1
<1>. HIDE DEF one, two, three, four
<1> QED BY <1>3, <1>4, <1>5, <1>6, <1>7, ChangesKeeps

LEMMA ObserveKeeps == ASSUME IInv, NEW v \in Variables, Observe(v) PROVE IInv'
<1>1. PICK rvalue \in BOOLEAN, c \in Contents :
        LET o == holds[v]
        IN  \/ Reads("value", v, ByForm(ObjectValue(o, rvalue), ReferenceValue(o), VoidCheck(o)))
            \/ Reads("operator*", v, ByForm(ObjectDereference(o, rvalue), ReferenceDereference(o),
                                            VoidCheck(o)))
            \/ Reads("error", v, ByForm(ObjectError(o, rvalue), ReferenceError(o, rvalue),
                                        VoidError(o, rvalue)))
            \/ Reads("value_or", v, ByForm(ObjectValueOr(o, rvalue, c), ReferenceValueOr(o, c), {}))
            \/ Reads("error_or", v, ByForm(ObjectErrorOr(o, rvalue, c),
                                           ReferenceErrorOr(o, rvalue, c),
                                           VoidErrorOr(o, rvalue, c)))
  BY DEF Observe
<1>. DEFINE o == holds[v]
            one == ByForm(ObjectValue(o, rvalue), ReferenceValue(o), VoidCheck(o))
            two == ByForm(ObjectDereference(o, rvalue), ReferenceDereference(o), VoidCheck(o))
            three == ByForm(ObjectError(o, rvalue), ReferenceError(o, rvalue), VoidError(o, rvalue))
            four == ByForm(ObjectValueOr(o, rvalue, c), ReferenceValueOr(o, c), {})
            five == ByForm(ObjectErrorOr(o, rvalue, c), ReferenceErrorOr(o, rvalue, c),
                           VoidErrorOr(o, rvalue, c))
<1>2. Sane(o)
  BY InScopeSane DEF Observe
<1>3. GoodRead(o, {})
  BY DEF GoodRead
<1>4. GoodRead(o, one)
  BY <1>2, ReadsGood, ByFormRead DEF IInv
<1>5. GoodRead(o, two)
  BY <1>2, ReadsGood, ByFormRead DEF IInv
<1>6. GoodRead(o, three)
  BY <1>2, ReadsGood, ByFormRead DEF IInv
<1>7. GoodRead(o, four)
  BY <1>2, <1>3, ReadsGood, ByFormRead DEF IInv
<1>8. GoodRead(o, five)
  BY <1>2, ReadsGood, ByFormRead DEF IInv
<1>9. \/ Reads("value", v, one) \/ Reads("operator*", v, two) \/ Reads("error", v, three)
      \/ Reads("value_or", v, four) \/ Reads("error_or", v, five)
  BY <1>1
<1>. HIDE DEF one, two, three, four, five
<1> QED BY <1>4, <1>5, <1>6, <1>7, <1>8, <1>9, ReadsKeeps

LEMMA DestroyKeeps == ASSUME IInv, NEW v \in Variables, Destroy(v) PROVE IInv'
<1>1. /\ holds' = [holds EXCEPT ![v] = Absent]
      /\ form' = form /\ throwing' = throwing /\ thrown' = thrown
      /\ call'.got = Dead /\ call'.op = "destroy"
  BY DEF Destroy, Ends
<1>2. DOMAIN holds' = Variables /\ holds' = [u \in Variables |-> holds'[u]]
  BY <1>1 DEF IInv
<1>3. \A u \in Variables : holds'[u] = holds[u] \/ holds'[u] = Absent
  BY <1>1 DEF IInv
<1>4. \A u \in Variables : SaneOrAbsent(holds'[u])
  BY <1>3 DEF IInv, SaneOrAbsent
<1>5. ~thrown => \A u \in Variables : WholeOrAbsent(holds'[u])
  BY <1>3 DEF IInv, WholeOrAbsent
<1>6. \A u \in Variables : SaneOrAbsent(holds[u])'
  BY <1>1, <1>4 DEF SaneOrAbsent, Sane, Fits, Names, TagMatters, TagTellsTruth, Storage,
     HasValue, HasError
<1>7. ~thrown' => \A u \in Variables : WholeOrAbsent(holds[u])'
  BY <1>1, <1>5 DEF WholeOrAbsent, Whole, HasValue, HasError
<1> QED BY <1>1, <1>2, <1>6, <1>7, ContentsAssumption DEF IInv

LEMMA NextInvariant == IInv /\ [Next]_vars => IInv'
<1> SUFFICES ASSUME IInv, [Next]_vars PROVE IInv'
  OBVIOUS
<1>1. CASE UNCHANGED vars
  BY <1>1 DEF vars, IInv, SaneOrAbsent, WholeOrAbsent, Sane, Fits, Names, Whole, TagMatters,
     TagTellsTruth,
     Storage, HasValue, HasError
<1>2. ASSUME NEW v \in Variables,
             Construct(v) \/ AssignValue(v) \/ Emplace(v) \/ Observe(v) \/ Destroy(v)
      PROVE  IInv'
  BY <1>2, ConstructKeeps, AssignValueKeeps, EmplaceKeeps, ObserveKeeps, DestroyKeeps
<1>3. ASSUME NEW v \in Variables, NEW w \in Variables,
             \/ CopyConstruct(v, w) \/ MoveConstruct(v, w)
             \/ CopyAssign(v, w) \/ MoveAssign(v, w) \/ Swap(v, w) \/ Monadic(v, w)
      PROVE  IInv'
  BY <1>3, CopyConstructKeeps, MoveConstructKeeps, AssignKeeps, SwapKeeps, MonadicKeeps
<1> QED BY <1>1, <1>2, <1>3 DEF Next

(***************************************************************************)
(* The three state properties, for any number of variables and contents.   *)
(***************************************************************************)
THEOREM Invariance == Spec => []IInv
<1> QED BY InitInvariant, NextInvariant, PTL DEF Spec

\* Every variable of every form has the members its form has.
THEOREM TypeCorrect == Spec => []TypeOK
<1>1. IInv => TypeOK
  BY InvariantImplies
<1> QED BY <1>1, Invariance, PTL

\* The tag names what is alive (expected.h, expected_storage and destroy()).
THEOREM TagsAreTrue == Spec => []TagIsTrue
<1>1. IInv => TagIsTrue
  BY InvariantImplies
<1> QED BY <1>1, Invariance, PTL

\* Until something throws there is a value or an error, and nothing dead is read.
THEOREM AlwaysWhole == Spec => []WholeUntilThrown
<1>1. IInv => WholeUntilThrown
  BY InvariantImplies
<1> QED BY <1>1, Invariance, PTL

-----------------------------------------------------------------------------
(* What a call that threw has left alone, and what one that returned did.   *)
(* A predicate of outcomes again, for a call on o with the argument p.      *)

TargetLeft(op, o, p, after) ==
    IF Replaces(op, o, p) THEN after = Empty ELSE MayLose(o, after)
Kept(op, o, p, outcomes) ==
    \A r \in outcomes : r.end = "threw" =>
        TargetLeft(op, o, p, r.this) /\ Meaning(r.other) = Meaning(p)
Untouched(o, p, outcomes) ==
    \A r \in outcomes : r.end = "threw" =>
        Meaning(r.this) = Meaning(o) /\ Meaning(r.other) = Meaning(p)
OnTheirSide(o, p, q, s) == q.tag = o.tag /\ Whole(q) /\ s.tag = p.tag /\ Whole(s)
Halved(o, p, outcomes) ==
    \A r \in outcomes : r.end = "threw" =>
        OnTheirSide(o, p, r.this, r.other) /\ Meaning(p) \in {Meaning(r.this), Meaning(r.other)}
Copied(p, outcomes) ==
    \A r \in outcomes : r.end = "returned" => Equal(r.this, p) /\ r.other = p
Moved(p, outcomes) ==
    \A r \in outcomes : r.end = "returned" => Equal(r.this, p) /\ r.other.tag = p.tag
Exchanged(o, p, outcomes) ==
    \A r \in outcomes : r.end = "returned" => Equal(r.this, p) /\ Equal(r.other, o)

LEMMA ReturnsDone ==
    ASSUME NEW o, NEW p, NEW a, NEW b
    PROVE  /\ \A op : Kept(op, o, p, Returns(a, b))
           /\ Untouched(o, p, Returns(a, b)) /\ Halved(o, p, Returns(a, b))
           /\ Equal(a, p) /\ b = p => Copied(p, Returns(a, b))
           /\ Equal(a, p) /\ b.tag = p.tag => Moved(p, Returns(a, b))
           /\ Equal(a, p) /\ Equal(b, o) => Exchanged(o, p, Returns(a, b))
<1>1. \A r \in Returns(a, b) : r.this = a /\ r.other = b /\ r.end = "returned"
  BY DEF Returns, Outcome
<1>2. "returned" # "threw"
  OBVIOUS
<1> QED BY <1>1, <1>2, Zenon DEF Kept, Untouched, Halved, Copied, Moved, Exchanged

LEMMA ThrowsDone ==
    ASSUME NEW o, NEW p, NEW a, NEW b
    PROVE  /\ Copied(p, Throws(a, b)) /\ Moved(p, Throws(a, b)) /\ Exchanged(o, p, Throws(a, b))
           /\ \A op : TargetLeft(op, o, p, a) /\ Meaning(b) = Meaning(p) => Kept(op, o, p, Throws(a, b))
           /\ Meaning(a) = Meaning(o) /\ Meaning(b) = Meaning(p) => Untouched(o, p, Throws(a, b))
           /\ OnTheirSide(o, p, a, b) /\ Meaning(p) \in {Meaning(a), Meaning(b)}
                => Halved(o, p, Throws(a, b))
<1>1. \A r \in Throws(a, b) : r.this = a /\ r.other = b /\ r.end = "threw"
  BY DEF Throws, Outcome
<1>2. "returned" # "threw"
  OBVIOUS
<1> QED BY <1>1, <1>2, Zenon DEF Kept, Untouched, Halved, Copied, Moved, Exchanged

LEMMA AttemptDone ==
    ASSUME NEW o, NEW p, NEW may, NEW done, NEW kept
    PROVE  LET attempt == Attempt(may, done, kept)
           IN  /\ \A op : Kept(op, o, p, done) /\ Kept(op, o, p, kept) => Kept(op, o, p, attempt)
               /\ Halved(o, p, done) /\ Halved(o, p, kept) => Halved(o, p, attempt)
               /\ Untouched(o, p, done) /\ Untouched(o, p, kept) => Untouched(o, p, attempt)
               /\ Copied(p, done) /\ Copied(p, kept) => Copied(p, attempt)
               /\ Moved(p, done) /\ Moved(p, kept) => Moved(p, attempt)
               /\ Exchanged(o, p, done) /\ Exchanged(o, p, kept) => Exchanged(o, p, attempt)
<1>1. \A r \in Attempt(may, done, kept) : r \in done \/ r \in kept
  BY DEF Attempt
<1> QED BY <1>1, Zenon DEF Kept, Untouched, Halved, Copied, Moved, Exchanged

LEMMA TurnedDone ==
    ASSUME NEW o, NEW p, NEW outcomes
    PROVE  /\ Untouched(p, o, outcomes) => Untouched(o, p, Turned(outcomes))
           /\ Exchanged(p, o, outcomes) => Exchanged(o, p, Turned(outcomes))
<1>1. \A r \in Turned(outcomes) :
        \E q \in outcomes : r.this = q.other /\ r.other = q.this /\ r.end = q.end
  BY DEF Turned, Outcome
<1>2. Untouched(p, o, outcomes) => Untouched(o, p, Turned(outcomes))
  <2> SUFFICES ASSUME Untouched(p, o, outcomes), NEW r \in Turned(outcomes), r.end = "threw"
               PROVE  Meaning(r.this) = Meaning(o) /\ Meaning(r.other) = Meaning(p)
    BY DEF Untouched
  <2>1. PICK q \in outcomes : r.this = q.other /\ r.other = q.this /\ r.end = q.end
    BY <1>1
  <2>2. Meaning(q.this) = Meaning(p) /\ Meaning(q.other) = Meaning(o)
    BY <2>1 DEF Untouched
  <2> QED BY <2>1, <2>2
<1>3. Exchanged(p, o, outcomes) => Exchanged(o, p, Turned(outcomes))
  BY <1>1, Zenon DEF Exchanged
<1> QED BY <1>2, <1>3

-----------------------------------------------------------------------------
(* When two storages are equal, or mean the same.                           *)

LEMMA EqualSides ==
    ASSUME form \in Forms, NEW o, NEW p
    PROVE  /\ HasValue(o) /\ HasValue(p) /\ (form # "void" => o.value = p.value) => Equal(o, p)
           /\ ~HasValue(o) /\ ~HasValue(p) /\ Read(o.error) = Read(p.error) => Equal(o, p)
<1>1. Equal(o, p) = ByForm(ObjectEqual(o, p), ReferenceEqual(o, p), VoidEqual(o, p))
  BY DEF Equal
<1>2. /\ form = "object" => Equal(o, p) = ObjectEqual(o, p)
      /\ form = "reference" => Equal(o, p) = ReferenceEqual(o, p)
      /\ form = "void" => Equal(o, p) = VoidEqual(o, p)
  BY <1>1, ByFormOf, Zenon
<1>3. HasValue(o) /\ HasValue(p) /\ (form # "void" => o.value = p.value) =>
        /\ form # "void" => ObjectEqual(o, p) /\ ReferenceEqual(o, p)
        /\ VoidEqual(o, p)
  BY DEF ObjectEqual, ReferenceEqual, VoidEqual
<1>4. ~HasValue(o) /\ ~HasValue(p) /\ Read(o.error) = Read(p.error) =>
        ObjectEqual(o, p) /\ ReferenceEqual(o, p) /\ VoidEqual(o, p)
  <2>1. ~HasValue(o) /\ ~HasValue(p) => (HasValue(o) = HasValue(p))
    BY DEF HasValue
  <2> QED BY <2>1, Zenon DEF ObjectEqual, ReferenceEqual, VoidEqual
<1>5. form = "object" \/ form = "reference" \/ form = "void"
  BY DEF Forms
<1>6. "object" # "void" /\ "reference" # "void"
  OBVIOUS
<1> QED BY <1>2, <1>3, <1>4, <1>5, <1>6, Zenon

\* What is read is not dead, so that reading it again changes nothing.
LEMMA ReadTwice == \A c : Read(c) # Dead /\ Read(Read(c)) = Read(c) /\ (c # Dead => Read(c) = c)
BY ContentsAssumption DEF Read

LEMMA WithEqual ==
    ASSUME form \in Forms, NEW o, NEW p
    PROVE  /\ HasValue(p) => Equal(WithValue(o, p.value), p)
           /\ ~HasValue(p) =>
                /\ Equal(WithError(o, p.error), p)
                /\ Equal(WithError(o, Read(p.error)), p)
<1>1. /\ HasValue(WithValue(o, p.value)) /\ WithValue(o, p.value).value = p.value
      /\ \A c : ~HasValue(WithError(o, c)) /\ WithError(o, c).error = c
  BY DEF HasValue, WithValue, WithError, Stored
<1> QED BY <1>1, ReadTwice, EqualSides

LEMMA WithMeans ==
    ASSUME NEW o, NEW p
    PROVE  /\ HasValue(p) => Meaning(WithValue(o, p.value)) = Meaning(p)
           /\ HasError(p) => Meaning(WithError(o, p.error)) = Meaning(p)
BY DEF Meaning, HasValue, HasError, WithValue, WithError, Stored

LEMMA DestroyedEmpty ==
    ASSUME form # "void", TagMatters, NEW o, Sane(o)
    PROVE  Destroyed(o) = Empty
BY DEF Sane, TagTellsTruth, HasValue, HasError, Destroyed, Empty, Stored

\* A whole object's live member with another content.
LEMMA RefilledMeans ==
    ASSUME NEW o, Whole(o), o.tag = "value" => form # "void"
    PROVE  /\ o.tag \in Sides /\ Meaning(o) = <<o.tag, Content(o, o.tag)>>
           /\ HasValue(o) => Content(o, o.tag) = o.value
           /\ ~HasValue(o) => Content(o, o.tag) = o.error
           /\ Content(o, o.tag) \in Contents \cup {MovedOut}
           /\ \A c \in Contents \cup {MovedOut} :
                LET q == Refilled(o, o.tag, c)
                IN  /\ q.tag = o.tag /\ Whole(q) /\ Meaning(q) = <<o.tag, c>>
                    /\ HasValue(o) => q.value = c
                    /\ ~HasValue(o) => q.error = c
<1>1. CASE o.tag = "value"
  <2>1. o.value \in Contents \cup {MovedOut} /\ o.value # Dead
    BY <1>1, ContentsAssumption DEF Whole, HasValue, HasError
  <2>2. \A c : Refilled(o, o.tag, c) = Stored(o.tag, c, o.error)
    BY <1>1, <2>1, Zenon DEF Refilled
  <2> QED BY <1>1, <2>1, <2>2 DEF Whole, Stored, HasValue, HasError, Meaning, Content, Read, Sides
<1>2. CASE o.tag = "error"
  <2>1. o.error \in Contents \cup {MovedOut} /\ o.error # Dead
    BY <1>2, ContentsAssumption DEF Whole, HasValue, HasError
  <2>2. \A c : Refilled(o, o.tag, c) = Stored(o.tag, o.value, c)
    <3>1. "error" # "value"
      OBVIOUS
    <3> QED BY <1>2, <2>1, <3>1, Zenon DEF Refilled
  <2> QED BY <1>2, <2>1, <2>2 DEF Whole, Stored, HasValue, HasError, Meaning, Content, Read, Sides
<1> QED BY <1>1, <1>2 DEF Whole, HasValue, HasError

LEMMA FailsKept ==
    ASSUME form = "object", TagMatters, NEW o, Sane(o), Whole(o), NEW p,
           NEW op \in {"copy", "move", "assign"}, NEW side,
           side = IF op = "assign" THEN "value" ELSE p.tag
    PROVE  Kept(op, o, p, Fails(o, side, p))
<1>1. Replaces(op, o, p) <=> o.tag # side
  BY DEF Replaces
<1>2. CASE o.tag = side
  <2>1. LET q == Refilled(o, side, MovedOut) IN q.tag = o.tag /\ Meaning(q) = <<o.tag, MovedOut>>
    BY <1>2, RefilledMeans
  <2>2. TargetLeft(op, o, p, o) /\ TargetLeft(op, o, p, Refilled(o, side, MovedOut))
    BY <1>1, <1>2, <2>1 DEF TargetLeft, MayLose
  <2>3. Fails(o, side, p) = Throws(o, p) \cup Throws(Refilled(o, side, MovedOut), p)
    BY <1>2 DEF Fails
  <2>4. Kept(op, o, p, Throws(o, p)) /\ Kept(op, o, p, Throws(Refilled(o, side, MovedOut), p))
    BY <2>2, ThrowsDone
  <2> QED BY <2>3, <2>4 DEF Kept
<1>3. CASE o.tag # side
  <2>1. TargetLeft(op, o, p, Destroyed(o))
    BY <1>1, <1>3, DestroyedEmpty DEF TargetLeft
  <2>2. Fails(o, side, p) = Throws(Destroyed(o), p)
    BY <1>3 DEF Fails
  <2> QED BY <2>1, <2>2, ThrowsDone
<1> QED BY <1>2, <1>3

LEMMA TakenKeepsTag ==
    ASSUME NEW o
    PROVE  ValueTaken(o).tag = o.tag /\ ErrorTaken(o).tag = o.tag
BY DEF ValueTaken, ErrorTaken, Stored

-----------------------------------------------------------------------------
(* expected<T, E>                                                           *)

LEMMA CopyFromDone ==
    ASSUME form = "object", NEW o, NEW p, Sane(o), Whole(p)
    PROVE  /\ Copied(p, ObjectCopyFrom(o, p))
           /\ TagMatters /\ Whole(o) => Kept("copy", o, p, ObjectCopyFrom(o, p))
<1>. DEFINE ready == Ready(o, p.tag)
<1>1. TagMatters /\ Whole(o) => Kept("copy", o, p, Fails(o, p.tag, p))
  BY FailsKept
<1>2. /\ HasValue(p) => Equal(WithValue(ready, p.value), p)
      /\ ~HasValue(p) => Equal(WithError(ready, p.error), p)
  BY WithEqual DEF Forms
<1>3. HasValue(p) \/ HasError(p)
  BY DEF Whole
<1>4. Copied(p, Fails(o, p.tag, p))
  BY DEF Copied, Fails, Throws, Outcome
<1>5. CASE HasValue(p)
  <2>1. ObjectCopyFrom(o, p) = Attempt(TRUE, Returns(WithValue(ready, p.value), p), Fails(o, p.tag, p))
    BY <1>5 DEF ObjectCopyFrom, HasValue
  <2>. HIDE DEF ready
  <2> QED BY <1>1, <1>2, <1>4, <1>5, <2>1, ReturnsDone, AttemptDone
<1>6. CASE ~HasValue(p)
  <2>1. ObjectCopyFrom(o, p) = Attempt(TRUE, Returns(WithError(ready, p.error), p), Fails(o, p.tag, p))
    BY <1>3, <1>6 DEF ObjectCopyFrom, HasError
  <2>. HIDE DEF ready
  <2> QED BY <1>1, <1>2, <1>4, <1>6, <2>1, ReturnsDone, AttemptDone
<1> QED BY <1>5, <1>6

LEMMA MoveFromDone ==
    ASSUME form = "object", NEW o, NEW p, Sane(o), Whole(p)
    PROVE  /\ Moved(p, ObjectMoveFrom(o, p))
           /\ TagMatters /\ Whole(o) => Kept("move", o, p, ObjectMoveFrom(o, p))
<1>. DEFINE ready == Ready(o, p.tag)
            may == o.tag = p.tag \/ MoveMayThrow(p.tag)
<1>1. TagMatters /\ Whole(o) => Kept("move", o, p, Fails(o, p.tag, p))
  BY FailsKept
<1>2. /\ HasValue(p) => Equal(WithValue(ready, p.value), p)
      /\ ~HasValue(p) => Equal(WithError(ready, p.error), p)
  BY WithEqual DEF Forms
<1>3. HasValue(p) \/ HasError(p)
  BY DEF Whole
<1>4. Moved(p, Fails(o, p.tag, p))
  BY DEF Moved, Fails, Throws, Outcome
<1>5. CASE HasValue(p)
  <2>1. ObjectMoveFrom(o, p)
          = Attempt(may, Returns(WithValue(ready, p.value), ValueTaken(p)), Fails(o, p.tag, p))
    BY <1>5 DEF ObjectMoveFrom, HasValue
  <2>. HIDE DEF ready, may
  <2> QED BY <1>1, <1>2, <1>4, <1>5, <2>1, TakenKeepsTag, ReturnsDone, AttemptDone
<1>6. CASE ~HasValue(p)
  <2>1. ObjectMoveFrom(o, p)
          = Attempt(may, Returns(WithError(ready, p.error), ErrorTaken(p)), Fails(o, p.tag, p))
    BY <1>3, <1>6 DEF ObjectMoveFrom, HasError
  <2>. HIDE DEF ready, may
  <2> QED BY <1>1, <1>2, <1>4, <1>6, <2>1, TakenKeepsTag, ReturnsDone, AttemptDone
<1> QED BY <1>5, <1>6

LEMMA AssignValueKept ==
    ASSUME form = "object", TagMatters, NEW o, Sane(o), Whole(o), NEW c
    PROVE  Kept("assign", o, o, ObjectAssignValue(o, c)) /\ Kept("emplace", o, o, ObjectEmplace(o, c))
<1>1. Kept("assign", o, o, Fails(o, "value", o))
  BY FailsKept
<1>2. Kept("emplace", o, o, Throws(Destroyed(o), o))
  BY DestroyedEmpty, ThrowsDone DEF TargetLeft, Replaces
<1> QED BY <1>1, <1>2, ReturnsDone, AttemptDone DEF ObjectAssignValue, ObjectEmplace

\* std::swap of two whole objects on one side, of any form.
LEMMA SwapMembersDone ==
    ASSUME form \in Forms, NEW o, NEW p, Whole(o), Whole(p), o.tag = p.tag,
           o.tag = "value" => form # "void"
    PROVE  /\ Halved(o, p, SwapMembers(o, p, o.tag))
           /\ Exchanged(o, p, SwapMembers(o, p, o.tag))
<1>. DEFINE ours == Content(o, o.tag)
            theirs == Content(p, o.tag)
            first == Refilled(o, o.tag, theirs)
            second == Refilled(p, o.tag, ours)
            lost == Refilled(o, o.tag, MovedOut)
            half == Refilled(p, o.tag, MovedOut)
<1>1. /\ ours \in Contents \cup {MovedOut} /\ theirs \in Contents \cup {MovedOut}
      /\ Meaning(p) = <<p.tag, theirs>>
  BY RefilledMeans
<1>2. /\ first.tag = o.tag /\ Whole(first) /\ Meaning(first) = <<o.tag, theirs>>
      /\ second.tag = p.tag /\ Whole(second)
      /\ lost.tag = o.tag /\ Whole(lost) /\ half.tag = p.tag /\ Whole(half)
  BY <1>1, RefilledMeans
<1>3. Equal(first, p) /\ Equal(second, o)
  <2>1. CASE HasValue(o)
    <3>1. HasValue(p) /\ HasValue(first) /\ HasValue(second)
      BY <1>2, <2>1 DEF HasValue
    <3>2. first.value = p.value /\ second.value = o.value
      BY <1>1, <2>1, <3>1, RefilledMeans
    <3> QED BY <2>1, <3>1, <3>2, EqualSides
  <2>2. CASE ~HasValue(o)
    <3>1. ~HasValue(p) /\ ~HasValue(first) /\ ~HasValue(second)
      BY <1>2, <2>2 DEF HasValue
    <3>2. first.error = p.error /\ second.error = o.error
      BY <1>1, <2>2, <3>1, RefilledMeans
    <3> QED BY <2>2, <3>1, <3>2, EqualSides
  <2> QED BY <2>1, <2>2
<1>. HIDE DEF ours, theirs, first, second, lost, half
<1>. DEFINE done == Attempt(MoveMayThrow(o.tag), Returns(first, second), Throws(o, p))
<1>4. Halved(o, p, Throws(o, p)) /\ Halved(o, p, Throws(lost, p)) /\ Halved(o, p, Throws(first, half))
  BY <1>1, <1>2, ThrowsDone DEF OnTheirSide
<1>5. Halved(o, p, done) /\ Exchanged(o, p, done)
  BY <1>3, <1>4, ReturnsDone, ThrowsDone, AttemptDone
<1>6. Exchanged(o, p, Throws(lost, p)) /\ Exchanged(o, p, Throws(first, half))
  BY ThrowsDone
<1>7. SwapMembers(o, p, o.tag) = done \cup Throws(lost, p) \cup Throws(first, half)
  BY DEF SwapMembers, first, second, lost, half, ours, theirs
<1>. HIDE DEF done
<1> QED BY <1>4, <1>5, <1>6, <1>7, Zenon DEF Halved, Exchanged

\* What swap() leaves when it throws: both alone, or one side's std::swap undone.
SwapLeft(o, p, outcomes) ==
    IF o.tag = p.tag THEN Halved(o, p, outcomes) ELSE Untouched(o, p, outcomes)

LEMMA SwapByErrorDone ==
    ASSUME form = "object", NEW o, NEW p, Whole(o), Whole(p), HasValue(o), ~HasValue(p)
    PROVE  Untouched(o, p, ObjectSwapByError(o, p)) /\ Exchanged(o, p, ObjectSwapByError(o, p))
<1>. DEFINE temp == Read(p.error)
            done == Returns(WithError(Destroyed(o), temp), WithValue(Destroyed(p), o.value))
            undone == Throws(o, WithError(Destroyed(p), temp))
<1>1. HasError(p) /\ temp = p.error
  BY ContentsAssumption DEF Whole, Read
<1>2. Equal(WithError(Destroyed(o), temp), p) /\ Equal(WithValue(Destroyed(p), o.value), o)
  BY WithEqual DEF Forms
<1>3. Meaning(WithError(Destroyed(p), temp)) = Meaning(p)
  BY <1>1, WithMeans
<1>4. Untouched(o, p, done) /\ Exchanged(o, p, done)
  BY <1>2, ReturnsDone
<1>5. Untouched(o, p, undone) /\ Exchanged(o, p, undone)
  BY <1>3, ThrowsDone
<1>6. ObjectSwapByError(o, p) = Attempt(MoveMayThrow("value"), done, undone)
  BY DEF ObjectSwapByError
<1>. HIDE DEF temp, done, undone
<1> QED BY <1>4, <1>5, <1>6, AttemptDone

\* Where both moves may throw it does not keep what it found, but returns with
\* the exchange done.
LEMMA SwapByValueDone ==
    ASSUME form = "object", NEW o, NEW p, Whole(o), Whole(p), HasValue(o), ~HasValue(p)
    PROVE  /\ Exchanged(o, p, ObjectSwapByValue(o, p))
           /\ "value" \notin throwing => Untouched(o, p, ObjectSwapByValue(o, p))
<1>. DEFINE bare == Destroyed(o)
            crossed == WithError(bare, Read(p.error))
            done == Returns(crossed, WithValue(Destroyed(p), o.value))
            undone == Throws(WithValue(bare, o.value), p)
            lost == Throws(o, p) \cup Throws(bare, p)
                    \cup Throws(WithValue(crossed, o.value), Destroyed(p))
                    \cup Throws(crossed, Destroyed(p))
            over == Attempt("value" \in throwing, {}, lost)
<1>1. Equal(crossed, p) /\ Equal(WithValue(Destroyed(p), o.value), o)
  BY WithEqual DEF Forms
<1>2. Meaning(WithValue(bare, o.value)) = Meaning(o)
  BY WithMeans
<1>3. Untouched(o, p, done) /\ Exchanged(o, p, done)
  BY <1>1, ReturnsDone
<1>4. Untouched(o, p, undone) /\ Exchanged(o, p, undone)
  BY <1>2, ThrowsDone
<1>5. Exchanged(o, p, lost)
  <2>1. \A a, b : Exchanged(o, p, a) /\ Exchanged(o, p, b) => Exchanged(o, p, a \cup b)
    BY DEF Exchanged
  <2> QED BY <2>1, ThrowsDone
<1>6. Exchanged(o, p, {}) /\ Untouched(o, p, {})
  BY DEF Exchanged, Untouched
<1>. HIDE DEF lost
<1>7. Exchanged(o, p, over)
  BY <1>5, <1>6, AttemptDone
<1>8. "value" \notin throwing => over = {}
  BY DEF Attempt
<1>9. ObjectSwapByValue(o, p) = done \cup undone \cup over
  BY DEF ObjectSwapByValue, lost
<1>. HIDE DEF bare, crossed, done, undone, over
<1>10. Exchanged(o, p, done \cup undone \cup over)
  BY <1>3, <1>4, <1>7 DEF Exchanged
<1>11. "value" \notin throwing => Untouched(o, p, done \cup undone \cup over)
  BY <1>3, <1>4, <1>8 DEF Untouched
<1> QED BY <1>9, <1>10, <1>11

LEMMA ObjectSwapDone ==
    ASSUME form = "object", throwing \in SUBSET Sides, NEW o, NEW p, Whole(o), Whole(p)
    PROVE  /\ Exchanged(o, p, ObjectSwap(o, p))
           /\ TagMatters => SwapLeft(o, p, ObjectSwap(o, p))
<1>1. \A q, s : Whole(q) /\ Whole(s) /\ HasValue(q) /\ ~HasValue(s) =>
        /\ Exchanged(q, s, ObjectSwapValueFor(q, s))
        /\ TagMatters => Untouched(q, s, ObjectSwapValueFor(q, s))
  <2>1. TagMatters /\ "error" \in throwing => "value" \notin throwing
    BY DEF TagMatters, Sides
  <2> QED BY <2>1, SwapByErrorDone, SwapByValueDone DEF ObjectSwapValueFor
<1>2. "value" # "error"
  OBVIOUS
<1>3. CASE HasValue(o) /\ HasValue(p)
  <2>1. ObjectSwap(o, p) = SwapMembers(o, p, o.tag)
    BY <1>2, <1>3, Zenon DEF ObjectSwap, HasValue, HasError, ObjectSwapValues
  <2>2. o.tag = p.tag
    BY <1>3 DEF HasValue
  <2> QED BY <2>1, <2>2, SwapMembersDone DEF Forms, SwapLeft
<1>4. CASE HasError(o) /\ HasError(p)
  <2>1. ObjectSwap(o, p) = SwapMembers(o, p, o.tag)
    BY <1>2, <1>4, Zenon DEF ObjectSwap, HasValue, HasError, ObjectSwapErrors
  <2>2. o.tag = p.tag
    BY <1>4 DEF HasError
  <2> QED BY <2>1, <2>2, SwapMembersDone DEF Forms, SwapLeft
<1>5. CASE HasValue(o) /\ ~HasValue(p)
  <2>1. ObjectSwap(o, p) = ObjectSwapValueFor(o, p)
    BY <1>2, <1>5, Zenon DEF ObjectSwap, HasValue, HasError
  <2>2. o.tag # p.tag
    BY <1>5 DEF HasValue
  <2> QED BY <1>1, <1>5, <2>1, <2>2 DEF SwapLeft
<1>6. CASE ~HasValue(o) /\ HasValue(p)
  <2>1. ObjectSwap(o, p) = Turned(ObjectSwapValueFor(p, o))
    BY <1>2, <1>6, Zenon DEF ObjectSwap, HasValue, HasError
  <2>2. o.tag # p.tag
    BY <1>6 DEF HasValue
  <2> QED BY <1>1, <1>6, <2>1, <2>2, TurnedDone DEF SwapLeft
<1>7. HasValue(o) \/ HasError(o)
  BY DEF Whole
<1>8. HasValue(p) \/ HasError(p)
  BY DEF Whole
<1> QED BY <1>3, <1>4, <1>5, <1>6, <1>7, <1>8

-----------------------------------------------------------------------------
(* expected<T&, E>                                                          *)

LEMMA ReferenceTakeDone ==
    ASSUME form = "reference", NEW o, NEW p
    PROVE  /\ Copied(p, ReferenceCopied(o, p)) /\ Moved(p, ReferenceMoved(o, p))
           /\ o = Empty => \A q :
                Kept("copy", q, p, ReferenceCopied(o, p)) /\ Kept("move", q, p, ReferenceMoved(o, p))
<1>1. /\ HasValue(p) => Equal(WithValue(o, p.value), p)
      /\ ~HasValue(p) => Equal(WithError(o, Read(p.error)), p)
  BY WithEqual DEF Forms
<1>2. o = Empty => \A q, op : TargetLeft(op, q, p, o)
  BY DEF TargetLeft, Replaces
<1>3. CASE HasValue(p)
  <2>1. /\ ReferenceCopied(o, p) = Returns(WithValue(o, p.value), p)
        /\ ReferenceMoved(o, p) = Returns(WithValue(o, p.value), p)
    BY <1>3 DEF ReferenceCopied, ReferenceMoved
  <2> QED BY <1>1, <1>3, <2>1, ReturnsDone
<1>4. CASE ~HasValue(p)
  <2>1. /\ ReferenceCopied(o, p) = Attempt(TRUE, Returns(WithError(o, Read(p.error)), p), Throws(o, p))
        /\ ReferenceMoved(o, p) =
             Attempt(MoveMayThrow("error"), Returns(WithError(o, Read(p.error)), ErrorTaken(p)), Throws(o, p))
    BY <1>4 DEF ReferenceCopied, ReferenceMoved
  <2> QED BY <1>1, <1>2, <1>4, <2>1, TakenKeepsTag, ReturnsDone, ThrowsDone, AttemptDone
<1> QED BY <1>3, <1>4

LEMMA ReferenceSwapDone ==
    ASSUME form = "reference", NEW o, NEW p, Whole(o), Whole(p)
    PROVE  Exchanged(o, p, ReferenceSwap(o, p)) /\ SwapLeft(o, p, ReferenceSwap(o, p))
<1>1. \A q, s : HasValue(q) /\ ~HasValue(s) =>
        Exchanged(q, s, ReferenceSwapValueFor(q, s)) /\ Untouched(q, s, ReferenceSwapValueFor(q, s))
  <2> SUFFICES ASSUME NEW q, NEW s, HasValue(q), ~HasValue(s)
               PROVE  /\ Exchanged(q, s, ReferenceSwapValueFor(q, s))
                      /\ Untouched(q, s, ReferenceSwapValueFor(q, s))
    OBVIOUS
  <2>1. /\ Equal(WithError(Destroyed(q), Read(s.error)), s)
        /\ Equal(WithValue(Destroyed(s), q.value), q)
    BY WithEqual DEF Forms
  <2> QED BY <2>1, ReturnsDone, ThrowsDone, AttemptDone DEF ReferenceSwapValueFor
<1>2. CASE HasValue(o) /\ HasValue(p)
  <2>1. ReferenceSwap(o, p) = Returns(p, o)
    BY <1>2, Zenon DEF ReferenceSwap
  <2>2. Equal(p, p) /\ Equal(o, o)
    BY <1>2, EqualSides DEF Forms
  <2> QED BY <2>1, <2>2, ReturnsDone DEF SwapLeft
<1>3. CASE ~HasValue(o) /\ ~HasValue(p)
  <2>1. o.tag = "error" /\ p.tag = "error"
    BY <1>3 DEF Whole, HasError
  <2>2. ReferenceSwap(o, p) = SwapMembers(o, p, o.tag)
    BY <1>3, <2>1, Zenon DEF ReferenceSwap, ReferenceSwapErrors
  <2> QED BY <2>1, <2>2, SwapMembersDone DEF Forms, SwapLeft
<1>4. CASE HasValue(o) /\ ~HasValue(p)
  <2>1. ReferenceSwap(o, p) = ReferenceSwapValueFor(o, p)
    BY <1>4, Zenon DEF ReferenceSwap
  <2>2. o.tag # p.tag
    BY <1>4 DEF HasValue
  <2> QED BY <1>1, <1>4, <2>1, <2>2 DEF SwapLeft
<1>5. CASE ~HasValue(o) /\ HasValue(p)
  <2>1. ReferenceSwap(o, p) = Turned(ReferenceSwapValueFor(p, o))
    BY <1>5, Zenon DEF ReferenceSwap
  <2>2. o.tag # p.tag
    BY <1>5 DEF HasValue
  <2> QED BY <1>1, <1>5, <2>1, <2>2, TurnedDone DEF SwapLeft
<1> QED BY <1>2, <1>3, <1>4, <1>5

-----------------------------------------------------------------------------
(* expected<void, E>                                                        *)

LEMMA VoidTakeDone ==
    ASSUME form = "void", NEW o, NEW p
    PROVE  /\ Copied(p, VoidCopyNew(p)) /\ Copied(p, VoidCopyAssign(o, p))
           /\ Moved(p, VoidMoveNew(p)) /\ Moved(p, VoidMoveAssign(o, p))
<1>1. /\ HasValue(p) => HasValue(VoidValue) /\ HasValue(Tagged(o, p.tag))
      /\ MadeError(Read(p.error)) = WithError(Empty, Read(p.error))
  BY DEF HasValue, VoidValue, Tagged, Stored, MadeError
<1>2. /\ HasValue(p) => Equal(VoidValue, p) /\ Equal(Tagged(o, p.tag), p)
      /\ ~HasValue(p) => /\ Equal(MadeError(Read(p.error)), p)
                         /\ Equal(WithError(Tagged(o, p.tag), Read(p.error)), p)
  BY <1>1, WithEqual, EqualSides DEF Forms
<1>3. ErrorTaken(p).tag = p.tag
  BY TakenKeepsTag
<1>4. Copied(p, VoidCopyNew(p)) /\ Moved(p, VoidMoveNew(p))
  BY <1>2, <1>3, ReturnsDone, ThrowsDone, AttemptDone DEF VoidCopyNew, VoidMoveNew
<1>5. Copied(p, VoidCopyAssign(o, p)) /\ Moved(p, VoidMoveAssign(o, p))
  BY <1>2, <1>3, ReturnsDone, ThrowsDone, AttemptDone DEF VoidCopyAssign, VoidMoveAssign
<1> QED BY <1>4, <1>5

LEMMA VoidSwapDone ==
    ASSUME form = "void", NEW o, NEW p, Whole(o), Whole(p)
    PROVE  Exchanged(o, p, VoidSwap(o, p)) /\ SwapLeft(o, p, VoidSwap(o, p))
<1>1. \A q, s : HasValue(q) /\ ~HasValue(s) =>
        Exchanged(q, s, VoidSwapValueFor(q, s)) /\ Untouched(q, s, VoidSwapValueFor(q, s))
  <2> SUFFICES ASSUME NEW q, NEW s, HasValue(q), ~HasValue(s)
               PROVE  /\ Exchanged(q, s, VoidSwapValueFor(q, s))
                      /\ Untouched(q, s, VoidSwapValueFor(q, s))
    OBVIOUS
  <2>1. HasValue(Tagged(s, "value"))
    BY DEF HasValue, Tagged, Stored
  <2>2. Equal(WithError(q, Read(s.error)), s) /\ Equal(Tagged(s, "value"), q)
    BY <2>1, WithEqual, EqualSides DEF Forms
  <2> QED BY <2>2, ReturnsDone, ThrowsDone, AttemptDone DEF VoidSwapValueFor
<1>2. CASE HasValue(o) /\ HasValue(p)
  <2>1. VoidSwap(o, p) = Returns(o, p)
    BY <1>2, Zenon DEF VoidSwap
  <2>2. Equal(o, p) /\ Equal(p, o) /\ o.tag = p.tag
    BY <1>2, EqualSides DEF Forms, HasValue
  <2> QED BY <2>1, <2>2, ReturnsDone DEF SwapLeft
<1>3. CASE ~HasValue(o) /\ ~HasValue(p)
  <2>1. o.tag = "error" /\ p.tag = "error"
    BY <1>3 DEF Whole, HasError
  <2>2. VoidSwap(o, p) = SwapMembers(o, p, o.tag)
    BY <1>3, <2>1, Zenon DEF VoidSwap, VoidSwapErrors
  <2> QED BY <2>1, <2>2, SwapMembersDone DEF Forms, SwapLeft
<1>4. CASE HasValue(o) /\ ~HasValue(p)
  <2>1. VoidSwap(o, p) = VoidSwapValueFor(o, p)
    BY <1>4, Zenon DEF VoidSwap
  <2>2. o.tag # p.tag
    BY <1>4 DEF HasValue
  <2> QED BY <1>1, <1>4, <2>1, <2>2 DEF SwapLeft
<1>5. CASE ~HasValue(o) /\ HasValue(p)
  <2>1. VoidSwap(o, p) = Turned(VoidSwapValueFor(p, o))
    BY <1>5, Zenon DEF VoidSwap
  <2>2. o.tag # p.tag
    BY <1>5 DEF HasValue
  <2> QED BY <1>1, <1>5, <2>1, <2>2, TurnedDone DEF SwapLeft
<1> QED BY <1>2, <1>3, <1>4, <1>5

-----------------------------------------------------------------------------
(* The steps.                                                               *)

LEMMA WhatChanges ==
    ASSUME IInv, NEW op, NEW v \in Variables, NEW w \in Variables, NEW outcomes,
           Changes(op, v, w, outcomes)
    PROVE  /\ call'.op = op /\ call'.on = v /\ call'.with = w
           /\ \E r \in outcomes :
                /\ call'.end = r.end
                /\ holds'[v] = r.this
                /\ v # w => holds'[w] = r.other
<1>1. call'.op = op /\ call'.on = v /\ call'.with = w
  BY DEF Changes, Ends
<1>2. PICK r \in outcomes :
        /\ holds' = IF v = w THEN [holds EXCEPT ![v] = r.this]
                    ELSE [holds EXCEPT ![v] = r.this, ![w] = r.other]
        /\ Ends(op, v, w, r.end, Dead)
  BY DEF Changes
<1>3. call'.end = r.end
  BY <1>2 DEF Ends
<1>4. DOMAIN holds = Variables
  BY DEF IInv
<1>5. holds'[v] = r.this /\ (v # w => holds'[w] = r.other)
  BY <1>2, <1>4
<1> QED BY <1>1, <1>3, <1>5

\* What call names is v and w: of no other two variables is anything said.
LEMMA OfOthersNothing ==
    ASSUME NEW v, NEW w, call'.on = v, call'.with = w, NEW a, NEW b
    PROVE  /\ a # v \/ b # w => ThrowKeeps(a, b) /\ ReturnDoes(a, b)
           /\ call'.op \notin {"copy", "move", "assign", "emplace", "swap"} =>
                ThrowKeeps(a, b) /\ ReturnDoes(a, b)
           /\ call'.op \notin {"copy", "move", "swap"} => ReturnDoes(a, b)
BY Zenon DEF ThrowKeeps, ReturnDoes

LEMMA CopyReturns ==
    ASSUME IInv, NEW v \in Variables, NEW w \in Variables, NEW outcomes,
           Changes("copy", v, w, outcomes),
           Whole(holds[w]) => Copied(holds[w], outcomes),
           v = w => \A r \in outcomes : r.this = r.other
    PROVE  ReturnDoes(v, w)
<1>. SUFFICES ASSUME call'.end = "returned", Whole(holds[w])
              PROVE  Equal(holds'[v], holds[w]) /\ holds'[w] = holds[w]
  <2>1. call'.op = "copy" /\ call'.op # "swap" /\ call'.op # "move"
    BY WhatChanges
  <2> QED BY <2>1, Zenon DEF ReturnDoes
<1>1. PICK r \in outcomes :
        call'.end = r.end /\ holds'[v] = r.this /\ (v # w => holds'[w] = r.other)
  BY WhatChanges
<1>2. Equal(r.this, holds[w]) /\ r.other = holds[w]
  BY <1>1 DEF Copied
<1> QED BY <1>1, <1>2

LEMMA MoveReturns ==
    ASSUME IInv, NEW v \in Variables, NEW w \in Variables, NEW outcomes,
           Changes("move", v, w, outcomes),
           Whole(holds[w]) => Moved(holds[w], outcomes),
           v = w => \A r \in outcomes : r.this = r.other
    PROVE  ReturnDoes(v, w)
<1>. SUFFICES ASSUME call'.end = "returned", Whole(holds[w])
              PROVE  Equal(holds'[v], holds[w]) /\ holds'[w].tag = holds[w].tag
  <2>1. call'.op = "move" /\ call'.op # "swap" /\ call'.op # "copy"
    BY WhatChanges
  <2> QED BY <2>1, Zenon DEF ReturnDoes
<1>1. PICK r \in outcomes :
        call'.end = r.end /\ holds'[v] = r.this /\ (v # w => holds'[w] = r.other)
  BY WhatChanges
<1>2. Equal(r.this, holds[w]) /\ r.other.tag = holds[w].tag
  BY <1>1 DEF Moved
<1> QED BY <1>1, <1>2

LEMMA SwapReturns ==
    ASSUME IInv, NEW v \in Variables, NEW w \in Variables, NEW outcomes,
           Changes("swap", v, w, outcomes),
           Whole(holds[v]) /\ Whole(holds[w]) => Exchanged(holds[v], holds[w], outcomes)
    PROVE  ReturnDoes(v, w)
<1>0. call'.op = "swap" /\ call'.op # "copy" /\ call'.op # "move"
  BY WhatChanges
<1>. SUFFICES ASSUME call'.end = "returned", Whole(holds[w]), Whole(holds[v])
              PROVE  Equal(holds'[v], holds[w]) /\ Equal(holds'[w], holds[v])
  BY <1>0, Zenon DEF ReturnDoes
<1>1. PICK r \in outcomes :
        call'.end = r.end /\ holds'[v] = r.this /\ (v # w => holds'[w] = r.other)
  BY WhatChanges
<1>2. Equal(r.this, holds[w]) /\ Equal(r.other, holds[v])
  BY <1>1 DEF Exchanged
<1> QED BY <1>1, <1>2

LEMMA Throwing ==
    ASSUME IInv, NEW op \in {"copy", "move", "assign", "emplace", "swap"},
           NEW v \in Variables, NEW w \in Variables, NEW outcomes,
           Changes(op, v, w, outcomes),
           InScope(v) /\ Whole(holds[v]) /\ Whole(holds[w]) /\ throwing # Sides
             /\ (form = "void" => op = "swap") =>
                /\ op # "swap" => Kept(op, holds[v], holds[w], outcomes)
                /\ op = "swap" => SwapLeft(holds[v], holds[w], outcomes)
    PROVE  ThrowKeeps(v, w)
<1>. DEFINE o == holds[v]
            p == holds[w]
            left(q, s) ==
                CASE op # "swap" -> (v # w => Meaning(s) = Meaning(p)) /\ TargetLeft(op, o, p, q)
                  [] op = "swap" /\ o.tag # p.tag -> Meaning(q) = Meaning(o) /\ Meaning(s) = Meaning(p)
                  [] op = "swap" /\ o.tag = p.tag ->
                       /\ q.tag = o.tag /\ Whole(q) /\ s.tag = p.tag /\ Whole(s)
                       /\ v # w => Meaning(p) \in {Meaning(q), Meaning(s)}
<1>1. call'.op = op
  BY WhatChanges
<1>. SUFFICES ASSUME call'.end = "threw", InScope(v), Whole(o), Whole(p),
                     throwing # Sides, form = "void" => op = "swap"
              PROVE  left(holds'[v], holds'[w])
  BY <1>1, Zenon DEF ThrowKeeps, TargetLeft
<1>2. PICK r \in outcomes :
        call'.end = r.end /\ holds'[v] = r.this /\ (v # w => holds'[w] = r.other)
  BY WhatChanges
<1>3. CASE op # "swap"
  <2>1. TargetLeft(op, o, p, r.this) /\ Meaning(r.other) = Meaning(p)
    BY <1>2, <1>3 DEF Kept
  <2> QED BY <1>2, <1>3, <2>1, Zenon
<1>4. CASE op = "swap" /\ o.tag # p.tag
  <2>1. Meaning(r.this) = Meaning(o) /\ Meaning(r.other) = Meaning(p)
    BY <1>2, <1>4 DEF SwapLeft, Untouched
  <2>2. v # w
    BY <1>4
  <2> QED BY <1>2, <1>4, <2>1, <2>2, Zenon
<1>5. CASE op = "swap" /\ o.tag = p.tag
  <2>1. OnTheirSide(o, p, r.this, r.other) /\ Meaning(p) \in {Meaning(r.this), Meaning(r.other)}
    BY <1>2, <1>5 DEF SwapLeft, Halved
  <2>2. v = w => holds'[w] = r.this
    BY <1>2
  <2> QED BY <1>2, <1>5, <2>1, <2>2, Zenon DEF OnTheirSide
<1> QED BY <1>3, <1>4, <1>5

LEMMA Matters ==
    ASSUME IInv, throwing # Sides, form # "void" PROVE TagMatters
BY DEF IInv, TagMatters, Forms

LEMMA CopyConstructDoes ==
    ASSUME IInv, NEW v \in Variables, NEW w \in Variables, CopyConstruct(v,
           w) \/ MoveConstruct(v, w)
    PROVE  ThrowKeeps(v, w) /\ ReturnDoes(v, w)
<1>. DEFINE p == holds[w]
            copied == ByForm(ObjectCopyFrom(Empty, p), ReferenceCopied(Empty, p), VoidCopyNew(p))
            moved == ByForm(ObjectMoveFrom(Empty, p), ReferenceMoved(Empty, p), VoidMoveNew(p))
<1>1. ~InScope(v) /\ v # w
  BY DEF CopyConstruct, MoveConstruct
<1>2. form \in Forms /\ (form # "void" => Sane(Empty))
  BY EmptySane DEF IInv
<1>3. Whole(p) => Copied(p, copied) /\ Moved(p, moved)
  <2>1. CASE form = "object"
    BY <1>2, <2>1, CopyFromDone, MoveFromDone, ByFormOf
  <2>2. CASE form = "reference"
    BY <2>2, ReferenceTakeDone, ByFormOf
  <2>3. CASE form = "void"
    BY <2>3, VoidTakeDone, ByFormOf
  <2> QED BY <1>2, <2>1, <2>2, <2>3 DEF Forms
<1>4. CASE CopyConstruct(v, w)
  <2>1. Changes("copy", v, w, Constructed(copied))
    BY <1>4 DEF CopyConstruct
  <2>. HIDE DEF copied
  <2>2. Whole(p) => Copied(p, Constructed(copied))
    BY <1>3 DEF Copied, Constructed, Outcome
  <2> QED BY <1>1, <2>1, <2>2, CopyReturns, Throwing
<1>5. CASE MoveConstruct(v, w)
  <2>1. Changes("move", v, w, Constructed(moved))
    BY <1>5 DEF MoveConstruct
  <2>. HIDE DEF moved
  <2>2. Whole(p) => Moved(p, Constructed(moved))
    BY <1>3 DEF Moved, Constructed, Outcome
  <2> QED BY <1>1, <2>1, <2>2, MoveReturns, Throwing
<1> QED BY <1>4, <1>5

LEMMA AssignDoes ==
    ASSUME IInv, NEW v \in Variables, NEW w \in Variables, CopyAssign(v, w) \/ MoveAssign(v, w)
    PROVE  ThrowKeeps(v, w) /\ ReturnDoes(v, w)
<1>. DEFINE o == holds[v]
            p == holds[w]
            copied == ByForm(ObjectCopyFrom(o, p), ReferenceCopyAssign(o, p), VoidCopyAssign(o, p))
            moved == ByForm(ObjectMoveFrom(o, p), ReferenceMoveAssign(o, p), VoidMoveAssign(o, p))
            copy == IF v = w THEN Returns(o, o) ELSE copied
            move == IF v = w THEN Returns(o, o) ELSE moved
<1>1. Sane(o) /\ form \in Forms
  BY InScopeSane DEF CopyAssign, MoveAssign, IInv
<1>2. Whole(p) =>
        /\ Copied(p, copied) /\ Moved(p, moved)
        /\ throwing # Sides /\ form # "void" /\ Whole(o) => Kept("copy", o, p, copied) /\ Kept("move", o, p, moved)
  <2>1. CASE form = "object"
    BY <1>1, <2>1, Matters, CopyFromDone, MoveFromDone, ByFormOf
  <2>2. CASE form = "reference"
    <3>1. TagMatters
      BY <2>2 DEF TagMatters
    <3>2. Destroyed(o) = Empty
      BY <1>1, <2>2, <3>1, DestroyedEmpty
    <3>3. /\ Copied(p, ReferenceCopyAssign(o, p)) /\ Moved(p, ReferenceMoveAssign(o, p))
          /\ Kept("copy", o, p, ReferenceCopyAssign(o, p))
          /\ Kept("move", o, p, ReferenceMoveAssign(o, p))
      BY <2>2, <3>2, ReferenceTakeDone DEF ReferenceCopyAssign, ReferenceMoveAssign
    <3> QED BY <2>2, <3>3, ByFormOf
  <2>3. CASE form = "void"
    BY <2>3, VoidTakeDone, ByFormOf
  <2> QED BY <1>1, <2>1, <2>2, <2>3 DEF Forms
<1>3. Whole(p) /\ v = w => Equal(o, o)
  <2>1. HasValue(o) \/ ~HasValue(o)
    OBVIOUS
  <2> QED BY <1>1, <2>1, EqualSides
<1>. HIDE DEF copied, moved
<1>4. Whole(p) =>
        /\ Copied(p, copy) /\ Moved(p, move)
        /\ throwing # Sides /\ form # "void" /\ Whole(o) => Kept("copy", o, p, copy) /\ Kept("move", o, p, move)
  BY <1>2, <1>3, ReturnsDone
<1>5. v = w => \A r \in Returns(o, o) : r.this = r.other
  BY DEF Returns, Outcome
<1>6. CASE CopyAssign(v, w)
  <2>1. Changes("copy", v, w, copy)
    BY <1>6 DEF CopyAssign, copied
  <2>2. v = w => \A r \in copy : r.this = r.other
    BY <1>5
  <2>. HIDE DEF copy
  <2> QED BY <1>4, <2>1, <2>2, CopyReturns, Throwing
<1>7. CASE MoveAssign(v, w)
  <2>1. Changes("move", v, w, move)
    BY <1>7 DEF MoveAssign, moved
  <2>2. v = w => \A r \in move : r.this = r.other
    BY <1>5
  <2>. HIDE DEF move
  <2> QED BY <1>4, <2>1, <2>2, MoveReturns, Throwing
<1> QED BY <1>6, <1>7

LEMMA SwapDoes ==
    ASSUME IInv, NEW v \in Variables, NEW w \in Variables, Swap(v, w)
    PROVE  ThrowKeeps(v, w) /\ ReturnDoes(v, w)
<1>. DEFINE o == holds[v]
            p == holds[w]
            swapped == ByForm(ObjectSwap(o, p), ReferenceSwap(o, p), VoidSwap(o, p))
<1>1. form \in Forms /\ throwing \in SUBSET Sides
  BY DEF IInv
<1>2. Whole(o) /\ Whole(p) =>
        /\ Exchanged(o, p, swapped)
        /\ throwing # Sides => SwapLeft(o, p, swapped)
  <2>1. CASE form = "object"
    BY <1>1, <2>1, Matters, ObjectSwapDone, ByFormOf
  <2>2. CASE form = "reference"
    BY <2>2, ReferenceSwapDone, ByFormOf
  <2>3. CASE form = "void"
    BY <2>3, VoidSwapDone, ByFormOf
  <2> QED BY <1>1, <2>1, <2>2, <2>3 DEF Forms
<1>3. Changes("swap", v, w, swapped)
  BY DEF Swap
<1>. HIDE DEF swapped
<1> QED BY <1>2, <1>3, SwapReturns, Throwing

LEMMA SetDoes ==
    ASSUME IInv, NEW v \in Variables, AssignValue(v) \/ Emplace(v)
    PROVE  ThrowKeeps(v, v) /\ call'.on = v /\ call'.with = v /\ call'.op \notin {"copy", "move", "swap"}
<1>. DEFINE o == holds[v]
<1>1. Sane(o) /\ form \in Forms
  BY InScopeSane DEF AssignValue, Emplace, IInv
<1>2. CASE AssignValue(v)
  <2>1. PICK c \in Contents : Changes("assign", v, v, ObjectAssignValue(o, c))
    BY <1>2 DEF AssignValue
  <2>2. form = "object"
    BY <1>2 DEF AssignValue
  <2>3. Whole(o) /\ throwing # Sides => Kept("assign", o, o, ObjectAssignValue(o, c))
    BY <1>1, <2>2, Matters, AssignValueKept
  <2> QED BY <2>1, <2>3, Throwing, WhatChanges
<1>3. CASE Emplace(v)
  <2>1. PICK c \in Contents :
          Changes("emplace", v, v, ByForm(ObjectEmplace(o, c), ReferenceEmplace(o, c), VoidEmplace(o)))
    BY <1>3 DEF Emplace
  <2>. DEFINE set == ByForm(ObjectEmplace(o, c), ReferenceEmplace(o, c), VoidEmplace(o))
  <2>2. Whole(o) /\ throwing # Sides /\ form # "void" => Kept("emplace", o, o, set)
    <3>1. CASE form = "object"
      BY <1>1, <3>1, Matters, AssignValueKept, ByFormOf
    <3>2. CASE form = "reference"
      <4>1. Kept("emplace", o, o, ReferenceEmplace(o, c))
        BY ReturnsDone DEF ReferenceEmplace
      <4> QED BY <3>2, <4>1, ByFormOf
    <3> QED BY <1>1, <3>1, <3>2 DEF Forms
  <2>. HIDE DEF set
  <2>3. Changes("emplace", v, v, set)
    BY <2>1 DEF set
  <2> QED BY <2>2, <2>3, Throwing, WhatChanges
<1> QED BY <1>2, <1>3

\* The calls of which neither property speaks.
LEMMA RestSaysNothing ==
    ASSUME IInv, NEW v \in Variables, NEW w \in Variables,
           Construct(v) \/ Monadic(v, w) \/ Observe(v) \/ Destroy(v)
    PROVE  \A a, b \in Variables : ThrowKeeps(a, b) /\ ReturnDoes(a, b)
<1>1. call'.op \notin {"copy", "move", "assign", "emplace", "swap"}
  BY DEF Construct, Monadic, Observe, Destroy, Changes, Reads, Ends
<1> QED BY <1>1, Zenon DEF ThrowKeeps, ReturnDoes

LEMMA StepsDo ==
    ASSUME IInv, Next
    PROVE  \A a, b \in Variables : ThrowKeeps(a, b) /\ ReturnDoes(a, b)
<1>1. ASSUME NEW v \in Variables, AssignValue(v) \/ Emplace(v)
      PROVE  \A a, b \in Variables : ThrowKeeps(a, b) /\ ReturnDoes(a, b)
  BY <1>1, SetDoes, OfOthersNothing
<1>2. ASSUME NEW v \in Variables, NEW w \in Variables,
             \/ CopyConstruct(v, w) \/ MoveConstruct(v, w)
             \/ CopyAssign(v, w) \/ MoveAssign(v, w) \/ Swap(v, w)
      PROVE  \A a, b \in Variables : ThrowKeeps(a, b) /\ ReturnDoes(a, b)
  <2>1. ThrowKeeps(v, w) /\ ReturnDoes(v, w)
    BY <1>2, CopyConstructDoes, AssignDoes, SwapDoes
  <2>2. call'.on = v /\ call'.with = w
    BY <1>2 DEF CopyConstruct, MoveConstruct, CopyAssign, MoveAssign, Swap, Changes, Ends
  <2> QED BY <2>1, <2>2, OfOthersNothing
<1> QED BY <1>1, <1>2, RestSaysNothing DEF Next

\* A throw leaves what was assigned to on its side, what was replaced empty, and
\* what was swapped as it was or half exchanged (expected.h, the assignments,
\* emplace() and swap()).
THEOREM ThrowsKeep == Spec => ThrowKeepsOrEmpties
<1>1. IInv /\ [Next]_vars => [\A v, w \in Variables : ThrowKeeps(v, w)]_vars
  BY StepsDo
<1> QED BY <1>1, Invariance, PTL DEF Spec, ThrowKeepsOrEmpties

\* A copy, a move and a swap that return did what they say.
THEOREM ReturnsDo == Spec => ReturnedMeansDone
<1>1. IInv /\ [Next]_vars => [\A v, w \in Variables : ReturnDoes(v, w)]_vars
  BY StepsDo
<1> QED BY <1>1, Invariance, PTL DEF Spec, ReturnedMeansDone

-----------------------------------------------------------------------------
(***************************************************************************)
(* The timer.                                                              *)
(***************************************************************************)
LEMMA TimerParameters ==
  /\ IsFiniteSet(Users) /\ Users \cap Nat = {}
  /\ CallbackStops \in BOOLEAN
  /\ MaxStarts \in Nat
BY UsersAssumption, FlagAssumption, BoundAssumption

StopCall == {"check", "cancel", "notify", "join"}
Storing(a) == at[a] \in {"spawn", "assign"}

\* The starts that have no State yet: there is room for theirs.
Pending == {u \in Users : starting[u] /\ ~Storing(u)}
Room == started + Cardinality(Pending) <= MaxStarts

\* Only a start stores a State and spawns its worker.
StartsStart ==
  \A u \in Users : at[u] \in {"store", "spawn", "assign"} => starting[u]

(***************************************************************************)
(* What holds while starts are kept apart: nobody else is in a call while  *)
(* a start is;                                                             *)
(***************************************************************************)
OneStart ==
  \A u \in Users :
    starting[u] => at[u] # "idle" /\ \A v \in Users \ {u} : at[v] = "idle"

\* a user's stop has taken the State away from the timer, and its worker has
\* not been joined;
StopOwns ==
  \A u \in Users :
    /\ at[u] \in StopCall => state = 0 /\ worker[held[u]] = "joinable"
    /\ at[u] = "store" => state = 0

\* a start that has stored its State works on that one, which has no worker;
StartOwns ==
  \A u \in Users : Storing(u) => state = held[u] /\ worker[held[u]] = "empty"

\* no two calls work on one State;
OneOwner ==
  \A a, b \in Actors : held[a] = held[b] /\ held[a] # 0 => a = b

\* the State that is set has its worker, unless the start that made it is
\* still at it, and nobody else works on it;
SetOwned ==
  state # 0 =>
    /\ worker[state] = "joinable" \/ \E u \in Users : held[u] = state /\ Storing(u)
    /\ \A a \in Actors : held[a] = state => Storing(a)

\* a callback's stop is on its own State, and comes no further than the check;
WorkerStops ==
  \A s \in States :
    /\ at[s] \in {"idle", "check"}
    /\ at[s] = "check" => held[s] = s /\ worker[s] = "joinable" /\ wpc[s] = "stopping"

\* a worker that has not fired is set, or a user's call is on it;
Live ==
  \A s \in States :
    wpc[s] \in {"begun", "tested", "asleep", "awake", "firing"} =>
      state = s \/ \E u \in Users : held[u] = s

\* one whose callback runs can be joined;
Fire == \A s \in States : wpc[s] = "firing" => worker[s] = "joinable"

\* a State with a thread to be joined is referred to;
Joinable ==
  \A s \in States :
    worker[s] = "joinable" => state = s \/ \E a \in Actors : held[a] = s

\* a State not made yet has no worker; and one that was stopped is over.
Fresh == \A s \in States : s > started => worker[s] = "empty"
Stopped == \A s \in stopped : wpc[s] = "over" /\ worker[s] = "joined"

Apart ==
  /\ OneStart /\ StopOwns /\ StartOwns /\ OneOwner /\ SetOwned
  /\ WorkerStops /\ Live /\ Fire /\ Joinable /\ Fresh /\ Stopped

TimerInv == TimerTypeOK /\ StartsStart /\ Room /\ (synchronised => Apart)

-----------------------------------------------------------------------------
LEMMA TimerInitially == ASSUME TimerInit PROVE TimerInv
<1>1. TimerTypeOK
  BY TimerParameters DEF TimerInit, TimerTypeOK, States, Actors, None, WorkerPhases,
     StopPhases, CallPhases
<1>2. Room
  <2>1. Pending = {}
    BY DEF TimerInit, Actors, Pending
  <2> QED BY TimerParameters, <2>1, FS_EmptySet DEF Room, TimerInit
<1>3. Apart
  BY TimerParameters DEF TimerInit, None, States, Actors, Apart, OneStart, StopOwns,
     StartOwns, OneOwner, SetOwned, WorkerStops, Live,
     Fire, Joinable, Fresh, Stopped, StopCall, Storing
<1>4. StartsStart
  BY DEF TimerInit, Actors, StartsStart
<1> QED BY <1>1, <1>2, <1>3, <1>4 DEF TimerInv

LEMMA PendingFinite ==
  IsFiniteSet(Pending) /\ Cardinality(Pending) \in Nat
BY TimerParameters, FS_Subset, FS_CardinalityType DEF Pending

\* As long as no start begins, the calls that wait for a State are no more.
LEMMA RoomStays ==
  ASSUME Room, started \in Nat, started' = started, Pending' \subseteq Pending
  PROVE  Room'
<1>1. Cardinality(Pending') <= Cardinality(Pending) /\ Cardinality(Pending') \in Nat
  BY PendingFinite, FS_Subset, FS_CardinalityType
<1> QED BY TimerParameters, <1>1, PendingFinite DEF Room

LEMMA Places ==
  ASSUME TimerTypeOK
  PROVE  /\ \A s \in States : s \in Nat /\ s # 0 /\ s \notin Users
         /\ \A a \in Actors : held[a] \in 0..started
         /\ \A a \in Actors : at[a] \notin {"idle", "store"} => held[a] \in States
<1>1. \A s \in States : s \in Nat /\ s # 0 /\ s \notin Users
  BY TimerParameters DEF States
<1>2. \A a \in Actors : held[a] \in 0..started /\ (held[a] = 0 <=> at[a] \in {"idle", "store"})
  BY DEF TimerTypeOK, None
<1>3. started \in 0..MaxStarts
  BY DEF TimerTypeOK
<1> QED BY TimerParameters, <1>1, <1>2, <1>3 DEF States

LEMMA TakeTypes ==
  ASSUME TimerTypeOK, NEW a \in Actors, NEW isStart \in BOOLEAN,
         Take(a, isStart), wpc' \in [States -> WorkerPhases],
         isStart => a \in Users
  PROVE  TimerTypeOK'
<1>1. \A b \in Actors \ {a} : at'[b] = at[b] /\ starting'[b] = starting[b] /\ held'[b] = held[b]
  BY DEF Take, TimerTypeOK
<1>2. starting'[a] = isStart /\ held'[a] = state /\ at'[a] \in CallPhases
      /\ (state = 0 => at'[a] = Return(isStart)) /\ (state # 0 => at'[a] = "check")
  BY DEF Take, TimerTypeOK, CallPhases, StopPhases, Return, None
<1>3. \A s \in States : at'[s] \in StopPhases /\ ~starting'[s]
  <2> SUFFICES ASSUME NEW s \in States PROVE at'[s] \in StopPhases /\ ~starting'[s]
    OBVIOUS
  <2>1. CASE s = a
    BY <2>1, <1>2, Places DEF Return, StopPhases
  <2>2. CASE s # a
    BY <2>2, <1>1 DEF TimerTypeOK, Actors
  <2> QED BY <2>1, <2>2
<1>4. \A b \in Actors : held'[b] = 0 <=> at'[b] \in {"idle", "store"}
  BY <1>1, <1>2 DEF Return, TimerTypeOK, None
<1> QED BY <1>1, <1>2, <1>3, <1>4 DEF TimerTypeOK, Take, None

LEMMA LetGoTypes ==
  ASSUME TimerTypeOK, NEW a \in Actors, at[a] \in StopCall,
         LetGo(a),
         UNCHANGED <<synchronised, state, started, cancelled, wpc, starting>>,
         running' \in [States -> BOOLEAN],
         worker' \in [States -> {"empty", "joinable", "detached", "joined"}],
         stopped' \subseteq 1..started
  PROVE  TimerTypeOK'
<1>1. \A b \in Actors \ {a} : at'[b] = at[b] /\ held'[b] = held[b]
  BY DEF LetGo, TimerTypeOK
<1>2. held'[a] = 0 /\ at'[a] = Return(starting[a])
  BY DEF LetGo, TimerTypeOK, None
<1>3. Return(starting[a]) \in {"idle", "store"} /\ at'[a] \in CallPhases
  BY <1>2 DEF Return, CallPhases, StopPhases
<1>4. \A s \in States : at'[s] \in StopPhases
  <2> SUFFICES ASSUME NEW s \in States PROVE at'[s] \in StopPhases
    OBVIOUS
  <2>1. CASE s = a
    BY <2>1, <1>2 DEF Return, StopPhases, TimerTypeOK
  <2>2. CASE s # a
    BY <2>2, <1>1 DEF TimerTypeOK, Actors
  <2> QED BY <2>1, <2>2
<1>5. \A b \in Actors : held'[b] = 0 <=> at'[b] \in {"idle", "store"}
  BY <1>1, <1>2, <1>3 DEF TimerTypeOK, None
<1>6. at' \in [Actors -> CallPhases] /\ held' \in [Actors -> 0..started]
  <2>1. held' = [held EXCEPT ![a] = 0] /\ at' = [at EXCEPT ![a] = Return(starting[a])]
    BY DEF LetGo, None
  <2> QED BY <2>1, <1>2, <1>3 DEF TimerTypeOK
<1> QED BY <1>4, <1>5, <1>6 DEF TimerTypeOK, None

\* A call goes on with the same State.
LEMMA GotoTypes ==
  ASSUME TimerTypeOK, NEW a \in Actors,
         NEW phase \in CallPhases,
         at[a] \notin {"idle", "store"}, phase \notin {"idle", "store"},
         a \in Users \/ phase \in StopPhases,
         Goto(a, phase),
         UNCHANGED <<synchronised, state, started, running, worker, starting, stopped>>,
         cancelled' \in [States -> BOOLEAN],
         wpc' \in [States -> WorkerPhases]
  PROVE  TimerTypeOK'
<1>1. \A b \in Actors \ {a} : at'[b] = at[b]
  BY DEF Goto, TimerTypeOK
<1>2. at'[a] = phase /\ held' = held
  BY DEF Goto, TimerTypeOK
<1>4. \A s \in States : at'[s] \in StopPhases
  BY <1>1, <1>2, Places DEF TimerTypeOK, Actors
<1>5. \A b \in Actors : held'[b] = 0 <=> at'[b] \in {"idle", "store"}
  BY <1>1, <1>2 DEF TimerTypeOK, None
<1>6. at' \in [Actors -> CallPhases]
  BY DEF TimerTypeOK, Goto
<1> QED BY <1>2, <1>4, <1>5, <1>6 DEF TimerTypeOK, None

LEMMA StopStepTypes ==
  ASSUME TimerTypeOK, NEW a \in Actors, StopStep(a)
  PROVE  TimerTypeOK'
<1>0. at[a] \in StopCall => held[a] \in States
  BY Places DEF StopCall
<1>1. CASE Check(a) /\ held[a] = a /\ worker[a] = "joinable"
  <2>1. worker' = [worker EXCEPT ![a] = "detached"] /\ LetGo(a) /\ at[a] = "check"
    BY <1>1 DEF Check
  <2>2. worker' \in [States -> {"empty", "joinable", "detached", "joined"}]
    BY <2>1 DEF TimerTypeOK
  <2> QED BY <1>1, <2>1, <2>2, LetGoTypes DEF Check, StopCall, TimerTypeOK
<1>2. CASE Check(a) /\ ~(held[a] = a /\ worker[a] = "joinable")
  BY <1>2, GotoTypes DEF Check, CallPhases, StopPhases, TimerTypeOK
<1>3. CASE Cancel(a)
  BY <1>3, GotoTypes DEF Cancel, CallPhases, StopPhases, TimerTypeOK
<1>4. CASE Notify(a)
  <2>1. wpc' \in [States -> WorkerPhases]
    BY <1>4 DEF Notify, TimerTypeOK, WorkerPhases
  <2> QED BY <1>4, <2>1, GotoTypes DEF Notify, CallPhases, StopPhases, TimerTypeOK
<1>5. CASE Join(a)
  <2>1. worker' \in [States -> {"empty", "joinable", "detached", "joined"}]
    BY <1>5 DEF Join, TimerTypeOK
  <2>2. running' \in [States -> BOOLEAN]
    BY <1>5 DEF Join, TimerTypeOK
  <2>3. stopped' \subseteq 1..started
    <3>1. at[a] = "join" /\ stopped' = stopped \cup {held[a]}
      BY <1>5 DEF Join
    <3>2. held[a] \in 0..started /\ held[a] # 0 /\ started \in Nat
      BY TimerParameters, <3>1, Places DEF TimerTypeOK
    <3>3. held[a] \in 1..started /\ stopped \subseteq 1..started
      BY <3>2 DEF TimerTypeOK
    <3> QED BY <3>1, <3>3
  <2> QED BY <1>5, <2>1, <2>2, <2>3, LetGoTypes DEF Join, StopCall
<1> QED BY <1>1, <1>2, <1>3, <1>4, <1>5 DEF StopStep

LEMMA StoreTypes ==
  ASSUME TimerTypeOK, Room, NEW u \in Users, Store(u), starting[u]
  PROVE  TimerTypeOK' /\ Room'
<1>1. u \in Pending /\ started \in Nat
  BY TimerParameters DEF Pending, Storing, Store, TimerTypeOK
<1>2. Cardinality(Pending \ {u}) = Cardinality(Pending) - 1
  BY <1>1, PendingFinite, FS_RemoveElement
<1>3. started + 1 \in 1..MaxStarts /\ started + Cardinality(Pending) <= MaxStarts
  <2>1. Cardinality(Pending \ {u}) \in Nat
    BY PendingFinite, FS_Subset, FS_CardinalityType
  <2> QED BY TimerParameters, <1>1, <1>2, <2>1, PendingFinite DEF Room
<1>4. /\ started' = started + 1
      /\ state' = started + 1
      /\ held' = [held EXCEPT ![u] = started + 1]
      /\ at' = [at EXCEPT ![u] = "spawn"]
      /\ running' = [running EXCEPT ![started + 1] = TRUE]
      /\ UNCHANGED <<synchronised, cancelled, worker, wpc, starting, stopped>>
  BY DEF Store
<1>5. \A b \in Actors \ {u} : at'[b] = at[b] /\ held'[b] = held[b]
  BY <1>4 DEF TimerTypeOK
<1>6. at'[u] = "spawn" /\ held'[u] = started + 1
  BY <1>4 DEF TimerTypeOK, Actors
<1>7. Pending' = Pending \ {u}
  BY <1>4, <1>5, <1>6 DEF Pending, Storing, Actors
<1>8. Room'
  BY <1>1, <1>2, <1>3, <1>4, <1>7, PendingFinite DEF Room
<1>9. \A s \in States : at'[s] \in StopPhases /\ ~starting'[s]
  BY <1>4, <1>5, Places DEF TimerTypeOK, Actors
<1>10. \A b \in Actors : held'[b] = 0 <=> at'[b] \in {"idle", "store"}
  BY <1>1, <1>5, <1>6 DEF TimerTypeOK, None
<1>11. at' \in [Actors -> CallPhases] /\ held' \in [Actors -> 0..started']
  <2>1. held \in [Actors -> 0..(started + 1)]
    BY <1>1 DEF TimerTypeOK
  <2>2. held' \in [Actors -> 0..(started + 1)]
    <3>1. started + 1 \in 0..(started + 1)
      BY <1>1
    <3> QED BY <1>4, <2>1, <3>1
  <2>3. at' \in [Actors -> CallPhases]
    BY <1>4 DEF TimerTypeOK, CallPhases
  <2> QED BY <1>4, <2>2, <2>3
<1>12. started' \in 0..MaxStarts /\ state' \in 0..started' /\ stopped' \subseteq 1..started'
  <2>1. stopped \subseteq 1..started /\ 1..started \subseteq 1..(started + 1)
    BY <1>1 DEF TimerTypeOK
  <2> QED BY <1>1, <1>3, <1>4, <2>1
<1>13. running' \in [States -> BOOLEAN]
  BY <1>4 DEF TimerTypeOK
<1>14. TimerTypeOK'
  BY <1>4, <1>9, <1>10, <1>11, <1>12, <1>13 DEF TimerTypeOK, None
<1> QED BY <1>8, <1>14

LEMMA AssignTypes ==
  ASSUME TimerTypeOK, NEW u \in Users, Assign(u)
  PROVE  TimerTypeOK'
<1>4. /\ worker' = [worker EXCEPT ![held[u]] = "joinable"]
      /\ starting' = [starting EXCEPT ![u] = FALSE]
      /\ held' = [held EXCEPT ![u] = 0]
      /\ at' = [at EXCEPT ![u] = "idle"]
      /\ UNCHANGED <<synchronised, state, started, cancelled, running, wpc, stopped>>
  BY DEF Assign, None
<1>5. \A b \in Actors \ {u} : at'[b] = at[b] /\ held'[b] = held[b] /\ starting'[b] = starting[b]
  BY <1>4 DEF TimerTypeOK
<1>6. at'[u] = "idle" /\ held'[u] = 0
  BY <1>4 DEF TimerTypeOK, Actors
<1>9. \A s \in States : at'[s] \in StopPhases /\ ~starting'[s]
  BY <1>4, <1>5, Places DEF TimerTypeOK, Actors
<1>10. \A b \in Actors : held'[b] = 0 <=> at'[b] \in {"idle", "store"}
  BY <1>5, <1>6 DEF TimerTypeOK, None
<1>11. at' \in [Actors -> CallPhases] /\ held' \in [Actors -> 0..started]
  <2>1. 0 \in 0..started /\ "idle" \in CallPhases
    BY TimerParameters DEF TimerTypeOK, CallPhases, StopPhases
  <2> QED BY <1>4, <2>1 DEF TimerTypeOK
<1>12. worker' \in [States -> {"empty", "joinable", "detached", "joined"}] /\ starting' \in [Actors -> BOOLEAN]
  BY <1>4 DEF TimerTypeOK
<1> QED BY <1>4, <1>9, <1>10, <1>11, <1>12 DEF TimerTypeOK, None

LEMMA StartStepTypes ==
  ASSUME TimerTypeOK, Room, NEW u \in Users, StartStep(u),
         at[u] = "store" => starting[u]
  PROVE  TimerTypeOK'
<1>0. u \in Actors
  BY DEF Actors
<1>1. CASE Store(u)
  BY <1>1, StoreTypes DEF Store
<1>2. CASE Spawn(u)
  <2>1. wpc' \in [States -> WorkerPhases]
    BY <1>2 DEF Spawn, TimerTypeOK, WorkerPhases
  <2> QED BY <1>0, <1>2, <2>1, GotoTypes DEF Spawn, CallPhases, StopPhases, TimerTypeOK
<1>3. CASE Assign(u)
  BY <1>3, AssignTypes
<1> QED BY <1>1, <1>2, <1>3 DEF StartStep

LEMMA WorkerTypes ==
  ASSUME TimerTypeOK, NEW s \in States, NEW from, NEW to \in WorkerPhases,
         Worker(s, from, to)
  PROVE  TimerTypeOK'
<1>1. wpc' \in [States -> WorkerPhases]
  BY DEF Worker, TimerTypeOK
<1>2. running' \in [States -> BOOLEAN]
  BY DEF Worker, TimerTypeOK
<1> QED BY <1>1, <1>2 DEF Worker, TimerTypeOK, calls

LEMMA WorkerStepTypes ==
  ASSUME TimerTypeOK, NEW s \in States,
         WorkerStep(s) \/ Wake(s) \/ TimeOut(s)
  PROVE  /\ TimerTypeOK'
         /\ UNCHANGED <<synchronised, state, started, cancelled, worker, starting, stopped>>
         /\ \A u \in Users : at'[u] = at[u] /\ held'[u] = held[u]
<1>1. CASE JoinItself(s)
  <2>1. TimerTypeOK'
    BY <1>1, LetGoTypes DEF JoinItself, StopCall, TimerTypeOK, Actors
  <2>2. held' = [held EXCEPT ![s] = 0] /\ at' = [at EXCEPT ![s] = Return(starting[s])]
    BY <1>1 DEF JoinItself, LetGo, None
  <2> QED BY <1>1, <2>1, <2>2, Places DEF JoinItself, TimerTypeOK, Actors
<1>2. CASE Test(s)
  BY <1>2, WorkerTypes DEF Test, WorkerPhases, Worker, calls
<1>3. CASE Sleep(s) \/ Wake(s) \/ CallbackEnds(s)
  BY <1>3, WorkerTypes DEF Sleep, Wake, CallbackEnds, WorkerPhases, Worker, calls
<1>4. CASE TimeOut(s)
  BY <1>4, WorkerTypes DEF TimeOut, WorkerPhases, Worker, calls
<1> QED BY <1>1, <1>2, <1>3, <1>4 DEF WorkerStep

LEMMA CallbackStopTypes ==
  ASSUME TimerTypeOK, NEW s \in States, CallbackStop(s)
  PROVE  TimerTypeOK'
<1>1. wpc' \in [States -> WorkerPhases]
  BY DEF CallbackStop, TimerTypeOK, WorkerPhases
<1> QED BY <1>1, TakeTypes DEF CallbackStop, Actors

\* A start that begins is one of those that MayStart counts.
LEMMA StartRoom ==
  ASSUME TimerTypeOK, StartsStart, Room, NEW u \in Users, Start(u)
  PROVE  Room'
<1> DEFINE Starters == {v \in Users : starting[v]}
<1>1. IsFiniteSet(Starters) /\ Cardinality(Starters) \in Nat
  BY TimerParameters, FS_Subset, FS_CardinalityType
<1>2. started + Cardinality(Starters) < MaxStarts /\ started' = started
  BY DEF Start, Take, MayStart
<1>3. Pending' \subseteq Starters \cup {u}
  BY DEF Start, Take, TimerTypeOK, Pending, Actors
<1> HIDE DEF Starters
<1>4. IsFiniteSet(Starters \cup {u}) /\ Cardinality(Starters \cup {u}) <= Cardinality(Starters) + 1
      /\ Cardinality(Starters \cup {u}) \in Nat
  BY <1>1, FS_AddElement, FS_CardinalityType
<1>5. Cardinality(Pending') <= Cardinality(Starters \cup {u}) /\ Cardinality(Pending') \in Nat
  BY <1>3, <1>4, FS_Subset, FS_CardinalityType
<1>6. started \in Nat
  BY TimerParameters DEF TimerTypeOK
<1> QED BY TimerParameters, <1>1, <1>2, <1>4, <1>5, <1>6 DEF Room

\* Other steps of a stop or a start add to no Pending.
LEMMA UserRoom ==
  ASSUME TimerTypeOK, StartsStart, Room, NEW u \in Users,
         Stop(u) \/ StopStep(u) \/ Spawn(u) \/ Assign(u)
  PROVE  Room' /\ StartsStart'
<1>1. \A v \in Users \ {u} : at'[v] = at[v] /\ starting'[v] = starting[v]
  BY DEF Stop, StopStep, Check, Cancel, Notify, Join, Spawn, Assign, Take,
     LetGo,
     Goto, TimerTypeOK, Actors
<1>2. started' = started /\ started \in Nat
  <2>1. started' = started
    BY DEF Stop, StopStep, Check, Cancel, Notify, Join, Spawn, Assign, Take
  <2>2. started \in Nat
    BY TimerParameters DEF TimerTypeOK
  <2> QED BY <2>1, <2>2
<1>3. /\ at'[u] \in {"store", "spawn", "assign"} => starting'[u]
      /\ (starting'[u] /\ at'[u] \notin {"spawn", "assign"}) => (starting[u] /\ at[u] \notin {"spawn", "assign"})
  <2>1. CASE Stop(u)
    BY <2>1 DEF Stop, Take, TimerTypeOK, Actors, Return
  <2>2. CASE StopStep(u)
    BY <2>2 DEF StopStep, Check, Cancel, Notify, Join, LetGo, Goto, TimerTypeOK,
       Actors, Return
  <2>3. CASE Spawn(u) \/ Assign(u)
    BY <2>3 DEF Spawn, Assign, Goto, TimerTypeOK, Actors, StartsStart
  <2> QED BY <2>1, <2>2, <2>3
<1>4. Pending' \subseteq Pending
  BY <1>1, <1>3 DEF Pending, Storing
<1>5. StartsStart'
  BY <1>1, <1>3 DEF StartsStart
<1> QED BY <1>2, <1>4, <1>5, RoomStays

LEMMA TypesKept ==
  ASSUME TimerTypeOK, StartsStart, Room, TimerNext
  PROVE  TimerTypeOK' /\ StartsStart' /\ Room' /\ synchronised' = synchronised
<1> SUFFICES ASSUME TRUE PROVE TimerTypeOK' /\ StartsStart' /\ Room' /\ synchronised' = synchronised
  OBVIOUS
<1>1. ASSUME NEW u \in Users, UserNext(u)
      PROVE  TimerTypeOK' /\ StartsStart' /\ Room' /\ synchronised' = synchronised
  <2>0. u \in Actors
    BY DEF Actors
  <2>1. CASE Start(u)
    <3>1. TimerTypeOK'
      BY <2>0, <2>1, TakeTypes DEF Start, TimerTypeOK
    <3>2. StartsStart'
      BY <2>0, <2>1 DEF Start, Take, TimerTypeOK, StartsStart, Actors
    <3>3. synchronised' = synchronised
      BY <2>1 DEF Start, Take
    <3> QED BY <2>1, <3>1, <3>2, <3>3, StartRoom
  <2>2. CASE Stop(u)
    <3>1. TimerTypeOK'
      BY <2>0, <2>2, TakeTypes DEF Stop, TimerTypeOK
    <3>2. synchronised' = synchronised
      BY <2>2 DEF Stop, Take
    <3> QED BY <2>2, <3>1, <3>2, UserRoom
  <2>3. CASE StopStep(u)
    <3>1. synchronised' = synchronised
      BY <2>3 DEF StopStep, Check, Cancel, Notify, Join
    <3> QED BY <2>0, <2>3, <3>1, StopStepTypes, UserRoom
  <2>4. CASE Store(u)
    <3>1. starting[u]
      BY <2>4 DEF Store, StartsStart
    <3>2. StartsStart'
      BY <2>0, <2>4, <3>1 DEF Store, TimerTypeOK, StartsStart, Actors
    <3>3. synchronised' = synchronised
      BY <2>4 DEF Store
    <3> QED BY <2>4, <3>1, <3>2, <3>3, StoreTypes
  <2>5. CASE Spawn(u) \/ Assign(u)
    <3>1. TimerTypeOK'
      BY <2>5, StartStepTypes DEF StartStep, Spawn, Assign
    <3>2. synchronised' = synchronised
      BY <2>5 DEF Spawn, Assign
    <3> QED BY <2>5, <3>1, <3>2, UserRoom
  <2> QED BY <1>1, <2>1, <2>2, <2>3, <2>4, <2>5 DEF UserNext, StartStep
<1>2. ASSUME NEW s \in States, WorkerNext(s)
      PROVE  TimerTypeOK' /\ StartsStart' /\ Room' /\ synchronised' = synchronised
  <2>1. /\ TimerTypeOK'
        /\ started' = started /\ synchronised' = synchronised
        /\ \A u \in Users : at'[u] = at[u] /\ starting'[u] = starting[u]
    <3>1. CASE WorkerStep(s) \/ Wake(s) \/ TimeOut(s)
      BY <3>1, WorkerStepTypes
    <3>2. CASE CallbackStop(s)
      <4>1. TimerTypeOK'
        BY <3>2, CallbackStopTypes
      <4>2. Take(s, FALSE)
        BY <3>2 DEF CallbackStop
      <4>3. started' = started /\ synchronised' = synchronised
        BY <4>2 DEF Take
      <4>4. \A u \in Users : u # s /\ u \in Actors
        BY Places DEF Actors
      <4> QED BY <4>1, <4>2, <4>3, <4>4 DEF Take, TimerTypeOK
    <3>3. CASE StopStep(s)
      <4>1. TimerTypeOK'
        BY <3>3, StopStepTypes DEF Actors
      <4> QED BY <3>3, <4>1, Places DEF StopStep, Check, Cancel, Notify, Join, LetGo,
         Goto, TimerTypeOK, Actors
    <3> QED BY <1>2, <3>1, <3>2, <3>3 DEF WorkerNext
  <2>2. StartsStart'
    BY <2>1 DEF StartsStart
  <2>3. Pending' = Pending
    BY <2>1 DEF Pending, Storing
  <2>4. started \in Nat
    BY TimerParameters DEF TimerTypeOK
  <2> QED BY <2>1, <2>2, <2>3, <2>4, RoomStays
<1> QED BY <1>1, <1>2 DEF TimerNext

-----------------------------------------------------------------------------
LEMMA BeginApart ==
  ASSUME TimerTypeOK, TimerTypeOK', StartsStart, Apart, synchronised, NEW u \in Users,
         NEW isStart \in BOOLEAN, Take(u, isStart), UNCHANGED wpc,
         \A v \in Users : ~Storing(v) /\ ~starting[v],
         isStart => \A v \in Users : at[v] = "idle"
  PROVE  Apart'
<1>1. /\ at[u] = "idle" /\ starting'[u] = isStart /\ held'[u] = state /\ state' = 0
      /\ at'[u] = (IF state = 0 THEN Return(isStart) ELSE "check")
      /\ \A a \in Actors \ {u} : at'[a] = at[a] /\ held'[a] = held[a] /\ starting'[a] = starting[a]
      /\ UNCHANGED <<started, cancelled, worker, wpc, stopped>>
  BY DEF Take, TimerTypeOK, Actors, None
<1>2. Return(isStart) \in {"idle", "store"} /\ (isStart => Return(isStart) = "store")
  BY DEF Return
<1>4. state # 0 => worker[state] = "joinable" /\ \A a \in Actors : held[a] # state
  BY DEF Apart, SetOwned, WorkerStops, Actors, Storing
<1>5. OneStart'
  BY <1>1, <1>2 DEF OneStart, Actors
<1>6. StopOwns'
  BY <1>1, <1>2, <1>4 DEF StopOwns, Actors, Apart, StopCall
<1>7. StartOwns'
  BY <1>1, <1>2 DEF StartOwns, Actors, Storing
<1>8. OneOwner'
  BY <1>1, <1>4 DEF OneOwner, Apart
<1>9. SetOwned'
  BY <1>1 DEF SetOwned
<1>10. WorkerStops'
  BY <1>1, <1>2, Places DEF WorkerStops, Actors, Apart
<1>14. held[u] = 0
  BY <1>1 DEF TimerTypeOK, Actors, None
<1>15. \A s \in States, b \in Actors : held[b] = s => held'[b] = s
  BY <1>1, <1>14, Places
<1>11. Live'
  BY <1>1, <1>15 DEF Live, Actors, Apart
<1>12. Joinable'
  BY <1>1, <1>15 DEF Joinable, Actors, Apart
<1>13. Fire' /\ Fresh' /\ Stopped'
  BY <1>1 DEF Fire, Fresh, Stopped, Apart
<1> QED BY <1>5, <1>6, <1>7, <1>8, <1>9, <1>10, <1>11, <1>12, <1>13 DEF Apart

LEMMA StopApart ==
  ASSUME TimerTypeOK, TimerTypeOK', StartsStart, Apart, synchronised, NEW u \in Users,
         Stop(u)
  PROVE  Apart'
<1>1. \A v \in Users : at[v] # "idle" => ~starting[v]
  BY DEF Stop, NobodyStarts
<1>2. \A v \in Users : ~Storing(v) /\ ~starting[v]
  BY <1>1 DEF StartsStart, Storing, Apart, OneStart
<1> QED BY <1>2, BeginApart DEF Stop

LEMMA StartApart ==
  ASSUME TimerTypeOK, TimerTypeOK', StartsStart, Apart, synchronised, NEW u \in Users,
         Start(u)
  PROVE  Apart'
<1>1. \A v \in Users : at[v] = "idle"
  BY DEF Start, OthersIdle, Take
<1>2. \A v \in Users : ~Storing(v) /\ ~starting[v]
  BY <1>1 DEF StartsStart, Storing, Apart, OneStart
<1> QED BY <1>1, <1>2, BeginApart DEF Start

\* A callback that runs belongs to the State that is set, or that a stop waits for.
LEMMA CallbackStopApart ==
  ASSUME TimerTypeOK, TimerTypeOK', StartsStart, Apart, synchronised,
         NEW s \in States,
         CallbackStop(s)
  PROVE  Apart'
<1>1. /\ at[s] = "idle" /\ held'[s] = state /\ state' = 0
      /\ at'[s] = (IF state = 0 THEN "idle" ELSE "check")
      /\ wpc[s] = "firing" /\ wpc'[s] = "stopping"
      /\ \A r \in States \ {s} : wpc'[r] = wpc[r]
      /\ \A a \in Actors \ {s} : at'[a] = at[a] /\ held'[a] = held[a] /\ starting'[a] = starting[a]
      /\ UNCHANGED <<started, cancelled, worker, stopped>>
  BY DEF CallbackStop, Take, TimerTypeOK, Actors, None, Return
<1>2. worker[s] = "joinable" /\ (state = s \/ \E u \in Users : held[u] = s)
  BY <1>1 DEF Apart, Fire, Live
<1>3. \A u \in Users : held[u] = s => state = 0
  <2> SUFFICES ASSUME NEW u \in Users, held[u] = s PROVE state = 0
    OBVIOUS
  <2>1. ~Storing(u)
    BY <1>2 DEF Apart, StartOwns
  <2>2. at[u] \in StopCall
    BY <2>1, Places DEF TimerTypeOK, Actors, CallPhases, StopPhases, StopCall, Storing, None
  <2> QED BY <2>2 DEF Apart, StopOwns
<1>4. state # 0 => state = s /\ \A a \in Actors : held[a] # s
  <2>1. state # 0 => state = s
    BY <1>2, <1>3
  <2>2. \A a \in Actors : Storing(a) => a \in Users /\ worker[held[a]] = "empty"
    BY DEF Apart, WorkerStops, StartOwns, Actors, Storing
  <2> QED BY <1>2, <2>1, <2>2 DEF Apart, SetOwned
<1>5. OneStart'
  BY <1>1, Places DEF OneStart, Actors, Apart
<1>6. StopOwns'
  BY <1>1, Places DEF StopOwns, Actors, Apart, StopCall
<1>7. StartOwns'
  <2>1. \A u \in Users : Storing(u) => held[u] # 0 /\ worker[held[u]] = "empty" /\ state = held[u]
    BY Places DEF StartOwns, Storing, Apart, Actors
  <2> QED BY <1>1, <1>2, <1>4, <2>1, Places DEF StartOwns, Actors, Storing
<1>8. OneOwner'
  BY <1>1, <1>4 DEF OneOwner, Apart
<1>9. SetOwned'
  BY <1>1 DEF SetOwned
<1>10. WorkerStops'
  BY <1>1, <1>2, <1>4 DEF WorkerStops, Actors, Apart
<1>14. held[s] = 0
  BY <1>1 DEF TimerTypeOK, Actors, None
<1>15. \A r \in States, b \in Actors : held[b] = r => held'[b] = r
  BY <1>1, <1>14, Places
<1>11. Live'
  BY <1>1, <1>4, <1>15 DEF Live, Actors, Apart
<1>12. Joinable'
  BY <1>1, <1>4, <1>15 DEF Joinable, Actors, Apart
<1>13. Fire' /\ Fresh'
  BY <1>1 DEF Fire, Fresh, Apart
<1>16. Stopped'
  <2>1. \A r \in stopped : r \in States /\ r # s
    BY TimerParameters, <1>2 DEF Apart, Stopped, TimerTypeOK, States
  <2> QED BY <1>1, <2>1 DEF Stopped, Apart
<1> QED BY <1>5, <1>6, <1>7, <1>8, <1>9, <1>10, <1>11, <1>12, <1>13, <1>16 DEF Apart

\* A call is at work on no State but its own.
LEMMA LetGoApart ==
  ASSUME TimerTypeOK, TimerTypeOK', StartsStart, Apart, synchronised,
         NEW a \in Actors, NEW kind \in {"detached", "joined"},
         at[a] \in StopCall, worker[held[a]] = "joinable", held[a] # state,
         worker' = [worker EXCEPT ![held[a]] = kind],
         LetGo(a), UNCHANGED <<state, started, cancelled, wpc, starting>>,
         kind = "detached" => wpc[held[a]] = "stopping" /\ stopped' = stopped,
         kind = "joined" => wpc[held[a]] = "over" /\ stopped' = stopped \cup {held[a]}
  PROVE  Apart'
<1> DEFINE s == held[a]
<1>1. s \in States /\ s \in 1..started
  BY TimerParameters, Places DEF StopCall, TimerTypeOK
<1> HIDE DEF s
<1>2. /\ held'[a] = 0 /\ at'[a] = Return(starting[a])
      /\ \A b \in Actors \ {a} : at'[b] = at[b] /\ held'[b] = held[b]
      /\ worker'[s] = kind
      /\ \A r \in States \ {s} : worker'[r] = worker[r]
      /\ UNCHANGED <<state, started, cancelled, wpc, starting>>
  BY <1>1 DEF LetGo, TimerTypeOK, None, s
<1>3. \A b \in Actors \ {a} : held[b] # s
  BY <1>1, Places DEF Apart, OneOwner, s
<1>4. Return(starting[a]) \in {"idle", "store"} /\ (starting[a] => Return(starting[a]) = "store")
      /\ (Return(starting[a]) = "store" => starting[a])
  BY DEF Return
<1>5. OneStart'
  BY <1>2, <1>4 DEF OneStart, Actors, Apart, StopCall
<1>6. StopOwns'
  <2> SUFFICES ASSUME NEW u \in Users
               PROVE  /\ at'[u] \in StopCall => state' = 0 /\ worker'[held'[u]] = "joinable"
                      /\ at'[u] = "store" => state' = 0
    BY DEF StopOwns
  <2>1. CASE u = a
    BY <1>2, <1>4, <2>1 DEF StopCall, Apart, StopOwns
  <2>2. CASE u # a
    <3>1. at[u] \in StopCall => held[u] \in States
      BY Places DEF StopCall, Actors
    <3> QED BY <1>2, <1>3, <2>2, <3>1 DEF StopOwns, Apart, Actors
  <2> QED BY <2>1, <2>2
<1>7. StartOwns'
  <2> SUFFICES ASSUME NEW u \in Users, Storing(u)'
               PROVE  state' = held'[u] /\ worker'[held'[u]] = "empty"
    BY DEF StartOwns
  <2>1. u # a /\ Storing(u)
    BY <1>2, <1>4 DEF Storing, Actors
  <2>2. held[u] \in States
    BY <2>1, Places DEF Storing, Actors
  <2> QED BY <1>2, <1>3, <2>1, <2>2 DEF StartOwns, Apart, Actors
<1>8. OneOwner'
  BY <1>2 DEF OneOwner, Apart
<1>9. SetOwned'
  <2> SUFFICES ASSUME state # 0 PROVE SetOwned'
    BY <1>2 DEF SetOwned
  <2>1. state \in States /\ state # s
    BY TimerParameters DEF s, TimerTypeOK, States
  <2>2. ~Storing(a)
    BY DEF Storing, StopCall
  <2>3. \A b \in Actors : Storing(b) => Storing(b)' /\ held'[b] = held[b]
    BY <1>2, <2>2 DEF Storing
  <2>4. worker'[state] = worker[state]
    BY <1>2, <2>1
  <2>5. \A b \in Actors : held'[b] = state => held[b] = state
    BY <1>2
  <2> QED BY <1>2, <2>3, <2>4, <2>5 DEF SetOwned, Apart, Actors
<1>10. WorkerStops'
  <2> SUFFICES ASSUME NEW r \in States
               PROVE  /\ at'[r] \in {"idle", "check"}
                      /\ at'[r] = "check" => held'[r] = r /\ worker'[r] = "joinable" /\ wpc'[r] = "stopping"
    BY DEF WorkerStops
  <2>1. CASE r = a
    BY <2>1, <1>2 DEF TimerTypeOK, Return
  <2>2. CASE r # a
    BY <2>2, <1>2, <1>3 DEF WorkerStops, Apart, Actors
  <2> QED BY <2>1, <2>2
<1>11. Live'
  <2> SUFFICES ASSUME NEW r \in States,
                      wpc[r] \in {"begun", "tested", "asleep", "awake", "firing"}
               PROVE  state = r \/ \E u \in Users : held'[u] = r
    BY <1>2 DEF Live
  <2>1. r # s
    BY DEF s
  <2>2. state = r \/ \E u \in Users : held[u] = r
    BY DEF Live, Apart
  <2> QED BY <1>2, <2>1, <2>2 DEF Actors, s
<1>12. Joinable'
  <2> SUFFICES ASSUME NEW r \in States, worker'[r] = "joinable"
               PROVE  state = r \/ \E b \in Actors : held'[b] = r
    BY <1>2 DEF Joinable
  <2>1. r # s /\ worker[r] = "joinable"
    BY <1>2
  <2>2. state = r \/ \E b \in Actors : held[b] = r
    BY <2>1 DEF Joinable, Apart
  <2> QED BY <1>2, <2>1, <2>2 DEF s
<1>13. Fire'
  BY <1>2 DEF Fire, Apart, s
<1>14. Fresh'
  BY TimerParameters, <1>1, <1>2 DEF Fresh, Apart, TimerTypeOK
<1>15. Stopped'
  <2>1. \A r \in stopped : r \in States /\ r # s
    BY TimerParameters DEF Apart, Stopped, TimerTypeOK, States, s
  <2> QED BY <1>2, <2>1 DEF Stopped, Apart, s
<1> QED BY <1>5, <1>6, <1>7, <1>8, <1>9, <1>10, <1>11, <1>12, <1>13, <1>14, <1>15 DEF Apart

LEMMA StopGoesOn ==
  ASSUME TimerTypeOK, TimerTypeOK', StartsStart, Apart, synchronised,
         NEW u \in Users, NEW phase \in StopCall, at[u] \in StopCall, Goto(u, phase),
         UNCHANGED <<state, started, worker, starting, stopped>>,
         \A s \in States : wpc'[s] = wpc[s] \/ (wpc[s] = "asleep" /\ wpc'[s] = "awake")
  PROVE  Apart'
<1>1. /\ at'[u] = phase /\ held' = held
      /\ \A b \in Actors \ {u} : at'[b] = at[b]
      /\ UNCHANGED <<state, started, worker, starting, stopped>>
  BY DEF Goto, TimerTypeOK, Actors
<1>2. ~Storing(u) /\ ~Storing(u)' /\ phase # "idle" /\ phase # "store"
  BY <1>1 DEF Storing, StopCall
<1>3. \A b \in Actors : Storing(b)' = Storing(b)
  BY <1>1, <1>2 DEF Storing
<1>4. OneStart'
  BY <1>1, <1>2 DEF OneStart, Apart, Actors, StopCall
<1>5. StopOwns'
  BY <1>1, <1>2 DEF StopOwns, Apart, Actors
<1>6. StartOwns'
  BY <1>1, <1>3 DEF StartOwns, Apart, Actors
<1>7. OneOwner' /\ Fresh' /\ Joinable'
  BY <1>1 DEF OneOwner, Fresh, Joinable, Apart
<1>8. SetOwned'
  BY <1>1, <1>3 DEF SetOwned, Apart, Actors
<1>9. WorkerStops'
  BY <1>1, Places DEF WorkerStops, Apart, Actors
<1>10. Live'
  BY <1>1 DEF Live, Apart
<1>11. Fire'
  BY <1>1 DEF Fire, Apart
<1>12. Stopped'
  <2>1. stopped \subseteq States
    BY TimerParameters DEF TimerTypeOK, States
  <2> QED BY <1>1, <2>1 DEF Stopped, Apart
<1> QED BY <1>4, <1>5, <1>6, <1>7, <1>8, <1>9, <1>10, <1>11, <1>12 DEF Apart

LEMMA StopStepApart ==
  ASSUME TimerTypeOK, TimerTypeOK', StartsStart, Apart, synchronised,
         NEW a \in Actors, StopStep(a)
  PROVE  Apart'
<1>1. at[a] \in StopCall
  BY DEF StopStep, Check, Cancel, Notify, Join, StopCall
<1>2. held[a] # 0 /\ held[a] \in States
  BY TimerParameters, <1>1, Places DEF StopCall, States
<1>3. worker[held[a]] = "joinable"
  BY <1>1 DEF Apart, StopOwns, WorkerStops, StopCall, Actors
<1>4. held[a] # state
  BY <1>1, <1>2 DEF Apart, SetOwned, StopCall, Storing
<1>5. CASE a \in States
  <2>1. at[a] = "check" /\ held[a] = a /\ wpc[a] = "stopping"
    BY <1>1, <1>5 DEF Apart, WorkerStops, StopCall
  <2>2. Check(a)
    BY <2>1 DEF StopStep, Cancel, Notify, Join
  <2>3. worker' = [worker EXCEPT ![held[a]] = "detached"] /\ LetGo(a)
    BY <1>3, <2>1, <2>2 DEF Check
  <2> QED BY <1>1, <1>3, <1>4, <2>1, <2>2, <2>3, LetGoApart DEF Check
<1>6. CASE a \in Users
  <2>1. CASE Check(a)
    <3>1. held[a] # a
      BY <1>2, <1>6, Places
    <3> QED BY <1>1, <1>6, <2>1, <3>1, StopGoesOn DEF Check, StopCall
  <2>2. CASE Cancel(a)
    BY <1>1, <1>6, <2>2, StopGoesOn DEF Cancel, StopCall
  <2>3. CASE Notify(a)
    <3>1. \A s \in States : wpc'[s] = wpc[s] \/ (wpc[s] = "asleep" /\ wpc'[s] = "awake")
      BY <1>2, <2>3 DEF Notify, TimerTypeOK
    <3> QED BY <1>1, <1>6, <2>3, <3>1, StopGoesOn DEF Notify, StopCall
  <2>4. CASE Join(a)
    <3>1. /\ wpc[held[a]] = "over"
          /\ worker' = [worker EXCEPT ![held[a]] = "joined"]
          /\ stopped' = stopped \cup {held[a]}
          /\ LetGo(a)
          /\ UNCHANGED <<state, started, cancelled, wpc, starting>>
      BY <1>3, <2>4 DEF Join
    <3> QED BY <1>1, <1>3, <1>4, <3>1, LetGoApart
  <2> QED BY <2>1, <2>2, <2>3, <2>4 DEF StopStep
<1> QED BY <1>5, <1>6 DEF Actors

LEMMA StoreApart ==
  ASSUME TimerTypeOK, TimerTypeOK', StartsStart, Apart, synchronised,
         NEW u \in Users, Store(u)
  PROVE  Apart'
<1> DEFINE s == started + 1
<1>1. s \in States /\ s # 0 /\ s > started /\ \A n \in 0..started : n # s
  BY TimerParameters DEF Store, TimerTypeOK, States
<1> HIDE DEF s
<1>2. /\ at[u] = "store" /\ at'[u] = "spawn" /\ held'[u] = s /\ state' = s /\ started' = s
      /\ \A b \in Actors \ {u} : at'[b] = at[b] /\ held'[b] = held[b]
      /\ UNCHANGED <<cancelled, worker, wpc, starting, stopped>>
  BY DEF Store, TimerTypeOK, Actors, s
<1>3. starting[u] /\ state = 0 /\ \A v \in Users \ {u} : at[v] = "idle"
  BY <1>2 DEF StartsStart, Apart, OneStart, StopOwns
<1>4. \A b \in Actors : held[b] # s
  BY <1>1, Places
<1>5. worker[s] = "empty"
  BY <1>1 DEF Apart, Fresh
<1>6. OneStart'
  BY <1>2, <1>3 DEF OneStart, Apart, Actors
<1>7. StopOwns' /\ StartOwns'
  BY <1>2, <1>3, <1>5 DEF StopOwns, StartOwns, StopCall, Storing, Actors
<1>8. OneOwner'
  BY <1>2, <1>4 DEF OneOwner, Apart
<1>9. SetOwned'
  BY <1>2, <1>4 DEF SetOwned, Storing, Actors
<1>10. WorkerStops'
  BY <1>2, Places DEF WorkerStops, Apart, Actors
<1>11. held[u] = 0
  BY <1>2 DEF TimerTypeOK, Actors, None
<1>12. \A r \in States, b \in Actors : held[b] = r => held'[b] = r
  BY <1>2, <1>11, Places
<1>13. Live'
  BY <1>2, <1>3, <1>12, Places DEF Live, Apart, Actors
<1>14. Joinable'
  BY <1>2, <1>3, <1>12, Places DEF Joinable, Apart
<1>15. Fresh'
  BY TimerParameters, <1>1, <1>2 DEF Fresh, Apart, TimerTypeOK, States
<1>16. Fire' /\ Stopped'
  BY <1>2 DEF Fire, Stopped, Apart
<1> QED BY <1>6, <1>7, <1>8, <1>9, <1>10, <1>13, <1>14, <1>15, <1>16 DEF Apart

LEMMA SpawnApart ==
  ASSUME TimerTypeOK, TimerTypeOK', StartsStart, Apart, synchronised,
         NEW u \in Users, Spawn(u)
  PROVE  Apart'
<1> DEFINE s == held[u]
<1>1. s \in States /\ Storing(u) /\ at[u] = "spawn"
  BY Places DEF Spawn, Storing, Actors
<1> HIDE DEF s
<1>2. /\ at'[u] = "assign" /\ held' = held /\ held[u] = s
      /\ \A b \in Actors \ {u} : at'[b] = at[b]
      /\ wpc'[s] = "begun" /\ \A r \in States \ {s} : wpc'[r] = wpc[r]
      /\ UNCHANGED <<state, started, cancelled, worker, starting, stopped>>
  BY <1>1 DEF Spawn, Goto, TimerTypeOK, Actors, s
<1>3. state = s /\ worker[s] = "empty" /\ starting[u]
  BY <1>1, <1>2 DEF Apart, StartOwns, StartsStart
<1>4. \A b \in Actors : Storing(b)' = Storing(b)
  BY <1>1, <1>2 DEF Storing
<1>14. \A v \in Users \ {u} : at[v] = "idle"
  BY <1>3 DEF Apart, OneStart
<1>5. OneStart'
  BY <1>2, <1>14, Zenon DEF OneStart, Apart, Actors
<1>6. StopOwns'
  BY <1>2 DEF StopOwns, Apart, Actors, StopCall
<1>7. StartOwns'
  BY <1>2, <1>4 DEF StartOwns, Apart, Actors
<1>8. OneOwner' /\ Fresh' /\ Joinable'
  BY <1>2 DEF OneOwner, Fresh, Joinable, Apart
<1>9. SetOwned'
  BY <1>2, <1>4 DEF SetOwned, Apart, Actors
<1>10. WorkerStops'
  BY <1>2, <1>3, Places DEF WorkerStops, Apart, Actors
<1>11. Live'
  BY <1>2, <1>3 DEF Live, Apart
<1>12. Fire'
  BY <1>2, <1>3 DEF Fire, Apart
<1>13. Stopped'
  <2>1. \A r \in stopped : r \in States /\ r # s
    BY TimerParameters, <1>3 DEF Apart, Stopped, TimerTypeOK, States
  <2> QED BY <1>2, <2>1 DEF Stopped, Apart
<1> QED BY <1>5, <1>6, <1>7, <1>8, <1>9, <1>10, <1>11, <1>12, <1>13 DEF Apart

LEMMA AssignApart ==
  ASSUME TimerTypeOK, TimerTypeOK', StartsStart, Apart, synchronised,
         NEW u \in Users, Assign(u)
  PROVE  Apart'
<1> DEFINE s == held[u]
<1>1. s \in States /\ Storing(u) /\ s <= started
  BY TimerParameters, Places DEF Assign, Storing, Actors, TimerTypeOK
<1> HIDE DEF s
<1>2. /\ at'[u] = "idle" /\ held'[u] = 0 /\ held[u] = s /\ ~starting'[u]
      /\ \A b \in Actors \ {u} : at'[b] = at[b] /\ held'[b] = held[b] /\ starting'[b] = starting[b]
      /\ worker'[s] = "joinable" /\ \A r \in States \ {s} : worker'[r] = worker[r]
      /\ UNCHANGED <<state, started, cancelled, wpc, stopped>>
  BY <1>1 DEF Assign, TimerTypeOK, Actors, None, s
<1>3. /\ state = s /\ worker[s] = "empty" /\ starting[u]
      /\ \A v \in Users \ {u} : at[v] = "idle"
  <2>1. state = s /\ worker[s] = "empty"
    BY <1>1, <1>2 DEF Apart, StartOwns
  <2>2. starting[u]
    BY <1>1 DEF StartsStart, Storing
  <2> QED BY <2>1, <2>2 DEF Apart, OneStart
<1>4. \A b \in Actors \ {u} : held[b] # s
  BY <1>1, <1>2, Places DEF Apart, OneOwner, Actors
<1>5. OneStart'
  BY <1>2, <1>3 DEF OneStart, Apart, Actors
<1>6. StopOwns' /\ StartOwns'
  BY <1>2, <1>3 DEF StopOwns, StartOwns, StopCall, Storing, Actors
<1>7. OneOwner'
  BY <1>2 DEF OneOwner, Apart
<1>8. SetOwned'
  BY <1>2, <1>3, <1>4, Places DEF SetOwned
<1>9. WorkerStops'
  BY <1>2, <1>3, Places DEF WorkerStops, Apart, Actors
<1>10. Live'
  BY <1>2, <1>3 DEF Live, Apart, Actors
<1>11. Joinable'
  BY <1>2, <1>3 DEF Joinable, Apart, Actors
<1>12. Fire'
  BY <1>2 DEF Fire, Apart
<1>13. Fresh'
  BY TimerParameters, <1>1, <1>2 DEF Fresh, Apart, TimerTypeOK, States
<1>14. Stopped'
  <2>1. \A r \in stopped : r \in States /\ r # s
    BY TimerParameters, <1>3 DEF Apart, Stopped, TimerTypeOK, States
  <2> QED BY <1>2, <2>1 DEF Stopped, Apart
<1> QED BY <1>5, <1>6, <1>7, <1>8, <1>9, <1>10, <1>11, <1>12, <1>13, <1>14 DEF Apart

LEMMA WorkerStepApart ==
  ASSUME TimerTypeOK, TimerTypeOK', StartsStart, Apart, synchronised,
         NEW s \in States, WorkerStep(s) \/ Wake(s) \/ TimeOut(s)
  PROVE  Apart'
<1>1. ~JoinItself(s)
  BY DEF JoinItself, Apart, WorkerStops
<1>0. ASSUME NEW from, NEW to, Worker(s, from, to)
      PROVE  /\ UNCHANGED <<state, started, cancelled, worker, at, held, starting, stopped>>
             /\ \A r \in States \ {s} : wpc'[r] = wpc[r]
             /\ wpc[s] \in from /\ wpc'[s] = to
  BY <1>0 DEF Worker, calls, TimerTypeOK
<1>2. /\ UNCHANGED <<state, started, cancelled, worker, at, held, starting, stopped>>
      /\ \A r \in States \ {s} : wpc'[r] = wpc[r]
  <2>1. \E from, to : Worker(s, from, to)
    BY <1>1, Zenon DEF WorkerStep, Test, Sleep, CallbackEnds, Wake, TimeOut
  <2> QED BY <1>0, <2>1, Zenon
<1>3. /\ wpc[s] # "over"
      /\ wpc[s] \in {"none", "stopping"} => wpc'[s] = "over" /\ at[s] = "idle"
      /\ wpc'[s] = "firing" => wpc[s] = "asleep" /\ worker[s] # "empty"
  <2>1. CASE Test(s)
    BY <1>0, <2>1 DEF Test
  <2>2. CASE Sleep(s)
    BY <1>0, <2>2 DEF Sleep
  <2>3. CASE CallbackEnds(s)
    BY <1>0, <2>3 DEF CallbackEnds
  <2>4. CASE Wake(s)
    BY <1>0, <2>4 DEF Wake
  <2>5. CASE TimeOut(s)
    BY <1>0, <2>5 DEF TimeOut
  <2> QED BY <1>1, <2>1, <2>2, <2>3, <2>4, <2>5, Zenon DEF WorkerStep
<1>4. wpc[s] = "asleep" /\ worker[s] # "empty" => worker[s] = "joinable"
  <2> SUFFICES ASSUME wpc[s] = "asleep", worker[s] # "empty" PROVE worker[s] = "joinable"
    OBVIOUS
  <2>1. CASE state = s
    BY <2>1, Places DEF Apart, SetOwned, StartOwns
  <2>2. ASSUME NEW u \in Users, held[u] = s PROVE worker[s] = "joinable"
    <3>1. u \in Actors /\ held[u] # 0
      BY <2>2, Places DEF Actors
    <3>2. at[u] \in StopCall \/ Storing(u)
      BY <3>1 DEF TimerTypeOK, CallPhases, StopPhases, StopCall, Storing, None
    <3> QED BY <2>2, <3>2 DEF Apart, StopOwns, StartOwns
  <2> QED BY <2>1, <2>2 DEF Apart, Live
<1>5. OneStart' /\ StopOwns' /\ StartOwns' /\ OneOwner' /\ SetOwned' /\ Joinable' /\ Fresh'
  BY <1>2 DEF OneStart, StopOwns, StartOwns, OneOwner, SetOwned, Joinable, Fresh, Storing, Apart
<1>6. WorkerStops'
  BY <1>2, <1>3 DEF WorkerStops, Apart
<1>7. Live'
  BY <1>2, <1>3 DEF Live, Apart, TimerTypeOK, WorkerPhases
<1>8. Fire'
  BY <1>2, <1>3, <1>4 DEF Fire, Apart
<1>9. Stopped'
  <2>1. \A r \in stopped : r \in States /\ r # s
    BY TimerParameters, <1>3 DEF Apart, Stopped, TimerTypeOK, States
  <2> QED BY <1>2, <2>1 DEF Stopped, Apart
<1> QED BY <1>5, <1>6, <1>7, <1>8, <1>9 DEF Apart

LEMMA TimerStep ==
  ASSUME TimerInv, [TimerNext]_timerVars PROVE TimerInv'
<1>1. CASE UNCHANGED timerVars
  BY <1>1 DEF timerVars, calls, TimerInv, TimerTypeOK, StartsStart, Room, Pending, Storing, Apart,
     OneStart, StopOwns, StartOwns,
     OneOwner, SetOwned, WorkerStops, Live, Fire, Joinable, Fresh, Stopped
<1>2. CASE TimerNext
  <2>1. TimerTypeOK' /\ StartsStart' /\ Room' /\ synchronised' = synchronised
    BY <1>2, TypesKept DEF TimerInv
  <2>2. ASSUME synchronised PROVE Apart'
    <3>1. ASSUME NEW u \in Users, UserNext(u) PROVE Apart'
      <4>1. u \in Actors
        BY DEF Actors
      <4> QED BY <2>1, <2>2, <3>1, <4>1, StartApart, StopApart, StopStepApart, StoreApart,
         SpawnApart, AssignApart
          DEF UserNext, StartStep, TimerInv
    <3>2. ASSUME NEW s \in States, WorkerNext(s) PROVE Apart'
      <4>1. s \in Actors
        BY DEF Actors
      <4> QED BY <2>1, <2>2, <3>2, <4>1, WorkerStepApart, CallbackStopApart, StopStepApart
          DEF WorkerNext, TimerInv
    <3> QED BY <1>2, <3>1, <3>2 DEF TimerNext
  <2> QED BY <2>1, <2>2 DEF TimerInv
<1> QED BY <1>1, <1>2

LEMMA TimerImplies ==
  ASSUME TimerInv
  PROVE  StoppedIsOver /\ ArmedIsReachable /\ NoJoinableDroppedApart
<1> SUFFICES ASSUME synchronised
             PROVE  StoppedIsOver /\ ArmedIsReachable /\ NoJoinableDroppedApart
  BY DEF StoppedIsOver, ArmedIsReachable, NoJoinableDroppedApart
<1>1. StoppedIsOver
  BY DEF TimerInv, Apart, Stopped, StoppedIsOver
<1>2. ArmedIsReachable
  BY DEF TimerInv, Apart, Live, ArmedIsReachable, MayFire, Actors
<1>3. NoJoinableDroppedApart
  BY DEF TimerInv, Apart, Joinable, NoJoinableDroppedApart, NoJoinableDropped, Referenced
<1> QED BY <1>1, <1>2, <1>3

(***************************************************************************)
(* The timer's invariant, and what follows from it.                        *)
(***************************************************************************)
THEOREM TimerInvariance == TimerSpec => []TimerInv
<1>1. TimerInit => TimerInv
  BY TimerInitially
<1>2. TimerInv /\ [TimerNext]_timerVars => TimerInv'
  BY TimerStep
<1> QED BY <1>1, <1>2, PTL DEF TimerSpec

\* The timer's fields, and every call on it, have the types of its TypeOK.
THEOREM TimerTypes == TimerSpec => []TimerTypeOK
<1>1. TimerInv => TimerTypeOK
  BY DEF TimerInv
<1> QED BY <1>1, TimerInvariance, PTL

\* A callback that stop() waited for never runs again (timer.h, stop()).
THEOREM StoppedStaysOver == TimerSpec => []StoppedIsOver
<1>1. TimerInv => StoppedIsOver
  BY TimerImplies
<1> QED BY <1>1, TimerInvariance, PTL

\* A worker that may still fire can be stopped (timer.h, start()).
THEOREM ArmedStaysReachable == TimerSpec => []ArmedIsReachable
<1>1. TimerInv => ArmedIsReachable
  BY TimerImplies
<1> QED BY <1>1, TimerInvariance, PTL

\* No State is destroyed with a joinable thread (timer.h, struct State).
THEOREM JoinableIsKept == TimerSpec => []NoJoinableDroppedApart
<1>1. TimerInv => NoJoinableDroppedApart
  BY TimerImplies
<1> QED BY <1>1, TimerInvariance, PTL
=============================================================================
