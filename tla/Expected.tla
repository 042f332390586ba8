------------------------------ MODULE Expected ------------------------------
(***************************************************************************)
(* base/expected.h: the project's own std::expected, in its three forms -  *)
(* expected<T, E>, expected<T&, E> and expected<void, E>.                  *)
(*                                                                         *)
(* Each form keeps a union and a tag that says which member of the union   *)
(* is alive.  C++ checks none of this: an operation that constructs over a *)
(* live member leaks it, one that destroys or reads a dead member is       *)
(* undefined behaviour, and every construction may throw half way.  The    *)
(* model runs arbitrary sequences of calls on a few variables of one form  *)
(* and keeps what is really alive in the storage beside the tag.           *)
(*                                                                         *)
(* An outcome is a record [this, other, end]: what the object the call is  *)
(* made on holds afterwards, what its argument (or its result) is, and     *)
(* whether the call returned, threw, or ended the program (std::terminate, *)
(* a recursion without end).  An operator that stands for a call is the    *)
(* set of the outcomes it can have.                                        *)
(*                                                                         *)
(* Assumed of T and E: a copy, and a construction from arguments, may      *)
(* throw; a move construction throws only for the types in "throwing"; an  *)
(* assignment, of a copy or of a move, may always throw, and then leaves   *)
(* its target as it was or alive without the content it had; what throws   *)
(* leaves its source as it was; a function given an rvalue takes it.       *)
(***************************************************************************)
EXTENDS Naturals

CONSTANTS
    Variables,  \* the program's variables of type expected
    Contents,   \* what a T or an E can hold
    Dead,       \* the member of the union is not alive
    MovedOut,   \* the member is alive, its content moved away or lost to a throw
    Garbage,    \* read from a member that is not alive
    Absent      \* the variable is out of its scope

ASSUME ContentsAssumption ==
    /\ {Dead, MovedOut, Garbage} \cap Contents = {}
    /\ Dead # MovedOut /\ Dead # Garbage /\ MovedOut # Garbage

VARIABLES
    form,       \* "object", "reference" or "void": which template is used
    throwing,   \* whose move constructor may throw: a subset of Sides
    holds,      \* what each variable holds
    call,       \* the last call: what, on which variables, how it ended
    thrown      \* has a construction or an assignment thrown yet?

vars == <<form, throwing, holds, call, thrown>>

Sides == {"value", "error"}
Forms == {"object", "reference", "void"}
Alive == Contents \cup {MovedOut, Garbage}
Storage == [tag : Sides \cup {"empty"}, value : Alive \cup {Dead},
            error : Alive \cup {Dead}]

Read(member) == IF member = Dead THEN Garbage ELSE member

-----------------------------------------------------------------------------
(* expected_storage: the union, the tag and the three ways to change them.  *)

Stored(tag, value, error) == [tag |-> tag, value |-> value, error |-> error]

Empty == Stored("empty", Dead, Dead)

\* Mutant of Destroyed: no destructor is called.
Forgotten(o) == Stored("empty", o.value, o.error)

Destroyed(o) ==
    Stored("empty", IF o.tag = "value" THEN Dead ELSE o.value,
                    IF o.tag = "error" THEN Dead ELSE o.error)

\* A member is constructed, or assigned to if it is alive.
WithValue(o, c) == Stored("value", c, o.error)
WithError(o, c) == Stored("error", o.value, c)

HasValue(o) == o.tag = "value"
HasError(o) == o.tag = "error"

\* A live member gets a content, without a construction.
Refilled(o, side, c) ==
    CASE side = "value" /\ o.value # Dead -> Stored(o.tag, c, o.error)
      [] side = "error" /\ o.error # Dead -> Stored(o.tag, o.value, c)
      [] OTHER -> o
Content(o, side) == Read(IF side = "value" THEN o.value ELSE o.error)

\* Where a member is to be assigned or constructed, the other one is destroyed.
Ready(o, side) == IF o.tag = side THEN o ELSE Destroyed(o)

\* The source of a move.  A T& is held as a pointer, which a move copies.
ValueTaken(o) ==
    IF form = "object" /\ o.value # Dead THEN Stored(o.tag, MovedOut, o.error) ELSE o
ErrorTaken(o) == IF o.error = Dead THEN o ELSE Stored(o.tag, o.value, MovedOut)

Outcome(o, p, end) == [this |-> o, other |-> p, end |-> end]
Returns(o, p) == {Outcome(o, p, "returned")}

\* A step that may throw: what it leaves when it does not, and when it does.
Attempt(may, done, kept) == done \cup IF may THEN kept ELSE {}
Throws(o, p) == {Outcome(o, p, "threw")}

\* Setting a member throws: in the assignment to a live one, which may lose what
\* it held, or in the construction of one, after the other was destroyed.
Fails(o, side, p) ==
    IF o.tag = side THEN Throws(o, p) \cup Throws(Refilled(o, side, MovedOut), p)
                    ELSE Throws(Destroyed(o), p)

\* A copy of a T or an E may throw, the copy of a pointer does not.
CopyMayThrow(side) == ~(form = "reference" /\ side = "value")
MoveMayThrow(side) == side \in throwing /\ CopyMayThrow(side)

-----------------------------------------------------------------------------
(* What the monadic calls share: the member a function is called on and    *)
(* the member that is handed over as it is.  On an rvalue (&&) both are    *)
(* moved; the other three overloads (&, const&, const&&) copy.             *)

VoidValue == Stored("value", Dead, Dead)
MadeValue(c) == IF form = "void" THEN VoidValue ELSE WithValue(Empty, c)
MadeError(c) == WithError(Empty, c)
MadeValues == {MadeValue(c) : c \in Contents}
MadeErrors == {MadeError(c) : c \in Contents}

Left(o, side, rvalue) ==
    IF ~rvalue THEN o ELSE IF side = "value" THEN ValueTaken(o) ELSE ErrorTaken(o)

\* The function is called on the member and its result is one of results.
Apply(o, side, rvalue, results) ==
    LET left == Left(o, side, rvalue)
    IN  Attempt(TRUE, {Outcome(left, r, "returned") : r \in results}, Throws(left, Absent))

\* The member is handed over to the result.
HandOver(o, side, rvalue) ==
    LET made == IF side = "value" THEN MadeValue(Read(o.value)) ELSE MadeError(Read(o.error))
        may == IF rvalue THEN MoveMayThrow(side) ELSE CopyMayThrow(side)
    IN  Attempt(may, Returns(Left(o, side, rvalue), made), Throws(o, Absent))

-----------------------------------------------------------------------------
(* expected<T, E> *)

ObjectNew(side, c) ==
    LET made == IF side = "value" THEN WithValue(Empty, c) ELSE WithError(Empty, c)
    IN  Attempt(TRUE, Returns(made, made), Throws(Absent, Absent))

ObjectCopyFrom(o, p) ==
    LET ready == Ready(o, p.tag)
    IN  IF HasValue(p)
        THEN Attempt(TRUE, Returns(WithValue(ready, p.value), p), Fails(o, "value", p))
        ELSE IF HasError(p)
        THEN Attempt(TRUE, Returns(WithError(ready, p.error), p), Fails(o, "error", p))
        ELSE Returns(ready, p)

\* A move to a live member of the same side assigns, else it constructs.
ObjectMoveFrom(o, p) ==
    LET ready == Ready(o, p.tag)
        may == o.tag = p.tag \/ MoveMayThrow(p.tag)
    IN  IF HasValue(p)
        THEN Attempt(may, Returns(WithValue(ready, p.value), ValueTaken(p)), Fails(o, "value", p))
        ELSE IF HasError(p)
        THEN Attempt(may, Returns(WithError(ready, p.error), ErrorTaken(p)), Fails(o, "error", p))
        ELSE Returns(ready, p)

\* The requires clause: assignment exists if one of the two moves cannot throw.
ObjectAssignable == throwing # Sides

ObjectAssignValue(o, c) ==
    Attempt(TRUE, Returns(WithValue(Ready(o, "value"), c), o), Fails(o, "value", o))

ObjectEmplace(o, c) ==
    Attempt(TRUE, Returns(WithValue(Destroyed(o), c), o), Throws(Destroyed(o), o))

\* check_value() throws a bad_expected_access that copies the error.
ObjectCheckFails(o) == Throws(o, Read(o.error))
ObjectValue(o, rvalue) ==
    IF HasValue(o) THEN Returns(Left(o, "value", rvalue), o.value) ELSE ObjectCheckFails(o)
\* operator* is noexcept and calls value(): its throw is std::terminate.
ObjectDereference(o, rvalue) ==
    IF HasValue(o) THEN Returns(Left(o, "value", rvalue), o.value) ELSE {Outcome(o, Dead, "died")}
\* The assertion of error() asks only that there is no value.
ObjectError(o, rvalue) ==
    IF HasValue(o) THEN {} ELSE Returns(Left(o, "error", rvalue), Read(o.error))
ObjectValueOr(o, rvalue, c) ==
    IF HasValue(o) THEN Returns(Left(o, "value", rvalue), o.value) ELSE Returns(o, c)
ObjectErrorOr(o, rvalue, c) ==
    IF HasValue(o) THEN Returns(o, c) ELSE Returns(Left(o, "error", rvalue), Read(o.error))

ObjectAndThen(o, rvalue) ==
    IF HasValue(o) THEN Apply(o, "value", rvalue, MadeValues \cup MadeErrors)
                   ELSE HandOver(o, "error", rvalue)
ObjectTransform(o, rvalue) ==
    IF HasValue(o) THEN Apply(o, "value", rvalue, MadeValues) ELSE HandOver(o, "error", rvalue)
ObjectTransformError(o, rvalue) ==
    IF HasValue(o) THEN HandOver(o, "value", rvalue) ELSE Apply(o, "error", rvalue, MadeErrors)
ObjectOrElse(o, rvalue) ==
    IF HasValue(o) THEN HandOver(o, "value", rvalue)
                   ELSE Apply(o, "error", rvalue, MadeValues \cup MadeErrors)

\* std::swap of two live members: a temporary is made of the first, then the
\* first and the second are assigned to, and each of the three may throw.
SwapMembers(o, p, side) ==
    LET first == Refilled(o, side, Content(p, side))
    IN  Attempt(MoveMayThrow(side),
                Returns(first, Refilled(p, side, Content(o, side))), Throws(o, p))
        \cup Throws(Refilled(o, side, MovedOut), p)
        \cup Throws(first, Refilled(p, side, MovedOut))

\* Mutant of ObjectSwapValues: only one half of the exchange.
ObjectSwapHalf(o, p) ==
    Attempt(MoveMayThrow("value"), Returns(WithValue(o, p.value), p), Throws(o, p))

ObjectSwapValues(o, p) == SwapMembers(o, p, "value")
ObjectSwapErrors(o, p) == SwapMembers(o, p, "error")
Turned(outcomes) == {Outcome(r.other, r.this, r.end) : r \in outcomes}

\* Mutants of ObjectSwapByError: the second construction is forgotten, and the
\* error is not put back.
ObjectSwapLosesValue(o, p) ==
    LET temp == Read(p.error)
    IN  Attempt(MoveMayThrow("value"),
                Returns(WithError(Destroyed(o), temp), Destroyed(p)),
                Throws(o, WithError(Destroyed(p), temp)))
ObjectSwapNotUndone(o, p) ==
    LET temp == Read(p.error)
    IN  Attempt(MoveMayThrow("value"),
                Returns(WithError(Destroyed(o), temp), WithValue(Destroyed(p), o.value)),
                Throws(o, Destroyed(p)))

\* swap() where E moves without throwing: p's error waits in temp.
ObjectSwapByError(o, p) ==
    LET temp == Read(p.error)
    IN  Attempt(MoveMayThrow("value"),
                Returns(WithError(Destroyed(o), temp), WithValue(Destroyed(p), o.value)),
                Throws(o, WithError(Destroyed(p), temp)))

\* swap() where the move of an E may throw: o's value waits in temp, and the
\* handler puts it back - also when it was the last construction that threw.
ObjectSwapByValue(o, p) ==
    LET bare == Destroyed(o)
        crossed == WithError(bare, Read(p.error))
        temp == o.value
    IN  Returns(crossed, WithValue(Destroyed(p), temp))
        \cup Throws(WithValue(bare, temp), p)
        \cup Attempt("value" \in throwing, {},
                     Throws(o, p) \cup Throws(bare, p)
                     \cup Throws(WithValue(crossed, temp), Destroyed(p))
                     \cup Throws(crossed, Destroyed(p)))

ObjectSwapValueFor(o, p) ==
    IF "error" \in throwing THEN ObjectSwapByValue(o, p) ELSE ObjectSwapByError(o, p)

ObjectSwap(o, p) ==
    CASE HasValue(o) /\ HasValue(p) -> ObjectSwapValues(o, p)
      [] HasError(o) /\ HasError(p) -> ObjectSwapErrors(o, p)
      [] HasValue(o) /\ ~HasValue(p) -> ObjectSwapValueFor(o, p)
      [] ~HasValue(o) /\ HasValue(p) -> Turned(ObjectSwapValueFor(p, o))
      [] OTHER -> {Outcome(o, p, "died")}

ObjectEqual(o, p) ==
    /\ HasValue(o) = HasValue(p)
    /\ IF HasValue(o) THEN o.value = p.value ELSE Read(o.error) = Read(p.error)

-----------------------------------------------------------------------------
(* expected<T&, E>: the value is a pointer, and only E's can throw.         *)

ReferenceNew(side, c) ==
    LET made == IF side = "value" THEN WithValue(Empty, c) ELSE WithError(Empty, c)
    IN  Attempt(side = "error", Returns(made, made), Throws(Absent, Absent))

\* The error is read whatever p holds, if it is not a value.
ReferenceCopied(o, p) ==
    IF HasValue(p) THEN Returns(WithValue(o, p.value), p)
    ELSE Attempt(TRUE, Returns(WithError(o, Read(p.error)), p), Throws(o, p))
ReferenceMoved(o, p) ==
    IF HasValue(p) THEN Returns(WithValue(o, p.value), p)
    ELSE Attempt(MoveMayThrow("error"), Returns(WithError(o, Read(p.error)), ErrorTaken(p)),
                 Throws(o, p))
ReferenceCopyAssign(o, p) == ReferenceCopied(Destroyed(o), p)
ReferenceMoveAssign(o, p) == ReferenceMoved(Destroyed(o), p)

ReferenceEmplace(o, c) == Returns(WithValue(Destroyed(o), c), o)

ReferenceValue(o) == IF HasValue(o) THEN Returns(o, o.value) ELSE Throws(o, Read(o.error))
ReferenceDereference(o) ==
    IF HasValue(o) THEN Returns(o, o.value) ELSE {Outcome(o, Dead, "died")}
ReferenceError(o, rvalue) ==
    IF HasValue(o) THEN {} ELSE Returns(Left(o, "error", rvalue), Read(o.error))
ReferenceValueOr(o, c) == Returns(o, IF HasValue(o) THEN o.value ELSE c)
ReferenceErrorOr(o, rvalue, c) ==
    IF HasValue(o) THEN Returns(o, c) ELSE Returns(Left(o, "error", rvalue), Read(o.error))

ReferenceAndThen(o, rvalue) ==
    IF HasValue(o) THEN Apply(o, "value", rvalue, MadeValues \cup MadeErrors)
                   ELSE HandOver(o, "error", rvalue)
ReferenceTransform(o, rvalue) ==
    IF HasValue(o) THEN Apply(o, "value", rvalue, MadeValues) ELSE HandOver(o, "error", rvalue)
ReferenceTransformError(o, rvalue) ==
    IF HasValue(o) THEN HandOver(o, "value", rvalue) ELSE Apply(o, "error", rvalue, MadeErrors)
ReferenceOrElse(o, rvalue) ==
    IF HasValue(o) THEN HandOver(o, "value", rvalue)
                   ELSE Apply(o, "error", rvalue, MadeValues \cup MadeErrors)

\* Here "both errors" is "neither has a value": a dead error is swapped too.
ReferenceSwapErrors(o, p) == SwapMembers(o, p, "error")
ReferenceSwapValueFor(o, p) ==
    LET crossed == WithError(Destroyed(o), Read(p.error))
    IN  Attempt("error" \in throwing,
                Returns(crossed, WithValue(Destroyed(p), o.value)), Throws(o, p))
ReferenceSwap(o, p) ==
    CASE HasValue(o) /\ HasValue(p) -> Returns(p, o)
      [] ~HasValue(o) /\ ~HasValue(p) -> ReferenceSwapErrors(o, p)
      [] HasValue(o) /\ ~HasValue(p) -> ReferenceSwapValueFor(o, p)
      [] OTHER -> Turned(ReferenceSwapValueFor(p, o))

ReferenceEqual(o, p) ==
    /\ HasValue(o) = HasValue(p)
    /\ IF HasValue(o) THEN o.value = p.value ELSE Read(o.error) = Read(p.error)

-----------------------------------------------------------------------------
(* expected<void, E>: has_value_ is the tag, set before the error is made.  *)

VoidNew(side, c) ==
    IF side = "value" THEN Returns(VoidValue, VoidValue)
    ELSE Attempt(TRUE, Returns(MadeError(c), MadeError(c)), Throws(Absent, Absent))

\* The error is destroyed if there is one, and the tag changes.
Tagged(o, tag) == Stored(tag, o.value, IF o.tag = "error" THEN Dead ELSE o.error)

\* A constructor that throws leaves no object, so nothing is destroyed twice.
VoidCopyNew(p) ==
    IF HasValue(p) THEN Returns(VoidValue, p)
    ELSE Attempt(TRUE, Returns(MadeError(Read(p.error)), p), Throws(Absent, p))
VoidMoveNew(p) ==
    IF HasValue(p) THEN Returns(VoidValue, p)
    ELSE Attempt("error" \in throwing, Returns(MadeError(Read(p.error)), ErrorTaken(p)),
                 Throws(Absent, p))
\* An assignment that throws has already taken p's tag.
VoidCopyAssign(o, p) ==
    LET bare == Tagged(o, p.tag)
    IN  IF HasValue(p) THEN Returns(bare, p)
        ELSE Attempt(TRUE, Returns(WithError(bare, Read(p.error)), p), Throws(bare, p))
VoidMoveAssign(o, p) ==
    LET bare == Tagged(o, p.tag)
    IN  IF HasValue(p) THEN Returns(bare, p)
        ELSE Attempt("error" \in throwing,
                     Returns(WithError(bare, Read(p.error)), ErrorTaken(p)),
                     Throws(bare, p))

\* The error, if there is one, is not destroyed.
VoidEmplace(o) == Returns(Stored("value", o.value, o.error), o)

VoidCheck(o) == IF HasValue(o) THEN Returns(o, Dead) ELSE Throws(o, Read(o.error))
VoidError(o, rvalue) ==
    IF HasValue(o) THEN {} ELSE Returns(Left(o, "error", rvalue), Read(o.error))
VoidErrorOr(o, rvalue, c) ==
    IF HasValue(o) THEN Returns(o, c) ELSE Returns(Left(o, "error", rvalue), Read(o.error))

VoidAndThen(o, rvalue) ==
    IF HasValue(o) THEN Apply(o, "value", FALSE, MadeValues \cup MadeErrors)
                   ELSE HandOver(o, "error", rvalue)
VoidTransform(o, rvalue) ==
    IF HasValue(o) THEN Apply(o, "value", FALSE, MadeValues) ELSE HandOver(o, "error", rvalue)
VoidTransformError(o, rvalue) ==
    IF HasValue(o) THEN Returns(o, VoidValue) ELSE Apply(o, "error", rvalue, MadeErrors)
VoidOrElse(o, rvalue) ==
    IF HasValue(o) THEN Returns(o, VoidValue)
                   ELSE Apply(o, "error", rvalue, MadeValues \cup MadeErrors)

VoidSwapValueFor(o, p) ==
    Attempt("error" \in throwing,
            Returns(WithError(o, Read(p.error)), Tagged(p, "value")),
            Throws(o, p))
VoidSwapErrors(o, p) == SwapMembers(o, p, "error")
VoidSwap(o, p) ==
    CASE HasValue(o) /\ HasValue(p) -> Returns(o, p)
      [] ~HasValue(o) /\ ~HasValue(p) -> VoidSwapErrors(o, p)
      [] HasValue(o) /\ ~HasValue(p) -> VoidSwapValueFor(o, p)
      [] OTHER -> Turned(VoidSwapValueFor(p, o))

VoidEqual(o, p) ==
    /\ HasValue(o) = HasValue(p)
    /\ HasValue(o) \/ Read(o.error) = Read(p.error)

-----------------------------------------------------------------------------
(* The calls a program makes.                                               *)

ByForm(object, reference, void) ==
    CASE form = "object" -> object [] form = "reference" -> reference [] form = "void" -> void

InScope(v) == holds[v] # Absent
Running == call.end # "died"

Init ==
    /\ form \in Forms
    /\ throwing \in SUBSET Sides
    /\ holds = [v \in Variables |-> Absent]
    /\ call = [op |-> "none", end |-> "returned", got |-> Dead]
    /\ thrown = FALSE

Ends(op, v, w, end, got) ==
    /\ call' = [op |-> op, on |-> v, with |-> w, end |-> end, got |-> got]
    /\ UNCHANGED <<form, throwing>>

\* A call on v that makes, assigns or swaps, with w as its argument or result.
Changes(op, v, w, outcomes) ==
    /\ Running
    /\ \E r \in outcomes :
        /\ holds' = IF v = w THEN [holds EXCEPT ![v] = r.this]
                    ELSE [holds EXCEPT ![v] = r.this, ![w] = r.other]
        /\ thrown' = (thrown \/ r.end = "threw")
        /\ Ends(op, v, w, r.end, Dead)

Construct(v) ==
    /\ ~InScope(v)
    /\ \E side \in Sides, c \in Contents :
        Changes("construct", v, v,
                ByForm(ObjectNew(side, c), ReferenceNew(side, c), VoidNew(side, c)))

\* A constructor that throws makes no variable.
Constructed(outcomes) ==
    {IF r.end = "threw" THEN Outcome(Absent, r.other, r.end) ELSE r : r \in outcomes}

CopyConstruct(v, w) ==
    /\ ~InScope(v) /\ InScope(w)
    /\ Changes("copy", v, w,
               Constructed(ByForm(ObjectCopyFrom(Empty, holds[w]), ReferenceCopied(Empty, holds[w]),
                                  VoidCopyNew(holds[w]))))

MoveConstruct(v, w) ==
    /\ ~InScope(v) /\ InScope(w)
    /\ Changes("move", v, w,
               Constructed(ByForm(ObjectMoveFrom(Empty, holds[w]), ReferenceMoved(Empty, holds[w]),
                                  VoidMoveNew(holds[w]))))

\* Assigning a variable to itself changes nothing.
CopyAssign(v, w) ==
    /\ InScope(v) /\ InScope(w)
    /\ form = "object" => ObjectAssignable
    /\ LET o == holds[v]
           p == holds[w]
       IN  Changes("copy", v, w,
                   IF v = w THEN Returns(o, o)
                   ELSE ByForm(ObjectCopyFrom(o, p), ReferenceCopyAssign(o, p),
                               VoidCopyAssign(o, p)))

MoveAssign(v, w) ==
    /\ InScope(v) /\ InScope(w)
    /\ form = "object" => ObjectAssignable
    /\ LET o == holds[v]
           p == holds[w]
       IN  Changes("move", v, w,
                   IF v = w THEN Returns(o, o)
                   ELSE ByForm(ObjectMoveFrom(o, p), ReferenceMoveAssign(o, p),
                               VoidMoveAssign(o, p)))

\* expected<T&, E> has no such assignment that compiles.
AssignValue(v) ==
    /\ InScope(v) /\ form = "object" /\ ObjectAssignable
    /\ \E c \in Contents : Changes("assign", v, v, ObjectAssignValue(holds[v], c))

Emplace(v) ==
    /\ InScope(v)
    /\ \E c \in Contents :
        Changes("emplace", v, v,
                ByForm(ObjectEmplace(holds[v], c), ReferenceEmplace(holds[v], c),
                       VoidEmplace(holds[v])))

Swap(v, w) ==
    /\ InScope(v) /\ InScope(w)
    /\ LET o == holds[v]
           p == holds[w]
       IN  Changes("swap", v, w, ByForm(ObjectSwap(o, p), ReferenceSwap(o, p), VoidSwap(o, p)))

\* w = v.and_then(f) and the other monadic calls, on v or on std::move(v).
Monadic(v, w) ==
    /\ InScope(v) /\ ~InScope(w)
    /\ \E rvalue \in BOOLEAN :
        LET o == holds[v]
        IN  \/ Changes("and_then", v, w, ByForm(ObjectAndThen(o, rvalue),
                       ReferenceAndThen(o, rvalue), VoidAndThen(o, rvalue)))
            \/ Changes("transform", v, w, ByForm(ObjectTransform(o, rvalue),
                       ReferenceTransform(o, rvalue), VoidTransform(o, rvalue)))
            \/ Changes("transform_error", v, w, ByForm(ObjectTransformError(o, rvalue),
                       ReferenceTransformError(o, rvalue), VoidTransformError(o, rvalue)))
            \/ Changes("or_else", v, w, ByForm(ObjectOrElse(o, rvalue),
                       ReferenceOrElse(o, rvalue), VoidOrElse(o, rvalue)))

\* A call that only reads v; what it throws is no failure of a construction.
Reads(op, v, outcomes) ==
    /\ InScope(v) /\ Running
    /\ \E r \in outcomes :
        /\ holds' = [holds EXCEPT ![v] = r.this]
        /\ UNCHANGED thrown
        /\ Ends(op, v, v, r.end, r.other)

Observe(v) ==
    /\ InScope(v)
    /\ \E rvalue \in BOOLEAN, c \in Contents :
        LET o == holds[v]
        IN  \/ Reads("value", v, ByForm(ObjectValue(o, rvalue), ReferenceValue(o), VoidCheck(o)))
            \/ Reads("operator*", v, ByForm(ObjectDereference(o, rvalue), ReferenceDereference(o),
                                            VoidCheck(o)))
            \/ Reads("error", v, ByForm(ObjectError(o, rvalue), ReferenceError(o, rvalue),
                                        VoidError(o, rvalue)))
            \/ Reads("value_or", v, ByForm(ObjectValueOr(o, rvalue, c), ReferenceValueOr(o, c), {}))
            \/ Reads("error_or", v, ByForm(ObjectErrorOr(o, rvalue, c),
                                           ReferenceErrorOr(o, rvalue, c),
                                           VoidErrorOr(o, rvalue, c)))

\* The end of the scope: the destructor destroys what the tag names.
Destroy(v) ==
    /\ InScope(v) /\ Running
    /\ holds' = [holds EXCEPT ![v] = Absent]
    /\ UNCHANGED thrown
    /\ Ends("destroy", v, v, "returned", Dead)

Next ==
    \E v \in Variables :
        \/ Construct(v) \/ AssignValue(v) \/ Emplace(v) \/ Observe(v) \/ Destroy(v)
        \/ \E w \in Variables :
            \/ CopyConstruct(v, w) \/ MoveConstruct(v, w)
            \/ CopyAssign(v, w) \/ MoveAssign(v, w) \/ Swap(v, w) \/ Monadic(v, w)

Spec == Init /\ [][Next]_vars

-----------------------------------------------------------------------------
(* Properties.                                                              *)

TypeOK ==
    /\ form \in Forms
    /\ throwing \in SUBSET Sides
    /\ holds \in [Variables -> Storage \cup {Absent}]
    /\ form = "void" =>    \* has_value_ is a bool, and there is no T
          \A v \in Variables : InScope(v) => holds[v].tag \in Sides /\ holds[v].value = Dead
    /\ thrown \in BOOLEAN

\* The member the tag names, if it names one, and no other is alive.
TagTellsTruth(o) ==
    /\ o.value # Dead <=> HasValue(o)
    /\ o.error # Dead <=> HasError(o)

(***************************************************************************)
(* Whatever calls were made, and whichever of them threw, the tag of every *)
(* expected<T, E> and expected<T&, E> names exactly the member that is     *)
(* alive: the destructor leaks nothing and destroys nothing twice.  Three  *)
(* exceptions the code has: swap() of a T and an E that may both throw     *)
(* constructs a value over a live error in its handler; expected<void, E>  *)
(* names an error that is not there after an assignment that threw; and    *)
(* its emplace() only sets the flag, over an error that stays alive and is *)
(* leaked - so of that form only a named error is claimed.                 *)
(***************************************************************************)
TagIsTrue ==
    \A v \in Variables :
        InScope(v) =>
            CASE form = "reference" -> TagTellsTruth(holds[v])
              [] form = "object" -> throwing # Sides => TagTellsTruth(holds[v])
              [] form = "void" -> HasError(holds[v]) /\ ~thrown => holds[v].error # Dead

\* There is a value or an error, alive and not made from a dead one.
Whole(o) ==
    \/ HasValue(o) /\ (form = "void" \/ o.value \in Contents \cup {MovedOut})
    \/ HasError(o) /\ o.error \in Contents \cup {MovedOut}

(***************************************************************************)
(* Until some construction throws, an expected is never without a value    *)
(* and an error, no call reads a member that is not alive, and swap()      *)
(* comes back.  (Afterwards all three happen: a throw in the middle of an  *)
(* assignment or of emplace() leaves the object empty.)                    *)
(***************************************************************************)
WholeUntilThrown ==
    ~thrown =>
        /\ \A v \in Variables : InScope(v) => Whole(holds[v])
        /\ call.got # Garbage
        /\ call.op = "swap" => call.end # "died"

\* What the owner of an expected sees of it.
Meaning(o) == <<o.tag, IF HasValue(o) THEN o.value ELSE o.error>>

\* A call that constructs a member anew, after it destroyed what there was.
Replaces(op, o, p) ==
    form = "reference" \/ op = "emplace" \/ o.tag # (IF op = "assign" THEN "value" ELSE p.tag)

\* The live member was assigned to: it has what it had, or has lost it.
MayLose(o, after) ==
    after.tag = o.tag /\ Meaning(after) \in {Meaning(o), <<o.tag, MovedOut>>}

\* What a call on v that throws, with w as its argument, may leave behind.
ThrowKeeps(v, w) ==
    LET op == call'.op
        o == holds[v]
        p == holds[w]
    IN  /\ call'.end = "threw" /\ op \in {"copy", "move", "assign", "emplace", "swap"}
        /\ call'.on = v /\ call'.with = w /\ InScope(v) /\ InScope(w)
        /\ Whole(o) /\ Whole(p) /\ throwing # Sides
        /\ form = "void" => op = "swap"
        => CASE op # "swap" ->
                  /\ v # w => Meaning(holds'[w]) = Meaning(p)
                  /\ IF Replaces(op, o, p) THEN holds'[v] = Empty ELSE MayLose(o, holds'[v])
             [] op = "swap" /\ o.tag # p.tag ->
                  Meaning(holds'[v]) = Meaning(o) /\ Meaning(holds'[w]) = Meaning(p)
             [] op = "swap" /\ o.tag = p.tag ->
                  /\ holds'[v].tag = o.tag /\ Whole(holds'[v])
                  /\ holds'[w].tag = p.tag /\ Whole(holds'[w])
                  /\ v # w => Meaning(p) \in {Meaning(holds'[v]), Meaning(holds'[w])}

(***************************************************************************)
(* What a call on whole objects leaves behind when it throws.  One that    *)
(* assigns to the live member leaves the object on its side, with what it  *)
(* held or with that lost; one that replaces the member leaves it empty;   *)
(* either way its argument means what it meant.  swap() of a value with an *)
(* error leaves both as they were.  swap() within one side is std::swap:   *)
(* both stay on their side with something alive, the first may have lost   *)
(* its content, and what the second held is still in one of the two.  (Not *)
(* so for a T and an E that may both throw when moved, nor for the         *)
(* assignment of an expected<void, E>.)                                    *)
(***************************************************************************)
ThrowKeepsOrEmpties == [][\A v, w \in Variables : ThrowKeeps(v, w)]_vars

Equal(o, p) == ByForm(ObjectEqual(o, p), ReferenceEqual(o, p), VoidEqual(o, p))

\* What a call on v that returns, with w as its argument, has done.
ReturnDoes(v, w) ==
    /\ call'.end = "returned" /\ call'.op \in {"copy", "move", "swap"}
    /\ call'.on = v /\ call'.with = w /\ InScope(w) /\ Whole(holds[w])
    /\ call'.op = "swap" => Whole(holds[v])
    => CASE call'.op = "swap" -> Equal(holds'[v], holds[w]) /\ Equal(holds'[w], holds[v])
         [] call'.op = "copy" -> Equal(holds'[v], holds[w]) /\ holds'[w] = holds[w]
         [] call'.op = "move" -> Equal(holds'[v], holds[w])
                                 /\ holds'[w].tag = holds[w].tag

(***************************************************************************)
(* A call that returned did what it says: swap() exchanged two whole       *)
(* objects, a copy is equal to its source and left it alone, a moved-to    *)
(* object means what its source meant, and the source kept its side.       *)
(***************************************************************************)
ReturnedMeansDone == [][\A v, w \in Variables : ReturnDoes(v, w)]_vars
=============================================================================
