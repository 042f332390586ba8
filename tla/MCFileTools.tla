---------------------------- MODULE MCFileTools ----------------------------
(***************************************************************************)
(* FileTools on a small instance: all texts of up to three characters at   *)
(* one path, and calls that fit, miss or overlap.                          *)
(***************************************************************************)
EXTENDS FileTools, TLC

CONSTANTS f, g

MCCharacters == {Newline, "a"}

MCFirstFiles ==
  {[path \in {f, g} |-> IF path = f THEN first ELSE other] :
     first \in UNION {[1..n -> MCCharacters] : n \in 0..3},
     other \in {Absent, <<"a", "a">>}}

MCItem(search, replace) == [search |-> search, replace |-> replace]

MCItems == {MCItem(<<"a">>, <<Newline, "a">>), MCItem(<<"a", Newline>>, << >>)}

\* Seventeen is one in four bits.
MCLines == {<<0, 1>>, <<1, 1>>, <<2, 1>>, <<2, 3>>, <<17, 18>>}

MCCalls ==
  [tool : {"edit"}, path : {f},
   items : {<<i, j>> : i, j \in MCItems}
             \cup {<<MCItem(<<"a">>, Null)>>, <<MCItem(<< >>, <<"a">>)>>}]
  \cup {[tool |-> "replace", path |-> f, start |-> n[1], end |-> n[2],
         content |-> content] : n \in MCLines, content \in {<< >>, <<"a">>}}
  \cup [tool : {"write"}, path : {f, g}, content : {<<"a", Newline>>}]
  \cup {[tool |-> "move", path |-> f, destination |-> g],
        [tool |-> "move", path |-> g, destination |-> f],
        [tool |-> "move", path |-> f, destination |-> f]}

MCOutsideTexts == {<<"a", Newline, "a">>}

Symmetry == Permutations(Callers)
=============================================================================
