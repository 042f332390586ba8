---------------------------- MODULE MCFindFiles ----------------------------
(* Every pattern of at most four characters of four kinds and some wider    *)
(* ones, over directories of one name, every name of at most three letters *)
(* and some longer ones, and directories of two.                           *)
EXTENDS FindFiles

UpTo(chars, k) == UNION {[1..i -> chars] : i \in 0..k}

MCPatterns ==
    UpTo({"a", "b", "?", "*"}, 4)
    \cup {<<"*", "a", "*", "b">>, <<"*", "?", "b", "*">>, <<"a", "*", "*", "a">>, <<"?", "*", "a", "b">>}
MCNames ==
    (UpTo({"a", "b"}, 3) \ {<<>>}) \cup {<<"A", "b">>, <<"a", "b", "a", "b">>, <<"a", "a", "b", "A">>}
MCDirectories ==
    {<<s>> : s \in MCNames} \cup {<<<<"a">>, <<"b", "a">>>>, <<<<"b", "a">>, <<"a">>>>}

\* For names with a separator, which find_files never has.
CrossingPatterns == {<<"*", "?", "b">>}
CrossingDirectories == {<<s>> : s \in UpTo({"a", "b", "/"}, 4)}
=============================================================================
