--------------------------- MODULE MCCommandTools ---------------------------
(* A silent child and one of three lines, and lists of up to two filters.   *)
EXTENDS CommandTools

MCOutputs == {<<>>, <<"a", "b", "a">>}
MCFilters ==
    LET keep == [by |-> "include", lines |-> {"a"}, wellFormed |-> TRUE]
        drop == [by |-> "exclude", lines |-> {"a"}, wellFormed |-> TRUE]
        bad == [keep EXCEPT !.wellFormed = FALSE]
        head(n) == [by |-> "head", count |-> n]
        tail(n) == [by |-> "tail", count |-> n]
    IN  {<<>>, <<drop, head(-1)>>, <<head(1), bad>>, <<tail(2), keep>>, <<head(2), tail(1)>>, <<head(0)>>}
=============================================================================
