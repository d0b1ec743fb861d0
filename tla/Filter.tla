-------------------------------- MODULE Filter --------------------------------
(***************************************************************************)
(* What is left of a list when the elements that a test refuses are taken    *)
(* out of it, as std::remove_if and erase do, and list_del in a walk over    *)
(* the list.  The test is a set, so that facts about it hold for every test. *)
(***************************************************************************)
EXTENDS Integers, Sequences

\* The elements of s that are in T, in their order.
Filter(s, T) ==
  LET upTo[k \in 0 .. Len(s)] ==
        IF k = 0 THEN <<>>
        ELSE IF s[k] \in T THEN Append(upTo[k - 1], s[k]) ELSE upTo[k - 1]
  IN  upTo[Len(s)]
=============================================================================
