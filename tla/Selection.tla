----------------------------- MODULE Selection ------------------------------
(***************************************************************************)
(* The loops of the renderers and of package stats that copy the samples   *)
(* of one kind into a slice of their own.  SelectSeq with a set in place   *)
(* of the test, so that it can be proved about.                            *)
(***************************************************************************)
EXTENDS Naturals, Sequences

\* The elements of ss that are in S, in their order.
Select(ss, S) ==
  LET upto[i \in 0..Len(ss)] ==
        IF i = 0 THEN << >>
        ELSE IF ss[i] \in S THEN Append(upto[i - 1], ss[i]) ELSE upto[i - 1]
  IN upto[Len(ss)]
=============================================================================
