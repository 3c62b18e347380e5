-------------------------------- MODULE Lists --------------------------------
(***************************************************************************)
(* What the program does with lists and the libraries do not define in a   *)
(* form that can be reasoned about.                                        *)
(***************************************************************************)
EXTENDS Integers, Sequences, SequencesExt

\* A comprehension with an if: the members of a list that are in a set, in the
\* list's order.
Only(list, set) ==
  FoldLeft(LAMBDA kept, x : IF x \in set THEN Append(kept, x) ELSE kept, << >>, list)
=============================================================================
