-------------------------------- MODULE Loops --------------------------------
(***************************************************************************)
(* A for loop of the source as a recursive function over its rounds, which *)
(* a proof can unfold.                                                     *)
(***************************************************************************)
EXTENDS Integers, Sequences

\* What a loop of n rounds makes of q, when round i turns x into step(x, i).
Looped(q, n, step(_, _)) ==
  LET after[i \in 0 .. n] == IF i = 0 THEN q ELSE step(after[i - 1], i)
  IN  after[n]

\* What a filter lets through: the elements of l that are in S, in order.
Selected(l, S) ==
  Looped(<<>>, Len(l), LAMBDA x, i : IF l[i] \in S THEN Append(x, l[i]) ELSE x)
=============================================================================
