------------------------------ MODULE Filters ------------------------------
(***************************************************************************)
(* What the comprehensions [x for x in s if x in T] of the code compute,   *)
(* as a recursive function, which can be reasoned about where SelectSeq    *)
(* with an operator for its test cannot.                                   *)
(***************************************************************************)
EXTENDS Integers, Sequences

\* The elements of the sequence s that are in T, in their order.
KeepOnly(s, T) ==
  LET kept[i \in 0 .. Len(s)] ==
        IF i = 0 THEN <<>>
        ELSE IF s[i] \in T THEN Append(kept[i - 1], s[i]) ELSE kept[i - 1]
  IN  kept[Len(s)]
=============================================================================
