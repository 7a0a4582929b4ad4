------------------------------ MODULE Selection ------------------------------
(* The elements of a sequence that belong to a set, in their order. It is    *)
(* SelectSeq with a set in place of the test, because a set can be a         *)
(* parameter of a lemma that the provers can use.                            *)
EXTENDS Integers, Sequences

Selected(q, K) ==
  LET F[i \in 0 .. Len(q)] ==
        IF i = 0 THEN <<>>
        ELSE IF q[i] \in K THEN Append(F[i - 1], q[i])
        ELSE F[i - 1]
  IN F[Len(q)]
=============================================================================
