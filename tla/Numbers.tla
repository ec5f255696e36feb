------------------------------ MODULE Numbers ------------------------------
(* Numbers by their digits, and powers.  They are functions and not          *)
(* operators that call themselves, so that theorems can be stated of them.  *)
EXTENDS Integers, Sequences

\* The number with these digits to a base, from the highest one.
NumberIn(base, digits) ==
    LET n[i \in 0 .. Len(digits)] == IF i = 0 THEN 0 ELSE base * n[i - 1] + digits[i]
    IN  n[Len(digits)]

\* 1, followed by k zeros.
Power(base, k) == NumberIn(base, [i \in 1 .. k + 1 |-> IF i = 1 THEN 1 ELSE 0])
=============================================================================
