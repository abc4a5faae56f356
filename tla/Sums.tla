-------------------------------- MODULE Sums --------------------------------
(***************************************************************************)
(* Prefix sums, the arithmetic every money property of this project is     *)
(* stated with: the total of the first n entries of a function on 1..n.    *)
(* Written as a recursive function so that the proofs can use it.          *)
(***************************************************************************)
EXTENDS Integers

SumTo(f, n) ==
  LET sum[i \in 0..n] == IF i = 0 THEN 0 ELSE sum[i - 1] + f[i]
  IN  sum[n]

Lesser(a, b)  == IF a <= b THEN a ELSE b
Greater(a, b) == IF a >= b THEN a ELSE b
=============================================================================
