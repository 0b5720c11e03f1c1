------------------------------ MODULE ForLoop ------------------------------
(***************************************************************************)
(* The loops of the code that build one value step by step: a number bit   *)
(* by bit, or a list of the elements that pass a test.                     *)
(***************************************************************************)
EXTENDS Integers

\* x := start; for i := 1; i <= n; i++ { x = step[i][x] }
Loop(start, step, n) ==
    LET x[i \in 0..n] == IF i = 0 THEN start ELSE step[i][x[i-1]]
    IN  x[n]
=============================================================================
