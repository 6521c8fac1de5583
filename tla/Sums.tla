-------------------------------- MODULE Sums --------------------------------
(* Sums of finitely many numbers.                                          *)
EXTENDS Integers

\* The sums of the first 0, 1, ... n of the numbers f[1], f[2], ...
PartialSums(f, n) ==
    LET sum[i \in 0..n] == IF i = 0 THEN 0 ELSE sum[i - 1] + f[i]
    IN  sum

SumTo(f, n) == PartialSums(f, n)[n]
=============================================================================
