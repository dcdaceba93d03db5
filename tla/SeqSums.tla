------------------------------ MODULE SeqSums -------------------------------
(* The sum of what f gives to the elements of a sequence.                  *)
EXTENDS Integers, Sequences

Sum(f, seq) ==
  LET sum[i \in 0..Len(seq)] == IF i = 0 THEN 0 ELSE sum[i-1] + f[seq[i]]
  IN  sum[Len(seq)]
=============================================================================
