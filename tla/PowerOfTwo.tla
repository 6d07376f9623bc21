------------------------------- MODULE PowerOfTwo -------------------------------
(***************************************************************************)
(* usize::next_power_of_two, by which the threshold circuit finds how many *)
(* bits a count takes and setup which committer key its proofs are for.    *)
(***************************************************************************)
EXTENDS Integers

PowersOfTwo(n) ==
  LET power[i \in 0..n] == IF i = 0 THEN 1 ELSE 2 * power[i - 1]
  IN  power

NextPowerOfTwo(n) ==
  CHOOSE p \in {PowersOfTwo(n)[i] : i \in 0..n} : n <= p /\ p < 2 * n

=============================================================================
