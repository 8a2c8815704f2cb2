----------------------------- MODULE BitReversal -----------------------------
(***************************************************************************)
(* utils/bit_reversal.h: the order that evaluations on a coset of size     *)
(* 2^k are kept in, where halves and cosets of subgroups are contiguous.   *)
(***************************************************************************)
EXTENDS Integers, SequencesExt

\* The bits of n, from the lowest on, become those of the result, from the highest on.
BitReverse(n, number_of_bits) ==
  LET moved[k \in 0 .. number_of_bits] ==
        IF k = 0 THEN [reversed |-> 0, rest |-> n]
        ELSE LET before == moved[k - 1]
             IN  [reversed |-> 2 * before.reversed + (before.rest % 2),
                  rest |-> before.rest \div 2]
  IN  moved[number_of_bits].reversed

\* values is a function from 0 .. 2^log_size - 1.
BitReverseVector(values, log_size) ==
  [i \in DOMAIN values |-> values[BitReverse(i, log_size)]]
=============================================================================
