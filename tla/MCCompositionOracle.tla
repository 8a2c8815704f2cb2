------------------------- MODULE MCCompositionOracle -------------------------
EXTENDS CompositionOracle

Setup(log_trace_length, log_n_cosets, n_cosets, widths, mask, exponent, log_period,
      task_size, n_threads) ==
  [log_trace_length |-> log_trace_length, log_n_cosets |-> log_n_cosets,
   n_cosets |-> n_cosets, trace_widths |-> widths, mask |-> mask,
   point_exponent |-> exponent, log_period |-> log_period, task_size |-> task_size,
   n_threads |-> n_threads]

\* Oracles of an AIR on the original trace, with rows that wrap around the coset and
\* columns out of order, evaluated for the breaker; of boundary constraints on both
\* traces, for FRI; and of a mask that mixes traces and rows.
AirMask == <<<<0, 1>>, <<1, 0>>, <<3, 1>>, <<0, 0>>>>
BoundaryMask(n) == [i \in 1 .. n |-> <<0, i - 1>>]
MixedMask == <<<<1, 2>>, <<0, 0>>, <<2, 2>>, <<1, 0>>, <<0, 1>>>>

MCSetups ==
  {Setup(2, 2, 2, <<2>>, AirMask, 3, 1, task_size, 2) : task_size \in {1, 3}} \cup
  {Setup(1, 1, 2, <<2>>, AirMask, 2, 0, 1, 2), Setup(3, 1, 1, <<2>>, AirMask, 2, 2, 3, 2)} \cup
  {Setup(2, 1, 2, <<1, 2>>, BoundaryMask(3), 1, 0, task_size, 2) : task_size \in {2, 8}} \cup
  {Setup(2, 2, 4, <<2, 1>>, BoundaryMask(3), 1, 0, 2, 2),
   Setup(2, 1, 2, <<1, 2>>, MixedMask, 2, 1, 3, 2),
   Setup(1, 0, 1, <<1, 1>>, BoundaryMask(2), 1, 0, 1, 3)}
=============================================================================
