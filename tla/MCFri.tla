------------------------------- MODULE MCFri -------------------------------
EXTENDS Fri

Request(log_trace_length, log_n_cosets, steps, log_bound, n_queries, bits) ==
  [log_trace_length |-> log_trace_length, log_n_cosets |-> log_n_cosets,
   fri_step_list |-> steps, log_last_layer_degree_bound |-> log_bound,
   n_queries |-> n_queries, proof_of_work_bits |-> bits]

\* All lists of steps for a trace of 4 rows, and some for one of 8; FromJson refuses
\* the last three.
MCRequests ==
  {Request(2, 1, steps, 2 - SumOf(steps), 2, 0) :
     steps \in {<<0>>, <<1>>, <<2>>, <<0, 1>>, <<0, 2>>, <<1, 1>>, <<0, 1, 1>>}} \cup
  {Request(3, 1, <<1, 2>>, 0, 2, 0), Request(3, 1, <<2, 1>>, 0, 3, 1),
   Request(3, 1, <<1, 1, 1>>, 0, 2, 0), Request(2, 2, <<1, 1>>, 0, 2, 1),
   Request(2, 1, <<1, 0>>, 1, 2, 0), Request(2, 1, <<1, 1>>, 1, 2, 0),
   Request(2, 1, <<1, 1>>, 0, 0, 0)}
=============================================================================
