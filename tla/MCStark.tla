------------------------------- MODULE MCStark -------------------------------
EXTENDS Stark

\* A Rescue of one element a word and two rounds over 257 elements.
Row(a, b, c) == <<FromUint(a), FromUint(b), FromUint(c)>>
MCMdsMatrix == <<Row(2, 3, 5), Row(7, 1, 11), Row(4, 9, 6)>>
MCMdsMatrixInverse == <<Row(64, 255, 36), Row(76, 210, 237), Row(186, 29, 49)>>
MCRoundConstants ==
  <<Row(17, 201, 5), Row(90, 33, 144), Row(8, 250, 61), Row(119, 72, 13), Row(36, 181, 222)>>

\* Some element that depends on the last entry and the length, and is not in the base field.
MCChallenge(t) ==
  LET n == Len(t)
      last == IF t[n].kind = "root" THEN t[n].value[1][1] ELSE t[n].value
  IN  <<(last[1] * 89 + last[2] * 41 + n * n * 7 + 3) % kModulus,
        1 + ((last[1] * 57 + last[2] * 101 + n * 31 + 5) % (kModulus - 1))>>

Witness(chain_length) ==
  Vector(chain_length + 1, LAMBDA i : <<FromUint((i * i * 19 + i * 5 + 7) % kModulus)>>)

Setup(chain_length, log_n_cosets, steps, bound, task_size, deviation) ==
  [witness |-> Witness(chain_length), chain_length |-> chain_length,
   log_n_cosets |-> log_n_cosets, fri_step_list |-> steps, last_layer_degree_bound |-> bound,
   task_size |-> task_size, deviation |-> deviation]

None == [kind |-> "none"]

\* Parameters for a trace of 8 rows, most of them unsuitable; longer chains, the last of
\* which is padded by a fourth batch; chains that are no statement.
Honest ==
  {Setup(3, log_n_cosets, steps, bound, 3, None) :
     log_n_cosets \in {1, 2}, bound \in {1, 2, 3},
     steps \in {<<>>, <<0, 2>>, <<1, 0, 1>>, <<1, 1>>, <<2, 1>>, <<11>>}} \cup
  {Setup(3, 3, <<0, 1>>, 4, 8, None), Setup(6, 2, <<2, 1>>, 2, 5, None),
   Setup(6, 3, <<4>>, 1, 16, None), Setup(9, 2, <<1, 3>>, 2, 20, None),
   Setup(0, 2, <<1>>, 1, 4, None), Setup(4, 2, <<3>>, 1, 4, None)}

\* A new right word, or a new first word, makes another chain and not a wrong one.
AnotherWitness(hash_index, round, column) ==
  \/ column = 2 /\ (round = -1 \/ (round = 0 /\ hash_index % 3 # 1))
  \/ column = 1 /\ round = -1 /\ hash_index = 1

WrongStates(chain_length, hash_indices) ==
  {Setup(chain_length, 2, <<1, 1>>, TraceLength(chain_length) \div 4, 4,
         [kind |-> "state", hash_index |-> at[1], round |-> at[2], column |-> at[3]]) :
     at \in {at \in hash_indices \X (-1 .. kNumRounds) \X (1 .. kStateSize) :
              ~AnotherWitness(at[1], at[2], at[3])}}

MCSetups ==
  Honest \cup WrongStates(3, 1 .. 3) \cup WrongStates(6, {4}) \cup
  {Setup(3, 2, <<3>>, 1, 4, [kind |-> "output"])} \cup
  {Setup(3, 2, <<3>>, 1, 4, [kind |-> "sampled", index |-> index]) : index \in {1, 3, 5, 8, 10}}
=============================================================================
