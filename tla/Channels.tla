------------------------------ MODULE Channels ------------------------------
(***************************************************************************)
(* src/starkware/channel: the non-interactive ProverChannel and            *)
(* VerifierChannel.  Each draws the verifier's randomness from a hash      *)
(* chain of its own, which absorbs the proof as the prover writes it and   *)
(* as the verifier reads it, until the query phase begins.                 *)
(*                                                                         *)
(* The prover calls its channel in any order.  The verifier's code makes   *)
(* the matching calls, with sizes it knows from the public parameters, on  *)
(* the proof that reached it.  A number or a field element is named by the *)
(* bytes it is computed from; annotations and statistics are left out.     *)
(***************************************************************************)
EXTENDS HashChain, FiniteSets

CONSTANTS
  PublicInput,      \* seed of both generators
  Byte,             \* the bytes messages consist of
  Data,             \* the messages, as sequences of bytes, the prover may send
  NumberBytes,      \* sizeof(uint64_t): a random number, a draw, a nonce
  Rejected(_),      \* whether a draw is at least kModulus, by its bytes
  MaxDraws,         \* bound of the model: draws for one field element
  PowBits,          \* values of proof_of_work_bits
  Garbage,          \* a byte that no message contains
  MaxCalls          \* bound of the model: calls the prover makes

\* The range FriParameters::FromJson accepts.
ProofOfWorkBits == 0 .. 50

ASSUME ChannelAssumption ==
  /\ Data \subseteq Seq(Byte)
  /\ Garbage \notin Byte
  /\ NumberBytes \in Nat \ {0}
  /\ MaxDraws \in Nat \ {0}
  /\ PowBits \subseteq ProofOfWorkBits
  /\ MaxCalls \in Nat

VARIABLES
  calls,            \* the prover's calls, with what each returned
  prover,           \* ProverChannel: prng_, in_query_phase_, proof_
  verifier,         \* VerifierChannel: prng_, in_query_phase_, proof_, proof_read_index_
  answers,          \* what the verifier's calls returned
  damage,           \* what happened to the proof on its way
  first_operand,    \* which argument of ExtensionFieldElement is evaluated first
  stage             \* "proving", "verifying", "accepted", or the failed assertion

vars == <<calls, prover, verifier, answers, damage, first_operand, stage>>

NoBytes == <<>>

-----------------------------------------------------------------------------
\* ChannelUtils::GetRandomNumber; its assertion that the upper bound is below 2^48 is about
\* domains larger than any that is evaluated.
RandomNumber(prng) == GetRandomBytes(prng, NumberBytes)

\* BaseFieldElement::RandomElement draws until a draw is not rejected; in the model
\* the MaxDraws-th draw ends the loop in any case.
RandomBaseElement(prng) ==
  LET draw[k \in 1 .. MaxDraws] ==
        GetRandomBytes(IF k = 1 THEN prng ELSE draw[k - 1].chain, NumberBytes)
      Ends(k) == k = MaxDraws \/ ~Rejected(draw[k].bytes)
  IN  draw[CHOOSE k \in 1 .. MaxDraws : Ends(k) /\ \A j \in 1 .. k - 1 : ~Ends(j)]

\* ExtensionFieldElement::RandomElement: two draws that are the arguments of one
\* constructor call, so the compiler orders them.
RandomExtensionElement(prng) ==
  LET first == RandomBaseElement(prng)
      second == RandomBaseElement(first.chain)
  IN  [bytes |-> IF first_operand = 1 THEN first.bytes \o second.bytes
                                      ELSE second.bytes \o first.bytes,
       chain |-> second.chain]

\* ProofOfWorkProver::Prove and ProofOfWorkVerifier::Verify (module ProofOfWork),
\* for a hash whose valid nonces nobody finds otherwise.
MaxWorkBits == 40

Nonce(state, work_bits) ==
  [i \in 1 .. NumberBytes |-> [state |-> state, work_bits |-> work_bits, byte |-> i]]

ValidNonce(state, work_bits, nonce) == nonce = Nonce(state, work_bits)

-----------------------------------------------------------------------------
Init ==
  /\ calls = <<>>
  /\ prover = [prng |-> InitHashChain(PublicInput), in_query_phase |-> FALSE, proof |-> NoBytes]
  /\ verifier = [prng |-> InitHashChain(PublicInput), in_query_phase |-> FALSE,
                 proof |-> NoBytes, proof_read_index |-> 0]
  /\ answers = <<>>
  /\ damage = [kind |-> "none", at |-> 0]
  /\ first_operand \in {1, 2}
  /\ stage = "proving"

\* The prover made a call; with what it returned and the generator afterwards.
Called(call, arg, returned, prng) ==
  calls' = Append(calls, [call |-> call, arg |-> arg, returned |-> returned, prng |-> prng])

Proving ==
  /\ stage = "proving"
  /\ Len(calls) < MaxCalls
  /\ UNCHANGED <<verifier, answers, damage, first_operand>>

\* ProverChannel::SendBytes, under SendData, SendFieldElement, SendFieldElementSpan,
\* SendCommitmentHash and SendDecommitmentNode.
Sent(raw_bytes) ==
  [prover EXCEPT !.proof = @ \o raw_bytes,
                 !.prng = IF prover.in_query_phase THEN @ ELSE UpdateHashChain(@, raw_bytes)]

Send(raw_bytes) ==
  /\ Proving
  /\ prover' = Sent(raw_bytes)
  /\ Called("data", Len(raw_bytes), raw_bytes, prover'.prng)
  /\ UNCHANGED stage

ProverFails(assertion) == stage' = assertion /\ UNCHANGED <<calls, prover>>

ProverDraws(call, drawn) ==
  /\ Proving
  /\ IF prover.in_query_phase
     THEN ProverFails("prover drew in query phase")
     ELSE /\ prover' = [prover EXCEPT !.prng = drawn.chain]
          /\ Called(call, 0, drawn.bytes, drawn.chain)
          /\ UNCHANGED stage

ReceiveNumber == ProverDraws("number", RandomNumber(prover.prng))

ReceiveFieldElement == ProverDraws("element", RandomExtensionElement(prover.prng))

\* No call of the channel is made for 0 bits; Prove asserts at most 40.
ProverApplyProofOfWork(security_bits) ==
  /\ Proving
  /\ IF security_bits = 0
     THEN /\ Called("pow", 0, NoBytes, prover.prng)
          /\ UNCHANGED <<prover, stage>>
     ELSE IF security_bits > MaxWorkBits
     THEN ProverFails("too many bits of work")
     ELSE LET nonce == Nonce(prover.prng.hash, security_bits) IN
          /\ prover' = Sent(nonce)
          /\ Called("pow", security_bits, nonce, prover'.prng)
          /\ UNCHANGED stage

ProverBeginQueryPhase ==
  /\ Proving
  /\ prover' = [prover EXCEPT !.in_query_phase = TRUE]
  /\ Called("query phase", 0, NoBytes, prover.prng)
  /\ UNCHANGED stage

-----------------------------------------------------------------------------
\* The proof in the file the verifier reads: as it was written, cut short, or with
\* one byte altered.
Damages ==
  {[kind |-> "none", at |-> 0]} \cup [kind : {"cut", "altered"}, at : DOMAIN prover.proof]

Arrived(d) ==
  CASE d.kind = "none"    -> prover.proof
    [] d.kind = "cut"     -> SubSeq(prover.proof, 1, d.at - 1)
    [] d.kind = "altered" -> [prover.proof EXCEPT ![d.at] = Garbage]

Deliver ==
  /\ stage = "proving"
  /\ stage' = "verifying"
  /\ damage' \in Damages
  /\ verifier' = [verifier EXCEPT !.proof = Arrived(damage')]
  /\ UNCHANGED <<calls, prover, answers, first_operand>>

\* The verifier's next call has the name and argument of the prover's.
NextCall == calls[Len(answers) + 1]

Verifying(call) ==
  /\ stage = "verifying"
  /\ Len(answers) < Len(calls)
  /\ NextCall.call = call
  /\ UNCHANGED <<calls, prover, damage, first_operand>>

Answers(returned) == answers' = Append(answers, returned)

Rejects(assertion) == stage' = assertion /\ UNCHANGED <<verifier, answers>>

InProof(num_bytes) == verifier.proof_read_index + num_bytes <= Len(verifier.proof)

\* What lies past the end of the vector is undefined.
ProofBytes(num_bytes) ==
  LET index == verifier.proof_read_index IN
  [i \in 1 .. num_bytes |-> IF index + i \in DOMAIN verifier.proof
                            THEN verifier.proof[index + i] ELSE Garbage]

\* Mutant: what is read in the query phase is absorbed as well.
MixAlways(raw_bytes) == UpdateHashChain(verifier.prng, raw_bytes)

Mixed(raw_bytes) ==
  IF verifier.in_query_phase THEN verifier.prng
  ELSE UpdateHashChain(verifier.prng, raw_bytes)

\* VerifierChannel::ReceiveBytes; `approved' is what the caller then asserts.
Receive(num_bytes, approved) ==
  LET raw_bytes == ProofBytes(num_bytes) IN
      IF ~InProof(num_bytes)
      THEN Rejects("proof too short")
      ELSE IF ~approved
      THEN Rejects("wrong proof of work")
      ELSE /\ verifier' = [verifier EXCEPT !.proof_read_index = @ + num_bytes,
                                           !.prng = Mixed(raw_bytes)]
           /\ Answers(raw_bytes)
           /\ UNCHANGED stage

\* ReceiveData, ReceiveFieldElement, ReceiveFieldElementSpan, ReceiveCommitmentHash
\* and ReceiveDecommitmentNode.
ReceiveMessage ==
  /\ Verifying("data")
  /\ Receive(NextCall.arg, TRUE)

\* GetAndSendRandomNumber and GetAndSendRandomFieldElement: SendBytes does nothing.
VerifierDraws(call, drawn) ==
  /\ Verifying(call)
  /\ IF verifier.in_query_phase
     THEN Rejects("verifier drew in query phase")
     ELSE /\ verifier' = [verifier EXCEPT !.prng = drawn.chain]
          /\ Answers(drawn.bytes)
          /\ UNCHANGED stage

GetAndSendRandomNumber == VerifierDraws("number", RandomNumber(verifier.prng))

GetAndSendRandomFieldElement == VerifierDraws("element", RandomExtensionElement(verifier.prng))

\* Mutant: the state is read after the nonce was received.
StateAfterNonce(nonce) == Mixed(nonce).hash

StateBeforeNonce(nonce) == verifier.prng.hash

VerifierApplyProofOfWork ==
  /\ Verifying("pow")
  /\ IF NextCall.arg = 0
     THEN Answers(NoBytes) /\ UNCHANGED <<verifier, stage>>
     ELSE LET nonce == ProofBytes(NumberBytes)
          IN  Receive(NumberBytes, ValidNonce(StateBeforeNonce(nonce), NextCall.arg, nonce))

VerifierBeginQueryPhase ==
  /\ Verifying("query phase")
  /\ verifier' = [verifier EXCEPT !.in_query_phase = TRUE]
  /\ Answers(NoBytes)
  /\ UNCHANGED stage

\* The verifier made all its calls; nobody asks IsEndOfProof.
Accept ==
  /\ stage = "verifying"
  /\ Len(answers) = Len(calls)
  /\ stage' = "accepted"
  /\ UNCHANGED <<calls, prover, verifier, answers, damage, first_operand>>

Ended == stage \notin {"proving", "verifying"} /\ UNCHANGED vars

ProverStep ==
  \/ \E m \in Data : Send(m)
  \/ ReceiveNumber
  \/ ReceiveFieldElement
  \/ \E bits \in PowBits : ProverApplyProofOfWork(bits)
  \/ ProverBeginQueryPhase

VerifierStep ==
  \/ ReceiveMessage
  \/ GetAndSendRandomNumber
  \/ GetAndSendRandomFieldElement
  \/ VerifierApplyProofOfWork
  \/ VerifierBeginQueryPhase
  \/ Accept

Next == ProverStep \/ Deliver \/ VerifierStep \/ Ended

Spec == Init /\ [][Next]_vars

-----------------------------------------------------------------------------
Randoms == {"number", "element"}

\* The i-th call was made before the query phase.
Committed(i) == \A j \in 1 .. i - 1 : calls[j].call # "query phase"

\* The calls before the i-th that sent something.
IsMessage(c) == c.call = "data" \/ (c.call = "pow" /\ c.arg > 0)

MessagesBefore(i) == {j \in 1 .. i - 1 : IsMessage(calls[j])}

\* The hash is that of the seed and of what these calls sent, in their order.
HashOf(hash, messages) ==
  /\ Len(hash) = 1 + Cardinality(messages)
  /\ hash[1] = PublicInput
  /\ \A j \in messages :
       hash[1 + Cardinality({k \in messages : k <= j})] = calls[j].returned

TypeOK ==
  /\ \A channel \in {prover, verifier} :
       /\ channel.in_query_phase \in BOOLEAN
       /\ channel.prng.counter \in Nat
       /\ Len(channel.prng.spare) < kDigestNumBytes
  /\ verifier.proof_read_index \in 0 .. Len(verifier.proof)
  /\ Len(answers) <= Len(calls)

\* Every random value depends on everything the prover committed to before it was
\* drawn, and on nothing else: no leftover byte of an earlier hash is used
\* (prover_channel.cc:46-76, hash_chain.cc:51-58).
TranscriptBound ==
  \A i \in DOMAIN calls : calls[i].call \in Randoms =>
    \A b \in DOMAIN calls[i].returned :
      HashOf(calls[i].returned[b].hash, MessagesBefore(i))

VerifierAssertions ==
  {"proof too short", "wrong proof of work", "verifier drew in query phase"}

\* On the proof as it was written the verifier's channel repeats the prover's, call
\* by call: same messages, same random values, same generator, down to the spare
\* bytes, whatever order the prover sent and drew in.  None of its assertions fails,
\* and at the end all of the proof was read; a proof that was cut does not get there
\* (verifier_channel.cc:47-102).
InStep ==
  /\ damage.kind = "none" =>
       /\ \A i \in DOMAIN answers : answers[i] = calls[i].returned
       /\ answers # <<>> => verifier.prng = calls[Len(answers)].prng
       /\ stage \notin VerifierAssertions
       /\ stage = "accepted" => verifier.proof_read_index = Len(prover.proof)
  /\ stage = "accepted" => damage.kind # "cut"

\* The number of bits a parameter file may ask for (fri_parameters.h:114-117) is one
\* the prover can serve.
AcceptedBitsServed == stage # "too many bits of work"
=============================================================================
