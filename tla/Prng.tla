-------------------------------- MODULE Prng --------------------------------
(***************************************************************************)
(* src/starkware/randomness/prng.h: one generator, asked for any numbers   *)
(* of bytes and mixed with any messages.  The names of the specification   *)
(* leave room for those of Channels, beside which it is proved.            *)
(***************************************************************************)
EXTENDS HashChain

CONSTANTS
  Messages,         \* what may be mixed in
  RequestSizes,     \* how many bytes may be asked for at once
  MaxCounter,       \* bound of the model: digests taken from one hash
  MaxMixes          \* bound of the model: messages mixed in

ASSUME PrngAssumption ==
  /\ RequestSizes \subseteq Nat
  /\ MaxCounter \in Nat
  /\ MaxMixes \in Nat

VARIABLES
  hash_chain,
  stream            \* history variable: every byte handed out, in order

prng_vars == <<hash_chain, stream>>

PrngInit ==
  /\ \E seed \in Messages : hash_chain = InitHashChain(seed)
  /\ stream = <<>>

\* GetRandomBytes, and RandomByteVector, RandomHash and the draws of
\* RandomElement and ChannelUtils, which all go through it.
Draw(n) ==
  LET drawn == GetRandomBytes(hash_chain, n) IN
  /\ drawn.chain.counter <= MaxCounter
  /\ hash_chain' = drawn.chain
  /\ stream' = stream \o drawn.bytes

MixSeedWithBytes(raw_bytes) ==
  /\ Len(hash_chain.hash) <= MaxMixes
  /\ hash_chain' = UpdateHashChain(hash_chain, raw_bytes)
  /\ UNCHANGED stream

PrngNext == (\E n \in RequestSizes : Draw(n)) \/ (\E m \in Messages : MixSeedWithBytes(m))

PrngSpec == PrngInit /\ [][PrngNext]_prng_vars

-----------------------------------------------------------------------------
AnyByte == [hash : Seq(Messages), place : Nat]

PrngTypeOK ==
  /\ hash_chain \in [hash : Seq(Messages), counter : Nat, spare : Seq(AnyByte)]
  /\ stream \in Seq(AnyByte)

\* The two assertions on the size of the spare buffer never fail: whatever was
\* asked for before, less than a digest is left over, so one more digest fits
\* (hash_chain.cc:67-71).
SpareBelowDigest == Len(hash_chain.spare) < kDigestNumBytes

\* No byte of the stream is handed out twice, whatever mix of whole digests, tails
\* and leftovers the requests were served from (hash_chain.cc:27-49).
NeverRepeats ==
  \A i, j \in DOMAIN stream : i # j => stream[i] # stream[j]

\* Randomness asked for after a message depends on it: every byte handed out comes
\* from the hash of everything mixed in so far (hash_chain.cc:51-58).
DependsOnAllMessages ==
  [][\A i \in DOMAIN stream' \ DOMAIN stream : stream'[i].hash = hash_chain.hash]_prng_vars
=============================================================================
