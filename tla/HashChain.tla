------------------------------ MODULE HashChain ------------------------------
(***************************************************************************)
(* src/starkware/randomness/hash_chain.cc as operators on the object's     *)
(* state, for Prng and the two channels.                                   *)
(*                                                                         *)
(* Blake2s is an ideal hash: hash_ is the sequence of everything absorbed, *)
(* and the pos-th byte of HashWithCounter(hash_, counter) is named by its  *)
(* place counter * kDigestNumBytes + pos in the stream of that hash.       *)
(* spare_bytes_ holds num_spare_bytes_ bytes; the array's stale tail is    *)
(* never read.                                                             *)
(***************************************************************************)
EXTENDS Integers, Sequences

CONSTANT kDigestNumBytes            \* Blake2s160::kDigestNumBytes, 20

ASSUME DigestAssumption == kDigestNumBytes \in Nat \ {0}

InitHashChain(bytes) == [hash |-> <<bytes>>, counter |-> 0, spare |-> <<>>]

\* Mutant: bytes of the old hash stay available after the new message.
UpdateKeepingSpare(chain, raw_bytes) ==
  [chain EXCEPT !.hash = Append(@, raw_bytes), !.counter = 0]

UpdateHashChain(chain, raw_bytes) ==
  [hash |-> Append(chain.hash, raw_bytes), counter |-> 0, spare |-> <<>>]

StreamByte(hash, place) == [hash |-> hash, place |-> place]

\* Mutant: the counter is one behind.
DigestBytesBehind(hash, counter, first, last) ==
  [i \in 1 .. last - first + 1 |->
     StreamByte(hash, (counter - 1) * kDigestNumBytes + first + i - 1)]

\* Digest bytes first .. last (from 0) of counter.
DigestBytes(hash, counter, first, last) ==
  [i \in 1 .. last - first + 1 |->
     StreamByte(hash, counter * kDigestNumBytes + first + i - 1)]

\* The digests of `blocks' counters in a row, whole.
FullBlocks(chain, blocks) ==
  DigestBytes(chain.hash, chain.counter, 0, blocks * kDigestNumBytes - 1)

\* GetRandomBytes after its loop, for fewer bytes than a digest: served from the
\* spare bytes, or from a digest whose other bytes join the spare ones.  (The
\* assertion that they fit is Prng!SpareBelowDigest.)
TailFromSpare(chain, num_tail_bytes) ==
  [bytes |-> SubSeq(chain.spare, 1, num_tail_bytes),
   chain |-> [chain EXCEPT !.spare = SubSeq(@, num_tail_bytes + 1, Len(@))]]

TailFromDigest(chain, num_tail_bytes) ==
  [bytes |-> DigestBytes(chain.hash, chain.counter, 0, num_tail_bytes - 1),
   chain |-> [chain EXCEPT !.counter = @ + 1,
                           !.spare = @ \o DigestBytes(chain.hash, chain.counter,
                                            num_tail_bytes, kDigestNumBytes - 1)]]

\* Mutant: exactly enough spare bytes are not enough.
SpareExceeds(chain, num_tail_bytes) == num_tail_bytes < Len(chain.spare)

SpareSuffices(chain, num_tail_bytes) == num_tail_bytes <= Len(chain.spare)

\* Mutant: the counter is not moved past the whole blocks.
SameCounter(chain, blocks) == chain

SkipBlocks(chain, blocks) == [chain EXCEPT !.counter = @ + blocks]

\* The bytes returned and the object afterwards.
GetRandomBytes(chain, num_bytes) ==
  LET num_full_blocks == num_bytes \div kDigestNumBytes
      num_tail_bytes  == num_bytes % kDigestNumBytes
      rest == SkipBlocks(chain, num_full_blocks)
      tail == IF SpareSuffices(chain, num_tail_bytes)
              THEN TailFromSpare(rest, num_tail_bytes)
              ELSE TailFromDigest(rest, num_tail_bytes)
  IN  [bytes |-> FullBlocks(chain, num_full_blocks) \o tail.bytes,
       chain |-> tail.chain]
=============================================================================
