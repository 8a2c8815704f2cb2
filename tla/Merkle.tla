------------------------------- MODULE Merkle -------------------------------
(***************************************************************************)
(* src/starkware/commitment_scheme/merkle: the Merkle tree, its commitment *)
(* scheme, and the verification of a decommitment.                         *)
(*                                                                         *)
(* Segments of leaves are added by tasks that run at the same time; one    *)
(* step of a task computes one inner node.  Committing, and every turn of  *)
(* the two loops that walk the queue of known nodes, is one step.  Hash is *)
(* an ideal hash: the pair of what was hashed.  The channel carries the    *)
(* nodes in order (module Channels); on its way one of them, or the root,  *)
(* may have been altered.                                                  *)
(***************************************************************************)
EXTENDS Containers

CONSTANTS
  Leaves,           \* what the leaves hold: hashes of packages
  Trees,            \* [data, n_segments] : what may be committed to, and how
  MaxHeight,        \* of a tree
  WrongLeaf         \* a value no leaf has

\* What the cells of nodes_ hold before they are written, a hash that is no node's, and
\* no commitment or claims yet. Hashes are pairs, so none of these is one.
Uninitialized == <<"uninitialized">>

Garbage == <<"garbage">>

Nothing == <<>>

Pow2[h \in 0 .. MaxHeight] == IF h = 0 THEN 1 ELSE 2 * Pow2[h - 1]

ASSUME MerkleAssumption ==
  /\ MaxHeight \in Nat
  /\ {Garbage, WrongLeaf, Uninitialized, Nothing} \cap Leaves = {}
  /\ WrongLeaf \notin {Garbage, Uninitialized, Nothing}
  /\ \A t \in Trees :
       \E h \in 0 .. MaxHeight :
         /\ t.data \in [0 .. Pow2[h] - 1 -> Leaves]
         /\ \E d \in 0 .. h : t.n_segments = Pow2[d]

VARIABLES
  tree,             \* the data, and n_segments_
  nodes,            \* nodes_
  adding,           \* where the AddData call of every segment is
  commitment,       \* sent by the prover's Commit
  queries,          \* queries_, leaf indices
  queue,            \* of GenerateDecommitment: node indices
  sent,             \* history variable: indices of the nodes sent, in order
  proof,            \* the root and the nodes as they reached the verifier
  claims,           \* data_to_verify
  known,            \* queue of VerifyDecommitment: pairs of index and hash
  asked,            \* history variable: indices of the nodes received, in order
  damage,           \* what happened to the proof on its way
  stage             \* "committing", "generating", "verifying", "accepted", "rejected"

vars == <<tree, nodes, adding, commitment, queries, queue, sent, proof, claims, known,
          asked, damage, stage>>

Hash(left, right) == <<left, right>>

data_length == Cardinality(DOMAIN tree.data)

Segments == 0 .. tree.n_segments - 1

SegmentLengthInElements == data_length \div tree.n_segments

Log2(n) == CHOOSE h \in 0 .. MaxHeight : Pow2[h] = n

Parent(i) == i \div 2

\* Mutant: the sibling of a right child is taken to be the next node.
NextNode(i) == i + 1

\* node_index ^ 1
Sibling(i) == IF i % 2 = 0 THEN i + 1 ELSE i - 1

-----------------------------------------------------------------------------
Init ==
  /\ tree \in Trees
  /\ nodes = [i \in 1 .. 2 * data_length - 1 |-> Uninitialized]
  /\ adding = [s \in Segments |-> [at |-> "start", cur |-> 0, length |-> 0, i |-> 0]]
  /\ commitment = Nothing
  /\ queries = {}
  /\ queue = <<>>
  /\ sent = <<>>
  /\ proof = [root |-> Nothing, nodes |-> <<>>]
  /\ claims = Nothing
  /\ known = <<>>
  /\ asked = <<>>
  /\ damage = [kind |-> "none", at |-> 0]
  /\ stage = "committing"

UNCHANGED_opening == UNCHANGED <<queries, queue, sent, proof, claims, known, asked, damage>>

\* AddData's loop over sub-layers, as of the start of one; it ends at length 0.
SubLayer(cur, length) ==
  [at |-> IF length > 0 THEN "hash" ELSE "done", cur |-> cur, length |-> length, i |-> cur]

\* Mutant: the offset of the leaves is not halved with the index.
FirstSubLayerOffset(start_index) == data_length + start_index \div 2

FirstSubLayer(start_index) == (data_length + start_index) \div 2

\* AddSegmentForCommitment, and AddData up to the copy of the leaves.
CopyLeaves(s) ==
  LET start_index == s * SegmentLengthInElements
      leaves == data_length + start_index .. data_length + start_index
                                             + SegmentLengthInElements - 1
  IN  /\ stage = "committing"
      /\ adding[s].at = "start"
      /\ nodes' = [i \in DOMAIN nodes |->
                     IF i \in leaves THEN tree.data[i - data_length] ELSE nodes[i]]
      /\ adding' = [adding EXCEPT ![s] =
           SubLayer(FirstSubLayer(start_index), SegmentLengthInElements \div 2)]
      /\ UNCHANGED <<tree, commitment, stage>> /\ UNCHANGED_opening

\* One turn of AddData's inner loop, and of the outer one after the last.
HashNode(s) ==
  LET a == adding[s] IN
  /\ a.at = "hash"
  /\ nodes' = [nodes EXCEPT ![a.i] = Hash(nodes[2 * a.i], nodes[2 * a.i + 1])]
  /\ adding' = [adding EXCEPT ![s] =
       IF a.i + 1 < a.cur + a.length THEN [a EXCEPT !.i = @ + 1]
       ELSE SubLayer(a.cur \div 2, a.length \div 2)]
  /\ UNCHANGED <<tree, commitment, stage>> /\ UNCHANGED_opening

\* Mutant: one layer more is taken for computed.
OneLayerLess ==
  LET depth == Log2(data_length) - Log2(SegmentLengthInElements)
  IN  IF depth = 0 THEN 0 ELSE depth - 1

MinDepthAssumedCorrect == Log2(data_length) - Log2(SegmentLengthInElements)

\* GetRoot's loop, from the last node above that depth to the root.
WithUpperNodes ==
  LET node[i \in DOMAIN nodes] ==
        IF i < Pow2[MinDepthAssumedCorrect] THEN Hash(node[2 * i], node[2 * i + 1])
        ELSE nodes[i]
  IN  node

\* Commit, called when every AddSegmentForCommitment returned.
Commit ==
  /\ stage = "committing"
  /\ \A s \in Segments : adding[s].at = "done"
  /\ commitment = Nothing
  /\ nodes' = WithUpperNodes
  /\ commitment' = nodes'[1]
  /\ UNCHANGED <<tree, adding, stage>> /\ UNCHANGED_opening

-----------------------------------------------------------------------------
\* StartDecommitmentPhase, and GenerateDecommitment up to its loop.
StartDecommitment ==
  /\ stage = "committing"
  /\ commitment # Nothing
  /\ queries' \in (SUBSET (0 .. data_length - 1)) \ {{}}
  /\ queue' = [i \in DOMAIN InOrder(queries') |-> InOrder(queries')[i] + data_length]
  /\ stage' = "generating"
  /\ UNCHANGED <<tree, nodes, adding, commitment, sent, proof, claims, known, asked, damage>>

IsNext(sibling, rest) == Head(rest) = sibling

\* One turn of GenerateDecommitment's loop.
SendSibling ==
  LET node_index == Head(queue)
      rest == Append(Tail(queue), Parent(node_index))
      sibling == Sibling(node_index)
  IN  /\ stage = "generating"
      /\ node_index > 1
      /\ IF IsNext(sibling, rest)
         THEN queue' = Tail(rest) /\ UNCHANGED sent
         ELSE queue' = rest /\ sent' = Append(sent, sibling)
      /\ UNCHANGED <<tree, nodes, adding, commitment, queries, proof, claims, known, asked,
                     damage, stage>>

\* The values the verifier is shown: those committed to, or one of them altered.
Claims ==
  LET honest == [q \in queries |-> tree.data[q]] IN
  {honest} \cup {[honest EXCEPT ![q] = v] :
                   q \in queries, v \in {WrongLeaf, tree.data[0]}}

SentNodes == [k \in DOMAIN sent |-> nodes[sent[k]]]

Damages ==
  [kind : {"none", "root"}, at : {0}] \cup [kind : {"altered", "dropped"}, at : DOMAIN sent]

Arrived(d) ==
  [root |-> IF d.kind = "root" THEN Garbage ELSE commitment,
   nodes |-> CASE d.kind = "altered" -> [SentNodes EXCEPT ![d.at] = Garbage]
               [] d.kind = "dropped" -> [k \in 1 .. Len(sent) - 1 |->
                                          SentNodes[IF k < d.at THEN k ELSE k + 1]]
               [] OTHER -> SentNodes]

\* ReadCommitment; VerifyIntegrity, and VerifyDecommitment up to its loop.
StartVerification ==
  /\ stage = "generating"
  /\ Head(queue) = 1
  /\ claims' \in Claims
  /\ damage' \in Damages
  /\ proof' = Arrived(damage')
  /\ known' = [i \in DOMAIN InOrder(queries) |->
                 [index |-> InOrder(queries)[i] + data_length,
                  hash |-> claims'[InOrder(queries)[i]]]]
  /\ stage' = "verifying"
  /\ UNCHANGED <<tree, nodes, adding, commitment, queries, queue, sent, asked>>

IsKnown(sibling, rest) == rest # <<>> /\ Head(rest).index = sibling

\* Mutant: the known node is hashed first, whichever child it is.
NodeFirst(node, sibling) == Hash(node.hash, sibling.hash)

\* siblings[node_index & 1] = node_hash;
HashOfSiblings(node, sibling) ==
  IF node.index % 2 = 0 THEN Hash(node.hash, sibling.hash)
  ELSE Hash(sibling.hash, node.hash)

\* One turn of VerifyDecommitment's loop.
VerifySibling ==
  LET node == Head(known)
      rest == Tail(known)
      sibling == Sibling(node.index)
      parent(s, others) ==
        Append(others, [index |-> Parent(node.index), hash |-> HashOfSiblings(node, s)])
  IN  /\ stage = "verifying"
      /\ node.index # 1
      /\ IF IsKnown(sibling, rest)
         THEN known' = parent(Head(rest), Tail(rest)) /\ UNCHANGED <<asked, stage>>
         ELSE IF Len(asked) < Len(proof.nodes)
         THEN /\ known' = parent([index |-> sibling,
                                  hash |-> proof.nodes[Len(asked) + 1]], rest)
              /\ asked' = Append(asked, sibling)
              /\ UNCHANGED stage
         ELSE stage' = "rejected" /\ UNCHANGED <<known, asked>>   \* "Proof too short."
      /\ UNCHANGED <<tree, nodes, adding, commitment, queries, queue, sent, proof, claims,
                     damage>>

MatchesRoot(root) == Head(known).hash = root

\* return queue.front().second == merkle_root;
Verdict ==
  /\ stage = "verifying"
  /\ Head(known).index = 1
  /\ stage' = IF MatchesRoot(proof.root) THEN "accepted" ELSE "rejected"
  /\ UNCHANGED <<tree, nodes, adding, commitment, queries, queue, sent, proof, claims, known,
                 asked, damage>>

Ended == stage \in {"accepted", "rejected"}

Next ==
  \/ \E s \in Segments : CopyLeaves(s) \/ HashNode(s)
  \/ Commit \/ StartDecommitment \/ SendSibling
  \/ StartVerification \/ VerifySibling \/ Verdict
  \/ (Ended /\ UNCHANGED vars)

Spec == Init /\ [][Next]_vars
-----------------------------------------------------------------------------
NodeIndices == 1 .. 2 * data_length - 1

TypeOK ==
  /\ tree \in Trees
  /\ DOMAIN nodes = NodeIndices
  /\ adding \in [Segments -> [at : {"start", "hash", "done"}, cur : 0 .. 2 * data_length,
                              length : 0 .. data_length, i : 0 .. 2 * data_length]]
  /\ queries \subseteq 0 .. data_length - 1
  /\ queue \in Seq(NodeIndices)
  /\ sent \in Seq(NodeIndices)
  /\ asked \in Seq(NodeIndices)
  /\ \A k \in DOMAIN known : known[k].index \in NodeIndices
  /\ stage \in {"committing", "generating", "verifying", "accepted", "rejected"}

\* AddData of different segments may run at the same time and in any order
\* (merkle.h:36-38): the node a task is about to write has been written by nobody,
\* no other task is about to write it, and both its children are there.
SegmentsDisjoint ==
  \A s \in Segments : adding[s].at = "hash" =>
    LET i == adding[s].i IN
    /\ nodes[i] = Uninitialized
    /\ nodes[2 * i] # Uninitialized /\ nodes[2 * i + 1] # Uninitialized
    /\ \A r \in Segments \ {s} : adding[r].at = "hash" => adding[r].i # i

\* The root of the leaves first .. first + length - 1, by halves.
RootOf(data) ==
  LET n == Cardinality(DOMAIN data)
      root[range \in {r \in (0 .. n - 1) \X (1 .. n) : r[1] + r[2] <= n}] ==
        LET first == range[1]
            half == range[2] \div 2
        IN  IF half = 0 THEN data[first]
            ELSE Hash(root[<<first, half>>], root[<<first + half, half>>])
  IN  root[<<0, n>>]

\* However the data was cut into segments and in whatever order these were added,
\* Commit sends the root of the tree over the data: the nodes GetRoot takes for
\* computed are (merkle_commitment_scheme.cc:38-44).
RootIsOfData == commitment # Nothing => commitment = RootOf(tree.data)

\* The scheme is a commitment to the data.
Opened ==
  IF Ended THEN [claims |-> claims, intact |-> damage.kind = "none",
                 accepted |-> stage = "accepted"]
  ELSE Nothing

Committed == IF commitment = Nothing THEN Nothing ELSE tree.data

Promise == INSTANCE VectorCommitment WITH
  Vectors <- {t.data : t \in Trees}, committed <- Committed, opened <- Opened

ImplementsVectorCommitment == Promise!Spec
=============================================================================
