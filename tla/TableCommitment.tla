-------------------------- MODULE TableCommitment --------------------------
(***************************************************************************)
(* src/starkware/commitment_scheme: TableProverImpl and TableVerifierImpl  *)
(* on top of PackagingCommitmentSchemeProver and -Verifier.  A row of a    *)
(* table of field elements is one element; neighbouring elements share a   *)
(* package, whose hash is one leaf of the inner commitment.                *)
(*                                                                         *)
(* The inner scheme is the one of module Merkle, by its promise only       *)
(* (VectorCommitment).  A cell's value is its own place, so a value read   *)
(* for another cell is noticed; a hash is what was hashed.  Segments are   *)
(* added in any order; every other handler is one action.                  *)
(***************************************************************************)
EXTENDS Containers

CONSTANTS
  Tables,           \* [n_rows, n_columns, cell_size, n_segments, interleaved]
  MaxHeight,        \* of the powers of two that count rows
  kDigestNumBytes,  \* Blake2s160::kDigestNumBytes, 20
  MaxQueries,       \* bound of the model: cells asked for
  Garbage,          \* what an altered message carries
  WrongCell         \* a value no cell has

\* No leaf, no commitment, no claims yet.
Nothing == <<>>

Pow2[h \in 0 .. MaxHeight] == IF h = 0 THEN 1 ELSE 2 * Pow2[h - 1]

TableType ==
  [n_rows : Nat, n_columns : Nat, cell_size : Nat, n_segments : Nat, interleaved : BOOLEAN]

ASSUME TableAssumption ==
  /\ MaxHeight \in Nat
  /\ Tables \subseteq TableType
  /\ \A t \in Tables :
       /\ \E h \in 0 .. MaxHeight : t.n_rows = Pow2[h]
       /\ t.n_columns > 0 /\ t.cell_size > 0 /\ t.n_segments > 0
       /\ t.n_rows % t.n_segments = 0
  /\ kDigestNumBytes \in Nat \ {0}
  /\ 2 * kDigestNumBytes <= Pow2[MaxHeight]
  /\ MaxQueries \in Nat

VARIABLES
  table,                    \* what was built: see Tables
  n_elements_in_package,    \* k_n_elements_in_package, on both sides
  leaves,                   \* hashes handed to the inner scheme, by package
  added,                    \* segments that were added
  committed,                \* whether Commit was called
  data_queries,
  integrity_queries,
  all_query_rows,           \* all_query_rows_
  missing_element_queries,  \* missing_element_queries_, in order
  rows_to_request,          \* what StartDecommitmentPhase returned
  sent,                     \* messages of the decommitment: the place of a
                            \* cell, or of a row <<row>>, and the value
  damage,                   \* what happened to the proof on its way
  rows_data,                \* the verifier's cells: received, or computed by it
  asked,                    \* history variable: places of the messages received
  stage

vars == <<table, n_elements_in_package, leaves, added, committed, data_queries,
          integrity_queries, all_query_rows, missing_element_queries, rows_to_request, sent, damage, rows_data, asked, stage>>

n_columns == table.n_columns

Rows == 0 .. table.n_rows - 1

Columns == 0 .. n_columns - 1

Cell(row, col) == <<row, col>>

Cells == Rows \X Columns

\* The cells of a std::set<RowCol>: RowCol::operator< compares rows, then columns.
CellsInOrder(S) ==
  LET places == InOrder({cell[1] * n_columns + cell[2] : cell \in S})
  IN  [k \in DOMAIN places |-> Cell(places[k] \div n_columns, places[k] % n_columns)]

-----------------------------------------------------------------------------
(* PackerHasher. *)

\* The least power of two that is not below n, by its exponent.
Log2Ceil(n) == CHOOSE h \in 0 .. MaxHeight : n <= Pow2[h] /\ \A k \in 0 .. h - 1 : Pow2[k] < n

ComputeNumElementsInPackage(size_of_element, size_of_package, max_n_elements) ==
  LET fit == (size_of_package - 1) \div size_of_element + 1
      rounded == Pow2[Log2Ceil(fit)]
  IN  IF size_of_element >= size_of_package THEN 1
      ELSE IF rounded < max_n_elements THEN rounded ELSE max_n_elements

PackageOf(element) == element \div n_elements_in_package

Packages == {PackageOf(element) : element \in Rows}

\* Mutant: the first element of the next package is taken along.
ElementsPastEnd(package) ==
  package * n_elements_in_package .. (package + 1) * n_elements_in_package

ElementsOf(package) ==
  package * n_elements_in_package .. (package + 1) * n_elements_in_package - 1

GetElementsInPackages(packages) == UNION {ElementsOf(p) : p \in packages}

\* Mutant: the elements that are known are asked for as well.
AllElements(known) == GetElementsInPackages({PackageOf(e) : e \in known})

ElementsRequiredToComputeHashes(known) ==
  GetElementsInPackages({PackageOf(e) : e \in known}) \ known

\* s cut into pieces of n; HashElements hashes every piece.
Pieces(s, n) == [k \in 1 .. Len(s) \div n |-> SubSeq(s, (k - 1) * n + 1, k * n)]

\* PackAndHash of consecutive elements, and of numbered ones.
PackAndHash(elements) == Pieces(elements, n_elements_in_package)

PackAndHashMap(elements) ==
  [p \in {PackageOf(e) : e \in DOMAIN elements} |->
     [k \in 1 .. n_elements_in_package |-> elements[p * n_elements_in_package + k - 1]]]

-----------------------------------------------------------------------------
(* The prover. *)

Segments == 0 .. table.n_segments - 1

RowsInSegment == table.n_rows \div table.n_segments

\* What the caller passes for a segment: one span per column, or all columns
\* interleaved in one span.
Segment(s) ==
  LET first == s * RowsInSegment IN
  IF table.interleaved
  THEN <<[k \in 1 .. RowsInSegment * n_columns |->
           Cell(first + (k - 1) \div n_columns, (k - 1) % n_columns)]>>
  ELSE [col \in 1 .. n_columns |-> [k \in 1 .. RowsInSegment |-> Cell(first + k - 1, col - 1)]]

SerializeFieldColumns(columns) ==
  [k \in 1 .. Len(columns) * Len(columns[1]) |->
     columns[((k - 1) % Len(columns)) + 1][((k - 1) \div Len(columns)) + 1]]

SegmentElements(s) == Pieces(SerializeFieldColumns(Segment(s)), n_columns)

PackagesInSegment == RowsInSegment \div n_elements_in_package

\* PackerHasher's constructor: rows are packed up to the size of two hashes.
PackageSize ==
  ComputeNumElementsInPackage(n_columns * table.cell_size, 2 * kDigestNumBytes, table.n_rows)

Init ==
  /\ table \in Tables
  /\ n_elements_in_package = PackageSize
  /\ leaves = [p \in Packages |-> Nothing]
  /\ added = {}
  /\ committed = FALSE
  /\ data_queries = {} /\ integrity_queries = {} /\ all_query_rows = {}
  /\ missing_element_queries = <<>> /\ rows_to_request = <<>>
  /\ sent = <<>>
  /\ damage = [kind |-> "none", at |-> 0]
  /\ rows_data = Nothing
  /\ asked = <<>>
  /\ stage = "committing"

UNCHANGED_queries ==
  UNCHANGED <<data_queries, integrity_queries, all_query_rows, missing_element_queries,
              rows_to_request>>

UNCHANGED_opening == UNCHANGED <<sent, damage, rows_data, asked>>

\* TableProverImpl, Packaging- and MerkleCommitmentSchemeProver
\* ::AddSegmentForCommitment: a segment must be made of whole packages (SafeDiv).
AddSegment(s) ==
  /\ stage = "committing"
  /\ s \notin added
  /\ IF RowsInSegment % n_elements_in_package # 0
     THEN stage' = "segment smaller than a package" /\ UNCHANGED <<leaves, added>>
     ELSE /\ leaves' = [p \in Packages |->
               IF p \div PackagesInSegment = s
               THEN PackAndHash(SegmentElements(s))[(p % PackagesInSegment) + 1]
               ELSE leaves[p]]
          /\ added' = added \cup {s}
          /\ UNCHANGED stage
  /\ UNCHANGED <<table, n_elements_in_package, committed>> /\ UNCHANGED_queries /\ UNCHANGED_opening

Commit ==
  /\ stage = "committing"
  /\ added = Segments
  /\ committed' = TRUE
  /\ stage' = "committed"
  /\ UNCHANGED <<table, n_elements_in_package, leaves, added>> /\ UNCHANGED_queries /\ UNCHANGED_opening

\* What may be asked for: a few cells, some for their data, the others for integrity.
QuerySets == {queries \in SUBSET Cells : Cardinality(queries) \in 1 .. MaxQueries}

AllQueryRows(data, integrity) == {cell[1] : cell \in data \cup integrity}

\* The rows of the queries, then those the packaging scheme asks for.
RowsToRequest(rows, requested_elements) == InOrder(rows) \o requested_elements

\* TableProverImpl::StartDecommitmentPhase, which calls that of the packaging
\* scheme; the Merkle scheme requests nothing.
StartDecommitmentPhase ==
  /\ stage = "committed"
  /\ \E queries \in QuerySets : \E data \in SUBSET queries :
       /\ data_queries' = data
       /\ integrity_queries' = queries \ data
  /\ all_query_rows' = AllQueryRows(data_queries', integrity_queries')
  /\ missing_element_queries' = InOrder(ElementsRequiredToComputeHashes(all_query_rows'))
  /\ rows_to_request' = RowsToRequest(all_query_rows', missing_element_queries')
  /\ stage' = "started"
  /\ UNCHANGED <<table, n_elements_in_package, leaves, added, committed>>
  /\ UNCHANGED_opening

ElementsToBeTransmitted(rows, integrity) == (rows \X Columns) \ integrity

\* elements_data: the requested rows, in the order of the request.
Requested(k, col) == Cell(rows_to_request[k], col)

\* The cells the nested loops of Decommit meet, and those they send.
RowByRow(rows) ==
  [k \in 1 .. Len(rows) * n_columns |->
     Cell(rows[((k - 1) \div n_columns) + 1], (k - 1) % n_columns)]

Transmitted ==
  LET cells == RowByRow(InOrder(all_query_rows))
      transmits == InOrder({k \in DOMAIN cells : cells[k] \notin integrity_queries})
  IN  [k \in DOMAIN transmits |-> cells[transmits[k]]]

RowNumber(row) == Cardinality({r \in all_query_rows : r <= row})

CellMessages ==
  LET cells == Transmitted IN
  [k \in DOMAIN cells |->
     [place |-> cells[k], value |-> Requested(RowNumber(cells[k][1]), cells[k][2])]]

\* Mutant: the rows of the queries are not skipped.
FirstRows(k) == k

LastRows(k) == Cardinality(all_query_rows) + k

ElementMessages ==
  [k \in DOMAIN missing_element_queries |->
     [place |-> <<missing_element_queries[k]>>,
      value |-> [col \in 1 .. n_columns |-> Requested(LastRows(k), col - 1)]]]

\* TableProverImpl::Decommit and, after the cells, PackagingCommitmentSchemeProver
\* ::Decommit and the inner scheme's.
Decommit ==
  LET to_transmit ==
        CellsInOrder(ElementsToBeTransmitted(all_query_rows, integrity_queries))
  IN  /\ stage = "started"
      /\ IF Transmitted # to_transmit
         THEN stage' = "transmits another cell" /\ UNCHANGED sent
         ELSE stage' = "sent" /\ sent' = CellMessages \o ElementMessages
      /\ UNCHANGED <<table, n_elements_in_package, leaves, added, committed, damage,
                     rows_data, asked>>
      /\ UNCHANGED_queries

-----------------------------------------------------------------------------
(* The verifier. *)

Damages ==
  [kind : {"none", "inner"}, at : {0}] \cup [kind : {"altered"}, at : DOMAIN sent]

Received(k) ==
  IF damage'.kind = "altered" /\ damage'.at = k THEN Garbage ELSE sent[k].value

\* The verifier computes the cells of its integrity queries, right or wrong.
Computations ==
  LET right == [cell \in integrity_queries |-> cell] IN
  {right} \cup {[right EXCEPT ![cell] = WrongCell] : cell \in integrity_queries}

\* ReadCommitment; Query; and the caller adds what it computed.
Query ==
  LET cells == ElementsToBeTransmitted(AllQueryRows(data_queries, integrity_queries),
                                       integrity_queries)
      to_receive == CellsInOrder(cells)
  IN  /\ stage = "sent"
      /\ damage' \in Damages
      /\ asked' = to_receive
      /\ \E computed \in Computations :
           rows_data' = [cell \in integrity_queries \cup cells |->
                            IF cell \in integrity_queries THEN computed[cell]
                            ELSE Received(CHOOSE k \in DOMAIN to_receive : to_receive[k] = cell)]
      /\ stage' = "queried"
      /\ UNCHANGED <<table, n_elements_in_package, leaves, added, committed, sent>>
      /\ UNCHANGED_queries

\* TableVerifierImpl::VerifyDecommitment up to VerifyIntegrity: rows as elements.
IntegrityMap ==
  [row \in AllQueryRows(data_queries, integrity_queries) |->
     [col \in 1 .. n_columns |-> rows_data[Cell(row, col - 1)]]]

\* The elements, and what the packaging scheme receives to complete their packages.
WithMissing(elements, missing) ==
  LET number(e) == Len(asked) + Cardinality({m \in missing : m <= e}) IN
  [e \in DOMAIN elements \cup missing |->
     IF e \in DOMAIN elements THEN elements[e]
     ELSE IF damage.kind = "altered" /\ damage.at = number(e) THEN Garbage
     ELSE sent[number(e)].value]

\* The inner scheme's answer, as far as VectorCommitment promises it.
InnerAnswers(hashes) ==
  LET agree == \A p \in DOMAIN hashes : hashes[p] = leaves[p]
  IN  IF damage.kind = "inner" THEN {FALSE, agree} ELSE {agree}

\* TableVerifierImpl::VerifyDecommitment and PackagingCommitmentSchemeVerifier
\* ::VerifyIntegrity.
VerifyDecommitment ==
  LET elements == IntegrityMap
      missing == ElementsRequiredToComputeHashes(DOMAIN elements)
      in_order == InOrder(missing)
  IN  /\ stage = "queried"
      /\ asked' = asked \o [k \in DOMAIN in_order |-> <<in_order[k]>>]
      /\ \E answer \in InnerAnswers(PackAndHashMap(WithMissing(elements, missing))) :
           stage' = IF answer THEN "accepted" ELSE "rejected"
      /\ UNCHANGED <<table, n_elements_in_package, leaves, added, committed, sent, damage,
                     rows_data>>
      /\ UNCHANGED_queries

Ended ==
  stage \in {"accepted", "rejected", "segment smaller than a package",
             "transmits another cell"}

Next ==
  \/ \E s \in Segments : AddSegment(s)
  \/ Commit
  \/ StartDecommitmentPhase
  \/ Decommit \/ Query \/ VerifyDecommitment
  \/ (Ended /\ UNCHANGED vars)

Spec == Init /\ [][Next]_vars
-----------------------------------------------------------------------------
\* Cells of a message: one, or those of a row sent to complete a package.
CellsOf(place) == IF Len(place) = 1 THEN {place[1]} \X Columns ELSE {place}

TypeOK ==
  /\ table \in Tables
  /\ DOMAIN leaves = Packages
  /\ n_elements_in_package \in 1 .. table.n_rows
  /\ added \subseteq Segments
  /\ data_queries \subseteq Cells /\ integrity_queries \subseteq Cells
  /\ all_query_rows \subseteq Rows
  /\ missing_element_queries \in Seq(Rows)
  /\ rows_to_request \in Seq(Rows)
  /\ \A k \in DOMAIN sent : CellsOf(sent[k].place) \subseteq Cells

\* Every cell of a package that is opened reaches the verifier exactly once: it is
\* sent alone, or within a row, or the verifier computes it by itself.  The prover's
\* two enumerations of the cells to transmit never disagree.
EachCellOnce ==
  /\ stage # "transmits another cell"
  /\ stage \in {"sent", "queried", "accepted", "rejected"} =>
       LET places == [k \in DOMAIN sent |-> CellsOf(sent[k].place)] IN
       /\ \A i, j \in DOMAIN sent : i # j => places[i] \cap places[j] = {}
       /\ UNION {places[k] : k \in DOMAIN sent} =
            (GetElementsInPackages({PackageOf(row) : row \in all_query_rows}) \X Columns)
              \ integrity_queries

\* A table as a vector: each cell holds its place.
Committed == IF committed THEN [cell \in Cells |-> cell] ELSE Nothing

Opened ==
  IF stage \in {"accepted", "rejected"}
  THEN [claims |-> rows_data, intact |-> damage.kind = "none", accepted |-> stage = "accepted"]
  ELSE Nothing

\* The table is committed to cell by cell: what the verifier accepts, received or
\* computed, is what was committed, and intact and right data is accepted.
Promise == INSTANCE VectorCommitment WITH
  Vectors <- {[cell \in (0 .. t.n_rows - 1) \X (0 .. t.n_columns - 1) |-> cell] : t \in Tables},
  committed <- Committed, opened <- Opened

ImplementsVectorCommitment == Promise!Spec
=============================================================================
