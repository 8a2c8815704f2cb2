------------------------- MODULE MCTableCommitment -------------------------
EXTENDS TableCommitment

\* Base field elements have 8 bytes and extension field elements 16, so that a
\* package holds 8, 4, 2 or 1 rows of these tables; the last one cannot be added.
Shape(rows, columns, size, segments, interleaved) ==
  [n_rows |-> rows, n_columns |-> columns, cell_size |-> size, n_segments |-> segments,
   interleaved |-> interleaved]

MCTables ==
  {Shape(8, 1, 8, 1, TRUE), Shape(8, 1, 16, 2, FALSE), Shape(4, 2, 8, 1, TRUE),
   Shape(4, 2, 16, 2, FALSE), Shape(4, 2, 16, 1, TRUE), Shape(2, 3, 16, 2, FALSE),
   Shape(4, 1, 8, 2, FALSE)}
=============================================================================
