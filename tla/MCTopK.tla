-------------------------------- MODULE MCTopK --------------------------------
\* VecQuery with the tables and the queries of MCVec.
EXTENDS MCVec

CONSTANTS ChunkSize, ViewLength, IntRange, MaxK
VARIABLES chunks, query, pc, at, rows, current, answer

INSTANCE VecQuery WITH Inputs <- QueryInputs
=============================================================================
