--------------------------- MODULE MCExactArchive ---------------------------
\* ExactArchive with model values for its requests and revisions.
EXTENDS ExactArchive
CONSTANTS p1, p2, v1, v2
=============================================================================
