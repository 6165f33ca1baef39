------------------------------- MODULE MCReader --------------------------------
EXTENDS SeriesReader, Integers, TLC

CONSTANTS w1, w2, r1

\* Every range of two slots.
MCRanges == {{0}, {1}, {0, 1}}

Symmetry == Permutations(Writers)
=============================================================================
