------------------------------- MODULE MCChunkFiles -------------------------------
EXTENDS ChunkFiles, TLC

CONSTANTS c1, c2, c3, lz4, zstd

Symmetry == Permutations(Clients) \cup Permutations(Codecs)
===================================================================================
