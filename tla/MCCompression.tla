--------------------------- MODULE MCCompression ---------------------------
(* A small instance of Compression for TLC: every CompressType, blocks of   *)
(* four units, and messages smaller and larger than a block.                *)
EXTENDS Compression, TLC

MCCompressTypes == Types
MCSizes == {1, 3, 6}
=============================================================================
