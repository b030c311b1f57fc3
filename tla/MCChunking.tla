----------------------------- MODULE MCChunking -----------------------------
(* All texts of up to seven characters for TLC, long enough for a chunk of *)
(* five or six to be cut before its end, and for several chunks of less.   *)
EXTENDS Chunking

CONSTANT MaxLen

ShortTexts == UNION {[1..n -> Char] : n \in 0..MaxLen}
=============================================================================
