---------------------------- MODULE MCMmapManager ----------------------------
(***************************************************************************)
(* MmapManager on a range of three pages of two bytes: offsets 1, 3 and 5  *)
(* are unaligned, a buffer of size 3 in the last page reaches past the     *)
(* range, and with two guest addresses the mapper can run out of them.     *)
(***************************************************************************)
EXTENDS MmapManager

\* States that differ only in what the last call returned count as one: no
\* action reads ret.
WithoutRet == <<buffers, host, owed, panicked>>
=============================================================================
