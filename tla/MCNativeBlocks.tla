--------------------------- MODULE MCNativeBlocks ----------------------------
(* Blocks shorter and longer than a batch, aligned with it and not; sizes  *)
(* for every batch from 1 (also where one iteration exceeds the target) to *)
(* the largest, so that batches of either parity are dispatched.           *)
EXTENDS NativeBlocks

MCBlocks == {1, 2, 3, 4, 5, 8, 11}
MCSizes == {1, 3, 4, 6, 12, 20}
MCBatchSizes == 1 .. MaxBatch
==============================================================================
