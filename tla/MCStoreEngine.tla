---------------------------- MODULE MCStoreEngine ----------------------------
EXTENDS StoreEngine, TLC

Symmetry == Permutations(Key) \cup Permutations(Value)

(* Nothing reads acked except AckedIsDurable, so a run that does not check *)
(* that property may identify the states that differ in it only.           *)
WithoutAcked == <<log, synced, memory, scarred>>

=============================================================================
