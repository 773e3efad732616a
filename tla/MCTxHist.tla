------------------------------ MODULE MCTxHist ------------------------------
(* TxHist for TLC: a slab of three entries and a sequence space of eight   *)
(* numbers that starts two below the wrap, so that the chain fills the     *)
(* slab and the numbers wrap.  The slab addresses are interchangeable.     *)
EXTENDS TxHist, TLC

PtrSymmetry == Permutations(Ptrs)
=============================================================================
