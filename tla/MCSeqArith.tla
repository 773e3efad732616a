----------------------------- MODULE MCSeqArith -----------------------------
(* SeqArithLaws over a 4-bit sequence space in a 6-bit register. *)
EXTENDS SeqArithLaws

\* mutants of the dccp.h operators: see PROJECT.json
=============================================================================
