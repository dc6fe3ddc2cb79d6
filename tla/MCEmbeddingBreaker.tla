------------------------- MODULE MCEmbeddingBreaker -------------------------
(***************************************************************************)
(* Model-checking instance of EmbeddingBreaker.  Three threads: one to     *)
(* probe, one whose call began before the circuit opened, and one to be    *)
(* refused.                                                                *)
(***************************************************************************)
EXTENDS EmbeddingBreaker
=============================================================================
