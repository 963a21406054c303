--------------------------- MODULE MCSolanaSubmit ---------------------------
(* Model-checking instances of SolanaSubmit.                                *)
EXTENDS SolanaSubmit
=============================================================================
