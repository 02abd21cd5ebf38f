------------------------ MODULE MCVerifiedDecoding --------------------------
(* An instance of VerifiedDecoding. *)
EXTENDS VerifiedDecoding

=============================================================================
