------------------------------- MODULE MCServices -------------------------------
(* The instance for TLC: sequences, which a configuration cannot hold. *)
EXTENDS Services

OneStream == <<"high">>
Sound == <<"audio">>
================================================================================
