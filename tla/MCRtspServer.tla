------------------------------ MODULE MCRtspServer ------------------------------
(* A syncword, and one part of the data that passes for it. *)
EXTENDS RtspServer

MCLooksLikeSync == {1, 3}
================================================================================
