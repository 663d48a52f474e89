----------------------------- MODULE MCH264Grabber -----------------------------
(* The start of the search for video; a cfg cannot hold a negative number. *)
EXTENDS H264Grabber

VideoLowest == -1
================================================================================
