------------------------------ MODULE MCImgGrabber ------------------------------
(* The instance for TLC: the constants are given in the configurations. *)
EXTENDS ImgGrabber
=================================================================================
