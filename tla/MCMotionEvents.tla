----------------------------- MODULE MCMotionEvents -----------------------------
(* The messages of the runs of MotionEvents. *)
EXTENDS MotionEvents

MCBodies == {"MOTION_START", "MOTION_STOP", "AI_HUMAN_DETECTION", "SOUND_DETECTION"}
================================================================================
