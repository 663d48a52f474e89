------------------------------- MODULE MCIpc2File -------------------------------
(* The messages of the run of Ipc2File: one for each kind of event. *)
EXTENDS Ipc2File

MCWires == {"MOTION_START", "AI_BODY_DETECTION_C", "MOTION_STOP", "SOUND_DETECTION"}
================================================================================
