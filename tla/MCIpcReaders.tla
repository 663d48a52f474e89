------------------------------ MODULE MCIpcReaders ------------------------------
(* Two forwarding queues of depth two; a payload that fits into a command line   *)
(* and one that does not; one reader of each program.                             *)
EXTENDS IpcReaders

CONSTANTS short, long, print, notify
MCBodies == {short, long}
MCReaders == {print, notify}
MCNotifiers == {notify}
MCBytes == [b \in MCBodies |-> IF b = short THEN 1 ELSE 2]
================================================================================
