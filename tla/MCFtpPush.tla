-------------------------------- MODULE MCFtpPush --------------------------------
(* Three recordings over the turn of a year; two are of one minute. *)
EXTENDS FtpPush

MCDate ==
  << [year |-> 1, rest |-> 9], [year |-> 2, rest |-> 1], [year |-> 2, rest |-> 1] >>
MCEpoch == [year |-> 0, rest |-> 0]
MCHour == << "a", "b", "b" >>
=================================================================================
