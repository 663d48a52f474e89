------------------------------ MODULE MCMqttConfig ------------------------------
(* A file of three lines, one of them without a value, as system.conf has. *)
EXTENDS MqttConfig

MCKeys == {"HTTPD", "FREE_SPACE", "USERNAME"}
MCFile == [HTTPD |-> "yes", FREE_SPACE |-> "10", USERNAME |-> ""]
MCNumber == [n \in {"10", "200"} |-> IF n = "10" THEN 10 ELSE 200]
MCSettings == {
  <<"system", "HTTPD", "no">>, <<"system", "USERNAME", "me">>,
  <<"system", "FREE_SPACE", "200">>, <<"system", "NTP_SERVER", "pool">>,
  <<"camera", "LED", "on">>, <<"system", "", "">> }
MCEdits == { <<"FREE_SPACE", "20">>, <<"USERNAME", "admin">> }
================================================================================
