---------------------------- MODULE MCPostlyRun ----------------------------
(* PostlyRun for TLC.                                                        *)
EXTENDS PostlyRun, TLC

MCSlots == 1 .. MaxRequests
OneRequest == {NoRequest}
CommandOptions ==
  [fail_fast : BOOLEAN, delay : {FALSE}, scripts : {FALSE},
   concurrency : {1, 2}, iterations : {1}]
=============================================================================
