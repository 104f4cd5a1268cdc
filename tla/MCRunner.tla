------------------------------ MODULE MCRunner ------------------------------
(* Runner for TLC.                                                           *)
EXTENDS Runner, TLC

CONSTANTS MaxIterations, MaxConcurrency

MCSlots == 1 .. MaxRequests

(* With scripts: requests that have both scripts, or none.                   *)
ScriptedRequest == {[pre |-> b, test |-> b, assertions |-> 0] : b \in BOOLEAN}
ScriptedOptions ==
  [fail_fast : BOOLEAN, delay : {FALSE}, scripts : {TRUE},
   concurrency : {1}, iterations : {0, MaxIterations}]

(* Without scripts: one after the other, with a delay, or in batches.        *)
PlainRequest == {[pre |-> FALSE, test |-> FALSE, assertions |-> 1]}
PlainOptions ==
  [fail_fast : BOOLEAN, delay : {FALSE}, scripts : {FALSE},
   concurrency : 1 .. MaxConcurrency, iterations : {MaxIterations}]
    \cup [fail_fast : BOOLEAN, delay : {TRUE}, scripts : {FALSE},
          concurrency : {MaxConcurrency}, iterations : {MaxIterations}]
=============================================================================
