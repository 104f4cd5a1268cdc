----------------------------- MODULE RunReport -----------------------------
(***************************************************************************)
(* What a collection run promises, whatever its mode: the reports come in   *)
(* the order of the work, nothing is reported twice, and the run ends only   *)
(* when all the work is reported, when fail-fast is on and something failed, *)
(* or when somebody asked to cancel.                                         *)
(***************************************************************************)
EXTENDS Naturals, Sequences

VARIABLES
  job,               \* what to run: [iterations, length, fail_fast]
  cancelRequested,
  report,            \* sequence of [iteration, index, passed]
  verdict            \* "running", "finished", "failed" or "cancelled"

reportVars == <<job, cancelRequested, report, verdict>>

Before(a, b) == \/ a.iteration < b.iteration
                \/ a.iteration = b.iteration /\ a.index < b.index

Work == [iteration : 1 .. job.iterations, index : 1 .. job.length, passed : BOOLEAN]

AllReported(rep) ==
  \A i \in 1 .. job.iterations, k \in 1 .. job.length :
    \E r \in DOMAIN rep : rep[r].iteration = i /\ rep[r].index = k

Init ==
  /\ job \in [iterations : Nat, length : Nat, fail_fast : BOOLEAN]
  /\ cancelRequested = FALSE
  /\ report = <<>>
  /\ verdict = "running"

RequestCancel ==
  /\ ~cancelRequested
  /\ cancelRequested' = TRUE
  /\ UNCHANGED <<job, report, verdict>>

Publish ==
  /\ verdict = "running"
  /\ \E w \in Work :
       /\ \A r \in DOMAIN report : Before(report[r], w)
       /\ report' = Append(report, w)
  /\ UNCHANGED <<job, cancelRequested>>

Conclude ==
  /\ verdict = "running"
  /\ verdict' \in {"finished", "failed", "cancelled"}
  /\ verdict' = "finished" => AllReported(report')
  /\ verdict' = "failed" => job.fail_fast /\ \E r \in DOMAIN report' : ~report'[r].passed
  /\ verdict' = "cancelled" => cancelRequested
  /\ UNCHANGED <<job, cancelRequested>>

(* The last report and the verdict may come in one step.                     *)
Next ==
  \/ RequestCancel
  \/ Publish /\ UNCHANGED verdict
  \/ Conclude /\ UNCHANGED report
  \/ Publish /\ Conclude

Spec == Init /\ [][Next]_reportVars
=============================================================================
