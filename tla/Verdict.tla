------------------------------ MODULE Verdict ------------------------------
(***************************************************************************)
(* The verdict arithmetic of the verifier: how the severities of one       *)
(* server's findings become its status, how statuses become the status of  *)
(* a report, when a server is collected again and how two attempts become  *)
(* one result (lib/appraise.js, lib/verify.js).                            *)
(*                                                                         *)
(* A finding is a severity and the check it is about; a server's result is *)
(* its status, its findings and, when it was collected again, the checks   *)
(* that failed or were inconclusive in the first attempt (the detail of    *)
(* the `retry' finding).                                                   *)
(***************************************************************************)
EXTENDS Naturals

Status   == {"fail", "error", "warn", "pass"}
Severity == {"fail", "error", "warn", "info"}
Checks   == {"transport", "evidence", "source", "build", "other", "retry"}
Finding  == [severity : Severity, check : Checks]
Result   == [status : Status, findings : SUBSET Finding, earlier : SUBSET Checks]

\* Mutant: an inconclusive server hides a failing one.
OverallErrorFirst(statuses) ==
    IF "error" \in statuses \/ statuses = {} THEN "error"
    ELSE CHOOSE s \in statuses : statuses \cap {"fail", "warn"} # {} => s # "pass"

\* overallStatus(): the worst status named; with none, nothing was checked.
OverallStatus(statuses) ==
    IF "fail" \in statuses THEN "fail"
    ELSE IF "error" \in statuses THEN "error"
    ELSE IF "warn" \in statuses THEN "warn"
    ELSE IF "pass" \in statuses THEN "pass"
    ELSE "error"

\* Findings.status(): no finding worse than an information is a pass.
StatusOf(findings) ==
    LET severities == {f.severity : f \in findings}
    IN  IF severities \cap {"fail", "error", "warn"} = {} THEN "pass"
        ELSE OverallStatus(severities)

ResultOf(findings) ==
    [status |-> StatusOf(findings), findings |-> findings, earlier |-> {}]

NotClean == {"fail", "error"}

\* needsRetry()
NeedsRetry(retryOn, result) == retryOn /\ result.status \in NotClean

\* Mutant: a failure followed by an inconclusive attempt only warns.
NeverBlocked(first, second) == FALSE

Blocked(first, second) == first.status = "fail" /\ second.status = "error"

\* The severity of the `retry' finding.
RetrySeverity(first, second) == IF Blocked(first, second) THEN "fail" ELSE "warn"

\* Mutants: the second result as it is; the finding without its status;
\* severities where the checks' names belong.
CombineForgets(first, second) == second
CombineUnranked(first, second) ==
    [second EXCEPT !.findings = @ \cup {[severity |-> RetrySeverity(first, second), check |-> "retry"]},
                   !.earlier  = {f.check : f \in first.findings}]
CombineSeverities(first, second) == [second EXCEPT !.earlier = {f.severity : f \in first.findings}]

\* combineAttempts(): the second result, marked with what the first found.
CombineAttempts(first, second) ==
    LET severity == RetrySeverity(first, second)
    IN  [status   |-> OverallStatus({second.status, severity}),
         findings |-> second.findings \cup {[severity |-> severity, check |-> "retry"]},
         earlier  |-> {f.check : f \in {g \in first.findings : g.severity \in NotClean}}]

\* What two attempts may be reported as, the first having status f: a failure
\* is never dropped, nor traded for an inconclusive result.
Permitted(f) ==
    CASE f = "fail"           -> {"fail", "warn"}
      [] f = "error"          -> {"fail", "error", "warn"}
      [] f \in {"warn", "pass"} -> {f}
============================================================================
