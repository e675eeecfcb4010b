---------------------------- MODULE VerdictProofs ----------------------------
(***************************************************************************)
(* Lemmas about the verdict arithmetic of Verdict, used by the proofs      *)
(* about a run of the verifier and about a run of the registry.            *)
(***************************************************************************)
EXTENDS Verdict, TLAPS

\* The worst of some statuses is a status, whatever is put in.
LEMMA OverallStatusType == \A statuses : OverallStatus(statuses) \in Status
  BY DEF OverallStatus, Status

\* So is the status of a server's findings, whatever they are.
LEMMA StatusOfType == \A findings : StatusOf(findings) \in Status
  <1>1. \A statuses : OverallStatus(statuses) \in Status
    BY OverallStatusType
  <1>2. "pass" \in Status
    BY DEF Status
  <1> QED
    BY <1>1, <1>2 DEF StatusOf

LEMMA ResultOfType ==
  ASSUME NEW findings \in SUBSET Finding
  PROVE  ResultOf(findings) \in Result
  BY StatusOfType DEF ResultOf, Result, Checks

LEMMA CombineAttemptsType ==
  ASSUME NEW one \in Result, NEW two \in Result
  PROVE  CombineAttempts(one, two) \in Result
  <1> DEFINE severity == RetrySeverity(one, two)
             found == {g \in one.findings : g.severity \in NotClean}
  <1>1. OverallStatus({two.status, severity}) \in Status
    BY OverallStatusType
  <1>2. [severity |-> severity, check |-> "retry"] \in Finding
    BY DEF RetrySeverity, Finding, Severity, Checks
  <1>3. two.findings \cup {[severity |-> severity, check |-> "retry"]} \in SUBSET Finding
    BY <1>2 DEF Result
  <1>4. {f.check : f \in found} \in SUBSET Checks
    BY DEF Result, Finding
  <1> QED
    BY <1>1, <1>3, <1>4 DEF CombineAttempts, Result

\* Two attempts are never a pass; they are a warning only if the second was
\* clean, and after a failure they are a failure or such a warning.
LEMMA CombineAttemptsStatus ==
  ASSUME NEW one \in Result, NEW two \in Result
  PROVE  LET status == CombineAttempts(one, two).status
         IN  /\ status # "pass"
             /\ status \in {"pass", "warn"} => two.status \in {"pass", "warn"}
             /\ one.status = "fail" => status \in {"fail", "warn"}
  <1> DEFINE severity == RetrySeverity(one, two)
  <1>1. two.status \in {"fail", "error", "warn", "pass"}
    BY DEF Result, Status
  <1>2. CombineAttempts(one, two).status = OverallStatus({two.status, severity})
    BY DEF CombineAttempts
  <1>3. severity = IF one.status = "fail" /\ two.status = "error" THEN "fail" ELSE "warn"
    BY DEF RetrySeverity, Blocked
  <1> QED
    BY <1>1, <1>2, <1>3 DEF OverallStatus

\* One finding that fails or is an error is enough.
LEMMA NotCleanStatus ==
  ASSUME NEW findings, NEW f \in findings, f.severity \in NotClean
  PROVE  StatusOf(findings) \in NotClean
  <1> DEFINE severities == {g.severity : g \in findings}
  <1>1. f.severity \in severities
    OBVIOUS
  <1>2. "fail" \in severities \/ "error" \in severities
    BY <1>1 DEF NotClean
  <1>3. OverallStatus(severities) \in NotClean
    BY <1>2 DEF OverallStatus, NotClean
  <1>4. severities \cap {"fail", "error", "warn"} # {}
    BY <1>2
  <1> QED
    BY <1>3, <1>4 DEF StatusOf

\* OverallStatus() is the worst of some statuses: it is one of them, and a
\* pass only of passes.
LEMMA OverallStatusWorst ==
  ASSUME NEW statuses \in SUBSET Status
  PROVE  /\ OverallStatus(statuses) = "fail" <=> "fail" \in statuses
         /\ OverallStatus(statuses) = "pass" => statuses = {"pass"}
         /\ OverallStatus(statuses) = "error" => "error" \in statuses \/ statuses = {}
  BY DEF OverallStatus, Status

\* A failing or inconclusive status has a finding that is to blame.
LEMMA NotCleanFinding ==
  ASSUME NEW findings \in SUBSET Finding, StatusOf(findings) \in NotClean
  PROVE  \E f \in findings : f.severity \in NotClean
  <1> DEFINE severities == {f.severity : f \in findings}
  <1>1. severities \cap {"fail", "error", "warn"} # {} /\ OverallStatus(severities) \in NotClean
    BY DEF StatusOf, NotClean
  <1>2. severities \cap NotClean # {}
    BY <1>1 DEF OverallStatus, NotClean
  <1> QED
    BY <1>2

\* A status that no finding fails.
LEMMA StatusOfFails ==
  ASSUME NEW findings \in SUBSET Finding
  PROVE  StatusOf(findings) = "fail" <=> \E f \in findings : f.severity = "fail"
  <1> DEFINE severities == {f.severity : f \in findings}
  <1>1. "fail" \in severities <=> \E f \in findings : f.severity = "fail"
    OBVIOUS
  <1>2. OverallStatus(severities) = "fail" <=> "fail" \in severities
    BY DEF OverallStatus
  <1>3. "fail" \in severities => severities \cap {"fail", "error", "warn"} # {}
    OBVIOUS
  <1> QED
    BY <1>1, <1>2, <1>3 DEF StatusOf

\* One attempt may be reported as it is.
LEMMA PermittedItself == \A f \in Status : f \in Permitted(f)
  BY DEF Permitted, Status

\* combineAttempts(): a result whose status is the one of its findings, the
\* `retry' finding included, which names what the first attempt found, and
\* which the first attempt permits.
LEMMA CombineAttemptsTrue ==
  ASSUME NEW one \in Result, one.status \in NotClean,
         NEW g \in one.findings, g.severity \in NotClean,
         NEW two \in Result, two.status = StatusOf(two.findings)
  PROVE  LET both == CombineAttempts(one, two)
         IN  /\ both.status = StatusOf(both.findings)
             /\ both.earlier # {}
             /\ both.status \in Permitted(one.status)
  <1> DEFINE both == CombineAttempts(one, two)
             severity == RetrySeverity(one, two)
             retry == [severity |-> severity, check |-> "retry"]
             before == {f.severity : f \in two.findings}
             after == {f.severity : f \in both.findings}
  <1>1. severity = IF one.status = "fail" /\ two.status = "error" THEN "fail" ELSE "warn"
    BY DEF RetrySeverity, Blocked
  <1>2. both.status = OverallStatus({two.status, severity})
    BY DEF CombineAttempts
  <1>3. both.status \in Permitted(one.status)
    <2>1. two.status \in {"fail", "error", "warn", "pass"}
      BY DEF Result, Status
    <2>2. CASE one.status = "fail"
      BY <1>1, <1>2, <2>1, <2>2 DEF OverallStatus, Permitted
    <2>3. CASE one.status = "error"
      BY <1>1, <1>2, <2>1, <2>3 DEF OverallStatus, Permitted
    <2> QED
      BY <2>2, <2>3 DEF NotClean
  <1>4. both.earlier # {}
    <2>1. both.earlier = {f.check : f \in {h \in one.findings : h.severity \in NotClean}}
      BY DEF CombineAttempts
    <2>2. g.check \in both.earlier
      BY <2>1
    <2> QED
      BY <2>2
  <1>5. both.status = StatusOf(both.findings)
    <2>1. after = before \cup {severity}
      <3>1. both.findings = two.findings \cup {retry}
        BY DEF CombineAttempts
      <3>2. retry.severity = severity
        OBVIOUS
      <3> HIDE DEF both, severity, retry
      <3> QED
        BY <3>1, <3>2
    <2>2. before \in SUBSET Severity
      BY DEF Result, Finding
    <2>3. two.status = IF before \cap {"fail", "error", "warn"} = {} THEN "pass"
                       ELSE OverallStatus(before)
      BY DEF StatusOf
    <2>4. severity \in {"fail", "warn"}
      BY <1>1
    <2>5. StatusOf(both.findings) = OverallStatus(after)
      <3>1. after \cap {"fail", "error", "warn"} # {}
        BY <2>1, <2>4
      <3> QED
        BY <3>1 DEF StatusOf
    <2> HIDE DEF both, severity, before, after
    <2>6. OverallStatus(before \cup {severity}) = OverallStatus({two.status, severity})
      BY <2>2, <2>3, <2>4 DEF OverallStatus, Severity
    <2> QED
      BY <1>2, <2>1, <2>5, <2>6
  <1> QED
    BY <1>3, <1>4, <1>5
=============================================================================
