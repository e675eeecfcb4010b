------------------------------ MODULE Reports ------------------------------
(***************************************************************************)
(* What is published of a report and what a relying party checks           *)
(* (lib/report.js, lib/report-attestation.js): a run writes report.json    *)
(* and badge.json together and signs them; the branch that holds them can  *)
(* be changed by anyone who may push, and `verify-report' reads what is    *)
(* there.                                                                  *)
(***************************************************************************)
EXTENDS ServerAppraisal, FiniteSets

---------------------------------------------------------------------------
(* The badge *)

ServerResults == [status : {"pass", "warn", "fail", "error"},
                  level : {"software", "tpm", "tpm+ima", "sev-snp"}]
Passing(servers) == {i \in DOMAIN servers : servers[i].status \in {"pass", "warn"}}

\* The report's status is the worst of its servers (Verdict).
Verdicts == INSTANCE Verdict
Overall(servers) == Verdicts!OverallStatus({servers[i].status : i \in DOMAIN servers})

\* Mutant: the best-backed server names the level.
StrongestLevel(servers) ==
    LET levels == {servers[i].level : i \in DOMAIN servers} \ {"software"}
    IN  IF levels = {} THEN "software" ELSE IF Cardinality(levels) = 1 THEN CHOOSE l \in levels : TRUE ELSE "hardware"
WeakestLevel(servers) ==
    LET levels == {servers[i].level : i \in DOMAIN servers}
    IN  IF levels = {} \/ "software" \in levels THEN "software"
        ELSE IF Cardinality(levels) = 1 THEN CHOOSE l \in levels : TRUE ELSE "hardware"

\* badge(): a passing badge names its level, any other of several servers how
\* many of them pass.
Badge(status, servers) ==
    [status |-> status,
     passing |-> IF status # "pass" /\ Len(servers) > 1 THEN Cardinality(Passing(servers)) ELSE -1,
     level |-> IF status \in {"pass", "warn"} THEN WeakestLevel(servers) ELSE "none"]

\* summarize(): the line of the registry's index; a project without a report
\* has none.
Summary(status, servers) ==
    [status |-> status, passing |-> Cardinality(Passing(servers)), total |-> Len(servers),
     level |-> IF servers = <<>> THEN "none" ELSE WeakestLevel(servers)]

Results == {<<>>} \cup {<<s>> : s \in ServerResults} \cup {<<s, t>> : s \in ServerResults, t \in ServerResults}

\* A badge and the index's line never claim more than every server's evidence
\* shows, nor that a server passed that did not, and they agree.
BadgeIsEarned(servers) ==
    LET shown == Badge(Overall(servers), servers)
        line  == Summary(Overall(servers), servers)
    IN  /\ \A level \in {shown.level, line.level} \ {"none", "software"} : \A i \in DOMAIN servers :
              servers[i].level # "software" /\ level \in {"hardware", servers[i].level}
        /\ shown.status \in {"pass", "warn"} =>
              Passing(servers) = DOMAIN servers /\ servers # <<>> /\ line.level = shown.level
        /\ shown.passing # -1 =>
              shown.passing = line.passing /\ (shown.status = "warn" \/ shown.passing < line.total)

---------------------------------------------------------------------------
(* The attestation of a report *)

\* Two runs wrote a report and a badge, the first failing and the second
\* passing; `edited' ones nobody but their editor wrote.
Written   == {"first", "second", "edited"}
StatusIn  == [first |-> "fail", second |-> "pass", edited |-> "pass"]

\* A statement: whose identity signed it, in which run and attempt, when, and
\* the files it is about.  A run can sign what an earlier one wrote, and
\* anyone can sign anything as themselves.
Statement(signer, run, attempt, at, about) ==
    [signer |-> signer, run |-> run, attempt |-> attempt, at |-> at, about |-> about]
Statements ==
    {Statement("expected", "first", 1, 1, {"first"}), Statement("expected", "second", 2, 3, {"second"}),
     Statement("expected", "second", 1, 3, {"first"}), Statement("expected", "second", 1, 3, {}),
     Statement("other", "first", 1, 1, Written), Statement("other", "second", 1, 4, Written)}

\* verifyGithubAttestation() of the bundle's statements (parseBundles()): one
\* is the signer's and names report.json.
Attesting(p) == {s \in p.bundle : s.signer = p.signer /\ p.report \in s.about}

\* Mutant: the report itself is signed, whatever is beside it.
ReportCovered(p, statement) == TRUE
\* Each file that is there is a subject of the statement.
AllCovered(p, statement) == {p.markdown, p.badge} \subseteq statement.about \cup {"none"}

\* The run that the report names, if it does; attempts of a run are that run.
NamedRun(p) == IF p.report = "edited" \/ ~p.inRun THEN "none" ELSE p.report

\* verifyReportAttestation()
Verifies(p) ==
    \E statement \in Attesting(p) :
        /\ AllCovered(p, statement)
        /\ p.now - statement.at <= p.maxAge
        /\ NamedRun(p) \in {"none", statement.run}

\* cli verify-report: the status counts only for a verified report.
ExitCode(p) == IF Verifies(p) /\ StatusIn[p.report] \in {"pass", "warn"} THEN 0 ELSE 1

\* What is on a branch, and how a relying party asks.
Published ==
    [report : Written, markdown : Written \cup {"none"}, badge : Written \cup {"none"}, inRun : BOOLEAN,
     bundle : SUBSET Statements, signer : {"expected"}, now : 3 .. 6, maxAge : 1 .. 3]

\* A report that verifies is one that the expected workflow wrote, signed no
\* longer ago than asked, in the run that it names; what is beside it is of
\* that run, and the exit code is 0 only for a run that passed.
VerifiedIsSigned(p) ==
    Verifies(p) =>
        /\ p.report # "edited" /\ {p.markdown, p.badge} \subseteq {p.report, "none"}
        /\ \E statement \in p.bundle :
              /\ statement.signer = "expected" /\ p.report \in statement.about
              /\ p.now <= statement.at + p.maxAge
              /\ p.inRun => statement.run = p.report
        /\ ExitCode(p) = 0 => p.report = "second"
============================================================================
