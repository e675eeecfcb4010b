--------------------------- MODULE DecisionsProofs ---------------------------
(***************************************************************************)
(* Proofs about the decisions on one input.  What the run of Decisions     *)
(* checks on small inputs is proved of every input of the same form first: *)
(* any number of servers, services, files, measurements, lines and pods.   *)
(* The invariants of Decisions follow.                                     *)
(***************************************************************************)
EXTENDS Decisions, FiniteSetTheorems, TLAPS

-----------------------------------------------------------------------------
(* The inductive invariant                                                 *)

\* What is decided about is one of the inputs of its kind.
Subjects ==
    /\ setting \in Settings
    /\ subject = "file" => input \in Files \cup SystemFiles
    /\ subject = "monitored" => input \in Monitored
    /\ subject = "release" => input \in Releases
    /\ subject = "process" => input \in Processes
    /\ subject = "container" => input \in Containers
    /\ subject = "hardware" => input \in HardwareEvidence
    /\ subject = "attester" => input \in Attesters
    /\ subject = "partial" => input \in Partial
    /\ subject = "global" => input \in GlobalPackages
    /\ subject = "servers" => input \in ServerLists
    /\ subject = "services" => input \in VerifierServices
    /\ subject = "loading" => input \in Loading
    /\ subject = "attesterFile" => input \in AttesterFiles
    /\ subject = "project" => input \in ProjectFiles
    /\ subject = "enrollment" => input \in Enrollments
    /\ subject = "host" => input \in Hosts
    /\ subject = "verifier" => input \in Verifiers
    /\ subject = "checkout" => input \in Checkouts
    /\ subject = "pod" => input \in Clusters
    /\ subject = "results" => input \in Results
    /\ subject = "published" => input \in Published

\* Every step decides on an input of the kind that it names.
THEOREM InputsAreKnown == Spec => []Subjects
  <1>1. Init => Subjects
    BY DEF Init, Subjects
  <1>2. Subjects /\ [Next]_vars => Subjects'
    <2> SUFFICES ASSUME Subjects, [Next]_vars
                 PROVE  Subjects'
      OBVIOUS
    <2>1. CASE AppraiseFile \/ AppraiseSystem
      BY <2>1 DEF AppraiseFile, AppraiseSystem, Decide, Subjects
    <2>2. CASE AppraiseMonitored \/ AppraiseRelease
      BY <2>2 DEF AppraiseMonitored, AppraiseRelease, Decide, Subjects
    <2>3. CASE AppraiseProcess \/ AppraiseContainer
      BY <2>3 DEF AppraiseProcess, AppraiseContainer, Decide, Subjects
    <2>4. CASE AppraiseHardware \/ AppraiseAttester
      BY <2>4 DEF AppraiseHardware, AppraiseAttester, Decide, Subjects
    <2>5. CASE AppraisePartial \/ AppraiseGlobal
      BY <2>5 DEF AppraisePartial, AppraiseGlobal, Decide, Subjects
    <2>6. CASE LoadServers \/ LoadServices
      BY <2>6 DEF LoadServers, LoadServices, Decide, Subjects
    <2>7. CASE LoadAttester
      BY <2>7 DEF LoadAttester, Decide, Subjects
    <2>8. CASE WriteHostKeys \/ WriteTpmKeys
      BY <2>8 DEF WriteHostKeys, WriteTpmKeys, Decide, Subjects
    <2>9. CASE AskDoctor
      BY <2>9 DEF AskDoctor, Decide, Subjects
    <2>10. CASE ReadCommit \/ FindAttesterPod
      BY <2>10 DEF ReadCommit, FindAttesterPod, Decide, Subjects
    <2>11. CASE ShowBadge \/ VerifyReport
      BY <2>11 DEF ShowBadge, VerifyReport, Decide, Subjects
    <2>12. CASE UNCHANGED vars
      BY <2>12 DEF vars, Subjects
    <2> QED
      BY <2>1, <2>2, <2>3, <2>4, <2>5, <2>6, <2>7, <2>8, <2>9, <2>10, <2>11, <2>12 DEF Next
  <1> QED
    BY <1>1, <1>2, PTL DEF Spec

-----------------------------------------------------------------------------
(* Findings                                                                *)

\* A finding has its severity.
LEMMA FoundSeverity ==
  ASSUME NEW F, NEW severity, NEW check, <<severity, check>> \in F
  PROVE  severity \in Severities(F)
  BY DEF Severities

\* More findings have more severities.
LEMMA MoreSeverities ==
  ASSUME NEW A, NEW B, A \subseteq B
  PROVE  Severities(A) \subseteq Severities(B)
  BY DEF Severities

\* The sequences of one or two that the run looks at.
UpToTwo(A, B) == {<<>>} \cup {<<s>> : s \in A} \cup {<<s, t>> : s \in A, t \in B}

LEMMA OneOrTwo ==
  ASSUME NEW A, NEW B, NEW x \in UpToTwo(A, B)
  PROVE  x \in Seq(A \cup B)
  <1> DEFINE One == {<<s>> : s \in A}
             Two == {<<s, t>> : s \in A, t \in B}
             U == A \cup B
  <1>1. CASE x = <<>>
    BY <1>1
  <1>2. CASE x \in One
    <2>1. PICK s \in A : x = <<s>>
      BY <1>2
    <2>2. s \in U
      OBVIOUS
    <2> HIDE DEF U
    <2>3. x \in Seq(U)
      BY <2>1, <2>2
    <2> QED
      BY <2>3 DEF U
  <1>3. CASE x \in Two
    <2>1. PICK s \in A, t \in B : x = <<s, t>>
      BY <1>3
    <2>2. s \in U /\ t \in U
      OBVIOUS
    <2> HIDE DEF U
    <2>3. x \in Seq(U)
      BY <2>1, <2>2
    <2> QED
      BY <2>3 DEF U
  <1> HIDE DEF One, Two
  <1>4. x \in {<<>>} \cup One \cup Two
    BY DEF One, Two, UpToTwo
  <1> QED
    BY <1>1, <1>2, <1>3, <1>4

-----------------------------------------------------------------------------
(* Badges                                                                  *)

LEMMA ServerResultFields ==
  ASSUME NEW servers \in Seq(ServerResults), NEW i \in DOMAIN servers
  PROVE  /\ servers[i].status \in {"pass", "warn", "fail", "error"}
         /\ servers[i].level \in {"software", "tpm", "tpm+ima", "sev-snp"}
  <1>1. servers[i] \in ServerResults
    OBVIOUS
  <1> QED
    BY <1>1 DEF ServerResults

\* The levels of a report's servers are finitely many.
LEMMA LevelsFinite ==
  ASSUME NEW servers \in Seq(ServerResults)
  PROVE  IsFiniteSet({servers[i].level : i \in DOMAIN servers})
  <1> DEFINE levels == {servers[i].level : i \in DOMAIN servers}
             all == {"software"} \cup {"tpm"} \cup {"tpm+ima"} \cup {"sev-snp"}
  <1>1. IsFiniteSet({"software"})
    BY FS_Singleton
  <1>2. IsFiniteSet({"software"} \cup {"tpm"})
    BY <1>1, FS_AddElement
  <1>3. IsFiniteSet({"software"} \cup {"tpm"} \cup {"tpm+ima"})
    BY <1>2, FS_AddElement
  <1>4. IsFiniteSet(all)
    BY <1>3, FS_AddElement
  <1>5. levels \in SUBSET all
    BY ServerResultFields
  <1> QED
    BY <1>4, <1>5, FS_Subset

\* The weakest level is a level of every server, or stands for several, or is
\* that of a server that nothing vouches for.
LEMMA WeakestIsShared ==
  ASSUME NEW servers \in Seq(ServerResults), NEW i \in DOMAIN servers,
         WeakestLevel(servers) # "software"
  PROVE  servers[i].level # "software" /\ WeakestLevel(servers) \in {"hardware", servers[i].level}
  <1> DEFINE levels == {servers[j].level : j \in DOMAIN servers}
  <1>1. servers[i].level \in levels
    OBVIOUS
  <1>2. "software" \notin levels /\ levels # {}
    BY DEF WeakestLevel
  <1>3. CASE Cardinality(levels) = 1
    <2>1. PICK l : levels = {l}
      BY <1>3, LevelsFinite, FS_Singleton
    <2>2. (CHOOSE m \in levels : TRUE) = servers[i].level
      BY <2>1, <1>1
    <2> QED
      BY <2>2, <1>1, <1>2, <1>3 DEF WeakestLevel
  <1>4. CASE Cardinality(levels) # 1
    BY <1>1, <1>2, <1>4 DEF WeakestLevel
  <1> QED
    BY <1>3, <1>4

\* Every server of a report that passes or warns does so.
LEMMA AllPass ==
  ASSUME NEW servers \in Seq(ServerResults), Overall(servers) \in {"pass", "warn"}
  PROVE  servers # <<>> /\ Passing(servers) = DOMAIN servers
  <1> DEFINE statuses == {servers[i].status : i \in DOMAIN servers}
  <1>1. statuses # {} /\ "fail" \notin statuses /\ "error" \notin statuses
    BY DEF Overall, Verdicts!OverallStatus
  <1>2. \A i \in DOMAIN servers : servers[i].status \in {"pass", "warn"}
    BY <1>1, ServerResultFields
  <1>3. servers # <<>>
    BY <1>1
  <1> QED
    BY <1>2, <1>3 DEF Passing

\* When a report of several servers neither passes nor warns, fewer pass.
LEMMA FewerPass ==
  ASSUME NEW servers \in Seq(ServerResults), Overall(servers) \notin {"pass", "warn"}, Len(servers) > 1
  PROVE  Cardinality(Passing(servers)) < Len(servers)
  <1> DEFINE statuses == {servers[i].status : i \in DOMAIN servers}
             n == Len(servers)
  <1>1. n \in Nat /\ DOMAIN servers = 1..n /\ servers[1].status \in statuses
    OBVIOUS
  <1>2. "fail" \in statuses \/ "error" \in statuses
    <2>1. statuses \subseteq {"pass", "warn", "fail", "error"}
      BY ServerResultFields
    <2> QED
      BY <1>1, <2>1 DEF Overall, Verdicts!OverallStatus
  <1>3. Passing(servers) \in SUBSET (1..n) /\ Passing(servers) # 1..n
    BY <1>1, <1>2 DEF Passing
  <1>4. IsFiniteSet(1..n) /\ Cardinality(1..n) = n
    BY <1>1, FS_Interval
  <1>5. /\ IsFiniteSet(Passing(servers)) /\ Cardinality(Passing(servers)) <= Cardinality(1..n)
        /\ Cardinality(1..n) # Cardinality(Passing(servers))
    BY <1>3, <1>4, FS_Subset
  <1> QED
    BY <1>1, <1>4, <1>5, FS_CardinalityType

\* A badge and the index's line claim no more than every server's evidence
\* shows, whatever the number of servers (report.js:93-142, registry.js:640-661).
THEOREM BadgesAreEarned ==
  ASSUME NEW servers \in Seq(ServerResults)
  PROVE  BadgeIsEarned(servers)
  <1> DEFINE status == Overall(servers)
             shown == Badge(status, servers)
             line == Summary(status, servers)
             weakest == WeakestLevel(servers)
  <1>1. /\ shown.level = IF status \in {"pass", "warn"} THEN weakest ELSE "none"
        /\ line.level = IF servers = <<>> THEN "none" ELSE weakest
        /\ shown.status = status /\ line.total = Len(servers) /\ line.passing = Cardinality(Passing(servers))
        /\ shown.passing = IF status # "pass" /\ Len(servers) > 1 THEN Cardinality(Passing(servers)) ELSE -1
    BY DEF Badge, Summary
  <1>2. ASSUME NEW level \in {shown.level, line.level} \ {"none", "software"}, NEW i \in DOMAIN servers
        PROVE  servers[i].level # "software" /\ level \in {"hardware", servers[i].level}
    <2>1. level = weakest
      BY <1>1
    <2> QED
      BY <2>1, WeakestIsShared
  <1>3. ASSUME status \in {"pass", "warn"}
        PROVE  Passing(servers) = DOMAIN servers /\ servers # <<>> /\ line.level = shown.level
    BY <1>1, <1>3, AllPass
  <1>4. ASSUME shown.passing # -1
        PROVE  shown.passing = line.passing /\ (status = "warn" \/ shown.passing < line.total)
    <2>1. CASE status = "warn"
      BY <1>1, <1>4, <2>1
    <2>2. CASE status # "warn"
      BY <1>1, <1>4, <2>2, FewerPass
    <2> QED
      BY <2>1, <2>2
  <1> QED
    BY <1>1, <1>2, <1>3, <1>4 DEF BadgeIsEarned


-----------------------------------------------------------------------------
(* Attested reports                                                        *)

\* What the program's workflow signs: statements about the files of one run,
\* or of none, never about edited ones.
SignedByWorkflow(statements) ==
    \A s \in statements : /\ s.at \in Int
                          /\ s.signer = "expected" => \E wrote \in Written \ {"edited"} : s.about \subseteq {wrote}

\* What the bundles on a branch may be, however many statements they have.
OnBranch(p) ==
    /\ p.report \in Written /\ p.signer = "expected" /\ p.now \in Int /\ p.maxAge \in Int
    /\ SignedByWorkflow(p.bundle)

\* A report that verifies was written and signed by the expected workflow, no
\* longer ago than asked, in the run that it names, and what is beside it is of
\* that run: for any bundle, times and ages (report-attestation.js:44-99).
THEOREM VerifiedReportsAreSigned ==
  ASSUME NEW p, OnBranch(p)
  PROVE  VerifiedIsSigned(p)
  <1> SUFFICES ASSUME Verifies(p)
               PROVE  /\ p.report # "edited" /\ {p.markdown, p.badge} \subseteq {p.report, "none"}
                      /\ \E statement \in p.bundle :
                            /\ statement.signer = "expected" /\ p.report \in statement.about
                            /\ p.now <= statement.at + p.maxAge
                            /\ p.inRun => statement.run = p.report
                      /\ ExitCode(p) = 0 => p.report = "second"
    BY DEF VerifiedIsSigned
  <1>1. PICK statement \in Attesting(p) :
          /\ AllCovered(p, statement)
          /\ p.now - statement.at <= p.maxAge
          /\ NamedRun(p) \in {"none", statement.run}
    BY DEF Verifies
  <1>2. /\ statement \in p.bundle /\ statement.signer = "expected" /\ p.report \in statement.about
        /\ statement.at \in Int
    BY DEF Attesting, OnBranch, SignedByWorkflow
  <1>3. PICK wrote \in Written \ {"edited"} : statement.about \subseteq {wrote}
    BY <1>2 DEF OnBranch, SignedByWorkflow
  <1>4. p.report = wrote /\ p.report # "edited"
    BY <1>2, <1>3
  <1>5. {p.markdown, p.badge} \subseteq {p.report, "none"}
    BY <1>1, <1>3, <1>4 DEF AllCovered
  <1>6. p.now <= statement.at + p.maxAge
    BY <1>1, <1>2 DEF OnBranch
  <1>7. p.inRun => statement.run = p.report
    <2>1. p.inRun => NamedRun(p) = p.report
      BY <1>4 DEF NamedRun
    <2>2. p.report # "none"
      BY DEF OnBranch, Written
    <2> QED
      BY <1>1, <2>1, <2>2
  <1>8. ExitCode(p) = 0 => p.report = "second"
    <2>1. p.report = "first" => StatusIn[p.report] = "fail"
      BY DEF StatusIn
    <2>2. p.report = "first" => ExitCode(p) = 1
      BY <2>1 DEF ExitCode
    <2> QED
      BY <1>4, <2>2 DEF Written
  <1> QED
    BY <1>2, <1>4, <1>5, <1>6, <1>7, <1>8


\* What the public reads is backed: badges by every server, accepted reports by
\* the workflow's signature (report.js:93-142, report-attestation.js:44-99).
THEOREM PublicBacked == Spec => []PublicIsBacked
  <1>1. Subjects => PublicIsBacked
    <2>1. Results \subseteq Seq(ServerResults)
      <3>1. \A x \in Results : x \in UpToTwo(ServerResults, ServerResults)
        BY DEF Results, UpToTwo
      <3>2. ServerResults \cup ServerResults = ServerResults
        OBVIOUS
      <3> QED
        BY <3>1, <3>2, OneOrTwo
    <2>2. ASSUME NEW p \in Published
          PROVE  OnBranch(p)
      <3>1. /\ p.report \in Written /\ p.signer = "expected" /\ p.now \in Int /\ p.maxAge \in Int
            /\ p.bundle \subseteq Statements
        BY DEF Published
      <3>2. ASSUME NEW s \in Statements
            PROVE  /\ s.at \in Int
                   /\ s.signer = "expected" => \E wrote \in Written \ {"edited"} : s.about \subseteq {wrote}
        BY DEF Statements, Statement, Written
      <3> QED
        BY <3>1, <3>2 DEF OnBranch, SignedByWorkflow
    <2> QED
      BY <2>1, <2>2, BadgesAreEarned, VerifiedReportsAreSigned DEF Subjects, PublicIsBacked
  <1> QED
    BY <1>1, InputsAreKnown, PTL

-----------------------------------------------------------------------------
(* Hardware                                                                *)

\* The hardware's evidence and what is asked of it.
HardwareRecord(h) ==
    /\ h.pinned \in BOOLEAN /\ h.pcr10 \in BOOLEAN /\ h.imaRequired \in BOOLEAN
    /\ h.tpmRequired \in BOOLEAN /\ h.cvmRequired \in BOOLEAN
    /\ h.ima \in {"none", "error", "edited", "backed"}
    /\ h.report \in {"none", "keyDown", "keyLost", "invalid", "otherMachine", "valid"}
    /\ h.expected \in {"none", "optional", "anyMeasurement", "required"}

LEMMA ImaResult ==
  ASSUME NEW h, HardwareRecord(h)
  PROVE  /\ Ima(h).hardware = {x \in {"ima"} : h.ima = "backed" /\ h.pcr10}
         /\ h.ima = "edited" /\ h.pcr10 => "fail" \in Severities(Ima(h).findings)
  <1>1. Ima(h).hardware = {x \in {"ima"} : h.ima = "backed" /\ h.pcr10}
    BY DEF Ima, Result, Nothing, HardwareRecord
  <1>2. ASSUME h.ima = "edited", h.pcr10
        PROVE  "fail" \in Severities(Ima(h).findings)
    <2>1. <<"fail", "ima">> \in Ima(h).findings
      BY <1>2 DEF Ima, Result, HardwareRecord
    <2> QED
      BY <2>1, FoundSeverity
  <1> QED
    BY <1>1, <1>2

\* A TPM vouches for the evidence by a quote of the pinned key only, and a
\* pinned key that did not sign it is a failure.
LEMMA TpmVouches ==
  ASSUME NEW h, HardwareRecord(h)
  PROVE  /\ "tpm" \in TpmResult(h).hardware <=> h.pinned /\ h.quote = "valid"
         /\ "ima" \in TpmResult(h).hardware <=> h.pinned /\ h.quote = "valid" /\ h.ima = "backed" /\ h.pcr10
         /\ "cvm" \notin TpmResult(h).hardware
         /\ h.pinned /\ h.quote # "valid" => "fail" \in Severities(TpmResult(h).findings)
  <1>1. CASE h.pinned /\ h.quote = "valid"
    <2>1. TpmResult(h).hardware = {"tpm"} \cup Ima(h).hardware
      BY <1>1 DEF TpmResult, Both, Result
    <2> QED
      BY <1>1, <2>1, ImaResult
  <1>2. CASE h.pinned /\ h.quote # "valid"
    <2>1. TpmResult(h).hardware = {} /\ <<"fail", "tpm">> \in TpmResult(h).findings
      BY <1>2 DEF TpmResult, Result
    <2> QED
      BY <1>2, <2>1, FoundSeverity
  <1>3. CASE ~h.pinned
    <2>1. TpmResult(h).hardware = {}
      BY <1>3 DEF TpmResult, Result
    <2> QED
      BY <1>3, <2>1
  <1> QED
    BY <1>1, <1>2, <1>3 DEF HardwareRecord

\* A confidential VM vouches for the evidence by a valid report only, and one
\* that is required is there or keeps the server from passing.
LEMMA ConfidentialVouches ==
  ASSUME NEW h, HardwareRecord(h)
  PROVE  /\ Confidential(h).hardware = {x \in {"cvm"} : h.report = "valid" /\ h.expected # "none"}
         /\ h.expected = "required" /\ h.report # "valid"
              => Severities(Confidential(h).findings) \cap {"fail", "error"} # {}
  <1>1. Confidential(h).hardware = {x \in {"cvm"} : h.report = "valid" /\ h.expected # "none"}
    BY DEF Confidential, Result
  <1>2. ASSUME h.expected = "required", h.report # "valid"
        PROVE  Severities(Confidential(h).findings) \cap {"fail", "error"} # {}
    <2>1. \/ <<"fail", "confidential">> \in Confidential(h).findings
          \/ <<"error", "confidential">> \in Confidential(h).findings
      BY <1>2 DEF Confidential, Result, When
    <2> QED
      BY <2>1, FoundSeverity
  <1> QED
    BY <1>1, <1>2

\* What the parts find and vouch for is found and vouched for by the whole.
LEMMA HardwareIs ==
  ASSUME NEW h, HardwareRecord(h)
  PROVE  /\ "tpm" \in Hardware(h).hardware <=> h.pinned /\ h.quote = "valid"
         /\ "ima" \in Hardware(h).hardware <=> h.pinned /\ h.quote = "valid" /\ h.ima = "backed" /\ h.pcr10
         /\ "cvm" \in Hardware(h).hardware <=> h.report = "valid" /\ h.expected # "none"
         /\ h.pinned /\ h.quote # "valid" => "fail" \in Severities(Hardware(h).findings)
         /\ h.imaRequired /\ "ima" \notin Hardware(h).hardware => "fail" \in Severities(Hardware(h).findings)
         /\ h.expected = "required" /\ h.report # "valid"
              => Severities(Hardware(h).findings) \cap {"fail", "error"} # {}
  <1> DEFINE t == TpmResult(h)
             i == ImaRequired(h)
             c == Confidential(h)
  <1>1. /\ Hardware(h).findings = t.findings \cup i.findings \cup c.findings
        /\ Hardware(h).hardware = t.hardware \cup i.hardware \cup c.hardware
    BY DEF Hardware, Both, Result
  <1>2. i.hardware = {} /\ i.findings = When(h.imaRequired /\ "ima" \notin t.hardware, "fail", "ima")
    BY DEF ImaRequired, Result
  <1>3. ASSUME h.imaRequired, "ima" \notin t.hardware
        PROVE  "fail" \in Severities(i.findings)
    <2>1. <<"fail", "ima">> \in i.findings
      BY <1>2, <1>3 DEF When
    <2> QED
      BY <2>1, FoundSeverity
  <1>4. /\ Severities(t.findings) \subseteq Severities(Hardware(h).findings)
        /\ Severities(i.findings) \subseteq Severities(Hardware(h).findings)
        /\ Severities(c.findings) \subseteq Severities(Hardware(h).findings)
    BY <1>1, MoreSeverities
  <1> HIDE DEF t, i, c
  <1>5. "ima" \in Hardware(h).hardware <=> "ima" \in t.hardware
    BY <1>1, <1>2, ConfidentialVouches DEF c
  <1>6. "tpm" \in Hardware(h).hardware <=> "tpm" \in t.hardware
    BY <1>1, <1>2, ConfidentialVouches DEF c
  <1>7. "cvm" \in Hardware(h).hardware <=> h.report = "valid" /\ h.expected # "none"
    BY <1>1, <1>2, ConfidentialVouches, TpmVouches DEF c, t
  <1>8. h.pinned /\ h.quote # "valid" => "fail" \in Severities(Hardware(h).findings)
    BY <1>4, TpmVouches DEF t
  <1>9. h.imaRequired /\ "ima" \notin Hardware(h).hardware => "fail" \in Severities(Hardware(h).findings)
    BY <1>3, <1>4, <1>5
  <1>10. h.expected = "required" /\ h.report # "valid"
           => Severities(Hardware(h).findings) \cap {"fail", "error"} # {}
    BY <1>4, ConfidentialVouches DEF c
  <1> QED
    BY <1>5, <1>6, <1>7, <1>8, <1>9, <1>10, TpmVouches DEF t

\* What the configuration asks the hardware to vouch for cannot be dropped,
\* and a level names only what was verified (appraise.js:183-194, 423-573).
THEOREM DowngradeIsSeen ==
  ASSUME NEW h, HardwareRecord(h)
  PROVE  NoSilentDowngrade(h) /\ LevelIsEarned(h)
  <1>1. NoSilentDowngrade(h)
    BY HardwareIs DEF NoSilentDowngrade
  <1>2. LevelIsEarned(h)
    BY HardwareIs DEF LevelIsEarned
  <1> QED
    BY <1>1, <1>2


-----------------------------------------------------------------------------
(* What is left out                                                        *)

\* Findings of a server that passes or that nothing is said of.
LEMMA QuietMeans ==
  ASSUME NEW F, Severities(F) \subseteq {"info"}, NEW severity, NEW check, <<severity, check>> \in F
  PROVE  severity = "info"
  BY FoundSeverity

\* What a server may have left out of its evidence, for any number of processes.
PartialRecord(e) ==
    /\ e.services \subseteq {"absent", "wrongKind"} /\ e.processes \in Nat /\ e.minProcesses \in Nat
    /\ e.installed \in BOOLEAN /\ e.release \in BOOLEAN /\ e.imaRequired \in BOOLEAN
    /\ e.lock \in {"none", "unreadable", "some"} /\ e.comparison \in {"up", "down"}
    /\ e.answers \subseteq {"yes", "no", "down"}
    /\ e.bundler.setup = TRUE /\ e.bundler.reported \in BOOLEAN /\ e.bundler.errors \in BOOLEAN
    /\ e.log.kept \in BOOLEAN /\ e.log.error \in BOOLEAN /\ e.log.truncated \in BOOLEAN
    /\ e.log.malformed \in BOOLEAN /\ e.log.any \in BOOLEAN
    /\ e.measured \in {"noLog", "nothing", "some"}
    /\ ~e.installed => e.answers = {}

\* Nothing is left out silently (appraise.js:202-236, 366-369,
\* appraise-directory.js:651-729).
THEOREM OmissionIsSeen ==
  ASSUME NEW e, PartialRecord(e), NEW pol \in {"fail", "warn"}
  PROVE  NothingLeftOut(e, pol)
  <1> DEFINE F == PartialFindings(e, pol)
  <1> SUFFICES ASSUME Severities(F) \subseteq {"info"}
               PROVE  /\ e.services = {} /\ e.processes >= e.minProcesses
                      /\ e.installed \/ e.release \/ e.lock # "some"
                      /\ e.installed => e.lock = "some" /\ e.comparison = "up" /\ e.answers \subseteq {"yes"}
                      /\ e.bundler.reported /\ e.bundler.gem = "same"
                      /\ e.log.kept => e.log.any /\ ~e.log.truncated /\ ~e.log.error
                      /\ e.measured = "nothing" => e.processes = 0
    BY DEF NothingLeftOut
  <1>1. /\ ExpectedFindings(e) \subseteq F /\ LockFindings(e, pol) \subseteq F
        /\ ProvenanceFindings(e.answers) \subseteq F /\ BundlerFindings(e.bundler) \subseteq F
        /\ e.log.kept => (IF e.log.error THEN MonitorUnread(pol) ELSE MonitorLog(e.log, pol)) \subseteq F
        /\ e.measured = "nothing" => ImaCovers(0, e.processes, e.imaRequired) \subseteq F
    BY DEF PartialFindings
  <1> HIDE DEF F
  <1>2. \A severity, check : <<severity, check>> \in F => severity = "info"
    BY QuietMeans
  <1>3. e.services = {} /\ e.processes >= e.minProcesses
    <2>1. <<"fail", "service">> \notin ExpectedFindings(e) /\ <<"fail", "processes">> \notin ExpectedFindings(e)
      BY <1>1, <1>2
    <2>2. "absent" \notin e.services /\ "wrongKind" \notin e.services /\ ~(e.processes < e.minProcesses)
      BY <2>1 DEF ExpectedFindings, When
    <2> QED
      BY <2>2 DEF PartialRecord
  <1>4. e.installed \/ e.release \/ e.lock # "some"
    <2>1. <<"warn", "packages">> \notin LockFindings(e, pol)
      BY <1>1, <1>2
    <2> QED
      BY <2>1 DEF LockFindings, When
  <1>5. ASSUME e.installed
        PROVE  e.lock = "some" /\ e.comparison = "up"
    <2>1. <<pol, "packages">> \notin LockFindings(e, pol) /\ <<"error", "packages">> \notin LockFindings(e, pol)
      BY <1>1, <1>2
    <2>2. e.lock # "none" /\ e.lock # "unreadable" /\ e.comparison # "down"
      BY <1>5, <2>1 DEF LockFindings, When
    <2> QED
      BY <2>2 DEF PartialRecord
  <1>6. e.answers \subseteq {"yes"}
    <2>1. /\ <<"fail", "provenance">> \notin ProvenanceFindings(e.answers)
          /\ <<"error", "provenance">> \notin ProvenanceFindings(e.answers)
      BY <1>1, <1>2
    <2>2. "no" \notin e.answers /\ "down" \notin e.answers
      BY <2>1 DEF ProvenanceFindings, When
    <2> QED
      BY <2>2 DEF PartialRecord
  <1>7. e.bundler.reported /\ e.bundler.gem = "same"
    <2>1. /\ <<"fail", "process">> \notin BundlerFindings(e.bundler)
          /\ <<"error", "process">> \notin BundlerFindings(e.bundler)
      BY <1>1, <1>2
    <2> QED
      BY <2>1 DEF BundlerFindings, PartialRecord
  <1>8. ASSUME e.log.kept
        PROVE  e.log.any /\ ~e.log.truncated /\ ~e.log.error
    <2> DEFINE L == IF e.log.error THEN MonitorUnread(pol) ELSE MonitorLog(e.log, pol)
    <2>1. <<pol, "monitor">> \notin L /\ <<"warn", "monitor">> \notin L
      BY <1>1, <1>2, <1>8
    <2>2. ~e.log.error
      BY <2>1 DEF MonitorUnread
    <2> QED
      BY <2>1, <2>2 DEF MonitorLog, When
  <1>9. ASSUME e.measured = "nothing"
        PROVE  e.processes = 0
    <2>1. /\ <<"fail", "ima">> \notin ImaCovers(0, e.processes, e.imaRequired)
          /\ <<"warn", "ima">> \notin ImaCovers(0, e.processes, e.imaRequired)
      BY <1>1, <1>2, <1>9
    <2>2. ~(e.processes > 0)
      BY <2>1 DEF ImaCovers, When
    <2> QED
      BY <2>2 DEF PartialRecord
  <1> QED
    BY <1>3, <1>4, <1>5, <1>6, <1>7, <1>8, <1>9


-----------------------------------------------------------------------------
(* Changed code                                                            *)

\* A shorter sequence that agrees is a prefix.
LEMMA PrefixIs ==
  ASSUME NEW S, NEW s \in Seq(S), NEW t \in Seq(S), Len(s) < Len(t), \A i \in 1..Len(s) : s[i] = t[i]
  PROVE  IsStrictPrefix(s, t) /\ IsPrefix(s, t)
  <1>1. SubSeq(s, 1, Len(s)) = SubSeq(t, 1, Len(s))
    OBVIOUS
  <1> QED
    BY <1>1 DEF IsStrictPrefix, IsPrefix

\* A change of code under a running process is reported, for every tree of a
\* service, every path and every number of changes (appraise-directory.js:
\* 794-916).
LEMMA CodeChangeReported ==
  ASSUME NEW p, NEW service, NEW pol, NEW change \in p.changed, IsCode(change, service)
  PROVE  pol \in Severities(ProcessFindings(p, service, pol))
  <1>1. <<pol, "process">> \in ProcessFindings(p, service, pol)
    BY DEF ProcessFindings, When
  <1> QED
    BY <1>1, FoundSeverity

\* The paths of changes are sequences of names.
PathNames == {"app", "lib", "a", "c", "dist", "b", "log", ".keep", "x", "tmp", "node_modules", "p", "i"}

\* What a service's tree has, by where it begins.
LEMMA TreeHas ==
  /\ \E a \in Seq(PathNames) : /\ a \in Tree.tracked \ Tree.placeholders
                                /\ Len(a) = 3 /\ a[1] = "app" /\ a[2] = "lib" /\ a = <<"app", "lib", "a">>
  /\ \E b \in Seq(PathNames) : b \in Tree.outputs /\ Len(b) = 2 /\ b[1] = "dist" /\ b = <<"dist", "b">>
  /\ \E n \in Seq(PathNames) : n \in Tree.installs /\ Len(n) = 1 /\ n[1] = "node_modules"
  <1>1. /\ <<"app", "lib", "a">> \in Seq(PathNames) /\ <<"dist", "b">> \in Seq(PathNames)
        /\ <<"node_modules">> \in Seq(PathNames)
    BY DEF PathNames
  <1>2. /\ <<"app", "lib", "a">> \in Tree.tracked \ Tree.placeholders /\ <<"dist", "b">> \in Tree.outputs
        /\ <<"node_modules">> \in Tree.installs
    BY DEF Tree
  <1> QED
    BY <1>1, <1>2

\* What is below an installed directory, or above a file of code.
LEMMA BelowInstalled ==
  ASSUME NEW path \in Seq(PathNames), Len(path) > 1, path[1] = "node_modules"
  PROVE  \E install \in Tree.installs : IsPrefix(install, path) /\ IsStrictPrefix(install, path)
  <1>1. PICK n \in Seq(PathNames) : n \in Tree.installs /\ Len(n) = 1 /\ n[1] = "node_modules"
    BY TreeHas
  <1>2. \A i \in 1..Len(n) : n[i] = path[i]
    BY <1>1
  <1> QED
    BY <1>1, <1>2, PrefixIs

LEMMA AboveTracked ==
  ASSUME NEW path \in Seq(PathNames),
         \/ Len(path) = 0
         \/ Len(path) = 1 /\ path[1] = "app"
         \/ Len(path) = 2 /\ path[1] = "app" /\ path[2] = "lib"
  PROVE  HoldsCode(path, (Tree.tracked \ Tree.placeholders) \cup Tree.outputs)
  <1>1. PICK a \in Seq(PathNames) : /\ a \in Tree.tracked \ Tree.placeholders
                                   /\ Len(a) = 3 /\ a[1] = "app" /\ a[2] = "lib"
    BY TreeHas
  <1>2. \A i \in 1..Len(path) : path[i] = a[i]
    BY <1>1
  <1>3. Len(path) < Len(a)
    <2> DEFINE m == Len(path)
               n == Len(a)
    <2>1. m = 0 \/ m = 1 \/ m = 2
      OBVIOUS
    <2>2. n = 3
      BY <1>1
    <2> HIDE DEF m, n
    <2>3. m < n
      BY <2>1, <2>2
    <2> QED
      BY <2>3 DEF m, n
  <1>4. IsStrictPrefix(path, a)
    BY <1>2, <1>3, PrefixIs
  <1> QED
    BY <1>1, <1>4 DEF HoldsCode

LEMMA AboveBuilt ==
  ASSUME NEW path \in Seq(PathNames), Len(path) = 1, path[1] = "dist"
  PROVE  HoldsCode(path, (Tree.tracked \ Tree.placeholders) \cup Tree.outputs)
  <1>1. PICK b \in Seq(PathNames) : b \in Tree.outputs /\ Len(b) = 2 /\ b[1] = "dist"
    BY TreeHas
  <1>2. \A i \in 1..Len(path) : path[i] = b[i]
    BY <1>1
  <1>3. IsStrictPrefix(path, b)
    BY <1>1, <1>2, PrefixIs
  <1> QED
    BY <1>1, <1>3 DEF HoldsCode

\* Of the changes of the tree that is checked, all but the excepted are code.
LEMMA TreesCode ==
  ASSUME NEW change \in Changes,
         change.path \notin {<<"log", "x">>, <<"app", "lib", "c">>, <<"log">>, <<"tmp">>}
  PROVE  IsCode(change, Tree)
  <1>1. change.dir \in BOOLEAN
    BY DEF Changes
  <1>2. CASE ~change.dir
    <2>1. change.path \in {<<"app", "lib", "a">>, <<"dist", "b">>, <<"node_modules", "p", "i">>}
      BY <1>2 DEF Changes
    <2>2. CASE change.path = <<"node_modules", "p", "i">>
      <3>1. change.path \in Seq(PathNames) /\ Len(change.path) > 1 /\ change.path[1] = "node_modules"
        BY <2>2 DEF PathNames
      <3> QED
        BY <1>1, <3>1, BelowInstalled DEF IsCode
    <2>3. CASE change.path = <<"app", "lib", "a">> \/ change.path = <<"dist", "b">>
      BY <1>2, <2>3 DEF IsCode, Tree
    <2> QED
      BY <2>1, <2>2, <2>3
  <1>3. CASE change.dir
    <2>1. change.path \in {<<>>, <<"app">>, <<"app", "lib">>, <<"dist">>, <<"node_modules", "p">>}
      BY <1>3 DEF Changes
    <2>2. CASE change.path = <<"node_modules", "p">>
      <3>1. change.path \in Seq(PathNames) /\ Len(change.path) > 1 /\ change.path[1] = "node_modules"
        BY <2>2 DEF PathNames
      <3> QED
        BY <1>1, <3>1, BelowInstalled DEF IsCode
    <2>3. CASE change.path = <<>>
      <3>1. change.path \in Seq(PathNames) /\ Len(change.path) = 0
        BY <2>3
      <3> QED
        BY <1>3, <3>1, AboveTracked DEF IsCode
    <2>4. CASE change.path = <<"app">>
      <3>1. change.path \in Seq(PathNames) /\ Len(change.path) = 1 /\ change.path[1] = "app"
        BY <2>4 DEF PathNames
      <3> QED
        BY <1>3, <3>1, AboveTracked DEF IsCode
    <2>5. CASE change.path = <<"app", "lib">>
      <3>1. /\ change.path \in Seq(PathNames) /\ Len(change.path) = 2
            /\ change.path[1] = "app" /\ change.path[2] = "lib"
        BY <2>5 DEF PathNames
      <3> QED
        BY <1>3, <3>1, AboveTracked DEF IsCode
    <2>6. CASE change.path = <<"dist">>
      <3>1. change.path \in Seq(PathNames) /\ Len(change.path) = 1 /\ change.path[1] = "dist"
        BY <2>6 DEF PathNames
      <3> QED
        BY <1>3, <3>1, AboveBuilt DEF IsCode
    <2> QED
      BY <2>1, <2>2, <2>3, <2>4, <2>5, <2>6
  <1> QED
    BY <1>1, <1>2, <1>3

\* A process under which code was changed is reported, however many changes
\* where no code is loaded from are beside it (appraise-directory.js:651-841).
THEOREM ChangesAreReported ==
  ASSUME NEW p, p.changed \subseteq Changes, NEW pol
  PROVE  ChangedCodeIsReported(p, pol)
  BY TreesCode, CodeChangeReported DEF ChangedCodeIsReported

\* A server gains nothing by leaving something out of its evidence, by changing
\* code under its processes, or by claiming less hardware than is required
\* (appraise.js:183-236, 366-369, 423-573, appraise-directory.js:651-916).
THEOREM HidingSeen == Spec => []HidingIsSeen
  <1>1. Subjects => HidingIsSeen
    <2> SUFFICES ASSUME Subjects
                 PROVE  HidingIsSeen
      OBVIOUS
    <2>1. setting.pol \in {"fail", "warn"}
      BY DEF Subjects, Settings
    <2>2. ASSUME subject = "partial"
          PROVE  PartialRecord(input)
      <3>1. input \in Partial
        BY <2>2 DEF Subjects
      <3>2. /\ input.services \subseteq {"absent", "wrongKind"} /\ input.processes \in Nat /\ input.minProcesses \in Nat
            /\ input.installed \in BOOLEAN /\ input.release \in BOOLEAN /\ input.imaRequired \in BOOLEAN
            /\ input.lock \in {"none", "unreadable", "some"} /\ input.comparison \in {"up", "down"}
            /\ input.answers \subseteq {"yes", "no", "down"} /\ input.measured \in {"noLog", "nothing", "some"}
        BY <3>1 DEF Partial
      <3>3. ~input.installed => input.answers = {}
        BY <3>1 DEF Partial
      <3>4. /\ input.bundler \in [setup : {TRUE}, reported : BOOLEAN, errors : BOOLEAN, gem : {"same", "down", "differs"}]
            /\ input.log \in [kept : BOOLEAN, error : BOOLEAN, truncated : BOOLEAN, malformed : BOOLEAN, any : BOOLEAN]
        BY <3>1 DEF Partial
      <3>5. input.bundler.setup = TRUE /\ input.bundler.reported \in BOOLEAN /\ input.bundler.errors \in BOOLEAN
        BY <3>4
      <3>6. /\ input.log.kept \in BOOLEAN /\ input.log.error \in BOOLEAN /\ input.log.truncated \in BOOLEAN
            /\ input.log.malformed \in BOOLEAN /\ input.log.any \in BOOLEAN
        BY <3>4
      <3> QED
        BY <3>2, <3>3, <3>5, <3>6 DEF PartialRecord
    <2>3. ASSUME subject = "process"
          PROVE  input.changed \subseteq Changes
      BY <2>3 DEF Subjects, Processes
    <2>4. ASSUME subject = "hardware"
          PROVE  HardwareRecord(input)
      <3>1. input \in HardwareEvidence
        BY <2>4 DEF Subjects
      <3> QED
        BY <3>1 DEF HardwareEvidence, HardwareRecord
    <2> QED
      BY <2>1, <2>2, <2>3, <2>4, OmissionIsSeen, ChangesAreReported, DowngradeIsSeen DEF HidingIsSeen, Pol
  <1> QED
    BY <1>1, InputsAreKnown, PTL

-----------------------------------------------------------------------------
(* Files                                                                   *)

LEMMA NoneFails ==
  ASSUME NEW F, \A x \in F : x[1] # "fail"
  PROVE  "fail" \notin Severities(F)
  BY DEF Severities

\* A file of a server, measured any number of times: only one outside the
\* root has other explanations, and only packages and outputs other references.
FileRecord(f) ==
    /\ f.place \in Places /\ f.claim \in Content \cup {"absent", "unreadable"} /\ f.kind \in {"same", "mode", "link"}
    /\ f.reference \in {"up", "unpinned", "down"} /\ f.measured \in Seq(Content) /\ f.algorithm \in {"sha256", "other"}
    /\ f.written \in BOOLEAN /\ f.used \in {"no", "exe"} /\ f.listed \in BOOLEAN
    /\ f.place # "outside" => f.node = "no" /\ f.configured = "none" /\ f.archive = "none"
    /\ f.reference = "down" => f.place \in {"package", "output"}

SettingRecord(s) == s.pol \in {"fail", "warn"} /\ s.ima \in BOOLEAN /\ s.history \in {"up", "down"}

\* The last of what the kernel measured is among what it measured.
LEMMA LastMeasured ==
  ASSUME NEW f, f.measured \in Seq(Content)
  PROVE  /\ f.measured # <<>> => Last(f.measured) \in ToSet(f.measured)
         /\ Earlier(f) = ToSet(f.measured) \ {"ref"}
  <1> DEFINE m == f.measured
             n == Len(m)
  <1>1. n \in Nat /\ DOMAIN m = 1..n /\ (m # <<>> => n > 0)
    OBVIOUS
  <1>2. m # <<>> => Last(m) \in ToSet(m)
    BY <1>1 DEF Last, ToSet
  <1> QED
    BY <1>1, <1>2 DEF Earlier, ToSet

\* What each judgement adds is among what is found of the file.
LEMMA FilesParts ==
  ASSUME NEW f, NEW s
  PROVE  /\ Unlisted(f) \subseteq FileFindings(f, s) /\ CodeFindings(f, s.pol) \subseteq FileFindings(f, s)
         /\ s.ima => /\ ImaFiles(f, s.history) \subseteq FileFindings(f, s)
                     /\ ImaRoots(f, s.pol) \subseteq FileFindings(f, s)
  BY DEF FileFindings

\* The kernel is believed before the evidence, however many contents it
\* measured by SHA-256 at a file's path (appraise.js:325-383, appraise-directory.
\* js:411-458).
THEOREM KernelIsBelieved ==
  ASSUME NEW f, FileRecord(f), NEW s, SettingRecord(s)
  PROVE  KernelBelieved(f, s)
  <1> SUFFICES ASSUME s.ima, f.place \in InRoot, Measured(f),
                      Last(f.measured) # "ref" \/ "bad" \in ToSet(f.measured)
               PROVE  \E severity \in {"fail", "warn"} : <<severity, "ima">> \in FileFindings(f, s)
    BY FoundSeverity DEF KernelBelieved, Concern
  <1> DEFINE m == f.measured
  <1>1. m # <<>> /\ (Last(m) # "ref" \/ "bad" \in Earlier(f)) /\ (Earlier(f) # {} \/ Last(m) # "ref")
    <2>1. m # <<>>
      BY DEF Measured
    <2>2. "bad" \in ToSet(m) => "bad" \in Earlier(f)
      BY LastMeasured DEF FileRecord
    <2> QED
      BY <2>1, <2>2, LastMeasured DEF FileRecord
  <1>2. CASE f.place = "tracked"
    <2>1. \E severity \in {"fail", "warn"} : <<severity, "ima">> \in ImaFiles(f, s.history)
      BY <1>1, <1>2 DEF ImaFiles, FileRecord
    <2> QED
      BY <2>1, FilesParts
  <1>3. CASE f.place # "tracked"
    <2>1. f.place \notin {"tracked", "outside"}
      BY <1>3 DEF InRoot
    <2>2. CASE ~Explained(f)
      <3>1. <<s.pol, "ima">> \in ImaRoots(f, s.pol)
        BY <1>1, <2>1, <2>2 DEF ImaRoots
      <3> QED
        BY <3>1, FilesParts DEF SettingRecord
    <2>3. CASE Explained(f) /\ Last(m) # f.claim
      <3>1. <<"fail", "ima">> \in ImaRoots(f, s.pol)
        BY <1>1, <2>1, <2>3 DEF ImaRoots
      <3> QED
        BY <3>1, FilesParts
    <2>4. CASE Explained(f) /\ Last(m) = f.claim
      <3>1. Earlier(f) # {}
        BY <1>1, <2>4 DEF Explained
      <3>2. <<"warn", "ima">> \in ImaRoots(f, s.pol)
        BY <1>1, <2>1, <2>4, <3>1 DEF ImaRoots, When
      <3> QED
        BY <3>2, FilesParts
    <2> QED
      BY <2>2, <2>3, <2>4
  <1> QED
    BY <1>2, <1>3

\* Code that runs without any finding is what some reference has
\* (appraise-code.js:60-377).
THEOREM CleanCodeKnown ==
  ASSUME NEW f, FileRecord(f), NEW s, SettingRecord(s)
  PROVE  CleanCodeIsKnown(f, s)
  <1> SUFFICES ASSUME f.used # "no", Severities(FileFindings(f, s)) \subseteq {"info"}
               PROVE  \/ f.claim = "ref" /\ f.place \in {"tracked", "package", "output"}
                      \/ f.node = "official" \/ f.configured \in {"pinned", "listed"} \/ f.archive = "same"
    BY DEF CleanCodeIsKnown
  <1>1. \A severity, check : <<severity, check>> \in FileFindings(f, s) => severity = "info"
    BY QuietMeans
  <1>2. f.listed
    <2>1. <<"fail", "evidence">> \notin Unlisted(f)
      BY <1>1, FilesParts
    <2> QED
      BY <2>1 DEF Unlisted, When
  <1>3. ExplainFile(f) \notin {"fail", "node", "error", "unexplained"}
    <2>1. /\ <<"fail", "code">> \notin CodeFindings(f, s.pol) /\ <<s.pol, "code">> \notin CodeFindings(f, s.pol)
          /\ <<"error", "code">> \notin CodeFindings(f, s.pol)
      BY <1>1, FilesParts DEF SettingRecord
    <2> QED
      BY <1>2, <2>1 DEF CodeFindings, When
  <1> QED
    BY <1>3 DEF ExplainFile, Explained, ListedAs

\* Nothing that the monitor saw goes unmentioned unless it is explained.
THEOREM MonitorKeeps ==
  ASSUME NEW e, NEW pol
  PROVE  MonitorLosesNothing(e, pol)
  <1> SUFFICES ASSUME ~e.inImage, ExplainFile(e) # "source"
               PROVE  MonitorFindings(e, pol) # {}
    BY DEF MonitorLosesNothing
  <1>1. ExplainFile(e) \in {"fail", "node", "error", "unexplained"}
    BY DEF ExplainFile
  <1>2. \/ <<IF e.error = "cut" THEN "warn" ELSE pol, "monitor">> \in MonitorFindings(e, pol)
        \/ <<"fail", "monitor">> \in MonitorFindings(e, pol)
        \/ <<"error", "monitor">> \in MonitorFindings(e, pol)
        \/ <<pol, "monitor">> \in MonitorFindings(e, pol)
    BY <1>1 DEF MonitorFindings, When
  <1> QED
    BY <1>2


\* A genuine file, however often it was measured, fails exactly when it is code
\* whose reference cannot be fetched and policy.unexplainedCode is `fail';
\* whatever else cannot be fetched, it is inconclusive (reports.md: `error').
THEOREM GenuineFilesFailWhen ==
  ASSUME NEW f, FileRecord(f), NEW s, SettingRecord(s)
  PROVE  GenuineFailsWhen(f, s)
  <1> DEFINE fails == "fail" \in Severities(FileFindings(f, s))
             named == f.reference = "down" /\ s.pol = "fail" /\ (f.listed \/ (s.ima /\ Measured(f)))
  <1> SUFFICES ASSUME f.claim = "ref", f.kind = "same", Earlier(f) = {}, f.used # "no" <=> f.listed,
                      f.place \in {"tracked", "package", "output"}, f.reference # "unpinned"
               PROVE  fails <=> named
    BY DEF GenuineFailsWhen
  <1> DEFINE m == f.measured
  <1>1. f.claim \in Content /\ f.claim \notin Content \ {"ref"} /\ f.reference \in {"up", "down"}
    BY DEF FileRecord, Content
  <1>2. Measured(f) => Last(m) = "ref" /\ f.claim \in ToSet(m)
    <2>1. ToSet(m) \subseteq {"ref"}
      BY LastMeasured DEF FileRecord
    <2>2. Measured(f) => Last(m) \in ToSet(m)
      BY LastMeasured DEF FileRecord, Measured
    <2> QED
      BY <2>1, <2>2
  <1>3. Explained(f) <=> f.reference # "down"
    BY <1>1 DEF Explained, FileRecord
  <1>4. ExplainFile(f) = IF Explained(f) THEN "source" ELSE "unexplained"
    BY <1>1, <1>3 DEF ExplainFile, ListedAs, FileRecord
  <1>5. ASSUME ~named
        PROVE  \A x \in FileFindings(f, s) : x[1] # "fail"
    <2>1. Explained(f) \/ s.pol = "warn" \/ (~f.listed /\ ~(s.ima /\ Measured(f)))
      BY <1>3, <1>5 DEF SettingRecord
    <2>2. \A x \in TreeFindings(f, s.pol) : x[1] # "fail"
      <3>1. TreeFindings(f, s.pol) = {}
        BY <1>1 DEF TreeFindings, When
      <3> QED
        BY <3>1
    <2>3. \A x \in InstalledFindings(f, s.pol) : x[1] # "fail"
      <3>1. InstalledFindings(f, s.pol) \subseteq {<<"error", "packages">>}
        BY <1>1 DEF InstalledFindings, When
      <3> QED
        BY <3>1
    <2>4. \A x \in BuildFindings(f, s.pol) : x[1] # "fail"
      <3>1. BuildFindings(f, s.pol) \subseteq {<<"error", "build">>}
        BY DEF BuildFindings, When
      <3> QED
        BY <3>1
    <2>5. Unlisted(f) = {}
      BY DEF Unlisted, When
    <2>6. \A x \in CodeFindings(f, s.pol) : x[1] # "fail"
      <3>1. /\ CodeFindings(f, s.pol) \subseteq {<<s.pol, "code">>}
            /\ Explained(f) \/ ~f.listed => CodeFindings(f, s.pol) = {}
        BY <1>4 DEF CodeFindings, When
      <3> QED
        BY <2>1, <3>1
    <2>7. \A x \in ImaFiles(f, s.history) : x[1] # "fail"
      <3>1. ImaFiles(f, s.history) = {}
        BY <1>2 DEF ImaFiles
      <3> QED
        BY <3>1
    <2>8. s.ima => \A x \in ImaRoots(f, s.pol) : x[1] # "fail"
      <3>1. /\ ImaRoots(f, s.pol) \subseteq {<<s.pol, "ima">>}
            /\ Explained(f) \/ ~Measured(f) => ImaRoots(f, s.pol) = {}
        BY <1>2 DEF ImaRoots, When
      <3> QED
        BY <2>1, <3>1
    <2>9. ImaCode(f) = {}
      BY <1>2 DEF ImaCode, When
    <2>10. ASSUME NEW x \in FileFindings(f, s)
           PROVE  x[1] # "fail"
      <3>1. \/ x \in TreeFindings(f, s.pol) \/ x \in InstalledFindings(f, s.pol) \/ x \in BuildFindings(f, s.pol)
            \/ x \in Unlisted(f) \/ x \in CodeFindings(f, s.pol)
            \/ s.ima /\ (x \in ImaFiles(f, s.history) \/ x \in ImaRoots(f, s.pol) \/ x \in ImaCode(f))
        BY <2>10 DEF FileFindings
      <3> QED
        BY <2>2, <2>3, <2>4, <2>5, <2>6, <2>7, <2>8, <2>9, <3>1
    <2> QED
      BY <2>10
  <1>6. ASSUME named
        PROVE  fails
    <2>1. ~Explained(f)
      BY <1>3, <1>6
    <2>2. CASE f.listed
      <3>1. <<"fail", "code">> \in CodeFindings(f, s.pol)
        BY <1>4, <1>6, <2>1, <2>2 DEF CodeFindings, When
      <3> QED
        BY <3>1, FilesParts, FoundSeverity
    <2>3. CASE s.ima /\ Measured(f)
      <3>1. f.place \in {"package", "output"}
        BY <1>6 DEF FileRecord
      <3>2. <<"fail", "ima">> \in ImaRoots(f, s.pol)
        BY <1>6, <2>1, <2>3, <3>1 DEF ImaRoots
      <3> QED
        BY <2>3, <3>2, FilesParts, FoundSeverity
    <2> QED
      BY <1>6, <2>2, <2>3
  <1> QED
    BY <1>5, <1>6, NoneFails

\* A release as it was attested fails exactly when its attestation is lost to
\* an error that is not taken for the network's or when git itself fails, for
\* any files of any contents (appraise-directory.js:462-580, git.js:168-190).
THEOREM GenuineReleaseFailsWhen ==
  ASSUME NEW m, m.pinned \in BOOLEAN, m.onBranch \in BOOLEAN, m.exists \in BOOLEAN, m.sameCommit \in BOOLEAN,
         m.attested \in {"yes", "no", "down", "lost"}, m.onBranch => m.exists,
         m.repository \in {"none", "up", "down", "treeDown"}, m.git \in {"answers", "noCommit", "noAncestor"},
         m.repository = "treeDown" => Found(m),
         m.git # "answers" => m.repository \in {"up", "treeDown"},
         \A file \in DOMAIN m.disk : m.release[file] # "unread"
  PROVE  ReleaseFailsWhen(m)
  <1> DEFINE fails == "fail" \in Severities(ManifestFindings(m))
             git   == m.git = "noCommit" \/ (m.git = "noAncestor" /\ ~m.pinned)
  <1> SUFFICES ASSUME m.signer, m.manifest = "onDisk", m.attested # "no", m.sameCommit,
                      m.repository \in {"none", "down"} \/ m.onBranch, m.disk = m.release
               PROVE  fails <=> m.attested = "lost" \/ (m.attested = "yes" /\ git)
    BY DEF ReleaseFailsWhen
  <1>1. Differences(m) = {}
    BY DEF Differences, Reported, When
  <1>2. Signed(m) = m.attested
    BY DEF Signed
  <1>3. CASE m.attested = "yes"
    <2>1. ManifestFindings(m) = SourceFindings(m)
      BY <1>1, <1>2, <1>3 DEF ManifestFindings
    <2>2. ASSUME ~git
          PROVE  SourceFindings(m) \subseteq {<<"error", "source">>}
      <3>1. m.repository \in {"up", "treeDown"} => Found(m) /\ (m.pinned \/ FoundOnBranch(m))
        BY <2>2 DEF Found, FoundOnBranch
      <3> QED
        BY <3>1 DEF SourceFindings, When
    <2>3. ASSUME git
          PROVE  <<"fail", "source">> \in SourceFindings(m)
      <3>1. m.git # "answers" /\ m.repository \in {"up", "treeDown"} /\ m.exists
        BY <2>3
      <3>2. CASE m.git = "noCommit"
        <4>1. ~Found(m) /\ m.repository = "up"
          BY <3>1, <3>2 DEF Found
        <4> QED
          BY <4>1 DEF SourceFindings, When
      <3>3. CASE m.git = "noAncestor"
        <4>1. Found(m) /\ ~FoundOnBranch(m) /\ ~m.pinned
          BY <2>3, <3>1, <3>3 DEF Found, FoundOnBranch
        <4> QED
          BY <3>1, <4>1 DEF SourceFindings, When
      <3> QED
        BY <2>3, <3>2, <3>3
    <2>4. ~git => \A x \in ManifestFindings(m) : x[1] # "fail"
      BY <2>1, <2>2
    <2>5. git => fails
      BY <2>1, <2>3, FoundSeverity
    <2> QED
      BY <1>3, <2>4, <2>5, NoneFails
  <1>4. CASE m.attested = "down"
    <2>1. ManifestFindings(m) = {<<"error", "artifact">>}
      BY <1>2, <1>4 DEF ManifestFindings
    <2>2. \A x \in ManifestFindings(m) : x[1] # "fail"
      BY <2>1
    <2> QED
      BY <1>4, <2>2, NoneFails
  <1>5. CASE m.attested = "lost"
    <2>1. <<"fail", "artifact">> \in ManifestFindings(m)
      BY <1>2, <1>5 DEF ManifestFindings
    <2> QED
      BY <1>5, <2>1, FoundSeverity
  <1> QED
    BY <1>3, <1>4, <1>5

\* A file of a container, whatever its contents in the image and the writable
\* layer are; a deleted one is of the image.
ImageFileRecord(file) ==
    /\ file.mounted \in BOOLEAN /\ file.runtime \in BOOLEAN /\ file.allowed \in BOOLEAN /\ file.runState \in BOOLEAN
    /\ file.image \notin {"same", "deleted", "below"} /\ file.upper # "none" /\ file.mode \in {"same", "changed"}
    /\ file.upper \in {"deleted", "below"} => file.image # "none"

\* A container of its image, and a report of the expected machine, fail for
\* what could not be fetched exactly when an error is not taken for the
\* network's (appraise-container.js:325-356, appraise.js:505-543).
LEMMA ContainersFailWhen ==
  ASSUME NEW c, NEW pol, c.signer \in BOOLEAN, c.image \in {"up", "down", "otherManifest"}, c.signed # {},
         ImageFileRecord(c.file)
  PROVE  ContainerFailsWhen(c, pol)
  <1> DEFINE fails == "fail" \in Severities(ContainerFindings(c, pol))
             looked == Contacted(c.registry) /\ c.image = "up"
  <1> SUFFICES ASSUME c.running, c.digests = "allowed", c.image # "otherManifest", c.signed \subseteq {"yes", "down", "lost"},
                      ~c.incomplete, ~Hidden(c.file), Seen(c.file) = c.file.image
               PROVE  fails <=> looked /\ c.signer /\ c.signed = {"lost"}
    BY DEF ContainerFailsWhen
  <1>1. PinnedImage(c)
    BY DEF PinnedImage
  <1>2. CASE ~looked
    <2>1. ContainerFindings(c, pol) = {<<"error", "container">>}
      BY <1>1, <1>2 DEF ContainerFindings
    <2>2. \A x \in ContainerFindings(c, pol) : x[1] # "fail"
      BY <2>1
    <2> QED
      BY <1>2, <2>2, NoneFails
  <1>3. CASE looked
    <2> DEFINE signed   == IF c.signer THEN SignerFindings(c.signed) ELSE {}
               compared == IF c.files = "rootfs" THEN RootfsFindings(c.file, pol)
                           ELSE IF c.files = "upper" THEN UpperFindings(c.file, pol)
                           ELSE {<<"error", "container">>}
    <2>1. RootfsFindings(c.file, pol) \subseteq {<<"warn", "mode">>}
      BY DEF RootfsFindings, When
    <2>2. UpperFindings(c.file, pol) = {}
      BY DEF UpperFindings, Seen, When, ImageFileRecord
    <2>3. compared \subseteq {<<"warn", "mode">>, <<"error", "container">>}
      BY <2>1, <2>2
    <2>4. /\ signed \subseteq ContainerFindings(c, pol)
          /\ ContainerFindings(c, pol) \subseteq signed \cup compared
      BY <1>1, <1>3 DEF ContainerFindings, Incomplete, When
    <2>5. CASE c.signer /\ c.signed = {"lost"}
      <3>1. <<"fail", "container">> \in signed
        BY <2>5 DEF SignerFindings
      <3> QED
        BY <1>3, <2>4, <2>5, <3>1, FoundSeverity
    <2>6. CASE ~(c.signer /\ c.signed = {"lost"})
      <3>1. signed \subseteq {<<"error", "container">>}
        BY <2>6 DEF SignerFindings
      <3>2. \A x \in ContainerFindings(c, pol) : x[1] # "fail"
        BY <2>3, <2>4, <3>1
      <3> QED
        BY <2>6, <3>2, NoneFails
    <2> QED
      BY <2>5, <2>6
  <1> QED
    BY <1>2, <1>3

LEMMA ConfidentialFails ==
  ASSUME NEW h, h.expected # "none"
  PROVE  ConfidentialFailsWhen(h)
  <1> SUFFICES ASSUME h.report \in {"valid", "keyDown", "keyLost"}
               PROVE  "fail" \in Severities(Confidential(h).findings) <=> h.report = "keyLost"
    BY DEF ConfidentialFailsWhen
  <1>1. CASE h.report = "keyLost"
    <2>1. <<"fail", "confidential">> \in Confidential(h).findings
      BY <1>1 DEF Confidential, Result
    <2> QED
      BY <1>1, <2>1, FoundSeverity
  <1>2. CASE h.report # "keyLost"
    <2>1. Confidential(h).findings \subseteq {<<"error", "confidential">>, <<"warn", "confidential">>}
      BY <1>2 DEF Confidential, Result, When
    <2>2. \A x \in Confidential(h).findings : x[1] # "fail"
      BY <2>1
    <2> QED
      BY <1>2, <2>2, NoneFails
  <1> QED
    BY <1>1, <1>2

\* Tools as they are published never fail, nor do packages that could not be
\* fetched or read.
THEOREM ToolsNeverFail ==
  ASSUME NEW g, g.bundled \in BOOLEAN, g.archive \in {"up", "otherVersion", "down"}, NEW pol
  PROVE  GenuineToolsNeverFail(g, pol)
  <1> SUFFICES ASSUME g.beside = "nothing", g.registry # "unknown",
                      g.matches = IF g.bundled /\ g.archive # "otherVersion" THEN "archive" ELSE "registry"
               PROVE  \A x \in GlobalFindings(g, pol) : x[1] # "fail"
    BY NoneFails DEF GenuineToolsNeverFail
  <1>1. GlobalPackage(g, pol) \subseteq {<<"error", "globalPackages">>}
    BY DEF GlobalPackage, When
  <1>2. GlobalFindings(g, pol) \subseteq GlobalPackage(g, pol)
    BY DEF GlobalFindings, When
  <1> QED
    BY <1>1, <1>2

LEMMA PackagesKeepFromFailing ==
  ASSUME NEW p
  PROVE  PackagesNeverFailAlone(p)
  <1> SUFFICES ASSUME "no" \notin p.answers
               PROVE  \A x \in LockFindings(p, "warn") \cup ProvenanceFindings(p.answers) : x[1] # "fail"
    BY NoneFails DEF PackagesNeverFailAlone
  <1>1. LockFindings(p, "warn") \subseteq {<<"warn", "packages">>, <<"error", "packages">>, <<"info", "packages">>}
    BY DEF LockFindings, When
  <1>2. ProvenanceFindings(p.answers) \subseteq {<<"error", "provenance">>}
    BY DEF ProvenanceFindings, When
  <1> QED
    BY <1>1, <1>2


-----------------------------------------------------------------------------
(* What passes                                                             *)

LEMMA NeverFound ==
  ASSUME NEW F, Severities(F) \cap {"fail", "error"} = {}, NEW check
  PROVE  <<"fail", check>> \notin F /\ <<"error", check>> \notin F
  BY FoundSeverity

\* A release that passes is, file by file, the one that was attested, of a
\* commit that is public, for any files of any contents
\* (appraise-directory.js:462-580).
THEOREM PassingReleaseIsAttested ==
  ASSUME NEW m, m.pinned \in BOOLEAN, m.onBranch \in BOOLEAN, m.exists \in BOOLEAN, m.sameCommit \in BOOLEAN,
         m.signer \in BOOLEAN, m.attested \in {"yes", "no", "down", "lost"},
         m.repository \in {"none", "up", "down", "treeDown"}, m.repository = "treeDown" => Found(m),
         \A file \in DOMAIN m.disk : m.release[file] # "unread"
  PROVE  ReleaseIsAttested(m)
  <1> SUFFICES ASSUME Severities(ManifestFindings(m)) \cap {"fail", "error"} = {}
               PROVE  /\ m.attested = "yes" /\ m.sameCommit /\ m.manifest = "onDisk"
                      /\ m.repository # "none" => m.exists /\ (m.onBranch \/ m.pinned)
                      /\ \A file \in DOMAIN m.disk \ m.allowed :
                            m.disk[file] = m.release[file] \/ (m.disk[file] = "unread" /\ m.release[file] = "none")
    BY DEF ReleaseIsAttested
  <1>1. \A check : <<"fail", check>> \notin ManifestFindings(m) /\ <<"error", check>> \notin ManifestFindings(m)
    BY NeverFound
  <1>2. m.signer /\ m.manifest = "onDisk" /\ Signed(m) = "yes"
    <2>1. <<"fail", "artifact">> \notin ManifestFindings(m) /\ <<"error", "artifact">> \notin ManifestFindings(m)
      BY <1>1
    <2> QED
      BY <2>1 DEF ManifestFindings
  <1>3. m.attested = "yes" /\ m.sameCommit
    BY <1>2 DEF Signed
  <1>4. ManifestFindings(m) = SourceFindings(m) \cup Differences(m)
    BY <1>2 DEF ManifestFindings
  <1>5. m.repository # "none" => m.exists /\ (m.onBranch \/ m.pinned)
    <2>1. <<"fail", "source">> \notin SourceFindings(m) /\ <<"error", "source">> \notin SourceFindings(m)
      BY <1>1, <1>4
    <2>2. m.repository \notin {"down", "treeDown"}
      BY <2>1 DEF SourceFindings, When
    <2>3. m.repository = "up" => Found(m) /\ (m.pinned \/ FoundOnBranch(m))
      BY <2>1 DEF SourceFindings, When
    <2> QED
      BY <2>2, <2>3 DEF Found, FoundOnBranch
  <1>6. ASSUME NEW file \in DOMAIN m.disk \ m.allowed
        PROVE  m.disk[file] = m.release[file] \/ (m.disk[file] = "unread" /\ m.release[file] = "none")
    <2>1. /\ <<"fail", "modified">> \notin Differences(m) /\ <<"fail", "missing">> \notin Differences(m)
          /\ <<"fail", "added">> \notin Differences(m)
      BY <1>1, <1>4
    <2>2. m.release[file] # "none" => Reported(m, file) \in {"none", m.release[file]}
      BY <2>1 DEF Differences, When
    <2>3. m.release[file] # "none" => Reported(m, file) # "none"
      BY <2>1 DEF Differences, When
    <2>4. m.release[file] = "none" => Reported(m, file) = "none"
      BY <2>1 DEF Differences, When
    <2> QED
      BY <2>2, <2>3, <2>4 DEF Reported
  <1> QED
    BY <1>2, <1>3, <1>5, <1>6

\* Except below a directory that it deletes, the writable layer tells of
\* contents what a walk of the root filesystem does, for any contents
\* (appraise-container.js:240-278).
THEOREM LayersTellTheSame ==
  ASSUME NEW file, ImageFileRecord(file), NEW pol
  PROVE  LayerTellsTheSame(file, pol)
  <1> SUFFICES ASSUME file.upper # "below"
               PROVE  UpperFindings(file, pol) = RootfsFindings(file, pol) \ {<<"warn", "mode">>}
    BY DEF LayerTellsTheSame
  <1> DEFINE contents == When(Seen(file) # file.image /\ ~(file.image = "none" /\ file.runState), pol, "container")
  <1>1. contents \subseteq {<<pol, "container">>} /\ <<"warn", "mode">> \notin contents
    BY DEF When
  <1>2. RootfsFindings(file, pol) \ {<<"warn", "mode">>} = IF Ignored(file) THEN {} ELSE contents
    BY <1>1 DEF RootfsFindings, When
  <1>3. CASE Ignored(file)
    BY <1>2, <1>3 DEF UpperFindings
  <1>4. CASE ~Ignored(file) /\ file.upper = "same"
    BY <1>2, <1>4 DEF UpperFindings, Seen, When
  <1>5. CASE ~Ignored(file) /\ file.upper = "deleted"
    BY <1>2, <1>5 DEF UpperFindings, Seen, When, ImageFileRecord
  <1>6. CASE ~Ignored(file) /\ file.upper \notin {"same", "deleted"}
    BY <1>2, <1>6 DEF UpperFindings, Seen, When, ImageFileRecord
  <1> QED
    BY <1>3, <1>4, <1>5, <1>6

\* A container that passes runs its image, signed when a signer is configured,
\* and sees the image's files, but for those below a directory that the writable
\* layer deletes where only that layer is told (appraise-container.js:24-288).
THEOREM PassingContainerIsImage ==
  ASSUME NEW c, NEW pol, ImageFileRecord(c.file), c.running \in BOOLEAN, c.repositories \in BOOLEAN,
         c.signer \in BOOLEAN, c.compareFiles \in BOOLEAN, c.image \in {"up", "down", "otherManifest"},
         c.files \in {"rootfs", "upper", "none"}
  PROVE  ContainerIsImage(c, pol)
  <1> DEFINE told == IF c.file.mounted THEN c.file.image = "none"
                     ELSE \/ Seen(c.file) = c.file.image /\ (c.files = "rootfs" => c.file.mode = "same")
                          \/ c.file.image = "none" /\ c.file.runState
                          \/ c.files = "upper" /\ c.file.upper = "below"
  <1> SUFFICES ASSUME ContainerFindings(c, pol) = {}
               PROVE  /\ c.running /\ c.digests # "none" /\ c.image = "up" /\ Contacted(c.registry)
                      /\ c.repositories => c.digests = "allowed"
                      /\ c.signer => "yes" \in c.signed
                      /\ (c.compareFiles /\ ~c.file.runtime /\ ~c.file.allowed) =>
                            c.files # "none" /\ ~c.incomplete /\ told
    BY DEF ContainerIsImage
  <1>1. c.running /\ PinnedImage(c) /\ Contacted(c.registry) /\ c.image # "down"
    BY DEF ContainerFindings
  <1> DEFINE compared == IF c.files = "rootfs" THEN RootfsFindings(c.file, pol)
                         ELSE IF c.files = "upper" THEN UpperFindings(c.file, pol)
                         ELSE {<<"error", "container">>}
  <1>2. /\ When(c.image = "otherManifest", "fail", "container") = {}
        /\ c.signer => SignerFindings(c.signed) = {}
        /\ c.compareFiles => When(Hidden(c.file), pol, "container") = {} /\ Incomplete(c) = {} /\ compared = {}
    BY <1>1 DEF ContainerFindings
  <1>3. c.digests # "none" /\ (c.repositories => c.digests = "allowed")
    BY <1>1 DEF PinnedImage
  <1>4. c.image = "up"
    BY <1>1, <1>2 DEF When
  <1>5. c.signer => "yes" \in c.signed
    BY <1>2 DEF SignerFindings
  <1>6. ASSUME c.compareFiles, ~c.file.runtime, ~c.file.allowed
        PROVE  c.files # "none" /\ ~c.incomplete /\ told
    <2>1. ~Hidden(c.file) /\ ~c.incomplete
      BY <1>2, <1>6 DEF When, Incomplete
    <2>2. c.files # "none"
      BY <1>2, <1>6
    <2>3. CASE c.file.mounted
      BY <1>6, <2>1, <2>2, <2>3 DEF Hidden
    <2>4. CASE ~c.file.mounted /\ c.files = "rootfs"
      <3>1. ~Ignored(c.file) /\ RootfsFindings(c.file, pol) = {}
        BY <1>2, <1>6, <2>4 DEF Ignored
      <3>2. Seen(c.file) = c.file.image \/ (c.file.image = "none" /\ c.file.runState)
        BY <3>1 DEF RootfsFindings, When
      <3>3. Seen(c.file) = c.file.image => c.file.mode = "same"
        BY <3>1 DEF RootfsFindings, When, ImageFileRecord
      <3> QED
        BY <2>1, <2>2, <2>4, <3>2, <3>3
    <2>5. CASE ~c.file.mounted /\ c.files = "upper" /\ c.file.upper # "below"
      <3>1. ~Ignored(c.file) /\ UpperFindings(c.file, pol) = {}
        BY <1>2, <1>6, <2>5 DEF Ignored
      <3>2. RootfsFindings(c.file, pol) \subseteq {<<"warn", "mode">>}
        BY <2>5, <3>1, LayersTellTheSame DEF LayerTellsTheSame
      <3>3. <<pol, "container">> \notin RootfsFindings(c.file, pol)
        BY <3>2
      <3>4. Seen(c.file) = c.file.image \/ (c.file.image = "none" /\ c.file.runState)
        BY <3>1, <3>3 DEF RootfsFindings, When
      <3> QED
        BY <2>1, <2>2, <2>5, <3>4
    <2>6. CASE ~c.file.mounted /\ c.files = "upper" /\ c.file.upper = "below"
      BY <2>1, <2>2, <2>6
    <2> QED
      BY <2>2, <2>3, <2>4, <2>5, <2>6 DEF ImageFileRecord
  <1> QED
    BY <1>1, <1>3, <1>4, <1>5, <1>6

\* An attester without a finding has a published or pinned binary, which the
\* kernel did not measure as another.
LEMMA QuietAttesterIsKnown ==
  ASSUME NEW a, NEW pol \in {"fail", "warn"}, a.name \in {"auditstatus", "allowed", "unknown"},
         a.hashed \in BOOLEAN, a.pinnedHash \in BOOLEAN, a.checksums \in BOOLEAN
  PROVE  AttesterIsKnown(a, pol)
  <1> SUFFICES ASSUME Severities(AttesterFindings(a, pol) \cup AttesterMeasured(a)) \subseteq {"info"}
               PROVE  /\ a.name # "unknown" /\ a.hashed /\ (a.published = "yes" \/ (a.name = "allowed" /\ a.pinnedHash))
                      /\ a.measured # "differs"
    BY DEF AttesterIsKnown
  <1>1. \A severity \in {"fail", "error", "warn"} : <<severity, "attester">> \notin AttesterFindings(a, pol)
    BY QuietMeans
  <1>2. a.name # "unknown" /\ a.hashed /\ (a.published = "yes" \/ (a.name = "allowed" /\ a.pinnedHash))
    BY <1>1 DEF AttesterFindings
  <1>3. <<"fail", "ima">> \notin AttesterMeasured(a)
    BY QuietMeans
  <1> QED
    BY <1>2, <1>3 DEF AttesterMeasured, When


-----------------------------------------------------------------------------
(* The invariants of the appraisal                                         *)

\* The files that the run looks at are such files.
LEMMA FilesAreRecords ==
  ASSUME NEW f \in Files \cup SystemFiles
  PROVE  FileRecord(f)
  <1>1. ASSUME NEW S, NEW m \in SeqOf(S, 2), S \subseteq Content
        PROVE  m \in Seq(Content)
    <2>1. PICK n \in 0..2 : m \in [1..n -> S]
      BY DEF SeqOf
    <2>2. m \in [1..n -> Content]
      BY <1>1, <2>1
    <2> QED
      BY <2>2
  <1>2. CASE f \in Files
    <2>1. /\ f.place \in Places /\ f.claim \in Content \cup {"absent", "unreadable"}
          /\ f.kind \in {"same", "mode", "link"} /\ f.reference \in {"up", "unpinned", "down"}
          /\ f.measured \in SeqOf(Content, 2) /\ f.algorithm \in {"sha256", "other"} /\ f.written \in BOOLEAN /\ f.used \in {"no", "exe"} /\ f.listed \in BOOLEAN
      BY <1>2 DEF Files
    <2>2. /\ f.node = "no" /\ f.configured = "none" /\ f.archive = "none"
          /\ f.reference = "down" => f.place \in {"package", "output"}
      BY <1>2 DEF Files
    <2> QED
      BY <1>1, <2>1, <2>2 DEF FileRecord
  <1>3. CASE f \in SystemFiles
    <2>1. /\ f.place = "outside" /\ f.claim \in {"ref", "bad", "unreadable"} /\ f.kind = "same" /\ f.reference = "up"
          /\ f.measured \in SeqOf({"ref", "bad"}, 2) /\ f.algorithm = "sha256" /\ f.written = FALSE /\ f.used = "exe" /\ f.listed = TRUE
      BY <1>3 DEF SystemFiles
    <2>2. {"ref", "bad"} \subseteq Content
      BY DEF Content
    <2>3. f.measured \in Seq(Content)
      BY <1>1, <2>1, <2>2
    <2> QED
      BY <2>1, <2>3 DEF FileRecord, Places, Content
  <1> QED
    BY <1>2, <1>3

LEMMA SettingsAreRecords ==
  Subjects => SettingRecord(setting) /\ Pol \in {"fail", "warn"}
  BY DEF Subjects, Settings, SettingRecord, Pol

\* What ran is known: the kernel's SHA-256 measurements, running code and what
\* the monitor saw are never dropped (appraise.js:325-421, appraise-code.js:60-377).
THEOREM RunCodeKnown == Spec => []RunCodeIsKnown
  <1>1. Subjects => RunCodeIsKnown
    <2> SUFFICES ASSUME Subjects
                 PROVE  RunCodeIsKnown
      OBVIOUS
    <2>1. subject = "file" => FileRecord(input)
      BY FilesAreRecords DEF Subjects
    <2> QED
      BY <2>1, SettingsAreRecords, KernelIsBelieved, CleanCodeKnown, MonitorKeeps DEF RunCodeIsKnown
  <1> QED
    BY <1>1, InputsAreKnown, PTL

\* What is genuine fails for what could not be fetched in the cases that the
\* invariant names, and in no other (reports.md:13).
THEOREM LostReferencesFail == Spec => []LostReferenceFails
  <1>1. Subjects => LostReferenceFails
    <2> SUFFICES ASSUME Subjects
                 PROVE  LostReferenceFails
      OBVIOUS
    <2>1. subject = "file" => GenuineFailsWhen(input, setting)
      BY FilesAreRecords, SettingsAreRecords, GenuineFilesFailWhen DEF Subjects
    <2>2. ASSUME subject = "release"
          PROVE  ReleaseFailsWhen(input)
      <3>1. /\ input.pinned \in BOOLEAN /\ input.onBranch \in BOOLEAN /\ input.exists \in BOOLEAN
            /\ input.sameCommit \in BOOLEAN /\ input.attested \in {"yes", "no", "down", "lost"}
            /\ input.repository \in {"none", "up", "down", "treeDown"}
            /\ input.git \in {"answers", "noCommit", "noAncestor"}
            /\ input.onBranch => input.exists
            /\ input.repository = "treeDown" => Found(input)
            /\ input.git # "answers" => input.repository \in {"up", "treeDown"}
        BY <2>2 DEF Subjects, Releases
      <3>2. \A file \in DOMAIN input.disk : input.release[file] # "unread"
        BY <2>2 DEF Subjects, Releases
      <3> QED
        BY <3>1, <3>2, GenuineReleaseFailsWhen
    <2>3. ASSUME subject = "container"
          PROVE  ContainerFailsWhen(input, Pol)
      <3>1. /\ input.signer \in BOOLEAN /\ input.image \in {"up", "down", "otherManifest"} /\ input.signed # {}
            /\ input.file \in ImageFiles
        BY <2>3 DEF Subjects, Containers
      <3>2. ImageFileRecord(input.file)
        BY <3>1 DEF ImageFiles, ImageFileRecord
      <3> QED
        BY <3>1, <3>2, ContainersFailWhen
    <2>4. subject = "hardware" => ConfidentialFailsWhen(input)
      BY ConfidentialFails DEF ConfidentialFailsWhen
    <2>5. ASSUME subject = "global"
          PROVE  GenuineToolsNeverFail(input, Pol)
      BY <2>5, ToolsNeverFail DEF Subjects, GlobalPackages
    <2>6. PackagesNeverFailAlone(input)
      BY PackagesKeepFromFailing
    <2> QED
      BY <2>1, <2>2, <2>3, <2>4, <2>5, <2>6 DEF LostReferenceFails
  <1> QED
    BY <1>1, InputsAreKnown, PTL

\* What passes was published: releases, containers and attesters
\* (appraise-directory.js:462-580, appraise-container.js:150-288, appraise.js:
\* 297-303, 587-627).
THEOREM PassingPublished == Spec => []PassingIsPublished
  <1>1. Subjects => PassingIsPublished
    <2> SUFFICES ASSUME Subjects
                 PROVE  PassingIsPublished
      OBVIOUS
    <2>1. ASSUME subject = "release"
          PROVE  ReleaseIsAttested(input)
      <3>1. /\ input.pinned \in BOOLEAN /\ input.onBranch \in BOOLEAN /\ input.exists \in BOOLEAN
            /\ input.sameCommit \in BOOLEAN /\ input.signer \in BOOLEAN /\ input.attested \in {"yes", "no", "down", "lost"}
            /\ input.repository \in {"none", "up", "down", "treeDown"}
            /\ input.repository = "treeDown" => Found(input)
        BY <2>1 DEF Subjects, Releases
      <3>2. \A file \in DOMAIN input.disk : input.release[file] # "unread"
        BY <2>1 DEF Subjects, Releases
      <3> QED
        BY <3>1, <3>2, PassingReleaseIsAttested
    <2>2. ASSUME subject = "container"
          PROVE  ContainerIsImage(input, Pol) /\ LayerTellsTheSame(input.file, Pol)
      <3>1. /\ input.running \in BOOLEAN /\ input.repositories \in BOOLEAN /\ input.signer \in BOOLEAN
            /\ input.compareFiles \in BOOLEAN /\ input.image \in {"up", "down", "otherManifest"}
            /\ input.files \in {"rootfs", "upper", "none"} /\ input.file \in ImageFiles
        BY <2>2 DEF Subjects, Containers
      <3>2. ImageFileRecord(input.file)
        BY <3>1 DEF ImageFiles, ImageFileRecord
      <3> QED
        BY <3>1, <3>2, PassingContainerIsImage, LayersTellTheSame
    <2>3. ASSUME subject = "attester"
          PROVE  AttesterIsKnown(input, Pol)
      <3>1. /\ input.name \in {"auditstatus", "allowed", "unknown"} /\ input.hashed \in BOOLEAN
            /\ input.pinnedHash \in BOOLEAN /\ input.checksums \in BOOLEAN
        BY <2>3 DEF Subjects, Attesters
      <3> QED
        BY <3>1, SettingsAreRecords, QuietAttesterIsKnown
    <2> QED
      BY <2>1, <2>2, <2>3 DEF PassingIsPublished
  <1> QED
    BY <1>1, InputsAreKnown, PTL

-----------------------------------------------------------------------------
(* The verifier's servers                                                  *)

\* What an answer makes the hardware's evidence of a configured server.
LEMMA EnforcedIs ==
  ASSUME NEW s, NEW e \in Answers
  PROVE  /\ "tpm" \in Enforced(s, e).hardware => Set(s.key) /\ e.by = KeyOf(s.key)
         /\ Severities(Enforced(s, e).findings) \cap {"fail", "error"} = {} =>
              /\ Set(s.key) => "tpm" \in Enforced(s, e).hardware
              /\ s.ima = "true" => "ima" \in Enforced(s, e).hardware
              /\ s.confidential = "required" => "cvm" \in Enforced(s, e).hardware
  <1> DEFINE h == [pinned |-> Set(NormalTpm(s).key),
                   quote |-> IF e.by = "none" THEN "none"
                             ELSE IF e.by = KeyOf(NormalTpm(s).key) THEN "valid" ELSE "invalid",
                   tpmRequired |-> FALSE, ima |-> e.ima, pcr10 |-> e.pcr10, imaRequired |-> NormalTpm(s).ima,
                   report |-> e.report, expected |-> NormalConfidential(s), cvmRequired |-> FALSE]
  <1>1. Enforced(s, e) = Hardware(h)
    BY DEF Enforced
  <1>2. NormalTpm(s).key = s.key /\ NormalTpm(s).ima = (s.ima = "true")
    BY DEF NormalTpm
  <1>3. /\ h.pinned = Set(s.key) /\ h.imaRequired = (s.ima = "true") /\ h.ima = e.ima /\ h.pcr10 = e.pcr10
        /\ h.tpmRequired = FALSE /\ h.cvmRequired = FALSE /\ h.report = e.report /\ h.expected = NormalConfidential(s)
        /\ h.quote = "valid" => e.by = KeyOf(s.key)
    BY <1>2
  <1>4. e.ima \in {"none", "edited", "backed"} /\ e.pcr10 \in BOOLEAN /\ e.report \in {"none", "invalid", "valid"}
    BY DEF Answers
  <1>5. /\ NormalConfidential(s) \in {"none", "optional", "required"}
        /\ s.confidential = "required" => NormalConfidential(s) = "required"
    BY DEF NormalConfidential
  <1> HIDE DEF h
  <1>6. HardwareRecord(h)
    BY <1>3, <1>4, <1>5 DEF HardwareRecord, Set
  <1>7. "tpm" \in Hardware(h).hardware => Set(s.key) /\ e.by = KeyOf(s.key)
    BY <1>3, <1>6, HardwareIs
  <1>8. ASSUME Severities(Hardware(h).findings) \cap {"fail", "error"} = {}
        PROVE  /\ Set(s.key) => "tpm" \in Hardware(h).hardware
               /\ s.ima = "true" => "ima" \in Hardware(h).hardware
               /\ s.confidential = "required" => "cvm" \in Hardware(h).hardware
    BY <1>3, <1>5, <1>6, <1>8, HardwareIs
  <1> QED
    BY <1>1, <1>7, <1>8

\* What is asked of a server is what its settings say.
LEMMA AsksFor ==
  ASSUME NEW s, s.unknown = {}, NEW ask \in Asks(s)
  PROVE  \/ ask = "required" /\ s.required = "true" /\ Needs[ask] = "tpm"
         \/ ask = "ima" /\ s.ima = "true" /\ Needs[ask] = "ima"
         \/ ask = "key" /\ Set(s.key) /\ Needs[ask] = "tpm"
         \/ ask = "confidential" /\ s.confidential = "required" /\ Needs[ask] = "cvm"
  BY DEF Asks, Needs

\* What is asked of a server of an accepted configuration is enforced, and no
\* machine answers as two, for any number of servers (config.js:50-147,
\* 516-561, 1011-1034).
THEOREM AskedEnforced ==
  ASSUME NEW servers
  PROVE  AskedIsEnforced(servers) /\ OneMachineEach(servers)
  <1>1. AskedIsEnforced(servers)
    <2> SUFFICES ASSUME AcceptsServers(servers), NEW i \in DOMAIN servers, NEW e \in Answers,
                        Severities(Enforced(servers[i], e).findings) \cap {"fail", "error"} = {},
                        NEW ask \in Asks(servers[i])
                 PROVE  Needs[ask] \in Enforced(servers[i], e).hardware
      BY DEF AskedIsEnforced
    <2>1. /\ servers[i].unknown = {}
          /\ servers[i].required = "true" => Set(servers[i].key)
      BY DEF AcceptsServers, Conforms
    <2> QED
      BY <2>1, AsksFor, EnforcedIs
  <1>2. OneMachineEach(servers)
    <2> SUFFICES ASSUME AcceptsServers(servers), NEW i \in DOMAIN servers, NEW j \in DOMAIN servers, NEW e \in Answers,
                        "tpm" \in Enforced(servers[i], e).hardware, "tpm" \in Enforced(servers[j], e).hardware
                 PROVE  i = j
      BY DEF OneMachineEach
    <2>1. Set(servers[i].key) /\ Set(servers[j].key) /\ KeyOf(servers[i].key) = KeyOf(servers[j].key)
      BY EnforcedIs
    <2> QED
      BY <2>1 DEF AcceptsServers, KeysDiffer
  <1> QED
    BY <1>1, <1>2

-----------------------------------------------------------------------------
(* Services                                                                *)

\* Services as they are normalized.
NormalService(c, s) ==
    [name |-> s.name, repository |-> RepositoryOf(c, s), build |-> BuildOf(c, s), image |-> s.image]

LEMMA NormalServicesAre ==
  ASSUME NEW c, c.services # <<>>
  PROVE  NormalServices(c) = {NormalService(c, c.services[i]) : i \in DOMAIN c.services}
  BY DEF NormalServices, NormalService

\* Every service of an accepted file is one of those that are judged.
LEMMA AsManyServices ==
  ASSUME NEW c, NEW S, c.services \in Seq(S), c.services # <<>>, AcceptsServices(c)
  PROVE  Cardinality(NormalServices(c)) = Len(c.services)
  <1> DEFINE n == Len(c.services)
             f == [i \in 1..n |-> NormalService(c, c.services[i])]
  <1>1. n \in Nat /\ DOMAIN c.services = 1..n
    OBVIOUS
  <1>2. \A i \in 1..n : f[i].name = c.services[i].name /\ f[i] \in NormalServices(c)
    BY <1>1, NormalServicesAre DEF NormalService
  <1>3. \A i, j \in 1..n : f[i] = f[j] => i = j
    <2>1. \A i, j \in 1..n : c.services[i].name = c.services[j].name => i = j
      BY <1>1 DEF AcceptsServices
    <2> HIDE DEF f
    <2> QED
      BY <1>2, <2>1
  <1>4. \A x \in NormalServices(c) : \E i \in 1..n : f[i] = x
    BY <1>1, NormalServicesAre
  <1>5. f \in [1..n -> NormalServices(c)]
    BY <1>2
  <1> HIDE DEF f
  <1>6. f \in Bijection(1..n, NormalServices(c))
    BY <1>3, <1>4, <1>5 DEF Bijection, Injection, Surjection, IsInjective
  <1> QED
    BY <1>1, <1>6, FS_CountingElements DEF ExistsBijection

\* A file of the verifier, with any number of services, and its server's
\* expectations.
ServicesRecord(c) ==
    /\ \E S : c.services \in Seq(S)
    /\ c.repository \in BOOLEAN /\ c.build \in BOOLEAN /\ c.all \in BOOLEAN /\ c.minProcesses \in Nat
    /\ \A i \in DOMAIN c.services : /\ c.services[i].repository \in BOOLEAN /\ c.services[i].image \in BOOLEAN
                                    /\ c.services[i].build \in BOOLEAN

\* Every service that a server is expected to run is judged, or found missing,
\* and only builds that were planned are looked up, for any number of services
\* (config.js:874-939, registry.js:406-418).
THEOREM ExpectedJudged ==
  ASSUME NEW c, ServicesRecord(c)
  PROVE  ExpectedIsJudged(c) /\ BuildsArePlanned(c)
  <1> SUFFICES ASSUME AcceptsServices(c)
               PROVE  ExpectedIsJudged(c) /\ BuildsArePlanned(c)
    BY DEF ExpectedIsJudged, BuildsArePlanned
  <1> DEFINE only == [name |-> "app", repository |-> "top", build |-> IF c.build THEN "top" ELSE "none", image |-> FALSE]
  <1>1. CASE c.services = <<>>
    <2>1. NormalServices(c) = {only}
      BY <1>1 DEF NormalServices
    <2>2. Cardinality(NormalServices(c)) = 1
      BY <2>1, FS_Singleton
    <2>3. c.minProcesses = 0 \/ <<"fail", "processes">> \in
              ExpectedFindings([services |-> {}, processes |-> 0, minProcesses |-> c.minProcesses])
      BY DEF ExpectedFindings, When, ServicesRecord
    <2>4. ExpectedIsJudged(c)
      BY <1>1, <2>1, <2>2, <2>3 DEF ExpectedIsJudged
    <2>5. BuildsArePlanned(c)
      BY <1>1, <2>1 DEF BuildsArePlanned, PlansBuild
    <2> QED
      BY <2>4, <2>5
  <1>2. CASE c.services # <<>>
    <2>1. Cardinality(NormalServices(c)) = Len(c.services)
      BY <1>2, AsManyServices DEF ServicesRecord
    <2>2. ASSUME NEW s \in NormalServices(c)
          PROVE  /\ s.repository # "none" \/ s.image
                 /\ s.image /\ s.build # "none" => s.build = "own"
                 /\ s.build # "none" => c.build \/ \E i \in DOMAIN c.services : c.services[i].build
      <3>1. PICK i \in DOMAIN c.services : s = NormalService(c, c.services[i])
        BY <1>2, NormalServicesAre
      <3>2. s.repository = RepositoryOf(c, c.services[i]) /\ s.build = BuildOf(c, c.services[i])
            /\ s.image = c.services[i].image
        BY <3>1 DEF NormalService
      <3>3. c.services[i].repository \/ c.repository \/ c.services[i].image
        BY DEF AcceptsServices
      <3> QED
        BY <3>2, <3>3 DEF RepositoryOf, BuildOf
    <2>3. c.all \/ c.expected \subseteq {s.name : s \in Wanted(c)}
      <3> SUFFICES ASSUME ~c.all, NEW name \in c.expected
                   PROVE  \E s \in Wanted(c) : s.name = name
        BY DEF ServicesRecord
      <3>1. PICK i \in DOMAIN c.services : name = c.services[i].name
        BY <1>2 DEF AcceptsServices
      <3>2. /\ NormalService(c, c.services[i]) \in NormalServices(c)
            /\ NormalService(c, c.services[i]).name = name
        BY <1>2, <3>1, NormalServicesAre DEF NormalService
      <3> QED
        BY <3>2 DEF Wanted
    <2>4. ExpectedIsJudged(c)
      BY <1>2, <2>1, <2>2, <2>3 DEF ExpectedIsJudged
    <2>5. BuildsArePlanned(c)
      BY <2>2 DEF BuildsArePlanned, PlansBuild
    <2> QED
      BY <2>4, <2>5
  <1> QED
    BY <1>1, <1>2


-----------------------------------------------------------------------------
(* The attester's file                                                     *)

\* Services of the attester's file can be told apart and name what they are,
\* for any number of them (config.js:717-787, evidence.js:841-864).
THEOREM ServicesTold ==
  ASSUME NEW c, \A i \in DOMAIN c.services : c.services[i].filter # "any" /\ c.services[i].root \in BOOLEAN
  PROVE  ServicesAreTold(c)
  <1> SUFFICES ASSUME AcceptsAttester(c), NEW s \in AttesterServices(c)
               PROVE  /\ \A t \in AttesterServices(c) : s.name = t.name => s = t
                      /\ s.root # (s.filter # "absent")
                      /\ ~s.root => \E container \in {"c1", "c2"} : ~Selects(Filters(s), container)
    BY DEF ServicesAreTold
  <1>1. CASE c.services = <<>>
    <2>1. AttesterServices(c) = {[name |-> "app", root |-> TRUE, filter |-> "absent"]}
      BY <1>1 DEF AttesterServices
    <2>2. s = [name |-> "app", root |-> TRUE, filter |-> "absent"]
      BY <2>1
    <2> QED
      BY <2>1, <2>2
  <1>2. CASE c.services # <<>>
    <2>1. AttesterServices(c) = {c.services[i] : i \in DOMAIN c.services}
      BY <1>2 DEF AttesterServices
    <2>2. PICK i \in DOMAIN c.services : s = c.services[i]
      BY <2>1
    <2>3. \A t \in AttesterServices(c) : s.name = t.name => s = t
      BY <2>1, <2>2 DEF AcceptsAttester
    <2>4. s.root = (s.filter = "absent") /\ (s.filter # "absent" => HasFilter(s)) /\ s.filter # "any"
      BY <2>2 DEF AcceptsAttester
    <2>5. ASSUME ~s.root
          PROVE  \E container \in {"c1", "c2"} : ~Selects(Filters(s), container)
      <3>1. s.filter \notin {"absent", "empty", "any"}
        BY <2>4, <2>5 DEF HasFilter
      <3>2. s.filter # "c1" \/ s.filter # "c2"
        OBVIOUS
      <3> QED
        BY <3>1, <3>2 DEF Filters, Selects
    <2> QED
      BY <2>3, <2>4, <2>5
  <1> QED
    BY <1>1, <1>2

\* What an attester reads is what root, or the user it runs as, wrote
\* (config.js:582-710).
THEOREM RootDecidesAll ==
  ASSUME NEW load, load.opened.owner \in {"root", "self", "other"}, load.privileged \in BOOLEAN,
         ~load.opened.writable => load.opened.text.by = load.opened.owner
  PROVE  RootDecides(load)
  <1> SUFFICES ASSUME Loads(load)
               PROVE  /\ TextOf(load).text.by \in {"root"} \cup {who \in {"self"} : ~load.privileged}
                      /\ load.privileged => \A what \in {"ima", "monitor", "entry"} :
                                               TextOf(load).text[what] # [enabled |-> TRUE, at |-> "elsewhere"]
    BY DEF RootDecides
  <1>1. load.opened.text.by \in {"root"} \cup {who \in {"self"} : ~load.privileged}
    BY DEF Loads, TrustedFile
  <1>2. ASSUME load.privileged, NEW what \in {"ima", "monitor", "entry"}
        PROVE  TextOf(load).text[what] # [enabled |-> TRUE, at |-> "elsewhere"]
    <2>1. ~TextOf(load).text[what].enabled \/ TextOf(load).text[what].at = "roots"
      BY <1>2 DEF Loads, RootsPlace
    <2> QED
      BY <2>1
  <1> QED
    BY <1>1, <1>2 DEF TextOf

-----------------------------------------------------------------------------
(* The invariant of the configuration                                      *)


LEMMA VerifierServicesAre ==
  ASSUME NEW c \in VerifierServices
  PROVE  ServicesRecord(c)
  <1> DEFINE Service == [name : {"app", "web"}, repository : BOOLEAN, image : BOOLEAN, build : BOOLEAN]
             U == Service \cup Service
  <1>1. /\ c.repository \in BOOLEAN /\ c.build \in BOOLEAN /\ c.all \in BOOLEAN /\ c.minProcesses \in Nat
        /\ c.services \in UpToTwo(Service, Service)
    BY DEF VerifierServices, UpToTwo
  <1> HIDE DEF Service
  <1>2. c.services \in Seq(U)
    BY <1>1, OneOrTwo
  <1> HIDE DEF U
  <1>3. \A i \in DOMAIN c.services : c.services[i] \in U
    BY <1>2
  <1>4. \A s \in U : s.repository \in BOOLEAN /\ s.image \in BOOLEAN /\ s.build \in BOOLEAN
    BY DEF U, Service
  <1> QED
    BY <1>1, <1>2, <1>3, <1>4 DEF ServicesRecord

LEMMA AttesterServicesAre ==
  ASSUME NEW c \in AttesterFiles
  PROVE  \A i \in DOMAIN c.services : c.services[i].filter # "any" /\ c.services[i].root \in BOOLEAN
  <1> DEFINE Service == [name : {"app", "web"}, root : BOOLEAN, filter : {"absent", "empty", "c1", "c2"}]
             U == Service \cup Service
  <1>1. c.services \in UpToTwo(Service, Service)
    BY DEF AttesterFiles, UpToTwo
  <1> HIDE DEF Service
  <1>2. c.services \in Seq(U)
    BY <1>1, OneOrTwo
  <1> HIDE DEF U
  <1>3. \A i \in DOMAIN c.services : c.services[i] \in U
    BY <1>2
  <1>4. \A s \in U : s.filter # "any" /\ s.root \in BOOLEAN
    BY DEF U, Service
  <1> QED
    BY <1>3, <1>4

\* A configuration that is accepted is enforced as it reads (config.js:50-147,
\* 516-787, 874-939, 1011-1034, registry.js:406-418).
THEOREM ConfigurationMeant == Spec => []ConfigurationIsMeant
  <1>1. Subjects => ConfigurationIsMeant
    <2> SUFFICES ASSUME Subjects
                 PROVE  ConfigurationIsMeant
      OBVIOUS
    <2>1. subject = "services" => ExpectedIsJudged(input) /\ BuildsArePlanned(input)
      BY VerifierServicesAre, ExpectedJudged DEF Subjects
    <2>2. ASSUME subject = "attesterFile"
          PROVE  ServicesAreTold(input)
      <3>1. \A i \in DOMAIN input.services : input.services[i].filter # "any" /\ input.services[i].root \in BOOLEAN
        BY <2>2, AttesterServicesAre DEF Subjects
      <3> QED
        BY <3>1, ServicesTold
    <2>3. ASSUME subject = "loading"
          PROVE  RootDecides(input)
      <3>1. input.privileged \in BOOLEAN /\ input.opened \in FilesRead
        BY <2>3 DEF Subjects, Loading
      <3>2. /\ input.opened.owner \in {"root", "self", "other"}
            /\ ~input.opened.writable => input.opened.text.by = input.opened.owner
        BY <3>1 DEF FilesRead
      <3> QED
        BY <3>1, <3>2, RootDecidesAll
    <2> QED
      BY <2>1, <2>2, <2>3, AskedEnforced DEF ConfigurationIsMeant
  <1> QED
    BY <1>1, InputsAreKnown, PTL

-----------------------------------------------------------------------------
(* Doctor                                                                  *)

\* The parts of what doctor prints.
LEMMA DoctorsParts ==
  ASSUME NEW h
  PROVE  /\ ServiceChecks(h) \subseteq Doctor(h) /\ ContainerChecks(h) \subseteq Doctor(h)
         /\ TpmChecks(h) \subseteq Doctor(h) /\ ConfidentialChecks(h) \subseteq Doctor(h)
         /\ h.distro = "none" => <<"warn", "distro">> \in Doctor(h)
         /\ h.ima = "unreadable" => <<"fail", "ima">> \in Doctor(h)
         /\ h.monitor = "missing" => <<"fail", "monitor">> \in Doctor(h)
  BY DEF Doctor, Add, When

\* A service without its root or account is a problem, as is one without its
\* commit or with processes that cannot be inspected; one without processes is
\* warned of.
LEMMA ServiceForeseen ==
  ASSUME NEW h, h.kind = "directory", h.root \in BOOLEAN
  PROVE  /\ Throws(h) => <<"fail", "service">> \in Doctor(h)
         /\ ~Throws(h) /\ (h.deployed = "neither" \/ (h.running = "other" /\ h.privileges = "user"))
               => <<"fail", "service">> \in Doctor(h)
         /\ ~Throws(h) /\ h.running = "none" => <<"warn", "service">> \in Doctor(h)
  <1>1. Throws(h) => <<"fail", "service">> \in ServiceChecks(h)
    BY DEF Throws, ServiceChecks
  <1>2. ~Throws(h) /\ (h.deployed = "neither" \/ (h.running = "other" /\ h.privileges = "user"))
          => <<"fail", "service">> \in ServiceChecks(h)
    BY DEF Throws, ServiceChecks, Add, When
  <1>3. ~Throws(h) /\ h.running = "none" => <<"warn", "service">> \in ServiceChecks(h)
    BY DEF Throws, ServiceChecks
  <1> QED
    BY <1>1, <1>2, <1>3, DoctorsParts

LEMMA HardwareForeseen ==
  ASSUME NEW h, h.tsm \in BOOLEAN
  PROVE  /\ ~Quotes(h) => \E severity : <<severity, "tpm">> \in Doctor(h)
         /\ h.tpm = "required" /\ h.chip = "none" => <<"fail", "tpm">> \in Doctor(h)
         /\ h.cvm # "off" /\ ~ReportMade(h) /\ (h.tsm \/ h.cvm = "required")
              => \E severity : <<severity, "confidential">> \in Doctor(h)
         /\ h.cvm = "required" /\ ~ReportMade(h) => <<"fail", "confidential">> \in Doctor(h)
  <1>1. ~Quotes(h) => \E severity : <<severity, "tpm">> \in TpmChecks(h)
    BY DEF Quotes, TpmChecks
  <1>2. h.tpm = "required" /\ h.chip = "none" => <<"fail", "tpm">> \in TpmChecks(h)
    BY DEF TpmChecks
  <1>3. h.cvm # "off" /\ ~ReportMade(h) /\ (h.tsm \/ h.cvm = "required")
          => \E severity : <<severity, "confidential">> \in ConfidentialChecks(h)
    BY DEF ReportMade, ConfidentialChecks, Add, When
  <1>4. h.cvm = "required" /\ ~ReportMade(h) => <<"fail", "confidential">> \in ConfidentialChecks(h)
    BY DEF ReportMade, ConfidentialChecks, Add, When
  <1> QED
    BY <1>1, <1>2, <1>3, <1>4, DoctorsParts

\* Something that doctor prints is about this check.
Told(h, check) == \E severity \in {"fail", "warn"} : <<severity, check>> \in Doctor(h)

LEMMA ToldIs ==
  ASSUME NEW h, NEW check, Told(h, check)
  PROVE  \E found \in Doctor(h) : found[2] = check
  <1>1. PICK severity \in {"fail", "warn"} : <<severity, check>> \in Doctor(h)
    BY DEF Told
  <1>2. <<severity, check>>[2] = check
    OBVIOUS
  <1> QED
    BY <1>1, <1>2

\* What the attester lacks is told, at the check that looks for it.
LEMMA LackTold ==
  ASSUME NEW h, h.kind \in {"directory", "container"}, h.root \in BOOLEAN, h.tsm \in BOOLEAN, ~Throws(h)
  PROVE  /\ "tpm" \in Lacks(h) => Told(h, "tpm")
         /\ "ima" \in Lacks(h) => Told(h, "ima")
         /\ "confidential" \in Lacks(h) => Told(h, "confidential")
         /\ "monitor" \in Lacks(h) => Told(h, "monitor")
         /\ "distro" \in Lacks(h) => Told(h, "distro")
         /\ "commit" \in Lacks(h) \/ "processes" \in Lacks(h) \/ "checks" \in Lacks(h) => Told(h, "service")
         /\ "containers" \in Lacks(h) => Told(h, "containers") \/ Told(h, "service")
  <1>1. "tpm" \in Lacks(h) => Told(h, "tpm")
    <2>1. "tpm" \in Lacks(h) => ~Quotes(h)
      BY DEF Lacks
    <2>2. ~Quotes(h) => <<"fail", "tpm">> \in TpmChecks(h) \/ <<"warn", "tpm">> \in TpmChecks(h)
      BY DEF Quotes, TpmChecks
    <2> QED
      BY <2>1, <2>2, DoctorsParts DEF Told
  <1>2. /\ "ima" \in Lacks(h) => h.ima = "unreadable"
        /\ "monitor" \in Lacks(h) => h.monitor = "missing"
        /\ "distro" \in Lacks(h) => h.distro = "none"
    BY DEF Lacks
  <1>3. /\ "ima" \in Lacks(h) => Told(h, "ima")
        /\ "monitor" \in Lacks(h) => Told(h, "monitor")
        /\ "distro" \in Lacks(h) => Told(h, "distro")
    BY <1>2, DoctorsParts DEF Told
  <1>4. "confidential" \in Lacks(h) => Told(h, "confidential")
    <2>1. "confidential" \in Lacks(h) => h.cvm # "off" /\ ~ReportMade(h) /\ (h.tsm \/ h.cvm = "required")
      BY DEF Lacks
    <2>2. h.cvm # "off" /\ ~ReportMade(h) /\ (h.tsm \/ h.cvm = "required")
            => <<"fail", "confidential">> \in ConfidentialChecks(h) \/ <<"warn", "confidential">> \in ConfidentialChecks(h)
      BY DEF ReportMade, ConfidentialChecks, Add, When
    <2> QED
      BY <2>1, <2>2, DoctorsParts DEF Told
  <1>5. "commit" \in Lacks(h) \/ "processes" \in Lacks(h) \/ "checks" \in Lacks(h) => Told(h, "service")
    <2>1. /\ "commit" \in Lacks(h) => h.kind = "directory" /\ h.deployed = "neither"
          /\ "processes" \in Lacks(h) => h.kind = "directory" /\ h.running = "none"
          /\ "checks" \in Lacks(h) => h.kind = "directory" /\ h.running = "other" /\ h.privileges = "user"
      BY DEF Lacks
    <2> QED
      BY <2>1, ServiceForeseen DEF Told
  <1>6. "containers" \in Lacks(h) => Told(h, "containers") \/ Told(h, "service")
    <2>1. "containers" \in Lacks(h) => h.kind # "directory" /\ (h.runtime = "none" \/ h.running = "none")
      BY DEF Lacks
    <2>2. h.kind # "directory" /\ (h.runtime = "none" \/ h.running = "none")
            => <<"fail", "containers">> \in ContainerChecks(h) \/ <<"warn", "service">> \in ContainerChecks(h)
      BY DEF ContainerChecks, Add, When
    <2> QED
      BY <2>1, <2>2, DoctorsParts DEF Told
  <1> QED
    BY <1>1, <1>3, <1>4, <1>5, <1>6

\* What will make an attester's evidence fail or lack something is foreseen,
\* whatever the host is like (doctor.js:86-268).
THEOREM AttesterForeseen ==
  ASSUME NEW h, h.kind \in {"directory", "container"}, h.root \in BOOLEAN, h.tsm \in BOOLEAN
  PROVE  DoctorForesees(h)
  <1>1. Throws(h) => <<"fail", "service">> \in Doctor(h)
    BY ServiceForeseen DEF Throws
  <1>2. ASSUME ~Throws(h), NEW what \in Lacks(h)
        PROVE  \E found \in Doctor(h) : found[2] = Where[what] \/ (what = "containers" /\ found[2] = "service")
    <2>1. what \in {"tpm", "ima", "confidential", "monitor", "distro", "commit", "processes", "checks", "containers"}
      BY DEF Lacks
    <2>2. Told(h, Where[what]) \/ (what = "containers" /\ Told(h, "service"))
      <3>1. CASE what \in {"tpm", "ima", "confidential", "monitor", "distro"}
        <4>1. Where[what] = what
          BY <3>1 DEF Where
        <4>2. Told(h, what)
          BY <1>2, <3>1, LackTold
        <4> QED
          BY <4>1, <4>2
      <3>2. CASE what \in {"commit", "processes", "checks"}
        <4>1. Where[what] = "service"
          BY <3>2 DEF Where
        <4>2. Told(h, "service")
          BY <1>2, <3>2, LackTold
        <4> QED
          BY <4>1, <4>2
      <3>3. CASE what = "containers"
        <4>1. Where[what] = "containers"
          BY <3>3 DEF Where
        <4>2. Told(h, "containers") \/ Told(h, "service")
          BY <1>2, <3>3, LackTold
        <4> QED
          BY <3>3, <4>1, <4>2
      <3> QED
        BY <2>1, <3>1, <3>2, <3>3
    <2>3. Told(h, Where[what]) => \E found \in Doctor(h) : found[2] = Where[what]
      BY ToldIs
    <2>4. Told(h, "service") => \E found \in Doctor(h) : found[2] = "service"
      BY ToldIs
    <2> QED
      BY <2>2, <2>3, <2>4
  <1> QED
    BY <1>1, <1>2, HardwareForeseen DEF DoctorForesees

\* The verifier's doctor has a problem exactly when the audit has an obstacle,
\* whatever is pinned (doctor.js:280-390).
THEOREM VerifierForeseen ==
  ASSUME NEW v, v.sshKey \in BOOLEAN, v.kubectl \in BOOLEAN, v.distro \in BOOLEAN, v.tools \in BOOLEAN, v.build \in BOOLEAN
  PROVE  VerifierForesees(v)
  <1> DEFINE obstacle == \/ v.transport = "ssh" /\ (~v.sshKey \/ LookedUp(v, v.server) \notin v.known)
                         \/ v.transport = "kubernetes" /\ ~v.kubectl
                         \/ v.distro /\ ~v.tools
                         \/ v.repository = "unreachable"
                         \/ v.build /\ v.repository # "none" /\ Account(v) = "unusable"
  <1>1. Obstacles(v) # {} <=> obstacle
    BY DEF Obstacles, Add, When
  <1>2. ASSUME obstacle
        PROVE  "fail" \in Severities(VerifierDoctor(v))
    <2>1. \E check : <<"fail", check>> \in VerifierDoctor(v)
      <3>1. CASE v.transport = "ssh" /\ (~v.sshKey \/ LookedUp(v, v.server) \notin v.known)
        <4>1. <<"fail", "server">> \in VerifierDoctor(v) \/ <<"fail", "ssh">> \in VerifierDoctor(v)
          BY <3>1 DEF VerifierDoctor, Pinned, Add, When
        <4> QED
          BY <4>1
      <3>2. CASE v.transport = "kubernetes" /\ ~v.kubectl
        <4>1. <<"fail", "kubernetes">> \in VerifierDoctor(v)
          BY <3>2 DEF VerifierDoctor, Add, When
        <4> QED
          BY <4>1
      <3>3. CASE v.distro /\ ~v.tools
        <4>1. <<"fail", "distro">> \in VerifierDoctor(v)
          BY <3>3 DEF VerifierDoctor, Add, When
        <4> QED
          BY <4>1
      <3>4. CASE v.repository = "unreachable"
        <4>1. <<"fail", "service">> \in VerifierDoctor(v)
          BY <3>4 DEF VerifierDoctor, Add, When
        <4> QED
          BY <4>1
      <3>5. CASE v.build /\ v.repository # "none" /\ Account(v) = "unusable"
        <4>1. <<"fail", "build">> \in VerifierDoctor(v)
          BY <3>5 DEF VerifierDoctor, Add, When
        <4> QED
          BY <4>1
      <3> QED
        BY <1>2, <3>1, <3>2, <3>3, <3>4, <3>5
    <2> QED
      BY <2>1, FoundSeverity
  <1>3. ASSUME ~obstacle
        PROVE  "fail" \notin Severities(VerifierDoctor(v))
    <2>1. VerifierDoctor(v) \subseteq {<<"warn", "build">>, <<"warn", "server">>}
      BY <1>3 DEF VerifierDoctor, Pinned, Add, When
    <2>2. \A x \in VerifierDoctor(v) : x[1] # "fail"
      BY <2>1
    <2> QED
      BY <2>2, NoneFails
  <1> QED
    BY <1>1, <1>2, <1>3 DEF VerifierForesees

\* Doctor tells what will be lacking, and what will be in the way.
THEOREM DoctorsTell == Spec => []DoctorTells
  <1>1. Subjects => DoctorTells
    <2> SUFFICES ASSUME Subjects
                 PROVE  DoctorTells
      OBVIOUS
    <2>1. ASSUME subject = "host"
          PROVE  input.kind \in {"directory", "container"} /\ input.root \in BOOLEAN /\ input.tsm \in BOOLEAN
      <3>1. input \in Hosts
        BY <2>1 DEF Subjects
      <3> QED
        BY <3>1 DEF Hosts
    <2>2. ASSUME subject = "verifier"
          PROVE  /\ input.sshKey \in BOOLEAN /\ input.kubectl \in BOOLEAN /\ input.distro \in BOOLEAN
                 /\ input.tools \in BOOLEAN /\ input.build \in BOOLEAN
      BY <2>2 DEF Subjects, Verifiers
    <2> QED
      BY <2>1, <2>2, AttesterForeseen, VerifierForeseen DEF DoctorTells
  <1> QED
    BY <1>1, InputsAreKnown, PTL


-----------------------------------------------------------------------------
(* The commit of a checkout                                                *)

\* While no loose ref is there, nothing changes the packed one: git packs what
\* is loose.  Then what is read, the loose ref and the packed ones after it, is
\* the commit at the first read, however long the history is.
LEMMA LooseThenPacked ==
  ASSUME NEW history,
         \A i \in DOMAIN history : i \in Int,
         \A i, j \in DOMAIN history : i <= j /\ history[i].loose = "none" => history[j].packed = history[i].packed
  PROVE  \A i, j \in DOMAIN history :
            i <= j => ReadGitHead(history[i], history[j]) \in {At(history[n]) : n \in i..j}
  <1> SUFFICES ASSUME NEW i \in DOMAIN history, NEW j \in DOMAIN history, i <= j
               PROVE  ReadGitHead(history[i], history[j]) \in {At(history[n]) : n \in i..j}
    OBVIOUS
  <1>1. ReadGitHead(history[i], history[j]) = At(history[i])
    BY DEF ReadGitHead, At
  <1>2. i \in i..j
    OBVIOUS
  <1> QED
    BY <1>1, <1>2

\* The commit reported is one that the checkout was at while it was read
\* (evidence.js:111-164).
THEOREM CommitIsRead ==
  ASSUME NEW L, NEW P, NEW g \in [loose : L, packed : P]
  PROVE  CommitWasCheckedOut(g)
  <1> SUFFICES ASSUME NEW history \in Histories(g)
               PROVE  \A i, j \in DOMAIN history :
                         i <= j => ReadGitHead(history[i], history[j]) \in {At(history[n]) : n \in i..j}
    BY DEF CommitWasCheckedOut
  <1>1. /\ Updated(g, "c3").loose = "c3" /\ Updated(g, "c3").packed = g.packed
        /\ PackedRef(g).loose = g.loose /\ PackedRef(g).packed = g.loose
        /\ Pruned(PackedRef(g)).loose = "none" /\ Pruned(PackedRef(g)).packed = g.loose
        /\ Updated(Pruned(PackedRef(g)), "c3").loose = "c3" /\ Updated(Pruned(PackedRef(g)), "c3").packed = g.loose
    BY DEF Updated, PackedRef, Pruned
  <1>2. CASE history = <<g>>
    BY <1>2, LooseThenPacked
  <1>3. CASE history = <<g, Updated(g, "c3")>>
    <2> DEFINE u == Updated(g, "c3")
    <2>1. u.packed = g.packed
      BY <1>1
    <2> HIDE DEF u
    <2>2. DOMAIN history = {1, 2} /\ history[1] = g /\ history[2] = u
      BY <1>3 DEF u
    <2>3. \A i, j \in DOMAIN history : i <= j /\ history[i].loose = "none" => history[j].packed = history[i].packed
      BY <2>1, <2>2
    <2> QED
      BY <2>2, <2>3, LooseThenPacked
  <1>4. ASSUME g.loose # "none", history = <<g, PackedRef(g), Pruned(PackedRef(g))>>
        PROVE  \A i, j \in DOMAIN history :
                  i <= j => ReadGitHead(history[i], history[j]) \in {At(history[n]) : n \in i..j}
    <2> DEFINE p == PackedRef(g)
               d == Pruned(PackedRef(g))
    <2>1. p.loose # "none"
      BY <1>1, <1>4
    <2> HIDE DEF p, d
    <2>2. DOMAIN history = {1, 2, 3} /\ history[1] = g /\ history[2] = p /\ history[3] = d
      BY <1>4 DEF p, d
    <2>3. \A i, j \in DOMAIN history : i <= j /\ history[i].loose = "none" => history[j].packed = history[i].packed
      BY <1>4, <2>1, <2>2
    <2> QED
      BY <2>2, <2>3, LooseThenPacked
  <1>5. ASSUME g.loose # "none",
               history = <<g, PackedRef(g), Pruned(PackedRef(g)), Updated(Pruned(PackedRef(g)), "c3")>>
        PROVE  \A i, j \in DOMAIN history :
                  i <= j => ReadGitHead(history[i], history[j]) \in {At(history[n]) : n \in i..j}
    <2> DEFINE p == PackedRef(g)
               d == Pruned(PackedRef(g))
               u == Updated(Pruned(PackedRef(g)), "c3")
    <2>1. p.loose # "none" /\ u.loose # "none" /\ u.packed = d.packed
      BY <1>1, <1>4, <1>5
    <2> HIDE DEF p, d, u
    <2>2. DOMAIN history = {1, 2, 3, 4} /\ history[1] = g /\ history[2] = p /\ history[3] = d /\ history[4] = u
      BY <1>5 DEF p, d, u
    <2>3. \A i, j \in DOMAIN history : i <= j /\ history[i].loose = "none" => history[j].packed = history[i].packed
      BY <1>5, <2>1, <2>2
    <2> QED
      BY <2>2, <2>3, LooseThenPacked
  <1> QED
    BY <1>2, <1>3, <1>4, <1>5 DEF Histories

-----------------------------------------------------------------------------
(* Enrollment                                                              *)

\* Entries of servers whose keys are written without white space.
EntriesOf(Names, Values) ==
    [name : Names, required : Values, ima : Values, key : Values \ {"k1wrapped"}, confidential : Values,
     addressed : BOOLEAN, unknown : SUBSET Values]

\* What an enrollment leaves of an entry.
LEMMA EnrolledEntry ==
  ASSUME NEW Names, NEW Values, NEW s \in EntriesOf(Names, Values), NEW key, NEW ima
  PROVE  /\ Enrolled(s, key, ima).name = s.name /\ Enrolled(s, key, ima).confidential = s.confidential
         /\ Enrolled(s, key, ima).addressed = s.addressed /\ Enrolled(s, key, ima).unknown = s.unknown
         /\ Enrolled(s, key, ima).key = key /\ Enrolled(s, key, ima).required = "true"
         /\ Enrolled(s, key, ima).ima = IF ima THEN "true" ELSE "absent"
  BY DEF EntriesOf, Enrolled

\* The key that `tpm-verify --write' wrote is required of its server, and what
\* the others were asked they still are, for any number of servers
\* (registry.js:499-525).
THEOREM EnrolledAsked ==
  ASSUME NEW Names, NEW Values, NEW e, e.ima \in BOOLEAN,
         \A i \in DOMAIN e.servers : e.servers[i] \in EntriesOf(Names, Values),
         \A i \in DOMAIN e.servers : e.found[e.servers[i].name] \notin {"malformed", "k1wrapped"}
  PROVE  EnrolledIsRequired(e)
  <1> DEFINE after == WithTpmKeys(e.servers, e.found, e.ima)
  <1> SUFFICES ASSUME AcceptsServers(e.servers)
               PROVE  /\ \A i \in DOMAIN after, answer \in Answers :
                            Severities(Enforced(after[i], answer).findings) \cap {"fail", "error"} = {} =>
                              /\ Set(e.found[after[i].name]) =>
                                    answer.by = e.found[after[i].name] /\ "tpm" \in Enforced(after[i], answer).hardware
                              /\ Set(e.found[after[i].name]) /\ e.ima => "ima" \in Enforced(after[i], answer).hardware
                              /\ \A ask \in Asks(e.servers[i]) :
                                    ~(Set(e.found[after[i].name]) /\ ask = "ima" /\ ~e.ima)
                                      => Needs[ask] \in Enforced(after[i], answer).hardware
                      /\ AcceptsServers(after) \/ \E i, j \in DOMAIN after : i # j /\ after[i].key = after[j].key
    BY DEF EnrolledIsRequired
  <1>1. DOMAIN after = DOMAIN e.servers
    BY DEF WithTpmKeys
  <1>2. ASSUME NEW i \in DOMAIN after
        PROVE  /\ after[i].name = e.servers[i].name /\ after[i].confidential = e.servers[i].confidential
               /\ after[i].addressed = e.servers[i].addressed /\ after[i].unknown = e.servers[i].unknown
               /\ after[i].key \notin {"malformed", "k1wrapped"}
               /\ Set(e.found[e.servers[i].name]) =>
                     /\ after[i].key = e.found[e.servers[i].name] /\ after[i].required = "true"
                     /\ after[i].ima = IF e.ima THEN "true" ELSE "absent"
               /\ ~Set(e.found[e.servers[i].name]) => after[i] = e.servers[i]
    <2> DEFINE key == e.found[e.servers[i].name]
    <2>1. after[i] = IF Set(key) THEN Enrolled(e.servers[i], key, e.ima) ELSE e.servers[i]
      BY <1>1 DEF WithTpmKeys
    <2>2. e.servers[i] \in EntriesOf(Names, Values) /\ key \notin {"malformed", "k1wrapped"}
      BY <1>1
    <2>3. e.servers[i].key \notin {"malformed", "k1wrapped"}
      BY <1>1, <2>2 DEF EntriesOf, AcceptsServers, Conforms
    <2> HIDE DEF after, key
    <2>4. CASE Set(key)
      <3> DEFINE s == e.servers[i]
      <3>1. s \in EntriesOf(Names, Values)
        BY <2>2
      <3> HIDE DEF s
      <3>2. /\ Enrolled(s, key, e.ima).name = s.name /\ Enrolled(s, key, e.ima).confidential = s.confidential
            /\ Enrolled(s, key, e.ima).addressed = s.addressed /\ Enrolled(s, key, e.ima).unknown = s.unknown
            /\ Enrolled(s, key, e.ima).key = key /\ Enrolled(s, key, e.ima).required = "true"
            /\ Enrolled(s, key, e.ima).ima = IF e.ima THEN "true" ELSE "absent"
        BY <3>1, EnrolledEntry
      <3>3. after[i] = Enrolled(s, key, e.ima)
        BY <2>1, <2>4 DEF s
      <3> QED
        BY <2>2, <2>4, <3>2, <3>3 DEF s, key
    <2>5. CASE ~Set(key)
      BY <2>1, <2>3, <2>5 DEF key
    <2> QED
      BY <2>4, <2>5
  <1> HIDE DEF after
  <1>3. ASSUME NEW i \in DOMAIN after, NEW answer \in Answers,
               Severities(Enforced(after[i], answer).findings) \cap {"fail", "error"} = {}
        PROVE  /\ Set(e.found[after[i].name]) =>
                     answer.by = e.found[after[i].name] /\ "tpm" \in Enforced(after[i], answer).hardware
               /\ Set(e.found[after[i].name]) /\ e.ima => "ima" \in Enforced(after[i], answer).hardware
               /\ \A ask \in Asks(e.servers[i]) :
                     ~(Set(e.found[after[i].name]) /\ ask = "ima" /\ ~e.ima)
                        => Needs[ask] \in Enforced(after[i], answer).hardware
    <2>1. /\ "tpm" \in Enforced(after[i], answer).hardware => answer.by = after[i].key
          /\ Set(after[i].key) => "tpm" \in Enforced(after[i], answer).hardware
          /\ after[i].ima = "true" => "ima" \in Enforced(after[i], answer).hardware
          /\ after[i].confidential = "required" => "cvm" \in Enforced(after[i], answer).hardware
      BY <1>2, <1>3, EnforcedIs DEF KeyOf
    <2>2. Set(e.found[after[i].name]) =>
             answer.by = e.found[after[i].name] /\ "tpm" \in Enforced(after[i], answer).hardware
      BY <1>2, <2>1
    <2>3. Set(e.found[after[i].name]) /\ e.ima => "ima" \in Enforced(after[i], answer).hardware
      BY <1>2, <2>1
    <2>4. ASSUME NEW ask \in Asks(e.servers[i]), ~(Set(e.found[after[i].name]) /\ ask = "ima" /\ ~e.ima)
          PROVE  Needs[ask] \in Enforced(after[i], answer).hardware
      <3>1. /\ e.servers[i].unknown = {}
            /\ (e.servers[i].required = "true" \/ e.servers[i].ima = "true") => Set(e.servers[i].key)
        BY <1>1 DEF AcceptsServers, Conforms
      <3>2. Set(e.servers[i].key) => Set(after[i].key)
        BY <1>2
      <3>3. e.servers[i].ima = "true" /\ ask = "ima" => after[i].ima = "true"
        BY <1>2, <2>4
      <3> QED
        BY <1>2, <2>1, <2>4, <3>1, <3>2, <3>3, AsksFor
    <2> QED
      BY <2>2, <2>3, <2>4
  <1>4. ASSUME \A i, j \in DOMAIN after : i # j => after[i].key # after[j].key
        PROVE  AcceptsServers(after)
    <2>1. ASSUME NEW i \in DOMAIN after
          PROVE  /\ Conforms({after[i].required, after[i].ima, after[i].key, after[i].confidential}, after[i].unknown)
                 /\ after[i].addressed
                 /\ (after[i].required = "true" \/ after[i].ima = "true") => Set(after[i].key)
      <3>1. LET s == e.servers[i]
            IN  /\ Conforms({s.required, s.ima, s.key, s.confidential}, s.unknown)
                /\ s.addressed
                /\ (s.required = "true" \/ s.ima = "true") => Set(s.key)
        BY <1>1 DEF AcceptsServers
      <3>2. CASE ~Set(e.found[e.servers[i].name])
        BY <1>2, <3>1, <3>2
      <3>3. CASE Set(e.found[e.servers[i].name])
        <4>1. /\ after[i].required # "malformed" /\ after[i].ima # "malformed" /\ after[i].key # "malformed"
              /\ after[i].confidential # "malformed" /\ after[i].unknown = {} /\ after[i].addressed
              /\ Set(after[i].key)
          BY <1>2, <3>1, <3>3 DEF Conforms
        <4> QED
          BY <4>1 DEF Conforms
      <3> QED
        BY <3>2, <3>3
    <2>2. ASSUME NEW i \in DOMAIN after, NEW j \in DOMAIN after, i # j
          PROVE  after[i].name # after[j].name /\ KeysDiffer(after[i], after[j])
      <3>1. e.servers[i].name # e.servers[j].name
        BY <1>1, <2>2 DEF AcceptsServers
      <3> QED
        BY <1>2, <1>4, <2>2, <3>1 DEF KeysDiffer, KeyOf
    <2> QED
      BY <2>1, <2>2 DEF AcceptsServers
  <1> QED
    BY <1>3, <1>4


-----------------------------------------------------------------------------
(* Host keys                                                               *)

\* Servers of a project's file, each with a host and a port of its own or the
\* file's; a port is none of the words for how a host is written.
IsProject(f) ==
    /\ f = [sshPort |-> f.sshPort, after |-> f.after, lines |-> f.lines, servers |-> f.servers]
    /\ f.sshPort # "bare"
    /\ \A i \in DOMAIN f.servers :
          /\ f.servers[i] = [name |-> f.servers[i].name, host |-> f.servers[i].host, port |-> f.servers[i].port,
                             hostKeys |-> f.servers[i].hostKeys]
          /\ f.servers[i].port # "bare"

\* What is written: the keys of a server's lines, where there are any.
LEMMA HostKeysWritten ==
  ASSUME NEW f, IsProject(f), NEW lines
  PROVE  /\ WithHostKeys(f, lines).sshPort = f.sshPort
         /\ DOMAIN WithHostKeys(f, lines).servers = DOMAIN f.servers
         /\ \A i \in DOMAIN f.servers :
               LET s == f.servers[i]
                   t == WithHostKeys(f, lines).servers[i]
               IN  /\ t.name = s.name /\ t.host = s.host /\ t.port = s.port
                   /\ LinesOf(f, s, lines) = {} => t.hostKeys = s.hostKeys /\ t = s
                   /\ LinesOf(f, s, lines) # {} =>
                         t.hostKeys = {[hosts |-> {}, key |-> k.key] : k \in LinesOf(f, s, lines)}
  <1> DEFINE written(i) == LET found == LinesOf(f, f.servers[i], lines)
                           IN  IF found = {} THEN f.servers[i]
                               ELSE [f.servers[i] EXCEPT !.hostKeys = {[hosts |-> {}, key |-> k.key] : k \in found}]
             all == [i \in DOMAIN f.servers |-> written(i)]
  <1>1. WithHostKeys(f, lines) = [f EXCEPT !.servers = all]
    BY DEF WithHostKeys
  <1>2. DOMAIN all = DOMAIN f.servers /\ \A i \in DOMAIN f.servers : all[i] = written(i)
    OBVIOUS
  <1>3. ASSUME NEW i \in DOMAIN f.servers
        PROVE  LET s == f.servers[i]
                   t == written(i)
               IN  /\ t.name = s.name /\ t.host = s.host /\ t.port = s.port
                   /\ LinesOf(f, s, lines) = {} => t.hostKeys = s.hostKeys /\ t = s
                   /\ LinesOf(f, s, lines) # {} =>
                         t.hostKeys = {[hosts |-> {}, key |-> k.key] : k \in LinesOf(f, s, lines)}
    <2> DEFINE keys == {[hosts |-> {}, key |-> k.key] : k \in LinesOf(f, f.servers[i], lines)}
    <2>1. written(i) = IF LinesOf(f, f.servers[i], lines) = {} THEN f.servers[i]
                       ELSE [f.servers[i] EXCEPT !.hostKeys = keys]
      OBVIOUS
    <2> HIDE DEF written, keys
    <2>2. f.servers[i] = [name |-> f.servers[i].name, host |-> f.servers[i].host, port |-> f.servers[i].port,
                          hostKeys |-> f.servers[i].hostKeys]
      BY DEF IsProject
    <2>3. /\ LinesOf(f, f.servers[i], lines) = {} => written(i) = f.servers[i]
          /\ LinesOf(f, f.servers[i], lines) # {} => written(i) = [f.servers[i] EXCEPT !.hostKeys = keys]
      BY <2>1
    <2>4. LET t == [f.servers[i] EXCEPT !.hostKeys = keys]
          IN  /\ t.name = f.servers[i].name /\ t.host = f.servers[i].host /\ t.port = f.servers[i].port
              /\ t.hostKeys = keys
      BY <2>2
    <2> QED
      BY <2>3, <2>4 DEF keys
  <1> HIDE DEF written, all
  <1>4. [f EXCEPT !.servers = all].sshPort = f.sshPort /\ [f EXCEPT !.servers = all].servers = all
    BY DEF IsProject
  <1> QED
    BY <1>1, <1>2, <1>3, <1>4

\* Two servers that ssh looks up by one name have one host and one port.
LEMMA LookedUpOnce ==
  ASSUME NEW f, IsProject(f), NEW i \in DOMAIN f.servers, NEW j \in DOMAIN f.servers,
         LookedUp(f, f.servers[i]) = LookedUp(f, f.servers[j])
  PROVE  f.servers[i].host = f.servers[j].host /\ PortOf(f, f.servers[i]) = PortOf(f, f.servers[j])
  <1>1. PortOf(f, f.servers[i]) # "bare" /\ PortOf(f, f.servers[j]) # "bare"
    BY DEF IsProject, PortOf
  <1> QED
    BY <1>1 DEF LookedUp

\* The keys of a name are those of the servers that ssh looks up by it.
LEMMA PinnedFrom ==
  ASSUME NEW f, NEW name, NEW k,
         k \in UNION {known.keys : known \in {x \in KnownHosts(f) : x.name = name}}
  PROVE  \E j \in DOMAIN f.servers : LookedUp(f, f.servers[j]) = name /\ k \in f.servers[j].hostKeys
  <1>1. PICK known \in KnownHosts(f) : known.name = name /\ k \in known.keys
    OBVIOUS
  <1>2. PICK j \in DOMAIN f.servers : known = [name |-> LookedUp(f, f.servers[j]), keys |-> f.servers[j].hostKeys]
    BY <1>1 DEF KnownHosts
  <1> QED
    BY <1>1, <1>2

\* What `host-keys --write' pins is what was read at the server's address, or
\* what the file had, and a server that is contacted has one; for any number of
\* servers and of lines (registry.js:235-296, 434-482).
THEOREM KeysRead ==
  ASSUME NEW f, IsProject(f)
  PROVE  KeysAreTheServers(f)
  <1> DEFINE g == WithHostKeys(f, f.lines)
             written(i) == {[hosts |-> {}, key |-> k.key] : k \in LinesOf(f, f.servers[i], f.lines)}
  <1>1. g.sshPort = f.sshPort /\ DOMAIN g.servers = DOMAIN f.servers
    BY HostKeysWritten
  <1>2. \A i \in DOMAIN f.servers :
            /\ g.servers[i].name = f.servers[i].name /\ g.servers[i].host = f.servers[i].host
            /\ g.servers[i].port = f.servers[i].port
            /\ LinesOf(f, f.servers[i], f.lines) = {} =>
                  g.servers[i].hostKeys = f.servers[i].hostKeys /\ g.servers[i] = f.servers[i]
            /\ LinesOf(f, f.servers[i], f.lines) # {} => g.servers[i].hostKeys = written(i)
    BY HostKeysWritten
  <1>3. \A i \in DOMAIN f.servers : \A k \in written(i) :
            k.hosts = {} /\ k.key \in {x.key : x \in LinesOf(f, f.servers[i], f.lines)}
    OBVIOUS
  <1>4. \A i \in DOMAIN f.servers : LinesOf(f, f.servers[i], f.lines) # {} => written(i) # {}
    OBVIOUS
  <1> HIDE DEF g, written
  <1>5. \A i \in DOMAIN f.servers : /\ PortOf(g, g.servers[i]) = PortOf(f, f.servers[i])
                                    /\ PortOf(f, g.servers[i]) = PortOf(f, f.servers[i])
                                    /\ LookedUp(g, g.servers[i]) = LookedUp(f, f.servers[i])
                                    /\ LookedUp(f, g.servers[i]) = LookedUp(f, f.servers[i])
    BY <1>1, <1>2 DEF PortOf, LookedUp
  <1> SUFFICES ASSUME Accepts(f)
               PROVE  /\ Accepts(g) /\ Pending(g) \subseteq Pending(f)
                      /\ \A i \in DOMAIN g.servers :
                            LET s == g.servers[i]
                                port == PortOf(f, s)
                                pinned == {k.key : k \in UNION {known.keys :
                                             known \in {x \in KnownHosts(g) : x.name = LookedUp(f, s)}}}
                                had == {k.key : k \in UNION {f.servers[j].hostKeys :
                                          j \in {n \in DOMAIN f.servers : LookedUp(f, f.servers[n]) = LookedUp(f, s)}}}
                                read == {k.key : k \in {x \in f.lines : \/ <<s.host, port>> \in x.hosts
                                                                        \/ port = "22" /\ <<s.host, "bare">> \in x.hosts}}
                            IN  pinned \subseteq had \cup read /\ (s \notin Pending(g) => pinned # {})
    BY <1>1 DEF KeysAreTheServers, g
  <1>6. Accepts(g)
    <2>1. \A i, j \in DOMAIN g.servers : i # j => g.servers[i].name # g.servers[j].name
      BY <1>1, <1>2 DEF Accepts
    <2>2. ASSUME NEW i \in DOMAIN g.servers, NEW k \in g.servers[i].hostKeys
          PROVE  /\ k.key # "bad"
                 /\ k.hosts = {} \/ {<<g.servers[i].host, "bare">>, <<g.servers[i].host, PortOf(g, g.servers[i])>>}
                                       \cap k.hosts # {}
      <3>1. CASE LinesOf(f, f.servers[i], f.lines) = {}
        BY <1>1, <1>2, <1>5, <3>1 DEF Accepts
      <3>2. CASE LinesOf(f, f.servers[i], f.lines) # {}
        <4>0. k \in written(i)
          BY <1>1, <1>2, <2>2, <3>2
        <4>1. PICK x \in LinesOf(f, f.servers[i], f.lines) : k.key = x.key /\ k.hosts = {}
          BY <1>1, <1>3, <4>0
        <4> QED
          BY <4>1 DEF LinesOf
      <3> QED
        BY <3>1, <3>2
    <2> QED
      BY <2>1, <2>2 DEF Accepts
  <1>7. Pending(g) \subseteq Pending(f)
    <2> SUFFICES ASSUME NEW i \in DOMAIN g.servers, g.servers[i].hostKeys = {}
                 PROVE  g.servers[i] \in Pending(f)
      BY DEF Pending
    <2>1. LinesOf(f, f.servers[i], f.lines) = {}
      BY <1>1, <1>2, <1>4
    <2> QED
      BY <1>1, <1>2, <2>1 DEF Pending
  <1>8. ASSUME NEW i \in DOMAIN g.servers
        PROVE  LET s == g.servers[i]
                   port == PortOf(f, s)
                   pinned == {k.key : k \in UNION {known.keys :
                                known \in {x \in KnownHosts(g) : x.name = LookedUp(f, s)}}}
                   had == {k.key : k \in UNION {f.servers[j].hostKeys :
                             j \in {n \in DOMAIN f.servers : LookedUp(f, f.servers[n]) = LookedUp(f, s)}}}
                   read == {k.key : k \in {x \in f.lines : \/ <<s.host, port>> \in x.hosts
                                                           \/ port = "22" /\ <<s.host, "bare">> \in x.hosts}}
               IN  pinned \subseteq had \cup read /\ (s \notin Pending(g) => pinned # {})
    <2> DEFINE s == g.servers[i]
               port == PortOf(f, s)
               keys == UNION {known.keys : known \in {x \in KnownHosts(g) : x.name = LookedUp(f, s)}}
               before == UNION {f.servers[j].hostKeys :
                           j \in {n \in DOMAIN f.servers : LookedUp(f, f.servers[n]) = LookedUp(f, s)}}
               lines == {x \in f.lines : \/ <<s.host, port>> \in x.hosts
                                         \/ port = "22" /\ <<s.host, "bare">> \in x.hosts}
    <2>1. ASSUME NEW k \in keys
          PROVE  (\E x \in before : x.key = k.key) \/ (\E x \in lines : x.key = k.key)
      <3>1. PICK j \in DOMAIN g.servers : LookedUp(g, g.servers[j]) = LookedUp(f, s) /\ k \in g.servers[j].hostKeys
        BY <2>1, PinnedFrom
      <3>2. j \in DOMAIN f.servers /\ LookedUp(f, f.servers[j]) = LookedUp(f, f.servers[i]) /\ i \in DOMAIN f.servers
        BY <1>1, <1>5, <3>1
      <3>3. CASE LinesOf(f, f.servers[j], f.lines) = {}
        <4>1. k \in f.servers[j].hostKeys
          BY <1>2, <3>1, <3>2, <3>3
        <4>2. LookedUp(f, f.servers[j]) = LookedUp(f, s)
          BY <1>5, <3>2
        <4> QED
          BY <3>2, <4>1, <4>2
      <3>4. CASE LinesOf(f, f.servers[j], f.lines) # {}
        <4>0. k \in written(j)
          BY <1>2, <3>1, <3>2, <3>4
        <4>1. PICK x \in LinesOf(f, f.servers[j], f.lines) : k.key = x.key
          BY <1>3, <3>2, <4>0
        <4>2. f.servers[j].host = s.host /\ PortOf(f, f.servers[j]) = port
          BY <1>2, <1>5, <3>2, LookedUpOnce
        <4>3. x \in lines
          BY <4>1, <4>2 DEF LinesOf
        <4> QED
          BY <4>1, <4>3
      <3> QED
        BY <3>3, <3>4
    <2>2. ASSUME s \notin Pending(g)
          PROVE  keys # {}
      <3>1. PICK k : k \in s.hostKeys
        BY <2>2 DEF Pending
      <3> DEFINE known == [name |-> LookedUp(g, s), keys |-> s.hostKeys]
      <3>2. known \in KnownHosts(g)
        BY DEF KnownHosts
      <3>3. known.name = LookedUp(f, s) /\ known.keys = s.hostKeys
        BY <1>1, <1>5
      <3> QED
        BY <3>1, <3>2, <3>3
    <2> QED
      BY <2>1, <2>2
  <1> QED
    BY <1>6, <1>7, <1>8



-----------------------------------------------------------------------------
(* Pods                                                                    *)

\* A specification, and one that a template may have: without a debugging
\* container or a digest, and with no token mounted.
IsSpec(spec) ==
    /\ spec = [image |-> [tag |-> spec.image.tag, pinned |-> spec.image.pinned], fields |-> spec.fields,
               mounts |-> spec.mounts, debug |-> spec.debug]
    /\ spec.image.pinned \in BOOLEAN /\ spec.debug \in BOOLEAN
IsTemplate(spec) == IsSpec(spec) /\ ~spec.image.pinned /\ ~spec.debug /\ "token" \notin spec.mounts

\* A cluster with pods of one name each, and the names from `next' on unused.
IsPod(p) ==
    /\ DOMAIN p = {"name", "controlled", "spec", "deleting"}
    /\ p.name \in Nat /\ p.controlled \in BOOLEAN /\ p.deleting \in BOOLEAN /\ IsSpec(p.spec)
IsCluster(c) ==
    /\ DOMAIN c = {"template", "pods", "next"}
    /\ IsTemplate(c.template) /\ c.next \in Nat /\ IsFiniteSet(c.pods)
    /\ \A p \in c.pods : IsPod(p)
    /\ \A p, q \in c.pods : p.name = q.name => p.controlled = q.controlled /\ p.spec = q.spec
Unused(c, names) == \A p \in c.pods : p.name \notin c.next..(c.next + names - 1)

LEMMA TemplateIs ==
  ASSUME NEW image
  PROVE  IsTemplate(Template(image))
  <1>1. /\ Template(image).image = [tag |-> image, pinned |-> FALSE] /\ Template(image).fields = "same"
        /\ Template(image).mounts = {"config"} /\ Template(image).debug = FALSE
    BY DEF Template
  <1>2. Template(image).image.tag = image /\ Template(image).image.pinned = FALSE
    BY <1>1
  <1>3. Template(image) = [image |-> [tag |-> image, pinned |-> FALSE], fields |-> "same", mounts |-> {"config"},
                           debug |-> FALSE]
    BY DEF Template
  <1>4. "token" \notin Template(image).mounts
    BY <1>1
  <1>5. IsSpec(Template(image))
    BY <1>1, <1>2, <1>3 DEF IsSpec
  <1> QED
    BY <1>1, <1>2, <1>4, <1>5 DEF IsTemplate

\* What may be made from a template, field by field.
LEMMA MadeFromIs ==
  ASSUME NEW template, IsTemplate(template), NEW spec, IsSpec(spec)
  PROVE  spec \in MadeFrom(template) <=>
            /\ spec.image.tag = template.image.tag /\ spec.fields = template.fields /\ ~spec.debug
            /\ spec.mounts = template.mounts \/ spec.mounts = template.mounts \cup {"token"}
  <1> DEFINE made(token, pinned) == [image |-> [tag |-> template.image.tag, pinned |-> pinned],
                                     fields |-> template.fields, mounts |-> template.mounts \cup token,
                                     debug |-> template.debug]
  <1>1. template.debug = FALSE
    BY DEF IsTemplate, IsSpec
  <1>2. spec \in MadeFrom(template) <=> \E token \in {{}, {"token"}}, pinned \in BOOLEAN : spec = made(token, pinned)
    BY DEF MadeFrom
  <1>3. ASSUME spec \in MadeFrom(template)
        PROVE  /\ spec.image.tag = template.image.tag /\ spec.fields = template.fields /\ ~spec.debug
               /\ spec.mounts = template.mounts \/ spec.mounts = template.mounts \cup {"token"}
    <2>1. PICK token \in {{}, {"token"}}, pinned \in BOOLEAN : spec = made(token, pinned)
      BY <1>2, <1>3
    <2>2. template.mounts \cup {} = template.mounts
      OBVIOUS
    <2> QED
      BY <1>1, <2>1, <2>2
  <1>4. ASSUME spec.image.tag = template.image.tag, spec.fields = template.fields, ~spec.debug,
               NEW token \in {{}, {"token"}}, spec.mounts = template.mounts \cup token
        PROVE  spec \in MadeFrom(template)
    <2>1. spec.image.pinned \in BOOLEAN
      BY DEF IsSpec
    <2>2. spec = made(token, spec.image.pinned)
      BY <1>1, <1>4, <2>1 DEF IsSpec
    <2> QED
      BY <1>2, <2>1, <2>2
  <1>5. template.mounts = template.mounts \cup {}
    OBVIOUS
  <1> QED
    BY <1>3, <1>4, <1>5

\* A specification without a difference from a template was made from it; its
\* image may then be pinned, and it may have a token.
LEMMA NoDifference ==
  ASSUME NEW template, IsTemplate(template), NEW spec, IsSpec(spec)
  PROVE  /\ spec \in MadeFrom(template) => TemplateDifferences(spec, template) = {}
         /\ TemplateDifferences(spec, template) = {} => spec \in MadeFrom(template)
  <1>1. TemplateDifferences(spec, template) = {} <=>
            /\ spec.fields = template.fields /\ ~spec.debug /\ spec.mounts \ {"token"} = template.mounts
            /\ spec.image = template.image \/ (spec.image.tag = template.image.tag /\ spec.image.pinned)
    BY DEF TemplateDifferences
  <1>2. spec.mounts \ {"token"} = template.mounts <=>
            spec.mounts = template.mounts \/ spec.mounts = template.mounts \cup {"token"}
    <2>1. "token" \notin template.mounts
      BY DEF IsTemplate
    <2>2. spec.mounts \ {"token"} = template.mounts =>
             spec.mounts = template.mounts \/ spec.mounts = template.mounts \cup {"token"}
      <3>1. CASE "token" \in spec.mounts
        <4>1. (spec.mounts \ {"token"}) \cup {"token"} = spec.mounts
          BY <3>1
        <4> QED
          BY <4>1
      <3>2. CASE "token" \notin spec.mounts
        <4>1. spec.mounts \ {"token"} = spec.mounts
          BY <3>2
        <4> QED
          BY <4>1
      <3> QED
        BY <3>1, <3>2
    <2>3. template.mounts \ {"token"} = template.mounts
      BY <2>1
    <2>4. (template.mounts \cup {"token"}) \ {"token"} = template.mounts
      BY <2>1
    <2> QED
      BY <2>2, <2>3, <2>4
  <1>3. (spec.image = template.image \/ (spec.image.tag = template.image.tag /\ spec.image.pinned))
          <=> spec.image.tag = template.image.tag
    BY DEF IsTemplate, IsSpec
  <1> QED
    BY <1>1, <1>2, <1>3, MadeFromIs

\* The pod that is found is the only one of the DaemonSet that is not being
\* deleted, and it has no difference from the template.
LEMMA FoundIs ==
  ASSUME NEW template, NEW pods, IsFiniteSet(pods)
  PROVE  /\ FindPod(template, pods) # Refused =>
               \E p \in pods : /\ p.controlled /\ ~p.deleting /\ p.name = FindPod(template, pods)
                               /\ TemplateDifferences(p.spec, template) = {}
         /\ \A p \in pods :
               (/\ \A q \in pods : (~q.deleting /\ q.controlled) <=> q = p
                /\ TemplateDifferences(p.spec, template) = {})
                  => FindPod(template, pods) = p.name
  <1> DEFINE owned == {p \in pods : ~p.deleting /\ p.controlled}
  <1>1. FindPod(template, pods) = IF Cardinality(owned) = 1 /\ \A p \in owned : TemplateDifferences(p.spec, template) = {}
                                  THEN (CHOOSE p \in owned : TRUE).name ELSE Refused
    BY DEF FindPod
  <1>2. IsFiniteSet(owned)
    BY FS_Subset
  <1>3. Cardinality(owned) = 1 <=> \E x : owned = {x}
    BY <1>2, FS_Singleton
  <1>4. ASSUME FindPod(template, pods) # Refused
        PROVE  \E p \in pods : /\ p.controlled /\ ~p.deleting /\ p.name = FindPod(template, pods)
                               /\ TemplateDifferences(p.spec, template) = {}
    <2>1. PICK p : owned = {p}
      BY <1>1, <1>3, <1>4
    <2>2. (CHOOSE x \in owned : TRUE) = p
      BY <2>1
    <2>3. p \in owned
      BY <2>1
    <2> QED
      BY <1>1, <1>4, <2>2, <2>3
  <1>5. ASSUME NEW p \in pods, \A q \in pods : (~q.deleting /\ q.controlled) <=> q = p,
               TemplateDifferences(p.spec, template) = {}
        PROVE  FindPod(template, pods) = p.name
    <2>1. owned = {p}
      BY <1>5
    <2>2. Cardinality(owned) = 1
      BY <1>3, <2>1
    <2>3. (CHOOSE x \in owned : TRUE) = p
      BY <2>1
    <2> QED
      BY <1>1, <1>5, <2>1, <2>2, <2>3
  <1> QED
    BY <1>4, <1>5



\* The pods of a later cluster are those of an earlier one, perhaps being
\* deleted by then, and those made since.
SamePod(p, q) == p.name = q.name /\ p.controlled = q.controlled /\ p.spec = q.spec
FromPods(c, d) == \A q \in d.pods : (\E p \in c.pods : SamePod(p, q)) \/ (q.name = c.next /\ d.next = c.next + 1)

LEMMA StepsAre ==
  ASSUME NEW c, IsCluster(c), NEW d \in Steps(c)
  PROVE  \/ d = c
         \/ /\ DOMAIN d = DOMAIN c /\ d.pods = c.pods /\ d.next = c.next
            /\ d.template \in Templates
         \/ /\ DOMAIN d = DOMAIN c /\ d.template = c.template /\ d.next = c.next
            /\ \E p \in c.pods : d.pods = (c.pods \ {p}) \cup {[p EXCEPT !.deleting = TRUE]} \/ d.pods = c.pods \ {p}
         \/ /\ DOMAIN d = DOMAIN c /\ d.template = c.template /\ d.next = c.next + 1
            /\ \E spec \in MadeFrom(c.template) : d.pods = c.pods \cup {Pod(c.next, TRUE, spec, FALSE)}
  <1>1. ASSUME d \in Updates(c)
        PROVE  /\ DOMAIN d = DOMAIN c /\ d.pods = c.pods /\ d.next = c.next
               /\ d.template \in Templates
    BY <1>1 DEF Updates, IsCluster
  <1>2. ASSUME d \in Deletions(c)
        PROVE  /\ DOMAIN d = DOMAIN c /\ d.template = c.template /\ d.next = c.next
               /\ \E p \in c.pods : d.pods = (c.pods \ {p}) \cup {[p EXCEPT !.deleting = TRUE]} \/ d.pods = c.pods \ {p}
    BY <1>2 DEF Deletions, IsCluster
  <1>3. ASSUME d \in Creations(c)
        PROVE  /\ DOMAIN d = DOMAIN c /\ d.template = c.template /\ d.next = c.next + 1
               /\ \E spec \in MadeFrom(c.template) : d.pods = c.pods \cup {Pod(c.next, TRUE, spec, FALSE)}
    BY <1>3 DEF Creations, IsCluster
  <1> QED
    BY <1>1, <1>2, <1>3 DEF Steps

LEMMA MadeIsSpec ==
  ASSUME NEW template, IsTemplate(template), NEW spec \in MadeFrom(template)
  PROVE  IsSpec(spec)
  <1>1. PICK token \in {{}, {"token"}}, pinned \in BOOLEAN :
            spec = [image |-> [tag |-> template.image.tag, pinned |-> pinned], fields |-> template.fields,
                    mounts |-> template.mounts \cup token, debug |-> template.debug]
    BY DEF MadeFrom
  <1>2. spec.image = [tag |-> template.image.tag, pinned |-> pinned]
    BY <1>1
  <1>3. spec.image.tag = template.image.tag /\ spec.image.pinned = pinned /\ spec.fields = template.fields
        /\ spec.mounts = template.mounts \cup token /\ spec.debug = template.debug
    BY <1>1, <1>2
  <1> QED
    BY <1>1, <1>3 DEF IsSpec, IsTemplate

\* A step of the DaemonSet's controller or its operator keeps names unique, and
\* pods what they were but for their deletion.
LEMMA ClusterSteps ==
  ASSUME NEW c, IsCluster(c), NEW names \in Nat, Unused(c, names + 1), NEW d \in Steps(c)
  PROVE  IsCluster(d) /\ Unused(d, names) /\ FromPods(c, d) /\ d.next \in {c.next, c.next + 1}
  <1> DEFINE wanted == IsCluster(d) /\ Unused(d, names) /\ FromPods(c, d) /\ d.next \in {c.next, c.next + 1}
  <1>0. c.next \in Nat
    BY DEF IsCluster
  <1>1. CASE d = c
    BY <1>0, <1>1 DEF Unused, FromPods, SamePod
  <1>2. ASSUME DOMAIN d = DOMAIN c, d.pods = c.pods, d.next = c.next, d.template \in Templates
        PROVE  wanted
    <2>1. IsTemplate(d.template)
      BY <1>2, TemplateIs DEF Templates
    <2> QED
      BY <1>0, <1>2, <2>1 DEF IsCluster, Unused, FromPods, SamePod
  <1>3. ASSUME DOMAIN d = DOMAIN c, d.template = c.template, d.next = c.next, NEW p \in c.pods,
               d.pods = (c.pods \ {p}) \cup {[p EXCEPT !.deleting = TRUE]} \/ d.pods = c.pods \ {p}
        PROVE  wanted
    <2> DEFINE deleted == [p EXCEPT !.deleting = TRUE]
    <2>1. IsPod(deleted) /\ SamePod(p, deleted)
      BY <1>3 DEF IsPod, IsCluster, SamePod
    <2> HIDE DEF deleted
    <2>2. d.pods \subseteq c.pods \cup {deleted}
      BY <1>3 DEF deleted
    <2>3. IsFiniteSet(d.pods)
      <3>1. IsFiniteSet(c.pods \cup {deleted})
        BY FS_AddElement DEF IsCluster
      <3> QED
        BY <2>2, <3>1, FS_Subset
    <2>4. \A q \in d.pods : \E o \in c.pods : SamePod(o, q)
      BY <1>3, <2>1, <2>2 DEF SamePod
    <2>5. \A q \in d.pods : IsPod(q)
      BY <2>1, <2>2 DEF IsCluster
    <2>6. \A q, r \in d.pods : q.name = r.name => q.controlled = r.controlled /\ q.spec = r.spec
      BY <2>4 DEF IsCluster, SamePod
    <2>7. IsCluster(d)
      BY <1>3, <2>3, <2>5, <2>6 DEF IsCluster
    <2>8. Unused(d, names)
      BY <1>0, <1>3, <2>4 DEF Unused, SamePod
    <2> QED
      BY <1>3, <2>4, <2>7, <2>8 DEF FromPods
  <1>4. ASSUME DOMAIN d = DOMAIN c, d.template = c.template, d.next = c.next + 1, NEW spec \in MadeFrom(c.template),
               d.pods = c.pods \cup {Pod(c.next, TRUE, spec, FALSE)}
        PROVE  wanted
    <2> DEFINE made == Pod(c.next, TRUE, spec, FALSE)
    <2>1. IsPod(made) /\ made.name = c.next
      BY <1>0, MadeIsSpec DEF Pod, IsPod, IsCluster
    <2> HIDE DEF made
    <2>2. d.pods = c.pods \cup {made}
      BY <1>4 DEF made
    <2>3. IsFiniteSet(d.pods)
      BY <2>2, FS_AddElement DEF IsCluster
    <2>4. \A q \in c.pods : q.name # made.name
      BY <1>0, <2>1 DEF Unused
    <2>5. \A q, r \in d.pods : q.name = r.name => q.controlled = r.controlled /\ q.spec = r.spec
      BY <2>2, <2>4 DEF IsCluster
    <2>6. IsCluster(d)
      <3>1. DOMAIN d = {"template", "pods", "next"} /\ IsTemplate(d.template)
        BY <1>4 DEF IsCluster
      <3>2. \A q \in d.pods : IsPod(q)
        BY <2>1, <2>2 DEF IsCluster
      <3>3. d.next \in Nat
        BY <1>0, <1>4
      <3> QED
        BY <2>3, <2>5, <3>1, <3>2, <3>3 DEF IsCluster
    <2>7. Unused(d, names)
      <3>1. \A q \in c.pods : q.name \in Nat /\ q.name \notin c.next..(c.next + (names + 1) - 1)
        BY DEF Unused, IsCluster, IsPod
      <3>2. ASSUME NEW n \in Nat, n \in d.next..(d.next + names - 1)
            PROVE  n # c.next /\ n \in c.next..(c.next + (names + 1) - 1)
        BY <1>0, <1>4, <3>2
      <3>3. \A q \in d.pods : q.name \in Nat /\ q.name \notin d.next..(d.next + names - 1)
        BY <1>0, <2>1, <2>2, <3>1, <3>2
      <3> QED
        BY <3>3 DEF Unused
    <2> QED
      BY <1>4, <2>1, <2>2, <2>6, <2>7 DEF FromPods, SamePod
  <1> QED
    BY <1>1, <1>2, <1>3, <1>4, StepsAre

\* Two of them: the pods that were there are what they were, and others have
\* names that none of them has.
LEMMA ClusterLater ==
  ASSUME NEW c, IsCluster(c), NEW names \in Nat, Unused(c, names + 2), NEW d \in Later(c)
  PROVE  /\ IsCluster(d) /\ Unused(d, names)
         /\ \A q \in d.pods, p \in c.pods : p.name = q.name => SamePod(p, q)
  <1>0. names + 2 = (names + 1) + 1 /\ names + 1 \in Nat
    OBVIOUS
  <1>1. PICK b \in Steps(c) : d \in Steps(b)
    BY DEF Later
  <1>2. IsCluster(b) /\ Unused(b, names + 1) /\ FromPods(c, b) /\ b.next \in {c.next, c.next + 1}
    BY <1>0, <1>1, ClusterSteps
  <1>3. IsCluster(d) /\ Unused(d, names) /\ FromPods(b, d)
    BY <1>1, <1>2, ClusterSteps
  <1>4. ASSUME NEW q \in d.pods, NEW p \in c.pods, p.name = q.name
        PROVE  SamePod(p, q)
    <2>1. p.name # c.next /\ p.name # c.next + 1
      BY DEF Unused, IsCluster
    <2>2. PICK o \in b.pods : SamePod(o, q)
      BY <1>2, <1>3, <1>4, <2>1 DEF FromPods
    <2>3. PICK r \in c.pods : SamePod(r, o)
      BY <1>2, <1>4, <2>1, <2>2 DEF FromPods, SamePod
    <2> QED
      BY <1>4, <2>2, <2>3 DEF SamePod, IsCluster
  <1> QED
    BY <1>3, <1>4

\* The pod that is asked was made from the template that was read, whatever
\* pods have the labels, however often the DaemonSet or its pods change while
\* they are found and connected to (kubernetes.js:82-165).
THEOREM AskedPodIsMade ==
  ASSUME NEW cluster, IsCluster(cluster), Unused(cluster, 4)
  PROVE  AnswersAsTemplate(cluster)
  <1> SUFFICES ASSUME NEW listed \in Later(cluster), FindPod(cluster.template, listed.pods) # Refused,
                      NEW connected \in Later(listed), NEW p \in connected.pods,
                      p.name = FindPod(cluster.template, listed.pods)
               PROVE  p.controlled /\ p.spec \in MadeFrom(cluster.template)
    BY DEF AnswersAsTemplate
  <1>1. 4 = 2 + 2 /\ 2 = 0 + 2 /\ 2 \in Nat /\ 0 \in Nat
    OBVIOUS
  <1>2. IsCluster(listed) /\ Unused(listed, 2)
    BY <1>1, ClusterLater
  <1>3. \A q \in connected.pods, o \in listed.pods : o.name = q.name => SamePod(o, q)
    BY <1>1, <1>2, ClusterLater
  <1>4. PICK found \in listed.pods :
            /\ found.controlled /\ ~found.deleting /\ found.name = FindPod(cluster.template, listed.pods)
            /\ TemplateDifferences(found.spec, cluster.template) = {}
    BY <1>2, FoundIs DEF IsCluster
  <1>5. IsTemplate(cluster.template) /\ IsSpec(found.spec)
    BY <1>2 DEF IsCluster, IsPod
  <1>6. found.spec \in MadeFrom(cluster.template)
    BY <1>4, <1>5, NoDifference
  <1> QED
    BY <1>3, <1>4, <1>6 DEF SamePod

\* On a node where the DaemonSet's pod runs unchanged it is found, whatever
\* other pods have the labels.
THEOREM SettledPodIsFound ==
  ASSUME NEW cluster, IsCluster(cluster)
  PROVE  FoundWhenSettled(cluster)
  <1> DEFINE owned == {p \in cluster.pods : p.controlled}
  <1> SUFFICES ASSUME Cardinality(owned) = 1,
                      \A p \in owned : ~p.deleting /\ p.spec \in MadeFrom(cluster.template)
               PROVE  FindPod(cluster.template, cluster.pods) \in {p.name : p \in owned}
    BY DEF FoundWhenSettled
  <1>1. IsFiniteSet(cluster.pods) /\ IsTemplate(cluster.template)
    BY DEF IsCluster
  <1>2. IsFiniteSet(owned)
    BY <1>1, FS_Subset
  <1>3. PICK p : owned = {p}
    BY <1>2, FS_Singleton
  <1>4. p \in cluster.pods /\ p \in owned
    BY <1>3
  <1>5. \A q \in cluster.pods : (~q.deleting /\ q.controlled) <=> q = p
    BY <1>3, <1>4
  <1>6. TemplateDifferences(p.spec, cluster.template) = {}
    BY <1>1, <1>4, NoDifference DEF IsCluster, IsPod
  <1>7. FindPod(cluster.template, cluster.pods) = p.name
    BY <1>1, <1>4, <1>5, <1>6, FoundIs
  <1> QED
    BY <1>4, <1>7



-----------------------------------------------------------------------------
(* The invariant of the answers                                            *)

LEMMA ProjectsAre ==
  ASSUME NEW f \in ProjectFiles
  PROVE  IsProject(f)
  <1> DEFINE First == [name : {"a"}, host : {"h"}, port : {"default", "22", "2222"}, hostKeys : SUBSET HostKeys]
             Second == [name : {"a", "b"}, host : {"g", "h"}, port : {"default", "22", "2222"},
                        hostKeys : {{}, {Key({}, "k1")}}]
             servers == {<<s>> : s \in First} \cup {<<s, t>> : s \in First, t \in Second}
  <1>1. f \in [sshPort : {"22", "2222"}, after : {"nothing", "comments", "section"}, lines : SUBSET Lines,
               servers : servers]
    BY DEF ProjectFiles
  <1>2. \A s \in First \cup Second :
            /\ s = [name |-> s.name, host |-> s.host, port |-> s.port, hostKeys |-> s.hostKeys]
            /\ s.port # "bare"
    OBVIOUS
  <1>3. \A x \in servers : \A i \in DOMAIN x : x[i] \in First \cup Second
    <2> HIDE DEF First, Second
    <2> SUFFICES ASSUME NEW x \in servers
                 PROVE  \A i \in DOMAIN x : x[i] \in First \cup Second
      OBVIOUS
    <2>1. ASSUME NEW s \in First, x = <<s>>
          PROVE  \A i \in DOMAIN x : x[i] \in First \cup Second
      BY <2>1
    <2>2. ASSUME NEW s \in First, NEW t \in Second, x = <<s, t>>
          PROVE  \A i \in DOMAIN x : x[i] \in First \cup Second
      <3>1. DOMAIN x = {1, 2} /\ x[1] = s /\ x[2] = t
        BY <2>2
      <3> QED
        BY <2>2, <3>1
    <2> QED
      BY <2>1, <2>2
  <1> HIDE DEF First, Second, servers
  <1>4. f = [sshPort |-> f.sshPort, after |-> f.after, lines |-> f.lines, servers |-> f.servers]
        /\ f.sshPort # "bare" /\ f.servers \in servers
    BY <1>1
  <1> QED
    BY <1>2, <1>3, <1>4 DEF IsProject

\* The keys and settings that an entry of an enrollment may have.
SettingsOf == {"absent", "true", "k1", "k2", "required"}

LEMMA EnrollmentsAre ==
  ASSUME NEW e \in Enrollments
  PROVE  /\ e.ima \in BOOLEAN
         /\ \A i \in DOMAIN e.servers : e.servers[i] \in EntriesOf({"a", "b"}, SettingsOf)
         /\ \A i \in DOMAIN e.servers : e.found[e.servers[i].name] \notin {"malformed", "k1wrapped"}
  <1> DEFINE A == EntriesNamed("a")
             B == EntriesNamed("b")
             servers == {<<s>> : s \in A} \cup {<<s, t>> : s \in A, t \in B}
             Entries == EntriesOf({"a", "b"}, SettingsOf)
  <1>1. e.servers \in servers /\ e.found \in [{"a", "b"} -> {"absent", "k1", "k2"}] /\ e.ima \in BOOLEAN
    BY DEF Enrollments
  <1>2. A \subseteq Entries /\ B \subseteq Entries
    BY DEF EntriesNamed, EntriesOf, SettingsOf
  <1>3. \A x \in servers : \A i \in DOMAIN x : x[i] \in Entries
    <2> HIDE DEF A, B, Entries
    <2> SUFFICES ASSUME NEW x \in servers
                 PROVE  \A i \in DOMAIN x : x[i] \in Entries
      OBVIOUS
    <2>1. ASSUME NEW s \in A, x = <<s>>
          PROVE  \A i \in DOMAIN x : x[i] \in Entries
      BY <1>2, <2>1
    <2>2. ASSUME NEW s \in A, NEW t \in B, x = <<s, t>>
          PROVE  \A i \in DOMAIN x : x[i] \in Entries
      <3>1. DOMAIN x = {1, 2} /\ x[1] = s /\ x[2] = t
        BY <2>2
      <3> QED
        BY <1>2, <2>2, <3>1
    <2> QED
      BY <2>1, <2>2
  <1> HIDE DEF A, B, servers
  <1>5. \A s \in Entries : s.name \in {"a", "b"}
    BY DEF EntriesOf
  <1> HIDE DEF Entries
  <1>6. \A i \in DOMAIN e.servers : e.found[e.servers[i].name] \in {"absent", "k1", "k2"}
    BY <1>1, <1>3, <1>5
  <1> QED
    BY <1>1, <1>3, <1>6 DEF Entries

\* What a test of the cluster starts from: at most one pod of the DaemonSet,
\* as it made it or as someone changed it, and at most one of another's.
LEMMA ClustersAre ==
  ASSUME NEW c \in Clusters
  PROVE  IsCluster(c) /\ Unused(c, 4)
  <1> DEFINE v == Template("v1")
  <1>1. IsTemplate(v) /\ IsSpec(v)
    BY TemplateIs DEF IsTemplate
  <1>2. ASSUME NEW spec \in MadeFrom(v) \cup Changed(v)
        PROVE  IsSpec(spec)
    <2>1. CASE spec \in MadeFrom(v)
      BY <1>1, <2>1, MadeIsSpec
    <2>2. ASSUME spec \in Changed(v)
          PROVE  IsSpec(spec)
      <3>1. v = [image |-> [tag |-> "v1", pinned |-> FALSE], fields |-> "same", mounts |-> {"config"}, debug |-> FALSE]
        BY DEF Template
      <3> HIDE DEF v
      <3>2. CASE spec = [v EXCEPT !.debug = TRUE]
        <4>1. spec.image = v.image /\ spec.image.pinned = FALSE /\ spec.debug = TRUE
          BY <3>1, <3>2
        <4>2. spec = [f \in {"image", "fields", "mounts", "debug"} |-> spec[f]]
          BY <3>1, <3>2
        <4>3. spec = [image |-> spec.image, fields |-> spec.fields, mounts |-> spec.mounts, debug |-> spec.debug]
          BY <4>2
        <4>4. spec.image = [tag |-> spec.image.tag, pinned |-> spec.image.pinned]
          BY <3>1, <4>1
        <4> QED
          BY <4>1, <4>3, <4>4 DEF IsSpec
      <3>3. CASE spec = [v EXCEPT !.fields = "other"]
        BY <1>1, <3>3 DEF IsSpec
      <3>4. CASE spec = [v EXCEPT !.mounts = @ \cup {"other"}]
        BY <1>1, <3>4 DEF IsSpec
      <3>5. CASE spec = [v EXCEPT !.image.tag = "other"]
        BY <1>1, <3>5 DEF IsSpec
      <3> QED
        BY <2>2, <3>2, <3>3, <3>4, <3>5 DEF Changed
    <2> QED
      BY <2>1, <2>2
  <1>3. PICK others \in Others, own \in Own : c = [template |-> v, pods |-> others \cup own, next |-> 3]
    BY DEF Clusters
  <1>4. others = {} \/ \E name \in {1, 9} : others = {Pod(name, FALSE, v, FALSE)}
    BY DEF Others
  <1>5. own = {} \/ \E spec \in MadeFrom(v) \cup Changed(v), deleting \in BOOLEAN : own = {Pod(2, TRUE, spec, deleting)}
    BY DEF Own, Pod
  <1> HIDE DEF v
  <1>6. ASSUME NEW name \in {1, 2, 9}, NEW controlled \in BOOLEAN, NEW spec, IsSpec(spec), NEW deleting \in BOOLEAN
        PROVE  IsPod(Pod(name, controlled, spec, deleting)) /\ Pod(name, controlled, spec, deleting).name = name
    BY <1>6 DEF IsPod, Pod
  <1>7. /\ \A p \in others : IsPod(p) /\ p.name \in {1, 9}
        /\ \A p, q \in others : p = q
        /\ IsFiniteSet(others)
    <2>1. CASE others = {}
      BY <2>1, FS_EmptySet
    <2>2. ASSUME NEW name \in {1, 9}, others = {Pod(name, FALSE, v, FALSE)}
          PROVE  /\ \A p \in others : IsPod(p) /\ p.name \in {1, 9}
                 /\ \A p, q \in others : p = q
                 /\ IsFiniteSet(others)
      <3>1. IsPod(Pod(name, FALSE, v, FALSE)) /\ Pod(name, FALSE, v, FALSE).name = name
        BY <1>1, <1>6
      <3>2. IsFiniteSet({Pod(name, FALSE, v, FALSE)})
        BY FS_Singleton
      <3> QED
        BY <2>2, <3>1, <3>2
    <2> QED
      BY <1>4, <2>1, <2>2
  <1>8. /\ \A p \in own : IsPod(p) /\ p.name = 2
        /\ \A p, q \in own : p = q
        /\ IsFiniteSet(own)
    <2>1. CASE own = {}
      BY <2>1, FS_EmptySet
    <2>2. ASSUME NEW spec \in MadeFrom(v) \cup Changed(v), NEW deleting \in BOOLEAN, own = {Pod(2, TRUE, spec, deleting)}
          PROVE  /\ \A x \in own : IsPod(x) /\ x.name = 2
                 /\ \A x, y \in own : x = y
                 /\ IsFiniteSet(own)
      <3>2. IsPod(Pod(2, TRUE, spec, deleting)) /\ Pod(2, TRUE, spec, deleting).name = 2
        BY <1>2, <1>6
      <3>3. IsFiniteSet({Pod(2, TRUE, spec, deleting)})
        BY FS_Singleton
      <3> QED
        BY <2>2, <3>2, <3>3
    <2> QED
      BY <1>5, <2>1, <2>2
  <1>9. c.template = v /\ c.pods = others \cup own /\ c.next = 3 /\ DOMAIN c = {"template", "pods", "next"}
    BY <1>3
  <1>10. IsFiniteSet(c.pods)
    <2>1. IsFiniteSet(others \cup own)
      BY <1>7, <1>8, FS_Union
    <2> QED
      BY <1>9, <2>1
  <1>11. \A p \in c.pods : IsPod(p) /\ p.name \in {1, 2, 9}
    BY <1>7, <1>8, <1>9
  <1>12. \A p, q \in c.pods : p.name = q.name => p = q
    BY <1>7, <1>8, <1>9
  <1>13. IsCluster(c)
    BY <1>1, <1>9, <1>10, <1>11, <1>12 DEF IsCluster
  <1>14. Unused(c, 4)
    BY <1>9, <1>11 DEF Unused
  <1> QED
    BY <1>13, <1>14

\* Answers are those of the server that is meant (registry.js:235-296, 434-525,
\* kubernetes.js:82-165, evidence.js:111-164).
THEOREM AnswersFromServers == Spec => []AnswersAreTheServers
  <1>1. Subjects => AnswersAreTheServers
    <2> SUFFICES ASSUME Subjects
                 PROVE  AnswersAreTheServers
      OBVIOUS
    <2>1. subject = "project" => KeysAreTheServers(input)
      BY ProjectsAre, KeysRead DEF Subjects
    <2>2. ASSUME subject = "enrollment"
          PROVE  EnrolledIsRequired(input)
      <3>1. input \in Enrollments
        BY <2>2 DEF Subjects
      <3> QED
        BY <3>1, EnrollmentsAre, EnrolledAsked
    <2>3. subject = "pod" => AnswersAsTemplate(input) /\ FoundWhenSettled(input)
      BY ClustersAre, AskedPodIsMade, SettledPodIsFound DEF Subjects
    <2>4. subject = "checkout" => CommitWasCheckedOut(input)
      BY CommitIsRead DEF Subjects, Checkouts
    <2> QED
      BY <2>1, <2>2, <2>3, <2>4 DEF AnswersAreTheServers
  <1> QED
    BY <1>1, InputsAreKnown, PTL


=============================================================================
