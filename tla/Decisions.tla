------------------------------ MODULE Decisions ------------------------------
(***************************************************************************)
(* The decisions that the program takes over one input, for every input:   *)
(* the appraisal of what a server sent, which is its word, so every record *)
(* of the sets is one that the verifier may be given; the configurations   *)
(* and registry files that are accepted, `doctor', and what is published.  *)
(* Each step takes one decision on one input.                              *)
(*                                                                         *)
(* The properties are the statements on one input of the modules below,    *)
(* for every input.                                                        *)
(***************************************************************************)
EXTENDS Readiness, Reports, Pods

VARIABLES subject,   \* what is appraised
          input,     \* what the code looks at
          setting    \* the policy's severity, IMA, the repository's history
vars == <<subject, input, setting>>

Init == subject = "none" /\ input = <<>> /\ setting \in Settings

Decide(what, inputs) ==
    /\ subject = "none"
    /\ subject' = what /\ input' \in inputs
    /\ UNCHANGED setting

\* The kernel's measurements and the history matter to files only.
Simple == ~setting.ima /\ setting.history = "up"

AppraiseFile      == Decide("file", Files)
AppraiseSystem    == Decide("file", SystemFiles)
AppraiseMonitored == Simple /\ Decide("monitored", Monitored)
AppraiseRelease   == Simple /\ Decide("release", Releases)
AppraiseProcess   == Simple /\ Decide("process", Processes)
AppraiseContainer == Simple /\ Decide("container", Containers)
AppraiseHardware  == Simple /\ Decide("hardware", HardwareEvidence)
AppraiseAttester  == Simple /\ Decide("attester", Attesters)
AppraisePartial   == Simple /\ Decide("partial", Partial)
AppraiseGlobal    == Simple /\ Decide("global", GlobalPackages)

LoadServers       == Simple /\ Decide("servers", ServerLists)
LoadServices      == Simple /\ Decide("services", VerifierServices)
LoadAttester      == Simple /\ (Decide("loading", Loading) \/ Decide("attesterFile", AttesterFiles))
WriteHostKeys     == Simple /\ Decide("project", ProjectFiles)
WriteTpmKeys      == Simple /\ Decide("enrollment", Enrollments)
AskDoctor         == Simple /\ (Decide("host", Hosts) \/ Decide("verifier", Verifiers))
ReadCommit        == Simple /\ Decide("checkout", Checkouts)
FindAttesterPod   == Simple /\ Decide("pod", Clusters)
ShowBadge         == Simple /\ Decide("results", Results)
VerifyReport      == Simple /\ Decide("published", Published)

Next == \/ AppraiseFile \/ AppraiseSystem \/ AppraiseMonitored \/ AppraiseRelease \/ AppraiseProcess
        \/ AppraiseContainer \/ AppraiseHardware \/ AppraiseAttester \/ AppraiseGlobal \/ AppraisePartial
        \/ LoadServers \/ LoadServices \/ LoadAttester \/ WriteHostKeys \/ WriteTpmKeys
        \/ AskDoctor \/ ReadCommit \/ FindAttesterPod \/ ShowBadge \/ VerifyReport
Spec == Init /\ [][Next]_vars

Pol == setting.pol

\* What ran is known.  Every file at whose path the kernel measured, by SHA-256,
\* contents that no reference has, or last measured other contents, is reported
\* whatever the evidence claims (appraise-directory.js:411-458, appraise.js:
\* 325-383); and code that runs, or that the monitor saw run, without a finding
\* is what some reference has (appraise.js:392-421, appraise-code.js:60-377).
RunCodeIsKnown ==
    /\ subject = "file" => KernelBelieved(input, setting) /\ CleanCodeIsKnown(input, setting)
    /\ subject = "monitored" => MonitorLosesNothing(input, Pol)

\* What is genuine and could not be checked is inconclusive (reports.md:13),
\* and fails in these cases and no other: code without its reference under
\* policy.unexplainedCode `fail' (appraise-code.js:60-152), an attestation or a
\* processor's key lost to an error that is not taken for the network's
\* (appraise-directory.js:502, appraise-container.js:354, appraise.js:541), and
\* a git that fails after its fetch (git.js:176-190).
LostReferenceFails ==
    /\ subject = "file" => GenuineFailsWhen(input, setting)
    /\ subject = "release" => ReleaseFailsWhen(input)
    /\ subject = "container" => ContainerFailsWhen(input, Pol)
    /\ subject = "hardware" => ConfidentialFailsWhen(input)
    /\ subject = "global" => GenuineToolsNeverFail(input, Pol)
    /\ subject = "partial" => PackagesNeverFailAlone(input)

\* What passes was published: a release that is the attested one, of a public
\* commit (appraise-directory.js:462-580), a container with its image and its
\* files, whose contents its writable layer tells as a walk of its files does
\* (appraise-container.js:150-288), and an attester with a published or pinned
\* binary that the kernel did not measure as another (appraise.js:297-303,
\* 587-627).
PassingIsPublished ==
    /\ subject = "release" => ReleaseIsAttested(input)
    /\ subject = "container" => ContainerIsImage(input, Pol) /\ LayerTellsTheSame(input.file, Pol)
    /\ subject = "attester" => AttesterIsKnown(input, Pol)

\* A server gains nothing by leaving something out of its evidence
\* (appraise.js:202-236, 366-369, appraise-directory.js:651-729), by code or
\* directories changed under a running process (appraise-directory.js:794-916),
\* or by claiming less hardware than is required; its level names only what
\* vouched for it (appraise.js:183-194, 423-573).
HidingIsSeen ==
    /\ subject = "partial" => NothingLeftOut(input, Pol)
    /\ subject = "process" => ChangedCodeIsReported(input, Pol)
    /\ subject = "hardware" => NoSilentDowngrade(input) /\ LevelIsEarned(input)

\* A configuration that is accepted is enforced as it reads, however it is
\* spelled: what a list of servers asks of each (config.js:50-147, 516-561,
\* 1011-1034), every service that a server should run, with its build
\* (config.js:874-939, registry.js:406-418), and services of an attester that
\* report no process as each other's (config.js:717-787, evidence.js:841-864).
\* A user who may not become root names no command that root runs, neither in
\* the file nor in anything it is read through (config.js:582-710).
ConfigurationIsMeant ==
    /\ subject = "servers" => AskedIsEnforced(input) /\ OneMachineEach(input)
    /\ subject = "services" => ExpectedIsJudged(input) /\ BuildsArePlanned(input)
    /\ subject = "attesterFile" => ServicesAreTold(input)
    /\ subject = "loading" => RootDecides(input)

\* Answers are those of the server that is meant: what `host-keys --write' pins
\* is what ssh accepts for it, and for no other (registry.js:235-296, 434-482);
\* the key that `tpm-verify --write' wrote is required of it (registry.js:
\* 499-525); the pod that is asked is the attester's on that node (kubernetes.js:
\* 82-165); and the commit of a checkout, read while git runs, is one that it
\* was at (evidence.js:111-164).
AnswersAreTheServers ==
    /\ subject = "project" => KeysAreTheServers(input)
    /\ subject = "enrollment" => EnrolledIsRequired(input)
    /\ subject = "pod" => AnswersAsTemplate(input) /\ FoundWhenSettled(input)
    /\ subject = "checkout" => CommitWasCheckedOut(input)

\* What will make an attester's evidence fail or lack something is told before
\* by `doctor' (doctor.js:86-268), and what will keep a verifier from its
\* servers and references too (doctor.js:280-390).
DoctorTells ==
    /\ subject = "host" => DoctorForesees(input)
    /\ subject = "verifier" => VerifierForesees(input)

\* What the public reads is backed: a badge by every server (report.js:93-142,
\* registry.js:640-661), a report that `verify-report' accepts by the workflow's
\* signature (report-attestation.js:44-99).
PublicIsBacked ==
    /\ subject = "results" => BadgeIsEarned(input)
    /\ subject = "published" => VerifiedIsSigned(input)
============================================================================
