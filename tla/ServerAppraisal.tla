--------------------------- MODULE ServerAppraisal ---------------------------
(***************************************************************************)
(* How a server is judged as a whole (lib/appraise.js): the hardware that  *)
(* vouches for its evidence (TPM quote, IMA log, confidential VM report),  *)
(* the attester that collected it, the services that were expected and the *)
(* global tools.  What each service adds is ServiceAppraisal's.            *)
(*                                                                         *)
(* An operator takes a record of what the code looks at; every policy      *)
(* setting is the one severity `pol'.                                      *)
(***************************************************************************)
EXTENDS ServiceAppraisal

Result(findings, hardware) == [findings |-> findings, hardware |-> hardware]
Both(a, b) == Result(a.findings \cup b.findings, a.hardware \cup b.hardware)
Nothing == Result({}, {})

---------------------------------------------------------------------------
(* Hardware *)

\* Mutant: a log is replayed whatever the quote selected.
ImaWithoutPcr(h) == IF h.ima = "backed" THEN Result({<<"info", "ima">>}, {"ima"}) ELSE Nothing
\* appraiseIma(): only a log that replays to the PCR 10 that was quoted.
Ima(h) ==
    IF h.ima = "none" THEN Nothing
    ELSE IF h.ima = "error" \/ ~h.pcr10 THEN Result({<<"warn", "ima">>}, {})
    ELSE IF h.ima = "edited" THEN Result({<<"fail", "ima">>}, {})
    ELSE Result({<<"info", "ima">>}, {"ima"})

\* appraiseTpm(): a pinned key requires a quote it verifies.
TpmResult(h) ==
    IF h.pinned
    THEN IF h.quote = "valid" THEN Both(Result({<<"info", "tpm">>}, {"tpm"}), Ima(h))
         ELSE Result({<<"fail", "tpm">>}, {})
    ELSE IF h.quote # "none" THEN Result({<<"info", "tpm">>}, {})
    ELSE Result(When(h.tpmRequired, "fail", "tpm"), {})

\* Mutant: the attester's settings say whether IMA is used.
ImaAsReported(h) == Nothing
\* appraiseServer(): IMA that the configuration requires must be verified.
ImaRequired(h) == Result(When(h.imaRequired /\ "ima" \notin TpmResult(h).hardware, "fail", "ima"), {})

\* appraiseConfidential(): only fetching the processor's key can be inconclusive,
\* and only with an error that is taken for the network's ("keyLost": another).
Confidential(h) ==
    IF h.report = "none" THEN Result(When(h.expected = "required" \/ h.cvmRequired, "fail", "confidential"), {})
    ELSE IF h.expected = "none" THEN Result({<<"info", "confidential">>}, {})
    ELSE IF h.report = "keyDown" THEN Result({<<"error", "confidential">>}, {})
    ELSE IF h.report # "valid" THEN Result({<<"fail", "confidential">>}, {})
    ELSE Result(When(h.expected = "anyMeasurement", "warn", "confidential"), {"cvm"})

Hardware(h) == Both(Both(TpmResult(h), ImaRequired(h)), Confidential(h))

HardwareEvidence ==
    {h \in [pinned : BOOLEAN, quote : {"none", "valid", "invalid"}, tpmRequired : BOOLEAN,
            ima : {"none", "error", "edited", "backed"}, pcr10 : BOOLEAN, imaRequired : BOOLEAN,
            report : {"none", "keyDown", "keyLost", "invalid", "otherMachine", "valid"},
            expected : {"none", "optional", "anyMeasurement", "required"}, cvmRequired : BOOLEAN] :
        h.imaRequired => h.pinned}

\* What the configuration asks the hardware to vouch for cannot be dropped by
\* the server: without it the server does not pass.
NoSilentDowngrade(h) ==
    LET r == Hardware(h)
        passes == Severities(r.findings) \cap {"fail", "error"} = {}
    IN  passes => /\ h.pinned => "tpm" \in r.hardware
                  /\ h.imaRequired => "ima" \in r.hardware
                  /\ h.expected = "required" => "cvm" \in r.hardware

\* The evidence level names only what was verified: with IMA, a quote by the
\* pinned key over a log that replays to the quoted PCR.
LevelIsEarned(h) ==
    LET r == Hardware(h)
    IN  /\ "ima" \in r.hardware => "tpm" \in r.hardware /\ h.ima = "backed" /\ h.pcr10
        /\ "tpm" \in r.hardware => h.pinned /\ h.quote = "valid"
        /\ "cvm" \in r.hardware => h.report = "valid" /\ h.expected # "none"

\* A report of the expected machine fails exactly when its processor's key is
\* lost to an error that is not taken for the network's.
ConfidentialFailsWhen(h) ==
    (h.report \in {"valid", "keyDown", "keyLost"} /\ h.expected # "none")
        => ("fail" \in Severities(Confidential(h).findings) <=> h.report = "keyLost")

---------------------------------------------------------------------------
(* The attester: appraiseAttester() *)

\* Mutant: an attester the configuration names is taken at its word.
NamedIsEnough(a, pol) == When(a.name = "unknown" \/ (a.name = "auditstatus" /\ a.published # "yes"), pol, "attester")
AttesterFindings(a, pol) ==
    IF a.name = "unknown" \/ ~a.hashed THEN {<<pol, "attester">>}
    ELSE IF a.name = "allowed" /\ a.pinnedHash THEN {<<"info", "attester">>}
    ELSE IF a.name = "allowed" /\ ~a.checksums THEN {<<pol, "attester">>}
    ELSE IF a.published = "yes" THEN {<<"info", "attester">>}
    ELSE IF a.published = "no" THEN {<<pol, "attester">>}
    ELSE {<<IF pol = "fail" THEN "error" ELSE "warn", "attester">>}

\* appraiseImaCode() on the attester's own executable: what the kernel measured
\* at its path, which only counts by SHA-256.
AttesterMeasured(a) == When(a.hashed /\ a.measured = "differs", "fail", "ima")

Attesters == [name : {"auditstatus", "allowed", "unknown"}, hashed : BOOLEAN, pinnedHash : BOOLEAN,
              checksums : BOOLEAN, published : {"yes", "no", "down"}, measured : {"no", "same", "differs", "otherAlgorithm"}]

\* An attester without a finding is one whose binary is published, or pinned
\* for the implementation the configuration allows, and that the kernel did
\* not measure, by SHA-256, as another.
AttesterIsKnown(a, pol) ==
    Severities(AttesterFindings(a, pol) \cup AttesterMeasured(a)) \subseteq {"info"} =>
        /\ a.name # "unknown" /\ a.hashed /\ (a.published = "yes" \/ (a.name = "allowed" /\ a.pinnedHash))
        /\ a.measured # "differs"

---------------------------------------------------------------------------
(* Services, processes and global tools *)

\* appraiseServer(): the expected services, of the kind their settings imply,
\* and enough processes.
ExpectedFindings(e) ==
    UNION {When("absent" \in e.services \/ "wrongKind" \in e.services, "fail", "service"),
           When(e.processes < e.minProcesses, "fail", "processes")}

\* What a server can leave out of its evidence: services, processes, packages,
\* Bundler's directory, the monitor's log, measurements of a service's files.
Partial ==
    {e \in [services : SUBSET {"absent", "wrongKind"}, processes : 0..2, minProcesses : 0..2,
            installed : BOOLEAN, lock : {"none", "unreadable", "some"}, release : BOOLEAN, comparison : {"up", "down"},
            answers : SUBSET {"yes", "no", "down"},
            bundler : [setup : {TRUE}, reported : BOOLEAN, errors : BOOLEAN, gem : {"same", "down", "differs"}],
            log : [kept : BOOLEAN, error : BOOLEAN, truncated : BOOLEAN, malformed : BOOLEAN, any : BOOLEAN],
            measured : {"noLog", "nothing", "some"}, imaRequired : BOOLEAN] :
        /\ ~e.installed => e.answers = {} /\ e.comparison = "up"
        /\ ~e.log.kept => ~e.log.error /\ ~e.log.truncated /\ ~e.log.malformed /\ ~e.log.any
        /\ e.log.kept => /\ e.bundler.reported /\ ~e.bundler.errors /\ e.bundler.gem = "same"
                         /\ ~e.release /\ e.answers = {}
        /\ e.imaRequired => e.measured # "noLog"}

PartialFindings(e, pol) ==
    UNION {ExpectedFindings(e), LockFindings(e, pol), ProvenanceFindings(e.answers), BundlerFindings(e.bundler),
           IF ~e.log.kept THEN {} ELSE IF e.log.error THEN MonitorUnread(pol) ELSE MonitorLog(e.log, pol),
           IF e.measured = "noLog" THEN {}
           ELSE ImaCovers(IF e.measured = "some" THEN 1 ELSE 0, e.processes, e.imaRequired)}

\* Nothing can be left out silently: without a finding every expected service
\* was reported as what it is, with its processes, the packages its lockfile
\* pins (unless an attested release carries them), a whole monitor log, where
\* there is one, and measurements of its files, where the kernel takes any.
NothingLeftOut(e, pol) ==
    Severities(PartialFindings(e, pol)) \subseteq {"info"} =>
        /\ e.services = {} /\ e.processes >= e.minProcesses
        /\ e.installed \/ e.release \/ e.lock # "some"
        /\ e.installed => e.lock = "some" /\ e.comparison = "up" /\ e.answers \subseteq {"yes"}
        /\ e.bundler.reported /\ e.bundler.gem = "same"
        /\ e.log.kept => e.log.any /\ ~e.log.truncated /\ ~e.log.error
        /\ e.measured = "nothing" => e.processes = 0

\* appraiseGlobalPackages() on one package: what Node.js bundles is compared
\* with the Node.js archive, and not judged without it; what is not in the
\* archive, with the registry, which may not answer or not have it.
GlobalPackage(g, pol) ==
    LET unfetched == When(g.archive = "down", "error", "globalPackages")
    IN  IF g.bundled /\ g.archive = "down" THEN unfetched
        ELSE IF g.bundled /\ g.archive = "up" THEN When(g.matches # "archive", "fail", "globalPackages")
        ELSE unfetched \cup UNION {When(g.registry = "down", "error", "globalPackages"),
                                   When(g.registry = "unknown", pol, "globalPackages"),
                                   When(g.registry = "up" /\ g.matches # "registry", "fail", "globalPackages")}

\* What is wrong beside the packages, appraisePm2Daemons() included.
GlobalFindings(g, pol) ==
    UNION {GlobalPackage(g, pol),
           When(g.beside \in {"foreign", "links", "errors"}, "fail", "globalPackages"),
           When(g.beside \in {"caches", "pm2Changed", "pm2Touched"}, pol, "globalPackages")}

\* A bundled package of a version the archive does not hold was updated from
\* the registry.
GlobalPackages == [bundled : BOOLEAN, archive : {"up", "otherVersion", "down"}, registry : {"up", "down", "unknown"},
                   matches : {"archive", "registry", "none"},
                   beside : {"nothing", "foreign", "links", "errors", "caches", "pm2Changed", "pm2Touched"}]

\* Tools as Node.js or their registry publish them never fail, whatever can
\* be fetched.
GenuineToolsNeverFail(g, pol) ==
    (/\ g.beside = "nothing" /\ g.registry # "unknown"
     /\ g.matches = IF g.bundled /\ g.archive # "otherVersion" THEN "archive" ELSE "registry")
        => "fail" \notin Severities(GlobalFindings(g, pol))
============================================================================
