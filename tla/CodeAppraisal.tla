---------------------------- MODULE CodeAppraisal ----------------------------
(***************************************************************************)
(* How the contents of one file of an audited server are judged: against   *)
(* the public commit, a reproduced build, the packages' references         *)
(* (lib/appraise-directory.js), what the kernel's IMA log says was read or *)
(* run at its path (lib/appraise.js) and, when a process runs it, the      *)
(* references that explain code (lib/appraise-code.js).                    *)
(*                                                                         *)
(* The appraisal decides file by file, so a file is a record of everything *)
(* it looks at:                                                            *)
(*   place      what the file is to the service, by its path               *)
(*   claim      its contents in the evidence                               *)
(*   kind       its mode in the evidence, against the reference's          *)
(*   reference  whether its reference can be had                           *)
(*   measured   the contents the kernel measured at its path, in order     *)
(*   algorithm  the algorithm that the kernel hashed them with             *)
(*   written    measured while open for writing                            *)
(*   used       "exe" or "library" of a process, or "no"                   *)
(*   listed     whether the evidence lists it as such                      *)
(*   node, configured, archive   what else may explain a file              *)
(* A content is "ref" (the reference's), "old" (another commit has it) or  *)
(* "bad".  Findings are pairs of a severity and a check.  Every policy     *)
(* setting is the one severity `pol'.                                      *)
(***************************************************************************)
EXTENDS Naturals, Sequences, SequencesExt

Content == {"ref", "old", "bad"}
Places  == {"tracked", "package", "output", "ignored", "codePath", "allowed", "stray", "outside"}
InRoot  == Places \ {"outside"}

When(condition, severity, check) == IF condition THEN {<<severity, check>>} ELSE {}
Severities(findings) == {f[1] : f \in findings}

---------------------------------------------------------------------------
(* Against the references *)

\* appraiseTree(): the reported files against the commit's.
TreeFindings(f, pol) ==
    UNION {When(f.place = "tracked" /\ f.claim \in {"absent", "unreadable"}, "fail", "missing"),
           When(f.place = "tracked" /\ (f.claim \in Content \ {"ref"} \/ (f.claim = "ref" /\ f.kind = "link")), "fail", "modified"),
           When(f.place = "tracked" /\ f.claim = "ref" /\ f.kind = "mode", "warn", "mode"),
           When(f.place = "stray" /\ f.claim \in Content, "fail", "untracked"),
           When(f.claim = "unreadable" /\ f.place \notin {"ignored", "codePath", "outside", "package"}, "fail", "unreadable"),
           When(f.place = "codePath" /\ f.claim \in Content, pol, "codePaths")}

\* Mutant: an unreachable reference is taken for a difference.
InstalledUnreachable(f, pol) ==
    IF f.place # "package" THEN {} ELSE When(f.claim # "ref" \/ f.reference # "up", "fail", "packages")
\* reportComparison(), and appraiseInstalls() on files it could not read.
InstalledFindings(f, pol) ==
    IF f.place # "package" THEN {}
    ELSE UNION {When(f.reference = "down", "error", "packages"),
                When(f.reference = "unpinned", pol, "packages"),
                When(f.reference = "up" /\ f.claim # "ref", "fail", "packages"),
                When(f.claim = "unreadable", "fail", "packages")}

\* appraiseBuild(): a pending or failing build is inconclusive.
BuildFindings(f, pol) ==
    IF f.place # "output" THEN {}
    ELSE IF f.reference = "down" THEN {<<"error", "build">>}
    ELSE When(f.claim # "ref", pol, "build")

\* context.explain(): the file matched its reference.
Explained(f) ==
    \/ f.place = "tracked" /\ f.claim = "ref" /\ f.kind # "link"
    \/ f.place \in {"package", "output"} /\ f.claim = "ref" /\ f.reference = "up"

---------------------------------------------------------------------------
(* Against the kernel's measurements *)

\* Measurements by another algorithm than SHA-256 are skipped without a word.
Measured(f) == f.measured # <<>> /\ f.algorithm = "sha256"
Earlier(f) == {f.measured[i] : i \in 1..Len(f.measured)} \ {"ref"}

\* Mutant: only the last measurement of a file is looked at.
ImaFilesLast(f, history) == When(f.place = "tracked" /\ Measured(f) /\ Last(f.measured) # "ref", "fail", "ima")
\* appraiseImaFiles(): the last measurement of a tracked file must be the
\* commit's; an earlier one must be another commit's.
ImaFiles(f, history) ==
    IF f.place # "tracked" \/ ~Measured(f) THEN {}
    ELSE IF Last(f.measured) # "ref" THEN {<<"fail", "ima">>}
    ELSE IF Earlier(f) = {} THEN {}
    ELSE IF history = "down" THEN {<<"warn", "ima">>}
    ELSE IF "bad" \in Earlier(f) THEN {<<IF f.written THEN "warn" ELSE "fail", "ima">>}
    ELSE {<<"info", "ima">>}

\* appraiseImaRoots(): every other file measured under the root is explained,
\* with the contents that were verified.
ImaRoots(f, pol) ==
    IF f.place \in {"tracked", "outside"} \/ ~Measured(f) THEN {}
    ELSE IF ~Explained(f) THEN {<<pol, "ima">>}
    ELSE IF Last(f.measured) # f.claim THEN {<<"fail", "ima">>}
    ELSE When(Earlier(f) # {}, "warn", "ima")

\* No measurement under the root at all (that is compared).
ImaCovers(measuredFiles, processes, imaRequired) ==
    When(measuredFiles = 0 /\ processes > 0, IF imaRequired THEN "fail" ELSE "warn", "ima")

\* appraiseImaCode(): a running copy must be one the kernel measured, and the
\* last one it measured.
ImaCode(f) ==
    IF ~f.listed \/ f.claim \notin Content \/ ~Measured(f) THEN {}
    ELSE IF f.claim \notin ToSet(f.measured) THEN {<<"fail", "ima">>}
    ELSE When(Last(f.measured) # f.claim, "warn", "ima")

---------------------------------------------------------------------------
(* Code that runs *)

\* appraiseConsistency(): what a process runs or maps is in the lists that
\* appraiseCode() judges.
Unlisted(f) == When(f.used # "no" /\ ~f.listed, "fail", "evidence")

\* listedAs(): the hash under the file's own name.
ListedAs(f) == f.configured = "listed"

\* explainFile(): the first reference that can say anything decides.
ExplainFile(f) ==
    IF f.claim \notin Content THEN "error"
    ELSE IF Explained(f) THEN "source"
    ELSE IF f.node # "no" THEN IF f.node = "down" THEN "error" ELSE IF f.node = "official" THEN "source" ELSE "node"
    ELSE IF f.configured = "pinned" THEN "source"
    ELSE IF f.configured = "down" THEN "error"
    ELSE IF ListedAs(f) THEN "source"
    ELSE IF f.archive \in {"none", "absent"} THEN "unexplained"
    ELSE IF f.archive = "down" THEN "error"
    ELSE IF f.archive = "same" THEN "source"
    ELSE "fail"

\* appraiseCode()
CodeFindings(f, pol) ==
    IF ~f.listed THEN {}
    ELSE LET verdict == ExplainFile(f)
         IN  UNION {When(verdict = "fail", "fail", "code"), When(verdict = "node", pol, "code"),
                    When(verdict = "error", "error", "code"), When(verdict = "unexplained", pol, "code")}

\* Mutant: a file that is gone is nobody's.
MonitorForgetsGone(e, pol) ==
    IF e.claim \notin Content THEN When(e.error = "cut", "warn", "monitor")
    ELSE When(ExplainFile(e) # "source", pol, "monitor")
\* appraiseMonitor(): what was loaded since the last audit, a file as it was
\* hashed when the evidence was collected, or why it was not.
MonitorFindings(e, pol) ==
    IF e.claim \notin Content
    THEN IF e.inImage THEN {}
         ELSE {<<IF e.error = "cut" THEN "warn" ELSE pol, "monitor">>}
    ELSE LET verdict == ExplainFile(e)
         IN  UNION {When(verdict \in {"fail", "node"}, "fail", "monitor"), When(verdict = "error", "error", "monitor"),
                    When(verdict = "unexplained" /\ ~e.inImage, pol, "monitor")}

\* The monitor's log as a whole: it could not be read, or not all of it tells.
MonitorUnread(pol) == {<<pol, "monitor">>}
MonitorLog(log, pol) ==
    UNION {When(log.truncated, pol, "monitor"), When(log.malformed, "warn", "monitor"),
           When(~log.any, "warn", "monitor")}

---------------------------------------------------------------------------
(* All of it, for one file: appraiseDirectory() and the code checks. *)

FileFindings(f, s) ==
    TreeFindings(f, s.pol) \cup InstalledFindings(f, s.pol) \cup BuildFindings(f, s.pol)
      \cup Unlisted(f) \cup CodeFindings(f, s.pol)
      \cup (IF s.ima THEN ImaFiles(f, s.history) \cup ImaRoots(f, s.pol) \cup ImaCode(f) ELSE {})

\* Files as evidence can hold them: a file that runs was hashed as the running
\* copy; only files outside the root need other explanations.
Files ==
    {f \in [place : Places, claim : Content \cup {"absent", "unreadable"}, kind : {"same", "mode", "link"},
            reference : {"up", "unpinned", "down"}, measured : SeqOf(Content, 2),
            algorithm : {"sha256", "other"}, written : BOOLEAN,
            used : {"no", "exe"}, listed : BOOLEAN,
            node : {"no"}, configured : {"none"}, archive : {"none"}] :
        /\ f.place # "outside"
        /\ f.kind # "same" => f.place = "tracked" /\ f.claim \in Content
        /\ f.reference = "unpinned" => f.place = "package"
        /\ f.reference = "down" => f.place \in {"package", "output"}
        /\ f.algorithm = "other" => Len(f.measured) = 1
        /\ f.written => f.place = "tracked" /\ f.measured # <<>>
        /\ f.listed => f.used = "exe"}

SystemFiles ==
    [place : {"outside"}, claim : {"ref", "bad", "unreadable"}, kind : {"same"}, reference : {"up"},
     measured : SeqOf({"ref", "bad"}, 2), algorithm : {"sha256"}, written : {FALSE}, used : {"exe"}, listed : {TRUE},
     node : {"no", "official", "other", "down"}, configured : {"none", "pinned", "listed", "otherName", "down"},
     archive : {"none", "absent", "same", "differs", "down"}]

\* Monitored programs, hashed or not, explained like a file outside the root.
Monitored ==
    {[f EXCEPT !.used = "exe"] @@ [error |-> e, inImage |-> i] :
        f \in {g \in SystemFiles : g.measured = <<>>}, e \in {"gone", "unreadable", "cut"}, i \in BOOLEAN}

\* What may be inconclusive or wrong about a file without its contents being so.
Settings == [pol : {"fail", "warn"}, ima : BOOLEAN, history : {"up", "down"}]

Concern(findings) == Severities(findings) \cap {"fail", "warn"} # {}

\* The kernel is believed before the evidence: a file under the root at whose
\* path it measured, by SHA-256, contents no reference has, or last measured
\* other contents than the reference's, is reported, whatever the evidence
\* claims of it.
KernelBelieved(f, s) ==
    (s.ima /\ f.place \in InRoot /\ Measured(f) /\ (Last(f.measured) # "ref" \/ "bad" \in ToSet(f.measured)))
        => Concern(FileFindings(f, s))

\* A genuine file whose reference cannot be fetched is inconclusive, not
\* failing, with one exception: with policy.unexplainedCode `fail', code that
\* runs, or that the kernel measured, is then also code no reference explains.
GenuineFailsWhen(f, s) ==
    (/\ f.claim = "ref" /\ f.kind = "same" /\ Earlier(f) = {} /\ (f.used # "no" <=> f.listed)
     /\ f.place \in {"tracked", "package", "output"} /\ f.reference # "unpinned")
        => ("fail" \in Severities(FileFindings(f, s))
              <=> f.reference = "down" /\ s.pol = "fail" /\ (f.listed \/ (s.ima /\ Measured(f))))

\* Code that runs without any finding is what some reference has.
CleanCodeIsKnown(f, s) ==
    (f.used # "no" /\ Severities(FileFindings(f, s)) \subseteq {"info"})
        => \/ f.claim = "ref" /\ f.place \in {"tracked", "package", "output"}
           \/ f.node = "official" \/ f.configured \in {"pinned", "listed"} \/ f.archive = "same"

\* Nothing the monitor saw goes unmentioned unless a reference explains it or
\* an image has a file of that path.
MonitorLosesNothing(e, pol) == MonitorFindings(e, pol) = {} => e.inImage \/ ExplainFile(e) = "source"
============================================================================
