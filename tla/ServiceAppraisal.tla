--------------------------- MODULE ServiceAppraisal ---------------------------
(***************************************************************************)
(* How one service is judged beyond the contents of its files: an attested *)
(* release's manifest, what its packages report beside their files, its    *)
(* processes and Bundler (lib/appraise-directory.js), and a container      *)
(* against its image (lib/appraise-container.js).                          *)
(*                                                                         *)
(* An operator takes a record of what the code looks at.  Answers of the   *)
(* network are "yes", "no", "down" (an error whose message the code takes  *)
(* for the network's: a rate limit, HTTP 5xx, a refused or reset           *)
(* connection, a timeout) or "lost" (any other: a name that does not       *)
(* resolve, a failed system call).  Findings are pairs of a severity and a *)
(* check; every policy setting is the one severity `pol'.                  *)
(***************************************************************************)
EXTENDS CodeAppraisal, FiniteSets

---------------------------------------------------------------------------
(* An attested release: appraiseManifest() *)

\* The evidence has what could be read and was within the server's limit of
\* files: of an "unread" file it has nothing, and a release is not asked.
Reported(m, file) == IF m.disk[file] = "unread" THEN "none" ELSE m.disk[file]

\* The files of a release and of the server: "none", or a content.
Differences(m) ==
    LET at(file) == <<m.release[file], Reported(m, file)>>
    IN  UNION {When(\E file \in DOMAIN m.disk : at(file)[1] # "none" /\ at(file)[2] \notin {"none", at(file)[1]}, "fail", "modified"),
               When(\E file \in DOMAIN m.disk : at(file)[1] # "none" /\ at(file)[2] = "none", "fail", "missing"),
               When(\E file \in DOMAIN m.disk \ m.allowed : at(file)[1] = "none" /\ at(file)[2] # "none", "fail", "added")}

\* commitInfo(): a git that fails says no, whatever made it fail.
Found(m) == m.exists /\ m.git # "noCommit"
FoundOnBranch(m) == Found(m) /\ m.onBranch /\ m.git # "noAncestor"

\* appraiseManifest() on the repository: one that cannot be fetched or whose
\* tree cannot be read is inconclusive.
SourceFindings(m) ==
    UNION {When(m.repository \in {"down", "treeDown"}, "error", "source"),
           When(m.repository = "up" /\ ~Found(m), "fail", "source"),
           When(m.repository \in {"up", "treeDown"} /\ Found(m) /\ ~m.pinned /\ ~FoundOnBranch(m), "fail", "source")}

\* Mutant: the commit the attestation is for is not compared.
SignedBySomeone(m) == m.attested
Signed(m) == IF m.attested = "yes" /\ ~m.sameCommit THEN "no" ELSE m.attested

\* appraiseManifest(): each early return, then the repository and the files.
ManifestFindings(m) ==
    IF ~m.signer THEN {<<"error", "artifact">>}
    ELSE IF m.manifest # "onDisk" THEN {<<"fail", "artifact">>}
    ELSE IF Signed(m) # "yes" THEN {<<IF Signed(m) = "down" THEN "error" ELSE "fail", "artifact">>}
    ELSE SourceFindings(m) \cup Differences(m)

\* The manifest is missing, differs from the file on disk, or is malformed;
\* a commit whose tree cannot be read was found first.
Releases ==
    {m \in [signer : BOOLEAN, manifest : {"onDisk", "missing", "differs", "malformed"},
            attested : {"yes", "no", "down", "lost"}, sameCommit : BOOLEAN,
            repository : {"none", "up", "down", "treeDown"}, git : {"answers", "noCommit", "noAncestor"},
            exists : BOOLEAN, onBranch : BOOLEAN, pinned : BOOLEAN,
            release : [{"a", "b"} -> {"none", "ref"}], disk : [{"a", "b"} -> {"none", "ref", "bad", "unread"}],
            allowed : SUBSET {"a"}] :
        /\ m.onBranch => m.exists
        /\ m.repository = "treeDown" => Found(m)
        /\ m.repository \in {"none", "down"} => ~m.exists
        /\ m.git # "answers" => m.repository \in {"up", "treeDown"} /\ m.exists
        /\ m.pinned => m.repository # "none"
        /\ (~m.signer \/ m.manifest # "onDisk") => m.repository = "none" /\ m.release = m.disk}

\* A release that passes is, file by file, what the configured workflow built
\* and attested from a commit the public branch (or the version) names, but for
\* files that are not the release's and that the evidence has not.
ReleaseIsAttested(m) ==
    Severities(ManifestFindings(m)) \cap {"fail", "error"} = {} =>
        /\ m.attested = "yes" /\ m.sameCommit /\ m.manifest = "onDisk"
        /\ m.repository # "none" => m.exists /\ (m.onBranch \/ m.pinned)
        /\ \A file \in DOMAIN m.disk \ m.allowed :
              m.disk[file] = m.release[file] \/ (m.disk[file] = "unread" /\ m.release[file] = "none")

\* A genuine release fails exactly when its attestation is lost to an error
\* that is not taken for the network's, or when git itself fails.
ReleaseFailsWhen(m) ==
    (/\ m.signer /\ m.manifest = "onDisk" /\ m.attested # "no" /\ m.sameCommit
     /\ m.repository \in {"none", "down"} \/ m.onBranch
     /\ m.disk = m.release)
        => ("fail" \in Severities(ManifestFindings(m))
              <=> \/ m.attested = "lost"
                  \/ m.attested = "yes" /\ (m.git = "noCommit" \/ (m.git = "noAncestor" /\ ~m.pinned)))

---------------------------------------------------------------------------
(* Packages: appraiseInstalls(), appraiseProvenance() *)

\* Mutant: a lockfile whose packages are not there asks for nothing.
LockOfInstalled(l, pol) ==
    When(l.installed /\ l.lock = "none", pol, "packages") \cup When(l.installed /\ (l.lock = "unreadable" \/ l.comparison = "down"), "error", "packages")
\* appraiseInstalls(): a lockfile at the commit, and what was installed of it.
LockFindings(l, pol) ==
    IF l.installed
    THEN UNION {When(l.lock = "none", pol, "packages"), When(l.lock = "unreadable", "error", "packages"),
                When(l.comparison = "down", "error", "packages")}
    ELSE When(l.lock = "some", IF l.release THEN "info" ELSE "warn", "packages")

\* appraiseProvenance(): what each package's attestation turned out to be.
ProvenanceFindings(answers) ==
    UNION {When("no" \in answers, "fail", "provenance"), When("down" \in answers, "error", "provenance")}

\* Packages never fail for what could not be fetched or read (policy `warn').
PackagesNeverFailAlone(p) ==
    "no" \notin p.answers =>
        "fail" \notin Severities(LockFindings(p, "warn") \cup ProvenanceFindings(p.answers))

---------------------------------------------------------------------------
(* Processes: appraiseProcessList(), codeFilter() *)

\* Mutant: only the directory that holds a code file is code.
ParentsOnly(dir, files) == \E file \in files : dir = Front(file)
\* A directory is code when a code file lies in it, at any depth: what is
\* added there may be found before it.
HoldsCode(dir, files) == \E file \in files : IsStrictPrefix(dir, file)

\* What a process may have loaded; placeholders do not make a directory code.
IsCode(change, service) ==
    IF change.dir
    THEN \/ HoldsCode(change.path, (service.tracked \ service.placeholders) \cup service.outputs)
         \/ \E install \in service.installs : IsPrefix(install, change.path)
    ELSE \/ change.path \in service.tracked \cup service.outputs
         \/ \E install \in service.installs : IsStrictPrefix(install, change.path)

ProcessFindings(p, service, pol) ==
    UNION {When("critical" \in p.integrity, "fail", "process"),
           When("warning" \in p.integrity \/ p.exeDeleted, "warn", "process"),
           When("unreadable" \in p.integrity \/ p.incomplete, "error", "process"),
           When(p.truncated, pol, "process"),
           When(\E change \in p.changed : IsCode(change, service), pol, "process")}

\* appraiseBundler(): the directory on RUBYLIB is the one that was reported
\* and hashed, and is the published gem.
BundlerFindings(b) ==
    IF ~b.setup THEN {}
    ELSE IF ~b.reported \/ b.errors THEN {<<"fail", "process">>}
    ELSE {<<IF b.gem = "same" THEN "info" ELSE IF b.gem = "down" THEN "error" ELSE "fail", "process">>}

\* The tree of the processes' service: app/lib/a is tracked, log/.keep a
\* placeholder, dist/b build output, node_modules/ an install.
Tree == [tracked |-> {<<"app", "lib", "a">>, <<"log", ".keep">>}, placeholders |-> {<<"log", ".keep">>},
         outputs |-> {<<"dist", "b">>}, installs |-> {<<"node_modules">>}]
Changes == [dir : {FALSE}, path : {<<"app", "lib", "a">>, <<"app", "lib", "c">>, <<"dist", "b">>, <<"log", "x">>, <<"node_modules", "p", "i">>}]
           \cup [dir : {TRUE}, path : {<<>>, <<"app">>, <<"app", "lib">>, <<"log">>, <<"dist">>, <<"node_modules", "p">>, <<"tmp">>}]
Processes == [integrity : SUBSET {"critical", "warning", "unreadable"}, exeDeleted : BOOLEAN, incomplete : BOOLEAN,
              truncated : BOOLEAN, changed : {c \in SUBSET Changes : Cardinality(c) <= 2}]

\* A process under which code, or a directory that code is looked up in, was
\* changed is reported, unless only places no code is loaded from changed.
ChangedCodeIsReported(p, pol) ==
    (\E change \in p.changed : change.path # <<"log", "x">> /\ change.path # <<"app", "lib", "c">>
                               /\ change.path # <<"log">> /\ change.path # <<"tmp">>)
        => pol \in Severities(ProcessFindings(p, Tree, pol))

---------------------------------------------------------------------------
(* Containers: appraiseContainer() *)

\* imageDigest(): what the container runs, of the repositories it may run.
PinnedImage(c) == IF c.repositories THEN c.digests = "allowed" ELSE c.digests # "none"

\* registryProblem(): hosts a server names are contacted only when they are
\* public or configured.
Contacted(registry) == registry \in {"docker.io", "configured", "public", "unknownHost"}

\* Mutant: a mount is taken for the container's own business.
MountsAreFine(file) == FALSE
\* What a mount hides of the image.
Hidden(file) == file.mounted /\ file.image # "none" /\ ~file.runtime /\ ~file.allowed

Ignored(file) == file.runtime \/ file.mounted \/ file.allowed

\* What a container sees at a path, without mounts: its writable layer over
\* the image, in which a directory can be deleted with what is "below" it.
Seen(file) == IF file.upper = "same" THEN file.image ELSE IF file.upper \in {"deleted", "below"} THEN "none" ELSE file.upper

\* compareRootfs() and reportChanges(): lock and process id files in /run are
\* not compared when the image has none; modes are.
RootfsFindings(file, pol) ==
    IF Ignored(file) THEN {}
    ELSE When(Seen(file) # file.image /\ ~(file.image = "none" /\ file.runState), pol, "container")
         \cup When(Seen(file) = file.image /\ file.mode = "changed", "warn", "mode")

\* Mutant: files that were deleted are not looked for.
DeletedIgnored(file, pol) ==
    IF Ignored(file) \/ file.upper \in {"same", "deleted", "below"} THEN {}
    ELSE When(file.upper # file.image /\ ~file.runState, pol, "container")
\* appraiseContainer() without a walk of the root filesystem: what the layer
\* names, which of a deleted directory is no file of the image; no modes.
UpperFindings(file, pol) ==
    IF Ignored(file) \/ file.upper \in {"same", "below"} THEN {}
    ELSE IF file.upper = "deleted" THEN When(file.image # "none", pol, "container")
    ELSE IF file.image = "none" THEN When(~file.runState, pol, "container")
    ELSE When(file.image # file.upper, pol, "container")

\* Files that could not be read, or a list cut short, beside the comparison.
Incomplete(c) == When(c.incomplete, IF c.files = "rootfs" THEN "fail" ELSE "error", "container")

\* appraiseImageSigner(): the index and the platform's manifest are tried;
\* "no" is an attestation that does not verify, "missing" none at all.
SignerFindings(answers) ==
    IF "yes" \in answers THEN {}
    ELSE {<<IF "down" \in answers /\ "no" \notin answers THEN "error" ELSE "fail", "container">>}

\* appraiseContainer(): each early return, then the image, signer and files.
ContainerFindings(c, pol) ==
    IF ~c.running THEN {<<"fail", "container">>}
    ELSE IF c.repositories /\ c.digests = "other" THEN {<<"fail", "container">>}
    ELSE IF ~PinnedImage(c) THEN {<<pol, "container">>}
    ELSE IF ~Contacted(c.registry) \/ c.image = "down" THEN {<<"error", "container">>}
    ELSE UNION {When(c.image = "otherManifest", "fail", "container"),
                IF c.signer THEN SignerFindings(c.signed) ELSE {},
                IF ~c.compareFiles THEN {}
                ELSE When(Hidden(c.file), pol, "container") \cup Incomplete(c)
                     \cup (IF c.files = "rootfs" THEN RootfsFindings(c.file, pol)
                           ELSE IF c.files = "upper" THEN UpperFindings(c.file, pol)
                           ELSE {<<"error", "container">>})}

ImageFiles ==
    {file \in [image : {"none", "ref"}, upper : {"same", "deleted", "below", "ref", "bad"}, mode : {"same", "changed"},
               mounted : BOOLEAN, runtime : BOOLEAN, allowed : BOOLEAN, runState : BOOLEAN] :
        /\ file.upper \in {"deleted", "below"} => file.image # "none"
        /\ file.mode = "changed" => file.image # "none" /\ file.upper \in {"ref", "bad"}}
\* Without its files' comparison, or without a running container of a public
\* image, nothing else of it is looked at.
Containers ==
    {c \in [running : BOOLEAN, repositories : BOOLEAN, digests : {"none", "allowed", "other"},
            registry : {"docker.io", "configured", "public", "unknownHost", "internal"},
            image : {"up", "down", "otherManifest"}, signer : BOOLEAN, signed : SUBSET {"yes", "no", "down", "lost", "missing"},
            compareFiles : BOOLEAN, files : {"rootfs", "upper", "none"}, incomplete : BOOLEAN, file : ImageFiles] :
        /\ c.signed # {} /\ Cardinality(c.signed) <= 2
        /\ c.signer \/ c.signed = {"yes"}
        /\ c.running \/ (~c.repositories /\ c.digests = "none")
        /\ c.registry = "docker.io" \/ (c.image = "up" /\ ~c.signer)
        /\ c.incomplete => c.compareFiles /\ c.files # "none"
        /\ (~c.running \/ ~c.compareFiles) => c.file = [image |-> "ref", upper |-> "same", mode |-> "same", mounted |-> FALSE,
                                                      runtime |-> FALSE, allowed |-> FALSE, runState |-> FALSE]}

\* A container that passes runs the image its registry has, under a name its
\* service may use, attested when a signer is configured; every file it sees
\* is the image's, but for what the runtime provides, /run holds, a volume adds
\* or the configuration allows, and, where only the writable layer is told,
\* for files below a directory that it deletes.
ContainerIsImage(c, pol) ==
    ContainerFindings(c, pol) = {} =>
        /\ c.running /\ c.digests # "none" /\ c.image = "up" /\ Contacted(c.registry)
        /\ c.repositories => c.digests = "allowed"
        /\ c.signer => "yes" \in c.signed
        /\ (c.compareFiles /\ ~c.file.runtime /\ ~c.file.allowed) =>
              /\ c.files # "none" /\ ~c.incomplete
              /\ IF c.file.mounted THEN c.file.image = "none"
                 ELSE \/ Seen(c.file) = c.file.image /\ (c.files = "rootfs" => c.file.mode = "same")
                      \/ c.file.image = "none" /\ c.file.runState
                      \/ c.files = "upper" /\ c.file.upper = "below"

\* The writable layer tells of contents what a walk of the root filesystem
\* does, except below directories that it deletes; of modes it tells nothing.
LayerTellsTheSame(file, pol) ==
    file.upper # "below" => UpperFindings(file, pol) = RootfsFindings(file, pol) \ {<<"warn", "mode">>}

\* A container of its image fails for what could not be fetched exactly when
\* nothing that was asked for its attestation failed as the network does.
ContainerFailsWhen(c, pol) ==
    (/\ c.running /\ c.digests = "allowed" /\ c.image # "otherManifest" /\ c.signed \subseteq {"yes", "down", "lost"}
     /\ ~c.incomplete /\ ~Hidden(c.file) /\ Seen(c.file) = c.file.image)
        => ("fail" \in Severities(ContainerFindings(c, pol))
              <=> Contacted(c.registry) /\ c.image = "up" /\ c.signer /\ c.signed = {"lost"})
============================================================================
