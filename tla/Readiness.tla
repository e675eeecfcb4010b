----------------------------- MODULE Readiness -----------------------------
(***************************************************************************)
(* `auditstatus doctor' (lib/doctor.js) against what it foresees: what the *)
(* attester can collect on a host as it is (lib/evidence.js), what a       *)
(* verifier can reach, and the commit a checkout is at while git runs.     *)
(***************************************************************************)
EXTENDS RegistryFiles

Add(condition, status, check) == When(condition, status, check)

---------------------------------------------------------------------------
(* The attester: one service on one host *)

\* collectEvidence() throws when a service's root or account does not exist.
Throws(h) == h.kind = "directory" /\ (~h.root \/ h.account = "unknown")

\* A configfs report needs root, or an entry that root made for the attester.
ReportMade(h) == h.tsm /\ (h.privileges = "root" \/ h.entry = "writable")
Quotes(h) == h.tpm # "off" /\ h.chip = "ready"

\* What evidence lacks: quoteEvidence(), confidentialReport(), readGitHead()
\* and the manifest, the processes, containers, logs and packages.
Lacks(h) ==
    UNION {{x \in {"tpm"} : ~Quotes(h)},
           {x \in {"ima"} : h.ima = "unreadable"},
           {x \in {"confidential"} : h.cvm # "off" /\ ~ReportMade(h) /\ (h.tsm \/ h.cvm = "required")},
           {x \in {"monitor"} : h.monitor = "missing"},
           {x \in {"distro"} : h.distro = "none"},
           IF h.kind = "directory"
           THEN {x \in {"commit"} : h.deployed = "neither"} \cup {x \in {"processes"} : h.running = "none"}
                    \cup {x \in {"checks"} : h.running = "other" /\ h.privileges = "user"}
           ELSE {x \in {"containers"} : h.runtime = "none" \/ h.running = "none"}}

\* attesterDoctor() on a directory service; each problem ends its checks.
ServiceChecks(h) ==
    IF h.kind = "container" THEN {}
    ELSE IF ~h.root THEN {<<"fail", "service">>}
    ELSE Add(h.deployed = "neither", "fail", "service") \cup
         IF h.account = "unknown" THEN {<<"fail", "service">>}
         ELSE IF h.running = "none" THEN {<<"warn", "service">>}
         ELSE Add(h.running = "other" /\ h.privileges = "user", "fail", "service")

ContainerChecks(h) ==
    IF h.kind = "directory" THEN {}
    ELSE IF h.runtime = "none" THEN {<<"fail", "containers">>}
    ELSE Add(h.running = "none", "warn", "service")

\* Mutant: a TPM that is there is enough.
AnyChip(h) == Add(h.tpm = "off", "warn", "tpm") \cup Add(h.tpm # "off" /\ h.chip = "none", "warn", "tpm")
TpmChecks(h) ==
    IF h.tpm # "off" /\ h.chip = "ready" THEN {}
    ELSE {<<IF h.tpm = "required" /\ h.chip = "none" THEN "fail" ELSE "warn", "tpm">>}

\* An entry is only looked for where the attester is not root.
ConfidentialChecks(h) ==
    IF h.cvm = "off" THEN {}
    ELSE IF ~h.tsm THEN Add(h.cvm = "required", "fail", "confidential")
    ELSE Add(h.privileges # "root" /\ h.entry # "writable", IF h.cvm = "required" THEN "fail" ELSE "warn", "confidential")

Doctor(h) ==
    UNION {Add(h.privileges = "user", "warn", "permissions"), ServiceChecks(h), ContainerChecks(h),
           Add(h.distro = "none", "warn", "distro"), TpmChecks(h), Add(h.ima = "unreadable", "fail", "ima"),
           ConfidentialChecks(h), Add(h.monitor = "missing", "fail", "monitor"),
           Add(h.monitor = "stale", "warn", "monitor")}

Where == [tpm |-> "tpm", ima |-> "ima", confidential |-> "confidential", monitor |-> "monitor", distro |-> "distro",
          commit |-> "service", processes |-> "service", checks |-> "service", containers |-> "containers"]

\* Processes of a container are none of a directory's: that they run from its
\* path on the host, as doctor may see them, is left out.  `running' tells the
\* processes of the attester's own user from others.
Hosts ==
    {h \in [kind : {"directory", "container"}, privileges : {"root", "caps", "user"}, root : BOOLEAN,
            deployed : {"git", "manifest", "neither"}, account : {"none", "known", "unknown"},
            running : {"none", "own", "other"}, runtime : {"none", "api"}, tpm : {"auto"}, chip : {"ready"},
            ima : {"off"}, cvm : {"off"}, tsm : {FALSE}, entry : {"unset"}, monitor : {"off"}, distro : {"dpkg"}] :
        IF h.kind = "directory" THEN h.runtime = "api"
        ELSE h.root /\ h.deployed = "git" /\ h.account = "none" /\ h.running # "other"}
    \cup
    [kind : {"directory"}, privileges : {"root", "caps", "user"}, root : {TRUE}, deployed : {"git"}, account : {"known"},
     running : {"own"}, runtime : {"api"}, tpm : {"off", "auto", "required"}, chip : {"none", "noKey", "ready"},
     ima : {"off", "readable", "unreadable"}, cvm : {"off", "auto", "required"}, tsm : BOOLEAN,
     entry : {"unset", "missing", "readonly", "writable"}, monitor : {"off", "missing", "stale", "fresh"},
     distro : {"off", "none", "dpkg"}]

\* What makes evidence fail, or lack something, is a problem or a warning that
\* `doctor' prints, at what lacks it; nothing required is lacking without a
\* problem, but for a TPM without its key.
DoctorForesees(h) ==
    /\ Throws(h) => <<"fail", "service">> \in Doctor(h)
    /\ ~Throws(h) => \A what \in Lacks(h) :
          \E found \in Doctor(h) : found[2] = Where[what] \/ (what = "containers" /\ found[2] = "service")
    /\ h.tpm = "required" /\ h.chip = "none" => <<"fail", "tpm">> \in Doctor(h)
    /\ h.cvm = "required" /\ ~ReportMade(h) => <<"fail", "confidential">> \in Doctor(h)

---------------------------------------------------------------------------
(* The verifier *)

\* Mutant: a key of the host is one of the server's.
HostPinned(v) == \E known \in v.known : known[1] = v.server.host
\* verifierDoctor(): a known_hosts line under the name ssh looks for.
Pinned(v) == LookedUp(v, v.server) \in v.known

\* BuildAccount is chosen as verifierDoctor() chooses it.
Account(v) == IF v.user # "none" THEN v.user ELSE v.envUser
VerifierDoctor(v) ==
    UNION {Add(v.transport = "ssh" /\ ~Pinned(v), "fail", "server"),
           Add(v.transport = "ssh" /\ ~v.sshKey, "fail", "ssh"),
           Add(v.transport = "kubernetes" /\ ~v.kubectl, "fail", "kubernetes"),
           Add(v.distro /\ ~v.tools, "fail", "distro"),
           Add(v.repository = "unreachable", "fail", "service"),
           IF ~v.build \/ v.repository = "none" THEN {}
           ELSE Add(Account(v) = "none", "warn", "build") \cup Add(Account(v) = "unusable", "fail", "build"),
           Add(v.tpm # "full", "warn", "server")}

\* What keeps an audit from comparing: the connection, its references, builds.
Obstacles(v) ==
    UNION {Add(v.transport = "ssh" /\ (~v.sshKey \/ LookedUp(v, v.server) \notin v.known), "error", "collect"),
           Add(v.transport = "kubernetes" /\ ~v.kubectl, "error", "collect"),
           Add(v.distro /\ ~v.tools, "error", "code"), Add(v.repository = "unreachable", "error", "source"),
           Add(v.build /\ v.repository # "none" /\ Account(v) = "unusable", "error", "build")}

Verifiers ==
    [transport : {"ssh", "kubernetes", "local"}, sshPort : {"22", "2222"},
     server : [host : {"h"}, port : {"default", "22", "2222"}],
     known : SUBSET {<<"h", "bare">>, <<"h", "22">>, <<"h", "2222">>, <<"g", "bare">>},
     sshKey : BOOLEAN, kubectl : BOOLEAN, distro : BOOLEAN, tools : BOOLEAN,
     repository : {"none", "reachable", "unreachable"}, build : BOOLEAN,
     user : {"none", "usable", "unusable"}, envUser : {"none", "usable"}, tpm : {"none", "key", "full"}]

\* `doctor --role verifier' ends with a problem exactly when the audit is
\* going to be kept from a server, a reference or a build.  (A local server's
\* attester has its own doctor.)
VerifierForesees(v) ==
    (Obstacles(v) # {}) <=> ("fail" \in Severities(VerifierDoctor(v)))

---------------------------------------------------------------------------
(* The commit of a checkout, read without git while git may run *)

\* git's own steps on a branch: an update writes the loose ref, and pack-refs
\* writes the packed ref before it removes the loose one.
Updated(g, commit) == [g EXCEPT !.loose = commit]
PackedRef(g) == [g EXCEPT !.packed = g.loose]
Pruned(g) == [g EXCEPT !.loose = "none"]
At(g) == IF g.loose # "none" THEN g.loose ELSE g.packed

\* What happens between the two reads.
Histories(g) ==
    {<<g>>, <<g, Updated(g, "c3")>>}
        \cup IF g.loose = "none" THEN {}
             ELSE {<<g, PackedRef(g), Pruned(PackedRef(g))>>,
                   <<g, PackedRef(g), Pruned(PackedRef(g)), Updated(Pruned(PackedRef(g)), "c3")>>}

\* Mutant: the packed refs are read first.
PackedFirst(first, later) == IF first.packed # "none" THEN first.packed ELSE later.loose
\* readGitHead(): a loose ref is the branch's; the packed ones are read after.
ReadGitHead(first, later) == IF first.loose # "none" THEN first.loose ELSE later.packed

Checkouts == {g \in [loose : {"none", "c1", "c2"}, packed : {"none", "c1"}] : At(g) # "none"}

\* The commit reported is one the checkout was at while it was read.
CommitWasCheckedOut(g) ==
    \A history \in Histories(g) :
        \A i, j \in DOMAIN history :
            i <= j => ReadGitHead(history[i], history[j]) \in {At(history[n]) : n \in i..j}
============================================================================
