--------------------------- MODULE Configuration ---------------------------
(***************************************************************************)
(* The two configuration files (lib/config.js): which are accepted, by     *)
(* whom, and what the defaults make of them.  What is asked of a server is *)
(* stated against its appraisal, ServerAppraisal's Hardware, so that a     *)
(* setting counts by what it makes of evidence.                            *)
(*                                                                         *)
(* A setting is "absent" (null is absent), "malformed" (of another type,   *)
(* or outside its pattern), or one of its values; a key the tables do not  *)
(* hold is in `unknown'.                                                   *)
(***************************************************************************)
EXTENDS ServerAppraisal, FiniteSets

Set(value) == value # "absent"

\* Mutant: a key the table does not hold is passed over.
KnownOnly(values, unknown) == "malformed" \notin values
\* check(): every value is of its setting's type, and no key is unknown.
Conforms(values, unknown) == "malformed" \notin values /\ unknown = {}

---------------------------------------------------------------------------
(* The verifier's servers *)

\* A key is compared without its white space: "k1" and "k1wrapped" are one.
KeyOf(text) == IF text = "k1wrapped" THEN "k1" ELSE text

\* Mutant: keys are compared as they are written.
TextsDiffer(a, b) == ~(Set(a.key) /\ Set(b.key) /\ a.key = b.key)
KeysDiffer(a, b) == ~(Set(a.key) /\ Set(b.key) /\ KeyOf(a.key) = KeyOf(b.key))

\* SERVER_SCHEMA and the check of `servers': names and TPM keys are of one
\* server each, a server says where it is for its transport, and what needs a
\* key to be verified names the key.
AcceptsServers(servers) ==
    /\ \A i \in DOMAIN servers :
          LET s == servers[i]
          IN  /\ Conforms({s.required, s.ima, s.key, s.confidential}, s.unknown)
              /\ s.addressed
              /\ (s.required = "true" \/ s.ima = "true") => Set(s.key)
    /\ \A i, j \in DOMAIN servers :
          i # j => servers[i].name # servers[j].name /\ KeysDiffer(servers[i], servers[j])

\* normalizeVerifierConfig(): a pinned key is a required quote; a confidential
\* section requires its report unless it says otherwise.
NormalTpm(s) == [required |-> s.required = "true" \/ Set(s.key), ima |-> s.ima = "true", key |-> s.key]
NormalConfidential(s) ==
    IF s.confidential = "absent" THEN "none" ELSE IF s.confidential = "optional" THEN "optional" ELSE "required"

\* What the appraisal makes of a configured server's evidence; `by' is the
\* key that signed the quote.
Enforced(s, e) ==
    LET tpm == NormalTpm(s)
    IN  Hardware([pinned |-> Set(tpm.key),
                  quote |-> IF e.by = "none" THEN "none" ELSE IF e.by = KeyOf(tpm.key) THEN "valid" ELSE "invalid",
                  tpmRequired |-> FALSE, ima |-> e.ima, pcr10 |-> e.pcr10, imaRequired |-> tpm.ima,
                  report |-> e.report, expected |-> NormalConfidential(s), cvmRequired |-> FALSE])

Asks(s) == s.unknown \cup {ask \in {"required", "ima"} : s[ask] = "true"}
                     \cup {ask \in {"key"} : Set(s.key)}
                     \cup {ask \in {"confidential"} : s.confidential = "required"}
Needs == [required |-> "tpm", key |-> "tpm", ima |-> "ima", confidential |-> "cvm"]

\* `unknown' is a setting the operator meant, misspelled.
ServerEntries ==
    [name : {"a"}, required : {"absent", "true", "false", "malformed"}, ima : {"absent", "true"},
     key : {"absent", "k1", "k1wrapped", "malformed"}, confidential : {"absent", "optional", "required"},
     addressed : BOOLEAN, unknown : {{}, {"required"}, {"ima"}, {"key"}, {"confidential"}}]
OtherEntries ==
    [name : {"a", "b"}, required : {"absent"}, ima : {"absent", "true"}, key : {"absent", "k1", "k2"},
     confidential : {"absent"}, addressed : {TRUE}, unknown : {{}}]
ServerLists == {<<s>> : s \in ServerEntries} \cup {<<s, o>> : s \in ServerEntries, o \in OtherEntries}

Answers == [by : {"none", "k1", "k2", "other"}, ima : {"none", "edited", "backed"}, pcr10 : BOOLEAN,
            report : {"none", "invalid", "valid"}]

\* What the operator asks of a server, in whatever setting, is verified when
\* the server passes, or the configuration is refused: no misspelling and no
\* default turns it off.
AskedIsEnforced(servers) ==
    AcceptsServers(servers) =>
        \A i \in DOMAIN servers, e \in Answers :
            LET r == Enforced(servers[i], e)
            IN  Severities(r.findings) \cap {"fail", "error"} = {} =>
                    \A ask \in Asks(servers[i]) : Needs[ask] \in r.hardware

\* One machine cannot answer as two: no evidence is the TPM evidence of two
\* servers.
OneMachineEach(servers) ==
    AcceptsServers(servers) =>
        \A i, j \in DOMAIN servers, e \in Answers :
            "tpm" \in Enforced(servers[i], e).hardware /\ "tpm" \in Enforced(servers[j], e).hardware => i = j

---------------------------------------------------------------------------
(* The verifier's services *)

\* What normalizeVerifierConfig() asks of the services, and of the names the
\* server entries expect; `services' is the one service "app" when absent.
AcceptsServices(c) ==
    /\ c.services = <<>> => c.repository
    /\ \A i \in DOMAIN c.services :
          /\ c.services[i].repository \/ c.repository \/ c.services[i].image
          /\ \A j \in DOMAIN c.services : c.services[i].name = c.services[j].name => i = j
    /\ c.services # <<>> /\ ~c.all => c.expected \subseteq {c.services[i].name : i \in DOMAIN c.services}

\* Mutant: an image's service takes the top-level build as any other.
BuildForAll(c, s) == IF s.build THEN "own" ELSE IF c.build THEN "top" ELSE "none"
RepositoryOf(c, s) == IF s.repository THEN "own" ELSE IF c.repository THEN "top" ELSE "none"
BuildOf(c, s) == IF s.build THEN "own" ELSE IF s.image \/ ~c.build THEN "none" ELSE "top"

NormalServices(c) ==
    IF c.services = <<>>
    THEN {[name |-> "app", repository |-> "top", build |-> IF c.build THEN "top" ELSE "none", image |-> FALSE]}
    ELSE {[name |-> s.name, repository |-> RepositoryOf(c, s), build |-> BuildOf(c, s), image |-> s.image] :
             s \in {c.services[i] : i \in DOMAIN c.services}}

\* appraiseServer(): the services that are judged, all of them unless the
\* server entry lists those it expects.
Wanted(c) ==
    IF c.all THEN NormalServices(c) ELSE {s \in NormalServices(c) : s.name \in c.expected}

VerifierServices ==
    LET Service == [name : {"app", "web"}, repository : BOOLEAN, image : BOOLEAN, build : BOOLEAN]
    IN  [repository : BOOLEAN, build : BOOLEAN, minProcesses : 0..1,
         all : BOOLEAN, expected : SUBSET {"app", "web", "typo"},
         services : {<<>>} \cup {<<s>> : s \in Service} \cup {<<s, t>> : s \in Service, t \in Service}]

\* Everything a server is expected to run is judged, or is missing from it,
\* against references the configuration names, and a build is only run in the
\* repository of a service that needs it.  (With the one service "app", other
\* expected names are found by the processes that are missing.)
ExpectedIsJudged(c) ==
    AcceptsServices(c) =>
        /\ \A s \in NormalServices(c) : s.repository # "none" \/ s.image
        /\ \A s \in NormalServices(c) : s.image /\ s.build # "none" => s.build = "own"
        /\ Cardinality(NormalServices(c)) = IF c.services = <<>> THEN 1 ELSE Len(c.services)
        /\ \/ c.all \/ c.expected \subseteq {s.name : s \in Wanted(c)}
           \/ c.services = <<>> /\ (Wanted(c) = {} => c.minProcesses = 0 \/
                <<"fail", "processes">> \in ExpectedFindings([services |-> {}, processes |-> 0,
                                                                minProcesses |-> c.minProcesses]))

---------------------------------------------------------------------------
(* The attester's file *)

\* Mutant: what the name leads to when the text is read.
ReadsTheName(load) == load.later
\* readRegularFile(): the text is of the file that was opened and checked.
TextOf(load) == load.opened

\* assertTrustedFile(), on the open file.
TrustedFile(load) ==
    /\ load.opened.owner = "root" \/ (~load.privileged /\ load.opened.owner = "self")
    /\ ~load.opened.writable
RootsPlace(text, what) == ~text[what].enabled \/ text[what].at = "roots"

\* loadAttesterConfig(): with capabilities, one file is read, and what it
\* names is where root puts it, once resolved.
Loads(load) ==
    /\ load.privileged => load.fixedPath
    /\ load.opened.regular
    /\ TrustedFile(load)
    /\ load.privileged => \A what \in {"ima", "monitor", "entry"} : RootsPlace(TextOf(load).text, what)

Texts == [by : {"root", "self", "other"}, ima : [enabled : BOOLEAN, at : {"roots", "elsewhere"}],
          monitor : [enabled : BOOLEAN, at : {"roots", "elsewhere"}],
          entry : [enabled : BOOLEAN, at : {"roots", "elsewhere"}]]
\* A file others may write can hold anyone's text.
FilesRead == {f \in [regular : BOOLEAN, owner : {"root", "self", "other"}, writable : BOOLEAN, text : Texts] :
                 ~f.writable => f.text.by = f.owner}
Plain == [enabled |-> FALSE, at |-> "roots"]
Loading ==
    [privileged : BOOLEAN, fixedPath : BOOLEAN, opened : FilesRead,
     later : {[regular |-> TRUE, owner |-> "other", writable |-> FALSE,
               text |-> [by |-> "other", ima |-> Plain, monitor |-> Plain, entry |-> Plain]]}]

\* What an attester does is what root, or the user it runs as, wrote, whatever
\* happens to the file's name meanwhile; with capabilities only root, and only
\* root's files are read.
RootDecides(load) ==
    Loads(load) =>
        /\ TextOf(load).text.by \in {"root"} \cup {who \in {"self"} : ~load.privileged}
        /\ load.privileged => \A what \in {"ima", "monitor", "entry"} :
                                 TextOf(load).text[what] # [enabled |-> TRUE, at |-> "elsewhere"]

\* containerMatches(): an empty filter selects every container.
Selects(filter, container) == filter = "any" \/ filter = container
Filters(service) == IF service.filter = "empty" THEN "any" ELSE service.filter

\* Mutant: a container section is enough.
AnyFilter(service) == service.filter # "absent"
HasFilter(service) == service.filter \notin {"absent", "empty"}
\* normalizeAttesterConfig(): one form; a service has a name of its own and is
\* either a directory or the containers its filter names.
AcceptsAttester(c) ==
    /\ (c.short # {}) # (c.services # <<>>)
    /\ c.short # {} => "projectRoot" \in c.short
    /\ \A i \in DOMAIN c.services :
          /\ c.services[i].root = (c.services[i].filter = "absent")
          /\ c.services[i].filter # "absent" => HasFilter(c.services[i])
          /\ \A j \in DOMAIN c.services : c.services[i].name = c.services[j].name => i = j

AttesterServices(c) ==
    IF c.services = <<>> THEN {[name |-> "app", root |-> TRUE, filter |-> "absent"]}
    ELSE {c.services[i] : i \in DOMAIN c.services}

AttesterFiles ==
    LET Service == [name : {"app", "web"}, root : BOOLEAN, filter : {"absent", "empty", "c1", "c2"}]
    IN  [short : SUBSET {"projectRoot", "processes", "exclude"},
         services : {<<>>} \cup {<<s>> : s \in Service} \cup {<<s, t>> : s \in Service, t \in Service}]

\* What an accepted file describes can be told apart: a service of the
\* evidence is found by its name, and is a directory or containers its filter
\* names, never every container of the host.
ServicesAreTold(c) ==
    AcceptsAttester(c) =>
        \A s \in AttesterServices(c) :
            /\ \A t \in AttesterServices(c) : s.name = t.name => s = t
            /\ s.root # (s.filter # "absent")
            /\ ~s.root => \E container \in {"c1", "c2"} : ~Selects(Filters(s), container)
============================================================================
