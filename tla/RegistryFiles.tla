--------------------------- MODULE RegistryFiles ---------------------------
(***************************************************************************)
(* The registry's files (lib/registry.js): a project's file is checked,    *)
(* the commands of `auditstatus registry' rewrite its servers with host    *)
(* keys and TPM keys, and a run reads it.  (RegistryRun has the run.)      *)
(*                                                                         *)
(* A host is known by <<host, "bare">>, or <<host, port>> for              *)
(* "[host]:port"; a host key is [hosts, key], with no hosts for the line   *)
(* of a .pub file, and the key "bad" for what parseHostKey() refuses.      *)
(***************************************************************************)
EXTENDS Configuration

PortOf(f, s) == IF s.port = "default" THEN f.sshPort ELSE s.port

\* The name OpenSSH looks a server's key up by, and knownHosts() writes.
LookedUp(f, s) == IF PortOf(f, s) = "22" THEN <<s.host, "bare">> ELSE <<s.host, PortOf(f, s)>>

\* readProject(): names are of one server, and a key copied with its host is
\* of this server's host.
Accepts(f) ==
    /\ \A i, j \in DOMAIN f.servers : i # j => f.servers[i].name # f.servers[j].name
    /\ \A i \in DOMAIN f.servers :
          LET s == f.servers[i]
          IN  \A k \in s.hostKeys : /\ k.key # "bad"
                                    /\ k.hosts = {} \/ {<<s.host, "bare">>, <<s.host, PortOf(f, s)>>} \cap k.hosts # {}

\* Mutant: the port of the ssh section is not a server's.
NameAlone(f) == {[name |-> IF f.servers[i].port \in {"22", "default"} THEN <<f.servers[i].host, "bare">>
                           ELSE <<f.servers[i].host, f.servers[i].port>>, keys |-> f.servers[i].hostKeys] :
                   i \in DOMAIN f.servers}
KnownHosts(f) == {[name |-> LookedUp(f, f.servers[i]), keys |-> f.servers[i].hostKeys] : i \in DOMAIN f.servers}

\* pendingServers(): the servers that a run does not contact.
Pending(f) == {s \in {f.servers[i] : i \in DOMAIN f.servers} : s.hostKeys = {}}

\* Mutant: a line of the host is one of the server's, whatever its port.
LinesOfHost(f, s, lines) == {k \in lines : \E name \in k.hosts : name[1] = s.host}
\* withHostKeys(): the known_hosts lines of a server's address.
LinesOf(f, s, lines) ==
    LET names == IF PortOf(f, s) = "22" THEN {<<s.host, "bare">>, <<s.host, "22">>} ELSE {<<s.host, PortOf(f, s)>>}
    IN  {k \in lines : k.key # "bad" /\ k.hosts \cap names # {}}

WithHostKeys(f, lines) ==
    [f EXCEPT !.servers = [i \in DOMAIN f.servers |->
        LET found == LinesOf(f, f.servers[i], lines)
        IN  IF found = {} THEN f.servers[i]
            ELSE [f.servers[i] EXCEPT !.hostKeys = {[hosts |-> {}, key |-> k.key] : k \in found}]]]

\* withServers(): only the last section can be replaced.
Rewritable(f) == f.after # "section"

Key(hosts, key) == [hosts |-> hosts, key |-> key]
HostKeys == {Key({}, "k1"), Key({<<"h", "bare">>}, "k2"), Key({<<"h", "2222">>}, "k3"), Key({}, "bad")}
Lines == {Key({<<"h", "bare">>}, "k4"), Key({<<"h", "2222">>}, "k5"), Key({<<"h", "22">>, <<"g", "2222">>}, "k6"),
          Key({<<"g", "bare">>}, "k7"), Key({<<"h", "bare">>}, "bad")}
ProjectFiles ==
    LET First == [name : {"a"}, host : {"h"}, port : {"default", "22", "2222"}, hostKeys : SUBSET HostKeys]
        Second == [name : {"a", "b"}, host : {"g", "h"}, port : {"default", "22", "2222"},
                   hostKeys : {{}, {Key({}, "k1")}}]
    IN  [sshPort : {"22", "2222"}, after : {"nothing", "comments", "section"}, lines : SUBSET Lines,
         servers : {<<s>> : s \in First} \cup {<<s, t>> : s \in First, t \in Second}]

\* A key is only ever pinned for the address it was read at, under the name
\* ssh looks it up by, and a server that is contacted has one; a file that was
\* rewritten is one that the registry accepts, with every server it had.
KeysAreTheServers(f) ==
    Accepts(f) /\ Rewritable(f) =>
        LET g == WithHostKeys(f, f.lines)
        IN  /\ Accepts(g) /\ DOMAIN g.servers = DOMAIN f.servers /\ Pending(g) \subseteq Pending(f)
            /\ \A i \in DOMAIN g.servers :
                  LET s == g.servers[i]
                      port == PortOf(f, s)
                      pinned == {k.key : k \in UNION {known.keys : known \in {x \in KnownHosts(g) : x.name = LookedUp(f, s)}}}
                      had == {k.key : k \in UNION {f.servers[j].hostKeys :
                                j \in {n \in DOMAIN f.servers : LookedUp(f, f.servers[n]) = LookedUp(f, s)}}}
                      read == {k.key : k \in {x \in f.lines : \/ <<s.host, port>> \in x.hosts
                                                              \/ port = "22" /\ <<s.host, "bare">> \in x.hosts}}
                  IN  pinned \subseteq had \cup read /\ (s \notin Pending(g) => pinned # {})

---------------------------------------------------------------------------
(* TPM keys *)

\* Mutant: an enrolled server keeps the settings it had.
KeyOnly(s, key, ima) == [s EXCEPT !.key = key]
\* withTpmKeys(): an enrolled server requires a quote, and with --ima its log;
\* settings of an earlier enrollment are replaced.
Enrolled(s, key, ima) ==
    [s EXCEPT !.key = key, !.required = "true", !.ima = IF ima THEN "true" ELSE "absent"]
WithTpmKeys(servers, found, ima) ==
    [i \in DOMAIN servers |-> IF Set(found[servers[i].name]) THEN Enrolled(servers[i], found[servers[i].name], ima)
                              ELSE servers[i]]

EntriesNamed(name) ==
    [name : {name}, required : {"absent", "true"}, ima : {"absent", "true"}, key : {"absent", "k1", "k2"},
     confidential : {"absent", "required"}, addressed : {TRUE}, unknown : {{}}]
Enrollments ==
    LET First == EntriesNamed("a")
    IN  [servers : {<<s>> : s \in First} \cup {<<s, t>> : s \in First, t \in EntriesNamed("b")},
         found : [{"a", "b"} -> {"absent", "k1", "k2"}], ima : BOOLEAN]

\* Enrolled servers pass only with a quote of the key that was found in their
\* TPM, and with --ima its log; the others are asked what they were.  The file
\* is refused afterwards only when two servers have one TPM.  (Without --ima an
\* earlier ima: true is dropped.)
EnrolledIsRequired(e) ==
    AcceptsServers(e.servers) =>
        LET after == WithTpmKeys(e.servers, e.found, e.ima)
        IN  /\ \A i \in DOMAIN after, answer \in Answers :
                  LET r == Enforced(after[i], answer)
                      found == e.found[after[i].name]
                      enrolled == Set(found)
                  IN  Severities(r.findings) \cap {"fail", "error"} = {} =>
                        /\ enrolled => answer.by = found /\ "tpm" \in r.hardware
                        /\ enrolled /\ e.ima => "ima" \in r.hardware
                        /\ \A ask \in Asks(e.servers[i]) :
                              ~(enrolled /\ ask = "ima" /\ ~e.ima) => Needs[ask] \in r.hardware
            /\ AcceptsServers(after) \/ \E i, j \in DOMAIN after : i # j /\ after[i].key = after[j].key

---------------------------------------------------------------------------
(* The plan of a run *)

\* Mutant: only a service's own build is looked for.
BuildsOfServices(c) == \E i \in DOMAIN c.services : c.services[i].build
\* plan(): whether a project gets a build job.
PlansBuild(c) == c.build \/ \E i \in DOMAIN c.services : c.services[i].build

\* The builds that the audit of a project looks up in the cache were planned.
BuildsArePlanned(c) ==
    AcceptsServices(c) =>
        ((\E s \in NormalServices(c) : s.build # "none" /\ s.repository # "none") => PlansBuild(c))
============================================================================
