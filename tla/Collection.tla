------------------------------ MODULE Collection ------------------------------
(***************************************************************************)
(* The attester's collectEvidence (src/lib/evidence.js) while the server   *)
(* goes on running: files are changed and put back, processes start and    *)
(* end, a binary is upgraded and the kernel measures what is loaded        *)
(* between any two of its steps.                                           *)
(*                                                                         *)
(* The services are a directory A, a container service C and a directory   *)
(* B, collected in that order.  One file of code stands for all of them:   *)
(* a behaviour is about one of A's own files, one in an install of A or    *)
(* one of the PM2 that starts A's and B's processes; or about the          *)
(* processes and what they run, or the IMA log, with no file at all.       *)
(* What a behaviour is not about stays as it is.                           *)
(***************************************************************************)
EXTENDS Naturals, FiniteSets

CONSTANTS
    Pids,       \* process ids; each is used once
    MaxNow,     \* bound: events of the server during a behaviour
    MaxUpgrades, \* bound: upgrades of the binary
    MaxIma,     \* bound: entries in the IMA log
    MaxUnclaimed, \* the unclaimed processes that are listed: 256 in the code
    Tolerance   \* START_TIME_TOLERANCE_MS, in ticks of the clock

ASSUME CollectionAssumption ==
    /\ IsFiniteSet(Pids)
    /\ {MaxNow, MaxUpgrades, MaxIma, MaxUnclaimed, Tolerance} \subseteq Nat
    /\ "init" \notin Pids

VARIABLES
    now,        \* the clock: one tick per event
    about,      \* "own", "install", "pm2", "processes" or "ima"
    limits,     \* config.limits.maxFiles and maxChangedFiles
    byUser,     \* the directory services name their user
    disk,       \* the file: content, mtime, ctime, and its directory's ctime
    procs,      \* the processes
    version,    \* the binary at the path the processes run
    up,         \* the process the runtime started in the container lives
    ima,        \* the IMA log's length and how much of it PCR 10 covers
    step,       \* where the collection is
    all,        \* listProcesses, as evidence.js keeps it
    contained,  \* those with info.container
    error,      \* container.error
    claimed,    \* those with info.claimed
    ev,         \* the evidence
    ran,        \* history: who loaded the wrong content before it was hashed
    mended      \* history: when wrong content was last replaced

world == <<now, about, limits, byUser, disk, procs, version, up, ima, ran, mended>>
collector == <<step, all, contained, error, claimed, ev>>
vars == <<world, collector>>

Directories == {"A", "B"}
Services == {"A", "B", "C"}
Contents == {"good", "bad", "gone"}
Executables == {"path", "deleted"}

(***************************************************************************)
(* What a process is.  "app" and "worker" run in A and B; "daemon" is      *)
(* PM2's, elsewhere; "guest" is in the container; "moved" is in a cgroup   *)
(* of the container's name, "jailed" also in a root of its own; "other"    *)
(* runs in A as another user.                                              *)
(***************************************************************************)
Roles == {"app", "worker", "daemon", "guest", "moved", "jailed", "other"}
Audited(role) == role # "other"
RunsIn(role) == IF role = "worker" THEN "B" ELSE IF role = "daemon" THEN "elsewhere" ELSE "A"
InCgroup(role) == role \in {"guest", "moved", "jailed"}
RootOf(role) == IF role = "guest" THEN "container" ELSE IF role = "jailed" THEN "own" ELSE "host"

Running == {p \in Pids : procs[p].runs}
Daemons == {p \in Running : procs[p].role = "daemon"}

NoChanges == [written |-> {}, status |-> {}, cut |-> FALSE]
NoStatus == [mtime |-> 0, ctime |-> 0, dir |-> 0]

\* An executable not read, and one that could not be; otherwise its version.
NotRead == MaxUpgrades + 1
Unreadable == MaxUpgrades + 2

Evidence == [hash : Contents \cup {"none"}, truncated : BOOLEAN,
             times : [mtime : Nat, ctime : Nat, dir : Nat],
             processes : [Services -> SUBSET Pids],
             marked : SUBSET Pids,
             changes : [Pids -> [written : SUBSET {"file"}, status : SUBSET {"file", "directory"},
                                 cut : BOOLEAN]],
             daemons : SUBSET Pids,
             user : [Directories -> SUBSET Pids],
             exes : [Executables -> 0..Unreadable],
             quote : SUBSET (0..MaxIma), log : SUBSET (0..MaxIma)]

Init ==
    /\ now = 0
    /\ about \in {"own", "install", "pm2", "processes", "ima"}
    /\ limits \in 0..1
    /\ byUser \in BOOLEAN
    /\ disk \in [content : {"good", "bad"}, mtime : {0}, ctime : {0}, dir : {0}]
    /\ procs \in [Pids -> [role : Roles, runs : BOOLEAN, used : {FALSE}, start : {0},
                           exe : 0..MaxUpgrades, parent : {"init"}]]
    /\ about \in {"own", "install"} => \A p \in Pids : procs[p].role = "app"
    /\ about = "pm2" => {procs[p].role : p \in Pids} = {"app", "daemon"}
    /\ about \in {"processes", "ima"} =>
          limits = 0 /\ disk.content = "good" /\ \A p \in Pids : procs[p].runs
    /\ about = "ima" => \A p \in Pids : procs[p].role = "other"
    /\ about # "processes" => byUser
    /\ version \in 0..MaxUpgrades /\ \A p \in Pids : procs[p].exe <= version
    /\ about # "processes" => version = 0
    /\ up = TRUE
    /\ ima = [log |-> 0, pcr |-> 0]
    /\ step = "list"
    /\ all = {} /\ contained = {} /\ claimed = {} /\ error = FALSE
    /\ ev = [hash |-> "none", truncated |-> FALSE, times |-> NoStatus,
             processes |-> [s \in Services |-> {}], marked |-> {},
             changes |-> [p \in Pids |-> NoChanges], daemons |-> {},
             user |-> [s \in Directories |-> {}],
             exes |-> [x \in Executables |-> NotRead], quote |-> {}, log |-> {}]
    /\ ran = {} /\ mended = 0

(***************************************************************************)
(* The server.                                                             *)
(***************************************************************************)
Tick == now < MaxNow /\ now' = now + 1

\* The steps after which nothing reads the file any more.
FileIsRead ==
    LET walked == {"list", "discover", "claim", "walk"}
        timed == walked \cup {"scan", "times"}
    IN  {s \in timed : about = "install"} \cup {s \in walked : about = "own"}
        \cup {s \in timed \cup Services \cup {"unclaimed", "globals", "daemons"} : about = "pm2"}

\* Someone writes, removes or restores the file.  The kernel sets the ctime;
\* the writer may set the modification time back.  A file that appears or
\* goes changes its directory.
Write ==
    \E content \in Contents \ {disk.content}, back \in BOOLEAN :
        /\ step \in FileIsRead
        /\ Tick
        /\ disk' = [content |-> content, ctime |-> now',
                    mtime |-> IF back THEN disk.mtime ELSE now',
                    dir |-> IF "gone" \in {content, disk.content} THEN now' ELSE disk.dir]
        /\ mended' = IF disk.content = "bad" THEN now' ELSE mended
        /\ UNCHANGED <<about, limits, byUser, procs, version, up, ima, ran, collector>>

\* A process loads the file; what it loads after the file was hashed is for
\* the next audit.
Load(p) ==
    /\ p \in Running \ ran
    /\ disk.content = "bad" /\ ev.hash = "none"
    /\ Tick
    /\ ran' = ran \cup {p}
    /\ UNCHANGED <<about, limits, byUser, disk, procs, version, up, ima, mended, collector>>

\* Before the list is made, a process starts: PM2's daemon starts A's and
\* B's where there is one.
StartProcess(p) ==
    /\ ~procs[p].runs /\ ~procs[p].used
    /\ step = "list"
    /\ Tick
    /\ \E parent \in IF Daemons # {} THEN Daemons ELSE {"init"} :
          procs' = [procs EXCEPT ![p] = [role |-> @.role, runs |-> TRUE, used |-> TRUE, start |-> now',
                                         exe |-> version, parent |-> parent]]
    /\ UNCHANGED <<about, limits, byUser, disk, version, up, ima, ran, mended, collector>>

\* The steps after which nothing reads a process any more.
Inspecting == step \notin {"unclaimed", "globals", "daemons", "digest", "quote", "ima", "done"}

\* Its children are the system's.
EndProcess(p) ==
    /\ about \in {"pm2", "processes"}
    /\ p \in Running /\ Inspecting
    /\ Tick
    /\ procs' = [q \in Pids |->
          LET x == procs[q]
          IN  [x EXCEPT !.runs = IF q = p THEN FALSE ELSE @, !.used = IF q = p THEN TRUE ELSE @,
                        !.parent = IF @ = p THEN "init" ELSE @]]
    /\ UNCHANGED <<about, limits, byUser, disk, version, up, ima, ran, mended, collector>>

\* The distribution replaces the binary: who runs the old one runs a file
\* that has no path.
Upgrade ==
    /\ version < MaxUpgrades /\ Inspecting
    /\ Tick
    /\ about = "processes"
    /\ version' = version + 1
    /\ UNCHANGED <<about, limits, byUser, disk, procs, up, ima, ran, mended, collector>>

StopContainer ==
    /\ about = "processes"
    /\ up /\ step \in {"list", "discover", "claim"}
    /\ Tick
    /\ up' = FALSE
    /\ UNCHANGED <<about, limits, byUser, disk, procs, version, ima, ran, mended, collector>>

\* The kernel adds an entry to the IMA log, then extends PCR 10 with it.
Measure ==
    /\ \/ ima.log = ima.pcr /\ ima.log < MaxIma /\ ima' = [ima EXCEPT !.log = @ + 1]
       \/ ima.pcr < ima.log /\ ima' = [ima EXCEPT !.pcr = @ + 1]
    /\ about = "ima" /\ step \in {"digest", "quote", "ima"}
    /\ UNCHANGED <<now, about, limits, byUser, disk, procs, version, up, ran, mended, collector>>

Server ==
    \/ Write \/ Upgrade \/ StopContainer \/ Measure
    \/ \E p \in Pids : Load(p) \/ StartProcess(p) \/ EndProcess(p)

(***************************************************************************)
(* The collection, one action per step between which the server runs.      *)
(***************************************************************************)
At(s) == step = s
Then(s) == step' = s /\ UNCHANGED world

\* What evidence.js keeps of every process: its start (dated, unless it could
\* not be read), and whether the file it runs still has its path.
ListProcesses ==
    /\ At("list") /\ Then("discover")
    /\ \E undated \in IF about \in {"processes", "ima"} THEN {{}} ELSE SUBSET Running :
          all' = {[pid |-> p, role |-> procs[p].role, start |-> procs[p].start, dated |-> p \notin undated,
                   parent |-> procs[p].parent,
                   exe |-> IF procs[p].exe = version THEN "path" ELSE "deleted"] : p \in Running}
    /\ UNCHANGED <<contained, error, claimed, ev>>

\* A process is in a container when its cgroup names one and its root is
\* not the host's; one that has ended by now has neither.
ContainerOfProcess(info) ==
    info.pid \in Running /\ InCgroup(info.role) /\ RootOf(info.role) # "host"

DiscoverContainers ==
    /\ At("discover") /\ Then("claim")
    /\ contained' = {info \in all : ContainerOfProcess(info)}
    /\ UNCHANGED <<all, error, claimed, ev>>


\* A mutant: the cgroup's name is enough.
OwnByName == {info \in contained : info.pid \in Running}

\* In the container are those that see the root of the process its runtime
\* started.
Own == {info \in contained : info.pid \in Running /\ RootOf(info.role) = "container"}

ClaimContainerProcesses ==
    /\ At("claim") /\ Then("walk")
    /\ \E answers \in BOOLEAN :        \* the runtime's API, or crictl
          /\ error' = (contained # {} /\ ~(answers /\ up))
          /\ contained' = IF error' THEN contained ELSE Own
    /\ UNCHANGED <<all, claimed, ev>>

StatusOfFile == [mtime |-> disk.mtime, ctime |-> disk.ctime, dir |-> disk.dir]

\* The walk hashes each of A's own files and reads its status; only the
\* first maxFiles are kept.
Walk ==
    /\ At("walk") /\ Then("scan")
    /\ ev' = IF about # "own" THEN ev
             ELSE [ev EXCEPT !.hash = IF limits = 0 THEN "gone" ELSE disk.content,
                             !.truncated = (limits = 0 /\ disk.content # "gone"),
                             !.times = StatusOfFile]
    /\ UNCHANGED <<all, contained, error, claimed>>

\* An install's files are hashed, and then their status is read.
Scan ==
    /\ At("scan") /\ Then("times")
    /\ ev' = IF about = "install" THEN [ev EXCEPT !.hash = disk.content] ELSE ev
    /\ UNCHANGED <<all, contained, error, claimed>>

Times ==
    /\ At("times") /\ Then("A")
    /\ ev' = IF about = "install" THEN [ev EXCEPT !.times = StatusOfFile] ELSE ev
    /\ UNCHANGED <<all, contained, error, claimed>>

Capped(names) == IF Cardinality(names) > limits THEN CHOOSE kept \in SUBSET names : Cardinality(kept) = limits
                 ELSE names

\* Mutants: the modification time alone tells, and directories among the
\* files.
ChangedByMtime(info, times) ==
    [written |-> Capped({f \in {"file"} : times.mtime > info.start + Tolerance}), status |-> {}, cut |-> FALSE]
ChangedMixed(info, times) ==
    [written |-> Capped({d \in {"directory"} : times.dir > info.start + Tolerance}), status |-> {}, cut |-> FALSE]

\* Contents written after the start apart from a status that alone changed.
\* Without a start there is nothing to compare with, and nothing is told.
ChangedAfter(info, times) ==
    LET after == info.start + Tolerance
        written == {f \in {"file"} : times.ctime > after /\ times.mtime > after}
        status == {f \in {"file"} : times.ctime > after /\ times.mtime <= after}
                  \cup {d \in {"directory"} : times.dir > after}
    IN  IF ~info.dated THEN NoChanges
        ELSE [written |-> Capped(written), status |-> Capped(status),
              cut |-> Cardinality(written) > limits \/ Cardinality(status) > limits]

\* A mutant: the file at the path is read.
ExecutableByPath(exes, info) == [exes EXCEPT ![info.exe] = IF @ = NotRead THEN version ELSE @]

\* The executable is read once for each path, through the process: what it
\* runs, whatever the path holds by now.
Executable(exes, info) ==
    IF exes[info.exe] # NotRead THEN exes
    ELSE [exes EXCEPT ![info.exe] = IF info.pid \in Running THEN procs[info.pid].exe ELSE Unreadable]

\* PM2's mark is in the environment of what it starts, which is read while
\* the process lives.
Marked(info) == IF info.pid \in Running /\ info.parent # "init" THEN {info.pid} ELSE {}

Inspected(e, info, service) ==
    [e EXCEPT !.processes = [e.processes EXCEPT ![service] = @ \cup {info.pid}],
              !.marked = @ \cup Marked(info), !.exes = Executable(@, info)]

\* A service's processes: in its directory and its user's, when it names one.
Selected(service) ==
    {info \in all : /\ byUser => Audited(info.role)
                    /\ RunsIn(info.role) = service
                    /\ info \notin contained}

InspectDirectory(service, next) ==
    /\ At(service)
    /\ \/ \E info \in Selected(service) :
            /\ info.pid \notin ev.processes[service]
            /\ claimed' = claimed \cup {info}
            /\ ev' = [Inspected(ev, info, service) EXCEPT
                        !.changes = IF service = "A" /\ about # "pm2"
                                    THEN [@ EXCEPT ![info.pid] = ChangedAfter(info, ev.times)] ELSE @]
            /\ Then(service)
       \/ /\ \A info \in Selected(service) : info.pid \in ev.processes[service]
          /\ Then(next) /\ UNCHANGED <<claimed, ev>>
    /\ UNCHANGED <<all, contained, error>>

\* Containers whose runtime did not answer are left out.
InspectContainers ==
    /\ At("C")
    /\ \/ \E info \in contained :
            /\ ~error /\ info.pid \notin ev.processes["C"]
            /\ claimed' = claimed \cup {info}
            /\ ev' = Inspected(ev, info, "C")
            /\ Then("C")
       \/ /\ error \/ \A info \in contained : info.pid \in ev.processes["C"]
          /\ Then("B") /\ UNCHANGED <<claimed, ev>>
    /\ UNCHANGED <<all, contained, error>>

\* The user's processes that no service inspected, once each has claimed its
\* own: the first of the list, which does not say that it was cut.
Unclaimed ==
    IF byUser THEN {info.pid : info \in {i \in all : Audited(i.role) /\ i \notin claimed /\ i \notin contained}}
    ELSE {}
UnclaimedProcesses ==
    IF Cardinality(Unclaimed) <= MaxUnclaimed THEN {Unclaimed}
    ELSE {first \in SUBSET Unclaimed : Cardinality(first) = MaxUnclaimed}

ListUnclaimed ==
    /\ At("unclaimed") /\ Then("globals")
    /\ \E listed \in UnclaimedProcesses : ev' = [ev EXCEPT !.user = [s \in Directories |-> listed]]
    /\ UNCHANGED <<all, contained, error, claimed>>

ScanGlobalPackages ==
    /\ At("globals") /\ Then("daemons")
    /\ ev' = IF about = "pm2" THEN [ev EXCEPT !.hash = disk.content] ELSE ev
    /\ UNCHANGED <<all, contained, error, claimed>>

\* A mutant: only daemons that a service inspected.
Pm2DaemonsInspected ==
    {info \in all : info.role = "daemon" /\ info.dated /\ \E s \in Directories : info.pid \in ev.processes[s]}

\* The daemons that started what the directory services inspected and found
\* marked, of those that have a start.
Pm2Daemons ==
    LET started == {i \in all : i.pid \in ev.marked /\ \E s \in Directories : i.pid \in ev.processes[s]}
        parents == {info.parent : info \in started}
    IN  {info \in all : info.pid \in parents /\ info.dated /\ info.role = "daemon"}

TimeDaemons ==
    /\ At("daemons") /\ Then("digest")
    /\ ev' = [ev EXCEPT
                !.daemons = {info.pid : info \in Pm2Daemons},
                !.times = IF about = "pm2" THEN StatusOfFile ELSE @,
                !.changes = [p \in Pids |->
                    IF about = "pm2" /\ \E info \in Pm2Daemons : info.pid = p
                    THEN ChangedAfter(CHOOSE info \in all : info.pid = p, StatusOfFile) ELSE @[p]]]
    /\ UNCHANGED <<all, contained, error, claimed>>

\* The digest covers the evidence so far; then the quote over it, or why
\* there is none; and last the IMA log, which the digest does not cover.
Digest ==
    /\ At("digest") /\ Then("quote")
    /\ UNCHANGED <<all, contained, error, claimed, ev>>

QuoteEvidence ==
    /\ At("quote") /\ Then("ima")
    /\ \E quote \in {{ima.pcr}, {}} : ev' = [ev EXCEPT !.quote = quote]
    /\ UNCHANGED <<all, contained, error, claimed>>

\* The log as it is, or an error: it cannot be read, or is too large.
LogOrError == {{ima.log}, {}}

\* The mutant reads the log before the quote is made.
ReadImaLogFirst ==
    /\ \/ At("digest") /\ Then("quote") /\ \E log \in LogOrError : ev' = [ev EXCEPT !.log = log]
       \/ At("ima") /\ Then("done") /\ UNCHANGED ev
    /\ UNCHANGED <<all, contained, error, claimed>>
ReadImaLog ==
    /\ At("ima") /\ Then("done")
    /\ \E log \in LogOrError : ev' = [ev EXCEPT !.log = log]
    /\ UNCHANGED <<all, contained, error, claimed>>

CollectEvidence ==
    \/ ListProcesses \/ DiscoverContainers \/ ClaimContainerProcesses
    \/ Walk \/ Scan \/ Times
    \/ InspectDirectory("A", "C") \/ InspectContainers \/ InspectDirectory("B", "unclaimed")
    \/ ListUnclaimed \/ ScanGlobalPackages \/ TimeDaemons
    \/ Digest \/ QuoteEvidence \/ ReadImaLog

Next == Server \/ CollectEvidence

Spec == Init /\ [][Next]_vars

(***************************************************************************)
(* Properties.                                                             *)
(***************************************************************************)
\* The variables have their types.
TypeOK ==
    /\ now \in 0..MaxNow /\ limits \in 0..1
    /\ disk.content \in Contents
    /\ \A info \in all : info.pid \in Pids /\ info.exe \in Executables
    /\ contained \subseteq all /\ claimed \subseteq all
    /\ ev \in Evidence

Done == step = "done"
Shown(changes) == changes.written # {} \/ changes.status # {} \/ changes.cut

\* What was loaded by something that started then is lost to the evidence only
\* when the file was put back within the tolerance of the start.
Escapes(start) == start < mended /\ mended <= start + Tolerance

\* What a service's process whose start is known loaded before the file was
\* hashed, the evidence shows: the file is still wrong (or cut from the list,
\* which says so), or it was changed after the process started and is among
\* what changed, even when its contents and its modification time were put
\* back (changedAfter).  Only a file put back within the tolerance escapes.
LoadedIsSeen ==
    Done => \A info \in all :
        /\ info.pid \in ev.processes["A"] /\ info.pid \in ran /\ about # "pm2"
        /\ info.dated /\ ~Escapes(info.start)
        => ev.hash # "good" \/ ev.truncated \/ Shown(ev.changes[info.pid])

\* The same of PM2's code for the daemon and for what it started and was
\* still there when it was inspected, with PM2's mark: changes after the
\* daemon started, listed once for it (pm2Daemons).  Of an application that
\* ended between the list and its inspection, only the wrong contents show.
DaemonCodeIsSeen ==
    Done => \A info \in all : \A daemon \in all :
        /\ daemon.role = "daemon" /\ info.parent = daemon.pid
        /\ \E s \in Directories : info.pid \in ev.processes[s]
        /\ info.pid \in ev.marked /\ daemon.dated
        /\ about = "pm2" /\ {info.pid, daemon.pid} \cap ran # {}
        /\ ~Escapes(daemon.start)
        => daemon.pid \in ev.daemons /\ (ev.hash # "good" \/ Shown(ev.changes[daemon.pid]))

\* No listed process of the services' user is both inspected and listed as
\* one no service inspected, and neither only when that list is full
\* (unclaimedProcesses cuts it without a word); a process that only names
\* the container's cgroup does not hide behind it (claimContainerProcesses),
\* nor speaks for the container.
ProcessesAreAccounted ==
    /\ Done /\ byUser /\ ~error =>
        \A info \in {i \in all : Audited(i.role) /\ i.role # "guest"} :
            LET inspected == \E s \in Directories : info.pid \in ev.processes[s]
                listed == info.pid \in ev.user["A"]
            IN  /\ ~(inspected /\ listed)
                /\ inspected \/ listed \/ Cardinality(ev.user["A"]) = MaxUnclaimed
    /\ \A p \in ev.processes["C"] : RootOf(procs[p].role) = "container"

\* The hash of an executable that still had its path is of the file the
\* process runs, though the path may have been given another since; when the
\* process had ended there is an error instead (Binaries.executable).
RunningIsHashed ==
    Done => \A info \in all :
        info.exe = "path" /\ (\E s \in Services : info.pid \in ev.processes[s])
        => ev.exes["path"] \in {Unreadable, procs[info.pid].exe}

\* No code that a service or its daemon may have loaded escapes the evidence.
CodeIsSeen == LoadedIsSeen /\ DaemonCodeIsSeen

\* Neither a process nor the program that it runs is missing from it.
ProgramsAreAccounted == ProcessesAreAccounted /\ RunningIsHashed

\* A log that was read holds every entry the quote covers (it is read after
\* the quote).
LogExplainsQuote ==
    Done => \A covered \in ev.quote, entries \in ev.log : covered <= entries
===============================================================================
