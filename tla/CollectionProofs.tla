-------------------------- MODULE CollectionProofs --------------------------
(***************************************************************************)
(* What Collection promises, proved for any number of processes, of events *)
(* and of upgrades, and for every tolerance: no code that was loaded       *)
(* escapes the evidence, no process and no program is missing from it, and *)
(* the IMA log explains the quote.                                         *)
(***************************************************************************)
EXTENDS Collection, FiniteSetTheorems, TLAPS

Listing == {"list", "discover", "claim"}
Hashing == Listing \cup {"walk", "scan", "times"}
Closing == {"globals", "daemons", "digest", "quote", "ima", "done"}
Steps   == Hashing \cup Services \cup {"unclaimed"} \cup Closing

Process == [role : Roles, runs : BOOLEAN, used : BOOLEAN, start : Nat, exe : 0..MaxUpgrades,
            parent : Pids \cup {"init"}]
Disk    == [content : Contents, mtime : Nat, ctime : Nat, dir : Nat]
Changes == [written : SUBSET {"file"}, status : SUBSET {"file", "directory"}, cut : BOOLEAN]

\* A process has been seen on the server.
Known(p) == procs[p].runs \/ procs[p].used

\* The server: its clock is ahead of every time that has been set, the file's
\* change of status is no older than its repair, and parents are older than
\* their children.
World ==
    /\ now \in 0..MaxNow /\ about \in {"own", "install", "pm2", "processes", "ima"} /\ limits \in 0..1
    /\ disk \in Disk /\ procs \in [Pids -> Process] /\ version \in 0..MaxUpgrades
    /\ ima \in [log : 0..MaxIma, pcr : 0..MaxIma] /\ ima.pcr <= ima.log
    /\ ran \in SUBSET Pids /\ mended \in Nat
    /\ mended <= disk.ctime /\ disk.ctime <= now
    /\ \A p \in Pids : procs[p].start <= now
    /\ \A p, q \in Pids : procs[p].parent = q => procs[q].runs /\ procs[q].start <= procs[p].start
    /\ \A p \in ran : Known(p)

\* The list of processes is of the server's, each once; those that still had
\* their path run the same file; and what stays with the container is in it.
Listed ==
    /\ step \in Steps
    /\ step = "list" => all = {}
    /\ \A i \in all : /\ i.pid \in Pids /\ Known(i.pid) /\ i.exe \in Executables
                      /\ i.role = procs[i.pid].role /\ i.start = procs[i.pid].start
    /\ \A i, j \in all : i.pid = j.pid => i = j
    /\ \A i, j \in all : i.exe = "path" /\ j.exe = "path" => procs[i.pid].exe = procs[j.pid].exe
    /\ \A i, j \in all : i.parent = j.pid => j.start <= i.start
    /\ contained \in SUBSET all /\ claimed \in SUBSET all
    /\ step \notin Listing /\ ~error => \A i \in contained : RootOf(i.role) = "container"

\* The evidence of processes is about claimed ones; the container's are of the
\* container; and the rest is listed once every service has claimed its own.
Accounts ==
    /\ step \in Hashing => \A s \in Services : ev.processes[s] = {}
    /\ \A i \in all : i \in claimed <=> \E s \in Services : i.pid \in ev.processes[s]
    /\ \A p \in ev.processes["C"] : ~error /\ \E i \in contained : i.pid = p
    /\ step \in Closing => \E listed \in UnclaimedProcesses : ev.user = [s \in Directories |-> listed]

\* The hash of the executables that have their path is of what they run.
Exes ==
    /\ step \in Hashing => ev.exes["path"] = NotRead
    /\ \A i \in all : i.exe = "path" => ev.exes["path"] \in {NotRead, Unreadable, procs[i.pid].exe}
    /\ \A i \in all, s \in Services : i.pid \in ev.processes[s] => ev.exes[i.exe] # NotRead

\* The file's times have been read, and nothing writes it any more.
Timed == \/ about = "own" /\ step \notin Listing \cup {"walk"}
         \/ about = "install" /\ step \notin Hashing
         \/ about = "pm2" /\ step \in {"digest", "quote", "ima", "done"}

\* The file has not been hashed yet, or never will.
Unhashed == \/ about \in {"processes", "ima"}
            \/ about = "own" /\ step \in Listing \cup {"walk"}
            \/ about = "install" /\ step \in Listing \cup {"walk", "scan"}
            \/ about = "pm2" /\ step \in Hashing \cup Services \cup {"unclaimed", "globals"}

\* Who loaded wrong code loaded what is still there, or was replaced since.
Tainted ==
    /\ ev.hash = "none" => \A p \in ran : disk.content = "bad" \/ mended > procs[p].start
    /\ ev.hash = "good" => \A p \in ran : mended > procs[p].start

\* changedAfter(), given the limit.
Kept(limit, names) == IF Cardinality(names) > limit THEN CHOOSE kept \in SUBSET names : Cardinality(kept) = limit
                      ELSE names
Written(start, times) ==
    {f \in {"file"} : times.ctime > start + Tolerance /\ times.mtime > start + Tolerance}
Status(start, times) ==
    {f \in {"file"} : times.ctime > start + Tolerance /\ times.mtime <= start + Tolerance}
    \cup {d \in {"directory"} : times.dir > start + Tolerance}
After(limit, start, times) ==
    [written |-> Kept(limit, Written(start, times)), status |-> Kept(limit, Status(start, times)),
     cut |-> Cardinality(Written(start, times)) > limit \/ Cardinality(Status(start, times)) > limit]

Told(limit, info, times) == IF ~info.dated THEN NoChanges ELSE After(limit, info.start, times)

\* The times that were read are no older than the last repair, and the changes
\* are those after the processes' starts.
Code ==
    /\ Unhashed => ev.hash = "none"
    /\ Timed => ev.times.ctime >= mended
    /\ about # "pm2" => \A i \in all : i.pid \in ev.processes["A"] => ev.changes[i.pid] = Told(limits, i, ev.times)
    /\ about = "pm2" /\ Timed => \A d \in all :
          /\ d.pid \in ev.daemons => ev.changes[d.pid] = Told(limits, d, ev.times)
          /\ \A i \in all : /\ d.role = "daemon" /\ d.dated /\ i.parent = d.pid /\ i.pid \in ev.marked
                            /\ \E s \in Directories : i.pid \in ev.processes[s]
                            => d.pid \in ev.daemons

\* The IMA log has what the quote covers.
Logs == /\ \A covered \in ev.quote : covered <= ima.log
        /\ step = "done" => \A covered \in ev.quote, entries \in ev.log : covered <= entries

Inv == World /\ Listed /\ ev \in Evidence /\ Accounts /\ Exes /\ Tainted /\ Code /\ Logs

-----------------------------------------------------------------------------
(* Changes                                                                 *)

LEMMA ChangedIsTold == \A info, times : ChangedAfter(info, times) = Told(limits, info, times)
BY DEF ChangedAfter, Capped, Told, After, Kept, Written, Status

LEMMA KeptType == ASSUME NEW limit \in 0..1, NEW S, NEW names \in SUBSET S, IsFiniteSet(names)
                  PROVE  Kept(limit, names) \in SUBSET S
<1>1. CASE Cardinality(names) > limit
  <2>1. \E kept \in SUBSET names : Cardinality(kept) = limit
    <3>1. CASE limit = 0
      BY <3>1, FS_EmptySet
    <3>2. CASE limit = 1
      <4>1. names # {}
        BY <1>1, <3>2, FS_EmptySet
      <4>2. PICK n \in names : TRUE
        BY <4>1
      <4>3. Cardinality({n}) = 1
        BY FS_Singleton
      <4> QED
        BY <3>2, <4>3
    <3> QED
      BY <3>1, <3>2
  <2> QED
    BY <1>1, <2>1 DEF Kept
<1>2. CASE ~(Cardinality(names) > limit)
  BY <1>2 DEF Kept
<1> QED
  BY <1>1, <1>2

LEMMA FewNames == ASSUME NEW names \in SUBSET {"file", "directory"} PROVE IsFiniteSet(names)
<1>1. IsFiniteSet({"file"})
  BY FS_Singleton
<1>2. IsFiniteSet({"file"} \cup {"directory"})
  BY <1>1, FS_AddElement
<1>3. names \in SUBSET ({"file"} \cup {"directory"})
  OBVIOUS
<1> QED
  BY <1>2, <1>3, FS_Subset

LEMMA AfterType == ASSUME NEW limit \in 0..1, NEW start, NEW times PROVE After(limit, start, times) \in Changes
<1>1. Written(start, times) \in SUBSET {"file"} /\ Status(start, times) \in SUBSET {"file", "directory"}
  BY DEF Written, Status
<1>2. IsFiniteSet(Written(start, times)) /\ IsFiniteSet(Status(start, times))
  BY <1>1, FewNames
<1>3. /\ Kept(limit, Written(start, times)) \in SUBSET {"file"}
      /\ Kept(limit, Status(start, times)) \in SUBSET {"file", "directory"}
  BY <1>1, <1>2, KeptType
<1>4. (Cardinality(Written(start, times)) > limit \/ Cardinality(Status(start, times)) > limit) \in BOOLEAN
  OBVIOUS
<1> QED
  BY <1>3, <1>4, Zenon DEF After, Changes

LEMMA ToldType == ASSUME NEW limit \in 0..1, NEW info, NEW times PROVE Told(limit, info, times) \in Changes
<1>1. NoChanges \in Changes
  BY Zenon DEF NoChanges, Changes
<1> QED
  BY <1>1, AfterType DEF Told

\* A file whose status changed after the start, by more than the tolerance, is
\* shown, whatever the limit.
LEMMA AfterShows == ASSUME NEW limit \in 0..1, NEW start \in Nat, NEW times, times.ctime \in Nat, times.mtime \in Nat,
                           times.ctime > start + Tolerance
                    PROVE  Shown(After(limit, start, times))
<1> DEFINE w == Written(start, times)
           t == Status(start, times)
           x == After(limit, start, times)
<1>1. "file" \in w \/ "file" \in t
  BY CollectionAssumption DEF Written, Status
<1>2. (w # {} => Kept(limit, w) # {} \/ Cardinality(w) > limit) /\ (t # {} => Kept(limit, t) # {} \/ Cardinality(t) > limit)
  BY DEF Kept
<1>3. x.written = Kept(limit, w) /\ x.status = Kept(limit, t)
  BY DEF After
<1>4. x.cut = (Cardinality(w) > limit \/ Cardinality(t) > limit)
  BY Zenon DEF After
<1> HIDE DEF w, t, x
<1>5. x.written # {} \/ x.status # {} \/ x.cut
  BY <1>1, <1>2, <1>3, <1>4
<1> QED
  BY <1>5 DEF Shown, x

-----------------------------------------------------------------------------
(* The server                                                              *)

\* A step of the server leaves the collector's state; it gives no process that
\* has been seen another start or program, and repairs come later.
Serves ==
    /\ UNCHANGED <<collector, about, limits, byUser>>
    /\ \A p \in Pids : /\ procs'[p].role = procs[p].role
                       /\ Known(p) => Known(p)' /\ procs'[p].start = procs[p].start /\ procs'[p].exe = procs[p].exe
    /\ ima'.log >= ima.log
    /\ Timed => mended' = mended

LEMMA WriteServes == ASSUME World, Write PROVE World' /\ Serves
<1>1. PICK content \in Contents \ {disk.content}, back \in BOOLEAN :
        disk' = [content |-> content, ctime |-> now', mtime |-> IF back THEN disk.mtime ELSE now',
                 dir |-> IF "gone" \in {content, disk.content} THEN now' ELSE disk.dir]
  BY DEF Write
<1>2. /\ now' = now + 1 /\ now < MaxNow /\ now \in 0..MaxNow /\ MaxNow \in Nat
      /\ mended' = IF disk.content = "bad" THEN now' ELSE mended
      /\ UNCHANGED <<about, limits, byUser, procs, version, up, ima, ran, collector>>
  BY CollectionAssumption DEF Write, Tick, World
<1>3. /\ disk' \in Disk /\ disk'.ctime = now'
  BY <1>1, <1>2 DEF World, Disk
<1>4. mended' \in Nat /\ mended' <= now'
  BY <1>2 DEF World, Disk
<1>5. World'
  <2>1. \A p \in Pids : procs[p].start \in Nat
    BY DEF World, Process
  <2>2. now' \in 0..MaxNow
    BY <1>2
  <2>3. \A p \in Pids : procs'[p].start <= now'
    BY <1>2, <2>1 DEF World
  <2> QED
    BY <1>2, <1>3, <1>4, <2>2, <2>3 DEF World, Known
<1>6. ~Timed
  BY DEF Write, FileIsRead, Timed, Listing, Hashing, Services
<1>7. ima'.log >= ima.log
  BY <1>2 DEF World
<1> QED
  BY <1>2, <1>5, <1>6, <1>7 DEF Serves, Known

LEMMA LoadServes == ASSUME World, NEW p \in Pids, Load(p) PROVE World' /\ Serves
<1>1. /\ now' = now + 1 /\ now < MaxNow /\ now \in 0..MaxNow /\ MaxNow \in Nat
      /\ ran' = ran \cup {p} /\ procs[p].runs
      /\ UNCHANGED <<about, limits, byUser, disk, procs, version, up, ima, mended, collector>>
  BY CollectionAssumption DEF Load, Tick, World, Running
<1>2. World'
  <2>1. \A q \in Pids : procs[q].start \in Nat
    BY DEF World, Process
  <2>2. now' \in 0..MaxNow /\ disk'.ctime <= now' /\ mended' <= disk'.ctime
    BY <1>1 DEF World, Disk
  <2>3. \A q \in Pids : procs'[q].start <= now'
    BY <1>1, <2>1 DEF World
  <2> QED
    BY <1>1, <2>2, <2>3 DEF World, Known
<1>3. ima'.log >= ima.log
  BY <1>1 DEF World
<1> QED
  BY <1>1, <1>2, <1>3 DEF Serves, Known

LEMMA StartServes == ASSUME World, NEW p \in Pids, StartProcess(p) PROVE World' /\ Serves
<1>1. /\ now' = now + 1 /\ now < MaxNow /\ now \in 0..MaxNow /\ MaxNow \in Nat
      /\ ~Known(p) /\ step = "list"
      /\ UNCHANGED <<about, limits, byUser, disk, version, up, ima, ran, mended, collector>>
  BY CollectionAssumption DEF StartProcess, Tick, World, Known
<1>2. PICK parent \in (IF Daemons # {} THEN Daemons ELSE {"init"}) :
        procs' = [procs EXCEPT ![p] = [role |-> procs[p].role, runs |-> TRUE, used |-> TRUE, start |-> now',
                                       exe |-> version, parent |-> parent]]
  BY DEF StartProcess
<1>3. parent \in Pids \cup {"init"} /\ (parent \in Pids => procs[parent].runs)
  BY <1>2, CollectionAssumption DEF Daemons, Running
<1> DEFINE x == [role |-> procs[p].role, runs |-> TRUE, used |-> TRUE, start |-> now',
                 exe |-> version, parent |-> parent]
<1>4. /\ procs[p].role \in Roles /\ now' \in Nat /\ version \in 0..MaxUpgrades /\ TRUE \in BOOLEAN
      /\ procs \in [Pids -> Process]
  BY <1>1 DEF World, Process
<1>5. x \in Process
  BY <1>3, <1>4, Zenon DEF Process
<1>6. x.role = procs[p].role /\ x.runs /\ x.used /\ x.start = now' /\ x.parent = parent
  OBVIOUS
<1>7. procs' = [procs EXCEPT ![p] = x]
  BY <1>2
<1> HIDE DEF x
<1>8. procs' \in [Pids -> Process] /\ procs'[p] = x /\ \A q \in Pids : q # p => procs'[q] = procs[q]
  BY <1>4, <1>5, <1>7
<1>9. World'
  <2>1. \A q \in Pids : procs[q].start \in Nat /\ procs[q].start <= now
    BY DEF World, Process
  <2>2. now' \in 0..MaxNow /\ disk'.ctime <= now' /\ mended' <= disk'.ctime
    BY <1>1 DEF World, Disk
  <2>3. \A q \in Pids : procs'[q].start <= now'
    BY <1>1, <1>6, <1>8, <2>1
  <2>4. \A q, r \in Pids : procs'[q].parent = r => procs'[r].runs /\ procs'[r].start <= procs'[q].start
    <3> SUFFICES ASSUME NEW q \in Pids, NEW r \in Pids, procs'[q].parent = r
                 PROVE  procs'[r].runs /\ procs'[r].start <= procs'[q].start
      OBVIOUS
    <3>1. CASE q = p
      <4>1. parent = r /\ procs[r].runs /\ r # p
        BY <1>1, <1>3, <1>6, <1>8, <3>1 DEF Known
      <4> QED
        BY <1>1, <1>6, <1>8, <2>1, <3>1, <4>1
    <3>2. CASE q # p
      <4>1. procs[q].parent = r /\ procs[r].runs /\ procs[r].start <= procs[q].start
        BY <1>8, <3>2 DEF World
      <4>2. r # p
        BY <1>1, <4>1 DEF Known
      <4> QED
        BY <1>8, <3>2, <4>1, <4>2
    <3> QED
      BY <3>1, <3>2
  <2>5. \A q \in ran : Known(q)'
    BY <1>1, <1>6, <1>8 DEF World, Known
  <2> QED
    BY <1>1, <1>8, <2>2, <2>3, <2>4, <2>5 DEF World
<1>10. \A q \in Pids : /\ procs'[q].role = procs[q].role
                       /\ Known(q) => Known(q)' /\ procs'[q].start = procs[q].start /\ procs'[q].exe = procs[q].exe
  BY <1>1, <1>6, <1>8 DEF Known
<1>11. ima'.log >= ima.log
  BY <1>1 DEF World
<1> QED
  BY <1>1, <1>9, <1>10, <1>11 DEF Serves

LEMMA EndServes == ASSUME World, NEW p \in Pids, EndProcess(p) PROVE World' /\ Serves
<1>1. /\ now' = now + 1 /\ now < MaxNow /\ now \in 0..MaxNow /\ MaxNow \in Nat /\ procs[p].runs
      /\ UNCHANGED <<about, limits, byUser, disk, version, up, ima, ran, mended, collector>>
  BY CollectionAssumption DEF EndProcess, Tick, World, Running
<1>2. procs' = [q \in Pids |->
          LET x == procs[q]
          IN  [x EXCEPT !.runs = IF q = p THEN FALSE ELSE x.runs, !.used = IF q = p THEN TRUE ELSE x.used,
                        !.parent = IF x.parent = p THEN "init" ELSE x.parent]]
  BY DEF EndProcess
<1>3. ASSUME NEW q \in Pids
      PROVE  /\ procs'[q] \in Process
             /\ procs'[q].role = procs[q].role /\ procs'[q].start = procs[q].start /\ procs'[q].exe = procs[q].exe
             /\ procs'[q].parent = IF procs[q].parent = p THEN "init" ELSE procs[q].parent
             /\ IF q = p THEN procs'[q].used ELSE (procs'[q].runs <=> procs[q].runs) /\ (procs'[q].used <=> procs[q].used)
  <2> DEFINE x == procs[q]
             runs == IF q = p THEN FALSE ELSE x.runs
             used == IF q = p THEN TRUE ELSE x.used
             parent == IF x.parent = p THEN "init" ELSE x.parent
             y == [x EXCEPT !.runs = runs, !.used = used, !.parent = parent]
  <2>1. x \in Process
    BY DEF World
  <2>2. parent \in Pids \cup {"init"}
    BY <2>1 DEF Process
  <2>3. runs \in BOOLEAN /\ used \in BOOLEAN
    BY <2>1, Zenon DEF Process
  <2>4. procs'[q] = y
    BY <1>2
  <2> HIDE DEF x, runs, used, parent
  <2>5. y \in Process
    BY <2>1, <2>2, <2>3, Zenon DEF Process
  <2>6. /\ y.role = x.role /\ y.start = x.start /\ y.exe = x.exe /\ y.parent = parent
        /\ y.runs = runs /\ y.used = used
    BY <2>1 DEF Process
  <2> HIDE DEF y
  <2>7. IF q = p THEN y.used ELSE (y.runs <=> x.runs) /\ (y.used <=> x.used)
    BY <2>6 DEF runs, used
  <2> QED
    BY <2>4, <2>5, <2>6, <2>7 DEF x, parent
<1>4. procs' \in [Pids -> Process]
  BY <1>2, <1>3
<1>5. World'
  <2>1. \A q \in Pids : procs[q].start \in Nat /\ procs[q].start <= now
    BY DEF World, Process
  <2>2. now' \in 0..MaxNow /\ disk'.ctime <= now' /\ mended' <= disk'.ctime
    BY <1>1 DEF World, Disk
  <2>3. \A q \in Pids : procs'[q].start <= now'
    BY <1>1, <1>3, <2>1
  <2>4. \A q, r \in Pids : procs'[q].parent = r => procs'[r].runs /\ procs'[r].start <= procs'[q].start
    <3> SUFFICES ASSUME NEW q \in Pids, NEW r \in Pids, procs'[q].parent = r
                 PROVE  procs'[r].runs /\ procs'[r].start <= procs'[q].start
      OBVIOUS
    <3>1. procs[q].parent = r /\ r # p
      BY <1>3, CollectionAssumption
    <3>2. procs[r].runs /\ procs[r].start <= procs[q].start
      BY <3>1 DEF World
    <3> QED
      BY <1>3, <3>1, <3>2
  <2>5. \A q \in ran : Known(q)'
    BY <1>1, <1>3 DEF World, Known
  <2> QED
    BY <1>1, <1>4, <2>2, <2>3, <2>4, <2>5 DEF World
<1>6. \A q \in Pids : /\ procs'[q].role = procs[q].role
                      /\ Known(q) => Known(q)' /\ procs'[q].start = procs[q].start /\ procs'[q].exe = procs[q].exe
  BY <1>3 DEF Known
<1>7. ima'.log >= ima.log
  BY <1>1 DEF World
<1> QED
  BY <1>1, <1>5, <1>6, <1>7 DEF Serves

LEMMA OthersServe == ASSUME World, Upgrade \/ StopContainer \/ Measure PROVE World' /\ Serves
<1>1. CASE Upgrade \/ StopContainer
  <2>1. /\ now' = now + 1 /\ now < MaxNow /\ now \in 0..MaxNow /\ MaxNow \in Nat /\ MaxUpgrades \in Nat
        /\ version' = version \/ (version' = version + 1 /\ version < MaxUpgrades)
        /\ UNCHANGED <<about, limits, byUser, disk, procs, ima, ran, mended, collector>>
    BY <1>1, CollectionAssumption DEF Upgrade, StopContainer, Tick, World
  <2>2. \A q \in Pids : procs[q].start \in Nat /\ procs[q].start <= now
    BY DEF World, Process
  <2>3. now' \in 0..MaxNow /\ disk'.ctime <= now' /\ mended' <= disk'.ctime /\ version' \in 0..MaxUpgrades
    BY <2>1 DEF World, Disk
  <2>4. \A q \in Pids : procs'[q].start <= now'
    BY <2>1, <2>2
  <2>5. World'
    BY <2>1, <2>3, <2>4 DEF World, Known
  <2>6. ima'.log >= ima.log
    BY <2>1 DEF World
  <2> QED
    BY <2>1, <2>5, <2>6 DEF Serves, Known
<1>2. CASE Measure
  <2>1. UNCHANGED <<now, about, limits, byUser, disk, procs, version, up, ran, mended, collector>>
    BY <1>2 DEF Measure
  <2>2. ima \in [log : 0..MaxIma, pcr : 0..MaxIma] /\ ima.pcr <= ima.log /\ MaxIma \in Nat
    BY CollectionAssumption DEF World
  <2>3. ima' \in [log : 0..MaxIma, pcr : 0..MaxIma] /\ ima'.pcr <= ima'.log /\ ima'.log >= ima.log
    <3>1. CASE ima.log = ima.pcr /\ ima.log < MaxIma /\ ima' = [ima EXCEPT !.log = @ + 1]
      BY <2>2, <3>1
    <3>2. CASE ima.pcr < ima.log /\ ima' = [ima EXCEPT !.pcr = @ + 1]
      BY <2>2, <3>2
    <3> QED
      BY <1>2, <3>1, <3>2 DEF Measure
  <2>4. World'
    BY <2>1, <2>3 DEF World, Known
  <2> QED
    BY <2>1, <2>3, <2>4 DEF Serves, Known
<1> QED
  BY <1>1, <1>2

LEMMA ServerServes == ASSUME World, Server PROVE World' /\ Serves
BY WriteServes, LoadServes, StartServes, EndServes, OthersServe DEF Server

LEMMA ServerTaints == ASSUME World, Tainted, Server PROVE Tainted'
<1>1. Serves /\ World'
  BY ServerServes
<1>2. ev' = ev /\ \A p \in ran : procs'[p].start = procs[p].start /\ procs[p].start \in Nat /\ procs[p].start <= now
  BY <1>1 DEF Serves, World, Process, collector
<1>3. CASE Write
  <2>1. /\ ran' = ran /\ now' = now + 1 /\ now \in Nat /\ mended <= now /\ mended \in Nat
        /\ mended' = IF disk.content = "bad" THEN now' ELSE mended
    BY <1>3, CollectionAssumption DEF Write, Tick, World, Disk
  <2> QED
    BY <1>2, <2>1 DEF Tainted
<1>4. ASSUME NEW p \in Pids, Load(p) PROVE Tainted'
  BY <1>2, <1>4 DEF Load, Tainted
<1>5. CASE UNCHANGED <<ran, disk, mended>>
  BY <1>2, <1>5 DEF Tainted
<1> QED
  BY <1>3, <1>4, <1>5 DEF Server, Upgrade, StopContainer, Measure, StartProcess, EndProcess

LEMMA ServesKeeps == ASSUME Inv, Serves, World', Tainted' PROVE Inv'
<1>1. UNCHANGED <<step, all, contained, error, claimed, ev, about, limits, byUser>>
  BY DEF Serves, collector
<1>2. Listed'
  BY <1>1 DEF Inv, Serves, Listed
<1>3. Accounts'
  BY <1>1 DEF Inv, Accounts, UnclaimedProcesses, Unclaimed
<1>4. Exes'
  BY <1>1 DEF Inv, Serves, Listed, Exes
<1>5. Code'
  <2>1. Timed' = Timed /\ Unhashed' = Unhashed
    BY <1>1 DEF Timed, Unhashed
  <2>2. Timed => ev'.times.ctime >= mended'
    BY <1>1 DEF Inv, Serves, Code
  <2> QED
    BY <1>1, <2>1, <2>2 DEF Inv, Code
<1>6. Logs'
  <2>1. \A covered \in ev.quote : covered \in Nat
    BY CollectionAssumption DEF Inv, Evidence
  <2>2. ima.log \in Nat /\ ima'.log \in Nat /\ ima'.log >= ima.log
    BY DEF Inv, Serves, World
  <2> QED
    BY <1>1, <2>1, <2>2 DEF Inv, Logs
<1> QED
  BY <1>1, <1>2, <1>3, <1>4, <1>5, <1>6 DEF Inv

-----------------------------------------------------------------------------
(* The collection                                                          *)

\* Its steps leave the server alone.
LEMMA WorldKept == ASSUME World, UNCHANGED world PROVE World'
BY DEF World, world, Known

\* What is listed of a process.
Entry(p, undated) ==
    [pid |-> p, role |-> procs[p].role, start |-> procs[p].start, dated |-> p \notin undated,
     parent |-> procs[p].parent, exe |-> IF procs[p].exe = version THEN "path" ELSE "deleted"]

\* Listing.
LEMMA ListKeeps == ASSUME Inv, ListProcesses PROVE Inv'
<1> USE DEF Inv
<1>1. /\ step = "list" /\ step' = "discover" /\ all = {}
      /\ UNCHANGED <<world, contained, error, claimed, ev>>
  BY DEF ListProcesses, At, Then, Listed
<1>2. UNCHANGED <<about, limits, byUser, disk, procs, version, ima, ran, mended>>
  BY <1>1 DEF world
<1>3. \E undated : all' = {Entry(p, undated) : p \in Running}
  BY DEF ListProcesses, Entry
<1>4. PICK undated : \A i \in all' : \E p \in Pids : procs[p].runs /\ i = Entry(p, undated)
  BY <1>3 DEF Running
<1>5. ASSUME NEW i \in all'
      PROVE  /\ i.pid \in Pids /\ procs[i.pid].runs /\ i.exe \in Executables
             /\ i.role = procs[i.pid].role /\ i.start = procs[i.pid].start /\ i.parent = procs[i.pid].parent
             /\ i.exe = "path" => procs[i.pid].exe = version
  BY <1>4 DEF Executables, Entry
<1>6. \A i, j \in all' : i.pid = j.pid => i = j
  BY <1>4 DEF Entry
<1>7. \A s \in Services : ev.processes[s] = {}
  BY <1>1 DEF Accounts, Hashing, Listing
<1>8. contained = {} /\ claimed = {}
  BY <1>1 DEF Listed
<1>9. Listed'
  <2>1. \A i, j \in all' : i.parent = j.pid => j.start <= i.start
    BY <1>5 DEF World
  <2>2. \A i \in all' : Known(i.pid)'
    BY <1>2, <1>5 DEF Known
  <2>3. \A i, j \in all' : i.exe = "path" /\ j.exe = "path" => procs'[i.pid].exe = procs'[j.pid].exe
    BY <1>2, <1>5
  <2>4. step' \in Steps /\ step' # "list" /\ contained' = {} /\ claimed' = {}
    BY <1>1, <1>8 DEF Steps, Hashing, Listing
  <2>5. \A i \in all' : i.pid \in Pids /\ i.exe \in Executables /\ i.role = procs'[i.pid].role /\ i.start = procs'[i.pid].start
    BY <1>2, <1>5
  <2> QED
    BY <1>6, <2>1, <2>2, <2>3, <2>4, <2>5 DEF Listed
<1>10. Accounts'
  BY <1>1, <1>7, <1>8 DEF Accounts, Hashing, Listing, Closing, Services
<1>11. Exes'
  <2>1. ev.exes["path"] = NotRead
    BY <1>1 DEF Exes, Hashing, Listing
  <2> QED
    BY <1>1, <1>2, <1>7, <2>1 DEF Exes
<1>12. Tainted'
  BY <1>1, <1>2 DEF Tainted
<1>13. Code'
  BY <1>1, <1>2, <1>7 DEF Code, Timed, Unhashed, Hashing, Listing, Services
<1>14. Logs'
  BY <1>1, <1>2 DEF Logs
<1> QED
  BY <1>1, <1>9, <1>10, <1>11, <1>12, <1>13, <1>14, WorldKept

\* What a step of the collection that changes neither the list nor what is
\* known of it has to keep.
SameList == UNCHANGED <<world, all, contained, error, claimed>>

LEMMA ListedKept == ASSUME Listed, SameList, step' \in Steps, step # "list", step' # "list",
                           step' \in Listing \/ step \notin Listing
                    PROVE  Listed'
<1>1. UNCHANGED <<procs, all, contained, error, claimed>>
  BY DEF SameList, world
<1> QED
  BY <1>1 DEF Listed, Known

LEMMA WorldSame == ASSUME UNCHANGED world
                   PROVE  /\ UNCHANGED <<now, about, limits, byUser, disk, procs, version, up, ima, ran, mended>>
                          /\ \A p : Known(p)' = Known(p)
BY DEF world, Known

\* Containers.
LEMMA DiscoverKeeps == ASSUME Inv, DiscoverContainers PROVE Inv'
<1> USE DEF Inv
<1>1. /\ step = "discover" /\ step' = "claim" /\ UNCHANGED <<world, all, error, claimed, ev>>
      /\ contained' \in SUBSET all
  BY DEF DiscoverContainers, At, Then
<1>2. UNCHANGED <<about, limits, byUser, disk, procs, ima, ran, mended>> /\ \A p : Known(p)' = Known(p)
  BY <1>1, WorldSame
<1>3. \A s \in Services : ev.processes[s] = {}
  BY <1>1 DEF Accounts, Hashing, Listing
<1>4. Listed'
  BY <1>1, <1>2 DEF Listed, Steps, Hashing, Listing
<1>5. Accounts'
  BY <1>1, <1>3 DEF Accounts, Hashing, Listing, Closing, Services
<1>6. Exes' /\ Tainted' /\ Code' /\ Logs'
  <2>1. Exes'
    BY <1>1, <1>2 DEF Exes, Hashing, Listing
  <2>2. Code'
    BY <1>1, <1>2 DEF Code, Timed, Unhashed, Hashing, Listing
  <2> QED
    BY <1>1, <1>2, <2>1, <2>2 DEF Tainted, Logs
<1> QED
  BY <1>1, <1>4, <1>5, <1>6, WorldKept

LEMMA ClaimKeeps == ASSUME Inv, ClaimContainerProcesses PROVE Inv'
<1> USE DEF Inv
<1>1. /\ step = "claim" /\ step' = "walk" /\ UNCHANGED <<world, all, claimed, ev>>
      /\ contained' \in SUBSET contained
      /\ ~error' => \A i \in contained' : RootOf(i.role) = "container"
  BY DEF ClaimContainerProcesses, At, Then, Own
<1>2. UNCHANGED <<about, limits, byUser, disk, procs, ima, ran, mended>> /\ \A p : Known(p)' = Known(p)
  BY <1>1, WorldSame
<1>3. \A s \in Services : ev.processes[s] = {}
  BY <1>1 DEF Accounts, Hashing, Listing
<1>4. Listed'
  BY <1>1, <1>2 DEF Listed, Steps, Hashing, Listing
<1>5. Accounts'
  BY <1>1, <1>3 DEF Accounts, Hashing, Listing, Closing, Services
<1>6. Exes' /\ Tainted' /\ Code' /\ Logs'
  <2>1. Exes'
    BY <1>1, <1>2 DEF Exes, Hashing, Listing
  <2>2. Code'
    BY <1>1, <1>2 DEF Code, Timed, Unhashed, Hashing, Listing
  <2> QED
    BY <1>1, <1>2, <2>1, <2>2 DEF Tainted, Logs
<1> QED
  BY <1>1, <1>4, <1>5, <1>6, WorldKept

\* The file.
LEMMA StatusTimed == ASSUME World PROVE /\ StatusOfFile \in [mtime : Nat, ctime : Nat, dir : Nat]
                                        /\ StatusOfFile.ctime >= mended /\ StatusOfFile.ctime = disk.ctime
BY DEF World, Disk, StatusOfFile

\* Hashing what is there: it is good only when all who loaded wrong code did so
\* before its last repair.
LEMMA HashTaints == ASSUME Tainted, ev.hash = "none", UNCHANGED world, ev'.hash = disk.content
                    PROVE  Tainted'
BY DEF Tainted, world

LEMMA WalkKeeps == ASSUME Inv, Walk PROVE Inv'
<1> USE DEF Inv
<1>1. /\ step = "walk" /\ step' = "scan" /\ UNCHANGED <<world, all, contained, error, claimed>>
  BY DEF Walk, At, Then
<1>2. UNCHANGED <<about, limits, byUser, disk, procs, ima, ran, mended>>
  BY <1>1, WorldSame
<1>3. \A s \in Services : ev.processes[s] = {}
  BY <1>1 DEF Accounts, Hashing, Listing
<1> DEFINE h == IF limits = 0 THEN "gone" ELSE disk.content
           cut == limits = 0 /\ disk.content # "gone"
           e == [ev EXCEPT !.hash = h, !.truncated = cut, !.times = StatusOfFile]
<1>4. e \in Evidence
  <2>1. h \in Contents \cup {"none"} /\ cut \in BOOLEAN
    BY DEF World, Disk, Contents
  <2>2. StatusOfFile \in [mtime : Nat, ctime : Nat, dir : Nat]
    BY StatusTimed
  <2> HIDE DEF h, cut
  <2> QED
    BY <2>1, <2>2, Zenon DEF Evidence
<1>5. /\ e.hash = h /\ e.times = StatusOfFile
      /\ e.processes = ev.processes /\ e.marked = ev.marked /\ e.changes = ev.changes /\ e.daemons = ev.daemons /\ e.user = ev.user
      /\ e.exes = ev.exes /\ e.quote = ev.quote /\ e.log = ev.log
  BY DEF Evidence
<1>6. (about # "own" /\ ev' = ev) \/ (about = "own" /\ ev' = e)
  BY DEF Walk
<1> HIDE DEF e
<1>7. ev' \in Evidence
  BY <1>4, <1>6
<1>8. Listed'
  BY <1>1, ListedKept DEF SameList, Steps, Hashing, Listing
<1>9. Accounts' /\ Exes' /\ Logs'
  <2>1. /\ ev'.processes = ev.processes /\ ev'.user = ev.user /\ ev'.exes = ev.exes /\ ev'.quote = ev.quote
        /\ ev'.log = ev.log
    BY <1>5, <1>6
  <2>2. Accounts'
    BY <1>1, <1>2, <2>1 DEF Accounts, Hashing, Listing, Closing
  <2>3. Exes'
    BY <1>1, <1>2, <2>1 DEF Exes, Hashing, Listing
  <2> QED
    BY <1>1, <1>2, <2>1, <2>2, <2>3 DEF Logs
<1>10. Tainted'
  <2>1. ASSUME about = "own", ev' = e PROVE Tainted'
    <3>1. h # "none" /\ (h = "good" => disk.content = "good")
      BY DEF World, Disk, Contents
    <3>2. ev.hash = "none"
      BY <1>1, <2>1 DEF Code, Unhashed
    <3> QED
      BY <1>2, <1>5, <2>1, <3>1, <3>2 DEF Tainted
  <2> QED
    BY <1>2, <1>6, <2>1 DEF Tainted
<1>11. Code'
  <2>1. \A i : i \in all => i.pid \notin ev'.processes["A"]
    BY <1>3, <1>5, <1>6 DEF Services
  <2>2. Timed' => ev'.times.ctime >= mended'
    BY <1>1, <1>2, <1>5, <1>6, StatusTimed DEF Timed, Hashing, Listing
  <2>3. Unhashed' => ev'.hash = "none"
    BY <1>1, <1>2, <1>6 DEF Code, Unhashed, Hashing, Listing
  <2>4. ~(about' = "pm2" /\ Timed')
    BY <1>1 DEF Timed
  <2> QED
    BY <1>1, <2>1, <2>2, <2>3, <2>4 DEF Code
<1> QED
  BY <1>1, <1>7, <1>8, <1>9, <1>10, <1>11, WorldKept

LEMMA ScanKeeps == ASSUME Inv, Scan PROVE Inv'
<1> USE DEF Inv
<1>1. /\ step = "scan" /\ step' = "times" /\ UNCHANGED <<world, all, contained, error, claimed>>
  BY DEF Scan, At, Then
<1>2. UNCHANGED <<about, limits, byUser, disk, procs, ima, ran, mended>>
  BY <1>1, WorldSame
<1>3. \A s \in Services : ev.processes[s] = {}
  BY <1>1 DEF Accounts, Hashing, Listing
<1> DEFINE e == [ev EXCEPT !.hash = disk.content]
<1>4. e \in Evidence
  <2>1. disk.content \in Contents \cup {"none"}
    BY DEF World, Disk
  <2> QED
    BY <2>1, Zenon DEF Evidence
<1>5. /\ e.hash = disk.content /\ e.times = ev.times
      /\ e.processes = ev.processes /\ e.marked = ev.marked /\ e.changes = ev.changes /\ e.daemons = ev.daemons /\ e.user = ev.user
      /\ e.exes = ev.exes /\ e.quote = ev.quote /\ e.log = ev.log
  BY DEF Evidence
<1>6. (about # "install" /\ ev' = ev) \/ (about = "install" /\ ev' = e)
  BY DEF Scan
<1> HIDE DEF e
<1>7. ev' \in Evidence
  BY <1>4, <1>6
<1>8. Listed'
  BY <1>1, ListedKept DEF SameList, Steps, Hashing, Listing
<1>9. Accounts' /\ Exes' /\ Logs'
  <2>1. /\ ev'.processes = ev.processes /\ ev'.user = ev.user /\ ev'.exes = ev.exes /\ ev'.quote = ev.quote
        /\ ev'.log = ev.log
    BY <1>5, <1>6
  <2>2. Accounts'
    BY <1>1, <1>2, <2>1 DEF Accounts, Hashing, Listing, Closing
  <2>3. Exes'
    BY <1>1, <1>2, <2>1 DEF Exes, Hashing, Listing
  <2> QED
    BY <1>1, <1>2, <2>1, <2>2, <2>3 DEF Logs
<1>10. Tainted'
  <2>1. ASSUME about = "install", ev' = e PROVE Tainted'
    <3>1. ev.hash = "none"
      BY <1>1, <2>1 DEF Code, Unhashed
    <3> QED
      BY <1>1, <1>5, <2>1, <3>1, HashTaints
  <2> QED
    BY <1>2, <1>6, <2>1 DEF Tainted
<1>11. Code'
  <2>1. \A i : i \in all => i.pid \notin ev'.processes["A"]
    BY <1>3, <1>5, <1>6 DEF Services
  <2>2. Timed' => ev'.times.ctime >= mended'
    BY <1>1, <1>2, <1>5, <1>6 DEF Code, Timed, Hashing, Listing
  <2>3. Unhashed' => ev'.hash = "none"
    BY <1>1, <1>2, <1>6 DEF Code, Unhashed, Hashing, Listing
  <2>4. ~(about' = "pm2" /\ Timed')
    BY <1>1 DEF Timed
  <2> QED
    BY <1>1, <2>1, <2>2, <2>3, <2>4 DEF Code
<1> QED
  BY <1>1, <1>7, <1>8, <1>9, <1>10, <1>11, WorldKept

LEMMA TimesKeeps == ASSUME Inv, Times PROVE Inv'
<1> USE DEF Inv
<1>1. /\ step = "times" /\ step' = "A" /\ UNCHANGED <<world, all, contained, error, claimed>>
  BY DEF Times, At, Then
<1>2. UNCHANGED <<about, limits, byUser, disk, procs, ima, ran, mended>>
  BY <1>1, WorldSame
<1>3. \A s \in Services : ev.processes[s] = {}
  BY <1>1 DEF Accounts, Hashing, Listing
<1> DEFINE e == [ev EXCEPT !.times = StatusOfFile]
<1>4. e \in Evidence
  <2>1. StatusOfFile \in [mtime : Nat, ctime : Nat, dir : Nat]
    BY StatusTimed
  <2> QED
    BY <2>1, Zenon DEF Evidence
<1>5. /\ e.hash = ev.hash /\ e.times = StatusOfFile
      /\ e.processes = ev.processes /\ e.marked = ev.marked /\ e.changes = ev.changes /\ e.daemons = ev.daemons /\ e.user = ev.user
      /\ e.exes = ev.exes /\ e.quote = ev.quote /\ e.log = ev.log
  BY DEF Evidence
<1>6. (about # "install" /\ ev' = ev) \/ (about = "install" /\ ev' = e)
  BY DEF Times
<1> HIDE DEF e
<1>7. ev' \in Evidence
  BY <1>4, <1>6
<1>8. Listed'
  BY <1>1, ListedKept DEF SameList, Steps, Hashing, Listing, Services
<1>9. /\ ev'.processes = ev.processes /\ ev'.user = ev.user /\ ev'.exes = ev.exes /\ ev'.quote = ev.quote
      /\ ev'.log = ev.log /\ ev'.hash = ev.hash
  BY <1>5, <1>6
<1>10. Accounts'
  BY <1>1, <1>2, <1>9 DEF Accounts, Hashing, Listing, Closing
<1>11. Exes'
  BY <1>1, <1>2, <1>9 DEF Exes, Hashing, Listing
<1>12. Tainted' /\ Logs'
  BY <1>1, <1>2, <1>9 DEF Tainted, Logs
<1>13. Code'
  <2>1. \A i : i \in all => i.pid \notin ev'.processes["A"]
    BY <1>3, <1>9 DEF Services
  <2>2. Timed' => ev'.times.ctime >= mended'
    BY <1>1, <1>2, <1>5, <1>6, StatusTimed DEF Code, Timed, Hashing, Listing
  <2>3. Unhashed' => ev'.hash = "none"
    BY <1>1, <1>2, <1>9 DEF Code, Unhashed, Hashing, Listing, Services
  <2>4. ~(about' = "pm2" /\ Timed')
    BY <1>1 DEF Timed
  <2> QED
    BY <1>1, <2>1, <2>2, <2>3, <2>4 DEF Code
<1> QED
  BY <1>1, <1>7, <1>8, <1>10, <1>11, <1>12, <1>13, WorldKept

\* The processes of a service.
LEMMA ExecutableReads ==
    ASSUME World, NEW exes \in [Executables -> 0..Unreadable], NEW info, info.pid \in Pids, info.exe \in Executables
    PROVE  /\ Executable(exes, info) \in [Executables -> 0..Unreadable]
           /\ Executable(exes, info)[info.exe] # NotRead
           /\ \A x \in Executables : /\ exes[x] # NotRead => Executable(exes, info)[x] # NotRead
                                     /\ \/ Executable(exes, info)[x] = exes[x]
                                        \/ x = info.exe /\ Executable(exes, info)[x] \in {Unreadable, procs[info.pid].exe}
<1>1. /\ procs[info.pid].exe \in 0..MaxUpgrades /\ MaxUpgrades \in Nat
      /\ NotRead = MaxUpgrades + 1 /\ Unreadable = MaxUpgrades + 2
  BY CollectionAssumption DEF World, Process, NotRead, Unreadable
<1>2. CASE exes[info.exe] # NotRead
  BY <1>2 DEF Executable
<1>3. CASE exes[info.exe] = NotRead
  <2> DEFINE v == IF info.pid \in Running THEN procs[info.pid].exe ELSE Unreadable
  <2>1. v \in {Unreadable, procs[info.pid].exe} /\ v \in 0..Unreadable /\ v # NotRead
    BY <1>1
  <2>2. Executable(exes, info) = [exes EXCEPT ![info.exe] = v]
    BY <1>3 DEF Executable
  <2> HIDE DEF v
  <2> QED
    BY <2>1, <2>2
<1> QED
  BY <1>2, <1>3

Next1(service) == IF service = "A" THEN "C" ELSE IF service = "C" THEN "B" ELSE "unclaimed"

\* A service's processes have been inspected.
LEMMA TurnsKeep == ASSUME Inv, NEW service \in Services, step = service, step' = Next1(service),
                          UNCHANGED <<world, all, contained, error, claimed, ev>>
                   PROVE  Inv'
<1> USE DEF Inv
<1>1. UNCHANGED <<about, limits, byUser, disk, procs, ima, ran, mended>>
  BY WorldSame
<1>2. step' \in {"C", "B", "unclaimed"} /\ step \in {"A", "B", "C"}
  BY DEF Next1, Services
<1>3. Listed'
  BY <1>2, ListedKept DEF SameList, Steps, Hashing, Listing, Services
<1>4. Accounts'
  BY <1>1, <1>2 DEF Accounts, Hashing, Listing, Closing
<1>5. Exes'
  BY <1>1, <1>2 DEF Exes, Hashing, Listing
<1>6. Code'
  BY <1>1, <1>2 DEF Code, Timed, Unhashed, Hashing, Listing, Services
<1> QED
  BY <1>1, <1>2, <1>3, <1>4, <1>5, <1>6, WorldKept DEF Tainted, Logs

\* One process is inspected for a service.
LEMMA InspectionKeeps ==
    ASSUME Inv, NEW service \in Services, step = service, step' = service, NEW info \in all,
           service = "C" => ~error /\ info \in contained,
           UNCHANGED <<world, all, contained, error>>, claimed' = claimed \cup {info},
           NEW changes, changes \in [Pids -> Changes],
           changes = IF service = "A" /\ about # "pm2"
                     THEN [ev.changes EXCEPT ![info.pid] = ChangedAfter(info, ev.times)] ELSE ev.changes,
           ev' = [ev EXCEPT !.processes = [ev.processes EXCEPT ![service] = ev.processes[service] \cup {info.pid}],
                            !.marked = ev.marked \cup Marked(info),
                            !.exes = Executable(ev.exes, info), !.changes = changes]
    PROVE  Inv'
<1> USE DEF Inv
<1>1. UNCHANGED <<about, limits, byUser, disk, procs, ima, ran, mended>>
  BY WorldSame
<1>2. step' \in {"A", "B", "C"} /\ step = step'
  BY DEF Services
<1>3. info.pid \in Pids /\ info.exe \in Executables /\ \A i \in all : i.pid = info.pid => i = info
  BY DEF Listed
<1>4. /\ ev.processes \in [Services -> SUBSET Pids] /\ ev.exes \in [Executables -> 0..Unreadable]
      /\ ev.changes \in [Pids -> Changes]
  BY DEF Evidence, Changes
<1> DEFINE processes == [ev.processes EXCEPT ![service] = ev.processes[service] \cup {info.pid}]
           exes == Executable(ev.exes, info)
           marked == ev.marked \cup Marked(info)
<1>5. processes \in [Services -> SUBSET Pids]
  BY <1>3, <1>4
<1>6. /\ \A s \in Services : processes[s] = IF s = service THEN ev.processes[s] \cup {info.pid} ELSE ev.processes[s]
  BY <1>4
<1>7. /\ exes \in [Executables -> 0..Unreadable] /\ exes[info.exe] # NotRead
      /\ \A x \in Executables : /\ ev.exes[x] # NotRead => exes[x] # NotRead
                                /\ \/ exes[x] = ev.exes[x]
                                   \/ x = info.exe /\ exes[x] \in {Unreadable, procs[info.pid].exe}
  BY <1>3, <1>4, ExecutableReads
<1>17. marked \in SUBSET Pids
  BY <1>3 DEF Evidence, Marked
<1> HIDE DEF processes, exes, marked
<1>8. ev' = [ev EXCEPT !.processes = processes, !.marked = marked, !.exes = exes, !.changes = changes]
  BY DEF processes, exes, marked
<1>9. ev' \in Evidence
  <2> DEFINE e == [ev EXCEPT !.processes = processes, !.marked = marked]
  <2>1. e \in Evidence
    BY <1>5, <1>17, Zenon DEF Evidence
  <2>2. ev' = [[e EXCEPT !.exes = exes] EXCEPT !.changes = changes]
    BY <1>8 DEF Evidence
  <2> HIDE DEF e
  <2> DEFINE e2 == [e EXCEPT !.exes = exes]
  <2>3. e2 \in Evidence
    BY <1>7, <2>1, Zenon DEF Evidence
  <2>4. ev' = [e2 EXCEPT !.changes = changes]
    BY <2>2
  <2> HIDE DEF e2
  <2> QED
    BY <2>3, <2>4, Zenon DEF Evidence, Changes
<1>10. /\ ev'.processes = processes /\ ev'.exes = exes /\ ev'.changes = changes
       /\ ev'.hash = ev.hash /\ ev'.times = ev.times /\ ev'.daemons = ev.daemons /\ ev'.user = ev.user
       /\ ev'.quote = ev.quote /\ ev'.log = ev.log
  BY <1>8 DEF Evidence
<1>11. Listed'
  BY <1>1, <1>2 DEF Listed, Known, Listing
<1>12. Accounts'
  <2>1. \A i \in all : i \in claimed' <=> \E s \in Services : i.pid \in processes[s]
    <3> SUFFICES ASSUME NEW i \in all PROVE i \in claimed' <=> \E s \in Services : i.pid \in processes[s]
      OBVIOUS
    <3>1. CASE i = info
      BY <1>6, <3>1
    <3>2. CASE i # info
      <4>1. i.pid # info.pid
        BY <1>3, <3>2
      <4>2. \A s \in Services : i.pid \in processes[s] <=> i.pid \in ev.processes[s]
        BY <1>6, <4>1
      <4> QED
        BY <3>2, <4>2 DEF Accounts
    <3> QED
      BY <3>1, <3>2
  <2>2. \A p \in processes["C"] : ~error /\ \E i \in contained : i.pid = p
    BY <1>6 DEF Accounts, Services
  <2> QED
    BY <1>2, <1>10, <2>1, <2>2 DEF Accounts, Hashing, Listing, Closing
<1>13. Exes'
  <2>1. \A i \in all : i.exe = "path" => exes["path"] \in {NotRead, Unreadable, procs[i.pid].exe}
    BY <1>7 DEF Exes, Listed, Executables
  <2>2. ASSUME NEW i \in all, NEW s \in Services, i.pid \in processes[s] PROVE exes[i.exe] # NotRead
    <3>1. CASE i = info
      BY <1>7, <3>1
    <3>2. CASE i # info
      <4>1. i.pid # info.pid /\ i.exe \in Executables
        BY <1>3, <3>2 DEF Listed
      <4>2. i.pid \in ev.processes[s]
        BY <1>6, <2>2, <4>1
      <4>3. ev.exes[i.exe] # NotRead
        BY <4>2 DEF Exes
      <4> QED
        BY <1>7, <4>1, <4>3
    <3> QED
      BY <3>1, <3>2
  <2> QED
    BY <1>1, <1>2, <1>10, <2>1, <2>2 DEF Exes, Hashing, Listing
<1>14. Code'
  <2>1. Timed' = Timed /\ Unhashed' = Unhashed /\ ~(about = "pm2" /\ Timed)
    BY <1>1, <1>2 DEF Timed, Unhashed
  <2>2. ASSUME about # "pm2", NEW i \in all, i.pid \in processes["A"]
        PROVE  changes[i.pid] = Told(limits, i, ev.times)
    <3>1. CASE service = "A" /\ i = info
      BY <1>3, <1>4, <2>2, <3>1, ChangedIsTold
    <3>2. CASE service = "A" /\ i # info
      <4>1. i.pid # info.pid /\ i.pid \in ev.processes["A"]
        BY <1>3, <1>6, <2>2, <3>2
      <4>2. changes[i.pid] = ev.changes[i.pid]
        BY <1>4, <2>2, <3>2, <4>1
      <4> QED
        BY <2>2, <4>1, <4>2 DEF Code
    <3>3. CASE service # "A"
      <4>1. i.pid \in ev.processes["A"] /\ changes = ev.changes
        BY <1>6, <2>2, <3>3 DEF Services
      <4> QED
        BY <2>2, <4>1 DEF Code
    <3> QED
      BY <3>1, <3>2, <3>3
  <2> QED
    BY <1>1, <1>10, <2>1, <2>2 DEF Code
<1> QED
  BY <1>1, <1>2, <1>9, <1>10, <1>11, <1>12, <1>13, <1>14, WorldKept DEF Tainted, Logs

LEMMA InspectDirectoryKeeps ==
    ASSUME Inv, NEW service \in Directories, InspectDirectory(service, Next1(service))
    PROVE  Inv'
<1> USE DEF Inv
<1>1. step = service /\ service \in Services /\ UNCHANGED <<world, all, contained, error>>
  BY DEF InspectDirectory, At, Then, Directories, Services
<1>2. ASSUME NEW info \in Selected(service), claimed' = claimed \cup {info}, step' = service,
             ev' = [Inspected(ev, info, service) EXCEPT
                      !.changes = IF service = "A" /\ about # "pm2"
                                  THEN [@ EXCEPT ![info.pid] = ChangedAfter(info, ev.times)] ELSE @]
      PROVE  Inv'
  <2> DEFINE changes == IF service = "A" /\ about # "pm2"
                        THEN [ev.changes EXCEPT ![info.pid] = ChangedAfter(info, ev.times)] ELSE ev.changes
             processes == [ev.processes EXCEPT ![service] = ev.processes[service] \cup {info.pid}]
             exes == Executable(ev.exes, info)
             marked == ev.marked \cup Marked(info)
             e == [ev EXCEPT !.processes = processes, !.marked = marked, !.exes = exes]
  <2>1. info \in all /\ info.pid \in Pids
    BY DEF Selected, Listed
  <2>2. ChangedAfter(info, ev.times) \in Changes
    BY ToldType, ChangedIsTold DEF World
  <2>3. ev.changes \in [Pids -> Changes]
    BY DEF Evidence, Changes
  <2>4. changes \in [Pids -> Changes]
    BY <2>2, <2>3
  <2>5. Inspected(ev, info, service) = e
    BY DEF Inspected
  <2>6. e.changes = ev.changes
    BY DEF Evidence
  <2>7. ev' = [e EXCEPT !.changes = changes]
    BY <1>2, <2>5, <2>6
  <2> HIDE DEF processes, marked, exes, changes
  <2>8. ev' = [ev EXCEPT !.processes = processes, !.marked = marked, !.exes = exes, !.changes = changes]
    BY <2>7 DEF Evidence
  <2>9. service # "C"
    BY DEF Directories
  <2> QED
    BY <1>1, <1>2, <2>1, <2>4, <2>8, <2>9, InspectionKeeps DEF processes, marked, exes, changes
<1>3. CASE step' = Next1(service) /\ UNCHANGED <<claimed, ev>>
  BY <1>1, <1>3, TurnsKeep
<1> QED
  BY <1>1, <1>2, <1>3 DEF InspectDirectory, Then

LEMMA InspectContainersKeeps == ASSUME Inv, InspectContainers PROVE Inv'
<1> USE DEF Inv
<1>1. step = "C" /\ UNCHANGED <<world, all, contained, error>>
  BY DEF InspectContainers, At, Then
<1>2. ASSUME NEW info \in contained, ~error, claimed' = claimed \cup {info}, step' = "C",
             ev' = Inspected(ev, info, "C")
      PROVE  Inv'
  <2>1. info \in all
    BY DEF Listed
  <2>2. ev.changes \in [Pids -> Changes]
    BY DEF Evidence, Changes
  <2> DEFINE processes == [ev.processes EXCEPT !["C"] = ev.processes["C"] \cup {info.pid}]
             exes == Executable(ev.exes, info)
             marked == ev.marked \cup Marked(info)
  <2>3. ev' = [ev EXCEPT !.processes = processes, !.marked = marked, !.exes = exes]
    BY <1>2 DEF Inspected
  <2> HIDE DEF processes, marked, exes
  <2>4. ev' = [ev EXCEPT !.processes = processes, !.marked = marked, !.exes = exes, !.changes = ev.changes]
    BY <2>3 DEF Evidence
  <2>5. "C" \in Services
    BY DEF Services
  <2> QED
    BY <1>1, <1>2, <2>1, <2>2, <2>4, <2>5, InspectionKeeps DEF processes, marked, exes
<1>3. CASE step' = "B" /\ UNCHANGED <<claimed, ev>>
  BY <1>1, <1>3, TurnsKeep DEF Next1, Services
<1> QED
  BY <1>1, <1>2, <1>3 DEF InspectContainers, Then

\* Closing the evidence: the list, what was inspected and what was read of
\* it stay as they are.
LEMMA ClosingKeeps ==
    ASSUME Inv, SameList, step \in Closing \cup {"unclaimed"}, step' \in Closing,
           ev'.processes = ev.processes, ev'.exes = ev.exes,
           \/ step = "unclaimed" /\ \E listed \in UnclaimedProcesses : ev'.user = [s \in Directories |-> listed]
           \/ step \in Closing /\ ev'.user = ev.user
    PROVE  World' /\ Listed' /\ Accounts' /\ Exes'
<1> USE DEF Inv
<1>1. UNCHANGED <<all, contained, error, claimed>> /\ UNCHANGED world
  BY DEF SameList
<1>2. UNCHANGED <<about, limits, byUser, disk, procs, ima, ran, mended>>
  BY <1>1, WorldSame
<1>3. step' \notin Hashing /\ step \notin Listing /\ step' \notin Listing /\ step \notin Hashing
  BY DEF Closing, Hashing, Listing
<1>4. Listed'
  BY <1>3, ListedKept DEF Steps, Listing
<1>5. UnclaimedProcesses' = UnclaimedProcesses
  BY <1>1, <1>2 DEF UnclaimedProcesses, Unclaimed
<1>6. Accounts'
  BY <1>1, <1>2, <1>3, <1>5 DEF Accounts
<1>7. Exes'
  BY <1>1, <1>2, <1>3 DEF Exes
<1> QED
  BY <1>1, <1>4, <1>6, <1>7, WorldKept

LEMMA UnclaimedListed == ASSUME Listed, NEW listed \in UnclaimedProcesses
                         PROVE  /\ listed \subseteq Unclaimed /\ Unclaimed \subseteq Pids
                                /\ listed = Unclaimed \/ Cardinality(listed) = MaxUnclaimed
BY DEF UnclaimedProcesses, Unclaimed, Listed

LEMMA ListUnclaimedKeeps == ASSUME Inv, ListUnclaimed PROVE Inv'
<1> USE DEF Inv
<1>0. PICK listed \in UnclaimedProcesses : ev' = [ev EXCEPT !.user = [s \in Directories |-> listed]]
  BY DEF ListUnclaimed
<1> DEFINE user == [s \in Directories |-> listed]
           e == [ev EXCEPT !.user = user]
<1>1. step = "unclaimed" /\ step' = "globals" /\ SameList /\ ev' = e
  BY <1>0 DEF ListUnclaimed, At, Then, SameList
<1>2. UNCHANGED <<about, limits, byUser, disk, procs, ima, ran, mended>>
  BY <1>1, WorldSame DEF SameList
<1>3. user \in [Directories -> SUBSET Pids]
  BY UnclaimedListed
<1> HIDE DEF user
<1>4. ev' \in Evidence
  BY <1>1, <1>3, Zenon DEF Evidence
<1>5. /\ ev'.user = user /\ ev'.processes = ev.processes /\ ev'.marked = ev.marked /\ ev'.exes = ev.exes /\ ev'.hash = ev.hash
      /\ ev'.times = ev.times /\ ev'.changes = ev.changes /\ ev'.daemons = ev.daemons
      /\ ev'.quote = ev.quote /\ ev'.log = ev.log
  BY <1>1 DEF Evidence
<1>6. World' /\ Listed' /\ Accounts' /\ Exes'
  BY <1>0, <1>1, <1>5, ClosingKeeps DEF user, Closing
<1>7. Tainted' /\ Logs'
  BY <1>1, <1>2, <1>5 DEF Tainted, Logs
<1>8. Code'
  BY <1>1, <1>2, <1>5 DEF SameList, Code, Timed, Unhashed, Hashing, Listing, Services
<1> QED
  BY <1>4, <1>6, <1>7, <1>8

LEMMA ScanGlobalPackagesKeeps == ASSUME Inv, ScanGlobalPackages PROVE Inv'
<1> USE DEF Inv
<1> DEFINE e == [ev EXCEPT !.hash = disk.content]
<1>1. step = "globals" /\ step' = "daemons" /\ SameList /\ UNCHANGED world
  BY DEF ScanGlobalPackages, At, Then, SameList
<1>2. UNCHANGED <<about, limits, byUser, disk, procs, ima, ran, mended>>
  BY <1>1, WorldSame
<1>3. disk.content \in Contents \cup {"none"} /\ disk.content # "none"
  BY DEF World, Disk, Contents
<1>4. e \in Evidence
  BY <1>3, Zenon DEF Evidence
<1>5. /\ e.hash = disk.content /\ e.user = ev.user /\ e.processes = ev.processes /\ e.marked = ev.marked /\ e.exes = ev.exes
      /\ e.times = ev.times /\ e.changes = ev.changes /\ e.daemons = ev.daemons
      /\ e.quote = ev.quote /\ e.log = ev.log
  BY DEF Evidence
<1>6. (about # "pm2" /\ ev' = ev) \/ (about = "pm2" /\ ev' = e)
  BY DEF ScanGlobalPackages
<1> HIDE DEF e
<1>7. /\ ev' \in Evidence /\ ev'.user = ev.user /\ ev'.processes = ev.processes /\ ev'.marked = ev.marked /\ ev'.exes = ev.exes
      /\ ev'.times = ev.times /\ ev'.changes = ev.changes /\ ev'.daemons = ev.daemons
      /\ ev'.quote = ev.quote /\ ev'.log = ev.log
  BY <1>4, <1>5, <1>6
<1>8. World' /\ Listed' /\ Accounts' /\ Exes'
  BY <1>1, <1>7, ClosingKeeps DEF Closing
<1>9. Tainted'
  <2>1. ASSUME about = "pm2", ev' = e PROVE Tainted'
    <3>1. ev.hash = "none"
      BY <1>1, <2>1 DEF Code, Unhashed
    <3> QED
      BY <1>1, <1>5, <2>1, <3>1, HashTaints
  <2> QED
    BY <1>2, <1>6, <2>1 DEF Tainted
<1>10. Code'
  <2>1. Unhashed' => ev'.hash = "none"
    BY <1>1, <1>2, <1>6 DEF Code, Unhashed, Hashing, Listing, Services
  <2> QED
    BY <1>1, <1>2, <1>7, <2>1 DEF SameList, Code, Timed, Hashing, Listing, Services
<1> QED
  BY <1>1, <1>2, <1>7, <1>8, <1>9, <1>10 DEF Logs

LEMMA TimeDaemonsKeeps == ASSUME Inv, TimeDaemons PROVE Inv'
<1> USE DEF Inv
<1> DEFINE daemons == {info.pid : info \in Pm2Daemons}
           times == IF about = "pm2" THEN StatusOfFile ELSE ev.times
           changes == [p \in Pids |-> IF about = "pm2" /\ \E info \in Pm2Daemons : info.pid = p
                                      THEN ChangedAfter(CHOOSE info \in all : info.pid = p, StatusOfFile) ELSE ev.changes[p]]
<1>1. /\ step = "daemons" /\ step' = "digest" /\ SameList /\ UNCHANGED world
      /\ ev' = [ev EXCEPT !.daemons = daemons, !.times = times, !.changes = changes]
  BY DEF TimeDaemons, At, Then, SameList
<1>2. UNCHANGED <<about, limits, byUser, disk, procs, ima, ran, mended>>
  BY <1>1, WorldSame
<1>3. daemons \in SUBSET Pids
  BY DEF Pm2Daemons, Listed
<1>4. times \in [mtime : Nat, ctime : Nat, dir : Nat]
  BY StatusTimed DEF Evidence
<1>5. \A info : ChangedAfter(info, StatusOfFile) \in Changes
  BY ToldType, ChangedIsTold DEF World
<1>6. changes \in [Pids -> Changes]
  BY <1>5 DEF Evidence, Changes
<1>7. ASSUME NEW d \in all, about = "pm2"
      PROVE  /\ d.pid \in daemons => changes[d.pid] = Told(limits, d, times)
             /\ \A i \in all : /\ d.role = "daemon" /\ d.dated /\ i.parent = d.pid /\ i.pid \in ev.marked
                               /\ \E s \in Directories : i.pid \in ev.processes[s]
                               => d.pid \in daemons
  <2>1. d.pid \in Pids /\ d = CHOOSE info \in all : info.pid = d.pid
    BY DEF Listed
  <2>2. ASSUME d.pid \in daemons PROVE changes[d.pid] = Told(limits, d, times)
    <3>1. \E info \in Pm2Daemons : info.pid = d.pid
      BY <2>2
    <3>2. changes[d.pid] = ChangedAfter(d, times)
      BY <1>7, <2>1, <3>1
    <3> HIDE DEF changes, times
    <3> QED
      BY <3>2, ChangedIsTold
  <2>3. ASSUME NEW i \in all, d.role = "daemon", d.dated, i.parent = d.pid, i.pid \in ev.marked, \E s \in Directories : i.pid \in ev.processes[s]
        PROVE  d.pid \in daemons
    BY <2>3 DEF Pm2Daemons
  <2> QED
    BY <2>2, <2>3
<1>8. about # "pm2" => \A p \in Pids : changes[p] = ev.changes[p]
  OBVIOUS
<1>9. times.ctime >= mended \/ about # "pm2"
  BY StatusTimed
<1>10. about # "pm2" => times = ev.times
  OBVIOUS
<1> HIDE DEF daemons, times, changes
<1>11. ev' \in Evidence
  BY <1>1, <1>3, <1>4, <1>6, Zenon DEF Evidence, Changes
<1>12. /\ ev'.daemons = daemons /\ ev'.times = times /\ ev'.changes = changes
       /\ ev'.hash = ev.hash /\ ev'.user = ev.user /\ ev'.processes = ev.processes /\ ev'.exes = ev.exes
       /\ ev'.marked = ev.marked /\ ev'.quote = ev.quote /\ ev'.log = ev.log
  BY <1>1 DEF Evidence
<1>13. World' /\ Listed' /\ Accounts' /\ Exes'
  BY <1>1, <1>12, ClosingKeeps DEF Closing
<1>14. Tainted' /\ Logs'
  BY <1>1, <1>2, <1>12 DEF Tainted, Logs
<1>15. Code'
  <2>1. Unhashed' => ev'.hash = "none"
    BY <1>1, <1>2, <1>12 DEF Code, Unhashed, Hashing, Listing, Services
  <2>2. Timed' => ev'.times.ctime >= mended'
    BY <1>1, <1>2, <1>9, <1>10, <1>12 DEF Code, Timed, Hashing, Listing, Services
  <2>3. \A i \in all : about # "pm2" /\ i.pid \in ev.processes["A"] => changes[i.pid] = Told(limits, i, times)
    BY <1>8, <1>10 DEF Code, Listed
  <2>4. all' = all
    BY <1>1 DEF SameList
  <2> QED
    BY <1>2, <1>7, <1>12, <2>1, <2>2, <2>3, <2>4 DEF Code
<1> QED
  BY <1>11, <1>13, <1>14, <1>15

\* The digest, the quote and the IMA log.
LEMMA LastKeeps == ASSUME Inv, Digest \/ QuoteEvidence \/ ReadImaLog PROVE Inv'
<1> USE DEF Inv
<1>1. /\ SameList /\ UNCHANGED world
      /\ \/ step = "digest" /\ step' = "quote" /\ ev' = ev
         \/ step = "quote" /\ step' = "ima" /\ \E quote \in {{ima.pcr}, {}} : ev' = [ev EXCEPT !.quote = quote]
         \/ step = "ima" /\ step' = "done" /\ \E log \in {{ima.log}, {}} : ev' = [ev EXCEPT !.log = log]
  BY DEF LogOrError, Digest, QuoteEvidence, ReadImaLog, At, Then, SameList
<1>2. UNCHANGED <<about, limits, byUser, disk, procs, ima, ran, mended>>
  BY <1>1, WorldSame
<1>3. ima.pcr \in 0..MaxIma /\ ima.log \in 0..MaxIma /\ ima.pcr <= ima.log
  BY DEF World
<1>4. PICK quote \in SUBSET (0..MaxIma), log \in SUBSET (0..MaxIma) :
        /\ ev' = [ev EXCEPT !.quote = quote, !.log = log]
        /\ quote = ev.quote \/ quote = {} \/ quote = {ima.pcr}
        /\ step = "ima" => quote = ev.quote /\ log \in {{ima.log}, {}}
  <2>1. ev.quote \in SUBSET (0..MaxIma) /\ ev.log \in SUBSET (0..MaxIma)
    BY DEF Evidence
  <2>2. CASE step = "digest" /\ ev' = ev
    <3>1. ev = [ev EXCEPT !.quote = ev.quote, !.log = ev.log]
      BY DEF Evidence
    <3> QED
      BY <2>1, <2>2, <3>1
  <2>3. CASE step = "quote" /\ \E quote \in {{ima.pcr}, {}} : ev' = [ev EXCEPT !.quote = quote]
    <3>1. PICK q \in {{ima.pcr}, {}} : ev' = [ev EXCEPT !.quote = q]
      BY <2>3
    <3>2. ev' = [ev EXCEPT !.quote = q, !.log = ev.log]
      BY <3>1 DEF Evidence
    <3>3. q \in SUBSET (0..MaxIma) /\ step # "ima"
      BY <1>3, <2>3
    <3> QED
      BY <2>1, <3>1, <3>2, <3>3
  <2>4. CASE step = "ima" /\ \E log \in {{ima.log}, {}} : ev' = [ev EXCEPT !.log = log]
    <3>0. PICK l \in {{ima.log}, {}} : ev' = [ev EXCEPT !.log = l]
      BY <2>4
    <3>1. ev' = [ev EXCEPT !.quote = ev.quote, !.log = l]
      BY <3>0 DEF Evidence
    <3>2. l \in SUBSET (0..MaxIma)
      BY <1>3
    <3> QED
      BY <2>1, <3>1, <3>2
  <2> QED
    BY <1>1, <2>2, <2>3, <2>4
<1>5. ev' \in Evidence
  BY <1>4, Zenon DEF Evidence
<1>6. /\ ev'.quote = quote /\ ev'.log = log
      /\ ev'.hash = ev.hash /\ ev'.user = ev.user /\ ev'.processes = ev.processes /\ ev'.exes = ev.exes
      /\ ev'.marked = ev.marked /\ ev'.times = ev.times /\ ev'.changes = ev.changes /\ ev'.daemons = ev.daemons
  BY <1>4 DEF Evidence
<1>7. step \in {"digest", "quote", "ima"} /\ step' \in {"quote", "ima", "done"} /\ (step' = "done" => step = "ima")
  BY <1>1
<1>8. World' /\ Listed' /\ Accounts' /\ Exes'
  BY <1>1, <1>6, <1>7, ClosingKeeps DEF Closing
<1>9. Tainted'
  BY <1>2, <1>6 DEF Tainted
<1>10. Logs'
  <2>1. \A covered \in quote : covered <= ima.log
    BY <1>3, <1>4 DEF Logs
  <2> QED
    BY <1>2, <1>4, <1>6, <1>7, <2>1 DEF Logs
<1>11. Code'
  <2>1. (Timed' = Timed /\ ~Unhashed') \/ about \in {"processes", "ima"}
    BY <1>2, <1>7 DEF Timed, Unhashed, Hashing, Listing, Services
  <2>2. about \in {"processes", "ima"} => Unhashed
    BY DEF Unhashed
  <2>3. about \in {"processes", "ima"} => ~Timed'
    BY <1>2 DEF Timed
  <2>4. all' = all
    BY <1>1 DEF SameList
  <2> QED
    BY <1>2, <1>6, <2>1, <2>2, <2>3, <2>4 DEF Code
<1> QED
  BY <1>5, <1>8, <1>9, <1>10, <1>11


-----------------------------------------------------------------------------
(* The invariant                                                           *)

LEMMA InvInit == Init => Inv
<1> SUFFICES ASSUME Init PROVE Inv
  OBVIOUS
<1>1. /\ now = 0 /\ about \in {"own", "install", "pm2", "processes", "ima"} /\ limits \in 0..1
      /\ disk \in [content : {"good", "bad"}, mtime : {0}, ctime : {0}, dir : {0}]
      /\ procs \in [Pids -> [role : Roles, runs : BOOLEAN, used : {FALSE}, start : {0},
                             exe : 0..MaxUpgrades, parent : {"init"}]]
      /\ version \in 0..MaxUpgrades /\ ima = [log |-> 0, pcr |-> 0]
      /\ step = "list" /\ all = {} /\ contained = {} /\ claimed = {} /\ error = FALSE
      /\ ev = [hash |-> "none", truncated |-> FALSE, times |-> NoStatus,
               processes |-> [s \in Services |-> {}], marked |-> {},
               changes |-> [p \in Pids |-> NoChanges], daemons |-> {},
               user |-> [s \in Directories |-> {}],
               exes |-> [x \in Executables |-> NotRead], quote |-> {}, log |-> {}]
      /\ ran = {} /\ mended = 0
  BY DEF Init
<1>2. MaxNow \in Nat /\ MaxUpgrades \in Nat /\ MaxIma \in Nat
  BY CollectionAssumption
<1>3. ASSUME NEW p \in Pids
      PROVE  procs[p] \in Process /\ procs[p].start = 0 /\ procs[p].parent \notin Pids
  <2>1. procs[p] \in [role : Roles, runs : BOOLEAN, used : {FALSE}, start : {0},
                      exe : 0..MaxUpgrades, parent : {"init"}]
    BY <1>1
  <2>2. {FALSE} \subseteq BOOLEAN /\ {0} \subseteq Nat /\ {"init"} \subseteq Pids \cup {"init"}
    OBVIOUS
  <2>3. procs[p] \in Process
    BY <2>1, <2>2, Zenon DEF Process
  <2> QED
    BY <2>1, <2>3, CollectionAssumption
<1>4. procs \in [Pids -> Process]
  BY <1>1, <1>3
<1>5. disk \in Disk /\ disk.ctime = 0
  BY <1>1 DEF Disk, Contents
<1>6. World
  BY <1>1, <1>2, <1>3, <1>4, <1>5 DEF World
<1>7. Listed
  BY <1>1 DEF Listed, Steps, Hashing, Listing
<1>8. ev \in Evidence
  <2>1. "none" \in Contents \cup {"none"} /\ FALSE \in BOOLEAN
    OBVIOUS
  <2>2. NoStatus \in [mtime : Nat, ctime : Nat, dir : Nat]
    BY DEF NoStatus
  <2>3. [s \in Services |-> {}] \in [Services -> SUBSET Pids] /\ [s \in Directories |-> {}] \in [Directories -> SUBSET Pids]
    OBVIOUS
  <2>4. NoChanges \in Changes
    BY Zenon DEF NoChanges, Changes
  <2>5. [p \in Pids |-> NoChanges] \in [Pids -> Changes]
    BY <2>4
  <2>6. [x \in Executables |-> NotRead] \in [Executables -> 0..Unreadable]
    BY <1>2 DEF NotRead, Unreadable
  <2>7. {} \in SUBSET Pids /\ {} \in SUBSET (0..MaxIma)
    OBVIOUS
  <2> QED
    BY <1>1, <2>1, <2>2, <2>3, <2>5, <2>6, <2>7, Zenon DEF Evidence, Changes
<1>9. /\ ev.processes = [s \in Services |-> {}] /\ ev.exes = [x \in Executables |-> NotRead]
      /\ ev.hash = "none" /\ ev.quote = {}
  BY <1>1
<1>10. Accounts
  BY <1>1, <1>9 DEF Accounts, Closing, Services
<1>11. Exes
  BY <1>1, <1>9 DEF Exes, Executables
<1>12. Tainted /\ Logs
  BY <1>1, <1>9 DEF Tainted, Logs
<1>13. Code
  BY <1>1, <1>9 DEF Code, Timed, Unhashed, Hashing, Listing
<1> QED
  BY <1>6, <1>7, <1>8, <1>10, <1>11, <1>12, <1>13 DEF Inv

LEMMA InvNext == Inv /\ [Next]_vars => Inv'
<1> SUFFICES ASSUME Inv, [Next]_vars PROVE Inv'
  OBVIOUS
<1>1. CASE Server
  BY <1>1, ServerServes, ServerTaints, ServesKeeps DEF Inv
<1>2. CASE ListProcesses \/ DiscoverContainers \/ ClaimContainerProcesses
  BY <1>2, ListKeeps, DiscoverKeeps, ClaimKeeps
<1>3. CASE Walk \/ Scan \/ Times
  BY <1>3, WalkKeeps, ScanKeeps, TimesKeeps
<1>4. CASE InspectDirectory("A", "C") \/ InspectDirectory("B", "unclaimed")
  <2>1. "A" \in Directories /\ "B" \in Directories /\ Next1("A") = "C" /\ Next1("B") = "unclaimed"
    BY DEF Directories, Next1
  <2> QED
    BY <1>4, <2>1, InspectDirectoryKeeps
<1>5. CASE InspectContainers
  BY <1>5, InspectContainersKeeps
<1>6. CASE ListUnclaimed \/ ScanGlobalPackages \/ TimeDaemons
  BY <1>6, ListUnclaimedKeeps, ScanGlobalPackagesKeeps, TimeDaemonsKeeps
<1>7. CASE Digest \/ QuoteEvidence \/ ReadImaLog
  BY <1>7, LastKeeps
<1>8. CASE UNCHANGED vars
  <2>1. UNCHANGED world /\ UNCHANGED <<step, all, contained, error, claimed, ev>>
    BY <1>8 DEF vars, collector
  <2>2. World' /\ UNCHANGED <<about, limits, byUser, disk, procs, ima, ran, mended>> /\ \A p : Known(p)' = Known(p)
    BY <2>1, WorldKept, WorldSame DEF Inv
  <2>5. UnclaimedProcesses' = UnclaimedProcesses
    BY <2>1, <2>2 DEF UnclaimedProcesses, Unclaimed
  <2>6. Accounts'
    BY <2>1, <2>2, <2>5 DEF Inv, Accounts
  <2>3. Listed' /\ Accounts' /\ Exes'
    BY <2>1, <2>2, <2>6 DEF Inv, Listed, Exes
  <2>4. Tainted' /\ Code' /\ Logs'
    BY <2>1, <2>2 DEF Inv, Tainted, Code, Logs, Timed, Unhashed
  <2> QED
    BY <2>1, <2>2, <2>3, <2>4 DEF Inv
<1> QED
  BY <1>1, <1>2, <1>3, <1>4, <1>5, <1>6, <1>7, <1>8 DEF Next, CollectEvidence

LEMMA Invariant == Spec => []Inv
BY InvInit, InvNext, PTL DEF Spec

-----------------------------------------------------------------------------
(* Theorems                                                                *)

\* The variables keep their types, whatever the server does meanwhile.
THEOREM TypeCorrect == Spec => []TypeOK
<1>1. Inv => TypeOK
  BY DEF Inv, World, Disk, Listed, TypeOK
<1> QED
  BY <1>1, Invariant, PTL


LEMMA LoadedShown == Inv => LoadedIsSeen
<1> SUFFICES ASSUME Inv, Done, NEW info \in all, info.pid \in ev.processes["A"], info.pid \in ran, about # "pm2",
                    info.dated, ~Escapes(info.start), ev.hash = "good"
             PROVE  Shown(ev.changes[info.pid])
  BY DEF LoadedIsSeen
<1>1. /\ info.pid \in Pids /\ info.start = procs[info.pid].start /\ info.start \in Nat /\ mended \in Nat
      /\ Tolerance \in Nat /\ limits \in 0..1
  BY CollectionAssumption DEF Inv, World, Process, Listed
<1>2. mended > info.start
  BY <1>1 DEF Inv, Tainted
<1>3. mended > info.start + Tolerance
  BY <1>1, <1>2 DEF Escapes
<1>4. Timed
  <2>1. about \in {"own", "install"}
    BY DEF Inv, World, Code, Unhashed
  <2> QED
    BY <2>1 DEF Timed, Done, Hashing, Listing
<1>5. ev.times.ctime >= mended /\ ev.times.ctime \in Nat /\ ev.times.mtime \in Nat
  BY <1>4 DEF Inv, Code, Evidence
<1>6. ev.changes[info.pid] = After(limits, info.start, ev.times)
  BY DEF Inv, Code, Told
<1> QED
  BY <1>1, <1>3, <1>5, <1>6, AfterShows

LEMMA DaemonShown == Inv => DaemonCodeIsSeen
<1> SUFFICES ASSUME Inv, Done, NEW info \in all, NEW daemon \in all, daemon.role = "daemon", info.parent = daemon.pid,
                    \E s \in Directories : info.pid \in ev.processes[s], info.pid \in ev.marked, daemon.dated,
                    about = "pm2", {info.pid, daemon.pid} \cap ran # {}, ~Escapes(daemon.start)
             PROVE  daemon.pid \in ev.daemons /\ (ev.hash = "good" => Shown(ev.changes[daemon.pid]))
  BY DEF DaemonCodeIsSeen
<1>1. /\ info.pid \in Pids /\ info.start = procs[info.pid].start /\ info.start \in Nat
      /\ daemon.pid \in Pids /\ daemon.start = procs[daemon.pid].start /\ daemon.start \in Nat
      /\ daemon.start <= info.start /\ mended \in Nat /\ Tolerance \in Nat /\ limits \in 0..1
  BY CollectionAssumption DEF Inv, World, Process, Listed
<1>2. Timed
  BY DEF Timed, Done
<1>3. daemon.pid \in ev.daemons
  BY <1>2 DEF Inv, Code
<1>4. ASSUME ev.hash = "good" PROVE Shown(ev.changes[daemon.pid])
  <2>1. mended > info.start \/ mended > daemon.start
    BY <1>1, <1>4 DEF Inv, Tainted
  <2>2. mended > daemon.start + Tolerance
    BY <1>1, <2>1 DEF Escapes
  <2>3. ev.times.ctime >= mended /\ ev.times.ctime \in Nat /\ ev.times.mtime \in Nat
    BY <1>2 DEF Inv, Code, Evidence
  <2>4. ev.changes[daemon.pid] = After(limits, daemon.start, ev.times)
    BY <1>2, <1>3 DEF Inv, Code, Told
  <2> QED
    BY <1>1, <2>2, <2>3, <2>4, AfterShows
<1> QED
  BY <1>3, <1>4

\* Code that a service's process, or PM2's daemon with an application that
\* was there to be inspected, loaded before it was hashed is in the evidence, as it is or as a change, whoever put it back
\* and whatever times were set: only a repair within the tolerance of the
\* start escapes (changedAfter, pm2Daemons).
THEOREM CodeSeen == Spec => []CodeIsSeen
<1>1. Inv => CodeIsSeen
  BY LoadedShown, DaemonShown DEF CodeIsSeen
<1> QED
  BY <1>1, Invariant, PTL

LEMMA ProcessesAccounted == Inv => ProcessesAreAccounted
<1> SUFFICES ASSUME Inv PROVE ProcessesAreAccounted
  OBVIOUS
<1> USE DEF Inv
<1>1. Services = Directories \cup {"C"} /\ "A" \in Directories
  BY DEF Services, Directories
<1>2. ASSUME Done, byUser, ~error, NEW info \in all, Audited(info.role), info.role # "guest"
      PROVE  LET inspected == \E s \in Directories : info.pid \in ev.processes[s]
                 listed == info.pid \in ev.user["A"]
             IN  ~(inspected /\ listed) /\ (inspected \/ listed \/ Cardinality(ev.user["A"]) = MaxUnclaimed)
  <2>1. step \in Closing /\ step \notin Listing
    BY <1>2 DEF Done, Closing, Listing
  <2>2. info \notin contained
    <3>1. RootOf(info.role) # "container"
      BY <1>2 DEF RootOf
    <3> QED
      BY <1>2, <2>1, <3>1 DEF Listed
  <2>3. info.pid \notin ev.processes["C"]
    <3>1. ASSUME info.pid \in ev.processes["C"] PROVE FALSE
      <4>1. PICK i \in contained : i.pid = info.pid
        BY <3>1 DEF Accounts
      <4> QED
        BY <2>2, <4>1 DEF Listed
    <3> QED
      BY <3>1
  <2>4. info \in claimed <=> \E s \in Directories : info.pid \in ev.processes[s]
    BY <1>1, <2>3 DEF Accounts
  <2>5. PICK list \in UnclaimedProcesses : ev.user = [s \in Directories |-> list]
    BY <2>1 DEF Accounts
  <2>6. /\ ev.user["A"] = list /\ list \subseteq Unclaimed
        /\ list = Unclaimed \/ Cardinality(list) = MaxUnclaimed
    BY <1>1, <2>5, UnclaimedListed
  <2>7. Unclaimed = {i.pid : i \in {j \in all : Audited(j.role) /\ j \notin claimed /\ j \notin contained}}
    BY <1>2 DEF Unclaimed
  <2>8. info.pid \in Unclaimed <=> info \notin claimed
    BY <1>2, <2>2, <2>7 DEF Listed
  <2> QED
    BY <2>4, <2>6, <2>8
<1>3. ASSUME NEW p \in ev.processes["C"] PROVE RootOf(procs[p].role) = "container"
  <2>1. PICK i \in contained : i.pid = p
    BY <1>3 DEF Accounts
  <2>2. ~error /\ step \notin Listing
    BY <1>1, <1>3 DEF Accounts, Hashing
  <2> QED
    BY <2>1, <2>2 DEF Listed
<1> QED
  BY <1>2, <1>3 DEF ProcessesAreAccounted

\* No process of the services' user is both inspected and listed as one that
\* no service inspected, and one that is neither is missing from a full list;
\* what is inspected for a container is in it
\* (claimContainerProcesses, unclaimedProcesses); the executable that is
\* hashed for a path is what the processes run (Binaries.executable).
THEOREM ProgramsAccounted == Spec => []ProgramsAreAccounted
<1>1. Inv => RunningIsHashed
  <2> SUFFICES ASSUME Inv, NEW info \in all, info.exe = "path", NEW s \in Services, info.pid \in ev.processes[s]
               PROVE  ev.exes["path"] \in {Unreadable, procs[info.pid].exe}
    BY DEF RunningIsHashed
  <2> QED
    BY DEF Inv, Exes
<1>2. Inv => ProgramsAreAccounted
  BY <1>1, ProcessesAccounted DEF ProgramsAreAccounted
<1> QED
  BY <1>2, Invariant, PTL

\* Every entry that the quote covers is in the IMA log of the evidence, when
\* it could be read: it is read after the quote.
THEOREM LogCovers == Spec => []LogExplainsQuote
<1>1. Inv => LogExplainsQuote
  BY DEF Inv, Logs, LogExplainsQuote, Done
<1> QED
  BY <1>1, Invariant, PTL


=============================================================================
