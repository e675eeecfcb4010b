------------------------------ MODULE GitCache ------------------------------
(***************************************************************************)
(* The cache of public repositories: lib/git.js (GitReference) as the      *)
(* references of a run use it (lib/references.js, pruneCache of            *)
(* lib/verify.js).  One repository; an instance for each of its branches   *)
(* that is configured.  The instances share the mirror and the checkouts,  *)
(* which stay from run to run; what an instance remembers ends with its    *)
(* process.                                                                *)
(***************************************************************************)
EXTENDS Naturals, FiniteSets

CONSTANTS
    Instances,   \* GitReference instances of a run: the configured branches
    Commits,
    MaxPushes,   \* bound: changes of the public branches
    MaxRuns,     \* bound: runs of the verifier
    MaxFaults    \* bound: git commands that fail, and crashes

ASSUME BoundAssumption == {MaxPushes, MaxFaults} \subseteq Nat /\ MaxRuns \in Nat \ {0}

\* repos/<url>.git: absent, a clone in progress, left by a clone that was
\* killed before it knew its origin, or whole.
Mirrors == {"none", "cloning", "torn", "whole"}
\* worktrees/<commit>: absent, files without .git, .git without every file or
\* without its index, or whole.
Checkouts == {"none", "debris", "torn", "whole"}
Tasks  == {"idle", "look", "add", "adding", "read", "settled"}
Values == {"none", "whole", "partial", "refused", "failed"}
Info   == {"none", "unknown", "unreadable", "elsewhere", "unplaced", "onBranch"}

VARIABLES
    origin,    \* the public branches: the commits of each
    mirror, refs, objects, checkout,         \* the cache
    fetched,   \* each instance's _fetched: none, busy, done or failed
    info,      \* what commitInfo() answered, by instance and commit
    task,      \* where tree() is
    tree,      \* what tree() settled with, kept in _trees
    pushes, runs, faults,
    seen,      \* history: the contents each branch had during this run
    excused    \* history: checkouts that a kill or two adds at once may have broken

cache   == <<mirror, refs, objects, checkout>>
memory  == <<fetched, info, task, tree>>
vars    == <<origin, cache, memory, pushes, runs, faults, seen, excused>>

Each(x)    == [i \in Instances |-> x]
EachAll(x) == [i \in Instances |-> [c \in Commits |-> x]]

TypeOK ==
    /\ origin \in [Instances -> SUBSET Commits] /\ refs \in [Instances -> SUBSET Commits]
    /\ mirror \in Mirrors /\ objects \subseteq Commits
    /\ checkout \in [Commits -> Checkouts]
    /\ fetched \in [Instances -> {"none", "cloning", "fetching", "done", "failed"}]
    /\ info \in [Instances -> [Commits -> Info]]
    /\ task \in [Instances -> [Commits -> Tasks]]
    /\ tree \in [Instances -> [Commits -> Values]]
    /\ pushes \in 0 .. MaxPushes /\ runs \in 1 .. MaxRuns /\ faults \in 0 .. MaxFaults
    /\ seen \in [Instances -> SUBSET SUBSET Commits] /\ excused \subseteq Commits

\* A new process: its instances remember nothing.
Fresh ==
    /\ fetched' = Each("none") /\ info' = EachAll("none") /\ task' = EachAll("idle")
    /\ tree' = EachAll("none")
    /\ seen' = [i \in Instances |-> {origin[i]}]

Init ==
    /\ origin \in [Instances -> (SUBSET Commits) \ {{}}]
    /\ mirror = "none" /\ refs = Each({}) /\ objects = {}
    /\ checkout = [c \in Commits |-> "none"]
    /\ fetched = Each("none") /\ info = EachAll("none") /\ task = EachAll("idle")
    /\ tree = EachAll("none")
    /\ pushes = 0 /\ runs = 1 /\ faults = 0
    /\ seen = [i \in Instances |-> {origin[i]}] /\ excused = {}

\* What a mirror that is removed takes with it.
Content ==
    IF mirror' = "none" THEN refs' = Each({}) /\ objects' = {} ELSE UNCHANGED <<refs, objects>>

Fault == faults < MaxFaults /\ faults' = faults + 1

-----------------------------------------------------------------------------
(* fetch(): once per instance                                              *)

\* Mutant: every question fetches again.
NeedsFetchAlways(i) == fetched[i] \in {"none", "done", "failed"}

NeedsFetch(i) == fetched[i] = "none"

\* A HEAD file decides between a fetch and a clone, which makes one first.
StartFetch(i) ==
    /\ NeedsFetch(i)
    /\ \/ /\ mirror = "none" /\ mirror' = "cloning"
          /\ fetched' = [fetched EXCEPT ![i] = "cloning"]
       \/ /\ mirror # "none" /\ UNCHANGED mirror
          /\ fetched' = [fetched EXCEPT ![i] = "fetching"]
    /\ UNCHANGED <<origin, refs, objects, checkout, info, task, tree, pushes,
                   runs, faults, seen, excused>>

\* What a clone or a fetch brings: a clone has every branch.
Fetched(i) == IF fetched[i] = "cloning" THEN UNION {origin[j] : j \in Instances} ELSE origin[i]

\* The branch as it is now, rewritten or not; the objects of others stay.
EndFetch(i) ==
    /\ fetched[i] \in {"cloning", "fetching"} /\ mirror \notin {"none", "torn"}
    /\ mirror' = IF fetched[i] = "cloning" THEN "whole" ELSE mirror
    /\ fetched' = [fetched EXCEPT ![i] = "done"]
    /\ refs' = [refs EXCEPT ![i] = origin[i]]
    /\ objects' = objects \cup Fetched(i)
    /\ UNCHANGED <<origin, checkout, info, task, tree, pushes, runs, faults, seen, excused>>

\* The network, a timeout, a clone in progress, or a mirror without an origin.
\* git removes a clone that fails; the fetch that follows a clone leaves it.
FetchFails(i) ==
    /\ fetched[i] \in {"cloning", "fetching"}
    /\ \/ Fault
       \/ mirror \in {"none", "torn"} /\ UNCHANGED faults
       \/ mirror = "cloning" /\ fetched[i] = "fetching" /\ UNCHANGED faults
    /\ \/ /\ mirror' = IF fetched[i] = "cloning" THEN "none" ELSE mirror
          /\ Content
       \/ /\ fetched[i] = "cloning" /\ mirror' = "whole"
          /\ objects' = objects \cup Fetched(i) /\ UNCHANGED refs
    /\ fetched' = [fetched EXCEPT ![i] = "failed"]
    /\ UNCHANGED <<origin, checkout, info, task, tree, pushes, runs, seen, excused>>

-----------------------------------------------------------------------------
(* commitInfo() and tree()                                                 *)

OnBranch(i, c) == c \in refs[i]

Goto(i, c, from, to) == task[i][c] = from /\ task' = [task EXCEPT ![i][c] = to]

Busy(i, c) == task[i][c] \notin {"idle", "settled"}
Shared(i, c) == \E j \in Instances \ {i} : Busy(j, c)

\* A git that fails is taken for a no, whatever it failed of.
CommitInfo(i, c) ==
    \/ /\ mirror # "none" /\ UNCHANGED faults
       /\ info' = [info EXCEPT ![i][c] = IF c \notin objects THEN "unknown"
                                         ELSE IF OnBranch(i, c) THEN "onBranch" ELSE "elsewhere"]
    \/ /\ mirror = "none" /\ UNCHANGED faults
       /\ info' = [info EXCEPT ![i][c] = "unreadable"]
    \/ /\ mirror # "none" /\ Fault
       /\ \E answer \in {"unreadable"} \cup {"unplaced" : o \in objects \cap {c}} :
             info' = [info EXCEPT ![i][c] = answer]

Exists(answer) == answer \in {"elsewhere", "unplaced", "onBranch"}

\* appraiseTree() and others ask for a commit, and for its tree if it exists.
Ask(i, c) ==
    /\ fetched[i] = "done" /\ task[i][c] = "idle" /\ (info[i][c] = "none" \/ Exists(info[i][c]))
    /\ CommitInfo(i, c)
    /\ \/ ~Exists(info'[i][c]) /\ UNCHANGED <<task, excused>>
       \/ /\ Exists(info'[i][c]) /\ Goto(i, c, "idle", "look")
          /\ excused' = IF Shared(i, c) THEN excused \cup {c} ELSE excused
    /\ UNCHANGED <<origin, cache, fetched, tree, pushes, runs, seen>>

\* Mutant: what is there without .git is left in place.
ClearedNot(c) == checkout[c]

\* What `worktree add' finds: rmSync() came before it.
Cleared(c) == "none"

\* A tree that came of a broken checkout and is remembered.
Spoilt(c) == \E j \in Instances : tree[j][c] \in {"partial", "refused"}

\* A checkout with .git is taken as it is; anything else is removed.
Look(i, c) ==
    /\ \/ checkout[c] \in {"torn", "whole"} /\ Goto(i, c, "look", "read") /\ UNCHANGED checkout
       \/ /\ checkout[c] \in {"none", "debris"} /\ Goto(i, c, "look", "add")
          /\ checkout' = [checkout EXCEPT ![c] = Cleared(c)]
    /\ excused' = IF task'[i][c] = "add" /\ ~Shared(i, c) /\ ~Spoilt(c)
                  THEN excused \ {c} ELSE excused
    /\ UNCHANGED <<origin, mirror, refs, objects, fetched, info, tree, pushes, runs,
                   faults, seen>>

Settle(i, c, from, value) ==
    /\ Goto(i, c, from, "settled")
    /\ tree' = [tree EXCEPT ![i][c] = value]

\* `worktree add' writes .git first; a directory that is not empty is refused.
AddStart(i, c) ==
    /\ \/ /\ checkout[c] = "none" /\ mirror # "none" /\ Goto(i, c, "add", "adding") /\ UNCHANGED tree
          /\ checkout' = [checkout EXCEPT ![c] = "torn"]
       \/ /\ checkout[c] # "none" \/ mirror = "none"
          /\ Settle(i, c, "add", IF mirror = "none" THEN "failed" ELSE "refused")
          /\ UNCHANGED checkout
    /\ UNCHANGED <<origin, mirror, refs, objects, fetched, info, pushes, runs, faults, seen, excused>>

AddEnd(i, c) ==
    /\ \/ /\ Goto(i, c, "adding", "read") /\ UNCHANGED <<tree, faults>>
          /\ checkout' = [checkout EXCEPT ![c] = "whole"]
       \/ /\ Fault /\ Settle(i, c, "adding", "failed")     \* git removes what it made
          /\ checkout' = [checkout EXCEPT ![c] = "none"]
    /\ UNCHANGED <<origin, mirror, refs, objects, fetched, info, pushes, runs, seen, excused>>

\* Mutant: the listing alone is the tree.
TreeListed(c) == checkout[c]

\* ls-files fails outside a checkout, and lists nothing without an index; the
\* tree has the listed files that walkTree() finds.
Tree(c) ==
    CASE mirror = "none"       -> "failed"
      [] checkout[c] = "whole" -> "whole"
      [] checkout[c] = "torn"  -> "partial"
      [] OTHER                 -> "refused"

Read(i, c) ==
    /\ Settle(i, c, "read", Tree(c))
    /\ UNCHANGED <<origin, cache, fetched, info, pushes, runs, faults, seen, excused>>

-----------------------------------------------------------------------------
(* pruneTrees() of every instance, with the commits the run saw            *)

Quiet == \A i \in Instances : \A c \in Commits : ~Busy(i, c)

\* Mutant: the trees of removed checkouts stay in _trees.
ForgottenNone(i, c, keep) == FALSE

Forgotten(i, c, keep) == c \notin keep /\ task[i][c] = "settled"

PruneTrees(keep) ==
    /\ Quiet /\ \E i \in Instances : fetched[i] # "none"
    /\ checkout' = [c \in Commits |-> IF c \in keep THEN checkout[c] ELSE "none"]
    /\ task' = [i \in Instances |-> [c \in Commits |->
                   IF Forgotten(i, c, keep) THEN "idle" ELSE task[i][c]]]
    /\ tree' = [i \in Instances |-> [c \in Commits |->
                   IF Forgotten(i, c, keep) THEN "none" ELSE tree[i][c]]]
    /\ excused' = excused \cap keep
    /\ UNCHANGED <<origin, mirror, refs, objects, fetched, info, pushes, runs, faults, seen>>

-----------------------------------------------------------------------------
(* Runs and crashes                                                        *)

NextRun ==
    /\ runs < MaxRuns /\ runs' = runs + 1
    /\ Quiet /\ \A i \in Instances : fetched[i] \in {"none", "done", "failed"}
    /\ Fresh
    /\ UNCHANGED <<origin, cache, pushes, faults, excused>>

\* The process is killed, in a command of git or in rmSync(): a clone, and
\* the checkouts being added or removed, are left as they are.
Crash ==
    /\ Fault /\ runs < MaxRuns /\ runs' = runs + 1
    /\ mirror' \in IF mirror # "cloning" THEN {mirror}
                   ELSE {"none", "whole"} \cup {"torn" : r \in {refs} \cap {Each({})}}
    /\ Content
    /\ \E pruning \in {{}} \cup (IF Quiet THEN SUBSET Commits ELSE {}) :
          LET broken == {c \in Commits : \/ c \in pruning /\ checkout[c] # "none"
                                        \/ \E i \in Instances : task[i][c] = "adding"}
          IN  /\ excused' = excused \cup broken
              /\ \E left \in [broken -> {"none", "debris", "torn"}] :
                    checkout' = [c \in Commits |-> IF c \in broken THEN left[c] ELSE checkout[c]]
    /\ Fresh
    /\ UNCHANGED <<origin, pushes>>

\* The public branch moves, or is rewritten.
Push(i) ==
    /\ pushes < MaxPushes /\ pushes' = pushes + 1
    /\ \E h \in (SUBSET Commits) \ {{}, origin[i]} :
          /\ origin' = [origin EXCEPT ![i] = h]
          /\ seen' = [seen EXCEPT ![i] = @ \cup {h}]
    /\ UNCHANGED <<cache, memory, runs, faults, excused>>

Step(i) ==
    /\ \/ StartFetch(i) \/ EndFetch(i) \/ FetchFails(i)
       \/ \E c \in Commits : \/ Ask(i, c) \/ Look(i, c) \/ AddStart(i, c) \/ AddEnd(i, c)
                             \/ Read(i, c)

Next ==
    \/ \E i \in Instances : Step(i) \/ Push(i)
    \/ \E keep \in SUBSET Commits : PruneTrees(keep)
    \/ NextRun \/ Crash

Spec == Init /\ [][Next]_vars

-----------------------------------------------------------------------------
(* Properties                                                              *)

\* What an instance says of the branch is said of one content it had during
\* this run, never of an earlier run's mirror or of two fetches (lib/git.js:
\* 92-98): a commit said to be on it was, and one said not to be was not, unless
\* git could not be asked.
OneSnapshot ==
    \A i \in Instances : \E h \in seen[i] : \A c \in Commits :
        /\ info[i][c] = "onBranch" => c \in h
        /\ info[i][c] \in {"unknown", "elsewhere"} => c \notin h

\* The files of a commit are all there, unless a kill or two instances at a
\* time broke its checkout; what else an interrupted run or a failed command
\* left is cleared away and made anew (lib/git.js:209-214).  A tree that is
\* remembered keeps its checkout: ignored() and checkout() use it after
\* pruneTrees() (lib/git.js:268-272, test/git.test.js:141-144).
TreesAreWhole ==
    \A i \in Instances : \A c \in Commits :
        /\ tree[i][c] \in {"partial", "refused"} => c \in excused
        /\ tree[i][c] = "whole" => checkout[c] = "whole"
=============================================================================
