--------------------------- MODULE GitCacheProofs ---------------------------
(***************************************************************************)
(* What GitCache promises, proved for every number of branches, commits,   *)
(* runs and faults: the trees are whole, and what is said to be on a       *)
(* branch was on it.  That one snapshot answers every question is proved   *)
(* for the branches of a repository that are two at most: with a third,    *)
(* TLC finds a run where it does not.                                      *)
(***************************************************************************)
EXTENDS GitCache, TLAPS

\* A process remembers nothing of a branch it has not fetched.
Asked == \A i \in Instances : fetched[i] # "done" => \A c \in Commits :
            info[i][c] = "none" /\ task[i][c] = "idle" /\ tree[i][c] = "none"

\* What is answered of a branch is answered of one content of this run.
Snapshot(i, h) ==
    /\ refs[i] = h \/ refs[i] = {}
    /\ \A c \in Commits : info[i][c] = "onBranch" => c \in h

Snapshots ==
    /\ \A i \in Instances : origin[i] \in seen[i]
    /\ \A i \in Instances : fetched[i] = "done" => \E h \in seen[i] : Snapshot(i, h)

\* A mirror has one clone at work.
Clone ==
    /\ \A i \in Instances : fetched[i] = "cloning" => mirror = "cloning"
    /\ \A i, j \in Instances : fetched[i] = "cloning" /\ fetched[j] = "cloning" => i = j

\* While the mirror is there, a fetched branch is in it with its commits.
Held(i, h) ==
    /\ mirror # "none" => h \subseteq objects /\ refs[i] = h
    /\ \A c \in Commits : info[i][c] \in {"unknown", "elsewhere"} => c \notin h
    /\ \A c \in Commits : info[i][c] = "onBranch" => c \in h

\* A mirror that is gone stays gone for the process that fetched from it.
Gone ==
    \A i \in Instances : fetched[i] = "done" /\ mirror = "none" =>
        \A j \in Instances : fetched[j] \in {"done", "failed"}

Holdings == \A i \in Instances : fetched[i] = "done" => \E h \in seen[i] : Held(i, h)

\* Whoever adds a checkout is the only one who does.
Adder(c) ==
    /\ \A i \in Instances : task[i][c] = "adding" => checkout[c] = "torn"
    /\ \A i, j \in Instances : task[i][c] = "adding" /\ task[j][c] = "adding" => i = j

\* A checkout that nothing excuses has one user and is whole when it is read.
Sound(c) ==
    /\ \A i, j \in Instances : Busy(i, c) /\ Busy(j, c) => i = j
    /\ checkout[c] # "debris"
    /\ checkout[c] = "torn" => \E i \in Instances : task[i][c] = "adding"
    /\ \A i \in Instances : task[i][c] = "add" => checkout[c] = "none"
    /\ \A i \in Instances : task[i][c] = "read" => checkout[c] = "whole"

\* A tree is remembered when it is settled, and is what its checkout allows.
Whole(c) ==
    /\ Adder(c)
    /\ c \notin excused => Sound(c)
    /\ \A i \in Instances : task[i][c] # "settled" => tree[i][c] = "none"
    /\ \A i \in Instances : tree[i][c] \in {"partial", "refused"} => c \in excused
    /\ \A i \in Instances : tree[i][c] = "whole" => checkout[c] = "whole"

Checked == \A c \in Commits : Whole(c)

\* What is said to be on a branch was on one content of it during this run,
\* all of it on the same one (lib/git.js:92-98, 172-188).
OnBranchIsSeen ==
    \A i \in Instances : \E h \in seen[i] : \A c \in Commits : info[i][c] = "onBranch" => c \in h

-----------------------------------------------------------------------------
(* Types                                                                   *)

LEMMA FreshType == ASSUME TypeOK, Fresh
                   PROVE  /\ fetched' \in [Instances -> {"none", "cloning", "fetching", "done", "failed"}]
                          /\ info' \in [Instances -> [Commits -> Info]]
                          /\ task' \in [Instances -> [Commits -> Tasks]]
                          /\ tree' \in [Instances -> [Commits -> Values]]
                          /\ seen' \in [Instances -> SUBSET SUBSET Commits]
BY DEF TypeOK, Fresh, Each, EachAll, Info, Tasks, Values

LEMMA TypeInit == Init => TypeOK
BY BoundAssumption DEF Init, TypeOK, Each, EachAll, Info, Tasks, Values, Mirrors, Checkouts

LEMMA TypeFetch == ASSUME TypeOK, NEW i \in Instances, StartFetch(i) \/ EndFetch(i) \/ FetchFails(i)
                   PROVE  TypeOK'
<1>1. CASE StartFetch(i)
  BY <1>1 DEF TypeOK, StartFetch, Mirrors
<1>2. CASE EndFetch(i)
  <2>1. Fetched(i) \subseteq Commits
    BY DEF TypeOK, Fetched
  <2> QED
    BY <1>2, <2>1 DEF TypeOK, EndFetch, Mirrors
<1>3. CASE FetchFails(i)
  <2>1. Fetched(i) \subseteq Commits
    BY DEF TypeOK, Fetched
  <2>2. faults' \in 0 .. MaxFaults
    BY <1>3, BoundAssumption DEF TypeOK, FetchFails, Fault
  <2>3. mirror' \in Mirrors
    BY <1>3 DEF TypeOK, FetchFails, Mirrors
  <2>4. refs' \in [Instances -> SUBSET Commits] /\ objects' \subseteq Commits
    BY <1>3, <2>1 DEF TypeOK, FetchFails, Content, Each
  <2> QED
    BY <1>3, <2>2, <2>3, <2>4 DEF TypeOK, FetchFails
<1> QED
  BY <1>1, <1>2, <1>3

LEMMA GridType == ASSUME NEW S, NEW f \in [Instances -> [Commits -> S]], NEW i \in Instances,
                         NEW c \in Commits, NEW v \in S
                  PROVE  [f EXCEPT ![i][c] = v] \in [Instances -> [Commits -> S]]
OBVIOUS

LEMMA GridValue == ASSUME NEW S, NEW f \in [Instances -> [Commits -> S]], NEW i \in Instances,
                          NEW c \in Commits, NEW v, NEW j \in Instances, NEW d \in Commits
                   PROVE  [f EXCEPT ![i][c] = v][j][d] = IF j = i /\ d = c THEN v ELSE f[j][d]
OBVIOUS

LEMMA GotoType == ASSUME TypeOK, NEW i \in Instances, NEW c \in Commits,
                         NEW from, NEW to \in Tasks, Goto(i, c, from, to)
                  PROVE  task' \in [Instances -> [Commits -> Tasks]]
<1>1. task \in [Instances -> [Commits -> Tasks]] /\ task' = [task EXCEPT ![i][c] = to]
  BY DEF TypeOK, Goto
<1> QED
  BY <1>1, GridType

LEMMA SettleType == ASSUME TypeOK, NEW i \in Instances, NEW c \in Commits,
                           NEW from, NEW value \in Values, Settle(i, c, from, value)
                    PROVE  /\ task' \in [Instances -> [Commits -> Tasks]]
                           /\ tree' \in [Instances -> [Commits -> Values]]
<1>1. task' \in [Instances -> [Commits -> Tasks]]
  BY GotoType DEF Settle, Tasks
<1>2. tree \in [Instances -> [Commits -> Values]] /\ tree' = [tree EXCEPT ![i][c] = value]
  BY DEF TypeOK, Settle
<1> QED
  BY <1>1, <1>2, GridType

\* What is answered of a commit, and to what question.
LEMMA AnswerType == ASSUME TypeOK, NEW i \in Instances, NEW c \in Commits, CommitInfo(i, c)
                    PROVE  \E answer \in Info :
                              /\ info' = [info EXCEPT ![i][c] = answer]
                              /\ answer # "none"
                              /\ answer = "onBranch" => mirror # "none" /\ c \in refs[i]
                              /\ answer \in {"unknown", "elsewhere"} =>
                                    mirror # "none" /\ (c \notin objects \/ c \notin refs[i])
                              /\ info' \in [Instances -> [Commits -> Info]]
                              /\ faults' \in 0 .. MaxFaults
<1>1. \E answer \in Info :
         /\ info' = [info EXCEPT ![i][c] = answer]
         /\ answer # "none"
         /\ answer = "onBranch" => mirror # "none" /\ c \in refs[i]
         /\ answer \in {"unknown", "elsewhere"} =>
               mirror # "none" /\ (c \notin objects \/ c \notin refs[i])
  <2>1. CASE mirror = "none" /\ info' = [info EXCEPT ![i][c] = "unreadable"]
    BY <2>1 DEF Info
  <2>2. CASE /\ mirror # "none"
             /\ info' = [info EXCEPT ![i][c] = IF c \notin objects THEN "unknown"
                           ELSE IF OnBranch(i, c) THEN "onBranch" ELSE "elsewhere"]
    BY <2>2 DEF Info, OnBranch
  <2>3. CASE \E answer \in {"unreadable"} \cup {"unplaced" : o \in objects \cap {c}} :
                info' = [info EXCEPT ![i][c] = answer]
    BY <2>3 DEF Info
  <2> QED
    BY <2>1, <2>2, <2>3 DEF CommitInfo
<1>2. faults' \in 0 .. MaxFaults
  BY BoundAssumption DEF TypeOK, CommitInfo, Fault
<1>3. PICK answer \in Info :
         /\ info' = [info EXCEPT ![i][c] = answer]
         /\ answer # "none"
         /\ answer = "onBranch" => mirror # "none" /\ c \in refs[i]
         /\ answer \in {"unknown", "elsewhere"} =>
               mirror # "none" /\ (c \notin objects \/ c \notin refs[i])
  BY <1>1
<1>4. info \in [Instances -> [Commits -> Info]]
  BY DEF TypeOK
<1>5. info' \in [Instances -> [Commits -> Info]]
  BY <1>3, <1>4, GridType
<1> QED
  BY <1>2, <1>3, <1>5

LEMMA TypeAsk == ASSUME TypeOK, NEW i \in Instances, NEW c \in Commits, Ask(i, c)
                 PROVE  TypeOK'
<1>1. info' \in [Instances -> [Commits -> Info]] /\ faults' \in 0 .. MaxFaults
  <2>1. CommitInfo(i, c)
    BY DEF Ask
  <2> QED
    BY <2>1, AnswerType
<1>2. task' \in [Instances -> [Commits -> Tasks]]
  <2>1. Goto(i, c, "idle", "look") \/ task' = task
    BY DEF Ask
  <2> QED
    BY <2>1, GotoType DEF TypeOK, Tasks
<1>3. excused' \subseteq Commits
  BY DEF TypeOK, Ask
<1> QED
  BY <1>1, <1>2, <1>3 DEF TypeOK, Ask, cache

LEMMA TypeTree == ASSUME TypeOK, NEW i \in Instances, NEW c \in Commits,
                         Look(i, c) \/ AddStart(i, c) \/ AddEnd(i, c) \/ Read(i, c)
                  PROVE  TypeOK'
<1>1. CASE Look(i, c)
  <2>1. task' \in [Instances -> [Commits -> Tasks]]
    BY <1>1, GotoType DEF Look, Tasks
  <2>2. checkout' \in [Commits -> Checkouts] /\ excused' \subseteq Commits
    BY <1>1 DEF TypeOK, Look, Cleared, Checkouts
  <2> QED
    BY <1>1, <2>1, <2>2 DEF TypeOK, Look
<1>2. CASE AddStart(i, c)
  <2>1. checkout' \in [Commits -> Checkouts]
    BY <1>2 DEF TypeOK, AddStart, Checkouts
  <2>2. CASE Goto(i, c, "add", "adding") /\ UNCHANGED tree
    <3>1. task' \in [Instances -> [Commits -> Tasks]]
      BY <2>2, GotoType DEF Tasks
    <3> QED
      BY <1>2, <2>1, <2>2, <3>1 DEF TypeOK, AddStart
  <2>3. CASE Settle(i, c, "add", IF mirror = "none" THEN "failed" ELSE "refused")
    <3>1. (IF mirror = "none" THEN "failed" ELSE "refused") \in Values
      BY DEF Values
    <3>2. /\ task' \in [Instances -> [Commits -> Tasks]]
          /\ tree' \in [Instances -> [Commits -> Values]]
      BY <2>3, <3>1, SettleType
    <3> QED
      BY <1>2, <2>1, <3>2 DEF TypeOK, AddStart
  <2> QED
    BY <1>2, <2>2, <2>3 DEF AddStart
<1>3. CASE AddEnd(i, c)
  <2>1. checkout' \in [Commits -> Checkouts] /\ faults' \in 0 .. MaxFaults
    BY <1>3, BoundAssumption DEF TypeOK, AddEnd, Checkouts, Fault
  <2>2. CASE Goto(i, c, "adding", "read") /\ UNCHANGED tree
    <3>1. task' \in [Instances -> [Commits -> Tasks]]
      BY <2>2, GotoType DEF Tasks
    <3> QED
      BY <1>3, <2>1, <2>2, <3>1 DEF TypeOK, AddEnd
  <2>3. CASE Settle(i, c, "adding", "failed")
    <3>1. /\ task' \in [Instances -> [Commits -> Tasks]]
          /\ tree' \in [Instances -> [Commits -> Values]]
      BY <2>3, SettleType DEF Values
    <3> QED
      BY <1>3, <2>1, <3>1 DEF TypeOK, AddEnd
  <2> QED
    BY <1>3, <2>2, <2>3 DEF AddEnd
<1>4. CASE Read(i, c)
  <2>1. Tree(c) \in Values
    BY Zenon DEF Tree, Values
  <2>2. /\ task' \in [Instances -> [Commits -> Tasks]]
        /\ tree' \in [Instances -> [Commits -> Values]]
    BY <1>4, <2>1, SettleType DEF Read
  <2> QED
    BY <1>4, <2>2 DEF TypeOK, Read, cache
<1> QED
  BY <1>1, <1>2, <1>3, <1>4

LEMMA TypePrune == ASSUME TypeOK, NEW keep \in SUBSET Commits, PruneTrees(keep)
                   PROVE  TypeOK'
<1>1. checkout' \in [Commits -> Checkouts] /\ excused' \subseteq Commits
  BY DEF TypeOK, PruneTrees, Checkouts
<1>2. task' \in [Instances -> [Commits -> Tasks]]
  BY DEF TypeOK, PruneTrees, Tasks
<1>3. tree' \in [Instances -> [Commits -> Values]]
  BY DEF TypeOK, PruneTrees, Values
<1> QED
  BY <1>1, <1>2, <1>3 DEF TypeOK, PruneTrees

LEMMA TypeNextRun == ASSUME TypeOK, NextRun
                     PROVE  TypeOK'
<1>1. Fresh
  BY DEF NextRun
<1>2. runs' \in 1 .. MaxRuns
  BY BoundAssumption DEF TypeOK, NextRun
<1> QED
  BY <1>1, <1>2, FreshType DEF TypeOK, NextRun, cache

LEMMA TypeCrash == ASSUME TypeOK, Crash
                   PROVE  TypeOK'
<1>1. Fresh
  BY DEF Crash
<1>2. faults' \in 0 .. MaxFaults /\ runs' \in 1 .. MaxRuns
  BY BoundAssumption DEF TypeOK, Crash, Fault
<1>3. mirror' \in Mirrors
  BY DEF TypeOK, Crash, Mirrors
<1>4. refs' \in [Instances -> SUBSET Commits] /\ objects' \subseteq Commits
  BY DEF TypeOK, Crash, Content, Each
<1>5. checkout' \in [Commits -> Checkouts] /\ excused' \subseteq Commits
  BY DEF TypeOK, Crash, Checkouts
<1> QED
  BY <1>1, <1>2, <1>3, <1>4, <1>5, FreshType DEF TypeOK, Crash

LEMMA TypePush == ASSUME TypeOK, NEW i \in Instances, Push(i)
                  PROVE  TypeOK'
BY BoundAssumption DEF TypeOK, Push, cache, memory

LEMMA TypeNext == TypeOK /\ [Next]_vars => TypeOK'
<1> SUFFICES ASSUME TypeOK, [Next]_vars
             PROVE  TypeOK'
  OBVIOUS
<1>1. CASE UNCHANGED vars
  BY <1>1 DEF TypeOK, vars, cache, memory
<1> QED
  BY <1>1, TypeFetch, TypeAsk, TypeTree, TypePrune, TypeNextRun, TypeCrash, TypePush
     DEF Next, Step

\* The cache, and what the instances remember of it, keep their types, however
\* many branches, pushes, runs and faults there are (lib/git.js).
THEOREM TypeCorrect == Spec => []TypeOK
BY TypeInit, TypeNext, PTL DEF Spec

-----------------------------------------------------------------------------
(* What a step changes of what an instance remembers                       *)

LEMMA GotoEffect == ASSUME TypeOK, NEW i \in Instances, NEW c \in Commits, NEW from, NEW to,
                           Goto(i, c, from, to), NEW j \in Instances, NEW d \in Commits
                    PROVE  /\ task[i][c] = from
                           /\ task'[j][d] = IF j = i /\ d = c THEN to ELSE task[j][d]
<1>1. task \in [Instances -> [Commits -> Tasks]] /\ task' = [task EXCEPT ![i][c] = to]
  BY DEF TypeOK, Goto
<1> QED
  BY <1>1, GridValue DEF Goto

LEMMA SettleEffect == ASSUME TypeOK, NEW i \in Instances, NEW c \in Commits, NEW from, NEW value,
                             Settle(i, c, from, value), NEW j \in Instances, NEW d \in Commits
                      PROVE  /\ task[i][c] = from
                             /\ task'[j][d] = IF j = i /\ d = c THEN "settled" ELSE task[j][d]
                             /\ tree'[j][d] = IF j = i /\ d = c THEN value ELSE tree[j][d]
<1>1. Goto(i, c, from, "settled")
  BY DEF Settle
<1>2. tree \in [Instances -> [Commits -> Values]] /\ tree' = [tree EXCEPT ![i][c] = value]
  BY DEF TypeOK, Settle
<1>3. tree'[j][d] = IF j = i /\ d = c THEN value ELSE tree[j][d]
  BY <1>2, GridValue
<1> QED
  BY <1>1, <1>3, GotoEffect

LEMMA TreeEffect == ASSUME TypeOK, NEW i \in Instances, NEW c \in Commits,
                           Look(i, c) \/ AddStart(i, c) \/ AddEnd(i, c) \/ Read(i, c)
                    PROVE  /\ UNCHANGED <<origin, mirror, refs, objects, fetched, info, seen>>
                           /\ task[i][c] \in {"look", "add", "adding", "read"}
                           /\ \A j \in Instances : \A d \in Commits : j # i \/ d # c =>
                                 task'[j][d] = task[j][d] /\ tree'[j][d] = tree[j][d]
<1>1. CASE Look(i, c)
  <2>1. \E to : Goto(i, c, "look", to)
    BY <1>1 DEF Look
  <2> QED
    BY <1>1, <2>1, GotoEffect DEF Look
<1>2. CASE AddStart(i, c)
  <2>1. CASE Goto(i, c, "add", "adding") /\ UNCHANGED tree
    BY <1>2, <2>1, GotoEffect DEF AddStart
  <2>2. CASE Settle(i, c, "add", IF mirror = "none" THEN "failed" ELSE "refused")
    BY <1>2, <2>2, SettleEffect DEF AddStart
  <2> QED
    BY <1>2, <2>1, <2>2 DEF AddStart
<1>3. CASE AddEnd(i, c)
  <2>1. CASE Goto(i, c, "adding", "read") /\ UNCHANGED tree
    BY <1>3, <2>1, GotoEffect DEF AddEnd
  <2>2. CASE Settle(i, c, "adding", "failed")
    BY <1>3, <2>2, SettleEffect DEF AddEnd
  <2> QED
    BY <1>3, <2>1, <2>2 DEF AddEnd
<1>4. CASE Read(i, c)
  <2>1. Settle(i, c, "read", Tree(c))
    BY <1>4 DEF Read
  <2> QED
    BY <1>4, <2>1, SettleEffect DEF Read, cache
<1> QED
  BY <1>1, <1>2, <1>3, <1>4

LEMMA AskEffect == ASSUME TypeOK, NEW i \in Instances, NEW c \in Commits, Ask(i, c)
                   PROVE  /\ UNCHANGED <<origin, mirror, refs, objects, checkout, fetched, tree, seen>>
                          /\ fetched[i] = "done"
                          /\ \A j \in Instances : \A d \in Commits : j # i \/ d # c =>
                                info'[j][d] = info[j][d] /\ task'[j][d] = task[j][d]
                          /\ info'[i][c] = "onBranch" => mirror # "none" /\ c \in refs[i]
                          /\ info'[i][c] \in {"unknown", "elsewhere"} =>
                                mirror # "none" /\ (c \notin objects \/ c \notin refs[i])
<1>1. PICK answer \in Info :
         /\ info' = [info EXCEPT ![i][c] = answer]
         /\ answer # "none"
         /\ answer = "onBranch" => mirror # "none" /\ c \in refs[i]
         /\ answer \in {"unknown", "elsewhere"} =>
               mirror # "none" /\ (c \notin objects \/ c \notin refs[i])
  <2>1. CommitInfo(i, c)
    BY DEF Ask
  <2> QED
    BY <2>1, AnswerType
<1>2. info \in [Instances -> [Commits -> Info]]
  BY DEF TypeOK
<1>3. \A j \in Instances : \A d \in Commits :
         info'[j][d] = IF j = i /\ d = c THEN answer ELSE info[j][d]
  BY <1>1, <1>2, GridValue
<1>4. \A j \in Instances : \A d \in Commits : j # i \/ d # c => task'[j][d] = task[j][d]
  <2>1. Goto(i, c, "idle", "look") \/ task' = task
    BY DEF Ask
  <2> QED
    BY <2>1, GotoEffect
<1> QED
  BY <1>1, <1>3, <1>4 DEF Ask, cache

-----------------------------------------------------------------------------
(* What is said of a branch                                                *)

LEMMA FreshForgets == ASSUME Fresh
                      PROVE  /\ \A i \in Instances : fetched'[i] = "none" /\ seen'[i] = {origin[i]}
                             /\ \A i \in Instances : \A c \in Commits :
                                   info'[i][c] = "none" /\ task'[i][c] = "idle" /\ tree'[i][c] = "none"
BY DEF Fresh, Each, EachAll

LEMMA AskedInit == Init => Asked
BY DEF Init, Asked, Each, EachAll

LEMMA AskedNext == TypeOK /\ Asked /\ [Next]_vars => Asked'
<1> SUFFICES ASSUME TypeOK, Asked, [Next]_vars
             PROVE  Asked'
  OBVIOUS
<1>1. ASSUME NEW i \in Instances, StartFetch(i) \/ EndFetch(i) \/ FetchFails(i)
      PROVE  Asked'
  <2>1. /\ UNCHANGED <<info, task, tree>>
        /\ \A j \in Instances : fetched'[j] # "done" => fetched[j] # "done"
    BY <1>1 DEF TypeOK, StartFetch, EndFetch, FetchFails, NeedsFetch
  <2> QED
    BY <2>1 DEF Asked
<1>2. ASSUME NEW i \in Instances, NEW c \in Commits, Ask(i, c)
      PROVE  Asked'
  BY <1>2, AskEffect DEF Asked
<1>3. ASSUME NEW i \in Instances, NEW c \in Commits,
             Look(i, c) \/ AddStart(i, c) \/ AddEnd(i, c) \/ Read(i, c)
      PROVE  Asked'
  <2>1. fetched[i] = "done"
    BY <1>3, TreeEffect DEF Asked
  <2> QED
    BY <1>3, <2>1, TreeEffect DEF Asked
<1>4. ASSUME NEW keep \in SUBSET Commits, PruneTrees(keep)
      PROVE  Asked'
  BY <1>4 DEF Asked, PruneTrees
<1>5. CASE NextRun \/ Crash
  <2>1. Fresh
    BY <1>5 DEF NextRun, Crash
  <2> QED
    BY <2>1, FreshForgets DEF Asked
<1>6. ASSUME NEW i \in Instances, Push(i)
      PROVE  Asked'
  BY <1>6 DEF Asked, Push, cache, memory
<1>7. CASE UNCHANGED vars
  BY <1>7 DEF Asked, vars, memory
<1> QED
  BY <1>1, <1>2, <1>3, <1>4, <1>5, <1>6, <1>7 DEF Next, Step

LEMMA SnapshotsInit == Init => Snapshots
BY DEF Init, Snapshots, Each

LEMMA SnapshotsNext == TypeOK /\ Asked /\ Snapshots /\ [Next]_vars => Snapshots'
<1> SUFFICES ASSUME TypeOK, Asked, Snapshots, [Next]_vars
             PROVE  Snapshots'
  OBVIOUS
<1>1. ASSUME NEW i \in Instances, StartFetch(i)
      PROVE  Snapshots'
  <2>1. /\ UNCHANGED <<origin, refs, info, seen>>
        /\ \A j \in Instances : fetched'[j] = "done" => fetched[j] = "done"
    BY <1>1 DEF TypeOK, StartFetch
  <2> QED
    BY <2>1 DEF Snapshots, Snapshot
<1>2. ASSUME NEW i \in Instances, EndFetch(i)
      PROVE  Snapshots'
  <2>1. \A c \in Commits : info[i][c] = "none"
    BY <1>2 DEF EndFetch, Asked
  <2>2. origin[i] \in seen'[i] /\ Snapshot(i, origin[i])'
    BY <1>2, <2>1 DEF TypeOK, Snapshots, Snapshot, EndFetch
  <2>3. ASSUME NEW j \in Instances, j # i
        PROVE  UNCHANGED <<refs[j], info, fetched[j], seen, origin>>
    BY <1>2, <2>3 DEF TypeOK, EndFetch
  <2> QED
    BY <2>2, <2>3, <1>2 DEF Snapshots, Snapshot, EndFetch
<1>3. ASSUME NEW i \in Instances, FetchFails(i)
      PROVE  Snapshots'
  <2>1. /\ UNCHANGED <<info, seen, origin>>
        /\ \A j \in Instances : refs'[j] = refs[j] \/ refs'[j] = {}
        /\ \A j \in Instances : fetched'[j] = "done" => fetched[j] = "done"
    BY <1>3 DEF TypeOK, FetchFails, Content, Each
  <2> QED
    BY <2>1 DEF Snapshots, Snapshot
<1>4. ASSUME NEW i \in Instances, NEW c \in Commits, Ask(i, c)
      PROVE  Snapshots'
  <2>1. ASSUME NEW j \in Instances, NEW h \in seen[j], Snapshot(j, h)
        PROVE  Snapshot(j, h)'
    BY <1>4, <2>1, AskEffect DEF Snapshot
  <2> QED
    BY <1>4, <2>1, AskEffect DEF Snapshots
<1>5. ASSUME NEW i \in Instances, NEW c \in Commits,
             Look(i, c) \/ AddStart(i, c) \/ AddEnd(i, c) \/ Read(i, c)
      PROVE  Snapshots'
  <2>1. UNCHANGED <<origin, refs, fetched, info, seen>>
    BY <1>5, TreeEffect
  <2> QED
    BY <2>1 DEF Snapshots, Snapshot
<1>6. ASSUME NEW keep \in SUBSET Commits, PruneTrees(keep)
      PROVE  Snapshots'
  BY <1>6 DEF Snapshots, Snapshot, PruneTrees
<1>7. CASE NextRun \/ Crash
  <2>1. Fresh /\ UNCHANGED origin
    BY <1>7 DEF NextRun, Crash
  <2> QED
    BY <2>1, FreshForgets DEF Snapshots
<1>8. ASSUME NEW i \in Instances, Push(i)
      PROVE  Snapshots'
  <2>1. /\ UNCHANGED <<refs, info, fetched>>
        /\ \A j \in Instances : origin'[j] \in seen'[j] /\ seen[j] \subseteq seen'[j]
    BY <1>8 DEF TypeOK, Snapshots, Push, cache, memory
  <2> QED
    BY <2>1 DEF Snapshots, Snapshot
<1>9. CASE UNCHANGED vars
  BY <1>9 DEF Snapshots, Snapshot, vars, cache, memory
<1> QED
  BY <1>1, <1>2, <1>3, <1>4, <1>5, <1>6, <1>7, <1>8, <1>9 DEF Next, Step

\* Whatever fails and whoever removes the mirror, a commit that a run takes for
\* one of its branch was on it, and all such commits at one time (lib/git.js:
\* 92-98, 172-188).
THEOREM OnBranchWasSeen == Spec => []OnBranchIsSeen
<1>1. TypeOK /\ Asked /\ Snapshots => OnBranchIsSeen
  <2> SUFFICES ASSUME TypeOK, Asked, Snapshots, NEW i \in Instances
               PROVE  \E h \in seen[i] : \A c \in Commits : info[i][c] = "onBranch" => c \in h
    BY DEF OnBranchIsSeen
  <2>1. CASE fetched[i] = "done"
    BY <2>1 DEF Snapshots, Snapshot
  <2>2. CASE fetched[i] # "done"
    BY <2>2 DEF Asked, Snapshots
  <2> QED
    BY <2>1, <2>2
<1> QED
  BY <1>1, TypeInit, TypeNext, AskedInit, AskedNext, SnapshotsInit, SnapshotsNext, PTL DEF Spec

-----------------------------------------------------------------------------
(* One snapshot for two branches                                           *)

AtMostTwo == \A i, j, k \in Instances : i = j \/ j = k \/ i = k

HoldInv == Clone /\ Gone /\ Holdings

LEMMA HoldInit == Init => HoldInv
BY DEF Init, HoldInv, Clone, Gone, Holdings, Each

\* A step that leaves the answers and the mirror, or only adds to it.
LEMMA HeldStays == ASSUME UNCHANGED info, NEW j \in Instances, NEW h, Held(j, h),
                          mirror' # "none" => /\ mirror # "none" /\ refs'[j] = refs[j]
                                              /\ objects \subseteq objects'
                   PROVE  Held(j, h)'
BY DEF Held

LEMMA HoldNext == ASSUME AtMostTwo
                  PROVE  TypeOK /\ Asked /\ Snapshots /\ HoldInv /\ [Next]_vars => HoldInv'
<1> SUFFICES ASSUME TypeOK, Asked, Snapshots, Clone, Gone, Holdings, [Next]_vars
             PROVE  Clone' /\ Gone' /\ Holdings'
  BY DEF HoldInv
<1>1. ASSUME NEW i \in Instances, StartFetch(i)
      PROVE  Clone' /\ Gone' /\ Holdings'
  <2>1. UNCHANGED <<refs, objects, info, seen>>
    BY <1>1 DEF StartFetch
  <2>2. /\ fetched[i] = "none" /\ fetched'[i] \in {"cloning", "fetching"}
        /\ \A j \in Instances : j # i => fetched'[j] = fetched[j]
        /\ mirror' # "none"
        /\ fetched'[i] = "cloning" => mirror = "none" /\ mirror' = "cloning"
        /\ mirror' = mirror \/ mirror = "none"
    BY <1>1 DEF TypeOK, StartFetch, NeedsFetch
  <2>3. Clone'
    BY <2>2 DEF Clone
  <2>4. Gone'
    BY <2>2 DEF Gone
  <2>5. ASSUME NEW j \in Instances, fetched'[j] = "done"
        PROVE  \E h \in seen'[j] : Held(j, h)'
    <3>1. fetched[j] = "done" /\ mirror # "none"
      BY <2>2, <2>5 DEF Gone
    <3>2. PICK h \in seen[j] : Held(j, h)
      BY <3>1 DEF Holdings
    <3>3. Held(j, h)'
      BY <2>1, <2>2, <3>1, <3>2, HeldStays
    <3> QED
      BY <2>1, <3>2, <3>3
  <2> QED
    BY <2>3, <2>4, <2>5 DEF Holdings
<1>2. ASSUME NEW i \in Instances, EndFetch(i)
      PROVE  Clone' /\ Gone' /\ Holdings'
  <2>1. /\ UNCHANGED <<origin, info, seen>>
        /\ refs'[i] = origin[i] /\ origin[i] \subseteq objects' /\ objects \subseteq objects'
        /\ \A j \in Instances : j # i => refs'[j] = refs[j]
    BY <1>2 DEF TypeOK, EndFetch, Fetched
  <2>2. /\ fetched[i] \in {"cloning", "fetching"} /\ fetched'[i] = "done"
        /\ \A j \in Instances : j # i => fetched'[j] = fetched[j]
        /\ mirror # "none" /\ mirror' # "none"
        /\ mirror' = mirror \/ fetched[i] = "cloning"
    BY <1>2 DEF TypeOK, EndFetch
  <2>3. Clone' /\ Gone'
    BY <2>2 DEF Clone, Gone
  <2>4. ASSUME NEW j \in Instances, fetched'[j] = "done"
        PROVE  \E h \in seen'[j] : Held(j, h)'
    <3>1. CASE j = i
      <4>1. \A c \in Commits : info[i][c] = "none"
        BY <2>2 DEF Asked
      <4>2. origin[i] \in seen[i]
        BY DEF Snapshots
      <4>3. Held(i, origin[i])'
        BY <2>1, <4>1 DEF Held
      <4> QED
        BY <2>1, <3>1, <4>2, <4>3
    <3>2. CASE j # i
      <4>1. PICK h \in seen[j] : Held(j, h)
        BY <2>2, <2>4, <3>2 DEF Holdings
      <4>2. Held(j, h)'
        BY <2>1, <2>2, <3>2, <4>1, HeldStays
      <4> QED
        BY <2>1, <4>1, <4>2
    <3> QED
      BY <3>1, <3>2
  <2> QED
    BY <2>3, <2>4 DEF Holdings
<1>3. ASSUME NEW i \in Instances, FetchFails(i)
      PROVE  Clone' /\ Gone' /\ Holdings'
  <2>1. /\ UNCHANGED <<info, seen>>
        /\ fetched[i] \in {"cloning", "fetching"} /\ fetched'[i] = "failed"
        /\ \A j \in Instances : j # i => fetched'[j] = fetched[j]
    BY <1>3 DEF TypeOK, FetchFails
  <2>2. /\ mirror' = mirror \/ (fetched[i] = "cloning" /\ mirror' \in {"none", "whole"})
        /\ mirror' # "none" => refs' = refs /\ objects \subseteq objects'
    BY <1>3 DEF FetchFails, Content
  <2>3. Clone'
    BY <2>1, <2>2 DEF Clone
  <2>4. Gone'
    BY <2>1, <2>2 DEF Gone, AtMostTwo
  <2>5. ASSUME NEW j \in Instances, fetched'[j] = "done"
        PROVE  \E h \in seen'[j] : Held(j, h)'
    <3>1. fetched[j] = "done"
      BY <2>1, <2>5
    <3>2. PICK h \in seen[j] : Held(j, h)
      BY <3>1 DEF Holdings
    <3>3. mirror' # "none" => mirror # "none"
      BY <2>2 DEF Clone
    <3>4. Held(j, h)'
      BY <2>1, <2>2, <3>2, <3>3, HeldStays
    <3> QED
      BY <2>1, <3>2, <3>4
  <2> QED
    BY <2>3, <2>4, <2>5 DEF Holdings
<1>4. ASSUME NEW i \in Instances, NEW c \in Commits, Ask(i, c)
      PROVE  Clone' /\ Gone' /\ Holdings'
  <2>1. Clone' /\ Gone'
    BY <1>4, AskEffect DEF Clone, Gone
  <2>2. ASSUME NEW j \in Instances, NEW h \in seen[j], Held(j, h)
        PROVE  Held(j, h)'
    <3>1. ASSUME NEW d \in Commits, info'[j][d] \in {"unknown", "elsewhere"}
          PROVE  d \notin h
      <4>1. CASE j = i /\ d = c
        BY <1>4, <2>2, <3>1, <4>1, AskEffect DEF Held
      <4>2. CASE j # i \/ d # c
        BY <1>4, <2>2, <3>1, <4>2, AskEffect DEF Held
      <4> QED
        BY <4>1, <4>2
    <3>2. ASSUME NEW d \in Commits, info'[j][d] = "onBranch"
          PROVE  d \in h
      <4>1. CASE j = i /\ d = c
        BY <1>4, <2>2, <3>2, <4>1, AskEffect DEF Held
      <4>2. CASE j # i \/ d # c
        BY <1>4, <2>2, <3>2, <4>2, AskEffect DEF Held
      <4> QED
        BY <4>1, <4>2
    <3> QED
      BY <1>4, <2>2, <3>1, <3>2, AskEffect DEF Held
  <2> QED
    BY <1>4, <2>1, <2>2, AskEffect DEF Holdings
<1>5. ASSUME NEW i \in Instances, NEW c \in Commits,
             Look(i, c) \/ AddStart(i, c) \/ AddEnd(i, c) \/ Read(i, c)
      PROVE  Clone' /\ Gone' /\ Holdings'
  <2>1. UNCHANGED <<mirror, refs, objects, fetched, info, seen>>
    BY <1>5, TreeEffect
  <2> QED
    BY <2>1 DEF Clone, Gone, Holdings, Held
<1>6. ASSUME NEW keep \in SUBSET Commits, PruneTrees(keep)
      PROVE  Clone' /\ Gone' /\ Holdings'
  BY <1>6 DEF Clone, Gone, Holdings, Held, PruneTrees
<1>7. CASE NextRun \/ Crash
  <2>1. Fresh
    BY <1>7 DEF NextRun, Crash
  <2> QED
    BY <2>1, FreshForgets DEF Clone, Gone, Holdings
<1>8. ASSUME NEW i \in Instances, Push(i)
      PROVE  Clone' /\ Gone' /\ Holdings'
  <2>1. /\ UNCHANGED <<mirror, refs, objects, info, fetched>>
        /\ \A j \in Instances : seen[j] \subseteq seen'[j]
    BY <1>8 DEF TypeOK, Push, cache, memory
  <2> QED
    BY <2>1 DEF Clone, Gone, Holdings, Held
<1>9. CASE UNCHANGED vars
  BY <1>9 DEF Clone, Gone, Holdings, Held, vars, cache, memory
<1> QED
  BY <1>1, <1>2, <1>3, <1>4, <1>5, <1>6, <1>7, <1>8, <1>9 DEF Next, Step

\* With two branches of a repository, all that a run says of a branch, yes or
\* no, it says of one content the branch had during the run (lib/git.js:92-98).
\* The clone that fails takes the mirror from under the other branch, and
\* nobody is left to make it anew.
THEOREM OneSnapshotOfTwo == ASSUME AtMostTwo PROVE Spec => []OneSnapshot
<1>1. TypeOK /\ Asked /\ Snapshots /\ HoldInv => OneSnapshot
  <2> SUFFICES ASSUME TypeOK, Asked, Snapshots, Holdings, NEW i \in Instances
               PROVE  \E h \in seen[i] : \A c \in Commits :
                         /\ info[i][c] = "onBranch" => c \in h
                         /\ info[i][c] \in {"unknown", "elsewhere"} => c \notin h
    BY DEF OneSnapshot, HoldInv
  <2>1. CASE fetched[i] = "done"
    BY <2>1 DEF Holdings, Held
  <2>2. CASE fetched[i] # "done"
    BY <2>2 DEF Asked, Snapshots
  <2> QED
    BY <2>1, <2>2
<1> QED
  BY <1>1, TypeInit, TypeNext, AskedInit, AskedNext, SnapshotsInit, SnapshotsNext,
     HoldInit, HoldNext, PTL DEF Spec

-----------------------------------------------------------------------------
(* Whole trees                                                             *)

LEMMA CheckedInit == Init => Checked
BY DEF Init, Checked, Whole, Adder, Sound, Busy, EachAll

LEMMA CheckedAsk == ASSUME TypeOK, Checked, NEW i \in Instances, NEW c \in Commits, Ask(i, c)
                    PROVE  Checked'
<1>1. /\ UNCHANGED <<checkout, tree>>
      /\ \A j \in Instances : \A d \in Commits : j # i \/ d # c => task'[j][d] = task[j][d]
  BY AskEffect
<1>2. \/ task'[i][c] = task[i][c] /\ UNCHANGED excused
      \/ /\ task[i][c] = "idle" /\ task'[i][c] = "look"
         /\ excused' = IF Shared(i, c) THEN excused \cup {c} ELSE excused
  <2>1. CASE UNCHANGED <<task, excused>>
    BY <2>1
  <2>2. CASE Goto(i, c, "idle", "look") /\ excused' = IF Shared(i, c) THEN excused \cup {c} ELSE excused
    BY <2>2, GotoEffect
  <2> QED
    BY <2>1, <2>2 DEF Ask
<1>3. ASSUME NEW d \in Commits, d # c
      PROVE  Whole(d)'
  BY <1>1, <1>2, <1>3 DEF Checked, Whole, Adder, Sound, Busy
<1>4. Whole(c)'
  <2>1. Whole(c)
    BY DEF Checked
  <2>2. CASE task'[i][c] = task[i][c] /\ UNCHANGED excused
    BY <1>1, <2>1, <2>2 DEF Whole, Adder, Sound, Busy
  <2>3. CASE /\ task[i][c] = "idle" /\ task'[i][c] = "look"
             /\ excused' = IF Shared(i, c) THEN excused \cup {c} ELSE excused
    <3>1. Adder(c)'
      BY <1>1, <2>1, <2>3 DEF Whole, Adder
    <3>2. c \notin excused' => Sound(c)'
      BY <1>1, <2>1, <2>3 DEF Whole, Sound, Shared, Busy
    <3> QED
      BY <1>1, <2>1, <2>3, <3>1, <3>2 DEF Whole
  <2> QED
    BY <1>2, <2>2, <2>3
<1> QED
  BY <1>3, <1>4 DEF Checked

\* A step of one commit leaves the checkouts and the trees of the others.
LEMMA OthersStay == ASSUME TypeOK, Checked, NEW i \in Instances, NEW c \in Commits,
                           Look(i, c) \/ AddStart(i, c) \/ AddEnd(i, c) \/ Read(i, c),
                           NEW d \in Commits, d # c
                    PROVE  Whole(d)'
<1>1. /\ checkout'[d] = checkout[d]
      /\ d \in excused' <=> d \in excused
  BY DEF TypeOK, Look, AddStart, AddEnd, Read, cache
<1>2. \A j \in Instances : task'[j][d] = task[j][d] /\ tree'[j][d] = tree[j][d]
  BY TreeEffect
<1> QED
  BY <1>1, <1>2 DEF Checked, Whole, Adder, Sound, Busy

LEMMA CheckedLook == ASSUME TypeOK, Checked, NEW i \in Instances, NEW c \in Commits, Look(i, c)
                     PROVE  Whole(c)'
<1> DEFINE to == IF checkout[c] \in {"torn", "whole"} THEN "read" ELSE "add"
<1>1. /\ task[i][c] = "look" /\ UNCHANGED tree
      /\ \A j \in Instances : task'[j][c] = IF j = i THEN to ELSE task[j][c]
  <2>1. Goto(i, c, "look", to)
    BY DEF Look
  <2> QED
    BY <2>1, GotoEffect DEF Look
<1>2. /\ checkout[c] \in {"torn", "whole"} => checkout'[c] = checkout[c] /\ excused' = excused
      /\ checkout[c] \notin {"torn", "whole"} =>
            /\ checkout[c] \in {"none", "debris"} /\ checkout'[c] = "none"
            /\ c \notin excused' => c \notin excused \/ (~Shared(i, c) /\ ~Spoilt(c))
            /\ c \notin excused => c \notin excused'
  BY <1>1 DEF TypeOK, Look, Cleared
<1>3. Whole(c)
  BY DEF Checked
<1>4. Adder(c)'
  BY <1>1, <1>2, <1>3 DEF Whole, Adder
<1>5. ASSUME c \notin excused'
      PROVE  Sound(c)'
  <2>1. CASE checkout[c] \in {"torn", "whole"}
    BY <1>1, <1>2, <1>3, <1>5, <2>1 DEF Whole, Sound, Busy
  <2>2. CASE checkout[c] \notin {"torn", "whole"}
    BY <1>1, <1>2, <1>3, <1>5, <2>2 DEF Whole, Sound, Shared, Busy
  <2> QED
    BY <2>1, <2>2
<1>6. ASSUME NEW j \in Instances, tree'[j][c] \in {"partial", "refused"}
      PROVE  c \in excused'
  BY <1>1, <1>2, <1>3, <1>6 DEF Whole, Spoilt
<1> QED
  BY <1>1, <1>2, <1>3, <1>4, <1>5, <1>6 DEF Whole

LEMMA CheckedAddStart == ASSUME TypeOK, Checked, NEW i \in Instances, NEW c \in Commits,
                                AddStart(i, c)
                         PROVE  Whole(c)'
<1>1. Whole(c) /\ UNCHANGED excused
  BY DEF Checked, AddStart
<1>2. CASE checkout[c] = "none" /\ Goto(i, c, "add", "adding") /\ UNCHANGED tree
  <2>1. /\ task[i][c] = "add" /\ checkout'[c] = "torn"
        /\ \A j \in Instances : task'[j][c] = IF j = i THEN "adding" ELSE task[j][c]
    <3>1. checkout' = [checkout EXCEPT ![c] = "torn"]
      BY <1>2, GotoEffect, SettleEffect DEF AddStart
    <3> QED
      BY <1>2, <3>1, GotoEffect DEF TypeOK
  <2>2. Adder(c)'
    BY <1>1, <1>2, <2>1 DEF Whole, Adder
  <2>3. c \notin excused' => Sound(c)'
    BY <1>1, <1>2, <2>1 DEF Whole, Sound, Busy
  <2> QED
    BY <1>1, <1>2, <2>1, <2>2, <2>3 DEF Whole
<1>3. CASE /\ checkout[c] # "none" \/ mirror = "none"
           /\ Settle(i, c, "add", IF mirror = "none" THEN "failed" ELSE "refused")
           /\ UNCHANGED checkout
  <2>1. /\ task[i][c] = "add"
        /\ \A j \in Instances : /\ task'[j][c] = IF j = i THEN "settled" ELSE task[j][c]
                                /\ j # i => tree'[j][c] = tree[j][c]
        /\ tree'[i][c] = IF mirror = "none" THEN "failed" ELSE "refused"
    BY <1>3, SettleEffect
  <2>2. Adder(c)'
    BY <1>1, <1>3, <2>1 DEF Whole, Adder
  <2>3. c \notin excused' => Sound(c)'
    BY <1>1, <1>3, <2>1 DEF Whole, Sound, Busy
  <2>4. mirror # "none" => c \in excused
    BY <1>1, <1>3, <2>1 DEF Whole, Sound
  <2> QED
    BY <1>1, <1>3, <2>1, <2>2, <2>3, <2>4 DEF Whole
<1> QED
  BY <1>2, <1>3 DEF AddStart

LEMMA CheckedAddEnd == ASSUME TypeOK, Checked, NEW i \in Instances, NEW c \in Commits,
                              AddEnd(i, c)
                       PROVE  Whole(c)'
<1>1. Whole(c) /\ UNCHANGED excused
  BY DEF Checked, AddEnd
<1>2. CASE /\ Goto(i, c, "adding", "read") /\ UNCHANGED tree
           /\ checkout' = [checkout EXCEPT ![c] = "whole"]
  <2>1. /\ task[i][c] = "adding" /\ checkout'[c] = "whole"
        /\ \A j \in Instances : task'[j][c] = IF j = i THEN "read" ELSE task[j][c]
    BY <1>2, GotoEffect DEF TypeOK
  <2>2. Adder(c)'
    BY <1>1, <2>1 DEF Whole, Adder
  <2>3. c \notin excused' => Sound(c)'
    BY <1>1, <2>1 DEF Whole, Sound, Busy
  <2> QED
    BY <1>1, <1>2, <2>1, <2>2, <2>3 DEF Whole
<1>3. CASE /\ Settle(i, c, "adding", "failed")
           /\ checkout' = [checkout EXCEPT ![c] = "none"]
  <2>1. /\ task[i][c] = "adding" /\ checkout'[c] = "none"
        /\ \A j \in Instances : /\ task'[j][c] = IF j = i THEN "settled" ELSE task[j][c]
                                /\ j # i => tree'[j][c] = tree[j][c]
        /\ tree'[i][c] = "failed"
    BY <1>3, SettleEffect DEF TypeOK
  <2>2. Adder(c)'
    BY <1>1, <2>1 DEF Whole, Adder
  <2>3. c \notin excused' => Sound(c)'
    BY <1>1, <2>1 DEF Whole, Sound, Busy
  <2>4. \A j \in Instances : tree'[j][c] # "whole"
    BY <1>1, <2>1 DEF Whole, Adder
  <2> QED
    BY <1>1, <1>3, <2>1, <2>2, <2>3, <2>4 DEF Whole
<1> QED
  BY <1>2, <1>3 DEF AddEnd

LEMMA CheckedRead == ASSUME TypeOK, Checked, NEW i \in Instances, NEW c \in Commits, Read(i, c)
                     PROVE  Whole(c)'
<1>1. Whole(c) /\ UNCHANGED <<checkout, excused>>
  BY DEF Checked, Read, cache
<1>2. /\ task[i][c] = "read"
      /\ \A j \in Instances : /\ task'[j][c] = IF j = i THEN "settled" ELSE task[j][c]
                              /\ j # i => tree'[j][c] = tree[j][c]
      /\ tree'[i][c] = Tree(c)
  <2>1. Settle(i, c, "read", Tree(c))
    BY DEF Read
  <2> QED
    BY <2>1, SettleEffect
<1>3. Tree(c) = "whole" => checkout[c] = "whole"
  BY Zenon DEF Tree
<1>4. Tree(c) \in {"partial", "refused"} => checkout[c] # "whole"
  BY Zenon DEF Tree
<1>5. Adder(c)'
  BY <1>1, <1>2 DEF Whole, Adder
<1>6. c \notin excused' => Sound(c)'
  BY <1>1, <1>2 DEF Whole, Sound, Busy
<1>7. Tree(c) \in {"partial", "refused"} => c \in excused
  BY <1>1, <1>2, <1>4 DEF Whole, Sound
<1> QED
  BY <1>1, <1>2, <1>3, <1>5, <1>6, <1>7 DEF Whole

LEMMA CheckedPrune == ASSUME TypeOK, Checked, NEW keep \in SUBSET Commits, PruneTrees(keep),
                             NEW c \in Commits
                      PROVE  Whole(c)'
<1>1. Whole(c) /\ \A i \in Instances : task[i][c] \in {"idle", "settled"}
  BY DEF Checked, PruneTrees, Quiet, Busy
<1>2. CASE c \in keep
  <2>1. /\ checkout'[c] = checkout[c]
        /\ c \in excused' <=> c \in excused
        /\ \A i \in Instances : task'[i][c] = task[i][c] /\ tree'[i][c] = tree[i][c]
    BY <1>2 DEF PruneTrees, Forgotten
  <2> QED
    BY <1>1, <2>1 DEF Whole, Adder, Sound, Busy
<1>3. CASE c \notin keep
  <2>1. /\ checkout'[c] = "none"
        /\ \A i \in Instances : task'[i][c] = "idle" /\ tree'[i][c] = "none"
    BY <1>1, <1>3 DEF PruneTrees, Forgotten, Whole
  <2> QED
    BY <2>1 DEF Whole, Adder, Sound, Busy
<1> QED
  BY <1>2, <1>3

LEMMA CheckedRestart == ASSUME TypeOK, Checked, NextRun \/ Crash, NEW c \in Commits
                        PROVE  Whole(c)'
<1>1. \A i \in Instances : task'[i][c] = "idle" /\ tree'[i][c] = "none"
  <2>1. Fresh
    BY DEF NextRun, Crash
  <2> QED
    BY <2>1, FreshForgets
<1>2. Whole(c)
  BY DEF Checked
<1>3. ASSUME c \notin excused'
      PROVE  /\ c \notin excused /\ checkout'[c] = checkout[c]
             /\ \A i \in Instances : task[i][c] # "adding"
  <2>1. CASE NextRun
    BY <1>3, <2>1 DEF NextRun, Quiet, Busy, cache
  <2>2. CASE Crash
    BY <1>3, <2>2 DEF TypeOK, Crash
  <2> QED
    BY <2>1, <2>2
<1> QED
  BY <1>1, <1>2, <1>3 DEF Whole, Adder, Sound, Busy

LEMMA CheckedNext == TypeOK /\ Checked /\ [Next]_vars => Checked'
<1> SUFFICES ASSUME TypeOK, Checked, [Next]_vars
             PROVE  Checked'
  OBVIOUS
<1>1. ASSUME NEW i \in Instances, NEW c \in Commits, Ask(i, c)
      PROVE  Checked'
  BY <1>1, CheckedAsk
<1>2. ASSUME NEW i \in Instances, NEW c \in Commits,
             Look(i, c) \/ AddStart(i, c) \/ AddEnd(i, c) \/ Read(i, c)
      PROVE  Checked'
  <2>1. Whole(c)'
    BY <1>2, CheckedLook, CheckedAddStart, CheckedAddEnd, CheckedRead
  <2>2. \A d \in Commits : d # c => Whole(d)'
    BY <1>2, OthersStay
  <2> QED
    BY <2>1, <2>2 DEF Checked
<1>3. ASSUME NEW keep \in SUBSET Commits, PruneTrees(keep)
      PROVE  Checked'
  BY <1>3, CheckedPrune DEF Checked
<1>4. CASE NextRun \/ Crash
  BY <1>4, CheckedRestart DEF Checked
<1>5. ASSUME NEW i \in Instances, StartFetch(i) \/ EndFetch(i) \/ FetchFails(i) \/ Push(i)
      PROVE  Checked'
  <2>1. UNCHANGED <<checkout, task, tree, excused>>
    BY <1>5 DEF StartFetch, EndFetch, FetchFails, Push, cache, memory
  <2> QED
    BY <2>1 DEF Checked, Whole, Adder, Sound, Busy
<1>6. CASE UNCHANGED vars
  BY <1>6 DEF Checked, Whole, Adder, Sound, Busy, vars, cache, memory
<1> QED
  BY <1>1, <1>2, <1>3, <1>4, <1>5, <1>6 DEF Next, Step

\* However many branches share the checkouts, and whatever was killed in
\* between, a tree that is remembered has every file of its commit, unless a
\* kill or two users at a time broke the checkout (lib/git.js:209-214).
THEOREM TreesStayWhole == Spec => []TreesAreWhole
<1>1. Checked => TreesAreWhole
  BY DEF Checked, Whole, TreesAreWhole
<1> QED
  BY <1>1, TypeInit, TypeNext, CheckedInit, CheckedNext, PTL DEF Spec

=============================================================================
