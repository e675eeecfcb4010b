----------------------------- MODULE BuildRuns -----------------------------
(***************************************************************************)
(* Reproducing builds: lib/build.js (BuildReference, BuildAccount, run) as *)
(* the appraisals of one run, and of the runs after a crash, use it.       *)
(*                                                                         *)
(* A build is one service's build of one commit.  Builds have a cache key  *)
(* (the commit and everything of the configuration that can change the     *)
(* output), so two services with the same build of the same commit share   *)
(* one.  Without a build account a build runs in the cache's directory of  *)
(* its key; with one, in a temporary directory handed to the account and   *)
(* taken back.  The account is one for all builds of the machine.          *)
(***************************************************************************)
EXTENDS Naturals, FiniteSets

CONSTANTS
    Builds,         \* the builds that are asked for
    Keys,           \* cache keys
    KeyOf,          \* BuildReference.key() of each build
    Account,        \* whether builds run as an account of their own
    Parallels,      \* how many may be asked for at a time: 1 in the registry
    LeavesBehind,   \* whether commands leave processes of another session
    MayFail,        \* whether stopping the account or a change of owner may
                    \* fail, and a result may not fit on the disk
    MaxCrashes      \* bound: crashes of the verifier

ASSUME KeyAssumption == KeyOf \in [Builds -> Keys]
ASSUME SettingAssumption == {Account, LeavesBehind, MayFail} \subseteq BOOLEAN
ASSUME ParallelAssumption == Parallels \subseteq Nat \ {0} /\ MaxCrashes \in Nat

Dirs == Builds \cup Keys

\* Each build's directory: mkdtemp's with an account, else the key's.
DirOf(b) == IF Account THEN b ELSE KeyOf[b]

Phases == {"idle", "clear", "clone", "enter", "handOver", "start", "running", "leave",
           "takeBack", "sweep", "hash", "write", "unfail", "fail", "cleanup", "done"}
\* A directory: absent, the commit's files, those and the command's whole
\* output, or anything else.
Trees    == {"none", "fresh", "built", "partial"}
Cached   == {"none", "torn", "good", "bad"}
Reasons  == {"none", "checkout", "account", "command", "killed", "hash", "write"}
Outcomes == {"none", "value", "failed"}

VARIABLES
    parallel,    \* how many are asked for at a time, chosen once
    phase,       \* where each build is in _build()
    tree,        \* the content of each directory
    owner,       \* who owns its files
    alive,       \* builds that have processes
    reason,      \* the error a build ends with
    handedOver, takenBack,
    value,       \* what was hashed
    cache,       \* <key>.json
    failedFile,  \* <key>.failed.json: the error it holds
    outcome,     \* what outputs() settled with, kept for the run
    crashes,
    ranIn        \* history: the directory's content when the command started

job   == <<phase, reason, handedOver, takenBack, value, outcome, ranIn>>
disk  == <<tree, owner, cache, failedFile>>
vars  == <<parallel, job, disk, alive, crashes>>

TypeOK ==
    /\ parallel \in Parallels
    /\ phase \in [Builds -> Phases] /\ reason \in [Builds -> Reasons]
    /\ handedOver \in [Builds -> BOOLEAN] /\ takenBack \in [Builds -> BOOLEAN]
    /\ value \in [Builds -> {"none", "good", "bad"}]
    /\ outcome \in [Builds -> Outcomes] /\ ranIn \in [Builds -> Trees]
    /\ tree \in [Dirs -> Trees] /\ owner \in [Dirs -> {"verifier", "account"}]
    /\ cache \in [Keys -> Cached] /\ failedFile \in [Keys -> Reasons]
    /\ alive \in SUBSET Builds /\ crashes \in 0 .. MaxCrashes

All(x) == [b \in Builds |-> x]

Init ==
    /\ parallel \in Parallels
    /\ phase = All("idle") /\ reason = All("none") /\ value = All("none")
    /\ handedOver = All(FALSE) /\ takenBack = All(FALSE)
    /\ outcome = All("none") /\ ranIn = All("none")
    /\ tree = [d \in Dirs |-> "none"] /\ owner = [d \in Dirs |-> "verifier"]
    /\ cache = [k \in Keys |-> "none"] /\ failedFile = [k \in Keys |-> "none"]
    /\ alive = {} /\ crashes = 0

-----------------------------------------------------------------------------
Goto(b, from, to) == phase[b] = from /\ phase' = [phase EXCEPT ![b] = to]

\* Mutant: nothing waits for its turn.
BusyNone == {}

Busy == {b \in Builds : phase[b] \notin {"idle", "done"}}

\* outputs(), and _build() until it needs a directory: a readable cached
\* result is the result, a torn one is none.
Begin(b) ==
    /\ Cardinality(Busy) < parallel
    /\ \/ /\ cache[KeyOf[b]] \in {"good", "bad"} /\ Goto(b, "idle", "done")
          /\ outcome' = [outcome EXCEPT ![b] = "value"]
       \/ /\ cache[KeyOf[b]] \in {"none", "torn"} /\ Goto(b, "idle", "clear")
          /\ UNCHANGED outcome
    /\ UNCHANGED <<reason, handedOver, takenBack, value, ranIn, disk, alive, crashes>>

\* GitReference.checkout(): the directory is removed, then cloned into.
Clear(b) ==
    /\ Goto(b, "clear", "clone")
    /\ tree' = [tree EXCEPT ![DirOf(b)] = "none"]
    /\ owner' = [owner EXCEPT ![DirOf(b)] = "verifier"]
    /\ UNCHANGED <<reason, handedOver, takenBack, value, outcome, ranIn, cache,
                   failedFile, alive, crashes>>

Clone(b) ==
    /\ tree[DirOf(b)] = "none"
    /\ Goto(b, "clone", IF Account THEN "enter" ELSE "start")
    /\ tree' = [tree EXCEPT ![DirOf(b)] = "fresh"]
    /\ UNCHANGED <<reason, handedOver, takenBack, value, outcome, ranIn, owner, cache,
                   failedFile, alive, crashes>>

Fails(b, from, to, why) ==
    /\ Goto(b, from, to)
    /\ reason' = [reason EXCEPT ![b] = why]

\* The repository cannot be read, or the directory is not empty any more.
CloneFails(b) ==
    /\ Fails(b, "clone", "fail", "checkout")
    /\ UNCHANGED <<handedOver, takenBack, value, outcome, ranIn, disk, alive, crashes>>

\* Mutant: no process of the account is signalled.
StoppedNone == alive

\* BuildAccount.stop(): every process of the account, whoever started it.
Stopped == {}

\* BuildAccount.enter(): stop the account, hand the directory over.
Enter(b) ==
    /\ handedOver' = [handedOver EXCEPT ![b] = TRUE]
    /\ \/ Goto(b, "enter", "handOver") /\ alive' = Stopped /\ UNCHANGED reason
       \/ MayFail /\ Fails(b, "enter", "leave", "account") /\ UNCHANGED alive
    /\ UNCHANGED <<takenBack, value, outcome, ranIn, disk, crashes>>

\* A change of owner that fails may have been made in part.
HandOver(b) ==
    /\ owner' = [owner EXCEPT ![DirOf(b)] = "account"]
    /\ \/ Goto(b, "handOver", "start") /\ UNCHANGED reason
       \/ MayFail /\ Fails(b, "handOver", "leave", "account")
    /\ UNCHANGED <<handedOver, takenBack, value, outcome, ranIn, tree, cache,
                   failedFile, alive, crashes>>

-----------------------------------------------------------------------------
(* run(): the build command                                                *)

Start(b) ==
    /\ Goto(b, "start", "running")
    /\ alive' = alive \cup {b}
    /\ ranIn' = [ranIn EXCEPT ![b] = tree[DirOf(b)]]
    /\ UNCHANGED <<reason, handedOver, takenBack, value, outcome, disk, crashes>>

\* Mutant: the outputs are hashed while the account still has them.
AfterRunHash == "hash"

AfterRun == IF Account THEN "leave" ELSE "hash"

\* The shell's process group is killed when the command is over; what left
\* the group stays.
GroupKilled(b) == IF LeavesBehind THEN alive ELSE alive \ {b}

\* Exit status 0: the output is whole if the checkout was and stayed so.
Succeeds(b) ==
    /\ b \in alive /\ tree[DirOf(b)] # "none"
    /\ Goto(b, "running", AfterRun)
    /\ tree' = [tree EXCEPT ![DirOf(b)] = IF @ = "fresh" /\ ranIn[b] = "fresh" THEN "built" ELSE "partial"]
    /\ alive' = GroupKilled(b)
    /\ UNCHANGED <<reason, handedOver, takenBack, value, outcome, ranIn, owner, cache,
                   failedFile, crashes>>

\* Another exit status, or the timeout.
CommandFails(b) ==
    /\ b \in alive
    /\ Fails(b, "running", IF Account THEN "leave" ELSE "fail", "command")
    /\ alive' = GroupKilled(b)
    /\ UNCHANGED <<handedOver, takenBack, value, outcome, ranIn, disk, crashes>>

\* Mutant: an exit without a status is taken for no exit.
KilledIgnored(b) == phase[b] = "running" /\ b \notin alive /\ UNCHANGED vars

\* Its processes were killed: the shell exits, with no status of its own.
Killed(b) ==
    /\ b \notin alive
    /\ Fails(b, "running", IF Account THEN "leave" ELSE "fail", "killed")
    /\ UNCHANGED <<handedOver, takenBack, value, outcome, ranIn, disk, alive, crashes>>

\* What a command left behind writes where it may.  (What it writes before
\* leave() stops it counts as the command's output.)
Meddle(b) ==
    /\ b \in alive /\ phase[b] \notin {"running", "leave"} /\ tree[DirOf(b)] # "none"
    /\ owner[DirOf(b)] = (IF Account THEN "account" ELSE "verifier")
    /\ tree' = [tree EXCEPT ![DirOf(b)] = "partial"]
    /\ UNCHANGED <<parallel, job, owner, cache, failedFile, alive, crashes>>

-----------------------------------------------------------------------------
(* BuildAccount.leave(): stop, take back, sweep                            *)

Leave(b) ==
    /\ \/ Goto(b, "leave", "takeBack") /\ alive' = Stopped /\ UNCHANGED reason
       \/ MayFail /\ Fails(b, "leave", "fail", "account") /\ UNCHANGED alive
    /\ UNCHANGED <<handedOver, takenBack, value, outcome, ranIn, disk, crashes>>

TakeBack(b) ==
    /\ \/ /\ Goto(b, "takeBack", "sweep") /\ UNCHANGED reason
          /\ owner' = [owner EXCEPT ![DirOf(b)] = "verifier"]
       \/ MayFail /\ Fails(b, "takeBack", "fail", "account") /\ UNCHANGED owner
    /\ UNCHANGED <<handedOver, takenBack, value, outcome, ranIn, tree, cache,
                   failedFile, alive, crashes>>

\* The account's files in shared temporary directories are deleted: those of
\* every directory it owns, because work directories are there too.
Sweep(b) ==
    /\ Goto(b, "sweep", IF reason[b] = "none" THEN "hash" ELSE "fail")
    /\ tree' = [d \in Dirs |-> IF owner[d] = "account" /\ tree[d] # "none" THEN "partial" ELSE tree[d]]
    /\ takenBack' = [takenBack EXCEPT ![b] = TRUE]
    /\ UNCHANGED <<reason, handedOver, value, outcome, ranIn, owner, cache, failedFile,
                   alive, crashes>>

-----------------------------------------------------------------------------
(* The result                                                              *)

\* walkTree() and the hashes of the files that match build.outputs.
Hash(b) ==
    /\ \/ /\ tree[DirOf(b)] # "none" /\ Goto(b, "hash", "write")
          /\ value' = [value EXCEPT ![b] = IF tree[DirOf(b)] = "built" THEN "good" ELSE "bad"]
          /\ UNCHANGED reason
       \/ tree[DirOf(b)] = "none" /\ Fails(b, "hash", "fail", "hash") /\ UNCHANGED value
    /\ UNCHANGED <<handedOver, takenBack, outcome, ranIn, disk, alive, crashes>>

Write(b) ==
    /\ \/ /\ Goto(b, "write", "unfail") /\ UNCHANGED reason
          /\ cache' = [cache EXCEPT ![KeyOf[b]] = value[b]]
       \/ /\ MayFail /\ Fails(b, "write", "fail", "write")
          /\ cache' = [cache EXCEPT ![KeyOf[b]] = "torn"]
    /\ UNCHANGED <<handedOver, takenBack, value, outcome, ranIn, tree, owner,
                   failedFile, alive, crashes>>

\* The failure of an earlier attempt is forgotten.
Unfail(b) ==
    /\ Goto(b, "unfail", "cleanup")
    /\ failedFile' = [failedFile EXCEPT ![KeyOf[b]] = "none"]
    /\ UNCHANGED <<reason, handedOver, takenBack, value, outcome, ranIn, tree, owner,
                   cache, alive, crashes>>

\* Mutant: the directory is always removed.
MayRemoveAlways(b) == TRUE

MayRemove(b) == ~handedOver[b] \/ takenBack[b]

\* Mutant: the reason is returned for the outcome.
OutcomeReason(b) == reason[b]

Outcome(b) == IF reason[b] = "none" THEN "value" ELSE "failed"

\* The failure is written; a directory that may still be the account's stays.
Fail(b) ==
    /\ Goto(b, "fail", IF MayRemove(b) THEN "cleanup" ELSE "done")
    /\ failedFile' = [failedFile EXCEPT ![KeyOf[b]] = reason[b]]
    /\ outcome' = [outcome EXCEPT ![b] = IF MayRemove(b) THEN @ ELSE "failed"]
    /\ UNCHANGED <<reason, handedOver, takenBack, value, ranIn, tree, owner, cache,
                   alive, crashes>>

\* removeCheckout(): an error of its own replaces the result.
Cleanup(b) ==
    /\ Goto(b, "cleanup", "done")
    /\ tree' = [tree EXCEPT ![DirOf(b)] = "none"]
    /\ outcome' \in {[outcome EXCEPT ![b] = o] : o \in {Outcome(b), "failed"}}
    /\ UNCHANGED <<reason, handedOver, takenBack, value, ranIn, owner, cache, failedFile,
                   alive, crashes>>

\* The verifier dies: a file being written may be torn, commands go on, and
\* a later run starts from the files.
Crash ==
    /\ crashes < MaxCrashes /\ crashes' = crashes + 1
    /\ Busy # {}
    /\ cache' \in {[k \in Keys |-> IF k \in torn THEN "torn" ELSE cache[k]] :
                   torn \in SUBSET {KeyOf[b] : b \in {c \in Builds : phase[c] = "write"}}}
    /\ phase' = All("idle") /\ reason' = All("none") /\ value' = All("none")
    /\ handedOver' = All(FALSE) /\ takenBack' = All(FALSE)
    /\ outcome' = All("none") /\ ranIn' = All("none")
    /\ UNCHANGED <<parallel, tree, owner, failedFile, alive>>

Step(b) ==
    /\ UNCHANGED parallel
    /\ \/ Begin(b) \/ Clear(b) \/ Clone(b) \/ CloneFails(b) \/ Enter(b) \/ HandOver(b)
       \/ Start(b) \/ Succeeds(b) \/ CommandFails(b) \/ Killed(b)
       \/ Leave(b) \/ TakeBack(b) \/ Sweep(b)
       \/ Hash(b) \/ Write(b) \/ Unfail(b) \/ Fail(b) \/ Cleanup(b)

Next == Crash \/ \E b \in Builds : Step(b) \/ Meddle(b)

Spec == Init /\ [][Next]_vars

\* Commands have a timeout, and nothing else waits for another build.
FairSpec == Spec /\ \A b \in Builds : WF_vars(Step(b))

-----------------------------------------------------------------------------
(* Properties                                                              *)

\* What the cache holds for a key is the whole output of its command in a
\* clean checkout, and a build that gave a value left it there, whatever was
\* killed, left behind or interrupted (lib/build.js:531-541; a later audit
\* trusts it without building).
CachedIsReproduced ==
    /\ \A k \in Keys : cache[k] # "bad"
    /\ \A b \in Builds : outcome[b] = "value" => cache[KeyOf[b]] = "good"

\* A command fails because of what it does, or of
\* its timeout: none is ended by another one's start or end (docs/verifier.md: the account's
\* processes are killed before a build runs and when that build ends).
FailureIsReal ==
    \A b \in Builds, k \in Keys : reason[b] # "killed" /\ failedFile[k] # "killed"

\* The command runs in a clean checkout of the commit (docs/configuration.md:303).
RunsInCleanCheckout ==
    \A b \in Builds : ranIn[b] \in {"none", "fresh"} /\ (phase[b] = "running" => ranIn[b] = "fresh")

\* Builds that take turns, as the registry's do, do not tell on each other,
\* whatever they leave running, fail of, or are interrupted by: what is cached
\* is reproduced, what is remembered as a failure is the command's own.
TurnsAreEnough == parallel = 1 => CachedIsReproduced /\ FailureIsReal /\ RunsInCleanCheckout

\* Nothing of the build runs, or owns a file, when the outputs are hashed
\* (lib/build.js:523-524).
HashedUndisturbed ==
    \A b \in Builds : Account /\ phase[b] \in {"hash", "write"} =>
        b \notin alive /\ owner[DirOf(b)] = "verifier"

\* Nothing is removed as the verifier that the account may own or whose
\* processes may still swap paths (lib/build.js:479-481).
RemovesOnlyItsOwn ==
    \A b \in Builds : Account /\ phase[b] = "cleanup" =>
        owner[DirOf(b)] = "verifier" /\ (handedOver[b] => b \notin alive)

\* With an account, nothing of a build is still there beside the verifier when
\* it hashes and when it removes, even if other builds run at the same time.
VerifierIsAlone == HashedUndisturbed /\ RemovesOnlyItsOwn

\* Every build that is asked for settles, though each waits for its turn and
\* a crash starts them over.
BuildsSettle == <>(\A b \in Builds : phase[b] = "done")
=============================================================================
