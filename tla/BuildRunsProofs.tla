-------------------------- MODULE BuildRunsProofs --------------------------
(***************************************************************************)
(* Proofs about BuildRuns, for any builds, keys, number of crashes and     *)
(* whatever fails or is left behind: its type invariant, that with a build *)
(* account nothing of a build is beside the verifier when it hashes and    *)
(* removes, that builds that take turns do not tell on each other, and     *)
(* that every step of a build takes it on.                                 *)
(***************************************************************************)
EXTENDS BuildRuns, FiniteSetTheorems, TLAPS

-----------------------------------------------------------------------------
(* The invariants                                                          *)

\* With an account: what is handed over is the account's until it is taken
\* back and the account is stopped.
AloneAt(b) ==
    /\ phase[b] \in {"handOver", "start", "running", "leave", "takeBack", "sweep"} => handedOver[b]
    /\ phase[b] \in {"clone", "enter", "fail", "cleanup"} /\ ~handedOver[b] => owner[b] = "verifier"
    /\ phase[b] \in {"handOver", "start", "takeBack", "sweep"} => b \notin alive
    /\ phase[b] = "sweep" => owner[b] = "verifier"
    /\ phase[b] \in {"hash", "write", "unfail"} => takenBack[b]
    /\ phase[b] = "cleanup" => ~handedOver[b] \/ takenBack[b]
    /\ takenBack[b] => /\ phase[b] \in {"hash", "write", "unfail", "fail", "cleanup", "done"}
                       /\ owner[b] = "verifier" /\ b \notin alive

Alone == \A b \in Builds : AloneAt(b)

\* One build at a time.
Turns == IsFiniteSet(Busy) /\ \A b, c \in Busy : b = c

Unwritten == {"clear", "clone", "enter", "handOver", "start", "running", "leave",
              "takeBack", "sweep", "hash", "write"}

\* A build that takes its turn: its checkout is clean until its command runs,
\* its command ends by itself, and its output is whole until it is hashed.
TurnAt(b) ==
    /\ reason[b] # "killed" /\ ranIn[b] \in {"none", "fresh"}
    /\ outcome[b] = "value" => cache[KeyOf[b]] = "good"
    /\ phase[b] \in Unwritten => cache[KeyOf[b]] \in {"none", "torn"}
    /\ phase[b] \in {"clone", "enter", "handOver"} => owner[b] = "verifier"
    /\ phase[b] \in {"enter", "handOver", "start", "running"} => tree[b] = "fresh"
    /\ phase[b] = "running" => b \in alive /\ ranIn[b] = "fresh"
    /\ phase[b] \in {"leave", "takeBack", "sweep"} /\ reason[b] = "none" => tree[b] = "built"
    /\ phase[b] = "hash" => tree[b] = "built"
    /\ phase[b] \in {"hash", "write", "unfail"} => reason[b] = "none"
    /\ phase[b] = "write" => value[b] = "good"
    /\ phase[b] \in {"unfail", "cleanup"} /\ reason[b] = "none" => cache[KeyOf[b]] = "good"
    /\ phase[b] = "fail" => reason[b] # "none"

Turn ==
    /\ \A k \in Keys : cache[k] # "bad" /\ failedFile[k] # "killed"
    /\ \A b \in Builds : TurnAt(b)

TurnInv == parallel = 1 => Turns /\ Turn
-----------------------------------------------------------------------------
(* Typing                                                                  *)

LEMMA PlaceType ==
  ASSUME NEW b \in Builds
  PROVE  DirOf(b) \in Dirs /\ KeyOf[b] \in Keys /\ (Account => DirOf(b) = b)
  BY KeyAssumption DEF DirOf, Dirs

LEMMA TypeInit == Init => TypeOK
  BY ParallelAssumption DEF Init, TypeOK, All, Phases, Reasons, Outcomes, Trees, Cached

LEMMA TypeStep ==
  ASSUME TypeOK, NEW b \in Builds, Step(b)
  PROVE  TypeOK'
  <1>0. DirOf(b) \in Dirs /\ KeyOf[b] \in Keys
    BY PlaceType
  <1> USE <1>0 DEF Goto, Fails, Phases, disk
  <1>1. CASE Begin(b)
    BY <1>1 DEF Step, Begin, TypeOK, Outcomes
  <1>2. CASE Clear(b)
    BY <1>2 DEF Step, Clear, TypeOK, Trees
  <1>3. CASE Clone(b)
    BY <1>3 DEF Step, Clone, TypeOK, Trees
  <1>4. CASE CloneFails(b)
    BY <1>4 DEF Step, CloneFails, TypeOK, Reasons
  <1>5. CASE Enter(b)
    BY <1>5 DEF Step, Enter, Stopped, TypeOK, Reasons
  <1>6. CASE HandOver(b)
    BY <1>6 DEF Step, HandOver, TypeOK, Reasons
  <1>7. CASE Start(b)
    <2>1. tree[DirOf(b)] \in Trees
      BY DEF TypeOK
    <2> QED
      BY <1>7, <2>1 DEF Step, Start, TypeOK
  <1>8. CASE Succeeds(b)
    <2>1. phase' \in [Builds -> Phases]
      BY <1>8 DEF Succeeds, AfterRun, TypeOK
    <2>2. tree' \in [Dirs -> Trees]
      BY <1>8 DEF Succeeds, TypeOK, Trees
    <2>3. alive' \in SUBSET Builds
      BY <1>8 DEF Succeeds, GroupKilled, TypeOK
    <2> QED
      BY <1>8, <2>1, <2>2, <2>3 DEF Step, Succeeds, TypeOK
  <1>9. CASE CommandFails(b) \/ Killed(b)
    BY <1>9 DEF Step, CommandFails, Killed, GroupKilled, TypeOK, Reasons
  <1>10. CASE Leave(b)
    BY <1>10 DEF Step, Leave, Stopped, TypeOK, Reasons
  <1>11. CASE TakeBack(b)
    BY <1>11 DEF Step, TakeBack, TypeOK, Reasons
  <1>12. CASE Sweep(b)
    <2>1. tree' \in [Dirs -> Trees]
      BY <1>12 DEF Sweep, TypeOK, Trees
    <2> QED
      BY <1>12, <2>1 DEF Step, Sweep, TypeOK
  <1>13. CASE Hash(b)
    BY <1>13 DEF Step, Hash, TypeOK, Reasons
  <1>14. CASE Write(b)
    <2>1. value[b] \in Cached /\ "torn" \in Cached
      BY DEF TypeOK, Cached
    <2> QED
      BY <1>14, <2>1 DEF Step, Write, TypeOK, Reasons
  <1>15. CASE Unfail(b)
    BY <1>15 DEF Step, Unfail, TypeOK, Reasons
  <1>16. CASE Fail(b)
    <2>1. reason[b] \in Reasons
      BY DEF TypeOK
    <2> QED
      BY <1>16, <2>1 DEF Step, Fail, TypeOK, Outcomes
  <1>17. CASE Cleanup(b)
    BY <1>17 DEF Step, Cleanup, Outcome, TypeOK, Trees, Outcomes
  <1> QED
    BY <1>1, <1>2, <1>3, <1>4, <1>5, <1>6, <1>7, <1>8, <1>9, <1>10, <1>11, <1>12, <1>13, <1>14,
       <1>15, <1>16, <1>17 DEF Step

LEMMA TypeNext == TypeOK /\ [Next]_vars => TypeOK'
  <1> SUFFICES ASSUME TypeOK, [Next]_vars PROVE TypeOK'
    OBVIOUS
  <1>1. CASE Crash
    <2>1. crashes' \in 0 .. MaxCrashes
      BY <1>1, ParallelAssumption DEF Crash, TypeOK
    <2>2. cache' \in [Keys -> Cached]
      <3>1. PICK torn : cache' = [k \in Keys |-> IF k \in torn THEN "torn" ELSE cache[k]]
        BY <1>1 DEF Crash
      <3> QED
        BY <3>1 DEF TypeOK, Cached
    <2> QED
      BY <1>1, <2>1, <2>2 DEF Crash, TypeOK, All, Phases, Reasons, Outcomes, Trees
  <1>2. ASSUME NEW b \in Builds, Meddle(b) PROVE TypeOK'
    BY <1>2, PlaceType DEF Meddle, TypeOK, Trees, job
  <1>3. CASE UNCHANGED vars
    BY <1>3 DEF vars, job, disk, TypeOK
  <1> QED
    BY <1>1, <1>2, <1>3, TypeStep DEF Next

\* Every variable keeps its type: TypeOK, for any builds, keys and bounds.
THEOREM TypeCorrect == Spec => []TypeOK
  BY TypeInit, TypeNext, PTL DEF Spec
-----------------------------------------------------------------------------
(* With an account, the verifier is alone                                  *)

\* A build's step leaves the other builds where they are, and starts no
\* process of theirs.
LEMMA OtherBuilds ==
  ASSUME TypeOK, NEW b \in Builds, Step(b), NEW c \in Builds \ {b}
  PROVE  /\ phase'[c] = phase[c] /\ reason'[c] = reason[c] /\ value'[c] = value[c]
         /\ handedOver'[c] = handedOver[c] /\ takenBack'[c] = takenBack[c]
         /\ outcome'[c] = outcome[c] /\ ranIn'[c] = ranIn[c]
         /\ c \notin alive => c \notin alive'
         /\ Account => owner'[c] = owner[c]
  <1>1. Account => DirOf(b) = b /\ c \in Dirs
    BY PlaceType DEF Dirs
  <1>2. \A from, to : Goto(b, from, to) => phase'[c] = phase[c]
    BY DEF Goto, TypeOK
  <1>3. \A from, to, why : Fails(b, from, to, why) => phase'[c] = phase[c] /\ reason'[c] = reason[c]
    BY <1>2 DEF Fails, TypeOK
  <1> USE <1>1, <1>2, <1>3 DEF disk
  <1>4. CASE Begin(b) \/ Clear(b) \/ Clone(b) \/ CloneFails(b)
    BY <1>4 DEF Begin, Clear, Clone, CloneFails, TypeOK
  <1>5. CASE Enter(b) \/ HandOver(b) \/ Start(b)
    BY <1>5 DEF Enter, Stopped, HandOver, Start, TypeOK
  <1>6. CASE Succeeds(b) \/ CommandFails(b) \/ Killed(b)
    BY <1>6 DEF Succeeds, CommandFails, Killed, GroupKilled
  <1>7. CASE Leave(b) \/ TakeBack(b) \/ Sweep(b)
    BY <1>7 DEF Leave, Stopped, TakeBack, Sweep, TypeOK
  <1>8. CASE Hash(b) \/ Write(b) \/ Unfail(b) \/ Fail(b) \/ Cleanup(b)
    BY <1>8 DEF Hash, Write, Unfail, Fail, Cleanup, TypeOK
  <1> QED
    BY <1>4, <1>5, <1>6, <1>7, <1>8 DEF Step

LEMMA AloneInit == Init => Alone
  BY DEF Init, All, Alone, AloneAt

LEMMA AloneStep ==
  ASSUME Account, TypeOK, Alone, NEW b \in Builds, Step(b)
  PROVE  Alone'
  <1>1. ASSUME NEW c \in Builds \ {b} PROVE AloneAt(c)'
    BY <1>1, OtherBuilds DEF Alone, AloneAt
  <1>2. AloneAt(b)'
    <2>1. DirOf(b) = b /\ b \in Dirs
      BY PlaceType DEF Dirs
    <2>2. /\ phase \in [Builds -> Phases] /\ reason \in [Builds -> Reasons]
          /\ handedOver \in [Builds -> BOOLEAN] /\ takenBack \in [Builds -> BOOLEAN]
          /\ owner \in [Dirs -> {"verifier", "account"}]
      BY DEF TypeOK
    <2> USE <2>1, <2>2 DEF Alone, AloneAt, Goto, Fails, disk
    <2>3. CASE Begin(b)
      BY <2>3 DEF Begin
    <2>4. CASE Clear(b) \/ Clone(b) \/ CloneFails(b)
      BY <2>4 DEF Clear, Clone, CloneFails
    <2>5. CASE Enter(b) \/ HandOver(b)
      BY <2>5 DEF Enter, Stopped, HandOver
    <2>6. CASE Start(b) \/ Succeeds(b) \/ CommandFails(b) \/ Killed(b)
      BY <2>6 DEF Start, Succeeds, CommandFails, Killed, AfterRun
    <2>7. CASE Leave(b) \/ TakeBack(b) \/ Sweep(b)
      BY <2>7 DEF Leave, Stopped, TakeBack, Sweep
    <2>8. CASE Hash(b) \/ Write(b) \/ Unfail(b)
      BY <2>8 DEF Hash, Write, Unfail
    <2>9. CASE Fail(b) \/ Cleanup(b)
      BY <2>9 DEF Fail, Cleanup, MayRemove
    <2> QED
      BY <2>3, <2>4, <2>5, <2>6, <2>7, <2>8, <2>9 DEF Step
  <1> QED
    BY <1>1, <1>2 DEF Alone

LEMMA AloneNext == Account /\ TypeOK /\ Alone /\ [Next]_vars => Alone'
  <1> SUFFICES ASSUME Account, TypeOK, Alone, [Next]_vars PROVE Alone'
    OBVIOUS
  <1>1. CASE Crash
    BY <1>1 DEF Crash, All, Alone, AloneAt
  <1>2. ASSUME NEW b \in Builds, Meddle(b) PROVE Alone'
    BY <1>2 DEF Meddle, job, Alone, AloneAt
  <1>3. CASE UNCHANGED vars
    BY <1>3 DEF vars, job, disk, Alone, AloneAt
  <1> QED
    BY <1>1, <1>2, <1>3, AloneStep DEF Next

\* Nothing of a build runs, or owns a file, when its outputs are hashed, and
\* nothing is removed that the account may own: whatever fails, is left
\* behind or is interrupted, and however many builds run at the same time.
THEOREM VerifierStaysAlone == Spec => []VerifierIsAlone
  <1>1. CASE Account
    <2>1. TypeOK /\ Alone => VerifierIsAlone
      <3> SUFFICES ASSUME TypeOK, NEW b \in Builds, AloneAt(b)
                   PROVE  /\ phase[b] \in {"hash", "write"} => b \notin alive /\ owner[DirOf(b)] = "verifier"
                          /\ phase[b] = "cleanup" => /\ owner[DirOf(b)] = "verifier"
                                                     /\ handedOver[b] => b \notin alive
        BY DEF Alone, VerifierIsAlone, HashedUndisturbed, RemovesOnlyItsOwn
      <3>1. DirOf(b) = b
        BY <1>1, PlaceType
      <3> QED
        BY <3>1 DEF AloneAt, TypeOK
    <2>2. Spec => [](TypeOK /\ Alone)
      BY <1>1, TypeInit, TypeNext, AloneInit, AloneNext, PTL DEF Spec
    <2> QED
      BY <2>1, <2>2, PTL
  <1>2. CASE ~Account
    <2>1. VerifierIsAlone
      BY <1>2 DEF VerifierIsAlone, HashedUndisturbed, RemovesOnlyItsOwn
    <2> QED
      BY <2>1, PTL
  <1> QED
    BY <1>1, <1>2
-----------------------------------------------------------------------------
(* Builds that take turns                                                  *)

LEMMA TurnInit == Init => TurnInv
  <1> SUFFICES ASSUME Init PROVE Turns /\ Turn
    BY DEF TurnInv
  <1>1. Busy = {}
    BY DEF Init, All, Busy
  <1>2. Turn
    BY DEF Init, All, Turn, TurnAt, Unwritten
  <1> QED
    BY <1>1, <1>2, FS_EmptySet DEF Turns

\* With one slot, a build begins only when no other is under way.
LEMMA TurnsStep ==
  ASSUME TypeOK, parallel = 1, Turns, NEW b \in Builds, Step(b)
  PROVE  Turns' /\ \A c \in Builds \ {b} : phase[c] \in {"idle", "done"}
  <1>1. \A c \in Builds \ {b} : phase'[c] = phase[c]
    BY OtherBuilds
  <1>2. CASE Begin(b)
    <2>1. Cardinality(Busy) = 0
      <3>1. Cardinality(Busy) \in Nat /\ Cardinality(Busy) < 1
        BY <1>2, FS_CardinalityType DEF Begin, Turns
      <3> QED
        BY <3>1
    <2>2. Busy = {}
      BY <2>1, FS_EmptySet DEF Turns
    <2>3. Busy' \in SUBSET {b}
      BY <1>1, <2>2 DEF Busy
    <2>4. IsFiniteSet({b})
      BY FS_Singleton
    <2>5. IsFiniteSet(Busy')
      BY <2>3, <2>4, FS_Subset
    <2> QED
      BY <2>2, <2>3, <2>5 DEF Turns, Busy
  <1>3. CASE ~Begin(b)
    <2>1. phase[b] \notin {"idle", "done"}
      BY <1>3 DEF Step, Goto, Fails, Clear, Clone, CloneFails, Enter, HandOver, Start, Succeeds,
                  CommandFails, Killed, Leave, TakeBack, Sweep, Hash, Write, Unfail, Fail, Cleanup
    <2>2. Busy' \in SUBSET Busy
      BY <1>1, <2>1 DEF Busy
    <2>3. IsFiniteSet(Busy')
      BY <2>2, FS_Subset DEF Turns
    <2>4. b \in Busy
      BY <2>1 DEF Busy
    <2> QED
      BY <2>2, <2>3, <2>4 DEF Turns, Busy
  <1> QED
    BY <1>2, <1>3

\* A build at its turn, by its actions.
LEMMA TurnStep ==
  ASSUME Account, TypeOK, Alone, parallel = 1, Turns, Turn, NEW b \in Builds, Step(b)
  PROVE  Turn'
  <1>1. DirOf(b) = b /\ b \in Dirs /\ KeyOf[b] \in Keys
    BY PlaceType DEF Dirs
  <1>2. /\ phase \in [Builds -> Phases] /\ reason \in [Builds -> Reasons]
        /\ value \in [Builds -> {"none", "good", "bad"}]
        /\ outcome \in [Builds -> Outcomes] /\ ranIn \in [Builds -> Trees]
        /\ tree \in [Dirs -> Trees] /\ owner \in [Dirs -> {"verifier", "account"}]
        /\ cache \in [Keys -> Cached] /\ failedFile \in [Keys -> Reasons]
    BY DEF TypeOK
  <1>3. TurnAt(b) /\ AloneAt(b) /\ \A k \in Keys : cache[k] # "bad" /\ failedFile[k] # "killed"
    BY DEF Turn, Alone
  <1>4. TurnAt(b)'
    <2> USE <1>1, <1>2, <1>3 DEF TurnAt, Goto, Fails, disk
    <2>1. CASE Begin(b)
      BY <2>1 DEF Begin, Unwritten
    <2>2. CASE Clear(b) \/ Clone(b) \/ CloneFails(b)
      BY <2>2 DEF Clear, Clone, CloneFails, Unwritten
    <2>3. CASE Enter(b) \/ HandOver(b) \/ Start(b)
      BY <2>3 DEF Enter, HandOver, Start, Unwritten
    <2>4. CASE Succeeds(b) \/ CommandFails(b) \/ Killed(b)
      BY <2>4 DEF Succeeds, CommandFails, Killed, AfterRun, Unwritten
    <2>5. CASE Leave(b) \/ TakeBack(b)
      BY <2>5 DEF Leave, TakeBack, Unwritten
    <2>6. CASE Sweep(b)
      BY <2>6 DEF Sweep, AloneAt, Unwritten
    <2>7. CASE Hash(b)
      BY <2>7 DEF Hash, Unwritten
    <2>8. CASE Write(b)
      BY <2>8 DEF Write, Unwritten
    <2>9. CASE Unfail(b) \/ Fail(b)
      BY <2>9 DEF Unfail, Fail, Unwritten
    <2>10. CASE Cleanup(b)
      BY <2>10 DEF Cleanup, Outcome, Unwritten
    <2> QED
      BY <2>1, <2>2, <2>3, <2>4, <2>5, <2>6, <2>7, <2>8, <2>9, <2>10 DEF Step
  <1>5. \A k \in Keys : cache'[k] # "bad" /\ failedFile'[k] # "killed"
    <2> USE <1>1, <1>2, <1>3 DEF Goto, disk
    <2>1. CASE Write(b)
      BY <2>1 DEF Write, TurnAt
    <2>2. CASE Unfail(b) \/ Fail(b)
      BY <2>2 DEF Unfail, Fail, TurnAt
    <2>3. CASE ~Write(b) /\ ~Unfail(b) /\ ~Fail(b)
      BY <2>3 DEF Step, Begin, Clear, Clone, CloneFails, Enter, HandOver, Start, Succeeds, CommandFails,
                  Killed, Leave, TakeBack, Sweep, Hash, Cleanup
    <2> QED
      BY <2>1, <2>2, <2>3
  <1>6. ASSUME NEW c \in Builds \ {b} PROVE TurnAt(c)'
    <2>1. phase'[c] \in {"idle", "done"} /\ reason'[c] = reason[c] /\ ranIn'[c] = ranIn[c]
          /\ outcome'[c] = outcome[c]
      BY OtherBuilds, TurnsStep
    <2>2. TurnAt(c) /\ KeyOf[c] \in Keys
      BY PlaceType DEF Turn
    <2>3. cache[KeyOf[c]] = "good" => cache'[KeyOf[c]] = "good"
      <3>1. CASE Write(b)
        <4>1. cache[KeyOf[b]] \in {"none", "torn"}
          BY <1>3, <3>1 DEF Write, Goto, Fails, TurnAt, Unwritten
        <4> QED
          BY <1>1, <1>2, <2>2, <3>1, <4>1 DEF Write
      <3>2. CASE ~Write(b)
        BY <3>2 DEF Step, Begin, Clear, Clone, CloneFails, Enter, HandOver, Start, Succeeds, CommandFails,
                    Killed, Leave, TakeBack, Sweep, Hash, Unfail, Fail, Cleanup, disk
      <3> QED
        BY <3>1, <3>2
    <2> QED
      BY <2>1, <2>2, <2>3 DEF TurnAt, Unwritten
  <1> QED
    BY <1>4, <1>5, <1>6 DEF Turn
\* What a command left behind cannot reach a build at its turn.
LEMMA TurnMeddle ==
  ASSUME Account, TypeOK, Alone, Turns, Turn, NEW b \in Builds, Meddle(b)
  PROVE  Turns' /\ Turn'
  <1>1. DirOf(b) = b /\ Builds \subseteq Dirs
    BY PlaceType DEF Dirs
  <1>2. tree' = [tree EXCEPT ![b] = "partial"] /\ tree \in [Dirs -> Trees]
    BY <1>1 DEF Meddle, TypeOK
  <1>3. UNCHANGED <<job, owner, cache, failedFile, alive>>
    BY DEF Meddle
  <1>4. Turns'
    BY <1>3 DEF job, Turns, Busy
  <1>5. ASSUME NEW c \in Builds \ {b} PROVE TurnAt(c)'
    <2>1. tree'[c] = tree[c]
      BY <1>1, <1>2
    <2> QED
      BY <1>3, <2>1 DEF job, Turn, TurnAt
  <1>6. TurnAt(b)'
    <2>1. phase[b] \notin {"enter", "handOver", "start", "running", "leave", "takeBack", "sweep", "hash"}
      BY <1>1 DEF Meddle, Alone, AloneAt, Turn, TurnAt
    <2> QED
      BY <1>3, <2>1 DEF job, Turn, TurnAt
  <1> QED
    BY <1>3, <1>4, <1>5, <1>6 DEF Turn

\* A crash leaves no build under way, and at worst a torn file.
LEMMA TurnCrash ==
  ASSUME TypeOK, Turn, Crash
  PROVE  Turns' /\ Turn'
  <1>1. Busy' = {}
    BY DEF Crash, All, Busy
  <1>2. \A k \in Keys : cache'[k] # "bad" /\ failedFile'[k] # "killed"
    <2>1. PICK torn : cache' = [k \in Keys |-> IF k \in torn THEN "torn" ELSE cache[k]]
      BY DEF Crash
    <2> QED
      BY <2>1 DEF Crash, Turn
  <1>3. \A b \in Builds : TurnAt(b)'
    BY DEF Crash, All, TurnAt, Unwritten
  <1> QED
    BY <1>1, <1>2, <1>3, FS_EmptySet DEF Turns, Turn

LEMMA TurnNext == Account /\ TypeOK /\ Alone /\ TurnInv /\ [Next]_vars => TurnInv'
  <1> SUFFICES ASSUME Account, TypeOK, Alone, TurnInv, [Next]_vars, parallel' = 1
               PROVE  Turns' /\ Turn'
    BY DEF TurnInv
  <1>1. parallel = 1
    BY DEF Next, Step, Crash, Meddle, vars
  <1>2. Turns /\ Turn
    BY <1>1 DEF TurnInv
  <1>3. CASE Crash
    BY <1>2, <1>3, TurnCrash
  <1>4. ASSUME NEW b \in Builds, Meddle(b) PROVE Turns' /\ Turn'
    BY <1>2, <1>4, TurnMeddle
  <1>5. ASSUME NEW b \in Builds, Step(b) PROVE Turns' /\ Turn'
    BY <1>1, <1>2, <1>5, TurnsStep, TurnStep
  <1>6. CASE UNCHANGED vars
    BY <1>2, <1>6 DEF vars, job, disk, Turns, Busy, Turn, TurnAt
  <1> QED
    BY <1>3, <1>4, <1>5, <1>6 DEF Next

\* Builds that take turns, as the registry's do, do not tell on each other
\* when they run as an account of their own: what is cached for a key is the
\* whole output of its command in a clean checkout, and what is remembered
\* as a failure is the command's own, whatever earlier builds left running,
\* fails on the way, or is interrupted.
THEOREM TurnsSuffice ==
  ASSUME Account
  PROVE  Spec => []TurnsAreEnough
  <1>1. TypeOK /\ TurnInv => TurnsAreEnough
    <2> SUFFICES ASSUME TypeOK, Turn PROVE CachedIsReproduced /\ FailureIsReal /\ RunsInCleanCheckout
      BY DEF TurnInv, TurnsAreEnough
    <2>1. CachedIsReproduced
      BY DEF Turn, TurnAt, CachedIsReproduced
    <2>2. FailureIsReal
      BY DEF Turn, TurnAt, FailureIsReal
    <2>3. RunsInCleanCheckout
      BY DEF Turn, TurnAt, RunsInCleanCheckout
    <2> QED
      BY <2>1, <2>2, <2>3
  <1>2. Spec => [](TypeOK /\ TurnInv)
    BY TypeInit, TypeNext, AloneInit, AloneNext, TurnInit, TurnNext, PTL DEF Spec
  <1> QED
    BY <1>1, <1>2, PTL

-----------------------------------------------------------------------------
(* Progress                                                                *)

\* How far a build is in _build(): the phases in the order of the code.
Order ==
    [p \in Phases |->
        IF p = "idle" THEN 0 ELSE IF p = "clear" THEN 1 ELSE IF p = "clone" THEN 2
        ELSE IF p = "enter" THEN 3 ELSE IF p = "handOver" THEN 4 ELSE IF p = "start" THEN 5
        ELSE IF p = "running" THEN 6 ELSE IF p = "leave" THEN 7 ELSE IF p = "takeBack" THEN 8
        ELSE IF p = "sweep" THEN 9 ELSE IF p = "hash" THEN 10 ELSE IF p = "write" THEN 11
        ELSE IF p = "unfail" THEN 12 ELSE IF p = "fail" THEN 13 ELSE IF p = "cleanup" THEN 14
        ELSE 15]

Place(b) == Order[phase[b]]

LEMMA StepAdvances ==
  ASSUME TypeOK, NEW b \in Builds, Step(b)
  PROVE  Place(b)' > Place(b) /\ \A c \in Builds \ {b} : phase'[c] = phase[c]
  <1>1. phase' = [phase EXCEPT ![b] = phase'[b]] /\ Order[phase'[b]] > Order[phase[b]]
    <2> USE DEF Goto, Fails, Order, Phases
    <2>0. phase \in [Builds -> Phases]
      BY DEF TypeOK
    <2>1. CASE Begin(b) \/ Clear(b) \/ Clone(b) \/ CloneFails(b)
      BY <2>0, <2>1 DEF Begin, Clear, Clone, CloneFails
    <2>2. CASE Enter(b) \/ HandOver(b) \/ Start(b)
      BY <2>0, <2>2 DEF Enter, HandOver, Start
    <2>3. CASE Succeeds(b) \/ CommandFails(b) \/ Killed(b)
      BY <2>0, <2>3 DEF Succeeds, AfterRun, CommandFails, Killed
    <2>4. CASE Leave(b) \/ TakeBack(b) \/ Sweep(b)
      BY <2>0, <2>4 DEF Leave, TakeBack, Sweep
    <2>5. CASE Hash(b) \/ Write(b) \/ Unfail(b)
      BY <2>0, <2>5 DEF Hash, Write, Unfail
    <2>6. CASE Fail(b) \/ Cleanup(b)
      BY <2>0, <2>6 DEF Fail, Cleanup
    <2> QED
      BY <2>1, <2>2, <2>3, <2>4, <2>5, <2>6 DEF Step
  <1> QED
    BY <1>1 DEF Place, TypeOK

\* Each step of a build takes it further and no other one back: however builds
\* interfere, one takes at most fifteen steps, unless the verifier is started
\* over, which happens at most MaxCrashes times.
THEOREM BuildsAdvance ==
  Spec => [][\/ crashes' = crashes + 1
             \/ \A b \in Builds : Place(b)' >= Place(b) /\ (Step(b) => Place(b)' > Place(b))]_vars
  <1> DEFINE advances == \A b \in Builds : Place(b)' >= Place(b) /\ (Step(b) => Place(b)' > Place(b))
  <1>1. TypeOK /\ Next => crashes' = crashes + 1 \/ advances
    <2> SUFFICES ASSUME TypeOK, Next PROVE crashes' = crashes + 1 \/ advances
      OBVIOUS
    <2>1. \A b \in Builds : Place(b) \in Nat
      BY DEF TypeOK, Place, Order
    <2>2. CASE Crash
      BY <2>2 DEF Crash
    <2>3. ASSUME NEW c \in Builds, phase' = phase \/ Step(c)
          PROVE  advances
      <3> SUFFICES ASSUME NEW b \in Builds
                   PROVE  Place(b)' >= Place(b) /\ (Step(b) => Place(b)' > Place(b))
        OBVIOUS
      <3>1. Step(b) => Place(b)' > Place(b)
        BY StepAdvances
      <3>2. phase'[b] = phase[b] \/ Step(b)
        BY <2>3, StepAdvances
      <3>3. CASE phase'[b] = phase[b]
        <4>1. Place(b)' = Place(b)
          BY <3>3 DEF Place, Order
        <4> QED
          BY <2>1, <3>1, <4>1
      <3>4. CASE Step(b)
        <4>1. Place(b)' \in Nat
          BY TypeNext DEF Next, TypeOK, Place, Order
        <4> QED
          BY <2>1, <3>1, <3>4, <4>1
      <3> QED
        BY <3>2, <3>3, <3>4
    <2>4. CASE \E b \in Builds : Meddle(b)
      BY <2>3, <2>4 DEF Meddle, job
    <2> QED
      BY <2>2, <2>3, <2>4 DEF Next
  <1> QED
    BY <1>1, TypeCorrect, PTL DEF Spec

=============================================================================
