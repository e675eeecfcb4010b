------------------------- MODULE RegistryRunProofs -------------------------
(***************************************************************************)
(* What RegistryRun promises, proved for every set of servers, whatever    *)
(* fails in its jobs: failures survive, passes are earned, the published   *)
(* reports are those of a retried audit; a run in which nothing fails has  *)
(* its builds and leaves its issue right, if the cache is never missed;    *)
(* and every step of a job takes the run on.                               *)
(***************************************************************************)
EXTENDS RegistryRun, VerdictProofs, TLAPS

\* The steps before the first attempt has been appraised, and from there to
\* the appraisal of the second.
Early    == {"buildRestore", "build", "buildSave", "auditRestore", "auditCollect"}
FirstHas == {"auditUpload", "rebuildRestore", "rebuild", "rebuildSave", "againRestore", "againCollect"}

Whole == [Servers -> ServerResult]

\* A report that run n made of all servers, the first attempt having found f,
\* in which only servers that were clean throughout pass.
MadeOf(r, n, f, clean) ==
    /\ r \in [run : {n}, finished : {TRUE}, servers : Whole]
    /\ f \in [Servers -> Status]
    /\ \A s \in Servers :
          /\ r.servers[s].result.status \in Permitted(f[s])
          /\ r.servers[s].result.status = "pass" => s \in clean

Handed(r, n, f, clean) == r = NoReport \/ MadeOf(r, n, f, clean)

\* ... and that is the first attempt's.
FirstOf(r, f) == r = NoReport \/ \A s \in Servers : r.servers[s].result.status = f[s]

Clean == seenClean \ dirty

Typed ==
    /\ head \in Commits /\ deployed \in [Servers -> Deployed] /\ changes \in 0 .. MaxChanges
    /\ latest \in Dir /\ saved \in SUBSET Dir /\ dir \in Dir /\ wanted \in SUBSET Commits
    /\ issue \in BOOLEAN /\ faults \in 0 .. MaxFaults /\ faultless \in BOOLEAN
    /\ run \in 0 .. MaxRuns /\ step \in Steps /\ retry \in SUBSET Servers
    /\ entries \in [Servers -> Entry]
    /\ seenClean \in SUBSET Servers /\ dirty \in SUBSET Servers
    /\ first = Empty \/ first \in [Servers -> Status]

\* The reports that pass between jobs.
Passed ==
    /\ Handed(artifact, run, first, Clean) /\ Handed(report, run, first, Clean)
    /\ step \in Early => artifact = NoReport /\ report = NoReport /\ first = Empty
    /\ step \in FirstHas => /\ first \in [Servers -> Status]
                            /\ FirstOf(artifact, first) /\ FirstOf(report, first)
                            /\ \A s \in retry : first[s] \in NotClean
    /\ step \in {"auditUpload", "againCollect", "againDelete", "againUpload"} => report # NoReport

\* What has been collected in the first attempt.
Judged ==
    /\ step \in Early /\ step # "auditCollect" => dirty = {}
    /\ step = "auditCollect" => \A s \in Servers :
          /\ entries[s].kind = "none" => s \notin dirty
          /\ entries[s].kind = "evidence" /\ entries[s].state.intact => s \in Clean

\* The status branch has this run's report only after this run's publication.
PublishedReports ==
    [run : 0 .. MaxRuns, finished : {TRUE}, servers : Whole]
    \cup [run : 0 .. MaxRuns, finished : {FALSE}, servers : {Empty}]

Out ==
    /\ published \in PublishedReports /\ published.run <= run
    /\ step \notin {"issues", "idle"} => published.run # run
    /\ step = "issues" => published.run = run
    /\ published.finished /\ published.run = run => MadeOf(published, run, first, Clean)

Inv == Typed /\ Passed /\ Judged /\ Out

\* A builds directory has what another has.
Has(d, e) == \A c \in Commits : d[c] = "built" => e[c] = "built"

Builds ==
    /\ \A d \in saved : Has(d, latest)
    /\ step \in {"build", "buildSave", "rebuild", "rebuildSave"} => Has(latest, dir)

\* Where the builds of a report's commits are, in a run in which nothing fails.
Ready ==
    faultless =>
        /\ step = "build" => \A c \in CommitsOf(published) : c \in wanted \/ dir[c] = "built"
        /\ step = "buildSave" => \A c \in CommitsOf(published) : dir[c] = "built"
        /\ step = "auditRestore" => \A c \in CommitsOf(published) : latest[c] = "built"
        /\ step = "auditCollect" => \A c \in CommitsOf(published) : dir[c] = "built"
        /\ step = "rebuild" => \A c \in CommitsOf(artifact) : c \in wanted \/ dir[c] = "built"
        /\ step = "rebuildSave" => \A c \in CommitsOf(artifact) : dir[c] = "built"
        /\ step = "againRestore" => \A c \in CommitsOf(artifact) : latest[c] = "built"
        /\ step = "againCollect" => \A c \in CommitsOf(report) : dir[c] = "built"

Smooth == Builds /\ Ready /\ IssueFollowsStatus

-----------------------------------------------------------------------------
(* Types                                                                   *)

LEMMA AppraisedType == \A s : Appraised(s) \in SUBSET Finding
BY DEF Appraised, F, Finding, Severity, Checks

LEMMA FreshType == ASSUME Typed, NEW s \in Servers
                   PROVE  Fresh(s) \in ServerResult
<1>1. ResultOf(Appraised(s)) \in Result
  BY AppraisedType, ResultOfType
<1>2. entries[s] \in Entry
  BY DEF Typed
<1>3. entries[s].kind = "evidence" => entries[s].state.commit \in Commits
  BY <1>2 DEF Entry, Deployed
<1>4. (IF entries[s].kind = "evidence" THEN entries[s].state.commit ELSE 0) \in 0 .. MaxCommit
  BY <1>3, BoundAssumption DEF Commits
<1> QED
  BY <1>1, <1>4 DEF Fresh, ServerResult

LEMMA TypedInit == Init => Typed
<1> SUFFICES ASSUME Init PROVE Typed
  OBVIOUS
<1>1. head \in Commits /\ deployed \in [Servers -> Deployed]
  BY BoundAssumption DEF Init, Commits, Deployed
<1>2. NoDir \in Dir
  BY DEF NoDir, Dir, Build
<1>3. entries \in [Servers -> Entry]
  BY DEF Init, NoEntry, Entry
<1>4. step \in Steps
  BY DEF Init, Steps
<1>5. run \in 0 .. MaxRuns /\ changes \in 0 .. MaxChanges /\ faults \in 0 .. MaxFaults
  BY BoundAssumption DEF Init
<1> QED
  BY <1>1, <1>2, <1>3, <1>4, <1>5 DEF Init, Typed

\* What fails is counted, and remembered for the run.
LEMMA FaultType == ASSUME Typed, Works \/ Fault
                   PROVE  /\ faults' \in 0 .. MaxFaults /\ faultless' \in BOOLEAN
                          /\ faultless' => faultless /\ Works
<1>1. CASE Works
  BY <1>1 DEF Typed, Works
<1>2. CASE Fault
  <2>1. faults' \in 0 .. MaxFaults
    BY <1>2, BoundAssumption DEF Typed, Fault
  <2>2. faultless' = FALSE
    BY <1>2 DEF Fault
  <2> QED
    BY <2>1, <2>2
<1> QED
  BY <1>1, <1>2

LEMMA TypedRestore == ASSUME Typed, RestoreBuilds
                      PROVE  /\ dir' \in Dir
                             /\ faults' \in 0 .. MaxFaults /\ faultless' \in BOOLEAN
                             /\ faultless' => faultless /\ dir' = latest
<1>1. NoDir \in Dir
  BY DEF NoDir, Dir, Build
<1>2. Works \/ Fault
  BY DEF RestoreBuilds
<1>3. dir' \in Dir
  BY <1>1 DEF RestoreBuilds, Typed
<1>4. Fault => ~faultless'
  BY DEF Fault
<1> QED
  BY <1>2, <1>3, <1>4, FaultType DEF RestoreBuilds

LEMMA CommitsOfType == ASSUME NEW r, r.servers \in Whole \/ r.servers = Empty
                       PROVE  CommitsOf(r) \in SUBSET Commits
<1>1. CASE r.servers = Empty
  BY <1>1 DEF CommitsOf, Empty
<1>2. CASE r.servers \in Whole
  <2>1. \A s \in DOMAIN r.servers : r.servers[s].commit \in 0 .. MaxCommit
    BY <1>2 DEF Whole, ServerResult
  <2>2. \A c \in 0 .. MaxCommit : c # 0 => c \in Commits
    BY BoundAssumption DEF Commits
  <2> QED
    BY <2>1, <2>2 DEF CommitsOf
<1> QED
  BY <1>1, <1>2

\* Every report has a row for each server, or none.
LEMMA Rows == ASSUME Inv
              PROVE  \A r \in {artifact, report, published} : r.servers \in Whole \/ r.servers = Empty
<1>1. ASSUME NEW r, Handed(r, run, first, Clean)
      PROVE  r.servers \in Whole \/ r.servers = Empty
  <2>1. CASE r = NoReport
    BY <2>1 DEF NoReport
  <2>2. CASE MadeOf(r, run, first, Clean)
    <3>1. r \in [run : {run}, finished : {TRUE}, servers : Whole]
      BY <2>2 DEF MadeOf
    <3> QED
      BY <3>1
  <2> QED
    BY <1>1, <2>1, <2>2 DEF Handed
<1>2. published.servers \in Whole \/ published.servers = Empty
  BY DEF Inv, Out, PublishedReports
<1> QED
  BY <1>1, <1>2 DEF Inv, Passed

LEMMA TypedBuild == ASSUME Inv, \/ BuildRestore \/ RebuildRestore \/ BuildEnds \/ BuildSave \/ RebuildSave
                                \/ \E c \in Commits : BuildCommit(c)
                    PROVE  Typed'
<1> USE DEF world, github, job
<1>0. Typed
  BY DEF Inv
<1>1. \A r \in {artifact, report, published, NoReport} : Wanted(r) \in SUBSET Commits
  <2>1. head \in Commits
    BY <1>0 DEF Typed
  <2>2. NoReport.servers = Empty
    BY DEF NoReport
  <2>3. \A r \in {artifact, report, published, NoReport} : CommitsOf(r) \in SUBSET Commits
    BY <2>2, Rows, CommitsOfType
  <2> QED
    BY <2>1, <2>3 DEF Wanted
<1>2. CASE BuildRestore
  <2>1. /\ dir' \in Dir /\ faults' \in 0 .. MaxFaults /\ faultless' \in BOOLEAN
    <3>1. RestoreBuilds \/ (Fault /\ dir' = latest)
      BY <1>2 DEF BuildRestore
    <3>2. latest \in Dir
      BY <1>0 DEF Typed
    <3> QED
      BY <1>0, <3>1, <3>2, TypedRestore, FaultType
  <2>2. wanted' \in SUBSET Commits
    BY <1>1, <1>2 DEF BuildRestore
  <2>3. step' \in Steps
    BY <1>2 DEF BuildRestore, Then, Steps
  <2> QED
    BY <1>0, <1>2, <2>1, <2>2, <2>3 DEF Typed, BuildRestore
<1>3. CASE RebuildRestore
  <2>1. /\ dir' \in Dir /\ faults' \in 0 .. MaxFaults /\ faultless' \in BOOLEAN
    BY <1>0, <1>3, TypedRestore DEF RebuildRestore
  <2>2. wanted' \in SUBSET Commits
    BY <1>1, <1>3 DEF RebuildRestore
  <2>3. step' \in Steps
    BY <1>3 DEF RebuildRestore, Steps
  <2> QED
    BY <1>0, <1>3, <2>1, <2>2, <2>3 DEF Typed, RebuildRestore
<1>4. ASSUME NEW c \in Commits, BuildCommit(c)
      PROVE  Typed'
  <2>1. faults' \in 0 .. MaxFaults /\ faultless' \in BOOLEAN
    BY <1>0, <1>4, FaultType DEF BuildCommit
  <2>2. dir' \in Dir
    BY <1>0, <1>4 DEF Typed, BuildCommit, Dir, Build
  <2> QED
    BY <1>0, <1>4, <2>1, <2>2 DEF Typed, BuildCommit
<1>5. CASE BuildEnds
  <2>1. faults' \in 0 .. MaxFaults /\ faultless' \in BOOLEAN
    BY <1>0, <1>5, FaultType DEF BuildEnds
  <2>2. step' \in Steps
    BY <1>5 DEF BuildEnds, Steps
  <2> QED
    BY <1>0, <1>5, <2>1, <2>2 DEF Typed, BuildEnds
<1>6. ASSUME NEW from, NEW to \in Steps, Save(from, to)
      PROVE  Typed'
  <2>1. faults' \in 0 .. MaxFaults /\ faultless' \in BOOLEAN
    BY <1>0, <1>6, FaultType DEF Save
  <2>2. latest' \in Dir /\ saved' \in SUBSET Dir
    BY <1>0, <1>6 DEF Typed, Save
  <2> QED
    BY <1>0, <1>6, <2>1, <2>2 DEF Typed, Save, Then
<1>7. CASE BuildSave \/ RebuildSave
  BY <1>6, <1>7 DEF BuildSave, RebuildSave, Steps
<1> QED
  BY <1>2, <1>3, <1>4, <1>5, <1>7

LEMMA TypedAudit == ASSUME Inv, \/ StartRun \/ AuditRestore \/ AuditAppraise \/ AuditUpload
                                \/ \E s \in Servers : Collect(s)
                    PROVE  Typed'
<1> USE DEF world, github, job
<1>0. Typed
  BY DEF Inv
<1>1. CASE StartRun
  <2>1. run' \in 0 .. MaxRuns
    BY <1>0, <1>1, BoundAssumption DEF Typed, StartRun
  <2>2. step' \in Steps
    BY <1>1 DEF StartRun, Then, Steps
  <2> QED
    BY <1>0, <1>1, <2>1, <2>2 DEF Typed, StartRun
<1>2. CASE AuditRestore
  <2>1. /\ dir' \in Dir /\ faults' \in 0 .. MaxFaults /\ faultless' \in BOOLEAN
    BY <1>0, <1>2, TypedRestore DEF AuditRestore
  <2>2. step' \in Steps
    BY <1>2 DEF AuditRestore, Then, Steps
  <2>3. entries' \in [Servers -> Entry]
    BY <1>2 DEF AuditRestore, NewJob, NoEntry, Entry
  <2> QED
    BY <1>0, <1>2, <2>1, <2>2, <2>3 DEF Typed, AuditRestore
<1>3. ASSUME NEW s \in Servers, Collect(s)
      PROVE  Typed'
  <2>1. faults' \in 0 .. MaxFaults /\ faultless' \in BOOLEAN
    BY <1>0, <1>3, FaultType DEF Collect
  <2>2. entries' \in [Servers -> Entry]
    <3>1. deployed[s] \in Deployed
      BY <1>0 DEF Typed
    <3>2. /\ [kind |-> "evidence", state |-> deployed[s]] \in Entry
          /\ [kind |-> "error"] \in Entry
      BY <3>1 DEF Entry
    <3> QED
      BY <1>0, <1>3, <3>2 DEF Typed, Collect
  <2>3. seenClean' \in SUBSET Servers /\ dirty' \in SUBSET Servers
    BY <1>0, <1>3 DEF Typed, Collect
  <2> QED
    BY <1>0, <1>3, <2>1, <2>2, <2>3 DEF Typed, Collect
<1>4. CASE AuditAppraise
  <2>1. faults' \in 0 .. MaxFaults /\ faultless' \in BOOLEAN
    BY <1>0, <1>4, FaultType DEF AuditAppraise
  <2>2. step' \in Steps
    BY <1>4 DEF AuditAppraise, Then, Steps
  <2>3. first' \in [Servers -> Status]
    <3>1. \A s \in Servers : Fresh(s).result.status \in Status
      BY <1>0, FreshType DEF ServerResult, Result
    <3> QED
      BY <1>4, <3>1 DEF AuditAppraise
  <2> QED
    BY <1>0, <1>4, <2>1, <2>2, <2>3 DEF Typed, AuditAppraise
<1>5. CASE AuditUpload
  <2>1. faults' \in 0 .. MaxFaults /\ faultless' \in BOOLEAN
    BY <1>0, <1>5, FaultType DEF AuditUpload, KeepReport
  <2>2. step' \in Steps
    BY <1>5 DEF AuditUpload, Then, Steps
  <2> QED
    BY <1>0, <1>5, <2>1, <2>2 DEF Typed, AuditUpload
<1> QED
  BY <1>1, <1>2, <1>3, <1>4, <1>5

LEMMA TypedRest == ASSUME Inv, \/ AgainRestore \/ AgainAppraise \/ AgainDelete \/ AgainUpload
                               \/ PublishDownload \/ Publish \/ Issues \/ JobDies
                   PROVE  Typed'
<1> USE DEF world, github, job
<1>0. Typed
  BY DEF Inv
<1>1. CASE AgainRestore
  <2>1. /\ dir' \in Dir /\ faults' \in 0 .. MaxFaults /\ faultless' \in BOOLEAN
    BY <1>0, <1>1, TypedRestore DEF AgainRestore
  <2>2. step' \in Steps
    BY <1>1 DEF AgainRestore, Then, Steps
  <2>3. entries' \in [Servers -> Entry]
    BY <1>1 DEF AgainRestore, NewJob, NoEntry, Entry
  <2> QED
    BY <1>0, <1>1, <2>1, <2>2, <2>3 DEF Typed, AgainRestore
<1>2. CASE AgainAppraise \/ AgainDelete \/ AgainUpload \/ PublishDownload \/ Publish
  <2>1. faults' \in 0 .. MaxFaults /\ faultless' \in BOOLEAN
    BY <1>0, <1>2, FaultType DEF AgainAppraise, AgainDelete, AgainUpload, KeepReport, PublishDownload, Publish
  <2>2. step' \in Steps
    BY <1>2 DEF AgainAppraise, AgainDelete, AgainUpload, PublishDownload, Publish, Then, Steps
  <2>3. UNCHANGED <<world, latest, saved, dir, wanted, issue, run, retry, entries, seenClean, dirty, first>>
    BY <1>2 DEF AgainAppraise, AgainDelete, AgainUpload, PublishDownload, Publish
  <2> QED
    BY <1>0, <2>1, <2>2, <2>3 DEF Typed
<1>3. CASE Issues
  <2>1. faults' \in 0 .. MaxFaults /\ faultless' \in BOOLEAN
    BY <1>0, <1>3, FaultType DEF Issues
  <2>2. step' \in Steps
    BY <1>3 DEF Issues, Then, Steps
  <2>3. issue' \in BOOLEAN
    BY <1>3 DEF Issues, NotPassing
  <2> QED
    BY <1>0, <1>3, <2>1, <2>2, <2>3 DEF Typed, Issues
<1>4. CASE JobDies
  <2>1. faults' \in 0 .. MaxFaults /\ faultless' \in BOOLEAN
    BY <1>0, <1>4, FaultType DEF JobDies
  <2>2. step' \in Steps
    BY <1>4 DEF JobDies, Steps
  <2> QED
    BY <1>0, <1>4, <2>1, <2>2 DEF Typed, JobDies
<1> QED
  BY <1>1, <1>2, <1>3, <1>4

LEMMA TypedWorld == ASSUME Typed, Push \/ \E s \in Servers : Change(s)
                    PROVE  Typed'
<1>1. CASE Push
  <2>1. head' \in Commits
    BY <1>1, BoundAssumption DEF Typed, Push, Commits
  <2> QED
    BY <1>1, <2>1 DEF Typed, Push, github, job, history
<1>2. ASSUME NEW s \in Servers, Change(s)
      PROVE  Typed'
  <2>1. changes' \in 0 .. MaxChanges
    BY <1>2, BoundAssumption DEF Typed, Change
  <2>2. \A c \in 1 .. head : c \in Commits
    BY BoundAssumption DEF Typed, Commits
  <2>3. deployed' \in [Servers -> Deployed]
    BY <1>2, <2>2 DEF Typed, Change, Deployed
  <2> QED
    BY <1>2, <2>1, <2>3 DEF Typed, Change, github, job, history
<1> QED
  BY <1>1, <1>2

LEMMA TypedNext == Inv /\ [Next]_vars => Typed'
<1> SUFFICES ASSUME Inv, [Next]_vars
             PROVE  Typed'
  OBVIOUS
<1>1. CASE UNCHANGED vars
  BY <1>1 DEF Inv, Typed, vars, world, github, job, history
<1>2. Typed
  BY DEF Inv
<1> QED
  BY <1>1, <1>2, TypedBuild, TypedAudit, TypedRest, TypedWorld DEF Next, Job

-----------------------------------------------------------------------------
(* What the jobs hand on                                                   *)

LEMMA MadeGrows == ASSUME NEW r, NEW n, NEW f, NEW c, NEW d, c \subseteq d, Handed(r, n, f, c)
                   PROVE  Handed(r, n, f, d)
BY DEF Handed, MadeOf

\* What passes in the first attempt was clean when it was collected.
LEMMA FreshPass == ASSUME Inv, step = "auditCollect", AllCollected, NEW s \in Servers,
                          Fresh(s).result.status = "pass"
                   PROVE  s \in Clean
<1>1. StatusOf(Appraised(s)) = "pass"
  BY DEF Fresh, ResultOf
<1>2. \A f \in Appraised(s) : f.severity \notin NotClean
  BY <1>1, NotCleanStatus DEF NotClean
<1>3. entries[s] \in Entry /\ entries[s].kind # "none"
  BY DEF Inv, Typed, AllCollected, Asked
<1>4. entries[s].kind # "error"
  <2> SUFFICES ASSUME entries[s].kind = "error" PROVE FALSE
    OBVIOUS
  <2>1. F("error", "transport") \in Appraised(s)
    BY DEF Appraised
  <2> QED
    BY <1>2, <2>1 DEF F, NotClean
<1>5. entries[s].kind = "evidence"
  BY <1>3, <1>4 DEF Entry
<1>6. entries[s].state.intact
  <2> SUFFICES ASSUME ~entries[s].state.intact PROVE FALSE
    OBVIOUS
  <2>1. F("fail", "source") \in Appraised(s)
    BY <1>5 DEF Appraised
  <2> QED
    BY <1>2, <2>1 DEF F, NotClean
<1> QED
  BY <1>5, <1>6 DEF Inv, Judged

\* A second attempt is never a pass, and what the first permits.
LEMMA SecondMade == ASSUME Typed, NEW s \in Servers, NEW before \in ServerResult,
                           before.result.status \in NotClean
                    PROVE  /\ Second(before, s) \in ServerResult
                           /\ Second(before, s).result.status \in Permitted(before.result.status)
                           /\ Second(before, s).result.status # "pass"
<1> DEFINE both == CombineAttempts(before.result, Fresh(s).result)
<1>1. Fresh(s) \in ServerResult
  BY FreshType
<1>2. before.result \in Result /\ Fresh(s).result \in Result
  BY <1>1 DEF ServerResult
<1>3. both \in Result
  BY <1>2, CombineAttemptsType
<1>4. both.status # "pass" /\ (before.result.status = "fail" => both.status \in {"fail", "warn"})
  BY <1>2, CombineAttemptsStatus
<1>5. Second(before, s) = [Fresh(s) EXCEPT !.result = both]
  BY DEF Second
<1>6. Second(before, s) \in ServerResult /\ Second(before, s).result = both
  <2> HIDE DEF both
  <2> QED
    BY <1>1, <1>3, <1>5 DEF ServerResult
<1>7. both.status \in Permitted(before.result.status)
  <2>1. both.status \in {"fail", "error", "warn", "pass"}
    BY <1>3 DEF Result, Status
  <2> HIDE DEF both
  <2>2. CASE before.result.status = "fail"
    BY <1>4, <2>2 DEF Permitted
  <2>3. CASE before.result.status = "error"
    BY <1>4, <2>1, <2>3 DEF Permitted
  <2> QED
    BY <2>2, <2>3 DEF NotClean
<1> QED
  BY <1>4, <1>6, <1>7

\* Steps that hand nothing on.
LEMMA InvKept ==
  ASSUME Inv, UNCHANGED <<artifact, report, published, run, first, seenClean, dirty, retry>>,
         \/ UNCHANGED <<step, entries>>
         \/ {step, step'} \subseteq {"buildRestore", "build", "buildSave", "auditRestore"}
         \/ {step, step'} \subseteq {"rebuildRestore", "rebuild", "rebuildSave", "againRestore"}
         \/ step \notin {"issues", "idle"} /\ step' = "publishDownload"
         \/ step' = "idle"
  PROVE  Passed' /\ Judged' /\ Out'
<1>1. /\ Handed(artifact, run, first, Clean)' /\ Handed(report, run, first, Clean)'
  BY DEF Inv, Passed, Clean
<1>2. Passed'
  BY <1>1 DEF Inv, Passed, Early, FirstHas
<1>3. Judged'
  BY DEF Inv, Judged, Early, Clean
<1>4. Out'
  BY DEF Inv, Out, Clean
<1> QED
  BY <1>2, <1>3, <1>4

LEMMA KeepsInv == ASSUME Inv, \/ BuildRestore \/ RebuildRestore \/ BuildEnds \/ BuildSave \/ RebuildSave
                              \/ \E c \in Commits : BuildCommit(c)
                              \/ Issues \/ JobDies \/ Push \/ \E s \in Servers : Change(s)
                              \/ UNCHANGED vars
                  PROVE  Passed' /\ Judged' /\ Out'
<1> USE DEF github, job
<1>1. CASE BuildRestore
  BY <1>1, InvKept DEF BuildRestore, Then
<1>2. CASE RebuildRestore
  BY <1>2, InvKept DEF RebuildRestore
<1>3. CASE BuildEnds
  BY <1>3, InvKept DEF BuildEnds
<1>4. CASE BuildSave
  BY <1>4, InvKept DEF BuildSave, Save, Then
<1>5. CASE RebuildSave
  BY <1>5, InvKept DEF RebuildSave, Save, Then
<1>6. ASSUME NEW c \in Commits, BuildCommit(c)
      PROVE  Passed' /\ Judged' /\ Out'
  BY <1>6, InvKept DEF BuildCommit
<1>7. CASE Issues
  BY <1>7, InvKept DEF Issues, Then
<1>8. CASE JobDies
  BY <1>8, InvKept DEF JobDies
<1>9. CASE Push \/ \E s \in Servers : Change(s)
  BY <1>9, InvKept DEF Push, Change, history
<1>10. CASE UNCHANGED vars
  BY <1>10, InvKept DEF vars, history
<1> QED
  BY <1>1, <1>2, <1>3, <1>4, <1>5, <1>6, <1>7, <1>8, <1>9, <1>10

LEMMA HandsStart == ASSUME Inv, StartRun
                    PROVE  Passed' /\ Judged' /\ Out'
<1>1. /\ step' = "buildRestore" /\ first' = Empty /\ artifact' = NoReport /\ report' = NoReport /\ dirty' = {}
      /\ published' = published /\ run' = run + 1 /\ run \in 0 .. MaxRuns
  BY DEF StartRun, Then, Inv, Typed
<1>2. published.run \in 0 .. MaxRuns /\ published.run <= run
  BY DEF Inv, Out, PublishedReports
<1>3. published.run <= run' /\ published.run # run'
  BY <1>1, <1>2, BoundAssumption
<1>4. Passed'
  BY <1>1 DEF Passed, Handed, FirstHas
<1>5. Judged'
  BY <1>1 DEF Judged
<1>6. published \in PublishedReports
  BY DEF Inv, Out
<1> QED
  BY <1>1, <1>3, <1>4, <1>5, <1>6 DEF Out

LEMMA HandsAudit == ASSUME Inv, AuditRestore \/ \E s \in Servers : Collect(s)
                    PROVE  Passed' /\ Judged' /\ Out'
<1> USE DEF github
<1>1. CASE AuditRestore
  <2>1. /\ step = "auditRestore" /\ step' = "auditCollect"
        /\ UNCHANGED <<artifact, report, published, run, first, seenClean, dirty>>
        /\ \A s \in Servers : entries'[s] = NoEntry
    BY <1>1 DEF AuditRestore, Then, NewJob
  <2>2. Passed'
    BY <2>1 DEF Inv, Passed, Early, FirstHas, Clean
  <2>3. Judged'
    BY <2>1 DEF Inv, Judged, Early, NoEntry
  <2>4. Out'
    BY <2>1 DEF Inv, Out, Clean
  <2> QED
    BY <2>2, <2>3, <2>4
<1>2. ASSUME NEW s \in Servers, Collect(s)
      PROVE  Passed' /\ Judged' /\ Out'
  <2>1. /\ step \in {"auditCollect", "againCollect"}
        /\ UNCHANGED <<artifact, report, published, run, first, step, retry>>
        /\ seenClean \subseteq seenClean'
        /\ step = "againCollect" => dirty' = dirty
    BY <1>2 DEF Collect
  <2>2. CASE step = "againCollect"
    <3>1. Clean \subseteq Clean'
      BY <2>1, <2>2 DEF Clean
    <3>2. Handed(artifact, run, first, Clean') /\ Handed(report, run, first, Clean')
      BY <3>1, MadeGrows DEF Inv, Passed
    <3>3. Passed'
      BY <2>1, <2>2, <3>2 DEF Inv, Passed, Early
    <3>4. Judged'
      BY <2>1, <2>2 DEF Judged, Early
    <3>5. Out'
      BY <2>1, <2>2 DEF Inv, Out
    <3> QED
      BY <3>3, <3>4, <3>5
  <2>3. CASE step = "auditCollect"
    <3>1. Passed'
      BY <2>1, <2>3 DEF Inv, Passed, Early, FirstHas, Handed
    <3>2. Out'
      BY <2>1, <2>3 DEF Inv, Out
    <3>3. ASSUME NEW t \in Servers
          PROVE  /\ entries'[t].kind = "none" => t \notin dirty'
                 /\ entries'[t].kind = "evidence" /\ entries'[t].state.intact => t \in Clean'
      <4>1. /\ entries[t].kind = "none" => t \notin dirty
            /\ entries[t].kind = "evidence" /\ entries[t].state.intact => t \in seenClean /\ t \notin dirty
        BY <2>3 DEF Inv, Judged, Clean
      <4>2. CASE t # s
        <5>1. entries'[t] = entries[t] /\ (t \in dirty' => t \in dirty)
          BY <1>2, <4>2 DEF Inv, Typed, Collect
        <5> QED
          BY <2>1, <4>1, <5>1 DEF Clean
      <4>3. CASE t = s
        <5>1. entries[s].kind = "none" /\ s \notin dirty
          BY <1>2, <4>1, <4>3 DEF Collect
        <5>2. CASE entries' = [entries EXCEPT ![s] = [kind |-> "error"]]
          <6>1. entries'[s] = [kind |-> "error"]
            BY <5>2 DEF Inv, Typed
          <6> QED
            BY <4>3, <6>1
        <5>3. CASE /\ entries' = [entries EXCEPT ![s] = [kind |-> "evidence", state |-> deployed[s]]]
                   /\ seenClean' = IF deployed[s].intact THEN seenClean \cup {s} ELSE seenClean
          <6>1. entries'[s] = [kind |-> "evidence", state |-> deployed[s]]
            BY <5>3 DEF Inv, Typed
          <6>2. deployed[s].intact => s \in seenClean' /\ s \notin dirty'
            BY <1>2, <5>1, <5>3 DEF Collect
          <6> QED
            BY <4>3, <6>1, <6>2 DEF Clean
        <5> QED
          BY <1>2, <5>2, <5>3 DEF Collect
      <4> QED
        BY <4>2, <4>3
    <3>4. Judged'
      BY <2>1, <2>3, <3>3 DEF Judged
    <3> QED
      BY <3>1, <3>2, <3>4
  <2> QED
    BY <2>1, <2>2, <2>3
<1> QED
  BY <1>1, <1>2

LEMMA HandsFirst == ASSUME Inv, AuditAppraise
                    PROVE  Passed' /\ Judged' /\ Out'
<1> USE DEF github
<1> DEFINE rows == [s \in Servers |-> Fresh(s)]
<1>1. /\ step = "auditCollect" /\ step' = "auditUpload"
      /\ UNCHANGED <<artifact, published, run, seenClean, dirty>>
      /\ report' = [run |-> run, finished |-> TRUE, servers |-> rows]
      /\ retry' = {s \in Servers : NeedsRetry(RetryOn, Fresh(s).result)}
      /\ first' = [s \in Servers |-> Fresh(s).result.status]
      /\ AllCollected
  BY DEF AuditAppraise, Then
<1>2. artifact = NoReport /\ published.run # run
  BY <1>1 DEF Inv, Passed, Out, Early
<1>3. \A s \in Servers : Fresh(s) \in ServerResult
  BY FreshType DEF Inv
<1>4. \A s \in Servers : Fresh(s).result.status \in Status
  BY <1>3 DEF ServerResult, Result
<1>5. MadeOf(report', run, first', Clean)
  <2>1. report' \in [run : {run}, finished : {TRUE}, servers : Whole]
    BY <1>1, <1>3 DEF Whole
  <2>2. \A s \in Servers : report'.servers[s] = Fresh(s) /\ first'[s] = Fresh(s).result.status
    BY <1>1
  <2>3. first' \in [Servers -> Status]
    BY <1>1, <1>4
  <2>4. \A s \in Servers : Fresh(s).result.status \in Permitted(Fresh(s).result.status)
    BY <1>4, PermittedItself
  <2>5. \A s \in Servers : Fresh(s).result.status = "pass" => s \in Clean
    BY <1>1, FreshPass
  <2> QED
    BY <2>1, <2>2, <2>3, <2>4, <2>5 DEF MadeOf
<1>6. \A s \in Servers : report'.servers[s].result.status = first'[s]
  BY <1>1
<1>7. report' # NoReport
  BY <1>1 DEF NoReport
<1>8. \A s \in retry' : first'[s] \in NotClean
  BY <1>1 DEF NeedsRetry
<1>9. first' \in [Servers -> Status]
  BY <1>5 DEF MadeOf
<1>10. Passed'
  BY <1>1, <1>2, <1>5, <1>6, <1>7, <1>8, <1>9 DEF Passed, Handed, FirstOf, Early, Clean
<1>11. Judged'
  BY <1>1 DEF Judged, Early
<1>12. Out'
  BY <1>1, <1>2 DEF Inv, Out
<1> QED
  BY <1>10, <1>11, <1>12

LEMMA HandsOn == ASSUME Inv, AuditUpload \/ AgainRestore \/ AgainDelete \/ AgainUpload \/ PublishDownload
                 PROVE  Passed' /\ Judged' /\ Out'
<1> USE DEF github, job
<1>1. CASE AuditUpload
  <2>1. /\ step = "auditUpload" /\ step' \in {"publishDownload", "rebuildRestore"}
        /\ UNCHANGED <<report, published, run, first, seenClean, dirty, retry>>
        /\ artifact' = report \/ artifact' = artifact
    BY <1>1 DEF AuditUpload, Then, KeepReport
  <2>2. Passed'
    BY <2>1 DEF Inv, Passed, Early, FirstHas, Clean
  <2> QED
    BY <2>1, <2>2 DEF Inv, Judged, Out, Early, Clean
<1>2. CASE AgainRestore
  <2>1. /\ step = "againRestore"
        /\ step' = IF artifact = NoReport THEN "publishDownload" ELSE "againCollect"
        /\ UNCHANGED <<artifact, published, run, first, seenClean, dirty, retry>>
        /\ report' = artifact
    BY <1>2 DEF AgainRestore, Then
  <2>2. Passed'
    BY <2>1 DEF Inv, Passed, Early, FirstHas, Clean
  <2> QED
    BY <2>1, <2>2 DEF Inv, Judged, Out, Early, Clean
<1>3. CASE AgainDelete
  <2>1. /\ step = "againDelete" /\ step' = "againUpload"
        /\ UNCHANGED <<report, published, run, first, seenClean, dirty, retry>>
        /\ artifact' = NoReport
    BY <1>3 DEF AgainDelete, Then
  <2>2. Passed'
    BY <2>1 DEF Inv, Passed, Handed, Early, FirstHas, Clean
  <2> QED
    BY <2>1, <2>2 DEF Inv, Judged, Out, Early, Clean
<1>4. CASE AgainUpload
  <2>1. /\ step = "againUpload" /\ step' = "publishDownload"
        /\ UNCHANGED <<report, published, run, first, seenClean, dirty, retry>>
        /\ artifact' = report \/ artifact' = artifact
    BY <1>4 DEF AgainUpload, Then, KeepReport
  <2>2. Passed'
    BY <2>1 DEF Inv, Passed, Early, FirstHas, Clean
  <2> QED
    BY <2>1, <2>2 DEF Inv, Judged, Out, Early, Clean
<1>5. CASE PublishDownload
  <2>1. /\ step = "publishDownload" /\ step' = "publish"
        /\ UNCHANGED <<artifact, published, run, first, seenClean, dirty, retry>>
        /\ report' = artifact
    BY <1>5 DEF PublishDownload, Then
  <2>2. Passed'
    BY <2>1 DEF Inv, Passed, Early, FirstHas, Clean
  <2> QED
    BY <2>1, <2>2 DEF Inv, Judged, Out, Early, Clean
<1> QED
  BY <1>1, <1>2, <1>3, <1>4, <1>5

LEMMA HandsSecond == ASSUME Inv, AgainAppraise
                     PROVE  Passed' /\ Judged' /\ Out'
<1> USE DEF github
<1> DEFINE row(s) == IF s \in retry THEN Second(report.servers[s], s) ELSE report.servers[s]
           rows == [s \in Servers |-> row(s)]
<1>1. /\ step = "againCollect" /\ step' = "againDelete"
      /\ UNCHANGED <<artifact, published, run, first, seenClean, dirty, retry>>
      /\ report' = [report EXCEPT !.servers = [s \in Reported |-> row(s)]]
  BY DEF AgainAppraise, Then
<1>2. /\ MadeOf(report, run, first, Clean)
      /\ \A s \in Servers : report.servers[s].result.status = first[s]
      /\ \A s \in retry : first[s] \in NotClean
      /\ Handed(artifact, run, first, Clean)
  BY <1>1 DEF Inv, Passed, Handed, FirstOf, FirstHas
<1>3. /\ report \in [run : {run}, finished : {TRUE}, servers : Whole]
      /\ first \in [Servers -> Status]
      /\ \A s \in Servers : /\ report.servers[s].result.status \in Permitted(first[s])
                            /\ report.servers[s].result.status = "pass" => s \in Clean
  BY <1>2 DEF MadeOf
<1>4. Reported = Servers
  BY <1>3 DEF Reported, Whole, Inv, Typed
<1>5. ASSUME NEW s \in Servers
      PROVE  /\ row(s) \in ServerResult
             /\ row(s).result.status \in Permitted(first[s])
             /\ row(s).result.status = "pass" => s \in Clean
  <2>1. report.servers[s] \in ServerResult
    BY <1>3 DEF Whole
  <2>2. CASE s \in retry
    <3>1. report.servers[s].result.status = first[s] /\ first[s] \in NotClean
      BY <1>2, <2>2
    <3>2. /\ Second(report.servers[s], s) \in ServerResult
          /\ Second(report.servers[s], s).result.status \in Permitted(first[s])
          /\ Second(report.servers[s], s).result.status # "pass"
      BY <2>1, <3>1, SecondMade DEF Inv
    <3> QED
      BY <2>2, <3>2
  <2>3. CASE s \notin retry
    BY <1>3, <2>1, <2>3
  <2> QED
    BY <2>2, <2>3
<1>6. report' = [report EXCEPT !.servers = rows]
  BY <1>1, <1>4
<1>7. rows \in Whole /\ \A s \in Servers : rows[s] = row(s)
  BY <1>5 DEF Whole
<1>8. report' \in [run : {run}, finished : {TRUE}, servers : Whole] /\ report'.servers = rows
  <2> HIDE DEF rows
  <2> QED
    BY <1>3, <1>6, <1>7
<1>9. MadeOf(report', run, first, Clean)
  <2>1. \A s \in Servers : report'.servers[s] = row(s)
    BY <1>7, <1>8
  <2> HIDE DEF rows, row
  <2> QED
    BY <1>3, <1>5, <1>8, <2>1 DEF MadeOf
<1>10. report' # NoReport
  <2>1. report'.finished = TRUE
    BY <1>8
  <2>2. NoReport.finished = FALSE
    BY DEF NoReport
  <2> QED
    BY <2>1, <2>2
<1>11. Passed'
  BY <1>1, <1>2, <1>9, <1>10 DEF Passed, Handed, Early, FirstHas, Clean
<1> QED
  BY <1>1, <1>11 DEF Inv, Judged, Out, Early, Clean

LEMMA HandsOut == ASSUME Inv, Publish
                  PROVE  Passed' /\ Judged' /\ Out'
<1> USE DEF github, job
<1>1. /\ step = "publish" /\ step' = "issues"
      /\ UNCHANGED <<artifact, report, run, first, seenClean, dirty, retry>>
      /\ published' = IF report = NoReport THEN [NoReport EXCEPT !.run = run] ELSE report
      /\ run \in 0 .. MaxRuns
  BY DEF Publish, Then, Inv, Typed
<1>2. Passed'
  BY <1>1 DEF Inv, Passed, Early, FirstHas, Clean
<1>3. Judged'
  BY <1>1 DEF Judged, Early
<1>4. CASE report = NoReport
  <2>1. published' = [run |-> run, finished |-> FALSE, servers |-> Empty]
    BY <1>1, <1>4 DEF NoReport
  <2>2. published' \in [run : 0 .. MaxRuns, finished : {FALSE}, servers : {Empty}]
    <3>1. run \in 0 .. MaxRuns
      BY <1>1
    <3> QED
      BY <2>1, <3>1
  <2>3. published' \in PublishedReports
    BY <2>2 DEF PublishedReports
  <2>4. published'.run = run /\ published'.run <= run
    BY <1>1, <2>1, BoundAssumption
  <2>5. ~published'.finished
    BY <2>1, Zenon
  <2> QED
    BY <1>1, <1>2, <1>3, <2>3, <2>4, <2>5 DEF Out
<1>5. CASE report # NoReport
  <2>1. published' = report /\ MadeOf(report, run, first, Clean)
    BY <1>1, <1>5 DEF Inv, Passed, Handed
  <2>2. report \in [run : {run}, finished : {TRUE}, servers : Whole]
    BY <2>1 DEF MadeOf
  <2>3. report \in PublishedReports /\ report.run = run
    BY <1>1, <2>2 DEF PublishedReports
  <2> QED
    BY <1>1, <1>2, <1>3, <2>1, <2>3 DEF Out, Clean
<1> QED
  BY <1>4, <1>5

LEMMA InvInit == Init => Inv
<1> SUFFICES ASSUME Init PROVE Inv
  OBVIOUS
<1>1. Typed
  BY TypedInit
<1>2. Passed
  BY DEF Init, Passed, Handed, Early, FirstHas
<1>3. Judged
  BY DEF Init, Judged, Early
<1>4. published \in PublishedReports /\ published.run = 0 /\ published.finished = FALSE
  BY BoundAssumption DEF Init, NoReport, PublishedReports
<1>5. Out
  BY <1>4 DEF Init, Out
<1> QED
  BY <1>1, <1>2, <1>3, <1>5 DEF Inv

LEMMA InvNext == Inv /\ [Next]_vars => Inv'
<1> SUFFICES ASSUME Inv, [Next]_vars
             PROVE  Inv'
  OBVIOUS
<1>1. Typed'
  BY TypedNext
<1>2. Passed' /\ Judged' /\ Out'
  BY KeepsInv, HandsStart, HandsAudit, HandsFirst, HandsOn, HandsSecond, HandsOut DEF Next, Job
<1> QED
  BY <1>1, <1>2 DEF Inv

LEMMA Invariance == Spec => []Inv
BY InvInit, InvNext, PTL DEF Spec

\* Every variable keeps its type, and a report has a row for each server of the
\* project or for none (lib/verify.js, appraiseCollected).
THEOREM TypeCorrect == Spec => []TypeOK
<1>1. Inv => TypeOK
  <2> SUFFICES ASSUME Inv PROVE TypeOK
    OBVIOUS
  <2>1. \A r \in {artifact, report, published} : r.servers \in Whole \/ r.servers = Empty
    BY Rows
  <2>2. \A r \in {artifact, report, published} : DOMAIN r.servers \in {{}, Servers}
    BY <2>1 DEF Whole, Empty
  <2>3. \A s \in DOMAIN report.servers : s \in Servers /\ report.servers[s] \in ServerResult
    BY <2>1 DEF Whole, Empty
  <2>4. DOMAIN first \subseteq Servers /\ \A s \in DOMAIN first : first[s] \in Status
    BY DEF Inv, Typed, Empty
  <2> QED
    BY <2>2, <2>3, <2>4 DEF Inv, Typed, TypeOK
<1> QED
  BY <1>1, Invariance, PTL

\* Whatever fails in the jobs, a server that failed the first audit of a run is
\* not published by it as passing or inconclusive, and no server is left out
\* (lib/verify.js:199-240, registry-project.yml).
THEOREM FailureSurvives == Spec => []FailureSurvivesJobs
<1>1. Inv => FailureSurvivesJobs
  <2> SUFFICES ASSUME Inv, Published
               PROVE  /\ DOMAIN published.servers = Servers
                      /\ \A s \in Servers :
                            first[s] = "fail" => published.servers[s].result.status \in {"fail", "warn"}
    BY DEF FailureSurvivesJobs
  <2>1. MadeOf(published, run, first, Clean)
    BY DEF Inv, Out, Published
  <2>2. /\ published \in [run : {run}, finished : {TRUE}, servers : Whole]
        /\ \A s \in Servers : published.servers[s].result.status \in Permitted(first[s])
    BY <2>1 DEF MadeOf
  <2>3. DOMAIN published.servers = Servers
    BY <2>2 DEF Whole
  <2>4. Permitted("fail") = {"fail", "warn"}
    BY DEF Permitted
  <2> QED
    BY <2>2, <2>3, <2>4
<1> QED
  BY <1>1, Invariance, PTL

\* What a run publishes as passing it has seen clean, and never otherwise
\* (lib/verify.js, combineAttempts; an earlier run's report is never taken).
THEOREM PassesAreEarned == Spec => []PassIsEarned
<1>1. Inv => PassIsEarned
  <2> SUFFICES ASSUME Inv, step = "issues", NEW s \in DOMAIN published.servers,
                      published.servers[s].result.status = "pass"
               PROVE  s \in seenClean \ dirty
    BY DEF PassIsEarned
  <2>1. published.run = run /\ published \in PublishedReports
    BY DEF Inv, Out
  <2>2. CASE published.finished
    <3>1. MadeOf(published, run, first, Clean)
      BY <2>1, <2>2 DEF Inv, Out
    <3>2. s \in Servers
      BY <3>1 DEF MadeOf, Whole
    <3> QED
      BY <3>1, <3>2 DEF MadeOf, Clean
  <2>3. CASE ~published.finished
    <3>1. published.servers = Empty
      BY <2>1, <2>3 DEF PublishedReports
    <3> QED
      BY <3>1 DEF Empty
  <2> QED
    BY <2>2, <2>3
<1> QED
  BY <1>1, Invariance, PTL

-----------------------------------------------------------------------------
(* Builds and issues, where the cache is never missed                      *)

LEMMA NoCommits == CommitsOf(NoReport) = {}
BY DEF CommitsOf, NoReport, Empty

LEMMA Restored == ASSUME ~MayMiss, RestoreBuilds
                  PROVE  Works /\ dir' = latest
BY DEF RestoreBuilds

LEMMA SmoothRestore == ASSUME ~MayMiss, Inv, Smooth,
                              BuildRestore \/ RebuildRestore \/ AuditRestore \/ AgainRestore
                       PROVE  Smooth'
<1> USE DEF github, Then
<1>1. /\ dir' = latest /\ UNCHANGED <<latest, saved, published, artifact>>
      /\ faultless' => faultless
  BY Restored DEF BuildRestore, RebuildRestore, AuditRestore, AgainRestore, Works, Fault
<1>2. Builds'
  BY <1>1 DEF Smooth, Builds, Has
<1>3. IssueFollowsStatus'
  BY DEF IssueFollowsStatus, BuildRestore, RebuildRestore, AuditRestore, AgainRestore
<1>4. CASE BuildRestore
  <2>1. step' = "build" /\ (faultless' => wanted' = Wanted(published))
    BY <1>4 DEF BuildRestore, Fault
  <2> QED
    BY <1>1, <1>2, <1>3, <2>1 DEF Smooth, Ready, Wanted
<1>5. CASE RebuildRestore
  <2>1. \/ step' = "rebuild" /\ wanted' = Wanted(artifact)
        \/ step' = "againRestore" /\ artifact = NoReport
    BY <1>5 DEF RebuildRestore
  <2>2. Ready'
    BY <1>1, <2>1, NoCommits DEF Ready, Wanted
  <2> QED
    BY <1>2, <1>3, <2>2 DEF Smooth
<1>6. CASE AuditRestore
  <2>1. step = "auditRestore" /\ step' = "auditCollect"
    BY <1>6 DEF AuditRestore
  <2>2. Ready'
    BY <1>1, <2>1 DEF Smooth, Ready
  <2> QED
    BY <1>2, <1>3, <2>2 DEF Smooth
<1>7. CASE AgainRestore
  <2>1. /\ step = "againRestore" /\ step' \in {"publishDownload", "againCollect"}
        /\ report' = artifact
    BY <1>7 DEF AgainRestore
  <2>2. Ready'
    BY <1>1, <2>1 DEF Smooth, Ready
  <2> QED
    BY <1>2, <1>3, <2>2 DEF Smooth
<1> QED
  BY <1>4, <1>5, <1>6, <1>7

LEMMA SmoothBuild == ASSUME Inv, Smooth, NEW c \in Commits, BuildCommit(c)
                     PROVE  Smooth'
<1>1. /\ step \in {"build", "rebuild"} /\ step' = step /\ wanted' = wanted \ {c}
      /\ UNCHANGED <<latest, saved, published, artifact>>
      /\ \A d \in Commits : d # c => dir'[d] = dir[d]
      /\ dir[c] = "built" => dir'[c] = "built"
  BY DEF BuildCommit, Works, github, Inv, Typed, Dir
<1>2. faultless' => faultless /\ dir'[c] = "built"
  BY DEF BuildCommit, Works, Fault, Inv, Typed, Dir
<1>3. Builds'
  BY <1>1 DEF Smooth, Builds, Has
<1>4. \A r \in {artifact, report, published} : CommitsOf(r) \in SUBSET Commits
  BY Rows, CommitsOfType
<1>5. Ready'
  BY <1>1, <1>2, <1>4 DEF Smooth, Ready
<1>6. IssueFollowsStatus'
  BY <1>1 DEF IssueFollowsStatus
<1> QED
  BY <1>3, <1>5, <1>6 DEF Smooth

LEMMA SmoothEnds == ASSUME Inv, Smooth, BuildEnds
                    PROVE  Smooth'
<1>1. /\ \/ step = "build" /\ step' = "buildSave"
         \/ step = "rebuild" /\ step' = "rebuildSave"
      /\ UNCHANGED <<latest, saved, published, artifact, dir>>
  BY DEF BuildEnds, github
<1>2. faultless' => faultless /\ wanted = {}
  BY DEF BuildEnds, Works, Fault
<1>3. Builds'
  BY <1>1 DEF Smooth, Builds, Has
<1>4. Ready'
  BY <1>1, <1>2 DEF Smooth, Ready
<1>5. IssueFollowsStatus'
  BY <1>1 DEF IssueFollowsStatus
<1> QED
  BY <1>3, <1>4, <1>5 DEF Smooth

\* The newest entry has all that any entry has: what is saved was restored from
\* it, and only more was built.
LEMMA SmoothSave == ASSUME Inv, Smooth, BuildSave \/ RebuildSave
                    PROVE  Smooth'
<1>1. /\ \/ step = "buildSave" /\ step' = "auditRestore"
         \/ step = "rebuildSave" /\ step' = "againRestore"
      /\ UNCHANGED <<published, artifact, dir>>
      /\ \/ UNCHANGED <<latest, saved>> /\ (faultless' => faultless /\ (dir = NoDir \/ dir \in saved))
         \/ latest' = dir /\ saved' = saved \cup {dir} /\ UNCHANGED faultless
  BY DEF BuildSave, RebuildSave, Save, Then, Works, Fault, job
<1>2. Has(latest, dir) /\ \A d \in saved : Has(d, latest)
  BY <1>1 DEF Smooth, Builds
<1>3. Builds'
  BY <1>1, <1>2 DEF Builds, Has
<1>4. \A r \in {artifact, report, published} : CommitsOf(r) \in SUBSET Commits
  BY Rows, CommitsOfType
<1>5. ASSUME faultless', NEW c \in Commits, dir[c] = "built"
      PROVE  latest'[c] = "built"
  <2>1. dir # NoDir
    BY <1>5 DEF NoDir
  <2> QED
    BY <1>1, <1>2, <1>5, <2>1 DEF Has
<1>6. Ready'
  BY <1>1, <1>4, <1>5 DEF Smooth, Ready
<1>7. IssueFollowsStatus'
  BY <1>1 DEF IssueFollowsStatus
<1> QED
  BY <1>3, <1>6, <1>7 DEF Smooth

LEMMA SmoothIssues == ASSUME Inv, Smooth, Issues
                      PROVE  Smooth'
<1>1. step' = "idle" /\ UNCHANGED <<latest, saved, published>> /\ issue' = NotPassing(published)
  BY DEF Issues, Then
<1>2. Builds' /\ Ready'
  BY <1>1 DEF Smooth, Builds, Ready
<1>3. IssueFollowsStatus'
  BY <1>1, Zenon DEF IssueFollowsStatus, NotPassing
<1> QED
  BY <1>2, <1>3 DEF Smooth

LEMMA SmoothRest == ASSUME Inv, Smooth, \/ StartRun \/ AuditAppraise \/ AuditUpload
                                        \/ AgainAppraise \/ AgainDelete \/ AgainUpload
                                        \/ PublishDownload \/ Publish \/ JobDies
                    PROVE  Smooth'
<1>1. /\ UNCHANGED <<latest, saved>>
      /\ \/ step' \in {"buildRestore", "auditUpload", "rebuildRestore", "publishDownload",
                       "againDelete", "againUpload", "publish", "issues"}
         \/ step' \in {"auditRestore", "againRestore", "idle"} /\ ~faultless'
  BY DEF StartRun, AuditAppraise, AuditUpload, AgainAppraise, AgainDelete, AgainUpload,
         PublishDownload, Publish, JobDies, Fault, Then, github
<1> QED
  BY <1>1 DEF Smooth, Builds, Ready, IssueFollowsStatus

LEMMA SmoothWorld == ASSUME Smooth, Push \/ (\E s \in Servers : Collect(s) \/ Change(s)) \/ UNCHANGED vars
                     PROVE  Smooth'
<1>1. /\ UNCHANGED <<latest, saved, dir, wanted, published, artifact, report, step, run, issue>>
      /\ faultless' => faultless
  BY DEF Push, Change, Collect, Works, Fault, vars, github, job, history
<1> QED
  BY <1>1 DEF Smooth, Builds, Ready, IssueFollowsStatus

\* Where the cache is never missed, a run in which nothing fails has the builds
\* of the commits its audits name, and its issue follows the status, whatever
\* earlier runs left (lib/appraise-directory.js:349, registry-project.yml).
THEOREM FaultlessRunsAreRight == ASSUME ~MayMiss PROVE Spec => []FaultlessRunIsRight
<1>1. Init => Smooth
  BY DEF Init, Smooth, Builds, Ready, IssueFollowsStatus
<1>2. Inv /\ Smooth /\ [Next]_vars => Smooth'
  BY SmoothRestore, SmoothBuild, SmoothEnds, SmoothSave, SmoothIssues, SmoothRest, SmoothWorld
     DEF Next, Job
<1>3. Smooth => FaultlessRunIsRight
  BY DEF Smooth, Ready, FaultlessRunIsRight, NamedBuildsAreReady, RebuiltForAgain
<1> QED
  BY <1>1, <1>2, <1>3, Invariance, InvInit, InvNext, PTL DEF Spec

-----------------------------------------------------------------------------
(* The jobs implement the retried audit                                    *)

Ended == {"issues", "idle"}

\* What the refinement mapping makes of a state.
FirstAt(f) == [s \in Servers |-> IF s \in DOMAIN f THEN f[s] ELSE "none"]

VerdictAt(st, n, p) ==
    [s \in Servers |-> IF st \in Ended /\ p.run = n /\ s \in DOMAIN p.servers
                       THEN p.servers[s].result.status ELSE "none"]

ReportAt(st, n, p) ==
    IF st \in Ended /\ p.run = n /\ n > 0
    THEN [status |-> StatusOfReport(p), servers |-> DOMAIN p.servers]
    ELSE [status |-> "none", servers |-> {}]

Blank == [s \in Servers |-> "none"]
Nothing == [status |-> "none", servers |-> {}]
Statuses == [Servers -> Status \cup {"none"}]

LEMMA SameArithmetic ==
    /\ Abstract!Status = Status /\ Abstract!None = "none"
    /\ \A f : Abstract!Permitted(f) = Permitted(f)
    /\ \A statuses : Abstract!OverallStatus(statuses) = OverallStatus(statuses)
BY DEF Abstract!Status, Status, Abstract!None, Abstract!Permitted, Permitted,
       Abstract!OverallStatus, OverallStatus

\* The mapping, and the abstract actions in its terms.
LEMMA AbstractVars ==
    FirstAt(first') = FirstAt(first) /\ VerdictAt(step', run', published') = VerdictAt(step, run, published)
        /\ ReportAt(step', run', published') = ReportAt(step, run, published)
        => UNCHANGED Abstract!vars
BY DEF FirstAt, VerdictAt, ReportAt, Ended, Abstract!vars

LEMMA AbstractNewRun ==
    FirstAt(first') = Blank /\ VerdictAt(step', run', published') = Blank
        /\ ReportAt(step', run', published') = Nothing
        => Abstract!NewRun
BY DEF FirstAt, VerdictAt, ReportAt, Ended, Blank, Nothing, Abstract!NewRun, Abstract!Blank,
       Abstract!NoReport, Abstract!None

LEMMA AbstractAttempt ==
    /\ FirstAt(first') \in Statuses
    /\ \A s \in Servers : FirstAt(first)[s] # "none" => FirstAt(first')[s] = FirstAt(first)[s]
    => Abstract!Attempt
BY SameArithmetic DEF FirstAt, Statuses, Abstract!Attempt, Abstract!Statuses, Abstract!Kept

LEMMA AbstractSettle ==
    /\ VerdictAt(step, run, published) = Blank
    /\ VerdictAt(step', run', published') \in Statuses
    /\ \A s \in Servers : VerdictAt(step', run', published')[s] # "none" =>
          /\ FirstAt(first')[s] # "none"
          /\ VerdictAt(step', run', published')[s] \in Permitted(FirstAt(first')[s])
    => Abstract!Settle
<1> SUFFICES ASSUME VerdictAt(step, run, published) = Blank,
                    VerdictAt(step', run', published') \in Statuses,
                    \A s \in Servers : VerdictAt(step', run', published')[s] # "none" =>
                       /\ FirstAt(first')[s] # "none"
                       /\ VerdictAt(step', run', published')[s] \in Permitted(FirstAt(first')[s])
             PROVE  Abstract!Settle
  OBVIOUS
<1>1. \A s \in Servers : VerdictAt(step, run, published)[s] = "none"
  BY DEF Blank
<1> QED
  BY <1>1, SameArithmetic DEF FirstAt, VerdictAt, Ended, Statuses, Abstract!Settle, Abstract!Statuses, Abstract!Kept

LEMMA Unsettled == ASSUME NEW st, NEW n, NEW p, st \notin Ended \/ p.run # n
                   PROVE  VerdictAt(st, n, p) = Blank /\ ReportAt(st, n, p) = Nothing
BY DEF VerdictAt, ReportAt, Blank, Nothing

LEMMA AbstractInit == Init => Abstract!Init
<1> SUFFICES ASSUME Init PROVE Abstract!Init
  OBVIOUS
<1>1. first = Empty /\ step = "idle" /\ run = 0 /\ published = NoReport
  BY DEF Init
<1>2. DOMAIN Empty = {} /\ published.servers = Empty
  BY <1>1 DEF Empty, NoReport
<1>3. FirstAt(first) = Blank /\ VerdictAt(step, run, published) = Blank
  BY <1>1, <1>2 DEF FirstAt, VerdictAt, Blank
<1>4. ReportAt(step, run, published) = Nothing
  BY <1>1 DEF ReportAt, Nothing
<1> QED
  BY <1>3, <1>4 DEF FirstAt, VerdictAt, ReportAt, Ended, Blank, Nothing, Abstract!Init, Abstract!Blank,
                    Abstract!NoReport, Abstract!None

\* Between its two ends a run changes no status: what the jobs hand on is not
\* published yet, and what broke off never is.
LEMMA AbstractSame == ASSUME UNCHANGED <<first, run, published>>,
                             (step \in Ended <=> step' \in Ended) \/ published.run # run
                      PROVE  UNCHANGED Abstract!vars
<1>1. /\ VerdictAt(step', run', published') = VerdictAt(step, run, published)
      /\ ReportAt(step', run', published') = ReportAt(step, run, published)
  BY DEF VerdictAt, ReportAt
<1> QED
  BY <1>1, AbstractVars

LEMMA AbstractQuiet == ASSUME Inv, [Next]_vars, ~StartRun, ~AuditAppraise, ~Publish
                       PROVE  UNCHANGED Abstract!vars
<1>1. CASE \/ BuildRestore \/ RebuildRestore \/ BuildEnds \/ BuildSave \/ RebuildSave
           \/ \E c \in Commits : BuildCommit(c)
  <2>1. UNCHANGED <<first, run, published>> /\ step \notin Ended /\ step' \notin Ended
    BY <1>1 DEF BuildRestore, RebuildRestore, BuildEnds, BuildSave, RebuildSave, Save, BuildCommit,
                Then, Ended, github
  <2> QED
    BY <2>1, AbstractSame
<1>2. CASE \/ AuditRestore \/ (\E s \in Servers : Collect(s)) \/ AuditUpload
           \/ AgainRestore \/ AgainAppraise \/ AgainDelete \/ AgainUpload \/ PublishDownload
  <2>1. UNCHANGED <<first, run, published>> /\ step \notin Ended /\ step' \notin Ended
    BY <1>2 DEF AuditRestore, Collect, AuditUpload, AgainRestore, AgainAppraise, AgainDelete,
                AgainUpload, PublishDownload, Then, Ended, github
  <2> QED
    BY <2>1, AbstractSame
<1>3. CASE Issues
  BY <1>3, AbstractSame DEF Issues, Then, Ended
<1>4. CASE JobDies
  <2>1. UNCHANGED <<first, run, published>>
    BY <1>4 DEF JobDies, github
  <2>2. (step \in Ended <=> step' \in Ended) \/ step \notin Ended
    BY <1>4 DEF JobDies, Ended
  <2> QED
    BY <1>4, <2>1, <2>2, AbstractSame DEF Inv, Out, Ended, JobDies
<1>5. CASE Push \/ (\E s \in Servers : Change(s)) \/ UNCHANGED vars
  BY <1>5, AbstractSame DEF Push, Change, vars, github, history
<1> QED
  BY <1>1, <1>2, <1>3, <1>4, <1>5 DEF Next, Job

LEMMA AbstractStart == ASSUME Inv, StartRun
                       PROVE  Abstract!NewRun
<1>1. step' \notin Ended /\ first' = Empty
  BY DEF StartRun, Then, Ended
<1>2. FirstAt(first') = Blank
  BY <1>1 DEF FirstAt, Blank, Empty
<1> QED
  BY <1>1, <1>2, Unsettled, AbstractNewRun

LEMMA AbstractFirst == ASSUME Inv, Inv', AuditAppraise
                       PROVE  Abstract!Progress
<1>1. /\ step = "auditCollect" /\ step' = "auditUpload"
      /\ UNCHANGED <<run, published>>
  BY DEF AuditAppraise, Then, github
<1>2. /\ VerdictAt(step, run, published) = Blank /\ VerdictAt(step', run', published') = Blank
      /\ ReportAt(step, run, published) = Nothing /\ ReportAt(step', run', published') = Nothing
  <2>1. step \notin Ended /\ step' \notin Ended
    BY <1>1 DEF Ended
  <2> QED
    BY <2>1, Unsettled
<1>3. first = Empty /\ first' \in [Servers -> Status]
  BY <1>1 DEF Inv, Passed, Early, FirstHas
<1>4. FirstAt(first) = Blank /\ FirstAt(first') \in Statuses
  BY <1>3 DEF FirstAt, Blank, Empty, Statuses
<1>5. Abstract!Attempt
  <2>1. \A s \in Servers : FirstAt(first)[s] = "none"
    BY <1>4 DEF Blank
  <2> QED
    BY <1>4, <2>1, AbstractAttempt
<1>6. Abstract!Settle
  <2>1. Blank \in Statuses /\ \A s \in Servers : Blank[s] = "none"
    BY DEF Blank, Statuses
  <2> QED
    BY <1>2, <2>1, AbstractSettle
<1>7. Abstract!Publish
  BY <1>2 DEF ReportAt, Ended, Abstract!Publish
<1> QED
  BY <1>5, <1>6, <1>7 DEF Abstract!Progress

LEMMA AbstractPublish == ASSUME Inv, Inv', Publish
                         PROVE  Abstract!Progress
<1> DEFINE before == VerdictAt(step, run, published)
           after == VerdictAt(step', run', published')
<1>1. /\ step = "publish" /\ step' = "issues" /\ UNCHANGED <<first, run>>
      /\ published'.run = run' /\ published' \in PublishedReports
  BY DEF Publish, Then, Inv, Out, job
<1>2. before = Blank /\ ReportAt(step, run, published) = Nothing
  BY <1>1, Unsettled DEF Ended
<1>3. Abstract!Attempt
  <2>1. FirstAt(first') \in Statuses /\ FirstAt(first') = FirstAt(first)
    BY <1>1 DEF Inv, Typed, FirstAt, Statuses, Empty
  <2> QED
    BY <2>1, AbstractAttempt
<1>4. CASE published'.finished
  <2>1. MadeOf(published', run', first', Clean')
    BY <1>1, <1>4 DEF Inv, Out
  <2>2. /\ published' \in [run : {run'}, finished : {TRUE}, servers : Whole]
        /\ first' \in [Servers -> Status]
        /\ \A s \in Servers : published'.servers[s].result.status \in Permitted(first'[s])
    BY <2>1 DEF MadeOf
  <2>3. DOMAIN published'.servers = Servers
    BY <2>2 DEF Whole
  <2>4. \A s \in Servers : published'.servers[s].result.status \in Status
    BY <2>2 DEF Whole, ServerResult, Result
  <2>5. \A s \in Servers : /\ after[s] = published'.servers[s].result.status
                           /\ FirstAt(first')[s] = first'[s] /\ first'[s] # "none"
    BY <1>1, <2>2, <2>3 DEF VerdictAt, FirstAt, Ended, Status
  <2>6. after \in Statuses
    BY <1>1, <2>3, <2>4 DEF VerdictAt, Statuses
  <2>7. Abstract!Settle
    BY <1>2, <2>2, <2>5, <2>6, AbstractSettle
  <2>8. CASE run' > 0
    <3>1. ReportAt(step', run', published') = [status |-> StatusOfReport(published'), servers |-> Servers]
      BY <1>1, <2>3, <2>8 DEF ReportAt, Ended
    <3>2. StatusOfReport(published') = OverallStatus({after[s] : s \in Servers})
      <4>1. {published'.servers[s].result.status : s \in Servers} = {after[s] : s \in Servers}
        BY <2>5
      <4> HIDE DEF after
      <4> QED
        BY <1>4, <2>3, <4>1 DEF StatusOfReport
    <3>3. \A s \in Servers : after[s] # "none"
      BY <2>4, <2>5 DEF Status
    <3>4. ReportAt(step', run', published') = [status |-> OverallStatus({after[s] : s \in Servers}), servers |-> Servers]
      BY <3>1, <3>2
    <3>5. Abstract!Publish
      BY <1>2, <3>3, <3>4, SameArithmetic
         DEF VerdictAt, ReportAt, Ended, Nothing, Abstract!Publish, Abstract!Complete, Abstract!NoReport
    <3> QED
      BY <1>3, <2>7, <3>5 DEF Abstract!Progress
  <2>9. CASE ~(run' > 0)
    <3>1. ReportAt(step', run', published') = Nothing
      BY <2>9 DEF ReportAt, Nothing
    <3>2. Abstract!Publish
      BY <1>2, <3>1 DEF ReportAt, Ended, Abstract!Publish
    <3> QED
      BY <1>3, <2>7, <3>2 DEF Abstract!Progress
  <2> QED
    BY <2>8, <2>9
<1>5. CASE ~published'.finished
  <2>1. published'.servers = Empty
    BY <1>1, <1>5 DEF PublishedReports
  <2>2. DOMAIN published'.servers = {}
    BY <2>1 DEF Empty
  <2>3. after = Blank
    BY <2>2 DEF VerdictAt, Blank
  <2>4. Abstract!Settle
    <3>1. Blank \in Statuses /\ \A s \in Servers : Blank[s] = "none"
      BY DEF Blank, Statuses
    <3> QED
      BY <1>2, <2>3, <3>1, AbstractSettle
  <2>5. ReportAt(step', run', published') \in {Nothing, [status |-> "error", servers |-> {}]}
    BY <1>5, <2>2 DEF ReportAt, Nothing, StatusOfReport
  <2>6. Abstract!Publish
    BY <1>2, <2>5, SameArithmetic
       DEF ReportAt, Ended, Nothing, Abstract!Publish, Abstract!NoReport, Abstract!Unfinished
  <2> QED
    BY <1>3, <2>4, <2>6 DEF Abstract!Progress
<1> QED
  BY <1>4, <1>5

\* The registry's jobs implement the retried audit: whatever fails in them, a
\* run publishes what its first attempts permit, once, of all the servers, or
\* says that the audit did not finish.
THEOREM JobsAreRetriedAudit == Spec => ImplementsRetriedAudit
<1>1. Inv /\ Inv' /\ [Next]_vars => [Abstract!Progress \/ Abstract!NewRun]_(Abstract!vars)
  BY AbstractQuiet, AbstractStart, AbstractFirst, AbstractPublish
<1> QED
  BY <1>1, Invariance, AbstractInit, PTL DEF Spec, ImplementsRetriedAudit, Abstract!Spec


-----------------------------------------------------------------------------
(* Progress                                                                *)

\* The steps of an hour, in the order of the workflow's jobs.
Order ==
    [p \in Steps |->
        IF p = "buildRestore" THEN 1 ELSE IF p = "build" THEN 2 ELSE IF p = "buildSave" THEN 3
        ELSE IF p = "auditRestore" THEN 4 ELSE IF p = "auditCollect" THEN 5 ELSE IF p = "auditUpload" THEN 6
        ELSE IF p = "rebuildRestore" THEN 7 ELSE IF p = "rebuild" THEN 8 ELSE IF p = "rebuildSave" THEN 9
        ELSE IF p = "againRestore" THEN 10 ELSE IF p = "againCollect" THEN 11 ELSE IF p = "againDelete" THEN 12
        ELSE IF p = "againUpload" THEN 13 ELSE IF p = "publishDownload" THEN 14 ELSE IF p = "publish" THEN 15
        ELSE IF p = "issues" THEN 16 ELSE 17]

\* How far the runs are; and what is left in a step that has parts.
Place  == 17 * run + Order[step]
ToDo   == wanted
ToCall == {s \in Servers : entries[s].kind = "none"}

Proper(S, T) == S \subseteq T /\ S # T

\* A step of a job, or a part of one.
Further ==
    \/ Place' > Place
    \/ Place' = Place /\ (Proper(ToDo', ToDo) \/ Proper(ToCall', ToCall))

LEMMA StepsAdvance ==
  ASSUME Typed, step' \in Steps, run' = run, Order[step'] > Order[step]
  PROVE  Place' > Place
  <1>1. run \in Nat /\ Order[step] \in Nat /\ Order[step'] \in Nat
    BY BoundAssumption DEF Typed, Order, Steps
  <1> QED
    BY <1>1 DEF Place

LEMMA JobAdvances == ASSUME Inv, Job PROVE Further
  <1> USE DEF Steps, Then, job, github, world
  <1>0. Typed /\ step \in Steps
    BY DEF Inv, Typed
  <1>1. CASE StartRun
    <2>1. run \in Nat /\ run' = run + 1 /\ Order[step] = 17 /\ Order[step'] = 1
      BY <1>0, <1>1, BoundAssumption DEF StartRun, Typed, Order
    <2> QED
      BY <2>1 DEF Further, Place
  <1>2. ASSUME NEW c \in Commits, BuildCommit(c) PROVE Further
    <2>1. Proper(ToDo', ToDo)
      BY <1>2 DEF BuildCommit, ToDo, Proper
    <2> QED
      BY <1>2, <2>1 DEF BuildCommit, Further, Place
  <1>3. ASSUME NEW s \in Servers, Collect(s) PROVE Further
    <2>1. entries \in [Servers -> Entry]
      BY <1>0 DEF Typed
    <2>2. /\ entries[s].kind = "none" /\ entries'[s].kind # "none"
          /\ \A t \in Servers \ {s} : entries'[t] = entries[t]
      BY <1>3, <2>1 DEF Collect
    <2>3. Proper(ToCall', ToCall)
      BY <2>2 DEF ToCall, Proper
    <2> QED
      BY <1>3, <2>3 DEF Collect, Further, Place
  <1>4. CASE BuildRestore \/ RebuildRestore \/ BuildEnds \/ BuildSave \/ RebuildSave
    <2>1. run' = run /\ step' \in Steps /\ Order[step'] > Order[step]
      BY <1>0, <1>4 DEF BuildRestore, RebuildRestore, BuildEnds, BuildSave, RebuildSave, Save, Order
    <2> QED
      BY <1>0, <2>1, StepsAdvance DEF Further
  <1>5. CASE AuditRestore \/ AuditAppraise \/ AuditUpload \/ AgainRestore
    <2>1. run' = run /\ step' \in Steps /\ Order[step'] > Order[step]
      BY <1>0, <1>5 DEF AuditRestore, AuditAppraise, AuditUpload, AgainRestore, Order
    <2> QED
      BY <1>0, <2>1, StepsAdvance DEF Further
  <1>6. CASE AgainAppraise \/ AgainDelete \/ AgainUpload \/ PublishDownload \/ Publish \/ Issues
    <2>1. run' = run /\ step' \in Steps /\ Order[step'] > Order[step]
      BY <1>0, <1>6 DEF AgainAppraise, AgainDelete, AgainUpload, PublishDownload, Publish, Issues, Order
    <2> QED
      BY <1>0, <2>1, StepsAdvance DEF Further
  <1>7. CASE JobDies
    <2>1. run' = run /\ step' \in Steps /\ Order[step'] > Order[step]
      BY <1>0, <1>7 DEF JobDies, Order
    <2> QED
      BY <1>0, <2>1, StepsAdvance DEF Further
  <1> QED
    BY <1>1, <1>2, <1>3, <1>4, <1>5, <1>6, <1>7 DEF Job

\* Every step of a job takes the run on, whatever fails: to a later job or step
\* of the workflow, or to one commit or server less in this one.  Nothing that
\* is pushed or deployed takes it back, and no job is entered twice in a run
\* (registry-project.yml).
THEOREM JobsAdvance == Spec => [][IF Job THEN Further ELSE UNCHANGED <<run, step, job>>]_vars
  <1>1. Inv /\ Next => IF Job THEN Further ELSE UNCHANGED <<run, step, job>>
    BY JobAdvances DEF Next, Push, Change, job
  <1> QED
    BY <1>1, Invariance, PTL DEF Spec

=============================================================================
