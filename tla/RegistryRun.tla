---------------------------- MODULE RegistryRun ----------------------------
(***************************************************************************)
(* The hourly runs of the registry for one project: the jobs of            *)
(* .github/workflows/registry-project.yml (build, audit, rebuild, again)   *)
(* and the publish job of registry.yml, with what they call in             *)
(* lib/registry.js, lib/verify.js (collect, appraiseCollected) and         *)
(* scripts/cli.js.                                                         *)
(*                                                                         *)
(* The jobs share no machine: builds pass from one to the next through a   *)
(* cache whose entries are keyed by their content and never change, and    *)
(* whose newest entry a job restores; the report passes through an         *)
(* artifact.  Any of it can fail, while commits are pushed and servers are *)
(* deployed to.  Runs follow each other, one at a time.                    *)
(***************************************************************************)
EXTENDS Verdict, FiniteSets

CONSTANTS
    Servers,     \* the project's servers
    Unpinned,    \* those whose SSH host keys are not pinned yet
    RetryOn,     \* policy.retryAfterSeconds > 0
    MayMiss,     \* whether restoring the cache may find nothing
    MaxCommit,   \* bound: commits pushed
    MaxRuns,     \* bound: hourly runs
    MaxChanges,  \* bound: deploys, tamperings and repairs
    MaxFaults    \* bound: things that fail in the jobs

ASSUME RegistryAssumption == Unpinned \subseteq Servers /\ {RetryOn, MayMiss} \subseteq BOOLEAN
ASSUME BoundAssumption == {MaxCommit, MaxRuns} \subseteq Nat \ {0} /\ {MaxChanges, MaxFaults} \subseteq Nat

Commits == 1 .. MaxCommit
\* A builds directory, in a job or in a cache entry: <key>.json or
\* <key>.failed.json per commit.
Build  == {"none", "built", "failed"}
Dir    == [Commits -> Build]
NoDir  == [c \in Commits |-> "none"]

Deployed == [commit : Commits, intact : BOOLEAN]
\* What collect() has of a server: nothing, an error, or evidence.
Entry    == [kind : {"none", "error"}] \cup [kind : {"evidence"}, state : Deployed]
NoEntry  == [kind |-> "none"]

\* A report: the run that made it, and the results of the servers it has,
\* with the commits it names (0: none).  publish() writes an unfinished one,
\* with no servers, for an audit that left no report.
ServerResult == [result : Result, commit : 0 .. MaxCommit]
Empty        == [s \in {} |-> 0]
NoReport     == [run |-> 0, finished |-> FALSE, servers |-> Empty]

Steps == {"idle",
          "buildRestore", "build", "buildSave",
          "auditRestore", "auditCollect", "auditUpload",
          "rebuildRestore", "rebuild", "rebuildSave",
          "againRestore", "againCollect", "againDelete", "againUpload",
          "publishDownload", "publish", "issues"}

VARIABLES
    \* the world
    head,       \* the newest commit of the audited branch
    deployed, changes,
    \* GitHub
    latest,     \* the newest entry of the builds cache
    saved,      \* the contents of every entry
    artifact,   \* report-<project>, of this run
    published,  \* projects/<project>/report.json on the status branch
    issue,      \* whether "[<project>] Audit Status is not passing" is open
    faults,
    \* the run
    run, step,
    dir,        \* the builds directory of the job
    wanted,     \* the commits the job builds
    entries, report,
    retry,      \* the audit job's output retry-servers
    \* history, only read by the properties
    first,      \* each server's first result of this run
    seenClean,  \* servers clean at some time of this run's collections
    dirty,      \* servers collected when they were not clean, first attempt
    faultless   \* nothing failed in this run

world   == <<head, deployed, changes>>
github  == <<latest, saved, artifact, published, issue>>
job     == <<dir, wanted, entries, report, retry>>
history == <<first, seenClean, dirty, faultless>>
vars    == <<world, github, faults, run, step, job, history>>

TypeOK ==
    /\ head \in Commits /\ deployed \in [Servers -> Deployed] /\ changes \in 0 .. MaxChanges
    /\ latest \in Dir /\ saved \in SUBSET Dir /\ dir \in Dir /\ wanted \in SUBSET Commits
    /\ issue \in BOOLEAN /\ faults \in 0 .. MaxFaults /\ faultless \in BOOLEAN
    /\ run \in 0 .. MaxRuns /\ step \in Steps /\ retry \in SUBSET Servers
    /\ entries \in [Servers -> Entry]
    /\ seenClean \in SUBSET Servers /\ dirty \in SUBSET Servers
    /\ \A s \in DOMAIN report.servers : s \in Servers /\ report.servers[s] \in ServerResult
    /\ \A r \in {artifact, published} : DOMAIN r.servers \in {{}, Servers}
    /\ DOMAIN first \subseteq Servers /\ \A s \in DOMAIN first : first[s] \in Status

Init ==
    /\ head = 1 /\ changes = 0
    /\ deployed = [s \in Servers |-> [commit |-> 1, intact |-> TRUE]]
    /\ latest = NoDir /\ saved = {} /\ artifact = NoReport /\ published = NoReport
    /\ issue = FALSE /\ faults = 0
    /\ run = 0 /\ step = "idle" /\ dir = NoDir /\ wanted = {}
    /\ entries = [s \in Servers |-> NoEntry] /\ report = NoReport /\ retry = {}
    /\ first = Empty /\ seenClean = {} /\ dirty = {} /\ faultless = TRUE

-----------------------------------------------------------------------------
Then(from, to) == step = from /\ step' = to

Works == UNCHANGED <<faults, faultless>>
Fault == faults < MaxFaults /\ faults' = faults + 1 /\ faultless' = FALSE

NewJob == entries' = [s \in Servers |-> NoEntry]

\* The schedule starts a run when none is in progress (concurrency: registry).
StartRun ==
    /\ run < MaxRuns /\ run' = run + 1
    /\ Then("idle", "buildRestore")
    /\ artifact' = NoReport /\ report' = NoReport /\ retry' = {}
    /\ first' = Empty /\ seenClean' = {} /\ dirty' = {} /\ faultless' = TRUE
    /\ UNCHANGED <<world, latest, saved, published, issue, faults, dir, wanted, entries>>

-----------------------------------------------------------------------------
(* The builds cache                                                        *)

\* actions/cache/restore with a prefix: the newest entry, or nothing.
RestoreBuilds ==
    \/ Works /\ dir' = latest
    \/ MayMiss /\ Fault /\ dir' = NoDir

\* actions/cache/save: an entry with this content exists already, or this
\* becomes the newest.  Saved whatever the build did, when there is anything.
Save(from, to) ==
    /\ Then(from, to)
    /\ \/ /\ Works
          /\ IF dir = NoDir \/ dir \in saved THEN UNCHANGED <<latest, saved>>
             ELSE latest' = dir /\ saved' = saved \cup {dir}
       \/ Fault /\ UNCHANGED <<latest, saved>>
    /\ UNCHANGED <<world, artifact, published, issue, run, job, first, seenClean, dirty>>

BuildSave   == Save("buildSave", "auditRestore")
RebuildSave == Save("rebuildSave", "againRestore")

-----------------------------------------------------------------------------
(* build and rebuild: buildCommits()                                       *)

\* Mutant: what is not a commit is built, too.
CommitsAll(r) == {r.servers[s].commit : s \in DOMAIN r.servers}

CommitsOf(r) == {r.servers[s].commit : s \in DOMAIN r.servers} \ {0}

\* Mutant: only the branch's latest commit is built.
WantedHead(r) == {head}

Wanted(r) == {head} \cup CommitsOf(r)

\* The branch's latest commit, and those the servers ran in a report.
BuildRestore ==
    /\ Then("buildRestore", "build")
    /\ \/ RestoreBuilds /\ wanted' = Wanted(published)
       \/ Fault /\ dir' = latest /\ wanted' = Wanted(NoReport)
    /\ UNCHANGED <<world, github, run, entries, report, retry, first, seenClean, dirty>>

\* After the delay.  Without the first attempt's report nothing is built.
RebuildRestore ==
    /\ step = "rebuildRestore"
    /\ RestoreBuilds
    /\ IF artifact = NoReport THEN step' = "againRestore" /\ wanted' = {}
       ELSE step' = "rebuild" /\ wanted' = Wanted(artifact)
    /\ UNCHANGED <<world, github, run, entries, report, retry, first, seenClean, dirty>>

\* outputs() of one commit: a cached success stays, a failure is tried again.
BuildCommit(c) ==
    /\ step \in {"build", "rebuild"} /\ c \in wanted
    /\ wanted' = wanted \ {c}
    /\ \/ Works /\ dir' = [dir EXCEPT ![c] = "built"]
       \/ Fault /\ dir[c] # "built" /\ dir' = [dir EXCEPT ![c] = "failed"]
    /\ UNCHANGED <<world, github, run, step, entries, report, retry, first, seenClean, dirty>>

\* All are done, or the job's timeout ends it.
BuildEnds ==
    /\ step \in {"build", "rebuild"}
    /\ step' = IF step = "build" THEN "buildSave" ELSE "rebuildSave"
    /\ IF wanted = {} THEN Works ELSE Fault
    /\ wanted' = {}
    /\ UNCHANGED <<world, github, run, dir, entries, report, retry, first, seenClean, dirty>>

-----------------------------------------------------------------------------
(* audit and again: registry audit                                         *)

F(severity, check) == [severity |-> severity, check |-> check]

AuditRestore ==
    /\ Then("auditRestore", "auditCollect")
    /\ RestoreBuilds
    /\ NewJob
    /\ UNCHANGED <<world, github, run, wanted, report, retry, first, seenClean, dirty>>

\* The servers this job collects: all, or those named with --server.
Asked == IF step = "auditCollect" THEN Servers ELSE retry

\* collect(): a server that is not pinned is never contacted.  (What makes an
\* answer fresh is VerifyRun's.)
Collect(s) ==
    /\ step \in {"auditCollect", "againCollect"}
    /\ s \in Asked /\ entries[s].kind = "none"
    /\ \/ /\ s \notin Unpinned /\ Works
          /\ entries' = [entries EXCEPT ![s] = [kind |-> "evidence", state |-> deployed[s]]]
          /\ seenClean' = IF deployed[s].intact THEN seenClean \cup {s} ELSE seenClean
       \/ /\ IF s \in Unpinned THEN Works ELSE Fault
          /\ entries' = [entries EXCEPT ![s] = [kind |-> "error"]]
          /\ UNCHANGED seenClean
    /\ dirty' = IF step = "auditCollect" /\ ~deployed[s].intact THEN dirty \cup {s} ELSE dirty
    /\ UNCHANGED <<world, github, run, step, dir, wanted, report, retry, first>>

\* appraiseServer(), with builds from the cache only (appraiseBuild()).
Appraised(s) ==
    LET e == entries[s]
    IN  IF e.kind = "error" THEN {F("error", "transport")}
        ELSE {f \in {F("fail", "source")} : ~e.state.intact}
             \cup {f \in {F("error", "build")} : dir[e.state.commit] # "built"}

Fresh(s) == [result |-> ResultOf(Appraised(s)),
             commit |-> IF entries[s].kind = "evidence" THEN entries[s].state.commit ELSE 0]

\* Mutant: a server without evidence holds the others up.
AllAnswered == \A s \in Asked : entries[s].kind = "evidence"

AllCollected == \A s \in Asked : entries[s].kind # "none"

\* The first attempt names the servers to collect again.
AuditAppraise ==
    /\ Then("auditCollect", "auditUpload") /\ AllCollected /\ Works
    /\ report' = [run |-> run, finished |-> TRUE, servers |-> [s \in Servers |-> Fresh(s)]]
    /\ retry' = {s \in Servers : NeedsRetry(RetryOn, Fresh(s).result)}
    /\ first' = [s \in Servers |-> Fresh(s).result.status]
    /\ UNCHANGED <<world, github, run, dir, wanted, entries, seenClean, dirty>>

KeepReport ==
    \/ Works /\ artifact' = report
    \/ Fault /\ UNCHANGED artifact

\* The job's outputs stand even when the report cannot be kept.
AuditUpload ==
    /\ Then("auditUpload", IF retry = {} THEN "publishDownload" ELSE "rebuildRestore")
    /\ KeepReport
    /\ UNCHANGED <<world, latest, saved, published, issue, run, job, first, seenClean, dirty>>

\* Without the first attempt's report the job fails.
AgainRestore ==
    /\ Then("againRestore", IF artifact = NoReport THEN "publishDownload" ELSE "againCollect")
    /\ RestoreBuilds
    /\ report' = artifact
    /\ NewJob
    /\ UNCHANGED <<world, github, run, wanted, retry, first, seenClean, dirty>>

\* Mutant: the second result replaces the first.
SecondAlone(before, s) == Fresh(s)

\* appraiseCollected() with the first attempt's report as the previous one.
Second(before, s) ==
    [Fresh(s) EXCEPT !.result = IF before.result.status \in NotClean
                                THEN CombineAttempts(before.result, @) ELSE @]

\* Mutant: only what was collected again is reported.
ReportedAgain == retry

\* A server without a new entry keeps its previous result.
Reported == {s \in Servers : s \in retry \/ s \in DOMAIN report.servers}

AgainAppraise ==
    /\ Then("againCollect", "againDelete") /\ AllCollected /\ Works
    /\ report' = [report EXCEPT !.servers =
                     [s \in Reported |-> IF s \in retry THEN Second(report.servers[s], s) ELSE report.servers[s]]]
    /\ UNCHANGED <<world, github, run, dir, wanted, entries, retry, first, seenClean, dirty>>

\* upload-artifact with overwrite deletes the first attempt's, then uploads.
AgainDelete ==
    /\ Then("againDelete", "againUpload") /\ Works
    /\ artifact' = NoReport
    /\ UNCHANGED <<world, latest, saved, published, issue, run, job, first, seenClean, dirty>>

AgainUpload ==
    /\ Then("againUpload", "publishDownload")
    /\ KeepReport
    /\ UNCHANGED <<world, latest, saved, published, issue, run, job, first, seenClean, dirty>>

\* A job fails for good: the next one starts where it can.  A failed audit
\* has no outputs.
JobDies ==
    /\ Fault
    /\ \/ step \in {"buildRestore", "build", "buildSave"} /\ step' = "auditRestore"
       \/ step \in {"rebuildRestore", "rebuild", "rebuildSave"} /\ step' = "againRestore"
       \/ step \in {"auditRestore", "auditCollect", "againRestore", "againCollect", "againDelete"}
          /\ step' = "publishDownload"
       \/ step \in {"publishDownload", "publish", "issues"} /\ step' = "idle"
    /\ UNCHANGED <<world, github, run, job, first, seenClean, dirty>>

-----------------------------------------------------------------------------
(* publish                                                                 *)

StatusOfReport(r) == IF r.finished THEN OverallStatus({r.servers[s].result.status : s \in DOMAIN r.servers})
                     ELSE "error"

\* Mutant: an inconclusive project needs no issue.
NotPassingFail(r) == StatusOfReport(r) = "fail"

NotPassing(r) == StatusOfReport(r) \in NotClean

PublishDownload ==
    /\ Then("publishDownload", "publish") /\ Works
    /\ report' = artifact
    /\ UNCHANGED <<world, github, run, dir, wanted, entries, retry, first, seenClean, dirty>>

\* publish(), the attestation and the push of the status branch.
Publish ==
    /\ Then("publish", "issues") /\ Works
    /\ published' = IF report = NoReport THEN [NoReport EXCEPT !.run = run] ELSE report
    /\ UNCHANGED <<world, latest, saved, artifact, issue, run, job, first, seenClean, dirty>>

Issues ==
    /\ Then("issues", "idle") /\ Works
    /\ issue' = NotPassing(published)
    /\ UNCHANGED <<world, latest, saved, artifact, published, run, job, first, seenClean, dirty>>

-----------------------------------------------------------------------------
(* The world                                                               *)

Push ==
    /\ head < MaxCommit /\ head' = head + 1
    /\ UNCHANGED <<deployed, changes, github, faults, run, step, job, history>>

Change(s) ==
    /\ changes < MaxChanges /\ changes' = changes + 1
    /\ \E c \in 1 .. head, i \in BOOLEAN :
          /\ deployed[s] # [commit |-> c, intact |-> i]
          /\ deployed' = [deployed EXCEPT ![s] = [commit |-> c, intact |-> i]]
    /\ UNCHANGED <<head, github, faults, run, step, job, history>>

Job == \/ StartRun
       \/ BuildRestore \/ (\E c \in Commits : BuildCommit(c)) \/ BuildEnds \/ BuildSave
       \/ AuditRestore \/ (\E s \in Servers : Collect(s)) \/ AuditAppraise \/ AuditUpload
       \/ RebuildRestore \/ RebuildSave
       \/ AgainRestore \/ AgainAppraise \/ AgainDelete \/ AgainUpload
       \/ PublishDownload \/ Publish \/ Issues
       \/ JobDies

Next == Job \/ Push \/ \E s \in Servers : Change(s)

Spec == Init /\ [][Next]_vars

\* The schedule comes every hour, and every job has a timeout.
FairSpec == Spec /\ WF_vars(Job)

-----------------------------------------------------------------------------
(* Properties                                                              *)

Published == step \in {"issues", "idle"} /\ published.run = run /\ published.finished

\* Whatever fails on the way, a finished report has every server of the
\* project, and none of those that failed the first audit is published as
\* clean or merely inconclusive.
FailureSurvivesJobs ==
    Published =>
        /\ DOMAIN published.servers = Servers
        /\ \A s \in Servers : first[s] = "fail" => published.servers[s].result.status \in {"fail", "warn"}

\* A server that the status branch calls passing, once a run has published,
\* was found clean in that run: not in an earlier one whose report is still
\* there, and not only after it had been put right.
PassIsEarned ==
    step = "issues" => \A s \in DOMAIN published.servers :
        published.servers[s].result.status = "pass" => s \in seenClean \ dirty

\* "the registry builds the deployed commit in a job of its own before the
\* next run" (lib/appraise-directory.js:349): in a run in which nothing
\* fails, no server is left without the build of a commit that the last
\* published report named.
NamedBuildsAreReady ==
    step = "auditCollect" /\ faultless => \A c \in CommitsOf(published) : dir[c] = "built"

\* ... and a server that is collected again has its build, unless it was
\* deployed to since the first attempt.
RebuiltForAgain ==
    step = "againCollect" /\ faultless => \A c \in CommitsOf(report) : dir[c] = "built"

\* A run in which nothing fails leaves an open issue exactly for a project
\* that is not passing, whatever earlier runs that broke off left.
IssueFollowsStatus ==
    step = "idle" /\ run > 0 /\ faultless => issue = (StatusOfReport(published) \in NotClean)

\* A run in which nothing fails makes up for whatever the run before it broke
\* off at: builds are there for each of its audits, and the issue is right.
FaultlessRunIsRight == NamedBuildsAreReady /\ RebuiltForAgain /\ IssueFollowsStatus

\* Every scheduled run comes to its end.
RunsEnd == <>(run = MaxRuns /\ step = "idle")

Abstract == INSTANCE RetriedAudit WITH
    audited <- Servers,
    first   <- [s \in Servers |-> IF s \in DOMAIN first THEN first[s] ELSE "none"],
    verdict <- [s \in Servers |-> IF step \in {"issues", "idle"} /\ published.run = run /\ s \in DOMAIN published.servers
                                  THEN published.servers[s].result.status ELSE "none"],
    report  <- IF step \in {"issues", "idle"} /\ published.run = run /\ run > 0
               THEN [status |-> StatusOfReport(published), servers |-> DOMAIN published.servers]
               ELSE [status |-> "none", servers |-> {}]

ImplementsRetriedAudit == Abstract!Spec
=============================================================================
