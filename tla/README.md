# Audit Status: verification project

TLA+ models of the Audit Status verifier and registry, checked with TLC, and proofs about them checked with TLAPS. Paths are relative to the repository.

## The system

Servers run an *attester*: on request it answers with *evidence* (files, processes, commits, measurements) that carries the request's nonce. A *verifier*, run in CI, collects evidence over SSH, compares it with *references* (a git mirror of the audited repository, packages, reproduced builds) and writes a *report*. The *registry* is an hourly GitHub workflow that verifies every registered project with the same code, split over jobs so that the job with the SSH key runs no code of a project.

| Component | State | Operations | Hard to get right |
| --- | --- | --- | --- |
| verify (`lib/verify.js`) | per server: where its task is, the first result, the result; the report | `verify`, `collectFrom`, `appraiseEntry`, `combineAttempts`, `buildReport`, `collect`, `appraiseCollected` | concurrency with a limit, second attempts, late or foreign answers, what the first attempt found |
| appraisal (`lib/appraise*.js`) | findings of one server | `appraiseServer` and one function per check | early returns, inconclusive against failing, two sources (evidence and kernel) that contradict each other |
| references (`lib/references.js`, `lib/git.js`) | a bare mirror, one worktree per commit, memoized promises | `fetch`, `commitInfo`, `tree`, `expectedVersion`, `pruneTrees` | memoized values that go stale during a run, directories shared by instances, crashes |
| builds (`lib/build.js`) | work directories and their owners, processes, `<key>.json`, `<key>.failed.json` | `outputs`, `enter`, `run`, `stop`, `leave` | builds at the same time, processes that outlive their build, failures in any step, crashes |
| registry runs (`lib/registry.js`, `scripts/cli.js`, `.github/workflows/registry*.yml`) | the builds cache, an artifact, the status branch, issues | jobs build, audit, rebuild, again, publish | state passed between machines, any step failing, runs that follow each other |
| registry files (`lib/registry.js`) | a project's file, `known_hosts` | `readProject`, `withHostKeys`, `withTpmKeys`, `knownHosts`, `plan` | ports and default ports, files rewritten by commands |
| transport (`lib/ssh.js`, `lib/transport.js`, `lib/kubernetes.js`) | a child process, its output and timers; a port-forward | `run`, `runOverSsh`, `findPod`, `forward` | events in any order, settled once; a pod that is not the attester's |
| attester's service (`lib/remote.js`, `lib/enroll.js`) | the queue of `serve`, the TPM's key, the enrolled key | `serve`, `remote`, `enrollTpm` | limits, time outs, abandoned requests, two enrollments |
| evidence (`lib/evidence.js`) | what has been read so far | `collectEvidence` | a machine that changes while it is read |
| configuration (`lib/config.js`) | two files | `loadVerifierConfig`, `loadAttesterConfig` | defaults and spellings that weaken an audit; who may write what root reads |
| doctor (`lib/doctor.js`) | none | `attesterDoctor`, `verifierDoctor` | conditions written twice, here and where they matter |
| reports (`lib/report.js`, `lib/report-attestation.js`) | files | `badge`, `weakestLevel`, `summarize`, `verifyReportAttestation` | a badge never better than its report; old files beside new ones |
| action, init, release, pages, site, packaging | files | scripts | |

How they interact: `verify` runs one task per server with `parallelMap`; tasks share one `References` object, whose promises are memoized, so one task's fetch or build serves (and its failure strikes) the others. The registry's jobs share nothing but the builds cache, the artifact `report-<project>` and job outputs; runs share the cache and the status branch.

What makes each component correct:

- verify: a failure is not lost between two attempts; a passing verdict rests on a fresh answer; a restored server is not reported clean; a healthy server is not reported failing; the report is the worst of exactly the servers selected; every run ends.
- references: a run judges by one snapshot of the branch; a tree that is used is the commit's, whatever an interrupted run left.
- builds: what is cached is the whole output of the command in a clean checkout; nothing of the build runs when its outputs are hashed; builds do not disturb each other; every build settles.
- registry: what the first audit found survives the jobs; a project passes only on what this run saw; the builds an audit needs are there; the issue follows the status. Its files name each server's keys, and no other's.
- transport and service: a call ends once, with a whole answer to its own request or an error, and leaves nothing behind; the queue is bounded and moves; the key that is enrolled is in the TPM.
- evidence: what runs, what it loaded and what changed since it started is in it, although nothing stands still.
- appraisal: what passes was published; what ran is known; what is left out is found; what cannot be fetched fails in known cases only, and is inconclusive else.
- configuration: what an accepted file asks for is enforced. Doctor: what it does not mention works.
- reports: a badge or an accepted report is backed by the servers' evidence and the workflow's signature.

## Modules

| Module | What it is |
| --- | --- |
| `Verdict` | Operators: status of findings, of a report, `needsRetry`, `combineAttempts` |
| `RetriedAudit` | Abstract specification of an audit with second attempts: what a first status may become, and what a report says |
| `VerifyRun` | `auditstatus verify`, with the world it observes |
| `VerdictProofs` | Lemmas about `Verdict` |
| `VerifyRunProofs` | Theorems about `VerifyRun`: types, freshness, what two attempts keep; slots, report, versions, false alarms, implementation of `RetriedAudit`, progress |
| `BuildRuns` | Reproduced builds: `BuildReference`, `BuildAccount`, `run` |
| `RegistryRun` | The registry's hourly jobs for one project |
| `GitCache` | The git mirror and its worktrees, shared by instances and by runs |
| `AttesterCalls` | Transports, the attester's service and TPM enrollment |
| `Collection` | `collectEvidence` on a machine that goes on running |
| `BuildRunsProofs`, `RegistryRunProofs`, `GitCacheProofs`, `AttesterCallsProofs`, `CollectionProofs`, `DecisionsProofs` | Theorems about each |
| `CodeAppraisal` | Operators: one file, or one program the monitor saw, against references, IMA log and policy |
| `ServiceAppraisal` | Operators: releases, locks, installs, processes, containers |
| `ServerAppraisal` | Operators: hardware, the attester's binary, expected services, global tools |
| `Configuration` | Operators: the verifier's and the attester's files |
| `RegistryFiles` | Operators: projects, host keys, TPM keys, planned builds |
| `Readiness` | Operators: `doctor` against evidence and audit; the commit of a checkout |
| `Pods` | Operators: which pod is asked |
| `Reports` | Operators: badges, levels, attested reports |
| `Decisions` | Specification: one decision of the operator modules on one input |
| `MC...` | Instances for TLC: symmetry and constant functions |

`CodeAppraisal`, `ServiceAppraisal`, `ServerAppraisal`, `Configuration`, `RegistryFiles` and `Readiness` each extend the one before: a service's findings contain its files', a configuration is judged by what the appraisal of a server makes of it, a registry file by what the configuration accepts, and `doctor` by all of them. `Reports` uses `Verdict` as `VerifyRun` does.

A definition that follows a comment beginning with "Mutant:" is a plausible mistake in the definition after it. It is used by no specification; put in that definition's place, it makes a run fail.

### VerifyRun

| State | Code |
| --- | --- |
| `phase`, `attempt`, `first`, `result` | the continuation of each task of `verify()`: queued in `parallelMap`, awaiting `collectFrom`, awaiting references in `appraiseServer`, in `sleep`, resolved |
| `requests`, `answers` | SSH calls that were made, answers given. Answers are never removed: any of them may arrive for any collection, again or late; one of an earlier run is there from the start |
| `entry` | what `collectFrom` returns for a fresh answer, with the time it was received |
| `fetched`, `mirror` | `GitReference._fetched` and the branch tip it found |
| `tip`, `aged`, `deployed` | the world: the branch, which commits outgrew the grace period, what each server runs |
| `wasClean`, `steady`, `neverClean`, `calm` | history for the properties; no action reads them |

`Start`, `Wake` are the calls of `collectFrom`; `Receive`, `Reject`, `Timeout` are the ways it and the checks before the first `await` end; `Fetch` is the memoized fetch; `Appraise` is the rest of `appraiseServer`; `Report` is `buildReport` after `parallelMap`. A server's state is its commit and whether the files are that commit's: `appraiseVersion` and `appraiseTree` look at no more. Other checks add any set of findings of the severities in `OtherSeverities`.

### BuildRuns

A build is a service's build of a commit; `KeyOf` is its cache key. `phase` follows `_build()` from one system call or `await` to the next, and `reason` is the error it carries through `finally` and `catch`. A directory is absent, the commit's files, those with the whole output, or something else; `owner` is who may write it; `alive` are the builds that have processes. `Meddle` is a process a command left behind. `Killed` is the shell's exit when something else killed it. `Crash` ends the verifier: files stay, `<key>.json` may be torn while it is written, processes go on.

### RegistryRun

`step` is the job and step the run is at: the jobs of one project follow each other. `latest` and `saved` are the builds cache (entries are keyed by their content and never change), `artifact` the uploaded report, `published` the report on the status branch. Each action is a step of a workflow with the function it calls; `JobDies` and the alternatives with `Fault` are steps that fail, jobs that time out or are lost. Projects with a build are modelled; the freshness of answers is `VerifyRun`'s.

### GitCache

`mirror`, `refs`, `objects`, `checkout` are what is on disk: `repos/<url>.git`, and `worktrees/<commit>` as absent, files without `.git`, `.git` without every file, or whole. They outlive runs; `fetched`, `info`, `task`, `tree` are each instance's `_fetched`, what `commitInfo` answered, where `tree()` is and its `_trees`, and end with the process. `StartFetch`, `EndFetch`, `FetchFails` are `fetch()`; `Ask`, `Look`, `AddStart`, `AddEnd`, `Read` are `commitInfo()` and `tree()` from one git command to the next; `PruneTrees` is `pruneCache` for every instance; `Crash` kills the process in any of them; `Push` moves or rewrites a branch. Two instances are two branches of one repository, which share everything on disk. `excused` has the checkouts that two instances made at the same time or that a kill tore: the code trusts a `.git` file, so those may be partial, and only those.

### AttesterCalls

`call` is each caller's request, from starting the child or finding the pod through the output's parts to the settled promise; `work` is how far the attester is with it, which an abandoned caller does not stop. Over SSH every operation is a process of its own. Through a port-forward they pass `queue` and `pending` of one `serve`, together with requests of strangers on the server. `ak` and `made` are the TPM; `enrolled` what `enrollTpm` returned after its two requests. A dishonest server answers anything that it can compute. Timeout, output limit, exit and close come in any order.

### Collection

Between any two steps of `collectEvidence` the world takes a step: a file is changed or put back, a process starts, ends or loads code, a binary is upgraded, the kernel measures a file. `step` follows the collection in the order of the code: list processes, containers, services (trees, times, processes, executables), what no service claimed, digest, quote, IMA log. `disk` is one file with its times, which stands for all; a behaviour is `about` one kind of file, the processes, or the log. What a program only knows of a process that still lives (its executable, PM2's mark in its environment) is read when it is inspected, so that the PM2 daemon of an application that ended before is not found (`evidence.js:680-687`); a process whose start is not known gets no changes (`evidence.js:450`). Unclaimed processes are cut at `MaxUnclaimed`, 256 in the code, without a mark (`evidence.js:703`); the quote and the log may be missing. `ran` and `mended` are history: who loaded wrong contents, and when they were replaced.

### Decisions and the modules below it

These parts of the program compute a result from an input, without a state of their own. A module has an operator for each function, from a record of everything the function looks at to its findings, in the code's order of early returns; and a statement on one input, such as `KernelBelieved`. `Decisions` has one action per decision: it takes an input from the set of all inputs of that kind, and its invariants are the statements. What a server sends is its word, so its evidence is any record of the set. The settings that inputs share (the policy's severity, IMA, whether the repository's history can be had) are the variable `setting`.

Answers of the network are `yes`, `no`, `down` (an error whose message the code takes for the network's: `/rate limit|http 5\d\d|econn|timeout/i` at `appraise-directory.js:502`, `appraise-container.js:354`, `appraise.js:541`) or `lost` (any other: `ETIMEDOUT` and `EAI_AGAIN` among them). A commit is `Found` when git says so; a git that fails says no (`git.js:176-190`). Measurements of the kernel are compared when they are by SHA-256 and passed over else, as the tests mean it (`test/appraise.test.js:211`; `docs/hardware.md:104` asks for `ima_hash=sha256`). Files of a release that could not be read, or were beyond the server's limit, are not in the evidence: `Reported` has none. A container's files are told by a walk, which has modes and fails when it is incomplete, or by the writable layer, which has no modes, names a deleted directory but not the files below it, and is inconclusive when it is incomplete.

An operator says what the result is, and its statement what an operator alone does not: it relates the result to facts that the code does not see (what was really published, which machine answered, what ran), or one part of the code to another that must agree with it (`doctor` to evidence, planned to looked-up builds, the two ways in which a container's files are told, `host-keys --write` to `known_hosts` to ssh's own lookup, a configuration's wording to what the appraisal enforces). Two modules have steps in their inputs: a checkout's commit is read in three reads between which git may pack or update the branch (`Checkouts` of `Readiness`), and a DaemonSet may be updated between the reads of it, of its pods and the port-forward (`Clusters` of `Pods`).

### RetriedAudit

An audited server gets a first status and then a verdict out of `Permitted`: a failure may become a warning or stay; an inconclusive result may become anything but a pass; a clean first result is final. A report has the worst verdict of exactly the audited servers, or says that the audit did not finish. `VerifyRun` and `RegistryRun` both implement it, with the mappings in their last definitions.

## Runs

| Run | Instance | Result |
| --- | --- | --- |
| `verify_retry` | 2 servers, 1 slot, retries, 2 commits, 1 change | type, failure, restoration, freshness, findings and report, slots; implements `RetriedAudit` |
| `verify_latest` | 2 servers, 2 slots, version `latest`, 2 commits, 2 changes | servers that do not fail run one commit |
| `verify_grace` | 1 server, retries, grace, 3 commits, 3 changes | no false alarm |
| `verify_ends` | 2 servers, 1 slot, fair | every run ends |
| `verify_deploy` | 2 servers, 1 slot, 2 commits, 2 changes | violated, see below |
| `build_runs` | 2 builds with an account, in turns or together, leftovers, failing steps, 1 crash, fair | in turns: clean checkouts, whole results, failures of the command's own; also together: hashed and removed undisturbed, every build settles |
| `build_account_sweep` | 2 builds together, nothing else wrong | violated, see below |
| `registry_jobs` | 2 servers, one not pinned, 2 runs, 2 commits, 2 changes, 2 faults, fair | all safety properties; implements `RetriedAudit`; every run ends |
| `git_cache` | 2 branches of one repository, 2 commits, 1 push, 2 runs, 1 fault | one snapshot per run; trees are whole |
| `attester` | 2 callers, 1 stranger, 2 keys, SSH and port-forward, 2 places in the queue, answers of 2 parts and a limit of 1, 1 fault, fair | answers are whole, nothing is left behind, the counter is the queue, enrolled keys are in the TPM, calls settle |
| `collection` | 2 processes, 4 events, 1 upgrade, 2 log entries, a tolerance of 2, 1 unclaimed process listed | what ran is in the evidence, or the list of unclaimed processes is full; a log that was read explains the quote |
| `decisions` | every input of every kind, 2.9 million | the statements of the modules above |

Why the bounds are enough. Two servers show every interaction between tasks: they share only the slots, the mirror and the report. One slot makes a waiting task matter, two make collections overlap. A retry takes two attempts, and the code has no third. Two commits tell the mirror's tip from the branch's; the grace run has three, so that "an earlier commit" is not only the parent. One change lets a server be broken, or restored, before, in, between or after its collections; two let it be deployed and finished. Builds meet in pairs: a directory, an account or a key is shared by two. One crash shows every file a crash leaves; a second would start from the same files. Two registry runs show what one leaves for the next. Two faults break a first attempt and then its recovery. Two instances of a repository meet in pairs; two runs show what a crash in the first leaves. Two callers fill the queue of two with the stranger refused, and one enrollment interleaves with another; an answer beyond the limit has two parts. Four events let a file be loaded and put back, within the tolerance of two ticks or beyond it, with one or two to spare; two processes are a parent and a child, or a process and one that replaces it; a list of one unclaimed process is cut with two. In `decisions`, sets have each value that a condition of the code tells apart and pairs of things that can be confused with each other (two servers, two services, two pods, two lines of host keys); lists of the code are folded over elements without memory, but for the duplicates that a pair shows. `MaxCommit`, `MaxChanges`, `MaxCrashes`, `MaxRuns`, `MaxFaults`, `MaxPushes`, `MaxNow`, `MaxUpgrades` and `MaxIma` only bound the environment; `MaxUnclaimed` is a limit of the code's.

Runs stop where the modelled program stops (a report, all builds done, the last hour, evidence sent, a decision taken), so deadlock is not checked.

Fairness. `VerifyRun`: weak fairness of each server's task, the fetch and the report: the event loop runs what is ready, timers fire, and every call ends because ssh and git calls and downloads have timeouts. None for answers, deploys or pushes. `BuildRuns`: weak fairness of each build's next step, commands having a timeout; none for leftovers or crashes. `RegistryRun`: weak fairness of the jobs together: the schedule comes every hour and every job has `timeout-minutes`; none for deploys or pushes. `AttesterCalls`: weak fairness of each caller's next step, its timer included (`lib/ssh.js:103`, `lib/kubernetes.js`); none for the attester, which may never answer. That a step fails is never assumed nor excluded.

## What the runs found

- **The second attempt sees the first one's references** (`verify_deploy`, `lib/git.js:99`). The branch is fetched once per run and the fetch is memoized. A commit pushed and deployed after that does not exist for the second attempt either: the server stays failing, although a deploy in progress is why there are second attempts (`lib/verify.js:80-82`, `docs/verifier.md:335`). In the registry the jobs have references of their own.
- **The sweep takes another build's files** (`build_account_sweep`, `lib/build.js:352`). Work directories are below the swept temporary directory. The other build may still succeed, and what it has left is cached.

The registry builds one commit after the other, so the second concerns `auditstatus verify`. So do two more of builds at the same time, which are seen with `Parallels = {2}` and the invariant named, and no run of their own: with an account, `kill -1` reaches every build of the machine's one account (`lib/build.js:315`, `FailureIsReal`); without one, two services with the same build of the same commit remove and fill one directory (`lib/build.js:464`, `RunsInCleanCheckout`, one key). And one of the registry: saving a content again does nothing and the newest entry of the builds cache is restored, so that a failure remembered in between wins over an older success (`registry-project.yml:114`, `NamedBuildsAreReady` with `MayMiss = TRUE`, one server and three runs).

Three more came of proofs that did not go through:

- With three branches of one repository, a run's answers about a branch need not be of one content. When the clone for one branch fails, git removes the mirror, also from under a branch that was fetched into it meanwhile; a third branch clones it anew, and what is asked of the second from then on is answered of a mirror that is newer, or lacks its commits (`lib/git.js:98-112, 172-188`). With two branches nobody is left to clone (`OneSnapshotOfTwo`). That what is taken for a commit of the branch was on it holds for any number (`OnBranchWasSeen`).
- Builds in turns need the account: without one, a process that a command left behind changes the output before it is hashed, and what is cached is not the command's (`TurnsSuffice`).
- `changedAfter` tolerates `START_TIME_TOLERANCE_MS` after a process's start. Code that is loaded and put back within it is not seen, even if the file is wrong again when its times are read, as long as that, too, was within the tolerance. `CodeIsSeen` therefore excludes `Escapes`, a last repair within the tolerance of the start, whatever the file holds in the end.

Seen while modelling, where the code is consistent with itself and a reader may still want to know:

- What cannot be fetched. `docs/reports.md:13` calls an unreachable reference inconclusive, `docs/languages/README.md:23` says "A reference that cannot be fetched makes the result inconclusive, never passing.", and `docs/hardware.md:219` and `docs/containers.md:163` say the same of network errors for a processor's key and an image's attestation. The code fails a genuine server in four cases; `LostReferenceFails` says that, of what the decisions model, it does in the first three and in no other:
  - with `unexplainedCode: fail`, code whose reference cannot be fetched is also code that no reference explains (`appraise-code.js:60-152`);
  - an attestation or a processor's key that is lost to an error without one of the four wordings, such as `ETIMEDOUT` and `EAI_AGAIN` (`appraise-directory.js:502`, `appraise-container.js:354`, `appraise.js:541`);
  - any failure of git after its fetch is taken for a commit that does not exist or is not on the branch (`git.js:179-189`);
  - when `git.ignored()` throws, ignored files fail as untracked (`appraise-directory.js:200-207`; not in the property).

  `LostReferenceFails` states the code's side of the disagreement, exactly; the documents' side, that none of these fails, is false of the model in each of the first three.
- Files of an attested release that could not be read, and those beyond the server's limit, are not told: `appraiseManifest` does not look at the errors and the truncation of the file list (`appraise-directory.js:462-580`), which a commit's tree is failed for (`appraise-directory.js:209-217, 278-280`). A missing file of the release still fails; a foreign one that cannot be read passes (`ReleaseIsAttested`).
- A container's changed modes warn when its files are walked, and are not told by its writable layer (`appraise-container.js:270, 313`). A directory deleted in that layer is compared with the image's files by its own name, so that those below it are not missed (`appraise-container.js:268`). Files that could not be read fail after a walk and are inconclusive in the layer (`appraise-container.js:247, 275`).
- Measurements by another algorithm than SHA-256 are passed over without a finding, also for one file among others (`appraise-directory.js:421`, `appraise.js:276, 298, 345`).
- The list of processes that no service claimed ends at 256 without saying so (`evidence.js:703`), unlike the lists of files and of changes. A PM2 daemon is only known by applications that still lived when they were inspected (`evidence.js:684`).
- Programs that the monitor saw are judged without `policy.unofficialNode`, by which the same program is judged while it runs.
- `config.js:894-900`: with the short form of one service, an expected service of another name and `minProcesses: 0`, nothing is judged and nothing is said.
- `registry tpm-verify --write` without `--ima` drops an `ima: true` of before (`registry.js:509-520`), and `--write` replaces a file before it reads it again (`cli.js:713-716, 786-788`).
- `readProject` accepts a key of the bare host for a server on another port (`registry.js:266`).
- `doctor.js:141` counts processes of containers as a service's, which `evidence.js:652` does not.
- A version or a checksum list that could not be fetched is remembered for the run, an image is not (`references.js:89-105`).
- A report's attestation is matched by digest; the file's name in it is not compared.

## Proofs

Every invariant and every refinement that a passing run checks is also proved, for every value of the constants that satisfies the module's assumptions; what is not proved is at the end of this section. The pattern is the same in the modules with a state: the property is seldom inductive, so a proof module states a stronger invariant as a conjunction of named parts, shows `Init => Inv` and `Inv /\ [Next]_vars => Inv'` with a lemma for each kind of step, and derives the property.

| Theorem | Says | Hypothesis beyond the module's assumptions |
| --- | --- | --- |
| `VerifyRunProofs!TypeCorrect`, `Freshness`, `FailureStays`, `RestorationIsSeen` | `TypeOK`, `VerdictIsFresh`, `FailureKept`, `RestoredNotClean` | |
| `VerifyRunProofs!SlotsAreBounded`, `ReportsAreTrue`, `OneVersion` | `AtMostConcurrency`, `ReportIsTrue`, `SameVersion` | |
| `VerifyRunProofs!NoAlarmIsFalse` | `NoFalseAlarm` | `"fail" \notin OtherSeverities`: the checks that are not modelled do not fail a server |
| `VerifyRunProofs!RunIsRetriedAudit` | `VerifyRun` implements `RetriedAudit` | |
| `BuildRunsProofs!TypeCorrect`, `VerifierStaysAlone` | `TypeOK`, `VerifierIsAlone` | |
| `BuildRunsProofs!TurnsSuffice` | `TurnsAreEnough` | `Account`: builds have an account of their own |
| `GitCacheProofs!TypeCorrect`, `TreesStayWhole` | `TypeOK`, `TreesAreWhole` | |
| `GitCacheProofs!OnBranchWasSeen` | what is taken for a commit of the branch was on it, all at one moment | |
| `GitCacheProofs!OneSnapshotOfTwo` | `OneSnapshot` | at most two branches of one repository |
| `RegistryRunProofs!TypeCorrect`, `FailureSurvives`, `PassesAreEarned` | `TypeOK`, `FailureSurvivesJobs`, `PassIsEarned` | |
| `RegistryRunProofs!FaultlessRunsAreRight` | `FaultlessRunIsRight` | `~MayMiss`: a saved builds cache is found again |
| `RegistryRunProofs!JobsAreRetriedAudit` | `RegistryRun` implements `RetriedAudit` | |
| `AttesterCallsProofs!TypeCorrect`, `CounterIsQueue`, `CallsAreWhole`, `EnrolledKeysAreTheTpms` | `TypeOK`, `PendingIsQueue`, `CallsEndWhole`, `EnrolledIsInTpm` | |
| `CollectionProofs!TypeCorrect`, `CodeSeen`, `ProgramsAccounted`, `LogCovers` | `TypeOK`, `CodeIsSeen`, `ProgramsAreAccounted`, `LogExplainsQuote` | |
| `DecisionsProofs!RunCodeKnown`, `LostReferencesFail`, `PassingPublished`, `HidingSeen`, `ConfigurationMeant`, `AnswersFromServers`, `DoctorsTell`, `PublicBacked` | the invariants of `Decisions` | |
| `DecisionsProofs!BadgesAreEarned` and the others of a statement | the statement about one input, of any size | the input's form |
| `VerifyRunProofs!TasksAdvance`, `BuildRunsProofs!BuildsAdvance`, `RegistryRunProofs!JobsAdvance`, `AttesterCallsProofs!CallsAdvance` | every step of a task, build, job or call takes it further, and no other step takes it back | |
| `VerifyRunProofs!SomeTaskIsReady` | while servers are left, one has a step to take | |

The hypotheses about the setting hold in the runs that check the property. Without them the statement is false, and TLC shows it: without an account a process left behind changes the output before it is hashed; with three branches see `What the runs found`; with a cache that is missed, a remembered failure wins over an older success (above).

`VerdictProofs` has what the status arithmetic of `lib/appraise.js` and `lib/verify.js` guarantees: a status is the worst of its findings', and `combineAttempts` never gives a pass, gives only what `RetriedAudit` permits, and names what the first attempt found. Both refinements rest on it.

**VerifyRun.** None of the safety properties is inductive: each speaks of settled servers, and what settles them is in flight before. `Inv` follows the evidence. `Numbered`: no request or answer has the nonce of an attempt to come, so an attempt starts with no answers of its own. `Seen`: while a server is collected, if it is good now, or an answer of this attempt shows it good, it has been seen clean; and so if the entry under appraisal is good. `Verdicts`: what is settled as passing or warning was seen clean, and a second attempt never passes. `Pushed` makes "good" mean "clean" whatever is pushed later. On top of it, `Slots` counts the tasks that are under way; `Found` and `Published` carry the findings from the first attempt through the second to the report, and give the refinement its mapping at each step; `Mirrored` and `Versioned` tie every verdict to the one tip that was fetched; `Untouched` and `Unalarmed` follow a server that nothing happened to.

**BuildRuns.** `Alone` says of each phase who has processes and who owns the directory, and is inductive for builds at the same time. `Turn` says what a build that takes its turn has by each phase (a clean tree until its command runs, a whole one until it is hashed); it needs that at most one build is busy (`Turns`).

**GitCache.** `Snapshots` names the content that a run's answers are of; `Clone` allows one clone at a time; `Held` says that while the mirror is there, it has what was fetched. For `TreesAreWhole` the parts say who may be adding a checkout, and that one which nobody spoilt is whole when it is read.

**RegistryRun.** `Passed` describes the report as it goes from job to job: it is this run's, of all servers, permitted by what the first attempt found, and passes only what was clean; `Judged` and `Out` are its beginning and end. `Ready` says at each step where the builds of the next step are.

**AttesterCalls.** `Turns` says that the first of the queue, and nothing else, is being carried out, which makes the counter the queue; `Fits` relates a call to the attester's work for it, in every order of exit, close, limit and timeout; `Keyed` and `Meant` say which keys an operation has in hand and what a caller may have been told of them.

**Collection.** `World` is what the server guarantees: times are not ahead of the clock, a file's change of status is no older than its repair, a parent is no younger than its child. `Tainted`: as long as the file has not been hashed, who loaded wrong code loaded what is still there or was replaced since; once it is hashed as good, it was replaced after each of their starts. `Code`: the times were read when nothing wrote the file any more. `changedAfter` then shows a change beyond the tolerance (`AfterShows`), within any limit on names. `Accounts` and `Exes` relate the processes of a service, what is claimed, and what was hashed.

**Decisions.** There is one state and one step, so that the inductive invariant, `Subjects`, only says that an input is one of its kind. What there is to prove is about the input, and it does not depend on the small sets that the run takes inputs from: each statement has a theorem of its own for every input of the same form, and the invariants of `Decisions` are its instances. The form is a record's fields with their kinds; what can be large is arbitrary:

- any number of servers in a report (`BadgesAreEarned`), in a configuration (`AskedEnforced`), in a project with any number of lines of host keys (`KeysRead`) and of enrolled keys (`EnrolledAsked`). Servers may share a host and lines may name several addresses: each is given what its own address, or its own TPM, answered;
- any number of services of a verifier's and an attester's file (`ExpectedJudged`, `ServicesTold`);
- an IMA log of any length (`KernelIsBelieved`, `GenuineFilesFailWhen`, `CleanCodeKnown`), any contents of a manifest, a container's layers and a tree (`PassingReleaseIsAttested`, `PassingContainerIsImage`, `LayersTellTheSame`), any bundle of signatures and times (`VerifiedReportsAreSigned`);
- any pods of a cluster, with any names (`AskedPodIsMade`, which needs that new pods get names that are not in use; `SettledPodIsFound`), and any history of a branch's packed and loose reference (`CommitIsRead`: a loose reference is only removed when the packed one has its value, so the value read second is never older than the first);
- any combination of what hosts, hardware and tools answer (`AttesterForeseen`, `VerifierForeseen`, `DowngradeIsSeen`, `OmissionIsSeen`, `ChangesAreReported`, `RootDecidesAll`, `MonitorKeeps`, `ToolsNeverFail`, `GenuineReleaseFailsWhen`).

**Progress.** That something happens in the end needs fairness, and is checked by TLC. What can be proved is the part of it that does not: `TasksAdvance`, `BuildsAdvance`, `JobsAdvance` and `CallsAdvance` order the states of a task, a build, an hourly run and a call, and show that each step of its own goes up in that order and that no step of anybody else goes down, whatever fails, is answered, pushed or deployed. The orders are bounded (six places of a task; fifteen of a build, for each of at most `MaxCrashes` crashes; a workflow's sixteen steps, with the commits and servers left to do; two requests with five stages, and the parts of an answer), so that nothing goes round in circles. `SomeTaskIsReady` adds that no tasks of a run wait for each other: a full set of slots has a task that can go on, an empty one a task that can start.

Only model-checked:

- liveness (`RunEnds`, `BuildsSettle`, `RunsEnd`, `CallsSettle`): it is about fairness and when actions are enabled, which the provers do not reach. The theorems on progress are the half of it that is about the steps themselves.

The properties of the two runs that expect a violation are false of the code, and have no theorem.

## Not modelled

Formatting and parsing of evidence, reports and files; the site; packaging; the scripts of the workflows beside the registry's; `init`, which only writes files; what external services do beyond the outcomes the code distinguishes; and cryptography: a signature, a quote or a chain of certificates is good or is not.

- `VerifyRun`, `RegistryRun`: one project of the registry is modelled; projects share only the status branch, which one job writes, and removed projects are not modelled.
- `BuildRuns`: `node --version` before the command (its failure is ignored) and the clone of submodules are part of starting. `git.tree()` before a checkout is part of the clone. A detached command without an account that outlives a killed verifier (`build.js:85`) is in the model, but nothing in the code says what should hold then.
- `GitCache`: the fetches of a tag, of a single commit and of blobs that are missing, and submodules.
- `VerifyRun`: git answers once its fetch succeeded; a git that fails later is in the decisions only, so `NoFalseAlarm` says nothing of it.
- `Collection`: a process id is used once; hashing what the monitor saw (`evidence.js:1043-1077`); the hash and the status of a file are read in one step; `ProcessesAreAccounted` speaks of evidence in which the runtime answered and services name their user.
- Appraisal: the build information of Go and Rust programs (`appraise-code.js:202-267`), the paths under which files of installed packages are found (`installedFiles()`, `appraise-directory.js:319-340`), and the severities that the wording of a package's issue selects (`appraise-directory.js:601-627`). Every policy has one severity. That a walk of a container tells modes only of files whose contents agree is attestium's `compareRootfs`, modelled from its use.
- `Configuration`: the defaults of single settings; empty lists. `RegistryFiles`: patterns of public hosts and URLs, the README's table.
- `Readiness`: the checks of bpftrace, of `tpmRoots` files, of hashed `known_hosts`, and of a local server's attester file.
- `Pods`: a pod that is configured by name is taken as it is, and a container added to a pod after it was found is not seen.

## Plan

1. Done: `Verdict`, `RetriedAudit`, `VerifyRun` with its first theorems, `BuildRuns`, `RegistryRun`.
2. Done: `GitCache`, `AttesterCalls`, `Collection`, and the decisions: appraisal, configuration, registry files, doctor, pods, reports.
3. Done: proofs of the safety properties of `VerifyRun`, `BuildRuns`, `GitCache`, `RegistryRun`, `AttesterCalls` and `Collection`, and of both refinements; of the statements of `Decisions` for inputs of any size; of progress.
4. Several projects of the registry in a run, with partial and removed ones.
