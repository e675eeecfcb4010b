----------------------------- MODULE VerifyRun -----------------------------
(***************************************************************************)
(* One run of `auditstatus verify': lib/verify.js with the parts of        *)
(* lib/appraise.js, lib/appraise-directory.js, lib/references.js and       *)
(* lib/git.js that decide a server's status.                               *)
(*                                                                         *)
(* Servers are collected and appraised concurrently, at most Concurrency   *)
(* at a time.  While the run lasts the world moves: commits are pushed,    *)
(* deploys replace files, files are tampered with and restored, answers    *)
(* arrive late or twice.  The references (the mirror of the audited        *)
(* branch) are fetched once per run, by whichever appraisal comes first,   *)
(* and serve both attempts of every server.                                *)
(***************************************************************************)
EXTENDS Verdict, FiniteSets

CONSTANTS
    Servers,          \* the configured servers
    Concurrency,      \* options.concurrency
    RetryOn,          \* policy.retryAfterSeconds > 0
    Version,          \* repository.version: "any" or "latest"
    GraceOn,          \* policy.versionGraceSeconds > 0
    VersionMismatch,  \* policy.versionMismatch
    OtherSeverities,  \* what the checks not modelled here may find
    MaxCommit,        \* bound: commits ever pushed to the audited branch
    MaxChanges        \* bound: deploys, tamperings and repairs, all servers

ASSUME ConcurrencyAssumption == Concurrency \in Nat \ {0}
ASSUME PolicyAssumption == /\ RetryOn \in BOOLEAN /\ GraceOn \in BOOLEAN
                           /\ Version \in {"any", "latest"}
                           /\ VersionMismatch \in {"fail", "warn"}
                           /\ OtherSeverities \subseteq {"fail", "error", "warn"}
ASSUME BoundAssumption == MaxCommit \in Nat \ {0} /\ MaxChanges \in Nat

\* The commits of the branch are numbered in order; 0 is a commit that was
\* never published.
Unpublished == 0
Commits     == 1 .. MaxCommit
Deployed    == [commit : Commits \cup {Unpublished}, intact : BOOLEAN]

\* Attempt 0 is an earlier run's: its answers may still be about.
Attempts == 1 .. 2
Nonces   == Servers \X (0 .. 2)
Answers  == [nonce : Nonces, state : Deployed]

Phases     == {"queued", "collecting", "appraising", "sleeping", "done"}
RunPhases  == {"verifying", "reported", "crashed"}
FetchStates == {"unfetched", "fetched", "failed"}

\* What a fresh answer brings to the appraisal: the server's state and the
\* age of the branch's commits when it was received.
Entries == [state : Deployed, aged : 0 .. MaxCommit]
NoEntry == [state |-> [commit |-> Unpublished, intact |-> FALSE], aged |-> 0]

NoResult == [status |-> "none", findings |-> {}, earlier |-> {}]

VARIABLES
    \* the world
    tip,        \* the newest commit of the audited branch
    aged,       \* commits up to this one are older than the grace period
    deployed,   \* what each server runs
    changes,    \* deploys, tamperings and repairs so far
    \* between the verifier and the servers
    requests,   \* nonces sent and not answered yet
    answers,    \* every answer given, which may arrive at any time, again
    \* the run
    run,        \* where verify() is
    selected,   \* the servers of this run
    phase,      \* where each server's task is
    attempt,    \* the attempt it is at
    entry,      \* the fresh answer of its last collection
    first,      \* the first attempt's result
    result,     \* the result the task returned
    fetched,    \* the memoized fetch of the references
    mirror,     \* the tip it found (0: none)
    report,
    \* history, only read by the properties
    wasClean,   \* clean at some time of the attempt's collection
    steady,     \* clean all that time
    neverClean, \* not clean at any time of the first attempt's collection
    calm        \* nothing happened to it or its answers

world   == <<tip, aged, deployed, changes>>
network == <<requests, answers>>
references == <<fetched, mirror>>
task    == <<phase, attempt, entry, first, result>>
history == <<wasClean, steady, neverClean, calm>>
vars    == <<world, network, run, selected, task, references, report, history>>

NoReport == [status |-> "none", servers |-> {}]

Clean(state, newest) == state.intact /\ state.commit \in 1 .. newest
Stale(s) == [nonce |-> <<s, 0>>, state |-> [commit |-> 1, intact |-> TRUE]]

TypeOK ==
    /\ tip \in Commits /\ aged \in 0 .. MaxCommit
    /\ deployed \in [Servers -> Deployed]
    /\ changes \in 0 .. MaxChanges
    /\ requests \in SUBSET Nonces /\ answers \in SUBSET Answers
    /\ run \in RunPhases /\ selected \in SUBSET Servers
    /\ phase \in [Servers -> Phases] /\ attempt \in [Servers -> 0 .. 2]
    /\ entry \in [Servers -> Entries]
    /\ first \in [Servers -> Result \cup {NoResult}]
    /\ result \in [Servers -> Result \cup {NoResult}]
    /\ fetched \in FetchStates /\ mirror \in 0 .. MaxCommit
    /\ report \in [status : Status \cup {"none"}, servers : SUBSET Servers]
    /\ wasClean \in [Servers -> BOOLEAN] /\ steady \in [Servers -> BOOLEAN]
    /\ neverClean \in [Servers -> BOOLEAN] /\ calm \in [Servers -> BOOLEAN]

\* selectServers(): all, or the ones named with --only; never none.
Init ==
    /\ tip = 1 /\ aged = 0 /\ changes = 0
    /\ deployed \in [Servers -> {[commit |-> 1, intact |-> TRUE],
                                 [commit |-> 1, intact |-> FALSE]}]
    /\ requests = {} /\ answers = {Stale(s) : s \in Servers}
    /\ run = "verifying" /\ selected \in (SUBSET Servers) \ {{}}
    /\ phase = [s \in Servers |-> "queued"] /\ attempt = [s \in Servers |-> 0]
    /\ entry = [s \in Servers |-> NoEntry]
    /\ first = [s \in Servers |-> NoResult] /\ result = [s \in Servers |-> NoResult]
    /\ fetched = "unfetched" /\ mirror = 0 /\ report = NoReport
    /\ wasClean = [s \in Servers |-> FALSE] /\ steady = [s \in Servers |-> FALSE]
    /\ neverClean = [s \in Servers |-> FALSE]
    /\ calm = [s \in Servers |-> Clean(deployed[s], tip)]

-----------------------------------------------------------------------------
(* Collecting: collectFrom() and the transport                             *)

\* Mutants: a sleeping task gives its slot up; a finished one keeps it.
ActiveAwake == {s \in selected : phase[s] \in {"collecting", "appraising"}}
ActiveEver  == {s \in selected : phase[s] # "queued"}

Active == {s \in selected : phase[s] \notin {"queued", "done"}}

\* collectFrom(): a fresh nonce goes out; the server is watched from now on.
Request(s, n) ==
    /\ phase' = [phase EXCEPT ![s] = "collecting"]
    /\ attempt' = [attempt EXCEPT ![s] = n]
    /\ requests' = requests \cup {<<s, n>>}
    /\ LET clean == Clean(deployed[s], tip)
       IN  /\ wasClean' = [wasClean EXCEPT ![s] = clean]
           /\ steady' = [steady EXCEPT ![s] = clean]

\* parallelMap(): a server's task starts when a slot is free, and keeps the
\* slot until it is done, its wait for the second attempt included.
Start(s) ==
    /\ run = "verifying" /\ s \in selected
    /\ phase[s] = "queued" /\ Cardinality(Active) < Concurrency
    /\ Request(s, 1)
    /\ UNCHANGED <<world, answers, run, selected, entry, first, result,
                   references, report, neverClean, calm>>

\* The attester answers a request with what it finds on the server then.
Answer(s, n) ==
    /\ <<s, n>> \in requests
    /\ requests' = requests \ {<<s, n>>}
    /\ answers' = answers \cup {[nonce |-> <<s, n>>, state |-> deployed[s]]}
    /\ UNCHANGED <<world, run, selected, task, references, report, history>>

F(severity, check) == [severity |-> severity, check |-> check]

\* The task's continuation with an attempt's result: the first is final when
\* it needs no second one, the second is combined with the first.
Attempted(s, findings) ==
    LET r == ResultOf(findings)
    IN  \/ /\ attempt[s] = 1 /\ NeedsRetry(RetryOn, r)
           /\ first' = [first EXCEPT ![s] = r]
           /\ phase' = [phase EXCEPT ![s] = "sleeping"]
           /\ UNCHANGED result
        \/ /\ attempt[s] = 1 /\ ~NeedsRetry(RetryOn, r)
           /\ first' = [first EXCEPT ![s] = r]
           /\ phase' = [phase EXCEPT ![s] = "done"]
           /\ result' = [result EXCEPT ![s] = r]
        \/ /\ attempt[s] = 2
           /\ result' = [result EXCEPT ![s] = CombineAttempts(first[s], r)]
           /\ phase' = [phase EXCEPT ![s] = "done"]
           /\ UNCHANGED first

\* The collection of s ends, and what was seen of s meanwhile is kept.
Collected(s) ==
    /\ run = "verifying" /\ phase[s] = "collecting"
    /\ neverClean' = IF attempt[s] = 1
                     THEN [neverClean EXCEPT ![s] = ~wasClean[s]] ELSE neverClean
    /\ UNCHANGED <<world, network, run, selected, attempt, references, report,
                   wasClean, steady>>

\* Mutant: any nonce will do.
FreshAnyNonce(s, nonce, inWindow) == inWindow

\* appraiseServer() accepts an answer to this attempt's nonce, of a time in
\* the accepted window.
Fresh(s, nonce, inWindow) == nonce = <<s, attempt[s]>> /\ inWindow

\* A fresh answer arrives, and goes on to the checks that need references.
\* Its age is measured now.
Receive(s) ==
    /\ Collected(s)
    /\ \E a \in answers :
          /\ Fresh(s, a.nonce, TRUE)
          /\ entry' = [entry EXCEPT ![s] = [state |-> a.state, aged |-> aged]]
    /\ phase' = [phase EXCEPT ![s] = "appraising"]
    /\ UNCHANGED <<first, result, calm>>

\* Any other answer, late or given to another server, attempt or run, fails
\* before anything is awaited.
Reject(s) ==
    /\ Collected(s)
    /\ \E a \in answers, inWindow \in BOOLEAN :
          /\ ~Fresh(s, a.nonce, inWindow)
          /\ calm' = [calm EXCEPT ![s] = @ /\ inWindow /\ a.nonce = <<s, attempt[s]>>]
    /\ Attempted(s, {F("fail", "evidence")})
    /\ UNCHANGED entry

\* The transport fails or times out; a late answer may still be given.
Timeout(s) ==
    /\ Collected(s)
    /\ Attempted(s, {F("error", "transport")})
    /\ UNCHANGED <<entry, calm>>

-----------------------------------------------------------------------------
(* Appraising                                                              *)

\* Mutant: every appraisal fetches the branch again.
FetchAlways == TRUE

NeedsFetch == fetched = "unfetched"

\* GitReference.fetch(): once per run, its failure is remembered too.
Fetch ==
    /\ run = "verifying" /\ NeedsFetch
    /\ \E s \in selected : phase[s] = "appraising"
    /\ \/ fetched' = "fetched" /\ mirror' = tip
       \/ fetched' = "failed" /\ UNCHANGED mirror
    /\ UNCHANGED <<world, network, run, selected, task, report, history>>

\* Mutant: only the commit before the latest is an earlier one.
VersionFindingsParent(e) ==
    IF Version = "any" \/ e.state.commit = mirror THEN {}
    ELSE {F(IF GraceOn /\ mirror > e.aged /\ e.state.commit + 1 = mirror
            THEN "warn" ELSE VersionMismatch, "source")}

\* appraiseVersion(), with the mirror's tip as the expected version.
VersionFindings(e) ==
    LET commit == e.state.commit
        grace  == GraceOn /\ mirror > e.aged /\ commit \in 1 .. mirror
    IN  IF Version = "any" \/ commit = mirror THEN {}
        ELSE {F(IF grace THEN "warn" ELSE VersionMismatch, "source")}

\* appraiseTree(): the commit must be in the mirror, and its files match.
TreeFindings(e) ==
    IF e.state.commit \in 1 .. mirror /\ e.state.intact THEN {} ELSE {F("fail", "source")}

\* appraiseServer(), with what the checks not modelled here found.
AppraiseServer(e, other) ==
    IF fetched = "failed" THEN {F("error", "source")} \cup other
    ELSE VersionFindings(e) \cup TreeFindings(e) \cup other

OtherFindings == {{}} \cup {{F(severity, "other")} : severity \in OtherSeverities}

Appraise(s) ==
    /\ run = "verifying" /\ phase[s] = "appraising" /\ fetched # "unfetched"
    /\ \E other \in OtherFindings : Attempted(s, AppraiseServer(entry[s], other))
    /\ UNCHANGED <<world, network, run, selected, attempt, entry, references, report, history>>

\* sleep(delay) is over: collected again, with a new nonce.
Wake(s) ==
    /\ run = "verifying" /\ phase[s] = "sleeping"
    /\ Request(s, 2)
    /\ UNCHANGED <<world, answers, run, selected, entry, first, result,
                   references, report, neverClean, calm>>

-----------------------------------------------------------------------------
(* The report                                                              *)

AllDone == \A s \in selected : phase[s] = "done"

\* buildReport(), after parallelMap() has all results.
Report ==
    /\ run = "verifying" /\ AllDone
    /\ run' = "reported"
    /\ report' = [status  |-> OverallStatus({result[s].status : s \in selected}),
                  servers |-> selected]
    /\ UNCHANGED <<world, network, selected, task, references, history>>

\* The job is cancelled, or an exception ends verify() without a report.
Crash ==
    /\ run = "verifying"
    /\ run' = "crashed"
    /\ UNCHANGED <<world, network, selected, task, references, report, history>>

-----------------------------------------------------------------------------
(* The world                                                               *)

Watch(newTip, newDeployed) ==
    LET clean == [s \in Servers |-> Clean(newDeployed[s], newTip)]
    IN  /\ wasClean' = [s \in Servers |-> wasClean[s] \/ (phase[s] = "collecting" /\ clean[s])]
        /\ steady' = [s \in Servers |-> steady[s] /\ (phase[s] = "collecting" => clean[s])]

Push ==
    /\ run = "verifying" /\ tip < MaxCommit
    /\ tip' = tip + 1
    /\ Watch(tip', deployed)
    /\ UNCHANGED <<aged, deployed, changes, network, run, selected, task, references, report,
                   neverClean, calm>>

\* The oldest commit younger than the grace period outgrows it.
Age ==
    /\ run = "verifying" /\ GraceOn /\ aged < tip
    /\ aged' = aged + 1
    /\ UNCHANGED <<tip, deployed, changes, network, run, selected, task, references, report, history>>

Change(s, state) ==
    /\ run = "verifying" /\ changes < MaxChanges /\ state # deployed[s]
    /\ deployed' = [deployed EXCEPT ![s] = state]
    /\ changes' = changes + 1
    /\ Watch(tip, deployed')
    /\ calm' = [calm EXCEPT ![s] = FALSE]
    /\ UNCHANGED <<tip, aged, network, run, selected, task, references, report, neverClean>>

\* A deploy moves HEAD while files are still being replaced.
Deploy(s) == \E c \in (1 .. tip) \cup {Unpublished} : Change(s, [commit |-> c, intact |-> FALSE])
\* The deploy ends, or what was changed is put back.
Repair(s) == Change(s, [deployed[s] EXCEPT !.intact = TRUE])
Tamper(s) == Change(s, [deployed[s] EXCEPT !.intact = FALSE])

World == \/ Push \/ Age
         \/ \E s \in Servers : Deploy(s) \/ Repair(s) \/ Tamper(s)

-----------------------------------------------------------------------------
Task(s) == Start(s) \/ Receive(s) \/ Reject(s) \/ Timeout(s) \/ Appraise(s) \/ Wake(s)

Next ==
    \/ \E s \in Servers : Task(s)
    \/ \E s \in Servers, n \in Attempts : Answer(s, n)
    \/ Fetch \/ Report \/ Crash \/ World

Spec == Init /\ [][Next]_vars

\* The event loop runs what is ready: timers fire, every transport call ends
\* (ssh has a connect timeout and an overall one), downloads have timeouts.
Fairness ==
    /\ \A s \in Servers : WF_vars(Task(s))
    /\ WF_vars(Fetch) /\ WF_vars(Report)

FairSpec == Spec /\ Fairness

-----------------------------------------------------------------------------
(* Properties                                                              *)

Done(s) == phase[s] = "done"

\* A failure of the first attempt is never dropped, nor traded for an
\* inconclusive result: it stays failing, or becomes a warning because a
\* fresh second answer showed the server clean while it was collected
\* (combineAttempts, lib/verify.js:79-104).
FailureKept ==
    \A s \in Servers : Done(s) /\ first[s].status = "fail" =>
        \/ result[s].status = "fail"
        \/ result[s].status = "warn" /\ attempt[s] = 2 /\ wasClean[s]

\* A server that was not clean at any time of the first collection is not
\* reported clean, whatever it restores before the second, whatever old or
\* foreign answers arrive and however the branch moves (docs/verifier.md:335).
RestoredNotClean ==
    \A s \in Servers : Done(s) /\ neverClean[s] => result[s].status # "pass"

\* A verdict that does not fail rests on an answer given during the attempt:
\* the server was on a published commit, with its files, at some time between
\* the last request and its answer's arrival.
VerdictIsFresh ==
    \A s \in Servers : Done(s) /\ result[s].status \in {"pass", "warn"} => wasClean[s]

\* A server that nothing happened to (no deploy, no change, no late or foreign
\* answer) is not reported failing, though transports and fetches fail: not at
\* all when any commit will do, and else while its commit is the latest or the
\* latest is within its grace (docs/configuration.md:244).
NoFalseAlarm ==
    \A s \in Servers :
        /\ Done(s) /\ calm[s]
        /\ \/ Version = "any" \/ VersionMismatch = "warn" \/ tip = 1
           \/ GraceOn /\ aged < mirror
        => result[s].status # "fail"

\* The published status of a server is the one its published findings have,
\* and a result of two attempts names what the first one found.
StatusMatchesFindings ==
    \A s \in Servers : Done(s) =>
        /\ result[s].status = StatusOf(result[s].findings)
        /\ attempt[s] = 2 <=> result[s].earlier # {}

\* With version `latest', mismatches failing and no grace, the servers of a
\* run that do not fail all run the same commit, although the branch moves
\* while they are collected one after the other.
SameVersion ==
    Version = "latest" /\ VersionMismatch = "fail" /\ ~GraceOn =>
        \A s, t \in Servers :
            Done(s) /\ Done(t) /\ {result[s].status, result[t].status} \subseteq {"pass", "warn"}
                => entry[s].state.commit = entry[t].state.commit

\* A passing report means every server of the run passed its first and only
\* attempt; a report with a failing server is failing.
ReportIsWorst ==
    run = "reported" =>
        /\ report.status = "pass" =>
              \A s \in selected : attempt[s] = 1 /\ wasClean[s] /\ ~neverClean[s]
        /\ (\E s \in selected : first[s].status = "fail") => report.status # "pass"
        /\ (\E s \in selected : result[s].status = "fail") <=> report.status = "fail"

\* What is published is what was found, for a server and for the whole report.
ReportIsTrue == StatusMatchesFindings /\ ReportIsWorst

\* Servers are verified Concurrency at a time (docs/verifier.md:44): those
\* that wait for their second attempt count.
AtMostConcurrency ==
    Cardinality({s \in Servers : phase[s] \in {"collecting", "appraising", "sleeping"}}) <= Concurrency

\* A server whose deploy is over before it is collected again, on a published
\* commit with that commit's files, is not reported for its source: "a deploy
\* in progress ... looks like tampering for a few minutes, so the second
\* result is the one reported" (lib/verify.js:80-82).
FinishedDeployPasses ==
    \A s \in Servers :
        Version = "any" /\ Done(s) /\ attempt[s] = 2 /\ steady[s]
            => F("fail", "source") \notin result[s].findings

\* Every run ends, with a report or a crash, though tasks wait for slots that
\* sleeping tasks keep.
RunEnds == <>(run # "verifying")

\* What the run promises: lib/verify.js implements the retried audit.
Abstract == INSTANCE RetriedAudit WITH
    audited <- selected,
    first   <- [s \in Servers |-> first[s].status],
    verdict <- [s \in Servers |-> result[s].status]

ImplementsRetriedAudit == Abstract!Spec
=============================================================================
