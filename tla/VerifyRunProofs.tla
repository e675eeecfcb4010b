-------------------------- MODULE VerifyRunProofs --------------------------
(***************************************************************************)
(* Proofs about VerifyRun, for every set of servers, concurrency, policy   *)
(* and bound: its type invariant, and three invariants that follow from    *)
(* one inductive invariant, Inv; and on top of Inv, how many servers are   *)
(* under way, what the report says, which versions pass, when nothing      *)
(* fails, that the run implements the retried audit, and that it advances. *)
(***************************************************************************)
EXTENDS VerifyRun, VerdictProofs, FiniteSetTheorems, TLAPS

-----------------------------------------------------------------------------
(* The inductive invariant                                                 *)

\* A task is at attempt 0 before it starts, sleeps after the first one only,
\* and has a first result to combine the second with.
Tasks ==
    \A s \in Servers :
        /\ phase[s] = "queued" <=> attempt[s] = 0
        /\ phase[s] = "sleeping" => attempt[s] = 1
        /\ phase[s] = "sleeping" \/ attempt[s] = 2 => first[s] \in Result

\* As Clean(), of a state that some server had: whatever is pushed later.
Good(state) == state.intact /\ state.commit # Unpublished

\* Servers only run commits that were pushed.
Pushed == \A s \in Servers : deployed[s].commit <= tip

\* Nothing carries the nonce of an attempt to come.
Numbered ==
    /\ \A q \in requests : q[2] <= attempt[q[1]]
    /\ \A a \in answers : a.nonce[2] <= attempt[a.nonce[1]]

\* A collection that could bring a clean state has seen the server clean.
Seen ==
    \A s \in Servers :
        /\ phase[s] = "collecting" /\ Good(deployed[s]) => wasClean[s]
        /\ \A a \in answers : phase[s] = "collecting" /\ a.nonce = <<s, attempt[s]>> /\ Good(a.state)
                                  => wasClean[s]
        /\ phase[s] = "appraising" /\ Good(entry[s].state) => wasClean[s]

\* What is settled, and what the first attempt keeps of its collection.
Verdicts ==
    \A s \in Servers :
        /\ attempt[s] = 1 /\ phase[s] \in {"appraising", "done"} => neverClean[s] = ~wasClean[s]
        /\ Done(s) =>
              /\ result[s].status \in {"pass", "warn"} => wasClean[s]
              /\ attempt[s] = 1 => result[s] = first[s]
              /\ attempt[s] = 2 => /\ result[s].status # "pass"
                                   /\ first[s].status = "fail" => result[s].status \in {"fail", "warn"}

Inv == TypeOK /\ Tasks /\ Pushed /\ Numbered /\ Seen /\ Verdicts

-----------------------------------------------------------------------------
(* Typing                                                                  *)

\* What an attempt leaves behind is well typed.
LEMMA AttemptedType ==
  ASSUME TypeOK, Tasks, NEW s \in Servers, NEW findings \in SUBSET Finding,
         Attempted(s, findings), attempt' = attempt
  PROVE  /\ phase' \in [Servers -> Phases]
         /\ first' \in [Servers -> Result \cup {NoResult}]
         /\ result' \in [Servers -> Result \cup {NoResult}]
         /\ Tasks'
  <1> DEFINE r == ResultOf(findings)
  <1>1. r \in Result
    BY ResultOfType
  <1>2. attempt[s] = 2 => CombineAttempts(first[s], r) \in Result
    BY <1>1, CombineAttemptsType DEF Tasks
  <1>3. phase' \in [Servers -> Phases]
    BY DEF Attempted, TypeOK, Phases
  <1>4. first' \in [Servers -> Result \cup {NoResult}]
    BY <1>1 DEF Attempted, TypeOK
  <1>5. result' \in [Servers -> Result \cup {NoResult}]
    BY <1>1, <1>2 DEF Attempted, TypeOK
  <1>6. Tasks'
    <2>1. ASSUME NEW t \in Servers
          PROVE  /\ phase'[t] = "queued" <=> attempt'[t] = 0
                 /\ phase'[t] = "sleeping" => attempt'[t] = 1
                 /\ phase'[t] = "sleeping" \/ attempt'[t] = 2 => first'[t] \in Result
      <3> HIDE DEF r
      <3>1. CASE t = s
        BY <3>1, <1>1 DEF Attempted, TypeOK, Tasks, r
      <3>2. CASE t # s
        BY <3>2 DEF Attempted, TypeOK, Tasks
      <3> QED
        BY <3>1, <3>2
    <2> QED
      BY <2>1 DEF Tasks
  <1> QED
    BY <1>3, <1>4, <1>5, <1>6

\* The findings of every check are findings.
LEMMA FindingsType ==
  /\ {F("fail", "evidence")} \in SUBSET Finding
  /\ {F("error", "transport")} \in SUBSET Finding
  /\ \A e, other : other \in OtherFindings => AppraiseServer(e, other) \in SUBSET Finding
  <1>1. \A severity \in Severity, check \in Checks : F(severity, check) \in Finding
    BY DEF F, Finding
  <1>2. \A e : TreeFindings(e) \in SUBSET Finding
    BY <1>1 DEF TreeFindings, Severity, Checks
  <1>3. \A e : VersionFindings(e) \in SUBSET Finding
    BY <1>1, PolicyAssumption DEF VersionFindings, Severity, Checks
  <1>4. \A other \in OtherFindings : other \in SUBSET Finding
    BY <1>1, PolicyAssumption DEF OtherFindings, Severity, Checks
  <1>5. {F("error", "source")} \in SUBSET Finding
    BY <1>1 DEF Severity, Checks
  <1> QED
    BY <1>1, <1>2, <1>3, <1>4, <1>5 DEF AppraiseServer, Severity, Checks

LEMMA TypeInit == Init => TypeOK /\ Tasks
  <1> SUFFICES ASSUME Init PROVE TypeOK /\ Tasks
    OBVIOUS
  <1>1. {0, 1} \subseteq 0 .. MaxCommit /\ 1 \in Commits /\ 0 \in 0 .. MaxChanges
    BY BoundAssumption DEF Commits
  <1>2. \A i \in BOOLEAN : /\ [commit |-> 1, intact |-> i] \in Deployed
                           /\ [commit |-> Unpublished, intact |-> i] \in Deployed
    BY <1>1 DEF Deployed
  <1>3. deployed \in [Servers -> Deployed]
    BY <1>2 DEF Init
  <1>4. answers \in SUBSET Answers
    <2>1. \A s \in Servers : Stale(s) \in Answers
      <3>1. [commit |-> 1, intact |-> TRUE] \in Deployed
        BY <1>2
      <3>2. \A s \in Servers : <<s, 0>> \in Nonces
        BY DEF Nonces
      <3> QED
        BY <3>1, <3>2 DEF Stale, Answers
    <2> QED
      BY <2>1 DEF Init
  <1>5. entry \in [Servers -> Entries]
    BY <1>1, <1>2 DEF Init, NoEntry, Entries
  <1>6. TypeOK
    <2>1. /\ calm \in [Servers -> BOOLEAN] /\ wasClean \in [Servers -> BOOLEAN]
          /\ steady \in [Servers -> BOOLEAN] /\ neverClean \in [Servers -> BOOLEAN]
      BY DEF Init, Clean
    <2>2. phase \in [Servers -> Phases] /\ attempt \in [Servers -> 0 .. 2]
      <3>1. phase = [s \in Servers |-> "queued"] /\ attempt = [s \in Servers |-> 0]
        BY DEF Init
      <3> QED
        BY <3>1 DEF Phases
    <2>3. /\ first \in [Servers -> Result \cup {NoResult}]
          /\ result \in [Servers -> Result \cup {NoResult}]
      <3>1. first = [s \in Servers |-> NoResult] /\ result = [s \in Servers |-> NoResult]
        BY DEF Init
      <3> QED
        BY <3>1
    <2> QED
      BY <1>1, <1>3, <1>4, <1>5, <2>1, <2>2, <2>3 DEF Init, TypeOK, RunPhases, FetchStates, NoReport
  <1>7. Tasks
    <2>1. phase = [s \in Servers |-> "queued"] /\ attempt = [s \in Servers |-> 0]
      BY DEF Init
    <2> QED
      BY <2>1 DEF Tasks
  <1> QED
    BY <1>6, <1>7

\* Sending a request starts an attempt.
LEMMA RequestType ==
  ASSUME TypeOK, Tasks, NEW s \in Servers, NEW n \in Attempts, Request(s, n),
         n = 2 => first[s] \in Result,
         UNCHANGED <<world, answers, run, selected, entry, first, result,
                     references, report, neverClean, calm>>
  PROVE  TypeOK' /\ Tasks'
  <1>1. phase' \in [Servers -> Phases] /\ attempt' \in [Servers -> 0 .. 2]
    BY DEF Request, TypeOK, Phases, Attempts
  <1>2. requests' \in SUBSET Nonces
    BY DEF Request, TypeOK, Nonces, Attempts
  <1>3. wasClean' \in [Servers -> BOOLEAN] /\ steady' \in [Servers -> BOOLEAN]
    BY DEF Request, TypeOK, Clean
  <1>4. TypeOK'
    BY <1>1, <1>2, <1>3 DEF TypeOK, world, references
  <1>5. Tasks'
    BY DEF Request, TypeOK, Tasks, Attempts
  <1> QED
    BY <1>4, <1>5

\* Whatever ends a collection with findings.
LEMMA CollectedType ==
  ASSUME TypeOK, NEW s \in Servers, Collected(s)
  PROVE  /\ neverClean' \in [Servers -> BOOLEAN]
         /\ attempt' = attempt
  BY DEF Collected, TypeOK

\* What moves in the world is watched.
LEMMA ChangeType ==
  ASSUME TypeOK, Tasks, NEW s \in Servers, NEW state \in Deployed, Change(s, state)
  PROVE  TypeOK' /\ Tasks'
  <1>1. changes' \in 0 .. MaxChanges
    BY BoundAssumption DEF Change, TypeOK
  <1>2. deployed' \in [Servers -> Deployed] /\ calm' \in [Servers -> BOOLEAN]
    BY DEF Change, TypeOK
  <1>3. wasClean' \in [Servers -> BOOLEAN] /\ steady' \in [Servers -> BOOLEAN]
    BY DEF Change, Watch, TypeOK, Clean
  <1> QED
    BY <1>1, <1>2, <1>3 DEF Change, TypeOK, Tasks, network, task, references

LEMMA TypeNext == TypeOK /\ Tasks /\ [Next]_vars => TypeOK' /\ Tasks'
  <1> SUFFICES ASSUME TypeOK, Tasks, [Next]_vars PROVE TypeOK' /\ Tasks'
    OBVIOUS
  <1>1. ASSUME NEW s \in Servers, Start(s) PROVE TypeOK' /\ Tasks'
    BY <1>1, RequestType DEF Start, Attempts
  <1>2. ASSUME NEW s \in Servers, Wake(s) PROVE TypeOK' /\ Tasks'
    BY <1>2, RequestType DEF Wake, Attempts, Tasks
  <1>3. ASSUME NEW s \in Servers, Receive(s) PROVE TypeOK' /\ Tasks'
    <2>1. entry' \in [Servers -> Entries]
      BY <1>3 DEF Receive, TypeOK, Answers, Entries
    <2>2. phase' \in [Servers -> Phases]
      BY <1>3 DEF Receive, TypeOK, Phases
    <2>3. TypeOK'
      BY <1>3, <2>1, <2>2, CollectedType DEF Receive, Collected, TypeOK, world, network, references
    <2> QED
      BY <1>3, <2>3 DEF Receive, Collected, Tasks, TypeOK
  <1>4. ASSUME NEW s \in Servers, Reject(s) PROVE TypeOK' /\ Tasks'
    <2>1. /\ phase' \in [Servers -> Phases] /\ Tasks'
          /\ first' \in [Servers -> Result \cup {NoResult}]
          /\ result' \in [Servers -> Result \cup {NoResult}]
      BY <1>4, CollectedType, AttemptedType, FindingsType DEF Reject
    <2>2. calm' \in [Servers -> BOOLEAN]
      BY <1>4 DEF Reject, TypeOK
    <2> QED
      BY <1>4, <2>1, <2>2, CollectedType DEF Reject, Collected, TypeOK, world, network, references
  <1>5. ASSUME NEW s \in Servers, Timeout(s) PROVE TypeOK' /\ Tasks'
    <2>1. /\ phase' \in [Servers -> Phases] /\ Tasks'
          /\ first' \in [Servers -> Result \cup {NoResult}]
          /\ result' \in [Servers -> Result \cup {NoResult}]
      BY <1>5, CollectedType, AttemptedType, FindingsType DEF Timeout
    <2> QED
      BY <1>5, <2>1, CollectedType DEF Timeout, Collected, TypeOK, world, network, references
  <1>6. ASSUME NEW s \in Servers, Appraise(s) PROVE TypeOK' /\ Tasks'
    <2>1. /\ phase' \in [Servers -> Phases] /\ Tasks'
          /\ first' \in [Servers -> Result \cup {NoResult}]
          /\ result' \in [Servers -> Result \cup {NoResult}]
      BY <1>6, AttemptedType, FindingsType DEF Appraise
    <2> QED
      BY <1>6, <2>1 DEF Appraise, TypeOK, world, network, references, history
  <1>7. ASSUME NEW s \in Servers, NEW n \in Attempts, Answer(s, n) PROVE TypeOK' /\ Tasks'
    <2>1. requests' \in SUBSET Nonces
      BY <1>7 DEF Answer, TypeOK
    <2>2. [nonce |-> <<s, n>>, state |-> deployed[s]] \in Answers
      BY DEF TypeOK, Answers, Nonces, Attempts
    <2>3. answers' \in SUBSET Answers
      BY <1>7, <2>2 DEF Answer, TypeOK
    <2> QED
      BY <1>7, <2>1, <2>3 DEF Answer, TypeOK, Tasks, world, task, references, history
  <1>8. CASE Fetch
    <2>1. tip \in 0 .. MaxCommit /\ mirror \in 0 .. MaxCommit
      BY BoundAssumption DEF TypeOK, Commits
    <2>2. fetched' \in FetchStates /\ mirror' \in 0 .. MaxCommit
      BY <1>8, <2>1 DEF Fetch, FetchStates
    <2> QED
      BY <1>8, <2>2 DEF Fetch, TypeOK, Tasks, world, network, task, history
  <1>9. CASE Report
    <2>1. OverallStatus({result[s].status : s \in selected}) \in Status
      BY OverallStatusType
    <2>2. report' \in [status : Status \cup {"none"}, servers : SUBSET Servers]
      BY <1>9, <2>1 DEF Report, TypeOK
    <2> QED
      BY <1>9, <2>2 DEF Report, TypeOK, Tasks, RunPhases, world, network, task, references, history
  <1>10. CASE Crash
    BY <1>10 DEF Crash, TypeOK, Tasks, RunPhases, world, network, task, references, history
  <1>11. CASE Push
    <2>1. tip' \in Commits
      BY <1>11, BoundAssumption DEF Push, TypeOK, Commits
    <2>2. wasClean' \in [Servers -> BOOLEAN] /\ steady' \in [Servers -> BOOLEAN]
      BY <1>11 DEF Push, Watch, TypeOK, Clean
    <2> QED
      BY <1>11, <2>1, <2>2 DEF Push, TypeOK, Tasks, network, task, references
  <1>12. CASE Age
    BY <1>12, BoundAssumption DEF Age, TypeOK, Tasks, Commits, network, task, references, history
  <1>13. ASSUME NEW s \in Servers, Deploy(s) PROVE TypeOK' /\ Tasks'
    <2>1. PICK c \in (1 .. tip) \cup {Unpublished} : Change(s, [commit |-> c, intact |-> FALSE])
      BY <1>13 DEF Deploy
    <2>2. c \in Commits \cup {Unpublished}
      BY BoundAssumption DEF TypeOK, Commits
    <2>3. [commit |-> c, intact |-> FALSE] \in Deployed
      BY <2>2 DEF Deployed
    <2> QED
      BY <2>1, <2>3, ChangeType
  <1>14. ASSUME NEW s \in Servers, Repair(s) \/ Tamper(s) PROVE TypeOK' /\ Tasks'
    <2>1. /\ [deployed[s] EXCEPT !.intact = TRUE] \in Deployed
          /\ [deployed[s] EXCEPT !.intact = FALSE] \in Deployed
      <3>1. deployed[s] \in Deployed
        BY DEF TypeOK
      <3> QED
        BY <3>1 DEF Deployed
    <2> QED
      BY <1>14, <2>1, ChangeType DEF Repair, Tamper
  <1>15. CASE UNCHANGED vars
    BY <1>15 DEF vars, TypeOK, Tasks, world, network, task, references, history
  <1> QED
    BY <1>1, <1>2, <1>3, <1>4, <1>5, <1>6, <1>7, <1>8, <1>9, <1>10, <1>11, <1>12, <1>13, <1>14, <1>15
    DEF Next, Task, World

\* Every variable keeps its type: TypeOK, for any servers, policy and bounds.
THEOREM TypeCorrect == Spec => []TypeOK
  BY TypeInit, TypeNext, PTL DEF Spec

-----------------------------------------------------------------------------
(* Safety                                                                  *)

\* Nothing but a published commit with its files is appraised as clean.
LEMMA AppraisedGood ==
  ASSUME NEW e \in Entries, NEW other,
         StatusOf(AppraiseServer(e, other)) \in {"pass", "warn"}
  PROVE  Good(e.state)
  <1> SUFFICES ASSUME ~Good(e.state)
               PROVE  \E f \in AppraiseServer(e, other) : f.severity \in NotClean
    BY NotCleanStatus DEF NotClean
  <1> DEFINE error == F("error", "source")
             fail == F("fail", "source")
  <1>0. error.severity \in NotClean /\ fail.severity \in NotClean
    BY DEF F, NotClean
  <1>1. CASE fetched = "failed"
    <2>1. error \in AppraiseServer(e, other)
      BY <1>1 DEF AppraiseServer
    <2> QED
      BY <1>0, <2>1
  <1>2. CASE fetched # "failed"
    <2>1. TreeFindings(e) = {F("fail", "source")}
      <3>1. ~(e.state.commit \in 1 .. mirror /\ e.state.intact)
        BY DEF Good, Unpublished
      <3> QED
        BY <3>1 DEF TreeFindings
    <2>2. fail \in AppraiseServer(e, other)
      BY <1>2, <2>1 DEF AppraiseServer
    <2> QED
      BY <1>0, <2>2
  <1> QED
    BY <1>1, <1>2

\* A good state of a server is a clean one, of what is pushed by then.
LEMMA GoodIsClean ==
  ASSUME NEW state \in Deployed, NEW newest \in Nat, state.commit <= newest
  PROVE  Good(state) => Clean(state, newest)
  BY BoundAssumption DEF Good, Clean, Deployed, Commits, Unpublished

LEMMA InvInit == Init => Inv
  <1> SUFFICES ASSUME Init PROVE Inv
    OBVIOUS
  <1>1. TypeOK /\ Tasks
    BY TypeInit
  <1>2. phase = [s \in Servers |-> "queued"] /\ attempt = [s \in Servers |-> 0]
    BY DEF Init
  <1>3. Pushed
    <2>1. /\ tip = 1
          /\ deployed \in [Servers -> {[commit |-> 1, intact |-> TRUE], [commit |-> 1, intact |-> FALSE]}]
      BY DEF Init
    <2>2. \A s \in Servers : deployed[s].commit = 1
      BY <2>1
    <2> QED
      BY <2>1, <2>2 DEF Pushed
  <1>4. Numbered
    <2>1. requests = {} /\ answers = {Stale(s) : s \in Servers}
      BY DEF Init
    <2>2. \A s \in Servers : Stale(s).nonce = <<s, 0>>
      BY DEF Stale
    <2>3. \A s \in Servers : Stale(s).nonce[2] <= attempt[Stale(s).nonce[1]]
      BY <1>2, <2>2
    <2> QED
      BY <2>1, <2>3 DEF Numbered
  <1>5. Seen /\ Verdicts
    BY <1>2 DEF Seen, Verdicts, Done
  <1> QED
    BY <1>1, <1>3, <1>4, <1>5 DEF Inv

\* A request looks at the server first, and its nonce is new.
LEMMA RequestInv ==
  ASSUME Inv, NEW s \in Servers, NEW n \in Attempts, Request(s, n), attempt[s] < n,
         UNCHANGED <<world, answers, run, selected, entry, first, result,
                     references, report, neverClean, calm>>
  PROVE  Pushed' /\ Numbered' /\ Seen' /\ Verdicts'
  <1>1. /\ phase' = [phase EXCEPT ![s] = "collecting"]
        /\ attempt' = [attempt EXCEPT ![s] = n]
        /\ requests' = requests \cup {<<s, n>>}
        /\ wasClean' = [wasClean EXCEPT ![s] = Clean(deployed[s], tip)]
        /\ UNCHANGED <<tip, deployed, answers, entry, first, result, neverClean>>
    BY DEF Request, world
  <1>2. /\ phase \in [Servers -> Phases] /\ attempt \in [Servers -> 0 .. 2] /\ n \in 1 .. 2
        /\ requests \in SUBSET (Servers \X (0 .. 2))
        /\ \A a \in answers : a.nonce \in Servers \X (0 .. 2)
        /\ wasClean \in [Servers -> BOOLEAN]
    BY DEF Inv, TypeOK, Attempts, Answers, Nonces
  <1>3. Pushed'
    BY <1>1 DEF Inv, Pushed
  <1>4. \A t \in Servers : attempt[t] <= attempt'[t]
    BY <1>1, <1>2
  <1>5. Numbered'
    <2>1. ASSUME NEW q \in requests PROVE q[2] <= attempt'[q[1]]
      BY <1>1, <1>2, <1>4 DEF Inv, Numbered
    <2>2. ASSUME NEW a \in answers PROVE a.nonce[2] <= attempt'[a.nonce[1]]
      BY <1>1, <1>2, <1>4 DEF Inv, Numbered
    <2>3. n <= attempt'[s]
      BY <1>1, <1>2
    <2> QED
      BY <1>1, <2>1, <2>2, <2>3 DEF Numbered
  <1>6. Seen'
    <2>1. Good(deployed[s]) => wasClean'[s]
      <3>1. deployed[s] \in Deployed /\ tip \in Nat /\ deployed[s].commit <= tip
        BY DEF Inv, TypeOK, Pushed, Commits
      <3> QED
        BY <1>1, <1>2, <3>1, GoodIsClean
    <2>2. \A a \in answers : a.nonce # <<s, n>>
      BY <1>2 DEF Inv, Numbered
    <2>3. \A t \in Servers \ {s} : phase'[t] = phase[t] /\ attempt'[t] = attempt[t] /\ wasClean'[t] = wasClean[t]
      BY <1>1
    <2>4. phase'[s] = "collecting" /\ attempt'[s] = n
      BY <1>1, <1>2
    <2> QED
      BY <1>1, <2>1, <2>2, <2>3, <2>4 DEF Inv, Seen, Good
  <1>7. Verdicts'
    <2>1. \A t \in Servers \ {s} : phase'[t] = phase[t] /\ attempt'[t] = attempt[t] /\ wasClean'[t] = wasClean[t]
      BY <1>1
    <2>2. phase'[s] = "collecting"
      BY <1>1, <1>2
    <2> QED
      BY <1>1, <2>1, <2>2 DEF Inv, Verdicts, Done
  <1> QED
    BY <1>3, <1>5, <1>6, <1>7

\* An attempt that ends clean has seen the server clean.
LEMMA AttemptedInv ==
  ASSUME Inv, NEW s \in Servers, NEW findings \in SUBSET Finding, Attempted(s, findings),
         UNCHANGED <<tip, deployed, requests, answers, attempt, entry, wasClean>>,
         StatusOf(findings) \in {"pass", "warn"} => wasClean[s],
         attempt[s] = 1 => neverClean'[s] = ~wasClean[s],
         \A t \in Servers \ {s} : neverClean'[t] = neverClean[t]
  PROVE  Pushed' /\ Numbered' /\ Seen' /\ Verdicts'
  <1> DEFINE r == ResultOf(findings)
  <1>1. r \in Result /\ r.status = StatusOf(findings)
    BY ResultOfType DEF ResultOf
  <1>2. /\ phase \in [Servers -> Phases]
        /\ first \in [Servers -> Result \cup {NoResult}]
        /\ result \in [Servers -> Result \cup {NoResult}]
    BY DEF Inv, TypeOK
  <1>3. \A t \in Servers \ {s} : phase'[t] = phase[t] /\ first'[t] = first[t] /\ result'[t] = result[t]
    BY <1>2 DEF Attempted
  <1>4. phase'[s] \in {"sleeping", "done"}
    BY <1>2 DEF Attempted
  <1>5. Pushed' /\ Numbered'
    BY DEF Inv, Pushed, Numbered
  <1>6. Seen'
    BY <1>3, <1>4 DEF Inv, Seen, Good
  <1>7. Verdicts'
    <2>1. CASE attempt[s] = 1
      <3>1. phase'[s] = "done" => result'[s] = first'[s] /\ first'[s] = r
        BY <1>2, <2>1 DEF Attempted
      <3> QED
        BY <1>1, <1>3, <1>4, <2>1, <3>1 DEF Inv, Verdicts, Done
    <2>2. CASE attempt[s] = 2
      <3>1. result'[s] = CombineAttempts(first[s], r) /\ first'[s] = first[s]
        BY <1>2, <2>2 DEF Attempted
      <3>2. first[s] \in Result
        BY <2>2 DEF Inv, Tasks
      <3> HIDE DEF r
      <3>3. /\ result'[s].status # "pass"
            /\ result'[s].status \in {"pass", "warn"} => r.status \in {"pass", "warn"}
            /\ first[s].status = "fail" => result'[s].status \in {"fail", "warn"}
        BY <1>1, <3>1, <3>2, CombineAttemptsStatus
      <3> QED
        BY <1>1, <1>3, <1>4, <2>2, <3>1, <3>3 DEF Inv, Verdicts, Done
    <2>3. attempt[s] \in {1, 2}
      BY DEF Attempted
    <2> QED
      BY <2>1, <2>2, <2>3
  <1> QED
    BY <1>5, <1>6, <1>7

\* Commits are pushed, servers are deployed to, changed and put right: the
\* collections under way see it, and what is settled stays.
LEMMA WorldInv ==
  ASSUME Inv, NEW newTip \in Nat, newTip >= tip, tip' = newTip,
         \A t \in Servers : deployed'[t] \in Deployed /\ deployed'[t].commit <= newTip,
         Watch(newTip, deployed'),
         UNCHANGED <<network, task, neverClean>>
  PROVE  Pushed' /\ Numbered' /\ Seen' /\ Verdicts'
  <1>1. \A t \in Servers :
           wasClean'[t] = (wasClean[t] \/ (phase[t] = "collecting" /\ Clean(deployed'[t], newTip)))
    BY DEF Watch
  <1>2. UNCHANGED <<requests, answers, phase, attempt, entry, first, result, neverClean>>
    BY DEF network, task
  <1>3. Pushed'
    BY DEF Pushed
  <1>4. Numbered'
    BY <1>2 DEF Inv, Numbered
  <1>5. Seen'
    <2>1. ASSUME NEW t \in Servers
          PROVE  Good(deployed'[t]) /\ phase[t] = "collecting" => wasClean'[t]
      BY <1>1, GoodIsClean
    <2>2. \A t \in Servers : wasClean[t] => wasClean'[t]
      BY <1>1
    <2> QED
      BY <1>2, <2>1, <2>2 DEF Inv, Seen, Good
  <1>6. Verdicts'
    <2>1. \A t \in Servers : phase[t] # "collecting" => (wasClean'[t] <=> wasClean[t])
      BY <1>1
    <2>2. wasClean \in [Servers -> BOOLEAN] /\ wasClean' \in [Servers -> BOOLEAN]
      BY DEF Inv, TypeOK, Watch, Clean
    <2>3. \A t \in Servers : phase[t] # "collecting" => wasClean'[t] = wasClean[t]
      BY <2>1, <2>2
    <2> QED
      BY <1>2, <2>3 DEF Inv, Verdicts, Done
  <1> QED
    BY <1>3, <1>4, <1>5, <1>6

LEMMA ChangeInv ==
  ASSUME Inv, NEW s \in Servers, NEW state \in Deployed, state.commit <= tip, Change(s, state)
  PROVE  Pushed' /\ Numbered' /\ Seen' /\ Verdicts'
  <1>1. /\ tip' = tip /\ tip \in Nat
        /\ deployed' = [deployed EXCEPT ![s] = state]
        /\ deployed \in [Servers -> Deployed]
    BY DEF Change, Inv, TypeOK, Commits
  <1>2. \A t \in Servers : deployed'[t] \in Deployed /\ deployed'[t].commit <= tip
    BY <1>1 DEF Inv, Pushed
  <1>3. Watch(tip, deployed') /\ UNCHANGED <<network, task, neverClean>>
    BY DEF Change
  <1>4. tip \in Nat /\ tip >= tip /\ tip' = tip
    BY <1>1
  <1> QED
    BY <1>2, <1>3, <1>4, WorldInv

LEMMA InvNext == Inv /\ [Next]_vars => Inv'
  <1> SUFFICES ASSUME Inv, [Next]_vars PROVE Pushed' /\ Numbered' /\ Seen' /\ Verdicts'
    BY TypeNext DEF Inv
  <1>1. ASSUME NEW s \in Servers, Start(s) PROVE Pushed' /\ Numbered' /\ Seen' /\ Verdicts'
    <2>1. attempt[s] = 0
      BY <1>1 DEF Start, Inv, Tasks
    <2> QED
      BY <1>1, <2>1, RequestInv DEF Start, Attempts
  <1>2. ASSUME NEW s \in Servers, Wake(s) PROVE Pushed' /\ Numbered' /\ Seen' /\ Verdicts'
    <2>1. attempt[s] = 1
      BY <1>2 DEF Wake, Inv, Tasks
    <2> QED
      BY <1>2, <2>1, RequestInv DEF Wake, Attempts
  <1>3. ASSUME NEW s \in Servers, Receive(s) PROVE Pushed' /\ Numbered' /\ Seen' /\ Verdicts'
    <2>1. PICK a \in answers : /\ a.nonce = <<s, attempt[s]>>
                               /\ entry' = [entry EXCEPT ![s] = [state |-> a.state, aged |-> aged]]
      BY <1>3 DEF Receive, Fresh
    <2>2. /\ phase[s] = "collecting" /\ phase' = [phase EXCEPT ![s] = "appraising"]
          /\ phase \in [Servers -> Phases] /\ entry \in [Servers -> Entries]
          /\ neverClean \in [Servers -> BOOLEAN]
      BY <1>3 DEF Receive, Collected, Inv, TypeOK
    <2>3. UNCHANGED <<tip, deployed, requests, answers, attempt, first, result, wasClean>>
      BY <1>3 DEF Receive, Collected, world, network
    <2>4. neverClean' = IF attempt[s] = 1 THEN [neverClean EXCEPT ![s] = ~wasClean[s]] ELSE neverClean
      BY <1>3 DEF Receive, Collected
    <2>5. \A t \in Servers \ {s} : phase'[t] = phase[t] /\ entry'[t] = entry[t] /\ neverClean'[t] = neverClean[t]
      BY <2>1, <2>2, <2>4
    <2>6. Pushed' /\ Numbered'
      BY <2>3 DEF Inv, Pushed, Numbered
    <2>7. Seen'
      <3>1. entry'[s].state = a.state /\ phase'[s] = "appraising"
        BY <2>1, <2>2
      <3>2. Good(a.state) => wasClean[s]
        BY <2>1, <2>2 DEF Inv, Seen
      <3> QED
        BY <2>3, <2>5, <3>1, <3>2 DEF Inv, Seen, Good
    <2>8. Verdicts'
      <3>1. phase'[s] = "appraising" /\ (attempt[s] = 1 => neverClean'[s] = ~wasClean[s])
        BY <2>2, <2>4
      <3> QED
        BY <2>3, <2>5, <3>1 DEF Inv, Verdicts, Done
    <2> QED
      BY <2>6, <2>7, <2>8
  <1>4. ASSUME NEW s \in Servers, Reject(s) \/ Timeout(s) PROVE Pushed' /\ Numbered' /\ Seen' /\ Verdicts'
    <2>1. PICK findings \in {{F("fail", "evidence")}, {F("error", "transport")}} : Attempted(s, findings)
      BY <1>4 DEF Reject, Timeout
    <2>2. StatusOf(findings) \in NotClean
      <3>1. findings = {F("fail", "evidence")} \/ findings = {F("error", "transport")}
        BY <2>1
      <3>2. F("fail", "evidence").severity \in NotClean /\ F("error", "transport").severity \in NotClean
        BY DEF F, NotClean
      <3> QED
        BY <3>1, <3>2, NotCleanStatus
    <2>3. /\ UNCHANGED <<tip, deployed, requests, answers, attempt, entry, wasClean>>
          /\ neverClean' = IF attempt[s] = 1 THEN [neverClean EXCEPT ![s] = ~wasClean[s]] ELSE neverClean
          /\ neverClean \in [Servers -> BOOLEAN]
      BY <1>4 DEF Reject, Timeout, Collected, world, network, Inv, TypeOK
    <2>4. StatusOf(findings) \notin {"pass", "warn"}
      BY <2>2 DEF NotClean
    <2>5. findings \in SUBSET Finding
      BY FindingsType
    <2>6. /\ attempt[s] = 1 => neverClean'[s] = ~wasClean[s]
          /\ \A t \in Servers \ {s} : neverClean'[t] = neverClean[t]
      BY <2>3
    <2> QED
      BY <2>1, <2>3, <2>4, <2>5, <2>6, AttemptedInv
  <1>5. ASSUME NEW s \in Servers, Appraise(s) PROVE Pushed' /\ Numbered' /\ Seen' /\ Verdicts'
    <2>1. PICK other \in OtherFindings : Attempted(s, AppraiseServer(entry[s], other))
      BY <1>5 DEF Appraise
    <2>2. phase[s] = "appraising" /\ entry[s] \in Entries
      BY <1>5 DEF Appraise, Inv, TypeOK
    <2>3. UNCHANGED <<tip, deployed, requests, answers, attempt, entry, wasClean, neverClean>>
      BY <1>5 DEF Appraise, world, network, history
    <2>4. StatusOf(AppraiseServer(entry[s], other)) \in {"pass", "warn"} => wasClean[s]
      BY <2>2, AppraisedGood DEF Inv, Seen
    <2>5. AppraiseServer(entry[s], other) \in SUBSET Finding
      BY FindingsType
    <2>6. attempt[s] = 1 => neverClean'[s] = ~wasClean[s]
      BY <2>2, <2>3 DEF Inv, Verdicts
    <2> QED
      BY <2>1, <2>3, <2>4, <2>5, <2>6, AttemptedInv
  <1>6. ASSUME NEW s \in Servers, NEW n \in Attempts, Answer(s, n)
        PROVE  Pushed' /\ Numbered' /\ Seen' /\ Verdicts'
    <2> DEFINE a == [nonce |-> <<s, n>>, state |-> deployed[s]]
    <2>1. /\ <<s, n>> \in requests /\ requests' \in SUBSET requests /\ answers' = answers \cup {a}
          /\ UNCHANGED <<tip, deployed, phase, attempt, entry, first, result, wasClean, neverClean>>
      BY <1>6 DEF Answer, world, task, history
    <2>2. Pushed' /\ Verdicts'
      BY <2>1 DEF Inv, Pushed, Verdicts, Done
    <2>3. Numbered'
      <3>1. a.nonce[2] <= attempt[a.nonce[1]]
        BY <2>1 DEF Inv, Numbered
      <3> QED
        BY <2>1, <3>1 DEF Inv, Numbered
    <2>4. Seen'
      <3>1. \A t \in Servers : phase[t] = "collecting" /\ a.nonce = <<t, attempt[t]>> /\ Good(a.state)
                                   => wasClean[t]
        BY DEF Inv, Seen
      <3> HIDE DEF a
      <3> QED
        BY <2>1, <3>1 DEF Inv, Seen, Good
    <2> QED
      BY <2>2, <2>3, <2>4
  <1>7. CASE Fetch \/ Report \/ Crash \/ Age
    <2>1. UNCHANGED <<tip, deployed, network, task, history>>
      BY <1>7 DEF Fetch, Report, Crash, Age, world
    <2> QED
      BY <2>1 DEF Inv, Pushed, Numbered, Seen, Good, Verdicts, Done, network, task, history
  <1>8. CASE Push
    <2>1. tip \in Nat /\ tip' = tip + 1 /\ deployed' = deployed
      BY <1>8 DEF Push, Inv, TypeOK, Commits
    <2>2. \A t \in Servers : deployed[t] \in Deployed /\ deployed[t].commit \in Nat /\ deployed[t].commit <= tip
      BY DEF Inv, TypeOK, Pushed, Deployed, Commits, Unpublished
    <2>3. Watch(tip + 1, deployed') /\ UNCHANGED <<network, task, neverClean>>
      BY <1>8, <2>1 DEF Push
    <2>4. \A t \in Servers : deployed'[t] \in Deployed /\ deployed'[t].commit <= tip + 1
      BY <2>1, <2>2
    <2> QED
      BY <2>1, <2>3, <2>4, WorldInv
  <1>9. ASSUME NEW s \in Servers, Deploy(s) PROVE Pushed' /\ Numbered' /\ Seen' /\ Verdicts'
    <2>1. PICK c \in (1 .. tip) \cup {Unpublished} : Change(s, [commit |-> c, intact |-> FALSE])
      BY <1>9 DEF Deploy
    <2>2. tip \in Nat /\ c \in Commits \cup {Unpublished} /\ c <= tip
      BY BoundAssumption DEF Inv, TypeOK, Commits, Unpublished
    <2>3. [commit |-> c, intact |-> FALSE] \in Deployed
      BY <2>2 DEF Deployed
    <2> QED
      BY <2>1, <2>2, <2>3, ChangeInv
  <1>10. ASSUME NEW s \in Servers, Repair(s) \/ Tamper(s) PROVE Pushed' /\ Numbered' /\ Seen' /\ Verdicts'
    <2>1. PICK i \in BOOLEAN : Change(s, [deployed[s] EXCEPT !.intact = i])
      BY <1>10 DEF Repair, Tamper
    <2>2. deployed[s] \in Deployed /\ deployed[s].commit <= tip
      BY DEF Inv, TypeOK, Pushed
    <2>3. /\ [deployed[s] EXCEPT !.intact = i] \in Deployed
          /\ [deployed[s] EXCEPT !.intact = i].commit <= tip
      BY <2>2 DEF Deployed
    <2> QED
      BY <2>1, <2>3, ChangeInv
  <1>11. CASE UNCHANGED vars
    BY <1>11 DEF vars, Inv, Pushed, Numbered, Seen, Good, Verdicts, Done, world, network, task, history
  <1> QED
    BY <1>1, <1>2, <1>3, <1>4, <1>5, <1>6, <1>7, <1>8, <1>9, <1>10, <1>11 DEF Next, Task, World

LEMMA Invariance == Spec => []Inv
  BY InvInit, InvNext, PTL DEF Spec

\* A server is reported passing or with warnings only on an answer to this
\* attempt's nonce, of a time at which it was on a published commit with its
\* files: however many answers of other attempts, runs and servers arrive.
THEOREM Freshness == Spec => []VerdictIsFresh
  <1>1. Inv => VerdictIsFresh
    BY DEF Inv, Verdicts, VerdictIsFresh
  <1> QED
    BY <1>1, Invariance, PTL

\* A failing first attempt is never dropped nor traded for an inconclusive
\* one (combineAttempts): it stays failing, or becomes a warning by a second
\* collection that saw the server clean.
THEOREM FailureStays == Spec => []FailureKept
  <1>1. Inv => FailureKept
    <2> SUFFICES ASSUME Inv, NEW s \in Servers, Done(s), first[s].status = "fail"
                 PROVE  \/ result[s].status = "fail"
                        \/ result[s].status = "warn" /\ attempt[s] = 2 /\ wasClean[s]
      BY DEF FailureKept
    <2>1. attempt[s] \in {1, 2}
      BY DEF Inv, TypeOK, Tasks, Done
    <2> QED
      BY <2>1 DEF Inv, Verdicts
  <1> QED
    BY <1>1, Invariance, PTL

\* A server that was not clean while it was first collected is not reported
\* clean, whatever it restores before the second attempt.
THEOREM RestorationIsSeen == Spec => []RestoredNotClean
  <1>1. Inv => RestoredNotClean
    <2> SUFFICES ASSUME Inv, NEW s \in Servers, Done(s), neverClean[s]
                 PROVE  result[s].status # "pass"
      BY DEF RestoredNotClean
    <2>1. CASE attempt[s] = 1
      BY <2>1 DEF Inv, Verdicts, Done
    <2>2. CASE attempt[s] = 2
      BY <2>2 DEF Inv, Verdicts
    <2>3. attempt[s] \in {1, 2}
      BY DEF Inv, TypeOK, Tasks, Done
    <2> QED
      BY <2>1, <2>2, <2>3
  <1> QED
    BY <1>1, Invariance, PTL

-----------------------------------------------------------------------------
(* More invariants                                                         *)

\* Only selected servers start, and their slots are counted.
Slots ==
    /\ \A s \in Servers \ selected : phase[s] = "queued"
    /\ IsFiniteSet(Active) /\ Cardinality(Active) <= Concurrency

\* A result says what its findings and its first attempt are worth.
Found ==
    \A s \in Servers :
        /\ ~Done(s) /\ phase[s] # "sleeping" /\ attempt[s] # 2 => first[s] = NoResult
        /\ phase[s] = "sleeping" \/ attempt[s] = 2
              => \E f \in first[s].findings : first[s].status \in NotClean /\ f.severity \in NotClean
        /\ ~Done(s) => result[s] = NoResult
        /\ Done(s) => /\ first[s] \in Result /\ result[s] \in Result
                      /\ result[s].status = StatusOf(result[s].findings)
                      /\ result[s].status \in Permitted(first[s].status)
                      /\ attempt[s] = 2 <=> result[s].earlier # {}

\* There is no report before the last task is done.
Published ==
    /\ run # "reported" => report = NoReport
    /\ run = "reported" =>
          /\ AllDone
          /\ report = [status  |-> OverallStatus({result[s].status : s \in selected}),
                       servers |-> selected]

\* The references are a tip of the branch, once they are fetched.
Mirrored ==
    /\ fetched = "fetched" => mirror \in 1 .. tip
    /\ fetched # "fetched" => mirror = 0

\* Only what the version check lets through does not fail.
Versioned ==
    \A s \in Servers : Done(s) /\ result[s].status \in {"pass", "warn"} =>
        /\ fetched = "fetched"
        /\ Version = "latest" /\ VersionMismatch = "fail" /\ ~GraceOn
              => entry[s].state.commit = mirror

\* A server that nothing happened to is as it was at the start, and so are
\* its answers.
Original == [commit |-> 1, intact |-> TRUE]

Untouched ==
    \A s \in Servers :
        /\ entry[s].aged <= aged
        /\ calm[s] => /\ deployed[s] = Original
                      /\ \A a \in answers : a.nonce[1] = s => a.state = Original
                      /\ phase[s] = "appraising" => entry[s].state = Original

\* The version check lets commit 1 through.
Excused == \/ Version = "any" \/ VersionMismatch = "warn" \/ tip = 1
           \/ GraceOn /\ aged < mirror

Unalarmed ==
    \A s \in Servers : calm[s] /\ "fail" \in {first[s].status, result[s].status}
        => fetched # "unfetched" /\ ~Excused

-----------------------------------------------------------------------------
(* At most Concurrency at a time                                           *)

\* Steps that start no task keep or free the slots.
LEMMA SlotsKept ==
  ASSUME TypeOK, Slots, selected' = selected,
         \A s \in Servers : /\ phase[s] = "queued" => phase'[s] = "queued"
                            /\ phase[s] = "done" => phase'[s] = "done"
  PROVE  Slots'
  <1>1. Active' \in SUBSET Active
    BY DEF Active, TypeOK
  <1>2. IsFiniteSet(Active') /\ Cardinality(Active') <= Cardinality(Active)
    BY <1>1, FS_Subset DEF Slots
  <1>3. Cardinality(Active) \in Nat /\ Cardinality(Active') \in Nat
    BY <1>2, FS_CardinalityType DEF Slots
  <1>4. Cardinality(Active') <= Concurrency
    BY <1>2, <1>3, ConcurrencyAssumption DEF Slots
  <1> QED
    BY <1>2, <1>4 DEF Slots

LEMMA SlotsInit == Init => Slots
  <1> SUFFICES ASSUME Init PROVE Slots
    OBVIOUS
  <1>1. selected \in SUBSET Servers /\ phase = [s \in Servers |-> "queued"]
    BY DEF Init
  <1>2. Active = {}
    BY <1>1 DEF Active
  <1> QED
    BY <1>1, <1>2, FS_EmptySet, ConcurrencyAssumption DEF Slots

LEMMA SlotsNext == Inv /\ Slots /\ [Next]_vars => Slots'
  <1> SUFFICES ASSUME Inv, Slots, [Next]_vars PROVE Slots'
    OBVIOUS
  <1>0. TypeOK /\ phase \in [Servers -> Phases]
    BY DEF Inv, TypeOK
  <1>1. ASSUME NEW s \in Servers, Start(s) PROVE Slots'
    <2>1. /\ s \in selected /\ selected' = selected /\ selected \in SUBSET Servers
          /\ phase' = [phase EXCEPT ![s] = "collecting"] /\ phase[s] = "queued"
          /\ Cardinality(Active) < Concurrency
      BY <1>1, <1>0 DEF Start, Request, TypeOK
    <2>2. Active' = Active \cup {s} /\ s \notin Active
      BY <1>0, <2>1 DEF Active
    <2>3. IsFiniteSet(Active') /\ Cardinality(Active') = Cardinality(Active) + 1
      BY <2>2, FS_AddElement DEF Slots
    <2>4. Cardinality(Active) \in Nat
      BY FS_CardinalityType DEF Slots
    <2>5. Cardinality(Active') <= Concurrency
      BY <2>1, <2>3, <2>4, ConcurrencyAssumption
    <2>6. \A t \in Servers \ selected' : phase'[t] = "queued"
      BY <1>0, <2>1 DEF Slots
    <2> QED
      BY <2>3, <2>5, <2>6 DEF Slots
  <1>2. ASSUME NEW s \in Servers, Wake(s) \/ Receive(s) \/ Reject(s) \/ Timeout(s) \/ Appraise(s)
        PROVE  Slots'
    <2>1. /\ selected' = selected /\ phase[s] \notin {"queued", "done"}
          /\ \A t \in Servers \ {s} : phase'[t] = phase[t]
      BY <1>2, <1>0 DEF Wake, Request, Receive, Reject, Timeout, Appraise, Collected, Attempted
    <2> QED
      BY <1>0, <2>1, SlotsKept
  <1>3. CASE (\E s \in Servers, n \in Attempts : Answer(s, n)) \/ Fetch \/ Report \/ Crash \/ World
    <2>1. UNCHANGED <<selected, phase>>
      BY <1>3 DEF Answer, Fetch, Report, Crash, World, Push, Age, Deploy, Repair, Tamper, Change, task
    <2> QED
      BY <1>0, <2>1, SlotsKept
  <1>4. CASE UNCHANGED vars
    BY <1>0, <1>4, SlotsKept DEF vars, task
  <1> QED
    BY <1>1, <1>2, <1>3, <1>4 DEF Next, Task

\* Servers are verified Concurrency at a time, for every Concurrency and
\* however many servers: those that wait for their second attempt count.
THEOREM SlotsAreBounded == Spec => []AtMostConcurrency
  <1>1. Inv /\ Slots => AtMostConcurrency
    <2> SUFFICES ASSUME Inv, Slots PROVE AtMostConcurrency
      OBVIOUS
    <2>1. {s \in Servers : phase[s] \in {"collecting", "appraising", "sleeping"}} = Active
      BY DEF Inv, TypeOK, Phases, Slots, Active
    <2> QED
      BY <2>1 DEF Slots, AtMostConcurrency
  <1>2. Spec => []Slots
    BY Invariance, SlotsInit, SlotsNext, PTL DEF Spec
  <1> QED
    BY <1>1, <1>2, Invariance, PTL
-----------------------------------------------------------------------------
(* Results say what was found                                              *)

\* An attempt that ends leaves a result that its findings explain.
LEMMA AttemptedFound ==
  ASSUME Inv, Found, NEW s \in Servers, phase[s] \in {"collecting", "appraising"},
         NEW findings \in SUBSET Finding, Attempted(s, findings), attempt' = attempt
  PROVE  Found'
  <1> DEFINE r == ResultOf(findings)
  <1>1. r \in Result /\ r.status = StatusOf(findings) /\ r.findings = findings /\ r.earlier = {}
    BY ResultOfType DEF ResultOf
  <1>2. /\ phase \in [Servers -> Phases]
        /\ first \in [Servers -> Result \cup {NoResult}]
        /\ result \in [Servers -> Result \cup {NoResult}]
    BY DEF Inv, TypeOK
  <1>3. \A t \in Servers \ {s} : phase'[t] = phase[t] /\ first'[t] = first[t] /\ result'[t] = result[t]
    BY <1>2 DEF Attempted
  <1>4. r.status \in Permitted(r.status)
    BY <1>1, PermittedItself DEF Result
  <1> HIDE DEF r
  <1>5. CASE attempt[s] = 1 /\ NeedsRetry(RetryOn, r)
    <2>1. phase'[s] = "sleeping" /\ first'[s] = r /\ result'[s] = result[s] /\ result[s] = NoResult
      BY <1>2, <1>5 DEF Attempted, Found, Done, r
    <2>2. \E f \in r.findings : r.status \in NotClean /\ f.severity \in NotClean
      BY <1>1, <1>5, NotCleanFinding DEF NeedsRetry
    <2>3. attempt'[s] = 1
      BY <1>5
    <2> QED
      BY <1>3, <2>1, <2>2, <2>3 DEF Found, Done
  <1>6. CASE attempt[s] = 1 /\ ~NeedsRetry(RetryOn, r)
    <2>1. phase'[s] = "done" /\ first'[s] = r /\ result'[s] = r
      BY <1>2, <1>6 DEF Attempted, r
    <2>2. attempt'[s] = 1
      BY <1>6
    <2> QED
      BY <1>1, <1>3, <1>4, <2>1, <2>2 DEF Found, Done
  <1>7. CASE attempt[s] = 2
    <2> DEFINE both == CombineAttempts(first[s], r)
    <2>1. first[s] \in Result
      BY <1>7 DEF Inv, Tasks
    <2>2. PICK g \in first[s].findings : first[s].status \in NotClean /\ g.severity \in NotClean
      BY <1>7 DEF Found
    <2>3. /\ both \in Result /\ both.status = StatusOf(both.findings)
          /\ both.earlier # {} /\ both.status \in Permitted(first[s].status)
      BY <1>1, <2>1, <2>2, CombineAttemptsTrue, CombineAttemptsType
    <2>4. phase'[s] = "done" /\ first'[s] = first[s] /\ result'[s] = both
      BY <1>2, <1>7 DEF Attempted, r
    <2>5. attempt'[s] = 2
      BY <1>7
    <2> HIDE DEF both
    <2> QED
      BY <1>3, <2>1, <2>2, <2>3, <2>4, <2>5 DEF Found, Done
  <1> QED
    BY <1>5, <1>6, <1>7 DEF Attempted, r

LEMMA FoundInit == Init => Found
  <1> SUFFICES ASSUME Init, NEW s \in Servers
               PROVE  first[s] = NoResult /\ result[s] = NoResult /\ phase[s] = "queued" /\ attempt[s] = 0
    BY DEF Found, Done
  <1> QED
    BY DEF Init

LEMMA FoundNext == Inv /\ Found /\ [Next]_vars => Found'
  <1> SUFFICES ASSUME Inv, Found, [Next]_vars PROVE Found'
    OBVIOUS
  <1>0. /\ phase \in [Servers -> Phases] /\ attempt \in [Servers -> 0 .. 2]
        /\ first \in [Servers -> Result \cup {NoResult}]
    BY DEF Inv, TypeOK
  <1>1. ASSUME NEW s \in Servers, Start(s) PROVE Found'
    <2>1. /\ phase[s] = "queued" /\ phase'[s] = "collecting" /\ attempt'[s] = 1
          /\ \A t \in Servers \ {s} : phase'[t] = phase[t] /\ attempt'[t] = attempt[t]
          /\ UNCHANGED <<first, result>>
      BY <1>0, <1>1 DEF Start, Request
    <2>2. attempt[s] = 0
      BY <2>1 DEF Inv, Tasks
    <2> QED
      BY <2>1, <2>2 DEF Found, Done
  <1>2. ASSUME NEW s \in Servers, Wake(s) PROVE Found'
    <2>1. /\ phase[s] = "sleeping" /\ phase'[s] = "collecting" /\ attempt'[s] = 2
          /\ \A t \in Servers \ {s} : phase'[t] = phase[t] /\ attempt'[t] = attempt[t]
          /\ UNCHANGED <<first, result>>
      BY <1>0, <1>2 DEF Wake, Request
    <2> QED
      BY <2>1 DEF Found, Done
  <1>3. ASSUME NEW s \in Servers, Receive(s) PROVE Found'
    <2>1. /\ phase[s] = "collecting" /\ phase'[s] = "appraising"
          /\ \A t \in Servers \ {s} : phase'[t] = phase[t]
          /\ UNCHANGED <<attempt, first, result>>
      BY <1>0, <1>3 DEF Receive, Collected
    <2> QED
      BY <2>1 DEF Found, Done
  <1>4. ASSUME NEW s \in Servers, Reject(s) \/ Timeout(s) \/ Appraise(s) PROVE Found'
    <2>1. PICK findings \in SUBSET Finding : Attempted(s, findings)
      BY <1>4, FindingsType DEF Reject, Timeout, Appraise
    <2>2. phase[s] \in {"collecting", "appraising"} /\ attempt' = attempt
      BY <1>4 DEF Reject, Timeout, Appraise, Collected
    <2> QED
      BY <2>1, <2>2, AttemptedFound
  <1>5. CASE (\E s \in Servers, n \in Attempts : Answer(s, n)) \/ Fetch \/ Report \/ Crash \/ World
    <2>1. UNCHANGED task
      BY <1>5 DEF Answer, Fetch, Report, Crash, World, Push, Age, Deploy, Repair, Tamper, Change
    <2> QED
      BY <2>1 DEF task, Found, Done
  <1>6. CASE UNCHANGED vars
    BY <1>6 DEF vars, task, Found, Done
  <1> QED
    BY <1>1, <1>2, <1>3, <1>4, <1>5, <1>6 DEF Next, Task

LEMMA PublishedInit == Init => Published
  BY DEF Init, Published

\* Only Report makes a report, and nothing moves in the run after it.
LEMMA PublishedNext == Inv /\ Published /\ [Next]_vars => Published'
  <1> SUFFICES ASSUME Inv, Published, [Next]_vars PROVE Published'
    OBVIOUS
  <1>1. CASE Report
    BY <1>1 DEF Report, Published, AllDone, task
  <1>2. CASE (\E s \in Servers : Task(s)) \/ Fetch \/ World \/ Crash
    <2>1. run = "verifying" /\ run' \in {"verifying", "crashed"} /\ report' = report
      BY <1>2 DEF Task, Start, Wake, Receive, Reject, Timeout, Appraise, Collected, Fetch, Crash,
                  World, Push, Age, Deploy, Repair, Tamper, Change
    <2> QED
      BY <2>1 DEF Published
  <1>3. CASE (\E s \in Servers, n \in Attempts : Answer(s, n)) \/ UNCHANGED vars
    <2>1. UNCHANGED <<run, selected, phase, result, report>>
      BY <1>3 DEF Answer, vars, task
    <2> QED
      BY <2>1 DEF Published, AllDone
  <1> QED
    BY <1>1, <1>2, <1>3 DEF Next

LEMMA ReportInvariance == Spec => [](Inv /\ Found /\ Published)
  BY Invariance, FoundInit, FoundNext, PublishedInit, PublishedNext, PTL DEF Spec

\* What is published is what was found: a server's status is its findings'
\* and a second attempt's result names the first's findings
\* (combineAttempts); a passing report means every server passed at its first
\* attempt, seen clean, and the report fails exactly when a server does
\* (buildReport).
THEOREM ReportsAreTrue == Spec => []ReportIsTrue
  <1>1. Inv /\ Found => StatusMatchesFindings
    BY DEF Found, StatusMatchesFindings
  <1>2. Inv /\ Found /\ Published => ReportIsWorst
    <2> SUFFICES ASSUME Inv, Found, Published, run = "reported" PROVE ReportIsWorst
      BY DEF ReportIsWorst
    <2> DEFINE statuses == {result[s].status : s \in selected}
    <2>1. selected \in SUBSET Servers /\ \A s \in selected : Done(s)
      BY DEF Inv, TypeOK, Published, AllDone, Done
    <2>2. report.status = OverallStatus(statuses)
      BY DEF Published
    <2>3. \A s \in selected : result[s] \in Result /\ first[s] \in Result
      BY <2>1 DEF Found
    <2>4. statuses \in SUBSET Status
      BY <2>3 DEF Result
    <2>5. report.status = "pass" => \A s \in selected : result[s].status = "pass"
      <3>1. report.status = "pass" => statuses = {"pass"}
        BY <2>2, <2>4, OverallStatusWorst
      <3> QED
        BY <3>1
    <2>6. report.status = "fail" <=> \E s \in selected : result[s].status = "fail"
      BY <2>2, <2>4, OverallStatusWorst
    <2>7. ASSUME NEW s \in selected, result[s].status = "pass"
          PROVE  attempt[s] = 1 /\ wasClean[s] /\ ~neverClean[s] /\ first[s].status # "fail"
      <3>1. attempt[s] \in {1, 2} /\ Done(s) /\ s \in Servers
        BY <2>1 DEF Inv, TypeOK, Tasks, Done
      <3>2. attempt[s] = 1 /\ wasClean[s] /\ result[s] = first[s]
        BY <2>7, <3>1 DEF Inv, Verdicts
      <3>3. neverClean[s] = ~wasClean[s]
        BY <3>1, <3>2 DEF Inv, Verdicts, Done
      <3> QED
        BY <2>7, <3>2, <3>3
    <2> QED
      BY <2>5, <2>6, <2>7 DEF ReportIsWorst
  <1> QED
    BY <1>1, <1>2, ReportInvariance, PTL DEF ReportIsTrue
-----------------------------------------------------------------------------
(* The run implements the retried audit                                    *)

StatusesOf(results) == [s \in Servers |-> results[s].status]

\* The abstract specification's verdict arithmetic is the concrete one's.
LEMMA SameArithmetic ==
  /\ Abstract!Status = Status /\ Abstract!None = "none"
  /\ \A f : Abstract!Permitted(f) = Permitted(f)
  /\ \A statuses : Abstract!OverallStatus(statuses) = OverallStatus(statuses)
  BY DEF Abstract!Status, Status, Abstract!None, Abstract!Permitted, Permitted,
         Abstract!OverallStatus, OverallStatus

\* The statuses of any results: none only where there is no result.
LEMMA StatusesOfType ==
  ASSUME NEW results \in [Servers -> Result \cup {NoResult}]
  PROVE  /\ StatusesOf(results) \in Abstract!Statuses
         /\ \A s \in Servers : results[s] = NoResult <=> StatusesOf(results)[s] = "none"
  <1>1. \A r \in Result \cup {NoResult} : /\ r.status \in Status \cup {"none"}
                                          /\ r = NoResult <=> r.status = "none"
    BY DEF Result, NoResult, Status
  <1>2. \A s \in Servers : results[s] \in Result \cup {NoResult}
    OBVIOUS
  <1> QED
    BY <1>1, <1>2, SameArithmetic DEF StatusesOf, Abstract!Statuses

LEMMA AbstractInit == Init => Abstract!Init
  <1> SUFFICES ASSUME Init PROVE Abstract!Init
    OBVIOUS
  <1>1. first = [s \in Servers |-> NoResult] /\ result = [s \in Servers |-> NoResult]
    BY DEF Init
  <1>2. /\ [s \in Servers |-> first[s].status] = Abstract!Blank
        /\ [s \in Servers |-> result[s].status] = Abstract!Blank
    BY <1>1 DEF NoResult, Abstract!Blank, Abstract!None
  <1> QED
    BY <1>2 DEF Init, NoReport, Abstract!Init, Abstract!NoReport, Abstract!None

\* A step that keeps what is settled settles only what is permitted.
LEMMA AbstractSettles ==
  ASSUME Inv, Inv', Slots', Found', selected' = selected,
         \A s \in Servers : /\ first[s] # NoResult => first'[s] = first[s]
                            /\ result[s] # NoResult => result'[s] = result[s]
  PROVE  Abstract!Attempt /\ Abstract!Settle
  <1>1. /\ first \in [Servers -> Result \cup {NoResult}] /\ first' \in [Servers -> Result \cup {NoResult}]
        /\ result \in [Servers -> Result \cup {NoResult}] /\ result' \in [Servers -> Result \cup {NoResult}]
    BY DEF Inv, TypeOK
  <1>2. /\ StatusesOf(first') \in Abstract!Statuses /\ StatusesOf(result') \in Abstract!Statuses
        /\ \A s \in Servers : /\ first[s] = NoResult <=> StatusesOf(first)[s] = "none"
                              /\ first'[s] = NoResult <=> StatusesOf(first')[s] = "none"
                              /\ result[s] = NoResult <=> StatusesOf(result)[s] = "none"
                              /\ result'[s] = NoResult <=> StatusesOf(result')[s] = "none"
    BY <1>1, StatusesOfType
  <1>3. \A s \in Servers : /\ StatusesOf(first)[s] # "none" => StatusesOf(first')[s] = StatusesOf(first)[s]
                           /\ StatusesOf(result)[s] # "none" => StatusesOf(result')[s] = StatusesOf(result)[s]
    BY <1>2 DEF StatusesOf
  <1>4. \A s \in Servers \ selected : StatusesOf(first')[s] = "none"
    <2>1. \A s \in Servers \ selected : phase'[s] = "queued" /\ attempt'[s] = 0
      BY DEF Slots, Inv, Tasks
    <2> QED
      BY <1>2, <2>1 DEF Found, Done
  <1>5. \A s \in Servers : StatusesOf(result')[s] # "none" =>
            StatusesOf(first')[s] # "none" /\ StatusesOf(result')[s] \in Permitted(StatusesOf(first')[s])
    <2>1. \A s \in Servers : result'[s] # NoResult =>
              first'[s] \in Result /\ result'[s].status \in Permitted(first'[s].status)
      BY DEF Found
    <2>2. NoResult \notin Result
      BY DEF NoResult, Result, Status
    <2> QED
      BY <1>2, <2>1, <2>2 DEF StatusesOf
  <1>6. Abstract!Attempt
    BY <1>2, <1>3, <1>4, SameArithmetic DEF Abstract!Attempt, Abstract!Kept, StatusesOf
  <1>7. Abstract!Settle
    BY <1>2, <1>3, <1>5, SameArithmetic DEF Abstract!Settle, Abstract!Kept, StatusesOf
  <1> QED
    BY <1>6, <1>7

LEMMA AbstractNext ==
  Inv /\ Inv' /\ Slots /\ Slots' /\ Found /\ Found' /\ Published /\ [Next]_vars
      => [Abstract!Progress \/ Abstract!NewRun]_(Abstract!vars)
  <1> SUFFICES ASSUME Inv, Inv', Slots, Slots', Found, Found', Published, [Next]_vars
               PROVE  Abstract!Progress \/ UNCHANGED Abstract!vars
    OBVIOUS
  <1>0. \A s \in Servers : /\ result[s] # NoResult => Done(s)
                           /\ first[s] # NoResult => Done(s) \/ phase[s] = "sleeping" \/ attempt[s] = 2
    BY DEF Found
  <1>1. ASSUME NEW s \in Servers, Start(s) \/ Wake(s) \/ Receive(s)
        PROVE  UNCHANGED Abstract!vars
    <2>1. UNCHANGED <<selected, first, result, report>>
      BY <1>1 DEF Start, Wake, Receive, Collected
    <2> QED
      BY <2>1 DEF Abstract!vars
  <1>2. ASSUME NEW s \in Servers, Reject(s) \/ Timeout(s) \/ Appraise(s)
        PROVE  Abstract!Progress
    <2>0. PICK findings : Attempted(s, findings)
      BY <1>2 DEF Reject, Timeout, Appraise
    <2>1. /\ phase[s] \in {"collecting", "appraising"} /\ UNCHANGED <<selected, report>>
          /\ \A t \in Servers \ {s} : first'[t] = first[t] /\ result'[t] = result[t]
          /\ attempt[s] = 2 => first'[s] = first[s]
      <3>1. phase[s] \in {"collecting", "appraising"} /\ UNCHANGED <<selected, report>>
        BY <1>2 DEF Reject, Timeout, Appraise, Collected
      <3>2. first \in [Servers -> Result \cup {NoResult}] /\ result \in [Servers -> Result \cup {NoResult}]
        BY DEF Inv, TypeOK
      <3> QED
        BY <2>0, <3>1, <3>2 DEF Attempted
    <2>2. result[s] = NoResult /\ (first[s] # NoResult => attempt[s] = 2)
      BY <1>0, <2>1 DEF Done
    <2>3. Abstract!Attempt /\ Abstract!Settle
      BY <2>1, <2>2, AbstractSettles
    <2> QED
      BY <2>1, <2>3 DEF Abstract!Progress, Abstract!Publish
  <1>3. CASE (\E s \in Servers, n \in Attempts : Answer(s, n)) \/ Fetch \/ Crash \/ World
    <2>1. UNCHANGED <<selected, first, result, report>>
      BY <1>3 DEF Answer, Fetch, Crash, World, Push, Age, Deploy, Repair, Tamper, Change, task
    <2> QED
      BY <2>1 DEF Abstract!vars
  <1>4. CASE Report
    <2>1. /\ run # "reported" /\ AllDone /\ UNCHANGED <<selected, first, result>>
          /\ report' = [status |-> OverallStatus({result[s].status : s \in selected}), servers |-> selected]
      BY <1>4 DEF Report, task
    <2>2. report = Abstract!NoReport
      BY <2>1 DEF Published, NoReport, Abstract!NoReport, Abstract!None
    <2>3. Abstract!Attempt /\ Abstract!Settle
      BY <2>1, AbstractSettles
    <2>4. /\ selected \in SUBSET Servers
          /\ \A s \in selected : StatusesOf(result')[s] # "none"
      <3>1. \A s \in Servers : result[s] = NoResult <=> StatusesOf(result)[s] = "none"
        BY StatusesOfType DEF Inv, TypeOK
      <3>2. selected \in SUBSET Servers /\ NoResult \notin Result
        BY DEF Inv, TypeOK, NoResult, Result, Status
      <3>3. \A s \in selected : result[s] \in Result
        BY <2>1, <3>2 DEF AllDone, Found, Done
      <3> QED
        BY <2>1, <3>1, <3>2, <3>3
    <2>5. report' = Abstract!Complete'
      <3>1. {result[s].status : s \in selected} = {StatusesOf(result)[s] : s \in selected}
        BY <2>4 DEF StatusesOf
      <3> QED
        BY <2>1, <3>1, SameArithmetic DEF Abstract!Complete, StatusesOf
    <2> QED
      BY <2>1, <2>2, <2>3, <2>4, <2>5, SameArithmetic DEF Abstract!Progress, Abstract!Publish, StatusesOf
  <1>5. CASE UNCHANGED vars
    BY <1>5 DEF vars, task, Abstract!vars
  <1> QED
    BY <1>1, <1>2, <1>3, <1>4, <1>5 DEF Next, Task

\* lib/verify.js implements the retried audit: every status it settles on is
\* one that the first attempt permits, none changes once given, and the only
\* report is the worst of all the servers asked for.
THEOREM RunIsRetriedAudit == Spec => ImplementsRetriedAudit
  <1>1. Spec => []Slots
    BY Invariance, SlotsInit, SlotsNext, PTL DEF Spec
  <1> QED
    BY <1>1, ReportInvariance, AbstractInit, AbstractNext, PTL DEF Spec, ImplementsRetriedAudit, Abstract!Spec
-----------------------------------------------------------------------------
(* Versions                                                                *)

LEMMA MirroredInit == Init => Mirrored
  BY DEF Init, Mirrored

\* The branch only grows, and is fetched once.
LEMMA MirroredNext == Inv /\ Mirrored /\ [Next]_vars => Mirrored'
  <1> SUFFICES ASSUME Inv, Mirrored, [Next]_vars PROVE Mirrored'
    OBVIOUS
  <1>1. CASE Fetch
    <2>1. tip \in 1 .. tip
      BY DEF Inv, TypeOK, Commits
    <2> QED
      BY <1>1, <2>1 DEF Fetch, NeedsFetch, Mirrored, world
  <1>2. CASE Push
    <2>1. 1 .. tip \subseteq 1 .. tip'
      BY <1>2 DEF Push, Inv, TypeOK, Commits
    <2> QED
      BY <1>2, <2>1 DEF Push, references, Mirrored
  <1>3. CASE (\E s \in Servers : Task(s)) \/ (\E s \in Servers, n \in Attempts : Answer(s, n))
             \/ Report \/ Crash \/ UNCHANGED vars
    <2>1. UNCHANGED <<tip, fetched, mirror>>
      BY <1>3 DEF Task, Start, Wake, Receive, Reject, Timeout, Appraise, Collected, Answer, Report, Crash,
                  vars, world, references
    <2> QED
      BY <2>1 DEF Mirrored
  <1>4. CASE Age \/ \E s \in Servers : Deploy(s) \/ Repair(s) \/ Tamper(s)
    <2>1. UNCHANGED <<tip, fetched, mirror>>
      BY <1>4 DEF Age, Deploy, Repair, Tamper, Change, references
    <2> QED
      BY <2>1 DEF Mirrored
  <1> QED
    BY <1>1, <1>2, <1>3, <1>4 DEF Next, World

\* What the appraisal lets through is at the expected version.
LEMMA AppraisedVersion ==
  ASSUME NEW e, NEW other, StatusOf(AppraiseServer(e, other)) \in {"pass", "warn"}
  PROVE  /\ fetched # "failed"
         /\ Version = "latest" /\ VersionMismatch = "fail" /\ ~GraceOn => e.state.commit = mirror
  <1>0. \A f \in AppraiseServer(e, other) : f.severity \notin NotClean
    BY NotCleanStatus DEF NotClean
  <1>1. fetched # "failed"
    <2> SUFFICES ASSUME fetched = "failed" PROVE FALSE
      OBVIOUS
    <2>1. F("error", "source") \in AppraiseServer(e, other)
      BY DEF AppraiseServer
    <2> QED
      BY <1>0, <2>1 DEF F, NotClean
  <1>2. ASSUME Version = "latest", VersionMismatch = "fail", ~GraceOn, e.state.commit # mirror
        PROVE  FALSE
    <2>1. VersionFindings(e) = {F("fail", "source")}
      BY <1>2 DEF VersionFindings
    <2>2. F("fail", "source") \in AppraiseServer(e, other)
      BY <1>1, <2>1 DEF AppraiseServer
    <2> QED
      BY <1>0, <2>2 DEF F, NotClean
  <1> QED
    BY <1>1, <1>2

\* An attempt that ends without failing was let through by the version check.
LEMMA AttemptedVersioned ==
  ASSUME Inv, Versioned, NEW s \in Servers, NEW findings \in SUBSET Finding,
         Attempted(s, findings), UNCHANGED <<entry, attempt, fetched, mirror>>,
         StatusOf(findings) \in {"pass", "warn"} =>
             /\ fetched = "fetched"
             /\ Version = "latest" /\ VersionMismatch = "fail" /\ ~GraceOn
                   => entry[s].state.commit = mirror
  PROVE  Versioned'
  <1> DEFINE r == ResultOf(findings)
  <1>1. r \in Result /\ r.status = StatusOf(findings)
    BY ResultOfType DEF ResultOf
  <1>2. /\ phase \in [Servers -> Phases]
        /\ result \in [Servers -> Result \cup {NoResult}]
    BY DEF Inv, TypeOK
  <1>3. \A t \in Servers \ {s} : phase'[t] = phase[t] /\ result'[t] = result[t]
    BY <1>2 DEF Attempted
  <1>4. Done(s)' /\ result'[s].status \in {"pass", "warn"} => r.status \in {"pass", "warn"}
    <2>1. CASE attempt[s] = 2
      <3>1. first[s] \in Result /\ result'[s] = CombineAttempts(first[s], r)
        BY <1>2, <2>1 DEF Inv, Tasks, Attempted
      <3> HIDE DEF r
      <3> QED
        BY <1>1, <3>1, CombineAttemptsStatus
    <2>2. CASE attempt[s] = 1
      BY <1>2, <2>2 DEF Attempted, Done
    <2> QED
      BY <2>1, <2>2 DEF Attempted
  <1> HIDE DEF r
  <1> QED
    BY <1>1, <1>3, <1>4 DEF Versioned, Done

LEMMA VersionedInit == Init => Versioned
  BY DEF Init, Versioned, Done

LEMMA VersionedNext == Inv /\ Versioned /\ [Next]_vars => Versioned'
  <1> SUFFICES ASSUME Inv, Versioned, [Next]_vars PROVE Versioned'
    OBVIOUS
  <1>0. /\ phase \in [Servers -> Phases] /\ entry \in [Servers -> Entries]
    BY DEF Inv, TypeOK
  <1>1. ASSUME NEW s \in Servers, Start(s) \/ Wake(s) \/ Receive(s) PROVE Versioned'
    <2>1. /\ phase'[s] # "done" /\ UNCHANGED <<result, fetched, mirror>>
          /\ \A t \in Servers \ {s} : phase'[t] = phase[t] /\ entry'[t] = entry[t]
      BY <1>0, <1>1 DEF Start, Wake, Request, Receive, Collected, references
    <2> QED
      BY <2>1 DEF Versioned, Done
  <1>2. ASSUME NEW s \in Servers, Reject(s) \/ Timeout(s) PROVE Versioned'
    <2>1. PICK findings \in {{F("fail", "evidence")}, {F("error", "transport")}} : Attempted(s, findings)
      BY <1>2 DEF Reject, Timeout
    <2>2. \E f \in findings : f.severity \in NotClean
      <3>1. F("fail", "evidence").severity \in NotClean /\ F("error", "transport").severity \in NotClean
        BY DEF F, NotClean
      <3>2. findings = {F("fail", "evidence")} \/ findings = {F("error", "transport")}
        BY <2>1
      <3> QED
        BY <3>1, <3>2
    <2>3. StatusOf(findings) \notin {"pass", "warn"}
      BY <2>2, NotCleanStatus DEF NotClean
    <2>4. UNCHANGED <<entry, attempt, fetched, mirror>>
      BY <1>2 DEF Reject, Timeout, Collected, references
    <2>5. findings \in SUBSET Finding
      BY FindingsType
    <2> QED
      BY <2>1, <2>3, <2>4, <2>5, AttemptedVersioned
  <1>3. ASSUME NEW s \in Servers, Appraise(s) PROVE Versioned'
    <2>1. PICK other \in OtherFindings : Attempted(s, AppraiseServer(entry[s], other))
      BY <1>3 DEF Appraise
    <2>2. fetched \in {"fetched", "failed"} /\ UNCHANGED <<entry, attempt, fetched, mirror>>
      BY <1>3 DEF Appraise, references, Inv, TypeOK, FetchStates
    <2>3. AppraiseServer(entry[s], other) \in SUBSET Finding
      BY FindingsType
    <2> QED
      BY <2>1, <2>2, <2>3, AppraisedVersion, AttemptedVersioned
  <1>4. CASE Fetch
    BY <1>4 DEF Fetch, NeedsFetch, Versioned, Done, task
  <1>5. CASE (\E s \in Servers, n \in Attempts : Answer(s, n)) \/ Report \/ Crash \/ World \/ UNCHANGED vars
    <2>1. UNCHANGED <<task, fetched, mirror>>
      BY <1>5 DEF Answer, Report, Crash, World, Push, Age, Deploy, Repair, Tamper, Change, vars, references
    <2> QED
      BY <2>1 DEF task, Versioned, Done
  <1> QED
    BY <1>1, <1>2, <1>3, <1>4, <1>5 DEF Next, Task

LEMMA VersionInvariance == Spec => [](Inv /\ Mirrored /\ Versioned)
  BY Invariance, MirroredInit, MirroredNext, VersionedInit, VersionedNext, PTL DEF Spec

\* With version `latest', mismatches failing and no grace, the servers of a
\* run that do not fail run the same commit, though the branch moves while
\* they are collected one after the other: the references are fetched once.
THEOREM OneVersion == Spec => []SameVersion
  <1>1. Versioned => SameVersion
    BY DEF Versioned, SameVersion
  <1> QED
    BY <1>1, VersionInvariance, PTL
-----------------------------------------------------------------------------
(* False alarms                                                            *)

LEMMA UntouchedInit == Init => Untouched /\ Unalarmed
  <1> SUFFICES ASSUME Init PROVE Untouched /\ Unalarmed
    OBVIOUS
  <1>1. \A s \in Servers : calm[s] => deployed[s] = Original
    <2>1. /\ deployed \in [Servers -> {[commit |-> 1, intact |-> TRUE], [commit |-> 1, intact |-> FALSE]}]
          /\ calm = [s \in Servers |-> Clean(deployed[s], tip)]
      BY DEF Init
    <2>2. ASSUME NEW s \in Servers, calm[s] PROVE deployed[s] = Original
      <3>0. calm[s] = Clean(deployed[s], tip)
        BY <2>1
      <3>1. deployed[s].intact
        BY <2>2, <3>0 DEF Clean
      <3>2. deployed[s] \in {[commit |-> 1, intact |-> TRUE], [commit |-> 1, intact |-> FALSE]}
        BY <2>1
      <3>3. deployed[s] # [commit |-> 1, intact |-> FALSE]
        BY <3>1
      <3> QED
        BY <3>2, <3>3 DEF Original
    <2> QED
      BY <2>2
  <1>2. \A a \in answers : a.state = Original
    <2>1. answers = {Stale(s) : s \in Servers}
      BY DEF Init
    <2>2. \A s \in Servers : Stale(s).state = Original
      BY DEF Stale, Original
    <2> QED
      BY <2>1, <2>2
  <1>3. \A s \in Servers : phase[s] = "queued" /\ entry[s].aged = 0 /\ aged = 0
    BY DEF Init, NoEntry
  <1>4. \A s \in Servers : first[s].status = "none" /\ result[s].status = "none"
    BY DEF Init, NoResult
  <1>5. Untouched
    BY <1>1, <1>2, <1>3 DEF Untouched
  <1>6. Unalarmed
    BY <1>4 DEF Unalarmed
  <1> QED
    BY <1>5, <1>6

\* A server changes, its answers are given and its entry is taken only as
\* Untouched says.
LEMMA UntouchedNext == Inv /\ Untouched /\ [Next]_vars => Untouched'
  <1> SUFFICES ASSUME Inv, Untouched, [Next]_vars PROVE Untouched'
    OBVIOUS
  <1>0. /\ phase \in [Servers -> Phases] /\ entry \in [Servers -> Entries]
        /\ deployed \in [Servers -> Deployed] /\ calm \in [Servers -> BOOLEAN]
        /\ aged \in Nat
    BY DEF Inv, TypeOK
  <1>1. ASSUME NEW s \in Servers, Start(s) \/ Wake(s) PROVE Untouched'
    <2>1. /\ phase'[s] = "collecting" /\ UNCHANGED <<aged, deployed, answers, entry, calm>>
          /\ \A t \in Servers \ {s} : phase'[t] = phase[t]
      BY <1>0, <1>1 DEF Start, Wake, Request, world
    <2> QED
      BY <2>1 DEF Untouched
  <1>2. ASSUME NEW s \in Servers, Receive(s) PROVE Untouched'
    <2>1. PICK a \in answers : /\ a.nonce = <<s, attempt[s]>>
                               /\ entry' = [entry EXCEPT ![s] = [state |-> a.state, aged |-> aged]]
      BY <1>2 DEF Receive, Fresh
    <2>2. /\ UNCHANGED <<aged, deployed, answers, calm>>
          /\ \A t \in Servers \ {s} : phase'[t] = phase[t] /\ entry'[t] = entry[t]
      BY <1>0, <1>2, <2>1 DEF Receive, Collected, world, network
    <2>3. entry'[s].aged = aged /\ entry'[s].state = a.state
      BY <1>0, <2>1
    <2>4. calm[s] => a.state = Original
      BY <2>1 DEF Untouched
    <2> QED
      BY <1>0, <2>2, <2>3, <2>4 DEF Untouched
  <1>3. ASSUME NEW s \in Servers, Reject(s) \/ Timeout(s) \/ Appraise(s) PROVE Untouched'
    <2>1. /\ \A t \in Servers : calm'[t] => calm[t]
          /\ UNCHANGED <<aged, deployed, answers, entry>>
      BY <1>0, <1>3 DEF Reject, Timeout, Appraise, Collected, world, network, history
    <2>2. PICK findings : Attempted(s, findings)
      BY <1>3 DEF Reject, Timeout, Appraise
    <2>3. phase'[s] # "appraising" /\ \A t \in Servers \ {s} : phase'[t] = phase[t]
      BY <1>0, <2>2 DEF Attempted
    <2> QED
      BY <2>1, <2>3 DEF Untouched
  <1>4. ASSUME NEW s \in Servers, NEW n \in Attempts, Answer(s, n) PROVE Untouched'
    <2>1. /\ answers' = answers \cup {[nonce |-> <<s, n>>, state |-> deployed[s]]}
          /\ UNCHANGED <<aged, deployed, phase, entry, calm>>
      BY <1>4 DEF Answer, world, task, history
    <2>2. \A a \in answers', t \in Servers : calm[t] /\ a.nonce[1] = t => a.state = Original
      BY <2>1 DEF Untouched
    <2> QED
      BY <2>1, <2>2 DEF Untouched
  <1>5. CASE Fetch \/ Report \/ Crash \/ Push \/ UNCHANGED vars
    <2>1. UNCHANGED <<aged, deployed, answers, phase, entry, calm>>
      BY <1>5 DEF Fetch, Report, Crash, Push, vars, world, network, task, history
    <2> QED
      BY <2>1 DEF Untouched
  <1>6. CASE Age
    <2>1. aged' = aged + 1 /\ UNCHANGED <<deployed, answers, phase, entry, calm>>
      BY <1>6 DEF Age, network, task, history
    <2>2. \A s \in Servers : entry[s].aged \in Nat
      BY <1>0 DEF Entries
    <2>3. \A s \in Servers : entry[s].aged <= aged + 1
      BY <1>0, <2>2 DEF Untouched
    <2> QED
      BY <2>1, <2>3 DEF Untouched
  <1>7. ASSUME NEW s \in Servers, Deploy(s) \/ Repair(s) \/ Tamper(s) PROVE Untouched'
    <2>1. PICK state : Change(s, state)
      BY <1>7 DEF Deploy, Repair, Tamper
    <2>2. /\ calm'[s] = FALSE /\ \A t \in Servers \ {s} : calm'[t] = calm[t] /\ deployed'[t] = deployed[t]
          /\ UNCHANGED <<aged, answers, phase, entry>>
      BY <1>0, <2>1 DEF Change, network, task
    <2> QED
      BY <2>2 DEF Untouched
  <1> QED
    BY <1>1, <1>2, <1>3, <1>4, <1>5, <1>6, <1>7 DEF Next, Task, World
\* The original state raises no alarm, where its version is excused.
LEMMA AppraisedOriginal ==
  ASSUME Inv, Mirrored, "fail" \notin OtherSeverities, fetched # "unfetched",
         NEW e \in Entries, e.state = Original, e.aged <= aged,
         NEW other \in OtherFindings, StatusOf(AppraiseServer(e, other)) = "fail"
  PROVE  ~Excused
  <1>1. PICK f \in AppraiseServer(e, other) : f.severity = "fail"
    <2>1. AppraiseServer(e, other) \in SUBSET Finding
      BY FindingsType
    <2> QED
      BY <2>1, StatusOfFails
  <1>2. f \notin other /\ F("error", "source") # f
    <2>1. \A severity, check : F(severity, check).severity = severity
      BY DEF F
    <2>2. other = {} \/ \E severity \in OtherSeverities : other = {F(severity, "other")}
      BY DEF OtherFindings
    <2> QED
      BY <1>1, <2>1, <2>2
  <1>3. fetched = "fetched" /\ f \in VersionFindings(e) \cup TreeFindings(e)
    BY <1>2 DEF AppraiseServer, Inv, TypeOK, FetchStates
  <1>4. tip \in Nat /\ mirror \in 1 .. tip /\ e.aged \in Nat /\ aged \in Nat
    BY <1>3 DEF Mirrored, Inv, TypeOK, Commits, Entries
  <1>5. e.state.commit = 1 /\ e.state.intact /\ 1 \in 1 .. mirror
    <2>1. 1 \in 1 .. mirror
      BY <1>4
    <2>2. Original.commit = 1 /\ Original.intact
      BY DEF Original
    <2> QED
      BY <2>1, <2>2
  <1>6. f \in VersionFindings(e)
    BY <1>3, <1>5 DEF TreeFindings
  <1>7. /\ Version # "any" /\ mirror # 1
        /\ f = F(IF GraceOn /\ mirror > e.aged THEN "warn" ELSE VersionMismatch, "source")
    BY <1>5, <1>6 DEF VersionFindings
  <1>8. VersionMismatch # "warn" /\ ~(GraceOn /\ mirror > e.aged)
    BY <1>1, <1>7 DEF F
  <1>9. ~(GraceOn /\ aged < mirror) /\ tip # 1
    <2>1. aged < mirror => mirror > e.aged
      BY <1>4
    <2>2. tip # 1
      BY <1>4, <1>7
    <2> QED
      BY <1>8, <2>1, <2>2
  <1> QED
    BY <1>7, <1>8, <1>9 DEF Excused

\* Where the version is not excused, it stays so: the branch and the ages
\* grow, and what is fetched stays.
LEMMA ExcusedNoMore ==
  Inv /\ Mirrored /\ [Next]_vars /\ fetched # "unfetched" => fetched' # "unfetched" /\ (~Excused => ~Excused')
  <1> SUFFICES ASSUME Inv, Mirrored, [Next]_vars, fetched # "unfetched"
               PROVE  fetched' # "unfetched" /\ (~Excused => ~Excused')
    OBVIOUS
  <1>1. tip \in Nat \ {0} /\ aged \in Nat /\ mirror \in Nat
    <2>1. tip \in 1 .. MaxCommit /\ aged \in 0 .. MaxCommit /\ mirror \in 0 .. MaxCommit
      BY DEF Inv, TypeOK, Commits
    <2> QED
      BY <2>1, BoundAssumption
  <1>2. /\ UNCHANGED <<fetched, mirror>>
        /\ tip' = tip \/ tip' = tip + 1
        /\ aged' = aged \/ aged' = aged + 1
    BY DEF Next, Task, Start, Wake, Receive, Reject, Timeout, Appraise, Collected, Answer, Fetch, NeedsFetch,
           Report, Crash, World, Push, Age, Deploy, Repair, Tamper, Change, vars, world, references
  <1>3. (tip' = 1 => tip = 1) /\ (aged' < mirror' => aged < mirror)
    BY <1>1, <1>2
  <1> QED
    BY <1>2, <1>3 DEF Excused

\* Only a failing attempt makes a server's status fail.
LEMMA AttemptedFails ==
  ASSUME Inv, NEW s \in Servers, NEW findings \in SUBSET Finding, Attempted(s, findings)
  PROVE  /\ first'[s].status = "fail" \/ result'[s].status = "fail"
                => StatusOf(findings) = "fail" \/ first[s].status = "fail" \/ result[s].status = "fail"
         /\ \A t \in Servers \ {s} : first'[t] = first[t] /\ result'[t] = result[t]
  <1> DEFINE r == ResultOf(findings)
  <1>1. r \in Result /\ r.status = StatusOf(findings)
    BY ResultOfType DEF ResultOf
  <1>2. /\ first \in [Servers -> Result \cup {NoResult}]
        /\ result \in [Servers -> Result \cup {NoResult}]
    BY DEF Inv, TypeOK
  <1>3. \A t \in Servers \ {s} : first'[t] = first[t] /\ result'[t] = result[t]
    BY <1>2 DEF Attempted
  <1>4. CASE attempt[s] = 1
    <2>1. first'[s] = r /\ result'[s] \in {result[s], r}
      BY <1>2, <1>4 DEF Attempted
    <2> HIDE DEF r
    <2> QED
      BY <1>1, <1>3, <2>1
  <1>5. CASE attempt[s] = 2
    <2>1. first'[s] = first[s] /\ result'[s] = CombineAttempts(first[s], r)
      BY <1>2, <1>5 DEF Attempted
    <2> HIDE DEF r
    <2>2. CombineAttempts(first[s], r).status = OverallStatus({r.status, RetrySeverity(first[s], r)})
      BY DEF CombineAttempts
    <2>3. result'[s].status = "fail" => r.status = "fail" \/ first[s].status = "fail"
      BY <2>1, <2>2 DEF OverallStatus, RetrySeverity, Blocked
    <2> QED
      BY <1>1, <1>3, <2>1, <2>3
  <1> QED
    BY <1>4, <1>5 DEF Attempted

LEMMA UnalarmedNext ==
  ASSUME "fail" \notin OtherSeverities
  PROVE  Inv /\ Mirrored /\ Untouched /\ Unalarmed /\ [Next]_vars => Unalarmed'
  <1> SUFFICES ASSUME Inv, Mirrored, Untouched, Unalarmed, [Next]_vars,
                      NEW t \in Servers, calm'[t], "fail" \in {first'[t].status, result'[t].status}
               PROVE  fetched' # "unfetched" /\ ~Excused'
    BY DEF Unalarmed
  <1>0. calm \in [Servers -> BOOLEAN]
    BY DEF Inv, TypeOK
  <1> DEFINE Failed == first[t].status = "fail" \/ result[t].status = "fail"
  <1>1. CASE calm[t] /\ Failed
    <2>1. fetched # "unfetched" /\ ~Excused
      BY <1>1 DEF Unalarmed
    <2> QED
      BY <2>1, ExcusedNoMore
  <1>2. ASSUME NEW s \in Servers, Start(s) \/ Wake(s) \/ Receive(s) PROVE calm[t] /\ Failed
    BY <1>2 DEF Start, Wake, Receive
  <1>3. ASSUME NEW s \in Servers, Reject(s) PROVE calm[t] /\ Failed
    <2>1. ~calm'[s] /\ (t # s => calm'[t] = calm[t])
      BY <1>0, <1>3 DEF Reject, Fresh
    <2>2. Attempted(s, {F("fail", "evidence")}) /\ {F("fail", "evidence")} \in SUBSET Finding
      BY <1>3, FindingsType DEF Reject
    <2>3. t \in Servers \ {s} /\ calm[t]
      BY <2>1
    <2>4. first'[t] = first[t] /\ result'[t] = result[t]
      BY <2>2, <2>3, AttemptedFails
    <2> QED
      BY <2>3, <2>4
  <1>4. ASSUME NEW s \in Servers, Timeout(s) PROVE calm[t] /\ Failed
    <2>1. calm' = calm /\ Attempted(s, {F("error", "transport")})
      BY <1>4 DEF Timeout
    <2>2. {F("error", "transport")} \in SUBSET Finding
      BY FindingsType
    <2>3. StatusOf({F("error", "transport")}) # "fail"
      <3>1. F("error", "transport").severity # "fail"
        BY DEF F
      <3> QED
        BY <2>2, <3>1, StatusOfFails
    <2> QED
      BY <2>1, <2>2, <2>3, AttemptedFails
  <1>5. ASSUME NEW s \in Servers, Appraise(s)
        PROVE  (calm[t] /\ Failed) \/ (fetched' # "unfetched" /\ ~Excused')
    <2>1. PICK other \in OtherFindings : Attempted(s, AppraiseServer(entry[s], other))
      BY <1>5 DEF Appraise
    <2>2. /\ phase[s] = "appraising" /\ fetched # "unfetched"
          /\ UNCHANGED <<tip, aged, fetched, mirror, calm>>
      BY <1>5 DEF Appraise, world, references, history
    <2>3. calm[t] /\ (Excused' <=> Excused)
      BY <2>2 DEF Excused
    <2>4. AppraiseServer(entry[s], other) \in SUBSET Finding
      BY FindingsType
    <2>5. Failed \/ (t = s /\ StatusOf(AppraiseServer(entry[s], other)) = "fail")
      BY <2>1, <2>4, AttemptedFails
    <2>6. ASSUME t = s, StatusOf(AppraiseServer(entry[s], other)) = "fail" PROVE ~Excused
      <3>1. entry[s] \in Entries /\ entry[s].state = Original /\ entry[s].aged <= aged
        BY <2>2, <2>3, <2>6 DEF Untouched, Inv, TypeOK
      <3> QED
        BY <2>2, <2>6, <3>1, AppraisedOriginal
    <2> QED
      BY <2>2, <2>3, <2>5, <2>6
  <1>6. CASE \/ \E s \in Servers, n \in Attempts : Answer(s, n)
             \/ Fetch \/ Report \/ Crash \/ Push \/ Age \/ UNCHANGED vars
    <2>1. UNCHANGED <<first, result, calm>>
      BY <1>6 DEF Answer, Fetch, Report, Crash, Push, Age, vars, task, history
    <2> QED
      BY <1>1, <2>1
  <1>7. ASSUME NEW s \in Servers, Deploy(s) \/ Repair(s) \/ Tamper(s) PROVE calm[t] /\ Failed
    <2>1. PICK state : Change(s, state)
      BY <1>7 DEF Deploy, Repair, Tamper
    <2>2. UNCHANGED <<first, result>> /\ calm' = [calm EXCEPT ![s] = FALSE]
      BY <2>1 DEF Change, task
    <2> QED
      BY <1>0, <2>2
  <1> QED
    BY <1>1, <1>2, <1>3, <1>4, <1>5, <1>6, <1>7 DEF Next, Task, World

\* A server that nothing happened to (no deploy, no change, no late or
\* foreign answer) is not reported failing, whatever is pushed and whatever
\* times out, when any commit will do, and else while its commit is the
\* latest or the latest is within its grace.  The hypothesis: the checks
\* that are not modelled do not fail it.
THEOREM NoAlarmIsFalse ==
  ASSUME "fail" \notin OtherSeverities
  PROVE  Spec => []NoFalseAlarm
  <1>1. Inv /\ Unalarmed => NoFalseAlarm
    BY DEF Unalarmed, Excused, NoFalseAlarm
  <1>2. Spec => [](Inv /\ Mirrored /\ Untouched /\ Unalarmed)
    BY Invariance, MirroredInit, MirroredNext, UntouchedInit, UntouchedNext, UnalarmedNext, PTL DEF Spec
  <1> QED
    BY <1>1, <1>2, PTL

-----------------------------------------------------------------------------
(* Progress                                                                *)

\* How far a task is: two attempts of two steps with a wait between them.
Place(s) ==
    IF phase[s] = "queued" THEN 0
    ELSE IF phase[s] = "done" THEN 6
    ELSE IF phase[s] = "sleeping" THEN 3
    ELSE (IF attempt[s] = 1 THEN 0 ELSE 3) + (IF phase[s] = "collecting" THEN 1 ELSE 2)

\* What a task may do next, whatever the servers and the transport do: a
\* collection can end, an appraisal has its fetch or can make it.
Ready(s) ==
    \/ phase[s] = "queued" /\ Cardinality(Active) < Concurrency
    \/ phase[s] \in {"collecting", "appraising", "sleeping"}

LEMMA AttemptedAdvances ==
  ASSUME TypeOK, Tasks, NEW s \in Servers, phase[s] \in {"collecting", "appraising"}, attempt' = attempt,
         NEW findings, Attempted(s, findings)
  PROVE  Place(s)' > Place(s) /\ \A t \in Servers \ {s} : Place(t)' = Place(t)
  <1>1. /\ phase'[s] \in {"sleeping", "done"} /\ (phase'[s] = "sleeping" => attempt[s] = 1)
        /\ \A t \in Servers \ {s} : phase'[t] = phase[t]
    BY DEF Attempted, TypeOK
  <1> QED
    BY <1>1 DEF Place

LEMMA RequestAdvances ==
  ASSUME TypeOK, Tasks, NEW s \in Servers, NEW n \in Attempts, Request(s, n),
         n = IF phase[s] = "queued" THEN 1 ELSE 2, phase[s] \in {"queued", "sleeping"}
  PROVE  Place(s)' > Place(s) /\ \A t \in Servers \ {s} : Place(t)' = Place(t)
  <1>1. /\ phase'[s] = "collecting" /\ attempt'[s] = n
        /\ \A t \in Servers \ {s} : phase'[t] = phase[t] /\ attempt'[t] = attempt[t]
    BY DEF Request, TypeOK
  <1> QED
    BY <1>1 DEF Place

\* No step takes a task back, and each step of its own takes it further: a
\* task takes at most six, whatever is answered, pushed or deployed meanwhile.
THEOREM TasksAdvance ==
  Spec => [][\A s \in Servers : Place(s)' >= Place(s) /\ (Task(s) => Place(s)' > Place(s))]_vars
  <1> DEFINE advances == \A s \in Servers : Place(s)' >= Place(s) /\ (Task(s) => Place(s)' > Place(s))
  <1>1. Inv /\ Next => advances
    <2> SUFFICES ASSUME Inv, Next PROVE advances
      OBVIOUS
    <2>1. TypeOK /\ Tasks
      BY DEF Inv
    <2>2. \A s \in Servers : Place(s) \in Nat
      BY DEF Place
    <2>3. ASSUME NEW s \in Servers, Task(s)
          PROVE  Place(s)' > Place(s) /\ \A t \in Servers \ {s} : Place(t)' = Place(t)
      <3>1. CASE Start(s)
        BY <2>1, <3>1, RequestAdvances DEF Start, Attempts
      <3>2. CASE Wake(s)
        BY <2>1, <3>2, RequestAdvances DEF Wake, Attempts
      <3>3. CASE Receive(s)
        <4>1. phase[s] = "collecting" /\ phase' = [phase EXCEPT ![s] = "appraising"] /\ attempt' = attempt
          BY <3>3 DEF Receive, Collected
        <4>2. phase'[s] = "appraising" /\ \A t \in Servers \ {s} : phase'[t] = phase[t]
          BY <2>1, <4>1 DEF TypeOK
        <4> QED
          BY <4>1, <4>2 DEF Place
      <3>4. CASE Reject(s) \/ Timeout(s)
        BY <2>1, <3>4, AttemptedAdvances DEF Reject, Timeout, Collected
      <3>5. CASE Appraise(s)
        <4>1. PICK other \in OtherFindings : Attempted(s, AppraiseServer(entry[s], other))
          BY <3>5 DEF Appraise
        <4>2. phase[s] = "appraising" /\ attempt' = attempt
          BY <3>5 DEF Appraise
        <4> QED
          BY <2>1, <4>1, <4>2, AttemptedAdvances
      <3> QED
        BY <2>3, <3>1, <3>2, <3>3, <3>4, <3>5 DEF Task
    <2>4. ASSUME NEW s \in Servers, Task(s)
          PROVE  advances
      <3>1. Place(s)' > Place(s) /\ \A t \in Servers \ {s} : Place(t)' = Place(t)
        BY <2>3, <2>4
      <3>2. ASSUME NEW t \in Servers
            PROVE  Place(t)' >= Place(t) /\ (Task(t) => Place(t)' > Place(t))
        <4>1. Task(t) => Place(t)' > Place(t)
          BY <2>3
        <4>2. CASE t = s
          <5>1. Place(s)' \in Nat /\ Place(s) \in Nat
            BY <2>2 DEF Place
          <5> QED
            BY <3>1, <4>1, <4>2, <5>1
        <4>3. CASE t # s
          <5>1. Place(t)' = Place(t) /\ Place(t) \in Nat
            BY <2>2, <3>1, <4>3
          <5> QED
            BY <4>1, <5>1
        <4> QED
          BY <4>2, <4>3
      <3> QED
        BY <3>2
    <2>5. ASSUME (\E s \in Servers, n \in Attempts : Answer(s, n)) \/ Fetch \/ Report \/ Crash \/ World
          PROVE  \A s \in Servers : Place(s)' = Place(s)
      <3>1. UNCHANGED <<phase, attempt>>
        BY <2>5 DEF Answer, Fetch, Report, Crash, World, Push, Age, Deploy, Repair, Tamper, Change, task
      <3> QED
        BY <3>1 DEF Place
    <2>6. CASE (\E s \in Servers, n \in Attempts : Answer(s, n)) \/ Fetch \/ Report \/ Crash \/ World
      BY <2>2, <2>3, <2>5, <2>6
    <2> QED
      BY <2>4, <2>6 DEF Next
  <1> QED
    BY <1>1, Invariance, PTL DEF Spec

\* While servers are left, one of them has something to do: the slots of those
\* that are done are free again, and waiting is for nothing but a timer.
THEOREM SomeTaskIsReady ==
  Spec => [](run = "verifying" /\ ~AllDone => \E s \in selected : Ready(s))
  <1>1. Inv /\ Slots => (run = "verifying" /\ ~AllDone => \E s \in selected : Ready(s))
    <2> SUFFICES ASSUME Inv, Slots, ~AllDone PROVE \E s \in selected : Ready(s)
      OBVIOUS
    <2>1. \A s \in selected : phase[s] \in Phases
      BY DEF Inv, TypeOK
    <2>2. CASE Active # {}
      <3>1. PICK s \in selected : phase[s] \notin {"queued", "done"}
        BY <2>2 DEF Active
      <3> QED
        BY <2>1, <3>1 DEF Phases, Ready
    <2>3. CASE Active = {}
      <3>1. PICK s \in selected : phase[s] # "done"
        BY DEF AllDone
      <3>2. phase[s] = "queued"
        BY <2>3, <3>1 DEF Active
      <3>3. Cardinality(Active) < Concurrency
        BY <2>3, FS_EmptySet, ConcurrencyAssumption
      <3> QED
        BY <3>2, <3>3 DEF Ready
    <2> QED
      BY <2>2, <2>3
  <1>2. Spec => []Slots
    BY Invariance, SlotsInit, SlotsNext, PTL DEF Spec
  <1> QED
    BY <1>1, <1>2, Invariance, PTL

=============================================================================
