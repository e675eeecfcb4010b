---------------------------- MODULE RetriedAudit ----------------------------
(***************************************************************************)
(* What an audit promises, whoever runs it (`auditstatus verify', or the   *)
(* jobs of the registry workflow): every audited server gets a first       *)
(* status and then a verdict that may improve on it only to a warning,     *)
(* never drops a failure and never trades it for an inconclusive result;   *)
(* the report, when there is one, has the worst verdict of exactly the     *)
(* servers audited, or says that the audit did not finish.                 *)
(***************************************************************************)
EXTENDS Verdict

CONSTANT Servers

None == "none"

VARIABLES audited,   \* the servers this run was asked to audit
          first,     \* the status of the first attempt, per server
          verdict,   \* the status the run settles on, per server
          report     \* NoReport, or the servers and their overall status

vars == <<audited, first, verdict, report>>

NoReport   == [status |-> None, servers |-> {}]
Unfinished == [status |-> "error", servers |-> {}]
Complete   == [status |-> OverallStatus({verdict[s] : s \in audited}), servers |-> audited]

Blank == [s \in Servers |-> None]
Statuses == [Servers -> Status \cup {None}]

TypeOK ==
    /\ audited \in SUBSET Servers
    /\ first \in Statuses /\ verdict \in Statuses
    /\ report \in [status : Status \cup {None}, servers : SUBSET Servers]

Init ==
    /\ audited \in SUBSET Servers
    /\ first = Blank /\ verdict = Blank /\ report = NoReport

\* Once given, a status stays for the rest of the run.
Kept(old, new) == \A s \in Servers : old[s] # None => new[s] = old[s]

Attempt ==
    /\ first' \in Statuses /\ Kept(first, first')
    /\ \A s \in Servers \ audited : first'[s] = None

Settle ==
    /\ verdict' \in Statuses /\ Kept(verdict, verdict')
    /\ \A s \in Servers : verdict'[s] # None => first'[s] # None /\ verdict'[s] \in Permitted(first'[s])

Publish ==
    \/ report' = report
    \/ report = NoReport /\ report' = Unfinished
    \/ /\ report = NoReport /\ \A s \in audited : verdict'[s] # None
       /\ report' = Complete'

Progress == UNCHANGED audited /\ Attempt /\ Settle /\ Publish

\* A later run starts over.
NewRun ==
    /\ UNCHANGED audited
    /\ first' = Blank /\ verdict' = Blank /\ report' = NoReport

Spec == Init /\ [][Progress \/ NewRun]_vars
============================================================================
