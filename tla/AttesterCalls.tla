--------------------------- MODULE AttesterCalls ---------------------------
(***************************************************************************)
(* Asking an attester: the verifier's transports (lib/transport.js,        *)
(* lib/ssh.js, lib/kubernetes.js), the operations on the audited server    *)
(* (lib/remote.js and the commands `ssh' and `serve') and the enrollment   *)
(* of a server's TPM, which takes two of them (lib/enroll.js, tpm-verify). *)
(*                                                                         *)
(* Over SSH every operation is a process of its own on the server; through *)
(* a port-forward they wait in the queue of one `serve'.  A caller asks    *)
(* once more after a failed `check', and asks `activate' after `enroll';   *)
(* its second request is therefore made when the first has settled, but    *)
(* the attester may still be busy with the first, which it never notices   *)
(* was abandoned.                                                          *)
(***************************************************************************)
EXTENDS Naturals, Sequences, FiniteSets, SequencesExt

CONSTANTS Callers,      \* enrollTpm() or collectFrom(), each on its own
          Strays,       \* requests of other local users to `serve'
          Keys,         \* the attestation keys the TPM can create
          Kinds,        \* what callers may want: a subset of {"check", "enroll"}
          Transports,   \* a subset of {"ssh", "kubernetes"}
          MaxPending,   \* MAX_PENDING of remote.js
          MaxOutput,    \* MAX_OUTPUT, in parts of an answer
          MaxParts,     \* the largest answer, in parts
          MaxFaults     \* bound: lost connections, restarts of `serve'

ASSUME CallsAssumption ==
    /\ Transports \subseteq {"ssh", "kubernetes"} /\ Kinds \subseteq {"check", "enroll"}
    /\ MaxPending \in Nat \ {0} /\ MaxOutput \in Nat \ {0} /\ MaxParts \in Nat \ {0}
    /\ MaxFaults \in Nat

None == "none"
Soft == "soft"          \* a key made by software
ASSUME NamesAssumption == Callers \cap Strays = {} /\ None \notin Keys
Eks  == {"certified", "uncertified", "forged"}   \* an EK, by its certificate

VARIABLES
    via,        \* how this server is reached
    honest,     \* whether the server runs the attester
    lenient,    \* --allow-uncertified
    wants,      \* what each caller asks
    call,       \* each caller's current request
    temp,       \* callers whose private files are on disk
    forwards,   \* callers whose port-forward runs
    work,       \* how far the attester is with each request, with its answer
    queue,      \* requests `serve' has accepted, the first being carried out
    pending,    \* serve's counter of them
    ak, made,   \* the TPM's attestation key, and every key it has created
    enrolled,   \* the key each caller has enrolled
    faults
vars == <<via, honest, lenient, wants, call, temp, forwards, work, queue, pending, ak, made, enrolled, faults>>
server == <<work, queue, pending, ak, made>>
setting == <<via, honest, lenient, wants>>

Requests == Callers \X (1..2) \cup Strays \X {1}
Operation(r) == IF r[1] \in Strays THEN "check"
                ELSE IF wants[r[1]] = "check" THEN "check"
                ELSE IF r[2] = 1 THEN "enroll" ELSE "activate"
Current(c) == <<c, call[c].n>>

Refusal == [kind |-> "error"]
Offer(key, area, restricted, ek) ==
    [kind |-> "enrollment", key |-> key, area |-> area, restricted |-> restricted, ek |-> ek]
Enrollment == [kind : {"enrollment"}, key : Keys \cup {Soft}, area : Keys \cup {Soft}, restricted : BOOLEAN, ek : Eks]
Reply == {Refusal, [kind |-> "evidence"], [kind |-> "secret"]} \cup Enrollment
\* A call: how far it is, the operation's answer and its size, what was read,
\* the timer, the exit code, and the enrollment an `activate' is about.
NewCall(n, about) == [at |-> "idle", n |-> n, reply |-> Refusal, parts |-> 0, size |-> 0,
                      timedOut |-> FALSE, code |-> 1, about |-> about]
NoWork == [step |-> "none", key |-> None]

\* One server, reached one way.
Init == /\ via \in Transports
        /\ honest \in BOOLEAN /\ lenient \in BOOLEAN
        /\ wants \in [Callers -> Kinds]
        /\ honest => ~lenient
        /\ ~honest => \A c \in Callers : wants[c] = "enroll"
        /\ call = [c \in Callers |-> NewCall(1, Refusal)]
        /\ temp = {} /\ forwards = {}
        /\ work = [r \in Requests |-> NoWork]
        /\ queue = <<>> /\ pending = 0
        /\ ak = None /\ made = {}
        /\ enrolled = [c \in Callers |-> None]
        /\ faults = 0

---------------------------------------------------------------------------
(* The attester *)

Step(r, step) == work' = [work EXCEPT ![r].step = step]

\* Mutant: places are given up only by operations that succeed.
LeavesOnSuccess(reply) == IF reply = Refusal THEN pending ELSE pending - 1
\* serve(): finally { pending-- }.
Leaves(reply) == pending - 1

\* An operation ends with an answer of some size, for the caller that still
\* waits for it; `serve' carries out the first of its queue, so the next starts.
Replied(r, reply) ==
    IF \E c \in Callers : r = Current(c) /\ call[c].at \in {"child", "open"}
    THEN \E parts \in (IF reply.kind = "evidence" THEN 1..MaxParts ELSE {1}) :
            call' = [call EXCEPT ![r[1]] = [@ EXCEPT !.reply = reply, !.parts = parts]]
    ELSE UNCHANGED call

Answer(r, reply) ==
    LET answered == [work EXCEPT ![r] = [NoWork EXCEPT !.step = "answered"]]
        rest     == Tail(queue)
    IN  /\ Replied(r, reply)
        /\ IF via = "ssh"
           THEN work' = answered /\ UNCHANGED <<queue, pending>>
           ELSE /\ queue' = rest
                /\ pending' = Leaves(reply)
                /\ work' = [q \in Requests |-> IF rest # <<>> /\ q = rest[1] /\ work[q].step = "wait"
                                              THEN [work[q] EXCEPT !.step = "run"] ELSE answered[q]]

\* Mutants: one request too many is accepted; a request does not wait its turn.
FullLate == pending > MaxPending
AtOnce   == TRUE
Full   == pending >= MaxPending
MyTurn == queue = <<>>

\* A request reaches the attester: over SSH it starts at once; serve() refuses
\* it with 503 when enough wait, else it takes its place.
Arrive(r) ==
    \/ via = "ssh" /\ Step(r, "run") /\ UNCHANGED <<queue, pending>>
    \/ via = "kubernetes" /\ Full /\ Step(r, "refused") /\ UNCHANGED <<queue, pending>>
    \/ /\ via = "kubernetes" /\ ~Full
       /\ queue' = Append(queue, r)
       /\ pending' = pending + 1
       /\ Step(r, IF MyTurn THEN "run" ELSE "wait")

\* Another local user's request to `serve'.
Stray(s) ==
    /\ via = "kubernetes"
    /\ work[<<s, 1>>].step = "none"
    /\ Arrive(<<s, 1>>)
    /\ UNCHANGED <<setting, call, temp, forwards, ak, made, enrolled, faults>>

Check(r) == Operation(r) = "check" /\ Answer(r, [kind |-> "evidence"]) /\ UNCHANGED <<ak, made>>

\* enrollment(): the existing key; on any error, a new one at the same handle.
GetKey(r) ==
    /\ honest /\ Operation(r) = "enroll" /\ work[r].step = "run"
    /\ \/ ak # None /\ work' = [work EXCEPT ![r] = [step |-> "area", key |-> ak]]
       \/ Step(r, "create")
    /\ UNCHANGED <<queue, pending, ak, made, call>>

CreateKey(r) ==
    /\ work[r].step = "create"
    /\ \E k \in Keys \ made :
          /\ ak' = k /\ made' = made \cup {k}
          /\ work' = [work EXCEPT ![r] = [step |-> "area", key |-> k]]
    /\ UNCHANGED <<queue, pending, call>>

\* The public area is read from the TPM again.
ReadArea(r) ==
    /\ work[r].step = "area"
    /\ \E ek \in {"certified", "uncertified"} :
          Answer(r, Offer(work[r].key, ak, TRUE, ek))
    /\ UNCHANGED <<ak, made>>

\* The TPM that holds the EK decrypts the credential only for the key it names.
Activate(r) ==
    /\ Operation(r) = "activate" /\ work[r].step = "run"
    /\ LET offered == call[r[1]].about
       IN  Answer(r, IF offered.area = ak /\ offered.ek # "forged" THEN [kind |-> "secret"] ELSE Refusal)
    /\ UNCHANGED <<ak, made>>

\* A server that does not run the attester answers what it likes; its TPM
\* decrypts what it decrypts.
Lie(r) ==
    /\ ~honest /\ Operation(r) = "enroll" /\ work[r].step = "run"
    /\ \E k \in Keys : made \subseteq {k} /\ ak' = k /\ made' = {k}
    /\ \E e \in {Offer(ak', ak', TRUE, "certified"), Offer(ak', ak', FALSE, "certified"),
                Offer(ak', ak', TRUE, "uncertified"), Offer(ak', ak', TRUE, "forged"),
                Offer(Soft, ak', TRUE, "certified"), Offer(ak', Soft, TRUE, "certified"),
                Offer(Soft, Soft, TRUE, "certified")} :
          Answer(r, e)

OperationFails(r) ==
    /\ work[r].step \in {"run", "create", "area"}
    /\ faults < MaxFaults /\ faults' = faults + 1
    /\ Answer(r, Refusal)
    /\ UNCHANGED <<ak, made>>

Works(r) ==
    /\ \/ work[r].step = "run" /\ Check(r)
       \/ GetKey(r) \/ CreateKey(r) \/ ReadArea(r) \/ Activate(r) \/ Lie(r)
    /\ UNCHANGED faults

Attest(r) == (Works(r) \/ OperationFails(r)) /\ UNCHANGED <<setting, temp, forwards, enrolled>>

\* `serve' is restarted: what it had accepted is lost.
Restart ==
    /\ via = "kubernetes" /\ queue # <<>>
    /\ faults < MaxFaults /\ faults' = faults + 1
    /\ queue' = <<>> /\ pending' = 0
    /\ work' = [r \in Requests |-> IF r \in ToSet(queue) THEN [work[r] EXCEPT !.step = "lost"] ELSE work[r]]
    /\ UNCHANGED <<setting, call, temp, forwards, ak, made, enrolled>>

---------------------------------------------------------------------------
(* The transports *)

\* Mutant: the private files stay when the call fails.
CleanedOnAnswer(c, reply) == IF reply = Refusal THEN temp ELSE temp \ {c}
\* The finally block of runOverSsh().
Cleaned(c, reply) == temp \ {c}

Settled(x, reply) == IF reply = Refusal THEN [NewCall(x.n, x.about) EXCEPT !.at = "settled"]
                     ELSE [x EXCEPT !.at = "settled", !.code = 0]

\* The call settles, once, with an answer or an error; what it left behind is
\* removed (the private files; the port-forward).
Settles(c, reply) ==
    /\ call' = [call EXCEPT ![c] = Settled(@, reply)]
    /\ temp' = Cleaned(c, reply)
    /\ forwards' = forwards \ {c}

\* runOverSsh() before the child: no pinned host keys is an error; keys and
\* paths ssh cannot take are written to private files.
PrepareFiles(c) ==
    /\ via = "ssh" /\ call[c].at = "idle"
    /\ \/ Settles(c, Refusal) /\ UNCHANGED faults
       \/ /\ \E private \in BOOLEAN : temp' = IF private THEN temp \cup {c} ELSE temp
          /\ call' = [call EXCEPT ![c].at = "child"]
          /\ UNCHANGED <<forwards, faults>>
    /\ UNCHANGED <<setting, server, enrolled>>

\* The child reaches the server.
Connect(c) ==
    /\ call[c].at = "child" /\ work[Current(c)].step = "none"
    /\ Arrive(Current(c))
    /\ UNCHANGED <<setting, call, temp, forwards, ak, made, enrolled, faults>>

Answered(c) == work[Current(c)].step \in {"answered", "refused"}

\* The child ends with the operation's exit code, or with its connection.
Exits(c) ==
    /\ call[c].at = "child"
    /\ \/ /\ Answered(c)
          /\ call' = [call EXCEPT ![c] = [@ EXCEPT !.at = "exited", !.code = IF call[c].reply = Refusal THEN 1 ELSE 0]]
          /\ UNCHANGED faults
       \/ /\ faults < MaxFaults /\ faults' = faults + 1
          /\ call' = [call EXCEPT ![c].at = "exited"]
    /\ UNCHANGED <<setting, temp, forwards, server, enrolled>>

\* The data handler: an answer past the limit ends the child and is not kept.
ReadPart(c) ==
    /\ call[c].at \in {"child", "exited"} /\ Answered(c) /\ call[c].size < call[c].parts
    /\ LET x == call[c]
       IN  call' = [call EXCEPT ![c] = [x EXCEPT !.size = x.size + 1, !.at = IF x.size < MaxOutput THEN x.at ELSE "exited"]]
    /\ UNCHANGED <<setting, temp, forwards, server, enrolled, faults>>

\* Mutant: the timer reports but does not end the child.
TimesOutOnly(c) == call' = [call EXCEPT ![c].timedOut = TRUE]
TimesOut(c) == call' = [call EXCEPT ![c] = [@ EXCEPT !.timedOut = TRUE, !.at = "exited"]]

\* The timer ends the child; it may fire after the child has ended.
Timer(c) ==
    /\ call[c].at \in {"child", "exited"} /\ ~call[c].timedOut
    /\ TimesOut(c)
    /\ UNCHANGED <<setting, temp, forwards, server, enrolled, faults>>

\* Mutant: the exit code alone decides.
ClosedByCode(c) == call[c].code = 0
\* The close handler, in its order: timed out, too large, exit code.
ClosedWell(c) == ~call[c].timedOut /\ call[c].size <= MaxOutput /\ call[c].code = 0

\* `close' comes when the child has ended and all it wrote has been read.
Close(c) ==
    /\ call[c].at = "exited"
    /\ call[c].code = 0 => call[c].size = call[c].parts
    /\ Settles(c, IF ClosedWell(c) THEN call[c].reply ELSE Refusal)
    /\ UNCHANGED <<setting, server, enrolled, faults>>

\* requestOverPortForward(): the port-forward starts, or ends, or is given up.
Forward(c) ==
    /\ via = "kubernetes" /\ call[c].at = "idle"
    /\ \/ /\ forwards' = forwards \cup {c}
          /\ call' = [call EXCEPT ![c].at = "forward"]
          /\ UNCHANGED temp
       \/ Settles(c, Refusal)
    /\ UNCHANGED <<setting, server, enrolled, faults>>

ForwardStarts(c) ==
    /\ call[c].at = "forward"
    /\ \/ /\ call' = [call EXCEPT ![c].at = "open"]
          /\ Arrive(Current(c))
          /\ UNCHANGED <<temp, forwards, ak, made>>
       \/ Settles(c, Refusal) /\ UNCHANGED server
    /\ UNCHANGED <<setting, enrolled, faults>>

\* The response's handlers: a part, too large, ended; or the request's: idle
\* for too long, or its connection lost.
Response(c) ==
    /\ call[c].at = "open"
    /\ \/ /\ Answered(c) /\ call[c].size < call[c].parts
          /\ IF call[c].size < MaxOutput
             THEN call' = [call EXCEPT ![c].size = @ + 1] /\ UNCHANGED <<temp, forwards>>
             ELSE Settles(c, Refusal)
       \/ /\ Answered(c) /\ call[c].size = call[c].parts
          /\ Settles(c, call[c].reply)
       \/ Settles(c, Refusal)
    /\ UNCHANGED <<setting, server, enrolled, faults>>

---------------------------------------------------------------------------
(* The callers *)

Succeeded(c) == call[c].at = "settled" /\ call[c].code = 0

\* collectFrom() fails; verify() asks once more.
AskAgain(c) ==
    /\ call[c].at = "settled" /\ call[c].code = 1 /\ wants[c] = "check" /\ call[c].n = 1
    /\ call' = [call EXCEPT ![c] = NewCall(2, Refusal)]
    /\ UNCHANGED <<setting, temp, forwards, server, enrolled, faults>>

\* Mutant: the key is not compared with its public area.
AcceptedUnmatched(e) == e.restricted /\ (e.ek = "certified" \/ (e.ek = "uncertified" /\ lenient))
\* What enrollTpm() asks of an enrollment before it makes a credential.
Accepted(e) ==
    /\ e.restricted
    /\ e.key = e.area
    /\ e.ek = "certified" \/ (e.ek = "uncertified" /\ lenient)

\* enrollTpm() after `enroll': an error, or the challenge.
Challenge(c) ==
    /\ Succeeded(c) /\ wants[c] = "enroll" /\ call[c].n = 1
    /\ call' = [call EXCEPT ![c] = IF Accepted(call[c].reply) THEN NewCall(2, call[c].reply)
                                   ELSE [NewCall(1, Refusal) EXCEPT !.at = "settled"]]
    /\ UNCHANGED <<setting, temp, forwards, server, enrolled, faults>>

\* enrollTpm() after `activate': the secret came back.
Enroll(c) ==
    /\ Succeeded(c) /\ wants[c] = "enroll" /\ call[c].n = 2 /\ enrolled[c] = None
    /\ enrolled' = [enrolled EXCEPT ![c] = call[c].about.key]
    /\ UNCHANGED <<setting, call, temp, forwards, server, faults>>

Client(c) == \/ PrepareFiles(c) \/ ReadPart(c) \/ Timer(c) \/ Close(c)
             \/ Forward(c) \/ ForwardStarts(c) \/ Response(c)
             \/ AskAgain(c) \/ Challenge(c) \/ Enroll(c)

Next == \/ \E c \in Callers : Client(c) \/ Connect(c) \/ Exits(c)
        \/ \E r \in Requests : Attest(r)
        \/ \E s \in Strays : Stray(s)
        \/ Restart

\* Only the verifier's own process is sure to take its steps: its timers fire
\* and its children's ends are noticed, whatever the server does.
Spec == Init /\ [][Next]_vars /\ \A c \in Callers : WF_vars(Client(c))

---------------------------------------------------------------------------
(* Properties *)

TypeOK ==
    /\ \A c \in Callers :
          /\ call[c].at \in {"idle", "child", "exited", "forward", "open", "settled"}
          /\ call[c].size \in 0..MaxParts
          /\ {call[c].reply, call[c].about} \subseteq Reply /\ enrolled[c] \in Keys \cup {None, Soft}
    /\ temp \subseteq Callers /\ forwards \subseteq Callers
    /\ pending \in 0..MaxPending /\ ak \in Keys \cup {None} /\ made \subseteq Keys

\* A call that succeeded holds the whole answer to its own request, whichever
\* of timeout, output limit and close came first (ssh.js:138-169), and one that
\* settled left no private key on disk and no port-forward open (ssh.js:178-182,
\* kubernetes.js:242-244).
CallsEndWhole ==
    \A c \in Callers :
        /\ Succeeded(c) =>
              work[Current(c)].step = "answered" /\ call[c].size = call[c].parts /\ call[c].parts \in 1..MaxOutput
        /\ call[c].at = "settled" => c \notin temp \cup forwards

\* serve's counter is what really waits, so a request is refused only when
\* that many do, and none is refused for ever (remote.js:174-188).
PendingIsQueue == pending = Len(queue)

\* A key that enrollTpm() returns was created by the TPM whose EK it accepted,
\* whatever the server answered and however enrollments interleaved
\* (enroll.js:53-101).  Through `serve', whose operations take turns, an answer
\* is about one key, although the attester reads the key and its public area
\* separately (remote.js:62-78, 180-188); over SSH another enrollment may
\* create a key in between.
EnrolledIsInTpm ==
    \A c \in Callers :
        /\ enrolled[c] # None => enrolled[c] \in made /\ (call[c].about.ek = "certified" \/ lenient)
        /\ (honest /\ via = "kubernetes" /\ call[c].reply.kind = "enrollment") => call[c].reply.key = call[c].reply.area

\* Every call settles, even when the server never answers, and so do the calls
\* that follow it: in the end no caller waits.
CallsSettle == []<>(\A c \in Callers : call[c].at = "settled")
============================================================================
