------------------------ MODULE AttesterCallsProofs ------------------------
(***************************************************************************)
(* What AttesterCalls promises, proved for any number of callers, of other *)
(* local users and of keys, whatever the limits: the operations of `serve' *)
(* take turns, its counter is its queue, a call that succeeded holds the   *)
(* whole of its own answer and left nothing behind, an enrolled key is one *)
(* of the accepted TPM's, and every step of a caller takes its call on.    *)
(***************************************************************************)
EXTENDS AttesterCalls, TLAPS

Working == {"run", "create", "area"}
Secret  == [kind |-> "secret"]

Work == [step : {"none", "wait", "answered", "refused", "lost"} \cup Working, key : Keys \cup {None}]

\* The attester's state.
Typed ==
    /\ via \in {"ssh", "kubernetes"}
    /\ work \in [Requests -> Work] /\ queue \in Seq(Requests) /\ pending \in Nat
    /\ ak \in Keys \cup {None} /\ made \in SUBSET Keys

\* The operations of `serve' take turns: the first of the queue is being
\* carried out, the others wait, and nothing else is carried out.
Turns ==
    /\ pending = Len(queue) /\ pending <= MaxPending
    /\ via = "ssh" => queue = <<>>
    /\ via = "kubernetes" => \A r \in Requests : work[r].step \in Working => queue # <<>> /\ r = queue[1]
    /\ queue # <<>> => work[queue[1]].step \in Working
    /\ \A i \in 2..Len(queue) : work[queue[i]].step = "wait"
    /\ \A i, j \in 1..Len(queue) : queue[i] = queue[j] => i = j

Serving == Typed /\ Turns

\* What can happen to the attester: a request arrives, an operation goes on or
\* ends, `serve' is restarted.
Arrival(r) == work[r].step = "none" /\ Arrive(r) /\ UNCHANGED <<ak, made>>
Progress(r) == (GetKey(r) \/ CreateKey(r)) /\ UNCHANGED via
Ending(r, reply) == work[r].step \in Working /\ Answer(r, reply)

\* Steps of a request that only its own arrival changes.
Still == {"none", "answered", "refused"}
Keeps == \A q \in Requests : work[q].step \in Still => work'[q].step = work[q].step

At == {"idle", "child", "exited", "forward", "open", "settled"}
Call == [at : At, n : 1..2, reply : Reply,
         parts : 0..MaxParts, size : 0..MaxParts, timedOut : BOOLEAN, code : 0..1, about : Reply]

\* A call and how far the attester is with its request.
Fits(x, s) ==
    /\ x.at \in {"idle", "forward"} => s = "none"
    /\ x.reply # Refusal => s = "answered" /\ x.parts >= 1
    /\ x.size <= x.parts
    /\ x.size > 0 => s \in {"answered", "refused"}
    /\ x.at = "open" => x.size <= MaxOutput
    /\ x.at = "settled" /\ x.code = 0 => x.reply # Refusal /\ x.size = x.parts /\ x.size <= MaxOutput

Calls ==
    /\ call \in [Callers -> Call]
    /\ \A c \in Callers : Fits(call[c], work[Current(c)].step)
    /\ \A c \in Callers : call[c].n = 1 => work[<<c, 2>>].step = "none"

\* The TPM's key, and what the operations of an enrollment know of it; those of
\* `serve' know the key that is there.
Keyed ==
    /\ wants \in [Callers -> {"check", "enroll"}]
    /\ ak # None => ak \in made
    /\ \A r \in Requests : work[r].step \in {"create", "area"} => Operation(r) = "enroll"
    /\ \A r \in Requests : work[r].step = "area" => work[r].key \in Keys /\ ak # None
    /\ honest /\ via = "kubernetes" => \A r \in Requests : work[r].step = "area" => work[r].key = ak

\* What a caller has been told: about an enrollment it has accepted, a secret
\* only when the TPM has the key.
Meaning(x, w) ==
    /\ w = "enroll" /\ x.n = 1 => x.reply \in {Refusal} \cup Enrollment
    /\ w = "enroll" /\ x.n = 2 =>
          /\ x.reply \in {Refusal, Secret}
          /\ x.about \in Enrollment /\ x.about.key = x.about.area
          /\ (x.about.ek = "certified" \/ lenient)
          /\ x.reply # Refusal => x.about.area \in made
    /\ honest /\ via = "kubernetes" /\ x.reply.kind = "enrollment" => x.reply.key = x.reply.area

Meant == \A c \in Callers : Meaning(call[c], wants[c])

\* What a caller has enrolled.
Enrolls ==
    /\ enrolled \in [Callers -> Keys \cup {None, Soft}]
    /\ \A c \in Callers : enrolled[c] # None =>
          /\ call[c].n = 2 /\ wants[c] = "enroll"
          /\ enrolled[c] = call[c].about.key /\ enrolled[c] \in made

\* What a call that has settled left behind.
Left == /\ temp \in SUBSET Callers /\ forwards \in SUBSET Callers
        /\ \A c \in Callers : call[c].at = "settled" => c \notin temp \cup forwards

\* What an operation may answer.
Sound(r, reply) ==
    LET op == Operation(r)
    IN  /\ reply \in Reply
        /\ op = "check" => reply.kind # "enrollment"
        /\ op = "enroll" =>
              /\ reply \in {Refusal} \cup Enrollment
              /\ honest /\ via = "kubernetes" /\ reply.kind = "enrollment" => reply.key = reply.area
        /\ op = "activate" =>
              /\ reply \in {Refusal, Secret}
              /\ r = Current(r[1]) /\ reply # Refusal => call[r[1]].about.area \in made

-----------------------------------------------------------------------------
(* The attester                                                            *)

LEMMA ServingInit == Init => Serving
BY CallsAssumption DEF Init, Serving, Typed, Turns, NoWork, Work, Working

LEMMA ArrivalServes == ASSUME Serving, NEW r \in Requests, Arrival(r), UNCHANGED via
                       PROVE  Serving'
<1>1. work[r] \in Work
  BY DEF Serving, Typed
<1>2. CASE via = "ssh" /\ Step(r, "run") /\ UNCHANGED <<queue, pending>>
  BY <1>1, <1>2 DEF Serving, Typed, Turns, Arrival, Step, Work, Working
<1>3. CASE via = "kubernetes" /\ Full /\ Step(r, "refused") /\ UNCHANGED <<queue, pending>>
  <2>1. Typed'
    BY <1>1, <1>3 DEF Serving, Typed, Arrival, Step, Work, Working
  <2>2. \A i \in 1..Len(queue) : queue[i] \in Requests /\ queue[i] # r
    BY <1>3 DEF Serving, Typed, Turns, Arrival, Working
  <2>3. Turns'
    BY <1>1, <1>3, <2>2 DEF Serving, Typed, Turns, Arrival, Step, Work, Working
  <2> QED
    BY <2>1, <2>3 DEF Serving
<1>4. CASE /\ via = "kubernetes" /\ ~Full /\ queue' = Append(queue, r) /\ pending' = pending + 1
           /\ Step(r, IF MyTurn THEN "run" ELSE "wait")
  <2>1. /\ Len(queue') = Len(queue) + 1
        /\ queue'[Len(queue) + 1] = r
        /\ \A i \in 1..Len(queue) : queue'[i] = queue[i]
    BY <1>4 DEF Serving, Typed
  <2>2. \A i \in 1..Len(queue) : queue[i] \in Requests /\ queue[i] # r
    BY <1>4 DEF Serving, Typed, Turns, Arrival, Working
  <2>3. Typed'
    BY <1>1, <1>4 DEF Serving, Typed, Arrival, Step, Work, Working, MyTurn
  <2>4. /\ work'[r].step = (IF queue = <<>> THEN "run" ELSE "wait")
        /\ \A q \in Requests : q # r => work'[q] = work[q]
    BY <1>1, <1>4 DEF Serving, Typed, Step, MyTurn, Work
  <2>5. pending' = Len(queue') /\ pending' <= MaxPending
    BY <1>4, <2>1, CallsAssumption DEF Serving, Typed, Turns, Full
  <2>6. \A q \in Requests : work'[q].step \in Working => queue' # <<>> /\ q = queue'[1]
    BY <1>4, <2>1, <2>4 DEF Serving, Typed, Turns, Working
  <2>7. queue' # <<>> => work'[queue'[1]].step \in Working
    BY <1>4, <2>1, <2>2, <2>4 DEF Serving, Typed, Turns, Working
  <2>8. \A i \in 2..Len(queue') : work'[queue'[i]].step = "wait"
    BY <1>4, <2>1, <2>2, <2>4 DEF Serving, Typed, Turns
  <2>9. \A i, j \in 1..Len(queue') : queue'[i] = queue'[j] => i = j
    BY <2>1, <2>2 DEF Serving, Typed, Turns
  <2> QED
    BY <1>4, <2>3, <2>5, <2>6, <2>7, <2>8, <2>9 DEF Serving, Typed, Turns
<1> QED
  BY <1>2, <1>3, <1>4 DEF Arrival, Arrive

LEMMA ProgressServes == ASSUME Serving, NEW r \in Requests, Progress(r)
                        PROVE  Serving'
<1>1. work[r] \in Work /\ work[r].step \in Working
  BY DEF Serving, Typed, Progress, GetKey, CreateKey, Working
<1>2. ak' \in Keys \cup {None} /\ made' \in SUBSET Keys
  BY DEF Serving, Typed, Progress, GetKey, CreateKey
<1>3. /\ work' \in [Requests -> Work] /\ work'[r].step \in Working
      /\ \A q \in Requests : q # r => work'[q] = work[q]
  <2>1. \A k \in Keys \cup {None} : [step |-> "area", key |-> k] \in Work
    BY DEF Work, Working
  <2>2. [work[r] EXCEPT !.step = "create"] \in Work /\ [work[r] EXCEPT !.step = "create"].step = "create"
    BY <1>1 DEF Work, Working
  <2>3. Step(r, "create") => work' = [work EXCEPT ![r] = [work[r] EXCEPT !.step = "create"]]
    BY DEF Step
  <2>4. GetKey(r) => \E v \in Work : v.step \in Working /\ work' = [work EXCEPT ![r] = v]
    BY <2>1, <2>2, <2>3 DEF GetKey, Serving, Typed, Working
  <2>5. CreateKey(r) => \E v \in Work : v.step \in Working /\ work' = [work EXCEPT ![r] = v]
    BY <2>1 DEF CreateKey, Working
  <2>6. \E v \in Work : v.step \in Working /\ work' = [work EXCEPT ![r] = v]
    BY <2>4, <2>5 DEF Progress
  <2> QED
    BY <2>6 DEF Serving, Typed
<1>4. UNCHANGED <<via, queue, pending>>
  BY DEF Progress, GetKey, CreateKey
<1>5. Typed'
  BY <1>2, <1>3, <1>4 DEF Serving, Typed
<1>6. \A i \in 1..Len(queue) : queue[i] \in Requests
  BY DEF Serving, Typed
<1>7. Turns'
  BY <1>1, <1>3, <1>4, <1>6 DEF Serving, Turns, Typed, Working
<1> QED
  BY <1>5, <1>7 DEF Serving

LEMMA EndingServes == ASSUME Serving, NEW r \in Requests, NEW reply, Ending(r, reply), UNCHANGED via,
                             ak' \in Keys \cup {None}, made' \in SUBSET Keys
                      PROVE  Serving'
<1> DEFINE answered == [work EXCEPT ![r] = [NoWork EXCEPT !.step = "answered"]]
<1>1. /\ answered \in [Requests -> Work] /\ answered[r].step = "answered"
      /\ \A q \in Requests : q # r => answered[q] = work[q]
  BY DEF Serving, Typed, NoWork, Work
<1>2. CASE via = "ssh"
  BY <1>1, <1>2 DEF Serving, Typed, Turns, Ending, Answer, Working
<1>3. CASE via = "kubernetes"
  <2> DEFINE rest == Tail(queue)
             next(q) == rest # <<>> /\ q = rest[1] /\ work[q].step = "wait"
  <2>1. queue # <<>> /\ r = queue[1]
    BY <1>3 DEF Serving, Typed, Turns, Ending
  <2>2. /\ rest \in Seq(Requests) /\ Len(rest) = Len(queue) - 1
        /\ \A i \in 1..Len(rest) : rest[i] = queue[i + 1] /\ rest[i] # r /\ rest[i] \in Requests
    BY <2>1 DEF Serving, Typed, Turns
  <2>3. /\ queue' = rest /\ pending' = pending - 1
        /\ work' = [q \in Requests |-> IF next(q) THEN [work[q] EXCEPT !.step = "run"] ELSE answered[q]]
    BY <1>3 DEF Ending, Answer, Leaves
  <2> HIDE DEF answered, rest
  <2>4. work' \in [Requests -> Work]
    BY <1>1, <2>3 DEF Serving, Typed, Work, Working
  <2>5. Typed'
    BY <2>1, <2>2, <2>3, <2>4 DEF Serving, Typed, Turns
  <2>6. pending' = Len(queue') /\ pending' <= MaxPending
    BY <2>2, <2>3, CallsAssumption DEF Serving, Typed, Turns
  <2>7. \A i \in 1..Len(rest) : work[rest[i]].step = "wait"
    BY <2>2 DEF Serving, Typed, Turns
  <2>8. \A q \in Requests : work'[q].step \in Working => rest # <<>> /\ q = rest[1]
    BY <1>1, <1>3, <2>1, <2>3 DEF Serving, Typed, Turns, Work, Working
  <2>9. rest # <<>> => work'[rest[1]].step = "run"
    <3> SUFFICES ASSUME rest # <<>> PROVE work'[rest[1]].step = "run"
      OBVIOUS
    <3>1. rest[1] \in Requests /\ work[rest[1]].step = "wait"
      BY <2>2, <2>7
    <3>2. work'[rest[1]] = [work[rest[1]] EXCEPT !.step = "run"]
      BY <2>3, <3>1
    <3> QED
      BY <3>1, <3>2 DEF Serving, Typed, Work
  <2>10. \A i \in 2..Len(rest) : work'[rest[i]].step = "wait"
    <3> SUFFICES ASSUME NEW i \in 2..Len(rest) PROVE work'[rest[i]].step = "wait"
      OBVIOUS
    <3>1. rest[i] # rest[1] /\ rest[i] # r /\ rest[i] \in Requests
      BY <2>2 DEF Serving, Typed, Turns
    <3>2. work'[rest[i]] = work[rest[i]]
      BY <1>1, <2>3, <3>1
    <3> QED
      BY <2>2, <2>7, <3>2
  <2>11. \A i, j \in 1..Len(rest) : rest[i] = rest[j] => i = j
    BY <2>2 DEF Serving, Typed, Turns
  <2> QED
    BY <1>3, <2>3, <2>5, <2>6, <2>8, <2>9, <2>10, <2>11 DEF Serving, Turns, Working
<1> QED
  BY <1>2, <1>3 DEF Serving, Typed

LEMMA RestartServes == ASSUME Serving, Restart
                       PROVE  Serving'
<1>1. UNCHANGED <<via, ak, made>> /\ via = "kubernetes" /\ queue' = <<>> /\ pending' = 0
  BY DEF Restart, setting
<1>2. \A q \in Requests : work'[q] = IF q \in ToSet(queue) THEN [work[q] EXCEPT !.step = "lost"] ELSE work[q]
  BY DEF Restart
<1>3. work' \in [Requests -> Work]
  BY DEF Restart, Serving, Typed, Work, Working
<1>4. \A q \in Requests : work[q].step \in Working => q \in ToSet(queue)
  BY <1>1 DEF Serving, Typed, Turns, ToSet
<1>5. \A q \in Requests : work'[q].step \notin Working
  BY <1>2, <1>4 DEF Serving, Typed, Work, Working
<1> QED
  BY <1>1, <1>3, <1>5, CallsAssumption DEF Serving, Typed, Turns

-----------------------------------------------------------------------------
(* Requests and calls                                                      *)

LEMMA ArrivalKeeps == ASSUME Serving, NEW r \in Requests, Arrival(r)
                      PROVE  \A q \in Requests : q # r => work'[q] = work[q]
BY DEF Serving, Typed, Arrival, Arrive, Step

LEMMA ProgressKeeps == ASSUME Serving, NEW r \in Requests, Progress(r)
                       PROVE  Keeps
BY DEF Serving, Typed, Progress, GetKey, CreateKey, Step, Keeps, Still

LEMMA EndingKeeps == ASSUME Serving, NEW r \in Requests, NEW reply, Ending(r, reply)
                     PROVE  Keeps /\ work'[r].step = "answered"
<1>1. work[r].step \in Working /\ [NoWork EXCEPT !.step = "answered"].step = "answered"
  BY DEF Ending, NoWork
<1> DEFINE answered == [work EXCEPT ![r] = [NoWork EXCEPT !.step = "answered"]]
<1>2. answered[r].step = "answered" /\ \A q \in Requests : q # r => answered[q] = work[q]
  BY <1>1 DEF Serving, Typed
<1>3. \A q \in Requests : work'[q] = answered[q] \/ work[q].step = "wait"
  BY DEF Serving, Typed, Ending, Answer
<1>4. r \in Requests /\ work[r].step # "wait"
  BY <1>1 DEF Working
<1> HIDE DEF answered
<1> QED
  BY <1>1, <1>2, <1>3, <1>4 DEF Keeps, Still, Working

LEMMA RestartKeeps == ASSUME Serving, Restart
                      PROVE  Keeps
<1>1. \A q \in ToSet(queue) : work[q].step \notin Still
  BY DEF Serving, Typed, Turns, ToSet, Still, Working
<1> QED
  BY <1>1 DEF Restart, Keeps

LEMMA FitsKept == ASSUME NEW x, NEW s, NEW t, Fits(x, s), s \in Still => t = s
                  PROVE  Fits(x, t)
BY DEF Fits, Still

LEMMA FitsArrived == ASSUME NEW x, NEW t, Fits(x, "none"), x.at \notin {"idle", "forward"}
                     PROVE  Fits(x, t)
BY DEF Fits

\* A new call, and one that has settled.
LEMMA NewCallFits == ASSUME NEW n \in 1..2, NEW about \in Reply
                     PROVE  /\ NewCall(n, about) \in Call
                            /\ Fits(NewCall(n, about), "none")
                            /\ NewCall(n, about).n = n /\ NewCall(n, about).about = about
                            /\ NewCall(n, about).reply = Refusal /\ NewCall(n, about).at = "idle"
BY CallsAssumption DEF NewCall, Call, At, Fits, Reply

LEMMA RefusedFits == ASSUME NEW x \in Call, NEW s
                     PROVE  LET y == Settled(x, Refusal)
                            IN  /\ y \in Call /\ Fits(y, s) /\ y.at = "settled"
                                /\ y.n = x.n /\ y.about = x.about /\ y.reply = Refusal /\ y.code = 1
<1>1. Settled(x, Refusal) = [at |-> "settled", n |-> x.n, reply |-> Refusal, parts |-> 0, size |-> 0,
                             timedOut |-> FALSE, code |-> 1, about |-> x.about]
  BY DEF Settled, NewCall
<1>2. x.n \in 1..2 /\ x.about \in Reply /\ Refusal \in Reply
  BY DEF Call, Reply
<1> QED
  BY <1>1, <1>2, CallsAssumption DEF Call, At, Fits

LEMMA SettledFits == ASSUME NEW x \in Call, NEW s, Fits(x, s), x.reply # Refusal,
                            x.size = x.parts, x.size <= MaxOutput
                     PROVE  LET y == Settled(x, x.reply)
                            IN  /\ y \in Call /\ Fits(y, s) /\ y.at = "settled"
                                /\ y.n = x.n /\ y.about = x.about /\ y.reply = x.reply
<1>1. Settled(x, x.reply) = [x EXCEPT !.at = "settled", !.code = 0]
  BY DEF Settled
<1>2. [x EXCEPT !.at = "settled", !.code = 0] \in Call
  <2>1. "settled" \in At /\ 0 \in 0..1
    BY DEF At
  <2> QED
    BY <2>1, Zenon DEF Call
<1>3. LET y == [x EXCEPT !.at = "settled", !.code = 0]
      IN  /\ y.at = "settled" /\ y.n = x.n /\ y.about = x.about /\ y.reply = x.reply
          /\ y.size = x.size /\ y.parts = x.parts
  BY DEF Call
<1> DEFINE y == [x EXCEPT !.at = "settled", !.code = 0]
<1> HIDE DEF y
<1> QED
  BY <1>1, <1>2, <1>3 DEF Fits, y

LEMMA OneCallChanges ==
    ASSUME Calls, NEW c \in Callers, NEW y \in Call, call' = [call EXCEPT ![c] = y],
           Fits(y, work'[<<c, y.n>>].step), y.n = 1 => work'[<<c, 2>>].step = "none",
           \A q \in Requests : q[1] # c /\ work[q].step \in Still => work'[q].step = work[q].step
    PROVE  Calls'
<1>1. call' \in [Callers -> Call] /\ call'[c] = y /\ \A d \in Callers : d # c => call'[d] = call[d]
  BY DEF Calls
<1>2. ASSUME NEW d \in Callers
      PROVE  Fits(call'[d], work'[<<d, call'[d].n>>].step) /\ (call'[d].n = 1 => work'[<<d, 2>>].step = "none")
  <2>1. CASE d = c
    BY <1>1, <2>1
  <2>2. CASE d # c
    <3> DEFINE q == <<d, call[d].n>>
    <3>1. call[d].n \in 1..2 /\ q \in Requests /\ <<d, 2>> \in Requests
      BY DEF Calls, Call, Requests
    <3>2. Fits(call[d], work[q].step) /\ (call[d].n = 1 => work[<<d, 2>>].step = "none")
      BY DEF Calls, Current
    <3>3. work[q].step \in Still => work'[q].step = work[q].step
      BY <2>2, <3>1
    <3>4. call[d].n = 1 => work'[<<d, 2>>].step = "none"
      BY <2>2, <3>1, <3>2 DEF Still
    <3> HIDE DEF q
    <3>5. Fits(call[d], work'[q].step)
      BY <3>2, <3>3, FitsKept
    <3> QED
      BY <1>1, <2>2, <3>4, <3>5 DEF q
  <2> QED
    BY <2>1, <2>2
<1> QED
  BY <1>1, <1>2 DEF Calls, Current

LEMMA NoCallChanges ==
    ASSUME Calls, UNCHANGED call,
           \A q \in Requests : q[1] \in Callers /\ work[q].step \in Still => work'[q].step = work[q].step
    PROVE  Calls'
<1>1. ASSUME NEW d \in Callers
      PROVE  Fits(call[d], work'[<<d, call[d].n>>].step) /\ (call[d].n = 1 => work'[<<d, 2>>].step = "none")
  <2> DEFINE q == <<d, call[d].n>>
  <2>1. call[d].n \in 1..2 /\ q \in Requests /\ <<d, 2>> \in Requests
    BY DEF Calls, Call, Requests
  <2>2. Fits(call[d], work[q].step) /\ (call[d].n = 1 => work[<<d, 2>>].step = "none")
    BY DEF Calls, Current
  <2>3. work[q].step \in Still => work'[q].step = work[q].step
    BY <2>1
  <2>4. call[d].n = 1 => work'[<<d, 2>>].step = "none"
    BY <2>1, <2>2 DEF Still
  <2> HIDE DEF q
  <2>5. Fits(call[d], work'[q].step)
    BY <2>2, <2>3, FitsKept
  <2> QED
    BY <2>4, <2>5 DEF q
<1> QED
  BY <1>1 DEF Calls, Current

\* The request of a call arrives: over SSH while the child runs, through the
\* port-forward as soon as it is open.
LEMMA ConnectCalls == ASSUME Serving, Calls, NEW c \in Callers, Arrival(Current(c)),
                             UNCHANGED call, call[c].at = "child"
                      PROVE  Calls'
<1>1. call[c] \in Call /\ Current(c) \in Requests /\ call[c].n \in 1..2
  BY DEF Calls, Call, Current, Requests
<1>2. call' = [call EXCEPT ![c] = call[c]]
  BY DEF Calls
<1>3. \A q \in Requests : q # Current(c) => work'[q] = work[q]
  BY <1>1, ArrivalKeeps
<1>4. Fits(call[c], "none") /\ work[Current(c)].step = "none"
  BY DEF Calls, Arrival
<1>5. Fits(call[c], work'[<<c, call[c].n>>].step)
  BY <1>4, FitsArrived
<1>6. call[c].n = 1 => work'[<<c, 2>>].step = "none"
  <2>1. <<c, 2>> \in Requests /\ (call[c].n = 1 => <<c, 2>> # Current(c))
    BY DEF Requests, Current
  <2> QED
    BY <1>3, <2>1 DEF Calls
<1>7. \A q \in Requests : q[1] # c => work'[q] = work[q]
  BY <1>3 DEF Current
<1> QED
  BY <1>1, <1>2, <1>5, <1>6, <1>7, OneCallChanges

LEMMA OpenCalls == ASSUME Serving, Calls, NEW c \in Callers, Arrival(Current(c)),
                          call[c].at = "forward", call' = [call EXCEPT ![c].at = "open"]
                   PROVE  Calls'
<1> DEFINE y == [call[c] EXCEPT !.at = "open"]
<1>1. call[c] \in Call /\ Current(c) \in Requests /\ call[c].n \in 1..2
  BY DEF Calls, Call, Current, Requests
<1>2. call' = [call EXCEPT ![c] = y]
  OBVIOUS
<1>3. \A q \in Requests : q # Current(c) => work'[q] = work[q]
  BY <1>1, ArrivalKeeps
<1>4. Fits(call[c], "none") /\ work[Current(c)].step = "none"
  BY DEF Calls, Arrival
<1>5. "open" \in At
  BY DEF At
<1>6. y \in Call
  BY <1>1, <1>5, Zenon DEF Call
<1>7. y.at = "open" /\ y.n = call[c].n /\ y.reply = Refusal /\ y.size = 0 /\ y.parts \in Nat
  BY <1>1, <1>4 DEF Fits, Call
<1> HIDE DEF y
<1>8. Fits(y, work'[<<c, y.n>>].step)
  BY <1>7, CallsAssumption DEF Fits
<1>9. y.n = 1 => work'[<<c, 2>>].step = "none"
  <2>1. <<c, 2>> \in Requests /\ (call[c].n = 1 => <<c, 2>> # Current(c))
    BY DEF Requests, Current
  <2> QED
    BY <1>3, <1>7, <2>1 DEF Calls
<1>10. \A q \in Requests : q[1] # c => work'[q] = work[q]
  BY <1>3 DEF Current
<1> QED
  BY <1>2, <1>6, <1>8, <1>9, <1>10, OneCallChanges DEF y

\* A step of a caller that the attester does not notice.
LEMMA QuietCall == ASSUME Calls, UNCHANGED work, NEW c \in Callers, NEW y \in Call, call' = [call EXCEPT ![c] = y],
                          Fits(y, work[<<c, y.n>>].step), y.n = 1 => call[c].n = 1
                   PROVE  Calls'
<1>1. y.n = 1 => work[<<c, 2>>].step = "none"
  BY DEF Calls
<1> QED
  BY <1>1, OneCallChanges

LEMMA RefusedCalls == ASSUME Calls, UNCHANGED work, NEW c \in Callers, Settles(c, Refusal)
                      PROVE  Calls'
<1> DEFINE y == Settled(call[c], Refusal)
<1>1. call[c] \in Call
  BY DEF Calls
<1>2. y \in Call /\ y.n = call[c].n /\ Fits(y, work[<<c, y.n>>].step)
  BY <1>1, RefusedFits
<1>3. call' = [call EXCEPT ![c] = y]
  BY DEF Settles
<1> HIDE DEF y
<1> QED
  BY <1>2, <1>3, QuietCall DEF y

LEMMA AnsweredCalls == ASSUME Calls, UNCHANGED work, NEW c \in Callers, Settles(c, call[c].reply),
                              call[c].size = call[c].parts, call[c].size <= MaxOutput
                       PROVE  Calls'
<1> DEFINE x == call[c]
           y == Settled(x, x.reply)
<1>1. x \in Call /\ Fits(x, work[<<c, x.n>>].step)
  BY DEF Calls, Current
<1>2. CASE x.reply = Refusal
  BY <1>2, RefusedCalls
<1>3. CASE x.reply # Refusal
  <2> HIDE DEF x
  <2>1. x.size = x.parts /\ x.size <= MaxOutput
    BY DEF x
  <2>2. y \in Call /\ Fits(y, work[<<c, x.n>>].step) /\ y.n = x.n
    BY <1>1, <1>3, <2>1, SettledFits
  <2>3. call' = [call EXCEPT ![c] = y]
    BY DEF Settles, x
  <2> HIDE DEF y
  <2>4. Fits(y, work[<<c, y.n>>].step)
    BY <2>2
  <2>5. y.n = 1 => call[c].n = 1
    BY <2>2 DEF x
  <2> QED
    BY <2>2, <2>3, <2>4, <2>5, QuietCall DEF y
<1> QED
  BY <1>2, <1>3

\* A call that has not settled goes on: only `at', `code', the timer and what
\* has been read change.
Advanced(c, y) ==
    /\ y \in Call /\ call' = [call EXCEPT ![c] = y]
    /\ y.at \in {"child", "exited", "forward", "open"}
    /\ y.at = "forward" => call[c].at = "idle"
    /\ y.at = "open" => y.size <= MaxOutput
    /\ y.n = call[c].n /\ y.reply = call[c].reply /\ y.parts = call[c].parts /\ y.about = call[c].about
    /\ \/ y.size = call[c].size
       \/ y.size = call[c].size + 1 /\ Answered(c) /\ call[c].size < call[c].parts

LEMMA AdvancedCalls == ASSUME Calls, UNCHANGED work, NEW c \in Callers, NEW y, Advanced(c, y)
                       PROVE  Calls'
<1> DEFINE x == call[c]
<1>1. x \in Call /\ Fits(x, work[<<c, x.n>>].step)
  BY DEF Calls, Current
<1>2. x.size \in 0..MaxParts /\ x.parts \in 0..MaxParts /\ MaxParts \in Nat
  BY <1>1, CallsAssumption DEF Call
<1>3. \/ y.size = x.size
      \/ /\ y.size = x.size + 1 /\ x.size < x.parts
         /\ work[<<c, x.n>>].step \in {"answered", "refused"}
  BY DEF Advanced, Answered, Current
<1>4. /\ y \in Call /\ call' = [call EXCEPT ![c] = y]
      /\ y.at \in {"child", "exited", "forward", "open"} /\ (y.at = "forward" => x.at = "idle")
      /\ y.at = "open" => y.size <= MaxOutput
      /\ y.n = x.n /\ y.reply = x.reply /\ y.parts = x.parts
  BY DEF Advanced
<1> HIDE DEF x
<1>5. Fits(y, work[<<c, x.n>>].step)
  BY <1>1, <1>2, <1>3, <1>4 DEF Fits
<1>6. Fits(y, work[<<c, y.n>>].step) /\ (y.n = 1 => call[c].n = 1)
  BY <1>4, <1>5 DEF x
<1> QED
  BY <1>4, <1>6, QuietCall

\* A new call of the same caller.
LEMMA RenewedCalls == ASSUME Calls, UNCHANGED work, NEW c \in Callers, call[c].n = 1, NEW about \in Reply,
                             call' = [call EXCEPT ![c] = NewCall(2, about)]
                      PROVE  Calls'
<1> DEFINE y == NewCall(2, about)
<1>1. y \in Call /\ Fits(y, "none") /\ y.n = 2
  BY NewCallFits
<1>2. work[<<c, 2>>].step = "none"
  BY DEF Calls
<1> HIDE DEF y
<1>3. Fits(y, work[<<c, y.n>>].step)
  BY <1>1, <1>2
<1> QED
  BY <1>1, <1>3, QuietCall DEF y

LEMMA GivenUpCalls == ASSUME Calls, UNCHANGED work, NEW c \in Callers, call[c].n = 1,
                             call' = [call EXCEPT ![c] = [NewCall(1, Refusal) EXCEPT !.at = "settled"]]
                      PROVE  Calls'
<1> DEFINE y == [NewCall(1, Refusal) EXCEPT !.at = "settled"]
<1>1. NewCall(1, Refusal) \in Call /\ Refusal \in Reply /\ NewCall(1, Refusal).n = 1
  BY NewCallFits DEF Reply
<1>2. y = Settled(NewCall(1, Refusal), Refusal)
  BY DEF Settled, NewCall
<1>3. y \in Call /\ Fits(y, work[<<c, 1>>].step) /\ y.n = 1
  BY <1>1, <1>2, RefusedFits
<1> HIDE DEF y
<1>4. Fits(y, work[<<c, y.n>>].step)
  BY <1>3
<1> QED
  BY <1>3, <1>4, QuietCall DEF y

\* The steps of a caller.
LEMMA PrepareCalls == ASSUME Serving, Calls, NEW c \in Callers, PrepareFiles(c)
                      PROVE  Calls'
<1>1. UNCHANGED work /\ call[c] \in Call /\ call[c].at = "idle"
  BY DEF PrepareFiles, server, Calls
<1>2. CASE Settles(c, Refusal)
  BY <1>1, <1>2, RefusedCalls
<1>3. CASE call' = [call EXCEPT ![c].at = "child"]
  <2> DEFINE y == [call[c] EXCEPT !.at = "child"]
  <2>1. "child" \in At
    BY DEF At
  <2>2. y \in Call
    BY <1>1, <2>1, Zenon DEF Call
  <2>3. Advanced(c, y)
    BY <1>1, <1>3, <2>2 DEF Advanced, Call
  <2> QED
    BY <1>1, <2>3, AdvancedCalls
<1> QED
  BY <1>2, <1>3 DEF PrepareFiles

LEMMA ExitsCalls == ASSUME Serving, Calls, NEW c \in Callers, Exits(c)
                    PROVE  Calls'
<1>1. UNCHANGED work /\ call[c] \in Call /\ call[c].at = "child" /\ "exited" \in At
  BY DEF Exits, server, Calls, At
<1>2. CASE call' = [call EXCEPT ![c] = [@ EXCEPT !.at = "exited", !.code = IF call[c].reply = Refusal THEN 1 ELSE 0]]
  <2> DEFINE code == IF call[c].reply = Refusal THEN 1 ELSE 0
             y == [call[c] EXCEPT !.at = "exited", !.code = code]
  <2>1. code \in 0..1
    OBVIOUS
  <2>2. call' = [call EXCEPT ![c] = y]
    BY <1>2
  <2> HIDE DEF code
  <2>3. y \in Call
    BY <1>1, <2>1, Zenon DEF Call
  <2>4. Advanced(c, y)
    BY <1>1, <2>2, <2>3 DEF Advanced, Call
  <2> QED
    BY <1>1, <2>4, AdvancedCalls
<1>3. CASE call' = [call EXCEPT ![c].at = "exited"]
  <2> DEFINE y == [call[c] EXCEPT !.at = "exited"]
  <2>1. y \in Call
    BY <1>1, Zenon DEF Call
  <2>2. Advanced(c, y)
    BY <1>1, <1>3, <2>1 DEF Advanced, Call
  <2> QED
    BY <1>1, <2>2, AdvancedCalls
<1> QED
  BY <1>2, <1>3 DEF Exits

LEMMA ReadCalls == ASSUME Serving, Calls, NEW c \in Callers, ReadPart(c)
                   PROVE  Calls'
<1> DEFINE at == IF call[c].size < MaxOutput THEN call[c].at ELSE "exited"
           y == [call[c] EXCEPT !.size = call[c].size + 1, !.at = at]
<1>1. UNCHANGED work /\ call[c] \in Call
  BY DEF ReadPart, server, Calls
<1>2. at \in At /\ at \in {"child", "exited"}
  BY DEF ReadPart, At
<1>3. call[c].size + 1 \in 0..MaxParts
  <2>1. call[c].size \in 0..MaxParts /\ call[c].parts \in 0..MaxParts /\ MaxParts \in Nat
    BY <1>1, CallsAssumption DEF Call
  <2>2. call[c].size < call[c].parts
    BY DEF ReadPart
  <2> QED
    BY <2>1, <2>2
<1>4. call' = [call EXCEPT ![c] = y]
  BY DEF ReadPart
<1> HIDE DEF at
<1>5. y \in Call
  BY <1>1, <1>2, <1>3, Zenon DEF Call
<1>6. Answered(c) /\ call[c].size < call[c].parts
  BY DEF ReadPart
<1>7. Advanced(c, y)
  BY <1>1, <1>2, <1>4, <1>5, <1>6 DEF Advanced, Call
<1> QED
  BY <1>1, <1>7, AdvancedCalls

LEMMA TimerCalls == ASSUME Serving, Calls, NEW c \in Callers, Timer(c)
                    PROVE  Calls'
<1> DEFINE y == [call[c] EXCEPT !.timedOut = TRUE, !.at = "exited"]
<1>1. UNCHANGED work /\ call[c] \in Call /\ "exited" \in At /\ TRUE \in BOOLEAN
  BY DEF Timer, server, Calls, At
<1>2. y \in Call
  BY <1>1, Zenon DEF Call
<1>3. call' = [call EXCEPT ![c] = y]
  BY DEF Timer, TimesOut
<1>4. y.at = "exited" /\ y.size = call[c].size
  BY <1>1 DEF Call
<1>5. y.n = call[c].n /\ y.reply = call[c].reply /\ y.parts = call[c].parts /\ y.about = call[c].about
  BY <1>1 DEF Call
<1> HIDE DEF y
<1>6. Advanced(c, y)
  BY <1>2, <1>3, <1>4, <1>5 DEF Advanced
<1> QED
  BY <1>1, <1>6, AdvancedCalls

LEMMA ForwardCalls == ASSUME Serving, Calls, NEW c \in Callers, Forward(c)
                      PROVE  Calls'
<1>1. UNCHANGED work /\ call[c] \in Call /\ call[c].at = "idle" /\ "forward" \in At
  BY DEF Forward, server, Calls, At
<1>2. CASE Settles(c, Refusal)
  BY <1>1, <1>2, RefusedCalls
<1>3. CASE call' = [call EXCEPT ![c].at = "forward"]
  <2> DEFINE y == [call[c] EXCEPT !.at = "forward"]
  <2>1. y \in Call
    BY <1>1, Zenon DEF Call
  <2>2. Advanced(c, y)
    BY <1>1, <1>3, <2>1 DEF Advanced, Call
  <2> QED
    BY <1>1, <2>2, AdvancedCalls
<1> QED
  BY <1>2, <1>3 DEF Forward

LEMMA ResponseCalls == ASSUME Serving, Calls, NEW c \in Callers, Response(c)
                       PROVE  Calls'
<1>1. UNCHANGED work /\ call[c] \in Call /\ call[c].at = "open"
  BY DEF Response, server, Calls
<1>2. call[c].size <= MaxOutput
  BY <1>1 DEF Calls, Fits
<1>3. CASE Settles(c, Refusal)
  BY <1>1, <1>3, RefusedCalls
<1>4. CASE call[c].size = call[c].parts /\ Settles(c, call[c].reply)
  BY <1>1, <1>2, <1>4, AnsweredCalls
<1>5. CASE /\ Answered(c) /\ call[c].size < call[c].parts /\ call[c].size < MaxOutput
           /\ call' = [call EXCEPT ![c].size = @ + 1]
  <2> DEFINE size == call[c].size + 1
             y == [call[c] EXCEPT !.size = size]
  <2>1. call[c].size \in 0..MaxParts /\ call[c].parts \in 0..MaxParts /\ MaxParts \in Nat /\ MaxOutput \in Nat
    BY <1>1, CallsAssumption DEF Call
  <2>2. size \in 0..MaxParts /\ size <= MaxOutput
    BY <1>5, <2>1
  <2>3. call' = [call EXCEPT ![c] = y]
    BY <1>5
  <2> HIDE DEF size
  <2>4. y \in Call
    BY <1>1, <2>2, Zenon DEF Call
  <2>5. Advanced(c, y)
    BY <1>1, <1>5, <2>2, <2>3, <2>4 DEF Advanced, Call, size
  <2> QED
    BY <1>1, <2>5, AdvancedCalls
<1> QED
  BY <1>3, <1>4, <1>5 DEF Response

LEMMA CloseCalls == ASSUME Serving, Calls, NEW c \in Callers, Close(c)
                    PROVE  Calls'
<1>1. UNCHANGED work
  BY DEF Close, server
<1>2. CASE ClosedWell(c)
  BY <1>1, <1>2, AnsweredCalls DEF Close, ClosedWell
<1>3. CASE ~ClosedWell(c)
  BY <1>1, <1>3, RefusedCalls DEF Close
<1> QED
  BY <1>2, <1>3

LEMMA NextCalls == ASSUME Serving, Calls, NEW c \in Callers, AskAgain(c) \/ Challenge(c) \/ Enroll(c)
                   PROVE  Calls'
<1>1. UNCHANGED work /\ call[c] \in Call /\ Refusal \in Reply
  BY DEF AskAgain, Challenge, Enroll, server, Calls, Reply
<1>2. CASE AskAgain(c)
  BY <1>1, <1>2, RenewedCalls DEF AskAgain
<1>3. CASE Challenge(c)
  <2>1. call[c].reply \in Reply
    BY <1>1 DEF Call
  <2>2. call[c].n = 1
    BY <1>3 DEF Challenge
  <2>3. CASE Accepted(call[c].reply)
    BY <1>1, <1>3, <2>1, <2>2, <2>3, RenewedCalls DEF Challenge
  <2>4. CASE ~Accepted(call[c].reply)
    BY <1>1, <1>3, <2>2, <2>4, GivenUpCalls DEF Challenge
  <2> QED
    BY <2>3, <2>4
<1>4. CASE Enroll(c)
  BY <1>1, <1>4, NoCallChanges DEF Enroll
<1> QED
  BY <1>2, <1>3, <1>4

\* The end of an operation, whose answer goes to the call that waits for it.
LEMMA EndingCalls == ASSUME Serving, Calls, NEW r \in Requests, NEW reply \in Reply, Ending(r, reply)
                     PROVE  Calls'
<1>1. Keeps /\ work'[r].step = "answered" /\ work[r].step \notin Still
  BY EndingKeeps DEF Ending, Working, Still
<1>2. Replied(r, reply)
  BY DEF Ending, Answer
<1>3. CASE ~ \E c \in Callers : r = Current(c) /\ call[c].at \in {"child", "open"}
  BY <1>1, <1>2, <1>3, NoCallChanges DEF Replied, Keeps
<1>4. ASSUME NEW c \in Callers, r = Current(c), call[c].at \in {"child", "open"}
      PROVE  Calls'
  <2>1. r[1] = c /\ call[c] \in Call /\ r = <<c, call[c].n>>
    BY <1>4 DEF Current, Calls
  <2>2. PICK parts \in 1..MaxParts : call' = [call EXCEPT ![c] = [@ EXCEPT !.reply = reply, !.parts = parts]]
    <3>1. \E d \in Callers : r = Current(d) /\ call[d].at \in {"child", "open"}
      BY <1>4
    <3>2. \A d \in (IF reply.kind = "evidence" THEN 1..MaxParts ELSE {1}) : d \in 1..MaxParts
      BY CallsAssumption
    <3>3. PICK d \in (IF reply.kind = "evidence" THEN 1..MaxParts ELSE {1}) :
            call' = [call EXCEPT ![r[1]] = [@ EXCEPT !.reply = reply, !.parts = d]]
      BY <1>2, <3>1 DEF Replied
    <3> QED
      BY <2>1, <3>2, <3>3
  <2> DEFINE y == [call[c] EXCEPT !.reply = reply, !.parts = parts]
  <2>3. parts \in 0..MaxParts /\ parts >= 1
    BY CallsAssumption
  <2>4. y \in Call
    BY <2>1, <2>3, Zenon DEF Call
  <2>5. y.at = call[c].at /\ y.n = call[c].n /\ y.size = call[c].size /\ y.parts = parts
    BY <2>1 DEF Call
  <2>6. call[c].size = 0
    BY <1>1, <2>1 DEF Calls, Fits, Current, Call, Still
  <2>7. call' = [call EXCEPT ![c] = y]
    BY <2>2
  <2> HIDE DEF y
  <2>8. Fits(y, work'[<<c, y.n>>].step)
    BY <1>1, <1>4, <2>1, <2>3, <2>5, <2>6, CallsAssumption DEF Fits
  <2>9. y.n = 1 => work'[<<c, 2>>].step = "none"
    <3>1. <<c, 2>> \in Requests
      BY DEF Requests
    <3>2. y.n = 1 => work[<<c, 2>>].step = "none"
      BY <2>5 DEF Calls
    <3> QED
      BY <1>1, <3>1, <3>2 DEF Keeps, Still
  <2>10. \A q \in Requests : q[1] # c /\ work[q].step \in Still => work'[q].step = work[q].step
    BY <1>1 DEF Keeps
  <2> QED
    BY <2>4, <2>7, <2>8, <2>9, <2>10, OneCallChanges DEF y
<1> QED
  BY <1>3, <1>4

-----------------------------------------------------------------------------
(* Answers                                                                 *)

LEMMA Operations == ASSUME Keyed, NEW r \in Requests
                    PROVE  /\ Operation(r) \in {"check", "enroll", "activate"}
                           /\ Operation(r) = "enroll" => r[1] \in Callers /\ wants[r[1]] = "enroll" /\ r[2] = 1
                           /\ Operation(r) = "activate" => r[1] \in Callers /\ wants[r[1]] = "enroll" /\ r[2] = 2
                           /\ r[1] \in Callers => r[1] \notin Strays
                           /\ r[1] \in Callers /\ wants[r[1]] = "enroll" => Operation(r) # "check"
<1>1. (r[1] \in Callers /\ r[1] \notin Strays /\ r[2] \in 1..2) \/ (r[1] \in Strays /\ r[1] \notin Callers)
  BY NamesAssumption DEF Requests
<1>2. r[1] \in Callers => wants[r[1]] \in {"check", "enroll"}
  BY DEF Keyed
<1> QED
  BY <1>1, <1>2 DEF Operation

LEMMA RefusalSound == ASSUME NEW r PROVE Sound(r, Refusal)
BY DEF Sound, Refusal, Reply

LEMMA EnrollmentSound ==
    ASSUME NEW r, Operation(r) = "enroll", NEW key \in Keys \cup {Soft}, NEW area \in Keys \cup {Soft},
           NEW restricted \in BOOLEAN, NEW ek \in Eks, honest /\ via = "kubernetes" => key = area
    PROVE  Sound(r, Offer(key, area, restricted, ek))
<1> DEFINE e == Offer(key, area, restricted, ek)
<1>1. e \in Enrollment
  BY Zenon DEF Enrollment, Offer
<1>2. e.key = key /\ e.area = area /\ e.kind = "enrollment"
  BY DEF Offer
<1> HIDE DEF e
<1>3. Sound(r, e)
  BY <1>1, <1>2 DEF Sound, Reply
<1> QED
  BY <1>3 DEF e

LEMMA AttestSteps == ASSUME Serving, Calls, Keyed, Meant, NEW r \in Requests, Works(r) \/ OperationFails(r), UNCHANGED setting
                     PROVE  \/ Progress(r)
                            \/ /\ \E reply \in Reply : Ending(r, reply) /\ Sound(r, reply)
                               /\ \/ UNCHANGED <<ak, made>>
                                  \/ ~honest /\ ak' \in Keys /\ made \subseteq made' /\ made' = {ak'}
<1>1. CASE OperationFails(r)
  <2>1. Ending(r, Refusal) /\ UNCHANGED <<ak, made>>
    BY <1>1 DEF OperationFails, Ending, Working
  <2> QED
    BY <2>1, RefusalSound DEF Sound
<1>2. CASE work[r].step = "run" /\ Check(r)
  <2> DEFINE reply == [kind |-> "evidence"]
  <2>1. Ending(r, reply) /\ UNCHANGED <<ak, made>> /\ Operation(r) = "check"
    BY <1>2 DEF Check, Ending, Working
  <2>2. reply \in Reply /\ reply.kind = "evidence"
    BY DEF Reply
  <2>3. Sound(r, reply)
    BY <2>1, <2>2 DEF Sound
  <2> QED
    BY <2>1, <2>2, <2>3
<1>3. CASE GetKey(r) \/ CreateKey(r)
  BY <1>3 DEF Progress, setting
<1>4. CASE ReadArea(r)
  <2>1. work[r].step = "area" /\ Operation(r) = "enroll" /\ UNCHANGED <<ak, made>>
    BY <1>4 DEF ReadArea, Keyed
  <2>2. work[r].key \in Keys /\ ak \in Keys /\ (honest /\ via = "kubernetes" => work[r].key = ak)
    BY <2>1 DEF Keyed, Serving, Typed
  <2>3. PICK ek \in {"certified", "uncertified"} :
            Answer(r, Offer(work[r].key, ak, TRUE, ek))
    BY <1>4 DEF ReadArea
  <2> DEFINE reply == Offer(work[r].key, ak, TRUE, ek)
  <2>4. ek \in Eks /\ TRUE \in BOOLEAN
    BY DEF Eks
  <2>5. Sound(r, reply)
    BY <2>1, <2>2, <2>4, EnrollmentSound
  <2>6. Ending(r, reply)
    BY <2>1, <2>3 DEF Ending, Working
  <2> QED
    BY <2>1, <2>5, <2>6 DEF Sound
<1>5. CASE Activate(r)
  <2> DEFINE offered == call[r[1]].about
             reply == IF offered.area = ak /\ offered.ek # "forged" THEN [kind |-> "secret"] ELSE Refusal
  <2>1. Operation(r) = "activate" /\ work[r].step = "run" /\ Answer(r, reply) /\ UNCHANGED <<ak, made>>
    BY <1>5 DEF Activate
  <2>2. r[1] \in Callers /\ wants[r[1]] = "enroll" /\ r[2] = 2
    BY <2>1, Operations
  <2>3. ASSUME r = Current(r[1]), offered.area = ak PROVE ak \in made
    <3>1. call[r[1]].n = 2
      BY <2>2, <2>3 DEF Current
    <3>2. offered \in Enrollment
      BY <2>2, <3>1 DEF Meant, Meaning
    <3>3. ak # None
      BY <2>3, <3>2, NamesAssumption DEF Enrollment, None, Soft
    <3> QED
      BY <3>3 DEF Keyed
  <2>4. reply \in {Refusal, Secret} /\ (reply # Refusal => offered.area = ak)
    BY DEF Secret
  <2>5. reply \in Reply
    BY <2>4 DEF Reply, Secret
  <2> HIDE DEF reply
  <2>6. Sound(r, reply)
    BY <2>1, <2>3, <2>4, <2>5 DEF Sound
  <2>7. Ending(r, reply)
    BY <2>1 DEF Ending, Working
  <2> QED
    BY <2>1, <2>5, <2>6, <2>7
<1>6. CASE Lie(r)
  <2>1. ~honest /\ Operation(r) = "enroll" /\ work[r].step = "run"
    BY <1>6 DEF Lie
  <2>2. ak' \in Keys /\ made \subseteq made' /\ made' = {ak'}
    BY <1>6 DEF Lie
  <2>3. PICK e \in {Offer(ak', ak', TRUE, "certified"), Offer(ak', ak', FALSE, "certified"),
                    Offer(ak', ak', TRUE, "uncertified"), Offer(ak', ak', TRUE, "forged"),
                    Offer(Soft, ak', TRUE, "certified"), Offer(ak', Soft, TRUE, "certified"),
                    Offer(Soft, Soft, TRUE, "certified")} : Answer(r, e)
    BY <1>6 DEF Lie
  <2>4. \E key, area \in Keys \cup {Soft}, restricted \in BOOLEAN, ek \in Eks : e = Offer(key, area, restricted, ek)
    <3>1. {ak', Soft} \subseteq Keys \cup {Soft} /\ {"certified", "uncertified", "forged"} \subseteq Eks /\ {TRUE, FALSE} \subseteq BOOLEAN
      BY <2>2 DEF Eks
    <3> QED
      BY <3>1, <2>3
  <2>5. Sound(r, e)
    BY <2>1, <2>4, EnrollmentSound
  <2>6. Ending(r, e)
    BY <2>1, <2>3 DEF Ending, Working
  <2> QED
    BY <2>1, <2>2, <2>5, <2>6 DEF Sound
<1> QED
  BY <1>1, <1>2, <1>3, <1>4, <1>5, <1>6 DEF Works

-----------------------------------------------------------------------------
(* Keys                                                                    *)

LEMMA KeyedArrival == ASSUME Serving, Keyed, NEW r \in Requests, Arrival(r), UNCHANGED setting
                      PROVE  Keyed'
<1>1. \A q \in Requests : q # r => work'[q] = work[q]
  BY ArrivalKeeps
<1>2. work'[r].step \in {"run", "wait", "refused"}
  <2>1. \A s : Step(r, s) => work'[r].step = s
    BY DEF Serving, Typed, Step, Work
  <2> QED
    BY <2>1 DEF Arrival, Arrive
<1>3. UNCHANGED <<ak, made, via, honest, wants>>
  BY DEF Arrival, setting
<1> QED
  BY <1>1, <1>2, <1>3 DEF Keyed, Operation

LEMMA KeyedProgress == ASSUME Serving, Keyed, NEW r \in Requests, Progress(r), UNCHANGED setting
                       PROVE  Keyed'
<1>1. UNCHANGED <<via, honest, wants>> /\ work[r] \in Work
  BY DEF setting, Serving, Typed
<1>2. CASE Step(r, "create") /\ GetKey(r)
  <2>1. work'[r].step = "create" /\ \A q \in Requests : q # r => work'[q] = work[q]
    BY <1>1, <1>2 DEF Step, Serving, Typed, Work
  <2>2. Operation(r) = "enroll" /\ UNCHANGED <<ak, made>>
    BY <1>2 DEF GetKey
  <2> QED
    BY <1>1, <2>1, <2>2 DEF Keyed, Operation
<1>3. CASE GetKey(r) /\ ak # None /\ work' = [work EXCEPT ![r] = [step |-> "area", key |-> ak]]
  <2>1. /\ work'[r].step = "area" /\ work'[r].key = ak /\ ak \in Keys
        /\ \A q \in Requests : q # r => work'[q] = work[q]
    BY <1>3 DEF Serving, Typed
  <2>2. Operation(r) = "enroll" /\ UNCHANGED <<ak, made>>
    BY <1>3 DEF GetKey
  <2> QED
    BY <1>1, <1>3, <2>1, <2>2 DEF Keyed, Operation
<1>4. CASE CreateKey(r)
  <2>1. PICK k \in Keys \ made : /\ ak' = k /\ made' = made \cup {k}
                                 /\ work' = [work EXCEPT ![r] = [step |-> "area", key |-> k]]
    BY <1>4 DEF CreateKey
  <2>2. /\ work'[r].step = "area" /\ work'[r].key = k
        /\ \A q \in Requests : q # r => work'[q] = work[q]
    BY <2>1 DEF Serving, Typed
  <2>3. Operation(r) = "enroll" /\ k # None
    BY <1>4, NamesAssumption DEF CreateKey, Keyed
  <2>4. via = "kubernetes" => \A q \in Requests : work[q].step = "area" => q = r
    BY <1>4 DEF CreateKey, Serving, Turns, Working
  <2> QED
    BY <1>1, <2>1, <2>2, <2>3, <2>4 DEF Keyed, Operation
<1> QED
  BY <1>2, <1>3, <1>4 DEF Progress, GetKey

LEMMA KeyedEnding == ASSUME Serving, Keyed, NEW r \in Requests, NEW reply, Ending(r, reply), UNCHANGED setting,
                            \/ UNCHANGED <<ak, made>>
                            \/ ~honest /\ ak' \in Keys /\ made \subseteq made' /\ made' = {ak'}
                     PROVE  Keyed'
<1>1. UNCHANGED <<via, honest, wants>>
  BY DEF setting
<1> DEFINE answered == [work EXCEPT ![r] = [NoWork EXCEPT !.step = "answered"]]
<1>2. [NoWork EXCEPT !.step = "answered"].step = "answered"
  BY DEF NoWork
<1>3. answered[r].step = "answered" /\ \A q \in Requests : q # r => answered[q] = work[q]
  BY <1>2 DEF Serving, Typed
<1>4. \A q \in Requests : work'[q] = answered[q] \/ (work[q].step = "wait" /\ work'[q] = [work[q] EXCEPT !.step = "run"])
  BY DEF Serving, Typed, Ending, Answer
<1> HIDE DEF answered
<1>5. \A q \in Requests : work[q] \in Work
  BY DEF Serving, Typed
<1>6. \A q \in Requests : work'[q].step \in {"create", "area"} => work'[q] = work[q]
  BY <1>3, <1>4, <1>5 DEF Work
<1>7. UNCHANGED <<ak, made>> \/ (~honest /\ ak' # None /\ ak' \in made')
  BY NamesAssumption
<1> QED
  BY <1>1, <1>6, <1>7 DEF Keyed, Operation

LEMMA KeyedRestart == ASSUME Serving, Keyed, Restart
                      PROVE  Keyed'
<1>1. UNCHANGED <<via, honest, wants, ak, made>>
  BY DEF Restart, setting
<1>2. \A q \in Requests : work[q] \in Work
  BY DEF Serving, Typed
<1>3. \A q \in Requests : work'[q] = work[q] \/ work'[q] = [work[q] EXCEPT !.step = "lost"]
  BY DEF Restart
<1>4. \A q \in Requests : work'[q].step \in {"create", "area"} => work'[q] = work[q]
  BY <1>2, <1>3 DEF Work
<1> QED
  BY <1>1, <1>4 DEF Keyed, Operation

LEMMA KeyedQuiet == ASSUME Keyed, UNCHANGED <<server, setting>>
                    PROVE  Keyed'
<1>1. UNCHANGED <<via, honest, wants, ak, made, work>>
  BY DEF server, setting
<1> QED
  BY <1>1 DEF Keyed, Operation

-----------------------------------------------------------------------------
(* What callers know                                                       *)

\* A caller's call goes on, is answered or settles: it is about what it was.
Moves(c, y) ==
    /\ call' = [call EXCEPT ![c] = y]
    /\ y.n = call[c].n /\ y.about = call[c].about /\ y.reply \in {Refusal, call[c].reply}
    /\ temp' \subseteq temp \cup {c} /\ forwards' \subseteq forwards \cup {c}
    /\ y.at = "settled" => c \notin temp' \cup forwards'

LEMMA SettlesMoves == ASSUME Calls, NEW c \in Callers, NEW reply \in {Refusal, call[c].reply}, Settles(c, reply)
                      PROVE  \E y : Moves(c, y)
<1> DEFINE x == call[c]
           y == Settled(x, reply)
<1>1. x \in Call
  BY DEF Calls
<1>2. CASE reply = Refusal
  <2>1. y.n = x.n /\ y.about = x.about /\ y.reply = Refusal
    BY <1>1, <1>2, RefusedFits
  <2>2. Moves(c, y)
    BY <2>1 DEF Moves, Settles, Cleaned
  <2> QED
    BY <2>2
<1>3. CASE reply # Refusal
  <2>1. y = [x EXCEPT !.at = "settled", !.code = 0]
    BY <1>3 DEF Settled
  <2>2. y.n = x.n /\ y.about = x.about /\ y.reply = x.reply
    BY <1>1, <2>1 DEF Call
  <2>3. Moves(c, y)
    BY <2>2 DEF Moves, Settles, Cleaned
  <2> QED
    BY <2>3
<1> QED
  BY <1>2, <1>3

Calling(c) == PrepareFiles(c) \/ Exits(c) \/ ReadPart(c) \/ Timer(c) \/ Close(c)
              \/ Forward(c) \/ ForwardStarts(c) \/ Response(c)

LEMMA CallingMoves == ASSUME Calls, NEW c \in Callers, Calling(c)
                      PROVE  \E y : Moves(c, y)
<1> DEFINE x == call[c]
<1>1. x \in Call
  BY DEF Calls
<1>2. \A at \in At \ {"settled"} :
          LET y == [x EXCEPT !.at = at]
          IN  y.at # "settled" /\ y.n = x.n /\ y.about = x.about /\ y.reply = x.reply
  BY <1>1 DEF Call
<1>3. Settles(c, Refusal) => \E y : Moves(c, y)
  BY SettlesMoves
<1>4. CASE PrepareFiles(c)
  <2>1. CASE (\E private \in BOOLEAN : temp' = IF private THEN temp \cup {c} ELSE temp) /\ call' = [call EXCEPT ![c].at = "child"]
             /\ UNCHANGED forwards
    <3>1. Moves(c, [x EXCEPT !.at = "child"])
      BY <1>2, <2>1 DEF Moves, At
    <3> QED
      BY <3>1
  <2> QED
    BY <1>3, <1>4, <2>1 DEF PrepareFiles
<1>5. CASE Exits(c)
  <2>1. UNCHANGED <<temp, forwards>>
    BY <1>5 DEF Exits
  <2>2. \A code : LET y == [x EXCEPT !.at = "exited", !.code = code]
                  IN  y.at # "settled" /\ y.n = x.n /\ y.about = x.about /\ y.reply = x.reply
    BY <1>1 DEF Call
  <2>3. CASE call' = [call EXCEPT ![c] = [@ EXCEPT !.at = "exited", !.code = IF call[c].reply = Refusal THEN 1 ELSE 0]]
    <3>1. Moves(c, [x EXCEPT !.at = "exited", !.code = IF call[c].reply = Refusal THEN 1 ELSE 0])
      BY <2>1, <2>2, <2>3 DEF Moves
    <3> QED
      BY <3>1
  <2>4. CASE call' = [call EXCEPT ![c].at = "exited"]
    <3>1. Moves(c, [x EXCEPT !.at = "exited"])
      BY <1>2, <2>1, <2>4 DEF Moves, At
    <3> QED
      BY <3>1
  <2> QED
    BY <1>5, <2>3, <2>4 DEF Exits
<1>6. CASE ReadPart(c)
  <2> DEFINE y == [x EXCEPT !.size = x.size + 1, !.at = IF x.size < MaxOutput THEN x.at ELSE "exited"]
  <2>1. y.at # "settled" /\ y.n = x.n /\ y.about = x.about /\ y.reply = x.reply
    BY <1>1, <1>6 DEF Call, ReadPart
  <2>2. Moves(c, y)
    BY <1>6, <2>1 DEF Moves, ReadPart
  <2> QED
    BY <2>2
<1>7. CASE Timer(c)
  <2> DEFINE y == [x EXCEPT !.timedOut = TRUE, !.at = "exited"]
  <2>1. y.at # "settled" /\ y.n = x.n /\ y.about = x.about /\ y.reply = x.reply
    BY <1>1 DEF Call
  <2>2. call' = [call EXCEPT ![c] = y] /\ UNCHANGED <<temp, forwards>>
    BY <1>7 DEF Timer, TimesOut
  <2> HIDE DEF y
  <2>3. Moves(c, y)
    BY <2>1, <2>2 DEF Moves
  <2> QED
    BY <2>3
<1>8. CASE Close(c)
  BY <1>8, SettlesMoves DEF Close
<1>9. CASE Forward(c)
  <2>1. CASE forwards' = forwards \cup {c} /\ call' = [call EXCEPT ![c].at = "forward"] /\ UNCHANGED temp
    <3>1. Moves(c, [x EXCEPT !.at = "forward"])
      BY <1>2, <2>1 DEF Moves, At
    <3> QED
      BY <3>1
  <2> QED
    BY <1>3, <1>9, <2>1 DEF Forward
<1>10. CASE ForwardStarts(c)
  <2>1. CASE call' = [call EXCEPT ![c].at = "open"] /\ UNCHANGED <<temp, forwards>>
    <3>1. Moves(c, [x EXCEPT !.at = "open"])
      BY <1>2, <2>1 DEF Moves, At
    <3> QED
      BY <3>1
  <2> QED
    BY <1>3, <1>10, <2>1 DEF ForwardStarts
<1>11. CASE Response(c)
  <2>1. CASE call' = [call EXCEPT ![c].size = @ + 1] /\ UNCHANGED <<temp, forwards>>
    <3> DEFINE y == [x EXCEPT !.size = x.size + 1]
    <3>1. y.at = x.at /\ y.n = x.n /\ y.about = x.about /\ y.reply = x.reply
      BY <1>1 DEF Call
    <3>2. x.at = "open"
      BY <1>11 DEF Response
    <3>3. Moves(c, y)
      BY <2>1, <3>1, <3>2 DEF Moves
    <3> QED
      BY <3>3
  <2>2. CASE Settles(c, call[c].reply)
    BY <2>2, SettlesMoves
  <2> QED
    BY <1>3, <1>11, <2>1, <2>2 DEF Response
<1> QED
  BY <1>4, <1>5, <1>6, <1>7, <1>8, <1>9, <1>10, <1>11 DEF Calling

Told == Meant /\ Enrolls /\ Left

LEMMA MovesTold == ASSUME Calls, Told, NEW c \in Callers, \E y : Moves(c, y), UNCHANGED <<setting, made, enrolled>>
                   PROVE  Told'
<1>1. PICK y : Moves(c, y)
  OBVIOUS
<1>2. call'[c] = y /\ \A d \in Callers : d # c => call'[d] = call[d]
  BY <1>1 DEF Moves, Calls
<1>3. UNCHANGED <<wants, made, enrolled>>
  BY DEF setting
<1>4. \A d \in Callers : /\ call'[d].n = call[d].n /\ call'[d].about = call[d].about
                         /\ call'[d].reply \in {Refusal, call[d].reply}
  BY <1>1, <1>2 DEF Moves
<1>5. Meant'
  <2> SUFFICES ASSUME NEW d \in Callers PROVE Meaning(call[d], wants[d])'
    BY DEF Meant
  <2>1. Meaning(call[d], wants[d])
    BY DEF Told, Meant
  <2>2. call'[d].n = call[d].n /\ call'[d].about = call[d].about /\ call'[d].reply \in {Refusal, call[d].reply}
    BY <1>4
  <2>3. Refusal.kind # "enrollment"
    BY DEF Refusal
  <2> QED
    BY <1>3, <2>1, <2>2, <2>3 DEF Meaning, setting
<1>6. Enrolls'
  BY <1>3, <1>4 DEF Told, Enrolls
<1>7. Left'
  BY <1>1, <1>2 DEF Told, Left, Moves
<1> QED
  BY <1>5, <1>6, <1>7 DEF Told

LEMMA NextTold == ASSUME Calls, Keyed, Told, NEW c \in Callers, AskAgain(c) \/ Challenge(c) \/ Enroll(c)
                  PROVE  Told'
<1>1. UNCHANGED <<setting, temp, forwards, made, ak>> /\ UNCHANGED <<via, honest, lenient, wants>>
  BY DEF AskAgain, Challenge, Enroll, server, setting
<1>2. call[c] \in Call /\ wants[c] \in {"check", "enroll"} /\ Refusal.kind # "enrollment" /\ Refusal \in Reply
  BY DEF Calls, Keyed, Refusal, Reply
<1>3. CASE AskAgain(c)
  <2> DEFINE y == NewCall(2, Refusal)
  <2>1. y.reply = Refusal /\ y.at = "idle"
    BY <1>2, NewCallFits
  <2>2. call' = [call EXCEPT ![c] = y] /\ wants[c] = "check" /\ call[c].n = 1 /\ UNCHANGED enrolled
    BY <1>3 DEF AskAgain
  <2> HIDE DEF y
  <2>3. call'[c] = y /\ \A d \in Callers : d # c => call'[d] = call[d]
    BY <2>2 DEF Calls
  <2>4. Meaning(y, wants[c])'
    BY <1>1, <1>2, <2>1, <2>2 DEF Meaning
  <2>5. Meant'
    BY <1>1, <2>3, <2>4 DEF Told, Meant, Meaning
  <2>6. Enrolls'
    BY <1>1, <2>2, <2>3 DEF Told, Enrolls
  <2>7. Left'
    BY <1>1, <2>1, <2>3 DEF Told, Left
  <2> QED
    BY <2>5, <2>6, <2>7 DEF Told
<1>4. CASE Challenge(c)
  <2>1. /\ wants[c] = "enroll" /\ call[c].n = 1 /\ call[c].at = "settled" /\ call[c].code = 0 /\ UNCHANGED enrolled
        /\ call' = [call EXCEPT ![c] = IF Accepted(call[c].reply) THEN NewCall(2, call[c].reply)
                                       ELSE [NewCall(1, Refusal) EXCEPT !.at = "settled"]]
    BY <1>4 DEF Challenge, Succeeded
  <2>2. call[c].reply \in Enrollment
    BY <2>1 DEF Told, Meant, Meaning, Calls, Fits
  <2>3. enrolled[c] = None /\ c \notin temp \cup forwards
    BY <2>1 DEF Told, Enrolls, Left
  <2>4. PICK y : /\ call' = [call EXCEPT ![c] = y] /\ y.reply = Refusal
                 /\ \/ y.n = 1
                    \/ y.n = 2 /\ y.about = call[c].reply /\ Accepted(call[c].reply)
    <3>1. CASE Accepted(call[c].reply)
      <4> DEFINE y == NewCall(2, call[c].reply)
      <4>1. y.reply = Refusal /\ y.n = 2 /\ y.about = call[c].reply
        BY DEF NewCall
      <4> HIDE DEF y
      <4> QED
        BY <2>1, <3>1, <4>1 DEF y
    <3>2. CASE ~Accepted(call[c].reply)
      <4> DEFINE y == [NewCall(1, Refusal) EXCEPT !.at = "settled"]
      <4>1. y.reply = Refusal /\ y.n = 1
        BY DEF NewCall
      <4>2. call' = [call EXCEPT ![c] = y]
        BY <2>1, <3>2
      <4> HIDE DEF y
      <4> QED
        BY <4>1, <4>2
    <3> QED
      BY <3>1, <3>2
  <2>5. call'[c] = y /\ \A d \in Callers : d # c => call'[d] = call[d]
    BY <2>4 DEF Calls
  <2>6. Meaning(call[c], wants[c])'
    <3>1. call'[c] = y /\ wants'[c] = "enroll" /\ y.reply = Refusal
      BY <1>1, <2>1, <2>4, <2>5
    <3>2. y.n = 2 => /\ y.about \in Enrollment /\ y.about.key = y.about.area
                     /\ (y.about.ek = "certified" \/ lenient')
      BY <1>1, <2>2, <2>4 DEF Accepted
    <3> QED
      BY <1>2, <3>1, <3>2 DEF Meaning
  <2>7. Meant'
    BY <1>1, <2>5, <2>6 DEF Told, Meant, Meaning
  <2>8. Enrolls'
    BY <1>1, <2>1, <2>3, <2>5 DEF Told, Enrolls
  <2>9. Left'
    BY <1>1, <2>3, <2>5 DEF Told, Left
  <2> QED
    BY <2>7, <2>8, <2>9 DEF Told
<1>5. CASE Enroll(c)
  <2>1. /\ wants[c] = "enroll" /\ call[c].n = 2 /\ call[c].at = "settled" /\ call[c].code = 0 /\ UNCHANGED call
        /\ enrolled' = [enrolled EXCEPT ![c] = call[c].about.key]
    BY <1>5 DEF Enroll, Succeeded
  <2>2. call[c].reply # Refusal
    BY <2>1 DEF Calls, Fits
  <2>3. call[c].about \in Enrollment /\ call[c].about.key = call[c].about.area /\ call[c].about.area \in made
    BY <2>1, <2>2 DEF Told, Meant, Meaning
  <2>4. call[c].about.key \in Keys \cup {None, Soft}
    BY <2>3 DEF Enrollment
  <2>5. Meant'
    BY <1>1, <2>1 DEF Told, Meant, Meaning
  <2>6. Enrolls'
    BY <1>1, <2>1, <2>3, <2>4 DEF Told, Enrolls
  <2>7. Left'
    BY <1>1, <2>1 DEF Told, Left
  <2> QED
    BY <2>5, <2>6, <2>7 DEF Told
<1> QED
  BY <1>3, <1>4, <1>5

LEMMA EndingTold == ASSUME Serving, Calls, Keyed, Told, NEW r \in Requests, NEW reply \in Reply, Ending(r, reply), Sound(r, reply),
                           made \subseteq made', UNCHANGED <<setting, temp, forwards, enrolled>>
                    PROVE  Told'
<1>1. UNCHANGED <<via, honest, lenient, wants>>
  BY DEF setting
<1>2. Replied(r, reply)
  BY DEF Ending, Answer
<1>3. ASSUME UNCHANGED call PROVE Told'
  BY <1>1, <1>3 DEF Told, Meant, Meaning, Enrolls, Left
<1>4. ASSUME NEW c \in Callers, r = Current(c), call[c].at \in {"child", "open"}
      PROVE  Told'
  <2>1. r[1] = c /\ r[2] = call[c].n /\ call[c] \in Call
    BY <1>4 DEF Current, Calls
  <2>2. PICK parts : call' = [call EXCEPT ![c] = [@ EXCEPT !.reply = reply, !.parts = parts]]
    <3>1. \E d \in Callers : r = Current(d) /\ call[d].at \in {"child", "open"}
      BY <1>4
    <3>2. PICK d \in (IF reply.kind = "evidence" THEN 1..MaxParts ELSE {1}) :
            call' = [call EXCEPT ![r[1]] = [@ EXCEPT !.reply = reply, !.parts = d]]
      BY <1>2, <3>1 DEF Replied
    <3> QED
      BY <2>1, <3>2
  <2> DEFINE y == [call[c] EXCEPT !.reply = reply, !.parts = parts]
  <2>3. y.at = call[c].at /\ y.n = call[c].n /\ y.about = call[c].about /\ y.reply = reply
    BY <2>1 DEF Call
  <2>4. call' = [call EXCEPT ![c] = y]
    BY <2>2
  <2> HIDE DEF y
  <2>5. call'[c] = y /\ \A d \in Callers : d # c => call'[d] = call[d]
    BY <2>4 DEF Calls
  <2>6. /\ Operation(r) \in {"check", "enroll", "activate"}
        /\ Operation(r) = "enroll" => wants[c] = "enroll" /\ call[c].n = 1
        /\ Operation(r) = "activate" => wants[c] = "enroll" /\ call[c].n = 2
        /\ wants[c] = "enroll" => Operation(r) # "check"
    BY <2>1, Operations
  <2>7. Meaning(call[c], wants[c])
    BY DEF Told, Meant
  <2>8. ~ (reply.kind = "enrollment" /\ reply \in {Refusal, Secret})
    BY DEF Refusal, Secret
  <2>9. Meaning(call[c], wants[c])'
    BY <1>1, <1>4, <2>1, <2>3, <2>5, <2>6, <2>7, <2>8 DEF Meaning, Sound
  <2>10. Meant'
    BY <1>1, <2>5, <2>9 DEF Told, Meant, Meaning
  <2>11. Enrolls'
    BY <1>1, <2>3, <2>5 DEF Told, Enrolls
  <2>12. Left'
    BY <1>4, <2>3, <2>5 DEF Told, Left
  <2> QED
    BY <2>10, <2>11, <2>12 DEF Told
<1> QED
  BY <1>2, <1>3, <1>4 DEF Replied

-----------------------------------------------------------------------------
(* The whole                                                               *)

Inv == Serving /\ Calls /\ Keyed /\ Told

LEMMA InvInit == Init => Inv
<1> SUFFICES ASSUME Init PROVE Inv
  OBVIOUS
<1>1. Serving
  BY ServingInit
<1>2. Refusal \in Reply
  BY DEF Reply
<1>3. \A c \in Callers : call[c] = NewCall(1, Refusal)
  BY DEF Init
<1>4. Calls
  <2>1. \A r \in Requests : work[r].step = "none"
    BY DEF Init, NoWork
  <2>2. \A c \in Callers : Current(c) \in Requests /\ <<c, 2>> \in Requests
    BY <1>2, <1>3, NewCallFits DEF Current, Requests
  <2> QED
    <3>1. \A c \in Callers : call[c] \in Call /\ Fits(call[c], "none")
      BY <1>2, <1>3, NewCallFits
    <3>2. call = [c \in Callers |-> NewCall(1, Refusal)]
      BY DEF Init
    <3>3. call \in [Callers -> Call]
      BY <3>1, <3>2
    <3>4. \A c \in Callers : Fits(call[c], work[Current(c)].step)
      BY <2>1, <2>2, <3>1
    <3> QED
      BY <2>1, <2>2, <3>3, <3>4 DEF Calls
<1>5. Keyed
  BY CallsAssumption DEF Init, Keyed, NoWork
<1>6. Told
  <2>1. \A c \in Callers : call[c].n = 1 /\ call[c].reply = Refusal /\ call[c].at = "idle" /\ Refusal.kind = "error"
    BY <1>2, <1>3, NewCallFits DEF Refusal
  <2> QED
    BY <2>1 DEF Told, Meant, Meaning, Enrolls, Left, Init
<1> QED
  BY <1>1, <1>4, <1>5, <1>6 DEF Inv

LEMMA InvArrival == ASSUME Inv, NEW r \in Requests, Arrival(r), UNCHANGED setting, Calls', Told'
                    PROVE  Inv'
BY ArrivalServes, KeyedArrival DEF Inv, setting

LEMMA InvQuiet == ASSUME Inv, UNCHANGED <<server, setting>>, Calls', Told'
                  PROVE  Inv'
<1>1. UNCHANGED <<via, work, queue, pending, ak, made>>
  BY DEF server, setting
<1>2. Serving'
  BY <1>1 DEF Inv, Serving, Typed, Turns
<1> QED
  BY <1>2, KeyedQuiet DEF Inv

LEMMA InvNext == Inv /\ [Next]_vars => Inv'
<1> SUFFICES ASSUME Inv, [Next]_vars PROVE Inv'
  OBVIOUS
<1> USE DEF Inv
<1>1. ASSUME NEW c \in Callers, PrepareFiles(c) \/ Exits(c) \/ ReadPart(c) \/ Timer(c) \/ Close(c) \/ Forward(c) \/ Response(c)
      PROVE  Inv'
  <2>1. UNCHANGED <<server, setting>> /\ UNCHANGED <<setting, made, enrolled>>
    BY <1>1 DEF PrepareFiles, Exits, ReadPart, Timer, Close, Forward, Response, server
  <2>2. Calls'
    BY <1>1, PrepareCalls, ExitsCalls, ReadCalls, TimerCalls, CloseCalls, ForwardCalls, ResponseCalls
  <2>3. \E y : Moves(c, y)
    BY <1>1, CallingMoves DEF Calling
  <2>4. Told'
    BY <2>1, <2>3, MovesTold
  <2> QED
    BY <2>1, <2>2, <2>4, InvQuiet
<1>2. ASSUME NEW c \in Callers, AskAgain(c) \/ Challenge(c) \/ Enroll(c)
      PROVE  Inv'
  <2>1. UNCHANGED <<server, setting>>
    BY <1>2 DEF AskAgain, Challenge, Enroll
  <2> QED
    BY <1>2, <2>1, NextCalls, NextTold, InvQuiet
<1>3. ASSUME NEW c \in Callers, ForwardStarts(c)
      PROVE  Inv'
  <2>1. UNCHANGED <<setting, enrolled>> /\ call[c].at = "forward"
    BY <1>3 DEF ForwardStarts
  <2>2. Current(c) \in Requests /\ work[Current(c)].step = "none"
    BY <2>1 DEF Calls, Call, Current, Requests, Fits
  <2>3. \E y : Moves(c, y)
    BY <1>3, CallingMoves DEF Calling
  <2>4. CASE /\ call' = [call EXCEPT ![c].at = "open"] /\ Arrive(Current(c)) /\ UNCHANGED <<ak, made>>
    <3>1. Arrival(Current(c))
      BY <2>2, <2>4 DEF Arrival
    <3>2. Calls'
      BY <2>1, <2>4, <3>1, OpenCalls
    <3>3. Told'
      BY <2>1, <2>3, <2>4, MovesTold
    <3> QED
      BY <2>1, <2>2, <3>1, <3>2, <3>3, InvArrival
  <2>5. CASE Settles(c, Refusal) /\ UNCHANGED server
    <3>1. Calls' /\ Told'
      BY <2>1, <2>3, <2>5, RefusedCalls, MovesTold DEF server
    <3> QED
      BY <2>1, <2>5, <3>1, InvQuiet
  <2> QED
    BY <1>3, <2>4, <2>5 DEF ForwardStarts
<1>4. ASSUME NEW c \in Callers, Connect(c)
      PROVE  Inv'
  <2>1. /\ Arrival(Current(c)) /\ call[c].at = "child"
        /\ UNCHANGED <<setting, call, temp, forwards, made, enrolled>>
    BY <1>4 DEF Connect, Arrival
  <2>2. Current(c) \in Requests
    BY DEF Calls, Call, Current, Requests
  <2>3. Calls'
    BY <2>1, ConnectCalls
  <2>4. Told'
    BY <2>1 DEF Told, Meant, Meaning, Enrolls, Left, setting
  <2> QED
    BY <2>1, <2>2, <2>3, <2>4, InvArrival
<1>5. ASSUME NEW s \in Strays, Stray(s)
      PROVE  Inv'
  <2> DEFINE r == <<s, 1>>
  <2>1. r \in Requests /\ Arrival(r) /\ UNCHANGED <<setting, call, temp, forwards, made, enrolled>>
    BY <1>5 DEF Stray, Arrival, Requests
  <2>2. \A q \in Requests : q[1] \in Callers => q # r
    BY NamesAssumption
  <2>3. \A q \in Requests : q # r => work'[q] = work[q]
    BY <2>1, ArrivalKeeps
  <2> HIDE DEF r
  <2>4. Calls'
    BY <2>1, <2>2, <2>3, NoCallChanges
  <2>5. Told'
    BY <2>1 DEF Told, Meant, Meaning, Enrolls, Left, setting
  <2> QED
    BY <2>1, <2>4, <2>5, InvArrival DEF r
<1>6. ASSUME NEW r \in Requests, Attest(r)
      PROVE  Inv'
  <2>1. /\ Works(r) \/ OperationFails(r)
        /\ UNCHANGED <<setting, temp, forwards, enrolled>> /\ UNCHANGED setting /\ UNCHANGED via
    BY <1>6 DEF Attest, setting
  <2>2. CASE Progress(r)
    <3>1. UNCHANGED call /\ made \subseteq made'
      BY <2>2 DEF Progress, GetKey, CreateKey
    <3>2. Calls'
      BY <2>2, <3>1, ProgressKeeps, NoCallChanges DEF Keeps
    <3>3. Meant'
      BY <2>1, <3>1 DEF Told, Meant, Meaning, setting
    <3>4. Enrolls' /\ Left'
      BY <2>1, <3>1 DEF Told, Enrolls, Left, setting
    <3> QED
      BY <2>1, <2>2, <3>2, <3>3, <3>4, ProgressServes, KeyedProgress DEF Told
  <2>3. CASE /\ \E reply \in Reply : Ending(r, reply) /\ Sound(r, reply)
             /\ \/ UNCHANGED <<ak, made>>
                \/ ~honest /\ ak' \in Keys /\ made \subseteq made' /\ made' = {ak'}
    <3>1. PICK reply \in Reply : Ending(r, reply) /\ Sound(r, reply)
      BY <2>3
    <3>2. ak' \in Keys \cup {None} /\ made' \in SUBSET Keys /\ made \subseteq made'
      BY <2>3 DEF Serving, Typed
    <3>3. Serving'
      BY <2>1, <3>1, <3>2, EndingServes
    <3>4. Calls'
      BY <3>1, EndingCalls
    <3>5. Keyed'
      BY <2>1, <2>3, <3>1, KeyedEnding
    <3>6. Told'
      BY <2>1, <3>1, <3>2, EndingTold
    <3> QED
      BY <3>3, <3>4, <3>5, <3>6
  <2>4. Meant
    BY DEF Told
  <2> QED
    BY <2>1, <2>2, <2>3, <2>4, AttestSteps
<1>7. CASE Restart
  <2>1. UNCHANGED <<setting, call, temp, forwards, made, enrolled>>
    BY <1>7 DEF Restart
  <2>2. Calls'
    BY <1>7, <2>1, RestartKeeps, NoCallChanges DEF Keeps
  <2>3. Told'
    BY <2>1 DEF Told, Meant, Meaning, Enrolls, Left, setting
  <2> QED
    BY <1>7, <2>2, <2>3, RestartServes, KeyedRestart
<1>8. CASE UNCHANGED vars
  <2>1. UNCHANGED <<server, setting>> /\ UNCHANGED <<call, work, temp, forwards, made, enrolled, via, honest, lenient, wants>>
    BY <1>8 DEF vars, server, setting
  <2>2. Calls'
    BY <2>1, NoCallChanges
  <2>3. Told'
    BY <2>1 DEF Told, Meant, Meaning, Enrolls, Left
  <2> QED
    BY <2>1, <2>2, <2>3, InvQuiet
<1> QED
  BY <1>1, <1>2, <1>3, <1>4, <1>5, <1>6, <1>7, <1>8 DEF Next, Client

LEMMA Invariant == Spec => []Inv
BY InvInit, InvNext, PTL DEF Spec

-----------------------------------------------------------------------------
(* Theorems                                                                *)

\* The calls, what they leave on disk and the attester's keys are always what
\* TypeOK says, and `serve' never holds more than MAX_PENDING requests
\* (remote.js:174-188).
THEOREM TypeCorrect == Spec => []TypeOK
<1>1. Inv => TypeOK
  <2> SUFFICES ASSUME Inv PROVE TypeOK
    OBVIOUS
  <2>1. \A c \in Callers : /\ call[c].at \in At /\ call[c].size \in 0..MaxParts
                           /\ call[c].reply \in Reply /\ call[c].about \in Reply
    BY DEF Inv, Calls, Call
  <2>2. pending \in 0..MaxPending
    BY CallsAssumption DEF Inv, Serving, Typed, Turns
  <2> QED
    BY <2>1, <2>2 DEF Inv, At, TypeOK, Serving, Typed, Told, Enrolls, Left
<1> QED
  BY <1>1, Invariant, PTL

\* However many requests arrive, end, fail and are lost with a restart, `serve'
\* counts exactly those it holds, and carries out one at a time
\* (remote.js:174-188).
THEOREM CounterIsQueue == Spec => []PendingIsQueue
<1>1. Inv => PendingIsQueue
  BY DEF Inv, Serving, Turns, PendingIsQueue
<1> QED
  BY <1>1, Invariant, PTL

\* Whichever of timeout, output limit, lost connection and close comes first, a
\* call that succeeded holds the whole answer to its own request, and one that
\* settled left nothing behind (ssh.js:138-182, kubernetes.js:212-244).
THEOREM CallsAreWhole == Spec => []CallsEndWhole
<1>1. Inv => CallsEndWhole
  <2> SUFFICES ASSUME Inv, NEW c \in Callers
               PROVE  /\ Succeeded(c) =>
                            /\ work[Current(c)].step = "answered" /\ call[c].size = call[c].parts
                            /\ call[c].parts \in 1..MaxOutput
                      /\ call[c].at = "settled" => c \notin temp \cup forwards
    BY DEF CallsEndWhole
  <2>1. call[c].parts \in 0..MaxParts /\ MaxParts \in Nat /\ MaxOutput \in Nat
    BY CallsAssumption DEF Inv, Calls, Call
  <2>2. Fits(call[c], work[Current(c)].step)
    BY DEF Inv, Calls
  <2> QED
    BY <2>1, <2>2 DEF Fits, Succeeded, Inv, Told, Left
<1> QED
  BY <1>1, Invariant, PTL

\* Whatever the server answers and however enrollments interleave, an enrolled
\* key was created by the TPM whose EK was accepted; and an honest `serve'
\* answers about one key (enroll.js:53-101, remote.js:62-78).
THEOREM EnrolledKeysAreTheTpms == Spec => []EnrolledIsInTpm
<1>1. Inv => EnrolledIsInTpm
  <2> SUFFICES ASSUME Inv, NEW c \in Callers
               PROVE  /\ enrolled[c] # None => enrolled[c] \in made /\ (call[c].about.ek = "certified" \/ lenient)
                      /\ (honest /\ via = "kubernetes" /\ call[c].reply.kind = "enrollment") => call[c].reply.key = call[c].reply.area
    BY DEF EnrolledIsInTpm
  <2>1. Meaning(call[c], wants[c])
    BY DEF Inv, Told, Meant
  <2>2. enrolled[c] # None => call[c].n = 2 /\ wants[c] = "enroll" /\ enrolled[c] \in made
    BY DEF Inv, Told, Enrolls
  <2> QED
    BY <2>1, <2>2 DEF Meaning
<1> QED
  BY <1>1, Invariant, PTL


-----------------------------------------------------------------------------
(* Progress                                                                *)

\* The stages of a call, over SSH or through a port-forward.
Stage ==
    [a \in At |-> IF a = "idle" THEN 0 ELSE IF a \in {"child", "forward"} THEN 1
                  ELSE IF a = "open" THEN 2 ELSE IF a = "exited" THEN 3 ELSE 4]

\* A caller comes to its second request; or its call to a later stage; or more
\* of the answer is read, or the time is over; or what it was told is refused,
\* or accepted for good.
Further(c) ==
    \/ call'[c].n > call[c].n
    \/ /\ call'[c].n = call[c].n
       /\ \/ Stage[call'[c].at] > Stage[call[c].at]
          \/ /\ call'[c].at = call[c].at /\ call[c].at # "settled"
             /\ \/ call'[c].size > call[c].size /\ call'[c].timedOut = call[c].timedOut
                \/ call'[c].size = call[c].size /\ call'[c].timedOut /\ ~call[c].timedOut
          \/ /\ call'[c].at = "settled" /\ call[c].at = "settled"
             /\ \/ call[c].code = 0 /\ call'[c].code = 1
                \/ call'[c].code = call[c].code /\ enrolled[c] = None /\ enrolled'[c] # None

\* An answer is on its way, which is not yet read, or nothing happened.
Waits(c) ==
    /\ call'[c] = [call[c] EXCEPT !.reply = call'[c].reply, !.parts = call'[c].parts]
    /\ enrolled'[c] = enrolled[c]

LEMMA SettlesFurther ==
  ASSUME Calls, NEW c \in Callers, NEW reply, Settles(c, reply), call[c].at # "settled"
  PROVE  Further(c) /\ \A d \in Callers \ {c} : call'[d] = call[d]
  <1>1. call[c] \in Call /\ \A d \in Callers \ {c} : call'[d] = call[d]
    BY DEF Calls, Settles
  <1>2. call'[c] = Settled(call[c], reply)
    BY DEF Calls, Settles
  <1>3. call'[c].at = "settled" /\ call'[c].n = call[c].n
    BY <1>1, <1>2 DEF Settled, NewCall, Call
  <1>4. Stage["settled"] > Stage[call[c].at]
    BY <1>1 DEF Stage, At, Call
  <1> QED
    BY <1>1, <1>3, <1>4 DEF Further

LEMMA ClientFurther ==
  ASSUME Inv, NEW c \in Callers, Client(c) \/ Exits(c)
  PROVE  Further(c) /\ \A d \in Callers \ {c} : call'[d] = call[d] /\ enrolled'[d] = enrolled[d]
  <1> DEFINE rest == \A d \in Callers \ {c} : call'[d] = call[d]
  <1>1. /\ Calls /\ call[c] \in Call /\ call \in [Callers -> Call]
        /\ call[c].n \in 1..2 /\ call[c].size \in 0..MaxParts /\ call[c].at \in At /\ MaxParts \in Nat
    BY CallsAssumption DEF Inv, Calls, Call
  <1> USE DEF At, Stage
  <1>2. CASE PrepareFiles(c)
    <2>1. CASE Settles(c, Refusal)
      BY <1>1, <1>2, <2>1, SettlesFurther DEF PrepareFiles
    <2>2. CASE call[c].at = "idle" /\ call' = [call EXCEPT ![c].at = "child"] /\ UNCHANGED enrolled
      BY <1>1, <2>2 DEF Further, Call
    <2> QED
      BY <1>2, <2>1, <2>2, SettlesFurther, <1>1 DEF PrepareFiles
  <1>3. CASE Exits(c)
    <2>1. \/ \E code : call' = [call EXCEPT ![c] = [@ EXCEPT !.at = "exited", !.code = code]]
          \/ call' = [call EXCEPT ![c].at = "exited"]
      BY <1>3 DEF Exits
    <2>2. call'[c].at = "exited" /\ call'[c].n = call[c].n /\ \A d \in Callers \ {c} : call'[d] = call[d]
      BY <1>1, <2>1 DEF Call
    <2> QED
      BY <1>1, <1>3, <2>2 DEF Exits, Further
  <1>4. CASE ReadPart(c)
    BY <1>1, <1>4 DEF ReadPart, Further, Call
  <1>5. CASE Timer(c)
    <2>1. call' = [call EXCEPT ![c] = [@ EXCEPT !.timedOut = TRUE, !.at = "exited"]]
      BY <1>5 DEF Timer, TimesOut
    <2>2. /\ call'[c] = [call[c] EXCEPT !.timedOut = TRUE, !.at = "exited"]
          /\ \A d \in Callers \ {c} : call'[d] = call[d]
      BY <1>1, <2>1
    <2>3. call'[c].timedOut /\ call'[c].at = "exited" /\ call'[c].n = call[c].n /\ call'[c].size = call[c].size
      BY <1>1, <2>2 DEF Call
    <2>4. call[c].at \in {"child", "exited"} /\ ~call[c].timedOut /\ UNCHANGED enrolled
      BY <1>5 DEF Timer
    <2>5. CASE call[c].at = "child"
      BY <1>1, <2>2, <2>3, <2>4, <2>5 DEF Further
    <2>6. CASE call[c].at = "exited"
      BY <1>1, <2>2, <2>3, <2>4, <2>6 DEF Further
    <2> QED
      BY <2>4, <2>5, <2>6
  <1>6. CASE Close(c)
    BY <1>1, <1>6, SettlesFurther DEF Close
  <1>7. CASE Forward(c)
    <2>1. CASE Settles(c, Refusal)
      BY <1>1, <1>7, <2>1, SettlesFurther DEF Forward
    <2>2. CASE call' = [call EXCEPT ![c].at = "forward"]
      BY <1>1, <1>7, <2>2 DEF Forward, Further, Call
    <2> QED
      BY <1>7, <2>1, <2>2 DEF Forward
  <1>8. CASE ForwardStarts(c)
    <2>1. CASE Settles(c, Refusal)
      BY <1>1, <1>8, <2>1, SettlesFurther DEF ForwardStarts
    <2>2. CASE call' = [call EXCEPT ![c].at = "open"]
      BY <1>1, <1>8, <2>2 DEF ForwardStarts, Further, Call
    <2> QED
      BY <1>8, <2>1, <2>2 DEF ForwardStarts
  <1>9. CASE Response(c)
    <2>1. CASE \E reply : Settles(c, reply)
      BY <1>1, <1>9, <2>1, SettlesFurther DEF Response
    <2>2. CASE call' = [call EXCEPT ![c].size = @ + 1]
      BY <1>1, <1>9, <2>2 DEF Response, Further, Call
    <2> QED
      BY <1>9, <2>1, <2>2 DEF Response
  <1>10. CASE AskAgain(c)
    BY <1>1, <1>10 DEF AskAgain, NewCall, Further, Call
  <1>11. CASE Challenge(c)
    BY <1>1, <1>11 DEF Challenge, Succeeded, NewCall, Further, Call
  <1>12. CASE Enroll(c)
    <2>1. enrolled'[c] = call[c].about.key /\ call' = call /\ enrolled[c] = None /\ call[c].at = "settled"
      BY <1>12 DEF Enroll, Succeeded, Inv, Told, Enrolls
    <2>2. call[c].about.key # None
      <3>1. wants[c] = "enroll" /\ call[c].n = 2 /\ call[c].at = "settled" /\ call[c].code = 0
        BY <1>12 DEF Enroll, Succeeded
      <3>2. call[c].reply # Refusal
        BY <3>1 DEF Inv, Calls, Fits
      <3>3. call[c].about.key \in made
        BY <3>1, <3>2 DEF Inv, Told, Meant, Meaning
      <3>4. made \subseteq Keys
        BY DEF Inv, Serving, Typed
      <3> QED
        BY <3>3, <3>4, NamesAssumption
    <2> QED
      BY <1>12, <2>1, <2>2 DEF Enroll, Further, Inv, Told, Enrolls
  <1> QED
    BY <1>2, <1>3, <1>4, <1>5, <1>6, <1>7, <1>8, <1>9, <1>10, <1>11, <1>12 DEF Client


LEMMA AnswerWaits ==
  ASSUME Calls, NEW r \in Requests, NEW reply, Replied(r, reply), UNCHANGED enrolled, NEW c \in Callers
  PROVE  Waits(c)
  <1>1. call \in [Callers -> Call] /\ call[c] \in Call
    BY DEF Calls
  <1>2. CASE call' = call
    BY <1>1, <1>2 DEF Waits, Call
  <1>3. CASE \E parts : call' = [call EXCEPT ![r[1]] = [@ EXCEPT !.reply = reply, !.parts = parts]]
    <2>1. PICK parts : call' = [call EXCEPT ![r[1]] = [@ EXCEPT !.reply = reply, !.parts = parts]]
      BY <1>3
    <2>2. CASE c = r[1]
      <3>1. call'[c] = [call[c] EXCEPT !.reply = reply, !.parts = parts]
        BY <1>1, <2>1, <2>2
      <3>2. call'[c].reply = reply /\ call'[c].parts = parts
        BY <1>1, <3>1 DEF Call
      <3> QED
        BY <3>1, <3>2 DEF Waits
    <2>3. CASE c # r[1]
      <3>1. call'[c] = call[c]
        BY <1>1, <2>1, <2>3
      <3> QED
        BY <1>1, <3>1 DEF Waits, Call
    <2> QED
      BY <2>2, <2>3
  <1> QED
    BY <1>2, <1>3 DEF Replied

LEMMA AttestWaits == ASSUME Calls, NEW r \in Requests, Attest(r), NEW c \in Callers
                     PROVE  Waits(c)
  <1>1. UNCHANGED enrolled
    BY DEF Attest
  <1>2. UNCHANGED call \/ \E reply : Replied(r, reply)
    <2>1. CASE GetKey(r) \/ CreateKey(r)
      BY <2>1 DEF GetKey, CreateKey
    <2>2. CASE \E reply : Answer(r, reply)
      BY <2>2 DEF Answer
    <2>3. Check(r) \/ ReadArea(r) \/ Activate(r) \/ Lie(r) \/ OperationFails(r) => \E reply : Answer(r, reply)
      BY DEF Check, ReadArea, Activate, Lie, OperationFails
    <2> QED
      BY <2>1, <2>2, <2>3 DEF Attest, Works
  <1>3. UNCHANGED call => Waits(c)
    <2>1. call[c] \in Call
      BY DEF Calls
    <2> QED
      BY <1>1, <2>1 DEF Waits, Call
  <1> QED
    BY <1>1, <1>2, <1>3, AnswerWaits

\* Each step of a caller's own takes its call on, and no step of the attester,
\* of a stranger or of another caller takes it back: as a request is the first
\* or the second and an answer has at most MaxParts parts, calls end, whatever
\* is answered, if only their callers go on (ssh.js:103-182, kubernetes.js:174-244).
THEOREM CallsAdvance ==
  Spec => [][\A c \in Callers : (Further(c) \/ Waits(c)) /\ (Client(c) => Further(c))]_vars
  <1>1. Inv /\ Next => \A c \in Callers : (Further(c) \/ Waits(c)) /\ (Client(c) => Further(c))
    <2> SUFFICES ASSUME Inv, Next, NEW c \in Callers PROVE Further(c) \/ Waits(c)
      BY ClientFurther
    <2>1. Calls /\ call[c] \in Call
      BY DEF Inv, Calls
    <2>2. call'[c] = call[c] /\ enrolled'[c] = enrolled[c] => Waits(c)
      BY <2>1 DEF Waits, Call
    <2>3. ASSUME NEW d \in Callers, Client(d) \/ Exits(d) PROVE Further(c) \/ Waits(c)
      BY <2>2, <2>3, ClientFurther
    <2>4. ASSUME NEW d \in Callers, Connect(d) PROVE Waits(c)
      BY <2>2, <2>4 DEF Connect
    <2>5. ASSUME NEW r \in Requests, Attest(r) PROVE Waits(c)
      BY <2>1, <2>5, AttestWaits
    <2>6. CASE (\E s \in Strays : Stray(s)) \/ Restart
      BY <2>2, <2>6 DEF Stray, Restart
    <2> QED
      BY <2>3, <2>4, <2>5, <2>6 DEF Next
  <1> QED
    BY <1>1, Invariant, PTL DEF Spec

=============================================================================
