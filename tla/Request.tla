-------------------------------- MODULE Request --------------------------------
(***************************************************************************)
(* Client.Request and Client.RequestRawBody of client.go: one call prepares *)
(* a URL and headers, then sends attempts until one is answered for good,  *)
(* sleeping between them.                                                  *)
(*                                                                         *)
(* The two functions differ only in what they do with a 2xx body, so they  *)
(* are one action each here, told apart by request[c].raw.  An attempt the *)
(* client has given up on stays on the wire: the provider may still execute *)
(* it.  The client's own steps take no time; waiting for an answer and     *)
(* sleeping do.  The token comes from outside (ZoomClient composes it).    *)
(***************************************************************************)
EXTENDS Integers, FiniteSets

CONSTANTS
    Calls,          \* calls, each made once
    Methods,        \* HTTP methods they use
    Statuses,       \* statuses the provider answers with
    Bodies,         \* kinds of body it sends with a 2xx
    MaxRetries,     \* Settings.MaxRetries
    AttemptTimeout, \* the smaller of RequestOptions.Timeout and http.Client.Timeout
    BackoffBase,    \* Settings.BackoffBaseSeconds
    BackoffMax,     \* Settings.BackoffMaxSeconds
    WordBits,       \* width of Go's uint
    Jumps           \* how far the clock may move in one step

\* Settings.Validate: non-negative retries, positive timeout and backoffs.
ASSUME RequestAssumption ==
    /\ Statuses \subseteq 200..599
    /\ Bodies \subseteq {"empty", "json", "garbage", "oversize", "truncated"}
    /\ MaxRetries \in Nat
    /\ AttemptTimeout \in Nat \ {0}
    /\ BackoffBase \in Nat \ {0}
    /\ BackoffMax \in Nat \ {0}
    /\ WordBits \in Nat \ {0}
    /\ Jumps \subseteq Nat \ {0}

VARIABLES
    now,        \* the clock
    request,    \* what each call asks for
    pc,         \* where each call is
    attempt,    \* the loop counter of each call
    timer,      \* when the attempt times out, or the sleep ends
    begun,      \* when the loop was entered
    cancelled,  \* whether the caller's context is done
    wire,       \* attempts of each call sent and neither executed nor lost
    executed,   \* how often the provider has executed each call
    response,   \* the answer each call looks at
    outcome     \* what each call returned

vars == <<now, request, pc, attempt, timer, begun, cancelled, wire, executed, response,
          outcome>>

RetriableStatuses == {429, 500, 502, 503, 504}

RetriableMethods == {"GET", "HEAD", "OPTIONS", "DELETE", "PUT"}

Successful(status) == status \in 200..299

\* fault: the first preparation step that fails, "none" when none does.
\* documented: FindOperation knows the method and path.
Requests ==
    [method: Methods, raw: BOOLEAN, documented: BOOLEAN,
     fault: {"none", "path", "body", "request"}]

\* fits: the schema picked for the status accepts the body.
Responses == [status: Statuses \union {0}, body: Bodies \union {"empty"}, fits: BOOLEAN]

NoResponse == [status |-> 0, body |-> "empty", fits |-> FALSE]

TypeOK ==
    /\ now \in Nat
    /\ request \in [Calls -> Requests]
    /\ pc \in [Calls -> {"idle", "preparing", "headers", "ready", "waiting", "replied",
                         "sleeping", "returned"}]
    /\ attempt \in [Calls -> 0..MaxRetries]
    /\ timer \in [Calls -> Nat]
    /\ begun \in [Calls -> Nat]
    /\ cancelled \in [Calls -> BOOLEAN]
    /\ wire \in [Calls -> SUBSET (0..MaxRetries)]
    /\ executed \in [Calls -> Nat]
    /\ response \in [Calls -> Responses]
    /\ outcome \in [Calls -> {"none", "value", "rejected", "transport", "status", "body",
                              "schema"}]

--------------------------------------------------------------------------------

\* A bug: the delay is not capped.
UncappedDelay(a) == IF a >= WordBits THEN 0 ELSE BackoffBase * 2^a

\* The delay before jitter, capped.  The factor uint(1) << attempt is a power of two, and
\* zero once attempt reaches the width of the word.
Delay(a) ==
    IF a >= WordBits THEN 0
    ELSE IF BackoffBase * 2^a \in 0..BackoffMax THEN BackoffBase * 2^a ELSE BackoffMax

\* calculateBackoff: the jitter scales the capped delay by 0.75 to 1.25.
Backoffs(a) == {b \in 0..2 * BackoffMax : 3 * Delay(a) <= 4 * b /\ 4 * b <= 5 * Delay(a)}

Init ==
    /\ now = 0
    /\ request \in [Calls -> Requests]
    /\ pc = [c \in Calls |-> "idle"]
    /\ attempt = [c \in Calls |-> 0]
    /\ timer = [c \in Calls |-> 0]
    /\ begun = [c \in Calls |-> 0]
    /\ cancelled = [c \in Calls |-> FALSE]
    /\ wire = [c \in Calls |-> {}]
    /\ executed = [c \in Calls |-> 0]
    /\ response = [c \in Calls |-> NoResponse]
    /\ outcome = [c \in Calls |-> "none"]

Goto(c, l) == pc' = [pc EXCEPT ![c] = l]

Return(c, o) ==
    /\ Goto(c, "returned")
    /\ outcome' = [outcome EXCEPT ![c] = o]

preparation == <<now, request, begun, cancelled>>
loop == <<attempt, timer>>
provider == <<wire, executed>>

Begin(c) ==
    /\ pc[c] = "idle"
    /\ Goto(c, "preparing")
    /\ UNCHANGED <<preparation, loop, provider, response, outcome>>

\* The caller's context ends.
Cancel(c) ==
    /\ pc[c] \notin {"idle", "returned"}
    /\ ~cancelled[c]
    /\ cancelled' = [cancelled EXCEPT ![c] = TRUE]
    /\ UNCHANGED <<now, request, pc, begun, loop, provider, response, outcome>>

\* A placeholder is left in the path, or the URL does not parse.
PathRejected(c) ==
    /\ pc[c] = "preparing"
    /\ request[c].fault = "path"
    /\ Return(c, "rejected")
    /\ UNCHANGED <<preparation, loop, provider, response>>

\* The path is rendered: buildHeaders asks for the token.
AskToken(c) ==
    /\ pc[c] = "preparing"
    /\ request[c].fault # "path"
    /\ Goto(c, "headers")
    /\ UNCHANGED <<preparation, loop, provider, response, outcome>>

TokenRefused(c) ==
    /\ pc[c] = "headers"
    /\ Return(c, "rejected")
    /\ UNCHANGED <<preparation, loop, provider, response>>

\* The token is there, but the body does not marshal.
BodyRejected(c) ==
    /\ pc[c] = "headers"
    /\ request[c].fault = "body"
    /\ Return(c, "rejected")
    /\ UNCHANGED <<preparation, loop, provider, response>>

\* The headers, token included, are built once, and serve every attempt.
Enter(c) ==
    /\ pc[c] = "headers"
    /\ request[c].fault # "body"
    /\ Goto(c, "ready")
    /\ begun' = [begun EXCEPT ![c] = now]
    /\ UNCHANGED <<now, request, cancelled, loop, provider, response, outcome>>

\* http.NewRequestWithContext fails, at the first attempt as it would at any.
RequestRejected(c) ==
    /\ pc[c] = "ready"
    /\ request[c].fault = "request"
    /\ Return(c, "rejected")
    /\ UNCHANGED <<preparation, loop, provider, response>>

Send(c) ==
    /\ pc[c] = "ready"
    /\ request[c].fault # "request"
    /\ ~cancelled[c]
    /\ Goto(c, "waiting")
    /\ timer' = [timer EXCEPT ![c] = now + AttemptTimeout]
    /\ wire' = [wire EXCEPT ![c] = @ \union {attempt[c]}]
    /\ UNCHANGED <<preparation, attempt, executed, response, outcome>>

\* A bug: one retry too many.
RetryOnceMore(c) ==
    /\ attempt[c] <= MaxRetries
    /\ request[c].method \in RetriableMethods
    /\ \E b \in Backoffs(attempt[c]) : timer' = [timer EXCEPT ![c] = now + b]
    /\ Goto(c, "sleeping")
    /\ UNCHANGED outcome

\* A bug: any method is retried.
RetryAnyMethod(c) ==
    /\ attempt[c] < MaxRetries
    /\ \E b \in Backoffs(attempt[c]) : timer' = [timer EXCEPT ![c] = now + b]
    /\ Goto(c, "sleeping")
    /\ UNCHANGED outcome

\* Sleep before the next attempt; the sleep does not look at the context.
Retry(c) ==
    /\ attempt[c] < MaxRetries
    /\ request[c].method \in RetriableMethods
    /\ \E b \in Backoffs(attempt[c]) : timer' = [timer EXCEPT ![c] = now + b]
    /\ Goto(c, "sleeping")
    /\ UNCHANGED outcome

GiveUp(c, o) ==
    /\ ~(attempt[c] < MaxRetries /\ request[c].method \in RetriableMethods)
    /\ Return(c, o)
    /\ UNCHANGED timer

\* http.Client.Do fails: nothing was sent because the context is done, the exchange
\* broke, or the attempt timed out.  What was sent may still arrive.
TransportFails(c) ==
    /\ \/ pc[c] = "ready" /\ request[c].fault # "request" /\ cancelled[c]
       \/ pc[c] = "waiting"
    /\ Retry(c) \/ GiveUp(c, "transport")
    /\ response' = [response EXCEPT ![c] = NoResponse]
    /\ UNCHANGED <<preparation, attempt, provider>>

\* The answer is not 2xx: retried when its status is a retriable one too.
StatusFails(c) ==
    /\ pc[c] = "replied"
    /\ ~Successful(response[c].status)
    /\ \/ response[c].status \in RetriableStatuses /\ Retry(c)
       \/ response[c].status \in RetriableStatuses /\ GiveUp(c, "status")
       \/ response[c].status \notin RetriableStatuses /\ Return(c, "status") /\ UNCHANGED timer
    /\ UNCHANGED <<preparation, attempt, provider, response>>

\* ValidateResponse, or no validation at all for a raw body.
Conforms(c) == request[c].raw \/ (request[c].documented /\ response[c].fits)

Bodiless(r) == r.status = 204 \/ r.body = "empty"

\* The attempt's context was cancelled when Do returned, before the body is read: what
\* is not buffered yet is cut off, whatever the provider sent.
CutOff(c) ==
    /\ pc[c] = "replied"
    /\ Successful(response[c].status)
    /\ ~Bodiless(response[c])
    /\ Return(c, "body")
    /\ UNCHANGED <<preparation, loop, provider, response>>

\* A bug: a 2xx whose body is refused is asked for again.
ConcludeOrRetry(c) ==
    /\ pc[c] = "replied"
    /\ Successful(response[c].status)
    /\ IF Conforms(c)
       THEN Return(c, "value") /\ UNCHANGED timer
       ELSE Retry(c) \/ GiveUp(c, "schema")
    /\ UNCHANGED <<preparation, attempt, provider, response>>

\* handleResponse and handleRawBodyResponse on a 2xx: read, decode, validate.
Conclude(c) ==
    /\ pc[c] = "replied"
    /\ Successful(response[c].status)
    /\ LET r == response[c]
           unread == ~Bodiless(r) /\ r.body \in {"oversize", "truncated"}
           undecoded == ~Bodiless(r) /\ r.body = "garbage" /\ ~request[c].raw
       IN Return(c, IF unread \/ undecoded THEN "body"
                    ELSE IF Conforms(c) THEN "value" ELSE "schema")
    /\ UNCHANGED <<preparation, loop, provider, response>>

Wake(c) ==
    /\ pc[c] = "sleeping"
    /\ now >= timer[c]
    /\ attempt' = [attempt EXCEPT ![c] = @ + 1]
    /\ Goto(c, "ready")
    /\ UNCHANGED <<preparation, timer, provider, response, outcome>>

\* The provider answers attempt a with r, having executed it n times: once for a 2xx,
\* perhaps for a server error, not otherwise.  Only an attempt still waited for has a reader.
Answer(c, a, r, n) ==
    /\ a \in wire[c]
    /\ Successful(r.status) => n = 1
    /\ r.status < 500 /\ ~Successful(r.status) => n = 0
    /\ wire' = [wire EXCEPT ![c] = @ \ {a}]
    /\ executed' = [executed EXCEPT ![c] = @ + n]
    /\ IF pc[c] = "waiting" /\ attempt[c] = a
       THEN Goto(c, "replied") /\ response' = [response EXCEPT ![c] = r]
       ELSE UNCHANGED <<pc, response>>
    /\ UNCHANGED <<preparation, loop, outcome>>

\* What the provider may send: a body is told apart only on a 2xx, and its fit only if
\* the client looks at it.
Answers ==
    {r \in [status: Statuses, body: Bodies \union {"empty"}, fits: BOOLEAN] :
        /\ ~Successful(r.status) \/ r.status = 204 => r.body = "empty"
        /\ Successful(r.status) /\ r.status # 204 => r.body \in Bodies
        /\ r.fits => Successful(r.status) /\ r.body \in {"empty", "json"}}

\* An attempt never reaches the provider.
Lose(c, a) ==
    /\ a \in wire[c]
    /\ wire' = [wire EXCEPT ![c] = @ \ {a}]
    /\ UNCHANGED <<preparation, pc, loop, executed, response, outcome>>

Timed == {c \in Calls : pc[c] \in {"waiting", "sleeping"}}

\* Between two waits a call takes no time, and no wait outlasts its timer.
ClockMayReach(t) ==
    /\ \A c \in Calls : pc[c] \notin {"ready", "replied"}
    /\ \A c \in Timed : t <= timer[c]

Elapse ==
    /\ \E d \in Jumps : ClockMayReach(now + d) /\ now' = now + d
    /\ UNCHANGED <<request, pc, begun, cancelled, loop, provider, response, outcome>>

Tick == Timed # {} /\ Elapse

\* The client's own steps, those of the loop first.
Loop(c) ==
    \/ RequestRejected(c) \/ Send(c) \/ TransportFails(c) \/ StatusFails(c)
    \/ CutOff(c) \/ Conclude(c) \/ Wake(c)

Prepare(c) ==
    PathRejected(c) \/ AskToken(c) \/ TokenRefused(c) \/ BodyRejected(c) \/ Enter(c)

Provider(c) ==
    \E a \in wire[c] :
        \/ Lose(c, a)
        \/ \E r \in Answers, n \in 0..1 : Answer(c, a, r, n)

Next ==
    \/ \E c \in Calls : Begin(c) \/ Cancel(c) \/ Prepare(c) \/ Loop(c) \/ Provider(c)
    \/ Tick

\* An attempt is certain to end only by its timeout.
TimesOut(c) == pc[c] = "waiting" /\ now = timer[c] /\ TransportFails(c)

\* The goroutine of a call runs, and time passes.  Neither the provider nor the network
\* owes the client anything.
Fairness ==
    /\ WF_vars(Tick)
    /\ \A c \in Calls :
        WF_vars(Prepare(c) \/ (pc[c] # "waiting" /\ Loop(c)) \/ TimesOut(c))

Spec == Init /\ [][Next]_vars /\ Fairness

--------------------------------------------------------------------------------

\* The longest sleep: the jitter may exceed BackoffMaxSeconds by a quarter.
MaxSleep == (5 * BackoffMax) \div 4

\* The time a attempts and the sleeps after them take at most.
Budget(a) == a * (AttemptTimeout + MaxSleep)

InLoop(c) == pc[c] \in {"ready", "waiting", "replied", "sleeping"}

\* From the moment the token is there, a call takes at most MaxRetries + 1 timeouts and
\* MaxRetries sleeps, whatever the provider does (client.go:122-146).  A cancelled context
\* does not shorten it: the sleeps run on.
CallTakesAtMost ==
    \A c \in Calls : InLoop(c) => now <= begun[c] + Budget(MaxRetries) + AttemptTimeout

\* A further attempt is only ever made of a method that may be repeated, and after no
\* answer or a retriable status: a 2xx whose body is refused is executed already and is
\* not asked for again (client.go:142-161).
RetryOnlyTransient ==
    \A c \in Calls : attempt[c] > 0 /\ pc[c] \in {"ready", "waiting", "sleeping"} =>
        /\ request[c].method \in RetriableMethods
        /\ response[c].status \in RetriableStatuses \union {0}

\* What an outcome tells of the provider's side (RemoteCall): a POST or PATCH is executed
\* at most once, nothing of it is pending unless a transport error is returned, a rejected
\* call is never executed, a value answers an execution, and every call returns.
Remote == INSTANCE RemoteCall WITH
    stage <- [c \in Calls |-> CASE pc[c] = "idle" -> "idle"
                                [] pc[c] = "returned" -> "closed"
                                [] OTHER -> "open"],
    safe <- [c \in Calls |-> request[c].method \in RetriableMethods]

RemotePromise == Remote!Spec

\* RequestRawBody "returns the bounded response body" (client.go:166-168): a body that
\* arrives whole and within the bound is not refused.
SoundBodyReturned ==
    \A c \in Calls : request[c].raw /\ outcome[c] = "body" =>
        response[c].body \in {"oversize", "truncated"}
================================================================================
