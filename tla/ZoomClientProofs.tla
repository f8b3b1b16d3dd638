--------------------------- MODULE ZoomClientProofs ---------------------------
(***************************************************************************)
(* Proofs about ZoomClient, for any number of calls over one token manager, *)
(* every lifetime, skew, timeout, backoff and number of retries.           *)
(*                                                                         *)
(* A step of the client is a step of each component or leaves it alone, so *)
(* what TokenManagerProofs and RequestProofs show holds of the components  *)
(* where they are composed; only the bound on the clock is another one.    *)
(*                                                                         *)
(* How much life a token has left on the wire depends on both components:  *)
(* the exchange that brought it, the cache it may have lain in, and the    *)
(* attempts and sleeps since.  Exchanged and Stored follow a token to the  *)
(* call that gets it; Carried follows it from there through the retry loop. *)
(***************************************************************************)
EXTENDS ZoomClient, TLAPS

\* The components again, with what is proved of them.
TP == INSTANCE TokenManagerProofs WITH
    Callers <- Calls, pc <- tokenPc, cancelled <- tokenCancelled, outcome <- tokenOutcome

RP == INSTANCE RequestProofs

Margin == Skew - Timeout

\* A call asks for a token only while it builds its headers.
Asking == \A c \in Calls : tokenPc[c] # "idle" => pc[c] = "headers"

\* What an exchange brings is no older than the exchange, and will be cached with its margin.
ExchangeOf(c) ==
    /\ tokenPc[c] \in {"fetching", "replied"} => now \in sentAt[c]..sentAt[c] + Timeout
    /\ tokenPc[c] \in {"replied", "decoded"} =>
        reply[c] \in T!Token /\ sentAt[c] <= reply[c].issued
    /\ tokenPc[c] = "decoded" => expiry[c] + Margin <= T!ProviderExpiry(reply[c])

Exchanged == \A c \in Calls : ExchangeOf(c)

\* Until the cached token is refused locally, it has its margin at the provider.
Stored == cached # NoToken => expiresAt + Margin <= T!ProviderExpiry(cached)

\* The token of c loses no more of its margin than a whole attempts and b more ticks take.
Lasts(c, t, a, b) == t + Margin < T!ProviderExpiry(tokenOutcome[c].token) + R!Budget(a) + b

CarriedBy(c) ==
    /\ pc[c] \in {"idle", "preparing", "headers"} => attempt[c] = 0
    /\ pc[c] \in {"idle", "preparing"} => tokenOutcome[c].kind = "none"
    /\ pc[c] = "headers" /\ tokenPc[c] # "idle" => tokenOutcome[c].kind = "none"
    /\ pc[c] \in {"waiting", "sleeping"} => now <= timer[c]
    /\ pc[c] = "sleeping" => attempt[c] < MaxRetries
    /\ tokenOutcome[c].kind = "token" =>
        /\ tokenOutcome[c].token \in T!Token
        /\ pc[c] \in {"headers", "ready"} => Lasts(c, now, attempt[c], 0)
        /\ pc[c] = "waiting" => Lasts(c, timer[c], attempt[c], AttemptTimeout)
        /\ pc[c] = "replied" => Lasts(c, now, attempt[c], AttemptTimeout)
        /\ pc[c] = "sleeping" => Lasts(c, timer[c], attempt[c], AttemptTimeout + R!MaxSleep)

Carried == \A c \in Calls : CarriedBy(c)

IInv == TP!Inv /\ RP!IInv /\ Asking /\ Carried

\* A step of call c within the token manager.
TokenStep(c) == T!CallWithOverride(c) \/ T!Call(c) \/ T!Cancel(c) \/ T!Progress(c)

\* A step of call c within the request, its attempts on the wire included.
RequestStep(c) == R!Begin(c) \/ R!Cancel(c) \/ R!Prepare(c) \/ R!Loop(c) \/ R!Provider(c)

\* Everything a step is: of one component, the other standing still, of both, or of the
\* clock.  The headers are finished only once the token manager has returned.
LEMMA StepsSplit ==
    ASSUME TypeOK, [Next]_vars
    PROVE  \/ \E c \in Calls :
                /\ RequestStep(c) /\ UNCHANGED tokenVars
                /\ pc[c] = "headers" /\ pc'[c] # "headers" => tokenPc[c] = "idle"
           \/ \E c \in Calls : T!Progress(c) /\ UNCHANGED requestVars
           \/ \E c \in Calls : R!AskToken(c) /\ (T!Call(c) \/ T!CallWithOverride(c))
           \/ \E c \in Calls : R!Cancel(c) /\ T!Cancel(c)
           \/ Tick
           \/ UNCHANGED vars
<1> USE DEF RequestStep, R!Prepare
<1>1. ASSUME NEW c \in Calls, Begin(c) \/ PathRejected(c)
      PROVE  RequestStep(c) /\ UNCHANGED tokenVars /\ pc[c] # "headers"
  BY <1>1 DEF Begin, PathRejected, R!Begin, R!PathRejected
<1>2. ASSUME NEW c \in Calls, Loop(c)
      PROVE  RequestStep(c) /\ UNCHANGED tokenVars /\ pc[c] # "headers"
  BY <1>2 DEF Loop, R!Loop, R!RequestRejected, R!Send, R!TransportFails, R!StatusFails,
              R!CutOff, R!Conclude, R!Wake
<1>3. ASSUME NEW c \in Calls, Provider(c)
      PROVE  RequestStep(c) /\ UNCHANGED tokenVars /\ (pc[c] = "headers" => pc'[c] = pc[c])
  <2>1. pc[c] = "headers" => UNCHANGED pc
    BY <1>3 DEF Provider, R!Provider, R!Lose, R!Answer
  <2> QED
    BY <1>3, <2>1 DEF Provider
<1>4. ASSUME NEW c \in Calls, HeadersBuilt(c)
      PROVE  RequestStep(c) /\ UNCHANGED tokenVars /\ tokenPc[c] = "idle"
  BY <1>4 DEF HeadersBuilt
<1>5. ASSUME NEW c \in Calls, AskToken(c)
      PROVE  R!AskToken(c) /\ (T!Call(c) \/ T!CallWithOverride(c))
  BY <1>5 DEF AskToken
<1>6. ASSUME NEW c \in Calls, TokenProgress(c)
      PROVE  T!Progress(c) /\ UNCHANGED requestVars
  BY <1>6 DEF TokenProgress
<1>7. ASSUME NEW c \in Calls, Cancel(c)
      PROVE  \/ RequestStep(c) /\ UNCHANGED tokenVars /\ UNCHANGED pc
             \/ R!Cancel(c) /\ T!Cancel(c)
  BY <1>7 DEF Cancel, R!Cancel
<1> QED
  BY <1>1, <1>2, <1>3, <1>4, <1>5, <1>6, <1>7 DEF Next

--------------------------------------------------------------------------------

\* What a step of c leaves alone of the calls in the request.
LEMMA RequestElsewhere ==
    ASSUME R!TypeOK, NEW c \in Calls, RequestStep(c)
    PROVE  /\ UNCHANGED now
           /\ \A d \in Calls \ {c} : UNCHANGED <<pc[d], attempt[d], timer[d]>>
<1> USE DEF R!TypeOK, R!Goto, R!Return, R!preparation, R!loop, R!provider
<1>1. CASE R!Begin(c) \/ R!Cancel(c) \/ R!Prepare(c)
  BY <1>1 DEF R!Begin, R!Cancel, R!Prepare, R!PathRejected, R!AskToken, R!TokenRefused,
              R!BodyRejected, R!Enter
<1>2. CASE R!RequestRejected(c) \/ R!Send(c) \/ R!CutOff(c) \/ R!Conclude(c) \/ R!Wake(c)
  BY <1>2 DEF R!RequestRejected, R!Send, R!CutOff, R!Conclude, R!Wake
<1>3. CASE R!TransportFails(c) \/ R!StatusFails(c)
  BY <1>3 DEF R!TransportFails, R!StatusFails, R!Retry, R!GiveUp
<1>4. CASE R!Provider(c)
  BY <1>4 DEF R!Provider, R!Lose, R!Answer
<1> QED
  BY <1>1, <1>2, <1>3, <1>4 DEF RequestStep, R!Loop

\* What a step of c leaves alone of the calls in the token manager.
LEMMA TokenElsewhere ==
    ASSUME T!TypeOK, NEW c \in Calls, TokenStep(c)
    PROVE  /\ UNCHANGED now
           /\ \A d \in Calls \ {c} :
                UNCHANGED <<tokenPc[d], sentAt[d], reply[d], expiry[d], tokenOutcome[d]>>
<1> USE DEF T!TypeOK, T!Return, T!locals
<1>1. CASE T!CallWithOverride(c) \/ T!Call(c) \/ T!Cancel(c)
  BY <1>1 DEF T!CallWithOverride, T!Call, T!Cancel
<1>2. CASE T!Progress(c)
  BY <1>2 DEF T!Progress, T!FastHit, T!FastMiss, T!SlowHit, T!FetchRefused, T!StartFetch,
              T!Issue, T!Decode, T!Store, T!TooSoon, T!FetchFails
<1> QED
  BY <1>1, <1>2 DEF TokenStep

\* TP and T are one component, and so are RP and R.
LEMMA SameInit == (T!Init => TP!Init) /\ (R!Init /\ request \in [Calls -> Asked] => RP!Init)
<1>1. T!Init => TP!Init
  BY DEF T!Init, TP!Init, T!Returned, TP!Returned
<1>2. R!Init /\ request \in [Calls -> Asked] => RP!Init
  BY ClientAssumption DEF ClientAssumption, R!Init, RP!Init, R!Requests, RP!Requests, R!NoResponse, RP!NoResponse
<1> QED
  BY <1>1, <1>2

\* ... step by step in the token manager,
LEMMA SameTokenSteps ==
    /\ \A c \in Calls : TokenStep(c) =>
        TP!CallWithOverride(c) \/ TP!Call(c) \/ TP!Cancel(c) \/ TP!Progress(c)
    /\ T!Elapse => TP!Elapse
<1> USE DEF T!settings, TP!settings, T!cache, TP!cache, T!locals, TP!locals, T!Return, TP!Return,
            T!Returned, TP!Returned, T!Fresh, TP!Fresh
<1>1. ASSUME NEW c \in Calls
      PROVE  /\ T!CallWithOverride(c) => TP!CallWithOverride(c)
             /\ T!Call(c) => TP!Call(c)
             /\ T!Cancel(c) => TP!Cancel(c)
  BY DEF T!CallWithOverride, TP!CallWithOverride, T!Call, TP!Call, T!Cancel, TP!Cancel
<1>2. ASSUME NEW c \in Calls
      PROVE  /\ T!FastHit(c) => TP!FastHit(c)
             /\ T!FastMiss(c) => TP!FastMiss(c)
             /\ T!SlowHit(c) => TP!SlowHit(c)
             /\ T!FetchRefused(c) => TP!FetchRefused(c)
             /\ T!StartFetch(c) => TP!StartFetch(c)
  BY DEF T!FastHit, TP!FastHit, T!FastMiss, TP!FastMiss, T!SlowHit, TP!SlowHit, T!FetchRefused,
         TP!FetchRefused, T!StartFetch, TP!StartFetch
<1>3. ASSUME NEW c \in Calls
      PROVE  /\ T!Issue(c) => TP!Issue(c)
             /\ T!Decode(c) => TP!Decode(c)
             /\ T!Store(c) => TP!Store(c)
             /\ T!TooSoon(c) => TP!TooSoon(c)
             /\ T!FetchFails(c) => TP!FetchFails(c)
  BY DEF T!Issue, TP!Issue, T!Decode, TP!Decode, T!Store, TP!Store, T!TooSoon, TP!TooSoon,
         T!FetchFails, TP!FetchFails
<1>4. T!Elapse => TP!Elapse
  BY DEF T!Elapse, TP!Elapse, T!ClockMayReach, TP!ClockMayReach, T!Exchanging, TP!Exchanging,
         T!Deadline, TP!Deadline
<1> QED
  BY <1>1, <1>2, <1>3, <1>4 DEF TokenStep, T!Progress, TP!Progress

\* ... and in the request.
LEMMA SameRequestSteps ==
    /\ \A c \in Calls : RequestStep(c) =>
        RP!Begin(c) \/ RP!Cancel(c) \/ RP!Prepare(c) \/ RP!Loop(c) \/ RP!Provider(c)
    /\ R!Elapse => RP!Elapse
<1> USE DEF R!preparation, RP!preparation, R!loop, RP!loop, R!provider, RP!provider, R!Goto, RP!Goto,
            R!Return, RP!Return
<1>1. ASSUME NEW c \in Calls
      PROVE  /\ R!Begin(c) => RP!Begin(c)
             /\ R!Cancel(c) => RP!Cancel(c)
             /\ R!Prepare(c) => RP!Prepare(c)
  BY DEF R!Begin, RP!Begin, R!Cancel, RP!Cancel, R!Prepare, RP!Prepare, R!PathRejected,
         RP!PathRejected, R!AskToken, RP!AskToken, R!TokenRefused, RP!TokenRefused,
         R!BodyRejected, RP!BodyRejected, R!Enter, RP!Enter
<1>2. ASSUME NEW c \in Calls, R!Loop(c) PROVE RP!Loop(c)
  <2>1. /\ R!Retry(c) <=> RP!Retry(c)
        /\ \A o : R!GiveUp(c, o) <=> RP!GiveUp(c, o)
    BY DEF R!Retry, RP!Retry, R!GiveUp, RP!GiveUp, R!RetriableMethods, RP!RetriableMethods,
           R!Backoffs, RP!Backoffs, R!Delay, RP!Delay
  <2> USE DEF R!Successful, RP!Successful, R!NoResponse, RP!NoResponse, R!RetriableStatuses,
              RP!RetriableStatuses, R!Bodiless, RP!Bodiless, R!Conforms, RP!Conforms
  <2>2. /\ R!RequestRejected(c) => RP!RequestRejected(c)
        /\ R!Send(c) => RP!Send(c)
        /\ R!CutOff(c) => RP!CutOff(c)
        /\ R!Conclude(c) => RP!Conclude(c)
        /\ R!Wake(c) => RP!Wake(c)
    BY DEF R!RequestRejected, RP!RequestRejected, R!Send, RP!Send, R!CutOff, RP!CutOff,
           R!Conclude, RP!Conclude, R!Wake, RP!Wake
  <2>3. /\ R!TransportFails(c) => RP!TransportFails(c)
        /\ R!StatusFails(c) => RP!StatusFails(c)
    BY <2>1 DEF R!TransportFails, RP!TransportFails, R!StatusFails, RP!StatusFails
  <2> QED
    BY <1>2, <2>2, <2>3 DEF R!Loop, RP!Loop
<1>3. ASSUME NEW c \in Calls, R!Provider(c) PROVE RP!Provider(c)
  <2>1. R!Answers = RP!Answers
    BY DEF R!Answers, RP!Answers, R!Successful, RP!Successful
  <2>2. ASSUME NEW a, NEW r, NEW n
        PROVE  (R!Lose(c, a) => RP!Lose(c, a)) /\ (R!Answer(c, a, r, n) => RP!Answer(c, a, r, n))
    BY DEF R!Lose, RP!Lose, R!Answer, RP!Answer, R!Successful, RP!Successful
  <2> QED
    BY <1>3, <2>1, <2>2 DEF R!Provider, RP!Provider
<1>4. R!Elapse => RP!Elapse
  BY DEF R!Elapse, RP!Elapse, R!ClockMayReach, RP!ClockMayReach, R!Timed, RP!Timed
<1> QED
  BY <1>1, <1>2, <1>3, <1>4 DEF RequestStep

\* Each component takes a step of its own or stands still.
LEMMA ComponentSteps ==
    ASSUME TypeOK, [Next]_vars
    PROVE  [TP!Unbounded]_(TP!vars) /\ [RP!Unbounded]_(RP!vars)
<1>1. ASSUME UNCHANGED <<now, tokenVars>> PROVE UNCHANGED TP!vars
  BY <1>1 DEF tokenVars, TP!vars, TP!settings, TP!cache, TP!locals
<1>2. ASSUME UNCHANGED <<now, requestVars>> PROVE UNCHANGED RP!vars
  BY <1>2 DEF requestVars, RP!vars
<1>3. ASSUME NEW c \in Calls, RequestStep(c)
      PROVE  RP!Unbounded /\ UNCHANGED now
  BY <1>3, SameRequestSteps, RequestElsewhere DEF RP!Unbounded, TypeOK
<1>4. ASSUME NEW c \in Calls, TokenStep(c)
      PROVE  TP!Unbounded /\ UNCHANGED now
  BY <1>4, SameTokenSteps, TokenElsewhere DEF TP!Unbounded, TypeOK
<1>5. CASE Tick
  BY <1>5, SameTokenSteps, SameRequestSteps DEF Tick, TP!Unbounded, RP!Unbounded
<1>6. CASE UNCHANGED vars
  BY <1>1, <1>2, <1>6 DEF vars
<1> QED
  BY <1>1, <1>2, <1>3, <1>4, <1>5, <1>6, StepsSplit DEF RequestStep, TokenStep, R!Prepare

\* What the components' invariants say of types, exchanges and the cache.
LEMMA ComponentFacts == TP!Inv /\ RP!IInv => TypeOK /\ Exchanged /\ Stored
<1> SUFFICES ASSUME TP!Inv, RP!IInv PROVE TypeOK /\ Exchanged /\ Stored
  OBVIOUS
<1>1. T!TypeOK
  BY DEF TP!Inv, TP!TypeOK, T!TypeOK, TP!Token, T!Token, TP!Outcome, T!Outcome
<1>2. R!TypeOK
  BY DEF RP!IInv, RP!TypeOK, R!TypeOK, RP!Requests, R!Requests, RP!Responses, R!Responses
<1>3. Exchanged
  <2> SUFFICES ASSUME NEW c \in Calls PROVE ExchangeOf(c)
    BY DEF Exchanged
  <2> QED
    BY <1>1, ClientAssumption
    DEF TP!Inv, TP!ExchangeInv, TP!InTime, TP!Deadline, TP!Answered, TP!Margined, TP!Token,
        TP!ProviderExpiry, T!Token, T!ProviderExpiry, T!TypeOK, ExchangeOf, Margin
<1>4. Stored
  BY DEF TP!Inv, TP!CacheInv, TP!Margined, TP!ProviderExpiry, T!ProviderExpiry, Stored, Margin
<1> QED
  BY <1>1, <1>2, <1>3, <1>4 DEF TypeOK

--------------------------------------------------------------------------------

\* Only the clock moves in a tick.
LEMMA TickAlone == Tick => UNCHANGED <<tokenVars, requestVars>>
  BY DEF Tick, T!Elapse, T!settings, T!cache, T!locals, R!Elapse, R!loop, R!provider, tokenVars,
         requestVars

\* A call asks the token manager while it builds its headers, and at no other time.
LEMMA AskingStep == TypeOK /\ Asking /\ [Next]_vars => Asking'
<1> SUFFICES ASSUME TypeOK, Asking, [Next]_vars, NEW d \in Calls, tokenPc'[d] # "idle"
             PROVE  pc'[d] = "headers"
  BY DEF Asking
<1>0. T!TypeOK /\ R!TypeOK /\ (tokenPc[d] # "idle" => pc[d] = "headers")
  BY DEF TypeOK, Asking
<1>1. ASSUME NEW c \in Calls, RequestStep(c), UNCHANGED tokenVars,
             pc[c] = "headers" /\ pc'[c] # "headers" => tokenPc[c] = "idle"
      PROVE  pc'[d] = "headers"
  BY <1>0, <1>1, RequestElsewhere DEF tokenVars
<1>2. ASSUME NEW c \in Calls, T!Progress(c), UNCHANGED requestVars PROVE pc'[d] = "headers"
  <2>1. tokenPc[c] # "idle"
    BY <1>2 DEF T!Progress, T!FastHit, T!FastMiss, T!SlowHit, T!FetchRefused, T!StartFetch,
                T!Issue, T!Decode, T!Store, T!TooSoon, T!FetchFails
  <2> QED
    BY <1>0, <1>2, <2>1, TokenElsewhere DEF TokenStep, requestVars
<1>3. ASSUME NEW c \in Calls, R!AskToken(c), T!Call(c) \/ T!CallWithOverride(c)
      PROVE  pc'[d] = "headers"
  <2>1. c = d => pc'[d] = "headers"
    BY <1>0, <1>3 DEF R!AskToken, R!Goto, R!TypeOK
  <2> QED
    BY <1>0, <1>3, <2>1, RequestElsewhere, TokenElsewhere DEF RequestStep, TokenStep, R!Prepare
<1>4. ASSUME NEW c \in Calls, R!Cancel(c), T!Cancel(c) PROVE pc'[d] = "headers"
  BY <1>0, <1>4 DEF R!Cancel, T!Cancel
<1>5. CASE Tick \/ UNCHANGED vars
  BY <1>0, <1>5, TickAlone DEF vars, tokenVars, requestVars
<1> QED
  BY <1>1, <1>2, <1>3, <1>4, <1>5, StepsSplit

--------------------------------------------------------------------------------

\* A backoff is a number of ticks, at most MaxSleep of them.
LEMMA BackoffBound ==
    ASSUME NEW a \in Nat, NEW b \in R!Backoffs(a)
    PROVE  b \in Nat /\ b <= R!MaxSleep
<1>1. R!Delay(a) \in 0..BackoffMax
  BY ClientAssumption DEF R!Delay
<1>2. b \in Nat /\ 4 * b <= 5 * BackoffMax
  BY <1>1, ClientAssumption DEF R!Backoffs
<1> QED
  BY <1>2, ClientAssumption DEF R!MaxSleep

\* A failed attempt is followed by a bounded sleep or by the end of the call.
LEMMA AfterFailure ==
    ASSUME R!TypeOK, NEW c \in Calls, NEW o,
           R!Retry(c) \/ R!GiveUp(c, o) \/ (R!Return(c, o) /\ UNCHANGED timer)
    PROVE  \/ /\ attempt[c] < MaxRetries
              /\ \E b \in Nat : b <= R!MaxSleep /\ timer' = [timer EXCEPT ![c] = now + b]
              /\ pc' = [pc EXCEPT ![c] = "sleeping"]
              /\ UNCHANGED outcome
           \/ /\ pc' = [pc EXCEPT ![c] = "returned"]
              /\ outcome' = [outcome EXCEPT ![c] = o]
              /\ UNCHANGED timer
<1>1. attempt[c] \in Nat
  BY ClientAssumption DEF R!TypeOK
<1> QED
  BY <1>1, BackoffBound DEF R!Retry, R!GiveUp, R!Return, R!Goto

\* The budget grows by one timeout and one sleep with each attempt.
LEMMA BudgetGrows ==
    /\ R!MaxSleep \in Nat
    /\ R!Budget(0) = 0
    /\ \A a \in Nat :
        /\ R!Budget(a) \in Nat
        /\ R!Budget(a + 1) = R!Budget(a) + AttemptTimeout + R!MaxSleep
<1>1. R!MaxSleep \in Nat /\ AttemptTimeout \in Nat
  BY ClientAssumption DEF R!MaxSleep
<1>2. PICK k \in Nat : k = AttemptTimeout + R!MaxSleep
  BY <1>1
<1>3. \A a : R!Budget(a) = a * k
  BY <1>2 DEF R!Budget
<1>4. \A a \in Nat : (a + 1) * k = a * k + k /\ a * k \in Nat
  BY <1>2
<1>5. \A a \in Nat : R!Budget(a + 1) = R!Budget(a) + k /\ R!Budget(a) \in Nat
  BY <1>3, <1>4
<1>6. R!Budget(0) = 0
  BY <1>2, <1>3
<1> QED
  BY <1>1, <1>2, <1>5, <1>6

\* What the bounds in CarriedBy are computed from are integers.
LEMMA Numbers ==
    ASSUME TypeOK, NEW c \in Calls
    PROVE  /\ now \in Nat /\ timer[c] \in Nat /\ attempt[c] \in 0..MaxRetries
           /\ AttemptTimeout \in Nat /\ R!MaxSleep \in Nat /\ MaxRetries \in Nat
           /\ Margin \in Int /\ R!Budget(attempt[c]) \in Nat
           /\ R!Budget(attempt[c] + 1) = R!Budget(attempt[c]) + AttemptTimeout + R!MaxSleep
           /\ tokenOutcome[c].token \in T!Token =>
                T!ProviderExpiry(tokenOutcome[c].token) \in Nat
<1>1. attempt[c] \in Nat /\ attempt[c] \in 0..MaxRetries
  BY ClientAssumption DEF TypeOK, R!TypeOK
<1>2. tokenOutcome[c].token \in T!Token =>
        T!ProviderExpiry(tokenOutcome[c].token) \in Nat
  BY DEF T!Token, T!ProviderExpiry
<1>3. now \in Nat /\ timer[c] \in Nat
  BY DEF TypeOK, R!TypeOK
<1>4. Margin \in Int /\ AttemptTimeout \in Nat /\ MaxRetries \in Nat
  BY ClientAssumption DEF Margin
<1> QED
  BY <1>1, <1>2, <1>3, <1>4, BudgetGrows

\* A call nothing happens to keeps what it carries.
LEMMA CarriedStays ==
    ASSUME NEW c \in Calls, CarriedBy(c),
           UNCHANGED <<now, tokenPc[c], tokenOutcome[c], pc[c], attempt[c], timer[c]>>
    PROVE  CarriedBy(c)'
  BY DEF CarriedBy, Lasts, Margin, T!ProviderExpiry, R!Budget, T!Token

\* A token is handed out with its margin, to a call that builds its headers.
LEMMA CarriedFromToken ==
    ASSUME TypeOK, Asking, Exchanged, Stored, NEW c \in Calls, CarriedBy(c),
           T!Progress(c), UNCHANGED requestVars
    PROVE  CarriedBy(c)'
<1>0. /\ T!TypeOK /\ R!TypeOK /\ ExchangeOf(c)
      /\ UNCHANGED <<now, pc[c], attempt[c], timer[c]>>
  BY TokenElsewhere DEF TypeOK, Exchanged, TokenStep, requestVars
<1>1. pc[c] = "headers" /\ attempt[c] = 0 /\ tokenOutcome[c].kind = "none"
  <2>1. tokenPc[c] # "idle"
    BY DEF T!Progress, T!FastHit, T!FastMiss, T!SlowHit, T!FetchRefused, T!StartFetch,
           T!Issue, T!Decode, T!Store, T!TooSoon, T!FetchFails
  <2> QED
    BY <2>1 DEF Asking, CarriedBy
<1>2. ASSUME NEW t \in T!Token, now + Margin < T!ProviderExpiry(t), tokenPc'[c] = "idle",
             tokenOutcome'[c] = T!Returned("token", t)
      PROVE  CarriedBy(c)'
  <2>1. tokenOutcome'[c].token = t
    BY <1>2 DEF T!Returned
  <2>2. R!Budget(attempt[c])' = 0
    BY <1>0, <1>1, BudgetGrows DEF R!Budget
  <2>3. T!ProviderExpiry(t) \in Nat
    BY DEF T!ProviderExpiry, T!Token
  <2>4. Lasts(c, now, attempt[c], 0)'
    BY <1>0, <1>2, <2>1, <2>2, <2>3 DEF Lasts, Margin, T!ProviderExpiry, R!Budget
  <2> QED
    BY <1>0, <1>1, <1>2, <2>1, <2>4 DEF CarriedBy, T!Token
<1>3. ASSUME tokenPc'[c] = "idle", tokenOutcome'[c].kind = "error" PROVE CarriedBy(c)'
  BY <1>0, <1>1, <1>3 DEF CarriedBy
<1>4. ASSUME tokenPc'[c] # "idle", UNCHANGED tokenOutcome PROVE CarriedBy(c)'
  BY <1>0, <1>1, <1>4 DEF CarriedBy
<1>5. CASE T!FastHit(c) \/ T!SlowHit(c)
  <2>1. cached \in T!Token /\ now < expiresAt /\ T!Return(c, T!Returned("token", cached))
    BY <1>0, <1>5 DEF T!FastHit, T!SlowHit, T!Fresh, T!TypeOK
  <2>2. now + Margin < T!ProviderExpiry(cached)
    BY <1>0, <2>1, ClientAssumption DEF Stored, Margin, T!ProviderExpiry, T!Token, T!TypeOK
  <2> QED
    BY <1>0, <1>2, <2>1, <2>2 DEF T!Return, T!TypeOK
<1>6. CASE T!Store(c)
  <2>1. reply[c] \in T!Token /\ now < expiry[c] /\ T!Return(c, T!Returned("token", reply[c]))
    BY <1>0, <1>6 DEF T!Store, ExchangeOf
  <2>2. now + Margin < T!ProviderExpiry(reply[c])
    BY <1>0, <1>6, <2>1, ClientAssumption
    DEF ExchangeOf, T!Store, Margin, T!ProviderExpiry, T!Token, T!TypeOK
  <2> QED
    BY <1>0, <1>2, <2>1, <2>2 DEF T!Return, T!TypeOK
<1>7. CASE T!FetchRefused(c) \/ T!TooSoon(c) \/ T!FetchFails(c)
  BY <1>0, <1>3, <1>7
  DEF T!FetchRefused, T!TooSoon, T!FetchFails, T!Return, T!Returned, T!TypeOK
<1>8. CASE T!FastMiss(c) \/ T!StartFetch(c) \/ T!Issue(c) \/ T!Decode(c)
  BY <1>0, <1>4, <1>8 DEF T!FastMiss, T!StartFetch, T!Issue, T!Decode, T!TypeOK
<1> QED
  BY <1>5, <1>6, <1>7, <1>8 DEF T!Progress

\* The retry loop spends no more of the margin than its budget.
LEMMA CarriedThroughLoop ==
    ASSUME TypeOK, NEW c \in Calls, CarriedBy(c), R!Loop(c), UNCHANGED tokenVars
    PROVE  CarriedBy(c)'
<1>0. /\ R!TypeOK /\ UNCHANGED <<now, tokenPc[c], tokenOutcome[c]>>
      /\ tokenOutcome[c].kind = "token" => tokenOutcome[c].token \in T!Token
  BY RequestElsewhere DEF TypeOK, RequestStep, tokenVars, CarriedBy
<1> DEFINE E == T!ProviderExpiry(tokenOutcome[c].token)
           B(a) == R!Budget(a)
<1>e. E' = E
  BY <1>0 DEF T!ProviderExpiry
<1>l. \A b : /\ Lasts(c, now, attempt[c], b) <=> now + Margin < E + B(attempt[c]) + b
             /\ Lasts(c, timer[c], attempt[c], b) <=> timer[c] + Margin < E + B(attempt[c]) + b
  BY DEF Lasts
<1>m. /\ Lasts(c, now, attempt[c], 0)' <=> now + Margin < E + B(attempt'[c]) + 0
      /\ Lasts(c, timer[c], attempt[c], AttemptTimeout)'
           <=> timer'[c] + Margin < E + B(attempt'[c]) + AttemptTimeout
      /\ Lasts(c, timer[c], attempt[c], AttemptTimeout + R!MaxSleep)'
           <=> timer'[c] + Margin < E + B(attempt'[c]) + (AttemptTimeout + R!MaxSleep)
  BY <1>0, <1>e DEF Lasts, Margin, R!Budget, R!MaxSleep
<1> HIDE DEF E, B
<1>k. /\ now \in Nat /\ timer[c] \in Nat /\ attempt[c] \in 0..MaxRetries
      /\ AttemptTimeout \in Nat /\ R!MaxSleep \in Nat /\ MaxRetries \in Nat
      /\ Margin \in Int /\ B(attempt[c]) \in Nat
      /\ B(attempt[c] + 1) = B(attempt[c]) + AttemptTimeout + R!MaxSleep
      /\ tokenOutcome[c].token \in T!Token => E \in Nat
  BY Numbers DEF B, E
<1> USE DEF R!Goto
<1>1. ASSUME pc'[c] = "returned" PROVE CarriedBy(c)'
  BY <1>0, <1>1 DEF CarriedBy
<1>2. CASE R!RequestRejected(c) \/ R!CutOff(c) \/ R!Conclude(c)
  BY <1>0, <1>1, <1>2 DEF R!RequestRejected, R!CutOff, R!Conclude, R!Return, R!TypeOK
<1>3. CASE R!Send(c)
  <2>1. /\ pc[c] = "ready" /\ pc'[c] = "waiting" /\ timer'[c] = now + AttemptTimeout
        /\ UNCHANGED attempt
    BY <1>0, <1>3 DEF R!Send, R!TypeOK
  <2>2. tokenOutcome[c].kind = "token" => Lasts(c, timer[c], attempt[c], AttemptTimeout)'
    BY <1>0, <1>l, <1>m, <1>k, <2>1 DEF CarriedBy
  <2> QED
    BY <1>0, <1>k, <2>1, <2>2 DEF CarriedBy, T!Token
<1>4. ASSUME NEW b \in Nat, b <= R!MaxSleep, timer'[c] = now + b, attempt[c] < MaxRetries,
             pc[c] \in {"ready", "waiting", "replied"}, pc'[c] = "sleeping", UNCHANGED attempt
      PROVE  CarriedBy(c)'
  <2>1. tokenOutcome[c].kind = "token" => now + Margin < E + B(attempt[c]) + AttemptTimeout
    BY <1>0, <1>4, <1>l, <1>k DEF CarriedBy
  <2>2. tokenOutcome[c].kind = "token" =>
          Lasts(c, timer[c], attempt[c], AttemptTimeout + R!MaxSleep)'
    BY <1>0, <1>4, <1>m, <1>k, <2>1
  <2> QED
    BY <1>0, <1>4, <1>k, <2>2 DEF CarriedBy, T!Token
<1>5. CASE R!TransportFails(c) \/ R!StatusFails(c)
  <2>1. PICK o \in {"transport", "status"} :
          R!Retry(c) \/ R!GiveUp(c, o) \/ (R!Return(c, o) /\ UNCHANGED timer)
    BY <1>5 DEF R!TransportFails, R!StatusFails
  <2>2. pc[c] \in {"ready", "waiting", "replied"} /\ UNCHANGED attempt
    BY <1>5 DEF R!TransportFails, R!StatusFails
  <2>3. \/ /\ attempt[c] < MaxRetries
           /\ \E b \in Nat : b <= R!MaxSleep /\ timer' = [timer EXCEPT ![c] = now + b]
           /\ pc' = [pc EXCEPT ![c] = "sleeping"]
        \/ pc' = [pc EXCEPT ![c] = "returned"]
    BY <1>0, <2>1, AfterFailure
  <2> QED
    BY <1>0, <1>1, <1>4, <2>2, <2>3 DEF R!TypeOK
<1>6. CASE R!Wake(c)
  <2>1. /\ pc[c] = "sleeping" /\ pc'[c] = "ready" /\ attempt'[c] = attempt[c] + 1
        /\ now >= timer[c]
    BY <1>0, <1>6 DEF R!Wake, R!TypeOK
  <2>2. now = timer[c]
    BY <1>k, <2>1 DEF CarriedBy
  <2>3. tokenOutcome[c].kind = "token" => Lasts(c, now, attempt[c], 0)'
    BY <1>0, <1>l, <1>m, <1>k, <2>1, <2>2 DEF CarriedBy
  <2> QED
    BY <1>0, <2>1, <2>3 DEF CarriedBy, T!Token
<1> QED
  BY <1>2, <1>3, <1>5, <1>6 DEF R!Loop

\* What the provider does to an attempt takes no time: an answer comes before the timeout.
LEMMA CarriedByWire ==
    ASSUME TypeOK, NEW c \in Calls, CarriedBy(c), R!Provider(c), UNCHANGED tokenVars
    PROVE  CarriedBy(c)'
<1>0. /\ R!TypeOK /\ UNCHANGED <<now, tokenPc[c], tokenOutcome[c], attempt[c], timer[c]>>
      /\ \/ UNCHANGED pc[c]
         \/ pc[c] = "waiting" /\ pc'[c] = "replied"
  BY DEF TypeOK, R!TypeOK, tokenVars, R!Provider, R!Lose, R!Answer, R!Goto, R!preparation,
         R!loop
<1>1. CASE UNCHANGED pc[c]
  BY <1>0, <1>1, CarriedStays
<1>2. CASE pc[c] = "waiting" /\ pc'[c] = "replied"
  <2>1. ASSUME tokenOutcome[c].kind = "token" PROVE Lasts(c, now, attempt[c], AttemptTimeout)
    <3>1. now <= timer[c] /\ Lasts(c, timer[c], attempt[c], AttemptTimeout)
      BY <1>2, <2>1 DEF CarriedBy
    <3>2. tokenOutcome[c].token \in T!Token
      BY <2>1 DEF CarriedBy
    <3> QED
      BY <3>1, <3>2, Numbers DEF Lasts
  <2>2. Lasts(c, now, attempt[c], AttemptTimeout) => Lasts(c, now, attempt[c], AttemptTimeout)'
    BY <1>0 DEF Lasts, Margin, T!ProviderExpiry, R!Budget, R!MaxSleep
  <2> QED
    BY <1>0, <1>2, <2>1, <2>2 DEF CarriedBy, T!Token
<1> QED
  BY <1>0, <1>1, <1>2

\* Preparing a call takes no time, and asks for one token.
LEMMA CarriedThroughPreparation ==
    ASSUME TypeOK, NEW c \in Calls, CarriedBy(c), R!Begin(c) \/ R!Prepare(c),
           UNCHANGED tokenVars
    PROVE  CarriedBy(c)'
<1>0. R!TypeOK /\ UNCHANGED <<now, tokenPc[c], tokenOutcome[c], attempt[c], timer[c]>>
  BY DEF TypeOK, tokenVars, R!Begin, R!Prepare, R!PathRejected, R!AskToken,
         R!TokenRefused, R!BodyRejected, R!Enter, R!preparation, R!loop
<1>1. CASE \/ pc[c] = "idle" /\ pc'[c] = "preparing"
           \/ pc[c] = "preparing" /\ pc'[c] = "headers"
  BY <1>0, <1>1 DEF CarriedBy
<1>2. CASE pc'[c] = "returned"
  BY <1>0, <1>2 DEF CarriedBy
<1>3. CASE pc[c] = "headers" /\ pc'[c] = "ready"
  <2>1. Lasts(c, now, attempt[c], 0) => Lasts(c, now, attempt[c], 0)'
    BY <1>0 DEF Lasts, Margin, T!ProviderExpiry, R!Budget, R!MaxSleep
  <2> QED
    BY <1>0, <1>3, <2>1 DEF CarriedBy, T!Token
<1> QED
  BY <1>0, <1>1, <1>2, <1>3 DEF R!Begin, R!Prepare, R!PathRejected, R!AskToken,
     R!TokenRefused, R!BodyRejected, R!Enter, R!Return, R!Goto, R!TypeOK

\* The clock waits for every call that is not waiting, and for each wait's own end.
LEMMA CarriedThroughTime ==
    ASSUME TypeOK, NEW c \in Calls, CarriedBy(c), Tick
    PROVE  CarriedBy(c)'
<1>0. /\ R!TypeOK /\ T!TypeOK
      /\ UNCHANGED <<tokenPc[c], tokenOutcome[c], pc[c], attempt[c], timer[c]>>
  BY TickAlone DEF TypeOK, tokenVars, requestVars
<1>1. pc[c] \notin {"ready", "replied"}
  BY DEF Tick, R!Elapse, R!ClockMayReach
<1>2. pc[c] \in {"waiting", "sleeping"} => now' <= timer[c]
  BY DEF Tick, R!Elapse, R!ClockMayReach, R!Timed
<1>3. pc[c] = "headers" => tokenPc[c] # "idle"
  BY DEF Tick, Hurrying
<1>4. /\ Lasts(c, timer[c], attempt[c], AttemptTimeout)
           => Lasts(c, timer[c], attempt[c], AttemptTimeout)'
      /\ Lasts(c, timer[c], attempt[c], AttemptTimeout + R!MaxSleep)
           => Lasts(c, timer[c], attempt[c], AttemptTimeout + R!MaxSleep)'
  BY <1>0 DEF Lasts, Margin, T!ProviderExpiry, R!Budget, R!MaxSleep
<1> QED
  BY <1>0, <1>1, <1>2, <1>3, <1>4 DEF CarriedBy, T!Token

\* Whatever a step is of, every call still carries its margin.
LEMMA CarriedStep == IInv /\ [Next]_vars => Carried'
<1> SUFFICES ASSUME IInv, [Next]_vars, NEW d \in Calls PROVE CarriedBy(d)'
  BY DEF Carried
<1>0. /\ TypeOK /\ T!TypeOK /\ R!TypeOK /\ Asking /\ Exchanged /\ Stored
      /\ \A c \in Calls : CarriedBy(c)
  BY ComponentFacts DEF IInv, TypeOK, Carried
<1>1. ASSUME NEW c \in Calls, RequestStep(c), UNCHANGED tokenVars
      PROVE  CarriedBy(d)'
  <2>1. c # d => CarriedBy(d)'
    BY <1>0, <1>1, RequestElsewhere, CarriedStays DEF tokenVars
  <2>2. CASE R!Cancel(c)
    BY <1>0, <1>1, <2>2, CarriedStays DEF R!Cancel, R!loop, tokenVars
  <2> QED
    BY <1>0, <1>1, <2>1, <2>2, CarriedThroughLoop, CarriedByWire, CarriedThroughPreparation
    DEF RequestStep
<1>2. ASSUME NEW c \in Calls, T!Progress(c), UNCHANGED requestVars PROVE CarriedBy(d)'
  <2>1. c # d => CarriedBy(d)'
    BY <1>0, <1>2, TokenElsewhere, CarriedStays DEF TokenStep, requestVars
  <2> QED
    BY <1>0, <1>2, <2>1, CarriedFromToken
<1>3. ASSUME NEW c \in Calls, R!AskToken(c), T!Call(c) \/ T!CallWithOverride(c)
      PROVE  CarriedBy(d)'
  <2>1. c # d => CarriedBy(d)'
    BY <1>0, <1>3, RequestElsewhere, TokenElsewhere, CarriedStays
    DEF RequestStep, TokenStep, R!Prepare
  <2>2. /\ pc[c] = "preparing" /\ pc'[c] = "headers" /\ UNCHANGED attempt
        /\ tokenOutcome'[c].kind \in {"override", tokenOutcome[c].kind}
        /\ tokenPc'[c] # "idle" => UNCHANGED tokenOutcome
    BY <1>0, <1>3 DEF R!AskToken, R!Goto, R!loop, R!TypeOK, T!Call, T!CallWithOverride,
                      T!Return, T!Returned, T!TypeOK
  <2>3. CarriedBy(c)'
    BY <1>0, <2>2 DEF CarriedBy
  <2> QED
    BY <2>1, <2>3
<1>4. ASSUME NEW c \in Calls, R!Cancel(c), T!Cancel(c) PROVE CarriedBy(d)'
  BY <1>0, <1>4, CarriedStays DEF R!Cancel, R!loop, T!Cancel
<1>5. CASE Tick
  BY <1>0, <1>5, CarriedThroughTime
<1>6. CASE UNCHANGED vars
  BY <1>0, <1>6, CarriedStays DEF vars, tokenVars, requestVars
<1> QED
  BY <1>0, <1>1, <1>2, <1>3, <1>4, <1>5, <1>6, StepsSplit

--------------------------------------------------------------------------------

\* The initial states satisfy the inductive invariant.
LEMMA InvInit == Init => IInv
<1> SUFFICES ASSUME Init PROVE IInv
  OBVIOUS
<1>1. TP!Inv
  BY SameInit, TP!InvInit, ClientAssumption DEF Init, ClientAssumption
<1>2. RP!IInv
  BY SameInit, RP!InvInit, ClientAssumption DEF Init, ClientAssumption
<1>3. Asking /\ Carried
  BY DEF Init, T!Init, R!Init, Asking, Carried, CarriedBy, T!Returned
<1> QED
  BY <1>1, <1>2, <1>3 DEF IInv

\* Every step keeps the inductive invariant.
LEMMA InvStep == IInv /\ [Next]_vars => IInv'
<1> SUFFICES ASSUME IInv, [Next]_vars PROVE IInv'
  OBVIOUS
<1>1. TypeOK /\ Exchanged /\ Stored
  BY ComponentFacts DEF IInv
<1>2. TP!Inv'
  BY <1>1, ComponentSteps, TP!InvStep, ClientAssumption DEF IInv, ClientAssumption
<1>3. RP!IInv'
  BY <1>1, ComponentSteps, RP!InvStep, ClientAssumption DEF IInv, ClientAssumption
<1> QED
  BY <1>1, <1>2, <1>3, AskingStep, CarriedStep DEF IInv

\* The inductive invariant holds in every reachable state.
LEMMA Invariance == Spec => []IInv
  BY InvInit, InvStep, PTL DEF Spec

\* Every variable of the client keeps its type, whatever the constants.
THEOREM TypeCorrect == Spec => []TypeOK
  BY ComponentFacts, Invariance, PTL DEF IInv

\* In a client, too, one exchange at most is under way, however many calls need a token, and
\* none while a usable token is cached (auth.go:66-98).
THEOREM OneExchange == Spec => [](T!SingleFlight /\ T!FetchOnlyWhenStale)
<1>1. IInv => T!SingleFlight /\ T!FetchOnlyWhenStale
  BY DEF IInv, TP!Inv, TP!SingleFlight, T!SingleFlight, TP!Fetching, T!Fetching,
         TP!FetchOnlyWhenStale, T!FetchOnlyWhenStale, TP!Fresh, T!Fresh
<1> QED
  BY <1>1, Invariance, PTL

\* A call in a client keeps its budget of time and repeats nothing without a reason, wherever
\* its token comes from (client.go:122-161).
THEOREM CallsKeepBounds == Spec => [](R!CallTakesAtMost /\ R!RetryOnlyTransient)
<1>1. RP!CallTakesAtMost <=> R!CallTakesAtMost
  BY DEF RP!CallTakesAtMost, R!CallTakesAtMost, RP!InLoop, R!InLoop, RP!Budget, R!Budget,
         RP!MaxSleep, R!MaxSleep
<1>2. RP!RetryOnlyTransient <=> R!RetryOnlyTransient
  BY DEF RP!RetryOnlyTransient, R!RetryOnlyTransient, RP!RetriableMethods, R!RetriableMethods,
         RP!RetriableStatuses, R!RetriableStatuses
<1>3. IInv => RP!CallTakesAtMost /\ RP!RetryOnlyTransient
  BY RP!InBudget, RP!RepeatedForAReason, ClientAssumption DEF IInv, ClientAssumption
<1> QED
  BY <1>1, <1>2, <1>3, Invariance, PTL

\* The tokens of a client come from an atomic register: TokenSource is implemented where the
\* calls that ask for them run through the retry loop.
THEOREM TokensFromSource ==
    Spec => T!Source!Init /\ [][T!Source!Next]_(T!Source!vars)
<1>1. TP!Source!Init => T!Source!Init
  BY DEF TP!Source!Init, T!Source!Init, TP!Source!Returned, T!Source!Returned
<1>2. ASSUME [TP!Source!Next]_(TP!Source!vars) PROVE [T!Source!Next]_(T!Source!vars)
  <2>1. ASSUME UNCHANGED TP!Source!vars PROVE UNCHANGED T!Source!vars
    BY <2>1 DEF TP!Source!vars, T!Source!vars
  <2>2. ASSUME TP!Source!Next PROVE T!Source!Next
    <3> USE DEF TP!Source!Returned, T!Source!Returned, TP!Source!Usable, T!Source!Usable,
                TP!Source!Finish, T!Source!Finish
    <3>1. /\ TP!Source!Advance => T!Source!Advance
          /\ \A c \in Calls :
                /\ TP!Source!AnswerFixed(c) => T!Source!AnswerFixed(c)
                /\ TP!Source!Begin(c) => T!Source!Begin(c)
      BY DEF TP!Source!Advance, T!Source!Advance, TP!Source!AnswerFixed, T!Source!AnswerFixed,
             TP!Source!Begin, T!Source!Begin
    <3>2. ASSUME NEW c \in Calls, TP!Source!Answer(c) PROVE T!Source!Answer(c)
      BY <3>2 DEF TP!Source!Answer, T!Source!Answer, TP!Source!Serve, T!Source!Serve,
             TP!Source!Renew, T!Source!Renew, TP!Source!Refuse, T!Source!Refuse,
             TP!Source!Tokens, T!Source!Tokens
    <3> QED
      BY <2>2, <3>1, <3>2 DEF TP!Source!Next, T!Source!Next
  <2> QED
    BY <1>2, <2>1, <2>2
<1>3. Init => TP!Source!Init
  BY SameInit, TP!SourceInit, ClientAssumption DEF Init, ClientAssumption
<1>4. IInv /\ [Next]_vars => [TP!Source!Next]_(TP!Source!vars)
  BY ComponentFacts, ComponentSteps, TP!SourceStep, ClientAssumption DEF IInv, ClientAssumption
<1> QED
  BY <1>1, <1>2, <1>3, <1>4, Invariance, PTL DEF Spec

\* Every call of a client keeps the promise of RemoteCall: sharing a token manager brings no
\* execution where none is allowed.
THEOREM CallsKeepRemotePromise ==
    Spec => R!Remote!Init /\ [][R!Remote!Next]_(R!Remote!vars)
<1>1. RP!Remote!Init => R!Remote!Init
  BY DEF RP!Remote!Init, R!Remote!Init, RP!RetriableMethods, R!RetriableMethods
<1>2. ASSUME [RP!Remote!Next]_(RP!Remote!vars) PROVE [R!Remote!Next]_(R!Remote!vars)
  BY <1>2 DEF RP!Remote!Next, R!Remote!Next, RP!Remote!Open, R!Remote!Open, RP!Remote!Execute,
         R!Remote!Execute, RP!Remote!Close, R!Remote!Close, RP!Remote!vars, R!Remote!vars,
         RP!RetriableMethods, R!RetriableMethods
<1>3. Init => RP!Remote!Init
  BY SameInit, RP!RemoteInit, ClientAssumption DEF Init, ClientAssumption
<1>4. IInv /\ [Next]_vars => [RP!Remote!Next]_(RP!Remote!vars)
  BY ComponentFacts, ComponentSteps, RP!RemoteStep, ClientAssumption DEF IInv, ClientAssumption
<1> QED
  BY <1>1, <1>2, <1>3, <1>4, Invariance, PTL DEF Spec

\* Every attempt goes out with the margin its token was handed out with, less what the
\* attempts and sleeps before it took at most (auth.go:100-107, client.go:106-146).
THEOREM BearerCorrect == Spec => BearerMargin
<1> DEFINE M == \A c \in Calls :
                  Sends(c) /\ tokenOutcome[c].kind = "token" =>
                    now + (Skew - Timeout) < T!ProviderExpiry(Bearer(c)) + R!Budget(attempt[c])
<1>1. IInv => M
  <2> SUFFICES ASSUME IInv, NEW c \in Calls, Sends(c), tokenOutcome[c].kind = "token"
               PROVE  now + (Skew - Timeout)
                        < T!ProviderExpiry(Bearer(c)) + R!Budget(attempt[c])
    OBVIOUS
  <2>1. Lasts(c, now, attempt[c], 0) /\ tokenOutcome[c].token \in T!Token /\ TypeOK
    BY ComponentFacts DEF IInv, Carried, CarriedBy, Sends
  <2> QED
    BY <2>1, Numbers DEF Lasts, Margin, Bearer
<1>2. IInv /\ [Next]_vars => [M]_vars
  BY <1>1
<1> QED
  BY <1>2, Invariance, PTL DEF Spec, BearerMargin
================================================================================
