----------------------------- MODULE RequestProofs -----------------------------
(***************************************************************************)
(* Proofs about Request, for every number of calls and retries, every      *)
(* timeout and backoff, and every set of statuses and bodies.              *)
(*                                                                         *)
(* Three invariants, each inductive with TypeOK: Timely follows the clock  *)
(* around the retry loop; Transient says why an attempt is repeated;       *)
(* Effects counts what an unsafe call has on the wire and at the provider. *)
(***************************************************************************)
EXTENDS Request, TLAPS

\* The wait a call is in ends in time, and so does everything before it.
TimelyCall(c) ==
    /\ pc[c] \in {"idle", "preparing", "headers"} => attempt[c] = 0
    /\ pc[c] = "ready" => now <= begun[c] + Budget(attempt[c])
    /\ pc[c] = "replied" => now <= begun[c] + Budget(attempt[c]) + AttemptTimeout
    /\ pc[c] = "waiting" =>
        /\ now <= timer[c]
        /\ timer[c] <= begun[c] + Budget(attempt[c]) + AttemptTimeout
    /\ pc[c] = "sleeping" =>
        /\ attempt[c] < MaxRetries
        /\ now <= timer[c]
        /\ timer[c] <= begun[c] + Budget(attempt[c]) + AttemptTimeout + MaxSleep

Timely == \A c \in Calls : TimelyCall(c)

\* A call that will be repeated may be, and was given a reason.
TransientCall(c) ==
    /\ attempt[c] > 0 \/ pc[c] = "sleeping" => request[c].method \in RetriableMethods
    /\ pc[c] = "sleeping" \/ (attempt[c] > 0 /\ pc[c] \in {"ready", "waiting"}) =>
        response[c].status \in RetriableStatuses \union {0}

Transient == \A c \in Calls : TransientCall(c)

\* Nothing of c was ever executed, and nothing of it is under way.
Untouched(c) == wire[c] = {} /\ executed[c] = 0

Unsafe(c) == request[c].method \notin RetriableMethods

EffectsOf(c) ==
    /\ outcome[c] = "none" <=> pc[c] # "returned"
    /\ pc[c] \in {"idle", "preparing", "headers"} => Untouched(c)
    /\ outcome[c] = "rejected" => Untouched(c)
    /\ request[c].fault = "request" =>
        Untouched(c) /\ pc[c] \notin {"waiting", "replied", "sleeping"}
    /\ pc[c] = "replied" /\ Successful(response[c].status) => executed[c] > 0
    /\ Unsafe(c) =>
        /\ pc[c] = "ready" => Untouched(c)
        /\ pc[c] = "waiting" => executed[c] = 0
        /\ pc[c] = "replied" => wire[c] = {}
        /\ wire[c] # {} => executed[c] = 0 /\ wire[c] = {attempt[c]}
        /\ pc[c] = "returned" /\ outcome[c] # "transport" => wire[c] = {}

Effects == \A c \in Calls : EffectsOf(c)

IInv == TypeOK /\ Timely /\ Transient /\ Effects

\* What may happen where no bound stops the clock.
Unbounded ==
    \/ \E c \in Calls : Begin(c) \/ Cancel(c) \/ Prepare(c) \/ Loop(c) \/ Provider(c)
    \/ Elapse

--------------------------------------------------------------------------------

\* A backoff is a number of ticks, at most MaxSleep of them.
LEMMA BackoffBound ==
    ASSUME NEW a \in Nat, NEW b \in Backoffs(a)
    PROVE  b \in Nat /\ b <= MaxSleep
<1>1. Delay(a) \in 0..BackoffMax
  BY RequestAssumption DEF Delay
<1>2. b \in Nat /\ 4 * b <= 5 * BackoffMax
  BY <1>1, RequestAssumption DEF Backoffs
<1> QED
  BY <1>2, RequestAssumption DEF MaxSleep

\* The initial states are well typed.
LEMMA TypeInit == Init => TypeOK
  BY RequestAssumption DEF Init, TypeOK, NoResponse, Responses

\* Every step keeps every variable in its type.
LEMMA TypeStep == TypeOK /\ Timely /\ [Unbounded]_vars => TypeOK'
<1> SUFFICES ASSUME TypeOK, Timely, [Unbounded]_vars PROVE TypeOK'
  OBVIOUS
<1> USE RequestAssumption DEF TypeOK, Goto, preparation, loop, provider
<1>1. ASSUME NEW c \in Calls, Begin(c) \/ AskToken(c) \/ Enter(c) PROVE TypeOK'
  <2>1. CASE Begin(c)
    BY <2>1 DEF Begin
  <2>2. CASE AskToken(c)
    BY <2>2 DEF AskToken
  <2>3. CASE Enter(c)
    BY <2>3 DEF Enter
  <2> QED
    BY <1>1, <2>1, <2>2, <2>3
<1>2. ASSUME NEW c \in Calls, Cancel(c) PROVE TypeOK'
  BY <1>2 DEF Cancel
<1>3. ASSUME NEW c \in Calls,
             PathRejected(c) \/ TokenRefused(c) \/ BodyRejected(c) \/ RequestRejected(c)
                \/ CutOff(c)
      PROVE TypeOK'
  <2>1. PICK o \in {"rejected", "body"} : Return(c, o)
    BY <1>3 DEF PathRejected, TokenRefused, BodyRejected, RequestRejected, CutOff
  <2>2. UNCHANGED <<preparation, loop, provider, response>>
    BY <1>3 DEF PathRejected, TokenRefused, BodyRejected, RequestRejected, CutOff
  <2> QED
    BY <2>1, <2>2 DEF Return
<1>4. ASSUME NEW c \in Calls, Conclude(c) PROVE TypeOK'
  <2>1. PICK o \in {"value", "body", "schema"} : Return(c, o)
    BY <1>4 DEF Conclude
  <2> QED
    BY <1>4, <2>1 DEF Conclude, Return
<1>5. ASSUME NEW c \in Calls, NEW o \in {"transport", "status"},
             Retry(c) \/ GiveUp(c, o) \/ (Return(c, o) /\ UNCHANGED timer)
      PROVE /\ timer' \in [Calls -> Nat]
            /\ pc' \in [Calls -> {"idle", "preparing", "headers", "ready", "waiting",
                                  "replied", "sleeping", "returned"}]
            /\ outcome' \in [Calls -> {"none", "value", "rejected", "transport", "status",
                                       "body", "schema"}]
  <2>1. CASE Retry(c)
    <3>1. PICK b \in Backoffs(attempt[c]) : timer' = [timer EXCEPT ![c] = now + b]
      BY <2>1 DEF Retry
    <3>2. b \in Nat
      BY BackoffBound
    <3> QED
      BY <2>1, <3>1, <3>2 DEF Retry
  <2>2. CASE GiveUp(c, o) \/ (Return(c, o) /\ UNCHANGED timer)
    BY <2>2 DEF GiveUp, Return
  <2> QED
    BY <1>5, <2>1, <2>2
<1>6. ASSUME NEW c \in Calls, TransportFails(c) PROVE TypeOK'
  <2>1. NoResponse \in Responses
    BY DEF NoResponse, Responses
  <2> QED
    BY <1>5, <1>6, <2>1 DEF TransportFails
<1>7. ASSUME NEW c \in Calls, StatusFails(c) PROVE TypeOK'
  BY <1>5, <1>7 DEF StatusFails
<1>8. ASSUME NEW c \in Calls, Send(c) PROVE TypeOK'
  BY <1>8 DEF Send
<1>9. ASSUME NEW c \in Calls, Wake(c) PROVE TypeOK'
  BY <1>9 DEF Wake, Timely, TimelyCall
<1>10. ASSUME NEW c \in Calls, NEW a \in wire[c], Lose(c, a) PROVE TypeOK'
  BY <1>10 DEF Lose
<1>11. ASSUME NEW c \in Calls, NEW a \in wire[c], NEW r \in Answers, NEW n \in 0..1,
              Answer(c, a, r, n)
       PROVE TypeOK'
  <2>1. r \in Responses
    BY DEF Answers, Responses
  <2>2. wire' \in [Calls -> SUBSET (0..MaxRetries)]
    BY <1>11 DEF Answer
  <2>3. executed' \in [Calls -> Nat]
    <3>1. executed' = [executed EXCEPT ![c] = executed[c] + n]
      BY <1>11 DEF Answer
    <3>2. executed \in [Calls -> Nat] /\ executed[c] + n \in Nat
      OBVIOUS
    <3> HIDE DEF TypeOK
    <3> QED
      BY <3>1, <3>2
  <2>4. CASE pc[c] = "waiting" /\ attempt[c] = a
    <3>1. response' = [response EXCEPT ![c] = r] /\ pc' = [pc EXCEPT ![c] = "replied"]
      BY <1>11, <2>4 DEF Answer
    <3>2. UNCHANGED <<now, request, begun, cancelled, attempt, timer, outcome>>
      BY <1>11 DEF Answer
    <3>3. response' \in [Calls -> Responses]
      BY <2>1, <3>1
    <3> QED
      BY <2>2, <2>3, <3>1, <3>2, <3>3
  <2>5. CASE ~(pc[c] = "waiting" /\ attempt[c] = a)
    BY <1>11, <2>2, <2>3, <2>5 DEF Answer
  <2> QED
    BY <2>4, <2>5
<1>12. CASE Elapse
  BY <1>12 DEF Elapse
<1>13. CASE UNCHANGED vars
  BY <1>13 DEF vars
<1> HIDE DEF TypeOK
<1> QED
  BY <1>1, <1>2, <1>3, <1>4, <1>6, <1>7, <1>8, <1>9, <1>10, <1>11, <1>12, <1>13
  DEF Unbounded, Prepare, Loop, Provider

--------------------------------------------------------------------------------

\* The budget grows by one timeout and one sleep with each attempt.
LEMMA BudgetGrows ==
    /\ MaxSleep \in Nat
    /\ Budget(0) = 0
    /\ \A a \in Nat :
        /\ Budget(a) \in Nat
        /\ Budget(a + 1) = Budget(a) + AttemptTimeout + MaxSleep
<1>1. MaxSleep \in Nat
  BY RequestAssumption DEF MaxSleep
<1>2. PICK k \in Nat : k = AttemptTimeout + MaxSleep
  BY <1>1, RequestAssumption
<1>3. \A a : Budget(a) = a * k
  BY <1>2 DEF Budget
<1>4. \A a \in Nat : (a + 1) * k = a * k + k /\ a * k \in Nat
  BY <1>2
<1>5. AttemptTimeout \in Nat
  BY RequestAssumption
<1>6. \A a \in Nat : Budget(a + 1) = Budget(a) + AttemptTimeout + MaxSleep
  <2> TAKE a \in Nat
  <2>1. Budget(a + 1) = Budget(a) + k /\ Budget(a) \in Nat
    BY <1>3, <1>4
  <2> QED
    BY <2>1, <1>1, <1>2, <1>5
<1>7. Budget(0) = 0
  BY <1>2, <1>3
<1> QED
  BY <1>1, <1>3, <1>4, <1>6, <1>7

\* More attempts have no less time.
LEMMA BudgetMonotone ==
    ASSUME NEW a \in Nat, NEW b \in Nat, a <= b
    PROVE  Budget(a) <= Budget(b)
<1>1. PICK k \in Nat : k = AttemptTimeout + MaxSleep
  BY BudgetGrows, RequestAssumption
<1> QED
  BY <1>1 DEF Budget

\* A call nothing happens to stays in time.
LEMMA TimelyStays ==
    ASSUME NEW c \in Calls, TimelyCall(c),
           UNCHANGED <<now, pc[c], attempt[c], timer[c], begun[c]>>
    PROVE  TimelyCall(c)'
  BY DEF TimelyCall, Budget

\* Every step keeps every call in time.
LEMMA TimelyStep == TypeOK /\ Timely /\ [Unbounded]_vars => Timely'
<1> SUFFICES ASSUME TypeOK, Timely, [Unbounded]_vars, NEW d \in Calls PROVE TimelyCall(d)'
  BY DEF Timely
<1> USE DEF Goto, preparation, loop, provider
<1>0. TimelyCall(d)
  BY DEF Timely
<1>t. /\ now \in Nat
      /\ pc \in [Calls -> {"idle", "preparing", "headers", "ready", "waiting", "replied",
                           "sleeping", "returned"}]
      /\ attempt \in [Calls -> 0..MaxRetries]
      /\ timer \in [Calls -> Nat] /\ begun \in [Calls -> Nat]
  BY DEF TypeOK
<1>b. \A a \in 0..MaxRetries :
        /\ Budget(a) \in Nat
        /\ Budget(a + 1) = Budget(a) + AttemptTimeout + MaxSleep
  <2> TAKE a \in 0..MaxRetries
  <2>1. a \in Nat
    BY RequestAssumption
  <2> QED
    BY <2>1, BudgetGrows
<1>n. AttemptTimeout \in Nat /\ MaxSleep \in Nat
  BY BudgetGrows, RequestAssumption
<1> DEFINE Same == UNCHANGED <<now, pc[d], attempt[d], timer[d], begun[d]>>
<1>u. Same => TimelyCall(d)'
  BY <1>0, TimelyStays
<1> HIDE DEF Same
<1>1. ASSUME NEW c \in Calls, Begin(c) \/ AskToken(c) PROVE TimelyCall(d)'
  <2>1. UNCHANGED <<now, attempt, timer, begun>>
    BY <1>1 DEF Begin, AskToken
  <2>2. UNCHANGED pc[d] \/ (pc[d] \in {"idle", "preparing"} /\ pc'[d] \in {"preparing", "headers"})
    BY <1>1, <1>t DEF Begin, AskToken
  <2> QED
    BY <1>0, <1>u, <2>1, <2>2 DEF TimelyCall, Same
<1>2. ASSUME NEW c \in Calls, Cancel(c) PROVE TimelyCall(d)'
  BY <1>2, <1>u DEF Cancel, Same
<1>3. ASSUME NEW c \in Calls, NEW o, Return(c, o), UNCHANGED <<now, begun, attempt, timer>>
      PROVE TimelyCall(d)'
  <2>1. UNCHANGED pc[d] \/ pc'[d] = "returned"
    BY <1>3, <1>t DEF Return
  <2>2. CASE pc'[d] = "returned"
    BY <2>2 DEF TimelyCall
  <2> QED
    BY <1>3, <1>u, <2>1, <2>2 DEF Same
<1>4. ASSUME NEW c \in Calls, Enter(c) PROVE TimelyCall(d)'
  <2>1. CASE d = c
    BY <1>0, <1>4, <1>t, <2>1, BudgetGrows DEF Enter, TimelyCall
  <2>2. CASE d # c
    BY <1>4, <1>t, <1>u, <2>2 DEF Enter, Same
  <2> QED
    BY <2>1, <2>2
<1>5. ASSUME NEW c \in Calls, Send(c) PROVE TimelyCall(d)'
  <2>1. CASE d = c
    <3>1. /\ now <= begun[d] + Budget(attempt[d])
          /\ timer'[d] = now + AttemptTimeout /\ pc'[d] = "waiting"
          /\ UNCHANGED <<now, begun, attempt>>
      BY <1>0, <1>5, <1>t, <2>1 DEF Send, TimelyCall
    <3> QED
      BY <1>b, <1>n, <1>t, <3>1 DEF TimelyCall
  <2>2. CASE d # c
    BY <1>5, <1>t, <1>u, <2>2 DEF Send, Same
  <2> QED
    BY <2>1, <2>2
<1>6. ASSUME NEW c \in Calls, Retry(c), pc[c] \in {"ready", "waiting", "replied"},
             UNCHANGED <<now, begun, attempt>>
      PROVE TimelyCall(d)'
  <2>1. PICK b \in Backoffs(attempt[c]) : timer' = [timer EXCEPT ![c] = now + b]
    BY <1>6 DEF Retry
  <2>2. b \in Nat /\ b <= MaxSleep
    BY <1>t, BackoffBound
  <2>3. CASE d = c
    <3>1. now <= begun[d] + Budget(attempt[d]) + AttemptTimeout
      BY <1>0, <1>6, <1>b, <1>n, <1>t, <2>3 DEF TimelyCall
    <3>2. /\ timer'[d] = now + b /\ pc'[d] = "sleeping" /\ attempt[d] < MaxRetries
          /\ UNCHANGED <<now, begun[d], attempt[d]>>
      BY <1>6, <1>t, <2>1, <2>3 DEF Retry
    <3> QED
      BY <1>b, <1>n, <1>t, <2>2, <3>1, <3>2 DEF TimelyCall
  <2>4. CASE d # c
    BY <1>6, <1>t, <1>u, <2>1, <2>4 DEF Retry, Same
  <2> QED
    BY <2>3, <2>4
<1>7. ASSUME NEW c \in Calls, TransportFails(c) \/ StatusFails(c) PROVE TimelyCall(d)'
  BY <1>3, <1>6, <1>7 DEF TransportFails, StatusFails, GiveUp
<1>8. ASSUME NEW c \in Calls, Wake(c) PROVE TimelyCall(d)'
  <2>1. CASE d = c
    <3>1. /\ now <= begun[d] + Budget(attempt[d] + 1)
          /\ attempt[d] < MaxRetries
      BY <1>0, <1>8, <1>b, <1>n, <1>t, <2>1 DEF Wake, TimelyCall
    <3>2. /\ pc'[d] = "ready" /\ attempt'[d] = attempt[d] + 1
          /\ UNCHANGED <<now, begun[d]>>
      BY <1>8, <1>t, <2>1 DEF Wake
    <3> QED
      BY <1>t, <3>1, <3>2 DEF TimelyCall
  <2>2. CASE d # c
    BY <1>8, <1>t, <1>u, <2>2 DEF Wake, Same
  <2> QED
    BY <2>1, <2>2
<1>9. ASSUME NEW c \in Calls, NEW a \in wire[c], Lose(c, a) PROVE TimelyCall(d)'
  BY <1>9, <1>u DEF Lose, Same
<1>10. ASSUME NEW c \in Calls, NEW a \in wire[c], NEW r, NEW n, Answer(c, a, r, n)
       PROVE TimelyCall(d)'
  <2>1. UNCHANGED <<now, attempt, timer, begun>>
    BY <1>10 DEF Answer
  <2>2. CASE pc[d] = "waiting" /\ pc'[d] = "replied"
    BY <1>0, <1>b, <1>n, <1>t, <2>1, <2>2 DEF TimelyCall
  <2>3. UNCHANGED pc[d] \/ (pc[d] = "waiting" /\ pc'[d] = "replied")
    BY <1>10, <1>t DEF Answer
  <2> QED
    BY <1>u, <2>1, <2>2, <2>3 DEF Same
<1>11. CASE Elapse
  <2>1. PICK t \in Nat : t = now' /\ ClockMayReach(t)
    BY <1>11, <1>t, RequestAssumption DEF Elapse
  <2>2. UNCHANGED <<pc, attempt, timer, begun>>
    BY <1>11 DEF Elapse
  <2>3. /\ pc[d] \notin {"ready", "replied"}
        /\ pc[d] \in {"waiting", "sleeping"} => t <= timer[d]
    BY <2>1 DEF ClockMayReach, Timed
  <2> QED
    BY <1>0, <1>t, <2>1, <2>2, <2>3 DEF TimelyCall
<1>12. CASE UNCHANGED vars
  BY <1>12, <1>u DEF vars, Same
<1>13. ASSUME NEW c \in Calls,
              PathRejected(c) \/ TokenRefused(c) \/ BodyRejected(c) \/ RequestRejected(c)
                \/ CutOff(c) \/ Conclude(c)
       PROVE TimelyCall(d)'
  BY <1>3, <1>13 DEF PathRejected, TokenRefused, BodyRejected, RequestRejected, CutOff,
                     Conclude
<1> QED
  BY <1>1, <1>2, <1>4, <1>5, <1>7, <1>8, <1>9, <1>10, <1>11, <1>12, <1>13
  DEF Unbounded, Prepare, Loop, Provider

--------------------------------------------------------------------------------

Own(c) == <<pc[c], attempt[c], wire[c], executed[c], response[c], outcome[c]>>

\* A step of one call leaves what every other call asks for, has sent and has got.
LEMMA Elsewhere ==
    ASSUME TypeOK, NEW c \in Calls, NEW d \in Calls, d # c,
           Begin(c) \/ Cancel(c) \/ Prepare(c) \/ Loop(c) \/ Provider(c)
    PROVE  UNCHANGED Own(d)
<1> USE DEF TypeOK, Goto, Return, preparation, loop, provider, Own
<1>1. CASE Begin(c)
  BY <1>1 DEF Begin
<1>2. CASE Cancel(c)
  BY <1>2 DEF Cancel
<1>3. CASE PathRejected(c) \/ TokenRefused(c) \/ BodyRejected(c) \/ RequestRejected(c)
              \/ CutOff(c)
  BY <1>3 DEF PathRejected, TokenRefused, BodyRejected, RequestRejected, CutOff
<1>4. CASE AskToken(c) \/ Enter(c)
  BY <1>4 DEF AskToken, Enter
<1>5. CASE Send(c)
  BY <1>5 DEF Send
<1>6. CASE TransportFails(c) \/ StatusFails(c)
  <2>1. UNCHANGED <<pc[d], outcome[d]>>
    BY <1>6 DEF TransportFails, StatusFails, Retry, GiveUp
  <2>2. UNCHANGED <<attempt, wire, executed, response[d]>>
    BY <1>6 DEF TransportFails, StatusFails
  <2> QED
    BY <2>1, <2>2
<1>7. CASE Conclude(c)
  <2>1. PICK o : Return(c, o)
    BY <1>7 DEF Conclude
  <2> QED
    BY <1>7, <2>1 DEF Conclude
<1>8. CASE Wake(c)
  BY <1>8 DEF Wake
<1>9. CASE Provider(c)
  <2>1. ASSUME NEW a, Lose(c, a) PROVE UNCHANGED Own(d)
    BY <2>1 DEF Lose
  <2>2. ASSUME NEW a, NEW r, NEW n, Answer(c, a, r, n) PROVE UNCHANGED Own(d)
    BY <2>2 DEF Answer
  <2> QED
    BY <1>9, <2>1, <2>2 DEF Provider
<1> QED
  BY <1>1, <1>2, <1>3, <1>4, <1>5, <1>6, <1>7, <1>8, <1>9 DEF Prepare, Loop

\* What a call asks for never changes.
LEMMA SameRequest == [Unbounded]_vars => UNCHANGED request
<1> USE DEF preparation
<1>1. ASSUME NEW c \in Calls, Begin(c) \/ Cancel(c) \/ Prepare(c) \/ Loop(c) \/ Provider(c)
      PROVE  UNCHANGED request
  BY <1>1 DEF Begin, Cancel, Prepare, PathRejected, AskToken, TokenRefused, BodyRejected,
      Enter, Loop, RequestRejected, Send, TransportFails, StatusFails, CutOff, Conclude,
      Wake, Provider, Lose, Answer
<1> QED
  BY <1>1 DEF Unbounded, Elapse, vars

\* A step of c gives c no attempt it should not have.
LEMMA TransientOwn ==
    ASSUME TypeOK, NEW c \in Calls, TimelyCall(c), TransientCall(c), UNCHANGED request,
           Begin(c) \/ Cancel(c) \/ Prepare(c) \/ Loop(c) \/ Provider(c)
    PROVE  TransientCall(c)'
<1> USE DEF TypeOK, Goto, Return, preparation, loop, provider, TransientCall
<1>1. CASE Begin(c)
  BY <1>1 DEF Begin
<1>2. CASE Cancel(c)
  BY <1>2 DEF Cancel
<1>3. CASE PathRejected(c) \/ TokenRefused(c) \/ BodyRejected(c) \/ RequestRejected(c)
              \/ CutOff(c)
  BY <1>3 DEF PathRejected, TokenRefused, BodyRejected, RequestRejected, CutOff
<1>4. CASE AskToken(c) \/ Enter(c)
  BY <1>4 DEF AskToken, Enter, TimelyCall
<1>5. CASE Send(c)
  BY <1>5 DEF Send
<1>6. CASE TransportFails(c)
  <2>1. response'[c].status = 0 /\ UNCHANGED attempt
    BY <1>6 DEF TransportFails, NoResponse
  <2>2. \/ pc'[c] = "sleeping" /\ request[c].method \in RetriableMethods
        \/ pc'[c] = "returned"
    BY <1>6 DEF TransportFails, Retry, GiveUp
  <2> QED
    BY <2>1, <2>2
<1>7. CASE StatusFails(c)
  <2>1. UNCHANGED <<attempt, response>>
    BY <1>7 DEF StatusFails
  <2>2. \/ /\ pc'[c] = "sleeping" /\ request[c].method \in RetriableMethods
           /\ response[c].status \in RetriableStatuses
        \/ pc'[c] = "returned"
    BY <1>7 DEF StatusFails, Retry, GiveUp
  <2> QED
    BY <2>1, <2>2
<1>8. CASE Conclude(c)
  BY <1>8 DEF Conclude
<1>9. CASE Wake(c)
  <2>1. /\ pc[c] = "sleeping" /\ pc'[c] = "ready"
        /\ UNCHANGED response
    BY <1>9 DEF Wake
  <2> QED
    BY <2>1
<1>10. CASE Provider(c)
  <2>1. ASSUME NEW a, Lose(c, a) PROVE TransientCall(c)'
    BY <2>1 DEF Lose
  <2>2. ASSUME NEW a, NEW r, NEW n, Answer(c, a, r, n) PROVE TransientCall(c)'
    BY <2>2 DEF Answer
  <2> QED
    BY <1>10, <2>1, <2>2 DEF Provider
<1> QED
  BY <1>1, <1>2, <1>3, <1>4, <1>5, <1>6, <1>7, <1>8, <1>9, <1>10 DEF Prepare, Loop

\* No step repeats an attempt that must not be repeated.
LEMMA TransientStep == TypeOK /\ Timely /\ Transient /\ [Unbounded]_vars => Transient'
<1> SUFFICES ASSUME TypeOK, Timely, Transient, [Unbounded]_vars, NEW d \in Calls
             PROVE  TransientCall(d)'
  BY DEF Transient
<1>1. TimelyCall(d) /\ TransientCall(d) /\ UNCHANGED request
  BY SameRequest DEF Timely, Transient
<1>2. CASE UNCHANGED Own(d)
  BY <1>1, <1>2 DEF Own, TransientCall
<1>3. ASSUME NEW c \in Calls, Begin(c) \/ Cancel(c) \/ Prepare(c) \/ Loop(c) \/ Provider(c)
      PROVE  TransientCall(d)'
  BY <1>1, <1>2, <1>3, TransientOwn, Elsewhere
<1>4. CASE Elapse \/ UNCHANGED vars
  BY <1>2, <1>4 DEF Elapse, vars, Own, loop, provider
<1> QED
  BY <1>3, <1>4 DEF Unbounded

--------------------------------------------------------------------------------

\* A step of c leaves c's count of executions in order.
LEMMA EffectsOwn ==
    ASSUME TypeOK, NEW c \in Calls, TransientCall(c), EffectsOf(c), UNCHANGED request,
           Begin(c) \/ Cancel(c) \/ Prepare(c) \/ Loop(c) \/ Provider(c)
    PROVE  EffectsOf(c)'
<1> USE DEF TypeOK, Goto, preparation, loop, provider, EffectsOf, Untouched, Unsafe
<1>1. CASE Begin(c) \/ AskToken(c) \/ Enter(c)
  BY <1>1 DEF Begin, AskToken, Enter
<1>2. CASE Cancel(c)
  BY <1>2 DEF Cancel
<1>3. CASE PathRejected(c) \/ TokenRefused(c) \/ BodyRejected(c) \/ RequestRejected(c)
  BY <1>3 DEF PathRejected, TokenRefused, BodyRejected, RequestRejected, Return
<1>4. CASE CutOff(c)
  BY <1>4 DEF CutOff, Return
<1>5. CASE Send(c)
  BY <1>5 DEF Send, TransientCall
<1>6. CASE TransportFails(c)
  <2>1. UNCHANGED <<attempt, wire, executed>>
    BY <1>6 DEF TransportFails
  <2>2. \/ pc'[c] = "sleeping" /\ ~Unsafe(c) /\ UNCHANGED outcome
        \/ pc'[c] = "returned" /\ outcome'[c] = "transport"
    BY <1>6 DEF TransportFails, Retry, GiveUp, Return
  <2>3. request[c].fault # "request"
    BY <1>6 DEF TransportFails
  <2>4. outcome[c] = "none"
    BY <1>6 DEF TransportFails
  <2> QED
    BY <2>1, <2>2, <2>3, <2>4
<1>7. CASE StatusFails(c)
  <2>1. UNCHANGED <<attempt, wire, executed, response>>
    BY <1>7 DEF StatusFails
  <2>2. \/ pc'[c] = "sleeping" /\ ~Unsafe(c) /\ UNCHANGED outcome
        \/ pc'[c] = "returned" /\ outcome'[c] = "status"
    BY <1>7 DEF StatusFails, Retry, GiveUp, Return
  <2>3. request[c].fault # "request" /\ outcome[c] = "none" /\ (Unsafe(c) => wire[c] = {})
    BY <1>7 DEF StatusFails
  <2> QED
    BY <2>1, <2>2, <2>3
<1>8. CASE Conclude(c)
  <2>1. PICK o \in {"value", "body", "schema"} : Return(c, o)
    BY <1>8 DEF Conclude
  <2>2. UNCHANGED <<attempt, wire, executed, response>> /\ pc[c] = "replied"
    BY <1>8 DEF Conclude
  <2> QED
    BY <2>1, <2>2 DEF Return
<1>9. CASE Wake(c)
  BY <1>9 DEF Wake, TransientCall
<1>10. ASSUME NEW a \in wire[c], Lose(c, a) PROVE EffectsOf(c)'
  BY <1>10 DEF Lose
<1>11. ASSUME NEW a \in wire[c], NEW r \in Answers, NEW n \in 0..1, Answer(c, a, r, n)
       PROVE  EffectsOf(c)'
  <2>1. /\ wire'[c] = wire[c] \ {a}
        /\ executed'[c] = executed[c] + n
        /\ UNCHANGED <<attempt, outcome>>
        /\ executed[c] \in Nat
    BY <1>11 DEF Answer
  <2>2. \/ /\ pc[c] = "waiting" /\ attempt[c] = a
           /\ pc'[c] = "replied" /\ response'[c] = r
        \/ /\ ~(pc[c] = "waiting" /\ attempt[c] = a)
           /\ UNCHANGED <<pc[c], response[c]>>
    BY <1>11 DEF Answer
  <2>3. Successful(r.status) => n = 1
    BY <1>11 DEF Answer
  <2>4. outcome[c] # "rejected" /\ request[c].fault # "request"
           /\ pc[c] \notin {"idle", "preparing", "headers"}
    OBVIOUS
  <2> QED
    BY <2>1, <2>2, <2>3, <2>4
<1> QED
  BY <1>1, <1>2, <1>3, <1>4, <1>5, <1>6, <1>7, <1>8, <1>9, <1>10, <1>11
  DEF Prepare, Loop, Provider

\* No step puts an execution where none is allowed.
LEMMA EffectsStep == TypeOK /\ Transient /\ Effects /\ [Unbounded]_vars => Effects'
<1> SUFFICES ASSUME TypeOK, Transient, Effects, [Unbounded]_vars, NEW d \in Calls
             PROVE  EffectsOf(d)'
  BY DEF Effects
<1>1. TransientCall(d) /\ EffectsOf(d) /\ UNCHANGED request
  BY SameRequest DEF Transient, Effects
<1>2. CASE UNCHANGED Own(d)
  BY <1>1, <1>2 DEF Own, EffectsOf, Untouched, Unsafe
<1>3. ASSUME NEW c \in Calls, Begin(c) \/ Cancel(c) \/ Prepare(c) \/ Loop(c) \/ Provider(c)
      PROVE  EffectsOf(d)'
  BY <1>1, <1>2, <1>3, EffectsOwn, Elsewhere
<1>4. CASE Elapse \/ UNCHANGED vars
  BY <1>2, <1>4 DEF Elapse, vars, Own, loop, provider
<1> QED
  BY <1>3, <1>4 DEF Unbounded

--------------------------------------------------------------------------------

\* The initial states satisfy the inductive invariant.
LEMMA InvInit == Init => IInv
<1> SUFFICES ASSUME Init PROVE Timely /\ Transient /\ Effects
  BY TypeInit DEF IInv
<1> QED
  BY DEF Init, Timely, TimelyCall, Transient, TransientCall, Effects, EffectsOf,
         Untouched, Unsafe

\* Every step keeps the inductive invariant.
LEMMA InvStep == IInv /\ [Unbounded]_vars => IInv'
  BY TypeStep, TimelyStep, TransientStep, EffectsStep DEF IInv

\* The bound on the clock only leaves steps out.
LEMMA WithinBounds == [Next]_vars => [Unbounded]_vars
  BY DEF Next, Unbounded, Tick

\* The inductive invariant holds in every reachable state.
LEMMA Invariance == Spec => []IInv
  BY InvInit, InvStep, WithinBounds, PTL DEF Spec

\* Every variable of the call keeps its type, the attempt counter below the retry limit
\* among them (client.go:122).
THEOREM TypeCorrect == Spec => []TypeOK
  BY Invariance, PTL DEF IInv

\* Attempts and sleeps so far, and the wait the call is in, fit in the budget.
LEMMA InBudget == IInv => CallTakesAtMost
<1> SUFFICES ASSUME IInv, NEW c \in Calls, InLoop(c)
             PROVE  now <= begun[c] + Budget(MaxRetries) + AttemptTimeout
  BY DEF CallTakesAtMost
<1>1. /\ now \in Nat /\ begun[c] \in Nat /\ timer[c] \in Nat
      /\ MaxRetries \in Nat /\ AttemptTimeout \in Nat
      /\ MaxSleep \in Nat /\ Budget(MaxRetries) \in Nat
  BY RequestAssumption, BudgetGrows DEF IInv, TypeOK
<1>2. attempt[c] \in Nat /\ attempt[c] <= MaxRetries
  BY RequestAssumption DEF IInv, TypeOK
<1>3. Budget(attempt[c]) \in Nat /\ Budget(attempt[c]) <= Budget(MaxRetries)
  BY <1>1, <1>2, BudgetMonotone, BudgetGrows
<1>4. CASE pc[c] # "sleeping"
  BY <1>1, <1>3, <1>4 DEF IInv, Timely, TimelyCall, InLoop
<1>5. CASE pc[c] = "sleeping"
  <2>1. /\ attempt[c] < MaxRetries
        /\ now <= begun[c] + Budget(attempt[c]) + AttemptTimeout + MaxSleep
    BY <1>1, <1>3, <1>5 DEF IInv, Timely, TimelyCall
  <2>2. Budget(attempt[c] + 1) = Budget(attempt[c]) + AttemptTimeout + MaxSleep
    BY <1>2, BudgetGrows
  <2>3. Budget(attempt[c] + 1) <= Budget(MaxRetries)
    BY <1>1, <1>2, <2>1, BudgetMonotone
  <2> QED
    BY <1>1, <1>3, <2>1, <2>2, <2>3
<1> QED
  BY <1>4, <1>5

\* For every timeout, backoff and retry limit, a call ends within its budget, measured from
\* the moment its token is there (client.go:122-161).
THEOREM CallTimeCorrect == Spec => []CallTakesAtMost
  BY InBudget, Invariance, PTL

\* Whoever is about to send again was given a reason.
LEMMA RepeatedForAReason == IInv => RetryOnlyTransient
  BY DEF IInv, Transient, TransientCall, RetryOnlyTransient

\* Only a method that may be repeated is repeated, and only after no answer or a retriable
\* status (client.go:142-161).
THEOREM RetryCorrect == Spec => []RetryOnlyTransient
  BY RepeatedForAReason, Invariance, PTL

--------------------------------------------------------------------------------

Stage(l) == CASE l = "idle" -> "idle" [] l = "returned" -> "closed" [] OTHER -> "open"

stages == [c \in Calls |-> Stage(pc[c])]

safeCalls == [c \in Calls |-> request[c].method \in RetriableMethods]

\* The initial states are initial states of RemoteCall.
LEMMA RemoteInit == Init => Remote!Init
<1> SUFFICES ASSUME Init PROVE Remote!Init
  OBVIOUS
<1>1. safeCalls \in [Calls -> BOOLEAN]
  BY DEF safeCalls
<1> QED
  BY <1>1 DEF Init, Remote!Init, safeCalls

\* A step that neither enters nor leaves a call, and executes nothing, is a stutter.
LEMMA RemoteStutter ==
    ASSUME UNCHANGED <<request, executed, outcome>>,
           \A c \in Calls : Stage(pc'[c]) = Stage(pc[c])
    PROVE  UNCHANGED Remote!vars
  BY DEF Remote!vars, Stage

\* A return closes the call.
LEMMA RemoteClose ==
    ASSUME TypeOK, NEW c \in Calls,
           NEW o \in {"value", "rejected", "transport", "status", "body", "schema"},
           pc[c] \notin {"idle", "returned"}, Return(c, o), UNCHANGED <<request, executed>>,
           o \in {"value", "body", "schema"} => executed[c] > 0,
           o = "rejected" => executed[c] = 0
    PROVE  Remote!Close(c)
<1>1. stages[c] = "open"
  BY DEF stages, Stage
<1>2. stages' = [stages EXCEPT ![c] = "closed"]
  BY DEF stages, Stage, Return, Goto, TypeOK
<1>3. outcome' = [outcome EXCEPT ![c] = o]
  BY DEF Return
<1> QED
  BY <1>1, <1>2, <1>3 DEF Remote!Close, stages, Stage

\* Every step is a step of RemoteCall or a stutter.
LEMMA RemoteStep == IInv /\ [Unbounded]_vars => [Remote!Next]_(Remote!vars)
<1> SUFFICES ASSUME IInv, [Unbounded]_vars PROVE Remote!Next \/ UNCHANGED Remote!vars
  OBVIOUS
<1> USE DEF preparation, loop, provider
<1>0. TypeOK /\ UNCHANGED request /\ \A c \in Calls : TransientCall(c) /\ EffectsOf(c)
  BY SameRequest DEF IInv, Transient, Effects
<1>p. pc \in [Calls -> {"idle", "preparing", "headers", "ready", "waiting", "replied",
                        "sleeping", "returned"}]
  BY <1>0 DEF TypeOK
<1>1. ASSUME NEW c \in Calls, Begin(c) PROVE Remote!Next
  <2>1. /\ stages[c] = "idle"
        /\ stages' = [stages EXCEPT ![c] = "open"]
    BY <1>1, <1>p DEF Begin, Goto, stages, Stage
  <2>2. Remote!Open(c)
    BY <1>0, <1>1, <2>1 DEF Begin, Remote!Open, stages, Stage
  <2> QED
    BY <2>2 DEF Remote!Next
<1>2. ASSUME NEW c \in Calls,
             PathRejected(c) \/ TokenRefused(c) \/ BodyRejected(c) \/ RequestRejected(c)
      PROVE  Remote!Next
  <2>1. /\ pc[c] \in {"preparing", "headers", "ready"}
        /\ Return(c, "rejected") /\ executed[c] = 0 /\ UNCHANGED executed
    BY <1>0, <1>2 DEF PathRejected, TokenRefused, BodyRejected, RequestRejected, EffectsOf,
                      Untouched
  <2> QED
    BY <1>0, <2>1, RemoteClose DEF Remote!Next
<1>3. ASSUME NEW c \in Calls, CutOff(c) \/ Conclude(c) PROVE Remote!Next
  <2>1. PICK o \in {"value", "body", "schema"} : Return(c, o)
    BY <1>3 DEF CutOff, Conclude
  <2>2. pc[c] = "replied" /\ executed[c] > 0 /\ UNCHANGED executed
    BY <1>0, <1>3 DEF CutOff, Conclude, EffectsOf
  <2> QED
    BY <1>0, <2>1, <2>2, RemoteClose DEF Remote!Next
<1>4. ASSUME NEW c \in Calls, NEW o \in {"transport", "status"}, Return(c, o),
             pc[c] \in {"ready", "waiting", "replied"}, UNCHANGED executed
      PROVE  Remote!Next
  BY <1>0, <1>4, RemoteClose DEF Remote!Next
<1>5. ASSUME NEW c \in Calls, NEW l \in {"preparing", "headers", "ready", "waiting",
                                          "replied", "sleeping"},
             pc[c] \notin {"idle", "returned"}, Goto(c, l), UNCHANGED <<executed, outcome>>
      PROVE  UNCHANGED Remote!vars
  BY <1>0, <1>5, <1>p, RemoteStutter DEF Goto, Stage
<1>6. ASSUME NEW c \in Calls, AskToken(c) \/ Enter(c) \/ Send(c) \/ Wake(c)
      PROVE  UNCHANGED Remote!vars
  BY <1>5, <1>6 DEF AskToken, Enter, Send, Wake
<1>7. ASSUME NEW c \in Calls, TransportFails(c) \/ StatusFails(c)
      PROVE  Remote!Next \/ UNCHANGED Remote!vars
  <2>1. pc[c] \in {"ready", "waiting", "replied"} /\ UNCHANGED executed
    BY <1>7 DEF TransportFails, StatusFails
  <2>2. \/ Goto(c, "sleeping") /\ UNCHANGED outcome
        \/ Return(c, "transport") \/ Return(c, "status")
    BY <1>7 DEF TransportFails, StatusFails, Retry, GiveUp
  <2> QED
    BY <1>4, <1>5, <2>1, <2>2
<1>8. ASSUME NEW c \in Calls, NEW a \in wire[c], NEW r \in Answers, NEW n \in 0..1,
             Answer(c, a, r, n)
      PROVE  Remote!Next \/ UNCHANGED Remote!vars
  <2>1. /\ executed' = [executed EXCEPT ![c] = executed[c] + n]
        /\ executed \in [Calls -> Nat]
        /\ UNCHANGED outcome
    BY <1>0, <1>8 DEF Answer, TypeOK
  <2>2. \A d \in Calls : Stage(pc'[d]) = Stage(pc[d])
    BY <1>8, <1>p DEF Answer, Goto, Stage
  <2>3. CASE n = 0
    <3>1. UNCHANGED executed
      BY <2>1, <2>3
    <3> QED
      BY <1>0, <2>1, <2>2, <3>1, RemoteStutter
  <2>4. CASE n = 1
    <3>1. /\ Stage(pc[c]) # "idle" /\ outcome[c] # "rejected"
          /\ Unsafe(c) => executed[c] = 0 /\ outcome[c] \in {"none", "transport"}
      BY <1>0, <1>8 DEF EffectsOf, Untouched, Unsafe, Stage
    <3>2. stages' = stages
      BY <2>2 DEF stages
    <3>3. Remote!Execute(c)
      BY <1>0, <2>1, <2>4, <3>1, <3>2 DEF Remote!Execute, stages, Stage, Unsafe
    <3> QED
      BY <3>3 DEF Remote!Next
  <2> QED
    BY <2>3, <2>4
<1>9. ASSUME NEW c \in Calls, NEW a, Lose(c, a) PROVE UNCHANGED Remote!vars
  BY <1>0, <1>9, RemoteStutter DEF Lose
<1>10. ASSUME NEW c \in Calls, Cancel(c) PROVE UNCHANGED Remote!vars
  BY <1>0, <1>10, RemoteStutter DEF Cancel
<1>11. CASE Elapse \/ UNCHANGED vars
  BY <1>0, <1>11, RemoteStutter DEF Elapse, vars
<1> QED
  BY <1>1, <1>2, <1>3, <1>6, <1>7, <1>8, <1>9, <1>10, <1>11
  DEF Unbounded, Prepare, Loop, Provider

\* Request keeps the promise of RemoteCall: its safety part, for all constants.
THEOREM KeepsRemotePromise == Spec => Remote!Init /\ [][Remote!Next]_(Remote!vars)
  BY RemoteInit, RemoteStep, WithinBounds, Invariance, PTL DEF Spec
================================================================================
