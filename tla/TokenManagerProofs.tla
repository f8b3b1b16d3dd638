-------------------------- MODULE TokenManagerProofs --------------------------
(***************************************************************************)
(* Proofs about TokenManager, for every set of goroutines, every lifetime  *)
(* the provider may answer with, every skew and every timeout.             *)
(*                                                                         *)
(* SingleFlight and FetchOnlyWhenStale are inductive with TypeOK.  The     *)
(* margin of a token at hand-out is not: it needs to be known of the       *)
(* cached token, hence of the token an exchange is about to cache, hence   *)
(* of when its exchange began.  Inv says all that.                         *)
(***************************************************************************)
EXTENDS TokenManager, TLAPS

\* An exchange has begun, and is not past its deadline.
InTime(c) == sentAt[c] <= now /\ now <= Deadline(c)

\* A token the provider has issued for an exchange begun at sentAt[c].
Answered(c) ==
    /\ reply[c] \in Token
    /\ reply[c].life \in Lifetimes
    /\ sentAt[c] <= reply[c].issued
    /\ reply[c].issued <= now

\* Until t stops being usable at instant e, it has the margin left.
Margined(t, e) == e + (Skew - Timeout) <= ProviderExpiry(t)

ExchangeInv ==
    \A c \in Callers :
        /\ pc[c] \in {"fetching", "replied"} => InTime(c)
        /\ pc[c] \in {"replied", "decoded"} => Answered(c)
        /\ pc[c] = "decoded" => Margined(reply[c], expiry[c])

CacheInv == cached # NoToken => cached.issued <= now /\ Margined(cached, expiresAt)

Inv ==
    /\ TypeOK
    /\ SingleFlight
    /\ FetchOnlyWhenStale
    /\ ExchangeInv
    /\ CacheInv

\* What may happen where no bound stops the clock.
Unbounded ==
    \/ \E c \in Callers : CallWithOverride(c) \/ Call(c) \/ Cancel(c) \/ Progress(c)
    \/ Elapse

--------------------------------------------------------------------------------

\* The initial states of TokenManager satisfy the inductive invariant.
LEMMA InvInit == Init => Inv
  BY ConstantsAssumption
  DEF Init, Inv, TypeOK, SingleFlight, FetchOnlyWhenStale, ExchangeInv, CacheInv, Fetching,
      Fresh, Returned, Outcome, Token

\* A returning caller keeps every variable in its type and its record of what it returned.
LEMMA ReturnType ==
    ASSUME TypeOK, NEW c \in Callers, NEW o \in Outcome, Return(c, o)
    PROVE  /\ now' \in Nat /\ override' \in BOOLEAN /\ credentials' \in BOOLEAN
           /\ pc' \in [Callers ->
                {"idle", "fast", "slow", "fetching", "replied", "decoded"}]
           /\ cancelled' \in [Callers -> BOOLEAN]
           /\ sentAt' \in [Callers -> Nat]
           /\ reply' \in [Callers -> Token \union {NoToken}]
           /\ expiry' \in [Callers -> Int]
           /\ outcome' \in [Callers -> Outcome]
  BY DEF TypeOK, Return, settings

\* What a call can return is an outcome.
LEMMA OutcomeType ==
    /\ Returned("error", NoToken) \in Outcome
    /\ Returned("override", NoToken) \in Outcome
    /\ \A t \in Token : Returned("token", t) \in Outcome
  BY DEF Returned, Outcome

\* Every step of TokenManager keeps every variable in its type.
LEMMA TypeStep == TypeOK /\ ExchangeInv /\ [Unbounded]_vars => TypeOK'
<1> SUFFICES ASSUME TypeOK, ExchangeInv, [Unbounded]_vars PROVE TypeOK'
  OBVIOUS
<1> USE ConstantsAssumption, OutcomeType
<1>1. ASSUME NEW c \in Callers, CallWithOverride(c) PROVE TypeOK'
  BY <1>1, ReturnType DEF CallWithOverride, TypeOK, cache
<1>2. ASSUME NEW c \in Callers, Call(c) PROVE TypeOK'
  BY <1>2 DEF Call, TypeOK, cache, settings, locals
<1>3. ASSUME NEW c \in Callers, Cancel(c) PROVE TypeOK'
  BY <1>3 DEF Cancel, TypeOK, cache, settings, locals
<1>4. ASSUME NEW c \in Callers, FastHit(c) \/ SlowHit(c) PROVE TypeOK'
  <2>1. cached \in Token
    BY <1>4 DEF FastHit, SlowHit, Fresh, TypeOK
  <2> QED
    BY <1>4, <2>1, ReturnType DEF FastHit, SlowHit, TypeOK, cache
<1>5. ASSUME NEW c \in Callers, FastMiss(c) PROVE TypeOK'
  BY <1>5 DEF FastMiss, TypeOK, cache, settings, locals
<1>6. ASSUME NEW c \in Callers, FetchRefused(c) PROVE TypeOK'
  BY <1>6, ReturnType DEF FetchRefused, TypeOK, cache
<1>7. ASSUME NEW c \in Callers, StartFetch(c) PROVE TypeOK'
  BY <1>7 DEF StartFetch, TypeOK, cache, settings
<1>8. ASSUME NEW c \in Callers, Issue(c) PROVE TypeOK'
  BY <1>8 DEF Issue, TypeOK, cache, settings, Token
<1>9. ASSUME NEW c \in Callers, Decode(c) PROVE TypeOK'
  <2>1. now + reply[c].life - Skew \in Int
    BY <1>9 DEF Decode, TypeOK, Token, ExchangeInv, Answered
  <2> QED
    BY <1>9, <2>1 DEF Decode, TypeOK, cache, settings
<1>10. ASSUME NEW c \in Callers, Store(c) PROVE TypeOK'
  <2>1. reply[c] \in Token
    BY <1>10 DEF Store, ExchangeInv, Answered
  <2> QED
    BY <1>10, <2>1, ReturnType DEF Store, TypeOK
<1>11. ASSUME NEW c \in Callers, TooSoon(c) \/ FetchFails(c) PROVE TypeOK'
  BY <1>11, ReturnType DEF TooSoon, FetchFails, TypeOK, cache
<1>12. ASSUME Elapse PROVE TypeOK'
  BY <1>12 DEF Elapse, TypeOK, cache, settings, locals
<1>13. CASE UNCHANGED vars
  BY <1>13 DEF vars, TypeOK, cache, settings, locals
<1> QED
  BY <1>1, <1>2, <1>3, <1>4, <1>5, <1>6, <1>7, <1>8, <1>9, <1>10, <1>11, <1>12, <1>13
  DEF Unbounded, Progress

\* Locking and unlocking follow the exchange, whatever order the goroutines run in.
LEMMA SingleFlightStep == TypeOK /\ SingleFlight /\ [Unbounded]_vars => SingleFlight'
<1> SUFFICES ASSUME TypeOK, SingleFlight, [Unbounded]_vars PROVE SingleFlight'
  OBVIOUS
<1> USE ConstantsAssumption DEF SingleFlight, Fetching, TypeOK
<1>1. ASSUME NEW c \in Callers,
             CallWithOverride(c) \/ FastHit(c) \/ SlowHit(c) \/ FetchRefused(c)
      PROVE SingleFlight'
  BY <1>1 DEF CallWithOverride, FastHit, SlowHit, FetchRefused, Return
<1>2. ASSUME NEW c \in Callers, Call(c) \/ FastMiss(c) \/ Cancel(c) PROVE SingleFlight'
  BY <1>2 DEF Call, FastMiss, Cancel
<1>3. ASSUME NEW c \in Callers, StartFetch(c) PROVE SingleFlight'
  BY <1>3 DEF StartFetch
<1>4. ASSUME NEW c \in Callers, Issue(c) \/ Decode(c) PROVE SingleFlight'
  BY <1>4 DEF Issue, Decode
<1>5. ASSUME NEW c \in Callers, Store(c) \/ TooSoon(c) \/ FetchFails(c)
      PROVE SingleFlight'
  BY <1>5 DEF Store, TooSoon, FetchFails, Return
<1>6. CASE Elapse
  BY <1>6 DEF Elapse
<1>7. CASE UNCHANGED vars
  BY <1>7 DEF vars
<1> QED
  BY <1>1, <1>2, <1>3, <1>4, <1>5, <1>6, <1>7 DEF Unbounded, Progress

\* No step makes the cache fresh while the mutex is held.
LEMMA StaleStep ==
    TypeOK /\ SingleFlight /\ FetchOnlyWhenStale /\ [Unbounded]_vars => FetchOnlyWhenStale'
<1> SUFFICES ASSUME TypeOK, SingleFlight, FetchOnlyWhenStale, [Unbounded]_vars
             PROVE FetchOnlyWhenStale'
  OBVIOUS
<1> USE ConstantsAssumption DEF FetchOnlyWhenStale, Fresh, TypeOK
<1>1. ASSUME NEW c \in Callers,
             CallWithOverride(c) \/ FastHit(c) \/ SlowHit(c) \/ FetchRefused(c)
      PROVE FetchOnlyWhenStale'
  BY <1>1 DEF CallWithOverride, FastHit, SlowHit, FetchRefused, Return, cache
<1>2. ASSUME NEW c \in Callers,
             Call(c) \/ FastMiss(c) \/ Cancel(c) \/ StartFetch(c) \/ Issue(c) \/ Decode(c)
      PROVE FetchOnlyWhenStale'
  BY <1>2 DEF Call, FastMiss, Cancel, StartFetch, Issue, Decode, cache
<1>3. ASSUME NEW c \in Callers, Store(c) \/ TooSoon(c) \/ FetchFails(c)
      PROVE FetchOnlyWhenStale'
  BY <1>3 DEF Store, TooSoon, FetchFails
<1>4. CASE Elapse
  BY <1>4 DEF Elapse, cache
<1>5. CASE UNCHANGED vars
  BY <1>5 DEF vars, cache
<1> QED
  BY <1>1, <1>2, <1>3, <1>4, <1>5 DEF Unbounded, Progress

\* An exchange stays in time, and what it will cache keeps the margin.
LEMMA ExchangeStep == TypeOK /\ ExchangeInv /\ [Unbounded]_vars => ExchangeInv'
<1> SUFFICES ASSUME TypeOK, ExchangeInv, [Unbounded]_vars PROVE ExchangeInv'
  OBVIOUS
<1> USE ConstantsAssumption
    DEF ExchangeInv, InTime, Answered, Margined, Deadline, ProviderExpiry, TypeOK, Token
<1>1. ASSUME NEW c \in Callers,
             CallWithOverride(c) \/ FastHit(c) \/ SlowHit(c) \/ FetchRefused(c)
                \/ Store(c) \/ TooSoon(c) \/ FetchFails(c)
      PROVE ExchangeInv'
  <2>1. \E o : Return(c, o)
    BY <1>1 DEF CallWithOverride, FastHit, SlowHit, FetchRefused, Store, TooSoon, FetchFails
  <2> QED
    BY <2>1 DEF Return
<1>2. ASSUME NEW c \in Callers, Call(c) \/ FastMiss(c) \/ Cancel(c) PROVE ExchangeInv'
  BY <1>2 DEF Call, FastMiss, Cancel, locals
<1>3. ASSUME NEW c \in Callers, StartFetch(c) PROVE ExchangeInv'
  BY <1>3 DEF StartFetch
<1>4. ASSUME NEW c \in Callers, Issue(c) PROVE ExchangeInv'
  BY <1>4 DEF Issue
<1>5. ASSUME NEW c \in Callers, Decode(c) PROVE ExchangeInv'
  BY <1>5 DEF Decode
<1>6. CASE Elapse
  BY <1>6 DEF Elapse, ClockMayReach, locals, Exchanging
<1>7. CASE UNCHANGED vars
  BY <1>7 DEF vars, locals
<1> QED
  BY <1>1, <1>2, <1>3, <1>4, <1>5, <1>6, <1>7 DEF Unbounded, Progress

\* The cached token keeps the margin its expiry was computed with.
LEMMA CacheStep == TypeOK /\ ExchangeInv /\ CacheInv /\ [Unbounded]_vars => CacheInv'
<1> SUFFICES ASSUME TypeOK, ExchangeInv, CacheInv, [Unbounded]_vars PROVE CacheInv'
  OBVIOUS
<1>1. ASSUME NEW c \in Callers, Store(c) PROVE CacheInv'
  BY <1>1, ConstantsAssumption DEF Store, Return, CacheInv, ExchangeInv, Answered, Margined
<1>2. CASE Elapse
  BY <1>2, ConstantsAssumption DEF Elapse, CacheInv, Margined, cache, TypeOK, Token
<1>3. CASE UNCHANGED <<cache, now>>
  BY <1>3 DEF CacheInv, Margined, cache
<1>4. ASSUME NEW c \in Callers,
             CallWithOverride(c) \/ Call(c) \/ Cancel(c) \/ FastHit(c) \/ FastMiss(c)
                \/ SlowHit(c) \/ FetchRefused(c) \/ StartFetch(c) \/ Issue(c) \/ Decode(c)
                \/ TooSoon(c) \/ FetchFails(c)
      PROVE UNCHANGED <<cache, now>>
  BY <1>4 DEF CallWithOverride, Call, Cancel, FastHit, FastMiss, SlowHit, FetchRefused,
     StartFetch, Issue, Decode, TooSoon, FetchFails, Return
<1>5. CASE UNCHANGED vars
  BY <1>5, <1>3 DEF vars
<1> QED
  BY <1>1, <1>2, <1>3, <1>4, <1>5 DEF Unbounded, Progress

\* Every step keeps the inductive invariant.
LEMMA InvStep == Inv /\ [Unbounded]_vars => Inv'
  BY TypeStep, SingleFlightStep, StaleStep, ExchangeStep, CacheStep DEF Inv

\* The bound on the clock only leaves steps out.
LEMMA WithinBounds == [Next]_vars => [Unbounded]_vars
  BY DEF Next, Unbounded, Tick

\* The inductive invariant holds in every reachable state.
LEMMA Invariance == Spec => []Inv
  BY InvInit, InvStep, WithinBounds, PTL DEF Spec

--------------------------------------------------------------------------------

\* Every variable keeps its type, whatever the constants.
THEOREM TypeCorrect == Spec => []TypeOK
  BY Invariance, PTL DEF Inv

\* The mutex is held exactly through an exchange with the token endpoint.
THEOREM MutexCorrect == Spec => []SingleFlight
  BY Invariance, PTL DEF Inv

\* No exchange is under way while a usable token is cached.
THEOREM NoNeedlessExchange == Spec => []FetchOnlyWhenStale
  BY Invariance, PTL DEF Inv

\* What MarginAtHandOut says of a step.
HandsOutWithMargin ==
    \A c \in Callers :
        HandedOut(c) => now + (Skew - Timeout) < ProviderExpiry(outcome'[c].token)

\* A hit hands out the cached token, Store the one it caches; no other step hands one out.
LEMMA HandOutStep == Inv /\ [Unbounded]_vars => [HandsOutWithMargin]_vars
<1> SUFFICES ASSUME Inv, Unbounded, NEW c \in Callers, HandedOut(c)
             PROVE now + (Skew - Timeout) < ProviderExpiry(outcome'[c].token)
  BY DEF HandsOutWithMargin
<1> USE DEF Inv, TypeOK
<1>1. PICK d \in Callers : CallWithOverride(d) \/ Progress(d)
  BY DEF Unbounded, HandedOut, Call, Cancel, Elapse
<1>2. d = c
  BY <1>1 DEF HandedOut, CallWithOverride, Progress, FastHit, FastMiss, SlowHit,
     FetchRefused, StartFetch, Issue, Decode, Store, TooSoon, FetchFails, Return
<1>3. CASE FastHit(c) \/ SlowHit(c)
  <2>1. outcome'[c].token = cached /\ Fresh
    BY <1>3 DEF FastHit, SlowHit, Return, Returned
  <2> QED
    BY <2>1, ConstantsAssumption DEF CacheInv, Margined, Fresh, ProviderExpiry, Token
<1>4. CASE Store(c)
  <2>1. outcome'[c].token = reply[c] /\ now < expiry[c] /\ pc[c] = "decoded"
    BY <1>4 DEF Store, Return, Returned
  <2> QED
    BY <2>1, ConstantsAssumption
    DEF ExchangeInv, Answered, Margined, ProviderExpiry, Token
<1>5. ~(CallWithOverride(c) \/ FastMiss(c) \/ FetchRefused(c) \/ StartFetch(c)
          \/ Issue(c) \/ Decode(c) \/ TooSoon(c) \/ FetchFails(c))
  BY DEF HandedOut, CallWithOverride, FastMiss, FetchRefused, StartFetch, Issue,
     Decode, TooSoon, FetchFails, Return, Returned
<1> QED
  BY <1>1, <1>2, <1>3, <1>4, <1>5 DEF Progress

\* A token is handed out with more than Skew - Timeout of its life left.
THEOREM MarginCorrect == Spec => MarginAtHandOut
  BY HandOutStep, WithinBounds, Invariance, PTL DEF Spec, MarginAtHandOut, HandsOutWithMargin

\* The initial states of TokenManager are those of the register.
LEMMA SourceInit == Init => Source!Init
  BY DEF Init, Source!Init, Returned, Source!Returned

\* Every step is one of the register's, or a stutter: a hit is Serve, Store is Renew, a
\* failure is Refuse, and what a call does in between is not seen.
LEMMA SourceStep == Inv /\ [Unbounded]_vars => [Source!Next]_(Source!vars)
<1> SUFFICES ASSUME Inv, [Unbounded]_vars PROVE [Source!Next]_(Source!vars)
  OBVIOUS
<1> DEFINE calling == {c \in Callers : pc[c] # "idle"}
<1> USE DEF Inv, TypeOK
<1>sameRecord. \A kind, t : Source!Returned(kind, t) = Returned(kind, t)
  BY DEF Returned, Source!Returned
<1>1. ASSUME NEW c \in Callers, CallWithOverride(c) PROVE Source!AnswerFixed(c)
  <2>1. calling' = calling
    BY <1>1 DEF CallWithOverride, Return
  <2> QED
    BY <1>1, <2>1
    DEF CallWithOverride, Return, Source!AnswerFixed, Returned, Source!Returned,
        cache, settings
<1>2. ASSUME NEW c \in Callers, Call(c) PROVE Source!Begin(c)
  <2>1. calling' = calling \union {c} /\ c \notin calling
    BY <1>2 DEF Call
  <2> QED
    BY <1>2, <2>1 DEF Call, Source!Begin, cache, settings
<1>3. ASSUME NEW c \in Callers, pc[c] # "idle", pc' = [pc EXCEPT ![c] = "idle"]
      PROVE calling' = calling \ {c} /\ c \in calling
  BY <1>3
<1>4. ASSUME NEW c \in Callers, FastHit(c) \/ SlowHit(c) PROVE Source!Serve(c)
  <2>1. pc[c] # "idle" /\ Return(c, Returned("token", cached))
    BY <1>4 DEF FastHit, SlowHit
  <2>2. Source!Finish(c, Source!Returned("token", cached))
    BY <1>3, <2>1, <1>sameRecord
    DEF Return, Source!Finish, settings
  <2> QED
    BY <1>4, <2>2 DEF FastHit, SlowHit, Fresh, Source!Serve, Source!Usable, cache
<1>5. ASSUME NEW c \in Callers, FetchRefused(c) \/ TooSoon(c) \/ FetchFails(c)
      PROVE Source!Refuse(c)
  <2>0. pc[c] # "idle" /\ Return(c, Returned("error", NoToken)) /\ UNCHANGED cache
    BY <1>5 DEF FetchRefused, TooSoon, FetchFails
  <2>1. Source!Finish(c, Source!Returned("error", NoToken))
    BY <1>3, <2>0, <1>sameRecord
    DEF Return, Source!Finish, settings
  <2>2. ~Fresh
    <3>1. CASE FetchRefused(c)
      BY <3>1 DEF FetchRefused
    <3>2. CASE TooSoon(c) \/ FetchFails(c)
      BY <3>2, ConstantsAssumption
      DEF TooSoon, FetchFails, SingleFlight, Fetching, FetchOnlyWhenStale
    <3> QED
      BY <1>5, <3>1, <3>2
  <2> QED
    BY <2>0, <2>1, <2>2 DEF Source!Refuse, Source!Usable, Fresh, cache
<1>6. ASSUME NEW c \in Callers, Store(c) PROVE Source!Renew(c)
  <2>0. pc[c] # "idle" /\ Return(c, Returned("token", reply[c]))
    BY <1>6 DEF Store
  <2>1. Source!Finish(c, Source!Returned("token", reply[c]))
    BY <1>3, <2>0, <1>sameRecord
    DEF Return, Source!Finish, settings
  <2>2. ~Source!Usable
    BY <1>6, ConstantsAssumption
    DEF Store, SingleFlight, Fetching, FetchOnlyWhenStale, Fresh, Source!Usable
  <2>3. /\ reply[c] \in Token
        /\ reply[c].life \in Lifetimes
        /\ reply[c].issued <= now
        /\ expiry[c] + (Skew - Timeout) <= reply[c].issued + reply[c].life
    BY <1>6 DEF Store, ExchangeInv, Answered, Margined, ProviderExpiry
  <2>4. reply[c] \in Source!Tokens
    BY <2>3, ConstantsAssumption DEF Source!Tokens, Token
  <2>5. expiry[c] \in now + 1 .. reply[c].issued + reply[c].life - (Skew - Timeout)
    BY <1>6, <2>3, ConstantsAssumption DEF Store, Token
  <2> QED
    BY <1>6, <2>1, <2>2, <2>4, <2>5 DEF Store, Source!Renew, Source!Finish
<1>7. ASSUME NEW c \in Callers,
             Cancel(c) \/ FastMiss(c) \/ StartFetch(c) \/ Issue(c) \/ Decode(c)
      PROVE UNCHANGED Source!vars
  <2>1. calling' = calling
    BY <1>7 DEF Cancel, FastMiss, StartFetch, Issue, Decode
  <2> QED
    BY <1>7, <2>1 DEF Cancel, FastMiss, StartFetch, Issue, Decode, Source!vars,
       cache, settings
<1>8. ASSUME Elapse PROVE Source!Advance
  BY <1>8, ConstantsAssumption DEF Elapse, Source!Advance, cache, settings
<1>9. CASE UNCHANGED vars
  BY <1>9 DEF vars, Source!vars, cache, settings
<1> QED
  BY <1>1, <1>2, <1>4, <1>5, <1>6, <1>7, <1>8, <1>9
  DEF Unbounded, Progress, Source!Next, Source!Answer

\* TokenManager implements the register: its safety part, for all constants.
THEOREM RefinesSource == Spec => Source!Init /\ [][Source!Next]_(Source!vars)
  BY SourceStep, WithinBounds, SourceInit, Invariance, PTL DEF Spec
================================================================================
