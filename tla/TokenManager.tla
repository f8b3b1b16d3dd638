----------------------------- MODULE TokenManager -----------------------------
(***************************************************************************)
(* TokenManager of auth.go: one OAuth token cached behind a mutex and      *)
(* shared by every goroutine that sends a request through one Client.      *)
(*                                                                         *)
(* A call first looks at the cache under the mutex, and on a miss takes    *)
(* the mutex again, looks a second time and keeps it through the whole     *)
(* HTTP exchange with the token endpoint.  The expiry it caches is counted *)
(* from the instant it has decoded the answer, less TokenSkewSeconds; the  *)
(* provider counts from the instant it issued the token.                   *)
(*                                                                         *)
(* Time is an integer clock.  The client's own steps take no time except   *)
(* where the model lets the clock move between two of them: while a caller *)
(* waits for the mutex or for an answer, and between the two readings of   *)
(* the clock at the end of fetchToken.                                     *)
(***************************************************************************)
EXTENDS Integers

CONSTANTS
    Callers,    \* goroutines that call GetAccessToken
    Lifetimes,  \* values of expires_in the provider may answer with
    Skew,       \* Settings.TokenSkewSeconds
    Timeout,    \* http.Client.Timeout, from Settings.TimeoutSeconds
    Jumps,      \* how far the clock may move in one step
    MaxTime,    \* bound: no call starts, and no idle clock moves, from here on
    NoToken,    \* the empty cache
    Free        \* the mutex, unlocked

\* Settings.Validate asks for a skew of at least 0 and a positive timeout.
ASSUME ConstantsAssumption ==
    /\ Lifetimes \subseteq Nat
    /\ Skew \in Nat
    /\ Timeout \in Nat \ {0}
    /\ Jumps \subseteq Nat \ {0}
    /\ MaxTime \in Nat
    /\ Free \notin Callers
    /\ NoToken \notin [issued: Nat, life: Nat]

VARIABLES
    now,          \* time.Now()
    override,     \* m.override # "": a fixed access token was configured
    credentials,  \* whether account id, client id and client secret are all set
    mu,           \* m.mu: its holder, or Free
    cached,       \* m.cached
    expiresAt,    \* m.expiresAt
    pc,           \* where each caller is in GetAccessToken
    cancelled,    \* whether a caller's context is done
    sentAt,       \* when a caller's token request was sent
    reply,        \* the token in the answer a caller reads
    expiry,       \* the local expiry of fetchToken
    outcome       \* what each caller's last call returned

settings == <<override, credentials>>
cache == <<cached, expiresAt>>
locals == <<sentAt, reply, expiry>>
vars == <<now, settings, mu, cache, pc, cancelled, locals, outcome>>

Token == [issued: Nat, life: Nat]

Outcome == [kind: {"none", "override", "token", "error"}, token: Token \union {NoToken}]

Returned(kind, t) == [kind |-> kind, token |-> t]

\* The instant from which the provider refuses t.
ProviderExpiry(t) == t.issued + t.life

TypeOK ==
    /\ now \in Nat
    /\ override \in BOOLEAN
    /\ credentials \in BOOLEAN
    /\ mu \in Callers \union {Free}
    /\ cached \in Token \union {NoToken}
    /\ expiresAt \in Int
    /\ pc \in [Callers -> {"idle", "fast", "slow", "fetching", "replied", "decoded"}]
    /\ cancelled \in [Callers -> BOOLEAN]
    /\ sentAt \in [Callers -> Nat]
    /\ reply \in [Callers -> Token \union {NoToken}]
    /\ expiry \in [Callers -> Int]
    /\ outcome \in [Callers -> Outcome]

--------------------------------------------------------------------------------

Init ==
    /\ now = 0
    /\ override \in BOOLEAN
    /\ credentials \in BOOLEAN
    /\ mu = Free
    /\ cached = NoToken
    /\ expiresAt = 0
    /\ pc = [c \in Callers |-> "idle"]
    /\ cancelled = [c \in Callers |-> FALSE]
    /\ sentAt = [c \in Callers |-> 0]
    /\ reply = [c \in Callers |-> NoToken]
    /\ expiry = [c \in Callers |-> 0]
    /\ outcome = [c \in Callers |-> Returned("none", NoToken)]

\* The condition both looks at the cache evaluate.
Fresh == cached # NoToken /\ now < expiresAt

\* A call returns o; its local variables and its context are gone with it.
Return(c, o) ==
    /\ pc' = [pc EXCEPT ![c] = "idle"]
    /\ cancelled' = [cancelled EXCEPT ![c] = FALSE]
    /\ sentAt' = [sentAt EXCEPT ![c] = 0]
    /\ reply' = [reply EXCEPT ![c] = NoToken]
    /\ expiry' = [expiry EXCEPT ![c] = 0]
    /\ outcome' = [outcome EXCEPT ![c] = o]
    /\ UNCHANGED <<now, settings>>

\* GetAccessToken with a configured access token.
CallWithOverride(c) ==
    /\ pc[c] = "idle"
    /\ now < MaxTime
    /\ override
    /\ Return(c, Returned("override", NoToken))
    /\ UNCHANGED <<mu, cache>>

\* A call begins with cachedToken; its context may be done already.
Call(c) ==
    /\ pc[c] = "idle"
    /\ now < MaxTime
    /\ ~override
    /\ pc' = [pc EXCEPT ![c] = "fast"]
    /\ \E done \in BOOLEAN : cancelled' = [cancelled EXCEPT ![c] = done]
    /\ UNCHANGED <<now, settings, mu, cache, locals, outcome>>

\* The caller gives up on its context, at any point of its call.
Cancel(c) ==
    /\ pc[c] # "idle"
    /\ ~cancelled[c]
    /\ cancelled' = [cancelled EXCEPT ![c] = TRUE]
    /\ UNCHANGED <<now, settings, mu, cache, pc, locals, outcome>>

\* A bug: the expiry of the cached token is not looked at.
FastHitExpired(c) ==
    /\ pc[c] = "fast"
    /\ mu = Free
    /\ cached # NoToken
    /\ Return(c, Returned("token", cached))
    /\ UNCHANGED <<mu, cache>>

\* cachedToken finds a fresh token.
FastHit(c) ==
    /\ pc[c] = "fast"
    /\ mu = Free
    /\ Fresh
    /\ Return(c, Returned("token", cached))
    /\ UNCHANGED <<mu, cache>>

FastMiss(c) ==
    /\ pc[c] = "fast"
    /\ mu = Free
    /\ ~Fresh
    /\ pc' = [pc EXCEPT ![c] = "slow"]
    /\ UNCHANGED <<now, settings, mu, cache, cancelled, locals, outcome>>

\* The second look, with the mutex: another caller may have renewed the cache.
SlowHit(c) ==
    /\ pc[c] = "slow"
    /\ mu = Free
    /\ Fresh
    /\ Return(c, Returned("token", cached))
    /\ UNCHANGED <<mu, cache>>

\* fetchToken fails before anything is sent: a credential is missing, or the context
\* is done when the exchange would begin.
FetchRefused(c) ==
    /\ pc[c] = "slow"
    /\ mu = Free
    /\ ~Fresh
    /\ ~credentials \/ cancelled[c]
    /\ Return(c, Returned("error", NoToken))
    /\ UNCHANGED <<mu, cache>>

\* A bug: the mutex is given back before the exchange.
StartFetchUnlocked(c) ==
    /\ pc[c] = "slow"
    /\ mu = Free
    /\ ~Fresh
    /\ credentials
    /\ ~cancelled[c]
    /\ sentAt' = [sentAt EXCEPT ![c] = now]
    /\ pc' = [pc EXCEPT ![c] = "fetching"]
    /\ UNCHANGED <<now, settings, mu, cache, cancelled, reply, expiry, outcome>>

\* A bug: no second look.
StartFetchUnchecked(c) ==
    /\ pc[c] = "slow"
    /\ mu = Free
    /\ credentials
    /\ ~cancelled[c]
    /\ mu' = c
    /\ sentAt' = [sentAt EXCEPT ![c] = now]
    /\ pc' = [pc EXCEPT ![c] = "fetching"]
    /\ UNCHANGED <<now, settings, cache, cancelled, reply, expiry, outcome>>

\* The second look fails too: the mutex is kept and the request is sent.
StartFetch(c) ==
    /\ pc[c] = "slow"
    /\ mu = Free
    /\ ~Fresh
    /\ credentials
    /\ ~cancelled[c]
    /\ mu' = c
    /\ sentAt' = [sentAt EXCEPT ![c] = now]
    /\ pc' = [pc EXCEPT ![c] = "fetching"]
    /\ UNCHANGED <<now, settings, cache, cancelled, reply, expiry, outcome>>

\* The provider issues a token for c's request; the answer is on its way.
Issue(c) ==
    /\ pc[c] = "fetching"
    /\ \E life \in Lifetimes :
        reply' = [reply EXCEPT ![c] = [issued |-> now, life |-> life]]
    /\ pc' = [pc EXCEPT ![c] = "replied"]
    /\ UNCHANGED <<now, settings, mu, cache, cancelled, sentAt, expiry, outcome>>

\* A bug: the skew is not subtracted.
DecodeWithoutSkew(c) ==
    /\ pc[c] = "replied"
    /\ reply[c].life > 0
    /\ expiry' = [expiry EXCEPT ![c] = now + reply[c].life]
    /\ pc' = [pc EXCEPT ![c] = "decoded"]
    /\ UNCHANGED <<now, settings, mu, cache, cancelled, sentAt, reply, outcome>>

\* TokenResponse.Validate accepts a positive lifetime; the local expiry is counted
\* from now, not from the instant of issue.
Decode(c) ==
    /\ pc[c] = "replied"
    /\ reply[c].life > 0
    /\ expiry' = [expiry EXCEPT ![c] = now + reply[c].life - Skew]
    /\ pc' = [pc EXCEPT ![c] = "decoded"]
    /\ UNCHANGED <<now, settings, mu, cache, cancelled, sentAt, reply, outcome>>

\* A bug: the whole response is cached, not the token in it.
StoreResponse(c) ==
    /\ pc[c] = "decoded"
    /\ now < expiry[c]
    /\ cached' = Returned("token", reply[c])
    /\ expiresAt' = expiry[c]
    /\ mu' = Free
    /\ Return(c, Returned("token", reply[c]))

\* The second reading of the clock finds the expiry ahead: the token is cached.
Store(c) ==
    /\ pc[c] = "decoded"
    /\ now < expiry[c]
    /\ cached' = reply[c]
    /\ expiresAt' = expiry[c]
    /\ mu' = Free
    /\ Return(c, Returned("token", reply[c]))

\* A bug: a token that expires too soon is cached before it is refused.
TooSoonCached(c) ==
    /\ pc[c] = "decoded"
    /\ now >= expiry[c]
    /\ cached' = reply[c]
    /\ expiresAt' = expiry[c]
    /\ mu' = Free
    /\ Return(c, Returned("error", NoToken))

\* ... or finds it reached: the token expires too soon.
TooSoon(c) ==
    /\ pc[c] = "decoded"
    /\ now >= expiry[c]
    /\ mu' = Free
    /\ Return(c, Returned("error", NoToken))
    /\ UNCHANGED cache

\* A bug: a failed exchange does not give the mutex back.
FetchFailsLocked(c) ==
    /\ pc[c] \in {"fetching", "replied"}
    /\ Return(c, Returned("error", NoToken))
    /\ UNCHANGED <<mu, cache>>

\* No usable answer: the exchange breaks, the status is not 2xx, the body does not
\* decode or validate, the context is done, or the client's timeout strikes.
FetchFails(c) ==
    /\ pc[c] \in {"fetching", "replied"}
    /\ mu' = Free
    /\ Return(c, Returned("error", NoToken))
    /\ UNCHANGED cache

Deadline(c) == sentAt[c] + Timeout

\* Callers whose exchange http.Client.Timeout limits.
Exchanging == {c \in Callers : pc[c] \in {"fetching", "replied"}}

\* The clock stops at a deadline until the exchange it limits has ended.
ClockMayReach(t) == \A c \in Exchanging : t <= Deadline(c)

Elapse ==
    /\ \E d \in Jumps : ClockMayReach(now + d) /\ now' = now + d
    /\ UNCHANGED <<settings, mu, cache, pc, cancelled, locals, outcome>>

Tick == (now < MaxTime \/ Exchanging # {}) /\ Elapse

\* The steps by which a call of c goes on or returns.
Progress(c) ==
    \/ FastHit(c) \/ FastMiss(c)
    \/ SlowHit(c) \/ FetchRefused(c) \/ StartFetch(c)
    \/ Issue(c) \/ Decode(c) \/ Store(c) \/ TooSoon(c) \/ FetchFails(c)

Next ==
    \/ \E c \in Callers : CallWithOverride(c) \/ Call(c) \/ Cancel(c) \/ Progress(c)
    \/ Tick

Lock(c) == FastHit(c) \/ FastMiss(c) \/ SlowHit(c) \/ FetchRefused(c) \/ StartFetch(c)

TimesOut(c) == now = Deadline(c) /\ FetchFails(c)

\* The clock runs; a goroutine that can run does; sync.Mutex starves no waiter (strong
\* fairness); an exchange is ended by its timeout, by nothing else for certain.
Fairness ==
    /\ WF_vars(Tick)
    /\ \A c \in Callers :
        /\ SF_vars(Lock(c))
        /\ WF_vars(TimesOut(c))
        /\ WF_vars(Store(c) \/ TooSoon(c))

Spec == Init /\ [][Next]_vars /\ Fairness

--------------------------------------------------------------------------------

Fetching(c) == pc[c] \in {"fetching", "replied", "decoded"}

\* The mutex is held exactly by the caller between StartFetch and the end of its
\* exchange, so at most one token request is ever outstanding, however many goroutines
\* missed the cache at once (auth.go:75-84).
SingleFlight == \A c \in Callers : Fetching(c) <=> mu = c

\* While an exchange is under way the cache holds nothing usable: the second look
\* keeps a caller that lost the race for the mutex from fetching again, and nobody waits
\* behind an exchange for a token that was there (auth.go:77-79).
FetchOnlyWhenStale == mu # Free => ~Fresh

\* A caller is handed a token: by a hit or by its own exchange.
HandedOut(c) == pc[c] # "idle" /\ pc'[c] = "idle" /\ outcome'[c].kind = "token"

\* A token handed out has more than Skew - Timeout of its life at the provider left,
\* although its expiry is counted from the end of the exchange: what the exchange took
\* comes out of the skew (auth.go:100-107, 149-152).
MarginAtHandOut ==
    [][\A c \in Callers :
        HandedOut(c) => now + (Skew - Timeout) < ProviderExpiry(outcome'[c].token)]_vars

\* Every call returns: no exchange, failed, slow or cancelled, keeps the mutex, and no
\* waiter is passed over for ever (auth.go:66-98).
EveryCallReturns == \A c \in Callers : pc[c] # "idle" ~> pc[c] = "idle"

\* Seen from outside, the calls behave like an atomic register with an expiry: an error
\* reaches a caller only while nothing usable is cached, a failed exchange changes nothing
\* for the others, and a usable token is never replaced.
Source == INSTANCE TokenSource WITH
    Margin <- Skew - Timeout,
    token <- cached,
    usableUntil <- expiresAt,
    calling <- {c \in Callers : pc[c] # "idle"}

AtomicSource == Source!Spec
================================================================================
