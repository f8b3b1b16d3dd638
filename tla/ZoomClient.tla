------------------------------ MODULE ZoomClient ------------------------------
(***************************************************************************)
(* One Client shared by goroutines: every call of Request or RequestRawBody *)
(* takes its token from the client's only TokenManager, once, before its   *)
(* first attempt, and carries it in the headers of every attempt.          *)
(***************************************************************************)
EXTENDS Integers

CONSTANTS
    Calls, Asked, Methods, Statuses, Bodies, MaxRetries, AttemptTimeout,
    BackoffBase, BackoffMax, WordBits,
    Lifetimes, Skew, Timeout, Jumps, MaxTime, NoToken, Free

VARIABLES
    now,
    \* TokenManager; a goroutine is named by the call it makes
    override, credentials, mu, cached, expiresAt,
    tokenPc, tokenCancelled, sentAt, reply, expiry, tokenOutcome,
    \* Request
    request, pc, attempt, timer, begun, cancelled, wire, executed, response, outcome

tokenVars == <<override, credentials, mu, cached, expiresAt, tokenPc, tokenCancelled,
               sentAt, reply, expiry, tokenOutcome>>
requestVars == <<request, pc, attempt, timer, begun, cancelled, wire, executed, response,
                 outcome>>
vars == <<now, tokenVars, requestVars>>

T == INSTANCE TokenManager WITH
    Callers <- Calls, pc <- tokenPc, cancelled <- tokenCancelled, outcome <- tokenOutcome

R == INSTANCE Request

\* Asked: the requests the calls may make.  The rest is what Settings.Validate enforces and
\* the two components assume.
ASSUME ClientAssumption ==
    /\ Asked \subseteq R!Requests
    /\ Statuses \subseteq 200..599
    /\ Bodies \subseteq {"empty", "json", "garbage", "oversize", "truncated"}
    /\ MaxRetries \in Nat
    /\ {AttemptTimeout, BackoffBase, BackoffMax, WordBits, Timeout} \subseteq Nat \ {0}
    /\ Skew \in Nat
    /\ Lifetimes \subseteq Nat
    /\ Jumps \subseteq Nat \ {0}
    /\ MaxTime \in Nat
    /\ Free \notin Calls
    /\ NoToken \notin [issued: Nat, life: Nat]

Init ==
    /\ request \in [Calls -> Asked]
    /\ R!Init
    /\ T!Init

\* GetAccessToken is called with the caller's own context.
AskToken(c) ==
    /\ R!AskToken(c)
    /\ \/ T!Call(c) /\ tokenCancelled'[c] = cancelled[c]
       \/ T!CallWithOverride(c)

Cancel(c) ==
    /\ R!Cancel(c)
    /\ IF tokenPc[c] # "idle" THEN T!Cancel(c) ELSE UNCHANGED tokenVars

TokenProgress(c) == T!Progress(c) /\ UNCHANGED requestVars

\* buildHeaders goes on with what GetAccessToken returned.
HeadersBuilt(c) ==
    /\ pc[c] = "headers"
    /\ tokenPc[c] = "idle"
    /\ IF tokenOutcome[c].kind = "error"
       THEN R!TokenRefused(c)
       ELSE R!BodyRejected(c) \/ R!Enter(c)
    /\ UNCHANGED tokenVars

Begin(c) == now < MaxTime /\ R!Begin(c) /\ UNCHANGED tokenVars

PathRejected(c) == R!PathRejected(c) /\ UNCHANGED tokenVars

Loop(c) == R!Loop(c) /\ UNCHANGED tokenVars

Provider(c) == R!Provider(c) /\ UNCHANGED tokenVars

\* A goroutine that waits for nothing takes no time: for neither the mutex, nor an answer,
\* nor the end of a sleep.
Hurrying(c) ==
    \/ pc[c] = "preparing"
    \/ pc[c] = "headers" /\ tokenPc[c] \in {"idle", "decoded"}
    \/ tokenPc[c] \in {"fast", "slow"} /\ mu = Free

Tick ==
    /\ now < MaxTime \/ T!Exchanging # {} \/ R!Timed # {}
    /\ \A c \in Calls : ~Hurrying(c)
    /\ T!Elapse
    /\ R!Elapse

Next ==
    \/ \E c \in Calls :
        \/ Begin(c) \/ PathRejected(c) \/ AskToken(c) \/ TokenProgress(c) \/ HeadersBuilt(c)
        \/ Loop(c) \/ Provider(c) \/ Cancel(c)
    \/ Tick

Spec == Init /\ [][Next]_vars

--------------------------------------------------------------------------------

TypeOK == T!TypeOK /\ R!TypeOK

\* An attempt of c is put on the wire.
Sends(c) == pc[c] = "ready" /\ pc'[c] = "waiting"

Bearer(c) == tokenOutcome[c].token

\* What the skew buys on the wire: the token was handed out with more than
\* Skew - Timeout to live, and each earlier attempt and sleep has used up some of that.
\* Retries must fit in the skew as well as the token exchange (client.go:106-146).
BearerMargin ==
    [][\A c \in Calls :
        Sends(c) /\ tokenOutcome[c].kind = "token" =>
            now + (Skew - Timeout) < T!ProviderExpiry(Bearer(c)) + R!Budget(attempt[c])]_vars

\* Every attempt is authenticated: its token is one the provider still accepts
\* (client.go:91, "Request executes one authenticated validated request").
LiveOnTheWire ==
    [][\A c \in Calls :
        Sends(c) /\ tokenOutcome[c].kind = "token" => now < T!ProviderExpiry(Bearer(c))]_vars
================================================================================
