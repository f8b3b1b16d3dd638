------------------------------ MODULE TokenSource ------------------------------
(***************************************************************************)
(* What a token source promises to the goroutines that share it: a single  *)
(* register with an expiry, seen through calls that take effect at one     *)
(* instant between their start and their return.  TokenManager implements  *)
(* it with a mutex, two looks at the cache and an HTTP exchange.           *)
(***************************************************************************)
EXTENDS Integers

CONSTANTS
    Callers,    \* goroutines that ask for a token
    Lifetimes,  \* values of expires_in the provider may answer with
    Margin,     \* life a token has left, at least, when its usable time ends
    NoToken     \* the empty register

VARIABLES
    now,        \* the client's clock
    override,   \* whether a fixed token replaces the source
    token,      \* the register
    usableUntil,\* the instant from which the register is renewed
    calling,    \* callers whose call has started and not returned
    outcome     \* what each caller's last call returned

vars == <<now, override, token, usableUntil, calling, outcome>>

Tokens == [issued: 0..now, life: Lifetimes]

Returned(kind, t) == [kind |-> kind, token |-> t]

Usable == token # NoToken /\ now < usableUntil

Init ==
    /\ now = 0
    /\ override \in BOOLEAN
    /\ token = NoToken
    /\ usableUntil = 0
    /\ calling = {}
    /\ outcome = [c \in Callers |-> Returned("none", NoToken)]

\* A fixed token answers at once and leaves the register alone.
AnswerFixed(c) ==
    /\ override
    /\ outcome' = [outcome EXCEPT ![c] = Returned("override", NoToken)]
    /\ UNCHANGED <<now, override, token, usableUntil, calling>>

Begin(c) ==
    /\ ~override
    /\ c \notin calling
    /\ calling' = calling \union {c}
    /\ UNCHANGED <<now, override, token, usableUntil, outcome>>

Finish(c, o) ==
    /\ c \in calling
    /\ calling' = calling \ {c}
    /\ outcome' = [outcome EXCEPT ![c] = o]
    /\ UNCHANGED <<now, override>>

\* A usable register answers every caller with what it holds.
Serve(c) ==
    /\ Usable
    /\ Finish(c, Returned("token", token))
    /\ UNCHANGED <<token, usableUntil>>

\* Only an unusable register is replaced, by a token that stays usable no longer than
\* Margin before the provider stops accepting it.
Renew(c) ==
    /\ ~Usable
    /\ \E t \in Tokens :
        /\ token' = t
        /\ usableUntil' \in now + 1 .. t.issued + t.life - Margin
        /\ Finish(c, Returned("token", t))

\* A caller is refused only while nothing usable is held.
Refuse(c) ==
    /\ ~Usable
    /\ Finish(c, Returned("error", NoToken))
    /\ UNCHANGED <<token, usableUntil>>

Advance ==
    /\ now' > now
    /\ UNCHANGED <<override, token, usableUntil, calling, outcome>>

Answer(c) == Serve(c) \/ Renew(c) \/ Refuse(c)

Next ==
    \/ \E c \in Callers : AnswerFixed(c) \/ Begin(c) \/ Answer(c)
    \/ Advance

\* A call that has started returns.
Spec == Init /\ [][Next]_vars /\ \A c \in Callers : WF_vars(Answer(c))
================================================================================
