----------------------------- MODULE MCZoomClient -----------------------------
(***************************************************************************)
(* ZoomClient with two calls that share one token.                         *)
(***************************************************************************)
EXTENDS ZoomClient, FiniteSets, TLC

\* A GET that validates its answer.
PlainGet == [method |-> "GET", raw |-> FALSE, documented |-> TRUE, fault |-> "none"]

\* A POST whose body does not marshal: it asks for the token all the same.
BadPost == [method |-> "POST", raw |-> FALSE, documented |-> TRUE, fault |-> "body"]

\* A GET with a placeholder left in its path.
BadPath == [method |-> "GET", raw |-> FALSE, documented |-> TRUE, fault |-> "path"]

\* The calls differ only in what they ask for, which Init leaves open.
Symmetry == Permutations(Calls)

SmallAsked == {PlainGet, BadPost, BadPath}

DefaultsAsked == {PlainGet}

\* Enough to look for a late retry: a first call at once, the second while the token it
\* cached is about to expire, none cancelled.
SecondCallLate ==
    /\ credentials /\ ~override
    /\ now = 0 \/ now >= MaxTime - 1
    /\ \A c \in Calls : ~cancelled[c] /\ ~tokenCancelled[c] /\ wire[c] \subseteq {attempt[c]}
    /\ now = 0 => Cardinality({c \in Calls : pc[c] # "idle"}) <= 1
================================================================================
