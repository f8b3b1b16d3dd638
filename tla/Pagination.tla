------------------------------ MODULE Pagination ------------------------------
(***************************************************************************)
(* SDKOperation.Paginate and IterAll of sdk.go, and the Phone directory    *)
(* readers of phone_directory.go that delegate to them: one walk over the  *)
(* pages of a listing, each page telling the token of the next.            *)
(*                                                                         *)
(* A request is asked through Client.Request, which Request models: here it *)
(* is answered with a page or fails.  A payload keeps its two token fields *)
(* and its arrays, keyed by the rank of their names in sorted order.       *)
(***************************************************************************)
EXTENDS Integers, FiniteSetsExt, SequencesExt

CONSTANTS
    Tokens,     \* page tokens the provider gives out
    Paths,      \* path arguments a caller may give
    Headers,    \* headers a caller may add
    Filters,    \* query parameters a caller may set
    Allowed,    \* those among them a Phone directory reader sends
    Listings,   \* what the provider lists: a payload for NoToken and every token
    MaxPages    \* bound: requests explored of a listing that never ends

\* No token: a listing starts with it, and its last page answers it.
NoToken == ""

\* A payload has finitely many arrays, and items are told apart by page, array and place.
ASSUME PaginationAssumption ==
    /\ NoToken \notin Tokens /\ "absent" \notin Tokens
    /\ IsFiniteSet(Tokens)
    /\ Allowed \subseteq Filters
    /\ MaxPages \in Nat
    /\ \A l \in Listings :
        /\ DOMAIN l = Tokens \union {NoToken}
        /\ \A t \in DOMAIN l : {l[t].snake, l[t].camel} \subseteq Tokens \union {NoToken, "absent"}
        /\ \A t \in DOMAIN l :
            LET arrays == l[t].arrays
            IN  /\ DOMAIN arrays \subseteq Nat /\ IsFiniteSet(DOMAIN arrays)
                /\ arrays = [k \in DOMAIN arrays |-> arrays[k]]
                /\ \A k \in DOMAIN arrays : arrays[k] \in Seq(ToSet(arrays[k]))
        /\ \A t, u \in DOMAIN l :
            \A k \in DOMAIN l[t].arrays, m \in DOMAIN l[u].arrays :
                \A i \in DOMAIN l[t].arrays[k], j \in DOMAIN l[u].arrays[m] :
                    l[t].arrays[k][i] = l[u].arrays[m][j] => t = u /\ k = m /\ i = j

VARIABLES
    listing,    \* what the provider lists
    call,       \* what the caller asks for
    pc,         \* where the walk is
    query,      \* currentQuery
    asked,      \* the questions the provider has seen
    pages,      \* the pages collected
    cancelled,  \* whether the caller's context is done
    outcome,    \* what the walk returned
    result      \* the items IterAll returned

vars == <<listing, call, pc, query, asked, pages, cancelled, outcome, result>>

\* reader: through PhoneDirectory, which takes neither path arguments nor headers;
\* known: its descriptor and its operation are there.
Asks ==
    [reader: BOOLEAN, known: BOOLEAN, all: BOOLEAN, path: SUBSET Paths,
     headers: SUBSET Headers, filters: SUBSET Filters, token: Tokens \union {NoToken}]

Queries == [filters: SUBSET Filters, token: Tokens \union {NoToken}]

Questions == [path: SUBSET Paths, headers: SUBSET Headers, query: Queries]

TypeOK ==
    /\ listing \in Listings
    /\ call \in Asks
    /\ pc \in {"idle", "asking", "asked", "walked", "returned"}
    /\ query \in Queries
    /\ asked \in Seq(Questions)
    /\ pages \in Seq(Range(listing))
    /\ cancelled \in BOOLEAN
    /\ outcome \in {"none", "done", "failed"}
    /\ DOMAIN result \subseteq Nat

--------------------------------------------------------------------------------

\* A bug: the camel-case field is not looked at.
NextTokenSnakeOnly(payload) == payload.snake

\* firstString: the first of the two fields that is a string, empty or not.
NextToken(payload) ==
    IF payload.snake # "absent" THEN payload.snake
    ELSE IF payload.camel # "absent" THEN payload.camel ELSE NoToken

\* The items of a page: the array whose name comes first, or none.
PreferredCollection(payload) ==
    IF payload.arrays = << >> THEN << >> ELSE payload.arrays[Min(DOMAIN payload.arrays)]

\* PhoneDirectoryListOptions.query, or the caller's own query.
Sent(c) == IF c.reader THEN c.filters \intersect Allowed ELSE c.filters

\* Without a reader the caller has the operation at hand.
Init ==
    /\ listing \in Listings
    /\ call \in {c \in Asks : IF c.reader THEN c.path = {} /\ c.headers = {} ELSE c.known}
    /\ pc = "idle"
    /\ query = [filters |-> {}, token |-> NoToken]
    /\ asked = << >>
    /\ pages = << >>
    /\ cancelled = FALSE
    /\ outcome = "none"
    /\ result = << >>

\* The reader is not registered, or the SDK does not know its operation.
Unknown ==
    /\ pc = "idle"
    /\ call.reader /\ ~call.known
    /\ pc' = "returned"
    /\ outcome' = "failed"
    /\ UNCHANGED <<listing, call, query, asked, pages, cancelled, result>>

\* The caller's query is copied.
Begin ==
    /\ pc = "idle"
    /\ call.reader => call.known
    /\ query' = [filters |-> Sent(call), token |-> call.token]
    /\ pc' = "asking"
    /\ UNCHANGED <<listing, call, asked, pages, cancelled, outcome, result>>

Cancel ==
    /\ pc \in {"asking", "asked"}
    /\ ~cancelled
    /\ cancelled' = TRUE
    /\ UNCHANGED <<listing, call, pc, query, asked, pages, outcome, result>>

\* Raw: every page takes the path arguments and the headers of the call, and the query at hand.
Ask ==
    /\ pc = "asking"
    /\ ~cancelled
    /\ Len(asked) < MaxPages
    /\ asked' = Append(asked, [path |-> call.path, headers |-> call.headers, query |-> query])
    /\ pc' = "asked"
    /\ UNCHANGED <<listing, call, query, pages, cancelled, outcome, result>>

\* A bug: the token of the last page is not passed on.
TurnSamePage(payload) ==
    /\ pages' = Append(pages, payload)
    /\ IF NextToken(payload) = NoToken
       THEN pc' = "walked" /\ UNCHANGED query
       ELSE pc' = "asking" /\ UNCHANGED query

\* A bug: the query of the next page has its token and nothing else.
TurnTokenOnly(payload) ==
    /\ pages' = Append(pages, payload)
    /\ IF NextToken(payload) = NoToken
       THEN pc' = "walked" /\ UNCHANGED query
       ELSE pc' = "asking" /\ query' = [filters |-> {}, token |-> NextToken(payload)]

\* A bug: the last page is not kept.
TurnDropLast(payload) ==
    IF NextToken(payload) = NoToken
    THEN pc' = "walked" /\ UNCHANGED <<pages, query>>
    ELSE /\ pages' = Append(pages, payload)
         /\ pc' = "asking" /\ query' = [query EXCEPT !.token = NextToken(payload)]

\* The page is kept, and the next one, if any, will be asked for by its token.
Turn(payload) ==
    /\ pages' = Append(pages, payload)
    /\ IF NextToken(payload) = NoToken
       THEN pc' = "walked" /\ UNCHANGED query
       ELSE pc' = "asking" /\ query' = [query EXCEPT !.token = NextToken(payload)]

Answer ==
    /\ pc = "asked"
    /\ Turn(listing[query.token])
    /\ UNCHANGED <<listing, call, asked, cancelled, outcome, result>>

\* Raw returns an error, as it must once the context is done: the pages are dropped.
Fail ==
    /\ pc = "asked" \/ (pc = "asking" /\ cancelled)
    /\ pc' = "returned"
    /\ outcome' = "failed"
    /\ pages' = << >>
    /\ UNCHANGED <<listing, call, query, asked, cancelled, result>>

\* A bug: the items of a page replace those before them.
ReturnLastItems ==
    /\ pc = "walked"
    /\ pc' = "returned"
    /\ outcome' = "done"
    /\ result' = IF call.all THEN PreferredCollection(Last(pages)) ELSE << >>
    /\ UNCHANGED <<listing, call, query, asked, pages, cancelled>>

\* IterAll appends the items of page after page; Paginate returns the pages.
Return ==
    /\ pc = "walked"
    /\ pc' = "returned"
    /\ outcome' = "done"
    /\ result' = IF call.all
                 THEN FlattenSeq([i \in DOMAIN pages |-> PreferredCollection(pages[i])])
                 ELSE << >>
    /\ UNCHANGED <<listing, call, query, asked, pages, cancelled>>

Next == Unknown \/ Begin \/ Cancel \/ Ask \/ Answer \/ Fail \/ Return

\* The walk runs, and every request returns (Request).
Fairness == WF_vars(Unknown \/ Begin \/ Ask \/ Return) /\ WF_vars(Answer \/ Fail)

Spec == Init /\ [][Next]_vars /\ Fairness

--------------------------------------------------------------------------------

\* What a caller asks: a directory reader sends what its endpoint takes.
Question(c) ==
    [path |-> c.path, headers |-> c.headers,
     query |-> [filters |-> IF c.reader THEN c.filters \intersect Allowed ELSE c.filters,
                token |-> c.token]]

\* The first page is asked for with the caller's question, and each later one with that same
\* question but for the token, which is the one the page before it told (sdk.go:187-207,
\* phone_directory.go:215-250).
SameQuestion ==
    \A i \in DOMAIN asked :
        asked[i] = IF i = 1 THEN Question(call)
                   ELSE [Question(call) EXCEPT
                            !.query.token = NextToken(listing[asked[i - 1].query.token])]

\* A walk that succeeds has the pages of a listing that ends, from the caller's token to
\* the last, in order and each once; one that fails has none (sdk.go:192-206).
AllPagesOrNone ==
    /\ outcome = "done" =>
        /\ Len(pages) = Len(asked) /\ pages # << >>
        /\ asked[1].query.token = call.token /\ NextToken(pages[Len(pages)]) = NoToken
        /\ \A i \in DOMAIN asked : pages[i] = listing[asked[i].query.token]
        /\ \A i \in 2..Len(asked) : asked[i].query.token = NextToken(pages[i - 1])
        /\ \A i, j \in DOMAIN asked : asked[i].query.token = asked[j].query.token => i = j
    /\ outcome = "failed" => pages = << >> /\ result = << >>

\* Where every page has one array, IterAll returns all items of the pages walked, each
\* once (sdk.go:235-246).
EveryItemOnce ==
    outcome = "done" /\ call.all
      /\ (\A i \in DOMAIN pages : Cardinality(DOMAIN pages[i].arrays) <= 1) =>
        LET collections == UNION {Range(pages[i].arrays) : i \in DOMAIN pages}
        IN  /\ ToSet(result) = UNION {ToSet(s) : s \in collections}
            /\ IsInjective(result)

Limit == Cardinality(Tokens) + 2

\* The token of the n-th page from token t on, "end" past the last page.
TokenOf(t, n) ==
    LET at[i \in 1..Limit] ==
            IF i = 1 THEN t
            ELSE IF at[i - 1] = "end" \/ NextToken(listing[at[i - 1]]) = NoToken THEN "end"
            ELSE NextToken(listing[at[i - 1]])
    IN  at[n]

\* The listing ends, seen from the page the caller starts at.
Ends == TokenOf(call.token, Limit) = "end"

\* A walk returns if the listing ends or the caller gives up (sdk.go:193-205): nothing else
\* stops it.
WalkEnds == (pc # "idle" /\ Ends) \/ cancelled ~> pc = "returned"

\* "IterAll flattens items across paginated responses" (sdk.go:235): whichever of the arrays
\* of a response the items are, the result is that array over all pages.
OneCollection ==
    outcome = "done" /\ call.all =>
        \E k \in UNION {DOMAIN pages[i].arrays : i \in DOMAIN pages} \union {0} :
            result = FlattenSeq([i \in DOMAIN pages |->
                        IF k \in DOMAIN pages[i].arrays THEN pages[i].arrays[k] ELSE << >>])
================================================================================
