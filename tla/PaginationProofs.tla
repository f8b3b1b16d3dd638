--------------------------- MODULE PaginationProofs ---------------------------
(***************************************************************************)
(* What TLAPS proves of Pagination, for any listing, cyclic ones included,  *)
(* any filters and any number of pages: every page is asked for with the    *)
(* caller's question but for the token, a walk that succeeds has all pages, *)
(* each once, and IterAll returns all items of pages with one array, each   *)
(* once.  FlattenSeq is recursive; what it returns is shown by induction    *)
(* over the pages.                                                          *)
(***************************************************************************)
EXTENDS Pagination, SequenceTheorems, FiniteSetTheorems, WellFoundedInduction, TLAPS

\* The payloads of the listing.
Payloads == {listing[t] : t \in Tokens \union {NoToken}}

\* What is needed of the types: the walk keeps to the tokens of the listing.
Typed ==
    /\ listing \in Listings
    /\ call \in Asks
    /\ pc \in {"idle", "asking", "asked", "walked", "returned"}
    /\ outcome \in {"none", "done", "failed"}
    /\ query \in Queries
    /\ asked \in Seq(Questions)
    /\ pages \in Seq(Payloads)
    /\ cancelled \in BOOLEAN

\* The query at hand has the caller's filters.
Asking == pc \in {"asking", "asked"} => query.filters = Sent(call)

\* Whatever was asked had them, and the caller's path arguments and headers.
SameRest ==
    \A i \in DOMAIN asked :
        /\ asked[i].path = call.path /\ asked[i].headers = call.headers
        /\ asked[i].query.filters = Sent(call)

\* The n-th question asked for the n-th page, and each page but the first for the one after.
Chained ==
    /\ \A i \in DOMAIN pages : i \in DOMAIN asked /\ pages[i] = listing[asked[i].query.token]
    /\ asked # << >> => asked[1].query.token = call.token
    /\ \A i \in 2..Len(asked) :
        NextToken(listing[asked[i - 1].query.token]) = asked[i].query.token /\ asked[i].query.token # NoToken

\* What follows the pages collected so far.
Following ==
    IF pages = << >> THEN call.token ELSE NextToken(pages[Len(pages)])

\* Where the walk is between two pages.
Placed ==
    /\ pc = "idle" => asked = << >> /\ pages = << >>
    /\ pc = "asking" =>
        /\ Len(pages) = Len(asked) /\ query.token = Following
        /\ pages # << >> => Following # NoToken
    /\ pc = "asked" =>
        /\ Len(asked) = Len(pages) + 1 /\ query = asked[Len(asked)].query
    /\ pc = "walked" \/ outcome = "done" =>
        Len(pages) = Len(asked) /\ pages # << >> /\ Following = NoToken
    /\ pc # "returned" => outcome = "none"
    /\ outcome # "done" => result = << >>
    /\ outcome = "failed" => pages = << >>

Collections == [i \in DOMAIN pages |-> PreferredCollection(pages[i])]

\* What IterAll returned are the collections of the pages.
Flattened ==
    result = IF outcome = "done" /\ call.all THEN FlattenSeq(Collections) ELSE << >>

IInv == Typed /\ Asking /\ SameRest /\ Chained /\ Placed /\ Flattened

--------------------------------------------------------------------------------

\* A set of numbers that is not empty has a least one.
LEMMA LeastNumber ==
    ASSUME NEW S \in SUBSET Nat, S # {}
    PROVE  \E n \in S : \A m \in S : n <= m
<1>. DEFINE Less == {ss \in Nat \X Nat : ss[1] < ss[2]}
<1>1. IsWellFoundedOn(Less, Nat)
  BY NatLessThanWellFounded DEF OpToRel
<1>2. PICK n \in S : \A m \in S : ~(<<m, n>> \in Less)
  <2>. HIDE DEF Less
  <2>. QED BY <1>1, WFMin
<1>3. ASSUME NEW m \in S PROVE n <= m
  <2>1. m \in Nat /\ n \in Nat /\ ~(m < n)
    BY <1>2
  <2>. QED BY <2>1
<1>. QED BY <1>3

\* Induction over the natural numbers, for a set rather than a formula.
LEMMA Induction ==
    ASSUME NEW T, 0 \in T, \A n \in Nat : n \in T => n + 1 \in T
    PROVE  Nat \subseteq T
<1>1. SUFFICES ASSUME Nat \ T # {} PROVE FALSE
  OBVIOUS
<1>2. PICK n \in Nat \ T : \A m \in Nat \ T : n <= m
  BY <1>1, LeastNumber
<1>3. n # 0 /\ n - 1 \in Nat /\ n - 1 \notin Nat \ T
  BY <1>2
<1>. QED BY <1>2, <1>3

\* What the recursion in FlattenSeq asks of the function it defines.
Flattening(h, seqs, n) ==
    h = [i \in 1..n |-> IF i = 1 THEN seqs[i] ELSE h[i - 1] \o seqs[i]]

\* There is one: a function on 1..m, taken one number further.
LEMMA FlatteningExists ==
    ASSUME NEW seqs, NEW n \in Nat
    PROVE  \E h : Flattening(h, seqs, n)
<1>. DEFINE T == {m \in Nat : \E h : Flattening(h, seqs, m)}
<1>1. 0 \in T
  <2>1. Flattening([i \in 1..0 |-> 0], seqs, 0)
    BY DEF Flattening
  <2>. QED BY <2>1
<1>2. ASSUME NEW m \in Nat, m \in T PROVE m + 1 \in T
  <2>1. PICK h : Flattening(h, seqs, m)
    BY <1>2
  <2>. DEFINE g == [i \in 1..m + 1 |->
                        IF i \in 1..m THEN h[i]
                        ELSE IF i = 1 THEN seqs[i] ELSE h[i - 1] \o seqs[i]]
              step == [i \in 1..m + 1 |-> IF i = 1 THEN seqs[i] ELSE g[i - 1] \o seqs[i]]
  <2>2. ASSUME NEW i \in 1..m + 1 PROVE g[i] = step[i]
    <3>1. CASE i = 1
      <4>1. i \in 1..m => h[i] = seqs[i]
        BY <2>1, <3>1 DEF Flattening
      <4>. QED BY <3>1, <4>1
    <3>2. CASE i # 1
      <4>1. i - 1 \in 1..m /\ i - 1 \in 1..m + 1
        BY <3>2
      <4>2. g[i - 1] = h[i - 1]
        BY <4>1
      <4>3. i \in 1..m => h[i] = h[i - 1] \o seqs[i]
        BY <2>1, <3>2 DEF Flattening
      <4>. QED BY <3>2, <4>2, <4>3
    <3>. QED BY <3>1, <3>2
  <2>3. g = step
    <3>1. /\ g = [i \in 1..m + 1 |-> g[i]]
          /\ step = [i \in 1..m + 1 |-> step[i]]
      OBVIOUS
    <3>. HIDE DEF g, step
    <3>. QED BY <2>2, <3>1
  <2>4. Flattening(g, seqs, m + 1)
    <3>. HIDE DEF g
    <3>. QED BY <2>3 DEF Flattening
  <2>. HIDE DEF g
  <2>. QED BY <2>4
<1>. HIDE DEF T
<1>3. n \in T
  BY <1>1, <1>2, Induction
<1>. QED BY <1>3 DEF T

\* So FlattenSeq, which chooses one, returns its last value.
LEMMA FlattenUnfolds ==
    ASSUME NEW seqs, Len(seqs) \in Nat, Len(seqs) # 0
    PROVE  \E h : Flattening(h, seqs, Len(seqs)) /\ FlattenSeq(seqs) = h[Len(seqs)]
<1>. DEFINE h == CHOOSE h : Flattening(h, seqs, Len(seqs))
<1>1. Flattening(h, seqs, Len(seqs))
  BY FlatteningExists
<1>2. FlattenSeq(seqs) = h[Len(seqs)]
  BY DEF FlattenSeq, Flattening
<1>. QED BY <1>1, <1>2

\* Two sequences behind one another have the members of both.
LEMMA ConcatFacts ==
    ASSUME NEW S, NEW a \in Seq(S), NEW b \in Seq(S)
    PROVE  /\ a \o b \in Seq(S)
           /\ ToSet(a \o b) = ToSet(a) \union ToSet(b)
           /\ IsInjective(a) /\ IsInjective(b) /\ ToSet(a) \intersect ToSet(b) = {}
                => IsInjective(a \o b)
<1>. DEFINE c == a \o b
<1>1. /\ c \in Seq(S) /\ Len(c) = Len(a) + Len(b)
      /\ \A i \in 1..Len(a) + Len(b) : c[i] = IF i <= Len(a) THEN a[i] ELSE b[i - Len(a)]
  BY ConcatProperties
<1>. HIDE DEF c
<1>2. /\ Len(a) \in Nat /\ Len(b) \in Nat
      /\ DOMAIN a = 1..Len(a) /\ DOMAIN b = 1..Len(b) /\ DOMAIN c = 1..Len(a) + Len(b)
  BY <1>1
<1>3. ASSUME NEW i \in DOMAIN c
      PROVE  \/ i \in DOMAIN a /\ c[i] = a[i]
             \/ i - Len(a) \in DOMAIN b /\ i \notin DOMAIN a /\ c[i] = b[i - Len(a)]
  <2>1. CASE i <= Len(a)
    BY <1>1, <1>2, <2>1
  <2>2. CASE ~(i <= Len(a))
    <3>1. i - Len(a) \in 1..Len(b) /\ i \notin 1..Len(a)
      BY <1>2, <2>2
    <3>. QED BY <1>1, <1>2, <2>2, <3>1
  <2>. QED BY <2>1, <2>2
<1>4. ASSUME NEW i \in DOMAIN a PROVE i \in DOMAIN c /\ c[i] = a[i]
  <2>1. i \in 1..Len(a) + Len(b) /\ i <= Len(a)
    BY <1>2
  <2>. QED BY <1>1, <1>2, <2>1
<1>5. ASSUME NEW i \in DOMAIN b PROVE i + Len(a) \in DOMAIN c /\ c[i + Len(a)] = b[i]
  <2>1. i + Len(a) \in 1..Len(a) + Len(b) /\ ~(i + Len(a) <= Len(a)) /\ i + Len(a) - Len(a) = i
    BY <1>2
  <2>. QED BY <1>1, <1>2, <2>1
<1>6. ToSet(c) \subseteq ToSet(a) \union ToSet(b)
  BY <1>3 DEF ToSet
<1>7. ToSet(a) \union ToSet(b) \subseteq ToSet(c)
  BY <1>4, <1>5 DEF ToSet
<1>8. ASSUME IsInjective(a), IsInjective(b), ToSet(a) \intersect ToSet(b) = {}
      PROVE  IsInjective(c)
  <2>1. SUFFICES ASSUME NEW i \in DOMAIN c, NEW j \in DOMAIN c, c[i] = c[j] PROVE i = j
    BY DEF IsInjective
  <2>2. i \in Int /\ j \in Int
    BY <1>2
  <2>3. \A k \in DOMAIN a, m \in DOMAIN b : a[k] # b[m]
    BY <1>8 DEF ToSet
  <2>4. CASE i \in DOMAIN a /\ j \in DOMAIN a
    BY <1>4, <1>8, <2>1, <2>4 DEF IsInjective
  <2>5. CASE i \notin DOMAIN a /\ j \notin DOMAIN a
    <3>1. /\ i - Len(a) \in DOMAIN b /\ c[i] = b[i - Len(a)]
          /\ j - Len(a) \in DOMAIN b /\ c[j] = b[j - Len(a)]
      BY <1>3, <2>5
    <3>2. i - Len(a) = j - Len(a)
      BY <1>8, <2>1, <3>1 DEF IsInjective
    <3>. QED BY <1>2, <2>2, <3>2
  <2>6. CASE i \in DOMAIN a /\ j \notin DOMAIN a
    BY <1>3, <1>4, <2>1, <2>3, <2>6
  <2>7. CASE i \notin DOMAIN a /\ j \in DOMAIN a
    BY <1>3, <1>4, <2>1, <2>3, <2>7
  <2>. QED BY <2>4, <2>5, <2>6, <2>7
<1>. QED BY <1>1, <1>6, <1>7, <1>8 DEF c

\* The members of the first n of these sequences.
Members(seqs, n) == UNION {ToSet(seqs[i]) : i \in 1..n}

\* No member occurs twice in these sequences.
NoneTwice(seqs) ==
    /\ \A i \in 1..Len(seqs) : IsInjective(seqs[i])
    /\ \A i, j \in 1..Len(seqs) : i # j => ToSet(seqs[i]) \intersect ToSet(seqs[j]) = {}

\* s is the first n of these sequences behind one another.
FlattenedUpto(s, seqs, S, n) ==
    s \in Seq(S) /\ ToSet(s) = Members(seqs, n) /\ (NoneTwice(seqs) => IsInjective(s))

\* What FlattenSeq returns: a sequence of the members of its parts, each once if none occurs
\* twice in the parts.
LEMMA FlattenFacts ==
    ASSUME NEW S, NEW seqs, Len(seqs) \in Nat, Len(seqs) # 0,
           \A i \in 1..Len(seqs) : seqs[i] \in Seq(S)
    PROVE  FlattenedUpto(FlattenSeq(seqs), seqs, S, Len(seqs))
<1>1. PICK h : Flattening(h, seqs, Len(seqs)) /\ FlattenSeq(seqs) = h[Len(seqs)]
  BY FlattenUnfolds
<1>. DEFINE T == {n \in Nat : n \in 1..Len(seqs) => FlattenedUpto(h[n], seqs, S, n)}
<1>2. 0 \in T
  OBVIOUS
<1>3. ASSUME NEW n \in Nat, n \in T PROVE n + 1 \in T
  <2>1. ASSUME n + 1 \in 1..Len(seqs) PROVE FlattenedUpto(h[n + 1], seqs, S, n + 1)
    <3>1. seqs[n + 1] \in Seq(S)
      BY <2>1
    <3>2. NoneTwice(seqs) => IsInjective(seqs[n + 1])
      BY <2>1 DEF NoneTwice
    <3>3. Members(seqs, n + 1) = Members(seqs, n) \union ToSet(seqs[n + 1])
      <4>1. 1..n + 1 = 1..n \union {n + 1}
        OBVIOUS
      <4>. QED BY <4>1 DEF Members
    <3>4. CASE n = 0
      <4>1. h[n + 1] = seqs[n + 1]
        BY <1>1, <2>1, <3>4 DEF Flattening
      <4>2. Members(seqs, n) = {}
        BY <3>4 DEF Members
      <4>. QED BY <3>1, <3>2, <3>3, <4>1, <4>2 DEF FlattenedUpto
    <3>5. CASE n # 0
      <4>1. n \in 1..Len(seqs) /\ n + 1 # 1 /\ n + 1 - 1 = n
        BY <2>1, <3>5
      <4>2. FlattenedUpto(h[n], seqs, S, n)
        BY <1>3, <4>1
      <4>3. h[n + 1] = h[n] \o seqs[n + 1]
        <5>1. \A i \in 1..Len(seqs) : h[i] = IF i = 1 THEN seqs[i] ELSE h[i - 1] \o seqs[i]
          BY <1>1 DEF Flattening
        <5>2. h[n + 1] = IF n + 1 = 1 THEN seqs[n + 1] ELSE h[n + 1 - 1] \o seqs[n + 1]
          BY <2>1, <5>1
        <5>. QED BY <4>1, <5>2
      <4>4. NoneTwice(seqs) => ToSet(h[n]) \intersect ToSet(seqs[n + 1]) = {}
        <5>1. SUFFICES ASSUME NoneTwice(seqs), NEW i \in 1..n
                       PROVE  ToSet(seqs[i]) \intersect ToSet(seqs[n + 1]) = {}
          BY <4>2 DEF FlattenedUpto, Members
        <5>2. i \in 1..Len(seqs) /\ i # n + 1
          BY <2>1
        <5>. QED BY <2>1, <5>1, <5>2 DEF NoneTwice
      <4>5. /\ h[n + 1] \in Seq(S)
            /\ ToSet(h[n + 1]) = ToSet(h[n]) \union ToSet(seqs[n + 1])
            /\ NoneTwice(seqs) => IsInjective(h[n + 1])
        BY <3>1, <3>2, <4>2, <4>3, <4>4, ConcatFacts DEF FlattenedUpto
      <4>. QED BY <3>3, <4>2, <4>5 DEF FlattenedUpto
    <3>. QED BY <3>4, <3>5
  <2>. QED BY <2>1
<1>. HIDE DEF T
<1>4. Len(seqs) \in T
  BY <1>2, <1>3, Induction
<1>5. Len(seqs) \in 1..Len(seqs)
  OBVIOUS
<1>. QED BY <1>1, <1>4, <1>5 DEF T

\* Two different values make a set of two.
LEMMA PairSize ==
  ASSUME NEW a, NEW b, a # b
  PROVE  IsFiniteSet({a, b}) /\ Cardinality({a, b}) = 2
<1>1. IsFiniteSet({b}) /\ Cardinality({b}) = 1
  BY FS_Singleton
<1>2. a \notin {b}
  OBVIOUS
<1>3. IsFiniteSet({b} \union {a}) /\ Cardinality({b} \union {a}) = 2
  BY <1>1, <1>2, FS_AddElement
<1>4. {b} \union {a} = {a, b}
  OBVIOUS
<1>. QED BY <1>3, <1>4

\* What follows a page of the listing is a token of it, or none.
LEMMA TokenFacts ==
    ASSUME Typed, NEW t \in Tokens \union {NoToken}
    PROVE  NextToken(listing[t]) \in Tokens \union {NoToken}
BY PaginationAssumption DEF PaginationAssumption, Typed, NextToken

\* Queries and pages are sequences, with a last element unless they are empty.
LEMMA SeqFacts ==
    ASSUME Typed
    PROVE  /\ asked \in Seq(Questions) /\ DOMAIN asked = 1..Len(asked) /\ Len(asked) \in Nat
           /\ pages \in Seq(Payloads) /\ DOMAIN pages = 1..Len(pages) /\ Len(pages) \in Nat
           /\ \A i \in DOMAIN asked : asked[i] \in Questions
           /\ asked # << >> => Len(asked) \in DOMAIN asked
           /\ pages # << >> => Len(pages) \in DOMAIN pages
           /\ asked = << >> <=> Len(asked) = 0
           /\ pages = << >> <=> Len(pages) = 0
<1>1. asked \in Seq(Questions) /\ pages \in Seq(Payloads)
  BY DEF Typed
<1>. QED BY <1>1

\* Every step keeps the walk to the listing.
LEMMA TypedStep ==
    ASSUME Typed, [Next]_vars
    PROVE  Typed'
<1>. USE DEF Typed
<1>0. listing' = listing => Payloads' = Payloads
  BY DEF Payloads
<1>1. CASE Unknown \/ Cancel \/ Fail \/ Return \/ UNCHANGED vars
  <2>1. UNCHANGED <<listing, call, query, asked>> /\ (pages' = pages \/ pages' = << >>)
    BY <1>1 DEF Unknown, Cancel, Fail, Return, vars
  <2>2. /\ pc' \in {pc, "returned"} /\ outcome' \in {outcome, "done", "failed"}
        /\ cancelled' \in BOOLEAN
    BY <1>1 DEF Unknown, Cancel, Fail, Return, vars
  <2>3. pages' \in Seq(Payloads)
    <3>1. pages \in Seq(Payloads) /\ << >> \in Seq(Payloads)
      BY SeqFacts
    <3>. QED BY <2>1, <3>1
  <2>. QED BY <1>0, <2>1, <2>2, <2>3
<1>2. CASE Begin
  <2>1. [filters |-> Sent(call), token |-> call.token] \in Queries
    BY PaginationAssumption DEF PaginationAssumption, Queries, Asks, Sent
  <2>. QED BY <1>0, <1>2, <2>1 DEF Begin
<1>3. CASE Ask
  <2>1. [path |-> call.path, headers |-> call.headers, query |-> query] \in Questions
    BY DEF Questions, Asks
  <2>2. asked' \in Seq(Questions)
    BY <1>3, <2>1 DEF Ask
  <2>. QED BY <1>0, <1>3, <2>2 DEF Ask
<1>4. CASE Answer
  <2>1. query.token \in Tokens \union {NoToken} /\ NextToken(listing[query.token]) \in Tokens \union {NoToken}
    BY TokenFacts DEF Queries
  <2>2. pages' \in Seq(Payloads)
    <3>1. listing[query.token] \in Payloads /\ pages' = Append(pages, listing[query.token])
      BY <1>4, <2>1 DEF Answer, Turn, Payloads
    <3>2. Payloads' = Payloads
      BY <1>0, <1>4 DEF Answer
    <3>. QED BY <3>1, <3>2
  <2>3. query' \in Queries /\ pc' \in {"walked", "asking"}
    BY <1>4, <2>1 DEF Answer, Turn, Queries
  <2>4. UNCHANGED <<listing, call, asked, outcome, cancelled>>
    BY <1>4 DEF Answer
  <2>. QED BY <1>0, <2>2, <2>3, <2>4
<1>. QED BY <1>1, <1>2, <1>3, <1>4 DEF Next

\* The filters are chosen once and go from page to page with the query.
LEMMA QuestionStep ==
    ASSUME Typed, Asking, SameRest, [Next]_vars
    PROVE  Asking' /\ SameRest'
<1>. USE DEF Asking, SameRest, Sent
<1>1. CASE Unknown \/ Cancel \/ Fail \/ Return \/ UNCHANGED vars
  BY <1>1 DEF Unknown, Cancel, Fail, Return, vars
<1>2. CASE Begin
  BY <1>2 DEF Begin
<1>3. CASE Ask
  <2>. DEFINE question == [path |-> call.path, headers |-> call.headers, query |-> query]
  <2>1. /\ DOMAIN asked' = DOMAIN asked \union {Len(asked) + 1}
        /\ asked'[Len(asked) + 1] = question
        /\ \A i \in DOMAIN asked : asked'[i] = asked[i]
    <3>1. asked \in Seq(Questions) /\ question \in Questions
      BY DEF Typed, Questions, Asks
    <3>2. asked' = Append(asked, question)
      BY <1>3 DEF Ask
    <3>. HIDE DEF question
    <3>. QED BY <3>1, <3>2
  <2>2. pc = "asking" /\ UNCHANGED <<call, query>>
    BY <1>3 DEF Ask
  <2>3. /\ question.path = call.path /\ question.headers = call.headers
        /\ question.query.filters = Sent(call)
    BY <2>2
  <2>. HIDE DEF question
  <2>. QED BY <2>1, <2>2, <2>3
<1>4. CASE Answer
  BY <1>4 DEF Answer, Turn, Typed, Queries
<1>. QED BY <1>1, <1>2, <1>3, <1>4 DEF Next

\* A page is asked for with the token of the page before, and kept behind it.
LEMMA ChainStep ==
    ASSUME Typed, Chained, Placed, [Next]_vars
    PROVE  Chained' /\ Placed'
<1>1. /\ asked \in Seq(Questions) /\ DOMAIN asked = 1..Len(asked) /\ Len(asked) \in Nat
      /\ pages \in Seq(Payloads) /\ DOMAIN pages = 1..Len(pages) /\ Len(pages) \in Nat
      /\ asked = << >> <=> Len(asked) = 0
      /\ pages = << >> <=> Len(pages) = 0
  BY SeqFacts
<1>2. CASE Unknown \/ Cancel \/ UNCHANGED vars
  BY <1>2 DEF Unknown, Cancel, vars, Chained, Placed, Following
<1>3. CASE Fail
  <2>1. /\ pages' = << >> /\ pc' = "returned" /\ outcome' = "failed" /\ pc \in {"asked", "asking"}
        /\ UNCHANGED <<listing, call, asked, result>>
    BY <1>3 DEF Fail
  <2>2. result = << >> /\ DOMAIN pages' = {}
    BY <2>1 DEF Placed
  <2>. QED BY <1>1, <2>1, <2>2 DEF Chained, Placed, Following
<1>4. CASE Return
  BY <1>4 DEF Return, Chained, Placed, Following
<1>5. CASE Begin
  BY <1>5 DEF Begin, Chained, Placed, Following
<1>6. CASE Ask
  <2>1. /\ DOMAIN asked' = 1..Len(asked) + 1 /\ asked'[Len(asked) + 1].query = query
        /\ Len(asked') = Len(asked) + 1 /\ \A i \in DOMAIN asked : asked'[i] = asked[i]
    BY <1>1, <1>6 DEF Ask
  <2>2. /\ pc = "asking" /\ pc' = "asked" /\ UNCHANGED <<listing, call, query, pages, outcome, result>>
    BY <1>6 DEF Ask
  <2>3. Len(pages) = Len(asked) /\ query.token = Following /\ (pages # << >> => Following # NoToken)
    BY <2>2 DEF Placed
  <2>4. Placed'
    BY <1>1, <2>1, <2>2, <2>3 DEF Placed
  <2>5. asked # << >> =>
            Following = NextToken(listing[asked[Len(asked)].query.token]) /\ Following # NoToken
    BY <1>1, <2>3 DEF Following, Chained
  <2>6. asked = << >> => Following = call.token
    BY <1>1, <2>3 DEF Following
  <2>7. Chained'
    <3>1. \A i \in DOMAIN pages : i \in DOMAIN asked' /\ pages[i] = listing[asked'[i].query.token]
      BY <1>1, <2>1 DEF Chained
    <3>2. asked'[1].query.token = call.token
      <4>1. CASE asked = << >>
        BY <1>1, <2>1, <2>3, <2>6, <4>1
      <4>2. CASE asked # << >>
        <5>1. 1 \in DOMAIN asked
          BY <1>1, <4>2
        <5>. QED BY <2>1, <4>2, <5>1 DEF Chained
      <4>. QED BY <4>1, <4>2
    <3>3. ASSUME NEW i \in 2..Len(asked')
          PROVE  NextToken(listing[asked'[i - 1].query.token]) = asked'[i].query.token /\ asked'[i].query.token # NoToken
      <4>1. CASE i = Len(asked) + 1
        <5>1. asked # << >> /\ i - 1 = Len(asked) /\ i - 1 \in DOMAIN asked
          BY <1>1, <2>1, <3>3, <4>1
        <5>. QED BY <2>1, <2>3, <2>5, <4>1, <5>1
      <4>2. CASE i # Len(asked) + 1
        <5>1. i \in 2..Len(asked) /\ i \in DOMAIN asked /\ i - 1 \in DOMAIN asked
          BY <1>1, <2>1, <3>3, <4>2
        <5>. QED BY <2>1, <5>1 DEF Chained
      <4>. QED BY <4>1, <4>2
    <3>. QED BY <2>2, <3>1, <3>2, <3>3 DEF Chained
  <2>. QED BY <2>4, <2>7
<1>7. CASE Answer
  <2>. DEFINE page == listing[query.token]
  <2>1. /\ DOMAIN pages' = 1..Len(pages) + 1 /\ pages'[Len(pages) + 1] = page
        /\ Len(pages') = Len(pages) + 1 /\ \A i \in DOMAIN pages : pages'[i] = pages[i]
    <3>1. page \in Payloads /\ pages' = Append(pages, page)
      BY <1>7 DEF Answer, Turn, Typed, Queries, Payloads
    <3>. HIDE DEF page
    <3>. QED BY <1>1, <3>1
  <2>2. /\ pc = "asked" /\ pc' # "returned" /\ UNCHANGED <<listing, call, asked, outcome, result>>
        /\ IF NextToken(page) = NoToken THEN pc' = "walked"
                                   ELSE pc' = "asking" /\ query'.token = NextToken(page)
    BY <1>7 DEF Answer, Turn, Typed, Queries
  <2>3. Len(asked) = Len(pages) + 1 /\ query = asked[Len(asked)].query /\ outcome = "none"
    BY <2>2 DEF Placed
  <2>4. Chained'
    BY <1>1, <2>1, <2>2, <2>3 DEF Chained
  <2>5. Following' = NextToken(page) /\ pages' # << >>
    BY <1>1, <2>1 DEF Following
  <2>6. Placed'
    BY <1>1, <2>1, <2>2, <2>3, <2>5 DEF Placed
  <2>. QED BY <2>4, <2>6
<1>. QED BY <1>2, <1>3, <1>4, <1>5, <1>6, <1>7 DEF Next

\* The items are collected once, as the walk returns.
LEMMA FlattenedStep ==
    ASSUME Placed, Flattened, [Next]_vars
    PROVE  Flattened'
<1>1. CASE Unknown \/ Begin \/ Cancel \/ Ask \/ Answer \/ Fail
  <2>1. outcome = "none" /\ outcome' # "done" /\ UNCHANGED <<result, call>>
    BY <1>1 DEF Placed, Unknown, Begin, Cancel, Ask, Answer, Fail
  <2>. QED BY <2>1 DEF Flattened
<1>2. CASE Return
  BY <1>2 DEF Return, Flattened, Collections
<1>3. CASE UNCHANGED vars
  BY <1>3 DEF vars, Flattened, Collections
<1>. QED BY <1>1, <1>2, <1>3 DEF Next

\* Each question of a walk, some steps after its first, carries the token that follows the
\* page of the question before.
LEMMA Succession ==
    ASSUME Chained, Len(asked) \in Nat, NEW x \in Nat, NEW k \in Nat, x # 0, k # 0,
           x + k \in 1..Len(asked)
    PROVE  asked[x + k].query.token = NextToken(listing[asked[x + (k - 1)].query.token])
<1>1. x + k \in 2..Len(asked) /\ x + (k - 1) = x + k - 1
  OBVIOUS
<1>. QED BY <1>1 DEF Chained

\* Two pages with one token would be followed by the same pages for ever, so a walk that
\* comes to an end has met each token once.
LEMMA EachOnce ==
    ASSUME Typed, Chained, Len(pages) = Len(asked), pages # << >>, Following = NoToken,
           NEW i \in DOMAIN asked, NEW j \in DOMAIN asked, i < j
    PROVE  asked[i].query.token # asked[j].query.token
<1>1. /\ DOMAIN asked = 1..Len(asked) /\ Len(asked) \in Nat /\ i \in Nat /\ j \in Nat
      /\ DOMAIN pages = 1..Len(pages)
  BY SeqFacts
<1>0. i # 0 /\ j # 0
  BY <1>1
<1>. DEFINE n == Len(asked) - j
            Differs == {k \in 0..n : asked[i + k].query.token # asked[j + k].query.token}
            Less == {ss \in Nat \X Nat : ss[1] < ss[2]}
<1>2. n \in Nat
  BY <1>1
<1>3. SUFFICES ASSUME asked[i].query.token = asked[j].query.token PROVE FALSE
  OBVIOUS
<1>4. Differs = {}
  <2>. SUFFICES ASSUME Differs # {} PROVE FALSE
    OBVIOUS
  <2>1. IsWellFoundedOn(Less, Nat)
    BY NatLessThanWellFounded DEF OpToRel, Less
  <2>2. PICK k \in Differs : \A m \in Differs : ~(<<m, k>> \in Less)
    <3>1. Differs \subseteq Nat
      BY <1>2
    <3>. HIDE DEF Less, Differs
    <3>. QED BY <2>1, <3>1, WFMin
  <2>3. k \in 1..n
    BY <1>1, <1>2, <1>3, <2>2
  <2>4. k - 1 \notin Differs /\ k - 1 \in 0..n
    <3>1. <<k - 1, k>> \in Less
      <4>1. k - 1 \in Nat /\ k \in Nat /\ k - 1 < k
        BY <1>2, <2>3
      <4>. QED BY <4>1
    <3>. HIDE DEF Less, Differs
    <3>. QED BY <2>2, <2>3, <3>1, <1>2
  <2>5. asked[i + (k - 1)].query.token = asked[j + (k - 1)].query.token
    BY <2>4
  <2>6. asked[i + k].query.token # asked[j + k].query.token
    BY <2>2
  <2>7. k \in Nat /\ k # 0 /\ i + k \in 1..Len(asked) /\ j + k \in 1..Len(asked)
    <3>. HIDE DEF Differs, Less
    <3>. QED BY <1>1, <2>3
  <2>. HIDE DEF Differs, Less, n
  <2>8. asked[i + k].query.token = NextToken(listing[asked[i + (k - 1)].query.token])
    BY <1>0, <1>1, <2>7, Succession
  <2>9. asked[j + k].query.token = NextToken(listing[asked[j + (k - 1)].query.token])
    BY <1>0, <1>1, <2>7, Succession
  <2>. QED BY <2>5, <2>6, <2>8, <2>9
<1>5. asked[i + n].query.token = asked[Len(asked)].query.token
  <2>1. n \in 0..n /\ j + n = Len(asked)
    BY <1>1, <1>2
  <2>. QED BY <1>4, <2>1
<1>6. NextToken(listing[asked[Len(asked)].query.token]) = NoToken
  BY <1>1 DEF Chained, Following
<1>7. i + n + 1 \in 2..Len(asked) /\ i + n + 1 - 1 = i + n
  BY <1>1, <1>2
<1>8. NextToken(listing[asked[i + n].query.token]) # NoToken
  <2>1. \A m \in 2..Len(asked) : NextToken(listing[asked[m - 1].query.token]) # NoToken
    BY DEF Chained
  <2>. QED BY <1>7, <2>1
<1>. QED BY <1>5, <1>6, <1>8

--------------------------------------------------------------------------------

\* A function with no arguments is the empty sequence.
LEMMA NoArguments ==
    ASSUME NEW f, f = [k \in DOMAIN f |-> f[k]], DOMAIN f = {}
    PROVE  f = << >>
<1>1. f \in [1..0 -> {}]
  OBVIOUS
<1>2. f \in Seq({}) /\ Len(f) = 0
  BY <1>1, SeqDef
<1>. QED BY <1>2, EmptySeq

\* The preferred collection of a page is a sequence, and with one array at most it is that
\* array, of items that no other page has.
LEMMA CollectionFacts ==
    ASSUME Typed, NEW t \in Tokens \union {NoToken}
    PROVE  LET page == listing[t]
               S == PreferredCollection(page)
           IN  /\ S \in Seq(ToSet(S))
               /\ Cardinality(DOMAIN page.arrays) <= 1 =>
                    ToSet(S) = UNION {ToSet(s) : s \in Range(page.arrays)}
               /\ IsInjective(S)
               /\ \A u \in Tokens \union {NoToken} :
                    u # t => ToSet(S) \intersect ToSet(PreferredCollection(listing[u])) = {}
<1>. DEFINE Page(u) == listing[u]
            S(u) == PreferredCollection(Page(u))
            First(u) == Min(DOMAIN Page(u).arrays)
<1>1. ASSUME NEW u \in Tokens \union {NoToken}
      PROVE  /\ DOMAIN Page(u).arrays \subseteq Nat /\ IsFiniteSet(DOMAIN Page(u).arrays)
             /\ Page(u).arrays = [k \in DOMAIN Page(u).arrays |-> Page(u).arrays[k]]
             /\ \A k \in DOMAIN Page(u).arrays : Page(u).arrays[k] \in Seq(ToSet(Page(u).arrays[k]))
  BY PaginationAssumption DEF PaginationAssumption, Typed
<1>2. ASSUME NEW u \in Tokens \union {NoToken}
      PROVE  \/ S(u) = << >> /\ DOMAIN Page(u).arrays = {}
             \/ First(u) \in DOMAIN Page(u).arrays /\ S(u) = Page(u).arrays[First(u)]
  <2>1. CASE DOMAIN Page(u).arrays = {}
    <3>1. Page(u).arrays = [k \in DOMAIN Page(u).arrays |-> Page(u).arrays[k]]
      BY <1>1
    <3>2. Page(u).arrays = << >>
      BY <2>1, <3>1, NoArguments
    <3>. QED BY <2>1, <3>2 DEF PreferredCollection
  <2>2. CASE DOMAIN Page(u).arrays # {}
    <3>1. Page(u).arrays # << >>
      BY <2>2
    <3>2. PICK n \in DOMAIN Page(u).arrays : \A m \in DOMAIN Page(u).arrays : n <= m
      BY <1>1, <2>2, LeastNumber
    <3>3. First(u) \in DOMAIN Page(u).arrays
      BY <3>2 DEF Min
    <3>. QED BY <3>1, <3>3 DEF PreferredCollection
  <2>. QED BY <2>1, <2>2
<1>3. S(t) \in Seq(ToSet(S(t)))
  <2>1. CASE S(t) = << >>
    BY <2>1
  <2>2. CASE First(t) \in DOMAIN Page(t).arrays /\ S(t) = Page(t).arrays[First(t)]
    <3>1. Page(t).arrays[First(t)] \in Seq(ToSet(Page(t).arrays[First(t)]))
      BY <1>1, <2>2
    <3>. QED BY <2>2, <3>1
  <2>. QED BY <1>2, <2>1, <2>2
<1>4. ASSUME Cardinality(DOMAIN Page(t).arrays) <= 1
      PROVE  ToSet(S(t)) = UNION {ToSet(s) : s \in Range(Page(t).arrays)}
  <2>1. CASE DOMAIN Page(t).arrays = {}
    <3>1. S(t) = << >> /\ Range(Page(t).arrays) = {}
      BY <1>2, <2>1 DEF Range
    <3>2. ToSet(S(t)) = {}
      BY <3>1 DEF ToSet
    <3>. QED BY <3>1, <3>2
  <2>2. CASE DOMAIN Page(t).arrays # {}
    <3>1. DOMAIN Page(t).arrays = {First(t)} /\ S(t) = Page(t).arrays[First(t)]
      <4>1. First(t) \in DOMAIN Page(t).arrays /\ S(t) = Page(t).arrays[First(t)]
        BY <1>2, <2>2
      <4>2. ASSUME NEW k \in DOMAIN Page(t).arrays, k # First(t) PROVE FALSE
        <5>1. IsFiniteSet({k, First(t)}) /\ Cardinality({k, First(t)}) = 2
          BY <4>2, PairSize
        <5>2. {k, First(t)} \subseteq DOMAIN Page(t).arrays
          BY <4>1, <4>2
        <5>3. Cardinality({k, First(t)}) <= Cardinality(DOMAIN Page(t).arrays)
          BY <1>1, <5>2, FS_Subset
        <5>4. Cardinality(DOMAIN Page(t).arrays) \in Nat
          BY <1>1, FS_CardinalityType
        <5>. QED BY <1>4, <5>1, <5>3, <5>4
      <4>. QED BY <4>1, <4>2
    <3>2. Range(Page(t).arrays) = {S(t)}
      BY <3>1 DEF Range
    <3>. QED BY <3>2
  <2>. QED BY <2>1, <2>2
<1>5. ASSUME NEW u \in Tokens \union {NoToken}, NEW i \in DOMAIN S(t), NEW j \in DOMAIN S(u),
             S(t)[i] = S(u)[j]
      PROVE  t = u /\ i = j
  <2>1. S(t) # << >> /\ S(u) # << >>
    BY <1>5
  <2>2. /\ First(t) \in DOMAIN Page(t).arrays /\ S(t) = Page(t).arrays[First(t)]
        /\ First(u) \in DOMAIN Page(u).arrays /\ S(u) = Page(u).arrays[First(u)]
    BY <1>2, <2>1
  <2>. QED BY <1>5, <2>2, PaginationAssumption DEF PaginationAssumption, Typed
<1>6. IsInjective(S(t))
  BY <1>5 DEF IsInjective
<1>7. ASSUME NEW u \in Tokens \union {NoToken}, u # t
      PROVE  ToSet(S(t)) \intersect ToSet(S(u)) = {}
  BY <1>5, <1>7 DEF ToSet
<1>. QED BY <1>3, <1>4, <1>6, <1>7

--------------------------------------------------------------------------------

\* The inductive invariant holds in every reachable state.
LEMMA Inductive == Spec => []IInv
<1>1. ASSUME Init PROVE IInv
  <2>1. Typed
    <3>1. query \in Queries
      BY <1>1 DEF Init, Queries
    <3>2. asked \in Seq(Questions) /\ pages \in Seq(Payloads)
      BY <1>1 DEF Init
    <3>. QED BY <1>1, <3>1, <3>2 DEF Init, Typed
  <2>2. Asking /\ SameRest /\ Chained /\ Placed /\ Flattened
    <3>1. DOMAIN asked = {} /\ DOMAIN pages = {} /\ Len(asked) = 0
      BY <1>1 DEF Init
    <3>. QED BY <1>1, <3>1 DEF Init, Asking, SameRest, Chained, Placed, Flattened
  <2>. QED BY <2>1, <2>2 DEF IInv
<1>2. IInv /\ [Next]_vars => IInv'
  BY TypedStep, QuestionStep, ChainStep, FlattenedStep DEF IInv
<1>. QED BY <1>1, <1>2, PTL DEF Spec

\* Every page is asked for with the caller's path arguments, headers and filters, of which a
\* directory reader sends what its endpoint takes, and with the caller's token on the first
\* page, the token the page before told on every other, for any number of pages
\* (sdk.go:187-207, phone_directory.go:215-250).
THEOREM QuestionCorrect == Spec => []SameQuestion
<1>1. ASSUME IInv PROVE SameQuestion
  <2>. DEFINE Told(i) == IF i = 1 THEN call.token
                         ELSE NextToken(listing[asked[i - 1].query.token])
  <2>1. SUFFICES ASSUME NEW i \in DOMAIN asked
                 PROVE  asked[i] = IF i = 1 THEN Question(call)
                                   ELSE [Question(call) EXCEPT !.query.token = Told(i)]
    BY DEF SameQuestion
  <2>2. /\ DOMAIN asked = 1..Len(asked) /\ Len(asked) \in Nat /\ asked # << >>
        /\ asked[i] \in Questions
    BY <1>1, <2>1, SeqFacts DEF IInv
  <2>3. /\ asked[i].path = call.path /\ asked[i].headers = call.headers
        /\ asked[i].query.filters = Sent(call)
    BY <1>1, <2>1 DEF IInv, SameRest
  <2>4. asked[i].query.token = Told(i)
    <3>1. CASE i = 1
      BY <1>1, <2>2, <3>1 DEF IInv, Chained
    <3>2. CASE i # 1
      <4>1. i \in 2..Len(asked)
        BY <2>1, <2>2, <3>2
      <4>. QED BY <1>1, <3>2, <4>1 DEF IInv, Chained
    <3>. QED BY <3>1, <3>2
  <2>. HIDE DEF Told
  <2>5. asked[i].query = [filters |-> Sent(call), token |-> Told(i)]
    BY <2>2, <2>3, <2>4 DEF Questions, Queries
  <2>6. asked[i] = [path |-> call.path, headers |-> call.headers,
                    query |-> [filters |-> Sent(call), token |-> Told(i)]]
    BY <2>2, <2>3, <2>5 DEF Questions
  <2>7. Question(call).query = [filters |-> Sent(call), token |-> call.token]
    BY DEF Question, Sent
  <2>. QED BY <2>6, <2>7 DEF Question, Sent, Told
<1>. QED BY <1>1, Inductive, PTL

\* A walk that succeeds has all pages of a listing that ends, in order and each once, and
\* one that fails has none, for listings of any length (sdk.go:192-206).
THEOREM PagesCorrect == Spec => []AllPagesOrNone
<1>1. ASSUME IInv PROVE AllPagesOrNone
  <2>1. /\ DOMAIN asked = 1..Len(asked) /\ Len(asked) \in Nat
        /\ DOMAIN pages = 1..Len(pages) /\ Len(pages) \in Nat
    BY <1>1, SeqFacts DEF IInv
  <2>2. outcome = "failed" => pages = << >> /\ result = << >>
    BY <1>1 DEF IInv, Placed
  <2>3. SUFFICES ASSUME outcome = "done"
                 PROVE  /\ Len(pages) = Len(asked) /\ pages # << >>
                        /\ asked[1].query.token = call.token /\ NextToken(pages[Len(pages)]) = NoToken
                        /\ \A i \in DOMAIN asked : pages[i] = listing[asked[i].query.token]
                        /\ \A i \in 2..Len(asked) : asked[i].query.token = NextToken(pages[i - 1])
                        /\ \A i, j \in DOMAIN asked : asked[i].query.token = asked[j].query.token => i = j
    BY <2>2 DEF AllPagesOrNone
  <2>4. Len(pages) = Len(asked) /\ pages # << >> /\ Following = NoToken
    BY <1>1, <2>3 DEF IInv, Placed
  <2>5. \A i \in DOMAIN asked : pages[i] = listing[asked[i].query.token]
    BY <1>1, <2>1, <2>4 DEF IInv, Chained
  <2>6. \A i \in 2..Len(asked) : asked[i].query.token = NextToken(pages[i - 1])
    BY <1>1, <2>1, <2>5 DEF IInv, Chained
  <2>7. \A i, j \in DOMAIN asked : asked[i].query.token = asked[j].query.token => i = j
    <3>1. \A i, j \in DOMAIN asked : i < j => asked[i].query.token # asked[j].query.token
      BY <1>1, <2>4, EachOnce DEF IInv
    <3>. QED BY <2>1, <3>1
  <2>8. asked[1].query.token = call.token
    BY <1>1, <2>1, <2>4 DEF IInv, Chained
  <2>. QED BY <2>4, <2>5, <2>6, <2>7, <2>8 DEF Following
<1>. QED BY <1>1, Inductive, PTL

\* Where every page has one array, IterAll returns all items of the pages walked, each once,
\* for listings of any length: no page is walked twice (sdk.go:235-246).
THEOREM ItemsCorrect == Spec => []EveryItemOnce
<1>1. ASSUME IInv PROVE EveryItemOnce
  <2>1. SUFFICES ASSUME outcome = "done", call.all,
                        \A i \in DOMAIN pages : Cardinality(DOMAIN pages[i].arrays) <= 1
                 PROVE  /\ ToSet(result) = UNION {ToSet(s) :
                                s \in UNION {Range(pages[i].arrays) : i \in DOMAIN pages}}
                        /\ IsInjective(result)
    BY DEF EveryItemOnce
  <2>. DEFINE token(i) == asked[i].query.token
              All == UNION {ToSet(Collections[i]) : i \in DOMAIN pages}
  <2>2. /\ DOMAIN asked = 1..Len(asked) /\ Len(asked) \in Nat
        /\ DOMAIN pages = 1..Len(pages) /\ Len(pages) \in Nat
        /\ Len(pages) = Len(asked) /\ pages # << >> /\ Following = NoToken /\ Len(pages) # 0
    BY <1>1, <2>1, SeqFacts DEF IInv, Placed
  <2>3. \A i \in DOMAIN pages : token(i) \in Tokens \union {NoToken} /\ pages[i] = listing[token(i)]
    BY <1>1, <2>2, SeqFacts DEF IInv, Chained, Questions, Queries
  <2>4. \A i, j \in DOMAIN pages : i # j => token(i) # token(j)
    <3>1. \A i, j \in DOMAIN asked : i < j => asked[i].query.token # asked[j].query.token
      BY <1>1, <2>2, EachOnce DEF IInv
    <3>. QED BY <2>2, <3>1
  <2>5. ASSUME NEW i \in DOMAIN pages
        PROVE  /\ Collections[i] \in Seq(ToSet(Collections[i]))
               /\ ToSet(Collections[i]) = UNION {ToSet(s) : s \in Range(pages[i].arrays)}
               /\ IsInjective(Collections[i])
               /\ \A j \in DOMAIN pages :
                    i # j => ToSet(Collections[i]) \intersect ToSet(Collections[j]) = {}
    <3>1. \A k \in DOMAIN pages : Collections[k] = PreferredCollection(listing[token(k)])
      BY <2>3 DEF Collections
    <3>2. /\ token(i) \in Tokens \union {NoToken}
          /\ \A k \in DOMAIN pages : token(k) \in Tokens \union {NoToken}
          /\ \A k \in DOMAIN pages : k # i => token(k) # token(i)
      BY <2>3, <2>4
    <3>. DEFINE tk == token(i)
                S == PreferredCollection(listing[tk])
    <3>3. /\ S \in Seq(ToSet(S))
          /\ Cardinality(DOMAIN listing[tk].arrays) <= 1 =>
                ToSet(S) = UNION {ToSet(s) : s \in Range(listing[tk].arrays)}
          /\ IsInjective(S)
          /\ \A u \in Tokens \union {NoToken} :
                u # tk => ToSet(S) \intersect ToSet(PreferredCollection(listing[u])) = {}
      <4>1. tk \in Tokens \union {NoToken} /\ Typed
        BY <1>1, <3>2 DEF IInv
      <4>. HIDE DEF tk
      <4>. QED BY <4>1, CollectionFacts
    <3>4. pages[i] = listing[tk] /\ Cardinality(DOMAIN pages[i].arrays) <= 1 /\ Collections[i] = S
      BY <2>1, <2>3, <3>1
    <3>5. \A j \in DOMAIN pages :
            i # j => ToSet(S) \intersect ToSet(Collections[j]) = {}
      BY <3>1, <3>2, <3>3
    <3>. HIDE DEF S, tk
    <3>. QED BY <3>3, <3>4, <3>5
  <2>6. Len(Collections) = Len(pages) /\ DOMAIN Collections = 1..Len(pages)
    BY <2>2 DEF Collections
  <2>7. \A i \in 1..Len(Collections) : Collections[i] \in Seq(All)
    <3>1. ASSUME NEW i \in DOMAIN pages PROVE Collections[i] \in Seq(All)
      <4>1. ToSet(Collections[i]) \subseteq All
        OBVIOUS
      <4>. HIDE DEF All
      <4>. QED BY <2>5, <4>1
    <3>. QED BY <2>2, <2>6, <3>1
  <2>8. /\ ToSet(FlattenSeq(Collections)) = All
        /\ IsInjective(FlattenSeq(Collections))
    <3>1. NoneTwice(Collections)
      BY <2>2, <2>5, <2>6 DEF NoneTwice
    <3>2. Members(Collections, Len(Collections)) = All
      BY <2>2, <2>6 DEF Members
    <3>. HIDE DEF All
    <3>. QED BY <2>2, <2>6, <2>7, <3>1, <3>2, FlattenFacts DEF FlattenedUpto
  <2>9. result = FlattenSeq(Collections)
    BY <1>1, <2>1 DEF IInv, Flattened
  <2>10. All = UNION {ToSet(s) : s \in UNION {Range(pages[i].arrays) : i \in DOMAIN pages}}
    <3>1. All = UNION {UNION {ToSet(s) : s \in Range(pages[i].arrays)} : i \in DOMAIN pages}
      BY <2>5
    <3>. QED BY <3>1
  <2>. QED BY <2>2, <2>6, <2>8, <2>9, <2>10
<1>. QED BY <1>1, Inductive, PTL

\* Pages come from the listing, queries hold the caller's filters, and what is returned is a
\* sequence, for any listing and any number of pages.
THEOREM TypeCorrect == Spec => []TypeOK
<1>1. ASSUME IInv PROVE TypeOK
  <2>1. pages \in Seq(Range(listing))
    <3>1. Payloads = Range(listing)
      BY <1>1, PaginationAssumption DEF IInv, Typed, PaginationAssumption, Payloads, Range
    <3>. QED BY <1>1, <3>1 DEF IInv, Typed
  <2>2. DOMAIN result \subseteq Nat
    <3>1. CASE outcome = "done" /\ call.all
      <4>1. /\ DOMAIN pages = 1..Len(pages) /\ Len(pages) \in Nat /\ Len(pages) # 0
            /\ \A i \in DOMAIN pages : i \in DOMAIN asked /\ asked[i] \in Questions
                                    /\ pages[i] = listing[asked[i].query.token]
        BY <1>1, <3>1, SeqFacts DEF IInv, Placed, Chained
      <4>. DEFINE All == UNION {ToSet(Collections[i]) : i \in DOMAIN pages}
      <4>2. ASSUME NEW i \in DOMAIN pages PROVE Collections[i] \in Seq(All)
        <5>1. Collections[i] \in Seq(ToSet(Collections[i]))
          BY <1>1, <4>1, CollectionFacts DEF IInv, Collections, Questions, Queries
        <5>2. ToSet(Collections[i]) \subseteq All
          OBVIOUS
        <5>. HIDE DEF All
        <5>. QED BY <5>1, <5>2
      <4>3. Len(Collections) = Len(pages)
        BY <4>1 DEF Collections
      <4>4. FlattenSeq(Collections) \in Seq(All)
        <5>. HIDE DEF All
        <5>. QED BY <4>1, <4>2, <4>3, FlattenFacts DEF FlattenedUpto
      <4>. HIDE DEF All
      <4>. QED BY <1>1, <3>1, <4>4 DEF IInv, Flattened
    <3>2. CASE ~(outcome = "done" /\ call.all)
      BY <1>1, <3>2 DEF IInv, Flattened
    <3>. QED BY <3>1, <3>2
  <2>. QED BY <1>1, <2>1, <2>2 DEF IInv, Typed, TypeOK
<1>. QED BY <1>1, Inductive, PTL
================================================================================
