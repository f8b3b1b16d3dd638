------------------------ MODULE SchemaValidationProofs ------------------------
(***************************************************************************)
(* What TLAPS proves of SchemaValidation, for any schemas, payloads and    *)
(* references that do not lead back to themselves: a prepared schema has    *)
(* no reference and no odd spelling left, the adjusted payload is the       *)
(* payload without some blank members, and what is accepted conforms to    *)
(* the schema but for those.                                               *)
(***************************************************************************)
EXTENDS SchemaValidation, FiniteSetTheorems, FunctionTheorems, SequenceTheorems, TLAPS

--------------------------------------------------------------------------------

\* A set of numbers that is not empty has a least one.
LEMMA LeastNumber ==
    ASSUME NEW S \in SUBSET Nat, S # {}
    PROVE  \E n \in S : \A m \in S : n <= m
<1>. DEFINE Less == {ss \in Nat \X Nat : ss[1] < ss[2]}
<1>1. IsWellFoundedOn(Less, Nat)
  BY NatLessThanWellFounded DEF OpToRel
<1>2. PICK n \in S : \A m \in S : ~(<<m, n>> \in Less)
  <2>. HIDE DEF Less
  <2>. QED BY <1>1, WFMin
<1>3. ASSUME NEW m \in S PROVE n <= m
  <2>1. m \in Nat /\ n \in Nat /\ ~(m < n)
    BY <1>2
  <2>. QED BY <2>1
<1>. QED BY <1>3

\* Induction over what has a rank, for a set rather than a formula.
LEMMA RankInduction ==
    ASSUME NEW S, NEW rank \in [S -> Nat], NEW T,
           \A s \in S : (\A r \in S : rank[r] < rank[s] => r \in T) => s \in T
    PROVE  S \subseteq T
<1>1. SUFFICES ASSUME S \ T # {} PROVE FALSE
  OBVIOUS
<1>. DEFINE ranks == {rank[s] : s \in S \ T}
<1>2. PICK n \in ranks : \A m \in ranks : n <= m
  <2>1. ranks \in SUBSET Nat /\ ranks # {}
    BY <1>1
  <2>. QED BY <2>1, LeastNumber
<1>3. PICK s \in S \ T : n = rank[s]
  BY <1>2
<1>4. ASSUME NEW r \in S, rank[r] < rank[s] PROVE r \in T
  <2>1. r \notin T => rank[s] <= rank[r]
    BY <1>2, <1>3
  <2>2. rank[r] \in Nat /\ rank[s] \in Nat
    OBVIOUS
  <2>. QED BY <1>4, <2>1, <2>2
<1>. QED BY <1>3, <1>4

\* Induction over the natural numbers, for a set rather than a formula.
LEMMA Induction ==
    ASSUME NEW T, 0 \in T, \A n \in Nat : n \in T => n + 1 \in T
    PROVE  Nat \subseteq T
<1>. DEFINE rank == [n \in Nat |-> n]
<1>1. ASSUME NEW n \in Nat, \A m \in Nat : rank[m] < rank[n] => m \in T PROVE n \in T
  <2>1. n # 0 => n - 1 \in Nat /\ n - 1 < n /\ n = (n - 1) + 1
    OBVIOUS
  <2>. QED BY <1>1, <2>1
<1>2. rank \in [Nat -> Nat]
  OBVIOUS
<1>. HIDE DEF rank
<1>. QED BY <1>1, <1>2, RankInduction

\* The functions on S whose value at s is in V[s].
MappingsInto(S, V) == {g \in [S -> UNION {V[s] : s \in S}] : \A s \in S : g[s] \in V[s]}

\* What F makes of g at s depends only on what g is at lower ranks.
Recursive(S, V, rank, F) ==
    /\ rank \in [S -> Nat]
    /\ \A s \in S : V[s] # {}
    /\ F \in [MappingsInto(S, V) -> MappingsInto(S, V)]
    /\ \A g, h \in MappingsInto(S, V) : \A s \in S :
        (\A r \in S : rank[r] < rank[s] => g[r] = h[r]) => F[g][s] = F[h][s]

\* g is what F makes of it, below a rank.
FitsBelow(S, rank, F, g, n) == \A s \in S : rank[s] < n => g[s] = F[g][s]

\* Two functions that fit below a rank agree there.
LEMMA FittingAgree ==
    ASSUME NEW S, NEW V, NEW rank, NEW F, Recursive(S, V, rank, F),
           NEW g \in MappingsInto(S, V), NEW h \in MappingsInto(S, V), NEW n \in Nat,
           FitsBelow(S, rank, F, g, n), FitsBelow(S, rank, F, h, n)
    PROVE  \A s \in S : rank[s] < n => g[s] = h[s]
<1>. DEFINE T == {s \in S : rank[s] < n => g[s] = h[s]}
<1>1. rank \in [S -> Nat]
  BY DEF Recursive
<1>2. ASSUME NEW s \in S, \A r \in S : rank[r] < rank[s] => r \in T PROVE s \in T
  <2>1. SUFFICES ASSUME rank[s] < n PROVE g[s] = h[s]
    OBVIOUS
  <2>2. ASSUME NEW r \in S, rank[r] < rank[s] PROVE g[r] = h[r]
    <3>1. rank[r] \in Nat /\ rank[s] \in Nat
      BY <1>1
    <3>2. rank[r] < n
      BY <2>1, <2>2, <3>1
    <3>. QED BY <1>2, <2>2, <3>2
  <2>3. F[g][s] = F[h][s]
    BY <2>2 DEF Recursive
  <2>. QED BY <2>1, <2>3 DEF FitsBelow
<1>. HIDE DEF T
<1>3. S \subseteq T
  BY <1>1, <1>2, RankInduction
<1>. QED BY <1>3 DEF T

\* There is a function that fits below any rank.
LEMMA FittingExists ==
    ASSUME NEW S, NEW V, NEW rank, NEW F, Recursive(S, V, rank, F), NEW n \in Nat
    PROVE  \E g \in MappingsInto(S, V) : FitsBelow(S, rank, F, g, n)
<1>. DEFINE T == {m \in Nat : \E g \in MappingsInto(S, V) : FitsBelow(S, rank, F, g, m)}
<1>0. rank \in [S -> Nat]
  BY DEF Recursive
<1>1. 0 \in T
  <2>. DEFINE g == [s \in S |-> CHOOSE v \in V[s] : TRUE]
  <2>1. g \in MappingsInto(S, V)
    BY DEF MappingsInto, Recursive
  <2>2. FitsBelow(S, rank, F, g, 0)
    BY <1>0 DEF FitsBelow
  <2>. QED BY <2>1, <2>2
<1>2. ASSUME NEW m \in Nat, m \in T PROVE m + 1 \in T
  <2>1. PICK g \in MappingsInto(S, V) : FitsBelow(S, rank, F, g, m)
    BY <1>2
  <2>2. F[g] \in MappingsInto(S, V)
    BY DEF Recursive
  <2>3. ASSUME NEW s \in S, rank[s] < m + 1 PROVE F[g][s] = F[F[g]][s]
    <3>1. ASSUME NEW r \in S, rank[r] < rank[s] PROVE g[r] = F[g][r]
      <4>1. rank[r] \in Nat /\ rank[s] \in Nat
        BY <1>0
      <4>2. rank[r] < m
        BY <2>3, <3>1, <4>1
      <4>. QED BY <2>1, <4>2 DEF FitsBelow
    <3>. QED BY <2>2, <3>1 DEF Recursive
  <2>4. FitsBelow(S, rank, F, F[g], m + 1)
    BY <2>3 DEF FitsBelow
  <2>. QED BY <2>2, <2>4
<1>. HIDE DEF T
<1>3. n \in T
  BY <1>1, <1>2, Induction
<1>. QED BY <1>3 DEF T

\* So a recursive definition defines a function: at each argument, what a function that fits
\* up to its rank has there.
LEMMA Recursion ==
    ASSUME NEW S, NEW V, NEW rank, NEW F, Recursive(S, V, rank, F)
    PROVE  \E f \in MappingsInto(S, V) : f = F[f]
<1>. DEFINE Upto(s) == CHOOSE g \in MappingsInto(S, V) : FitsBelow(S, rank, F, g, rank[s] + 1)
            f == [s \in S |-> Upto(s)[s]]
<1>1. \A s \in S : rank[s] \in Nat
  BY DEF Recursive
<1>2. ASSUME NEW s \in S
      PROVE  Upto(s) \in MappingsInto(S, V) /\ FitsBelow(S, rank, F, Upto(s), rank[s] + 1)
  <2>1. \E g \in MappingsInto(S, V) : FitsBelow(S, rank, F, g, rank[s] + 1)
    BY <1>1, FittingExists
  <2>. QED BY <2>1
<1>3. \A s \in S : f[s] = Upto(s)[s]
  OBVIOUS
<1>4. f \in MappingsInto(S, V)
  <2>. HIDE DEF Upto
  <2>1. \A s \in S : f[s] \in V[s]
    BY <1>2, <1>3 DEF MappingsInto
  <2>. QED BY <2>1 DEF MappingsInto
<1>5. F[f] \in MappingsInto(S, V)
  <2>. HIDE DEF f
  <2>. QED BY <1>4 DEF Recursive
<1>. HIDE DEF Upto, f
<1>6. ASSUME NEW s \in S PROVE f[s] = F[f][s]
  <2>1. Upto(s)[s] = F[Upto(s)][s]
    BY <1>1, <1>2 DEF FitsBelow
  <2>2. ASSUME NEW r \in S, rank[r] < rank[s] PROVE f[r] = Upto(s)[r]
    <3>1. rank[r] \in Nat /\ rank[s] \in Nat
      BY <1>1
    <3>2. FitsBelow(S, rank, F, Upto(s), rank[r] + 1)
      <4>1. \A q \in S : rank[q] < rank[r] + 1 => rank[q] < rank[s] + 1
        BY <1>1, <2>2, <3>1
      <4>. QED BY <1>2, <4>1 DEF FitsBelow
    <3>3. Upto(r)[r] = Upto(s)[r]
      <4>1. rank[r] < rank[r] + 1 /\ rank[r] + 1 \in Nat
        BY <3>1
      <4>. QED BY <1>2, <3>2, <4>1, FittingAgree
    <3>. QED BY <1>3, <3>3
  <2>3. F[f][s] = F[Upto(s)][s]
    BY <1>2, <1>4, <2>2 DEF Recursive
  <2>. QED BY <1>3, <2>1, <2>3
<1>7. f = F[f]
  <2>1. f = [s \in S |-> f[s]] /\ F[f] = [s \in S |-> F[f][s]]
    BY <1>4, <1>5 DEF MappingsInto
  <2>. QED BY <1>6, <2>1
<1>. QED BY <1>4, <1>7

--------------------------------------------------------------------------------

\* What is assumed of schemas.
LEMMA SchemaFacts ==
    ASSUME NEW s \in Schemata
    PROVE  /\ Size[s] \in Nat
           /\ \A c \in Children(s) : c \in Schemata /\ Size[c] < Size[s]
           /\ Has(s, "ref") => Deref(s) \in Schemata /\ Size[Deref(s)] < Size[s]
           /\ IsFiniteSet(Field(s, "required", {}))
           /\ Field(s, "type", "null") \in Spellings
<1>1. IsSchema(s)
  BY SchemaAssumption DEF SchemaAssumption
<1>2. Size[s] \in Nat
  BY SchemaAssumption DEF SchemaAssumption
<1>. QED BY <1>1, <1>2 DEF IsSchema

SchemaRank == [s \in Schemata |-> Size[s]]

LEMMA SchemaRankFacts ==
    /\ SchemaRank \in [Schemata -> Nat]
    /\ \A s \in Schemata : \A c \in Children(s) : c \in Schemata /\ SchemaRank[c] < SchemaRank[s]
    /\ \A s \in Schemata : Has(s, "ref") =>
        Deref(s) \in Schemata /\ SchemaRank[Deref(s)] < SchemaRank[s]
BY SchemaFacts DEF SchemaRank

\* The parts of a schema are itself and the parts of what is directly inside.
LEMMA PartsUnfold ==
    Parts = [s \in Schemata |-> {s} \union UNION {Parts[c] : c \in Children(s)}]
<1>. DEFINE V == [s \in Schemata |-> SUBSET Schemata]
            F == [g \in MappingsInto(Schemata, V) |->
                    [s \in Schemata |-> {s} \union UNION {g[c] : c \in Children(s)}]]
<1>1. ASSUME NEW g \in MappingsInto(Schemata, V) PROVE F[g] \in MappingsInto(Schemata, V)
  <2>1. \A s \in Schemata : g[s] \subseteq Schemata
    BY DEF MappingsInto
  <2>2. \A s \in Schemata : {s} \union UNION {g[c] : c \in Children(s)} \in SUBSET Schemata
    BY <2>1, SchemaRankFacts
  <2>. QED BY <2>2 DEF MappingsInto
<1>2. ASSUME NEW g \in MappingsInto(Schemata, V), NEW h \in MappingsInto(Schemata, V), NEW s \in Schemata,
             \A r \in Schemata : SchemaRank[r] < SchemaRank[s] => g[r] = h[r]
      PROVE  F[g][s] = F[h][s]
  <2>1. \A c \in Children(s) : g[c] = h[c]
    BY <1>2, SchemaRankFacts
  <2>2. {g[c] : c \in Children(s)} = {h[c] : c \in Children(s)}
    BY <2>1
  <2>. QED BY <2>2
<1>3. Recursive(Schemata, V, SchemaRank, F)
  <2>1. \A s \in Schemata : V[s] # {}
    OBVIOUS
  <2>2. F \in [MappingsInto(Schemata, V) -> MappingsInto(Schemata, V)]
    <3>. HIDE DEF V
    <3>. QED BY <1>1
  <2>. HIDE DEF V, F
  <2>. QED BY <1>2, <2>1, <2>2, SchemaRankFacts DEF Recursive
<1>4. PICK f \in MappingsInto(Schemata, V) : f = F[f]
  <2>. HIDE DEF V, F
  <2>. QED BY <1>3, Recursion
<1>5. f = [s \in Schemata |-> {s} \union UNION {f[c] : c \in Children(s)}]
  BY <1>4
<1>. QED BY <1>5 DEF Parts

LEMMA PartsType ==
    ASSUME NEW s \in Schemata
    PROVE  /\ Parts[s] \subseteq Schemata /\ s \in Parts[s]
           /\ Parts[s] = {s} \union UNION {Parts[c] : c \in Children(s)}
<1>. DEFINE T == {r \in Schemata : Parts[r] \subseteq Schemata}
<1>1. ASSUME NEW r \in Schemata, \A c \in Schemata : SchemaRank[c] < SchemaRank[r] => c \in T
      PROVE  r \in T
  BY <1>1, PartsUnfold, SchemaRankFacts
<1>. HIDE DEF T
<1>2. Schemata \subseteq T
  BY <1>1, SchemaRankFacts, RankInduction
<1>. QED BY <1>2, PartsUnfold DEF T

--------------------------------------------------------------------------------

\* What the recursion in SumFunction asks of the function it defines on the subsets of S.
Summing(h, f, S) ==
    h = [R \in SUBSET S |-> IF R = {} THEN 0
                            ELSE LET x == CHOOSE x \in R : TRUE IN f[x] + h[R \ {x}]]

LEMMA SumUnfolds ==
    ASSUME NEW f
    PROVE  SumFunction(f) = (CHOOSE h : Summing(h, f, DOMAIN f))[DOMAIN f]
BY DEF SumFunction, SumFunctionOnSet, FoldFunctionOnSet, MapThenFoldSet, Summing

LEMMA SummingExists ==
    ASSUME NEW S, IsFiniteSet(S), NEW f, \A x \in S : f[x] \in Nat
    PROVE  \E h : Summing(h, f, S)
<1>. DEFINE V == [R \in SUBSET S |-> Nat]
            rank == [R \in SUBSET S |-> Cardinality(R)]
            F == [g \in MappingsInto(SUBSET S, V) |->
                    [R \in SUBSET S |-> IF R = {} THEN 0
                            ELSE LET x == CHOOSE x \in R : TRUE IN f[x] + g[R \ {x}]]]
<1>1. ASSUME NEW R \in SUBSET S, R # {}
      PROVE  /\ (CHOOSE x \in R : TRUE) \in R
             /\ R \ {CHOOSE x \in R : TRUE} \in SUBSET S
             /\ rank[R \ {CHOOSE x \in R : TRUE}] < rank[R]
  <2>. DEFINE x == CHOOSE x \in R : TRUE
  <2>1. x \in R
    BY <1>1
  <2>2. IsFiniteSet(R)
    BY FS_Subset
  <2>. HIDE DEF x
  <2>3. Cardinality(R \ {x}) = Cardinality(R) - 1 /\ Cardinality(R) \in Nat
    BY <2>1, <2>2, FS_RemoveElement, FS_CardinalityType
  <2>4. R \ {x} \in SUBSET S
    OBVIOUS
  <2>5. rank[R \ {x}] < rank[R]
    BY <2>3, <2>4
  <2>. QED BY <2>1, <2>4, <2>5 DEF x
<1>2. \A R \in SUBSET S : Cardinality(R) \in Nat
  BY FS_Subset, FS_CardinalityType
<1>3. ASSUME NEW g \in MappingsInto(SUBSET S, V) PROVE F[g] \in MappingsInto(SUBSET S, V)
  <2>1. \A R \in SUBSET S : g[R] \in Nat
    BY DEF MappingsInto
  <2>2. \A R \in SUBSET S : F[g][R] \in Nat
    <3>1. ASSUME NEW R \in SUBSET S, R # {}
          PROVE  f[CHOOSE x \in R : TRUE] + g[R \ {CHOOSE x \in R : TRUE}] \in Nat
      BY <1>1, <2>1, <3>1
    <3>. QED BY <3>1
  <2>3. F[g] = [R \in SUBSET S |-> F[g][R]]
    OBVIOUS
  <2>. HIDE DEF F
  <2>. QED BY <2>2, <2>3 DEF MappingsInto
<1>4. ASSUME NEW g \in MappingsInto(SUBSET S, V), NEW h \in MappingsInto(SUBSET S, V), NEW R \in SUBSET S,
             \A Q \in SUBSET S : rank[Q] < rank[R] => g[Q] = h[Q]
      PROVE  F[g][R] = F[h][R]
  <2>1. CASE R = {}
    BY <2>1
  <2>2. CASE R # {}
    <3>1. g[R \ {CHOOSE x \in R : TRUE}] = h[R \ {CHOOSE x \in R : TRUE}]
      <4>. HIDE DEF rank
      <4>. QED BY <1>1, <1>4, <2>2
    <3>. QED BY <2>2, <3>1
  <2>. QED BY <2>1, <2>2
<1>5. Recursive(SUBSET S, V, rank, F)
  <2>1. \A R \in SUBSET S : V[R] # {}
    OBVIOUS
  <2>2. F \in [MappingsInto(SUBSET S, V) -> MappingsInto(SUBSET S, V)]
    <3>. HIDE DEF V
    <3>. QED BY <1>3
  <2>3. rank \in [SUBSET S -> Nat]
    BY <1>2
  <2>. HIDE DEF V, F, rank
  <2>. QED BY <1>4, <2>1, <2>2, <2>3 DEF Recursive
<1>6. PICK h \in MappingsInto(SUBSET S, V) : h = F[h]
  <2>. HIDE DEF V, F, rank
  <2>. QED BY <1>5, Recursion
<1>7. Summing(h, f, S)
  BY <1>6 DEF Summing
<1>. QED BY <1>7

\* A finite sum of natural numbers is one, and 0 just if each of them is.
LEMMA SumFacts ==
    ASSUME NEW f, IsFiniteSet(DOMAIN f), \A x \in DOMAIN f : f[x] \in Nat
    PROVE  /\ SumFunction(f) \in Nat
           /\ SumFunction(f) = 0 <=> \A x \in DOMAIN f : f[x] = 0
<1>. DEFINE S == DOMAIN f
            h == CHOOSE h : Summing(h, f, S)
            T == {R \in SUBSET S : h[R] \in Nat /\ (h[R] = 0 <=> \A x \in R : f[x] = 0)}
            rank == [R \in SUBSET S |-> Cardinality(R)]
<1>1. Summing(h, f, S)
  BY SummingExists
<1>. HIDE DEF h
<1>2. ASSUME NEW R \in SUBSET S, \A Q \in SUBSET S : rank[Q] < rank[R] => Q \in T PROVE R \in T
  <2>1. CASE R = {}
    <3>1. h[R] = 0
      BY <1>1, <2>1 DEF Summing
    <3>. QED BY <2>1, <3>1
  <2>2. CASE R # {}
    <3>. DEFINE x == CHOOSE x \in R : TRUE
    <3>1. h[R] = f[x] + h[R \ {x}]
      BY <1>1, <2>2 DEF Summing
    <3>2. x \in R
      BY <2>2
    <3>. HIDE DEF x
    <3>3. R \ {x} \in SUBSET S /\ IsFiniteSet(R)
      BY FS_Subset
    <3>4. Cardinality(R \ {x}) = Cardinality(R) - 1 /\ Cardinality(R) \in Nat
      BY <3>2, <3>3, FS_RemoveElement, FS_CardinalityType
    <3>5. rank[R \ {x}] < rank[R]
      BY <3>3, <3>4
    <3>6. R \ {x} \in T
      <4>. HIDE DEF rank, T
      <4>. QED BY <1>2, <3>3, <3>5
    <3>7. f[x] \in Nat /\ h[R \ {x}] \in Nat
      BY <3>2, <3>6
    <3>8. h[R] = 0 <=> f[x] = 0 /\ h[R \ {x}] = 0
      BY <3>1, <3>7
    <3>9. h[R] \in Nat
      BY <3>1, <3>7
    <3>. QED BY <3>6, <3>8, <3>9
  <2>. QED BY <2>1, <2>2
<1>3. rank \in [SUBSET S -> Nat]
  BY FS_Subset, FS_CardinalityType
<1>. HIDE DEF T, rank
<1>4. S \in T
  <2>1. SUBSET S \subseteq T
    BY <1>2, <1>3, RankInduction
  <2>. QED BY <2>1
<1>5. SumFunction(f) = h[S]
  BY SumUnfolds DEF h
<1>. QED BY <1>4, <1>5 DEF T

--------------------------------------------------------------------------------

\* What is directly inside a schema.
LEMMA ChildFacts ==
    ASSUME NEW s
    PROVE  /\ \A k \in DOMAIN s \intersect Keywords : \A i \in DOMAIN s[k] : s[k][i] \in Children(s)
           /\ Has(s, "properties") => \A k \in DOMAIN s.properties : s.properties[k] \in Children(s)
           /\ Has(s, "items") => s.items \in Children(s)
<1>. DEFINE branches == UNION {Range(s[k]) : k \in DOMAIN s \intersect Keywords}
            members == Range(Field(s, "properties", << >>))
            items == IF Has(s, "items") THEN {s.items} ELSE {}
<1>1. Children(s) = branches \union members \union items
  BY DEF Children
<1>2. ASSUME NEW k \in DOMAIN s \intersect Keywords, NEW i \in DOMAIN s[k]
      PROVE  s[k][i] \in branches
  BY DEF Range
<1>3. ASSUME Has(s, "properties"), NEW k \in DOMAIN s.properties
      PROVE  s.properties[k] \in members
  BY <1>3 DEF Range, Field
<1>4. Has(s, "items") => s.items \in items
  OBVIOUS
<1>. HIDE DEF branches, members, items
<1>. QED BY <1>1, <1>2, <1>3, <1>4

\* The branches of a keyword are numbered.
LEMMA BranchFacts ==
    ASSUME NEW s \in Schemata, NEW k \in DOMAIN s \intersect Keywords
    PROVE  s[k] \in Seq(Schemata) /\ DOMAIN s[k] = 1..Len(s[k]) /\ IsFiniteSet(DOMAIN s[k])
<1>1. s[k] \in Seq(Schemata)
  BY SchemaAssumption DEF SchemaAssumption, IsSchema
<1>2. DOMAIN s[k] = 1..Len(s[k]) /\ Len(s[k]) \in Nat
  BY <1>1
<1>3. IsFiniteSet(1..Len(s[k]))
  BY <1>2, FS_Interval
<1>. QED BY <1>1, <1>2, <1>3

\* What is assumed of payloads.
LEMMA PayloadFacts ==
    ASSUME NEW p \in Payloads
    PROVE  /\ Size[p] \in Nat
           /\ \E kind \in Scalars \union {"obj", "arr"} : DOMAIN p = {kind}
           /\ IsObject(p) => /\ IsFiniteSet(DOMAIN p.obj)
                             /\ \A k \in DOMAIN p.obj : p.obj[k] \in Payloads /\ Size[p.obj[k]] < Size[p]
           /\ IsArray(p) => /\ IsFiniteSet(DOMAIN p.arr)
                            /\ \A i \in DOMAIN p.arr : p.arr[i] \in Payloads /\ Size[p.arr[i]] < Size[p]
<1>1. IsPayload(p)
  BY SchemaAssumption DEF SchemaAssumption
<1>2. Size[p] \in Nat
  BY SchemaAssumption DEF SchemaAssumption
<1>3. IsArray(p) => ~IsObject(p)
  BY DEF IsArray, IsObject
<1>. QED BY <1>1, <1>2, <1>3 DEF IsPayload, Range

\* Pairs of a schema and a payload, ranked by the schema.
Pairs(S) == S \X Payloads

PairRank(S) == [x \in Pairs(S) |-> Size[x[1]]]

\* The errors of a payload are counted in natural numbers.
LEMMA ErrorsOfNat ==
    ASSUME NEW g, NEW s \in Schemata, NEW p \in Payloads,
           \A c \in Children(s), q \in Payloads : g[<<c, q>>] \in Nat
    PROVE  /\ BranchErrors(g, s, p) \in Nat
           /\ Cardinality(Unmatched(g, s, p)) \in Nat
           /\ IsFiniteSet(Unmatched(g, s, p))
           /\ TypeErrors(g, s, p) \in Nat
           /\ ErrorsOf(g, s, p) \in Nat
<1>1. BranchErrors(g, s, p) \in Nat
  <2>. DEFINE f == [i \in DOMAIN Field(s, "allOf", << >>) |-> g[<<s.allOf[i], p>>]]
  <2>1. CASE Has(s, "allOf")
    <3>1. "allOf" \in DOMAIN s \intersect Keywords /\ Field(s, "allOf", << >>) = s.allOf
      BY <2>1 DEF Has, Field, Keywords
    <3>2. IsFiniteSet(DOMAIN f)
      BY <3>1, BranchFacts
    <3>3. \A i \in DOMAIN f : f[i] \in Nat
      BY <3>1, ChildFacts
    <3>. HIDE DEF f
    <3>4. SumFunction(f) \in Nat
      BY <3>2, <3>3, SumFacts
    <3>. QED BY <3>4 DEF f, BranchErrors
  <2>2. CASE ~Has(s, "allOf")
    <3>1. DOMAIN f = {}
      BY <2>2 DEF Field
    <3>2. IsFiniteSet(DOMAIN f)
      BY <3>1, FS_EmptySet
    <3>. HIDE DEF f
    <3>3. SumFunction(f) \in Nat
      BY <3>1, <3>2, SumFacts
    <3>. QED BY <3>3 DEF f, BranchErrors
  <2>. QED BY <2>1, <2>2
<1>2. IsFiniteSet(Unmatched(g, s, p)) /\ Cardinality(Unmatched(g, s, p)) \in Nat
  <2>1. Unmatched(g, s, p) \subseteq {"oneOf", "anyOf"}
    BY DEF Unmatched
  <2>2. IsFiniteSet({"oneOf", "anyOf"})
    <3>1. IsFiniteSet({"oneOf"}) /\ {"oneOf", "anyOf"} = {"oneOf"} \union {"anyOf"}
      BY FS_Singleton
    <3>. QED BY <3>1, FS_AddElement
  <2>. QED BY <2>1, <2>2, FS_Subset, FS_CardinalityType
<1>3. ASSUME IsObject(p) PROVE MemberErrors(g, s, p) \in Nat
  <2>. DEFINE declared == Field(s, "properties", << >>)
              f == [k \in DOMAIN p.obj |->
                        IF k \in DOMAIN declared THEN g[<<declared[k], p.obj[k]>>]
                        ELSE IF Has(s, "closed") THEN 1 ELSE 0]
  <2>1. IsFiniteSet(Field(s, "required", {}) \ DOMAIN p.obj)
    BY SchemaFacts, FS_Subset
  <2>2. Cardinality(Field(s, "required", {}) \ DOMAIN p.obj) \in Nat
    BY <2>1, FS_CardinalityType
  <2>3. \A k \in DOMAIN declared : declared[k] \in Children(s)
    BY ChildFacts DEF Field
  <2>4. ASSUME NEW k \in DOMAIN p.obj PROVE f[k] \in Nat
    <3>. HIDE DEF declared
    <3>1. p.obj[k] \in Payloads
      BY <1>3, PayloadFacts
    <3>2. k \in DOMAIN declared => g[<<declared[k], p.obj[k]>>] \in Nat
      BY <2>3, <3>1
    <3>. QED BY <3>2
  <2>5. IsFiniteSet(DOMAIN f)
    BY <1>3, PayloadFacts
  <2>6. SumFunction(f) \in Nat
    <3>. HIDE DEF f
    <3>1. \A k \in DOMAIN f : f[k] \in Nat
      BY <2>4 DEF f
    <3>. QED BY <2>5, <3>1, SumFacts
  <2>. QED BY <2>2, <2>6 DEF MemberErrors
<1>4. ASSUME IsArray(p), Has(s, "items") PROVE ItemErrors(g, s, p) \in Nat
  <2>. DEFINE f == [i \in DOMAIN p.arr |-> g[<<s.items, p.arr[i]>>]]
  <2>1. IsFiniteSet(DOMAIN f) /\ \A i \in DOMAIN f : f[i] \in Nat
    BY <1>4, PayloadFacts, ChildFacts
  <2>. HIDE DEF f
  <2>2. SumFunction(f) \in Nat
    BY <2>1, SumFacts
  <2>. QED BY <2>2 DEF f, ItemErrors
<1>5. TypeErrors(g, s, p) \in Nat
  BY <1>3, <1>4 DEF TypeErrors
<1>. QED BY <1>1, <1>2, <1>5 DEF ErrorsOf

\* They depend on the errors under what is directly inside the schema alone.
LEMMA ErrorsOfSame ==
    ASSUME NEW g, NEW h, NEW s \in Schemata, NEW p \in Payloads,
           \A c \in Children(s), q \in Payloads : g[<<c, q>>] = h[<<c, q>>]
    PROVE  ErrorsOf(g, s, p) = ErrorsOf(h, s, p)
<1>1. BranchErrors(g, s, p) = BranchErrors(h, s, p)
  <2>1. \A i \in DOMAIN Field(s, "allOf", << >>) : g[<<s.allOf[i], p>>] = h[<<s.allOf[i], p>>]
    BY ChildFacts DEF Field, Has, Keywords
  <2>2. [i \in DOMAIN Field(s, "allOf", << >>) |-> g[<<s.allOf[i], p>>]]
          = [i \in DOMAIN Field(s, "allOf", << >>) |-> h[<<s.allOf[i], p>>]]
    BY <2>1
  <2>. QED BY <2>2 DEF BranchErrors
<1>2. Unmatched(g, s, p) = Unmatched(h, s, p)
  <2>1. \A k \in DOMAIN s \intersect {"oneOf", "anyOf"} : \A i \in DOMAIN s[k] :
            g[<<s[k][i], p>>] = h[<<s[k][i], p>>]
    BY ChildFacts DEF Keywords
  <2>. QED BY <2>1 DEF Unmatched
<1>3. ASSUME IsObject(p) PROVE MemberErrors(g, s, p) = MemberErrors(h, s, p)
  <2>. DEFINE declared == Field(s, "properties", << >>)
              f(e) == [k \in DOMAIN p.obj |->
                        IF k \in DOMAIN declared THEN e[<<declared[k], p.obj[k]>>]
                        ELSE IF Has(s, "closed") THEN 1 ELSE 0]
  <2>1. \A k \in DOMAIN declared : declared[k] \in Children(s)
    BY ChildFacts DEF Field
  <2>2. ASSUME NEW k \in DOMAIN p.obj PROVE f(g)[k] = f(h)[k]
    <3>. HIDE DEF declared
    <3>1. p.obj[k] \in Payloads
      BY <1>3, PayloadFacts
    <3>. QED BY <2>1, <3>1
  <2>3. f(g) = f(h)
    <3>1. f(g) = [k \in DOMAIN p.obj |-> f(g)[k]] /\ f(h) = [k \in DOMAIN p.obj |-> f(h)[k]]
      OBVIOUS
    <3>. HIDE DEF f
    <3>. QED BY <2>2, <3>1
  <2>. QED BY <2>3 DEF MemberErrors
<1>4. ASSUME IsArray(p), Has(s, "items") PROVE ItemErrors(g, s, p) = ItemErrors(h, s, p)
  <2>1. \A i \in DOMAIN p.arr : g[<<s.items, p.arr[i]>>] = h[<<s.items, p.arr[i]>>]
    BY <1>4, PayloadFacts, ChildFacts
  <2>2. [i \in DOMAIN p.arr |-> g[<<s.items, p.arr[i]>>]] = [i \in DOMAIN p.arr |-> h[<<s.items, p.arr[i]>>]]
    BY <2>1
  <2>. QED BY <2>2 DEF ItemErrors
<1>5. TypeErrors(g, s, p) = TypeErrors(h, s, p)
  BY <1>3, <1>4 DEF TypeErrors
<1>. QED BY <1>1, <1>2, <1>5 DEF ErrorsOf

\* Errors is what its definition says, and counts in natural numbers.
LEMMA ErrorsUnfold ==
    ASSUME NEW s \in Schemata, NEW p \in Payloads
    PROVE  Errors[<<s, p>>] = ErrorsOf(Errors, s, p)
<1>. DEFINE S == Pairs(Schemata)
            V == [x \in S |-> Nat]
            rank == PairRank(Schemata)
            F == [g \in MappingsInto(S, V) |-> [x \in S |-> ErrorsOf(g, x[1], x[2])]]
<1>0. \A x \in S : x[1] \in Schemata /\ x[2] \in Payloads
  BY DEF Pairs
<1>1. ASSUME NEW g \in MappingsInto(S, V) PROVE F[g] \in MappingsInto(S, V)
  <2>1. \A r \in Schemata, q \in Payloads : g[<<r, q>>] \in Nat
    BY DEF MappingsInto, Pairs
  <2>2. ASSUME NEW x \in S PROVE F[g][x] \in Nat
    <3>1. \A c \in Children(x[1]), q \in Payloads : g[<<c, q>>] \in Nat
      BY <1>0, <2>1, SchemaFacts
    <3>. HIDE DEF S
    <3>. QED BY <1>0, <3>1, ErrorsOfNat
  <2>3. F[g] = [x \in S |-> F[g][x]]
    OBVIOUS
  <2>. HIDE DEF F, S
  <2>. QED BY <2>2, <2>3 DEF MappingsInto
<1>2. ASSUME NEW g \in MappingsInto(S, V), NEW h \in MappingsInto(S, V), NEW x \in S,
             \A y \in S : rank[y] < rank[x] => g[y] = h[y]
      PROVE  F[g][x] = F[h][x]
  <2>1. ASSUME NEW c \in Children(x[1]), NEW q \in Payloads PROVE g[<<c, q>>] = h[<<c, q>>]
    <3>1. c \in Schemata /\ Size[c] < Size[x[1]]
      BY <1>0, SchemaFacts
    <3>2. <<c, q>> \in S
      BY <3>1 DEF Pairs
    <3>3. rank[<<c, q>>] = Size[c] /\ rank[x] = Size[x[1]]
      BY <3>2 DEF PairRank
    <3>. QED BY <1>2, <3>1, <3>2, <3>3
  <2>2. ErrorsOf(g, x[1], x[2]) = ErrorsOf(h, x[1], x[2])
    <3>. HIDE DEF S, V, rank
    <3>. QED BY <1>0, <2>1, ErrorsOfSame
  <2>. HIDE DEF S
  <2>. QED BY <2>2
<1>3. rank \in [S -> Nat]
  <2>1. \A x \in S : Size[x[1]] \in Nat
    BY <1>0, SchemaFacts
  <2>. QED BY <2>1 DEF PairRank
<1>4. Recursive(S, V, rank, F)
  <2>1. \A x \in S : V[x] # {}
    OBVIOUS
  <2>2. F \in [MappingsInto(S, V) -> MappingsInto(S, V)]
    <3>. HIDE DEF V, S
    <3>. QED BY <1>1
  <2>. HIDE DEF S, V, F, rank
  <2>. QED BY <1>2, <1>3, <2>1, <2>2 DEF Recursive
<1>5. PICK f \in MappingsInto(S, V) : f = F[f]
  <2>. HIDE DEF S, V, F, rank
  <2>. QED BY <1>4, Recursion
<1>6. f = [x \in Schemata \X Payloads |-> ErrorsOf(f, x[1], x[2])]
  <2>. HIDE DEF V
  <2>. QED BY <1>5 DEF Pairs
<1>7. Errors = [x \in Schemata \X Payloads |-> ErrorsOf(Errors, x[1], x[2])]
  BY <1>6 DEF Errors
<1>. QED BY <1>7

LEMMA ErrorsNat ==
    ASSUME NEW s \in Schemata, NEW p \in Payloads
    PROVE  Errors[<<s, p>>] \in Nat
<1>. DEFINE T == {r \in Schemata : \A q \in Payloads : Errors[<<r, q>>] \in Nat}
<1>1. ASSUME NEW r \in Schemata, \A c \in Schemata : SchemaRank[c] < SchemaRank[r] => c \in T
      PROVE  r \in T
  <2>1. \A c \in Children(r), q \in Payloads : Errors[<<c, q>>] \in Nat
    BY <1>1, SchemaRankFacts
  <2>2. \A q \in Payloads : ErrorsOf(Errors, r, q) \in Nat
    BY <2>1, ErrorsOfNat
  <2>. QED BY <2>2, ErrorsUnfold
<1>. HIDE DEF T
<1>2. Schemata \subseteq T
  BY <1>1, SchemaRankFacts, RankInduction
<1>. QED BY <1>2 DEF T

--------------------------------------------------------------------------------

\* What a schema is inside depends only on what is inside it.
LEMMA InsideSame ==
    ASSUME NEW g, NEW h, NEW s, \A c \in Children(s) : g[c] = h[c]
    PROVE  Inside(g, s) = Inside(h, s)
<1>1. ASSUME NEW f \in DOMAIN s PROVE Inside(g, s)[f] = Inside(h, s)[f]
  <2>1. CASE f \in Keywords
    <3>1. \A i \in DOMAIN s[f] : g[s[f][i]] = h[s[f][i]]
      BY <2>1, ChildFacts
    <3>2. [i \in DOMAIN s[f] |-> g[s[f][i]]] = [i \in DOMAIN s[f] |-> h[s[f][i]]]
      BY <3>1
    <3>. QED BY <2>1, <3>2 DEF Inside, Keywords
  <2>2. CASE f = "properties"
    <3>1. \A n \in DOMAIN s[f] : g[s[f][n]] = h[s[f][n]]
      BY <2>2, ChildFacts DEF Has
    <3>2. [n \in DOMAIN s[f] |-> g[s[f][n]]] = [n \in DOMAIN s[f] |-> h[s[f][n]]]
      BY <3>1
    <3>. QED BY <2>2, <3>2 DEF Inside, Keywords
  <2>3. CASE f = "items"
    <3>1. g[s[f]] = h[s[f]]
      BY <2>3, ChildFacts DEF Has
    <3>. QED BY <2>3, <3>1 DEF Inside, Keywords
  <2>4. CASE f \notin Keywords \union {"properties", "items"}
    BY <2>4 DEF Inside
  <2>. QED BY <2>1, <2>2, <2>3, <2>4
<1>2. Inside(g, s) = [f \in DOMAIN s |-> Inside(g, s)[f]] /\ Inside(h, s) = [f \in DOMAIN s |-> Inside(h, s)[f]]
  BY DEF Inside
<1>. QED BY <1>1, <1>2

\* ResolveSchema and NormalizeSchema, which rework a schema in two ways.
Reworked(way, g, s) ==
    CASE way = "normalize" -> Corrected(Inside(g, s))
      [] way # "normalize" /\ Has(s, "ref") -> g[Deref(s)]
      [] OTHER -> Inside(g, s)

LEMMA ReworkedSame ==
    ASSUME NEW way, NEW g, NEW h, NEW s \in Schemata,
           \A r \in Schemata : Size[r] < Size[s] => g[r] = h[r]
    PROVE  Reworked(way, g, s) = Reworked(way, h, s)
<1>1. Inside(g, s) = Inside(h, s)
  BY SchemaFacts, InsideSame
<1>2. Has(s, "ref") => g[Deref(s)] = h[Deref(s)]
  BY SchemaFacts
<1>. QED BY <1>1, <1>2 DEF Reworked

\* g is what reworking makes of it, below a rank.
ReworksBelow(way, g, n) ==
    /\ g = [s \in Schemata |-> g[s]]
    /\ \A s \in Schemata : Size[s] < n => g[s] = Reworked(way, g, s)

LEMMA ReworkingAgree ==
    ASSUME NEW way, NEW g, NEW h, NEW n \in Nat,
           ReworksBelow(way, g, n), ReworksBelow(way, h, n)
    PROVE  \A s \in Schemata : Size[s] < n => g[s] = h[s]
<1>. DEFINE T == {s \in Schemata : Size[s] < n => g[s] = h[s]}
<1>0. \A s \in Schemata : Size[s] \in Nat /\ SchemaRank[s] = Size[s]
  BY SchemaFacts DEF SchemaRank
<1>1. ASSUME NEW s \in Schemata, \A r \in Schemata : SchemaRank[r] < SchemaRank[s] => r \in T
      PROVE  s \in T
  <2>1. SUFFICES ASSUME Size[s] < n PROVE g[s] = h[s]
    OBVIOUS
  <2>2. ASSUME NEW r \in Schemata, Size[r] < Size[s] PROVE g[r] = h[r]
    <3>1. Size[r] < n
      BY <1>0, <2>1, <2>2
    <3>. QED BY <1>0, <1>1, <2>2, <3>1
  <2>3. Reworked(way, g, s) = Reworked(way, h, s)
    BY <2>2, ReworkedSame
  <2>. QED BY <2>1, <2>3 DEF ReworksBelow
<1>. HIDE DEF T
<1>2. Schemata \subseteq T
  BY <1>1, SchemaRankFacts, RankInduction
<1>. QED BY <1>2 DEF T

LEMMA ReworkingExists ==
    ASSUME NEW way, NEW n \in Nat
    PROVE  \E g : ReworksBelow(way, g, n)
<1>. DEFINE T == {m \in Nat : \E g : ReworksBelow(way, g, m)}
<1>0. \A s \in Schemata : Size[s] \in Nat
  BY SchemaFacts
<1>1. 0 \in T
  <2>. DEFINE g == [s \in Schemata |-> s]
  <2>1. ReworksBelow(way, g, 0)
    BY <1>0 DEF ReworksBelow
  <2>. QED BY <2>1
<1>2. ASSUME NEW m \in Nat, m \in T PROVE m + 1 \in T
  <2>1. PICK g : ReworksBelow(way, g, m)
    BY <1>2
  <2>. DEFINE h == [s \in Schemata |-> Reworked(way, g, s)]
  <2>2. ASSUME NEW s \in Schemata, Size[s] < m + 1 PROVE h[s] = Reworked(way, h, s)
    <3>1. ASSUME NEW r \in Schemata, Size[r] < Size[s] PROVE g[r] = h[r]
      <4>1. Size[r] < m
        BY <1>0, <2>2, <3>1
      <4>. QED BY <2>1, <4>1 DEF ReworksBelow
    <3>2. h[s] = Reworked(way, g, s)
      OBVIOUS
    <3>. HIDE DEF h
    <3>3. Reworked(way, g, s) = Reworked(way, h, s)
      BY <3>1, ReworkedSame
    <3>. QED BY <3>2, <3>3
  <2>3. h = [s \in Schemata |-> h[s]]
    OBVIOUS
  <2>. HIDE DEF h
  <2>4. ReworksBelow(way, h, m + 1)
    BY <2>2, <2>3 DEF ReworksBelow
  <2>. QED BY <2>4
<1>. HIDE DEF T
<1>3. n \in T
  BY <1>1, <1>2, Induction
<1>. QED BY <1>3 DEF T

LEMMA Reworking ==
    ASSUME NEW way
    PROVE  \E f : f = [s \in Schemata |-> Reworked(way, f, s)]
<1>. DEFINE Upto(s) == CHOOSE g : ReworksBelow(way, g, Size[s] + 1)
            f == [s \in Schemata |-> Upto(s)[s]]
<1>1. \A s \in Schemata : Size[s] \in Nat
  BY SchemaFacts
<1>2. ASSUME NEW s \in Schemata PROVE ReworksBelow(way, Upto(s), Size[s] + 1)
  <2>1. \E g : ReworksBelow(way, g, Size[s] + 1)
    BY <1>1, ReworkingExists
  <2>. QED BY <2>1
<1>3. \A s \in Schemata : f[s] = Upto(s)[s]
  OBVIOUS
<1>4. f = [s \in Schemata |-> f[s]]
  OBVIOUS
<1>. HIDE DEF Upto, f
<1>5. ASSUME NEW s \in Schemata PROVE f[s] = Reworked(way, f, s)
  <2>1. Upto(s)[s] = Reworked(way, Upto(s), s)
    BY <1>1, <1>2 DEF ReworksBelow
  <2>2. ASSUME NEW r \in Schemata, Size[r] < Size[s] PROVE f[r] = Upto(s)[r]
    <3>1. ReworksBelow(way, Upto(s), Size[r] + 1)
      <4>1. \A q \in Schemata : Size[q] < Size[r] + 1 => Size[q] < Size[s] + 1
        BY <1>1, <2>2
      <4>. QED BY <1>2, <4>1 DEF ReworksBelow
    <3>2. Size[r] < Size[r] + 1 /\ Size[r] + 1 \in Nat
      BY <1>1
    <3>3. Upto(r)[r] = Upto(s)[r]
      BY <1>2, <3>1, <3>2, ReworkingAgree
    <3>. QED BY <1>3, <3>3
  <2>3. Reworked(way, f, s) = Reworked(way, Upto(s), s)
    BY <2>2, ReworkedSame
  <2>. QED BY <1>3, <2>1, <2>3
<1>. QED BY <1>4, <1>5

LEMMA ResolveUnfold ==
    ResolveSchema = [s \in Schemata |->
        IF Has(s, "ref") THEN ResolveSchema[Deref(s)] ELSE Inside(ResolveSchema, s)]
<1>1. PICK f : f = [s \in Schemata |-> Reworked("resolve", f, s)]
  BY Reworking
<1>2. \A s : Reworked("resolve", f, s) = IF Has(s, "ref") THEN f[Deref(s)] ELSE Inside(f, s)
  BY DEF Reworked
<1>3. f = [s \in Schemata |-> IF Has(s, "ref") THEN f[Deref(s)] ELSE Inside(f, s)]
  BY <1>1, <1>2
<1>. QED BY <1>3 DEF ResolveSchema

LEMMA NormalizeUnfold ==
    NormalizeSchema = [s \in Schemata |-> Corrected(Inside(NormalizeSchema, s))]
<1>1. PICK f : f = [s \in Schemata |-> Reworked("normalize", f, s)]
  BY Reworking
<1>2. \A s : Reworked("normalize", f, s) = Corrected(Inside(f, s))
  BY DEF Reworked
<1>3. f = [s \in Schemata |-> Corrected(Inside(f, s))]
  BY <1>1, <1>2
<1>. QED BY <1>3 DEF NormalizeSchema

LEMMA ResolvableUnfold ==
    Resolvable = [s \in Schemata |->
        IF Has(s, "ref")
        THEN s.ref \in DOMAIN Components /\ Resolvable[Deref(s)]
        ELSE \A c \in Children(s) : Resolvable[c]]
<1>. DEFINE V == [s \in Schemata |-> BOOLEAN]
            F == [g \in MappingsInto(Schemata, V) |-> [s \in Schemata |->
                    IF Has(s, "ref")
                    THEN s.ref \in DOMAIN Components /\ g[Deref(s)]
                    ELSE \A c \in Children(s) : g[c]]]
<1>1. ASSUME NEW g \in MappingsInto(Schemata, V) PROVE F[g] \in MappingsInto(Schemata, V)
  <2>1. \A s \in Schemata : F[g][s] \in BOOLEAN
    OBVIOUS
  <2>2. F[g] = [s \in Schemata |-> F[g][s]]
    OBVIOUS
  <2>. HIDE DEF F
  <2>. QED BY <2>1, <2>2 DEF MappingsInto
<1>2. ASSUME NEW g \in MappingsInto(Schemata, V), NEW h \in MappingsInto(Schemata, V), NEW s \in Schemata,
             \A r \in Schemata : SchemaRank[r] < SchemaRank[s] => g[r] = h[r]
      PROVE  F[g][s] = F[h][s]
  <2>1. \A c \in Children(s) : g[c] = h[c]
    BY <1>2, SchemaRankFacts
  <2>2. Has(s, "ref") => g[Deref(s)] = h[Deref(s)]
    BY <1>2, SchemaRankFacts
  <2>. QED BY <2>1, <2>2
<1>3. Recursive(Schemata, V, SchemaRank, F)
  <2>1. \A s \in Schemata : V[s] # {}
    OBVIOUS
  <2>2. F \in [MappingsInto(Schemata, V) -> MappingsInto(Schemata, V)]
    <3>. HIDE DEF V
    <3>. QED BY <1>1
  <2>. HIDE DEF V, F
  <2>. QED BY <1>2, <2>1, <2>2, SchemaRankFacts DEF Recursive
<1>4. PICK f \in MappingsInto(Schemata, V) : f = F[f]
  <2>. HIDE DEF V, F
  <2>. QED BY <1>3, Recursion
<1>5. f = [s \in Schemata |->
            IF Has(s, "ref")
            THEN s.ref \in DOMAIN Components /\ f[Deref(s)]
            ELSE \A c \in Children(s) : f[c]]
  BY <1>4
<1>. QED BY <1>5 DEF Resolvable

--------------------------------------------------------------------------------

\* What is left of a payload depends only on what is left of its parts.
LEMMA RemainsSame ==
    ASSUME NEW g, NEW h, NEW names, NEW p \in Payloads,
           \A r \in Payloads : Size[r] < Size[p] => g[r] = h[r]
    PROVE  Remains(g, names, p) = Remains(h, names, p)
<1>1. IsObject(p) => \A k \in DOMAIN p.obj : g[p.obj[k]] = h[p.obj[k]]
  BY PayloadFacts
<1>2. IsArray(p) => \A i \in DOMAIN p.arr : g[p.arr[i]] = h[p.arr[i]]
  BY PayloadFacts
<1>3. ASSUME NEW q \in Payloads PROVE q \in Remains(g, names, p) <=> q \in Remains(h, names, p)
  <2>1. CASE IsObject(p)
    <3>1. DOMAIN q.obj \subseteq DOMAIN p.obj =>
            ((\A k \in DOMAIN q.obj : q.obj[k] \in g[p.obj[k]])
                <=> (\A k \in DOMAIN q.obj : q.obj[k] \in h[p.obj[k]]))
      BY <1>1, <2>1
    <3>2. ~IsArray(p)
      BY <2>1 DEF IsObject, IsArray
    <3>3. \A e : q \in Remains(e, names, p) <=>
            /\ IsObject(q) /\ DOMAIN q.obj \subseteq DOMAIN p.obj
            /\ \A k \in DOMAIN q.obj : q.obj[k] \in e[p.obj[k]]
            /\ \A k \in DOMAIN p.obj \ DOMAIN q.obj : k \in names /\ p.obj[k] = Blank
      BY <2>1, <3>2 DEF Remains
    <3>. QED BY <3>1, <3>3
  <2>2. CASE IsArray(p)
    <3>1. DOMAIN q.arr = DOMAIN p.arr =>
            ((\A k \in DOMAIN q.arr : q.arr[k] \in g[p.arr[k]])
                <=> (\A k \in DOMAIN q.arr : q.arr[k] \in h[p.arr[k]]))
      BY <1>2, <2>2
    <3>2. ~IsObject(p)
      BY <2>2 DEF IsObject, IsArray
    <3>. QED BY <2>2, <3>1, <3>2 DEF Remains
  <2>3. CASE ~IsObject(p) /\ ~IsArray(p)
    BY <2>3 DEF Remains
  <2>. QED BY <2>1, <2>2, <2>3
<1>4. Remains(g, names, p) \subseteq Payloads /\ Remains(h, names, p) \subseteq Payloads
  BY DEF Remains
<1>. QED BY <1>3, <1>4

\* Dropped is what its definition says.
LEMMA DroppedUnfold ==
    ASSUME NEW names
    PROVE  \E left : /\ left = [r \in Payloads |-> Remains(left, names, r)]
                     /\ \A r \in Payloads : Dropped(r, names) = left[r]
<1>. DEFINE V == [p \in Payloads |-> SUBSET Payloads]
            rank == [p \in Payloads |-> Size[p]]
            F == [g \in MappingsInto(Payloads, V) |-> [p \in Payloads |-> Remains(g, names, p)]]
<1>1. ASSUME NEW g \in MappingsInto(Payloads, V) PROVE F[g] \in MappingsInto(Payloads, V)
  <2>1. \A p \in Payloads : F[g][p] \subseteq Payloads
    BY DEF Remains
  <2>2. F[g] = [p \in Payloads |-> F[g][p]]
    OBVIOUS
  <2>. HIDE DEF F
  <2>. QED BY <2>1, <2>2 DEF MappingsInto
<1>2. ASSUME NEW g \in MappingsInto(Payloads, V), NEW h \in MappingsInto(Payloads, V), NEW p \in Payloads,
             \A r \in Payloads : rank[r] < rank[p] => g[r] = h[r]
      PROVE  F[g][p] = F[h][p]
  <2>1. Remains(g, names, p) = Remains(h, names, p)
    BY <1>2, RemainsSame
  <2>. QED BY <2>1
<1>3. rank \in [Payloads -> Nat]
  BY PayloadFacts
<1>4. Recursive(Payloads, V, rank, F)
  <2>1. \A s \in Payloads : V[s] # {}
    OBVIOUS
  <2>2. F \in [MappingsInto(Payloads, V) -> MappingsInto(Payloads, V)]
    <3>. HIDE DEF V
    <3>. QED BY <1>1
  <2>. HIDE DEF V, F, rank
  <2>. QED BY <1>2, <1>3, <2>1, <2>2 DEF Recursive
<1>5. PICK f \in MappingsInto(Payloads, V) : f = F[f]
  <2>. HIDE DEF V, F, rank
  <2>. QED BY <1>4, Recursion
<1>. DEFINE left == CHOOSE left : left = [r \in Payloads |-> Remains(left, names, r)]
<1>6. f = [r \in Payloads |-> Remains(f, names, r)]
  BY <1>5
<1>7. left = [r \in Payloads |-> Remains(left, names, r)]
  BY <1>6
<1>8. \A r : Dropped(r, names) = left[r]
  BY DEF Dropped
<1>. HIDE DEF left
<1>. QED BY <1>7, <1>8

LEMMA DroppedMember ==
    ASSUME NEW names, NEW p \in Payloads, NEW q
    PROVE  q \in Dropped(p, names) <=>
            /\ q \in Payloads
            /\ IsObject(p) =>
                /\ IsObject(q) /\ DOMAIN q.obj \subseteq DOMAIN p.obj
                /\ \A k \in DOMAIN q.obj : q.obj[k] \in Dropped(p.obj[k], names)
                /\ \A k \in DOMAIN p.obj \ DOMAIN q.obj : k \in names /\ p.obj[k] = Blank
            /\ IsArray(p) =>
                /\ IsArray(q) /\ DOMAIN q.arr = DOMAIN p.arr
                /\ \A i \in DOMAIN q.arr : q.arr[i] \in Dropped(p.arr[i], names)
            /\ ~IsObject(p) /\ ~IsArray(p) => q = p
<1>1. PICK left : /\ left = [r \in Payloads |-> Remains(left, names, r)]
                  /\ \A r \in Payloads : Dropped(r, names) = left[r]
  BY DroppedUnfold
<1>2. Dropped(p, names) = Remains(left, names, p)
  BY <1>1
<1>3. CASE IsObject(p)
  <2>1. ~IsArray(p)
    BY <1>3 DEF IsObject, IsArray
  <2>2. \A k \in DOMAIN p.obj : Dropped(p.obj[k], names) = left[p.obj[k]]
    BY <1>1, <1>3, PayloadFacts
  <2>3. q \in Remains(left, names, p) <=>
            /\ q \in Payloads
            /\ IsObject(q) /\ DOMAIN q.obj \subseteq DOMAIN p.obj
            /\ \A k \in DOMAIN q.obj : q.obj[k] \in left[p.obj[k]]
            /\ \A k \in DOMAIN p.obj \ DOMAIN q.obj : k \in names /\ p.obj[k] = Blank
    BY <1>3, <2>1 DEF Remains
  <2>. QED BY <1>2, <1>3, <2>1, <2>2, <2>3
<1>4. CASE IsArray(p)
  <2>1. ~IsObject(p)
    BY <1>4 DEF IsObject, IsArray
  <2>2. \A k \in DOMAIN p.arr : Dropped(p.arr[k], names) = left[p.arr[k]]
    BY <1>1, <1>4, PayloadFacts
  <2>3. q \in Remains(left, names, p) <=>
            /\ q \in Payloads
            /\ IsArray(q) /\ DOMAIN q.arr = DOMAIN p.arr
            /\ \A i \in DOMAIN q.arr : q.arr[i] \in left[p.arr[i]]
    BY <1>4, <2>1 DEF Remains
  <2>. QED BY <1>2, <1>4, <2>1, <2>2, <2>3
<1>5. CASE ~IsObject(p) /\ ~IsArray(p)
  <2>1. q \in Remains(left, names, p) <=> q \in Payloads /\ q = p
    BY <1>5 DEF Remains
  <2>. QED BY <1>2, <1>5, <2>1
<1>. QED BY <1>3, <1>4, <1>5

PayloadRank == [p \in Payloads |-> Size[p]]

LEMMA PayloadRankFacts ==
    /\ PayloadRank \in [Payloads -> Nat]
    /\ \A p \in Payloads :
        /\ IsObject(p) => \A k \in DOMAIN p.obj :
            p.obj[k] \in Payloads /\ PayloadRank[p.obj[k]] < PayloadRank[p]
        /\ IsArray(p) => \A i \in DOMAIN p.arr :
            p.arr[i] \in Payloads /\ PayloadRank[p.arr[i]] < PayloadRank[p]
BY PayloadFacts DEF PayloadRank

\* Dropping nothing is a way of dropping.
LEMMA DroppedSelf ==
    ASSUME NEW names, NEW p \in Payloads
    PROVE  p \in Dropped(p, names)
<1>. DEFINE T == {r \in Payloads : r \in Dropped(r, names)}
<1>1. ASSUME NEW r \in Payloads, \A q \in Payloads : PayloadRank[q] < PayloadRank[r] => q \in T
      PROVE  r \in T
  <2>1. IsObject(r) => \A k \in DOMAIN r.obj : r.obj[k] \in Dropped(r.obj[k], names)
    BY <1>1, PayloadRankFacts
  <2>2. IsArray(r) => \A i \in DOMAIN r.arr : r.arr[i] \in Dropped(r.arr[i], names)
    BY <1>1, PayloadRankFacts
  <2>. QED BY <2>1, <2>2, DroppedMember
<1>. HIDE DEF T
<1>2. Payloads \subseteq T
  BY <1>1, PayloadRankFacts, RankInduction
<1>. QED BY <1>2 DEF T

\* What is dropped by fewer names is dropped by more; only names of members matter.
LEMMA DroppedMore ==
    ASSUME NEW names, NEW more, names \intersect Names \subseteq more, NEW p \in Payloads
    PROVE  Dropped(p, names) \subseteq Dropped(p, more)
<1>. DEFINE T == {r \in Payloads : Dropped(r, names) \subseteq Dropped(r, more)}
<1>1. ASSUME NEW r \in Payloads, \A q \in Payloads : PayloadRank[q] < PayloadRank[r] => q \in T,
             NEW q \in Dropped(r, names)
      PROVE  q \in Dropped(r, more)
  <2>1. CASE IsObject(r)
    <3>1. \A k \in DOMAIN r.obj : Dropped(r.obj[k], names) \subseteq Dropped(r.obj[k], more)
      BY <1>1, <2>1, PayloadRankFacts
    <3>2. DOMAIN r.obj \subseteq Names
      BY <2>1 DEF Names
    <3>3. /\ q \in Payloads /\ IsObject(q) /\ DOMAIN q.obj \subseteq DOMAIN r.obj
          /\ \A k \in DOMAIN q.obj : q.obj[k] \in Dropped(r.obj[k], names)
          /\ \A k \in DOMAIN r.obj \ DOMAIN q.obj : k \in names /\ r.obj[k] = Blank
      BY <2>1, DroppedMember
    <3>4. /\ \A k \in DOMAIN q.obj : q.obj[k] \in Dropped(r.obj[k], more)
          /\ \A k \in DOMAIN r.obj \ DOMAIN q.obj : k \in more /\ r.obj[k] = Blank
      BY <3>1, <3>2, <3>3
    <3>5. ~IsArray(r)
      BY <2>1 DEF IsObject, IsArray
    <3>. QED BY <2>1, <3>3, <3>4, <3>5, DroppedMember
  <2>2. CASE IsArray(r)
    <3>1. \A k \in DOMAIN r.arr : Dropped(r.arr[k], names) \subseteq Dropped(r.arr[k], more)
      BY <1>1, <2>2, PayloadRankFacts
    <3>2. ~IsObject(r)
      BY <2>2 DEF IsObject, IsArray
    <3>3. /\ q \in Payloads /\ IsArray(q) /\ DOMAIN q.arr = DOMAIN r.arr
          /\ \A i \in DOMAIN q.arr : q.arr[i] \in Dropped(r.arr[i], names)
      BY <2>2, DroppedMember
    <3>4. \A i \in DOMAIN q.arr : q.arr[i] \in Dropped(r.arr[i], more)
      BY <3>1, <3>3
    <3>. QED BY <2>2, <3>2, <3>3, <3>4, DroppedMember
  <2>3. CASE ~IsObject(r) /\ ~IsArray(r)
    BY <2>3, DroppedMember
  <2>. QED BY <2>1, <2>2, <2>3
<1>2. \A r \in Payloads : (\A q \in Payloads : PayloadRank[q] < PayloadRank[r] => q \in T) => r \in T
  BY <1>1
<1>. HIDE DEF T
<1>3. Payloads \subseteq T
  BY <1>2, PayloadRankFacts, RankInduction
<1>. QED BY <1>3 DEF T

\* What is left is of the same kind, and of a scalar it is the scalar.
LEMMA DroppedKind ==
    ASSUME NEW names, NEW p \in Payloads, NEW q \in Dropped(p, names)
    PROVE  q \in Payloads /\ DOMAIN q = DOMAIN p /\ (q = Blank => p = Blank)
<1>1. q \in Payloads /\ DOMAIN q = DOMAIN p
  BY DroppedMember DEF IsObject, IsArray
<1>2. ASSUME q = Blank PROVE p = Blank
  <2>1. DOMAIN q = {"str"}
    BY <1>2 DEF Blank
  <2>2. ~IsObject(p) /\ ~IsArray(p)
    BY <1>1, <2>1 DEF IsObject, IsArray
  <2>. QED BY <1>2, <2>2, DroppedMember
<1>. QED BY <1>1, <1>2

\* Dropping from what is left is dropping.
LEMMA DroppedTwice ==
    ASSUME NEW names, NEW p \in Payloads, NEW q \in Dropped(p, names), NEW r \in Dropped(q, names)
    PROVE  r \in Dropped(p, names)
<1>. DEFINE T == {x \in Payloads :
                    \A y \in Dropped(x, names) : Dropped(y, names) \subseteq Dropped(x, names)}
<1>1. ASSUME NEW x \in Payloads, \A y \in Payloads : PayloadRank[y] < PayloadRank[x] => y \in T,
             NEW y \in Dropped(x, names), NEW z \in Dropped(y, names)
      PROVE  z \in Dropped(x, names)
  <2>0. y \in Payloads /\ z \in Payloads /\ DOMAIN y = DOMAIN x /\ DOMAIN z = DOMAIN x
    <3>1. y \in Payloads /\ DOMAIN y = DOMAIN x
      BY DroppedKind
    <3>. QED BY <3>1, DroppedKind
  <2>1. CASE IsObject(x)
    <3>1. IsObject(y) /\ IsObject(z) /\ ~IsArray(x)
      BY <2>0, <2>1 DEF IsObject, IsArray
    <3>2. /\ DOMAIN y.obj \subseteq DOMAIN x.obj
          /\ \A k \in DOMAIN y.obj : y.obj[k] \in Dropped(x.obj[k], names)
          /\ \A k \in DOMAIN x.obj \ DOMAIN y.obj : k \in names /\ x.obj[k] = Blank
      BY <2>1, DroppedMember
    <3>3. /\ DOMAIN z.obj \subseteq DOMAIN y.obj
          /\ \A k \in DOMAIN z.obj : z.obj[k] \in Dropped(y.obj[k], names)
          /\ \A k \in DOMAIN y.obj \ DOMAIN z.obj : k \in names /\ y.obj[k] = Blank
      BY <2>0, <3>1, DroppedMember
    <3>4. \A k \in DOMAIN x.obj : x.obj[k] \in Payloads /\ x.obj[k] \in T
      BY <1>1, <2>1, PayloadRankFacts
    <3>5. \A k \in DOMAIN z.obj : z.obj[k] \in Dropped(x.obj[k], names)
      BY <3>2, <3>3, <3>4
    <3>6. ASSUME NEW k \in DOMAIN x.obj \ DOMAIN z.obj PROVE k \in names /\ x.obj[k] = Blank
      <4>1. CASE k \in DOMAIN y.obj
        <5>1. k \in names /\ y.obj[k] = Blank /\ y.obj[k] \in Dropped(x.obj[k], names)
          BY <3>2, <3>3, <4>1
        <5>. QED BY <3>4, <5>1, DroppedKind
      <4>2. CASE k \notin DOMAIN y.obj
        BY <3>2, <4>2
      <4>. QED BY <4>1, <4>2
    <3>7. DOMAIN z.obj \subseteq DOMAIN x.obj
      BY <3>2, <3>3
    <3>. QED BY <2>0, <3>1, <3>5, <3>6, <3>7, DroppedMember
  <2>2. CASE IsArray(x)
    <3>1. IsArray(y) /\ IsArray(z) /\ ~IsObject(x)
      BY <2>0, <2>2 DEF IsObject, IsArray
    <3>2. /\ DOMAIN y.arr = DOMAIN x.arr
          /\ \A k \in DOMAIN y.arr : y.arr[k] \in Dropped(x.arr[k], names)
      BY <2>2, DroppedMember
    <3>3. /\ DOMAIN z.arr = DOMAIN y.arr
          /\ \A k \in DOMAIN z.arr : z.arr[k] \in Dropped(y.arr[k], names)
      BY <2>0, <3>1, DroppedMember
    <3>4. \A k \in DOMAIN x.arr : x.arr[k] \in T
      BY <1>1, <2>2, PayloadRankFacts
    <3>5. \A k \in DOMAIN z.arr : z.arr[k] \in Dropped(x.arr[k], names)
      BY <3>2, <3>3, <3>4
    <3>. QED BY <2>0, <2>2, <3>1, <3>2, <3>3, <3>5, DroppedMember
  <2>3. CASE ~IsObject(x) /\ ~IsArray(x)
    <3>1. y = x
      BY <2>3, DroppedMember
    <3>. QED BY <3>1
  <2>. QED BY <2>1, <2>2, <2>3
<1>2. \A x \in Payloads : (\A y \in Payloads : PayloadRank[y] < PayloadRank[x] => y \in T) => x \in T
  BY <1>1
<1>. HIDE DEF T
<1>3. Payloads \subseteq T
  BY <1>2, PayloadRankFacts, RankInduction
<1>. QED BY <1>3 DEF T

\* Members and items that are adjusted each on its own, and blank members that are left out,
\* make up what is dropped from the whole.
LEMMA DroppedObject ==
    ASSUME NEW names, NEW p \in Payloads, IsObject(p), NEW f, DOMAIN f \subseteq DOMAIN p.obj,
           f = [k \in DOMAIN f |-> f[k]],
           \A k \in DOMAIN f : f[k] \in Dropped(p.obj[k], names),
           \A k \in DOMAIN p.obj \ DOMAIN f : k \in names /\ p.obj[k] = Blank
    PROVE  [obj |-> f] \in Dropped(p, names)
<1>. DEFINE D == DOMAIN f
            U == UNION {Dropped(v, Names) : v \in Range(p.obj)}
<1>1. \A k \in D : f[k] \in Dropped(p.obj[k], Names)
  <2>1. \A k \in D : p.obj[k] \in Payloads
    BY PayloadFacts
  <2>. QED BY <2>1, DroppedMore
<1>2. f \in [D -> U]
  <2>1. \A k \in D : p.obj[k] \in Range(p.obj)
    BY DEF Range
  <2>2. \A k \in D : f[k] \in U
    BY <1>1, <2>1
  <2>. HIDE DEF U
  <2>. QED BY <2>2
<1>3. D \in SUBSET DOMAIN p.obj
  OBVIOUS
<1>4. \A E \in SUBSET DOMAIN p.obj : \A g \in [E -> U] :
        /\ \A k \in E : g[k] \in Dropped(p.obj[k], Names)
        /\ \A k \in DOMAIN p.obj \ E : p.obj[k] = Blank
        => [obj |-> g] \in Payloads
  BY SchemaAssumption DEF SchemaAssumption
<1>5. [obj |-> f] \in Payloads
  <2>. HIDE DEF U
  <2>. QED BY <1>1, <1>2, <1>3, <1>4
<1>6. IsObject([obj |-> f]) /\ [obj |-> f].obj = f /\ ~IsArray(p)
  BY DEF IsObject, IsArray
<1>. QED BY <1>5, <1>6, DroppedMember

LEMMA DroppedArray ==
    ASSUME NEW names, NEW p \in Payloads, IsArray(p), NEW f, DOMAIN f = DOMAIN p.arr,
           f = [i \in DOMAIN f |-> f[i]],
           \A i \in DOMAIN f : f[i] \in Dropped(p.arr[i], names)
    PROVE  [arr |-> f] \in Dropped(p, names)
<1>. DEFINE U == UNION {Dropped(v, Names) : v \in Range(p.arr)}
<1>1. \A k \in DOMAIN f : f[k] \in Dropped(p.arr[k], Names)
  <2>1. \A k \in DOMAIN f : p.arr[k] \in Payloads
    BY PayloadFacts
  <2>. QED BY <2>1, DroppedMore
<1>2. f \in [DOMAIN p.arr -> U]
  <2>1. \A k \in DOMAIN f : p.arr[k] \in Range(p.arr)
    BY DEF Range
  <2>2. \A k \in DOMAIN f : f[k] \in U
    BY <1>1, <2>1
  <2>. HIDE DEF U
  <2>. QED BY <2>2
<1>3. \A g \in [DOMAIN p.arr -> U] :
        (\A i \in DOMAIN g : g[i] \in Dropped(p.arr[i], Names)) => [arr |-> g] \in Payloads
  BY SchemaAssumption DEF SchemaAssumption
<1>4. [arr |-> f] \in Payloads
  <2>. HIDE DEF U
  <2>. QED BY <1>1, <1>2, <1>3
<1>5. IsArray([arr |-> f]) /\ [arr |-> f].arr = f /\ ~IsObject(p)
  BY DEF IsObject, IsArray
<1>. QED BY <1>4, <1>5, DroppedMember

--------------------------------------------------------------------------------

\* What is assumed of the schemas that payloads are adjusted to.
LEMMA PreparedFacts ==
    ASSUME NEW s \in Prepared
    PROVE  /\ s \in Schemata
           /\ \A c \in Children(s) : c \in Prepared /\ Size[c] < Size[s]
           /\ \A k \in DOMAIN s \intersect Keywords : \A i \in DOMAIN s[k] :
                Merge(s, s[k][i], k) \in Prepared /\ Size[Merge(s, s[k][i], k)] < Size[s]
<1>1. s \in Schemata /\ Children(s) \subseteq Prepared
  BY SchemaAssumption DEF SchemaAssumption
<1>2. \A k \in DOMAIN s \intersect Keywords : \A b \in Range(s[k]) :
        Merge(s, b, k) \in Prepared /\ Size[Merge(s, b, k)] < Size[s]
  BY SchemaAssumption DEF SchemaAssumption
<1>3. \A k \in DOMAIN s \intersect Keywords : \A i \in DOMAIN s[k] : s[k][i] \in Range(s[k])
  BY DEF Range
<1>. QED BY <1>1, <1>2, <1>3, SchemaFacts

\* The names that n, a part itself, lets be dropped.
OwnExcuses(n) ==
    {k \in DOMAIN n.properties : LacksBlank(n.properties[k])}

LEMMA ExcusableFacts ==
    ASSUME NEW s, NEW k
    PROVE  k \in Excusable(s) <=> \E n \in Parts[s] : Has(n, "properties") /\ k \in OwnExcuses(n)
BY DEF Excusable, OwnExcuses

\* What a part excuses, the whole excuses.
LEMMA ExcusableChild ==
    ASSUME NEW s \in Schemata, NEW c \in Children(s)
    PROVE  Excusable(c) \subseteq Excusable(s)
<1>1. Parts[c] \subseteq Parts[s]
  BY PartsType
<1>. QED BY <1>1, ExcusableFacts

\* What is inside a merged branch is inside the branch or inside what is around it.
LEMMA MergeChildren ==
    ASSUME NEW s \in Schemata, NEW b, NEW k, NEW c \in Children(Merge(s, b, k))
    PROVE  c \in Children(s) \/ c \in Children(b)
<1>. DEFINE rest == RestrictDomain(s, LAMBDA f : f # k)
            m == Merge(s, b, k)
<1>1. /\ DOMAIN rest = DOMAIN s \ {k}
      /\ \A f \in DOMAIN s \ {k} : rest[f] = s[f]
      /\ DOMAIN m = DOMAIN rest \union DOMAIN b
  BY DEF RestrictDomain, Restrict, Merge
<1>2. \A f \in DOMAIN m : f \notin {"properties", "required"} =>
        m[f] = IF f \in DOMAIN b THEN b[f] ELSE s[f]
  BY <1>1 DEF Merge, Field, Has
<1>3. "properties" \in DOMAIN m =>
        m["properties"] = Over(Field(b, "properties", << >>), Field(rest, "properties", << >>))
  BY DEF Merge
<1>. HIDE DEF m, rest
<1>4. Children(m) = (UNION {Range(m[f]) : f \in DOMAIN m \intersect Keywords})
        \union Range(Field(m, "properties", << >>))
        \union (IF Has(m, "items") THEN {m.items} ELSE {})
  BY DEF Children
<1>5. ASSUME NEW f \in DOMAIN m \intersect Keywords, c \in Range(m[f])
      PROVE  c \in Children(s) \/ c \in Children(b)
  <2>1. PICK i \in DOMAIN m[f] : c = m[f][i]
    BY <1>5 DEF Range
  <2>2. m[f] = IF f \in DOMAIN b THEN b[f] ELSE s[f]
    BY <1>2 DEF Keywords
  <2>3. f \in DOMAIN b \/ f \in DOMAIN s
    BY <1>1
  <2>. QED BY <2>1, <2>2, <2>3, ChildFacts
<1>6. ASSUME c \in Range(Field(m, "properties", << >>))
      PROVE  c \in Children(s) \/ c \in Children(b)
  <2>1. PICK i \in DOMAIN Field(m, "properties", << >>) : c = Field(m, "properties", << >>)[i]
    BY <1>6 DEF Range
  <2>2. Has(m, "properties") /\ i \in DOMAIN m["properties"] /\ c = m["properties"][i]
    BY <2>1 DEF Field
  <2>3. m["properties"] = Over(Field(b, "properties", << >>), Field(rest, "properties", << >>))
    BY <1>3, <2>2 DEF Has
  <2>4. CASE i \in DOMAIN Field(b, "properties", << >>)
    <3>1. Has(b, "properties") /\ i \in DOMAIN b.properties /\ c = b.properties[i]
      BY <2>2, <2>3, <2>4 DEF Over, Field
    <3>. QED BY <3>1, ChildFacts
  <2>5. CASE i \notin DOMAIN Field(b, "properties", << >>)
    <3>1. Has(rest, "properties") /\ i \in DOMAIN rest.properties /\ c = rest.properties[i]
      BY <2>2, <2>3, <2>5 DEF Over, Field
    <3>2. Has(s, "properties") /\ rest.properties = s.properties
      BY <1>1, <3>1 DEF Has
    <3>. QED BY <3>1, <3>2, ChildFacts
  <2>. QED BY <2>4, <2>5
<1>7. ASSUME Has(m, "items"), c = m.items
      PROVE  c \in Children(s) \/ c \in Children(b)
  <2>1. m["items"] = IF "items" \in DOMAIN b THEN b["items"] ELSE s["items"]
    BY <1>2, <1>7 DEF Has
  <2>2. "items" \in DOMAIN b \/ "items" \in DOMAIN s
    BY <1>1, <1>7 DEF Has
  <2>. QED BY <1>7, <2>1, <2>2, ChildFacts DEF Has
<1>8. c \in Children(m)
  BY DEF m
<1>9. \/ \E f \in DOMAIN m \intersect Keywords : c \in Range(m[f])
      \/ c \in Range(Field(m, "properties", << >>))
      \/ Has(m, "items") /\ c = m.items
  BY <1>4, <1>8
<1>. QED BY <1>5, <1>6, <1>7, <1>9

\* Merging a branch with what is around it excuses nothing more.
LEMMA ExcusableMerge ==
    ASSUME NEW s \in Prepared, NEW k \in DOMAIN s \intersect Keywords, NEW i \in DOMAIN s[k]
    PROVE  Excusable(Merge(s, s[k][i], k)) \subseteq Excusable(s)
<1>. DEFINE b == s[k][i]
            m == Merge(s, b, k)
            rest == RestrictDomain(s, LAMBDA f : f # k)
<1>1. s \in Schemata /\ b \in Schemata /\ b \in Children(s) /\ m \in Schemata
  BY PreparedFacts, ChildFacts, SchemaFacts
<1>2. SUFFICES ASSUME NEW name \in Excusable(m) PROVE name \in Excusable(s)
  OBVIOUS
<1>3. PICK n \in Parts[m] : Has(n, "properties") /\ name \in OwnExcuses(n)
  <2>. HIDE DEF m
  <2>. QED BY <1>2, ExcusableFacts
<1>4. Excusable(b) \subseteq Excusable(s)
  <2>. HIDE DEF b
  <2>. QED BY <1>1, ExcusableChild
<1>5. CASE n # m
  <2>1. PICK c \in Children(m) : n \in Parts[c]
    <3>. HIDE DEF m
    <3>. QED BY <1>1, <1>3, <1>5, PartsType
  <2>2. name \in Excusable(c)
    BY <1>3, <2>1, ExcusableFacts
  <2>3. c \in Children(s) \/ c \in Children(b)
    <3>. HIDE DEF b
    <3>. QED BY <1>1, MergeChildren
  <2>. HIDE DEF b, m
  <2>. QED BY <1>1, <1>4, <2>2, <2>3, ExcusableChild
<1>6. CASE n = m
  <2>1. "properties" \in DOMAIN m
    BY <1>3, <1>6 DEF Has
  <2>2. m["properties"] = Over(Field(b, "properties", << >>), Field(rest, "properties", << >>))
    <3>. HIDE DEF b
    <3>. QED BY <2>1 DEF Merge
  <2>3. Has(rest, "properties") => Has(s, "properties") /\ rest.properties = s.properties
    BY DEF RestrictDomain, Restrict, Has
  <2>. HIDE DEF b, m, rest
  <2>4. name \in DOMAIN m.properties
    BY <1>3, <1>6 DEF OwnExcuses, LacksBlank
  <2>5. CASE name \in DOMAIN Field(b, "properties", << >>)
    <3>1. Has(b, "properties") /\ name \in DOMAIN b.properties /\ m.properties[name] = b.properties[name]
      BY <2>2, <2>4, <2>5 DEF Over, Field
    <3>2. name \in OwnExcuses(b)
      BY <1>3, <1>6, <3>1 DEF OwnExcuses, LacksBlank
    <3>3. b \in Parts[b]
      BY <1>1, PartsType
    <3>. QED BY <1>4, <3>1, <3>2, <3>3, ExcusableFacts
  <2>6. CASE name \notin DOMAIN Field(b, "properties", << >>)
    <3>1. Has(s, "properties") /\ name \in DOMAIN s.properties /\ m.properties[name] = s.properties[name]
      BY <2>2, <2>3, <2>4, <2>6 DEF Over, Field
    <3>2. name \in OwnExcuses(s)
      BY <1>3, <1>6, <3>1 DEF OwnExcuses, LacksBlank
    <3>3. s \in Parts[s]
      BY <1>1, PartsType
    <3>. QED BY <3>1, <3>2, <3>3, ExcusableFacts
  <2>. QED BY <2>5, <2>6
<1>. QED BY <1>5, <1>6

--------------------------------------------------------------------------------

\* A set of numbers from 1 to some number has a greatest one if it is not empty.
LEMMA GreatestNumber ==
    ASSUME NEW n \in Nat, NEW R \in SUBSET (1..n), R # {}
    PROVE  Max(R) \in R
<1>. DEFINE gaps == {n - x : x \in R}
<1>1. PICK d \in gaps : \A e \in gaps : d <= e
  <2>1. \A x \in R : n - x \in Nat
    <3>1. \A x \in R : x \in 1..n
      OBVIOUS
    <3>. QED BY <3>1
  <2>2. gaps \in SUBSET Nat /\ gaps # {}
    BY <2>1
  <2>. HIDE DEF gaps
  <2>. QED BY <2>2, LeastNumber
<1>2. PICK x \in R : d = n - x
  BY <1>1
<1>3. \A y \in R : x >= y
  <2>1. ASSUME NEW y \in R PROVE x >= y
    <3>1. n - y \in gaps
      OBVIOUS
    <3>2. n - x <= n - y /\ x \in 1..n /\ y \in 1..n
      BY <1>1, <1>2, <3>1
    <3>. QED BY <3>2
  <2>. QED BY <2>1
<1>. QED BY <1>2, <1>3 DEF Max

\* What the fold that adjusts in turn asks of the function it defines on sets of positions.
Folding(h, g, ss, p) ==
    h = [R \in SUBSET DOMAIN ss |->
            IF R = {} THEN p ELSE LET i == Max(R) IN g[<<ss[i], h[R \ {i}]>>]]

LEMMA InTurnUnfolds ==
    ASSUME NEW g, NEW ss, NEW p
    PROVE  InTurn(g, ss, p) = (CHOOSE h : Folding(h, g, ss, p))[DOMAIN ss]
BY DEF InTurn, FoldLeft, MapThenFoldSet, Folding

\* The positions that come before the last of some.
LEMMA FoldRank ==
    ASSUME NEW n \in Nat, NEW R \in SUBSET (1..n)
    PROVE  /\ Cardinality(R) \in Nat
           /\ R # {} => /\ Max(R) \in R
                        /\ R \ {Max(R)} \in SUBSET (1..n)
                        /\ Cardinality(R \ {Max(R)}) < Cardinality(R)
<1>1. IsFiniteSet(R) /\ Cardinality(R) \in Nat
  <2>1. IsFiniteSet(1..n)
    BY FS_Interval
  <2>. QED BY <2>1, FS_Subset, FS_CardinalityType
<1>2. ASSUME R # {} PROVE Max(R) \in R /\ Cardinality(R \ {Max(R)}) = Cardinality(R) - 1
  <2>1. Max(R) \in R
    <3>. HIDE DEF Max
    <3>. QED BY <1>2, GreatestNumber
  <2>. QED BY <1>1, <2>1, FS_RemoveElement
<1>. HIDE DEF Max
<1>3. ASSUME R # {} PROVE Cardinality(R \ {Max(R)}) < Cardinality(R)
  <2>1. Cardinality(R \ {Max(R)}) = Cardinality(R) - 1
    BY <1>2, <1>3
  <2>. QED BY <1>1, <2>1
<1>. QED BY <1>1, <1>2, <1>3

LEMMA FoldingExists ==
    ASSUME NEW n \in Nat, NEW ss, DOMAIN ss = 1..n, NEW g, NEW W, NEW p \in W,
           \A i \in 1..n : \A q \in W : g[<<ss[i], q>>] \in W
    PROVE  \E h : Folding(h, g, ss, p) /\ \A R \in SUBSET (1..n) : h[R] \in W
<1>. DEFINE S == SUBSET (1..n)
            V == [R \in S |-> W]
            rank == [R \in S |-> Cardinality(R)]
            F == [h \in MappingsInto(S, V) |-> [R \in S |->
                    IF R = {} THEN p ELSE LET i == Max(R) IN g[<<ss[i], h[R \ {i}]>>]]]
<1>1. ASSUME NEW h \in MappingsInto(S, V) PROVE F[h] \in MappingsInto(S, V)
  <2>1. \A R \in S : h[R] \in W
    BY DEF MappingsInto
  <2>2. ASSUME NEW R \in S, R # {} PROVE g[<<ss[Max(R)], h[R \ {Max(R)}]>>] \in W
    BY <2>1, <2>2, FoldRank
  <2>3. \A R \in S : F[h][R] \in W
    BY <2>2
  <2>4. F[h] = [R \in S |-> F[h][R]]
    OBVIOUS
  <2>. HIDE DEF F
  <2>. QED BY <2>3, <2>4 DEF MappingsInto
<1>2. ASSUME NEW h \in MappingsInto(S, V), NEW f \in MappingsInto(S, V), NEW R \in S,
             \A Q \in S : rank[Q] < rank[R] => h[Q] = f[Q]
      PROVE  F[h][R] = F[f][R]
  <2>1. CASE R = {}
    BY <2>1
  <2>2. CASE R # {}
    <3>1. h[R \ {Max(R)}] = f[R \ {Max(R)}]
      BY <1>2, <2>2, FoldRank
    <3>. QED BY <2>2, <3>1
  <2>. QED BY <2>1, <2>2
<1>3. Recursive(S, V, rank, F)
  <2>1. \A R \in S : V[R] # {}
    OBVIOUS
  <2>2. F \in [MappingsInto(S, V) -> MappingsInto(S, V)]
    <3>. HIDE DEF V, S
    <3>. QED BY <1>1
  <2>3. rank \in [S -> Nat]
    BY FoldRank
  <2>. HIDE DEF S, V, F, rank
  <2>. QED BY <1>2, <2>1, <2>2, <2>3 DEF Recursive
<1>4. PICK h \in MappingsInto(S, V) : h = F[h]
  <2>. HIDE DEF S, V, F, rank
  <2>. QED BY <1>3, Recursion
<1>5. Folding(h, g, ss, p)
  BY <1>4 DEF Folding
<1>6. \A R \in S : h[R] \in W
  BY DEF MappingsInto
<1>. QED BY <1>5, <1>6

\* What comes of adjusting in turn comes of it step by step, and stays where every step stays.
LEMMA InTurnSteps ==
    ASSUME NEW n \in Nat, NEW ss, DOMAIN ss = 1..n, NEW g, NEW W, NEW p \in W,
           \A i \in 1..n : \A q \in W : g[<<ss[i], q>>] \in W
    PROVE  \E t : /\ t[0] = p /\ t[n] = InTurn(g, ss, p)
                  /\ \A i \in 0..n : t[i] \in W
                  /\ \A i \in 1..n : t[i] = g[<<ss[i], t[i - 1]>>]
<1>. DEFINE h == CHOOSE h : Folding(h, g, ss, p)
            t == [i \in 0..n |-> h[1..i]]
<1>1. Folding(h, g, ss, p) /\ InTurn(g, ss, p) = h[1..n]
  <2>1. \E f : Folding(f, g, ss, p)
    BY FoldingExists
  <2>. QED BY <2>1, InTurnUnfolds
<1>. HIDE DEF h
<1>2. h[{}] = p /\ \A R \in SUBSET (1..n) : R # {} => h[R] = g[<<ss[Max(R)], h[R \ {Max(R)}]>>]
  BY <1>1 DEF Folding
<1>3. ASSUME NEW i \in 1..n PROVE t[i] = g[<<ss[i], t[i - 1]>>]
  <2>1. 1..i \in SUBSET (1..n) /\ 1..i # {}
    OBVIOUS
  <2>2. Max(1..i) = i
    <3>1. i \in 1..i /\ \A x \in 1..i : i >= x
      OBVIOUS
    <3>2. \A x \in 1..i : (\A y \in 1..i : x >= y) => x = i
      BY <3>1
    <3>. QED BY <3>1, <3>2 DEF Max
  <2>3. (1..i) \ {i} = 1..(i - 1)
    OBVIOUS
  <2>4. h[1..i] = g[<<ss[i], h[1..(i - 1)]>>]
    BY <1>2, <2>1, <2>2, <2>3
  <2>5. i \in 0..n /\ i - 1 \in 0..n
    OBVIOUS
  <2>. QED BY <2>4, <2>5
<1>4. t[0] = p /\ t[n] = InTurn(g, ss, p)
  <2>1. 1..0 = {} /\ 0 \in 0..n /\ n \in 0..n
    OBVIOUS
  <2>. QED BY <1>1, <1>2, <2>1
<1>. HIDE DEF t
<1>. DEFINE T == {i \in Nat : i <= n => t[i] \in W}
<1>5. Nat \subseteq T
  <2>1. 0 \in T
    BY <1>4
  <2>2. ASSUME NEW i \in Nat, i \in T PROVE i + 1 \in T
    <3>1. CASE i + 1 <= n
      <4>1. i + 1 \in 1..n /\ (i + 1) - 1 = i /\ i <= n
        BY <3>1
      <4>2. t[i + 1] = g[<<ss[i + 1], t[i]>>] /\ t[i] \in W
        BY <1>3, <2>2, <4>1
      <4>. QED BY <4>1, <4>2
    <3>2. CASE ~(i + 1 <= n)
      BY <3>2
    <3>. QED BY <3>1, <3>2
  <2>. HIDE DEF T
  <2>. QED BY <2>1, <2>2, Induction
<1>6. \A i \in 0..n : t[i] \in W
  BY <1>5
<1>. QED BY <1>3, <1>4, <1>6

LEMMA InTurnSame ==
    ASSUME NEW n \in Nat, NEW ss, DOMAIN ss = 1..n, NEW g, NEW h, NEW W, NEW p \in W,
           \A i \in 1..n : \A q \in W : g[<<ss[i], q>>] \in W /\ h[<<ss[i], q>>] = g[<<ss[i], q>>]
    PROVE  InTurn(g, ss, p) = InTurn(h, ss, p)
<1>1. PICK t : /\ t[0] = p /\ t[n] = InTurn(g, ss, p)
               /\ \A i \in 0..n : t[i] \in W
               /\ \A i \in 1..n : t[i] = g[<<ss[i], t[i - 1]>>]
  <2>1. \A i \in 1..n : \A q \in W : g[<<ss[i], q>>] \in W
    OBVIOUS
  <2>. QED BY <2>1, InTurnSteps
<1>2. PICK u : /\ u[0] = p /\ u[n] = InTurn(h, ss, p)
               /\ \A i \in 0..n : u[i] \in W
               /\ \A i \in 1..n : u[i] = h[<<ss[i], u[i - 1]>>]
  <2>1. \A i \in 1..n : \A q \in W : h[<<ss[i], q>>] \in W
    OBVIOUS
  <2>. QED BY <2>1, InTurnSteps
<1>. DEFINE T == {i \in Nat : i <= n => t[i] = u[i]}
<1>3. Nat \subseteq T
  <2>1. 0 \in T
    BY <1>1, <1>2
  <2>2. ASSUME NEW i \in Nat, i \in T PROVE i + 1 \in T
    <3>1. CASE i + 1 <= n
      <4>1. i + 1 \in 1..n /\ (i + 1) - 1 = i /\ i <= n /\ i \in 0..n
        BY <3>1
      <4>2. t[i] = u[i] /\ t[i] \in W
        BY <1>1, <2>2, <4>1
      <4>3. t[i + 1] = g[<<ss[i + 1], t[i]>>] /\ u[i + 1] = h[<<ss[i + 1], u[i]>>]
        BY <1>1, <1>2, <4>1
      <4>. QED BY <4>1, <4>2, <4>3
    <3>2. CASE ~(i + 1 <= n)
      BY <3>2
    <3>. QED BY <3>1, <3>2
  <2>. HIDE DEF T
  <2>. QED BY <2>1, <2>2, Induction
<1>. QED BY <1>1, <1>2, <1>3

\* What g makes of a payload under a schema smaller than s is what is left of it.
Adjusts(g, s) ==
    \A r \in Prepared, p \in Payloads :
        Size[r] < Size[s] => g[<<r, p>>] \in Dropped(p, Excusable(r))

\* What each of some branches of allOf adjusts is left of the payload.
LEMMA FoldStep ==
    ASSUME NEW s \in Prepared, Has(s, "allOf"), NEW p \in Payloads, NEW g, Adjusts(g, s),
           NEW i \in DOMAIN s.allOf, NEW q \in Dropped(p, Excusable(s))
    PROVE  g[<<Merge(s, s.allOf[i], "allOf"), q>>] \in Dropped(p, Excusable(s))
<1>. DEFINE m == Merge(s, s.allOf[i], "allOf")
<1>1. "allOf" \in DOMAIN s \intersect Keywords
  BY DEF Has, Keywords
<1>2. m \in Prepared /\ Size[m] < Size[s] /\ Excusable(m) \subseteq Excusable(s)
  BY <1>1, PreparedFacts, ExcusableMerge
<1>3. q \in Payloads
  BY DroppedKind
<1>. HIDE DEF m
<1>4. g[<<m, q>>] \in Dropped(q, Excusable(m))
  BY <1>2, <1>3 DEF Adjusts
<1>5. g[<<m, q>>] \in Dropped(q, Excusable(s))
  BY <1>2, <1>3, <1>4, DroppedMore
<1>. QED BY <1>5, DroppedTwice DEF m

\* So what allOf adjusts is what is left of the payload, and the same if the branches adjust
\* the same.
LEMMA AllOfFacts ==
    ASSUME NEW s \in Prepared, Has(s, "allOf"), NEW p \in Payloads, NEW g, Adjusts(g, s)
    PROVE  /\ AdjustedAllOf(g, s, p) \in Dropped(p, Excusable(s))
           /\ \A h : /\ \A r \in Prepared, q \in Payloads : Size[r] < Size[s] => g[<<r, q>>] = h[<<r, q>>]
                     => AdjustedAllOf(g, s, p) = AdjustedAllOf(h, s, p)
<1>. DEFINE W == Dropped(p, Excusable(s))
            n == Len(s.allOf)
            ms == [i \in DOMAIN s.allOf |-> Merge(s, s.allOf[i], "allOf")]
<1>1. n \in Nat /\ DOMAIN s.allOf = 1..n /\ p \in W
  <2>1. s \in Schemata /\ "allOf" \in DOMAIN s \intersect Keywords
    BY PreparedFacts DEF Has, Keywords
  <2>. QED BY <2>1, BranchFacts, DroppedSelf
<1>2. DOMAIN ms = 1..n /\ \A i \in 1..n : ms[i] = Merge(s, s.allOf[i], "allOf")
  BY <1>1
<1>3. \A h : AdjustedAllOf(h, s, p) = InTurn(h, ms, p)
  BY DEF AdjustedAllOf
<1>. HIDE DEF ms, n
<1>4. \A i \in 1..n : \A q \in W : g[<<ms[i], q>>] \in W
  BY <1>1, <1>2, FoldStep
<1>5. ASSUME NEW i \in 1..n PROVE ms[i] \in Prepared /\ Size[ms[i]] < Size[s]
  BY <1>1, <1>2, PreparedFacts DEF Has, Keywords
<1>6. \A q \in W : q \in Payloads
  BY DroppedKind
<1>. HIDE DEF W
<1>7. AdjustedAllOf(g, s, p) \in W
  <2>1. PICK t : t[n] = InTurn(g, ms, p) /\ \A i \in 0..n : t[i] \in W
    BY <1>1, <1>2, <1>4, InTurnSteps
  <2>. QED BY <1>1, <1>3, <2>1
<1>8. ASSUME NEW h, \A r \in Prepared, q \in Payloads : Size[r] < Size[s] => g[<<r, q>>] = h[<<r, q>>]
      PROVE  AdjustedAllOf(g, s, p) = AdjustedAllOf(h, s, p)
  <2>1. \A i \in 1..n : \A q \in W : g[<<ms[i], q>>] \in W /\ h[<<ms[i], q>>] = g[<<ms[i], q>>]
    BY <1>4, <1>5, <1>6, <1>8
  <2>. QED BY <1>1, <1>2, <1>3, <2>1, InTurnSame
<1>. QED BY <1>7, <1>8 DEF W

\* The branch that fits best is one of the branches, and no other has fewer errors.
LEMMA BestFacts ==
    ASSUME NEW errors, DOMAIN errors # {}, \A i \in DOMAIN errors : errors[i] \in Nat,
           NEW n \in Nat, DOMAIN errors = 1..n
    PROVE  /\ BestBranch(errors) \in DOMAIN errors
           /\ \A i \in DOMAIN errors : errors[BestBranch(errors)] <= errors[i]
<1>. DEFINE counts == {errors[i] : i \in DOMAIN errors}
            best == {i \in DOMAIN errors : \A j \in DOMAIN errors : errors[i] <= errors[j]}
<1>1. PICK e \in counts : \A c \in counts : e <= c
  <2>1. counts \in SUBSET Nat /\ counts # {}
    OBVIOUS
  <2>. HIDE DEF counts
  <2>. QED BY <2>1, LeastNumber
<1>2. best # {}
  BY <1>1
<1>3. PICK i \in best : \A j \in best : i <= j
  <2>1. best \in SUBSET Nat
    <3>1. 1..n \subseteq Nat
      OBVIOUS
    <3>. QED BY <3>1
  <2>. HIDE DEF best
  <2>. QED BY <1>2, <2>1, LeastNumber
<1>4. BestBranch(errors) \in best
  <2>1. BestBranch(errors) = CHOOSE x \in best : \A y \in best : x <= y
    BY DEF BestBranch, Min
  <2>. HIDE DEF best
  <2>. QED BY <1>3, <2>1
<1>. QED BY <1>4

\* What a choice adjusts is left of the payload.
LEMMA VariantFacts ==
    ASSUME NEW s \in Prepared, NEW k \in DOMAIN s \intersect Keywords, NEW p \in Payloads,
           NEW g, Adjusts(g, s)
    PROVE  /\ AdjustedVariant(g, s, p, k) \in Dropped(p, Excusable(s))
           /\ \A h : /\ \A r \in Prepared, q \in Payloads : Size[r] < Size[s] => g[<<r, q>>] = h[<<r, q>>]
                     => AdjustedVariant(g, s, p, k) = AdjustedVariant(h, s, p, k)
<1>. DEFINE D == DOMAIN s[k]
            merged == [i \in D |-> Merge(s, s[k][i], k)]
            fitted(h) == [i \in D |-> h[<<merged[i], p>>]]
            errors(h) == [i \in D |-> Errors[<<merged[i], fitted(h)[i]>>]]
<1>1. \A h : AdjustedVariant(h, s, p, k) = IF D = {} THEN p ELSE fitted(h)[BestBranch(errors(h))]
  BY DEF AdjustedVariant
<1>2. \A i \in D : /\ merged[i] = Merge(s, s[k][i], k)
                   /\ merged[i] \in Prepared /\ merged[i] \in Schemata /\ Size[merged[i]] < Size[s]
                   /\ Excusable(merged[i]) \subseteq Excusable(s)
  BY PreparedFacts, ExcusableMerge
<1>3. D = 1..Len(s[k]) /\ Len(s[k]) \in Nat
  <2>1. s \in Schemata
    BY PreparedFacts
  <2>. QED BY <2>1, BranchFacts
<1>. HIDE DEF merged, D
<1>4. ASSUME NEW i \in D PROVE fitted(g)[i] \in Dropped(p, Excusable(s)) /\ fitted(g)[i] \in Payloads
  <2>1. g[<<merged[i], p>>] \in Dropped(p, Excusable(merged[i]))
    BY <1>2 DEF Adjusts
  <2>2. g[<<merged[i], p>>] \in Dropped(p, Excusable(s))
    BY <1>2, <2>1, DroppedMore
  <2>. QED BY <2>2, DroppedKind
<1>5. ASSUME D # {} PROVE BestBranch(errors(g)) \in D
  <2>1. DOMAIN errors(g) = D
    OBVIOUS
  <2>2. \A i \in D : errors(g)[i] \in Nat
    <3>1. \A i \in D : errors(g)[i] = Errors[<<merged[i], fitted(g)[i]>>]
      OBVIOUS
    <3>. HIDE DEF errors, fitted
    <3>. QED BY <1>2, <1>4, <3>1, ErrorsNat
  <2>. HIDE DEF errors
  <2>. QED BY <1>3, <1>5, <2>1, <2>2, BestFacts
<1>6. AdjustedVariant(g, s, p, k) \in Dropped(p, Excusable(s))
  <2>1. p \in Dropped(p, Excusable(s))
    BY DroppedSelf
  <2>. HIDE DEF errors, fitted
  <2>. QED BY <1>1, <1>4, <1>5, <2>1
<1>7. ASSUME NEW h, \A r \in Prepared, q \in Payloads : Size[r] < Size[s] => g[<<r, q>>] = h[<<r, q>>]
      PROVE  AdjustedVariant(g, s, p, k) = AdjustedVariant(h, s, p, k)
  <2>1. \A i \in D : g[<<merged[i], p>>] = h[<<merged[i], p>>]
    BY <1>2, <1>7
  <2>2. fitted(g) = fitted(h)
    BY <2>1
  <2>3. errors(g) = errors(h)
    <3>1. \A i \in D : Errors[<<merged[i], fitted(g)[i]>>] = Errors[<<merged[i], fitted(h)[i]>>]
      BY <2>2
    <3>. HIDE DEF fitted
    <3>. QED BY <3>1
  <2>. HIDE DEF errors, fitted
  <2>. QED BY <1>1, <2>2, <2>3
<1>. QED BY <1>6, <1>7

\* So is what adjusting the members of an object does,
LEMMA MemberFacts ==
    ASSUME NEW s \in Prepared, NEW p \in Payloads, IsObject(p), NEW g, Adjusts(g, s)
    PROVE  /\ AdjustedMembers(g, s, p) \in Dropped(p, Excusable(s))
           /\ \A h : /\ \A r \in Prepared, q \in Payloads : Size[r] < Size[s] => g[<<r, q>>] = h[<<r, q>>]
                     => AdjustedMembers(g, s, p) = AdjustedMembers(h, s, p)
<1>. DEFINE declared == Field(s, "properties", << >>)
            kept == {k \in DOMAIN p.obj : k \in DOMAIN declared => ~Drops(k, p.obj[k], s)}
            f(h) == [k \in kept |->
                        IF k \in DOMAIN declared THEN h[<<declared[k], p.obj[k]>>] ELSE p.obj[k]]
<1>1. \A h : AdjustedMembers(h, s, p) = [obj |-> f(h)]
  BY DEF AdjustedMembers
<1>2. ASSUME NEW k \in DOMAIN declared
      PROVE  /\ Has(s, "properties") /\ declared[k] = s.properties[k] /\ k \in DOMAIN s.properties
             /\ declared[k] \in Prepared /\ Size[declared[k]] < Size[s]
             /\ Excusable(declared[k]) \subseteq Excusable(s)
  <2>1. Has(s, "properties") /\ declared[k] = s.properties[k] /\ k \in DOMAIN s.properties
    BY DEF Field
  <2>2. declared[k] \in Children(s) /\ s \in Schemata
    BY <2>1, ChildFacts, PreparedFacts
  <2>. HIDE DEF declared
  <2>. QED BY <2>1, <2>2, PreparedFacts, ExcusableChild
<1>3. ASSUME NEW k \in kept PROVE f(g)[k] \in Dropped(p.obj[k], Excusable(s))
  <2>1. p.obj[k] \in Payloads
    BY PayloadFacts
  <2>2. CASE k \in DOMAIN declared
    <3>1. g[<<declared[k], p.obj[k]>>] \in Dropped(p.obj[k], Excusable(declared[k]))
      BY <1>2, <2>1, <2>2 DEF Adjusts
    <3>2. g[<<declared[k], p.obj[k]>>] \in Dropped(p.obj[k], Excusable(s))
      <4>. HIDE DEF declared
      <4>. QED BY <1>2, <2>1, <2>2, <3>1, DroppedMore
    <3>. QED BY <2>2, <3>2
  <2>3. CASE k \notin DOMAIN declared
    BY <2>1, <2>3, DroppedSelf
  <2>. QED BY <2>2, <2>3
<1>4. ASSUME NEW k \in DOMAIN p.obj \ kept PROVE k \in Excusable(s) /\ p.obj[k] = Blank
  <2>1. k \in DOMAIN declared /\ Drops(k, p.obj[k], s)
    OBVIOUS
  <2>2. /\ p.obj[k] = Blank
        /\ Field(s.properties[k], "type", "none") = "string"
        /\ Has(s.properties[k], "enum") /\ "" \notin s.properties[k].enum
    BY <2>1 DEF Drops
  <2>3. NormalizeTypeName("string") = "string"
    BY DEF NormalizeTypeName
  <2>4. k \in OwnExcuses(s)
    BY <1>2, <2>1, <2>2, <2>3 DEF OwnExcuses, LacksBlank
  <2>5. s \in Parts[s]
    BY PreparedFacts, PartsType
  <2>. QED BY <1>2, <2>1, <2>2, <2>4, <2>5, ExcusableFacts
<1>5. AdjustedMembers(g, s, p) \in Dropped(p, Excusable(s))
  <2>1. DOMAIN f(g) = kept /\ f(g) = [k \in DOMAIN f(g) |-> f(g)[k]] /\ kept \subseteq DOMAIN p.obj
    OBVIOUS
  <2>. HIDE DEF f, kept
  <2>2. [obj |-> f(g)] \in Dropped(p, Excusable(s))
    BY <1>3, <1>4, <2>1, DroppedObject
  <2>. QED BY <1>1, <2>2
<1>6. ASSUME NEW h, \A r \in Prepared, q \in Payloads : Size[r] < Size[s] => g[<<r, q>>] = h[<<r, q>>]
      PROVE  AdjustedMembers(g, s, p) = AdjustedMembers(h, s, p)
  <2>1. ASSUME NEW k \in kept, k \in DOMAIN declared
        PROVE  g[<<declared[k], p.obj[k]>>] = h[<<declared[k], p.obj[k]>>]
    <3>1. p.obj[k] \in Payloads
      BY PayloadFacts
    <3>. HIDE DEF declared
    <3>. QED BY <1>2, <1>6, <2>1, <3>1
  <2>2. f(g) = f(h)
    <3>. HIDE DEF kept, declared
    <3>. QED BY <2>1
  <2>. HIDE DEF f
  <2>. QED BY <1>1, <2>2
<1>. QED BY <1>5, <1>6

\* and what adjusting the items of an array does.
LEMMA ItemFacts ==
    ASSUME NEW s \in Prepared, NEW p \in Payloads, IsArray(p), Has(s, "items"), NEW g, Adjusts(g, s)
    PROVE  /\ AdjustedItems(g, s, p) \in Dropped(p, Excusable(s))
           /\ \A h : /\ \A r \in Prepared, q \in Payloads : Size[r] < Size[s] => g[<<r, q>>] = h[<<r, q>>]
                     => AdjustedItems(g, s, p) = AdjustedItems(h, s, p)
<1>. DEFINE f(h) == [i \in DOMAIN p.arr |-> h[<<s.items, p.arr[i]>>]]
<1>1. \A h : AdjustedItems(h, s, p) = [arr |-> f(h)]
  BY DEF AdjustedItems
<1>2. /\ s.items \in Prepared /\ Size[s.items] < Size[s]
      /\ Excusable(s.items) \subseteq Excusable(s)
  <2>1. s.items \in Children(s) /\ s \in Schemata
    BY ChildFacts, PreparedFacts
  <2>. QED BY <2>1, PreparedFacts, ExcusableChild
<1>3. ASSUME NEW i \in DOMAIN p.arr PROVE f(g)[i] \in Dropped(p.arr[i], Excusable(s))
  <2>1. p.arr[i] \in Payloads
    BY PayloadFacts
  <2>2. g[<<s.items, p.arr[i]>>] \in Dropped(p.arr[i], Excusable(s.items))
    BY <1>2, <2>1 DEF Adjusts
  <2>3. g[<<s.items, p.arr[i]>>] \in Dropped(p.arr[i], Excusable(s))
    BY <1>2, <2>1, <2>2, DroppedMore
  <2>. QED BY <2>3
<1>4. AdjustedItems(g, s, p) \in Dropped(p, Excusable(s))
  <2>1. DOMAIN f(g) = DOMAIN p.arr /\ f(g) = [i \in DOMAIN f(g) |-> f(g)[i]]
    OBVIOUS
  <2>. HIDE DEF f
  <2>2. [arr |-> f(g)] \in Dropped(p, Excusable(s))
    BY <1>3, <2>1, DroppedArray
  <2>. QED BY <1>1, <2>2
<1>5. ASSUME NEW h, \A r \in Prepared, q \in Payloads : Size[r] < Size[s] => g[<<r, q>>] = h[<<r, q>>]
      PROVE  AdjustedItems(g, s, p) = AdjustedItems(h, s, p)
  <2>1. \A i \in DOMAIN p.arr : g[<<s.items, p.arr[i]>>] = h[<<s.items, p.arr[i]>>]
    BY <1>2, <1>5, PayloadFacts
  <2>2. f(g) = f(h)
    BY <2>1
  <2>. HIDE DEF f
  <2>. QED BY <1>1, <2>2
<1>. QED BY <1>4, <1>5

\* The same of the adjustment as a whole.
LEMMA AdjustedFacts ==
    ASSUME NEW s \in Prepared, NEW p \in Payloads, NEW g, Adjusts(g, s)
    PROVE  /\ Adjusted(g, s, p) \in Dropped(p, Excusable(s))
           /\ \A h : /\ Adjusts(h, s)
                     /\ \A r \in Prepared, q \in Payloads : Size[r] < Size[s] => g[<<r, q>>] = h[<<r, q>>]
                     => Adjusted(g, s, p) = Adjusted(h, s, p)
<1>. DEFINE keywords == DOMAIN s \intersect Keywords
            type == Field(s, "type", "none")
            Same(h) == /\ Adjusts(h, s)
                       /\ \A r \in Prepared, q \in Payloads :
                            Size[r] < Size[s] => g[<<r, q>>] = h[<<r, q>>]
            Holds == /\ Adjusted(g, s, p) \in Dropped(p, Excusable(s))
                     /\ \A h : Same(h) => Adjusted(g, s, p) = Adjusted(h, s, p)
<1>1. CASE "allOf" \in keywords
  <2>1. \A h : Adjusted(h, s, p) = AdjustedAllOf(h, s, p)
    BY <1>1 DEF Adjusted
  <2>2. Has(s, "allOf")
    BY <1>1 DEF Has
  <2>. QED BY <2>1, <2>2, AllOfFacts
<1>2. CASE "allOf" \notin keywords /\ "oneOf" \in keywords
  <2>1. \A h : Adjusted(h, s, p) = AdjustedVariant(h, s, p, "oneOf")
    BY <1>2 DEF Adjusted
  <2>. QED BY <1>2, <2>1, VariantFacts
<1>3. CASE keywords = {"anyOf"}
  <2>1. \A h : Adjusted(h, s, p) = AdjustedVariant(h, s, p, "anyOf")
    BY <1>3 DEF Adjusted
  <2>. QED BY <1>3, <2>1, VariantFacts
<1>4. CASE keywords = {} /\ type = "object" /\ IsObject(p)
  <2>1. \A h : Adjusted(h, s, p) = AdjustedMembers(h, s, p)
    <3>1. ~IsArray(p)
      BY <1>4 DEF IsArray, IsObject
    <3>. QED BY <1>4, <3>1 DEF Adjusted
  <2>. QED BY <1>4, <2>1, MemberFacts
<1>5. CASE keywords = {} /\ type = "array" /\ IsArray(p) /\ Has(s, "items")
  <2>1. \A h : Adjusted(h, s, p) = AdjustedItems(h, s, p)
    <3>1. ~IsObject(p)
      BY <1>5 DEF IsArray, IsObject
    <3>. QED BY <1>5, <3>1 DEF Adjusted
  <2>. QED BY <1>5, <2>1, ItemFacts
<1>6. CASE /\ ~("allOf" \in keywords)
           /\ ~("allOf" \notin keywords /\ "oneOf" \in keywords)
           /\ ~(keywords = {"anyOf"})
           /\ ~(keywords = {} /\ type = "object" /\ IsObject(p))
           /\ ~(keywords = {} /\ type = "array" /\ IsArray(p) /\ Has(s, "items"))
  <2>1. \A h : Adjusted(h, s, p) = p
    BY <1>6 DEF Adjusted
  <2>. QED BY <2>1, DroppedSelf
<1>. QED BY <1>1, <1>2, <1>3, <1>4, <1>5, <1>6

\* NormalizePayload is what its definition says, and what it makes of a payload is what is
\* left of it when some excusable members are dropped.
LEMMA NormalizePayloadUnfold ==
    ASSUME NEW s \in Prepared, NEW p \in Payloads
    PROVE  NormalizePayload[<<s, p>>] = Adjusted(NormalizePayload, s, p)
<1>. DEFINE S == Pairs(Prepared)
            V == [x \in S |-> Dropped(x[2], Excusable(x[1]))]
            rank == PairRank(Prepared)
            F == [g \in MappingsInto(S, V) |-> [x \in S |-> Adjusted(g, x[1], x[2])]]
<1>0. \A x \in S : x[1] \in Prepared /\ x[2] \in Payloads
  BY DEF Pairs
<1>1. ASSUME NEW g \in MappingsInto(S, V), NEW t PROVE Adjusts(g, t)
  <2>1. ASSUME NEW r \in Prepared, NEW q \in Payloads PROVE g[<<r, q>>] \in Dropped(q, Excusable(r))
    <3>1. <<r, q>> \in S
      BY DEF Pairs
    <3>2. g[<<r, q>>] \in V[<<r, q>>]
      <4>. HIDE DEF S, V
      <4>. QED BY <3>1 DEF MappingsInto
    <3>. QED BY <3>1, <3>2
  <2>. QED BY <2>1 DEF Adjusts
<1>2. ASSUME NEW g \in MappingsInto(S, V) PROVE F[g] \in MappingsInto(S, V)
  <2>1. ASSUME NEW x \in S PROVE F[g][x] \in V[x]
    <3>1. Adjusted(g, x[1], x[2]) \in Dropped(x[2], Excusable(x[1]))
      BY <1>0, <1>1, AdjustedFacts
    <3>. HIDE DEF S
    <3>. QED BY <3>1
  <2>2. F[g] = [x \in S |-> F[g][x]]
    OBVIOUS
  <2>. HIDE DEF F, S, V
  <2>. QED BY <2>1, <2>2 DEF MappingsInto
<1>3. ASSUME NEW g \in MappingsInto(S, V), NEW h \in MappingsInto(S, V), NEW x \in S,
             \A y \in S : rank[y] < rank[x] => g[y] = h[y]
      PROVE  F[g][x] = F[h][x]
  <2>1. ASSUME NEW r \in Prepared, NEW q \in Payloads, Size[r] < Size[x[1]]
        PROVE  g[<<r, q>>] = h[<<r, q>>]
    <3>1. <<r, q>> \in S
      BY DEF Pairs
    <3>2. rank[<<r, q>>] = Size[r] /\ rank[x] = Size[x[1]]
      BY <3>1 DEF PairRank
    <3>. QED BY <1>3, <2>1, <3>1, <3>2
  <2>2. Adjusted(g, x[1], x[2]) = Adjusted(h, x[1], x[2])
    <3>1. Adjusts(g, x[1]) /\ Adjusts(h, x[1])
      BY <1>1
    <3>. HIDE DEF S, V, rank
    <3>. QED BY <1>0, <2>1, <3>1, AdjustedFacts
  <2>. HIDE DEF S
  <2>. QED BY <2>2
<1>4. rank \in [S -> Nat]
  <2>1. \A x \in S : Size[x[1]] \in Nat
    BY <1>0, PreparedFacts, SchemaFacts
  <2>. QED BY <2>1 DEF PairRank
<1>5. Recursive(S, V, rank, F)
  <2>1. \A x \in S : V[x] # {}
    BY <1>0, DroppedSelf
  <2>2. F \in [MappingsInto(S, V) -> MappingsInto(S, V)]
    <3>. HIDE DEF V, S
    <3>. QED BY <1>2
  <2>. HIDE DEF S, V, F, rank
  <2>. QED BY <1>3, <1>4, <2>1, <2>2 DEF Recursive
<1>6. PICK f \in MappingsInto(S, V) : f = F[f]
  <2>. HIDE DEF S, V, F, rank
  <2>. QED BY <1>5, Recursion
<1>7. f = [x \in Prepared \X Payloads |-> Adjusted(f, x[1], x[2])]
  <2>. HIDE DEF V
  <2>. QED BY <1>6 DEF Pairs
<1>8. NormalizePayload = [x \in Prepared \X Payloads |-> Adjusted(NormalizePayload, x[1], x[2])]
  BY <1>7 DEF NormalizePayload
<1>. QED BY <1>8

LEMMA NormalizePayloadDrops ==
    ASSUME NEW s \in Prepared, NEW p \in Payloads
    PROVE  NormalizePayload[<<s, p>>] \in Dropped(p, Excusable(s))
<1>. DEFINE rank == [r \in Prepared |-> Size[r]]
            T == {r \in Prepared : \A q \in Payloads : NormalizePayload[<<r, q>>] \in Dropped(q, Excusable(r))}
<1>1. ASSUME NEW r \in Prepared, \A t \in Prepared : rank[t] < rank[r] => t \in T PROVE r \in T
  <2>1. Adjusts(NormalizePayload, r)
    BY <1>1 DEF Adjusts
  <2>2. \A q \in Payloads : Adjusted(NormalizePayload, r, q) \in Dropped(q, Excusable(r))
    BY <2>1, AdjustedFacts
  <2>. QED BY <2>2, NormalizePayloadUnfold
<1>2. rank \in [Prepared -> Nat]
  BY PreparedFacts, SchemaFacts
<1>. HIDE DEF T, rank
<1>3. Prepared \subseteq T
  BY <1>1, <1>2, RankInduction
<1>. QED BY <1>3 DEF T

--------------------------------------------------------------------------------

\* A schema that is reworked inside keeps its fields.
LEMMA InsideFacts ==
    ASSUME NEW g, NEW s
    PROVE  /\ DOMAIN Inside(g, s) = DOMAIN s
           /\ \A f \in DOMAIN s \intersect Keywords :
                Inside(g, s)[f] = [i \in DOMAIN s[f] |-> g[s[f][i]]]
           /\ Has(s, "properties") =>
                Inside(g, s)["properties"] = [n \in DOMAIN s.properties |-> g[s.properties[n]]]
           /\ Has(s, "items") => Inside(g, s)["items"] = g[s.items]
           /\ \A f \in DOMAIN s : f \notin Keywords \union {"properties", "items"} => Inside(g, s)[f] = s[f]
BY DEF Inside, Keywords, Has

LEMMA InsideChildren ==
    ASSUME NEW g, NEW s, NEW c \in Children(Inside(g, s))
    PROVE  \E b \in Children(s) : c = g[b]
<1>. DEFINE n == Inside(g, s)
<1>1. \/ \E f \in DOMAIN n \intersect Keywords : c \in Range(n[f])
      \/ c \in Range(Field(n, "properties", << >>))
      \/ Has(n, "items") /\ c = n.items
  <2>1. c \in Children(n)
    OBVIOUS
  <2>. HIDE DEF n
  <2>. QED BY <2>1 DEF Children
<1>2. /\ DOMAIN n = DOMAIN s
      /\ \A f \in DOMAIN s \intersect Keywords : n[f] = [i \in DOMAIN s[f] |-> g[s[f][i]]]
      /\ Has(s, "properties") => n["properties"] = [k \in DOMAIN s.properties |-> g[s.properties[k]]]
      /\ Has(s, "items") => n["items"] = g[s.items]
  BY InsideFacts
<1>. HIDE DEF n
<1>3. ASSUME NEW f \in DOMAIN n \intersect Keywords, c \in Range(n[f])
      PROVE  \E b \in Children(s) : c = g[b]
  <2>1. PICK i \in DOMAIN s[f] : c = g[s[f][i]]
    BY <1>2, <1>3 DEF Range
  <2>. QED BY <1>2, <2>1, ChildFacts
<1>4. ASSUME c \in Range(Field(n, "properties", << >>))
      PROVE  \E b \in Children(s) : c = g[b]
  <2>1. Has(s, "properties") /\ c \in Range(n["properties"])
    BY <1>2, <1>4 DEF Range, Field, Has
  <2>2. PICK k \in DOMAIN s.properties : c = g[s.properties[k]]
    BY <1>2, <2>1 DEF Range
  <2>. QED BY <2>1, <2>2, ChildFacts
<1>5. ASSUME Has(n, "items"), c = n.items
      PROVE  \E b \in Children(s) : c = g[b]
  BY <1>2, <1>5, ChildFacts DEF Has
<1>. QED BY <1>1, <1>3, <1>4, <1>5

\* A schema whose references are resolved has none left, in any of its parts.
LEMMA NoReferences ==
    ASSUME NEW s \in Schemata, Resolvable[s], ResolveSchema[s] \in Schemata,
           NEW n \in Parts[ResolveSchema[s]]
    PROVE  ~Has(n, "ref")
<1>. DEFINE T == {r \in Schemata : Resolvable[r] /\ ResolveSchema[r] \in Schemata =>
                    \A m \in Parts[ResolveSchema[r]] : ~Has(m, "ref")}
<1>1. ASSUME NEW r \in Schemata, \A t \in Schemata : SchemaRank[t] < SchemaRank[r] => t \in T,
             Resolvable[r], ResolveSchema[r] \in Schemata, NEW m \in Parts[ResolveSchema[r]]
      PROVE  ~Has(m, "ref")
  <2>1. CASE Has(r, "ref")
    <3>1. Resolvable[Deref(r)] /\ ResolveSchema[r] = ResolveSchema[Deref(r)]
      BY <1>1, <2>1, ResolvableUnfold, ResolveUnfold
    <3>2. Deref(r) \in T
      BY <1>1, <2>1, SchemaRankFacts
    <3>. QED BY <1>1, <3>1, <3>2
  <2>2. CASE ~Has(r, "ref")
    <3>1. ResolveSchema[r] = Inside(ResolveSchema, r) /\ \A c \in Children(r) : Resolvable[c]
      BY <1>1, <2>2, ResolvableUnfold, ResolveUnfold
    <3>2. ~Has(Inside(ResolveSchema, r), "ref")
      BY <2>2, InsideFacts DEF Has
    <3>3. CASE m # ResolveSchema[r]
      <4>1. PICK c \in Children(ResolveSchema[r]) : m \in Parts[c]
        BY <1>1, <3>3, PartsType
      <4>2. PICK b \in Children(r) : c = ResolveSchema[b]
        BY <3>1, <4>1, InsideChildren
      <4>3. b \in T /\ Resolvable[b] /\ c \in Schemata
        BY <1>1, <3>1, <4>1, <4>2, SchemaRankFacts
      <4>. QED BY <4>1, <4>2, <4>3
    <3>. QED BY <3>1, <3>2, <3>3
  <2>. QED BY <2>1, <2>2
<1>2. \A r \in Schemata : (\A t \in Schemata : SchemaRank[t] < SchemaRank[r] => t \in T) => r \in T
  BY <1>1
<1>. HIDE DEF T
<1>3. Schemata \subseteq T
  BY <1>2, SchemaRankFacts, RankInduction
<1>. QED BY <1>3 DEF T

\* What normalizing a schema makes of its fields.
LEMMA NormalizeFacts ==
    ASSUME NEW s \in Schemata
    PROVE  LET n == NormalizeSchema[s]
           IN  /\ DOMAIN n = DOMAIN s
               /\ \A f \in DOMAIN s \intersect Keywords :
                    n[f] = [i \in DOMAIN s[f] |-> NormalizeSchema[s[f][i]]]
               /\ Has(s, "items") => n["items"] = NormalizeSchema[s.items]
               /\ Has(s, "type") => n["type"] = NormalizeTypeName(s.type)
               /\ Has(s, "properties") =>
                    /\ DOMAIN n["properties"] = DOMAIN s.properties \union Field(s, "required", {})
                    /\ \A k \in DOMAIN s.properties : n["properties"][k] = NormalizeSchema[s.properties[k]]
                    /\ \A k \in Field(s, "required", {}) \ DOMAIN s.properties : n["properties"][k] = << >>
               /\ \A f \in {"enum", "required", "closed", "ref"} \intersect DOMAIN s : n[f] = s[f]
<1>. DEFINE m == Inside(NormalizeSchema, s)
            n == NormalizeSchema[s]
<1>1. n = Corrected(m)
  BY NormalizeUnfold
<1>2. /\ DOMAIN m = DOMAIN s
      /\ \A f \in DOMAIN s \intersect Keywords : m[f] = [i \in DOMAIN s[f] |-> NormalizeSchema[s[f][i]]]
      /\ Has(s, "properties") =>
            m["properties"] = [k \in DOMAIN s.properties |-> NormalizeSchema[s.properties[k]]]
      /\ Has(s, "items") => m["items"] = NormalizeSchema[s.items]
      /\ \A f \in DOMAIN s : f \notin Keywords \union {"properties", "items"} => m[f] = s[f]
  BY InsideFacts
<1>. HIDE DEF m, n
<1>3. DOMAIN n = DOMAIN s
  BY <1>1, <1>2 DEF Corrected
<1>4. \A f \in DOMAIN s \ {"type", "properties"} : n[f] = m[f]
  BY <1>1, <1>2 DEF Corrected
<1>5. Has(s, "type") => n["type"] = NormalizeTypeName(s.type)
  <2>1. Has(s, "type") => n["type"] = NormalizeTypeName(m.type)
    BY <1>1, <1>2 DEF Corrected, Has
  <2>2. Has(s, "type") => m["type"] = s["type"]
    BY <1>2 DEF Has, Keywords
  <2>. QED BY <2>1, <2>2
<1>6. ASSUME Has(s, "properties")
      PROVE  /\ DOMAIN n["properties"] = DOMAIN s.properties \union Field(s, "required", {})
             /\ \A k \in DOMAIN s.properties : n["properties"][k] = NormalizeSchema[s.properties[k]]
             /\ \A k \in Field(s, "required", {}) \ DOMAIN s.properties : n["properties"][k] = << >>
  <2>1. n["properties"] = Over(m.properties, [name \in Field(m, "required", {}) |-> << >>])
    BY <1>1, <1>2, <1>6 DEF Corrected, Has
  <2>2. Field(m, "required", {}) = Field(s, "required", {})
    BY <1>2 DEF Field, Has, Keywords
  <2>3. m.properties = [k \in DOMAIN s.properties |-> NormalizeSchema[s.properties[k]]]
    BY <1>2, <1>6
  <2>4. DOMAIN m.properties = DOMAIN s.properties
    BY <2>3
  <2>5. n["properties"] = [x \in DOMAIN s.properties \union Field(s, "required", {}) |->
            IF x \in DOMAIN s.properties THEN m.properties[x]
            ELSE [name \in Field(s, "required", {}) |-> << >>][x]]
    BY <2>1, <2>2, <2>4 DEF Over
  <2>. QED BY <2>3, <2>5
<1>7. \A f \in DOMAIN s \intersect Keywords : n[f] = [i \in DOMAIN s[f] |-> NormalizeSchema[s[f][i]]]
  <2>1. \A f \in DOMAIN s \intersect Keywords : n[f] = m[f]
    BY <1>4 DEF Keywords
  <2>. QED BY <1>2, <2>1
<1>8. Has(s, "items") => n["items"] = NormalizeSchema[s.items]
  BY <1>2, <1>4 DEF Has
<1>9. \A f \in {"enum", "required", "closed", "ref"} \intersect DOMAIN s : n[f] = s[f]
  BY <1>2, <1>4 DEF Keywords
<1>. QED BY <1>3, <1>5, <1>6, <1>7, <1>8, <1>9 DEF n

\* What is inside a normalized schema is normalized, or a name that was only required.
LEMMA NormalizedChildren ==
    ASSUME NEW s \in Schemata, NEW c \in Children(NormalizeSchema[s])
    PROVE  c = << >> \/ \E b \in Children(s) : c = NormalizeSchema[b]
<1>. DEFINE n == NormalizeSchema[s]
<1>1. \/ \E f \in DOMAIN n \intersect Keywords : c \in Range(n[f])
      \/ c \in Range(Field(n, "properties", << >>))
      \/ Has(n, "items") /\ c = n.items
  <2>1. c \in Children(n)
    OBVIOUS
  <2>. HIDE DEF n
  <2>. QED BY <2>1 DEF Children
<1>2. /\ DOMAIN n = DOMAIN s
      /\ \A f \in DOMAIN s \intersect Keywords :
            n[f] = [i \in DOMAIN s[f] |-> NormalizeSchema[s[f][i]]]
      /\ Has(s, "items") => n["items"] = NormalizeSchema[s.items]
      /\ Has(s, "properties") =>
            /\ DOMAIN n["properties"] = DOMAIN s.properties \union Field(s, "required", {})
            /\ \A k \in DOMAIN s.properties : n["properties"][k] = NormalizeSchema[s.properties[k]]
            /\ \A k \in Field(s, "required", {}) \ DOMAIN s.properties : n["properties"][k] = << >>
  BY NormalizeFacts
<1>. HIDE DEF n
<1>3. ASSUME NEW f \in DOMAIN n \intersect Keywords, c \in Range(n[f])
      PROVE  \E b \in Children(s) : c = NormalizeSchema[b]
  <2>1. PICK i \in DOMAIN s[f] : c = NormalizeSchema[s[f][i]]
    BY <1>2, <1>3 DEF Range
  <2>. QED BY <1>2, <2>1, ChildFacts
<1>4. ASSUME c \in Range(Field(n, "properties", << >>))
      PROVE  c = << >> \/ \E b \in Children(s) : c = NormalizeSchema[b]
  <2>1. Has(s, "properties") /\ c \in Range(n["properties"])
    BY <1>2, <1>4 DEF Range, Field, Has
  <2>2. PICK k \in DOMAIN n["properties"] : c = n["properties"][k]
    BY <2>1 DEF Range
  <2>. QED BY <1>2, <2>1, <2>2, ChildFacts
<1>5. ASSUME Has(n, "items"), c = n.items
      PROVE  \E b \in Children(s) : c = NormalizeSchema[b]
  BY <1>2, <1>5, ChildFacts DEF Has
<1>. QED BY <1>1, <1>3, <1>4, <1>5

\* Nothing is inside the empty schema.
LEMMA EmptySchema ==
    << >> \in Schemata /\ Children(<< >>) = {} /\ Parts[<< >>] = {<< >>} /\ DOMAIN << >> = {}
<1>1. << >> \in Schemata
  BY SchemaAssumption DEF SchemaAssumption
<1>2. DOMAIN << >> = {}
  OBVIOUS
<1>3. Children(<< >>) = {}
  BY <1>2 DEF Children, Field, Has, Range
<1>4. Parts[<< >>] = {<< >>}
  BY <1>1, <1>3, PartsType
<1>. QED BY <1>1, <1>2, <1>3, <1>4

JsonTypes == {"object", "array", "string", "integer", "number", "boolean", "null"}

\* The parts of a normalized schema have types that are known, and references only if what
\* was normalized has some.
LEMMA NormalizedParts ==
    ASSUME NEW s \in Schemata, NormalizeSchema[s] \in Schemata, \A m \in Parts[s] : ~Has(m, "ref"),
           NEW n \in Parts[NormalizeSchema[s]]
    PROVE  ~Has(n, "ref") /\ Field(n, "type", "null") \in JsonTypes
<1>. DEFINE Good(m) == ~Has(m, "ref") /\ Field(m, "type", "null") \in JsonTypes
            T == {r \in Schemata :
                    NormalizeSchema[r] \in Schemata /\ (\A m \in Parts[r] : ~Has(m, "ref"))
                        => \A m \in Parts[NormalizeSchema[r]] : Good(m)}
<1>1. ASSUME NEW r \in Schemata, \A t \in Schemata : SchemaRank[t] < SchemaRank[r] => t \in T,
             NormalizeSchema[r] \in Schemata, \A m \in Parts[r] : ~Has(m, "ref"),
             NEW m \in Parts[NormalizeSchema[r]]
      PROVE  Good(m)
  <2>1. CASE m = NormalizeSchema[r]
    <3>1. DOMAIN m = DOMAIN r /\ (Has(r, "type") => m["type"] = NormalizeTypeName(r.type))
      BY <2>1, NormalizeFacts
    <3>2. ~Has(r, "ref")
      BY <1>1, PartsType
    <3>3. Has(r, "type") => r["type"] \in Spellings
      BY SchemaFacts DEF Field
    <3>4. \A t \in Spellings : NormalizeTypeName(t) \in JsonTypes
      BY DEF Spellings, NormalizeTypeName, JsonTypes
    <3>5. Field(m, "type", "null") \in JsonTypes
      BY <3>1, <3>3, <3>4 DEF Field, Has, JsonTypes
    <3>. QED BY <3>1, <3>2, <3>5 DEF Has
  <2>2. CASE m # NormalizeSchema[r]
    <3>1. PICK c \in Children(NormalizeSchema[r]) : m \in Parts[c]
      BY <1>1, <2>2, PartsType
    <3>2. CASE c = << >>
      <4>1. m = << >>
        BY <3>1, <3>2, EmptySchema
      <4>. QED BY <4>1, EmptySchema DEF Has, Field, JsonTypes
    <3>3. CASE c # << >>
      <4>1. PICK b \in Children(r) : c = NormalizeSchema[b]
        BY <3>1, <3>3, NormalizedChildren
      <4>2. b \in T /\ c \in Schemata
        BY <1>1, <3>1, SchemaRankFacts
      <4>3. Parts[b] \subseteq Parts[r]
        BY PartsType
      <4>. HIDE DEF Good
      <4>. QED BY <1>1, <3>1, <4>1, <4>2, <4>3
    <3>. QED BY <3>2, <3>3
  <2>. QED BY <2>1, <2>2
<1>2. \A r \in Schemata : (\A t \in Schemata : SchemaRank[t] < SchemaRank[r] => t \in T) => r \in T
  BY <1>1
<1>. HIDE DEF T
<1>3. Schemata \subseteq T
  BY <1>2, SchemaRankFacts, RankInduction
<1>. QED BY <1>3 DEF T

\* Normalizing a schema excuses nothing more: a type that is known keeps its name.
LEMMA ExcusableNormalized ==
    ASSUME NEW s \in Schemata, NormalizeSchema[s] \in Schemata
    PROVE  Excusable(NormalizeSchema[s]) \subseteq Excusable(s)
<1>. DEFINE T == {r \in Schemata : NormalizeSchema[r] \in Schemata =>
                    Excusable(NormalizeSchema[r]) \subseteq Excusable(r)}
<1>1. ASSUME NEW r \in Schemata, \A t \in Schemata : SchemaRank[t] < SchemaRank[r] => t \in T,
             NormalizeSchema[r] \in Schemata, NEW name \in Excusable(NormalizeSchema[r])
      PROVE  name \in Excusable(r)
  <2>. DEFINE n == NormalizeSchema[r]
  <2>1. PICK m \in Parts[n] : Has(m, "properties") /\ name \in OwnExcuses(m)
    BY <1>1, ExcusableFacts
  <2>2. CASE m = n
    <3>1. /\ DOMAIN n = DOMAIN r
          /\ Has(r, "properties") =>
                /\ DOMAIN n["properties"] = DOMAIN r.properties \union Field(r, "required", {})
                /\ \A k \in DOMAIN r.properties : n["properties"][k] = NormalizeSchema[r.properties[k]]
                /\ \A k \in Field(r, "required", {}) \ DOMAIN r.properties : n["properties"][k] = << >>
      BY NormalizeFacts
    <3>. HIDE DEF n
    <3>2. Has(r, "properties") /\ name \in DOMAIN n["properties"]
      BY <2>1, <2>2, <3>1 DEF Has, OwnExcuses, LacksBlank
    <3>. DEFINE q == n["properties"][name]
    <3>3. /\ NormalizeTypeName(Field(q, "type", "none")) = "string"
          /\ Has(q, "enum") /\ "" \notin q.enum
      BY <2>1, <2>2 DEF OwnExcuses, LacksBlank
    <3>4. name \in DOMAIN r.properties
      <4>1. q # << >>
        BY <3>3, EmptySchema DEF Has
      <4>. QED BY <3>1, <3>2, <4>1
    <3>5. q = NormalizeSchema[r.properties[name]] /\ r.properties[name] \in Schemata
      BY <3>1, <3>2, <3>4, ChildFacts, SchemaFacts
    <3>. HIDE DEF q
    <3>. DEFINE b == r.properties[name]
    <3>6. /\ DOMAIN q = DOMAIN b
          /\ Has(b, "type") => q["type"] = NormalizeTypeName(b.type)
          /\ Has(b, "enum") => q["enum"] = b["enum"]
      BY <3>5, NormalizeFacts DEF Has
    <3>. HIDE DEF b
    <3>7. Has(b, "enum") /\ "" \notin b.enum
      BY <3>3, <3>6 DEF Has
    <3>8. NormalizeTypeName(Field(b, "type", "none")) = "string"
      BY <3>3, <3>6 DEF Has, Field, NormalizeTypeName
    <3>9. name \in OwnExcuses(r)
      BY <3>4, <3>7, <3>8 DEF OwnExcuses, LacksBlank, b
    <3>. QED BY <3>2, <3>9, PartsType, ExcusableFacts
  <2>3. CASE m # n
    <3>1. PICK c \in Children(n) : m \in Parts[c]
      <4>. HIDE DEF n
      <4>. QED BY <1>1, <2>1, <2>3, PartsType DEF n
    <3>2. name \in Excusable(c)
      BY <2>1, <3>1, ExcusableFacts
    <3>3. c # << >>
      <4>1. ASSUME c = << >> PROVE FALSE
        <5>1. m = << >>
          BY <3>1, <4>1, EmptySchema
        <5>. QED BY <2>1, <5>1, EmptySchema DEF Has
      <4>. QED BY <4>1
    <3>4. PICK b \in Children(r) : c = NormalizeSchema[b]
      BY <3>1, <3>3, NormalizedChildren
    <3>5. b \in T /\ c \in Schemata
      BY <1>1, <3>1, <3>4, SchemaRankFacts
    <3>. QED BY <3>2, <3>4, <3>5, ExcusableChild
  <2>. QED BY <2>2, <2>3
<1>2. \A r \in Schemata : (\A t \in Schemata : SchemaRank[t] < SchemaRank[r] => t \in T) => r \in T
  BY <1>1
<1>. HIDE DEF T
<1>3. Schemata \subseteq T
  BY <1>2, SchemaRankFacts, RankInduction
<1>. QED BY <1>3 DEF T

--------------------------------------------------------------------------------

\* What a schema means depends only on what is meant by what is inside it.
LEMMA MeantSame ==
    ASSUME NEW g, NEW h, NEW s \in Schemata, NEW p \in Payloads,
           \A c \in Children(s), q \in Payloads : g[<<c, q>>] = h[<<c, q>>]
    PROVE  Meant(g, s, p) = Meant(h, s, p)
<1>. DEFINE type == NormalizeTypeName(Field(s, "type", "none"))
            required == Field(s, "required", {})
            declared == Field(s, "properties", << >>)
            permitted == DOMAIN declared \union (IF Has(s, "properties") THEN required ELSE {})
            Body(m) ==
                /\ Has(s, "enum") => Text(p) \in s.enum
                /\ Has(s, "allOf") => \A b \in Range(s.allOf) : m[<<b, p>>]
                /\ Has(s, "oneOf") => \E b \in Range(s.oneOf) : m[<<b, p>>]
                /\ Has(s, "anyOf") => \E b \in Range(s.anyOf) : m[<<b, p>>]
                /\ DOMAIN p \subseteq KindOf(type)
                /\ type = "object" =>
                    /\ required \subseteq DOMAIN p.obj
                    /\ \A k \in DOMAIN declared \intersect DOMAIN p.obj : m[<<declared[k], p.obj[k]>>]
                    /\ Has(s, "closed") => DOMAIN p.obj \subseteq permitted
                /\ type = "array" /\ Has(s, "items") => \A v \in Range(p.arr) : m[<<s.items, v>>]
<1>1. \A m : Meant(m, s, p) = Body(m)
  BY DEF Meant
<1>2. ASSUME NEW k \in {"allOf", "oneOf", "anyOf"}, Has(s, k), NEW b \in Range(s[k])
      PROVE  g[<<b, p>>] = h[<<b, p>>]
  <2>1. b \in Children(s)
    BY <1>2, ChildFacts DEF Range, Has, Keywords
  <2>. QED BY <2>1
<1>3. ASSUME NEW kind \in {"object", "array"}, type = kind, DOMAIN p \subseteq KindOf(type)
      PROVE  (kind = "object" => IsObject(p)) /\ (kind = "array" => IsArray(p))
  <2>1. \E k \in Scalars \union {"obj", "arr"} : DOMAIN p = {k}
    BY PayloadFacts
  <2>. QED BY <1>3, <2>1 DEF KindOf, IsObject, IsArray
<1>4. ASSUME IsObject(p), NEW k \in DOMAIN declared \intersect DOMAIN p.obj
      PROVE  g[<<declared[k], p.obj[k]>>] = h[<<declared[k], p.obj[k]>>]
  <2>1. p.obj[k] \in Payloads /\ declared[k] \in Children(s)
    BY <1>4, PayloadFacts, ChildFacts DEF Field
  <2>. QED BY <2>1
<1>5. ASSUME IsArray(p), Has(s, "items"), NEW v \in Range(p.arr)
      PROVE  g[<<s.items, v>>] = h[<<s.items, v>>]
  <2>1. v \in Payloads /\ s.items \in Children(s)
    BY <1>5, PayloadFacts, ChildFacts DEF Range
  <2>. QED BY <2>1
<1>. HIDE DEF declared, permitted, required, type
<1>6. Body(g) = Body(h)
  <2>1. Has(s, "allOf") => ((\A b \in Range(s.allOf) : g[<<b, p>>]) = (\A b \in Range(s.allOf) : h[<<b, p>>]))
    BY <1>2
  <2>2. Has(s, "oneOf") => ((\E b \in Range(s.oneOf) : g[<<b, p>>]) = (\E b \in Range(s.oneOf) : h[<<b, p>>]))
    BY <1>2
  <2>3. Has(s, "anyOf") => ((\E b \in Range(s.anyOf) : g[<<b, p>>]) = (\E b \in Range(s.anyOf) : h[<<b, p>>]))
    BY <1>2
  <2>4. IsObject(p) =>
          ((\A k \in DOMAIN declared \intersect DOMAIN p.obj : g[<<declared[k], p.obj[k]>>])
            = (\A k \in DOMAIN declared \intersect DOMAIN p.obj : h[<<declared[k], p.obj[k]>>]))
    BY <1>4
  <2>5. IsArray(p) /\ Has(s, "items") =>
          ((\A v \in Range(p.arr) : g[<<s.items, v>>]) = (\A v \in Range(p.arr) : h[<<s.items, v>>]))
    BY <1>5
  <2>6. CASE ~(DOMAIN p \subseteq KindOf(type))
    BY <2>6
  <2>7. CASE DOMAIN p \subseteq KindOf(type)
    <3>1. (type = "object" => IsObject(p)) /\ (type = "array" => IsArray(p))
      BY <1>3, <2>7
    <3>. QED BY <2>1, <2>2, <2>3, <2>4, <2>5, <3>1
  <2>. QED BY <2>6, <2>7
<1>. HIDE DEF Body
<1>. QED BY <1>1, <1>6

\* Conforms is what its definition says.
LEMMA ConformsUnfold ==
    ASSUME NEW s \in Schemata, NEW p \in Payloads
    PROVE  Conforms[<<s, p>>] = Meant(Conforms, s, p)
<1>. DEFINE S == Pairs(Schemata)
            V == [x \in S |-> BOOLEAN]
            rank == PairRank(Schemata)
            F == [g \in MappingsInto(S, V) |-> [x \in S |-> Meant(g, x[1], x[2])]]
<1>0. \A x \in S : x[1] \in Schemata /\ x[2] \in Payloads
  BY DEF Pairs
<1>1. ASSUME NEW g \in MappingsInto(S, V) PROVE F[g] \in MappingsInto(S, V)
  <2>1. ASSUME NEW x \in S PROVE F[g][x] \in BOOLEAN
    <3>. HIDE DEF S
    <3>. QED BY DEF Meant
  <2>2. F[g] = [x \in S |-> F[g][x]]
    OBVIOUS
  <2>. HIDE DEF F, S
  <2>. QED BY <2>1, <2>2 DEF MappingsInto
<1>2. ASSUME NEW g \in MappingsInto(S, V), NEW h \in MappingsInto(S, V), NEW x \in S,
             \A y \in S : rank[y] < rank[x] => g[y] = h[y]
      PROVE  F[g][x] = F[h][x]
  <2>1. ASSUME NEW c \in Children(x[1]), NEW q \in Payloads PROVE g[<<c, q>>] = h[<<c, q>>]
    <3>1. c \in Schemata /\ Size[c] < Size[x[1]]
      BY <1>0, SchemaFacts
    <3>2. <<c, q>> \in S
      BY <3>1 DEF Pairs
    <3>3. rank[<<c, q>>] = Size[c] /\ rank[x] = Size[x[1]]
      BY <3>2 DEF PairRank
    <3>. QED BY <1>2, <3>1, <3>2, <3>3
  <2>2. Meant(g, x[1], x[2]) = Meant(h, x[1], x[2])
    <3>. HIDE DEF S, V, rank
    <3>. QED BY <1>0, <2>1, MeantSame
  <2>. HIDE DEF S
  <2>. QED BY <2>2
<1>3. rank \in [S -> Nat]
  <2>1. \A x \in S : Size[x[1]] \in Nat
    BY <1>0, SchemaFacts
  <2>. QED BY <2>1 DEF PairRank
<1>4. Recursive(S, V, rank, F)
  <2>1. \A x \in S : V[x] # {}
    OBVIOUS
  <2>2. F \in [MappingsInto(S, V) -> MappingsInto(S, V)]
    <3>. HIDE DEF V, S
    <3>. QED BY <1>1
  <2>. HIDE DEF S, V, F, rank
  <2>. QED BY <1>2, <1>3, <2>1, <2>2 DEF Recursive
<1>5. PICK f \in MappingsInto(S, V) : f = F[f]
  <2>. HIDE DEF S, V, F, rank
  <2>. QED BY <1>4, Recursion
<1>6. f = [x \in Schemata \X Payloads |-> Meant(f, x[1], x[2])]
  <2>. HIDE DEF V
  <2>. QED BY <1>5 DEF Pairs
<1>7. Conforms = [x \in Schemata \X Payloads |-> Meant(Conforms, x[1], x[2])]
  BY <1>6 DEF Conforms
<1>. QED BY <1>7

\* A payload without errors is without errors in every respect.
LEMMA NoErrors ==
    ASSUME NEW s \in Schemata, NEW p \in Payloads, Errors[<<s, p>>] = 0
    PROVE  /\ Has(s, "enum") => Text(p) \in s.enum
           /\ Has(s, "allOf") => \A i \in DOMAIN s.allOf : Errors[<<s.allOf[i], p>>] = 0
           /\ \A k \in DOMAIN s \intersect {"oneOf", "anyOf"} :
                \E i \in DOMAIN s[k] : Errors[<<s[k][i], p>>] = 0
           /\ TypeErrors(Errors, s, p) = 0
<1>1. ErrorsOf(Errors, s, p) = 0
  BY ErrorsUnfold
<1>2. \A c \in Children(s), q \in Payloads : c \in Schemata /\ Errors[<<c, q>>] \in Nat
  BY SchemaFacts, ErrorsNat
<1>3. Has(s, "enum") => Text(p) \in s.enum
  BY <1>1 DEF ErrorsOf
<1>4. /\ BranchErrors(Errors, s, p) = 0
      /\ Cardinality(Unmatched(Errors, s, p)) = 0
      /\ TypeErrors(Errors, s, p) = 0
  <2>1. /\ BranchErrors(Errors, s, p) \in Nat
        /\ Cardinality(Unmatched(Errors, s, p)) \in Nat
        /\ TypeErrors(Errors, s, p) \in Nat
    BY <1>2, ErrorsOfNat
  <2>2. BranchErrors(Errors, s, p) + Cardinality(Unmatched(Errors, s, p)) + TypeErrors(Errors, s, p) = 0
    BY <1>1, <1>3 DEF ErrorsOf
  <2>. QED BY <2>1, <2>2
<1>5. ASSUME Has(s, "allOf"), NEW i \in DOMAIN s.allOf PROVE Errors[<<s.allOf[i], p>>] = 0
  <2>. DEFINE f == [j \in DOMAIN s.allOf |-> Errors[<<s.allOf[j], p>>]]
  <2>1. Field(s, "allOf", << >>) = s.allOf /\ "allOf" \in DOMAIN s \intersect Keywords
    BY <1>5 DEF Field, Has, Keywords
  <2>2. SumFunction(f) = 0
    BY <1>4, <2>1 DEF BranchErrors
  <2>3. IsFiniteSet(DOMAIN f) /\ \A j \in DOMAIN f : f[j] \in Nat
    BY <1>2, <2>1, BranchFacts, ChildFacts
  <2>4. \A j \in DOMAIN f : f[j] = 0
    <3>. HIDE DEF f
    <3>. QED BY <2>2, <2>3, SumFacts
  <2>. QED BY <2>4
<1>6. ASSUME NEW k \in DOMAIN s \intersect {"oneOf", "anyOf"}
      PROVE  \E i \in DOMAIN s[k] : Errors[<<s[k][i], p>>] = 0
  <2>1. Unmatched(Errors, s, p) = {}
    <3>1. IsFiniteSet(Unmatched(Errors, s, p))
      BY <1>2, ErrorsOfNat
    <3>. QED BY <1>4, <3>1, FS_EmptySet
  <2>2. PICK i \in DOMAIN s[k] : ~(Errors[<<s[k][i], p>>] > 0)
    BY <2>1 DEF Unmatched
  <2>3. Errors[<<s[k][i], p>>] \in Nat
    BY <1>2, ChildFacts DEF Keywords
  <2>. QED BY <2>2, <2>3
<1>. QED BY <1>3, <1>4, <1>5, <1>6

\* Nor is there an error in its type, in its members or in its items.
LEMMA NoTypeErrors ==
    ASSUME NEW s \in Schemata, NEW p \in Payloads, TypeErrors(Errors, s, p) = 0
    PROVE  LET type == Field(s, "type", "none")
               declared == Field(s, "properties", << >>)
           IN  /\ DOMAIN p \subseteq KindOf(type)
               /\ type = "object" =>
                    /\ IsObject(p) /\ Field(s, "required", {}) \subseteq DOMAIN p.obj
                    /\ \A k \in DOMAIN declared \intersect DOMAIN p.obj :
                        p.obj[k] \in Payloads /\ Errors[<<declared[k], p.obj[k]>>] = 0
                    /\ Has(s, "closed") => DOMAIN p.obj \subseteq DOMAIN declared
               /\ type = "array" /\ Has(s, "items") =>
                    /\ IsArray(p)
                    /\ \A i \in DOMAIN p.arr :
                        p.arr[i] \in Payloads /\ Errors[<<s.items, p.arr[i]>>] = 0
<1>. DEFINE type == Field(s, "type", "none")
            declared == Field(s, "properties", << >>)
<1>1. DOMAIN p \subseteq KindOf(type)
  <2>1. ~(DOMAIN p \subseteq KindOf(type)) => TypeErrors(Errors, s, p) = 1
    BY DEF TypeErrors, KindOf, IsObject, IsArray
  <2>. QED BY <2>1
<1>2. \E k \in Scalars \union {"obj", "arr"} : DOMAIN p = {k}
  BY PayloadFacts
<1>3. \A c \in Children(s), q \in Payloads : Errors[<<c, q>>] \in Nat
  BY SchemaFacts, ErrorsNat
<1>4. ASSUME type = "object"
      PROVE  /\ IsObject(p) /\ Field(s, "required", {}) \subseteq DOMAIN p.obj
             /\ \A k \in DOMAIN declared \intersect DOMAIN p.obj :
                    p.obj[k] \in Payloads /\ Errors[<<declared[k], p.obj[k]>>] = 0
             /\ Has(s, "closed") => DOMAIN p.obj \subseteq DOMAIN declared
  <2>. DEFINE missing == Field(s, "required", {}) \ DOMAIN p.obj
              f == [k \in DOMAIN p.obj |->
                        IF k \in DOMAIN declared THEN Errors[<<declared[k], p.obj[k]>>]
                        ELSE IF Has(s, "closed") THEN 1 ELSE 0]
  <2>1. IsObject(p)
    BY <1>1, <1>2, <1>4 DEF KindOf, IsObject
  <2>2. MemberErrors(Errors, s, p) = 0
    BY <1>1, <1>4, <2>1 DEF TypeErrors
  <2>3. Cardinality(missing) + SumFunction(f) = 0
    BY <2>2 DEF MemberErrors
  <2>4. \A k \in DOMAIN p.obj : p.obj[k] \in Payloads
    BY <2>1, PayloadFacts
  <2>5. \A k \in DOMAIN declared : declared[k] \in Children(s)
    BY ChildFacts DEF Field
  <2>6. IsFiniteSet(missing) /\ Cardinality(missing) \in Nat
    <3>1. IsFiniteSet(missing)
      BY SchemaFacts, FS_Subset
    <3>. QED BY <3>1, FS_CardinalityType
  <2>7. IsFiniteSet(DOMAIN f) /\ \A k \in DOMAIN f : f[k] \in Nat
    <3>1. ASSUME NEW k \in DOMAIN p.obj PROVE f[k] \in Nat
      <4>. HIDE DEF declared
      <4>. QED BY <1>3, <2>4, <2>5
    <3>. QED BY <2>1, <3>1, PayloadFacts
  <2>. HIDE DEF f, missing
  <2>8. SumFunction(f) \in Nat /\ (SumFunction(f) = 0 <=> \A k \in DOMAIN f : f[k] = 0)
    BY <2>7, SumFacts
  <2>9. Cardinality(missing) = 0 /\ SumFunction(f) = 0
    BY <2>3, <2>6, <2>8
  <2>10. missing = {}
    BY <2>6, <2>9, FS_EmptySet
  <2>11. \A k \in DOMAIN p.obj :
            (IF k \in DOMAIN declared THEN Errors[<<declared[k], p.obj[k]>>]
             ELSE IF Has(s, "closed") THEN 1 ELSE 0) = 0
    BY <2>8, <2>9 DEF f
  <2>. HIDE DEF declared
  <2>12. \A k \in DOMAIN declared \intersect DOMAIN p.obj : Errors[<<declared[k], p.obj[k]>>] = 0
    BY <2>11
  <2>13. Has(s, "closed") => \A k \in DOMAIN p.obj : k \in DOMAIN declared
    <3>1. ASSUME Has(s, "closed"), NEW k \in DOMAIN p.obj, k \notin DOMAIN declared PROVE FALSE
      <4>1. (IF Has(s, "closed") THEN 1 ELSE 0) = 0
        BY <2>11, <3>1
      <4>. QED BY <3>1, <4>1
    <3>. QED BY <3>1
  <2>. QED BY <2>1, <2>4, <2>10, <2>12, <2>13 DEF missing
<1>5. ASSUME type = "array", Has(s, "items")
      PROVE  /\ IsArray(p)
             /\ \A i \in DOMAIN p.arr : p.arr[i] \in Payloads /\ Errors[<<s.items, p.arr[i]>>] = 0
  <2>. DEFINE f == [i \in DOMAIN p.arr |-> Errors[<<s.items, p.arr[i]>>]]
  <2>1. IsArray(p)
    BY <1>1, <1>2, <1>5 DEF KindOf, IsArray
  <2>2. ItemErrors(Errors, s, p) = 0
    BY <1>1, <1>5, <2>1 DEF TypeErrors
  <2>3. SumFunction(f) = 0
    BY <2>2 DEF ItemErrors
  <2>4. \A i \in DOMAIN p.arr : p.arr[i] \in Payloads
    BY <2>1, PayloadFacts
  <2>5. IsFiniteSet(DOMAIN f) /\ \A i \in DOMAIN f : f[i] \in Nat
    BY <1>3, <1>5, <2>1, <2>4, PayloadFacts, ChildFacts
  <2>6. \A i \in DOMAIN f : f[i] = 0
    <3>. HIDE DEF f
    <3>. QED BY <2>3, <2>5, SumFacts
  <2>. QED BY <2>1, <2>4, <2>6
<1>. QED BY <1>1, <1>4, <1>5

\* And a payload that is without errors in every respect has none.
LEMMA ErrorFree ==
    ASSUME NEW s \in Schemata, NEW p \in Payloads,
           Has(s, "enum") => Text(p) \in s.enum,
           Has(s, "allOf") => \A i \in DOMAIN s.allOf : Errors[<<s.allOf[i], p>>] = 0,
           \A k \in DOMAIN s \intersect {"oneOf", "anyOf"} :
                \E i \in DOMAIN s[k] : Errors[<<s[k][i], p>>] = 0,
           TypeErrors(Errors, s, p) = 0
    PROVE  Errors[<<s, p>>] = 0
<1>1. BranchErrors(Errors, s, p) = 0
  <2>. DEFINE f == [i \in DOMAIN Field(s, "allOf", << >>) |-> Errors[<<s.allOf[i], p>>]]
  <2>1. \A i \in DOMAIN f : f[i] = 0
    BY EmptySchema DEF Field
  <2>2. IsFiniteSet(DOMAIN f)
    <3>1. CASE Has(s, "allOf")
      BY <3>1, BranchFacts DEF Field, Has, Keywords
    <3>2. CASE ~Has(s, "allOf")
      BY <3>2, FS_EmptySet, EmptySchema DEF Field
    <3>. QED BY <3>1, <3>2
  <2>. HIDE DEF f
  <2>3. SumFunction(f) = 0
    BY <2>1, <2>2, SumFacts
  <2>. QED BY <2>3 DEF BranchErrors, f
<1>2. Cardinality(Unmatched(Errors, s, p)) = 0
  <2>1. Unmatched(Errors, s, p) = {}
    <3>1. ASSUME NEW k \in Unmatched(Errors, s, p) PROVE FALSE
      <4>1. k \in DOMAIN s \intersect {"oneOf", "anyOf"} /\ \A i \in DOMAIN s[k] : Errors[<<s[k][i], p>>] > 0
        BY DEF Unmatched
      <4>2. PICK i \in DOMAIN s[k] : Errors[<<s[k][i], p>>] = 0
        BY <4>1
      <4>. QED BY <4>1, <4>2
    <3>. QED BY <3>1
  <2>. QED BY <2>1, FS_EmptySet
<1>3. ErrorsOf(Errors, s, p) = 0
  BY <1>1, <1>2 DEF ErrorsOf
<1>. QED BY <1>3, ErrorsUnfold

LEMMA TypeErrorFree ==
    ASSUME NEW s \in Schemata, NEW p \in Payloads,
           DOMAIN p \subseteq KindOf(Field(s, "type", "none")),
           Field(s, "type", "none") = "object" =>
                /\ Field(s, "required", {}) \subseteq DOMAIN p.obj
                /\ \A k \in DOMAIN Field(s, "properties", << >>) \intersect DOMAIN p.obj :
                    Errors[<<Field(s, "properties", << >>)[k], p.obj[k]>>] = 0
                /\ Has(s, "closed") => DOMAIN p.obj \subseteq DOMAIN Field(s, "properties", << >>),
           Field(s, "type", "none") = "array" /\ Has(s, "items") =>
                \A i \in DOMAIN p.arr : Errors[<<s.items, p.arr[i]>>] = 0
    PROVE  TypeErrors(Errors, s, p) = 0
<1>. DEFINE type == Field(s, "type", "none")
            declared == Field(s, "properties", << >>)
<1>1. ASSUME type = "object", IsObject(p) PROVE MemberErrors(Errors, s, p) = 0
  <2>. DEFINE f == [k \in DOMAIN p.obj |->
                        IF k \in DOMAIN declared THEN Errors[<<declared[k], p.obj[k]>>]
                        ELSE IF Has(s, "closed") THEN 1 ELSE 0]
  <2>1. Field(s, "required", {}) \ DOMAIN p.obj = {}
    BY <1>1
  <2>2. \A k \in DOMAIN f : f[k] = 0
    BY <1>1
  <2>3. IsFiniteSet(DOMAIN f)
    BY <1>1, PayloadFacts
  <2>. HIDE DEF f
  <2>4. SumFunction(f) = 0
    BY <2>2, <2>3, SumFacts
  <2>5. MemberErrors(Errors, s, p) = Cardinality({}) + 0
    BY <2>1, <2>4 DEF MemberErrors, f
  <2>. QED BY <2>5, FS_EmptySet
<1>2. ASSUME type = "array", IsArray(p), Has(s, "items") PROVE ItemErrors(Errors, s, p) = 0
  <2>. DEFINE f == [i \in DOMAIN p.arr |-> Errors[<<s.items, p.arr[i]>>]]
  <2>1. IsFiniteSet(DOMAIN f) /\ \A i \in DOMAIN f : f[i] = 0
    BY <1>2, PayloadFacts
  <2>. HIDE DEF f
  <2>2. SumFunction(f) = 0
    BY <2>1, SumFacts
  <2>. QED BY <2>2 DEF ItemErrors, f
<1>. QED BY <1>1, <1>2 DEF TypeErrors

\* Normalizing a schema normalizes what is inside.
LEMMA ChildNormalized ==
    ASSUME NEW s \in Schemata, NEW c \in Children(s)
    PROVE  NormalizeSchema[c] \in Children(NormalizeSchema[s])
<1>. DEFINE n == NormalizeSchema[s]
<1>1. /\ DOMAIN n = DOMAIN s
      /\ \A f \in DOMAIN s \intersect Keywords : n[f] = [i \in DOMAIN s[f] |-> NormalizeSchema[s[f][i]]]
      /\ Has(s, "items") => n["items"] = NormalizeSchema[s.items]
      /\ Has(s, "properties") =>
            /\ DOMAIN n["properties"] = DOMAIN s.properties \union Field(s, "required", {})
            /\ \A k \in DOMAIN s.properties : n["properties"][k] = NormalizeSchema[s.properties[k]]
  BY NormalizeFacts
<1>. HIDE DEF n
<1>2. ASSUME NEW f \in DOMAIN s \intersect Keywords, c \in Range(s[f])
      PROVE  NormalizeSchema[c] \in Children(n)
  <2>1. PICK i \in DOMAIN s[f] : c = s[f][i]
    BY <1>2 DEF Range
  <2>2. f \in DOMAIN n \intersect Keywords /\ i \in DOMAIN n[f] /\ n[f][i] = NormalizeSchema[c]
    BY <1>1, <2>1
  <2>. QED BY <2>2, ChildFacts
<1>3. ASSUME c \in Range(Field(s, "properties", << >>))
      PROVE  NormalizeSchema[c] \in Children(n)
  <2>1. PICK k \in DOMAIN Field(s, "properties", << >>) : c = Field(s, "properties", << >>)[k]
    BY <1>3 DEF Range
  <2>2. Has(s, "properties") /\ k \in DOMAIN s.properties /\ c = s.properties[k]
    BY <2>1 DEF Field
  <2>3. Has(n, "properties") /\ k \in DOMAIN n.properties /\ n.properties[k] = NormalizeSchema[c]
    BY <1>1, <2>2 DEF Has
  <2>. QED BY <2>3, ChildFacts
<1>4. ASSUME Has(s, "items"), c = s.items PROVE NormalizeSchema[c] \in Children(n)
  <2>1. Has(n, "items") /\ n.items = NormalizeSchema[c]
    BY <1>1, <1>4 DEF Has
  <2>. QED BY <2>1, ChildFacts
<1>5. \/ \E f \in DOMAIN s \intersect Keywords : c \in Range(s[f])
      \/ c \in Range(Field(s, "properties", << >>))
      \/ Has(s, "items") /\ c = s.items
  BY DEF Children
<1>. QED BY <1>2, <1>3, <1>4, <1>5 DEF n

\* What the normalized schema finds nothing wrong with.
Valid == [x \in Schemata \X Payloads |-> Errors[<<NormalizeSchema[x[1]], x[2]>>] = 0]

\* To validate against the normalized schema is what the schema means.
LEMMA ValidMeans ==
    ASSUME NEW r \in Schemata, NormalizeSchema[r] \in Schemata, NEW q \in Payloads
    PROVE  Valid[<<r, q>>] <=> Meant(Valid, r, q)
<1>. DEFINE n == NormalizeSchema[r]
            type == NormalizeTypeName(Field(r, "type", "none"))
            required == Field(r, "required", {})
            declared == Field(r, "properties", << >>)
            members == Field(n, "properties", << >>)
            permitted == DOMAIN declared \union (IF Has(r, "properties") THEN required ELSE {})
<1>1. /\ DOMAIN n = DOMAIN r
      /\ \A f \in DOMAIN r \intersect Keywords : n[f] = [i \in DOMAIN r[f] |-> NormalizeSchema[r[f][i]]]
      /\ Has(r, "items") => n["items"] = NormalizeSchema[r.items]
      /\ Has(r, "type") => n["type"] = NormalizeTypeName(r.type)
      /\ Has(r, "properties") =>
            /\ DOMAIN n["properties"] = DOMAIN r.properties \union Field(r, "required", {})
            /\ \A k \in DOMAIN r.properties : n["properties"][k] = NormalizeSchema[r.properties[k]]
            /\ \A k \in Field(r, "required", {}) \ DOMAIN r.properties : n["properties"][k] = << >>
      /\ \A f \in {"enum", "required", "closed", "ref"} \intersect DOMAIN r : n[f] = r[f]
  BY NormalizeFacts
<1>2. n \in Schemata /\ \A f : Has(n, f) <=> Has(r, f)
  BY <1>1 DEF Has
<1>3. Valid[<<r, q>>] <=> Errors[<<n, q>>] = 0
  BY DEF Valid
<1>4. \A c \in Children(r), v \in Payloads : Valid[<<c, v>>] <=> Errors[<<NormalizeSchema[c], v>>] = 0
  BY SchemaFacts DEF Valid
<1>. HIDE DEF n
<1>5. Field(n, "type", "none") = type
  <2>1. NormalizeTypeName("none") = "none"
    BY DEF NormalizeTypeName
  <2>. QED BY <1>1, <2>1 DEF Field, Has
<1>6. Field(n, "required", {}) = required
  BY <1>1 DEF Field, Has
<1>7. DOMAIN members = permitted
  BY <1>1, EmptySchema DEF Field, Has
<1>8. \A k \in DOMAIN declared : k \in DOMAIN members /\ members[k] = NormalizeSchema[declared[k]]
                                 /\ declared[k] \in Children(r)
  <2>1. ASSUME NEW k \in DOMAIN declared
        PROVE  Has(r, "properties") /\ declared = r.properties
    BY EmptySchema DEF Field
  <2>2. Has(r, "properties") => members = n["properties"]
    BY <1>1 DEF Has, Field
  <2>. QED BY <1>1, <2>1, <2>2, ChildFacts
<1>9. ASSUME NEW k \in DOMAIN members, k \notin DOMAIN declared, NEW v \in Payloads
      PROVE  Errors[<<members[k], v>>] = 0
  <2>1. Has(r, "properties") /\ declared = r.properties
    BY <1>2, <1>9, EmptySchema DEF Field
  <2>2. members[k] = << >>
    BY <1>1, <1>9, <2>1 DEF Has, Field
  <2>3. ~Has(<< >>, "enum") /\ ~Has(<< >>, "allOf") /\ Field(<< >>, "type", "none") = "none"
    BY EmptySchema DEF Has, Field
  <2>4. DOMAIN v \subseteq KindOf("none")
    <3>1. KindOf("none") = Scalars \union {"obj", "arr"}
      BY DEF KindOf
    <3>. QED BY <3>1, PayloadFacts
  <2>5. TypeErrors(Errors, << >>, v) = 0
    BY <2>3, <2>4, EmptySchema, TypeErrorFree
  <2>. QED BY <2>2, <2>3, <2>5, EmptySchema, ErrorFree
<1>10. (Has(n, "enum") => Text(q) \in n.enum) <=> (Has(r, "enum") => Text(q) \in r.enum)
  BY <1>1 DEF Has
<1>11. \A k \in DOMAIN r \intersect Keywords : \A i \in DOMAIN r[k] :
            DOMAIN n[k] = DOMAIN r[k] /\ (Valid[<<r[k][i], q>>] <=> Errors[<<n[k][i], q>>] = 0)
  BY <1>1, <1>4, ChildFacts
<1>12. (Has(n, "allOf") => \A i \in DOMAIN n.allOf : Errors[<<n.allOf[i], q>>] = 0)
        <=> (Has(r, "allOf") => \A b \in Range(r.allOf) : Valid[<<b, q>>])
  <2>1. CASE Has(r, "allOf")
    <3>1. "allOf" \in DOMAIN r \intersect Keywords
      BY <2>1 DEF Has, Keywords
    <3>2. /\ DOMAIN n.allOf = DOMAIN r.allOf
          /\ \A i \in DOMAIN r.allOf : Valid[<<r.allOf[i], q>>] <=> Errors[<<n.allOf[i], q>>] = 0
      BY <1>1, <1>11, <3>1
    <3>3. (\A b \in Range(r.allOf) : Valid[<<b, q>>]) <=> \A i \in DOMAIN r.allOf : Valid[<<r.allOf[i], q>>]
      BY DEF Range
    <3>. QED BY <1>2, <2>1, <3>2, <3>3
  <2>. QED BY <1>2, <2>1
<1>13. \A k \in {"oneOf", "anyOf"} :
            (Has(n, k) => \E i \in DOMAIN n[k] : Errors[<<n[k][i], q>>] = 0)
              <=> (Has(r, k) => \E b \in Range(r[k]) : Valid[<<b, q>>])
  <2>1. ASSUME NEW k \in {"oneOf", "anyOf"}, Has(r, k)
        PROVE  (\E i \in DOMAIN n[k] : Errors[<<n[k][i], q>>] = 0) <=> \E b \in Range(r[k]) : Valid[<<b, q>>]
    <3>1. k \in DOMAIN r \intersect Keywords
      BY <2>1 DEF Has, Keywords
    <3>2. /\ DOMAIN n[k] = DOMAIN r[k]
          /\ \A i \in DOMAIN r[k] : Valid[<<r[k][i], q>>] <=> Errors[<<n[k][i], q>>] = 0
      BY <1>1, <1>11, <3>1
    <3>3. (\E b \in Range(r[k]) : Valid[<<b, q>>]) <=> \E i \in DOMAIN r[k] : Valid[<<r[k][i], q>>]
      BY DEF Range
    <3>. QED BY <3>2, <3>3
  <2>. QED BY <1>2, <2>1
<1>14. ASSUME DOMAIN q \subseteq KindOf(type)
       PROVE  (type = "object" => IsObject(q)) /\ (type = "array" => IsArray(q))
  <2>1. \E k \in Scalars \union {"obj", "arr"} : DOMAIN q = {k}
    BY PayloadFacts
  <2>. QED BY <1>14, <2>1 DEF KindOf, IsObject, IsArray
<1>15. ASSUME IsObject(q)
       PROVE  (\A k \in DOMAIN members \intersect DOMAIN q.obj : Errors[<<members[k], q.obj[k]>>] = 0)
                <=> \A k \in DOMAIN declared \intersect DOMAIN q.obj : Valid[<<declared[k], q.obj[k]>>]
  <2>1. \A k \in DOMAIN q.obj : q.obj[k] \in Payloads
    BY <1>15, PayloadFacts
  <2>. HIDE DEF members, declared
  <2>2. \A k \in DOMAIN declared \intersect DOMAIN q.obj :
            /\ k \in DOMAIN members
            /\ Valid[<<declared[k], q.obj[k]>>] <=> Errors[<<members[k], q.obj[k]>>] = 0
    BY <1>4, <1>8, <2>1
  <2>3. \A k \in DOMAIN members \intersect DOMAIN q.obj :
            k \notin DOMAIN declared => Errors[<<members[k], q.obj[k]>>] = 0
    BY <1>9, <2>1
  <2>. QED BY <2>2, <2>3
<1>16. ASSUME IsArray(q), Has(r, "items")
       PROVE  (\A i \in DOMAIN q.arr : Errors[<<n.items, q.arr[i]>>] = 0)
                <=> \A v \in Range(q.arr) : Valid[<<r.items, v>>]
  <2>1. \A i \in DOMAIN q.arr : q.arr[i] \in Payloads
    BY <1>16, PayloadFacts
  <2>2. r.items \in Children(r) /\ n.items = NormalizeSchema[r.items]
    BY <1>1, <1>16, ChildFacts
  <2>3. Range(q.arr) = {q.arr[i] : i \in DOMAIN q.arr}
    BY DEF Range
  <2>4. \A i \in DOMAIN q.arr : Valid[<<r.items, q.arr[i]>>] <=> Errors[<<n.items, q.arr[i]>>] = 0
    BY <1>4, <2>1, <2>2
  <2>. QED BY <2>3, <2>4
<1>. HIDE DEF type, required, declared, permitted, members
<1>17. Meant(Valid, r, q) <=>
        /\ Has(r, "enum") => Text(q) \in r.enum
        /\ Has(r, "allOf") => \A b \in Range(r.allOf) : Valid[<<b, q>>]
        /\ \A k \in {"oneOf", "anyOf"} : Has(r, k) => \E b \in Range(r[k]) : Valid[<<b, q>>]
        /\ DOMAIN q \subseteq KindOf(type)
        /\ type = "object" =>
            /\ required \subseteq DOMAIN q.obj
            /\ \A k \in DOMAIN declared \intersect DOMAIN q.obj : Valid[<<declared[k], q.obj[k]>>]
            /\ Has(r, "closed") => DOMAIN q.obj \subseteq permitted
        /\ type = "array" /\ Has(r, "items") => \A v \in Range(q.arr) : Valid[<<r.items, v>>]
  BY DEF Meant, type, required, declared, permitted
<1>18. ASSUME Errors[<<n, q>>] = 0 PROVE Meant(Valid, r, q)
  <2>1. /\ Has(n, "enum") => Text(q) \in n.enum
        /\ Has(n, "allOf") => \A i \in DOMAIN n.allOf : Errors[<<n.allOf[i], q>>] = 0
        /\ \A k \in DOMAIN n \intersect {"oneOf", "anyOf"} :
            \E i \in DOMAIN n[k] : Errors[<<n[k][i], q>>] = 0
        /\ TypeErrors(Errors, n, q) = 0
    BY <1>2, <1>18, NoErrors
  <2>2. /\ DOMAIN q \subseteq KindOf(type)
        /\ type = "object" =>
            /\ IsObject(q) /\ required \subseteq DOMAIN q.obj
            /\ \A k \in DOMAIN members \intersect DOMAIN q.obj : Errors[<<members[k], q.obj[k]>>] = 0
            /\ Has(n, "closed") => DOMAIN q.obj \subseteq DOMAIN members
        /\ type = "array" /\ Has(n, "items") =>
            IsArray(q) /\ \A i \in DOMAIN q.arr : Errors[<<n.items, q.arr[i]>>] = 0
    BY <1>2, <1>5, <1>6, <2>1, NoTypeErrors DEF members
  <2>3. \A k \in {"oneOf", "anyOf"} : Has(n, k) => \E i \in DOMAIN n[k] : Errors[<<n[k][i], q>>] = 0
    BY <2>1 DEF Has
  <2>. QED BY <1>2, <1>7, <1>10, <1>12, <1>13, <1>15, <1>16, <1>17, <2>1, <2>2, <2>3
<1>19. ASSUME Meant(Valid, r, q) PROVE Errors[<<n, q>>] = 0
  <2>1. /\ Has(n, "enum") => Text(q) \in n.enum
        /\ Has(n, "allOf") => \A i \in DOMAIN n.allOf : Errors[<<n.allOf[i], q>>] = 0
        /\ \A k \in DOMAIN n \intersect {"oneOf", "anyOf"} :
            \E i \in DOMAIN n[k] : Errors[<<n[k][i], q>>] = 0
    BY <1>10, <1>12, <1>13, <1>17, <1>19 DEF Has
  <2>2. /\ DOMAIN q \subseteq KindOf(type)
        /\ type = "object" =>
            /\ required \subseteq DOMAIN q.obj
            /\ \A k \in DOMAIN members \intersect DOMAIN q.obj : Errors[<<members[k], q.obj[k]>>] = 0
            /\ Has(n, "closed") => DOMAIN q.obj \subseteq DOMAIN members
        /\ type = "array" /\ Has(n, "items") =>
            \A i \in DOMAIN q.arr : Errors[<<n.items, q.arr[i]>>] = 0
    BY <1>2, <1>7, <1>14, <1>15, <1>16, <1>17, <1>19
  <2>3. TypeErrors(Errors, n, q) = 0
    BY <1>2, <1>5, <1>6, <2>2, TypeErrorFree DEF members
  <2>. QED BY <1>2, <2>1, <2>3, ErrorFree
<1>. QED BY <1>3, <1>18, <1>19

\* What validates against the normalized schema conforms to the schema, and nothing else.
LEMMA ValidConforms ==
    ASSUME NEW s \in Schemata, NormalizeSchema[s] \in Schemata, NEW p \in Payloads
    PROVE  Errors[<<NormalizeSchema[s], p>>] = 0 <=> Conforms[<<s, p>>]
<1>. DEFINE T == {r \in Schemata : NormalizeSchema[r] \in Schemata =>
                    \A q \in Payloads : Valid[<<r, q>>] = Conforms[<<r, q>>]}
<1>1. ASSUME NEW r \in Schemata, \A t \in Schemata : SchemaRank[t] < SchemaRank[r] => t \in T,
             NormalizeSchema[r] \in Schemata, NEW q \in Payloads
      PROVE  Valid[<<r, q>>] = Conforms[<<r, q>>]
  <2>1. ASSUME NEW c \in Children(r), NEW v \in Payloads PROVE Valid[<<c, v>>] = Conforms[<<c, v>>]
    <3>1. NormalizeSchema[c] \in Schemata
      BY <1>1, ChildNormalized, SchemaFacts
    <3>. QED BY <1>1, <3>1, SchemaRankFacts
  <2>2. Meant(Valid, r, q) = Meant(Conforms, r, q)
    BY <2>1, MeantSame
  <2>3. Valid[<<r, q>>] \in BOOLEAN
    BY DEF Valid
  <2>4. Meant(Valid, r, q) \in BOOLEAN
    BY DEF Meant
  <2>. QED BY <1>1, <2>2, <2>3, <2>4, ValidMeans, ConformsUnfold
<1>2. \A r \in Schemata : (\A t \in Schemata : SchemaRank[t] < SchemaRank[r] => t \in T) => r \in T
  BY <1>1
<1>. HIDE DEF T
<1>3. Schemata \subseteq T
  BY <1>2, SchemaRankFacts, RankInduction
<1>4. Valid[<<s, p>>] = Conforms[<<s, p>>]
  BY <1>3 DEF T
<1>. QED BY <1>4 DEF Valid

--------------------------------------------------------------------------------

\* The branches of a schema are directly inside it.
LEMMA BranchesFacts ==
    ASSUME NEW s
    PROVE  /\ Branches(s) \subseteq Children(s)
           /\ \A k \in DOMAIN s \intersect Keywords : \A i \in DOMAIN s[k] : s[k][i] \in Branches(s)
           /\ DOMAIN s \intersect Keywords = {} => Branches(s) = {}
<1>1. Branches(s) \subseteq Children(s)
  BY DEF Branches, Children
<1>2. \A k \in DOMAIN s \intersect Keywords : \A i \in DOMAIN s[k] : s[k][i] \in Branches(s)
  BY DEF Branches, Range
<1>3. DOMAIN s \intersect Keywords = {} => Branches(s) = {}
  BY DEF Branches
<1>. QED BY <1>1, <1>2, <1>3

\* Spares is what its definition says.
LEMMA SparingSame ==
    ASSUME NEW g, NEW h, NEW s \in Schemata, NEW t \in Schemata,
           \A q, r \in Schemata : Size[q] + Size[r] < Size[s] + Size[t] => g[<<q, r>>] = h[<<q, r>>]
    PROVE  Sparing(g, s, t) = Sparing(h, s, t)
<1>1. ASSUME NEW c \in Children(s) PROVE g[<<c, t>>] = h[<<c, t>>]
  <2>1. c \in Schemata /\ Size[c] < Size[s] /\ Size[c] \in Nat /\ Size[s] \in Nat /\ Size[t] \in Nat
    BY SchemaFacts
  <2>. QED BY <2>1
<1>2. ASSUME NEW c \in Children(t) PROVE g[<<s, c>>] = h[<<s, c>>]
  <2>1. c \in Schemata /\ Size[c] < Size[t] /\ Size[c] \in Nat /\ Size[s] \in Nat /\ Size[t] \in Nat
    BY SchemaFacts
  <2>. QED BY <2>1
<1>3. ASSUME NEW c \in Children(s), NEW d \in Children(t) PROVE g[<<c, d>>] = h[<<c, d>>]
  <2>1. /\ c \in Schemata /\ Size[c] < Size[s] /\ Size[c] \in Nat /\ Size[s] \in Nat
        /\ d \in Schemata /\ Size[d] < Size[t] /\ Size[d] \in Nat /\ Size[t] \in Nat
    BY SchemaFacts
  <2>. QED BY <2>1
<1>. DEFINE declared == DOMAIN Field(s, "properties", << >>) \intersect DOMAIN Field(t, "properties", << >>)
<1>4. \A b \in Branches(s) : g[<<b, t>>] = h[<<b, t>>]
  BY <1>1, BranchesFacts
<1>5. \A b \in Branches(t) : g[<<s, b>>] = h[<<s, b>>]
  BY <1>2, BranchesFacts
<1>6. \A k \in declared : g[<<s.properties[k], t.properties[k]>>] = h[<<s.properties[k], t.properties[k]>>]
  <2>1. ASSUME NEW k \in declared PROVE s.properties[k] \in Children(s) /\ t.properties[k] \in Children(t)
    BY ChildFacts, EmptySchema DEF Field
  <2>. QED BY <1>3, <2>1
<1>7. Has(s, "items") /\ Has(t, "items") => g[<<s.items, t.items>>] = h[<<s.items, t.items>>]
  BY <1>3, ChildFacts
<1>. HIDE DEF declared
<1>8. \A e : Sparing(e, s, t) <=>
        /\ \A b \in Branches(s) : e[<<b, t>>]
        /\ \A b \in Branches(t) : e[<<s, b>>]
        /\ Optional(s) \intersect Field(t, "required", {}) = {}
        /\ \A k \in declared : e[<<s.properties[k], t.properties[k]>>]
        /\ Has(s, "items") /\ Has(t, "items") => e[<<s.items, t.items>>]
  BY DEF Sparing, declared
<1>9. Sparing(g, s, t) <=> Sparing(h, s, t)
  BY <1>4, <1>5, <1>6, <1>7, <1>8
<1>10. Sparing(g, s, t) \in BOOLEAN /\ Sparing(h, s, t) \in BOOLEAN
  BY DEF Sparing
<1>. QED BY <1>9, <1>10

LEMMA SparesUnfold ==
    ASSUME NEW s \in Schemata, NEW t \in Schemata
    PROVE  Spares[<<s, t>>] = Sparing(Spares, s, t)
<1>. DEFINE S == Schemata \X Schemata
            V == [x \in S |-> BOOLEAN]
            rank == [x \in S |-> Size[x[1]] + Size[x[2]]]
            F == [g \in MappingsInto(S, V) |-> [x \in S |-> Sparing(g, x[1], x[2])]]
<1>1. ASSUME NEW g \in MappingsInto(S, V) PROVE F[g] \in MappingsInto(S, V)
  <2>1. ASSUME NEW x \in S PROVE F[g][x] \in BOOLEAN
    BY DEF Sparing
  <2>2. F[g] = [x \in S |-> F[g][x]]
    OBVIOUS
  <2>. HIDE DEF F, S
  <2>. QED BY <2>1, <2>2 DEF MappingsInto
<1>2. ASSUME NEW g \in MappingsInto(S, V), NEW h \in MappingsInto(S, V), NEW x \in S,
             \A y \in S : rank[y] < rank[x] => g[y] = h[y]
      PROVE  F[g][x] = F[h][x]
  <2>1. ASSUME NEW q \in Schemata, NEW r \in Schemata, Size[q] + Size[r] < Size[x[1]] + Size[x[2]]
        PROVE  g[<<q, r>>] = h[<<q, r>>]
    <3>1. <<q, r>> \in S
      OBVIOUS
    <3>2. rank[<<q, r>>] < rank[x]
      BY <2>1, <3>1
    <3>. QED BY <1>2, <3>1, <3>2
  <2>2. Sparing(g, x[1], x[2]) = Sparing(h, x[1], x[2])
    <3>1. x[1] \in Schemata /\ x[2] \in Schemata
      OBVIOUS
    <3>. HIDE DEF S, V, rank
    <3>. QED BY <2>1, <3>1, SparingSame
  <2>. QED BY <2>2
<1>3. rank \in [S -> Nat]
  <2>1. \A x \in S : Size[x[1]] + Size[x[2]] \in Nat
    <3>1. \A x \in S : x[1] \in Schemata /\ x[2] \in Schemata
      OBVIOUS
    <3>2. \A r \in Schemata : Size[r] \in Nat
      BY SchemaFacts
    <3>. HIDE DEF S
    <3>3. \A x \in S : Size[x[1]] \in Nat /\ Size[x[2]] \in Nat
      BY <3>1, <3>2
    <3>. QED BY <3>3
  <2>. HIDE DEF S
  <2>. QED BY <2>1
<1>4. Recursive(S, V, rank, F)
  <2>1. \A x \in S : V[x] # {}
    OBVIOUS
  <2>2. F \in [MappingsInto(S, V) -> MappingsInto(S, V)]
    <3>. HIDE DEF V, S
    <3>. QED BY <1>1
  <2>. HIDE DEF S, V, F, rank
  <2>. QED BY <1>2, <1>3, <2>1, <2>2 DEF Recursive
<1>5. PICK f \in MappingsInto(S, V) : f = F[f]
  <2>. HIDE DEF S, V, F, rank
  <2>. QED BY <1>4, Recursion
<1>6. f = [x \in Schemata \X Schemata |-> Sparing(f, x[1], x[2])]
  <2>. HIDE DEF V
  <2>. QED BY <1>5
<1>7. Spares = [x \in Schemata \X Schemata |-> Sparing(Spares, x[1], x[2])]
  BY <1>6 DEF Spares
<1>. QED BY <1>7

\* What a schema spares, it spares in the parts of both at the same place.
LEMMA SparesFacts ==
    ASSUME NEW s \in Schemata, NEW t \in Schemata, Spares[<<s, t>>]
    PROVE  /\ \A b \in Branches(s) : Spares[<<b, t>>]
           /\ \A b \in Branches(t) : Spares[<<s, b>>]
           /\ \A k \in Optional(s) : k \notin Field(t, "required", {})
           /\ \A k \in DOMAIN Field(s, "properties", << >>) \intersect DOMAIN Field(t, "properties", << >>) :
                Spares[<<s.properties[k], t.properties[k]>>]
           /\ Has(s, "items") /\ Has(t, "items") => Spares[<<s.items, t.items>>]
<1>1. Sparing(Spares, s, t)
  BY SparesUnfold
<1>. QED BY <1>1 DEF Sparing

\* A change: a schema, a payload, and what the payload becomes.
Changes == Schemata \X Payloads \X Payloads

\* Nothing that s requires is lost when p becomes q, if none is in the changes K.
KeepsIn(K, s, p, q) ==
    LET declared == Field(s, "properties", << >>)
    IN  /\ \A b \in Branches(s) : <<b, p, q>> \in K
        /\ IsObject(p) =>
            /\ \A k \in Field(s, "required", {}) \intersect DOMAIN p.obj : k \in DOMAIN q.obj
            /\ \A k \in DOMAIN declared \intersect DOMAIN q.obj : <<declared[k], p.obj[k], q.obj[k]>> \in K
        /\ IsArray(p) /\ Has(s, "items") =>
            \A i \in DOMAIN q.arr : <<s.items, p.arr[i], q.arr[i]>> \in K

\* So it is at every depth.
Keeps(s, p, q) ==
    \E K \in SUBSET Changes : <<s, p, q>> \in K /\ \A x \in K : KeepsIn(K, x[1], x[2], x[3])

LEMMA KeepsFacts ==
    ASSUME NEW s, NEW p, NEW q, Keeps(s, p, q)
    PROVE  /\ s \in Schemata /\ p \in Payloads /\ q \in Payloads
           /\ \A b \in Branches(s) : Keeps(b, p, q)
           /\ IsObject(p) =>
                /\ \A k \in Field(s, "required", {}) \intersect DOMAIN p.obj : k \in DOMAIN q.obj
                /\ \A k \in DOMAIN Field(s, "properties", << >>) \intersect DOMAIN q.obj :
                    Keeps(Field(s, "properties", << >>)[k], p.obj[k], q.obj[k])
           /\ IsArray(p) /\ Has(s, "items") =>
                \A i \in DOMAIN q.arr : Keeps(s.items, p.arr[i], q.arr[i])
<1>1. PICK K \in SUBSET Changes : <<s, p, q>> \in K /\ \A x \in K : KeepsIn(K, x[1], x[2], x[3])
  BY DEF Keeps
<1>2. KeepsIn(K, s, p, q)
  <2>1. KeepsIn(K, <<s, p, q>>[1], <<s, p, q>>[2], <<s, p, q>>[3])
    BY <1>1
  <2>. QED BY <2>1
<1>3. \A r, u, v : <<r, u, v>> \in K => Keeps(r, u, v)
  BY <1>1 DEF Keeps
<1>4. s \in Schemata /\ p \in Payloads /\ q \in Payloads
  BY <1>1 DEF Changes
<1>. QED BY <1>2, <1>3, <1>4 DEF KeepsIn

\* It is shown by a set of such changes, closed but for those that are known already.
LEMMA KeepsAll ==
    ASSUME NEW K \in SUBSET Changes,
           \A x \in K : KeepsIn(K \union {y \in Changes : Keeps(y[1], y[2], y[3])}, x[1], x[2], x[3])
    PROVE  \A x \in K : Keeps(x[1], x[2], x[3])
<1>. DEFINE W == {y \in Changes : Keeps(y[1], y[2], y[3])}
            L == K \union W
<1>1. \A r, u, v : Keeps(r, u, v) => <<r, u, v>> \in L
  <2>1. \A r, u, v : Keeps(r, u, v) => <<r, u, v>> \in Changes
    BY KeepsFacts DEF Changes
  <2>2. \A r, u, v : <<r, u, v>>[1] = r /\ <<r, u, v>>[2] = u /\ <<r, u, v>>[3] = v
    OBVIOUS
  <2>. QED BY <2>1, <2>2
<1>2. ASSUME NEW x \in W PROVE KeepsIn(L, x[1], x[2], x[3])
  <2>1. Keeps(x[1], x[2], x[3])
    OBVIOUS
  <2>. HIDE DEF L, W
  <2>. QED BY <1>1, <2>1, KeepsFacts DEF KeepsIn
<1>3. L \in SUBSET Changes /\ \A x \in L : KeepsIn(L, x[1], x[2], x[3])
  BY <1>2
<1>4. ASSUME NEW x \in K PROVE Keeps(x[1], x[2], x[3])
  <2>1. x = <<x[1], x[2], x[3]>>
    BY DEF Changes
  <2>2. <<x[1], x[2], x[3]>> \in L
    BY <2>1
  <2>. HIDE DEF L, W
  <2>. QED BY <1>3, <2>2 DEF Keeps
<1>. QED BY <1>4

\* What is left of a payload has what is left of its parts.
LEMMA DroppedParts ==
    ASSUME NEW p \in Payloads, NEW q \in Dropped(p, Names)
    PROVE  /\ q \in Payloads /\ DOMAIN q = DOMAIN p
           /\ IsObject(q) <=> IsObject(p)
           /\ IsArray(q) <=> IsArray(p)
           /\ IsObject(p) =>
                /\ DOMAIN q.obj \subseteq DOMAIN p.obj
                /\ \A k \in DOMAIN q.obj : /\ p.obj[k] \in Payloads /\ q.obj[k] \in Payloads
                                           /\ q.obj[k] \in Dropped(p.obj[k], Names)
                /\ \A k \in DOMAIN p.obj \ DOMAIN q.obj : p.obj[k] = Blank
           /\ IsArray(p) =>
                /\ DOMAIN q.arr = DOMAIN p.arr
                /\ \A i \in DOMAIN q.arr : /\ p.arr[i] \in Payloads /\ q.arr[i] \in Payloads
                                           /\ q.arr[i] \in Dropped(p.arr[i], Names)
           /\ ~IsObject(p) /\ ~IsArray(p) => q = p
<1>1. q \in Payloads /\ DOMAIN q = DOMAIN p
  BY DroppedKind
<1>2. (IsObject(q) <=> IsObject(p)) /\ (IsArray(q) <=> IsArray(p))
  BY <1>1 DEF IsObject, IsArray
<1>3. ASSUME IsObject(p)
      PROVE  /\ DOMAIN q.obj \subseteq DOMAIN p.obj
             /\ \A k \in DOMAIN q.obj : /\ p.obj[k] \in Payloads /\ q.obj[k] \in Payloads
                                        /\ q.obj[k] \in Dropped(p.obj[k], Names)
             /\ \A k \in DOMAIN p.obj \ DOMAIN q.obj : p.obj[k] = Blank
  BY <1>1, <1>2, <1>3, DroppedMember, PayloadFacts
<1>4. ASSUME IsArray(p)
      PROVE  /\ DOMAIN q.arr = DOMAIN p.arr
             /\ \A i \in DOMAIN q.arr : /\ p.arr[i] \in Payloads /\ q.arr[i] \in Payloads
                                        /\ q.arr[i] \in Dropped(p.arr[i], Names)
  BY <1>1, <1>2, <1>4, DroppedMember, PayloadFacts
<1>5. ~IsObject(p) /\ ~IsArray(p) => q = p
  BY DroppedMember
<1>. QED BY <1>1, <1>2, <1>3, <1>4, <1>5

\* The members, items and branches that Keeps is about are in use.
LEMMA KeptParts ==
    ASSUME NEW s \in Schemata
    PROVE  /\ \A b \in Branches(s) : b \in Schemata
           /\ \A k \in DOMAIN Field(s, "properties", << >>) : Field(s, "properties", << >>)[k] \in Schemata
           /\ Has(s, "items") => s.items \in Schemata
<1>1. \A b \in Branches(s) : b \in Schemata
  BY BranchesFacts, SchemaFacts
<1>2. ASSUME NEW k \in DOMAIN Field(s, "properties", << >>)
      PROVE  Field(s, "properties", << >>)[k] \in Schemata
  <2>1. Field(s, "properties", << >>)[k] \in Children(s)
    BY <1>2, ChildFacts, EmptySchema DEF Field
  <2>. QED BY <2>1, SchemaFacts
<1>. QED BY <1>1, <1>2, ChildFacts, SchemaFacts

\* Nothing is lost when nothing changes.
LEMMA KeepsSelf ==
    ASSUME NEW s \in Schemata, NEW p \in Payloads
    PROVE  Keeps(s, p, p)
<1>. DEFINE K == {x \in Changes : x[3] = x[2]}
            W == {y \in Changes : Keeps(y[1], y[2], y[3])}
<1>1. \A r \in Schemata, v \in Payloads : <<r, v, v>> \in K \union W
  BY DEF Changes
<1>2. ASSUME NEW x \in K PROVE KeepsIn(K \union W, x[1], x[2], x[3])
  <2>1. x[1] \in Schemata /\ x[2] \in Payloads /\ x[3] = x[2]
    BY DEF Changes
  <2>. HIDE DEF K, W
  <2>. QED BY <1>1, <2>1, KeptParts, PayloadFacts DEF KeepsIn
<1>3. K \in SUBSET Changes
  OBVIOUS
<1>4. <<s, p, p>> \in K
  BY DEF Changes
<1>5. \A x \in K : Keeps(x[1], x[2], x[3])
  <2>. HIDE DEF K
  <2>. QED BY <1>2, <1>3, KeepsAll
<1>. HIDE DEF K
<1>6. Keeps(<<s, p, p>>[1], <<s, p, p>>[2], <<s, p, p>>[3])
  BY <1>4, <1>5
<1>. QED BY <1>6

\* What one change and the next keep, both together keep.
LEMMA KeepsOn ==
    ASSUME NEW s \in Schemata, NEW p \in Payloads, NEW q \in Dropped(p, Names),
           NEW r \in Dropped(q, Names), Keeps(s, p, q), Keeps(s, q, r)
    PROVE  Keeps(s, p, r)
<1>. DEFINE K == {x \in Changes : \E v \in Dropped(x[2], Names) :
                    x[3] \in Dropped(v, Names) /\ Keeps(x[1], x[2], v) /\ Keeps(x[1], v, x[3])}
            W == {y \in Changes : Keeps(y[1], y[2], y[3])}
<1>1. ASSUME NEW t \in Schemata, NEW u \in Payloads, NEW v \in Dropped(u, Names),
             NEW w \in Dropped(v, Names), Keeps(t, u, v), Keeps(t, v, w)
      PROVE  <<t, u, w>> \in K
  <2>1. v \in Payloads /\ w \in Payloads
    BY <1>1, KeepsFacts
  <2>2. <<t, u, w>> \in Changes
    BY <2>1 DEF Changes
  <2>. QED BY <1>1, <2>2
<1>2. ASSUME NEW x \in K PROVE KeepsIn(K \union W, x[1], x[2], x[3])
  <2>. DEFINE t == x[1]
              u == x[2]
              w == x[3]
              declared == Field(t, "properties", << >>)
  <2>1. PICK v \in Dropped(u, Names) : w \in Dropped(v, Names) /\ Keeps(t, u, v) /\ Keeps(t, v, w)
    OBVIOUS
  <2>2. t \in Schemata /\ u \in Payloads /\ v \in Payloads /\ w \in Payloads
    BY <2>1, KeepsFacts
  <2>. HIDE DEF K, W, t, u, w
  <2>3. \A b \in Branches(t) : <<b, u, w>> \in K
    BY <1>1, <2>1, <2>2, KeepsFacts, KeptParts
  <2>4. ASSUME IsObject(u)
        PROVE  /\ \A k \in Field(t, "required", {}) \intersect DOMAIN u.obj : k \in DOMAIN w.obj
               /\ \A k \in DOMAIN declared \intersect DOMAIN w.obj : <<declared[k], u.obj[k], w.obj[k]>> \in K
    <3>1. IsObject(v) /\ IsObject(w)
      BY <2>1, <2>2, <2>4, DroppedParts
    <3>2. /\ \A k \in Field(t, "required", {}) \intersect DOMAIN u.obj : k \in DOMAIN v.obj
          /\ \A k \in DOMAIN declared \intersect DOMAIN v.obj : Keeps(declared[k], u.obj[k], v.obj[k])
      BY <2>1, <2>4, KeepsFacts
    <3>3. /\ \A k \in Field(t, "required", {}) \intersect DOMAIN v.obj : k \in DOMAIN w.obj
          /\ \A k \in DOMAIN declared \intersect DOMAIN w.obj : Keeps(declared[k], v.obj[k], w.obj[k])
      BY <2>1, <3>1, KeepsFacts
    <3>4. ASSUME NEW k \in DOMAIN declared \intersect DOMAIN w.obj
          PROVE  <<declared[k], u.obj[k], w.obj[k]>> \in K
      <4>1. /\ k \in DOMAIN v.obj /\ v.obj[k] \in Dropped(u.obj[k], Names)
            /\ w.obj[k] \in Dropped(v.obj[k], Names) /\ u.obj[k] \in Payloads
        BY <2>1, <2>2, <2>4, <3>1, <3>4, DroppedParts
      <4>2. declared[k] \in Schemata
        BY <2>2, <3>4, KeptParts
      <4>3. Keeps(declared[k], u.obj[k], v.obj[k]) /\ Keeps(declared[k], v.obj[k], w.obj[k])
        BY <3>2, <3>3, <3>4, <4>1
      <4>. HIDE DEF declared
      <4>. QED BY <1>1, <4>1, <4>2, <4>3
    <3>. QED BY <3>2, <3>3, <3>4
  <2>5. ASSUME IsArray(u), Has(t, "items"), NEW i \in DOMAIN w.arr
        PROVE  <<t.items, u.arr[i], w.arr[i]>> \in K
    <3>1. /\ IsArray(v) /\ i \in DOMAIN v.arr /\ v.arr[i] \in Dropped(u.arr[i], Names)
          /\ w.arr[i] \in Dropped(v.arr[i], Names) /\ u.arr[i] \in Payloads
      BY <2>1, <2>2, <2>5, DroppedParts
    <3>2. Keeps(t.items, u.arr[i], v.arr[i]) /\ Keeps(t.items, v.arr[i], w.arr[i])
      BY <2>1, <2>5, <3>1, KeepsFacts
    <3>. QED BY <1>1, <2>2, <2>5, <3>1, <3>2, KeptParts
  <2>6. KeepsIn(K \union W, t, u, w)
    BY <2>3, <2>4, <2>5 DEF KeepsIn, declared
  <2>. QED BY <2>6 DEF t, u, w
<1>3. K \in SUBSET Changes /\ <<s, p, r>> \in K
  BY <1>1
<1>4. \A x \in K : Keeps(x[1], x[2], x[3])
  <2>. HIDE DEF K
  <2>. QED BY <1>2, <1>3, KeepsAll
<1>. HIDE DEF K
<1>5. Keeps(<<s, p, r>>[1], <<s, p, r>>[2], <<s, p, r>>[3])
  BY <1>3, <1>4
<1>. QED BY <1>5

\* What a change keeps, its later part keeps.
LEMMA KeepsLater ==
    ASSUME NEW s \in Schemata, NEW p \in Payloads, NEW q \in Dropped(p, Names),
           NEW r \in Dropped(q, Names), Keeps(s, p, r)
    PROVE  Keeps(s, q, r)
<1>. DEFINE K == {x \in Changes : \E u \in Payloads :
                    x[2] \in Dropped(u, Names) /\ x[3] \in Dropped(x[2], Names) /\ Keeps(x[1], u, x[3])}
            W == {y \in Changes : Keeps(y[1], y[2], y[3])}
<1>1. ASSUME NEW t \in Schemata, NEW u \in Payloads, NEW v \in Dropped(u, Names),
             NEW w \in Dropped(v, Names), Keeps(t, u, w)
      PROVE  <<t, v, w>> \in K
  <2>1. v \in Payloads /\ w \in Payloads
    BY <1>1, KeepsFacts, DroppedKind
  <2>2. <<t, v, w>> \in Changes
    BY <2>1 DEF Changes
  <2>. QED BY <1>1, <2>2
<1>2. ASSUME NEW x \in K PROVE KeepsIn(K \union W, x[1], x[2], x[3])
  <2>. DEFINE t == x[1]
              v == x[2]
              w == x[3]
              declared == Field(t, "properties", << >>)
  <2>1. PICK u \in Payloads : v \in Dropped(u, Names) /\ w \in Dropped(v, Names) /\ Keeps(t, u, w)
    OBVIOUS
  <2>2. t \in Schemata /\ v \in Payloads /\ w \in Payloads
    BY <2>1, KeepsFacts, DroppedKind
  <2>. HIDE DEF K, W, t, v, w
  <2>3. \A b \in Branches(t) : <<b, v, w>> \in K
    BY <1>1, <2>1, <2>2, KeepsFacts, KeptParts
  <2>4. ASSUME IsObject(v)
        PROVE  /\ \A k \in Field(t, "required", {}) \intersect DOMAIN v.obj : k \in DOMAIN w.obj
               /\ \A k \in DOMAIN declared \intersect DOMAIN w.obj : <<declared[k], v.obj[k], w.obj[k]>> \in K
    <3>1. IsObject(u) /\ IsObject(w) /\ DOMAIN v.obj \subseteq DOMAIN u.obj
      BY <2>1, <2>2, <2>4, DroppedParts
    <3>2. /\ \A k \in Field(t, "required", {}) \intersect DOMAIN u.obj : k \in DOMAIN w.obj
          /\ \A k \in DOMAIN declared \intersect DOMAIN w.obj : Keeps(declared[k], u.obj[k], w.obj[k])
      BY <2>1, <3>1, KeepsFacts
    <3>3. ASSUME NEW k \in DOMAIN declared \intersect DOMAIN w.obj
          PROVE  <<declared[k], v.obj[k], w.obj[k]>> \in K
      <4>1. /\ v.obj[k] \in Dropped(u.obj[k], Names)
            /\ w.obj[k] \in Dropped(v.obj[k], Names) /\ u.obj[k] \in Payloads
        BY <2>1, <2>2, <2>4, <3>1, <3>3, DroppedParts
      <4>2. declared[k] \in Schemata
        BY <2>2, <3>3, KeptParts
      <4>3. Keeps(declared[k], u.obj[k], w.obj[k])
        BY <3>2, <3>3
      <4>. HIDE DEF declared
      <4>. QED BY <1>1, <4>1, <4>2, <4>3
    <3>. QED BY <3>1, <3>2, <3>3
  <2>5. ASSUME IsArray(v), Has(t, "items"), NEW i \in DOMAIN w.arr
        PROVE  <<t.items, v.arr[i], w.arr[i]>> \in K
    <3>1. /\ IsArray(u) /\ v.arr[i] \in Dropped(u.arr[i], Names)
          /\ w.arr[i] \in Dropped(v.arr[i], Names) /\ u.arr[i] \in Payloads
      BY <2>1, <2>2, <2>5, DroppedParts
    <3>2. Keeps(t.items, u.arr[i], w.arr[i])
      BY <2>1, <2>5, <3>1, KeepsFacts
    <3>. QED BY <1>1, <2>2, <2>5, <3>1, <3>2, KeptParts
  <2>6. KeepsIn(K \union W, t, v, w)
    BY <2>3, <2>4, <2>5 DEF KeepsIn, declared
  <2>. QED BY <2>6 DEF t, v, w
<1>3. K \in SUBSET Changes /\ <<s, q, r>> \in K
  BY <1>1
<1>4. \A x \in K : Keeps(x[1], x[2], x[3])
  <2>. HIDE DEF K
  <2>. QED BY <1>2, <1>3, KeepsAll
<1>. HIDE DEF K
<1>5. Keeps(<<s, q, r>>[1], <<s, q, r>>[2], <<s, q, r>>[3])
  BY <1>3, <1>4
<1>. QED BY <1>5

--------------------------------------------------------------------------------

\* No enum tells a payload from what is left of it.
LEMMA TextKept ==
    ASSUME NEW p \in Payloads, NEW q \in Dropped(p, Names)
    PROVE  Text(q) = Text(p)
<1>1. CASE ~IsObject(p) /\ ~IsArray(p)
  BY <1>1, DroppedParts
<1>2. CASE IsObject(p) \/ IsArray(p)
  <2>1. DOMAIN q = DOMAIN p /\ ~(DOMAIN p \subseteq Scalars)
    BY <1>2, DroppedParts DEF IsObject, IsArray, Scalars
  <2>. QED BY <2>1 DEF Text
<1>. QED BY <1>1, <1>2

\* What conforms still does when nothing required is dropped.
LEMMA ConformsKept ==
    ASSUME NEW s \in Schemata, NEW p \in Payloads, NEW q \in Dropped(p, Names),
           Keeps(s, p, q), Conforms[<<s, p>>]
    PROVE  Conforms[<<s, q>>]
<1>. DEFINE T == {r \in Schemata : \A u \in Payloads : \A v \in Dropped(u, Names) :
                    Keeps(r, u, v) /\ Conforms[<<r, u>>] => Conforms[<<r, v>>]}
<1>1. ASSUME NEW r \in Schemata, \A t \in Schemata : SchemaRank[t] < SchemaRank[r] => t \in T,
             NEW u \in Payloads, NEW v \in Dropped(u, Names), Keeps(r, u, v), Conforms[<<r, u>>]
      PROVE  Conforms[<<r, v>>]
  <2>. DEFINE type == NormalizeTypeName(Field(r, "type", "none"))
              required == Field(r, "required", {})
              declared == Field(r, "properties", << >>)
              permitted == DOMAIN declared \union (IF Has(r, "properties") THEN required ELSE {})
  <2>1. ASSUME NEW c \in Children(r), NEW x \in Payloads, NEW y \in Dropped(x, Names),
               Keeps(c, x, y), Conforms[<<c, x>>]
        PROVE  Conforms[<<c, y>>]
    <3>1. c \in T
      BY <1>1, SchemaRankFacts
    <3>. QED BY <2>1, <3>1
  <2>2. /\ v \in Payloads /\ DOMAIN v = DOMAIN u /\ Text(v) = Text(u)
        /\ (IsObject(v) <=> IsObject(u)) /\ (IsArray(v) <=> IsArray(u))
    BY DroppedParts, TextKept
  <2>3. Meant(Conforms, r, u)
    BY <1>1, ConformsUnfold
  <2>4. ASSUME NEW k \in DOMAIN r \intersect Keywords, NEW b \in Range(r[k]), Conforms[<<b, u>>]
        PROVE  Conforms[<<b, v>>]
    <3>1. PICK i \in DOMAIN r[k] : b = r[k][i]
      BY DEF Range
    <3>2. b \in Children(r) /\ b \in Branches(r)
      BY <3>1, ChildFacts, BranchesFacts
    <3>3. Keeps(b, u, v)
      BY <1>1, <3>2, KeepsFacts
    <3>. QED BY <2>1, <2>4, <3>2, <3>3
  <2>5. ASSUME DOMAIN u \subseteq KindOf(type)
        PROVE  (type = "object" => IsObject(u)) /\ (type = "array" => IsArray(u))
    <3>1. \E k \in Scalars \union {"obj", "arr"} : DOMAIN u = {k}
      BY PayloadFacts
    <3>. QED BY <2>5, <3>1 DEF KindOf, IsObject, IsArray
  <2>6. ASSUME IsObject(u), required \subseteq DOMAIN u.obj,
               \A k \in DOMAIN declared \intersect DOMAIN u.obj : Conforms[<<declared[k], u.obj[k]>>]
        PROVE  /\ required \subseteq DOMAIN v.obj /\ DOMAIN v.obj \subseteq DOMAIN u.obj
               /\ \A k \in DOMAIN declared \intersect DOMAIN v.obj : Conforms[<<declared[k], v.obj[k]>>]
    <3>1. required \subseteq DOMAIN v.obj
      BY <1>1, <2>6, KeepsFacts
    <3>2. DOMAIN v.obj \subseteq DOMAIN u.obj
      BY <2>6, DroppedParts
    <3>3. ASSUME NEW k \in DOMAIN declared \intersect DOMAIN v.obj
          PROVE  Conforms[<<declared[k], v.obj[k]>>]
      <4>1. u.obj[k] \in Payloads /\ v.obj[k] \in Dropped(u.obj[k], Names)
        BY <2>6, <3>3, DroppedParts
      <4>2. Keeps(declared[k], u.obj[k], v.obj[k])
        BY <1>1, <2>6, <3>3, KeepsFacts
      <4>3. declared[k] \in Children(r)
        BY <3>3, ChildFacts, EmptySchema DEF Field
      <4>4. Conforms[<<declared[k], u.obj[k]>>]
        BY <2>6, <3>2, <3>3
      <4>. HIDE DEF declared
      <4>. QED BY <2>1, <4>1, <4>2, <4>3, <4>4
    <3>. QED BY <3>1, <3>2, <3>3
  <2>7. ASSUME IsArray(u), Has(r, "items"), \A x \in Range(u.arr) : Conforms[<<r.items, x>>],
               NEW y \in Range(v.arr)
        PROVE  Conforms[<<r.items, y>>]
    <3>1. PICK i \in DOMAIN v.arr : y = v.arr[i]
      BY DEF Range
    <3>2. /\ i \in DOMAIN u.arr /\ u.arr[i] \in Payloads /\ y \in Dropped(u.arr[i], Names)
      BY <2>7, <3>1, DroppedParts
    <3>3. Keeps(r.items, u.arr[i], y) /\ Conforms[<<r.items, u.arr[i]>>]
      BY <1>1, <2>7, <3>1, <3>2, KeepsFacts DEF Range
    <3>. QED BY <2>1, <2>7, <3>2, <3>3, ChildFacts
  <2>8. \A m, x : Meant(m, r, x) <=>
            /\ Has(r, "enum") => Text(x) \in r.enum
            /\ Has(r, "allOf") => \A b \in Range(r.allOf) : m[<<b, x>>]
            /\ Has(r, "oneOf") => \E b \in Range(r.oneOf) : m[<<b, x>>]
            /\ Has(r, "anyOf") => \E b \in Range(r.anyOf) : m[<<b, x>>]
            /\ DOMAIN x \subseteq KindOf(type)
            /\ type = "object" =>
                /\ required \subseteq DOMAIN x.obj
                /\ \A k \in DOMAIN declared \intersect DOMAIN x.obj : m[<<declared[k], x.obj[k]>>]
                /\ Has(r, "closed") => DOMAIN x.obj \subseteq permitted
            /\ type = "array" /\ Has(r, "items") => \A y \in Range(x.arr) : m[<<r.items, y>>]
    BY DEF Meant
  <2>. HIDE DEF type, required, declared, permitted
  <2>9. \A k \in Keywords : Has(r, k) => k \in DOMAIN r \intersect Keywords
    BY DEF Has
  <2>10. /\ Has(r, "allOf") => \A b \in Range(r.allOf) : Conforms[<<b, v>>]
         /\ Has(r, "oneOf") => \E b \in Range(r.oneOf) : Conforms[<<b, v>>]
         /\ Has(r, "anyOf") => \E b \in Range(r.anyOf) : Conforms[<<b, v>>]
    BY <2>3, <2>4, <2>8, <2>9 DEF Keywords
  <2>11. DOMAIN u \subseteq KindOf(type)
    BY <2>3, <2>8
  <2>12. type = "object" =>
            /\ required \subseteq DOMAIN v.obj
            /\ \A k \in DOMAIN declared \intersect DOMAIN v.obj : Conforms[<<declared[k], v.obj[k]>>]
            /\ Has(r, "closed") => DOMAIN v.obj \subseteq permitted
    BY <2>3, <2>5, <2>6, <2>8, <2>11
  <2>13. type = "array" /\ Has(r, "items") => \A y \in Range(v.arr) : Conforms[<<r.items, y>>]
    BY <2>3, <2>5, <2>7, <2>8, <2>11
  <2>14. Has(r, "enum") => Text(v) \in r.enum
    BY <2>2, <2>3, <2>8
  <2>15. Meant(Conforms, r, v)
    BY <2>2, <2>8, <2>10, <2>11, <2>12, <2>13, <2>14
  <2>. QED BY <2>2, <2>15, ConformsUnfold
<1>2. \A r \in Schemata : (\A t \in Schemata : SchemaRank[t] < SchemaRank[r] => t \in T) => r \in T
  BY <1>1
<1>. HIDE DEF T
<1>3. Schemata \subseteq T
  BY <1>2, SchemaRankFacts, RankInduction
<1>. QED BY <1>3 DEF T

--------------------------------------------------------------------------------

\* What pardoning under the parts leaves, pardoning under the whole leaves.
Pardons(g, s) == \A c \in Children(s), v \in Payloads : g[<<c, v>>] \in Dropped(v, Names)

SameInside(g, h, s) == \A c \in Children(s), v \in Payloads : g[<<c, v>>] = h[<<c, v>>]

\* What conjunctions are pardoned.
LEMMA PardonAllOf ==
    ASSUME NEW s \in Schemata, Has(s, "allOf"), NEW p \in Payloads, NEW g, Pardons(g, s)
    PROVE  /\ InTurn(g, s.allOf, p) \in Dropped(p, Names)
           /\ \A h : SameInside(g, h, s) => InTurn(g, s.allOf, p) = InTurn(h, s.allOf, p)
<1>. DEFINE W == Dropped(p, Names)
            n == Len(s.allOf)
<1>1. "allOf" \in DOMAIN s \intersect Keywords
  BY DEF Has, Keywords
<1>2. n \in Nat /\ DOMAIN s.allOf = 1..n /\ p \in W
  BY <1>1, BranchFacts, DroppedSelf
<1>3. ASSUME NEW i \in 1..n, NEW q \in W
      PROVE  s.allOf[i] \in Children(s) /\ q \in Payloads /\ g[<<s.allOf[i], q>>] \in W
  <2>1. s.allOf[i] \in Children(s) /\ q \in Payloads
    BY <1>1, <1>2, ChildFacts, DroppedKind
  <2>2. g[<<s.allOf[i], q>>] \in Dropped(q, Names)
    BY <2>1 DEF Pardons
  <2>. QED BY <2>1, <2>2, DroppedTwice
<1>. HIDE DEF n, W
<1>4. InTurn(g, s.allOf, p) \in W
  <2>1. PICK t : t[n] = InTurn(g, s.allOf, p) /\ \A i \in 0..n : t[i] \in W
    BY <1>2, <1>3, InTurnSteps
  <2>. QED BY <1>2, <2>1
<1>5. ASSUME NEW h, SameInside(g, h, s) PROVE InTurn(g, s.allOf, p) = InTurn(h, s.allOf, p)
  <2>1. \A i \in 1..n : \A q \in W :
            g[<<s.allOf[i], q>>] \in W /\ h[<<s.allOf[i], q>>] = g[<<s.allOf[i], q>>]
    BY <1>3, <1>5 DEF SameInside
  <2>. QED BY <1>2, <2>1, InTurnSame
<1>. QED BY <1>4, <1>5 DEF W

LEMMA PardonFacts ==
    ASSUME NEW s \in Schemata, NEW p \in Payloads, NEW g, Pardons(g, s)
    PROVE  /\ Pardon(g, s, p) \in Dropped(p, Names)
           /\ \A h : SameInside(g, h, s) => Pardon(g, s, p) = Pardon(h, s, p)
<1>. DEFINE type == NormalizeTypeName(Field(s, "type", "none"))
            declared == Field(s, "properties", << >>)
            kept == {k \in DOMAIN p.obj : k \in Optional(s) => p.obj[k] # Blank}
            alone == DOMAIN s \intersect Keywords = {}
            members(e) == [k \in kept |-> IF k \in DOMAIN declared THEN e[<<declared[k], p.obj[k]>>] ELSE p.obj[k]]
            items(e) == [i \in DOMAIN p.arr |-> e[<<s.items, p.arr[i]>>]]
<1>0. Has(s, "allOf") => ~alone
  BY DEF Has, Keywords
<1>1. CASE Has(s, "allOf")
  <2>1. \A e : Pardon(e, s, p) = InTurn(e, s.allOf, p)
    BY <1>0, <1>1 DEF Pardon
  <2>. QED BY <1>1, <2>1, PardonAllOf
<1>2. CASE alone /\ type = "object" /\ IsObject(p)
  <2>1. \A e : Pardon(e, s, p) = [obj |-> members(e)]
    BY <1>0, <1>2 DEF Pardon
  <2>2. \A k \in DOMAIN declared : declared[k] \in Children(s)
    BY ChildFacts, EmptySchema DEF Field
  <2>. HIDE DEF declared
  <2>3. ASSUME NEW k \in kept
        PROVE  /\ p.obj[k] \in Payloads
               /\ members(g)[k] \in Dropped(p.obj[k], Names)
    <3>1. p.obj[k] \in Payloads
      BY <1>2, PayloadFacts
    <3>2. k \in DOMAIN declared => g[<<declared[k], p.obj[k]>>] \in Dropped(p.obj[k], Names)
      BY <2>2, <3>1 DEF Pardons
    <3>. QED BY <3>1, <3>2, DroppedSelf
  <2>4. \A k \in DOMAIN p.obj \ kept : k \in Names /\ p.obj[k] = Blank
    BY <1>2 DEF Names
  <2>5. [obj |-> members(g)] \in Dropped(p, Names)
    <3>1. /\ DOMAIN members(g) = kept /\ kept \subseteq DOMAIN p.obj
          /\ members(g) = [k \in DOMAIN members(g) |-> members(g)[k]]
      OBVIOUS
    <3>. HIDE DEF members, kept
    <3>. QED BY <1>2, <2>3, <2>4, <3>1, DroppedObject
  <2>6. ASSUME NEW h, SameInside(g, h, s) PROVE members(g) = members(h)
    <3>1. ASSUME NEW k \in kept, k \in DOMAIN declared
          PROVE  g[<<declared[k], p.obj[k]>>] = h[<<declared[k], p.obj[k]>>]
      BY <2>2, <2>3, <2>6, <3>1 DEF SameInside
    <3>. HIDE DEF kept
    <3>. QED BY <3>1
  <2>. HIDE DEF members
  <2>. QED BY <2>1, <2>5, <2>6
<1>3. CASE alone /\ type = "array" /\ IsArray(p) /\ Has(s, "items")
  <2>1. \A e : Pardon(e, s, p) = [arr |-> items(e)]
    BY <1>0, <1>3 DEF Pardon
  <2>2. s.items \in Children(s)
    BY <1>3, ChildFacts
  <2>3. ASSUME NEW i \in DOMAIN p.arr
        PROVE  p.arr[i] \in Payloads /\ items(g)[i] \in Dropped(p.arr[i], Names)
    BY <1>3, <2>2, PayloadFacts DEF Pardons
  <2>4. [arr |-> items(g)] \in Dropped(p, Names)
    <3>1. DOMAIN items(g) = DOMAIN p.arr /\ items(g) = [i \in DOMAIN items(g) |-> items(g)[i]]
      OBVIOUS
    <3>. HIDE DEF items
    <3>. QED BY <1>3, <2>3, <3>1, DroppedArray
  <2>5. ASSUME NEW h, SameInside(g, h, s) PROVE items(g) = items(h)
    <3>1. \A i \in DOMAIN p.arr : g[<<s.items, p.arr[i]>>] = h[<<s.items, p.arr[i]>>]
      BY <2>2, <2>3, <2>5 DEF SameInside
    <3>. QED BY <3>1
  <2>. HIDE DEF items
  <2>. QED BY <2>1, <2>4, <2>5
<1>4. CASE /\ ~Has(s, "allOf")
           /\ ~(alone /\ type = "object" /\ IsObject(p))
           /\ ~(alone /\ type = "array" /\ IsArray(p) /\ Has(s, "items"))
  <2>1. \A e : Pardon(e, s, p) = p
    BY <1>4 DEF Pardon
  <2>. QED BY <2>1, DroppedSelf
<1>. QED BY <1>1, <1>2, <1>3, <1>4

\* Pardoned is what its definition says, and leaves what is left of the payload when some
\* blank members are dropped.
LEMMA PardonedFacts ==
    ASSUME NEW s \in Schemata, NEW p \in Payloads
    PROVE  /\ Pardoned[<<s, p>>] = Pardon(Pardoned, s, p)
           /\ Pardoned[<<s, p>>] \in Dropped(p, Names)
<1>. DEFINE S == Pairs(Schemata)
            V == [x \in S |-> Dropped(x[2], Names)]
            rank == PairRank(Schemata)
            F == [g \in MappingsInto(S, V) |-> [x \in S |-> Pardon(g, x[1], x[2])]]
<1>0. \A x \in S : x[1] \in Schemata /\ x[2] \in Payloads
  BY DEF Pairs
<1>1. ASSUME NEW g \in MappingsInto(S, V), NEW r \in Schemata PROVE Pardons(g, r)
  <2>1. ASSUME NEW c \in Children(r), NEW v \in Payloads PROVE g[<<c, v>>] \in Dropped(v, Names)
    <3>1. <<c, v>> \in S
      BY SchemaFacts DEF Pairs
    <3>2. g[<<c, v>>] \in V[<<c, v>>]
      <4>. HIDE DEF S, V
      <4>. QED BY <3>1 DEF MappingsInto
    <3>. QED BY <3>1, <3>2
  <2>. QED BY <2>1 DEF Pardons
<1>2. ASSUME NEW g \in MappingsInto(S, V) PROVE F[g] \in MappingsInto(S, V)
  <2>1. ASSUME NEW x \in S PROVE F[g][x] \in V[x]
    <3>1. Pardon(g, x[1], x[2]) \in Dropped(x[2], Names)
      BY <1>0, <1>1, PardonFacts
    <3>. HIDE DEF S
    <3>. QED BY <3>1
  <2>2. F[g] = [x \in S |-> F[g][x]]
    OBVIOUS
  <2>. HIDE DEF F, S, V
  <2>. QED BY <2>1, <2>2 DEF MappingsInto
<1>3. ASSUME NEW g \in MappingsInto(S, V), NEW h \in MappingsInto(S, V), NEW x \in S,
             \A y \in S : rank[y] < rank[x] => g[y] = h[y]
      PROVE  F[g][x] = F[h][x]
  <2>1. ASSUME NEW c \in Children(x[1]), NEW v \in Payloads PROVE g[<<c, v>>] = h[<<c, v>>]
    <3>1. c \in Schemata /\ Size[c] < Size[x[1]]
      BY <1>0, SchemaFacts
    <3>2. <<c, v>> \in S
      BY <3>1 DEF Pairs
    <3>3. rank[<<c, v>>] = Size[c] /\ rank[x] = Size[x[1]]
      BY <3>2 DEF PairRank
    <3>. QED BY <1>3, <3>1, <3>2, <3>3
  <2>2. Pardon(g, x[1], x[2]) = Pardon(h, x[1], x[2])
    <3>1. Pardons(g, x[1])
      BY <1>0, <1>1
    <3>. HIDE DEF S, V, rank
    <3>. QED BY <1>0, <2>1, <3>1, PardonFacts DEF SameInside
  <2>. HIDE DEF S
  <2>. QED BY <2>2
<1>4. rank \in [S -> Nat]
  <2>1. \A x \in S : Size[x[1]] \in Nat
    BY <1>0, SchemaFacts
  <2>. QED BY <2>1 DEF PairRank
<1>5. Recursive(S, V, rank, F)
  <2>1. \A x \in S : V[x] # {}
    BY <1>0, DroppedSelf
  <2>2. F \in [MappingsInto(S, V) -> MappingsInto(S, V)]
    <3>. HIDE DEF V, S
    <3>. QED BY <1>2
  <2>. HIDE DEF S, V, F, rank
  <2>. QED BY <1>3, <1>4, <2>1, <2>2 DEF Recursive
<1>6. PICK f \in MappingsInto(S, V) : f = F[f]
  <2>. HIDE DEF S, V, F, rank
  <2>. QED BY <1>5, Recursion
<1>7. f = [x \in Schemata \X Payloads |-> Pardon(f, x[1], x[2])]
  <2>. HIDE DEF V
  <2>. QED BY <1>6 DEF Pairs
<1>8. Pardoned = [x \in Schemata \X Payloads |-> Pardon(Pardoned, x[1], x[2])]
  BY <1>7 DEF Pardoned
<1>. DEFINE T == {r \in Schemata : \A q \in Payloads : Pardoned[<<r, q>>] \in Dropped(q, Names)}
<1>9. ASSUME NEW r \in Schemata, \A c \in Schemata : SchemaRank[c] < SchemaRank[r] => c \in T
      PROVE  r \in T
  <2>1. Pardons(Pardoned, r)
    BY <1>9, SchemaRankFacts DEF Pardons
  <2>2. \A q \in Payloads : Pardon(Pardoned, r, q) \in Dropped(q, Names)
    BY <2>1, PardonFacts
  <2>. QED BY <1>8, <2>2
<1>10. Schemata \subseteq T
  <2>. HIDE DEF T
  <2>. QED BY <1>9, SchemaRankFacts, RankInduction
<1>. QED BY <1>8, <1>10

SameFit(g, h, s) == \A c \in Children(s), u, v \in Payloads : g[<<c, u, v>>] = h[<<c, u, v>>]

\* Whether a payload fits depends only on what fits the parts.
LEMMA FittingSame ==
    ASSUME NEW g, NEW h, NEW s \in Schemata, NEW p \in Payloads, NEW q \in Payloads,
           SameFit(g, h, s)
    PROVE  Fitting(g, s, p, q) = Fitting(h, s, p, q)
<1>0. \A c \in Children(s), u, v \in Payloads : g[<<c, u, v>>] = h[<<c, u, v>>]
  BY DEF SameFit
<1>. DEFINE type == NormalizeTypeName(Field(s, "type", "none"))
            required == Field(s, "required", {})
            declared == Field(s, "properties", << >>)
            permitted == DOMAIN declared \union (IF Has(s, "properties") THEN required ELSE {})
<1>1. \A e : Fitting(e, s, p, q) <=>
        /\ Has(s, "enum") => Text(q) \in s.enum
        /\ Has(s, "allOf") => \A b \in Range(s.allOf) : e[<<b, p, q>>]
        /\ \A k \in DOMAIN s \intersect {"oneOf", "anyOf"} :
            \E b \in Range(s[k]) : e[<<b, p, Pardoned[<<b, p>>]>>]
        /\ DOMAIN q = DOMAIN p /\ DOMAIN q \subseteq KindOf(type)
        /\ type = "object" =>
            /\ required \subseteq DOMAIN q.obj
            /\ \A k \in DOMAIN declared \intersect DOMAIN p.obj \intersect DOMAIN q.obj :
                e[<<declared[k], p.obj[k], q.obj[k]>>]
            /\ Has(s, "closed") => DOMAIN q.obj \subseteq permitted
        /\ type = "array" /\ Has(s, "items") =>
            \A i \in DOMAIN p.arr \intersect DOMAIN q.arr : e[<<s.items, p.arr[i], q.arr[i]>>]
  BY DEF Fitting
<1>2. ASSUME NEW k \in DOMAIN s \intersect Keywords, NEW b \in Range(s[k])
      PROVE  /\ g[<<b, p, q>>] = h[<<b, p, q>>]
             /\ g[<<b, p, Pardoned[<<b, p>>]>>] = h[<<b, p, Pardoned[<<b, p>>]>>]
  <2>1. b \in Children(s) /\ b \in Schemata
    BY ChildFacts, SchemaFacts DEF Range
  <2>2. Pardoned[<<b, p>>] \in Payloads
    BY <2>1, PardonedFacts, DroppedKind
  <2>. QED BY <1>0, <2>1, <2>2
<1>3. ASSUME DOMAIN q = DOMAIN p, DOMAIN q \subseteq KindOf(type)
      PROVE  /\ type = "object" => IsObject(p) /\ IsObject(q)
             /\ type = "array" => IsArray(p) /\ IsArray(q)
  <2>1. \E k \in Scalars \union {"obj", "arr"} : DOMAIN p = {k}
    BY PayloadFacts
  <2>. QED BY <1>3, <2>1 DEF KindOf, IsObject, IsArray
<1>4. ASSUME IsObject(p), IsObject(q),
             NEW k \in DOMAIN declared \intersect DOMAIN p.obj \intersect DOMAIN q.obj
      PROVE  g[<<declared[k], p.obj[k], q.obj[k]>>] = h[<<declared[k], p.obj[k], q.obj[k]>>]
  <2>1. p.obj[k] \in Payloads /\ q.obj[k] \in Payloads
    BY <1>4, PayloadFacts
  <2>2. declared[k] \in Children(s)
    BY <1>4, ChildFacts, EmptySchema DEF Field
  <2>. HIDE DEF declared
  <2>. QED BY <1>0, <2>1, <2>2
<1>5. ASSUME IsArray(p), IsArray(q), Has(s, "items"), NEW i \in DOMAIN p.arr \intersect DOMAIN q.arr
      PROVE  g[<<s.items, p.arr[i], q.arr[i]>>] = h[<<s.items, p.arr[i], q.arr[i]>>]
  BY <1>0, <1>5, PayloadFacts, ChildFacts
<1>. HIDE DEF type, required, declared, permitted
<1>6. Has(s, "allOf") => "allOf" \in DOMAIN s \intersect Keywords
  BY DEF Has, Keywords
<1>7. \A k \in DOMAIN s \intersect {"oneOf", "anyOf"} : k \in DOMAIN s \intersect Keywords
  BY DEF Keywords
<1>8. Fitting(g, s, p, q) <=> Fitting(h, s, p, q)
  <2>1. Has(s, "allOf") =>
            ((\A b \in Range(s.allOf) : g[<<b, p, q>>]) <=> \A b \in Range(s.allOf) : h[<<b, p, q>>])
    BY <1>2, <1>6
  <2>2. (\A k \in DOMAIN s \intersect {"oneOf", "anyOf"} : \E b \in Range(s[k]) : g[<<b, p, Pardoned[<<b, p>>]>>])
            <=> \A k \in DOMAIN s \intersect {"oneOf", "anyOf"} : \E b \in Range(s[k]) : h[<<b, p, Pardoned[<<b, p>>]>>]
    BY <1>2, <1>7
  <2>3. CASE ~(DOMAIN q = DOMAIN p /\ DOMAIN q \subseteq KindOf(type))
    BY <1>1, <2>3
  <2>4. CASE DOMAIN q = DOMAIN p /\ DOMAIN q \subseteq KindOf(type)
    <3>1. type = "object" =>
            ((\A k \in DOMAIN declared \intersect DOMAIN p.obj \intersect DOMAIN q.obj :
                g[<<declared[k], p.obj[k], q.obj[k]>>])
             <=> \A k \in DOMAIN declared \intersect DOMAIN p.obj \intersect DOMAIN q.obj :
                h[<<declared[k], p.obj[k], q.obj[k]>>])
      BY <1>3, <1>4, <2>4
    <3>2. type = "array" /\ Has(s, "items") =>
            ((\A i \in DOMAIN p.arr \intersect DOMAIN q.arr : g[<<s.items, p.arr[i], q.arr[i]>>])
             <=> \A i \in DOMAIN p.arr \intersect DOMAIN q.arr : h[<<s.items, p.arr[i], q.arr[i]>>])
      BY <1>3, <1>5, <2>4
    <3>. QED BY <1>1, <2>1, <2>2, <3>1, <3>2
  <2>. QED BY <2>3, <2>4
<1>9. Fitting(g, s, p, q) \in BOOLEAN /\ Fitting(h, s, p, q) \in BOOLEAN
  BY DEF Fitting
<1>. QED BY <1>8, <1>9

\* Fits is what its definition says.
LEMMA FitsUnfold ==
    ASSUME NEW s \in Schemata, NEW p \in Payloads, NEW q \in Payloads
    PROVE  Fits[<<s, p, q>>] = Fitting(Fits, s, p, q)
<1>. DEFINE V == [x \in Changes |-> BOOLEAN]
            rank == [x \in Changes |-> Size[x[1]]]
            F == [g \in MappingsInto(Changes, V) |-> [x \in Changes |-> Fitting(g, x[1], x[2], x[3])]]
<1>0. \A x \in Changes : x[1] \in Schemata /\ x[2] \in Payloads /\ x[3] \in Payloads
  BY DEF Changes
<1>1. ASSUME NEW g \in MappingsInto(Changes, V) PROVE F[g] \in MappingsInto(Changes, V)
  <2>1. \A x \in Changes : F[g][x] \in BOOLEAN
    BY DEF Fitting
  <2>2. F[g] = [x \in Changes |-> F[g][x]]
    OBVIOUS
  <2>. HIDE DEF F
  <2>. QED BY <2>1, <2>2 DEF MappingsInto
<1>2. ASSUME NEW g \in MappingsInto(Changes, V), NEW h \in MappingsInto(Changes, V), NEW x \in Changes,
             \A y \in Changes : rank[y] < rank[x] => g[y] = h[y]
      PROVE  F[g][x] = F[h][x]
  <2>1. ASSUME NEW c \in Children(x[1]), NEW u \in Payloads, NEW v \in Payloads
        PROVE  g[<<c, u, v>>] = h[<<c, u, v>>]
    <3>1. c \in Schemata /\ Size[c] < Size[x[1]]
      BY <1>0, SchemaFacts
    <3>2. <<c, u, v>> \in Changes /\ <<c, u, v>>[1] = c
      BY <3>1 DEF Changes
    <3>3. rank[<<c, u, v>>] < rank[x]
      BY <3>1, <3>2
    <3>. QED BY <1>2, <3>2, <3>3
  <2>2. Fitting(g, x[1], x[2], x[3]) = Fitting(h, x[1], x[2], x[3])
    <3>1. SameFit(g, h, x[1])
      BY <2>1 DEF SameFit
    <3>. HIDE DEF V, rank
    <3>. QED BY <1>0, <3>1, FittingSame
  <2>. QED BY <2>2
<1>3. rank \in [Changes -> Nat]
  BY <1>0, SchemaFacts
<1>4. Recursive(Changes, V, rank, F)
  <2>1. \A x \in Changes : V[x] # {}
    OBVIOUS
  <2>2. F \in [MappingsInto(Changes, V) -> MappingsInto(Changes, V)]
    <3>. HIDE DEF V
    <3>. QED BY <1>1
  <2>. HIDE DEF V, F, rank
  <2>. QED BY <1>2, <1>3, <2>1, <2>2 DEF Recursive
<1>5. PICK f \in MappingsInto(Changes, V) : f = F[f]
  <2>. HIDE DEF V, F, rank
  <2>. QED BY <1>4, Recursion
<1>6. f = [x \in Schemata \X Payloads \X Payloads |-> Fitting(f, x[1], x[2], x[3])]
  <2>. HIDE DEF V
  <2>. QED BY <1>5 DEF Changes
<1>7. Fits = [x \in Schemata \X Payloads \X Payloads |-> Fitting(Fits, x[1], x[2], x[3])]
  BY <1>6 DEF Fits
<1>8. <<s, p, q>> \in Schemata \X Payloads \X Payloads
  OBVIOUS
<1>. QED BY <1>7, <1>8

--------------------------------------------------------------------------------

\* A normalized schema is a function, and so are its properties.
LEMMA NormalizeFunctions ==
    ASSUME NEW s \in Schemata
    PROVE  LET n == NormalizeSchema[s]
           IN  /\ n = [f \in DOMAIN n |-> n[f]]
               /\ Has(n, "properties") => n["properties"] = [k \in DOMAIN n["properties"] |-> n["properties"][k]]
<1>. DEFINE m == Inside(NormalizeSchema, s)
            n == NormalizeSchema[s]
            value(f) == CASE f = "type" -> NormalizeTypeName(m.type)
                          [] f = "properties" -> Over(m.properties, [name \in Field(m, "required", {}) |-> << >>])
                          [] OTHER -> m[f]
<1>1. n = [f \in DOMAIN m |-> value(f)]
  BY NormalizeUnfold DEF Corrected
<1>. HIDE DEF m, n
<1>2. n = [f \in DOMAIN n |-> n[f]]
  <2>. HIDE DEF value
  <2>. QED BY <1>1
<1>3. ASSUME Has(n, "properties") PROVE n["properties"] = [k \in DOMAIN n["properties"] |-> n["properties"][k]]
  <2>1. n["properties"] = Over(m.properties, [name \in Field(m, "required", {}) |-> << >>])
    BY <1>1, <1>3 DEF Has
  <2>. QED BY <2>1 DEF Over
<1>. QED BY <1>2, <1>3 DEF n

\* What is inside a schema that prepares is prepared for adjusting payloads.
LEMMA ChildPrepared ==
    ASSUME NEW s \in Schemata, NormalizeSchema[s] \in Prepared, NEW c \in Children(s)
    PROVE  c \in Schemata /\ NormalizeSchema[c] \in Prepared /\ NormalizeSchema[c] \in Schemata
<1>1. c \in Schemata /\ NormalizeSchema[c] \in Prepared
  BY ChildNormalized, SchemaFacts, PreparedFacts
<1>. QED BY <1>1, PreparedFacts

\* A branch merged with a keyword that stands alone is the branch.
LEMMA MergeAlone ==
    ASSUME NEW s \in Schemata, StandsAlone(s), NEW k \in DOMAIN s \intersect Keywords, NEW i \in DOMAIN s[k]
    PROVE  Merge(NormalizeSchema[s], NormalizeSchema[s][k][i], k) = NormalizeSchema[s[k][i]]
<1>. DEFINE n == NormalizeSchema[s]
            b == NormalizeSchema[s[k][i]]
            rest == RestrictDomain(n, LAMBDA f : f # k)
            m == Merge(n, b, k)
<1>1. s[k][i] \in Schemata
  BY ChildFacts, SchemaFacts
<1>2. DOMAIN n = DOMAIN s /\ n[k] = [j \in DOMAIN s[k] |-> NormalizeSchema[s[k][j]]]
  BY NormalizeFacts
<1>3. n[k][i] = b
  BY <1>2
<1>4. DOMAIN b = DOMAIN s[k][i]
  BY <1>1, NormalizeFacts
<1>5. /\ b = [f \in DOMAIN b |-> b[f]]
      /\ Has(b, "properties") => b["properties"] = [f \in DOMAIN b["properties"] |-> b["properties"][f]]
  BY <1>1, NormalizeFunctions
<1>6. DOMAIN rest \subseteq {"type"} /\ DOMAIN rest \subseteq DOMAIN b
  <2>1. DOMAIN rest = DOMAIN s \ {k}
    BY <1>2 DEF RestrictDomain, Restrict
  <2>2. DOMAIN s \subseteq {k, "type"} /\ (Has(s, "type") => Has(s[k][i], "type"))
    BY DEF StandsAlone, Range
  <2>. QED BY <1>4, <2>1, <2>2 DEF Has
<1>. HIDE DEF n, b, rest
<1>. DEFINE value(f) == CASE f = "properties" -> Over(Field(b, f, << >>), Field(rest, f, << >>))
                          [] f = "required" -> Field(rest, f, {}) \union Field(b, f, {})
                          [] OTHER -> Field(b, f, Field(rest, f, << >>))
<1>7. m = [f \in DOMAIN rest \union DOMAIN b |-> value(f)]
  BY DEF Merge, rest
<1>8. ASSUME NEW f \in DOMAIN b PROVE value(f) = b[f]
  <2>1. CASE f = "properties"
    <3>1. Field(rest, f, << >>) = << >> /\ Field(b, f, << >>) = b["properties"]
      BY <1>6, <2>1 DEF Field, Has
    <3>2. value(f) = Over(b["properties"], << >>)
      BY <2>1, <3>1
    <3>3. b["properties"] = [x \in DOMAIN b["properties"] |-> b["properties"][x]]
      BY <1>5, <2>1 DEF Has
    <3>4. Over(b["properties"], << >>) = [x \in DOMAIN b["properties"] |-> b["properties"][x]]
      BY EmptySchema DEF Over
    <3>. QED BY <2>1, <3>2, <3>3, <3>4
  <2>2. CASE f = "required"
    <3>1. Field(rest, f, {}) = {} /\ Field(b, f, {}) = b["required"]
      BY <1>6, <2>2 DEF Field, Has
    <3>. QED BY <2>2, <3>1
  <2>3. CASE f # "properties" /\ f # "required"
    BY <2>3 DEF Field, Has
  <2>. QED BY <2>1, <2>2, <2>3
<1>9. m = [f \in DOMAIN b |-> b[f]]
  <2>1. DOMAIN rest \union DOMAIN b = DOMAIN b
    BY <1>6
  <2>. HIDE DEF value, m
  <2>. QED BY <1>7, <1>8, <2>1
<1>. QED BY <1>3, <1>5, <1>9 DEF m, n, b

\* What is adjusted is what is left of the payload.
LEMMA AdjustedLeft ==
    ASSUME NEW s \in Prepared, NEW p \in Payloads
    PROVE  NormalizePayload[<<s, p>>] \in Dropped(p, Names) /\ NormalizePayload[<<s, p>>] \in Payloads
<1>1. NormalizePayload[<<s, p>>] \in Dropped(p, Excusable(s))
  BY NormalizePayloadDrops
<1>2. Dropped(p, Excusable(s)) \subseteq Dropped(p, Names)
  BY DroppedMore
<1>. QED BY <1>1, <1>2, DroppedKind

\* allOf adjusts to one branch after the other,
LEMMA AllOfSteps ==
    ASSUME NEW s \in Schemata, NormalizeSchema[s] \in Prepared, StandsAlone(s), Has(s, "allOf"),
           NEW p \in Payloads
    PROVE  \E t : /\ t[0] = p /\ t[Len(s.allOf)] = NormalizePayload[<<NormalizeSchema[s], p>>]
                  /\ \A i \in 0..Len(s.allOf) : t[i] \in Dropped(p, Names)
                  /\ \A i \in 1..Len(s.allOf) :
                        t[i] = NormalizePayload[<<NormalizeSchema[s.allOf[i]], t[i - 1]>>]
<1>. DEFINE n == NormalizeSchema[s]
            l == Len(s.allOf)
            W == Dropped(p, Names)
            ms == [i \in DOMAIN n.allOf |-> Merge(n, n.allOf[i], "allOf")]
<1>1. "allOf" \in DOMAIN s \intersect Keywords
  BY DEF Has, Keywords
<1>2. l \in Nat /\ DOMAIN s.allOf = 1..l
  BY <1>1, BranchFacts
<1>3. DOMAIN n = DOMAIN s /\ n["allOf"] = [i \in DOMAIN s.allOf |-> NormalizeSchema[s.allOf[i]]]
  BY <1>1, NormalizeFacts
<1>4. \A i \in 1..l : Merge(n, n["allOf"][i], "allOf") = NormalizeSchema[s.allOf[i]]
  BY <1>1, <1>2, MergeAlone
<1>5. \A i \in 1..l : NormalizeSchema[s.allOf[i]] \in Prepared
  BY <1>1, <1>2, ChildFacts, ChildPrepared
<1>. HIDE DEF n, l
<1>6. DOMAIN ms = 1..l /\ \A i \in 1..l : ms[i] = NormalizeSchema[s.allOf[i]]
  BY <1>2, <1>3, <1>4
<1>7. NormalizePayload[<<n, p>>] = InTurn(NormalizePayload, ms, p)
  <2>1. Adjusted(NormalizePayload, n, p) = AdjustedAllOf(NormalizePayload, n, p)
    BY <1>1, <1>3 DEF Adjusted
  <2>2. NormalizePayload[<<n, p>>] = Adjusted(NormalizePayload, n, p)
    BY NormalizePayloadUnfold DEF n
  <2>. QED BY <2>1, <2>2 DEF AdjustedAllOf
<1>. HIDE DEF ms
<1>8. ASSUME NEW i \in 1..l, NEW q \in W PROVE NormalizePayload[<<ms[i], q>>] \in W
  <2>1. q \in Payloads
    BY DroppedKind
  <2>2. NormalizePayload[<<ms[i], q>>] \in Dropped(q, Names)
    BY <1>5, <1>6, <2>1, AdjustedLeft
  <2>. QED BY <2>2, DroppedTwice
<1>9. p \in W
  BY DroppedSelf
<1>. HIDE DEF W
<1>10. PICK t : /\ t[0] = p /\ t[l] = InTurn(NormalizePayload, ms, p)
                /\ \A i \in 0..l : t[i] \in W
                /\ \A i \in 1..l : t[i] = NormalizePayload[<<ms[i], t[i - 1]>>]
  BY <1>2, <1>6, <1>8, <1>9, InTurnSteps
<1>11. \A i \in 1..l : t[i] = NormalizePayload[<<NormalizeSchema[s.allOf[i]], t[i - 1]>>]
  BY <1>6, <1>10
<1>. QED BY <1>7, <1>10, <1>11 DEF n, l, W

\* and so is what it pardons.
LEMMA PardonedSteps ==
    ASSUME NEW s \in Schemata, Has(s, "allOf"), NEW p \in Payloads
    PROVE  \E t : /\ t[0] = p /\ t[Len(s.allOf)] = Pardoned[<<s, p>>]
                  /\ \A i \in 0..Len(s.allOf) : t[i] \in Dropped(p, Names)
                  /\ \A i \in 1..Len(s.allOf) : t[i] = Pardoned[<<s.allOf[i], t[i - 1]>>]
<1>. DEFINE l == Len(s.allOf)
            W == Dropped(p, Names)
<1>1. "allOf" \in DOMAIN s \intersect Keywords
  BY DEF Has, Keywords
<1>2. l \in Nat /\ DOMAIN s.allOf = 1..l
  BY <1>1, BranchFacts
<1>3. Pardoned[<<s, p>>] = InTurn(Pardoned, s.allOf, p)
  <2>1. Pardon(Pardoned, s, p) = InTurn(Pardoned, s.allOf, p)
    BY <1>1 DEF Pardon
  <2>. QED BY <2>1, PardonedFacts
<1>4. ASSUME NEW i \in 1..l, NEW q \in W PROVE Pardoned[<<s.allOf[i], q>>] \in W
  <2>1. q \in Payloads /\ s.allOf[i] \in Schemata
    BY <1>1, <1>2, DroppedKind, ChildFacts, SchemaFacts
  <2>2. Pardoned[<<s.allOf[i], q>>] \in Dropped(q, Names)
    BY <2>1, PardonedFacts
  <2>. QED BY <2>2, DroppedTwice
<1>5. p \in W
  BY DroppedSelf
<1>. HIDE DEF W, l
<1>6. \E t : /\ t[0] = p /\ t[l] = InTurn(Pardoned, s.allOf, p)
             /\ \A i \in 0..l : t[i] \in W
             /\ \A i \in 1..l : t[i] = Pardoned[<<s.allOf[i], t[i - 1]>>]
  BY <1>2, <1>4, <1>5, InTurnSteps
<1>. QED BY <1>3, <1>6 DEF W, l

\* A choice adjusts to a branch that leaves no more errors than another, if it has branches.
LEMMA ChoiceAdjusted ==
    ASSUME NEW s \in Schemata, NormalizeSchema[s] \in Prepared, StandsAlone(s),
           NEW k \in {"oneOf", "anyOf"}, k \in DOMAIN s, NEW p \in Payloads
    PROVE  LET a == NormalizePayload[<<NormalizeSchema[s], p>>]
               adjusted(i) == NormalizePayload[<<NormalizeSchema[s[k][i]], p>>]
           IN  \/ DOMAIN s[k] = {} /\ a = p
               \/ \E i \in DOMAIN s[k] :
                    /\ a = adjusted(i)
                    /\ \A j \in DOMAIN s[k] :
                        Errors[<<NormalizeSchema[s[k][i]], a>>] <= Errors[<<NormalizeSchema[s[k][j]], adjusted(j)>>]
<1>. DEFINE n == NormalizeSchema[s]
            a == NormalizePayload[<<n, p>>]
            D == DOMAIN s[k]
            adjusted(i) == NormalizePayload[<<NormalizeSchema[s[k][i]], p>>]
            merged == [i \in DOMAIN n[k] |-> Merge(n, n[k][i], k)]
            fitted == [i \in DOMAIN n[k] |-> NormalizePayload[<<merged[i], p>>]]
            errors == [i \in DOMAIN n[k] |-> Errors[<<merged[i], fitted[i]>>]]
<1>1. k \in DOMAIN s \intersect Keywords
  BY DEF Keywords
<1>2. DOMAIN n = DOMAIN s /\ n[k] = [i \in DOMAIN s[k] |-> NormalizeSchema[s[k][i]]]
  BY <1>1, NormalizeFacts
<1>3. DOMAIN s \intersect Keywords = {k}
  BY <1>1 DEF StandsAlone, Keywords
<1>4. \A i \in D : /\ Merge(n, n[k][i], k) = NormalizeSchema[s[k][i]]
                   /\ NormalizeSchema[s[k][i]] \in Prepared /\ NormalizeSchema[s[k][i]] \in Schemata
  BY <1>1, MergeAlone, ChildFacts, ChildPrepared
<1>5. a = AdjustedVariant(NormalizePayload, n, p, k)
  <2>1. a = Adjusted(NormalizePayload, n, p)
    BY NormalizePayloadUnfold
  <2>. HIDE DEF n, a
  <2>2. Adjusted(NormalizePayload, n, p) = AdjustedVariant(NormalizePayload, n, p, k)
    BY <1>2, <1>3 DEF Adjusted
  <2>. QED BY <2>1, <2>2
<1>6. a = IF D = {} THEN p ELSE fitted[BestBranch(errors)]
  <2>1. DOMAIN n[k] = D
    BY <1>2
  <2>. HIDE DEF n, a
  <2>2. AdjustedVariant(NormalizePayload, n, p, k) =
            IF DOMAIN n[k] = {} THEN p ELSE fitted[BestBranch(errors)]
    BY DEF AdjustedVariant
  <2>. HIDE DEF fitted, errors
  <2>. QED BY <1>5, <2>1, <2>2
<1>. HIDE DEF n, a
<1>7. /\ DOMAIN errors = D
      /\ \A i \in D : /\ merged[i] = NormalizeSchema[s[k][i]]
                      /\ fitted[i] = adjusted(i)
                      /\ errors[i] = Errors[<<NormalizeSchema[s[k][i]], adjusted(i)>>]
  BY <1>2, <1>4
<1>. HIDE DEF errors, fitted, merged
<1>8. ASSUME NEW i \in D PROVE errors[i] \in Nat
  <2>1. adjusted(i) \in Payloads
    BY <1>4, AdjustedLeft
  <2>. HIDE DEF adjusted
  <2>. QED BY <1>4, <1>7, <2>1, ErrorsNat
<1>9. D = 1..Len(s[k]) /\ Len(s[k]) \in Nat
  BY <1>1, BranchFacts
<1>10. ASSUME D # {}
       PROVE  \E i \in D : a = adjusted(i) /\ \A j \in D : errors[i] <= errors[j]
  <2>1. /\ BestBranch(errors) \in D
        /\ \A i \in D : errors[BestBranch(errors)] <= errors[i]
    BY <1>7, <1>8, <1>9, <1>10, BestFacts
  <2>. HIDE DEF adjusted
  <2>. QED BY <1>6, <1>7, <1>10, <2>1
<1>. HIDE DEF adjusted
<1>11. D = {} => a = p
  BY <1>6
<1>12. ASSUME D # {}
       PROVE  \E i \in D :
                /\ a = adjusted(i)
                /\ \A j \in D : Errors[<<NormalizeSchema[s[k][i]], a>>] <= Errors[<<NormalizeSchema[s[k][j]], adjusted(j)>>]
  <2>1. PICK i \in D : a = adjusted(i) /\ \A j \in D : errors[i] <= errors[j]
    BY <1>10, <1>12
  <2>2. errors[i] = Errors[<<NormalizeSchema[s[k][i]], a>>]
    BY <1>7, <2>1
  <2>3. \A j \in D : errors[j] = Errors[<<NormalizeSchema[s[k][j]], adjusted(j)>>]
    BY <1>7
  <2>. QED BY <2>1, <2>2, <2>3
<1>. QED BY <1>11, <1>12 DEF n, a, adjusted

\* Members are kept and adjusted one by one,
LEMMA MembersAdjusted ==
    ASSUME NEW s \in Schemata, NormalizeSchema[s] \in Prepared, DOMAIN s \intersect Keywords = {},
           NormalizeTypeName(Field(s, "type", "none")) = "object", NEW p \in Payloads, IsObject(p)
    PROVE  LET a == NormalizePayload[<<NormalizeSchema[s], p>>]
               declared == Field(s, "properties", << >>)
           IN  /\ IsObject(a)
               /\ DOMAIN a.obj = {k \in DOMAIN p.obj : k \in Optional(s) => p.obj[k] # Blank}
               /\ \A k \in DOMAIN a.obj :
                    a.obj[k] = IF k \in DOMAIN declared
                               THEN NormalizePayload[<<NormalizeSchema[declared[k]], p.obj[k]>>]
                               ELSE p.obj[k]
<1>. DEFINE n == NormalizeSchema[s]
            a == NormalizePayload[<<n, p>>]
            declared == Field(s, "properties", << >>)
            required == Field(s, "required", {})
            members == Field(n, "properties", << >>)
            kept == {k \in DOMAIN p.obj : k \in DOMAIN members => ~Drops(k, p.obj[k], n)}
<1>1. /\ DOMAIN n = DOMAIN s
      /\ Has(s, "type") => n["type"] = NormalizeTypeName(s.type)
      /\ Has(s, "properties") =>
            /\ DOMAIN n["properties"] = DOMAIN s.properties \union Field(s, "required", {})
            /\ \A k \in DOMAIN s.properties : n["properties"][k] = NormalizeSchema[s.properties[k]]
            /\ \A k \in Field(s, "required", {}) \ DOMAIN s.properties : n["properties"][k] = << >>
      /\ Has(s, "required") => n["required"] = s.required
  BY NormalizeFacts DEF Has
<1>2. a = Adjusted(NormalizePayload, n, p)
  BY NormalizePayloadUnfold
<1>3. \A c \in Children(n) : c \in Prepared
  BY PreparedFacts
<1>. HIDE DEF n, a
<1>4. Field(n, "type", "none") = "object"
  <2>1. NormalizeTypeName("none") = "none"
    BY DEF NormalizeTypeName
  <2>. QED BY <1>1, <2>1 DEF Field, Has
<1>5. Field(n, "required", {}) = required
  BY <1>1 DEF Field, Has
<1>6. a = AdjustedMembers(NormalizePayload, n, p)
  <2>1. DOMAIN n \intersect Keywords = {} /\ ~IsArray(p)
    BY <1>1 DEF IsArray, IsObject
  <2>2. Adjusted(NormalizePayload, n, p) = AdjustedMembers(NormalizePayload, n, p)
    BY <1>4, <2>1 DEF Adjusted
  <2>. QED BY <1>2, <2>2
<1>7. a = [obj |-> [k \in kept |->
            IF k \in DOMAIN members THEN NormalizePayload[<<members[k], p.obj[k]>>] ELSE p.obj[k]]]
  BY <1>6 DEF AdjustedMembers
<1>8. ASSUME NEW k \in DOMAIN declared
      PROVE  /\ Has(s, "properties") /\ declared = s.properties
             /\ k \in DOMAIN members /\ members[k] = NormalizeSchema[declared[k]]
             /\ n.properties[k] = NormalizeSchema[declared[k]] /\ declared[k] \in Schemata
  <2>1. Has(s, "properties") /\ declared = s.properties
    BY EmptySchema DEF Field
  <2>2. members = n["properties"]
    BY <1>1, <2>1 DEF Field, Has
  <2>3. s.properties[k] \in Children(s)
    BY <2>1, ChildFacts
  <2>. QED BY <1>1, <2>1, <2>2, <2>3, SchemaFacts
<1>9. ASSUME NEW k \in DOMAIN members, k \notin DOMAIN declared
      PROVE  members[k] = << >> /\ k \in required /\ << >> \in Prepared
  <2>1. Has(n, "properties") /\ Has(s, "properties") /\ declared = s.properties /\ members = n["properties"]
    BY <1>1, EmptySchema DEF Field, Has
  <2>2. members[k] = << >> /\ k \in required
    BY <1>1, <1>9, <2>1
  <2>3. members[k] \in Children(n)
    BY <2>1, ChildFacts
  <2>. QED BY <1>3, <2>2, <2>3
<1>10. ASSUME NEW v \in Payloads, << >> \in Prepared
       PROVE  NormalizePayload[<< << >>, v>>] = v
  <2>1. DOMAIN << >> \intersect Keywords = {} /\ Field(<< >>, "type", "none") = "none"
    BY EmptySchema DEF Field, Has
  <2>2. Adjusted(NormalizePayload, << >>, v) = v
    BY <2>1 DEF Adjusted
  <2>. QED BY <1>10, <2>2, NormalizePayloadUnfold
<1>11. ASSUME NEW k \in DOMAIN declared, NEW v
       PROVE  Drops(k, v, n) <=> k \in Optional(s) /\ v = Blank
  <2>. DEFINE c == declared[k]
              q == NormalizeSchema[c]
  <2>1. /\ DOMAIN q = DOMAIN c
        /\ Has(c, "type") => q["type"] = NormalizeTypeName(c.type)
        /\ Has(c, "enum") => q["enum"] = c.enum
    BY <1>8, NormalizeFacts DEF Has
  <2>2. n.properties[k] = q /\ s.properties[k] = c
    BY <1>8
  <2>. HIDE DEF q, c
  <2>3. Field(q, "type", "none") = NormalizeTypeName(Field(c, "type", "none"))
    <3>1. NormalizeTypeName("none") = "none"
      BY DEF NormalizeTypeName
    <3>. QED BY <2>1, <3>1 DEF Field, Has
  <2>4. (Has(q, "enum") <=> Has(c, "enum")) /\ (Has(c, "enum") => q.enum = c.enum)
    BY <2>1 DEF Has
  <2>5. Drops(k, v, n) <=> k \notin required /\ v = Blank /\ LacksBlank(c)
    BY <1>5, <2>2, <2>3, <2>4 DEF Drops, LacksBlank
  <2>. HIDE DEF declared, required
  <2>6. k \in Optional(s) <=> k \notin required /\ LacksBlank(c)
    BY <2>2 DEF Optional, declared, required
  <2>. QED BY <2>5, <2>6
<1>12. ASSUME NEW k \in DOMAIN members, k \notin DOMAIN declared, NEW v
       PROVE  ~Drops(k, v, n) /\ k \notin Optional(s)
  <2>1. k \in required
    BY <1>9, <1>12
  <2>. QED BY <1>5, <2>1 DEF Drops, Optional
<1>13. \A k : k \in DOMAIN declared => k \in DOMAIN members
  BY <1>8
<1>14. \A k \in Optional(s) : k \in DOMAIN declared
  BY DEF Optional
<1>. HIDE DEF declared, members, required
<1>15. kept = {k \in DOMAIN p.obj : k \in Optional(s) => p.obj[k] # Blank}
  BY <1>11, <1>12, <1>13, <1>14
<1>16. ASSUME NEW k \in kept
       PROVE  (IF k \in DOMAIN members THEN NormalizePayload[<<members[k], p.obj[k]>>] ELSE p.obj[k])
                = IF k \in DOMAIN declared
                  THEN NormalizePayload[<<NormalizeSchema[declared[k]], p.obj[k]>>] ELSE p.obj[k]
  <2>1. p.obj[k] \in Payloads
    BY PayloadFacts
  <2>2. CASE k \in DOMAIN declared
    BY <1>8, <2>2
  <2>3. CASE k \notin DOMAIN declared
    BY <1>9, <1>10, <2>1, <2>3
  <2>. QED BY <2>2, <2>3
<1>. HIDE DEF kept
<1>17. IsObject(a) /\ DOMAIN a.obj = kept
  BY <1>7 DEF IsObject
<1>18. \A k \in DOMAIN a.obj :
        a.obj[k] = IF k \in DOMAIN members THEN NormalizePayload[<<members[k], p.obj[k]>>] ELSE p.obj[k]
  BY <1>7
<1>. QED BY <1>15, <1>16, <1>17, <1>18 DEF n, a, declared

\* items one by one too,
LEMMA ItemsAdjusted ==
    ASSUME NEW s \in Schemata, NormalizeSchema[s] \in Prepared, DOMAIN s \intersect Keywords = {},
           NormalizeTypeName(Field(s, "type", "none")) = "array", Has(s, "items"),
           NEW p \in Payloads, IsArray(p)
    PROVE  LET a == NormalizePayload[<<NormalizeSchema[s], p>>]
           IN  /\ IsArray(a) /\ DOMAIN a.arr = DOMAIN p.arr
               /\ \A i \in DOMAIN p.arr : a.arr[i] = NormalizePayload[<<NormalizeSchema[s.items], p.arr[i]>>]
<1>. DEFINE n == NormalizeSchema[s]
            a == NormalizePayload[<<n, p>>]
<1>1. /\ DOMAIN n = DOMAIN s
      /\ Has(s, "type") => n["type"] = NormalizeTypeName(s.type)
      /\ n["items"] = NormalizeSchema[s.items]
  BY NormalizeFacts
<1>2. a = Adjusted(NormalizePayload, n, p)
  BY NormalizePayloadUnfold
<1>. HIDE DEF n, a
<1>3. Field(n, "type", "none") = "array"
  <2>1. NormalizeTypeName("none") = "none"
    BY DEF NormalizeTypeName
  <2>. QED BY <1>1, <2>1 DEF Field, Has
<1>4. a = AdjustedItems(NormalizePayload, n, p)
  <2>1. DOMAIN n \intersect Keywords = {} /\ ~IsObject(p) /\ Has(n, "items")
    BY <1>1 DEF IsArray, IsObject, Has
  <2>2. Adjusted(NormalizePayload, n, p) = AdjustedItems(NormalizePayload, n, p)
    BY <1>3, <2>1 DEF Adjusted
  <2>. QED BY <1>2, <2>2
<1>5. a = [arr |-> [i \in DOMAIN p.arr |-> NormalizePayload[<<NormalizeSchema[s.items], p.arr[i]>>]]]
  BY <1>1, <1>4 DEF AdjustedItems
<1>. QED BY <1>5 DEF IsArray, a, n

\* and nothing else is adjusted.
LEMMA NothingAdjusted ==
    ASSUME NEW s \in Schemata, NormalizeSchema[s] \in Prepared, DOMAIN s \intersect Keywords = {},
           NEW p \in Payloads,
           ~(NormalizeTypeName(Field(s, "type", "none")) = "object" /\ IsObject(p)),
           ~(NormalizeTypeName(Field(s, "type", "none")) = "array" /\ Has(s, "items") /\ IsArray(p))
    PROVE  NormalizePayload[<<NormalizeSchema[s], p>>] = p
<1>. DEFINE n == NormalizeSchema[s]
            a == NormalizePayload[<<n, p>>]
            type == NormalizeTypeName(Field(s, "type", "none"))
<1>1. /\ DOMAIN n = DOMAIN s
      /\ Has(s, "type") => n["type"] = NormalizeTypeName(s.type)
  BY NormalizeFacts
<1>2. a = Adjusted(NormalizePayload, n, p)
  BY NormalizePayloadUnfold
<1>. HIDE DEF n, a
<1>3. Field(n, "type", "none") = type
  <2>1. NormalizeTypeName("none") = "none"
    BY DEF NormalizeTypeName
  <2>. QED BY <1>1, <2>1 DEF Field, Has
<1>4. DOMAIN n \intersect Keywords = {} /\ (Has(n, "items") <=> Has(s, "items"))
  BY <1>1 DEF Has
<1>. HIDE DEF type
<1>5. Adjusted(NormalizePayload, n, p) = p
  BY <1>3, <1>4 DEF Adjusted, type
<1>. QED BY <1>2, <1>5 DEF n, a

--------------------------------------------------------------------------------

\* Every keyword in s stands alone.
Alone(s) == \A q \in Parts[s] : StandsAlone(q)

LEMMA AloneFacts ==
    ASSUME NEW s \in Schemata, Alone(s)
    PROVE  StandsAlone(s) /\ \A c \in Children(s) : Alone(c)
<1>1. s \in Parts[s] /\ \A c \in Children(s) : Parts[c] \subseteq Parts[s]
  BY PartsType
<1>. QED BY <1>1 DEF Alone

\* What is kept is kept in a wider set.
LEMMA KeepsInside ==
    ASSUME NEW K, NEW s, NEW p, NEW q, Keeps(s, p, q)
    PROVE  KeepsIn(K \union {y \in Changes : Keeps(y[1], y[2], y[3])}, s, p, q)
<1>. DEFINE L == K \union {y \in Changes : Keeps(y[1], y[2], y[3])}
<1>1. \A r, u, v : Keeps(r, u, v) => <<r, u, v>> \in L
  <2>1. \A r, u, v : Keeps(r, u, v) => <<r, u, v>> \in Changes
    BY KeepsFacts DEF Changes
  <2>2. \A r, u, v : <<r, u, v>>[1] = r /\ <<r, u, v>>[2] = u /\ <<r, u, v>>[3] = v
    OBVIOUS
  <2>. QED BY <2>1, <2>2
<1>. HIDE DEF L
<1>2. KeepsIn(L, s, p, q)
  BY <1>1, KeepsFacts DEF KeepsIn
<1>. QED BY <1>2 DEF L

\* A chain of changes keeps what every one of them keeps.
LEMMA KeepsChain ==
    ASSUME NEW s \in Schemata, NEW p \in Payloads, NEW n \in Nat, NEW t, t[0] = p,
           \A i \in 0..n : t[i] \in Dropped(p, Names),
           \A i \in 1..n : t[i] \in Dropped(t[i - 1], Names) /\ Keeps(s, t[i - 1], t[i])
    PROVE  \A i \in 0..n : Keeps(s, p, t[i])
<1>. DEFINE T == {i \in Nat : i <= n => Keeps(s, p, t[i])}
<1>1. 0 \in T
  BY KeepsSelf
<1>2. ASSUME NEW i \in Nat, i \in T PROVE i + 1 \in T
  <2>1. CASE i + 1 <= n
    <3>1. i + 1 \in 1..n /\ (i + 1) - 1 = i /\ i <= n /\ i \in 0..n
      BY <2>1
    <3>2. Keeps(s, p, t[i]) /\ t[i] \in Dropped(p, Names)
      BY <1>2, <3>1
    <3>3. t[i + 1] \in Dropped(t[i], Names) /\ Keeps(s, t[i], t[i + 1])
      BY <3>1
    <3>4. Keeps(s, p, t[i + 1])
      BY <3>2, <3>3, KeepsOn
    <3>. QED BY <3>4
  <2>2. CASE ~(i + 1 <= n)
    BY <2>2
  <2>. QED BY <2>1, <2>2
<1>. HIDE DEF T
<1>3. Nat \subseteq T
  BY <1>1, <1>2, Induction
<1>. QED BY <1>3 DEF T

\* Adjusting to a schema that spares another loses nothing the other requires.
LEMMA AdjustKeeps ==
    ASSUME NEW s \in Schemata, NormalizeSchema[s] \in Prepared, Alone(s),
           NEW t \in Schemata, Spares[<<s, t>>], NEW p \in Payloads
    PROVE  Keeps(t, p, NormalizePayload[<<NormalizeSchema[s], p>>])
<1>. DEFINE T == {r \in Schemata : NormalizeSchema[r] \in Prepared /\ Alone(r) =>
                    \A u \in Schemata, v \in Payloads :
                        Spares[<<r, u>>] => Keeps(u, v, NormalizePayload[<<NormalizeSchema[r], v>>])}
<1>1. ASSUME NEW r \in Schemata, \A c \in Schemata : SchemaRank[c] < SchemaRank[r] => c \in T,
             NormalizeSchema[r] \in Prepared, Alone(r),
             NEW u \in Schemata, NEW v \in Payloads, Spares[<<r, u>>]
      PROVE  Keeps(u, v, NormalizePayload[<<NormalizeSchema[r], v>>])
  <2>. DEFINE A(c, x) == NormalizePayload[<<NormalizeSchema[c], x>>]
  <2>1. ASSUME NEW c \in Children(r), NEW w \in Schemata, Spares[<<c, w>>], NEW x \in Payloads
        PROVE  Keeps(w, x, A(c, x))
    <3>1. c \in T /\ Alone(c) /\ NormalizeSchema[c] \in Prepared
      BY <1>1, SchemaRankFacts, AloneFacts, ChildPrepared
    <3>. QED BY <2>1, <3>1
  <2>2. StandsAlone(r)
    BY <1>1, AloneFacts
  <2>3. ASSUME NEW k \in DOMAIN r \intersect Keywords, NEW i \in DOMAIN r[k]
        PROVE  /\ r[k][i] \in Children(r) /\ Spares[<<r[k][i], u>>]
               /\ NormalizeSchema[r[k][i]] \in Prepared
    <3>1. r[k][i] \in Children(r) /\ r[k][i] \in Branches(r)
      BY ChildFacts, BranchesFacts
    <3>. QED BY <1>1, <3>1, SparesFacts, ChildPrepared
  <2>. HIDE DEF T
  <2>4. CASE Has(r, "allOf")
    <3>1. "allOf" \in DOMAIN r \intersect Keywords
      BY <2>4 DEF Has, Keywords
    <3>2. Len(r.allOf) \in Nat /\ DOMAIN r.allOf = 1..Len(r.allOf)
      BY <3>1, BranchFacts
    <3>3. PICK steps : /\ steps[0] = v /\ steps[Len(r.allOf)] = A(r, v)
                    /\ \A i \in 0..Len(r.allOf) : steps[i] \in Dropped(v, Names)
                    /\ \A j \in 1..Len(r.allOf) : steps[j] = A(r.allOf[j], steps[j - 1])
      BY <1>1, <2>2, <2>4, AllOfSteps
    <3>4. ASSUME NEW i \in 1..Len(r.allOf)
          PROVE  steps[i] \in Dropped(steps[i - 1], Names) /\ Keeps(u, steps[i - 1], steps[i])
      <4>1. i - 1 \in 0..Len(r.allOf)
        BY <3>2
      <4>2. steps[i - 1] \in Payloads
        BY <3>3, <4>1, DroppedKind
      <4>3. r.allOf[i] \in Children(r) /\ Spares[<<r.allOf[i], u>>] /\ NormalizeSchema[r.allOf[i]] \in Prepared
        BY <2>3, <3>1, <3>2
      <4>4. A(r.allOf[i], steps[i - 1]) \in Dropped(steps[i - 1], Names)
        BY <4>2, <4>3, AdjustedLeft
      <4>5. Keeps(u, steps[i - 1], A(r.allOf[i], steps[i - 1]))
        BY <2>1, <4>2, <4>3
      <4>. QED BY <3>3, <4>4, <4>5
    <3>5. Keeps(u, v, steps[Len(r.allOf)])
      <4>1. Len(r.allOf) \in 0..Len(r.allOf)
        BY <3>2
      <4>. HIDE DEF A
      <4>. QED BY <3>2, <3>3, <3>4, <4>1, KeepsChain
    <3>. QED BY <3>3, <3>5
  <2>5. ASSUME NEW k \in {"oneOf", "anyOf"}, k \in DOMAIN r
        PROVE  Keeps(u, v, A(r, v))
    <3>1. A(r, v) = v \/ \E i \in DOMAIN r[k] : A(r, v) = A(r[k][i], v)
      BY <1>1, <2>2, <2>5, ChoiceAdjusted
    <3>2. CASE A(r, v) = v
      BY <3>2, KeepsSelf
    <3>3. ASSUME NEW i \in DOMAIN r[k], A(r, v) = A(r[k][i], v)
          PROVE  Keeps(u, v, A(r, v))
      <4>1. r[k][i] \in Children(r) /\ Spares[<<r[k][i], u>>]
        BY <2>3, <2>5 DEF Keywords
      <4>2. Keeps(u, v, A(r[k][i], v))
        BY <2>1, <4>1
      <4>. QED BY <3>3, <4>2
    <3>. QED BY <3>1, <3>2, <3>3
  <2>6. CASE DOMAIN r \intersect Keywords = {}
    <3>. DEFINE type == NormalizeTypeName(Field(r, "type", "none"))
                declared == Field(r, "properties", << >>)
                K == {x \in Changes : Spares[<<r, x[1]>>] /\ x[3] = A(r, x[2])}
                W == {y \in Changes : Keeps(y[1], y[2], y[3])}
    <3>1. ASSUME NEW w \in Schemata, NEW x \in Payloads, NEW y \in Payloads, Keeps(w, x, y)
          PROVE  <<w, x, y>> \in W
      BY <3>1 DEF Changes
    <3>2. ASSUME NEW w \in Schemata, NEW x \in Payloads, Spares[<<r, w>>]
          PROVE  <<w, x, A(r, x)>> \in K
      <4>1. A(r, x) \in Payloads
        BY <1>1, AdjustedLeft
      <4>. QED BY <3>2, <4>1 DEF Changes
    <3>3. ASSUME NEW w \in Schemata, NEW x \in Payloads, Spares[<<r, w>>]
          PROVE  KeepsIn(K \union W, w, x, A(r, x))
      <4>. DEFINE wanted == Field(w, "properties", << >>)
                  a == A(r, x)
      <4>1. \A b \in Branches(w) : <<b, x, a>> \in K
        BY <3>2, <3>3, SparesFacts, KeptParts
      <4>2. CASE type = "object" /\ IsObject(x)
        <5>1. /\ IsObject(a)
              /\ DOMAIN a.obj = {k \in DOMAIN x.obj : k \in Optional(r) => x.obj[k] # Blank}
              /\ \A k \in DOMAIN a.obj :
                    a.obj[k] = IF k \in DOMAIN declared THEN A(declared[k], x.obj[k]) ELSE x.obj[k]
          BY <1>1, <2>6, <4>2, MembersAdjusted
        <5>. HIDE DEF a, K, W
        <5>2. \A k \in Field(w, "required", {}) \intersect DOMAIN x.obj : k \in DOMAIN a.obj
          BY <3>3, <5>1, SparesFacts
        <5>3. ASSUME NEW k \in DOMAIN wanted \intersect DOMAIN a.obj
              PROVE  <<wanted[k], x.obj[k], a.obj[k]>> \in W
          <6>1. wanted[k] \in Schemata /\ x.obj[k] \in Payloads
            BY <4>2, <5>1, KeptParts, PayloadFacts
          <6>2. CASE k \in DOMAIN declared
            <7>1. /\ Has(r, "properties") /\ declared = r.properties
                  /\ Has(w, "properties") /\ wanted = w.properties
              BY <6>2, EmptySchema DEF Field
            <7>2. Spares[<<declared[k], wanted[k]>>]
              BY <3>3, <6>2, <7>1, SparesFacts
            <7>3. declared[k] \in Children(r)
              BY <6>2, <7>1, ChildFacts
            <7>. HIDE DEF declared, wanted
            <7>4. Keeps(wanted[k], x.obj[k], A(declared[k], x.obj[k]))
              BY <2>1, <6>1, <7>2, <7>3
            <7>5. A(declared[k], x.obj[k]) \in Payloads
              BY <7>4, KeepsFacts
            <7>6. a.obj[k] = A(declared[k], x.obj[k])
              BY <5>1, <6>2
            <7>. HIDE DEF A
            <7>. QED BY <3>1, <6>1, <7>4, <7>5, <7>6
          <6>3. CASE k \notin DOMAIN declared
            <7>1. a.obj[k] = x.obj[k]
              BY <5>1, <6>3
            <7>. HIDE DEF declared, wanted
            <7>. QED BY <3>1, <6>1, <7>1, KeepsSelf
          <6>. QED BY <6>2, <6>3
        <5>4. ~IsArray(x)
          BY <4>2 DEF IsObject, IsArray
        <5>. HIDE DEF A
        <5>5. KeepsIn(K \union W, w, x, a)
          BY <4>1, <5>2, <5>3, <5>4 DEF KeepsIn, wanted
        <5>. QED BY <5>5 DEF a
      <4>3. CASE type = "array" /\ Has(r, "items") /\ IsArray(x)
        <5>1. /\ IsArray(a) /\ DOMAIN a.arr = DOMAIN x.arr
              /\ \A i \in DOMAIN x.arr : a.arr[i] = A(r.items, x.arr[i])
          BY <1>1, <2>6, <4>3, ItemsAdjusted
        <5>. HIDE DEF a, K, W
        <5>2. ASSUME Has(w, "items"), NEW i \in DOMAIN a.arr
              PROVE  <<w.items, x.arr[i], a.arr[i]>> \in W
          <6>1. w.items \in Schemata /\ x.arr[i] \in Payloads
            BY <4>3, <5>1, <5>2, KeptParts, PayloadFacts
          <6>2. Spares[<<r.items, w.items>>] /\ r.items \in Children(r)
            BY <3>3, <4>3, <5>2, SparesFacts, ChildFacts
          <6>3. Keeps(w.items, x.arr[i], A(r.items, x.arr[i]))
            BY <2>1, <6>1, <6>2
          <6>4. A(r.items, x.arr[i]) \in Payloads /\ a.arr[i] = A(r.items, x.arr[i])
            BY <5>1, <6>3, KeepsFacts
          <6>. HIDE DEF A
          <6>. QED BY <3>1, <6>1, <6>3, <6>4
        <5>3. ~IsObject(x)
          BY <4>3 DEF IsObject, IsArray
        <5>. HIDE DEF A
        <5>4. KeepsIn(K \union W, w, x, a)
          BY <4>1, <5>2, <5>3 DEF KeepsIn
        <5>. QED BY <5>4 DEF a
      <4>4. CASE /\ ~(type = "object" /\ IsObject(x))
                 /\ ~(type = "array" /\ Has(r, "items") /\ IsArray(x))
        <5>1. a = x
          BY <1>1, <2>6, <4>4, NothingAdjusted
        <5>2. Keeps(w, x, a)
          BY <5>1, KeepsSelf
        <5>. HIDE DEF A, K
        <5>. QED BY <5>2, KeepsInside
      <4>. QED BY <4>2, <4>3, <4>4
    <3>4. ASSUME NEW x \in K PROVE KeepsIn(K \union W, x[1], x[2], x[3])
      <4>1. x[1] \in Schemata /\ x[2] \in Payloads /\ Spares[<<r, x[1]>>] /\ x[3] = A(r, x[2])
        BY DEF Changes
      <4>. HIDE DEF A, K, W
      <4>. QED BY <3>3, <4>1
    <3>5. K \in SUBSET Changes /\ <<u, v, A(r, v)>> \in K
      <4>1. <<u, v, A(r, v)>> \in K
        BY <1>1, <3>2
      <4>. QED BY <4>1
    <3>. HIDE DEF A
    <3>6. \A x \in K : Keeps(x[1], x[2], x[3])
      <4>. HIDE DEF K
      <4>. QED BY <3>4, <3>5, KeepsAll
    <3>. HIDE DEF K
    <3>7. Keeps(<<u, v, A(r, v)>>[1], <<u, v, A(r, v)>>[2], <<u, v, A(r, v)>>[3])
      BY <3>5, <3>6
    <3>. QED BY <3>7 DEF A
  <2>7. Has(r, "allOf") \/ (\E k \in {"oneOf", "anyOf"} : k \in DOMAIN r) \/ DOMAIN r \intersect Keywords = {}
    BY DEF Has, Keywords
  <2>. QED BY <2>4, <2>5, <2>6, <2>7
<1>2. \A r \in Schemata : (\A c \in Schemata : SchemaRank[c] < SchemaRank[r] => c \in T) => r \in T
  BY <1>1
<1>. HIDE DEF T
<1>3. Schemata \subseteq T
  BY <1>2, SchemaRankFacts, RankInduction
<1>. QED BY <1>3 DEF T

--------------------------------------------------------------------------------

\* Of an object and of an array Pardoned says what is pardoned of each part, and of anything
\* else that nothing is.
LEMMA PardonedMembers ==
    ASSUME NEW s \in Schemata, DOMAIN s \intersect Keywords = {},
           NormalizeTypeName(Field(s, "type", "none")) = "object", NEW p \in Payloads, IsObject(p)
    PROVE  LET a == Pardoned[<<s, p>>]
               declared == Field(s, "properties", << >>)
           IN  /\ IsObject(a)
               /\ DOMAIN a.obj = {k \in DOMAIN p.obj : k \in Optional(s) => p.obj[k] # Blank}
               /\ \A k \in DOMAIN a.obj :
                    a.obj[k] = IF k \in DOMAIN declared THEN Pardoned[<<declared[k], p.obj[k]>>] ELSE p.obj[k]
<1>. DEFINE declared == Field(s, "properties", << >>)
            kept == {k \in DOMAIN p.obj : k \in Optional(s) => p.obj[k] # Blank}
<1>1. ~Has(s, "allOf") /\ ~IsArray(p)
  BY DEF Has, Keywords, IsObject, IsArray
<1>2. Pardon(Pardoned, s, p) = [obj |-> [k \in kept |->
        IF k \in DOMAIN declared THEN Pardoned[<<declared[k], p.obj[k]>>] ELSE p.obj[k]]]
  BY <1>1 DEF Pardon
<1>. HIDE DEF declared, kept
<1>3. Pardoned[<<s, p>>] = [obj |-> [k \in kept |->
        IF k \in DOMAIN declared THEN Pardoned[<<declared[k], p.obj[k]>>] ELSE p.obj[k]]]
  BY <1>2, PardonedFacts
<1>. QED BY <1>3 DEF IsObject, declared, kept

LEMMA PardonedItems ==
    ASSUME NEW s \in Schemata, DOMAIN s \intersect Keywords = {},
           NormalizeTypeName(Field(s, "type", "none")) = "array", Has(s, "items"),
           NEW p \in Payloads, IsArray(p)
    PROVE  LET a == Pardoned[<<s, p>>]
           IN  /\ IsArray(a) /\ DOMAIN a.arr = DOMAIN p.arr
               /\ \A i \in DOMAIN p.arr : a.arr[i] = Pardoned[<<s.items, p.arr[i]>>]
<1>1. ~Has(s, "allOf") /\ ~IsObject(p)
  BY DEF Has, Keywords, IsObject, IsArray
<1>2. Pardon(Pardoned, s, p) = [arr |-> [i \in DOMAIN p.arr |-> Pardoned[<<s.items, p.arr[i]>>]]]
  BY <1>1 DEF Pardon
<1>3. Pardoned[<<s, p>>] = [arr |-> [i \in DOMAIN p.arr |-> Pardoned[<<s.items, p.arr[i]>>]]]
  BY <1>2, PardonedFacts
<1>. QED BY <1>3 DEF IsArray

LEMMA PardonedNothing ==
    ASSUME NEW s \in Schemata, ~Has(s, "allOf"), NEW p \in Payloads,
           \/ DOMAIN s \intersect Keywords # {}
           \/ /\ ~(NormalizeTypeName(Field(s, "type", "none")) = "object" /\ IsObject(p))
              /\ ~(NormalizeTypeName(Field(s, "type", "none")) = "array" /\ Has(s, "items") /\ IsArray(p))
    PROVE  Pardoned[<<s, p>>] = p
<1>1. Pardon(Pardoned, s, p) = p
  BY DEF Pardon
<1>. QED BY <1>1, PardonedFacts

\* Adjusting a payload drops all that is pardoned, be it of what is left of the payload.
LEMMA AdjustPardons ==
    ASSUME NEW s \in Schemata, NormalizeSchema[s] \in Prepared, Alone(s),
           NEW p \in Payloads, NEW q \in Dropped(p, Names)
    PROVE  NormalizePayload[<<NormalizeSchema[s], q>>] \in Dropped(Pardoned[<<s, p>>], Names)
<1>. DEFINE T == {r \in Schemata : NormalizeSchema[r] \in Prepared /\ Alone(r) =>
                    \A u \in Payloads : \A v \in Dropped(u, Names) :
                        NormalizePayload[<<NormalizeSchema[r], v>>] \in Dropped(Pardoned[<<r, u>>], Names)}
<1>1. ASSUME NEW r \in Schemata, \A c \in Schemata : SchemaRank[c] < SchemaRank[r] => c \in T,
             NormalizeSchema[r] \in Prepared, Alone(r),
             NEW u \in Payloads, NEW v \in Dropped(u, Names)
      PROVE  NormalizePayload[<<NormalizeSchema[r], v>>] \in Dropped(Pardoned[<<r, u>>], Names)
  <2>. DEFINE A(c, x) == NormalizePayload[<<NormalizeSchema[c], x>>]
              a == A(r, v)
              b == Pardoned[<<r, u>>]
              declared == Field(r, "properties", << >>)
              type == NormalizeTypeName(Field(r, "type", "none"))
  <2>1. ASSUME NEW c \in Children(r), NEW x \in Payloads, NEW y \in Dropped(x, Names)
        PROVE  A(c, y) \in Dropped(Pardoned[<<c, x>>], Names)
    <3>1. c \in T /\ Alone(c) /\ NormalizeSchema[c] \in Prepared
      BY <1>1, SchemaRankFacts, AloneFacts, ChildPrepared
    <3>. QED BY <2>1, <3>1
  <2>2. StandsAlone(r) /\ v \in Payloads
    BY <1>1, AloneFacts, DroppedKind
  <2>3. a \in Payloads /\ a \in Dropped(v, Names) /\ b \in Payloads /\ b \in Dropped(u, Names)
    BY <1>1, <2>2, AdjustedLeft, PardonedFacts, DroppedKind
  <2>. HIDE DEF T
  <2>4. CASE Has(r, "allOf")
    <3>. DEFINE n == Len(r.allOf)
    <3>1. "allOf" \in DOMAIN r \intersect Keywords
      BY <2>4 DEF Has, Keywords
    <3>2. n \in Nat /\ DOMAIN r.allOf = 1..n
      BY <3>1, BranchFacts
    <3>3. PICK adjusted : /\ adjusted[0] = v /\ adjusted[n] = a
                          /\ \A i \in 0..n : adjusted[i] \in Dropped(v, Names)
                          /\ \A i \in 1..n : adjusted[i] = A(r.allOf[i], adjusted[i - 1])
      BY <1>1, <2>2, <2>4, AllOfSteps
    <3>4. PICK pardoned : /\ pardoned[0] = u /\ pardoned[n] = b
                          /\ \A i \in 0..n : pardoned[i] \in Dropped(u, Names)
                          /\ \A i \in 1..n : pardoned[i] = Pardoned[<<r.allOf[i], pardoned[i - 1]>>]
      BY <2>4, PardonedSteps
    <3>. HIDE DEF n, a, b, A
    <3>. DEFINE S == {i \in Nat : i <= n => adjusted[i] \in Dropped(pardoned[i], Names)}
    <3>5. 0 \in S
      BY <3>3, <3>4
    <3>6. ASSUME NEW i \in Nat, i \in S PROVE i + 1 \in S
      <4>1. CASE i + 1 <= n
        <5>1. i + 1 \in 1..n /\ (i + 1) - 1 = i /\ i <= n /\ i \in 0..n
          BY <3>2, <4>1
        <5>2. adjusted[i] \in Dropped(pardoned[i], Names) /\ pardoned[i] \in Payloads
          BY <3>4, <3>6, <5>1, DroppedKind
        <5>3. r.allOf[i + 1] \in Children(r)
          BY <3>1, <3>2, <5>1, ChildFacts
        <5>4. A(r.allOf[i + 1], adjusted[i]) \in Dropped(Pardoned[<<r.allOf[i + 1], pardoned[i]>>], Names)
          BY <2>1, <5>2, <5>3
        <5>5. /\ adjusted[i + 1] = A(r.allOf[i + 1], adjusted[i])
              /\ pardoned[i + 1] = Pardoned[<<r.allOf[i + 1], pardoned[i]>>]
          BY <3>3, <3>4, <5>1
        <5>. QED BY <5>4, <5>5
      <4>2. CASE ~(i + 1 <= n)
        BY <4>2
      <4>. QED BY <4>1, <4>2
    <3>. HIDE DEF S
    <3>7. Nat \subseteq S
      BY <3>5, <3>6, Induction
    <3>8. adjusted[n] \in Dropped(pardoned[n], Names)
      BY <3>2, <3>7 DEF S
    <3>. QED BY <3>3, <3>4, <3>8 DEF a, b, A
  <2>5. CASE ~Has(r, "allOf") /\ DOMAIN r \intersect Keywords # {}
    <3>1. b = u
      BY <2>5, PardonedNothing
    <3>. QED BY <2>3, <3>1, DroppedTwice
  <2>6. CASE DOMAIN r \intersect Keywords = {} /\ type = "object" /\ IsObject(u)
    <3>1. /\ IsObject(v) /\ DOMAIN v.obj \subseteq DOMAIN u.obj
          /\ \A k \in DOMAIN v.obj : /\ u.obj[k] \in Payloads /\ v.obj[k] \in Payloads
                                     /\ v.obj[k] \in Dropped(u.obj[k], Names)
          /\ \A k \in DOMAIN u.obj \ DOMAIN v.obj : u.obj[k] = Blank
      BY <2>6, DroppedParts
    <3>2. /\ IsObject(a)
          /\ DOMAIN a.obj = {k \in DOMAIN v.obj : k \in Optional(r) => v.obj[k] # Blank}
          /\ \A k \in DOMAIN a.obj :
                a.obj[k] = IF k \in DOMAIN declared THEN A(declared[k], v.obj[k]) ELSE v.obj[k]
      BY <1>1, <2>2, <2>6, <3>1, MembersAdjusted
    <3>3. /\ IsObject(b)
          /\ DOMAIN b.obj = {k \in DOMAIN u.obj : k \in Optional(r) => u.obj[k] # Blank}
          /\ \A k \in DOMAIN b.obj :
                b.obj[k] = IF k \in DOMAIN declared THEN Pardoned[<<declared[k], u.obj[k]>>] ELSE u.obj[k]
      BY <2>6, PardonedMembers
    <3>4. \A k \in DOMAIN declared : declared[k] \in Children(r) /\ declared[k] \in Schemata
      BY ChildFacts, SchemaFacts, EmptySchema DEF Field
    <3>. HIDE DEF a, b, A, declared, type
    <3>5. \A k \in DOMAIN v.obj : v.obj[k] = Blank => u.obj[k] = Blank
      BY <3>1, DroppedKind
    <3>6. \A k \in DOMAIN v.obj : u.obj[k] = Blank => v.obj[k] = Blank
      <4>1. ~IsObject(Blank) /\ ~IsArray(Blank)
        BY DEF Blank, IsObject, IsArray
      <4>. QED BY <3>1, <4>1, DroppedParts
    <3>7. DOMAIN a.obj \subseteq DOMAIN b.obj
      BY <3>1, <3>2, <3>3, <3>6
    <3>8. ASSUME NEW k \in DOMAIN a.obj PROVE a.obj[k] \in Dropped(b.obj[k], Names)
      <4>1. CASE k \in DOMAIN declared
        <5>1. k \in DOMAIN v.obj /\ k \in DOMAIN u.obj /\ k \in DOMAIN b.obj
          BY <3>1, <3>2, <3>7
        <5>2. /\ a.obj[k] = A(declared[k], v.obj[k])
              /\ b.obj[k] = Pardoned[<<declared[k], u.obj[k]>>]
          BY <3>2, <3>3, <4>1, <5>1
        <5>3. declared[k] \in Children(r) /\ u.obj[k] \in Payloads /\ v.obj[k] \in Dropped(u.obj[k], Names)
          BY <3>1, <3>4, <4>1, <5>1
        <5>4. A(declared[k], v.obj[k]) \in Dropped(Pardoned[<<declared[k], u.obj[k]>>], Names)
          BY <2>1, <5>3
        <5>. QED BY <5>2, <5>4
      <4>2. CASE k \notin DOMAIN declared
        BY <3>1, <3>2, <3>3, <3>7, <4>2
      <4>. QED BY <4>1, <4>2
    <3>9. ASSUME NEW k \in DOMAIN b.obj \ DOMAIN a.obj PROVE k \in Names /\ b.obj[k] = Blank
      <4>1. k \in DOMAIN u.obj /\ k \in Names
        BY <2>6, <3>3 DEF Names
      <4>2. u.obj[k] = Blank
        BY <3>1, <3>2, <3>3, <3>5, <4>1
      <4>3. u.obj[k] \in Payloads
        BY <2>6, <4>1, PayloadFacts
      <4>4. CASE k \in DOMAIN declared
        <5>1. b.obj[k] \in Dropped(u.obj[k], Names)
          BY <3>3, <3>4, <4>3, <4>4, PardonedFacts
        <5>2. ~IsObject(Blank) /\ ~IsArray(Blank)
          BY DEF Blank, IsObject, IsArray
        <5>. QED BY <4>1, <4>2, <4>3, <5>1, <5>2, DroppedParts
      <4>5. CASE k \notin DOMAIN declared
        BY <3>3, <4>1, <4>2, <4>5
      <4>. QED BY <4>4, <4>5
    <3>10. ~IsArray(b)
      BY <3>3 DEF IsObject, IsArray
    <3>11. a \in Dropped(b, Names)
      BY <2>3, <3>2, <3>3, <3>7, <3>8, <3>9, <3>10, DroppedMember
    <3>. QED BY <3>11 DEF a, b, A
  <2>7. CASE DOMAIN r \intersect Keywords = {} /\ type = "array" /\ Has(r, "items") /\ IsArray(u)
    <3>1. /\ IsArray(v) /\ DOMAIN v.arr = DOMAIN u.arr
          /\ \A i \in DOMAIN v.arr : u.arr[i] \in Payloads /\ v.arr[i] \in Dropped(u.arr[i], Names)
      BY <2>7, DroppedParts
    <3>2. /\ IsArray(a) /\ DOMAIN a.arr = DOMAIN v.arr
          /\ \A i \in DOMAIN v.arr : a.arr[i] = A(r.items, v.arr[i])
      BY <1>1, <2>2, <2>7, <3>1, ItemsAdjusted
    <3>3. /\ IsArray(b) /\ DOMAIN b.arr = DOMAIN u.arr
          /\ \A i \in DOMAIN u.arr : b.arr[i] = Pardoned[<<r.items, u.arr[i]>>]
      BY <2>7, PardonedItems
    <3>4. r.items \in Children(r)
      BY <2>7, ChildFacts
    <3>. HIDE DEF a, b, A, declared, type
    <3>5. \A i \in DOMAIN a.arr : a.arr[i] \in Dropped(b.arr[i], Names)
      BY <2>1, <3>1, <3>2, <3>3, <3>4
    <3>6. ~IsObject(b)
      BY <3>3 DEF IsObject, IsArray
    <3>7. a \in Dropped(b, Names)
      BY <2>3, <3>1, <3>2, <3>3, <3>5, <3>6, DroppedMember
    <3>. QED BY <3>7 DEF a, b, A
  <2>8. CASE /\ DOMAIN r \intersect Keywords = {}
             /\ ~(type = "object" /\ IsObject(u))
             /\ ~(type = "array" /\ Has(r, "items") /\ IsArray(u))
    <3>1. (IsObject(v) <=> IsObject(u)) /\ (IsArray(v) <=> IsArray(u))
      BY DroppedParts
    <3>2. ~Has(r, "allOf")
      BY <2>8 DEF Has, Keywords
    <3>3. b = u
      BY <2>8, <3>2, PardonedNothing
    <3>4. a = v
      BY <1>1, <2>2, <2>8, <3>1, NothingAdjusted
    <3>. QED BY <3>3, <3>4
  <2>9. Has(r, "allOf") => DOMAIN r \intersect Keywords # {}
    BY DEF Has, Keywords
  <2>. QED BY <2>4, <2>5, <2>6, <2>7, <2>8, <2>9
<1>2. \A r \in Schemata : (\A c \in Schemata : SchemaRank[c] < SchemaRank[r] => c \in T) => r \in T
  BY <1>1
<1>. HIDE DEF T
<1>3. Schemata \subseteq T
  BY <1>2, SchemaRankFacts, RankInduction
<1>. QED BY <1>3 DEF T

--------------------------------------------------------------------------------

\* Schemas that prepare, with every keyword alone and no part spoiling another.
Orderly(s) == s \in Schemata /\ NormalizeSchema[s] \in Prepared /\ Alone(s) /\ Spares[<<s, s>>]

\* What z is when s is applied to p: it is left of q, which fits s, and of what r is adjusted
\* to, both left of p, and nothing that s requires is missing.
Applied(s, p, q, r, z) ==
    /\ p \in Payloads /\ q \in Dropped(p, Names) /\ r \in Dropped(p, Names)
    /\ z \in Dropped(q, Names) /\ z \in Dropped(NormalizePayload[<<NormalizeSchema[s], r>>], Names)
    /\ Fits[<<s, p, q>>] /\ Keeps(s, p, r) /\ Keeps(s, p, z)

Conforming(s) == \A p, q, r, z : Applied(s, p, q, r, z) => Conforms[<<s, z>>]

\* What is inside an orderly schema is orderly, and branches spare each other.
LEMMA OrderlyFacts ==
    ASSUME NEW s, Orderly(s)
    PROVE  /\ \A c \in Children(s) : Orderly(c)
           /\ \A b \in Branches(s), c \in Branches(s) : Spares[<<b, c>>]
<1>1. \A b \in Branches(s), c \in Branches(s) : Spares[<<b, c>>]
  <2>1. ASSUME NEW b \in Branches(s), NEW c \in Branches(s) PROVE Spares[<<b, c>>]
    <3>1. b \in Schemata /\ Spares[<<b, s>>]
      BY KeptParts, SparesFacts DEF Orderly
    <3>. QED BY <3>1, SparesFacts DEF Orderly
  <2>. QED BY <2>1
<1>2. ASSUME NEW c \in Children(s) PROVE Spares[<<c, c>>]
  <2>1. \/ \E f \in DOMAIN s \intersect Keywords : c \in Range(s[f])
        \/ c \in Range(Field(s, "properties", << >>))
        \/ Has(s, "items") /\ c = s.items
    BY DEF Children
  <2>2. ASSUME NEW f \in DOMAIN s \intersect Keywords, c \in Range(s[f]) PROVE Spares[<<c, c>>]
    BY <1>1, <2>2 DEF Branches
  <2>3. ASSUME c \in Range(Field(s, "properties", << >>)) PROVE Spares[<<c, c>>]
    <3>1. PICK k \in DOMAIN Field(s, "properties", << >>) : c = Field(s, "properties", << >>)[k]
      BY <2>3 DEF Range
    <3>2. c = s.properties[k]
      BY <3>1, EmptySchema DEF Field
    <3>. QED BY <3>1, <3>2, SparesFacts DEF Orderly
  <2>. QED BY <2>1, <2>2, <2>3, SparesFacts DEF Orderly
<1>3. \A c \in Children(s) : c \in Schemata /\ NormalizeSchema[c] \in Prepared /\ Alone(c)
  BY ChildPrepared, AloneFacts DEF Orderly
<1>. QED BY <1>1, <1>2, <1>3 DEF Orderly

\* What is left at the end of a chain of changes is left of every payload on the way.
LEMMA ChainDropped ==
    ASSUME NEW n \in Nat, NEW t, \A i \in 0..n : t[i] \in Payloads,
           \A i \in 1..n : t[i] \in Dropped(t[i - 1], Names), NEW i \in 0..n, NEW z \in Dropped(t[n], Names)
    PROVE  z \in Dropped(t[i], Names)
<1>. DEFINE T == {j \in Nat : i + j <= n => t[i + j] \in Dropped(t[i], Names)}
<1>1. 0 \in T
  BY DroppedSelf
<1>2. ASSUME NEW j \in Nat, j \in T PROVE j + 1 \in T
  <2>1. CASE i + (j + 1) <= n
    <3>1. i + (j + 1) \in 1..n /\ (i + (j + 1)) - 1 = i + j /\ i + j <= n
      BY <2>1
    <3>2. t[i + j] \in Dropped(t[i], Names) /\ t[i + (j + 1)] \in Dropped(t[i + j], Names)
      BY <1>2, <3>1
    <3>. QED BY <3>2, DroppedTwice
  <2>2. CASE ~(i + (j + 1) <= n)
    BY <2>2
  <2>. QED BY <2>1, <2>2
<1>. HIDE DEF T
<1>3. Nat \subseteq T
  BY <1>1, <1>2, Induction
<1>4. n - i \in Nat /\ i + (n - i) = n
  OBVIOUS
<1>5. t[n] \in Dropped(t[i], Names)
  BY <1>3, <1>4 DEF T
<1>. QED BY <1>5, DroppedTwice

\* In a conjunction, what one branch drops is not missed by another:
LEMMA AllOfConforms ==
    ASSUME NEW s, Orderly(s), \A c \in Children(s) : Conforming(c), Has(s, "allOf"),
           NEW p, NEW q, NEW r, NEW z, Applied(s, p, q, r, z), NEW j \in DOMAIN s.allOf
    PROVE  Conforms[<<s.allOf[j], z>>]
<1>. DEFINE A(c, x) == NormalizePayload[<<NormalizeSchema[c], x>>]
            n == Len(s.allOf)
            b(i) == s.allOf[i]
<1>1. "allOf" \in DOMAIN s \intersect Keywords /\ s \in Schemata /\ StandsAlone(s)
  BY AloneFacts DEF Has, Keywords, Orderly
<1>2. n \in Nat /\ DOMAIN s.allOf = 1..n
  BY <1>1, BranchFacts
<1>3. r \in Payloads /\ p \in Payloads /\ q \in Payloads
  BY DroppedKind DEF Applied
<1>4. PICK t : /\ t[0] = r /\ t[n] = A(s, r)
               /\ \A i \in 0..n : t[i] \in Dropped(r, Names)
               /\ \A i \in 1..n : t[i] = A(b(i), t[i - 1])
  BY <1>1, <1>3, AllOfSteps DEF Orderly
<1>5. \A i \in 1..n : b(i) \in Branches(s) /\ b(i) \in Children(s) /\ b(i) \in Schemata
  BY <1>1, <1>2, BranchesFacts, KeptParts
<1>6. \A i \in 0..n : t[i] \in Payloads
  BY <1>3, <1>4, DroppedKind
<1>. HIDE DEF n
<1>7. ASSUME NEW i \in 1..n
      PROVE  t[i] \in Dropped(t[i - 1], Names) /\ Keeps(b(j), t[i - 1], t[i])
  <2>1. i - 1 \in 0..n /\ j \in 1..n
    BY <1>2
  <2>2. /\ Alone(b(i)) /\ NormalizeSchema[b(i)] \in Prepared /\ t[i - 1] \in Payloads
        /\ Spares[<<b(i), b(j)>>]
    BY <1>5, <1>6, <2>1, OrderlyFacts DEF Orderly
  <2>3. A(b(i), t[i - 1]) \in Dropped(t[i - 1], Names)
    BY <2>2, AdjustedLeft
  <2>4. Keeps(b(j), t[i - 1], A(b(i), t[i - 1]))
    BY <1>5, <2>1, <2>2, AdjustKeeps
  <2>. QED BY <1>4, <2>3, <2>4
<1>. HIDE DEF A, b
<1>8. j \in 1..n /\ j - 1 \in 0..n /\ j \in 0..n
  BY <1>2
<1>9. Keeps(b(j), p, r) /\ Keeps(b(j), p, z)
  BY <1>5, <1>8, KeepsFacts DEF Applied
<1>10. Keeps(b(j), p, t[j - 1])
  <2>1. Keeps(b(j), r, t[j - 1])
    BY <1>2, <1>3, <1>4, <1>5, <1>7, <1>8, KeepsChain
  <2>. QED BY <1>3, <1>4, <1>5, <1>8, <1>9, <2>1, KeepsOn DEF Applied
<1>11. z \in Dropped(t[j], Names)
  <2>1. z \in Dropped(t[n], Names)
    BY <1>4 DEF Applied, A
  <2>. QED BY <1>2, <1>6, <1>7, <1>8, <2>1, ChainDropped
<1>12. t[j - 1] \in Dropped(p, Names)
  BY <1>3, <1>4, <1>8, DroppedTwice DEF Applied
<1>13. Fits[<<b(j), p, q>>]
  <2>1. Fitting(Fits, s, p, q)
    BY <1>1, <1>3, FitsUnfold DEF Applied
  <2>. QED BY <2>1 DEF Fitting, Range, b
<1>14. z \in Dropped(A(b(j), t[j - 1]), Names)
  BY <1>4, <1>8, <1>11
<1>15. Applied(b(j), p, q, t[j - 1], z)
  BY <1>9, <1>10, <1>12, <1>13, <1>14 DEF Applied, A
<1>16. Conforming(b(j))
  BY <1>5, <1>8
<1>17. Conforms[<<b(j), z>>]
  BY <1>15, <1>16 DEF Conforming
<1>. QED BY <1>17 DEF b

\* of a choice, the branch that fits best conforms if any branch fits;
LEMMA ChoiceConforms ==
    ASSUME NEW s, Orderly(s), \A c \in Children(s) : Conforming(c),
           NEW k \in {"oneOf", "anyOf"}, k \in DOMAIN s,
           NEW p, NEW q, NEW r, NEW z, Applied(s, p, q, r, z)
    PROVE  \E b \in Range(s[k]) : Conforms[<<b, z>>]
<1>. DEFINE A(c, x) == NormalizePayload[<<NormalizeSchema[c], x>>]
            a == A(s, r)
            b(i) == s[k][i]
<1>1. k \in DOMAIN s \intersect Keywords /\ s \in Schemata /\ StandsAlone(s)
  BY AloneFacts DEF Keywords, Orderly
<1>2. r \in Payloads /\ p \in Payloads /\ q \in Payloads
  BY DroppedKind DEF Applied
<1>3. ASSUME NEW i \in DOMAIN s[k]
      PROVE  /\ b(i) \in Branches(s) /\ b(i) \in Children(s) /\ b(i) \in Schemata /\ Orderly(b(i))
             /\ NormalizeSchema[b(i)] \in Schemata /\ Alone(b(i)) /\ NormalizeSchema[b(i)] \in Prepared
             /\ A(b(i), r) \in Dropped(r, Names) /\ A(b(i), r) \in Payloads
             /\ Keeps(b(i), p, r) /\ Keeps(b(i), p, z)
  <2>1. b(i) \in Branches(s) /\ b(i) \in Children(s) /\ b(i) \in Schemata /\ Orderly(b(i))
    BY <1>1, BranchesFacts, KeptParts, OrderlyFacts
  <2>2. NormalizeSchema[b(i)] \in Schemata /\ Alone(b(i)) /\ NormalizeSchema[b(i)] \in Prepared
    BY <2>1, PreparedFacts DEF Orderly
  <2>3. A(b(i), r) \in Dropped(r, Names) /\ A(b(i), r) \in Payloads
    BY <1>2, <2>2, AdjustedLeft
  <2>4. Keeps(b(i), p, r) /\ Keeps(b(i), p, z)
    BY <2>1, KeepsFacts DEF Applied
  <2>. QED BY <2>1, <2>2, <2>3, <2>4
<1>4. PICK j \in DOMAIN s[k] : Fits[<<b(j), p, Pardoned[<<b(j), p>>]>>]
  <2>1. Fitting(Fits, s, p, q)
    BY <1>1, <1>2, FitsUnfold DEF Applied
  <2>. QED BY <2>1 DEF Fitting, Range
<1>5. Conforms[<<b(j), A(b(j), r)>>]
  <2>. DEFINE y == A(b(j), r)
              f == Pardoned[<<b(j), p>>]
  <2>1. f \in Dropped(p, Names) /\ r \in Dropped(p, Names)
    BY <1>2, <1>3, PardonedFacts DEF Applied
  <2>2. y \in Dropped(f, Names)
    BY <1>2, <1>3, <2>1, AdjustPardons
  <2>3. y \in Payloads /\ y \in Dropped(r, Names)
    BY <1>3
  <2>4. y \in Dropped(y, Names)
    <3>. HIDE DEF y
    <3>. QED BY <2>3, DroppedSelf
  <2>5. Keeps(b(j), r, y)
    BY <1>2, <1>3, AdjustKeeps DEF Orderly
  <2>6. Keeps(b(j), p, r) /\ b(j) \in Schemata
    BY <1>3
  <2>. HIDE DEF y, f, b, A
  <2>7. Keeps(b(j), p, y)
    BY <1>2, <2>1, <2>3, <2>5, <2>6, KeepsOn
  <2>8. Applied(b(j), p, f, r, y)
    BY <1>2, <1>4, <2>1, <2>2, <2>4, <2>6, <2>7 DEF Applied, y, f, A
  <2>9. Conforming(b(j))
    BY <1>3
  <2>10. Conforms[<<b(j), y>>]
    BY <2>8, <2>9 DEF Conforming
  <2>. QED BY <2>10 DEF y
<1>6. Errors[<<NormalizeSchema[b(j)], A(b(j), r)>>] = 0
  <2>1. /\ b(j) \in Schemata /\ NormalizeSchema[b(j)] \in Schemata /\ A(b(j), r) \in Payloads
    BY <1>3
  <2>. HIDE DEF A, b
  <2>. QED BY <1>5, <2>1, ValidConforms
<1>7. PICK i \in DOMAIN s[k] :
        /\ a = A(b(i), r)
        /\ Errors[<<NormalizeSchema[b(i)], a>>] <= Errors[<<NormalizeSchema[b(j)], A(b(j), r)>>]
  <2>0. NormalizeSchema[s] \in Prepared
    BY DEF Orderly
  <2>1. \/ DOMAIN s[k] = {} /\ a = r
        \/ \E i \in DOMAIN s[k] :
            /\ a = A(b(i), r)
            /\ \A m \in DOMAIN s[k] :
                Errors[<<NormalizeSchema[b(i)], a>>] <= Errors[<<NormalizeSchema[b(m)], A(b(m), r)>>]
    BY <1>1, <1>2, <2>0, ChoiceAdjusted, Zenon
  <2>. HIDE DEF a, A, b
  <2>. QED BY <2>1
<1>8. a \in Dropped(r, Names) /\ a \in Payloads
  BY <1>3, <1>7
<1>9. Conforms[<<b(i), a>>]
  <2>1. b(i) \in Schemata /\ NormalizeSchema[b(i)] \in Schemata
    BY <1>3
  <2>. HIDE DEF a, A, b
  <2>2. Errors[<<NormalizeSchema[b(i)], a>>] \in Nat
    BY <1>8, <2>1, ErrorsNat
  <2>3. Errors[<<NormalizeSchema[b(i)], a>>] = 0
    BY <1>6, <1>7, <2>2
  <2>. QED BY <1>8, <2>1, <2>3, ValidConforms
<1>10. z \in Dropped(a, Names)
  BY DEF Applied
<1>11. b(i) \in Schemata /\ Keeps(b(i), p, z)
  BY <1>3
<1>12. a \in Dropped(p, Names)
  <2>1. r \in Dropped(p, Names)
    BY DEF Applied
  <2>. HIDE DEF a
  <2>. QED BY <1>2, <1>8, <2>1, DroppedTwice
<1>. HIDE DEF a, b, A
<1>13. Keeps(b(i), a, z)
  BY <1>2, <1>10, <1>11, <1>12, KeepsLater
<1>14. Conforms[<<b(i), z>>]
  BY <1>8, <1>9, <1>10, <1>11, <1>13, ConformsKept
<1>. QED BY <1>14 DEF b, Range

\* what is left of the members
LEMMA MembersConform ==
    ASSUME NEW s, Orderly(s), \A c \in Children(s) : Conforming(c),
           NormalizeTypeName(Field(s, "type", "none")) = "object",
           NEW p, NEW q, NEW r, NEW z, Applied(s, p, q, r, z), IsObject(p)
    PROVE  \A k \in DOMAIN Field(s, "properties", << >>) \intersect DOMAIN z.obj :
                Conforms[<<Field(s, "properties", << >>)[k], z.obj[k]>>]
<1>. DEFINE A(c, x) == NormalizePayload[<<NormalizeSchema[c], x>>]
            a == A(s, r)
            declared == Field(s, "properties", << >>)
<1>1. SUFFICES ASSUME NEW k \in DOMAIN declared \intersect DOMAIN z.obj
               PROVE  Conforms[<<declared[k], z.obj[k]>>]
  OBVIOUS
<1>2. s \in Schemata /\ StandsAlone(s)
  BY AloneFacts DEF Orderly
<1>3. r \in Payloads /\ p \in Payloads /\ q \in Payloads
  BY DroppedKind DEF Applied
<1>4. Has(s, "properties") /\ declared = s.properties /\ declared[k] \in Children(s)
  BY ChildFacts, EmptySchema DEF Field
<1>5. DOMAIN s \intersect Keywords = {}
  BY <1>2, <1>4 DEF StandsAlone, Keywords, Has
<1>6. a \in Dropped(r, Names) /\ a \in Payloads
  BY <1>3, AdjustedLeft DEF Orderly
<1>7. /\ IsObject(r) /\ DOMAIN r.obj \subseteq DOMAIN p.obj
      /\ \A x \in DOMAIN r.obj : p.obj[x] \in Payloads /\ r.obj[x] \in Dropped(p.obj[x], Names)
  BY <1>3, DroppedParts DEF Applied
<1>8. /\ IsObject(q) /\ DOMAIN q.obj \subseteq DOMAIN p.obj
      /\ \A x \in DOMAIN q.obj : q.obj[x] \in Dropped(p.obj[x], Names)
  BY <1>3, DroppedParts DEF Applied
<1>9. DOMAIN z.obj \subseteq DOMAIN q.obj /\ \A x \in DOMAIN z.obj : z.obj[x] \in Dropped(q.obj[x], Names)
  BY <1>3, <1>8, DroppedParts DEF Applied
<1>10. /\ DOMAIN a.obj \subseteq DOMAIN r.obj
       /\ \A x \in DOMAIN a.obj :
            a.obj[x] = IF x \in DOMAIN declared THEN A(declared[x], r.obj[x]) ELSE r.obj[x]
  BY <1>2, <1>3, <1>5, <1>7, MembersAdjusted DEF Orderly
<1>11. IsObject(a)
  BY <1>3, <1>6, <1>7, DroppedParts
<1>12. z \in Dropped(a, Names)
  BY DEF Applied
<1>. HIDE DEF a, A
<1>13. DOMAIN z.obj \subseteq DOMAIN a.obj /\ \A x \in DOMAIN z.obj : z.obj[x] \in Dropped(a.obj[x], Names)
  BY <1>6, <1>11, <1>12, DroppedParts
<1>. HIDE DEF declared
<1>14. k \in DOMAIN a.obj /\ k \in DOMAIN r.obj /\ k \in DOMAIN q.obj /\ k \in DOMAIN p.obj
  BY <1>7, <1>9, <1>10, <1>13
<1>15. z.obj[k] \in Dropped(A(declared[k], r.obj[k]), Names)
  <2>1. a.obj[k] = A(declared[k], r.obj[k])
    BY <1>10, <1>14
  <2>. QED BY <1>13, <2>1
<1>16. Fits[<<declared[k], p.obj[k], q.obj[k]>>]
  <2>1. Fitting(Fits, s, p, q)
    BY <1>2, <1>3, FitsUnfold DEF Applied
  <2>. QED BY <1>14, <2>1 DEF Fitting, declared
<1>17. Keeps(declared[k], p.obj[k], r.obj[k]) /\ Keeps(declared[k], p.obj[k], z.obj[k])
  BY <1>14, KeepsFacts DEF Applied, declared
<1>18. Applied(declared[k], p.obj[k], q.obj[k], r.obj[k], z.obj[k])
  BY <1>7, <1>8, <1>9, <1>14, <1>15, <1>16, <1>17 DEF Applied, A
<1>19. Conforming(declared[k])
  BY <1>4
<1>. QED BY <1>18, <1>19 DEF Conforming

\* and of the items conforms too.
LEMMA ItemsConform ==
    ASSUME NEW s, Orderly(s), \A c \in Children(s) : Conforming(c),
           NormalizeTypeName(Field(s, "type", "none")) = "array", Has(s, "items"),
           NEW p, NEW q, NEW r, NEW z, Applied(s, p, q, r, z), IsArray(p)
    PROVE  \A i \in DOMAIN z.arr : Conforms[<<s.items, z.arr[i]>>]
<1>. DEFINE A(c, x) == NormalizePayload[<<NormalizeSchema[c], x>>]
            a == A(s, r)
<1>1. SUFFICES ASSUME NEW i \in DOMAIN z.arr
               PROVE  Conforms[<<s.items, z.arr[i]>>]
  OBVIOUS
<1>2. s \in Schemata /\ StandsAlone(s)
  BY AloneFacts DEF Orderly
<1>3. r \in Payloads /\ p \in Payloads /\ q \in Payloads
  BY DroppedKind DEF Applied
<1>4. s.items \in Children(s)
  BY ChildFacts
<1>5. DOMAIN s \intersect Keywords = {}
  BY <1>2 DEF StandsAlone, Keywords, Has
<1>6. a \in Dropped(r, Names) /\ a \in Payloads
  BY <1>3, AdjustedLeft DEF Orderly
<1>7. /\ IsArray(r) /\ DOMAIN r.arr = DOMAIN p.arr
      /\ \A x \in DOMAIN r.arr : p.arr[x] \in Payloads /\ r.arr[x] \in Dropped(p.arr[x], Names)
  BY <1>3, DroppedParts DEF Applied
<1>8. /\ IsArray(q) /\ DOMAIN q.arr = DOMAIN p.arr
      /\ \A x \in DOMAIN q.arr : q.arr[x] \in Dropped(p.arr[x], Names)
  BY <1>3, DroppedParts DEF Applied
<1>9. DOMAIN z.arr = DOMAIN q.arr /\ \A x \in DOMAIN z.arr : z.arr[x] \in Dropped(q.arr[x], Names)
  BY <1>3, <1>8, DroppedParts DEF Applied
<1>10. IsArray(a) /\ DOMAIN a.arr = DOMAIN r.arr /\ \A x \in DOMAIN r.arr : a.arr[x] = A(s.items, r.arr[x])
  BY <1>2, <1>3, <1>5, <1>7, ItemsAdjusted DEF Orderly
<1>11. z \in Dropped(a, Names)
  BY DEF Applied
<1>. HIDE DEF a, A
<1>12. \A x \in DOMAIN z.arr : z.arr[x] \in Dropped(a.arr[x], Names)
  BY <1>6, <1>10, <1>11, DroppedParts
<1>13. i \in DOMAIN a.arr /\ i \in DOMAIN r.arr /\ i \in DOMAIN q.arr /\ i \in DOMAIN p.arr
  BY <1>7, <1>8, <1>9, <1>10
<1>14. z.arr[i] \in Dropped(A(s.items, r.arr[i]), Names)
  <2>1. a.arr[i] = A(s.items, r.arr[i])
    BY <1>10, <1>13
  <2>. QED BY <1>12, <2>1
<1>15. Fits[<<s.items, p.arr[i], q.arr[i]>>]
  <2>1. Fitting(Fits, s, p, q)
    BY <1>2, <1>3, FitsUnfold DEF Applied
  <2>. QED BY <1>13, <2>1 DEF Fitting
<1>16. Keeps(s.items, p.arr[i], r.arr[i]) /\ Keeps(s.items, p.arr[i], z.arr[i])
  BY <1>13, KeepsFacts DEF Applied
<1>17. Applied(s.items, p.arr[i], q.arr[i], r.arr[i], z.arr[i])
  BY <1>7, <1>8, <1>9, <1>13, <1>14, <1>15, <1>16 DEF Applied, A
<1>18. Conforming(s.items)
  BY <1>4
<1>. QED BY <1>17, <1>18 DEF Conforming

\* So what fits an orderly schema conforms once it is adjusted.
LEMMA FittingConforms ==
    ASSUME NEW s, Orderly(s)
    PROVE  Conforming(s)
<1>. DEFINE T == {r \in Schemata : Orderly(r) => Conforming(r)}
<1>1. ASSUME NEW t \in Schemata, \A c \in Schemata : SchemaRank[c] < SchemaRank[t] => c \in T,
             Orderly(t), NEW p, NEW q, NEW r, NEW z, Applied(t, p, q, r, z)
      PROVE  Conforms[<<t, z>>]
  <2>. DEFINE type == NormalizeTypeName(Field(t, "type", "none"))
              required == Field(t, "required", {})
              declared == Field(t, "properties", << >>)
              permitted == DOMAIN declared \union (IF Has(t, "properties") THEN required ELSE {})
  <2>1. \A c \in Children(t) : Conforming(c)
    BY <1>1, SchemaRankFacts, OrderlyFacts
  <2>. HIDE DEF T
  <2>2. p \in Payloads /\ q \in Payloads /\ z \in Payloads /\ DOMAIN q = DOMAIN p /\ DOMAIN z = DOMAIN q
    BY <1>1, DroppedKind DEF Applied
  <2>3. Fitting(Fits, t, p, q)
    BY <1>1, <2>2, FitsUnfold DEF Applied
  <2>4. Text(z) = Text(q)
    BY <1>1, <2>2, TextKept DEF Applied
  <2>5. Has(t, "allOf") => \A b \in Range(t.allOf) : Conforms[<<b, z>>]
    BY <1>1, <2>1, AllOfConforms DEF Range
  <2>6. \A k \in {"oneOf", "anyOf"} : k \in DOMAIN t => \E b \in Range(t[k]) : Conforms[<<b, z>>]
    BY <1>1, <2>1, ChoiceConforms
  <2>7. /\ Has(t, "enum") => Text(q) \in t.enum
        /\ DOMAIN q \subseteq KindOf(type)
        /\ type = "object" =>
            required \subseteq DOMAIN q.obj /\ (Has(t, "closed") => DOMAIN q.obj \subseteq permitted)
    BY <2>3 DEF Fitting
  <2>8. /\ type = "object" => IsObject(p) /\ IsObject(q) /\ IsObject(z)
        /\ type = "array" => IsArray(p) /\ IsArray(q) /\ IsArray(z)
    <3>1. \E k \in Scalars \union {"obj", "arr"} : DOMAIN q = {k}
      BY <2>2, PayloadFacts
    <3>. QED BY <2>2, <2>7, <3>1 DEF KindOf, IsObject, IsArray
  <2>9. ASSUME type = "object"
        PROVE  /\ required \subseteq DOMAIN z.obj
               /\ \A k \in DOMAIN declared \intersect DOMAIN z.obj : Conforms[<<declared[k], z.obj[k]>>]
               /\ Has(t, "closed") => DOMAIN z.obj \subseteq permitted
    <3>1. DOMAIN q.obj \subseteq DOMAIN p.obj /\ DOMAIN z.obj \subseteq DOMAIN q.obj
      BY <1>1, <2>2, <2>8, <2>9, DroppedParts DEF Applied
    <3>2. \A k \in required \intersect DOMAIN p.obj : k \in DOMAIN z.obj
      BY <1>1, <2>8, <2>9, KeepsFacts DEF Applied
    <3>3. \A k \in DOMAIN declared \intersect DOMAIN z.obj : Conforms[<<declared[k], z.obj[k]>>]
      BY <1>1, <2>1, <2>8, <2>9, MembersConform
    <3>. HIDE DEF required, declared, permitted
    <3>. QED BY <2>7, <2>9, <3>1, <3>2, <3>3
  <2>10. type = "array" /\ Has(t, "items") => \A v \in Range(z.arr) : Conforms[<<t.items, v>>]
    BY <1>1, <2>1, <2>8, ItemsConform DEF Range
  <2>11. /\ Has(t, "oneOf") => \E b \in Range(t.oneOf) : Conforms[<<b, z>>]
         /\ Has(t, "anyOf") => \E b \in Range(t.anyOf) : Conforms[<<b, z>>]
    BY <2>6 DEF Has
  <2>12. Meant(Conforms, t, z)
    BY <2>2, <2>4, <2>5, <2>7, <2>9, <2>10, <2>11 DEF Meant
  <2>. QED BY <2>2, <2>12, ConformsUnfold
<1>2. ASSUME NEW t \in Schemata, \A c \in Schemata : SchemaRank[c] < SchemaRank[t] => c \in T, Orderly(t)
      PROVE  Conforming(t)
  <2>. HIDE DEF T
  <2>. QED BY <1>1, <1>2 DEF Conforming
<1>3. \A t \in Schemata : (\A c \in Schemata : SchemaRank[c] < SchemaRank[t] => c \in T) => t \in T
  BY <1>2
<1>. HIDE DEF T
<1>4. Schemata \subseteq T
  BY <1>3, SchemaRankFacts, RankInduction
<1>. QED BY <1>4 DEF T, Orderly

\* Adjusting a payload that fits a regular schema leaves no errors.
LEMMA FittingValid ==
    ASSUME NEW s \in Schemata, NormalizeSchema[s] \in Prepared, Regular(s), NEW p \in Payloads,
           Fits[<<s, p, Pardoned[<<s, p>>]>>]
    PROVE  Errors[<<NormalizeSchema[s], NormalizePayload[<<NormalizeSchema[s], p>>]>>] = 0
<1>. DEFINE n == NormalizeSchema[s]
            z == NormalizePayload[<<n, p>>]
            q == Pardoned[<<s, p>>]
<1>1. Orderly(s)
  BY DEF Regular, Orderly, Alone
<1>2. p \in Dropped(p, Names) /\ q \in Dropped(p, Names)
  BY DroppedSelf, PardonedFacts
<1>3. z \in Payloads /\ n \in Schemata
  BY AdjustedLeft, PreparedFacts
<1>4. z \in Dropped(q, Names)
  BY <1>1, <1>2, AdjustPardons DEF Orderly
<1>5. z \in Dropped(z, Names)
  <2>. HIDE DEF z
  <2>. QED BY <1>3, DroppedSelf
<1>6. Keeps(s, p, p) /\ Keeps(s, p, z)
  BY <1>1, KeepsSelf, AdjustKeeps DEF Orderly
<1>7. Applied(s, p, q, p, z)
  BY <1>2, <1>4, <1>5, <1>6 DEF Applied
<1>. HIDE DEF n, z, q
<1>8. Conforms[<<s, z>>]
  BY <1>1, <1>7, FittingConforms DEF Conforming
<1>. QED BY <1>3, <1>8, ValidConforms DEF n, z

--------------------------------------------------------------------------------

\* What is called with, and what its preparation comes to.
CalledWith ==
    /\ schema \in Schemata /\ payload \in Payloads
    /\ Resolvable[schema] =>
        /\ ResolveSchema[schema] \in Schemata
        /\ NormalizeSchema[ResolveSchema[schema]] \in Prepared

IsPrepared == Resolvable[schema] /\ prepared = NormalizeSchema[ResolveSchema[schema]]

\* Where the call is tells what has been prepared, adjusted and found.
CallInv ==
    /\ CalledWith
    /\ pc \in {"called", "prepared", "normalized", "returned"}
    /\ prepared = << >> \/ IsPrepared
    /\ pc \in {"prepared", "normalized"} => IsPrepared
    /\ normalized \in Payloads /\ DOMAIN normalized = DOMAIN payload
    /\ pc = "normalized" =>
        /\ normalized \in Dropped(payload, Excusable(ResolveSchema[schema]))
        /\ normalized = NormalizePayload[<<prepared, payload>>]
    /\ pc # "returned" => outcome = "none"
    /\ outcome \in {"none", "accepted", "rejected", "unresolved"}
    /\ outcome = "accepted" =>
        /\ IsPrepared
        /\ normalized \in Dropped(payload, Excusable(ResolveSchema[schema]))
        /\ Errors[<<prepared, normalized>>] = 0
    /\ outcome = "rejected" =>
        /\ IsPrepared
        /\ normalized = NormalizePayload[<<prepared, payload>>]
        /\ Errors[<<prepared, normalized>>] # 0

LEMMA CallInvInit == Init => CallInv
<1>. SUFFICES ASSUME Init PROVE CallInv
  OBVIOUS
<1>1. PICK c \in Cases : schema = c.schema /\ payload = c.payload
  BY DEF Init
<1>2. CalledWith
  BY <1>1, SchemaAssumption DEF SchemaAssumption, CalledWith
<1>. QED BY <1>2 DEF Init, CallInv, CalledWith

LEMMA CallInvPrepare == CallInv /\ Prepare => CallInv'
<1>. SUFFICES ASSUME CallInv, Prepare PROVE CallInv'
  OBVIOUS
<1>1. CalledWith'
  BY DEF CallInv, Prepare, CalledWith
<1>2. CASE Resolvable[schema]
  BY <1>1, <1>2 DEF CallInv, Prepare, IsPrepared
<1>3. CASE ~Resolvable[schema]
  BY <1>1, <1>3 DEF CallInv, Prepare, IsPrepared
<1>. QED BY <1>2, <1>3

LEMMA CallInvNormalize == CallInv /\ Normalize => CallInv'
<1>. SUFFICES ASSUME CallInv, Normalize PROVE CallInv'
  OBVIOUS
<1>. DEFINE resolved == ResolveSchema[schema]
<1>1. CalledWith'
  BY DEF CallInv, Normalize, CalledWith
<1>2. IsPrepared /\ prepared \in Prepared /\ prepared \in Schemata /\ resolved \in Schemata
      /\ payload \in Payloads
  <2>1. IsPrepared
    BY DEF CallInv, Normalize
  <2>2. prepared \in Prepared
    BY <2>1 DEF CallInv, CalledWith, IsPrepared
  <2>. QED BY <2>1, <2>2, PreparedFacts DEF CallInv, CalledWith, IsPrepared
<1>3. normalized' \in Dropped(payload, Excusable(prepared))
  BY <1>2, NormalizePayloadDrops DEF Normalize
<1>4. Excusable(prepared) \subseteq Excusable(resolved)
  BY <1>2, ExcusableNormalized DEF IsPrepared
<1>5. normalized' \in Dropped(payload, Excusable(resolved))
  BY <1>2, <1>3, <1>4, DroppedMore
<1>6. normalized' \in Payloads /\ DOMAIN normalized' = DOMAIN payload
  BY <1>2, <1>5, DroppedKind
<1>7. IsPrepared' /\ (normalized = NormalizePayload[<<prepared, payload>>])'
  BY <1>2 DEF Normalize, IsPrepared
<1>. QED BY <1>1, <1>5, <1>6, <1>7 DEF CallInv, Normalize

LEMMA CallInvValidate == CallInv /\ Validate => CallInv'
<1>. SUFFICES ASSUME CallInv, Validate PROVE CallInv'
  OBVIOUS
<1>1. CalledWith' /\ IsPrepared'
  BY DEF CallInv, Validate, CalledWith, IsPrepared
<1>2. (normalized \in Dropped(payload, Excusable(ResolveSchema[schema])))'
  BY DEF CallInv, Validate
<1>3. (normalized = NormalizePayload[<<prepared, payload>>])'
  BY DEF CallInv, Validate
<1>4. /\ outcome' \in {"accepted", "rejected"}
      /\ outcome' = "accepted" => (Errors[<<prepared, normalized>>] = 0)'
      /\ outcome' = "rejected" => (Errors[<<prepared, normalized>>] # 0)'
  BY DEF Validate
<1>. QED BY <1>1, <1>2, <1>3, <1>4 DEF CallInv, Validate

LEMMA CallInvStep == CallInv /\ [Next]_vars => CallInv'
<1>1. CallInv /\ UNCHANGED vars => CallInv'
  BY DEF CallInv, CalledWith, IsPrepared, vars
<1>. QED BY <1>1, CallInvPrepare, CallInvNormalize, CallInvValidate DEF Next

LEMMA CallInvHolds == Spec => []CallInv
BY CallInvInit, CallInvStep, PTL DEF Spec

\* A schema that is prepared has no reference left and no odd spelling of a type, in any of
\* its parts, and the adjusted payload is of the kind that was passed (schema.go:270-454).
THEOREM TypeCorrect == Spec => []TypeOK
<1>1. ASSUME CallInv, NEW s \in Parts[prepared]
      PROVE  ~Has(s, "ref") /\ Field(s, "type", "null") \in JsonTypes
  <2>1. CASE prepared = << >>
    <3>1. s = << >>
      BY <1>1, <2>1, EmptySchema
    <3>. QED BY <3>1, EmptySchema DEF Has, Field, JsonTypes
  <2>2. CASE IsPrepared
    <3>1. /\ schema \in Schemata /\ Resolvable[schema] /\ ResolveSchema[schema] \in Schemata
          /\ prepared = NormalizeSchema[ResolveSchema[schema]] /\ prepared \in Schemata
      BY <1>1, <2>2, PreparedFacts DEF CallInv, CalledWith, IsPrepared
    <3>2. \A m \in Parts[ResolveSchema[schema]] : ~Has(m, "ref")
      BY <3>1, NoReferences
    <3>. QED BY <1>1, <3>1, <3>2, NormalizedParts
  <2>. QED BY <1>1, <2>1, <2>2 DEF CallInv
<1>2. CallInv => TypeOK
  BY <1>1 DEF CallInv, TypeOK, JsonTypes
<1>. QED BY <1>2, CallInvHolds, PTL

\* What is accepted conforms to the schema, read on its own, once some blank members that an
\* enum of strings leaves no room for are dropped: preparing the schema, merging the
\* branches of its choices and adjusting the payload forgive nothing else
\* (schema.go:311-454, 600-767).
THEOREM BlanksCorrect == Spec => []OnlyBlanksForgiven
<1>1. CallInv => OnlyBlanksForgiven
  <2>. SUFFICES ASSUME CallInv, outcome = "accepted"
                PROVE  \E q \in Dropped(payload, Excusable(ResolveSchema[schema])) :
                            Conforms[<<ResolveSchema[schema], q>>]
    BY DEF OnlyBlanksForgiven
  <2>1. /\ ResolveSchema[schema] \in Schemata
        /\ NormalizeSchema[ResolveSchema[schema]] \in Schemata
        /\ Errors[<<NormalizeSchema[ResolveSchema[schema]], normalized>>] = 0
        /\ normalized \in Payloads
    BY PreparedFacts DEF CallInv, CalledWith, IsPrepared
  <2>2. Conforms[<<ResolveSchema[schema], normalized>>]
    BY <2>1, ValidConforms
  <2>3. normalized \in Dropped(payload, Excusable(ResolveSchema[schema]))
    BY DEF CallInv
  <2>. QED BY <2>2, <2>3
<1>. QED BY <1>1, CallInvHolds, PTL

\* A payload that fits a regular schema, but for blank members that it has an optional enum
\* for, is not rejected: adjusting it finds a branch of every choice that fits, and drops
\* nothing that any part of the schema misses (schema.go:418-454, 600-767).
THEOREM ForgivenCorrect == Spec => []BlanksForgiven
<1>1. CallInv => BlanksForgiven
  <2>. DEFINE resolved == ResolveSchema[schema]
  <2>. SUFFICES ASSUME CallInv, outcome = "rejected", Regular(resolved),
                       Fits[<<resolved, payload, Pardoned[<<resolved, payload>>]>>]
                PROVE  FALSE
    BY DEF BlanksForgiven
  <2>1. /\ resolved \in Schemata /\ NormalizeSchema[resolved] \in Prepared /\ payload \in Payloads
        /\ prepared = NormalizeSchema[resolved]
        /\ normalized = NormalizePayload[<<prepared, payload>>]
        /\ Errors[<<prepared, normalized>>] # 0
    BY DEF CallInv, CalledWith, IsPrepared
  <2>2. Errors[<<NormalizeSchema[resolved], NormalizePayload[<<NormalizeSchema[resolved], payload>>]>>] = 0
    <3>. HIDE DEF resolved
    <3>. QED BY <2>1, FittingValid
  <2>. QED BY <2>1, <2>2
<1>. QED BY <1>1, CallInvHolds, PTL

================================================================================
