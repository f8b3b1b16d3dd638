---------------------------- MODULE SurfaceProofs ----------------------------
(***************************************************************************)
(* What TLAPS proves of Surface, for any schema trees, inventories,        *)
(* configurations and calls: an operation is described, addressed and      *)
(* judged by one schema, its own, and its arguments arrive.  First what    *)
(* SchemaRegistry does for any schema tree: the registries hold what the   *)
(* files hold, once each and file after file, so that what a lookup finds  *)
(* does not depend on the order of the maps.                               *)
(***************************************************************************)
EXTENDS Surface, FiniteSetTheorems, FunctionTheorems, SequenceTheorems, TLAPS

Operations == {"endpoints", "master_accounts"}

\* What these files hold of some families.
Held(files, families) ==
    UNION {[file : {i}, entry : Listed(corpus[i])] : i \in {j \in files : corpus[j].family \in families}}

\* A list of what files hold: everything once, and file after file.
InOrder(list, files, families) ==
    /\ list \in Seq(Held(files, families))
    /\ \A d \in Held(files, families) : \E i \in DOMAIN list : list[i] = d
    /\ \A i, j \in DOMAIN list : list[i] = list[j] => i = j
    /\ \A i, j \in DOMAIN list : i < j => list[i].file <= list[j].file

WalkOK ==
    /\ corpus \in Corpora
    /\ next \in 1..Len(corpus) + 1
    /\ read \subseteq 1..next - 1

RegistryInv ==
    /\ WalkOK
    /\ InOrder(registry, read, Operations)
    /\ InOrder(hooks, read, {"webhooks"})

--------------------------------------------------------------------------------

\* What is assumed of the files of a schema tree.
LEMMA FileFacts ==
    ASSUME corpus \in Corpora
    PROVE  /\ Len(corpus) \in Nat
           /\ DOMAIN corpus = 1..Len(corpus)
           /\ \A i \in DOMAIN corpus : corpus[i].family \in Families /\ IsFiniteSet(corpus[i].entries)
BY RegistryAssumption DEF RegistryAssumption

\* What is held comes from one of the files.
LEMMA HeldFacts ==
    ASSUME NEW files, NEW families
    PROVE  \A d \in Held(files, families) :
              /\ d.file \in files
              /\ corpus[d.file].family \in families
              /\ d.entry \in Listed(corpus[d.file])
              /\ d = [file |-> d.file, entry |-> d.entry]
BY DEF Held

\* The entries of some families are what the files read so far hold of them.
LEMMA EntriesHeld ==
    ASSUME NEW families
    PROVE  Entries(families) = Held(read, families)
BY DEF Entries, Held

\* A set of numbers has a least one ...
LEMMA LeastNumber ==
    ASSUME NEW T \in SUBSET Nat, T # {}
    PROVE  \E n \in T : \A m \in T : n <= m
<1>. DEFINE Less == {ss \in Nat \X Nat : ss[1] < ss[2]}
<1>1. IsWellFoundedOn(Less, Nat)
  BY NatLessThanWellFounded DEF OpToRel, Less
<1>2. PICK n \in T : \A m \in T : ~(<<m, n>> \in Less)
  <2>. HIDE DEF Less
  <2>. QED BY <1>1, WFMin
<1>3. ASSUME NEW m \in T PROVE n <= m
  <2>1. m \in Nat /\ n \in Nat
    BY <1>2
  <2>2. m < n => <<m, n>> \in Less
    BY <2>1
  <2>3. ~(m < n)
    BY <1>2, <2>2
  <2>. QED BY <2>1, <2>3
<1>. QED BY <1>2, <1>3

\* ... and a bounded one a greatest.
LEMMA GreatestNumber ==
    ASSUME NEW k \in Nat, NEW T \in SUBSET (1..k), T # {}
    PROVE  \E n \in T : \A m \in T : m <= n
<1>. DEFINE U == {k - n : n \in T}
<1>1. U \in SUBSET Nat /\ U # {}
  <2>1. ASSUME NEW n \in T PROVE k - n \in Nat
    BY <2>1
  <2>. QED BY <2>1
<1>2. PICK u \in U : \A v \in U : u <= v
  <2>. HIDE DEF U
  <2>. QED BY <1>1, LeastNumber
<1>3. PICK n \in T : u = k - n
  BY <1>2
<1>4. \A m \in T : k - n <= k - m
  BY <1>2, <1>3
<1>. QED BY <1>4

--------------------------------------------------------------------------------

\* Of a list in the order of its files the rest may be appended.
LEMMA Appended ==
    ASSUME WalkOK, next <= Len(corpus), NEW families, corpus[next].family \in families,
           NEW list, InOrder(list, read, families), NEW s \in Orders(corpus[next])
    PROVE  InOrder(list \o s, read \union {next}, families)
<1>. DEFINE L == Listed(corpus[next])
            n == Cardinality(L)
            New == [file : {next}, entry : L]
            All == Held(read \union {next}, families)
<1>1. next \in DOMAIN corpus /\ next \in Nat
  BY FileFacts DEF WalkOK
<1>2. IsFiniteSet(L) /\ n \in Nat
  <2>1. L \in SUBSET corpus[next].entries
    BY DEF Listed
  <2>2. IsFiniteSet(corpus[next].entries)
    BY <1>1, FileFacts DEF WalkOK
  <2>. QED BY <2>1, <2>2, FS_Subset, FS_CardinalityType
<1>3. s \in [1..n -> New] /\ \A e \in L : \E i \in 1..n : s[i].entry = e
  BY DEF Orders
<1>4. \A d \in New : d = [file |-> next, entry |-> d.entry] /\ d.entry \in L
  OBVIOUS
<1>5. All = Held(read, families) \union New
  BY DEF Held
<1>6. s \in Seq(All) /\ Len(s) = n /\ DOMAIN s = 1..n
  <2>. DEFINE item(i) == s[i]
  <2>. HIDE DEF All, New, L, n
  <2>1. \A i \in 1..n : item(i) \in All
    BY <1>3, <1>5
  <2>. HIDE DEF item
  <2>2. [i \in 1..n |-> item(i)] \in Seq(All)
    BY <1>2, <2>1, IsASeq
  <2>. USE DEF item
  <2>3. s = [i \in 1..n |-> item(i)]
    BY <1>3
  <2>4. s \in Seq(All) /\ DOMAIN s = 1..n
    BY <2>2, <2>3
  <2>5. Len(s) \in Nat /\ DOMAIN s = 1..Len(s)
    BY <2>4, LenProperties
  <2>. QED BY <1>2, <2>4, <2>5
<1>7. list \in Seq(All) /\ Len(list) \in Nat /\ DOMAIN list = 1..Len(list)
  <2>1. list \in Seq(All)
    BY <1>5, SeqMonotonic DEF InOrder
  <2>. QED BY <2>1, LenProperties
<1>8. \A i, j \in 1..n : s[i] = s[j] => i = j
  <2>. DEFINE e == [i \in 1..n |-> s[i].entry]
  <2>1. e \in Surjection(1..n, L)
    BY <1>3, <1>4 DEF Surjection
  <2>2. IsFiniteSet(1..n) /\ Cardinality(1..n) = n
    BY <1>2, FS_Interval
  <2>3. e \in Injection(1..n, L)
    BY <1>2, <2>1, <2>2, FS_SurjSameCardinalityImpliesInj
  <2>4. \A i, j \in 1..n : e[i] = e[j] => i = j
    BY <2>3 DEF Injection, IsInjective
  <2>. QED BY <2>4
<1>. DEFINE m == Len(list)
            both == list \o s
<1>. HIDE DEF All, New, L, n
<1>9. /\ both \in Seq(All)
      /\ DOMAIN both = 1..m + n
      /\ \A i \in 1..m : both[i] = list[i]
      /\ \A i \in m + 1..m + n : both[i] = s[i - m] /\ i - m \in 1..n
  <2>1. both \in Seq(All) /\ Len(both) = m + n
    BY <1>6, <1>7, ConcatProperties
  <2>2. DOMAIN both = 1..m + n
    BY <2>1, LenProperties
  <2>3. \A i \in 1..m + n : both[i] = IF i <= m THEN list[i] ELSE s[i - m]
    BY <1>6, <1>7, ConcatProperties
  <2>4. m \in Nat
    BY <1>7
  <2>. HIDE DEF both, m
  <2>. QED BY <1>2, <2>1, <2>2, <2>3, <2>4
<1>. HIDE DEF both, m
<1>10. m \in Nat /\ DOMAIN list = 1..m
  BY <1>7 DEF m
<1>11. \A i \in 1..m : both[i] \in Held(read, families) /\ both[i].file \in read
  BY <1>9, <1>10, HeldFacts DEF InOrder
<1>12. \A i \in m + 1..m + n : both[i] \in New /\ both[i].file = next
  BY <1>3, <1>4, <1>9 DEF New
<1>13. \A i \in read : i < next /\ i \in Nat
  BY <1>1 DEF WalkOK
<1>14. \A i \in 1..m + n : i \in 1..m \/ i \in m + 1..m + n
  BY <1>2, <1>10
<1>15. \A d \in All : \E i \in DOMAIN both : both[i] = d
  <2>1. SUFFICES ASSUME NEW d \in All PROVE \E i \in 1..m + n : both[i] = d
    BY <1>9
  <2>2. CASE d \in Held(read, families)
    <3>1. PICK i \in 1..m : list[i] = d
      BY <2>2, <1>10 DEF InOrder
    <3>. QED BY <3>1, <1>2, <1>9, <1>10
  <2>3. CASE d \in New
    <3>1. d = [file |-> next, entry |-> d.entry] /\ d.entry \in L
      BY <2>3, <1>4
    <3>2. PICK i \in 1..n : s[i].entry = d.entry
      BY <3>1, <1>3
    <3>3. s[i] = d
      BY <1>3, <1>4, <3>1, <3>2
    <3>4. PICK k \in m + 1..m + n : k - m = i
      <4>1. i + m \in m + 1..m + n /\ i + m - m = i
        BY <1>2, <1>10
      <4>. QED BY <4>1, <1>2, <1>10
    <3>5. k \in 1..m + n
      BY <1>2, <1>10
    <3>. QED BY <3>3, <3>4, <3>5, <1>9
  <2>. QED BY <2>1, <2>2, <2>3, <1>5
<1>16. \A i, j \in DOMAIN both : both[i] = both[j] => i = j
  <2>1. SUFFICES ASSUME NEW i \in 1..m + n, NEW j \in 1..m + n, both[i] = both[j] PROVE i = j
    BY <1>9
  <2>2. CASE i \in 1..m /\ j \in 1..m
    BY <2>1, <2>2, <1>9, <1>10 DEF InOrder
  <2>3. CASE i \in m + 1..m + n /\ j \in m + 1..m + n
    <3>1. i - m = j - m
      BY <2>1, <2>3, <1>8, <1>9
    <3>. QED BY <2>1, <3>1, <1>2, <1>10
  <2>4. CASE i \in 1..m /\ j \in m + 1..m + n
    BY <2>1, <2>4, <1>11, <1>12, <1>13
  <2>5. CASE j \in 1..m /\ i \in m + 1..m + n
    BY <2>1, <2>5, <1>11, <1>12, <1>13
  <2>. QED BY <2>1, <2>2, <2>3, <2>4, <2>5, <1>14
<1>17. \A i, j \in DOMAIN both : i < j => both[i].file <= both[j].file
  <2>1. SUFFICES ASSUME NEW i \in 1..m + n, NEW j \in 1..m + n, i < j PROVE both[i].file <= both[j].file
    BY <1>9
  <2>2. CASE j \in 1..m
    <3>1. i \in 1..m
      BY <2>1, <2>2, <1>2, <1>10
    <3>. QED BY <2>1, <2>2, <3>1, <1>9, <1>10 DEF InOrder
  <2>3. CASE j \in m + 1..m + n /\ i \in m + 1..m + n
    BY <2>3, <1>1, <1>12
  <2>4. CASE j \in m + 1..m + n /\ i \in 1..m
    BY <2>4, <1>1, <1>11, <1>12, <1>13
  <2>. QED BY <2>1, <2>2, <2>3, <2>4, <1>14
<1>. QED BY <1>9, <1>15, <1>16, <1>17 DEF InOrder, both, All

\* A file of one kind adds nothing of the other.
LEMMA NothingAdded ==
    ASSUME NEW families, corpus[next].family \notin families
    PROVE  Held(read \union {next}, families) = Held(read, families)
BY DEF Held

\* Loading keeps the registries in order.
LEMMA RegistryStep ==
    ASSUME RegistryInv, Load \/ Loaded \/ UNCHANGED registryVars
    PROVE  RegistryInv'
<1>1. CASE UNCHANGED registryVars
  BY <1>1 DEF registryVars, RegistryInv, WalkOK, InOrder, Held
<1>2. CASE Loaded
  BY <1>1, <1>2 DEF Loaded
<1>3. CASE Load
  <2>. DEFINE file == corpus[next]
  <2>1. next \in DOMAIN corpus /\ next <= Len(corpus) /\ file.family \in Families
    BY <1>3, FileFacts DEF Load, RegistryInv, WalkOK
  <2>2. CASE BadFile(file)
    BY <1>1, <2>2 DEF BadFile
  <2>3. CASE Vanished(file)
    <3>1. corpus' = corpus /\ UNCHANGED <<read, registry, hooks>>
      BY <2>3 DEF Vanished
    <3>2. PICK n \in next + 1..Len(corpus) + 1 : next' = n
      BY <2>3 DEF Vanished
    <3>3. Len(corpus) \in Nat /\ next \in Nat
      BY FileFacts, <2>1 DEF RegistryInv, WalkOK
    <3>4. WalkOK'
      BY <3>1, <3>2, <3>3 DEF RegistryInv, WalkOK
    <3>. QED BY <3>1, <3>4 DEF RegistryInv, InOrder, Held
  <2>4. CASE LoadFile(file)
    <3>1. corpus' = corpus /\ read' = read \union {next} /\ next' = next + 1
      BY <2>4 DEF LoadFile
    <3>2. Len(corpus) \in Nat /\ next \in Nat
      BY FileFacts, <2>1 DEF RegistryInv, WalkOK
    <3>3. WalkOK'
      <4>1. next' \in 1..Len(corpus') + 1 /\ corpus' \in Corpora
        BY <2>1, <3>1, <3>2 DEF RegistryInv, WalkOK
      <4>2. \A i \in 1..next - 1 : i \in 1..next
        BY <3>2
      <4>3. read \subseteq 1..next /\ next \in 1..next /\ next' - 1 = next
        BY <2>1, <3>1, <3>2, <4>2 DEF RegistryInv, WalkOK
      <4>4. read' \subseteq 1..next' - 1
        BY <3>1, <4>3
      <4>. QED BY <4>1, <4>4 DEF WalkOK
    <3>4. PICK s \in Orders(file) : IF file.family = "webhooks"
                                    THEN hooks' = hooks \o s /\ UNCHANGED registry
                                    ELSE registry' = registry \o s /\ UNCHANGED hooks
      BY <2>4 DEF LoadFile
    <3>5. CASE file.family = "webhooks"
      <4>1. InOrder(hooks', read', {"webhooks"})
        BY <2>1, <3>1, <3>4, <3>5, Appended DEF RegistryInv
      <4>2. InOrder(registry', read', Operations)
        <5>1. Held(read', Operations) = Held(read, Operations)
          BY <3>1, <3>5, NothingAdded DEF Operations
        <5>. QED BY <3>4, <3>5, <5>1 DEF InOrder, RegistryInv
      <4>. QED BY <3>1, <3>3, <4>1, <4>2 DEF RegistryInv, InOrder, Held
    <3>6. CASE file.family # "webhooks"
      <4>1. file.family \in Operations
        BY <2>1, <3>6 DEF Families, Operations
      <4>2. InOrder(registry', read', Operations)
        BY <2>1, <3>1, <3>4, <3>6, <4>1, Appended DEF RegistryInv
      <4>3. InOrder(hooks', read', {"webhooks"})
        <5>1. Held(read', {"webhooks"}) = Held(read, {"webhooks"})
          BY <3>1, <3>6, NothingAdded
        <5>. QED BY <3>4, <3>6, <5>1 DEF InOrder, RegistryInv
      <4>. QED BY <3>1, <3>3, <4>2, <4>3 DEF RegistryInv, InOrder, Held
    <3>. QED BY <3>5, <3>6
  <2>. QED BY <1>3, <2>2, <2>3, <2>4 DEF Load
<1>. QED BY <1>1, <1>2, <1>3

\* Before anything is loaded, everything is in order.
LEMMA RegistryStart ==
    ASSUME RegistryInit
    PROVE  RegistryInv
<1>1. WalkOK
  BY FileFacts DEF RegistryInit, WalkOK
<1>2. \A families : Held(read, families) = {}
  BY DEF RegistryInit, Held
<1>. QED BY <1>1, <1>2 DEF RegistryInit, RegistryInv, InOrder

--------------------------------------------------------------------------------

\* Two templates of one length part ways at a first place, or not at all.
LEMMA FirstDifference ==
    ASSUME NEW s \in Seq(Int), NEW t \in Seq(Int), DOMAIN s = DOMAIN t, s # t
    PROVE  \E i \in DOMAIN s : s[i] # t[i] /\ \A j \in 1..i - 1 : s[j] = t[j]
<1>1. Len(s) \in Nat /\ DOMAIN s = 1..Len(s) /\ Len(t) = Len(s)
  BY LenProperties
<1>. DEFINE T == {i \in 1..Len(s) : s[i] # t[i]}
<1>2. T # {}
  BY <1>1, SeqEqual
<1>3. PICK i \in T : \A j \in T : i <= j
  <2>1. T \in SUBSET Nat
    BY <1>1
  <2>. HIDE DEF T
  <2>. QED BY <1>2, <2>1, LeastNumber
<1>4. \A j \in 1..i - 1 : j \in 1..Len(s) /\ ~(i <= j)
  BY <1>1
<1>. QED BY <1>1, <1>3, <1>4

\* Between templates of one length only the first difference counts.
LEMMA PrecedesSameLength ==
    ASSUME NEW s \in Seq(Int), NEW t \in Seq(Int), DOMAIN s = DOMAIN t
    PROVE  Precedes(s, t) <=>
            \E i \in DOMAIN s : s[i] < t[i] /\ \A j \in 1..i - 1 : s[j] = t[j]
<1>1. Len(s) \in Nat /\ Len(t) = Len(s)
  BY LenProperties
<1>2. DOMAIN s \intersect DOMAIN t = DOMAIN s
  OBVIOUS
<1>. QED BY <1>1, <1>2 DEF Precedes

\* Of two templates of one length one precedes the other.
LEMMA Trichotomy ==
    ASSUME NEW s \in Seq(Int), NEW t \in Seq(Int), DOMAIN s = DOMAIN t, s # t
    PROVE  Precedes(s, t) \/ Precedes(t, s)
<1>1. PICK i \in DOMAIN s : s[i] # t[i] /\ \A j \in 1..i - 1 : s[j] = t[j]
  BY FirstDifference
<1>2. s[i] \in Int /\ t[i] \in Int
  BY <1>1, LenProperties, ElementOfSeq
<1>3. CASE s[i] < t[i]
  BY <1>1, <1>3, PrecedesSameLength
<1>4. CASE t[i] < s[i]
  <2>1. i \in DOMAIN t /\ \A j \in 1..i - 1 : t[j] = s[j]
    BY <1>1
  <2>. QED BY <1>4, <2>1, PrecedesSameLength
<1>. QED BY <1>1, <1>2, <1>3, <1>4

\* A template that precedes one before another precedes that one.
LEMMA PrecedesTransitive ==
    ASSUME NEW s \in Seq(Int), NEW t \in Seq(Int), NEW u \in Seq(Int),
           DOMAIN s = DOMAIN t, DOMAIN t = DOMAIN u, Precedes(s, t), Precedes(t, u)
    PROVE  Precedes(s, u)
<1>1. PICK i \in DOMAIN s : s[i] < t[i] /\ \A j \in 1..i - 1 : s[j] = t[j]
  BY PrecedesSameLength
<1>2. PICK k \in DOMAIN s : t[k] < u[k] /\ \A j \in 1..k - 1 : t[j] = u[j]
  BY PrecedesSameLength
<1>3. Len(s) \in Nat /\ DOMAIN s = 1..Len(s)
  BY LenProperties
<1>4. \A n \in DOMAIN s : s[n] \in Int /\ t[n] \in Int /\ u[n] \in Int
  BY LenProperties, ElementOfSeq
<1>5. CASE i < k
  <2>1. t[i] = u[i] /\ \A j \in 1..i - 1 : j \in 1..k - 1
    BY <1>2, <1>3, <1>5
  <2>2. s[i] < u[i] /\ \A j \in 1..i - 1 : s[j] = u[j]
    BY <1>1, <1>2, <2>1
  <2>. QED BY <2>2, PrecedesSameLength
<1>6. CASE k <= i
  <2>1. \A j \in 1..k - 1 : j \in 1..i - 1
    BY <1>3, <1>6
  <2>2. s[k] < u[k]
    <3>1. k = i \/ k \in 1..i - 1
      BY <1>3, <1>6
    <3>2. s[k] = t[k] \/ s[k] < t[k]
      BY <1>1, <3>1
    <3>. QED BY <1>2, <1>4, <3>2
  <2>3. \A j \in 1..k - 1 : s[j] = u[j]
    BY <1>1, <1>2, <2>1
  <2>. QED BY <2>2, <2>3, PrecedesSameLength
<1>. QED BY <1>3, <1>5, <1>6

--------------------------------------------------------------------------------

\* What is assumed of operations, of those that are held.
LEMMA OperationFacts ==
    ASSUME WalkOK, NEW d \in Held(read, Operations)
    PROVE  /\ d.file \in Nat
           /\ d.file \in DOMAIN corpus
           /\ corpus[d.file].family # "webhooks"
           /\ d.entry \in corpus[d.file].entries
           /\ d.entry.template \in Seq(Int)
           /\ \A i \in DOMAIN d.entry.template :
                /\ d.entry.template[i] # Empty
                /\ d.entry.template[i] \notin Params =>
                        \A param \in Params : d.entry.template[i] < param
           /\ \A e \in Held(read, Operations) :
                /\ d.file = e.file
                /\ d.entry.template = e.entry.template
                /\ d.entry.method = e.entry.method
                => d = e
<1>1. d.file \in DOMAIN corpus /\ d.file \in Nat
  BY HeldFacts, FileFacts DEF WalkOK
<1>2. \A e \in Held(read, Operations) :
        /\ corpus[e.file].family # "webhooks"
        /\ e.entry \in corpus[e.file].entries
        /\ e = [file |-> e.file, entry |-> e.entry]
  <2>1. ASSUME NEW e \in Held(read, Operations)
        PROVE  /\ corpus[e.file].family \in Operations
               /\ e.entry \in Listed(corpus[e.file])
               /\ e = [file |-> e.file, entry |-> e.entry]
    BY HeldFacts
  <2>. QED BY <2>1 DEF Operations, Listed
<1>3. /\ d.entry.template \in Seq(Int \ {Empty})
      /\ \A i \in DOMAIN d.entry.template : d.entry.template[i] \notin Params =>
            \A param \in Params : d.entry.template[i] < param
      /\ \A p \in corpus[d.file].entries :
            d.entry.template = p.template /\ d.entry.method = p.method => d.entry = p
  BY <1>1, <1>2, RegistryAssumption DEF RegistryAssumption, WalkOK
<1>4. d.entry.template \in Seq(Int)
  BY <1>3, SeqMonotonic
<1>5. \A i \in DOMAIN d.entry.template : d.entry.template[i] # Empty
  BY <1>3, LenProperties, ElementOfSeq
<1>6. ASSUME NEW e \in Held(read, Operations), d.file = e.file,
             d.entry.template = e.entry.template, d.entry.method = e.entry.method
      PROVE  d = e
  <2>1. e.entry \in corpus[d.file].entries
    BY <1>2, <1>6
  <2>2. d.entry = e.entry
    BY <1>3, <1>6, <2>1
  <2>. QED BY <1>2, <1>6, <2>2
<1>. QED BY <1>1, <1>2, <1>3, <1>4, <1>5, <1>6

\* What is in the registry.
LEMMA RegistryFacts ==
    ASSUME RegistryInv
    PROVE  /\ Len(registry) \in Nat
           /\ DOMAIN registry = 1..Len(registry)
           /\ \A i \in DOMAIN registry :
                /\ registry[i] \in Held(read, Operations)
                /\ registry[i].entry.template \in Seq(Int)
           /\ \A i, j \in DOMAIN registry : i < j => registry[i].file <= registry[j].file
<1>1. registry \in Seq(Held(read, Operations))
  BY DEF RegistryInv, InOrder
<1>2. Len(registry) \in Nat /\ DOMAIN registry = 1..Len(registry)
  BY <1>1, LenProperties
<1>3. \A i \in DOMAIN registry : registry[i] \in Held(read, Operations)
  BY <1>1, <1>2, ElementOfSeq
<1>4. \A i \in DOMAIN registry : registry[i].entry.template \in Seq(Int)
  BY <1>3, OperationFacts DEF RegistryInv
<1>. QED BY <1>2, <1>3, <1>4 DEF RegistryInv, InOrder

\* In the sorted order of operations this one comes before that one.
Before(i, j) ==
    LET s == registry[i].entry.template
        t == registry[j].entry.template
    IN Precedes(s, t) \/ (s = t /\ i < j)

\* Of two candidates one comes before the other.
LEMMA BeforeTotal ==
    ASSUME RegistryInv, NEW method, NEW path,
           NEW i \in Candidates(method, path), NEW j \in Candidates(method, path), i < j
    PROVE  Before(i, j) \/ Before(j, i)
<1>. DEFINE s == registry[i].entry.template
            t == registry[j].entry.template
<1>1. s \in Seq(Int) /\ t \in Seq(Int)
  BY RegistryFacts DEF Candidates
<1>2. DOMAIN s = DOMAIN t
  BY DEF Candidates, Matches
<1>3. s = t \/ Precedes(s, t) \/ Precedes(t, s)
  BY <1>1, <1>2, Trichotomy
<1>. QED BY <1>3 DEF Before

\* A candidate before one that comes before a third comes before the third.
LEMMA BeforeTransitive ==
    ASSUME RegistryInv, NEW method, NEW path, NEW i \in Candidates(method, path),
           NEW j \in Candidates(method, path), NEW k \in Candidates(method, path),
           Before(i, j), Before(j, k)
    PROVE  Before(i, k)
<1>. DEFINE s == registry[i].entry.template
            t == registry[j].entry.template
            u == registry[k].entry.template
<1>1. s \in Seq(Int) /\ t \in Seq(Int) /\ u \in Seq(Int)
  BY RegistryFacts DEF Candidates
<1>2. DOMAIN s = DOMAIN t /\ DOMAIN t = DOMAIN u
  BY DEF Candidates, Matches
<1>3. i \in Int /\ j \in Int /\ k \in Int
  BY RegistryFacts DEF Candidates
<1>4. Precedes(s, t) /\ Precedes(t, u) => Precedes(s, u)
  BY <1>1, <1>2, PrecedesTransitive
<1>. QED BY <1>3, <1>4 DEF Before

\* Of the candidates of a lookup one comes before all others: the choice is well defined.
LEMMA FirstCandidate ==
    ASSUME RegistryInv, NEW method, NEW path, Candidates(method, path) # {}
    PROVE  /\ FindOperation(method, path) \in Candidates(method, path)
           /\ \A j \in Candidates(method, path) \ {FindOperation(method, path)} :
                Before(FindOperation(method, path), j)
<1>. DEFINE C == Candidates(method, path)
            First(i, n) == i \in C /\ i <= n /\ \A j \in C \ {i} : j <= n => Before(i, j)
            Bad == {n \in Nat : (\E c \in C : c <= n) /\ ~\E i \in C : First(i, n)}
<1>1. Len(registry) \in Nat /\ C \subseteq 1..Len(registry)
  BY RegistryFacts DEF Candidates
<1>2. SUFFICES \E i \in C : First(i, Len(registry))
  <2>1. PICK i \in C : First(i, Len(registry))
    BY <1>2
  <2>2. \A j \in C \ {i} : Before(i, j)
    BY <1>1, <2>1
  <2>. QED BY <2>1, <2>2 DEF FindOperation, Before
<1>3. Bad = {}
  <2>1. SUFFICES ASSUME Bad # {} PROVE FALSE
    OBVIOUS
  <2>2. PICK n \in Bad : \A m \in Bad : n <= m
    <3>1. Bad \in SUBSET Nat
      OBVIOUS
    <3>. HIDE DEF Bad
    <3>. QED BY <2>1, <3>1, LeastNumber
  <2>3. n \in Nat /\ (\E c \in C : c <= n) /\ ~\E i \in C : First(i, n)
    BY <2>2
  <2>4. n - 1 \in Nat
    BY <1>1, <2>3
  <2>5. n - 1 \notin Bad
    BY <2>2, <2>3, <2>4
  <2>6. (\A c \in C : ~(c <= n - 1)) \/ \E i \in C : First(i, n - 1)
    BY <2>4, <2>5
  <2>. HIDE DEF Bad
  <2>7. \A j \in C : j \in Nat /\ (j <= n => j = n \/ j <= n - 1)
    BY <1>1, <2>3
  <2>8. CASE \A c \in C : ~(c <= n - 1)
    <3>1. n \in C
      BY <2>3, <2>7, <2>8
    <3>2. First(n, n)
      BY <2>3, <2>7, <2>8, <3>1
    <3>. QED BY <2>3, <3>1, <3>2
  <2>9. CASE \E i \in C : First(i, n - 1)
    <3>1. PICK i \in C : First(i, n - 1)
      BY <2>9
    <3>2. i \in Nat /\ i <= n /\ i < n
      BY <2>3, <2>7, <3>1
    <3>3. CASE n \notin C
      <4>1. First(i, n)
        BY <2>7, <3>1, <3>2, <3>3
      <4>. QED BY <2>3, <4>1
    <3>4. CASE n \in C /\ Before(i, n)
      <4>1. First(i, n)
        BY <2>7, <3>1, <3>2, <3>4
      <4>. QED BY <2>3, <4>1
    <3>5. CASE n \in C /\ Before(n, i)
      <4>1. ASSUME NEW j \in C \ {n}, j <= n PROVE Before(n, j)
        <5>1. j = i \/ Before(i, j)
          BY <2>7, <3>1, <4>1
        <5>. QED BY <3>5, <5>1, BeforeTransitive
      <4>2. First(n, n)
        BY <2>3, <3>5, <4>1
      <4>. QED BY <2>3, <3>5, <4>2
    <3>6. n \in C => Before(i, n) \/ Before(n, i)
      BY <3>2, BeforeTotal
    <3>. QED BY <3>3, <3>4, <3>5, <3>6
  <2>. QED BY <2>6, <2>8, <2>9
<1>4. PICK c \in C : c <= Len(registry)
  BY <1>1
<1>. QED BY <1>1, <1>3, <1>4

\* Whatever is looked up, what is declared most preferably is found.
LEMMA LookupAny ==
    ASSUME RegistryInv, NEW method, NEW path
    PROVE  /\ Candidates(method, path) = {} <=> Declared(method, path) = {}
           /\ Declared(method, path) # {} =>
                LET found == registry[FindOperation(method, path)]
                IN /\ found \in Declared(method, path)
                   /\ \A e \in Declared(method, path) \ {found} : Preferable(found, e)
<1>. DEFINE C == Candidates(method, path)
            D == Declared(method, path)
            f == FindOperation(method, path)
<1>1. \A i \in C : registry[i] \in D
  BY RegistryFacts, EntriesHeld DEF Candidates, Declared, Operations
<1>2. \A d \in D : d \in Held(read, Operations) /\ \E i \in C : registry[i] = d
  BY EntriesHeld DEF Candidates, Declared, Operations, RegistryInv, InOrder
<1>3. C = {} <=> D = {}
  BY <1>1, <1>2
<1>4. ASSUME D # {} PROVE f \in C /\ \A j \in C \ {f} : Before(f, j)
  BY <1>3, <1>4, FirstCandidate
<1>5. ASSUME D # {}, NEW e \in D, e # registry[f] PROVE Preferable(registry[f], e)
  <2>1. PICK j \in C : registry[j] = e
    BY <1>2
  <2>2. Before(f, j) /\ f \in C
    BY <1>4, <1>5, <2>1
  <2>3. CASE Precedes(registry[f].entry.template, e.entry.template)
    BY <2>3 DEF Preferable
  <2>4. CASE registry[f].entry.template = e.entry.template /\ f < j
    <3>1. registry[f].file <= e.file
      BY <2>1, <2>2, <2>4, RegistryFacts DEF Candidates
    <3>2. registry[f].file # e.file
      <4>1. registry[f].entry.method = e.entry.method
        BY <2>1, <2>2 DEF Candidates
      <4>2. registry[f] \in Held(read, Operations) /\ e \in Held(read, Operations)
        BY <1>1, <1>2, <2>2
      <4>. QED BY <1>5, <2>4, <4>1, <4>2, OperationFacts DEF RegistryInv
    <3>3. registry[f].file \in Nat /\ e.file \in Nat
      BY <1>1, <1>2, <2>2, OperationFacts DEF RegistryInv
    <3>. QED BY <2>4, <3>1, <3>2, <3>3 DEF Preferable
  <2>. QED BY <2>1, <2>2, <2>3, <2>4 DEF Before
<1>. QED BY <1>1, <1>3, <1>4, <1>5

\* A set of which no more than one can be counted has no two members.
LEMMA NoTwo ==
    ASSUME NEW S, IsFiniteSet(S), NEW x \in S, NEW y \in S, x # y
    PROVE  Cardinality(S) > 1
<1>1. IsFiniteSet({x}) /\ Cardinality({x}) = 1
  BY FS_Singleton
<1>2. Cardinality({x} \union {y}) = 2
  BY <1>1, FS_AddElement
<1>3. Cardinality({x} \union {y}) <= Cardinality(S) /\ Cardinality(S) \in Nat
  <2>1. {x} \union {y} \in SUBSET S
    OBVIOUS
  <2>. QED BY <2>1, FS_Subset, FS_CardinalityType
<1>. QED BY <1>2, <1>3

\* What is held comes from a file that has been read.
LEMMA HeldFile ==
    ASSUME WalkOK, NEW families, NEW d \in Held(read, families)
    PROVE  /\ d.file \in DOMAIN corpus /\ corpus[d.file].family \in families
           /\ d.entry \in Listed(corpus[d.file])
           /\ d = [file |-> d.file, entry |-> d.entry]
<1>1. /\ d.file \in read /\ corpus[d.file].family \in families
      /\ d.entry \in Listed(corpus[d.file])
      /\ d = [file |-> d.file, entry |-> d.entry]
  BY HeldFacts
<1>2. d.file \in DOMAIN corpus
  BY <1>1, FileFacts DEF WalkOK
<1>. QED BY <1>1, <1>2

\* A file has no two webhooks of one event and one operation id.
LEMMA WebhookFacts ==
    ASSUME WalkOK, NEW d \in Held(read, {"webhooks"}), NEW e \in Held(read, {"webhooks"}),
           d.file = e.file, d.entry.event = e.entry.event,
           d.entry.id = e.entry.id, d.entry.id # ""
    PROVE  d = e
<1>1. /\ d.file \in DOMAIN corpus /\ corpus[d.file].family = "webhooks"
      /\ d.entry \in Listed(corpus[d.file]) /\ e.entry \in Listed(corpus[d.file])
      /\ d = [file |-> d.file, entry |-> d.entry] /\ e = [file |-> e.file, entry |-> e.entry]
  <2>1. ASSUME NEW x \in Held(read, {"webhooks"})
        PROVE  /\ x.file \in DOMAIN corpus /\ corpus[x.file].family \in {"webhooks"}
               /\ x.entry \in Listed(corpus[x.file])
               /\ x = [file |-> x.file, entry |-> x.entry]
    BY HeldFile
  <2>. QED BY <2>1
<1>2. d.entry \in corpus[d.file].entries /\ e.entry \in corpus[d.file].entries
  BY <1>1 DEF Listed
<1>3. d.entry = e.entry
  BY <1>1, <1>2, WebhookAssumption DEF WebhookAssumption, WalkOK
<1>. QED BY <1>1, <1>3

\* What a webhook is held against is decided by the files.
LEMMA WebhookAny ==
    ASSUME RegistryInv
    PROVE  WebhookDecided
<1>. DEFINE W == Entries({"webhooks"})
<1>1. SUFFICES ASSUME NEW event, NEW title, NEW id PROVE Decided(event, title, id)
  BY DEF WebhookDecided
<1>. DEFINE M == WebhookMatches(event, title, id)
            D == Hinted(event, title, id)
            F == FirstHinted(event, title, id)
<1>2. W = Held(read, {"webhooks"}) /\ \A d \in W : d.file \in Nat
  <2>1. W = Held(read, {"webhooks"})
    BY EntriesHeld
  <2>2. \A d \in W : d.file \in read
    BY <2>1, HeldFacts
  <2>3. Len(corpus) \in Nat /\ \A i \in read : i \in Nat
    BY FileFacts DEF RegistryInv, WalkOK
  <2>. HIDE DEF W
  <2>. QED BY <2>1, <2>2, <2>3
<1>3. Len(hooks) \in Nat /\ DOMAIN hooks = 1..Len(hooks) /\ \A i \in DOMAIN hooks : hooks[i] \in W
  <2>1. hooks \in Seq(W)
    BY <1>2 DEF RegistryInv, InOrder
  <2>. QED BY <2>1, LenProperties, ElementOfSeq
<1>4. /\ \A i \in M : i \in DOMAIN hooks /\ hooks[i] \in D
      /\ \A d \in D : \E i \in M : hooks[i] = d
  BY <1>2, <1>3 DEF WebhookMatches, Hinted, RegistryInv, InOrder
<1>5. \A d \in D : d \in W /\ d.entry.event = event /\ (id # "" => d.entry.id = id)
  BY DEF Hinted
<1>6. M \in SUBSET (1..Len(hooks)) /\ M \in SUBSET Nat
  <2>. HIDE DEF M, D, W
  <2>. QED BY <1>3, <1>4
<1>7. IsFiniteSet(M)
  <2>1. IsFiniteSet(1..Len(hooks))
    <3>1. 1 \in Int /\ Len(hooks) \in Int
      BY <1>3
    <3>. QED BY <3>1, FS_Interval
  <2>. QED BY <1>6, <2>1, FS_Subset
<1>. HIDE DEF M, D, F, W
<1>. DEFINE First == {hooks[i] : i \in {j \in M : \A k \in M : j <= k}}
            several == \E d, e \in D : d # e
<1>8. Cardinality(M) > 1 <=> several
  <2>1. ASSUME several PROVE Cardinality(M) > 1
    <3>1. PICK d \in D, e \in D : d # e
      BY <2>1
    <3>2. PICK i \in M : hooks[i] = d
      BY <1>4
    <3>3. PICK j \in M : hooks[j] = e
      BY <1>4
    <3>. QED BY <1>7, <3>1, <3>2, <3>3, NoTwo
  <2>2. ASSUME ~several PROVE ~(Cardinality(M) > 1)
    <3>1. \A i, j \in M : i = j
      BY <1>4, <2>2 DEF RegistryInv, InOrder
    <3>2. M = {} \/ \E i \in M : M = {i}
      BY <3>1
    <3>3. Cardinality(M) = 0 \/ Cardinality(M) = 1
      BY <3>2, FS_EmptySet, FS_Singleton
    <3>. QED BY <3>3
  <2>. HIDE DEF several
  <2>. QED BY <2>1, <2>2
<1>9. CASE D = {}
  <2>1. M = {}
    BY <1>4, <1>9
  <2>2. ValidateWebhook(event, title, id) = {}
    BY <2>1 DEF ValidateWebhook, M
  <2>. QED BY <1>9, <2>2 DEF Decided, D
<1>10. CASE title = "" /\ id = "" /\ several
  <2>1. ValidateWebhook(event, title, id) = {}
    <3>. HIDE DEF several
    <3>. QED BY <1>8, <1>10 DEF ValidateWebhook, M
  <2>. QED BY <1>10, <2>1 DEF Decided, D
<1>11. CASE D # {} /\ ~(title = "" /\ id = "" /\ several)
  <2>1. PICK m \in M : \A k \in M : m <= k
    <3>1. M # {}
      BY <1>4, <1>11
    <3>. QED BY <1>6, <3>1, LeastNumber
  <2>2. First = {hooks[m]}
    <3>1. ASSUME NEW j \in M, \A k \in M : j <= k PROVE j = m
      <4>1. j <= m /\ m <= j /\ j \in Nat /\ m \in Nat
        BY <1>6, <2>1, <3>1
      <4>. QED BY <4>1
    <3>. QED BY <2>1, <3>1
  <2>3. ValidateWebhook(event, title, id) = {hooks[m]}
    <3>1. ValidateWebhook(event, title, id) = First
      <4>. HIDE DEF several
      <4>. QED BY <1>8, <1>11 DEF ValidateWebhook, M
    <3>. QED BY <2>2, <3>1
  <2>4. ASSUME NEW e \in D PROVE hooks[m].file <= e.file
    <3>1. PICK k \in M : hooks[k] = e
      BY <1>4
    <3>2. m = k \/ m < k
      <4>1. m <= k /\ m \in Nat /\ k \in Nat
        BY <1>6, <2>1, <3>1
      <4>. QED BY <4>1
    <3>3. CASE m < k
      BY <1>4, <3>1, <3>3 DEF RegistryInv, InOrder
    <3>4. CASE m = k
      <4>1. hooks[m].file \in Nat
        BY <1>2, <1>3, <1>4
      <4>. QED BY <3>1, <3>4, <4>1
    <3>. QED BY <3>2, <3>3, <3>4
  <2>5. hooks[m] \in F
    BY <1>4, <2>4 DEF FirstHinted, F, D
  <2>6. ASSUME id # "", NEW d \in F PROVE d = hooks[m]
    <3>1. /\ d \in D /\ hooks[m] \in D
          /\ d.file <= hooks[m].file /\ hooks[m].file <= d.file
      BY <1>4, <2>6, <2>5 DEF FirstHinted, F, D
    <3>2. d \in W /\ hooks[m] \in W /\ d.file = hooks[m].file
      <4>1. d \in W /\ hooks[m] \in W /\ d.file \in Nat /\ hooks[m].file \in Nat
        BY <1>2, <1>5, <3>1
      <4>. QED BY <3>1, <4>1
    <3>3. d.entry.event = hooks[m].entry.event /\ d.entry.id = hooks[m].entry.id /\ d.entry.id # ""
      BY <1>5, <2>6, <3>1
    <3>. QED BY <1>2, <3>2, <3>3, WebhookFacts DEF RegistryInv
  <2>7. /\ \E d \in F : ValidateWebhook(event, title, id) = {d}
        /\ id # "" => ValidateWebhook(event, title, id) = F
    <3>1. id # "" => F = {hooks[m]}
      BY <2>5, <2>6
    <3>. QED BY <2>3, <2>5, <3>1
  <2>. QED BY <1>11, <2>7 DEF Decided, D, F
<1>. QED BY <1>9, <1>10, <1>11

--------------------------------------------------------------------------------

\* Now the SDK around the registries.

IsSettings(s) ==
    /\ s = [baseURL |-> s.baseURL, accountID |-> s.accountID, inRange |-> s.inRange]
    /\ IsURL(s.baseURL)

\* From configuration on there are settings of the right form.
Configured ==
    phase \notin {"settings", "failed"} =>
        IsSettings(settings)

\* The SDK keeps what the registry says of each operation.
Described ==
    phase \in {"ready", "sent"} => \A o \in Inventory :
        /\ sdk[o].spec = Specs(o)
        /\ sdk[o].query = QueryParameters(o)
        /\ sdk[o].body \in BodySchemas(o)

\* What was sent comes from the call, the settings and the registry as they still are.
Called ==
    Sent =>
        /\ phase \in {"ready", "sent"}
        /\ call \in Calls
        /\ ~MissingParameter(call)
        /\ ~BodyRefused(call)
        /\ request.path = Rendered(call)
        /\ request.query \in Queries(call)
        /\ request.server = Server(call.op.method, request.path)

\* What was answered has been judged.
Answered ==
    answer # None =>
        /\ phase = "ready"
        /\ Sent
        /\ verdict \in Judgements(call.op.method, request.path, answer.status, answer.payload)

IInv ==
    /\ TypeOK
    /\ RegistryInv
    /\ Configured
    /\ Described
    /\ Called
    /\ Answered

--------------------------------------------------------------------------------

\* Lookups change only when the registry does.
LEMMA LookupUnchanged ==
    ASSUME UNCHANGED registry
    PROVE  /\ \A method, path : Candidates(method, path)' = Candidates(method, path)
           /\ \A method, path : Found(method, path)' = Found(method, path)
           /\ \A o : Specs(o)' = Specs(o)
           /\ \A o : BodySchemas(o)' = BodySchemas(o)
           /\ \A o : QueryParameters(o)' = QueryParameters(o)
<1>1. \A method, path : Candidates(method, path)' = Candidates(method, path)
  BY DEF Candidates
<1>2. \A method, path : FindOperation(method, path)' = FindOperation(method, path)
  BY <1>1 DEF FindOperation
<1>3. \A method, path : Found(method, path)' = Found(method, path)
  BY <1>2 DEF Found
<1>4. \A o : Specs(o)' = Specs(o)
  BY <1>1, <1>3 DEF Specs
<1>5. \A o : BodySchemas(o)' = BodySchemas(o)
  BY <1>4 DEF BodySchemas
<1>6. \A o : QueryParameters(o)' = QueryParameters(o)
  BY <1>3, <1>4 DEF QueryParameters
<1>. QED BY <1>1, <1>3, <1>4, <1>5, <1>6

\* What a call comes to changes only with the registry, the settings or the SDK.
LEMMA SentUnchanged ==
    ASSUME UNCHANGED <<registryVars, settings, sdk>>
    PROVE  /\ \A c : MissingParameter(c)' = MissingParameter(c)
           /\ \A c : BodyRefused(c)' = BodyRefused(c)
           /\ \A c : Rendered(c)' = Rendered(c)
           /\ \A c : Queries(c)' = Queries(c)
           /\ \A method, path : Server(method, path)' = Server(method, path)
           /\ \A method, path, status, payload :
                Judgements(method, path, status, payload)' = Judgements(method, path, status, payload)
<1>1. UNCHANGED registry
  BY DEF registryVars
<1>2. /\ \A method, path : Candidates(method, path)' = Candidates(method, path)
      /\ \A method, path : Found(method, path)' = Found(method, path)
  BY <1>1, LookupUnchanged
<1>3. \A c, name : PathArguments(c, name)' = PathArguments(c, name)
  BY DEF PathArguments
<1>4. \A c : MissingParameter(c)' = MissingParameter(c)
  BY <1>3 DEF MissingParameter, Placeholders
<1>5. \A c : BodyRefused(c)' = BodyRefused(c)
  BY DEF BodyRefused
<1>6. \A c : Rendered(c)' = Rendered(c)
  <2>1. \A c, name : PathArgument(c, name)' = PathArgument(c, name)
    BY <1>3 DEF PathArgument
  <2>. QED BY <2>1 DEF Rendered
<1>7. \A o, key : OriginalName(o, key)' = OriginalName(o, key)
  BY DEF OriginalName
<1>8. \A c : Queries(c)' = Queries(c)
  BY <1>7 DEF Queries
<1>9. \A method, path : Server(method, path)' = Server(method, path)
  BY <1>2 DEF Server
<1>10. \A method, path, status, payload :
        Judgements(method, path, status, payload)' = Judgements(method, path, status, payload)
  BY <1>2 DEF Judgements
<1>. QED BY <1>4, <1>5, <1>6, <1>8, <1>9, <1>10

--------------------------------------------------------------------------------

\* The initial states satisfy the inductive invariant.
LEMMA InitIInv == Init => IInv
<1>. SUFFICES ASSUME Init PROVE IInv
  OBVIOUS
<1>1. RegistryInv
  BY RegistryStart DEF Init
<1>2. request = None /\ answer = None /\ phase = "settings" /\ verdict = "none"
  BY DEF Init
<1>3. TypeOK
  BY <1>1, <1>2 DEF TypeOK, RegistryInv, WalkOK
<1>. QED BY <1>1, <1>2, <1>3 DEF IInv, Configured, Described, Called, Sent, Answered

\* Every step leaves the registries in order.
LEMMA RegistryKept ==
    ASSUME RegistryInv, [Next]_vars
    PROVE  RegistryInv'
<1>1. Load \/ Loaded \/ UNCHANGED registryVars
  BY DEF Next, vars, Configure, NewClient, LoadSchemas, SchemasLoaded, NewSDK, Answer,
         LoadSettings, Refuse, Send
<1>. QED BY <1>1, RegistryStep

\* A URL with another ending is a URL.
LEMMA LastReplaced ==
    ASSUME NEW h, NEW v, NEW f, NEW g
    PROVE  [[host |-> h, valid |-> v, slash |-> f] EXCEPT !.slash = g]
            = [host |-> h, valid |-> v, slash |-> g]
OBVIOUS

\* Settings with another URL are settings.
LEMMA FirstReplaced ==
    ASSUME NEW b, NEW a, NEW r, NEW u
    PROVE  [[baseURL |-> b, accountID |-> a, inRange |-> r] EXCEPT !.baseURL = u]
            = [baseURL |-> u, accountID |-> a, inRange |-> r]
OBVIOUS

\* Normalized settings keep their form and have no slash at the end of their URL.
LEMMA NormalizedFacts ==
    ASSUME NEW s, IsSettings(s)
    PROVE  /\ IsSettings(Normalized(s))
           /\ Normalized(s).baseURL.slash = FALSE
           /\ Normalized(s).baseURL.valid = s.baseURL.valid
           /\ Normalized(s).inRange = s.inRange
<1>. DEFINE u == [host |-> s.baseURL.host, valid |-> s.baseURL.valid, slash |-> FALSE]
            n == [baseURL |-> u, accountID |-> s.accountID, inRange |-> s.inRange]
<1>1. [s.baseURL EXCEPT !.slash = FALSE] = u
  <2>. DEFINE v == s.baseURL
  <2>1. v = [host |-> v.host, valid |-> v.valid, slash |-> v.slash]
    BY DEF IsSettings, IsURL
  <2>. HIDE DEF v
  <2>2. \A g : [[host |-> v.host, valid |-> v.valid, slash |-> v.slash] EXCEPT !.slash = g]
                = [host |-> v.host, valid |-> v.valid, slash |-> g]
    BY LastReplaced
  <2>3. \A g : [v EXCEPT !.slash = g] = [host |-> v.host, valid |-> v.valid, slash |-> g]
    BY <2>1, <2>2, Zenon
  <2>. QED BY <2>3, Zenon DEF v
<1>2. Normalized(s) = [s EXCEPT !.baseURL = [s.baseURL EXCEPT !.slash = FALSE]]
  BY DEF Normalized
<1>3. [s EXCEPT !.baseURL = u] = n
  <2>1. s = [baseURL |-> s.baseURL, accountID |-> s.accountID, inRange |-> s.inRange]
    BY DEF IsSettings
  <2>. HIDE DEF u
  <2>2. [[baseURL |-> s.baseURL, accountID |-> s.accountID, inRange |-> s.inRange] EXCEPT !.baseURL = u] = n
    BY FirstReplaced
  <2>. QED BY <2>1, <2>2, Zenon
<1>4. Normalized(s) = n
  BY <1>1, <1>2, <1>3
<1>5. IsSettings(n)
  BY DEF IsSettings, IsURL
<1>. QED BY <1>4, <1>5

\* Settings keep their form: those that are given or set have it, and normalizing keeps it.
LEMMA ConfiguredStep ==
    ASSUME Configured, [Next]_vars
    PROVE  Configured'
<1>1. CASE Configure
  BY <1>1, SurfaceAssumption DEF SurfaceAssumption, Configured, Configure, IsSettings
<1>2. ASSUME NEW e \in Environments, LoadSettings(e) PROVE Configured'
  <2>1. PICK s : IsSettings(s) /\ IF Valid(s) THEN settings' = Normalized(s) /\ phase' = "configured"
                                             ELSE phase' = "failed" /\ UNCHANGED settings
    <3>. DEFINE url == EnvValue(e, "ZOOM_BASE_URL", DefaultURL)
                made == [baseURL |-> url, accountID |-> EnvValue(e, "ZOOM_ACCOUNT_ID", Empty),
                         inRange |-> EnvValue(e, "ZOOM_TOKEN_SKEW_SECONDS", TRUE)]
    <3>1. IsURL(url)
      BY SurfaceAssumption DEF SurfaceAssumption, EnvValue
    <3>. HIDE DEF url
    <3>2. IsSettings(made)
      BY <3>1 DEF IsSettings
    <3>. QED BY <1>2, <3>2 DEF LoadSettings, url
  <2>. QED BY <2>1, NormalizedFacts DEF Configured
<1>3. CASE NewClient
  BY <1>3, NormalizedFacts DEF Configured, NewClient
<1>4. CASE UNCHANGED settings /\ (phase' = phase \/ phase \notin {"settings", "failed"})
  BY <1>4 DEF Configured
<1>5. CASE LoadSchemas \/ SchemasLoaded
  BY <1>4, <1>5 DEF LoadSchemas, SchemasLoaded, surfaceVars, Load, LoadFile, Vanished, BadFile, Loaded
<1>6. CASE NewSDK \/ Answer
  BY <1>4, <1>6 DEF NewSDK, Answer
<1>7. ASSUME NEW c \in Calls, Refuse(c) \/ Send(c) PROVE Configured'
  BY <1>4, <1>7 DEF Refuse, Send
<1>8. CASE UNCHANGED vars
  BY <1>4, <1>8 DEF vars, surfaceVars
<1>. QED BY <1>1, <1>2, <1>3, <1>5, <1>6, <1>7, <1>8 DEF Next

\* Types are kept; what is validated when a client is made stays valid.
LEMMA TypeStep ==
    ASSUME TypeOK, RegistryInv, Configured, [Next]_vars
    PROVE  TypeOK'
<1>. DEFINE Rest ==
        /\ phase \in {"settings", "configured", "loading", "loaded", "ready", "sent", "failed"}
        /\ phase \in {"loading", "loaded", "ready", "sent"} =>
            settings.baseURL.valid /\ ~settings.baseURL.slash /\ settings.inRange
        /\ phase \in {"ready", "sent"} => DOMAIN sdk = Inventory
        /\ phase = "sent" => request # None /\ verdict = "none"
        /\ verdict \in {"none", "refused", "accepted"}
        /\ verdict = "accepted" => answer # None
<1>1. WalkOK'
  BY RegistryKept DEF RegistryInv
<1>2. Rest
  BY DEF TypeOK
<1>3. SUFFICES Rest'
  BY <1>1, <1>3 DEF TypeOK, WalkOK
<1>4. CASE NewClient
  BY <1>2, <1>4, NormalizedFacts DEF NewClient, Configured, Valid
<1>5. ASSUME NEW e \in Environments, LoadSettings(e) PROVE Rest'
  BY <1>2, <1>5 DEF LoadSettings
<1>6. CASE Configure \/ NewSDK
  BY <1>2, <1>6 DEF Configure, NewSDK
<1>7. CASE LoadSchemas \/ SchemasLoaded
  BY <1>2, <1>7 DEF LoadSchemas, SchemasLoaded, surfaceVars, Load, LoadFile, Vanished, BadFile, Loaded
<1>8. CASE Answer
  <2>1. verdict' \in {"none", "refused", "accepted"}
    BY <1>8 DEF Answer, Judgements
  <2>2. answer' # None
    BY <1>8 DEF Answer, None
  <2>. QED BY <1>2, <1>8, <2>1, <2>2 DEF Answer
<1>9. ASSUME NEW c \in Calls, Refuse(c) PROVE Rest'
  BY <1>2, <1>9 DEF Refuse
<1>10. ASSUME NEW c \in Calls, Send(c) PROVE Rest'
  <2>1. request' # None
    BY <1>10 DEF Send, None
  <2>. QED BY <1>2, <1>10, <2>1 DEF Send
<1>11. CASE UNCHANGED vars
  BY <1>2, <1>11 DEF vars, surfaceVars
<1>. QED BY <1>4, <1>5, <1>6, <1>7, <1>8, <1>9, <1>10, <1>11 DEF Next

\* The SDK is described once, and the registry stays as it is from then on.
LEMMA DescribedStep ==
    ASSUME TypeOK, Described, [Next]_vars
    PROVE  Described'
<1>1. CASE NewSDK
  <2>1. UNCHANGED registry
    BY <1>1 DEF NewSDK, registryVars
  <2>2. ASSUME NEW o \in Inventory
        PROVE  sdk'[o].spec = Specs(o) /\ sdk'[o].query = QueryParameters(o) /\ sdk'[o].body \in BodySchemas(o)
    BY <1>1 DEF NewSDK
  <2>. QED BY <2>1, <2>2, LookupUnchanged DEF Described
<1>2. CASE UNCHANGED <<registry, sdk>> /\ phase \in {"ready", "sent"}
  BY <1>2, LookupUnchanged DEF Described
<1>3. CASE Answer \/ \E c \in Calls : Refuse(c) \/ Send(c)
  BY <1>2, <1>3 DEF Answer, Refuse, Send, registryVars
<1>4. CASE phase' \notin {"ready", "sent"}
  BY <1>4 DEF Described
<1>5. CASE Configure \/ NewClient \/ LoadSchemas \/ SchemasLoaded \/ \E e \in Environments : LoadSettings(e)
  BY <1>4, <1>5 DEF Configure, NewClient, LoadSettings, LoadSchemas, SchemasLoaded,
                    Load, LoadFile, Vanished, BadFile, Loaded
<1>6. CASE UNCHANGED vars
  BY <1>2, <1>4, <1>6 DEF vars, surfaceVars, registryVars
<1>. QED BY <1>1, <1>3, <1>5, <1>6 DEF Next

\* Between a request and its answer nothing changes that the request came from.
LEMMA CalledStep ==
    ASSUME TypeOK, Called, [Next]_vars
    PROVE  Called'
<1>1. ASSUME NEW c \in Calls, Send(c) PROVE Called'
  <2>1. UNCHANGED <<registryVars, settings, sdk>> /\ call' = c /\ phase' = "sent"
    BY <1>1 DEF Send
  <2>2. PICK query \in Queries(c) :
            request' = [kind |-> "request", path |-> Rendered(c), query |-> query,
                        server |-> Server(c.op.method, Rendered(c))]
    BY <1>1 DEF Send
  <2>3. /\ request'.path = Rendered(c) /\ request'.query \in Queries(c)
        /\ request'.server = Server(c.op.method, request'.path)
    BY <2>2
  <2>4. ~MissingParameter(c) /\ ~BodyRefused(c)
    BY <1>1 DEF Send
  <2>. QED BY <2>1, <2>3, <2>4, SentUnchanged DEF Called
<1>2. ASSUME NEW c \in Calls, Refuse(c) PROVE Called'
  BY <1>2 DEF Refuse, Called, Sent
<1>3. CASE UNCHANGED <<registryVars, settings, sdk, call, request>> /\ (Sent => phase' \in {"ready", "sent"})
  BY <1>3, SentUnchanged DEF Called, Sent
<1>4. CASE Answer
  BY <1>3, <1>4 DEF Answer
<1>5. CASE ~Sent /\ UNCHANGED request
  BY <1>5 DEF Called, Sent
<1>6. CASE phase \notin {"ready", "sent"} /\ UNCHANGED request
  BY <1>5, <1>6 DEF Called
<1>7. CASE Configure \/ NewClient \/ LoadSchemas \/ SchemasLoaded \/ NewSDK \/ \E e \in Environments : LoadSettings(e)
  BY <1>6, <1>7 DEF Configure, NewClient, LoadSettings, LoadSchemas, SchemasLoaded, NewSDK,
                    surfaceVars, Load, Loaded
<1>8. CASE UNCHANGED vars
  BY <1>3, <1>5, <1>8 DEF vars, surfaceVars, Called
<1>. QED BY <1>1, <1>2, <1>4, <1>7, <1>8 DEF Next

\* An answer is judged by what was sent.
LEMMA AnsweredStep ==
    ASSUME TypeOK, Called, Answered, [Next]_vars
    PROVE  Answered'
<1>1. CASE Answer
  <2>1. UNCHANGED <<registryVars, settings, sdk, call, request>> /\ phase' = "ready" /\ phase = "sent"
    BY <1>1 DEF Answer
  <2>2. PICK status \in Statuses, payload \in Payloads :
            /\ answer' = [kind |-> "answer", status |-> status, payload |-> payload]
            /\ verdict' \in Judgements(call.op.method, request.path, status, payload)
    BY <1>1 DEF Answer
  <2>3. verdict' \in Judgements(call.op.method, request.path, answer'.status, answer'.payload)
    BY <2>2
  <2>4. Sent'
    BY <2>1 DEF TypeOK, Sent
  <2>. QED BY <2>1, <2>3, <2>4, SentUnchanged DEF Answered
<1>2. ASSUME NEW c \in Calls, Send(c) \/ Refuse(c) PROVE Answered'
  BY <1>2 DEF Send, Refuse, Answered
<1>3. CASE UNCHANGED answer /\ answer = None
  BY <1>3 DEF Answered
<1>4. CASE phase \notin {"ready"} /\ UNCHANGED answer
  BY <1>3, <1>4 DEF Answered
<1>5. CASE Configure \/ NewClient \/ LoadSchemas \/ SchemasLoaded \/ NewSDK \/ \E e \in Environments : LoadSettings(e)
  BY <1>4, <1>5 DEF Configure, NewClient, LoadSettings, LoadSchemas, SchemasLoaded, NewSDK,
                    surfaceVars, Load, Loaded
<1>6. CASE UNCHANGED vars
  BY <1>6, SentUnchanged DEF vars, surfaceVars, Answered, Sent
<1>. QED BY <1>1, <1>2, <1>5, <1>6 DEF Next

\* Every step keeps the inductive invariant.
LEMMA NextIInv == IInv /\ [Next]_vars => IInv'
BY RegistryKept, TypeStep, ConfiguredStep, DescribedStep, CalledStep, AnsweredStep DEF IInv

\* The inductive invariant holds in every reachable state.
LEMMA Invariance == Spec => []IInv
BY InitIInv, NextIInv, PTL DEF Spec

\* The state keeps its types, and a client that is loading schemas, or does more, has a
\* valid base URL without a slash at its end (Settings.Validate).
THEOREM TypeCorrect == Spec => []TypeOK
<1>1. IInv => TypeOK
  BY DEF IInv
<1>. QED BY <1>1, Invariance, PTL

\* What a lookup finds does not depend on the order of Go's maps.
THEOREM LookupCorrect == Spec => []LookupStable
<1>1. IInv => LookupStable
  BY LookupAny DEF IInv, LookupStable
<1>. QED BY <1>1, Invariance, PTL

\* Neither does what a webhook is held against: without a hint only a webhook that is alone,
\* and otherwise one of the first file with a match, a certain one if its id is given.
THEOREM WebhookCorrect == Spec => []WebhookDecided
<1>1. IInv => WebhookDecided
  BY WebhookAny DEF IInv
<1>. QED BY <1>1, Invariance, PTL

--------------------------------------------------------------------------------

\* A path with an empty segment matches no template.
LEMMA NothingEmptyMatches ==
    ASSUME RegistryInv, NEW method, NEW path, Candidates(method, path) # {}, NEW i \in DOMAIN path
    PROVE  path[i] # Empty
<1>1. PICK c \in DOMAIN registry : Matches(registry[c].entry.template, path)
  BY DEF Candidates
<1>2. registry[c] \in Held(read, Operations)
  BY RegistryFacts
<1>3. i \in DOMAIN registry[c].entry.template
  BY <1>1 DEF Matches
<1>4. registry[c].entry.template[i] # Empty
  BY <1>2, <1>3, OperationFacts DEF RegistryInv
<1>. QED BY <1>1, <1>3, <1>4 DEF Matches

\* What was sent with an empty argument is refused, whatever the answer.
THEOREM EmptyCorrect == Spec => []EmptyNeverAccepted
<1>1. ASSUME IInv PROVE EmptyNeverAccepted
  <2>1. SUFFICES ASSUME verdict = "accepted", NEW i \in DOMAIN request.path
                 PROVE  request.path[i] # Empty
    BY DEF EmptyNeverAccepted
  <2>2. verdict \in Judgements(call.op.method, request.path, answer.status, answer.payload)
    BY <1>1, <2>1 DEF IInv, TypeOK, Answered
  <2>3. Candidates(call.op.method, request.path) # {}
    BY <2>1, <2>2 DEF Judgements
  <2>. QED BY <1>1, <2>3, NothingEmptyMatches DEF IInv
<1>. QED BY <1>1, Invariance, PTL

--------------------------------------------------------------------------------

\* The names of query parameters are apart, wherever they come from.
LEMMA QueryNames ==
    ASSUME IInv, phase \in {"ready", "sent"}, NEW o \in Inventory
    PROVE  Apart(sdk[o].query)
<1>1. sdk[o].query = QueryParameters(o)
  BY DEF IInv, Described
<1>2. CASE Candidates(o.method, o.template) = {}
  <2>1. QueryParameters(o) = o.query
    BY <1>2 DEF QueryParameters, Specs
  <2>. QED BY <1>1, <2>1, SurfaceAssumption DEF SurfaceAssumption
<1>3. CASE Candidates(o.method, o.template) # {}
  <2>1. FindOperation(o.method, o.template) \in DOMAIN registry
    BY <1>3, FirstCandidate DEF IInv, Candidates
  <2>2. registry[FindOperation(o.method, o.template)] \in Held(read, Operations)
    BY <2>1, RegistryFacts DEF IInv
  <2>3. Apart(Found(o.method, o.template).query)
    BY <2>2, OperationFacts, SurfaceAssumption DEF SurfaceAssumption, Found, IInv, RegistryInv, WalkOK
  <2>4. QueryParameters(o) \in {o.query, Found(o.method, o.template).query}
    BY DEF QueryParameters
  <2>. QED BY <1>1, <2>3, <2>4, SurfaceAssumption DEF SurfaceAssumption
<1>. QED BY <1>2, <1>3

\* A spelling leads to the name that is spelt like that, and any other stays as it is.
LEMMA SpellingFacts ==
    ASSUME NEW o, NEW key, Apart(sdk[o].query)
    PROVE  /\ key \in {OriginalName(o, key), snakeCase[OriginalName(o, key)]}
           /\ \A i \in DOMAIN sdk[o].query :
                key \in {sdk[o].query[i], snakeCase[sdk[o].query[i]]} => OriginalName(o, key) = sdk[o].query[i]
<1>. DEFINE names == sdk[o].query
            spelt == {i \in DOMAIN names : key \in {names[i], snakeCase[names[i]]}}
<1>1. CASE spelt = {}
  BY <1>1 DEF OriginalName
<1>2. CASE spelt # {}
  <2>1. Len(names) \in Nat /\ spelt \in SUBSET (1..Len(names))
    BY DEF Apart
  <2>2. PICK i \in spelt : \A j \in spelt : j <= i
    <3>. HIDE DEF spelt
    <3>. QED BY <1>2, <2>1, GreatestNumber
  <2>3. PICK k \in spelt : OriginalName(o, key) = names[k]
    <3>1. OriginalName(o, key) = names[CHOOSE n \in spelt : \A j \in spelt : j <= n]
      BY <1>2 DEF OriginalName
    <3>. HIDE DEF spelt
    <3>. QED BY <2>2, <3>1
  <2>4. \A n \in spelt : names[n] = names[k]
    BY DEF Apart
  <2>. QED BY <2>3, <2>4
<1>. QED BY <1>1, <1>2

\* The arguments of a path come from the call, or from the settings for the account.
LEMMA PathFactsOfCall ==
    ASSUME NEW c, ~MissingParameter(c), NEW i \in DOMAIN c.op.template, c.op.template[i] \in Params
    PROVE  Rendered(c)[i] \in PathArguments(c, c.op.template[i])
<1>1. c.op.template[i] \in Placeholders(c.op)
  BY DEF Placeholders
<1>2. PathArguments(c, c.op.template[i]) # {}
  BY <1>1 DEF MissingParameter
<1>. QED BY <1>2 DEF Rendered, PathArgument

\* What a caller gives is sent, and nothing else.
THEOREM ArgumentsCorrect == Spec => []ArgumentsArrive
<1>1. ASSUME IInv PROVE ArgumentsArrive
  <2>. SUFFICES ASSUME Sent PROVE ArgumentsArrive
    BY DEF ArgumentsArrive
  <2>1. /\ call \in Calls /\ call.op \in Inventory /\ ~MissingParameter(call)
        /\ request.path = Rendered(call) /\ request.query \in Queries(call)
        /\ phase \in {"ready", "sent"}
    BY <1>1, SurfaceAssumption DEF SurfaceAssumption, IInv, Called
  <2>2. ASSUME NEW i \in DOMAIN request.path, call.op.template[i] \in Params
        PROVE  LET name == call.op.template[i]
                   given == {call.path[k] : k \in DOMAIN call.path \intersect {name, snakeCase[name]}}
               IN IF given # {} THEN request.path[i] \in given
                                ELSE snakeCase[name] = AccountId /\ request.path[i] = settings.accountID
    <3>1. i \in DOMAIN call.op.template
      BY <2>1 DEF Rendered
    <3>2. request.path[i] \in PathArguments(call, call.op.template[i])
      BY <2>1, <2>2, <3>1, PathFactsOfCall
    <3>. QED BY <3>2 DEF PathArguments
  <2>3. Apart(sdk[call.op].query)
    BY <1>1, <2>1, QueryNames
  <2>. DEFINE N(key) == OriginalName(call.op, key)
  <2>4. /\ DOMAIN request.query = {N(key) : key \in DOMAIN call.query}
        /\ \A name \in DOMAIN request.query : request.query[name] \in
                {call.query[key] : key \in {k \in DOMAIN call.query : N(k) = name}}
    BY <2>1 DEF Queries
  <2>5. \A key : key \in {N(key), snakeCase[N(key)]}
    BY <2>3, SpellingFacts
  <2>6. ASSUME NEW i \in DOMAIN sdk[call.op].query,
               {sdk[call.op].query[i], snakeCase[sdk[call.op].query[i]]} \intersect DOMAIN call.query # {}
        PROVE  sdk[call.op].query[i] \in DOMAIN request.query
    <3>1. PICK key \in DOMAIN call.query : key \in {sdk[call.op].query[i], snakeCase[sdk[call.op].query[i]]}
      BY <2>6
    <3>2. N(key) = sdk[call.op].query[i]
      BY <2>3, <3>1, SpellingFacts
    <3>. QED BY <2>4, <3>1, <3>2
  <2>. HIDE DEF N
  <2>7. \A name \in DOMAIN request.query : request.query[name] \in {call.query[k] : k \in
                {k \in DOMAIN call.query : k \in {name, snakeCase[name]}}}
    BY <2>4, <2>5
  <2>8. \A key \in DOMAIN call.query : \E name \in DOMAIN request.query :
            key \in {name, snakeCase[name]}
    BY <2>4, <2>5
  <2>. QED BY <2>2, <2>6, <2>7, <2>8 DEF ArgumentsArrive
<1>. QED BY <1>1, Invariance, PTL

--------------------------------------------------------------------------------

\* A path that is this operation's: its template, or what a call makes of it.
LeadsTo(o, path) ==
    /\ DOMAIN path = DOMAIN o.template
    /\ \A i \in DOMAIN path :
        IF o.template[i] \in Params
        THEN /\ path[i] # Empty
             /\ \A e \in Held(read, Operations) :
                    i \in DOMAIN e.entry.template /\ e.entry.template[i] = path[i] => path[i] \in Params
        ELSE path[i] = o.template[i]

\* Where templates are regular, none that matches such a path is preferred to the
\* operation's own.
LEMMA OwnPrecedes ==
    ASSUME RegistryInv, Regular, NEW o, NEW path, LeadsTo(o, path), NEW d \in Own(o),
           NEW e \in Declared(o.method, path), e.entry.template # o.template
    PROVE  Precedes(o.template, e.entry.template) /\ ~Precedes(e.entry.template, o.template)
<1>. DEFINE s == e.entry.template
            t == o.template
<1>1. d \in Held(read, Operations) /\ d.entry.template = t /\ e \in Held(read, Operations)
  BY EntriesHeld DEF Own, Declared, Operations
<1>2. s \in Seq(Int) /\ t \in Seq(Int) /\ DOMAIN s = DOMAIN t
  <2>1. s \in Seq(Int) /\ t \in Seq(Int)
    BY <1>1, OperationFacts DEF RegistryInv
  <2>. QED BY <2>1 DEF Declared, Matches, LeadsTo
<1>3. PICK i \in DOMAIN s : s[i] # t[i] /\ \A j \in 1..i - 1 : s[j] = t[j]
  BY <1>2, FirstDifference
<1>4. ~(s[i] \in Params /\ t[i] \in Params)
  <2>1. {s[i], t[i]} \subseteq Params => s[i] = t[i]
    <3>1. {d, e} \subseteq Entries({"endpoints", "master_accounts"})
      BY <1>1, EntriesHeld DEF Operations
    <3>2. Overlap(s, t)
      BY <1>2 DEF Declared, Matches, LeadsTo, Overlap
    <3>3. d.entry.method = e.entry.method
      BY DEF Own, Declared
    <3>4. PartAtLiteral(s, t)
      BY <1>1, <3>1, <3>2, <3>3 DEF Regular
    <3>. QED BY <1>2, <1>3, <3>4 DEF PartAtLiteral
  <2>. QED BY <1>3, <2>1
<1>5. s[i] \in Params \/ path[i] = s[i]
  BY <1>3 DEF Declared, Matches
<1>6. t[i] \notin Params
  BY <1>1, <1>2, <1>3, <1>4, <1>5 DEF LeadsTo
<1>7. s[i] \in Params
  BY <1>2, <1>3, <1>5, <1>6 DEF LeadsTo
<1>8. t[i] < s[i]
  BY <1>1, <1>2, <1>3, <1>6, <1>7, OperationFacts DEF RegistryInv
<1>9. Precedes(t, s)
  <2>1. \A j \in 1..i - 1 : t[j] = s[j]
    BY <1>3
  <2>. QED BY <1>2, <1>3, <1>8, <2>1, PrecedesSameLength
<1>10. ~Precedes(s, t)
  <2>1. SUFFICES ASSUME NEW k \in DOMAIN s, s[k] < t[k], \A j \in 1..k - 1 : s[j] = t[j] PROVE FALSE
    BY <1>2, PrecedesSameLength
  <2>2. DOMAIN s = 1..Len(s) /\ Len(s) \in Nat
    BY <1>2, LenProperties
  <2>3. s[i] \in Int /\ t[i] \in Int /\ s[k] \in Int /\ t[k] \in Int
    BY <1>2, <1>3, <2>1, <2>2, LenProperties, ElementOfSeq
  <2>4. i < k \/ i = k \/ k < i
    BY <1>3, <2>1, <2>2
  <2>5. CASE i < k
    <3>1. i \in 1..k - 1
      BY <1>3, <2>2, <2>5
    <3>. QED BY <1>3, <2>1, <3>1
  <2>6. CASE k < i
    <3>1. k \in 1..i - 1
      BY <2>2, <2>6
    <3>. QED BY <1>3, <2>1, <2>3, <3>1
  <2>7. CASE i = k
    BY <1>8, <2>1, <2>3, <2>7
  <2>. QED BY <2>4, <2>5, <2>6, <2>7
<1>. QED BY <1>9, <1>10

\* A lookup of such a path finds the operation's own schema, that of the first file.
LEMMA OwnFound ==
    ASSUME RegistryInv, Regular, NEW o, NEW path, LeadsTo(o, path),
           NEW d \in Own(o), \A e \in Own(o) : d.file <= e.file
    PROVE  Candidates(o.method, path) # {} /\ Found(o.method, path) = d.entry
<1>. DEFINE D == Declared(o.method, path)
            found == registry[FindOperation(o.method, path)]
<1>1. d \in Held(read, Operations) /\ d.entry.template = o.template /\ d.entry.method = o.method
  BY EntriesHeld DEF Own, Declared, Operations
<1>2. Matches(o.template, path)
  BY DEF LeadsTo, Matches
<1>3. d \in D
  BY <1>1, <1>2, EntriesHeld DEF Declared, Operations
<1>4. /\ Candidates(o.method, path) # {}
      /\ found \in D
      /\ d # found => Preferable(found, d)
  BY <1>3, LookupAny
<1>5. found.entry.template = o.template
  <2>1. SUFFICES ASSUME found.entry.template # o.template PROVE FALSE
    OBVIOUS
  <2>2. Preferable(found, d)
    BY <1>1, <1>4, <2>1
  <2>3. Precedes(found.entry.template, o.template)
    BY <1>1, <2>1, <2>2 DEF Preferable
  <2>. QED BY <1>4, <2>1, <2>3, OwnPrecedes
<1>6. found \in Own(o)
  <2>1. Matches(o.template, o.template)
    BY DEF Own, Declared
  <2>. QED BY <1>4, <1>5, <2>1 DEF Own, Declared
<1>7. found = d
  <2>1. SUFFICES ASSUME found # d PROVE FALSE
    OBVIOUS
  <2>2. Precedes(o.template, o.template) \/ found.file < d.file
    BY <1>1, <1>4, <1>5, <2>1 DEF Preferable
  <2>3. ~Precedes(o.template, o.template)
    <3>1. o.template \in Seq(Int)
      BY <1>1, OperationFacts DEF RegistryInv
    <3>2. \A i \in DOMAIN o.template : o.template[i] \in Int
      BY <3>1, LenProperties, ElementOfSeq
    <3>. QED BY <3>1, <3>2, PrecedesSameLength
  <2>4. found.file \in Nat /\ d.file \in Nat /\ d.file <= found.file
    BY <1>1, <1>4, <1>6, EntriesHeld, OperationFacts DEF Declared, Operations, RegistryInv
  <2>. QED BY <2>2, <2>3, <2>4
<1>. QED BY <1>4, <1>7 DEF Found

\* Of the operation's own schemas one is in a file that comes first.
LEMMA FirstOwn ==
    ASSUME RegistryInv, NEW o, Own(o) # {}
    PROVE  \E d \in Own(o) : \A e \in Own(o) : d.file <= e.file
<1>. DEFINE F == {d.file : d \in Own(o)}
<1>1. F \in SUBSET Nat /\ F # {}
  BY EntriesHeld, OperationFacts DEF Own, Declared, Operations, RegistryInv
<1>2. PICK n \in F : \A m \in F : n <= m
  <2>. HIDE DEF F
  <2>. QED BY <1>1, LeastNumber
<1>. QED BY <1>2

\* An operation is described by its own schema.
LEMMA OwnDescription ==
    ASSUME IInv
    PROVE  OwnDescribed
<1>1. SUFFICES ASSUME phase \in {"ready", "sent"}, Regular, NEW o \in Inventory,
                      NEW d \in Own(o), \A e \in Own(o) : d.file <= e.file
               PROVE  sdk[o].spec = {d.entry}
  BY DEF OwnDescribed
<1>2. LeadsTo(o, o.template)
  <2>1. \A i \in DOMAIN o.template : o.template[i] \in Params => o.template[i] # Empty
    BY RegistryAssumption DEF RegistryAssumption
  <2>. QED BY <2>1 DEF LeadsTo
<1>3. Candidates(o.method, o.template) # {} /\ Found(o.method, o.template) = d.entry
  BY <1>1, <1>2, OwnFound DEF IInv
<1>. QED BY <1>1, <1>3 DEF IInv, Described, Specs

\* The SDK knows every operation by its own schema.
THEOREM OwnCorrect == Spec => []OwnDescribed
<1>1. IInv => OwnDescribed
  BY OwnDescription
<1>. QED BY <1>1, Invariance, PTL

\* What was sent, with plain arguments, leads to the operation that was called, and its
\* description is what the lookup of the path finds.
LEMMA SentFound ==
    ASSUME IInv, Sent, Regular, Plain, Own(call.op) # {}
    PROVE  /\ Candidates(call.op.method, request.path) # {}
           /\ sdk[call.op].spec = {Found(call.op.method, request.path)}
           /\ sdk[call.op].body \in BodySchemas(call.op)
           /\ Specs(call.op) = {Found(call.op.method, request.path)}
<1>1. call.op \in Inventory /\ request.path = Rendered(call) /\ phase \in {"ready", "sent"}
  BY SurfaceAssumption DEF SurfaceAssumption, IInv, Called
<1>2. PICK d \in Own(call.op) : \A e \in Own(call.op) : d.file <= e.file
  BY FirstOwn DEF IInv
<1>3. LeadsTo(call.op, request.path)
  <2>1. DOMAIN request.path = DOMAIN call.op.template
    BY <1>1 DEF Rendered
  <2>2. \A i \in DOMAIN request.path : call.op.template[i] \notin Params => request.path[i] = call.op.template[i]
    BY <1>1 DEF Rendered
  <2>3. ASSUME NEW i \in DOMAIN request.path, call.op.template[i] \in Params,
               NEW e \in Held(read, Operations), i \in DOMAIN e.entry.template
        PROVE  e.entry.template[i] # request.path[i]
    <3>1. PICK j \in DOMAIN registry : registry[j] = e
      BY <2>3 DEF IInv, RegistryInv, InOrder
    <3>. QED BY <2>3, <3>1 DEF Plain
  <2>. QED BY <2>1, <2>2, <2>3 DEF LeadsTo, Plain
<1>4. Candidates(call.op.method, request.path) # {} /\ Found(call.op.method, request.path) = d.entry
  BY <1>2, <1>3, OwnFound DEF IInv
<1>5. sdk[call.op].spec = {d.entry}
  <2>1. OwnDescribed
    BY OwnDescription
  <2>. QED BY <1>1, <1>2, <2>1 DEF OwnDescribed
<1>6. sdk[call.op].spec = Specs(call.op) /\ sdk[call.op].body \in BodySchemas(call.op)
  BY <1>1 DEF IInv, Described
<1>. QED BY <1>4, <1>5, <1>6

\* An answer is judged by the schema that described the operation before the call.
THEOREM JudgedCorrect == Spec => []JudgedAsDescribed
<1>1. ASSUME IInv PROVE JudgedAsDescribed
  <2>1. SUFFICES ASSUME answer # None, Regular, Plain, Own(call.op) # {}, NEW spec \in sdk[call.op].spec
                 PROVE  LET documented == Documented(spec, answer.status)
                            schemas == ResponseSchemas(spec, answer.status)
                        IN /\ verdict = "accepted" => documented /\ (schemas = {} \/ answer.payload \in schemas)
                           /\ documented /\ schemas \subseteq {answer.payload} => verdict = "accepted"
    BY DEF JudgedAsDescribed
  <2>2. Sent /\ verdict \in Judgements(call.op.method, request.path, answer.status, answer.payload)
    BY <1>1, <2>1 DEF IInv, Answered
  <2>3. Candidates(call.op.method, request.path) # {} /\ Found(call.op.method, request.path) = spec
    BY <1>1, <2>1, <2>2, SentFound
  <2>. QED BY <2>2, <2>3 DEF Judgements
<1>. QED BY <1>1, Invariance, PTL

\* No body is sent that the operation the path leads to does not ask for.
THEOREM BodyCorrect == Spec => []BodyFits
<1>1. ASSUME IInv PROVE BodyFits
  <2>1. SUFFICES ASSUME Sent, call.body # "none", Regular, Plain, Own(call.op) # {}
                 PROVE  LET asked == PickJSONMedia(Found(call.op.method, request.path).request)
                        IN asked = {} \/ call.body \in asked
    BY DEF BodyFits
  <2>. DEFINE found == Found(call.op.method, request.path)
              asked == PickJSONMedia(found.request)
  <2>2. Candidates(call.op.method, request.path) # {} /\ Specs(call.op) = {found}
        /\ sdk[call.op].body \in BodySchemas(call.op)
    BY <1>1, <2>1, SentFound
  <2>3. sdk[call.op].body \in {"none", call.body}
    BY <1>1, <2>1 DEF IInv, Called, BodyRefused
  <2>4. BodySchemas(call.op) = IF asked = {} THEN {"none"} ELSE asked
    BY <2>2 DEF BodySchemas
  <2>5. "none" \notin asked
    <3>1. FindOperation(call.op.method, request.path) \in DOMAIN registry
      BY <1>1, <2>2, FirstCandidate DEF IInv, Candidates
    <3>2. registry[FindOperation(call.op.method, request.path)] \in Held(read, Operations)
      BY <1>1, <3>1, RegistryFacts DEF IInv
    <3>3. \A m \in DOMAIN found.request : found.request[m] # "none"
      BY <1>1, <3>2, OperationFacts, SurfaceAssumption DEF SurfaceAssumption, Found, IInv, RegistryInv, WalkOK
    <3>. QED BY <3>3 DEF PickJSONMedia
  <2>. QED BY <2>2, <2>3, <2>4, <2>5
<1>. QED BY <1>1, Invariance, PTL

\* Settings that differ from the default decide where a call goes, and otherwise the
\* operation's own schema.
THEOREM BaseURLCorrect == Spec => []BaseURLHonored
<1>1. ASSUME IInv PROVE BaseURLHonored
  <2>1. SUFFICES ASSUME Sent PROVE BaseURLHonored
    BY DEF BaseURLHonored
  <2>. DEFINE url == settings.baseURL
              found == Found(call.op.method, request.path)
  <2>2. request.server = Server(call.op.method, request.path) /\ phase \in {"ready", "sent"}
    BY <1>1, <2>1 DEF IInv, Called
  <2>3. CASE url.host # DefaultURL.host
    <3>1. url # DefaultURL
      BY <2>3
    <3>. QED BY <2>2, <2>3, <3>1 DEF BaseURLHonored, Server
  <2>4. CASE url.host = DefaultURL.host
    <3>1. IsURL(url) /\ url.valid /\ ~url.slash
      BY <1>1, <2>2 DEF IInv, TypeOK, Configured, IsSettings
    <3>2. url = DefaultURL
      <4>1. IsURL(DefaultURL) /\ DefaultURL.valid /\ ~DefaultURL.slash
        BY SurfaceAssumption DEF SurfaceAssumption
      <4>2. url.valid = DefaultURL.valid /\ url.slash = DefaultURL.slash
        BY <3>1, <4>1 DEF IsURL
      <4>. QED BY <2>4, <3>1, <4>1, <4>2, Zenon DEF IsURL
    <3>3. ASSUME Regular, Plain, Own(call.op) # {}, NEW spec \in sdk[call.op].spec
          PROVE  request.server = IF spec.server = "" THEN DefaultURL.host ELSE spec.server
      <4>1. Candidates(call.op.method, request.path) # {} /\ found = spec
        BY <1>1, <2>1, <3>3, SentFound
      <4>. QED BY <2>2, <3>2, <4>1 DEF Server
    <3>. QED BY <2>4, <3>3 DEF BaseURLHonored
  <2>. QED BY <2>3, <2>4
<1>. QED BY <1>1, Invariance, PTL
================================================================================
