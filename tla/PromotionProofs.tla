---------------------------- MODULE PromotionProofs ----------------------------
(***************************************************************************)
(* What TLAPS proves of Promotion, for any number of works and pushes and   *)
(* any labels: however jobs overlap, main loses no work and no version is   *)
(* used twice; on calm days the labels and the versions are the right ones. *)
(***************************************************************************)
EXTENDS Promotion, FiniteSetTheorems, SequenceTheorems, WellFoundedInduction, TLAPS

\* A head holds the main it was made from, and work that this main does not have.
Ahead(h) == h.base <= Len(main) /\ h.work > Merged(h.base)

\* So do the heads that are about to be pushed; none that is reported on is gone.
HeadsAdvance ==
    /\ NoHead \notin passed
    /\ head # NoHead => Ahead(head)
    /\ \A w \in Work : job[w].pc = "fetched" => Ahead([work |-> w, base |-> job[w].base])
    /\ \A w \in Work : job[w].pc = "reporting" => job[w].head # NoHead

\* There is one open pull request at most, and those merged are not open.
PullRequests ==
    /\ \A p, q \in OpenPRs : p = q
    /\ \A m \in Promotions : main[m].pr \notin OpenPRs

\* A release job has a commit of main, a promotion, and its tag is the last thing it makes.
Releasing ==
    \A m \in 1..MaxMain :
        /\ m \notin DOMAIN main => rel[m].pc = "none"
        /\ m \in RelsRun => main[m].pr # 0 /\ main[m].tag = NoVersion

\* Calm days: one job at a time, and releases only of the tip of main.
OneAtATime ==
    calm =>
        /\ \A v, w \in JobsRun : v = w
        /\ RelsRun \subseteq {Len(main)}
        /\ JobsRun = {} \/ RelsRun = {}

\* The works a head brings, and the label that has the highest impact among theirs.
WorksOf(h) == {w \in Work : Merged(h.base) < w /\ w <= h.work}

Fits(l, h) ==
    /\ l \in Parts
    /\ \E w \in WorksOf(h) : Impact(l) = Impact(LabelOf(w))
    /\ \A w \in WorksOf(h) : Impact(LabelOf(w)) <= Impact(l)

\* The heads that have been pushed are those of jobs that have come so far, so that the
\* head a job is about to push has not been checked before.
Made == passed \union {head} \union {job[w].head : w \in Work}

Pushed ==
    /\ \A h \in Made : h.work \in Work => job[h.work].pc \notin {"none", "queued", "fetched"}
    /\ \A w \in Work : w > staging => job[w].pc = "none"

\* A job between the push of its head and the last edit of a pull request.
Labelling(w) == job[w].pc \in {"pushed", "editing", "creating"}

\* Such a job has the right label for its head, which is not green yet, and knows the pull
\* request.  One that reports does so about the head there is.
JobFits(w) ==
    /\ job[w].pc = "fetched" => Fits(job[w].label, [work |-> w, base |-> job[w].base])
    /\ Labelling(w) => head # NoHead /\ head \notin passed /\ Fits(job[w].label, head)
    /\ job[w].pc = "editing" => job[w].pr \in OpenPRs
    /\ job[w].pc = "creating" => OpenPRs = {}
    /\ job[w].pc = "reporting" => job[w].head = head /\ job[w].pr \in OpenPRs

\* When it is done, the pull request has this label, perhaps among others.
Labelled ==
    head # NoHead /\ (\A w \in Work : ~Labelling(w)) =>
        \A p \in OpenPRs : \E l \in prs[p].labels : Fits(l, head)

\* Once the head is green, it has no other.
Settled ==
    head \in passed /\ (\A w \in Work : ~Labelling(w)) =>
        \A p \in OpenPRs : \E l \in Parts : prs[p].labels = {l}

LabelsFit == calm => Labelled /\ Settled /\ \A w \in Work : JobFits(w)

\* Calm days: a release starts from a version that no earlier one exceeds, and exceeds it.
VersionsAhead ==
    calm =>
        \A m \in DOMAIN main : \A n \in 1..m - 1 : main[n].tag # NoVersion =>
            /\ rel[m].pc = "read" => main[n].tag = rel[m].seen \/ Precedes(main[n].tag, rel[m].seen)
            /\ rel[m].pc \in {"resolved", "building"} => Precedes(main[n].tag, rel[m].version)

IInv ==
    /\ TypeOK
    /\ HeadsAdvance
    /\ PullRequests
    /\ Releasing
    /\ OneAtATime
    /\ Pushed
    /\ LabelsFit
    /\ VersionsAhead
    /\ PromotionsAdvance
    /\ VersionsUnique
    /\ HighestImpact
    /\ VersionsRise

--------------------------------------------------------------------------------

\* Works are numbers.
LEMMA WorkFacts == Work \subseteq Nat /\ \A w \in Work : w \in 0..MaxWork
BY PromotionAssumption DEF PromotionAssumption, Work

\* The places of a promotion job and of a release job.
JobPlaces == {"none", "queued", "fetched", "pushed", "editing", "creating", "checking", "reporting",
              "ended"}
RelPlaces == {"none", "queued", "read", "resolved", "building", "ignored", "skipped", "failed",
              "published"}

Jobs(n) == [pc: JobPlaces, base: 0..MaxMain, label: Parts, rest: SUBSET Parts, pr: 0..n,
            head: Heads]
Rels == [pc: RelPlaces, seen: Versions, version: Versions]
Commits(n) == [work: 0..MaxWork, pr: 0..n, tag: Versions]

\* TypeOK, with names for the records in it.
LEMMA Types ==
    TypeOK <=>
        /\ source \in Labellings
        /\ calm \in BOOLEAN
        /\ staging \in 0..MaxWork
        /\ head \in Heads
        /\ prs \in Seq([open: BOOLEAN, labels: SUBSET Parts])
        /\ passed \subseteq Heads
        /\ main \in Seq(Commits(Len(prs)))
        /\ Len(main) <= MaxMain
        /\ job \in [Work -> Jobs(Len(prs))]
        /\ rel \in [1..MaxMain -> Rels]
BY DEF TypeOK, Jobs, Rels, Commits, JobPlaces, RelPlaces

\* A work has a label, and several have one of the highest impact.
LEMMA LabelType ==
    ASSUME TypeOK, NEW w \in Work
    PROVE  LabelOf(w) \in Parts
<1>1. source[w] \in SUBSET Parts
  BY PromotionAssumption DEF TypeOK, PromotionAssumption
<1>. QED BY <1>1 DEF LabelOf, Parts

\* The highest label has the impact of one of the works, and none of theirs exceeds it.
LEMMA HighestFits ==
    ASSUME TypeOK, NEW works \in SUBSET Work, works # {}
    PROVE  /\ HighestLabel(works) \in Parts
           /\ \E w \in works : Impact(HighestLabel(works)) = Impact(LabelOf(w))
           /\ \A w \in works : Impact(LabelOf(w)) <= Impact(HighestLabel(works))
<1>. DEFINE ls == {LabelOf(w) : w \in works} \union {"patch"}
            Highest(l) == \A w \in works : Impact(LabelOf(w)) <= Impact(l)
<1>1. ls \subseteq Parts
  BY LabelType DEF Parts
<1>2. Impact("patch") = 0 /\ Impact("minor") = 1 /\ Impact("major") = 2
  BY DEF Impact
<1>3. \A w \in works : LabelOf(w) \in ls /\ LabelOf(w) \in Parts
  BY <1>1
<1>4. \E l \in ls : Highest(l)
  <2>1. CASE "major" \in ls
    BY <1>2, <1>3, <2>1 DEF Parts
  <2>2. CASE "major" \notin ls /\ "minor" \in ls
    BY <1>2, <1>3, <2>2 DEF Parts
  <2>3. CASE "major" \notin ls /\ "minor" \notin ls
    BY <1>2, <1>3, <2>3 DEF Parts
  <2>. QED BY <2>1, <2>2, <2>3
<1>5. HighestLabel(works) \in ls /\ Highest(HighestLabel(works))
  <2>1. HighestLabel(works) = CHOOSE l \in ls : Highest(l)
    BY DEF HighestLabel
  <2>. HIDE DEF ls, Highest
  <2>. QED BY <1>4, <2>1
<1>6. \E w \in works : Impact(HighestLabel(works)) = Impact(LabelOf(w))
  <2>1. CASE \E w \in works : HighestLabel(works) = LabelOf(w)
    BY <2>1
  <2>2. CASE HighestLabel(works) = "patch"
    BY <1>2, <1>3, <1>5, <2>2 DEF Parts
  <2>. QED BY <1>5, <2>1, <2>2
<1>. QED BY <1>1, <1>5, <1>6


\* The greatest number of a set that has one.
LEMMA MaxIs ==
    ASSUME NEW S \in SUBSET Int, NEW n \in S, \A m \in S : m <= n
    PROVE  Max(S) = n
<1>1. \E x \in S : \A y \in S : x >= y
  OBVIOUS
<1>2. Max(S) \in S /\ \A y \in S : Max(S) >= y
  BY <1>1 DEF Max
<1>3. Max(S) \in Int /\ n \in Int /\ Max(S) >= n /\ Max(S) <= n
  BY <1>2
<1>. QED BY <1>3

\* A set of numbers up to a limit has a greatest one.
LEMMA MaxUpTo ==
    ASSUME NEW k \in Nat, NEW S \in SUBSET (1..k), S # {}
    PROVE  Max(S) \in S /\ \A m \in S : m <= Max(S)
<1>. DEFINE Bounds == {n \in Nat : \A m \in S : m <= n}
            Less == {ss \in Nat \X Nat : ss[1] < ss[2]}
<1>1. IsWellFoundedOn(Less, Nat)
  BY NatLessThanWellFounded DEF OpToRel, Less
<1>2. Bounds \subseteq Nat /\ k \in Bounds
  OBVIOUS
<1>3. PICK n \in Bounds : \A m \in Bounds : ~(<<m, n>> \in Less)
  <2>. HIDE DEF Less, Bounds
  <2>. QED BY <1>1, <1>2, WFMin
<1>4. n \in S
  <2>. SUFFICES ASSUME n \notin S PROVE FALSE
    OBVIOUS
  <2>1. n - 1 \in Nat /\ \A m \in S : m <= n - 1
    <3>1. n \in Nat /\ \A m \in S : m <= n /\ m # n /\ m \in 1..k
      BY <1>2, <1>3
    <3>2. \E m \in S : m \in 1..k
      BY <3>1
    <3>. QED BY <3>1, <3>2
  <2>2. n - 1 \in Bounds /\ <<n - 1, n>> \in Less
    BY <1>2, <2>1
  <2>. QED BY <1>3, <2>2
<1>. QED BY <1>3, <1>4, MaxIs

\* The nearest tag, if there is one, is that of an earlier commit.
LEMMA PreviousTagOf ==
    ASSUME TypeOK, NEW k \in 0..Len(main)
    PROVE  /\ PreviousTag(k) \in Versions
           /\ \A n \in Tagged(k) : \E m \in Tagged(k) : n <= m /\ PreviousTag(k) = main[m].tag
<1>1. Tagged(k) \subseteq 1..k /\ k \in Nat
  BY DEF Tagged, TypeOK
<1>2. CASE Tagged(k) = {}
  BY <1>2 DEF PreviousTag, NoVersion, Versions
<1>3. CASE Tagged(k) # {}
  <2>1. Max(Tagged(k)) \in Tagged(k) /\ \A n \in Tagged(k) : n <= Max(Tagged(k))
    BY <1>1, <1>3, MaxUpTo
  <2>2. Max(Tagged(k)) \in DOMAIN main /\ PreviousTag(k) = main[Max(Tagged(k))].tag
    BY <1>1, <1>3, <2>1 DEF PreviousTag, TypeOK
  <2>3. main[Max(Tagged(k))] \in Commits(Len(prs))
    BY <2>2, Types
  <2>. QED BY <2>1, <2>2, <2>3 DEF Commits
<1>. QED BY <1>2, <1>3

\* A bump leads to a later version.
LEMMA BumpRises ==
    ASSUME NEW v \in Versions, NEW l \in Parts
    PROVE  Bump(v, l) \in Versions /\ Precedes(v, Bump(v, l))
<1>1. CASE l = "major"
  BY <1>1 DEF Versions, Bump, Precedes
<1>2. CASE l = "minor"
  <2>1. Bump(v, l) = [major |-> v.major, minor |-> v.minor + 1, patch |-> 0]
    BY <1>2 DEF Bump, Versions
  <2>. QED BY <2>1 DEF Versions, Precedes
<1>3. CASE l = "patch"
  BY <1>3 DEF Versions, Bump, Precedes
<1>. QED BY <1>1, <1>2, <1>3 DEF Parts

\* A version that precedes one before another precedes that one.
LEMMA PrecedesTransitive ==
    ASSUME NEW u \in Versions, NEW v \in Versions, NEW w \in Versions,
           Precedes(u, v), Precedes(v, w)
    PROVE  Precedes(u, w)
BY DEF Versions, Precedes

--------------------------------------------------------------------------------

\* What a step of a promotion job leaves alone.
LEMMA PromoteFrame ==
    ASSUME NEW w \in Work, Promote(w)
    PROVE  UNCHANGED <<source, calm, staging, main, rel>>
BY DEF Promote, Fetch, PushHead, FindPR, RemoveLabel, AddLabel, CreatePR, StartChecks, Report

\* What a step of a release job leaves alone.
LEMMA ReleaseFrame ==
    ASSUME NEW m \in DOMAIN main, Release(m)
    PROVE  UNCHANGED <<source, calm, staging, head, prs, passed, job>>
BY DEF Release, CheckOut, Resolve, View, Publish

\* A step changes one release job and the tag of its commit at most.
LEMMA ReleaseStep ==
    ASSUME TypeOK, NEW m \in DOMAIN main, Release(m)
    PROVE  /\ m \in 1..MaxMain /\ m \in RelsRun
           /\ DOMAIN rel' = 1..MaxMain /\ \A n \in (1..MaxMain) \ {m} : rel'[n] = rel[n]
           /\ Len(main') = Len(main) /\ DOMAIN main' = DOMAIN main
           /\ \A n \in DOMAIN main : main'[n].work = main[n].work /\ main'[n].pr = main[n].pr
           /\ \A n \in DOMAIN main \ {m} : main'[n].tag = main[n].tag
           /\ main'[m].tag # main[m].tag =>
                Publish(m) /\ main'[m].tag = rel[m].version /\ ~Released(rel[m].version)
<1>1. m \in 1..MaxMain /\ rel \in [1..MaxMain -> Rels] /\ main \in Seq(Commits(Len(prs)))
  BY PromotionAssumption, Types DEF PromotionAssumption
<1>2. rel[m] \in Rels /\ main[m] \in Commits(Len(prs))
  BY <1>1
<1>3. CASE CheckOut(m)
  BY <1>1, <1>3 DEF CheckOut, RelsRun
<1>4. CASE Resolve(m)
  <2>1. PICK r : rel' = [rel EXCEPT ![m] = r]
    BY <1>4 DEF Resolve
  <2>. QED BY <1>1, <1>4, <2>1 DEF Resolve, RelsRun
<1>5. CASE View(m)
  BY <1>1, <1>5 DEF View, RelsRun
<1>6. CASE Publish(m)
  <2>1. rel[m].pc = "building" /\ UNCHANGED prs
    BY <1>6 DEF Publish
  <2>2. CASE UNCHANGED main
    BY <1>1, <1>6, <2>1, <2>2 DEF Publish, RelsRun
  <2>3. CASE /\ ~Released(rel[m].version)
             /\ main' = [main EXCEPT ![m].tag = rel[m].version]
             /\ rel' = [rel EXCEPT ![m].pc = "published"]
    BY <1>1, <1>2, <1>6, <2>1, <2>3 DEF RelsRun, Commits
  <2>. QED BY <1>6, <2>2, <2>3 DEF Publish
<1>. QED BY <1>3, <1>4, <1>5, <1>6 DEF Release

--------------------------------------------------------------------------------

PRs == [open: BOOLEAN, labels: SUBSET Parts]

\* Changing the pull request p, if there is one.
LEMMA EditPR ==
    ASSUME TypeOK, NEW p, NEW r, prs' = [prs EXCEPT ![p] = r], p \in DOMAIN prs => r \in PRs
    PROVE  /\ prs' \in Seq(PRs) /\ Len(prs') = Len(prs) /\ DOMAIN prs' = DOMAIN prs
           /\ \A q \in DOMAIN prs \ {p} : prs'[q] = prs[q]
           /\ p \in DOMAIN prs => prs'[p] = r
<1>1. prs \in Seq(PRs)
  BY DEF TypeOK, PRs
<1>2. CASE p \in DOMAIN prs
  BY <1>1, <1>2, ExceptSeq
<1>3. CASE p \notin DOMAIN prs
  <2>1. prs' = prs
    BY <1>1, <1>3
  <2>. QED BY <1>1, <1>3, <2>1
<1>. QED BY <1>2, <1>3

\* Opening, closing and labelling pull requests leaves their number, or adds one to it.
LEMMA PRsType ==
    ASSUME TypeOK, [Next]_vars
    PROVE  /\ prs' \in Seq(PRs)
           /\ Len(prs) \in Nat /\ Len(prs') \in Nat /\ Len(prs) <= Len(prs')
<1>1. prs \in Seq(PRs) /\ \A p \in DOMAIN prs : prs[p] \in PRs
  <2>1. prs \in Seq(PRs)
    BY DEF TypeOK, PRs
  <2>. QED BY <2>1
<1>2. \A w \in Work : job[w].label \in Parts
  BY Types DEF Jobs
<1>3. ASSUME NEW w \in Work, RemoveLabel(w) PROVE prs' \in Seq(PRs) /\ Len(prs') = Len(prs)
  <2>1. CASE UNCHANGED prs
    BY <1>1, <2>1
  <2>2. CASE prs' # prs
    <3>. DEFINE p == job[w].pr
                r(l) == [prs[p] EXCEPT !.labels = @ \ {l}]
    <3>1. PICK l : prs' = [prs EXCEPT ![p] = r(l)]
      BY <1>3, <2>2 DEF RemoveLabel
    <3>2. p \in DOMAIN prs => r(l) \in PRs
      BY <1>1 DEF PRs
    <3>. QED BY <3>1, <3>2, EditPR
  <2>. QED BY <2>1, <2>2
<1>4. ASSUME NEW w \in Work, AddLabel(w) PROVE prs' \in Seq(PRs) /\ Len(prs') = Len(prs)
  <2>. DEFINE p == job[w].pr
              r == [prs[p] EXCEPT !.labels = @ \union {job[w].label}]
  <2>1. prs' = [prs EXCEPT ![p] = r]
    BY <1>4 DEF AddLabel
  <2>2. p \in DOMAIN prs => r \in PRs
    BY <1>1, <1>2 DEF PRs
  <2>. QED BY <2>1, <2>2, EditPR
<1>5. ASSUME NEW w \in Work, CreatePR(w), prs' # prs
      PROVE  prs' \in Seq(PRs) /\ Len(prs') = Len(prs) + 1
  <2>1. prs' = Append(prs, [open |-> TRUE, labels |-> {}])
    BY <1>5 DEF CreatePR
  <2>2. [open |-> TRUE, labels |-> {}] \in PRs
    BY DEF PRs
  <2>. QED BY <1>1, <2>1, <2>2
<1>6. CASE Merge
  <2>1. PICK p \in OpenPRs : prs' = [prs EXCEPT ![p] = [prs[p] EXCEPT !.open = FALSE]]
    BY <1>6 DEF Merge
  <2>2. p \in DOMAIN prs => [prs[p] EXCEPT !.open = FALSE] \in PRs
    BY <1>1 DEF PRs
  <2>3. prs' \in Seq(PRs) /\ Len(prs') = Len(prs)
    BY <2>1, <2>2, EditPR
  <2>. QED BY <1>1, <2>3
<1>7. CASE PushStaging \/ Repair \/ (\E m \in DOMAIN main : Release(m)) \/ UNCHANGED vars
  BY <1>1, <1>7, ReleaseFrame DEF PushStaging, Repair, vars
<1>8. ASSUME NEW w \in Work, Fetch(w) \/ PushHead(w) \/ FindPR(w) \/ StartChecks(w) \/ Report(w)
      PROVE  UNCHANGED prs
  BY <1>8 DEF Fetch, PushHead, FindPR, StartChecks, Report
<1>9. CASE UNCHANGED prs
  BY <1>1, <1>9
<1>. QED BY <1>1, <1>3, <1>4, <1>5, <1>6, <1>7, <1>8, <1>9 DEF Next, Promote

\* Heads are made of numbers.
LEMMA HeadsFacts ==
    /\ NoHead \in Heads
    /\ \A h \in Heads : /\ h.work \in 0..MaxWork /\ h.base \in 0..MaxMain
                       /\ h.work \in Nat /\ h.base \in Nat
    /\ \A w \in Work : \A b \in 0..MaxMain : [work |-> w, base |-> b] \in Heads
BY PromotionAssumption, WorkFacts DEF PromotionAssumption, NoHead, Heads

\* main is a sequence of commits no longer than its bound.
LEMMA MainFacts ==
    ASSUME TypeOK
    PROVE  /\ main \in Seq(Commits(Len(prs))) /\ Len(main) \in 0..MaxMain
           /\ Len(main) \in Nat /\ MaxMain \in Nat
           /\ DOMAIN main = 1..Len(main) /\ DOMAIN main \subseteq 1..MaxMain
           /\ \A m \in DOMAIN main : main[m] \in Commits(Len(prs))
           /\ \A n \in 0..Len(main) : Merged(n) \in 0..MaxWork
<1>1. main \in Seq(Commits(Len(prs))) /\ Len(main) <= MaxMain /\ MaxMain \in Nat /\ MaxWork \in Nat
  BY Types, PromotionAssumption DEF PromotionAssumption
<1>2. Len(main) \in Nat /\ DOMAIN main = 1..Len(main)
  BY <1>1
<1>3. \A m \in DOMAIN main : main[m] \in Commits(Len(prs))
  BY <1>1
<1>4. \A n \in 0..Len(main) : Merged(n) \in 0..MaxWork
  <2>1. \A n \in 0..Len(main) : n = 0 \/ n \in DOMAIN main
    BY <1>2
  <2>. QED BY <1>1, <1>3, <2>1 DEF Merged, Commits
<1>. QED BY <1>1, <1>2, <1>3, <1>4

\* A repair adds a commit to main that brings no work.
LEMMA RepairStep ==
    ASSUME TypeOK, Repair
    PROVE  \E c \in Commits(Len(prs)) :
            /\ main' = Append(main, c) /\ Len(main) < MaxMain
            /\ c.tag = NoVersion /\ c.pr = 0 /\ c.work = Merged(Len(main))
<1>1. NoVersion \in Versions /\ Merged(Len(main)) \in 0..MaxWork /\ Len(prs) \in Nat
  BY MainFacts DEF TypeOK, NoVersion, Versions
<1>2. Commit(Merged(Len(main)), 0) \in Commits(Len(prs))
  BY <1>1 DEF Commit, Commits
<1>. QED BY <1>2 DEF Repair, Commit

\* A merge adds one for an open pull request, with the work of main and of the head.
LEMMA MergeStep ==
    ASSUME TypeOK, Merge
    PROVE  \E c \in Commits(Len(prs)) :
            /\ main' = Append(main, c) /\ Len(main) < MaxMain
            /\ c.tag = NoVersion /\ c.pr \in OpenPRs /\ c.pr # 0
            /\ prs' = [prs EXCEPT ![c.pr].open = FALSE]
            /\ c.work \in {head.work, Merged(Len(main))}
            /\ c.work >= head.work /\ c.work >= Merged(Len(main))
<1>1. /\ NoVersion \in Versions /\ Merged(Len(main)) \in 0..MaxWork /\ head.work \in 0..MaxWork
      /\ Merged(Len(main)) \in Int /\ head.work \in Int
  BY MainFacts, HeadsFacts DEF TypeOK, NoVersion, Versions
<1>. DEFINE ws == {head.work, Merged(Len(main))}
<1>2. Max(ws) \in ws /\ \A w \in ws : w <= Max(ws)
  <2>. ws \in SUBSET Int
    BY <1>1
  <2>1. CASE head.work <= Merged(Len(main))
    <3>1. Merged(Len(main)) \in ws /\ \A w \in ws : w <= Merged(Len(main))
      BY <1>1, <2>1
    <3>. HIDE DEF ws
    <3>. QED BY <3>1, MaxIs
  <2>2. CASE Merged(Len(main)) <= head.work
    <3>1. head.work \in ws /\ \A w \in ws : w <= head.work
      BY <1>1, <2>2
    <3>. HIDE DEF ws
    <3>. QED BY <3>1, MaxIs
  <2>. QED BY <1>1, <2>1, <2>2
<1>3. PICK p \in OpenPRs : /\ prs' = [prs EXCEPT ![p].open = FALSE]
                           /\ main' = Append(main, Commit(Max(ws), p))
  BY DEF Merge
<1>4. p \in 1..Len(prs) /\ p # 0
  BY <1>3 DEF OpenPRs, TypeOK
<1>5. Max(ws) \in 0..MaxWork /\ Max(ws) >= head.work /\ Max(ws) >= Merged(Len(main))
  BY <1>1, <1>2
<1>6. Commit(Max(ws), p) \in Commits(Len(prs))
  BY <1>1, <1>4, <1>5 DEF Commit, Commits
<1>7. /\ Commit(Max(ws), p).work = Max(ws) /\ Commit(Max(ws), p).pr = p
      /\ Commit(Max(ws), p).tag = NoVersion
  BY DEF Commit
<1>8. Len(main) < MaxMain
  BY DEF Merge
<1>. QED BY <1>2, <1>3, <1>4, <1>5, <1>6, <1>7, <1>8

\* Whatever happens, main keeps its commits, but for the tag that one of them gets.
LEMMA MainStep ==
    ASSUME TypeOK, [Next]_vars
    PROVE  /\ main' \in Seq(Commits(Len(prs')))
           /\ Len(main') <= MaxMain /\ Len(main) <= Len(main')
           /\ \A m \in DOMAIN main :
                m \in DOMAIN main' /\ main'[m].work = main[m].work /\ main'[m].pr = main[m].pr
           /\ \A n \in 0..Len(main) : Merged(n)' = Merged(n)
<1>0. /\ Len(prs) \in Nat /\ Len(prs') \in Nat /\ Len(prs) <= Len(prs')
      /\ Len(main) \in Nat /\ MaxMain \in Nat /\ Len(main) <= MaxMain
  BY PRsType, MainFacts
<1>1. Commits(Len(prs)) \subseteq Commits(Len(prs'))
  BY <1>0 DEF Commits
<1>2. /\ main \in Seq(Commits(Len(prs'))) /\ DOMAIN main = 1..Len(main)
      /\ \A m \in DOMAIN main : main[m] \in Commits(Len(prs'))
  BY <1>1, MainFacts, SeqMonotonic
<1>3. SUFFICES /\ main' \in Seq(Commits(Len(prs'))) /\ Len(main') <= MaxMain
               /\ Len(main) <= Len(main')
               /\ \A m \in DOMAIN main :
                    m \in DOMAIN main' /\ main'[m].work = main[m].work /\ main'[m].pr = main[m].pr
  <2>1. ASSUME NEW n \in 0..Len(main) PROVE n = 0 \/ n \in DOMAIN main
    BY <1>0, <1>2
  <2>. QED BY <2>1 DEF Merged
<1>4. CASE Merge \/ Repair
  <2>1. PICK c \in Commits(Len(prs)) : main' = Append(main, c) /\ Len(main) < MaxMain
    BY <1>4, RepairStep, MergeStep
  <2>2. c \in Commits(Len(prs'))
    BY <1>1
  <2>. QED BY <1>0, <1>2, <2>1, <2>2
<1>5. ASSUME NEW m \in DOMAIN main, Release(m), main' # main
      PROVE  /\ main' \in Seq(Commits(Len(prs'))) /\ Len(main') = Len(main)
             /\ \A n \in DOMAIN main :
                    n \in DOMAIN main' /\ main'[n].work = main[n].work /\ main'[n].pr = main[n].pr
  <2>1. Publish(m) /\ main' = [main EXCEPT ![m].tag = rel[m].version]
    BY <1>5 DEF Release, CheckOut, Resolve, View, Publish
  <2>2. rel[m].version \in Versions
    BY MainFacts, Types DEF Rels
  <2>3. [main[m] EXCEPT !.tag = rel[m].version] \in Commits(Len(prs'))
    BY <1>2, <2>2 DEF Commits
  <2>4. main' = [main EXCEPT ![m] = [main[m] EXCEPT !.tag = rel[m].version]]
    BY <2>1
  <2>5. main' \in Seq(Commits(Len(prs'))) /\ Len(main') = Len(main)
    BY <1>2, <2>3, <2>4, ExceptSeq
  <2>. QED BY <1>5, <2>5, ReleaseStep
<1>6. CASE UNCHANGED main
  BY <1>0, <1>2, <1>6
<1>7. PushStaging \/ UNCHANGED vars => UNCHANGED main
  BY DEF PushStaging, vars
<1>. QED BY <1>0, <1>4, <1>5, <1>6, <1>7, PromoteFrame DEF Next

\* A step of a promotion job changes that job.
LEMMA PromoteStep ==
    ASSUME TypeOK, NEW w \in Work, Promote(w)
    PROVE  /\ job' \in [Work -> Jobs(Len(prs'))]
           /\ \A v \in Work \ {w} : job'[v] = job[v]
<1>1. Len(prs) \in Nat /\ Len(prs') \in Nat /\ Len(prs) <= Len(prs')
  BY PRsType DEF Next
<1>2. Jobs(Len(prs)) \subseteq Jobs(Len(prs'))
  BY <1>1 DEF Jobs
<1>3. job \in [Work -> Jobs(Len(prs'))] /\ job[w] \in Jobs(Len(prs))
  BY <1>2, Types
<1>4. SUFFICES \E r \in Jobs(Len(prs')) : job' = [job EXCEPT ![w] = r]
  BY <1>3
<1>5. ASSUME NEW place \in JobPlaces, job' = [job EXCEPT ![w].pc = place]
      PROVE  [job[w] EXCEPT !.pc = place] \in Jobs(Len(prs'))
             /\ job' = [job EXCEPT ![w] = [job[w] EXCEPT !.pc = place]]
  BY <1>2, <1>3, <1>5 DEF Jobs
<1>6. ASSUME NEW place \in JobPlaces, job' = [job EXCEPT ![w].pc = place]
      PROVE  \E r \in Jobs(Len(prs')) : job' = [job EXCEPT ![w] = r]
  BY <1>5, <1>6
<1>7. CASE \E place \in JobPlaces : job' = [job EXCEPT ![w].pc = place]
  BY <1>6, <1>7
<1>8. CASE Fetch(w)
  <2>. DEFINE works == {v \in Work : Merged(Len(main)) < v /\ v <= w}
              l == HighestLabel(works)
              r == [job[w] EXCEPT !.pc = "fetched", !.base = Len(main), !.label = l]
  <2>1. CASE \E place \in JobPlaces : job' = [job EXCEPT ![w].pc = place]
    BY <1>7, <2>1
  <2>2. CASE works # {} /\ (\A v \in works : ~Ambiguous(v))
             /\ job' = [job EXCEPT ![w].pc = "fetched", ![w].base = Len(main), ![w].label = l]
    <3>1. l \in Parts
      <4>. works \in SUBSET Work
        OBVIOUS
      <4>. HIDE DEF works
      <4>. QED BY <2>2, HighestFits
    <3>2. r \in Jobs(Len(prs'))
      <4>1. Len(main) \in 0..MaxMain
        BY MainFacts
      <4>. HIDE DEF works, l
      <4>. QED BY <1>2, <1>3, <3>1, <4>1 DEF Jobs, JobPlaces
    <3>3. job' = [job EXCEPT ![w] = r]
      <4>. HIDE DEF works, l
      <4>. QED BY <1>3, <2>2
    <3>. QED BY <3>2, <3>3
  <2>. QED BY <1>8, <2>1, <2>2 DEF Fetch, JobPlaces
<1>9. CASE PushHead(w) \/ AddLabel(w) \/ Report(w)
  BY <1>7, <1>9 DEF PushHead, AddLabel, Report, JobPlaces
<1>10. ASSUME NEW p \in 0..Len(prs'), NEW rest \in SUBSET Parts,
              job' = [job EXCEPT ![w].pc = "editing", ![w].pr = p, ![w].rest = rest]
       PROVE  \E r \in Jobs(Len(prs')) : job' = [job EXCEPT ![w] = r]
  <2>1. [job[w] EXCEPT !.pc = "editing", !.pr = p, !.rest = rest] \in Jobs(Len(prs'))
    BY <1>2, <1>3 DEF Jobs, JobPlaces
  <2>2. job' = [job EXCEPT ![w] = [job[w] EXCEPT !.pc = "editing", !.pr = p, !.rest = rest]]
    BY <1>3, <1>10
  <2>. QED BY <2>1, <2>2
<1>12. CASE FindPR(w)
  <2>1. \A p \in OpenPRs : p \in 0..Len(prs')
    BY <1>1 DEF OpenPRs, TypeOK
  <2>2. Parts \ {job[w].label} \in SUBSET Parts
    OBVIOUS
  <2>. QED BY <1>7, <1>10, <1>12, <2>1, <2>2 DEF FindPR, JobPlaces
<1>13. CASE CreatePR(w)
  <2>1. Len(prs') \in 0..Len(prs') /\ {} \in SUBSET Parts
    BY <1>1
  <2>. QED BY <1>7, <1>10, <1>13, <2>1 DEF CreatePR, JobPlaces
<1>14. CASE RemoveLabel(w)
  <2>1. PICK l \in job[w].rest : job' = [job EXCEPT ![w].rest = @ \ {l}]
    BY <1>14 DEF RemoveLabel
  <2>2. [job[w] EXCEPT !.rest = @ \ {l}] \in Jobs(Len(prs'))
    BY <1>2, <1>3 DEF Jobs
  <2>3. job' = [job EXCEPT ![w] = [job[w] EXCEPT !.rest = @ \ {l}]]
    BY <1>3, <2>1
  <2>. QED BY <2>2, <2>3
<1>11. CASE StartChecks(w)
  <2>1. ASSUME NEW p \in OpenPRs,
               job' = [job EXCEPT ![w].pc = "reporting", ![w].pr = p, ![w].head = head]
        PROVE  \E r \in Jobs(Len(prs')) : job' = [job EXCEPT ![w] = r]
    <3>1. p \in 0..Len(prs') /\ head \in Heads
      BY <1>1 DEF OpenPRs, TypeOK
    <3>2. [job[w] EXCEPT !.pc = "reporting", !.pr = p, !.head = head] \in Jobs(Len(prs'))
      BY <1>2, <1>3, <3>1 DEF Jobs, JobPlaces
    <3>3. job' = [job EXCEPT ![w] = [job[w] EXCEPT !.pc = "reporting", !.pr = p, !.head = head]]
      BY <1>3, <2>1
    <3>. QED BY <3>2, <3>3
  <2>. QED BY <1>7, <1>11, <2>1 DEF StartChecks, JobPlaces
<1>. QED BY <1>8, <1>9, <1>11, <1>12, <1>13, <1>14 DEF Promote

\* What the work on the pull request makes of the job.
LEMMA LabellingStep ==
    ASSUME TypeOK, NEW w \in Work
    PROVE  /\ \A p, rest : job' = [job EXCEPT ![w].pc = "editing", ![w].pr = p, ![w].rest = rest] =>
                /\ job'[w].pc = "editing" /\ job'[w].pr = p
                /\ job'[w].label = job[w].label /\ job'[w].head = job[w].head
           /\ RemoveLabel(w) =>
                /\ job'[w].pc = "editing" /\ job'[w].pr = job[w].pr
                /\ job'[w].label = job[w].label /\ job'[w].head = job[w].head
           /\ FindPR(w) \/ CreatePR(w) =>
                /\ job'[w].pc \in {"creating", "editing", "ended"}
                /\ job'[w].label = job[w].label /\ job'[w].head = job[w].head
<1>1. job \in [Work -> Jobs(Len(prs))] /\ job[w] \in Jobs(Len(prs))
  BY Types
<1>2. ASSUME NEW p, NEW rest,
             job' = [job EXCEPT ![w].pc = "editing", ![w].pr = p, ![w].rest = rest]
      PROVE  /\ job'[w].pc = "editing" /\ job'[w].pr = p
             /\ job'[w].label = job[w].label /\ job'[w].head = job[w].head
  BY <1>1, <1>2 DEF Jobs
<1>3. ASSUME RemoveLabel(w)
      PROVE  /\ job'[w].pc = "editing" /\ job'[w].pr = job[w].pr
             /\ job'[w].label = job[w].label /\ job'[w].head = job[w].head
  <2>1. job[w].pc = "editing" /\ \E l : job' = [job EXCEPT ![w].rest = @ \ {l}]
    BY <1>3 DEF RemoveLabel
  <2>. QED BY <1>1, <2>1 DEF Jobs
<1>4. ASSUME FindPR(w) \/ CreatePR(w)
      PROVE  /\ job'[w].pc \in {"creating", "editing", "ended"}
             /\ job'[w].label = job[w].label /\ job'[w].head = job[w].head
  <2>1. \/ \E place \in {"creating", "ended"} : job' = [job EXCEPT ![w].pc = place]
        \/ \E q, rest : job' = [job EXCEPT ![w].pc = "editing", ![w].pr = q, ![w].rest = rest]
    BY <1>4 DEF FindPR, CreatePR
  <2>2. ASSUME NEW place, job' = [job EXCEPT ![w].pc = place]
        PROVE  job'[w].pc = place /\ job'[w].label = job[w].label /\ job'[w].head = job[w].head
    BY <1>1, <2>2 DEF Jobs
  <2>. QED BY <1>2, <2>1, <2>2
<1>. QED BY <1>2, <1>3, <1>4

\* A release job keeps its type, if it belongs to a promotion.
LEMMA RelType ==
    ASSUME TypeOK, Releasing, NEW m \in DOMAIN main, Release(m)
    PROVE  rel' \in [1..MaxMain -> Rels]
<1>1. m \in 1..MaxMain /\ rel \in [1..MaxMain -> Rels] /\ rel[m] \in Rels
  BY MainFacts, Types
<1>2. SUFFICES \E r \in Rels : rel' = [rel EXCEPT ![m] = r]
  BY <1>1
<1>3. ASSUME NEW place \in RelPlaces, rel' = [rel EXCEPT ![m].pc = place]
      PROVE  \E r \in Rels : rel' = [rel EXCEPT ![m] = r]
  <2>1. [rel[m] EXCEPT !.pc = place] \in Rels
    BY <1>1, <1>3 DEF Rels
  <2>2. rel' = [rel EXCEPT ![m] = [rel[m] EXCEPT !.pc = place]]
    BY <1>1, <1>3
  <2>. QED BY <2>1, <2>2
<1>4. CASE \E place \in RelPlaces : rel' = [rel EXCEPT ![m].pc = place]
  BY <1>3, <1>4
<1>5. CASE View(m) \/ Publish(m)
  BY <1>4, <1>5 DEF View, Publish, RelPlaces
<1>6. CASE CheckOut(m)
  <2>1. PreviousTag(m - 1) \in Versions
    BY MainFacts, PreviousTagOf
  <2>2. [rel[m] EXCEPT !.pc = "read", !.seen = PreviousTag(m - 1)] \in Rels
    BY <1>1, <2>1 DEF Rels, RelPlaces
  <2>3. rel' = [rel EXCEPT ![m] = [rel[m] EXCEPT !.pc = "read", !.seen = PreviousTag(m - 1)]]
    BY <1>1, <1>6 DEF CheckOut
  <2>. QED BY <2>2, <2>3
<1>7. CASE Resolve(m)
  <2>. DEFINE labels == prs[main[m].pr].labels
  <2>1. ASSUME NEW l \in labels,
               rel' = [rel EXCEPT ![m].pc = "resolved", ![m].version = Bump(rel[m].seen, l)]
        PROVE  \E r \in Rels : rel' = [rel EXCEPT ![m] = r]
    <3>1. main[m].pr \in 1..Len(prs)
      <4>1. m \in RelsRun
        BY <1>7 DEF Resolve, RelsRun
      <4>2. main[m].pr # 0 /\ main[m].pr \in 0..Len(prs) /\ Len(prs) \in Nat
        BY <1>1, <4>1, MainFacts DEF Releasing, Commits, TypeOK
      <4>. QED BY <4>2
    <3>2. labels \subseteq Parts
      <4>1. prs \in Seq(PRs)
        BY DEF TypeOK, PRs
      <4>2. prs[main[m].pr] \in PRs
        BY <3>1, <4>1
      <4>. QED BY <4>2 DEF PRs
    <3>3. Bump(rel[m].seen, l) \in Versions
      BY <1>1, <3>2, BumpRises DEF Rels
    <3>4. [rel[m] EXCEPT !.pc = "resolved", !.version = Bump(rel[m].seen, l)] \in Rels
      BY <1>1, <3>3 DEF Rels, RelPlaces
    <3>5. rel' = [rel EXCEPT ![m] = [rel[m] EXCEPT !.pc = "resolved",
                                                   !.version = Bump(rel[m].seen, l)]]
      BY <1>1, <2>1
    <3>. QED BY <3>4, <3>5
  <2>. QED BY <1>4, <1>7, <2>1 DEF Resolve, RelPlaces
<1>. QED BY <1>5, <1>6, <1>7 DEF Release

--------------------------------------------------------------------------------

\* A push to staging queues the job of its work.
LEMMA PushedWork ==
    ASSUME TypeOK, PushStaging
    PROVE  \E w \in Work : staging' = w /\ job' = [job EXCEPT ![w].pc = "queued"]
<1>1. staging \in 0..MaxWork /\ MaxWork \in Nat
  BY PromotionAssumption DEF TypeOK, PromotionAssumption
<1>2. staging + 1 .. MaxWork \subseteq Work
  BY <1>1 DEF Work
<1>. QED BY <1>2 DEF PushStaging

\* The variables keep their types.
LEMMA TypeStep ==
    ASSUME TypeOK, Releasing, [Next]_vars
    PROVE  TypeOK'
<1>0. /\ prs' \in Seq(PRs) /\ main' \in Seq(Commits(Len(prs'))) /\ Len(main') <= MaxMain
      /\ Len(prs) \in Nat /\ Len(prs') \in Nat /\ Len(prs) <= Len(prs')
  BY PRsType, MainStep
<1>1. Jobs(Len(prs)) \subseteq Jobs(Len(prs'))
  BY <1>0 DEF Jobs
<1>2. job \in [Work -> Jobs(Len(prs'))] /\ rel \in [1..MaxMain -> Rels]
  BY <1>1, Types
<1>3. SUFFICES /\ source' = source /\ calm' = calm /\ staging' \in 0..MaxWork
               /\ head' \in Heads /\ passed' \subseteq Heads
               /\ job' \in [Work -> Jobs(Len(prs'))] /\ rel' \in [1..MaxMain -> Rels]
  BY <1>0 DEF TypeOK, Jobs, Rels, Commits, JobPlaces, RelPlaces, PRs
<1>. USE DEF TypeOK
<1>4. CASE PushStaging
  <2>1. PICK w \in Work : staging' = w /\ job' = [job EXCEPT ![w].pc = "queued"]
    BY <1>4, PushedWork
  <2>2. w \in 0..MaxWork
    BY WorkFacts
  <2>3. [job[w] EXCEPT !.pc = "queued"] \in Jobs(Len(prs'))
    BY <1>2, <2>2 DEF Jobs, JobPlaces
  <2>4. job' = [job EXCEPT ![w] = [job[w] EXCEPT !.pc = "queued"]]
    BY <1>2, <2>1, <2>2
  <2>. QED BY <1>2, <1>4, <2>1, <2>2, <2>3, <2>4 DEF PushStaging
<1>5. ASSUME NEW place \in RelPlaces, NEW m, rel' = [rel EXCEPT ![m].pc = place]
      PROVE  rel' \in [1..MaxMain -> Rels]
  <2>1. m \in 1..MaxMain => [rel[m] EXCEPT !.pc = place] \in Rels
    BY <1>2, <1>5 DEF Rels
  <2>. QED BY <1>2, <1>5, <2>1
<1>6. CASE Merge
  BY <1>2, <1>5, <1>6, HeadsFacts DEF Merge, RelPlaces
<1>7. CASE Repair
  BY <1>2, <1>5, <1>7 DEF Repair, RelPlaces
<1>8. ASSUME NEW w \in Work, Promote(w)
      PROVE  head' \in Heads /\ passed' \subseteq Heads /\ job' \in [Work -> Jobs(Len(prs'))]
  <2>1. job[w] \in Jobs(Len(prs))
    BY Types
  <2>2. CASE PushHead(w)
    BY <1>8, <2>1, <2>2, PromoteStep, HeadsFacts DEF PushHead, Jobs
  <2>3. CASE Report(w)
    BY <1>8, <2>1, <2>3, PromoteStep DEF Report, Jobs
  <2>4. CASE ~PushHead(w) /\ ~Report(w)
    BY <1>8, <2>4, PromoteStep
       DEF Promote, Fetch, FindPR, RemoveLabel, AddLabel, CreatePR, StartChecks
  <2>. QED BY <2>2, <2>3, <2>4
<1>9. ASSUME NEW w \in Work, Promote(w)
      PROVE  UNCHANGED <<source, calm, staging, rel>>
  BY <1>9, PromoteFrame
<1>10. ASSUME NEW m \in DOMAIN main, Release(m)
       PROVE  /\ rel' \in [1..MaxMain -> Rels]
              /\ UNCHANGED <<source, calm, staging, head, passed, job>>
  BY <1>10, RelType, ReleaseFrame
<1>11. CASE UNCHANGED vars
  BY <1>2, <1>11 DEF vars
<1>12. CASE \E w \in Work : Promote(w)
  BY <1>2, <1>8, <1>9, <1>12
<1>13. CASE \E m \in DOMAIN main : Release(m)
  BY <1>2, <1>10, <1>13
<1>. QED BY <1>4, <1>6, <1>7, <1>11, <1>12, <1>13 DEF Next

\* Every head that is made from main holds it, and what main gets does not change that.
LEMMA HeadsStep ==
    ASSUME TypeOK, HeadsAdvance, [Next]_vars
    PROVE  HeadsAdvance'
<1>1. /\ Len(main) <= Len(main') /\ Len(main) \in Nat /\ Len(main') \in Nat
      /\ \A n \in 0..Len(main) : Merged(n)' = Merged(n)
  BY MainStep, MainFacts
<1>2. \A h \in Heads : Ahead(h) => Ahead(h)'
  BY <1>1, HeadsFacts DEF Ahead
<1>3. \A w \in Work : job[w] \in Jobs(Len(prs)) /\ [work |-> w, base |-> job[w].base] \in Heads
  BY Types, HeadsFacts DEF Jobs
<1>4. CASE PushStaging
  <2>1. PICK v \in Work : job' = [job EXCEPT ![v].pc = "queued"]
    BY <1>4, PushedWork
  <2>. QED BY <1>2, <1>3, <1>4, <2>1 DEF PushStaging, HeadsAdvance, TypeOK
<1>5. CASE Merge
  BY <1>2, <1>3, <1>5 DEF Merge, HeadsAdvance, TypeOK
<1>6. CASE Repair
  BY <1>2, <1>3, <1>6 DEF Repair, HeadsAdvance, TypeOK
<1>7. ASSUME NEW w \in Work, Fetch(w) PROVE HeadsAdvance'
  <2>1. job'[w].pc = "fetched" => Ahead([work |-> w, base |-> job'[w].base])
    <3>1. CASE \E v \in Work : Merged(Len(main)) < v /\ v <= w
      <4>1. w > Merged(Len(main)) /\ Len(main) <= Len(main)
        BY <3>1, WorkFacts, MainFacts
      <4>2. job'[w].pc = "fetched" => job'[w].base = Len(main)
        BY <1>7, <3>1 DEF Fetch, TypeOK
      <4>. QED BY <4>1, <4>2 DEF Ahead
    <3>2. CASE ~\E v \in Work : Merged(Len(main)) < v /\ v <= w
      BY <1>7, <3>2 DEF Fetch, TypeOK
    <3>. QED BY <3>1, <3>2
  <2>2. job'[w].pc # "reporting" /\ UNCHANGED <<main, head, passed>>
    BY <1>7 DEF Fetch, TypeOK
  <2>3. \A v \in Work \ {w} : job'[v] = job[v]
    BY <1>7, PromoteStep DEF Promote
  <2>4. \A h : Ahead(h)' <=> Ahead(h)
    BY <2>2 DEF Ahead, Merged
  <2>. QED BY <2>1, <2>2, <2>3, <2>4 DEF HeadsAdvance
<1>8. ASSUME NEW w \in Work, PushHead(w) PROVE HeadsAdvance'
  <2>1. job'[w].pc = "pushed" /\ \A v \in Work \ {w} : job'[v] = job[v]
    BY <1>8, PromoteStep DEF Promote, PushHead, TypeOK
  <2>2. head' = [work |-> w, base |-> job[w].base] /\ Ahead(head') /\ UNCHANGED <<main, passed>>
    BY <1>8 DEF PushHead, HeadsAdvance
  <2>3. \A h : Ahead(h)' <=> Ahead(h)
    BY <2>2 DEF Ahead, Merged
  <2>4. Ahead(head)'
    BY <2>2 DEF Ahead, Merged
  <2>. QED BY <2>1, <2>2, <2>3, <2>4 DEF HeadsAdvance
<1>9. ASSUME NEW w \in Work, FindPR(w) \/ RemoveLabel(w) \/ AddLabel(w) \/ CreatePR(w)
      PROVE  HeadsAdvance'
  <2>1. job'[w].pc \notin {"fetched", "reporting"} /\ \A v \in Work \ {w} : job'[v] = job[v]
    <3>1. job'[w].pc \in {"creating", "editing", "checking", "ended"}
      <4>1. CASE AddLabel(w)
        BY <1>3, <4>1 DEF AddLabel, TypeOK
      <4>. QED BY <1>9, <4>1, LabellingStep
    <3>. QED BY <1>9, <3>1, PromoteStep DEF Promote
  <2>2. UNCHANGED <<main, head, passed>>
    BY <1>9 DEF FindPR, RemoveLabel, AddLabel, CreatePR
  <2>3. \A h : Ahead(h)' <=> Ahead(h)
    BY <2>2 DEF Ahead, Merged
  <2>. QED BY <2>1, <2>2, <2>3 DEF HeadsAdvance, Ahead, Merged
<1>10. ASSUME NEW w \in Work, StartChecks(w) PROVE HeadsAdvance'
  <2>1. \A v \in Work \ {w} : job'[v] = job[v]
    BY <1>10, PromoteStep DEF Promote
  <2>2. job'[w].pc # "fetched" /\ (job'[w].pc = "reporting" => job'[w].head # NoHead)
    <3>1. CASE OpenPRs = {} \/ head = NoHead
      <4>1. job' = [job EXCEPT ![w].pc = "ended"]
        BY <1>10, <3>1 DEF StartChecks
      <4>. QED BY <1>3, <4>1, Types DEF Jobs
    <3>2. CASE ~(OpenPRs = {} \/ head = NoHead)
      <4>1. PICK p \in OpenPRs :
                job' = [job EXCEPT ![w].pc = "reporting", ![w].pr = p, ![w].head = head]
        BY <1>10, <3>2 DEF StartChecks
      <4>2. job'[w].pc = "reporting" /\ job'[w].head = head
        BY <4>1, <1>3, Types DEF Jobs
      <4>. QED BY <3>2, <4>2
    <3>. QED BY <3>1, <3>2
  <2>3. UNCHANGED <<main, head, passed>>
    BY <1>10 DEF StartChecks
  <2>4. \A h : Ahead(h)' <=> Ahead(h)
    BY <2>3 DEF Ahead, Merged
  <2>. QED BY <2>1, <2>2, <2>3, <2>4 DEF HeadsAdvance
<1>11. ASSUME NEW w \in Work, Report(w) PROVE HeadsAdvance'
  <2>1. job'[w].pc = "ended" /\ \A v \in Work \ {w} : job'[v] = job[v]
    BY <1>11, PromoteStep DEF Promote, Report, TypeOK
  <2>2. UNCHANGED <<main, head>> /\ passed' \subseteq passed \union {job[w].head}
    BY <1>11 DEF Report
  <2>3. job[w].head # NoHead
    BY <1>11 DEF Report, HeadsAdvance
  <2>. QED BY <2>1, <2>2, <2>3 DEF HeadsAdvance, Ahead, Merged
<1>12. ASSUME NEW m \in DOMAIN main, Release(m) PROVE HeadsAdvance'
  BY <1>2, <1>3, <1>12, ReleaseFrame DEF HeadsAdvance, TypeOK
<1>13. CASE UNCHANGED vars
  BY <1>13 DEF vars, HeadsAdvance, Ahead, Merged
<1>. QED BY <1>4, <1>5, <1>6, <1>7, <1>8, <1>9, <1>10, <1>11, <1>12, <1>13 DEF Next, Promote

\* What is done to the labels closes and opens no pull request.
LEMMA OpenKept ==
    ASSUME TypeOK, NEW w \in Work, RemoveLabel(w) \/ AddLabel(w)
    PROVE  OpenPRs' = OpenPRs
<1>1. prs \in Seq(PRs) /\ DOMAIN prs = 1..Len(prs)
  BY DEF TypeOK, PRs
<1>2. CASE UNCHANGED prs
  BY <1>2 DEF OpenPRs
<1>3. CASE RemoveLabel(w) /\ prs' # prs
  <2>1. PICK l : prs' = [prs EXCEPT ![job[w].pr].labels = @ \ {l}]
    BY <1>3 DEF RemoveLabel
  <2>. QED BY <1>1, <2>1 DEF OpenPRs, PRs
<1>4. CASE AddLabel(w)
  BY <1>1, <1>4 DEF AddLabel, OpenPRs, PRs
<1>. QED BY <1>2, <1>3, <1>4

\* Pull requests are closed by the merge that brings them to main, and never opened again.
LEMMA PullRequestsStep ==
    ASSUME TypeOK, PullRequests, [Next]_vars
    PROVE  PullRequests'
<1>1. /\ main \in Seq(Commits(Len(prs))) /\ DOMAIN main = 1..Len(main) /\ Len(main) \in Nat
      /\ \A m \in DOMAIN main : main[m].pr \in 0..Len(prs)
      /\ prs \in Seq(PRs) /\ DOMAIN prs = 1..Len(prs) /\ Len(prs) \in Nat
  BY MainFacts DEF Commits, TypeOK, PRs
<1>2. CASE Merge
  <2>1. PICK c \in Commits(Len(prs)) : /\ main' = Append(main, c) /\ c.pr \in OpenPRs
                                       /\ prs' = [prs EXCEPT ![c.pr].open = FALSE]
    BY <1>2, MergeStep
  <2>2. OpenPRs' = {}
    BY <1>1, <2>1 DEF OpenPRs, PullRequests, PRs
  <2>. QED BY <2>2 DEF PullRequests
<1>3. CASE Repair
  <2>1. PICK c \in Commits(Len(prs)) : main' = Append(main, c) /\ c.pr = 0
    BY <1>3, RepairStep
  <2>2. UNCHANGED prs
    BY <1>3 DEF Repair
  <2>3. OpenPRs' = OpenPRs /\ 0 \notin OpenPRs
    BY <1>1, <2>2 DEF OpenPRs
  <2>. QED BY <1>1, <2>1, <2>3 DEF PullRequests, Promotions
<1>4. ASSUME NEW w \in Work, RemoveLabel(w) \/ AddLabel(w)
      PROVE  OpenPRs' = OpenPRs
  BY <1>4, OpenKept
<1>5. ASSUME NEW w \in Work, CreatePR(w)
      PROVE  PullRequests'
  <2>1. UNCHANGED main
    BY <1>5, PromoteFrame DEF Promote
  <2>2. CASE UNCHANGED prs
    BY <2>1, <2>2 DEF PullRequests, OpenPRs, Promotions
  <2>3. CASE OpenPRs = {} /\ prs' = Append(prs, [open |-> TRUE, labels |-> {}])
    <3>1. OpenPRs' \subseteq {Len(prs) + 1}
      BY <1>1, <2>3 DEF OpenPRs
    <3>. QED BY <1>1, <2>1, <3>1 DEF PullRequests, Promotions
  <2>. QED BY <1>5, <2>2, <2>3 DEF CreatePR
<1>6. ASSUME NEW w \in Work, Promote(w), OpenPRs' = OpenPRs
      PROVE  PullRequests'
  BY <1>6, PromoteFrame DEF PullRequests, Promotions
<1>7. ASSUME NEW w \in Work, Fetch(w) \/ PushHead(w) \/ FindPR(w) \/ StartChecks(w) \/ Report(w)
      PROVE  OpenPRs' = OpenPRs
  BY <1>7 DEF OpenPRs, Fetch, PushHead, FindPR, StartChecks, Report
<1>8. ASSUME NEW m \in DOMAIN main, Release(m) PROVE PullRequests'
  BY <1>8, ReleaseStep, ReleaseFrame DEF PullRequests, OpenPRs, Promotions
<1>9. CASE PushStaging \/ UNCHANGED vars
  BY <1>9 DEF PushStaging, vars, PullRequests, OpenPRs, Promotions
<1>10. ASSUME NEW w \in Work, Promote(w) PROVE PullRequests'
  BY <1>4, <1>5, <1>6, <1>7, <1>10 DEF Promote
<1>. QED BY <1>2, <1>3, <1>8, <1>9, <1>10 DEF Next

\* A release job is started with its commit, and only for a promotion.
LEMMA ReleasingStep ==
    ASSUME TypeOK, Releasing, [Next]_vars
    PROVE  Releasing'
<1>1. /\ DOMAIN main = 1..Len(main) /\ Len(main) \in Nat /\ MaxMain \in Nat
      /\ DOMAIN main \subseteq 1..MaxMain /\ main \in Seq(Commits(Len(prs)))
      /\ rel \in [1..MaxMain -> Rels]
  BY MainFacts, Types
<1>2. CASE Merge \/ Repair
  <2>1. PICK c \in Commits(Len(prs)) :
            /\ main' = Append(main, c) /\ Len(main) < MaxMain
            /\ c.tag = NoVersion /\ (Merge => c.pr # 0)
    <3>1. CASE Merge
      BY <3>1, MergeStep
    <3>2. CASE ~Merge
      BY <1>2, <3>2, RepairStep
    <3>. QED BY <3>1, <3>2
  <2>2. /\ DOMAIN main' = 1..Len(main) + 1 /\ main'[Len(main) + 1] = c /\ Len(main') = Len(main) + 1
        /\ \A m \in DOMAIN main : main'[m] = main[m]
    BY <1>1, <2>1
  <2>3. /\ \A m \in (1..MaxMain) \ {Len(main) + 1} : rel'[m] = rel[m]
        /\ ~Merge => rel'[Len(main) + 1].pc = "ignored"
    <3>1. CASE Merge
      <4>1. rel' = [rel EXCEPT ![Len(main) + 1].pc = "queued"]
        BY <2>2, <3>1 DEF Merge
      <4>. QED BY <1>1, <3>1, <4>1
    <3>2. CASE ~Merge
      <4>1. rel' = [rel EXCEPT ![Len(main) + 1].pc = "ignored"]
        BY <1>2, <2>2, <3>2 DEF Repair
      <4>2. Len(main) + 1 \in 1..MaxMain
        BY <1>1, <2>1
      <4>. QED BY <1>1, <4>1, <4>2 DEF Rels
    <3>. QED BY <3>1, <3>2
  <2>. QED BY <1>1, <2>1, <2>2, <2>3 DEF Releasing, RelsRun
<1>3. ASSUME NEW m \in DOMAIN main, Release(m) PROVE Releasing'
  <2>1. m \in RelsRun /\ main[m].pr # 0 /\ main[m].tag = NoVersion
    BY <1>1, <1>3, ReleaseStep DEF Releasing
  <2>2. main'[m].tag # main[m].tag => rel'[m].pc = "published"
    <3>1. m \in 1..MaxMain
      BY <1>1
    <3>2. main' # main => rel' = [rel EXCEPT ![m].pc = "published"]
      BY <1>3 DEF Release, CheckOut, Resolve, View, Publish
    <3>. QED BY <1>1, <3>1, <3>2 DEF Rels
  <2>. QED BY <1>1, <1>3, <2>1, <2>2, ReleaseStep DEF Releasing, RelsRun
<1>4. ASSUME NEW w \in Work, Promote(w) PROVE Releasing'
  BY <1>4, PromoteFrame DEF Releasing, RelsRun
<1>5. CASE PushStaging \/ UNCHANGED vars
  BY <1>5 DEF PushStaging, vars, Releasing, RelsRun
<1>. QED BY <1>2, <1>3, <1>4, <1>5 DEF Next

\* A push waits for the jobs under way, so nothing overlaps on calm days.
LEMMA OneAtATimeStep ==
    ASSUME TypeOK, OneAtATime, [Next]_vars
    PROVE  OneAtATime'
<1>. SUFFICES ASSUME calm PROVE OneAtATime'
  <2>1. calm' = calm
    BY PromoteFrame, ReleaseFrame DEF Next, PushStaging, Merge, Repair, vars
  <2>. QED BY <2>1 DEF OneAtATime
<1>1. /\ DOMAIN main = 1..Len(main) /\ Len(main) \in Nat /\ DOMAIN main \subseteq 1..MaxMain
      /\ main \in Seq(Commits(Len(prs))) /\ rel \in [1..MaxMain -> Rels]
      /\ job \in [Work -> Jobs(Len(prs))]
  BY MainFacts, Types
<1>2. CASE Merge \/ Repair
  <2>1. JobsRun = {} /\ RelsRun = {} /\ UNCHANGED job
    BY <1>2 DEF Merge, Repair, MayPush
  <2>2. PICK c \in Commits(Len(prs)) : main' = Append(main, c)
    BY <1>2, RepairStep, MergeStep
  <2>3. Len(main') = Len(main) + 1 /\ DOMAIN main' = 1..Len(main) + 1
    BY <1>1, <2>2
  <2>4. \A m \in DOMAIN main : rel'[m] = rel[m]
    <3>1. \E place : rel' = [rel EXCEPT ![Len(main) + 1].pc = place]
      BY <1>2, <2>3 DEF Merge, Repair
    <3>. QED BY <1>1, <3>1
  <2>5. JobsRun' = {} /\ RelsRun' \subseteq {Len(main')}
    BY <1>1, <2>1, <2>3, <2>4 DEF JobsRun, RelsRun
  <2>. QED BY <2>5 DEF OneAtATime
<1>3. ASSUME NEW w \in Work, Promote(w) PROVE OneAtATime'
  <2>1. \A v \in Work \ {w} : job'[v] = job[v]
    BY <1>3, PromoteStep
  <2>2. UNCHANGED <<main, rel>>
    BY <1>3, PromoteFrame
  <2>3. (JobsRun = {} /\ RelsRun = {}) \/ w \in JobsRun
    BY <1>3 DEF Promote, Fetch, MayPush, JobsRun, PushHead, FindPR, RemoveLabel, AddLabel,
                CreatePR, StartChecks, Report
  <2>4. JobsRun' \subseteq JobsRun \union {w} /\ RelsRun' = RelsRun
    BY <2>1, <2>2 DEF JobsRun, RelsRun
  <2>. QED BY <2>2, <2>3, <2>4 DEF OneAtATime
<1>4. ASSUME NEW m \in DOMAIN main, Release(m) PROVE OneAtATime'
  <2>1. RelsRun' \subseteq RelsRun /\ JobsRun' = JobsRun /\ Len(main') = Len(main)
    BY <1>1, <1>4, ReleaseStep, ReleaseFrame DEF RelsRun, JobsRun
  <2>. QED BY <2>1 DEF OneAtATime
<1>5. CASE PushStaging
  <2>1. PICK w \in Work : job' = [job EXCEPT ![w].pc = "queued"]
    BY <1>5, PushedWork
  <2>2. JobsRun' \subseteq JobsRun /\ RelsRun' = RelsRun /\ UNCHANGED main
    BY <1>1, <1>5, <2>1 DEF JobsRun, RelsRun, PushStaging
  <2>. QED BY <2>2 DEF OneAtATime
<1>6. CASE UNCHANGED vars
  BY <1>6 DEF vars, OneAtATime, JobsRun, RelsRun
<1>. QED BY <1>2, <1>3, <1>4, <1>5, <1>6 DEF Next

\* A fetch is no push.
LEMMA FetchKeeps ==
    ASSUME TypeOK, NEW w \in Work, Fetch(w)
    PROVE  job'[w].head = job[w].head /\ job[w].pc = "queued"
<1>. DEFINE works == {v \in Work : Merged(Len(main)) < v /\ v <= w}
<1>1. \/ \E place : job' = [job EXCEPT ![w].pc = place]
      \/ \E b, l : job' = [job EXCEPT ![w].pc = "fetched", ![w].base = b, ![w].label = l]
  BY DEF Fetch
<1>2. job \in [Work -> Jobs(Len(prs))] /\ job[w] \in Jobs(Len(prs))
  BY Types
<1>3. ASSUME NEW place, job' = [job EXCEPT ![w].pc = place] PROVE job'[w].head = job[w].head
  BY <1>2, <1>3 DEF Jobs
<1>4. ASSUME NEW b, NEW l,
             job' = [job EXCEPT ![w].pc = "fetched", ![w].base = b, ![w].label = l]
      PROVE  job'[w].head = job[w].head
  BY <1>2, <1>4 DEF Jobs
<1>. QED BY <1>1, <1>3, <1>4 DEF Fetch

\* A step of a promotion job makes the head it pushes, and no other.
LEMMA MadeStep ==
    ASSUME TypeOK, NEW w \in Work, Promote(w), NEW h \in Made'
    PROVE  h \in Made \/ (PushHead(w) /\ h.work = w)
<1>1. /\ \A v \in Work \ {w} : job'[v] = job[v]
      /\ job \in [Work -> Jobs(Len(prs))] /\ job[w] \in Jobs(Len(prs))
  BY PromoteStep, Types
<1>2. CASE PushHead(w)
  <2>1. job'[w].head = job[w].head /\ UNCHANGED passed
    BY <1>1, <1>2 DEF PushHead, Jobs
  <2>2. \A v \in Work : job'[v].head = job[v].head
    BY <1>1, <2>1
  <2>3. head'.work = w
    BY <1>2 DEF PushHead
  <2>4. Made' = passed \union {head'} \union {job[v].head : v \in Work}
    BY <2>1, <2>2 DEF Made
  <2>. QED BY <1>2, <2>3, <2>4 DEF Made
<1>3. CASE StartChecks(w)
  <2>1. UNCHANGED <<head, passed>>
    BY <1>3 DEF StartChecks
  <2>2. job'[w].head \in {head, job[w].head}
    <3>1. CASE job' = [job EXCEPT ![w].pc = "ended"]
      BY <1>1, <3>1 DEF Jobs
    <3>2. ASSUME NEW p, job' = [job EXCEPT ![w].pc = "reporting", ![w].pr = p, ![w].head = head]
          PROVE  job'[w].head = head
      BY <1>1, <3>2 DEF Jobs
    <3>. QED BY <1>3, <3>1, <3>2 DEF StartChecks
  <2>3. \A v \in Work : job'[v].head \in {head, job[v].head}
    BY <1>1, <2>2
  <2>4. h \in passed \/ h = head \/ \E v \in Work : h = job'[v].head
    BY <2>1 DEF Made
  <2>. QED BY <2>3, <2>4 DEF Made
<1>4. CASE Report(w)
  <2>1. job'[w].head = job[w].head /\ UNCHANGED head
    BY <1>1, <1>4 DEF Report, Jobs
  <2>2. passed' \subseteq passed \union {job[w].head}
    BY <1>4 DEF Report
  <2>3. \A v \in Work : job'[v].head = job[v].head
    BY <1>1, <2>1
  <2>4. h \in passed \union {job[w].head} \/ h = head \/ \E v \in Work : h = job'[v].head
    BY <2>1, <2>2 DEF Made
  <2>. QED BY <2>3, <2>4 DEF Made
<1>5. CASE Fetch(w) \/ FindPR(w) \/ RemoveLabel(w) \/ AddLabel(w) \/ CreatePR(w)
  <2>1. UNCHANGED <<head, passed>>
    BY <1>5 DEF Fetch, FindPR, RemoveLabel, AddLabel, CreatePR
  <2>2. job'[w].head = job[w].head
    <3>1. CASE Fetch(w)
      BY <3>1, FetchKeeps
    <3>2. CASE AddLabel(w)
      BY <1>1, <3>2 DEF AddLabel, Jobs
    <3>. QED BY <1>5, <3>1, <3>2, LabellingStep
  <2>3. \A v \in Work : job'[v].head = job[v].head
    BY <1>1, <2>2
  <2>4. h \in passed \/ h = head \/ \E v \in Work : h = job'[v].head
    BY <2>1 DEF Made
  <2>. QED BY <2>3, <2>4 DEF Made
<1>. QED BY <1>2, <1>3, <1>4, <1>5 DEF Promote

\* A work comes to staging once, and its job pushes a head once.
LEMMA PushedStep ==
    ASSUME TypeOK, Pushed, [Next]_vars
    PROVE  Pushed'
<1>1. job \in [Work -> Jobs(Len(prs))] /\ Work \subseteq Nat /\ staging \in Nat
  BY Types, WorkFacts, PromotionAssumption DEF PromotionAssumption
<1>2. ASSUME NEW w \in Work, Promote(w) PROVE Pushed'
  <2>1. UNCHANGED staging /\ \A v \in Work \ {w} : job'[v] = job[v]
    BY <1>2, PromoteFrame, PromoteStep
  <2>2. job[w].pc # "none"
    BY <1>2 DEF Promote, Fetch, PushHead, FindPR, RemoveLabel, AddLabel, CreatePR, StartChecks,
                Report
  <2>3. CASE Fetch(w)
    <3>1. job[w].pc = "queued" /\ ~PushHead(w)
      BY <2>3 DEF Fetch, PushHead
    <3>2. \A h \in Made' : h \in Made
      BY <1>2, <3>1, MadeStep
    <3>. QED BY <2>1, <2>2, <3>1, <3>2 DEF Pushed
  <2>4. CASE ~Fetch(w)
    <3>1. job'[w].pc \notin {"none", "queued", "fetched"}
      <4>1. CASE PushHead(w) \/ AddLabel(w) \/ Report(w)
        BY <1>1, <4>1 DEF PushHead, AddLabel, Report, Jobs
      <4>2. CASE StartChecks(w)
        <5>1. CASE job' = [job EXCEPT ![w].pc = "ended"]
          BY <1>1, <5>1 DEF Jobs
        <5>2. ASSUME NEW p,
                     job' = [job EXCEPT ![w].pc = "reporting", ![w].pr = p, ![w].head = head]
              PROVE  job'[w].pc = "reporting"
          BY <1>1, <5>2 DEF Jobs
        <5>. QED BY <4>2, <5>1, <5>2 DEF StartChecks
      <4>3. CASE FindPR(w) \/ RemoveLabel(w) \/ CreatePR(w)
        BY <4>3, LabellingStep
      <4>. QED BY <1>2, <2>4, <4>1, <4>2, <4>3 DEF Promote
    <3>. QED BY <1>2, <2>1, <2>2, <3>1, MadeStep DEF Pushed
  <2>. QED BY <2>3, <2>4
<1>3. CASE PushStaging
  <2>1. PICK w \in Work : w > staging /\ staging' = w /\ job' = [job EXCEPT ![w].pc = "queued"]
    <3>1. \A w \in staging + 1 .. MaxWork : w \in Work /\ w > staging
      BY <1>1, PromotionAssumption DEF PromotionAssumption, Work
    <3>. QED BY <1>3, <3>1 DEF PushStaging
  <2>2. /\ \A v \in Work : job'[v].head = job[v].head
        /\ \A v \in Work \ {w} : job'[v] = job[v]
    BY <1>1, <2>1 DEF Jobs
  <2>3. Made' = Made
    BY <1>3, <2>2 DEF Made, PushStaging
  <2>4. job[w].pc = "none"
    BY <2>1 DEF Pushed
  <2>5. \A v \in Work : v > w => v # w /\ v > staging
    BY <1>1, <2>1
  <2>. QED BY <2>1, <2>2, <2>3, <2>4, <2>5 DEF Pushed
<1>4. CASE Merge
  <2>1. UNCHANGED <<staging, passed, job>> /\ head' = NoHead
    BY <1>4 DEF Merge
  <2>2. NoHead.work \notin Work
    BY DEF NoHead, Work
  <2>. QED BY <2>1, <2>2 DEF Pushed, Made
<1>5. CASE UNCHANGED <<staging, head, passed, job>>
  BY <1>5 DEF Pushed, Made
<1>6. ASSUME NEW m \in DOMAIN main, Release(m) PROVE UNCHANGED <<staging, head, passed, job>>
  BY <1>6, ReleaseFrame
<1>7. Repair \/ UNCHANGED vars => UNCHANGED <<staging, head, passed, job>>
  BY DEF Repair, vars
<1>. QED BY <1>2, <1>3, <1>4, <1>5, <1>6, <1>7 DEF Next

\* A merge has a head that is green, holds main and brings work.
LEMMA AdvanceStep ==
    ASSUME TypeOK, HeadsAdvance, PromotionsAdvance, [Next]_vars
    PROVE  PromotionsAdvance'
<1>1. /\ DOMAIN main = 1..Len(main) /\ Len(main) \in Nat /\ main \in Seq(Commits(Len(prs)))
      /\ Len(main) \in 0..Len(main) /\ Merged(Len(main)) \in Int
      /\ \A n \in 0..Len(main) : Merged(n)' = Merged(n)
      /\ \A m \in DOMAIN main : main'[m].work = main[m].work /\ main'[m].pr = main[m].pr
      /\ \A m \in DOMAIN main : m - 1 \in 0..Len(main)
  BY MainFacts, MainStep
<1>2. CASE DOMAIN main' = DOMAIN main
  BY <1>1, <1>2 DEF PromotionsAdvance, Promotions
<1>3. ASSUME NEW c, main' = Append(main, c), c.pr # 0 => c.work > Merged(Len(main))
      PROVE  PromotionsAdvance'
  <2>1. /\ DOMAIN main' = DOMAIN main \union {Len(main) + 1} /\ main'[Len(main) + 1] = c
        /\ Len(main) + 1 - 1 = Len(main)
    BY <1>1, <1>3
  <2>. QED BY <1>1, <1>3, <2>1 DEF PromotionsAdvance, Promotions
<1>4. CASE Repair
  BY <1>3, <1>4, RepairStep
<1>5. CASE Merge
  <2>1. head \in passed /\ Len(main) <= head.base
    BY <1>5 DEF Merge, Contains
  <2>2. head.base = Len(main) /\ head.work > Merged(Len(main)) /\ head.work \in Int
    BY <1>1, <2>1, HeadsFacts DEF HeadsAdvance, Ahead, TypeOK
  <2>3. PICK c \in Commits(Len(prs)) : main' = Append(main, c) /\ c.work >= head.work
    BY <1>5, MergeStep
  <2>4. c.work > Merged(Len(main))
    BY <1>1, <2>2, <2>3, MainFacts DEF Commits
  <2>. QED BY <1>3, <2>3, <2>4
<1>6. ASSUME NEW m \in DOMAIN main, Release(m) PROVE DOMAIN main' = DOMAIN main
  BY <1>6, ReleaseStep
<1>7. PushStaging \/ UNCHANGED vars => UNCHANGED main
  BY DEF PushStaging, vars
<1>. QED BY <1>2, <1>4, <1>5, <1>6, <1>7, PromoteFrame DEF Next

\* A release is published under a version that no commit of main has.
LEMMA UniqueStep ==
    ASSUME TypeOK, VersionsUnique, [Next]_vars
    PROVE  VersionsUnique'
<1>1. DOMAIN main = 1..Len(main) /\ Len(main) \in Nat /\ main \in Seq(Commits(Len(prs)))
  BY MainFacts
<1>2. CASE Merge \/ Repair
  <2>1. PICK c \in Commits(Len(prs)) : main' = Append(main, c) /\ c.tag = NoVersion
    BY <1>2, RepairStep, MergeStep
  <2>2. /\ DOMAIN main' = DOMAIN main \union {Len(main) + 1} /\ main'[Len(main) + 1] = c
        /\ \A m \in DOMAIN main : main'[m] = main[m]
    BY <1>1, <2>1
  <2>. QED BY <2>1, <2>2 DEF VersionsUnique
<1>3. ASSUME NEW m \in DOMAIN main, Release(m) PROVE VersionsUnique'
  BY <1>3, ReleaseStep DEF VersionsUnique, Released
<1>4. PushStaging \/ UNCHANGED vars => UNCHANGED main
  BY DEF PushStaging, vars
<1>5. UNCHANGED main => VersionsUnique'
  BY DEF VersionsUnique
<1>. QED BY <1>2, <1>3, <1>4, <1>5, PromoteFrame DEF Next

--------------------------------------------------------------------------------

\* What a head brings does not change, whatever is pushed to main after it was made.
LEMMA FitsKept ==
    ASSUME TypeOK, [Next]_vars, NEW h \in Heads, h.base <= Len(main), NEW l
    PROVE  Fits(l, h)' <=> Fits(l, h)
<1>1. source' = source
  BY PromoteFrame, ReleaseFrame DEF Next, PushStaging, Merge, Repair, vars
<1>2. Merged(h.base)' = Merged(h.base)
  <2>1. h.base \in 0..Len(main)
    BY HeadsFacts, MainFacts
  <2>. QED BY <2>1, MainStep
<1>. QED BY <1>1, <1>2 DEF Fits, WorksOf, LabelOf

\* On calm days the other jobs are not under way when a job runs, and none is when main
\* is pushed to or released from.
LEMMA Alone ==
    ASSUME TypeOK, OneAtATime, calm
    PROVE  /\ \A w \in Work : Promote(w) => \A v \in Work \ {w} : v \notin JobsRun
           /\ \A w \in Work : Fetch(w) => w \notin JobsRun
           /\ Merge \/ Repair \/ PushStaging => JobsRun = {} /\ RelsRun = {}
           /\ \A m \in DOMAIN main : Release(m) => JobsRun = {} /\ m = Len(main) /\ RelsRun = {m}
<1>1. ASSUME NEW w \in Work, Promote(w) PROVE \A v \in Work \ {w} : v \notin JobsRun
  <2>1. CASE Fetch(w)
    BY <2>1 DEF Fetch, MayPush
  <2>2. CASE ~Fetch(w)
    <3>1. w \in JobsRun
      BY <1>1, <2>2 DEF Promote, JobsRun, PushHead, FindPR, RemoveLabel, AddLabel,
                        CreatePR, StartChecks, Report
    <3>. QED BY <3>1 DEF OneAtATime
  <2>. QED BY <2>1, <2>2
<1>2. ASSUME NEW m \in DOMAIN main, Release(m)
      PROVE  JobsRun = {} /\ m = Len(main) /\ RelsRun = {m}
  BY <1>2, ReleaseStep DEF OneAtATime
<1>. QED BY <1>1, <1>2 DEF Merge, Repair, PushStaging, Fetch, MayPush

\* A job that is not under way has nothing to fit.
LEMMA IdleFits ==
    ASSUME NEW w \in Work, w \notin JobsRun
    PROVE  JobFits(w) /\ ~Labelling(w)
BY DEF JobFits, JobsRun, Labelling

\* A fresh job has the highest label of the works it found.
LEMMA FetchFits ==
    ASSUME TypeOK, NEW w \in Work, Fetch(w)
    PROVE  /\ job'[w].pc = "fetched" => Fits(job'[w].label, [work |-> w, base |-> job'[w].base])
           /\ job'[w].pc \in {"fetched", "checking", "ended"}
           /\ UNCHANGED <<head, prs, passed, main, source>>
<1>. DEFINE works == {v \in Work : Merged(Len(main)) < v /\ v <= w}
            h == [work |-> w, base |-> Len(main)]
<1>1. job \in [Work -> Jobs(Len(prs))]
  BY Types
<1>2. WorksOf(h) = works
  BY DEF WorksOf
<1>3. ASSUME works # {} PROVE Fits(HighestLabel(works), h)
  <2>. works \in SUBSET Work
    OBVIOUS
  <2>. HIDE DEF works
  <2>. QED BY <1>2, <1>3, HighestFits DEF Fits
<1>4. UNCHANGED <<head, prs, passed, main, source>>
  BY DEF Fetch
<1>5. CASE job' = [job EXCEPT ![w].pc = "checking"] \/ job' = [job EXCEPT ![w].pc = "ended"]
  BY <1>1, <1>4, <1>5 DEF Jobs
<1>6. CASE works # {} /\ job' = [job EXCEPT ![w].pc = "fetched", ![w].base = Len(main),
                                            ![w].label = HighestLabel(works)]
  <2>1. /\ job'[w].pc = "fetched" /\ job'[w].base = Len(main)
        /\ job'[w].label = HighestLabel(works)
    <3>. HIDE DEF works
    <3>. QED BY <1>1, <1>6 DEF Jobs
  <2>. QED BY <1>3, <1>4, <1>6, <2>1
<1>. QED BY <1>5, <1>6 DEF Fetch

\* Each step of a job keeps the label and the pull request it has chosen.
LEMMA JobFitsStep ==
    ASSUME TypeOK, PullRequests, Pushed, NEW w \in Work, JobFits(w), Promote(w)
    PROVE  JobFits(w)'
<1>0. UNCHANGED <<main, source>>
  BY PromoteFrame
<1>1. /\ job \in [Work -> Jobs(Len(prs))] /\ job[w] \in Jobs(Len(prs))
      /\ prs \in Seq(PRs) /\ DOMAIN prs = 1..Len(prs)
  BY Types DEF PRs
<1>2. \A l, h : Fits(l, h)' <=> Fits(l, h)
  BY <1>0 DEF Fits, WorksOf, Merged, LabelOf
<1>3. CASE Fetch(w)
  BY <1>2, <1>3, FetchFits DEF JobFits, Labelling
<1>4. CASE PushHead(w)
  <2>1. /\ job[w].pc = "fetched" /\ job'[w].pc = "pushed" /\ job'[w].label = job[w].label
        /\ head' = [work |-> w, base |-> job[w].base]
    BY <1>1, <1>4 DEF PushHead, Jobs
  <2>2. head' # NoHead
    BY <2>1, WorkFacts DEF NoHead, Work
  <2>3. head' \notin passed /\ UNCHANGED passed
    BY <1>4, <2>1 DEF PushHead, Pushed, Made
  <2>. QED BY <1>2, <2>1, <2>2, <2>3 DEF JobFits, Labelling
<1>5. CASE FindPR(w)
  <2>1. /\ job[w].pc = "pushed" /\ job'[w].label = job[w].label
        /\ UNCHANGED <<head, prs, passed>>
        /\ \/ job'[w].pc = "creating" /\ OpenPRs = {}
           \/ job'[w].pc = "editing" /\ job'[w].pr \in OpenPRs
    <3>1. CASE OpenPRs = {}
      BY <1>1, <1>5, <3>1 DEF FindPR, Jobs
    <3>2. CASE OpenPRs # {}
      <4>1. PICK p \in OpenPRs :
                job' = [job EXCEPT ![w].pc = "editing", ![w].pr = p,
                                   ![w].rest = Parts \ {job[w].label}]
        BY <1>5, <3>2 DEF FindPR
      <4>2. job'[w].pc = "editing" /\ job'[w].pr = p /\ job'[w].label = job[w].label
        BY <4>1, LabellingStep
      <4>. QED BY <1>5, <4>2 DEF FindPR
    <3>. QED BY <3>1, <3>2
  <2>2. OpenPRs' = OpenPRs
    BY <2>1 DEF OpenPRs
  <2>. QED BY <1>2, <2>1, <2>2 DEF JobFits, Labelling
<1>6. CASE RemoveLabel(w)
  <2>1. /\ job[w].pc = "editing" /\ job'[w].pc = "editing" /\ job'[w].label = job[w].label
        /\ job'[w].pr = job[w].pr /\ UNCHANGED <<head, passed>>
    BY <1>6, LabellingStep DEF RemoveLabel
  <2>2. OpenPRs' = OpenPRs
    BY <1>6, OpenKept
  <2>. QED BY <1>2, <2>1, <2>2 DEF JobFits, Labelling
<1>7. CASE CreatePR(w)
  <2>1. OpenPRs = {} /\ head # NoHead /\ job[w].pc = "creating"
    BY <1>7 DEF CreatePR, JobFits, Labelling
  <2>2. /\ prs' = Append(prs, [open |-> TRUE, labels |-> {}]) /\ UNCHANGED <<head, passed>>
        /\ job' = [job EXCEPT ![w].pc = "editing", ![w].pr = Len(prs'), ![w].rest = {}]
    BY <1>7, <2>1 DEF CreatePR
  <2>3. job'[w].pc = "editing" /\ job'[w].label = job[w].label /\ job'[w].pr = Len(prs')
    BY <2>2, LabellingStep
  <2>4. Len(prs') \in OpenPRs'
    BY <1>1, <2>2 DEF OpenPRs
  <2>. QED BY <1>2, <2>1, <2>2, <2>3, <2>4 DEF JobFits, Labelling
<1>8. CASE StartChecks(w)
  <2>1. UNCHANGED <<head, prs>> /\ OpenPRs' = OpenPRs
    BY <1>8 DEF StartChecks, OpenPRs
  <2>2. CASE job' = [job EXCEPT ![w].pc = "ended"]
    <3>1. job'[w].pc = "ended"
      BY <1>1, <2>2 DEF Jobs
    <3>. QED BY <3>1 DEF JobFits, Labelling
  <2>3. ASSUME NEW p \in OpenPRs,
               job' = [job EXCEPT ![w].pc = "reporting", ![w].pr = p, ![w].head = head]
        PROVE  JobFits(w)'
    <3>1. job'[w].pc = "reporting" /\ job'[w].pr = p /\ job'[w].head = head
      BY <1>1, <2>3 DEF Jobs
    <3>. QED BY <2>1, <3>1 DEF JobFits, Labelling
  <2>. QED BY <1>8, <2>2, <2>3 DEF StartChecks
<1>9. CASE AddLabel(w) \/ Report(w)
  <2>1. job'[w].pc \in {"checking", "ended"}
    BY <1>1, <1>9 DEF AddLabel, Report, Jobs
  <2>. QED BY <2>1 DEF JobFits, Labelling
<1>. QED BY <1>3, <1>4, <1>5, <1>6, <1>7, <1>8, <1>9 DEF Promote

\* A set of labels that has one element is that label's.
LEMMA OneLabel ==
    ASSUME NEW ls \in SUBSET Parts, Cardinality(ls) = 1
    PROVE  \E l \in Parts : ls = {l}
<1>1. IsFiniteSet(Parts)
  <2>1. IsFiniteSet({"patch"}) /\ IsFiniteSet({"minor"}) /\ IsFiniteSet({"major"})
    BY FS_Singleton
  <2>2. Parts = ({"patch"} \union {"minor"}) \union {"major"}
    BY DEF Parts
  <2>. QED BY <2>1, <2>2, FS_Union
<1>2. IsFiniteSet(ls)
  BY <1>1, FS_Subset
<1>. QED BY <1>2, FS_Singleton

\* A job that was labelling and is no longer has left its label.
LEMMA LabelledStep ==
    ASSUME TypeOK, PullRequests, Labelled, NEW w \in Work, JobFits(w), Promote(w),
           \A v \in Work \ {w} : ~Labelling(v)
    PROVE  Labelled'
<1>0. UNCHANGED <<main, source>> /\ \A v \in Work \ {w} : job'[v] = job[v]
  BY PromoteFrame, PromoteStep
<1>1. /\ job \in [Work -> Jobs(Len(prs))] /\ job[w] \in Jobs(Len(prs))
      /\ prs \in Seq(PRs) /\ DOMAIN prs = 1..Len(prs)
  BY Types DEF PRs
<1>2. \A l, h : Fits(l, h)' <=> Fits(l, h)
  BY <1>0 DEF Fits, WorksOf, Merged, LabelOf
<1>3. CASE Fetch(w) \/ StartChecks(w) \/ Report(w)
  <2>1. ~Labelling(w) /\ UNCHANGED <<head, prs>>
    BY <1>3 DEF Fetch, StartChecks, Report, Labelling
  <2>2. Labelled /\ OpenPRs' = OpenPRs /\ \A v \in Work : ~Labelling(v)
    BY <2>1 DEF OpenPRs
  <2>. QED BY <1>2, <2>1, <2>2 DEF Labelled
<1>4. CASE Labelling(w)'
  BY <1>4 DEF Labelled
<1>5. CASE PushHead(w) \/ FindPR(w) \/ RemoveLabel(w)
  <2>1. job'[w].pc \in {"pushed", "creating", "editing"}
    <3>1. CASE PushHead(w)
      BY <1>1, <3>1 DEF PushHead, Jobs
    <3>2. CASE RemoveLabel(w)
      BY <3>2, LabellingStep
    <3>3. CASE FindPR(w)
      <4>1. CASE OpenPRs = {}
        <5>1. job' = [job EXCEPT ![w].pc = "creating"]
          BY <3>3, <4>1 DEF FindPR
        <5>2. job'[w].pc = "creating"
          BY <1>1, <5>1 DEF Jobs
        <5>. QED BY <5>2
      <4>2. CASE OpenPRs # {}
        <5>1. PICK p \in OpenPRs :
                  job' = [job EXCEPT ![w].pc = "editing", ![w].pr = p,
                                     ![w].rest = Parts \ {job[w].label}]
          BY <3>3, <4>2 DEF FindPR
        <5>2. job'[w].pc = "editing"
          BY <1>1, <5>1 DEF Jobs
        <5>. QED BY <5>2
      <4>. QED BY <4>1, <4>2
    <3>. QED BY <1>5, <3>1, <3>2, <3>3
  <2>. QED BY <1>4, <2>1 DEF Labelling
<1>6. CASE CreatePR(w)
  <2>1. OpenPRs = {} /\ head # NoHead
    BY <1>6 DEF CreatePR, JobFits, Labelling
  <2>2. job'[w].pc = "editing"
    <3>1. job' = [job EXCEPT ![w].pc = "editing", ![w].pr = Len(prs'), ![w].rest = {}]
      BY <1>6, <2>1 DEF CreatePR
    <3>. QED BY <3>1, LabellingStep
  <2>. QED BY <1>4, <2>2 DEF Labelling
<1>7. CASE AddLabel(w)
  <2>1. /\ job[w].pc = "editing" /\ UNCHANGED head
        /\ prs' = [prs EXCEPT ![job[w].pr].labels = @ \union {job[w].label}]
    BY <1>7 DEF AddLabel
  <2>2. job[w].pr \in OpenPRs /\ job[w].pr \in 1..Len(prs) /\ Fits(job[w].label, head)
    BY <1>1, <2>1 DEF JobFits, OpenPRs, Labelling
  <2>3. OpenPRs' = OpenPRs
    BY <1>7, OpenKept
  <2>4. job[w].label \in prs'[job[w].pr].labels
    BY <1>1, <2>1, <2>2 DEF PRs
  <2>5. \A p \in OpenPRs' : p = job[w].pr
    BY <2>2, <2>3 DEF PullRequests
  <2>. QED BY <1>2, <2>1, <2>2, <2>4, <2>5 DEF Labelled
<1>. QED BY <1>3, <1>5, <1>6, <1>7 DEF Promote

\* A head gets green when its pull request has one label, and that is not edited before the
\* next head.
LEMMA SettledStep ==
    ASSUME TypeOK, PullRequests, Pushed, Settled, NEW w \in Work, JobFits(w), Promote(w),
           \A v \in Work \ {w} : ~Labelling(v)
    PROVE  Settled'
<1>1. /\ job \in [Work -> Jobs(Len(prs))] /\ job[w] \in Jobs(Len(prs))
      /\ prs \in Seq(PRs) /\ DOMAIN prs = 1..Len(prs)
  BY Types DEF PRs
<1>2. CASE Fetch(w) \/ StartChecks(w)
  <2>1. ~Labelling(w) /\ UNCHANGED <<head, prs, passed>>
    BY <1>2 DEF Fetch, StartChecks, Labelling
  <2>2. Settled /\ OpenPRs' = OpenPRs /\ \A v \in Work : ~Labelling(v)
    BY <2>1 DEF OpenPRs
  <2>. QED BY <2>1, <2>2 DEF Settled
<1>3. CASE PushHead(w)
  <2>1. head' \notin passed /\ UNCHANGED passed
    BY <1>3 DEF PushHead, Pushed, Made
  <2>. QED BY <2>1 DEF Settled
<1>4. CASE FindPR(w) \/ RemoveLabel(w) \/ AddLabel(w) \/ CreatePR(w)
  <2>1. Labelling(w) /\ UNCHANGED <<head, passed>>
    BY <1>4 DEF FindPR, RemoveLabel, AddLabel, CreatePR, Labelling
  <2>. QED BY <2>1 DEF Settled, JobFits
<1>5. CASE Report(w)
  <2>1. /\ job[w].head = head /\ job[w].pr \in OpenPRs /\ UNCHANGED <<head, prs>>
        /\ ~Labelling(w) /\ OpenPRs' = OpenPRs
    BY <1>5 DEF Report, JobFits, Labelling, OpenPRs
  <2>2. CASE passed' \subseteq passed
    BY <2>1, <2>2 DEF Settled
  <2>3. CASE Prepared(head, job[w].pr)
    <3>1. prs[job[w].pr] \in PRs
      BY <1>1, <2>1 DEF OpenPRs
    <3>2. \E l \in Parts : prs[job[w].pr].labels = {l}
      <4>. DEFINE ls == prs[job[w].pr].labels
      <4>1. ls \in SUBSET Parts /\ Cardinality(ls) = 1
        BY <2>3, <3>1 DEF Prepared, PRs
      <4>2. \E l \in Parts : ls = {l}
        <5>. HIDE DEF ls
        <5>. QED BY <4>1, OneLabel
      <4>. QED BY <4>2
    <3>3. \A p \in OpenPRs : p = job[w].pr
      BY <2>1 DEF PullRequests
    <3>. QED BY <2>1, <3>2, <3>3 DEF Settled
  <2>. QED BY <1>5, <2>1, <2>2, <2>3 DEF Report
<1>. QED BY <1>2, <1>3, <1>4, <1>5 DEF Promote

\* On calm days no step leaves a pull request with a label that does not fit its head.
LEMMA LabelsStep ==
    ASSUME TypeOK, HeadsAdvance, PullRequests, OneAtATime, Pushed, LabelsFit, [Next]_vars
    PROVE  LabelsFit'
<1>. SUFFICES ASSUME calm PROVE LabelsFit'
  <2>1. calm' = calm
    BY PromoteFrame, ReleaseFrame DEF Next, PushStaging, Merge, Repair, vars
  <2>. QED BY <2>1 DEF LabelsFit
<1>0. Labelled /\ Settled /\ \A w \in Work : JobFits(w)
  BY DEF LabelsFit
<1>1. ASSUME NEW w \in Work, Promote(w) PROVE LabelsFit'
  <2>1. \A v \in Work \ {w} : v \notin JobsRun /\ job'[v] = job[v]
    BY <1>1, Alone, PromoteStep
  <2>2. \A v \in Work \ {w} : ~Labelling(v) /\ JobFits(v)'
    BY <2>1, IdleFits DEF JobFits, JobsRun, Labelling
  <2>3. JobFits(w)' /\ Labelled' /\ Settled'
    BY <1>0, <1>1, <2>2, JobFitsStep, LabelledStep, SettledStep
  <2>. QED BY <2>2, <2>3 DEF LabelsFit
<1>2. ASSUME JobsRun = {}, JobsRun' = {}, UNCHANGED passed,
             head' = NoHead \/ UNCHANGED <<head, prs>>, [Next]_vars
      PROVE  LabelsFit'
  <2>1. \A w \in Work : ~Labelling(w) /\ JobFits(w)'
    BY <1>2 DEF JobFits, JobsRun, Labelling
  <2>2. CASE head' = NoHead
    BY <1>2, <2>1, <2>2 DEF HeadsAdvance, Labelled, Settled, LabelsFit
  <2>3. CASE head # NoHead /\ UNCHANGED <<head, prs>>
    <3>1. head \in Heads /\ head.base <= Len(main)
      BY <2>3 DEF HeadsAdvance, Ahead, TypeOK
    <3>2. \A l : Fits(l, head) => Fits(l, head)'
      BY <3>1, <2>3, FitsKept
    <3>3. Labelled'
      BY <1>0, <2>1, <2>3, <3>2 DEF Labelled, OpenPRs
    <3>4. Settled'
      BY <1>0, <1>2, <2>1, <2>3 DEF Settled, OpenPRs
    <3>. QED BY <2>1, <3>3, <3>4 DEF LabelsFit
  <2>. QED BY <1>2, <2>2, <2>3
<1>3. CASE Merge \/ Repair
  BY <1>2, <1>3, Alone DEF Merge, Repair, JobsRun
<1>4. ASSUME NEW m \in DOMAIN main, Release(m) PROVE LabelsFit'
  BY <1>2, <1>4, Alone, ReleaseFrame DEF JobsRun, Next
<1>5. CASE PushStaging
  <2>1. PICK w \in Work : job' = [job EXCEPT ![w].pc = "queued"]
    BY <1>5, PushedWork
  <2>2. JobsRun' \subseteq JobsRun
    BY <2>1, Types DEF JobsRun, Jobs
  <2>. QED BY <1>2, <1>5, <2>2, Alone DEF PushStaging
<1>6. CASE UNCHANGED vars
  <2>1. OpenPRs' = OpenPRs /\ (\A l, h : Fits(l, h)' <=> Fits(l, h)) /\ UNCHANGED <<head, prs, passed, job>>
    BY <1>6 DEF vars, OpenPRs, Fits, WorksOf, Merged, LabelOf
  <2>2. \A w \in Work : JobFits(w)'
    BY <1>0, <2>1 DEF JobFits, Labelling
  <2>3. Labelled' /\ Settled'
    BY <1>0, <2>1 DEF Labelled, Settled, Labelling
  <2>. QED BY <2>2, <2>3 DEF LabelsFit
<1>. QED BY <1>1, <1>3, <1>4, <1>5, <1>6 DEF Next

\* On calm days a merge has the label that fits, and later edits are of other pull requests.
LEMMA HighestStep ==
    ASSUME TypeOK, HeadsAdvance, PullRequests, OneAtATime, LabelsFit, HighestImpact, [Next]_vars
    PROVE  HighestImpact'
<1>0. UNCHANGED <<source, calm>>
  BY PromoteFrame, ReleaseFrame DEF Next, PushStaging, Merge, Repair, vars
<1>. SUFFICES ASSUME calm PROVE HighestImpact'
  BY <1>0 DEF HighestImpact
<1>. DEFINE Right(m) ==
        \E l \in Parts : /\ prs[main[m].pr].labels = {l}
                         /\ Impact(l) = Max({Impact(LabelOf(w)) : w \in Brought(m)})
<1>1. /\ DOMAIN main = 1..Len(main) /\ Len(main) \in Nat /\ main \in Seq(Commits(Len(prs)))
      /\ \A n \in 0..Len(main) : Merged(n)' = Merged(n)
      /\ \A m \in DOMAIN main : /\ m \in DOMAIN main' /\ m - 1 \in 0..Len(main)
                                /\ main'[m].work = main[m].work /\ main'[m].pr = main[m].pr
      /\ prs \in Seq(PRs) /\ DOMAIN prs = 1..Len(prs) /\ Len(prs) \in Nat
      /\ \A m \in Promotions : main[m].pr \in 1..Len(prs)
  <2>1. prs \in Seq(PRs) /\ DOMAIN prs = 1..Len(prs) /\ Len(prs) \in Nat
    BY DEF TypeOK, PRs
  <2>2. \A m \in Promotions : main[m].pr \in 1..Len(prs)
    BY <2>1, MainFacts DEF Commits, Promotions
  <2>. QED BY <2>1, <2>2, MainFacts, MainStep
<1>2. \A m \in Promotions : Right(m)
  BY DEF HighestImpact, LabelsHighest
<1>3. ASSUME NEW m \in Promotions, prs'[main[m].pr].labels = prs[main[m].pr].labels
      PROVE  Right(m)'
  <2>1. Brought(m)' = Brought(m)
    BY <1>1 DEF Brought, Promotions
  <2>2. \A w : LabelOf(w)' = LabelOf(w)
    BY <1>0 DEF LabelOf
  <2>3. {Impact(LabelOf(w)) : w \in Brought(m)}' = {Impact(LabelOf(w)) : w \in Brought(m)}
    BY <2>1, <2>2
  <2>. QED BY <1>1, <1>2, <1>3, <2>3 DEF Promotions
<1>4. \A m \in Promotions : prs'[main[m].pr].labels = prs[main[m].pr].labels
  <2>1. CASE Merge
    <3>1. PICK p : prs' = [prs EXCEPT ![p].open = FALSE]
      BY <2>1, MergeStep
    <3>. QED BY <1>1, <3>1 DEF PRs
  <2>2. ASSUME NEW w \in Work, RemoveLabel(w) \/ AddLabel(w), prs' # prs, NEW m \in Promotions
        PROVE  prs'[main[m].pr] = prs[main[m].pr]
    <3>1. job[w].pr \in OpenPRs
      BY <2>2 DEF LabelsFit, JobFits, RemoveLabel, AddLabel
    <3>2. main[m].pr # job[w].pr
      BY <3>1 DEF PullRequests
    <3>3. \E r : prs' = [prs EXCEPT ![job[w].pr] = r]
      <4>1. CASE RemoveLabel(w)
        BY <2>2, <4>1 DEF RemoveLabel
      <4>2. CASE AddLabel(w)
        BY <4>2 DEF AddLabel
      <4>. QED BY <2>2, <4>1, <4>2
    <3>. QED BY <1>1, <3>2, <3>3
  <2>3. ASSUME NEW w \in Work, CreatePR(w), NEW m \in Promotions
        PROVE  prs'[main[m].pr] = prs[main[m].pr]
    BY <1>1, <2>3 DEF CreatePR
  <2>4. ASSUME NEW w \in Work, Fetch(w) \/ PushHead(w) \/ FindPR(w) \/ StartChecks(w) \/ Report(w)
        PROVE  UNCHANGED prs
    BY <2>4 DEF Fetch, PushHead, FindPR, StartChecks, Report
  <2>5. CASE PushStaging \/ Repair \/ (\E m \in DOMAIN main : Release(m)) \/ UNCHANGED vars
    BY <2>5, ReleaseFrame DEF PushStaging, Repair, vars
  <2>. QED BY <2>1, <2>2, <2>3, <2>4, <2>5 DEF Next, Promote
<1>5. CASE Merge
  <2>1. /\ head \in Heads /\ head.base = Len(main) /\ head.work > Merged(Len(main))
        /\ head # NoHead
    <3>1. head \in passed /\ Len(main) <= head.base
      BY <1>5 DEF Merge, Contains
    <3>2. head \in Heads /\ head # NoHead /\ Ahead(head)
      BY <3>1 DEF HeadsAdvance, TypeOK
    <3>. QED BY <1>1, <3>1, <3>2, HeadsFacts DEF Ahead
  <2>2. PICK c \in Commits(Len(prs)) :
            /\ main' = Append(main, c) /\ c.pr \in OpenPRs
            /\ prs' = [prs EXCEPT ![c.pr].open = FALSE]
            /\ c.work \in {head.work, Merged(Len(main))} /\ c.work >= head.work
    BY <1>5, MergeStep
  <2>3. c.work = head.work
    BY <2>1, <2>2, HeadsFacts, MainFacts DEF Commits
  <2>4. JobsRun = {} /\ \A w \in Work : ~Labelling(w)
    BY <1>5, Alone, IdleFits
  <2>5. PICK l \in Parts : prs[c.pr].labels = {l} /\ Fits(l, head)
    <3>1. (\E l \in Parts : prs[c.pr].labels = {l}) /\ \E l \in prs[c.pr].labels : Fits(l, head)
      BY <1>5, <2>1, <2>2, <2>4 DEF Merge, LabelsFit, Labelled, Settled
    <3>. QED BY <3>1
  <2>0. PICK new \in Nat : new = Len(main) + 1
    BY <1>1
  <2>. DEFINE impacts == {Impact(LabelOf(w)) : w \in Brought(new)'}
  <2>6. /\ main'[new] = c /\ DOMAIN main' = DOMAIN main \union {new} /\ new - 1 = Len(main)
        /\ \A m \in DOMAIN main : main'[m] = main[m]
    BY <1>1, <2>0, <2>2
  <2>7. Brought(new)' = WorksOf(head)
    <3>1. Merged(new - 1)' = Merged(head.base) /\ main'[new].work = head.work
      BY <1>1, <2>0, <2>1, <2>3, <2>6
    <3>. QED BY <3>1 DEF Brought, WorksOf
  <2>8. Impact(l) = Max(impacts)
    <3>1. \A w \in Work : Impact(LabelOf(w)) \in Int
      BY LabelType DEF Impact, Parts
    <3>2. impacts \in SUBSET Int /\ Impact(l) \in impacts /\ \A i \in impacts : i <= Impact(l)
      BY <2>5, <2>7, <3>1 DEF Fits, WorksOf
    <3>. HIDE DEF impacts
    <3>. QED BY <3>2, MaxIs
  <2>9. Right(new)'
    <3>1. prs'[main'[new].pr].labels = {l}
      BY <1>1, <2>2, <2>5, <2>6 DEF OpenPRs, PRs
    <3>2. {Impact(LabelOf(w)) : w \in Brought(new)}' = impacts
      BY <1>0 DEF LabelOf
    <3>. QED BY <2>8, <3>1, <3>2
  <2>10. Promotions' \subseteq Promotions \union {new}
    BY <2>6 DEF Promotions
  <2>. HIDE DEF Right
  <2>11. \A m \in Promotions' : Right(m)'
    BY <1>3, <1>4, <2>9, <2>10
  <2>. QED BY <2>11 DEF HighestImpact, LabelsHighest, Right
<1>6. CASE ~Merge
  <2>1. Promotions' = Promotions
    <3>1. CASE Repair
      <4>1. PICK c \in Commits(Len(prs)) : main' = Append(main, c) /\ c.pr = 0
        BY <3>1, RepairStep
      <4>. QED BY <1>1, <4>1 DEF Promotions
    <3>2. ASSUME NEW m \in DOMAIN main, Release(m) PROVE Promotions' = Promotions
      BY <3>2, ReleaseStep DEF Promotions
    <3>3. PushStaging \/ UNCHANGED vars \/ (\E w \in Work : Promote(w)) => UNCHANGED main
      BY PromoteFrame DEF PushStaging, vars
    <3>. QED BY <1>6, <3>1, <3>2, <3>3 DEF Promotions, Next
  <2>. HIDE DEF Right
  <2>2. \A m \in Promotions' : Right(m)'
    BY <1>3, <1>4, <2>1
  <2>. QED BY <2>2 DEF HighestImpact, LabelsHighest, Right
<1>. QED BY <1>5, <1>6

\* A release starts from the nearest tag, which on calm days is the latest.
LEMMA VersionsStep ==
    ASSUME TypeOK, Releasing, OneAtATime, VersionsAhead, VersionsRise, [Next]_vars
    PROVE  VersionsAhead' /\ VersionsRise'
<1>0. UNCHANGED <<source, calm>>
  BY PromoteFrame, ReleaseFrame DEF Next, PushStaging, Merge, Repair, vars
<1>. SUFFICES ASSUME calm PROVE VersionsAhead' /\ VersionsRise'
  BY <1>0 DEF VersionsAhead, VersionsRise
<1>1. /\ DOMAIN main = 1..Len(main) /\ Len(main) \in Nat /\ DOMAIN main \subseteq 1..MaxMain
      /\ main \in Seq(Commits(Len(prs))) /\ rel \in [1..MaxMain -> Rels]
      /\ \A m \in DOMAIN main : main[m].tag \in Versions
      /\ \A m \in DOMAIN main : rel[m] \in Rels
  BY MainFacts, Types DEF Commits
<1>2. CASE Merge \/ Repair
  <2>1. PICK c \in Commits(Len(prs)) : main' = Append(main, c) /\ c.tag = NoVersion
                                       /\ Len(main) < MaxMain
    BY <1>2, RepairStep, MergeStep
  <2>2. /\ DOMAIN main' = DOMAIN main \union {Len(main) + 1} /\ main'[Len(main) + 1] = c
        /\ Len(main') = Len(main) + 1
        /\ \A m \in DOMAIN main : main'[m] = main[m]
    BY <1>1, <2>1
  <2>3. \E place \in {"queued", "ignored"} : rel' = [rel EXCEPT ![Len(main) + 1].pc = place]
    BY <1>2, <2>2 DEF Merge, Repair
  <2>4. /\ \A m \in DOMAIN main : rel'[m] = rel[m]
        /\ rel'[Len(main) + 1].pc \in {"queued", "ignored"}
    <3>1. Len(main) + 1 \in 1..MaxMain
      BY <1>1, <2>1, MainFacts
    <3>. QED BY <1>1, <2>3, <3>1 DEF Rels
  <2>5. VersionsRise'
    BY <1>1, <2>1, <2>2 DEF VersionsRise
  <2>6. VersionsAhead'
    BY <1>1, <2>2, <2>4 DEF VersionsAhead
  <2>. QED BY <2>5, <2>6
<1>3. ASSUME NEW k \in DOMAIN main, Release(k) PROVE VersionsAhead' /\ VersionsRise'
  <2>1. k = Len(main) /\ RelsRun = {k}
    BY <1>3, Alone
  <2>2. /\ DOMAIN main' = DOMAIN main
        /\ \A m \in DOMAIN main \ {k} : main'[m].tag = main[m].tag /\ rel'[m] = rel[m]
        /\ main'[k].tag # main[k].tag =>
              Publish(k) /\ main'[k].tag = rel[k].version
    BY <1>1, <1>3, ReleaseStep
  <2>3. VersionsRise'
    <3>1. CASE main'[k].tag = main[k].tag
      BY <2>2, <3>1 DEF VersionsRise
    <3>2. CASE main'[k].tag # main[k].tag
      <4>1. \A n \in 1..k - 1 : main[n].tag # NoVersion => Precedes(main[n].tag, main'[k].tag)
        BY <2>2, <3>2 DEF VersionsAhead, Publish
      <4>. QED BY <1>1, <2>1, <2>2, <4>1 DEF VersionsRise
    <3>. QED BY <3>1, <3>2
  <2>4. \A m \in DOMAIN main \ {k} : rel'[m].pc \notin {"read", "resolved", "building"}
    BY <1>1, <2>1, <2>2 DEF RelsRun
  <2>5. SUFFICES ASSUME NEW n \in 1..k - 1, main[n].tag # NoVersion
                 PROVE  /\ rel'[k].pc = "read" =>
                            main[n].tag = rel'[k].seen \/ Precedes(main[n].tag, rel'[k].seen)
                        /\ rel'[k].pc \in {"resolved", "building"} =>
                            Precedes(main[n].tag, rel'[k].version)
    BY <1>1, <2>1, <2>2, <2>3, <2>4 DEF VersionsAhead
  <2>6. n \in DOMAIN main /\ k \in 1..MaxMain /\ rel[k] \in Rels /\ main[n].tag \in Versions
    BY <1>1
  <2>7. CASE CheckOut(k)
    <3>1. n \in Tagged(k - 1) /\ k - 1 \in 0..Len(main) /\ Tagged(k - 1) \subseteq 1..k - 1
      BY <1>1, <2>5 DEF Tagged
    <3>2. PICK j \in Tagged(k - 1) : n <= j /\ PreviousTag(k - 1) = main[j].tag
      BY <3>1, PreviousTagOf
    <3>3. main[n].tag = PreviousTag(k - 1) \/ Precedes(main[n].tag, PreviousTag(k - 1))
      BY <1>1, <2>5, <2>6, <3>1, <3>2 DEF VersionsRise, Tagged
    <3>4. rel'[k].pc = "read" /\ rel'[k].seen = PreviousTag(k - 1)
      BY <1>1, <2>6, <2>7 DEF CheckOut, Rels
    <3>. QED BY <3>3, <3>4
  <2>8. CASE Resolve(k)
    <3>1. CASE rel' = [rel EXCEPT ![k].pc = "failed"]
      BY <1>1, <2>6, <3>1 DEF Rels
    <3>2. ASSUME NEW l \in prs[main[k].pr].labels,
                 rel' = [rel EXCEPT ![k].pc = "resolved", ![k].version = Bump(rel[k].seen, l)]
          PROVE  rel'[k].pc = "resolved" /\ Precedes(main[n].tag, rel'[k].version)
      <4>1. l \in Parts
        <5>1. prs \in Seq(PRs) /\ Len(prs) \in Nat
          BY DEF TypeOK, PRs
        <5>2. main[k].pr # 0 /\ main[k].pr \in 0..Len(prs)
          BY <2>1, <2>6, MainFacts DEF Releasing, Commits
        <5>3. prs[main[k].pr] \in PRs
          BY <5>1, <5>2
        <5>. QED BY <5>3 DEF PRs
      <4>2. rel'[k].pc = "resolved" /\ rel'[k].version = Bump(rel[k].seen, l)
        BY <1>1, <2>6, <3>2 DEF Rels
      <4>3. rel[k].seen \in Versions /\ Bump(rel[k].seen, l) \in Versions
            /\ Precedes(rel[k].seen, Bump(rel[k].seen, l))
        BY <2>6, <4>1, BumpRises DEF Rels
      <4>4. main[n].tag = rel[k].seen \/ Precedes(main[n].tag, rel[k].seen)
        BY <2>5, <2>8 DEF VersionsAhead, Resolve
      <4>. QED BY <2>6, <4>2, <4>3, <4>4, PrecedesTransitive
    <3>. QED BY <2>8, <3>1, <3>2 DEF Resolve
  <2>9. CASE View(k)
    <3>1. rel'[k].version = rel[k].version /\ rel'[k].pc # "read"
      BY <1>1, <2>6, <2>9 DEF View, Rels
    <3>2. Precedes(main[n].tag, rel[k].version)
      BY <2>5, <2>9 DEF VersionsAhead, View
    <3>. QED BY <3>1, <3>2
  <2>10. CASE Publish(k)
    <3>1. \E place \in {"published", "failed"} : rel' = [rel EXCEPT ![k].pc = place]
      BY <2>10 DEF Publish
    <3>. QED BY <1>1, <2>6, <3>1 DEF Rels
  <2>. QED BY <1>3, <2>7, <2>8, <2>9, <2>10 DEF Release
<1>4. PushStaging \/ UNCHANGED vars => UNCHANGED <<main, rel>>
  BY DEF PushStaging, vars
<1>5. UNCHANGED <<main, rel>> => VersionsAhead' /\ VersionsRise'
  BY DEF VersionsAhead, VersionsRise
<1>. QED BY <1>2, <1>3, <1>4, <1>5, PromoteFrame DEF Next

--------------------------------------------------------------------------------

\* Everything together holds from the start and is kept.
LEMMA Inductive == Spec => []IInv
<1>1. Init => IInv
  <2>. SUFFICES ASSUME Init PROVE IInv
    OBVIOUS
  <2>. USE DEF Init
  <2>1. TypeOK
    <3>1. NoHead \in Heads /\ MaxWork \in Nat /\ MaxMain \in Nat
      BY HeadsFacts, PromotionAssumption DEF PromotionAssumption
    <3>2. NoVersion \in Versions
      BY DEF NoVersion, Versions
    <3>3. NoRel \in Rels
      BY <3>2 DEF NoRel, Rels, RelPlaces
    <3>4. NoJob \in Jobs(0)
      BY <3>1 DEF NoJob, Jobs, JobPlaces, Parts
    <3>5. prs = << >> /\ main = << >> /\ Len(prs) = 0 /\ Len(main) = 0
      OBVIOUS
    <3>. HIDE DEF NoJob, NoRel, NoHead
    <3>. QED BY <3>1, <3>3, <3>4, <3>5, Types
  <2>2. OpenPRs = {} /\ Promotions = {} /\ JobsRun = {} /\ RelsRun = {} /\ DOMAIN main = {}
    BY DEF OpenPRs, Promotions, JobsRun, RelsRun, NoJob
  <2>3. HeadsAdvance /\ Releasing
    BY <2>2, WorkFacts DEF HeadsAdvance, Releasing, NoJob, NoRel
  <2>4. \A w \in Work : JobFits(w)
    BY <2>2, IdleFits
  <2>5. Pushed
    <3>1. Made = {NoHead} \/ Made = {}
      BY DEF Made, NoJob
    <3>2. NoHead.work \notin Work
      BY DEF NoHead, Work
    <3>. QED BY <3>1, <3>2 DEF Pushed, NoJob
  <2>. QED BY <2>1, <2>2, <2>3, <2>4, <2>5
           DEF IInv, PullRequests, OneAtATime, LabelsFit, Labelled, Settled, VersionsAhead,
               PromotionsAdvance, VersionsUnique, HighestImpact, LabelsHighest, VersionsRise
<1>2. IInv /\ [Next]_vars => IInv'
  BY TypeStep, HeadsStep, PullRequestsStep, ReleasingStep, OneAtATimeStep, PushedStep, LabelsStep,
     AdvanceStep, UniqueStep, HighestStep, VersionsStep DEF IInv
<1>. QED BY <1>1, <1>2, PTL DEF Spec

\* The variables keep their types, whatever jobs overlap (release.yml:45-98): a release job
\* always finds the pull request it belongs to.
THEOREM TypeCorrect == Spec => []TypeOK
<1>1. IInv => TypeOK
  BY DEF IInv
<1>. QED BY <1>1, Inductive, PTL

\* Every promotion brings main work it did not have, for any number of works, pushes and
\* jobs that force-push over each other (promotion.yml:122-126, 253-254).
THEOREM AdvanceCorrect == Spec => []PromotionsAdvance
<1>1. IInv => PromotionsAdvance
  BY DEF IInv
<1>. QED BY <1>1, Inductive, PTL

\* No two commits of main are released under one version, in whatever order the release
\* jobs go on (release.yml:66-98).
THEOREM UniqueCorrect == Spec => []VersionsUnique
<1>1. IInv => VersionsUnique
  BY DEF IInv
<1>. QED BY <1>1, Inductive, PTL

\* On calm days a promotion has the label of the highest impact among the works it brings,
\* whatever their labels (release_tools.go:162-207).
THEOREM HighestCorrect == Spec => []HighestImpact
<1>1. IInv => HighestImpact
  BY DEF IInv
<1>. QED BY <1>1, Inductive, PTL

\* On calm days the versions along main only go up (release.yml:59-62).
THEOREM RiseCorrect == Spec => []VersionsRise
<1>1. IInv => VersionsRise
  BY DEF IInv
<1>. QED BY <1>1, Inductive, PTL
================================================================================
