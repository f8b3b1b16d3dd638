------------------------------- MODULE Promotion -------------------------------
(***************************************************************************)
(* The way from staging to main: promotion.yml prepares the branch         *)
(* promote/staging-to-main and its pull request, release-prep checks them,  *)
(* a maintainer merges, and release.yml tags main and publishes a release.  *)
(* The label and version arithmetic is that of scripts/release_tools.go.   *)
(*                                                                         *)
(* Every push to staging starts one promotion job and every push to main    *)
(* one release job.  Neither workflow has a concurrency group: jobs         *)
(* overlap, and work on what they have read before.  Work n is what the    *)
(* n-th source pull request has brought to staging.                        *)
(***************************************************************************)
EXTENDS Integers, Sequences, FiniteSets, FiniteSetsExt

CONSTANTS
    MaxWork,    \* source pull requests
    MaxMain,    \* pushes to main
    Labellings  \* labels the source pull requests may carry

Work == 1..MaxWork
Parts == {"patch", "minor", "major"}

ASSUME PromotionAssumption ==
    /\ MaxWork \in Nat
    /\ MaxMain \in Nat
    /\ Labellings \subseteq [Work -> SUBSET Parts]

VARIABLES
    source,     \* the semver labels of each source pull request
    calm,       \* whether a push waits until every job under way has ended
    staging,    \* the last work on staging
    head,       \* the tip of promote/staging-to-main
    prs,        \* promotion pull requests into main, in order
    passed,     \* heads whose required checks are green
    main,       \* the commits of main, the first one first
    job,        \* the promotion job of each staging tip
    rel         \* the release job of each commit of main

vars == <<source, calm, staging, head, prs, passed, main, job, rel>>

NoHead == [work |-> 0, base |-> 0]

Heads == [work: 0..MaxWork, base: 0..MaxMain]

\* tag: NoVersion while there is none.  pr: 0 for a push that is no promotion.
Versions == [major: Nat, minor: Nat, patch: Nat]
NoVersion == [major |-> 0, minor |-> 0, patch |-> 0]

NoJob == [pc |-> "none", base |-> 0, label |-> "patch", rest |-> {}, pr |-> 0,
          head |-> NoHead]
NoRel == [pc |-> "none", seen |-> NoVersion, version |-> NoVersion]

TypeOK ==
    /\ source \in Labellings
    /\ calm \in BOOLEAN
    /\ staging \in 0..MaxWork
    /\ head \in Heads
    /\ prs \in Seq([open: BOOLEAN, labels: SUBSET Parts])
    /\ passed \subseteq Heads
    /\ main \in Seq([work: 0..MaxWork, pr: 0..Len(prs), tag: Versions])
    /\ Len(main) <= MaxMain
    /\ job \in [Work -> [pc: {"none", "queued", "fetched", "pushed", "editing", "creating",
                              "checking", "reporting", "ended"},
                         base: 0..MaxMain, label: Parts, rest: SUBSET Parts,
                         pr: 0..Len(prs), head: Heads]]
    /\ rel \in [1..MaxMain -> [pc: {"none", "queued", "read", "resolved", "building", "ignored",
                                    "skipped", "failed", "published"},
                               seen: Versions, version: Versions]]

--------------------------------------------------------------------------------

\* Versions and labels: scripts/release_tools.go.

Impact(part) == CASE part = "patch" -> 0 [] part = "minor" -> 1 [] part = "major" -> 2

\* bumpVersion
Bump(v, part) ==
    CASE part = "major" -> [major |-> v.major + 1, minor |-> 0, patch |-> 0]
      [] part = "minor" -> [v EXCEPT !.minor = @ + 1, !.patch = 0]
      [] part = "patch" -> [v EXCEPT !.patch = @ + 1]

Precedes(v, w) ==
    \/ v.major < w.major
    \/ v.major = w.major /\ v.minor < w.minor
    \/ v.major = w.major /\ v.minor = w.minor /\ v.patch < w.patch

\* selectSemverLabel: a source without a label is a patch, one with two is refused.
Ambiguous(w) == Cardinality(source[w]) > 1
LabelOf(w) == IF source[w] = {} THEN "patch" ELSE CHOOSE l \in source[w] : TRUE

\* A bug: the label of the newest work is that of the promotion.
NewestLabel(works) == LabelOf(Max(works))

\* resolvePromotionRangeSemverLabel: the label of the highest impact.
HighestLabel(works) ==
    CHOOSE l \in {LabelOf(w) : w \in works} \union {"patch"} :
        \A w \in works : Impact(LabelOf(w)) <= Impact(l)

--------------------------------------------------------------------------------

Init ==
    /\ source \in Labellings
    /\ calm \in BOOLEAN
    /\ staging = 0
    /\ head = NoHead
    /\ prs = << >>
    /\ passed = {}
    /\ main = << >>
    /\ job = [w \in Work |-> NoJob]
    /\ rel = [m \in 1..MaxMain |-> NoRel]

Merged(m) == IF m = 0 THEN 0 ELSE main[m].work

OpenPRs == {p \in DOMAIN prs : prs[p].open}

JobsRun == {w \in Work : job[w].pc \notin {"none", "queued", "ended"}}
RelsRun == {m \in DOMAIN main : rel[m].pc \in {"queued", "read", "resolved", "building"}}

\* On calm days a push comes when no job is under way.
MayPush == calm => JobsRun = {} /\ RelsRun = {}

\* dev is promoted to staging, one or more works at a time.
PushStaging ==
    /\ MayPush
    /\ \E w \in staging + 1 .. MaxWork :
        /\ staging' = w
        /\ job' = [job EXCEPT ![w].pc = "queued"]
    /\ UNCHANGED <<source, calm, head, prs, passed, main, rel>>

\* quality has passed on the staging tip w: its promotion job reads main and the labels.
\* It fails on an ambiguous source, and has nothing to prepare if main has the work.
Fetch(w) ==
    /\ job[w].pc = "queued"
    /\ MayPush
    /\ LET works == {v \in Work : Merged(Len(main)) < v /\ v <= w}
       IN  IF works = {} THEN job' = [job EXCEPT ![w].pc = "checking"]
           ELSE IF \E v \in works : Ambiguous(v) THEN job' = [job EXCEPT ![w].pc = "ended"]
           ELSE job' = [job EXCEPT ![w].pc = "fetched",
                                   ![w].base = Len(main),
                                   ![w].label = HighestLabel(works)]
    /\ UNCHANGED <<source, calm, staging, head, prs, passed, main, rel>>

\* main and the staging tip are merged, and the branch is force-pushed.
PushHead(w) ==
    /\ job[w].pc = "fetched"
    /\ head' = [work |-> w, base |-> job[w].base]
    /\ job' = [job EXCEPT ![w].pc = "pushed"]
    /\ UNCHANGED <<source, calm, staging, prs, passed, main, rel>>

\* The open pull request, if there is one, is refreshed.
FindPR(w) ==
    /\ job[w].pc = "pushed"
    /\ IF OpenPRs = {}
       THEN job' = [job EXCEPT ![w].pc = "creating"]
       ELSE \E p \in OpenPRs : job' = [job EXCEPT ![w].pc = "editing", ![w].pr = p,
                                                  ![w].rest = Parts \ {job[w].label}]
    /\ UNCHANGED <<source, calm, staging, head, prs, passed, main, rel>>

\* The other labels are removed one call after the other, from the lowest to the highest.
\* A call that fails is passed over (|| true).
RemoveLabel(w) ==
    /\ job[w].pc = "editing"
    /\ \E l \in job[w].rest :
        /\ \A k \in job[w].rest : Impact(l) <= Impact(k)
        /\ \/ prs' = [prs EXCEPT ![job[w].pr].labels = @ \ {l}]
           \/ UNCHANGED prs
        /\ job' = [job EXCEPT ![w].rest = @ \ {l}]
    /\ UNCHANGED <<source, calm, staging, head, passed, main, rel>>

\* Then this job's label is added.
AddLabel(w) ==
    /\ job[w].pc = "editing"
    /\ job[w].rest = {}
    /\ prs' = [prs EXCEPT ![job[w].pr].labels = @ \union {job[w].label}]
    /\ job' = [job EXCEPT ![w].pc = "checking"]
    /\ UNCHANGED <<source, calm, staging, head, passed, main, rel>>

\* gh pr create opens a pull request, which it labels by a call of its own.  It fails if
\* the branch is gone, or has an open pull request by now.
CreatePR(w) ==
    /\ job[w].pc = "creating"
    /\ IF OpenPRs = {} /\ head # NoHead
       THEN /\ prs' = Append(prs, [open |-> TRUE, labels |-> {}])
            /\ job' = [job EXCEPT ![w].pc = "editing", ![w].pr = Len(prs'), ![w].rest = {}]
       ELSE job' = [job EXCEPT ![w].pc = "ended"] /\ UNCHANGED prs
    /\ UNCHANGED <<source, calm, staging, head, passed, main, rel>>

\* The checks are about whatever head the branch has by now.
StartChecks(w) ==
    /\ job[w].pc = "checking"
    /\ IF OpenPRs = {} \/ head = NoHead
       THEN job' = [job EXCEPT ![w].pc = "ended"]
       ELSE \E p \in OpenPRs :
               job' = [job EXCEPT ![w].pc = "reporting", ![w].pr = p, ![w].head = head]
    /\ UNCHANGED <<source, calm, staging, head, prs, passed, main, rel>>

\* A bug: ancestry is not looked at.
AnyHead(h, work, n) == h # NoHead

\* git merge-base --is-ancestor: the head contains a work and the first n commits of main.
Contains(h, work, n) == work <= h.work /\ n <= h.base

\* release-prep: one label, and the tips of staging and main in the head.
Prepared(h, p) ==
    /\ Cardinality(prs[p].labels) = 1
    /\ Contains(h, staging, Len(main))

\* unit, parity and security may fail for reasons of their own.
Report(w) ==
    /\ job[w].pc = "reporting"
    /\ \E green \in BOOLEAN :
        passed' = IF green /\ Prepared(job[w].head, job[w].pr)
                  THEN passed \union {job[w].head} ELSE passed \ {job[w].head}
    /\ job' = [job EXCEPT ![w].pc = "ended"]
    /\ UNCHANGED <<source, calm, staging, head, prs, main, rel>>

Commit(work, pr) == [work |-> work, pr |-> pr, tag |-> NoVersion]

\* Branch protection: the checks of the head are green, and it is up to date.  The branch
\* is deleted by the merge.
Merge ==
    /\ MayPush
    /\ Len(main) < MaxMain
    /\ head \in passed
    /\ Contains(head, 0, Len(main))
    /\ \E p \in OpenPRs :
        /\ prs' = [prs EXCEPT ![p].open = FALSE]
        /\ main' = Append(main, Commit(Max({head.work, Merged(Len(main))}), p))
    /\ rel' = [rel EXCEPT ![Len(main')].pc = "queued"]
    /\ head' = NoHead
    /\ UNCHANGED <<source, calm, staging, passed, job>>

\* An administrator repairs main; its release job finds no promotion.
Repair ==
    /\ MayPush
    /\ Len(main) < MaxMain
    /\ main' = Append(main, Commit(Merged(Len(main)), 0))
    /\ rel' = [rel EXCEPT ![Len(main')].pc = "ignored"]
    /\ UNCHANGED <<source, calm, staging, head, prs, passed, job>>

Tagged(n) == {m \in 1..n : main[m].tag # NoVersion}

\* A bug: there is no version to start from.
NoPreviousTag(n) == IF Tagged(n) = {} THEN << >> ELSE main[Max(Tagged(n))].tag

\* A bug: the oldest tag.
OldestTag(n) == IF Tagged(n) = {} THEN NoVersion ELSE main[Min(Tagged(n))].tag

\* git describe: the nearest tag on the history, 0.0.0 when there is none.
PreviousTag(n) == IF Tagged(n) = {} THEN NoVersion ELSE main[Max(Tagged(n))].tag

\* The checkout brings the tags there are by now.
CheckOut(m) ==
    /\ rel[m].pc = "queued"
    /\ rel' = [rel EXCEPT ![m].pc = "read", ![m].seen = PreviousTag(m - 1)]
    /\ UNCHANGED <<source, calm, staging, head, prs, passed, main, job>>

\* The merged pull request must have one label by now.
Resolve(m) ==
    /\ rel[m].pc = "read"
    /\ LET labels == prs[main[m].pr].labels
       IN  IF Cardinality(labels) = 1
           THEN \E l \in labels :
                   rel' = [rel EXCEPT ![m].pc = "resolved", ![m].version = Bump(rel[m].seen, l)]
           ELSE rel' = [rel EXCEPT ![m].pc = "failed"]
    /\ UNCHANGED <<source, calm, staging, head, prs, passed, main, job>>

Released(v) == \E m \in DOMAIN main : main[m].tag = v

\* Stop if the release already exists.
View(m) ==
    /\ rel[m].pc = "resolved"
    /\ rel' = [rel EXCEPT ![m].pc = IF Released(rel[m].version) THEN "skipped" ELSE "building"]
    /\ UNCHANGED <<source, calm, staging, head, prs, passed, main, job>>

\* A bug: a release that exists by now is made again.
PublishAgain(m) ==
    /\ rel[m].pc = "building"
    /\ main' = [main EXCEPT ![m].tag = rel[m].version]
    /\ rel' = [rel EXCEPT ![m].pc = "published"]
    /\ UNCHANGED <<source, calm, staging, head, prs, passed, job>>

\* The tests are run again; gh release create fails on a release that exists by now.
Publish(m) ==
    /\ rel[m].pc = "building"
    /\ \/ /\ ~Released(rel[m].version)
          /\ main' = [main EXCEPT ![m].tag = rel[m].version]
          /\ rel' = [rel EXCEPT ![m].pc = "published"]
       \/ /\ rel' = [rel EXCEPT ![m].pc = "failed"]
          /\ UNCHANGED main
    /\ UNCHANGED <<source, calm, staging, head, prs, passed, job>>

Promote(w) ==
    \/ Fetch(w) \/ PushHead(w) \/ FindPR(w) \/ RemoveLabel(w) \/ AddLabel(w) \/ CreatePR(w)
    \/ StartChecks(w) \/ Report(w)

Release(m) == CheckOut(m) \/ Resolve(m) \/ View(m) \/ Publish(m)

\* A job that breaks off takes no more steps.  It has not ended, so that nothing is pushed
\* after it on calm days: those are days on which jobs end.
Next ==
    \/ PushStaging \/ Merge \/ Repair
    \/ \E w \in Work : Promote(w)
    \/ \E m \in DOMAIN main : Release(m)

Spec == Init /\ [][Next]_vars

--------------------------------------------------------------------------------

Promotions == {m \in DOMAIN main : main[m].pr # 0}

\* However jobs overlap and force-push over each other, no stale head is merged: every
\* promotion brings main work it did not have (promotion.yml:122-126, 253-254, the strict
\* checks of CONTRIBUTING.md:93).
PromotionsAdvance == \A m \in Promotions : main[m].work > Merged(m - 1)

\* No two commits of main are released under one version (release.yml:66-98).
VersionsUnique ==
    \A m, n \in DOMAIN main : main[m].tag # NoVersion /\ main[m].tag = main[n].tag => m = n

\* The works a promotion brings to main.
Brought(m) == {w \in Work : Merged(m - 1) < w /\ w <= main[m].work}

\* "applies the highest impact it finds" (CONTRIBUTING.md:68): a promotion has one label,
\* that of the highest impact among the works it brings.
LabelsHighest ==
    \A m \in Promotions :
        \E l \in Parts :
            /\ prs[main[m].pr].labels = {l}
            /\ Impact(l) = Max({Impact(LabelOf(w)) : w \in Brought(m)})

\* On calm days it has, even if the removal of old labels fails: what has two labels is not
\* merged (promotion.yml:143-148, release-prep).
HighestImpact == calm => LabelsHighest

\* On calm days the versions along main only go up (release.yml:59-62).
VersionsRise ==
    calm => \A m, n \in DOMAIN main :
        m < n /\ main[m].tag # NoVersion /\ main[n].tag # NoVersion =>
            Precedes(main[m].tag, main[n].tag)

\* "The merge creates the next semantic-version tag and GitHub Release." (CONTRIBUTING.md):
\* no promotion is passed over because another one took its version.
EveryMergeReleased == \A m \in Promotions : rel[m].pc # "skipped"
================================================================================
