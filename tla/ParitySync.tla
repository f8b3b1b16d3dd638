------------------------------ MODULE ParitySync ------------------------------
(***************************************************************************)
(* The parity tool of scripts/parity: "sync" copies the schema families and *)
(* the golden inventory of zoom-sdk-python into internal/parity, "sync     *)
(* --check" compares them, "verify" looks into the golden inventory.       *)
(*                                                                         *)
(* One command runs at a time, and the checkout it reads is left alone     *)
(* while it does.  Any step may fail, and the process may be killed between *)
(* any two: a file being written then stays torn, and a tree being removed *)
(* or copied stays as it is.                                               *)
(***************************************************************************)
EXTENDS Integers, Sequences

CONSTANTS
    NFamilies,  \* schema families: endpoints, master_accounts, webhooks
    Paths,      \* paths below a family's directory, itself the empty one
    Contents,   \* what a file may hold
    Complete,   \* those a golden inventory with all required operations may hold
    Checkouts   \* the states zoom-sdk-python may be in

Root == << >>
Parent(p) == SubSeq(p, 1, Len(p) - 1)

Families == 1..NFamilies
Files == Contents \union {"torn"}

\* What is at each path of a family; only a directory has anything below it.
Trees ==
    {t \in [Paths -> Files \union {"absent", "dir"}] :
        \A p \in Paths \ {Root} : t[p] # "absent" => t[Parent(p)] = "dir"}

ASSUME ParityAssumption ==
    /\ NFamilies \in Nat \ {0}
    /\ \A p \in Paths : Len(p) \in Nat
    /\ \A p \in Paths \ {Root} : Parent(p) \in Paths /\ Len(Parent(p)) < Len(p)
    /\ Root \in Paths
    /\ {"absent", "dir", "torn"} \intersect Contents = {}
    /\ Complete \subseteq Contents
    /\ \A c \in Checkouts :
        /\ c.there \in BOOLEAN
        /\ c.family \in [Families -> Trees]
        /\ c.golden \in Contents \union {"absent"}
        /\ \A f \in Families : \A p \in Paths : c.family[f][p] # "torn"

VARIABLES
    source,     \* the checkout of zoom-sdk-python
    target,     \* the families under internal/parity/schemas
    golden,     \* internal/parity/golden/sdk_public_surface.json
    pc,         \* where the command is
    fam,        \* the family it is at
    seen,       \* the paths of that family its walk has dealt with
    drift,      \* whether the comparison has found a difference
    outcome     \* what the last command reported, if source is still as it was

vars == <<source, target, golden, pc, fam, seen, drift, outcome>>

TypeOK ==
    /\ source \in Checkouts
    /\ target \in [Families -> Trees]
    /\ golden \in Files \union {"absent"}
    /\ pc \in {"idle", "removing", "copying", "golden", "writing", "comparing"}
    /\ fam \in Families
    /\ seen \subseteq Paths
    /\ drift \in BOOLEAN
    /\ outcome \in {"none", "failed", "synced", "clean", "drift", "verified"}

\* Nothing is known of what earlier commands, crashes and hands have left.
Init ==
    /\ source \in Checkouts
    /\ target \in [Families -> Trees]
    /\ golden \in Files \union {"absent"}
    /\ pc = "idle"
    /\ fam = 1
    /\ seen = {}
    /\ drift = FALSE
    /\ outcome = "none"

--------------------------------------------------------------------------------

\* Somebody works on zoom-sdk-python.
Edit ==
    /\ pc = "idle"
    /\ source' \in Checkouts
    /\ outcome' = "none"
    /\ UNCHANGED <<target, golden, pc, fam, seen, drift>>

\* parityPaths: without a checkout neither command does anything.
Refuse ==
    /\ pc = "idle"
    /\ ~source.there
    /\ outcome' = "failed"
    /\ UNCHANGED <<source, target, golden, pc, fam, seen, drift>>

\* A command starts with the first family.
Start(first) ==
    /\ pc = "idle"
    /\ source.there
    /\ pc' = first
    /\ fam' = 1
    /\ seen' = {}
    /\ drift' = FALSE
    /\ outcome' = "none"
    /\ UNCHANGED <<source, target, golden>>

\* verifyVendoredParity
Verify ==
    /\ pc = "idle"
    /\ outcome' = IF golden \in Complete THEN "verified" ELSE "failed"
    /\ UNCHANGED <<source, target, golden, pc, fam, seen, drift>>

--------------------------------------------------------------------------------

From(p) == source.family[fam][p]
To(p) == target[fam][p]

Put(p, node) == target' = [target EXCEPT ![fam][p] = node]

\* A bug: a directory goes before what is below it.
RemoveTopFirst(p) ==
    /\ pc = "removing"
    /\ To(p) # "absent"
    /\ Put(p, "absent")
    /\ UNCHANGED <<source, golden, pc, fam, seen, drift, outcome>>

\* os.RemoveAll takes what is below a directory before the directory.
Remove(p) ==
    /\ pc = "removing"
    /\ To(p) # "absent"
    /\ \A q \in Paths \ {Root} : Parent(q) = p => To(q) = "absent"
    /\ Put(p, "absent")
    /\ UNCHANGED <<source, golden, pc, fam, seen, drift, outcome>>

\* A bug: what is in the way is not removed.
MakeDirOnly ==
    /\ pc = "removing"
    /\ To(Root) \in {"absent", "dir"}
    /\ Put(Root, "dir")
    /\ pc' = "copying"
    /\ UNCHANGED <<source, golden, fam, seen, drift, outcome>>

MakeDir ==
    /\ pc = "removing"
    /\ To(Root) = "absent"
    /\ Put(Root, "dir")
    /\ pc' = "copying"
    /\ UNCHANGED <<source, golden, fam, seen, drift, outcome>>

\* os.CopyFS walks the source, a directory before what it lists.
ToCopy(p) ==
    /\ pc = "copying"
    /\ p \notin seen
    /\ p # Root => Parent(p) \in seen
    /\ From(p) # "absent"

Open(p) == p \notin seen /\ To(p) = "torn"

CopyDir(p) ==
    /\ ToCopy(p)
    /\ From(p) = "dir"
    /\ \A q \in Paths : ~Open(q)
    /\ Put(p, "dir")
    /\ seen' = seen \union {p}
    /\ UNCHANGED <<source, golden, pc, fam, drift, outcome>>

\* The root of a family must be a directory; a file must not exist yet.
CreateFile(p) ==
    /\ ToCopy(p)
    /\ p # Root
    /\ From(p) \in Contents
    /\ To(p) = "absent"
    /\ \A q \in Paths : ~Open(q)
    /\ Put(p, "torn")
    /\ UNCHANGED <<source, golden, pc, fam, seen, drift, outcome>>

WriteFile(p) ==
    /\ ToCopy(p)
    /\ Open(p)
    /\ Put(p, From(p))
    /\ seen' = seen \union {p}
    /\ UNCHANGED <<source, golden, pc, fam, drift, outcome>>

\* A bug: the loop copies the same family again.
FamilyCopiedAgain ==
    /\ Root \in seen
    /\ \A p \in Paths : ~ToCopy(p)
    /\ pc = "copying"
    /\ pc' = "removing"
    /\ seen' = {}
    /\ UNCHANGED <<source, target, golden, fam, drift, outcome>>

\* The walk is over: the next family, or the golden inventory.
FamilyCopied ==
    /\ Root \in seen
    /\ \A p \in Paths : ~ToCopy(p)
    /\ pc = "copying"
    /\ IF fam < NFamilies
       THEN pc' = "removing" /\ fam' = fam + 1
       ELSE pc' = "golden" /\ UNCHANGED fam
    /\ seen' = {}
    /\ UNCHANGED <<source, target, golden, drift, outcome>>

\* copyFile reads the source, and os.WriteFile truncates the target before it writes.
Truncate ==
    /\ pc = "golden"
    /\ source.golden # "absent"
    /\ golden' = "torn"
    /\ pc' = "writing"
    /\ UNCHANGED <<source, target, fam, seen, drift, outcome>>

WriteGolden ==
    /\ pc = "writing"
    /\ golden' = source.golden
    /\ pc' = "idle"
    /\ outcome' = "synced"
    /\ UNCHANGED <<source, target, fam, seen, drift>>

Sync ==
    \/ MakeDir \/ FamilyCopied \/ Truncate \/ WriteGolden
    \/ \E p \in Paths : Remove(p) \/ CopyDir(p) \/ CreateFile(p) \/ WriteFile(p)

--------------------------------------------------------------------------------

\* compareTrees takes the names of both directories; one that is missing has none.
ToCompare(p) ==
    /\ pc = "comparing"
    /\ p \notin seen
    /\ p # Root => /\ Parent(p) \in seen
                   /\ Parent(p) # Root => From(Parent(p)) = "dir" /\ To(Parent(p)) = "dir"
                   /\ From(p) # "absent" \/ To(p) # "absent"

\* A bug: names that only the target has are not looked at.
DiffersInSource(p) == p # Root /\ From(p) # "absent" /\ From(p) # To(p)

\* A name only one side has, a directory against a file, or two files that differ.
Differs(p) == p # Root /\ From(p) # To(p)

\* os.ReadDir fails on a root that is a file.
Compare(p) ==
    /\ ToCompare(p)
    /\ p = Root => {From(p), To(p)} \subseteq {"absent", "dir"}
    /\ drift' = (drift \/ Differs(p))
    /\ seen' = seen \union {p}
    /\ UNCHANGED <<source, target, golden, pc, fam, outcome>>

FamilyCompared ==
    /\ Root \in seen
    /\ \A p \in Paths : ~ToCompare(p)
    /\ pc = "comparing"
    /\ fam < NFamilies
    /\ fam' = fam + 1
    /\ seen' = {}
    /\ UNCHANGED <<source, target, golden, pc, drift, outcome>>

\* filesEqual: a missing file is like no other.
GoldenEqual == golden = source.golden /\ golden # "absent"

Report ==
    /\ Root \in seen
    /\ \A p \in Paths : ~ToCompare(p)
    /\ pc = "comparing"
    /\ fam = NFamilies
    /\ pc' = "idle"
    /\ outcome' = IF drift \/ ~GoldenEqual THEN "drift" ELSE "clean"
    /\ UNCHANGED <<source, target, golden, fam, seen, drift>>

Check == FamilyCompared \/ Report \/ \E p \in Paths : Compare(p)

--------------------------------------------------------------------------------

\* A step returns an error, or the process is killed.
Abort ==
    /\ pc # "idle"
    /\ pc' = "idle"
    /\ outcome' = "failed"
    /\ UNCHANGED <<source, target, golden, fam, seen, drift>>

Next ==
    \/ Edit \/ Refuse \/ Verify \/ Sync \/ Check \/ Abort
    \/ \E first \in {"removing", "comparing"} : Start(first)

\* A command that can go on does, and one that cannot returns its error.
Fairness == WF_vars(Sync \/ Check \/ Abort)

Spec == Init /\ [][Next]_vars /\ Fairness

--------------------------------------------------------------------------------

\* Whatever a crash, a failed sync or a hand has left behind, a sync that succeeds makes
\* the vendored assets equal to the checkout: nothing torn, missing or left over, no file
\* where a directory belongs (parity.go:39-54, 172-191).
SyncedMeansEqual ==
    outcome = "synced" => target = source.family /\ golden = source.golden

\* "CI verifies that committed assets still match the Python source of truth"
\* (README.md:151): a check passes exactly if every path of every family and the golden
\* inventory are equal, a family without a directory counting as an empty one
\* (parity.go:132-151, 193-253).
CheckIsExact ==
    outcome \in {"clean", "drift"} =>
        (outcome = "clean" <=>
            /\ \A f \in Families : \A p \in Paths \ {Root} : target[f][p] = source.family[f][p]
            /\ GoldenEqual)

\* Wherever a sync stops, the families before the one it is at are whole, and in that one
\* nothing has outlived the removal that the exclusive creation of os.CopyFS would fail on:
\* what the copy has dealt with is right, the rest is missing, but for one torn file
\* (parity.go:45-49, 172-180).
BrokenInOnePlace ==
    /\ pc \in {"removing", "copying"} =>
        \A f \in 1..fam - 1 : target[f] = source.family[f]
    /\ pc = "copying" =>
        /\ \A p \in Paths \ {Root} : IF p \in seen THEN To(p) = From(p)
                                                  ELSE To(p) \in {"absent", "torn"}
        /\ \A p, q \in Paths : To(p) = "torn" /\ To(q) = "torn" => p = q
    /\ pc \in {"golden", "writing"} => target = source.family

\* No command runs forever, however deep the trees are (parity.go:193-236).
CommandEnds == pc # "idle" ~> pc = "idle"
================================================================================
