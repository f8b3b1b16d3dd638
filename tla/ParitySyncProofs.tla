--------------------------- MODULE ParitySyncProofs ---------------------------
(***************************************************************************)
(* What TLAPS proves of ParitySync, for any number of families, any depth  *)
(* of the trees and any contents: a sync that succeeds leaves both sides   *)
(* equal, and a check passes exactly if they are.                          *)
(***************************************************************************)
EXTENDS ParitySync, WellFoundedInduction, TLAPS

\* A command reports nothing while it runs.
Silent == pc # "idle" => outcome = "none"

\* The families before the one a sync is at are copied, and all of them in the end.
Whole ==
    /\ pc \in {"removing", "copying"} => \A f \in 1..fam - 1 : target[f] = source.family[f]
    /\ pc \in {"golden", "writing"} => target = source.family

\* What is in the family a sync is at: where the walk has been the copy, and elsewhere
\* nothing but the file that is being written.
Walked ==
    /\ pc = "removing" => seen = {}
    /\ pc = "copying" =>
        /\ To(Root) = "dir"
        /\ Root \in seen => From(Root) = "dir"
        /\ \A p \in Paths \ {Root} : IF p \in seen THEN To(p) = From(p)
                                                  ELSE To(p) \in {"absent", "torn"}
        /\ \A p \in Paths : To(p) = "torn" => From(p) \in Contents
        /\ \A p, q \in Paths : To(p) = "torn" /\ To(q) = "torn" => p = q

\* What a comparison knows: no drift means equality so far, drift an actual difference.
Compared ==
    pc = "comparing" =>
        /\ Root \in seen => {From(Root), To(Root)} \subseteq {"absent", "dir"}
        /\ drift => \E f \in Families : \E p \in Paths \ {Root} : target[f][p] # source.family[f][p]
        /\ ~drift =>
            /\ \A f \in 1..fam - 1 : \A p \in Paths \ {Root} : target[f][p] = source.family[f][p]
            /\ \A p \in seen \ {Root} : To(p) = From(p)

IInv ==
    /\ TypeOK
    /\ Silent
    /\ Whole
    /\ Walked
    /\ Compared
    /\ SyncedMeansEqual
    /\ CheckIsExact

--------------------------------------------------------------------------------

\* What is assumed of paths, and what it says of their places in the checkout.
LEMMA PathFacts ==
    /\ Root \in Paths
    /\ \A p \in Paths : Len(p) \in Nat
    /\ \A p \in Paths \ {Root} : Parent(p) \in Paths /\ Len(Parent(p)) < Len(p)
BY ParityAssumption DEF ParityAssumption

\* There is a first family.
LEMMA FamilyFacts == NFamilies \in Nat /\ 1 \in Families
BY ParityAssumption DEF ParityAssumption, Families

\* Among paths there is always one whose parent is not among them.
LEMMA HighestPath ==
    ASSUME NEW T \in SUBSET Paths, T # {}
    PROVE  \E p \in T : p = Root \/ Parent(p) \notin T
<1>. DEFINE Less == {ss \in Nat \X Nat : ss[1] < ss[2]}
            Lengths == {Len(p) : p \in T}
<1>1. IsWellFoundedOn(Less, Nat)
  BY NatLessThanWellFounded DEF OpToRel, Less
<1>2. Lengths \subseteq Nat /\ Lengths # {}
  BY PathFacts
<1>3. PICK n \in Lengths : \A m \in Lengths : ~(<<m, n>> \in Less)
  <2>. HIDE DEF Less, Lengths
  <2>. QED BY <1>1, <1>2, WFMin
<1>4. PICK p \in T : Len(p) = n
  BY <1>3
<1>5. SUFFICES ASSUME p # Root, Parent(p) \in T PROVE FALSE
  BY <1>4
<1>6. Len(Parent(p)) \in Lengths /\ Len(Parent(p)) < n /\ n \in Nat
  BY <1>2, <1>3, <1>4, <1>5, PathFacts
<1>7. <<Len(Parent(p)), n>> \in Less
  <2>1. Len(Parent(p)) \in Nat
    BY <1>2, <1>6
  <2>. HIDE DEF Lengths
  <2>. QED BY <1>6, <2>1
<1>. QED BY <1>3, <1>6, <1>7

\* Putting one thing into the family at hand changes that place only.
LEMMA PutOne ==
    ASSUME TypeOK, NEW p \in Paths, NEW node, Put(p, node)
    PROVE  /\ DOMAIN target' = Families
           /\ \A f \in Families \ {fam} : target'[f] = target[f]
           /\ target'[fam] = [target[fam] EXCEPT ![p] = node]
           /\ target'[fam][p] = node
           /\ \A q \in Paths \ {p} : target'[fam][q] = target[fam][q]
BY DEF TypeOK, Put, Trees

\* It leaves trees when the parent is a directory and nothing hangs in the air.
LEMMA PutTree ==
    ASSUME TypeOK, NEW p \in Paths, NEW node \in Files \union {"absent", "dir"}, Put(p, node),
           node # "absent" /\ p # Root => To(Parent(p)) = "dir",
           node # "dir" => \A q \in Paths \ {Root} : Parent(q) = p => To(q) = "absent"
    PROVE  target' \in [Families -> Trees]
<1>1. target'[fam] \in [Paths -> Files \union {"absent", "dir"}]
  <2>1. target[fam] \in [Paths -> Files \union {"absent", "dir"}]
    BY DEF TypeOK, Trees
  <2>2. target'[fam] = [target[fam] EXCEPT ![p] = node]
    BY PutOne
  <2>. QED BY <2>1, <2>2
<1>2. ASSUME NEW q \in Paths \ {Root}, target'[fam][q] # "absent"
      PROVE  target'[fam][Parent(q)] = "dir"
  <2>1. Parent(q) \in Paths /\ Parent(q) # q
    BY PathFacts
  <2>2. CASE q = p
    BY <1>2, <2>1, <2>2, PutOne DEF To
  <2>3. CASE q # p
    <3>1. target[fam][q] # "absent" /\ target[fam] \in Trees
      BY <1>2, <2>3, PutOne DEF TypeOK
    <3>2. target[fam][Parent(q)] = "dir"
      BY <3>1 DEF Trees
    <3>3. Parent(q) = p => node = "dir"
      BY <3>1 DEF To
    <3>. QED BY <2>1, <3>2, <3>3, PutOne
  <2>. QED BY <2>2, <2>3
<1>3. target'[fam] \in Trees
  BY <1>1, <1>2 DEF Trees
<1>4. target' = [f \in Families |-> target'[f]]
  BY DEF TypeOK, Put
<1>. QED BY <1>3, <1>4, PutOne DEF TypeOK

\* What is in a tree has its parent there, as a directory.
LEMMA ParentIsDir ==
    ASSUME NEW t \in Trees, NEW p \in Paths \ {Root}, t[p] # "absent"
    PROVE  Parent(p) \in Paths /\ t[Parent(p)] = "dir"
BY PathFacts DEF Trees

\* A tree without its root has nothing in it.
LEMMA NoRootNothing ==
    ASSUME NEW t \in Trees, t[Root] = "absent"
    PROVE  \A p \in Paths : t[p] = "absent"
<1>. DEFINE T == {p \in Paths : t[p] # "absent"}
<1>1. SUFFICES ASSUME T # {} PROVE FALSE
  OBVIOUS
<1>2. PICK p \in T : p = Root \/ Parent(p) \notin T
  <2>. HIDE DEF T
  <2>1. T \subseteq Paths
    BY DEF T
  <2>. QED BY <1>1, <2>1, HighestPath
<1>. QED BY <1>2, ParentIsDir

--------------------------------------------------------------------------------

\* Copying a path is in order: its parent has been made, and there is nothing below it.
LEMMA CopyInOrder ==
    ASSUME TypeOK, Walked, NEW p \in Paths, ToCopy(p)
    PROVE  /\ p # Root => To(Parent(p)) = "dir" /\ From(p) # "absent"
           /\ p # Root => To(p) \in {"absent", "torn"}
           /\ p # Root => \A q \in Paths \ {Root} : Parent(q) = p => To(q) = "absent"
<1>. SUFFICES ASSUME p # Root
     PROVE  /\ To(Parent(p)) = "dir" /\ From(p) # "absent" /\ To(p) \in {"absent", "torn"}
            /\ \A q \in Paths \ {Root} : Parent(q) = p => To(q) = "absent"
  OBVIOUS
<1>1. source.family[fam] \in Trees /\ target[fam] \in Trees
  BY ParityAssumption DEF ParityAssumption, TypeOK
<1>2. From(Parent(p)) = "dir" /\ Parent(p) \in Paths
  BY <1>1, ParentIsDir DEF From, ToCopy
<1>3. To(Parent(p)) = "dir"
  BY <1>2 DEF Walked, ToCopy
<1>4. To(p) \in {"absent", "torn"}
  BY DEF Walked, ToCopy
<1>5. \A q \in Paths \ {Root} : Parent(q) = p => To(q) = "absent"
  BY <1>1, <1>4, ParentIsDir DEF To
<1>. QED BY <1>3, <1>4, <1>5 DEF ToCopy

\* Types are kept: what is put and removed leaves trees.
LEMMA TypeStep ==
    ASSUME TypeOK, Walked, [Next]_vars
    PROVE  TypeOK'
<1>1. CASE Edit \/ Refuse \/ Verify
  BY <1>1 DEF Edit, Refuse, Verify, TypeOK
<1>2. CASE \E first \in {"removing", "comparing"} : Start(first)
  BY <1>2, FamilyFacts DEF Start, TypeOK
<1>3. ASSUME NEW p \in Paths, Remove(p) PROVE TypeOK'
  <2>1. target' \in [Families -> Trees]
    BY <1>3, PutTree DEF Remove
  <2>. QED BY <1>3, <2>1 DEF Remove, TypeOK
<1>4. CASE MakeDir
  <2>1. target' \in [Families -> Trees]
    BY <1>4, PutTree, PathFacts DEF MakeDir
  <2>. QED BY <1>4, <2>1 DEF MakeDir, TypeOK
<1>5. ASSUME NEW p \in Paths, CopyDir(p) PROVE TypeOK'
  <2>1. target' \in [Families -> Trees]
    BY <1>5, PutTree, CopyInOrder DEF CopyDir
  <2>. QED BY <1>5, <2>1 DEF CopyDir, TypeOK
<1>6. ASSUME NEW p \in Paths, CreateFile(p) PROVE TypeOK'
  <2>1. target' \in [Families -> Trees]
    BY <1>6, PutTree, CopyInOrder DEF CreateFile, Files
  <2>. QED BY <1>6, <2>1 DEF CreateFile, TypeOK
<1>7. ASSUME NEW p \in Paths, WriteFile(p) PROVE TypeOK'
  <2>1. p # Root /\ From(p) \in Contents
    <3>1. pc = "copying" /\ To(p) = "torn"
      BY <1>7 DEF WriteFile, Open, ToCopy
    <3>2. To(Root) = "dir" /\ From(p) \in Contents
      BY <3>1 DEF Walked
    <3>. QED BY <3>1, <3>2
  <2>2. target' \in [Families -> Trees]
    BY <1>7, <2>1, PutTree, CopyInOrder DEF WriteFile, Files
  <2>. QED BY <1>7, <2>2 DEF WriteFile, TypeOK
<1>8. CASE FamilyCopied
  BY <1>8, ParityAssumption DEF ParityAssumption, FamilyCopied, TypeOK, Families
<1>9. CASE Truncate
  BY <1>9 DEF Truncate, TypeOK, Files
<1>10. CASE WriteGolden
  BY <1>10, ParityAssumption DEF ParityAssumption, WriteGolden, TypeOK, Files
<1>11. ASSUME NEW p \in Paths, Compare(p) PROVE TypeOK'
  BY <1>11 DEF Compare, TypeOK, Differs
<1>12. CASE FamilyCompared
  BY <1>12, ParityAssumption DEF ParityAssumption, FamilyCompared, TypeOK, Families
<1>13. CASE Report \/ Abort
  BY <1>13 DEF Report, Abort, TypeOK
<1>14. CASE UNCHANGED vars
  BY <1>14 DEF vars, TypeOK
<1>. QED BY <1>1, <1>2, <1>3, <1>4, <1>5, <1>6, <1>7, <1>8, <1>9, <1>10, <1>11, <1>12, <1>13, <1>14
         DEF Next, Sync, Check

\* No command reports before its last step.
LEMMA SilentStep ==
    ASSUME Silent, [Next]_vars
    PROVE  Silent'
BY DEF Silent, Next, vars, Edit, Refuse, Verify, Start, Sync, Check, Abort, Remove, MakeDir,
       CopyDir, CreateFile, WriteFile, FamilyCopied, Truncate, WriteGolden, Compare,
       FamilyCompared, Report, ToCopy, ToCompare

\* When the walk of the source is over, the family is as it is there.
LEMMA WalkOver ==
    ASSUME TypeOK, Walked, FamilyCopied
    PROVE  target[fam] = source.family[fam]
<1>. DEFINE Left == {p \in Paths : p \notin seen /\ From(p) # "absent"}
<1>1. source.family[fam] \in Trees /\ target[fam] \in Trees
  BY ParityAssumption DEF ParityAssumption, TypeOK
<1>2. Left = {}
  <2>1. SUFFICES ASSUME Left # {} PROVE FALSE
    OBVIOUS
  <2>2. PICK p \in Left : p = Root \/ Parent(p) \notin Left
    <3>1. Left \subseteq Paths
      OBVIOUS
    <3>. HIDE DEF Left
    <3>. QED BY <2>1, <3>1, HighestPath
  <2>3. p # Root
    BY DEF FamilyCopied
  <2>4. Parent(p) \in Paths /\ From(Parent(p)) = "dir"
    BY <1>1, <2>3, ParentIsDir DEF From
  <2>5. Parent(p) \in seen
    BY <2>2, <2>3, <2>4
  <2>. QED BY <2>5, <2>2 DEF FamilyCopied, ToCopy
<1>3. ASSUME NEW p \in Paths PROVE To(p) = From(p)
  <2>0. pc = "copying" /\ Root \in seen
    BY DEF FamilyCopied
  <2>1. CASE p = Root
    BY <2>0, <2>1 DEF Walked
  <2>2. CASE p # Root /\ p \in seen
    BY <2>0, <2>2 DEF Walked
  <2>3. CASE p # Root /\ p \notin seen
    <3>1. From(p) = "absent"
      BY <1>2, <2>3
    <3>2. To(p) \in {"absent", "torn"}
      BY <2>0, <2>3 DEF Walked
    <3>3. To(p) = "torn" => From(p) \in Contents
      BY <2>0 DEF Walked
    <3>. QED BY <3>1, <3>2, <3>3, ParityAssumption DEF ParityAssumption
  <2>. QED BY <2>1, <2>2, <2>3
<1>. QED BY <1>1, <1>3 DEF To, From, Trees

\* A family is left only when it is whole, and stays so.
LEMMA WholeStep ==
    ASSUME TypeOK, Walked, Whole, [Next]_vars
    PROVE  Whole'
<1>. USE DEF Whole
<1>1. CASE Edit \/ Refuse \/ Verify \/ Abort
  BY <1>1 DEF Edit, Refuse, Verify, Abort
<1>2. CASE \E first \in {"removing", "comparing"} : Start(first)
  BY <1>2 DEF Start
<1>3. ASSUME NEW p \in Paths, NEW node, Put(p, node), pc \in {"removing", "copying"},
             pc' \in {"removing", "copying"}, UNCHANGED <<source, fam>>
      PROVE  Whole'
  <2>1. \A f \in 1..fam - 1 : f \in Families \ {fam}
    BY ParityAssumption DEF ParityAssumption, TypeOK, Families
  <2>. QED BY <1>3, <2>1, PutOne
<1>4. ASSUME NEW p \in Paths, Remove(p) \/ CopyDir(p) \/ CreateFile(p) \/ WriteFile(p)
      PROVE  Whole'
  BY <1>3, <1>4 DEF Remove, CopyDir, CreateFile, WriteFile, ToCopy
<1>5. CASE MakeDir
  BY <1>3, <1>5, PathFacts DEF MakeDir
<1>6. CASE FamilyCopied
  <2>1. \A f \in 1..fam : target[f] = source.family[f]
    <3>1. \A f \in 1..fam - 1 : target[f] = source.family[f]
      BY <1>6 DEF FamilyCopied
    <3>. QED BY <1>6, <3>1, WalkOver, ParityAssumption DEF ParityAssumption, TypeOK, Families
  <2>2. CASE fam < NFamilies
    BY <1>6, <2>1, <2>2, ParityAssumption DEF ParityAssumption, FamilyCopied, TypeOK, Families
  <2>3. CASE ~(fam < NFamilies)
    <3>1. fam = NFamilies
      BY <2>3, ParityAssumption DEF ParityAssumption, TypeOK, Families
    <3>2. source.family \in [Families -> Trees]
      BY ParityAssumption DEF ParityAssumption, TypeOK
    <3>3. target = source.family
      BY <2>1, <3>1, <3>2 DEF TypeOK, Families
    <3>. QED BY <1>6, <2>3, <3>3 DEF FamilyCopied
  <2>. QED BY <2>2, <2>3
<1>7. CASE Truncate \/ WriteGolden
  BY <1>7 DEF Truncate, WriteGolden
<1>8. CASE Check
  BY <1>8 DEF Check, Compare, ToCompare, FamilyCompared, Report
<1>9. CASE UNCHANGED vars
  BY <1>9 DEF vars
<1>. QED BY <1>1, <1>2, <1>4, <1>5, <1>6, <1>7, <1>8, <1>9 DEF Next, Sync

\* The copy follows the walk, one file at a time.
LEMMA WalkedStep ==
    ASSUME TypeOK, Walked, [Next]_vars
    PROVE  Walked'
<1>. USE DEF To, From
<1>1. CASE Edit \/ Refuse \/ Verify \/ Abort \/ Truncate \/ WriteGolden
  BY <1>1 DEF Walked, Edit, Refuse, Verify, Abort, Truncate, WriteGolden
<1>2. CASE \E first \in {"removing", "comparing"} : Start(first)
  BY <1>2 DEF Walked, Start
<1>3. ASSUME NEW p \in Paths, Remove(p) PROVE Walked'
  BY <1>3 DEF Walked, Remove
<1>4. CASE MakeDir
  <2>1. \A p \in Paths : target[fam][p] = "absent"
    BY <1>4, NoRootNothing DEF MakeDir, TypeOK
  <2>2. target'[fam][Root] = "dir" /\ \A p \in Paths \ {Root} : target'[fam][p] = "absent"
    BY <1>4, <2>1, PutOne, PathFacts DEF MakeDir
  <2>3. pc' = "copying" /\ seen' = {} /\ UNCHANGED fam
    BY <1>4 DEF MakeDir, Walked
  <2>. QED BY <2>2, <2>3 DEF Walked
<1>5. ASSUME NEW p \in Paths, CopyDir(p) PROVE Walked'
  <2>1. /\ target'[fam][p] = "dir" /\ \A q \in Paths \ {p} : target'[fam][q] = target[fam][q]
        /\ UNCHANGED <<source, fam, pc>> /\ seen' = seen \union {p} /\ pc = "copying"
        /\ source.family[fam][p] = "dir"
    BY <1>5, PutOne DEF CopyDir, ToCopy
  <2>2. \A q \in Paths : target'[fam][q] = "torn" => q # p /\ target[fam][q] = "torn"
    BY <2>1
  <2>3. target'[fam][Root] = "dir" /\ (Root \in seen' => source.family[fam][Root] = "dir")
    BY <2>1, PathFacts DEF Walked
  <2>4. \A q \in Paths \ {Root} : IF q \in seen' THEN target'[fam][q] = source.family[fam][q]
                                                ELSE target'[fam][q] \in {"absent", "torn"}
    BY <2>1 DEF Walked
  <2>. QED BY <2>1, <2>2, <2>3, <2>4 DEF Walked
<1>6. ASSUME NEW p \in Paths, CreateFile(p) PROVE Walked'
  <2>1. /\ target'[fam][p] = "torn" /\ \A q \in Paths \ {p} : target'[fam][q] = target[fam][q]
        /\ UNCHANGED <<source, fam, pc, seen>> /\ pc = "copying" /\ p # Root /\ p \notin seen
        /\ source.family[fam][p] \in Contents
    BY <1>6, PutOne DEF CreateFile, ToCopy
  <2>2. \A q \in Paths : target[fam][q] # "torn"
    <3>1. ASSUME NEW q \in Paths, target[fam][q] = "torn" PROVE FALSE
      <4>1. q # Root /\ q \in seen
        BY <1>6, <2>1, <3>1 DEF Walked, CreateFile, Open
      <4>2. source.family[fam][q] = "torn"
        BY <2>1, <3>1, <4>1 DEF Walked
      <4>. QED BY <4>2, ParityAssumption DEF ParityAssumption, TypeOK
    <3>. QED BY <3>1
  <2>. QED BY <2>1, <2>2, PathFacts DEF Walked
<1>7. ASSUME NEW p \in Paths, WriteFile(p) PROVE Walked'
  <2>1. /\ target'[fam][p] = source.family[fam][p]
        /\ \A q \in Paths \ {p} : target'[fam][q] = target[fam][q]
        /\ UNCHANGED <<source, fam, pc>> /\ seen' = seen \union {p} /\ pc = "copying"
        /\ target[fam][p] = "torn"
    BY <1>7, PutOne DEF WriteFile, Open, ToCopy
  <2>2. target[fam][Root] = "dir" /\ p # Root
    BY <2>1 DEF Walked
  <2>3. source.family[fam][p] # "torn"
    BY ParityAssumption DEF ParityAssumption, TypeOK
  <2>. QED BY <2>1, <2>2, <2>3, PathFacts DEF Walked
<1>8. CASE FamilyCopied
  BY <1>8 DEF Walked, FamilyCopied
<1>9. CASE Check
  BY <1>9 DEF Walked, Check, Compare, ToCompare, FamilyCompared, Report
<1>10. CASE UNCHANGED vars
  BY <1>10 DEF Walked, vars
<1>. QED BY <1>1, <1>2, <1>3, <1>4, <1>5, <1>6, <1>7, <1>8, <1>9, <1>10 DEF Next, Sync

\* When a comparison without drift is over, the family is equal below its root.
LEMMA ComparisonOver ==
    ASSUME TypeOK, Compared, pc = "comparing", ~drift,
           Root \in seen, \A p \in Paths : ~ToCompare(p)
    PROVE  \A p \in Paths \ {Root} : To(p) = From(p)
<1>. DEFINE Left == {p \in Paths \ {Root} : p \notin seen /\ (From(p) # "absent" \/ To(p) # "absent")}
<1>1. source.family[fam] \in Trees /\ target[fam] \in Trees
  BY ParityAssumption DEF ParityAssumption, TypeOK
<1>2. Left = {}
  <2>1. SUFFICES ASSUME Left # {} PROVE FALSE
    OBVIOUS
  <2>2. PICK p \in Left : Parent(p) \notin Left
    <3>1. Left \subseteq Paths /\ Root \notin Left
      OBVIOUS
    <3>. HIDE DEF Left
    <3>. QED BY <2>1, <3>1, HighestPath
  <2>3. Parent(p) \in Paths /\ (From(Parent(p)) = "dir" \/ To(Parent(p)) = "dir")
    BY <1>1, <2>2, ParentIsDir DEF From, To
  <2>4. Parent(p) \in seen
    BY <2>2, <2>3
  <2>5. Parent(p) # Root => From(Parent(p)) = "dir" /\ To(Parent(p)) = "dir"
    BY <2>3, <2>4 DEF Compared
  <2>. QED BY <2>2, <2>4, <2>5 DEF ToCompare
<1>. QED BY <1>2 DEF Compared

\* Drift is found where there is a difference, and only there.
LEMMA ComparedStep ==
    ASSUME TypeOK, Compared, [Next]_vars
    PROVE  Compared'
<1>. USE DEF To, From
<1>1. CASE Edit \/ Refuse \/ Verify \/ Abort \/ Sync
  BY <1>1 DEF Compared, Edit, Refuse, Verify, Abort, Sync, Remove, MakeDir, CopyDir, CreateFile,
              WriteFile, FamilyCopied, Truncate, WriteGolden, ToCopy
<1>2. CASE \E first \in {"removing", "comparing"} : Start(first)
  BY <1>2 DEF Compared, Start
<1>3. ASSUME NEW p \in Paths, Compare(p) PROVE Compared'
  <2>1. CASE Differs(p)
    BY <1>3, <2>1 DEF Compared, Compare, ToCompare, Differs, TypeOK
  <2>2. CASE ~Differs(p)
    BY <1>3, <2>2 DEF Compared, Compare, ToCompare, Differs, TypeOK
  <2>. QED BY <2>1, <2>2
<1>4. CASE FamilyCompared
  <2>1. /\ pc = "comparing" /\ fam' = fam + 1 /\ seen' = {} /\ UNCHANGED <<source, target, pc, drift>>
    BY <1>4 DEF FamilyCompared
  <2>2. CASE drift
    BY <2>1, <2>2 DEF Compared
  <2>3. CASE ~drift
    <3>1. \A p \in Paths \ {Root} : target[fam][p] = source.family[fam][p]
      BY <1>4, <2>3, ComparisonOver DEF FamilyCompared
    <3>2. \A f \in 1..fam' - 1 : f = fam \/ f \in 1..fam - 1
      BY <2>1, FamilyFacts DEF TypeOK, Families
    <3>. QED BY <2>1, <2>3, <3>1, <3>2 DEF Compared
  <2>. QED BY <2>2, <2>3 DEF TypeOK
<1>5. CASE Report
  BY <1>5 DEF Compared, Report
<1>6. CASE UNCHANGED vars
  BY <1>6 DEF Compared, vars
<1>. QED BY <1>1, <1>2, <1>3, <1>4, <1>5, <1>6 DEF Next, Check

--------------------------------------------------------------------------------

\* The last step of a sync finds all families copied and writes the inventory; no other
\* step reports a sync.
LEMMA SyncedStep ==
    ASSUME TypeOK, Silent, Whole, SyncedMeansEqual, [Next]_vars
    PROVE  SyncedMeansEqual'
<1>. USE DEF SyncedMeansEqual
<1>1. CASE Edit \/ Refuse \/ Verify \/ Abort \/ \E first \in {"removing", "comparing"} : Start(first)
  BY <1>1 DEF Edit, Refuse, Verify, Abort, Start
<1>2. CASE WriteGolden
  BY <1>2 DEF WriteGolden, Whole
<1>3. CASE Sync /\ ~WriteGolden
  BY <1>3 DEF Silent, Sync, Remove, MakeDir, CopyDir, CreateFile, WriteFile, FamilyCopied,
              Truncate, ToCopy
<1>4. CASE Check
  BY <1>4 DEF Silent, Check, Compare, ToCompare, FamilyCompared, Report
<1>5. CASE UNCHANGED vars
  BY <1>5 DEF vars
<1>. QED BY <1>1, <1>2, <1>3, <1>4, <1>5 DEF Next

\* The report of a check says what was found, and nothing has changed since.
LEMMA ExactStep ==
    ASSUME TypeOK, Silent, Compared, CheckIsExact, [Next]_vars
    PROVE  CheckIsExact'
<1>. USE DEF CheckIsExact
<1>1. CASE Edit \/ Refuse \/ Verify \/ Abort \/ \E first \in {"removing", "comparing"} : Start(first)
  BY <1>1 DEF Edit, Refuse, Verify, Abort, Start
<1>2. CASE Sync
  BY <1>2 DEF Silent, Sync, Remove, MakeDir, CopyDir, CreateFile, WriteFile, FamilyCopied,
              Truncate, WriteGolden, ToCopy
<1>3. CASE Report
  <2>1. /\ pc = "comparing" /\ fam = NFamilies /\ UNCHANGED <<source, target, golden>>
        /\ outcome' = IF drift \/ ~GoldenEqual THEN "drift" ELSE "clean"
    BY <1>3 DEF Report
  <2>2. GoldenEqual' <=> GoldenEqual
    BY <2>1 DEF GoldenEqual
  <2>3. CASE drift
    BY <2>1, <2>3 DEF Compared
  <2>4. CASE ~drift
    <3>1. \A p \in Paths \ {Root} : target[fam][p] = source.family[fam][p]
      BY <1>3, <2>1, <2>4, ComparisonOver DEF Report, To, From
    <3>2. \A f \in Families : f = fam \/ f \in 1..fam - 1
      BY <2>1, FamilyFacts DEF Families
    <3>3. \A f \in Families : \A p \in Paths \ {Root} : target[f][p] = source.family[f][p]
      BY <2>1, <2>4, <3>1, <3>2 DEF Compared
    <3>. QED BY <2>1, <2>2, <2>4, <3>3
  <2>. QED BY <2>3, <2>4 DEF TypeOK
<1>4. CASE Check /\ ~Report
  BY <1>4 DEF Silent, Check, Compare, ToCompare, FamilyCompared
<1>5. CASE UNCHANGED vars
  BY <1>5 DEF vars, GoldenEqual
<1>. QED BY <1>1, <1>2, <1>3, <1>4, <1>5 DEF Next

\* Everything together holds from the start, whatever state that is, and is kept.
LEMMA Inductive == Spec => []IInv
<1>1. Init => IInv
  <2>. SUFFICES ASSUME Init PROVE IInv
    OBVIOUS
  <2>1. TypeOK
    BY FamilyFacts DEF Init, TypeOK
  <2>. QED BY <2>1 DEF Init, IInv, Silent, Whole, Walked, Compared, SyncedMeansEqual, CheckIsExact
<1>2. IInv /\ [Next]_vars => IInv'
  BY TypeStep, SilentStep, WholeStep, WalkedStep, ComparedStep, SyncedStep, ExactStep DEF IInv
<1>. QED BY <1>1, <1>2, PTL DEF Spec

\* The variables keep their types: whatever is removed, copied or torn, the file system
\* holds trees (parity.go:171-179).
THEOREM TypeCorrect == Spec => []TypeOK
<1>1. IInv => TypeOK
  BY DEF IInv
<1>. QED BY <1>1, Inductive, PTL

\* A sync that reports success has made the vendored assets equal to the checkout, from
\* any state that crashes have left, for trees of any depth (parity.go:39-54, 171-190).
THEOREM SyncCorrect == Spec => []SyncedMeansEqual
<1>1. IInv => SyncedMeansEqual
  BY DEF IInv
<1>. QED BY <1>1, Inductive, PTL

\* A check passes exactly if both sides are equal, although it never looks below a name
\* that only one side has (parity.go:141-161, 192-253).
THEOREM CheckCorrect == Spec => []CheckIsExact
<1>1. IInv => CheckIsExact
  BY DEF IInv
<1>. QED BY <1>1, Inductive, PTL

\* A sync that stops anywhere has left at most one family broken, and in it nothing that
\* the next copy would stumble over (parity.go:45-49, 171-179).
THEOREM BrokenCorrect == Spec => []BrokenInOnePlace
<1>1. IInv => BrokenInOnePlace
  BY DEF IInv, BrokenInOnePlace, Whole, Walked
<1>. QED BY <1>1, Inductive, PTL
================================================================================
