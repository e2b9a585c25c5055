--------------------------- MODULE ExchangeProofs ---------------------------
(***************************************************************************)
(* What the operators of Routing promise, for any names, base folders and  *)
(* rules: the path a file is rebuilt at, whose it is there, and when the   *)
(* preview of the operator is the list of the service.  Then what Exchange *)
(* promises for any number of sites, files, copies and rules: every claim  *)
(* is answered for, and the tree is mirrored.                              *)
(***************************************************************************)
EXTENDS Exchange, TLAPS, WellFoundedInduction, SequenceTheorems

-----------------------------------------------------------------------------
(* Least elements.                                                         *)

LEMMA LeastNatural ==
    ASSUME NEW T \in SUBSET Nat, T # {}
    PROVE  \E m \in T : \A k \in T : m <= k
<1> DEFINE Less == OpToRel(<, Nat)
<1>1. IsWellFoundedOn(Less, Nat)
    BY NatLessThanWellFounded
<1>2. \A x, y \in Nat : <<y, x>> \in Less <=> y < x
    BY DEF OpToRel
<1> HIDE DEF Less
<1>3. PICK m \in T : \A y \in T : ~(<<y, m>> \in Less)
    BY <1>1, WFMin
<1>4. \A k \in T : ~(k < m)
    BY <1>2, <1>3
<1> QED
    BY <1>4

(* The loops that return the first index that fits.                        *)
LEMMA FirstIndex ==
    ASSUME NEW S \in SUBSET (Nat \ {0})
    PROVE  /\ First(S) = 0 <=> S = {}
           /\ S # {} => First(S) \in S /\ \A i \in S : First(S) <= i
<1>1. CASE S = {}
    BY <1>1 DEF First
<1>2. CASE S # {}
    <2>1. \E m \in S : \A k \in S : m <= k
        BY <1>2, LeastNatural
    <2>2. First(S) \in S /\ \A i \in S : First(S) <= i
        BY <1>2, <2>1 DEF First, Min
    <2> QED
        BY <1>2, <2>2
<1> QED
    BY <1>1, <1>2

LEMMA Domain ==
    ASSUME NEW S, NEW seq \in Seq(S)
    PROVE  DOMAIN seq \in SUBSET (Nat \ {0})
OBVIOUS

-----------------------------------------------------------------------------
(* Paths.                                                                  *)

(* A prefix, element by element.                                           *)
LEMMA PrefixElements ==
    ASSUME NEW s \in Path, NEW t \in Path
    PROVE  IsPrefix(s, t) <=> Len(s) <= Len(t) /\ \A i \in 1..Len(s) : s[i] = t[i]
BY DEF IsPrefix, Path

(* The base folder that owns a path does own it, and is among the deepest. *)
LEMMA OwnerOwns ==
    ASSUME NEW bases \in Seq(Folder), NEW path \in Path, Owner(bases, path) # 0
    PROVE  /\ Owner(bases, path) \in DOMAIN bases
           /\ Owns(bases[Owner(bases, path)], path)
           /\ \A j \in DOMAIN bases : Owns(bases[j], path) =>
                Len(bases[j].path) <= Len(bases[Owner(bases, path)].path)
<1> DEFINE owning == {i \in DOMAIN bases : Owns(bases[i], path)}
           Depth(i) == Len(bases[i].path)
           Beats(i, j) == Depth(i) > Depth(j) \/ (Depth(i) = Depth(j) /\ i <= j)
<1>1. owning # {}
    BY DEF Owner
<1>2. \A i \in owning : Depth(i) \in Nat /\ Depth(i) <= Len(path)
    BY DEF Folder, Path, Owns, IsPrefix
<1>3. \E i \in owning : \A j \in owning : Beats(i, j)
    <2> DEFINE gaps == {Len(path) - Depth(i) : i \in owning}
    <2>1. gaps \in SUBSET Nat /\ gaps # {}
        BY <1>1, <1>2 DEF Path
    <2>2. PICK g \in gaps : \A h \in gaps : g <= h
        BY <2>1, LeastNatural
    <2> DEFINE deepest == {i \in owning : Len(path) - Depth(i) = g}
    <2>3. deepest \in SUBSET Nat /\ deepest # {}
        BY <2>2, Domain
    <2>4. PICK i \in deepest : \A j \in deepest : i <= j
        BY <2>3, LeastNatural
    <2>5. ASSUME NEW j \in owning PROVE Beats(i, j)
        <3>1. Len(path) - Depth(i) <= Len(path) - Depth(j)
            BY <2>2, <2>4
        <3>2. Depth(i) \in Nat /\ Depth(j) \in Nat /\ Len(path) \in Nat
            BY <1>2, <2>4 DEF Path
        <3>3. CASE Depth(i) = Depth(j)
            <4>1. j \in deepest
                BY <3>3, <2>4
            <4> QED
                BY <4>1, <3>3, <2>4
        <3> HIDE DEF Depth
        <3> QED
            BY <3>1, <3>2, <3>3
    <2> QED
        BY <2>4, <2>5
<1>4. Owner(bases, path) \in owning /\ \A j \in owning : Beats(Owner(bases, path), j)
    <2> HIDE DEF owning, Beats
    <2>1. Owner(bases, path) = CHOOSE i \in owning : \A j \in owning : Beats(i, j)
        BY <1>1 DEF Owner, owning, Beats
    <2> QED
        BY <2>1, <1>3
<1> QED
    BY <1>2, <1>4

LEMMA RelativeFileParts ==
    ASSUME NEW base \in Folder, NEW path \in Path, Len(base.path) < Len(path)
    PROVE  /\ RelativeFile(base, path) \in Path
           /\ Len(RelativeFile(base, path)) = Len(path) - Len(base.path)
           /\ \A i \in 1..Len(RelativeFile(base, path)) :
                RelativeFile(base, path)[i] = path[Len(base.path) + i]
<1> DEFINE m == Len(base.path) + 1
           l == Len(path)
<1>1. m \in Nat /\ l \in Nat /\ 1 <= m /\ m <= l
    BY DEF Folder, Path
<1>2. \A i \in m..l : path[i] \in Name
    BY <1>1 DEF Path
<1>3. RelativeFile(base, path) = SubSeq(path, m, l)
    BY DEF RelativeFile
<1> HIDE DEF m, l
<1>4. /\ SubSeq(path, m, l) \in Seq(Name) /\ Len(SubSeq(path, m, l)) = l - m + 1
      /\ \A i \in 1..l - m + 1 : SubSeq(path, m, l)[i] = path[m + i - 1]
    BY <1>1, <1>2, SubSeqProperties
<1>5. Len(base.path) = m - 1 /\ Len(path) = l
    BY <1>1 DEF m, l, Folder, Path
<1>6. \A i \in 1..l - m + 1 : m + i - 1 = (m - 1) + i
    BY <1>1
<1> QED
    BY <1>1, <1>3, <1>4, <1>5, <1>6 DEF Path

LEMMA FrontParts ==
    ASSUME NEW s \in Path, s # <<>>
    PROVE  /\ Front(s) \in Path /\ Len(Front(s)) = Len(s) - 1
           /\ \A i \in 1..Len(s) - 1 : Front(s)[i] = s[i]
<1>1. Len(s) \in Nat /\ 1 <= Len(s) /\ \A i \in 1..Len(s) : s[i] \in Name
    BY DEF Path
<1> DEFINE n == Len(s) - 1
<1>2. n \in Nat /\ \A i \in 1..n : s[i] \in Name
    BY <1>1
<1> HIDE DEF n
<1>3. /\ SubSeq(s, 1, n) \in Seq(Name) /\ Len(SubSeq(s, 1, n)) = n
      /\ \A i \in 1..n : SubSeq(s, 1, n)[i] = s[i]
    BY <1>2, SubSeqProperties
<1> QED
    BY <1>3 DEF n, Front, Path

LEMMA Associative ==
    ASSUME NEW s \in Seq(Name), NEW t \in Seq(Name), NEW u \in Seq(Name)
    PROVE  (s \o t) \o u = s \o (t \o u)
<1> DEFINE a == (s \o t) \o u
           b == s \o (t \o u)
<1>1. /\ a \in Seq(Name) /\ b \in Seq(Name)
      /\ Len(a) = Len(s) + Len(t) + Len(u) /\ Len(b) = Len(a)
    OBVIOUS
<1>2. \A i \in 1..Len(a) : a[i] = b[i]
    OBVIOUS
<1> HIDE DEF a, b
<1> QED
    BY <1>1, <1>2

(* What is left of a path below a base folder that owns it.                *)
LEMMA RelativeParts ==
    ASSUME NEW base \in Folder, NEW path \in Path,
           Owns(base, path), Len(base.path) < Len(path)
    PROVE  /\ RelativeFile(base, path) \in Path
           /\ RelativeDir(base, path) \in Path
           /\ RelativeFile(base, path) # <<>>
           /\ RelativeFile(base, path) = RelativeDir(base, path) \o <<Last(path)>>
           /\ Last(path) \in Name
<1> DEFINE n == Len(base.path)
           file == RelativeFile(base, path)
           dir == RelativeDir(base, path)
<1>1. n \in Nat /\ Len(path) \in Nat /\ n < Len(path)
    BY DEF Folder, Path
<1>2. file \in Path /\ Len(file) = Len(path) - n
    BY RelativeFileParts
<1>3. \A i \in 1..Len(file) : file[i] = path[n + i]
    BY RelativeFileParts
<1> HIDE DEF file
<1>4. file # <<>>
    BY <1>1, <1>2
<1>5. dir = Front(file)
    BY DEF RelativeDir, file
<1>6. dir \in Path /\ Len(dir) = Len(file) - 1
    BY <1>2, <1>4, <1>5, FrontParts
<1>7. \A i \in 1..Len(dir) : dir[i] = file[i]
    BY <1>2, <1>4, <1>5, <1>6, FrontParts
<1>8. Last(path) \in Name /\ Last(path) = file[Len(file)]
    BY <1>1, <1>2, <1>3 DEF Last, Path
<1> HIDE DEF n, dir
<1>9. file = dir \o <<Last(path)>>
    BY <1>1, <1>2, <1>6, <1>7, <1>8 DEF Path
<1> QED
    BY <1>1, <1>2, <1>6, <1>8, <1>9 DEF file, dir

(* A rebuilt path: its parts, and that the base folder owns it.            *)
LEMMA TargetParts ==
    ASSUME NEW base \in Folder, NEW dir \in Path, NEW name \in Name
    PROVE  /\ Target(base, dir, name) \in Path
           /\ Owns(base, Target(base, dir, name))
           /\ Len(base.path) < Len(Target(base, dir, name))
           /\ Last(Target(base, dir, name)) = name
           /\ RelativeDir(base, Target(base, dir, name)) = dir
<1> DEFINE target == Target(base, dir, name)
           n == Len(base.path)
<1>1. base.path \in Path /\ n \in Nat /\ Len(dir) \in Nat
    BY DEF Folder, Path
<1>2. /\ target \in Path /\ Len(target) = n + Len(dir) + 1
      /\ \A i \in 1..n : target[i] = base.path[i]
      /\ \A i \in 1..Len(dir) : target[n + i] = dir[i]
      /\ target[n + Len(dir) + 1] = name
    BY <1>1 DEF Target, Path
<1>3. Owns(base, target)
    <2>1. target \in Path /\ Len(base.path) <= Len(target)
          /\ \A i \in 1..Len(base.path) : base.path[i] = target[i]
        BY <1>1, <1>2
    <2> HIDE DEF target
    <2> QED
        BY <1>1, <2>1, PrefixElements DEF Owns
<1>4. Last(target) = name
    BY <1>1, <1>2 DEF Last
<1>5. RelativeDir(base, target) = dir
    <2> DEFINE rest == RelativeFile(base, target)
    <2>1. rest \in Path /\ Len(rest) = Len(dir) + 1
        BY <1>1, <1>2 DEF RelativeFile, Path
    <2>2. \A i \in 1..Len(dir) : rest[i] = dir[i]
        BY <1>1, <1>2, <2>1 DEF RelativeFile, Path
    <2> HIDE DEF rest
    <2>3. Front(rest) \in Path /\ Len(Front(rest)) = Len(dir)
        BY <1>1, <2>1 DEF Front, Path
    <2>4. \A i \in 1..Len(dir) : Front(rest)[i] = dir[i]
        BY <1>1, <2>1, <2>2 DEF Front, Path
    <2>5. Front(rest) = dir
        BY <2>3, <2>4 DEF Path
    <2> QED
        BY <2>5 DEF rest, RelativeDir
<1> QED
    BY <1>1, <1>2, <1>3, <1>4, <1>5

(***************************************************************************)
(* A file that is routed and delivered on its own host comes back to the   *)
(* place it was taken from: business_target undoes relative_path.          *)
(***************************************************************************)
THEOREM RoundTrip ==
    ASSUME NEW base \in Folder, NEW path \in Path,
           Owns(base, path), Len(base.path) < Len(path)
    PROVE  Target(base, RelativeDir(base, path), Last(path)) = path
<1> DEFINE n == Len(base.path)
           file == RelativeFile(base, path)
<1>1. base.path \in Path /\ n \in Nat /\ Len(path) \in Nat /\ n < Len(path)
    BY DEF Folder, Path
<1>2. Target(base, RelativeDir(base, path), Last(path)) = base.path \o file
    <2>1. /\ RelativeDir(base, path) \in Path /\ Last(path) \in Name
          /\ file = RelativeDir(base, path) \o <<Last(path)>>
        BY RelativeParts
    <2> HIDE DEF file
    <2>2. <<Last(path)>> \in Path
        BY <2>1 DEF Path
    <2> DEFINE dir == RelativeDir(base, path)
               last == <<Last(path)>>
    <2>3. Target(base, dir, Last(path)) = (base.path \o dir) \o last
        BY DEF Target
    <2>4. /\ base.path \in Seq(Name) /\ dir \in Seq(Name) /\ last \in Seq(Name)
        BY <1>1, <2>1, <2>2 DEF Path
    <2> HIDE DEF dir, last
    <2>5. (base.path \o dir) \o last = base.path \o (dir \o last)
        BY <2>4, Associative
    <2> QED
        BY <2>1, <2>3, <2>5 DEF dir, last
<1>3. /\ file \in Path /\ Len(file) = Len(path) - n
      /\ \A i \in 1..Len(file) : file[i] = path[n + i]
    BY RelativeFileParts
<1>4. \A i \in 1..n : base.path[i] = path[i]
    BY <1>1, PrefixElements DEF Owns
<1> HIDE DEF n, file
<1>5. base.path \o file = path
    <2>1. /\ base.path \o file \in Path /\ Len(base.path \o file) = Len(path)
          /\ \A i \in 1..n : (base.path \o file)[i] = base.path[i]
          /\ \A i \in n+1..Len(path) : (base.path \o file)[i] = file[i - n]
        BY <1>1, <1>3 DEF Path, n
    <2> DEFINE whole == base.path \o file
    <2> HIDE DEF whole
    <2>2. \A i \in 1..Len(path) : whole[i] = path[i]
        <3>1. \A i \in 1..n : whole[i] = path[i]
            BY <1>4, <2>1 DEF whole
        <3>2. \A i \in n+1..Len(path) : whole[i] = path[i]
            <4>1. \A i \in n+1..Len(path) : i - n \in 1..Len(file) /\ n + (i - n) = i
                BY <1>1, <1>3
            <4>2. \A i \in n+1..Len(path) : whole[i] = file[i - n]
                BY <2>1 DEF whole
            <4>3. \A j \in 1..Len(file) : file[j] = path[n + j]
                BY <1>3
            <4> QED
                BY <4>1, <4>2, <4>3
        <3> QED
            BY <1>1, <3>1, <3>2
    <2> HIDE DEF Path
    <2>3. \A s, t \in Path : Len(s) = Len(t) /\ (\A i \in 1..Len(t) : s[i] = t[i]) => s = t
        BY DEF Path
    <2> QED
        BY <2>1, <2>2, <2>3 DEF whole
<1> QED
    BY <1>2, <1>5

(* Two owners of one path are nested.                                      *)
LEMMA OwnersAreNested ==
    ASSUME NEW a \in Folder, NEW b \in Folder, NEW path \in Path,
           Owns(a, path), Owns(b, path), Len(a.path) <= Len(b.path)
    PROVE  IsPrefix(a.path, b.path)
<1>1. a.path \in Path /\ b.path \in Path
    BY DEF Folder
<1>2. \A i \in 1..Len(a.path) : a.path[i] = path[i]
    BY <1>1, PrefixElements DEF Owns
<1>3. \A i \in 1..Len(b.path) : b.path[i] = path[i]
    BY <1>1, PrefixElements DEF Owns
<1>4. Len(a.path) \in Nat /\ Len(b.path) \in Nat
    BY <1>1 DEF Path
<1>5. \A i \in 1..Len(a.path) : a.path[i] = b.path[i]
    BY <1>2, <1>3, <1>4
<1> QED
    BY <1>1, <1>5, PrefixElements

(* Where base folders are not nested, a path has one owner at most.        *)
LEMMA OneOwner ==
    ASSUME NEW bases \in Seq(Folder), ~Nested(bases), NEW path \in Path,
           NEW i \in DOMAIN bases, NEW j \in DOMAIN bases,
           Owns(bases[i], path), Owns(bases[j], path)
    PROVE  i = j
<1>1. bases[i] \in Folder /\ bases[j] \in Folder
    OBVIOUS
<1>2. Len(bases[i].path) \in Nat /\ Len(bases[j].path) \in Nat
    BY <1>1 DEF Folder, Path
<1>3. IsPrefix(bases[i].path, bases[j].path) \/ IsPrefix(bases[j].path, bases[i].path)
    BY <1>1, <1>2, OwnersAreNested
<1> QED
    BY <1>3 DEF Nested

(* The walk that reaches a file is then the owner's.                       *)
LEMMA OwnerOfTheWalk ==
    ASSUME NEW bases \in Seq(Folder), ~Nested(bases), NEW path \in Path,
           NEW i \in DOMAIN bases, Owns(bases[i], path)
    PROVE  Owner(bases, path) = i
<1>1. DOMAIN bases \in SUBSET (Nat \ {0})
    BY Domain
<1>2. \A j \in DOMAIN bases : Owns(bases[j], path) => j = i
    BY OneOwner
<1> DEFINE owning == {k \in DOMAIN bases : Owns(bases[k], path)}
           Beats(k, j) == \/ Len(bases[k].path) > Len(bases[j].path)
                          \/ Len(bases[k].path) = Len(bases[j].path) /\ k <= j
<1>3. owning = {i}
    BY <1>2
<1>4. Owner(bases, path) = CHOOSE k \in owning : \A j \in owning : Beats(k, j)
    BY <1>3 DEF Owner
<1>5. Beats(i, i)
    BY <1>1
<1> HIDE DEF owning, Beats
<1> QED
    BY <1>3, <1>4, <1>5

(***************************************************************************)
(* A delivered file is, where it is delivered, a file of the same base     *)
(* folder, directory and name as where it came from: on a host that routes *)
(* outbound too it is eligible, and its duplicate key, but for the content,*)
(* is the one it was sent under.                                           *)
(***************************************************************************)
THEOREM DeliveredIsOwned ==
    ASSUME NEW bases \in Seq(Folder), ~Nested(bases), NEW i \in DOMAIN bases,
           NEW dir \in Path, NEW name \in Name,
           NEW target, target = Target(bases[i], dir, name)
    PROVE  /\ Owner(bases, target) = i
           /\ RelativeDir(bases[i], target) = dir
           /\ Last(target) = name
<1>1. bases[i] \in Folder
    OBVIOUS
<1>2. /\ target \in Path /\ Owns(bases[i], target)
      /\ RelativeDir(bases[i], target) = dir /\ Last(target) = name
    BY <1>1, TargetParts
<1> QED
    BY <1>2, OwnerOfTheWalk

(* The verdict of `preview` on one path is that of the service.            *)
LEMMA SameVerdict ==
    ASSUME NEW rules, NEW path,
           DOMAIN rules.exclusion \in SUBSET (Nat \ {0}),
           DOMAIN rules.inclusion \in SUBSET (Nat \ {0})
    PROVE  Eligibility(rules, path).eligible = IsEligible(rules, path)
<1> DEFINE out == Matching(rules.exclusion, path)
           in == Matching(Included(rules), path)
<1>1. out \in SUBSET (Nat \ {0}) /\ in \in SUBSET (Nat \ {0})
    <2>1. DOMAIN Included(rules) \in SUBSET (Nat \ {0})
        BY DEF Included
    <2> QED
        BY <2>1 DEF Matching
<1>2. Eligibility(rules, path).eligible = (First(out) = 0 /\ First(in) # 0)
    BY DEF Eligibility
<1>3. IsEligible(rules, path) = (out = {} /\ in # {})
    BY DEF IsEligible
<1> HIDE DEF out, in
<1> QED
    BY <1>1, <1>2, <1>3, FirstIndex

(***************************************************************************)
(* `filerouter preview` shows as watched what the service collects, once   *)
(* for every time it collects it, if no base folder lies in another.       *)
(***************************************************************************)
THEOREM PreviewAgrees ==
    ASSUME NEW bases \in Seq(Folder), ~Nested(bases), NEW path \in Path, NEW rules,
           DOMAIN rules.exclusion \in SUBSET (Nat \ {0}),
           DOMAIN rules.inclusion \in SUBSET (Nat \ {0})
    PROVE  Previewed(bases, rules, path) = Collected(bases, rules, path)
<1> DEFINE walks == Walks(bases, path)
<1>1. \A i \in walks : Owner(bases, path) = i
    BY OwnerOfTheWalk DEF Walks
<1>2. \A i \in walks : i # 0
    BY Domain DEF Walks
<1>3. \A i \in walks : Eligible(bases, rules, path) <=>
                          IsEligible(rules, RelativeFile(bases[i], path))
    BY <1>1, <1>2 DEF Eligible
<1>4. Previewed(bases, rules, path) =
        {i \in walks : IsEligible(rules, RelativeFile(bases[i], path))}
    BY SameVerdict DEF Previewed
<1> HIDE DEF walks
<1>5. Collected(bases, rules, path) = IF Eligible(bases, rules, path) THEN walks ELSE {}
    BY DEF Collected, walks
<1>6. \A i, j \in walks : i = j
    BY <1>1
<1> QED
    BY <1>3, <1>4, <1>5, <1>6
-----------------------------------------------------------------------------
(* The sites.                                                            *)

(* A file that a user or a pipeline has written.                           *)
Written == [path : Path \ {<<>>}, content : Content]
RoutedAt(s) == {f \in Written : Owner(Bases[s], f.path) # 0}

(* A pair as Publish makes it.                                             *)
IsTicket(p) ==
    p.id \in Nat /\ \E s \in Site : \E f \in RoutedAt(s) : p = Pair(s, f, p.id)

Functions ==
    /\ DOMAIN disk = Site /\ DOMAIN markers = Site /\ DOMAIN aside = Site
    /\ DOMAIN outbox = Site /\ DOMAIN inbox = Site

Tickets ==
    /\ ids \in Nat
    /\ \A p \in Pairs : IsTicket(p) /\ p.id \in 1..ids
    /\ \A p, q \in Pairs : p.id = q.id => p = q
    /\ delivered \in [Site -> SUBSET (1..ids)]

Disks ==
    /\ \A s \in Site : disk[s] \subseteq Written
    /\ \A s \in Site : \A f, g \in disk[s] : f.path = g.path => f = g

(* What is delivered was rebuilt from the pair with that id.               *)
Recorded ==
    \A t \in Site : \A id \in delivered[t] : \E r \in rebuilt : r.pair.id = id

Shape == Functions /\ Tickets /\ Disks

(* The pipelines, whether they end well or fail, and what they do.         *)
Submits(s, f) == Publish(s, f) \/ PublishFails(s, f)
Delivers(t, pair) == Deliver(t, pair) \/ DeliverLapses(t, pair)

LEMMA WhatSubmitsDoes ==
    ASSUME NEW s, NEW f, Submits(s, f)
    PROVE  /\ Detected(s, f) /\ ids' = ids + 1
           /\ disk' = [disk EXCEPT ![s] = @ \ {f}]
           /\ markers' = markers \/ markers' = Marked(s, f)
           /\ \/ outbox' = outbox
              \/ outbox' = [outbox EXCEPT ![s] = @ \cup {Pair(s, f, ids + 1)}]
           /\ \/ aside' = aside /\ outbox' = [outbox EXCEPT ![s] = @ \cup {Pair(s, f, ids + 1)}]
              \/ aside' = [aside EXCEPT ![s] = @ \cup {Pair(s, f, ids + 1)}]
           /\ UNCHANGED <<role, inbox, delivered, rebuilt, writes, copies>>
<1>1. CASE Publish(s, f)
    BY <1>1 DEF Publish
<1>2. CASE PublishFails(s, f)
    BY <1>2 DEF PublishFails
<1> QED
    BY <1>1, <1>2 DEF Submits

LEMMA WhatDeliversDoes ==
    ASSUME NEW t, NEW pair, Delivers(t, pair)
    PROVE  LET base == ByAlias(Bases[t], pair.alias)
               path == Target(Bases[t][base], pair.dir, pair.name)
           IN  /\ base # 0 /\ pair.id \notin delivered[t]
               /\ inbox' = Taken(t, pair)
               /\ disk' = Placed(t, File(path, pair.content))
               /\ \/ delivered' = delivered
                  \/ delivered' = [delivered EXCEPT ![t] = @ \cup {pair.id}]
               /\ aside' = aside \/ aside' = [aside EXCEPT ![t] = @ \cup {pair}]
               /\ rebuilt' = rebuilt \cup {[site |-> t, path |-> path, pair |-> pair]}
               /\ UNCHANGED <<role, markers, outbox, ids, writes, copies>>
BY DEF Delivers, Deliver, DeliverLapses, File

-----------------------------------------------------------------------------
(* Paths and pairs.                                                        *)

LEMMA DirIsPath ==
    ASSUME NEW base \in Folder, NEW path \in Path, Owns(base, path)
    PROVE  RelativeDir(base, path) \in Path
<1>1. base.path \in Path /\ Len(base.path) \in Nat /\ Len(path) \in Nat
    BY DEF Folder, Path
<1>2. Len(base.path) <= Len(path)
    BY <1>1, PrefixElements DEF Owns
<1>3. CASE Len(base.path) < Len(path)
    BY <1>3, RelativeParts
<1>4. CASE Len(base.path) = Len(path)
    <2>1. RelativeFile(base, path) = <<>>
        BY <1>1, <1>4, SubSeqEmpty DEF RelativeFile, Path
    <2>2. Front(<<>>) = <<>>
        BY SubSeqEmpty DEF Front
    <2>3. RelativeDir(base, path) = <<>>
        BY <2>1, <2>2 DEF RelativeDir
    <2> QED
        BY <2>3 DEF Path
<1> QED
    BY <1>1, <1>2, <1>3, <1>4

LEMMA LastIsName ==
    ASSUME NEW path \in Path \ {<<>>}
    PROVE  Last(path) \in Name
<1>1. Len(path) \in 1..Len(path)
    BY DEF Path
<1> QED
    BY <1>1 DEF Path, Last

LEMMA PairParts ==
    ASSUME NEW s \in Site, NEW f \in RoutedAt(s), NEW id
    PROVE  /\ Pair(s, f, id).id = id
           /\ Pair(s, f, id).dir \in Path
           /\ Pair(s, f, id).name \in Name
           /\ Pair(s, f, id).content \in Content
           /\ Pair(s, f, id).origin = <<s, f.path>>
           /\ KeyOf(Pair(s, f, id)) = KeyOf(Pair(s, f, 0))
<1> DEFINE bases == Bases[s]
           base == bases[Owner(bases, f.path)]
<1>1. bases \in Seq(Folder) /\ f.path \in Path \ {<<>>} /\ Owner(bases, f.path) # 0
    BY ExchangeAssumption DEF RoutedAt, Written
<1>2. base \in Folder /\ Owns(base, f.path)
    BY <1>1, OwnerOwns
<1>3. RelativeDir(base, f.path) \in Path /\ Last(f.path) \in Name
    BY <1>1, <1>2, DirIsPath, LastIsName
<1>4. f.content \in Content
    BY DEF RoutedAt, Written
<1> QED
    BY <1>3, <1>4 DEF Pair, KeyOf

LEMMA TicketParts ==
    ASSUME NEW p, IsTicket(p)
    PROVE  p.dir \in Path /\ p.name \in Name /\ p.content \in Content
<1>1. PICK s \in Site : \E f \in RoutedAt(s) : p = Pair(s, f, p.id)
    BY DEF IsTicket
<1>2. PICK f \in RoutedAt(s) : p = Pair(s, f, p.id)
    BY <1>1
<1>3. /\ Pair(s, f, p.id).dir \in Path /\ Pair(s, f, p.id).name \in Name
      /\ Pair(s, f, p.id).content \in Content
    BY PairParts
<1> QED
    BY <1>2, <1>3

LEMMA AliasFound ==
    ASSUME NEW t \in Site, NEW alias, ByAlias(Bases[t], alias) # 0
    PROVE  /\ ByAlias(Bases[t], alias) \in DOMAIN Bases[t]
           /\ Bases[t][ByAlias(Bases[t], alias)].alias = alias
           /\ Bases[t][ByAlias(Bases[t], alias)] \in Folder
<1> DEFINE bases == Bases[t]
           fitting == {i \in DOMAIN bases : bases[i].alias = alias}
<1>1. bases \in Seq(Folder)
    BY ExchangeAssumption
<1>2. fitting \in SUBSET (Nat \ {0})
    BY <1>1, Domain
<1>3. ByAlias(bases, alias) = First(fitting)
    BY DEF ByAlias
<1>4. ByAlias(bases, alias) \in fitting
    BY <1>2, <1>3, FirstIndex
<1> QED
    BY <1>1, <1>4

LEMMA RebuiltFile ==
    ASSUME NEW t \in Site, NEW p, IsTicket(p), ByAlias(Bases[t], p.alias) # 0
    PROVE  File(Target(Bases[t][ByAlias(Bases[t], p.alias)], p.dir, p.name), p.content)
              \in Written
<1> DEFINE base == Bases[t][ByAlias(Bases[t], p.alias)]
           path == Target(base, p.dir, p.name)
<1>1. base \in Folder
    BY AliasFound
<1>2. p.dir \in Path /\ p.name \in Name /\ p.content \in Content
    BY TicketParts
<1>3. path \in Path /\ Len(base.path) < Len(path)
    BY <1>1, <1>2, TargetParts
<1>4. path # <<>>
    BY <1>1, <1>3 DEF Folder, Path
<1> HIDE DEF path
<1>5. File(path, p.content) \in Written
    BY <1>2, <1>3, <1>4 DEF File, Written
<1> QED
    BY <1>5 DEF path, base

(* Where a pair may be.                                                    *)
LEMMA PairsNow ==
    ASSUME NEW p
    PROVE  p \in Pairs <=> \/ \E s \in Site : p \in outbox[s] \/ p \in inbox[s]
                           \/ \E r \in rebuilt : p = r.pair
BY DEF Pairs

LEMMA PairsThen ==
    ASSUME NEW p
    PROVE  p \in Pairs' <=> \/ \E s \in Site : p \in outbox'[s] \/ p \in inbox'[s]
                            \/ \E r \in rebuilt' : p = r.pair
BY DEF Pairs

-----------------------------------------------------------------------------
(* Ids: pairs come and go, and a new one has a new id.                     *)

LEMMA NoNewPair ==
    ASSUME Tickets, ids' = ids, delivered' \in [Site -> SUBSET (1..ids)],
           \A p \in Pairs' : p \in Pairs
    PROVE  Tickets'
BY DEF Tickets

LEMMA PublishedPair ==
    ASSUME Shape, NEW s \in Site, NEW f \in disk[s], Submits(s, f)
    PROVE  \A p \in Pairs' : p \in Pairs \/ p = Pair(s, f, ids + 1)
<1> DEFINE new == Pair(s, f, ids + 1)
<1>1. \A t \in Site : outbox'[t] \subseteq outbox[t] \cup {new}
    BY WhatSubmitsDoes DEF Shape, Functions
<1>2. inbox' = inbox /\ rebuilt' = rebuilt
    BY WhatSubmitsDoes
<1> HIDE DEF new
<1>3. \A p \in Pairs' : p \in Pairs \/ p = new
    BY <1>1, <1>2, PairsNow, PairsThen
<1> QED
    BY <1>3 DEF new

LEMMA PublishTickets ==
    ASSUME Shape, NEW s \in Site, NEW f \in disk[s], Submits(s, f)
    PROVE  Tickets'
<1> DEFINE new == Pair(s, f, ids + 1)
<1>1. f \in RoutedAt(s)
    BY WhatSubmitsDoes DEF Detected, Eligible, Shape, Disks, RoutedAt
<1>2. ids \in Nat /\ ids' = ids + 1 /\ delivered' = delivered
    BY WhatSubmitsDoes DEF Shape, Tickets
<1>3. new.id = ids + 1 /\ IsTicket(new)
    BY <1>1, <1>2, PairParts DEF IsTicket
<1>4. \A p \in Pairs' : p \in Pairs \/ p = new
    BY PublishedPair
<1> HIDE DEF new
<1>5. \A p \in Pairs : IsTicket(p) /\ p.id \in 1..ids
    BY DEF Shape, Tickets
<1>6. \A p, q \in Pairs' : p.id = q.id => p = q
    <2> SUFFICES ASSUME NEW p \in Pairs', NEW q \in Pairs', p.id = q.id PROVE p = q
        OBVIOUS
    <2>1. CASE p \in Pairs /\ q \in Pairs
        BY <2>1 DEF Shape, Tickets
    <2>2. CASE p \in Pairs /\ q = new
        BY <2>2, <1>2, <1>3, <1>5
    <2>3. CASE q \in Pairs /\ p = new
        BY <2>3, <1>2, <1>3, <1>5
    <2> QED
        BY <2>1, <2>2, <2>3, <1>4
<1>7. \A p \in Pairs' : IsTicket(p) /\ p.id \in 1..ids'
    BY <1>2, <1>3, <1>4, <1>5
<1>8. delivered' \in [Site -> SUBSET (1..ids')]
    BY <1>2 DEF Shape, Tickets
<1> QED
    BY <1>2, <1>6, <1>7, <1>8 DEF Tickets

(* Every other step leaves the ids, and makes no pair.                     *)
LEMMA OldPairs ==
    ASSUME Shape, [Next]_vars, ~\E s \in Site : \E f \in disk[s] : Submits(s, f)
    PROVE  /\ ids' = ids
           /\ \A p \in Pairs' : p \in Pairs
           /\ delivered' \in [Site -> SUBSET (1..ids)]
<1> USE DEF Functions
<1>0. Tickets /\ Functions
    BY DEF Shape
<1>1. CASE UNCHANGED <<outbox, inbox, rebuilt, ids, delivered>>
    BY <1>0, <1>1, PairsNow, PairsThen DEF Tickets
<1>2. ASSUME NEW s \in Site, NEW pair \in outbox[s], Carry(s, pair)
      PROVE  /\ \A p \in Pairs' : p \in Pairs
             /\ UNCHANGED <<ids, delivered>>
    <2>1. Peer[s] \in Site /\ pair \in Pairs
        BY <1>2, PairsNow, ExchangeAssumption
    <2>2. \A t \in Site : /\ outbox'[t] \subseteq outbox[t]
                          /\ inbox'[t] \subseteq inbox[t] \cup {pair}
        BY <1>0, <1>2 DEF Carry
    <2>3. UNCHANGED <<rebuilt, ids, delivered>>
        BY <1>2 DEF Carry
    <2> QED
        BY <2>1, <2>2, <2>3, PairsNow, PairsThen
<1>3. ASSUME NEW t \in Site, NEW pair \in inbox[t],
             Delivers(t, pair) \/ Refuse(t, pair) \/ Drop(t, pair)
      PROVE  /\ \A p \in Pairs' : p \in Pairs
             /\ ids' = ids
             /\ delivered' \in [Site -> SUBSET (1..ids)]
    <2>1. pair \in Pairs
        BY <1>3, PairsNow
    <2>2. \A u \in Site : inbox'[u] \subseteq inbox[u]
        BY <1>0, <1>3, WhatDeliversDoes DEF Refuse, Drop, Taken
    <2>3. outbox' = outbox /\ ids' = ids
        BY <1>3, WhatDeliversDoes DEF Refuse, Drop
    <2>4. \A r \in rebuilt' : r \in rebuilt \/ r.pair = pair
        BY <1>3, WhatDeliversDoes DEF Refuse, Drop
    <2>5. \A p \in Pairs' : p \in Pairs
        BY <2>1, <2>2, <2>3, <2>4, PairsNow, PairsThen
    <2>6. delivered' \in [Site -> SUBSET (1..ids)]
        BY <1>0, <1>3, <2>1, WhatDeliversDoes DEF Refuse, Drop, Tickets
    <2> QED
        BY <2>3, <2>5, <2>6
<1> QED
    BY <1>0, <1>1, <1>2, <1>3
    DEF Next, Outbound, Transport, Inbound, Write, Skip, vars, Tickets, Submits, Delivers

LEMMA TicketsNext ==
    ASSUME Shape, [Next]_vars
    PROVE  Tickets'
<1>1. CASE \E s \in Site : \E f \in disk[s] : Submits(s, f)
    BY <1>1, PublishTickets
<1>2. CASE ~\E s \in Site : \E f \in disk[s] : Submits(s, f)
    BY <1>2, OldPairs, NoNewPair DEF Shape
<1> QED
    BY <1>1, <1>2

-----------------------------------------------------------------------------
(* Disks: one file at a path, and every path is one.                       *)

LEMMA PlacedFile ==
    ASSUME Disks, DOMAIN disk = Site, NEW t \in Site, NEW file \in Written,
           disk' = Placed(t, file)
    PROVE  Disks'
<1>1. \A s \in Site : disk'[s] = IF s = t THEN (disk[t] \ At(t, file.path)) \cup {file}
                                 ELSE disk[s]
    BY DEF Placed
<1>2. \A f \in disk[t] \ At(t, file.path) : f.path # file.path
    BY DEF At
<1> QED
    BY <1>1, <1>2 DEF Disks

LEMMA FewerFiles ==
    ASSUME Disks, \A s \in Site : disk'[s] \subseteq disk[s]
    PROVE  Disks'
BY DEF Disks

LEMMA ShapeNext ==
    ASSUME Shape, [Next]_vars
    PROVE  Shape'
<1>0. Tickets /\ Functions /\ Disks
    BY DEF Shape
<1>1. Tickets'
    BY TicketsNext
<1>2. Functions'
    <2>1. ASSUME NEW s \in Site, NEW f \in disk[s], Submits(s, f) PROVE Functions'
        BY <1>0, <2>1, WhatSubmitsDoes DEF Functions, Marked
    <2>2. ASSUME NEW t \in Site, NEW pair \in inbox[t], Delivers(t, pair) PROVE Functions'
        BY <1>0, <2>2, WhatDeliversDoes DEF Functions, Placed, Taken
    <2> QED
        BY <1>0, <2>1, <2>2 DEF Next, Outbound, Transport, Inbound, Submits, Delivers, Write,
           Skip, Carry, Refuse, Drop, Placed, Taken, vars, Functions
<1>3. Disks'
    <2>1. ASSUME NEW s \in Site, NEW path \in Places[s], NEW content \in Content,
                 Write(s, path, content)
          PROVE  Disks'
        <3>1. File(path, content) \in Written
            BY ExchangeAssumption DEF File, Written
        <3>2. disk' = Placed(s, File(path, content))
            BY <2>1 DEF Write
        <3> QED
            BY <1>0, <3>1, <3>2, PlacedFile DEF Functions
    <2>2. ASSUME NEW t \in Site, NEW pair \in inbox[t], Delivers(t, pair)
          PROVE  Disks'
        <3> DEFINE base == ByAlias(Bases[t], pair.alias)
                   file == File(Target(Bases[t][base], pair.dir, pair.name), pair.content)
        <3>1. disk' = Placed(t, file) /\ base # 0
            BY <2>2, WhatDeliversDoes
        <3>2. IsTicket(pair)
            BY <1>0, <2>2, PairsNow DEF Tickets
        <3>3. file \in Written
            BY <3>1, <3>2, RebuiltFile
        <3> HIDE DEF file
        <3> QED
            BY <1>0, <3>1, <3>3, PlacedFile DEF Functions
    <2>3. ASSUME NEW s \in Site, NEW f \in disk[s], Submits(s, f) \/ Skip(s, f)
          PROVE  Disks'
        <3>1. disk' = [disk EXCEPT ![s] = @ \ {f}]
            BY <2>3, WhatSubmitsDoes DEF Skip
        <3> QED
            BY <1>0, <3>1, FewerFiles DEF Functions
    <2>4. CASE UNCHANGED disk
        BY <1>0, <2>4, FewerFiles
    <2> QED
        BY <2>1, <2>2, <2>3, <2>4 DEF Next, Outbound, Transport, Inbound, Submits, Delivers,
           Carry, Refuse, Drop, vars
<1> QED
    BY <1>1, <1>2, <1>3 DEF Shape

LEMMA ShapeInit ==
    ASSUME Init
    PROVE  Shape
<1>1. \A p : p \notin Pairs
    BY PairsNow DEF Init
<1> QED
    BY <1>1 DEF Init, Shape, Functions, Tickets, Disks

Bounded ==
    /\ role \in [Site -> Roles]
    /\ ids \in Nat /\ writes \in Nat /\ copies \in Nat /\ failures \in Nat
    /\ ids <= MaxId /\ writes <= MaxWrites /\ copies <= MaxCopies /\ failures <= MaxFailures

LEMMA BoundedNext ==
    ASSUME Bounded, [Next]_vars
    PROVE  Bounded'
<1>1. {MaxWrites, MaxCopies, MaxFailures, MaxId} \subseteq Nat
    BY ExchangeAssumption
<1>2. ASSUME NEW s \in Site, NEW path, NEW content, Write(s, path, content) PROVE Bounded'
    BY <1>1, <1>2 DEF Bounded, Write
<1>3. ASSUME NEW s, NEW f, Publish(s, f) \/ Skip(s, f) PROVE Bounded'
    BY <1>1, <1>3 DEF Bounded, Publish, Skip
<1>4. ASSUME NEW s, NEW f, PublishFails(s, f) PROVE Bounded'
    BY <1>1, <1>4 DEF Bounded, PublishFails
<1>5. ASSUME NEW s, NEW pair, Carry(s, pair) PROVE Bounded'
    BY <1>1, <1>5 DEF Bounded, Carry
<1>6. ASSUME NEW t, NEW pair, DeliverLapses(t, pair) PROVE Bounded'
    BY <1>1, <1>6 DEF Bounded, DeliverLapses
<1>7. ASSUME NEW t, NEW pair, Deliver(t, pair) \/ Refuse(t, pair) \/ Drop(t, pair)
      PROVE  Bounded'
    BY <1>7 DEF Bounded, Deliver, Refuse, Drop
<1>8. CASE UNCHANGED vars
    BY <1>8 DEF Bounded, vars
<1> QED
    BY <1>2, <1>3, <1>4, <1>5, <1>6, <1>7, <1>8 DEF Next, Outbound, Transport, Inbound

(* Types, unique ids, and one file at a path.                              *)
THEOREM TypeCorrect == Spec => []TypeOK
<1> DEFINE Inv == Shape /\ Bounded
<1>1. Init => Inv
    BY ShapeInit, ExchangeAssumption DEF Init, Bounded
<1>2. Inv /\ [Next]_vars => Inv'
    BY ShapeNext, BoundedNext
<1>3. Inv => TypeOK
    BY DEF Shape, Tickets, Disks, Written, Bounded, TypeOK
<1>4. Spec => Init /\ [][Next]_vars
    BY DEF Spec
<1> QED
    BY <1>1, <1>2, <1>3, <1>4, PTL

-----------------------------------------------------------------------------
(* Claims.                                                                 *)

(* Where the pair of a claim may be: with the transport, at the peer in    *)
(* the keeping of the program or of an operator, rebuilt, or with the      *)
(* operator of the site that made the claim and failed.                    *)
Answers(s, key, pair) == pair.origin[1] = s /\ KeyOf(pair) = key
Answered(s, key) ==
    \/ \E pair \in outbox[s] : Answers(s, key, pair)
    \/ \E pair \in inbox[Peer[s]] : Answers(s, key, pair)
    \/ \E pair \in aside[Peer[s]] : Answers(s, key, pair)
    \/ \E r \in rebuilt : Answers(s, key, r.pair)
    \/ \E pair \in Failed(s) : Answers(s, key, pair)

Claims == \A s \in Site : \A key \in markers[s] : Answered(s, key)

LEMMA NewRecord ==
    ASSUME NEW t, NEW pair, Delivers(t, pair)
    PROVE  \E r \in rebuilt' : r.pair = pair
<1> DEFINE path == Target(Bases[t][ByAlias(Bases[t], pair.alias)], pair.dir, pair.name)
           r == [site |-> t, path |-> path, pair |-> pair]
<1>1. rebuilt' = rebuilt \cup {r}
    BY WhatDeliversDoes
<1>2. r.pair = pair
    OBVIOUS
<1> HIDE DEF r
<1> QED
    BY <1>1, <1>2

LEMMA RecordedNext ==
    ASSUME Shape, Recorded, [Next]_vars
    PROVE  Recorded'
<1>1. ASSUME NEW t \in Site, NEW pair \in inbox[t], Delivers(t, pair)
      PROVE  Recorded'
    <2>1. /\ \/ delivered' = delivered
             \/ delivered' = [delivered EXCEPT ![t] = @ \cup {pair.id}]
          /\ delivered \in [Site -> SUBSET (1..ids)]
        BY <1>1, WhatDeliversDoes DEF Shape, Tickets
    <2>2. \A r \in rebuilt : r \in rebuilt'
        BY <1>1, WhatDeliversDoes
    <2>3. \E r \in rebuilt' : r.pair.id = pair.id
        BY <1>1, NewRecord
    <2>4. \A u \in Site : \A id \in delivered'[u] : id \in delivered[u] \/ id = pair.id
        BY <2>1
    <2> QED
        BY <2>2, <2>3, <2>4 DEF Recorded
<1>2. CASE UNCHANGED <<delivered, rebuilt>>
    BY <1>2 DEF Recorded
<1> QED
    BY <1>1, <1>2 DEF Next, Outbound, Transport, Inbound, Delivers, Write, Publish,
       PublishFails, Skip, Carry, Refuse, Drop, vars

LEMMA ClaimsNext ==
    ASSUME Shape, Recorded, Claims, [Next]_vars
    PROVE  Claims'
<1>0. Functions /\ Tickets
    BY DEF Shape
<1> USE DEF Functions
<1>1. ASSUME NEW s \in Site, NEW f \in disk[s], Submits(s, f)
      PROVE  Claims'
    <2>0. PICK new : new = Pair(s, f, ids + 1)
        OBVIOUS
    <2> DEFINE claim == KeyOf(new)
    <2>1. f \in RoutedAt(s)
        BY <1>1, WhatSubmitsDoes DEF Detected, Eligible, Shape, Disks, RoutedAt
    <2>2. new.origin[1] = s /\ new.id = ids + 1 /\ claim = KeyOf(Pair(s, f, 0))
        BY <2>0, <2>1, PairParts
    <2>3. new.id # 0
        BY <1>0, <2>2 DEF Tickets
    <2>4. \A t \in Site : \A key \in markers'[t] : key \in markers[t] \/ (t = s /\ key = claim)
        BY <1>0, <1>1, <2>2, WhatSubmitsDoes DEF Marked
    <2>5. \A t \in Site : outbox[t] \subseteq outbox'[t] /\ aside[t] \subseteq aside'[t]
        BY <1>0, <1>1, WhatSubmitsDoes
    <2>6. new \in outbox'[s] \/ new \in aside'[s]
        BY <1>0, <1>1, <2>0, WhatSubmitsDoes
    <2>7. inbox' = inbox /\ rebuilt' = rebuilt
        BY <1>1, WhatSubmitsDoes
    <2> HIDE DEF claim
    <2>8. Answers(s, claim, new)
        BY <2>2 DEF Answers, claim
    <2>9. Answered(s, claim)'
        BY <2>3, <2>6, <2>8 DEF Answered, Failed
    <2>10. \A t \in Site : \A key \in markers[t] : Answered(t, key)'
        BY <2>5, <2>7, ExchangeAssumption DEF Claims, Answered, Failed
    <2> QED
        BY <2>4, <2>9, <2>10 DEF Claims
<1>2. ASSUME NEW s \in Site, NEW f \in disk[s], Skip(s, f)
      PROVE  Claims'
    <2>1. \A t \in Site : aside[t] \subseteq aside'[t]
        BY <1>0, <1>2 DEF Skip
    <2>2. UNCHANGED <<markers, outbox, inbox, rebuilt>>
        BY <1>2 DEF Skip
    <2> QED
        BY <2>1, <2>2, ExchangeAssumption DEF Claims, Answered, Failed
<1>3. ASSUME NEW s \in Site, NEW pair \in outbox[s], Carry(s, pair)
      PROVE  Claims'
    <2>1. /\ \A t \in Site : inbox[t] \subseteq inbox'[t]
          /\ pair \in inbox'[Peer[s]]
        <3>1. inbox' = [inbox EXCEPT ![Peer[s]] = @ \cup {pair}] /\ Peer[s] \in Site
            BY <1>3, ExchangeAssumption DEF Carry
        <3> QED
            BY <1>0, <3>1
    <2>3. \A t \in Site : \A p \in outbox[t] : p \in outbox'[t] \/ (t = s /\ p = pair)
        <3>1. outbox' = [outbox EXCEPT ![s] = @ \ {pair}] \/ outbox' = outbox
            BY <1>3 DEF Carry
        <3> QED
            BY <1>0, <3>1
    <2>2. UNCHANGED <<markers, aside, rebuilt>>
        BY <1>3 DEF Carry
    <2> QED
        BY <2>1, <2>2, <2>3, ExchangeAssumption DEF Claims, Answered, Failed
<1>4. ASSUME NEW t \in Site, NEW pair \in inbox[t],
             Delivers(t, pair) \/ Refuse(t, pair) \/ Drop(t, pair)
      PROVE  Claims'
    <2>1. \A u \in Site : \A p \in inbox[u] : p \in inbox'[u] \/ (u = t /\ p = pair)
        BY <1>0, <1>4, WhatDeliversDoes DEF Refuse, Drop, Taken
    <2>2. /\ UNCHANGED <<markers, outbox>>
          /\ \A u \in Site : aside[u] \subseteq aside'[u]
          /\ \A r \in rebuilt : r \in rebuilt'
        BY <1>0, <1>4, WhatDeliversDoes DEF Refuse, Drop
    <2>3. pair \in aside'[t] \/ \E r \in rebuilt' : r.pair = pair
        <3>1. CASE Delivers(t, pair)
            BY <3>1, NewRecord
        <3>2. CASE Refuse(t, pair)
            BY <1>0, <3>2 DEF Refuse
        <3>3. CASE Drop(t, pair)
            <4>1. PICK r \in rebuilt : r.pair.id = pair.id
                BY <3>3 DEF Drop, Recorded
            <4>2. r.pair \in Pairs /\ pair \in Pairs
                BY <1>4, PairsNow
            <4>3. r.pair = pair
                BY <1>0, <4>1, <4>2 DEF Tickets
            <4> QED
                BY <2>2, <4>3
        <3> QED
            BY <1>4, <3>1, <3>2, <3>3
    <2> SUFFICES ASSUME NEW s \in Site, NEW key \in markers[s] PROVE Answered(s, key)'
        BY <2>2 DEF Claims
    <2>4. Answered(s, key)
        BY DEF Claims
    <2>5. Peer[s] \in Site
        BY ExchangeAssumption
    <2>6. CASE \E p \in inbox[Peer[s]] : Answers(s, key, p)
        <3>1. PICK p \in inbox[Peer[s]] : Answers(s, key, p)
            BY <2>6
        <3>2. CASE p \in inbox'[Peer[s]]
            BY <3>1, <3>2 DEF Answered
        <3>3. CASE Peer[s] = t /\ p = pair
            BY <2>3, <3>1, <3>3 DEF Answered
        <3> QED
            BY <2>1, <2>5, <3>2, <3>3
    <2> QED
        BY <2>2, <2>4, <2>5, <2>6 DEF Answered, Failed
<1>5. CASE UNCHANGED <<markers, aside, outbox, inbox, rebuilt>>
    BY <1>5 DEF Claims, Answered, Failed
<1> QED
    BY <1>1, <1>2, <1>3, <1>4, <1>5 DEF Next, Outbound, Transport, Inbound, Submits, Delivers,
       Write, vars

(***************************************************************************)
(* A file skipped as a duplicate stands for one that is not lost, though   *)
(* pipelines fail after the claim or the delivery and the transport        *)
(* reorders and repeats: a pair of the claimed content, alias and directory*)
(* is under way to the peer, with it, or with the operator of the site     *)
(* whose pipeline failed (that it was routed, as the code says, is false). *)
(***************************************************************************)
THEOREM ClaimsAreKept == Spec => []ClaimIsKept
<1> DEFINE Inv == Shape /\ Recorded /\ Claims
<1>1. Init => Inv
    BY ShapeInit DEF Init, Recorded, Claims
<1>2. Inv /\ [Next]_vars => Inv'
    BY ShapeNext, RecordedNext, ClaimsNext
<1>3. Inv => ClaimIsKept
    BY DEF Claims, Answered, Answers, Failed, Routed, ClaimIsKept
<1>4. Spec => Init /\ [][Next]_vars
    BY DEF Spec
<1> QED
    BY <1>1, <1>2, <1>3, <1>4, PTL

-----------------------------------------------------------------------------
(* The tree.  Base folders are apart: none lies in another, no two of one  *)
(* host have one alias, and no user writes a file in place of one.         *)

IsBase(s, path) == \E i \in DOMAIN Bases[s] : Bases[s][i].path = path
Apart ==
    \A s \in Site :
        /\ ~Nested(Bases[s])
        /\ \A i, j \in DOMAIN Bases[s] : Bases[s][i].alias = Bases[s][j].alias => i = j
        /\ \A path \in Places[s] : ~IsBase(s, path)

Filed == \A s \in Site : \A f \in disk[s] : ~IsBase(s, f.path)

(* A pair tells where its file lay below the base folder that owned it.    *)
IsSlip(p, s, path) ==
    LET base == Bases[s][Owner(Bases[s], path)]
    IN  /\ path \in Path /\ Owner(Bases[s], path) # 0 /\ ~IsBase(s, path)
        /\ p.origin = <<s, path>>
        /\ p.alias = base.alias
        /\ p.dir = RelativeDir(base, path)
        /\ p.name = Last(path)
IsAddressed(p) == \E s \in Site : \E path \in Path : IsSlip(p, s, path)
Addressed == \A p \in Pairs : IsAddressed(p)

IsRebuilt(r) ==
    LET base == ByAlias(Bases[r.site], r.pair.alias)
    IN  /\ r.site \in Site
        /\ base # 0
        /\ r.path = Target(Bases[r.site][base], r.pair.dir, r.pair.name)
Rebuilt == \A r \in rebuilt : IsRebuilt(r)

Order == Filed /\ Addressed /\ Rebuilt

(* The base folder that owns a file lies above it.                         *)
LEMMA BaseAbove ==
    ASSUME NEW s \in Site, NEW path \in Path, Owner(Bases[s], path) # 0, ~IsBase(s, path)
    PROVE  LET base == Bases[s][Owner(Bases[s], path)]
           IN  base \in Folder /\ Owns(base, path) /\ Len(base.path) < Len(path)
<1> DEFINE base == Bases[s][Owner(Bases[s], path)]
<1>1. Bases[s] \in Seq(Folder)
    BY ExchangeAssumption
<1>2. Owner(Bases[s], path) \in DOMAIN Bases[s] /\ Owns(base, path)
    BY <1>1, OwnerOwns
<1>3. base \in Folder /\ base.path # path
    BY <1>1, <1>2 DEF IsBase
<1>4. base.path \in Path /\ Len(base.path) \in Nat /\ Len(path) \in Nat
    BY <1>3 DEF Folder, Path
<1>5. /\ Len(base.path) <= Len(path)
      /\ \A i \in 1..Len(base.path) : base.path[i] = path[i]
    BY <1>2, <1>4, PrefixElements DEF Owns
<1>6. Len(base.path) # Len(path)
    BY <1>3, <1>4, <1>5 DEF Path
<1> QED
    BY <1>2, <1>3, <1>4, <1>5, <1>6

(* Below a site's base folder a rebuilt file is what its pair says.        *)
LEMMA RebuiltBelow ==
    ASSUME Apart, NEW t \in Site, NEW pair, pair.dir \in Path, pair.name \in Name,
           ByAlias(Bases[t], pair.alias) # 0,
           NEW path,
           path = Target(Bases[t][ByAlias(Bases[t], pair.alias)], pair.dir, pair.name)
    PROVE  /\ Below(t, path) = <<pair.alias, pair.dir \o <<pair.name>>>>
           /\ path \in Path /\ ~IsBase(t, path)
<1> DEFINE alias == pair.alias
           dir == pair.dir
           name == pair.name
           i == ByAlias(Bases[t], alias)
           base == Bases[t][i]
<1>1. /\ i \in DOMAIN Bases[t] /\ base.alias = alias /\ base \in Folder
      /\ Bases[t] \in Seq(Folder) /\ ~Nested(Bases[t])
    BY AliasFound, ExchangeAssumption DEF Apart
<1>2. /\ path \in Path /\ Owns(base, path) /\ Len(base.path) < Len(path)
      /\ Last(path) = name /\ RelativeDir(base, path) = dir
    BY <1>1, TargetParts
<1>3. Owner(Bases[t], path) = i
    BY <1>1, <1>2, OwnerOfTheWalk
<1>4. RelativeFile(base, path) = dir \o <<name>>
    BY <1>1, <1>2, RelativeParts
<1>5. ~IsBase(t, path)
    <2> SUFFICES ASSUME NEW j \in DOMAIN Bases[t], Bases[t][j].path = path PROVE FALSE
        BY DEF IsBase
    <2>1. Owns(Bases[t][j], path)
        BY <1>2, PrefixElements DEF Owns, Path
    <2>2. i = j
        BY <1>1, <1>2, <2>1, OneOwner
    <2> QED
        BY <1>1, <1>2, <2>2 DEF Folder, Path
<1> QED
    BY <1>1, <1>2, <1>3, <1>4, <1>5 DEF Below

LEMMA SlipParts ==
    ASSUME NEW p, NEW s \in Site, NEW path \in Path, IsSlip(p, s, path)
    PROVE  /\ p.dir \in Path /\ p.name \in Name
           /\ p.origin[1] = s /\ p.origin[2] = path
           /\ Below(s, path) = <<p.alias, p.dir \o <<p.name>>>>
<1> DEFINE base == Bases[s][Owner(Bases[s], path)]
<1>1. base \in Folder /\ Owns(base, path) /\ Len(base.path) < Len(path)
    BY BaseAbove DEF IsSlip
<1>2. /\ RelativeDir(base, path) \in Path /\ Last(path) \in Name
      /\ RelativeFile(base, path) = RelativeDir(base, path) \o <<Last(path)>>
    BY <1>1, RelativeParts
<1> QED
    BY <1>2 DEF IsSlip, Below

(* Two files of a host at one place below one alias are one file.          *)
LEMMA OnePlace ==
    ASSUME Apart, NEW p, NEW q, NEW s \in Site, NEW path \in Path, NEW other \in Path,
           IsSlip(p, s, path), IsSlip(q, s, other), Below(s, path) = Below(s, other)
    PROVE  path = other
<1> DEFINE i == Owner(Bases[s], path)
           j == Owner(Bases[s], other)
<1>1. /\ i \in DOMAIN Bases[s] /\ j \in DOMAIN Bases[s]
    BY ExchangeAssumption, OwnerOwns DEF IsSlip
<1>2. i = j
    BY <1>1 DEF Below, Apart
<1>3. /\ Bases[s][i] \in Folder /\ Owns(Bases[s][i], path)
      /\ Len(Bases[s][i].path) < Len(path)
    BY BaseAbove DEF IsSlip
<1>4. /\ Owns(Bases[s][i], other) /\ Len(Bases[s][i].path) < Len(other)
    BY <1>2, BaseAbove DEF IsSlip
<1>5. RelativeFile(Bases[s][i], path) = RelativeFile(Bases[s][i], other)
    BY <1>2 DEF Below
<1>6. /\ RelativeDir(Bases[s][i], path) = RelativeDir(Bases[s][i], other)
      /\ Last(path) = Last(other)
    <2>1. ASSUME NEW x \in Path, Len(Bases[s][i].path) < Len(x)
          PROVE  Last(x) = RelativeFile(Bases[s][i], x)[Len(RelativeFile(Bases[s][i], x))]
        <3> DEFINE n == Len(Bases[s][i].path)
                   file == RelativeFile(Bases[s][i], x)
        <3>1. n \in Nat /\ Len(x) \in Nat /\ n < Len(x)
            BY <1>3, <2>1 DEF Folder, Path
        <3>2. Len(file) = Len(x) - n /\ \A k \in 1..Len(file) : file[k] = x[n + k]
            BY <1>3, <2>1, RelativeFileParts
        <3> HIDE DEF n, file
        <3>3. file[Len(file)] = x[Len(x)]
            BY <3>1, <3>2
        <3> QED
            BY <3>3 DEF Last, file
    <2> QED
        BY <1>3, <1>4, <1>5, <2>1 DEF RelativeDir
<1>7. /\ Target(Bases[s][i], RelativeDir(Bases[s][i], path), Last(path)) = path
      /\ Target(Bases[s][i], RelativeDir(Bases[s][i], other), Last(other)) = other
    BY <1>3, <1>4, RoundTrip
<1> QED
    BY <1>6, <1>7

LEMMA OrderIsMirrored ==
    ASSUME Apart, Order
    PROVE  Mirrored
<1>1. ASSUME NEW r \in rebuilt
      PROVE  \E s \in Site : \E path \in Path :
                /\ IsSlip(r.pair, s, path)
                /\ r.pair.origin = <<s, path>>
                /\ Below(r.site, r.path) = Below(s, path)
    <2>1. r.pair \in Pairs /\ IsRebuilt(r)
        BY PairsNow DEF Order, Rebuilt
    <2>2. PICK s \in Site, path \in Path : IsSlip(r.pair, s, path)
        BY <2>1 DEF Order, Addressed, IsAddressed
    <2>3. /\ r.pair.dir \in Path /\ r.pair.name \in Name
          /\ Below(s, path) = <<r.pair.alias, r.pair.dir \o <<r.pair.name>>>>
        BY <2>2, SlipParts
    <2>4. Below(r.site, r.path) = <<r.pair.alias, r.pair.dir \o <<r.pair.name>>>>
        BY <2>1, <2>3, RebuiltBelow DEF IsRebuilt
    <2> QED
        BY <2>2, <2>3, <2>4 DEF IsSlip
<1>2. ASSUME NEW r \in rebuilt
      PROVE  Below(r.site, r.path) = Below(r.pair.origin[1], r.pair.origin[2])
    BY <1>1
<1>3. ASSUME NEW r \in rebuilt, NEW q \in rebuilt, r.site = q.site, r.path = q.path,
             r.pair.origin[1] = q.pair.origin[1]
      PROVE  r.pair.origin = q.pair.origin
    <2>1. PICK s \in Site, path \in Path :
             /\ IsSlip(r.pair, s, path) /\ r.pair.origin = <<s, path>>
             /\ Below(r.site, r.path) = Below(s, path)
        BY <1>1
    <2>2. PICK u \in Site, other \in Path :
             /\ IsSlip(q.pair, u, other) /\ q.pair.origin = <<u, other>>
             /\ Below(q.site, q.path) = Below(u, other)
        BY <1>1
    <2>3. s = u
        BY <1>3, <2>1, <2>2
    <2>4. path = other
        BY <1>3, <2>1, <2>2, <2>3, OnePlace
    <2> QED
        BY <2>1, <2>2, <2>3, <2>4
<1> QED
    BY <1>2, <1>3 DEF Mirrored

LEMMA AddressedNext ==
    ASSUME Shape, Filed, Addressed, [Next]_vars
    PROVE  Addressed'
<1>1. ASSUME NEW s \in Site, NEW f \in disk[s], Submits(s, f)
      PROVE  Addressed'
    <2>1. /\ f.path \in Path /\ Owner(Bases[s], f.path) # 0 /\ ~IsBase(s, f.path)
        BY <1>1, WhatSubmitsDoes DEF Shape, Disks, Written, Filed, Detected, Eligible
    <2>2. IsAddressed(Pair(s, f, ids + 1))
        BY <2>1 DEF IsAddressed, IsSlip, Pair
    <2> QED
        BY <1>1, <2>2, PublishedPair DEF Addressed
<1>2. CASE ~\E s \in Site : \E f \in disk[s] : Submits(s, f)
    BY <1>2, OldPairs DEF Addressed
<1> QED
    BY <1>1, <1>2

LEMMA RebuiltNext ==
    ASSUME Rebuilt, [Next]_vars
    PROVE  Rebuilt'
<1>1. ASSUME NEW t \in Site, NEW pair \in inbox[t], Delivers(t, pair)
      PROVE  Rebuilt'
    <2> DEFINE base == ByAlias(Bases[t], pair.alias)
               path == Target(Bases[t][base], pair.dir, pair.name)
               r == [site |-> t, path |-> path, pair |-> pair]
    <2>1. rebuilt' = rebuilt \cup {r} /\ base # 0
        BY <1>1, WhatDeliversDoes
    <2>2. IsRebuilt(r)
        BY <2>1 DEF IsRebuilt
    <2> HIDE DEF r
    <2> QED
        BY <2>1, <2>2 DEF Rebuilt
<1>2. CASE UNCHANGED rebuilt
    BY <1>2 DEF Rebuilt
<1> QED
    BY <1>1, <1>2 DEF Next, Outbound, Transport, Inbound, Delivers, Write, Publish,
       PublishFails, Skip, Carry, Refuse, Drop, vars

LEMMA FiledNext ==
    ASSUME Apart, Shape, Order, [Next]_vars
    PROVE  Filed'
<1>0. DOMAIN disk = Site /\ Filed
    BY DEF Shape, Functions, Order
<1>1. ASSUME NEW t \in Site, NEW path, NEW content, ~IsBase(t, path),
             disk' = Placed(t, File(path, content))
      PROVE  Filed'
    <2>1. \A s \in Site : \A f \in disk'[s] :
             f \in disk[s] \/ (s = t /\ f = File(path, content))
        BY <1>0, <1>1 DEF Placed
    <2> QED
        BY <1>0, <1>1, <2>1 DEF Filed, File
<1>2. ASSUME NEW s \in Site, NEW path \in Places[s], NEW content \in Content,
             Write(s, path, content)
      PROVE  Filed'
    BY <1>1, <1>2 DEF Write, Apart
<1>3. ASSUME NEW t \in Site, NEW pair \in inbox[t], Delivers(t, pair)
      PROVE  Filed'
    <2> DEFINE base == ByAlias(Bases[t], pair.alias)
               path == Target(Bases[t][base], pair.dir, pair.name)
    <2>1. disk' = Placed(t, File(path, pair.content)) /\ base # 0
        BY <1>3, WhatDeliversDoes
    <2>2. pair \in Pairs
        BY <1>3, PairsNow
    <2>3. pair.dir \in Path /\ pair.name \in Name
        BY <2>2, TicketParts DEF Shape, Tickets
    <2>4. ~IsBase(t, path)
        BY <2>1, <2>3, RebuiltBelow
    <2> QED
        BY <1>1, <2>1, <2>4
<1>4. ASSUME NEW s \in Site, NEW f \in disk[s], Submits(s, f) \/ Skip(s, f)
      PROVE  Filed'
    <2>1. \A t \in Site : disk'[t] \subseteq disk[t]
        BY <1>0, <1>4, WhatSubmitsDoes DEF Skip
    <2> QED
        BY <1>0, <2>1 DEF Filed
<1>5. CASE UNCHANGED disk
    BY <1>0, <1>5 DEF Filed
<1> QED
    BY <1>2, <1>3, <1>4, <1>5 DEF Next, Outbound, Transport, Inbound, Submits, Delivers,
       Carry, Refuse, Drop, vars

(***************************************************************************)
(* The tree is mirrored: a rebuilt file lies below its base folder as its  *)
(* source did, and two sources of a host are never rebuilt at one place,   *)
(* if on every host no base folder lies in another and no two have one     *)
(* alias.                                                                  *)
(***************************************************************************)
THEOREM TreeIsMirrored ==
    ASSUME Apart
    PROVE  Spec => []Mirrored
<1> DEFINE Inv == Shape /\ Order
<1>1. Init => Inv
    <2> SUFFICES ASSUME Init PROVE Inv
        OBVIOUS
    <2>1. \A p : p \notin Pairs
        BY PairsNow DEF Init
    <2> QED
        BY <2>1, ShapeInit DEF Init, Order, Filed, Addressed, Rebuilt
<1>2. Inv /\ [Next]_vars => Inv'
    BY ShapeNext, FiledNext, AddressedNext, RebuiltNext DEF Order
<1>3. Inv => Mirrored
    BY OrderIsMirrored
<1>4. Spec => Init /\ [][Next]_vars
    BY DEF Spec
<1> QED
    BY <1>1, <1>2, <1>3, <1>4, PTL

-----------------------------------------------------------------------------
(* What is received.                                                       *)

Sited == \A r \in rebuilt : r.site \in Site

LEMMA SitedNext ==
    ASSUME Sited, [Next]_vars
    PROVE  Sited'
<1>1. ASSUME NEW t \in Site, NEW pair \in inbox[t], Delivers(t, pair)
      PROVE  Sited'
    BY <1>1, WhatDeliversDoes DEF Sited
<1>2. CASE UNCHANGED rebuilt
    BY <1>2 DEF Sited
<1> QED
    BY <1>1, <1>2 DEF Next, Outbound, Transport, Inbound, Delivers, Write, Publish,
       PublishFails, Skip, Carry, Refuse, Drop, vars

(* A file placed takes the place of one file at most.                      *)
LEMMA PlacedStays ==
    ASSUME DOMAIN disk = Site, NEW s \in Site, NEW file, disk' = Placed(s, file),
           NEW t \in Site, NEW f \in disk[t]
    PROVE  \E g \in disk'[t] : g.path = f.path
<1>1. CASE t = s /\ f.path = file.path
    <2>1. file \in disk'[t]
        BY <1>1 DEF Placed
    <2> QED
        BY <1>1, <2>1
<1>2. CASE t # s \/ f.path # file.path
    <2>1. f \in disk'[t]
        BY <1>2 DEF Placed, At
    <2> QED
        BY <2>1
<1> QED
    BY <1>1, <1>2

LEMMA StaysOnTheDisk ==
    ASSUME Shape, [Next]_vars, NEW t \in Site, ~DoesOutbound(t), NEW f \in disk[t]
    PROVE  \E g \in disk'[t] : g.path = f.path
<1>0. DOMAIN disk = Site
    BY DEF Shape, Functions
<1>1. ASSUME NEW s \in Site, NEW g \in disk[s], Submits(s, g) \/ Skip(s, g)
      PROVE  f \in disk'[t]
    <2>1. s # t /\ disk' = [disk EXCEPT ![s] = @ \ {g}]
        BY <1>1, WhatSubmitsDoes DEF Skip, Detected
    <2> QED
        BY <1>0, <2>1
<1>2. CASE \E s \in Site : \E file : disk' = Placed(s, file)
    BY <1>0, <1>2, PlacedStays
<1>3. CASE UNCHANGED disk
    BY <1>3
<1> QED
    BY <1>1, <1>2, <1>3 DEF Next, Outbound, Transport, Inbound, Submits, Write, Deliver,
       DeliverLapses, Carry, Refuse, Drop, vars

LEMMA BroughtBackAnew ==
    ASSUME Shape, Bounded, [Next]_vars, NEW s \in Site, NEW file,
           AllRecorded(s, file), file \in disk'[s], file \notin disk[s]
    PROVE  writes' # writes \/ rebuilt' # rebuilt
<1>0. DOMAIN disk = Site
    BY DEF Shape, Functions
<1>1. ASSUME NEW t \in Site, NEW path \in Places[t], NEW content \in Content,
             Write(t, path, content)
      PROVE  writes' # writes
    BY <1>1 DEF Write, Bounded
<1>2. ASSUME NEW t \in Site, NEW pair \in inbox[t], Delivers(t, pair)
      PROVE  rebuilt' # rebuilt
    <2> DEFINE path == Target(Bases[t][ByAlias(Bases[t], pair.alias)], pair.dir, pair.name)
               r == [site |-> t, path |-> path, pair |-> pair]
    <2>1. /\ rebuilt' = rebuilt \cup {r} /\ pair.id \notin delivered[t]
          /\ disk' = Placed(t, File(path, pair.content))
        BY <1>2, WhatDeliversDoes
    <2>2. s = t /\ file = File(path, pair.content)
        BY <1>0, <2>1 DEF Placed
    <2>3. r.site = s /\ r.pair = pair /\ File(r.path, r.pair.content) = file
        BY <2>2
    <2> HIDE DEF r
    <2>4. r \notin rebuilt
        BY <2>1, <2>2, <2>3 DEF AllRecorded
    <2> QED
        BY <2>1, <2>4
<1>3. ASSUME NEW t \in Site, NEW f \in disk[t], Submits(t, f) \/ Skip(t, f)
      PROVE  FALSE
    <2>1. disk' = [disk EXCEPT ![t] = @ \ {f}]
        BY <1>3, WhatSubmitsDoes DEF Skip
    <2> QED
        BY <1>0, <2>1
<1>4. CASE UNCHANGED disk
    BY <1>4
<1> QED
    BY <1>1, <1>2, <1>3, <1>4 DEF Next, Outbound, Transport, Inbound, Submits, Delivers,
       Carry, Refuse, Drop, vars

(***************************************************************************)
(* At a site that only receives a file gives way to another at its path    *)
(* alone; and where the deliveries of a version are all recorded, copies   *)
(* of their pairs, however late, do not bring it back.                     *)
(***************************************************************************)
THEOREM ReceivedIsKept == Spec => ReceivedStays
<1> DEFINE Inv == Shape /\ Bounded /\ Sited
           Kept ==
             /\ \A t \in Site : ~DoesOutbound(t) =>
                  \A f \in disk[t] : \E g \in disk'[t] : g.path = f.path
             /\ \A r \in rebuilt :
                  LET file == File(r.path, r.pair.content)
                  IN  AllRecorded(r.site, file) /\ file \in disk'[r.site]
                                                /\ file \notin disk[r.site]
                         => writes' # writes \/ rebuilt' # rebuilt
<1>1. Init => Inv
    BY ShapeInit, ExchangeAssumption DEF Init, Sited, Bounded
<1>2. Inv /\ [Next]_vars => Inv'
    BY ShapeNext, BoundedNext, SitedNext
<1>3. Inv /\ [Next]_vars => [Kept]_vars
    <2> SUFFICES ASSUME Shape, Bounded, Sited, [Next]_vars PROVE Kept
        OBVIOUS
    <2>1. ASSUME NEW r \in rebuilt, NEW file, AllRecorded(r.site, file),
                 file \in disk'[r.site], file \notin disk[r.site]
          PROVE  writes' # writes \/ rebuilt' # rebuilt
        <3>1. r.site \in Site
            BY DEF Sited
        <3> QED
            BY <2>1, <3>1, BroughtBackAnew
    <2> QED
        BY <2>1, StaysOnTheDisk
<1>4. Spec => Init /\ [][Next]_vars
    BY DEF Spec
<1> QED
    BY <1>1, <1>2, <1>3, <1>4, PTL DEF ReceivedStays
=============================================================================
