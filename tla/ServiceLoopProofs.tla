------------------------- MODULE ServiceLoopProofs -------------------------
(***************************************************************************)
(* What ServiceLoop promises for any files, hosts, number of workers and   *)
(* bounds: the pool and the list it works off agree, nothing but a crash   *)
(* or Ctrl+C cuts a pipeline short, and the two halves of a pass never     *)
(* overlap.                                                                *)
(***************************************************************************)
EXTENDS ServiceLoop, TLAPS, FiniteSetTheorems, SequenceTheorems

(***************************************************************************)
(* The two halves of a pass are never at work together: while a payload is *)
(* in a pipeline no file of a base folder is, and none is waiting either   *)
(* (orchestrator.py:99-134, collect_inbound follows the outbound pool).    *)
(***************************************************************************)
HalvesApart == running \cup ToSet(queue) \cup raised \subseteq ItemsOf(half)

(***************************************************************************)
(* Files are begun in the order of the list: what waits was listed after   *)
(* what is in a pipeline (orchestrator.py:133, pool.map).                  *)
(***************************************************************************)
InOrder == \A i \in running, j \in ToSet(queue) : Before(i, j)

(***************************************************************************)
(* A file that has left its place was processed to the end, unless a       *)
(* pipeline was cut short.                                                 *)
(***************************************************************************)
GoneWasProcessed == \A i \in Items : place[i] = "gone" => i \in tried \/ cut # {}

(***************************************************************************)
(* A stop that was heard is not forgotten before the process has ended     *)
(* (orchestrator.py:171): the safety part of StopHeard.                    *)
(***************************************************************************)
StopIsKept == [][stop => stop' \/ phase \in Ended]_vars

(***************************************************************************)
(* The inductive invariant: the list of the half with what is still to be  *)
(* begun, in a pipeline or has raised, and the rest of the process.        *)
(***************************************************************************)
Pool ==
    /\ {queue, listed} \subseteq Seq(Items) /\ IsSuffix(queue, listed)
    /\ \A m, n \in DOMAIN listed : listed[m] = listed[n] => m = n
    /\ running \subseteq ToSet(listed) /\ raised \subseteq ToSet(listed) \cap Raising
    /\ running \cap ToSet(queue) = {} /\ Cardinality(running) <= Width
    /\ HalvesApart
    /\ InOrder

(* Between two halves nothing is to be begun or in a pipeline; where there *)
(* is no orchestrator yet, none has heard a stop.                          *)
Quiet ==
    /\ phase # "running" => queue = <<>>
    /\ phase \notin {"running", "failing"} => running = {} /\ raised = {}
    /\ phase \in {"loading", "reconciling"} => ~stop

Control ==
    /\ host \in Hosts /\ phase \in Phases /\ half \in Halves
    /\ {stop, wanted} \subseteq BOOLEAN
    /\ place \in [Items -> {"absent", "there", "gone"}]
    /\ tried \subseteq Items /\ cut \subseteq {"interrupt", "crash"}
    /\ crashes \in 0..MaxCrashes /\ requests \in 0..MaxRequests
    /\ OnlyInterruptsCut
    /\ Quiet
    /\ GoneWasProcessed

Inv == Pool /\ Control

-----------------------------------------------------------------------------
(* Sequences.                                                              *)

LEMMA PrefixPointwise ==
    ASSUME NEW S, NEW s \in Seq(S), NEW t \in Seq(S)
    PROVE  IsPrefix(s, t) <=> Len(s) <= Len(t) /\ \A i \in 1..Len(s) : s[i] = t[i]
BY DEF IsPrefix

LEMMA ReverseElements ==
    ASSUME NEW S, NEW s \in Seq(S)
    PROVE  /\ Reverse(s) \in Seq(S) /\ Len(Reverse(s)) = Len(s)
           /\ \A i \in 1..Len(s) : Reverse(s)[i] = s[Len(s) - i + 1]
BY DEF Reverse

(* A suffix, element by element.                                           *)
LEMMA SuffixPointwise ==
    ASSUME NEW S, NEW s \in Seq(S), NEW t \in Seq(S)
    PROVE  IsSuffix(s, t) <=>
             /\ Len(s) <= Len(t)
             /\ \A i \in 1..Len(s) : s[i] = t[Len(t) - Len(s) + i]
<1> DEFINE k == Len(t) - Len(s)
<1>1. Len(s) \in Nat /\ Len(t) \in Nat
    OBVIOUS
<1>2. /\ IsSuffix(s, t) <=>
             /\ Len(Reverse(s)) <= Len(Reverse(t))
             /\ \A i \in 1..Len(Reverse(s)) : Reverse(s)[i] = Reverse(t)[i]
    BY ReverseElements, PrefixPointwise DEF IsSuffix
<1>3. ASSUME Len(s) <= Len(t)
      PROVE  (\A i \in 1..Len(s) : Reverse(s)[i] = Reverse(t)[i])
               <=> \A i \in 1..Len(s) : s[i] = t[k + i]
    <2>1. \A i \in 1..Len(s) : /\ Len(s) - i + 1 \in 1..Len(s)
                               /\ Len(s) - (Len(s) - i + 1) + 1 = i
                               /\ k + (Len(s) - i + 1) = Len(t) - i + 1
                               /\ i \in 1..Len(t)
        BY <1>1, <1>3
    <2>2. \A i \in 1..Len(s) : /\ Reverse(s)[i] = s[Len(s) - i + 1]
                               /\ Reverse(t)[i] = t[Len(t) - i + 1]
        BY <2>1, ReverseElements
    <2> HIDE DEF k
    <2>3. ASSUME \A i \in 1..Len(s) : Reverse(s)[i] = Reverse(t)[i], NEW i \in 1..Len(s)
          PROVE  s[i] = t[k + i]
        <3> DEFINE j == Len(s) - i + 1
        <3>1. j \in 1..Len(s) /\ Len(s) - j + 1 = i /\ k + (Len(s) - j + 1) = Len(t) - j + 1
            BY <2>1
        <3> HIDE DEF j
        <3> QED
            BY <2>2, <2>3, <3>1
    <2>4. ASSUME \A i \in 1..Len(s) : s[i] = t[k + i], NEW i \in 1..Len(s)
          PROVE  Reverse(s)[i] = Reverse(t)[i]
        BY <2>1, <2>2, <2>4
    <2> QED
        BY <2>3, <2>4
<1> QED
    BY <1>2, <1>3, ReverseElements

(* What a suffix shares with the whole, and the empty one.                 *)
LEMMA SuffixFacts ==
    ASSUME NEW S, NEW t \in Seq(S)
    PROVE  /\ IsSuffix(t, t) /\ IsSuffix(<<>>, t)
           /\ \A s \in Seq(S) : IsSuffix(s, t) => ToSet(s) \subseteq ToSet(t)
<1>1. IsSuffix(t, t)
    BY SuffixPointwise
<1>2. ASSUME NEW s \in Seq(S), Len(s) = 0
      PROVE  IsSuffix(s, t)
    <2>1. Len(s) <= Len(t) /\ \A i \in 1..Len(s) : s[i] = t[Len(t) - Len(s) + i]
        BY <1>2
    <2> QED
        BY <2>1, SuffixPointwise
<1>3. IsSuffix(<<>>, t)
    <2>1. <<>> \in Seq(S) /\ Len(<<>>) = 0
        OBVIOUS
    <2> QED
        BY <1>2, <2>1
<1>4. ASSUME NEW s \in Seq(S), IsSuffix(s, t)
      PROVE  ToSet(s) \subseteq ToSet(t)
    <2>1. Len(s) <= Len(t) /\ \A i \in 1..Len(s) : s[i] = t[Len(t) - Len(s) + i]
        BY <1>4, SuffixPointwise
    <2>2. \A i \in 1..Len(s) : Len(t) - Len(s) + i \in 1..Len(t)
        BY <2>1
    <2>3. ToSet(s) = {s[i] : i \in 1..Len(s)} /\ ToSet(t) = {t[i] : i \in 1..Len(t)}
        BY DEF ToSet
    <2> QED
        BY <2>1, <2>2, <2>3
<1> QED
    BY <1>1, <1>3, <1>4

(* Taking the first element of a suffix of a sequence without repeats.     *)
LEMMA TakeFirst ==
    ASSUME NEW S, NEW t \in Seq(S), NEW s \in Seq(S), s # <<>>, IsSuffix(s, t),
           \A m, n \in DOMAIN t : t[m] = t[n] => m = n
    PROVE  /\ Tail(s) \in Seq(S) /\ IsSuffix(Tail(s), t)
           /\ Head(s) \in S /\ Head(s) \in ToSet(s)
           /\ Head(s) \notin ToSet(Tail(s)) /\ ToSet(Tail(s)) \subseteq ToSet(s)
           /\ \A j \in ToSet(Tail(s)) :
                \E m, n \in DOMAIN t : m < n /\ t[m] = Head(s) /\ t[n] = j
<1> DEFINE k == Len(t) - Len(s)
           rest == Tail(s)
<1>1. /\ Len(s) \in Nat \ {0} /\ Len(t) \in Nat /\ Len(s) <= Len(t)
      /\ \A i \in 1..Len(s) : s[i] = t[k + i]
    BY SuffixPointwise
<1>2. /\ rest \in Seq(S) /\ Len(rest) = Len(s) - 1 /\ Head(s) = s[1]
      /\ \A i \in 1..Len(rest) : rest[i] = s[i + 1]
    BY <1>1
<1>3. k \in Nat /\ Len(t) - Len(rest) = k + 1 /\ DOMAIN t = 1..Len(t)
      /\ \A i \in 1..Len(s) : k + i \in 1..Len(t)
    BY <1>1, <1>2
<1> HIDE DEF k, rest
<1>4. \A i \in 1..Len(rest) : rest[i] = t[k + 1 + i] /\ k + 1 + i \in DOMAIN t
    <2>1. \A i \in 1..Len(rest) : i + 1 \in 1..Len(s) /\ k + (i + 1) = k + 1 + i
        BY <1>1, <1>2, <1>3
    <2> QED
        BY <1>1, <1>2, <1>3, <2>1
<1>5. Head(s) = t[k + 1] /\ k + 1 \in DOMAIN t
    <2>1. 1 \in 1..Len(s)
        BY <1>1
    <2> QED
        BY <1>1, <1>2, <1>3, <2>1
<1>6. ToSet(rest) = {rest[i] : i \in 1..Len(rest)} /\ ToSet(s) = {s[i] : i \in 1..Len(s)}
    <2>1. \A u \in Seq(S) : ToSet(u) = {u[i] : i \in 1..Len(u)}
        BY DEF ToSet
    <2> QED
        BY <1>2, <2>1
<1>7. IsSuffix(rest, t)
    <2>1. Len(rest) <= Len(t) /\ \A i \in 1..Len(rest) : rest[i] = t[Len(t) - Len(rest) + i]
        <3>1. Len(rest) <= Len(t)
            BY <1>1, <1>2
        <3> QED
            BY <1>3, <1>4, <3>1
    <2> QED
        BY <1>2, <2>1, SuffixPointwise
<1>8. \A j \in ToSet(rest) : \E n \in DOMAIN t : k + 1 < n /\ t[n] = j
    <2>1. SUFFICES ASSUME NEW i \in 1..Len(rest)
                   PROVE  \E n \in DOMAIN t : k + 1 < n /\ t[n] = rest[i]
        BY <1>6
    <2>2. k + 1 < k + 1 + i
        BY <1>2, <1>3
    <2> QED
        BY <1>4, <2>2
<1>9. Head(s) \notin ToSet(rest)
    <2>1. SUFFICES ASSUME Head(s) \in ToSet(rest) PROVE FALSE
        OBVIOUS
    <2>2. PICK n \in DOMAIN t : k + 1 < n /\ t[n] = Head(s)
        BY <1>8, <2>1
    <2>3. n = k + 1
        BY <1>5, <2>2
    <2> QED
        BY <1>3, <2>2, <2>3
<1>10. Head(s) \in S /\ Head(s) \in ToSet(s)
    <2>1. 1 \in 1..Len(s)
        BY <1>1
    <2> QED
        BY <1>2, <1>6, <2>1
<1>11. ToSet(rest) \subseteq ToSet(s)
    <2>1. \A i \in 1..Len(rest) : i + 1 \in 1..Len(s)
        BY <1>1, <1>2
    <2> QED
        BY <1>2, <1>6, <2>1
<1> QED
    BY <1>2, <1>5, <1>7, <1>8, <1>9, <1>10, <1>11 DEF rest

(* A list that Collect makes has everything that is there once.            *)
LEMMA Listing ==
    ASSUME NEW S, IsFiniteSet(S), NEW order \in SetToAllKPermutations(S)
    PROVE  /\ order \in Seq(S)
           /\ \A m, n \in DOMAIN order : order[m] = order[n] => m = n
<1>1. PICK T \in SUBSET S : order \in SetToSeqs(T)
    BY DEF SetToAllKPermutations
<1>2. Cardinality(T) \in Nat
    BY FS_Subset, FS_CardinalityType
<1>3. /\ order \in [1..Cardinality(T) -> T]
      /\ \A m, n \in 1..Cardinality(T) : m # n => order[m] # order[n]
    BY <1>1 DEF SetToSeqs
<1> QED
    BY <1>2, <1>3


-----------------------------------------------------------------------------
(* The invariant.                                                          *)

(* What is in the list is an item, so that the pool is finite.             *)
LEMMA PoolIsFinite ==
    ASSUME Pool
    PROVE  /\ ToSet(listed) \subseteq Items
           /\ IsFiniteSet(running) /\ Cardinality(running) \in Nat /\ Width \in Nat \ {0}
<1>1. \A u \in Seq(Items) : ToSet(u) = {u[i] : i \in 1..Len(u)} /\ \A i \in 1..Len(u) : u[i] \in Items
    BY DEF ToSet
<1>2. listed \in Seq(Items)
    BY DEF Pool
<1>3. ToSet(listed) \subseteq Items
    BY <1>1, <1>2
<1>4. IsFiniteSet(Items) /\ running \subseteq Items
    BY <1>3, LoopAssumption DEF Pool, Items
<1> QED
    BY <1>3, <1>4, FS_Subset, FS_CardinalityType, LoopAssumption DEF Width

(* An empty pool, whatever is listed.                                      *)
LEMMA EmptyPool ==
    ASSUME NEW order \in Seq(Items), \A m, n \in DOMAIN order : order[m] = order[n] => m = n,
           listed' = order, queue' \in {order, <<>>}, running' = {}, raised' = {},
           ToSet(queue') \subseteq ItemsOf(half)'
    PROVE  Pool'
<1>1. <<>> \in Seq(Items) /\ IsSuffix(order, order) /\ IsSuffix(<<>>, order)
    BY SuffixFacts
<1>2. Cardinality({}) = 0
    BY FS_EmptySet
<1>3. Width' \in Nat
    BY LoopAssumption DEF Width
<1>4. Cardinality(running') <= Width'
    BY <1>2, <1>3
<1>5. (HalvesApart /\ InOrder)'
    BY DEF HalvesApart, InOrder
<1> QED
    BY <1>1, <1>4, <1>5 DEF Pool

(* Items that leave the pool.                                              *)
LEMMA SmallerPool ==
    ASSUME Pool, UNCHANGED <<listed, half>>, queue' \in {queue, <<>>}, running' \subseteq running,
           raised' \subseteq raised \cup (running \cap Raising)
    PROVE  Pool'
<1>1. ToSet(<<>>) = {} /\ <<>> \in Seq(Items)
    BY DEF ToSet
<1>2. ToSet(queue') \subseteq ToSet(queue) /\ queue' \in Seq(Items)
    BY <1>1 DEF Pool
<1>3. IsSuffix(queue, listed)'
    BY SuffixFacts DEF Pool
<1>4. Cardinality(running') <= Width'
    <2>1. Cardinality(running') <= Cardinality(running) /\ Cardinality(running') \in Nat
        BY PoolIsFinite, FS_Subset, FS_CardinalityType
    <2>2. Width' = Width
        BY DEF Width, Pooled
    <2> QED
        BY <2>1, <2>2, PoolIsFinite DEF Pool
<1>5. HalvesApart'
    BY <1>2 DEF Pool, HalvesApart
<1>6. InOrder'
    BY <1>2 DEF Pool, InOrder, Before
<1> QED
    BY <1>2, <1>3, <1>4, <1>5, <1>6 DEF Pool

(* The next item of the list joins those at work.                          *)
LEMMA BeginKeepsPool ==
    ASSUME Pool, Begin
    PROVE  Pool'
<1>1. queue \in Seq(Items) /\ listed \in Seq(Items) /\ queue # <<>>
    BY DEF Pool, Begin
<1>2. /\ queue' \in Seq(Items) /\ IsSuffix(queue', listed)
      /\ Head(queue) \in ToSet(queue) /\ ToSet(queue) \subseteq ToSet(listed)
      /\ Head(queue) \notin ToSet(queue') /\ ToSet(queue') \subseteq ToSet(queue)
      /\ \A j \in ToSet(queue') : Before(Head(queue), j)
    BY <1>1, TakeFirst, SuffixFacts DEF Pool, Begin, Before
<1>3. Cardinality(running') <= Width'
    <2>1. Cardinality(running') <= Cardinality(running) + 1
        <3>1. running' = running \cup {Head(queue)}
            BY DEF Begin
        <3>2. IsFiniteSet(running) /\ Cardinality(running) \in Nat
            BY PoolIsFinite
        <3>3. Cardinality(running') =
                IF Head(queue) \in running THEN Cardinality(running) ELSE Cardinality(running) + 1
            BY <3>1, <3>2, FS_AddElement
        <3> QED
            BY <3>2, <3>3
    <2>2. Width' = Width
        BY DEF Width, Pooled, Begin
    <2> QED
        <3>1. Cardinality(running) < Width /\ Cardinality(running) \in Nat /\ Width \in Nat
            BY PoolIsFinite DEF Begin
        <3>2. Cardinality(running') \in Nat
            BY PoolIsFinite, FS_AddElement, FS_CardinalityType DEF Begin
        <3> QED
            BY <2>1, <2>2, <3>1, <3>2
<1>4. HalvesApart'
    BY <1>2 DEF Pool, HalvesApart, Begin
<1>5. InOrder'
    <2>1. \A i, j : Before(i, j)' <=> Before(i, j)
        BY DEF Before, Begin
    <2>2. \A i \in running, j \in ToSet(queue') : Before(i, j)
        BY <1>2 DEF Pool, InOrder
    <2> QED
        BY <1>2, <2>1, <2>2 DEF InOrder, Begin
<1> QED
    BY <1>2, <1>3, <1>4, <1>5 DEF Pool, Begin

LEMMA PoolIsKept ==
    ASSUME Inv, [Next]_vars
    PROVE  Pool'
<1>1. Pool /\ Quiet
    BY DEF Inv, Control
<1>2. ASSUME UNCHANGED pass PROVE Pool'
    BY <1>1, <1>2, SmallerPool DEF pass
<1>3. CASE Load \/ Reconcile \/ Decide \/ Wake \/ RequestStop \/ Terminate \/ UNCHANGED vars
    BY <1>2, <1>3 DEF Load, Reconcile, Decide, Wake, RequestStop, Terminate, vars, pass
<1>4. ASSUME NEW i \in Items, Submit(i) PROVE Pool'
    BY <1>2, <1>4 DEF Submit
<1>5. ASSUME listed' = listed, queue' = <<>>, running' = {}, raised' = {}
      PROVE  Pool'
    BY <1>1, <1>5, EmptyPool DEF Pool, ToSet
<1>6. CASE Test
    BY <1>1, <1>5, <1>6 DEF Test, Pool, Quiet
<1>7. CASE Collect
    <2> DEFINE there == {i \in ItemsOf(half) : place[i] = "there"}
    <2>1. PICK order \in SetToAllKPermutations(there) :
             ToSet(order) = there /\ listed' = order /\ queue' = order
        BY <1>7 DEF Collect
    <2>2. IsFiniteSet(there) /\ there \subseteq Items
        <3>1. there \subseteq Items
            BY DEF ItemsOf, Items
        <3> QED
            BY <3>1, FS_Subset, LoopAssumption DEF Items
    <2>3. order \in Seq(there) /\ \A m, n \in DOMAIN order : order[m] = order[n] => m = n
        BY <2>2, Listing
    <2>4. order \in Seq(Items)
        BY <2>2, <2>3
    <2>5. running' = {} /\ raised' = {} /\ half' = half
        BY <1>1, <1>7 DEF Collect, Quiet
    <2> QED
        BY <2>1, <2>3, <2>4, <2>5, EmptyPool
<1>8. CASE Begin
    BY <1>1, <1>8, BeginKeepsPool
<1>9. CASE EndHalf
    BY <1>1, <1>5, <1>9 DEF EndHalf, Pool
<1>10. ASSUME NEW i \in Items, Surface(i) PROVE Pool'
    BY <1>1, <1>10, SmallerPool DEF Surface
<1>11. CASE Fail
    BY <1>1, <1>11, SmallerPool DEF Fail
<1>12. ASSUME NEW i \in Items, Finish(i) PROVE Pool'
    BY <1>1, <1>12, SmallerPool DEF Finish
<1>13. ASSUME NEW i \in Items, Raise(i) PROVE Pool'
    BY <1>1, <1>13, SmallerPool DEF Raise
<1>14. CASE Interrupt
    BY <1>1, <1>14, SmallerPool DEF Interrupt, Cut
<1>15. CASE Crash
    BY <1>1, <1>15, SmallerPool DEF Crash, Cut
<1>16. CASE Restart
    <2>1. <<>> \in Seq(Items) /\ DOMAIN <<>> = {} /\ ToSet(<<>>) = {}
        BY DEF ToSet
    <2>2. running' = {} /\ raised' = {} /\ listed' = <<>> /\ queue' = <<>>
        BY <1>1, <1>16 DEF Restart, Quiet
    <2> QED
        BY <2>1, <2>2, EmptyPool
<1> QED
    BY <1>3, <1>4, <1>6, <1>7, <1>8, <1>9, <1>10, <1>11, <1>12, <1>13, <1>14, <1>15, <1>16
    DEF Next, Main


(* An item that leaves the pool by its own pipeline.                       *)
LEMMA ItemKeepsControl ==
    ASSUME Inv, NEW i \in Items, Submit(i) \/ Surface(i) \/ Finish(i) \/ Raise(i)
    PROVE  Control'
<1>1. Control
    BY DEF Inv
<1>2. CASE Submit(i)
    BY <1>1, <1>2 DEF Submit, Control, OnlyInterruptsCut, Quiet, GoneWasProcessed, pass
<1>3. CASE Surface(i)
    BY <1>1, <1>3 DEF Surface, Control, OnlyInterruptsCut, Quiet, GoneWasProcessed, world,
                      Phases, Ended
<1>4. CASE Finish(i)
    BY <1>1, <1>4 DEF Finish, Control, OnlyInterruptsCut, Quiet, GoneWasProcessed
<1>5. CASE Raise(i)
    BY <1>1, <1>5 DEF Raise, Control, OnlyInterruptsCut, Quiet, GoneWasProcessed
<1> QED
    BY <1>2, <1>3, <1>4, <1>5

(* The main thread.                                                        *)
LEMMA MainKeepsControl ==
    ASSUME Inv, Main
    PROVE  Control'
<1>1. Control
    BY DEF Inv
<1> USE DEF Control, OnlyInterruptsCut, Quiet, GoneWasProcessed, world, Phases, Ended
<1>2. CASE Load
    BY <1>1, <1>2 DEF Load, pass
<1>3. CASE Reconcile
    BY <1>1, <1>3 DEF Reconcile, pass
<1>4. CASE Test
    BY <1>1, <1>4 DEF Test, Halves
<1>5. CASE Collect
    BY <1>1, <1>5 DEF Collect
<1>6. CASE Begin
    BY <1>1, <1>6 DEF Begin
<1>7. CASE EndHalf
    BY <1>1, <1>7 DEF EndHalf, Halves
<1>8. CASE Fail
    BY <1>1, <1>8 DEF Fail
<1>9. CASE Decide
    BY <1>1, <1>9 DEF Decide, pass
<1>10. CASE Wake
    BY <1>1, <1>10 DEF Wake, pass
<1>11. CASE \E i \in Items : Surface(i)
    BY <1>11, ItemKeepsControl
<1> QED
    BY <1>2, <1>3, <1>4, <1>5, <1>6, <1>7, <1>8, <1>9, <1>10, <1>11 DEF Main

(* The operator, the crashes and the restart.                              *)
LEMMA WorldKeepsControl ==
    ASSUME Inv, RequestStop \/ Terminate \/ Interrupt \/ Crash \/ Restart
    PROVE  Control'
<1>1. Control
    BY DEF Inv
<1>2. UNCHANGED half /\ UNCHANGED host
    BY DEF RequestStop, Terminate, Interrupt, Crash, Restart, pass, world
<1> USE DEF Control, OnlyInterruptsCut, Quiet, GoneWasProcessed, Phases, Ended
<1>3. CASE RequestStop
    BY <1>1, <1>3, LoopAssumption DEF RequestStop, Request, Looping, pass
<1>4. CASE Terminate
    BY <1>1, <1>4, LoopAssumption DEF Terminate, Request, pass
<1>5. ASSUME NEW by \in {"interrupt", "crash"}, Cut(by), UNCHANGED tried
      PROVE  /\ place' \in [Items -> {"absent", "there", "gone"}] /\ GoneWasProcessed'
             /\ cut' \subseteq cut \cup {by}
             /\ running' = {} /\ queue' = <<>> /\ raised' = {}
    <2>1. PICK kept \in SUBSET running :
             place' = [i \in Items |-> IF i \in running \ kept THEN "gone" ELSE place[i]]
        BY <1>5 DEF Cut
    <2>2. running # {} => cut' # {}
        BY <1>5 DEF Cut
    <2>3. running = {} => cut' = cut /\ place' = place
        BY <1>1, <1>5, <2>1 DEF Cut
    <2>4. GoneWasProcessed'
        BY <1>1, <1>5, <2>2, <2>3
    <2> QED
        BY <1>1, <1>5, <2>1, <2>4 DEF Cut
<1>6. CASE Interrupt
    <2>1. requests' \in 0..MaxRequests /\ wanted' = TRUE /\ host = "terminal"
        BY <1>1, <1>6, LoopAssumption DEF Interrupt, Request
    <2>2. UNCHANGED <<stop, tried, crashes>>
        BY <1>6 DEF Interrupt
    <2>3. CASE phase \in {"running", "failing"} /\ Pooled
        <3>1. phase' = "failing" /\ queue' = <<>> /\ UNCHANGED <<place, cut, running, raised>>
            BY <1>6, <2>3 DEF Interrupt
        <3> QED
            BY <1>1, <1>2, <2>1, <2>2, <3>1
    <2>4. CASE ~(phase \in {"running", "failing"} /\ Pooled)
        <3>1. Cut("interrupt") /\ phase' = "failed"
            BY <1>6, <2>4 DEF Interrupt
        <3>2. /\ place' \in [Items -> {"absent", "there", "gone"}] /\ GoneWasProcessed'
              /\ cut' \subseteq cut \cup {"interrupt"}
              /\ running' = {} /\ queue' = <<>> /\ raised' = {}
            BY <1>5, <2>2, <3>1
        <3> HIDE DEF GoneWasProcessed
        <3> QED
            BY <1>1, <1>2, <2>1, <2>2, <3>1, <3>2
    <2> QED
        BY <2>3, <2>4
<1>7. CASE Crash
    <2>1. Cut("crash") /\ UNCHANGED tried /\ phase' = "failed"
        BY <1>7 DEF Crash
    <2>2. crashes' \in 0..MaxCrashes /\ crashes' > 0
        BY <1>1, <1>7, LoopAssumption DEF Crash
    <2> QED
        BY <1>1, <1>2, <1>5, <1>7, <2>1, <2>2 DEF Crash
<1>8. CASE Restart
    BY <1>1, <1>8 DEF Restart, world
<1> QED
    BY <1>3, <1>4, <1>6, <1>7, <1>8

LEMMA Initial == Init => Inv
<1> SUFFICES ASSUME Init PROVE Inv
    OBVIOUS
<1>1. <<>> \in Seq(Items) /\ ToSet(<<>>) = {} /\ DOMAIN <<>> = {}
    BY DEF ToSet
<1>2. Cardinality({}) = 0 /\ Width \in Nat
    BY FS_EmptySet, LoopAssumption DEF Width
<1>3. Pool
    <2>1. IsSuffix(queue, listed)
        BY <1>1, SuffixFacts DEF Init
    <2>2. Cardinality(running) <= Width
        BY <1>2 DEF Init
    <2> QED
        BY <1>1, <2>1, <2>2 DEF Init, Pool, HalvesApart, InOrder
<1>4. /\ place \in [Items -> {"absent", "there", "gone"}] /\ GoneWasProcessed
    BY DEF Init, GoneWasProcessed
<1>5. crashes \in 0..MaxCrashes /\ requests \in 0..MaxRequests
    BY LoopAssumption DEF Init
<1>6. Control
    BY <1>4, <1>5 DEF Init, Control, OnlyInterruptsCut, Quiet, Phases, Halves, Ended
<1> QED
    BY <1>3, <1>6 DEF Inv

LEMMA InvIsKept == Inv /\ [Next]_vars => Inv'
<1> SUFFICES ASSUME Inv, [Next]_vars PROVE Inv'
    OBVIOUS
<1>1. ASSUME UNCHANGED vars PROVE Control'
    BY <1>1 DEF vars, Inv, Control, OnlyInterruptsCut, Quiet, GoneWasProcessed
<1>2. Control'
    BY <1>1, ItemKeepsControl, MainKeepsControl, WorldKeepsControl DEF Next, Inv
<1> QED
    BY <1>2, PoolIsKept DEF Inv

THEOREM Invariance == Spec => []Inv
BY Initial, InvIsKept, PTL DEF Spec

-----------------------------------------------------------------------------
(***************************************************************************)
(* The pool, the list it works off and what has raised fit together: what  *)
(* waits is the end of the list, what is at work is not among it, and no   *)
(* more are at work than there are workers.                                *)
(***************************************************************************)
THEOREM TypeCorrect == Spec => []TypeOK
<1>1. Inv => TypeOK
    BY DEF Inv, Pool, Control, TypeOK
<1> QED
    BY <1>1, Invariance, PTL

(* Nothing but a crash or Ctrl+C cuts a pipeline short.                    *)
THEOREM NothingElseCuts == Spec => []OnlyInterruptsCut
<1>1. Inv => OnlyInterruptsCut
    BY DEF Inv, Control
<1> QED
    BY <1>1, Invariance, PTL

(* The halves of a pass do not overlap, and each goes in order.            *)
THEOREM HalvesDoNotOverlap == Spec => [](HalvesApart /\ InOrder)
<1>1. Inv => HalvesApart /\ InOrder
    BY DEF Inv, Pool
<1> QED
    BY <1>1, Invariance, PTL

(* What has left its place was processed, or a pipeline was cut short.     *)
THEOREM NothingVanishes == Spec => []GoneWasProcessed
<1>1. Inv => GoneWasProcessed
    BY DEF Inv, Control
<1> QED
    BY <1>1, Invariance, PTL

(* A stop that was heard is kept until the process has ended.              *)
THEOREM HeardIsKept == Spec => StopIsKept
<1>1. ASSUME Inv, [Next]_vars, stop
      PROVE  stop' \/ phase \in Ended
    BY <1>1 DEF Inv, Control, Quiet, Ended, Next, Main, Submit, Load, Reconcile, Test, Collect,
        Begin, Finish, Raise, Surface, Fail, EndHalf, Decide, Wake, RequestStop, Terminate,
        Interrupt, Crash, Restart, vars
<1>2. Inv /\ [Next]_vars => [stop => stop' \/ phase \in Ended]_vars
    BY <1>1
<1> QED
    BY <1>2, Invariance, PTL DEF Spec, StopIsKept

=============================================================================
