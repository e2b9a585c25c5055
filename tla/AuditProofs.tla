---------------------------- MODULE AuditProofs ----------------------------
(***************************************************************************)
(* Proofs about Audit, for any number of processes and any bounds: type     *)
(* correctness, the numbering of the events, and what a torn write costs.   *)
(***************************************************************************)
EXTENDS Audit, TLAPS, FiniteSetTheorems, SequenceTheorems

\* The number of a chunk is at most its place in the file, and some chunk of
\* every prefix has the highest number of it; a line about to be written has
\* at most the number of the place it will take.
Num(f, i) == f[i].line.seq
Numbers(f) ==
  /\ \A i \in 1 .. Len(f) : Num(f, i) \in 1 .. i
  /\ \A k \in 1 .. Len(f) : \E m \in 1 .. k : \A i \in 1 .. k : Num(f, i) <= Num(f, m)
NumbersBounded ==
  /\ Numbers(file)
  /\ \A p \in Process : pc[p] = "write" => pending[p].seq \in 1 .. Len(file) + 1

\* As long as no append() was overtaken, the numbers are the places, and one
\* process at most is about to write.
NumbersExact ==
  ~overlapped =>
    /\ \A i \in 1 .. Len(file) : Num(file, i) = i
    /\ \A p \in Process : pc[p] = "write" => pending[p].seq = Len(file) + 1
    /\ \A p, q \in Process : pc[p] = "write" /\ pc[q] = "write" => p = q

\* What was appended and not yet synced is in the file, what was synced is
\* among the first chunks, unless the whole trail went, and every chunk that is not whole was torn.
Torn(f) == {i \in DOMAIN f : f[i].form # "whole"}
Kept ==
  /\ \A p \in Process : pc[p] = "sync" =>
       \E i \in DOMAIN file : file[i] = Chunk(pending[p], "whole")
  /\ \A l \in returned \ forfeited : \E i \in 1 .. synced : file[i] = Chunk(l, "whole")
  /\ IsFiniteSet(Torn(file))
  /\ Cardinality(Torn(file)) <= tears

TypeInv == TypeOK /\ NumbersBounded

\* The number append() chooses, and what it is when the numbers are exact.
LEMMA NextNumber ==
  ASSUME NEW f \in Seq([line : Line, form : Form]), Numbers(f)
  PROVE  /\ NextSeq(f) \in 1 .. Len(f) + 1
         /\ (\A i \in 1 .. Len(f) : Num(f, i) = i) => NextSeq(f) = Len(f) + 1
<1>1. CASE f = <<>>
  BY <1>1 DEF NextSeq
<1>2. CASE f # <<>>
  <2> DEFINE n == Len(f)
             N == {Num(f, i) : i \in 1 .. n}
             Greatest(m) == \A i \in 1 .. n : Num(f, i) <= m
             top == CHOOSE m \in N : Greatest(m)
  <2>1. n \in Nat /\ n \in 1 .. n /\ DOMAIN f = 1 .. n
    BY <1>2
  <2>2. \E m \in N : Greatest(m)
    BY <2>1 DEF Numbers
  <2>3. top \in N /\ Greatest(top)
    BY <2>2
  <2>4. NextSeq(f) = 1 + top
    BY <1>2, <2>1 DEF NextSeq, Num
  <2> HIDE DEF top, n
  <2>5. PICK m \in 1 .. n : top = Num(f, m)
    BY <2>3
  <2>6. \A i \in 1 .. n : Num(f, i) \in 1 .. i
    BY DEF Numbers, n
  <2>7. top \in 1 .. n
    BY <2>1, <2>5, <2>6
  <2>8. (\A i \in 1 .. n : Num(f, i) = i) => top = n
    BY <2>1, <2>3, <2>5, <2>7
  <2>9. NextSeq(f) \in 1 .. n + 1
    BY <2>1, <2>4, <2>7
  <2>10. (\A i \in 1 .. n : Num(f, i) = i) => NextSeq(f) = n + 1
    <3> SUFFICES ASSUME \A i \in 1 .. n : Num(f, i) = i PROVE NextSeq(f) = n + 1
      OBVIOUS
    <3>1. top = n
      BY <2>8
    <3> QED
      BY <3>1, <2>1, <2>4
  <2> QED
    BY <2>9, <2>10 DEF n
<1> QED
  BY <1>1, <1>2

\* Appending a line with a number that is not too high.
LEMMA AppendNumbered ==
  ASSUME NEW f \in Seq([line : Line, form : Form]), Numbers(f),
         NEW l \in Line, NEW form \in Form, l.seq \in 1 .. Len(f) + 1
  PROVE  /\ Append(f, Chunk(l, form)) \in Seq([line : Line, form : Form])
         /\ Len(Append(f, Chunk(l, form))) = Len(f) + 1
         /\ Append(f, Chunk(l, form))[Len(f) + 1] = Chunk(l, form)
         /\ \A i \in 1 .. Len(f) : Append(f, Chunk(l, form))[i] = f[i]
         /\ \A i \in 1 .. Len(f) : Num(Append(f, Chunk(l, form)), i) = Num(f, i)
         /\ Num(Append(f, Chunk(l, form)), Len(f) + 1) = l.seq
         /\ Numbers(Append(f, Chunk(l, form)))
<1> DEFINE g == Append(f, Chunk(l, form))
           n == Len(f)
<1>1. Chunk(l, form) \in [line : Line, form : Form] /\ Chunk(l, form).line = l
  BY DEF Chunk
<1>2. g \in Seq([line : Line, form : Form]) /\ Len(g) = n + 1 /\ n \in Nat
  BY <1>1
<1>3. g[n + 1] = Chunk(l, form) /\ \A i \in 1 .. n : g[i] = f[i]
  BY <1>1
<1>4. Num(g, n + 1) = l.seq /\ \A i \in 1 .. n : Num(g, i) = Num(f, i)
  BY <1>1, <1>3 DEF Num
<1>5. \A i \in 1 .. n : Num(f, i) \in 1 .. i
  BY DEF Numbers
<1>6. \A k \in 1 .. n : \E m \in 1 .. k : \A i \in 1 .. k : Num(f, i) <= Num(f, m)
  BY DEF Numbers
<1>7. l.seq \in 1 .. n + 1
  OBVIOUS
<1> HIDE DEF g, n
<1>8. \A i \in 1 .. n + 1 : Num(g, i) \in 1 .. i
  BY <1>2, <1>4, <1>5, <1>7
<1>9. ASSUME NEW k \in 1 .. n + 1
      PROVE  \E m \in 1 .. k : \A i \in 1 .. k : Num(g, i) <= Num(g, m)
  <2>1. CASE k \in 1 .. n
    <3>1. \A i \in 1 .. k : Num(g, i) = Num(f, i)
      BY <2>1, <1>2, <1>4
    <3> QED
      BY <2>1, <3>1, <1>6
  <2>2. CASE k = n + 1 /\ n = 0
    BY <2>2, <1>8
  <2>3. CASE k = n + 1 /\ n > 0
    <3>1. n \in 1 .. n
      BY <2>3, <1>2
    <3>2. PICK m \in 1 .. n : \A i \in 1 .. n : Num(f, i) <= Num(f, m)
      BY <3>1, <1>6
    <3>3. \A i \in 1 .. n : Num(g, i) \in Nat /\ Num(g, i) <= Num(g, m)
      BY <3>2, <1>2, <1>4, <1>8
    <3>4. Num(g, k) \in Nat /\ Num(g, m) \in Nat /\ k \in 1 .. k /\ m \in 1 .. k
      BY <2>3, <3>3, <1>8, <1>2
    <3>5. \A i \in 1 .. k : i \in 1 .. n \/ i = k
      BY <2>3, <1>2
    <3>6. CASE Num(g, k) <= Num(g, m)
      BY <3>3, <3>4, <3>5, <3>6
    <3>7. CASE Num(g, m) <= Num(g, k)
      <4>1. \A i \in 1 .. k : Num(g, i) <= Num(g, k)
        BY <3>3, <3>4, <3>5, <3>7
      <4> QED
        BY <4>1, <3>4
    <3> QED
      BY <3>4, <3>6, <3>7
  <2> QED
    BY <1>2, <2>1, <2>2, <2>3
<1> QED
  BY <1>2, <1>3, <1>4, <1>8, <1>9 DEF Numbers, g, n

\* A prefix of a file.
LEMMA PrefixNumbered ==
  ASSUME NEW f \in Seq([line : Line, form : Form]), Numbers(f), NEW k \in 0 .. Len(f)
  PROVE  LET g == SubSeq(f, 1, k)
         IN  /\ g \in Seq([line : Line, form : Form])
             /\ Len(g) = k
             /\ \A i \in 1 .. k : g[i] = f[i] /\ Num(g, i) = Num(f, i)
             /\ Numbers(g)
<1> DEFINE g == SubSeq(f, 1, k)
           C == [line : Line, form : Form]
<1> HIDE DEF C
<1>1. f \in Seq(C) /\ Len(f) \in Nat /\ k \in Nat /\ k <= Len(f)
  BY DEF C
<1>2. \A i \in 1 .. k : f[i] \in C
  BY <1>1
<1>3. g \in Seq(C) /\ Len(g) = k /\ \A i \in 1 .. k : g[i] = f[i]
  BY <1>1, <1>2, SubSeqProperties
<1> HIDE DEF g
<1>4. \A i \in 1 .. k : Num(g, i) = Num(f, i)
  BY <1>3 DEF Num
<1>5. 1 .. k \subseteq 1 .. Len(f)
  BY <1>1
<1>9. \A i \in 1 .. k : Num(f, i) \in 1 .. i
  BY <1>5 DEF Numbers
<1>10. \A j \in 1 .. k : \E m \in 1 .. j : \A i \in 1 .. j : Num(f, i) <= Num(f, m)
  BY <1>5 DEF Numbers
<1>6. \A j \in 1 .. k : \A i \in 1 .. j : i \in 1 .. k
  BY <1>1
<1>7. \A i \in 1 .. k : Num(g, i) \in 1 .. i
  BY <1>4, <1>9
<1>8. \A j \in 1 .. k : \E m \in 1 .. j : \A i \in 1 .. j : Num(g, i) <= Num(g, m)
  BY <1>4, <1>10, <1>6
<1> QED
  BY <1>3, <1>4, <1>7, <1>8 DEF Numbers, C, g

----------------------------------------------------------------------------
(* Type correctness *)

LEMMA TypeInit == Init => TypeInv
<1> SUFFICES ASSUME Init PROVE TypeInv
  OBVIOUS
<1>1. TypeOK
  <2>1. file \in Seq([line : Line, form : Form]) /\ Len(file) = 0
    BY DEF Init
  <2>2. /\ pc \in [Process -> {"boot", "capture", "idle", "write", "sync"}]
        /\ \A p \in Process : pc[p] = "boot"
        /\ pending \in [Process -> Line \cup {NoLine}]
    BY DEF Init
  <2>3. /\ synced = 0 /\ work = FALSE /\ overlapped = FALSE /\ returned = {}
        /\ appends = 0 /\ tears = 0 /\ stops = 0
    BY DEF Init
  <2>4. \A p \in Process : pc[p] \in {"write", "sync"} => pending[p] \in Line
    BY <2>2
  <2>5. /\ synced \in 0 .. Len(file) /\ returned \subseteq Line
        /\ appends \in Nat /\ tears \in 0 .. MaxTears /\ stops \in 0 .. MaxStops
    BY <2>1, <2>3, AuditAssumption
  <2>6. work \in BOOLEAN /\ overlapped \in BOOLEAN
    BY <2>3
  <2>7. named \in BOOLEAN /\ splits \in BOOLEAN /\ forfeited \subseteq returned
    BY DEF Init
  <2> QED
    BY <2>1, <2>2, <2>4, <2>5, <2>6, <2>7 DEF TypeOK
<1>2. NumbersBounded
  BY DEF Init, NumbersBounded, Numbers
<1> QED
  BY <1>1, <1>2 DEF TypeInv

\* The read of append() keeps the types, and the number it settles on fits.
LEMMA TypeRead ==
  ASSUME TypeInv, NEW p \in Process, NEW e \in Event, NEW path \in BOOLEAN, Read(p, e, path),
         work' \in BOOLEAN
  PROVE  TypeInv'
<1> USE DEF TypeInv
<1>1. NextSeq(file) \in 1 .. Len(file) + 1
  BY NextNumber DEF TypeOK, NumbersBounded
<1>2. Len(file) \in Nat /\ appends \in Nat
  BY DEF TypeOK
<1> DEFINE l == [n |-> appends + 1, seq |-> NextSeq(file), event |-> e, split |-> path /\ splits]
<1>3. l \in Line
  <2>1. (path /\ splits) \in BOOLEAN
    BY DEF TypeOK
  <2> QED
    BY <2>1, <1>1, <1>2 DEF Line
<1>4. /\ pending' = [pending EXCEPT ![p] = l] /\ pc' = [pc EXCEPT ![p] = "write"]
      /\ UNCHANGED <<file, synced, returned, named, splits, forfeited, tears, stops>>
      /\ appends' = appends + 1 /\ overlapped' \in BOOLEAN
  BY DEF Read, Goto, Bounds, disk, TypeOK
<1>5. l.seq \in 1 .. Len(file) + 1
  BY <1>1
<1> HIDE DEF l
<1>6. TypeOK'
  BY <1>3, <1>4 DEF TypeOK
<1>7. NumbersBounded'
  BY <1>4, <1>5 DEF TypeOK, NumbersBounded
<1> QED
  BY <1>6, <1>7

\* So does a write, whole or not.
LEMMA TypeWrite ==
  ASSUME TypeInv, NEW p \in Process, pc[p] = "write", NEW form \in Form,
         file' = Append(file, Chunk(pending[p], form)),
         NEW at \in {"boot", "idle", "sync"}, pc' = [pc EXCEPT ![p] = at],
         \/ UNCHANGED pending
         \/ at # "sync" /\ pending' = [pending EXCEPT ![p] = NoLine],
         tears' \in 0 .. MaxTears,
         UNCHANGED <<synced, work, returned, overlapped, named, splits, forfeited, appends, stops>>
  PROVE  TypeInv'
<1> USE DEF TypeInv
<1>1. pending[p] \in Line /\ pending[p].seq \in 1 .. Len(file) + 1
  BY DEF TypeOK, NumbersBounded
<1>2. /\ file' \in Seq([line : Line, form : Form])
      /\ Len(file') = Len(file) + 1
      /\ Numbers(file')
  BY <1>1, AppendNumbered DEF TypeOK, NumbersBounded
<1>3. Len(file) \in Nat
  BY DEF TypeOK
<1>4. TypeOK'
  <2>1. pc' \in [Process -> {"boot", "capture", "idle", "write", "sync"}]
    BY DEF TypeOK
  <2>2. /\ pending' \in [Process -> Line \cup {NoLine}]
        /\ \A q \in Process : pc'[q] \in {"write", "sync"} => pending'[q] \in Line
    BY DEF TypeOK
  <2>3. synced' \in 0 .. Len(file')
    BY <1>2, <1>3 DEF TypeOK
  <2> QED
    BY <1>2, <2>1, <2>2, <2>3 DEF TypeOK
<1>5. ASSUME NEW q \in Process, pc'[q] = "write"
      PROVE  pending'[q].seq \in 1 .. Len(file') + 1
  <2>1. q # p /\ pc[q] = "write" /\ pending'[q] = pending[q]
    BY <1>5 DEF TypeOK
  <2>2. pending[q].seq \in 1 .. Len(file) + 1
    BY <2>1 DEF NumbersBounded
  <2> QED
    BY <2>1, <2>2, <1>2, <1>3
<1> QED
  BY <1>2, <1>4, <1>5 DEF NumbersBounded

\* So does a step after which a process is not about to write.
LEMMA TypeGoto ==
  ASSUME TypeInv, NEW p \in Process, NEW at \in {"boot", "capture", "idle"},
         pc' = [pc EXCEPT ![p] = at],
         \/ UNCHANGED pending
         \/ pending' = [pending EXCEPT ![p] = NoLine],
         work' \in BOOLEAN,
         returned' \subseteq Line,
         returned \subseteq returned',
         synced' \in 0 .. Len(file),
         stops' \in 0 .. MaxStops,
         UNCHANGED <<file, overlapped, named, splits, forfeited, appends, tears>>
  PROVE  TypeInv'
<1> USE DEF TypeInv
<1>1. TypeOK'
  BY DEF TypeOK
<1>2. ASSUME NEW q \in Process, pc'[q] = "write"
      PROVE  pending'[q].seq \in 1 .. Len(file') + 1
  <2>1. q # p /\ pc[q] = "write" /\ pending'[q] = pending[q]
    BY <1>2 DEF TypeOK
  <2> QED
    BY <2>1 DEF NumbersBounded
<1> QED
  BY <1>1, <1>2 DEF NumbersBounded

LEMMA TypePowerLoss == TypeInv /\ PowerLoss => TypeInv'
<1> SUFFICES ASSUME TypeInv, PowerLoss PROVE TypeInv'
  OBVIOUS
<1> USE DEF TypeInv
<1>1. /\ pc' = [q \in Process |-> "boot"] /\ pending' = [q \in Process |-> NoLine]
      /\ stops' \in 0 .. MaxStops
      /\ UNCHANGED <<returned, overlapped, named, splits, forfeited, appends>>
  BY AuditAssumption DEF PowerLoss, Blackout, TypeOK
<1>5. work' \in BOOLEAN
  <2>1. work' = work \/ work' = FALSE
    BY DEF PowerLoss
  <2> QED
    BY <2>1 DEF TypeOK
<1>2. Len(file) \in Nat /\ synced \in 0 .. Len(file) /\ tears \in 0 .. MaxTears
  BY DEF TypeOK
<1>3. /\ file' \in Seq([line : Line, form : Form]) /\ Numbers(file')
      /\ synced' \in 0 .. Len(file')
      /\ tears' \in 0 .. MaxTears
  <2>1. PICK k \in synced .. Len(file) :
          \/ file' = SubSeq(file, 1, k) /\ synced' = k /\ UNCHANGED tears
          \/ /\ k < Len(file)
             /\ tears < MaxTears
             /\ tears' = tears + 1
             /\ \E form \in IF file[k + 1].form = "whole" THEN {"open", "torn"} ELSE {"torn"} :
                  file' = Append(SubSeq(file, 1, k), Chunk(file[k + 1].line, form))
             /\ synced' = k + 1
    BY DEF PowerLoss
  <2> DEFINE f == SubSeq(file, 1, k)
  <2>2. k \in 0 .. Len(file)
    BY <1>2
  <2>3. f \in Seq([line : Line, form : Form]) /\ Len(f) = k /\ Numbers(f)
    BY <2>2, PrefixNumbered DEF TypeOK, NumbersBounded
  <2>4. CASE file' = f /\ synced' = k /\ UNCHANGED tears
    BY <2>2, <2>3, <2>4, <1>2
  <2>5. CASE /\ k < Len(file)
             /\ tears < MaxTears
             /\ tears' = tears + 1
             /\ \E form \in IF file[k + 1].form = "whole" THEN {"open", "torn"} ELSE {"torn"} :
                  file' = Append(f, Chunk(file[k + 1].line, form))
             /\ synced' = k + 1
    <3>1. PICK form \in {"open", "torn"} : file' = Append(f, Chunk(file[k + 1].line, form))
      BY <2>5
    <3>2. k + 1 \in 1 .. Len(file)
      BY <2>2, <2>5, <1>2
    <3>3. file[k + 1] \in [line : Line, form : Form] /\ form \in Form
      <4>1. file \in Seq([line : Line, form : Form])
        BY DEF TypeOK
      <4> QED
        BY <3>2, <4>1, ElementOfSeq DEF Form
    <3>4. file[k + 1].line \in Line
      BY <3>3
    <3>5. Num(file, k + 1) \in 1 .. k + 1
      BY <3>2 DEF NumbersBounded, Numbers
    <3>6. file[k + 1].line.seq \in 1 .. Len(f) + 1
      BY <3>5, <2>3 DEF Num
    <3> HIDE DEF f
    <3>7. /\ file' \in Seq([line : Line, form : Form])
          /\ Len(file') = Len(f) + 1
          /\ Numbers(file')
      BY <2>3, <3>1, <3>3, <3>4, <3>6, AppendNumbered
    <3> QED
      BY <3>7, <2>2, <2>3, <2>5, <1>2, AuditAssumption
  <2> QED
    BY <2>1, <2>4, <2>5
<1>4. TypeOK'
  BY <1>1, <1>3, <1>5 DEF TypeOK
<1> QED
  BY <1>1, <1>3, <1>4 DEF NumbersBounded

\* So do the two steps of the file system that touch the entry of the file.
LEMMA TypeEntry == TypeInv /\ (Commit \/ LoseTrail) => TypeInv'
<1> SUFFICES ASSUME TypeInv, Commit \/ LoseTrail PROVE TypeInv'
  OBVIOUS
<1>1. CASE Commit
  BY <1>1 DEF Commit, Bounds, TypeInv, TypeOK, NumbersBounded, Numbers, Num
<1>2. CASE LoseTrail
  <2>1. /\ file' = <<>> /\ synced' = 0 /\ forfeited' = returned
        /\ pc' = [q \in Process |-> "boot"] /\ pending' = [q \in Process |-> NoLine]
        /\ stops' \in 0 .. MaxStops
        /\ UNCHANGED <<named, splits, returned, overlapped, appends, tears>>
    BY <1>2, AuditAssumption DEF LoseTrail, Blackout, TypeInv, TypeOK
  <2>5. work' \in BOOLEAN
    <3>1. work' = work \/ work' = FALSE
      BY <1>2 DEF LoseTrail
    <3> QED
      BY <3>1 DEF TypeInv, TypeOK
  <2>2. file' \in Seq([line : Line, form : Form]) /\ Len(file') = 0
    BY <2>1
  <2>3. TypeOK'
    BY <2>1, <2>2, <2>5 DEF TypeInv, TypeOK
  <2>4. NumbersBounded'
    BY <2>1, <2>2 DEF NumbersBounded, Numbers
  <2> QED
    BY <2>3, <2>4 DEF TypeInv
<1> QED
  BY <1>1, <1>2

LEMMA TypeNext == TypeInv /\ [Next]_vars => TypeInv'
<1> SUFFICES ASSUME TypeInv, [Next]_vars PROVE TypeInv'
  OBVIOUS
<1>1. CASE UNCHANGED vars
  BY <1>1 DEF vars, TypeInv, TypeOK, NumbersBounded, Numbers, Num
<1>2. ASSUME NEW p \in Process, Record(p) PROVE TypeInv'
  BY <1>2, TypeRead DEF Record, Event
<1>3. ASSUME NEW p \in Process, RecordCapture(p) PROVE TypeInv'
  BY <1>3, TypeRead DEF RecordCapture, Event, TypeInv, TypeOK
<1>4. ASSUME NEW p \in Process, Write(p) PROVE TypeInv'
  <2>1. "whole" \in Form /\ tears' \in 0 .. MaxTears
    BY <1>4 DEF Write, Bounds, Form, TypeInv, TypeOK
  <2> QED
    BY <1>4, <2>1, TypeWrite DEF Write, Goto, Bounds, disk
<1>5. ASSUME NEW p \in Process, WriteShort(p) PROVE TypeInv'
  <2>1. PICK form \in Form : file' = Append(file, Chunk(pending[p], form))
    BY <1>5 DEF WriteShort
  <2>2. tears' \in 0 .. MaxTears
    BY <1>5, AuditAssumption DEF WriteShort, TypeInv, TypeOK
  <2>3. PICK at \in {"boot", "idle"} : pc' = [pc EXCEPT ![p] = at]
    BY <1>5 DEF WriteShort, Return, Goto
  <2> QED
    BY <1>5, <2>1, <2>2, <2>3, TypeWrite DEF WriteShort, Return, disk
<1>6. ASSUME NEW p \in Process, Sync(p) PROVE TypeInv'
  <2>1. pending[p] \in Line /\ Len(file) \in Nat /\ Len(file) \in 0 .. Len(file)
    BY <1>6 DEF Sync, TypeInv, TypeOK
  <2> QED
    BY <1>6, <2>1, TypeGoto DEF Sync, Return, Goto, Bounds, disk, TypeInv, TypeOK
<1>7. ASSUME NEW p \in Process,
             ReadRaises(p) \/ NothingLeft(p) \/ Finalize(p) \/ Preserve(p) \/ CaptureRaises(p)
      PROVE  TypeInv'
  BY <1>7, TypeGoto
     DEF ReadRaises, NothingLeft, Finalize, Preserve, CaptureRaises, Goto, Bounds, disk, TypeInv,
         TypeOK
<1>8. ASSUME NEW p \in Process, Finish(p) PROVE TypeInv'
  BY <1>8 DEF Finish, Bounds, disk, TypeInv, TypeOK, NumbersBounded, Numbers, Num
<1>9. ASSUME NEW p \in Process, Crash(p) PROVE TypeInv'
  <2>1. stops' \in 0 .. MaxStops
    BY <1>9, AuditAssumption DEF Crash, TypeInv, TypeOK
  <2> QED
    BY <1>9, <2>1, TypeGoto DEF Crash, Return, Goto, disk, TypeInv, TypeOK
<1>10. CASE PowerLoss
  BY <1>10, TypePowerLoss
<1>11. CASE Commit \/ LoseTrail
  BY <1>11, TypeEntry
<1> QED
  BY <1>1, <1>2, <1>3, <1>4, <1>5, <1>6, <1>7, <1>8, <1>9, <1>10, <1>11 DEF Next

\* Audit is well typed (core/audit.py), for any processes and bounds.
THEOREM TypeCorrect == Spec => []TypeOK
<1>1. Spec => []TypeInv
  BY TypeInit, TypeNext, PTL DEF Spec
<1> QED
  BY <1>1, PTL DEF TypeInv

----------------------------------------------------------------------------
(* The numbers *)

ExactInv == TypeInv /\ NumbersExact

\* A step that changes no number of a line that is, or is about to be, in the
\* file, and after which no process more is about to write.
LEMMA ExactKept ==
  ASSUME ExactInv, TypeInv', UNCHANGED <<file, overlapped>>,
         \A q \in Process : pc'[q] = "write" => pc[q] = "write" /\ pending'[q] = pending[q]
  PROVE  NumbersExact'
BY DEF ExactInv, NumbersExact

LEMMA ExactRead ==
  ASSUME ExactInv, TypeInv', NEW p \in Process, NEW e \in Event, NEW path \in BOOLEAN,
         Read(p, e, path), pc[p] # "write"
  PROVE  NumbersExact'
<1>1. SUFFICES ASSUME ~overlapped' PROVE NumbersExact'
  BY DEF NumbersExact
<1>2. ~overlapped /\ \A q \in Process \ {p} : pc[q] # "write"
  BY <1>1 DEF Read, ExactInv, TypeInv, TypeOK
<1>3. \A i \in 1 .. Len(file) : Num(file, i) = i
  BY <1>2 DEF ExactInv, NumbersExact
<1>4. NextSeq(file) = Len(file) + 1
  BY <1>3, NextNumber DEF ExactInv, TypeInv, TypeOK, NumbersBounded
<1>5. /\ pc' = [pc EXCEPT ![p] = "write"] /\ file' = file
      /\ pending'[p].seq = Len(file) + 1
  BY <1>4 DEF Read, Goto, ExactInv, TypeInv, TypeOK
<1>6. \A q \in Process : pc'[q] = "write" => q = p
  BY <1>2, <1>5 DEF ExactInv, TypeInv, TypeOK
<1> QED
  BY <1>3, <1>5, <1>6 DEF NumbersExact

LEMMA ExactWrite ==
  ASSUME ExactInv, TypeInv', NEW p \in Process, pc[p] = "write", NEW form \in Form,
         file' = Append(file, Chunk(pending[p], form)),
         NEW at \in {"boot", "idle", "sync"}, pc' = [pc EXCEPT ![p] = at],
         UNCHANGED overlapped
  PROVE  NumbersExact'
<1>1. SUFFICES ASSUME ~overlapped PROVE NumbersExact'
  BY DEF NumbersExact
<1>2. /\ \A i \in 1 .. Len(file) : Num(file, i) = i
      /\ pending[p].seq = Len(file) + 1
      /\ \A q \in Process : pc[q] = "write" => q = p
  BY <1>1 DEF ExactInv, NumbersExact
<1>3. pending[p] \in Line /\ pending[p].seq \in 1 .. Len(file) + 1
  BY DEF ExactInv, TypeInv, TypeOK, NumbersBounded
<1> DEFINE g == Append(file, Chunk(pending[p], form))
<1>4. /\ Len(g) = Len(file) + 1
      /\ \A i \in 1 .. Len(file) : Num(g, i) = Num(file, i)
      /\ Num(g, Len(file) + 1) = pending[p].seq
  <2>1. file \in Seq([line : Line, form : Form]) /\ Numbers(file)
    BY DEF ExactInv, TypeInv, TypeOK, NumbersBounded
  <2> QED
    BY <1>3, <2>1, AppendNumbered
<1>8. file' = g
  OBVIOUS
<1> HIDE DEF g
<1>5. Len(file) \in Nat
  BY DEF ExactInv, TypeInv, TypeOK
<1>6. \A i \in 1 .. Len(file') : Num(file', i) = i
  BY <1>2, <1>4, <1>5, <1>8
<1>7. \A q \in Process : pc'[q] # "write"
  BY <1>2 DEF ExactInv, TypeInv, TypeOK
<1> QED
  BY <1>6, <1>7 DEF NumbersExact

LEMMA ExactPowerLoss == ExactInv /\ TypeInv' /\ PowerLoss => NumbersExact'
<1> SUFFICES ASSUME ExactInv, TypeInv', PowerLoss, ~overlapped' PROVE NumbersExact'
  BY DEF NumbersExact
<1>1. /\ \A q \in Process : pc'[q] # "write"
      /\ ~overlapped
  BY DEF PowerLoss, Blackout
<1>2. \A i \in 1 .. Len(file) : Num(file, i) = i
  BY <1>1 DEF ExactInv, NumbersExact
<1>3. Len(file) \in Nat /\ synced \in 0 .. Len(file)
  BY DEF ExactInv, TypeInv, TypeOK
<1>4. PICK k \in synced .. Len(file) :
        \/ file' = SubSeq(file, 1, k)
        \/ /\ k < Len(file)
           /\ \E form \in IF file[k + 1].form = "whole" THEN {"open", "torn"} ELSE {"torn"} :
                file' = Append(SubSeq(file, 1, k), Chunk(file[k + 1].line, form))
  BY DEF PowerLoss
<1> DEFINE f == SubSeq(file, 1, k)
<1>5. k \in 0 .. Len(file) /\ k \in Nat
  BY <1>3
<1>6. /\ f \in Seq([line : Line, form : Form]) /\ Len(f) = k /\ Numbers(f)
      /\ \A i \in 1 .. k : Num(f, i) = Num(file, i)
  BY <1>5, PrefixNumbered DEF ExactInv, TypeInv, TypeOK, NumbersBounded
<1>7. \A i \in 1 .. k : Num(f, i) = i
  BY <1>2, <1>3, <1>5, <1>6
<1>8. CASE file' = f
  BY <1>1, <1>6, <1>7, <1>8 DEF NumbersExact
<1>9. CASE /\ k < Len(file)
           /\ \E form \in IF file[k + 1].form = "whole" THEN {"open", "torn"} ELSE {"torn"} :
                file' = Append(f, Chunk(file[k + 1].line, form))
  <2>1. PICK form \in {"open", "torn"} : file' = Append(f, Chunk(file[k + 1].line, form))
    BY <1>9
  <2>2. k + 1 \in 1 .. Len(file)
    BY <1>3, <1>5, <1>9
  <2>3. file[k + 1] \in [line : Line, form : Form] /\ form \in Form
    <3>1. file \in Seq([line : Line, form : Form])
      BY DEF ExactInv, TypeInv, TypeOK
    <3> QED
      BY <2>2, <3>1, ElementOfSeq DEF Form
  <2>4. file[k + 1].line \in Line /\ file[k + 1].line.seq = k + 1
    BY <1>2, <2>2, <2>3 DEF Num
  <2> HIDE DEF f
  <2>5. file[k + 1].line.seq \in 1 .. Len(f) + 1
    BY <2>4, <1>5, <1>6
  <2> DEFINE l == file[k + 1].line
             g == Append(f, Chunk(l, form))
  <2> HIDE DEF l
  <2>6. /\ Len(g) = Len(f) + 1
        /\ \A i \in 1 .. Len(f) : Num(g, i) = Num(f, i)
        /\ Num(g, Len(f) + 1) = l.seq
    <3>1. l \in Line /\ l.seq \in 1 .. Len(f) + 1 /\ form \in Form
      BY <2>3, <2>4, <2>5 DEF l
    <3> QED
      BY <1>6, <3>1, AppendNumbered
  <2> HIDE DEF g
  <2>7. file' = g
    BY <2>1 DEF g, l
  <2>8. \A i \in 1 .. Len(file') : Num(file', i) = i
    BY <1>5, <1>6, <1>7, <2>4, <2>6, <2>7 DEF l
  <2> QED
    BY <1>1, <2>8 DEF NumbersExact
<1> QED
  BY <1>4, <1>8, <1>9

LEMMA ExactNext == ExactInv /\ TypeInv' /\ [Next]_vars => NumbersExact'
<1> SUFFICES ASSUME ExactInv, TypeInv', [Next]_vars PROVE NumbersExact'
  OBVIOUS
<1>1. CASE UNCHANGED vars
  BY <1>1, ExactKept DEF vars
<1>2. ASSUME NEW p \in Process, Record(p) \/ RecordCapture(p) PROVE NumbersExact'
  <2>1. PICK e \in Event, path \in BOOLEAN : Read(p, e, path)
    BY <1>2 DEF Record, RecordCapture, Event
  <2>2. pc[p] # "write"
    BY <1>2 DEF Record, RecordCapture
  <2> QED
    BY <2>1, <2>2, ExactRead
<1>3. ASSUME NEW p \in Process, Write(p) PROVE NumbersExact'
  BY <1>3, ExactWrite DEF Write, Goto, Form
<1>4. ASSUME NEW p \in Process, WriteShort(p) PROVE NumbersExact'
  <2>1. PICK form \in Form : file' = Append(file, Chunk(pending[p], form))
    BY <1>4 DEF WriteShort
  <2>2. PICK at \in {"boot", "idle"} : pc' = [pc EXCEPT ![p] = at]
    BY <1>4 DEF WriteShort, Return, Goto
  <2> QED
    BY <1>4, <2>1, <2>2, ExactWrite DEF WriteShort
<1>5. ASSUME NEW p \in Process,
             \/ Sync(p) \/ ReadRaises(p) \/ NothingLeft(p) \/ Finalize(p) \/ Preserve(p)
             \/ CaptureRaises(p) \/ Finish(p) \/ Crash(p)
      PROVE  NumbersExact'
  <2>1. UNCHANGED <<file, overlapped>>
    BY <1>5 DEF Sync, ReadRaises, NothingLeft, Finalize, Preserve, CaptureRaises, Finish, Crash, Bounds
  <2>2. \A q \in Process : pc'[q] = "write" => pc[q] = "write" /\ pending'[q] = pending[q]
    BY <1>5 DEF Sync, ReadRaises, NothingLeft, Finalize, Preserve, CaptureRaises, Finish, Crash,
                Return, Goto, Bounds, ExactInv, TypeInv, TypeOK
  <2> QED
    BY <2>1, <2>2, ExactKept
<1>6. CASE PowerLoss
  BY <1>6, ExactPowerLoss
<1>7. CASE Commit
  BY <1>7, ExactKept DEF Commit
<1>8. CASE LoseTrail
  BY <1>8 DEF LoseTrail, Blackout, NumbersExact
<1> QED
  BY <1>1, <1>2, <1>3, <1>4, <1>5, <1>6, <1>7, <1>8 DEF Next

\* The events of an id are numbered 1, 2, 3, ... in the order of their appends
\* (audit.py:42-43), whatever is lost or torn, as long as no append() has been
\* overtaken by another.
THEOREM Numbered == Spec => []NumberedInOrder
<1>1. Init => ExactInv
  BY TypeInit DEF Init, ExactInv, NumbersExact
<1>2. ExactInv /\ [Next]_vars => ExactInv'
  BY TypeNext, ExactNext DEF ExactInv
<1>3. ExactInv => NumberedInOrder
  BY DEF ExactInv, TypeInv, TypeOK, NumbersExact, NumberedInOrder, Num
<1> QED
  BY <1>1, <1>2, <1>3, PTL DEF Spec

----------------------------------------------------------------------------
(* What was acknowledged *)

KeptInv == TypeInv /\ Kept
Whole(l) == Chunk(l, "whole")

LEMMA Elements ==
  ASSUME TypeOK, NEW i \in 1 .. Len(file)
  PROVE  file[i] \in [line : Line, form : Form]
BY ElementOfSeq DEF TypeOK

\* A file that goes on from a prefix of the old one, of the synced chunks at
\* least, and has one more chunk that is not whole at most.
LEMMA KeptTorn ==
  ASSUME KeptInv, NEW k \in synced .. Len(file), NEW g, DOMAIN g \subseteq Nat,
         \A i \in 1 .. k : i \in DOMAIN g /\ g[i] = file[i],
         DOMAIN g \subseteq 1 .. k + 1
  PROVE  /\ \A l \in returned \ forfeited : \E i \in 1 .. synced : g[i] = Whole(l)
         /\ IsFiniteSet(Torn(g))
         /\ Cardinality(Torn(g)) <= tears + 1
         /\ (k + 1 \notin Torn(g)) => Cardinality(Torn(g)) <= tears
<1>1. Len(file) \in Nat /\ synced \in 0 .. Len(file) /\ DOMAIN file = 1 .. Len(file) /\ tears \in Nat
  BY DEF KeptInv, TypeInv, TypeOK
<1>2. IsFiniteSet(Torn(file)) /\ Cardinality(Torn(file)) \in Nat /\ Cardinality(Torn(file)) <= tears
  BY FS_CardinalityType DEF KeptInv, Kept
<1>3. \A l \in returned \ forfeited : \E i \in 1 .. synced : g[i] = Whole(l)
  <2> SUFFICES ASSUME NEW l \in returned \ forfeited PROVE \E i \in 1 .. synced : g[i] = Whole(l)
    OBVIOUS
  <2>1. PICK i \in 1 .. synced : file[i] = Whole(l)
    BY DEF KeptInv, Kept, Whole
  <2>2. i \in 1 .. k
    BY <1>1
  <2> QED
    BY <2>1, <2>2
<1>4. Torn(g) \subseteq Torn(file) \cup {k + 1}
  <2> SUFFICES ASSUME NEW i \in Torn(g), i # k + 1 PROVE i \in Torn(file)
    OBVIOUS
  <2>1. i \in DOMAIN g /\ g[i].form # "whole"
    BY DEF Torn
  <2>2. i \in 1 .. k
    BY <2>1, <1>1
  <2>3. i \in DOMAIN file /\ file[i] = g[i]
    BY <2>2, <1>1
  <2> QED
    BY <2>1, <2>3 DEF Torn
<1> DEFINE U == Torn(file) \cup {k + 1}
<1>5. IsFiniteSet(U) /\ Cardinality(U) <= tears + 1 /\ Cardinality(U) \in Nat
  <2>1. IsFiniteSet(U) /\ \/ Cardinality(U) = Cardinality(Torn(file))
                           \/ Cardinality(U) = Cardinality(Torn(file)) + 1
    BY <1>2, FS_AddElement
  <2> HIDE DEF U
  <2> QED
    BY <1>1, <1>2, <2>1
<1>6. Torn(g) \in SUBSET U
  BY <1>4
<1> HIDE DEF U
<1>7. IsFiniteSet(Torn(g)) /\ Cardinality(Torn(g)) <= Cardinality(U)
  BY <1>5, <1>6, FS_Subset
<1>8. Cardinality(Torn(g)) \in Nat
  BY <1>7, FS_CardinalityType
<1>9. ASSUME k + 1 \notin Torn(g) PROVE Cardinality(Torn(g)) <= tears
  <2>1. Torn(g) \in SUBSET Torn(file)
    BY <1>4, <1>9
  <2>2. Cardinality(Torn(g)) <= Cardinality(Torn(file))
    BY <1>2, <2>1, FS_Subset
  <2> QED
    BY <1>1, <1>2, <1>8, <2>2
<1> QED
  BY <1>1, <1>3, <1>5, <1>7, <1>8, <1>9

LEMMA KeptWrite ==
  ASSUME KeptInv, NEW p \in Process, pc[p] = "write", NEW form \in Form,
         file' = Append(file, Chunk(pending[p], form)),
         \/ /\ form = "whole" /\ pc' = [pc EXCEPT ![p] = "sync"]
            /\ UNCHANGED <<pending, tears>>
         \/ /\ tears' = tears + 1
            /\ \E at \in {"boot", "idle"} : pc' = [pc EXCEPT ![p] = at]
            /\ pending' = [pending EXCEPT ![p] = NoLine],
         UNCHANGED <<synced, returned, forfeited>>
  PROVE  Kept'
<1> USE DEF KeptInv, TypeInv
<1>1. /\ Len(file) \in Nat /\ synced \in 0 .. Len(file) /\ DOMAIN file = 1 .. Len(file)
      /\ file \in Seq([line : Line, form : Form])
  BY DEF TypeOK
<1> DEFINE g == Append(file, Chunk(pending[p], form))
<1>2. /\ DOMAIN g = 1 .. Len(file) + 1
      /\ g[Len(file) + 1] = Chunk(pending[p], form)
      /\ \A i \in 1 .. Len(file) : g[i] = file[i]
  <2>1. pending[p] \in Line
    BY DEF TypeOK
  <2>2. Chunk(pending[p], form) \in [line : Line, form : Form]
    BY <2>1 DEF Chunk
  <2> QED
    BY <1>1, <2>2
<1>3. file' = g
  OBVIOUS
<1> HIDE DEF g
<1>4. /\ \A l \in returned \ forfeited : \E i \in 1 .. synced : g[i] = Whole(l)
      /\ IsFiniteSet(Torn(g))
      /\ Cardinality(Torn(g)) <= tears + 1
      /\ (Len(file) + 1 \notin Torn(g)) => Cardinality(Torn(g)) <= tears
  <2>1. Len(file) \in synced .. Len(file) /\ DOMAIN g \subseteq Nat
    BY <1>1, <1>2
  <2>2. /\ DOMAIN g \subseteq 1 .. Len(file) + 1
        /\ \A i \in 1 .. Len(file) : i \in DOMAIN g /\ g[i] = file[i]
    BY <1>1, <1>2
  <2> QED
    BY <2>1, <2>2, KeptTorn
<1>5. Cardinality(Torn(g)) <= tears'
  <2>1. CASE form = "whole" /\ UNCHANGED tears
    <3>1. Len(file) + 1 \notin Torn(g)
      BY <2>1, <1>2 DEF Torn, Chunk
    <3> QED
      BY <2>1, <3>1, <1>4
  <2> QED
    BY <1>4, <2>1
<1>6. ASSUME NEW q \in Process, pc'[q] = "sync"
      PROVE  \E i \in DOMAIN g : g[i] = Whole(pending'[q])
  <2>1. CASE q = p
    <3>1. form = "whole" /\ pending' = pending
      BY <1>6, <2>1 DEF TypeOK
    <3>2. Len(file) + 1 \in DOMAIN g
      BY <1>1, <1>2
    <3> QED
      BY <2>1, <3>1, <3>2, <1>2 DEF Whole
  <2>2. CASE q # p
    <3>1. pc[q] = "sync" /\ pending'[q] = pending[q]
      BY <1>6, <2>2 DEF TypeOK
    <3>2. PICK i \in DOMAIN file : file[i] = Whole(pending[q])
      BY <3>1 DEF Kept, Whole
    <3>3. i \in DOMAIN g /\ g[i] = file[i]
      BY <1>1, <1>2
    <3> QED
      BY <3>1, <3>2, <3>3
  <2> QED
    BY <2>1, <2>2
<1> QED
  BY <1>3, <1>4, <1>5, <1>6 DEF Kept, Whole

LEMMA KeptSync == ASSUME KeptInv, NEW p \in Process, Sync(p) PROVE Kept'
<1> USE DEF KeptInv, TypeInv
<1>1. /\ pc[p] = "sync" /\ synced' = Len(file) /\ returned' = returned \cup {pending[p]}
      /\ pc' = [pc EXCEPT ![p] = "idle"]
      /\ \A q \in Process \ {p} : pending'[q] = pending[q]
      /\ UNCHANGED <<file, forfeited, tears>>
  BY DEF Sync, Return, Goto, Bounds, disk, TypeOK
<1>2. Len(file) \in Nat /\ synced \in 0 .. Len(file) /\ DOMAIN file = 1 .. Len(file)
  BY DEF TypeOK
<1>3. ASSUME NEW l \in returned' \ forfeited' PROVE \E i \in 1 .. Len(file) : file[i] = Whole(l)
  <2>1. CASE l \in returned
    BY <2>1, <1>1, <1>2, <1>3 DEF Kept, Whole
  <2>2. CASE l = pending[p]
    BY <2>2, <1>1, <1>2 DEF Kept, Whole
  <2> QED
    BY <1>1, <1>3, <2>1, <2>2
<1>4. ASSUME NEW q \in Process, pc'[q] = "sync"
      PROVE  \E i \in DOMAIN file : file[i] = Whole(pending'[q])
  <2>1. q # p /\ pc[q] = "sync"
    BY <1>1, <1>4 DEF TypeOK
  <2> QED
    BY <2>1, <1>1 DEF Kept, Whole
<1> QED
  BY <1>1, <1>3, <1>4 DEF Kept, Whole, Torn

LEMMA KeptPowerLoss == KeptInv /\ PowerLoss => Kept'
<1> SUFFICES ASSUME KeptInv, PowerLoss PROVE Kept'
  OBVIOUS
<1> USE DEF KeptInv, TypeInv
<1>1. (\A q \in Process : pc'[q] # "sync") /\ returned' = returned /\ forfeited' = forfeited
  BY DEF PowerLoss, Blackout
<1>2. Len(file) \in Nat /\ synced \in 0 .. Len(file) /\ tears \in Nat
  BY DEF TypeOK
<1>3. PICK k \in synced .. Len(file) :
        \/ file' = SubSeq(file, 1, k) /\ synced' = k /\ UNCHANGED tears
        \/ /\ k < Len(file)
           /\ tears' = tears + 1
           /\ \E form \in IF file[k + 1].form = "whole" THEN {"open", "torn"} ELSE {"torn"} :
                file' = Append(SubSeq(file, 1, k), Chunk(file[k + 1].line, form))
           /\ synced' = k + 1
  BY DEF PowerLoss
<1> DEFINE f == SubSeq(file, 1, k)
<1>4. k \in 0 .. Len(file) /\ k \in Nat /\ synced \in 0 .. k
  BY <1>2
<1>5. f \in Seq([line : Line, form : Form]) /\ Len(f) = k /\ \A i \in 1 .. k : f[i] = file[i]
  BY <1>4, PrefixNumbered DEF TypeOK, NumbersBounded
<1>6. DOMAIN f = 1 .. k
  BY <1>5
<1>7. CASE file' = f /\ synced' = k /\ UNCHANGED tears
  <2> HIDE DEF f
  <2>1. DOMAIN f \subseteq Nat /\ DOMAIN f \subseteq 1 .. k + 1
    BY <1>4, <1>6
  <2>2. \A i \in 1 .. k : i \in DOMAIN f /\ f[i] = file[i]
    BY <1>5, <1>6
  <2>3. k + 1 \notin Torn(f)
    BY <1>4, <1>6 DEF Torn
  <2>4. /\ \A l \in returned \ forfeited : \E i \in 1 .. synced : f[i] = Whole(l)
        /\ IsFiniteSet(Torn(f))
        /\ Cardinality(Torn(f)) <= tears
    BY <2>1, <2>2, <2>3, KeptTorn
  <2>5. \A i \in 1 .. synced : i \in 1 .. k
    BY <1>4
  <2> QED
    BY <1>1, <1>7, <2>4, <2>5 DEF Kept, Whole
<1>8. CASE /\ k < Len(file)
           /\ tears' = tears + 1
           /\ \E form \in IF file[k + 1].form = "whole" THEN {"open", "torn"} ELSE {"torn"} :
                file' = Append(f, Chunk(file[k + 1].line, form))
           /\ synced' = k + 1
  <2>1. PICK form \in {"open", "torn"} : file' = Append(f, Chunk(file[k + 1].line, form))
    BY <1>8
  <2>2. file[k + 1] \in [line : Line, form : Form] /\ form \in Form
    BY <1>2, <1>4, <1>8, Elements DEF Form
  <2>3. Chunk(file[k + 1].line, form) \in [line : Line, form : Form]
    BY <2>2 DEF Chunk
  <2> DEFINE g == Append(f, Chunk(file[k + 1].line, form))
  <2> HIDE DEF f
  <2>4. DOMAIN g = 1 .. k + 1 /\ \A i \in 1 .. k : g[i] = f[i]
    BY <1>4, <1>5, <2>3
  <2>5. file' = g
    BY <2>1
  <2> HIDE DEF g
  <2>6. \A i \in 1 .. k : i \in DOMAIN g /\ g[i] = file[i]
    BY <1>4, <1>5, <2>4
  <2>7. DOMAIN g \subseteq Nat /\ DOMAIN g \subseteq 1 .. k + 1
    BY <1>4, <2>4
  <2>8. /\ \A l \in returned \ forfeited : \E i \in 1 .. synced : g[i] = Whole(l)
        /\ IsFiniteSet(Torn(g))
        /\ Cardinality(Torn(g)) <= tears + 1
    BY <2>6, <2>7, KeptTorn
  <2>9. \A i \in 1 .. synced : i \in 1 .. k + 1
    BY <1>4
  <2> QED
    BY <1>1, <1>8, <2>5, <2>8, <2>9 DEF Kept, Whole
<1> QED
  BY <1>3, <1>7, <1>8

LEMMA KeptNext == KeptInv /\ [Next]_vars => Kept'
<1> SUFFICES ASSUME KeptInv, [Next]_vars PROVE Kept'
  OBVIOUS
<1>1. CASE UNCHANGED vars
  BY <1>1 DEF vars, KeptInv, Kept, Torn
<1>2. ASSUME NEW p \in Process, Write(p) PROVE Kept'
  BY <1>2, KeptWrite DEF Write, Goto, Bounds, disk, Form
<1>3. ASSUME NEW p \in Process, WriteShort(p) PROVE Kept'
  <2>1. PICK form \in Form : file' = Append(file, Chunk(pending[p], form))
    BY <1>3 DEF WriteShort
  <2>2. \E at \in {"boot", "idle"} : pc' = [pc EXCEPT ![p] = at]
    BY <1>3 DEF WriteShort, Return, Goto
  <2> QED
    BY <1>3, <2>1, <2>2, KeptWrite DEF WriteShort, Return, disk
<1>4. ASSUME NEW p \in Process, Sync(p) PROVE Kept'
  BY <1>4, KeptSync
<1>5. ASSUME NEW p \in Process,
             \/ Record(p) \/ RecordCapture(p) \/ ReadRaises(p) \/ NothingLeft(p) \/ Finalize(p)
             \/ Preserve(p) \/ CaptureRaises(p) \/ Finish(p) \/ Crash(p)
      PROVE  Kept'
  <2>1. UNCHANGED <<file, synced, returned, forfeited, tears>>
    BY <1>5 DEF Record, RecordCapture, Read, ReadRaises, NothingLeft, Finalize, Preserve,
                CaptureRaises, Finish, Crash, Bounds, disk
  <2>2. pc[p] # "sync" \/ Crash(p)
    BY <1>5 DEF Record, RecordCapture, ReadRaises, NothingLeft, Finalize, Preserve,
                CaptureRaises, Finish
  <2>3. \A q \in Process : pc'[q] = "sync" => pc[q] = "sync" /\ pending'[q] = pending[q]
    BY <1>5, <2>2 DEF Record, RecordCapture, Read, ReadRaises, NothingLeft, Finalize, Preserve,
                CaptureRaises, Finish, Crash, Return, Goto, Bounds, KeptInv, TypeInv, TypeOK
  <2> QED
    BY <2>1, <2>3 DEF KeptInv, Kept, Torn
<1>6. CASE PowerLoss
  BY <1>6, KeptPowerLoss
<1>7. CASE Commit
  BY <1>7 DEF Commit, Bounds, KeptInv, Kept, Torn
<1>8. CASE LoseTrail
  <2>1. /\ Torn(file') = {} /\ tears' = tears /\ returned' \ forfeited' = {}
        /\ \A q \in Process : pc'[q] # "sync"
    BY <1>8 DEF LoseTrail, Blackout, Torn
  <2>2. IsFiniteSet(Torn(file')) /\ Cardinality(Torn(file')) = 0 /\ 0 <= tears
    BY <2>1, FS_EmptySet DEF KeptInv, TypeInv, TypeOK
  <2> QED
    BY <2>1, <2>2 DEF Kept, Torn
<1> QED
  BY <1>1, <1>2, <1>3, <1>4, <1>5, <1>6, <1>7, <1>8 DEF Next

\* The lines that cannot be read are mapped, each to its own, to the chunks
\* they were glued to.
LEMMA LostAreGlued == KeptInv => TearsCostOneEach
<1> SUFFICES ASSUME KeptInv PROVE TearsCostOneEach
  OBVIOUS
<1> USE DEF KeptInv, TypeInv
<1> DEFINE L == {l \in returned \ forfeited : ~l.split /\ ~Readably(l)}
           At(l) == CHOOSE i \in 1 .. synced : file[i] = Whole(l)
           glue == [l \in L |-> At(l) - 1]
<1>1. Len(file) \in Nat /\ synced \in 0 .. Len(file) /\ DOMAIN file = 1 .. Len(file) /\ tears \in Nat
  BY DEF TypeOK
<1>2. ASSUME NEW l \in L
      PROVE  At(l) \in 1 .. synced /\ file[At(l)] = Whole(l) /\ At(l) - 1 \in Torn(file)
  <2>1. \E i \in 1 .. synced : file[i] = Whole(l)
    BY DEF Kept, Whole
  <2>2. At(l) \in 1 .. synced /\ file[At(l)] = Whole(l)
    BY <2>1
  <2> HIDE DEF At
  <2>3. At(l) \in DOMAIN file
    BY <2>2, <1>1
  <2>4. file[At(l)].line = l /\ file[At(l)].form = "whole"
    BY <2>2 DEF Whole, Chunk
  <2>5. ~Good(file, At(l))
    BY <2>3, <2>4 DEF Readably
  <2>6. At(l) > 1 /\ file[At(l) - 1].form # "whole"
    BY <2>4, <2>5 DEF Good
  <2>7. At(l) - 1 \in DOMAIN file
    BY <2>3, <2>6, <1>1
  <2> QED
    BY <2>2, <2>6, <2>7 DEF Torn
<1> HIDE DEF At
<1>3. \A l, m \in L : glue[l] = glue[m] => l = m
  <2> SUFFICES ASSUME NEW l \in L, NEW m \in L, glue[l] = glue[m] PROVE l = m
    OBVIOUS
  <2>1. At(l) \in 1 .. synced /\ At(m) \in 1 .. synced /\ At(l) - 1 = At(m) - 1
    BY <1>2
  <2>2. Whole(l) = Whole(m)
    BY <1>1, <1>2, <2>1
  <2> QED
    BY <2>2 DEF Whole, Chunk
<1>4. glue \in Injection(L, Torn(file))
  <2>1. glue \in [L -> Torn(file)]
    BY <1>2
  <2> QED
    BY <1>3, <2>1 DEF Injection, IsInjective
<1>5. IsFiniteSet(Torn(file)) /\ Cardinality(Torn(file)) <= tears
  BY DEF Kept
<1> HIDE DEF L, glue
<1>6. IsFiniteSet(L) /\ Cardinality(L) <= Cardinality(Torn(file))
  BY <1>4, <1>5, FS_Injection
<1>7. Cardinality(L) \in Nat /\ Cardinality(Torn(file)) \in Nat
  BY <1>5, <1>6, FS_CardinalityType
<1> QED
  BY <1>1, <1>5, <1>6, <1>7 DEF TearsCostOneEach, L

\* A write that is cut short costs one acknowledged event at most, whatever
\* else happens, of those whose line splitlines() does not break and that did
\* not go with the entry of the file (append_line, local_file_store.py:104).
THEOREM AcknowledgedIsKept == Spec => []TearsCostOneEach
<1>1. Init => KeptInv
  <2>1. Init => Torn(file) = {}
    BY DEF Init, Torn
  <2>2. Init => Kept
    BY <2>1, FS_EmptySet DEF Init, Kept
  <2> QED
    BY <2>2, TypeInit DEF KeptInv
<1>2. KeptInv /\ [Next]_vars => KeptInv'
  BY TypeNext, KeptNext DEF KeptInv
<1> QED
  BY <1>1, <1>2, LostAreGlued, PTL DEF Spec

=============================================================================
