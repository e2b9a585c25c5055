--------------------------- MODULE InboundProofs ---------------------------
(***************************************************************************)
(* Proofs about Inbound, for any number of workers, pairs, transmissions,   *)
(* failing steps and crashes.                                               *)
(*                                                                         *)
(* Shape says that in one service a pair is in the hands of one worker at a *)
(* time, and of none outside a pass.  Flow follows the pair through its     *)
(* pipeline, and keeps the ledger of deliveries.  Memory ties what a worker *)
(* has parsed to the file that it moves, and then verifies.                 *)
(***************************************************************************)
EXTENDS Inbound, TLAPS

USE InboundAssumption DEF InboundAssumption, known

\* A worker has a pair exactly while it is busy, ...
WorkerOK == \A w \in Worker : pc[w] = "idle" <=> pair[w] = None
\* ... no other worker has it, ...
OneWorkerPerPair == \A w, x \in Worker : w # x /\ pair[w] # None => pair[w] # pair[x]
\* ... it is not in the pass any more, ...
OncePerPass == \A w \in Worker : pair[w] \notin batch
\* ... and nobody is busy outside a pass.
QuietOutside == svc \notin {"dispatch", "failing"} => Quiet

\* What a worker goes by is something that could be parsed.
MemoryOK == parsed \in [Worker -> {"none"} \cup Legible] /\ overtaken \subseteq Worker

Shape == TypeOK /\ WorkerOK /\ OneWorkerPerPair /\ OncePerPass /\ QuietOutside

Delivered(p) == "MOVED_TO_BUSINESS_FOLDER" \in audit[p]

Working == {"payload", "meta", "sig", "verify", "verifyMeta", "decrypt", "decompress",
            "deliver", "record"}
Holding == {"meta", "sig", "verify", "verifyMeta", "decrypt", "decompress", "deliver"}

\* What is known of a pair by where its worker is.
ProgressOf(w) == LET p == pair[w] IN
  /\ pc[w] \in {"dropPayload", "dropMeta"} => Delivered(p)
  /\ pc[w] \in Working => ~Delivered(p)
  /\ pc[w] \in Holding => work[p]["payload"] # "none"
  /\ pc[w] \in {"verifyMeta", "decrypt", "decompress", "deliver"} =>
       work[p]["payload"] = "whole"
  /\ pc[w] \in {"decrypt", "decompress", "deliver"} /\ RequireSig =>
       sig[w] /\ work[p]["meta"] = "whole" /\ work[p]["sig"] = "whole"
  /\ pc[w] = "record" => times[p] > 0
Progress == \A w \in Worker : ProgressOf(w)

Lapses == faults + crashes

\* A delivery is recorded, about to be, or the victim of a lapse.
LedgerOf(p) ==
  /\ times[p] <= Lapses + 1
  /\ times[p] > Lapses => \/ Delivered(p)
                          \/ \E w \in Worker : pc[w] = "record" /\ pair[w] = p
  /\ Delivered(p) => times[p] > 0
Ledger == \A p \in Pair : LedgerOf(p)

Flow == Progress /\ Ledger
IInv == Shape /\ Flow

----------------------------------------------------------------------------

LEMMA InitIInv == Init => IInv
  <1> SUFFICES ASSUME Init PROVE IInv
    OBVIOUS
  <1>1. TypeOK
    BY DEF Init, TypeOK, Nothing, Status, Event, Point, Legible
  <1>2. Shape
    BY <1>1 DEF Init, Shape, WorkerOK, OneWorkerPerPair, OncePerPass, QuietOutside, Quiet
  <1>3. Flow
    BY DEF Init, Flow, Progress, ProgressOf, Ledger, LedgerOf, Lapses, Delivered, Working,
       Holding
  <1> QED
    BY <1>2, <1>3 DEF IInv

----------------------------------------------------------------------------
(* Shape *)

\* A busy worker has a pair of its own.
LEMMA Busy ==
  ASSUME Shape, NEW w \in Worker, pc[w] # "idle"
  PROVE  pair[w] \in Pair
  BY DEF Shape, TypeOK, WorkerOK

\* A worker that goes on, or is done, disturbs no other.
LEMMA ShapeOwn ==
  ASSUME Shape, NEW w \in Worker, pc[w] # "idle", TypeOK',
         \A x \in Worker \ {w} : pc'[x] = pc[x] /\ pair'[x] = pair[x],
         \/ pc'[w] # "idle" /\ pair'[w] = pair[w]
         \/ pc'[w] = "idle" /\ pair'[w] = None,
         batch' = batch, svc' \in {svc, "failing"}
  PROVE  Shape'
  <1>1. WorkerOK'
    BY DEF Shape, WorkerOK
  <1>2. OneWorkerPerPair'
    BY DEF Shape, OneWorkerPerPair
  <1>3. OncePerPass'
    <2>1. None \notin batch
      BY DEF Shape, TypeOK
    <2> QED
      BY <2>1 DEF Shape, OncePerPass
  <1>4. QuietOutside'
    BY DEF Shape, QuietOutside, Quiet
  <1> QED
    BY <1>1, <1>2, <1>3, <1>4 DEF Shape

\* The parts of a pair that leave exchange_in.
LEMMA GoneType ==
  ASSUME TypeOK, NEW p \in Pair, NEW xs, Gone(p, xs)
  PROVE  exch' \in [Pair -> [Part -> Status]] /\ old' \subseteq Pair
  BY DEF TypeOK, Gone, Status

LEMMA ReadType ==
  ASSUME TypeOK, NEW p \in Pair, NEW files, NEW xs, Read(files, p, xs)
  PROVE  misread' \subseteq Pair
  BY DEF TypeOK, Read

LEMMA FinishShape ==
  ASSUME Shape, NEW w \in Worker, Finish(w)
  PROVE  /\ pc' \in [Worker -> Point] /\ pair' \in [Worker -> Pair \cup {None}]
         /\ sig' \in [Worker -> BOOLEAN] /\ MemoryOK'
         /\ pc'[w] = "idle" /\ pair'[w] = None
         /\ \A x \in Worker \ {w} : pc'[x] = pc[x] /\ pair'[x] = pair[x] /\ sig'[x] = sig[x]
  BY DEF Shape, TypeOK, Finish, Goto, Point, MemoryOK

LEMMA GotoShape ==
  ASSUME Shape, NEW w \in Worker, NEW l \in Point \ {"idle"}, Goto(w, l)
  PROVE  /\ pc' \in [Worker -> Point]
         /\ pc'[w] = l
         /\ \A x \in Worker \ {w} : pc'[x] = pc[x]
  BY DEF Shape, TypeOK, Goto

LEMMA ToQuarantineShape ==
  ASSUME Shape, NEW w \in Worker, ToQuarantine(w)
  PROVE  Goto(w, "capture") /\ locks' \subseteq Pair
  BY DEF Shape, TypeOK, ToQuarantine

\* The steps that only look.
LEMMA ShapeLook ==
  ASSUME Shape, NEW w \in Worker,
         \/ Incomplete(w) \/ Complete(w) \/ Load(w) \/ Lock(w) \/ Check(w)
         \/ Verify(w) \/ VerifyMeta(w)
  PROVE  Shape'
  <1>1. /\ pc[w] # "idle" /\ pair[w] \in Pair
        /\ UNCHANGED <<disk, sig, times, aside>> /\ MemoryOK'
    BY Busy DEF Incomplete, Complete, Load, Lock, Check, Verify, VerifyMeta, At, MemoryOK,
       Shape, TypeOK
  <1>2. \E l \in Point \ {"idle"} : Goto(w, l)
    <2>1. /\ {"orphan", "load", "lock", "unparsed", "capture", "check", "dropPayload",
              "payload", "verifyMeta"} \subseteq Point \ {"idle"}
          /\ Following(pair[w], "verifyMeta") \in Point \ {"idle"}
      BY DEF Following, Point, Section
    <2> QED
      BY <2>1 DEF Incomplete, Complete, Load, Lock, Check, Verify, VerifyMeta, ToQuarantine
  <1>3. /\ pc' \in [Worker -> Point] /\ pc'[w] # "idle"
        /\ \A x \in Worker \ {w} : pc'[x] = pc[x]
    BY <1>2, GotoShape
  <1>4. locks' \subseteq Pair
    BY <1>1 DEF Incomplete, Complete, Load, Lock, Check, Verify, VerifyMeta, ToQuarantine,
       Shape, TypeOK
  <1>5. misread' \subseteq Pair
    BY <1>1 DEF Incomplete, Complete, Load, Lock, Check, Verify, VerifyMeta, Read,
       Shape, TypeOK
  <1>6. TypeOK'
    BY <1>1, <1>3, <1>4, <1>5 DEF Shape, TypeOK, disk, aside, outside, service, MemoryOK
  <1> QED
    BY <1>1, <1>3, <1>6, ShapeOwn DEF aside, service

\* One file, or all files of a pair, change their status.
LEMMA PartType ==
  ASSUME NEW f \in [Pair -> [Part -> Status]], NEW p \in Pair, NEW x \in Part, NEW v \in Status
  PROVE  [f EXCEPT ![p][x] = v] \in [Pair -> [Part -> Status]]
  OBVIOUS

LEMMA NothingType ==
  ASSUME NEW f \in [Pair -> [Part -> Status]], NEW p \in Pair
  PROVE  [f EXCEPT ![p] = Nothing] \in [Pair -> [Part -> Status]]
  <1>1. Nothing \in [Part -> Status]
    BY DEF Nothing, Status
  <1> QED
    BY <1>1

LEMMA SetType ==
  ASSUME NEW S, NEW f \in [Pair -> SUBSET S], NEW p \in Pair, NEW X \in SUBSET S
  PROVE  [f EXCEPT ![p] = X] \in [Pair -> SUBSET S]
  OBVIOUS

\* The steps of the pipeline that write.
LEMMA ShapeWrite ==
  ASSUME Shape, NEW w \in Worker,
         \/ \E x \in Part : MoveIn(w, x, "meta") \/ MoveIn(w, x, "sig") \/ MoveIn(w, x, "verify")
         \/ Derive(w, "decrypt", "decrypted") \/ Derive(w, "decompress", "clear")
         \/ Deliver(w) \/ Record(w)
         \/ Drop(w, "payload", "dropPayload", "dropMeta") \/ Drop(w, "meta", "dropMeta", "leave")
         \/ Capture(w)
  PROVE  Shape'
  <1>1. /\ pc[w] # "idle" /\ pair[w] \in Pair
        /\ UNCHANGED <<locks, parsed, overtaken, misread, aside>>
    BY Busy DEF MoveIn, Derive, Deliver, Record, Drop, Capture, At, Part
  <1>2. \E l \in Point \ {"idle"} : Goto(w, l)
    <2>1. /\ {"meta", "sig", "verify", "record", "leave", "dropMeta", "error"}
               \subseteq Point \ {"idle"}
          /\ Following(pair[w], "decrypt") \in Point \ {"idle"}
          /\ Following(pair[w], "decompress") \in Point \ {"idle"}
      BY DEF Following, Point, Section
    <2> QED
      BY <2>1 DEF MoveIn, Derive, Deliver, Record, Drop, Capture
  <1>3. /\ pc' \in [Worker -> Point] /\ pc'[w] # "idle"
        /\ \A x \in Worker \ {w} : pc'[x] = pc[x]
    BY <1>2, GotoShape
  <1>4. exch' \in [Pair -> [Part -> Status]] /\ old' \subseteq Pair
    <2>1. \/ \E xs : Gone(pair[w], xs)
          \/ UNCHANGED <<exch, old>>
      BY DEF MoveIn, Derive, Deliver, Record, Drop, Capture
    <2> QED
      BY <1>1, <2>1, GoneType DEF Shape, TypeOK
  <1>5. work' \in [Pair -> [Part -> Status]]
    <2>1. \/ work' = work
          \/ work' = [work EXCEPT ![pair[w]] = Nothing]
          \/ \E x \in Part, v \in Status : work' = [work EXCEPT ![pair[w]][x] = v]
      <3>1. ASSUME NEW x \in Part, MoveIn(w, x, "meta") \/ MoveIn(w, x, "sig") \/ MoveIn(w, x, "verify")
            PROVE  work' = work \/ work' = [work EXCEPT ![pair[w]][x] = exch[pair[w]][x]]
        BY <3>1 DEF MoveIn
      <3>2. \A x \in Part : exch[pair[w]][x] \in Status
        BY <1>1 DEF Shape, TypeOK
      <3>3. CASE Deliver(w)
        BY <3>3 DEF Deliver, Part, Status
      <3> QED
        BY <3>1, <3>2, <3>3 DEF Derive, Record, Drop, Capture
    <2>2. work \in [Pair -> [Part -> Status]]
      BY DEF Shape, TypeOK
    <2> QED
      <3>1. ASSUME NEW x \in Part, NEW v \in Status, work' = [work EXCEPT ![pair[w]][x] = v]
            PROVE  work' \in [Pair -> [Part -> Status]]
        BY <1>1, <2>2, <3>1, PartType
      <3>2. CASE work' = [work EXCEPT ![pair[w]] = Nothing]
        BY <1>1, <2>2, <3>2, NothingType
      <3> QED
        BY <2>1, <2>2, <3>1, <3>2
  <1>6. derived' \in [Pair -> SUBSET Derived]
    <2>1. \/ derived' = derived
          \/ \E X \in SUBSET Derived : derived' = [derived EXCEPT ![pair[w]] = X]
      <3>1. derived[pair[w]] \in SUBSET Derived
        BY <1>1 DEF Shape, TypeOK
      <3>2. \A x : derived[pair[w]] \ {x} \in SUBSET Derived
        BY <3>1
      <3>3. \A x \in Derived : derived[pair[w]] \cup {x} \in SUBSET Derived
        BY <3>1
      <3>4. CASE Derive(w, "decrypt", "decrypted") \/ Derive(w, "decompress", "clear")
        BY <3>3, <3>4 DEF Derive, Derived
      <3>5. CASE Deliver(w)
        BY <3>2, <3>5 DEF Deliver
      <3>6. CASE Capture(w)
        BY <3>2, <3>6 DEF Capture
      <3> QED
        BY <3>4, <3>5, <3>6 DEF MoveIn, Record, Drop
    <2>2. derived \in [Pair -> SUBSET Derived]
      BY DEF Shape, TypeOK
    <2>3. ASSUME NEW X \in SUBSET Derived, derived' = [derived EXCEPT ![pair[w]] = X]
          PROVE  derived' \in [Pair -> SUBSET Derived]
      BY <1>1, <2>2, <2>3, SetType
    <2> QED
      BY <2>1, <2>2, <2>3
  <1>7. error' \subseteq Pair /\ audit' \in [Pair -> SUBSET Event]
    <2>1. CASE Capture(w)
      BY <1>1, <2>1 DEF Capture, Shape, TypeOK
    <2>2. CASE Record(w)
      BY <1>1, <2>2 DEF Record, Shape, TypeOK, Event
    <2> QED
      BY <2>1, <2>2 DEF MoveIn, Derive, Deliver, Drop, Shape, TypeOK
  <1>8. times' \in [Pair -> Nat] /\ sig' \in [Worker -> BOOLEAN]
    <2>1. \/ times' = times
          \/ times' = [times EXCEPT ![pair[w]] = times[pair[w]] + 1]
      BY DEF MoveIn, Derive, Deliver, Record, Drop, Capture
    <2>2. \/ sig' = sig
          \/ \E b \in BOOLEAN : sig' = [sig EXCEPT ![w] = b]
      <3>1. CASE \E x \in Part : MoveIn(w, x, "meta") \/ MoveIn(w, x, "sig") \/ MoveIn(w, x, "verify")
        BY <3>1 DEF MoveIn
      <3>2. ASSUME \/ Derive(w, "decrypt", "decrypted") \/ Derive(w, "decompress", "clear")
                   \/ Deliver(w) \/ Record(w)
                   \/ Drop(w, "payload", "dropPayload", "dropMeta")
                   \/ Drop(w, "meta", "dropMeta", "leave")
                   \/ Capture(w)
            PROVE  sig' = sig
        BY <3>2 DEF Derive, Deliver, Record, Drop, Capture
      <3> QED
        BY <3>1, <3>2
    <2>3. times' \in [Pair -> Nat]
      <3>1. times \in [Pair -> Nat] /\ pair[w] \in Pair
        BY <1>1 DEF Shape, TypeOK
      <3>2. times[pair[w]] + 1 \in Nat
        BY <3>1
      <3> QED
        BY <2>1, <3>1, <3>2
    <2>4. sig' \in [Worker -> BOOLEAN]
      BY <2>2 DEF Shape, TypeOK
    <2> QED
      BY <2>3, <2>4
  <1>9. TypeOK'
    BY <1>1, <1>3, <1>4, <1>5, <1>6, <1>7, <1>8 DEF Shape, TypeOK, aside, outside, service
  <1> QED
    BY <1>1, <1>3, <1>9, ShapeOwn DEF aside, service

\* The steps with which a worker is done.
LEMMA ShapeFinish ==
  ASSUME Shape, NEW w \in Worker,
         \/ NotReady(w) \/ LoadEscapes(w) \/ Leave(w) \/ RecordError(w) \/ Raise(w)
         \/ Refuse(w, "orphan", {"payload"}) \/ Refuse(w, "unparsed", {"payload", "meta"})
  PROVE  Shape'
  <1>1. pc[w] # "idle" /\ pair[w] \in Pair /\ Finish(w)
    BY Busy DEF NotReady, LoadEscapes, Leave, RecordError, Raise, Refuse, At
  <1>2. /\ pc' \in [Worker -> Point] /\ pair' \in [Worker -> Pair \cup {None}]
        /\ sig' \in [Worker -> BOOLEAN] /\ MemoryOK'
        /\ pc'[w] = "idle" /\ pair'[w] = None
        /\ \A x \in Worker \ {w} : pc'[x] = pc[x] /\ pair'[x] = pair[x] /\ sig'[x] = sig[x]
    BY <1>1, FinishShape
  <1>3. batch' = batch /\ svc' \in {svc, "failing"} /\ todo' = todo
    BY DEF NotReady, LoadEscapes, Leave, RecordError, Raise, Refuse, service
  <1>4. exch' \in [Pair -> [Part -> Status]] /\ old' \subseteq Pair
    <2>1. \/ \E xs : Gone(pair[w], xs)
          \/ UNCHANGED <<exch, old>>
      BY DEF NotReady, LoadEscapes, Leave, RecordError, Raise, Refuse, disk
    <2> QED
      BY <1>1, <2>1, GoneType DEF Shape, TypeOK
  <1>5. error' \subseteq Pair /\ audit' \in [Pair -> SUBSET Event]
    BY <1>1 DEF NotReady, LoadEscapes, Leave, RecordError, Raise, Refuse, disk, Shape,
       TypeOK, Event
  <1>6. locks' \subseteq Pair /\ misread' \subseteq Pair
    BY <1>1 DEF NotReady, LoadEscapes, Leave, RecordError, Raise, Refuse, Read, Shape,
       TypeOK
  <1>7. faults' \in 0 .. MaxFault /\ crashes' \in 0 .. MaxCrash /\ sends' \in 0 .. MaxSend
    BY DEF NotReady, LoadEscapes, Leave, RecordError, Raise, Refuse, outside, Shape, TypeOK
  <1>8. UNCHANGED <<transit, arrived, work, derived, times>>
    BY DEF NotReady, LoadEscapes, Leave, RecordError, Raise, Refuse, outside, disk
  <1>9. TypeOK'
    BY <1>2, <1>3, <1>4, <1>5, <1>6, <1>7, <1>8 DEF Shape, TypeOK, MemoryOK
  <1> QED
    BY <1>1, <1>2, <1>3, <1>9, ShapeOwn

LEMMA ShapeFault ==
  ASSUME Shape, NEW w \in Worker, Fault(w)
  PROVE  Shape'
  <1>1. pc[w] # "idle" /\ Goto(w, "capture") /\ locks' \subseteq Pair
    BY DEF Fault, ToQuarantine, Section, Shape, TypeOK
  <1>2. /\ pc' \in [Worker -> Point] /\ pc'[w] # "idle"
        /\ \A x \in Worker \ {w} : pc'[x] = pc[x]
    BY <1>1, GotoShape DEF Point
  <1>3. TypeOK'
    BY <1>1, <1>2 DEF Fault, Shape, TypeOK, disk, outside, service
  <1> QED
    BY <1>1, <1>2, <1>3, ShapeOwn DEF Fault, service

LEMMA ShapeTake ==
  ASSUME Shape, NEW w \in Worker, NEW p \in Pair, Take(w, p)
  PROVE  Shape'
  <1>1. /\ pc' = [pc EXCEPT ![w] = "inspect"] /\ pair' = [pair EXCEPT ![w] = p]
        /\ p \in batch /\ batch' = batch \ {p} /\ svc' = svc
        /\ svc \in {"dispatch", "failing"}
    BY DEF Take, Goto
  <1>2. pc' \in [Worker -> Point] /\ pair' \in [Worker -> Pair \cup {None}]
    BY <1>1 DEF Shape, TypeOK, Point
  <1>3. TypeOK'
    BY <1>1, <1>2 DEF Take, Shape, TypeOK, disk, outside
  <1>4. WorkerOK'
    BY <1>1 DEF Shape, TypeOK, WorkerOK
  <1>5. OneWorkerPerPair'
    BY <1>1 DEF Shape, TypeOK, OneWorkerPerPair, OncePerPass
  <1>6. OncePerPass'
    BY <1>1 DEF Shape, TypeOK, OncePerPass
  <1>7. QuietOutside'
    BY <1>1 DEF QuietOutside
  <1> QED
    BY <1>3, <1>4, <1>5, <1>6, <1>7 DEF Shape

\* Nobody's worker is concerned.
LEMMA ShapeElsewhere ==
  ASSUME Shape, TypeOK', UNCHANGED <<pc, pair, batch>>,
         svc' = svc \/ Quiet
  PROVE  Shape'
  BY DEF Shape, WorkerOK, OneWorkerPerPair, OncePerPass, QuietOutside, Quiet

LEMMA ShapeTransport ==
  ASSUME Shape, NEW p \in Pair, NEW x \in Part,
         Send(p) \/ Age(p) \/ Expire(p) \/ Arrive(p, x) \/ Close(p, x)
  PROVE  Shape'
  <1>1. /\ UNCHANGED <<pc, pair, sig, service, derived, error, audit, misread, times, faults,
                       crashes>>
        /\ MemoryOK'
    BY DEF Send, Age, Expire, Arrive, Close, program, disk, outside, workers, MemoryOK, Shape,
       TypeOK
  <1>2. /\ transit' \in [Pair -> SUBSET Part]
        /\ old' \subseteq Pair /\ arrived' \subseteq Pair /\ locks' \subseteq Pair
        /\ sends' \in 0 .. MaxSend
    <2>1. Parts(p) \in SUBSET Part
      BY DEF Parts, Part
    <2>2. CASE Send(p)
      BY <2>1, <2>2 DEF Send, program, Shape, TypeOK
    <2>3. CASE Arrive(p, x)
      BY <2>3 DEF Arrive, program, Shape, TypeOK
    <2>4. CASE Close(p, x)
      BY <2>4 DEF Close, Shape, TypeOK
    <2> QED
      BY <2>2, <2>3, <2>4 DEF Age, Expire, program, disk, outside, Shape, TypeOK
  <1>3. exch' \in [Pair -> [Part -> Status]] /\ work' \in [Pair -> [Part -> Status]]
    <2>1. \/ exch' = exch
          \/ \E v \in Status : exch' = [exch EXCEPT ![p][x] = v]
      BY DEF Send, Age, Expire, Arrive, Close, program, disk, Status
    <2>2. \/ work' = work
          \/ \E v \in Status : work' = [work EXCEPT ![p][x] = v]
      BY DEF Send, Age, Expire, Arrive, Close, program, disk, Status
    <2>3. exch \in [Pair -> [Part -> Status]] /\ work \in [Pair -> [Part -> Status]]
      BY DEF Shape, TypeOK
    <2>4. ASSUME NEW v \in Status, exch' = [exch EXCEPT ![p][x] = v]
          PROVE  exch' \in [Pair -> [Part -> Status]]
      BY <2>3, <2>4, PartType
    <2>5. ASSUME NEW v \in Status, work' = [work EXCEPT ![p][x] = v]
          PROVE  work' \in [Pair -> [Part -> Status]]
      BY <2>3, <2>5, PartType
    <2> QED
      BY <2>1, <2>2, <2>3, <2>4, <2>5
  <1>4. TypeOK'
    BY <1>1, <1>2, <1>3 DEF Shape, TypeOK, service, MemoryOK
  <1> QED
    BY <1>1, <1>4, ShapeElsewhere DEF service

LEMMA ShapeService ==
  ASSUME Shape,
         Boot \/ (\E p \in Pair : Resolve(p)) \/ Reconciled \/ Scan \/ EndPass \/ Fail \/ Crash
  PROVE  Shape'
  <1>1. TypeOK'
    <2>1. CASE Boot
      BY <2>1 DEF Boot, Directories, Shape, TypeOK, disk, idling, workers, outside
    <2>2. ASSUME NEW p \in Pair, Resolve(p) PROVE TypeOK'
      <3>1. /\ work' \in [Pair -> [Part -> Status]] /\ derived' \in [Pair -> SUBSET Derived]
            /\ audit' \in [Pair -> SUBSET Event] /\ error' \subseteq Pair /\ todo' \subseteq Pair
        <4>1. work' \in [Pair -> [Part -> Status]]
          BY <2>2, NothingType DEF Resolve, Shape, TypeOK
        <4>2. audit' \in [Pair -> SUBSET Event]
          <5>1. audit \in [Pair -> SUBSET Event]
            BY DEF Shape, TypeOK
          <5>2. audit[p] \cup {"ERROR"} \in SUBSET Event
            BY <5>1 DEF Event
          <5>3. audit' = audit \/ audit' = [audit EXCEPT ![p] = audit[p] \cup {"ERROR"}]
            BY <2>2 DEF Resolve
          <5> QED
            BY <5>1, <5>2, <5>3, SetType
        <4> QED
          BY <2>2, <4>1, <4>2 DEF Resolve, Shape, TypeOK
      <3> QED
        BY <2>2, <3>1 DEF Resolve, Shape, TypeOK, idling, workers, outside
    <2>3. CASE Reconciled \/ Scan \/ EndPass \/ Fail
      BY <2>3 DEF Reconciled, Scan, EndPass, Fail, Shape, TypeOK, disk, idling, workers,
         outside
    <2>4. CASE Crash
      BY <2>4 DEF Crash, Shape, TypeOK, disk, Point
    <2> QED
      BY <2>1, <2>2, <2>3, <2>4
  <1>2. CASE Crash
    BY <1>1, <1>2 DEF Crash, Shape, TypeOK, WorkerOK, OneWorkerPerPair, OncePerPass,
       QuietOutside, Quiet
  <1>3. CASE ~Crash
    <2>1. Quiet /\ UNCHANGED <<pc, pair>>
      BY <1>3 DEF Boot, Resolve, Reconciled, Scan, EndPass, Fail, idling, workers, Shape,
         QuietOutside
    <2>2. \A w \in Worker : pair[w] = None
      BY <2>1 DEF Quiet, Shape, WorkerOK
    <2>3. OncePerPass'
      BY <1>1, <2>1, <2>2 DEF OncePerPass, TypeOK
    <2> QED
      BY <1>1, <2>1, <2>3 DEF Shape, WorkerOK, OneWorkerPerPair, QuietOutside, Quiet
  <1> QED
    BY <1>2, <1>3

LEMMA ShapeNext == Shape /\ [Next]_vars => Shape'
  <1> SUFFICES ASSUME Shape, [Next]_vars PROVE Shape'
    OBVIOUS
  <1>1. CASE UNCHANGED vars
    BY <1>1 DEF vars, disk, workers, service, Shape, TypeOK, WorkerOK, OneWorkerPerPair,
       OncePerPass, QuietOutside, Quiet
  <1>2. ASSUME NEW p \in Pair, Send(p) \/ Age(p) \/ Expire(p) PROVE Shape'
    BY <1>2, ShapeTransport DEF Part
  <1>3. ASSUME NEW p \in Pair, NEW x \in Part, Arrive(p, x) \/ Close(p, x) PROVE Shape'
    BY <1>3, ShapeTransport
  <1>4. ASSUME NEW w \in Worker, Step(w) PROVE Shape'
    BY <1>4, ShapeLook, ShapeWrite, ShapeFinish DEF Step, Part
  <1>5. CASE Run \/ Crash
    BY <1>5, ShapeService DEF Run
  <1> QED
    BY <1>1, <1>2, <1>3, <1>4, <1>5, ShapeTake, ShapeFault, ShapeFinish DEF Next

----------------------------------------------------------------------------
(* Flow *)

\* A step of one worker leaves what is known of the other pairs alone.
LEMMA FlowOwn ==
  ASSUME IInv, NEW w \in Worker, NEW p \in Pair, p = pair[w],
         \A x \in Worker \ {w} : pc'[x] = pc[x] /\ pair'[x] = pair[x] /\ sig'[x] = sig[x],
         \A q \in Pair \ {p} :
           work'[q] = work[q] /\ Delivered(q)' = Delivered(q) /\ times'[q] = times[q],
         faults' \in {faults, faults + 1}, crashes' = crashes,
         ProgressOf(w)', LedgerOf(p)'
  PROVE  Flow'
  <1>1. ASSUME NEW x \in Worker \ {w} PROVE ProgressOf(x)'
    <2>1. CASE pc[x] = "idle"
      BY <2>1 DEF ProgressOf, Working, Holding
    <2>2. CASE pc[x] # "idle"
      <3>1. pair[x] \in Pair \ {p}
        BY <2>2 DEF IInv, Shape, TypeOK, WorkerOK, OneWorkerPerPair
      <3>2. ProgressOf(x)
        BY DEF IInv, Flow, Progress
      <3> QED
        BY <3>1, <3>2 DEF ProgressOf
    <2> QED
      BY <2>1, <2>2
  <1>2. ASSUME NEW q \in Pair \ {p} PROVE LedgerOf(q)'
    <2>1. LedgerOf(q)
      BY DEF IInv, Flow, Ledger
    <2>2. Lapses' \in Nat /\ Lapses' >= Lapses /\ Lapses \in Nat /\ times[q] \in Nat
      BY DEF Lapses, IInv, Shape, TypeOK
    <2>3. (\E x \in Worker : pc[x] = "record" /\ pair[x] = q)
          => (\E x \in Worker : pc[x] = "record" /\ pair[x] = q)'
      OBVIOUS
    <2> QED
      BY <2>1, <2>2, <2>3 DEF LedgerOf
  <1> QED
    BY <1>1, <1>2 DEF Flow, Progress, Ledger

\* The ledger of a pair whose worker neither delivers it nor records that.
LEMMA LedgerKept ==
  ASSUME IInv, NEW w \in Worker, NEW p \in Pair, p = pair[w],
         Delivered(p)' = Delivered(p), times' = times, crashes' = crashes,
         \/ faults' = faults /\ pc[w] # "record"
         \/ faults' = faults + 1
  PROVE  LedgerOf(p)'
  <1>1. LedgerOf(p) /\ Lapses \in Nat /\ times[p] \in Nat
    BY DEF IInv, Flow, Ledger, Lapses, Shape, TypeOK
  <1>2. CASE faults' = faults /\ pc[w] # "record"
    <2>1. \A x \in Worker : ~(pc[x] = "record" /\ pair[x] = p)
      BY <1>2 DEF IInv, Shape, OneWorkerPerPair
    <2> QED
      BY <1>1, <1>2, <2>1 DEF LedgerOf, Lapses
  <1>3. CASE faults' = faults + 1
    <2>1. Lapses' = Lapses + 1
      BY <1>3 DEF Lapses, IInv, Shape, TypeOK
    <2> QED
      BY <1>1, <2>1 DEF LedgerOf
  <1> QED
    BY <1>2, <1>3

LEMMA FlowLook ==
  ASSUME IInv, NEW w \in Worker,
         \/ Incomplete(w) \/ Complete(w) \/ Load(w) \/ Lock(w) \/ Check(w)
         \/ Verify(w) \/ VerifyMeta(w)
  PROVE  Flow'
  <1> DEFINE p == pair[w]
  <1>1. /\ pc[w] \in {"inspect", "load", "lock", "check", "verify", "verifyMeta"}
        /\ p \in Pair
        /\ UNCHANGED <<disk, sig, times, aside>>
    BY Busy DEF IInv, Incomplete, Complete, Load, Lock, Check, Verify, VerifyMeta, At
  <1>2. \E l \in Point \ {"idle"} : Goto(w, l)
    <2>1. /\ {"orphan", "load", "lock", "unparsed", "capture", "check", "dropPayload",
              "payload", "verifyMeta"} \subseteq Point \ {"idle"}
          /\ Following(p, "verifyMeta") \in Point \ {"idle"}
      BY DEF Following, Point, Section
    <2> QED
      BY <2>1 DEF Incomplete, Complete, Load, Lock, Check, Verify, VerifyMeta, ToQuarantine
  <1>3. pc' \in [Worker -> Point] /\ \A x \in Worker \ {w} : pc'[x] = pc[x]
    BY <1>2, GotoShape DEF IInv
  <1>4. ProgressOf(w)'
    <2>1. ProgressOf(w)
      BY DEF IInv, Flow, Progress
    <2>2. pc \in [Worker -> Point]
      BY DEF IInv, Shape, TypeOK
    <2>3. CASE Incomplete(w) \/ Complete(w) \/ Load(w) \/ Lock(w)
      <3>1. pc'[w] \in {"orphan", "load", "lock", "unparsed", "capture", "check"}
        BY <2>2, <2>3 DEF Incomplete, Complete, Load, Lock, Goto
      <3> QED
        BY <3>1 DEF ProgressOf, Working, Holding
    <2>4. CASE Check(w)
      BY <1>1, <2>2, <2>4 DEF Check, Goto, At, ProgressOf, Delivered, Working, Holding, disk,
         aside
    <2>5. CASE Verify(w)
      <3>1. CASE work[p]["payload"] = "whole"
        BY <1>1, <2>1, <2>2, <2>5, <3>1 DEF Verify, Goto, At, ProgressOf, Delivered, Working,
           Holding, disk, aside
      <3>2. CASE work[p]["payload"] # "whole"
        <4>1. pc'[w] = "capture"
          BY <2>2, <2>5, <3>2 DEF Verify, ToQuarantine, Goto
        <4> QED
          BY <4>1 DEF ProgressOf, Working, Holding
      <3> QED
        BY <3>1, <3>2
    <2>6. CASE VerifyMeta(w)
      <3>1. CASE pc'[w] = "capture"
        BY <3>1 DEF ProgressOf, Working, Holding
      <3>2. CASE pc'[w] # "capture"
        <4>1. /\ pc[w] = "verifyMeta" /\ pc'[w] = Following(p, "verifyMeta")
              /\ RequireSig => sig[w] /\ work[p]["meta"] = "whole" /\ work[p]["sig"] = "whole"
          BY <2>2, <2>6, <3>2 DEF VerifyMeta, ToQuarantine, Goto, At
        <4>2. pc'[w] \in {"decrypt", "decompress", "deliver"}
          BY <4>1 DEF Following
        <4> QED
          BY <1>1, <2>1, <4>1, <4>2 DEF ProgressOf, Delivered, Working, Holding, disk, aside
      <3> QED
        BY <3>1, <3>2
    <2> QED
      BY <2>3, <2>4, <2>5, <2>6
  <1>5. LedgerOf(p)'
    BY <1>1, LedgerKept DEF aside, outside, disk, Delivered
  <1> QED
    BY <1>1, <1>3, <1>4, <1>5, FlowOwn DEF aside, outside, disk, Delivered

LEMMA FlowMoveIn ==
  ASSUME IInv, NEW w \in Worker,
         \/ MoveIn(w, "payload", "meta") \/ MoveIn(w, "meta", "sig") \/ MoveIn(w, "sig", "verify")
  PROVE  Flow'
  <1> DEFINE p == pair[w]
  <1>1. /\ pc[w] \in {"payload", "meta", "sig"} /\ p \in Pair
        /\ UNCHANGED <<audit, times, aside>>
    BY Busy DEF IInv, MoveIn, At
  <1>2. pc \in [Worker -> Point] /\ sig \in [Worker -> BOOLEAN]
        /\ work \in [Pair -> [Part -> Status]]
    BY DEF IInv, Shape, TypeOK
  <1>3. /\ pc'[w] \in {"meta", "sig", "verify"}
        /\ \A x \in Worker \ {w} : pc'[x] = pc[x] /\ sig'[x] = sig[x]
        /\ \A q \in Pair \ {p} : work'[q] = work[q]
    BY <1>2 DEF MoveIn, Goto
  <1>4. work'[p]["payload"] # "none"
    <2>1. pc[w] \in {"meta", "sig"} => work[p]["payload"] # "none"
      BY DEF IInv, Flow, Progress, ProgressOf, Holding
    <2>2. CASE MoveIn(w, "payload", "meta")
      BY <1>1, <1>2, <2>2 DEF MoveIn, Part
    <2>3. CASE MoveIn(w, "meta", "sig") \/ MoveIn(w, "sig", "verify")
      BY <1>1, <1>2, <2>1, <2>3 DEF MoveIn, Part, At
    <2> QED
      BY <2>2, <2>3
  <1>5. ProgressOf(w)'
    <2>1. ~Delivered(p)
      BY <1>1 DEF IInv, Flow, Progress, ProgressOf, Working
    <2> QED
      BY <1>1, <1>3, <1>4, <2>1 DEF ProgressOf, Delivered, aside
  <1>6. LedgerOf(p)'
    BY <1>1, LedgerKept DEF aside, outside, Delivered
  <1> QED
    BY <1>1, <1>3, <1>5, <1>6, FlowOwn DEF aside, outside, Delivered

LEMMA FlowDerive ==
  ASSUME IInv, NEW w \in Worker,
         Derive(w, "decrypt", "decrypted") \/ Derive(w, "decompress", "clear")
  PROVE  Flow'
  <1> DEFINE p == pair[w]
  <1>1. /\ pc[w] \in {"decrypt", "decompress"} /\ p \in Pair
        /\ UNCHANGED <<work, audit, sig, times, aside>>
    BY Busy DEF IInv, Derive, At
  <1>2. /\ pc'[w] \in {"decompress", "deliver"}
        /\ \A x \in Worker \ {w} : pc'[x] = pc[x]
    <2>1. pc \in [Worker -> Point]
      BY DEF IInv, Shape, TypeOK
    <2> QED
      BY <2>1 DEF Derive, Goto, Following
  <1>3. ProgressOf(w)'
    <2>1. ProgressOf(w)
      BY DEF IInv, Flow, Progress
    <2> QED
      BY <1>1, <1>2, <2>1 DEF ProgressOf, Delivered, Working, Holding, aside
  <1>4. LedgerOf(p)'
    BY <1>1, LedgerKept DEF aside, outside, Delivered
  <1> QED
    BY <1>1, <1>2, <1>3, <1>4, FlowOwn DEF aside, outside, Delivered

\* Only a payload that was never delivered, or was before a lapse, gets here.
LEMMA FlowDeliver ==
  ASSUME IInv, NEW w \in Worker, Deliver(w)
  PROVE  Flow'
  <1> DEFINE p == pair[w]
  <1>1. /\ pc[w] = "deliver" /\ p \in Pair
        /\ UNCHANGED <<audit, sig, aside>>
    BY Busy DEF IInv, Deliver, At
  <1>2. /\ pc'[w] = "record"
        /\ \A x \in Worker \ {w} : pc'[x] = pc[x]
        /\ \A q \in Pair \ {p} : work'[q] = work[q] /\ times'[q] = times[q]
        /\ times'[p] = times[p] + 1
        /\ times[p] \in Nat /\ Lapses \in Nat
    BY <1>1 DEF Deliver, Goto, IInv, Shape, TypeOK, Lapses
  <1>3. ~Delivered(p)
    BY <1>1 DEF IInv, Flow, Progress, ProgressOf, Working
  <1>4. ProgressOf(w)'
    BY <1>1, <1>2, <1>3 DEF ProgressOf, Delivered, Holding, aside
  <1>5. LedgerOf(p)'
    <2>1. \A x \in Worker : ~(pc[x] = "record" /\ pair[x] = p)
      BY <1>1 DEF IInv, Shape, OneWorkerPerPair
    <2>2. times[p] <= Lapses
      <3>1. LedgerOf(p)
        BY <1>1 DEF IInv, Flow, Ledger
      <3> QED
        BY <1>2, <1>3, <2>1, <3>1 DEF LedgerOf
    <2>3. Lapses' = Lapses
      BY <1>1 DEF Lapses, aside, outside
    <2> QED
      BY <1>1, <1>2, <2>2, <2>3 DEF LedgerOf, aside
  <1> QED
    BY <1>1, <1>2, <1>4, <1>5, FlowOwn DEF aside, outside, Delivered

LEMMA FlowRecord ==
  ASSUME IInv, NEW w \in Worker, Record(w)
  PROVE  Flow'
  <1> DEFINE p == pair[w]
  <1>1. /\ pc[w] = "record" /\ p \in Pair
        /\ UNCHANGED <<work, sig, times, aside>>
    BY Busy DEF IInv, Record, At
  <1>2. /\ pc'[w] = "leave"
        /\ \A x \in Worker \ {w} : pc'[x] = pc[x]
        /\ \A q \in Pair \ {p} : Delivered(q)' = Delivered(q)
        /\ Delivered(p)'
    <2>1. audit \in [Pair -> SUBSET Event] /\ pc \in [Worker -> Point]
      BY DEF IInv, Shape, TypeOK
    <2>2. /\ pc' = [pc EXCEPT ![w] = "leave"]
          /\ audit' = [audit EXCEPT ![p] = audit[p] \cup {"MOVED_TO_BUSINESS_FOLDER"}]
          /\ pair' = pair
      BY DEF Record, Goto, aside
    <2>3. \A x \in Worker \ {w} : pc'[x] = pc[x]
      BY <2>1, <2>2
    <2>4. pc'[w] = "leave"
      BY <2>1, <2>2
    <2> QED
      BY <1>1, <2>1, <2>2, <2>3, <2>4 DEF Delivered
  <1>3. ProgressOf(w)'
    BY <1>2 DEF ProgressOf, Working, Holding
  <1>4. times[p] > 0
    BY <1>1 DEF IInv, Flow, Progress, ProgressOf
  <1>5. LedgerOf(p)'
    BY <1>1, <1>2, <1>4 DEF LedgerOf, Lapses, aside, outside, IInv, Flow, Ledger
  <1> QED
    BY <1>1, <1>2, <1>3, <1>5, FlowOwn DEF aside, outside

\* The steps that end in a state about which nothing is to be known but that a
\* duplicate is one.
LEMMA FlowLeft ==
  ASSUME IInv, NEW w \in Worker,
         \/ Drop(w, "payload", "dropPayload", "dropMeta") \/ Drop(w, "meta", "dropMeta", "leave")
         \/ Capture(w) \/ Fault(w)
         \/ NotReady(w) \/ LoadEscapes(w) \/ Leave(w) \/ RecordError(w) \/ Raise(w)
         \/ Refuse(w, "orphan", {"payload"}) \/ Refuse(w, "unparsed", {"payload", "meta"})
  PROVE  Flow'
  <1>0. PICK p \in Pair : p = pair[w]
    BY Busy DEF IInv, Drop, Capture, Fault, NotReady, LoadEscapes, Leave, RecordError, Raise,
       Refuse, At, Section
  <1>1. /\ pc[w] # "idle"
        /\ times' = times /\ crashes' = crashes
    BY DEF Drop, Capture, Fault, NotReady, LoadEscapes, Leave, RecordError, Raise,
       Refuse, At, Section, aside, outside
  <1>2. \A q \in Pair \ {p} : work'[q] = work[q]
    BY <1>0 DEF Drop, Capture, Fault, NotReady, LoadEscapes, Leave, RecordError, Raise, Refuse,
       disk, IInv, Shape, TypeOK
  <1>3. \A q \in Pair : Delivered(q)' = Delivered(q)
    <2>1. CASE RecordError(w)
      BY <1>0, <2>1 DEF RecordError, Delivered, IInv, Shape, TypeOK
    <2> QED
      BY <2>1 DEF Drop, Capture, Fault, NotReady, LoadEscapes, Leave, Raise, Refuse, disk,
         Delivered
  <1>4. \/ faults' = faults /\ pc[w] # "record"
        \/ faults' = faults + 1
    BY DEF Drop, Capture, Fault, NotReady, LoadEscapes, Leave, RecordError, Raise, Refuse,
       At, aside
  <1>5. /\ \A x \in Worker \ {w} : pc'[x] = pc[x] /\ pair'[x] = pair[x] /\ sig'[x] = sig[x]
        /\ pc'[w] \in {"idle", "dropMeta", "leave", "error", "capture"}
        /\ pc'[w] = "dropMeta" => pc[w] = "dropPayload" /\ pair'[w] = p
    BY <1>0 DEF Drop, Capture, Fault, NotReady, LoadEscapes, Leave, RecordError, Raise, Refuse,
       ToQuarantine, At, Finish, Goto, aside, IInv, Shape, TypeOK
  <1>6. ProgressOf(w)'
    <2>1. pc[w] = "dropPayload" => Delivered(p)
      BY <1>0 DEF IInv, Flow, Progress, ProgressOf
    <2>2. pc'[w] = "dropMeta" => Delivered(p)'
      BY <1>3, <1>5, <2>1
    <2> QED
      BY <1>5, <2>2 DEF ProgressOf, Working, Holding, Delivered
  <1>7. LedgerOf(p)'
    BY <1>0, <1>1, <1>3, <1>4, LedgerKept
  <1> QED
    BY <1>0, <1>1, <1>2, <1>3, <1>4, <1>5, <1>6, <1>7, FlowOwn

\* A worker that begins with a payload is not in its pipeline yet.
LEMMA FlowTake ==
  ASSUME IInv, NEW w \in Worker, NEW p \in Pair, Take(w, p)
  PROVE  Flow'
  <1>1. /\ pc[w] = "idle"
        /\ pc' = [pc EXCEPT ![w] = "inspect"] /\ pair' = [pair EXCEPT ![w] = p]
        /\ UNCHANGED <<work, audit, times, sig, faults, crashes>>
    BY DEF Take, Goto, disk, outside
  <1>2. /\ pc'[w] = "inspect"
        /\ \A x \in Worker \ {w} : pc'[x] = pc[x] /\ pair'[x] = pair[x]
    BY <1>1 DEF IInv, Shape, TypeOK
  <1>3. Progress'
    BY <1>1, <1>2 DEF IInv, Flow, Progress, ProgressOf, Delivered, Working, Holding
  <1>4. Ledger'
    BY <1>1, <1>2 DEF IInv, Flow, Ledger, LedgerOf, Delivered, Lapses
  <1> QED
    BY <1>3, <1>4 DEF Flow

\* The transport finishes files that were moved while they were written, but takes
\* none away and touches none that is whole.
LEMMA FlowTransport ==
  ASSUME IInv, NEW p \in Pair, NEW x \in Part,
         Send(p) \/ Age(p) \/ Expire(p) \/ Arrive(p, x) \/ Close(p, x)
  PROVE  Flow'
  <1>1. UNCHANGED <<pc, pair, sig, audit, times, faults, crashes>>
    BY DEF Send, Age, Expire, Arrive, Close, program, disk, outside, workers
  <1>2. \A q \in Pair, y \in Part :
          /\ work[q][y] # "none" => work'[q][y] # "none"
          /\ work[q][y] = "whole" => work'[q][y] = "whole"
    <2>1. CASE Close(p, x)
      BY <2>1 DEF Close, IInv, Shape, TypeOK
    <2> QED
      BY <2>1 DEF Send, Age, Expire, Arrive, program, disk
  <1>3. Progress'
    <2> SUFFICES ASSUME NEW w \in Worker, pc[w] # "idle" PROVE ProgressOf(w)'
      BY <1>1 DEF Progress, ProgressOf, Working, Holding
    <2>1. pair[w] \in Pair /\ ProgressOf(w)
      BY Busy DEF IInv, Flow, Progress
    <2> QED
      BY <1>1, <1>2, <2>1 DEF ProgressOf, Delivered, Part
  <1>4. Ledger'
    BY <1>1 DEF IInv, Flow, Ledger, LedgerOf, Delivered, Lapses
  <1> QED
    BY <1>3, <1>4 DEF Flow

LEMMA FlowService ==
  ASSUME IInv,
         Boot \/ (\E p \in Pair : Resolve(p)) \/ Reconciled \/ Scan \/ EndPass \/ Fail \/ Crash
  PROVE  Flow'
  <1>1. /\ \A w \in Worker : pc'[w] = "idle"
        /\ times' = times
    <2>1. CASE Crash
      BY <2>1 DEF Crash
    <2>2. CASE ~Crash
      <3>1. Quiet /\ UNCHANGED <<pc, times>>
        BY <2>2 DEF Boot, Resolve, Reconciled, Scan, EndPass, Fail, idling, workers, IInv,
           Shape, QuietOutside
      <3> QED
        BY <3>1 DEF Quiet
    <2> QED
      BY <2>1, <2>2
  <1>2. Progress'
    BY <1>1 DEF Progress, ProgressOf, Working, Holding
  <1>3. \A p \in Pair : Delivered(p)' = Delivered(p)
    <2>1. audit \in [Pair -> SUBSET Event]
      BY DEF IInv, Shape, TypeOK
    <2>2. \/ audit' = audit
          \/ \E q \in Pair : audit' = [audit EXCEPT ![q] = audit[q] \cup {"ERROR"}]
      BY DEF Boot, Resolve, Reconciled, Scan, EndPass, Fail, Crash, disk
    <2> QED
      BY <2>1, <2>2 DEF Delivered
  <1>4. Ledger'
    <2> SUFFICES ASSUME NEW p \in Pair PROVE LedgerOf(p)'
      BY DEF Ledger
    <2>1. LedgerOf(p) /\ times[p] \in Nat /\ Lapses \in Nat
      BY DEF IInv, Flow, Ledger, Lapses, Shape, TypeOK
    <2>2. CASE Crash
      <3>1. Lapses' = Lapses + 1
        BY <2>2 DEF Crash, Lapses, IInv, Shape, TypeOK
      <3> QED
        BY <1>1, <1>3, <2>1, <3>1 DEF LedgerOf
    <2>3. CASE ~Crash
      <3>1. Quiet /\ Lapses' = Lapses
        BY <2>3 DEF Boot, Resolve, Reconciled, Scan, EndPass, Fail, idling, outside, Lapses,
           IInv, Shape, QuietOutside
      <3> QED
        BY <1>1, <1>3, <2>1, <3>1 DEF LedgerOf, Quiet
    <2> QED
      BY <2>2, <2>3
  <1> QED
    BY <1>2, <1>4 DEF Flow

LEMMA FlowNext == IInv /\ [Next]_vars => Flow'
  <1> SUFFICES ASSUME IInv, [Next]_vars PROVE Flow'
    OBVIOUS
  <1>1. CASE UNCHANGED vars
    BY <1>1 DEF vars, disk, workers, IInv, Flow, Progress, ProgressOf, Ledger, LedgerOf,
       Delivered, Lapses
  <1>2. ASSUME NEW p \in Pair, Send(p) \/ Age(p) \/ Expire(p) PROVE Flow'
    BY <1>2, FlowTransport DEF Part
  <1>3. ASSUME NEW p \in Pair, NEW x \in Part, Arrive(p, x) \/ Close(p, x) PROVE Flow'
    BY <1>3, FlowTransport
  <1>4. ASSUME NEW w \in Worker, Step(w) PROVE Flow'
    BY <1>4, FlowLook, FlowMoveIn, FlowDerive, FlowDeliver, FlowRecord, FlowLeft DEF Step
  <1>5. CASE Run \/ Crash
    BY <1>5, FlowService DEF Run
  <1> QED
    BY <1>1, <1>2, <1>3, <1>4, <1>5, FlowTake, FlowLeft DEF Next

LEMMA Invariance == Spec => []IInv
  <1>1. IInv /\ [Next]_vars => IInv'
    BY ShapeNext, FlowNext DEF IInv
  <1> QED
    BY <1>1, InitIInv, PTL DEF Spec

----------------------------------------------------------------------------
(* What a worker goes by *)

Reading == {"lock", "check", "payload", "meta"}
Checking == {"sig", "verify", "verifyMeta"}
Decoded == {"decrypt", "decompress", "deliver"}

\* Unless the metadata came again in between, the file that a worker has parsed is the
\* one it moves, and the one whose signature it verifies.
MemoryOf(w) == LET p == pair[w] IN
  /\ pc[w] \in Reading \cup Checking => parsed[w] \in Legible
  /\ pc[w] \in Reading /\ w \notin overtaken => exch[p]["meta"] \in {"none", parsed[w]}
  /\ pc[w] \in Checking /\ w \notin overtaken => work[p]["meta"] = parsed[w]
  /\ pc[w] \in Decoded /\ RequireSig => parsed[w] = "whole" \/ w \in overtaken
Memory == \A w \in Worker : MemoryOf(w)

\* Steps that end where no metadata is gone by.
LEMMA MemoryElsewhere ==
  ASSUME NEW w \in Worker, pc'[w] \notin Reading \cup Checking \cup Decoded
  PROVE  MemoryOf(w)'
  BY DEF MemoryOf

LEMMA MemoryOwn ==
  ASSUME IInv, Memory, NEW w \in Worker, pair[w] \in Pair,
         \A x \in Worker \ {w} : pc'[x] = pc[x] /\ pair'[x] = pair[x],
         \A x \in Worker \ {w} : parsed'[x] = parsed[x] /\ (x \in overtaken' <=> x \in overtaken),
         \A q \in Pair \ {pair[w]} : exch'[q] = exch[q] /\ work'[q] = work[q],
         MemoryOf(w)'
  PROVE  Memory'
  <1> SUFFICES ASSUME NEW x \in Worker \ {w} PROVE MemoryOf(x)'
    BY DEF Memory
  <1>1. CASE pc[x] = "idle"
    BY <1>1, MemoryElsewhere DEF Reading, Checking, Decoded
  <1>2. CASE pc[x] # "idle"
    <2>1. pair[x] \in Pair \ {pair[w]}
      BY <1>2 DEF IInv, Shape, TypeOK, WorkerOK, OneWorkerPerPair
    <2>2. MemoryOf(x)
      BY DEF Memory
    <2> QED
      BY <2>1, <2>2 DEF MemoryOf
  <1> QED
    BY <1>1, <1>2

LEMMA MemoryLook ==
  ASSUME IInv, Memory, NEW w \in Worker,
         \/ Incomplete(w) \/ Complete(w) \/ Load(w) \/ Lock(w) \/ Check(w)
         \/ Verify(w) \/ VerifyMeta(w)
  PROVE  Memory'
  <1> DEFINE p == pair[w]
  <1>1. p \in Pair /\ UNCHANGED <<exch, work, pair, overtaken>>
    BY Busy DEF IInv, Incomplete, Complete, Load, Lock, Check, Verify, VerifyMeta, At, disk,
       aside
  <1>2. pc \in [Worker -> Point] /\ parsed \in [Worker -> {"none"} \cup Legible]
    BY DEF IInv, Shape, TypeOK
  <1>3. \A x \in Worker \ {w} : pc'[x] = pc[x] /\ parsed'[x] = parsed[x]
    BY <1>2 DEF Incomplete, Complete, Load, Lock, Check, Verify, VerifyMeta, ToQuarantine, Goto
  <1>4. MemoryOf(w)
    BY DEF Memory
  <1>5. MemoryOf(w)'
    <2>1. CASE Incomplete(w) \/ Complete(w)
      <3>1. pc'[w] \in {"orphan", "load"}
        BY <1>2, <2>1 DEF Incomplete, Complete, Goto
      <3> QED
        BY <3>1, MemoryElsewhere DEF Reading, Checking, Decoded
    <2>2. CASE Load(w)
      <3>1. CASE exch[p]["meta"] \in Legible
        <4>1. pc'[w] = "lock" /\ parsed'[w] = exch[p]["meta"]
          BY <1>2, <2>2, <3>1 DEF Load, Goto
        <4> QED
          BY <1>1, <3>1, <4>1 DEF MemoryOf, Checking, Decoded
      <3>2. CASE exch[p]["meta"] \notin Legible
        <4>1. pc'[w] = "unparsed"
          BY <1>2, <2>2, <3>2 DEF Load, Goto
        <4> QED
          BY <4>1, MemoryElsewhere DEF Reading, Checking, Decoded
      <3> QED
        BY <3>1, <3>2
    <2>3. CASE Lock(w) \/ Check(w)
      <3>1. /\ pc[w] \in Reading /\ parsed' = parsed
            /\ pc'[w] \in {"capture", "check", "dropPayload", "payload"}
        BY <1>2, <2>3 DEF Lock, Check, Goto, At, Reading
      <3> QED
        BY <1>1, <1>4, <3>1 DEF MemoryOf, Reading, Checking, Decoded
    <2>4. CASE Verify(w)
      <3>1. pc[w] = "verify" /\ parsed' = parsed /\ pc'[w] \in {"verifyMeta", "capture"}
        BY <1>2, <2>4 DEF Verify, ToQuarantine, Goto, At
      <3> QED
        BY <1>1, <1>4, <3>1 DEF MemoryOf, Reading, Checking, Decoded
    <2>5. CASE VerifyMeta(w)
      <3>1. pc[w] = "verifyMeta" /\ parsed' = parsed
        BY <2>5 DEF VerifyMeta, At
      <3>2. CASE pc'[w] = "capture"
        BY <3>2, MemoryElsewhere DEF Reading, Checking, Decoded
      <3>3. CASE pc'[w] # "capture"
        <4>1. /\ pc'[w] = Following(p, "verifyMeta")
              /\ RequireSig => work[p]["meta"] = "whole"
          BY <1>2, <2>5, <3>3 DEF VerifyMeta, ToQuarantine, Goto
        <4>2. pc'[w] \in Decoded
          BY <4>1 DEF Following, Decoded
        <4>3. RequireSig => parsed[w] = "whole" \/ w \in overtaken
          BY <1>4, <3>1, <4>1 DEF MemoryOf, Checking
        <4> QED
          BY <1>1, <3>1, <4>2, <4>3 DEF MemoryOf, Reading, Checking, Decoded
      <3> QED
        BY <3>2, <3>3
    <2> QED
      BY <2>1, <2>2, <2>3, <2>4, <2>5
  <1> QED
    BY <1>1, <1>3, <1>5, MemoryOwn

LEMMA MemoryMoveIn ==
  ASSUME IInv, Memory, NEW w \in Worker,
         \/ MoveIn(w, "payload", "meta") \/ MoveIn(w, "meta", "sig") \/ MoveIn(w, "sig", "verify")
  PROVE  Memory'
  <1> DEFINE p == pair[w]
  <1>1. /\ pc[w] \in {"payload", "meta", "sig"} /\ p \in Pair
        /\ UNCHANGED <<pair, parsed, overtaken>>
    BY Busy DEF IInv, MoveIn, At, aside
  <1>2. /\ pc \in [Worker -> Point]
        /\ exch \in [Pair -> [Part -> Status]] /\ work \in [Pair -> [Part -> Status]]
    BY DEF IInv, Shape, TypeOK
  <1>3. /\ \A x \in Worker \ {w} : pc'[x] = pc[x]
        /\ \A q \in Pair \ {p} : exch'[q] = exch[q] /\ work'[q] = work[q]
    BY <1>2 DEF MoveIn, Goto, Gone
  <1>4. MemoryOf(w)
    BY DEF Memory
  <1>5. MemoryOf(w)'
    <2>1. CASE MoveIn(w, "payload", "meta")
      <3>1. pc[w] = "payload" /\ pc'[w] = "meta" /\ exch'[p]["meta"] = exch[p]["meta"]
        BY <1>1, <1>2, <2>1 DEF MoveIn, Goto, Gone, At, Part
      <3> QED
        BY <1>1, <1>4, <3>1 DEF MemoryOf, Reading, Checking, Decoded
    <2>2. CASE MoveIn(w, "meta", "sig")
      <3>1. /\ pc[w] = "meta" /\ pc'[w] = "sig" /\ exch[p]["meta"] # "none"
            /\ work'[p]["meta"] = exch[p]["meta"]
        BY <1>1, <1>2, <2>2 DEF MoveIn, Goto, At, Part
      <3> QED
        BY <1>1, <1>4, <3>1 DEF MemoryOf, Reading, Checking, Decoded
    <2>3. CASE MoveIn(w, "sig", "verify")
      <3>1. pc[w] = "sig" /\ pc'[w] = "verify" /\ work'[p]["meta"] = work[p]["meta"]
        BY <1>1, <1>2, <2>3 DEF MoveIn, Goto, At, Part
      <3> QED
        BY <1>1, <1>4, <3>1 DEF MemoryOf, Reading, Checking, Decoded
    <2> QED
      BY <2>1, <2>2, <2>3
  <1> QED
    BY <1>1, <1>3, <1>5, MemoryOwn

LEMMA MemoryDecode ==
  ASSUME IInv, Memory, NEW w \in Worker,
         \/ Derive(w, "decrypt", "decrypted") \/ Derive(w, "decompress", "clear") \/ Deliver(w)
  PROVE  Memory'
  <1>1. /\ pc[w] \in Decoded /\ pair[w] \in Pair
        /\ UNCHANGED <<exch, pair, parsed, overtaken>>
    BY Busy DEF IInv, Derive, Deliver, At, aside, Decoded
  <1>2. /\ pc'[w] \in {"decompress", "deliver", "record"}
        /\ \A x \in Worker \ {w} : pc'[x] = pc[x]
        /\ \A q \in Pair \ {pair[w]} : work'[q] = work[q]
    <2>1. pc \in [Worker -> Point] /\ work \in [Pair -> [Part -> Status]]
      BY DEF IInv, Shape, TypeOK
    <2> QED
      BY <2>1 DEF Derive, Deliver, Goto, Following
  <1>3. MemoryOf(w)
    BY DEF Memory
  <1>4. MemoryOf(w)'
    BY <1>1, <1>2, <1>3 DEF MemoryOf, Reading, Checking, Decoded
  <1> QED
    BY <1>1, <1>2, <1>4, MemoryOwn

LEMMA MemoryLeft ==
  ASSUME IInv, Memory, NEW w \in Worker,
         \/ Drop(w, "payload", "dropPayload", "dropMeta") \/ Drop(w, "meta", "dropMeta", "leave")
         \/ Record(w) \/ Capture(w) \/ Fault(w)
         \/ NotReady(w) \/ LoadEscapes(w) \/ Leave(w) \/ RecordError(w) \/ Raise(w)
         \/ Refuse(w, "orphan", {"payload"}) \/ Refuse(w, "unparsed", {"payload", "meta"})
  PROVE  Memory'
  <1>1. pair[w] \in Pair
    BY Busy DEF IInv, Drop, Record, Capture, Fault, NotReady, LoadEscapes, Leave, RecordError,
       Raise, Refuse, At, Section
  <1>2. /\ pc \in [Worker -> Point] /\ parsed \in [Worker -> {"none"} \cup Legible]
        /\ pair \in [Worker -> Pair \cup {None}]
        /\ exch \in [Pair -> [Part -> Status]] /\ work \in [Pair -> [Part -> Status]]
    BY DEF IInv, Shape, TypeOK
  <1>3. /\ \A x \in Worker \ {w} : pc'[x] = pc[x] /\ pair'[x] = pair[x]
        /\ pc'[w] \in {"idle", "dropMeta", "leave", "error", "capture"}
    BY <1>2 DEF Drop, Record, Capture, Fault, NotReady, LoadEscapes, Leave, RecordError, Raise,
       Refuse, ToQuarantine, Finish, Goto, aside
  <1>4. \/ UNCHANGED <<parsed, overtaken>>
        \/ parsed' = [parsed EXCEPT ![w] = "none"] /\ overtaken' = overtaken \ {w}
    BY DEF Drop, Record, Capture, Fault, NotReady, LoadEscapes, Leave, RecordError, Raise,
       Refuse, Finish
  <1>5. \A q \in Pair \ {pair[w]} : exch'[q] = exch[q] /\ work'[q] = work[q]
    BY <1>2 DEF Drop, Record, Capture, Fault, NotReady, LoadEscapes, Leave, RecordError, Raise,
       Refuse, Gone, disk
  <1>6. MemoryOf(w)'
    BY <1>3, MemoryElsewhere DEF Reading, Checking, Decoded
  <1>7. \A x \in Worker \ {w} : parsed'[x] = parsed[x] /\ (x \in overtaken' <=> x \in overtaken)
    BY <1>2, <1>4
  <1> QED
    BY <1>1, <1>3, <1>5, <1>6, <1>7, MemoryOwn

\* A file that was parsed is not being written; one that comes again is noted.
LEMMA MemoryTransport ==
  ASSUME IInv, Memory, NEW p \in Pair, NEW x \in Part,
         Send(p) \/ Age(p) \/ Expire(p) \/ Arrive(p, x) \/ Close(p, x)
  PROVE  Memory'
  <1>1. UNCHANGED <<pc, pair, parsed>> /\ overtaken \subseteq overtaken'
    BY DEF Send, Age, Expire, Arrive, Close, program, workers
  <1> SUFFICES ASSUME NEW w \in Worker PROVE MemoryOf(w)'
    BY DEF Memory
  <1>2. MemoryOf(w)
    BY DEF Memory
  <1>3. CASE pc[w] \notin Reading \cup Checking
    BY <1>1, <1>2, <1>3 DEF MemoryOf
  <1>4. CASE pc[w] \in Reading \cup Checking
    <2>1. pair[w] \in Pair
      BY <1>4, Busy DEF IInv, Reading, Checking
    <2>2. parsed[w] \in Legible
      BY <1>2, <1>4 DEF MemoryOf
    <2>3. exch \in [Pair -> [Part -> Status]] /\ work \in [Pair -> [Part -> Status]]
      BY DEF IInv, Shape, TypeOK
    <2>4. ASSUME pc[w] \in Reading, w \notin overtaken'
          PROVE  exch'[pair[w]]["meta"] \in {"none", parsed[w]}
      <3>1. exch[pair[w]]["meta"] \in {"none", parsed[w]}
        BY <1>1, <1>2, <2>4 DEF MemoryOf
      <3>2. CASE Arrive(p, x)
        <4>1. ~(x = "meta" /\ pair[w] = p)
          BY <2>4, <3>2 DEF Arrive, GoesBy, Reading
        <4> QED
          BY <2>1, <2>3, <3>1, <3>2, <4>1 DEF Arrive, Part
      <3>3. CASE Close(p, x)
        <4>1. exch[pair[w]]["meta"] # "growing"
          BY <2>2, <3>1 DEF Legible
        <4>2. \/ exch' = exch
              \/ exch[p][x] = "growing" /\ \E v : exch' = [exch EXCEPT ![p][x] = v]
          BY <3>3 DEF Close
        <4>3. exch'[pair[w]]["meta"] = exch[pair[w]]["meta"]
          BY <2>1, <2>3, <4>1, <4>2 DEF Part
        <4> QED
          BY <3>1, <4>3
      <3> QED
        BY <3>1, <3>2, <3>3 DEF Send, Age, Expire, disk
    <2>5. ASSUME pc[w] \in Checking, w \notin overtaken'
          PROVE  work'[pair[w]]["meta"] = parsed[w]
      <3>1. work[pair[w]]["meta"] = parsed[w]
        BY <1>1, <1>2, <2>5 DEF MemoryOf
      <3>2. CASE Close(p, x)
        <4>1. work[pair[w]]["meta"] # "growing"
          BY <2>2, <3>1 DEF Legible
        <4>2. \/ work' = work
              \/ work[p][x] = "growing" /\ \E v : work' = [work EXCEPT ![p][x] = v]
          BY <3>2 DEF Close
        <4>3. work'[pair[w]]["meta"] = work[pair[w]]["meta"]
          BY <2>1, <2>3, <4>1, <4>2 DEF Part
        <4> QED
          BY <3>1, <4>3
      <3> QED
        BY <3>1, <3>2 DEF Send, Age, Expire, Arrive, program, disk
    <2> QED
      BY <1>1, <1>4, <2>2, <2>4, <2>5 DEF MemoryOf, Reading, Checking, Decoded
  <1> QED
    BY <1>3, <1>4

LEMMA MemoryService ==
  ASSUME IInv,
         Boot \/ (\E p \in Pair : Resolve(p)) \/ Reconciled \/ Scan \/ EndPass \/ Fail \/ Crash
  PROVE  Memory'
  <1>1. \A w \in Worker : pc'[w] = "idle"
    <2>1. CASE Crash
      BY <2>1 DEF Crash
    <2>2. CASE ~Crash
      <3>1. Quiet /\ UNCHANGED pc
        BY <2>2 DEF Boot, Resolve, Reconciled, Scan, EndPass, Fail, idling, workers, IInv,
           Shape, QuietOutside
      <3> QED
        BY <3>1 DEF Quiet
    <2> QED
      BY <2>1, <2>2
  <1> QED
    BY <1>1, MemoryElsewhere DEF Memory, Reading, Checking, Decoded

LEMMA MemoryTake ==
  ASSUME IInv, Memory, NEW w \in Worker, NEW p \in Pair, Take(w, p)
  PROVE  Memory'
  <1>1. /\ pc' = [pc EXCEPT ![w] = "inspect"] /\ pair' = [pair EXCEPT ![w] = p]
        /\ UNCHANGED <<exch, work, parsed, overtaken>>
    BY DEF Take, Goto, disk
  <1>2. /\ pc'[w] = "inspect"
        /\ \A x \in Worker \ {w} : pc'[x] = pc[x] /\ pair'[x] = pair[x]
    BY <1>1 DEF IInv, Shape, TypeOK
  <1>3. \A x \in Worker \ {w} : MemoryOf(x)'
    BY <1>1, <1>2 DEF Memory, MemoryOf
  <1>4. MemoryOf(w)'
    BY <1>2, MemoryElsewhere DEF Reading, Checking, Decoded
  <1> QED
    BY <1>3, <1>4 DEF Memory

LEMMA MemoryNext == IInv /\ Memory /\ [Next]_vars => Memory'
  <1> SUFFICES ASSUME IInv, Memory, [Next]_vars PROVE Memory'
    OBVIOUS
  <1>1. CASE UNCHANGED vars
    BY <1>1 DEF vars, disk, workers, Memory, MemoryOf
  <1>2. ASSUME NEW p \in Pair, Send(p) \/ Age(p) \/ Expire(p) PROVE Memory'
    BY <1>2, MemoryTransport DEF Part
  <1>3. ASSUME NEW p \in Pair, NEW x \in Part, Arrive(p, x) \/ Close(p, x) PROVE Memory'
    BY <1>3, MemoryTransport
  <1>4. ASSUME NEW w \in Worker, Step(w) PROVE Memory'
    BY <1>4, MemoryLook, MemoryMoveIn, MemoryDecode, MemoryLeft DEF Step
  <1>5. CASE Run \/ Crash
    BY <1>5, MemoryService DEF Run
  <1> QED
    BY <1>1, <1>2, <1>3, <1>4, <1>5, MemoryTake, MemoryLeft DEF Next

----------------------------------------------------------------------------
(* No loss *)

\* Where a payload that has arrived may be.
Safe(p) ==
  \/ exch[p]["payload"] # "none" \/ work[p]["payload"] # "none" \/ derived[p] # {}
  \/ p \in error \/ times[p] > 0

\* Only the ids under which the host has published have an event that says so, ...
NotOurs == \A p \in Pair \ Own : "MOVED_TO_EXCHANGE_OUT" \notin audit[p]
\* ... and no payload that has arrived under another one is lost.
OthersSafe == \A p \in arrived \ Own : Safe(p)

LEMMA NotOursNext == IInv /\ NotOurs /\ [Next]_vars => NotOurs'
  <1> SUFFICES ASSUME IInv, NotOurs, [Next]_vars PROVE NotOurs'
    OBVIOUS
  <1>1. audit \in [Pair -> SUBSET Event]
    BY DEF IInv, Shape, TypeOK
  <1>2. CASE UNCHANGED audit
    BY <1>2 DEF NotOurs
  <1>3. ASSUME NEW w \in Worker, Record(w) \/ RecordError(w) PROVE NotOurs'
    BY <1>1, <1>3 DEF Record, RecordError, NotOurs
  <1>4. ASSUME NEW p \in Pair, Resolve(p) PROVE NotOurs'
    BY <1>1, <1>4 DEF Resolve, NotOurs
  <1>5. ASSUME NEW w \in Worker, Step(w) PROVE NotOurs'
    <2>1. CASE ~(Record(w) \/ RecordError(w))
      BY <1>2, <1>5, <2>1 DEF Step, NotReady, Incomplete, Complete, Load, LoadEscapes, Lock,
         Check, Drop, MoveIn, Verify, VerifyMeta, Derive, Deliver, Leave, Capture, Refuse,
         disk
    <2> QED
      BY <1>3, <2>1
  <1>6. CASE Run \/ Crash
    BY <1>2, <1>4, <1>6 DEF Run, Boot, Reconciled, Scan, EndPass, Fail, Crash, disk
  <1>7. CASE \E w \in Worker : (\E p \in Pair : Take(w, p)) \/ Fault(w) \/ Raise(w)
    BY <1>2, <1>7 DEF Take, Fault, Raise, disk
  <1>8. CASE \E p \in Pair : \/ Send(p) \/ Age(p) \/ Expire(p)
                            \/ \E x \in Part : Arrive(p, x) \/ Close(p, x)
    BY <1>2, <1>8 DEF Send, Age, Expire, Arrive, Close, program, disk
  <1> QED
    BY <1>2, <1>5, <1>6, <1>7, <1>8 DEF Next, vars, disk

\* Of the files that may be the last copy of a payload, a step of a worker removes only
\* what it delivers, what was delivered, and what it moves on or into quarantine.
LEMMA SafeStep ==
  ASSUME IInv, NEW w \in Worker, Step(w), NEW q \in Pair, Safe(q)
  PROVE  Safe(q)'
  <1> DEFINE p == pair[w]
  <1>1. /\ exch \in [Pair -> [Part -> Status]] /\ work \in [Pair -> [Part -> Status]]
        /\ derived \in [Pair -> SUBSET Derived] /\ times \in [Pair -> Nat]
    BY DEF IInv, Shape, TypeOK
  <1>2. p \in Pair
    BY Busy DEF IInv, Step, NotReady, Incomplete, Complete, Load, LoadEscapes, Lock, Check,
       Drop, MoveIn, Verify, VerifyMeta, Derive, Deliver, Record, Leave, Capture, RecordError,
       Refuse, At, Part
  <1>3. CASE Drop(w, "payload", "dropPayload", "dropMeta")
    <2>1. times[p] > 0
      BY <1>2, <1>3 DEF Drop, At, IInv, Flow, Progress, ProgressOf, Ledger, LedgerOf
    <2> QED
      BY <1>1, <1>2, <1>3, <2>1 DEF Drop, Gone, Safe
  <1>4. CASE Drop(w, "meta", "dropMeta", "leave")
    BY <1>1, <1>2, <1>4 DEF Drop, Gone, Safe, Part
  <1>5. CASE MoveIn(w, "payload", "meta")
    BY <1>1, <1>2, <1>5 DEF MoveIn, Gone, Safe, Part
  <1>6. CASE MoveIn(w, "meta", "sig") \/ MoveIn(w, "sig", "verify")
    <2>1. \A r \in Pair : /\ work'[r]["payload"] = work[r]["payload"]
                          /\ exch'[r]["payload"] = exch[r]["payload"]
      BY <1>1, <1>2, <1>6 DEF MoveIn, Gone, Part
    <2> QED
      BY <1>6, <2>1 DEF MoveIn, Safe
  <1>7. CASE Derive(w, "decrypt", "decrypted") \/ Derive(w, "decompress", "clear")
    BY <1>1, <1>2, <1>7 DEF Derive, Safe
  <1>8. CASE Deliver(w)
    BY <1>1, <1>2, <1>8 DEF Deliver, Safe, Part
  <1>9. CASE Capture(w)
    BY <1>1, <1>2, <1>9 DEF Capture, Recoverable, Gone, Safe, Part
  <1>10. CASE Refuse(w, "orphan", {"payload"}) \/ Refuse(w, "unparsed", {"payload", "meta"})
    BY <1>1, <1>2, <1>10 DEF Refuse, Gone, Safe, Part
  <1>11. CASE UNCHANGED <<exch, work, derived, error, times>>
    BY <1>11 DEF Safe
  <1> QED
    BY <1>3, <1>4, <1>5, <1>6, <1>7, <1>8, <1>9, <1>10, <1>11 DEF Step, NotReady, Incomplete,
       Complete, Load, LoadEscapes, Lock, Check, Verify, VerifyMeta, Record, Leave,
       RecordError, disk

LEMMA SafeResolve ==
  ASSUME IInv, NotOurs, NEW p \in Pair, Resolve(p), NEW q \in Pair \ Own, Safe(q)
  PROVE  Safe(q)'
  <1>1. /\ work \in [Pair -> [Part -> Status]] /\ derived \in [Pair -> SUBSET Derived]
    BY DEF IInv, Shape, TypeOK
  <1>2. CASE q # p
    BY <1>1, <1>2 DEF Resolve, idling, Safe
  <1>3. CASE q = p /\ Finished(p)
    <2>1. times[p] > 0
      BY <1>3 DEF Finished, NotOurs, IInv, Flow, Ledger, LedgerOf, Delivered
    <2> QED
      BY <1>3, <2>1 DEF Resolve, idling, Safe
  <1>4. CASE q = p /\ ~Finished(p)
    BY <1>1, <1>4 DEF Resolve, idling, Safe
  <1> QED
    BY <1>2, <1>3, <1>4

LEMMA SafeNext == IInv /\ NotOurs /\ OthersSafe /\ [Next]_vars => OthersSafe'
  <1> SUFFICES ASSUME IInv, NotOurs, OthersSafe, [Next]_vars, NEW q \in arrived' \ Own
               PROVE  Safe(q)'
    BY DEF OthersSafe
  <1>1. /\ exch \in [Pair -> [Part -> Status]] /\ work \in [Pair -> [Part -> Status]]
        /\ arrived \subseteq Pair
    BY DEF IInv, Shape, TypeOK
  <1>2. q \in arrived => q \in Pair /\ Safe(q)
    BY <1>1 DEF OthersSafe
  <1>3. ASSUME NEW w \in Worker, Step(w) PROVE Safe(q)'
    <2>1. arrived' = arrived
      BY <1>3 DEF Step, NotReady, Incomplete, Complete, Load, LoadEscapes, Lock, Check, Drop,
         MoveIn, Verify, VerifyMeta, Derive, Deliver, Record, Leave, Capture, RecordError,
         Refuse, aside, outside
    <2> QED
      BY <1>2, <1>3, <2>1, SafeStep
  <1>4. ASSUME NEW p \in Pair, Resolve(p) PROVE Safe(q)'
    BY <1>2, <1>4, SafeResolve DEF Resolve, idling, outside
  <1>5. CASE UNCHANGED <<exch, work, derived, error, times, arrived>>
    BY <1>2, <1>5 DEF Safe
  <1>6. ASSUME NEW p \in Pair, NEW x \in Part, Arrive(p, x) PROVE Safe(q)'
    <2>1. /\ UNCHANGED <<work, derived, error, times>>
          /\ exch' = [exch EXCEPT ![p][x] = "growing"]
          /\ x = "payload" => arrived' = arrived \cup {p}
          /\ x # "payload" => arrived' = arrived
      BY <1>6 DEF Arrive, program
    <2>2. q \in Pair
      BY <1>2, <2>1
    <2>3. CASE q \notin arrived
      BY <1>1, <2>1, <2>3 DEF Safe, Part
    <2>4. CASE q \in arrived
      <3>1. exch[q]["payload"] # "none" => exch'[q]["payload"] # "none"
        BY <1>1, <2>1, <2>2 DEF Part
      <3> QED
        BY <1>2, <2>1, <2>4, <3>1 DEF Safe
    <2> QED
      BY <2>3, <2>4
  <1>7. ASSUME NEW p \in Pair, NEW x \in Part, Close(p, x) PROVE Safe(q)'
    <2>1. UNCHANGED <<derived, error, times, arrived>>
      BY <1>7 DEF Close
    <2>2. q \in Pair
      BY <1>2, <2>1
    <2>3. /\ exch[q]["payload"] # "none" => exch'[q]["payload"] # "none"
          /\ work[q]["payload"] # "none" => work'[q]["payload"] # "none"
      BY <1>1, <1>7, <2>2 DEF Close, Part
    <2> QED
      BY <1>2, <2>1, <2>3 DEF Safe
  <1>8. CASE \E w \in Worker : (\E p \in Pair : Take(w, p)) \/ Fault(w) \/ Raise(w)
    BY <1>5, <1>8 DEF Take, Fault, Raise, disk, outside
  <1>9. CASE \E p \in Pair : Send(p) \/ Age(p) \/ Expire(p)
    BY <1>5, <1>9 DEF Send, Age, Expire, program, disk, outside
  <1>10. CASE Run \/ Crash
    BY <1>4, <1>5, <1>10 DEF Run, Boot, Reconciled, Scan, EndPass, Fail, Crash, disk, idling,
       outside
  <1> QED
    BY <1>3, <1>5, <1>6, <1>7, <1>8, <1>9, <1>10 DEF Next, vars, disk

----------------------------------------------------------------------------
(* Quarantine for a cause: runs in which no step has raised by itself and no *)
(* process has crashed.  A torn file that was read, or a signature that was  *)
(* never there, is then behind every error; a lock that is in the way is not, *)
(* nor is a directory that the reconciler finds after LoadEscapes.           *)

Cause(p) == p \in misread \/ (RequireSig /\ p \notin Signed)

Gathering == {"load", "lock", "check", "payload", "meta", "sig"}

\* What each point of process() has looked for is still there, or was read torn.
CauseAt(w) == LET p == pair[w] IN
  /\ pc[w] \in Gathering /\ p \in Signed => exch[p]["sig"] # "none" \/ p \in misread
  /\ pc[w] \in {"sig", "verify", "verifyMeta"} => work[p]["meta"] # "none"
  /\ pc[w] = "sig" => ~sig[w]
  /\ pc[w] \in {"verify", "verifyMeta"} =>
       IF sig[w] THEN work[p]["sig"] # "none" ELSE p \in Signed => p \in misread
  /\ pc[w] \in {"capture", "error"} => Cause(p)

Filled == {"meta", "sig", "verify", "verifyMeta", "decrypt", "decompress", "deliver", "record"}

\* A directory in processing/ is in use, or left by a delivery or a quarantine, ...
LeftBehind(p) == work[p] # Nothing \/ derived[p] # {} =>
  Delivered(p) \/ Cause(p) \/ \E w \in Worker : pc[w] \in Filled /\ pair[w] = p
\* ... a lock is held by whom it belongs to, ...
LockInUse(p) == p \in locks =>
  \E w \in Worker : pc[w] \in Section \cup {"leave"} /\ pair[w] = p
\* ... and an error has its cause.
ErrorCaused(p) == "ERROR" \in audit[p] => Cause(p)

CauseOf(p) == LeftBehind(p) /\ LockInUse(p) /\ ErrorCaused(p)

Caused ==
  /\ \A w \in Worker : CauseAt(w)
  /\ \A p \in Pair : CauseOf(p)
  /\ \A p \in todo : Delivered(p) \/ Cause(p)

CausedUnlessLapse == Lapses = 0 => Caused

\* A step of one worker leaves what is known of the other pairs alone.
LEMMA CausedOwn ==
  ASSUME IInv, Caused, NEW w \in Worker, NEW p \in Pair, p = pair[w],
         \A x \in Worker \ {w} : pc'[x] = pc[x] /\ pair'[x] = pair[x] /\ sig'[x] = sig[x],
         \A q \in Pair \ {p} :
           /\ exch'[q] = exch[q] /\ work'[q] = work[q] /\ derived'[q] = derived[q]
           /\ audit'[q] = audit[q] /\ (q \in locks' => q \in locks),
         misread \subseteq misread', todo' = todo, Delivered(p) => Delivered(p)',
         CauseAt(w)', CauseOf(p)'
  PROVE  Caused'
  <1>1. \A q \in Pair : (Cause(q) => Cause(q)') /\ (Delivered(q) => Delivered(q)')
    BY DEF Cause, Delivered
  <1>2. ASSUME NEW x \in Worker \ {w} PROVE CauseAt(x)'
    <2>1. CASE pc[x] = "idle"
      BY <2>1 DEF CauseAt, Gathering
    <2>2. CASE pc[x] # "idle"
      <3>1. pair[x] \in Pair \ {p}
        BY <2>2 DEF IInv, Shape, TypeOK, WorkerOK, OneWorkerPerPair
      <3>2. CauseAt(x)
        BY DEF Caused
      <3> QED
        BY <1>1, <3>1, <3>2 DEF CauseAt
    <2> QED
      BY <2>1, <2>2
  <1>3. ASSUME NEW q \in Pair \ {p} PROVE CauseOf(q)'
    <2>1. CauseOf(q)
      BY DEF Caused
    <2>2. \A x \in Worker : pair[x] = q => pc'[x] = pc[x] /\ pair'[x] = q
      OBVIOUS
    <2>3. LeftBehind(q)'
      BY <1>1, <2>1, <2>2 DEF CauseOf, LeftBehind
    <2>4. LockInUse(q)'
      BY <2>1, <2>2 DEF CauseOf, LockInUse
    <2>5. ErrorCaused(q)'
      BY <1>1, <2>1 DEF CauseOf, ErrorCaused
    <2> QED
      BY <2>3, <2>4, <2>5 DEF CauseOf
  <1>4. \A q \in todo' : Delivered(q)' \/ Cause(q)'
    BY <1>1 DEF Caused, IInv, Shape, TypeOK
  <1> QED
    BY <1>2, <1>3, <1>4 DEF Caused

\* A worker outside the section has not locked its pair, and nobody else has.
LEMMA NotLocked ==
  ASSUME IInv, Caused, NEW w \in Worker, pair[w] \in Pair, pc[w] \notin Section \cup {"leave"}
  PROVE  pair[w] \notin locks
  BY DEF IInv, Shape, OneWorkerPerPair, Caused, CauseOf, LockInUse

\* What the readiness rules and the verification look at has its parts.
LEMMA CausedLook ==
  ASSUME IInv, Caused, NEW w \in Worker,
         \/ Incomplete(w) \/ Complete(w) \/ Load(w) \/ Lock(w) \/ Check(w)
         \/ Verify(w) \/ VerifyMeta(w)
  PROVE  Caused'
  <1> DEFINE p == pair[w]
  <1>1. /\ p \in Pair
        /\ UNCHANGED <<disk, sig, times, aside>>
    BY Busy DEF IInv, Incomplete, Complete, Load, Lock, Check, Verify, VerifyMeta, At
  <1>2. /\ pc \in [Worker -> Point] /\ sig \in [Worker -> BOOLEAN] /\ misread \subseteq Pair
        /\ exch[p] \in [Part -> Status] /\ work[p] \in [Part -> Status]
    BY <1>1 DEF IInv, Shape, TypeOK
  <1>3. /\ \A x \in Worker \ {w} : pc'[x] = pc[x]
        /\ misread \subseteq misread'
        /\ \A q \in Pair \ {p} : q \in locks' => q \in locks
    BY <1>1, <1>2 DEF Incomplete, Complete, Load, Lock, Check, Verify, VerifyMeta,
       ToQuarantine, Goto, Read
  <1>4. CauseAt(w) /\ CauseOf(p)
    BY <1>1 DEF Caused
  <1>5. CauseAt(w)' /\ (pc[w] \in Filled => pc'[w] \in Filled \/ Cause(p)')
    <2>1. CASE Incomplete(w)
      BY <1>2, <2>1 DEF Incomplete, Goto, At, CauseAt, Gathering, Filled
    <2>2. CASE Complete(w)
      <3>1. pc[w] = "inspect" /\ pc'[w] = "load"
        BY <1>2, <2>2 DEF Complete, Goto, At
      <3>2. ASSUME p \in Signed PROVE exch[p]["sig"] # "none" \/ p \in misread'
        <4>1. CASE exch[p]["meta"] \in Legible
          BY <2>2, <3>2, <4>1 DEF Complete, Lacking
        <4>2. CASE exch[p]["meta"] \notin Legible
          <5>1. exch[p]["meta"] \in Damaged
            BY <1>2, <2>2, <4>2 DEF Complete, Lacking, Damaged, Legible, Status, Part
          <5> QED
            BY <2>2, <4>2, <5>1 DEF Complete, Expected, Read
        <4> QED
          BY <4>1, <4>2
      <3> QED
        BY <1>1, <3>1, <3>2 DEF CauseAt, Filled, disk, aside
    <2>3. CASE Load(w)
      <3>1. pc[w] = "load" /\ pc'[w] \in {"lock", "unparsed"}
        BY <1>2, <2>3 DEF Load, Goto, At
      <3> QED
        BY <1>1, <1>3, <1>4, <3>1 DEF CauseAt, Gathering, Filled, disk, aside
    <2>4. CASE Lock(w)
      <3>1. pc[w] = "lock"
        BY <2>4 DEF Lock, At
      <3>2. p \notin locks
        BY <1>1, <3>1, NotLocked DEF Section
      <3>3. pc'[w] = "check"
        BY <1>2, <2>4, <3>2 DEF Lock, Goto
      <3> QED
        BY <1>1, <1>3, <1>4, <3>1, <3>3 DEF CauseAt, Gathering, Filled, disk, aside
    <2>5. CASE Check(w)
      <3>1. pc[w] = "check" /\ pc'[w] \in {"dropPayload", "payload"}
        BY <1>2, <2>5 DEF Check, Goto, At
      <3> QED
        BY <1>1, <1>3, <1>4, <3>1 DEF CauseAt, Gathering, Filled, disk, aside
    <2>6. CASE Verify(w)
      <3>1. pc[w] = "verify"
        BY <2>6 DEF Verify, At
      <3>2. CASE work[p]["payload"] = "whole"
        <4>1. pc'[w] = "verifyMeta"
          BY <1>2, <2>6, <3>2 DEF Verify, Goto
        <4> QED
          BY <1>1, <1>3, <1>4, <3>1, <4>1 DEF CauseAt, Gathering, Filled, disk, aside
      <3>3. CASE work[p]["payload"] # "whole"
        <4>1. work[p]["payload"] # "none"
          BY <3>1 DEF IInv, Flow, Progress, ProgressOf, Holding
        <4>2. work[p]["payload"] \in Damaged
          BY <1>2, <3>3, <4>1 DEF Damaged, Status, Part
        <4>3. pc'[w] = "capture" /\ p \in misread'
          BY <1>2, <2>6, <3>3, <4>2 DEF Verify, Read, ToQuarantine, Goto
        <4> QED
          BY <1>1, <4>3 DEF CauseAt, Cause, Gathering, aside
      <3> QED
        BY <3>2, <3>3
    <2>7. CASE VerifyMeta(w)
      <3>1. pc[w] = "verifyMeta"
        BY <2>7 DEF VerifyMeta, At
      <3>2. CASE pc'[w] # "capture"
        <4>1. pc'[w] = Following(p, "verifyMeta")
          BY <1>2, <2>7, <3>2 DEF VerifyMeta, ToQuarantine, Goto
        <4>2. pc'[w] \in {"decrypt", "decompress", "deliver"}
          BY <4>1 DEF Following
        <4> QED
          BY <4>2 DEF CauseAt, Gathering, Filled
      <3>3. CASE pc'[w] = "capture"
        <4>1. ~(IF sig[w] THEN work[p]["meta"] = "whole" /\ work[p]["sig"] = "whole"
                ELSE ~RequireSig)
          <5>1. Following(p, "verifyMeta") # "capture"
            BY DEF Following
          <5> QED
            BY <1>2, <2>7, <3>3, <5>1 DEF VerifyMeta, Goto
        <4>2. CASE sig[w]
          <5>1. work[p]["meta"] # "none" /\ work[p]["sig"] # "none"
            BY <1>4, <3>1, <4>2 DEF CauseAt
          <5>2. work[p]["meta"] \in Damaged \/ work[p]["sig"] \in Damaged
            BY <1>2, <4>1, <4>2, <5>1 DEF Damaged, Status, Part
          <5>3. p \in misread'
            BY <2>7, <4>2, <5>2 DEF VerifyMeta, Read
          <5> QED
            BY <1>1, <3>3, <5>3 DEF CauseAt, Cause, Gathering, aside
        <4>3. CASE ~sig[w]
          <5>1. RequireSig /\ (p \in Signed => p \in misread)
            BY <1>4, <3>1, <4>1, <4>3 DEF CauseAt
          <5> QED
            BY <1>1, <1>3, <3>3, <5>1 DEF CauseAt, Cause, Gathering, aside
        <4> QED
          BY <4>2, <4>3
      <3> QED
        BY <3>2, <3>3
    <2> QED
      BY <2>1, <2>2, <2>3, <2>4, <2>5, <2>6, <2>7
  <1>6. LeftBehind(p)'
    <2>1. Cause(p) => Cause(p)'
      BY <1>1, <1>3 DEF Cause, aside
    <2>2. \A x \in Worker : pair[x] = p => x = w
      BY <1>1 DEF IInv, Shape, OneWorkerPerPair
    <2> QED
      BY <1>1, <1>4, <1>5, <2>1, <2>2 DEF CauseOf, LeftBehind, Delivered, disk, aside
  <1>7. LockInUse(p)'
    <2>1. CASE Incomplete(w) \/ Complete(w) \/ Load(w)
      <3>1. pc[w] \notin Section \cup {"leave"} /\ locks' = locks
        BY <2>1 DEF Incomplete, Complete, Load, At, Section
      <3> QED
        BY <1>1, <3>1, NotLocked DEF LockInUse, aside
    <2>2. CASE Lock(w) \/ Check(w) \/ Verify(w) \/ VerifyMeta(w)
      <3>1. Following(p, "verifyMeta") \in Section
        BY DEF Following, Section
      <3>2. pc'[w] \in Section \/ p \notin locks'
        <4>1. CASE Lock(w)
          <5>1. p \notin locks
            BY <1>1, <4>1, NotLocked DEF Lock, At, Section
          <5> QED
            BY <1>2, <4>1, <5>1 DEF Lock, Goto, Section
        <4>2. CASE Check(w)
          BY <1>2, <4>2 DEF Check, Goto, Section
        <4>3. CASE Verify(w)
          BY <1>2, <4>3 DEF Verify, ToQuarantine, Goto, Section
        <4>4. CASE VerifyMeta(w)
          BY <1>2, <3>1, <4>4 DEF VerifyMeta, ToQuarantine, Goto
        <4> QED
          BY <2>2, <4>1, <4>2, <4>3, <4>4
      <3> QED
        BY <1>1, <3>2 DEF LockInUse, aside
    <2> QED
      BY <2>1, <2>2
  <1>8. ErrorCaused(p)'
    BY <1>1, <1>3, <1>4 DEF CauseOf, ErrorCaused, Cause, disk, aside
  <1> QED
    BY <1>1, <1>3, <1>5, <1>6, <1>7, <1>8, CausedOwn
       DEF CauseOf, Delivered, disk, aside, service

LEMMA CausedMoveIn ==
  ASSUME IInv, Caused, NEW w \in Worker,
         \/ MoveIn(w, "payload", "meta") \/ MoveIn(w, "meta", "sig") \/ MoveIn(w, "sig", "verify")
  PROVE  Caused'
  <1> DEFINE p == pair[w]
  <1>1. /\ pc[w] \in {"payload", "meta", "sig"} /\ p \in Pair
        /\ UNCHANGED <<derived, audit, locks, misread, aside>>
    BY Busy DEF IInv, MoveIn, At
  <1>2. /\ pc \in [Worker -> Point] /\ sig \in [Worker -> BOOLEAN]
        /\ work \in [Pair -> [Part -> Status]] /\ exch \in [Pair -> [Part -> Status]]
    BY DEF IInv, Shape, TypeOK
  <1>3. /\ \A x \in Worker \ {w} : pc'[x] = pc[x] /\ sig'[x] = sig[x]
        /\ \A q \in Pair \ {p} : work'[q] = work[q] /\ exch'[q] = exch[q]
    BY <1>2 DEF MoveIn, Goto, Gone
  <1>4. CauseAt(w) /\ CauseOf(p)
    BY <1>1 DEF Caused
  <1>5. CauseAt(w)' /\ pc'[w] \in Filled \cap Section
    <2>1. CASE MoveIn(w, "payload", "meta")
      <3>1. /\ pc[w] = "payload" /\ pc'[w] = "meta" /\ exch'[p]["sig"] = exch[p]["sig"]
        BY <1>1, <1>2, <2>1 DEF MoveIn, Goto, Gone, At, Part
      <3> QED
        BY <1>1, <1>4, <3>1 DEF CauseAt, Gathering, Filled, Section, aside
    <2>2. CASE MoveIn(w, "meta", "sig")
      <3>1. /\ pc[w] = "meta" /\ pc'[w] = "sig" /\ exch'[p]["sig"] = exch[p]["sig"]
            /\ work'[p]["meta"] # "none"
        BY <1>1, <1>2, <2>2 DEF MoveIn, Goto, Gone, At, Part
      <3>2. sig' = [sig EXCEPT ![w] = FALSE]
        BY <2>2 DEF MoveIn
      <3>3. ~sig'[w]
        BY <1>2, <3>2
      <3> QED
        BY <1>1, <1>4, <3>1, <3>3 DEF CauseAt, Gathering, Filled, Section, aside
    <2>3. CASE MoveIn(w, "sig", "verify")
      <3>1. /\ pc[w] = "sig" /\ pc'[w] = "verify"
            /\ work'[p]["meta"] = work[p]["meta"]
            /\ exch[p]["sig"] # "none" => work'[p]["sig"] # "none"
        BY <1>1, <1>2, <2>3 DEF MoveIn, Goto, At, Part
      <3>2. IF exch[p]["sig"] # "none" THEN sig' = [sig EXCEPT ![w] = TRUE] ELSE sig' = sig
        BY <2>3 DEF MoveIn
      <3>3. IF exch[p]["sig"] # "none" THEN sig'[w] ELSE ~sig'[w]
        BY <1>2, <1>4, <3>1, <3>2 DEF CauseAt
      <3> QED
        BY <1>1, <1>4, <3>1, <3>3 DEF CauseAt, Gathering, Filled, Section, aside
    <2> QED
      BY <2>1, <2>2, <2>3
  <1>6. CauseOf(p)'
    BY <1>1, <1>4, <1>5 DEF CauseOf, LeftBehind, LockInUse, ErrorCaused, Cause, aside
  <1> QED
    BY <1>1, <1>3, <1>5, <1>6, CausedOwn DEF Delivered, aside, service

LEMMA CausedDeliver ==
  ASSUME IInv, Caused, NEW w \in Worker,
         \/ Derive(w, "decrypt", "decrypted") \/ Derive(w, "decompress", "clear")
         \/ Deliver(w) \/ Record(w)
  PROVE  Caused'
  <1> DEFINE p == pair[w]
  <1>1. /\ p \in Pair
        /\ UNCHANGED <<exch, locks, sig, misread, aside>>
    BY Busy DEF IInv, Derive, Deliver, Record, At
  <1>2. /\ pc \in [Worker -> Point] /\ work \in [Pair -> [Part -> Status]]
        /\ derived \in [Pair -> SUBSET Derived] /\ audit \in [Pair -> SUBSET Event]
    BY DEF IInv, Shape, TypeOK
  <1>3. /\ \A x \in Worker \ {w} : pc'[x] = pc[x]
        /\ \A q \in Pair \ {p} : work'[q] = work[q] /\ derived'[q] = derived[q]
                                 /\ audit'[q] = audit[q]
    BY <1>1, <1>2 DEF Derive, Deliver, Record, Goto
  <1>4. CauseOf(p)
    BY <1>1 DEF Caused
  <1>5. \/ pc'[w] \in {"decompress", "deliver", "record"} /\ audit' = audit
        \/ pc'[w] = "leave" /\ audit'[p] = audit[p] \cup {"MOVED_TO_BUSINESS_FOLDER"}
    BY <1>1, <1>2 DEF Derive, Deliver, Record, Goto, Following
  <1>6. CauseAt(w)'
    BY <1>5 DEF CauseAt, Gathering
  <1>7. CauseOf(p)'
    BY <1>1, <1>4, <1>5 DEF CauseOf, LeftBehind, LockInUse, ErrorCaused, Cause, Delivered,
       Filled, Section, aside
  <1>8. Delivered(p) => Delivered(p)'
    BY <1>1, <1>5 DEF Delivered, aside
  <1> QED
    BY <1>1, <1>3, <1>6, <1>7, <1>8, CausedOwn DEF aside, service

\* The steps that end with a pair: nobody is in its directory any more.
LEMMA CausedLeft ==
  ASSUME IInv, Caused, NEW w \in Worker,
         \/ Drop(w, "payload", "dropPayload", "dropMeta") \/ Drop(w, "meta", "dropMeta", "leave")
         \/ Capture(w)
         \/ NotReady(w) \/ LoadEscapes(w) \/ Leave(w) \/ RecordError(w)
         \/ Refuse(w, "orphan", {"payload"}) \/ Refuse(w, "unparsed", {"payload", "meta"})
  PROVE  Caused'
  <1>0. PICK p \in Pair : p = pair[w]
    BY Busy DEF IInv, Drop, Capture, NotReady, LoadEscapes, Leave, RecordError, Refuse, At
  <1>1. /\ misread \subseteq misread' /\ locks' \subseteq locks /\ todo' = todo
    BY <1>0 DEF Drop, Capture, NotReady, LoadEscapes, Leave, RecordError, Refuse, Read, aside,
       service
  <1>2. /\ exch \in [Pair -> [Part -> Status]] /\ work \in [Pair -> [Part -> Status]]
        /\ derived \in [Pair -> SUBSET Derived] /\ audit \in [Pair -> SUBSET Event]
        /\ pc \in [Worker -> Point] /\ pair \in [Worker -> Pair \cup {None}]
        /\ sig \in [Worker -> BOOLEAN]
    BY DEF IInv, Shape, TypeOK
  <1>3. \A q \in Pair \ {p} :
           /\ exch'[q] = exch[q] /\ work'[q] = work[q] /\ derived'[q] = derived[q]
           /\ audit'[q] = audit[q]
    BY <1>0, <1>2 DEF Drop, Capture, NotReady, LoadEscapes, Leave, RecordError, Refuse, Gone,
       disk
  <1>4. /\ \A x \in Worker \ {w} : pc'[x] = pc[x] /\ pair'[x] = pair[x] /\ sig'[x] = sig[x]
        /\ pc'[w] \in {"idle", "dropMeta", "leave", "error"}
        /\ pc'[w] = "error" => pair'[w] = p
    BY <1>0, <1>2 DEF Drop, Capture, NotReady, LoadEscapes, Leave, RecordError, Refuse, At,
       Finish, Goto, aside
  <1>5. CauseAt(w) /\ CauseOf(p)
    BY DEF Caused
  <1>6. Cause(p) => Cause(p)'
    BY <1>1 DEF Cause
  <1>7. Capture(w) \/ RecordError(w) => Cause(p)
    BY <1>0, <1>5 DEF Capture, RecordError, At, CauseAt
  <1>8. CauseAt(w)'
    <2>1. pc'[w] = "error" => Capture(w)
      BY <1>0, <1>2 DEF Drop, Capture, NotReady, LoadEscapes, Leave, RecordError, Refuse, At,
         Finish, Goto
    <2> QED
      BY <1>4, <1>6, <1>7, <2>1 DEF CauseAt, Gathering
  <1>9. LeftBehind(p)'
    <2>1. CASE Capture(w)
      BY <1>6, <1>7, <2>1 DEF LeftBehind
    <2>2. CASE ~Capture(w)
      <3>1. UNCHANGED <<work, derived>> /\ pc[w] \notin Filled
        BY <2>2 DEF Drop, NotReady, LoadEscapes, Leave, RecordError, Refuse, At, disk, Filled
      <3>2. \A x \in Worker : pair[x] = p => x = w
        BY <1>0 DEF IInv, Shape, OneWorkerPerPair
      <3>3. work[p] # Nothing \/ derived[p] # {} => Delivered(p) \/ Cause(p)
        BY <1>5, <3>1, <3>2 DEF CauseOf, LeftBehind
      <3>4. Delivered(p) => Delivered(p)'
        BY <1>0, <1>2, <2>2 DEF Drop, NotReady, LoadEscapes, Leave, RecordError, Refuse, disk,
           Delivered
      <3> QED
        BY <1>6, <3>1, <3>3, <3>4 DEF LeftBehind
    <2> QED
      BY <2>1, <2>2
  <1>10. LockInUse(p)'
    <2>1. CASE \/ Drop(w, "payload", "dropPayload", "dropMeta")
               \/ Drop(w, "meta", "dropMeta", "leave")
      <3>1. pc'[w] \in Section \cup {"leave"} /\ pair'[w] = p
        BY <1>0, <1>2, <2>1 DEF Drop, Goto, Section, aside
      <3> QED
        BY <3>1 DEF LockInUse
    <2>2. CASE Leave(w)
      BY <1>0, <2>2 DEF Leave, LockInUse
    <2>3. CASE ~(\/ Drop(w, "payload", "dropPayload", "dropMeta")
                 \/ Drop(w, "meta", "dropMeta", "leave") \/ Leave(w))
      <3>1. pc[w] \notin Section \cup {"leave"}
        BY <2>3 DEF Capture, NotReady, LoadEscapes, RecordError, Refuse, At, Section
      <3> QED
        BY <1>0, <1>1, <3>1, NotLocked DEF LockInUse
    <2> QED
      BY <2>1, <2>2, <2>3
  <1>11. ErrorCaused(p)'
    <2>1. CASE RecordError(w)
      BY <1>6, <1>7, <2>1 DEF ErrorCaused
    <2>2. CASE ~RecordError(w)
      <3>1. audit' = audit
        BY <2>2 DEF Drop, Capture, NotReady, LoadEscapes, Leave, Refuse, disk
      <3> QED
        BY <1>5, <1>6, <3>1 DEF CauseOf, ErrorCaused
    <2> QED
      BY <2>1, <2>2
  <1>12. Delivered(p) => Delivered(p)'
    BY <1>0, <1>2 DEF Drop, Capture, NotReady, LoadEscapes, Leave, RecordError, Refuse, disk,
       Delivered
  <1> QED
    BY <1>0, <1>1, <1>3, <1>4, <1>8, <1>9, <1>10, <1>11, <1>12, CausedOwn DEF CauseOf

LEMMA CausedTake ==
  ASSUME IInv, Caused, NEW w \in Worker, NEW p \in Pair, Take(w, p)
  PROVE  Caused'
  <1>1. /\ pc[w] = "idle"
        /\ pc' = [pc EXCEPT ![w] = "inspect"] /\ pair' = [pair EXCEPT ![w] = p]
        /\ UNCHANGED <<disk, locks, sig, todo, misread>>
    BY DEF Take, Goto
  <1>2. /\ pc'[w] = "inspect"
        /\ \A x \in Worker \ {w} : pc'[x] = pc[x] /\ pair'[x] = pair[x]
    BY <1>1 DEF IInv, Shape, TypeOK
  <1>3. \A x \in Worker : CauseAt(x)'
    BY <1>1, <1>2 DEF Caused, CauseAt, Cause, Gathering, disk
  <1>4. ASSUME NEW q \in Pair PROVE CauseOf(q)'
    <2>1. \A x \in Worker : pc[x] \in Filled \cup Section \cup {"leave"} =>
            pc'[x] = pc[x] /\ pair'[x] = pair[x]
      BY <1>1, <1>2 DEF Filled, Section
    <2>2. CauseOf(q)
      BY DEF Caused
    <2> QED
      BY <1>1, <2>1, <2>2 DEF CauseOf, LeftBehind, LockInUse, ErrorCaused, Cause, Delivered,
         disk
  <1> QED
    BY <1>1, <1>3, <1>4 DEF Caused, Delivered, Cause, disk

\* The transport takes no part away.
LEMMA CausedTransport ==
  ASSUME IInv, Caused, NEW p \in Pair, NEW x \in Part,
         Send(p) \/ Age(p) \/ Expire(p) \/ Arrive(p, x) \/ Close(p, x)
  PROVE  Caused'
  <1>1. UNCHANGED <<derived, audit, pc, pair, sig, todo, misread>> /\ locks' \subseteq locks
    BY DEF Send, Age, Expire, Arrive, Close, program, disk, outside, workers, service
  <1>2. /\ exch \in [Pair -> [Part -> Status]] /\ work \in [Pair -> [Part -> Status]]
    BY DEF IInv, Shape, TypeOK
  <1>3. \A q \in Pair, y \in Part :
          /\ exch[q][y] # "none" => exch'[q][y] # "none"
          /\ work[q][y] # "none" => work'[q][y] # "none"
    <2>1. CASE Arrive(p, x)
      BY <1>2, <2>1 DEF Arrive, program
    <2>2. CASE Close(p, x)
      BY <1>2, <2>2 DEF Close
    <2> QED
      BY <2>1, <2>2 DEF Send, Age, Expire, program, disk
  <1>4. \A q \in Pair : work[q] = Nothing => work'[q] = Nothing
    <2>1. CASE Close(p, x)
      BY <1>2, <2>1 DEF Close, Nothing
    <2> QED
      BY <2>1 DEF Send, Age, Expire, Arrive, program, disk
  <1>5. ASSUME NEW w \in Worker PROVE CauseAt(w)'
    <2>1. CASE pc[w] = "idle"
      BY <1>1, <2>1 DEF CauseAt, Gathering
    <2>2. CASE pc[w] # "idle"
      <3>1. pair[w] \in Pair /\ CauseAt(w)
        BY <2>2, Busy DEF IInv, Caused
      <3> QED
        BY <1>1, <1>3, <3>1 DEF CauseAt, Cause, Part
    <2> QED
      BY <2>1, <2>2
  <1>6. ASSUME NEW q \in Pair PROVE CauseOf(q)'
    <2>1. CauseOf(q)
      BY DEF Caused
    <2> QED
      BY <1>1, <1>4, <2>1 DEF CauseOf, LeftBehind, LockInUse, ErrorCaused, Cause, Delivered
  <1> QED
    BY <1>1, <1>5, <1>6 DEF Caused, Delivered, Cause

\* What the reconciler finds is left by a delivery, or has its cause.
LEMMA CausedService ==
  ASSUME IInv, Caused, Run
  PROVE  Caused'
  <1>1. Quiet /\ UNCHANGED <<exch, locks, workers, misread>>
    BY DEF Run, Boot, Resolve, Reconciled, Scan, EndPass, Fail, disk, idling, IInv, Shape,
       QuietOutside
  <1>2. \A w \in Worker : CauseAt(w)'
    BY <1>1 DEF CauseAt, Gathering, Quiet, workers
  <1>3. \A p \in Pair : LockInUse(p)'
    BY <1>1 DEF Caused, CauseOf, LockInUse, workers
  <1>4. ASSUME NEW p \in Pair, work[p] # Nothing \/ derived[p] # {}
        PROVE  Delivered(p) \/ Cause(p)
    BY <1>1, <1>4 DEF Caused, CauseOf, LeftBehind, Quiet, Filled
  <1>5. CASE \E p \in Pair : Resolve(p)
    <2>1. PICK p \in Pair : Resolve(p)
      BY <1>5
    <2>2. /\ work \in [Pair -> [Part -> Status]] /\ derived \in [Pair -> SUBSET Derived]
          /\ audit \in [Pair -> SUBSET Event]
      BY DEF IInv, Shape, TypeOK
    <2>3. /\ work'[p] = Nothing /\ derived'[p] = {} /\ todo' = todo \ {p}
          /\ \A q \in Pair \ {p} : work'[q] = work[q] /\ derived'[q] = derived[q]
                                   /\ audit'[q] = audit[q]
      BY <2>1, <2>2 DEF Resolve
    <2>4. \/ audit'[p] = audit[p]
          \/ audit'[p] = audit[p] \cup {"ERROR"} /\ Cause(p)
      BY <2>1, <2>2 DEF Resolve, Finished, Delivered, Caused
    <2>5. ASSUME NEW q \in Pair PROVE LeftBehind(q)' /\ ErrorCaused(q)'
      BY <1>1, <1>4, <2>3, <2>4 DEF LeftBehind, ErrorCaused, Cause, Delivered, Caused, CauseOf
    <2>6. \A q \in todo' : Delivered(q)' \/ Cause(q)'
      BY <1>1, <2>3 DEF Caused, Delivered, Cause, IInv, Shape, TypeOK
    <2> QED
      BY <1>2, <1>3, <2>5, <2>6 DEF Caused, CauseOf
  <1>6. CASE ~\E p \in Pair : Resolve(p)
    <2>1. UNCHANGED <<work, derived, audit>> /\ (todo' = todo \/ todo' = Directories)
      BY <1>6 DEF Run, Boot, Reconciled, Scan, EndPass, Fail, disk
    <2>2. \A q \in Pair : LeftBehind(q)' /\ ErrorCaused(q)'
      BY <1>1, <1>4, <2>1 DEF LeftBehind, ErrorCaused, Cause, Delivered, Caused, CauseOf
    <2>3. \A q \in todo' : Delivered(q)' \/ Cause(q)'
      BY <1>1, <1>4, <2>1 DEF Caused, Delivered, Cause, Directories
    <2> QED
      BY <1>2, <1>3, <2>2, <2>3 DEF Caused, CauseOf
  <1> QED
    BY <1>5, <1>6

LEMMA LapsesCount ==
  ASSUME IInv, [Next]_vars
  PROVE  /\ Lapses' \in {Lapses, Lapses + 1}
         /\ (\E w \in Worker : Fault(w) \/ Raise(w)) \/ Crash => Lapses' = Lapses + 1
  <1>1. faults \in Nat /\ crashes \in Nat
    BY DEF IInv, Shape, TypeOK
  <1>2. ASSUME NEW w \in Worker, Step(w) PROVE faults' = faults /\ crashes' = crashes
    BY <1>2 DEF Step, NotReady, Incomplete, Complete, Load, LoadEscapes, Lock, Check, Drop,
       MoveIn, Verify, VerifyMeta, Derive, Deliver, Record, Leave, Capture, RecordError,
       Refuse, aside, outside
  <1>3. ASSUME NEW w \in Worker, Fault(w) \/ Raise(w)
        PROVE  faults' = faults + 1 /\ crashes' = crashes
    BY <1>3 DEF Fault, Raise, outside
  <1>4. ASSUME Crash PROVE Lapses' = Lapses + 1
    BY <1>1, <1>4 DEF Crash, Lapses
  <1>5. ASSUME Run \/ UNCHANGED vars PROVE Lapses' = Lapses
    BY <1>5 DEF Run, Boot, Resolve, Reconciled, Scan, EndPass, Fail, idling, outside, vars,
       Lapses
  <1>6. ASSUME NEW w \in Worker, NEW p \in Pair, Take(w, p) PROVE Lapses' = Lapses
    BY <1>6 DEF Take, outside, Lapses
  <1>7. ASSUME NEW p \in Pair,
               \/ Send(p) \/ Age(p) \/ Expire(p)
               \/ \E x \in Part : Arrive(p, x) \/ Close(p, x)
        PROVE  Lapses' = Lapses
    BY <1>7 DEF Send, Age, Expire, Arrive, Close, program, outside, Lapses
  <1>8. Lapses' \in {Lapses, Lapses + 1}
    BY <1>1, <1>2, <1>3, <1>4, <1>5, <1>6, <1>7 DEF Next, Lapses
  <1> QED
    BY <1>1, <1>3, <1>4, <1>8 DEF Lapses

LEMMA CausedNext == IInv /\ CausedUnlessLapse /\ [Next]_vars => CausedUnlessLapse'
  <1> SUFFICES ASSUME IInv, CausedUnlessLapse, [Next]_vars, Lapses' = 0 PROVE Caused'
    BY DEF CausedUnlessLapse
  <1>1. /\ ~Crash /\ \A w \in Worker : ~Fault(w) /\ ~Raise(w)
        /\ Caused
    <2>1. Lapses \in Nat
      BY DEF IInv, Shape, TypeOK, Lapses
    <2> QED
      BY <2>1, LapsesCount DEF CausedUnlessLapse
  <1>2. CASE UNCHANGED vars
    BY <1>1, <1>2 DEF vars, disk, workers, service, Caused, CauseAt, CauseOf, LeftBehind,
       LockInUse, ErrorCaused, Cause, Delivered
  <1>3. ASSUME NEW p \in Pair, Send(p) \/ Age(p) \/ Expire(p) PROVE Caused'
    BY <1>1, <1>3, CausedTransport DEF Part
  <1>4. ASSUME NEW p \in Pair, NEW x \in Part, Arrive(p, x) \/ Close(p, x) PROVE Caused'
    BY <1>1, <1>4, CausedTransport
  <1>5. ASSUME NEW w \in Worker, Step(w) PROVE Caused'
    BY <1>1, <1>5, CausedLook, CausedMoveIn, CausedDeliver, CausedLeft DEF Step
  <1> QED
    BY <1>1, <1>2, <1>3, <1>4, <1>5, CausedTake, CausedService DEF Next

----------------------------------------------------------------------------
(* Inbound implements Reception *)

Waits(p) == exch[p]["payload"] # "none"
Held(p)  == work[p]["payload"] # "none"

\* A payload that is about to be looked at, or refused, is there, ...
Shown == {"inspect", "load", "orphan", "unparsed"}
StillThere == /\ \A w \in Worker : pc[w] \in Shown => Waits(pair[w])
              /\ \A p \in batch : Waits(p)
\* ... only what is encrypted or compressed is decoded, ...
Decoding == \A w \in Worker : /\ pc[w] = "decrypt" => pair[w] \in Encrypted
                              /\ pc[w] = "decompress" => pair[w] \in Compressed
\* ... and beside what has been decoded there is the payload it comes from, unless
\* that is in quarantine: capture() leaves the decrypted file.
Remains(p) == /\ derived[p] # {} => p \in Encrypted \cup Compressed
              /\ "clear" \in derived[p] => Held(p)
              /\ "decrypted" \in derived[p] => Held(p) \/ p \in error

RInv == /\ IInv /\ NotOurs
        /\ StillThere /\ Decoding
        /\ \A p \in Pair : Remains(p)

\* A step of one worker is a step of its pair.
LEMMA OwnPair ==
  ASSUME IInv, NEW w \in Worker, Step(w)
  PROVE  /\ pair[w] \in Pair
         /\ batch' = batch /\ faults' = faults /\ crashes' = crashes
         /\ \A x \in Worker \ {w} : pc'[x] = pc[x] /\ pair'[x] = pair[x]
         /\ \A q \in Pair \ {pair[w]} :
              /\ exch'[q] = exch[q] /\ work'[q] = work[q] /\ derived'[q] = derived[q]
              /\ times'[q] = times[q] /\ Delivered(q)' = Delivered(q)
              /\ q \in error' <=> q \in error
  <1> DEFINE p == pair[w]
  <1>0. IInv => Shape
    BY DEF IInv
  <1>1. p \in Pair
    BY <1>0, Busy DEF Step, NotReady, Incomplete, Complete, Load, LoadEscapes, Lock, Check,
       Drop, MoveIn, Verify, VerifyMeta, Derive, Deliver, Record, Leave, Capture, RecordError,
       Refuse, At, Part
  <1>2. batch' = batch /\ faults' = faults /\ crashes' = crashes
    BY DEF Step, NotReady, Incomplete, Complete, Load, LoadEscapes, Lock, Check, Drop,
       MoveIn, Verify, VerifyMeta, Derive, Deliver, Record, Leave, Capture, RecordError,
       Refuse, aside, outside, service
  <1>3. pc \in [Worker -> Point] /\ pair \in [Worker -> Pair \cup {None}]
    BY DEF IInv, Shape, TypeOK
  <1>4. \A x \in Worker \ {w} : pc'[x] = pc[x] /\ pair'[x] = pair[x]
    <2>1. \/ Finish(w)
          \/ (\E l : Goto(w, l)) /\ pair' = pair
      BY DEF Step, NotReady, Incomplete, Complete, Load, LoadEscapes, Lock, Check, Drop,
         MoveIn, Verify, VerifyMeta, Derive, Deliver, Record, Leave, Capture, RecordError,
         Refuse, ToQuarantine, aside
    <2> QED
      BY <1>3, <2>1 DEF Finish, Goto
  <1>5. \A q \in Pair \ {p} : exch'[q] = exch[q]
    <2>1. exch' = exch \/ \E xs : Gone(p, xs)
      BY DEF Step, NotReady, Incomplete, Complete, Load, LoadEscapes, Lock, Check, Drop,
         MoveIn, Verify, VerifyMeta, Derive, Deliver, Record, Leave, Capture, RecordError,
         Refuse, disk
    <2> QED
      BY <2>1 DEF Gone, IInv, Shape, TypeOK
  <1>6. /\ work \in [Pair -> [Part -> Status]] /\ derived \in [Pair -> SUBSET Derived]
        /\ times \in [Pair -> Nat] /\ audit \in [Pair -> SUBSET Event]
    BY DEF IInv, Shape, TypeOK
  <1>7. CASE MoveIn(w, "payload", "meta") \/ MoveIn(w, "meta", "sig") \/ MoveIn(w, "sig", "verify")
    BY <1>1, <1>2, <1>4, <1>5, <1>6, <1>7 DEF MoveIn, Delivered
  <1>8. CASE Derive(w, "decrypt", "decrypted") \/ Derive(w, "decompress", "clear")
    BY <1>1, <1>2, <1>4, <1>5, <1>6, <1>8 DEF Derive, Delivered
  <1>9. CASE Deliver(w)
    BY <1>1, <1>2, <1>4, <1>5, <1>6, <1>9 DEF Deliver, Delivered
  <1>10. CASE Record(w) \/ RecordError(w)
    BY <1>1, <1>2, <1>4, <1>5, <1>6, <1>10 DEF Record, RecordError, Delivered
  <1>11. CASE Capture(w)
    BY <1>1, <1>2, <1>4, <1>5, <1>6, <1>11 DEF Capture, Delivered
  <1>12. CASE Refuse(w, "orphan", {"payload"}) \/ Refuse(w, "unparsed", {"payload", "meta"})
    BY <1>1, <1>2, <1>4, <1>5, <1>6, <1>12 DEF Refuse, Delivered
  <1>13. CASE UNCHANGED <<work, derived, error, audit, times>>
    BY <1>1, <1>2, <1>4, <1>5, <1>13 DEF Delivered
  <1> QED
    BY <1>7, <1>8, <1>9, <1>10, <1>11, <1>12, <1>13 DEF Step, NotReady, Incomplete, Complete,
       Load, LoadEscapes, Lock, Check, Drop, Verify, VerifyMeta, Leave, disk

LEMMA Follows ==
  ASSUME NEW p, NEW l
  PROVE  /\ Following(p, l) \in {"decrypt", "decompress", "deliver"}
         /\ Following(p, l) = "decrypt" => p \in Encrypted
         /\ Following(p, l) = "decompress" => p \in Compressed
  BY DEF Following

\* The payload a worker looks at is gone only when it looks no more.
LEMMA StillThereStep ==
  ASSUME RInv, NEW w \in Worker, Step(w)
  PROVE  StillThere'
  <1> DEFINE p == pair[w]
  <1>1. /\ p \in Pair /\ batch' = batch
        /\ \A x \in Worker \ {w} : pc'[x] = pc[x] /\ pair'[x] = pair[x]
        /\ \A q \in Pair \ {p} : exch'[q] = exch[q]
    BY OwnPair DEF RInv
  <1>2. pc \in [Worker -> Point] /\ batch \subseteq Pair /\ p \notin batch
    BY DEF RInv, IInv, Shape, TypeOK, OncePerPass
  <1>3. \A q \in batch : Waits(q)'
    BY <1>1, <1>2 DEF RInv, StillThere, Waits
  <1>4. ASSUME NEW x \in Worker \ {w}, pc[x] \in Shown PROVE Waits(pair[x])'
    <2>1. pair[x] \in Pair \ {p}
      BY <1>1, <1>4, Busy DEF RInv, IInv, Shape, OneWorkerPerPair, Shown
    <2> QED
      BY <1>1, <1>4, <2>1 DEF RInv, StillThere, Waits
  <1>5. pc'[w] \in Shown => Waits(pair[w])'
    <2>1. CASE Incomplete(w) \/ Complete(w) \/ Load(w)
      <3>1. pc[w] \in Shown /\ UNCHANGED <<exch, pair>>
        BY <2>1 DEF Incomplete, Complete, Load, At, Shown, disk, aside
      <3> QED
        BY <3>1 DEF RInv, StillThere, Waits
    <2>2. CASE ~(Incomplete(w) \/ Complete(w) \/ Load(w))
      <3>1. pc'[w] \notin Shown
        <4>1. {Following(p, l) : l \in Point} \cap Shown = {}
          BY Follows DEF Shown
        <4> QED
          BY <1>2, <2>2, <4>1 DEF Step, NotReady, LoadEscapes, Lock, Check, Drop, MoveIn,
             Verify, VerifyMeta, Derive, Deliver, Record, Leave, Capture, RecordError, Refuse,
             ToQuarantine, Finish, Goto, Shown, Point, Section
      <3> QED
        BY <3>1
    <2> QED
      BY <2>1, <2>2
  <1>6. UNCHANGED pair \/ pc'[w] \notin Shown
    BY <1>2 DEF Step, NotReady, Incomplete, Complete, Load, LoadEscapes, Lock, Check, Drop,
       MoveIn, Verify, VerifyMeta, Derive, Deliver, Record, Leave, Capture, RecordError,
       Refuse, Finish, Goto, Shown, aside
  <1>7. ASSUME NEW x \in Worker, pc'[x] \in Shown PROVE Waits(pair[x])'
    BY <1>1, <1>4, <1>5, <1>7
  <1> QED
    BY <1>1, <1>3, <1>7 DEF StillThere, Waits

LEMMA DecodingStep ==
  ASSUME RInv, NEW w \in Worker, Step(w)
  PROVE  Decoding'
  <1>1. \A x \in Worker \ {w} : pc'[x] = pc[x] /\ pair'[x] = pair[x]
    BY OwnPair DEF RInv
  <1>2. pc \in [Worker -> Point]
    BY DEF RInv, IInv, Shape, TypeOK
  <1>3. CASE VerifyMeta(w) \/ Derive(w, "decrypt", "decrypted") \/ Derive(w, "decompress", "clear")
    <2>1. /\ pair' = pair
          /\ pc'[w] = "capture" \/ \E l : pc'[w] = Following(pair[w], l)
      BY <1>2, <1>3 DEF VerifyMeta, Derive, ToQuarantine, Goto, aside
    <2>2. /\ pc'[w] = "decrypt" => pair[w] \in Encrypted
          /\ pc'[w] = "decompress" => pair[w] \in Compressed
      BY <2>1, Follows
    <2> QED
      BY <1>1, <2>1, <2>2 DEF RInv, Decoding
  <1>4. CASE ~(VerifyMeta(w) \/ Derive(w, "decrypt", "decrypted") \/ Derive(w, "decompress", "clear"))
    <2>1. pc'[w] \notin {"decrypt", "decompress"}
      BY <1>2, <1>4 DEF Step, NotReady, Incomplete, Complete, Load, LoadEscapes, Lock, Check,
         Drop, MoveIn, Verify, Deliver, Record, Leave, Capture, RecordError, Refuse,
         ToQuarantine, Finish, Goto
    <2> QED
      BY <1>1, <2>1 DEF RInv, Decoding
  <1> QED
    BY <1>3, <1>4

LEMMA RemainsStep ==
  ASSUME RInv, NEW w \in Worker, Step(w)
  PROVE  \A q \in Pair : Remains(q)'
  <1> DEFINE p == pair[w]
  <1>1. /\ p \in Pair
        /\ \A q \in Pair \ {p} : /\ work'[q] = work[q] /\ derived'[q] = derived[q]
                                 /\ q \in error' <=> q \in error
    BY OwnPair DEF RInv
  <1>2. /\ exch \in [Pair -> [Part -> Status]] /\ work \in [Pair -> [Part -> Status]]
        /\ derived \in [Pair -> SUBSET Derived]
    BY DEF RInv, IInv, Shape, TypeOK
  <1>3. Remains(p)
    BY <1>1 DEF RInv
  <1>4. \A q \in Pair \ {p} : Remains(q)'
    BY <1>1 DEF RInv, Remains, Held
  <1>5. CASE MoveIn(w, "payload", "meta") \/ MoveIn(w, "meta", "sig") \/ MoveIn(w, "sig", "verify")
    <2>1. Held(p) => Held(p)'
      BY <1>1, <1>2, <1>5 DEF MoveIn, Held, Part, aside
    <2> QED
      BY <1>3, <1>4, <1>5, <2>1 DEF MoveIn, Remains, aside
  <1>6. CASE Derive(w, "decrypt", "decrypted") \/ Derive(w, "decompress", "clear")
    <2>1. Held(p) /\ p \in Encrypted \cup Compressed
      BY <1>6 DEF Derive, At, RInv, Decoding, IInv, Flow, Progress, ProgressOf, Holding, Held
    <2> QED
      BY <1>4, <1>6, <2>1 DEF Derive, Remains, Held, aside
  <1>7. CASE Deliver(w)
    <2>1. Held(p)
      BY <1>7 DEF Deliver, At, RInv, IInv, Flow, Progress, ProgressOf, Holding, Held
    <2> QED
      BY <1>1, <1>2, <1>3, <1>4, <1>7, <2>1 DEF Deliver, Remains, Held, aside
  <1>8. CASE Capture(w)
    BY <1>1, <1>2, <1>3, <1>4, <1>8 DEF Capture, Recoverable, Remains, Held, aside
  <1>9. CASE UNCHANGED <<work, derived>> /\ error \subseteq error'
    BY <1>3, <1>4, <1>9 DEF Remains, Held
  <1> QED
    BY <1>5, <1>6, <1>7, <1>8, <1>9 DEF Step, NotReady, Incomplete, Complete, Load,
       LoadEscapes, Lock, Check, Drop, Verify, VerifyMeta, Record, Leave, RecordError, Refuse,
       disk

\* No other step takes a payload out of exchange_in, or out of processing/ alone.
LEMMA OutsideKeeps ==
  ASSUME RInv, [Next]_vars, \A w \in Worker : ~Step(w)
  PROVE  /\ \A q \in Pair : (Waits(q) => Waits(q)') /\ Remains(q)'
         /\ batch' \subseteq batch \/ Scan
         /\ \A w \in Worker : pc'[w] # "idle" =>
              \/ pc'[w] \in {pc[w], "capture"} /\ pair'[w] = pair[w]
              \/ pc'[w] = "inspect" /\ pair'[w] \in batch
  <1>1. /\ exch \in [Pair -> [Part -> Status]] /\ work \in [Pair -> [Part -> Status]]
        /\ derived \in [Pair -> SUBSET Derived]
        /\ pc \in [Worker -> Point] /\ pair \in [Worker -> Pair \cup {None}]
    BY DEF RInv, IInv, Shape, TypeOK
  <1>2. \A q \in Pair : Remains(q)
    BY DEF RInv
  <1>3. ASSUME UNCHANGED disk
        PROVE  \A q \in Pair : (Waits(q) => Waits(q)') /\ Remains(q)'
    BY <1>2, <1>3 DEF disk, Remains, Held, Waits
  <1>4. CASE \E p \in Pair : \/ Send(p) \/ Age(p) \/ Expire(p)
                            \/ \E x \in Part : Arrive(p, x) \/ Close(p, x)
    <2>1. UNCHANGED <<derived, error, pc, pair, batch>>
      BY <1>4 DEF Send, Age, Expire, Arrive, Close, program, disk, workers, service
    <2>2. \A q \in Pair : (Waits(q) => Waits(q)') /\ (Held(q) => Held(q)')
      <3>1. ASSUME NEW p \in Pair, NEW x \in Part, Arrive(p, x)
            PROVE  \A q \in Pair : (Waits(q) => Waits(q)') /\ (Held(q) => Held(q)')
        BY <1>1, <3>1 DEF Arrive, program, Waits, Held, Part
      <3>2. ASSUME NEW p \in Pair, NEW x \in Part, Close(p, x)
            PROVE  \A q \in Pair : (Waits(q) => Waits(q)') /\ (Held(q) => Held(q)')
        <4>1. ASSUME exch' = exch \/ (exch[p][x] = "growing" /\
                       \E v \in {"whole", "cut", "garbled", "altered"} : exch' = [exch EXCEPT ![p][x] = v])
              PROVE  \A q \in Pair : Waits(q) => Waits(q)'
          BY <1>1, <4>1 DEF Waits, Part
        <4>2. ASSUME work' = work \/ (work[p][x] = "growing" /\
                       \E v \in {"whole", "cut", "garbled", "altered"} : work' = [work EXCEPT ![p][x] = v])
              PROVE  \A q \in Pair : Held(q) => Held(q)'
          BY <1>1, <4>2 DEF Held, Part
        <4> QED
          BY <3>2, <4>1, <4>2 DEF Close
      <3> QED
        BY <1>4, <3>1, <3>2 DEF Send, Age, Expire, program, disk, Waits, Held
    <2> QED
      BY <1>2, <2>1, <2>2 DEF Remains
  <1>5. ASSUME NEW w \in Worker, NEW p \in Pair, Take(w, p)
        PROVE  /\ batch' \subseteq batch
               /\ \A x \in Worker : \/ pc'[x] = pc[x] /\ pair'[x] = pair[x]
                                    \/ pc'[x] = "inspect" /\ pair'[x] \in batch
    BY <1>1, <1>5 DEF Take, Goto
  <1>6. ASSUME NEW w \in Worker, Fault(w) \/ Raise(w)
        PROVE  /\ batch' = batch
               /\ \A x \in Worker : \/ pc'[x] \in {pc[x], "capture"} /\ pair'[x] = pair[x]
                                    \/ pc'[x] = "idle"
    BY <1>1, <1>6 DEF Fault, Raise, ToQuarantine, Finish, Goto, service
  <1>7. ASSUME NEW p \in Pair, Resolve(p)
        PROVE  /\ batch' = batch /\ pc' = pc /\ pair' = pair /\ exch' = exch
               /\ \A q \in Pair : Remains(q)'
    <2>1. /\ derived'[p] = {}
          /\ \A q \in Pair \ {p} : derived'[q] = derived[q] /\ work'[q] = work[q]
          /\ error \subseteq error'
      BY <1>1, <1>7 DEF Resolve
    <2> QED
      BY <1>2, <1>7, <2>1 DEF Resolve, idling, workers, Remains, Held
  <1>8. ASSUME Boot \/ Reconciled \/ Scan \/ EndPass \/ Fail \/ Crash
        PROVE  /\ batch' \subseteq batch \/ Scan
               /\ \A x \in Worker : \/ pc'[x] = pc[x] /\ pair'[x] = pair[x]
                                    \/ pc'[x] = "idle"
    BY <1>8 DEF Boot, Reconciled, Scan, EndPass, Fail, Crash, idling, workers
  <1>9. CASE UNCHANGED vars
    <2>1. UNCHANGED disk
      BY <1>9 DEF vars
    <2> QED
      BY <1>3, <1>9, <2>1 DEF vars, workers, service
  <1>10. CASE ~(\E p \in Pair : Resolve(p)) /\ ~UNCHANGED vars
    <2>1. \/ UNCHANGED disk
          \/ \E p \in Pair : \/ Send(p) \/ Age(p) \/ Expire(p)
                             \/ \E x \in Part : Arrive(p, x) \/ Close(p, x)
      BY <1>10 DEF Next, Run, Boot, Reconciled, Scan, EndPass, Fail, Crash, Take, Fault, Raise
    <2>2. \A q \in Pair : (Waits(q) => Waits(q)') /\ Remains(q)'
      BY <1>3, <1>4, <2>1
    <2>3. CASE \E p \in Pair : \/ Send(p) \/ Age(p) \/ Expire(p)
                              \/ \E x \in Part : Arrive(p, x) \/ Close(p, x)
      BY <2>2, <2>3 DEF Send, Age, Expire, Arrive, Close, program, disk, workers, service
    <2>4. CASE ~\E p \in Pair : \/ Send(p) \/ Age(p) \/ Expire(p)
                                \/ \E x \in Part : Arrive(p, x) \/ Close(p, x)
      <3>1. \/ \E w \in Worker : (\E p \in Pair : Take(w, p)) \/ Fault(w) \/ Raise(w)
            \/ Boot \/ Reconciled \/ Scan \/ EndPass \/ Fail \/ Crash
        BY <1>10, <2>4 DEF Next, Run
      <3> QED
        BY <1>5, <1>6, <1>8, <2>2, <3>1
    <2> QED
      BY <2>3, <2>4
  <1> QED
    BY <1>7, <1>9, <1>10 DEF Waits

LEMMA RInvNext == RInv /\ [Next]_vars => RInv'
  <1> SUFFICES ASSUME RInv, [Next]_vars PROVE RInv'
    OBVIOUS
  <1>1. IInv' /\ NotOurs'
    BY ShapeNext, FlowNext, NotOursNext DEF RInv, IInv
  <1>2. ASSUME NEW w \in Worker, Step(w) PROVE RInv'
    BY <1>1, <1>2, StillThereStep, DecodingStep, RemainsStep DEF RInv
  <1>3. CASE \A w \in Worker : ~Step(w)
    <2>1. /\ \A q \in Pair : (Waits(q) => Waits(q)') /\ Remains(q)'
          /\ batch' \subseteq batch \/ Scan
          /\ \A w \in Worker : pc'[w] # "idle" =>
               \/ pc'[w] \in {pc[w], "capture"} /\ pair'[w] = pair[w]
               \/ pc'[w] = "inspect" /\ pair'[w] \in batch
      BY <1>3, OutsideKeeps
    <2>2. batch \subseteq Pair
      BY DEF RInv, IInv, Shape, TypeOK
    <2>3. \A q \in batch' : Waits(q)'
      <3>1. CASE Scan
        BY <3>1 DEF Scan, disk, Waits
      <3> QED
        BY <2>1, <2>2, <3>1 DEF RInv, StillThere, Waits
    <2>4. ASSUME NEW w \in Worker, pc'[w] \in Shown PROVE Waits(pair[w])'
      <3>1. CASE pc'[w] = pc[w] /\ pair'[w] = pair[w]
        <4>1. pair[w] \in Pair
          BY <2>4, <3>1, Busy DEF RInv, IInv, Shown
        <4> QED
          BY <2>1, <2>4, <3>1, <4>1 DEF RInv, StillThere, Waits
      <3>2. CASE pc'[w] = "inspect" /\ pair'[w] \in batch
        BY <2>1, <2>2, <3>2 DEF RInv, StillThere, Waits
      <3> QED
        BY <2>1, <2>4, <3>1, <3>2 DEF Shown
    <2>5. Decoding'
      BY <2>1 DEF RInv, Decoding
    <2> QED
      BY <1>1, <2>1, <2>3, <2>4, <2>5 DEF RInv, StillThere, Waits
  <1> QED
    BY <1>2, <1>3

\* What Reception sees of one pair, and that a step leaves it alone.
Unseen(p) == /\ Waits(p)' <=> Waits(p)
             /\ Held(p)' <=> Held(p)
             /\ Fit(p)' <=> Fit(p)
             /\ Delivered(p)' <=> Delivered(p)

LEMMA Stutter ==
  ASSUME \A q \in Pair : Unseen(q), UNCHANGED <<times, error>>, Lapses' = Lapses
  PROVE  UNCHANGED Abstract!vars
  <1>1. /\ {q \in Pair : Waits(q)}' = {q \in Pair : Waits(q)}
        /\ {q \in Pair : Held(q)}' = {q \in Pair : Held(q)}
        /\ {q \in Pair : Fit(q)}' = {q \in Pair : Fit(q)}
        /\ {q \in Pair : Delivered(q)}' = {q \in Pair : Delivered(q)}
    BY DEF Unseen
  <1> QED
    BY <1>1 DEF Abstract!vars, Waits, Held, Delivered, Lapses

LEMMA StepUnseen ==
  ASSUME RInv, NEW w \in Worker, Step(w)
  PROVE  /\ pair[w] \in Pair /\ Lapses' = Lapses
         /\ \A q \in Pair \ {pair[w]} : Unseen(q)
  BY OwnPair DEF RInv, Unseen, Waits, Held, Fit, Lapses

\* Quarantine.
LEMMA AsSetAside ==
  ASSUME NEW p \in Pair, \A q \in Pair \ {p} : Unseen(q),
         Waits(p) \/ Held(p), Waits(p)' => Waits(p), Held(p)' => Held(p),
         Fit(p)' <=> Fit(p) /\ Held(p)', Delivered(p)' <=> Delivered(p),
         error' = error \cup {p}, times' = times, Lapses' = Lapses
  PROVE  Abstract!Next
  <1>1. {q \in Pair : Waits(q)}' \in
          {{q \in Pair : Waits(q)}, {q \in Pair : Waits(q)} \ {p}}
    BY DEF Unseen
  <1>2. {q \in Pair : Held(q)}' \in {{q \in Pair : Held(q)}, {q \in Pair : Held(q)} \ {p}}
    BY DEF Unseen
  <1>3. {q \in Pair : Fit(q)}' = {q \in Pair : Fit(q)} \cap {q \in Pair : Held(q)}'
    BY DEF Unseen, Fit, Held
  <1>4. {q \in Pair : Delivered(q)}' = {q \in Pair : Delivered(q)}
    BY DEF Unseen
  <1>5. p \in {q \in Pair : Waits(q)} \cup {q \in Pair : Held(q)}
    OBVIOUS
  <1>6. Abstract!SetAside(p)
    BY <1>1, <1>2, <1>3, <1>4, <1>5 DEF Abstract!SetAside, Waits, Held, Delivered, Lapses
  <1> QED
    BY <1>6 DEF Abstract!Next

\* Other parts come, or are finished.
LEMMA AsGather ==
  ASSUME NEW p \in Pair, \A q \in Pair \ {p} : Unseen(q),
         Held(p), Held(p)', Waits(p)' <=> Waits(p), Delivered(p)' <=> Delivered(p),
         UNCHANGED <<times, error>>, Lapses' = Lapses
  PROVE  Abstract!Next
  <1>1. /\ {q \in Pair : Waits(q)}' = {q \in Pair : Waits(q)}
        /\ {q \in Pair : Held(q)}' = {q \in Pair : Held(q)}
        /\ {q \in Pair : Delivered(q)}' = {q \in Pair : Delivered(q)}
    BY DEF Unseen
  <1>2. {q \in Pair : Fit(q)}' \in
          {{q \in Pair : Fit(q)} \cup {p}, {q \in Pair : Fit(q)} \ {p}}
    BY DEF Unseen
  <1>3. p \in {q \in Pair : Held(q)}
    OBVIOUS
  <1>4. Abstract!Gather(p)
    BY <1>1, <1>2, <1>3 DEF Abstract!Gather, Waits, Held, Delivered, Lapses
  <1> QED
    BY <1>4 DEF Abstract!Next

LEMMA MoveInSimulated ==
  ASSUME RInv, NEW w \in Worker, Step(w),
         \/ MoveIn(w, "payload", "meta") \/ MoveIn(w, "meta", "sig") \/ MoveIn(w, "sig", "verify")
  PROVE  Abstract!Next
  <1>0. PICK p \in Pair : p = pair[w]
    BY StepUnseen
  <1>1. Lapses' = Lapses /\ \A q \in Pair \ {p} : Unseen(q)
    BY <1>0, StepUnseen
  <1>2. exch \in [Pair -> [Part -> Status]] /\ work \in [Pair -> [Part -> Status]]
    BY DEF RInv, IInv, Shape, TypeOK
  <1>3. UNCHANGED <<times, error, audit>>
    BY DEF MoveIn, aside
  <1>4. CASE MoveIn(w, "payload", "meta")
    <2>1. Waits(p) /\ ~Waits(p)' /\ Held(p)'
      BY <1>0, <1>2, <1>4 DEF MoveIn, Gone, Waits, Held, Part
    <2>2. ~Delivered(p)
      BY <1>0, <1>4 DEF MoveIn, At, RInv, IInv, Flow, Progress, ProgressOf, Working
    <2>3. {q \in Pair : Waits(q)}' = {q \in Pair : Waits(q)} \ {p}
      BY <1>1, <2>1 DEF Unseen
    <2>4. {q \in Pair : Held(q)}' = {q \in Pair : Held(q)} \cup {p}
      BY <1>1, <2>1 DEF Unseen
    <2>5. {q \in Pair : Fit(q)}' \in
            {{q \in Pair : Fit(q)} \cup {p}, {q \in Pair : Fit(q)} \ {p}}
      BY <1>1 DEF Unseen
    <2>6. p \in {q \in Pair : Waits(q)} \ {q \in Pair : Delivered(q)}
      BY <2>1, <2>2
    <2>7. Abstract!TakeIn(p)
      BY <1>1, <1>3, <2>3, <2>4, <2>5, <2>6
         DEF Abstract!TakeIn, Waits, Held, Delivered, Lapses
    <2> QED
      BY <2>7 DEF Abstract!Next
  <1>5. CASE MoveIn(w, "meta", "sig") \/ MoveIn(w, "sig", "verify")
    <2>1. Held(p)
      BY <1>0, <1>5 DEF MoveIn, At, RInv, IInv, Flow, Progress, ProgressOf, Holding, Held
    <2>2. work'[p]["payload"] = work[p]["payload"] /\ exch'[p]["payload"] = exch[p]["payload"]
      BY <1>0, <1>2, <1>5 DEF MoveIn, Gone, Part
    <2> QED
      BY <1>1, <1>3, <2>1, <2>2, AsGather DEF Waits, Held, Delivered
  <1> QED
    BY <1>4, <1>5

\* The ledger has a lapse for every delivery before.
LEMMA DeliverSimulated ==
  ASSUME RInv, NEW w \in Worker, Step(w), Deliver(w)
  PROVE  Abstract!Next
  <1>0. PICK p \in Pair : p = pair[w]
    BY StepUnseen
  <1>1. Lapses' = Lapses /\ \A q \in Pair \ {p} : Unseen(q)
    BY <1>0, StepUnseen
  <1>2. /\ work \in [Pair -> [Part -> Status]] /\ times \in [Pair -> Nat]
        /\ times[p] \in Nat /\ Lapses \in Nat
    BY DEF RInv, IInv, Shape, TypeOK, Lapses
  <1>3. UNCHANGED <<exch, error, audit>> /\ times' = [times EXCEPT ![p] = times[p] + 1]
    BY <1>0 DEF Deliver, aside
  <1>4. Held(p) /\ Fit(p) /\ ~Delivered(p)
    BY <1>0 DEF Deliver, At, RInv, IInv, Flow, Progress, ProgressOf, Working, Held, Fit
  <1>5. times[p] <= Lapses
    <2>1. \A x \in Worker : ~(pc[x] = "record" /\ pair[x] = p)
      BY <1>0 DEF Deliver, At, RInv, IInv, Shape, OneWorkerPerPair
    <2>2. LedgerOf(p)
      BY DEF RInv, IInv, Flow, Ledger
    <2> QED
      BY <1>2, <1>4, <2>1, <2>2 DEF LedgerOf
  <1>6. Fit(p)' <=> Held(p)'
    <2>1. work' = work \/ work'[p]["payload"] = "none"
      BY <1>0, <1>2 DEF Deliver, Part
    <2> QED
      BY <1>4, <2>1 DEF Fit, Held
  <1>7. {q \in Pair : Held(q)}' \in {{q \in Pair : Held(q)}, {q \in Pair : Held(q)} \ {p}}
    BY <1>1, <1>4 DEF Unseen
  <1>8. {q \in Pair : Fit(q)}' = {q \in Pair : Fit(q)} \cap {q \in Pair : Held(q)}'
    BY <1>1, <1>4, <1>6 DEF Unseen, Fit, Held
  <1>9. p \in ({q \in Pair : Held(q)} \cap {q \in Pair : Fit(q)}) \ {q \in Pair : Delivered(q)}
    BY <1>4
  <1>10. Abstract!Deliver(p)
    BY <1>1, <1>3, <1>5, <1>7, <1>8, <1>9 DEF Abstract!Deliver, Held, Delivered, Lapses
  <1> QED
    BY <1>10 DEF Abstract!Next

LEMMA RecordSimulated ==
  ASSUME RInv, NEW w \in Worker, Step(w), Record(w)
  PROVE  Abstract!Next
  <1>0. PICK p \in Pair : p = pair[w]
    BY StepUnseen
  <1>1. Lapses' = Lapses /\ \A q \in Pair \ {p} : Unseen(q)
    BY <1>0, StepUnseen
  <1>2. UNCHANGED <<exch, work, error, times>> /\ Delivered(p)'
    BY <1>0 DEF Record, aside, Delivered, RInv, IInv, Shape, TypeOK
  <1>3. times[p] > 0
    BY <1>0 DEF Record, At, RInv, IInv, Flow, Progress, ProgressOf
  <1>4. {q \in Pair : Delivered(q)}' = {q \in Pair : Delivered(q)} \cup {p}
    BY <1>1, <1>2 DEF Unseen
  <1>5. {q \in Pair : Fit(q)}' = {q \in Pair : Fit(q)}
    BY <1>2 DEF Fit
  <1>6. Abstract!Record(p)
    BY <1>1, <1>2, <1>3, <1>4, <1>5 DEF Abstract!Record, Delivered, Lapses
  <1> QED
    BY <1>6 DEF Abstract!Next

LEMMA DropSimulated ==
  ASSUME RInv, NEW w \in Worker, Step(w), Drop(w, "payload", "dropPayload", "dropMeta")
  PROVE  Abstract!Next \/ UNCHANGED Abstract!vars
  <1>0. PICK p \in Pair : p = pair[w]
    BY StepUnseen
  <1>1. Lapses' = Lapses /\ \A q \in Pair \ {p} : Unseen(q)
    BY <1>0, StepUnseen
  <1>2. UNCHANGED <<work, error, audit, times>> /\ ~Waits(p)' /\ Delivered(p)
    BY <1>0 DEF Drop, Gone, At, aside, RInv, IInv, Flow, Progress, ProgressOf, Waits, Shape,
       TypeOK, Part
  <1>3. CASE Waits(p)
    <2>1. {q \in Pair : Waits(q)}' = {q \in Pair : Waits(q)} \ {p}
      BY <1>1, <1>2 DEF Unseen
    <2>2. {q \in Pair : Fit(q)}' = {q \in Pair : Fit(q)}
      BY <1>2 DEF Fit
    <2>3. p \in {q \in Pair : Waits(q)} \cap {q \in Pair : Delivered(q)}
      BY <1>2, <1>3
    <2>4. Abstract!Drop(p)
      BY <1>1, <1>2, <2>1, <2>2, <2>3 DEF Abstract!Drop, Waits, Delivered, Lapses
    <2> QED
      BY <2>4 DEF Abstract!Next
  <1>4. CASE ~Waits(p)
    <2>1. Unseen(p)
      BY <1>2, <1>4 DEF Unseen, Held, Fit, Delivered
    <2> QED
      BY <1>1, <1>2, <2>1, Stutter
  <1> QED
    BY <1>3, <1>4

LEMMA CaptureSimulated ==
  ASSUME RInv, NEW w \in Worker, Step(w), Capture(w)
  PROVE  Abstract!Next \/ UNCHANGED Abstract!vars
  <1>0. PICK p \in Pair : p = pair[w]
    BY StepUnseen
  <1>1. Lapses' = Lapses /\ \A q \in Pair \ {p} : Unseen(q)
    BY <1>0, StepUnseen
  <1>2. UNCHANGED <<audit, times>> /\ ~Waits(p)' /\ ~Held(p)' /\ ~Fit(p)'
    BY <1>0 DEF Capture, Gone, aside, RInv, IInv, Shape, TypeOK, Waits, Held, Fit, Nothing,
       Part
  <1>3. Recoverable(p) <=> Waits(p) \/ Held(p)
    BY DEF RInv, Remains, Recoverable, Waits, Held
  <1>4. CASE Recoverable(p)
    <2>1. error' = error \cup {p}
      BY <1>0, <1>4 DEF Capture
    <2>2. Delivered(p)' <=> Delivered(p)
      BY <1>2 DEF Delivered
    <2> QED
      BY <1>1, <1>2, <1>3, <1>4, <2>1, <2>2, AsSetAside
  <1>5. CASE ~Recoverable(p)
    <2>1. error' = error /\ ~Waits(p) /\ ~Held(p)
      BY <1>0, <1>3, <1>5 DEF Capture
    <2>2. Unseen(p)
      BY <1>2, <2>1 DEF Unseen, Delivered, Held, Fit
    <2> QED
      BY <1>1, <1>2, <2>1, <2>2, Stutter
  <1> QED
    BY <1>4, <1>5

LEMMA RefuseSimulated ==
  ASSUME RInv, NEW w \in Worker, Step(w),
         Refuse(w, "orphan", {"payload"}) \/ Refuse(w, "unparsed", {"payload", "meta"})
  PROVE  Abstract!Next
  <1>0. PICK p \in Pair : p = pair[w]
    BY StepUnseen
  <1>1. Lapses' = Lapses /\ \A q \in Pair \ {p} : Unseen(q)
    BY <1>0, StepUnseen
  <1>2. /\ UNCHANGED <<work, audit, times>> /\ error' = error \cup {p}
        /\ Waits(p) /\ ~Waits(p)'
    <2>1. Waits(p)
      BY <1>0 DEF Refuse, At, RInv, StillThere, Shown
    <2> QED
      BY <1>0, <2>1 DEF Refuse, Gone, RInv, IInv, Shape, TypeOK, Waits, Part
  <1>3. /\ Held(p)' <=> Held(p)
        /\ Fit(p)' <=> Fit(p) /\ Held(p)'
        /\ Delivered(p)' <=> Delivered(p)
    BY <1>2 DEF Held, Fit, Delivered
  <1> QED
    BY <1>1, <1>2, <1>3, AsSetAside

LEMMA StepSimulated ==
  ASSUME RInv, NEW w \in Worker, Step(w)
  PROVE  Abstract!Next \/ UNCHANGED Abstract!vars
  <1>0. PICK p \in Pair : p = pair[w]
    BY StepUnseen
  <1>1. Lapses' = Lapses /\ \A q \in Pair \ {p} : Unseen(q)
    BY <1>0, StepUnseen
  <1>2. CASE UNCHANGED <<work, error, times>> /\ Waits(p)' = Waits(p) /\ Delivered(p)' = Delivered(p)
    <2>1. Unseen(p)
      BY <1>2 DEF Unseen, Held, Fit
    <2> QED
      BY <1>1, <1>2, <2>1, Stutter
  <1>3. CASE RecordError(w)
    BY <1>0, <1>2, <1>3 DEF RecordError, Waits, Delivered, RInv, IInv, Shape, TypeOK
  <1>4. CASE Drop(w, "meta", "dropMeta", "leave")
    BY <1>0, <1>2, <1>4 DEF Drop, Gone, Waits, Delivered, RInv, IInv, Shape, TypeOK, Part, aside
  <1>5. CASE Derive(w, "decrypt", "decrypted") \/ Derive(w, "decompress", "clear")
    BY <1>2, <1>5 DEF Derive, Waits, Delivered
  <1>6. CASE \/ NotReady(w) \/ Incomplete(w) \/ Complete(w) \/ Load(w) \/ LoadEscapes(w)
             \/ Lock(w) \/ Check(w) \/ Verify(w) \/ VerifyMeta(w) \/ Leave(w)
    <2>1. UNCHANGED <<disk, times>>
      BY <1>6 DEF NotReady, Incomplete, Complete, Load, LoadEscapes, Lock, Check, Verify,
         VerifyMeta, Leave
    <2> QED
      BY <1>2, <2>1 DEF disk, Waits, Delivered
  <1> QED
    BY <1>3, <1>4, <1>5, <1>6, MoveInSimulated, DeliverSimulated, RecordSimulated,
       DropSimulated, CaptureSimulated, RefuseSimulated DEF Step

\* The transport: what comes is seen, what it goes on writing changes at most what is
\* held.
LEMMA TransportSimulated ==
  ASSUME RInv, NEW p \in Pair, NEW x \in Part,
         Send(p) \/ Age(p) \/ Expire(p) \/ Arrive(p, x) \/ Close(p, x)
  PROVE  Abstract!Next \/ UNCHANGED Abstract!vars
  <1>1. UNCHANGED <<error, audit, times>> /\ Lapses' = Lapses
    BY DEF Send, Age, Expire, Arrive, Close, program, disk, outside, Lapses
  <1>2. exch \in [Pair -> [Part -> Status]] /\ work \in [Pair -> [Part -> Status]]
    BY DEF RInv, IInv, Shape, TypeOK
  <1>3. ASSUME UNCHANGED work, \A q \in Pair : Waits(q)' <=> Waits(q)
        PROVE  UNCHANGED Abstract!vars
    <2>1. \A q \in Pair : Unseen(q)
      BY <1>1, <1>3 DEF Unseen, Held, Fit, Delivered
    <2> QED
      BY <1>1, <2>1, Stutter
  <1>4. CASE Send(p) \/ Age(p) \/ Expire(p)
    BY <1>3, <1>4 DEF Send, Age, Expire, program, disk, Waits
  <1>5. CASE Arrive(p, x) /\ x # "payload"
    <2>1. UNCHANGED work /\ \A q \in Pair : Waits(q)' <=> Waits(q)
      BY <1>2, <1>5 DEF Arrive, program, Waits, Part
    <2> QED
      BY <1>3, <2>1
  <1>6. CASE Arrive(p, x) /\ x = "payload"
    <2>1. UNCHANGED work /\ {q \in Pair : Waits(q)}' = {q \in Pair : Waits(q)} \cup {p}
      BY <1>2, <1>6 DEF Arrive, program, Waits, Part
    <2>2. {q \in Pair : Fit(q)}' = {q \in Pair : Fit(q)}
      BY <2>1 DEF Fit
    <2>3. Abstract!Come(p)
      BY <1>1, <2>1, <2>2 DEF Abstract!Come, Waits, Lapses
    <2> QED
      BY <2>3 DEF Abstract!Next
  <1>7. CASE Close(p, x) /\ UNCHANGED work
    <2>1. \A q \in Pair : Waits(q)' <=> Waits(q)
      <3>1. exch' = exch \/ (exch[p][x] = "growing" /\
              \E v \in {"whole", "cut", "garbled", "altered"} : exch' = [exch EXCEPT ![p][x] = v])
        BY <1>2, <1>7 DEF Close
      <3> QED
        BY <1>2, <3>1 DEF Waits, Part
    <2> QED
      BY <1>3, <1>7, <2>1
  <1>8. CASE Close(p, x) /\ ~UNCHANGED work
    <2>1. /\ UNCHANGED exch
          /\ work[p][x] = "growing"
          /\ \E v \in {"whole", "cut", "garbled", "altered"} : work' = [work EXCEPT ![p][x] = v]
      BY <1>8 DEF Close
    <2>2. Held(p)' <=> Held(p)
      BY <1>2, <2>1 DEF Held, Part
    <2>3. \A q \in Pair \ {p} : Unseen(q)
      BY <1>1, <1>2, <2>1 DEF Unseen, Waits, Held, Fit, Delivered
    <2>4. CASE Held(p)
      BY <1>1, <2>1, <2>2, <2>3, <2>4, AsGather DEF Waits, Delivered
    <2>5. CASE ~Held(p)
      <3>1. Unseen(p)
        BY <1>1, <2>1, <2>2, <2>5 DEF Unseen, Waits, Held, Fit, Delivered
      <3> QED
        BY <1>1, <2>3, <3>1, Stutter
    <2> QED
      BY <2>4, <2>5
  <1> QED
    BY <1>4, <1>5, <1>6, <1>7, <1>8

\* The reconciler clears what a success has left and sets aside the rest.
LEMMA ResolveSimulated ==
  ASSUME RInv, NEW p \in Pair, Resolve(p)
  PROVE  Abstract!Next \/ UNCHANGED Abstract!vars
  <1>1. /\ UNCHANGED <<exch, times>> /\ Lapses' = Lapses
        /\ ~Held(p)' /\ ~Fit(p)'
        /\ \A q \in Pair : Delivered(q)' <=> Delivered(q)
    <2>1. work \in [Pair -> [Part -> Status]] /\ audit \in [Pair -> SUBSET Event]
      BY DEF RInv, IInv, Shape, TypeOK
    <2> QED
      BY <2>1 DEF Resolve, idling, outside, Lapses, Held, Fit, Nothing, Part, Delivered
  <1>2. \A q \in Pair \ {p} : Unseen(q)
    <2>1. \A q \in Pair \ {p} : work'[q] = work[q]
      BY DEF Resolve, RInv, IInv, Shape, TypeOK
    <2> QED
      BY <1>1, <2>1 DEF Unseen, Waits, Held, Fit
  <1>3. CASE ~Held(p)
    <2>1. error' = error
      <3>1. derived[p] \subseteq {"decrypted", "clear"}
        BY DEF RInv, IInv, Shape, TypeOK, Derived
      <3>2. derived[p] # {} => p \in error
        BY <1>3, <3>1 DEF RInv, Remains
      <3>3. error' = error \/ (derived[p] # {} /\ error' = error \cup {p})
        BY <1>3 DEF Resolve, Held
      <3> QED
        BY <3>2, <3>3
    <2>2. Unseen(p)
      BY <1>1, <1>3 DEF Unseen, Waits, Fit, Held
    <2> QED
      BY <1>1, <1>2, <2>1, <2>2, Stutter
  <1>4. CASE Held(p) /\ Finished(p)
    <2>1. p \in Own \/ Delivered(p)
      BY <1>4 DEF Finished, Delivered, RInv, NotOurs
    <2>2. {q \in Pair : Held(q)}' = {q \in Pair : Held(q)} \ {p}
      BY <1>1, <1>2 DEF Unseen
    <2>3. {q \in Pair : Fit(q)}' = {q \in Pair : Fit(q)} \ {p}
      BY <1>1, <1>2 DEF Unseen
    <2>4. p \in {q \in Pair : Held(q)} \cap ({q \in Pair : Delivered(q)} \cup Own)
      BY <1>4, <2>1
    <2>5. UNCHANGED <<error, audit>>
      BY <1>4 DEF Resolve
    <2>6. Abstract!Clear(p)
      BY <1>1, <2>2, <2>3, <2>4, <2>5 DEF Abstract!Clear, Held, Delivered, Lapses
    <2> QED
      BY <2>6 DEF Abstract!Next
  <1>5. CASE Held(p) /\ ~Finished(p)
    <2>1. error' = error \cup {p}
      BY <1>5 DEF Resolve, Held
    <2> QED
      BY <1>1, <1>2, <1>5, <2>1, AsSetAside DEF Waits
  <1> QED
    BY <1>3, <1>4, <1>5

LEMMA LapseSimulated ==
  ASSUME RInv, (\E w \in Worker : Fault(w) \/ Raise(w)) \/ Crash
  PROVE  Abstract!Next
  <1>1. UNCHANGED <<disk, times>>
    BY DEF Fault, Raise, Crash
  <1>2. Lapses' = Lapses + 1
    BY LapsesCount DEF RInv, Next
  <1>3. {q \in Pair : Fit(q)}' = {q \in Pair : Fit(q)}
    BY <1>1 DEF Fit, disk
  <1>4. Abstract!Lapse
    BY <1>1, <1>2, <1>3 DEF Abstract!Lapse, disk, Lapses
  <1> QED
    BY <1>4 DEF Abstract!Next

LEMMA Simulation ==
  ASSUME RInv, [Next]_vars
  PROVE  Abstract!Next \/ UNCHANGED Abstract!vars
  <1>1. ASSUME UNCHANGED <<disk, times, faults, crashes>> PROVE UNCHANGED Abstract!vars
    <2>1. \A q \in Pair : Unseen(q)
      BY <1>1 DEF disk, Unseen, Waits, Held, Fit, Delivered
    <2> QED
      BY <1>1, <2>1, Stutter DEF disk, Lapses
  <1>2. CASE UNCHANGED vars
    BY <1>1, <1>2 DEF vars
  <1>3. ASSUME NEW p \in Pair, Send(p) \/ Age(p) \/ Expire(p)
        PROVE  Abstract!Next \/ UNCHANGED Abstract!vars
    BY <1>3, TransportSimulated DEF Part
  <1>4. ASSUME NEW p \in Pair, NEW x \in Part, Arrive(p, x) \/ Close(p, x)
        PROVE  Abstract!Next \/ UNCHANGED Abstract!vars
    BY <1>4, TransportSimulated
  <1>5. CASE \/ \E w \in Worker, p \in Pair : Take(w, p)
             \/ Boot \/ Reconciled \/ Scan \/ EndPass \/ Fail
    BY <1>1, <1>5 DEF Take, Boot, Reconciled, Scan, EndPass, Fail, idling, outside
  <1> QED
    BY <1>2, <1>3, <1>4, <1>5, StepSimulated, ResolveSimulated, LapseSimulated DEF Next, Run

----------------------------------------------------------------------------
(* Theorems *)

\* Every step of the readiness rules, the pipeline, the quarantine, the scan loop and
\* the reconciliation leaves every variable in its type.
THEOREM TypeCorrect == Spec => []TypeOK
  <1>1. IInv => TypeOK
    BY DEF IInv, Shape
  <1> QED
    BY <1>1, Invariance, PTL

\* The MOVED_TO_BUSINESS_FOLDER event on whose word _skip_duplicate deletes a payload
\* from exchange_in is never recorded for an id that was not delivered.
THEOREM Recorded == Spec => []RecordedIsDelivered
  <1>1. IInv => RecordedIsDelivered
    BY DEF IInv, Flow, Ledger, LedgerOf, Delivered, RecordedIsDelivered
  <1> QED
    BY <1>1, Invariance, PTL

\* However often the transport sends a pair, it is delivered at most once more than
\* steps have failed and the process has crashed.
THEOREM OneDelivery == Spec => []OneDeliveryPerLapse
  <1>1. IInv => OneDeliveryPerLapse
    BY DEF IInv, Shape, TypeOK, Flow, Ledger, LedgerOf, Lapses, OneDeliveryPerLapse
  <1> QED
    BY <1>1, Invariance, PTL

\* No payload is decrypted, decompressed or delivered but after its own hash has been
\* verified and, where inbound signatures are required, the signature of the metadata
\* that was moved in; and the transport, which may still write to a file that was moved,
\* cannot change that.  The alias and the path a worker goes by are those it parsed
\* before: they are the signed ones unless metadata came in between (inbound.py:126,
\* 163, 188).
THEOREM Genuine == Spec => []OnlyGenuineDelivered
  <1>1. Init => Memory
    BY DEF Init, Memory, MemoryOf, Reading, Checking, Decoded
  <1>2. IInv /\ Memory => OnlyGenuineDelivered
    <2> SUFFICES ASSUME IInv, Memory, NEW w \in Worker, pc[w] \in Decoded
                 PROVE  /\ work[pair[w]]["payload"] = "whole"
                        /\ RequireSig => /\ sig[w]
                                         /\ work[pair[w]]["meta"] = "whole"
                                         /\ work[pair[w]]["sig"] = "whole"
                                         /\ parsed[w] = "whole" \/ w \in overtaken
      BY DEF OnlyGenuineDelivered, Decoded
    <2>1. ProgressOf(w) /\ MemoryOf(w)
      BY DEF IInv, Flow, Progress, Memory
    <2> QED
      BY <2>1 DEF ProgressOf, MemoryOf, Decoded
  <1> QED
    BY <1>1, <1>2, Invariance, MemoryNext, PTL DEF Spec

\* A payload that has reached exchange_in under an id that is not the host's own is
\* there, in processing/, in quarantine, or was delivered, whatever fails and whenever
\* the process stops, and whatever becomes of the pairs that are the host's own.
THEOREM OthersAreKept == Spec => []OthersSafe
  <1>1. Init => NotOurs /\ OthersSafe
    BY DEF Init, NotOurs, OthersSafe
  <1>2. IInv /\ NotOurs /\ OthersSafe /\ [Next]_vars => NotOurs' /\ OthersSafe'
    BY NotOursNext, SafeNext
  <1> QED
    BY <1>1, <1>2, Invariance, PTL DEF Spec

\* No payload that has reached exchange_in is lost - provided no id is also one under
\* which the host has published, whose success the reconciler would take for the delivery.
THEOREM NoLoss ==
  ASSUME Own = {}
  PROVE  Spec => []NoPayloadLost
  <1>1. OthersSafe => NoPayloadLost
    BY DEF OthersSafe, NoPayloadLost, Safe
  <1> QED
    BY <1>1, OthersAreKept, PTL

\* While no step has raised by itself and the process has not crashed, an ERROR event is
\* there because a file was read that the transport had not finished, or because a pair
\* is not signed as required: neither another pair, nor a lock, nor the reconciler after
\* the end of the scan loop quarantines anything else.
THEOREM OnlyForCause == Spec => []QuarantinedForCause
  <1>1. Init => CausedUnlessLapse
    BY DEF Init, CausedUnlessLapse, Caused, CauseAt, CauseOf, LeftBehind, LockInUse,
       ErrorCaused, Gathering
  <1>2. CausedUnlessLapse => QuarantinedForCause
    BY DEF CausedUnlessLapse, Lapses, Caused, CauseOf, ErrorCaused, Cause, QuarantinedForCause
  <1> QED
    BY <1>1, <1>2, CausedNext, Invariance, PTL DEF Spec

\* Three files that arrive one by one, are moved, checked, decrypted and delivered are
\* one reception: whatever fails and wherever the process crashes, a payload is taken in
\* unless its delivery is on record, delivered as it was sent and again only after a
\* lapse, dropped only as a duplicate of what is on record, and set aside otherwise
\* (inbound.py:137-151, 250-312; reconciliation.py:75-95).
THEOREM Implementation == Spec => ImplementsReception
  <1>1. Init => Abstract!Init
    BY DEF Init, Abstract!Init, Nothing, Part, Fit
  <1>2. Init => RInv
    BY InitIInv DEF Init, RInv, NotOurs, StillThere, Decoding, Remains, Shown
  <1>3. RInv /\ [Next]_vars => [Abstract!Next]_(Abstract!vars)
    BY Simulation
  <1> QED
    BY <1>1, <1>2, <1>3, RInvNext, PTL DEF Spec, ImplementsReception, Abstract!Spec

=============================================================================
