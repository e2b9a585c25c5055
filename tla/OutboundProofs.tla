--------------------------- MODULE OutboundProofs ---------------------------
(***************************************************************************)
(* Proofs about Outbound, for any number of services, workers, sources and  *)
(* files, and for any bounds.                                               *)
(*                                                                         *)
(* IInv is inductive whatever the locks do and however many services share  *)
(* the runtime: a technical id belongs to one worker, which alone publishes *)
(* under it, and only after it has claimed the marker.  KInv adds what one  *)
(* service alone guarantees: its reconciler never runs beside a pipeline.   *)
(* RInv adds when a file is in processing/ and its success on record, for   *)
(* the refinement of Custody.                                               *)
(***************************************************************************)
EXTENDS Outbound, TLAPS

USE OutboundAssumption DEF OutboundAssumption

\* A worker has a source from the lock on and an id from Begin on.
WorkerOK == \A w \in Worker :
  /\ pc[w] # "idle" => src[w] \in Source
  /\ pc[w] \in {"idle", "begin"} => tid[w] = None
  /\ pc[w] \in Try \cup {"capture", "error"} => tid[w] \in Id
  /\ tid[w] # None => tid[w] < nextId

\* No two workers have the same id.
OneWorkerPerId == \A w, x \in Worker : w # x /\ tid[w] # None => tid[w] # tid[x]

\* An id that has not been given out has left no trace.
Untouched(i) == item[i] = None /\ files[i] = {} /\ out[i] = {}
FreshIds == \A i \in Id : i >= nextId => Untouched(i)

\* A directory with files in it belongs to an item.
TakenIn == \A i \in Id : files[i] # {} => item[i] # None

ReconcilerOK == \A v \in Service : svc[v] \in {"capture", "record", "purge"} => cur[v] \in Id

\* How far the publication of an id has come, by where its worker is.
ProgressOf(w) == LET i == tid[w] IN
  /\ pc[w] = "move" => item[i] = None /\ out[i] = {}
  /\ pc[w] \in Try \ {"move"} => item[i] # None /\ item[i].src = src[w]
  /\ pc[w] \in {"claim", "compress", "build", "payload"} => out[i] = {}
  /\ pc[w] \in {"sig", "meta"} => "payload" \in out[i] /\ "meta" \notin out[i]
  /\ pc[w] = "sig" => Signed(src[w])
  /\ pc[w] = "meta" /\ Signed(src[w]) => "sig" \in out[i]
  /\ pc[w] \in {"record", "finalize", "archived"} => Complete(i)
Progress == \A w \in Worker : ProgressOf(w)

\* Past the claim the marker of the content names the id.
MarkerMineOf(w) ==
  Dedup /\ pc[w] \in Try \ {"move", "claim"} => marker[KeyOf(item[tid[w]])] = tid[w]
MarkerMine == \A w \in Worker : MarkerMineOf(w)

\* Whatever has been published, its id holds the marker.
PublisherMarked == Dedup => \A i \in Id :
  out[i] # {} => item[i] # None /\ marker[KeyOf(item[i])] = i

Shape == TypeOK /\ WorkerOK /\ OneWorkerPerId /\ FreshIds /\ TakenIn /\ ReconcilerOK
Flow  == Progress /\ MarkerMine /\ PublisherMarked /\ CommitMarkerLast /\ AuditedIsPublished
IInv  == Shape /\ Flow

----------------------------------------------------------------------------

LEMMA KeyOfItem ==
  ASSUME NEW x \in Item
  PROVE  KeyOf(x) \in Key
  BY DEF Item, Key, KeyOf

LEMMA InitIInv == Init => IInv
  <1> SUFFICES ASSUME Init PROVE IInv
    OBVIOUS
  <1>1. Shape
    BY DEF Init, Shape, TypeOK, WorkerOK, OneWorkerPerId, FreshIds, Untouched, TakenIn,
       ReconcilerOK, Id, Try, Point, Recovery
  <1>2. Flow
    BY DEF Init, Flow, Progress, ProgressOf, MarkerMine, MarkerMineOf, PublisherMarked,
       CommitMarkerLast,
       AuditedIsPublished, Terminal, Try
  <1> QED
    BY <1>1, <1>2 DEF IInv

LEMMA ShapeTake ==
  ASSUME Shape, NEW w \in Worker, NEW s \in Source, Take(w, s)
  PROVE  Shape'
  <1>0. Home[w] \in Service
    OBVIOUS
  <1>1. TypeOK'
    <2>1. /\ pc' \in [Worker -> Point]
          /\ src' \in [Worker -> Source \cup {None}]
          /\ holder' \in [Source -> Worker \cup {None}]
      <3>1. CASE holder[s] = None
        <4>1. /\ holder' = [holder EXCEPT ![s] = w]
              /\ src' = [src EXCEPT ![w] = s]
              /\ pc' = [pc EXCEPT ![w] = "begin"]
          BY <3>1 DEF Take, Goto
        <4>2. pc' \in [Worker -> Point]
          BY <4>1 DEF Shape, TypeOK, Point
        <4>3. /\ src' \in [Worker -> Source \cup {None}]
              /\ holder' \in [Source -> Worker \cup {None}]
          BY <4>1 DEF Shape, TypeOK
        <4> QED
          BY <4>2, <4>3
      <3>2. CASE holder[s] # None
        BY <3>2 DEF Shape, TypeOK, Take
      <3> QED
        BY <3>1, <3>2
    <2>2. batch' \in [Service -> SUBSET Source]
      BY <1>0 DEF Shape, TypeOK, Take, Remove
    <2> QED
      BY <2>1, <2>2 DEF Shape, TypeOK, Take, disk, bounds
  <1>2. WorkerOK'
    BY DEF Shape, TypeOK, WorkerOK, FreshIds, Take, Goto, Remove, disk, bounds, Point, Try
  <1>3. OneWorkerPerId'
    BY DEF Shape, TypeOK, WorkerOK, OneWorkerPerId, Take, Goto, Remove, disk, bounds, Point, Try
  <1>4. FreshIds'
    BY DEF Shape, TypeOK, WorkerOK, FreshIds, Untouched, Take, Goto, Remove, disk, bounds,
       Point, Try
  <1>5. TakenIn'
    BY DEF Shape, TypeOK, WorkerOK, TakenIn, Take, Goto, Remove, disk, bounds, Point, Try
  <1>6. ReconcilerOK'
    BY DEF Shape, TypeOK, WorkerOK, ReconcilerOK, Take, Goto, Remove, disk, bounds, Point, Try
  <1> QED
    BY <1>1, <1>2, <1>3, <1>4, <1>5, <1>6 DEF Shape

LEMMA ShapeBegin ==
  ASSUME Shape, NEW w \in Worker, Begin(w)
  PROVE  Shape'
  <1>1. TypeOK'
    BY DEF Shape, TypeOK, WorkerOK, Begin, Goto, Add, service, bounds, Point, Try, Id, Event
  <1>2. WorkerOK'
    BY DEF Shape, TypeOK, WorkerOK, FreshIds, Begin, Goto, Add, service, bounds, Point, Try,
       Id, Event
  <1>3. OneWorkerPerId'
    BY DEF Shape, TypeOK, WorkerOK, OneWorkerPerId, Begin, Goto, Add, service, bounds, Point,
       Try, Id, Event
  <1>4. FreshIds'
    BY DEF Shape, TypeOK, WorkerOK, FreshIds, Untouched, Begin, Goto, Add, service, bounds,
       Point, Try, Id, Event
  <1>5. TakenIn'
    BY DEF Shape, TypeOK, WorkerOK, TakenIn, Begin, Goto, Add, service, bounds, Point, Try,
       Id, Event
  <1>6. ReconcilerOK'
    BY DEF Shape, TypeOK, WorkerOK, ReconcilerOK, Begin, Goto, Add, service, bounds, Point,
       Try, Id, Event
  <1> QED
    BY <1>1, <1>2, <1>3, <1>4, <1>5, <1>6 DEF Shape

LEMMA ShapeMoveIn ==
  ASSUME Shape, NEW w \in Worker, MoveIn(w)
  PROVE  Shape'
  <1>0. /\ tid[w] \in Id
        /\ tid[w] # None
        /\ tid[w] < nextId
        /\ src[w] \in Source
    BY DEF Shape, WorkerOK, MoveIn, Try
  <1>1. TypeOK'
    <2>1. [src |-> src[w], content |-> business[src[w]]] \in Item
      BY <1>0 DEF Shape, TypeOK, MoveIn, Item
    <2>2. /\ business' \in [Source -> Content \cup {None}]
          /\ item' \in [Id -> Item \cup {None}]
          /\ files' \in [Id -> SUBSET {"clear", "compressed", "payload"}]
          /\ dirs' \subseteq Id
      BY <1>0, <2>1 DEF Shape, TypeOK, MoveIn, Add
    <2>3. pc' \in [Worker -> Point]
      BY DEF Shape, TypeOK, MoveIn, Goto, Point, Try
    <2> QED
      BY <2>2, <2>3 DEF Shape, TypeOK, MoveIn, aside, service, bounds
  <1>2. WorkerOK'
    BY DEF Shape, TypeOK, WorkerOK, FreshIds, MoveIn, Goto, Add, aside, service, bounds,
       Point, Try, Id, Item
  <1>3. OneWorkerPerId'
    BY DEF Shape, TypeOK, WorkerOK, OneWorkerPerId, MoveIn, Goto, Add, aside, service,
       bounds, Point, Try, Id, Item
  <1>4. FreshIds'
    <2>1. \A i \in Id : i >= nextId => i # tid[w]
      BY <1>0 DEF Id, Shape, TypeOK
    <2> QED
      BY <2>1 DEF Shape, TypeOK, FreshIds, Untouched, MoveIn, Add, aside
  <1>5. TakenIn'
    BY DEF Shape, TypeOK, WorkerOK, TakenIn, MoveIn, Goto, Add, aside, service, bounds,
       Point, Try, Id, Item
  <1>6. ReconcilerOK'
    BY DEF Shape, TypeOK, WorkerOK, ReconcilerOK, MoveIn, Goto, Add, aside, service, bounds,
       Point, Try, Id, Item
  <1> QED
    BY <1>1, <1>2, <1>3, <1>4, <1>5, <1>6 DEF Shape

\* A step of a pipeline under its own id keeps the shape if it keeps the types.
LEMMA ShapeOwn ==
  ASSUME Shape, NEW w \in Worker, tid[w] \in Id, TypeOK',
         UNCHANGED <<src, tid, service, nextId, item>>,
         pc[w] # "idle", pc'[w] \notin {"idle", "begin"},
         \A x \in Worker \ {w} : pc'[x] = pc[x],
         \A i \in Id : i # tid[w] => files'[i] = files[i] /\ out'[i] = out[i],
         item[tid[w]] # None \/ files'[tid[w]] = {}
  PROVE  Shape'
  <1>1. WorkerOK'
    BY DEF Shape, WorkerOK, Try
  <1>2. OneWorkerPerId'
    BY DEF Shape, OneWorkerPerId
  <1>3. FreshIds'
    <2>1. tid[w] < nextId
      BY DEF Shape, WorkerOK
    <2>2. \A i \in Id : i >= nextId => i # tid[w]
      BY <2>1 DEF Id, Shape, TypeOK
    <2> QED
      BY <2>2 DEF Shape, FreshIds, Untouched
  <1>4. TakenIn'
    BY DEF Shape, TakenIn
  <1>5. ReconcilerOK'
    BY DEF Shape, ReconcilerOK, service
  <1> QED
    BY <1>1, <1>2, <1>3, <1>4, <1>5 DEF Shape

LEMMA ShapeClaim ==
  ASSUME Shape, NEW w \in Worker, Claim(w)
  PROVE  Shape'
  <1>1. /\ tid[w] \in Id
        /\ pc[w] = "claim"
        /\ item[tid[w]] # None
        /\ UNCHANGED <<files, out, item, src, tid, service, nextId>>
    BY DEF Claim, Ready, Needs, aside, Shape, WorkerOK, TakenIn, Try
  <1>2. marker' \in [Key -> Id \cup {None}]
    <2>1. KeyOf(item[tid[w]]) \in Key
      BY <1>1, KeyOfItem DEF Shape, TypeOK
    <2>2. \/ marker' = marker
          \/ marker' = [marker EXCEPT ![KeyOf(item[tid[w]])] = tid[w]]
      BY DEF Claim
    <2> QED
      BY <1>1, <2>1, <2>2 DEF Shape, TypeOK
  <1>3. skipped' \subseteq Id
    BY <1>1 DEF Claim, Shape, TypeOK
  <1>4. /\ pc' \in [Worker -> Point]
        /\ pc'[w] \in {"leave", "compress", "build"}
        /\ \A x \in Worker \ {w} : pc'[x] = pc[x]
    <2>1. \E l \in {"leave", "compress", "build"} : pc' = [pc EXCEPT ![w] = l]
      BY DEF Claim, AfterClaim, Goto
    <2>2. pc \in [Worker -> Point] /\ {"leave", "compress", "build"} \subseteq Point
      BY DEF Shape, TypeOK, Point, Try
    <2> QED
      BY <2>1, <2>2
  <1>5. TypeOK'
    BY <1>1, <1>2, <1>3, <1>4 DEF Claim, Shape, TypeOK, aside, service, bounds
  <1> QED
    BY <1>1, <1>4, <1>5, ShapeOwn

LEMMA ShapePrepare ==
  ASSUME Shape, NEW w \in Worker, Compress(w) \/ Build(w)
  PROVE  Shape'
  <1>1. /\ tid[w] \in Id
        /\ pc[w] \in {"compress", "build"}
        /\ item[tid[w]] # None
        /\ UNCHANGED <<out, item, src, tid, service, nextId>>
    BY DEF Compress, Build, Ready, Needs, aside, Shape, WorkerOK, TakenIn, Try
  <1>2. /\ files' \in [Id -> SUBSET {"clear", "compressed", "payload"}]
        /\ \A i \in Id : i # tid[w] => files'[i] = files[i]
    BY <1>1 DEF Compress, Build, Add, Shape, TypeOK
  <1>3. /\ pc' \in [Worker -> Point]
        /\ pc'[w] \in {"build", "payload"}
        /\ \A x \in Worker \ {w} : pc'[x] = pc[x]
    BY DEF Compress, Build, Goto, Shape, TypeOK, Point, Try
  <1>4. TypeOK'
    BY <1>2, <1>3 DEF Compress, Build, Shape, TypeOK, aside, service, bounds
  <1> QED
    BY <1>1, <1>2, <1>3, <1>4, ShapeOwn

LEMMA ShapePublish ==
  ASSUME Shape, NEW w \in Worker, PublishPayload(w) \/ PublishSig(w) \/ PublishMeta(w)
  PROVE  Shape'
  <1>1. /\ tid[w] \in Id
        /\ pc[w] \in {"payload", "sig", "meta"}
        /\ UNCHANGED <<item, src, tid, service, nextId>>
    BY DEF PublishPayload, PublishSig, PublishMeta, Ready, aside, Shape, WorkerOK, Try
  <1>2. /\ files' \in [Id -> SUBSET {"clear", "compressed", "payload"}]
        /\ out' \in [Id -> SUBSET {"payload", "sig", "meta"}]
        /\ \A i \in Id : i # tid[w] => files'[i] = files[i] /\ out'[i] = out[i]
        /\ files'[tid[w]] \subseteq files[tid[w]]
    <2>1. /\ files \in [Id -> SUBSET {"clear", "compressed", "payload"}]
          /\ out \in [Id -> SUBSET {"payload", "sig", "meta"}]
      BY DEF Shape, TypeOK
    <2>2. \/ UNCHANGED files
          \/ files' = [files EXCEPT ![tid[w]] = files[tid[w]] \ {"payload"}]
      BY DEF PublishPayload, PublishSig, PublishMeta, Remove
    <2>3. \E x \in {"payload", "sig", "meta"} : out' = [out EXCEPT ![tid[w]] = out[tid[w]] \cup {x}]
      BY DEF PublishPayload, PublishSig, PublishMeta, Add
    <2> QED
      BY <1>1, <2>1, <2>2, <2>3
  <1>3. /\ pc' \in [Worker -> Point]
        /\ pc'[w] \in {"sig", "meta", "record"}
        /\ \A x \in Worker \ {w} : pc'[x] = pc[x]
    BY DEF PublishPayload, PublishSig, PublishMeta, Goto, Shape, TypeOK, Point, Try
  <1>4. TypeOK'
    BY <1>2, <1>3 DEF PublishPayload, PublishSig, PublishMeta, Shape, TypeOK, aside, service,
       bounds
  <1>5. item[tid[w]] # None \/ files'[tid[w]] = {}
    BY <1>1, <1>2 DEF Shape, TakenIn
  <1> QED
    BY <1>1, <1>2, <1>3, <1>4, <1>5, ShapeOwn

LEMMA ShapeRecordPublished ==
  ASSUME Shape, NEW w \in Worker, RecordPublished(w)
  PROVE  Shape'
  BY DEF Shape, TypeOK, WorkerOK, OneWorkerPerId, FreshIds, Untouched, TakenIn,
     ReconcilerOK,
     RecordPublished, Goto, Add, aside, service, bounds, Point, Try, Event, Terminal

LEMMA ShapeFinalize ==
  ASSUME Shape, NEW w \in Worker, Finalize(w)
  PROVE  Shape'
  <1>1. /\ tid[w] \in Id
        /\ pc[w] = "finalize"
        /\ UNCHANGED <<item, out, src, tid, service, nextId>>
    BY DEF Finalize, Ready, aside, Shape, WorkerOK, Try
  <1>2. /\ files' \in [Id -> SUBSET {"clear", "compressed", "payload"}]
        /\ \A i \in Id : i # tid[w] => files'[i] = files[i]
        /\ files'[tid[w]] \subseteq files[tid[w]]
    BY <1>1 DEF Finalize, Remove, Shape, TypeOK
  <1>3. /\ pc' \in [Worker -> Point]
        /\ pc'[w] \in {"archived", "leave"}
        /\ \A x \in Worker \ {w} : pc'[x] = pc[x]
    BY DEF Finalize, Goto, Shape, TypeOK, Point, Try
  <1>4. archive' \subseteq Id /\ dirs' \subseteq Id
    BY <1>1 DEF Finalize, Cleanup, Shape, TypeOK
  <1>5. TypeOK'
    BY <1>2, <1>3, <1>4 DEF Finalize, Shape, TypeOK, aside, service, bounds
  <1>6. item[tid[w]] # None \/ files'[tid[w]] = {}
    BY <1>1, <1>2 DEF Shape, TakenIn
  <1> QED
    BY <1>1, <1>2, <1>3, <1>5, <1>6, ShapeOwn

LEMMA ShapeRecordArchived ==
  ASSUME Shape, NEW w \in Worker, RecordArchived(w)
  PROVE  Shape'
  BY DEF Shape, TypeOK, WorkerOK, OneWorkerPerId, FreshIds, Untouched, TakenIn,
     ReconcilerOK,
     RecordArchived, Cleanup, Goto, Add, aside, service, bounds, Point, Try, Event, Terminal

LEMMA ShapeInputGone ==
  ASSUME Shape, NEW w \in Worker, InputGone(w)
  PROVE  Shape'
  BY DEF Shape, TypeOK, WorkerOK, OneWorkerPerId, FreshIds, Untouched, TakenIn,
     ReconcilerOK,
     InputGone, Goto, disk, aside, service, bounds, Point, Try

LEMMA ShapeFault ==
  ASSUME Shape, NEW w \in Worker, Fault(w)
  PROVE  Shape'
  BY DEF Shape, TypeOK, WorkerOK, OneWorkerPerId, FreshIds, Untouched, TakenIn,
     ReconcilerOK,
     Fault, Goto, disk, service, Point, Try

LEMMA ShapeCapture ==
  ASSUME Shape, NEW w \in Worker, Capture(w)
  PROVE  Shape'
  <1>1. /\ tid[w] \in Id /\ src[w] \in Source
        /\ pc[w] = "capture"
        /\ UNCHANGED <<item, out, src, tid, service, nextId>>
    BY DEF Capture, aside, Shape, WorkerOK
  <1>2. /\ files' \in [Id -> SUBSET {"clear", "compressed", "payload"}]
        /\ \A i \in Id : i # tid[w] => files'[i] = files[i]
        /\ files'[tid[w]] \subseteq files[tid[w]]
    BY <1>1 DEF Capture, Remove, Shape, TypeOK
  <1>3. /\ pc' \in [Worker -> Point]
        /\ pc'[w] = "error"
        /\ \A x \in Worker \ {w} : pc'[x] = pc[x]
    BY DEF Capture, Goto, Shape, TypeOK, Point
  <1>4. Captured(tid[w], src[w]) \subseteq Item
    <2>1. "clear" \in files[tid[w]] => item[tid[w]] \in Item
      BY <1>1 DEF Shape, TypeOK, TakenIn
    <2>2. business[src[w]] # None => [src |-> src[w], content |-> business[src[w]]] \in Item
      BY <1>1 DEF Shape, TypeOK, Item
    <2> QED
      BY <2>1, <2>2 DEF Captured
  <1>5. error' \in [Id -> SUBSET Item] /\ business' \in [Source -> Content \cup {None}]
    BY <1>1, <1>4 DEF Capture, Add, Shape, TypeOK
  <1>6. TypeOK'
    BY <1>2, <1>3, <1>5 DEF Capture, Shape, TypeOK, aside, service, bounds
  <1>7. item[tid[w]] # None \/ files'[tid[w]] = {}
    BY <1>1, <1>2 DEF Shape, TakenIn
  <1> QED
    BY <1>1, <1>2, <1>3, <1>6, <1>7, ShapeOwn

LEMMA ShapeRecordError ==
  ASSUME Shape, NEW w \in Worker, RecordError(w)
  PROVE  Shape'
  BY DEF Shape, TypeOK, WorkerOK, OneWorkerPerId, FreshIds, Untouched, TakenIn,
     ReconcilerOK,
     RecordError, Cleanup, Goto, Add, aside, service, bounds, Point, Try, Event, Terminal

LEMMA ShapeGiveUp ==
  ASSUME Shape, NEW w \in Worker, GiveUp(w)
  PROVE  Shape'
  BY DEF Shape, TypeOK, WorkerOK, OneWorkerPerId, FreshIds, Untouched, TakenIn,
     ReconcilerOK,
     GiveUp, Goto, disk, service, Point, Try

LEMMA ShapeRaise ==
  ASSUME Shape, NEW w \in Worker, Raise(w)
  PROVE  Shape'
  BY DEF Shape, TypeOK, WorkerOK, OneWorkerPerId, FreshIds, Untouched, TakenIn,
     ReconcilerOK,
     Raise, Goto, disk, Point, Try

LEMMA ShapeLeave ==
  ASSUME Shape, NEW w \in Worker, Leave(w)
  PROVE  Shape'
  BY DEF Shape, TypeOK, WorkerOK, OneWorkerPerId, FreshIds, Untouched, TakenIn,
     ReconcilerOK,
     Leave, Goto, disk, service, bounds, Point, Try

LEMMA ShapeProduce ==
  ASSUME Shape, NEW s \in Source, NEW c \in Content, Produce(s, c)
  PROVE  Shape'
  BY DEF Shape, TypeOK, WorkerOK, OneWorkerPerId, FreshIds, Untouched, TakenIn,
     ReconcilerOK,
     Produce, Item, workers, service

LEMMA ShapeLocks ==
  ASSUME Shape, NEW s \in Source, ReclaimDead(s) \/ RevokeLive(s)
  PROVE  Shape'
  BY DEF Shape, TypeOK, WorkerOK, OneWorkerPerId, FreshIds, Untouched, TakenIn,
     ReconcilerOK,
     ReclaimDead, RevokeLive, disk, workers, service, bounds

LEMMA ShapeJudge ==
  ASSUME Shape, NEW v \in Service, NEW i \in Id,
         JudgePublished(v, i) \/ JudgeInterrupted(v, i) \/ JudgeVanished(v, i)
  PROVE  Shape'
  <1>1. CASE JudgePublished(v, i)
    BY <1>1 DEF Shape, TypeOK, WorkerOK, OneWorkerPerId, FreshIds, Untouched, TakenIn,
       ReconcilerOK,
       JudgePublished, disk, idling, workers, bounds, Recovery
  <1>2. CASE JudgeInterrupted(v, i)
    BY <1>2 DEF Shape, TypeOK, WorkerOK, OneWorkerPerId, FreshIds, Untouched, TakenIn,
       ReconcilerOK,
       JudgeInterrupted, disk, idling, workers, bounds, Recovery
  <1>3. CASE JudgeVanished(v, i)
    BY <1>3 DEF Shape, TypeOK, WorkerOK, OneWorkerPerId, FreshIds, Untouched, TakenIn,
       ReconcilerOK,
       JudgeVanished, disk, idling, workers, bounds, Recovery
  <1> QED
    BY <1>1, <1>2, <1>3

LEMMA ShapeRecover ==
  ASSUME Shape, NEW v \in Service, RecoverCapture(v) \/ RecoverRecord(v) \/ Purge(v)
  PROVE  Shape'
  <1>1. CASE RecoverCapture(v)
    BY <1>1 DEF Shape, TypeOK, WorkerOK, OneWorkerPerId, FreshIds, Untouched, TakenIn,
       ReconcilerOK,
       RecoverCapture, Add, Remove, idling, workers, bounds, Recovery
  <1>2. CASE RecoverRecord(v)
    BY <1>2 DEF Shape, TypeOK, WorkerOK, OneWorkerPerId, FreshIds, Untouched, TakenIn,
       ReconcilerOK,
       RecoverRecord, Add, idling, workers, bounds, Recovery, Event
  <1>3. CASE Purge(v)
    BY <1>3 DEF Shape, TypeOK, WorkerOK, OneWorkerPerId, FreshIds, Untouched, TakenIn,
       ReconcilerOK,
       Purge, Remove, idling, workers, bounds, Recovery
  <1> QED
    BY <1>1, <1>2, <1>3

LEMMA ShapeLoop ==
  ASSUME Shape, NEW v \in Service, Boot(v) \/ Reconciled(v) \/ Scan(v) \/ EndPass(v) \/ Fail(v)
  PROVE  Shape'
  <1>1. CASE Boot(v)
    BY <1>1 DEF Shape, TypeOK, WorkerOK, OneWorkerPerId, FreshIds, Untouched, TakenIn,
       ReconcilerOK,
       Boot, disk, idling, workers, bounds, Recovery
  <1>2. CASE Reconciled(v)
    BY <1>2 DEF Shape, TypeOK, WorkerOK, OneWorkerPerId, FreshIds, Untouched, TakenIn,
       ReconcilerOK,
       Reconciled, disk, idling, workers, bounds, Recovery
  <1>3. CASE Scan(v)
    BY <1>3 DEF Shape, TypeOK, WorkerOK, OneWorkerPerId, FreshIds, Untouched, TakenIn,
       ReconcilerOK,
       Scan, disk, idling, workers, bounds, Recovery
  <1>4. CASE EndPass(v)
    BY <1>4 DEF Shape, TypeOK, WorkerOK, OneWorkerPerId, FreshIds, Untouched, TakenIn,
       ReconcilerOK,
       EndPass, disk, idling, workers, bounds, Recovery
  <1>5. CASE Fail(v)
    BY <1>5 DEF Shape, TypeOK, WorkerOK, OneWorkerPerId, FreshIds, Untouched, TakenIn,
       ReconcilerOK,
       Fail, disk, idling, workers, bounds, Recovery
  <1> QED
    BY <1>1, <1>2, <1>3, <1>4, <1>5

LEMMA ShapeCrash ==
  ASSUME Shape, NEW v \in Service, Crash(v)
  PROVE  Shape'
  <1>1. TypeOK'
    BY DEF Shape, TypeOK, Crash, disk, Point
  <1>2. \A w \in Worker : \/ pc'[w] = "idle" /\ tid'[w] = None
                          \/ pc'[w] = pc[w] /\ src'[w] = src[w] /\ tid'[w] = tid[w]
    BY DEF Crash
  <1>3. UNCHANGED <<nextId, item, files, out>>
    BY DEF Crash, disk
  <1>4. WorkerOK'
    BY <1>2, <1>3 DEF Shape, WorkerOK, Try
  <1>5. OneWorkerPerId'
    BY <1>2 DEF Shape, OneWorkerPerId
  <1>6. FreshIds' /\ TakenIn'
    BY <1>3 DEF Shape, FreshIds, TakenIn, Untouched
  <1>7. ReconcilerOK'
    BY DEF Shape, TypeOK, ReconcilerOK, Crash
  <1> QED
    BY <1>1, <1>4, <1>5, <1>6, <1>7 DEF Shape

LEMMA ShapeNext ==
  ASSUME Shape, [Next]_vars
  PROVE  Shape'
  <1>1. CASE UNCHANGED vars
    BY <1>1 DEF Shape, TypeOK, WorkerOK, OneWorkerPerId, FreshIds, Untouched, TakenIn,
       ReconcilerOK, vars, disk, workers, service, bounds
  <1>2. CASE \E s \in Source : \/ \E c \in Content : Produce(s, c)
                              \/ ReclaimDead(s) \/ RevokeLive(s)
    BY <1>2, ShapeProduce, ShapeLocks
  <1>3. CASE \E w \in Worker : \E s \in Source : Take(w, s)
    BY <1>3, ShapeTake
  <1>4. ASSUME NEW w \in Worker, Step(w)
        PROVE  Shape'
    BY <1>4, ShapeBegin, ShapeMoveIn, ShapeClaim, ShapePrepare, ShapePublish,
       ShapeRecordPublished, ShapeFinalize, ShapeRecordArchived, ShapeInputGone,
       ShapeCapture, ShapeRecordError, ShapeLeave DEF Step
  <1>5. CASE \E w \in Worker : Fault(w) \/ GiveUp(w) \/ Raise(w)
    BY <1>5, ShapeFault, ShapeGiveUp, ShapeRaise
  <1>6. ASSUME NEW v \in Service, Run(v)
        PROVE  Shape'
    BY <1>6, ShapeJudge, ShapeRecover, ShapeLoop DEF Run, Reconcile
  <1>7. CASE \E v \in Service : Crash(v)
    BY <1>7, ShapeCrash
  <1> QED
    BY <1>1, <1>2, <1>3, <1>4, <1>5, <1>6, <1>7 DEF Next

----------------------------------------------------------------------------
(* Publication *)

\* A step that touches neither items, exchange_out, markers nor workers.
LEMMA FlowElsewhere ==
  ASSUME Flow, UNCHANGED <<item, out, marker, workers>>,
         \A i \in Id : audit'[i] \cap Terminal = audit[i] \cap Terminal
  PROVE  Flow'
  <1>1. Progress'
    BY DEF Flow, Progress, ProgressOf, Complete, workers
  <1>2. MarkerMine' /\ PublisherMarked'
    BY DEF Flow, MarkerMine, MarkerMineOf, PublisherMarked, workers
  <1>3. CommitMarkerLast' /\ AuditedIsPublished'
    BY DEF Flow, CommitMarkerLast, AuditedIsPublished, Complete
  <1> QED
    BY <1>1, <1>2, <1>3 DEF Flow

\* What the step of one worker is to the others: it works under its own id only,
\* and overwrites no marker.
Apart(w) ==
  /\ \A x \in Worker \ {w} : pc'[x] = pc[x] /\ src'[x] = src[x] /\ tid'[x] = tid[x]
  /\ \A i \in Id : i # tid[w] => item'[i] = item[i] /\ out'[i] = out[i]
  /\ \A k \in Key : marker[k] # None => marker'[k] = marker[k]

\* The step of one worker, then, has to be looked at for this worker and its id.
LEMMA FlowOwn ==
  ASSUME Shape, Flow, NEW w \in Worker, Apart(w),
         ProgressOf(w)', MarkerMineOf(w)',
         Dedup => \A i \in Id : out'[i] # {} /\ i = tid[w] =>
                    item'[i] # None /\ marker'[KeyOf(item[i])'] = i,
         \A i \in Id : i = tid[w] /\ "meta" \in out'[i] => Complete(i)',
         \A i \in Id : audit'[i] \cap Terminal # {} => Complete(i)'
  PROVE  Flow'
  <1>1. ASSUME NEW x \in Worker, x # w
        PROVE  ProgressOf(x)' /\ MarkerMineOf(x)'
    <2>1. pc'[x] = pc[x] /\ src'[x] = src[x] /\ tid'[x] = tid[x]
      BY <1>1 DEF Apart
    <2>2. CASE pc[x] \in Try
      <3>1. tid[x] \in Id /\ tid[x] # tid[w]
        BY <1>1, <2>2 DEF Shape, WorkerOK, OneWorkerPerId
      <3>2. item'[tid[x]] = item[tid[x]] /\ out'[tid[x]] = out[tid[x]]
        BY <3>1 DEF Apart
      <3>3. ProgressOf(x)'
        BY <2>1, <3>2 DEF Flow, Progress, ProgressOf, Complete, Signed, Parts
      <3>4. MarkerMineOf(x)'
        <4>1. CASE Dedup /\ pc[x] \notin {"move", "claim"}
          <5>1. /\ item[tid[x]] \in Item
                /\ marker[KeyOf(item[tid[x]])] = tid[x]
            BY <2>2, <3>1, <4>1 DEF Flow, Progress, ProgressOf, MarkerMine, MarkerMineOf,
               Shape, TypeOK
          <5>2. marker'[KeyOf(item[tid[x]])] = tid[x]
            BY <5>1, <3>1, KeyOfItem DEF Apart
          <5> QED
            BY <2>1, <3>2, <5>2 DEF MarkerMineOf, KeyOf
        <4>2. CASE ~Dedup \/ pc[x] \in {"move", "claim"}
          BY <2>1, <4>2 DEF MarkerMineOf
        <4> QED
          BY <4>1, <4>2
      <3> QED
        BY <3>3, <3>4
    <2>3. CASE pc[x] \notin Try
      BY <2>1, <2>3 DEF ProgressOf, MarkerMineOf, Try
    <2> QED
      BY <2>2, <2>3
  <1>2. Progress' /\ MarkerMine'
    BY <1>1 DEF Progress, MarkerMine
  <1>3. PublisherMarked'
    <2> SUFFICES ASSUME Dedup, NEW i \in Id, out'[i] # {}
                 PROVE  item'[i] # None /\ marker'[KeyOf(item[i])'] = i
      BY DEF PublisherMarked, KeyOf
    <2>1. CASE i = tid[w]
      BY <2>1
    <2>2. CASE i # tid[w]
      <3>1. item'[i] = item[i] /\ out'[i] = out[i]
        BY <2>2 DEF Apart
      <3>2. item[i] \in Item /\ marker[KeyOf(item[i])] = i
        BY <3>1 DEF Flow, PublisherMarked, Shape, TypeOK
      <3>3. marker'[KeyOf(item[i])] = i
        BY <3>2, KeyOfItem DEF Apart
      <3> QED
        BY <3>1, <3>2, <3>3 DEF KeyOf
    <2> QED
      BY <2>1, <2>2
  <1>4. CommitMarkerLast'
    BY DEF Flow, CommitMarkerLast, Complete, Apart
  <1>5. AuditedIsPublished'
    BY DEF AuditedIsPublished
  <1> QED
    BY <1>2, <1>3, <1>4, <1>5 DEF Flow

\* A worker that leaves the pipeline, or is not in it.
LEMMA FlowLeaving ==
  ASSUME Shape, Flow, NEW w \in Worker, UNCHANGED <<item, out, marker>>,
         \A x \in Worker \ {w} : pc'[x] = pc[x] /\ src'[x] = src[x] /\ tid'[x] = tid[x],
         pc'[w] \notin Try,
         \A i \in Id : audit'[i] \cap Terminal # {} => Complete(i)
  PROVE  Flow'
  <1>1. Apart(w)
    BY DEF Apart
  <1>2. ProgressOf(w)' /\ MarkerMineOf(w)'
    BY DEF ProgressOf, MarkerMineOf, Try
  <1>3. Dedup => \A i \in Id : out'[i] # {} /\ i = tid[w] =>
                    item'[i] # None /\ marker'[KeyOf(item[i])'] = i
    BY DEF Flow, PublisherMarked, KeyOf
  <1>4. \A i \in Id : i = tid[w] /\ "meta" \in out'[i] => Complete(i)'
    BY DEF Flow, CommitMarkerLast, Complete
  <1>5. \A i \in Id : audit'[i] \cap Terminal # {} => Complete(i)'
    BY DEF Complete
  <1> QED
    BY <1>1, <1>2, <1>3, <1>4, <1>5, FlowOwn

LEMMA FlowExits ==
  ASSUME Shape, Flow, NEW w \in Worker,
         \/ \E s \in Source : Take(w, s)
         \/ InputGone(w) \/ Fault(w) \/ GiveUp(w) \/ Raise(w) \/ Capture(w) \/ RecordError(w)
         \/ RecordArchived(w) \/ Leave(w)
  PROVE  Flow'
  <1>1. /\ UNCHANGED <<item, out, marker>>
        /\ pc'[w] \notin Try
        /\ \A x \in Worker \ {w} : pc'[x] = pc[x] /\ src'[x] = src[x] /\ tid'[x] = tid[x]
    <2>1. CASE \E s \in Source : Take(w, s)
      BY <2>1 DEF Shape, TypeOK, Take, Goto, disk, Try
    <2>2. CASE InputGone(w) \/ Fault(w) \/ GiveUp(w) \/ Raise(w)
      BY <2>2 DEF Shape, TypeOK, InputGone, Fault, GiveUp, Raise, Goto, disk, aside, Try
    <2>3. CASE Capture(w) \/ RecordError(w) \/ RecordArchived(w)
      BY <2>3 DEF Shape, TypeOK, Capture, RecordError, RecordArchived, Goto, aside, Try
    <2>4. CASE Leave(w)
      BY <2>4 DEF Shape, TypeOK, Leave, Goto, disk, Try
    <2> QED
      BY <2>1, <2>2, <2>3, <2>4
  <1>2. \A i \in Id : audit'[i] \cap Terminal # {} => Complete(i)
    <2>1. CASE UNCHANGED audit
      BY <2>1 DEF Flow, AuditedIsPublished
    <2>2. CASE RecordError(w)
      BY <2>2 DEF Flow, AuditedIsPublished, Shape, TypeOK, RecordError, Add, Terminal
    <2>3. CASE RecordArchived(w)
      <3>1. Complete(tid[w])
        BY <2>3 DEF RecordArchived, Flow, Progress, ProgressOf
      <3>2. \A i \in Id : i # tid[w] => audit'[i] = audit[i]
        BY <2>3 DEF Shape, TypeOK, RecordArchived, Add
      <3> QED
        BY <3>1, <3>2 DEF Flow, AuditedIsPublished
    <2> QED
      BY <2>1, <2>2, <2>3 DEF Take, InputGone, Fault, GiveUp, Raise, Capture, Leave, disk
  <1> QED
    BY <1>1, <1>2, FlowLeaving

LEMMA FlowBegin ==
  ASSUME Shape, Flow, NEW w \in Worker, Begin(w)
  PROVE  Flow'
  <1>1. nextId \in Id /\ tid[w] = None
    BY DEF Begin, Shape, TypeOK, WorkerOK, Id
  <1>2. tid'[w] = nextId /\ pc'[w] = "move"
    BY DEF Begin, Goto, Shape, TypeOK
  <1>3. item[nextId] = None /\ out[nextId] = {}
    BY <1>1 DEF Shape, TypeOK, FreshIds, Untouched
  <1>4. Apart(w)
    BY DEF Apart, Begin, Goto, Shape, TypeOK
  <1>5. ProgressOf(w)' /\ MarkerMineOf(w)'
    BY <1>2, <1>3 DEF ProgressOf, MarkerMineOf, Begin, Try
  <1>6. \A i \in Id : audit'[i] \cap Terminal = audit[i] \cap Terminal
    BY DEF Shape, TypeOK, Begin, Add, Terminal
  <1>7. \A i \in Id : audit'[i] \cap Terminal # {} => Complete(i)'
    BY <1>6 DEF Flow, AuditedIsPublished, Complete, Begin
  <1> QED
    BY <1>1, <1>4, <1>5, <1>7, FlowOwn

LEMMA FlowMoveIn ==
  ASSUME Shape, Flow, NEW w \in Worker, MoveIn(w)
  PROVE  Flow'
  <1>1. tid[w] \in Id /\ src[w] \in Source
    BY DEF MoveIn, Shape, WorkerOK, Try
  <1>2. item[tid[w]] = None /\ out[tid[w]] = {}
    BY DEF MoveIn, Flow, Progress, ProgressOf
  <1>3. /\ pc'[w] = "claim"
        /\ item'[tid[w]] = [src |-> src[w], content |-> business[src[w]]]
        /\ \A i \in Id : i # tid[w] => item'[i] = item[i]
        /\ UNCHANGED <<out, audit, marker, tid, src>>
    BY <1>1 DEF MoveIn, Goto, Shape, TypeOK, aside
  <1>4. [src |-> src[w], content |-> business[src[w]]] \in Item
    BY <1>1 DEF MoveIn, Shape, TypeOK, Item
  <1>5. Apart(w)
    BY <1>3 DEF Apart, MoveIn, Goto, Shape, TypeOK
  <1>6. ProgressOf(w)' /\ MarkerMineOf(w)'
    BY <1>2, <1>3, <1>4 DEF ProgressOf, MarkerMineOf
  <1>7. \A i \in Id : audit'[i] \cap Terminal # {} => Complete(i)'
    BY <1>2, <1>3 DEF Flow, AuditedIsPublished, Complete
  <1> QED
    BY <1>2, <1>3, <1>5, <1>6, <1>7, FlowOwn

LEMMA FlowClaim ==
  ASSUME Shape, Flow, NEW w \in Worker, Claim(w)
  PROVE  Flow'
  <1>1. /\ tid[w] \in Id /\ item[tid[w]] \in Item /\ item[tid[w]].src = src[w]
        /\ out[tid[w]] = {}
    BY DEF Claim, Ready, Shape, TypeOK, WorkerOK, Try, Flow, Progress, ProgressOf
  <1>2. CASE Dedup /\ marker[KeyOf(item[tid[w]])] # None
    <2>1. /\ pc' = [pc EXCEPT ![w] = "leave"]
          /\ UNCHANGED <<item, out, marker, audit, src, tid>>
      BY <1>2 DEF Claim, Goto, aside
    <2>2. pc'[w] \notin Try /\ \A x \in Worker \ {w} : pc'[x] = pc[x]
      BY <2>1 DEF Shape, TypeOK, Try
    <2>3. \A i \in Id : audit'[i] \cap Terminal # {} => Complete(i)
      BY <2>1 DEF Flow, AuditedIsPublished
    <2> QED
      BY <2>1, <2>2, <2>3, FlowLeaving
  <1>3. CASE ~(Dedup /\ marker[KeyOf(item[tid[w]])] # None)
    <2>1. /\ marker' = IF Dedup THEN [marker EXCEPT ![KeyOf(item[tid[w]])] = tid[w]] ELSE marker
          /\ pc' = [pc EXCEPT ![w] = AfterClaim(src[w])]
          /\ UNCHANGED <<item, out, audit, src, tid>>
      BY <1>3 DEF Claim, Goto, aside
    <2>2. pc'[w] \in {"compress", "build"}
      BY <2>1 DEF AfterClaim, Shape, TypeOK
    <2>3. KeyOf(item[tid[w]]) \in Key
      BY <1>1, KeyOfItem
    <2>4. Apart(w)
      BY <1>3, <2>1 DEF Apart, Shape, TypeOK
    <2>5. ProgressOf(w)'
      BY <1>1, <2>1, <2>2 DEF ProgressOf
    <2>6. Dedup => marker'[KeyOf(item[tid[w]])] = tid[w]
      BY <2>1, <2>3 DEF Shape, TypeOK
    <2>7. MarkerMineOf(w)'
      BY <2>1, <2>6 DEF MarkerMineOf, KeyOf
    <2>8. \A i \in Id : audit'[i] \cap Terminal # {} => Complete(i)'
      BY <2>1 DEF Flow, AuditedIsPublished, Complete
    <2> QED
      BY <1>1, <2>1, <2>4, <2>5, <2>7, <2>8, FlowOwn
  <1> QED
    BY <1>2, <1>3

LEMMA FlowPrepare ==
  ASSUME Shape, Flow, NEW w \in Worker, Compress(w) \/ Build(w)
  PROVE  Flow'
  <1>1. /\ pc[w] \in {"compress", "build"}
        /\ pc'[w] \in {"build", "payload"}
        /\ \A x \in Worker \ {w} : pc'[x] = pc[x]
        /\ UNCHANGED <<item, out, audit, marker, src, tid>>
    BY DEF Compress, Build, Ready, Goto, Shape, TypeOK, aside
  <1>2. Apart(w)
    BY <1>1 DEF Apart
  <1>3. ProgressOf(w) /\ MarkerMineOf(w)
    BY DEF Flow, Progress, MarkerMine
  <1>4. ProgressOf(w)' /\ MarkerMineOf(w)'
    BY <1>1, <1>3 DEF ProgressOf, MarkerMineOf, Try, KeyOf
  <1>5. out[tid[w]] = {}
    BY <1>1, <1>3 DEF ProgressOf
  <1>6. \A i \in Id : audit'[i] \cap Terminal # {} => Complete(i)'
    BY <1>1 DEF Flow, AuditedIsPublished, Complete
  <1> QED
    BY <1>1, <1>2, <1>4, <1>5, <1>6, FlowOwn

LEMMA FlowPublish ==
  ASSUME Shape, Flow, NEW w \in Worker,
         PublishPayload(w) \/ PublishSig(w) \/ PublishMeta(w)
  PROVE  Flow'
  <1>1. /\ tid[w] \in Id
        /\ item[tid[w]] \in Item /\ item[tid[w]].src = src[w]
        /\ Dedup => marker[KeyOf(item[tid[w]])] = tid[w]
        /\ pc[w] = "payload" => out[tid[w]] = {}
        /\ pc[w] \in {"sig", "meta"} => "payload" \in out[tid[w]] /\ "meta" \notin out[tid[w]]
        /\ pc[w] = "sig" => Signed(src[w])
        /\ pc[w] = "meta" /\ Signed(src[w]) => "sig" \in out[tid[w]]
    BY DEF PublishPayload, PublishSig, PublishMeta, Ready, Shape, TypeOK, WorkerOK, Try, Flow,
       Progress, ProgressOf, MarkerMine, MarkerMineOf
  <1>2. /\ UNCHANGED <<item, audit, marker, src, tid>>
        /\ \A x \in Worker \ {w} : pc'[x] = pc[x]
        /\ \A i \in Id : i # tid[w] => out'[i] = out[i]
        /\ \/ /\ pc[w] = "payload" /\ out'[tid[w]] = out[tid[w]] \cup {"payload"}
              /\ pc'[w] = IF Signed(src[w]) THEN "sig" ELSE "meta"
           \/ /\ pc[w] = "sig" /\ out'[tid[w]] = out[tid[w]] \cup {"sig"} /\ pc'[w] = "meta"
           \/ /\ pc[w] = "meta" /\ out'[tid[w]] = out[tid[w]] \cup {"meta"} /\ pc'[w] = "record"
    BY <1>1 DEF PublishPayload, PublishSig, PublishMeta, Ready, Goto, Add, Shape, TypeOK, aside
  <1>3. Apart(w)
    BY <1>2 DEF Apart
  <1>4. pc'[w] = "record" => Complete(tid[w])'
    BY <1>1, <1>2 DEF Complete, Parts, Item, Shape, TypeOK
  <1>5. ProgressOf(w)'
    BY <1>1, <1>2, <1>4 DEF ProgressOf, Signed, Complete, Parts, Try
  <1>6. MarkerMineOf(w)'
    BY <1>1, <1>2 DEF MarkerMineOf, KeyOf
  <1>7. Dedup => \A i \in Id : out'[i] # {} /\ i = tid[w] =>
                   item'[i] # None /\ marker'[KeyOf(item[i])'] = i
    BY <1>1, <1>2 DEF KeyOf
  <1>8. \A i \in Id : i = tid[w] /\ "meta" \in out'[i] => Complete(i)'
    BY <1>1, <1>2, <1>4
  <1>9. \A i \in Id : audit'[i] \cap Terminal # {} => Complete(i)'
    <2>1. \A i \in Id : out[i] \subseteq out'[i]
      BY <1>2
    <2> QED
      BY <1>2, <2>1 DEF Flow, AuditedIsPublished, Complete, Parts, Signed
  <1> QED
    BY <1>1, <1>3, <1>5, <1>6, <1>7, <1>8, <1>9, FlowOwn

LEMMA FlowAfter ==
  ASSUME Shape, Flow, NEW w \in Worker, RecordPublished(w) \/ Finalize(w)
  PROVE  Flow'
  <1>1. /\ pc[w] \in {"record", "finalize"}
        /\ UNCHANGED <<item, out, marker, src, tid>>
        /\ pc'[w] \in {"finalize", "archived", "leave"}
        /\ \A x \in Worker \ {w} : pc'[x] = pc[x]
        /\ \A i \in Id : i # tid[w] => audit'[i] = audit[i]
    BY DEF RecordPublished, Finalize, Ready, Goto, Add, Shape, TypeOK, aside
  <1>2. Complete(tid[w]) /\ ProgressOf(w) /\ MarkerMineOf(w)
    BY <1>1 DEF Flow, Progress, MarkerMine, ProgressOf
  <1>3. Apart(w)
    BY <1>1 DEF Apart
  <1>4. ProgressOf(w)' /\ MarkerMineOf(w)'
    BY <1>1, <1>2 DEF ProgressOf, MarkerMineOf, Complete, Try, KeyOf
  <1>5. Dedup => \A i \in Id : out'[i] # {} /\ i = tid[w] =>
                   item'[i] # None /\ marker'[KeyOf(item[i])'] = i
    BY <1>1 DEF Flow, PublisherMarked, KeyOf
  <1>6. \A i \in Id : audit'[i] \cap Terminal # {} => Complete(i)'
    BY <1>1, <1>2 DEF Flow, AuditedIsPublished, Complete
  <1>7. \A i \in Id : i = tid[w] /\ "meta" \in out'[i] => Complete(i)'
    BY <1>1, <1>2 DEF Complete
  <1> QED
    BY <1>3, <1>4, <1>5, <1>6, <1>7, FlowOwn

LEMMA FlowServices ==
  ASSUME Shape, Flow, NEW v \in Service, Run(v) \/ Crash(v)
  PROVE  Flow'
  <1>1. CASE RecoverRecord(v)
    <2>1. cur[v] \in Id
      BY <1>1 DEF RecoverRecord, Shape, ReconcilerOK
    <2>2. \A i \in Id : audit'[i] \cap Terminal = audit[i] \cap Terminal
      BY <1>1, <2>1 DEF RecoverRecord, Shape, TypeOK, Add, Terminal
    <2> QED
      BY <1>1, <2>2, FlowElsewhere DEF RecoverRecord, idling
  <1>2. CASE Run(v) /\ ~RecoverRecord(v)
    <2>1. UNCHANGED <<item, out, marker, workers, audit>>
      BY <1>2 DEF Run, Reconcile, Boot, JudgePublished, JudgeInterrupted, JudgeVanished,
         RecoverCapture, Purge, Reconciled, Scan, EndPass, Fail, disk, idling
    <2> QED
      BY <2>1, FlowElsewhere
  <1>3. CASE Crash(v)
    <2>1. UNCHANGED <<item, out, marker, audit>>
      BY <1>3 DEF Crash, disk
    <2>2. \A w \in Worker : \/ pc'[w] = "idle"
                            \/ pc'[w] = pc[w] /\ src'[w] = src[w] /\ tid'[w] = tid[w]
      BY <1>3 DEF Crash
    <2>3. \A w \in Worker : ProgressOf(w)'
      BY <2>1, <2>2 DEF Flow, Progress, ProgressOf, Complete, Try
    <2>4. \A w \in Worker : MarkerMineOf(w)'
      BY <2>1, <2>2 DEF Flow, MarkerMine, MarkerMineOf, Try, KeyOf
    <2>5. PublisherMarked' /\ CommitMarkerLast' /\ AuditedIsPublished'
      BY <2>1 DEF Flow, PublisherMarked, CommitMarkerLast, AuditedIsPublished, Complete
    <2> QED
      BY <2>3, <2>4, <2>5 DEF Flow, Progress, MarkerMine
  <1> QED
    BY <1>1, <1>2, <1>3

LEMMA FlowNext ==
  ASSUME Shape, Flow, [Next]_vars
  PROVE  Flow'
  <1>1. CASE UNCHANGED vars
    BY <1>1, FlowElsewhere DEF vars, disk
  <1>2. CASE \E s \in Source : \/ \E c \in Content : Produce(s, c)
                              \/ ReclaimDead(s) \/ RevokeLive(s)
    BY <1>2, FlowElsewhere DEF Produce, ReclaimDead, RevokeLive, disk
  <1>3. CASE \E w \in Worker : (\E s \in Source : Take(w, s)) \/ Fault(w) \/ GiveUp(w) \/ Raise(w)
    BY <1>3, FlowExits
  <1>4. ASSUME NEW w \in Worker, Step(w)
        PROVE  Flow'
    BY <1>4, FlowBegin, FlowMoveIn, FlowClaim, FlowPrepare, FlowPublish, FlowAfter,
       FlowExits DEF Step
  <1>5. CASE \E v \in Service : Run(v) \/ Crash(v)
    BY <1>5, FlowServices
  <1> QED
    BY <1>1, <1>2, <1>3, <1>4, <1>5 DEF Next

----------------------------------------------------------------------------

LEMMA Invariance == Spec => []IInv
  <1>1. IInv /\ [Next]_vars => IInv'
    BY ShapeNext, FlowNext DEF IInv
  <1> QED
    BY InitIInv, <1>1, PTL DEF Spec

\* Every file, marker, event, lock and program counter is what its comment says.
THEOREM TypeCorrect == Spec => []TypeOK
  <1>1. IInv => TypeOK
    BY DEF IInv, Shape
  <1> QED
    BY Invariance, <1>1, PTL

\* Dedup publishes one content of one place under one id, however many services
\* share the runtime, whoever loses a lock and whatever crashes: the marker, not
\* the lock, is what makes it so.
THEOREM NothingTwice == Spec => []PublishedOnce
  <1>1. IInv => PublishedOnce
    <2> SUFFICES ASSUME IInv, Dedup, NEW i \in Id, NEW j \in Id, i # j,
                        out[i] # {}, out[j] # {}
                 PROVE  KeyOf(item[i]) # KeyOf(item[j])
      BY DEF PublishedOnce
    <2> QED
      BY DEF IInv, Flow, PublisherMarked
  <1> QED
    BY Invariance, <1>1, PTL

\* Metadata in exchange_out announces a payload, and a signature, that are there.
THEOREM CommitMarker == Spec => []CommitMarkerLast
  <1>1. IInv => CommitMarkerLast
    BY DEF IInv, Flow
  <1> QED
    BY Invariance, <1>1, PTL

\* A success in the audit trail is a complete publication, so that the reconciler
\* and the finalization delete only what has been delivered.
THEOREM AuditTellsTheTruth == Spec => []AuditedIsPublished
  <1>1. IInv => AuditedIsPublished
    BY DEF IInv, Flow
  <1> QED
    BY Invariance, <1>1, PTL

----------------------------------------------------------------------------
(* Nothing is lost, when one service has the runtime to itself *)

\* Pipelines run only while the loop of their service does.
QuietOutside == \A v \in Service : svc[v] \notin {"dispatch", "failing"} => Quiet(v)

\* What the reconciler is about to remove it has listed, captured, or found
\* published.
NothingToLose == \A v \in Service : LET i == cur[v] IN
  /\ svc[v] = "capture" => ("clear" \in files[i] => "clear" \in snap[v])
  /\ svc[v] = "record" => "clear" \notin files[i]
  /\ svc[v] = "purge" => "clear" \notin files[i] \/ audit[i] \cap Terminal # {}

KInv == QuietOutside /\ NothingToLose /\ NoLoss

LEMMA QuietNext ==
  ASSUME Shape, QuietOutside, [Next]_vars
  PROVE  QuietOutside'
  <1>1. CASE UNCHANGED <<pc, svc>>
    BY <1>1 DEF QuietOutside, Quiet
  <1>2. ASSUME NEW w \in Worker, UNCHANGED svc, \A x \in Worker \ {w} : pc'[x] = pc[x],
               pc[w] # "idle" \/ svc[Home[w]] \in {"dispatch", "failing"}
        PROVE  QuietOutside'
    BY <1>2 DEF QuietOutside, Quiet
  <1>3. CASE \E s \in Source : \/ \E c \in Content : Produce(s, c)
                              \/ ReclaimDead(s) \/ RevokeLive(s)
    BY <1>1, <1>3 DEF Produce, ReclaimDead, RevokeLive, workers, service
  <1>4. ASSUME NEW w \in Worker, NEW s \in Source, Take(w, s)
        PROVE  QuietOutside'
    <2>1. UNCHANGED svc /\ \A x \in Worker \ {w} : pc'[x] = pc[x]
      BY <1>4 DEF Take, Goto, Shape, TypeOK
    <2>2. svc[Home[w]] \in {"dispatch", "failing"}
      BY <1>4 DEF Take
    <2> QED
      BY <2>1, <2>2, <1>2
  <1>5. ASSUME NEW w \in Worker, Step(w) \/ Fault(w) \/ GiveUp(w)
        PROVE  QuietOutside'
    <2>1. UNCHANGED svc /\ \A x \in Worker \ {w} : pc'[x] = pc[x]
      BY <1>5 DEF Step, Fault, GiveUp, Begin, MoveIn, Claim, Compress, Build, PublishPayload,
         PublishSig, PublishMeta, RecordPublished, Finalize, RecordArchived, InputGone,
         Capture, RecordError, Leave, Goto, aside, service, Shape, TypeOK
    <2>2. pc[w] # "idle"
      BY <1>5 DEF Step, Fault, GiveUp, Begin, MoveIn, Claim, Compress, Build, PublishPayload,
         PublishSig, PublishMeta, RecordPublished, Finalize, RecordArchived, InputGone,
         Capture, RecordError, Leave, Ready, Try
    <2> QED
      BY <2>1, <2>2, <1>2
  <1>6. ASSUME NEW w \in Worker, Raise(w)
        PROVE  QuietOutside'
    BY <1>6 DEF Raise, Goto, Shape, TypeOK, QuietOutside, Quiet
  <1>7. ASSUME NEW v \in Service, Run(v)
        PROVE  QuietOutside'
    <2>1. UNCHANGED pc /\ \A u \in Service \ {v} : svc'[u] = svc[u]
      BY <1>7 DEF Run, Reconcile, Boot, JudgePublished, JudgeInterrupted, JudgeVanished,
         RecoverCapture, RecoverRecord, Purge, Reconciled, Scan, EndPass, Fail, Next1,
         disk, idling, workers, Shape, TypeOK
    <2>2. svc[v] \notin {"dispatch", "failing"} \/ Quiet(v)
      BY <1>7 DEF Run, Reconcile, Boot, JudgePublished, JudgeInterrupted, JudgeVanished,
         RecoverCapture, RecoverRecord, Purge, Reconciled, Scan, EndPass, Fail, Next1
    <2> QED
      BY <2>1, <2>2 DEF QuietOutside, Quiet
  <1>8. ASSUME NEW v \in Service, Crash(v)
        PROVE  QuietOutside'
    BY <1>8 DEF Crash, Shape, TypeOK, QuietOutside, Quiet
  <1> QED
    BY <1>1, <1>3, <1>4, <1>5, <1>6, <1>7, <1>8 DEF Next, vars, workers, service

\* What keeps a file findable when something changes.
Steady ==
  /\ \A s \in Source : business[s] # None => business'[s] = business[s]
  /\ \A i \in Id : /\ error[i] \subseteq error'[i]
                   /\ item[i] # None => item'[i] = item[i]
                   /\ out[i] \subseteq out'[i]
  /\ archive \subseteq archive'
  /\ \A i \in Id : "clear" \in files[i] => "clear" \in files'[i]

LEMMA CompleteStays ==
  ASSUME Shape, NEW i \in Id, Complete(i), item'[i] = item[i], out[i] \subseteq out'[i]
  PROVE  Complete(i)'
  BY DEF Complete, Parts, Signed

LEMMA SteadyKeeps ==
  ASSUME Shape, Steady, NEW x \in Item, Kept(x)
  PROVE  Kept(x)'
  <1>1. x # None /\ x.content # None /\ x.src \in Source
    BY DEF Item
  <1>2. CASE business[x.src] = x.content
    BY <1>1, <1>2 DEF Steady, Kept
  <1>3. ASSUME NEW i \in Id, x \in error[i]
        PROVE  Kept(x)'
    BY <1>3 DEF Steady, Kept
  <1>4. ASSUME NEW i \in Id, item[i] = x, "clear" \in files[i] \/ i \in archive \/ Complete(i)
        PROVE  Kept(x)'
    <2>1. item'[i] = x
      BY <1>1, <1>4 DEF Steady
    <2>2. "clear" \in files'[i] \/ i \in archive' \/ Complete(i)'
      BY <1>1, <1>4, CompleteStays DEF Steady
    <2> QED
      BY <2>1, <2>2 DEF Kept
  <1> QED
    BY <1>2, <1>3, <1>4 DEF Kept

\* Every step but these changes nothing that keeps a file findable.
LEMMA SteadySteps ==
  ASSUME Shape, [Next]_vars
  PROVE  \/ Steady
         \/ \E w \in Worker : MoveIn(w) \/ Finalize(w) \/ Capture(w)
         \/ \E v \in Service : RecoverCapture(v) \/ Purge(v)
  <1>1. CASE UNCHANGED disk
    BY <1>1 DEF Steady, disk
  <1>2. ASSUME NEW s \in Source, NEW c \in Content, Produce(s, c)
        PROVE  Steady
    BY <1>2 DEF Produce, Steady, Shape, TypeOK
  <1>3. ASSUME NEW w \in Worker,
               \/ Begin(w) \/ Claim(w) \/ RecordPublished(w) \/ RecordArchived(w)
               \/ RecordError(w)
        PROVE  Steady
    <2>1. UNCHANGED <<business, files, item, out, archive, error>>
      BY <1>3 DEF Begin, Claim, RecordPublished, RecordArchived, RecordError
    <2> QED
      BY <2>1 DEF Steady
  <1>4. ASSUME NEW w \in Worker,
               \/ Compress(w) \/ Build(w)
               \/ PublishPayload(w) \/ PublishSig(w) \/ PublishMeta(w)
        PROVE  Steady
    <2>1. UNCHANGED <<business, item, archive, error>>
      BY <1>4 DEF Compress, Build, PublishPayload, PublishSig, PublishMeta
    <2>2. \A i \in Id : out[i] \subseteq out'[i]
      <3>1. \/ \E X : out' = [out EXCEPT ![tid[w]] = out[tid[w]] \cup X]
            \/ out' = out
        BY <1>4 DEF Compress, Build, PublishPayload, PublishSig, PublishMeta, Add
      <3>2. out \in [Id -> SUBSET {"payload", "sig", "meta"}]
        BY DEF Shape, TypeOK
      <3>3. ASSUME NEW X, out' = [out EXCEPT ![tid[w]] = out[tid[w]] \cup X], NEW i \in Id
            PROVE  out[i] \subseteq out'[i]
        <4>1. CASE i = tid[w]
          <5>1. out'[i] = out[i] \cup X
            BY <3>2, <3>3, <4>1
          <5> QED
            BY <5>1
        <4>2. CASE i # tid[w]
          BY <3>2, <3>3, <4>2
        <4> QED
          BY <4>1, <4>2
      <3> QED
        BY <3>1, <3>3
    <2>3. \A i \in Id : "clear" \in files[i] => "clear" \in files'[i]
      <3>1. \/ \E X : files' = [files EXCEPT ![tid[w]] = files[tid[w]] \cup X]
            \/ files' = [files EXCEPT ![tid[w]] = files[tid[w]] \ {"payload"}]
            \/ files' = files
        BY <1>4 DEF Compress, Build, PublishPayload, PublishSig, PublishMeta, Add, Remove
      <3> QED
        BY <3>1 DEF Shape, TypeOK
    <2> QED
      BY <2>1, <2>2, <2>3 DEF Steady
  <1>5. ASSUME NEW v \in Service, RecoverRecord(v)
        PROVE  Steady
    BY <1>5 DEF RecoverRecord, Steady
  <1> QED
    BY <1>1, <1>2, <1>3, <1>4, <1>5 DEF Next, Step, Run, Reconcile, ReclaimDead, RevokeLive,
       Take, InputGone, Fault, GiveUp, Raise, Leave, Boot, JudgePublished, JudgeInterrupted,
       JudgeVanished, Reconciled, Scan, EndPass, Fail, Crash, vars

LEMMA MoveInKeeps ==
  ASSUME Shape, Flow, NEW w \in Worker, MoveIn(w), NEW x \in Item, Kept(x)
  PROVE  Kept(x)'
  <1>1. tid[w] \in Id /\ src[w] \in Source /\ item[tid[w]] = None
    BY DEF MoveIn, Shape, WorkerOK, Try, Flow, Progress, ProgressOf
  <1>2. x # None /\ x = [src |-> x.src, content |-> x.content]
    BY DEF Item
  <1>3. /\ \A s \in Source : s # src[w] => business'[s] = business[s]
        /\ item'[tid[w]] = [src |-> src[w], content |-> business[src[w]]]
        /\ "clear" \in files'[tid[w]]
        /\ \A i \in Id : i # tid[w] => item'[i] = item[i] /\ files'[i] = files[i]
        /\ UNCHANGED <<error, archive, out>>
    BY <1>1 DEF MoveIn, Add, Shape, TypeOK
  <1>4. CASE business[x.src] = x.content
    <2>1. CASE x.src = src[w]
      BY <1>1, <1>2, <1>3, <1>4, <2>1 DEF Kept
    <2>2. CASE x.src # src[w]
      BY <1>3, <1>4, <2>2 DEF Kept, Item
    <2> QED
      BY <2>1, <2>2
  <1>5. ASSUME NEW i \in Id, x \in error[i]
        PROVE  Kept(x)'
    BY <1>3, <1>5 DEF Kept
  <1>6. ASSUME NEW i \in Id, item[i] = x, "clear" \in files[i] \/ i \in archive \/ Complete(i)
        PROVE  Kept(x)'
    <2>1. i # tid[w]
      BY <1>1, <1>2, <1>6
    <2> QED
      BY <1>3, <1>6, <2>1 DEF Kept, Complete
  <1> QED
    BY <1>4, <1>5, <1>6 DEF Kept

LEMMA FinalizeKeeps ==
  ASSUME Shape, Flow, NEW w \in Worker, Finalize(w), NEW x \in Item, Kept(x)
  PROVE  Kept(x)'
  <1>1. tid[w] \in Id /\ Complete(tid[w])
    BY DEF Finalize, Ready, Shape, WorkerOK, Try, Flow, Progress, ProgressOf
  <1>2. /\ UNCHANGED <<business, error, item, out, tid>>
        /\ archive \subseteq archive'
        /\ \A i \in Id : i # tid[w] => files'[i] = files[i]
    BY <1>1 DEF Finalize, Remove, Shape, TypeOK, aside
  <1>3. Complete(tid[w])'
    BY <1>1, <1>2 DEF Complete
  <1>4. ASSUME NEW i \in Id, item[i] = x, "clear" \in files[i] \/ i \in archive \/ Complete(i)
        PROVE  Kept(x)'
    <2>1. item'[i] = x
      BY <1>2, <1>4
    <2>2. CASE i = tid[w]
      <3>1. Complete(i)'
        BY <1>2, <1>3, <2>2 DEF Complete
      <3> QED
        BY <2>1, <3>1 DEF Kept
    <2>3. CASE i # tid[w]
      <3>1. "clear" \in files'[i] \/ i \in archive' \/ Complete(i)'
        BY <1>2, <1>4, <2>3 DEF Complete
      <3> QED
        BY <2>1, <3>1 DEF Kept
    <2> QED
      BY <2>2, <2>3
  <1>5. CASE business[x.src] = x.content \/ \E i \in Id : x \in error[i]
    <2>1. business'[x.src] = business[x.src] /\ error' = error
      BY <1>2
    <2> QED
      BY <1>5, <2>1 DEF Kept
  <1> QED
    BY <1>4, <1>5 DEF Kept

LEMMA CaptureKeeps ==
  ASSUME Shape, Clashing = {}, NEW w \in Worker, Capture(w), NEW x \in Item, Kept(x)
  PROVE  Kept(x)'
  <1>1. tid[w] \in Id /\ src[w] \in Source
    BY DEF Capture, Shape, WorkerOK
  <1>2. x = [src |-> x.src, content |-> x.content] /\ x.content # None
    BY DEF Item
  <1>3. /\ UNCHANGED <<item, out, archive>>
        /\ error'[tid[w]] = error[tid[w]] \cup Captured(tid[w], src[w])
        /\ \A i \in Id : i # tid[w] => error'[i] = error[i] /\ files'[i] = files[i]
        /\ \A s \in Source : s # src[w] => business'[s] = business[s]
    BY <1>1 DEF Capture, Add, Remove, Shape, TypeOK
  <1>4. CASE business[x.src] = x.content
    <2>1. CASE x.src = src[w]
      <3>1. x \in Captured(tid[w], src[w])
        BY <1>2, <1>4, <2>1 DEF Captured
      <3> QED
        BY <1>1, <1>3, <3>1 DEF Kept
    <2>2. CASE x.src # src[w]
      BY <1>3, <1>4, <2>2 DEF Kept, Item
    <2> QED
      BY <2>1, <2>2
  <1>5. ASSUME NEW i \in Id, x \in error[i]
        PROVE  Kept(x)'
    BY <1>3, <1>5 DEF Kept
  <1>6. ASSUME NEW i \in Id, item[i] = x, "clear" \in files[i] \/ i \in archive \/ Complete(i)
        PROVE  Kept(x)'
    <2>1. CASE i = tid[w] /\ "clear" \in files[i]
      <3>1. x \in Captured(tid[w], src[w])
        BY <1>6, <2>1 DEF Captured
      <3> QED
        BY <1>1, <1>3, <3>1 DEF Kept
    <2>2. CASE i # tid[w] \/ "clear" \notin files[i]
      BY <1>3, <1>6, <2>2 DEF Kept, Complete
    <2> QED
      BY <2>1, <2>2
  <1> QED
    BY <1>4, <1>5, <1>6 DEF Kept

LEMMA RecoveryKeeps ==
  ASSUME Shape, NothingToLose, AuditedIsPublished, NEW v \in Service, RecoverCapture(v) \/ Purge(v),
         NEW x \in Item, Kept(x)
  PROVE  Kept(x)'
  <1>1. cur[v] \in Id
    BY DEF RecoverCapture, Purge, Shape, ReconcilerOK
  <1>2. /\ UNCHANGED <<business, item, out, archive>>
        /\ \A i \in Id : error[i] \subseteq error'[i]
        /\ \A i \in Id : i # cur[v] => files'[i] = files[i]
    BY <1>1 DEF RecoverCapture, Purge, Add, Remove, Shape, TypeOK
  <1>3. CASE business[x.src] = x.content \/ \E i \in Id : x \in error[i]
    BY <1>2, <1>3 DEF Kept
  <1>4. ASSUME NEW i \in Id, item[i] = x, "clear" \in files[i] \/ i \in archive \/ Complete(i)
        PROVE  Kept(x)'
    <2>1. CASE i # cur[v] \/ "clear" \notin files[i] \/ Complete(i)
      BY <1>2, <1>4, <2>1 DEF Kept, Complete
    <2>2. CASE RecoverCapture(v) /\ i = cur[v] /\ "clear" \in files[i]
      <3>1. "clear" \in files'[i] \/ x \in error'[i]
        BY <1>4, <2>2 DEF RecoverCapture, Add, Remove, Shape, TypeOK
      <3> QED
        BY <1>2, <1>4, <3>1 DEF Kept
    <2>3. CASE Purge(v) /\ i = cur[v] /\ "clear" \in files[i]
      BY <2>1, <2>3 DEF Purge, NothingToLose, AuditedIsPublished
    <2> QED
      BY <2>1, <2>2, <2>3
  <1> QED
    BY <1>3, <1>4 DEF Kept

LEMMA KeptNext ==
  ASSUME IInv, NothingToLose, Clashing = {}, [Next]_vars, NEW x \in Item, Kept(x)
  PROVE  Kept(x)'
  BY SteadySteps, SteadyKeeps, MoveInKeeps, FinalizeKeeps, CaptureKeeps, RecoveryKeeps
  DEF IInv, Flow

LEMMA NoLossNext ==
  ASSUME IInv, NothingToLose, NoLoss, Clashing = {}, [Next]_vars
  PROVE  NoLoss'
  <1> SUFFICES ASSUME NEW x \in submitted' PROVE Kept(x)'
    BY DEF NoLoss
  <1>1. CASE x \in submitted
    <2>1. x \in Item /\ Kept(x)
      BY <1>1 DEF IInv, Shape, TypeOK, NoLoss
    <2> QED
      BY <2>1, KeptNext
  <1>2. CASE x \notin submitted
    <2>1. PICK s \in Source, c \in Content : Produce(s, c)
      <3>1. submitted' # submitted
        BY <1>2
      <3>2. \A w \in Worker : ~Step(w)
        BY <3>1 DEF Step, Begin, MoveIn, Claim, Compress, Build, PublishPayload, PublishSig,
           PublishMeta, RecordPublished, Finalize, RecordArchived, InputGone, Capture,
           RecordError, Leave, aside
      <3>3. \A v \in Service : ~Run(v)
        BY <3>1 DEF Run, Reconcile, Boot, JudgePublished, JudgeInterrupted, JudgeVanished,
           RecoverCapture, RecoverRecord, Purge, Reconciled, Scan, EndPass, Fail, idling
      <3> QED
        BY <3>1, <3>2, <3>3 DEF Next, vars, ReclaimDead, RevokeLive, Take, Fault, GiveUp,
           Raise, Crash
    <2>2. x = [src |-> s, content |-> c] /\ business'[s] = c
      BY <1>2, <2>1 DEF Produce, IInv, Shape, TypeOK
    <2> QED
      BY <2>2 DEF Kept
  <1> QED
    BY <1>1, <1>2

\* Pipelines leave alone what a reconciler is working on, as it works on nothing
\* while they run.
LEMMA WorkersSpare ==
  ASSUME IInv, QuietOutside, NothingToLose, Alone,
         NEW w \in Worker,
         Step(w) \/ Fault(w) \/ GiveUp(w) \/ Raise(w) \/ (\E s \in Source : Take(w, s))
  PROVE  NothingToLose'
  <1> SUFFICES ASSUME NEW v \in Service PROVE svc'[v] \notin {"capture", "record", "purge"}
    BY DEF NothingToLose
  <1>1. Home[w] = v
    BY DEF Alone
  <1>2. pc[w] # "idle" \/ svc[v] \in {"dispatch", "failing"}
    BY <1>1 DEF Step, Fault, GiveUp, Raise, Begin, MoveIn, Claim, Compress, Build,
       PublishPayload,
       PublishSig, PublishMeta, RecordPublished, Finalize, RecordArchived, InputGone,
       Capture, RecordError, Leave, Ready, Try, Take
  <1>3. svc[v] \in {"dispatch", "failing"}
    BY <1>1, <1>2 DEF QuietOutside, Quiet
  <1>4. svc'[v] \in {"dispatch", "failing"}
    <2>1. CASE Raise(w)
      BY <1>1, <2>1 DEF Raise, IInv, Shape, TypeOK
    <2>2. CASE ~Raise(w)
      <3>1. UNCHANGED svc
        BY <2>2 DEF Step, Fault, GiveUp, Begin, MoveIn, Claim, Compress, Build, PublishPayload,
           PublishSig, PublishMeta, RecordPublished, Finalize, RecordArchived, InputGone,
           Capture, RecordError, Leave, Take, aside, service
      <3> QED
        BY <1>3, <3>1
    <2> QED
      BY <2>1, <2>2
  <1> QED
    BY <1>4

LEMMA ReconcilerKnows ==
  ASSUME IInv, NothingToLose, Alone, NEW v \in Service, Run(v) \/ Crash(v)
  PROVE  NothingToLose'
  <1>1. \A u \in Service : u = v
    BY DEF Alone
  <1>2. CASE svc'[v] \notin {"capture", "record", "purge"}
    BY <1>1, <1>2 DEF NothingToLose
  <1>3. ASSUME NEW i \in Id, JudgePublished(v, i)
        PROVE  NothingToLose'
    <2>1. audit'[i] \cap Terminal # {}
      BY <1>3 DEF JudgePublished, Next1, disk
    <2>2. svc'[v] = "purge" /\ cur'[v] = i
      BY <1>3 DEF JudgePublished, IInv, Shape, TypeOK
    <2> QED
      BY <1>1, <2>1, <2>2 DEF NothingToLose
  <1>4. ASSUME NEW i \in Id, JudgeInterrupted(v, i)
        PROVE  NothingToLose'
    <2>1. svc'[v] = "capture" /\ cur'[v] = i /\ snap'[v] = files[i] /\ files' = files
      BY <1>4 DEF JudgeInterrupted, disk, IInv, Shape, TypeOK
    <2> QED
      BY <1>1, <2>1 DEF NothingToLose
  <1>5. CASE RecoverCapture(v)
    <2>1. cur[v] \in Id /\ cur' = cur
      BY <1>5 DEF RecoverCapture, IInv, Shape, ReconcilerOK
    <2>2. svc'[v] = "record" /\ "clear" \notin files'[cur[v]]
      BY <1>5, <2>1 DEF RecoverCapture, Remove, IInv, Shape, TypeOK, NothingToLose
    <2> QED
      BY <1>1, <2>1, <2>2 DEF NothingToLose
  <1>6. CASE RecoverRecord(v)
    <2>1. svc'[v] = "purge" /\ cur' = cur /\ files' = files /\ svc[v] = "record"
      BY <1>6 DEF RecoverRecord, IInv, Shape, TypeOK
    <2> QED
      BY <1>1, <2>1 DEF NothingToLose
  <1>7. CASE Boot(v) \/ Purge(v) \/ Reconciled(v) \/ Scan(v) \/ EndPass(v) \/ Fail(v) \/ Crash(v)
             \/ \E i \in Id : JudgeVanished(v, i)
    BY <1>2, <1>7 DEF Boot, Purge, Reconciled, Scan, EndPass, Fail, Crash, JudgeVanished, IInv,
       Shape, TypeOK
  <1> QED
    BY <1>3, <1>4, <1>5, <1>6, <1>7 DEF Run, Reconcile

LEMMA NothingToLoseNext ==
  ASSUME IInv, QuietOutside, NothingToLose, Alone, [Next]_vars
  PROVE  NothingToLose'
  <1>1. CASE UNCHANGED <<files, snap, svc, cur, audit>>
    BY <1>1 DEF NothingToLose
  <1>2. CASE UNCHANGED vars
    BY <1>1, <1>2 DEF vars, disk, service
  <1>3. CASE \E s \in Source : \/ \E c \in Content : Produce(s, c)
                              \/ ReclaimDead(s) \/ RevokeLive(s)
    BY <1>1, <1>3 DEF Produce, ReclaimDead, RevokeLive, disk, service
  <1>4. CASE \E w \in Worker : \/ \E s \in Source : Take(w, s)
                              \/ Step(w) \/ Fault(w) \/ GiveUp(w) \/ Raise(w)
    BY <1>4, WorkersSpare
  <1>5. CASE \E v \in Service : Run(v) \/ Crash(v)
    BY <1>5, ReconcilerKnows
  <1> QED
    BY <1>2, <1>3, <1>4, <1>5 DEF Next

\* No file an application has written is ever lost, whatever steps fail, whatever
\* locks are revoked and wherever the process crashes: as long as one service has
\* the runtime to itself, and no source is called error.json.
THEOREM NothingIsLost ==
  ASSUME Alone, Clashing = {}
  PROVE  Spec => []NoLoss
  <1>1. Init => KInv
    BY DEF Init, KInv, QuietOutside, Quiet, NothingToLose, NoLoss
  <1>2. IInv /\ KInv /\ [Next]_vars => KInv'
    BY QuietNext, NothingToLoseNext, NoLossNext DEF KInv, IInv
  <1>3. KInv => NoLoss
    BY DEF KInv
  <1> QED
    BY Invariance, <1>1, <1>2, <1>3, PTL DEF Spec

----------------------------------------------------------------------------
(* Outbound implements Custody *)

\* The source is given up after the audit event only.
RecordedFirst == \A w \in Worker :
  pc[w] \in {"finalize", "archived"} => audit[tid[w]] \cap Terminal # {}

\* From the move to the end of the publication the clear file is in processing/.
Custodial == {"claim", "compress", "build", "payload", "sig", "meta", "record", "finalize"}
Holding == \A w \in Worker : pc[w] \in Custodial => "clear" \in files[tid[w]]

RInv == /\ IInv /\ QuietOutside /\ RecordedFirst
        /\ Alone => NothingToLose /\ Holding

\* A step of one worker keeps what holds of the ids of the others.
LEMMA OneByOne ==
  ASSUME IInv, NEW w \in Worker,
         \A x \in Worker \ {w} : pc'[x] = pc[x] /\ tid'[x] = tid[x],
         \A i \in Id : i # tid[w] => files[i] \subseteq files'[i],
         \A i \in Id : audit[i] \subseteq audit'[i]
  PROVE  /\ RecordedFirst /\ (pc'[w] \in {"finalize", "archived"} =>
                                audit'[tid'[w]] \cap Terminal # {}) => RecordedFirst'
         /\ Holding /\ (pc'[w] \in Custodial => "clear" \in files'[tid'[w]]) => Holding'
  <1>1. ASSUME NEW x \in Worker, x # w, pc[x] \in Custodial \cup {"archived"}
        PROVE  tid[x] \in Id /\ tid[x] # tid[w]
    BY <1>1 DEF IInv, Shape, WorkerOK, OneWorkerPerId, Custodial, Try
  <1>2. ASSUME RecordedFirst, NEW x \in Worker, x # w, pc'[x] \in {"finalize", "archived"}
        PROVE  audit'[tid'[x]] \cap Terminal # {}
    BY <1>1, <1>2 DEF RecordedFirst, Custodial
  <1>3. ASSUME Holding, NEW x \in Worker, x # w, pc'[x] \in Custodial
        PROVE  "clear" \in files'[tid'[x]]
    BY <1>1, <1>3 DEF Holding
  <1> QED
    BY <1>2, <1>3 DEF RecordedFirst, Holding

\* What one worker's step does for itself.
LEMMA OwnSteps ==
  ASSUME IInv, NEW w \in Worker,
         Step(w) \/ Fault(w) \/ GiveUp(w) \/ Raise(w) \/ \E s \in Source : Take(w, s)
  PROVE  RecordedFirst => RecordedFirst' /\ (Holding => Holding')
  <1>1. /\ \A x \in Worker \ {w} : pc'[x] = pc[x] /\ tid'[x] = tid[x]
        /\ \A i \in Id : i # tid[w] => files[i] \subseteq files'[i]
        /\ \A i \in Id : audit[i] \subseteq audit'[i]
    <2> USE DEF IInv, Shape, TypeOK, Goto, aside, disk, Add, Remove
    <2>1. CASE Begin(w) \/ MoveIn(w) \/ Claim(w) \/ Compress(w) \/ Build(w)
      BY <2>1 DEF Begin, MoveIn, Claim, Compress, Build, service
    <2>2. CASE PublishPayload(w) \/ PublishSig(w) \/ PublishMeta(w) \/ RecordPublished(w)
      BY <2>2 DEF PublishPayload, PublishSig, PublishMeta, RecordPublished
    <2>3. CASE Finalize(w) \/ RecordArchived(w) \/ InputGone(w) \/ Capture(w)
               \/ RecordError(w) \/ Leave(w)
      BY <2>3 DEF Finalize, RecordArchived, InputGone, Capture, RecordError, Leave
    <2>4. CASE Fault(w) \/ GiveUp(w) \/ Raise(w) \/ \E s \in Source : Take(w, s)
      BY <2>4 DEF Fault, GiveUp, Raise, Take
    <2> QED
      BY <2>1, <2>2, <2>3, <2>4 DEF Step
  <1>2. ASSUME pc'[w] \notin Custodial \cup {"archived"}, RecordedFirst
        PROVE  RecordedFirst' /\ (Holding => Holding')
    BY <1>1, <1>2, OneByOne DEF Custodial
  <1>3. ASSUME RecordedFirst, pc[w] \in Custodial, pc'[w] \in Custodial, tid'[w] = tid[w],
               files[tid[w]] \ {"payload"} \subseteq files'[tid[w]],
               pc'[w] = "finalize" => audit'[tid[w]] \cap Terminal # {}
        PROVE  RecordedFirst' /\ (Holding => Holding')
    BY <1>1, <1>3, OneByOne DEF Holding, Custodial
  <1> USE DEF IInv, Shape, TypeOK, Goto
  <1>4. CASE MoveIn(w)
    <2>1. tid[w] \in Id
      BY <1>4 DEF MoveIn, WorkerOK, Try
    <2>2. pc'[w] = "claim" /\ tid'[w] = tid[w] /\ "clear" \in files'[tid[w]]
      BY <1>4, <2>1 DEF MoveIn, Add, aside
    <2> QED
      BY <1>1, <2>2, OneByOne DEF Custodial
  <1>5. CASE Claim(w) \/ Compress(w) \/ Build(w)
    <2>1. tid[w] \in Id /\ pc[w] \in Custodial /\ tid'[w] = tid[w]
      BY <1>5 DEF Claim, Compress, Build, Ready, WorkerOK, Try, aside, Custodial
    <2>2. files[tid[w]] \subseteq files'[tid[w]]
      BY <1>5, <2>1 DEF Claim, Compress, Build, Add
    <2>3. pc'[w] \in {"leave", "compress", "build", "payload"}
      BY <1>5 DEF Claim, Compress, Build, AfterClaim
    <2> QED
      BY <1>2, <1>3, <2>1, <2>2, <2>3 DEF Custodial
  <1>6. CASE PublishPayload(w) \/ PublishSig(w) \/ PublishMeta(w)
    <2>1. tid[w] \in Id /\ pc[w] \in Custodial /\ tid'[w] = tid[w]
      BY <1>6 DEF PublishPayload, PublishSig, PublishMeta, Ready, WorkerOK, Try, aside, Custodial
    <2>2. files[tid[w]] \ {"payload"} \subseteq files'[tid[w]]
      BY <1>6, <2>1 DEF PublishPayload, PublishSig, PublishMeta, Remove
    <2>3. pc'[w] \in {"sig", "meta", "record"}
      BY <1>6 DEF PublishPayload, PublishSig, PublishMeta
    <2> QED
      BY <1>3, <2>1, <2>2, <2>3 DEF Custodial
  <1>7. CASE RecordPublished(w)
    <2>1. tid[w] \in Id /\ pc[w] \in Custodial /\ tid'[w] = tid[w]
      BY <1>7 DEF RecordPublished, WorkerOK, Try, aside, Custodial
    <2>2. files' = files /\ pc'[w] = "finalize" /\ "MOVED_TO_EXCHANGE_OUT" \in audit'[tid[w]]
      BY <1>7, <2>1 DEF RecordPublished, Add
    <2> QED
      BY <1>3, <2>1, <2>2 DEF Custodial, Terminal
  <1>8. CASE Finalize(w)
    <2>1. tid[w] \in Id /\ pc[w] = "finalize" /\ tid'[w] = tid[w] /\ audit' = audit
      BY <1>8 DEF Finalize, Ready, WorkerOK, Try, aside
    <2>2. pc'[w] \in {"archived", "leave"}
      BY <1>8 DEF Finalize
    <2> QED
      BY <1>1, <2>1, <2>2, OneByOne DEF RecordedFirst, Custodial
  <1>9. CASE ~(MoveIn(w) \/ Claim(w) \/ Compress(w) \/ Build(w) \/ PublishPayload(w)
               \/ PublishSig(w) \/ PublishMeta(w) \/ RecordPublished(w) \/ Finalize(w))
    <2>1. CASE Begin(w) \/ RecordArchived(w) \/ InputGone(w) \/ Capture(w) \/ RecordError(w)
               \/ Leave(w)
      <3>1. pc'[w] \in {"move", "leave", "capture", "error", "idle"}
        BY <2>1 DEF Begin, RecordArchived, InputGone, Capture, RecordError, Leave
      <3> QED
        BY <1>2, <3>1 DEF Custodial
    <2>2. CASE Fault(w) \/ GiveUp(w) \/ Raise(w)
      <3>1. pc'[w] \in {"capture", "leave"}
        BY <2>2 DEF Fault, GiveUp, Raise
      <3> QED
        BY <1>2, <3>1 DEF Custodial
    <2>3. CASE \E s \in Source : Take(w, s)
      <3>1. pc'[w] \in {"idle", "begin"}
        BY <2>3 DEF Take
      <3> QED
        BY <1>2, <3>1 DEF Custodial
    <2> QED
      BY <1>9, <2>1, <2>2, <2>3 DEF Step
  <1> QED
    BY <1>4, <1>5, <1>6, <1>7, <1>8, <1>9

\* The services: a reconciler works when no pipeline does, unless there is another.
LEMMA ServiceSteps ==
  ASSUME IInv, QuietOutside, NEW v \in Service, Run(v) \/ Crash(v)
  PROVE  /\ RecordedFirst => RecordedFirst'
         /\ Alone /\ Holding => Holding'
  <1> USE DEF IInv, Shape, TypeOK
  <1>1. /\ \A w \in Worker : pc'[w] \in Custodial \cup {"archived"} =>
                              pc'[w] = pc[w] /\ tid'[w] = tid[w] /\ tid[w] \in Id
        /\ \A i \in Id : audit[i] \subseteq audit'[i]
    <2>1. \A w \in Worker : pc[w] \in Custodial \cup {"archived"} => tid[w] \in Id
      BY DEF WorkerOK, Custodial, Try
    <2>2. CASE Run(v)
      <3>1. UNCHANGED workers
        BY <2>2 DEF Run, Reconcile, Boot, JudgePublished, JudgeInterrupted, JudgeVanished,
           RecoverCapture, RecoverRecord, Purge, Reconciled, Scan, EndPass, Fail, idling
      <3>2. \A i \in Id : audit[i] \subseteq audit'[i]
        BY <2>2 DEF Run, Reconcile, Boot, JudgePublished, JudgeInterrupted, JudgeVanished,
           RecoverCapture, RecoverRecord, Purge, Reconciled, Scan, EndPass, Fail, disk, Add
      <3> QED
        BY <2>1, <3>1, <3>2 DEF workers
    <2>3. CASE Crash(v)
      BY <2>1, <2>3 DEF Crash, disk, Custodial
    <2> QED
      BY <2>2, <2>3
  <1>2. RecordedFirst => RecordedFirst'
    BY <1>1 DEF RecordedFirst, Custodial
  <1>3. ASSUME Alone, Holding, NEW w \in Worker, pc'[w] \in Custodial
        PROVE  "clear" \in files'[tid'[w]]
    <2>1. CASE RecoverCapture(v) \/ Purge(v)
      <3>1. Home[w] = v
        BY <1>3 DEF Alone
      <3>2. pc[w] = "idle"
        BY <2>1, <3>1 DEF QuietOutside, Quiet, RecoverCapture, Purge
      <3> QED
        BY <1>1, <1>3, <3>2 DEF Custodial
    <2>2. CASE ~(RecoverCapture(v) \/ Purge(v))
      <3>1. UNCHANGED files
        BY <2>2 DEF Run, Reconcile, Boot, JudgePublished, JudgeInterrupted, JudgeVanished,
           RecoverRecord, Reconciled, Scan, EndPass, Fail, Crash, disk
      <3> QED
        BY <1>1, <1>3, <3>1 DEF Holding
    <2> QED
      BY <2>1, <2>2
  <1> QED
    BY <1>2, <1>3 DEF Holding

LEMMA RInvNext == RInv /\ [Next]_vars => RInv'
  <1> SUFFICES ASSUME RInv, [Next]_vars PROVE RInv'
    OBVIOUS
  <1>1. IInv' /\ QuietOutside' /\ (Alone => NothingToLose')
    BY ShapeNext, FlowNext, QuietNext, NothingToLoseNext DEF RInv, IInv
  <1>2. RecordedFirst' /\ (Alone => Holding')
    <2>1. ASSUME UNCHANGED <<pc, tid, audit, files>>
          PROVE  RecordedFirst' /\ (Alone => Holding')
      BY <2>1 DEF RInv, RecordedFirst, Holding
    <2>2. CASE UNCHANGED vars
      BY <2>1, <2>2 DEF vars, disk, workers
    <2>3. CASE \E s \in Source : \/ \E c \in Content : Produce(s, c)
                                \/ ReclaimDead(s) \/ RevokeLive(s)
      BY <2>1, <2>3 DEF Produce, ReclaimDead, RevokeLive, disk, workers
    <2>4. CASE \E w \in Worker : \/ \E s \in Source : Take(w, s)
                                \/ Step(w) \/ Fault(w) \/ GiveUp(w) \/ Raise(w)
      BY <2>4, OwnSteps DEF RInv
    <2>5. CASE \E v \in Service : Run(v) \/ Crash(v)
      BY <2>5, ServiceSteps DEF RInv
    <2> QED
      BY <2>2, <2>3, <2>4, <2>5 DEF Next
  <1> QED
    BY <1>1, <1>2 DEF RInv, Alone

----------------------------------------------------------------------------
(* Step by step *)

Held == {i \in Id : "clear" \in files[i]}
Recorded == {i \in Id : audit[i] \cap Terminal # {}}
SeenAll == [i \in Id |-> Seen(i)]

LEMMA SeenStays ==
  ASSUME \A i \in Id : \/ item'[i] = item[i] /\ out'[i] = out[i]
                       \/ "meta" \notin out[i] /\ "meta" \notin out'[i]
  PROVE  SeenAll' = SeenAll
  <1>1. ASSUME NEW i \in Id, item'[i] = item[i] /\ out'[i] = out[i]
        PROVE  Seen(i)' = Seen(i)
    <2>1. Complete(i)' = Complete(i)
      BY <1>1 DEF Complete, Parts, Signed
    <2> QED
      BY <1>1, <2>1 DEF Seen
  <1>2. ASSUME NEW i \in Id, "meta" \notin out[i] /\ "meta" \notin out'[i]
        PROVE  Seen(i)' = Seen(i)
    BY <1>2 DEF Seen
  <1>3. \A i \in Id : Seen(i)' = Seen(i)
    BY <1>1, <1>2
  <1> QED
    BY <1>3 DEF SeenAll

LEMMA SeenAt ==
  ASSUME NEW i \in Id, NEW x, Seen(i)' = x, \A j \in Id : j # i => Seen(j)' = Seen(j)
  PROVE  SeenAll' = [SeenAll EXCEPT ![i] = x]
  <1>1. SeenAll' = [j \in Id |-> Seen(j)']
    BY DEF SeenAll
  <1>2. [SeenAll EXCEPT ![i] = x] = [j \in Id |-> IF j = i THEN x ELSE Seen(j)]
    BY DEF SeenAll
  <1> QED
    BY <1>1, <1>2

\* Steps a user of the base folders and of exchange_out does not see.
LEMMA Unseen ==
  ASSUME UNCHANGED <<business, item, archive, error>>, SeenAll' = SeenAll,
         Held' = Held, Recorded' = Recorded
  PROVE  UNCHANGED Abstract!vars
  BY DEF Abstract!vars, Held, Recorded, SeenAll

LEMMA OfferStep ==
  ASSUME IInv, NEW s \in Source, NEW c \in Content, Produce(s, c)
  PROVE  Abstract!Offer(s, c)
  <1>1. SeenAll' = SeenAll
    BY SeenStays DEF Produce
  <1> QED
    BY <1>1 DEF Produce, Abstract!Offer, Held, Recorded, SeenAll

LEMMA TakeOverStep ==
  ASSUME IInv, NEW w \in Worker, MoveIn(w)
  PROVE  src[w] \in Source /\ tid[w] \in Id /\ Abstract!TakeOver(src[w], tid[w])
  <1> USE DEF IInv, Shape, TypeOK
  <1>1. tid[w] \in Id /\ src[w] \in Source
    BY DEF MoveIn, WorkerOK, Try
  <1>2. item[tid[w]] = None /\ out[tid[w]] = {}
    BY DEF MoveIn, Flow, Progress, ProgressOf
  <1>3. SeenAll' = SeenAll
    <2>1. out' = out /\ \A i \in Id : i # tid[w] => item'[i] = item[i]
      BY DEF MoveIn
    <2> QED
      BY <1>2, <2>1, SeenStays
  <1>4. Held' = Held \cup {tid[w]}
    BY <1>1 DEF MoveIn, Add, Held
  <1> QED
    BY <1>1, <1>2, <1>3, <1>4 DEF MoveIn, Abstract!TakeOver, Held, Recorded, SeenAll

LEMMA AnnounceStep ==
  ASSUME RInv, IInv', NEW w \in Worker, PublishMeta(w)
  PROVE  tid[w] \in Id /\ Abstract!Announce(tid[w])
  <1>1. tid[w] \in Id /\ pc[w] = "meta" /\ pc'[w] = "record" /\ tid'[w] = tid[w]
    BY DEF PublishMeta, RInv, IInv, Shape, TypeOK, WorkerOK, Try, Goto, aside
  <1> SUFFICES ASSUME NEW i \in Id, i = tid[w] PROVE Abstract!Announce(i)
    BY <1>1
  <1>2. "payload" \in out[i] /\ "meta" \notin out[i] /\ item[i] # None /\ item[i] \in Item
    BY <1>1 DEF RInv, IInv, Shape, TypeOK, Flow, Progress, ProgressOf, Try
  <1>3. Complete(i)'
    BY <1>1 DEF IInv, Flow, Progress, ProgressOf
  <1>4. /\ item' = item /\ "meta" \in out'[i]
        /\ \A j \in Id : j # i => out'[j] = out[j]
    BY DEF PublishMeta, Add, RInv, IInv, Shape, TypeOK
  <1>5. Seen(i) = "nothing" /\ Seen(i)' = "whole"
    BY <1>2, <1>3, <1>4 DEF Seen
  <1>6. \A j \in Id : j # i => Seen(j)' = Seen(j)
    BY <1>4 DEF Seen, Complete, Parts, Signed
  <1>7. SeenAll[i] = "nothing" /\ SeenAll' = [SeenAll EXCEPT ![i] = "whole"]
    <2>1. SeenAll[i] = "nothing"
      BY <1>5 DEF SeenAll
    <2> QED
      BY <1>5, <1>6, <2>1, SeenAt
  <1>8. Alone => i \in Held
    BY <1>1 DEF RInv, Holding, Custodial, Held
  <1>9. ASSUME Dedup, NEW j \in Id, SeenAll[j] # "nothing"
        PROVE  ~(item[i].content = item[j].content /\ Place[item[i].src] = Place[item[j].src])
    <2>1. j # i /\ out[j] # {}
      BY <1>7, <1>9 DEF SeenAll, Seen
    <2>2. marker[KeyOf(item[i])] = i
      BY <1>1, <1>9 DEF RInv, IInv, Flow, MarkerMine, MarkerMineOf, Try
    <2>3. marker[KeyOf(item[j])] = j
      BY <1>9, <2>1 DEF RInv, IInv, Flow, PublisherMarked
    <2> QED
      BY <2>1, <2>2, <2>3 DEF KeyOf
  <1>10. Held' = Held /\ Recorded' = Recorded /\ UNCHANGED <<business, item, archive, error>>
    BY DEF PublishMeta, Held, Recorded
  <1> QED
    BY <1>2, <1>7, <1>8, <1>9, <1>10
    DEF Abstract!Announce, Abstract!Twins, Held, Recorded, SeenAll

LEMMA RecordStep ==
  ASSUME IInv, NEW w \in Worker, RecordPublished(w) \/ RecordArchived(w)
  PROVE  tid[w] \in Id /\ Abstract!Record(tid[w])
  <1>1. tid[w] \in Id /\ Complete(tid[w])
    BY DEF RecordPublished, RecordArchived, IInv, Shape, WorkerOK, Flow, Progress, ProgressOf, Try
  <1>2. SeenAll[tid[w]] = "whole"
    BY <1>1 DEF SeenAll, Seen, Complete, Parts
  <1>3. UNCHANGED <<business, item, out, files, archive, error>>
    BY DEF RecordPublished, RecordArchived, aside
  <1>4. SeenAll' = SeenAll /\ Held' = Held
    BY <1>3, SeenStays DEF Held
  <1>5. Recorded' = Recorded \cup {tid[w]}
    <2>1. \E e \in Terminal : audit' = Add(audit, tid[w], {e})
      BY DEF RecordPublished, RecordArchived, Terminal
    <2> QED
      BY <1>1, <2>1 DEF Add, Recorded, IInv, Shape, TypeOK
  <1> QED
    BY <1>1, <1>2, <1>3, <1>4, <1>5 DEF Abstract!Record, Held, Recorded, SeenAll

LEMMA PartStep ==
  ASSUME RInv, NEW w \in Worker, Finalize(w)
  PROVE  \/ UNCHANGED Abstract!vars
         \/ tid[w] \in Id /\ Abstract!Part(tid[w])
  <1>1. tid[w] \in Id /\ pc[w] = "finalize"
    BY DEF Finalize, Ready, RInv, IInv, Shape, WorkerOK, Try
  <1>2. tid[w] \in Recorded
    BY <1>1 DEF RInv, RecordedFirst, Recorded
  <1>3. UNCHANGED <<business, item, out, audit, error>>
    BY DEF Finalize, aside
  <1>4. SeenAll' = SeenAll /\ Recorded' = Recorded
    BY <1>3, SeenStays DEF Recorded
  <1>5. Held' = Held \ {tid[w]}
    BY <1>1 DEF Finalize, Remove, Held, RInv, IInv, Shape, TypeOK
  <1>6. \/ Archiving /\ archive' = archive \cup {tid[w]}
        \/ ~Archiving /\ archive' = archive
    BY DEF Finalize
  <1>7. CASE tid[w] \in Held
    <2>1. archive' \in {archive, archive \cup {tid[w]}}
      BY <1>6
    <2> QED
      BY <1>1, <1>2, <1>3, <1>4, <1>5, <1>7, <2>1 DEF Abstract!Part, Held, Recorded, SeenAll
  <1>8. CASE tid[w] \notin Held
    <2>1. ~Archiving
      BY <1>1, <1>8 DEF Finalize, Ready, Needs, Held
    <2>2. Held' = Held /\ archive' = archive
      BY <1>5, <1>6, <1>8, <2>1
    <2> QED
      BY <1>3, <1>4, <2>2, Unseen
  <1> QED
    BY <1>7, <1>8

\* The items SetAside finds: those of the id that is set aside, and at the paths.
Found(i, paths) ==
  {item[j] : j \in Held \cap {i}} \cup
  {[src |-> s, content |-> business[s]] : s \in {p \in paths : business[p] # None}}

\* What is to be shown of a step that sets files aside.
LEMMA SetAsideBy ==
  ASSUME NEW i \in Id, NEW paths \in SUBSET Source, NEW safe \in SUBSET Found(i, paths),
         Alone /\ Clashing = {} => safe = Found(i, paths),
         error' = [error EXCEPT ![i] = error[i] \cup safe],
         business' = [s \in Source |-> IF s \in paths THEN None ELSE business[s]],
         Held' = Held \ {i}, Recorded' = Recorded, UNCHANGED <<item, out, archive>>
  PROVE  Abstract!SetAside(i, paths)
  <1>1. SeenAll' = SeenAll
    BY SeenStays
  <1> QED
    BY <1>1 DEF Abstract!SetAside, Found, Held, Recorded, SeenAll

LEMMA CaptureStep ==
  ASSUME IInv, NEW w \in Worker, Capture(w)
  PROVE  tid[w] \in Id /\ src[w] \in Source /\ Abstract!SetAside(tid[w], {src[w]})
  <1>1. tid[w] \in Id /\ src[w] \in Source
    <2>1. pc[w] = "capture"
      BY DEF Capture
    <2> QED
      BY <2>1 DEF IInv, Shape, WorkerOK
  <1>2. ASSUME NEW i \in Id, i = tid[w], NEW s \in Source, s = src[w]
        PROVE  Abstract!SetAside(i, {s})
    <2> DEFINE safe == Captured(i, s)
    <2>1. {s} \in SUBSET Source /\ safe \in SUBSET Found(i, {s})
      BY DEF Captured, Found, Held
    <2>2. Alone /\ Clashing = {} => safe = Found(i, {s})
      BY DEF Captured, Found, Held
    <2>3. error' = [error EXCEPT ![i] = error[i] \cup safe]
      BY <1>2 DEF Capture, Add
    <2>4. business' = [r \in Source |-> IF r \in {s} THEN None ELSE business[r]]
      BY <1>2 DEF Capture, IInv, Shape, TypeOK
    <2>5. Held' = Held \ {i}
      BY <1>2 DEF Capture, Remove, Held, IInv, Shape, TypeOK
    <2>6. Recorded' = Recorded /\ UNCHANGED <<item, out, archive>>
      BY DEF Capture, Recorded
    <2> HIDE DEF safe
    <2> QED
      BY <2>1, <2>2, <2>3, <2>4, <2>5, <2>6, SetAsideBy
  <1> QED
    BY <1>1, <1>2 DEF Abstract!SetAside

LEMMA RecoverStep ==
  ASSUME IInv, NEW v \in Service, RecoverCapture(v)
  PROVE  \/ UNCHANGED Abstract!vars
         \/ cur[v] \in Id /\ Abstract!SetAside(cur[v], {})
  <1>1. cur[v] \in Id
    BY DEF RecoverCapture, IInv, Shape, ReconcilerOK
  <1>2. /\ UNCHANGED <<business, item, out, archive>> /\ Recorded' = Recorded
        /\ business' = [s \in Source |-> IF s \in {} THEN None ELSE business[s]]
    BY DEF RecoverCapture, Recorded, IInv, Shape, TypeOK
  <1>3. CASE "clear" \in snap[v] /\ cur[v] \in Held
    <2>1. Found(cur[v], {}) = {item[cur[v]]}
      BY <1>3 DEF Found
    <2>2. error' = [error EXCEPT ![cur[v]] = error[cur[v]] \cup {item[cur[v]]}]
      BY <1>1, <1>3 DEF RecoverCapture, Add, Held
    <2>3. Held' = Held \ {cur[v]}
      BY <1>1, <1>3 DEF RecoverCapture, Remove, Held, IInv, Shape, TypeOK
    <2>4. {} \in SUBSET Source /\ {item[cur[v]]} \in SUBSET Found(cur[v], {})
      BY <2>1
    <2>5. Abstract!SetAside(cur[v], {})
      BY <1>1, <1>2, <2>1, <2>2, <2>3, <2>4, SetAsideBy
    <2> QED
      BY <1>1, <2>5
  <1>4. CASE ~("clear" \in snap[v] /\ cur[v] \in Held)
    <2>1. error' = error
      BY <1>1, <1>4 DEF RecoverCapture, Held
    <2>2. Held' = Held
      BY <1>1, <1>4 DEF RecoverCapture, Remove, Held, IInv, Shape, TypeOK
    <2>3. SeenAll' = SeenAll
      BY <1>2, SeenStays
    <2> QED
      BY <1>2, <2>1, <2>2, <2>3, Unseen
  <1> QED
    BY <1>3, <1>4

LEMMA PurgeStep ==
  ASSUME RInv, NEW v \in Service, Purge(v)
  PROVE  \/ UNCHANGED Abstract!vars
         \/ cur[v] \in Id /\ (Abstract!Part(cur[v]) \/ Abstract!SetAside(cur[v], {}))
  <1>1. cur[v] \in Id
    BY DEF Purge, RInv, IInv, Shape, ReconcilerOK
  <1>2. /\ UNCHANGED <<business, item, out, archive, error>> /\ Recorded' = Recorded
        /\ Held' = Held \ {cur[v]}
    BY <1>1 DEF Purge, Recorded, Held, RInv, IInv, Shape, TypeOK
  <1>3. SeenAll' = SeenAll
    BY <1>2, SeenStays
  <1>4. CASE cur[v] \notin Held
    BY <1>2, <1>3, <1>4, Unseen
  <1>5. CASE cur[v] \in Held /\ cur[v] \in Recorded
    BY <1>1, <1>2, <1>3, <1>5 DEF Abstract!Part, Held, Recorded, SeenAll
  <1>6. CASE cur[v] \in Held /\ cur[v] \notin Recorded
    <2>1. ~Alone
      BY <1>1, <1>6 DEF Purge, RInv, NothingToLose, Held, Recorded
    <2>2. error' = [error EXCEPT ![cur[v]] = error[cur[v]] \cup {}]
      BY <1>2 DEF RInv, IInv, Shape, TypeOK
    <2>3. business' = [s \in Source |-> IF s \in {} THEN None ELSE business[s]]
      BY <1>2 DEF RInv, IInv, Shape, TypeOK
    <2>4. {} \in SUBSET Source /\ {} \in SUBSET Found(cur[v], {})
      OBVIOUS
    <2>5. Abstract!SetAside(cur[v], {})
      BY <1>1, <1>2, <2>1, <2>2, <2>3, <2>4, SetAsideBy
    <2> QED
      BY <1>1, <2>5
  <1> QED
    BY <1>4, <1>5, <1>6

LEMMA DiskUntouched ==
  ASSUME UNCHANGED disk
  PROVE  UNCHANGED Abstract!vars
  <1>1. SeenAll' = SeenAll
    BY SeenStays DEF disk
  <1> QED
    BY <1>1, Unseen DEF disk, Held, Recorded

\* Steps of a pipeline that only prepare a publication, or report a failure.
LEMMA Preparing ==
  ASSUME IInv, NEW w \in Worker,
         \/ Begin(w) \/ Claim(w) \/ Compress(w) \/ Build(w)
         \/ PublishPayload(w) \/ PublishSig(w) \/ RecordError(w)
  PROVE  UNCHANGED Abstract!vars
  <1>1. UNCHANGED <<business, item, archive, error>>
    BY DEF Begin, Claim, Compress, Build, PublishPayload, PublishSig, RecordError, aside
  <1>2. Held' = Held
    BY DEF Begin, Claim, Compress, Build, PublishPayload, PublishSig, RecordError,
           Add, Remove, Held, IInv, Shape, TypeOK
  <1>3. Recorded' = Recorded
    <2>1. \A i \in Id : audit'[i] \cap Terminal = audit[i] \cap Terminal
      BY DEF Begin, Claim, Compress, Build, PublishPayload, PublishSig, RecordError,
             Add, Terminal, IInv, Shape, TypeOK
    <2> QED
      BY <2>1 DEF Recorded
  <1>4. \A i \in Id : \/ out'[i] = out[i]
                      \/ "meta" \notin out[i] /\ "meta" \notin out'[i]
    <2>1. CASE PublishPayload(w) \/ PublishSig(w)
      <3>1. tid[w] \in Id /\ "meta" \notin out[tid[w]]
        BY <2>1 DEF PublishPayload, PublishSig, Ready, IInv, Shape, WorkerOK, Try, Flow,
                    Progress, ProgressOf
      <3>2. \E f \in {"payload", "sig"} : out' = Add(out, tid[w], {f})
        BY <2>1 DEF PublishPayload, PublishSig
      <3> QED
        BY <3>1, <3>2 DEF Add, IInv, Shape, TypeOK
    <2> QED
      BY <2>1 DEF Begin, Claim, Compress, Build, RecordError
  <1> QED
    BY <1>1, <1>2, <1>3, <1>4, SeenStays, Unseen

LEMMA OwnSimulated ==
  ASSUME RInv, IInv', NEW w \in Worker,
         (\E s \in Source : Take(w, s)) \/ Step(w) \/ Fault(w) \/ GiveUp(w) \/ Raise(w)
  PROVE  Abstract!Next \/ UNCHANGED Abstract!vars
  <1>0. IInv
    BY DEF RInv
  <1>1. CASE \/ \E s \in Source : Take(w, s)
             \/ InputGone(w) \/ Leave(w) \/ Fault(w) \/ GiveUp(w) \/ Raise(w)
    <2>1. UNCHANGED disk
      BY <1>1 DEF Take, InputGone, Leave, Fault, GiveUp, Raise
    <2> QED
      BY <2>1, DiskUntouched
  <1>2. CASE \/ Begin(w) \/ Claim(w) \/ Compress(w) \/ Build(w)
             \/ PublishPayload(w) \/ PublishSig(w) \/ RecordError(w)
    BY <1>0, <1>2, Preparing
  <1>3. CASE MoveIn(w)
    <2>1. src[w] \in Source /\ tid[w] \in Id /\ Abstract!TakeOver(src[w], tid[w])
      BY <1>0, <1>3, TakeOverStep
    <2> QED
      BY <2>1 DEF Abstract!Next, Abstract!TakeOver
  <1>4. CASE PublishMeta(w)
    <2>1. tid[w] \in Id /\ Abstract!Announce(tid[w])
      BY <1>4, AnnounceStep
    <2> QED
      BY <2>1 DEF Abstract!Next
  <1>5. CASE RecordPublished(w) \/ RecordArchived(w)
    <2>1. tid[w] \in Id /\ Abstract!Record(tid[w])
      BY <1>0, <1>5, RecordStep
    <2> QED
      BY <2>1 DEF Abstract!Next, Abstract!Record
  <1>6. CASE Finalize(w)
    <2>1. \/ UNCHANGED Abstract!vars
          \/ tid[w] \in Id /\ Abstract!Part(tid[w])
      BY <1>6, PartStep
    <2> QED
      BY <2>1 DEF Abstract!Next, Abstract!Part
  <1>7. CASE Capture(w)
    <2>1. tid[w] \in Id /\ src[w] \in Source /\ Abstract!SetAside(tid[w], {src[w]})
      BY <1>0, <1>7, CaptureStep
    <2>2. {src[w]} \in SUBSET Source
      BY <2>1
    <2> QED
      BY <2>1, <2>2 DEF Abstract!Next, Abstract!SetAside
  <1> QED
    BY <1>1, <1>2, <1>3, <1>4, <1>5, <1>6, <1>7 DEF Step

LEMMA ServiceSimulated ==
  ASSUME RInv, NEW v \in Service, Run(v) \/ Crash(v)
  PROVE  Abstract!Next \/ UNCHANGED Abstract!vars
  <1>0. IInv
    BY DEF RInv
  <1>1. CASE \/ Boot(v) \/ Scan(v) \/ EndPass(v) \/ Fail(v) \/ Crash(v) \/ Reconciled(v)
             \/ \E i \in Id : \/ JudgePublished(v, i) \/ JudgeInterrupted(v, i)
                              \/ JudgeVanished(v, i)
    <2>1. UNCHANGED disk
      BY <1>1 DEF Boot, Scan, EndPass, Fail, Crash, Reconciled, JudgePublished,
                  JudgeInterrupted, JudgeVanished
    <2> QED
      BY <2>1, DiskUntouched
  <1>2. CASE RecoverRecord(v)
    <2>1. UNCHANGED <<business, item, out, archive, error>> /\ Held' = Held
      BY <1>2 DEF RecoverRecord, Held
    <2>2. \A i \in Id : audit'[i] \cap Terminal = audit[i] \cap Terminal
      BY <1>0, <1>2 DEF RecoverRecord, Add, Terminal, IInv, Shape, TypeOK
    <2>3. Recorded' = Recorded /\ SeenAll' = SeenAll
      BY <2>1, <2>2, SeenStays DEF Recorded
    <2> QED
      BY <2>1, <2>3, Unseen
  <1>3. CASE RecoverCapture(v)
    <2>1. \/ UNCHANGED Abstract!vars
          \/ cur[v] \in Id /\ Abstract!SetAside(cur[v], {})
      BY <1>0, <1>3, RecoverStep
    <2> QED
      BY <2>1 DEF Abstract!Next
  <1>4. CASE Purge(v)
    <2>1. \/ UNCHANGED Abstract!vars
          \/ cur[v] \in Id /\ (Abstract!Part(cur[v]) \/ Abstract!SetAside(cur[v], {}))
      BY <1>4, PurgeStep
    <2>2. CASE cur[v] \in Id /\ Abstract!Part(cur[v])
      BY <2>2 DEF Abstract!Next, Abstract!Part
    <2>3. CASE cur[v] \in Id /\ Abstract!SetAside(cur[v], {})
      <3>1. {} \in SUBSET Source
        OBVIOUS
      <3> QED
        BY <2>3, <3>1 DEF Abstract!Next, Abstract!SetAside
    <2> QED
      BY <2>1, <2>2, <2>3
  <1> QED
    BY <1>1, <1>2, <1>3, <1>4 DEF Run, Reconcile

LEMMA Simulation ==
  ASSUME RInv, IInv', Next
  PROVE  [Abstract!Next]_(Abstract!vars)
  <1>1. CASE \E s \in Source : \/ \E c \in Content : Produce(s, c)
                               \/ ReclaimDead(s) \/ RevokeLive(s)
    <2>1. ASSUME NEW s \in Source, NEW c \in Content, Produce(s, c)
          PROVE  Abstract!Next
      BY <2>1, OfferStep DEF Abstract!Next, RInv
    <2>2. ASSUME NEW s \in Source, ReclaimDead(s) \/ RevokeLive(s)
          PROVE  UNCHANGED Abstract!vars
      <3>1. UNCHANGED disk
        BY <2>2 DEF ReclaimDead, RevokeLive
      <3> QED
        BY <3>1, DiskUntouched
    <2> QED
      BY <1>1, <2>1, <2>2
  <1>2. ASSUME NEW w \in Worker, \/ \E s \in Source : Take(w, s)
                                 \/ Step(w) \/ Fault(w) \/ GiveUp(w) \/ Raise(w)
        PROVE  Abstract!Next \/ UNCHANGED Abstract!vars
    BY <1>2, OwnSimulated
  <1>3. ASSUME NEW v \in Service, Run(v) \/ Crash(v)
        PROVE  Abstract!Next \/ UNCHANGED Abstract!vars
    BY <1>3, ServiceSimulated
  <1> QED
    BY <1>1, <1>2, <1>3 DEF Next

LEMMA RefinesInvariance == Spec => []RInv
  <1>1. Init => RInv
    <2>1. Init => IInv /\ QuietOutside /\ (Alone => NothingToLose)
      BY InitIInv DEF Init, QuietOutside, Quiet, NothingToLose
    <2>2. Init => RecordedFirst /\ Holding
      BY DEF Init, RecordedFirst, Holding, Custodial
    <2> QED
      BY <2>1, <2>2 DEF RInv
  <1>2. RInv /\ [Next]_vars => RInv'
    BY RInvNext
  <1> QED
    BY <1>1, <1>2, PTL DEF Spec

\* Seen from outside, the pipeline takes a file over, announces it as a whole and
\* once, records that and parts with it, or sets it aside (outbound.py:66-127,
\* 264-290, 320-350): for any number of sources, workers and services.
THEOREM Implementation == Spec => ImplementsCustody
  <1>1. Init => Abstract!Init
    BY DEF Init, Abstract!Init, Seen
  <1>2. RInv /\ IInv' /\ [Next]_vars => [Abstract!Next]_(Abstract!vars)
    <2>1. CASE UNCHANGED vars
      BY <2>1, DiskUntouched DEF vars
    <2> QED
      BY <2>1, Simulation
  <1>3. RInv => IInv
    BY DEF RInv
  <1> QED
    BY <1>1, <1>2, <1>3, RefinesInvariance, PTL DEF Spec, ImplementsCustody, Abstract!Spec

=============================================================================
