-------------------------------- MODULE Audit --------------------------------
(***************************************************************************)
(* The audit trail of one technical id (core/audit.py) on the file that     *)
(* holds it, and those who write and read it: the pipelines of the          *)
(* processes, and the reconciler with which every process starts.           *)
(*                                                                         *)
(* append() reads the whole file for the last number, then appends a line   *)
(* and syncs it.  A write that fails half way (the volume is full), or one  *)
(* that a power loss catches before it is synced, leaves the start of a     *)
(* line, or all of it but its newline; what is appended next continues it.  *)
(* So the file is a sequence of chunks, one for each write.                 *)
(*                                                                         *)
(* The lines are written as they are (ensure_ascii=False) and read with     *)
(* str.splitlines(), which also breaks a line at U+0085, U+2028 and U+2029: *)
(* a line that names a file with one of these in its path cannot be read.   *)
(* What is synced is the file, not its directory: a power loss may take a   *)
(* trail whose entry the file system has not committed by itself.           *)
(***************************************************************************)
EXTENDS Naturals, Sequences, FiniteSets

CONSTANTS
  Process,     \* services over one runtime directory
  MaxAppends,  \* bound: calls of append() after which pipelines make none
  MaxTears,    \* bound: writes cut short
  MaxStops     \* bound: crashes and power losses

ASSUME AuditAssumption ==
  /\ MaxAppends \in Nat
  /\ MaxTears \in Nat
  /\ MaxStops \in Nat

VARIABLES
  file,        \* the chunks of <id>.audit.json
  synced,      \* how many of them are on disk
  named,       \* whether the entry of the file is on disk
  splits,      \* whether the path of the item holds one of these separators
  work,        \* whether processing/<id>/ exists
  pc,          \* where each process is
  pending,     \* the line each process is about to write
  returned,    \* history: the lines whose append() has returned
  overlapped,  \* history: an append() has read before another one wrote
  forfeited,   \* history: the lines that went with the entry of the file
  appends, tears, stops

vars == <<file, synced, named, splits, work, pc, pending, returned, overlapped, forfeited,
          appends, tears, stops>>
disk == <<named, splits, forfeited>>

\* The three events that tell of a success, the others a pipeline records, and
\* the one of the reconciler.
Event    == {"success", "progress", "captured"}
Line     == [n : Nat, seq : Nat, event : Event, split : BOOLEAN]
NoLine   == <<>>
Form     == {"whole", "open", "torn"}      \* all of it; without its newline; part of it
Chunk(l, form) == [line |-> l, form |-> form]

TypeOK ==
  /\ file \in Seq([line : Line, form : Form])
  /\ synced \in 0 .. Len(file)
  /\ work \in BOOLEAN
  /\ pc \in [Process -> {"boot", "capture", "idle", "write", "sync"}]
  /\ pending \in [Process -> Line \cup {NoLine}]
  /\ \A p \in Process : pc[p] \in {"write", "sync"} => pending[p] \in Line
  /\ returned \subseteq Line
  /\ overlapped \in BOOLEAN
  /\ named \in BOOLEAN
  /\ splits \in BOOLEAN
  /\ forfeited \subseteq returned
  /\ appends \in Nat
  /\ tears \in 0 .. MaxTears
  /\ stops \in 0 .. MaxStops

\* A chunk is one line when it starts one, nothing was appended to it, and
\* splitlines() does not break it.
Good(f, i) == /\ f[i].form # "torn"
              /\ ~f[i].line.split
              /\ i > 1 => f[i - 1].form = "whole"
              /\ f[i].form = "open" => i = Len(f)

\* Slip: a file that is not there cannot be read.
ReadableIfThere(f) == f # <<>> /\ \A i \in DOMAIN f : Good(f, i)

\* read() raises on the first line that is not one JSON value.
Readable(f) == \A i \in DOMAIN f : Good(f, i)

\* Slip: the number of the last line.
NextSeqOfLast(f) == IF f = <<>> THEN 1 ELSE f[Len(f)].line.seq

\* The number append() chooses: the last of the sorted ones and one.
NextSeq(f) == IF f = <<>> THEN 1
              ELSE 1 + CHOOSE m \in {f[i].line.seq : i \in DOMAIN f} :
                         \A i \in DOMAIN f : f[i].line.seq <= m

HasTerminalSuccess(f) == \E i \in DOMAIN f : f[i].line.event = "success"

Init ==
  /\ file = <<>>
  /\ synced = 0
  /\ named = FALSE
  /\ splits \in BOOLEAN
  /\ forfeited = {}
  /\ work = FALSE
  /\ pc = [p \in Process |-> "boot"]
  /\ pending = [p \in Process |-> NoLine]
  /\ returned = {}
  /\ overlapped = FALSE
  /\ appends = 0
  /\ tears = 0
  /\ stops = 0

Goto(p, l) == pc' = [pc EXCEPT ![p] = l]
Return(p, l) == Goto(p, l) /\ pending' = [pending EXCEPT ![p] = NoLine]
Bounds     == <<tears, stops>>

----------------------------------------------------------------------------
(* append() *)

\* The read, after which the number of the line is settled; the path of the
\* item may be among its details.
Read(p, event, path) ==
  /\ Readable(file)
  /\ pending' = [pending EXCEPT ![p] =
       [n |-> appends + 1, seq |-> NextSeq(file), event |-> event, split |-> path /\ splits]]
  /\ appends' = appends + 1
  /\ overlapped' = (overlapped \/ \E q \in Process \ {p} : pc[q] = "write")
  /\ Goto(p, "write")
  /\ UNCHANGED <<file, synced, returned, disk, Bounds>>

Write(p) ==
  /\ pc[p] = "write"
  /\ file' = Append(file, Chunk(pending[p], "whole"))
  /\ Goto(p, "sync")
  /\ UNCHANGED <<synced, work, pending, returned, overlapped, disk, appends, Bounds>>

\* The write is cut short and raises: the reconciler ends with it, and the
\* service before it has begun; a pipeline goes on to record the error.
WriteShort(p) ==
  /\ pc[p] = "write"
  /\ tears < MaxTears
  /\ \E form \in Form \ {"whole"} : file' = Append(file, Chunk(pending[p], form))
  /\ tears' = tears + 1
  /\ Return(p, IF pending[p].event = "captured" THEN "boot" ELSE "idle")
  /\ UNCHANGED <<synced, work, returned, overlapped, disk, appends, stops>>

\* Slip: append_line() does not sync.
SyncNothing(p) ==
  /\ pc[p] = "sync"
  /\ returned' = returned \cup {pending[p]}
  /\ work' = (work /\ pending[p].event # "captured")
  /\ Return(p, "idle")
  /\ UNCHANGED <<file, synced, overlapped, disk, appends, Bounds>>

\* The line is on disk, and all before it, whether or not the entry is that
\* leads to them; append() returns.  The reconciler then removes the directory.
Sync(p) ==
  /\ pc[p] = "sync"
  /\ synced' = Len(file)
  /\ returned' = returned \cup {pending[p]}
  /\ work' = (work /\ pending[p].event # "captured")
  /\ Return(p, "idle")
  /\ UNCHANGED <<file, overlapped, disk, appends, Bounds>>

----------------------------------------------------------------------------
(* The pipelines *)

\* A pipeline, at work in processing/<id>/, records an event.
Record(p) ==
  /\ pc[p] = "idle"
  /\ appends < MaxAppends
  /\ \E e \in Event \ {"captured"}, path \in BOOLEAN : Read(p, e, path)
  /\ work' = TRUE

\* The trail cannot be read: append() raises, in the pipeline and again in its
\* quarantine, which ends the service; the supervisor starts it again.
ReadRaises(p) ==
  /\ pc[p] = "idle"
  /\ ~Readable(file)
  /\ work' = TRUE
  /\ Goto(p, "boot")
  /\ UNCHANGED <<file, synced, pending, returned, overlapped, disk, appends, Bounds>>

\* A pipeline ends, and removes its directory.
Finish(p) ==
  /\ pc[p] = "idle"
  /\ work
  /\ work' = FALSE
  /\ UNCHANGED <<file, synced, pc, pending, returned, overlapped, disk, appends, Bounds>>

----------------------------------------------------------------------------
(* The start of a service: the reconciler, then the loop *)

NothingLeft(p) ==
  /\ pc[p] = "boot"
  /\ ~work
  /\ Goto(p, "idle")
  /\ UNCHANGED <<file, synced, work, pending, returned, overlapped, disk, appends, Bounds>>

\* A success is recorded: the directory is removed, with what is in it.
Finalize(p) ==
  /\ pc[p] = "boot"
  /\ work
  /\ Readable(file)
  /\ HasTerminalSuccess(file)
  /\ work' = FALSE
  /\ Goto(p, "idle")
  /\ UNCHANGED <<file, synced, pending, returned, overlapped, disk, appends, Bounds>>

\* Slip: the reconciler does not read the trail again before it appends to it.
PreserveUnread(p) ==
  /\ pc[p] = "boot"
  /\ work
  /\ Readable(file)
  /\ ~HasTerminalSuccess(file)
  /\ Goto(p, "write")
  /\ UNCHANGED <<file, synced, work, pending, returned, overlapped, disk, appends, Bounds>>

\* None is: the files are captured, and the capture is recorded.
Preserve(p) ==
  /\ pc[p] = "boot"
  /\ work
  /\ Readable(file)
  /\ ~HasTerminalSuccess(file)
  /\ Goto(p, "capture")
  /\ UNCHANGED <<file, synced, work, pending, returned, overlapped, disk, appends, Bounds>>

RecordCapture(p) ==
  /\ pc[p] = "capture"
  /\ Read(p, "captured", FALSE)
  /\ UNCHANGED work

\* The trail was torn since: the service ends before it has begun.
CaptureRaises(p) ==
  /\ pc[p] = "capture"
  /\ ~Readable(file)
  /\ Goto(p, "boot")
  /\ UNCHANGED <<file, synced, work, pending, returned, overlapped, disk, appends, Bounds>>

----------------------------------------------------------------------------
(* The file system, and crashes *)

\* The file system writes its directories back when it likes.
Commit ==
  /\ file # <<>>
  /\ ~named
  /\ named' = TRUE
  /\ UNCHANGED <<file, synced, splits, work, pc, pending, returned, overlapped, forfeited, appends,
                 Bounds>>

\* A process is killed: what it has written is in the file.
Crash(p) ==
  /\ stops < MaxStops
  /\ pc[p] # "boot"
  /\ Return(p, "boot")
  /\ stops' = stops + 1
  /\ UNCHANGED <<file, synced, work, returned, overlapped, disk, appends, tears>>

Blackout ==
  /\ stops < MaxStops
  /\ stops' = stops + 1
  /\ pc' = [p \in Process |-> "boot"]
  /\ pending' = [p \in Process |-> NoLine]
  /\ UNCHANGED <<splits, returned, overlapped, appends>>

\* The entry of the file is not on disk: nothing is left of it, and of the
\* directory there may be.
LoseTrail ==
  /\ Blackout
  /\ ~named
  /\ file' = <<>>
  /\ synced' = 0
  /\ forfeited' = returned
  /\ work' \in {work, FALSE}
  /\ UNCHANGED <<named, tears>>

\* It is: what is not synced is there, cut short, or not there.
PowerLoss ==
  /\ Blackout
  /\ named
  /\ \E k \in synced .. Len(file) :
       \/ /\ file' = SubSeq(file, 1, k)
          /\ synced' = k
          /\ UNCHANGED tears
       \/ /\ k < Len(file)
          /\ tears < MaxTears
          /\ tears' = tears + 1
          /\ \E form \in IF file[k + 1].form = "whole" THEN {"open", "torn"} ELSE {"torn"} :
               file' = Append(SubSeq(file, 1, k), Chunk(file[k + 1].line, form))
          /\ synced' = k + 1
  /\ work' \in {work, FALSE}
  /\ UNCHANGED <<named, forfeited>>

----------------------------------------------------------------------------

Next ==
  \/ \E p \in Process :
       \/ Record(p) \/ ReadRaises(p) \/ Finish(p)
       \/ Write(p) \/ WriteShort(p) \/ Sync(p)
       \/ NothingLeft(p) \/ Finalize(p) \/ Preserve(p) \/ RecordCapture(p) \/ CaptureRaises(p)
       \/ Crash(p)
  \/ Commit \/ PowerLoss \/ LoseTrail

\* A process that starts is not suspended: its reconciler runs to the end, and
\* so does the append() it makes.
Fairness ==
  \A p \in Process :
    /\ WF_vars(NothingLeft(p) \/ Finalize(p) \/ Preserve(p))
    /\ WF_vars(RecordCapture(p) \/ CaptureRaises(p))
    /\ WF_vars(Write(p))
    /\ WF_vars(Sync(p))

Spec == Init /\ [][Next]_vars /\ Fairness

----------------------------------------------------------------------------
(* Properties *)

\* The events are numbered 1, 2, 3, ... in the order in which they were
\* appended, whatever was lost or torn before, unless the read of one
\* append() was overtaken by the write of another (audit.py:42-43; the
\* docstring at audit.py:3 promises as much of the file).
NumberedInOrder == overlapped \/ \A i \in DOMAIN file : file[i].line.seq = i

\* An event whose append() has returned can be read from the file for good,
\* whatever else is torn, unless its line tells a path that splitlines()
\* breaks, or the whole trail went with an entry nobody had synced, but for
\* one event for each write that was ever cut short: the one that was glued
\* to it (append_line, local_file_store.py:104).
Readably(l) == \E i \in DOMAIN file : file[i].line = l /\ Good(file, i)
TearsCostOneEach ==
  Cardinality({l \in returned \ forfeited : ~l.split /\ ~Readably(l)}) <= tears

\* As long as no write was cut short, and the path of the item holds no
\* separator of lines, a service that starts gets to its loop, whatever crash
\* or power loss it starts from (Service.run, runner.py:132).
Starts == ~splits /\ [](tears = 0) => \A p \in Process : pc[p] = "boot" ~> pc[p] = "idle"

----------------------------------------------------------------------------
(* What documents and comments say, and the code does not do *)

\* The start of the service as the operations guide has it: the reconciler
\* resolves what a stop has left, whatever it was.
StartsWhateverHappened == \A p \in Process : pc[p] = "boot" ~> pc[p] = "idle"

\* A file whose name is legal costs no more than itself: where no write was
\* cut short, a service that starts gets to its loop (audit.py:64).
NameHarmsNoStart == [](tears = 0) => \A p \in Process : pc[p] = "boot" ~> pc[p] = "idle"

\* The audit is the durable history of the file: what was appended can be
\* read, where no write was cut short (audit.py:55).
HistoryIsDurable == tears = 0 => \A l \in returned : l.split \/ Readably(l)

\* The history is what a replay of the file by number gives: an event has a
\* higher number than those appended before it.
ReplayIsHistory ==
  \A i, j \in DOMAIN file : i < j => file[i].line.seq < file[j].line.seq

=============================================================================
