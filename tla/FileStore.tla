------------------------------ MODULE FileStore ------------------------------
(***************************************************************************)
(* LocalFileStore (adapters/local_file_store.py): atomic_move, within a     *)
(* volume and across two, and atomic_write_bytes, one system call at a      *)
(* time, on a file system that keeps in memory what nobody has synced.      *)
(*                                                                         *)
(* An entry of a directory names an inode; a process that has an inode open *)
(* goes on reading or writing it whatever happens to the entry.  A volume   *)
(* journals its directories, and so commits all their changes so far or     *)
(* none; blocks reach the disk in any order, when they are synced at the    *)
(* latest.  A power loss leaves what is on disk.  The business application  *)
(* creates and replaces the sources, and syncs what it writes.              *)
(***************************************************************************)
EXTENDS Naturals, FiniteSets

CONSTANTS
  Source, Dest,  \* paths files are moved from, and to
  Volume,        \* the volume of each of them
  Call,          \* calls of atomic_move and atomic_write_bytes, each made once
  From,          \* the source of a call, or None for atomic_write_bytes
  To,            \* the destination of a call
  Version,       \* what the application writes, each once
  Inode,         \* bound: files and copies that exist together
  None,          \* no file, nothing written
  MaxLosses      \* bound: power losses

VARIABLES
  dir,       \* what each path names, as processes see it
  data,      \* the blocks of each inode, as processes see them
  kept,      \* the entries that are on disk
  disk,      \* the blocks that are on disk
  pc,        \* where each call is
  rd, wr,    \* the inodes a call reads and writes
  next,      \* the block a call copies next
  written,   \* history: the versions the application has written
  waived,    \* history: versions replaced by the application, or written at
             \* a source while a call was copying it
  unsynced,  \* history: versions whose destination was not synced, because
             \* fsync of a directory failed or is not to be had
  losses     \* history: power losses

vars == <<dir, data, kept, disk, pc, rd, wr, next, written, waived, unsynced, losses>>
memory == <<dir, data>>
durable == <<kept, disk>>
call == <<pc, rd, wr, next>>
history == <<written, waived, unsynced, losses>>

Block   == 1 .. 2
Content == [Block -> Version \cup Call \cup {None}]
Place   == Source \cup Dest
Temp(d) == <<d, "partial">>       \* dst.partial, or dst.tmp
Path    == Place \cup {Temp(d) : d \in Dest}
VolumeOf(p) == IF p \in Place THEN Volume[p] ELSE Volume[p[1]]
Volumes == {Volume[p] : p \in Place}
Move    == {c \in Call : From[c] # None}
Whole(v) == [b \in Block |-> v]
Empty    == Whole(None)

ASSUME StoreAssumption ==
  /\ Source \cap Dest = {}
  /\ \A d \in Dest : Temp(d) \notin Place
  /\ None \notin Source \cup Version \cup Call \cup Inode
  /\ Version \cap Call = {}
  /\ From \in [Call -> Source \cup {None}]
  /\ To \in [Call -> Dest]
  /\ MaxLosses \in Nat

Copying == {"open", "copy", "sync", "rename", "syncdir", "unlink"}

TypeOK ==
  /\ dir \in [Path -> Inode \cup {None}]
  /\ kept \in [Path -> Inode \cup {None}]
  /\ data \in [Inode -> Content]
  /\ disk \in [Inode -> Content]
  /\ pc \in [Call -> Copying \cup {"idle", "done", "failed"}]
  /\ rd \in [Call -> Inode \cup {None}]
  /\ wr \in [Call -> Inode \cup {None}]
  /\ next \in [Call -> 1 .. 3]
  /\ \A c \in Call : pc[c] = "copy" => next[c] \in Block
  /\ written \subseteq Version
  /\ waived \subseteq Version
  /\ unsynced \subseteq Version
  /\ losses \in 0 .. MaxLosses

Init ==
  /\ dir = [p \in Path |-> None]
  /\ kept = dir
  /\ data = [i \in Inode |-> Empty]
  /\ disk = data
  /\ pc = [c \in Call |-> "idle"]
  /\ rd = [c \in Call |-> None]
  /\ wr = rd
  /\ next = [c \in Call |-> 1]
  /\ written = {}
  /\ waived = {}
  /\ unsynced = {}
  /\ losses = 0

Goto(c, l) == /\ pc' = [pc EXCEPT ![c] = l]
              /\ UNCHANGED <<rd, wr, next>>

\* The call ends, and its descriptors are closed.
Return(c, l) == /\ pc' = [pc EXCEPT ![c] = l]
                /\ rd' = [rd EXCEPT ![c] = None]
                /\ wr' = [wr EXCEPT ![c] = None]
                /\ next' = [next EXCEPT ![c] = 1]

\* What a volume's journal commits.
Committed(entries, vol) ==
  [p \in Path |-> IF VolumeOf(p) = vol THEN entries[p] ELSE kept[p]]

Free == {i \in Inode : /\ \A p \in Path : i \notin {dir[p], kept[p]}
                       /\ \A c \in Call : i \notin {rd[c], wr[c]}}

----------------------------------------------------------------------------
(* The business application and the disk *)

VersionsIn(i) == IF i = None THEN {} ELSE {data[i][b] : b \in Block} \cap Version
Busy(s)  == \E c \in Call : From[c] = s /\ pc[c] \in Copying
Written(v, s) ==
  /\ written' = written \cup {v}
  /\ waived' = waived \cup VersionsIn(dir[s]) \cup (IF Busy(s) THEN {v} ELSE {})

\* A file is created at the source, or replaces the one there.
Submit(v, s) ==
  /\ v \notin written
  /\ \E i \in Free :
       /\ dir' = [dir EXCEPT ![s] = i]
       /\ data' = [data EXCEPT ![i] = Whole(v)]
       /\ disk' = [disk EXCEPT ![i] = Whole(v)]
  /\ kept' = Committed(dir', VolumeOf(s))
  /\ Written(v, s)
  /\ UNCHANGED <<call, unsynced, losses>>

\* The file at the source is written over in place.
Overwrite(v, s) ==
  /\ v \notin written
  /\ dir[s] # None
  /\ data' = [data EXCEPT ![dir[s]] = Whole(v)]
  /\ disk' = [disk EXCEPT ![dir[s]] = Whole(v)]
  /\ Written(v, s)
  /\ UNCHANGED <<dir, kept, call, unsynced, losses>>

Commit(vol) ==
  /\ kept # Committed(dir, vol)
  /\ kept' = Committed(dir, vol)
  /\ UNCHANGED <<memory, disk, call, history>>

\* Of the blocks that were not synced, any may have reached the disk.
PowerLoss ==
  /\ losses < MaxLosses
  /\ losses' = losses + 1
  /\ dir' = kept
  /\ \E saved \in SUBSET {x \in Inode \X Block : data[x[1]][x[2]] # disk[x[1]][x[2]]} :
       data' = [i \in Inode |-> [b \in Block |->
                  IF <<i, b>> \in saved THEN data[i][b] ELSE disk[i][b]]]
  /\ disk' = data'
  /\ pc' = [c \in Call |-> IF pc[c] \in Copying THEN "failed" ELSE pc[c]]
  /\ rd' = [c \in Call |-> None]
  /\ wr' = [c \in Call |-> None]
  /\ next' = [c \in Call |-> 1]
  /\ UNCHANGED <<kept, written, waived, unsynced>>

----------------------------------------------------------------------------
(* atomic_move *)

\* os.replace(src, dst): it succeeds within a volume; across two it fails, as
\* it does without a source, and the file is to be copied.
Replace(c) ==
  /\ pc[c] = "idle" /\ c \in Move
  /\ IF dir[From[c]] # None /\ VolumeOf(From[c]) = VolumeOf(To[c])
     THEN /\ dir' = [dir EXCEPT ![From[c]] = None, ![To[c]] = dir[From[c]]]
          /\ Return(c, "done")
     ELSE /\ Goto(c, "open")
          /\ UNCHANGED dir
  /\ UNCHANGED <<data, durable, history>>

\* open(tmp, "wb"): a file that is there is truncated, not replaced.
Truncate(c) ==
  LET tmp == dir[Temp(To[c])] IN
  \E i \in IF tmp = None THEN Free ELSE {tmp} :
    /\ dir' = [dir EXCEPT ![Temp(To[c])] = i]
    /\ data' = [data EXCEPT ![i] = Empty]
    /\ wr' = [wr EXCEPT ![c] = i]

\* copyfile opens the source, then the copy.
Open(c) ==
  /\ pc[c] = "open"
  /\ dir[From[c]] # None
  /\ rd' = [rd EXCEPT ![c] = dir[From[c]]]
  /\ Truncate(c)
  /\ pc' = [pc EXCEPT ![c] = "copy"]
  /\ UNCHANGED <<durable, next, history>>

\* Slip: the copy goes on past the last block.
CopyPastEnd(c) ==
  /\ pc[c] = "copy"
  /\ LET block == IF c \in Move THEN data[rd[c]][next[c]] ELSE c
     IN  data' = [data EXCEPT ![wr[c]][next[c]] = block]
  /\ next' = [next EXCEPT ![c] = @ + 1]
  /\ pc' = [pc EXCEPT ![c] = IF next[c] \in Block THEN "copy" ELSE "sync"]
  /\ UNCHANGED <<dir, durable, rd, wr, history>>

\* One block is read and written.  atomic_write_bytes has them in memory.
Copy(c) ==
  /\ pc[c] = "copy"
  /\ LET block == IF c \in Move THEN data[rd[c]][next[c]] ELSE c
     IN  data' = [data EXCEPT ![wr[c]][next[c]] = block]
  /\ next' = [next EXCEPT ![c] = @ + 1]
  /\ pc' = [pc EXCEPT ![c] = IF next[c] = 1 THEN "copy" ELSE "sync"]
  /\ UNCHANGED <<dir, durable, rd, wr, history>>

\* Slip: the copy is renamed before its contents are synced.
SyncLater(c) ==
  /\ pc[c] = "sync"
  /\ Goto(c, "rename")
  /\ UNCHANGED <<memory, durable, history>>

\* A move opens the copy by its name to sync it; a write has it open.
Sync(c) ==
  /\ pc[c] = "sync"
  /\ LET i == IF c \in Move THEN dir[Temp(To[c])] ELSE wr[c]
     IN  /\ i # None
         /\ disk' = [disk EXCEPT ![i] = data[i]]
  /\ Goto(c, "rename")
  /\ UNCHANGED <<memory, kept, history>>

\* os.replace(tmp, dst); atomic_write_bytes ends here.
Rename(c) ==
  /\ pc[c] = "rename"
  /\ dir[Temp(To[c])] # None
  /\ dir' = [dir EXCEPT ![Temp(To[c])] = None, ![To[c]] = dir[Temp(To[c])]]
  /\ IF c \in Move THEN Goto(c, "syncdir") ELSE Return(c, "done")
  /\ UNCHANGED <<data, durable, history>>

\* Slip: the directory of the source is synced.
SyncParentOfSource(c) ==
  /\ pc[c] = "syncdir"
  /\ kept' = Committed(dir, VolumeOf(From[c]))
  /\ Goto(c, "unlink")
  /\ UNCHANGED <<memory, disk, history>>

\* _fsync_dir passes over every error.
SyncDir(c) ==
  /\ pc[c] = "syncdir"
  /\ \/ kept' = Committed(dir, VolumeOf(To[c])) /\ UNCHANGED unsynced
     \/ unsynced' = unsynced \cup VersionsIn(dir[To[c]]) /\ UNCHANGED kept
  /\ Goto(c, "unlink")
  /\ UNCHANGED <<memory, disk, written, waived, losses>>

\* Slip: remove() of the same class, which takes a missing file for removed.
Remove(c) ==
  /\ pc[c] = "unlink"
  /\ dir' = [dir EXCEPT ![From[c]] = None]
  /\ Return(c, "done")
  /\ UNCHANGED <<data, durable, history>>

\* os.unlink(src), whatever file is there by now.
Unlink(c) ==
  /\ pc[c] = "unlink"
  /\ dir[From[c]] # None
  /\ dir' = [dir EXCEPT ![From[c]] = None]
  /\ Return(c, "done")
  /\ UNCHANGED <<data, durable, history>>

\* A system call raises, and the handler of a move removes the copy, if it
\* can; or the process ends, and the copy stays.
Fail(c) ==
  /\ pc[c] \in Copying
  /\ Return(c, "failed")
  /\ \/ c \in Move /\ dir' = [dir EXCEPT ![Temp(To[c])] = None]
     \/ UNCHANGED dir
  /\ UNCHANGED <<data, durable, history>>

----------------------------------------------------------------------------
(* atomic_write_bytes *)

OpenTemp(c) ==
  /\ pc[c] = "idle" /\ c \notin Move
  /\ Truncate(c)
  /\ pc' = [pc EXCEPT ![c] = "copy"]
  /\ UNCHANGED <<durable, rd, next, history>>

----------------------------------------------------------------------------

Next ==
  \/ \E v \in Version, s \in Source : Submit(v, s) \/ Overwrite(v, s)
  \/ \E vol \in Volumes : Commit(vol)
  \/ PowerLoss
  \/ \E c \in Call : \/ Replace(c) \/ Open(c) \/ Copy(c) \/ Sync(c) \/ Rename(c)
                     \/ SyncDir(c) \/ Unlink(c) \/ Fail(c) \/ OpenTemp(c)

Spec == Init /\ [][Next]_vars

\* No two calls have the same destination: a directory of processing/ has a
\* fresh id in its path.  Deliveries may share one.
OwnDestinations == \A c, k \in Call : To[c] = To[k] => c = k

----------------------------------------------------------------------------
(* Properties *)

\* An inode holds a whole version, in memory and on disk.
Holds(i, v) == data[i] = Whole(v) /\ disk[i] = Whole(v)
Named(entries, v, vol) ==
  \E p \in Place : VolumeOf(p) = vol /\ entries[p] # None /\ Holds(entries[p], v)

\* No file is lost: what the application wrote and did not replace is whole
\* at a path that readers look at, and would be after a power loss at any
\* moment, though the volumes commit in any order (outbound.py:7, "the source
\* is never lost").  It lapses for a file that is written while its
\* predecessor is being copied, which unlink takes for the one it copied, and
\* where a directory cannot be synced.
NoLoss ==
  \A v \in written \ (waived \cup unsynced) :
    \E vol \in Volumes : Named(dir, v, vol) /\ Named(kept, v, vol)

\* A reader of a destination never observes a partial file
\* (docs/en/03-state-management.md:91), after a power loss either: what has a
\* final name is one whole version, or was written over while it was copied.
DestinationWhole ==
  \A d \in Dest :
    dir[d] # None => \/ \E v \in Version \cup Call : data[dir[d]] = Whole(v)
                     \/ VersionsIn(dir[d]) \cap waived # {}

\* The abstract store: a move is atomic, and one call of several succeeds.
Outcome(c) == CASE pc[c] = "done"   -> "moved"
                [] pc[c] = "failed" -> "failed"
                [] OTHER            -> "pending"
Abstract == INSTANCE Relocation
            WITH Call    <- Move,
                 present <- {s \in Source : dir[s] # None},
                 outcome <- [c \in Move |-> Outcome(c)]

\* Though a move across volumes is a copy and an unlink, with other calls at
\* work on the same source, it is atomic to its callers: it takes the file
\* and returns, or raises and takes nothing (ports/file_store.py:37-43).
ImplementsRelocation == Abstract!Spec

=============================================================================
