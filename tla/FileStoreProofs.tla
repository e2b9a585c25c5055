--------------------------- MODULE FileStoreProofs ---------------------------
(***************************************************************************)
(* Proofs about FileStore, for any sources, destinations, volumes, calls,   *)
(* versions and power losses, as long as no two calls have one destination. *)
(*                                                                         *)
(* Calls and Names say who may change which inode: a copy is written by its *)
(* call alone, and has no final name before it is whole and on disk.        *)
(* Copies says what is in a copy; Whole and Left what is in a file that has *)
(* a name, and what may have become of the source meanwhile.                *)
(***************************************************************************)
EXTENDS FileStore, TLAPS

USE StoreAssumption DEF StoreAssumption

Before  == {"idle", "open"}
Filling == {"copy", "sync", "rename"}
Placed  == {"syncdir", "unlink"}

CallOK(c) ==
  /\ pc[c] \in {"open"} \cup Placed => c \in Move
  /\ pc[c] \in Before => dir[Temp(To[c])] = None /\ kept[Temp(To[c])] = None
  /\ pc[c] \in Before \cup Filling => dir[To[c]] = None /\ kept[To[c]] = None
  /\ pc[c] \in Filling => wr[c] \in Inode /\ dir[Temp(To[c])] = wr[c]
  /\ pc[c] \in Placed => wr[c] \in Inode /\ dir[To[c]] = wr[c]
  /\ pc[c] \in Filling \cup Placed /\ c \in Move => rd[c] \in Inode
  /\ pc[c] \notin Filling \cup Placed => wr[c] = None /\ rd[c] = None /\ next[c] = 1
  /\ pc[c] \in Placed \cup {"sync", "rename"} => next[c] = 3
  /\ c \notin Move => rd[c] = None
Calls == \A c \in Call : CallOK(c)

\* The copy a call writes is nobody else's ...
OwnCopy(c) ==
  wr[c] # None =>
    /\ \A k \in Call : rd[k] # wr[c] /\ (k # c => wr[k] # wr[c])
    /\ \A s \in Source : dir[s] # wr[c] /\ kept[s] # wr[c]
    /\ pc[c] \in Filling => \A p \in Path : dir[p] = wr[c] \/ kept[p] = wr[c] => p =
       Temp(To[c])
OwnCopies == \A c \in Call : OwnCopy(c)
\* ... and a source is at its path alone.
OwnSource(s) ==
  /\ dir[s] # None => /\ kept[s] = dir[s]
                      /\ \A p \in Path \ {s} : dir[p] # dir[s]
                      /\ \A c \in Call : rd[c] = dir[s] => From[c] = s
  /\ kept[s] # None => /\ \A p \in Path \ {s} : kept[p] # kept[s]
                       /\ \A p \in Path : dir[p] = kept[s] => VolumeOf(p) = VolumeOf(s)
OwnSources == \A s \in Source : OwnSource(s)
\* A source that would come back was moved.
Undone == \A s \in Source : kept[s] # None /\ dir[s] = None =>
            \E c \in Move : From[c] = s /\ pc[c] = "done"

Shape == TypeOK /\ Calls /\ OwnCopies /\ OwnSources /\ Undone

\* What is at a source.
Sound(i) == \E v \in Version : Holds(i, v)
\* What may be at a destination.
Good(i) == /\ disk[i] = data[i]
           /\ \/ \E v \in Version \cup Call : data[i] = Whole(v)
              \/ VersionsIn(i) \cap waived # {}
SourcesSound == /\ \A s \in Source : dir[s] # None => Sound(dir[s])
                /\ \A s \in Source : kept[s] # None => Sound(kept[s])
                /\ \A c \in Call : rd[c] # None => Sound(rd[c])
DestsGood == \A d \in Dest : /\ dir[d] # None => Good(dir[d])
                             /\ kept[d] # None => Good(kept[d])

\* Each block a call has copied is that of its source, unless the source was
\* written over since.
BlockOK(c, b) ==
  IF c \in Move
  THEN /\ data[wr[c]][b] \in Version
       /\ \/ data[wr[c]][b] = data[rd[c]][b]
          \/ data[wr[c]][b] \in waived /\ data[rd[c]][b] \in waived
  ELSE data[wr[c]][b] = c
CopyOK(c) ==
  pc[c] \in Filling \cup Placed =>
    /\ \A b \in Block : b < next[c] => BlockOK(c, b)
    /\ pc[c] \in {"rename"} \cup Placed => disk[wr[c]] = data[wr[c]]
    /\ pc[c] = "unlink" => kept[To[c]] = wr[c] \/ VersionsIn(wr[c]) \subseteq unsynced
Copies == \A c \in Call : CopyOK(c)
\* The source of a call is what it reads, or was submitted since.
Left == \A c \in Move :
          pc[c] \in Filling \cup Placed =>
            dir[From[c]] \in {None, rd[c]} \/ VersionsIn(dir[From[c]]) \subseteq waived

Contents == SourcesSound /\ DestsGood /\ Copies /\ Left

IInv == Shape /\ Contents /\ NoLoss

----------------------------------------------------------------------------

LEMMA Paths ==
  /\ Source \subseteq Path /\ Dest \subseteq Path
  /\ \A d \in Dest : Temp(d) \in Path /\ Temp(d) \notin Source /\ Temp(d) \notin Dest
  /\ \A d \in Dest : VolumeOf(Temp(d)) = VolumeOf(d)
  /\ \A d, e \in Dest : Temp(d) = Temp(e) => d = e
  BY DEF Path, Place, Temp, VolumeOf

LEMMA Constants ==
  /\ Move \subseteq Call
  /\ \A c \in Move : From[c] \in Source
  /\ \A c \in Call : c \notin Move => From[c] = None
  /\ \A c \in Call : To[c] \in Dest
  /\ \A p \in Place : VolumeOf(p) \in Volumes
  BY DEF Move, Volumes, VolumeOf

LEMMA SubmitShape ==
  ASSUME Shape, OwnDestinations, NEW v \in Version, NEW s \in Source, Submit(v, s)
  PROVE  Shape'
  <1> USE Paths, Constants DEF Submit, Written, Committed, Free, memory, durable,
     call, history, Shape
  <1>1. TypeOK'
    BY DEF TypeOK, Copying, Before, Filling, Placed, Content, Block, Whole, Empty,
       VersionsIn
  <1>2. Calls'
    BY DEF TypeOK, Copying, Before, Filling, Placed, Calls, CallOK, OwnDestinations
  <1>3. OwnCopies'
    BY DEF TypeOK, Copying, Before, Filling, Placed, Calls, CallOK, OwnCopies,
       OwnCopy, OwnSources, OwnSource
  <1>4. OwnSources'
    BY DEF TypeOK, Copying, Before, Filling, Placed, Calls, CallOK, OwnCopies,
       OwnCopy, OwnSources, OwnSource
  <1>5. Undone'
    BY DEF TypeOK, Copying, Before, Filling, Placed, OwnSources, OwnSource, Undone,
       Calls, CallOK
  <1> QED
    BY <1>1, <1>2, <1>3, <1>4, <1>5

LEMMA OverwriteShape ==
  ASSUME Shape, OwnDestinations, NEW v \in Version, NEW s \in Source, Overwrite(v, s)
  PROVE  Shape'
  <1> USE Paths, Constants DEF Overwrite, Written, memory, durable, call, history, Shape
  <1>1. TypeOK'
    BY DEF TypeOK, Copying, Before, Filling, Placed, Content, Block, Whole, Empty,
       VersionsIn
  <1>2. Calls'
    BY DEF TypeOK, Copying, Before, Filling, Placed, Calls, CallOK, OwnDestinations
  <1>3. OwnCopies'
    BY DEF TypeOK, Copying, Before, Filling, Placed, Calls, CallOK, OwnCopies,
       OwnCopy, OwnSources, OwnSource
  <1>4. OwnSources'
    BY DEF TypeOK, Copying, Before, Filling, Placed, Calls, CallOK, OwnCopies,
       OwnCopy, OwnSources, OwnSource
  <1>5. Undone'
    BY DEF TypeOK, Copying, Before, Filling, Placed, OwnSources, OwnSource, Undone,
       Calls, CallOK
  <1> QED
    BY <1>1, <1>2, <1>3, <1>4, <1>5

LEMMA CommitShape ==
  ASSUME Shape, OwnDestinations, NEW vol \in Volumes, Commit(vol)
  PROVE  Shape'
  <1> USE Paths, Constants DEF Commit, Committed, memory, durable, call, history, Shape
  <1>1. TypeOK'
    BY DEF TypeOK, Copying, Before, Filling, Placed, Content, Block, Whole, Empty,
       VersionsIn
  <1>2. Calls'
    BY DEF TypeOK, Copying, Before, Filling, Placed, Calls, CallOK, OwnDestinations
  <1>3. OwnCopies'
    BY DEF TypeOK, Copying, Before, Filling, Placed, Calls, CallOK, OwnCopies,
       OwnCopy, OwnSources, OwnSource
  <1>4. OwnSources'
    BY DEF TypeOK, Copying, Before, Filling, Placed, Calls, CallOK, OwnCopies,
       OwnCopy, OwnSources, OwnSource
  <1>5. Undone'
    BY DEF TypeOK, Copying, Before, Filling, Placed, OwnSources, OwnSource, Undone,
       Calls, CallOK
  <1> QED
    BY <1>1, <1>2, <1>3, <1>4, <1>5

LEMMA PowerLossShape ==
  ASSUME Shape, OwnDestinations, PowerLoss
  PROVE  Shape'
  <1> USE Paths, Constants DEF PowerLoss, memory, durable, call, history, Shape
  <1>1. TypeOK'
    BY DEF TypeOK, Copying, Before, Filling, Placed, Content, Block, Whole, Empty,
       VersionsIn
  <1>2. Calls'
    BY DEF TypeOK, Copying, Before, Filling, Placed, Calls, CallOK, OwnDestinations
  <1>3. OwnCopies'
    BY DEF TypeOK, Copying, Before, Filling, Placed, Calls, CallOK, OwnCopies,
       OwnCopy, OwnSources, OwnSource
  <1>4. OwnSources'
    BY DEF TypeOK, Copying, Before, Filling, Placed, Calls, CallOK, OwnCopies,
       OwnCopy, OwnSources, OwnSource
  <1>5. Undone'
    BY DEF TypeOK, Copying, Before, Filling, Placed, OwnSources, OwnSource, Undone,
       Calls, CallOK
  <1> QED
    BY <1>1, <1>2, <1>3, <1>4, <1>5

LEMMA ReplaceShape ==
  ASSUME Shape, OwnDestinations, NEW c \in Call, Replace(c)
  PROVE  Shape'
  <1> USE Paths, Constants DEF Replace, Goto, Return, memory, durable, call, history, Shape
  <1>1. TypeOK'
    <2>1. dir' \in [Path -> Inode \cup {None}]
      BY DEF TypeOK
    <2>2. data' \in [Inode -> Content] /\ disk' \in [Inode -> Content]
      BY DEF TypeOK
    <2>3. /\ rd' \in [Call -> Inode \cup {None}] /\ wr' \in [Call -> Inode \cup {None}]
          /\ next' \in [Call -> 1 .. 3]
      BY DEF TypeOK, Copying, Block
    <2>4. pc' \in [Call -> Copying \cup {"idle", "done", "failed"}]
      BY DEF TypeOK, Copying
    <2>5. \A k \in Call : pc'[k] = "copy" => next'[k] \in Block
      BY DEF TypeOK, Copying, Block
    <2> QED
      BY <2>1, <2>2, <2>3, <2>4, <2>5 DEF TypeOK
  <1>2. Calls'
    BY DEF TypeOK, Copying, Before, Filling, Placed, Calls, CallOK, OwnDestinations
  <1>3. OwnCopies'
    BY DEF TypeOK, Copying, Before, Filling, Placed, Calls, CallOK, OwnCopies,
       OwnCopy, OwnSources, OwnSource
  <1>4. OwnSources'
    BY DEF TypeOK, Copying, Before, Filling, Placed, Calls, CallOK, OwnCopies,
       OwnCopy, OwnSources, OwnSource
  <1>5. Undone'
    BY DEF TypeOK, Copying, Before, Filling, Placed, OwnSources, OwnSource, Undone,
       Calls, CallOK
  <1> QED
    BY <1>1, <1>2, <1>3, <1>4, <1>5

LEMMA OpenShape ==
  ASSUME Shape, OwnDestinations, NEW c \in Call, Open(c)
  PROVE  Shape'
  <1> USE Paths, Constants DEF Open, Truncate, Free, memory, durable, call, history, Shape
  <1>1. TypeOK'
    <2>0. c \in Move
      BY DEF Calls, CallOK, Placed
    <2>1. dir' \in [Path -> Inode \cup {None}]
      BY <2>0 DEF TypeOK
    <2>2. data' \in [Inode -> Content] /\ disk' \in [Inode -> Content]
      BY DEF TypeOK, Content, Block, Empty, Whole
    <2>3. /\ rd' \in [Call -> Inode \cup {None}] /\ wr' \in [Call -> Inode \cup {None}]
          /\ next' \in [Call -> 1 .. 3]
      BY DEF TypeOK, Block, Calls, CallOK, Filling, Placed
    <2>4. pc' \in [Call -> Copying \cup {"idle", "done", "failed"}]
      BY DEF TypeOK, Copying
    <2>5. \A k \in Call : pc'[k] = "copy" => next'[k] \in Block
      BY DEF TypeOK, Block, Calls, CallOK, Filling, Placed
    <2> QED
      BY <2>1, <2>2, <2>3, <2>4, <2>5 DEF TypeOK
  <1>2. Calls'
    BY DEF TypeOK, Copying, Before, Filling, Placed, Calls, CallOK, OwnDestinations
  <1>3. OwnCopies'
    BY DEF TypeOK, Copying, Before, Filling, Placed, Calls, CallOK, OwnCopies,
       OwnCopy, OwnSources, OwnSource
  <1>4. OwnSources'
    BY DEF TypeOK, Copying, Before, Filling, Placed, Calls, CallOK, OwnCopies,
       OwnCopy, OwnSources, OwnSource
  <1>5. Undone'
    BY DEF TypeOK, Copying, Before, Filling, Placed, OwnSources, OwnSource, Undone,
       Calls, CallOK
  <1> QED
    BY <1>1, <1>2, <1>3, <1>4, <1>5

LEMMA OpenTempShape ==
  ASSUME Shape, OwnDestinations, NEW c \in Call, OpenTemp(c)
  PROVE  Shape'
  <1> USE Paths, Constants DEF OpenTemp, Truncate, Free, memory, durable, call,
     history, Shape
  <1>1. TypeOK'
    <2>1. dir' \in [Path -> Inode \cup {None}]
      BY DEF TypeOK
    <2>2. data' \in [Inode -> Content] /\ disk' \in [Inode -> Content]
      BY DEF TypeOK, Content, Block, Empty, Whole
    <2>3. /\ rd' \in [Call -> Inode \cup {None}] /\ wr' \in [Call -> Inode \cup {None}]
          /\ next' \in [Call -> 1 .. 3]
      BY DEF TypeOK, Block, Calls, CallOK, Filling, Placed
    <2>4. pc' \in [Call -> Copying \cup {"idle", "done", "failed"}]
      BY DEF TypeOK, Copying
    <2>5. \A k \in Call : pc'[k] = "copy" => next'[k] \in Block
      BY DEF TypeOK, Block, Calls, CallOK, Filling, Placed
    <2> QED
      BY <2>1, <2>2, <2>3, <2>4, <2>5 DEF TypeOK
  <1>2. Calls'
    BY DEF TypeOK, Copying, Before, Filling, Placed, Calls, CallOK, OwnDestinations
  <1>3. OwnCopies'
    BY DEF TypeOK, Copying, Before, Filling, Placed, Calls, CallOK, OwnCopies,
       OwnCopy, OwnSources, OwnSource
  <1>4. OwnSources'
    BY DEF TypeOK, Copying, Before, Filling, Placed, Calls, CallOK, OwnCopies,
       OwnCopy, OwnSources, OwnSource
  <1>5. Undone'
    BY DEF TypeOK, Copying, Before, Filling, Placed, OwnSources, OwnSource, Undone,
       Calls, CallOK
  <1> QED
    BY <1>1, <1>2, <1>3, <1>4, <1>5

LEMMA CopyShape ==
  ASSUME Shape, OwnDestinations, NEW c \in Call, Copy(c)
  PROVE  Shape'
  <1> USE Paths, Constants DEF Copy, memory, durable, call, history, Shape
  <1>1. TypeOK'
    <2>0. /\ wr[c] \in Inode /\ next[c] \in Block
          /\ c \in Move => rd[c] \in Inode
      BY DEF TypeOK, Calls, CallOK, Filling
    <2>1. dir' \in [Path -> Inode \cup {None}]
      BY DEF TypeOK
    <2>2. data' \in [Inode -> Content] /\ disk' \in [Inode -> Content]
      BY <2>0 DEF TypeOK, Content
    <2>3. /\ rd' \in [Call -> Inode \cup {None}] /\ wr' \in [Call -> Inode \cup {None}]
          /\ next' \in [Call -> 1 .. 3]
      BY <2>0 DEF TypeOK, Block
    <2>4. pc' \in [Call -> Copying \cup {"idle", "done", "failed"}]
      BY DEF TypeOK, Copying
    <2>5. \A k \in Call : pc'[k] = "copy" => next'[k] \in Block
      BY <2>0 DEF TypeOK, Block
    <2> QED
      BY <2>1, <2>2, <2>3, <2>4, <2>5 DEF TypeOK
  <1>2. Calls'
    <2>0. /\ wr[c] \in Inode /\ next[c] \in Block
          /\ c \in Move => rd[c] \in Inode
      BY DEF TypeOK, Calls, CallOK, Filling
    <2> QED
      BY <2>0 DEF TypeOK, Block, Filling, Placed, Before, Calls, CallOK
  <1>3. OwnCopies'
    BY DEF TypeOK, Copying, Before, Filling, Placed, Calls, CallOK, OwnCopies,
       OwnCopy, OwnSources, OwnSource
  <1>4. OwnSources'
    BY DEF TypeOK, Copying, Before, Filling, Placed, Calls, CallOK, OwnCopies,
       OwnCopy, OwnSources, OwnSource
  <1>5. Undone'
    BY DEF TypeOK, Copying, Before, Filling, Placed, OwnSources, OwnSource, Undone,
       Calls, CallOK
  <1> QED
    BY <1>1, <1>2, <1>3, <1>4, <1>5

LEMMA SyncShape ==
  ASSUME Shape, OwnDestinations, NEW c \in Call, Sync(c)
  PROVE  Shape'
  <1> USE Paths, Constants DEF Sync, Goto, memory, durable, call, history, Shape
  <1>1. TypeOK'
    BY DEF TypeOK, Copying, Before, Filling, Placed, Content, Block, Whole, Empty,
       VersionsIn
  <1>2. Calls'
    BY DEF TypeOK, Copying, Before, Filling, Placed, Calls, CallOK, OwnDestinations
  <1>3. OwnCopies'
    BY DEF TypeOK, Copying, Before, Filling, Placed, Calls, CallOK, OwnCopies,
       OwnCopy, OwnSources, OwnSource
  <1>4. OwnSources'
    BY DEF TypeOK, Copying, Before, Filling, Placed, Calls, CallOK, OwnCopies,
       OwnCopy, OwnSources, OwnSource
  <1>5. Undone'
    BY DEF TypeOK, Copying, Before, Filling, Placed, OwnSources, OwnSource, Undone,
       Calls, CallOK
  <1> QED
    BY <1>1, <1>2, <1>3, <1>4, <1>5

LEMMA RenameShape ==
  ASSUME Shape, OwnDestinations, NEW c \in Call, Rename(c)
  PROVE  Shape'
  <1> USE Paths, Constants DEF Rename, Goto, Return, memory, durable, call, history, Shape
  <1>1. TypeOK'
    <2>1. dir' \in [Path -> Inode \cup {None}]
      BY DEF TypeOK
    <2>2. data' \in [Inode -> Content] /\ disk' \in [Inode -> Content]
      BY DEF TypeOK
    <2>3. /\ rd' \in [Call -> Inode \cup {None}] /\ wr' \in [Call -> Inode \cup {None}]
          /\ next' \in [Call -> 1 .. 3]
      BY DEF TypeOK, Copying, Block
    <2>4. pc' \in [Call -> Copying \cup {"idle", "done", "failed"}]
      BY DEF TypeOK, Copying
    <2>5. \A k \in Call : pc'[k] = "copy" => next'[k] \in Block
      BY DEF TypeOK, Copying, Block
    <2> QED
      BY <2>1, <2>2, <2>3, <2>4, <2>5 DEF TypeOK
  <1>2. Calls'
    BY DEF TypeOK, Copying, Before, Filling, Placed, Calls, CallOK, OwnDestinations
  <1>3. OwnCopies'
    BY DEF TypeOK, Copying, Before, Filling, Placed, Calls, CallOK, OwnCopies,
       OwnCopy, OwnSources, OwnSource
  <1>4. OwnSources'
    BY DEF TypeOK, Copying, Before, Filling, Placed, Calls, CallOK, OwnCopies,
       OwnCopy, OwnSources, OwnSource
  <1>5. Undone'
    BY DEF TypeOK, Copying, Before, Filling, Placed, OwnSources, OwnSource, Undone,
       Calls, CallOK
  <1> QED
    BY <1>1, <1>2, <1>3, <1>4, <1>5

LEMMA SyncDirShape ==
  ASSUME Shape, OwnDestinations, NEW c \in Call, SyncDir(c)
  PROVE  Shape'
  <1> USE Paths, Constants DEF SyncDir, Committed, Goto, memory, durable, call,
     history, Shape
  <1>1. TypeOK'
    BY DEF TypeOK, Copying, Before, Filling, Placed, Content, Block, Whole, Empty,
       VersionsIn
  <1>2. Calls'
    BY DEF TypeOK, Copying, Before, Filling, Placed, Calls, CallOK, OwnDestinations
  <1>3. OwnCopies'
    BY DEF TypeOK, Copying, Before, Filling, Placed, Calls, CallOK, OwnCopies,
       OwnCopy, OwnSources, OwnSource
  <1>4. OwnSources'
    BY DEF TypeOK, Copying, Before, Filling, Placed, Calls, CallOK, OwnCopies,
       OwnCopy, OwnSources, OwnSource
  <1>5. Undone'
    BY DEF TypeOK, Copying, Before, Filling, Placed, OwnSources, OwnSource, Undone,
       Calls, CallOK
  <1> QED
    BY <1>1, <1>2, <1>3, <1>4, <1>5

LEMMA UnlinkShape ==
  ASSUME Shape, OwnDestinations, NEW c \in Call, Unlink(c)
  PROVE  Shape'
  <1> USE Paths, Constants DEF Unlink, Return, memory, durable, call, history, Shape
  <1>1. TypeOK'
    <2>0. c \in Move
      BY DEF Calls, CallOK, Placed
    <2>1. dir' \in [Path -> Inode \cup {None}]
      BY <2>0 DEF TypeOK
    <2>2. data' \in [Inode -> Content] /\ disk' \in [Inode -> Content]
      BY DEF TypeOK
    <2>3. /\ rd' \in [Call -> Inode \cup {None}] /\ wr' \in [Call -> Inode \cup {None}]
          /\ next' \in [Call -> 1 .. 3]
      BY DEF TypeOK, Copying, Block
    <2>4. pc' \in [Call -> Copying \cup {"idle", "done", "failed"}]
      BY DEF TypeOK, Copying
    <2>5. \A k \in Call : pc'[k] = "copy" => next'[k] \in Block
      BY DEF TypeOK, Copying, Block
    <2> QED
      BY <2>1, <2>2, <2>3, <2>4, <2>5 DEF TypeOK
  <1>2. Calls'
    BY DEF TypeOK, Copying, Before, Filling, Placed, Calls, CallOK, OwnDestinations
  <1>3. OwnCopies'
    BY DEF TypeOK, Copying, Before, Filling, Placed, Calls, CallOK, OwnCopies,
       OwnCopy, OwnSources, OwnSource
  <1>4. OwnSources'
    BY DEF TypeOK, Copying, Before, Filling, Placed, Calls, CallOK, OwnCopies,
       OwnCopy, OwnSources, OwnSource
  <1>5. Undone'
    BY DEF TypeOK, Copying, Before, Filling, Placed, OwnSources, OwnSource, Undone,
       Calls, CallOK
  <1> QED
    BY <1>1, <1>2, <1>3, <1>4, <1>5

LEMMA FailShape ==
  ASSUME Shape, OwnDestinations, NEW c \in Call, Fail(c)
  PROVE  Shape'
  <1> USE Paths, Constants DEF Fail, Return, memory, durable, call, history, Shape
  <1>1. TypeOK'
    BY DEF TypeOK, Copying, Before, Filling, Placed, Content, Block, Whole, Empty,
       VersionsIn
  <1>2. Calls'
    BY DEF TypeOK, Copying, Before, Filling, Placed, Calls, CallOK, OwnDestinations
  <1>3. OwnCopies'
    BY DEF TypeOK, Copying, Before, Filling, Placed, Calls, CallOK, OwnCopies,
       OwnCopy, OwnSources, OwnSource
  <1>4. OwnSources'
    BY DEF TypeOK, Copying, Before, Filling, Placed, Calls, CallOK, OwnCopies,
       OwnCopy, OwnSources, OwnSource
  <1>5. Undone'
    BY DEF TypeOK, Copying, Before, Filling, Placed, OwnSources, OwnSource, Undone,
       Calls, CallOK
  <1> QED
    BY <1>1, <1>2, <1>3, <1>4, <1>5

----------------------------------------------------------------------------
(* Contents *)

\* An inode that is not written to keeps what it holds.
LEMMA Untouched ==
  ASSUME NEW i \in Inode, data'[i] = data[i], disk'[i] = disk[i], waived \subseteq waived'
  PROVE  /\ \A v : Holds(i, v) => Holds(i, v)'
         /\ Sound(i) => Sound(i)'
         /\ Good(i) => Good(i)'
  BY DEF Holds, Sound, Good, VersionsIn

LEMMA HoldsIn ==
  ASSUME NEW i \in Inode, NEW u \in Version, Holds(i, u)
  PROVE  u \in VersionsIn(i)
  BY DEF Holds, Whole, VersionsIn, Block

LEMMA CopyFrame ==
  ASSUME NEW c \in Call, CopyOK(c), waived \subseteq waived', unsynced \subseteq unsynced',
         pc[c] \in Filling \cup Placed, pc'[c] = pc[c],
         wr'[c] = wr[c], rd'[c] = rd[c], next'[c] = next[c], wr[c] \in Inode,
         data'[wr[c]] = data[wr[c]], disk'[wr[c]] = disk[wr[c]],
         c \in Move => data'[rd[c]] = data[rd[c]],
         pc[c] = "unlink" => kept'[To[c]] \in {kept[To[c]], wr[c]}
  PROVE  CopyOK(c)'
  <1>1. \A b \in Block : BlockOK(c, b) => BlockOK(c, b)'
    BY DEF BlockOK
  <1>2. VersionsIn(wr[c])' = VersionsIn(wr[c])
    BY DEF VersionsIn
  <1> QED
    BY <1>1, <1>2 DEF CopyOK

LEMMA LeftFrame ==
  ASSUME Left, data' = data, waived' = waived,
         \A s \in Source : dir'[s] \in {dir[s], None},
         \A c \in Move : pc'[c] \in Filling \cup Placed =>
                           pc[c] \in Filling \cup Placed /\ rd'[c] = rd[c]
  PROVE  Left'
  BY Constants DEF Left, VersionsIn

LEMMA SoundIsGood ==
  ASSUME NEW i \in Inode, Sound(i)
  PROVE  Good(i)
  BY DEF Sound, Holds, Good

\* The steps of the calls, which lose nothing that has a final name.
LEMMA SafeFrame ==
  ASSUME TypeOK, NoLoss, written' = written, waived \subseteq waived', unsynced
     \subseteq unsynced',
         \A p \in Place : dir[p] # None =>
           \E q \in Place : VolumeOf(q) = VolumeOf(p) /\ dir'[q] = dir[p],
         \A i \in Inode : \A v : (\E p \in Place : i \in {dir[p], kept[p]}) /\ Holds(i, v)
                                   => Holds(i, v)',
         \A vol : \/ \A p \in Place : VolumeOf(p) = vol => kept'[p] = kept[p]
                  \/ \A p \in Place : VolumeOf(p) = vol => kept'[p] = dir'[p]
  PROVE  NoLoss'
  <1> SUFFICES ASSUME NEW v \in written' \ (waived' \cup unsynced')
               PROVE  \E vol \in Volumes : Named(dir, v, vol)' /\ Named(kept, v, vol)'
    BY DEF NoLoss
  <1>1. PICK vol \in Volumes : Named(dir, v, vol) /\ Named(kept, v, vol)
    BY DEF NoLoss
  <1>2. Named(dir, v, vol)'
    <2>1. PICK p \in Place : VolumeOf(p) = vol /\ dir[p] # None /\ Holds(dir[p], v)
      BY <1>1 DEF Named
    <2>2. dir[p] \in Inode
      BY <2>1, Paths DEF TypeOK, Place
    <2>3. PICK q \in Place : VolumeOf(q) = vol /\ dir'[q] = dir[p]
      BY <2>1
    <2> DEFINE i == dir[p]
    <2>4. \A j \in Inode : j = i => Holds(j, v)'
      BY <2>1
    <2> QED
      BY <2>1, <2>2, <2>3, <2>4 DEF Named, Holds
  <1>3. Named(kept, v, vol)'
    <2>1. PICK p \in Place : VolumeOf(p) = vol /\ kept[p] # None /\ Holds(kept[p], v)
      BY <1>1 DEF Named
    <2>2. kept[p] \in Inode
      BY <2>1, Paths DEF TypeOK, Place
    <2> DEFINE i == kept[p]
    <2>3. \A j \in Inode : j = i => Holds(j, v)'
      BY <2>1
    <2>4. CASE kept'[p] = kept[p]
      BY <2>1, <2>2, <2>3, <2>4 DEF Named, Holds
    <2>5. CASE \A q \in Place : VolumeOf(q) = vol => kept'[q] = dir'[q]
      BY <1>2, <2>5 DEF Named, Holds
    <2> QED
      BY <2>1, <2>4, <2>5
  <1> QED
    BY <1>2, <1>3

LEMMA SubmitContents ==
  ASSUME Shape, Contents, OwnDestinations, NEW v \in Version, NEW s \in Source, Submit(v, s)
  PROVE  Contents'
  <1> USE Paths, Constants DEF Submit, Written, Committed, Free, memory, durable,
     call, history, Shape, Contents
  <1>0. PICK i \in Free : /\ dir' = [dir EXCEPT ![s] = i]
                          /\ data' = [data EXCEPT ![i] = Whole(v)]
                          /\ disk' = [disk EXCEPT ![i] = Whole(v)]
    BY DEF Submit
  <1>f. /\ i \in Inode /\ \A p \in Path : i \notin {dir[p], kept[p]}
        /\ \A k \in Call : i \notin {rd[k], wr[k]}
        /\ Sound(i)' /\ \A j \in Inode \ {i} : data'[j] = data[j] /\ disk'[j] = disk[j]
    BY <1>0 DEF Free, Sound, Holds, TypeOK
  <1>g. \A j \in Inode : data'[j] = data[j] /\ disk'[j] = disk[j] =>
          /\ Sound(j) => Sound(j)'
          /\ Good(j) => Good(j)'
          /\ \A u : Holds(j, u) => Holds(j, u)'
    BY Untouched
  <1>1. SourcesSound'
    BY <1>0, <1>f, <1>g DEF TypeOK, SourcesSound, OwnCopies, OwnCopy, Calls, CallOK,
       Copying, Before, Filling, Placed
  <1>2. DestsGood'
    BY <1>0, <1>f, <1>g, SoundIsGood DEF TypeOK, SourcesSound, DestsGood,
       OwnSources, OwnSource, OwnCopies, OwnCopy, Calls, CallOK, Copying, Before,
       Filling, Placed
  <1>3. Copies'
    <2> SUFFICES ASSUME NEW c \in Call, pc[c] \in Filling \cup Placed
                 PROVE  CopyOK(c)'
      BY DEF Copies, CopyOK
    <2>1. /\ CopyOK(c) /\ wr[c] \in Inode \ {i} /\ rd[c] # i
          /\ c \in Move => rd[c] \in Inode
      BY <1>f DEF Copies, Calls, CallOK, Filling, Placed
    <2>2. pc[c] = "unlink" => kept'[To[c]] \in {kept[To[c]], wr[c]}
      BY <1>0 DEF TypeOK, Calls, CallOK, Placed
    <2>3. UNCHANGED <<pc, wr, rd, next, unsynced>> /\ waived \subseteq waived'
      OBVIOUS
    <2> QED
      BY <1>f, <2>1, <2>2, <2>3, CopyFrame
  <1>4. Left'
    BY <1>0, <1>f, <1>g DEF TypeOK, Calls, CallOK, OwnCopies, OwnCopy, OwnSources,
       OwnSource, Copying, Before, Filling, Placed, Left, VersionsIn, Content,
       SourcesSound, Sound, Holds, Whole, Busy
  <1> QED
    BY <1>1, <1>2, <1>3, <1>4

LEMMA SubmitSafe ==
  ASSUME Shape, Contents, OwnDestinations, NoLoss, NEW v \in Version, NEW s \in
     Source, Submit(v, s)
  PROVE  NoLoss'
  <1> USE Paths, Constants DEF Submit, Written, Committed, Free, memory, durable,
     call, history, Shape, Contents
  <1>0. PICK i \in Free : /\ dir' = [dir EXCEPT ![s] = i]
                          /\ data' = [data EXCEPT ![i] = Whole(v)]
                          /\ disk' = [disk EXCEPT ![i] = Whole(v)]
    BY DEF Submit
  <1>f. /\ i \in Inode /\ \A p \in Path : i \notin {dir[p], kept[p]}
        /\ \A k \in Call : i \notin {rd[k], wr[k]}
        /\ Sound(i)' /\ \A j \in Inode \ {i} : data'[j] = data[j] /\ disk'[j] = disk[j]
    BY <1>0 DEF Free, Sound, Holds, TypeOK
  <1>g. \A j \in Inode : data'[j] = data[j] /\ disk'[j] = disk[j] =>
          /\ Sound(j) => Sound(j)'
          /\ Good(j) => Good(j)'
          /\ \A u : Holds(j, u) => Holds(j, u)'
    BY Untouched
  <1> SUFFICES ASSUME NEW u \in written' \ (waived' \cup unsynced')
               PROVE  \E vol \in Volumes : Named(dir, u, vol)' /\ Named(kept, u, vol)'
    BY DEF NoLoss
  <1>1. CASE u = v
    <2>1. Holds(i, v)'
      BY <1>0, <1>f DEF Holds, TypeOK
    <2>2. dir'[s] = i /\ kept'[s] = i
      BY <1>0 DEF TypeOK
    <2>3. Holds(dir[s], v)' /\ Holds(kept[s], v)' /\ dir'[s] # None /\ kept'[s] # None
      BY <2>1, <2>2, <1>f DEF Holds
    <2>4. Named(dir, v, VolumeOf(s))' /\ Named(kept, v, VolumeOf(s))'
      BY <2>3 DEF Named, Place
    <2> QED
      BY <1>1, <2>4 DEF Place
  <1>2. CASE u # v
    <2>0. u \in written \ (waived \cup unsynced) /\ u \in Version
      BY <1>2 DEF TypeOK
    <2>1. PICK vol \in Volumes : Named(dir, u, vol) /\ Named(kept, u, vol)
      BY <2>0 DEF NoLoss
    <2>2. PICK p \in Place : VolumeOf(p) = vol /\ dir[p] # None /\ Holds(dir[p], u)
      BY <2>1 DEF Named
    <2>3. PICK q \in Place : VolumeOf(q) = vol /\ kept[q] # None /\ Holds(kept[q], u)
      BY <2>1 DEF Named
    <2>4. dir[p] \in Inode /\ kept[q] \in Inode
      BY <2>2, <2>3 DEF TypeOK, Place
    <2>5. p # s
      BY <2>0, <2>2, <2>4, HoldsIn
    <2>6. dir'[p] = dir[p] /\ dir[p] # i /\ kept[q] # i
      BY <1>0, <1>f, <2>5 DEF TypeOK, Place
    <2>7. \A j \in {dir[p], kept[q]} : Holds(j, u)'
      BY <1>g, <1>f, <2>2, <2>3, <2>4, <2>6
    <2>8. Named(dir, u, vol)'
      BY <2>2, <2>6, <2>7 DEF Named, Holds
    <2>9. Named(kept, u, vol)'
      <3>1. CASE vol = VolumeOf(s)
        <4>1. kept'[p] = dir'[p]
          BY <2>2, <3>1 DEF Place
        <4>2. Holds(dir[p], u)'
          BY <2>6, <2>7 DEF Holds
        <4> QED
          BY <2>2, <2>6, <4>1, <4>2 DEF Named, Holds
      <3>2. CASE vol # VolumeOf(s)
        <4>1. kept'[q] = kept[q]
          BY <2>3, <3>2 DEF Place
        <4> QED
          BY <2>3, <2>7, <4>1 DEF Named, Holds
      <3> QED
        BY <3>1, <3>2
    <2> QED
      BY <2>8, <2>9
  <1> QED
    BY <1>1, <1>2

LEMMA OverwriteContents ==
  ASSUME Shape, Contents, OwnDestinations, NEW v \in Version, NEW s \in Source,
     Overwrite(v, s)
  PROVE  Contents'
  <1> USE Paths, Constants DEF Overwrite, Written, memory, durable, call, history,
     Shape, Contents
  <1>f. /\ dir[s] \in Inode /\ Sound(dir[s])'
        /\ \A j \in Inode \ {dir[s]} : data'[j] = data[j] /\ disk'[j] = disk[j]
    BY DEF Sound, Holds, TypeOK
  <1>g. \A j \in Inode : data'[j] = data[j] /\ disk'[j] = disk[j] =>
          /\ Sound(j) => Sound(j)'
          /\ Good(j) => Good(j)'
          /\ \A u : Holds(j, u) => Holds(j, u)'
    BY Untouched
  <1>1. SourcesSound'
    BY <1>f, <1>g DEF TypeOK, SourcesSound, OwnCopies, OwnCopy, Calls, CallOK,
       Copying, Before, Filling, Placed
  <1>2. DestsGood'
    BY <1>f, <1>g, SoundIsGood DEF TypeOK, SourcesSound, DestsGood, OwnSources,
       OwnSource, OwnCopies, OwnCopy, Calls, CallOK, Copying, Before, Filling,
       Placed
  <1>3. Copies'
    <2> SUFFICES ASSUME NEW c \in Call, pc[c] \in Filling \cup Placed
                 PROVE  CopyOK(c)'
      BY DEF Copies, CopyOK
    <2>1. /\ wr[c] \in Inode /\ wr[c] # dir[s]
          /\ c \in Move => rd[c] \in Inode
          /\ CopyOK(c)
      BY DEF Calls, CallOK, OwnCopies, OwnCopy, Copies, Filling, Placed
    <2>2. data'[wr[c]] = data[wr[c]] /\ disk'[wr[c]] = disk[wr[c]]
      BY <1>f, <2>1
    <2>3. CASE rd[c] = dir[s] /\ c \in Move
      <3>1. v \in waived' /\ VersionsIn(dir[s]) \subseteq waived'
        BY <2>3 DEF OwnSources, OwnSource, Busy, Copying, Filling, Placed
      <3>2. \A b \in Block : /\ data[rd[c]][b] \in waived'
                             /\ data'[rd[c]][b] \in waived'
        <4>1. PICK w \in Version : data[dir[s]] = Whole(w)
          BY <2>1, <2>3 DEF SourcesSound, Sound, Holds
        <4>2. data'[dir[s]] = Whole(v)
          BY DEF TypeOK
        <4>3. w \in waived'
          BY <1>f, <3>1, <4>1 DEF VersionsIn, Whole, Block
        <4> QED
          BY <2>3, <3>1, <4>1, <4>2, <4>3 DEF Whole
      <3>3. \A b \in Block : b < next[c] =>
              data[wr[c]][b] \in Version /\ data[wr[c]][b] \in waived'
        BY <2>1, <2>3, <3>2 DEF CopyOK, BlockOK
      <3>4. \A b \in Block : b < next[c] => BlockOK(c, b)'
        BY <2>2, <2>3, <3>2, <3>3 DEF BlockOK
      <3> QED
        BY <2>1, <2>2, <3>4 DEF CopyOK, VersionsIn
    <2>4. CASE rd[c] # dir[s] \/ c \notin Move
      <3>1. c \in Move => data'[rd[c]] = data[rd[c]]
        BY <1>f, <2>1, <2>4
      <3>2. \A b \in Block : BlockOK(c, b) => BlockOK(c, b)'
        BY <2>2, <3>1 DEF BlockOK
      <3> QED
        BY <2>1, <2>2, <3>2 DEF CopyOK, VersionsIn
    <2> QED
      BY <2>3, <2>4
  <1>4. Left'
    BY <1>f, <1>g DEF TypeOK, Calls, CallOK, OwnCopies, OwnCopy, OwnSources,
       OwnSource, Copying, Before, Filling, Placed, Left, VersionsIn, Content,
       SourcesSound, Sound, Holds, Whole, Busy
  <1> QED
    BY <1>1, <1>2, <1>3, <1>4

LEMMA OverwriteSafe ==
  ASSUME Shape, Contents, OwnDestinations, NoLoss, NEW v \in Version, NEW s \in
     Source, Overwrite(v, s)
  PROVE  NoLoss'
  <1> USE Paths, Constants DEF Overwrite, Written, memory, durable, call, history,
     Shape, Contents
  <1>f. /\ dir[s] \in Inode /\ Sound(dir[s])'
        /\ \A j \in Inode \ {dir[s]} : data'[j] = data[j] /\ disk'[j] = disk[j]
    BY DEF Sound, Holds, TypeOK
  <1>g. \A j \in Inode : data'[j] = data[j] /\ disk'[j] = disk[j] =>
          /\ Sound(j) => Sound(j)'
          /\ Good(j) => Good(j)'
          /\ \A u : Holds(j, u) => Holds(j, u)'
    BY Untouched
  <1> SUFFICES ASSUME NEW u \in written' \ (waived' \cup unsynced')
               PROVE  \E vol \in Volumes : Named(dir, u, vol)' /\ Named(kept, u, vol)'
    BY DEF NoLoss
  <1>1. CASE u = v
    <2>1. Holds(dir[s], v)' /\ kept[s] = dir[s]
      BY DEF Holds, TypeOK, OwnSources, OwnSource
    <2>2. Named(dir, v, VolumeOf(s))' /\ Named(kept, v, VolumeOf(s))'
      BY <2>1 DEF Named, Holds, Place
    <2> QED
      BY <1>1, <2>2 DEF Place
  <1>2. CASE u # v
    <2>0. u \in written \ (waived \cup unsynced) /\ u \in Version
      BY <1>2 DEF TypeOK
    <2>1. PICK vol \in Volumes : Named(dir, u, vol) /\ Named(kept, u, vol)
      BY <2>0 DEF NoLoss
    <2>2. PICK p \in Place : VolumeOf(p) = vol /\ dir[p] # None /\ Holds(dir[p], u)
      BY <2>1 DEF Named
    <2>3. PICK q \in Place : VolumeOf(q) = vol /\ kept[q] # None /\ Holds(kept[q], u)
      BY <2>1 DEF Named
    <2>4. dir[p] \in Inode /\ kept[q] \in Inode
      BY <2>2, <2>3 DEF TypeOK, Place
    <2>5. dir[p] # dir[s] /\ kept[q] # dir[s]
      BY <2>0, <2>2, <2>3, <2>4, HoldsIn
    <2>6. \A j \in {dir[p], kept[q]} : Holds(j, u)'
      BY <1>g, <1>f, <2>2, <2>3, <2>4, <2>5
    <2> QED
      BY <2>2, <2>3, <2>6 DEF Named, Holds
  <1> QED
    BY <1>1, <1>2

LEMMA CommitContents ==
  ASSUME Shape, Contents, OwnDestinations, NEW vol \in Volumes, Commit(vol)
  PROVE  Contents'
  <1> USE Paths, Constants DEF Commit, Committed, memory, durable, call, history,
     Shape, Contents
  <1>f. \A j \in Inode : data'[j] = data[j] /\ disk'[j] = disk[j]
    OBVIOUS
  <1>g. \A j \in Inode : data'[j] = data[j] /\ disk'[j] = disk[j] =>
          /\ Sound(j) => Sound(j)'
          /\ Good(j) => Good(j)'
          /\ \A u : Holds(j, u) => Holds(j, u)'
    BY Untouched
  <1>1. SourcesSound'
    BY <1>f, <1>g DEF TypeOK, SourcesSound, OwnCopies, OwnCopy, Calls, CallOK,
       Copying, Before, Filling, Placed
  <1>2. DestsGood'
    BY <1>f, <1>g, SoundIsGood DEF TypeOK, SourcesSound, DestsGood, OwnSources,
       OwnSource, OwnCopies, OwnCopy, Calls, CallOK, Copying, Before, Filling,
       Placed
  <1>3. Copies'
    BY <1>f, <1>g DEF TypeOK, Calls, CallOK, OwnCopies, OwnCopy, OwnSources,
       OwnSource, Copying, Before, Filling, Placed, Copies, CopyOK, BlockOK, Block,
       VersionsIn, SourcesSound, Sound, Holds, Whole, Content
  <1>4. Left'
    <2>1. \A s \in Source : dir'[s] \in {dir[s], None}
      BY DEF TypeOK
    <2>2. \A k \in Move : pc'[k] \in Filling \cup Placed =>
                            pc[k] \in Filling \cup Placed /\ rd'[k] = rd[k]
      BY DEF TypeOK, Filling, Placed
    <2> QED
      BY <2>1, <2>2, LeftFrame
  <1> QED
    BY <1>1, <1>2, <1>3, <1>4

LEMMA CommitSafe ==
  ASSUME Shape, Contents, OwnDestinations, NoLoss, NEW vol \in Volumes, Commit(vol)
  PROVE  NoLoss'
  <1> USE Paths, Constants DEF Commit, Committed, memory, durable, call, history,
     Shape, Contents
  <1>f. \A j \in Inode : data'[j] = data[j] /\ disk'[j] = disk[j]
    OBVIOUS
  <1>g. \A j \in Inode : data'[j] = data[j] /\ disk'[j] = disk[j] =>
          /\ Sound(j) => Sound(j)'
          /\ Good(j) => Good(j)'
          /\ \A u : Holds(j, u) => Holds(j, u)'
    BY Untouched
  <1> QED
    BY <1>f, <1>g, SafeFrame DEF TypeOK, Calls, CallOK, OwnCopies, OwnCopy,
       OwnSources, OwnSource, Copying, Before, Filling, Placed, Place

LEMMA PowerLossContents ==
  ASSUME Shape, Contents, OwnDestinations, PowerLoss
  PROVE  Contents'
  <1> USE Paths, Constants DEF PowerLoss, memory, durable, call, history, Shape, Contents
  <1>f. \A j \in Inode : disk[j] = data[j] => data'[j] = data[j] /\ disk'[j] = disk[j]
    BY DEF TypeOK, Content, Block
  <1>g. \A j \in Inode : /\ Sound(j) => Sound(j)'
                         /\ Good(j) => Good(j)'
    BY <1>f, Untouched DEF Sound, Holds, Good
  <1>1. SourcesSound'
    BY <1>f, <1>g DEF TypeOK, SourcesSound, OwnCopies, OwnCopy, Calls, CallOK,
       Copying, Before, Filling, Placed
  <1>2. DestsGood'
    BY <1>f, <1>g, SoundIsGood DEF TypeOK, SourcesSound, DestsGood, OwnSources,
       OwnSource, OwnCopies, OwnCopy, Calls, CallOK, Copying, Before, Filling,
       Placed
  <1>3. Copies'
    BY <1>f, <1>g DEF TypeOK, Calls, CallOK, OwnCopies, OwnCopy, OwnSources,
       OwnSource, Copying, Before, Filling, Placed, Copies, CopyOK, BlockOK, Block,
       VersionsIn, SourcesSound, Sound, Holds, Whole, Content
  <1>4. Left'
    BY <1>f, <1>g DEF TypeOK, Calls, CallOK, OwnCopies, OwnCopy, OwnSources,
       OwnSource, Copying, Before, Filling, Placed, Left, VersionsIn, Content,
       SourcesSound, Sound, Holds, Whole, Busy
  <1> QED
    BY <1>1, <1>2, <1>3, <1>4

LEMMA PowerLossSafe ==
  ASSUME Shape, Contents, OwnDestinations, NoLoss, PowerLoss
  PROVE  NoLoss'
  <1> USE Paths, Constants DEF PowerLoss, memory, durable, call, history, Shape, Contents
  <1>f. \A j \in Inode : disk[j] = data[j] => data'[j] = data[j] /\ disk'[j] = disk[j]
    BY DEF TypeOK, Content, Block
  <1>g. \A j \in Inode : /\ Sound(j) => Sound(j)'
                         /\ Good(j) => Good(j)'
    BY <1>f, Untouched DEF Sound, Holds, Good
  <1> SUFFICES ASSUME NEW u \in written' \ (waived' \cup unsynced')
               PROVE  \E vol \in Volumes : Named(dir, u, vol)' /\ Named(kept, u, vol)'
    BY DEF NoLoss
  <1>1. PICK vol \in Volumes : Named(dir, u, vol) /\ Named(kept, u, vol)
    BY DEF NoLoss
  <1>2. PICK p \in Place : VolumeOf(p) = vol /\ dir[p] # None /\ Holds(dir[p], u)
    BY <1>1 DEF Named
  <1>3. PICK q \in Place : VolumeOf(q) = vol /\ kept[q] # None /\ Holds(kept[q], u)
    BY <1>1 DEF Named
  <1>4. dir[p] \in Inode /\ kept[q] \in Inode
    BY <1>2, <1>3 DEF TypeOK, Place
  <1>5. \A j \in Inode : Holds(j, u) => Holds(j, u)'
    <2> HIDE DEF PowerLoss
    <2> QED
      BY <1>f DEF Holds
  <1> QED
    BY <1>3, <1>4, <1>5 DEF Named, Holds

LEMMA ReplaceContents ==
  ASSUME Shape, Contents, OwnDestinations, NEW c \in Call, Replace(c)
  PROVE  Contents'
  <1> USE Paths, Constants DEF Replace, Goto, Return, memory, durable, call, history,
     Shape, Contents
  <1>f. \A j \in Inode : data'[j] = data[j] /\ disk'[j] = disk[j]
    OBVIOUS
  <1>g. \A j \in Inode : data'[j] = data[j] /\ disk'[j] = disk[j] =>
          /\ Sound(j) => Sound(j)'
          /\ Good(j) => Good(j)'
          /\ \A u : Holds(j, u) => Holds(j, u)'
    BY Untouched
  <1>1. SourcesSound'
    BY <1>f, <1>g DEF TypeOK, SourcesSound, OwnCopies, OwnCopy, Calls, CallOK,
       Copying, Before, Filling, Placed
  <1>2. DestsGood'
    BY <1>f, <1>g, SoundIsGood DEF TypeOK, SourcesSound, DestsGood, OwnSources,
       OwnSource, OwnCopies, OwnCopy, Calls, CallOK, Copying, Before, Filling,
       Placed
  <1>3. Copies'
    BY <1>f, <1>g DEF TypeOK, Calls, CallOK, OwnCopies, OwnCopy, OwnSources,
       OwnSource, Copying, Before, Filling, Placed, Copies, CopyOK, BlockOK, Block,
       VersionsIn, SourcesSound, Sound, Holds, Whole, Content
  <1>4. Left'
    <2>1. \A s \in Source : dir'[s] \in {dir[s], None}
      BY DEF TypeOK
    <2>2. \A k \in Move : pc'[k] \in Filling \cup Placed =>
                            pc[k] \in Filling \cup Placed /\ rd'[k] = rd[k]
      BY DEF TypeOK, Filling, Placed
    <2> QED
      BY <2>1, <2>2, LeftFrame
  <1> QED
    BY <1>1, <1>2, <1>3, <1>4

LEMMA ReplaceSafe ==
  ASSUME Shape, Contents, OwnDestinations, NoLoss, NEW c \in Call, Replace(c)
  PROVE  NoLoss'
  <1> USE Paths, Constants DEF Replace, Goto, Return, memory, durable, call, history,
     Shape, Contents
  <1>f. \A j \in Inode : data'[j] = data[j] /\ disk'[j] = disk[j]
    OBVIOUS
  <1>g. \A j \in Inode : data'[j] = data[j] /\ disk'[j] = disk[j] =>
          /\ Sound(j) => Sound(j)'
          /\ Good(j) => Good(j)'
          /\ \A u : Holds(j, u) => Holds(j, u)'
    BY Untouched
  <1> QED
    BY <1>f, <1>g, SafeFrame DEF TypeOK, Calls, CallOK, OwnCopies, OwnCopy,
       OwnSources, OwnSource, Copying, Before, Filling, Placed, Place

LEMMA OpenContents ==
  ASSUME Shape, Contents, OwnDestinations, NEW c \in Call, Open(c)
  PROVE  Contents'
  <1> USE Paths, Constants DEF Open, Truncate, Free, memory, durable, call, history,
     Shape, Contents
  <1>0. PICK i \in Free : /\ dir' = [dir EXCEPT ![Temp(To[c])] = i]
                          /\ data' = [data EXCEPT ![i] = Empty]
                          /\ wr' = [wr EXCEPT ![c] = i]
    BY DEF Truncate, Calls, CallOK, Before
  <1>f. /\ i \in Inode /\ \A p \in Path : i \notin {dir[p], kept[p]}
        /\ \A k \in Call : i \notin {rd[k], wr[k]}
        /\ \A j \in Inode \ {i} : data'[j] = data[j] /\ disk'[j] = disk[j]
    BY <1>0 DEF Free, TypeOK
  <1>g. \A j \in Inode : data'[j] = data[j] /\ disk'[j] = disk[j] =>
          /\ Sound(j) => Sound(j)'
          /\ Good(j) => Good(j)'
          /\ \A u : Holds(j, u) => Holds(j, u)'
    BY Untouched
  <1>1. SourcesSound'
    BY <1>0, <1>f, <1>g DEF TypeOK, SourcesSound, OwnCopies, OwnCopy, Calls, CallOK,
       Copying, Before, Filling, Placed
  <1>2. DestsGood'
    BY <1>0, <1>f, <1>g, SoundIsGood DEF TypeOK, SourcesSound, DestsGood,
       OwnSources, OwnSource, OwnCopies, OwnCopy, Calls, CallOK, Copying, Before,
       Filling, Placed
  <1>3. Copies'
    <2> SUFFICES ASSUME NEW k \in Call, pc'[k] \in Filling \cup Placed
                 PROVE  CopyOK(k)'
      BY DEF Copies, CopyOK
    <2>1. CASE k = c
      <3>1. pc'[c] = "copy" /\ next'[c] = 1
        BY DEF TypeOK, Calls, CallOK, Filling, Placed
      <3> QED
        BY <2>1, <3>1 DEF CopyOK, Block, Placed
    <2>2. CASE k # c
      <3>1. UNCHANGED <<pc[k], wr[k], rd[k], next[k], kept, waived, unsynced>>
        BY <1>0, <2>2 DEF TypeOK
      <3>2. /\ CopyOK(k) /\ wr[k] \in Inode \ {i} /\ rd[k] # i
            /\ k \in Move => rd[k] \in Inode
        BY <1>f, <3>1 DEF Copies, Calls, CallOK, Filling, Placed
      <3> QED
        BY <1>f, <3>1, <3>2, CopyFrame
    <2> QED
      BY <2>1, <2>2
  <1>4. Left'
    BY <1>0, <1>f, <1>g DEF TypeOK, Calls, CallOK, OwnCopies, OwnCopy, OwnSources,
       OwnSource, Copying, Before, Filling, Placed, Left, VersionsIn, Content,
       SourcesSound, Sound, Holds, Whole, Busy
  <1> QED
    BY <1>1, <1>2, <1>3, <1>4

LEMMA OpenSafe ==
  ASSUME Shape, Contents, OwnDestinations, NoLoss, NEW c \in Call, Open(c)
  PROVE  NoLoss'
  <1> USE Paths, Constants DEF Open, Truncate, Free, memory, durable, call, history,
     Shape, Contents
  <1>0. PICK i \in Free : /\ dir' = [dir EXCEPT ![Temp(To[c])] = i]
                          /\ data' = [data EXCEPT ![i] = Empty]
                          /\ wr' = [wr EXCEPT ![c] = i]
    BY DEF Truncate, Calls, CallOK, Before
  <1>f. /\ i \in Inode /\ \A p \in Path : i \notin {dir[p], kept[p]}
        /\ \A k \in Call : i \notin {rd[k], wr[k]}
        /\ \A j \in Inode \ {i} : data'[j] = data[j] /\ disk'[j] = disk[j]
    BY <1>0 DEF Free, TypeOK
  <1>g. \A j \in Inode : data'[j] = data[j] /\ disk'[j] = disk[j] =>
          /\ Sound(j) => Sound(j)'
          /\ Good(j) => Good(j)'
          /\ \A u : Holds(j, u) => Holds(j, u)'
    BY Untouched
  <1> QED
    BY <1>0, <1>f, <1>g, SafeFrame DEF TypeOK, Calls, CallOK, OwnCopies, OwnCopy,
       OwnSources, OwnSource, Copying, Before, Filling, Placed, Place

LEMMA OpenTempContents ==
  ASSUME Shape, Contents, OwnDestinations, NEW c \in Call, OpenTemp(c)
  PROVE  Contents'
  <1> USE Paths, Constants DEF OpenTemp, Truncate, Free, memory, durable, call,
     history, Shape, Contents
  <1>0. PICK i \in Free : /\ dir' = [dir EXCEPT ![Temp(To[c])] = i]
                          /\ data' = [data EXCEPT ![i] = Empty]
                          /\ wr' = [wr EXCEPT ![c] = i]
    BY DEF Truncate, Calls, CallOK, Before
  <1>f. /\ i \in Inode /\ \A p \in Path : i \notin {dir[p], kept[p]}
        /\ \A k \in Call : i \notin {rd[k], wr[k]}
        /\ \A j \in Inode \ {i} : data'[j] = data[j] /\ disk'[j] = disk[j]
    BY <1>0 DEF Free, TypeOK
  <1>g. \A j \in Inode : data'[j] = data[j] /\ disk'[j] = disk[j] =>
          /\ Sound(j) => Sound(j)'
          /\ Good(j) => Good(j)'
          /\ \A u : Holds(j, u) => Holds(j, u)'
    BY Untouched
  <1>1. SourcesSound'
    BY <1>0, <1>f, <1>g DEF TypeOK, SourcesSound, OwnCopies, OwnCopy, Calls, CallOK,
       Copying, Before, Filling, Placed
  <1>2. DestsGood'
    BY <1>0, <1>f, <1>g, SoundIsGood DEF TypeOK, SourcesSound, DestsGood,
       OwnSources, OwnSource, OwnCopies, OwnCopy, Calls, CallOK, Copying, Before,
       Filling, Placed
  <1>3. Copies'
    <2> SUFFICES ASSUME NEW k \in Call, pc'[k] \in Filling \cup Placed
                 PROVE  CopyOK(k)'
      BY DEF Copies, CopyOK
    <2>1. CASE k = c
      <3>1. pc'[c] = "copy" /\ next'[c] = 1
        BY DEF TypeOK, Calls, CallOK, Filling, Placed
      <3> QED
        BY <2>1, <3>1 DEF CopyOK, Block, Placed
    <2>2. CASE k # c
      <3>1. UNCHANGED <<pc[k], wr[k], rd[k], next[k], kept, waived, unsynced>>
        BY <1>0, <2>2 DEF TypeOK
      <3>2. /\ CopyOK(k) /\ wr[k] \in Inode \ {i} /\ rd[k] # i
            /\ k \in Move => rd[k] \in Inode
        BY <1>f, <3>1 DEF Copies, Calls, CallOK, Filling, Placed
      <3> QED
        BY <1>f, <3>1, <3>2, CopyFrame
    <2> QED
      BY <2>1, <2>2
  <1>4. Left'
    BY <1>0, <1>f, <1>g DEF TypeOK, Calls, CallOK, OwnCopies, OwnCopy, OwnSources,
       OwnSource, Copying, Before, Filling, Placed, Left, VersionsIn, Content,
       SourcesSound, Sound, Holds, Whole, Busy
  <1> QED
    BY <1>1, <1>2, <1>3, <1>4

LEMMA OpenTempSafe ==
  ASSUME Shape, Contents, OwnDestinations, NoLoss, NEW c \in Call, OpenTemp(c)
  PROVE  NoLoss'
  <1> USE Paths, Constants DEF OpenTemp, Truncate, Free, memory, durable, call,
     history, Shape, Contents
  <1>0. PICK i \in Free : /\ dir' = [dir EXCEPT ![Temp(To[c])] = i]
                          /\ data' = [data EXCEPT ![i] = Empty]
                          /\ wr' = [wr EXCEPT ![c] = i]
    BY DEF Truncate, Calls, CallOK, Before
  <1>f. /\ i \in Inode /\ \A p \in Path : i \notin {dir[p], kept[p]}
        /\ \A k \in Call : i \notin {rd[k], wr[k]}
        /\ \A j \in Inode \ {i} : data'[j] = data[j] /\ disk'[j] = disk[j]
    BY <1>0 DEF Free, TypeOK
  <1>g. \A j \in Inode : data'[j] = data[j] /\ disk'[j] = disk[j] =>
          /\ Sound(j) => Sound(j)'
          /\ Good(j) => Good(j)'
          /\ \A u : Holds(j, u) => Holds(j, u)'
    BY Untouched
  <1> QED
    BY <1>0, <1>f, <1>g, SafeFrame DEF TypeOK, Calls, CallOK, OwnCopies, OwnCopy,
       OwnSources, OwnSource, Copying, Before, Filling, Placed, Place

LEMMA CopyContents ==
  ASSUME Shape, Contents, OwnDestinations, NEW c \in Call, Copy(c)
  PROVE  Contents'
  <1> USE Paths, Constants DEF Copy, memory, durable, call, history, Shape, Contents
  <1>f. /\ wr[c] \in Inode
        /\ \A j \in Inode \ {wr[c]} : data'[j] = data[j] /\ disk'[j] = disk[j]
        /\ \A p \in Place : dir[p] # wr[c] /\ kept[p] # wr[c]
        /\ \A k \in Call : rd[k] # wr[c] /\ (k # c => wr[k] # wr[c])
    BY DEF TypeOK, Calls, CallOK, OwnCopies, OwnCopy, Filling, Place
  <1>g. \A j \in Inode : data'[j] = data[j] /\ disk'[j] = disk[j] =>
          /\ Sound(j) => Sound(j)'
          /\ Good(j) => Good(j)'
          /\ \A u : Holds(j, u) => Holds(j, u)'
    BY Untouched
  <1>1. SourcesSound'
    BY <1>f, <1>g DEF TypeOK, SourcesSound, OwnCopies, OwnCopy, Calls, CallOK,
       Copying, Before, Filling, Placed
  <1>2. DestsGood'
    BY <1>f, <1>g, SoundIsGood DEF TypeOK, SourcesSound, DestsGood, OwnSources,
       OwnSource, OwnCopies, OwnCopy, Calls, CallOK, Copying, Before, Filling,
       Placed
  <1>3. Copies'
    <2> SUFFICES ASSUME NEW k \in Call, pc'[k] \in Filling \cup Placed
                 PROVE  CopyOK(k)'
      BY DEF Copies, CopyOK
    <2>1. CASE k = c
      <3>1. /\ pc'[c] \in {"copy", "sync"} /\ next'[c] = next[c] + 1 /\ next[c] \in Block
            /\ data'[wr[c]] = [data[wr[c]] EXCEPT ![next[c]] =
                                 IF c \in Move THEN data[rd[c]][next[c]] ELSE c]
            /\ CopyOK(c)
            /\ data[wr[c]] \in Content
        BY <1>f DEF TypeOK, Copies
      <3>2. c \in Move => /\ data'[rd[c]] = data[rd[c]]
                          /\ \A b \in Block : data[rd[c]][b] \in Version
        <4> SUFFICES ASSUME c \in Move
                     PROVE  /\ data'[rd[c]] = data[rd[c]]
                            /\ \A b \in Block : data[rd[c]][b] \in Version
          OBVIOUS
        <4>1. rd[c] \in Inode /\ rd[c] # wr[c]
          BY <1>f DEF Calls, CallOK, Filling
        <4>2. PICK v \in Version : data[rd[c]] = Whole(v)
          BY <4>1 DEF SourcesSound, Sound, Holds
        <4> QED
          BY <1>f, <4>1, <4>2 DEF Whole
      <3>3. ASSUME NEW b \in Block, b < next'[c]
            PROVE  BlockOK(c, b)'
        <4>1. CASE b = next[c]
          BY <3>1, <3>2, <4>1 DEF BlockOK, Content
        <4>2. CASE b < next[c]
          BY <3>1, <3>2, <4>2 DEF BlockOK, Content, CopyOK, Filling
        <4> QED
          BY <3>1, <3>3, <4>1, <4>2 DEF Block
      <3> QED
        BY <2>1, <3>1, <3>3 DEF CopyOK, Placed
    <2>2. CASE k # c
      <3>1. /\ pc'[k] = pc[k] /\ next'[k] = next[k] /\ wr[k] \in Inode /\ CopyOK(k)
            /\ data'[wr[k]] = data[wr[k]]
            /\ k \in Move => rd[k] \in Inode /\ data'[rd[k]] = data[rd[k]]
        BY <1>f, <2>2 DEF TypeOK, Calls, CallOK, Copies, Filling, Placed
      <3>2. \A b \in Block : BlockOK(k, b) => BlockOK(k, b)'
        BY <3>1 DEF BlockOK
      <3> QED
        BY <3>1, <3>2 DEF CopyOK, VersionsIn
    <2> QED
      BY <2>1, <2>2
  <1>4. Left'
    BY <1>f, <1>g DEF TypeOK, Calls, CallOK, OwnCopies, OwnCopy, OwnSources,
       OwnSource, Copying, Before, Filling, Placed, Left, VersionsIn, Content,
       SourcesSound, Sound, Holds, Whole, Busy
  <1> QED
    BY <1>1, <1>2, <1>3, <1>4

LEMMA CopySafe ==
  ASSUME Shape, Contents, OwnDestinations, NoLoss, NEW c \in Call, Copy(c)
  PROVE  NoLoss'
  <1> USE Paths, Constants DEF Copy, memory, durable, call, history, Shape, Contents
  <1>f. /\ wr[c] \in Inode
        /\ \A j \in Inode \ {wr[c]} : data'[j] = data[j] /\ disk'[j] = disk[j]
        /\ \A p \in Place : dir[p] # wr[c] /\ kept[p] # wr[c]
        /\ \A k \in Call : rd[k] # wr[c] /\ (k # c => wr[k] # wr[c])
    BY DEF TypeOK, Calls, CallOK, OwnCopies, OwnCopy, Filling, Place
  <1>g. \A j \in Inode : data'[j] = data[j] /\ disk'[j] = disk[j] =>
          /\ Sound(j) => Sound(j)'
          /\ Good(j) => Good(j)'
          /\ \A u : Holds(j, u) => Holds(j, u)'
    BY Untouched
  <1> QED
    BY <1>f, <1>g, SafeFrame DEF TypeOK, Calls, CallOK, OwnCopies, OwnCopy,
       OwnSources, OwnSource, Copying, Before, Filling, Placed, Place

LEMMA SyncContents ==
  ASSUME Shape, Contents, OwnDestinations, NEW c \in Call, Sync(c)
  PROVE  Contents'
  <1> USE Paths, Constants DEF Sync, Goto, memory, durable, call, history, Shape, Contents
  <1>f. /\ wr[c] \in Inode /\ data' = data
        /\ \A j \in Inode \ {wr[c]} : disk'[j] = disk[j]
        /\ disk'[wr[c]] = data[wr[c]]
        /\ \A p \in Place : dir[p] # wr[c] /\ kept[p] # wr[c]
        /\ \A k \in Call : rd[k] # wr[c] /\ (k # c => wr[k] # wr[c])
    BY DEF TypeOK, Calls, CallOK, OwnCopies, OwnCopy, Filling, Place
  <1>g. \A j \in Inode : data'[j] = data[j] /\ disk'[j] = disk[j] =>
          /\ Sound(j) => Sound(j)'
          /\ Good(j) => Good(j)'
          /\ \A u : Holds(j, u) => Holds(j, u)'
    BY Untouched
  <1>1. SourcesSound'
    BY <1>f, <1>g DEF TypeOK, SourcesSound, OwnCopies, OwnCopy, Calls, CallOK,
       Copying, Before, Filling, Placed
  <1>2. DestsGood'
    BY <1>f, <1>g, SoundIsGood DEF TypeOK, SourcesSound, DestsGood, OwnSources,
       OwnSource, OwnCopies, OwnCopy, Calls, CallOK, Copying, Before, Filling,
       Placed
  <1>3. Copies'
    BY <1>f, <1>g DEF TypeOK, Calls, CallOK, OwnCopies, OwnCopy, OwnSources,
       OwnSource, Copying, Before, Filling, Placed, Copies, CopyOK, BlockOK, Block,
       VersionsIn, SourcesSound, Sound, Holds, Whole, Content
  <1>4. Left'
    <2>1. \A s \in Source : dir'[s] \in {dir[s], None}
      BY DEF TypeOK
    <2>2. \A k \in Move : pc'[k] \in Filling \cup Placed =>
                            pc[k] \in Filling \cup Placed /\ rd'[k] = rd[k]
      BY DEF TypeOK, Filling, Placed
    <2> QED
      BY <2>1, <2>2, LeftFrame
  <1> QED
    BY <1>1, <1>2, <1>3, <1>4

LEMMA SyncSafe ==
  ASSUME Shape, Contents, OwnDestinations, NoLoss, NEW c \in Call, Sync(c)
  PROVE  NoLoss'
  <1> USE Paths, Constants DEF Sync, Goto, memory, durable, call, history, Shape, Contents
  <1>f. /\ wr[c] \in Inode /\ data' = data
        /\ \A j \in Inode \ {wr[c]} : disk'[j] = disk[j]
        /\ disk'[wr[c]] = data[wr[c]]
        /\ \A p \in Place : dir[p] # wr[c] /\ kept[p] # wr[c]
        /\ \A k \in Call : rd[k] # wr[c] /\ (k # c => wr[k] # wr[c])
    BY DEF TypeOK, Calls, CallOK, OwnCopies, OwnCopy, Filling, Place
  <1>g. \A j \in Inode : data'[j] = data[j] /\ disk'[j] = disk[j] =>
          /\ Sound(j) => Sound(j)'
          /\ Good(j) => Good(j)'
          /\ \A u : Holds(j, u) => Holds(j, u)'
    BY Untouched
  <1> QED
    BY <1>f, <1>g, SafeFrame DEF TypeOK, Calls, CallOK, OwnCopies, OwnCopy,
       OwnSources, OwnSource, Copying, Before, Filling, Placed, Place

LEMMA RenameContents ==
  ASSUME Shape, Contents, OwnDestinations, NEW c \in Call, Rename(c)
  PROVE  Contents'
  <1> USE Paths, Constants DEF Rename, Goto, Return, memory, durable, call, history,
     Shape, Contents
  <1>f. \A j \in Inode : data'[j] = data[j] /\ disk'[j] = disk[j]
    OBVIOUS
  <1>g. \A j \in Inode : data'[j] = data[j] /\ disk'[j] = disk[j] =>
          /\ Sound(j) => Sound(j)'
          /\ Good(j) => Good(j)'
          /\ \A u : Holds(j, u) => Holds(j, u)'
    BY Untouched
  <1>1. SourcesSound'
    BY <1>f, <1>g DEF TypeOK, SourcesSound, OwnCopies, OwnCopy, Calls, CallOK,
       Copying, Before, Filling, Placed
  <1>2. DestsGood'
    <2>1. dir[Temp(To[c])] = wr[c] /\ wr[c] \in Inode /\ next[c] = 3 /\ CopyOK(c)
      BY DEF Calls, CallOK, Filling, Copies
    <2>2. Good(wr[c])
      <3>1. disk[wr[c]] = data[wr[c]] /\ \A b \in Block : BlockOK(c, b)
        BY <2>1 DEF CopyOK, Filling, Block
      <3>2. data[wr[c]] \in Content
        BY <2>1 DEF TypeOK
      <3>3. CASE c \notin Move
        <4>1. data[wr[c]] = Whole(c)
          BY <3>1, <3>2, <3>3 DEF BlockOK, Content, Whole
        <4> QED
          BY <3>1, <4>1 DEF Good
      <3>4. CASE c \in Move
        <4>1. PICK v \in Version : data[rd[c]] = Whole(v)
          BY <3>4 DEF Calls, CallOK, Filling, SourcesSound, Sound, Holds
        <4>2. CASE \A b \in Block : data[wr[c]][b] = v
          <5>1. data[wr[c]] = Whole(v)
            BY <3>2, <4>2 DEF Content, Whole
          <5> QED
            BY <3>1, <5>1 DEF Good
        <4>3. CASE \E b \in Block : data[wr[c]][b] # v
          <5>1. PICK b \in Block : data[wr[c]][b] \in Version \cap waived
            BY <3>1, <3>4, <4>1, <4>3 DEF BlockOK, Whole
          <5>2. data[wr[c]][b] \in VersionsIn(wr[c])
            BY <2>1, <5>1 DEF VersionsIn
          <5> QED
            BY <3>1, <5>1, <5>2 DEF Good
        <4> QED
          BY <4>2, <4>3
      <3> QED
        BY <3>3, <3>4
    <2>3. \A d \in Dest : dir'[d] = IF d = To[c] THEN wr[c] ELSE dir[d]
      BY <2>1 DEF TypeOK
    <2> QED
      BY <1>f, <1>g, <2>1, <2>2, <2>3 DEF DestsGood, TypeOK
  <1>3. Copies'
    BY <1>f, <1>g DEF TypeOK, Calls, CallOK, OwnCopies, OwnCopy, OwnSources,
       OwnSource, Copying, Before, Filling, Placed, Copies, CopyOK, BlockOK, Block,
       VersionsIn, SourcesSound, Sound, Holds, Whole, Content
  <1>4. Left'
    <2>1. \A s \in Source : dir'[s] \in {dir[s], None}
      BY DEF TypeOK
    <2>2. \A k \in Move : pc'[k] \in Filling \cup Placed =>
                            pc[k] \in Filling \cup Placed /\ rd'[k] = rd[k]
      BY DEF TypeOK, Filling, Placed
    <2> QED
      BY <2>1, <2>2, LeftFrame
  <1> QED
    BY <1>1, <1>2, <1>3, <1>4

LEMMA RenameSafe ==
  ASSUME Shape, Contents, OwnDestinations, NoLoss, NEW c \in Call, Rename(c)
  PROVE  NoLoss'
  <1> USE Paths, Constants DEF Rename, Goto, Return, memory, durable, call, history,
     Shape, Contents
  <1>f. \A j \in Inode : data'[j] = data[j] /\ disk'[j] = disk[j]
    OBVIOUS
  <1>g. \A j \in Inode : data'[j] = data[j] /\ disk'[j] = disk[j] =>
          /\ Sound(j) => Sound(j)'
          /\ Good(j) => Good(j)'
          /\ \A u : Holds(j, u) => Holds(j, u)'
    BY Untouched
  <1> QED
    BY <1>f, <1>g, SafeFrame DEF TypeOK, Calls, CallOK, OwnCopies, OwnCopy,
       OwnSources, OwnSource, Copying, Before, Filling, Placed, Place

LEMMA SyncDirContents ==
  ASSUME Shape, Contents, OwnDestinations, NEW c \in Call, SyncDir(c)
  PROVE  Contents'
  <1> USE Paths, Constants DEF SyncDir, Committed, Goto, memory, durable, call,
     history, Shape, Contents
  <1>f. \A j \in Inode : data'[j] = data[j] /\ disk'[j] = disk[j]
    OBVIOUS
  <1>g. \A j \in Inode : data'[j] = data[j] /\ disk'[j] = disk[j] =>
          /\ Sound(j) => Sound(j)'
          /\ Good(j) => Good(j)'
          /\ \A u : Holds(j, u) => Holds(j, u)'
    BY Untouched
  <1>1. SourcesSound'
    BY <1>f, <1>g DEF TypeOK, SourcesSound, OwnCopies, OwnCopy, Calls, CallOK,
       Copying, Before, Filling, Placed
  <1>2. DestsGood'
    BY <1>f, <1>g, SoundIsGood DEF TypeOK, SourcesSound, DestsGood, OwnSources,
       OwnSource, OwnCopies, OwnCopy, Calls, CallOK, Copying, Before, Filling,
       Placed
  <1>3. Copies'
    BY <1>f, <1>g DEF TypeOK, Calls, CallOK, OwnCopies, OwnCopy, OwnSources,
       OwnSource, Copying, Before, Filling, Placed, Copies, CopyOK, BlockOK, Block,
       VersionsIn, SourcesSound, Sound, Holds, Whole, Content
  <1>4. Left'
    <2>1. \A s \in Source : dir'[s] \in {dir[s], None}
      BY DEF TypeOK
    <2>2. \A k \in Move : pc'[k] \in Filling \cup Placed =>
                            pc[k] \in Filling \cup Placed /\ rd'[k] = rd[k]
      BY DEF TypeOK, Filling, Placed
    <2> QED
      BY <2>1, <2>2, LeftFrame
  <1> QED
    BY <1>1, <1>2, <1>3, <1>4

LEMMA SyncDirSafe ==
  ASSUME Shape, Contents, OwnDestinations, NoLoss, NEW c \in Call, SyncDir(c)
  PROVE  NoLoss'
  <1> USE Paths, Constants DEF SyncDir, Committed, Goto, memory, durable, call,
     history, Shape, Contents
  <1>f. \A j \in Inode : data'[j] = data[j] /\ disk'[j] = disk[j]
    OBVIOUS
  <1>g. \A j \in Inode : data'[j] = data[j] /\ disk'[j] = disk[j] =>
          /\ Sound(j) => Sound(j)'
          /\ Good(j) => Good(j)'
          /\ \A u : Holds(j, u) => Holds(j, u)'
    BY Untouched
  <1> QED
    BY <1>f, <1>g, SafeFrame DEF TypeOK, Calls, CallOK, OwnCopies, OwnCopy,
       OwnSources, OwnSource, Copying, Before, Filling, Placed, Place

LEMMA UnlinkContents ==
  ASSUME Shape, Contents, OwnDestinations, NEW c \in Call, Unlink(c)
  PROVE  Contents'
  <1> USE Paths, Constants DEF Unlink, Return, memory, durable, call, history, Shape,
     Contents
  <1>f. \A j \in Inode : data'[j] = data[j] /\ disk'[j] = disk[j]
    OBVIOUS
  <1>g. \A j \in Inode : data'[j] = data[j] /\ disk'[j] = disk[j] =>
          /\ Sound(j) => Sound(j)'
          /\ Good(j) => Good(j)'
          /\ \A u : Holds(j, u) => Holds(j, u)'
    BY Untouched
  <1>1. SourcesSound'
    BY <1>f, <1>g DEF TypeOK, SourcesSound, OwnCopies, OwnCopy, Calls, CallOK,
       Copying, Before, Filling, Placed
  <1>2. DestsGood'
    BY <1>f, <1>g, SoundIsGood DEF TypeOK, SourcesSound, DestsGood, OwnSources,
       OwnSource, OwnCopies, OwnCopy, Calls, CallOK, Copying, Before, Filling,
       Placed
  <1>3. Copies'
    BY <1>f, <1>g DEF TypeOK, Calls, CallOK, OwnCopies, OwnCopy, OwnSources,
       OwnSource, Copying, Before, Filling, Placed, Copies, CopyOK, BlockOK, Block,
       VersionsIn, SourcesSound, Sound, Holds, Whole, Content
  <1>4. Left'
    <2>1. \A s \in Source : dir'[s] \in {dir[s], None}
      BY DEF TypeOK
    <2>2. \A k \in Move : pc'[k] \in Filling \cup Placed =>
                            pc[k] \in Filling \cup Placed /\ rd'[k] = rd[k]
      BY DEF TypeOK, Filling, Placed
    <2> QED
      BY <2>1, <2>2, LeftFrame
  <1> QED
    BY <1>1, <1>2, <1>3, <1>4

LEMMA UnlinkSafe ==
  ASSUME Shape, Contents, OwnDestinations, NoLoss, NEW c \in Call, Unlink(c)
  PROVE  NoLoss'
  <1> USE Paths, Constants DEF Unlink, Return, memory, durable, call, history, Shape,
     Contents
  <1>f. \A j \in Inode : data'[j] = data[j] /\ disk'[j] = disk[j]
    OBVIOUS
  <1>g. \A j \in Inode : data'[j] = data[j] /\ disk'[j] = disk[j] =>
          /\ Sound(j) => Sound(j)'
          /\ Good(j) => Good(j)'
          /\ \A u : Holds(j, u) => Holds(j, u)'
    BY Untouched
  <1> SUFFICES ASSUME NEW u \in written' \ (waived' \cup unsynced')
               PROVE  \E vol \in Volumes : Named(dir, u, vol)' /\ Named(kept, u, vol)'
    BY DEF NoLoss
  <1>1. PICK vol \in Volumes : Named(dir, u, vol) /\ Named(kept, u, vol)
    BY DEF NoLoss
  <1>2. PICK p \in Place : VolumeOf(p) = vol /\ dir[p] # None /\ Holds(dir[p], u)
    BY <1>1 DEF Named
  <1>3. PICK q \in Place : VolumeOf(q) = vol /\ kept[q] # None /\ Holds(kept[q], u)
    BY <1>1 DEF Named
  <1>4. dir[p] \in Inode /\ kept[q] \in Inode
    BY <1>2, <1>3 DEF TypeOK, Place
  <1>5. \A j \in Inode : Holds(j, u) => Holds(j, u)'
    BY <1>g, <1>f
  <1>6. CASE p # From[c]
    <2>1. dir'[p] = dir[p]
      BY <1>6 DEF TypeOK, Place
    <2> QED
      BY <1>2, <1>3, <1>4, <1>5, <2>1 DEF Named, Holds
  <1>7. CASE p = From[c]
    <2>0. u \in Version /\ u \notin waived /\ u \notin unsynced
      BY DEF TypeOK
    <2>1. c \in Move /\ wr[c] \in Inode /\ dir[To[c]] = wr[c] /\ next[c] = 3
      BY DEF Calls, CallOK, Placed
    <2>2. dir[From[c]] = rd[c]
      BY <1>2, <1>4, <1>7, <2>0, <2>1, HoldsIn DEF Left, Placed, Filling
    <2>3. \A b \in Block : data[wr[c]][b] = u
      BY <1>2, <1>7, <2>0, <2>1, <2>2
         DEF Copies, CopyOK, BlockOK, Placed, Filling, Block, Holds, Whole
    <2>4. Holds(wr[c], u)
      <3>1. data[wr[c]] = Whole(u)
        BY <2>1, <2>3 DEF TypeOK, Content, Whole
      <3> QED
        BY <3>1 DEF Holds, Copies, CopyOK, Placed, Filling
    <2>5. kept[To[c]] = wr[c]
      BY <2>0, <2>1, <2>4, HoldsIn DEF Copies, CopyOK, Placed, Filling
    <2>6. dir'[To[c]] = wr[c]
      BY <2>1 DEF TypeOK
    <2>7. Named(dir, u, VolumeOf(To[c]))' /\ Named(kept, u, VolumeOf(To[c]))'
      BY <1>5, <2>1, <2>4, <2>5, <2>6 DEF Named, Holds, Place
    <2> QED
      BY <2>7 DEF Place
  <1> QED
    BY <1>6, <1>7

LEMMA FailContents ==
  ASSUME Shape, Contents, OwnDestinations, NEW c \in Call, Fail(c)
  PROVE  Contents'
  <1> USE Paths, Constants DEF Fail, Return, memory, durable, call, history, Shape, Contents
  <1>f. \A j \in Inode : data'[j] = data[j] /\ disk'[j] = disk[j]
    OBVIOUS
  <1>g. \A j \in Inode : data'[j] = data[j] /\ disk'[j] = disk[j] =>
          /\ Sound(j) => Sound(j)'
          /\ Good(j) => Good(j)'
          /\ \A u : Holds(j, u) => Holds(j, u)'
    BY Untouched
  <1>1. SourcesSound'
    BY <1>f, <1>g DEF TypeOK, SourcesSound, OwnCopies, OwnCopy, Calls, CallOK,
       Copying, Before, Filling, Placed
  <1>2. DestsGood'
    BY <1>f, <1>g, SoundIsGood DEF TypeOK, SourcesSound, DestsGood, OwnSources,
       OwnSource, OwnCopies, OwnCopy, Calls, CallOK, Copying, Before, Filling,
       Placed
  <1>3. Copies'
    BY <1>f, <1>g DEF TypeOK, Calls, CallOK, OwnCopies, OwnCopy, OwnSources,
       OwnSource, Copying, Before, Filling, Placed, Copies, CopyOK, BlockOK, Block,
       VersionsIn, SourcesSound, Sound, Holds, Whole, Content
  <1>4. Left'
    <2>1. \A s \in Source : dir'[s] \in {dir[s], None}
      BY DEF TypeOK
    <2>2. \A k \in Move : pc'[k] \in Filling \cup Placed =>
                            pc[k] \in Filling \cup Placed /\ rd'[k] = rd[k]
      BY DEF TypeOK, Filling, Placed
    <2> QED
      BY <2>1, <2>2, LeftFrame
  <1> QED
    BY <1>1, <1>2, <1>3, <1>4

LEMMA FailSafe ==
  ASSUME Shape, Contents, OwnDestinations, NoLoss, NEW c \in Call, Fail(c)
  PROVE  NoLoss'
  <1> USE Paths, Constants DEF Fail, Return, memory, durable, call, history, Shape, Contents
  <1>f. \A j \in Inode : data'[j] = data[j] /\ disk'[j] = disk[j]
    OBVIOUS
  <1>g. \A j \in Inode : data'[j] = data[j] /\ disk'[j] = disk[j] =>
          /\ Sound(j) => Sound(j)'
          /\ Good(j) => Good(j)'
          /\ \A u : Holds(j, u) => Holds(j, u)'
    BY Untouched
  <1> QED
    BY <1>f, <1>g, SafeFrame DEF TypeOK, Calls, CallOK, OwnCopies, OwnCopy,
       OwnSources, OwnSource, Copying, Before, Filling, Placed, Place

----------------------------------------------------------------------------
(* The invariant *)

LEMMA InitIInv == Init => IInv
  <1> SUFFICES ASSUME Init PROVE IInv
    OBVIOUS
  <1> USE Paths, Constants DEF Init
  <1>1. TypeOK
    BY DEF TypeOK, Copying, Content, Block, Empty, Whole
  <1>2. Shape
    BY <1>1 DEF Shape, Calls, CallOK, OwnCopies, OwnCopy, OwnSources, OwnSource,
       Undone, Filling,
       Placed, Before
  <1>3. Contents
    BY DEF Contents, SourcesSound, DestsGood, Copies, CopyOK, Left, Filling, Placed
  <1>4. NoLoss
    BY DEF NoLoss
  <1> QED
    BY <1>2, <1>3, <1>4 DEF IInv

LEMMA ShapeNext ==
  ASSUME Shape, OwnDestinations, Next
  PROVE  Shape'
  <1>1. CASE \E v \in Version, s \in Source : Submit(v, s)
    BY <1>1, SubmitShape
  <1>2. CASE \E v \in Version, s \in Source : Overwrite(v, s)
    BY <1>2, OverwriteShape
  <1>3. CASE \E vol \in Volumes : Commit(vol)
    BY <1>3, CommitShape
  <1>4. CASE PowerLoss
    BY <1>4, PowerLossShape
  <1>5. CASE \E c \in Call : Replace(c)
    BY <1>5, ReplaceShape
  <1>6. CASE \E c \in Call : Open(c)
    BY <1>6, OpenShape
  <1>7. CASE \E c \in Call : OpenTemp(c)
    BY <1>7, OpenTempShape
  <1>8. CASE \E c \in Call : Copy(c)
    BY <1>8, CopyShape
  <1>9. CASE \E c \in Call : Sync(c)
    BY <1>9, SyncShape
  <1>10. CASE \E c \in Call : Rename(c)
    BY <1>10, RenameShape
  <1>11. CASE \E c \in Call : SyncDir(c)
    BY <1>11, SyncDirShape
  <1>12. CASE \E c \in Call : Unlink(c)
    BY <1>12, UnlinkShape
  <1>13. CASE \E c \in Call : Fail(c)
    BY <1>13, FailShape
  <1> QED
    BY <1>1, <1>2, <1>3, <1>4, <1>5, <1>6, <1>7, <1>8, <1>9, <1>10, <1>11, <1>12,
       <1>13 DEF Next

LEMMA ContentsNext ==
  ASSUME Shape, Contents, OwnDestinations, Next
  PROVE  Contents'
  <1>1. CASE \E v \in Version, s \in Source : Submit(v, s)
    BY <1>1, SubmitContents
  <1>2. CASE \E v \in Version, s \in Source : Overwrite(v, s)
    BY <1>2, OverwriteContents
  <1>3. CASE \E vol \in Volumes : Commit(vol)
    BY <1>3, CommitContents
  <1>4. CASE PowerLoss
    BY <1>4, PowerLossContents
  <1>5. CASE \E c \in Call : Replace(c)
    BY <1>5, ReplaceContents
  <1>6. CASE \E c \in Call : Open(c)
    BY <1>6, OpenContents
  <1>7. CASE \E c \in Call : OpenTemp(c)
    BY <1>7, OpenTempContents
  <1>8. CASE \E c \in Call : Copy(c)
    BY <1>8, CopyContents
  <1>9. CASE \E c \in Call : Sync(c)
    BY <1>9, SyncContents
  <1>10. CASE \E c \in Call : Rename(c)
    BY <1>10, RenameContents
  <1>11. CASE \E c \in Call : SyncDir(c)
    BY <1>11, SyncDirContents
  <1>12. CASE \E c \in Call : Unlink(c)
    BY <1>12, UnlinkContents
  <1>13. CASE \E c \in Call : Fail(c)
    BY <1>13, FailContents
  <1> QED
    BY <1>1, <1>2, <1>3, <1>4, <1>5, <1>6, <1>7, <1>8, <1>9, <1>10, <1>11, <1>12,
       <1>13 DEF Next

LEMMA NoLossNext ==
  ASSUME Shape, Contents, NoLoss, OwnDestinations, Next
  PROVE  NoLoss'
  <1>1. CASE \E v \in Version, s \in Source : Submit(v, s)
    BY <1>1, SubmitSafe
  <1>2. CASE \E v \in Version, s \in Source : Overwrite(v, s)
    BY <1>2, OverwriteSafe
  <1>3. CASE \E vol \in Volumes : Commit(vol)
    BY <1>3, CommitSafe
  <1>4. CASE PowerLoss
    BY <1>4, PowerLossSafe
  <1>5. CASE \E c \in Call : Replace(c)
    BY <1>5, ReplaceSafe
  <1>6. CASE \E c \in Call : Open(c)
    BY <1>6, OpenSafe
  <1>7. CASE \E c \in Call : OpenTemp(c)
    BY <1>7, OpenTempSafe
  <1>8. CASE \E c \in Call : Copy(c)
    BY <1>8, CopySafe
  <1>9. CASE \E c \in Call : Sync(c)
    BY <1>9, SyncSafe
  <1>10. CASE \E c \in Call : Rename(c)
    BY <1>10, RenameSafe
  <1>11. CASE \E c \in Call : SyncDir(c)
    BY <1>11, SyncDirSafe
  <1>12. CASE \E c \in Call : Unlink(c)
    BY <1>12, UnlinkSafe
  <1>13. CASE \E c \in Call : Fail(c)
    BY <1>13, FailSafe
  <1> QED
    BY <1>1, <1>2, <1>3, <1>4, <1>5, <1>6, <1>7, <1>8, <1>9, <1>10, <1>11, <1>12,
       <1>13 DEF Next

LEMMA Stutter ==
  ASSUME IInv, UNCHANGED vars
  PROVE  IInv'
  <1> USE DEF vars, IInv
  <1>1. Shape'
    BY DEF Shape, TypeOK, Calls, CallOK, OwnCopies, OwnCopy, OwnSources, OwnSource, Undone
  <1>2. Contents'
    BY DEF Contents, SourcesSound, Sound, Holds, DestsGood, Good, VersionsIn,
       Copies, CopyOK,
       BlockOK, Left
  <1>3. NoLoss'
    BY DEF NoLoss, Named, Holds
  <1> QED
    BY <1>1, <1>2, <1>3

LEMMA Invariance == OwnDestinations => (Spec => []IInv)
  <1> SUFFICES ASSUME OwnDestinations PROVE Spec => []IInv
    OBVIOUS
  <1>1. IInv /\ [Next]_vars => IInv'
    BY ShapeNext, ContentsNext, NoLossNext, Stutter DEF IInv
  <1> QED
    BY InitIInv, <1>1, PTL DEF Spec

----------------------------------------------------------------------------
(* Theorems *)

\* Every system call of a move or a write, every write of the application, every power
\* loss leaves every variable in its type.
THEOREM TypeCorrect ==
  ASSUME OwnDestinations
  PROVE  Spec => []TypeOK
  <1>1. IInv => TypeOK
    BY DEF IInv, Shape
  <1> QED
    BY <1>1, Invariance, PTL

\* A file that the application has written and not replaced stays whole at a path,
\* through copies, rival moves, errors, crashes and power losses, unless it was written
\* while a move was copying its predecessor, or a directory could not be synced.
THEOREM NothingIsLost ==
  ASSUME OwnDestinations
  PROVE  Spec => []NoLoss
  <1>1. IInv => NoLoss
    BY DEF IInv
  <1> QED
    BY <1>1, Invariance, PTL

\* What has a final name was written whole before it got it, and stays so after a power
\* loss.
THEOREM NothingPartial ==
  ASSUME OwnDestinations
  PROVE  Spec => []DestinationWhole
  <1>1. IInv => DestinationWhole
    BY DEF IInv, Contents, DestsGood, Good, DestinationWhole
  <1> QED
    BY <1>1, Invariance, PTL

----------------------------------------------------------------------------
(* The atomic move *)

Present == {s \in Source : dir[s] # None}
Outcomes == [c \in Move |-> Outcome(c)]

LEMMA OutcomeOf ==
  ASSUME TypeOK, NEW c \in Call
  PROVE  /\ Outcome(c) = "moved" <=> pc[c] = "done"
         /\ Outcome(c) = "failed" <=> pc[c] = "failed"
         /\ Outcome(c) = "pending" <=> pc[c] \in Copying \cup {"idle"}
  BY DEF TypeOK, Outcome, Copying

\* A step that moves no source and ends no call is none of the store's.
LEMMA Silent ==
  ASSUME TypeOK, TypeOK', \A s \in Source : dir'[s] = None <=> dir[s] = None,
         \A c \in Move : \/ pc'[c] = pc[c]
                         \/ pc[c] \in Copying \cup {"idle"} /\ pc'[c] \in Copying
  PROVE  UNCHANGED Abstract!vars
  <1>1. Present' = Present
    BY DEF Present
  <1>2. \A c \in Move : Outcome(c)' = Outcome(c)
    BY DEF Outcome, Copying, Move
  <1> QED
    BY <1>1, <1>2 DEF Abstract!vars, Present

\* Each step of the store is a step of the atomic one, or none.
LEMMA Simulation ==
  ASSUME IInv, TypeOK', OwnDestinations, Next
  PROVE  [Abstract!Next]_(Abstract!vars)
  <1> USE Paths, Constants DEF IInv, Shape, memory, durable, call, history
  <1>1. CASE \E v \in Version, s \in Source : Submit(v, s)
    <2>1. PICK v \in Version, s \in Source : Submit(v, s)
      BY <1>1
    <2>2. \A r \in Source : dir'[r] # None <=> dir[r] # None \/ r = s
      BY <2>1 DEF Submit, Free, TypeOK
    <2>3. Present' = Present \cup {s}
      BY <2>2 DEF Present
    <2>4. \A c \in Move : Outcome(c)' = Outcome(c)
      BY <2>1 DEF Submit, Outcome
    <2>5. Abstract!Put(s)
      BY <2>3, <2>4 DEF Abstract!Put, Present
    <2> QED
      BY <2>5 DEF Abstract!Next
  <1>2. CASE \E v \in Version, s \in Source : Overwrite(v, s)
    BY <1>2, Silent DEF Overwrite
  <1>3. CASE \E vol \in Volumes : Commit(vol)
    BY <1>3, Silent DEF Commit
  <1>4. CASE PowerLoss
    <2>1. dir' = kept /\ \A c \in Call : pc'[c] = IF pc[c] \in Copying THEN "failed"
       ELSE pc[c]
      BY <1>4 DEF PowerLoss
    <2> DEFINE Back == {s \in Source : kept[s] # None /\ dir[s] = None}
               Cut  == {c \in Move : pc[c] \in Copying}
    <2>2. Present' = Present \cup Back
      BY <2>1 DEF Present, OwnSources, OwnSource
    <2>3. Back \subseteq {From[c] : c \in {k \in Move : Outcome(k) = "moved"}}
      BY OutcomeOf DEF Undone
    <2>4. Cut \subseteq {c \in Move : Outcome(c) = "pending"}
      BY OutcomeOf
    <2>5. \A c \in Move : Outcome(c)' = IF c \in Cut THEN "failed" ELSE Outcome(c)
      BY <2>1 DEF Outcome, Copying
    <2>6. Abstract!Restart
      <3>1. Back \in SUBSET {From[c] : c \in {k \in Move : Outcomes[k] = "moved"}}
        BY <2>3 DEF Outcomes
      <3>2. Cut \in SUBSET {c \in Move : Outcomes[c] = "pending"}
        BY <2>4 DEF Outcomes
      <3>3. Outcomes' = [c \in Move |-> IF c \in Cut THEN "failed" ELSE Outcomes[c]]
        BY <2>5 DEF Outcomes
      <3>4. \E S \in SUBSET {From[c] : c \in {k \in Move : Outcomes[k] = "moved"}} :
              Present' = Present \cup S
        BY <2>2, <3>1
      <3>5. \E P \in SUBSET {c \in Move : Outcomes[c] = "pending"} :
              Outcomes' = [c \in Move |-> IF c \in P THEN "failed" ELSE Outcomes[c]]
        BY <3>2, <3>3
      <3> QED
        BY <3>4, <3>5 DEF Abstract!Restart, Present, Outcomes
    <2> QED
      BY <2>6 DEF Abstract!Next
  <1>5. CASE \E c \in Call : Replace(c)
    <2>1. PICK c \in Call : Replace(c)
      BY <1>5
    <2>2. CASE pc'[c] = "done"
      <3>1. Present' = Present \ {From[c]} /\ From[c] \in Present
        BY <2>1, <2>2 DEF Replace, Present, TypeOK, Goto
      <3>2. \A k \in Move : Outcome(k)' = IF k = c THEN "moved" ELSE Outcome(k)
        BY <2>1, <2>2 DEF Replace, Return, Goto, Outcome, TypeOK
      <3>3. Outcome(c) = "pending" /\ c \in Move
        BY <2>1 DEF Replace, Outcome
      <3>4. Outcomes' = [Outcomes EXCEPT ![c] = "moved"]
        BY <3>2, <3>3 DEF Outcomes
      <3>5. Abstract!Move(c)
        BY <3>1, <3>3, <3>4 DEF Abstract!Move, Present, Outcomes
      <3> QED
        BY <3>3, <3>5 DEF Abstract!Next
    <2>3. CASE pc'[c] # "done"
      BY <2>1, <2>3, Silent DEF Replace, Goto, Return, Copying, TypeOK
    <2> QED
      BY <2>2, <2>3
  <1>6. CASE \E c \in Call : Open(c) \/ OpenTemp(c)
    <2>1. PICK c \in Call : Open(c) \/ OpenTemp(c)
      BY <1>6
    <2>2. /\ \A s \in Source : dir'[s] = dir[s]
          /\ pc[c] \in {"idle", "open"} /\ pc' = [pc EXCEPT ![c] = "copy"]
      BY <2>1 DEF Open, OpenTemp, Truncate, TypeOK
    <2> QED
      BY <2>2, Silent DEF Copying, TypeOK
  <1>7. CASE \E c \in Call : Copy(c) \/ Sync(c) \/ SyncDir(c)
    BY <1>7, Silent DEF Copy, Sync, SyncDir, Goto, Copying, TypeOK
  <1>8. CASE \E c \in Call : Rename(c)
    <2>1. PICK c \in Call : Rename(c)
      BY <1>8
    <2>2. /\ \A s \in Source : dir'[s] = dir[s]
          /\ pc[c] = "rename" /\ pc' = [pc EXCEPT ![c] = IF c \in Move THEN
             "syncdir" ELSE "done"]
      BY <2>1 DEF Rename, Goto, Return, TypeOK
    <2> QED
      BY <2>2, Silent DEF Copying, TypeOK
  <1>9. CASE \E c \in Call : Unlink(c)
    <2>1. PICK c \in Call : Unlink(c)
      BY <1>9
    <2>2. c \in Move
      BY <2>1 DEF Unlink, Calls, CallOK, Placed
    <2>3. Present' = Present \ {From[c]} /\ From[c] \in Present
      BY <2>1, <2>2 DEF Unlink, Present, TypeOK
    <2>4. \A k \in Move : Outcome(k)' = IF k = c THEN "moved" ELSE Outcome(k)
      BY <2>1, <2>2 DEF Unlink, Return, Outcome, TypeOK
    <2>5. Outcome(c) = "pending"
      BY <2>1 DEF Unlink, Outcome
    <2>6. Outcomes' = [Outcomes EXCEPT ![c] = "moved"]
      BY <2>2, <2>4 DEF Outcomes
    <2>7. Abstract!Move(c)
      BY <2>2, <2>3, <2>5, <2>6 DEF Abstract!Move, Present, Outcomes
    <2> QED
      BY <2>2, <2>7 DEF Abstract!Next
  <1>10. CASE \E c \in Call : Fail(c)
    <2>1. PICK c \in Call : Fail(c)
      BY <1>10
    <2>2. \A s \in Source : dir'[s] = dir[s]
      BY <2>1 DEF Fail, TypeOK
    <2>3. \A k \in Move : Outcome(k)' = IF k = c THEN "failed" ELSE Outcome(k)
      BY <2>1 DEF Fail, Return, Outcome, TypeOK
    <2>4. Present' = Present
      BY <2>2 DEF Present
    <2>5. CASE c \notin Move
      <3>1. Outcomes' = Outcomes
        BY <2>3, <2>5 DEF Outcomes
      <3> QED
        BY <2>4, <3>1 DEF Abstract!vars, Present, Outcomes
    <2>6. CASE c \in Move
      <3>1. Outcome(c) = "pending"
        BY <2>1 DEF Fail, Outcome, Copying
      <3>2. Outcomes' = [Outcomes EXCEPT ![c] = "failed"]
        BY <2>3, <2>6 DEF Outcomes
      <3>3. Abstract!Fail(c)
        BY <2>4, <2>6, <3>1, <3>2 DEF Abstract!Fail, Present, Outcomes
      <3> QED
        BY <2>6, <3>3 DEF Abstract!Next
    <2> QED
      BY <2>5, <2>6
  <1> QED
    BY <1>1, <1>2, <1>3, <1>4, <1>5, <1>6, <1>7, <1>8, <1>9, <1>10 DEF Next

\* A move across volumes, a copy and an unlink beside others, is to its callers the
\* atomic move of Relocation: it takes the file and returns, or raises and takes nothing.
THEOREM Implementation ==
  ASSUME OwnDestinations
  PROVE  Spec => ImplementsRelocation
  <1>1. Init => Abstract!Init
    <2> SUFFICES ASSUME Init PROVE Abstract!Init
      OBVIOUS
    <2>1. Present = {}
      BY Paths DEF Init, Present
    <2>2. \A c \in Move : Outcome(c) = "pending"
      BY Constants DEF Init, Outcome
    <2> QED
      BY <2>1, <2>2 DEF Abstract!Init, Present
  <1>2. IInv /\ IInv' /\ [Next]_vars => [Abstract!Next]_(Abstract!vars)
    <2> SUFFICES ASSUME IInv, IInv', [Next]_vars
                 PROVE  [Abstract!Next]_(Abstract!vars)
      OBVIOUS
    <2>1. CASE Next
      BY <2>1, Simulation DEF IInv, Shape
    <2>2. CASE UNCHANGED vars
      <3>1. \A c \in Move : Outcome(c)' = Outcome(c)
        BY <2>2 DEF vars, Outcome
      <3> QED
        BY <2>2, <3>1 DEF vars, Abstract!vars
    <2> QED
      BY <2>1, <2>2
  <1> QED
    BY <1>1, <1>2, Invariance, PTL DEF Spec, ImplementsRelocation, Abstract!Spec

=============================================================================
