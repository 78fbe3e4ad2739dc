----------------------------- MODULE CloudFiles -----------------------------
(***************************************************************************)
(* ISteamRemoteStorage's files (src/storage.cpp): writes in place with no  *)
(* lock, write streams that are kept in memory until they are closed, and  *)
(* the list of names that GetFileCount makes for GetFileNameAndSize.       *)
(* Several threads of the game call; the process may die in any write.     *)
(***************************************************************************)
EXTENDS Naturals, Sequences, SequencesExt, FiniteSets

CONSTANTS
  CloudNames,   \* names the game uses
  PathOf,       \* NormalizeRelPath: per name, the path under remote/
  Hidden,       \* the paths that begin with a dot
  Absent,       \* stands for a file that is not there
  Workers,      \* threads that call
  MaxChunks,    \* bound: blocks of data written in one behaviour
  MaxStreams,   \* bound: streams opened
  MaxCounts     \* bound: lists made

Path == {PathOf[n] : n \in CloudNames}

ASSUME CloudFilesAssumption ==
  /\ IsFiniteSet(CloudNames) /\ DOMAIN PathOf = CloudNames /\ Path \subseteq CloudNames
  /\ \A n \in CloudNames : PathOf[PathOf[n]] = PathOf[n]
  /\ Hidden \subseteq Path /\ Absent /= << >>
  /\ MaxChunks \in Nat /\ MaxStreams \in Nat /\ MaxCounts \in Nat

VARIABLES
  disk,        \* per path, its blocks, or Absent
  open,        \* the writes under way: the file is truncated, the data not written
  streams,     \* g_streams: per handle, name and blocks; or none
  nextStream,
  fileList,    \* g_fileList
  chunks,      \* number of blocks the game has written
  cursor,      \* the index of the game's next GetFileNameAndSize
  counts,      \* number of lists made
  named,       \* history: the names since GetFileCount
  untouched,   \* history: paths listed then and no call has changed since
  alive,       \* history: streams the game has opened and not closed
  intended,    \* history: per path, what the calls that returned leave in it
  mixed        \* history: paths two calls changed at once, or a process died writing

cloudVars == <<disk, open, streams, nextStream, fileList, chunks, cursor, counts,
               named, untouched, alive, intended, mixed>>
listing == <<fileList, cursor, counts, named>>

CloudInit ==
  /\ disk = [p \in Path |-> Absent] /\ open = {} /\ mixed = {}
  /\ streams = << >> /\ nextStream = 1 /\ alive = {}
  /\ fileList = << >> /\ cursor = 0 /\ counts = 0 /\ named = << >> /\ untouched = {}
  /\ chunks = 0 /\ intended = [p \in Path |-> Absent]

---------------------------------------------------------------------------
Idle(t) == t \in Workers /\ \A w \in open : w.by /= t
Busy(p) == \E w \in open : w.path = p

(* Write: fopen empties the file; FinishWrite is fwrite and fclose, which  *)
(* leave what another writer has put behind the end of the data.           *)
Write(t, n, data, meant) ==
  /\ disk' = [disk EXCEPT ![PathOf[n]] = << >>]
  /\ open' = open \cup {[by |-> t, path |-> PathOf[n], data |-> data, meant |-> meant]}
  /\ mixed' = IF Busy(PathOf[n]) THEN mixed \cup {PathOf[n]} ELSE mixed
  /\ untouched' = untouched \ {PathOf[n]}

FinishWrite(t) == \E w \in open :
  /\ w.by = t /\ open' = open \ {w}
  /\ disk' = [disk EXCEPT ![w.path] =
                IF @ = Absent THEN @
                ELSE w.data \o SubSeq(@, Len(w.data) + 1, Len(@))]
  /\ intended' = [intended EXCEPT ![w.path] = w.meant]
  /\ UNCHANGED <<streams, nextStream, chunks, untouched, alive, mixed, listing>>

FileWrite(t, n) ==
  /\ Idle(t) /\ chunks < MaxChunks /\ chunks' = chunks + 1
  /\ Write(t, n, <<chunks + 1>>, <<chunks + 1>>)
  /\ UNCHANGED <<streams, nextStream, alive, intended, listing>>

FileDelete(t, n) ==
  /\ Idle(t)
  /\ disk' = [disk EXCEPT ![PathOf[n]] = Absent]
  /\ intended' = [intended EXCEPT ![PathOf[n]] = Absent]
  /\ mixed' = IF Busy(PathOf[n]) THEN mixed \cup {PathOf[n]} ELSE mixed
  /\ untouched' = untouched \ {PathOf[n]}
  /\ UNCHANGED <<open, streams, nextStream, chunks, alive, listing>>

(* FileWriteStreamOpen, WriteChunk, Cancel, Close.                         *)
StreamOpen(t, n) ==
  /\ Idle(t) /\ nextStream <= MaxStreams
  /\ streams' = Append(streams, [name |-> n, data |-> << >>, live |-> TRUE])
  /\ nextStream' = nextStream + 1 /\ alive' = alive \cup {nextStream}
  /\ UNCHANGED <<disk, open, chunks, untouched, intended, mixed, listing>>

StreamWrite(t, h) ==
  /\ Idle(t) /\ chunks < MaxChunks /\ streams[h].live
  /\ streams' = [streams EXCEPT ![h].data = Append(@, chunks + 1)]
  /\ chunks' = chunks + 1
  /\ UNCHANGED <<disk, open, nextStream, untouched, alive, intended, mixed, listing>>

(* Mutant of EraseStream: the handles behind it move up. *)
EraseStreamShift(h) == RemoveAt(streams, h)

(* Mutant of EraseStream: the entry stays and can be closed again. *)
EraseStreamNever(h) == streams

(* The entry leaves the map under the lock; the write follows the unlock.  *)
EraseStream(h) == [streams EXCEPT ![h].live = FALSE]

StreamCancel(t, h) ==
  /\ Idle(t) /\ streams[h].live
  /\ streams' = [streams EXCEPT ![h].live = FALSE] /\ alive' = alive \ {h}
  /\ UNCHANGED <<disk, open, nextStream, chunks, untouched, intended, mixed, listing>>

StreamClose(t, h) ==
  /\ Idle(t) /\ streams[h].live
  /\ streams' = EraseStream(h) /\ alive' = alive \ {h}
  /\ LET s == streams[h]
     IN  Write(t, s.name, s.data,
               IF h \in alive THEN s.data ELSE intended[PathOf[s.name]])
  /\ UNCHANGED <<nextStream, chunks, intended, listing>>

(* CollectFiles gives the paths in the order of the directory, which is    *)
(* any order, and skips names that begin with a dot.                       *)
Listed == {p \in Path \ Hidden : disk[p] /= Absent}
Directories == {s \in [1..Cardinality(Listed) -> Listed] : IsInjective(s)}

GetFileCount ==
  /\ counts < MaxCounts /\ counts' = counts + 1
  /\ fileList' \in Directories
  /\ cursor' = 1 /\ named' = << >> /\ untouched' = Listed
  /\ UNCHANGED <<disk, open, streams, nextStream, chunks, alive, intended, mixed>>

(* Mutant of ListToRead: each index makes a list of its own. *)
ListToReadNow == Directories

(* GetFileNameAndSize reads the list; it makes one only if there is none.  *)
ListToRead == IF fileList = << >> THEN Directories ELSE {fileList}

GetFileNameAndSize ==
  /\ cursor \in 1..Len(fileList)
  /\ fileList' \in ListToRead
  /\ named' = IF cursor \in DOMAIN fileList' THEN Append(named, fileList'[cursor])
              ELSE named
  /\ cursor' = cursor + 1
  /\ UNCHANGED <<disk, open, streams, nextStream, chunks, counts, untouched,
                 alive, intended, mixed>>

(* The process dies: of each write under way a beginning is in the file.   *)
(* The next one has no streams and no list.                                *)
DieWriting ==
  /\ open /= {} /\ open' = {}
  /\ \E cut \in [open -> 0..MaxChunks] :
       /\ \A w \in open : cut[w] <= Len(w.data)
       /\ disk' = [p \in Path |->
            IF Busy(p) /\ disk[p] /= Absent
            THEN LET w == CHOOSE w \in open : w.path = p IN SubSeq(w.data, 1, cut[w])
            ELSE disk[p]]
  /\ mixed' = mixed \cup {w.path : w \in open}
  /\ streams' = << >> /\ nextStream' = 1 /\ alive' = {}
  /\ fileList' = << >> /\ cursor' = 0 /\ named' = << >> /\ untouched' = {}
  /\ UNCHANGED <<chunks, counts, intended>>

CloudNext ==
  \/ GetFileCount \/ GetFileNameAndSize \/ DieWriting
  \/ \E t \in Workers :
       \/ FinishWrite(t)
       \/ \E n \in CloudNames : FileWrite(t, n) \/ FileDelete(t, n) \/ StreamOpen(t, n)
       \/ \E h \in DOMAIN streams :
            StreamWrite(t, h) \/ StreamClose(t, h) \/ StreamCancel(t, h)

CloudSpec == CloudInit /\ [][CloudNext]_cloudVars

---------------------------------------------------------------------------
CloudTypeOK ==
  /\ \A p \in Path : disk[p] = Absent \/ disk[p] \in Seq(1..MaxChunks)
  /\ \A w \in open : w.by \in Workers /\ w.path \in Path
  /\ Len(streams) = nextStream - 1 /\ alive \subseteq DOMAIN streams
  /\ fileList \in Seq(Path) /\ mixed \subseteq Path
  /\ chunks \in 0..MaxChunks /\ counts \in 0..MaxCounts

(* A file holds what the last call to return has written, whole: a stream  *)
(* its chunks when it is closed and never again.  Only two calls on one    *)
(* file at once, or a death in a write, leave something else               *)
(* (Write, StreamClose), as long as the disk takes every write: an error   *)
(* of fopen or fwrite is not in the model.                                 *)
FileIsLastWrite ==
  \A p \in Path : ~Busy(p) /\ p \notin mixed => disk[p] = intended[p]

(* A game that asks for the count and then for every index, and writes and *)
(* deletes files on the way, gets every file it left alone exactly once    *)
(* (RefreshFileList, FileNameByIndex).                                     *)
EnumeratedOnce ==
  cursor = Len(fileList) + 1 =>
    \A p \in untouched : Cardinality({i \in DOMAIN named : named[i] = p}) = 1
=============================================================================
