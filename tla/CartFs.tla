------------------------------- MODULE CartFs -------------------------------
(***************************************************************************)
(* The file system of a cartridge: the tool that writes it (cart.rs) and   *)
(* the library that reads it (fs.rs).  A tree is a function on its paths,  *)
(* closed under prefixes; names are numbers, in the order of their bytes.  *)
(* Positions count from the start of the file system.                      *)
(***************************************************************************)
EXTENDS Integers, FiniteSets, SequencesExt

CONSTANTS
  Paths,       \* the paths given to the library
  FsHeader,    \* size of the header of the file system, and the alignment of entries
  HdrSize      \* size of the header of an entry

ASSUME FsAssumption ==
  FsHeader \in Nat \ {0} /\ HdrSize \in Nat \ {0} /\ HdrSize % FsHeader = 0

IsTree(t) ==
  \A p \in DOMAIN t :
    /\ p # <<>> /\ p[1] = 0 /\ t[p].size \in Nat
    /\ Len(p) > 1 => Front(p) \in DOMAIN t /\ t[Front(p)].dir

VARIABLES
  tree,    \* what FsEntry::from_path has read
  hdr,     \* the headers of the entries, by position
  len,     \* length of the file system; 0 before the header is written
  open,    \* the directories dump is in, outermost first
  reader   \* a visit of the library: the frames of visit_r and its visitor

fsVars == <<tree, hdr, len, open, reader>>

Idle == [at |-> <<>>, mode |-> "idle", want |-> <<>>, seen |-> <<>>, result |-> 0,
         path |-> <<>>]

FsInit(t) ==
  tree = t /\ hdr = <<>> /\ len = 0 /\ open = <<>> /\ reader = Idle

-----------------------------------------------------------------------------
(* The writer *)

AlignUp(n) == ((n + FsHeader - 1) \div FsHeader) * FsHeader

\* from_path: directories first, then files, each by name.
Before(p, q) ==
  \/ tree[p].dir /\ ~tree[q].dir
  \/ tree[p].dir = tree[q].dir /\ Last(p) < Last(q)
Entries(path) ==
  SetToSortSeq({p \in DOMAIN tree : Len(p) = Len(path) + 1 /\ IsPrefix(path, p)}, Before)

\* The header of an entry; data stands for its contents, which the checksum protects.
EntryAt(p, next) ==
  [name |-> Last(p), dir |-> tree[p].dir, next |-> next, data |-> p,
   length |-> IF tree[p].dir THEN Len(Entries(p)) ELSE tree[p].size]

Put(pos, entry) == [x \in DOMAIN hdr \cup {pos} |-> IF x = pos THEN entry ELSE hdr[x]]

Dump(p, frames) ==
  IF tree[p].dir
  THEN /\ hdr' = Put(len, EntryAt(p, 0)) /\ len' = len + HdrSize
       /\ open' = Append(frames, [start |-> len, todo |-> Entries(p), last |-> 0])
  ELSE LET end == AlignUp(len + HdrSize + tree[p].size)
       IN  hdr' = Put(len, EntryAt(p, end)) /\ len' = end /\ open' = frames

\* load_fs
FsBegin ==
  /\ len = 0
  /\ len' = FsHeader /\ UNCHANGED <<tree, hdr, open, reader>>

DumpRoot ==
  /\ len = FsHeader /\ hdr = <<>>
  /\ Dump(<<0>>, <<>>) /\ UNCHANGED <<tree, reader>>

DumpNext ==
  /\ open # <<>> /\ Last(open).todo # <<>>
  /\ Dump(Head(Last(open).todo),
          Append(Front(open), [Last(open) EXCEPT !.todo = Tail(@), !.last = len]))
  /\ UNCHANGED <<tree, reader>>

\* Mutant: the last entry of the directory keeps its next pointer.
DumpEndUnlinked ==
  /\ open # <<>> /\ Last(open).todo = <<>>
  /\ hdr' = [hdr EXCEPT ![Last(open).start].next = len]
  /\ open' = Front(open) /\ UNCHANGED <<tree, len, reader>>

\* A directory is complete: its last entry has no next one.
DumpEnd ==
  /\ open # <<>> /\ Last(open).todo = <<>>
  /\ hdr' = [x \in DOMAIN hdr |->
               IF x = Last(open).start THEN [hdr[x] EXCEPT !.next = len]
               ELSE IF x = Last(open).last THEN [hdr[x] EXCEPT !.next = 0]
               ELSE hdr[x]]
  /\ open' = Front(open) /\ UNCHANGED <<tree, len, reader>>

\* load_fs again; the cartridge is ready when this returns.
FsWritten == hdr # <<>> /\ open = <<>> /\ reader.mode = "idle"
FsEnd ==
  /\ FsWritten
  /\ hdr' = [hdr EXCEPT ![FsHeader].next = 0]
  /\ reader' = [reader EXCEPT !.mode = "ready"] /\ UNCHANGED <<tree, len, open>>

-----------------------------------------------------------------------------
(* The reader *)

\* entry and fsck
StartEntry(path) ==
  /\ reader.mode = "ready"
  /\ reader' = [reader EXCEPT !.mode = "entry", !.path = path, !.want = path,
                              !.at = IF path = <<>> THEN <<>> ELSE <<FsHeader>>]
  /\ UNCHANGED <<tree, hdr, len, open>>
StartFsck ==
  /\ reader.mode = "ready"
  /\ reader' = [reader EXCEPT !.mode = "fsck", !.at = <<FsHeader>>]
  /\ UNCHANGED <<tree, hdr, len, open>>

Visiting == reader.at # <<>>
Pos == Last(reader.at)

\* entry_at
Valid(pos) == pos % FsHeader = 0 /\ pos + HdrSize <= len

\* The loop of visit_r ends: it returns to its caller, or the visit is over.
VisitReturns ==
  /\ Visiting /\ Pos = 0
  /\ reader' = [reader EXCEPT !.at = Front(@)]

VisitFails ==
  /\ Visiting /\ Pos # 0 /\ ~Valid(Pos)
  /\ reader' = [reader EXCEPT !.at = <<>>, !.result = -1]

\* What follows an entry: its contents if it is to be visited, then the next one.
Following(pos, recurse) ==
  Front(reader.at) \o <<hdr[pos].next>> \o
  (IF recurse /\ hdr[pos].dir THEN <<pos + HdrSize>> ELSE <<>>)

\* The visitor of entry: each part of the path in turn.
VisitEntry ==
  /\ Visiting /\ reader.mode = "entry" /\ Pos # 0 /\ Valid(Pos)
  /\ LET matches == hdr[Pos].name = Head(reader.want)
     IN  reader' =
           IF matches /\ Len(reader.want) = 1
           THEN [reader EXCEPT !.want = <<>>, !.at = <<>>, !.result = Pos]
           ELSE [reader EXCEPT !.want = IF matches THEN Tail(@) ELSE @,
                               !.at = Following(Pos, matches)]

\* The visitor of fsck: every entry.
VisitFsck ==
  /\ Visiting /\ reader.mode = "fsck" /\ Pos # 0 /\ Valid(Pos)
  /\ reader' = [reader EXCEPT !.seen = Append(@, hdr[Pos].data), !.at = Following(Pos, TRUE)]

FsRead ==
  \/ StartFsck \/ \E path \in Paths : StartEntry(path)
  \/ /\ VisitReturns \/ VisitFails \/ VisitEntry \/ VisitFsck
     /\ UNCHANGED <<tree, hdr, len, open>>

-----------------------------------------------------------------------------
(* Properties *)

Finished(mode) == reader.mode = mode /\ ~Visiting

\* A path that was given to the tool is found by the library: the entry of that path
\* and no other, whose contents lie in the file system and under no other entry (entry
\* and contents of fs.rs against dump of cart.rs).
FilesAreFound ==
  Finished("entry") /\ reader.path \in DOMAIN tree =>
    LET pos == reader.result
    IN  /\ pos \in DOMAIN hdr /\ hdr[pos].data = reader.path
        /\ hdr[pos].dir = tree[reader.path].dir
        /\ ~hdr[pos].dir =>
             /\ hdr[pos].length = tree[reader.path].size
             /\ pos + HdrSize + hdr[pos].length <= len
             /\ \A x \in DOMAIN hdr : x <= pos \/ x >= pos + HdrSize + hdr[pos].length

\* A full visit meets every entry of the tree once, if no directory is empty: the
\* counts of fsck are those of the tree.
FsckSeesTree ==
  Finished("fsck") /\ (\A p \in DOMAIN tree : tree[p].dir => Entries(p) # <<>>) =>
    /\ reader.result = 0
    /\ Len(reader.seen) = Cardinality(DOMAIN tree) /\ Range(reader.seen) = DOMAIN tree

\* What the library reads is the tree that the tool was given, by path and as a whole.
TreeIsRead == FilesAreFound /\ FsckSeesTree
=============================================================================
