--------------------------- MODULE ProtectedRead ---------------------------
(***************************************************************************)
(* Stage A fixture: read_verified_p10 (windows_p10_reader.cpp) and         *)
(* read_verified_p11 (windows_p11_custody.cpp), which differ in names and  *)
(* sizes only.  A reader opens the volume root, the directories below it   *)
(* and the file, each relative to the handle of its parent, and checks     *)
(* each against its seal; it reads the file in chunks, twice, and checks   *)
(* every node again.  Only then it returns the bytes.                      *)
(*                                                                         *)
(* Meanwhile others move nodes, change attributes and descriptors, and     *)
(* write, extend and truncate the file: the handles share writing.  The    *)
(* directories are opened for their attributes only, and Windows enforces  *)
(* no share mode for that: a directory can be moved away although it is    *)
(* open, until something below it is.  Only the leaf, opened for its data  *)
(* and not shared for deleting, holds its own place.  As in Snapshot, a    *)
(* write is assumed not to bring back what was there before, which a       *)
(* second look cannot detect.  Binding treats a reading as one step; this  *)
(* module is the reason why it may.                                        *)
(***************************************************************************)
EXTENDS Integers, Sequences

CONSTANTS
    Depth,         \* levels below the volume root
    Obj, File,     \* directories and files, and the files among them
    Root,          \* the volume root
    Value,         \* of the attributes, with the reparse tag, and of the descriptor
    Block,         \* a unit of content
    SealId, SealMeta, Canonical,   \* the trusted configuration
    Chunk,         \* the most one ReadFile asks for
    None,
    Worlds,        \* bound: the disks a run starts from, see WorldType
    MaxSize,       \* bound: size of a file
    MaxChanges     \* bound: changes others make

Level == 0..Depth
Facet == {"attr", "acl"}
Meta  == [Facet -> Value]

WorldType == [child : [Obj -> Obj \cup {None}], meta : [Obj -> Meta], data : [File -> Seq(Block)]]

ASSUME DepthAssumption == Depth \in Nat \ {0} /\ Chunk \in Nat \ {0}
ASSUME ObjAssumption == File \subseteq Obj /\ Root \in Obj \ File /\ None \notin Obj /\ None \notin Value
ASSUME SealAssumption == SealId \in [Level -> Obj] /\ SealMeta \in [Level -> Meta]
ASSUME CanonicalAssumption == Canonical \in Seq(Block)
ASSUME WorldAssumption ==
    Worlds \subseteq WorldType /\ \A w \in Worlds, o \in File : Len(w.data[o]) <= MaxSize
ASSUME BoundAssumption == MaxSize \in Nat /\ MaxChanges \in Nat

VARIABLES
    \* the disk
    child,     \* what a directory holds under the reviewed name
    meta, data,
    hadMeta,   \* every value a facet of an object has had
    hadData,   \* every block a position of a file has had
    changes,
    open,      \* the process's handles: what the one of each level is open on
    \* the reader
    pc,
    round,     \* 1: first identities and reading, 2: second reading and identities
    level,     \* the node looked at
    held,      \* HeldHandles: how many handles it has, root first
    found,     \* the Metadata inspect collects, ...
    placed,    \* ... its final path: the reviewed one?
    size, buf, \* end of file as first seen, and what was read so far
    bytes,     \* what the first reading returned
    result,
    \* observer
    witness    \* the disk when the second reading asks for the size

diskVars == <<child, meta, data, hadMeta, hadData, changes>>
readVars == <<size, buf, bytes>>
inspectVars == <<found, placed>>
vars == <<diskVars, open, pc, round, level, held, inspectVars, readVars, result, witness>>

Disk == [child |-> child, meta |-> meta, data |-> data]
Unread == [f \in Facet |-> None]
NoHandle == [l \in Level |-> None]

TypeOK ==
    /\ child \in [Obj -> Obj \cup {None}] /\ meta \in [Obj -> Meta] /\ data \in [File -> Seq(Block)]
    /\ hadMeta \in [Obj -> [Facet -> SUBSET Value]]
    /\ hadData \in [File -> [1..MaxSize -> SUBSET Block]]
    /\ changes \in 0..MaxChanges
    /\ open \in [Level -> Obj \cup {None}]
    /\ pc \in {"Open", "Add", "Attr", "Path", "Acl", "Check", "Size", "Read", "Eof", "Close", "Done"}
    /\ round \in {1, 2}
    /\ level \in Level
    /\ held \in 0..(Depth + 1)
    /\ found \in [Facet -> Value \cup {None}] /\ placed \in BOOLEAN
    /\ size \in Nat
    /\ buf \in Seq(Block) /\ bytes \in Seq(Block)
    /\ result \in {"failed", "verified"}
    /\ witness \in WorldType

Init ==
    /\ \E w \in Worlds : child = w.child /\ meta = w.meta /\ data = w.data
    /\ hadMeta = [o \in Obj |-> [f \in Facet |-> {meta[o][f]}]]
    /\ hadData = [o \in File |-> [i \in 1..MaxSize |-> IF i <= Len(data[o]) THEN {data[o][i]} ELSE {}]]
    /\ changes = 0
    /\ open = NoHandle
    /\ pc = "Open" /\ round = 1 /\ level = 0
    /\ held = 0 /\ found = Unread /\ placed = FALSE
    /\ size = 0 /\ buf = <<>> /\ bytes = <<>>
    /\ result = "failed"
    /\ witness = Disk

-----------------------------------------------------------------------------
(* Handles *)

\* FILE_DIRECTORY_FILE above the leaf, FILE_NON_DIRECTORY_FILE for the leaf.
RightKind(o) == (o \in File) <=> (level = Depth)

\* The object the open is for: by its path for the root, else by its name in
\* the directory the parent's handle is open on.
Target == IF level = 0 THEN Root ELSE child[open[level - 1]]

\* open_root and open_relative
Open ==
    /\ pc = "Open"
    /\ Target # None /\ RightKind(Target)
    /\ open' = [open EXCEPT ![level] = Target]
    /\ pc' = "Add"
    /\ UNCHANGED <<diskVars, round, level, held, inspectVars, readVars, result, witness>>

\* HeldHandles::add
Add ==
    /\ pc = "Add"
    /\ held' = held + 1
    /\ pc' = "Attr"
    /\ UNCHANGED <<diskVars, open, round, level, inspectVars, readVars, result, witness>>

\* Mutant of AddFails: the handle the vector has no room for is not closed.
AddForgets ==
    /\ pc = "Add"
    /\ pc' = "Close"
    /\ UNCHANGED <<diskVars, open, round, level, held, inspectVars, readVars, result, witness>>

\* push_back throws: the handle is not yet anybody's, so add closes it.
AddFails ==
    /\ pc = "Add"
    /\ open' = [open EXCEPT ![level] = None]
    /\ pc' = "Close"
    /\ UNCHANGED <<diskVars, round, level, held, inspectVars, readVars, result, witness>>

\* Any other exception.  Every call of the system may fail.
Fail ==
    /\ pc \notin {"Add", "Close", "Done"}
    /\ pc' = "Close"
    /\ UNCHANGED <<diskVars, open, round, level, held, inspectVars, readVars, result, witness>>

\* ~HeldHandles closes one handle after the other, the last one first.
Close ==
    /\ pc = "Close" /\ held > 0
    /\ open' = [open EXCEPT ![held - 1] = None]
    /\ held' = held - 1
    /\ UNCHANGED <<diskVars, pc, round, level, inspectVars, readVars, result, witness>>

Closed ==
    /\ pc = "Close" /\ held = 0
    /\ pc' = "Done"
    /\ UNCHANGED <<diskVars, open, round, level, held, inspectVars, readVars, result, witness>>

-----------------------------------------------------------------------------
(* Identities *)

Node == open[level]

\* n reviewed names, one after the other, lead from the directory a to b.
Leads(n, a, b) ==
    \E f \in [0..n -> Obj] :
        f[0] = a /\ f[n] = b /\ \A k \in 0..(n - 1) : child[f[k]] = f[k + 1]

\* The final path of o is the reviewed one of level l.
AtPath(l, o) == Leads(l, Root, o)

\* inspect asks for one thing after the other: attributes and tag, ...
InspectAttr ==
    /\ pc = "Attr"
    /\ found' = [Unread EXCEPT !["attr"] = meta[Node]["attr"]] /\ placed' = FALSE
    /\ pc' = "Path"
    /\ UNCHANGED <<diskVars, open, round, level, held, readVars, result, witness>>

\* ... the final path, ...
InspectPath ==
    /\ pc = "Path"
    /\ placed' = AtPath(level, Node)
    /\ pc' = "Acl"
    /\ UNCHANGED <<diskVars, open, round, level, held, found, readVars, result, witness>>

\* ... and the security descriptor.
InspectAcl ==
    /\ pc = "Acl"
    /\ found' = [found EXCEPT !["acl"] = meta[Node]["acl"]]
    /\ pc' = "Check"
    /\ UNCHANGED <<diskVars, open, round, level, held, placed, readVars, result, witness>>

\* check_node.  The first time it compares with the seal; the second time with
\* what it found the first time, which is the same.
NodeIsSealed ==
    /\ Node = SealId[level]
    /\ found = SealMeta[level] /\ placed

\* The first round opens the next node or goes on to the content; the second
\* looks at the next node, and after the last the bytes are returned.
Proceed ==
    IF level < Depth
    THEN level' = level + 1 /\ pc' = (IF round = 1 THEN "Open" ELSE "Attr") /\ result' = result
    ELSE IF round = 1
    THEN level' = level /\ pc' = "Size" /\ result' = result
    ELSE level' = level /\ pc' = "Close" /\ result' = "verified"

\* Mutant of CheckNode: a node that differs is looked at again.
CheckNodeRetries ==
    /\ pc = "Check"
    /\ IF NodeIsSealed THEN Proceed ELSE level' = level /\ pc' = "Attr" /\ result' = result
    /\ UNCHANGED <<diskVars, open, round, held, inspectVars, readVars, witness>>

CheckNode ==
    /\ pc = "Check"
    /\ NodeIsSealed
    /\ Proceed
    /\ UNCHANGED <<diskVars, open, round, held, inspectVars, readVars, witness>>

-----------------------------------------------------------------------------
(* Content *)

content == data[open[Depth]]

\* Mutant of EndOfFile: room for the last byte is forgotten.
EndOfFileShort == Len(content) - 1

EndOfFile == Len(content)

\* read_content: the size must not exceed that of the sealed bytes.
ReadSize ==
    /\ pc = "Size"
    /\ EndOfFile <= Len(Canonical)
    /\ size' = EndOfFile
    /\ buf' = <<>>
    /\ witness' = IF round = 2 THEN Disk ELSE witness
    /\ pc' = "Read"
    /\ UNCHANGED <<diskVars, open, round, level, held, inspectVars, bytes, result>>

\* One ReadFile of the loop.  It may return less than asked for; if it returns
\* nothing, because the file was truncated, the reading fails.
ReadChunk(n) ==
    /\ pc = "Read"
    /\ n <= size - Len(buf)
    /\ Len(buf) + n <= Len(content)
    /\ buf' = buf \o SubSeq(content, Len(buf) + 1, Len(buf) + n)
    /\ UNCHANGED <<diskVars, open, pc, round, level, held, inspectVars, size, bytes, result, witness>>

\* One more byte is asked for and there is none.
ReadEof ==
    /\ pc = "Read" /\ Len(buf) = size
    /\ Len(content) <= size
    /\ pc' = "Eof"
    /\ UNCHANGED <<diskVars, open, round, level, held, inspectVars, readVars, result, witness>>

SizeUnchanged == EndOfFile = size

\* The first reading ends with the sealed bytes.
EndFirst ==
    /\ pc = "Eof" /\ round = 1
    /\ SizeUnchanged
    /\ buf = Canonical
    /\ bytes' = buf
    /\ round' = 2
    /\ pc' = "Size"
    /\ UNCHANGED <<diskVars, open, level, held, inspectVars, size, buf, result, witness>>

\* Mutant of SameBytes: the second reading is not compared.
AnyBytes == TRUE

SameBytes == buf = bytes

\* The second one with the same.
EndSecond ==
    /\ pc = "Eof" /\ round = 2
    /\ SizeUnchanged
    /\ SameBytes
    /\ level' = 0
    /\ pc' = "Attr"
    /\ UNCHANGED <<diskVars, open, round, held, inspectVars, readVars, result, witness>>

Reader ==
    \/ Open \/ Add \/ AddFails \/ Fail \/ Close \/ Closed
    \/ InspectAttr \/ InspectPath \/ InspectAcl \/ CheckNode
    \/ ReadSize \/ ReadEof \/ EndFirst \/ EndSecond
    \/ \E n \in 1..Chunk : ReadChunk(n)

-----------------------------------------------------------------------------
(* The others *)

readerVars == <<open, pc, round, level, held, inspectVars, readVars, result, witness>>

Change == changes < MaxChanges /\ changes' = changes + 1

\* Mutant of SharesNoDelete: the file is opened with FILE_SHARE_DELETE.
SharesDelete(o) == FALSE

\* p10_file_read_spec: the leaf is open for reading data and shared for reading
\* and writing only, so that nobody opens it for DELETE, which a rename needs.
SharesNoDelete(o) == open[Depth] = o

\* As far down as the reader opens anything.
Below(o, x) == \E n \in 1..Depth : Leads(n, o, x)

\* The handles on directories hold only FILE_READ_ATTRIBUTES, READ_CONTROL and
\* SYNCHRONIZE, for which no share mode is enforced.  What keeps a directory in
\* its place is that NTFS does not rename or remove one while something below
\* it is open.
MayMove(o) ==
    /\ ~SharesNoDelete(o)
    /\ \A l \in Level : open[l] # None => ~Below(o, open[l])

Unlink(p) ==
    /\ Change
    /\ child[p] # None /\ MayMove(child[p])
    /\ child' = [child EXCEPT ![p] = None]
    /\ UNCHANGED <<meta, data, hadMeta, hadData, readerVars>>

\* A new object, or one moved here, takes a name nothing else has.
Link(p, o) ==
    /\ Change
    /\ p \notin File /\ child[p] = None
    /\ o # Root /\ MayMove(o) /\ \A q \in Obj : child[q] # o
    /\ p # o /\ ~Below(o, p)
    /\ child' = [child EXCEPT ![p] = o]
    /\ UNCHANGED <<meta, data, hadMeta, hadData, readerVars>>

SetMeta(o, f, v) ==
    /\ Change
    /\ v \notin hadMeta[o][f]
    /\ meta' = [meta EXCEPT ![o][f] = v]
    /\ hadMeta' = [hadMeta EXCEPT ![o][f] = @ \cup {v}]
    /\ UNCHANGED <<child, data, hadData, readerVars>>

\* A block within the file, or the one behind its end.
Write(o, i, b) ==
    /\ Change
    /\ i <= Len(data[o]) + 1
    /\ b \notin hadData[o][i]
    /\ data' = [data EXCEPT ![o] = IF i <= Len(@) THEN [@ EXCEPT ![i] = b] ELSE Append(@, b)]
    /\ hadData' = [hadData EXCEPT ![o][i] = @ \cup {b}]
    /\ UNCHANGED <<child, meta, hadMeta, readerVars>>

Truncate(o, n) ==
    /\ Change
    /\ n < Len(data[o])
    /\ data' = [data EXCEPT ![o] = SubSeq(@, 1, n)]
    /\ UNCHANGED <<child, meta, hadMeta, hadData, readerVars>>

Others ==
    \/ \E p \in Obj : Unlink(p) \/ \E o \in Obj : Link(p, o)
    \/ \E o \in Obj, f \in Facet, v \in Value : SetMeta(o, f, v)
    \/ \E o \in File :
        \/ \E i \in 1..MaxSize, b \in Block : Write(o, i, b)
        \/ \E n \in 0..MaxSize : Truncate(o, n)

Next == Reader \/ Others

Safety == Init /\ [][Next]_vars

\* The reader is one thread that never waits for the others.
Spec == Safety /\ WF_vars(Reader)

-----------------------------------------------------------------------------
(* Properties *)

\* Once the leaf has passed its check, the reviewed path leads to the very file
\* whose bytes are read, up to the moment it is closed: although no handle above
\* holds its directory, and although each of them could have been moved away and
\* brought back between its own check and the opening of the leaf.
PathStays ==
    open[Depth] # None /\ (pc \in {"Size", "Read", "Eof"} \/ round = 2) => AtPath(Depth, open[Depth])

Authentic(w) ==
    /\ SealId[0] = Root
    /\ \A l \in 0..(Depth - 1) : w.child[SealId[l]] = SealId[l + 1]
    /\ \A l \in Level : w.meta[SealId[l]] = SealMeta[l]
    /\ SealId[Depth] \in File /\ w.data[SealId[Depth]] = Canonical

\* Bytes are returned only if at one moment during the call every node was in its
\* place with its sealed attributes and descriptor AND the file had exactly the
\* sealed content, although the nodes were looked at, and the chunks read, one by
\* one while others went on changing all of them.
ReadIsAtomic == result = "verified" => Authentic(witness)

VerdictOn(w) == IF Authentic(w) THEN "verified" ELSE "failed"

Atomic == INSTANCE OneLook WITH
    GaveUp <- "failed",
    truth <- VerdictOn(Disk),
    kept <- VerdictOn(witness),
    phase <- IF pc \in {"Close", "Done"} THEN "done"
             ELSE IF round = 2 /\ pc # "Size" THEN "looked"
             ELSE "looking",
    answer <- result

\* The reader is as good as one look at the disk, so that whoever uses it may take
\* it for one step: what it returns was true at one moment during the call.
AsOneLook == Atomic!Spec

\* However the call ends, also in the middle of taking over a handle, no handle
\* stays open.
NoHandleLeft == pc = "Done" => open = NoHandle

\* The reader's way: the nodes, the content twice, the nodes again, the handles.
Stage ==
    IF pc \in {"Close", "Done"} THEN 0
    ELSE IF pc \in {"Size", "Read", "Eof"} THEN 4 - round
    ELSE IF round = 2 THEN 1 ELSE 4

StepsToGo ==
    [Open |-> 6, Add |-> 5, Attr |-> 4, Path |-> 3, Acl |-> 2, Check |-> 1,
     Size |-> 3, Read |-> 2, Eof |-> 1, Close |-> 2, Done |-> 1]

\* Each step of the reader leads to a later stage, or to the next node, or on at
\* the same node, or reads a block of the size it first saw, or closes a handle.
GetsOn ==
    \/ Stage' < Stage
    \/ Stage' = Stage /\ level < level' /\ level' <= Depth
    \/ Stage' = Stage /\ level' = level /\ StepsToGo[pc'] < StepsToGo[pc]
    \/ /\ UNCHANGED <<pc, round, level>>
       /\ \/ Len(buf) < Len(buf') /\ Len(buf') <= size /\ size' = size
          \/ held' < held

\* Why the call ends: no step of the reader leaves it where it was, and nobody
\* who writes, extends or truncates the file sends it back.
NoStepBack == [][IF Reader THEN GetsOn ELSE UNCHANGED readerVars]_vars

\* The call ends, whatever others do to the size of the file.
CallEnds == <>(pc = "Done")
=============================================================================
