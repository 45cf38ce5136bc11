---------------------------- MODULE ReaderProofs ----------------------------
(***************************************************************************)
(* Proofs about ProtectedRead, for every depth, every disk, every sealed   *)
(* content and any number of changes.                                      *)
(***************************************************************************)
EXTENDS ProtectedRead, WellFoundedInduction, TLAPS

Looking == {"Attr", "Path", "Acl", "Check"}
Reading == {"Size", "Read", "Eof"}
Leaf    == SealId[Depth]

\* Which handles are open, and on what.
HandleInv ==
    /\ \A l \in Level : open[l] # None <=> (l < held \/ (l = held /\ pc = "Add"))
    /\ pc \in {"Open", "Add"} => round = 1 /\ level = held
    /\ pc \in Looking => held = (IF round = 1 THEN level ELSE Depth) + 1
    /\ pc \in Reading => held = Depth + 1 /\ level = Depth
    /\ pc = "Done" => held = 0
    /\ open[Depth] # None => open[Depth] \in File

\* What there is now is among what there has been.
DiskInv ==
    /\ \A o \in Obj, f \in Facet : meta[o][f] \in hadMeta[o][f]
    /\ \A o \in File : Len(data[o]) <= MaxSize
    /\ \A o \in File : \A i \in 1..Len(data[o]) : data[o][i] \in hadData[o][i]

\* Level l has passed its first check.
Checked(l) ==
    \/ pc \in Reading
    \/ pc \in Looking /\ round = 2
    \/ pc \in {"Open", "Add"} \cup Looking /\ l < level

\* What has been checked was sealed then; it may have changed since.
IdentityInv ==
    /\ \A l \in Level : Checked(l) => open[l] = SealId[l]
    /\ \A l \in Level : Checked(l) => \A f \in Facet : SealMeta[l][f] \in hadMeta[SealId[l]][f]
    /\ pc \in {"Path", "Acl", "Check"} => found["attr"] \in hadMeta[open[level]]["attr"]
    /\ pc = "Check" => found["acl"] \in hadMeta[open[level]]["acl"]

\* The same for what has been read.
ContentInv ==
    /\ pc \in {"Read", "Eof"} => Len(buf) <= size /\ size <= MaxSize /\ size <= Len(Canonical)
    /\ pc \in {"Read", "Eof"} => \A i \in 1..Len(buf) : buf[i] \in hadData[Leaf][i]
    /\ pc = "Eof" => Len(buf) = size
    /\ round = 2 => bytes = Canonical /\ Len(Canonical) <= MaxSize /\ Leaf \in File
    /\ round = 2 => \A i \in 1..Len(Canonical) : Canonical[i] \in hadData[Leaf][i]

\* f is the reviewed path, and it leads to the leaf that is open.
LeafPath(f) ==
    /\ f[0] = Root /\ f[Depth] = open[Depth]
    /\ \A k \in 0..(Depth - 1) : child[f[k]] = f[k + 1]

\* The leaf's final path has been looked at and was the reviewed one.
LeafPlaced ==
    /\ open[Depth] # None
    /\ \/ pc \in Reading \/ round = 2
       \/ pc \in {"Acl", "Check"} /\ level = Depth /\ placed

\* It still is: PathStays, from the moment it can be said.
PathInv == LeafPlaced => \E f \in [Level -> Obj] : LeafPath(f)

Witnessed == round = 2 /\ pc \in {"Read", "Eof"} \cup Looking

\* The path to the leaf was the same at the witnessed moment, and the nodes the
\* second look has placed are the ones on it.
WitnessPath(f) ==
    /\ LeafPath(f)
    /\ \A k \in 0..(Depth - 1) : witness.child[f[k]] = f[k + 1]
    /\ pc \in Looking => \A l \in Level : l < level => f[l] = SealId[l]
    /\ pc \in {"Acl", "Check"} /\ placed => f[level] = open[level]

WitnessPathInv == Witnessed => \E f \in [Level -> Obj] : WitnessPath(f)

\* Whatever is as sealed now was so at the witnessed moment, since what has gone
\* does not come back.
WitnessInv == Witnessed =>
    \A l \in Level, f \in Facet :
          meta[SealId[l]][f] = SealMeta[l][f] => witness.meta[SealId[l]][f] = SealMeta[l][f]

\* The same for the content, and for what the second reading has found of it.
WitnessReadInv == round = 2 =>
    /\ pc \in {"Read", "Eof"} =>
        /\ Len(witness.data[Leaf]) = size
        /\ \A i \in 1..size :
              i <= Len(data[Leaf]) /\ data[Leaf][i] = Canonical[i] => witness.data[Leaf][i] = Canonical[i]
        /\ \A i \in 1..Len(buf) : buf[i] = Canonical[i] => witness.data[Leaf][i] = Canonical[i]
    /\ pc \in Looking => witness.data[Leaf] = Canonical

\* The same for what the second look has found of the nodes.
WitnessLookInv == round = 2 /\ pc \in Looking =>
    /\ \A l \in Level, f \in Facet : l < level => witness.meta[SealId[l]][f] = SealMeta[l][f]
    /\ pc # "Attr" /\ found["attr"] = SealMeta[level]["attr"] =>
          witness.meta[SealId[level]]["attr"] = SealMeta[level]["attr"]
    /\ pc = "Check" /\ found["acl"] = SealMeta[level]["acl"] =>
          witness.meta[SealId[level]]["acl"] = SealMeta[level]["acl"]

ResultInv == pc \notin {"Close", "Done"} => result = "failed"

IInv ==
    /\ TypeOK /\ HandleInv /\ PathInv /\ DiskInv /\ IdentityInv /\ ContentInv
    /\ WitnessPathInv /\ WitnessInv /\ WitnessReadInv /\ WitnessLookInv /\ ResultInv /\ ReadIsAtomic

-----------------------------------------------------------------------------
\* Only others change the disk, ...
LEMMA ReaderKeepsDisk == Reader => UNCHANGED diskVars
  BY DEF Reader, Open, Add, AddFails, Fail, Close, Closed, InspectAttr, InspectPath, InspectAcl,
         CheckNode, ReadSize, ReadEof, EndFirst, EndSecond, ReadChunk, diskVars

\* ... and they change nothing else.
LEMMA OthersKeepReader == Others => UNCHANGED readerVars
  BY DEF Others, Unlink, Link, SetMeta, Write, Truncate, readerVars

\* A node that is looked at is open.
LEMMA NodeIsObj == TypeOK /\ HandleInv /\ pc \in Looking => Node \in Obj
  BY DepthAssumption DEF TypeOK, HandleInv, Level, Node, Looking

\* The leaf that is read is an open file.
LEMMA LeafIsFile == TypeOK /\ HandleInv /\ pc \in Reading => open[Depth] \in File
  BY DepthAssumption DEF TypeOK, HandleInv, Level, Reading

\* What a ReadFile adds to the buffer is what the file holds there.
LEMMA ChunkAppended ==
    ASSUME TypeOK, HandleInv, NEW n \in 1..Chunk, ReadChunk(n)
    PROVE  /\ Len(buf') = Len(buf) + n
           /\ \A i \in 1..Len(buf') : buf'[i] = (IF i <= Len(buf) THEN buf[i] ELSE content[i])
  <1>1. content \in Seq(Block) /\ buf \in Seq(Block) /\ Chunk \in Nat
    BY LeafIsFile, DepthAssumption DEF ReadChunk, TypeOK, content, Reading
  <1> DEFINE part == SubSeq(content, Len(buf) + 1, Len(buf) + n)
  <1>2. part \in Seq(Block) /\ Len(part) = n /\ \A i \in 1..n : part[i] = content[Len(buf) + i]
    BY <1>1 DEF ReadChunk
  <1>3. buf' = buf \o part
    BY DEF ReadChunk
  <1> QED
    BY <1>1, <1>2, <1>3

\* A write changes its block, and may be the one behind the end.
LEMMA WriteEffect ==
    ASSUME TypeOK, NEW o \in File, NEW i \in 1..MaxSize, NEW b \in Block, Write(o, i, b)
    PROVE  /\ Len(data'[o]) \in Nat
           /\ \A j \in 1..Len(data'[o]) :
                IF j = i THEN data'[o][j] = b ELSE j <= Len(data[o]) /\ data'[o][j] = data[o][j]
  <1> DEFINE old == data[o]
             new == data'[o]
  <1>1. old \in Seq(Block) /\ Len(old) \in Nat /\ i \in Nat \ {0} /\ i <= Len(old) + 1
    BY BoundAssumption DEF TypeOK, Write
  <1>2. new = IF i <= Len(old) THEN [old EXCEPT ![i] = b] ELSE Append(old, b)
    BY DEF TypeOK, Write
  <1> HIDE DEF old, new
  <1>3. CASE i <= Len(old)
    <2>1. new \in Seq(Block) /\ Len(new) = Len(old)
      BY <1>1, <1>2, <1>3
    <2>2. \A j \in 1..Len(new) : new[j] = (IF j = i THEN b ELSE old[j])
      BY <1>1, <1>2, <1>3, <2>1
    <2> QED
      BY <1>1, <2>1, <2>2 DEF old, new
  <1>4. CASE i = Len(old) + 1
    <2>1. new = Append(old, b)
      BY <1>1, <1>2, <1>4
    <2>2. Len(new) = i /\ \A j \in 1..Len(new) : new[j] = (IF j = i THEN b ELSE old[j])
      BY <1>1, <1>4, <2>1
    <2> QED
      BY <1>1, <1>4, <2>2 DEF old, new
  <1> QED
    BY <1>1, <1>3, <1>4

\* Two sequences with the same length and the same elements are the same.
LEMMA SameSequence ==
    ASSUME NEW S, NEW s \in Seq(S), NEW u \in Seq(S), Len(s) = Len(u), \A i \in 1..Len(s) : s[i] = u[i]
    PROVE  s = u
  OBVIOUS

\* Metadata that agrees in every facet is the same.
LEMMA SameMeta == ASSUME NEW m \in Meta, NEW k \in Meta, \A f \in Facet : m[f] = k[f] PROVE m = k
  BY DEF Meta

\* Every step keeps the types.
LEMMA TypeStep ==
    ASSUME TypeOK, HandleInv, DiskInv, [Next]_vars
    PROVE  TypeOK'
  <1> USE DepthAssumption, ObjAssumption, SealAssumption, CanonicalAssumption, BoundAssumption
      DEF TypeOK, HandleInv, DiskInv, Level, Facet, Meta, Looking, Reading, diskVars, readVars,
          inspectVars, readerVars
  <1>1. CASE Open
    BY <1>1 DEF Open, Target, RightKind
  <1>2. CASE Add
    BY <1>2 DEF Add
  <1>3. CASE AddFails
    BY <1>3 DEF AddFails
  <1>4. CASE Fail
    BY <1>4 DEF Fail
  <1>5. CASE Close
    BY <1>5 DEF Close
  <1>6. CASE Closed
    BY <1>6 DEF Closed
  <1>7. CASE InspectAttr
    <2>1. meta[Node]["attr"] \in Value
      BY <1>7, NodeIsObj DEF InspectAttr
    <2> QED
      BY <1>7, <2>1 DEF InspectAttr, Unread
  <1>8. CASE InspectPath
    <2>1. placed' \in BOOLEAN
      BY <1>8 DEF InspectPath, AtPath, Leads
    <2> QED
      BY <1>8, <2>1 DEF InspectPath
  <1>9. CASE InspectAcl
    BY <1>9 DEF InspectAcl, Node
  <1>10. CASE CheckNode
    BY <1>10 DEF CheckNode, Proceed, NodeIsSealed, Node
  <1>11. CASE ReadSize
    <2>1. Disk \in WorldType
      BY DEF Disk, WorldType
    <2>2. Len(content) \in Nat
      BY <1>11 DEF ReadSize, content
    <2> QED
      BY <1>11, <2>1, <2>2 DEF ReadSize, EndOfFile
  <1>12. CASE ReadEof
    BY <1>12 DEF ReadEof, content
  <1>13. CASE EndFirst
    BY <1>13 DEF EndFirst, SizeUnchanged, EndOfFile, content
  <1>14. CASE EndSecond
    BY <1>14 DEF EndSecond, SizeUnchanged, SameBytes, EndOfFile, content
  <1>15. ASSUME NEW n \in 1..Chunk, ReadChunk(n) PROVE TypeOK'
    BY <1>15 DEF ReadChunk, content
  <1>16. ASSUME NEW p \in Obj, Unlink(p) PROVE TypeOK'
    BY <1>16 DEF Unlink, Change
  <1>17. ASSUME NEW p \in Obj, NEW o \in Obj, Link(p, o) PROVE TypeOK'
    BY <1>17 DEF Link, Change
  <1>18. ASSUME NEW o \in Obj, NEW f \in Facet, NEW v \in Value, SetMeta(o, f, v) PROVE TypeOK'
    BY <1>18 DEF SetMeta, Change
  <1>19. ASSUME NEW o \in File, NEW i \in 1..MaxSize, NEW b \in Block, Write(o, i, b) PROVE TypeOK'
    BY <1>19 DEF Write, Change
  <1>20. ASSUME NEW o \in File, NEW n \in 0..MaxSize, Truncate(o, n) PROVE TypeOK'
    BY <1>20 DEF Truncate, Change
  <1>21. CASE UNCHANGED vars
    BY <1>21 DEF vars
  <1> HIDE DEF TypeOK, HandleInv, DiskInv, Level, Facet, Meta, Looking, Reading, diskVars, readVars,
               inspectVars, readerVars
  <1> QED
    BY <1>1, <1>2, <1>3, <1>4, <1>5, <1>6, <1>7, <1>8, <1>9, <1>10, <1>11, <1>12, <1>13, <1>14,
       <1>15, <1>16, <1>17, <1>18, <1>19, <1>20, <1>21 DEF Next, Reader, Others

\* Every step keeps the account of the handles.
LEMMA HandleStep ==
    ASSUME TypeOK, HandleInv, [Next]_vars
    PROVE  HandleInv'
  <1> USE DepthAssumption, ObjAssumption, SealAssumption, CanonicalAssumption, BoundAssumption
      DEF TypeOK, HandleInv, Level, Facet, Meta, Looking, Reading, diskVars, readVars, inspectVars,
          readerVars
  <1>1. CASE Open
    BY <1>1 DEF Open, Target, RightKind
  <1>2. CASE Add
    BY <1>2 DEF Add
  <1>3. CASE AddFails
    BY <1>3 DEF AddFails
  <1>4. CASE Fail
    BY <1>4 DEF Fail
  <1>5. CASE Close
    BY <1>5 DEF Close
  <1>6. CASE Closed
    BY <1>6 DEF Closed
  <1>7. CASE InspectAttr
    BY <1>7 DEF InspectAttr, Node
  <1>8. CASE InspectPath
    BY <1>8 DEF InspectPath, Node
  <1>9. CASE InspectAcl
    BY <1>9 DEF InspectAcl, Node
  <1>10. CASE CheckNode
    <2>1. CASE level < Depth /\ round = 1
      BY <1>10, <2>1 DEF CheckNode, Proceed
    <2>2. CASE level < Depth /\ round = 2
      BY <1>10, <2>2 DEF CheckNode, Proceed
    <2>3. CASE level = Depth
      BY <1>10, <2>3 DEF CheckNode, Proceed
    <2> QED
      BY <2>1, <2>2, <2>3
  <1>11. CASE ReadSize
    BY <1>11 DEF ReadSize, EndOfFile, content, Disk
  <1>12. CASE ReadEof
    BY <1>12 DEF ReadEof, content
  <1>13. CASE EndFirst
    BY <1>13 DEF EndFirst, SizeUnchanged, EndOfFile, content
  <1>14. CASE EndSecond
    BY <1>14 DEF EndSecond, SizeUnchanged, SameBytes, EndOfFile, content
  <1>15. ASSUME NEW n \in 1..Chunk, ReadChunk(n) PROVE HandleInv'
    BY <1>15 DEF ReadChunk, content
  <1>16. CASE Others
    BY <1>16, OthersKeepReader
  <1>17. CASE UNCHANGED vars
    BY <1>17 DEF vars
  <1> HIDE DEF TypeOK, HandleInv, Level, Facet, Meta, Looking, Reading, diskVars, readVars,
               inspectVars, readerVars
  <1> QED
    BY <1>1, <1>2, <1>3, <1>4, <1>5, <1>6, <1>7, <1>8, <1>9, <1>10, <1>11, <1>12, <1>13, <1>14,
       <1>15, <1>16, <1>17 DEF Next, Reader

\* Of the numbers of a set one is the least.
LEMMA LeastNumber == ASSUME NEW T \in SUBSET Nat, T # {} PROVE \E x \in T : \A y \in T : x <= y
  <1> DEFINE R == OpToRel(<, Nat)
  <1>1. \E x \in T : \A y \in T : ~(<<y, x>> \in R)
    <2>1. IsWellFoundedOn(R, Nat)
      BY NatLessThanWellFounded
    <2> HIDE DEF R
    <2> QED BY <2>1, WFMin
  <1>2. \A x, y \in Nat : y < x => <<y, x>> \in R
    BY DEF OpToRel
  <1> HIDE DEF R
  <1>3. PICK x \in T : \A y \in T : ~(<<y, x>> \in R)
    BY <1>1
  <1>4. \A y \in T : ~(y < x)
    BY <1>2, <1>3
  <1>5. \A y \in T : x <= y
    BY <1>4
  <1> QED
    BY <1>5

\* Names lead from a directory to one place only.
LEMMA PathUnique ==
    ASSUME NEW m \in 0..Depth, NEW f \in [0..Depth -> Obj], NEW g \in [0..m -> Obj], f[0] = g[0],
           \A k \in 0..(Depth - 1) : child[f[k]] = f[k + 1],
           \A k \in 0..(m - 1) : child[g[k]] = g[k + 1]
    PROVE  f[m] = g[m]
  <1> USE DepthAssumption
  <1> SUFFICES ASSUME f[m] # g[m] PROVE FALSE
    OBVIOUS
  <1> DEFINE T == {k \in 0..m : f[k] # g[k]}
  <1>1. T \in SUBSET Nat /\ T # {}
    OBVIOUS
  <1>2. PICK x \in T : \A y \in T : x <= y
    BY <1>1, LeastNumber
  <1>3. x # 0 /\ x \in 0..m
    OBVIOUS
  <1>4. f[x - 1] = g[x - 1]
    BY <1>2, <1>3
  <1>5. child[f[x - 1]] = f[x] /\ child[g[x - 1]] = g[x]
    BY <1>3
  <1> QED
    BY <1>4, <1>5
\* The path to the open leaf stays: its last name because the leaf is not shared
\* for deleting, the names above because the leaf is below what they lead to.
LEMMA LeafPathKept ==
    ASSUME TypeOK, NEW f \in [Level -> Obj], LeafPath(f), open[Depth] # None, [Others]_vars
    PROVE  LeafPath(f)'
  <1> USE DepthAssumption, ObjAssumption DEF TypeOK, Level
  <1>1. open' = open
    BY OthersKeepReader DEF readerVars, vars
  <1>2. ASSUME NEW k \in 0..(Depth - 1), MayMove(f[k + 1]) PROVE FALSE
    <2>1. f[k + 1] # open[Depth]
      BY <1>2 DEF MayMove, SharesNoDelete
    <2>2. k + 1 < Depth
      BY <2>1 DEF LeafPath
    <2> DEFINE n == Depth - (k + 1)
               g == [i \in 0..n |-> f[k + 1 + i]]
    <2>3. n \in 1..Depth /\ g \in [0..n -> Obj]
      BY <2>2
    <2>4. g[0] = f[k + 1] /\ g[n] = open[Depth]
      BY <2>2 DEF LeafPath
    <2>5. \A i \in 0..(n - 1) : child[g[i]] = g[i + 1]
      BY <2>2 DEF LeafPath
    <2>6. Leads(n, f[k + 1], open[Depth])
      <3> HIDE DEF g, n
      <3> QED BY <2>3, <2>4, <2>5 DEF Leads
    <2> HIDE DEF g, n
    <2>7. Below(f[k + 1], open[Depth])
      BY <2>3, <2>6 DEF Below
    <2> QED
      BY <1>2, <2>7 DEF MayMove
  <1>3. ASSUME NEW p \in Obj, Unlink(p) PROVE \A k \in 0..(Depth - 1) : f[k] # p
    BY <1>2, <1>3 DEF Unlink, LeafPath
  <1>4. ASSUME NEW p \in Obj, NEW o \in Obj, Link(p, o) PROVE \A k \in 0..(Depth - 1) : f[k] # p
    BY <1>4 DEF Link, LeafPath
  <1>5. \A k \in 0..(Depth - 1) : child'[f[k]] = child[f[k]]
    <2>1. ASSUME NEW p \in Obj, Unlink(p) PROVE \A k \in 0..(Depth - 1) : child'[f[k]] = child[f[k]]
      <3>1. \A k \in 0..(Depth - 1) : f[k] # p /\ f[k] \in Obj
        BY <1>3, <2>1
      <3>2. child' = [child EXCEPT ![p] = None]
        BY <2>1 DEF Unlink
      <3> QED
        BY <3>1, <3>2
    <2>2. ASSUME NEW p \in Obj, NEW o \in Obj, Link(p, o)
          PROVE  \A k \in 0..(Depth - 1) : child'[f[k]] = child[f[k]]
      <3>1. \A k \in 0..(Depth - 1) : f[k] # p /\ f[k] \in Obj
        BY <1>4, <2>2
      <3>2. child' = [child EXCEPT ![p] = o]
        BY <2>2 DEF Link
      <3> QED
        BY <3>1, <3>2
    <2>3. CASE UNCHANGED child
      BY <2>3
    <2> QED
      BY <2>1, <2>2, <2>3 DEF Others, SetMeta, Write, Truncate, vars, diskVars
  <1> QED
    BY <1>1, <1>5 DEF LeafPath

\* Every step keeps the path to a leaf that was found in its place.
LEMMA PathStep ==
    ASSUME TypeOK, HandleInv, PathInv, [Next]_vars
    PROVE  PathInv'
  <1> SUFFICES ASSUME LeafPlaced' PROVE \E f \in [Level -> Obj] : LeafPath(f)'
    BY DEF PathInv
  <1> USE DepthAssumption, ObjAssumption
  <1>1. CASE [Others]_vars
    <2>1. LeafPlaced /\ open[Depth] # None
      BY <1>1, OthersKeepReader DEF LeafPlaced, readerVars, inspectVars, vars
    <2>2. PICK f \in [Level -> Obj] : LeafPath(f)
      BY <2>1 DEF PathInv
    <2> QED
      BY <1>1, <2>1, <2>2, LeafPathKept
  <1>2. CASE Reader
    <2>1. child' = child
      BY <1>2, ReaderKeepsDisk DEF diskVars
    <2>2. CASE InspectPath /\ round = 1
      <3>1. open' = open /\ AtPath(Depth, open[Depth])
        BY <2>2 DEF InspectPath, Node, LeafPlaced, Reading
      <3>2. PICK f \in [0..Depth -> Obj] :
              f[0] = Root /\ f[Depth] = open[Depth] /\ \A k \in 0..(Depth - 1) : child[f[k]] = f[k + 1]
        BY <3>1 DEF AtPath, Leads
      <3> QED
        BY <2>1, <3>1, <3>2 DEF LeafPath, Level
    <2>3. CASE ~(InspectPath /\ round = 1)
      <3>1. LeafPlaced /\ open'[Depth] = open[Depth]
        <4> USE DEF TypeOK, HandleInv, LeafPlaced, Level, Looking, Reading, inspectVars, readVars
        <4>1. CASE Open \/ Add \/ AddFails
          BY <4>1 DEF Open, Add, AddFails
        <4>2. CASE Fail \/ Close \/ Closed
          BY <4>2 DEF Fail, Close, Closed
        <4>3. CASE InspectAttr \/ InspectPath \/ InspectAcl
          BY <2>3, <4>3 DEF InspectAttr, InspectPath, InspectAcl
        <4>4. CASE CheckNode
          BY <4>4 DEF CheckNode, Proceed, NodeIsSealed
        <4>5. CASE ReadSize \/ ReadEof \/ EndFirst \/ EndSecond
          BY <4>5 DEF ReadSize, ReadEof, EndFirst, EndSecond
        <4>6. ASSUME NEW n \in 1..Chunk, ReadChunk(n) PROVE LeafPlaced /\ open'[Depth] = open[Depth]
          BY <4>6 DEF ReadChunk
        <4> HIDE DEF TypeOK, HandleInv, LeafPlaced
        <4> QED
          BY <1>2, <4>1, <4>2, <4>3, <4>4, <4>5, <4>6 DEF Reader
      <3>2. PICK f \in [Level -> Obj] : LeafPath(f)
        BY <3>1 DEF PathInv
      <3> QED
        BY <2>1, <3>1, <3>2 DEF LeafPath
    <2> QED
      BY <2>2, <2>3
  <1> QED
    BY <1>1, <1>2 DEF Next

\* A change enters what there has been; truncating only takes away.
LEMMA DiskStep ==
    ASSUME TypeOK, DiskInv, [Next]_vars
    PROVE  DiskInv'
  <1> USE DepthAssumption, ObjAssumption, SealAssumption, CanonicalAssumption, BoundAssumption
      DEF TypeOK, DiskInv, Level, Facet, Meta, Looking, Reading, diskVars, readVars, inspectVars,
          readerVars
  <1>1. ASSUME NEW p \in Obj, Unlink(p) PROVE DiskInv'
    BY <1>1 DEF Unlink, Change
  <1>2. ASSUME NEW p \in Obj, NEW o \in Obj, Link(p, o) PROVE DiskInv'
    BY <1>2 DEF Link, Change
  <1>3. ASSUME NEW o \in Obj, NEW f \in Facet, NEW v \in Value, SetMeta(o, f, v) PROVE DiskInv'
    BY <1>3 DEF SetMeta, Change
  <1>4. ASSUME NEW o \in File, NEW i \in 1..MaxSize, NEW b \in Block, Write(o, i, b) PROVE DiskInv'
    BY <1>4 DEF Write, Change
  <1>5. ASSUME NEW o \in File, NEW n \in 0..MaxSize, Truncate(o, n) PROVE DiskInv'
    BY <1>5 DEF Truncate, Change
  <1>6. CASE Reader
    BY <1>6, ReaderKeepsDisk
  <1>7. CASE UNCHANGED vars
    BY <1>7 DEF vars
  <1> HIDE DEF TypeOK, DiskInv, Level, Facet, Meta, Looking, Reading, diskVars, readVars,
               inspectVars, readerVars
  <1> QED
    BY <1>1, <1>2, <1>3, <1>4, <1>5, <1>6, <1>7 DEF Next, Others

\* What was sealed when it was checked has been there ever since.
LEMMA IdentityStep ==
    ASSUME TypeOK, HandleInv, DiskInv, IdentityInv, [Next]_vars
    PROVE  IdentityInv'
  <1> USE DepthAssumption, ObjAssumption, SealAssumption, CanonicalAssumption, BoundAssumption
      DEF TypeOK, HandleInv, DiskInv, IdentityInv, Checked, Level, Facet, Meta, Looking, Reading,
          diskVars, readVars, inspectVars, readerVars
  <1>1. CASE Open
    BY <1>1 DEF Open, Target, RightKind
  <1>2. CASE Add
    BY <1>2 DEF Add
  <1>3. CASE AddFails
    BY <1>3 DEF AddFails
  <1>4. CASE Fail
    BY <1>4 DEF Fail
  <1>5. CASE Close
    BY <1>5 DEF Close
  <1>6. CASE Closed
    BY <1>6 DEF Closed
  <1>7. CASE InspectAttr
    BY <1>7, NodeIsObj DEF InspectAttr, Node, Unread
  <1>8. CASE InspectPath
    BY <1>8 DEF InspectPath, Node
  <1>9. CASE InspectAcl
    BY <1>9 DEF InspectAcl, Node
  <1>10. CASE CheckNode
    BY <1>10 DEF CheckNode, Proceed, NodeIsSealed, Node
  <1>11. CASE ReadSize
    BY <1>11 DEF ReadSize, EndOfFile, content, Disk
  <1>12. CASE ReadEof
    BY <1>12 DEF ReadEof, content
  <1>13. CASE EndFirst
    BY <1>13 DEF EndFirst, SizeUnchanged, EndOfFile, content
  <1>14. CASE EndSecond
    BY <1>14 DEF EndSecond, SizeUnchanged, SameBytes, EndOfFile, content
  <1>15. ASSUME NEW n \in 1..Chunk, ReadChunk(n) PROVE IdentityInv'
    BY <1>15 DEF ReadChunk, content
  <1>16. ASSUME NEW p \in Obj, Unlink(p) PROVE IdentityInv'
    BY <1>16 DEF Unlink, Change
  <1>17. ASSUME NEW p \in Obj, NEW o \in Obj, Link(p, o) PROVE IdentityInv'
    BY <1>17 DEF Link, Change
  <1>18. ASSUME NEW o \in Obj, NEW f \in Facet, NEW v \in Value, SetMeta(o, f, v) PROVE IdentityInv'
    BY <1>18 DEF SetMeta, Change
  <1>19. ASSUME NEW o \in File, NEW i \in 1..MaxSize, NEW b \in Block, Write(o, i, b) PROVE IdentityInv'
    BY <1>19 DEF Write, Change
  <1>20. ASSUME NEW o \in File, NEW n \in 0..MaxSize, Truncate(o, n) PROVE IdentityInv'
    BY <1>20 DEF Truncate, Change
  <1>21. CASE UNCHANGED vars
    BY <1>21 DEF vars
  <1> HIDE DEF TypeOK, HandleInv, DiskInv, IdentityInv, Checked, Level, Facet, Meta, Looking,
               Reading, diskVars, readVars, inspectVars, readerVars
  <1> QED
    BY <1>1, <1>2, <1>3, <1>4, <1>5, <1>6, <1>7, <1>8, <1>9, <1>10, <1>11, <1>12, <1>13, <1>14,
       <1>15, <1>16, <1>17, <1>18, <1>19, <1>20, <1>21 DEF Next, Reader, Others

\* What was read has been there, at the place where it was read.
LEMMA ContentStep ==
    ASSUME TypeOK, HandleInv, DiskInv, IdentityInv, ContentInv, [Next]_vars
    PROVE  ContentInv'
  <1> USE DepthAssumption, ObjAssumption, SealAssumption, CanonicalAssumption, BoundAssumption
      DEF TypeOK, HandleInv, DiskInv, IdentityInv, Checked, ContentInv, Leaf, Level, Facet, Meta,
          Looking, Reading, diskVars, readVars, inspectVars, readerVars
  <1>1. CASE Open
    BY <1>1 DEF Open, Target, RightKind
  <1>2. CASE Add
    BY <1>2 DEF Add
  <1>3. CASE AddFails
    BY <1>3 DEF AddFails
  <1>4. CASE Fail
    BY <1>4 DEF Fail
  <1>5. CASE Close
    BY <1>5 DEF Close
  <1>6. CASE Closed
    BY <1>6 DEF Closed
  <1>7. CASE InspectAttr
    BY <1>7 DEF InspectAttr, Node
  <1>8. CASE InspectPath
    BY <1>8 DEF InspectPath, Node
  <1>9. CASE InspectAcl
    BY <1>9 DEF InspectAcl, Node
  <1>10. CASE CheckNode
    BY <1>10 DEF CheckNode, Proceed, NodeIsSealed, Node
  <1>11. CASE ReadSize
    BY <1>11 DEF ReadSize, EndOfFile, content, Disk
  <1>12. CASE ReadEof
    BY <1>12 DEF ReadEof, content
  <1>13. CASE EndFirst
    BY <1>13 DEF EndFirst, SizeUnchanged, EndOfFile, content
  <1>14. CASE EndSecond
    BY <1>14 DEF EndSecond, SizeUnchanged, SameBytes, EndOfFile, content
  <1>15. ASSUME NEW n \in 1..Chunk, ReadChunk(n) PROVE ContentInv'
    <2>1. open[Depth] = Leaf /\ open[Depth] \in File
      BY <1>15 DEF ReadChunk
    <2>2. Leaf \in File /\ content = data[Leaf]
      BY <2>1 DEF content
    <2>3. /\ Len(buf') = Len(buf) + n /\ Len(buf') <= size
          /\ \A i \in 1..Len(buf') : 
                IF i <= Len(buf) THEN buf'[i] = buf[i] ELSE i <= Len(data[Leaf]) /\ buf'[i] = data[Leaf][i]
      BY <1>15, <2>2, ChunkAppended DEF ReadChunk
    <2>4. \A i \in 1..Len(buf') : buf'[i] \in hadData[Leaf][i]
      BY <1>15, <2>2, <2>3 DEF ReadChunk
    <2> QED
      BY <1>15, <2>2, <2>3, <2>4 DEF ReadChunk
  <1>16. ASSUME NEW p \in Obj, Unlink(p) PROVE ContentInv'
    BY <1>16 DEF Unlink, Change
  <1>17. ASSUME NEW p \in Obj, NEW o \in Obj, Link(p, o) PROVE ContentInv'
    BY <1>17 DEF Link, Change
  <1>18. ASSUME NEW o \in Obj, NEW f \in Facet, NEW v \in Value, SetMeta(o, f, v) PROVE ContentInv'
    BY <1>18 DEF SetMeta, Change
  <1>19. ASSUME NEW o \in File, NEW i \in 1..MaxSize, NEW b \in Block, Write(o, i, b) PROVE ContentInv'
    BY <1>19 DEF Write, Change
  <1>20. ASSUME NEW o \in File, NEW n \in 0..MaxSize, Truncate(o, n) PROVE ContentInv'
    BY <1>20 DEF Truncate, Change
  <1>21. CASE UNCHANGED vars
    BY <1>21 DEF vars
  <1> HIDE DEF TypeOK, HandleInv, DiskInv, IdentityInv, Checked, ContentInv, Leaf, Level, Facet,
               Meta, Looking, Reading, diskVars, readVars, inspectVars, readerVars
  <1> QED
    BY <1>1, <1>2, <1>3, <1>4, <1>5, <1>6, <1>7, <1>8, <1>9, <1>10, <1>11, <1>12, <1>13, <1>14,
       <1>15, <1>16, <1>17, <1>18, <1>19, <1>20, <1>21 DEF Next, Reader, Others

\* The path to the leaf was there at the witnessed moment, and a node the second
\* look finds at the reviewed path of its level is the one of that path.
LEMMA WitnessPathStep ==
    ASSUME TypeOK, HandleInv, PathInv, IdentityInv, WitnessPathInv, [Next]_vars
    PROVE  WitnessPathInv'
  <1> SUFFICES ASSUME Witnessed' PROVE \E f \in [Level -> Obj] : WitnessPath(f)'
    BY DEF WitnessPathInv
  <1> USE DepthAssumption, ObjAssumption
  <1>1. CASE [Others]_vars
    <2>1. UNCHANGED <<open, pc, round, level, held, found, placed, witness>>
      BY <1>1, OthersKeepReader DEF readerVars, inspectVars, vars
    <2>2. PICK f \in [Level -> Obj] : WitnessPath(f)
      BY <2>1 DEF WitnessPathInv, Witnessed
    <2>3. open[Depth] # None
      BY <2>1 DEF Witnessed, HandleInv, Looking, Reading, Level
    <2>4. LeafPath(f)'
      BY <1>1, <2>2, <2>3, LeafPathKept DEF WitnessPath
    <2> QED
      BY <2>1, <2>2, <2>4 DEF WitnessPath
  <1>2. CASE Reader
    <2>1. child' = child
      BY <1>2, ReaderKeepsDisk DEF diskVars
    <2>2. CASE ReadSize
      <3>1. /\ open' = open /\ round = 2 /\ pc = "Size" /\ pc' = "Read"
            /\ witness' = Disk
        BY <2>2 DEF ReadSize, Witnessed
      <3>2. PICK f \in [Level -> Obj] : LeafPath(f)
        BY <3>1 DEF PathInv, LeafPlaced, HandleInv, Reading, Level
      <3>3. \A k \in 0..(Depth - 1) : witness'.child[f[k]] = f[k + 1]
        BY <3>1, <3>2 DEF Disk, LeafPath
      <3> QED
        BY <2>1, <3>1, <3>2, <3>3 DEF WitnessPath, LeafPath, Looking
    <2>3. CASE ~ReadSize
      <3>1. Witnessed /\ witness' = witness /\ open' = open
        <4> USE DEF TypeOK, HandleInv, Witnessed, Level, Looking, Reading, inspectVars, readVars
        <4>1. CASE Open \/ Add \/ AddFails
          BY <4>1 DEF Open, Add, AddFails
        <4>2. CASE Fail \/ Close \/ Closed
          BY <4>2 DEF Fail, Close, Closed
        <4>3. CASE InspectAttr \/ InspectPath \/ InspectAcl
          BY <4>3 DEF InspectAttr, InspectPath, InspectAcl
        <4>4. CASE CheckNode
          BY <4>4 DEF CheckNode, Proceed
        <4>5. CASE ReadEof \/ EndFirst \/ EndSecond
          BY <4>5 DEF ReadEof, EndFirst, EndSecond
        <4>6. ASSUME NEW n \in 1..Chunk, ReadChunk(n)
              PROVE  Witnessed /\ witness' = witness /\ open' = open
          BY <4>6 DEF ReadChunk
        <4> HIDE DEF TypeOK, HandleInv, Witnessed
        <4> QED
          BY <1>2, <2>3, <4>1, <4>2, <4>3, <4>4, <4>5, <4>6 DEF Reader
      <3>2. PICK f \in [Level -> Obj] : WitnessPath(f)
        BY <3>1 DEF WitnessPathInv
      <3>3. LeafPath(f)' /\ \A k \in 0..(Depth - 1) : witness'.child[f[k]] = f[k + 1]
        BY <2>1, <3>1, <3>2 DEF WitnessPath, LeafPath
      <3>4. /\ pc' \in Looking => \A l \in Level : l < level' => f[l] = SealId[l]
            /\ pc' \in {"Acl", "Check"} /\ placed' => f[level'] = open[level']
        <4> USE <3>2 DEF WitnessPath, Level, Looking, inspectVars, readVars
        <4>1. CASE Open \/ Add \/ AddFails
          BY <4>1, <3>1 DEF Open, Add, AddFails, Witnessed
        <4>2. CASE Fail \/ Close \/ Closed
          BY <4>2, <3>1 DEF Fail, Close, Closed, Witnessed
        <4>3. CASE InspectAttr \/ InspectAcl
          BY <4>3 DEF InspectAttr, InspectAcl
        <4>4. CASE InspectPath
          <5>1. ASSUME placed' PROVE f[level] = open[level]
            <6>1. PICK g \in [0..level -> Obj] :
                    g[0] = Root /\ g[level] = open[level] /\ \A k \in 0..(level - 1) : child[g[k]] = g[k + 1]
              BY <4>4, <5>1 DEF InspectPath, Node, AtPath, Leads
            <6>2. PICK m \in 0..Depth : m = level
              BY DEF TypeOK
            <6>3. f[0] = Root /\ \A k \in 0..(Depth - 1) : child[f[k]] = f[k + 1]
              BY DEF LeafPath
            <6>4. f \in [0..Depth -> Obj] /\ Depth \in Nat
              OBVIOUS
            <6>5. /\ g \in [0..m -> Obj] /\ f[0] = g[0]
                  /\ \A k \in 0..(m - 1) : child[g[k]] = g[k + 1]
              BY <6>1, <6>2, <6>3
            <6>6. f[m] = g[m]
              <7>1. m \in 0..Depth
                BY <6>2
              <7>2. f \in [0..Depth -> Obj] /\ g \in [0..m -> Obj] /\ f[0] = g[0]
                BY <6>4, <6>5
              <7>3. \A k \in 0..(Depth - 1) : child[f[k]] = f[k + 1]
                BY <6>3
              <7>4. \A k \in 0..(m - 1) : child[g[k]] = g[k + 1]
                BY <6>5
              <7> QED
                BY ONLY <7>1, <7>2, <7>3, <7>4, PathUnique
            <6> QED
              BY <6>1, <6>2, <6>6
          <5> QED
            BY <4>4, <5>1 DEF InspectPath
        <4>5. CASE CheckNode
          <5>1. f[level] = SealId[level] /\ level \in 0..Depth
            BY <4>5 DEF CheckNode, NodeIsSealed, Node, TypeOK
          <5>2. pc' \in Looking => level' = level + 1 /\ pc' = "Attr"
            BY <3>1, <4>5 DEF CheckNode, Proceed, Witnessed
          <5>3. pc = "Check"
            BY <4>5 DEF CheckNode
          <5> QED
            BY <5>1, <5>2, <5>3
        <4>6. CASE ReadEof \/ EndFirst \/ EndSecond
          BY <4>6 DEF ReadEof, EndFirst, EndSecond
        <4>7. ASSUME NEW n \in 1..Chunk, ReadChunk(n)
              PROVE  /\ pc' \in Looking => \A l \in Level : l < level' => f[l] = SealId[l]
                     /\ pc' \in {"Acl", "Check"} /\ placed' => f[level'] = open[level']
          BY <4>7 DEF ReadChunk
        <4> HIDE <3>2 DEF WitnessPath, Level, Looking
        <4> QED
          BY <1>2, <2>3, <4>1, <4>2, <4>3, <4>4, <4>5, <4>6, <4>7 DEF Reader
      <3> QED
        BY <3>1, <3>3, <3>4 DEF WitnessPath
    <2> QED
      BY <2>2, <2>3
  <1> QED
    BY <1>1, <1>2 DEF Next

\* A facet that has the sealed value now had it at the witnessed moment.
LEMMA WitnessStep ==
    ASSUME TypeOK, HandleInv, DiskInv, IdentityInv, WitnessInv, [Next]_vars
    PROVE  WitnessInv'
  <1> USE DepthAssumption, ObjAssumption, SealAssumption, CanonicalAssumption, BoundAssumption
      DEF TypeOK, HandleInv, DiskInv, IdentityInv, Checked, WitnessInv, Witnessed,
          Level, Facet, Meta, Looking, Reading, diskVars, readVars, inspectVars, readerVars
  <1>1. CASE Open
    BY <1>1 DEF Open, Target, RightKind
  <1>2. CASE Add
    BY <1>2 DEF Add
  <1>3. CASE AddFails
    BY <1>3 DEF AddFails
  <1>4. CASE Fail
    BY <1>4 DEF Fail
  <1>5. CASE Close
    BY <1>5 DEF Close
  <1>6. CASE Closed
    BY <1>6 DEF Closed
  <1>7. CASE InspectAttr
    BY <1>7 DEF InspectAttr, Node
  <1>8. CASE InspectPath
    BY <1>8 DEF InspectPath, Node
  <1>9. CASE InspectAcl
    BY <1>9 DEF InspectAcl, Node
  <1>10. CASE CheckNode
    BY <1>10 DEF CheckNode, Proceed, NodeIsSealed, Node
  <1>11. CASE ReadSize
    BY <1>11 DEF ReadSize, EndOfFile, content, Disk
  <1>12. CASE ReadEof
    BY <1>12 DEF ReadEof, content
  <1>13. CASE EndFirst
    BY <1>13 DEF EndFirst, SizeUnchanged, EndOfFile, content
  <1>14. CASE EndSecond
    BY <1>14 DEF EndSecond, SizeUnchanged, SameBytes, EndOfFile, content
  <1>15. ASSUME NEW n \in 1..Chunk, ReadChunk(n) PROVE WitnessInv'
    BY <1>15 DEF ReadChunk, content
  <1>16. ASSUME NEW p \in Obj, Unlink(p) PROVE WitnessInv'
    BY <1>16 DEF Unlink, Change
  <1>17. ASSUME NEW p \in Obj, NEW o \in Obj, Link(p, o) PROVE WitnessInv'
    BY <1>17 DEF Link, Change
  <1>18. ASSUME NEW o \in Obj, NEW f \in Facet, NEW v \in Value, SetMeta(o, f, v) PROVE WitnessInv'
    BY <1>18 DEF SetMeta, Change
  <1>19. ASSUME NEW o \in File, NEW i \in 1..MaxSize, NEW b \in Block, Write(o, i, b) PROVE WitnessInv'
    BY <1>19 DEF Write, Change
  <1>20. ASSUME NEW o \in File, NEW n \in 0..MaxSize, Truncate(o, n) PROVE WitnessInv'
    BY <1>20 DEF Truncate, Change
  <1>21. CASE UNCHANGED vars
    BY <1>21 DEF vars
  <1> HIDE DEF TypeOK, HandleInv, DiskInv, IdentityInv, Checked, WitnessInv, Witnessed,
               Level, Facet, Meta, Looking, Reading, diskVars, readVars, inspectVars, readerVars
  <1> QED
    BY <1>1, <1>2, <1>3, <1>4, <1>5, <1>6, <1>7, <1>8, <1>9, <1>10, <1>11, <1>12, <1>13, <1>14,
       <1>15, <1>16, <1>17, <1>18, <1>19, <1>20, <1>21 DEF Next, Reader, Others

\* A block that has the sealed value now, or had it when it was read, had it at the witnessed moment.
LEMMA WitnessReadStep ==
    ASSUME TypeOK, HandleInv, DiskInv, IdentityInv, ContentInv, WitnessReadInv, [Next]_vars
    PROVE  WitnessReadInv'
  <1> USE DepthAssumption, ObjAssumption, SealAssumption, CanonicalAssumption, BoundAssumption
      DEF TypeOK, HandleInv, DiskInv, IdentityInv, Checked, ContentInv, WitnessReadInv, Leaf, Level,
          Facet, Meta, Looking, Reading, diskVars, readVars, inspectVars, readerVars
  <1>1. CASE Open
    BY <1>1 DEF Open, Target, RightKind
  <1>2. CASE Add
    BY <1>2 DEF Add
  <1>3. CASE AddFails
    BY <1>3 DEF AddFails
  <1>4. CASE Fail
    BY <1>4 DEF Fail
  <1>5. CASE Close
    BY <1>5 DEF Close
  <1>6. CASE Closed
    BY <1>6 DEF Closed
  <1>7. CASE InspectAttr
    BY <1>7 DEF InspectAttr, Node
  <1>8. CASE InspectPath
    BY <1>8 DEF InspectPath, Node
  <1>9. CASE InspectAcl
    BY <1>9 DEF InspectAcl, Node
  <1>10. CASE CheckNode
    BY <1>10 DEF CheckNode, Proceed, NodeIsSealed, Node
  <1>11. CASE ReadSize
    BY <1>11 DEF ReadSize, EndOfFile, content, Disk
  <1>12. CASE ReadEof
    BY <1>12 DEF ReadEof, content
  <1>13. CASE EndFirst
    BY <1>13 DEF EndFirst, SizeUnchanged, EndOfFile, content
  <1>14. CASE EndSecond
    <2>1. witness.data[Leaf] \in Seq(Block) /\ Len(witness.data[Leaf]) = Len(Canonical)
      BY <1>14 DEF EndSecond, SameBytes, WorldType
    <2>2. \A i \in 1..Len(Canonical) : witness.data[Leaf][i] = Canonical[i]
      BY <1>14 DEF EndSecond, SameBytes
    <2>3. witness.data[Leaf] = Canonical
      BY <2>1, <2>2, SameSequence
    <2> QED
      BY <1>14, <2>3 DEF EndSecond
  <1>15. ASSUME NEW n \in 1..Chunk, ReadChunk(n) PROVE WitnessReadInv'
    <2>1. open[Depth] = Leaf /\ open[Depth] \in File
      BY <1>15 DEF ReadChunk
    <2>2. Leaf \in File /\ content = data[Leaf]
      BY <2>1 DEF content
    <2> QED
      BY <1>15, <2>2, ChunkAppended DEF ReadChunk
  <1>16. ASSUME NEW p \in Obj, Unlink(p) PROVE WitnessReadInv'
    BY <1>16 DEF Unlink, Change
  <1>17. ASSUME NEW p \in Obj, NEW o \in Obj, Link(p, o) PROVE WitnessReadInv'
    BY <1>17 DEF Link, Change
  <1>18. ASSUME NEW o \in Obj, NEW f \in Facet, NEW v \in Value, SetMeta(o, f, v) PROVE WitnessReadInv'
    BY <1>18 DEF SetMeta, Change
  <1>19. ASSUME NEW o \in File, NEW i \in 1..MaxSize, NEW b \in Block, Write(o, i, b) PROVE WitnessReadInv'
    <2>1. CASE o # Leaf
      BY <1>19, <2>1 DEF Write
    <2>2. CASE o = Leaf
      <3>1. round = 2 /\ i <= Len(Canonical) => b # Canonical[i]
        BY <1>19, <2>2 DEF Write
      <3>2. /\ Len(data'[o]) \in Nat
            /\ \A j \in 1..Len(data'[o]) :
                 IF j = i THEN data'[o][j] = b ELSE j <= Len(data[o]) /\ data'[o][j] = data[o][j]
        <4> HIDE DEF TypeOK, HandleInv, DiskInv, IdentityInv, ContentInv, WitnessReadInv
        <4> QED
          BY <1>19, WriteEffect
      <3>3. UNCHANGED <<round, pc, size, buf, witness>>
        BY <1>19 DEF Write
      <3>4. ASSUME round = 2, pc \in {"Read", "Eof"}, NEW j \in 1..size,
                   j <= Len(data'[Leaf]), data'[Leaf][j] = Canonical[j]
            PROVE  witness.data[Leaf][j] = Canonical[j]
        <4>1. size \in Nat /\ size <= Len(Canonical) /\ Len(Canonical) \in Nat
          BY <3>4
        <4>2. j <= Len(data[Leaf]) /\ data[Leaf][j] = Canonical[j]
          <5> HIDE DEF TypeOK, HandleInv, DiskInv, IdentityInv, ContentInv, WitnessReadInv, Leaf
          <5>1. j \in 1..Len(data'[o]) /\ j # i
            BY <2>2, <3>1, <3>2, <3>4, <4>1
          <5> QED
            BY <2>2, <3>2, <3>4, <5>1
        <4> QED
          BY <3>4, <4>2
      <3> HIDE DEF TypeOK, HandleInv, DiskInv, IdentityInv, ContentInv
      <3> QED
        BY <3>3, <3>4
    <2> QED
      BY <2>1, <2>2
  <1>20. ASSUME NEW o \in File, NEW n \in 0..MaxSize, Truncate(o, n) PROVE WitnessReadInv'
    BY <1>20 DEF Truncate, Change
  <1>21. CASE UNCHANGED vars
    BY <1>21 DEF vars
  <1> HIDE DEF TypeOK, HandleInv, DiskInv, IdentityInv, Checked, ContentInv, WitnessReadInv, Leaf,
               Level, Facet, Meta, Looking, Reading, diskVars, readVars, inspectVars, readerVars
  <1> QED
    BY <1>1, <1>2, <1>3, <1>4, <1>5, <1>6, <1>7, <1>8, <1>9, <1>10, <1>11, <1>12, <1>13, <1>14,
       <1>15, <1>16, <1>17, <1>18, <1>19, <1>20, <1>21 DEF Next, Reader, Others

\* A facet that had the sealed value when it was looked at had it at the witnessed moment.
LEMMA WitnessLookStep ==
    ASSUME TypeOK, HandleInv, DiskInv, IdentityInv, WitnessInv, WitnessLookInv, [Next]_vars
    PROVE  WitnessLookInv'
  <1> USE DepthAssumption, ObjAssumption, SealAssumption, CanonicalAssumption, BoundAssumption
      DEF TypeOK, HandleInv, IdentityInv, Checked, WitnessInv, Witnessed, WitnessLookInv, Level,
          Facet, Meta, Looking, Reading, diskVars, readVars, inspectVars, readerVars
  <1>1. CASE Open
    BY <1>1 DEF Open, Target, RightKind
  <1>2. CASE Add
    BY <1>2 DEF Add
  <1>3. CASE AddFails
    BY <1>3 DEF AddFails
  <1>4. CASE Fail
    BY <1>4 DEF Fail
  <1>5. CASE Close
    BY <1>5 DEF Close
  <1>6. CASE Closed
    BY <1>6 DEF Closed
  <1>7. CASE InspectAttr
    BY <1>7, NodeIsObj DEF InspectAttr, Node, Unread
  <1>8. CASE InspectPath
    BY <1>8 DEF InspectPath, Node
  <1>9. CASE InspectAcl
    BY <1>9 DEF InspectAcl, Node
  <1>10. CASE CheckNode
    BY <1>10 DEF CheckNode, Proceed, NodeIsSealed, Node
  <1>11. CASE ReadSize
    BY <1>11 DEF ReadSize, EndOfFile, content, Disk
  <1>12. CASE ReadEof
    BY <1>12 DEF ReadEof, content
  <1>13. CASE EndFirst
    BY <1>13 DEF EndFirst, SizeUnchanged, EndOfFile, content
  <1>14. CASE EndSecond
    BY <1>14 DEF EndSecond, SizeUnchanged, SameBytes, EndOfFile, content
  <1>15. ASSUME NEW n \in 1..Chunk, ReadChunk(n) PROVE WitnessLookInv'
    BY <1>15 DEF ReadChunk, content
  <1>16. ASSUME NEW p \in Obj, Unlink(p) PROVE WitnessLookInv'
    BY <1>16 DEF Unlink, Change
  <1>17. ASSUME NEW p \in Obj, NEW o \in Obj, Link(p, o) PROVE WitnessLookInv'
    BY <1>17 DEF Link, Change
  <1>18. ASSUME NEW o \in Obj, NEW f \in Facet, NEW v \in Value, SetMeta(o, f, v) PROVE WitnessLookInv'
    BY <1>18 DEF SetMeta, Change
  <1>19. ASSUME NEW o \in File, NEW i \in 1..MaxSize, NEW b \in Block, Write(o, i, b) PROVE WitnessLookInv'
    BY <1>19 DEF Write, Change
  <1>20. ASSUME NEW o \in File, NEW n \in 0..MaxSize, Truncate(o, n) PROVE WitnessLookInv'
    BY <1>20 DEF Truncate, Change
  <1>21. CASE UNCHANGED vars
    BY <1>21 DEF vars
  <1> HIDE DEF TypeOK, HandleInv, IdentityInv, Checked, WitnessInv, Witnessed, WitnessLookInv,
               Level, Facet, Meta, Looking, Reading, diskVars, readVars, inspectVars, readerVars
  <1> QED
    BY <1>1, <1>2, <1>3, <1>4, <1>5, <1>6, <1>7, <1>8, <1>9, <1>10, <1>11, <1>12, <1>13, <1>14,
       <1>15, <1>16, <1>17, <1>18, <1>19, <1>20, <1>21 DEF Next, Reader, Others

\* So the bytes are returned only if everything was as sealed at the witnessed moment.
LEMMA AtomicStep ==
    ASSUME TypeOK, HandleInv, IdentityInv, ContentInv, WitnessPathInv, WitnessInv, WitnessReadInv,
           WitnessLookInv, ResultInv, ReadIsAtomic, [Next]_vars
    PROVE  (ResultInv /\ ReadIsAtomic)'
  <1> USE DepthAssumption, ObjAssumption, SealAssumption, CanonicalAssumption, BoundAssumption
      DEF TypeOK, HandleInv, WitnessInv, Witnessed, WitnessReadInv, WitnessLookInv, ResultInv,
          ReadIsAtomic, Level, Facet, Meta, Looking, Reading, diskVars, readVars, inspectVars,
          readerVars
  <1>1. CASE Open
    BY <1>1 DEF Open, Target, RightKind
  <1>2. CASE Add
    BY <1>2 DEF Add
  <1>3. CASE AddFails
    BY <1>3 DEF AddFails
  <1>4. CASE Fail
    BY <1>4 DEF Fail
  <1>5. CASE Close
    BY <1>5 DEF Close
  <1>6. CASE Closed
    BY <1>6 DEF Closed
  <1>7. CASE InspectAttr
    BY <1>7 DEF InspectAttr, Node
  <1>8. CASE InspectPath
    BY <1>8 DEF InspectPath, Node
  <1>9. CASE InspectAcl
    BY <1>9 DEF InspectAcl, Node
  <1>10. CASE CheckNode
    <2>1. CASE level < Depth \/ round = 1
      BY <1>10, <2>1 DEF CheckNode, Proceed
    <2>2. CASE level = Depth /\ round = 2
      <3>1. \A l \in Level, f \in Facet : witness.meta[SealId[l]][f] = SealMeta[l][f]
        <4>1. found["attr"] = SealMeta[Depth]["attr"] /\ found["acl"] = SealMeta[Depth]["acl"]
          BY <1>10, <2>2 DEF CheckNode, NodeIsSealed
        <4> TAKE l \in Level, f \in Facet
        <4>2. CASE l < Depth
          BY <1>10, <2>2, <4>2 DEF CheckNode
        <4>3. CASE l = Depth
          BY <1>10, <2>2, <4>1, <4>3 DEF CheckNode
        <4> QED
          BY <4>2, <4>3
      <3>2. \A l \in Level : witness.meta[SealId[l]] = SealMeta[l]
        <4> TAKE l \in Level
        <4>1. witness.meta[SealId[l]] \in Meta /\ SealMeta[l] \in Meta
          BY DEF WorldType
        <4> QED
          BY <3>1, <4>1, SameMeta
      <3>3. SealId[0] = Root /\ \A l \in 0..(Depth - 1) : witness.child[SealId[l]] = SealId[l + 1]
        <4>1. PICK f \in [Level -> Obj] : WitnessPath(f)
          BY <1>10, <2>2 DEF CheckNode, WitnessPathInv
        <4>2. \A l \in Level : f[l] = SealId[l]
          BY <1>10, <2>2, <4>1 DEF CheckNode, NodeIsSealed, Node, WitnessPath
        <4>3. f[0] = Root /\ \A k \in 0..(Depth - 1) : witness.child[f[k]] = f[k + 1]
          BY <4>1 DEF WitnessPath, LeafPath
        <4> QED
          BY <4>2, <4>3
      <3>4. witness.data[Leaf] = Canonical /\ Leaf \in File
        BY <1>10, <2>2 DEF CheckNode, ContentInv
      <3>5. Authentic(witness)
        BY <3>2, <3>3, <3>4 DEF Authentic, Leaf
      <3> QED
        BY <1>10, <2>2, <3>5 DEF CheckNode, Proceed
    <2> QED
      BY <2>1, <2>2
  <1>11. CASE ReadSize
    BY <1>11 DEF ReadSize, EndOfFile, content, Disk
  <1>12. CASE ReadEof
    BY <1>12 DEF ReadEof, content
  <1>13. CASE EndFirst
    BY <1>13 DEF EndFirst, SizeUnchanged, EndOfFile, content
  <1>14. CASE EndSecond
    BY <1>14 DEF EndSecond, SizeUnchanged, SameBytes, EndOfFile, content
  <1>15. ASSUME NEW n \in 1..Chunk, ReadChunk(n) PROVE (ResultInv /\ ReadIsAtomic)'
    BY <1>15 DEF ReadChunk, content
  <1>16. CASE Others
    BY <1>16, OthersKeepReader
  <1>17. CASE UNCHANGED vars
    BY <1>17 DEF vars
  <1> HIDE DEF TypeOK, HandleInv, WitnessInv, Witnessed, WitnessReadInv, WitnessLookInv, ResultInv,
               ReadIsAtomic, Level, Facet, Meta, Looking, Reading, diskVars, readVars, inspectVars,
               readerVars
  <1> QED
    BY <1>1, <1>2, <1>3, <1>4, <1>5, <1>6, <1>7, <1>8, <1>9, <1>10, <1>11, <1>12, <1>13, <1>14,
       <1>15, <1>16, <1>17 DEF Next, Reader

\* The disk a call starts on is all there has been, and nothing is open yet.
LEMMA InitHolds == Init => IInv
  <1> SUFFICES ASSUME Init PROVE IInv
    OBVIOUS
  <1> USE DepthAssumption, ObjAssumption, BoundAssumption DEF Init, Level, Facet, Looking, Reading
  <1>1. PICK w \in Worlds : child = w.child /\ meta = w.meta /\ data = w.data
    OBVIOUS
  <1>2. /\ child \in [Obj -> Obj \cup {None}] /\ meta \in [Obj -> Meta] /\ data \in [File -> Seq(Block)]
        /\ \A o \in File : Len(data[o]) <= MaxSize
    BY <1>1, WorldAssumption DEF WorldType
  <1>3. witness \in WorldType
    BY <1>2 DEF Disk, WorldType
  <1>4. /\ hadMeta \in [Obj -> [Facet -> SUBSET Value]]
        /\ hadData \in [File -> [1..MaxSize -> SUBSET Block]]
    BY <1>2 DEF Meta
  <1>5. TypeOK
    <2>1. open \in [Level -> Obj \cup {None}] /\ found \in [Facet -> Value \cup {None}]
      BY DEF NoHandle, Unread
    <2>2. buf \in Seq(Block) /\ bytes \in Seq(Block)
      OBVIOUS
    <2>3. /\ changes \in 0..MaxChanges /\ round \in {1, 2} /\ level \in Level /\ held \in 0..(Depth + 1)
      OBVIOUS
    <2>4. pc = "Open" /\ placed \in BOOLEAN /\ size \in Nat /\ result = "failed"
      OBVIOUS
    <2> HIDE DEF Init, Level, Facet
    <2> QED
      BY <1>2, <1>3, <1>4, <2>1, <2>2, <2>3, <2>4 DEF TypeOK
  <1>6. HandleInv /\ PathInv
    BY DEF HandleInv, PathInv, LeafPlaced, NoHandle
  <1>7. DiskInv
    BY <1>2 DEF DiskInv, Meta
  <1>8. IdentityInv /\ ContentInv
    BY DEF IdentityInv, ContentInv, Checked
  <1>9. WitnessPathInv /\ WitnessInv /\ WitnessReadInv /\ WitnessLookInv /\ ResultInv /\ ReadIsAtomic
    BY DEF WitnessPathInv, WitnessInv, Witnessed, WitnessReadInv, WitnessLookInv, ResultInv,
           ReadIsAtomic
  <1> QED
    BY <1>5, <1>6, <1>7, <1>8, <1>9 DEF IInv

\* The invariant is inductive.
LEMMA IInvAlways == Safety => []IInv
  <1>1. IInv /\ [Next]_vars => IInv'
    BY TypeStep, HandleStep, PathStep, DiskStep, IdentityStep, ContentStep, WitnessPathStep,
       WitnessStep, WitnessReadStep, WitnessLookStep, AtomicStep DEF IInv
  <1> QED
    BY InitHolds, <1>1, PTL DEF Safety

-----------------------------------------------------------------------------
\* The reader, whatever happens to the disk, stays within its types: in
\* particular its buffer never outgrows the size it asked for first.
THEOREM ReaderTypeCorrect == Safety => []TypeOK
  <1>1. IInv => TypeOK
    BY DEF IInv
  <1> QED
    BY IInvAlways, <1>1, PTL

\* Once the leaf has passed its check the reviewed path leads to it until it is
\* closed, however deep, although no directory above is held by its own handle.
THEOREM PathInPlace == Safety => []PathStays
  <1>1. IInv => PathStays
    <2> SUFFICES ASSUME IInv, open[Depth] # None, pc \in Reading \/ round = 2
                 PROVE  AtPath(Depth, open[Depth])
      BY DEF PathStays, Reading
    <2>1. PICK f \in [Level -> Obj] : LeafPath(f)
      BY DEF IInv, PathInv, LeafPlaced
    <2> QED
      BY <2>1 DEF LeafPath, AtPath, Leads, Level
  <1> QED
    BY IInvAlways, <1>1, PTL

\* read_verified_p10 and read_verified_p11 return bytes only if the whole chain
\* and the content were as sealed at one moment of the call, for every depth,
\* size of the file, size of the chunks and number of changes by others.
THEOREM AtomicRead == Safety => []ReadIsAtomic
  <1>1. IInv => ReadIsAtomic
    BY DEF IInv
  <1> QED
    BY IInvAlways, <1>1, PTL

\* However the call ends, it has closed every handle it opened.
THEOREM HandlesReleased == Safety => []NoHandleLeft
  <1>1. IInv => NoHandleLeft
    <2> SUFFICES ASSUME IInv, pc = "Done" PROVE open = NoHandle
      BY DEF NoHandleLeft
    <2>1. \A l \in Level : open[l] = None
      BY DEF IInv, TypeOK, HandleInv, Level
    <2> QED
      BY <2>1 DEF IInv, TypeOK, NoHandle
  <1> QED
    BY IInvAlways, <1>1, PTL

\* Every step of the reader gets it on.
LEMMA ReaderGetsOn ==
    ASSUME IInv, Reader PROVE GetsOn
  <1>1. /\ TypeOK /\ HandleInv /\ ContentInv /\ round \in {1, 2}
        /\ Depth \in Nat /\ level \in 0..Depth /\ held \in 0..(Depth + 1)
    BY DepthAssumption DEF IInv, TypeOK, Level
  <1>2. CASE Open \/ Add \/ InspectAttr \/ InspectPath \/ InspectAcl
    BY <1>1, <1>2 DEF Open, Add, InspectAttr, InspectPath, InspectAcl, GetsOn, Stage, StepsToGo
  <1>3. CASE AddFails \/ Fail
    BY <1>1, <1>3 DEF AddFails, Fail, GetsOn, Stage, TypeOK
  <1>4. CASE Close \/ Closed
    BY <1>1, <1>4 DEF Close, Closed, GetsOn, Stage, StepsToGo
  <1>5. CASE CheckNode
    <2>1. CASE level < Depth
      BY <1>1, <1>5, <2>1 DEF CheckNode, Proceed, HandleInv, GetsOn, Stage
    <2>2. CASE ~(level < Depth)
      BY <1>1, <1>5, <2>2 DEF CheckNode, Proceed, GetsOn, Stage
    <2> QED
      BY <2>1, <2>2
  <1>6. CASE ReadSize \/ ReadEof
    BY <1>1, <1>6 DEF ReadSize, ReadEof, GetsOn, Stage, StepsToGo
  <1>7. CASE EndFirst \/ EndSecond
    BY <1>1, <1>7 DEF EndFirst, EndSecond, GetsOn, Stage
  <1>8. ASSUME NEW n \in 1..Chunk, ReadChunk(n) PROVE GetsOn
    <2>1. Len(buf') = Len(buf) + n /\ n \in Nat /\ n > 0
      BY <1>1, <1>8, ChunkAppended, DepthAssumption
    <2>2. Len(buf) \in Nat /\ size \in Nat /\ n <= size - Len(buf)
      BY <1>1, <1>8 DEF TypeOK, ReadChunk
    <2> QED
      BY <1>8, <2>1, <2>2 DEF ReadChunk, GetsOn
  <1> QED
    BY <1>2, <1>3, <1>4, <1>5, <1>6, <1>7, <1>8 DEF Reader

\* The reader never goes back, for every depth, size and chunk: a file that
\* others extend and truncate while it is read does not keep the loop going.
THEOREM ReaderNeverGoesBack == Safety => NoStepBack
  <1>1. IInv /\ [Next]_vars => [IF Reader THEN GetsOn ELSE UNCHANGED readerVars]_vars
    BY ReaderGetsOn, OthersKeepReader DEF Next
  <1> QED
    BY <1>1, IInvAlways, PTL DEF Safety, NoStepBack

-----------------------------------------------------------------------------
(* The refinement of OneLook *)

\* The moment the answer is about has passed.
PhaseNow ==
    IF pc \in {"Close", "Done"} THEN "done" ELSE IF round = 2 /\ pc # "Size" THEN "looked" ELSE "looking"

\* What a step does to the observation, in the terms of OneLook.
LEMMA OneLookIs ==
    Atomic!Next <=>
        \/ /\ VerdictOn(witness') = VerdictOn(witness)
           /\ PhaseNow' = PhaseNow /\ result' = result
        \/ /\ PhaseNow = "looking" /\ PhaseNow' = "looked"
           /\ VerdictOn(witness') = VerdictOn(Disk)
           /\ VerdictOn(Disk') = VerdictOn(Disk) /\ result' = result
        \/ /\ PhaseNow = "looked" /\ PhaseNow' = "done"
           /\ result' = VerdictOn(witness)
           /\ VerdictOn(Disk') = VerdictOn(Disk) /\ VerdictOn(witness') = VerdictOn(witness)
        \/ /\ PhaseNow # "done" /\ PhaseNow' = "done"
           /\ result' = "failed"
           /\ VerdictOn(Disk') = VerdictOn(Disk) /\ VerdictOn(witness') = VerdictOn(witness)
BY DEF Atomic!Next, Atomic!World, Atomic!Look, Atomic!Answer, Atomic!GiveUp, PhaseNow,
       VerdictOn, Authentic, Disk

\* The second reading's question for the size is the look; the last node checked
\* gives the answer; whatever fails before gives up; closing changes nothing more.
LEMMA ReaderIsOneLook ==
    ASSUME IInv, IInv', Reader
    PROVE  Atomic!Next
  <1>1. VerdictOn(Disk') = VerdictOn(Disk)
    <2>1. Disk' = Disk
      BY ReaderKeepsDisk DEF diskVars, Disk
    <2> QED BY <2>1
  <1>2. round \in {1, 2} /\ (pc \notin {"Close", "Done"} => result = "failed")
    BY DEF IInv, TypeOK, ResultInv
  <1> USE DEF PhaseNow
  <1>3. CASE Open \/ Add
    BY <1>3, <1>2, OneLookIs DEF Open, Add
  <1>4. CASE AddFails \/ Fail
    BY <1>4, <1>1, <1>2, OneLookIs DEF AddFails, Fail
  <1>5. CASE Close \/ Closed
    BY <1>5, OneLookIs DEF Close, Closed
  <1>6. CASE InspectAttr \/ InspectPath \/ InspectAcl
    BY <1>6, OneLookIs DEF InspectAttr, InspectPath, InspectAcl
  <1>7. CASE CheckNode
    <2>1. pc = "Check" /\ round' = round /\ witness' = witness /\ Proceed
      BY <1>7 DEF CheckNode
    <2>2. CASE level < Depth
      BY <2>1, <2>2, OneLookIs DEF Proceed
    <2>3. CASE ~(level < Depth) /\ round = 1
      BY <2>1, <2>3, OneLookIs DEF Proceed
    <2>4. CASE ~(level < Depth) /\ round = 2
      <3>1. pc' = "Close" /\ result' = "verified"
        BY <2>1, <2>4 DEF Proceed
      <3>2. Authentic(witness)'
        BY <3>1 DEF IInv, ReadIsAtomic
      <3>3. result' = VerdictOn(witness)
        BY <2>1, <3>1, <3>2 DEF VerdictOn
      <3> QED BY <1>1, <2>1, <2>4, <3>1, <3>3, OneLookIs
    <2> QED BY <1>2, <2>2, <2>3, <2>4
  <1>8. CASE ReadSize
    <2>1. pc = "Size" /\ pc' = "Read" /\ round' = round /\ result' = result
      BY <1>8 DEF ReadSize
    <2>2. witness' = IF round = 2 THEN Disk ELSE witness
      BY <1>8 DEF ReadSize
    <2> QED BY <1>1, <1>2, <2>1, <2>2, OneLookIs
  <1>9. CASE ReadEof \/ \E n \in 1..Chunk : ReadChunk(n)
    BY <1>9, OneLookIs DEF ReadEof, ReadChunk
  <1>10. CASE EndFirst \/ EndSecond
    BY <1>10, OneLookIs DEF EndFirst, EndSecond
  <1> QED
    BY <1>3, <1>4, <1>5, <1>6, <1>7, <1>8, <1>9, <1>10 DEF Reader

\* read_verified_p10 and read_verified_p11, which take a call for every facet of every
\* node and for every chunk, twice, implement one look at the disk.  This is what
\* Binding takes for granted where it reads in one step.
THEOREM ReadingIsOneLook == Safety => AsOneLook
  <1>1. Init => Atomic!Init
    BY DEF Init, Atomic!Init
  <1>2. IInv /\ IInv' /\ [Next]_vars => [Atomic!Next]_(Atomic!vars)
    <2> SUFFICES ASSUME IInv, IInv', [Next]_vars PROVE Atomic!Next
      OBVIOUS
    <2>1. CASE Reader
      BY <2>1, ReaderIsOneLook
    <2>2. CASE Others
      BY <2>2, OthersKeepReader, OneLookIs DEF readerVars, PhaseNow
    <2>3. CASE UNCHANGED vars
      BY <2>3, OneLookIs DEF vars, PhaseNow
    <2> QED BY <2>1, <2>2, <2>3 DEF Next
  <1> QED BY <1>1, <1>2, IInvAlways, PTL DEF Safety, AsOneLook, Atomic!Spec
=============================================================================
