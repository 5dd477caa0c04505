----------------------------- MODULE DiskImage -----------------------------
(***************************************************************************)
(* The file system on the disk: how mkfs.c lays it out on the host, and    *)
(* how kernel/fs.c finds files in it and allocates blocks.                 *)
(*                                                                         *)
(* Both sides are sequential; they meet in the layout.  A sector is a      *)
(* function from its byte offsets.  A struct dinode or dirent is held in   *)
(* the first of its DinodeSize or DirentSize bytes, so that every size and *)
(* offset is the code's; a bitmap sector is a function from its BPB bits.  *)
(* Byte order (xint, xshort) is the host's own.                            *)
(***************************************************************************)
EXTENDS Integers, Sequences, SequencesExt, FiniteSets

CONSTANTS FSSIZE, BSIZE, BPB,       \* sectors; bytes and bitmap bits of one
          DinodeSize, DirentSize,   \* sizeof, both divide BSIZE
          DIRSIZ,                   \* characters of a name that count
          UMAX                      \* the largest uint

IPB == BSIZE \div DinodeSize
INODETABLEINO == 0
ROOTINO == 1
Zero == 0
Zeroes == [o \in 0 .. BSIZE - 1 |-> Zero]
EXIT == [exit |-> 1]
PANIC == "panic"

RoundUp(n, size) == (n \div size) + (IF n % size = 0 THEN 0 ELSE 1)
Smaller(a, b) == IF a < b THEN a ELSE b

(* -------------------------------- mkfs.c ------------------------------- *)

nbitmap == (FSSIZE \div BPB) + 1
nmeta == 2 + nbitmap
sb == [size |-> FSSIZE, nblocks |-> FSSIZE - nmeta, bmapstart |-> 2, inodestart |-> 2 + nbitmap]

\* What mkfs has: the sectors, freeblock, freeinode; or it has exited with an
\* error, since rsect cannot read past the end of the disk.
Exited(m) == "exit" \in DOMAIN m

wsect(m, sec, buf) == [m EXCEPT !.disk[sec] = buf]

dinode(type) == [type |-> type, devid |-> 0, size |-> 0, startblkno |-> 0, nblocks |-> 0]
InodeSector(i) == sb.inodestart + ((i * DinodeSize) \div BSIZE)

winode(m, i, din) ==
  wsect(m, InodeSector(i), [m.disk[InodeSector(i)] EXCEPT ![(i % IPB) * DinodeSize] = din])
rinode(m, i) == m.disk[InodeSector(i)][(i % IPB) * DinodeSize]

ialloc(m, type) == [winode(m, m.freeinode, dinode(type)) EXCEPT !.freeinode = @ + 1]
iallocblocks(m, i, start, n) ==
  winode(m, i, [rinode(m, i) EXCEPT !.startblkno = start, !.nblocks = n])

\* The loop of iappend: sector by sector, from byte off of the file.
RECURSIVE Append1(_, _, _, _)
Append1(m, start, off, p) ==
  LET fbn == off \div BSIZE
      n1 == Smaller(Len(p), (fbn + 1) * BSIZE - off)
      at == off - fbn * BSIZE
  IN  IF p = <<>> \/ Exited(m) THEN m
      ELSE IF start + fbn \notin DOMAIN m.disk THEN EXIT
      ELSE Append1(wsect(m, start + fbn, [o \in 0 .. BSIZE - 1 |->
                           IF o \in at .. at + n1 - 1 THEN p[o - at + 1] ELSE m.disk[start + fbn][o]]),
                   start, off + n1, SubSeq(p, n1 + 1, Len(p)))

iappend(m, i, p) ==
  LET din == rinode(m, i)
      done == Append1(m, din.startblkno, din.size, p)
  IN  IF Exited(m) \/ Exited(done) THEN EXIT ELSE winode(done, i, [din EXCEPT !.size = @ + Len(p)])

\* strncpy into a name of DIRSIZ characters.
Truncated(name) == SubSeq(name, 1, Smaller(Len(name), DIRSIZ))
Dirent(i, name) == <<[inum |-> i, name |-> Truncated(name)]>> \o [k \in 1 .. DirentSize - 1 |-> Zero]

\* The first inode: the inode table itself, with room for every inode.
add_inodetable(m, count) ==
  LET m1 == ialloc(m, "T_FILE")
      blkn == RoundUp(count, IPB)
  IN  [winode(m1, INODETABLEINO, [rinode(m1, INODETABLEINO) EXCEPT
                !.startblkno = sb.inodestart, !.nblocks = blkn, !.size = count * DinodeSize])
        EXCEPT !.freeblock = @ + blkn]

\* The root directory with room for every entry; ".", ".." and the console.
add_root(m, count) ==
  LET blocks == RoundUp(count * DirentSize, BSIZE)
      m1 == [iallocblocks(ialloc(m, "T_DIR"), ROOTINO, m.freeblock, blocks) EXCEPT !.freeblock = @ + blocks]
      m2 == iappend(iappend(m1, ROOTINO, Dirent(ROOTINO, <<".">>)), ROOTINO, Dirent(ROOTINO, <<".", ".">>))
      console == m2.freeinode
      m3 == ialloc(m2, "T_DEV")
  IN  IF Exited(m2) THEN EXIT
      ELSE iappend(winode(m3, console, [rinode(m3, console) EXCEPT !.devid = 1]),
                   ROOTINO, Dirent(console, <<"c", "o", "n">>))

\* read(fd, buf, BSIZE) until the end of the host's file.
RECURSIVE CopyIn(_, _, _)
CopyIn(m, i, bytes) ==
  IF bytes = <<>> \/ Exited(m) THEN m
  ELSE CopyIn(iappend(m, i, SubSeq(bytes, 1, Smaller(BSIZE, Len(bytes)))), i,
              SubSeq(bytes, Smaller(BSIZE, Len(bytes)) + 1, Len(bytes)))

OnDisk(name) == IF name[1] = "_" THEN Tail(name) ELSE name

\* Mutant of add_file: the last, partial sector of a file is not counted.
add_file_whole(m, f) ==
  LET i == m.freeinode
      m1 == iappend(ialloc(m, "T_FILE"), ROOTINO, Dirent(i, OnDisk(f.name)))
      m2 == CopyIn(winode(m1, i, [rinode(m1, i) EXCEPT !.startblkno = m1.freeblock]), i, f.bytes)
      n == rinode(m2, i).size \div BSIZE
  IN  IF Exited(m) THEN m ELSE IF Exited(m1) \/ Exited(m2) THEN EXIT
      ELSE [winode(m2, i, [rinode(m2, i) EXCEPT !.nblocks = n]) EXCEPT !.freeblock = @ + n]

\* One file of the command line: its inode, its name, its bytes, its extent.
add_file(m, f) ==
  LET i == m.freeinode
      m1 == iappend(ialloc(m, "T_FILE"), ROOTINO, Dirent(i, OnDisk(f.name)))
      m2 == CopyIn(winode(m1, i, [rinode(m1, i) EXCEPT !.startblkno = m1.freeblock]), i, f.bytes)
      n == RoundUp(rinode(m2, i).size, BSIZE)
  IN  IF Exited(m) THEN m ELSE IF Exited(m1) \/ Exited(m2) THEN EXIT
      ELSE [winode(m2, i, [rinode(m2, i) EXCEPT !.nblocks = n]) EXCEPT !.freeblock = @ + n]

\* mkfs's balloc: the first used bits of the bitmap.
balloc_used(m, used) ==
  LET Sector(k) == [bit \in 0 .. BPB - 1 |-> k * BPB + bit < used]
  IN  [m EXCEPT !.disk = [s \in DOMAIN m.disk |->
         IF s \in sb.bmapstart .. sb.bmapstart + nbitmap - 1 THEN Sector(s - sb.bmapstart) ELSE m.disk[s]]]

main(files) ==
  LET count == Len(files) + 3
      m0 == [disk |-> [s \in 0 .. FSSIZE - 1 |-> IF s = 1 THEN [Zeroes EXCEPT ![0] = sb] ELSE Zeroes],
             freeblock |-> nmeta, freeinode |-> 0]
      m1 == FoldLeft(add_file, add_root(add_inodetable(m0, count), count), files)
  IN  IF Exited(m1) THEN EXIT
      ELSE balloc_used(winode(m1, ROOTINO, [rinode(m1, ROOTINO) EXCEPT !.size = count * DirentSize]), m1.freeblock)

(* ------------------------------ kernel/fs.c ---------------------------- *)

readsb(disk) == disk[1][0]
init_inodetable(disk) == disk[readsb(disk).inodestart][0]

\* The length that readi settles on, in uint arithmetic; -1 is its error.
ReadLength(ip, off, n) ==
  LET end == (off + n) % (UMAX + 1)
  IN  IF off > ip.size \/ end < off THEN -1 ELSE IF end > ip.size THEN ip.size - off ELSE n

\* The loop of readi: the bytes of n, a piece of one sector at a time.
RECURSIVE ReadPieces(_, _, _, _)
ReadPieces(disk, ip, off, n) ==
  LET m == Smaller(n, BSIZE - (off % BSIZE))
      sector == disk[ip.startblkno + (off \div BSIZE)]
  IN  IF n = 0 THEN <<>>
      ELSE [k \in 1 .. m |-> sector[(off % BSIZE) + k - 1]] \o ReadPieces(disk, ip, off + m, n - m)

readi(disk, ip, off, n) ==
  LET len == ReadLength(ip, off, n)
  IN  IF len < 0 THEN <<-1>> ELSE ReadPieces(disk, ip, off, len)

read_dinode(disk, i) == readi(disk, init_inodetable(disk), i * DinodeSize, DinodeSize)[1]

\* dirlookup: the first entry with the name, 0 if there is none.
dirlookup(disk, dp, name) ==
  LET Entry(k) == readi(disk, dp, k * DirentSize, DirentSize)[1]
      hits == {k \in 0 .. (dp.size \div DirentSize) - 1 :
                 Entry(k).inum # 0 /\ Entry(k).name = Truncated(name)}
  IN  IF hits = {} THEN 0 ELSE Entry(CHOOSE k \in hits : \A j \in hits : k <= j).inum

\* The next element of a path and what follows it, without leading slashes;
\* <<>> is the null pointer: no element left.
skipelem(path) ==
  LET rest == SelectInSeq(path, LAMBDA c : c # "/")
      from == SubSeq(path, rest, Len(path))
      end == SelectInSeq(from, LAMBDA c : c = "/")
      after == SubSeq(from, end, Len(from))
      next == SelectInSeq(after, LAMBDA c : c # "/")
  IN  IF rest = 0 THEN <<>>
      ELSE <<Truncated(IF end = 0 THEN from ELSE SubSeq(from, 1, end - 1)),
             IF end = 0 \/ next = 0 THEN <<>> ELSE SubSeq(after, next, Len(after))>>

\* namex without the cache: the inode number a path leads to, 0 if none.
RECURSIVE namex(_, _, _)
namex(disk, i, path) ==
  LET ip == read_dinode(disk, i)
      elem == skipelem(path)
  IN  IF elem = <<>> THEN i
      ELSE IF ip.type # "T_DIR" \/ dirlookup(disk, ip, elem[1]) = 0 THEN 0
      ELSE namex(disk, dirlookup(disk, ip, elem[1]), elem[2])

namei(disk, path) == namex(disk, ROOTINO, path)

\* bmark: set or clear the bits of the blocks [start, end].  The map is the one
\* in the buffers.  bmark marks its buffer B_DIRTY and nobody calls bwrite; bget
\* does not recycle such a buffer, so the next call reads this map again, but
\* the disk keeps the old one.
bmark(map, start, end, used) ==
  IF ~used /\ \E b \in start .. end : ~map[b] THEN PANIC
  ELSE [b \in DOMAIN map |-> IF b \in start .. end THEN used ELSE map[b]]

\* Mutant of Scan: the count is not reset at a used block.
RECURSIVE Scan_on(_, _, _, _, _)
Scan_on(map, n, b, sz, i) ==
  IF b >= FSSIZE THEN PANIC
  ELSE LET here == IF b % BPB = 0 THEN 0 ELSE sz
           start == IF here = 0 THEN b ELSE i
       IN  IF map[b] THEN Scan_on(map, n, b + 1, here, start)
           ELSE IF here + 1 = n THEN [start |-> start, map |-> bmark(map, start, b, TRUE)]
           ELSE Scan_on(map, n, b + 1, here + 1, start)

\* The loops of balloc at block b: sz free blocks since block i, starting
\* over at a used block and at each bitmap sector.
RECURSIVE Scan(_, _, _, _, _)
Scan(map, n, b, sz, i) ==
  IF b >= FSSIZE THEN PANIC
  ELSE LET here == IF b % BPB = 0 THEN 0 ELSE sz
           start == IF here = 0 THEN b ELSE i
       IN  IF map[b] THEN Scan(map, n, b + 1, 0, 0)
           ELSE IF here + 1 = n THEN [start |-> start, map |-> bmark(map, start, b, TRUE)]
           ELSE Scan(map, n, b + 1, here + 1, start)

balloc(map, n) == Scan(map, n, 0, 0, 0)

bfree(map, b, n) ==
  IF n < 1 \/ b \div BPB # (b + n - 1) \div BPB THEN PANIC ELSE bmark(map, b, b + n - 1, FALSE)

(* ------------------------------ properties ----------------------------- *)

Extent(disk, i) == LET ip == read_dinode(disk, i) IN ip.startblkno .. ip.startblkno + ip.nblocks - 1
BitmapBit(disk, b) == disk[readsb(disk).bmapstart + (b \div BPB)][b % BPB]

\* The image that mkfs makes of the files is sound: extents hold their files,
\* are disjoint and within the disk, and the bitmap marks exactly the metadata
\* and the extents, so that balloc never gives out a block of a file.
LayoutSound(files) ==
  LET disk == main(files).disk
      inodes == 0 .. Len(files) + 2
      used == UNION {Extent(disk, i) : i \in inodes}
  IN  Exited(main(files)) \/
      /\ \A i \in inodes : read_dinode(disk, i).size <= BSIZE * read_dinode(disk, i).nblocks
      /\ \A i, j \in inodes : i # j => Extent(disk, i) \cap Extent(disk, j) = {}
      /\ used \subseteq nmeta .. FSSIZE - 1
      /\ \A b \in 0 .. FSSIZE - 1 : BitmapBit(disk, b) <=> b \in used \cup 0 .. nmeta - 1

\* The kernel finds each file of the image under its name, by any spelling of
\* the path, and reads from any offset the bytes the host's file has there.
ReadsBack(files) ==
  LET disk == main(files).disk
  IN  Exited(main(files)) \/
      /\ read_dinode(disk, namei(disk, <<"c", "o", "n">>)).type = "T_DEV"
      /\ namei(disk, <<"z">>) = 0
      /\ \A k \in DOMAIN files :
           LET f == files[k]
               name == OnDisk(f.name)
               i == namei(disk, name)
               ip == read_dinode(disk, i)
           IN  /\ i = k + 2
               /\ namei(disk, <<"/", ".", "/", "/">> \o name) = i
               /\ namei(disk, name \o <<"/", "/", ".">>) = 0
               /\ ip.size = Len(f.bytes)
               /\ \A off, n \in 0 .. UMAX :
                    readi(disk, ip, off, n) =
                      IF off > Len(f.bytes) \/ off + n > UMAX THEN <<-1>>
                      ELSE SubSeq(f.bytes, off + 1, Smaller(off + n, Len(f.bytes)))

\* balloc takes the lowest run of n free blocks that lies in one bitmap sector
\* and panics only when there is none; bfree undoes it and refuses to free
\* what is free.
AllocatorSound(map, n) ==
  LET Fits(b) == /\ b + n <= FSSIZE /\ b \div BPB = (b + n - 1) \div BPB
                 /\ \A c \in b .. b + n - 1 : ~map[c]
      starts == {b \in 0 .. FSSIZE - 1 : Fits(b)}
      got == balloc(map, n)
  IN  IF starts = {} THEN got = PANIC
      ELSE /\ got.start \in starts /\ \A b \in starts : got.start <= b
           /\ {b \in DOMAIN map : got.map[b] # map[b]} = got.start .. got.start + n - 1
           /\ bfree(got.map, got.start, n) = map
           /\ bfree(map, got.start, n) = PANIC
=============================================================================
