---------------------------- MODULE MCInodeCache ----------------------------
(* Instances of InodeCache for TLC. *)
EXTENDS InodeCache

\* The root directory with a directory d and a file f; f is in d as well.
MCType == <<"T_DIR", "T_DIR", "T_FILE">>
MCEntries == <<[up |-> 1, d |-> 2, f |-> 3], [up |-> 1, f |-> 3]>>

\* A file, a way down and up again, a name below a file, a missing name.
MCPath == {<<"d", "f">>, <<"d", "up">>, <<"f", "d">>, <<"x">>}

\* A disk of 20 sectors of four bytes, four bitmap bits to a sector.
Image == INSTANCE DiskImage WITH FSSIZE <- 20, BSIZE <- 4, BPB <- 4, DinodeSize <- 2,
                                 DirentSize <- 2, DIRSIZ <- 3, UMAX <- 15
\* And one of seven sectors for the allocator.
Small == INSTANCE DiskImage WITH FSSIZE <- 7, BSIZE <- 4, BPB <- 4, DinodeSize <- 2,
                                 DirentSize <- 2, DIRSIZ <- 3, UMAX <- 15

HostFile(name) == {[name |-> name, bytes |-> [i \in 1 .. n |-> <<name, i>>]] : n \in {0, 1, 4, 5, 13}}
HostFiles == {<<>>} \cup {<<f>> : f \in HostFile(<<"_", "a">>)}
             \cup {<<f, g>> : f \in HostFile(<<"_", "a">>), g \in HostFile(<<"b", "c", "d", "e">>)}

\* Formulas without variables: their value is the same at every step, and TLC
\* evaluates them for the first one.
Booting == inum = [e \in Entry |-> None] /\ \A p \in Proc : pc[p] = "idle"
AllReadBack == \A files \in HostFiles : Image!LayoutSound(files) /\ Image!ReadsBack(files)
AllAllocate == \A map \in [0 .. 6 -> BOOLEAN], n \in 1 .. 4 : Small!AllocatorSound(map, n)

\* mkfs lays these files out soundly, and the kernel reads them back: the disk
\* that lookups rely on from the first step.
ImageReadsBack == [][Booting => AllReadBack]_vars

\* Allocation of one to four blocks with every content of the bitmap.
ImageAllocator == [][Booting => AllAllocate]_vars
=============================================================================
