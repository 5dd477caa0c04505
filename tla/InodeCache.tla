----------------------------- MODULE InodeCache -----------------------------
(***************************************************************************)
(* The inode cache of kernel/fs.c and the walk of a path through it: namex *)
(* as iopen and vspaceloadcode call it, reads of an open file, irelease.   *)
(*                                                                         *)
(* A critical section of icache.lock is one step; sleep locks are mutexes  *)
(* (module SleepLock).  The disk is read-only and what bread returns is    *)
(* the disk's (module BufCache), so reading a dinode or a directory gives  *)
(* what the image holds, but takes a while with the locks held.            *)
(***************************************************************************)
EXTENDS Integers, FiniteSets, FiniteSetsExt, SequencesExt

CONSTANTS Proc, NINODE,
          Type,          \* the image: type of each inode number,
          Entries,       \* and the names in each directory
          Path,          \* the paths looked up, as sequences of names
          MaxRelative    \* bound: lookups of relative paths

Inum == DOMAIN Type
ROOTINO == 1
None == 0

ASSUME SizeAssumption == NINODE \in Nat \ {0} /\ MaxRelative \in Nat
ASSUME ImageAssumption ==
  /\ Inum \subseteq Nat \ {None} /\ ROOTINO \in Inum
  /\ \A n \in Inum : Type[n] \in {"T_DIR", "T_FILE"}
  /\ DOMAIN Entries = {n \in Inum : Type[n] = "T_DIR"}
  /\ \A n \in DOMAIN Entries : Range(Entries[n]) \subseteq Inum

VARIABLES inum, ref, valid, type, data,   \* struct inode; data: whose extent
          lock, table,     \* holders of the inode locks, of inodetable.lock
          pc, ret,         \* where a process is, where locki returns to
          call, asked,     \* its call and the path of it
          path, ip, next,  \* namex: the rest of the path, the inodes at hand
          leaked,          \* history: references that nobody will give back
          panicked

cache == <<inum, ref, valid>>
locals == <<call, asked, path, ip, next>>
vars == <<cache, type, data, lock, table, pc, ret, locals, leaked, panicked>>

Entry == 1 .. NINODE
NoProc == 0
NoType == "none"   \* type 0

Init ==
  /\ inum = [e \in Entry |-> None]
  /\ ref = [e \in Entry |-> 0]
  /\ valid = [e \in Entry |-> FALSE]
  /\ type = [e \in Entry |-> NoType]
  /\ data = [e \in Entry |-> None]
  /\ lock = [e \in Entry |-> NoProc]
  /\ table = NoProc
  /\ pc = [p \in Proc |-> "idle"]
  /\ ret = [p \in Proc |-> "idle"]
  /\ call = [p \in Proc |-> "none"]
  /\ asked = [p \in Proc |-> <<>>]
  /\ path = [p \in Proc |-> <<>>]
  /\ ip = [p \in Proc |-> None]
  /\ next = [p \in Proc |-> None]
  /\ leaked = [e \in Entry |-> 0]
  /\ panicked = FALSE

At(p, where) == ~panicked /\ pc[p] = where
Goto(p, where) == pc' = [pc EXCEPT ![p] = where]

(* ----------------------- references: iget, irelease -------------------- *)

\* Mutant of Cached: an inode that is not loaded yet is not found.
Cached_loaded(n) == {e \in Entry : ref[e] > 0 /\ inum[e] = n /\ valid[e]}

Cached(n) == {e \in Entry : ref[e] > 0 /\ inum[e] = n}
Empty == {e \in Entry : ref[e] = 0}

\* The entry that iget returns for n, if it does not panic.
Found(n) == Min(IF Cached(n) # {} THEN Cached(n) ELSE Empty)

\* Mutant of iget: a recycled entry stays valid.
iget_valid(n) ==
  LET e == Found(n) IN
  /\ Cached(n) \cup Empty # {}
  /\ ref' = [ref EXCEPT ![e] = @ + 1]
  /\ inum' = [inum EXCEPT ![e] = n]
  /\ UNCHANGED valid

\* A cached inode gets one more reference; for another one the first empty
\* entry is recycled.
iget(n) ==
  LET e == Found(n) IN
  /\ Cached(n) \cup Empty # {}
  /\ ref' = [ref EXCEPT ![e] = @ + 1]
  /\ inum' = [inum EXCEPT ![e] = n]
  /\ valid' = [valid EXCEPT ![e] = @ /\ Cached(n) # {}]

irelease(e) ==
  /\ type' = [type EXCEPT ![e] = IF ref[e] = 1 THEN NoType ELSE @]
  /\ ref' = [ref EXCEPT ![e] = @ - 1]
  /\ UNCHANGED <<inum, valid>>

(* ----------------------------- locki, unlocki -------------------------- *)

\* p goes on to lock the inode it has at hand, and from there to where.
CallLocki(p, where) ==
  /\ Goto(p, "locki")
  /\ ret' = [ret EXCEPT ![p] = where]

locki(p) ==
  /\ At(p, "locki") /\ lock[ip[p]] = NoProc
  /\ lock' = [lock EXCEPT ![ip[p]] = p]
  /\ Goto(p, IF valid[ip[p]] THEN ret[p] ELSE "load")
  /\ UNCHANGED <<cache, type, data, table, ret, locals, leaked, panicked>>

\* The entry is not valid: its dinode is read under the lock of the inode table.
locki_table(p) ==
  /\ At(p, "load") /\ table = NoProc
  /\ table' = p
  /\ Goto(p, "read_dinode")
  /\ UNCHANGED <<cache, type, data, lock, ret, locals, leaked, panicked>>

read_dinode(p) ==
  LET e == ip[p] IN
  /\ At(p, "read_dinode")
  /\ table' = NoProc
  /\ type' = [type EXCEPT ![e] = Type[inum[e]]]
  /\ data' = [data EXCEPT ![e] = inum[e]]
  /\ valid' = [valid EXCEPT ![e] = TRUE]
  /\ Goto(p, ret[p])
  /\ UNCHANGED <<inum, ref, lock, ret, locals, leaked, panicked>>

\* The call of p ends with irelease of the inode it has at hand.
EndCall(p) ==
  /\ irelease(ip[p])
  /\ ip' = [ip EXCEPT ![p] = None]
  /\ path' = [path EXCEPT ![p] = <<>>]
  /\ asked' = [asked EXCEPT ![p] = <<>>]
  /\ call' = [call EXCEPT ![p] = "none"]
  /\ ret' = [ret EXCEPT ![p] = "idle"]
  /\ Goto(p, "idle")
  /\ UNCHANGED <<data, lock, table, next, leaked, panicked>>

unlocki(p) == lock' = [lock EXCEPT ![ip[p]] = NoProc]

(* --------------------------------- namex ------------------------------- *)

\* The loop of namex: with no name left the caller of namei locks the inode.
Loop(p, names) == CallLocki(p, IF names = <<>> THEN "found" ELSE "dir")

\* iopen (open) or vspaceloadcode (exec) look up an absolute path.
namei(p, c, names) ==
  /\ At(p, "idle")
  /\ iget(ROOTINO)
  /\ call' = [call EXCEPT ![p] = c]
  /\ asked' = [asked EXCEPT ![p] = names]
  /\ path' = [path EXCEPT ![p] = names]
  /\ ip' = [ip EXCEPT ![p] = Found(ROOTINO)]
  /\ Loop(p, names)
  /\ UNCHANGED <<type, data, lock, table, next, leaked, panicked>>

\* A relative path: namei("/") first, then idup of what it returned.
namei_relative(p, c, names) ==
  /\ At(p, "idle")
  /\ \A e \in Entry : leaked[e] < MaxRelative
  /\ iget(ROOTINO)
  /\ call' = [call EXCEPT ![p] = c]
  /\ asked' = [asked EXCEPT ![p] = names]
  /\ path' = [path EXCEPT ![p] = names]
  /\ ip' = [ip EXCEPT ![p] = Found(ROOTINO)]
  /\ Goto(p, "idup")
  /\ UNCHANGED <<type, data, lock, table, ret, next, leaked, panicked>>

\* Mutant of idup: the reference is not counted.
idup_uncounted(p) ==
  /\ At(p, "idup")
  /\ leaked' = [leaked EXCEPT ![ip[p]] = @ + 1]
  /\ Loop(p, path[p])
  /\ UNCHANGED <<cache, type, data, lock, table, locals, panicked>>

\* From here on the root has a reference that nobody gives back.
idup(p) ==
  /\ At(p, "idup")
  /\ ref' = [ref EXCEPT ![ip[p]] = @ + 1]
  /\ leaked' = [leaked EXCEPT ![ip[p]] = @ + 1]
  /\ Loop(p, path[p])
  /\ UNCHANGED <<inum, valid, type, data, lock, table, locals, panicked>>

\* The entries of the directory that p has locked.
Names(p) == Entries[data[ip[p]]]

\* Mutant of namex_fail: the inode stays locked.
namex_fail_locked(p) ==
  /\ At(p, "dir")
  /\ type[ip[p]] = "T_DIR" => Head(path[p]) \notin DOMAIN Names(p)
  /\ Goto(p, "notfound")
  /\ UNCHANGED <<cache, type, data, lock, table, ret, locals, leaked, panicked>>

\* Not a directory, or the name is not in it.
namex_fail(p) ==
  /\ At(p, "dir")
  /\ type[ip[p]] = "T_DIR" => Head(path[p]) \notin DOMAIN Names(p)
  /\ unlocki(p)
  /\ Goto(p, "notfound")
  /\ UNCHANGED <<cache, type, data, table, ret, locals, leaked, panicked>>

notfound(p) == At(p, "notfound") /\ EndCall(p)

\* dirlookup finds the name and takes a reference, the directory still locked.
dirlookup(p) ==
  /\ At(p, "dir")
  /\ type[ip[p]] = "T_DIR" /\ Head(path[p]) \in DOMAIN Names(p)
  /\ iget(Names(p)[Head(path[p])])
  /\ next' = [next EXCEPT ![p] = Found(Names(p)[Head(path[p])])]
  /\ Goto(p, "unlocki")
  /\ UNCHANGED <<type, data, lock, table, ret, call, asked, path, ip, leaked, panicked>>

namex_unlock(p) ==
  /\ At(p, "unlocki")
  /\ unlocki(p)
  /\ Goto(p, "irelease")
  /\ UNCHANGED <<cache, type, data, table, ret, locals, leaked, panicked>>

\* The directory is given back and the walk goes on from what was found in it.
namex_next(p) ==
  /\ At(p, "irelease")
  /\ irelease(ip[p])
  /\ ip' = [ip EXCEPT ![p] = next[p]]
  /\ next' = [next EXCEPT ![p] = None]
  /\ path' = [path EXCEPT ![p] = Tail(@)]
  /\ Loop(p, Tail(path[p]))
  /\ UNCHANGED <<data, lock, table, call, asked, leaked, panicked>>

\* iget finds neither the inode nor an empty entry.
iget_panic(p, n) ==
  /\ \/ At(p, "idle") /\ n = ROOTINO
     \/ /\ At(p, "dir") /\ type[ip[p]] = "T_DIR"
        /\ Head(path[p]) \in DOMAIN Names(p) /\ n = Names(p)[Head(path[p])]
  /\ Cached(n) \cup Empty = {}
  /\ panicked' = TRUE
  /\ UNCHANGED <<cache, type, data, lock, table, pc, ret, locals, leaked>>

(* ------------------------------ the callers ---------------------------- *)

\* iopen unlocks the inode and returns it; vspaceloadcode has read it.
found(p) ==
  /\ At(p, "found")
  /\ unlocki(p)
  /\ Goto(p, IF call[p] = "open" THEN "open" ELSE "loaded")
  /\ UNCHANGED <<cache, type, data, table, ret, locals, leaked, panicked>>

\* concurrent_readi and concurrent_stati of an open file.
concurrent_readi(p) ==
  /\ At(p, "open")
  /\ CallLocki(p, "readi")
  /\ UNCHANGED <<cache, type, data, lock, table, locals, leaked, panicked>>

readi(p) ==
  /\ At(p, "readi")
  /\ unlocki(p)
  /\ Goto(p, "open")
  /\ UNCHANGED <<cache, type, data, table, ret, locals, leaked, panicked>>

\* The file is closed, or could not be opened for want of a descriptor; or
\* vspaceloadcode ends.
release_inode(p) == (At(p, "open") \/ At(p, "loaded")) /\ EndCall(p)

(* ----------------------------- specification --------------------------- *)

Step(p) ==
  \/ read_dinode(p) \/ idup(p) \/ namex_fail(p) \/ notfound(p) \/ dirlookup(p)
  \/ namex_unlock(p) \/ namex_next(p) \/ found(p) \/ readi(p)
  \/ pc[p] = "loaded" /\ release_inode(p)
  \/ pc[p] = "dir" /\ \E n \in Inum : iget_panic(p, n)

Stopped == panicked /\ UNCHANGED vars

Next ==
  \/ \E p \in Proc :
       \/ \E c \in {"open", "exec"}, names \in Path :
            namei(p, c, names) \/ namei_relative(p, c, names)
       \/ locki(p) \/ locki_table(p) \/ Step(p)
       \/ concurrent_readi(p) \/ release_inode(p)
       \/ \E n \in Inum : iget_panic(p, n)
  \/ Stopped

\* A process that can run does (Proc: RunnableRuns), and takes a lock that stays
\* free.  No more than that: the loop of acquiresleep lets others pass.
Fairness == \A p \in Proc : WF_vars(Step(p)) /\ WF_vars(locki(p)) /\ WF_vars(locki_table(p))

Spec == Init /\ [][Next]_vars /\ Fairness

(* ------------------------------ properties ----------------------------- *)

\* Two entries in use are never the same inode: their locks would protect
\* nothing from each other.
OneEntryPerInode ==
  \A e, f \in Entry : e # f /\ ref[e] > 0 /\ ref[f] > 0 => inum[e] # inum[f]

\* The count of an entry is the number of references that walks and open files
\* have to it, and for the root those of relative paths that are never given
\* back.  So locki never finds an entry without a reference, and irelease never
\* lets go of an entry that somebody waits to lock.
RefsMatchUsers ==
  \A e \in Entry :
    ref[e] = Cardinality({p \in Proc : ip[p] = e}) + Cardinality({p \in Proc : next[p] = e})
             + leaked[e]

\* What a path names in the image.
Resolve(names) ==
  FoldLeft(LAMBDA n, name :
             IF n \in DOMAIN Entries /\ name \in DOMAIN Entries[n] THEN Entries[n][name] ELSE None,
           ROOTINO, names)

\* A lookup that ends has found the inode that the path names, or that there
\* is none, whatever other walks recycle meanwhile; and whoever has locked the
\* inode sees the type and the blocks of that inode, loaded.
LookupCorrect ==
  \A p \in Proc :
    /\ pc[p] \in {"found", "open", "readi", "loaded"} => inum[ip[p]] = Resolve(asked[p])
    /\ pc[p] \in {"found", "readi"} =>
         LET e == ip[p] IN valid[e] /\ data[e] = inum[e] /\ type[e] = Type[inum[e]]
    /\ pc[p] = "notfound" => Resolve(asked[p]) = None

\* From some point on no process begins a lookup or a read; files may be closed.
CallsStop ==
  <>[][\A p \in Proc : pc[p] \in {"idle", "open"} => pc'[p] \in {pc[p], "idle"}]_vars

\* As long as there are finitely many of them, lookups and reads return: no two
\* walks wait for each other's inode or for the inode table, and every error
\* path gives its lock back.  (A process that reads a file for ever may take
\* its lock again each time before a sleeping walk runs.)
LookupReturns ==
  CallsStop =>
    \A p \in Proc :
      pc[p] \notin {"idle", "open"} ~> pc[p] \in {"idle", "open"} \/ panicked
=============================================================================
