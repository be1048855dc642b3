----------------------------- MODULE KTableFSInv -----------------------------
(***************************************************************************)
(* The invariant from which KTableFSProofs derives the properties of        *)
(* KTableFS: what the requests under way carry, compared with the handles   *)
(* and with the DB.                                                         *)
(***************************************************************************)
EXTENDS KTableFS

\* The requests that are no SCANs.
Point ==
  [op : {"GET"}, h : Nat, key : Keys, res : {"none", "ok", "ENOENT", "EIO"}, file : Files]
  \cup [op : {"PUT"}, h : Nat, key : Keys, res : {"none", "write", "ok", "EEXIST", "EIO"}, file : Files]
  \cup [op : {"UPDATE"}, h : Nat, key : Keys, end : Ends,
        res : {"none", "ok", "EIO", "ENOENT"}, file : Files]
Scan(r) ==
  r = [op |-> "SCAN", worker |-> r.worker, out |-> r.out,
       min_key |-> r.min_key, max_key |-> r.max_key]

Handle == [key : Keys \cup {<<>>}, file : Files]

\* What each variable holds.
Typed ==
  /\ cur_ino \in FUSE_ROOT_ID .. MaxIno
  /\ DOMAIN store \subseteq Keys /\ \A k \in DOMAIN store : store[k] \in Files
  /\ handles \in Seq(Handle)
  /\ handles # <<>> /\ handles[1] = Root
  /\ acked \in [Keys -> Ends \cup {0}]
  /\ req = [c \in Clients |-> req[c]]
  /\ \A c \in Clients : req[c] = Idle \/ req[c] \in Point \/ Scan(req[c])

\* The kernel's handles but the root, and those of one name.
Nodes == DOMAIN handles \ {1}
NodesOf(k) == {h \in Nodes : handles[h].key = k}

Is(c, op) == req[c].op = op
Got(c, op) == Is(c, op) /\ req[c].res = "ok"

\* The names of handles and of requests that were answered are in the DB.  A write
\* under way came through a handle of its file, and is the only one through it.
Known ==
  /\ \A h \in Nodes : handles[h].key \in DOMAIN store
  /\ \A c \in Clients : Got(c, "GET") \/ Got(c, "PUT") => req[c].key \in DOMAIN store
  /\ \A c \in Clients : Is(c, "UPDATE") =>
       req[c].h \in Nodes /\ handles[req[c].h].key = req[c].key
  /\ \A c, d \in Clients : Is(c, "UPDATE") /\ Is(d, "UPDATE") /\ req[c].h = req[d].h => c = d

\* f is the file that db, what the DB holds, has under k, up to its size.
Agrees(db, k, f) == db[k].st_ino = f.st_ino /\ db[k].dir = f.dir

\* Everything that was told of a name agrees with the DB, and an inode number given
\* out is used once.
Same ==
  /\ \A h \in Nodes : Agrees(store, handles[h].key, handles[h].file)
  /\ \A c \in Clients : Got(c, "GET") \/ Got(c, "PUT") \/ Is(c, "UPDATE") =>
       Agrees(store, req[c].key, req[c].file)
  /\ \A j, k \in DOMAIN store : store[j].st_ino = store[k].st_ino => j = k
  /\ \A k \in DOMAIN store : store[k].st_ino \in FUSE_ROOT_ID + 1 .. cur_ino
  /\ \A c \in Clients : Is(c, "PUT") => req[c].file.st_ino \in FUSE_ROOT_ID + 1 .. cur_ino
  /\ \A c, d \in Clients : Is(c, "PUT") /\ Is(d, "PUT") /\ c # d =>
       req[c].file.st_ino # req[d].file.st_ino /\ req[c].key # req[d].key
  /\ \A c \in Clients : Is(c, "PUT") /\ req[c].res # "ok" =>
       \A k \in DOMAIN store : store[k].st_ino # req[c].file.st_ino
  /\ \A c \in Clients : Is(c, "PUT") /\ req[c].res = "write" => req[c].key \notin DOMAIN store

\* The sizes of a file before the kernel has a handle of it ...
Untouched(k) ==
  /\ acked[k] = 0
  /\ k \in DOMAIN store => store[k].st_size = 0
  /\ \A c \in Clients : Got(c, "GET") /\ req[c].key = k => req[c].file.st_size = 0

\* ... and when h is the only one: a write under way has set the size of the handle,
\* and sets that in the DB when it is done.
OneNode(k, h) ==
  /\ Settled(k) => handles[h].file.st_size = acked[k] /\ store[k].st_size = acked[k]
  /\ \A c \in Clients : Is(c, "UPDATE") /\ req[c].key = k =>
       /\ req[c].end = handles[h].file.st_size /\ req[c].file.st_size = req[c].end
       /\ acked[k] < req[c].end
       /\ req[c].res = "ok" => store[k].st_size = req[c].end

Sized ==
  /\ \A c \in Clients : Is(c, "PUT") => req[c].file.st_size = 0
  /\ \A k \in Keys : NodesOf(k) = {} => Untouched(k)
  /\ \A k \in Keys : \A h \in Nodes : NodesOf(k) = {h} => OneNode(k, h)

\* The inductive invariants: the first for every value of the constants, the second
\* when no two creations of one name overlap.
FsInv == Typed /\ Known /\ Sized
SameInv == FsInv /\ Same

\* The names in the directory of handle h.
NamesIn(h) == {n \in Names : KeyOf(h, n) \in DOMAIN store}

\* The names of the directory of handle h that a SCAN meets at worker w or later, n
\* and those before it; and those it meets before it comes to w.
UpTo(h, w, n) ==
  {m \in NamesIn(h) :
     LET j == KeyOf(h, m)
         k == KeyOf(h, n)
     IN  /\ w <= SplitFunc[j]
         /\ SplitFunc[j] < SplitFunc[k] \/ (SplitFunc[j] = SplitFunc[k] /\ ~SliceLess(k, j))}
Passed(h, w) == {m \in NamesIn(h) : SplitFunc[KeyOf(h, m)] < w}

\* A directory being read: what was known when it was opened is there, and of that
\* the entries the next call will pass over have been returned.
Reading(c) ==
  /\ dirs[c] \in [h : DOMAIN handles, off : Nat, seen : SUBSET Names, known : SUBSET Names]
  /\ dirs[c].known \subseteq NamesIn(dirs[c].h)
  /\ \A n \in dirs[c].known :
       Cardinality(UpTo(dirs[c].h, 0, n)) <= dirs[c].off => n \in dirs[c].seen

\* A SCAN asks for the keys of the directory and has passed no more entries than there
\* are.  As long as everything fits, it has the known names of the workers visited, and
\* will pass over names that were returned; when the buffer is full, the names that are
\* missing are behind the last entry in it.
Scanning(c) ==
  LET h == dirs[c].h
      w == req[c].worker
      out == req[c].out
      got == dirs[c].seen \cup Range(out.buf)
  IN  /\ dirs[c] # NoDir
      /\ req[c].min_key = ToSlice(DirKey(handles[h].file.st_ino))
      /\ req[c].max_key = ToSlice(DirKey(handles[h].file.st_ino + 1))
      /\ w \in 0 .. WorkerNum
      /\ out \in [cur_off : Nat, buf : Seq(NamesIn(h)), buf_size : Nat, last : Nat, full : BOOLEAN]
      /\ out.buf = <<>> => out.buf_size = 0
      /\ out.full => out.buf # <<>> /\ \A n \in dirs[c].known :
           n \in got \/ out.last < Cardinality(UpTo(h, 0, n))
      /\ ~out.full =>
           /\ out.cur_off <= Cardinality(Passed(h, w))
           /\ out.last <= out.cur_off
           /\ \A n \in dirs[c].known :
                IF SplitFunc[KeyOf(h, n)] < w THEN n \in got
                ELSE out.cur_off + Cardinality(UpTo(h, w, n)) <= dirs[c].off => n \in dirs[c].seen

Listed ==
  /\ IsFiniteSet(DOMAIN store)
  /\ dirs = [c \in Clients |-> dirs[c]]
  /\ \A c \in Clients : dirs[c] = NoDir \/ Reading(c)
  /\ \A c \in Clients : Is(c, "SCAN") => Scanning(c)

\* The inductive invariant of reading directories, for every value of the constants.
ListInv == FsInv /\ Listed
=============================================================================
