------------------------------ MODULE KTableFS ------------------------------
(***************************************************************************)
(* The names and attributes of KTableFS (src/lookup.cc, mknod.cc, dir.cc,   *)
(* open.cc, attr.cc, read_write.cc, file.cc, ktablefs.cc): FUSE handlers    *)
(* that submit a batch to the DB and callbacks that answer the kernel from  *)
(* a worker's thread.  A node of the kernel is a pointer to a FileHandle,   *)
(* and every answered Lookup, Mknod and Mkdir makes a new one, with a copy  *)
(* of the attributes the DB keeps under the name: the kernel asks again     *)
(* for a name after entry_timeout (1 s), so one file gets several handles.  *)
(*                                                                          *)
(* A request takes effect on the DB at one instant between its submission   *)
(* and its callback (module KVStore), except that a PUT looks for its key   *)
(* before it writes; a SCAN visits the workers in turn (module DB) until    *)
(* the buffer the kernel gave is full.  The bytes of files are the subject  *)
(* of module FileData: a regular file's block is allocated together with    *)
(* its inode number.                                                        *)
(***************************************************************************)
EXTENDS FileKey, SequencesExt

CONSTANTS
  Clients,       \* threads with one system call under way at a time
  Calls,         \* the system calls each of them makes: [Clients -> sets of names]
  WorkerNum,     \* KVENGINE_THREAD_NR
  SplitFunc,     \* DefaultSplitFunc: [slices of keys -> 0 .. WorkerNum - 1]
  Ends,          \* offset + size of the writes
  CreateRaces,   \* TRUE when two creations of one name may be under way together
  IoErrors,      \* subset of {"GET", "PUT", "UPDATE"}: requests whose I/O may fail
  BufSize,       \* size of the buffers the kernel reads directories into
  EntSize,       \* what fuse_add_direntry needs for an entry: [names -> sizes]
  MaxIno,        \* bound on cur_ino_
  MaxHandle      \* bound on the handles given to the kernel

FUSE_ROOT_ID == 1
Idle == [op |-> "IDLE"]
NoDir == [h |-> 0]
Keys == {ToSlice(FileKey(d, n)) : d \in FUSE_ROOT_ID .. MaxIno, n \in Names}

ASSUME KTableFSAssumption ==
  /\ WorkerNum \in Nat \ {0}
  /\ MaxIno \in FUSE_ROOT_ID .. Base ^ InoBytes - 2
  /\ MaxHandle \in Nat \ {0}
  /\ Ends \subseteq Nat
  /\ IoErrors \subseteq {"GET", "PUT", "UPDATE"}
  /\ CreateRaces \in BOOLEAN
  /\ \A k \in Keys : SplitFunc[k] \in 0 .. WorkerNum - 1

\* An empty buffer has room for every entry: it is a page at least, and the kernel
\* lets no name of more than FUSE_NAME_MAX (1024) bytes through.
ASSUME BufferAssumption == BufSize \in Nat /\ \A n \in Names : EntSize[n] \in 1 .. BufSize

VARIABLES
  cur_ino,       \* KTableFS::cur_ino_
  store,         \* what the DB holds: [slices of keys -> files]
  handles,       \* the FileHandles the kernel knows; the first one is root_
  req,           \* req[c]: the FUSE request of c the DB works on, or Idle
  dirs,          \* dirs[c]: the directory c reads, or NoDir
  acked          \* acked[k]: the largest end of a write of k that was answered

vars == <<cur_ino, store, handles, req, dirs, acked>>

\* The FileHandle KTableFS::KTableFS makes for the root; its key is in no batch.
Root == [key |-> <<>>, file |-> [st_ino |-> FUSE_ROOT_ID, dir |-> TRUE, st_size |-> 0]]

Init ==
  /\ cur_ino = FUSE_ROOT_ID
  /\ store = << >>
  /\ handles = <<Root>>
  /\ req = [c \in Clients |-> Idle]
  /\ dirs = [c \in Clients |-> NoDir]
  /\ acked = [k \in Keys |-> 0]

\* db_->Submit of a batch of one request, by the thread that serves c.
Submit(c, r) ==
  /\ req[c] = Idle
  /\ req' = [req EXCEPT ![c] = r]

\* The bound on handles: one for every request that may be answered with one.
Room == Len(handles) + Cardinality({c \in Clients : req[c].op \in {"GET", "PUT"}}) < MaxHandle

\* The DB is done with the request of c.
Answered(c) ==
  IF req[c].op = "SCAN" THEN req[c].worker = WorkerNum \/ req[c].out.full
  ELSE req[c].op # "IDLE" /\ req[c].res \notin {"none", "write"}

\* The key of name n in the directory of handle h.
KeyOf(h, n) == ToSlice(FileKey(handles[h].file.st_ino, n))

-----------------------------------------------------------------------------
(* Lookup *)

Lookup(c, h, n) ==
  /\ handles[h].file.dir
  /\ Room
  /\ Submit(c, [op |-> "GET", h |-> h, key |-> KeyOf(h, n), res |-> "none",
                file |-> Root.file])
  /\ UNCHANGED <<cur_ino, store, handles, dirs, acked>>

\* The results of I/O that was submitted to the disk.
Results(op) == {"ok"} \cup (IF op \in IoErrors THEN {"EIO"} ELSE {})

\* Worker: GET.
DBGet(c) ==
  /\ req[c].op = "GET" /\ req[c].res = "none"
  /\ \E res \in IF req[c].key \in DOMAIN store THEN Results("GET") ELSE {"ENOENT"} :
       req' = [req EXCEPT ![c].res = res,
                          ![c].file = IF res = "ok" THEN store[req[c].key] ELSE req[c].file]
  /\ UNCHANGED <<cur_ino, store, handles, dirs, acked>>

\* fuse_reply_entry with a new handle.
Entry(k, f) == handles' = Append(handles, [key |-> k, file |-> f])

\* Mutant of LookupCallback: nobody answers when there is no file.
LookupCallbackSilent(c) ==
  /\ req[c].op = "GET" /\ req[c].res = "ok"
  /\ Entry(req[c].key, req[c].file)
  /\ req' = [req EXCEPT ![c] = Idle]
  /\ UNCHANGED <<cur_ino, store, dirs, acked>>

\* The bytes the DB returned become the new handle's file.
LookupCallback(c) ==
  /\ req[c].op = "GET" /\ Answered(c)
  /\ \/ req[c].res # "ok" /\ UNCHANGED handles
     \/ req[c].res = "ok" /\ Entry(req[c].key, req[c].file)
  /\ req' = [req EXCEPT ![c] = Idle]
  /\ UNCHANGED <<cur_ino, store, dirs, acked>>

-----------------------------------------------------------------------------
(* Mknod and Mkdir *)

NewFile(isdir) == [st_ino |-> cur_ino + 1, dir |-> isdir, st_size |-> 0]

\* The kernel locks a directory's node for a creation; a name may still be created
\* twice at a time where a directory has several nodes.
MayCreate(k) == CreateRaces \/ \A c \in Clients : req[c].op = "PUT" => req[c].key # k

Create(c, h, n, isdir) ==
  /\ handles[h].file.dir
  /\ cur_ino < MaxIno /\ Room
  /\ MayCreate(KeyOf(h, n))
  /\ cur_ino' = cur_ino + 1
  /\ Submit(c, [op |-> "PUT", h |-> h, key |-> KeyOf(h, n), res |-> "none",
                file |-> NewFile(isdir)])
  /\ UNCHANGED <<store, handles, dirs, acked>>

Mknod(c, h, n) == Create(c, h, n, FALSE)
Mkdir(c, h, n) == Create(c, h, n, TRUE)

\* Worker: a PUT is refused, or its write is enqueued.
DBPut(c) ==
  /\ req[c].op = "PUT" /\ req[c].res = "none"
  /\ req' = [req EXCEPT ![c].res = IF req[c].key \in DOMAIN store THEN "EEXIST" ELSE "write"]
  /\ UNCHANGED <<cur_ino, store, handles, dirs, acked>>

\* PutCallback: emplace leaves a key that is there as it is.
PutCallback(c) ==
  /\ req[c].op = "PUT" /\ req[c].res = "write"
  /\ \E res \in Results("PUT") :
       /\ store' = IF res # "ok" THEN store
                   ELSE [k \in DOMAIN store \cup {req[c].key} |->
                           IF k \in DOMAIN store THEN store[k] ELSE req[c].file]
       /\ req' = [req EXCEPT ![c].res = res]
  /\ UNCHANGED <<cur_ino, handles, dirs, acked>>

\* Mutant of MknodCallback: a name that exists is taken for created.
MknodCallbackOpens(c) ==
  /\ req[c].op = "PUT" /\ Answered(c)
  /\ \/ req[c].res = "EIO" /\ UNCHANGED handles
     \/ req[c].res # "EIO" /\ Entry(req[c].key, req[c].file)
  /\ req' = [req EXCEPT ![c] = Idle]
  /\ UNCHANGED <<cur_ino, store, dirs, acked>>

\* Mutant of MknodCallback: the result is not looked at.
MknodCallbackBlind(c) ==
  /\ req[c].op = "PUT" /\ Answered(c)
  /\ Entry(req[c].key, req[c].file)
  /\ req' = [req EXCEPT ![c] = Idle]
  /\ UNCHANGED <<cur_ino, store, dirs, acked>>

\* MknodCallback and MkdirCallback: an error, or the handle made before the PUT.
MknodCallback(c) ==
  /\ req[c].op = "PUT" /\ Answered(c)
  /\ \/ req[c].res # "ok" /\ UNCHANGED handles
     \/ req[c].res = "ok" /\ Entry(req[c].key, req[c].file)
  /\ req' = [req EXCEPT ![c] = Idle]
  /\ UNCHANGED <<cur_ino, store, dirs, acked>>

-----------------------------------------------------------------------------
(* WriteBuf; Open only answers *)

Acknowledge(k, end) ==
  acked' = [acked EXCEPT ![k] = IF end > @ THEN end ELSE @]

\* The kernel lets one write per node through at a time.
Unlocked(h) == \A c \in Clients : req[c].op = "UPDATE" => req[c].h # h

\* Mutant of Grow: the size is stored whenever something was written.
GrowAlways(c, h, end) ==
  /\ handles' = [handles EXCEPT ![h].file.st_size = end]
  /\ Submit(c, [op |-> "UPDATE", h |-> h, key |-> handles[h].key, end |-> end, res |-> "none",
                file |-> [handles[h].file EXCEPT !.st_size = end]])
  /\ UNCHANGED acked

\* A write that ends behind the size the handle knows sets the size and stores
\* the handle's attributes; any other is answered at once.
Grow(c, h, end) ==
  IF end > handles[h].file.st_size
    THEN /\ handles' = [handles EXCEPT ![h].file.st_size = end]
         /\ Submit(c, [op |-> "UPDATE", h |-> h, key |-> handles[h].key, end |-> end, res |-> "none",
                       file |-> [handles[h].file EXCEPT !.st_size = end]])
         /\ UNCHANGED acked
    ELSE Acknowledge(handles[h].key, end) /\ UNCHANGED <<handles, req>>

WriteBuf(c, h, end) ==
  /\ req[c] = Idle
  /\ ~handles[h].file.dir
  /\ Unlocked(h)
  /\ Grow(c, h, end)
  /\ UNCHANGED <<cur_ino, store, dirs>>

DBUpdate(c) ==
  /\ req[c].op = "UPDATE" /\ req[c].res = "none"
  /\ \E res \in IF req[c].key \in DOMAIN store THEN Results("UPDATE") ELSE {"ENOENT"} :
       /\ store' = IF res = "ok" THEN [store EXCEPT ![req[c].key] = req[c].file] ELSE store
       /\ req' = [req EXCEPT ![c].res = res]
  /\ UNCHANGED <<cur_ino, handles, dirs, acked>>

\* Only a success is answered.
WriteCallback(c) ==
  /\ req[c].op = "UPDATE" /\ req[c].res = "ok"
  /\ Acknowledge(req[c].key, req[c].end)
  /\ req' = [req EXCEPT ![c] = Idle]
  /\ UNCHANGED <<cur_ino, store, handles, dirs>>

-----------------------------------------------------------------------------
(* Reading directories *)

\* OpenDir; known: the names of the directory the kernel has been told of.
OpenDir(c, h) ==
  /\ req[c] = Idle
  /\ handles[h].file.dir
  /\ dirs[c] = NoDir
  /\ dirs' = [dirs EXCEPT ![c] = [h |-> h, off |-> 0, seen |-> {},
                known |-> {n \in Names : \E g \in DOMAIN handles : handles[g].key = KeyOf(h, n)}]]
  /\ UNCHANGED <<cur_ino, store, handles, req, acked>>

\* What the callbacks of a SCAN work on: *cur_off, the names in buf and *buf_size;
\* last is the offset that came with the last of them, and full says that an entry
\* did not fit.
NoEntries == [cur_off |-> 0, buf |-> <<>>, buf_size |-> 0, last |-> 0, full |-> FALSE]

\* ReadDir_ from the offset of the last entry the kernel got.
ReadDir(c) ==
  /\ dirs[c] # NoDir
  /\ Submit(c, [op |-> "SCAN", worker |-> 0, out |-> NoEntries,
                min_key |-> ToSlice(DirKey(handles[dirs[c].h].file.st_ino)),
                max_key |-> ToSlice(DirKey(handles[dirs[c].h].file.st_ino + 1))])
  /\ UNCHANGED <<cur_ino, store, handles, dirs, acked>>

\* Mutant of ReadDirScan: the entry that did not fit is taken for returned.
ReadDirScanLoses(out, off, key) ==
  LET cur == out.cur_off + 1
      name == FromSlice(key).name
      size == out.buf_size + EntSize[name]
  IN  CASE out.full -> out
        [] ~out.full /\ cur <= off -> [out EXCEPT !.cur_off = cur]
        [] ~out.full /\ cur > off /\ size > BufSize ->
             [out EXCEPT !.cur_off = cur, !.last = cur, !.full = TRUE]
        [] OTHER -> [cur_off |-> cur, buf |-> Append(out.buf, name), buf_size |-> size,
                     last |-> cur, full |-> FALSE]

\* ReadDirScan of one entry: the first off entries of the whole scan are passed over,
\* the others go to the buffer with their offset until one does not fit.  Then the
\* callback returns false, the batch is finished and the buffer is gone: what the
\* loop of the worker does after that reaches the kernel no more.
ReadDirScan(out, off, key) ==
  LET cur == out.cur_off + 1
      name == FromSlice(key).name
      size == out.buf_size + EntSize[name]
  IN  CASE out.full -> out
        [] ~out.full /\ cur <= off -> [out EXCEPT !.cur_off = cur]
        [] ~out.full /\ cur > off /\ size > BufSize -> [out EXCEPT !.cur_off = cur, !.full = TRUE]
        [] OTHER -> [cur_off |-> cur, buf |-> Append(out.buf, name), buf_size |-> size,
                     last |-> cur, full |-> FALSE]

\* The loop over the keys of one worker.
ScanLoop(out, off, keys) ==
  LET after[i \in 0 .. Len(keys)] ==
        IF i = 0 THEN out ELSE ReadDirScan(after[i - 1], off, keys[i])
  IN  after[Len(keys)]

\* Worker: the part of a SCAN that one worker does.  When the scan callback returns
\* false the SCANs for the other workers are dropped and the batch is finished there
\* and then.  It is finished again behind the loop (CallbackOnce of module DB): the
\* kernel drops an answer to a request it does not have, or the process is killed
\* for the memory it frees twice, and the behaviour ends.
DBScan(c) ==
  /\ req[c].op = "SCAN" /\ ~Answered(c)
  /\ LET r == req[c]
         keys == {k \in DOMAIN store : /\ SplitFunc[k] = r.worker
                                       /\ ~SliceLess(k, r.min_key)
                                       /\ SliceLess(k, r.max_key)}
     IN  req' = [req EXCEPT ![c].worker = r.worker + 1,
                            ![c].out = ScanLoop(r.out, dirs[c].off, IndexOrder(keys))]
  /\ UNCHANGED <<cur_ino, store, handles, dirs, acked>>

\* The buffer goes to the kernel, which asks for more, from the offset of the last
\* entry on, until there is none.
ReadDirCallback(c) ==
  /\ req[c].op = "SCAN" /\ Answered(c)
  /\ req' = [req EXCEPT ![c] = Idle]
  /\ dirs' = [dirs EXCEPT ![c] = IF req[c].out.buf = <<>> THEN NoDir
                                 ELSE [dirs[c] EXCEPT !.off = req[c].out.last,
                                                      !.seen = dirs[c].seen \cup Range(req[c].out.buf)]]
  /\ UNCHANGED <<cur_ino, store, handles, acked>>

-----------------------------------------------------------------------------

\* The DB works on the request of c and, when it is done, runs the callback.
Serve(c) == DBGet(c) \/ DBPut(c) \/ PutCallback(c) \/ DBUpdate(c) \/ DBScan(c)
Callback(c) == LookupCallback(c) \/ MknodCallback(c) \/ WriteCallback(c) \/ ReadDirCallback(c)

\* c makes a system call.
Call(c) ==
  \/ \E h \in DOMAIN handles, n \in Names :
       \/ "lookup" \in Calls[c] /\ Lookup(c, h, n)
       \/ "mknod" \in Calls[c] /\ Mknod(c, h, n)
       \/ "mkdir" \in Calls[c] /\ Mkdir(c, h, n)
  \/ \E h \in DOMAIN handles, end \in Ends : "write_buf" \in Calls[c] /\ WriteBuf(c, h, end)
  \/ \E h \in DOMAIN handles : "readdir" \in Calls[c] /\ OpenDir(c, h)
  \/ ReadDir(c)

Next == \E c \in Clients : Call(c) \/ Serve(c) \/ Callback(c)

Spec == Init /\ [][Next]_vars
-----------------------------------------------------------------------------
(* Properties *)

Files == [st_ino : FUSE_ROOT_ID .. MaxIno, dir : BOOLEAN, st_size : Ends \cup {0}]

\* What each variable holds; the keys of handles are keys of the DB.
TypeOK ==
  /\ cur_ino \in FUSE_ROOT_ID .. MaxIno
  /\ DOMAIN store \subseteq Keys /\ \A k \in DOMAIN store : store[k] \in Files
  /\ handles \in Seq([key : DOMAIN store, file : Files] \cup {Root})
  /\ acked \in [Keys -> Ends \cup {0}]

\* A name means one file for ever, whoever created it first and however often it
\* was looked up, unless two creations of it overlap: every handle of it carries the
\* inode number the DB keeps under the name, no two names have the same, and none
\* that is still to be created will get one in use.
Identity ==
  /\ \A h \in DOMAIN handles : h > 1 =>
       /\ handles[h].file.st_ino = store[handles[h].key].st_ino
       /\ handles[h].file.dir = store[handles[h].key].dir
  /\ \A j, k \in DOMAIN store : store[j].st_ino = store[k].st_ino => j = k
  /\ \A k \in DOMAIN store : store[k].st_ino \in FUSE_ROOT_ID + 1 .. cur_ino

\* A directory is read in calls that return as many entries as fit a buffer; each
\* scans it from the beginning, one worker after the other, and passes over as many
\* entries as were returned before, while others create files in it.  Reading it to
\* its end misses no name that was known when it was opened, and lists only names of
\* this directory.
ListsDirectory ==
  \A c \in Clients : req[c].op = "SCAN" =>
    /\ \A n \in Range(req[c].out.buf) : n \in Names /\ KeyOf(dirs[c].h, n) \in DOMAIN store
    /\ Answered(c) /\ req[c].out.buf = <<>> => dirs[c].known \subseteq dirs[c].seen

\* Nobody is about to store attributes of k.
Settled(k) == \A c \in Clients : req[c].op = "UPDATE" => req[c].key # k

\* GetAttr: FuseEntry of the handle's own copy.
GetAttr(h) == handles[h].file

\* As long as a file has one handle the size in the DB and the size GetAttr
\* reports are the end of the file: the largest end of a write that was answered.
SizeKept ==
  \A h \in DOMAIN handles :
    LET k == handles[h].key
    IN  h > 1 /\ Settled(k) /\ (\A g \in DOMAIN handles : handles[g].key = k => g = h)
          => GetAttr(h).st_size = acked[k] /\ store[k].st_size = acked[k]

\* WriteBuf says "Update File Size" (src/read_write.cc:91): what it stores is the
\* size of the file, whichever handles the writes came through.
SizeStored ==
  \A k \in DOMAIN store : Settled(k) => store[k].st_size = acked[k]

\* Every request the DB has answered gets its caller an answer, whatever the DB said
\* to a lookup, a creation or a scan and unless the I/O of an update failed (IoErrors):
\* no system call hangs.
NoCallStuck == \A c \in Clients : Answered(c) => ENABLED Callback(c)
=============================================================================
