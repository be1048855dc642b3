--------------------------- MODULE KTableFSProofs ----------------------------
(***************************************************************************)
(* Proofs about KTableFS: a name means one file, a file with one handle     *)
(* keeps its size, and reading a directory misses no name.                  *)
(***************************************************************************)
EXTENDS KTableFSInv, MinProofs, SequenceTheorems, FiniteSetTheorems, TLAPS

-----------------------------------------------------------------------------
(* Facts about the parts of the model *)

\* The bound on inode numbers is a number.
LEMMA MaxInoType == MaxIno \in Nat /\ MaxIno >= 1 /\ FUSE_ROOT_ID = 1
  <1>1. MaxIno \in 1 .. Base ^ InoBytes - 2
    BY KTableFSAssumption DEF FUSE_ROOT_ID
  <1> DEFINE top == Base ^ InoBytes - 2
  <1> HIDE DEF top
  <1>2. MaxIno \in 1 .. top
    BY <1>1 DEF top
  <1> QED
    BY <1>2 DEF FUSE_ROOT_ID

\* What a handle is.
LEMMA HandleType ==
  ASSUME Typed, NEW h \in DOMAIN handles
  PROVE  /\ handles[h] \in Handle
         /\ handles[h].file \in Files
         /\ handles[h].file.st_ino \in FUSE_ROOT_ID .. MaxIno
  <1>1. handles[h] \in Handle
    BY DEF Typed
  <1>2. handles[h].file \in Files
    BY <1>1 DEF Handle
  <1> QED
    BY <1>1, <1>2 DEF Files

\* The key of a name in the directory of a handle is a key of the DB.
LEMMA KeyOfType ==
  ASSUME Typed, NEW h \in DOMAIN handles, NEW n \in Names
  PROVE  KeyOf(h, n) \in Keys
  BY HandleType DEF KeyOf, Keys

\* A new handle becomes the last one.
LEMMA EntryStep ==
  ASSUME Typed, NEW x \in Handle, handles' = Append(handles, x)
  PROVE  /\ handles' \in Seq(Handle) /\ handles' # <<>> /\ handles'[1] = Root
         /\ Len(handles) + 1 \notin DOMAIN handles
         /\ Nodes' = Nodes \cup {Len(handles) + 1}
         /\ \A h \in DOMAIN handles : handles'[h] = handles[h]
         /\ handles'[Len(handles) + 1] = x
  <1>1. handles \in Seq(Handle) /\ handles # <<>> /\ handles[1] = Root
    BY DEF Typed
  <1>2. /\ handles' \in Seq(Handle)
        /\ Len(handles') = Len(handles) + 1
        /\ \A h \in 1 .. Len(handles) : handles'[h] = handles[h]
        /\ handles'[Len(handles) + 1] = x
    BY <1>1, AppendProperties
  <1>3. Len(handles) \in Nat /\ Len(handles) >= 1 /\ DOMAIN handles = 1 .. Len(handles)
        /\ DOMAIN handles' = 1 .. Len(handles')
    BY <1>1, <1>2
  <1> QED
    BY <1>1, <1>2, <1>3 DEF Nodes

\* A step that gives c another request leaves the others alone.
LEMMA ReqStep ==
  ASSUME Typed, NEW c \in Clients, NEW r, req' = [req EXCEPT ![c] = r]
  PROVE  /\ req'[c] = r
         /\ \A d \in Clients : d # c => req'[d] = req[d]
         /\ req' = [d \in Clients |-> req'[d]]
  <1>1. DOMAIN req = Clients
    BY DEF Typed
  <1> QED
    BY <1>1

\* The kinds of requests exclude each other.
LEMMA ReqKinds ==
  ASSUME Typed, NEW c \in Clients
  PROVE  /\ Is(c, "GET") => req[c] \in [op : {"GET"}, h : Nat, key : Keys, res : {"none", "ok", "ENOENT", "EIO"}, file : Files]
         /\ Is(c, "PUT") => req[c] \in [op : {"PUT"}, h : Nat, key : Keys, res : {"none", "write", "ok", "EEXIST", "EIO"}, file : Files]
         /\ Is(c, "UPDATE") => req[c] \in [op : {"UPDATE"}, h : Nat, key : Keys, end : Ends, res : {"none", "ok", "EIO", "ENOENT"}, file : Files]
         /\ Is(c, "SCAN") => Scan(req[c])
         /\ req[c].op \in {"IDLE", "GET", "PUT", "UPDATE", "SCAN"}
  BY DEF Typed, Point, Scan, Is, Idle

\* Changing the request of one client to one of the right kind keeps the types.
LEMMA TypedReq ==
  ASSUME Typed, NEW c \in Clients, NEW r, req' = [req EXCEPT ![c] = r],
         r = Idle \/ r \in Point \/ Scan(r),
         UNCHANGED <<cur_ino, store, handles, acked>>
  PROVE  Typed'
  BY ReqStep DEF Typed

\* A request that is answered is no SCAN under way.
LEMMA AnsweredRes ==
  ASSUME Typed, NEW c \in Clients, Is(c, "GET") \/ Is(c, "PUT"), Answered(c)
  PROVE  req[c].res \notin {"none", "write"}
  BY DEF Answered, Is

\* The attributes of a new file.
LEMMA NewFileType ==
  ASSUME Typed, cur_ino < MaxIno, NEW isdir \in BOOLEAN
  PROVE  NewFile(isdir) \in Files
  BY MaxInoType DEF Typed, NewFile, Files

\* A write goes through the handle of a file, not of the root.
LEMMA WriteBufNode ==
  ASSUME Typed, Known, NEW c \in Clients, NEW h \in DOMAIN handles, NEW end \in Ends, WriteBuf(c, h, end)
  PROVE  /\ h \in Nodes /\ h \in Nat
         /\ handles[h].key \in DOMAIN store /\ handles[h].key \in Keys
         /\ handles[h].file.st_size \in Nat /\ end \in Nat
  <1>1. h # 1
    <2>1. ~ handles[h].file.dir
      BY DEF WriteBuf
    <2>2. handles[1].file.dir
      BY DEF Typed, Root
    <2> QED
      BY <2>1, <2>2
  <1>2. handles[h].file.st_size \in Ends \cup {0}
    BY HandleType DEF Files
  <1> QED
    BY <1>1, <1>2, KTableFSAssumption DEF Nodes, Known, Typed

\* The request a write of end makes, and the handle it leaves.
UpdateOf(h, end) ==
  [op |-> "UPDATE", h |-> h, key |-> handles[h].key, end |-> end, res |-> "none",
   file |-> [handles[h].file EXCEPT !.st_size = end]]

\* Changing a size changes nothing else.
LEMMA SizeOnly ==
  ASSUME NEW f \in Files, NEW end \in Ends, NEW g, g = [f EXCEPT !.st_size = end]
  PROVE  g \in Files /\ g.st_ino = f.st_ino /\ g.dir = f.dir /\ g.st_size = end
  BY DEF Files

\* A write that grows its file.
LEMMA GrowStep ==
  ASSUME Typed, Known, NEW c \in Clients, NEW h \in DOMAIN handles, NEW end \in Ends,
         WriteBuf(c, h, end), end > handles[h].file.st_size
  PROVE  /\ handles' \in Seq(Handle) /\ handles' # <<>> /\ handles'[1] = Root
         /\ Nodes' = Nodes
         /\ \A g \in DOMAIN handles : handles'[g].key = handles[g].key
                                      /\ handles'[g].file.st_ino = handles[g].file.st_ino
                                      /\ handles'[g].file.dir = handles[g].file.dir
         /\ \A g \in DOMAIN handles : g # h => handles'[g] = handles[g]
         /\ handles'[h].file.st_size = end
         /\ req[c] = Idle /\ Unlocked(h)
         /\ req' = [req EXCEPT ![c] = UpdateOf(h, end)]
         /\ UpdateOf(h, end) \in Point
         /\ UpdateOf(h, end).file \in Files
         /\ UpdateOf(h, end).file.st_ino = handles[h].file.st_ino
         /\ UpdateOf(h, end).file.dir = handles[h].file.dir
         /\ UpdateOf(h, end).file.st_size = end
         /\ UNCHANGED <<cur_ino, store, acked, dirs>>
  <1>1. /\ handles' = [handles EXCEPT ![h].file.st_size = end]
        /\ req' = [req EXCEPT ![c] = UpdateOf(h, end)]
        /\ req[c] = Idle /\ Unlocked(h)
        /\ UNCHANGED <<cur_ino, store, acked, dirs>>
    BY DEF WriteBuf, Grow, Submit, UpdateOf
  <1>2. h \in Nodes /\ h # 1 /\ h \in Nat /\ handles[h].key \in Keys
    BY WriteBufNode DEF Nodes
  <1>3. handles \in Seq(Handle) /\ handles # <<>> /\ handles[1] = Root /\ handles[h] \in Handle /\ handles[h].file \in Files
    BY HandleType DEF Typed
  <1>4. PICK g : g = [handles[h].file EXCEPT !.st_size = end]
    OBVIOUS
  <1>5. g \in Files /\ g.st_ino = handles[h].file.st_ino /\ g.dir = handles[h].file.dir /\ g.st_size = end
    BY <1>3, <1>4, SizeOnly
  <1>6. PICK x : x = [handles[h] EXCEPT !.file = g]
    OBVIOUS
  <1>7. x \in Handle /\ x.key = handles[h].key /\ x.file = g
    BY <1>3, <1>5, <1>6 DEF Handle
  <1>8. handles' = [handles EXCEPT ![h] = x]
    BY <1>1, <1>4, <1>6
  <1>9. /\ handles' \in Seq(Handle) /\ Len(handles') = Len(handles)
        /\ \A i \in DOMAIN handles : i # h => handles'[i] = handles[i]
        /\ handles'[h] = x
    BY <1>3, <1>7, <1>8, ExceptSeq
  <1>10. DOMAIN handles' = DOMAIN handles /\ handles' # <<>> /\ handles'[1] = Root
    BY <1>2, <1>3, <1>9
  <1>11. UpdateOf(h, end).file = g
    BY <1>4 DEF UpdateOf
  <1>12. UpdateOf(h, end) \in Point
    <2> DEFINE r == [op |-> "UPDATE", h |-> h, key |-> handles[h].key, end |-> end, res |-> "none", file |-> g]
    <2>1. UpdateOf(h, end) = r
      BY <1>4 DEF UpdateOf
    <2>2. r \in Point
      BY <1>2, <1>5 DEF Point
    <2> QED
      BY <2>1, <2>2
  <1> QED
    BY <1>1, <1>5, <1>7, <1>9, <1>10, <1>11, <1>12 DEF Nodes

\* A write that does not.
LEMMA NoGrowStep ==
  ASSUME Typed, Known, NEW c \in Clients, NEW h \in DOMAIN handles, NEW end \in Ends,
         WriteBuf(c, h, end), ~ (end > handles[h].file.st_size)
  PROVE  /\ Acknowledge(handles[h].key, end)
         /\ req[c] = Idle /\ Unlocked(h)
         /\ UNCHANGED <<cur_ino, store, handles, req, dirs>>
  BY DEF WriteBuf, Grow

\* What is answered is a size.
LEMMA AckType ==
  ASSUME Typed, NEW k \in Keys, NEW end \in Ends, Acknowledge(k, end)
  PROVE  /\ acked' \in [Keys -> Ends \cup {0}]
         /\ acked'[k] = IF end > acked[k] THEN end ELSE acked[k]
         /\ \A j \in Keys : j # k => acked'[j] = acked[j]
         /\ \A j \in Keys : acked[j] \in Nat
  BY KTableFSAssumption DEF Typed, Acknowledge

\* A GET that is submitted.
LEMMA LookupStep ==
  ASSUME Typed, NEW c \in Clients, NEW h \in DOMAIN handles, NEW n \in Names, Lookup(c, h, n)
  PROVE  /\ UNCHANGED <<cur_ino, store, handles, acked, dirs>> /\ req[c] = Idle
         /\ \E r \in Point : req' = [req EXCEPT ![c] = r] /\ r.op = "GET" /\ r.res = "none"
  <1> DEFINE r == [op |-> "GET", h |-> h, key |-> KeyOf(h, n), res |-> "none", file |-> Root.file]
  <1>1. KeyOf(h, n) \in Keys /\ h \in Nat
    BY KeyOfType DEF Typed
  <1>2. Root.file \in Files
    BY MaxInoType DEF Root, Files
  <1>3. r \in Point /\ r.op = "GET" /\ r.res = "none"
    BY <1>1, <1>2 DEF Point
  <1> HIDE DEF r
  <1>4. req[c] = Idle /\ req' = [req EXCEPT ![c] = r] /\ UNCHANGED <<cur_ino, store, handles, acked, dirs>>
    BY DEF Lookup, Submit, r
  <1> QED
    BY <1>3, <1>4

\* A PUT that is submitted takes the next inode number.
LEMMA CreateStep ==
  ASSUME Typed, NEW c \in Clients, NEW h \in DOMAIN handles, NEW n \in Names, NEW isdir \in BOOLEAN,
         Create(c, h, n, isdir)
  PROVE  /\ UNCHANGED <<store, handles, acked, dirs>> /\ req[c] = Idle
         /\ cur_ino' = cur_ino + 1 /\ cur_ino' \in FUSE_ROOT_ID .. MaxIno
         /\ \E r \in Point :
              /\ req' = [req EXCEPT ![c] = r] /\ r.op = "PUT" /\ r.res = "none"
              /\ r.file.st_ino = cur_ino + 1 /\ r.file.st_size = 0
              /\ MayCreate(r.key)
  <1> DEFINE r == [op |-> "PUT", h |-> h, key |-> KeyOf(h, n), res |-> "none", file |-> NewFile(isdir)]
  <1>1. KeyOf(h, n) \in Keys /\ h \in Nat
    BY KeyOfType DEF Typed
  <1>2. NewFile(isdir) \in Files
    BY NewFileType DEF Create
  <1>3. r \in Point /\ r.op = "PUT" /\ r.res = "none" /\ r.key = KeyOf(h, n) /\ r.file = NewFile(isdir)
    BY <1>1, <1>2 DEF Point
  <1>4. r.file.st_ino = cur_ino + 1 /\ r.file.st_size = 0
    BY <1>3 DEF NewFile
  <1> HIDE DEF r
  <1>5. /\ req[c] = Idle /\ req' = [req EXCEPT ![c] = r] /\ UNCHANGED <<store, handles, acked, dirs>>
        /\ cur_ino' = cur_ino + 1 /\ cur_ino < MaxIno
        /\ MayCreate(KeyOf(h, n))
    BY DEF Create, Submit, r
  <1>6. cur_ino' \in FUSE_ROOT_ID .. MaxIno
    BY <1>5, MaxInoType DEF Typed
  <1> QED
    BY <1>3, <1>4, <1>5, <1>6

\* A SCAN that is submitted.
LEMMA ReadDirStep ==
  ASSUME Typed, NEW c \in Clients, ReadDir(c)
  PROVE  /\ UNCHANGED <<cur_ino, store, handles, acked, dirs>> /\ req[c] = Idle
         /\ \E r : Scan(r) /\ req' = [req EXCEPT ![c] = r]
  <1>1. PICK lo, hi : req' = [req EXCEPT ![c] = [op |-> "SCAN", worker |-> 0, out |-> NoEntries,
                                                min_key |-> lo, max_key |-> hi]]
    BY DEF ReadDir, Submit
  <1> DEFINE r == [op |-> "SCAN", worker |-> 0, out |-> NoEntries, min_key |-> lo, max_key |-> hi]
  <1>2. Scan(r)
    BY DEF Scan
  <1> HIDE DEF r
  <1>3. req' = [req EXCEPT ![c] = r]
    BY <1>1 DEF r
  <1> QED
    BY <1>2, <1>3 DEF ReadDir, Submit

\* A GET that was carried out has the file, if there is one.
LEMMA DBGetStep ==
  ASSUME Typed, NEW c \in Clients, DBGet(c)
  PROVE  /\ Is(c, "GET")
         /\ UNCHANGED <<cur_ino, store, handles, acked, dirs>>
         /\ \E r \in Point :
              /\ req' = [req EXCEPT ![c] = r]
              /\ r.op = "GET" /\ r.key = req[c].key
              /\ r.res = "ok" => r.key \in DOMAIN store /\ r.file = store[r.key]
  <1> DEFINE k == req[c].key
  <1>1. Is(c, "GET") /\ UNCHANGED <<cur_ino, store, handles, acked, dirs>>
    BY DEF DBGet, Is
  <1>2. req[c] \in [op : {"GET"}, h : Nat, key : Keys, res : {"none", "ok", "ENOENT", "EIO"}, file : Files]
    BY <1>1, ReqKinds
  <1>3. k \in DOMAIN store => store[k] \in Files
    BY DEF Typed
  <1>4. PICK res \in IF k \in DOMAIN store THEN Results("GET") ELSE {"ENOENT"} :
          req' = [req EXCEPT ![c].res = res, ![c].file = IF res = "ok" THEN store[k] ELSE req[c].file]
    BY DEF DBGet
  <1>5. res \in {"ok", "EIO", "ENOENT"} /\ (res = "ok" => k \in DOMAIN store)
    BY <1>4 DEF Results
  <1>6. PICK f : f = IF res = "ok" THEN store[k] ELSE req[c].file
    OBVIOUS
  <1>7. f \in Files /\ (res = "ok" => f = store[k])
    BY <1>2, <1>3, <1>5, <1>6
  <1> DEFINE r == [req[c] EXCEPT !.res = res, !.file = f]
  <1>8. req' = [req EXCEPT ![c] = r]
    BY <1>4, <1>6
  <1>9. /\ r \in [op : {"GET"}, h : Nat, key : Keys, res : {"none", "ok", "ENOENT", "EIO"}, file : Files]
        /\ r.op = "GET" /\ r.key = k /\ r.res = res /\ r.file = f
    BY <1>2, <1>5, <1>7
  <1>10. r \in Point
    BY <1>9 DEF Point
  <1> QED
    BY <1>1, <1>5, <1>7, <1>8, <1>9, <1>10

\* A PUT goes on when its key is not there.
LEMMA DBPutStep ==
  ASSUME Typed, NEW c \in Clients, DBPut(c)
  PROVE  /\ Is(c, "PUT") /\ req[c].res = "none"
         /\ UNCHANGED <<cur_ino, store, handles, acked, dirs>>
         /\ \E r \in Point :
              /\ req' = [req EXCEPT ![c] = r]
              /\ r.op = "PUT" /\ r.key = req[c].key /\ r.file = req[c].file
              /\ r.res \in {"EEXIST", "write"}
              /\ r.res = "write" => r.key \notin DOMAIN store
  <1> DEFINE r == [req[c] EXCEPT !.res = IF req[c].key \in DOMAIN store THEN "EEXIST" ELSE "write"]
  <1>1. Is(c, "PUT") /\ req[c].res = "none" /\ req' = [req EXCEPT ![c] = r] /\ UNCHANGED <<cur_ino, store, handles, acked, dirs>>
    BY DEF DBPut, Is
  <1>2. req[c] \in [op : {"PUT"}, h : Nat, key : Keys, res : {"none", "write", "ok", "EEXIST", "EIO"}, file : Files]
    BY <1>1, ReqKinds
  <1>3. /\ r \in [op : {"PUT"}, h : Nat, key : Keys, res : {"none", "write", "ok", "EEXIST", "EIO"}, file : Files]
        /\ r.op = "PUT" /\ r.key = req[c].key /\ r.file = req[c].file
        /\ r.res \in {"EEXIST", "write"}
        /\ r.res = "write" => r.key \notin DOMAIN store
    BY <1>2
  <1>4. r \in Point
    BY <1>3 DEF Point
  <1> QED
    BY <1>1, <1>3, <1>4

\* What a PUT leaves in the DB.
LEMMA PutCallbackStep ==
  ASSUME Typed, NEW c \in Clients, PutCallback(c)
  PROVE  /\ Is(c, "PUT") /\ req[c].res = "write" /\ req[c].key \in Keys /\ req[c].file \in Files
         /\ UNCHANGED <<cur_ino, handles, acked, dirs>>
         /\ \E r \in Point :
              /\ req' = [req EXCEPT ![c] = r]
              /\ r.op = "PUT" /\ r.key = req[c].key /\ r.file = req[c].file
              /\ r.res \in {"ok", "EIO"}
              /\ r.res = "EIO" => store' = store
              /\ r.res = "ok" => store' = [k \in DOMAIN store \cup {r.key} |->
                                             IF k \in DOMAIN store THEN store[k] ELSE r.file]
  <1>1. PICK res \in Results("PUT") :
          /\ store' = IF res # "ok" THEN store
                      ELSE [k \in DOMAIN store \cup {req[c].key} |->
                              IF k \in DOMAIN store THEN store[k] ELSE req[c].file]
          /\ req' = [req EXCEPT ![c].res = res]
    BY DEF PutCallback
  <1>2. res \in {"ok", "EIO"}
    BY DEF Results
  <1> DEFINE r == [req[c] EXCEPT !.res = res]
  <1>3. Is(c, "PUT") /\ req[c].res = "write" /\ req' = [req EXCEPT ![c] = r] /\ UNCHANGED <<cur_ino, handles, acked, dirs>>
    BY <1>1 DEF PutCallback, Is
  <1>4. req[c] \in [op : {"PUT"}, h : Nat, key : Keys, res : {"none", "write", "ok", "EEXIST", "EIO"}, file : Files]
    BY <1>3, ReqKinds
  <1>5. /\ r \in [op : {"PUT"}, h : Nat, key : Keys, res : {"none", "write", "ok", "EEXIST", "EIO"}, file : Files]
        /\ r.op = "PUT" /\ r.key = req[c].key /\ r.file = req[c].file
        /\ r.res = res
    BY <1>2, <1>4
  <1>6. r \in Point
    BY <1>5 DEF Point
  <1> HIDE DEF r
  <1>7. /\ r.res = "EIO" => store' = store
        /\ r.res = "ok" => store' = [k \in DOMAIN store \cup {r.key} |->
                                       IF k \in DOMAIN store THEN store[k] ELSE r.file]
    BY <1>1, <1>2, <1>5
  <1> QED
    BY <1>2, <1>3, <1>4, <1>5, <1>6, <1>7

\* What an UPDATE leaves in the DB.
LEMMA DBUpdateStep ==
  ASSUME Typed, NEW c \in Clients, DBUpdate(c)
  PROVE  /\ Is(c, "UPDATE") /\ req[c].res = "none" /\ req[c].key \in Keys /\ req[c].file \in Files
         /\ UNCHANGED <<cur_ino, handles, acked, dirs>>
         /\ \E r \in Point :
              /\ req' = [req EXCEPT ![c] = r]
              /\ r.op = "UPDATE" /\ r.key = req[c].key /\ r.file = req[c].file
              /\ r.h = req[c].h /\ r.end = req[c].end
              /\ r.res # "ok" => store' = store
              /\ r.res = "ok" => /\ r.key \in DOMAIN store
                                 /\ store' = [store EXCEPT ![r.key] = r.file]
  <1>1. PICK res \in IF req[c].key \in DOMAIN store THEN Results("UPDATE") ELSE {"ENOENT"} :
          /\ store' = IF res = "ok" THEN [store EXCEPT ![req[c].key] = req[c].file] ELSE store
          /\ req' = [req EXCEPT ![c].res = res]
    BY DEF DBUpdate
  <1>2. res \in {"ok", "EIO", "ENOENT"} /\ (res = "ok" => req[c].key \in DOMAIN store)
    BY DEF Results
  <1> DEFINE r == [req[c] EXCEPT !.res = res]
  <1>3. Is(c, "UPDATE") /\ req[c].res = "none" /\ req' = [req EXCEPT ![c] = r] /\ UNCHANGED <<cur_ino, handles, acked, dirs>>
    BY <1>1 DEF DBUpdate, Is
  <1>4. req[c] \in [op : {"UPDATE"}, h : Nat, key : Keys, end : Ends, res : {"none", "ok", "EIO", "ENOENT"}, file : Files]
    BY <1>3, ReqKinds
  <1>5. /\ r \in [op : {"UPDATE"}, h : Nat, key : Keys, end : Ends, res : {"none", "ok", "EIO", "ENOENT"}, file : Files]
        /\ r.op = "UPDATE" /\ r.key = req[c].key /\ r.file = req[c].file
        /\ r.h = req[c].h /\ r.end = req[c].end
        /\ r.res = res
    BY <1>2, <1>4
  <1>6. r \in Point
    BY <1>5 DEF Point
  <1> HIDE DEF r
  <1>7. /\ r.res # "ok" => store' = store
        /\ r.res = "ok" => r.key \in DOMAIN store /\ store' = [store EXCEPT ![r.key] = r.file]
    BY <1>1, <1>2, <1>5
  <1> QED
    BY <1>3, <1>4, <1>5, <1>6, <1>7

\* A SCAN goes on to the next worker.
LEMMA DBScanStep ==
  ASSUME Typed, NEW c \in Clients, DBScan(c)
  PROVE  /\ Is(c, "SCAN")
         /\ UNCHANGED <<cur_ino, store, handles, acked, dirs>>
         /\ \E r : Scan(r) /\ req' = [req EXCEPT ![c] = r]
  <1>1. PICK w, out : req' = [req EXCEPT ![c].worker = w, ![c].out = out]
    BY DEF DBScan
  <1>2. Is(c, "SCAN") /\ Scan(req[c])
    BY ReqKinds DEF DBScan, Is
  <1>3. PICK v, o, lo, hi :
          req[c] = [op |-> "SCAN", worker |-> v, out |-> o, min_key |-> lo, max_key |-> hi]
    BY <1>2 DEF Scan
  <1>4. PICK r : r = [req[c] EXCEPT !.worker = w, !.out = out]
    OBVIOUS
  <1>5. r = [op |-> "SCAN", worker |-> w, out |-> out, min_key |-> lo, max_key |-> hi]
    <2>1. PICK q : q = [req[c] EXCEPT !.worker = w]
      OBVIOUS
    <2>2. q = [op |-> "SCAN", worker |-> w, out |-> o, min_key |-> lo, max_key |-> hi]
      BY <1>3, <2>1
    <2>3. r = [q EXCEPT !.out = out]
      BY <1>4, <2>1, Zenon
    <2> QED
      BY <2>2, <2>3
  <1>6. Scan(r)
    BY <1>5 DEF Scan
  <1>7. req' = [req EXCEPT ![c] = r]
    BY <1>1, <1>4
  <1> QED
    BY <1>2, <1>6, <1>7 DEF DBScan

\* A callback that answers with a handle, and one that does not.
LEMMA EntryCallback ==
  ASSUME Typed, NEW c \in Clients, LookupCallback(c) \/ MknodCallback(c)
  PROVE  /\ Is(c, "GET") \/ Is(c, "PUT")
         /\ req' = [req EXCEPT ![c] = Idle]
         /\ UNCHANGED <<cur_ino, store, acked, dirs>>
         /\ \/ UNCHANGED handles
            \/ /\ Got(c, "GET") \/ Got(c, "PUT")
               /\ \E x \in Handle : /\ handles' = Append(handles, x)
                                    /\ x.key = req[c].key /\ x.file = req[c].file
                                    /\ x.key \in Keys
  <1>1. Is(c, "GET") \/ Is(c, "PUT")
    BY DEF LookupCallback, MknodCallback, Is
  <1>2. req[c].key \in Keys /\ req[c].file \in Files
    BY <1>1, ReqKinds
  <1> DEFINE x == [key |-> req[c].key, file |-> req[c].file]
  <1>3. x \in Handle /\ x.key = req[c].key /\ x.file = req[c].file
    BY <1>2 DEF Handle
  <1>4. \/ UNCHANGED handles
        \/ (Got(c, "GET") \/ Got(c, "PUT")) /\ handles' = Append(handles, x)
    BY DEF LookupCallback, MknodCallback, Entry, Got, Is
  <1>5. req' = [req EXCEPT ![c] = Idle] /\ UNCHANGED <<cur_ino, store, acked, dirs>>
    BY DEF LookupCallback, MknodCallback
  <1> QED
    BY <1>1, <1>2, <1>3, <1>4, <1>5

\* A write that is answered.
LEMMA WriteCallbackStep ==
  ASSUME Typed, NEW c \in Clients, WriteCallback(c)
  PROVE  /\ Got(c, "UPDATE")
         /\ req[c].key \in Keys /\ req[c].end \in Ends
         /\ Acknowledge(req[c].key, req[c].end)
         /\ req' = [req EXCEPT ![c] = Idle]
         /\ UNCHANGED <<cur_ino, store, handles, dirs>>
  <1>1. Got(c, "UPDATE") /\ Is(c, "UPDATE")
    BY DEF WriteCallback, Got, Is
  <1>2. req[c].key \in Keys /\ req[c].end \in Ends
    BY <1>1, ReqKinds
  <1> QED
    BY <1>1, <1>2 DEF WriteCallback

-----------------------------------------------------------------------------
(* Types *)

\* Every system call keeps the types ...
LEMMA TypedCall ==
  ASSUME Typed, Known, NEW c \in Clients, Call(c)
  PROVE  Typed'
  <1>1. ASSUME NEW h \in DOMAIN handles, NEW n \in Names, Lookup(c, h, n)
        PROVE  Typed'
    BY <1>1, LookupStep, TypedReq
  <1>2. ASSUME NEW h \in DOMAIN handles, NEW n \in Names, NEW isdir \in BOOLEAN, Create(c, h, n, isdir)
        PROVE  Typed'
    BY <1>2, CreateStep, ReqStep DEF Typed
  <1>3. ASSUME NEW h \in DOMAIN handles, NEW end \in Ends, WriteBuf(c, h, end)
        PROVE  Typed'
    <2>1. CASE end > handles[h].file.st_size
      <3> DEFINE r == UpdateOf(h, end)
      <3>1. /\ handles' \in Seq(Handle) /\ handles' # <<>> /\ handles'[1] = Root
            /\ req' = [req EXCEPT ![c] = r] /\ r \in Point
            /\ UNCHANGED <<cur_ino, store, acked>>
        BY <1>3, <2>1, GrowStep
      <3> HIDE DEF r
      <3> QED
        BY <3>1, ReqStep DEF Typed
    <2>2. CASE ~ (end > handles[h].file.st_size)
      <3>1. handles[h].key \in Keys
        BY <1>3, WriteBufNode
      <3> QED
        BY <1>3, <2>2, <3>1, NoGrowStep, AckType DEF Typed
    <2> QED
      BY <2>1, <2>2
  <1>4. ASSUME NEW h \in DOMAIN handles, OpenDir(c, h)
        PROVE  Typed'
    BY <1>4 DEF OpenDir, Typed
  <1>5. ASSUME ReadDir(c)
        PROVE  Typed'
    BY <1>5, ReadDirStep, TypedReq
  <1> QED
    BY <1>1, <1>2, <1>3, <1>4, <1>5 DEF Call, Mknod, Mkdir

\* ... and so do the workers and the callbacks.
LEMMA TypedServe ==
  ASSUME Typed, NEW c \in Clients, Serve(c) \/ Callback(c)
  PROVE  Typed'
  <1>1. CASE DBGet(c)
    BY <1>1, DBGetStep, TypedReq
  <1>2. CASE DBPut(c)
    BY <1>2, DBPutStep, TypedReq
  <1>3. CASE PutCallback(c)
    <2>1. PICK r \in Point :
            /\ req' = [req EXCEPT ![c] = r]
            /\ r.key = req[c].key /\ r.file = req[c].file
            /\ r.res \in {"ok", "EIO"}
            /\ r.res = "EIO" => store' = store
            /\ r.res = "ok" => store' = [k \in DOMAIN store \cup {r.key} |->
                                           IF k \in DOMAIN store THEN store[k] ELSE r.file]
      BY <1>3, PutCallbackStep
    <2>2. r.key \in Keys /\ r.file \in Files
      BY <1>3, <2>1, PutCallbackStep
    <2>3. DOMAIN store' \subseteq Keys /\ \A k \in DOMAIN store' : store'[k] \in Files
      BY <2>1, <2>2 DEF Typed
    <2> QED
      BY <1>3, <2>1, <2>3, ReqStep, PutCallbackStep DEF Typed
  <1>4. CASE DBUpdate(c)
    <2>1. PICK r \in Point :
            /\ req' = [req EXCEPT ![c] = r]
            /\ r.key = req[c].key /\ r.file = req[c].file
            /\ r.res # "ok" => store' = store
            /\ r.res = "ok" => r.key \in DOMAIN store /\ store' = [store EXCEPT ![r.key] = r.file]
      BY <1>4, DBUpdateStep
    <2>2. r.key \in Keys /\ r.file \in Files
      BY <1>4, <2>1, DBUpdateStep
    <2>3. DOMAIN store' \subseteq Keys /\ \A k \in DOMAIN store' : store'[k] \in Files
      BY <2>1, <2>2 DEF Typed
    <2> QED
      BY <1>4, <2>1, <2>3, ReqStep, DBUpdateStep DEF Typed
  <1>5. CASE DBScan(c)
    BY <1>5, DBScanStep, TypedReq
  <1>6. CASE LookupCallback(c) \/ MknodCallback(c)
    BY <1>6, EntryCallback, EntryStep, ReqStep DEF Typed
  <1>7. CASE WriteCallback(c)
    BY <1>7, WriteCallbackStep, AckType, ReqStep DEF Typed
  <1>8. CASE ReadDirCallback(c)
    BY <1>8, TypedReq DEF ReadDirCallback
  <1> QED
    BY <1>1, <1>2, <1>3, <1>4, <1>5, <1>6, <1>7, <1>8 DEF Serve, Callback

-----------------------------------------------------------------------------
(* What is known is in the DB *)

\* A step that changes the request of c and adds to the DB.
LEMMA KnownReq ==
  ASSUME Typed, Known, NEW c \in Clients, NEW r, req' = [req EXCEPT ![c] = r],
         handles' = handles, DOMAIN store \subseteq DOMAIN store',
         \/ r.op # "UPDATE"
         \/ r.op = "UPDATE" /\ Is(c, "UPDATE") /\ r.h = req[c].h /\ r.key = req[c].key,
         r.op \in {"GET", "PUT"} /\ r.res = "ok" => r.key \in DOMAIN store'
  PROVE  Known'
  <1>1. req'[c] = r /\ \A d \in Clients : d # c => req'[d] = req[d]
    BY ReqStep
  <1>2. Nodes' = Nodes
    BY DEF Nodes
  <1>3. \A h \in Nodes' : handles'[h].key \in DOMAIN store'
    BY <1>2 DEF Known
  <1>4. \A d \in Clients : (Got(d, "GET") \/ Got(d, "PUT"))' => req'[d].key \in DOMAIN store'
    BY <1>1 DEF Known, Got, Is
  <1>5. \A d \in Clients : Is(d, "UPDATE")' =>
          Is(d, "UPDATE") /\ req'[d].h = req[d].h /\ req'[d].key = req[d].key
    BY <1>1 DEF Is
  <1> QED
    BY <1>2, <1>3, <1>4, <1>5 DEF Known

\* Every step keeps Known.
LEMMA KnownStep ==
  ASSUME Typed, Known, NEW c \in Clients, Call(c) \/ Serve(c) \/ Callback(c)
  PROVE  Known'
  <1>1. ASSUME NEW h \in DOMAIN handles, NEW n \in Names, Lookup(c, h, n)
        PROVE  Known'
    <2>1. PICK r : req' = [req EXCEPT ![c] = r] /\ UNCHANGED <<store, handles>> /\ r.op = "GET" /\ r.res = "none"
      BY <1>1, LookupStep
    <2> QED
      BY <2>1, KnownReq
  <1>13. ASSUME NEW h \in DOMAIN handles, NEW n \in Names, NEW isdir \in BOOLEAN, Create(c, h, n, isdir)
         PROVE  Known'
    <2>1. PICK r : req' = [req EXCEPT ![c] = r] /\ UNCHANGED <<store, handles>> /\ r.op = "PUT" /\ r.res = "none"
      BY <1>13, CreateStep
    <2> QED
      BY <2>1, KnownReq
  <1>2. ASSUME NEW h \in DOMAIN handles, NEW end \in Ends, WriteBuf(c, h, end)
        PROVE  Known'
    <2>1. CASE end > handles[h].file.st_size
      <3> DEFINE r == UpdateOf(h, end)
      <3>1. /\ Nodes' = Nodes /\ \A g \in DOMAIN handles : handles'[g].key = handles[g].key
            /\ Unlocked(h) /\ req' = [req EXCEPT ![c] = r] /\ store' = store
        BY <1>2, <2>1, GrowStep
      <3>2. r.op = "UPDATE" /\ r.h = h /\ r.key = handles[h].key
        BY DEF UpdateOf
      <3> HIDE DEF r
      <3>3. req'[c] = r /\ \A d \in Clients : d # c => req'[d] = req[d]
        BY <3>1, ReqStep
      <3>4. h \in Nodes
        BY <1>2, WriteBufNode
      <3>5. \A d \in Clients : d # c /\ Is(d, "UPDATE")' => req'[d].h # h
        BY <3>1, <3>3 DEF Unlocked, Is
      <3>6. \A g \in Nodes : g \in DOMAIN handles
        BY DEF Nodes
      <3>7. \A g \in Nodes' : handles'[g].key \in DOMAIN store'
        BY <3>1, <3>6 DEF Known
      <3>8. \A d \in Clients : (Got(d, "GET") \/ Got(d, "PUT"))' => req'[d].key \in DOMAIN store'
        BY <3>1, <3>2, <3>3 DEF Known, Got, Is
      <3>9. \A d \in Clients : Is(d, "UPDATE")' => req'[d].h \in Nodes' /\ handles'[req'[d].h].key = req'[d].key
        BY <3>1, <3>2, <3>3, <3>4, <3>6 DEF Known, Is
      <3>10. \A d, e \in Clients : (Is(d, "UPDATE") /\ Is(e, "UPDATE"))' /\ req'[d].h = req'[e].h => d = e
        BY <3>2, <3>3, <3>5 DEF Known, Is
      <3> QED
        BY <3>7, <3>8, <3>9, <3>10 DEF Known
    <2>2. CASE ~ (end > handles[h].file.st_size)
      BY <1>2, <2>2, NoGrowStep DEF Known, Nodes, Got, Is
    <2> QED
      BY <2>1, <2>2
  <1>3. ASSUME NEW h \in DOMAIN handles, OpenDir(c, h)
        PROVE  Known'
    BY <1>3 DEF OpenDir, Known, Nodes, Got, Is
  <1>4. CASE ReadDir(c)
    BY <1>4, ReadDirStep, KnownReq DEF Scan
  <1>5. CASE DBGet(c)
    BY <1>5, DBGetStep, KnownReq
  <1>6. CASE DBPut(c)
    <2>1. PICK r : /\ req' = [req EXCEPT ![c] = r] /\ UNCHANGED <<store, handles>>
                   /\ r.op = "PUT" /\ r.res \in {"EEXIST", "write"}
      BY <1>6, DBPutStep
    <2> QED
      BY <2>1, KnownReq
  <1>7. CASE PutCallback(c)
    <2>1. PICK r : /\ req' = [req EXCEPT ![c] = r] /\ UNCHANGED handles
                   /\ r.op = "PUT" /\ r.res \in {"ok", "EIO"}
                   /\ r.res = "EIO" => store' = store
                   /\ r.res = "ok" => store' = [k \in DOMAIN store \cup {r.key} |->
                                                  IF k \in DOMAIN store THEN store[k] ELSE r.file]
      BY <1>7, PutCallbackStep
    <2>2. DOMAIN store \subseteq DOMAIN store' /\ (r.res = "ok" => r.key \in DOMAIN store')
      BY <2>1
    <2> QED
      BY <2>1, <2>2, KnownReq
  <1>8. CASE DBUpdate(c)
    <2>1. PICK r : /\ req' = [req EXCEPT ![c] = r] /\ UNCHANGED handles
                   /\ r.op = "UPDATE" /\ r.h = req[c].h /\ r.key = req[c].key
                   /\ r.res # "ok" => store' = store
                   /\ r.res = "ok" => store' = [store EXCEPT ![r.key] = r.file]
      BY <1>8, DBUpdateStep
    <2>2. DOMAIN store \subseteq DOMAIN store'
      BY <2>1
    <2>3. Is(c, "UPDATE")
      BY <1>8, DBUpdateStep
    <2> QED
      BY <2>1, <2>2, <2>3, KnownReq
  <1>9. CASE DBScan(c)
    BY <1>9, DBScanStep, KnownReq DEF Scan
  <1>10. CASE LookupCallback(c) \/ MknodCallback(c)
    <2>1. CASE UNCHANGED handles
      BY <1>10, <2>1, EntryCallback, KnownReq DEF Idle
    <2>2. CASE ~ UNCHANGED handles
      <3>1. PICK x \in Handle : handles' = Append(handles, x) /\ x.key = req[c].key /\ (Got(c, "GET") \/ Got(c, "PUT"))
        BY <1>10, <2>2, EntryCallback
      <3>2. x.key \in DOMAIN store
        BY <3>1 DEF Known
      <3>3. req' = [req EXCEPT ![c] = Idle] /\ store' = store
        BY <1>10, EntryCallback
      <3>4. req'[c] = Idle /\ \A d \in Clients : d # c => req'[d] = req[d]
        BY <3>3, ReqStep
      <3>5. /\ Nodes' = Nodes \cup {Len(handles) + 1}
            /\ \A h \in DOMAIN handles : handles'[h] = handles[h]
            /\ handles'[Len(handles) + 1] = x
        BY <3>1, EntryStep
      <3>6. \A h \in Nodes : h \in DOMAIN handles
        BY DEF Nodes
      <3> QED
        BY <3>2, <3>3, <3>4, <3>5, <3>6 DEF Known, Got, Is, Idle
    <2> QED
      BY <2>1, <2>2
  <1>11. CASE WriteCallback(c)
    BY <1>11, WriteCallbackStep, KnownReq DEF Idle
  <1>12. CASE ReadDirCallback(c)
    BY <1>12, KnownReq DEF ReadDirCallback, Idle
  <1> QED
    BY <1>1, <1>2, <1>3, <1>4, <1>5, <1>6, <1>7, <1>8, <1>9, <1>10, <1>11, <1>12, <1>13
       DEF Call, Mknod, Mkdir, Serve, Callback

-----------------------------------------------------------------------------
(* Sizes *)

\* Steps that leave writes, handles and what was answered alone.
LEMMA SizedQuiet ==
  ASSUME FsInv, NEW c \in Clients, NEW r, req' = [req EXCEPT ![c] = r],
         UNCHANGED <<handles, acked>>, r.op # "UPDATE", ~ Is(c, "UPDATE"),
         r.op = "PUT" => r.file.st_size = 0,
         r.op = "GET" /\ r.res = "ok" => r.key \in DOMAIN store /\ r.file = store[r.key],
         \A k \in DOMAIN store : k \in DOMAIN store' /\ store'[k] = store[k],
         \A k \in DOMAIN store' : k \notin DOMAIN store => store'[k].st_size = 0
  PROVE  Sized'
  <1>1. req'[c] = r /\ \A d \in Clients : d # c => req'[d] = req[d]
    BY ReqStep DEF FsInv
  <1>2. Nodes' = Nodes /\ \A k : NodesOf(k)' = NodesOf(k)
    BY DEF Nodes, NodesOf
  <1>3. \A d \in Clients : Is(d, "PUT")' => req'[d].file.st_size = 0
    BY <1>1 DEF FsInv, Sized, Is
  <1>4. ASSUME NEW k \in Keys, NodesOf(k)' = {}
        PROVE  Untouched(k)'
    <2>1. Untouched(k)
      BY <1>2, <1>4 DEF FsInv, Sized
    <2>2. k \in DOMAIN store' => store'[k].st_size = 0
      BY <2>1 DEF Untouched
    <2>3. ASSUME NEW d \in Clients, Got(d, "GET")', req'[d].key = k
          PROVE  req'[d].file.st_size = 0
      <3>1. CASE d = c
        BY <1>1, <2>1, <2>3, <3>1 DEF Untouched, Got, Is
      <3>2. CASE d # c
        BY <1>1, <2>1, <2>3, <3>2 DEF Untouched, Got, Is
      <3> QED
        BY <3>1, <3>2
    <2> QED
      BY <2>1, <2>2, <2>3 DEF Untouched
  <1>5. ASSUME NEW k \in Keys, NEW h \in Nodes', NodesOf(k)' = {h}
        PROVE  OneNode(k, h)'
    <2>1. OneNode(k, h)
      BY <1>2, <1>5 DEF FsInv, Sized
    <2>2. handles[h].key = k
      BY <1>2, <1>5 DEF NodesOf
    <2>3. k \in DOMAIN store /\ store'[k] = store[k]
      BY <1>2, <1>5, <2>2 DEF FsInv, Known
    <2>4. \A d \in Clients : Is(d, "UPDATE")' <=> Is(d, "UPDATE")
      BY <1>1 DEF Is
    <2>5. \A d \in Clients : Is(d, "UPDATE") => req'[d] = req[d]
      BY <1>1
    <2>6. Settled(k)' <=> Settled(k)
      BY <2>4, <2>5 DEF Settled, Is
    <2> QED
      BY <2>1, <2>3, <2>4, <2>5, <2>6 DEF OneNode
  <1> QED
    BY <1>3, <1>4, <1>5 DEF Sized

\* A write under way on a file with one handle came through it; so there is no
\* other one, and the file is settled when the handle is not locked.
LEMMA OneWriter ==
  ASSUME FsInv, NEW k \in Keys, NEW h \in Nodes, NodesOf(k) = {h}
  PROVE  /\ \A c \in Clients : Is(c, "UPDATE") /\ req[c].key = k => req[c].h = h
         /\ \A c, d \in Clients : Is(c, "UPDATE") /\ Is(d, "UPDATE") /\ req[c].key = k /\ req[d].key = k => c = d
         /\ Unlocked(h) => Settled(k)
         /\ k \in DOMAIN store /\ handles[h].key = k
  <1>1. \A c \in Clients : Is(c, "UPDATE") /\ req[c].key = k => req[c].h = h
    BY DEF FsInv, Known, NodesOf
  <1>2. \A c, d \in Clients : Is(c, "UPDATE") /\ Is(d, "UPDATE") /\ req[c].key = k /\ req[d].key = k => c = d
    BY <1>1 DEF FsInv, Known
  <1>3. Unlocked(h) => Settled(k)
    BY <1>1 DEF Unlocked, Settled, Is
  <1>4. k \in DOMAIN store /\ handles[h].key = k
    BY DEF FsInv, Known, NodesOf
  <1> QED
    BY <1>1, <1>2, <1>3, <1>4

\* A new handle.
LEMMA SizedEntry ==
  ASSUME FsInv, NEW c \in Clients, LookupCallback(c) \/ MknodCallback(c), ~ UNCHANGED handles
  PROVE  Sized'
  <1>1. PICK x \in Handle : /\ handles' = Append(handles, x)
                            /\ x.key = req[c].key /\ x.file = req[c].file /\ x.key \in Keys
                            /\ Got(c, "GET") \/ Got(c, "PUT")
    BY EntryCallback DEF FsInv
  <1>2. req' = [req EXCEPT ![c] = Idle] /\ UNCHANGED <<store, acked>>
    BY EntryCallback DEF FsInv
  <1>3. req'[c] = Idle /\ \A d \in Clients : d # c => req'[d] = req[d]
    BY <1>2, ReqStep DEF FsInv
  <1>4. PICK g : g = Len(handles) + 1
    OBVIOUS
  <1>5. /\ g \notin DOMAIN handles
        /\ Nodes' = Nodes \cup {g}
        /\ \A h \in DOMAIN handles : handles'[h] = handles[h]
        /\ handles'[g] = x
    BY <1>1, <1>4, EntryStep DEF FsInv
  <1>6. \A h \in Nodes : h \in DOMAIN handles /\ h # g /\ handles'[h] = handles[h]
    BY <1>5 DEF Nodes
  <1>7. /\ \A k : k # x.key => NodesOf(k)' = NodesOf(k)
        /\ NodesOf(x.key)' = NodesOf(x.key) \cup {g}
        /\ g \notin NodesOf(x.key)
    BY <1>5, <1>6 DEF NodesOf
  <1>8. /\ \A d \in Clients : Is(d, "UPDATE")' <=> Is(d, "UPDATE")
        /\ \A d \in Clients : Is(d, "UPDATE") => req'[d] = req[d]
    BY <1>1, <1>3 DEF Is, Got, Idle
  <1>9. \A k : Settled(k)' <=> Settled(k)
    BY <1>8 DEF Settled, Is
  <1>10. \A d \in Clients : Is(d, "PUT")' => req'[d].file.st_size = 0
    BY <1>3 DEF FsInv, Sized, Is, Idle
  <1>11. ASSUME NEW k \in Keys, NodesOf(k)' = {}
         PROVE  Untouched(k)'
    <2>1. Untouched(k)
      BY <1>7, <1>11 DEF FsInv, Sized
    <2>2. \A d \in Clients : Got(d, "GET")' => req'[d] = req[d] /\ Got(d, "GET")
      BY <1>3 DEF Got, Is, Idle
    <2> QED
      BY <1>2, <2>1, <2>2 DEF Untouched
  <1>12. ASSUME NEW k \in Keys, NEW h \in Nodes', NodesOf(k)' = {h}
         PROVE  OneNode(k, h)'
    <2>1. CASE k = x.key
      <3>1. NodesOf(k) = {} /\ h = g
        BY <1>7, <1>12, <2>1
      <3>2. Untouched(k)
        BY <3>1 DEF FsInv, Sized
      <3>3. x.file.st_size = 0
        BY <1>1, <2>1, <3>2 DEF Untouched, FsInv, Sized, Got
      <3>4. k \in DOMAIN store
        BY <1>1, <2>1 DEF FsInv, Known
      <3>5. \A d \in Clients : Is(d, "UPDATE") => req[d].key # k
        BY <3>1 DEF FsInv, Known, NodesOf
      <3> QED
        BY <1>2, <1>5, <1>8, <3>1, <3>2, <3>3, <3>4, <3>5 DEF OneNode, Untouched
    <2>2. CASE k # x.key
      <3>1. NodesOf(k) = {h} /\ h \in Nodes /\ handles'[h] = handles[h]
        BY <1>6, <1>7, <1>12, <2>2 DEF NodesOf
      <3>2. OneNode(k, h)
        BY <3>1 DEF FsInv, Sized
      <3> QED
        BY <1>2, <1>8, <1>9, <3>1, <3>2 DEF OneNode
    <2> QED
      BY <2>1, <2>2
  <1> QED
    BY <1>10, <1>11, <1>12 DEF Sized

\* A write.
LEMMA SizedWriteBuf ==
  ASSUME FsInv, NEW c \in Clients, NEW h \in DOMAIN handles, NEW end \in Ends, WriteBuf(c, h, end)
  PROVE  Sized'
  <1>1. PICK k0 : k0 = handles[h].key
    OBVIOUS
  <1>2. /\ h \in Nodes /\ k0 \in DOMAIN store /\ k0 \in Keys
        /\ handles[h].file.st_size \in Nat /\ end \in Nat
        /\ h \in NodesOf(k0)
    BY <1>1, WriteBufNode DEF FsInv, NodesOf
  <1>3. Typed /\ Known
    BY DEF FsInv
  <1>4. ASSUME NodesOf(k0) = {h}, Unlocked(h)
        PROVE  Settled(k0) /\ handles[h].file.st_size = acked[k0] /\ store[k0].st_size = acked[k0]
    BY <1>2, <1>4, OneWriter DEF FsInv, Sized, OneNode
  <1>5. CASE end > handles[h].file.st_size
    <2>1. PICK r : r = UpdateOf(h, end)
      OBVIOUS
    <2>2. r.op = "UPDATE" /\ r.h = h /\ r.key = k0 /\ r.end = end /\ r.res = "none"
      BY <1>1, <2>1 DEF UpdateOf
    <2>3. /\ Nodes' = Nodes
          /\ \A g \in DOMAIN handles : handles'[g].key = handles[g].key
          /\ \A g \in DOMAIN handles : g # h => handles'[g] = handles[g]
          /\ handles'[h].file.st_size = end
          /\ req[c] = Idle /\ Unlocked(h)
          /\ req' = [req EXCEPT ![c] = r]
          /\ r.file.st_size = end
          /\ UNCHANGED <<store, acked>>
      BY <1>3, <1>5, <2>1, GrowStep
    <2>4. req'[c] = r /\ \A d \in Clients : d # c => req'[d] = req[d]
      BY <1>3, <2>3, ReqStep
    <2>5. \A k : NodesOf(k)' = NodesOf(k)
      BY <2>3 DEF NodesOf, Nodes
    <2>6. \A d \in Clients : Is(d, "PUT")' => req'[d].file.st_size = 0
      BY <2>2, <2>4 DEF FsInv, Sized, Is
    <2>7. ASSUME NEW k \in Keys, NodesOf(k)' = {}
          PROVE  Untouched(k)'
      <3>1. Untouched(k)
        BY <2>5, <2>7 DEF FsInv, Sized
      <3>2. \A d \in Clients : Got(d, "GET")' => req'[d] = req[d] /\ Got(d, "GET")
        BY <2>2, <2>4 DEF Got, Is
      <3> QED
        BY <2>3, <3>1, <3>2 DEF Untouched
    <2>8. ASSUME NEW k \in Keys, NEW g \in Nodes', NodesOf(k)' = {g}
          PROVE  OneNode(k, g)'
      <3>1. CASE k = k0
        <4>1. g = h /\ NodesOf(k0) = {h}
          BY <1>2, <2>5, <2>8, <3>1
        <4>2. Settled(k0) /\ handles[h].file.st_size = acked[k0] /\ store[k0].st_size = acked[k0]
          BY <1>4, <2>3, <4>1
        <4>3. ~ Settled(k0)'
          BY <2>2, <2>4 DEF Settled
        <4>4. \A d \in Clients : Is(d, "UPDATE")' /\ req'[d].key = k0 => d = c
          BY <2>4, <4>2 DEF Settled, Is
        <4>5. acked'[k0] < end
          BY <1>5, <2>3, <4>2
        <4> QED
          BY <2>2, <2>3, <2>4, <3>1, <4>1, <4>3, <4>4, <4>5 DEF OneNode
      <3>2. CASE k # k0
        <4>1. NodesOf(k) = {g} /\ g \in Nodes /\ handles[g].key = k
          BY <2>3, <2>5, <2>8 DEF NodesOf
        <4>2. g # h /\ g \in DOMAIN handles
          BY <1>1, <3>2, <4>1 DEF Nodes
        <4>3. OneNode(k, g) /\ handles'[g] = handles[g]
          BY <2>3, <4>1, <4>2 DEF FsInv, Sized
        <4>4. \A d \in Clients : req'[d].op = "UPDATE" /\ req'[d].key = k <=> req[d].op = "UPDATE" /\ req[d].key = k
          BY <2>2, <2>3, <2>4, <3>2 DEF Idle
        <4>5. \A d \in Clients : req'[d].op = "UPDATE" /\ req'[d].key = k => req'[d] = req[d]
          BY <2>2, <2>4, <3>2
        <4> QED
          BY <2>3, <4>3, <4>4, <4>5 DEF OneNode, Settled, Is
      <3> QED
        BY <3>1, <3>2
    <2> QED
      BY <2>6, <2>7, <2>8 DEF Sized
  <1>6. CASE ~ (end > handles[h].file.st_size)
    <2>1. Acknowledge(k0, end) /\ Unlocked(h) /\ UNCHANGED <<store, handles, req>>
      BY <1>1, <1>3, <1>6, NoGrowStep
    <2>2. /\ acked'[k0] = IF end > acked[k0] THEN end ELSE acked[k0]
          /\ \A k \in Keys : k # k0 => acked'[k] = acked[k]
      BY <1>2, <1>3, <2>1, AckType
    <2>3. Nodes' = Nodes /\ \A k : NodesOf(k)' = NodesOf(k)
      BY <2>1 DEF NodesOf, Nodes
    <2>4. ASSUME NEW k \in Keys, NodesOf(k)' = {}
          PROVE  Untouched(k)'
      <3>1. k # k0
        BY <1>2, <2>3, <2>4
      <3>2. Untouched(k)
        BY <2>3, <2>4 DEF FsInv, Sized
      <3> QED
        BY <2>1, <2>2, <3>1, <3>2 DEF Untouched, Got, Is
    <2>5. ASSUME NEW k \in Keys, NEW g \in Nodes', NodesOf(k)' = {g}
          PROVE  OneNode(k, g)'
      <3>1. acked'[k] = acked[k]
        <4>1. CASE k = k0
          <5>1. NodesOf(k0) = {h}
            BY <1>2, <2>3, <2>5, <4>1
          <5>2. handles[h].file.st_size = acked[k0]
            BY <1>4, <2>1, <5>1
          <5> QED
            BY <1>6, <2>2, <4>1, <5>2
        <4>2. CASE k # k0
          BY <2>2, <4>2
        <4> QED
          BY <4>1, <4>2
      <3>2. OneNode(k, g)
        BY <2>3, <2>5 DEF FsInv, Sized
      <3> QED
        BY <2>1, <3>1, <3>2 DEF OneNode, Settled, Is
    <2>6. \A d \in Clients : Is(d, "PUT")' => req'[d].file.st_size = 0
      BY <2>1 DEF FsInv, Sized, Is
    <2> QED
      BY <2>4, <2>5, <2>6 DEF Sized
  <1> QED
    BY <1>5, <1>6

\* An UPDATE in the DB, and the answer to it.
LEMMA SizedUpdate ==
  ASSUME FsInv, NEW c \in Clients, DBUpdate(c)
  PROVE  Sized'
  <1>1. PICK r : /\ req' = [req EXCEPT ![c] = r]
                 /\ r.op = "UPDATE" /\ r.key = req[c].key /\ r.file = req[c].file
                 /\ r.h = req[c].h /\ r.end = req[c].end
                 /\ r.res # "ok" => store' = store
                 /\ r.res = "ok" => r.key \in DOMAIN store /\ store' = [store EXCEPT ![r.key] = r.file]
    BY DBUpdateStep DEF FsInv
  <1>2. Is(c, "UPDATE") /\ req[c].res = "none" /\ UNCHANGED <<handles, acked>>
    BY DBUpdateStep DEF FsInv
  <1>3. PICK k0 : k0 = req[c].key
    OBVIOUS
  <1>4. req'[c] = r /\ \A d \in Clients : d # c => req'[d] = req[d]
    BY <1>1, ReqStep DEF FsInv
  <1>5. Nodes' = Nodes /\ \A k : NodesOf(k)' = NodesOf(k)
    BY <1>2 DEF NodesOf, Nodes
  <1>6. NodesOf(k0) # {}
    BY <1>2, <1>3 DEF FsInv, Known, NodesOf
  <1>7. /\ DOMAIN store' = DOMAIN store
        /\ \A k \in DOMAIN store : k # k0 => store'[k] = store[k]
        /\ r.res = "ok" => store'[k0] = r.file
    BY <1>1, <1>3
  <1>8. \A d \in Clients : Is(d, "PUT")' => req'[d].file.st_size = 0
    BY <1>1, <1>4 DEF FsInv, Sized, Is
  <1>9. ASSUME NEW k \in Keys, NodesOf(k)' = {}
        PROVE  Untouched(k)'
    <2>1. Untouched(k) /\ k # k0
      BY <1>5, <1>6, <1>9 DEF FsInv, Sized
    <2>2. \A d \in Clients : Got(d, "GET")' => req'[d] = req[d] /\ Got(d, "GET")
      BY <1>1, <1>4 DEF Got, Is
    <2> QED
      BY <1>2, <1>7, <2>1, <2>2 DEF Untouched
  <1>10. ASSUME NEW k \in Keys, NEW g \in Nodes', NodesOf(k)' = {g}
         PROVE  OneNode(k, g)'
    <2>1. g \in Nodes /\ NodesOf(k) = {g}
      BY <1>5, <1>10
    <2>2. OneNode(k, g)
      BY <2>1 DEF FsInv, Sized
    <2>3. CASE k = k0
      <3>1. ~ Settled(k)'
        BY <1>1, <1>3, <1>4, <2>3 DEF Settled
      <3>2. \A d \in Clients : Is(d, "UPDATE")' /\ req'[d].key = k => d = c
        BY <1>2, <1>3, <1>4, <2>1, <2>3, OneWriter DEF Is
      <3>3. /\ req[c].end = handles[g].file.st_size /\ req[c].file.st_size = req[c].end
            /\ acked[k] < req[c].end
        BY <1>2, <1>3, <2>2, <2>3 DEF OneNode
      <3> QED
        BY <1>1, <1>2, <1>4, <1>7, <2>3, <3>1, <3>2, <3>3 DEF OneNode
    <2>4. CASE k # k0
      <3>1. store'[k] = store[k]
        BY <1>7, <2>1, <2>4, OneWriter
      <3>2. \A d \in Clients : req'[d].op = "UPDATE" /\ req'[d].key = k <=> req[d].op = "UPDATE" /\ req[d].key = k
        BY <1>1, <1>3, <1>4, <2>4
      <3>3. \A d \in Clients : req'[d].op = "UPDATE" /\ req'[d].key = k => req'[d] = req[d]
        BY <1>1, <1>3, <1>4, <2>4
      <3> QED
        BY <1>2, <2>2, <3>1, <3>2, <3>3 DEF OneNode, Settled, Is
    <2> QED
      BY <2>3, <2>4
  <1> QED
    BY <1>8, <1>9, <1>10 DEF Sized

\* A write is answered: what was stored becomes what the kernel was told of.
LEMMA SizedWriteCallback ==
  ASSUME FsInv, NEW c \in Clients, WriteCallback(c)
  PROVE  Sized'
  <1>1. /\ Got(c, "UPDATE") /\ Is(c, "UPDATE")
        /\ req[c].key \in Keys /\ req[c].end \in Ends
        /\ Acknowledge(req[c].key, req[c].end)
        /\ req' = [req EXCEPT ![c] = Idle]
        /\ UNCHANGED <<store, handles>>
    BY WriteCallbackStep DEF FsInv, Got
  <1>2. PICK k0, end : k0 = req[c].key /\ end = req[c].end
    OBVIOUS
  <1>3. req'[c] = Idle /\ \A d \in Clients : d # c => req'[d] = req[d]
    BY <1>1, ReqStep DEF FsInv
  <1>4. Nodes' = Nodes /\ \A k : NodesOf(k)' = NodesOf(k)
    BY <1>1 DEF NodesOf, Nodes
  <1>5. NodesOf(k0) # {}
    BY <1>1, <1>2 DEF FsInv, Known, NodesOf
  <1>6. /\ acked'[k0] = IF end > acked[k0] THEN end ELSE acked[k0]
        /\ \A k \in Keys : k # k0 => acked'[k] = acked[k]
        /\ acked[k0] \in Nat /\ end \in Nat
    BY <1>1, <1>2, AckType, KTableFSAssumption DEF FsInv
  <1>7. \A d \in Clients : Is(d, "PUT")' => req'[d].file.st_size = 0
    BY <1>3 DEF FsInv, Sized, Is, Idle
  <1>8. ASSUME NEW k \in Keys, NodesOf(k)' = {}
        PROVE  Untouched(k)'
    <2>1. Untouched(k) /\ k # k0
      BY <1>4, <1>5, <1>8 DEF FsInv, Sized
    <2>2. \A d \in Clients : Got(d, "GET")' => req'[d] = req[d] /\ Got(d, "GET")
      BY <1>3 DEF Got, Is, Idle
    <2> QED
      BY <1>1, <1>6, <2>1, <2>2 DEF Untouched
  <1>9. ASSUME NEW k \in Keys, NEW g \in Nodes', NodesOf(k)' = {g}
        PROVE  OneNode(k, g)'
    <2>1. g \in Nodes /\ NodesOf(k) = {g}
      BY <1>4, <1>9
    <2>2. OneNode(k, g)
      BY <2>1 DEF FsInv, Sized
    <2>3. CASE k = k0
      <3>1. /\ end = handles[g].file.st_size
            /\ acked[k] < end
            /\ store[k].st_size = end
        BY <1>1, <1>2, <2>2, <2>3 DEF OneNode, Got
      <3>2. acked'[k] = end
        BY <1>6, <2>3, <3>1
      <3>3. \A d \in Clients : Is(d, "UPDATE")' => req'[d].key # k
        BY <1>1, <1>2, <1>3, <2>1, <2>3, OneWriter DEF Is, Idle
      <3> QED
        BY <1>1, <3>1, <3>2, <3>3 DEF OneNode
    <2>4. CASE k # k0
      <3>1. acked'[k] = acked[k]
        BY <1>6, <2>4
      <3>2. \A d \in Clients : req'[d].op = "UPDATE" /\ req'[d].key = k <=> req[d].op = "UPDATE" /\ req[d].key = k
        BY <1>2, <1>3, <2>4 DEF Idle
      <3>3. \A d \in Clients : req'[d].op = "UPDATE" /\ req'[d].key = k => req'[d] = req[d]
        BY <1>3 DEF Idle
      <3> QED
        BY <1>1, <2>2, <3>1, <3>2, <3>3 DEF OneNode, Settled, Is
    <2> QED
      BY <2>3, <2>4
  <1> QED
    BY <1>7, <1>8, <1>9 DEF Sized

\* Every step keeps the sizes.
LEMMA SizedStep ==
  ASSUME FsInv, NEW c \in Clients, Call(c) \/ Serve(c) \/ Callback(c)
  PROVE  Sized'
  <1> Typed
    BY DEF FsInv
  <1>1. ASSUME NEW h \in DOMAIN handles, NEW n \in Names, Lookup(c, h, n)
        PROVE  Sized'
    <2>1. PICK r : req' = [req EXCEPT ![c] = r] /\ UNCHANGED <<store, handles, acked>> /\ req[c] = Idle
                   /\ r.op = "GET" /\ r.res = "none"
      BY <1>1, LookupStep
    <2>2. ~ Is(c, "UPDATE")
      BY <2>1 DEF Is, Idle
    <2> QED
      BY <2>1, <2>2, SizedQuiet
  <1>2. ASSUME NEW h \in DOMAIN handles, NEW n \in Names, NEW isdir \in BOOLEAN, Create(c, h, n, isdir)
        PROVE  Sized'
    <2>1. PICK r : req' = [req EXCEPT ![c] = r] /\ UNCHANGED <<store, handles, acked>> /\ req[c] = Idle
                   /\ r.op = "PUT" /\ r.file.st_size = 0
      BY <1>2, CreateStep
    <2>2. ~ Is(c, "UPDATE")
      BY <2>1 DEF Is, Idle
    <2> QED
      BY <2>1, <2>2, SizedQuiet
  <1>3. ASSUME NEW h \in DOMAIN handles, OpenDir(c, h)
        PROVE  Sized'
    BY <1>3 DEF OpenDir, FsInv, Sized, Untouched, OneNode, Nodes, NodesOf, Settled, Got, Is
  <1>4. CASE ReadDir(c)
    <2>1. PICK r : req' = [req EXCEPT ![c] = r] /\ UNCHANGED <<store, handles, acked>> /\ req[c] = Idle
                   /\ r.op = "SCAN"
      BY <1>4, ReadDirStep DEF Scan
    <2>2. ~ Is(c, "UPDATE")
      BY <2>1 DEF Is, Idle
    <2> QED
      BY <2>1, <2>2, SizedQuiet
  <1>5. CASE DBGet(c)
    <2>1. PICK r : req' = [req EXCEPT ![c] = r] /\ UNCHANGED <<store, handles, acked>> /\ Is(c, "GET")
                   /\ r.op = "GET" /\ (r.res = "ok" => r.key \in DOMAIN store /\ r.file = store[r.key])
      BY <1>5, DBGetStep
    <2> QED
      BY <2>1, SizedQuiet DEF Is
  <1>6. CASE DBPut(c)
    <2>1. PICK r : req' = [req EXCEPT ![c] = r] /\ UNCHANGED <<store, handles, acked>> /\ Is(c, "PUT")
                   /\ r.op = "PUT" /\ r.file = req[c].file
      BY <1>6, DBPutStep
    <2>2. r.file.st_size = 0
      BY <2>1 DEF FsInv, Sized
    <2> QED
      BY <2>1, <2>2, SizedQuiet DEF Is
  <1>7. CASE PutCallback(c)
    <2>1. PICK r : /\ req' = [req EXCEPT ![c] = r] /\ UNCHANGED <<handles, acked>> /\ Is(c, "PUT")
                   /\ r.op = "PUT" /\ r.file = req[c].file /\ r.res \in {"ok", "EIO"}
                   /\ r.res = "EIO" => store' = store
                   /\ r.res = "ok" => store' = [k \in DOMAIN store \cup {r.key} |->
                                                  IF k \in DOMAIN store THEN store[k] ELSE r.file]
      BY <1>7, PutCallbackStep
    <2>2. r.file.st_size = 0
      BY <2>1 DEF FsInv, Sized
    <2>3. /\ \A k \in DOMAIN store : k \in DOMAIN store' /\ store'[k] = store[k]
          /\ \A k \in DOMAIN store' : k \notin DOMAIN store => store'[k].st_size = 0
      BY <2>1, <2>2
    <2> QED
      BY <2>1, <2>2, <2>3, SizedQuiet DEF Is
  <1>8. CASE DBScan(c)
    <2>1. PICK r : req' = [req EXCEPT ![c] = r] /\ UNCHANGED <<store, handles, acked>> /\ Is(c, "SCAN")
                   /\ r.op = "SCAN"
      BY <1>8, DBScanStep DEF Scan
    <2> QED
      BY <2>1, SizedQuiet DEF Is
  <1>9. CASE LookupCallback(c) \/ MknodCallback(c)
    <2>1. CASE UNCHANGED handles
      <3>1. req' = [req EXCEPT ![c] = Idle] /\ UNCHANGED <<store, acked>> /\ (Is(c, "GET") \/ Is(c, "PUT"))
        BY <1>9, EntryCallback
      <3>2. ~ Is(c, "UPDATE") /\ Idle.op = "IDLE"
        BY <3>1 DEF Is, Idle
      <3> QED
        BY <2>1, <3>1, <3>2, SizedQuiet
    <2> QED
      BY <1>9, <2>1, SizedEntry
  <1>10. CASE ReadDirCallback(c)
    <2>1. req' = [req EXCEPT ![c] = Idle] /\ UNCHANGED <<store, handles, acked>> /\ Is(c, "SCAN")
      BY <1>10 DEF ReadDirCallback, Is
    <2>2. ~ Is(c, "UPDATE") /\ Idle.op = "IDLE"
      BY <2>1 DEF Is, Idle
    <2> QED
      BY <2>1, <2>2, SizedQuiet
  <1> QED
    BY <1>1, <1>2, <1>3, <1>4, <1>5, <1>6, <1>7, <1>8, <1>9, <1>10, SizedWriteBuf, SizedUpdate, SizedWriteCallback
       DEF Call, Mknod, Mkdir, Serve, Callback

-----------------------------------------------------------------------------
(* The first invariant and what follows from it *)

\* Nothing happens.
LEMMA FsStutter ==
  ASSUME FsInv, UNCHANGED vars
  PROVE  FsInv'
  BY DEF vars, FsInv, Typed, Known, Sized, Untouched, OneNode, Nodes, NodesOf, Settled, Got, Is

\* At the start there is the root and nothing else.
LEMMA FsInit == Init => FsInv
  <1> SUFFICES ASSUME Init PROVE FsInv
    OBVIOUS
  <1>1. Root \in Handle
    <2>1. Root.file \in Files
      BY MaxInoType DEF Root, Files
    <2> QED
      BY <2>1 DEF Root, Handle
  <1>2. Nodes = {} /\ \A k : NodesOf(k) = {}
    BY DEF Init, Nodes, NodesOf
  <1>3. Typed
    BY <1>1, MaxInoType DEF Init, Typed
  <1>4. \A c \in Clients : req[c] = Idle
    BY DEF Init
  <1>5. Known
    BY <1>2, <1>4 DEF Known, Got, Is, Idle
  <1>6. Sized
    BY <1>2, <1>4 DEF Init, Sized, Untouched, Got, Is, Idle
  <1> QED
    BY <1>3, <1>5, <1>6 DEF FsInv

\* The invariant is kept by every step.
LEMMA FsNext == FsInv /\ [Next]_vars => FsInv'
  <1> SUFFICES ASSUME FsInv, [Next]_vars PROVE FsInv'
    OBVIOUS
  <1>1. ASSUME NEW c \in Clients, Call(c) \/ Serve(c) \/ Callback(c)
        PROVE  FsInv'
    BY <1>1, TypedCall, TypedServe, KnownStep, SizedStep DEF FsInv
  <1> QED
    BY <1>1, FsStutter DEF Next

\* What the handles, the requests under way and the DB have to do with each other,
\* whether or not creations of one name overlap.
THEOREM FsInvariant == Spec => []FsInv
  BY FsInit, FsNext, PTL DEF Spec

\* Inode numbers, files and keys stay what they are declared to be, and a handle
\* always has a key the DB knows.
THEOREM TypeCorrect == Spec => []TypeOK
  <1>1. FsInv => TypeOK
    <2> SUFFICES ASSUME FsInv PROVE TypeOK
      OBVIOUS
    <2> DEFINE T == [key : DOMAIN store, file : Files] \cup {Root}
    <2>1. ASSUME NEW h \in DOMAIN handles PROVE handles[h] \in T
      <3>1. CASE h = 1
        BY <3>1 DEF FsInv, Typed
      <3>2. CASE h # 1
        <4>1. handles[h].key \in DOMAIN store
          BY <3>2 DEF FsInv, Known, Nodes
        <4>2. handles[h] \in Handle
          BY HandleType DEF FsInv
        <4> QED
          BY <4>1, <4>2 DEF Handle
      <3> QED
        BY <3>1, <3>2
    <2> HIDE DEF T
    <2>2. handles \in Seq(T)
      BY <2>1 DEF FsInv, Typed
    <2> QED
      BY <2>2 DEF FsInv, Typed, TypeOK, T
  <1> QED
    BY <1>1, FsInvariant, PTL

\* As long as a file has one handle, its size in the DB and the one GetAttr reports
\* are the largest end of a write that was answered.
THEOREM OneHandleKeepsSize == Spec => []SizeKept
  <1>1. FsInv => SizeKept
    <2> SUFFICES ASSUME FsInv, NEW h \in DOMAIN handles, h > 1, NEW k, k = handles[h].key, Settled(k),
                        \A g \in DOMAIN handles : handles[g].key = k => g = h
                 PROVE  handles[h].file.st_size = acked[k] /\ store[k].st_size = acked[k]
      BY DEF SizeKept, GetAttr
    <2>1. h \in Nodes /\ NodesOf(k) = {h}
      BY DEF Nodes, NodesOf
    <2>2. k \in Keys
      BY <2>1 DEF FsInv, Known, Typed
    <2> QED
      BY <2>1, <2>2 DEF FsInv, Sized, OneNode
  <1> QED
    BY <1>1, FsInvariant, PTL

-----------------------------------------------------------------------------
(* One name, one file *)

\* Steps that change no file, no handle and no inode number in use.
LEMMA SameQuiet ==
  ASSUME SameInv, NEW c \in Clients, NEW r, req' = [req EXCEPT ![c] = r],
         UNCHANGED <<store, handles, cur_ino>>, r.op # "UPDATE",
         r.op = "GET" /\ r.res = "ok" => Agrees(store, r.key, r.file),
         r.op = "PUT" => /\ Is(c, "PUT") /\ r.key = req[c].key /\ r.file = req[c].file
                         /\ r.res # "ok" /\ req[c].res # "ok"
                         /\ r.res = "write" => r.key \notin DOMAIN store
  PROVE  Same'
  <1>1. req'[c] = r /\ \A d \in Clients : d # c => req'[d] = req[d]
    BY ReqStep DEF SameInv, FsInv
  <1>2. Nodes' = Nodes /\ \A k, f : Agrees(store', k, f) <=> Agrees(store, k, f)
    BY DEF Nodes, Agrees
  <1>3. \A d \in Clients : Is(d, "PUT")' =>
          /\ Is(d, "PUT") /\ req'[d].key = req[d].key /\ req'[d].file = req[d].file
          /\ req'[d].res # "ok" => req[d].res # "ok"
          /\ req'[d].res = "ok" => req'[d] = req[d]
    BY <1>1 DEF Is
  <1>4. \A h \in Nodes' : Agrees(store', handles'[h].key, handles'[h].file)
    BY <1>2 DEF SameInv, Same
  <1>5. \A d \in Clients : (Got(d, "GET") \/ Got(d, "PUT") \/ Is(d, "UPDATE"))' =>
          Agrees(store', req'[d].key, req'[d].file)
    <2> SUFFICES ASSUME NEW d \in Clients, (Got(d, "GET") \/ Got(d, "PUT") \/ Is(d, "UPDATE"))'
                 PROVE  Agrees(store, req'[d].key, req'[d].file)
      BY <1>2
    <2>1. CASE d = c
      BY <1>1, <2>1 DEF Got, Is
    <2>2. CASE d # c
      BY <1>1, <2>2 DEF SameInv, Same, Got, Is
    <2> QED
      BY <2>1, <2>2
  <1>6. \A d \in Clients : Is(d, "PUT")' => req'[d].file.st_ino \in FUSE_ROOT_ID + 1 .. cur_ino'
    BY <1>3 DEF SameInv, Same
  <1>7. \A d, e \in Clients : (Is(d, "PUT") /\ Is(e, "PUT"))' /\ d # e =>
          req'[d].file.st_ino # req'[e].file.st_ino /\ req'[d].key # req'[e].key
    BY <1>3 DEF SameInv, Same
  <1>8. \A d \in Clients : Is(d, "PUT")' /\ req'[d].res # "ok" =>
          \A k \in DOMAIN store' : store'[k].st_ino # req'[d].file.st_ino
    BY <1>3 DEF SameInv, Same
  <1>9. \A d \in Clients : Is(d, "PUT")' /\ req'[d].res = "write" => req'[d].key \notin DOMAIN store'
    BY <1>1 DEF SameInv, Same, Is
  <1> QED
    BY <1>4, <1>5, <1>6, <1>7, <1>8, <1>9 DEF SameInv, Same

\* A creation takes an inode number nobody has.
LEMMA SameCreate ==
  ASSUME SameInv, ~ CreateRaces, NEW c \in Clients, NEW h \in DOMAIN handles, NEW n \in Names,
         NEW isdir \in BOOLEAN, Create(c, h, n, isdir)
  PROVE  Same'
  <1>1. PICK r : /\ req' = [req EXCEPT ![c] = r] /\ r.op = "PUT" /\ r.res = "none"
                 /\ r.file.st_ino = cur_ino + 1
                 /\ MayCreate(r.key)
    BY CreateStep DEF SameInv, FsInv
  <1>2. UNCHANGED <<store, handles>> /\ req[c] = Idle /\ cur_ino' = cur_ino + 1
    BY CreateStep DEF SameInv, FsInv
  <1>3. req'[c] = r /\ \A d \in Clients : d # c => req'[d] = req[d]
    BY <1>1, ReqStep DEF SameInv, FsInv
  <1>4. cur_ino \in Nat /\ cur_ino >= 1 /\ FUSE_ROOT_ID = 1
    BY MaxInoType DEF SameInv, FsInv, Typed
  <1>5. Nodes' = Nodes /\ \A k, f : Agrees(store', k, f) <=> Agrees(store, k, f)
    BY <1>2 DEF Nodes, Agrees
  <1>6. \A d \in Clients : d # c /\ Is(d, "PUT")' => Is(d, "PUT") /\ req[d].key # r.key
    BY <1>1, <1>3 DEF MayCreate, Is
  <1>7. /\ \A k \in DOMAIN store : store[k].st_ino \in 2 .. cur_ino
        /\ \A d \in Clients : Is(d, "PUT") => req[d].file.st_ino \in 2 .. cur_ino
    BY <1>4 DEF SameInv, Same
  <1>8. /\ \A k \in DOMAIN store : store[k].st_ino # cur_ino + 1 /\ store[k].st_ino \in 2 .. cur_ino + 1
        /\ \A d \in Clients : Is(d, "PUT") =>
             req[d].file.st_ino # cur_ino + 1 /\ req[d].file.st_ino \in 2 .. cur_ino + 1
    BY <1>4, <1>7
  <1>9. \A g \in Nodes' : Agrees(store', handles'[g].key, handles'[g].file)
    BY <1>2, <1>5 DEF SameInv, Same
  <1>10. \A d \in Clients : (Got(d, "GET") \/ Got(d, "PUT") \/ Is(d, "UPDATE"))' =>
           Agrees(store', req'[d].key, req'[d].file)
    <2> SUFFICES ASSUME NEW d \in Clients, (Got(d, "GET") \/ Got(d, "PUT") \/ Is(d, "UPDATE"))'
                 PROVE  Agrees(store, req'[d].key, req'[d].file)
      BY <1>5
    <2>1. CASE d = c
      BY <1>1, <1>3, <2>1 DEF Got, Is
    <2>2. CASE d # c
      BY <1>3, <2>2 DEF SameInv, Same, Got, Is
    <2> QED
      BY <2>1, <2>2
  <1>11. \A k \in DOMAIN store' : store'[k].st_ino \in FUSE_ROOT_ID + 1 .. cur_ino'
    BY <1>2, <1>4, <1>8
  <1>12. \A d \in Clients : Is(d, "PUT")' => req'[d].file.st_ino \in FUSE_ROOT_ID + 1 .. cur_ino'
    <2> TAKE d \in Clients
    <2>1. CASE d = c
      BY <1>1, <1>2, <1>3, <1>4, <2>1
    <2>2. CASE d # c
      BY <1>2, <1>3, <1>4, <1>6, <1>8, <2>2
    <2> QED
      BY <2>1, <2>2
  <1>13. \A d, e \in Clients : (Is(d, "PUT") /\ Is(e, "PUT"))' /\ d # e =>
           req'[d].file.st_ino # req'[e].file.st_ino /\ req'[d].key # req'[e].key
    <2> TAKE d, e \in Clients
    <2>1. CASE d # c /\ e # c
      BY <1>3, <1>6, <2>1 DEF SameInv, Same
    <2>2. CASE d = c \/ e = c
      BY <1>1, <1>3, <1>6, <1>8, <2>2
    <2> QED
      BY <2>1, <2>2
  <1>14. \A d \in Clients : Is(d, "PUT")' /\ req'[d].res # "ok" =>
           \A k \in DOMAIN store' : store'[k].st_ino # req'[d].file.st_ino
    <2> TAKE d \in Clients
    <2>1. CASE d = c
      BY <1>1, <1>2, <1>3, <1>8, <2>1
    <2>2. CASE d # c
      BY <1>2, <1>3, <1>6, <2>2 DEF SameInv, Same
    <2> QED
      BY <2>1, <2>2
  <1>15. \A d \in Clients : Is(d, "PUT")' /\ req'[d].res = "write" => req'[d].key \notin DOMAIN store'
    BY <1>1, <1>2, <1>3 DEF SameInv, Same, Is
  <1> QED
    BY <1>2, <1>9, <1>10, <1>11, <1>12, <1>13, <1>14, <1>15 DEF SameInv, Same

\* A PUT that succeeds stores its file under a name that was free.
LEMMA SamePut ==
  ASSUME SameInv, NEW c \in Clients, PutCallback(c)
  PROVE  Same'
  <1>1. PICK r : /\ req' = [req EXCEPT ![c] = r]
                 /\ r.op = "PUT" /\ r.key = req[c].key /\ r.file = req[c].file
                 /\ r.res \in {"ok", "EIO"}
                 /\ r.res = "EIO" => store' = store
                 /\ r.res = "ok" => store' = [k \in DOMAIN store \cup {r.key} |->
                                                IF k \in DOMAIN store THEN store[k] ELSE r.file]
    BY PutCallbackStep DEF SameInv, FsInv
  <1>2. Is(c, "PUT") /\ req[c].res = "write" /\ UNCHANGED <<handles, cur_ino>>
    BY PutCallbackStep DEF SameInv, FsInv
  <1>3. CASE r.res = "EIO"
    BY <1>1, <1>2, <1>3, SameQuiet
  <1>4. CASE r.res = "ok"
    <2>1. PICK k0 : k0 = r.key
      OBVIOUS
    <2>2. /\ k0 \notin DOMAIN store /\ DOMAIN store' = DOMAIN store \cup {k0} /\ store'[k0] = r.file
          /\ \A k \in DOMAIN store : store'[k] = store[k]
      BY <1>1, <1>2, <1>4, <2>1 DEF SameInv, Same
    <2>3. req'[c] = r /\ \A d \in Clients : d # c => req'[d] = req[d]
      BY <1>1, ReqStep DEF SameInv, FsInv
    <2>4. Nodes' = Nodes /\ \A k \in DOMAIN store : \A f : Agrees(store', k, f) <=> Agrees(store, k, f)
      BY <1>2, <2>2 DEF Nodes, Agrees
    <2>5. \A h \in Nodes' : Agrees(store', handles'[h].key, handles'[h].file)
      BY <1>2, <2>4 DEF SameInv, Same, FsInv, Known
    <2>6. ASSUME NEW d \in Clients, (Got(d, "GET") \/ Got(d, "PUT") \/ Is(d, "UPDATE"))'
          PROVE  Agrees(store', req'[d].key, req'[d].file)
      <3>1. CASE d = c
        BY <1>1, <2>1, <2>2, <2>3, <3>1 DEF Agrees
      <3>2. CASE d # c
        <4>1. req'[d] = req[d] /\ (Got(d, "GET") \/ Got(d, "PUT") \/ Is(d, "UPDATE"))
          BY <2>3, <2>6, <3>2 DEF Got, Is
        <4>2. req[d].key \in DOMAIN store
          BY <4>1 DEF SameInv, FsInv, Known
        <4> QED
          BY <2>4, <4>1, <4>2 DEF SameInv, Same
      <3> QED
        BY <3>1, <3>2
    <2>7. \A k \in DOMAIN store : store[k].st_ino # r.file.st_ino
      BY <1>1, <1>2 DEF SameInv, Same
    <2>8. \A j, k \in DOMAIN store' : store'[j].st_ino = store'[k].st_ino => j = k
      <3> TAKE j, k \in DOMAIN store'
      <3>1. CASE j \in DOMAIN store /\ k \in DOMAIN store
        BY <2>2, <3>1 DEF SameInv, Same
      <3>2. CASE j = k0 \/ k = k0
        BY <2>2, <2>7, <3>2
      <3> QED
        BY <2>2, <3>1, <3>2
    <2>9. \A k \in DOMAIN store' : store'[k].st_ino \in FUSE_ROOT_ID + 1 .. cur_ino'
      BY <1>1, <1>2, <2>2 DEF SameInv, Same
    <2>10. \A d \in Clients : Is(d, "PUT")' <=> Is(d, "PUT")
      BY <1>1, <1>2, <2>3 DEF Is
    <2>11. \A d \in Clients : req'[d].key = req[d].key /\ req'[d].file = req[d].file
      BY <1>1, <2>3
    <2>12. \A d \in Clients : d # c /\ Is(d, "PUT") => req[d].file.st_ino # r.file.st_ino /\ req[d].key # k0
      BY <1>1, <1>2, <2>1 DEF SameInv, Same
    <2>13. \A d \in Clients : Is(d, "PUT")' /\ req'[d].res # "ok" =>
             \A k \in DOMAIN store' : store'[k].st_ino # req'[d].file.st_ino
      BY <1>4, <2>2, <2>3, <2>10, <2>12 DEF SameInv, Same
    <2>14. \A d \in Clients : Is(d, "PUT")' /\ req'[d].res = "write" => req'[d].key \notin DOMAIN store'
      BY <1>4, <2>2, <2>3, <2>10, <2>12 DEF SameInv, Same
    <2>15. /\ \A d \in Clients : Is(d, "PUT")' => req'[d].file.st_ino \in FUSE_ROOT_ID + 1 .. cur_ino'
           /\ \A d, e \in Clients : (Is(d, "PUT") /\ Is(e, "PUT"))' /\ d # e =>
                req'[d].file.st_ino # req'[e].file.st_ino /\ req'[d].key # req'[e].key
      BY <1>2, <2>10, <2>11 DEF SameInv, Same
    <2> QED
      BY <2>5, <2>6, <2>8, <2>9, <2>13, <2>14, <2>15 DEF Same
  <1> QED
    BY <1>1, <1>3, <1>4

\* A step that creates nothing, and leaves the files of the DB what they are up to
\* their sizes, keeps what does not depend on handles and answers.
LEMMA SameInos ==
  ASSUME SameInv, UNCHANGED cur_ino, DOMAIN store' = DOMAIN store,
         \A k \in DOMAIN store : store'[k].st_ino = store[k].st_ino,
         \A d \in Clients : Is(d, "PUT")' => Is(d, "PUT") /\ req'[d] = req[d]
  PROVE  /\ \A j, k \in DOMAIN store' : store'[j].st_ino = store'[k].st_ino => j = k
         /\ \A k \in DOMAIN store' : store'[k].st_ino \in FUSE_ROOT_ID + 1 .. cur_ino'
         /\ \A d \in Clients : Is(d, "PUT")' => req'[d].file.st_ino \in FUSE_ROOT_ID + 1 .. cur_ino'
         /\ \A d, e \in Clients : (Is(d, "PUT") /\ Is(e, "PUT"))' /\ d # e =>
              req'[d].file.st_ino # req'[e].file.st_ino /\ req'[d].key # req'[e].key
         /\ \A d \in Clients : Is(d, "PUT")' /\ req'[d].res # "ok" =>
              \A k \in DOMAIN store' : store'[k].st_ino # req'[d].file.st_ino
         /\ \A d \in Clients : Is(d, "PUT")' /\ req'[d].res = "write" => req'[d].key \notin DOMAIN store'
  BY DEF SameInv, Same

\* A new handle has the file of the answer it was made from.
LEMMA SameEntry ==
  ASSUME SameInv, NEW c \in Clients, LookupCallback(c) \/ MknodCallback(c), ~ UNCHANGED handles
  PROVE  Same'
  <1>1. PICK x \in Handle : /\ handles' = Append(handles, x)
                            /\ x.key = req[c].key /\ x.file = req[c].file
                            /\ Got(c, "GET") \/ Got(c, "PUT")
    BY EntryCallback DEF SameInv, FsInv
  <1>2. req' = [req EXCEPT ![c] = Idle] /\ UNCHANGED <<store, cur_ino>>
    BY EntryCallback DEF SameInv, FsInv
  <1>3. req'[c] = Idle /\ \A d \in Clients : d # c => req'[d] = req[d]
    BY <1>2, ReqStep DEF SameInv, FsInv
  <1>4. PICK g : g = Len(handles) + 1
    OBVIOUS
  <1>5. /\ Nodes' = Nodes \cup {g}
        /\ \A h \in DOMAIN handles : handles'[h] = handles[h]
        /\ handles'[g] = x
    BY <1>1, <1>4, EntryStep DEF SameInv, FsInv
  <1>6. Agrees(store, x.key, x.file)
    BY <1>1 DEF SameInv, Same
  <1>7. \A h \in Nodes : handles'[h] = handles[h] /\ Agrees(store, handles[h].key, handles[h].file)
    BY <1>5 DEF Nodes, SameInv, Same
  <1>8. \A h \in Nodes' : Agrees(store', handles'[h].key, handles'[h].file)
    BY <1>2, <1>5, <1>6, <1>7
  <1>9. \A d \in Clients : d = c => req'[d].op = "IDLE"
    BY <1>3 DEF Idle
  <1>10. \A d \in Clients : (Got(d, "GET") \/ Got(d, "PUT") \/ Is(d, "UPDATE"))' =>
           Agrees(store', req'[d].key, req'[d].file)
    BY <1>2, <1>3, <1>9 DEF SameInv, Same, Got, Is
  <1>11. \A d \in Clients : Is(d, "PUT")' => Is(d, "PUT") /\ req'[d] = req[d]
    BY <1>3, <1>9 DEF Is
  <1> QED
    BY <1>2, <1>8, <1>10, <1>11, SameInos DEF Same

\* A write changes sizes only.
LEMMA SameWriteBuf ==
  ASSUME SameInv, NEW c \in Clients, NEW h \in DOMAIN handles, NEW end \in Ends, WriteBuf(c, h, end)
  PROVE  Same'
  <1>1. Typed /\ Known
    BY DEF SameInv, FsInv
  <1>2. CASE end > handles[h].file.st_size
    <2>1. PICK r : r = UpdateOf(h, end)
      OBVIOUS
    <2>2. r.op = "UPDATE" /\ r.key = handles[h].key
      BY <2>1 DEF UpdateOf
    <2>3. /\ Nodes' = Nodes
          /\ \A g \in DOMAIN handles : handles'[g].key = handles[g].key
                                       /\ handles'[g].file.st_ino = handles[g].file.st_ino
                                       /\ handles'[g].file.dir = handles[g].file.dir
          /\ req' = [req EXCEPT ![c] = r]
          /\ r.file.st_ino = handles[h].file.st_ino
          /\ r.file.dir = handles[h].file.dir
          /\ UNCHANGED <<store, cur_ino>>
      BY <1>1, <1>2, <2>1, GrowStep
    <2>4. req'[c] = r /\ \A d \in Clients : d # c => req'[d] = req[d]
      BY <1>1, <2>3, ReqStep
    <2>5. h \in Nodes /\ \A g \in Nodes : g \in DOMAIN handles
      BY <1>1, WriteBufNode DEF Nodes
    <2>6. \A g \in Nodes : Agrees(store, handles[g].key, handles[g].file)
      BY DEF SameInv, Same
    <2>7. \A g \in Nodes' : Agrees(store', handles'[g].key, handles'[g].file)
      BY <2>3, <2>5, <2>6 DEF Agrees
    <2>8. Agrees(store, r.key, r.file)
      BY <2>2, <2>3, <2>5, <2>6 DEF Agrees
    <2>9. \A d \in Clients : (Got(d, "GET") \/ Got(d, "PUT") \/ Is(d, "UPDATE"))' =>
            Agrees(store', req'[d].key, req'[d].file)
      BY <2>3, <2>4, <2>8 DEF SameInv, Same, Got, Is
    <2>10. \A d \in Clients : Is(d, "PUT")' => Is(d, "PUT") /\ req'[d] = req[d]
      BY <2>2, <2>4 DEF Is
    <2> QED
      BY <2>3, <2>7, <2>9, <2>10, SameInos DEF Same
  <1>3. CASE ~ (end > handles[h].file.st_size)
    <2>1. UNCHANGED <<cur_ino, store, handles, req>>
      BY <1>1, <1>3, NoGrowStep
    <2> QED
      BY <2>1 DEF SameInv, Same, Nodes, Got, Is
  <1> QED
    BY <1>2, <1>3

\* An UPDATE stores a file that differs from the one there in its size only.
LEMMA SameUpdate ==
  ASSUME SameInv, NEW c \in Clients, DBUpdate(c)
  PROVE  Same'
  <1>1. PICK r : /\ req' = [req EXCEPT ![c] = r]
                 /\ r.op = "UPDATE" /\ r.key = req[c].key /\ r.file = req[c].file
                 /\ r.res # "ok" => store' = store
                 /\ r.res = "ok" => r.key \in DOMAIN store /\ store' = [store EXCEPT ![r.key] = r.file]
    BY DBUpdateStep DEF SameInv, FsInv
  <1>2. Is(c, "UPDATE") /\ UNCHANGED <<handles, cur_ino>>
    BY DBUpdateStep DEF SameInv, FsInv
  <1>3. req'[c] = r /\ \A d \in Clients : d # c => req'[d] = req[d]
    BY <1>1, ReqStep DEF SameInv, FsInv
  <1>4. Agrees(store, r.key, r.file)
    BY <1>1, <1>2 DEF SameInv, Same
  <1>5. /\ DOMAIN store' = DOMAIN store
        /\ \A k \in DOMAIN store : store'[k].st_ino = store[k].st_ino /\ store'[k].dir = store[k].dir
    BY <1>1, <1>4 DEF Agrees
  <1>6. \A k \in DOMAIN store : \A f : Agrees(store', k, f) <=> Agrees(store, k, f)
    BY <1>5 DEF Agrees
  <1>7. /\ Nodes' = Nodes
        /\ \A h \in Nodes : handles[h].key \in DOMAIN store /\ Agrees(store, handles[h].key, handles[h].file)
    BY <1>2 DEF Nodes, SameInv, Same, FsInv, Known
  <1>8. \A h \in Nodes' : Agrees(store', handles'[h].key, handles'[h].file)
    BY <1>2, <1>6, <1>7
  <1>9. \A d \in Clients : Got(d, "GET") \/ Got(d, "PUT") \/ Is(d, "UPDATE") =>
          req[d].key \in DOMAIN store /\ Agrees(store, req[d].key, req[d].file)
    BY <1>7 DEF SameInv, Same, FsInv, Known
  <1>10. \A d \in Clients : (Got(d, "GET") \/ Got(d, "PUT") \/ Is(d, "UPDATE"))' =>
           /\ Got(d, "GET") \/ Got(d, "PUT") \/ Is(d, "UPDATE")
           /\ req'[d].key = req[d].key /\ req'[d].file = req[d].file
    BY <1>1, <1>2, <1>3 DEF Got, Is
  <1>11. \A d \in Clients : (Got(d, "GET") \/ Got(d, "PUT") \/ Is(d, "UPDATE"))' =>
           Agrees(store', req'[d].key, req'[d].file)
    BY <1>6, <1>9, <1>10
  <1>12. \A d \in Clients : Is(d, "PUT")' => Is(d, "PUT") /\ req'[d] = req[d]
    BY <1>1, <1>3 DEF Is
  <1> QED
    BY <1>2, <1>5, <1>8, <1>11, <1>12, SameInos DEF Same

\* Every step keeps names and files together.
LEMMA SameStep ==
  ASSUME SameInv, ~ CreateRaces, NEW c \in Clients, Call(c) \/ Serve(c) \/ Callback(c)
  PROVE  Same'
  <1> Typed
    BY DEF SameInv, FsInv
  <1>0. Idle.op = "IDLE"
    BY DEF Idle
  <1>1. ASSUME NEW h \in DOMAIN handles, NEW n \in Names, Lookup(c, h, n)
        PROVE  Same'
    <2>1. PICK r : req' = [req EXCEPT ![c] = r] /\ UNCHANGED <<cur_ino, store, handles>> /\ r.op = "GET" /\ r.res = "none"
      BY <1>1, LookupStep
    <2> QED
      BY <2>1, SameQuiet
  <1>2. ASSUME NEW h \in DOMAIN handles, OpenDir(c, h)
        PROVE  Same'
    BY <1>2 DEF OpenDir, SameInv, Same, Nodes, Got, Is
  <1>3. CASE ReadDir(c)
    <2>1. PICK r : req' = [req EXCEPT ![c] = r] /\ UNCHANGED <<cur_ino, store, handles>> /\ r.op = "SCAN"
      BY <1>3, ReadDirStep DEF Scan
    <2> QED
      BY <2>1, SameQuiet
  <1>4. CASE DBGet(c)
    <2>1. PICK r : req' = [req EXCEPT ![c] = r] /\ UNCHANGED <<cur_ino, store, handles>>
                   /\ r.op = "GET" /\ (r.res = "ok" => r.file = store[r.key])
      BY <1>4, DBGetStep
    <2>2. r.res = "ok" => Agrees(store, r.key, r.file)
      BY <2>1 DEF Agrees
    <2> QED
      BY <2>1, <2>2, SameQuiet
  <1>5. CASE DBPut(c)
    <2>1. PICK r : /\ req' = [req EXCEPT ![c] = r] /\ UNCHANGED <<cur_ino, store, handles>>
                   /\ Is(c, "PUT") /\ req[c].res = "none"
                   /\ r.op = "PUT" /\ r.key = req[c].key /\ r.file = req[c].file
                   /\ r.res \in {"EEXIST", "write"}
                   /\ r.res = "write" => r.key \notin DOMAIN store
      BY <1>5, DBPutStep
    <2> QED
      BY <2>1, SameQuiet
  <1>6. CASE DBScan(c)
    <2>1. PICK r : req' = [req EXCEPT ![c] = r] /\ UNCHANGED <<cur_ino, store, handles>> /\ r.op = "SCAN"
      BY <1>6, DBScanStep DEF Scan
    <2> QED
      BY <2>1, SameQuiet
  <1>7. CASE LookupCallback(c) \/ MknodCallback(c)
    <2>1. CASE UNCHANGED handles
      <3>1. req' = [req EXCEPT ![c] = Idle] /\ UNCHANGED <<cur_ino, store>>
        BY <1>7, EntryCallback
      <3> QED
        BY <1>0, <2>1, <3>1, SameQuiet
    <2> QED
      BY <1>7, <2>1, SameEntry
  <1>8. CASE WriteCallback(c) \/ ReadDirCallback(c)
    <2>1. req' = [req EXCEPT ![c] = Idle] /\ UNCHANGED <<cur_ino, store, handles>>
      BY <1>8 DEF WriteCallback, ReadDirCallback
    <2> QED
      BY <1>0, <2>1, SameQuiet
  <1> QED
    BY <1>1, <1>2, <1>3, <1>4, <1>5, <1>6, <1>7, <1>8, SameCreate, SamePut, SameWriteBuf, SameUpdate
       DEF Call, Mknod, Mkdir, Serve, Callback

\* SameInv: if no two creations of a name are under way together, a file on its way
\* through a request is the one the DB has under its key or the only one there will
\* be, between the calls of KTableFS, the DB's answers and the callbacks.
THEOREM SameInvariant ==
  ASSUME ~ CreateRaces
  PROVE  Spec => []SameInv
  <1>1. Init => SameInv
    <2> SUFFICES ASSUME Init PROVE SameInv
      OBVIOUS
    <2>1. Nodes = {} /\ \A c \in Clients : req[c] = Idle
      BY DEF Init, Nodes
    <2>2. \A c \in Clients : req[c].op = "IDLE"
      BY <2>1 DEF Idle
    <2>3. DOMAIN store = {}
      BY DEF Init
    <2> QED
      BY <2>1, <2>2, <2>3, FsInit DEF SameInv, Same, Got, Is
  <1>2. SameInv /\ [Next]_vars => SameInv'
    <2> SUFFICES ASSUME SameInv, [Next]_vars PROVE SameInv'
      OBVIOUS
    <2>1. FsInv'
      BY FsNext DEF SameInv
    <2>2. ASSUME NEW c \in Clients, Call(c) \/ Serve(c) \/ Callback(c)
          PROVE  Same'
      BY <2>2, SameStep
    <2>3. UNCHANGED vars => Same'
      BY DEF vars, SameInv, Same, Nodes, Got, Is
    <2>4. Same'
      BY <2>2, <2>3 DEF Next
    <2> QED
      BY <2>1, <2>4 DEF SameInv
  <1> QED
    BY <1>1, <1>2, PTL DEF Spec

\* A name means one file for ever as long as no two creations of it are under way
\* together: every handle of it has the inode number the DB keeps under it, which no
\* other name has or will get, for any number of threads, names and handles.
THEOREM NamesKeepIdentity ==
  ASSUME ~ CreateRaces
  PROVE  Spec => []Identity
  <1>1. SameInv => Identity
    BY DEF SameInv, Same, Agrees, Identity, Nodes
  <1> QED
    BY <1>1, SameInvariant, PTL

-----------------------------------------------------------------------------
(* The order of keys *)

\* a comes before b because of position i: there a ends or has the smaller byte.
Before(a, b, i) ==
  /\ i \in 1 .. Len(b) /\ i <= Len(a) + 1
  /\ \A j \in 1 .. i - 1 : a[j] = b[j]
  /\ i <= Len(a) => a[i] < b[i]

\* That is what SliceLess says.
LEMMA LessIsBefore ==
  ASSUME NEW a \in Seq(Nat), NEW b \in Seq(Nat)
  PROVE  SliceLess(a, b) <=> \E i \in Nat : Before(a, b, i)
  <1> DEFINE diff == {i \in DOMAIN a \cap DOMAIN b : a[i] # b[i]}
  <1>1. /\ Len(a) \in Nat /\ DOMAIN a = 1 .. Len(a) /\ \A i \in 1 .. Len(a) : a[i] \in Nat
        /\ Len(b) \in Nat /\ DOMAIN b = 1 .. Len(b) /\ \A i \in 1 .. Len(b) : b[i] \in Nat
    OBVIOUS
  <1>2. \A i : i \in diff <=> i \in 1 .. Len(a) /\ i \in 1 .. Len(b) /\ a[i] # b[i]
    BY <1>1
  <1>3. SliceLess(a, b) <=> IF diff = {} THEN Len(a) < Len(b) ELSE a[Min(diff)] < b[Min(diff)]
    BY DEF SliceLess
  <1>4. diff # {} => Min(diff) \in diff /\ \A n \in diff : Min(diff) <= n
    <2>1. diff \in SUBSET Nat
      BY <1>2
    <2> HIDE DEF diff
    <2> QED
      BY <2>1, MinIsIn
  <1> HIDE DEF diff
  <1>5. CASE diff = {}
    <2>1. \A i \in 1 .. Len(a) : i \in 1 .. Len(b) => a[i] = b[i]
      BY <1>2, <1>5
    <2>2. Len(a) < Len(b) => Before(a, b, Len(a) + 1)
      BY <1>1, <2>1 DEF Before
    <2>3. ASSUME NEW i \in Nat, Before(a, b, i) PROVE Len(a) < Len(b)
      BY <1>1, <2>1, <2>3 DEF Before
    <2> QED
      BY <1>1, <1>3, <1>5, <2>2, <2>3
  <1>6. CASE diff # {}
    <2>1. PICK m : m = Min(diff)
      OBVIOUS
    <2>2. /\ m \in 1 .. Len(a) /\ m \in 1 .. Len(b) /\ a[m] # b[m]
          /\ \A n \in 1 .. Len(a) : n \in 1 .. Len(b) /\ a[n] # b[n] => m <= n
      BY <1>2, <1>4, <1>6, <2>1
    <2>3. \A n \in 1 .. m - 1 : a[n] = b[n]
      BY <1>1, <2>2
    <2>4. a[m] < b[m] => Before(a, b, m)
      BY <1>1, <2>2, <2>3 DEF Before
    <2>5. ASSUME NEW i \in Nat, Before(a, b, i) PROVE a[m] < b[m]
      <3>1. CASE i > m
        BY <1>1, <2>2, <2>5, <3>1 DEF Before
      <3>2. CASE i < m
        BY <1>1, <2>2, <2>3, <2>5, <3>2 DEF Before
      <3>3. CASE i = m
        BY <1>1, <2>2, <2>5, <3>3 DEF Before
      <3> QED
        BY <1>1, <2>2, <3>1, <3>2, <3>3
    <2> QED
      BY <1>1, <1>3, <1>6, <2>1, <2>2, <2>4, <2>5
  <1> QED
    BY <1>5, <1>6

\* The order of slices is a strict total order.
LEMMA LessTransitive ==
  ASSUME NEW a \in Seq(Nat), NEW b \in Seq(Nat), NEW c \in Seq(Nat), SliceLess(a, b), SliceLess(b, c)
  PROVE  SliceLess(a, c)
  <1>1. PICK i \in Nat : Before(a, b, i)
    BY LessIsBefore
  <1>2. PICK j \in Nat : Before(b, c, j)
    BY LessIsBefore
  <1>3. /\ Len(a) \in Nat /\ \A k \in 1 .. Len(a) : a[k] \in Nat
        /\ Len(b) \in Nat /\ \A k \in 1 .. Len(b) : b[k] \in Nat
        /\ Len(c) \in Nat /\ \A k \in 1 .. Len(c) : c[k] \in Nat
    OBVIOUS
  <1>4. CASE i < j
    <2>1. Before(a, c, i)
      BY <1>1, <1>2, <1>3, <1>4 DEF Before
    <2> QED
      BY <2>1, LessIsBefore
  <1>5. CASE i = j
    <2>1. Before(a, c, i)
      BY <1>1, <1>2, <1>3, <1>5 DEF Before
    <2> QED
      BY <2>1, LessIsBefore
  <1>6. CASE j < i
    <2>1. j \in 1 .. Len(c) /\ j \in 1 .. Len(a) /\ j \in 1 .. Len(b)
      BY <1>1, <1>2, <1>3, <1>6 DEF Before
    <2>2. a[j] = b[j] /\ b[j] < c[j] /\ a[j] < c[j]
      BY <1>1, <1>2, <1>3, <1>6, <2>1 DEF Before
    <2>3. \A k \in 1 .. j - 1 : k \in 1 .. i - 1
      BY <1>6
    <2>4. \A k \in 1 .. j - 1 : a[k] = b[k] /\ b[k] = c[k]
      BY <1>1, <1>2, <2>3 DEF Before
    <2>5. Before(a, c, j)
      BY <1>3, <2>1, <2>2, <2>4 DEF Before
    <2> QED
      BY <2>5, LessIsBefore
  <1> QED
    BY <1>4, <1>5, <1>6

\* No slice comes before one that comes before it, itself included.
LEMMA LessAsymmetric ==
  ASSUME NEW a \in Seq(Nat), NEW b \in Seq(Nat), SliceLess(a, b)
  PROVE  ~ SliceLess(b, a)
  <1> SUFFICES ASSUME SliceLess(b, a) PROVE FALSE
    OBVIOUS
  <1>1. PICK i \in Nat : Before(a, b, i)
    BY LessIsBefore
  <1>2. PICK j \in Nat : Before(b, a, j)
    BY LessIsBefore
  <1>3. /\ Len(a) \in Nat /\ \A k \in 1 .. Len(a) : a[k] \in Nat
        /\ Len(b) \in Nat /\ \A k \in 1 .. Len(b) : b[k] \in Nat
    OBVIOUS
  <1>4. CASE i < j
    BY <1>1, <1>2, <1>3, <1>4 DEF Before
  <1>5. CASE i = j
    BY <1>1, <1>2, <1>3, <1>5 DEF Before
  <1>6. CASE j < i
    BY <1>1, <1>2, <1>3, <1>6 DEF Before
  <1> QED
    BY <1>4, <1>5, <1>6

\* Of two different slices one comes first.
LEMMA LessTotal ==
  ASSUME NEW a \in Seq(Nat), NEW b \in Seq(Nat), a # b
  PROVE  SliceLess(a, b) \/ SliceLess(b, a)
  <1>1. /\ Len(a) \in Nat /\ DOMAIN a = 1 .. Len(a) /\ \A i \in 1 .. Len(a) : a[i] \in Nat
        /\ Len(b) \in Nat /\ DOMAIN b = 1 .. Len(b) /\ \A i \in 1 .. Len(b) : b[i] \in Nat
    OBVIOUS
  <1> DEFINE diff == {i \in Nat : i \in 1 .. Len(a) /\ i \in 1 .. Len(b) /\ a[i] # b[i]}
  <1>0. \A i : i \in diff <=> i \in 1 .. Len(a) /\ i \in 1 .. Len(b) /\ a[i] # b[i]
    BY <1>1
  <1>2. CASE diff = {}
    <2>1. \A i \in 1 .. Len(a) : i \in 1 .. Len(b) => a[i] = b[i]
      BY <1>0, <1>2
    <2> HIDE DEF diff
    <2>2. CASE Len(a) < Len(b)
      <3>1. Before(a, b, Len(a) + 1)
        BY <1>1, <2>1, <2>2 DEF Before
      <3> QED
        BY <1>1, <3>1, LessIsBefore
    <2>3. CASE Len(b) < Len(a)
      <3>1. Before(b, a, Len(b) + 1)
        BY <1>1, <2>1, <2>3 DEF Before
      <3> QED
        BY <1>1, <3>1, LessIsBefore
    <2>4. Len(a) # Len(b)
      <3> SUFFICES ASSUME Len(a) = Len(b) PROVE FALSE
        OBVIOUS
      <3>1. \A i \in 1 .. Len(a) : a[i] = b[i]
        BY <2>1
      <3> QED
        BY <3>1, SeqEqual
    <2>5. \A m, n \in Nat : m # n => m < n \/ n < m
      OBVIOUS
    <2>6. Len(a) \in Nat /\ Len(b) \in Nat
      OBVIOUS
    <2> QED
      BY <2>2, <2>3, <2>4, <2>5, <2>6, Zenon
  <1>3. CASE diff # {}
    <2>1. PICK m \in diff : \A n \in diff : m <= n
      BY <1>3, LeastNatural
    <2>2. /\ m \in 1 .. Len(a) /\ m \in 1 .. Len(b) /\ a[m] # b[m]
          /\ \A n \in 1 .. m - 1 : a[n] = b[n]
      BY <1>1, <2>1
    <2>3. m \in Nat
      BY <2>1
    <2> HIDE DEF diff
    <2>4. Before(a, b, m) \/ Before(b, a, m)
      BY <1>1, <2>2 DEF Before
    <2> QED
      BY <2>3, <2>4, LessIsBefore
  <1> QED
    BY <1>2, <1>3

-----------------------------------------------------------------------------
(* The keys of a set in order *)

\* The elements of S that come before x, and the place of x in S.
Smaller(S, x) == {y \in S : SliceLess(y, x)}
Place(S, x) == Cardinality(Smaller(S, x)) + 1

\* Every element has a place, and a smaller one has a smaller place.
LEMMA Places ==
  ASSUME NEW S \in SUBSET Seq(Nat), IsFiniteSet(S)
  PROVE  /\ \A x \in S : Place(S, x) \in 1 .. Cardinality(S)
         /\ \A x, y \in S : SliceLess(x, y) => Place(S, x) < Place(S, y)
  <1>1. ASSUME NEW x \in S, NEW T \in SUBSET S, x \notin Smaller(S, x), x \in T, Smaller(S, x) \subseteq T
        PROVE  /\ Cardinality(Smaller(S, x)) \in Nat /\ Cardinality(T) \in Nat
               /\ Cardinality(Smaller(S, x)) < Cardinality(T)
    <2>1. PICK A : A = Smaller(S, x)
      OBVIOUS
    <2>2. IsFiniteSet(T) /\ A \in SUBSET T /\ A # T
      BY <1>1, <2>1, FS_Subset
    <2>3. IsFiniteSet(A) /\ Cardinality(A) <= Cardinality(T) /\ Cardinality(A) # Cardinality(T)
      BY <2>2, FS_Subset
    <2>4. Cardinality(A) \in Nat /\ Cardinality(T) \in Nat
      BY <2>2, <2>3, FS_CardinalityType
    <2> QED
      BY <2>1, <2>3, <2>4
  <1>2. ASSUME NEW x \in S PROVE x \notin Smaller(S, x)
    BY LessAsymmetric DEF Smaller
  <1>3. ASSUME NEW x \in S PROVE Place(S, x) \in 1 .. Cardinality(S)
    <2>1. Smaller(S, x) \subseteq S
      BY DEF Smaller
    <2>2. /\ Cardinality(Smaller(S, x)) \in Nat /\ Cardinality(S) \in Nat
          /\ Cardinality(Smaller(S, x)) < Cardinality(S)
      BY <1>1, <1>2, <2>1
    <2> QED
      BY <2>2 DEF Place
  <1>4. ASSUME NEW x \in S, NEW y \in S, SliceLess(x, y) PROVE Place(S, x) < Place(S, y)
    <2>1. Smaller(S, x) \subseteq Smaller(S, y) /\ x \in Smaller(S, y) /\ Smaller(S, y) \subseteq S
      BY <1>4, LessTransitive DEF Smaller
    <2>2. /\ Cardinality(Smaller(S, x)) \in Nat /\ Cardinality(Smaller(S, y)) \in Nat
          /\ Cardinality(Smaller(S, x)) < Cardinality(Smaller(S, y))
      BY <1>1, <1>2, <2>1
    <2> QED
      BY <2>2 DEF Place
  <1> QED
    BY <1>3, <1>4

\* A finite set of keys can be put in order.
LEMMA OrderExists ==
  ASSUME NEW S \in SUBSET Seq(Nat), IsFiniteSet(S)
  PROVE  \E s \in [1 .. Cardinality(S) -> S] :
           \A i, j \in 1 .. Cardinality(S) : i < j => SliceLess(s[i], s[j])
  <1>1. PICK n : n = Cardinality(S)
    OBVIOUS
  <1>2. n \in Nat /\ IsFiniteSet(1 .. n) /\ Cardinality(1 .. n) = n
    BY <1>1, FS_CardinalityType, FS_Interval
  <1>3. PICK f : f = [x \in S |-> Place(S, x)]
    OBVIOUS
  <1>4. \A x, y \in S : x # y => SliceLess(x, y) \/ SliceLess(y, x)
    BY LessTotal
  <1>5. f \in [S -> 1 .. n] /\ \A x, y \in S : SliceLess(x, y) => f[x] < f[y]
    BY <1>1, <1>3, Places
  <1>6. \A x \in S : f[x] \in Nat
    BY <1>2, <1>5
  <1>7. ASSUME NEW x \in S, NEW y \in S, f[x] < f[y] PROVE SliceLess(x, y)
    <2>1. x # y
      BY <1>6, <1>7
    <2>2. ~ SliceLess(y, x)
      <3>1. SliceLess(y, x) => f[y] < f[x]
        BY <1>5
      <3> QED
        BY <1>6, <1>7, <3>1
    <2> QED
      BY <1>4, <2>1, <2>2
  <1>8. \A x, y \in S : f[x] = f[y] => x = y
    BY <1>4, <1>5, <1>6
  <1>9. f \in Injection(S, 1 .. n)
    BY <1>5, <1>8 DEF Injection, IsInjective
  <1>10. f \in Surjection(S, 1 .. n)
    BY <1>1, <1>2, <1>9, FS_Injection
  <1>11. \A i \in 1 .. n : \E x \in S : f[x] = i
    BY <1>10 DEF Surjection
  <1>12. PICK s : s = [i \in 1 .. n |-> CHOOSE x \in S : f[x] = i]
    OBVIOUS
  <1>13. \A i \in 1 .. n : s[i] \in S /\ f[s[i]] = i
    BY <1>11, <1>12
  <1>14. s \in [1 .. n -> S]
    BY <1>12, <1>13
  <1>15. \A i, j \in 1 .. n : i < j => SliceLess(s[i], s[j])
    BY <1>7, <1>13
  <1> QED
    BY <1>1, <1>14, <1>15

\* IndexOrder lists every key of the set once, in order.
LEMMA IndexOrderLists ==
  ASSUME NEW S \in SUBSET Seq(Nat), IsFiniteSet(S)
  PROVE  /\ IndexOrder(S) \in Seq(S)
         /\ \A x \in S : \E i \in 1 .. Len(IndexOrder(S)) : IndexOrder(S)[i] = x
         /\ \A i, j \in 1 .. Len(IndexOrder(S)) : i < j => SliceLess(IndexOrder(S)[i], IndexOrder(S)[j])
         /\ \A i, j \in 1 .. Len(IndexOrder(S)) : IndexOrder(S)[i] = IndexOrder(S)[j] => i = j
  <1>1. PICK s : s = IndexOrder(S)
    OBVIOUS
  <1>2. PICK n : n = Cardinality(S)
    OBVIOUS
  <1>3. n \in Nat /\ IsFiniteSet(1 .. n) /\ Cardinality(1 .. n) = n
    BY <1>2, FS_CardinalityType, FS_Interval
  <1>4. s \in [1 .. n -> S] /\ \A i, j \in 1 .. n : i < j => SliceLess(s[i], s[j])
    BY <1>1, <1>2, OrderExists, Zenon DEF IndexOrder
  <1>5. \A i, j \in 1 .. n : i < j => s[i] # s[j]
    BY <1>4, LessAsymmetric
  <1>6. \A i, j \in 1 .. n : s[i] = s[j] => i = j
    BY <1>3, <1>5
  <1>7. s \in Injection(1 .. n, S)
    BY <1>4, <1>6 DEF Injection, IsInjective
  <1>8. s \in Surjection(1 .. n, S)
    BY <1>2, <1>3, <1>7, FS_Injection
  <1>9. \A x \in S : \E i \in 1 .. n : s[i] = x
    BY <1>8 DEF Surjection
  <1>10. s \in Seq(S) /\ Len(s) = n
    BY <1>3, <1>4
  <1> QED
    BY <1>1, <1>4, <1>6, <1>9, <1>10

-----------------------------------------------------------------------------
(* The bytes of a directory *)

\* The number the first i bytes of a directory make, and the last of them.
Lead(x, i) == x \div Base ^ (InoBytes - i)
Digit(x, i) == (x \div Base ^ (InoBytes - i)) % Base

\* Dividing twice.
LEMMA DivDiv ==
  ASSUME NEW a \in Nat, NEW b \in Nat \ {0}, NEW c \in Nat \ {0}
  PROVE  (a \div b) \div c = a \div (b * c)
  OBVIOUS

\* Dividing by the same number.
LEMMA DivMonotone ==
  ASSUME NEW a \in Nat, NEW b \in Nat, NEW c \in Nat \ {0}, a <= b
  PROVE  a \div c <= b \div c
  OBVIOUS

\* Quotient and remainder.
LEMMA DivMod ==
  ASSUME NEW a \in Nat, NEW b \in Nat \ {0}
  PROVE  /\ a \div b \in Nat /\ a % b \in 0 .. b - 1 /\ a = (b * (a \div b)) + (a % b)
         /\ a < b => a \div b = 0
  <1>1. a \div b \in Nat /\ a % b \in 0 .. b - 1 /\ a = (b * (a \div b)) + (a % b)
    OBVIOUS
  <1>2. a < b => a \div b = 0
    OBVIOUS
  <1> QED
    BY <1>1, <1>2

\* One byte more.
LEMMA LeadStep ==
  ASSUME NEW x \in Inos
  PROVE  /\ x \in Nat
         /\ Lead(x, 0) = 0 /\ Lead(x, InoBytes) = x
         /\ \A i \in 0 .. InoBytes : Lead(x, i) \in Nat
         /\ \A i \in 1 .. InoBytes :
              /\ Lead(x, i - 1) = Lead(x, i) \div Base
              /\ Digit(x, i) \in 0 .. Base - 1
              /\ Lead(x, i) = (Base * Lead(x, i - 1)) + Digit(x, i)
  <1>1. Base \in Nat \ {0} /\ InoBytes \in Nat \ {0}
    BY FileKeyAssumption
  <1>2. PICK P : P = [i \in 0 .. InoBytes + 1 |-> Base ^ i]
    OBVIOUS
  <1>3. /\ P[0] = 1
        /\ \A i \in 0 .. InoBytes : P[i] \in Nat \ {0} /\ P[i + 1] = Base * P[i]
        /\ \A i \in 0 .. InoBytes : Base ^ i = P[i]
    BY <1>1, <1>2, PowerAssumption
  <1>4. x \in Nat /\ x < P[InoBytes]
    <2>1. x \in 0 .. P[InoBytes] - 1 /\ P[InoBytes] \in Nat
      BY <1>1, <1>3 DEF Inos
    <2> QED
      BY <2>1
  <1>5. \A i \in 0 .. InoBytes : InoBytes - i \in 0 .. InoBytes /\ Lead(x, i) = x \div P[InoBytes - i]
    BY <1>1, <1>3 DEF Lead
  <1>6. \A i \in 0 .. InoBytes : Lead(x, i) \in Nat
    <2> TAKE i \in 0 .. InoBytes
    <2>1. PICK q : q = P[InoBytes - i]
      OBVIOUS
    <2>2. q \in Nat \ {0} /\ Lead(x, i) = x \div q
      BY <1>3, <1>5, <2>1
    <2> QED
      BY <1>4, <2>2, DivMod
  <1>7. Lead(x, 0) = 0
    <2>1. PICK q : q = P[InoBytes]
      OBVIOUS
    <2>2. q \in Nat \ {0} /\ x < q
      BY <1>1, <1>3, <1>4, <2>1
    <2>3. Lead(x, 0) = x \div q
      BY <1>1, <1>5, <2>1
    <2> QED
      BY <1>4, <2>2, <2>3, DivMod
  <1>8. Lead(x, InoBytes) = x
    <2>1. Lead(x, InoBytes) = x \div P[0]
      BY <1>1, <1>5
    <2> QED
      BY <1>3, <1>4, <2>1
  <1>9. ASSUME NEW i \in 1 .. InoBytes PROVE Lead(x, i - 1) = Lead(x, i) \div Base
    <2>1. PICK q : q = P[InoBytes - i]
      OBVIOUS
    <2>2. q \in Nat \ {0} /\ Lead(x, i) = x \div q
      BY <1>1, <1>3, <1>5, <2>1
    <2>3. InoBytes - i \in 0 .. InoBytes /\ InoBytes - (i - 1) = (InoBytes - i) + 1 /\ i - 1 \in 0 .. InoBytes
      BY <1>1
    <2>4. Lead(x, i - 1) = x \div P[(InoBytes - i) + 1]
      BY <1>5, <2>3
    <2>5. Lead(x, i - 1) = x \div (Base * q)
      BY <1>3, <2>1, <2>3, <2>4
    <2>6. Base * q = q * Base
      BY <1>1, <2>2
    <2>7. (x \div q) \div Base = x \div (q * Base)
      BY <1>1, <1>4, <2>2, DivDiv
    <2> QED
      BY <2>2, <2>5, <2>6, <2>7, Zenon
  <1>10. \A i \in 1 .. InoBytes : Digit(x, i) = Lead(x, i) % Base
    BY DEF Digit, Lead
  <1>11. \A i \in 1 .. InoBytes : i \in 0 .. InoBytes
    OBVIOUS
  <1>12. ASSUME NEW i \in 1 .. InoBytes
         PROVE  Digit(x, i) \in 0 .. Base - 1 /\ Lead(x, i) = (Base * Lead(x, i - 1)) + Digit(x, i)
    <2>1. Lead(x, i) \in Nat
      BY <1>6, <1>11
    <2>2. Lead(x, i) % Base \in 0 .. Base - 1
          /\ Lead(x, i) = (Base * (Lead(x, i) \div Base)) + (Lead(x, i) % Base)
      BY <1>1, <2>1, DivMod
    <2> QED
      BY <1>9, <1>10, <2>2
  <1> QED
    BY <1>4, <1>6, <1>7, <1>8, <1>9, <1>12

\* The first byte in which two directories differ is smaller in the smaller one.
LEMMA FirstDigit ==
  ASSUME NEW d \in Inos, NEW e \in Inos, d < e
  PROVE  \E i \in 1 .. InoBytes :
           Digit(d, i) < Digit(e, i) /\ \A j \in 1 .. i - 1 : Digit(d, j) = Digit(e, j)
  <1>1. Base \in Nat \ {0} /\ InoBytes \in Nat \ {0}
    BY FileKeyAssumption
  <1> DEFINE D == {i \in 0 .. InoBytes : Lead(d, i) # Lead(e, i)}
  <1>2. d \in Nat /\ e \in Nat /\ Lead(d, InoBytes) = d /\ Lead(e, InoBytes) = e /\ Lead(d, 0) = Lead(e, 0)
    BY LeadStep
  <1>3. InoBytes \in D /\ D \in SUBSET Nat /\ 0 \notin D
    BY <1>1, <1>2
  <1>4. PICK i \in D : \A n \in D : i <= n
    BY <1>3, LeastNatural
  <1>5. i \in 1 .. InoBytes /\ Lead(d, i) # Lead(e, i)
    BY <1>1, <1>3, <1>4
  <1>6. \A j \in 0 .. i - 1 : Lead(d, j) = Lead(e, j)
    BY <1>1, <1>4, <1>5
  <1> HIDE DEF D
  <1>7. \A j \in 1 .. i - 1 : Digit(d, j) = Digit(e, j)
    <2>1. \A j \in 1 .. i - 1 : Lead(d, j) = Lead(e, j)
      BY <1>5, <1>6
    <2> QED
      BY <2>1 DEF Digit, Lead
  <1>8. Digit(d, i) < Digit(e, i)
    <2>1. PICK q : q = Lead(d, i - 1)
      OBVIOUS
    <2>2. q \in Nat /\ Lead(e, i - 1) = q
      <3>1. i - 1 \in 0 .. InoBytes /\ i - 1 \in 0 .. i - 1
        BY <1>1, <1>5
      <3> QED
        BY <1>6, <2>1, <3>1, LeadStep
    <2>3. Lead(d, i) \in Nat /\ Lead(e, i) \in Nat
      BY <1>5, LeadStep
    <2>4. Lead(d, i) <= Lead(e, i)
      <3>1. PICK p : p = Base ^ (InoBytes - i)
        OBVIOUS
      <3>2. p \in Nat \ {0}
        BY <1>1, <1>5, <3>1, PowerAssumption
      <3>3. Lead(d, i) = d \div p /\ Lead(e, i) = e \div p
        BY <3>1 DEF Lead
      <3>4. d \div p <= e \div p
        BY <1>2, <3>2, DivMonotone
      <3> QED
        BY <1>2, <3>2, <3>3, <3>4
    <2>5. PICK t : t = Base * q
      OBVIOUS
    <2>6. t \in Nat
      BY <1>1, <2>2, <2>5
    <2>7. /\ Lead(d, i) = t + Digit(d, i) /\ Digit(d, i) \in 0 .. Base - 1
          /\ Lead(e, i) = t + Digit(e, i) /\ Digit(e, i) \in 0 .. Base - 1
      BY <1>5, <2>1, <2>2, <2>5, LeadStep
    <2> QED
      BY <1>1, <1>5, <2>3, <2>4, <2>6, <2>7
  <1> QED
    BY <1>5, <1>7, <1>8

\* The bytes of a key.
LEMMA SliceBytes ==
  ASSUME NEW d \in Inos, NEW hash \in [1 .. HashBytes -> Byte], NEW name \in Seq(Byte)
  PROVE  LET k == ToSlice([dir_ino |-> d, hash |-> hash, name |-> name])
         IN  /\ k \in Seq(Nat) /\ Len(k) = InoBytes + HashBytes + Len(name)
             /\ \A i \in 1 .. InoBytes : k[i] = Digit(d, i)
             /\ \A i \in 1 .. HashBytes : k[InoBytes + i] = hash[i]
             /\ \A i \in 1 .. Len(name) : k[InoBytes + HashBytes + i] = name[i]
  <1>1. InoBytes \in Nat /\ HashBytes \in Nat /\ Byte \subseteq Nat
    BY FileKeyAssumption DEF Byte
  <1>2. PICK dg : dg = [i \in 1 .. InoBytes |-> Digit(d, i)]
    OBVIOUS
  <1>3. PICK k : k = ToSlice([dir_ino |-> d, hash |-> hash, name |-> name])
    OBVIOUS
  <1>4. k = (dg \o hash) \o name
    <2>1. dg = [i \in 1 .. InoBytes |-> (d \div Base ^ (InoBytes - i)) % Base]
      BY <1>2 DEF Digit
    <2> QED
      BY <1>3, <2>1 DEF ToSlice
  <1>5. \A i \in 1 .. InoBytes : Digit(d, i) \in Nat
    <2>1. \A i \in 1 .. InoBytes : Digit(d, i) \in Byte
      BY LeadStep DEF Byte
    <2> QED
      BY <1>1, <2>1
  <1>6. dg \in Seq(Nat) /\ Len(dg) = InoBytes /\ \A i \in 1 .. InoBytes : dg[i] = Digit(d, i)
    BY <1>1, <1>2, <1>5
  <1>7. hash \in Seq(Nat) /\ Len(hash) = HashBytes
    <2>1. hash \in Seq(Byte) /\ Len(hash) = HashBytes
      BY <1>1
    <2> QED
      BY <1>1, <2>1, SeqMonotonic
  <1>8. name \in Seq(Nat) /\ Len(name) \in Nat
    <2>1. Len(name) \in Nat
      OBVIOUS
    <2> QED
      BY <1>1, <2>1, SeqMonotonic
  <1>9. PICK p : p = dg \o hash
    OBVIOUS
  <1>10. /\ p \in Seq(Nat) /\ Len(p) = InoBytes + HashBytes
         /\ \A i \in 1 .. InoBytes + HashBytes : p[i] = IF i <= InoBytes THEN dg[i] ELSE hash[i - InoBytes]
    BY <1>6, <1>7, <1>9, ConcatProperties
  <1>11. /\ k \in Seq(Nat) /\ Len(k) = InoBytes + HashBytes + Len(name)
         /\ \A i \in 1 .. InoBytes + HashBytes + Len(name) :
              k[i] = IF i <= InoBytes + HashBytes THEN p[i] ELSE name[i - (InoBytes + HashBytes)]
    <2>1. k = p \o name
      BY <1>4, <1>9
    <2>2. /\ k \in Seq(Nat) /\ Len(k) = Len(p) + Len(name)
          /\ \A i \in 1 .. Len(p) + Len(name) : k[i] = IF i <= Len(p) THEN p[i] ELSE name[i - Len(p)]
      BY <1>8, <1>10, <2>1, ConcatProperties
    <2> QED
      BY <1>10, <2>2
  <1>12. \A i \in 1 .. InoBytes : k[i] = Digit(d, i)
    BY <1>1, <1>6, <1>8, <1>10, <1>11
  <1>13. \A i \in 1 .. HashBytes : k[InoBytes + i] = hash[i]
    <2> TAKE i \in 1 .. HashBytes
    <2>1. /\ InoBytes + i \in 1 .. InoBytes + HashBytes
          /\ InoBytes + i \in 1 .. InoBytes + HashBytes + Len(name)
          /\ ~ (InoBytes + i <= InoBytes) /\ InoBytes + i <= InoBytes + HashBytes
          /\ (InoBytes + i) - InoBytes = i
      BY <1>1, <1>8
    <2> QED
      BY <1>10, <1>11, <2>1
  <1>14. \A i \in 1 .. Len(name) : k[InoBytes + HashBytes + i] = name[i]
    BY <1>1, <1>8, <1>10, <1>11
  <1> QED
    BY <1>3, <1>11, <1>12, <1>13, <1>14

\* The key of a name, and the name that is read from it.
LEMMA NameOfKey ==
  ASSUME NEW d \in Inos, NEW n \in Names
  PROVE  ToSlice(FileKey(d, n)) \in Seq(Nat) /\ FromSlice(ToSlice(FileKey(d, n))).name = n
  <1>1. n \in Seq(Byte) /\ NameHash[n] \in [1 .. HashBytes -> Byte]
    BY FileKeyAssumption
  <1>2. InoBytes \in Nat /\ HashBytes \in Nat /\ Len(n) \in Nat
    BY <1>1, FileKeyAssumption
  <1>3. PICK k : k = ToSlice(FileKey(d, n))
    OBVIOUS
  <1>4. /\ k \in Seq(Nat) /\ Len(k) = InoBytes + HashBytes + Len(n)
        /\ \A i \in 1 .. Len(n) : k[InoBytes + HashBytes + i] = n[i]
    BY <1>1, <1>3, SliceBytes DEF FileKey
  <1>5. PICK m : m = InoBytes + HashBytes
    OBVIOUS
  <1>6. m \in Nat /\ Len(k) = m + Len(n) /\ \A i \in 1 .. Len(n) : k[m + i] = n[i]
    <2>1. m \in Nat /\ Len(k) = m + Len(n)
      BY <1>2, <1>4, <1>5
    <2> QED
      BY <1>4, <1>5, <2>1
  <1>7. FromSlice(k).name = SubSeq(k, m + 1, Len(k))
    BY <1>5 DEF FromSlice
  <1>8. PICK s : s = SubSeq(k, m + 1, Len(k))
    OBVIOUS
  <1>9. \A i \in m + 1 .. Len(k) : k[i] \in Nat
    BY <1>2, <1>4, <1>6
  <1>10. /\ s \in Seq(Nat) /\ Len(s) = (IF m + 1 <= Len(k) THEN Len(k) - (m + 1) + 1 ELSE 0)
         /\ \A i \in 1 .. Len(k) - (m + 1) + 1 : s[i] = k[(m + 1) + i - 1]
    BY <1>2, <1>6, <1>8, <1>9, SubSeqProperties
  <1>11. Len(s) = Len(n) /\ \A i \in 1 .. Len(n) : s[i] = n[i]
    BY <1>2, <1>6, <1>10
  <1>12. n \in Seq(Nat)
    <2>1. Byte \subseteq Nat
      BY FileKeyAssumption DEF Byte
    <2> QED
      BY <1>1, <2>1, SeqMonotonic
  <1>13. s = n
    BY <1>10, <1>11, <1>12, SeqEqual
  <1> QED
    BY <1>3, <1>4, <1>7, <1>8, <1>13

\* The bound of a directory.
LEMMA BoundBytes ==
  ASSUME NEW e \in Inos
  PROVE  LET b == ToSlice(DirKey(e))
         IN  /\ b \in Seq(Nat) /\ Len(b) = InoBytes + HashBytes
             /\ \A i \in 1 .. InoBytes : b[i] = Digit(e, i)
             /\ \A i \in 1 .. HashBytes : b[InoBytes + i] = 0
  <1>1. PICK z : z = [i \in 1 .. HashBytes |-> 0]
    OBVIOUS
  <1>2. PICK o : o = <<>>
    OBVIOUS
  <1>3. z \in [1 .. HashBytes -> Byte] /\ \A i \in 1 .. HashBytes : z[i] = 0
    BY <1>1, FileKeyAssumption DEF Byte
  <1>4. o \in Seq(Byte) /\ Len(o) = 0
    BY <1>2
  <1>5. PICK b : b = ToSlice(DirKey(e))
    OBVIOUS
  <1>6. b = ToSlice([dir_ino |-> e, hash |-> z, name |-> o])
    BY <1>1, <1>2, <1>5 DEF DirKey
  <1>7. /\ b \in Seq(Nat) /\ Len(b) = InoBytes + HashBytes + Len(o)
        /\ \A i \in 1 .. InoBytes : b[i] = Digit(e, i)
        /\ \A i \in 1 .. HashBytes : b[InoBytes + i] = z[i]
    BY <1>3, <1>4, <1>6, SliceBytes
  <1>8. Len(b) = InoBytes + HashBytes
    BY <1>4, <1>7, FileKeyAssumption
  <1> QED
    BY <1>3, <1>5, <1>7, <1>8

\* The key of a name comes before the bound of a directory exactly if the name's
\* directory has the smaller number.
LEMMA KeyBeforeBound ==
  ASSUME NEW d \in Inos, NEW e \in Inos, NEW n \in Names
  PROVE  SliceLess(ToSlice(FileKey(d, n)), ToSlice(DirKey(e))) <=> d < e
  <1>1. n \in Seq(Byte) /\ n # <<>> /\ NameHash[n] \in [1 .. HashBytes -> Byte]
    BY FileKeyAssumption
  <1>2. InoBytes \in Nat /\ HashBytes \in Nat /\ Len(n) \in Nat
    BY <1>1, FileKeyAssumption
  <1>3. d \in Nat /\ e \in Nat
    BY LeadStep
  <1>4. PICK k : k = ToSlice(FileKey(d, n))
    OBVIOUS
  <1>5. PICK b : b = ToSlice(DirKey(e))
    OBVIOUS
  <1>6. /\ k \in Seq(Nat) /\ Len(k) = InoBytes + HashBytes + Len(n)
        /\ \A i \in 1 .. InoBytes : k[i] = Digit(d, i)
    BY <1>1, <1>4, SliceBytes DEF FileKey
  <1>7. /\ b \in Seq(Nat) /\ Len(b) = InoBytes + HashBytes
        /\ \A i \in 1 .. InoBytes : b[i] = Digit(e, i)
        /\ \A i \in 1 .. HashBytes : b[InoBytes + i] = 0
    BY <1>5, BoundBytes
  <1>8. CASE d < e
    <2>1. PICK i \in 1 .. InoBytes :
            Digit(d, i) < Digit(e, i) /\ \A j \in 1 .. i - 1 : Digit(d, j) = Digit(e, j)
      BY <1>8, FirstDigit
    <2>2. \A j \in 1 .. i - 1 : k[j] = b[j]
      <3>1. \A j \in 1 .. i - 1 : j \in 1 .. InoBytes
        BY <1>2
      <3> QED
        BY <1>6, <1>7, <2>1, <3>1
    <2>3. k[i] < b[i]
      BY <1>6, <1>7, <2>1
    <2>4. i \in 1 .. Len(b) /\ i <= Len(k) + 1 /\ i \in Nat
      BY <1>2, <1>6, <1>7
    <2>5. Before(k, b, i)
      BY <2>2, <2>3, <2>4 DEF Before
    <2> QED
      BY <1>4, <1>5, <1>6, <1>7, <1>8, <2>4, <2>5, LessIsBefore
  <1>9. CASE e < d
    <2>1. PICK i \in 1 .. InoBytes :
            Digit(e, i) < Digit(d, i) /\ \A j \in 1 .. i - 1 : Digit(e, j) = Digit(d, j)
      BY <1>9, FirstDigit
    <2>2. \A j \in 1 .. i - 1 : b[j] = k[j]
      <3>1. \A j \in 1 .. i - 1 : j \in 1 .. InoBytes
        BY <1>2
      <3> QED
        BY <1>6, <1>7, <2>1, <3>1
    <2>3. b[i] < k[i]
      BY <1>6, <1>7, <2>1
    <2>4. i \in 1 .. Len(k) /\ i <= Len(b) + 1 /\ i \in Nat
      BY <1>2, <1>6, <1>7
    <2>5. Before(b, k, i)
      BY <2>2, <2>3, <2>4 DEF Before
    <2>6. SliceLess(b, k)
      BY <1>6, <1>7, <2>4, <2>5, LessIsBefore
    <2>7. ~ SliceLess(k, b)
      BY <1>6, <1>7, <2>6, LessAsymmetric
    <2> QED
      BY <1>3, <1>4, <1>5, <1>9, <2>7
  <1>10. CASE d = e
    <2>1. ASSUME NEW i \in Nat, Before(k, b, i) PROVE FALSE
      <3>1. i \in 1 .. InoBytes + HashBytes /\ i <= Len(k)
        BY <1>2, <1>6, <1>7, <2>1 DEF Before
      <3>2. k[i] < b[i]
        BY <2>1, <3>1 DEF Before
      <3>3. CASE i <= InoBytes
        <4>1. i \in 1 .. InoBytes
          BY <1>2, <3>1, <3>3
        <4>2. k[i] = b[i] /\ k[i] \in Nat
          BY <1>6, <1>7, <1>10, <3>1, <4>1
        <4> QED
          BY <3>2, <4>2
      <3>4. CASE ~ (i <= InoBytes)
        <4>1. i - InoBytes \in 1 .. HashBytes /\ InoBytes + (i - InoBytes) = i
          BY <1>2, <3>1, <3>4
        <4>2. b[i] = 0
          BY <1>7, <4>1
        <4>3. k[i] \in Nat
          BY <1>2, <1>6, <3>1
        <4> QED
          BY <3>2, <4>2, <4>3
      <3> QED
        BY <3>3, <3>4
    <2>2. ~ SliceLess(k, b)
      BY <1>6, <1>7, <2>1, LessIsBefore
    <2> QED
      BY <1>3, <1>4, <1>5, <1>10, <2>2
  <1> QED
    BY <1>3, <1>8, <1>9, <1>10

\* The range a SCAN of a directory asks for holds the keys of that directory's names
\* and no key of another one.
THEOREM DirectoryRange ==
  ASSUME NEW d \in Inos, NEW e \in Inos, e + 1 \in Inos, NEW n \in Names
  PROVE  /\ ~ SliceLess(ToSlice(FileKey(d, n)), ToSlice(DirKey(e)))
         /\ SliceLess(ToSlice(FileKey(d, n)), ToSlice(DirKey(e + 1)))
         <=> d = e
  <1>1. d \in Nat /\ e \in Nat
    BY LeadStep
  <1>2. ~ SliceLess(ToSlice(FileKey(d, n)), ToSlice(DirKey(e))) <=> ~ (d < e)
    BY KeyBeforeBound
  <1>3. PICK f : f = e + 1
    OBVIOUS
  <1>4. SliceLess(ToSlice(FileKey(d, n)), ToSlice(DirKey(f))) <=> d < f
    BY <1>3, KeyBeforeBound
  <1>5. ~ (d < e) /\ d < f <=> d = e
    BY <1>1, <1>3
  <1> QED
    BY <1>2, <1>3, <1>4, <1>5

-----------------------------------------------------------------------------
(* Reading directories *)

\* Directories and the bounds of their ranges fit into an inode number.
LEMMA InosOf ==
  /\ \A d \in FUSE_ROOT_ID .. MaxIno : d \in Inos /\ d + 1 \in Inos
  /\ Keys \subseteq Seq(Nat)
  <1>1. PICK top : top = Base ^ InoBytes
    OBVIOUS
  <1>2. top \in Nat
    BY <1>1, PowerAssumption, FileKeyAssumption
  <1>3. MaxIno \in 1 .. top - 2 /\ FUSE_ROOT_ID = 1 /\ Inos = 0 .. top - 1
    BY <1>1, KTableFSAssumption DEF FUSE_ROOT_ID, Inos
  <1>4. \A d \in FUSE_ROOT_ID .. MaxIno : d \in Inos /\ d + 1 \in Inos
    BY <1>2, <1>3
  <1> QED
    BY <1>4, NameOfKey DEF Keys

\* The keys worker w hands to a SCAN of the directory of handle h.
ScanSet(h, w) ==
  {k \in DOMAIN store : /\ SplitFunc[k] = w
                        /\ ~ SliceLess(k, ToSlice(DirKey(handles[h].file.st_ino)))
                        /\ SliceLess(k, ToSlice(DirKey(handles[h].file.st_ino + 1)))}

\* The names of the directory that live with this worker.
NamesAt(h, w) == {n \in NamesIn(h) : SplitFunc[KeyOf(h, n)] = w}

\* A directory has finitely many names, as different names have different keys.
LEMMA FiniteNames ==
  ASSUME NEW e \in Inos, NEW D, IsFiniteSet(D)
  PROVE  IsFiniteSet({n \in Names : ToSlice(FileKey(e, n)) \in D})
  <1>1. PICK N : N = {n \in Names : ToSlice(FileKey(e, n)) \in D}
    OBVIOUS
  <1>2. PICK f : f = [n \in N |-> ToSlice(FileKey(e, n))]
    OBVIOUS
  <1>3. \A n \in N : FromSlice(f[n]).name = n
    BY <1>1, <1>2, NameOfKey
  <1>4. f \in [N -> D]
    BY <1>1, <1>2
  <1>5. \A m, n \in N : f[m] = f[n] => m = n
    BY <1>3
  <1>6. f \in Injection(N, D)
    BY <1>4, <1>5 DEF Injection, IsInjective
  <1> QED
    BY <1>1, <1>6, FS_Injection

\* The keys of a SCAN are those of the directory's names.
LEMMA KeysOfScan ==
  ASSUME ListInv, NEW h \in DOMAIN handles, NEW w
  PROVE  /\ ScanSet(h, w) \in SUBSET Seq(Nat) /\ IsFiniteSet(ScanSet(h, w))
         /\ \A k \in ScanSet(h, w) : FromSlice(k).name \in NamesAt(h, w) /\ KeyOf(h, FromSlice(k).name) = k
         /\ \A n \in NamesAt(h, w) : KeyOf(h, n) \in ScanSet(h, w)
         /\ IsFiniteSet(NamesIn(h))
  <1> DEFINE K == ScanSet(h, w)
  <1> DEFINE lo == ToSlice(DirKey(handles[h].file.st_ino))
  <1> DEFINE hi == ToSlice(DirKey(handles[h].file.st_ino + 1))
  <1>0. \A k : k \in K <=> k \in DOMAIN store /\ SplitFunc[k] = w /\ ~ SliceLess(k, lo) /\ SliceLess(k, hi)
    BY DEF ScanSet
  <1> HIDE DEF K
  <1>1. Typed /\ IsFiniteSet(DOMAIN store) /\ DOMAIN store \subseteq Keys
    BY DEF ListInv, FsInv, Listed, Typed
  <1>2. PICK e : e = handles[h].file.st_ino
    OBVIOUS
  <1>3. e \in Inos /\ e + 1 \in Inos
    BY <1>1, <1>2, HandleType, InosOf
  <1>4. K \in SUBSET DOMAIN store
    BY <1>0
  <1>5. K \in SUBSET Seq(Nat) /\ IsFiniteSet(K)
    BY <1>1, <1>4, InosOf, FS_Subset
  <1>6. ASSUME NEW k \in K PROVE FromSlice(k).name \in NamesAt(h, w) /\ KeyOf(h, FromSlice(k).name) = k
    <2>1. PICK d \in FUSE_ROOT_ID .. MaxIno, n \in Names : k = ToSlice(FileKey(d, n))
      BY <1>1, <1>4 DEF Keys
    <2>2. d \in Inos
      BY InosOf
    <2>3. d = e
      BY <1>0, <1>2, <1>3, <2>1, <2>2, DirectoryRange
    <2>4. FromSlice(k).name = n
      BY <2>1, <2>2, NameOfKey
    <2>5. KeyOf(h, n) = k
      BY <1>2, <2>1, <2>3 DEF KeyOf
    <2> QED
      BY <1>0, <1>4, <2>4, <2>5 DEF NamesIn, NamesAt
  <1>7. ASSUME NEW n \in NamesAt(h, w) PROVE KeyOf(h, n) \in K
    <2>1. n \in Names /\ KeyOf(h, n) \in DOMAIN store /\ KeyOf(h, n) = ToSlice(FileKey(e, n))
      BY <1>2 DEF NamesIn, NamesAt, KeyOf
    <2>2. ~ SliceLess(KeyOf(h, n), lo) /\ SliceLess(KeyOf(h, n), hi)
      BY <1>2, <1>3, <2>1, DirectoryRange
    <2> QED
      BY <1>0, <2>1, <2>2 DEF NamesAt
  <1>8. IsFiniteSet(NamesIn(h))
    <2>1. NamesIn(h) = {n \in Names : ToSlice(FileKey(e, n)) \in DOMAIN store}
      BY <1>2 DEF NamesIn, KeyOf
    <2> QED
      BY <1>1, <1>3, <2>1, FiniteNames
  <1> QED
    BY <1>5, <1>6, <1>7, <1>8 DEF K

\* The workers of names.
LEMMA WorkerOf ==
  ASSUME Typed, NEW h \in DOMAIN handles, NEW n \in Names
  PROVE  /\ SplitFunc[KeyOf(h, n)] \in Nat /\ SplitFunc[KeyOf(h, n)] < WorkerNum /\ WorkerNum \in Nat
         /\ ~ SliceLess(KeyOf(h, n), KeyOf(h, n))
  <1>1. KeyOf(h, n) \in Keys
    BY KeyOfType
  <1>2. SplitFunc[KeyOf(h, n)] \in 0 .. WorkerNum - 1
    BY <1>1, KTableFSAssumption
  <1>3. KeyOf(h, n) \in Seq(Nat)
    BY <1>1, InosOf
  <1> QED
    BY <1>2, <1>3, KTableFSAssumption, LessAsymmetric

\* The i-th key a worker hands to a SCAN is that of the i-th of its names.
LEMMA ScanOrder ==
  ASSUME ListInv, NEW h \in DOMAIN handles, NEW w \in Nat, NEW s, s = IndexOrder(ScanSet(h, w))
  PROVE  /\ s \in Seq(ScanSet(h, w)) /\ Len(s) \in Nat
         /\ \A i \in 1 .. Len(s) : FromSlice(s[i]).name \in NamesAt(h, w)
         /\ Len(s) = Cardinality(NamesAt(h, w))
         /\ \A n \in NamesAt(h, w) : \E i \in 1 .. Len(s) :
              FromSlice(s[i]).name = n /\ Cardinality(UpTo(h, w, n)) = i
  <1>0. PICK K : K = ScanSet(h, w)
    OBVIOUS
  <1>1. /\ K \in SUBSET Seq(Nat) /\ IsFiniteSet(K)
        /\ \A k \in K : FromSlice(k).name \in NamesAt(h, w) /\ KeyOf(h, FromSlice(k).name) = k
        /\ \A n \in NamesAt(h, w) : KeyOf(h, n) \in K
    BY <1>0, KeysOfScan
  <1>2. /\ s \in Seq(K) /\ \A x \in K : \E i \in 1 .. Len(s) : s[i] = x
        /\ \A i, j \in 1 .. Len(s) : i < j => SliceLess(s[i], s[j])
        /\ \A i, j \in 1 .. Len(s) : s[i] = s[j] => i = j
    BY <1>0, <1>1, IndexOrderLists, Zenon
  <1>3. PICK l : l = Len(s)
    OBVIOUS
  <1>4. l \in Nat /\ \A i \in 1 .. l : s[i] \in K
    BY <1>2, <1>3
  <1>5. PICK t : t = [i \in 1 .. l |-> FromSlice(s[i]).name]
    OBVIOUS
  <1>6. \A i \in 1 .. l : t[i] = FromSlice(s[i]).name /\ t[i] \in NamesAt(h, w) /\ KeyOf(h, t[i]) = s[i]
    BY <1>1, <1>4, <1>5
  <1>7. \A i, j \in 1 .. l : t[i] = t[j] => i = j
    BY <1>2, <1>3, <1>6
  <1>8. \A n \in NamesAt(h, w) : \E i \in 1 .. l : t[i] = n
    <2> SUFFICES ASSUME NEW n \in NamesAt(h, w) PROVE \E i \in 1 .. l : t[i] = n
      OBVIOUS
    <2>1. PICK i \in 1 .. l : s[i] = KeyOf(h, n)
      BY <1>1, <1>2, <1>3
    <2>2. n \in Names /\ handles[h].file.st_ino \in Inos
      BY HandleType, InosOf DEF NamesAt, NamesIn, ListInv, FsInv
    <2>3. FromSlice(KeyOf(h, n)).name = n
      BY <2>2, NameOfKey DEF KeyOf
    <2> QED
      BY <1>6, <2>1, <2>3
  <1>9. ASSUME NEW i \in 0 .. l, NEW T, \A m : m \in T <=> \E j \in 1 .. i : t[j] = m
        PROVE  IsFiniteSet(T) /\ Cardinality(T) = i
    <2>1. PICK f : f = [j \in 1 .. i |-> t[j]]
      OBVIOUS
    <2>2. i \in Nat /\ \A j \in 1 .. i : j \in 1 .. l
      BY <1>4
    <2>3. f \in [1 .. i -> T]
      BY <1>9, <2>1
    <2>4. f \in Injection(1 .. i, T)
      BY <1>7, <2>1, <2>2, <2>3 DEF Injection, IsInjective
    <2>5. f \in Surjection(1 .. i, T)
      BY <1>9, <2>1, <2>3 DEF Surjection
    <2>6. IsFiniteSet(1 .. i) /\ Cardinality(1 .. i) = i
      BY <2>2, FS_Interval
    <2>7. f \in Bijection(1 .. i, T)
      BY <2>4, <2>5 DEF Bijection
    <2> QED
      BY <2>6, <2>7, FS_Bijection DEF ExistsBijection
  <1>10. l = Cardinality(NamesAt(h, w))
    <2>1. \A m : m \in NamesAt(h, w) <=> \E j \in 1 .. l : t[j] = m
      BY <1>6, <1>8
    <2>2. l \in 0 .. l
      BY <1>4
    <2> QED
      BY <1>9, <2>1, <2>2
  <1>11. ASSUME NEW i \in 1 .. l PROVE Cardinality(UpTo(h, w, t[i])) = i
    <2>1. \A j \in 1 .. l : ~ SliceLess(s[i], s[j]) <=> j <= i
      <3> SUFFICES ASSUME NEW j \in 1 .. l PROVE ~ SliceLess(s[i], s[j]) <=> j <= i
        OBVIOUS
      <3>1. s[i] \in Seq(Nat) /\ s[j] \in Seq(Nat) /\ i \in Nat /\ j \in Nat
        BY <1>1, <1>4
      <3>2. i < j => SliceLess(s[i], s[j])
        BY <1>2, <1>3
      <3>3. j < i => SliceLess(s[j], s[i])
        BY <1>2, <1>3
      <3>4. SliceLess(s[j], s[i]) => ~ SliceLess(s[i], s[j])
        BY <3>1, LessAsymmetric
      <3>5. ~ SliceLess(s[i], s[i])
        BY <3>1, LessAsymmetric
      <3>6. i < j \/ i = j \/ j < i
        BY <3>1
      <3>7. CASE i < j
        BY <3>1, <3>2, <3>7
      <3>8. CASE i = j
        BY <3>1, <3>5, <3>8
      <3>9. CASE j < i
        BY <3>1, <3>3, <3>4, <3>9
      <3> QED
        BY <3>6, <3>7, <3>8, <3>9
    <2>2. ASSUME NEW m PROVE m \in UpTo(h, w, t[i]) <=> \E j \in 1 .. i : t[j] = m
      <3>1. ASSUME NEW j \in 1 .. i, t[j] = m PROVE m \in UpTo(h, w, t[i])
        <4>1. j \in 1 .. l /\ j <= i
          BY <1>4
        <4>2. m \in NamesIn(h) /\ KeyOf(h, m) = s[j] /\ SplitFunc[s[j]] = w
          BY <1>6, <3>1, <4>1 DEF NamesAt
        <4>3. KeyOf(h, t[i]) = s[i] /\ SplitFunc[s[i]] = w
          BY <1>6 DEF NamesAt
        <4>4. ~ SliceLess(s[i], s[j])
          BY <2>1, <4>1
        <4> QED
          BY <4>2, <4>3, <4>4 DEF UpTo
      <3>2. ASSUME m \in UpTo(h, w, t[i]) PROVE \E j \in 1 .. i : t[j] = m
        <4>1. KeyOf(h, t[i]) = s[i] /\ SplitFunc[s[i]] = w
          BY <1>6 DEF NamesAt
        <4>2. /\ m \in NamesIn(h) /\ w <= SplitFunc[KeyOf(h, m)]
              /\ SplitFunc[KeyOf(h, m)] < w \/ (SplitFunc[KeyOf(h, m)] = w /\ ~ SliceLess(s[i], KeyOf(h, m)))
          BY <3>2, <4>1 DEF UpTo
        <4>3. SplitFunc[KeyOf(h, m)] \in Nat
          BY <4>2, WorkerOf DEF ListInv, FsInv, NamesIn
        <4>4. m \in NamesAt(h, w) /\ ~ SliceLess(s[i], KeyOf(h, m))
          BY <4>2, <4>3 DEF NamesAt
        <4>5. PICK j \in 1 .. l : t[j] = m
          BY <1>8, <4>4
        <4>6. j <= i
          BY <1>6, <2>1, <4>4, <4>5
        <4>7. j \in 1 .. i
          BY <1>4, <4>6
        <4> QED
          BY <4>5, <4>7
      <3> QED
        BY <3>1, <3>2
    <2>3. i \in 0 .. l
      BY <1>4
    <2> QED
      BY <1>9, <2>2, <2>3
  <1>12. \A n \in NamesAt(h, w) : \E i \in 1 .. l :
           FromSlice(s[i]).name = n /\ Cardinality(UpTo(h, w, n)) = i
    BY <1>6, <1>8, <1>11
  <1> QED
    BY <1>0, <1>2, <1>3, <1>4, <1>5, <1>6, <1>10, <1>12

\* Where a SCAN meets the names: those of a worker come behind those of the workers
\* before it.
LEMMA Positions ==
  ASSUME ListInv, NEW h \in DOMAIN handles, NEW w \in Nat
  PROVE  /\ Cardinality(Passed(h, w)) \in Nat /\ Cardinality(NamesAt(h, w)) \in Nat
         /\ Cardinality(Passed(h, w + 1)) = Cardinality(Passed(h, w)) + Cardinality(NamesAt(h, w))
         /\ \A n \in Names, v \in Nat : Cardinality(UpTo(h, v, n)) \in Nat
         /\ \A n \in NamesIn(h) : Cardinality(UpTo(h, 0, n)) > 0
         /\ \A n \in NamesIn(h) : w < SplitFunc[KeyOf(h, n)] =>
              Cardinality(UpTo(h, w, n)) = Cardinality(NamesAt(h, w)) + Cardinality(UpTo(h, w + 1, n))
         /\ \A n \in NamesIn(h) : w <= SplitFunc[KeyOf(h, n)] =>
              Cardinality(UpTo(h, 0, n)) = Cardinality(Passed(h, w)) + Cardinality(UpTo(h, w, n))
  <1>1. Typed
    BY DEF ListInv, FsInv
  <1>2. \A n \in NamesIn(h) : n \in Names /\ SplitFunc[KeyOf(h, n)] \in Nat
    BY <1>1, WorkerOf DEF NamesIn
  <1>3. ASSUME NEW T, T \subseteq NamesIn(h) PROVE IsFiniteSet(T) /\ Cardinality(T) \in Nat
    BY <1>3, KeysOfScan, FS_Subset, FS_CardinalityType
  <1>4. ASSUME NEW A, NEW B, NEW C, A \subseteq NamesIn(h), B \subseteq NamesIn(h), C = A \cup B, A \cap B = {}
        PROVE  Cardinality(C) = Cardinality(A) + Cardinality(B)
    <2>1. IsFiniteSet(A) /\ IsFiniteSet(B) /\ Cardinality(A) \in Nat /\ Cardinality(B) \in Nat
      BY <1>3, <1>4
    <2>2. Cardinality(A \cap B) = 0
      BY <1>4, FS_EmptySet
    <2>3. Cardinality(A \cup B) = Cardinality(A) + Cardinality(B) - Cardinality(A \cap B)
      BY <2>1, FS_Union
    <2> QED
      BY <1>4, <2>1, <2>2, <2>3
  <1>5. Passed(h, w) \subseteq NamesIn(h) /\ NamesAt(h, w) \subseteq NamesIn(h)
        /\ \A n, v : UpTo(h, v, n) \subseteq NamesIn(h)
    BY DEF Passed, NamesAt, UpTo
  <1>6. Cardinality(Passed(h, w + 1)) = Cardinality(Passed(h, w)) + Cardinality(NamesAt(h, w))
    <2>1. Passed(h, w + 1) = Passed(h, w) \cup NamesAt(h, w) /\ Passed(h, w) \cap NamesAt(h, w) = {}
      BY <1>2 DEF Passed, NamesAt
    <2> QED
      BY <1>4, <1>5, <2>1
  <1>7. ASSUME NEW n \in NamesIn(h) PROVE Cardinality(UpTo(h, 0, n)) > 0
    <2>1. n \in UpTo(h, 0, n)
      BY <1>1, <1>2, WorkerOf DEF UpTo
    <2>2. PICK T : T = UpTo(h, 0, n)
      OBVIOUS
    <2>3. IsFiniteSet(T) /\ Cardinality(T) \in Nat /\ T # {}
      BY <1>3, <1>5, <2>1, <2>2
    <2>4. Cardinality(T) # 0
      BY <2>3, FS_EmptySet
    <2> QED
      BY <2>2, <2>3, <2>4
  <1>8. ASSUME NEW n \in NamesIn(h), w < SplitFunc[KeyOf(h, n)]
        PROVE  Cardinality(UpTo(h, w, n)) = Cardinality(NamesAt(h, w)) + Cardinality(UpTo(h, w + 1, n))
    <2>1. SplitFunc[KeyOf(h, n)] \in Nat
      BY <1>2
    <2>2. /\ UpTo(h, w, n) = NamesAt(h, w) \cup UpTo(h, w + 1, n)
          /\ NamesAt(h, w) \cap UpTo(h, w + 1, n) = {}
      BY <1>2, <1>8, <2>1 DEF NamesAt, UpTo
    <2> QED
      BY <1>4, <1>5, <2>2
  <1>9. ASSUME NEW n \in NamesIn(h), w <= SplitFunc[KeyOf(h, n)]
        PROVE  Cardinality(UpTo(h, 0, n)) = Cardinality(Passed(h, w)) + Cardinality(UpTo(h, w, n))
    <2>1. SplitFunc[KeyOf(h, n)] \in Nat
      BY <1>2
    <2>2. /\ UpTo(h, 0, n) = Passed(h, w) \cup UpTo(h, w, n)
          /\ Passed(h, w) \cap UpTo(h, w, n) = {}
      BY <1>2, <1>9, <2>1 DEF Passed, UpTo
    <2> QED
      BY <1>4, <1>5, <2>2
  <1> QED
    BY <1>3, <1>5, <1>6, <1>7, <1>8, <1>9

-----------------------------------------------------------------------------
(* The loop of one worker *)

\* The states the loop goes through: a function that meets its own definition.
IsLoop(f, out, off, keys, n) ==
  f = [i \in 0 .. n |-> IF i = 0 THEN out ELSE ReadDirScan(f[i - 1], off, keys[i])]

\* There is such a function: the shortest loop without one cannot exist, as a loop can
\* always be continued by one call.
LEMMA LoopExists ==
  ASSUME NEW out, NEW off, NEW keys, NEW n \in Nat
  PROVE  \E f : IsLoop(f, out, off, keys, n)
  <1> DEFINE Without == {k \in Nat : ~ \E f : IsLoop(f, out, off, keys, k)}
  <1> SUFFICES ASSUME Without # {} PROVE FALSE
    OBVIOUS
  <1>1. PICK k \in Without : \A j \in Without : k <= j
    BY LeastNatural
  <1>2. k # 0
    <2>1. PICK f : f = [i \in 0 .. 0 |-> out]
      OBVIOUS
    <2>2. IsLoop(f, out, off, keys, 0)
      BY <2>1 DEF IsLoop
    <2> QED
      BY <1>1, <2>2
  <1>3. k - 1 \in Nat /\ k - 1 \notin Without
    BY <1>1, <1>2
  <1>4. PICK f : IsLoop(f, out, off, keys, k - 1)
    BY <1>3
  <1> DEFINE next(x, i) == ReadDirScan(x, off, keys[i])
  <1> DEFINE g == [i \in 0 .. k |-> IF i = 0 THEN out ELSE next(f[i - 1], i)]
  <1>5. \A i \in 0 .. k - 1 : f[i] = IF i = 0 THEN out ELSE next(f[i - 1], i)
    BY <1>3, <1>4, Zenon DEF IsLoop
  <1> HIDE DEF next
  <1>6. \A i \in 0 .. k - 1 : g[i] = f[i]
    BY <1>1, <1>5
  <1>7. \A i \in 0 .. k : i = 0 \/ i - 1 \in 0 .. k - 1
    BY <1>1
  <1>8. g = [i \in 0 .. k |-> IF i = 0 THEN out ELSE next(g[i - 1], i)]
    BY <1>6, <1>7
  <1>9. IsLoop(g, out, off, keys, k)
    BY <1>8, Zenon DEF IsLoop, next
  <1> QED
    BY <1>1, <1>9

\* What the loop leaves is the last of its states.
LEMMA LoopStates ==
  ASSUME NEW out, NEW off, NEW keys, Len(keys) \in Nat
  PROVE  \E f : /\ f[0] = out
                /\ \A i \in 1 .. Len(keys) : f[i] = ReadDirScan(f[i - 1], off, keys[i])
                /\ ScanLoop(out, off, keys) = f[Len(keys)]
  <1> DEFINE g == CHOOSE f : IsLoop(f, out, off, keys, Len(keys))
  <1>1. IsLoop(g, out, off, keys, Len(keys))
    BY LoopExists, Zenon
  <1>2. ScanLoop(out, off, keys) = g[Len(keys)]
    BY Zenon DEF ScanLoop, IsLoop
  <1> HIDE DEF g
  <1>3. PICK n : n = Len(keys)
    OBVIOUS
  <1>4. g = [i \in 0 .. n |-> IF i = 0 THEN out ELSE ReadDirScan(g[i - 1], off, keys[i])]
    BY <1>1, <1>3, Zenon DEF IsLoop
  <1>5. g[0] = out
    BY <1>3, <1>4
  <1>6. \A i \in 1 .. n : g[i] = ReadDirScan(g[i - 1], off, keys[i])
    BY <1>3, <1>4
  <1> QED
    BY <1>2, <1>3, <1>5, <1>6

\* What the callbacks of a SCAN work on when the names are those of N.
Outs(N) ==
  {o \in [cur_off : Nat, buf : Seq(N), buf_size : Nat, last : Nat, full : BOOLEAN] :
     o.buf = <<>> => o.buf_size = 0}

\* What one call makes p of o: nothing more happens to a full buffer; an entry that was
\* returned before is passed over; one that does not fit is the end, and finds entries
\* in the buffer; any other is added.
Entered(N, o, off, k, p) ==
  /\ p \in Outs(N)
  /\ Range(o.buf) \subseteq Range(p.buf)
  /\ \/ o.full /\ p = o
     \/ ~ o.full /\ ~ p.full /\ p.cur_off = o.cur_off + 1 /\ p.last = o.last /\ o.cur_off + 1 <= off
     \/ ~ o.full /\ p.full /\ p.last = o.last /\ p.buf # <<>> /\ p.buf = o.buf
     \/ /\ ~ o.full /\ ~ p.full /\ p.cur_off = o.cur_off + 1 /\ p.last = p.cur_off
        /\ FromSlice(k).name \in Range(p.buf)

LEMMA OneEntry ==
  ASSUME NEW N \in SUBSET Names, NEW o \in Outs(N), NEW off \in Nat, NEW k, FromSlice(k).name \in N
  PROVE  Entered(N, o, off, k, ReadDirScan(o, off, k))
  <1>1. PICK p : p = ReadDirScan(o, off, k)
    OBVIOUS
  <1>2. PICK n : n = FromSlice(k).name
    OBVIOUS
  <1>3. PICK cur : cur = o.cur_off + 1
    OBVIOUS
  <1>4. PICK size : size = o.buf_size + EntSize[n]
    OBVIOUS
  <1>5. /\ o \in [cur_off : Nat, buf : Seq(N), buf_size : Nat, last : Nat, full : BOOLEAN]
        /\ o.buf = <<>> => o.buf_size = 0
    BY DEF Outs
  <1>6. n \in N /\ n \in Names /\ EntSize[n] \in Nat /\ EntSize[n] <= BufSize /\ BufSize \in Nat
    BY <1>2, BufferAssumption
  <1>7. cur \in Nat /\ size \in Nat
    BY <1>3, <1>4, <1>5, <1>6
  <1> DEFINE skip == [o EXCEPT !.cur_off = cur]
  <1> DEFINE stop == [o EXCEPT !.cur_off = cur, !.full = TRUE]
  <1> DEFINE add == [cur_off |-> cur, buf |-> Append(o.buf, n), buf_size |-> size, last |-> cur, full |-> FALSE]
  <1>8. p = CASE o.full -> o
              [] ~ o.full /\ cur <= off -> skip
              [] ~ o.full /\ cur > off /\ size > BufSize -> stop
              [] OTHER -> add
    BY <1>1, <1>2, <1>3, <1>4, Zenon DEF ReadDirScan
  <1> HIDE DEF skip, stop, add
  <1>9. CASE o.full
    <2>1. p = o
      BY <1>8, <1>7, <1>9
    <2> QED
      BY <1>1, <1>9, <2>1 DEF Entered
  <1>10. CASE ~ o.full /\ cur <= off
    <2>1. p = skip
      BY <1>8, <1>7, <1>10
    <2>2. /\ p \in [cur_off : Nat, buf : Seq(N), buf_size : Nat, last : Nat, full : BOOLEAN]
          /\ p.cur_off = cur /\ p.buf = o.buf /\ p.buf_size = o.buf_size /\ p.last = o.last /\ p.full = o.full
      BY <1>5, <1>7, <2>1 DEF skip
    <2>3. p \in Outs(N)
      BY <1>5, <2>2 DEF Outs
    <2> QED
      BY <1>1, <1>3, <1>10, <2>2, <2>3 DEF Entered
  <1>11. CASE ~ o.full /\ cur > off /\ size > BufSize
    <2>0. ~ (cur <= off)
      BY <1>7, <1>11
    <2>1. p = stop
      BY <1>8, <1>11, <2>0
    <2>2. /\ p \in [cur_off : Nat, buf : Seq(N), buf_size : Nat, last : Nat, full : BOOLEAN]
          /\ p.buf = o.buf /\ p.buf_size = o.buf_size /\ p.last = o.last /\ p.full = TRUE
      BY <1>5, <1>7, <2>1 DEF stop
    <2>3. o.buf # <<>>
      BY <1>4, <1>5, <1>6, <1>7, <1>11
    <2>4. p \in Outs(N)
      BY <1>5, <2>2 DEF Outs
    <2> QED
      BY <1>1, <1>11, <2>2, <2>3, <2>4 DEF Entered
  <1>12. CASE ~ o.full /\ cur > off /\ ~ (size > BufSize)
    <2>0. ~ (cur <= off)
      BY <1>7, <1>12
    <2>1. PICK b : b = Append(o.buf, n)
      OBVIOUS
    <2>2. p = [cur_off |-> cur, buf |-> b, buf_size |-> size, last |-> cur, full |-> FALSE]
      BY <1>8, <1>12, <2>0, <2>1 DEF add
    <2>3. /\ b \in Seq(N) /\ Len(b) = Len(o.buf) + 1 /\ b[Len(o.buf) + 1] = n
          /\ \A i \in 1 .. Len(o.buf) : b[i] = o.buf[i]
      BY <1>5, <1>6, <2>1, AppendProperties
    <2>4. o.buf \in Seq(N) /\ Len(o.buf) \in Nat /\ DOMAIN o.buf = 1 .. Len(o.buf) /\ DOMAIN b = 1 .. Len(b)
      BY <1>5, <2>3
    <2>5. b # <<>> /\ n \in Range(b) /\ Range(o.buf) \subseteq Range(b)
      BY <2>3, <2>4 DEF Range
    <2>6. /\ p \in [cur_off : Nat, buf : Seq(N), buf_size : Nat, last : Nat, full : BOOLEAN]
          /\ p.cur_off = cur /\ p.buf = b /\ p.last = cur /\ p.full = FALSE
      BY <1>7, <2>2, <2>3
    <2>7. p \in Outs(N)
      BY <2>5, <2>6 DEF Outs
    <2> QED
      BY <1>1, <1>2, <1>3, <1>12, <2>5, <2>6, <2>7 DEF Entered
  <1> QED
    BY <1>7, <1>9, <1>10, <1>11, <1>12

\* After i calls: the entries so far were passed over or are in the buffer, or they
\* come behind the last one in the full buffer.
LoopInv(N, out, off, t, i, st) ==
  /\ st \in Outs(N)
  /\ Range(out.buf) \subseteq Range(st.buf)
  /\ ~ st.full =>
       /\ st.cur_off = out.cur_off + i /\ st.last <= st.cur_off
       /\ \A j \in 1 .. i : out.cur_off + j <= off \/ t[j] \in Range(st.buf)
  /\ st.full =>
       /\ st.buf # <<>> /\ st.last < out.cur_off + i
       /\ \A j \in 1 .. i : \/ out.cur_off + j <= off \/ t[j] \in Range(st.buf)
                            \/ st.last < out.cur_off + j

\* A call keeps it.
LEMMA LoopStep ==
  ASSUME NEW N \in SUBSET Names, NEW out \in Outs(N), NEW off \in Nat, NEW t, NEW i \in Nat,
         NEW k, FromSlice(k).name \in N, t[i + 1] = FromSlice(k).name,
         NEW st, LoopInv(N, out, off, t, i, st)
  PROVE  LoopInv(N, out, off, t, i + 1, ReadDirScan(st, off, k))
  <1>1. PICK p : p = ReadDirScan(st, off, k)
    OBVIOUS
  <1>2. st \in Outs(N) /\ Range(out.buf) \subseteq Range(st.buf)
    BY DEF LoopInv
  <1>3. /\ p \in Outs(N)
        /\ Range(st.buf) \subseteq Range(p.buf)
        /\ \/ st.full /\ p = st
           \/ ~ st.full /\ ~ p.full /\ p.cur_off = st.cur_off + 1 /\ p.last = st.last /\ st.cur_off + 1 <= off
           \/ ~ st.full /\ p.full /\ p.last = st.last /\ p.buf # <<>> /\ p.buf = st.buf
           \/ /\ ~ st.full /\ ~ p.full /\ p.cur_off = st.cur_off + 1 /\ p.last = p.cur_off
              /\ FromSlice(k).name \in Range(p.buf)
    <2>1. Entered(N, st, off, k, p)
      BY <1>1, <1>2, OneEntry
    <2> QED
      BY <2>1 DEF Entered
  <1>4. /\ out.cur_off \in Nat /\ st.cur_off \in Nat /\ st.last \in Nat /\ p.cur_off \in Nat /\ p.last \in Nat
        /\ st.full \in BOOLEAN /\ p.full \in BOOLEAN
    BY <1>2, <1>3 DEF Outs
  <1>5. Range(out.buf) \subseteq Range(p.buf)
    BY <1>2, <1>3
  <1>6. \A j \in 1 .. i + 1 : j \in 1 .. i \/ j = i + 1
    OBVIOUS
  <1>7. CASE st.full /\ p = st
    <2>1. /\ st.buf # <<>> /\ st.last < out.cur_off + i
          /\ \A j \in 1 .. i : \/ out.cur_off + j <= off \/ t[j] \in Range(st.buf)
                               \/ st.last < out.cur_off + j
      BY <1>7 DEF LoopInv
    <2>2. st.last < out.cur_off + (i + 1)
      BY <1>4, <2>1
    <2>3. LoopInv(N, out, off, t, i + 1, st)
      BY <1>2, <1>6, <1>7, <2>1, <2>2 DEF LoopInv
    <2> QED
      BY <1>1, <1>7, <2>3
  <1>8. CASE ~ st.full
    <2>1. /\ st.cur_off = out.cur_off + i /\ st.last <= st.cur_off
          /\ \A j \in 1 .. i : out.cur_off + j <= off \/ t[j] \in Range(p.buf)
      BY <1>3, <1>8 DEF LoopInv
    <2>2. out.cur_off + (i + 1) = st.cur_off + 1
      BY <1>4, <2>1
    <2>3. CASE ~ p.full
      <3>1. p.cur_off = out.cur_off + (i + 1) /\ p.last <= p.cur_off
        BY <1>3, <1>4, <1>8, <2>1, <2>2, <2>3
      <3>2. out.cur_off + (i + 1) <= off \/ t[i + 1] \in Range(p.buf)
        BY <1>3, <1>8, <2>2, <2>3
      <3>3. \A j \in 1 .. i + 1 : out.cur_off + j <= off \/ t[j] \in Range(p.buf)
        BY <1>6, <2>1, <3>2
      <3>4. LoopInv(N, out, off, t, i + 1, p)
        BY <1>3, <1>5, <2>3, <3>1, <3>3 DEF LoopInv
      <3> QED
        BY <1>1, <3>4
    <2>4. CASE p.full
      <3>1. p.last = st.last /\ p.buf # <<>>
        BY <1>3, <1>8, <2>4
      <3>2. p.last < out.cur_off + (i + 1)
        BY <1>4, <2>1, <2>2, <3>1
      <3>3. \A j \in 1 .. i + 1 : \/ out.cur_off + j <= off \/ t[j] \in Range(p.buf)
                                  \/ p.last < out.cur_off + j
        BY <1>6, <2>1, <3>2
      <3>4. LoopInv(N, out, off, t, i + 1, p)
        BY <1>3, <1>5, <2>4, <3>1, <3>2, <3>3 DEF LoopInv
      <3> QED
        BY <1>1, <3>4
    <2> QED
      BY <1>4, <2>3, <2>4
  <1> QED
    BY <1>3, <1>4, <1>7, <1>8

\* Hence it holds of what the loop leaves: there is no first call after which it fails.
LEMMA LoopKeeps ==
  ASSUME NEW N \in SUBSET Names, NEW out \in Outs(N), ~ out.full, out.last <= out.cur_off, NEW off \in Nat,
         NEW s, Len(s) \in Nat, \A i \in 1 .. Len(s) : FromSlice(s[i]).name \in N,
         NEW t, \A i \in 1 .. Len(s) : t[i] = FromSlice(s[i]).name
  PROVE  LoopInv(N, out, off, t, Len(s), ScanLoop(out, off, s))
  <1>1. PICK l : l = Len(s)
    OBVIOUS
  <1>2. PICK f : /\ f[0] = out
                 /\ \A i \in 1 .. l : f[i] = ReadDirScan(f[i - 1], off, s[i])
                 /\ ScanLoop(out, off, s) = f[l]
    BY <1>1, LoopStates
  <1> DEFINE Bad == {i \in 0 .. l : ~ LoopInv(N, out, off, t, i, f[i])}
  <1>3. Bad = {}
    <2> SUFFICES ASSUME Bad # {} PROVE FALSE
      OBVIOUS
    <2>0. Bad \in SUBSET Nat
      OBVIOUS
    <2>1. PICK i \in Bad : \A j \in Bad : i <= j
      BY <2>0, LeastNatural
    <2>2. i # 0
      <3>1. out.cur_off \in Nat /\ out.full \in BOOLEAN
        BY DEF Outs
      <3>2. out.cur_off = out.cur_off + 0 /\ 1 .. 0 = {}
        BY <3>1
      <3>3. LoopInv(N, out, off, t, 0, out)
        BY <3>2 DEF LoopInv
      <3> QED
        BY <1>2, <2>1, <3>3
    <2>3. i \in 1 .. l /\ i - 1 \in 0 .. l /\ i - 1 \in Nat /\ i - 1 \notin Bad /\ (i - 1) + 1 = i
      BY <1>1, <2>1, <2>2
    <2>4. PICK k : k = i - 1
      OBVIOUS
    <2>5. k \in Nat /\ k + 1 = i /\ LoopInv(N, out, off, t, k, f[k])
      BY <2>3, <2>4
    <2>6. FromSlice(s[i]).name \in N /\ t[k + 1] = FromSlice(s[i]).name
      BY <1>1, <2>3, <2>5
    <2>7. LoopInv(N, out, off, t, k + 1, ReadDirScan(f[k], off, s[i]))
      BY <2>5, <2>6, LoopStep
    <2>8. f[i] = ReadDirScan(f[k], off, s[i])
      BY <1>2, <2>3, <2>4
    <2> QED
      BY <2>1, <2>5, <2>7, <2>8
  <1>4. l \in 0 .. l
    BY <1>1
  <1> QED
    BY <1>1, <1>2, <1>3, <1>4

-----------------------------------------------------------------------------
(* Directories while others create files *)

\* What every step but one of the DB's writes and of reading directories leaves:
\* directories keep their numbers and no name is lost.
Grows ==
  /\ DOMAIN handles \subseteq DOMAIN handles'
  /\ \A h \in DOMAIN handles : handles'[h].file.st_ino = handles[h].file.st_ino
  /\ DOMAIN store \subseteq DOMAIN store'

\* Then the keys of directories are the same, the names in them are still there, and
\* the place of a name in a SCAN can only move back.
LEMMA NamesStay ==
  ASSUME ListInv, Grows, IsFiniteSet(DOMAIN store'), NEW h \in DOMAIN handles
  PROVE  /\ \A n : KeyOf(h, n)' = KeyOf(h, n)
         /\ NamesIn(h) \subseteq NamesIn(h)'
         /\ \A w \in Nat, n \in Names :
              /\ Cardinality(UpTo(h, w, n)) \in Nat /\ Cardinality(UpTo(h, w, n)') \in Nat
              /\ Cardinality(UpTo(h, w, n)) <= Cardinality(UpTo(h, w, n)')
         /\ \A w \in Nat :
              /\ Cardinality(Passed(h, w)) \in Nat /\ Cardinality(Passed(h, w)') \in Nat
              /\ Cardinality(Passed(h, w)) <= Cardinality(Passed(h, w)')
  <1>1. \A n : KeyOf(h, n)' = KeyOf(h, n)
    BY DEF Grows, KeyOf
  <1>2. NamesIn(h) \subseteq NamesIn(h)'
    BY <1>1 DEF Grows, NamesIn
  <1>3. IsFiniteSet(NamesIn(h)')
    <2>1. PICK e : e = handles[h].file.st_ino
      OBVIOUS
    <2>2. e \in Inos
      BY <2>1, HandleType, InosOf DEF ListInv, FsInv
    <2>3. PICK D : D = DOMAIN store'
      OBVIOUS
    <2>4. \A n : KeyOf(h, n)' = ToSlice(FileKey(e, n))
      BY <1>1, <2>1 DEF KeyOf
    <2>5. NamesIn(h)' = {n \in Names : ToSlice(FileKey(e, n)) \in D}
      BY <2>3, <2>4 DEF NamesIn
    <2> QED
      BY <2>2, <2>3, <2>5, FiniteNames
  <1>4. ASSUME NEW T, NEW U, T \subseteq U, U \subseteq NamesIn(h)'
        PROVE  Cardinality(T) \in Nat /\ Cardinality(U) \in Nat /\ Cardinality(T) <= Cardinality(U)
    <2>1. IsFiniteSet(U)
      BY <1>3, <1>4, FS_Subset
    <2>2. IsFiniteSet(T) /\ Cardinality(T) <= Cardinality(U)
      BY <1>4, <2>1, FS_Subset
    <2> QED
      BY <2>1, <2>2, FS_CardinalityType
  <1>5. \A w, n : UpTo(h, w, n) \subseteq UpTo(h, w, n)' /\ UpTo(h, w, n)' \subseteq NamesIn(h)'
    BY <1>1, <1>2 DEF UpTo
  <1>6. \A w : Passed(h, w) \subseteq Passed(h, w)' /\ Passed(h, w)' \subseteq NamesIn(h)'
    BY <1>1, <1>2 DEF Passed
  <1> QED
    BY <1>1, <1>2, <1>4, <1>5, <1>6

\* A directory that is being read is not disturbed.
LEMMA ReadingStays ==
  ASSUME ListInv, Grows, IsFiniteSet(DOMAIN store'), NEW c \in Clients, dirs'[c] = dirs[c], Reading(c)
  PROVE  Reading(c)'
  <1>1. PICK h \in DOMAIN handles : h = dirs[c].h
    BY DEF Reading
  <1>2. /\ NamesIn(h) \subseteq NamesIn(h)'
        /\ \A n \in Names : /\ Cardinality(UpTo(h, 0, n)) \in Nat /\ Cardinality(UpTo(h, 0, n)') \in Nat
                            /\ Cardinality(UpTo(h, 0, n)) <= Cardinality(UpTo(h, 0, n)')
    BY NamesStay
  <1>3. DOMAIN handles \subseteq DOMAIN handles'
    BY DEF Grows
  <1>4. NamesIn(dirs[c].h)' = NamesIn(h)' /\ \A n : UpTo(dirs[c].h, 0, n)' = UpTo(h, 0, n)'
    BY <1>1 DEF NamesIn, KeyOf, UpTo
  <1>5. dirs[c] \in [h : DOMAIN handles', off : Nat, seen : SUBSET Names, known : SUBSET Names]
    BY <1>3 DEF Reading
  <1>6. dirs[c].known \subseteq NamesIn(dirs[c].h)'
    BY <1>1, <1>2, <1>4 DEF Reading
  <1>7. ASSUME NEW n \in dirs[c].known, Cardinality(UpTo(dirs[c].h, 0, n)') <= dirs[c].off
        PROVE  n \in dirs[c].seen
    <2>1. n \in Names /\ dirs[c].off \in Nat
      BY <1>5
    <2>2. PICK x, y : x = Cardinality(UpTo(h, 0, n)) /\ y = Cardinality(UpTo(h, 0, n)')
      OBVIOUS
    <2>3. x \in Nat /\ y \in Nat /\ x <= y /\ y <= dirs[c].off
      BY <1>2, <1>4, <1>7, <2>1, <2>2
    <2>4. x <= dirs[c].off
      BY <2>1, <2>3
    <2> QED
      BY <1>1, <2>2, <2>4 DEF Reading
  <1> QED
    BY <1>5, <1>6, <1>7 DEF Reading

\* Nor is a SCAN of it.
LEMMA ScanningStays ==
  ASSUME ListInv, Grows, IsFiniteSet(DOMAIN store'), NEW c \in Clients,
         dirs'[c] = dirs[c], req'[c] = req[c], Reading(c), Scanning(c)
  PROVE  Scanning(c)'
  <1>1. PICK h \in DOMAIN handles : h = dirs[c].h
    BY DEF Reading
  <1>2. PICK w, out, got, off : /\ w = req[c].worker /\ out = req[c].out /\ off = dirs[c].off
                                /\ got = dirs[c].seen \cup Range(out.buf)
    OBVIOUS
  <1>3. /\ dirs[c] # NoDir
        /\ req[c].min_key = ToSlice(DirKey(handles[h].file.st_ino))
        /\ req[c].max_key = ToSlice(DirKey(handles[h].file.st_ino + 1))
        /\ w \in 0 .. WorkerNum
        /\ out \in [cur_off : Nat, buf : Seq(NamesIn(h)), buf_size : Nat, last : Nat, full : BOOLEAN]
        /\ out.buf = <<>> => out.buf_size = 0
        /\ out.full => out.buf # <<>> /\ \A n \in dirs[c].known :
             n \in got \/ out.last < Cardinality(UpTo(h, 0, n))
        /\ ~ out.full =>
             /\ out.cur_off <= Cardinality(Passed(h, w))
             /\ out.last <= out.cur_off
             /\ \A n \in dirs[c].known :
                  IF SplitFunc[KeyOf(h, n)] < w THEN n \in got
                  ELSE out.cur_off + Cardinality(UpTo(h, w, n)) <= off => n \in dirs[c].seen
    BY <1>1, <1>2, Zenon DEF Scanning
  <1>4. w \in Nat /\ off \in Nat /\ dirs[c].known \subseteq Names
    BY <1>2, <1>3, KTableFSAssumption DEF Reading
  <1>5. /\ NamesIn(h) \subseteq NamesIn(h)' /\ \A n : KeyOf(h, n)' = KeyOf(h, n)
        /\ \A v \in Nat, n \in Names :
             /\ Cardinality(UpTo(h, v, n)) \in Nat /\ Cardinality(UpTo(h, v, n)') \in Nat
             /\ Cardinality(UpTo(h, v, n)) <= Cardinality(UpTo(h, v, n)')
        /\ \A v \in Nat :
             /\ Cardinality(Passed(h, v)) \in Nat /\ Cardinality(Passed(h, v)') \in Nat
             /\ Cardinality(Passed(h, v)) <= Cardinality(Passed(h, v)')
    BY NamesStay
  <1>6. handles'[h].file.st_ino = handles[h].file.st_ino
    BY DEF Grows
  <1>7. out \in [cur_off : Nat, buf : Seq(NamesIn(h)'), buf_size : Nat, last : Nat, full : BOOLEAN]
    <2>1. out.buf \in Seq(NamesIn(h)')
      BY <1>3, <1>5, SeqMonotonic
    <2> QED
      BY <1>3, <2>1
  <1>8. out.cur_off \in Nat /\ out.last \in Nat
    BY <1>3
  <1>9. ASSUME out.full, NEW n \in dirs[c].known PROVE n \in got \/ out.last < Cardinality(UpTo(h, 0, n)')
    <2>1. PICK x, y : x = Cardinality(UpTo(h, 0, n)) /\ y = Cardinality(UpTo(h, 0, n)')
      OBVIOUS
    <2>2. x \in Nat /\ y \in Nat /\ x <= y
      BY <1>4, <1>5, <2>1
    <2>3. n \in got \/ out.last < x
      BY <1>3, <1>9, <2>1
    <2> QED
      BY <1>8, <2>1, <2>2, <2>3
  <1>10. ASSUME ~ out.full PROVE out.cur_off <= Cardinality(Passed(h, w)')
    <2>1. PICK x, y : x = Cardinality(Passed(h, w)) /\ y = Cardinality(Passed(h, w)')
      OBVIOUS
    <2>2. x \in Nat /\ y \in Nat /\ x <= y /\ out.cur_off <= x
      BY <1>3, <1>4, <1>5, <1>10, <2>1
    <2> QED
      BY <1>8, <2>1, <2>2
  <1>11. ASSUME ~ out.full, NEW n \in dirs[c].known
         PROVE  IF SplitFunc[KeyOf(h, n)'] < w THEN n \in got
                ELSE out.cur_off + Cardinality(UpTo(h, w, n)') <= off => n \in dirs[c].seen
    <2>1. PICK x, y : x = Cardinality(UpTo(h, w, n)) /\ y = Cardinality(UpTo(h, w, n)')
      OBVIOUS
    <2>2. x \in Nat /\ y \in Nat /\ x <= y
      BY <1>4, <1>5, <2>1
    <2>3. IF SplitFunc[KeyOf(h, n)] < w THEN n \in got ELSE out.cur_off + x <= off => n \in dirs[c].seen
      BY <1>3, <1>11, <2>1
    <2>4. out.cur_off + y <= off => out.cur_off + x <= off
      BY <1>4, <1>8, <2>2
    <2>5. KeyOf(h, n)' = KeyOf(h, n)
      BY <1>5
    <2> QED
      BY <2>1, <2>3, <2>4, <2>5
  <1>12. /\ NamesIn(dirs[c].h)' = NamesIn(h)' /\ \A n : KeyOf(dirs[c].h, n)' = KeyOf(h, n)'
         /\ \A v, n : UpTo(dirs[c].h, v, n)' = UpTo(h, v, n)'
         /\ \A v : Passed(dirs[c].h, v)' = Passed(h, v)'
    BY <1>1 DEF NamesIn, KeyOf, UpTo, Passed
  <1>13. /\ dirs'[c].h = h /\ dirs'[c].known = dirs[c].known /\ dirs'[c].seen = dirs[c].seen
         /\ dirs'[c].off = off /\ req'[c].worker = w /\ req'[c].out = out
         /\ req'[c].min_key = req[c].min_key /\ req'[c].max_key = req[c].max_key /\ dirs'[c] # NoDir
    BY <1>1, <1>2, <1>3
  <1>14. /\ req'[c].min_key = ToSlice(DirKey(handles'[h].file.st_ino))
         /\ req'[c].max_key = ToSlice(DirKey(handles'[h].file.st_ino + 1))
    BY <1>3, <1>6, <1>13
  <1> QED
    BY <1>2, <1>3, <1>7, <1>9, <1>10, <1>11, <1>12, <1>13, <1>14, Zenon DEF Scanning

\* Steps that read no directory.
LEMMA ListedQuiet ==
  ASSUME ListInv, Grows, IsFiniteSet(DOMAIN store'), UNCHANGED dirs,
         \A d \in Clients : Is(d, "SCAN")' => req'[d] = req[d]
  PROVE  Listed'
  <1>1. dirs' = [d \in Clients |-> dirs'[d]]
    BY DEF ListInv, Listed
  <1>2. ASSUME NEW d \in Clients PROVE dirs'[d] = NoDir \/ Reading(d)'
    BY ReadingStays DEF ListInv, Listed
  <1>3. ASSUME NEW d \in Clients, Is(d, "SCAN")' PROVE Scanning(d)'
    <2>1. req'[d] = req[d] /\ Is(d, "SCAN")
      BY <1>3 DEF Is
    <2>2. Scanning(d) /\ Reading(d)
      BY <2>1 DEF ListInv, Listed, Scanning
    <2> QED
      BY <2>1, <2>2, ScanningStays
  <1> QED
    BY <1>1, <1>2, <1>3 DEF Listed

\* A directory is opened: the names the kernel knows are in the DB.
LEMMA ListedOpenDir ==
  ASSUME ListInv, NEW c \in Clients, NEW h \in DOMAIN handles, OpenDir(c, h)
  PROVE  Listed'
  <1>1. PICK known : known = {n \in Names : \E g \in DOMAIN handles : handles[g].key = KeyOf(h, n)}
    OBVIOUS
  <1>2. PICK o : o = [h |-> h, off |-> 0, seen |-> {}, known |-> known]
    OBVIOUS
  <1>3. /\ dirs' = [dirs EXCEPT ![c] = o] /\ UNCHANGED <<cur_ino, store, handles, req, acked>>
        /\ req[c] = Idle
    BY <1>1, <1>2 DEF OpenDir
  <1>4. dirs = [d \in Clients |-> dirs[d]]
    BY DEF ListInv, Listed
  <1>5. dirs'[c] = o /\ (\A d \in Clients : d # c => dirs'[d] = dirs[d]) /\ dirs' = [d \in Clients |-> dirs'[d]]
    BY <1>3, <1>4
  <1>6. Grows /\ IsFiniteSet(DOMAIN store')
    BY <1>3 DEF Grows, ListInv, Listed
  <1>7. known \subseteq NamesIn(h)
    <2> SUFFICES ASSUME NEW n \in known PROVE n \in NamesIn(h)
      OBVIOUS
    <2>1. n \in Names
      BY <1>1
    <2>2. PICK g \in DOMAIN handles : handles[g].key = KeyOf(h, n)
      BY <1>1
    <2>3. KeyOf(h, n) # <<>>
      <3>1. PICK e : e = handles[h].file.st_ino
        OBVIOUS
      <3>2. e \in Inos
        BY <3>1, HandleType, InosOf DEF ListInv, FsInv
      <3>3. NameHash[n] \in [1 .. HashBytes -> Byte] /\ n \in Seq(Byte)
        BY <2>1, FileKeyAssumption
      <3>4. PICK k : k = KeyOf(h, n)
        OBVIOUS
      <3>5. k \in Seq(Nat) /\ Len(k) = InoBytes + HashBytes + Len(n)
        BY <3>1, <3>2, <3>3, <3>4, SliceBytes DEF KeyOf, FileKey
      <3>6. Len(n) \in Nat /\ InoBytes \in Nat \ {0} /\ HashBytes \in Nat
        BY <3>3, FileKeyAssumption
      <3>7. Len(k) # 0
        BY <3>5, <3>6
      <3> QED
        BY <3>4, <3>7
    <2>4. g \in Nodes
      BY <2>2, <2>3 DEF Nodes, ListInv, FsInv, Typed, Root
    <2>5. KeyOf(h, n) \in DOMAIN store
      BY <2>2, <2>4 DEF ListInv, FsInv, Known
    <2> QED
      BY <2>1, <2>5 DEF NamesIn
  <1>8. Reading(c)'
    <2>1. o \in [h : DOMAIN handles, off : Nat, seen : SUBSET Names, known : SUBSET Names]
      BY <1>1, <1>2
    <2>2. o.h = h /\ o.known = known /\ o.off = 0
      BY <1>2
    <2>3. NamesIn(dirs[c].h)' = NamesIn(h) /\ \A n : UpTo(dirs[c].h, 0, n)' = UpTo(h, 0, n)
      BY <1>3, <1>5, <2>2 DEF NamesIn, KeyOf, UpTo
    <2>4. \A n \in known : ~ (Cardinality(UpTo(h, 0, n)) <= 0)
      <3>1. \A n \in NamesIn(h) : Cardinality(UpTo(h, 0, n)) > 0
        BY Positions
      <3>2. \A n \in NamesIn(h) : n \in Names /\ Cardinality(UpTo(h, 0, n)) \in Nat
        BY Positions DEF NamesIn
      <3> QED
        BY <1>7, <3>1, <3>2
    <2>5. \A n \in dirs'[c].known : Cardinality(UpTo(dirs[c].h, 0, n)') <= dirs'[c].off => n \in dirs'[c].seen
      BY <1>5, <2>2, <2>3, <2>4
    <2> QED
      BY <1>3, <1>5, <1>7, <2>1, <2>2, <2>3, <2>5 DEF Reading
  <1>9. ASSUME NEW d \in Clients, d # c PROVE dirs'[d] = NoDir \/ Reading(d)'
    BY <1>5, <1>6, <1>9, ReadingStays DEF ListInv, Listed
  <1>10. ASSUME NEW d \in Clients, Is(d, "SCAN")' PROVE Scanning(d)'
    <2>1. d # c /\ Is(d, "SCAN")
      BY <1>3, <1>10 DEF Is, Idle
    <2>2. Scanning(d) /\ Reading(d)
      BY <2>1 DEF ListInv, Listed, Scanning
    <2> QED
      BY <1>3, <1>5, <1>6, <2>1, <2>2, ScanningStays
  <1> QED
    BY <1>3, <1>5, <1>8, <1>9, <1>10 DEF ListInv, Listed

\* A SCAN begins.
LEMMA ListedReadDir ==
  ASSUME ListInv, NEW c \in Clients, ReadDir(c)
  PROVE  Listed'
  <1>1. PICK r : r = [op |-> "SCAN", worker |-> 0, out |-> NoEntries,
                      min_key |-> ToSlice(DirKey(handles[dirs[c].h].file.st_ino)),
                      max_key |-> ToSlice(DirKey(handles[dirs[c].h].file.st_ino + 1))]
    OBVIOUS
  <1>2. /\ req' = [req EXCEPT ![c] = r] /\ dirs[c] # NoDir
        /\ UNCHANGED <<cur_ino, store, handles, dirs, acked>>
    BY <1>1 DEF ReadDir, Submit
  <1>3. req'[c] = r /\ \A d \in Clients : d # c => req'[d] = req[d]
    BY <1>2, ReqStep DEF ListInv, FsInv
  <1>4. Grows /\ IsFiniteSet(DOMAIN store')
    BY <1>2 DEF Grows, ListInv, Listed
  <1>5. ASSUME NEW d \in Clients PROVE dirs'[d] = NoDir \/ Reading(d)'
    BY <1>2, <1>4, ReadingStays DEF ListInv, Listed
  <1>6. Scanning(c)'
    <2>1. PICK h \in DOMAIN handles : h = dirs[c].h
      BY <1>2 DEF ListInv, Listed, Reading
    <2>2. PICK out, got : out = NoEntries /\ got = dirs[c].seen \cup Range(out.buf)
      OBVIOUS
    <2>3. out.cur_off = 0 /\ out.buf = <<>> /\ out.buf_size = 0 /\ out.last = 0 /\ out.full = FALSE
      BY <2>2 DEF NoEntries
    <2>4. /\ r.min_key = ToSlice(DirKey(handles[h].file.st_ino))
          /\ r.max_key = ToSlice(DirKey(handles[h].file.st_ino + 1))
          /\ r.worker = 0 /\ r.out = out
      BY <1>1, <2>1, <2>2
    <2>5. 0 \in 0 .. WorkerNum
      BY KTableFSAssumption
    <2>6. PICK N : N = NamesIn(h)
      OBVIOUS
    <2>7. out \in [cur_off : Nat, buf : Seq(N), buf_size : Nat, last : Nat, full : BOOLEAN]
      BY <2>2 DEF NoEntries
    <2>8. out.cur_off <= Cardinality(Passed(h, 0)) /\ out.last <= out.cur_off
      <3>1. Cardinality(Passed(h, 0)) \in Nat
        BY Positions
      <3> QED
        BY <2>3, <3>1
    <2>9. ASSUME NEW n \in dirs[c].known
          PROVE  IF SplitFunc[KeyOf(h, n)] < 0 THEN n \in got
                 ELSE out.cur_off + Cardinality(UpTo(h, 0, n)) <= dirs[c].off => n \in dirs[c].seen
      <3>1. Reading(c) /\ Typed
        BY <1>2 DEF ListInv, Listed, FsInv
      <3>2. n \in Names
        BY <3>1 DEF Reading
      <3>3. SplitFunc[KeyOf(h, n)] \in Nat /\ Cardinality(UpTo(h, 0, n)) \in Nat
        BY <3>1, <3>2, WorkerOf, Positions
      <3>4. Cardinality(UpTo(h, 0, n)) <= dirs[c].off => n \in dirs[c].seen
        BY <2>1, <3>1 DEF Reading
      <3> QED
        BY <2>3, <3>3, <3>4
    <2>10. /\ NamesIn(dirs[c].h)' = N /\ \A n : KeyOf(dirs[c].h, n)' = KeyOf(h, n)
           /\ \A v, n : UpTo(dirs[c].h, v, n)' = UpTo(h, v, n)
           /\ \A v : Passed(dirs[c].h, v)' = Passed(h, v)
      BY <1>2, <2>1, <2>6 DEF NamesIn, KeyOf, UpTo, Passed
    <2>11. /\ dirs' = dirs /\ handles' = handles /\ req'[c].worker = 0 /\ req'[c].out = out
           /\ req'[c].min_key = ToSlice(DirKey(handles'[dirs'[c].h].file.st_ino))
           /\ req'[c].max_key = ToSlice(DirKey(handles'[dirs'[c].h].file.st_ino + 1))
      BY <1>2, <1>3, <2>1, <2>4
    <2> QED
      BY <1>2, <2>2, <2>3, <2>5, <2>7, <2>8, <2>9, <2>10, <2>11, Zenon DEF Scanning
  <1>7. ASSUME NEW d \in Clients, d # c, Is(d, "SCAN")' PROVE Scanning(d)'
    <2>1. Is(d, "SCAN")
      BY <1>3, <1>7 DEF Is
    <2>2. Scanning(d) /\ Reading(d)
      BY <2>1 DEF ListInv, Listed, Scanning
    <2> QED
      BY <1>2, <1>3, <1>4, <1>7, <2>2, ScanningStays
  <1> QED
    BY <1>2, <1>4, <1>5, <1>6, <1>7 DEF ListInv, Listed

\* What one worker adds to a SCAN of the directory of handle h.
LEMMA WorkerScans ==
  ASSUME ListInv, NEW c \in Clients, Reading(c), Scanning(c), NEW h \in DOMAIN handles, h = dirs[c].h,
         ~ req[c].out.full, req[c].worker < WorkerNum,
         NEW w, w = req[c].worker, NEW o, o = req[c].out,
         NEW out, out = ScanLoop(o, dirs[c].off, IndexOrder(ScanSet(h, w)))
  PROVE  LET got == dirs[c].seen \cup Range(out.buf)
         IN  /\ w + 1 \in 0 .. WorkerNum
             /\ out \in [cur_off : Nat, buf : Seq(NamesIn(h)), buf_size : Nat, last : Nat, full : BOOLEAN]
             /\ out.buf = <<>> => out.buf_size = 0
             /\ out.full => out.buf # <<>> /\ \A n \in dirs[c].known :
                  n \in got \/ out.last < Cardinality(UpTo(h, 0, n))
             /\ ~ out.full =>
                  /\ out.cur_off <= Cardinality(Passed(h, w + 1))
                  /\ out.last <= out.cur_off
                  /\ \A n \in dirs[c].known :
                       IF SplitFunc[KeyOf(h, n)] < w + 1 THEN n \in got
                       ELSE out.cur_off + Cardinality(UpTo(h, w + 1, n)) <= dirs[c].off => n \in dirs[c].seen
  <1> DEFINE got == dirs[c].seen \cup Range(out.buf)
  <1>1. PICK off, N, s, l : off = dirs[c].off /\ N = NamesIn(h) /\ s = IndexOrder(ScanSet(h, w)) /\ l = Len(s)
    OBVIOUS
  <1>2. /\ w \in 0 .. WorkerNum
        /\ o \in [cur_off : Nat, buf : Seq(N), buf_size : Nat, last : Nat, full : BOOLEAN]
        /\ o.buf = <<>> => o.buf_size = 0
        /\ o.cur_off <= Cardinality(Passed(h, w))
        /\ o.last <= o.cur_off
        /\ \A n \in dirs[c].known :
             IF SplitFunc[KeyOf(h, n)] < w THEN n \in dirs[c].seen \cup Range(o.buf)
             ELSE o.cur_off + Cardinality(UpTo(h, w, n)) <= off => n \in dirs[c].seen
    BY <1>1, Zenon DEF Scanning
  <1>3. w \in Nat /\ w + 1 \in 0 .. WorkerNum
    BY <1>2, KTableFSAssumption
  <1>4. N \subseteq Names /\ off \in Nat /\ dirs[c].known \subseteq N /\ Typed
    BY <1>1 DEF NamesIn, Reading, ListInv, FsInv
  <1>5. /\ l \in Nat
        /\ \A i \in 1 .. l : FromSlice(s[i]).name \in NamesAt(h, w)
        /\ l = Cardinality(NamesAt(h, w))
        /\ \A n \in NamesAt(h, w) : \E i \in 1 .. l :
             FromSlice(s[i]).name = n /\ Cardinality(UpTo(h, w, n)) = i
    BY <1>1, <1>3, ScanOrder
  <1>6. PICK t : t = [i \in 1 .. l |-> FromSlice(s[i]).name]
    OBVIOUS
  <1>7. \A i \in 1 .. l : t[i] = FromSlice(s[i]).name /\ FromSlice(s[i]).name \in N
    BY <1>1, <1>5, <1>6 DEF NamesAt
  <1>8. o \in Outs(N)
    BY <1>2 DEF Outs
  <1>9. LoopInv(N, o, off, t, l, out)
    <2>1. ~ o.full /\ o.last <= o.cur_off /\ Len(s) \in Nat /\ out = ScanLoop(o, off, s)
      BY <1>1, <1>2, <1>5
    <2>2. /\ \A i \in 1 .. Len(s) : FromSlice(s[i]).name \in N
          /\ \A i \in 1 .. Len(s) : t[i] = FromSlice(s[i]).name
      BY <1>1, <1>7
    <2>3. N \in SUBSET Names
      BY <1>4
    <2>4. LoopInv(N, o, off, t, Len(s), ScanLoop(o, off, s))
      BY <1>4, <1>8, <2>1, <2>2, <2>3, LoopKeeps
    <2> QED
      BY <1>1, <2>1, <2>4
  <1>10. /\ out \in [cur_off : Nat, buf : Seq(N), buf_size : Nat, last : Nat, full : BOOLEAN]
         /\ out.buf = <<>> => out.buf_size = 0
         /\ Range(o.buf) \subseteq Range(out.buf)
    BY <1>9 DEF LoopInv, Outs
  <1>11. PICK P, A : P = Cardinality(Passed(h, w)) /\ A = Cardinality(NamesAt(h, w))
    OBVIOUS
  <1>12. /\ P \in Nat /\ A \in Nat /\ A = l /\ o.cur_off \in Nat /\ o.cur_off <= P /\ out.last \in Nat
         /\ Cardinality(Passed(h, w + 1)) = P + A
         /\ \A n \in Names, v \in Nat : Cardinality(UpTo(h, v, n)) \in Nat
         /\ \A n \in N : w < SplitFunc[KeyOf(h, n)] =>
              Cardinality(UpTo(h, w, n)) = A + Cardinality(UpTo(h, w + 1, n))
         /\ \A n \in N : w <= SplitFunc[KeyOf(h, n)] =>
              Cardinality(UpTo(h, 0, n)) = P + Cardinality(UpTo(h, w, n))
    <2>1. A = l /\ o.cur_off \in Nat /\ o.cur_off <= P /\ out.last \in Nat
      BY <1>2, <1>5, <1>10, <1>11
    <2>2. /\ P \in Nat /\ A \in Nat
          /\ Cardinality(Passed(h, w + 1)) = P + A
          /\ \A n \in Names, v \in Nat : Cardinality(UpTo(h, v, n)) \in Nat
          /\ \A n \in NamesIn(h) : w < SplitFunc[KeyOf(h, n)] =>
               Cardinality(UpTo(h, w, n)) = A + Cardinality(UpTo(h, w + 1, n))
          /\ \A n \in NamesIn(h) : w <= SplitFunc[KeyOf(h, n)] =>
               Cardinality(UpTo(h, 0, n)) = P + Cardinality(UpTo(h, w, n))
      BY <1>3, <1>11, Positions, Zenon
    <2> QED
      BY <1>1, <2>1, <2>2
  <1>13. \A n \in dirs[c].known : n \in N /\ n \in Names /\ SplitFunc[KeyOf(h, n)] \in Nat
    BY <1>4, WorkerOf
  <1>14. ASSUME NEW n \in dirs[c].known, SplitFunc[KeyOf(h, n)] < w PROVE n \in got
    BY <1>2, <1>10, <1>14
  \* A name of this worker: the i-th of them.
  <1>15. ASSUME NEW n \in dirs[c].known, SplitFunc[KeyOf(h, n)] = w
         PROVE  \/ n \in got
                \/ out.full /\ out.last < Cardinality(UpTo(h, 0, n))
    <2>1. n \in NamesAt(h, w)
      BY <1>1, <1>4, <1>15 DEF NamesAt
    <2>2. PICK i \in 1 .. l : t[i] = n /\ Cardinality(UpTo(h, w, n)) = i
      BY <1>5, <1>7, <2>1
    <2>3. Cardinality(UpTo(h, 0, n)) = P + i /\ i \in Nat
      BY <1>3, <1>12, <1>13, <1>15, <2>2
    <2>4. CASE o.cur_off + i <= off
      <3>1. ~ (SplitFunc[KeyOf(h, n)] < w)
        BY <1>3, <1>15
      <3>2. n \in dirs[c].seen
        BY <1>2, <2>2, <2>4, <3>1
      <3> QED
        BY <3>2
    <2>5. CASE t[i] \in Range(out.buf)
      BY <2>2, <2>5
    <2>6. CASE out.full /\ out.last < o.cur_off + i
      BY <1>12, <2>3, <2>6
    <2> QED
      BY <1>9, <2>4, <2>5, <2>6 DEF LoopInv
  \* A name of a later one.
  <1>16. ASSUME NEW n \in dirs[c].known, w < SplitFunc[KeyOf(h, n)]
         PROVE  /\ out.full => out.last < Cardinality(UpTo(h, 0, n))
                /\ ~ out.full => (out.cur_off + Cardinality(UpTo(h, w + 1, n)) <= off => n \in dirs[c].seen)
    <2>1. PICK x : x = Cardinality(UpTo(h, w + 1, n))
      OBVIOUS
    <2>2. x \in Nat /\ Cardinality(UpTo(h, w, n)) = A + x
      BY <1>3, <1>12, <1>13, <1>16, <2>1
    <2>3. w <= SplitFunc[KeyOf(h, n)] /\ ~ (SplitFunc[KeyOf(h, n)] < w)
      BY <1>3, <1>13, <1>16
    <2>4. Cardinality(UpTo(h, 0, n)) = P + (A + x)
      BY <1>12, <1>13, <2>2, <2>3
    <2>5. ASSUME out.full PROVE out.last < Cardinality(UpTo(h, 0, n))
      <3>1. out.last < o.cur_off + l
        BY <1>9, <2>5 DEF LoopInv
      <3> QED
        BY <1>12, <2>2, <2>4, <3>1
    <2>6. ASSUME ~ out.full, out.cur_off + x <= off PROVE n \in dirs[c].seen
      <3>1. out.cur_off = o.cur_off + l
        BY <1>9, <2>6 DEF LoopInv
      <3>2. o.cur_off + (A + x) <= off
        BY <1>4, <1>12, <2>2, <2>6, <3>1
      <3> QED
        BY <1>2, <2>2, <2>3, <3>2
    <2> QED
      BY <2>1, <2>5, <2>6
  <1>17. ASSUME out.full
         PROVE  out.buf # <<>> /\ \A n \in dirs[c].known : n \in got \/ out.last < Cardinality(UpTo(h, 0, n))
    <2>1. out.buf # <<>>
      BY <1>9, <1>17 DEF LoopInv
    <2>2. \A n \in dirs[c].known :
            SplitFunc[KeyOf(h, n)] < w \/ SplitFunc[KeyOf(h, n)] = w \/ w < SplitFunc[KeyOf(h, n)]
      BY <1>3, <1>13
    <2> HIDE DEF got
    <2> QED
      BY <1>14, <1>15, <1>16, <1>17, <2>1, <2>2
  <1>18. ASSUME ~ out.full
         PROVE  /\ out.cur_off <= Cardinality(Passed(h, w + 1))
                /\ out.last <= out.cur_off
    <2>1. out.cur_off = o.cur_off + l /\ out.last <= out.cur_off
      BY <1>9, <1>18 DEF LoopInv
    <2> QED
      BY <1>12, <2>1
  <1>19. ASSUME ~ out.full, NEW n \in dirs[c].known
         PROVE  IF SplitFunc[KeyOf(h, n)] < w + 1 THEN n \in got
                ELSE out.cur_off + Cardinality(UpTo(h, w + 1, n)) <= off => n \in dirs[c].seen
    <2>1. SplitFunc[KeyOf(h, n)] < w + 1 => SplitFunc[KeyOf(h, n)] < w \/ SplitFunc[KeyOf(h, n)] = w
      BY <1>3, <1>13
    <2>2. ~ (SplitFunc[KeyOf(h, n)] < w + 1) => w < SplitFunc[KeyOf(h, n)]
      BY <1>3, <1>13
    <2> HIDE DEF got
    <2> QED
      BY <1>14, <1>15, <1>16, <1>19, <2>1, <2>2
  <1> HIDE DEF got
  <1> QED
    BY <1>1, <1>3, <1>10, <1>17, <1>18, <1>19 DEF got

\* A worker does its part of a SCAN.
LEMMA ListedDBScan ==
  ASSUME ListInv, NEW c \in Clients, DBScan(c)
  PROVE  Listed'
  <1>1. Is(c, "SCAN") /\ ~ Answered(c) /\ UNCHANGED <<cur_ino, store, handles, dirs, acked>>
    BY DEF DBScan, Is
  <1>2. Scanning(c) /\ Reading(c) /\ Typed /\ Scan(req[c])
    BY <1>1, ReqKinds DEF ListInv, Listed, Scanning, FsInv
  <1>3. PICK h \in DOMAIN handles : h = dirs[c].h
    BY <1>2 DEF Reading
  <1>4. PICK w, o, lo, hi :
          req[c] = [op |-> "SCAN", worker |-> w, out |-> o, min_key |-> lo, max_key |-> hi]
    BY <1>2 DEF Scan
  <1>5. req[c].worker = w /\ req[c].out = o /\ req[c].min_key = lo /\ req[c].max_key = hi
    BY <1>4
  <1>6. lo = ToSlice(DirKey(handles[h].file.st_ino)) /\ hi = ToSlice(DirKey(handles[h].file.st_ino + 1))
    BY <1>2, <1>3, <1>5 DEF Scanning
  <1>7. ~ o.full /\ w < WorkerNum
    <2>1. w \in 0 .. WorkerNum
      BY <1>2, <1>5 DEF Scanning
    <2>2. ~ o.full /\ w # WorkerNum
      BY <1>1, <1>5 DEF Answered, Is
    <2> QED
      BY <2>1, <2>2, KTableFSAssumption
  <1>8. PICK out : out = ScanLoop(o, dirs[c].off, IndexOrder(ScanSet(h, w)))
    OBVIOUS
  <1>9. PICK r : r = [op |-> "SCAN", worker |-> w + 1, out |-> out, min_key |-> lo, max_key |-> hi]
    OBVIOUS
  <1>10. req' = [req EXCEPT ![c] = r]
    <2>1. PICK K : K = {k \in DOMAIN store : /\ SplitFunc[k] = req[c].worker
                                             /\ ~ SliceLess(k, req[c].min_key)
                                             /\ SliceLess(k, req[c].max_key)}
      OBVIOUS
    <2>2. K = ScanSet(h, w)
      BY <1>5, <1>6, <2>1 DEF ScanSet
    <2>3. req' = [req EXCEPT ![c].worker = req[c].worker + 1,
                             ![c].out = ScanLoop(req[c].out, dirs[c].off, IndexOrder(K))]
      BY <2>1 DEF DBScan
    <2>4. req' = [req EXCEPT ![c].worker = w + 1, ![c].out = out]
      BY <1>5, <1>8, <2>2, <2>3
    <2>5. PICK q : q = [req[c] EXCEPT !.worker = w + 1]
      OBVIOUS
    <2>6. q = [op |-> "SCAN", worker |-> w + 1, out |-> o, min_key |-> lo, max_key |-> hi]
      BY <1>4, <2>5
    <2>7. r = [q EXCEPT !.out = out]
      BY <1>9, <2>6
    <2> QED
      BY <2>4, <2>5, <2>7, Zenon
  <1>11. r.worker = w + 1 /\ r.out = out /\ r.min_key = lo /\ r.max_key = hi
    BY <1>9
  <1>12. req'[c] = r /\ \A d \in Clients : d # c => req'[d] = req[d]
    BY <1>2, <1>10, ReqStep
  <1>13. Grows /\ IsFiniteSet(DOMAIN store')
    BY <1>1 DEF Grows, ListInv, Listed
  <1>14. ASSUME NEW d \in Clients PROVE dirs'[d] = NoDir \/ Reading(d)'
    BY <1>1, <1>13, ReadingStays DEF ListInv, Listed
  <1>15. Scanning(c)'
    <2>1. PICK got : got = dirs[c].seen \cup Range(out.buf)
      OBVIOUS
    <2>2. /\ w + 1 \in 0 .. WorkerNum
          /\ out \in [cur_off : Nat, buf : Seq(NamesIn(h)), buf_size : Nat, last : Nat, full : BOOLEAN]
          /\ out.buf = <<>> => out.buf_size = 0
          /\ out.full => out.buf # <<>> /\ \A n \in dirs[c].known :
               n \in got \/ out.last < Cardinality(UpTo(h, 0, n))
          /\ ~ out.full =>
               /\ out.cur_off <= Cardinality(Passed(h, w + 1))
               /\ out.last <= out.cur_off
               /\ \A n \in dirs[c].known :
                    IF SplitFunc[KeyOf(h, n)] < w + 1 THEN n \in got
                    ELSE out.cur_off + Cardinality(UpTo(h, w + 1, n)) <= dirs[c].off => n \in dirs[c].seen
      BY <1>2, <1>3, <1>5, <1>7, <1>8, <2>1, WorkerScans
    <2>3. /\ NamesIn(dirs[c].h)' = NamesIn(h) /\ \A n : KeyOf(dirs[c].h, n)' = KeyOf(h, n)
          /\ \A v, n : UpTo(dirs[c].h, v, n)' = UpTo(h, v, n)
          /\ \A v : Passed(dirs[c].h, v)' = Passed(h, v)
      BY <1>1, <1>3 DEF NamesIn, KeyOf, UpTo, Passed
    <2>4. /\ dirs' = dirs /\ req'[c].worker = w + 1 /\ req'[c].out = out
          /\ dirs'[c] # NoDir
          /\ req'[c].min_key = ToSlice(DirKey(handles'[dirs'[c].h].file.st_ino))
          /\ req'[c].max_key = ToSlice(DirKey(handles'[dirs'[c].h].file.st_ino + 1))
      BY <1>1, <1>2, <1>3, <1>6, <1>11, <1>12 DEF Scanning
    <2> QED
      BY <2>1, <2>2, <2>3, <2>4, Zenon DEF Scanning
  <1>16. ASSUME NEW d \in Clients, d # c, Is(d, "SCAN")' PROVE Scanning(d)'
    <2>1. Is(d, "SCAN")
      BY <1>12, <1>16 DEF Is
    <2>2. Scanning(d) /\ Reading(d)
      BY <2>1 DEF ListInv, Listed, Scanning
    <2> QED
      BY <1>1, <1>12, <1>13, <1>16, <2>2, ScanningStays
  <1> QED
    BY <1>1, <1>13, <1>14, <1>15, <1>16 DEF ListInv, Listed

\* What an answered SCAN has: every known name that the next call passes over, and, if
\* everything fit, every known name.
LEMMA AnswerIsComplete ==
  ASSUME ListInv, NEW c \in Clients, Is(c, "SCAN"), Answered(c), NEW n \in dirs[c].known
  PROVE  \/ n \in dirs[c].seen \cup Range(req[c].out.buf)
         \/ req[c].out.full /\ req[c].out.buf # <<>> /\ req[c].out.last < Cardinality(UpTo(dirs[c].h, 0, n))
  <1>1. Scanning(c) /\ Reading(c) /\ Typed
    BY DEF ListInv, Listed, Scanning, FsInv
  <1>2. CASE req[c].out.full
    BY <1>1, <1>2 DEF Scanning
  <1>3. CASE ~ req[c].out.full
    <2>1. req[c].worker = WorkerNum
      BY <1>3 DEF Answered, Is
    <2>2. n \in Names /\ dirs[c].h \in DOMAIN handles
      BY <1>1 DEF Reading
    <2>3. SplitFunc[KeyOf(dirs[c].h, n)] < WorkerNum
      BY <1>1, <2>2, WorkerOf
    <2> QED
      BY <1>1, <1>3, <2>1, <2>3 DEF Scanning
  <1> QED
    BY <1>2, <1>3

\* A SCAN is answered.
LEMMA ListedCallback ==
  ASSUME ListInv, NEW c \in Clients, ReadDirCallback(c)
  PROVE  Listed'
  <1>1. Is(c, "SCAN") /\ Answered(c) /\ UNCHANGED <<cur_ino, store, handles, acked>>
    BY DEF ReadDirCallback, Is
  <1>2. Scanning(c) /\ Reading(c) /\ Typed
    BY <1>1 DEF ListInv, Listed, Scanning, FsInv
  <1>3. PICK buf, last : buf = req[c].out.buf /\ last = req[c].out.last
    OBVIOUS
  <1>4. PICK o : o = [dirs[c] EXCEPT !.off = last, !.seen = dirs[c].seen \cup Range(buf)]
    OBVIOUS
  <1>5. /\ req' = [req EXCEPT ![c] = Idle]
        /\ dirs' = [dirs EXCEPT ![c] = IF buf = <<>> THEN NoDir ELSE o]
    BY <1>3, <1>4 DEF ReadDirCallback
  <1>6. req'[c] = Idle /\ \A d \in Clients : d # c => req'[d] = req[d]
    BY <1>2, <1>5, ReqStep
  <1>7. dirs = [d \in Clients |-> dirs[d]]
    BY DEF ListInv, Listed
  <1>8. /\ dirs'[c] = NoDir \/ dirs'[c] = o
        /\ \A d \in Clients : d # c => dirs'[d] = dirs[d]
        /\ dirs' = [d \in Clients |-> dirs'[d]]
    BY <1>5, <1>7
  <1>9. Grows /\ IsFiniteSet(DOMAIN store')
    BY <1>1 DEF Grows, ListInv, Listed
  <1>10. PICK h \in DOMAIN handles : h = dirs[c].h
    BY <1>2 DEF Reading
  <1>11. Range(buf) \subseteq Names /\ last \in Nat
    <2>1. PICK N : N = NamesIn(h)
      OBVIOUS
    <2>2. req[c].out \in [cur_off : Nat, buf : Seq(N), buf_size : Nat, last : Nat, full : BOOLEAN]
      BY <1>2, <1>10, <2>1 DEF Scanning
    <2>3. buf \in Seq(N) /\ N \subseteq Names /\ last \in Nat
      BY <1>3, <2>1, <2>2 DEF NamesIn
    <2> QED
      BY <2>3 DEF Range
  <1>12. /\ o \in [h : DOMAIN handles, off : Nat, seen : SUBSET Names, known : SUBSET Names]
         /\ o.h = h /\ o.known = dirs[c].known /\ o.seen = dirs[c].seen \cup Range(buf) /\ o.off = last
    <2>1. dirs[c] \in [h : DOMAIN handles, off : Nat, seen : SUBSET Names, known : SUBSET Names]
      BY <1>2 DEF Reading
    <2> QED
      BY <1>4, <1>10, <1>11, <2>1
  <1>13. ASSUME NEW n \in o.known, Cardinality(UpTo(h, 0, n)) <= last PROVE n \in o.seen
    <2>1. n \in Names
      BY <1>12
    <2>2. Cardinality(UpTo(h, 0, n)) \in Nat
      BY <2>1, Positions
    <2>3. ~ (last < Cardinality(UpTo(h, 0, n)))
      BY <1>11, <1>13, <2>2
    <2>4. n \in dirs[c].seen \cup Range(buf) \/ last < Cardinality(UpTo(h, 0, n))
      BY <1>1, <1>3, <1>10, <1>12, AnswerIsComplete
    <2> QED
      BY <1>12, <2>3, <2>4
  <1>14. dirs'[c] = NoDir \/ Reading(c)'
    <2> SUFFICES ASSUME dirs'[c] = o PROVE Reading(c)'
      BY <1>8
    <2>1. NamesIn(dirs[c].h)' = NamesIn(h) /\ \A n : UpTo(dirs[c].h, 0, n)' = UpTo(h, 0, n)
      BY <1>1, <1>12 DEF NamesIn, KeyOf, UpTo
    <2>2. o.known \subseteq NamesIn(h)
      BY <1>2, <1>10, <1>12 DEF Reading
    <2> QED
      BY <1>1, <1>12, <1>13, <2>1, <2>2 DEF Reading
  <1>15. ASSUME NEW d \in Clients, d # c PROVE dirs'[d] = NoDir \/ Reading(d)'
    BY <1>8, <1>9, <1>15, ReadingStays DEF ListInv, Listed
  <1>16. ASSUME NEW d \in Clients, Is(d, "SCAN")' PROVE Scanning(d)'
    <2>1. d # c
      BY <1>6, <1>16 DEF Is, Idle
    <2>2. Is(d, "SCAN")
      BY <1>6, <1>16, <2>1 DEF Is
    <2>3. Scanning(d) /\ Reading(d)
      BY <2>2 DEF ListInv, Listed, Scanning
    <2> QED
      BY <1>6, <1>8, <1>9, <2>1, <2>3, ScanningStays
  <1> QED
    BY <1>8, <1>9, <1>14, <1>15, <1>16 DEF Listed

\* A request that is no SCAN takes the place of another one.
LEMMA ListedPoint ==
  ASSUME ListInv, NEW c \in Clients, NEW r, req' = [req EXCEPT ![c] = r], r.op # "SCAN",
         Grows, IsFiniteSet(DOMAIN store'), UNCHANGED dirs
  PROVE  Listed'
  <1>1. req'[c] = r /\ \A d \in Clients : d # c => req'[d] = req[d]
    BY ReqStep DEF ListInv, FsInv
  <1>2. \A d \in Clients : Is(d, "SCAN")' => req'[d] = req[d]
    BY <1>1 DEF Is
  <1> QED
    BY <1>2, ListedQuiet

\* Every step keeps what is known of the directories being read.
LEMMA ListedStep ==
  ASSUME ListInv, NEW c \in Clients, Call(c) \/ Serve(c) \/ Callback(c)
  PROVE  Listed'
  <1> Typed /\ Known
    BY DEF ListInv, FsInv
  <1>0. Idle.op = "IDLE" /\ IsFiniteSet(DOMAIN store) /\ (UNCHANGED <<store, handles>> => Grows)
    BY DEF Idle, ListInv, Listed, Grows
  <1>1. ASSUME NEW h \in DOMAIN handles, NEW n \in Names, Lookup(c, h, n)
        PROVE  Listed'
    <2>1. PICK r : req' = [req EXCEPT ![c] = r] /\ UNCHANGED <<store, handles, dirs>> /\ r.op = "GET"
      BY <1>1, LookupStep
    <2> QED
      BY <1>0, <2>1, ListedPoint
  <1>2. ASSUME NEW h \in DOMAIN handles, NEW n \in Names, NEW isdir \in BOOLEAN, Create(c, h, n, isdir)
        PROVE  Listed'
    <2>1. PICK r : req' = [req EXCEPT ![c] = r] /\ UNCHANGED <<store, handles, dirs>> /\ r.op = "PUT"
      BY <1>2, CreateStep
    <2> QED
      BY <1>0, <2>1, ListedPoint
  <1>3. ASSUME NEW h \in DOMAIN handles, NEW end \in Ends, WriteBuf(c, h, end)
        PROVE  Listed'
    <2>1. CASE end > handles[h].file.st_size
      <3>1. PICK r : r = UpdateOf(h, end)
        OBVIOUS
      <3>2. r.op = "UPDATE"
        BY <3>1 DEF UpdateOf
      <3>3. /\ \A g \in DOMAIN handles : handles'[g].file.st_ino = handles[g].file.st_ino
            /\ req' = [req EXCEPT ![c] = r] /\ UNCHANGED <<store, dirs>>
        BY <1>3, <2>1, <3>1, GrowStep
      <3>4. handles' = [handles EXCEPT ![h].file.st_size = end]
        BY <1>3, <2>1 DEF WriteBuf, Grow
      <3>5. DOMAIN handles' = DOMAIN handles
        BY <3>4
      <3>6. Grows
        BY <3>3, <3>5 DEF Grows
      <3> QED
        BY <1>0, <3>2, <3>3, <3>6, ListedPoint
    <2>2. CASE ~ (end > handles[h].file.st_size)
      <3>1. UNCHANGED <<store, handles, req, dirs>>
        BY <1>3, <2>2, NoGrowStep
      <3> QED
        BY <1>0, <3>1, ListedQuiet
    <2> QED
      BY <2>1, <2>2
  <1>4. CASE DBGet(c)
    <2>1. PICK r : req' = [req EXCEPT ![c] = r] /\ UNCHANGED <<store, handles, dirs>> /\ r.op = "GET"
      BY <1>4, DBGetStep
    <2> QED
      BY <1>0, <2>1, ListedPoint
  <1>5. CASE DBPut(c)
    <2>1. PICK r : req' = [req EXCEPT ![c] = r] /\ UNCHANGED <<store, handles, dirs>> /\ r.op = "PUT"
      BY <1>5, DBPutStep
    <2> QED
      BY <1>0, <2>1, ListedPoint
  <1>6. CASE PutCallback(c)
    <2>1. PICK r : /\ req' = [req EXCEPT ![c] = r] /\ r.op = "PUT" /\ r.res \in {"ok", "EIO"}
                   /\ r.res = "EIO" => store' = store
                   /\ r.res = "ok" => store' = [k \in DOMAIN store \cup {r.key} |->
                                                  IF k \in DOMAIN store THEN store[k] ELSE r.file]
      BY <1>6, PutCallbackStep
    <2>2. UNCHANGED <<handles, dirs>>
      BY <1>6, PutCallbackStep
    <2>3. PICK k0 : k0 = r.key
      OBVIOUS
    <2>4. DOMAIN store' = DOMAIN store \/ DOMAIN store' = DOMAIN store \cup {k0}
      BY <2>1, <2>3
    <2>5. IsFiniteSet(DOMAIN store')
      BY <1>0, <2>4, FS_AddElement
    <2>6. Grows
      BY <2>2, <2>4 DEF Grows
    <2> QED
      BY <2>1, <2>2, <2>5, <2>6, ListedPoint
  <1>7. CASE DBUpdate(c)
    <2>1. PICK r : /\ req' = [req EXCEPT ![c] = r] /\ r.op = "UPDATE"
                   /\ r.res # "ok" => store' = store
                   /\ r.res = "ok" => store' = [store EXCEPT ![r.key] = r.file]
      BY <1>7, DBUpdateStep
    <2>2. UNCHANGED <<handles, dirs>>
      BY <1>7, DBUpdateStep
    <2>3. DOMAIN store' = DOMAIN store
      BY <2>1
    <2>4. Grows
      BY <2>2, <2>3 DEF Grows
    <2> QED
      BY <1>0, <2>1, <2>2, <2>3, <2>4, ListedPoint
  <1>8. CASE LookupCallback(c) \/ MknodCallback(c)
    <2>1. req' = [req EXCEPT ![c] = Idle] /\ UNCHANGED <<store, dirs>>
      BY <1>8, EntryCallback
    <2>2. CASE UNCHANGED handles
      BY <1>0, <2>1, <2>2, ListedPoint
    <2>3. CASE ~ UNCHANGED handles
      <3>1. PICK x \in Handle : handles' = Append(handles, x)
        BY <1>8, <2>3, EntryCallback
      <3>2. (\A h \in DOMAIN handles : handles'[h] = handles[h]) /\ DOMAIN handles \subseteq DOMAIN handles'
        <4>1. Nodes' = Nodes \cup {Len(handles) + 1} /\ \A h \in DOMAIN handles : handles'[h] = handles[h]
          BY <3>1, EntryStep
        <4>2. handles' \in Seq(Handle) /\ handles' # <<>>
          BY <3>1, EntryStep
        <4>3. 1 \in DOMAIN handles'
          BY <4>2
        <4> QED
          BY <4>1, <4>3 DEF Nodes
      <3>3. Grows
        BY <2>1, <3>2 DEF Grows
      <3> QED
        BY <1>0, <2>1, <3>3, ListedPoint
    <2> QED
      BY <2>2, <2>3
  <1>9. CASE WriteCallback(c)
    <2>1. req' = [req EXCEPT ![c] = Idle] /\ UNCHANGED <<store, handles, dirs>>
      BY <1>9, WriteCallbackStep
    <2> QED
      BY <1>0, <2>1, ListedPoint
  <1> QED
    BY <1>1, <1>2, <1>3, <1>4, <1>5, <1>6, <1>7, <1>8, <1>9,
       ListedOpenDir, ListedReadDir, ListedDBScan, ListedCallback
       DEF Call, Mknod, Mkdir, Serve, Callback

\* ListInv: between the calls of ReadDir_, the parts of a SCAN that the workers do and
\* the callbacks, while others create files and write, the known names of a directory
\* stay in the DB and the range of the SCAN is that of the directory; a known name that
\* the next call passes over was returned by an earlier one; a SCAN under way has the
\* known names of every worker visited or those up to the last entry of a full buffer.
\* An entry fits an empty buffer (BufferAssumption), and the second finish of a SCAN
\* that was given up reaches nobody (DBScan).
THEOREM ListInvariant == Spec => []ListInv
  <1>1. Init => ListInv
    <2> SUFFICES ASSUME Init PROVE ListInv
      OBVIOUS
    <2>1. DOMAIN store = {} /\ dirs = [c \in Clients |-> NoDir] /\ \A c \in Clients : req[c].op = "IDLE"
      BY DEF Init, Idle
    <2>2. IsFiniteSet(DOMAIN store)
      BY <2>1, FS_EmptySet
    <2> QED
      BY <2>1, <2>2, FsInit DEF ListInv, Listed, Is
  <1>2. ListInv /\ [Next]_vars => ListInv'
    <2> SUFFICES ASSUME ListInv, [Next]_vars PROVE ListInv'
      OBVIOUS
    <2>1. FsInv'
      BY FsNext DEF ListInv
    <2>2. ASSUME NEW c \in Clients, Call(c) \/ Serve(c) \/ Callback(c)
          PROVE  Listed'
      BY <2>2, ListedStep
    <2>3. UNCHANGED vars => Listed'
      BY ListedQuiet DEF vars, ListInv, Listed, Grows
    <2>4. Listed'
      BY <2>2, <2>3 DEF Next
    <2> QED
      BY <2>1, <2>4 DEF ListInv
  <1> QED
    BY <1>1, <1>2, PTL DEF Spec

\* Reading a directory to its end, in as many calls as its entries need buffers, misses
\* no name the kernel knew when it was opened and lists no name of another directory,
\* for any number of workers and threads, any spread of the keys over the workers, any
\* hashes of the names and any sizes of entries that fit an empty buffer each; as in
\* ListInvariant the second finish of a SCAN that was given up is taken to reach nobody.
THEOREM ListingIsComplete == Spec => []ListsDirectory
  <1>1. ListInv => ListsDirectory
    <2> SUFFICES ASSUME ListInv, NEW c \in Clients, req[c].op = "SCAN"
                 PROVE  /\ \A n \in Range(req[c].out.buf) : n \in Names /\ KeyOf(dirs[c].h, n) \in DOMAIN store
                        /\ Answered(c) /\ req[c].out.buf = <<>> => dirs[c].known \subseteq dirs[c].seen
      BY DEF ListsDirectory
    <2>1. Scanning(c) /\ Reading(c) /\ Is(c, "SCAN")
      BY DEF ListInv, Listed, Scanning, Is
    <2>2. PICK h \in DOMAIN handles : h = dirs[c].h
      BY <2>1 DEF Reading
    <2>3. PICK N, buf : N = NamesIn(h) /\ buf = req[c].out.buf
      OBVIOUS
    <2>4. req[c].out \in [cur_off : Nat, buf : Seq(N), buf_size : Nat, last : Nat, full : BOOLEAN]
      BY <2>1, <2>2, <2>3 DEF Scanning
    <2>5. buf \in Seq(N)
      BY <2>3, <2>4
    <2>6. \A n \in Range(buf) : n \in N
      BY <2>5 DEF Range
    <2>7. \A n \in N : n \in Names /\ KeyOf(dirs[c].h, n) \in DOMAIN store
      BY <2>2, <2>3 DEF NamesIn
    <2>8. ASSUME Answered(c), buf = <<>>, NEW n \in dirs[c].known PROVE n \in dirs[c].seen
      <3>1. Range(buf) = {}
        BY <2>8 DEF Range
      <3>2. n \in dirs[c].seen \cup Range(buf) \/ buf # <<>>
        BY <2>1, <2>3, <2>8, AnswerIsComplete
      <3> QED
        BY <2>8, <3>1, <3>2
    <2> QED
      BY <2>3, <2>6, <2>7, <2>8
  <1> QED
    BY <1>1, ListInvariant, PTL
=============================================================================
