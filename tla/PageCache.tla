----------------------------- MODULE PageCache ------------------------------
(***************************************************************************)
(* The page cache of a worker (lib/kvengine/pagecache.{h,cc}) under the     *)
(* calls LocalFileSet makes to it (lib/kvengine/local_fileset.cc): the      *)
(* doubly linked list of entries, the map index_, the wait flag, and which  *)
(* page each frame really holds.  The list operations are kept pointer by   *)
(* pointer, because what they do to the list is the point.                  *)
(*                                                                          *)
(* A page holds one item; its content is the number of times it was         *)
(* written.  A turn is a turn of Worker::Main_: calls are made in "drain",  *)
(* Flush carries out the I/O in order and then runs the callbacks in order. *)
(***************************************************************************)
EXTENDS Naturals, Sequences, SequencesExt

CONSTANTS
  Pages,         \* PageHash_ of the pages in use
  MaxPage,       \* max_page_: frames of the cache
  LookupSteps,   \* 20 in Lookup
  MaxEvent,      \* AIO::MAX_EVENT
  Calls,         \* the calls made: subset of {"Read", "Write", "ReadSync"}
  MaxWrite       \* bound: a page is written at most this often

ASSUME CacheAssumption ==
  /\ MaxPage \in Nat \ {0}
  /\ LookupSteps \in Nat
  /\ MaxEvent \in Nat \ {0}
  /\ MaxWrite \in Nat

VARIABLES
  lru,           \* newest_, oldest_ and prev, next of every entry
  index,         \* index_: [set of pages -> entries]
  hash,          \* Entry::hash, of the entries created so far
  wait,          \* Entry::wait
  data,          \* what Entry::page holds: [page, ver]
  disk,          \* disk[p]: times page p was written
  queue,         \* io_queue_: the requests of this turn
  fault,         \* "none", or what stopped the worker: "assert" (line 55),
                 \* "null" (a null pointer is followed), "loop" (no way out)
  stale          \* reads of the last step that returned something else than
                 \* the page as the writes answered before left it

vars == <<lru, index, hash, wait, data, disk, queue, fault, stale>>

Entries == 1 .. MaxPage
Null == 0
used_page == Len(hash)

Init ==
  /\ lru = [newest |-> Null, oldest |-> Null,
            prev |-> [e \in Entries |-> Null], next |-> [e \in Entries |-> Null]]
  /\ index = << >>
  /\ hash = <<>>
  /\ wait = [e \in Entries |-> FALSE]
  /\ data = [e \in Entries |-> <<>>]
  /\ disk = [p \in Pages |-> 0]
  /\ queue = <<>>
  /\ fault = "none"
  /\ stale = {}

-----------------------------------------------------------------------------
(* The list *)

\* PageCache::Update_ makes e the newest entry.  An entry between the newest and
\* the oldest is not taken out of its old place first.
Update(l, e) ==
  IF l.newest = Null
    THEN [newest |-> e, oldest |-> e,
          prev |-> [l.prev EXCEPT ![e] = Null], next |-> [l.next EXCEPT ![e] = Null]]
  ELSE IF e = l.newest THEN l
  ELSE LET oldest == IF e = l.oldest THEN l.prev[e] ELSE l.oldest
           cut == IF e = l.oldest THEN [l.next EXCEPT ![oldest] = Null] ELSE l.next
       IN  [newest |-> e, oldest |-> oldest,
            prev |-> [l.prev EXCEPT ![e] = Null, ![l.newest] = e],
            next |-> [cut EXCEPT ![e] = l.newest]]

\* Update(l, e) follows a null pointer.
UpdateFaults(l, e) ==
  l.newest # Null /\ e # l.newest /\ e = l.oldest /\ l.prev[e] = Null

\* The first n entries one meets from e on along link, Null after the end.
Walk(e, link, n) ==
  LET met[i \in 1 .. n] ==
        IF i = 1 THEN e
        ELSE LET last == met[i - 1] IN IF last = Null THEN Null ELSE link[last]
  IN  met

\* The first entry of w that is in S, or Null.
FirstIn(w, S) ==
  LET found == {n \in DOMAIN w : w[n] \in S}
  IN  IF found = {} THEN Null ELSE w[Min(found)]

\* PageCache::Lookup: the first entries of the list, then index_.
Lookup(p) ==
  LET front == Walk(lru.newest, lru.next, LookupSteps)
      found == FirstIn(front, {e \in DOMAIN hash : hash[e] = p})
  IN  IF found # Null \/ Null \in Range(front) THEN found
      ELSE IF p \in DOMAIN index THEN index[p]
      ELSE Null

\* NewEntry looks for an entry to replace from the oldest on; it does not find
\* an end when it meets more entries than there are.
Candidates == Walk(lru.oldest, lru.prev, MaxPage + 1)

\* The entry NewEntry replaces: the first that does not wait.
Victim == FirstIn(Candidates, {e \in Entries : ~wait[e]})

\* Taking the victim out.
Unlink(e) ==
  IF e = lru.oldest
    THEN [lru EXCEPT !.oldest = lru.prev[e], !.next = [@ EXCEPT ![lru.prev[e]] = Null]]
    ELSE [lru EXCEPT !.next = [@ EXCEPT ![lru.prev[e]] = lru.next[e]],
                     !.prev = [@ EXCEPT ![lru.next[e]] = lru.prev[e]]]

UnlinkFaults(e) ==
  lru.prev[e] = Null \/ (e # lru.oldest /\ lru.next[e] = Null)

Full == used_page = MaxPage

\* The entry NewEntry returns, and the list without it.
NewEntryAt == IF Full THEN Victim ELSE used_page + 1
NewEntryList == IF Full THEN Unlink(Victim) ELSE lru

\* How a call for page p ends when it does not end well.
Fault(p) ==
  LET e == Lookup(p)
  IN  IF e # Null THEN (IF UpdateFaults(lru, e) THEN "null" ELSE "none")
      ELSE IF Full /\ Victim = Null THEN (IF Null \in Range(Candidates) THEN "assert" ELSE "loop")
      ELSE IF Full /\ UnlinkFaults(Victim) THEN "null"
      ELSE IF UpdateFaults(NewEntryList, NewEntryAt) THEN "null"
      ELSE "none"

-----------------------------------------------------------------------------
(* Steps of the worker *)

\* Lookup moves the entry it finds to the front.
Hit(p) ==
  /\ Lookup(p) # Null
  /\ Fault(p) = "none"
  /\ lru' = Update(lru, Lookup(p))
  /\ UNCHANGED <<index, hash, wait, data, disk, fault>>

\* Mutant of NewEntry: the page that was in the frame stays in index_.
NewEntryNoErase(p, waits) ==
  /\ Lookup(p) = Null
  /\ Fault(p) = "none"
  /\ lru' = Update(NewEntryList, NewEntryAt)
  /\ hash' = IF Full THEN [hash EXCEPT ![NewEntryAt] = p] ELSE Append(hash, p)
  /\ index' = [q \in DOMAIN index \cup {p} |->
                IF q \in DOMAIN index THEN index[q] ELSE NewEntryAt]
  /\ wait' = [wait EXCEPT ![NewEntryAt] = waits]
  /\ UNCHANGED <<disk, fault>>

\* Mutant of NewEntry: the frame is not marked.
NewEntryNoWait(p, waits) ==
  /\ Lookup(p) = Null
  /\ Fault(p) = "none"
  /\ LET e == NewEntryAt
         left == IF Full THEN DOMAIN index \ {hash[e]} ELSE DOMAIN index
     IN  /\ lru' = Update(NewEntryList, e)
         /\ hash' = IF Full THEN [hash EXCEPT ![e] = p] ELSE Append(hash, p)
         /\ index' = [q \in left \cup {p} |-> IF q \in left THEN index[q] ELSE e]
  /\ UNCHANGED <<wait, disk, fault>>

\* std::map::emplace keeps an entry that is already there.
NewEntry(p, waits) ==
  /\ Lookup(p) = Null
  /\ Fault(p) = "none"
  /\ LET e == NewEntryAt
         left == IF Full THEN DOMAIN index \ {hash[e]} ELSE DOMAIN index
     IN  /\ lru' = Update(NewEntryList, e)
         /\ hash' = IF Full THEN [hash EXCEPT ![e] = p] ELSE Append(hash, p)
         /\ index' = [q \in left \cup {p} |-> IF q \in left THEN index[q] ELSE e]
         /\ wait' = [wait EXCEPT ![e] = waits]
  /\ UNCHANGED <<disk, fault>>

Enqueue(op, p, e) ==
  /\ queue' = Append(queue, [op |-> op, page |-> p, ent |-> e])
  /\ stale' = {}

\* LocalFileSet::Read
ReadHit(p) == "Read" \in Calls /\ Hit(p) /\ Enqueue("fake", p, Lookup(p))
ReadMiss(p) ==
  "Read" \in Calls /\ NewEntry(p, TRUE) /\ Enqueue("read", p, NewEntryAt) /\ UNCHANGED data

\* LocalFileSet::Write
MayWrite(p) ==
  /\ "Write" \in Calls
  /\ disk[p] + Len(SelectSeq(queue, LAMBDA r : r.op = "write" /\ r.page = p)) < MaxWrite
WriteHit(p) == MayWrite(p) /\ Hit(p) /\ Enqueue("write", p, Lookup(p))
WriteMiss(p) ==
  /\ MayWrite(p)
  /\ Lookup(p) = Null
  /\ Enqueue("write", p, Null)
  /\ UNCHANGED <<lru, index, hash, wait, data, disk, fault>>

\* LocalFileSet::ReadSync
ReadSyncHit(p) ==
  /\ "ReadSync" \in Calls
  /\ Hit(p)
  /\ stale' = IF data[Lookup(p)] = <<p, disk[p]>> THEN {} ELSE {p}
  /\ UNCHANGED queue
ReadSyncMiss(p) ==
  /\ "ReadSync" \in Calls
  /\ NewEntry(p, FALSE)
  /\ data' = [data EXCEPT ![NewEntryAt] = <<p, disk[p]>>]
  /\ stale' = {}
  /\ UNCHANGED queue

\* A call that stops the worker.
Stop(p) ==
  /\ Fault(p) # "none"
  /\ fault' = Fault(p)
  /\ UNCHANGED <<lru, index, hash, wait, data, disk, queue, stale>>

\* io_submit: writes reach the disk, reads fill their frame.
Io(s, r) ==
  CASE r.op = "write" -> [s EXCEPT !.disk[r.page] = @ + 1]
    [] r.op = "read" -> [s EXCEPT !.data[r.ent] = <<r.page, s.disk[r.page]>>]
    [] OTHER -> s

\* AIO::Finish: ReadCallback and WriteCallback.  now is what the writes finished
\* so far have stored.
Done(s, r) ==
  CASE r.op = "write" -> [s EXCEPT !.now[r.page] = @ + 1,
                                   !.data = IF r.ent = Null THEN @
                                            ELSE [@ EXCEPT ![r.ent] = <<r.page, s.now[r.page] + 1>>]]
    [] OTHER -> [s EXCEPT !.stale = IF s.data[r.ent] = <<r.page, s.now[r.page]>>
                                    THEN @ ELSE @ \cup {r.page}]

\* The entries preads of this turn fill.
Filled == {queue[i].ent : i \in {j \in DOMAIN queue : queue[j].op = "read"}}

Flush ==
  /\ fault = "none"
  /\ queue # <<>>
  /\ LET io == FoldLeft(Io, [disk |-> disk, data |-> data], queue)
         fin == FoldLeft(Done, [now |-> disk, data |-> io.data, stale |-> {}], queue)
     IN  /\ disk' = io.disk
         /\ data' = fin.data
         /\ stale' = fin.stale
  /\ wait' = [e \in Entries |-> wait[e] /\ e \notin Filled]
  /\ queue' = <<>>
  /\ UNCHANGED <<lru, index, hash, fault>>

\* A call is part of a request the worker popped, one of at most MaxEvent.
Call(p) ==
  /\ fault = "none"
  /\ Len(queue) < MaxEvent
  /\ \/ ReadHit(p) \/ ReadMiss(p)
     \/ WriteHit(p) \/ WriteMiss(p)
     \/ ReadSyncHit(p) \/ ReadSyncMiss(p)
     \/ Stop(p)

Next == (\E p \in Pages : Call(p)) \/ Flush

Spec == Init /\ [][Next]_vars
-----------------------------------------------------------------------------
(* Properties *)

\* index_ never leads to an entry that was given to another page meanwhile.
IndexConsistent == \A p \in DOMAIN index : index[p] \in DOMAIN hash /\ hash[index[p]] = p

\* What Lookup finds for a page is a frame of that page, whether it met it on the
\* list or took it from index_.
LookupFinds == \A p \in Pages : Lookup(p) # Null => hash[Lookup(p)] = p

\* A pread of this turn will find its frame as it was when the read was enqueued,
\* whatever the calls after it do: the frame still belongs to the page read, and no
\* other pread fills it too.  The frame "can't be replaced" (pagecache.h:47), however
\* full the cache is and wherever a damaged list leads the search for a victim.
PreadsLand ==
  \A i \in DOMAIN queue : queue[i].op = "read" =>
    /\ hash[queue[i].ent] = queue[i].page
    /\ \A j \in DOMAIN queue : queue[j].op = "read" /\ queue[j].ent = queue[i].ent => j = i

\* A read returns its page as the writes finished before it left it
\* (kvengine_test.cc:218).
ReadsFresh == stale = {}
=============================================================================
