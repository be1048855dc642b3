------------------------------- MODULE KVStore ------------------------------
(***************************************************************************)
(* What one kvengine worker promises its clients: a map from keys to values *)
(* on which every request takes effect at one instant between the moment    *)
(* the client hands it over and the moment its callback runs.  The results  *)
(* are those ProcessRequest_ and AIO::Finish pass to Batch::FinishRequest.  *)
(***************************************************************************)
EXTENDS Naturals

CONSTANTS
  Clients,       \* threads with one request at a time
  Requests,      \* the requests they make
  WriteFaults    \* TRUE when a write may be refused with an I/O error

VARIABLES
  store,         \* the map: [set of keys -> values]
  req,           \* req[c]: the request client c waits for, or NoReq
  out,           \* out[c]: its result once it took effect, Pending before
  reply          \* the answer given in this step, or NoReply

vars == <<store, req, out, reply>>

NoReq == [op |-> "NONE"]
NoReply == [res |-> <<"none">>]
Pending == <<"pending">>

Ok == <<"ok">>
ENOENT == <<"ENOENT">>
EEXIST == <<"EEXIST">>
EIO == <<"EIO">>

Init ==
  /\ store = << >>
  /\ req = [c \in Clients |-> NoReq]
  /\ out = [c \in Clients |-> Pending]
  /\ reply = NoReply

Set(k, v) == [j \in DOMAIN store \cup {k} |-> IF j = k THEN v ELSE store[j]]
Drop(k) == [j \in DOMAIN store \ {k} |-> store[j]]

\* r, executed on store, may give result res and leave the map new.
Effect(r, res, new) ==
  \/ /\ r.op \in {"GET", "UPDATE", "DELETE"}
     /\ r.key \notin DOMAIN store
     /\ res = ENOENT /\ new = store
  \/ /\ r.op = "PUT"
     /\ r.key \in DOMAIN store
     /\ res = EEXIST /\ new = store
  \/ /\ r.op = "GET"
     /\ r.key \in DOMAIN store
     /\ res = <<"val", store[r.key]>> /\ new = store
  \/ /\ r.op = "PUT"
     /\ r.key \notin DOMAIN store
     /\ res = Ok /\ new = Set(r.key, r.val)
  \/ /\ r.op = "UPDATE"
     /\ r.key \in DOMAIN store
     /\ res = Ok /\ new = Set(r.key, r.val)
  \/ /\ r.op = "DELETE"
     /\ r.key \in DOMAIN store
     /\ res = Ok /\ new = Drop(r.key)
  \/ /\ r.op = "SCAN"
     /\ res = <<"scan", {<<k, store[k]>> : k \in {j \in DOMAIN store :
                                          r.min_key <= j /\ j < r.max_key}}>>
     /\ new = store
  \/ /\ WriteFaults
     /\ r.op \in {"PUT", "UPDATE", "DELETE"}
     /\ res = EIO /\ new = store

Call(c) ==
  /\ req[c] = NoReq
  /\ \E r \in Requests : req' = [req EXCEPT ![c] = r]
  /\ reply' = NoReply
  /\ UNCHANGED <<store, out>>

\* The request takes effect before its callback runs ...
Do(c) ==
  /\ req[c] # NoReq
  /\ out[c] = Pending
  /\ out'[c] # Pending
  /\ out' = [out EXCEPT ![c] = out'[c]]
  /\ Effect(req[c], out'[c], store')
  /\ reply' = NoReply
  /\ UNCHANGED req

Answer(c, res) ==
  /\ req' = [req EXCEPT ![c] = NoReq]
  /\ reply' = [c |-> c, req |-> req[c], res |-> res]

Return(c) ==
  /\ out[c] # Pending
  /\ Answer(c, out[c])
  /\ out' = [out EXCEPT ![c] = Pending]
  /\ UNCHANGED store

\* ... or in the step that runs it.
DoReturn(c) ==
  /\ req[c] # NoReq
  /\ out[c] = Pending
  /\ Effect(req[c], reply'.res, store')
  /\ Answer(c, reply'.res)
  /\ UNCHANGED out

Quiet == reply' = NoReply /\ UNCHANGED <<store, req, out>>

Next == (\E c \in Clients : Call(c) \/ Do(c) \/ Return(c) \/ DoReturn(c)) \/ Quiet

Spec == Init /\ [][Next]_vars
=============================================================================
