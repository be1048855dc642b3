------------------------------- MODULE MCFiles ------------------------------
(***************************************************************************)
(* KTableFS for TLC in two plans that share one run.  In plan "files" the   *)
(* clients create the same two names, c1 writes and c2 looks them up; in    *)
(* plan "listing" there are three names in every directory, and c2 reads    *)
(* directories besides, but nobody writes.                                  *)
(***************************************************************************)
EXTENDS MCKTableFS

VARIABLE plan

Calling == (c1 :> {"mknod", "mkdir", "write_buf"}) @@ (c2 :> {"lookup", "mknod", "readdir"})

\* The keys of the names of plan "files".
FewKeys == {k \in Keys : FromSlice(k).name \in DOMAIN TwoNames}

Working(c) ==
  /\ dirs'[c] = NoDir
  /\ req'[c].op \in {"GET", "PUT"} => req'[c].key \in FewKeys

Listing(c) == req'[c].op # "UPDATE"

MCInit == Init /\ plan \in {"files", "listing"}

MCNext ==
  /\ Next
  /\ \A c \in Clients : IF plan = "files" THEN Working(c) ELSE Listing(c)
  /\ UNCHANGED plan

MCSpec == MCInit /\ [][MCNext]_<<vars, plan>>
=============================================================================
