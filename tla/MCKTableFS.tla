----------------------------- MODULE MCKTableFS -----------------------------
(***************************************************************************)
(* Instances of KTableFS for TLC: bytes are 0 and 1.                        *)
(***************************************************************************)
EXTENDS KTableFSInv

\* Two names, one of them with hash 0 as in the bounds of a directory's range.
TwoNames == (<<0>> :> <<0>>) @@ (<<1, 1>> :> <<1>>)

\* A third one, with the hash of the second.
ThreeNames == TwoNames @@ (<<1>> :> <<1>>)

\* The entry of a name is as large as the name.
MCEntSize == [n \in Names |-> Len(n)]

\* Names of a directory are spread over the workers, differently in each.
MCSplit == [k \in Keys |-> (FromSlice(k).dir_ino + Len(k)) % WorkerNum]

CONSTANTS c1, c2

\* Both write files both know.
Writers == [c \in Clients |-> {"mknod", "lookup", "write_buf"}]
=============================================================================
