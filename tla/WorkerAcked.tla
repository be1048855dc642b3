---------------------------- MODULE WorkerAcked -----------------------------
(***************************************************************************)
(* A worker observed by clients that remember, as test/kvengine_test.cc     *)
(* does, what the last write of a key they were told about stored.  It is   *)
(* meant for clients that own their keys: no two requests for one key are   *)
(* outstanding together.                                                    *)
(***************************************************************************)
EXTENDS Worker

VARIABLE acked   \* [keys whose last acknowledged write stored a value -> it]

AckedInit == Init /\ acked = << >>

\* Remember what the request answered in this step left under its key.
Remember ==
  acked' =
    IF reply' = NoReply \/ reply'.res # Ok THEN acked
    ELSE IF reply'.req.op = "DELETE"
      THEN [k \in DOMAIN acked \ {reply'.req.key} |-> acked[k]]
      ELSE [k \in DOMAIN acked \cup {reply'.req.key} |->
              IF k = reply'.req.key THEN reply'.req.val ELSE acked[k]]

AckedNext == Next /\ Remember

AckedSpec == AckedInit /\ [][AckedNext]_<<vars, acked>>

\* A GET returns what the last acknowledged PUT or UPDATE of its key stored
\* (kvengine_test.cc:208 and kvengine_test.cc:218).
GetSeesAcked ==
  reply # NoReply /\ reply.req.op = "GET" /\ reply.req.key \in DOMAIN acked
    => reply.res = <<"val", acked[reply.req.key]>>
=============================================================================
