------------------------------ MODULE MCWorker ------------------------------
(***************************************************************************)
(* One seat under TLC: every payload case once, two stop boundaries where  *)
(* a request has any, and seats opened by a client or rebuilt by a replay. *)
(***************************************************************************)
EXTENDS Worker

F(id, kind, polls) == [id |-> id, kind |-> kind, polls |-> polls]

MCFrames ==
    {F(0, "open", 0), F(0, "update", 0), F(0, "close", 0),
     F(1, "open", 0), F(2, "update", 0), F(3, "price", 1), F(4, "sweep", 2),
     F(5, "batch", 1), F(6, "other", 0)}

MCSeeds ==
    {<<F(1, "open", 0)>>, <<F(0, "open", 0), F(0, "update", 0)>>}
=============================================================================
