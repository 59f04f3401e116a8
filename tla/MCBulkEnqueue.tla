--------------------------- MODULE MCBulkEnqueue ---------------------------
(* TLC instance of BulkEnqueue: the shapes of request that differ.         *)
EXTENDS BulkEnqueue, TLC
CONSTANTS u1, f1, g1, q1, q2

S(id) == [id |-> id, mode |-> "skip"]
R(id) == [id |-> id, mode |-> "replace"]
D(id) == [id |-> id, mode |-> "default"]
Req(items, q, delay) == [items |-> items, queue |-> q, args |-> 1, delay |-> delay]

MCRequests ==
    {Req(<<S(u1)>>, q1, 0), Req(<<R(u1)>>, q2, 0), Req(<<R(u1)>>, q1, 1),
     Req(<<S(u1), R(u1)>>, q1, 0), Req(<<R(u1), S(u1)>>, q2, 0),
     Req(<<S(u1), D(f1), S(u1)>>, q1, 0), Req(<<D(f1), D(g1)>>, q2, 0)}
=============================================================================
