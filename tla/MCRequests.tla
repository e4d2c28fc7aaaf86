----------------------------- MODULE MCRequests -----------------------------
(* Requests on small instances: two actors, each in a tenant of its own.   *)
EXTENDS Requests

CONSTANTS t1, t2, a1, a2

MCPrincipal == {[tenant |-> t1, actor |-> a1], [tenant |-> t2, actor |-> a2]}
=============================================================================
