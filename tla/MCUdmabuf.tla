------------------------------ MODULE MCUdmabuf ------------------------------
(* The board's device-tree node, whose device-name is "udmabuf0", a module   *)
(* parameter udmabuf1, and three clients of the in-kernel interface whose    *)
(* names and numbers collide with each other's and with the node's.          *)
EXTENDS Udmabuf

MCKind == [n |-> "dt", s |-> "static", p |-> "platform", q |-> "platform",
           c |-> "child"]
MCDevice == DOMAIN MCKind

AnyId == -1
Req(name, id) == [name |-> name, id |-> id]
A == <<"a">>

MCRequests ==
  [n |-> {Req(NumberedName(0), AnyId)}, s |-> {Req(NoName, 1)},
   p |-> {Req(A, 2)}, q |-> {Req(A, 2)},
   c |-> {Req(A, AnyId), Req(NoName, 0)}]

\* No two clients ask for the same name, and the child names nothing, as
\* "device name or NULL" and "device id or negative integer" allow.
AnonymousRequests ==
  [MCRequests EXCEPT !.p = {Req(<<"b">>, 2)}, !.q = {Req(<<"d">>, AnyId)},
                     !.c = {Req(NoName, AnyId)}]
==============================================================================
