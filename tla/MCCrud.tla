------------------------------- MODULE MCCrud -------------------------------
(* The CRUD routes for TLC: two workers; documents of two lengths; ids from *)
(* -1 to 2, so that POSTs run out of ids and PUTs choose any.               *)
EXTENDS Crud, TLC

CONSTANTS r1, r2, short, long

MCData == {short, long}
MCSize == short :> 1 @@ long :> 2

Req(m, r, i, d) == [method |-> m, resource |-> r, id |-> i, json |-> TRUE, doc |-> d]

Posts(R, D) == {Req("POST", r, None, d) : r \in R, d \in D}
Puts(R, I, D) == {Req("PUT", r, i, d) : r \in R, i \in I, d \in D}
Gets(R, I) == {Req("GET", r, i, NotJson) : r \in R, i \in I \cup {None}}
Deletes(R, I) == {Req("DELETE", r, i, NotJson) : r \in R, i \in I}

\* One request for each check of handle_request and the method handlers.
BadRequests ==
  {Req("GET", None, None, NotJson), Req("OTHER", r1, None, NotJson),
   Req("PUT", r1, None, short), Req("DELETE", r1, NotInt, NotJson),
   [Req("PUT", r1, 1, short) EXCEPT !.json = FALSE], Req("POST", r1, None, NotJson)}

TwoResources == {r1, r2}
StoreClients ==
  Posts({r1}, MCData) \cup Puts({r1}, {2}, MCData) \cup Gets({r1}, {1, 2}) \cup
  Deletes({r1}, {1, 2}) \cup Posts({r2}, {short}) \cup Gets({r2}, {1})
OneResource == {r1}
CrashClients ==
  Posts({r1}, MCData) \cup Puts({r1}, {-1, 2}, MCData) \cup Gets({r1}, {1}) \cup
  Deletes({r1}, {1}) \cup BadRequests
PostClients == Posts(OneResource, MCData)

MinusOne == -1
SixInodes == 1..6
WorkerSymmetry == Permutations(Workers)
=============================================================================
