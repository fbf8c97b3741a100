------------------------------ MODULE CrudApi -------------------------------
(***************************************************************************)
(* The requests of the CRUD API and their answers, as CrudRequestHandler   *)
(* tells them apart: the method, the resource and the id in the URI, and   *)
(* whether the body is announced as JSON and is JSON.                      *)
(***************************************************************************)
EXTENDS Integers, FiniteSets

CONSTANTS
  Workers, Resources,
  Data,          \* JSON documents
  MinId, MaxId,  \* INT_MIN and INT_MAX
  None,          \* no resource, no id, no document
  NotInt,        \* an id that is not an int
  NotJson,       \* a body that is not JSON
  Torn,          \* stored bytes that are no client's document
  Clients        \* the requests that clients send

Ids == MinId..MaxId

Requests ==
  [method : {"POST", "GET", "PUT", "DELETE", "OTHER"},
   resource : Resources \cup {None}, id : Ids \cup {None, NotInt},
   json : BOOLEAN, doc : Data \cup {NotJson}]

ASSUME CrudApiAssumption ==
  /\ Clients \subseteq Requests
  /\ MinId \in Int /\ MaxId \in Int /\ MinId <= 0 /\ 0 < MaxId
  /\ None \notin Data \cup Clients \cup {Torn}
  /\ Torn \notin Data /\ NotJson \notin Data

\* The status of a request that never reaches the storage, 0 for the others:
\* the checks of handle_request and of the method's handler, in their order.
Refusal(req) ==
  IF req.resource = None \/ req.method = "OTHER" THEN 400
  ELSE IF req.method \in {"PUT", "DELETE"} /\ req.id = None THEN 405
  ELSE IF req.method # "POST" /\ req.id = NotInt THEN 404
  ELSE IF req.method \in {"POST", "PUT"} /\ ~req.json THEN 415
  ELSE IF req.method \in {"POST", "PUT"} /\ req.doc = NotJson THEN 400
  ELSE 0

\* An answer names the request it answers; a client waits while it is Pending.
Replies == [req : Clients \cup {None},
            status : {0, 200, 201, 204, 400, 404, 405, 415, 500},
            doc : Data \cup {None, Torn}, ids : SUBSET Ids]

Answer(req, status, doc, ids) ==
  [req |-> req, status |-> status, doc |-> doc, ids |-> ids]
Plain(req, status) == Answer(req, status, None, {})
Pending == Plain(None, 0)

\* get_next_available_id: one more than the largest id in use, counting from
\* 0; ids below 0, which a PUT may have chosen, do not matter.
NextId(used) == (CHOOSE m \in used \cup {0} : \A i \in used \cup {0} : i <= m) + 1
=============================================================================
