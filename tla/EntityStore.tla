---------------------------- MODULE EntityStore -----------------------------
(***************************************************************************)
(* What the CRUD API promises its clients: a map from resources and        *)
(* integer ids to documents, on which requests act one at a time, each     *)
(* between its arrival and its answer.  It is the handler over             *)
(* SimEntityStorage, the storage its tests use.                            *)
(***************************************************************************)
EXTENDS CrudApi

VARIABLES entities, \* entities[r][i]: the document of entity i, or None
          reply     \* each worker's last answer

storeVars == <<entities, reply>>

InUse(r) == {i \in Ids : entities[r][i] # None}

Init ==
  /\ entities = [r \in Resources |-> [i \in Ids |-> None]]
  /\ reply = [w \in Workers |-> Pending]

Set(r, i, doc) == entities' = [entities EXCEPT ![r][i] = doc]
Reply(w, answer) == reply' = [reply EXCEPT ![w] = answer]

Arrive(w) == Reply(w, Pending) /\ UNCHANGED entities

Refuse(w, req) ==
  /\ Refusal(req) # 0
  /\ Reply(w, Plain(req, Refusal(req)))
  /\ UNCHANGED entities

Create(w, req) ==
  /\ req.method = "POST"
  /\ \/ /\ NextId(InUse(req.resource)) \in Ids
        /\ Set(req.resource, NextId(InUse(req.resource)), req.doc)
        /\ Reply(w, Answer(req, 201, None, {NextId(InUse(req.resource))}))
     \/ /\ NextId(InUse(req.resource)) \notin Ids
        /\ Reply(w, Plain(req, 500))
        /\ UNCHANGED entities

Retrieve(w, req) ==
  /\ req.method = "GET" /\ req.id # None
  /\ Reply(w, IF entities[req.resource][req.id] = None THEN Plain(req, 404)
              ELSE Answer(req, 200, entities[req.resource][req.id], {}))
  /\ UNCHANGED entities

List(w, req) ==
  /\ req.method = "GET" /\ req.id = None
  /\ Reply(w, IF InUse(req.resource) = {} THEN Plain(req, 404)
              ELSE Answer(req, 200, None, InUse(req.resource)))
  /\ UNCHANGED entities

Update(w, req) ==
  /\ req.method = "PUT"
  /\ Reply(w, Plain(req, IF entities[req.resource][req.id] = None THEN 201 ELSE 200))
  /\ Set(req.resource, req.id, req.doc)

Remove(w, req) ==
  /\ req.method = "DELETE"
  /\ Reply(w, Plain(req, IF entities[req.resource][req.id] = None THEN 404 ELSE 204))
  /\ Set(req.resource, req.id, None)

Serve(w, req) ==
  /\ Refusal(req) = 0
  /\ \/ Create(w, req)
     \/ Retrieve(w, req)
     \/ List(w, req)
     \/ Update(w, req)
     \/ Remove(w, req)

Next ==
  \E w \in Workers :
    \/ Arrive(w)
    \/ \E req \in Clients : Refuse(w, req) \/ Serve(w, req)

Spec == Init /\ [][Next]_storeVars
=============================================================================
