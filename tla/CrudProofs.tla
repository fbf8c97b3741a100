----------------------------- MODULE CrudProofs -----------------------------
(***************************************************************************)
(* What holds of the CRUD routes for every number of workers, resources,   *)
(* documents and ids, and for every fault of the file system.              *)
(***************************************************************************)
EXTENDS Crud, WellFoundedInduction, TLAPS

-----------------------------------------------------------------------------
(* The id of a new entity.                                                 *)

\* The largest id exists: there are finitely many, and 0 is always counted.
LEMMA LargestId ==
  ASSUME NEW used \in SUBSET Ids
  PROVE  \E m \in used \cup {0} : \A i \in used \cup {0} : i <= m
  <1> DEFINE D == {MaxId - i : i \in used \cup {0}}
  <1>1. 0 \in Ids /\ Ids \subseteq Int /\ MaxId \in Int
    BY CrudApiAssumption DEF Ids
  <1>2. D \subseteq Nat /\ D # {}
    BY <1>1 DEF Ids
  <1>3. PICK d \in D : \A e \in D : ~(<<e, d>> \in OpToRel(<, Nat))
    BY <1>2, NatLessThanWellFounded, WFMin
  <1>4. \A e \in D : ~(e < d)
    BY <1>2, <1>3 DEF OpToRel
  <1>5. PICK m \in used \cup {0} : d = MaxId - m
    OBVIOUS
  <1>6. ASSUME NEW i \in used \cup {0} PROVE i <= m
    <2>1. MaxId - i \in D
      OBVIOUS
    <2>2. ~(MaxId - i < MaxId - m)
      BY <2>1, <1>4, <1>5
    <2>3. QED BY <2>2, <1>1
  <1>7. QED BY <1>6

\* A POST is given an id above every id in use, and never one below 1.
LEMMA NextIdAbove ==
  ASSUME NEW used \in SUBSET Ids
  PROVE  /\ NextId(used) \in Int /\ 0 < NextId(used)
         /\ \A i \in used : i < NextId(used)
  <1> DEFINE IsLargest(m) == \A i \in used \cup {0} : i <= m
             m == CHOOSE m \in used \cup {0} : IsLargest(m)
  <1>1. m \in used \cup {0} /\ IsLargest(m)
    BY LargestId
  <1>2. NextId(used) = m + 1
    BY DEF NextId
  <1> HIDE DEF m
  <1>3. used \subseteq Int
    BY CrudApiAssumption DEF Ids
  <1>4. m \in Int /\ 0 <= m
    BY <1>1, <1>3
  <1>5. QED BY <1>1, <1>2, <1>3, <1>4

-----------------------------------------------------------------------------
(* Type correctness.  A worker in a handler serves a request that passed   *)
(* the checks, and has a file open at the steps that use one.              *)

AtRest == {"idle", "dead"}
PostPcs == {"scan", "create_open", "create_write"}
PutPcs == {"put_check", "put_open", "put_write"}
WritePcs == {"create_write", "put_write"}
OpenPcs == WritePcs \cup {"get_read"}

Accepted(req) ==
  /\ req \in Clients
  /\ req.resource \in Resources
  /\ req.method \in {"POST", "PUT"} => req.doc \in Data

LocalsOf(w) ==
  /\ pc[w] \in AtRest => request[w] = None
  /\ pc[w] \notin AtRest => Accepted(request[w])
  /\ pc[w] \in PostPcs => request[w].method = "POST"
  /\ pc[w] \in PutPcs => request[w].method = "PUT"
  /\ pc[w] \in OpenPcs => handle[w] \in Inodes
  /\ pc[w] \notin OpenPcs => handle[w] = NoFile

Locals == \A w \in Workers : LocalsOf(w)

TypeInv == TypeOK /\ Locals

\* A request that the checks let through names a resource, its id is one,
\* and its body is a document where one is stored.
LEMMA AcceptedIs ==
  ASSUME NEW req \in Clients, Refusal(req) = 0
  PROVE  /\ Accepted(req)
         /\ req.method \in {"POST", "GET", "PUT", "DELETE"}
         /\ req.method # "POST" /\ req.id # None => req.id \in Ids
  <1>1. req \in Requests
    BY CrudApiAssumption
  <1>2. req.resource \in Resources /\ req.method \in {"POST", "GET", "PUT", "DELETE"}
    BY <1>1 DEF Requests, Refusal
  <1>3. req.method \in {"POST", "PUT"} => req.doc \in Data
    BY <1>1 DEF Requests, Refusal
  <1>4. req.method # "POST" /\ req.id # None => req.id \in Ids
    BY <1>1 DEF Requests, Refusal
  <1>5. QED BY <1>2, <1>3, <1>4 DEF Accepted

\* 0 is an id, and no file has the number of no file.
LEMMA Constants ==
  /\ 0 \in Ids /\ Ids \subseteq Int /\ MaxId \in Int
  /\ NoFile \notin Inodes
  /\ \A i \in Int : 0 < i /\ i <= MaxId => i \in Ids
  /\ None \notin Clients
  /\ Size \in [Data -> Nat \ {0}]
  <1>1. MinId \in Int /\ MaxId \in Int /\ MinId <= 0 /\ 0 < MaxId
    BY CrudApiAssumption
  <1>2. NoFile \notin Inodes
    BY CrudAssumption DEF NoFile
  <1>3. None \notin Clients
    BY CrudApiAssumption
  <1>4. Size \in [Data -> Nat \ {0}]
    BY CrudAssumption
  <1>5. QED BY <1>1, <1>2, <1>3, <1>4 DEF Ids

\* What a file system call leaves in the files is typed.
LEMMA ContentsType ==
  /\ Blank \in Contents
  /\ \A b \in Contents : ReadBack(b) \in Data \cup {Torn}
  /\ \A b \in Contents, doc \in Data : Overwritten(b, doc) \in Contents
  BY Constants DEF Blank, Contents, ReadBack, Overwritten

\* Settling keeps the files typed.
LEMMA SettleType ==
  ASSUME NEW STATE new, new \in [Inodes -> Contents], Settle(new)
  PROVE  bytes' \in [Inodes -> Contents]
  BY ContentsType DEF Settle

\* Nothing is open or stored at the start.
LEMMA InitTypeInv == Init => TypeInv
  <1> SUFFICES ASSUME Init PROVE TypeInv
    OBVIOUS
  <1>1. Pending \in Replies
    BY DEF Pending, Plain, Answer, Replies
  <1>2. TypeOK
    BY <1>1, Constants, ContentsType DEF Init, TypeOK, Labels
  <1>3. Locals
    BY DEF Init, Locals, LocalsOf, AtRest, PostPcs, PutPcs, OpenPcs, WritePcs
  <1>4. QED BY <1>2, <1>3 DEF TypeInv

FilesTyped ==
  /\ link \in [Resources -> [Ids -> Inodes \cup {NoFile}]]
  /\ bytes \in [Inodes -> Contents]
  /\ acked \in [Resources -> [Ids -> Data \cup {None, Torn}]]

\* A worker that answers closes its file and forgets its request.
LEMMA ReturnTypeInv ==
  ASSUME TypeInv, NEW w \in Workers, NEW answer \in Replies,
         Return(w, answer), FilesTyped',
         \/ handle' = [handle EXCEPT ![w] = NoFile]
         \/ handle' = handle /\ handle[w] = NoFile
  PROVE  TypeInv'
  <1>1. /\ handle' \in [Workers -> Inodes \cup {NoFile}]
        /\ handle'[w] = NoFile
        /\ \A v \in Workers \ {w} : handle'[v] = handle[v]
    BY DEF TypeInv, TypeOK
  <1>2. TypeOK'
    BY <1>1, Constants DEF Return, GoTo, FilesTyped, TypeInv, TypeOK, Labels
  <1>3. LocalsOf(w)'
    BY <1>1 DEF Return, GoTo, TypeInv, TypeOK, LocalsOf, AtRest, PostPcs, PutPcs,
                OpenPcs, WritePcs
  <1>4. ASSUME NEW v \in Workers \ {w} PROVE LocalsOf(v)'
    <2>1. pc'[v] = pc[v] /\ request'[v] = request[v] /\ handle'[v] = handle[v]
      BY <1>1 DEF Return, GoTo, TypeInv, TypeOK
    <2>2. QED BY <2>1 DEF TypeInv, Locals, LocalsOf
  <1>5. QED BY <1>2, <1>3, <1>4 DEF TypeInv, Locals

\* A worker goes on to another step with a file open or without.
LEMMA GoToTypeInv ==
  ASSUME TypeInv, NEW w \in Workers, NEW label \in Labels \ AtRest,
         GoTo(w, label), FilesTyped',
         request' \in [Workers -> Clients \cup {None}],
         \A v \in Workers \ {w} : request'[v] = request[v],
         Accepted(request'[w]),
         label \in PostPcs => request'[w].method = "POST",
         label \in PutPcs => request'[w].method = "PUT",
         target' \in [Workers -> Ids],
         existed' \in [Workers -> BOOLEAN],
         reply' \in [Workers -> Replies],
         handle' \in [Workers -> Inodes \cup {NoFile}],
         label \in OpenPcs => handle'[w] \in Inodes,
         label \notin OpenPcs => handle'[w] = NoFile,
         \A v \in Workers \ {w} : handle'[v] = handle[v]
  PROVE  TypeInv'
  <1>1. TypeOK'
    BY DEF GoTo, FilesTyped, TypeInv, TypeOK
  <1>2. LocalsOf(w)'
    BY DEF GoTo, TypeInv, TypeOK, LocalsOf, Accepted
  <1>3. ASSUME NEW v \in Workers \ {w} PROVE LocalsOf(v)'
    <2>1. pc'[v] = pc[v]
      BY DEF GoTo, TypeInv, TypeOK
    <2>2. QED BY <2>1 DEF TypeInv, Locals, LocalsOf, Accepted
  <1>4. QED BY <1>1, <1>2, <1>3 DEF TypeInv, Locals

\* What a worker in a handler serves and acts on.
LEMMA InHandler ==
  ASSUME TypeInv, NEW w \in Workers, pc[w] \notin AtRest
  PROVE  /\ request[w] \in Clients /\ Resource(w) \in Resources
         /\ target[w] \in Ids
         /\ pc[w] \in PostPcs \cup PutPcs => request[w].doc \in Data
         /\ File(w) \in Inodes \cup {NoFile}
  BY DEF TypeInv, TypeOK, Locals, LocalsOf, Accepted, Resource, File

\* Answers are typed.
LEMMA RepliesType ==
  ASSUME NEW req \in Clients \cup {None},
         NEW status \in {0, 200, 201, 204, 400, 404, 405, 415, 500}
  PROVE  /\ Plain(req, status) \in Replies
         /\ \A doc \in Data \cup {None, Torn}, ids \in SUBSET Ids :
              Answer(req, status, doc, ids) \in Replies
  BY DEF Plain, Answer, Replies

\* Promising what a write left keeps the history typed.
LEMMA PromiseType ==
  ASSUME TypeInv, NEW w \in Workers, pc[w] \notin AtRest,
         NEW doc \in Data \cup {None, Torn}, Promise(w, doc)
  PROVE  acked' \in [Resources -> [Ids -> Data \cup {None, Torn}]]
  BY InHandler DEF TypeInv, TypeOK, Promise

\* Opening a file for writing gives the worker a file.
LEMMA OpenType ==
  ASSUME TypeInv, NEW w \in Workers, pc[w] \notin AtRest, OpenForWriting(w)
  PROVE  /\ link' \in [Resources -> [Ids -> Inodes \cup {NoFile}]]
         /\ bytes' \in [Inodes -> Contents]
         /\ handle' \in [Workers -> Inodes \cup {NoFile}]
         /\ handle'[w] \in Inodes
         /\ \A v \in Workers \ {w} : handle'[v] = handle[v]
  <1>1. CASE File(w) = NoFile
    <2>1. PICK f \in Inodes : /\ handle' = [handle EXCEPT ![w] = f]
                              /\ link' = [link EXCEPT ![Resource(w)][target[w]] = f]
                              /\ bytes' = bytes
      BY <1>1 DEF OpenForWriting, CreateFile
    <2>2. QED BY <2>1, InHandler DEF TypeInv, TypeOK
  <1>2. CASE File(w) # NoFile
    <2>1. File(w) \in Inodes
      BY <1>2, InHandler
    <2>2. QED BY <1>2, <2>1, ContentsType DEF OpenForWriting, Truncate, TypeInv, TypeOK
  <1>3. QED BY <1>1, <1>2

\* Closing the stream writes a document or nothing.
LEMMA WriteType ==
  ASSUME TypeInv, NEW w \in Workers, pc[w] \in WritePcs, WriteAndClose(w)
  PROVE  FilesTyped' /\ handle' = [handle EXCEPT ![w] = NoFile]
  <1>1. pc[w] \notin AtRest /\ pc[w] \in PostPcs \cup PutPcs /\ pc[w] \in OpenPcs
    BY DEF WritePcs, AtRest, PostPcs, PutPcs, OpenPcs
  <1>2. handle[w] \in Inodes /\ request[w].doc \in Data
    BY <1>1, InHandler DEF TypeInv, Locals, LocalsOf
  <1> DEFINE written == [bytes EXCEPT ![handle[w]] = Overwritten(@, request[w].doc)]
  <1>3. written \in [Inodes -> Contents] /\ bytes \in [Inodes -> Contents]
    BY <1>2, ContentsType DEF TypeInv, TypeOK
  <1>4. bytes' \in [Inodes -> Contents]
    <2>1. Settle(written) \/ Settle(bytes)
      BY DEF WriteAndClose
    <2>2. QED BY <2>1, <1>3, SettleType
  <1>5. acked' \in [Resources -> [Ids -> Data \cup {None, Torn}]]
    BY <1>1, <1>2, PromiseType DEF WriteAndClose
  <1>6. QED BY <1>4, <1>5 DEF WriteAndClose, FilesTyped, TypeInv, TypeOK

\* The end of threads drops what they had, and their files settle.
LEMMA DieTypeInv ==
  ASSUME TypeInv, NEW dying \in SUBSET Workers, Die(dying)
  PROVE  TypeInv'
  <1>1. bytes' \in [Inodes -> Contents]
    BY SettleType DEF Die, TypeInv, TypeOK
  <1>2. Pending \in Replies
    BY RepliesType DEF Pending
  <1>3. TypeOK'
    BY <1>1, <1>2, Constants DEF Die, TypeInv, TypeOK, Labels
  <1>4. Locals'
    BY DEF Die, TypeInv, TypeOK, Locals, LocalsOf, Accepted, AtRest, PostPcs, PutPcs,
           OpenPcs, WritePcs
  <1>5. QED BY <1>3, <1>4 DEF TypeInv

\* No step of a handler, and no failure, breaks a type.
LEMMA NextTypeInv == TypeInv /\ [Next]_vars => TypeInv'
  <1> SUFFICES ASSUME TypeInv, [Next]_vars PROVE TypeInv'
    OBVIOUS
  <1>t. FilesTyped
    BY DEF TypeInv, TypeOK, FilesTyped
  <1>l. \A w \in Workers : LocalsOf(w)
    BY DEF TypeInv, Locals
  <1>k. /\ pc \in [Workers -> Labels] /\ request \in [Workers -> Clients \cup {None}]
        /\ target \in [Workers -> Ids] /\ existed \in [Workers -> BOOLEAN]
        /\ handle \in [Workers -> Inodes \cup {NoFile}] /\ reply \in [Workers -> Replies]
    BY DEF TypeInv, TypeOK
  <1> USE DEF AtRest, PostPcs, PutPcs, OpenPcs, WritePcs, Labels
  <1>1. ASSUME NEW w \in Workers, NEW req \in Clients, Begin(w, req)
        PROVE  TypeInv'
    <2>1. /\ Accepted(req)
          /\ req.method \in {"POST", "GET", "PUT", "DELETE"}
          /\ req.method # "POST" /\ req.id # None => req.id \in Ids
      BY <1>1, AcceptedIs DEF Begin
    <2>2. /\ FirstStep(req) \in Labels \ AtRest
          /\ FirstStep(req) \in PostPcs => req.method = "POST"
          /\ FirstStep(req) \in PutPcs => req.method = "PUT"
          /\ FirstStep(req) \notin OpenPcs
      BY <2>1 DEF FirstStep
    <2>3. target' \in [Workers -> Ids]
      BY <1>1, <1>k, <2>1, Constants DEF Begin
    <2>4. reply' \in [Workers -> Replies]
      BY <1>1, <1>k, RepliesType DEF Begin, Pending
    <2>5. /\ request' \in [Workers -> Clients \cup {None}] /\ request'[w] = req
          /\ \A v \in Workers \ {w} : request'[v] = request[v]
      BY <1>1, <1>k DEF Begin
    <2>6. FilesTyped' /\ handle' = handle /\ existed' = existed /\ GoTo(w, FirstStep(req))
      BY <1>1, <1>t DEF Begin, FilesTyped
    <2>7. handle[w] = NoFile
      BY <1>1, <1>l DEF Begin, LocalsOf
    <2>8. QED BY ONLY TypeInv, <1>k, <2>1, <2>2, <2>3, <2>4, <2>5, <2>6, <2>7, GoToTypeInv
  <1>2. ASSUME NEW w \in Workers, NEW req \in Clients, Refuse(w, req)
        PROVE  TypeInv'
    <2>1. Plain(req, Refusal(req)) \in Replies
      BY RepliesType DEF Refusal
    <2>2. Return(w, Plain(req, Refusal(req))) /\ FilesTyped' /\ handle' = handle
      BY <1>2, <1>t DEF Refuse, FilesTyped
    <2>3. handle[w] = NoFile
      BY <1>2, <1>l DEF Refuse, LocalsOf
    <2>4. QED BY <2>1, <2>2, <2>3, ReturnTypeInv
  <1>3. ASSUME NEW w \in Workers, CreateScan(w) PROVE TypeInv'
    <2>1. InUse(Resource(w)) \in SUBSET Ids
      BY DEF InUse
    <2>2. NextId(InUse(Resource(w))) \in Ids
      BY <1>3, <2>1, NextIdAbove, Constants DEF CreateScan
    <2>3. /\ target' \in [Workers -> Ids] /\ GoTo(w, "create_open") /\ FilesTyped'
          /\ UNCHANGED <<request, existed, handle, reply>>
      BY <1>3, <1>k, <1>t, <2>2 DEF CreateScan, FilesTyped
    <2>4. /\ Accepted(request[w]) /\ request[w].method = "POST" /\ handle[w] = NoFile
      BY <1>3, <1>l DEF CreateScan, LocalsOf
    <2>5. QED BY <1>k, <2>3, <2>4, GoToTypeInv
  <1>4. ASSUME NEW w \in Workers,
               CreateNoId(w) \/ GetMissing(w) \/ List(w)
        PROVE  TypeInv'
    <2>1. pc[w] \in {"scan", "get_open", "list"} /\ handle[w] = NoFile
      BY <1>4, <1>l DEF CreateNoId, GetMissing, List, LocalsOf
    <2>2. /\ Plain(request[w], 500) \in Replies /\ Plain(request[w], 404) \in Replies
          /\ \A ids \in SUBSET Ids : Answer(request[w], 200, None, ids) \in Replies
      <3>1. request[w] \in Clients \cup {None}
        BY <1>k
      <3>2. QED BY <3>1, RepliesType
    <2>3. \E answer \in Replies : Return(w, answer)
      BY <1>4, <2>2 DEF CreateNoId, GetMissing, List, InUse
    <2>4. FilesTyped' /\ handle' = handle
      BY <1>4, <1>t DEF CreateNoId, GetMissing, List, FilesTyped
    <2>5. QED BY <2>1, <2>3, <2>4, ReturnTypeInv
  <1>5. ASSUME NEW w \in Workers, CreateOpen(w) PROVE TypeInv'
    <2>1. /\ pc[w] = "create_open" /\ OpenForWriting(w) /\ GoTo(w, "create_write")
          /\ UNCHANGED <<request, target, existed, reply, acked>>
      BY <1>5 DEF CreateOpen, requestVars
    <2>2. Accepted(request[w]) /\ request[w].method = "POST"
      BY <2>1, <1>l DEF LocalsOf
    <2>3. FilesTyped'
      BY <2>1, <1>t, OpenType DEF FilesTyped
    <2>4. QED BY <2>1, <2>2, <2>3, <1>k, OpenType, GoToTypeInv
  <1>6. ASSUME NEW w \in Workers, PutOpen(w) PROVE TypeInv'
    <2>1. /\ pc[w] = "put_open" /\ OpenForWriting(w) /\ GoTo(w, "put_write")
          /\ Promise(w, None) /\ UNCHANGED <<request, target, existed, reply>>
      BY <1>6 DEF PutOpen, requestVars
    <2>2. Accepted(request[w]) /\ request[w].method = "PUT"
      BY <2>1, <1>l DEF LocalsOf
    <2>3. FilesTyped'
      BY <2>1, OpenType, PromiseType DEF FilesTyped
    <2>4. QED BY <2>1, <2>2, <2>3, <1>k, OpenType, GoToTypeInv
  <1>7. ASSUME NEW w \in Workers, CreateWrite(w) \/ PutWrite(w) PROVE TypeInv'
    <2>1. pc[w] \in WritePcs /\ WriteAndClose(w)
      BY <1>7 DEF CreateWrite, PutWrite
    <2>2. \E answer \in Replies : Return(w, answer)
      BY <1>7, <2>1, InHandler, RepliesType DEF CreateWrite, PutWrite, PutStatus
    <2>3. QED BY <2>1, <2>2, WriteType, ReturnTypeInv
  <1>8. ASSUME NEW w \in Workers, GetOpen(w) PROVE TypeInv'
    <2>1. /\ pc[w] = "get_open" /\ File(w) # NoFile /\ GoTo(w, "get_read")
          /\ handle' = [handle EXCEPT ![w] = File(w)]
          /\ UNCHANGED <<request, target, existed, reply>> /\ FilesTyped'
      BY <1>8, <1>t DEF GetOpen, requestVars, FilesTyped
    <2>2. Accepted(request[w]) /\ File(w) \in Inodes
      BY <2>1, <1>l, InHandler DEF LocalsOf
    <2>3. QED BY <2>1, <2>2, <1>k, GoToTypeInv
  <1>9. ASSUME NEW w \in Workers, GetRead(w) PROVE TypeInv'
    <2>1. pc[w] = "get_read" /\ handle[w] \in Inodes
      BY <1>9, <1>l DEF GetRead, LocalsOf
    <2>2. request[w] \in Clients /\ ReadBack(bytes[handle[w]]) \in Data \cup {Torn}
      BY <2>1, <1>t, InHandler, ContentsType DEF FilesTyped
    <2>3. GetAnswers(request[w], bytes[handle[w]]) \subseteq Replies
      BY <2>2, RepliesType DEF GetAnswers
    <2>4. /\ \E answer \in Replies : Return(w, answer)
          /\ handle' = [handle EXCEPT ![w] = NoFile]
      BY <1>9, <2>3 DEF GetRead
    <2>5. FilesTyped'
      BY <1>9, <1>t, SettleType DEF GetRead, FilesTyped
    <2>6. QED BY <2>4, <2>5, ReturnTypeInv
  <1>10. ASSUME NEW w \in Workers, PutCheck(w) PROVE TypeInv'
    <2>1. /\ pc[w] = "put_check" /\ GoTo(w, "put_open")
          /\ existed' \in [Workers -> BOOLEAN] /\ FilesTyped'
          /\ UNCHANGED <<request, target, handle, reply>>
      BY <1>10, <1>k, <1>t DEF PutCheck, FilesTyped
    <2>2. Accepted(request[w]) /\ request[w].method = "PUT" /\ handle[w] = NoFile
      BY <2>1, <1>l DEF LocalsOf
    <2>3. QED BY <2>1, <2>2, <1>k, GoToTypeInv
  <1>11. ASSUME NEW w \in Workers, Delete(w) PROVE TypeInv'
    <2>1. /\ pc[w] = "unlink" /\ Promise(w, None) /\ Settle(bytes) /\ handle' = handle
          /\ link' = [link EXCEPT ![Resource(w)][target[w]] = NoFile]
      BY <1>11 DEF Delete
    <2>2. handle[w] = NoFile
      BY <2>1, <1>l DEF LocalsOf
    <2>3. FilesTyped'
      BY <2>1, <1>t, InHandler, PromiseType, SettleType DEF FilesTyped
    <2>4. \E answer \in Replies : Return(w, answer)
      BY <1>11, <2>1, InHandler, RepliesType DEF Delete
    <2>5. QED BY <2>1, <2>2, <2>3, <2>4, ReturnTypeInv
  <1>12. ASSUME NEW w \in Workers, OpenFails(w) PROVE TypeInv'
    <2>1. /\ pc[w] \in {"create_open", "put_open", "get_open", "put_check"}
          /\ handle' = handle /\ FilesTyped'
      BY <1>12, <1>t DEF OpenFails, FilesTyped
    <2>2. Accepted(request[w]) /\ handle[w] = NoFile
      BY <2>1, <1>l DEF LocalsOf
    <2>3. CASE pc[w] = "put_check"
      <3>1. /\ GoTo(w, "put_open") /\ existed' \in [Workers -> BOOLEAN]
            /\ UNCHANGED <<request, target, reply>>
        BY <1>12, <1>k, <2>3 DEF OpenFails
      <3>2. request[w].method = "PUT"
        BY <2>3, <1>l DEF LocalsOf
      <3>3. QED BY <2>1, <2>2, <3>1, <3>2, <1>k, GoToTypeInv
    <2>4. CASE pc[w] # "put_check"
      <3>1. Plain(request[w], 500) \in Replies /\ Plain(request[w], 404) \in Replies
        BY <2>1, InHandler, RepliesType
      <3>2. \E answer \in Replies : Return(w, answer)
        BY <1>12, <2>4, <3>1 DEF OpenFails
      <3>3. QED BY <2>1, <2>2, <3>2, ReturnTypeInv
    <2>5. QED BY <2>3, <2>4
  <1>13. ASSUME NEW w \in Workers, Throws(w) PROVE TypeInv'
    BY <1>13, DieTypeInv DEF Throws
  <1>14. CASE Kill
    BY <1>14, DieTypeInv DEF Kill
  <1>15. CASE Restart
    <2>1. TypeOK'
      BY <1>15 DEF Restart, requestVars, TypeInv, TypeOK
    <2>2. Locals'
      BY <1>15, <1>l, <1>k DEF Restart, requestVars, Locals, LocalsOf, Accepted
    <2>3. QED BY <2>1, <2>2 DEF TypeInv
  <1>16. CASE UNCHANGED vars
    BY <1>16 DEF vars, requestVars, TypeInv, TypeOK, Locals, LocalsOf, Accepted
  <1>17. QED BY <1>1, <1>2, <1>3, <1>4, <1>5, <1>6, <1>7, <1>8, <1>9, <1>10, <1>11,
                <1>12, <1>13, <1>14, <1>15, <1>16 DEF Next

\* Every variable keeps its type, whatever fails: above all, no POST is given
\* an id beyond the largest int.
THEOREM CrudTypeCorrect == Spec => []TypeOK
  <1>1. Spec => []TypeInv
    BY InitTypeInv, NextTypeInv, PTL DEF Spec
  <1>2. TypeInv => TypeOK
    BY DEF TypeInv
  <1>3. QED BY <1>1, <1>2, PTL

-----------------------------------------------------------------------------
(* What was acknowledged is kept, if writers of a resource are alone on    *)
(* it.  Besides AckedKept the invariant says that no file has two names,   *)
(* that a file without name and opener is blank, that the id a scan chose  *)
(* stays unused until it is opened, and that a writer has the file of its  *)
(* entity, empty, with nothing promised.                                   *)

\* Where writers of one resource do not overlap with anybody on it.
OneWriter == Overlapping \subseteq {"GET", "DELETE"}

Alone ==
  \A v, w \in Workers :
    v # w /\ request[v] # None /\ request[w] # None
      /\ request[v].resource = request[w].resource
      => {request[v].method, request[w].method} \subseteq Overlapping

OneName ==
  \A r, q \in Resources, i, j \in Ids :
    link[r][i] # NoFile /\ link[r][i] = link[q][j] => r = q /\ i = j

Unused == \A f \in Inodes : ~Linked(f) /\ ~Opened(f) => bytes[f] = Blank

ScannedOf(w) == pc[w] = "create_open" => File(w) = NoFile

WritingOf(w) ==
  pc[w] \in WritePcs => /\ handle[w] = File(w)
                        /\ bytes[File(w)] = Blank
                        /\ acked[Resource(w)][target[w]] = None

Files ==
  /\ OneName /\ Unused /\ AckedKept
  /\ \A w \in Workers : ScannedOf(w) /\ WritingOf(w)

Inv == TypeInv /\ Alone /\ Files

\* At the start there is nothing.
LEMMA InitFiles == Init => Alone /\ Files
  <1> SUFFICES ASSUME Init PROVE Alone /\ Files
    OBVIOUS
  <1>1. /\ \A w \in Workers : request[w] = None /\ pc[w] = "idle"
        /\ \A r \in Resources, i \in Ids : link[r][i] = NoFile /\ acked[r][i] = None
        /\ \A f \in Inodes : bytes[f] = Blank
    BY DEF Init
  <1>2. QED BY <1>1 DEF Alone, Files, OneName, Unused, AckedKept, ScannedOf, WritingOf,
                        WritePcs

\* A request that begins does so beside requests it may overlap with; the
\* others go on or end.
LEMMA NextAlone == TypeInv /\ Alone /\ [Next]_vars => Alone'
  <1> SUFFICES ASSUME TypeInv, Alone, [Next]_vars PROVE Alone'
    OBVIOUS
  <1>k. request \in [Workers -> Clients \cup {None}]
    BY DEF TypeInv, TypeOK
  <1>1. ASSUME NEW w \in Workers, NEW req \in Clients, Begin(w, req)
        PROVE  Alone'
    <2>1. request'[w] = req /\ \A v \in Workers \ {w} : request'[v] = request[v]
      BY <1>1, <1>k DEF Begin
    <2>2. \A v \in Workers : request[v] # None /\ request[v].resource = req.resource
                               => {request[v].method, req.method} \subseteq Overlapping
      BY <1>1 DEF Begin, MayArrive
    <2>3. QED BY <2>1, <2>2 DEF Alone
  <1>2. ASSUME \A v \in Workers : request'[v] \in {request[v], None}
        PROVE  Alone'
    BY <1>2 DEF Alone
  <1>3. ASSUME NEW w \in Workers, NEW answer, Return(w, answer)
        PROVE  \A v \in Workers : request'[v] \in {request[v], None}
    BY <1>3, <1>k DEF Return
  <1>4. ASSUME NEW dying, Die(dying)
        PROVE  \A v \in Workers : request'[v] \in {request[v], None}
    BY <1>4 DEF Die
  <1>5. ASSUME NEW w \in Workers,
               \/ \E req \in Clients : Refuse(w, req)
               \/ CreateNoId(w) \/ CreateWrite(w) \/ GetMissing(w) \/ GetRead(w)
               \/ List(w) \/ PutWrite(w) \/ Delete(w)
        PROVE  Alone'
    <2>1. \E answer : Return(w, answer)
      BY <1>5 DEF Refuse, CreateNoId, CreateWrite, GetMissing, GetRead, List, PutWrite, Delete
    <2>2. QED BY <2>1, <1>2, <1>3
  <1>6. ASSUME NEW w \in Workers,
               CreateScan(w) \/ CreateOpen(w) \/ GetOpen(w) \/ PutCheck(w) \/ PutOpen(w)
        PROVE  Alone'
    <2>1. request' = request
      BY <1>6 DEF CreateScan, CreateOpen, GetOpen, PutCheck, PutOpen, requestVars
    <2>2. QED BY <2>1, <1>2
  <1>7. ASSUME NEW w \in Workers, OpenFails(w) PROVE Alone'
    <2>1. request' = request \/ \E answer : Return(w, answer)
      BY <1>7 DEF OpenFails
    <2>2. QED BY <2>1, <1>2, <1>3
  <1>8. ASSUME NEW w \in Workers, Throws(w) PROVE Alone'
    BY <1>8, <1>2, <1>4 DEF Throws
  <1>9. CASE Kill
    BY <1>9, <1>2, <1>4 DEF Kill
  <1>10. CASE Restart \/ UNCHANGED vars
    <2>1. request' = request
      BY <1>10 DEF Restart, vars, requestVars
    <2>2. QED BY <2>1, <1>2
  <1>11. QED BY <1>1, <1>5, <1>6, <1>7, <1>8, <1>9, <1>10 DEF Next

\* Nobody else acts on the resource of a writer.
LEMMA WriterAlone ==
  ASSUME TypeInv, Alone, OneWriter, NEW v \in Workers, NEW w \in Workers, v # w,
         pc[v] \in {"create_open", "create_write", "put_write"}, pc[w] \notin AtRest
  PROVE  Resource(v) # Resource(w)
  <1>1. /\ request[v].method \in {"POST", "PUT"} /\ request[v] # None
    BY Constants DEF TypeInv, Locals, LocalsOf, Accepted, PostPcs, PutPcs, AtRest
  <1>2. request[w] # None
    BY Constants DEF TypeInv, Locals, LocalsOf, Accepted
  <1>3. request[v].method \notin Overlapping
    BY <1>1 DEF OneWriter
  <1>4. QED BY <1>1, <1>2, <1>3 DEF Alone, Resource

\* A step that names no file, promises nothing and writes nothing.
LEMMA QuietFiles ==
  ASSUME TypeInv, Files, link' = link, acked' = acked,
         \/ bytes' = bytes /\ \A f \in Inodes : Opened(f) => Opened(f)'
         \/ Settle(bytes),
         \A v \in Workers :
           /\ pc'[v] \in WritePcs
                => /\ pc[v] = pc'[v] /\ handle[v] = handle'[v]
                   /\ request[v] = request'[v] /\ target[v] = target'[v]
           /\ pc'[v] = "create_open" => File(v)' = NoFile,
         \A v \in Workers : pc'[v] \in WritePcs => Resource(v) \in Resources /\ target[v] \in Ids
  PROVE  Files'
  <1>1. \A r \in Resources, i \in Ids : link[r][i] \in Inodes \cup {NoFile}
    BY DEF TypeInv, TypeOK
  <1>2. \A f \in Inodes : Linked(f)' = Linked(f)
    BY DEF Linked
  <1>3. \A r \in Resources, i \in Ids :
          link[r][i] # NoFile => bytes'[link[r][i]] = bytes[link[r][i]]
    BY <1>1, <1>2 DEF Settle, Linked
  <1>4. OneName'
    BY DEF Files, OneName
  <1>5. Unused'
    BY <1>2 DEF Files, Unused, Settle
  <1>6. AckedKept'
    BY <1>3 DEF Files, AckedKept
  <1>7. ASSUME NEW w \in Workers PROVE ScannedOf(w)' /\ WritingOf(w)'
    <2>1. ScannedOf(w)'
      BY DEF ScannedOf
    <2>2. ASSUME pc'[w] \in WritePcs PROVE WritingOf(w)'
      <3>1. /\ handle[w] = File(w) /\ bytes[File(w)] = Blank
            /\ acked[Resource(w)][target[w]] = None
        BY <2>2 DEF Files, WritingOf
      <3>2. handle[w] # NoFile
        BY <2>2, Constants DEF TypeInv, Locals, LocalsOf, OpenPcs
      <3>3. bytes'[File(w)] = Blank
        BY <2>2, <3>1, <3>2, <1>3 DEF File
      <3>4. File(w)' = File(w) /\ Resource(w)' = Resource(w)
        BY <2>2 DEF File, Resource
      <3>5. QED BY <2>2, <3>1, <3>3, <3>4 DEF WritingOf
    <2>3. QED BY <2>1, <2>2 DEF WritingOf
  <1>8. QED BY <1>4, <1>5, <1>6, <1>7 DEF Files

\* What a step of w may change of what is linked and promised: its entity's.
Elsewhere(w) ==
  \A r \in Resources, i \in Ids :
    <<r, i>> # <<Resource(w), target[w]>>
      => link'[r][i] = link[r][i] /\ acked'[r][i] = acked[r][i]

\* The other writers have their files and promises as they had them.
LEMMA OtherWriters ==
  ASSUME TypeInv, Alone, OneWriter, NEW w \in Workers, pc[w] \notin AtRest, Elsewhere(w),
         NEW v \in Workers, v # w,
         pc[v] \in {"create_open", "create_write", "put_write"},
         request'[v] = request[v], target'[v] = target[v]
  PROVE  /\ Resource(v) # Resource(w) /\ Resource(v) \in Resources /\ target[v] \in Ids
         /\ File(v)' = File(v) /\ Resource(v)' = Resource(v)
         /\ acked'[Resource(v)][target[v]] = acked[Resource(v)][target[v]]
  <1>1. pc[v] \notin AtRest
    BY DEF AtRest
  <1>2. Resource(v) # Resource(w) /\ Resource(v) \in Resources /\ target[v] \in Ids
    BY <1>1, WriterAlone, InHandler
  <1>3. /\ link'[Resource(v)][target[v]] = link[Resource(v)][target[v]]
        /\ acked'[Resource(v)][target[v]] = acked[Resource(v)][target[v]]
    BY <1>2 DEF Elsewhere
  <1>4. Resource(v)' = Resource(v)
    BY DEF Resource
  <1>5. File(v)' = File(v)
    BY <1>3, <1>4 DEF File
  <1>6. QED BY <1>2, <1>3, <1>4, <1>5

\* Opening a file for writing empties it, or names a blank one, after the
\* promise about it was withdrawn or when there was none.
LEMMA OpenFiles ==
  ASSUME TypeInv, Alone, OneWriter, Files, NEW w \in Workers,
         pc[w] \in {"create_open", "put_open"}, OpenForWriting(w),
         NEW label \in WritePcs, GoTo(w, label), UNCHANGED <<request, target>>,
         \/ pc[w] = "create_open" /\ acked' = acked
         \/ Promise(w, None)
  PROVE  Files'
  <1> DEFINE R == Resource(w)
             t == target[w]
  <1>1. pc[w] \notin AtRest /\ R \in Resources /\ t \in Ids /\ handle[w] = NoFile
    <2>1. pc[w] \notin AtRest /\ pc[w] \notin OpenPcs
      BY DEF AtRest, OpenPcs, WritePcs
    <2>2. QED BY <2>1, InHandler DEF TypeInv, Locals, LocalsOf
  <1>2. /\ link \in [Resources -> [Ids -> Inodes \cup {NoFile}]]
        /\ bytes \in [Inodes -> Contents]
        /\ acked \in [Resources -> [Ids -> Data \cup {None, Torn}]]
        /\ handle \in [Workers -> Inodes \cup {NoFile}]
        /\ pc \in [Workers -> Labels]
        /\ NoFile \notin Inodes
    BY Constants DEF TypeInv, TypeOK
  <1>3. acked'[R][t] = None
    <2>1. CASE Promise(w, None)
      BY <2>1, <1>1, <1>2 DEF Promise
    <2>2. CASE pc[w] = "create_open" /\ acked' = acked
      <3>1. link[R][t] = NoFile
        BY <2>2 DEF Files, ScannedOf, File
      <3>2. QED BY <2>2, <3>1, <1>1 DEF Files, AckedKept
    <2>3. QED BY <2>1, <2>2
  <1>4. /\ pc'[w] = label
        /\ \A v \in Workers \ {w} : pc'[v] = pc[v]
    BY <1>2 DEF GoTo
  <1>5. Elsewhere(w) /\ File(w)' = link'[R][t] /\ R' = R
    <2>1. \A r \in Resources, i \in Ids : <<r, i>> # <<R, t>> => acked'[r][i] = acked[r][i]
      BY <1>1, <1>2 DEF Promise
    <2>2. \A r \in Resources, i \in Ids : <<r, i>> # <<R, t>> => link'[r][i] = link[r][i]
      BY <1>1, <1>2 DEF OpenForWriting, CreateFile, Truncate
    <2>3. QED BY <2>1, <2>2 DEF Elsewhere, File, Resource
  <1>6. PICK f \in Inodes :
          /\ link'[R][t] = f /\ handle' = [handle EXCEPT ![w] = f] /\ bytes'[f] = Blank
          /\ \A g \in Inodes : g # f => bytes'[g] = bytes[g]
          /\ \A r \in Resources, i \in Ids : <<r, i>> # <<R, t>> => link[r][i] # f
    <2>1. CASE File(w) = NoFile
      <3>1. PICK f \in Inodes :
              /\ ~Linked(f) /\ ~Opened(f) /\ handle' = [handle EXCEPT ![w] = f]
              /\ link' = [link EXCEPT ![R][t] = f] /\ bytes' = bytes
        BY <2>1 DEF OpenForWriting, CreateFile
      <3>2. bytes[f] = Blank
        BY <3>1 DEF Files, Unused
      <3>3. \A r \in Resources, i \in Ids : link[r][i] # f
        BY <3>1 DEF Linked
      <3>4. link'[R][t] = f
        BY <3>1, <1>1, <1>2
      <3>5. QED BY <3>1, <3>2, <3>3, <3>4
    <2>2. CASE File(w) # NoFile
      <3>1. /\ File(w) \in Inodes /\ link' = link /\ link[R][t] = File(w)
            /\ handle' = [handle EXCEPT ![w] = File(w)]
            /\ bytes' = [bytes EXCEPT ![File(w)] = Blank]
        BY <2>2, <1>1, <1>2 DEF OpenForWriting, Truncate, File
      <3>2. \A r \in Resources, i \in Ids : <<r, i>> # <<R, t>> => link[r][i] # File(w)
        BY <2>2, <3>1, <1>1 DEF Files, OneName
      <3>3. QED BY <3>1, <3>2, <1>2
    <2>3. QED BY <2>1, <2>2
  <1>7. OneName'
    <2>1. ASSUME NEW r \in Resources, NEW q \in Resources, NEW i \in Ids, NEW j \in Ids,
                 link'[r][i] # NoFile, link'[r][i] = link'[q][j]
          PROVE  r = q /\ i = j
      BY <2>1, <1>5, <1>6 DEF Files, OneName, Elsewhere
    <2>2. QED BY <2>1 DEF OneName
  <1>8. Unused'
    <2>1. ASSUME NEW g \in Inodes, ~Linked(g)', ~Opened(g)' PROVE bytes'[g] = Blank
      <3>1. g # f
        BY <2>1, <1>1, <1>6 DEF Linked
      <3>2. \A v \in Workers : handle'[v] # g
        BY <2>1 DEF Opened
      <3>3. \A v \in Workers : handle[v] # g
        BY <3>2, <1>1, <1>2, <1>6
      <3>4. CASE \E r \in Resources, i \in Ids : link[r][i] = g
        <4>1. link[R][t] = g
          BY <3>4, <2>1, <1>5 DEF Linked, Elsewhere
        <4>2. File(w) = g
          BY <4>1 DEF File
        <4>3. g = f
          BY <4>2, <1>2, <1>1, <1>6 DEF OpenForWriting, Truncate
        <4>4. QED BY <4>3, <3>1
      <3>5. CASE ~Linked(g)
        BY <3>1, <3>3, <3>5, <1>6 DEF Files, Unused, Opened
      <3>6. QED BY <3>4, <3>5 DEF Linked
    <2>2. QED BY <2>1 DEF Unused
  <1>9. AckedKept'
    <2>1. ASSUME NEW r \in Resources, NEW i \in Ids, acked'[r][i] # None
          PROVE  link'[r][i] # NoFile /\ ReadBack(bytes'[link'[r][i]]) = acked'[r][i]
      <3>1. <<r, i>> # <<R, t>>
        BY <2>1, <1>3
      <3>2. link'[r][i] = link[r][i] /\ acked'[r][i] = acked[r][i] /\ link[r][i] # f
        BY <3>1, <1>5, <1>6 DEF Elsewhere
      <3>3. link[r][i] # NoFile /\ ReadBack(bytes[link[r][i]]) = acked[r][i]
        BY <2>1, <3>2 DEF Files, AckedKept
      <3>4. bytes'[link[r][i]] = bytes[link[r][i]]
        BY <3>2, <3>3, <1>2, <1>6
      <3>5. QED BY <3>2, <3>3, <3>4
    <2>2. QED BY <2>1 DEF AckedKept
  <1>10. ScannedOf(w)' /\ WritingOf(w)'
    <2>1. handle'[w] = f /\ File(w)' = f
      BY <1>2, <1>5, <1>6
    <2>2. QED BY <2>1, <1>3, <1>4, <1>5, <1>6 DEF ScannedOf, WritingOf, WritePcs
  <1>11. ASSUME NEW v \in Workers \ {w} PROVE ScannedOf(v)' /\ WritingOf(v)'
    <2>1. ASSUME pc[v] \in {"create_open", "create_write", "put_write"}
          PROVE  /\ File(v)' = File(v) /\ Resource(v)' = Resource(v)
                 /\ acked'[Resource(v)][target[v]] = acked[Resource(v)][target[v]]
      BY <2>1, <1>1, <1>5, OtherWriters
    <2>2. ScannedOf(v)'
      BY <2>1, <1>4 DEF ScannedOf, Files
    <2>3. ASSUME pc[v] \in WritePcs PROVE WritingOf(v)'
      <3>1. /\ handle[v] = File(v) /\ bytes[File(v)] = Blank
            /\ acked[Resource(v)][target[v]] = None
        BY <2>3 DEF Files, WritingOf
      <3>2. handle'[v] = handle[v] /\ handle[v] \in Inodes
        BY <2>3, <1>2, <1>6 DEF TypeInv, Locals, LocalsOf, OpenPcs
      <3>3. bytes'[File(v)] = Blank
        BY <3>1, <3>2, <1>6
      <3>4. QED BY <2>1, <2>3, <3>1, <3>2, <3>3 DEF WritingOf, WritePcs
    <2>4. QED BY <2>2, <2>3, <1>4 DEF WritingOf
  <1>12. QED BY <1>7, <1>8, <1>9, <1>10, <1>11 DEF Files

\* A file that settles, for the steps that give up a handle or a name.
LEMMA SettleLinked ==
  ASSUME NEW STATE new, Settle(new),
         NEW r \in Resources, NEW i \in Ids, link'[r][i] \in Inodes
  PROVE  bytes'[link'[r][i]] = new[link'[r][i]]
  BY DEF Settle, Linked

\* A writer leaves its document, whole and promised, or an empty file.
LEMMA WriteFiles ==
  ASSUME TypeInv, Alone, OneWriter, Files, NEW w \in Workers,
         pc[w] \in WritePcs, WriteAndClose(w), NEW answer, Return(w, answer)
  PROVE  Files'
  <1> DEFINE R == Resource(w)
             t == target[w]
             f == handle[w]
             doc == request[w].doc
             written == [bytes EXCEPT ![f] = Overwritten(@, doc)]
  <1>1. /\ pc[w] \notin AtRest /\ R \in Resources /\ t \in Ids
        /\ f \in Inodes /\ doc \in Data
    <2>1. pc[w] \notin AtRest /\ pc[w] \in OpenPcs /\ pc[w] \in PostPcs \cup PutPcs
      BY DEF AtRest, OpenPcs, WritePcs, PostPcs, PutPcs
    <2>2. QED BY <2>1, InHandler DEF TypeInv, Locals, LocalsOf
  <1>2. /\ link \in [Resources -> [Ids -> Inodes \cup {NoFile}]]
        /\ bytes \in [Inodes -> Contents]
        /\ acked \in [Resources -> [Ids -> Data \cup {None, Torn}]]
        /\ handle \in [Workers -> Inodes \cup {NoFile}]
        /\ pc \in [Workers -> Labels] /\ request \in [Workers -> Clients \cup {None}]
        /\ target \in [Workers -> Ids]
        /\ NoFile \notin Inodes
    BY Constants DEF TypeInv, TypeOK
  <1>3. f = link[R][t] /\ bytes[f] = Blank
    BY DEF Files, WritingOf, File
  <1>4. /\ link' = link /\ Elsewhere(w)
        /\ \/ Settle(written) /\ acked'[R][t] = doc
           \/ Settle(bytes) /\ acked'[R][t] = Torn
    <2>1. \A d \in Data \cup {Torn} :
            Promise(w, d) => /\ acked'[R][t] = d
                             /\ \A r \in Resources, i \in Ids :
                                  <<r, i>> # <<R, t>> => acked'[r][i] = acked[r][i]
      BY <1>1, <1>2 DEF Promise
    <2>2. QED BY <2>1, <1>1 DEF WriteAndClose, Elsewhere
  <1>5. /\ pc'[w] = "idle"
        /\ \A v \in Workers \ {w} :
             /\ pc'[v] = pc[v] /\ request'[v] = request[v] /\ target'[v] = target[v]
             /\ handle'[v] = handle[v]
    BY <1>2 DEF Return, GoTo, WriteAndClose
  <1>6. /\ ReadBack(Overwritten(Blank, doc)) = doc
        /\ ReadBack(Blank) = Torn
    <2>1. doc # None /\ Size[doc] \in Nat \ {0}
      BY <1>1, Constants, CrudApiAssumption
    <2>2. Overwritten(Blank, doc) = [doc |-> doc, size |-> Size[doc]]
      BY <2>1 DEF Overwritten, Blank
    <2>3. QED BY <2>1, <2>2 DEF ReadBack, Blank
  <1>w. /\ written[f] = Overwritten(Blank, doc)
        /\ \A g \in Inodes : g # f => written[g] = bytes[g]
    BY <1>1, <1>2, <1>3
  <1> HIDE DEF written
  <1>7. \A r \in Resources, i \in Ids :
          link[r][i] # NoFile /\ <<r, i>> # <<R, t>>
            => link[r][i] # f /\ bytes'[link[r][i]] = bytes[link[r][i]]
    <2>1. ASSUME NEW r \in Resources, NEW i \in Ids, link[r][i] # NoFile,
                 <<r, i>> # <<R, t>>
          PROVE  link[r][i] # f /\ bytes'[link[r][i]] = bytes[link[r][i]]
      <3>1. link[r][i] # f /\ link[r][i] \in Inodes
        BY <2>1, <1>1, <1>2, <1>3 DEF Files, OneName
      <3>2. written[link[r][i]] = bytes[link[r][i]]
        BY <3>1, <1>w
      <3>3. CASE Settle(written)
        BY <3>1, <3>2, <3>3, <1>4, SettleLinked
      <3>4. CASE Settle(bytes)
        BY <3>1, <3>4, <1>4, SettleLinked
      <3>5. QED BY <3>1, <3>3, <3>4, <1>4
    <2>2. QED BY <2>1
  <1>8. ReadBack(bytes'[f]) = acked'[R][t]
    <2>1. CASE Settle(written) /\ acked'[R][t] = doc
      <3>1. bytes'[f] = written[f]
        BY <2>1, <1>1, <1>3, <1>4, SettleLinked
      <3>2. QED BY <2>1, <3>1, <1>w, <1>6
    <2>2. CASE Settle(bytes) /\ acked'[R][t] = Torn
      <3>1. bytes'[f] = bytes[f]
        BY <2>2, <1>1, <1>3, <1>4, SettleLinked
      <3>2. QED BY <2>2, <3>1, <1>3, <1>6
    <2>3. QED BY <2>1, <2>2, <1>4
  <1>9. OneName'
    BY <1>4 DEF Files, OneName
  <1>10. Unused'
    BY <1>4 DEF Settle, Unused
  <1>11. AckedKept'
    <2>1. ASSUME NEW r \in Resources, NEW i \in Ids, acked'[r][i] # None
          PROVE  link'[r][i] # NoFile /\ ReadBack(bytes'[link'[r][i]]) = acked'[r][i]
      <3>1. CASE <<r, i>> = <<R, t>>
        BY <3>1, <1>1, <1>2, <1>3, <1>4, <1>8
      <3>2. CASE <<r, i>> # <<R, t>>
        <4>1. acked'[r][i] = acked[r][i] /\ link'[r][i] = link[r][i]
          BY <3>2, <1>4 DEF Elsewhere
        <4>2. link[r][i] # NoFile /\ ReadBack(bytes[link[r][i]]) = acked[r][i]
          BY <2>1, <4>1 DEF Files, AckedKept
        <4>3. QED BY <3>2, <4>1, <4>2, <1>7
      <3>3. QED BY <3>1, <3>2
    <2>2. QED BY <2>1 DEF AckedKept
  <1>12. ScannedOf(w)' /\ WritingOf(w)'
    BY <1>5 DEF ScannedOf, WritingOf, WritePcs
  <1>13. ASSUME NEW v \in Workers \ {w} PROVE ScannedOf(v)' /\ WritingOf(v)'
    <2>1. ASSUME pc[v] \in {"create_open", "create_write", "put_write"}
          PROVE  /\ Resource(v) # R /\ Resource(v) \in Resources /\ target[v] \in Ids
                 /\ File(v)' = File(v) /\ Resource(v)' = Resource(v)
                 /\ acked'[Resource(v)][target[v]] = acked[Resource(v)][target[v]]
      BY <2>1, <1>1, <1>4, <1>5, OtherWriters
    <2>2. ScannedOf(v)'
      BY <2>1, <1>5 DEF ScannedOf, Files
    <2>3. ASSUME pc[v] \in WritePcs PROVE WritingOf(v)'
      <3>1. /\ handle[v] = File(v) /\ bytes[File(v)] = Blank
            /\ acked[Resource(v)][target[v]] = None
        BY <2>3 DEF Files, WritingOf
      <3>2. handle[v] \in Inodes
        BY <2>3 DEF TypeInv, Locals, LocalsOf, OpenPcs
      <3>3. bytes'[File(v)] = Blank
        <4>1. <<Resource(v), target[v]>> # <<R, t>>
          BY <2>1, <2>3 DEF WritePcs
        <4>2. QED BY <4>1, <2>1, <2>3, <3>1, <3>2, <1>2, <1>7 DEF File, WritePcs
      <3>4. QED BY <2>1, <2>3, <3>1, <3>3, <1>5 DEF WritingOf, WritePcs
    <2>4. QED BY <2>2, <2>3, <1>5 DEF WritingOf
  <1>14. QED BY <1>9, <1>10, <1>11, <1>12, <1>13 DEF Files

\* A deleted entity loses its name, and its promise.
LEMMA DeleteFiles ==
  ASSUME TypeInv, Alone, OneWriter, Files, NEW w \in Workers, Delete(w)
  PROVE  Files'
  <1> DEFINE R == Resource(w)
             t == target[w]
  <1>1. pc[w] \notin AtRest /\ pc[w] = "unlink" /\ R \in Resources /\ t \in Ids
    <2>1. pc[w] = "unlink" /\ pc[w] \notin AtRest
      BY DEF Delete, AtRest
    <2>2. QED BY <2>1, InHandler
  <1>2. /\ link \in [Resources -> [Ids -> Inodes \cup {NoFile}]]
        /\ acked \in [Resources -> [Ids -> Data \cup {None, Torn}]]
        /\ pc \in [Workers -> Labels] /\ request \in [Workers -> Clients \cup {None}]
        /\ target \in [Workers -> Ids]
        /\ NoFile \notin Inodes
    BY Constants DEF TypeInv, TypeOK
  <1>3. /\ link'[R][t] = NoFile /\ acked'[R][t] = None /\ Elsewhere(w)
        /\ Settle(bytes) /\ handle' = handle
    BY <1>1, <1>2 DEF Delete, Promise, Elsewhere
  <1>4. /\ pc'[w] = "idle"
        /\ \A v \in Workers \ {w} :
             pc'[v] = pc[v] /\ request'[v] = request[v] /\ target'[v] = target[v]
    BY <1>2 DEF Delete, Return, GoTo
  <1>5. \A r \in Resources, i \in Ids :
          link'[r][i] # NoFile
            => /\ <<r, i>> # <<R, t>> /\ link'[r][i] = link[r][i]
               /\ acked'[r][i] = acked[r][i]
               /\ bytes'[link[r][i]] = bytes[link[r][i]]
    <2>1. ASSUME NEW r \in Resources, NEW i \in Ids, link'[r][i] # NoFile
          PROVE  /\ <<r, i>> # <<R, t>> /\ link'[r][i] = link[r][i]
                 /\ acked'[r][i] = acked[r][i]
                 /\ bytes'[link[r][i]] = bytes[link[r][i]]
      <3>1. <<r, i>> # <<R, t>>
        BY <2>1, <1>3
      <3>2. link'[r][i] = link[r][i] /\ acked'[r][i] = acked[r][i]
        BY <3>1, <1>3 DEF Elsewhere
      <3>3. QED BY <2>1, <3>1, <3>2, <1>2, <1>3, SettleLinked
    <2>2. QED BY <2>1
  <1>6. OneName'
    BY <1>5 DEF Files, OneName
  <1>7. Unused'
    BY <1>3 DEF Settle, Unused
  <1>8. AckedKept'
    <2>1. ASSUME NEW r \in Resources, NEW i \in Ids, acked'[r][i] # None
          PROVE  link'[r][i] # NoFile /\ ReadBack(bytes'[link'[r][i]]) = acked'[r][i]
      <3>1. <<r, i>> # <<R, t>>
        BY <2>1, <1>3
      <3>2. link'[r][i] = link[r][i] /\ acked'[r][i] = acked[r][i]
        BY <3>1, <1>3 DEF Elsewhere
      <3>3. link[r][i] # NoFile /\ ReadBack(bytes[link[r][i]]) = acked[r][i]
        BY <2>1, <3>2 DEF Files, AckedKept
      <3>4. QED BY <3>2, <3>3, <1>5
    <2>2. QED BY <2>1 DEF AckedKept
  <1>9. ScannedOf(w)' /\ WritingOf(w)'
    BY <1>4 DEF ScannedOf, WritingOf, WritePcs
  <1>10. ASSUME NEW v \in Workers \ {w} PROVE ScannedOf(v)' /\ WritingOf(v)'
    <2>1. ASSUME pc[v] \in {"create_open", "create_write", "put_write"}
          PROVE  /\ Resource(v) # R /\ Resource(v) \in Resources /\ target[v] \in Ids
                 /\ File(v)' = File(v) /\ Resource(v)' = Resource(v)
                 /\ acked'[Resource(v)][target[v]] = acked[Resource(v)][target[v]]
      BY <2>1, <1>1, <1>3, <1>4, OtherWriters
    <2>2. ScannedOf(v)'
      BY <2>1, <1>4 DEF ScannedOf, Files
    <2>3. ASSUME pc[v] \in WritePcs PROVE WritingOf(v)'
      <3>1. /\ handle[v] = File(v) /\ bytes[File(v)] = Blank
            /\ acked[Resource(v)][target[v]] = None
        BY <2>3 DEF Files, WritingOf
      <3>2. handle[v] \in Inodes
        BY <2>3 DEF TypeInv, Locals, LocalsOf, OpenPcs
      <3>3. link'[Resource(v)][target[v]] = link[Resource(v)][target[v]]
        BY <2>1, <2>3, <1>3 DEF Elsewhere, WritePcs
      <3>4. bytes'[File(v)] = Blank
        BY <2>1, <2>3, <3>1, <3>2, <3>3, <1>2, <1>5 DEF File, WritePcs
      <3>5. QED BY <2>1, <2>3, <3>1, <3>4, <1>3, <1>4 DEF WritingOf, WritePcs
    <2>4. QED BY <2>2, <2>3, <1>4 DEF WritingOf
  <1>11. QED BY <1>6, <1>7, <1>8, <1>9, <1>10 DEF Files

\* A worker's step that ends its request, or goes on, without a writer's file.
LEMMA WorkerQuiet ==
  ASSUME TypeInv, Files, NEW w \in Workers, NEW label \in Labels \ WritePcs,
         pc' = [pc EXCEPT ![w] = label],
         label = "create_open" => File(w)' = NoFile,
         link' = link, acked' = acked,
         \/ bytes' = bytes /\ \A f \in Inodes : Opened(f) => Opened(f)'
         \/ Settle(bytes),
         \A v \in Workers \ {w} :
           handle'[v] = handle[v] /\ request'[v] = request[v] /\ target'[v] = target[v]
  PROVE  Files'
  <1>1. /\ pc'[w] = label /\ \A v \in Workers \ {w} : pc'[v] = pc[v]
    BY DEF TypeInv, TypeOK
  <1>2. ASSUME NEW v \in Workers, pc'[v] \in WritePcs
        PROVE  /\ v # w /\ Resource(v) \in Resources /\ target[v] \in Ids
    <2>1. v # w /\ pc[v] \notin AtRest
      BY <1>1, <1>2 DEF AtRest, WritePcs
    <2>2. QED BY <2>1, InHandler
  <1>3. ASSUME NEW v \in Workers, pc'[v] = "create_open" PROVE File(v)' = NoFile
    <2>1. CASE v = w
      BY <2>1, <1>1, <1>3
    <2>2. CASE v # w
      <3>1. File(v) = NoFile
        BY <2>2, <1>1, <1>3 DEF Files, ScannedOf
      <3>2. File(v)' = File(v)
        BY <2>2 DEF File, Resource
      <3>3. QED BY <3>1, <3>2
    <2>3. QED BY <2>1, <2>2
  <1>4. QED BY <1>1, <1>2, <1>3, QuietFiles

\* No step touches what was acknowledged, where writers are alone.
LEMMA NextFiles ==
  ASSUME OneWriter, TypeInv, Alone, Files, [Next]_vars
  PROVE  Files'
  <1>k. /\ pc \in [Workers -> Labels] /\ request \in [Workers -> Clients \cup {None}]
        /\ target \in [Workers -> Ids] /\ handle \in [Workers -> Inodes \cup {NoFile}]
        /\ NoFile \notin Inodes
    BY Constants DEF TypeInv, TypeOK
  <1>l. \A w \in Workers : LocalsOf(w)
    BY DEF TypeInv, Locals
  <1>r. ASSUME NEW w \in Workers, NEW answer, Return(w, answer),
               link' = link, acked' = acked, bytes' = bytes, handle' = handle
        PROVE  Files'
    <2>1. /\ pc' = [pc EXCEPT ![w] = "idle"] /\ "idle" \in Labels \ WritePcs
          /\ \A v \in Workers \ {w} : request'[v] = request[v] /\ target'[v] = target[v]
      BY <1>r, <1>k DEF Return, GoTo, Labels, WritePcs
    <2>2. QED BY <2>1, <1>r, WorkerQuiet DEF Opened
  <1>1. ASSUME NEW w \in Workers, NEW req \in Clients, Begin(w, req)
        PROVE  Files'
    <2>1. FirstStep(req) \in Labels \ WritePcs /\ FirstStep(req) # "create_open"
      BY DEF FirstStep, Labels, WritePcs
    <2>2. /\ pc' = [pc EXCEPT ![w] = FirstStep(req)]
          /\ UNCHANGED <<handle, link, bytes, acked>>
          /\ \A v \in Workers \ {w} : request'[v] = request[v] /\ target'[v] = target[v]
      BY <1>1, <1>k DEF Begin, GoTo
    <2>3. QED BY <2>1, <2>2, WorkerQuiet DEF Opened
  <1>2. ASSUME NEW w \in Workers, NEW req \in Clients, Refuse(w, req)
        PROVE  Files'
    BY <1>2, <1>r DEF Refuse
  <1>3. ASSUME NEW w \in Workers, CreateScan(w) PROVE Files'
    <2>1. InUse(Resource(w)) \in SUBSET Ids
      BY DEF InUse
    <2>2. NextId(InUse(Resource(w))) \notin InUse(Resource(w))
      BY <2>1, NextIdAbove, Constants
    <2>3. NextId(InUse(Resource(w))) \in Ids
      BY <1>3, <2>1, NextIdAbove, Constants DEF CreateScan
    <2>4. /\ pc' = [pc EXCEPT ![w] = "create_open"]
          /\ UNCHANGED <<request, handle, link, bytes, acked>>
          /\ target'[w] = NextId(InUse(Resource(w)))
          /\ \A v \in Workers \ {w} : target'[v] = target[v]
      BY <1>3, <1>k DEF CreateScan, GoTo
    <2>5. File(w)' = NoFile
      <3>1. File(w)' = link[Resource(w)][NextId(InUse(Resource(w)))]
        BY <2>4 DEF File, Resource
      <3>2. QED BY <3>1, <2>2, <2>3 DEF InUse
    <2>6. "create_open" \in Labels \ WritePcs
      BY DEF Labels, WritePcs
    <2>7. QED BY <2>4, <2>5, <2>6, WorkerQuiet DEF Opened
  <1>4. ASSUME NEW w \in Workers,
               CreateNoId(w) \/ GetMissing(w) \/ List(w)
        PROVE  Files'
    BY <1>4, <1>r DEF CreateNoId, GetMissing, List
  <1>5. ASSUME NEW w \in Workers, CreateOpen(w) PROVE Files'
    BY <1>5, OpenFiles DEF CreateOpen, requestVars, WritePcs
  <1>6. ASSUME NEW w \in Workers, PutOpen(w) PROVE Files'
    BY <1>6, OpenFiles DEF PutOpen, requestVars, WritePcs
  <1>7. ASSUME NEW w \in Workers, CreateWrite(w) \/ PutWrite(w) PROVE Files'
    <2>1. pc[w] \in WritePcs /\ WriteAndClose(w) /\ \E answer : Return(w, answer)
      BY <1>7 DEF CreateWrite, PutWrite, WritePcs
    <2>2. QED BY <2>1, WriteFiles
  <1>8. ASSUME NEW w \in Workers, GetOpen(w) PROVE Files'
    <2>1. /\ pc' = [pc EXCEPT ![w] = "get_read"] /\ "get_read" \in Labels \ WritePcs
          /\ UNCHANGED <<request, target, link, bytes, acked>>
          /\ \A v \in Workers \ {w} : handle'[v] = handle[v]
      BY <1>8, <1>k DEF GetOpen, GoTo, requestVars, Labels, WritePcs
    <2>2. handle[w] = NoFile
      BY <1>8, <1>l DEF GetOpen, LocalsOf, OpenPcs, WritePcs
    <2>3. \A f \in Inodes : Opened(f) => Opened(f)'
      BY <2>1, <2>2, <1>k DEF Opened
    <2>4. QED BY <2>1, <2>3, WorkerQuiet
  <1>9. ASSUME NEW w \in Workers, GetRead(w) PROVE Files'
    <2>1. /\ pc' = [pc EXCEPT ![w] = "idle"] /\ "idle" \in Labels \ WritePcs
          /\ UNCHANGED <<link, acked>> /\ Settle(bytes)
          /\ \A v \in Workers \ {w} :
               handle'[v] = handle[v] /\ request'[v] = request[v] /\ target'[v] = target[v]
      BY <1>9, <1>k DEF GetRead, Return, GoTo, Labels, WritePcs
    <2>2. QED BY <2>1, WorkerQuiet
  <1>10. ASSUME NEW w \in Workers, PutCheck(w) PROVE Files'
    <2>1. /\ pc' = [pc EXCEPT ![w] = "put_open"] /\ "put_open" \in Labels \ WritePcs
          /\ UNCHANGED <<request, target, handle, link, bytes, acked>>
      BY <1>10 DEF PutCheck, GoTo, Labels, WritePcs
    <2>2. QED BY <2>1, WorkerQuiet DEF Opened
  <1>11. ASSUME NEW w \in Workers, Delete(w) PROVE Files'
    BY <1>11, DeleteFiles
  <1>12. ASSUME NEW w \in Workers, OpenFails(w) PROVE Files'
    <2>1. CASE \E answer : Return(w, answer)
      BY <2>1, <1>12, <1>r DEF OpenFails
    <2>2. CASE pc[w] = "put_check"
      <3>1. \/ \E answer : Return(w, answer)
            \/ /\ pc' = [pc EXCEPT ![w] = "put_open"] /\ "put_open" \in Labels \ WritePcs
               /\ UNCHANGED <<request, target, handle, link, bytes, acked>>
        BY <1>12, <2>2 DEF OpenFails, GoTo, Labels, WritePcs
      <3>2. QED BY <3>1, <2>1, WorkerQuiet DEF Opened
    <2>3. QED BY <1>12, <2>1, <2>2 DEF OpenFails
  <1>13. ASSUME NEW dying \in SUBSET Workers, Die(dying) PROVE Files'
    <2>1. /\ UNCHANGED <<link, acked>> /\ Settle(bytes)
          /\ \A v \in Workers : \/ pc'[v] = "dead"
                                \/ /\ pc'[v] = pc[v] /\ handle'[v] = handle[v]
                                   /\ request'[v] = request[v] /\ target'[v] = target[v]
      BY <1>13 DEF Die
    <2>2. ASSUME NEW v \in Workers, pc'[v] \in WritePcs
          PROVE  /\ pc[v] = pc'[v] /\ handle[v] = handle'[v]
                 /\ request[v] = request'[v] /\ target[v] = target'[v]
                 /\ Resource(v) \in Resources /\ target[v] \in Ids
      BY <2>1, <2>2, InHandler DEF WritePcs, AtRest
    <2>3. ASSUME NEW v \in Workers, pc'[v] = "create_open" PROVE File(v)' = NoFile
      <3>1. File(v) = NoFile /\ File(v)' = File(v)
        BY <2>1, <2>3 DEF Files, ScannedOf, File, Resource
      <3>2. QED BY <3>1
    <2>4. QED BY <2>1, <2>2, <2>3, QuietFiles
  <1>14. ASSUME NEW w \in Workers, Throws(w) PROVE Files'
    BY <1>14, <1>13 DEF Throws
  <1>15. CASE Kill
    BY <1>15, <1>13 DEF Kill
  <1>16. CASE Restart
    <2>1. /\ UNCHANGED <<request, target, handle, link, bytes, acked>>
          /\ \A v \in Workers : pc'[v] = "idle"
      BY <1>16 DEF Restart, requestVars
    <2>2. QED BY <2>1, QuietFiles DEF Opened, WritePcs
  <1>17. CASE UNCHANGED vars
    BY <1>17 DEF vars, requestVars, Files, OneName, Unused, AckedKept, ScannedOf, WritingOf,
                 Linked, Opened, File, Resource
  <1>18. QED BY <1>1, <1>2, <1>3, <1>4, <1>5, <1>6, <1>7, <1>8, <1>9, <1>10, <1>11,
                <1>12, <1>14, <1>15, <1>16, <1>17 DEF Next

\* An entity whose storing was answered stays as its last write left it until
\* somebody changes it, under every fault of the file system and the end of
\* threads and processes, as long as clients leave writers alone.
THEOREM CrudAckedKept ==
  ASSUME OneWriter
  PROVE  Spec => []AckedKept
  <1>1. Init => Inv
    BY InitTypeInv, InitFiles DEF Inv
  <1>2. Inv /\ [Next]_vars => Inv'
    BY NextTypeInv, NextAlone, NextFiles DEF Inv
  <1>3. Inv => AckedKept
    BY DEF Inv, Files
  <1>4. QED BY <1>1, <1>2, <1>3, PTL DEF Spec
=============================================================================
