------------------------------- MODULE Crud --------------------------------
(***************************************************************************)
(* The CRUD routes: CrudRequestHandler and RealEntityStorage on the        *)
(* server's worker threads, and the files below data_path.                 *)
(*                                                                         *)
(* An entity is a file, named by its id, in the directory of its resource. *)
(* Nothing locks a file or a directory, so a handler's calls of the file   *)
(* system are steps of their own: the scan for an id, the open that        *)
(* truncates, the write when the stream is closed, the open and the read   *)
(* of a retrieve.  A directory is read in one step.  Resource directories  *)
(* are created on demand and never removed, and one without files is       *)
(* answered like none, so they are not kept.                               *)
(***************************************************************************)
EXTENDS CrudApi

CONSTANTS
  Overlapping, \* methods whose requests to one resource may overlap
  Size,        \* Size[d]: bytes of document d
  Inodes,      \* files the file system can hold
  Faults       \* what may go wrong in this environment

\* fs_error: an open fails, or a directory operation throws; disk_full: a
\* write is not carried out; kill: the process ends.
FaultKinds == {"fs_error", "disk_full", "kill"}

ASSUME CrudAssumption ==
  /\ Size \in [Data -> Nat \ {0}]
  /\ Inodes \subseteq Nat \ {0}
  /\ Faults \subseteq FaultKinds

VARIABLES
  pc,      \* where each worker is in its handler
  request, \* the request it serves
  target,  \* the id it acts on
  existed, \* file_previously_existed of handle_put
  handle,  \* the file its stream has open
  reply,   \* its last answer
  link,    \* link[r][i]: the file named root/r/i
  bytes,   \* what each file holds
  acked    \* history: what the last answered write left at r/i, if none since

requestVars == <<request, target, existed>>
vars == <<pc, requestVars, handle, reply, link, bytes, acked>>

NoFile == 0

Labels == {"idle", "scan", "create_open", "create_write", "get_open", "get_read",
           "list", "put_check", "put_open", "put_write", "unlink", "dead"}

\* What a file holds: the document last written to it, and its length.  A
\* write starts at offset 0 and does not shorten the file.
Contents == [doc : Data \cup {None}, size : Nat]
Blank == [doc |-> None, size |-> 0]

Overwritten(b, doc) ==
  [doc |-> doc, size |-> IF b.size > Size[doc] THEN b.size ELSE Size[doc]]

\* A blank file, or a document with the tail of a longer one behind it, is
\* no client's document.
ReadBack(b) == IF b.doc # None /\ b.size = Size[b.doc] THEN b.doc ELSE Torn

TypeOK ==
  /\ pc \in [Workers -> Labels]
  /\ request \in [Workers -> Clients \cup {None}]
  /\ target \in [Workers -> Ids]
  /\ existed \in [Workers -> BOOLEAN]
  /\ handle \in [Workers -> Inodes \cup {NoFile}]
  /\ reply \in [Workers -> Replies]
  /\ link \in [Resources -> [Ids -> Inodes \cup {NoFile}]]
  /\ bytes \in [Inodes -> Contents]
  /\ acked \in [Resources -> [Ids -> Data \cup {None, Torn}]]

Init ==
  /\ pc = [w \in Workers |-> "idle"]
  /\ request = [w \in Workers |-> None]
  /\ target = [w \in Workers |-> 0]
  /\ existed = [w \in Workers |-> FALSE]
  /\ handle = [w \in Workers |-> NoFile]
  /\ reply = [w \in Workers |-> Pending]
  /\ link = [r \in Resources |-> [i \in Ids |-> NoFile]]
  /\ bytes = [f \in Inodes |-> Blank]
  /\ acked = [r \in Resources |-> [i \in Ids |-> None]]

-----------------------------------------------------------------------------
(* Parts of several steps.                                                 *)

Resource(w) == request[w].resource
File(w) == link[Resource(w)][target[w]]
InUse(r) == {i \in Ids : link[r][i] # NoFile}

GoTo(w, label) == pc' = [pc EXCEPT ![w] = label]

\* The handler returns a response, and its locals are gone.
Return(w, answer) ==
  /\ GoTo(w, "idle")
  /\ reply' = [reply EXCEPT ![w] = answer]
  /\ request' = [request EXCEPT ![w] = None]
  /\ target' = [target EXCEPT ![w] = 0]
  /\ existed' = [existed EXCEPT ![w] = FALSE]

Promise(w, doc) == acked' = [acked EXCEPT ![Resource(w)][target[w]] = doc]

Linked(f) == \E r \in Resources, i \in Ids : link[r][i] = f
Opened(f) == \E w \in Workers : handle[w] = f

\* A file without a name that nobody has open is given back.
Settle(new) ==
  bytes' = [f \in Inodes |-> IF Linked(f)' \/ Opened(f)' THEN new[f] ELSE Blank]

\* Mutant: the file is opened for update, not truncated.
Truncate_Kept(w) ==
  /\ handle' = [handle EXCEPT ![w] = File(w)]
  /\ UNCHANGED <<link, bytes>>

\* std::ofstream of a path that names a file: the file is emptied.
Truncate(w) ==
  /\ handle' = [handle EXCEPT ![w] = File(w)]
  /\ bytes' = [bytes EXCEPT ![File(w)] = Blank]
  /\ UNCHANGED link

\* std::ofstream of a path that names nothing: a new file.
CreateFile(w) ==
  \E f \in Inodes :
    /\ ~Linked(f) /\ ~Opened(f)
    /\ \A g \in Inodes : ~Linked(g) /\ ~Opened(g) => f <= g
    /\ handle' = [handle EXCEPT ![w] = f]
    /\ link' = [link EXCEPT ![Resource(w)][target[w]] = f]
    /\ UNCHANGED bytes

OpenForWriting(w) ==
  IF File(w) = NoFile THEN CreateFile(w) ELSE Truncate(w)

\* The stream's destructor writes its buffer and closes the file; nobody
\* asks whether it could.
WriteAndClose(w) ==
  /\ handle' = [handle EXCEPT ![w] = NoFile]
  /\ UNCHANGED link
  /\ \/ /\ Settle([bytes EXCEPT ![handle[w]] = Overwritten(@, request[w].doc)])
        /\ Promise(w, request[w].doc)
     \/ /\ "disk_full" \in Faults
        /\ Settle(bytes)
        /\ Promise(w, Torn)

-----------------------------------------------------------------------------
(* handle_request: a request reaches an idle worker.                       *)

\* Whether clients would send req now, with the requests in progress.
MayArrive(req) ==
  \A v \in Workers :
    request[v] # None /\ request[v].resource = req.resource
      => {request[v].method, req.method} \subseteq Overlapping

FirstStep(req) ==
  IF req.method = "POST" THEN "scan"
  ELSE IF req.method = "PUT" THEN "put_check"
  ELSE IF req.method = "DELETE" THEN "unlink"
  ELSE IF req.id = None THEN "list" ELSE "get_open"

Begin(w, req) ==
  /\ pc[w] = "idle"
  /\ Refusal(req) = 0 /\ MayArrive(req)
  /\ GoTo(w, FirstStep(req))
  /\ request' = [request EXCEPT ![w] = req]
  /\ target' = [target EXCEPT ![w] = IF req.method # "POST" /\ req.id # None
                                       THEN req.id ELSE 0]
  /\ reply' = [reply EXCEPT ![w] = Pending]
  /\ UNCHANGED <<existed, handle, link, bytes, acked>>

Refuse(w, req) ==
  /\ pc[w] = "idle"
  /\ Refusal(req) # 0
  /\ Return(w, Plain(req, Refusal(req)))
  /\ UNCHANGED <<handle, link, bytes, acked>>

-----------------------------------------------------------------------------
(* handle_post over RealEntityStorage::create.                             *)

\* Mutant: the ids are counted.
CreateScan_Counts(w) ==
  /\ pc[w] = "scan"
  /\ Cardinality(InUse(Resource(w))) < MaxId
  /\ target' = [target EXCEPT ![w] = Cardinality(InUse(Resource(w))) + 1]
  /\ GoTo(w, "create_open")
  /\ UNCHANGED <<request, existed, handle, reply, link, bytes, acked>>

\* Mutant: the largest int is not looked out for.
CreateScan_NoLimit(w) ==
  /\ pc[w] = "scan"
  /\ target' = [target EXCEPT ![w] = NextId(InUse(Resource(w)))]
  /\ GoTo(w, "create_open")
  /\ UNCHANGED <<request, existed, handle, reply, link, bytes, acked>>

CreateScan(w) ==
  /\ pc[w] = "scan"
  /\ NextId(InUse(Resource(w))) <= MaxId
  /\ target' = [target EXCEPT ![w] = NextId(InUse(Resource(w)))]
  /\ GoTo(w, "create_open")
  /\ UNCHANGED <<request, existed, handle, reply, link, bytes, acked>>

CreateNoId(w) ==
  /\ pc[w] = "scan"
  /\ NextId(InUse(Resource(w))) > MaxId
  /\ Return(w, Plain(request[w], 500))
  /\ UNCHANGED <<handle, link, bytes, acked>>

CreateOpen(w) ==
  /\ pc[w] = "create_open"
  /\ OpenForWriting(w)
  /\ GoTo(w, "create_write")
  /\ UNCHANGED <<requestVars, reply, acked>>

CreateWrite(w) ==
  /\ pc[w] = "create_write"
  /\ WriteAndClose(w)
  /\ Return(w, Answer(request[w], 201, None, {target[w]}))

-----------------------------------------------------------------------------
(* handle_get over RealEntityStorage::retrieve and list.                   *)

GetMissing(w) ==
  /\ pc[w] = "get_open"
  /\ File(w) = NoFile
  /\ Return(w, Plain(request[w], 404))
  /\ UNCHANGED <<handle, link, bytes, acked>>

GetOpen(w) ==
  /\ pc[w] = "get_open"
  /\ File(w) # NoFile
  /\ handle' = [handle EXCEPT ![w] = File(w)]
  /\ GoTo(w, "get_read")
  /\ UNCHANGED <<requestVars, reply, link, bytes, acked>>

\* The answer to a GET whose file held b.  What is no client's document may
\* still parse, unless the file was empty.
GetAnswers(req, b) ==
  IF ReadBack(b) # Torn THEN {Answer(req, 200, ReadBack(b), {})}
  ELSE {Plain(req, 500)} \cup
         (IF b.size = 0 THEN {} ELSE {Answer(req, 200, Torn, {})})

GetRead(w) ==
  /\ pc[w] = "get_read"
  /\ handle' = [handle EXCEPT ![w] = NoFile]
  /\ UNCHANGED <<link, acked>>
  /\ Settle(bytes)
  /\ \E answer \in GetAnswers(request[w], bytes[handle[w]]) : Return(w, answer)

\* An empty list is answered as a resource that does not exist.
List(w) ==
  /\ pc[w] = "list"
  /\ LET ids == InUse(Resource(w)) IN
     Return(w, IF ids = {} THEN Plain(request[w], 404)
               ELSE Answer(request[w], 200, None, ids))
  /\ UNCHANGED <<handle, link, bytes, acked>>

-----------------------------------------------------------------------------
(* handle_put over RealEntityStorage::retrieve and update.                 *)

PutCheck(w) ==
  /\ pc[w] = "put_check"
  /\ existed' = [existed EXCEPT ![w] = File(w) # NoFile]
  /\ GoTo(w, "put_open")
  /\ UNCHANGED <<request, target, handle, reply, link, bytes, acked>>

PutOpen(w) ==
  /\ pc[w] = "put_open"
  /\ OpenForWriting(w)
  /\ Promise(w, None)
  /\ GoTo(w, "put_write")
  /\ UNCHANGED <<requestVars, reply>>

PutStatus(w) == IF existed[w] THEN 200 ELSE 201

PutWrite(w) ==
  /\ pc[w] = "put_write"
  /\ WriteAndClose(w)
  /\ Return(w, Plain(request[w], PutStatus(w)))

-----------------------------------------------------------------------------
(* handle_delete over RealEntityStorage::remove.                           *)

Delete(w) ==
  /\ pc[w] = "unlink"
  /\ link' = [link EXCEPT ![Resource(w)][target[w]] = NoFile]
  /\ Promise(w, None)
  /\ Return(w, Plain(request[w], IF File(w) = NoFile THEN 404 ELSE 204))
  /\ UNCHANGED handle
  /\ Settle(bytes)

-----------------------------------------------------------------------------
(* Errors of the file system, and the end of a thread or of the process.   *)

\* A stream that cannot be opened: create fails with 500, retrieve finds
\* nothing, update fails with 500.
OpenFails(w) ==
  /\ "fs_error" \in Faults
  /\ \/ pc[w] \in {"create_open", "put_open"} /\ Return(w, Plain(request[w], 500))
     \/ pc[w] = "get_open" /\ Return(w, Plain(request[w], 404))
     \/ /\ pc[w] = "put_check"
        /\ existed' = [existed EXCEPT ![w] = FALSE]
        /\ GoTo(w, "put_open")
        /\ UNCHANGED <<request, target, reply>>
  /\ UNCHANGED <<handle, link, bytes, acked>>

\* The worker's thread is over, with its streams: a new process starts with
\* idle workers.
Die(dying) ==
  /\ pc' = [w \in Workers |-> IF w \in dying THEN "dead" ELSE pc[w]]
  /\ reply' = [w \in Workers |-> IF w \in dying THEN Pending ELSE reply[w]]
  /\ request' = [w \in Workers |-> IF w \in dying THEN None ELSE request[w]]
  /\ target' = [w \in Workers |-> IF w \in dying THEN 0 ELSE target[w]]
  /\ existed' = [w \in Workers |-> IF w \in dying THEN FALSE ELSE existed[w]]
  /\ handle' = [w \in Workers |-> IF w \in dying THEN NoFile ELSE handle[w]]
  /\ UNCHANGED <<link, acked>>
  /\ Settle(bytes)

\* std::filesystem throws from create_directories (the handler's constructor
\* calls it for every request), a directory iterator or remove; nothing
\* catches it below the lambda of the worker thread, which logs it and ends.
Throws(w) ==
  /\ "fs_error" \in Faults
  /\ pc[w] \in {"idle", "scan", "list", "put_open", "unlink"}
  /\ Die({w})

Kill ==
  /\ "kill" \in Faults
  /\ \E w \in Workers : pc[w] # "dead"
  /\ Die(Workers)

\* main returns once every thread has ended; the server is started again.
Restart ==
  /\ \A w \in Workers : pc[w] = "dead"
  /\ pc' = [w \in Workers |-> "idle"]
  /\ UNCHANGED <<requestVars, handle, reply, link, bytes, acked>>

Next ==
  \/ \E w \in Workers :
       \/ \E req \in Clients : Begin(w, req) \/ Refuse(w, req)
       \/ CreateScan(w) \/ CreateNoId(w) \/ CreateOpen(w) \/ CreateWrite(w)
       \/ GetMissing(w) \/ GetOpen(w) \/ GetRead(w) \/ List(w)
       \/ PutCheck(w) \/ PutOpen(w) \/ PutWrite(w)
       \/ Delete(w)
       \/ OpenFails(w) \/ Throws(w)
  \/ Kill
  \/ Restart

Spec == Init /\ [][Next]_vars

-----------------------------------------------------------------------------
(***************************************************************************)
(* An entity whose document a client was told is stored (201 or 200) is    *)
(* there, whole, until a PUT or DELETE of that entity begins to act: no    *)
(* POST takes its file, no other entity's file shares it, and it survives  *)
(* the end of the process.  After a write that the file system lost, which *)
(* is answered alike, the entity is there too but empty or torn: a GET     *)
(* never finds the document of an earlier write in it.                     *)
(***************************************************************************)
AckedKept ==
  \A r \in Resources, i \in Ids :
    acked[r][i] # None
      => /\ link[r][i] # NoFile
         /\ ReadBack(bytes[link[r][i]]) = acked[r][i]

(***************************************************************************)
(* The file system calls of the handlers implement the atomic map of       *)
(* EntityStore.  A POST or PUT takes effect when its file is opened: until *)
(* it is written, its document counts as there and its answer as given.  A *)
(* GET takes effect when it opens its file.                                *)
(***************************************************************************)
Writers(f) == {w \in Workers : pc[w] \in {"create_write", "put_write"} /\ handle[w] = f}

Stored(f) ==
  IF f = NoFile THEN None
  ELSE IF Writers(f) = {} THEN ReadBack(bytes[f])
  ELSE request[CHOOSE w \in Writers(f) : TRUE].doc

Decided(w) ==
  CASE pc[w] = "create_write" -> Answer(request[w], 201, None, {target[w]})
    [] pc[w] = "put_write" -> Plain(request[w], PutStatus(w))
    [] pc[w] = "get_read" -> Answer(request[w], 200, ReadBack(bytes[handle[w]]), {})
    [] OTHER -> reply[w]

Store == INSTANCE EntityStore
  WITH entities <- [r \in Resources |-> [i \in Ids |-> Stored(link[r][i])]],
       reply <- [w \in Workers |-> Decided(w)]

ImplementsStore == Store!Spec

=============================================================================
