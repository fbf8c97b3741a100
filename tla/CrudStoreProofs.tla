-------------------------- MODULE CrudStoreProofs ---------------------------
(***************************************************************************)
(* The file system calls of the CRUD handlers implement the map of         *)
(* EntityStore, for every number of workers, resources, documents and ids, *)
(* where nothing fails and the writers of a resource are alone on it.      *)
(***************************************************************************)
EXTENDS CrudProofs

-----------------------------------------------------------------------------
(* What a handler knows while it acts.  A GET, PUT or DELETE acts on the   *)
(* id of its request; the id a POST chose is still the next one; whether   *)
(* the file existed is still so when a PUT opens it; a GET that has its    *)
(* file open reads a whole document from it, whatever became of its name;  *)
(* and a file that nobody is writing holds a whole document.               *)

ByIdPcs == {"get_open", "get_read", "unlink"} \cup PutPcs
ActingPcs == {"create_open", "put_open", "unlink"} \cup WritePcs

ServingOf(w) ==
  /\ pc[w] # "dead"
  /\ pc[w] # "idle" => Refusal(request[w]) = 0
  /\ pc[w] \in {"get_open", "get_read", "list"} => request[w].method = "GET"
  /\ pc[w] = "list" => request[w].id = None
  /\ pc[w] = "unlink" => request[w].method = "DELETE"
  /\ pc[w] \in ByIdPcs => /\ request[w].id \in Ids /\ request[w].id # None
                       /\ target[w] = request[w].id

ChosenOf(w) == pc[w] = "create_open" => target[w] = NextId(InUse(Resource(w)))

CheckedOf(w) == pc[w] = "put_open" => existed[w] = (File(w) # NoFile)

ReadingOf(w) ==
  pc[w] = "get_read"
    => /\ ReadBack(bytes[handle[w]]) \in Data
       /\ \A r \in Resources, i \in Ids : link[r][i] = handle[w] => r = Resource(w)

WritesTo(w, r, i) == pc[w] \in WritePcs /\ Resource(w) = r /\ target[w] = i

WholeOf(r, i) ==
  link[r][i] # NoFile /\ (\A w \in Workers : ~WritesTo(w, r, i))
    => ReadBack(bytes[link[r][i]]) \in Data

HandlerOf(w) == ServingOf(w) /\ ChosenOf(w) /\ CheckedOf(w) /\ ReadingOf(w)

StoreInv ==
  /\ Inv
  /\ \A w \in Workers : HandlerOf(w)
  /\ \A r \in Resources, i \in Ids : WholeOf(r, i)

\* At the start everybody is idle and no file has a name.
LEMMA InitStoreInv == Init => StoreInv
  <1> SUFFICES ASSUME Init PROVE StoreInv
    OBVIOUS
  <1>1. /\ \A w \in Workers : pc[w] = "idle"
        /\ \A r \in Resources, i \in Ids : link[r][i] = NoFile
    BY DEF Init
  <1>2. Inv
    BY InitTypeInv, InitFiles DEF Inv
  <1>3. ASSUME NEW w \in Workers PROVE HandlerOf(w)
    BY <1>1 DEF HandlerOf, ServingOf, ChosenOf, CheckedOf, ReadingOf, ByIdPcs, PutPcs
  <1>4. \A r \in Resources, i \in Ids : WholeOf(r, i)
    BY <1>1 DEF WholeOf
  <1>5. QED BY <1>2, <1>3, <1>4 DEF StoreInv

\* Nobody else acts on the resource that a POST or PUT works on.
LEMMA ModifierAlone ==
  ASSUME TypeInv, Alone, OneWriter, NEW v \in Workers, NEW w \in Workers, v # w,
         pc[v] \in PostPcs \cup PutPcs, pc[w] \notin AtRest
  PROVE  Resource(v) # Resource(w)
  <1>1. pc[v] \notin AtRest
    BY DEF AtRest, PostPcs, PutPcs
  <1>2. /\ request[v].method \in {"POST", "PUT"} /\ request[v] # None
        /\ request[w] # None
    BY <1>1, Constants DEF TypeInv, Locals, LocalsOf, Accepted
  <1>3. request[v].method \notin Overlapping
    BY <1>2 DEF OneWriter
  <1>4. QED BY <1>2, <1>3 DEF Alone, Resource

\* A writer is the only one, and its file is the one at its target.
LEMMA WriterOf ==
  ASSUME Inv, OneWriter, NEW r \in Resources, NEW i \in Ids, link[r][i] # NoFile
  PROVE  /\ \A w \in Workers : w \in Writers(link[r][i]) <=> WritesTo(w, r, i)
         /\ \A v, w \in Workers : WritesTo(v, r, i) /\ WritesTo(w, r, i) => v = w
  <1>1. ASSUME NEW w \in Workers, pc[w] \in WritePcs
        PROVE  /\ handle[w] = File(w) /\ handle[w] # NoFile
               /\ Resource(w) \in Resources /\ target[w] \in Ids /\ pc[w] \notin AtRest
    <2>1. pc[w] \notin AtRest
      BY <1>1 DEF AtRest, WritePcs
    <2>2. handle[w] = File(w) /\ handle[w] \in Inodes
      BY <1>1 DEF Inv, Files, WritingOf, TypeInv, Locals, LocalsOf, OpenPcs
    <2>3. QED BY <2>1, <2>2, InHandler, Constants DEF Inv
  <1>2. ASSUME NEW w \in Workers PROVE w \in Writers(link[r][i]) <=> WritesTo(w, r, i)
    <2>1. CASE pc[w] \in WritePcs
      <3>1. handle[w] = link[r][i] <=> Resource(w) = r /\ target[w] = i
        BY <2>1, <1>1 DEF Inv, Files, OneName, File
      <3>2. QED BY <2>1, <3>1 DEF Writers, WritesTo, WritePcs
    <2>2. CASE pc[w] \notin WritePcs
      BY <2>2 DEF Writers, WritesTo, WritePcs
    <2>3. QED BY <2>1, <2>2
  <1>3. ASSUME NEW v \in Workers, NEW w \in Workers, WritesTo(v, r, i), WritesTo(w, r, i)
        PROVE  v = w
    <2>1. pc[v] \in {"create_open", "create_write", "put_write"} /\ pc[w] \notin AtRest
      BY <1>3 DEF WritesTo, WritePcs, AtRest
    <2>2. QED BY <2>1, <1>3, WriterAlone DEF Inv, WritesTo
  <1>4. QED BY <1>2, <1>3

\* What the map holds at r/i: nothing, the document on its way, or the file's.
StoredAt(r, i) ==
  /\ link[r][i] = NoFile => Stored(link[r][i]) = None
  /\ link[r][i] # NoFile /\ (\A w \in Workers : ~WritesTo(w, r, i))
       => Stored(link[r][i]) = ReadBack(bytes[link[r][i]])
  /\ \A w \in Workers :
       WritesTo(w, r, i) => link[r][i] # NoFile /\ Stored(link[r][i]) = request[w].doc

LEMMA StoredIs ==
  Inv /\ OneWriter => \A r \in Resources, i \in Ids : StoredAt(r, i)
  <1> SUFFICES ASSUME Inv, OneWriter, NEW r \in Resources, NEW i \in Ids
               PROVE  StoredAt(r, i)
    OBVIOUS
  <1> DEFINE f == link[r][i]
  <1>1. CASE f = NoFile
    <2>1. \A w \in Workers : ~WritesTo(w, r, i)
      <3>1. ASSUME NEW w \in Workers, WritesTo(w, r, i) PROVE FALSE
        <4>1. handle[w] = f /\ handle[w] \in Inodes
          BY <3>1 DEF WritesTo, Inv, Files, WritingOf, File, TypeInv, Locals, LocalsOf, OpenPcs
        <4>2. QED BY <4>1, <1>1, Constants
      <3>2. QED BY <3>1
    <2>2. QED BY <1>1, <2>1 DEF StoredAt, Stored
  <1>2. CASE f # NoFile /\ \A w \in Workers : ~WritesTo(w, r, i)
    <2>1. Writers(f) = {}
      BY <1>2, WriterOf DEF Writers
    <2>2. QED BY <1>2, <2>1 DEF StoredAt, Stored
  <1>3. CASE f # NoFile /\ \E w \in Workers : WritesTo(w, r, i)
    <2>1. PICK w \in Workers : WritesTo(w, r, i)
      BY <1>3
    <2>2. \A v \in Workers : WritesTo(v, r, i) => v = w
      BY <1>3, <2>1, WriterOf
    <2>3. Writers(f) = {w}
      BY <1>3, <2>1, <2>2, WriterOf DEF Writers
    <2>4. Stored(f) = request[w].doc
      BY <1>3, <2>3 DEF Stored
    <2>5. QED BY <1>3, <2>1, <2>2, <2>4 DEF StoredAt
  <1>4. QED BY <1>1, <1>2, <1>3

-----------------------------------------------------------------------------
(* Steps where nothing fails, and what a step of one worker leaves alone:  *)
(* the other workers, the entities that it does not act on, and the files  *)
(* that others are reading.                                                *)

WorkerStep(w) ==
  \/ \E req \in Clients : Begin(w, req) \/ Refuse(w, req)
  \/ CreateScan(w) \/ CreateNoId(w) \/ CreateOpen(w) \/ CreateWrite(w)
  \/ GetMissing(w) \/ GetOpen(w) \/ GetRead(w) \/ List(w)
  \/ PutCheck(w) \/ PutOpen(w) \/ PutWrite(w)
  \/ Delete(w)

OthersStay(w) ==
  \A v \in Workers \ {w} :
    /\ pc'[v] = pc[v] /\ request'[v] = request[v] /\ target'[v] = target[v]
    /\ existed'[v] = existed[v] /\ handle'[v] = handle[v] /\ reply'[v] = reply[v]

EntityStays(r, i) ==
  /\ link'[r][i] = link[r][i]
  /\ link[r][i] # NoFile => bytes'[link[r][i]] = bytes[link[r][i]]

ElsewhereStays(w) ==
  \A r \in Resources, i \in Ids :
    (pc[w] \in ActingPcs => <<r, i>> # <<Resource(w), target[w]>>) => EntityStays(r, i)

ReaderStays(v) ==
  /\ bytes'[handle[v]] = bytes[handle[v]]
  /\ \A r \in Resources, i \in Ids : link'[r][i] = handle[v] => link[r][i] = handle[v]

Frame(w) ==
  /\ OthersStay(w) /\ ElsewhereStays(w)
  /\ \A v \in Workers \ {w} : pc[v] = "get_read" => ReaderStays(v)

\* Without faults only workers move, and none of them ever ends.
LEMMA NoFaults ==
  ASSUME Faults = {}, StoreInv, [Next]_vars
  PROVE  (\E w \in Workers : WorkerStep(w)) \/ UNCHANGED vars
  <1>1. CASE Restart
    <2>1. Workers = {}
      BY <1>1 DEF Restart, StoreInv, HandlerOf, ServingOf
    <2>2. pc \in [Workers -> Labels]
      BY DEF StoreInv, Inv, TypeInv, TypeOK
    <2>3. pc' = pc
      BY <1>1, <2>1, <2>2 DEF Restart
    <2>4. QED BY <1>1, <2>3 DEF Restart, vars, requestVars
  <1>2. ~Kill /\ \A w \in Workers : ~OpenFails(w) /\ ~Throws(w)
    BY DEF Kill, OpenFails, Throws
  <1>3. QED BY <1>1, <1>2 DEF Next, WorkerStep

\* A handler that moves on or answers touches no other worker's variables.
LEMMA StepOthers ==
  ASSUME TypeInv, NEW w \in Workers, WorkerStep(w)
  PROVE  OthersStay(w)
  <1>k. /\ pc \in [Workers -> Labels] /\ request \in [Workers -> Clients \cup {None}]
        /\ target \in [Workers -> Ids] /\ existed \in [Workers -> BOOLEAN]
        /\ handle \in [Workers -> Inodes \cup {NoFile}] /\ reply \in [Workers -> Replies]
    BY DEF TypeInv, TypeOK
  <1>h. ASSUME handle' = handle \/ \E f : handle' = [handle EXCEPT ![w] = f]
        PROVE  \A v \in Workers \ {w} : handle'[v] = handle[v]
    BY <1>h, <1>k
  <1>o. OpenForWriting(w) => \E f : handle' = [handle EXCEPT ![w] = f]
    BY DEF OpenForWriting, CreateFile, Truncate
  <1>r. ASSUME NEW answer, Return(w, answer),
               handle' = handle \/ \E f : handle' = [handle EXCEPT ![w] = f]
        PROVE  OthersStay(w)
    BY <1>r, <1>h, <1>k DEF Return, GoTo, OthersStay
  <1>1. ASSUME NEW req \in Clients, Begin(w, req) PROVE OthersStay(w)
    BY <1>1, <1>k DEF Begin, GoTo, OthersStay
  <1>2. ASSUME NEW req \in Clients, Refuse(w, req) PROVE OthersStay(w)
    BY <1>2, <1>r DEF Refuse
  <1>3. CASE CreateScan(w) \/ PutCheck(w)
    BY <1>3, <1>k DEF CreateScan, PutCheck, GoTo, OthersStay
  <1>4. CASE CreateNoId(w) \/ GetMissing(w) \/ List(w) \/ Delete(w)
    BY <1>4, <1>r DEF CreateNoId, GetMissing, List, Delete
  <1>5. CASE CreateOpen(w) \/ PutOpen(w)
    BY <1>5, <1>o, <1>h, <1>k DEF CreateOpen, PutOpen, requestVars, GoTo, OthersStay
  <1>6. CASE CreateWrite(w) \/ PutWrite(w) \/ GetRead(w)
    BY <1>6, <1>r DEF CreateWrite, PutWrite, WriteAndClose, GetRead
  <1>7. CASE GetOpen(w)
    BY <1>7, <1>k DEF GetOpen, requestVars, GoTo, OthersStay
  <1>8. QED BY <1>1, <1>2, <1>3, <1>4, <1>5, <1>6, <1>7 DEF WorkerStep

\* The file a POST or PUT works on is not one that somebody reads.
LEMMA NotRead ==
  ASSUME StoreInv, OneWriter, NEW w \in Workers, pc[w] \in PostPcs \cup PutPcs,
         NEW v \in Workers \ {w}, pc[v] = "get_read"
  PROVE  File(w) # handle[v]
  <1>1. pc[v] \notin AtRest /\ pc[w] \notin AtRest
    BY DEF AtRest, PostPcs, PutPcs
  <1>2. Resource(w) # Resource(v) /\ Resource(w) \in Resources /\ target[w] \in Ids
    BY <1>1, ModifierAlone, InHandler DEF StoreInv, Inv
  <1>3. QED BY <1>2 DEF StoreInv, HandlerOf, ReadingOf, File

\* Opening a file for writing.
LEMMA OpenFrame ==
  ASSUME StoreInv, OneWriter, NEW w \in Workers, pc[w] \in {"create_open", "put_open"},
         OpenForWriting(w), OthersStay(w)
  PROVE  Frame(w)
  <1> DEFINE R == Resource(w)
             t == target[w]
  <1>1. /\ pc[w] \notin AtRest /\ R \in Resources /\ t \in Ids
        /\ File(w) \in Inodes \cup {NoFile} /\ pc[w] \in PostPcs \cup PutPcs
        /\ pc[w] \in ActingPcs
    <2>1. pc[w] \notin AtRest /\ pc[w] \in PostPcs \cup PutPcs /\ pc[w] \in ActingPcs
      BY DEF AtRest, PostPcs, PutPcs, ActingPcs
    <2>2. QED BY <2>1, InHandler DEF StoreInv, Inv
  <1>2. /\ link \in [Resources -> [Ids -> Inodes \cup {NoFile}]]
        /\ bytes \in [Inodes -> Contents] /\ NoFile \notin Inodes
    BY Constants DEF StoreInv, Inv, TypeInv, TypeOK
  <1>v. ASSUME NEW v \in Workers \ {w}, pc[v] = "get_read"
        PROVE  handle[v] \in Inodes /\ File(w) # handle[v]
    BY <1>v, <1>1, NotRead DEF StoreInv, Inv, TypeInv, Locals, LocalsOf, OpenPcs
  <1>3. CASE File(w) = NoFile
    <2>1. PICK f \in Inodes : /\ ~Linked(f) /\ ~Opened(f) /\ bytes' = bytes
                              /\ link' = [link EXCEPT ![R][t] = f]
      BY <1>3 DEF OpenForWriting, CreateFile
    <2>2. ElsewhereStays(w)
      BY <2>1, <1>1, <1>2 DEF ElsewhereStays, EntityStays
    <2>3. ASSUME NEW v \in Workers \ {w}, pc[v] = "get_read" PROVE ReaderStays(v)
      <3>1. f # handle[v]
        BY <2>1 DEF Opened
      <3>2. QED BY <3>1, <2>1, <1>1, <1>2 DEF ReaderStays
    <2>4. QED BY <2>2, <2>3 DEF Frame
  <1>4. CASE File(w) # NoFile
    <2>1. link' = link /\ bytes' = [bytes EXCEPT ![File(w)] = Blank]
      BY <1>4 DEF OpenForWriting, Truncate
    <2>2. ASSUME NEW r \in Resources, NEW i \in Ids, <<r, i>> # <<R, t>>, link[r][i] # NoFile
          PROVE  link[r][i] # File(w)
      BY <2>2, <1>1 DEF StoreInv, Inv, Files, OneName, File
    <2>3. ElsewhereStays(w)
      BY <2>1, <2>2, <1>1, <1>2 DEF ElsewhereStays, EntityStays
    <2>4. ASSUME NEW v \in Workers \ {w}, pc[v] = "get_read" PROVE ReaderStays(v)
      BY <2>1, <2>4, <1>v, <1>2 DEF ReaderStays
    <2>5. QED BY <2>3, <2>4 DEF Frame
  <1>5. QED BY <1>3, <1>4

\* Giving up a handle or a name, after a write or without one.
LEMMA SettleFrame ==
  ASSUME StoreInv, OneWriter, NEW w \in Workers, pc[w] \notin AtRest, OthersStay(w),
         \/ Settle(bytes)
         \/ /\ pc[w] \in WritePcs
            /\ Settle([bytes EXCEPT ![handle[w]] = Overwritten(@, request[w].doc)]),
         \/ link' = link
         \/ pc[w] \in ActingPcs /\ link' = [link EXCEPT ![Resource(w)][target[w]] = NoFile]
  PROVE  Frame(w)
  <1> DEFINE R == Resource(w)
             t == target[w]
             new == [bytes EXCEPT ![handle[w]] = Overwritten(@, request[w].doc)]
  <1>1. R \in Resources /\ t \in Ids
    BY InHandler DEF StoreInv, Inv
  <1>2. /\ link \in [Resources -> [Ids -> Inodes \cup {NoFile}]]
        /\ bytes \in [Inodes -> Contents] /\ NoFile \notin Inodes
    BY Constants DEF StoreInv, Inv, TypeInv, TypeOK
  <1>3. ASSUME pc[w] \in WritePcs
        PROVE  /\ handle[w] = File(w) /\ handle[w] \in Inodes /\ pc[w] \in PostPcs \cup PutPcs
               /\ pc[w] \in ActingPcs
    BY <1>3 DEF WritePcs, OpenPcs, PostPcs, PutPcs, ActingPcs, StoreInv, Inv, Files, WritingOf,
                TypeInv, Locals, LocalsOf
  <1>4. ElsewhereStays(w)
    <2>1. ASSUME NEW r \in Resources, NEW i \in Ids,
                 pc[w] \in ActingPcs => <<r, i>> # <<R, t>>
          PROVE  EntityStays(r, i)
      <3>1. link'[r][i] = link[r][i]
        BY <2>1, <1>1, <1>2
      <3>2. ASSUME link[r][i] # NoFile PROVE bytes'[link[r][i]] = bytes[link[r][i]]
        <4>1. link[r][i] \in Inodes
          BY <3>2, <1>2
        <4>2. CASE Settle(bytes)
          BY <4>1, <4>2, <3>1, SettleLinked
        <4>3. CASE pc[w] \in WritePcs /\ Settle(new)
          <5>1. bytes'[link[r][i]] = new[link[r][i]]
            BY <4>1, <4>3, <3>1 DEF Settle, Linked
          <5>2. link[r][i] # handle[w]
            BY <4>3, <2>1, <3>2, <1>1, <1>3 DEF StoreInv, Inv, Files, OneName, File
          <5>3. QED BY <5>1, <5>2, <4>1, <1>2
        <4>4. QED BY <4>2, <4>3
      <3>3. QED BY <3>1, <3>2 DEF EntityStays
    <2>2. QED BY <2>1 DEF ElsewhereStays
  <1>5. ASSUME NEW v \in Workers \ {w}, pc[v] = "get_read" PROVE ReaderStays(v)
    <2>1. handle[v] \in Inodes /\ \E u \in Workers : handle'[u] = handle[v]
      BY <1>5 DEF StoreInv, Inv, TypeInv, Locals, LocalsOf, OpenPcs, OthersStay
    <2>2. bytes'[handle[v]] = bytes[handle[v]]
      <3>1. CASE Settle(bytes)
        BY <2>1, <3>1 DEF Settle, Opened
      <3>2. CASE pc[w] \in WritePcs /\ Settle(new)
        <4>1. handle[w] # handle[v]
          BY <1>3, <1>5, <3>2, NotRead
        <4>2. bytes'[handle[v]] = new[handle[v]]
          BY <2>1, <3>2 DEF Settle, Opened
        <4>3. QED BY <4>1, <4>2, <2>1, <1>2
      <3>3. QED BY <3>1, <3>2
    <2>3. \A r \in Resources, i \in Ids : link'[r][i] = handle[v] => link[r][i] = handle[v]
      BY <2>1, <1>1, <1>2
    <2>4. QED BY <2>2, <2>3 DEF ReaderStays
  <1>6. QED BY <1>4, <1>5 DEF Frame

\* Every step of a worker leaves the others, and what they work on, alone.
LEMMA StepFrame ==
  ASSUME StoreInv, OneWriter, Faults = {}, NEW w \in Workers, WorkerStep(w)
  PROVE  Frame(w)
  <1>1. OthersStay(w)
    BY StepOthers DEF StoreInv, Inv
  <1>2. CASE link' = link /\ bytes' = bytes
    BY <1>1, <1>2 DEF Frame, ElsewhereStays, EntityStays, ReaderStays
  <1>3. CASE CreateOpen(w) \/ PutOpen(w)
    BY <1>1, <1>3, OpenFrame DEF CreateOpen, PutOpen
  <1>4. CASE CreateWrite(w) \/ PutWrite(w)
    <2>1. /\ pc[w] \in WritePcs /\ pc[w] \notin AtRest /\ link' = link
          /\ Settle([bytes EXCEPT ![handle[w]] = Overwritten(@, request[w].doc)])
      BY <1>4 DEF CreateWrite, PutWrite, WriteAndClose, WritePcs, AtRest
    <2>2. QED BY <2>1, <1>1, SettleFrame
  <1>5. CASE GetRead(w) \/ Delete(w)
    <2>1. /\ pc[w] \notin AtRest /\ Settle(bytes)
          /\ \/ link' = link
             \/ /\ pc[w] \in ActingPcs
                /\ link' = [link EXCEPT ![Resource(w)][target[w]] = NoFile]
      BY <1>5 DEF GetRead, Delete, AtRest, ActingPcs
    <2>2. QED BY <2>1, <1>1, SettleFrame
  <1>6. QED BY <1>2, <1>3, <1>4, <1>5
        DEF WorkerStep, Begin, Refuse, CreateScan, CreateNoId, GetMissing, GetOpen, List, PutCheck

-----------------------------------------------------------------------------
(* The invariant is inductive.                                             *)

\* The resource a POST or PUT works on is as it left it.
LEMMA ResourceStays ==
  ASSUME StoreInv, OneWriter, NEW w \in Workers, Frame(w),
         NEW v \in Workers \ {w}, pc[v] \in PostPcs \cup PutPcs
  PROVE  /\ Resource(v) \in Resources /\ target[v] \in Ids /\ Resource(v)' = Resource(v)
         /\ \A i \in Ids : link'[Resource(v)][i] = link[Resource(v)][i]
  <1>1. pc[v] \notin AtRest
    BY DEF AtRest, PostPcs, PutPcs
  <1>2. Resource(v) \in Resources /\ target[v] \in Ids
    BY <1>1, InHandler DEF StoreInv, Inv
  <1>3. pc[w] \in ActingPcs => Resource(v) # Resource(w)
    BY ModifierAlone DEF StoreInv, Inv, ActingPcs, WritePcs, AtRest
  <1>4. \A i \in Ids : EntityStays(Resource(v), i)
    BY <1>2, <1>3 DEF Frame, ElsewhereStays
  <1>5. Resource(v)' = Resource(v)
    BY DEF Frame, OthersStay, Resource
  <1>6. QED BY <1>2, <1>4, <1>5 DEF EntityStays

\* What the other handlers know stays true.
LEMMA OtherHandlers ==
  ASSUME StoreInv, OneWriter, NEW w \in Workers, Frame(w), NEW v \in Workers \ {w}
  PROVE  HandlerOf(v)'
  <1>1. /\ pc'[v] = pc[v] /\ request'[v] = request[v] /\ target'[v] = target[v]
        /\ existed'[v] = existed[v] /\ handle'[v] = handle[v]
    BY DEF Frame, OthersStay
  <1>2. ServingOf(v) /\ ChosenOf(v) /\ CheckedOf(v) /\ ReadingOf(v)
    BY DEF StoreInv, HandlerOf
  <1>3. ServingOf(v)'
    BY <1>1, <1>2 DEF ServingOf
  <1>4. ChosenOf(v)'
    <2> SUFFICES ASSUME pc[v] = "create_open" PROVE target'[v] = NextId(InUse(Resource(v)))'
      BY <1>1 DEF ChosenOf
    <2>1. InUse(Resource(v))' = InUse(Resource(v))
      BY ResourceStays DEF InUse, PostPcs
    <2>2. QED BY <2>1, <1>1, <1>2 DEF ChosenOf, NextId
  <1>5. CheckedOf(v)'
    <2> SUFFICES ASSUME pc[v] = "put_open" PROVE existed'[v] = (File(v)' # NoFile)
      BY <1>1 DEF CheckedOf
    <2>1. File(v)' = File(v)
      BY <1>1, ResourceStays DEF File, PutPcs
    <2>2. QED BY <2>1, <1>1, <1>2 DEF CheckedOf
  <1>6. ReadingOf(v)'
    <2> SUFFICES ASSUME pc[v] = "get_read" PROVE ReadingOf(v)'
      BY <1>1 DEF ReadingOf
    <2>1. ReaderStays(v)
      BY DEF Frame
    <2>2. QED BY <2>1, <1>1, <1>2 DEF ReadingOf, ReaderStays, Resource
  <1>7. QED BY <1>3, <1>4, <1>5, <1>6 DEF HandlerOf

\* A GET that finds its file finds a whole document in it.
LEMMA OpenedWhole ==
  ASSUME StoreInv, OneWriter, NEW w \in Workers, pc[w] = "get_open", File(w) # NoFile
  PROVE  /\ ReadBack(bytes[File(w)]) \in Data
         /\ Stored(File(w)) = ReadBack(bytes[File(w)])
         /\ \A r \in Resources, i \in Ids : link[r][i] = File(w) => r = Resource(w)
  <1>1. pc[w] \notin AtRest /\ Resource(w) \in Resources /\ target[w] \in Ids
    BY InHandler DEF AtRest, StoreInv, Inv
  <1>2. ASSUME NEW v \in Workers PROVE ~WritesTo(v, Resource(w), target[w])
    BY <1>1, WriterAlone DEF WritesTo, WritePcs, StoreInv, Inv
  <1>3. ReadBack(bytes[File(w)]) \in Data
    BY <1>1, <1>2 DEF StoreInv, WholeOf, File
  <1>4. Stored(File(w)) = ReadBack(bytes[File(w)])
    BY <1>1, <1>2, StoredIs DEF StoreInv, StoredAt, File
  <1>5. \A r \in Resources, i \in Ids : link[r][i] = File(w) => r = Resource(w)
    BY <1>1 DEF StoreInv, Inv, Files, OneName, File
  <1>6. QED BY <1>3, <1>4, <1>5

\* A handler that answers knows nothing any more.
LEMMA ReturnHandler ==
  ASSUME TypeInv, NEW w \in Workers, NEW answer, Return(w, answer)
  PROVE  HandlerOf(w)'
  <1>1. pc'[w] = "idle"
    BY DEF Return, GoTo, TypeInv, TypeOK
  <1>2. QED BY <1>1 DEF HandlerOf, ServingOf, ChosenOf, CheckedOf, ReadingOf, ByIdPcs, PutPcs

\* What a handler knows after its own step.
LEMMA StepHandler ==
  ASSUME StoreInv, OneWriter, NEW w \in Workers, WorkerStep(w)
  PROVE  HandlerOf(w)'
  <1>k. /\ TypeInv /\ pc \in [Workers -> Labels] /\ request \in [Workers -> Clients \cup {None}]
        /\ target \in [Workers -> Ids] /\ existed \in [Workers -> BOOLEAN]
        /\ handle \in [Workers -> Inodes \cup {NoFile}]
    BY DEF StoreInv, Inv, TypeInv, TypeOK
  <1>h. ServingOf(w) /\ ChosenOf(w) /\ CheckedOf(w) /\ ReadingOf(w)
    BY DEF StoreInv, HandlerOf
  <1> USE DEF ByIdPcs, PutPcs
  <1>1. ASSUME NEW req \in Clients, Begin(w, req) PROVE HandlerOf(w)'
    <2>1. /\ pc'[w] = FirstStep(req) /\ request'[w] = req /\ Refusal(req) = 0
          /\ req.method # "POST" /\ req.id # None => target'[w] = req.id
      BY <1>1, <1>k DEF Begin, GoTo
    <2>2. /\ req.method \in {"POST", "GET", "PUT", "DELETE"}
          /\ req.method # "POST" /\ req.id # None => req.id \in Ids
      BY <2>1, AcceptedIs
    <2>3. req.method \in {"PUT", "DELETE"} => req.id # None
      BY <2>1 DEF Refusal
    <2>4. /\ pc'[w] # "dead" /\ pc'[w] \notin {"create_open", "put_open", "get_read"}
          /\ pc'[w] \in {"get_open", "list"} => req.method = "GET"
          /\ pc'[w] = "list" => req.id = None
          /\ pc'[w] = "unlink" => req.method = "DELETE"
          /\ pc'[w] \in ByIdPcs => req.method # "POST" /\ req.id # None
      BY <2>1, <2>2, <2>3 DEF FirstStep
    <2>5. ServingOf(w)'
      BY <2>1, <2>2, <2>4 DEF ServingOf
    <2>6. QED BY <2>4, <2>5 DEF HandlerOf, ChosenOf, CheckedOf, ReadingOf
  <1>2. ASSUME NEW req \in Clients, Refuse(w, req) PROVE HandlerOf(w)'
    BY <1>2, <1>k, ReturnHandler DEF Refuse
  <1>3. CASE CreateNoId(w) \/ CreateWrite(w) \/ GetMissing(w) \/ GetRead(w) \/ List(w)
             \/ PutWrite(w) \/ Delete(w)
    <2>1. \E answer : Return(w, answer)
      BY <1>3 DEF CreateNoId, CreateWrite, GetMissing, GetRead, List, PutWrite, Delete
    <2>2. QED BY <2>1, <1>k, ReturnHandler
  <1>4. CASE CreateScan(w)
    <2>1. /\ pc[w] = "scan" /\ pc'[w] = "create_open" /\ request' = request /\ link' = link
          /\ target'[w] = NextId(InUse(Resource(w)))
      BY <1>4, <1>k DEF CreateScan, GoTo
    <2>2. ServingOf(w)'
      BY <2>1, <1>h DEF ServingOf
    <2>3. NextId(InUse(Resource(w)))' = NextId(InUse(Resource(w)))
      BY <2>1 DEF NextId, InUse, Resource
    <2>4. ChosenOf(w)'
      BY <2>1, <2>3 DEF ChosenOf
    <2>5. QED BY <2>1, <2>2, <2>4 DEF HandlerOf, CheckedOf, ReadingOf
  <1>5. CASE CreateOpen(w) \/ PutOpen(w)
    <2>1. /\ \/ pc[w] = "create_open" /\ pc'[w] = "create_write"
             \/ pc[w] = "put_open" /\ pc'[w] = "put_write"
          /\ request' = request /\ target' = target
      BY <1>5, <1>k DEF CreateOpen, PutOpen, GoTo, requestVars
    <2>2. ServingOf(w)'
      BY <2>1, <1>h DEF ServingOf
    <2>3. QED BY <2>1, <2>2 DEF HandlerOf, ChosenOf, CheckedOf, ReadingOf
  <1>6. CASE GetOpen(w)
    <2>1. /\ pc[w] = "get_open" /\ pc'[w] = "get_read" /\ File(w) # NoFile
          /\ request' = request /\ target' = target /\ link' = link /\ bytes' = bytes
          /\ handle'[w] = File(w)
      BY <1>6, <1>k DEF GetOpen, GoTo, requestVars
    <2>2. ServingOf(w)'
      BY <2>1, <1>h DEF ServingOf
    <2>3. ReadingOf(w)'
      BY <2>1, OpenedWhole DEF ReadingOf, Resource
    <2>4. QED BY <2>1, <2>2, <2>3 DEF HandlerOf, ChosenOf, CheckedOf
  <1>7. CASE PutCheck(w)
    <2>1. /\ pc[w] = "put_check" /\ pc'[w] = "put_open"
          /\ request' = request /\ target' = target /\ link' = link
          /\ existed'[w] = (File(w) # NoFile)
      BY <1>7, <1>k DEF PutCheck, GoTo
    <2>2. ServingOf(w)'
      BY <2>1, <1>h DEF ServingOf
    <2>3. CheckedOf(w)'
      BY <2>1 DEF CheckedOf, File, Resource
    <2>4. QED BY <2>1, <2>2, <2>3 DEF HandlerOf, ChosenOf, ReadingOf
  <1>8. QED BY <1>1, <1>2, <1>3, <1>4, <1>5, <1>6, <1>7 DEF WorkerStep

\* A writer leaves its document, whole, at its entity.
LEMMA WriteStores ==
  ASSUME StoreInv, Faults = {}, NEW w \in Workers, pc[w] \in WritePcs, WriteAndClose(w), Files'
  PROVE  /\ link'[Resource(w)][target[w]] # NoFile
         /\ ReadBack(bytes'[link'[Resource(w)][target[w]]]) = request[w].doc
         /\ request[w].doc \in Data
  <1>1. /\ Resource(w) \in Resources /\ target[w] \in Ids /\ request[w].doc \in Data
    BY InHandler DEF StoreInv, Inv, WritePcs, AtRest, PostPcs, PutPcs
  <1>2. acked'[Resource(w)][target[w]] = request[w].doc
    BY <1>1 DEF WriteAndClose, Promise, StoreInv, Inv, TypeInv, TypeOK
  <1>3. request[w].doc # None
    BY <1>1, CrudApiAssumption
  <1>4. QED BY <1>1, <1>2, <1>3 DEF Files, AckedKept

\* Files that nobody is writing stay whole.
LEMMA StepWhole ==
  ASSUME StoreInv, OneWriter, Faults = {}, NEW w \in Workers, WorkerStep(w), Frame(w), Files',
         NEW r \in Resources, NEW i \in Ids
  PROVE  WholeOf(r, i)'
  <1> SUFFICES ASSUME link'[r][i] # NoFile, \A v \in Workers : ~WritesTo(v, r, i)'
               PROVE  ReadBack(bytes'[link'[r][i]]) \in Data
    BY DEF WholeOf
  <1>k. /\ pc \in [Workers -> Labels] /\ link \in [Resources -> [Ids -> Inodes \cup {NoFile}]]
    BY DEF StoreInv, Inv, TypeInv, TypeOK
  <1>1. CASE pc[w] \in ActingPcs => <<r, i>> # <<Resource(w), target[w]>>
    <2>1. EntityStays(r, i)
      BY <1>1 DEF Frame, ElsewhereStays
    <2>2. ~WritesTo(w, r, i)
      BY <1>1 DEF WritesTo, ActingPcs
    <2>3. \A v \in Workers \ {w} : WritesTo(v, r, i)' = WritesTo(v, r, i)
      BY DEF Frame, OthersStay, WritesTo, Resource
    <2>4. QED BY <2>1, <2>2, <2>3 DEF EntityStays, StoreInv, WholeOf
  <1>2. CASE pc[w] \in ActingPcs /\ <<r, i>> = <<Resource(w), target[w]>>
    <2>1. CASE CreateOpen(w) \/ PutOpen(w)
      <3>1. pc'[w] \in WritePcs /\ request' = request /\ target' = target
        BY <2>1, <1>k DEF CreateOpen, PutOpen, GoTo, requestVars, WritePcs
      <3>2. WritesTo(w, r, i)'
        BY <3>1, <1>2 DEF WritesTo, Resource
      <3>3. QED BY <3>2
    <2>2. CASE CreateWrite(w) \/ PutWrite(w)
      <3>1. pc[w] \in WritePcs /\ WriteAndClose(w)
        BY <2>2 DEF CreateWrite, PutWrite, WritePcs
      <3>2. QED BY <3>1, <1>2, WriteStores
    <2>3. CASE Delete(w)
      BY <2>3, <1>2, <1>k DEF Delete
    <2>4. QED BY <2>1, <2>2, <2>3, <1>2
              DEF WorkerStep, ActingPcs, WritePcs, Begin, Refuse, CreateScan, CreateNoId,
                  GetMissing, GetOpen, GetRead, List, PutCheck
  <1>3. QED BY <1>1, <1>2

\* Every step of a worker keeps the invariant.
LEMMA StepStoreInv ==
  ASSUME StoreInv, OneWriter, Faults = {}, NEW w \in Workers, WorkerStep(w)
  PROVE  StoreInv'
  <1>1. Next
    BY DEF WorkerStep, Next
  <1>2. TypeInv' /\ Alone' /\ Files'
    BY <1>1, NextTypeInv, NextAlone, NextFiles DEF StoreInv, Inv
  <1>3. Frame(w)
    BY StepFrame
  <1>4. \A v \in Workers : HandlerOf(v)'
    BY <1>3, OtherHandlers, StepHandler
  <1>5. \A r \in Resources, i \in Ids : WholeOf(r, i)'
    BY <1>2, <1>3, StepWhole
  <1>6. QED BY <1>2, <1>4, <1>5 DEF StoreInv, Inv

LEMMA NextStoreInv ==
  ASSUME OneWriter, Faults = {}, StoreInv, [Next]_vars
  PROVE  StoreInv'
  <1>1. CASE \E w \in Workers : WorkerStep(w)
    BY <1>1, StepStoreInv
  <1>2. CASE UNCHANGED vars
    <2>1. Inv'
      BY <1>2, NextTypeInv, NextAlone, NextFiles DEF StoreInv, Inv
    <2>2. QED BY <2>1, <1>2
              DEF vars, requestVars, StoreInv, HandlerOf, ServingOf, ChosenOf, CheckedOf,
                  ReadingOf, WholeOf, WritesTo, File, Resource, InUse, NextId
  <1>3. QED BY <1>1, <1>2, NoFaults

-----------------------------------------------------------------------------
(* The refinement.  A POST or PUT is the map's step when it opens its      *)
(* file, a GET when it opens its file or finds none, a DELETE when it      *)
(* removes its file; the steps before and after these change nothing that  *)
(* the map shows.                                                          *)

EntityMap == [r \in Resources |-> [i \in Ids |-> Stored(link[r][i])]]
AnswerMap == [w \in Workers |-> Decided(w)]

\* The same reading of the map after a step.
LEMMA StoredIsNext ==
  (Inv /\ OneWriter => \A r \in Resources, i \in Ids : StoredAt(r, i))'
  BY StoredIs, PTL

\* What the map holds at r/i changes only by a step that acts on r/i.
LEMMA StoredElsewhere ==
  ASSUME StoreInv, StoreInv', OneWriter, NEW w \in Workers, Frame(w),
         NEW r \in Resources, NEW i \in Ids,
         pc[w] \in ActingPcs => <<r, i>> # <<Resource(w), target[w]>>,
         ~WritesTo(w, r, i)'
  PROVE  Stored(link[r][i])' = Stored(link[r][i])
  <1>1. EntityStays(r, i)
    BY DEF Frame, ElsewhereStays
  <1>2. StoredAt(r, i) /\ StoredAt(r, i)'
    BY StoredIs, StoredIsNext DEF StoreInv
  <1>3. ~WritesTo(w, r, i)
    BY DEF WritesTo, ActingPcs
  <1>4. \A v \in Workers \ {w} :
          WritesTo(v, r, i)' = WritesTo(v, r, i) /\ request'[v] = request[v]
    BY DEF Frame, OthersStay, WritesTo, Resource
  <1>5. link'[r][i] = link[r][i]
    BY <1>1 DEF EntityStays
  <1>6. CASE link[r][i] = NoFile
    BY <1>2, <1>5, <1>6 DEF StoredAt
  <1>7. CASE link[r][i] # NoFile /\ \A v \in Workers : ~WritesTo(v, r, i)
    BY <1>1, <1>2, <1>4, <1>5, <1>7 DEF StoredAt, EntityStays
  <1>8. CASE \E v \in Workers : WritesTo(v, r, i)
    <2>1. PICK v \in Workers : WritesTo(v, r, i)
      BY <1>8
    <2>2. v # w /\ WritesTo(v, r, i)' /\ request'[v] = request[v]
      BY <2>1, <1>3, <1>4
    <2>3. Stored(link[r][i]) = request[v].doc /\ Stored(link[r][i])' = request'[v].doc
      BY <2>1, <2>2, <1>2 DEF StoredAt
    <2>4. QED BY <2>2, <2>3
  <1>9. QED BY <1>6, <1>7, <1>8

\* The map has an entity exactly where there is a file.
LEMMA StoredNone ==
  ASSUME StoreInv, OneWriter, NEW r \in Resources, NEW i \in Ids
  PROVE  Stored(link[r][i]) = None <=> link[r][i] = NoFile
  <1>1. StoredAt(r, i)
    BY StoredIs DEF StoreInv
  <1>2. None \notin Data
    BY CrudApiAssumption
  <1>3. CASE \A w \in Workers : ~WritesTo(w, r, i)
    BY <1>1, <1>2, <1>3 DEF StoredAt, StoreInv, WholeOf
  <1>4. CASE \E w \in Workers : WritesTo(w, r, i)
    <2>1. PICK w \in Workers : WritesTo(w, r, i)
      BY <1>4
    <2>2. request[w].doc \in Data
      BY <2>1, InHandler DEF StoreInv, Inv, WritesTo, WritePcs, AtRest, PostPcs, PutPcs
    <2>3. QED BY <1>1, <1>2, <2>1, <2>2 DEF StoredAt
  <1>5. QED BY <1>3, <1>4

LEMMA InUseIs ==
  ASSUME StoreInv, OneWriter, NEW r \in Resources
  PROVE  {i \in Ids : EntityMap[r][i] # None} = InUse(r)
  BY StoredNone DEF EntityMap, InUse

\* The answers of the others stay as they are given or decided.
LEMMA AnswersElsewhere ==
  ASSUME NEW w \in Workers, Frame(w), NEW answer, Decided(w)' = answer
  PROVE  AnswerMap' = [AnswerMap EXCEPT ![w] = answer]
  <1>1. ASSUME NEW v \in Workers \ {w} PROVE Decided(v)' = Decided(v)
    <2>1. /\ pc'[v] = pc[v] /\ request'[v] = request[v] /\ target'[v] = target[v]
          /\ existed'[v] = existed[v] /\ handle'[v] = handle[v] /\ reply'[v] = reply[v]
          /\ pc[v] = "get_read" => bytes'[handle[v]] = bytes[handle[v]]
      BY DEF Frame, OthersStay, ReaderStays
    <2>2. CASE pc[v] = "create_write"
      BY <2>1, <2>2 DEF Decided
    <2>3. CASE pc[v] = "put_write"
      BY <2>1, <2>3 DEF Decided, PutStatus
    <2>4. CASE pc[v] = "get_read"
      BY <2>1, <2>4 DEF Decided
    <2>5. CASE pc[v] \notin {"create_write", "put_write", "get_read"}
      BY <2>1, <2>5 DEF Decided
    <2>6. QED BY <2>2, <2>3, <2>4, <2>5
  <1>2. QED BY <1>1 DEF AnswerMap

\* A step that acts on no entity leaves the map alone.
LEMMA EntitiesKept ==
  ASSUME StoreInv, StoreInv', OneWriter, NEW w \in Workers, Frame(w),
         pc[w] \notin ActingPcs, pc'[w] \notin WritePcs
  PROVE  EntityMap' = EntityMap
  <1>1. \A r \in Resources, i \in Ids : ~WritesTo(w, r, i)'
    BY DEF WritesTo
  <1>2. \A r \in Resources, i \in Ids : Stored(link[r][i])' = Stored(link[r][i])
    BY <1>1, StoredElsewhere
  <1>3. QED BY <1>2 DEF EntityMap

\* A step that acts on one entity leaves the others alone.
LEMMA EntitySet ==
  ASSUME StoreInv, StoreInv', OneWriter, NEW w \in Workers, Frame(w),
         NEW r \in Resources, NEW i \in Ids, r = Resource(w), i = target[w],
         pc'[w] \in WritePcs => request'[w] = request[w] /\ target'[w] = target[w],
         NEW doc, Stored(link[r][i])' = doc
  PROVE  EntityMap' = [EntityMap EXCEPT ![r][i] = doc]
  <1>1. ASSUME NEW q \in Resources, NEW j \in Ids, <<q, j>> # <<r, i>>
        PROVE  Stored(link[q][j])' = Stored(link[q][j])
    <2>1. ~WritesTo(w, q, j)'
      BY <1>1 DEF WritesTo, Resource
    <2>2. QED BY <1>1, <2>1, StoredElsewhere
  <1>2. PICK old, new : old = EntityMap /\ new = EntityMap'
    OBVIOUS
  <1>3. \A q \in Resources, j \in Ids : new[q][j] = IF <<q, j>> = <<r, i>> THEN doc ELSE old[q][j]
    BY <1>1, <1>2 DEF EntityMap
  <1>4. /\ old = [q \in Resources |-> [j \in Ids |-> old[q][j]]]
        /\ new = [q \in Resources |-> [j \in Ids |-> new[q][j]]]
    BY <1>2 DEF EntityMap
  <1>5. new = [old EXCEPT ![r][i] = doc]
    BY ONLY <1>3, <1>4, r \in Resources, i \in Ids
  <1>6. QED BY ONLY <1>2, <1>5

\* A handler between its steps that decide nothing: its answer is as it was.
LEMMA Undecided ==
  ASSUME NEW w \in Workers, pc[w] \notin OpenPcs
  PROVE  Decided(w) = reply[w]
  BY DEF Decided, OpenPcs, WritePcs

\* An answer that is given is the worker's last one.
LEMMA ReturnDecides ==
  ASSUME TypeInv, NEW w \in Workers, NEW answer, Return(w, answer)
  PROVE  pc'[w] = "idle" /\ Decided(w)' = answer
  <1>1. pc'[w] = "idle" /\ reply'[w] = answer
    BY DEF Return, GoTo, TypeInv, TypeOK
  <1>2. QED BY <1>1 DEF Decided

\* The map speaks of requests and answers as the handlers do.
LEMMA SameApi ==
  /\ Store!Pending = Pending /\ Store!Ids = Ids
  /\ \A req : Store!Refusal(req) = Refusal(req)
  /\ \A req, status : Store!Plain(req, status) = Plain(req, status)
  /\ \A req, status, doc, ids :
       Store!Answer(req, status, doc, ids) = Answer(req, status, doc, ids)
  /\ \A used : Store!NextId(used) = NextId(used)
  BY DEF Store!Pending, Pending, Store!Ids, Ids, Store!Refusal, Refusal, Store!Plain, Plain,
         Store!Answer, Answer, Store!NextId, NextId

\* The steps of the map, with what its variables stand for.
StoreStep ==
  \/ Store!Next
  \/ EntityMap' = EntityMap /\ AnswerMap' = AnswerMap

\* A request arrives, or is refused.
LEMMA ArriveStep ==
  ASSUME StoreInv, StoreInv', OneWriter, NEW w \in Workers, Frame(w),
         NEW req \in Clients, Begin(w, req) \/ Refuse(w, req)
  PROVE  StoreStep
  <1>k. TypeInv /\ pc \in [Workers -> Labels] /\ reply \in [Workers -> Replies]
    BY DEF StoreInv, Inv, TypeInv, TypeOK
  <1>1. CASE Begin(w, req)
    <2>1. /\ pc[w] = "idle" /\ pc'[w] = FirstStep(req) /\ reply'[w] = Pending
      BY <1>1, <1>k DEF Begin, GoTo
    <2>2. pc[w] \notin ActingPcs /\ pc'[w] \notin WritePcs
      BY <2>1 DEF ActingPcs, WritePcs, FirstStep
    <2>3. EntityMap' = EntityMap
      BY <2>2, EntitiesKept
    <2>4. Decided(w)' = Pending
      BY <2>1 DEF Decided, FirstStep
    <2>5. AnswerMap' = [AnswerMap EXCEPT ![w] = Pending]
      BY <2>4, AnswersElsewhere
    <2>6. Store!Arrive(w)
      BY <2>3, <2>5, SameApi DEF Store!Arrive, Store!Reply, EntityMap, AnswerMap
    <2>7. QED BY <2>6 DEF StoreStep, Store!Next
  <1>2. CASE Refuse(w, req)
    <2>1. /\ pc[w] = "idle" /\ Refusal(req) # 0 /\ Return(w, Plain(req, Refusal(req)))
      BY <1>2 DEF Refuse
    <2>2. pc'[w] = "idle" /\ Decided(w)' = Plain(req, Refusal(req))
      BY <2>1, <1>k, ReturnDecides
    <2>3. EntityMap' = EntityMap
      BY <2>1, <2>2, EntitiesKept DEF ActingPcs, WritePcs
    <2>4. AnswerMap' = [AnswerMap EXCEPT ![w] = Plain(req, Refusal(req))]
      BY <2>2, AnswersElsewhere
    <2>5. Store!Refuse(w, req)
      BY <2>1, <2>3, <2>4, SameApi DEF Store!Refuse, Store!Reply, EntityMap, AnswerMap
    <2>6. QED BY <2>5 DEF StoreStep, Store!Next
  <1>3. QED BY <1>1, <1>2

\* What a worker's request asks of the map.
LEMMA ServedRequest ==
  ASSUME StoreInv, NEW w \in Workers, pc[w] \notin AtRest
  PROVE  /\ request[w] \in Clients /\ Refusal(request[w]) = 0
         /\ Resource(w) = request[w].resource /\ Resource(w) \in Resources
         /\ target[w] \in Ids
         /\ pc[w] \in PostPcs => request[w].method = "POST"
         /\ pc[w] \in PutPcs => request[w].method = "PUT"
         /\ pc[w] \in ByIdPcs => request[w].id = target[w]
  <1>1. request[w] \in Clients /\ Resource(w) \in Resources /\ target[w] \in Ids
    BY InHandler DEF StoreInv, Inv
  <1>2. Refusal(request[w]) = 0 /\ (pc[w] \in ByIdPcs => request[w].id = target[w])
    BY DEF StoreInv, HandlerOf, ServingOf, AtRest
  <1>3. LocalsOf(w)
    BY DEF StoreInv, Inv, TypeInv, Locals
  <1>4. QED BY <1>1, <1>2, <1>3 DEF LocalsOf, Resource

\* The steps of a handler that the map does not see.
LEMMA HiddenStep ==
  ASSUME StoreInv, StoreInv', OneWriter, Faults = {}, NEW w \in Workers, Frame(w),
         \/ CreateScan(w) \/ CreateWrite(w) \/ GetRead(w) \/ PutCheck(w) \/ PutWrite(w)
  PROVE  StoreStep
  <1>k. /\ TypeInv /\ pc \in [Workers -> Labels]
    BY DEF StoreInv, Inv, TypeInv, TypeOK
  <1>a. AnswerMap' = [AnswerMap EXCEPT ![w] = Decided(w)] => AnswerMap' = AnswerMap
    BY DEF AnswerMap
  <1>1. CASE CreateScan(w) \/ PutCheck(w)
    <2>1. /\ pc[w] \in {"scan", "put_check"} /\ pc'[w] \in {"create_open", "put_open"}
          /\ reply' = reply
      BY <1>1, <1>k DEF CreateScan, PutCheck, GoTo
    <2>2. EntityMap' = EntityMap
      BY <2>1, EntitiesKept DEF ActingPcs, WritePcs
    <2>3. Decided(w)' = Decided(w)
      BY <2>1 DEF Decided
    <2>4. QED BY <2>2, <2>3, <1>a, AnswersElsewhere DEF StoreStep
  <1>2. CASE GetRead(w)
    <2>1. /\ pc[w] = "get_read"
          /\ \E answer \in GetAnswers(request[w], bytes[handle[w]]) : Return(w, answer)
      BY <1>2 DEF GetRead
    <2>2. ReadBack(bytes[handle[w]]) \in Data
      BY <2>1 DEF StoreInv, HandlerOf, ReadingOf
    <2>3. GetAnswers(request[w], bytes[handle[w]]) = {Decided(w)}
      BY <2>1, <2>2, CrudApiAssumption DEF GetAnswers, Decided
    <2>4. pc'[w] = "idle" /\ Decided(w)' = Decided(w)
      BY <2>1, <2>3, <1>k, ReturnDecides
    <2>5. EntityMap' = EntityMap
      BY <2>1, <2>4, EntitiesKept DEF ActingPcs, WritePcs
    <2>6. QED BY <2>4, <2>5, <1>a, AnswersElsewhere DEF StoreStep
  <1>3. CASE CreateWrite(w) \/ PutWrite(w)
    <2>1. pc[w] \in WritePcs /\ WriteAndClose(w) /\ pc[w] \notin AtRest
      BY <1>3 DEF CreateWrite, PutWrite, WritePcs, AtRest
    <2>2. Return(w, Decided(w))
      BY <1>3 DEF CreateWrite, PutWrite, Decided
    <2>3. pc'[w] = "idle" /\ Decided(w)' = Decided(w)
      BY <2>2, <1>k, ReturnDecides
    <2>4. PICK r \in Resources, i \in Ids : r = Resource(w) /\ i = target[w]
      BY <2>1, ServedRequest
    <2>5. Stored(link[r][i]) = request[w].doc
      BY <2>1, <2>4, StoredIs DEF StoreInv, StoredAt, WritesTo
    <2>6. link'[r][i] # NoFile /\ ReadBack(bytes'[link'[r][i]]) = request[w].doc
      BY <2>1, <2>4, WriteStores DEF StoreInv, Inv
    <2>7. ASSUME NEW v \in Workers PROVE ~WritesTo(v, r, i)'
      <3>1. CASE v = w
        BY <2>3, <3>1 DEF WritesTo, WritePcs
      <3>2. CASE v # w
        <4>1. WritesTo(v, r, i)' => WritesTo(v, r, i)
          BY <3>2 DEF WritesTo, Frame, OthersStay, Resource
        <4>2. ~WritesTo(v, r, i)
          BY <3>2, <2>1, <2>4, WriterAlone DEF WritesTo, WritePcs, StoreInv, Inv
        <4>3. QED BY <4>1, <4>2
      <3>3. QED BY <3>1, <3>2
    <2>8. Stored(link[r][i])' = request[w].doc
      BY <2>6, <2>7, StoredIsNext DEF StoreInv, StoredAt
    <2>9. ASSUME NEW q \in Resources, NEW j \in Ids
          PROVE  Stored(link[q][j])' = Stored(link[q][j])
      <3>1. CASE <<q, j>> = <<r, i>>
        BY <3>1, <2>5, <2>8
      <3>2. CASE <<q, j>> # <<r, i>>
        BY <3>2, <2>3, <2>4, StoredElsewhere DEF WritesTo, WritePcs
      <3>3. QED BY <3>1, <3>2
    <2>10. EntityMap' = EntityMap
      BY <2>9 DEF EntityMap
    <2>11. QED BY <2>3, <2>10, <1>a, AnswersElsewhere DEF StoreStep
  <1>4. QED BY <1>1, <1>2, <1>3

\* A POST without an id left, a GET that finds no file or opens one, and a
\* list: the map answers, and stays.
LEMMA AnswerStep ==
  ASSUME StoreInv, StoreInv', OneWriter, NEW w \in Workers, Frame(w),
         \/ CreateNoId(w) \/ GetMissing(w) \/ GetOpen(w) \/ List(w)
  PROVE  StoreStep
  <1>k. /\ TypeInv /\ pc \in [Workers -> Labels] /\ request \in [Workers -> Clients \cup {None}]
        /\ handle \in [Workers -> Inodes \cup {NoFile}]
    BY DEF StoreInv, Inv, TypeInv, TypeOK
  <1>s. ServingOf(w)
    BY DEF StoreInv, HandlerOf
  <1> DEFINE req == request[w]
  <1>1. pc[w] \notin AtRest
    BY DEF CreateNoId, GetMissing, GetOpen, List, AtRest
  <1>2. /\ req \in Clients /\ Refusal(req) = 0
        /\ Resource(w) = req.resource /\ req.resource \in Resources
        /\ target[w] \in Ids
        /\ pc[w] \in PostPcs => req.method = "POST"
        /\ pc[w] \in ByIdPcs => req.id = target[w]
    BY <1>1, ServedRequest
  <1>3. EntityMap' = EntityMap
    <2>1. pc[w] \notin ActingPcs /\ pc'[w] \notin WritePcs
      BY <1>k DEF CreateNoId, GetMissing, GetOpen, List, Return, GoTo, ActingPcs, WritePcs
    <2>2. QED BY <2>1, EntitiesKept
  <1>4. EntityMap[req.resource][target[w]] = Stored(File(w))
    BY <1>2 DEF EntityMap, File
  <1>u. Store!InUse(req.resource) = InUse(Resource(w))
    BY <1>2, InUseIs, SameApi DEF Store!InUse, EntityMap
  <1>v. UNCHANGED EntityMap => UNCHANGED [r \in Resources |-> [i \in Ids |-> Stored(link[r][i])]]
    BY DEF EntityMap
  <1>r. ASSUME NEW answer, Decided(w)' = answer PROVE Store!Reply(w, answer)
    BY <1>r, AnswersElsewhere DEF Store!Reply, AnswerMap
  <1> HIDE DEF req
  <1>5. ASSUME Store!Serve(w, req) PROVE StoreStep
    BY <1>2, <1>5 DEF StoreStep, Store!Next
  <1>6. CASE CreateNoId(w)
    <2>1. /\ pc[w] = "scan" /\ NextId(InUse(Resource(w))) > MaxId
          /\ Return(w, Plain(req, 500))
      BY <1>6 DEF CreateNoId, req
    <2>2. Decided(w)' = Plain(req, 500)
      BY <2>1, <1>k, ReturnDecides
    <2>3. NextId(InUse(Resource(w))) \notin Ids
      <3>1. InUse(Resource(w)) \in SUBSET Ids
        BY DEF InUse
      <3>2. NextId(InUse(Resource(w))) \in Int /\ MaxId \in Int
        BY <3>1, NextIdAbove, Constants
      <3>3. QED BY <2>1, <3>2 DEF Ids
    <2>4. Store!Create(w, req)
      BY <2>1, <2>2, <2>3, <1>2, <1>3, <1>u, <1>v, <1>r, SameApi DEF Store!Create, PostPcs
    <2>5. QED BY <2>4, <1>2, <1>5, SameApi DEF Store!Serve
  <1>7. CASE GetMissing(w)
    <2>1. pc[w] = "get_open" /\ File(w) = NoFile /\ Return(w, Plain(req, 404))
      BY <1>7 DEF GetMissing, req
    <2>2. Decided(w)' = Plain(req, 404)
      BY <2>1, <1>k, ReturnDecides
    <2>3. req.method = "GET" /\ req.id = target[w] /\ req.id \in Ids /\ req.id # None
      BY <2>1, <1>1, <1>2, <1>s DEF ServingOf, ByIdPcs, req
    <2>4. EntityMap[req.resource][req.id] = None
      BY <2>1, <2>3, <1>4 DEF Stored
    <2>5. Store!Retrieve(w, req)
      BY <2>2, <2>3, <2>4, <1>3, <1>v, <1>r, SameApi DEF Store!Retrieve, EntityMap
    <2>6. QED BY <2>5, <1>2, <1>5, SameApi DEF Store!Serve
  <1>8. CASE GetOpen(w)
    <2>1. /\ pc[w] = "get_open" /\ File(w) # NoFile
          /\ pc'[w] = "get_read" /\ request' = request /\ bytes' = bytes
          /\ handle'[w] = File(w)
      BY <1>8, <1>k DEF GetOpen, GoTo, requestVars
    <2>2. Stored(File(w)) = ReadBack(bytes[File(w)]) /\ Stored(File(w)) \in Data
      BY <2>1, OpenedWhole
    <2>3. Decided(w)' = Answer(req, 200, Stored(File(w)), {})
      BY <2>1, <2>2 DEF Decided, req
    <2>4. req.method = "GET" /\ req.id = target[w] /\ req.id \in Ids /\ req.id # None
      BY <2>1, <1>1, <1>2, <1>s DEF ServingOf, ByIdPcs, req
    <2>5. EntityMap[req.resource][req.id] = Stored(File(w)) /\ Stored(File(w)) # None
      BY <2>2, <2>4, <1>4, CrudApiAssumption
    <2>6. Store!Retrieve(w, req)
      BY <2>3, <2>4, <2>5, <1>3, <1>v, <1>r, SameApi DEF Store!Retrieve, EntityMap
    <2>7. QED BY <2>6, <1>2, <1>5, SameApi DEF Store!Serve
  <1>9. CASE List(w)
    <2> DEFINE answer == IF InUse(Resource(w)) = {} THEN Plain(req, 404)
                         ELSE Answer(req, 200, None, InUse(Resource(w)))
    <2>1. pc[w] = "list" /\ Return(w, answer)
      BY <1>9 DEF List, req
    <2>2. Decided(w)' = answer
      BY <2>1, <1>k, ReturnDecides
    <2>3. req.method = "GET" /\ req.id = None
      BY <2>1, <1>s DEF ServingOf, req
    <2>4. Store!List(w, req)
      BY <2>2, <2>3, <1>3, <1>u, <1>v, <1>r, SameApi DEF Store!List
    <2>5. QED BY <2>4, <1>2, <1>5, SameApi DEF Store!Serve
  <1>10. QED BY <1>6, <1>7, <1>8, <1>9

\* A POST and a PUT that open their file, and a DELETE: the map changes.
LEMMA ChangeStep ==
  ASSUME StoreInv, StoreInv', OneWriter, NEW w \in Workers, Frame(w),
         \/ CreateOpen(w) \/ PutOpen(w) \/ Delete(w)
  PROVE  StoreStep
  <1>k. /\ TypeInv /\ pc \in [Workers -> Labels]
        /\ link \in [Resources -> [Ids -> Inodes \cup {NoFile}]]
    BY DEF StoreInv, Inv, TypeInv, TypeOK
  <1>h. ServingOf(w) /\ ChosenOf(w) /\ CheckedOf(w)
    BY DEF StoreInv, HandlerOf
  <1>1. pc[w] \notin AtRest
    BY DEF CreateOpen, PutOpen, Delete, AtRest
  <1>2. PICK req \in Clients, r \in Resources, i \in Ids :
          req = request[w] /\ r = Resource(w) /\ i = target[w]
    BY <1>1, ServedRequest
  <1>3. /\ Refusal(req) = 0 /\ r = req.resource
        /\ pc[w] \in PostPcs => req.method = "POST"
        /\ pc[w] \in PutPcs => req.method = "PUT"
        /\ pc[w] \in ByIdPcs => req.id = i
    BY <1>1, <1>2, ServedRequest
  <1>4. Stored(link[r][i]) = None <=> File(w) = NoFile
    BY <1>2, StoredNone DEF File
  <1>5. EntityMap[r][i] = Stored(link[r][i])
    BY <1>2 DEF EntityMap
  <1>w. ASSUME NEW doc, Stored(link[r][i])' = doc,
               pc'[w] \in WritePcs => request'[w] = request[w] /\ target'[w] = target[w]
        PROVE  Store!Set(r, i, doc)
    <2>1. EntityMap' = [EntityMap EXCEPT ![r][i] = doc]
      BY <1>w, <1>2, EntitySet
    <2>2. QED BY ONLY <2>1 DEF Store!Set, EntityMap
  <1>r. ASSUME NEW answer, Decided(w)' = answer PROVE Store!Reply(w, answer)
    BY <1>r, AnswersElsewhere DEF Store!Reply, AnswerMap
  <1>o. ASSUME pc'[w] \in WritePcs, request' = request, target' = target
        PROVE  Stored(link[r][i])' = req.doc
    <2>1. WritesTo(w, r, i)'
      BY <1>o, <1>2 DEF WritesTo, Resource
    <2>2. StoredAt(r, i)'
      BY StoredIsNext DEF StoreInv
    <2>3. QED BY <2>1, <2>2, <1>o, <1>2 DEF StoredAt
  <1>6. ASSUME Store!Serve(w, req) PROVE StoreStep
    BY <1>6 DEF StoreStep, Store!Next
  <1>7. CASE CreateOpen(w)
    <2>1. /\ pc[w] = "create_open" /\ pc'[w] = "create_write"
          /\ request' = request /\ target' = target
      BY <1>7, <1>k DEF CreateOpen, GoTo, requestVars
    <2>2. Decided(w)' = Answer(req, 201, None, {i})
      BY <2>1, <1>2 DEF Decided
    <2>3. Store!Set(r, i, req.doc)
      BY <2>1, <1>o, <1>w DEF WritePcs
    <2>4. Store!InUse(r) = InUse(r)
      BY <1>2, InUseIs, SameApi DEF Store!InUse, EntityMap
    <2>5. i = NextId(InUse(r))
      BY <2>1, <1>2, <1>h DEF ChosenOf
    <2>6. Store!Create(w, req)
      BY <2>1, <2>2, <2>3, <2>4, <2>5, <1>2, <1>3, <1>r, SameApi DEF Store!Create, PostPcs
    <2>7. QED BY <2>6, <1>3, <1>6, SameApi DEF Store!Serve
  <1>8. CASE PutOpen(w)
    <2>1. /\ pc[w] = "put_open" /\ pc'[w] = "put_write"
          /\ request' = request /\ target' = target /\ existed' = existed
      BY <1>8, <1>k DEF PutOpen, GoTo, requestVars
    <2>2. existed[w] = (File(w) # NoFile)
      BY <2>1, <1>h DEF CheckedOf
    <2>3. Decided(w)' = Plain(req, IF EntityMap[r][i] = None THEN 201 ELSE 200)
      <3>1. Decided(w)' = Plain(req, PutStatus(w))
        BY <2>1, <1>2 DEF Decided, PutStatus
      <3>2. EntityMap[r][i] = None <=> File(w) = NoFile
        BY <1>4, <1>5
      <3>3. CASE File(w) = NoFile
        BY <3>1, <3>2, <3>3, <2>2 DEF PutStatus
      <3>4. CASE File(w) # NoFile
        BY <3>1, <3>2, <3>4, <2>2 DEF PutStatus
      <3>5. QED BY <3>3, <3>4
    <2>4. Store!Set(r, i, req.doc)
      BY <2>1, <1>o, <1>w DEF WritePcs
    <2>5. req.method = "PUT" /\ req.resource = r /\ req.id = i
      BY <2>1, <1>3 DEF PutPcs, ByIdPcs
    <2>6. Store!Update(w, req)
      BY <2>3, <2>4, <2>5, <1>r, SameApi DEF Store!Update, EntityMap
    <2>7. QED BY <2>6, <1>3, <1>6, SameApi DEF Store!Serve
  <1>9. CASE Delete(w)
    <2>1. /\ pc[w] = "unlink" /\ link' = [link EXCEPT ![r][i] = NoFile]
          /\ Return(w, Plain(req, IF File(w) = NoFile THEN 404 ELSE 204))
      BY <1>9, <1>2 DEF Delete
    <2>2. /\ pc'[w] = "idle"
          /\ Decided(w)' = Plain(req, IF File(w) = NoFile THEN 404 ELSE 204)
      BY <2>1, <1>k, ReturnDecides
    <2>3. Decided(w)' = Plain(req, IF EntityMap[r][i] = None THEN 404 ELSE 204)
      BY <2>2, <1>4, <1>5
    <2>4. Stored(link[r][i])' = None
      <3>1. link'[r][i] = NoFile
        BY <2>1, <1>2, <1>k
      <3>2. StoredAt(r, i)'
        BY StoredIsNext DEF StoreInv
      <3>3. QED BY <3>1, <3>2 DEF StoredAt
    <2>5. Store!Set(r, i, None)
      BY <2>2, <2>4, <1>w DEF WritePcs
    <2>6. req.method = "DELETE" /\ req.resource = r /\ req.id = i
      BY <2>1, <1>2, <1>3, <1>h DEF ServingOf, ByIdPcs
    <2>7. Store!Remove(w, req)
      BY <2>3, <2>5, <2>6, <1>r, SameApi DEF Store!Remove, EntityMap
    <2>8. QED BY <2>7, <1>3, <1>6, SameApi DEF Store!Serve
  <1>10. QED BY <1>7, <1>8, <1>9

\* Without files there is nothing in the map, and nobody has an answer.
LEMMA InitStore == Init => Store!Init
  <1> SUFFICES ASSUME Init PROVE Store!Init
    OBVIOUS
  <1>1. \A r \in Resources, i \in Ids : Stored(link[r][i]) = None
    BY DEF Init, Stored
  <1>2. \A w \in Workers : Decided(w) = Pending
    BY DEF Init, Decided
  <1>3. QED BY <1>1, <1>2, SameApi DEF Store!Init

\* Every step of the handlers is a step of the map, or none.
LEMMA NextStore ==
  ASSUME OneWriter, Faults = {}, StoreInv, [Next]_vars
  PROVE  [Store!Next]_(Store!storeVars)
  <1>1. StoreInv'
    BY NextStoreInv
  <1>2. CASE \E w \in Workers : WorkerStep(w)
    <2>1. PICK w \in Workers : WorkerStep(w)
      BY <1>2
    <2>2. Frame(w)
      BY <2>1, StepFrame
    <2>3. StoreStep
      BY <1>1, <2>1, <2>2, ArriveStep, HiddenStep, AnswerStep, ChangeStep DEF WorkerStep
    <2>4. QED BY <2>3 DEF StoreStep, Store!storeVars, EntityMap, AnswerMap
  <1>3. CASE UNCHANGED vars
    <2>1. \A f : Stored(f)' = Stored(f)
      BY <1>3 DEF vars, requestVars, Stored, Writers
    <2>2. \A w : Decided(w)' = Decided(w)
      BY <1>3 DEF vars, requestVars, Decided, PutStatus
    <2>3. QED BY <1>3, <2>1, <2>2 DEF vars, Store!storeVars
  <1>4. QED BY <1>2, <1>3, NoFaults

\* To its clients the file storage is a map on which requests act one at a
\* time, each between its arrival and its answer, for every number of
\* workers, resources, ids and documents: as long as no request overlaps a
\* POST or PUT of its resource, and the file system does not fail.  Readers
\* and deleters of a resource may overlap as they like.
THEOREM CrudImplementsStore ==
  ASSUME OneWriter, Faults = {}
  PROVE  Spec => ImplementsStore
  <1>1. Init => StoreInv /\ Store!Init
    BY InitStoreInv, InitStore
  <1>2. StoreInv /\ [Next]_vars => StoreInv'
    BY NextStoreInv
  <1>3. StoreInv /\ [Next]_vars => [Store!Next]_(Store!storeVars)
    BY NextStore
  <1>4. QED BY <1>1, <1>2, <1>3, PTL DEF Spec, ImplementsStore, Store!Spec

=============================================================================
