----------------------------- MODULE StaticFiles -----------------------------
(***************************************************************************)
(* The handlers behind the dispatcher: StaticRequestHandler and the files  *)
(* it serves, which somebody else may change at any time, and the handlers *)
(* that answer in one step.                                                *)
(***************************************************************************)
EXTENDS Dispatcher, FiniteSets

CONSTANTS
  Kind,          \* Kind[handler]: its registered kind
  Paths,         \* file names that ever exist, as characters
  Contents,      \* what a file can hold; Empty is one of them
  CONTENT_TYPE   \* file extension -> content type

\* An extension has characters, and neither a dot nor a slash.
ASSUME ContentTypeAssumption ==
  DOMAIN CONTENT_TYPE \subseteq Seq(STRING \ {".", "/"}) \ {<<>>}

Empty == "empty"
Directory == "directory"
Unreadable == "unreadable"
Absent == "absent"

\* exists() and is_regular_file() throw.
Inaccessible == "inaccessible"

FileStates == Contents \cup {Directory, Unreadable, Absent, Inaccessible}
DefaultType == "application/octet-stream"

VARIABLES
  disk,   \* what is at each of Paths
  reply,  \* the worker's last answer
  seen    \* history: what has been at the path of the request since it was checked

staticVars == <<dispatchVars, disk, reply, seen>>

NoReply == [status |-> 0, body |-> Empty, type |-> ""]
Stock404 == [status |-> 404, body |-> Empty, type |-> "text/plain"]

StaticInit ==
  /\ DispatcherInit
  /\ disk = [path \in Paths |-> Absent]
  /\ reply = [w \in Workers |-> NoReply]
  /\ seen = [w \in Workers |-> {}]

Root(w) == routes[location[w]].args

\* The base URI is cut off and the root put in its place.
generate_file_path(w) ==
  Root(w) \o SubSeq(url[w], Len(location[w]) + 1, Len(url[w]))

At(path) == IF path \in Paths THEN disk[path] ELSE Absent

\* Mutant: the dot belongs to the extension.
get_file_content_type_WithDot(w) ==
  LET path == generate_file_path(w)
      dots == {i \in (Len(Root(w)) + 1)..Len(path) : path[i] = "."}
      last == CHOOSE i \in dots : \A j \in dots : j <= i
      extension == IF dots = {} THEN <<>> ELSE SubSeq(path, last, Len(path))
  IN IF extension \in DOMAIN CONTENT_TYPE THEN CONTENT_TYPE[extension] ELSE DefaultType

\* What follows the last dot behind the root.
get_file_content_type(w) ==
  LET path == generate_file_path(w)
      dots == {i \in (Len(Root(w)) + 1)..Len(path) : path[i] = "."}
      last == CHOOSE i \in dots : \A j \in dots : j <= i
      extension == IF dots = {} THEN <<>> ELSE SubSeq(path, last + 1, Len(path))
  IN IF extension \in DOMAIN CONTENT_TYPE THEN CONTENT_TYPE[extension] ELSE DefaultType

Replies(w, response) ==
  /\ reply' = [reply EXCEPT ![w] = response]
  /\ GoTo(w, "idle")

\* An exception ends the thread.
Throws(w) == GoTo(w, "ended") /\ UNCHANGED reply

\* exists() and is_regular_file().
StaticCheck(w) ==
  LET state == At(generate_file_path(w))
  IN /\ pc[w] = "handler"
     /\ Kind[routes[location[w]].handler] = "static"
     /\ seen' = [seen EXCEPT ![w] = {state}]
     /\ CASE state \in {Absent, Directory} -> Replies(w, Stock404)
          [] state = Inaccessible          -> Throws(w)
          [] OTHER                         -> GoTo(w, "open") /\ UNCHANGED reply
     /\ UNCHANGED <<routes, url, location, disk>>

\* The file is opened and read.  The 404 of a failed open is overwritten: the
\* answer is 200, with the body that an unopened stream yields.  A directory
\* can be opened; reading it fails with an exception or without.
StaticOpen(w) ==
  LET state == At(generate_file_path(w))
  IN /\ pc[w] = "open"
     /\ \/ Replies(w, [status |-> 200,
                       body   |-> IF state \in Contents THEN state ELSE Empty,
                       type   |-> get_file_content_type(w)])
        \/ state = Directory /\ Throws(w)
     /\ UNCHANGED <<routes, url, location, disk, seen>>

\* A handler that answers every request alike.
Answers(w, kind, status, body) ==
  /\ pc[w] = "handler"
  /\ Kind[routes[location[w]].handler] = kind
  /\ Replies(w, [status |-> status, body |-> body, type |-> "text/plain"])
  /\ UNCHANGED <<routes, url, location, disk, seen>>

Echo(w) == Answers(w, "echo", 200, "request")
Health(w) == Answers(w, "health", 200, "OK")
NotFound(w) == Answers(w, "not_found", 404, "404 Not Found")
Blocking(w) == Answers(w, "blocking", 200, "Blocking request completed")

\* The CRUD and the shorten handler, which may throw: see modules Crud and
\* Shortener.
OtherHandler(w) ==
  \/ \E kind \in {"crud", "shorten"} : Answers(w, kind, 1, Empty)
  \/ /\ pc[w] = "handler"
     /\ Kind[routes[location[w]].handler] \in {"crud", "shorten"}
     /\ Throws(w)
     /\ UNCHANGED <<routes, url, location, disk, seen>>

\* Somebody creates, replaces or removes a file, or its permissions.
DiskChanges ==
  \E path \in Paths, state \in FileStates :
    /\ disk' = [disk EXCEPT ![path] = state]
    /\ seen' = [w \in Workers |->
                  IF pc[w] = "open" /\ generate_file_path(w) = path
                    THEN seen[w] \cup {state}
                    ELSE seen[w]]
    /\ UNCHANGED <<dispatchVars, reply>>

DispatchStep(w) ==
  /\ \/ /\ GetHandler(w)
        /\ reply' = [reply EXCEPT ![w] = NoReply]
        /\ seen' = [seen EXCEPT ![w] = {}]
     \/ /\ Match(w) \/ LookupRoute(w) \/ InsertRoute(w) \/ UseRoute(w)
        /\ UNCHANGED <<reply, seen>>
  /\ UNCHANGED disk

StaticNext ==
  /\ \A w \in Workers : pc[w] # "crashed"
  /\ \/ \E w \in Workers :
          \/ DispatchStep(w) \/ StaticCheck(w) \/ StaticOpen(w)
          \/ Echo(w) \/ Health(w) \/ NotFound(w) \/ Blocking(w) \/ OtherHandler(w)
     \/ DiskChanges

-----------------------------------------------------------------------------
(* Properties.                                                             *)

RoutedTypeOK ==
  /\ pc \in [Workers -> Pcs \cup {"open"}]
  /\ url \in [Workers -> Urls \cup {<<>>}]
  /\ disk \in [Paths -> FileStates]
  /\ \A w \in Workers : reply[w].status \in {0, 1, 200, 404}
  /\ \A w \in Workers : pc[w] \in {"handler", "open"} => location[w] \in DOMAIN routes

StaticAnswered(w) ==
  pc[w] = "idle" /\ reply[w].status # 0 /\ Kind[routes[location[w]].handler] = "static"

\* An answer is about the file as it was at some time during the request: 404
\* only if there was no regular file, contents only if they were there, and an
\* empty 200 otherwise only if the file could not be opened.  The content type
\* is that of the extension of the name that the URL ends in, whatever the root
\* and the directories on the way to it are called.
StaticAnswers ==
  \A w \in Workers :
    StaticAnswered(w) =>
      LET rest == SubSeq(url[w], Len(location[w]) + 1, Len(url[w]))
          dirs == {i \in DOMAIN rest : rest[i] = "/"}
          name == IF dirs = {} THEN rest
                  ELSE SubSeq(rest, (CHOOSE i \in dirs : \A j \in dirs : j <= i) + 1, Len(rest))
          fits(e) == \E i \in DOMAIN name : name[i] = "." /\ SubSeq(name, i + 1, Len(name)) = e
      IN IF reply[w].status = 404
           THEN seen[w] \cap {Absent, Directory} # {}
           ELSE /\ \/ reply[w].body \in seen[w]
                   \/ reply[w].body = Empty /\ seen[w] \cap {Absent, Directory, Unreadable, Inaccessible} # {}
                /\ \/ \E e \in DOMAIN CONTENT_TYPE :
                        fits(e) /\ reply[w].type = CONTENT_TYPE[e]
                   \/ /\ reply[w].type = DefaultType
                      /\ \A e \in DOMAIN CONTENT_TYPE : ~fits(e)
=============================================================================
