-------------------------------- MODULE Main ---------------------------------
(***************************************************************************)
(* main: a configuration file is parsed, the port is read from it, the     *)
(* acceptor bound, the dispatcher filled, and requests are dispatched.     *)
(* Composes ConfigParser with Dispatcher and StaticFiles; connections and  *)
(* threads are in module Server.                                           *)
(***************************************************************************)
EXTENDS ConfigParser, StaticFiles, Lexer

VARIABLES
  phase,  \* how far main has come: see Phases
  port    \* of the acceptor's endpoint; NoPort before

vars == <<parserVars, staticVars, phase, port>>

Phases == {"parse", "port", "bind", "dispatcher", "serve", "exited", "crashed"}

NoPort == -1

\* The values of an unsigned short.
USHRT_MAX == 65535
PortNumbers == 0..USHRT_MAX

\* "null" stands for no handler.
ASSUME HandlersAssumption == "null" \notin Words

\* A handler's kind is the registered one.
ASSUME CompositionAssumption == Kind = Registry

Init ==
  /\ ParserInit
  /\ StaticInit
  /\ phase = "parse"
  /\ port = NoPort

\* An exception is caught in main, which returns 1.
Exit == phase' = "exited"

Parse ==
  /\ phase = "parse"
  /\ ParserNext
  /\ phase' = IF verdict' = "undefined" THEN "crashed" ELSE phase
  /\ UNCHANGED <<staticVars, port>>

Parsed ==
  /\ phase = "parse"
  /\ verdict # "reading"
  /\ IF verdict = "valid" THEN phase' = "port" ELSE Exit
  /\ UNCHANGED <<parserVars, staticVars, port>>

\* Mutant: the port is not narrowed.
ReadPort_Unconverted ==
  /\ phase = "port"
  /\ LET p == get_port(blocks)
     IN IF p = -1
          THEN Exit /\ UNCHANGED port
          ELSE phase' = "bind" /\ port' = p
  /\ UNCHANGED <<parserVars, staticVars>>

\* -1 is taken for a missing port.  The constructor of Server takes a short
\* and the endpoint an unsigned short.
ReadPort ==
  /\ phase = "port"
  /\ LET p == get_port(blocks)
     IN IF p = -1
          THEN Exit /\ UNCHANGED port
          ELSE phase' = "bind" /\ port' = p % 65536
  /\ UNCHANGED <<parserVars, staticVars>>

\* The acceptor is opened, bound and listens, or throws.
Bind ==
  /\ phase = "bind"
  /\ phase' = "dispatcher" \/ Exit
  /\ UNCHANGED <<parserVars, staticVars, port>>

\* The constructor of RequestHandlerDispatcher throws if the locations are
\* not valid, and the process exits if a pool's connections cannot be made.
MakeDispatcher ==
  LET result == get_locations(blocks)
  IN /\ phase = "dispatcher"
     /\ \/ /\ result.outcome = "valid"
           /\ AddRoutes(result.locations)
           /\ phase' = "serve"
        \/ /\ result.outcome = "refused" \/ OpensPools(blocks)
           /\ Exit
           /\ UNCHANGED routes
        \/ /\ result.outcome = "undefined"
           /\ phase' = "crashed"
           /\ UNCHANGED routes
     /\ UNCHANGED <<parserVars, pc, url, location, disk, reply, seen, port>>

\* A crash ends the process; when every thread has ended, main has joined them
\* and returns.
Serve ==
  /\ phase = "serve"
  /\ StaticNext
  /\ phase' = IF \E w \in Workers : pc'[w] = "crashed" THEN "crashed"
              ELSE IF \A w \in Workers : pc'[w] = "ended" THEN "exited" ELSE phase
  /\ UNCHANGED <<parserVars, port>>

\* The process has ended.
Ended == phase \in {"exited", "crashed"} /\ UNCHANGED vars

Next == Parse \/ Parsed \/ ReadPort \/ Bind \/ MakeDispatcher \/ Serve \/ Ended

Spec == Init /\ [][Next]_vars

-----------------------------------------------------------------------------
(* Properties.                                                             *)

TypeOK ==
  /\ ParserTypeOK
  /\ RoutedTypeOK
  /\ phase \in Phases
  /\ port \in {NoPort} \cup PortNumbers

\* The text of the configuration decides what is served: a location at the
\* outermost level gets its route and nothing else does.
RoutesAreLocations ==
  phase = "serve" =>
    LET starts == {i \in DOMAIN Code :
                     /\ Code[i] = "location"
                     /\ Depth(SubSeq(Code, 1, i - 1)) = 0
                     /\ i = 1 \/ Code[i - 1] \in Punctuation}
    IN {<<path, routes[path].handler>> : path \in {p \in DOMAIN routes : routes[p] # NullRoute}}
         = {<<spelling[Code[i + 1]], Code[i + 2]>> : i \in starts}

\* The acceptor listens on the number of a port directive of the text, if it
\* is a port number at all.
PortIsConfigured ==
  phase \in {"bind", "dispatcher", "serve"} =>
    \E i \in 1..(Len(Code) - 2) :
      /\ Code[i] = "port"
      /\ Code[i + 2] \in {";", "{"}
      /\ i = 1 \/ Code[i - 1] \in Punctuation
      /\ port_number(Code[i + 1]) \in PortNumbers => port = stoi[Code[i + 1]]

\* Paths that the configuration gives to handlers.
Configured == {l.path : l \in get_locations(blocks).locations}

\* A request reaches the handler of the longest configured path that its URL
\* begins with.
LongestMatch ==
  phase = "serve" =>
    LET configured == Configured
    IN \A w \in Workers :
         pc[w] \in {"handler", "open"} \/ (pc[w] = "idle" /\ reply[w] # NoReply) =>
           /\ location[w] \in configured
           /\ IsPrefix(location[w], url[w])
           /\ \A path \in configured : IsPrefix(path, url[w]) => Len(path) <= Len(location[w])

\* A worker only crashes on a request that no configured path matches: with a
\* location for "/", never while every URL begins with a slash.  (What crashes
\* the program before it serves is the outcome "undefined" of the parser and of
\* get_locations.)
Unmatched(w) == url[w] # <<>> /\ \A path \in Configured : ~IsPrefix(path, url[w])
CrashOnlyUnmatched ==
  (\E w \in Workers : pc[w] = "crashed") =>
    \E w \in Workers : Unmatched(w) /\ (<<"/">> \in Configured => Head(url[w]) # "/")

\* Once requests are served, the map that the workers share without a lock
\* changes only under a request that no configured path matches.
RoutesFixed ==
  [][phase = "serve" /\ routes' # routes => \E w \in Workers : Unmatched(w)]_vars

\* Whatever the file holds, the parser reads the tokens of its text: none is
\* lost and none is split.  It is about texts only: one state is enough to
\* check it in.
TokensAreText == text = <<>> => TextsCovered
=============================================================================
