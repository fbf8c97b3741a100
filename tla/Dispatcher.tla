----------------------------- MODULE Dispatcher ------------------------------
(***************************************************************************)
(* RequestHandlerDispatcher: the hash map routes_ from paths to handlers,  *)
(* and get_handler, which every worker calls for every request.  The       *)
(* workers share the map without a lock; get_handler reads it with         *)
(* operator[], which inserts a null pointer where nothing is found.        *)
(*                                                                         *)
(* Paths and URLs are sequences of characters.                             *)
(***************************************************************************)
EXTENDS Naturals, Sequences, SequencesExt

CONSTANTS
  Workers,  \* threads running io_service.run()
  Urls      \* targets of valid requests

\* Boost.Beast refuses a request with an empty target.
ASSUME UrlsAssumption == Urls \subseteq Seq(STRING) \ {<<>>}

VARIABLES
  routes,   \* path -> [handler, args] or NullRoute
  pc,       \* where each worker is: see Pcs
  url,      \* req.uri of the request the worker serves, or served last
  location  \* what longest_prefix_match found for it

dispatchVars == <<routes, pc, url, location>>

NoMatch == <<>>

\* The null pointer to a factory and its arguments.
NullRoute == [handler |-> "null", args |-> <<>>]

\* idle: no request.  match, route, use: before longest_prefix_match, before
\* routes_[location], before the pointer is dereferenced.  handler: a handler
\* was built.  crashed: a null pointer was dereferenced.  ended: an exception
\* left run(), and with it the thread.
Pcs == {"idle", "match", "route", "use", "handler", "crashed", "ended"}

DispatcherInit ==
  /\ routes = <<>>
  /\ pc = [w \in Workers |-> "idle"]
  /\ url = [w \in Workers |-> <<>>]
  /\ location = [w \in Workers |-> NoMatch]

\* add_route for every location of the configuration, into an empty map; a
\* path that is there already keeps its handler.
AddRoutes(locations) ==
  routes' = [path \in {l.path : l \in locations} |->
               LET l == CHOOSE x \in locations : x.path = path
               IN [handler |-> l.handler, args |-> l.args]]

\* Mutant: the first path found is kept.
longest_prefix_match_Any(u) ==
  LET matches == {path \in DOMAIN routes : path # <<>> /\ IsPrefix(path, u)}
  IN IF matches = {} THEN NoMatch ELSE CHOOSE path \in matches : TRUE

\* Mutant: only the URL itself is looked for.
longest_prefix_match_Exact(u) ==
  IF u \in DOMAIN routes THEN u ELSE NoMatch

\* The longest path that the URL begins with.  The loop keeps a path only if
\* it is longer than the one it has, so the empty path is never kept.
longest_prefix_match(u) ==
  LET matches == {path \in DOMAIN routes : path # <<>> /\ IsPrefix(path, u)}
  IN IF matches = {} THEN NoMatch
     ELSE CHOOSE path \in matches : \A other \in matches : Len(other) <= Len(path)

GoTo(w, label) == pc' = [pc EXCEPT ![w] = label]

\* Session::handle_response has parsed a valid request.
GetHandler(w) ==
  /\ pc[w] = "idle"
  /\ \E u \in Urls : url' = [url EXCEPT ![w] = u]
  /\ GoTo(w, "match")
  /\ location' = [location EXCEPT ![w] = NoMatch]
  /\ UNCHANGED routes

Match(w) ==
  /\ pc[w] = "match"
  /\ location' = [location EXCEPT ![w] = longest_prefix_match(url[w])]
  /\ GoTo(w, "route")
  /\ UNCHANGED <<routes, url>>

\* Mutant: the entry is assigned as it is looked up.
LookupRoute_Assigns(w) ==
  /\ pc[w] = "route"
  /\ location[w] \in DOMAIN routes
  /\ routes' = [routes EXCEPT ![location[w]] = NullRoute]
  /\ GoTo(w, "use")
  /\ UNCHANGED <<url, location>>

\* routes_[location] finds its entry.
LookupRoute(w) ==
  /\ pc[w] = "route"
  /\ location[w] \in DOMAIN routes
  /\ GoTo(w, "use")
  /\ UNCHANGED <<routes, url, location>>

\* routes_[location] makes a null entry, which may rehash the unordered_map.
\* Workers that read it meanwhile may find it torn; whatever that does to them
\* stands as a crash.
InsertRoute(w) ==
  /\ pc[w] = "route"
  /\ location[w] \notin DOMAIN routes
  /\ routes' = [path \in DOMAIN routes \cup {location[w]} |->
                  IF path = location[w] THEN NullRoute ELSE routes[path]]
  /\ \E torn \in SUBSET {v \in Workers \ {w} : pc[v] \in {"match", "route"}} :
       pc' = [v \in Workers |-> IF v = w THEN "use"
                                ELSE IF v \in torn THEN "crashed" ELSE pc[v]]
  /\ UNCHANGED <<url, location>>

\* std::get<0>(*ptr) and the call of the factory.
UseRoute(w) ==
  /\ pc[w] = "use"
  /\ GoTo(w, IF routes[location[w]] = NullRoute THEN "crashed" ELSE "handler")
  /\ UNCHANGED <<routes, url, location>>
=============================================================================
