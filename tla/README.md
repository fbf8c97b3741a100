# Verification of the Creeper server

TLA+ models of the Creeper URL-shortening and CRUD web server, model-checked
with TLC, with theorems checked by the TLA+ proof system. Paths are relative to
the repository; `src/src/x.cc` is the server's source file `x.cc`.

## 1. The system

One process: `main` parses a configuration, opens the connections to
PostgreSQL and Redis, and starts `NUM_THREADS` = 2 threads that all run one
Boost.Asio `io_service`. A request is read, parsed, dispatched to a handler
that is built for this request, and answered, all on one thread and without
giving it up: a handler that blocks blocks a worker. Two requests therefore
overlap whenever both workers have one, and everything that handlers share is
shared by two threads.

| component | state it keeps | operations | interacts with |
|---|---|---|---|
| Connection pools (`database_connection_pool.cc`, `redis_connection_pool.cc`) | queue of free connections, mutex, condition variable | construct, `acquire`, `release`, destroy | the two clients |
| PostgreSQL client (`real_database_client.cc`) | its pool; what libpq keeps per connection | `store` (upsert), `lookup` | pool, PostgreSQL |
| Redis client (`real_redis_client.cc`) | its pool | `get`, `set` | pool, Redis |
| Shorten handler (`shorten_request_handler.cc`) | none of its own; the request's locals | POST (find or make a code), GET (redirect) | both clients |
| CRUD handler (`crud_request_handler.cc`) | none of its own | POST, GET, list, PUT, DELETE | entity storage |
| Entity storage (`real_entity_storage.cc`, `sim_entity_storage.cc`) | a directory per resource and a file per entity; a map in the tests' version | `create`, `retrieve`, `update`, `remove`, `list` | file system |
| Server and worker threads (`server.cc`, `server_main.cc`) | acceptor, `io_service`, threads | accept, run | sessions |
| Session (`session.cc`) | socket, 1024-byte buffer, reference to the dispatcher | read, answer, write, read again | parser, dispatcher |
| Dispatcher (`request_handler_dispatcher.cc`) | map of routes | add routes, longest prefix match, build a handler | registry, configuration |
| Configuration parser (`config_parser.cc`) | stack of blocks | tokens, parse, ports, locations | registry |
| Request parser, registry, HTTP types, logging, the echo, static, health, blocking and not-found handlers | little or none | pure or I/O | |

What is hard about it:

* **Overlapping requests.** The shorten handler asks the database for a code
  and writes it in two separate calls; a writer of a CRUD entity truncates a
  file and writes it in two system calls. Nothing serialises two requests.
* **Failures that look like answers.** A failed lookup returns `nullopt`, as
  does a lookup that found nothing; a failed `GET` of Redis is a miss; a failed
  open of an entity's file is an entity that does not exist.
* **Connections that come back damaged, or not at all.** `lookup` returns a
  connection with a result unread; a broken connection is never reset; a Redis
  command that throws loses its connection.
* **Waiting without a limit** in `acquire`.
* **A byte stream taken for messages.** A session parses whatever one read of at
  most 1024 bytes returns as one request, and answers from a string that is gone
  before all of it may have been sent.
* **Exceptions that end threads.** Nothing catches an exception between a
  handler and `run()`: each one ends a worker, and one in `handle_accept` ends
  the accepting of connections.
* **A shared map without a lock.** The dispatcher's `routes_` is read with
  `operator[]`, which inserts when nothing is found.
* **Ends of the process.** The constructor of a pool calls `exit(1)` if it cannot
  connect. `set` calls `exit(1)` under the requests of the other
  worker; what was sent to PostgreSQL is executed all the same. The restarted
  process finds the database as it is and a Redis that is empty (the
  container's start script starts one that keeps nothing) or not.

What makes each component correct:

* pools: a connection has one owner; nobody sleeps beside a free connection;
  the locking code is an atomic queue;
* clients: every return path gives the connection back, once, to its own pool;
* shorten handler: a client is only told a code that is bound to its URL, an
  issued code keeps resolving to that URL, a redirect never leads to a URL of
  another code, a miss or an error is not taken for an answer, every request
  ends;
* CRUD and storage: what was acknowledged stays until somebody changes it, ids
  are not given twice, and a client sees an atomic map;
* server and sessions: a session is used by one thread at a time and never
  forgotten; a client that waits for its answers gets its own, whole and in
  order; a client costs the server at most one thread; accepting goes on;
* dispatcher and static handler: a request reaches the longest matching route;
  the shared map does not change; an answer is about the file as it was during
  the request;
* configuration: what is accepted is the grammar, and the tree, the port and
  the routes are those of the text.

`PROJECT.json` lists, under `hazards`, the lines where these could go wrong
and the properties that watch them, or why none does: some hazards are things
the code does, that no doc or test speaks of, and that the models allow.

## 2. Modules

| module | models | extends / instantiates |
|---|---|---|
| `PoolContract` | what a pool promises: a FIFO of free connections, each owned by at most one caller; a caller may drop its connection | |
| `ConnectionPool` | the pools' code: mutex, condition variable, spurious wake-ups | instantiates `PoolContract` |
| `UrlService` | what the shortener promises, in a strong and a weak form | |
| `Shortener` | handler, both clients, pools, Redis, the table, crash and restart | extends `Base62`, instantiates `UrlService`, and `PoolContract` twice |
| `CrudApi` | requests, their validation, answers, choice of an id | |
| `EntityStore` | CRUD over an atomic map (`SimEntityStorage`) | extends `CrudApi` |
| `Crud` | CRUD over files (`RealEntityStorage`), one step per file system call | extends `CrudApi`, instantiates `EntityStore` |
| `Base62` | what `base62_encode` keeps of a hash, and a reference of which hashes share a code | |
| `Session` | one connection: client, reads, requests, answers, writes | |
| `HttpService` | what the server promises the clients of its connections | |
| `Server` | the chain of accepts, the threads in `run()`, what ends them | extends `Session`, instantiates `HttpService` |
| `Lexer` | `parse_token` over characters, and a reference of what a token is | |
| `ConfigGrammar` | the reference: which texts are configurations | |
| `ConfigTree` | the tree; `to_string`, `get_port`, `get_locations`, every `create_from_config` | extends `ConfigGrammar` |
| `ConfigParser` | `parse`, token by token, with its stack of blocks | extends `ConfigTree` |
| `Dispatcher` | `routes_`, longest prefix match, the steps of `get_handler` | |
| `StaticFiles` | the static handler over changing files; the handlers that answer in one step | extends `Dispatcher` |
| `Main` | `main`: from the file to the requests | extends `ConfigParser`, `StaticFiles`, `Lexer` |
| `MCPool`, `MCShortener`, `MCCrud`, `MCServer`, `MCMain` | values of the constants for TLC | extend the above |
| `ConnectionPoolProofs`, `ShortenerProofs`, `ShortenerPoolProofs`, `CrudProofs`, `ServerProofs`, `MainProofs` | theorems | extend the above and `TLAPS` |
| `CrudStoreProofs` | theorem: the files implement the map | extends `CrudProofs` |
| `ConfigProofs` | theorems: what main takes from the text | extends `MainProofs` |

Definitions named `X_Y` with a comment "Mutant" are plausible bugs of the
definition `X`; no specification uses them.

### 2.1 Pools

`ConnectionPool` keeps `connections` (the queue `connections_`), who owns what
(`held`), and who waits: `asleep` inside `cv_.wait`, `awake` woken but without
the mutex. A step is one stay in the mutex: `AcquireAtOnce`, `AcquireWait`
(predicate false, sleep), `WakeAndTake` / `WakeAndWait` (woken, the predicate
is tested again), `Release`, which returns the connection and notifies in one
step because `notify_one()` is called with the lock held, `SpuriousWakeup`.
`Drop` is not the pool's: it is what `RealRedisClient::get` does to a
connection when a command throws. The two pools are the same code but for the
type they hold. `Shortener` does not repeat the locks; there a pool is a
queue and an acquisition a step that is enabled while the queue is not empty,
which `ImplementsContract`, `PgNeverDropped` and `RedisPoolUsed` justify from
both sides.

### 2.2 Shortener

Per worker: `pc`, the handler's locals (`long_url`, `short_url`, `attempt`,
`result`), the connection it has acquired, its last `reply`. Shared: both
queues, `pg_state` (what libpq makes of each connection), the table `db`,
Redis `cache`. Every call of a client is acquire, query, release. The
computation between two calls is part of the step before it.

* POST: `StartPost`, then per attempt `LookupAcquire`, `LookupQuery` and the
  release, which is one of `PostReuse` (row has this URL: 200), `PostRehash`
  (row has another one), `PostExhausted` (500), `PostFree` (go on to store);
  `StoreAcquire`, `StoreQuery`, then `PostStored` (200) or `PostFailed` (500).
* GET: `StartGet`, `GetAcquire`, `GetQuery` or `GetThrows`, `GetHit` or
  `GetMiss`, the lookup, `GetNotFound` or `GetFound`, then `SetAcquire`,
  `SetQuery` or `SetThrows` (which is `exit(1)`), `GetFilled`.
* `LookupQuery` and `StoreQuery` are split by return path: answered, SQL
  error, connection lost, refused by libpq. After an SQL error `lookup` leaves
  its loop without reading the closing null result (`store` reads on), so the
  connection is `undrained`: libpq refuses every later `PQsendQueryParams` on
  it, because only `PQgetResult` or `PQisBusy` would find it idle again and the
  code calls neither after a refusal. A
  `broken` connection stays so: nothing calls `PQreset`. A Redis connection
  repairs itself (redis++ reconnects), so only its loss matters.
* A statement that was sent and whose client has gone may be executed later:
  `in_flight`, `LateUpsert`.
* `Kill` and `SetThrows` end the process under all requests; `Restart` builds
  new pools over the old table and the old or an empty cache. `exit` is one
  step: the other thread does nothing observable between the call and the end.

The hash and its encoding are a constant table `base62_encode[url][salt]`, for
the proofs an arbitrary one. `MCShortener` computes it with `encode` of `Base62`
from hashes chosen per run. A number of fewer than six digits is padded on the
side of its lowest digit, and of a longer one the high digits are cut off, so
that different numbers have one code: the colliding run has a pair of each kind.
`Kept` is the reference, by arithmetic only: what is left of a number in its
code. `CodesCollide` says of all numbers in `Hashes` that two of them share a
code exactly where the same is kept of them. It has nothing to do with the
state, and is asked while nothing is stored. Faults are a constant set, so that
a run says in its cfg what goes wrong in it.

`StaysBound` is about clients of whom one POSTs at a time (`OnePost`), with GETs
beside it; a POST also waits for a statement that a process left behind at its end.
As long as no lookup fails (`AllReady`), `handle_post_request` is then alone with the
row it looked up, and URLs that share codes put its comparison to the test: without it
an issued code would be given to the next URL, and the cached one would be stale.

### 2.3 CRUD

`Crud` keeps the file system: `link[r][i]`, the file named `root/r/i`, and
`bytes`, what each file holds, so that two openers of one path share a file and
an unlinked file lives as long as somebody has it open. A document is a model
value with a length; a write starts at offset 0 and does not shorten, so the
tail of a longer document can stay behind a shorter one. `std::ofstream` opens
and truncates in one step; the data goes to the file when the stream is
destroyed, in one write (a request has at most 1024 bytes), and nobody asks
whether that worked. `CreateScan` and `CreateOpen` are the directory scan and
the open of `create`; `PutCheck`, `PutOpen`, `PutWrite` are `handle_put`'s
existence check and `update`; `GetOpen`, `GetRead` are `retrieve`. A directory
is scanned in one step, and the (never removed) directory of a resource is not
kept. `Throws` is an exception of `std::filesystem`, which ends the worker's
thread; when every thread has ended, `main` returns.

`EntityStore` is the same API over an atomic map; `Crud` implements it under
the mapping `Stored` / `Decided`: a POST or PUT takes effect when its file is
opened, its document counting as stored from then on, a GET when it opens.

### 2.4 Server and sessions

Per connection: `conn` (where it is between the kernel's backlog and its
close), the client's side `peer`, the halves of requests it has `sent` and the
halves in the read buffer `data_`, and `op`, the one operation the session has
begun or whose completion is queued. Per thread: what it handles, and for which
session. `accept` is the chain in which each `handle_accept` begins the next
accept.

* `Receive` is the end of `async_read_some` with what there is, cut where the
  buffer ends (`MAX_LENGTH`), or with an error. `BeginRead` calls `handle_read`;
  `EndRead` is the rest of it, parse, dispatch, handler and the first send of
  `async_write`; `Throw` is an exception out of it, which ends the thread;
  `HandleWrite` begins the next read.
* `parse` says what becomes of a read: a whole request is answered, what follows
  it in the buffer is ignored, half a request is refused, or, when the cut is in
  the body, answered as if it were whole.
* `SendRest`: what the first send did not take is later read from memory that
  was freed with `response_msg`. That is undefined; the model lets it be the
  response or garbage.
* `HandleAccept` is `handle_accept` up to `start_accept`; `remote_endpoint()`
  throws if the client has reset the connection by then (`accept` = "lost").
* `RunReturns`: `run()` returns when nothing is left to do, which is the rule of
  Boost.Asio, not of this code, and mapped as external; no property is about it.
  `Exit` is main after the joins. The signal set made in `server_main` is destroyed with its thread's
  function and waits for nothing.

`OneThreadPerClient` is about what an exception costs: each thread that one has
ended has a closed connection of its own, and accepting has ended only if a client
reset its connection before it was served; run `server_accept` shows such a reset.

A handler is one step here; `Crud` and `Shortener` interleave the steps of
theirs, with the same two workers.

`HttpService` is the promise: a `polite` client (each request in one piece, sent
when the one before is answered, with answers that fit in one send) gets one
answer per request, its own and in order. Any other client may also get
refusals and garbage, but no answer twice, late, or to what it has not sent.
`KeepsHttpPromise` is the refinement.

### 2.5 Configuration and `main`

`parse_token` of `Lexer` works on characters: quotes, comments, words that end
at a blank or at punctuation; `tokens_of` is what the loop of `parse` gets from
it. `IsToken` is the reference, and `TokensAreText`, asked before the first
token, says of every text in `Inputs` that its tokens cover it. `ConfigParser`
works on lexemes, one turn of the loop of
`parse` per step: `Normal`, `StatementEnd`, `StartBlock`, `EndBlock`, `Comment`,
the end of the file (after a token, in a word, in a quote), and the errors.
`config_stack` holds numbers of blocks where the code holds pointers. The order
of the conditions is the code's: the type of the last token is tested before the
stack is used, and `EmptyStack` is the undefined `top()` or `pop()` of an empty
stack, behind one closing brace too many. `AcceptsTheGrammar` says that such a
text is the beginning of no configuration.

`ConfigTree` is what main and the dispatcher read from the tree. `get_port` is a
search in which the first directive decides, read as an int. `get_locations`
calls the `create_from_config` of each kind of handler, whose outcomes are valid,
refused or undefined: those that look into the child block dereference it
without asking whether there is one. Two functions of the words are constants:
`stoi`, what `std::stoi` makes of those it converts, and `canonical`, what
`boost::filesystem::canonical` makes of those for which it does not throw, so the
root of a static location is any path, that of a symbolic link or of another
directory. `OpensPools` says which configurations make a pool, whose
constructor ends the process if it cannot connect.

`Main` goes through the phases of `main`: `Parse`, `Parsed`, `ReadPort` (the int
becomes a short and then an unsigned short), `Bind`, `MakeDispatcher`, `Serve`.
It ends in `exited`, which is also where it goes when an exception has ended every
worker's thread, or in `crashed`.

### 2.6 Dispatcher and static files

`GetHandler`, `Match`, `LookupRoute` or `InsertRoute`, `UseRoute` are the points
of `get_handler` between which the other worker may run. `InsertRoute` is
`routes_[location]` with no such location: it changes a `std::unordered_map` that the
other worker may be reading. That is a data race; readers in it crash or go on.
`UseRoute` dereferences the entry, and a null one is a crash.

`StaticCheck` and `StaticOpen` are the test and the open; `DiskChanges` lets
anybody change files between them. `exists()` throws where the path cannot be
looked at (`Inaccessible`), and a directory that is opened may throw when it is
read; an exception ends the worker's thread, as it does out of the CRUD and the
shorten handler. `seen` is history: what a file was during the request. The 404
that a failed open sets is overwritten by 200.

`StaticAnswers` judges the content type by the name that the URL ends in, of which
the code takes what is behind the last dot. The name of the file can differ from
it: with a root `pages/index.h` a URL that goes on with `tml` is served from
`pages/index.html`, and as the URL has no extension, under the default type.

## 3. Runs

| run | cfg | question | bounds |
|---|---|---|---|
| `pool` | `MCPool.cfg` | exclusive ownership, no lost wake-up, refinement of the contract, progress | 5 callers, 2 connections: two sleepers beside two releases, and a third caller that overtakes |
| `shorten_disjoint` | `MCShortDisjoint.cfg` | under every fault: connections accounted for, redirects, no issued code lost; where codes do not collide: the strong promise; and which hashes collide | 2 workers (as `NUM_THREADS`), 2 URLs, 2 attempts, 1 connection; codes of two binary digits, `Hashes` up to 40 |
| `shorten_requests_end` | `MCShortLive.cfg` | every request ends, no Redis connection is lost, the weak promise; where POSTs do not overlap and no lookup fails: an issued code stays bound, the cache agrees with the table | 2 workers, 2 connections, 2 URLs, one code for everything, so that salts run out |
| `crud_store` | `MCCrudStore.cfg` | the files implement an atomic map | 2 workers, 2 resources, ids -1..2, documents of two lengths |
| `crud_crash` | `MCCrudCrash.cfg` | what was acknowledged survives file system errors, lost writes, dead threads and restarts | 2 workers, 1 resource, ids -1..2, one request per refusal |
| `main` | `MCMain.cfg` | tokens, grammar, tree, port, routes; longest match, the shared map, crashes, static answers | all texts of up to 5 characters (`Inputs`) and 7 lexemes (`Texts`); 19 configurations and each of their beginnings; 2 workers, 4 URLs, 1 file in 5 states |
| `server` | `MCServer.cfg` | sessions, threads, the promise to clients, and that they are served | 2 threads, 2 connections: half a request on one, whose handler may be stuck, two requests on the other |
| `shorten_race` | `MCShortRace.cfg` | **violation**: two POSTs whose URLs share a code | 2 workers |
| `shorten_redis_leak` | `MCShortRedisLeak.cfg` | **violation**: `get` does not return after as many errors as connections | 1 worker, 1 connection |
| `crud_race` | `MCCrudRace.cfg` | **violation**: two POSTs get one id | 2 workers |
| `server_accept` | `MCServerAccept.cfg` | **violation**: accepting ends when a client has gone early | 2 threads, 1 connection |
| `server_garbage` | `MCServerGarbage.cfg` | **violation**: a large answer is sent from freed memory | 2 threads, 1 connection |

Why the bounds are enough. The server has two workers, and the runs that ask
about concurrency have two. `pool_size` 1 makes workers wait for each other and
makes every drawn connection the one an earlier error left; the configuration
files have 6 and 12. Two URLs are enough for every collision between a request
and an earlier or concurrent one; two attempts reach reuse, rehash, and
exhaustion (the source has five). Two binary digits and hashes of six of them
have both kinds of collision, padding and cutting. In CRUD, `MaxId` 2 stands for
`INT_MAX`, so POSTs run out of ids, and a PUT can choose the last one; `Inodes`
is larger than the number of files that can be linked or open. On a connection,
a read takes at most three halves, so that it can end inside the second of two
requests that were sent together, and the buffer can be too small for what has
arrived. Seven lexemes nest three blocks and close one too many; the
configurations have a case for every way in which a handler accepts or refuses
its block. Workers are symmetric where a run says so; runs with liveness
properties use no symmetry.

States without a successor (`CHECK_DEADLOCK FALSE`) are what the code does in
`shorten_redis_leak`, where Redis errors have taken every connection and the
only worker waits in `acquire` for ever, and in the runs of the server, where all
threads can have ended or every client be done.

What holds and what does not:

* Ownership of connections holds in every environment, except that a throwing
  Redis `get` loses one (`RedisNeverDropped` is checked without such errors,
  `RedisPoolUsed` with them).
* A redirect leads to a URL that was a row of that code, in every environment.
* An issued code stays bound to its URL if no two URLs share a code, or if POSTs do
  not overlap and no lookup fails; in the second case the cache also
  agrees with the table. Otherwise the look-up-then-upsert of a POST gives an
  issued code away: to an overlapping POST, or after a failed lookup, which looks
  like a free code.
* An issued code is never answered 404 unless the GET's own lookup failed.
* `real_database_client.h` says that the client exits on an SQL error; it does
  not, it reports failure, and the properties above hold all the same.
* Acknowledged entities stay if writers of one resource do not overlap
  (`Overlapping = {"GET", "DELETE"}`). With overlapping POSTs they do not, and
  with a PUT beside a GET the GET can find the file truncated and is answered
  500.
* A new id is one more than the largest, where the storage's comment calls it
  the lowest unused one.
* A write that the disk does not take is acknowledged all the same. The entity
  is then empty; `AckedKept` says it is at least not the earlier document.
* The parser accepts the grammar, with one exception that the properties name: a
  word that the file ends in is dropped without an error. A carriage return does
  not end a word (`'\t'` is tested twice), so in a file with such line ends
  words keep it.
* A location without a block crashes the program at its start (outcome
  "undefined") when its handler looks into the block.
* `PortIsConfigured` is limited to numbers up to 65535: a larger one, or one below
  -1, is taken modulo 65536 and not refused, and no property forbids that. Of
  several port directives it says that one of them is used, not which.
* A file that vanishes between the check and the open is answered 200 with an
  empty body; `StaticAnswers` allows it.
* A request reaches the longest configured path that its URL begins with. The
  shared map changes, and a worker crashes, only under a URL that none
  matches: a location for `/` is what keeps the server up.
* A polite client gets its answers. One that sends a request in two pieces, or
  two at once, gets refusals or fewer answers, and neither twice.
* A thread that an exception ended is not replaced, but one client ends at most one.
  A client whose session has begun is served as long as more threads are left than
  handlers are stuck.

## 4. Fairness

`ConnectionPool!FairSpec`: a thread that has been woken gets the mutex at some
time and tests its predicate, and an owner releases. The mutex is held for a
few instructions and threads are scheduled by the operating system. Nothing is
assumed of new callers, of spurious wake-ups, or that a woken thread finds a
connection: it can be overtaken again and again. `PoolProgress` therefore only
concludes that somebody owns a connection.

`Shortener!FairSpec`: a worker whose next step is possible takes it. Workers
are operating system threads and the steps are computation or a statement that
the server answers, if with an error. A waiting `acquire` is enabled while a
connection is free and weak fairness promises nothing to one that is overtaken
again and again; `RequestsEnd` is therefore asked where there is a connection
per worker, as in both configurations shipped. No fairness for clients, faults
or restarts.

`Server!FairSpec`: a thread goes on with the handler it is in, unless that
handler is stuck for ever (`Stuck`; the blocking handler's three seconds are
longer than any bound a client knows). The completions of a session are taken
with strong fairness: they are enabled only while some thread is in `run()` and
idle, the queue of the `io_service` is first in, first out, and the reactor is
itself an entry of it, so that what idle threads can do again and again gets its
turn. No fairness for accepts, clients, resets or exceptions. `Served` counts
only clients that have sent a whole request, are still there, and have a thread
that no stuck handler can take.

## 5. Proofs

Theorems hold for every value of the constants that satisfies the assumptions of
the modules, which TLC evaluates in every run. They are `PoolAssumption`
(finitely many threads, `pool_size` a natural number) and `ShortenerAssumption`
(at least one attempt, `base62_encode` maps URLs and salts to codes, `None` is no
URL or code), `Base62Assumption` (a base of at least 2, codes of at least one
digit, hashes are natural numbers), and those named below. The number of workers, URLs, codes, attempts
and connections, the hash and the set of faults are arbitrary. A theorem that needs
more says so in its `ASSUME`.

`ConnectionPoolProofs`:

* `PoolTypeCorrect`; `PoolExclusive`: `Exclusive` is inductive with the types
  (the queue has no duplicates and nothing that is owned).
* `PoolNoLostWakeup`: besides its bound `Len(connections) <=
  Cardinality(awake)` the invariant needs `Waiters` (sleepers and woken threads
  are disjoint and own nothing): `Release` adds one to both sides,
  `WakeAndTake` takes one from both.
* `PoolImplementsContract`: `TakeFront` steps map to `Acquire`, waiting and
  waking stutter.

`ShortenerProofs`:

* `ShortenerTypeCorrect`: `TypeOK` is not inductive: a release would append
  `NoConn` to a pool if a worker could reach it without a connection. `TypeInv`
  adds `Locals`: which locals are set at which `pc`.
* `ShortenerInv`: `Inv == TypeInv /\ Prov`. `Prov` says where data comes from:
  what a worker has read or is about to cache was a row of the code it asked
  for; a row, a statement in flight and a cached URL are rows of their code or
  candidates of it; what was issued was a row.
* `ShortenerRedirects` (`RedirectsToStored`) and `ShortenerKeepsWeakPromise`
  (`KeepsWeakPromise`) follow for every environment and every hash.
* `ShortenerKeepsStrongPromise` (`KeepsStrongPromise`) assumes `CollisionFree`, and
  nothing else: a row that exists holds the only URL its code can have (`OnlyUrl`),
  so every later upsert of it writes what is there, be it lost, late or repeated.
* `ShortenerStaysBound` (`StaysBound`) and `ShortenerSerialPromise` (`KeepsStrongPromise`)
  are about behaviours in which POSTs do not overlap and no connection to PostgreSQL
  is left undrained or broken (`[](OnePost /\ AllReady)`), and assume nothing of the
  hash or of the other faults. Here codes
  collide, and it is the code's comparison that keeps a row from being replaced:
  `SerialInv` says that the one POST there is knows of its row what the table has
  (`Sees`), also when its statement is executed after the end of the process
  (`LeftBehind`), so every step adds a row or changes none (`RowAdded`), and a code has
  held one URL only (`OneUrl`). Run `shorten_race` shows that overlapping POSTs break
  it.
* `ShortenerIssuedNotLost` (`IssuedNotLost`) has no such assumption. `Known` says
  of a worker that serves a GET of an issued code that the table has a row for
  it, and that a lookup which did not fail has found one.

* `ShortenerCodesCollide` (`CodesCollide`), for every base, code length and set of
  hashes. `IsWritten` is what the recursive function `digits` computes: as many
  digits as the number has, the lowest first, each the number divided by a power
  of the base and cut to a digit. From there it is arithmetic: cutting high digits
  off leaves the code as it is (`LowDigitsCut`), zeros in front of the digits are a
  multiplication by a power (`Padded`), only one of which brings a short number
  into the room of a code (`OneShift`), and two numbers in that room with the same
  digits are the same (`LowDigitsDiffer`, from the highest digit down). So every
  hash has the code of what is kept of it (`EncodeKeeps`).

`ShortenerPoolProofs` is about who holds which connection:

* `ShortenerConnsAccounted`: the invariant is `Once` (no connection in two
  places of queue and workers), and for PostgreSQL also `Everywhere` (every
  connection in some place); together they make `Places` one. It needs
  `NobodyServes`: without a process no request is in progress, so a restart finds
  no worker with a connection of the old pools.
* Every step of a request is seen by a pool as one of `Takes`, `Puts`, `Drops`
  (Redis only) or `Leaves`. That is also the step simulation of
  `ShortenerPgNeverDropped` and `ShortenerRedisPoolUsed`; an exit maps to
  `Destroy` and a restart to `Construct`.
* `ShortenerRedisNeverDropped` (`RedisNeverDropped`) assumes that Redis commands
  do not throw: then no step is one of `Drops`. Run `shorten_redis_leak` shows
  what happens when they do.

`CrudProofs` (assumptions `CrudApiAssumption`: the ids are an interval around
0 and the special values are no documents; `CrudAssumption`: documents are not
empty):

* `NextIdAbove`: the largest id in use exists and a new id is above it. Its
  proof rests on the well-foundedness of `<` on the naturals, applied to the
  distances from `MaxId`.
* `CrudTypeCorrect`: `TypeInv` adds to `TypeOK` that a worker in a handler
  serves a request that passed the checks and has a file open at the steps
  that use one.
* `CrudAckedKept` (`AckedKept`) assumes `OneWriter`, that clients do not
  overlap a POST or PUT with another request on its resource; run `crud_race`
  shows that it cannot be dropped. The invariant adds `Alone` (who overlaps
  with whom), `OneName` (no file has two names), `Unused` (a file nobody names
  or has open is blank, so a new file is), `ScannedOf` (the id that the scan
  chose is still unused when the file is opened) and `WritingOf` (a writer has
  the file of its entity, empty, and nothing is promised of it). Faults are
  arbitrary.

`CrudStoreProofs`:

* `CrudImplementsStore` (`ImplementsStore`) is the refinement of `EntityStore`. It
  assumes `OneWriter` and `Faults = {}`: under faults a PUT is acknowledged whose
  document the disk did not take, which no map does. `StoreInv` adds to the invariant of
  `CrudAckedKept` what a handler knows while it acts (`HandlerOf`): a PUT that has
  seen the file exist still finds it, the id that a POST chose is still the next
  one, and a GET that has its file open reads a whole document from it, be it
  unlinked by then; and that a file which nobody writes holds a whole document
  (`WholeOf`). A step is `Frame`d: it changes no entity but that of its own
  worker, so that `ArriveStep`, `AnswerStep` and `ChangeStep` each have one entity
  and one answer to follow, and the rest is `HiddenStep`.

`ServerProofs` (assumption `SessionAssumption`: a request, two halves, fits in
one read), for every number of connections, threads and requests, and every
choice of faults, large answers and invalid requests:

* `ServerTypeCorrect`, `ServerSessionHeld` and `ServerOneThreadPerClient` follow from
  `ThreadInv`, which adds that a thread in a handler has a session. For
  `OneThreadPerClient` it also has that a thread which threw has ended and that a
  client whose session has not begun has no answer (`CostInv`). A session is held by
  one thread, so an exception out of it closes a connection that no earlier
  exception was for.
* `ServerKeepsHttpPromise` is the refinement of `HttpService`. `StreamInv` says per
  connection what has been answered of the stream: the buffer begins behind the last answer
  (`BufferInv`), a response half sent may still be answered (`WriteInv`), a
  failed operation is the session's last (`FailedInv`), and of a polite client
  exactly the next request is in the buffer or under way (`PoliteInv`).

`MainProofs` (assumptions: `WordsAssumption`, tokens are not empty;
`HandlersAssumption`, no word is the null handler; `UrlsAssumption`, targets of
requests are not empty, which Boost.Beast sees to; `LexerAssumption`, texts are
sequences of characters):

* `MainParserTypeCorrect`, `MainStackIsPath`, `MainClosedBlocksFixed`, for every
  text. `ParserInv` adds to the stack being a path that its numbers grow
  (`StackOrdered`, so that a new block is on it once) and that it is not empty
  behind a word (`WordHasBlock`).
* `MainLongestMatch`, `MainCrashOnlyUnmatched`, `MainRoutesFixed`, for every
  text, set of URLs and number of workers: the routes are the configured ones and
  at most a null one for "no match" (`RoutesInv`), and what a worker carries from
  `Match` on is a longest match in them (`WorkerInv`). That a longest match
  exists rests on the well-foundedness of `<`, applied to how much of the URL is
  left.

* `MainTokensAreText` (`TokensAreText`), for every text of any length. `Opens` says
  what each state of `parse_token` stands for: where the token has begun, that only
  blanks were skipped before it, and that it has not ended yet. `ScanGoes` and
  `ScanStops` show that for one character more, and `FindsBefore` takes it from the
  end of the text back to where the token begins. `Cover` then adds one token at a
  time in front of those behind it (`NextCovers`).

`ConfigProofs` is about every text, and further assumes `LexemesAssumption` (a word
is told from punctuation and comments), `StoiAssumption` (`std::stoi` returns an
int), `CanonicalAssumption` (`canonical()` returns a path), `CompositionAssumption`
(the handlers' kinds are those of the registry) and `ContentTypeAssumption` (the extensions in `CONTENT_TYPE` have
neither dot nor slash, as in the source):

* `MainTreeIsText` (`TreeIsText`): `to_string` of a block is the concatenation of
  what its statements are written as. A token changes the block on top of the stack
  only, and of it the last statement; that the text of every block below then
  changes at its end, in the same way, is shown by going down the stack
  (`SameOffStack`, `Descends`, `ToTheRoot`). That needs `TreeInv`: a child block has a
  larger number than its parent, a block has one parent, and the parent of what is
  on the stack is below it, with the child in its last statement.
* `MainAcceptsTheGrammar` (`AcceptsTheGrammar`): a text that is accepted is a
  configuration because it is the text of a tree, and the text of every tree is a list
  of statements of the grammar (`TextIsList`). A text that is refused is none because of
  what the grammar's texts look like (`ConfigShape`): they end behind a statement,
  close as many braces as they open and never one too many, and each brace and
  semicolon has a word before it or not, as the parser demands (`Placed`). `Refuses`
  is the invariant, and `TextInv` ties the stack's height and the type of the last
  token, by which the parser decides, to the text.
* `MainPortIsConfigured` (`PortIsConfigured`) and `MainRoutesAreLocations`
  (`RoutesAreLocations`): `TextInv` also says that every statement of the tree stands
  somewhere in the text (`StatementsStand`), and that every beginning of a statement
  at the outermost level is one of the root block (`StatementsFound`). `MainInv` keeps
  the port that was read up to `serve`, and `LocationsServed` the routes. That
  `get_port` finds the number of a directive of the tree is shown for all blocks from
  the last to the first, children before parents.
* `MainTypeCorrect` (`TypeOK`) also has the bounds of `port` and the state of every
  worker.
* `MainStaticAnswers` (`StaticAnswers`): `FilesInv` says that a worker's route does
  not change under it, and that what `seen` has of the file includes what the check
  and the open saw (`Truthful`). The dots behind the root are
  those of the rest of the URL (`ExtensionOfRest`), so the root needs no assumption.

The definitions `CodeOf`, `FlatUpTo`, `TextFrom`, `PortsFrom` and `EndsFrom` of that
module describe recursive functions of the model by what one step computes. That such
a function exists and has one value is shown with the well-foundedness of `<`
(`LeastNatural`, `GreatestNatural`): where two of them differ, they differ at a first
place.

The recursive functions of the shortener and the lexer (`PowerUpTo`, `DigitsUpTo`,
`ScansFrom`, `TokensFrom`) are treated in the same way.

Only model-checked: the liveness properties `PoolProgress`, `RequestsEnd` and
`Served`, out of the prover's reach as is everything about fairness; and the
violations. Every other property of a passing run is a theorem.

## 6. What is not modelled

`PROJECT.json` lists every component. Left out:

* logging: no decision of the program reads it;
* Boost.Beast's parsing of one HTTP message, header fields, status lines and
  texts of answers: a request is whole or cut, valid or not, and an answer is
  known by its request. That the rest of a body could itself read as a request
  when it arrives in a read of its own is therefore left out: it counts as half
  a request, which is refused;
* JSON, URIs of the CRUD and shorten handlers and what `std::hash` computes are data;
* the stand-ins for both clients that the shorten handler makes where the
  environment variable `USE_FAKE_SHORTEN_CLIENTS` is set, as the tests do: maps without
  pools, failures or a lock;
* the boundary between `Server` and the handlers: in `Server` a handler is one
  step, in `Crud`, `Shortener` and `StaticFiles` its steps interleave with those
  of the other worker. The product of both would repeat the same interleavings;
* the many sends of one `async_write`: `SendRest` is one step;
* of the database, that the server can restart is a broken connection, and
  nothing is said of its durability: a row that was written stays;
* deployment files, scripts and the tests' mocks, except for
  `sim_entity_storage.cc` as `EntityStore`.

## 7. What could come next

* A second `Stuck` handler and a third thread in `server`, if `NUM_THREADS` grows.
