----------------------------- MODULE Shortener ------------------------------
(***************************************************************************)
(* The /shorten route: ShortenRequestHandler on the server's worker        *)
(* threads, RealRedisClient and RealDatabaseClient behind it, their two    *)
(* connection pools, and the Redis cache and the PostgreSQL table behind   *)
(* those.                                                                  *)
(*                                                                         *)
(* The dispatcher builds a handler for every request and the handlers      *)
(* share the two clients, so the state of a request is per worker and      *)
(* everything else is shared.  Each call of a client is three steps --     *)
(* acquire a connection, run the query, release the connection -- because  *)
(* other workers run between them; what a handler computes between two     *)
(* calls is part of the step before it.                                    *)
(*                                                                         *)
(* Connections are numbered in the order their pool opened them; 0 is no   *)
(* connection.  The blocking acquire() is a step enabled while a           *)
(* connection is free (module ConnectionPool has the locks and wake-ups).  *)
(***************************************************************************)
EXTENDS Base62, FiniteSets

CONSTANTS
  Workers,        \* threads running io_service.run()
  Urls, Codes,    \* long URLs; six-character short codes
  kMaxAttempts,   \* salted attempts of one POST (5 in the source)
  base62_encode,  \* base62_encode[u][k]: code of u salted with k (k = 0: unsalted)
  pool_size,      \* connections of each pool, one number in the config
  Faults,         \* what may go wrong in this environment, see FaultKinds
  None            \* std::nullopt

\* db_error: the server answers a statement with an error; db_loss: a
\* connection breaks under a statement; redis_error: a Redis command throws;
\* evict: Redis drops a key under its memory limit; kill: the process ends.
FaultKinds == {"db_error", "db_loss", "redis_error", "evict", "kill"}

Attempts == 0..(kMaxAttempts - 1)

ASSUME ShortenerAssumption ==
  /\ kMaxAttempts \in Nat \ {0}
  /\ base62_encode \in [Urls -> [Attempts -> Codes]]
  /\ pool_size \in Nat
  /\ Faults \subseteq FaultKinds
  /\ None \notin Urls \cup Codes

VARIABLES
  alive,      \* the process runs
  pc,         \* where each worker is in its handler
  long_url,   \* request.body of a POST; None for a GET
  short_url,  \* candidate_short of a POST, short_url of a GET
  attempt,    \* the loop counter of handle_post_request
  result,     \* what the last lookup, store or get returned
  known,      \* history: the code of this GET had been issued when it began, and no
              \* lookup of it has failed
  conn,       \* the connection this worker has acquired
  reply,      \* the worker's last answer: its status, and the URL of a 302
  pg_pool,    \* connections_ of PostgresConnectionPool
  pg_state,   \* what libpq would do with each connection
  redis_pool, \* connections_ of RedisConnectionPool
  db,         \* table short_to_long_url
  in_flight,  \* upserts sent to the server by a client that is gone
  cache,      \* Redis
  stored,     \* history: every <<code, url>> a row has ever held
  issued      \* history: every <<code, url>> answered to a POST with 200

requestVars == <<long_url, short_url, attempt, result, known>>
workerVars  == <<pc, requestVars, conn, reply>>
poolVars    == <<pg_pool, pg_state, redis_pool>>
dataVars    == <<db, in_flight, cache, stored, issued>>
vars        == <<alive, workerVars, poolVars, dataVars>>

NoConn == 0
Conns  == 1..pool_size
FullPool == [i \in 1..pool_size |-> i]

RedisPcs == {"get_query", "get_release", "set_query", "set_release"}
PgPcs    == {"lookup_query", "lookup_release", "store_query", "store_release"}
WaitPcs  == {"get_acquire", "set_acquire", "lookup_acquire", "store_acquire"}

\* ready: idle, the next statement is sent.  undrained: an error result was
\* read and the closing null result was not, so libpq refuses every later
\* statement ("another command is already in progress").  broken: the
\* connection is gone; nothing ever resets it.
PgStates == {"ready", "undrained", "broken"}

Replies == [status : {0, 200, 302, 404, 405, 500}, url : Urls \cup {None}]
NoReply == [status |-> 0, url |-> None]

TypeOK ==
  /\ alive \in BOOLEAN
  /\ pc \in [Workers -> {"idle"} \cup RedisPcs \cup PgPcs \cup WaitPcs]
  /\ long_url \in [Workers -> Urls \cup {None}]
  /\ short_url \in [Workers -> Codes \cup {None}]
  /\ attempt \in [Workers -> Attempts]
  /\ result \in [Workers -> Urls \cup {None}]
  /\ known \in [Workers -> BOOLEAN]
  /\ conn \in [Workers -> Conns \cup {NoConn}]
  /\ reply \in [Workers -> Replies]
  /\ pg_pool \in Seq(Conns)
  /\ pg_state \in [Conns -> PgStates]
  /\ redis_pool \in Seq(Conns)
  /\ db \in [Codes -> Urls \cup {None}]
  /\ in_flight \subseteq Codes \X Urls
  /\ cache \in [Codes -> Urls \cup {None}]
  /\ stored \subseteq Codes \X Urls
  /\ issued \subseteq Codes \X Urls

Init ==
  /\ alive = TRUE
  /\ pc = [w \in Workers |-> "idle"]
  /\ long_url = [w \in Workers |-> None]
  /\ short_url = [w \in Workers |-> None]
  /\ attempt = [w \in Workers |-> 0]
  /\ result = [w \in Workers |-> None]
  /\ known = [w \in Workers |-> FALSE]
  /\ conn = [w \in Workers |-> NoConn]
  /\ reply = [w \in Workers |-> NoReply]
  /\ pg_state = [c \in Conns |-> "ready"]
  /\ pg_pool = FullPool
  /\ redis_pool = FullPool
  /\ db = [c \in Codes |-> None]
  /\ in_flight = {}
  /\ cache = [c \in Codes |-> None]
  /\ stored = {}
  /\ issued = {}

-----------------------------------------------------------------------------
(* Parts of several steps.                                                 *)

GoTo(w, label) == pc' = [pc EXCEPT ![w] = label]

IsPost(w) == long_url[w] # None

\* The handler returns a response, and its locals are gone.
Answer(w, code, url) ==
  /\ GoTo(w, "idle")
  /\ reply' = [reply EXCEPT ![w] = [status |-> code, url |-> url]]
  /\ long_url' = [long_url EXCEPT ![w] = None]
  /\ short_url' = [short_url EXCEPT ![w] = None]
  /\ attempt' = [attempt EXCEPT ![w] = 0]
  /\ result' = [result EXCEPT ![w] = None]
  /\ known' = [known EXCEPT ![w] = FALSE]

AnswerPost(w) ==
  /\ Answer(w, 200, None)
  /\ issued' = issued \cup {<<short_url[w], long_url[w]>>}

TakePg(w) ==
  /\ pg_pool # <<>>
  /\ conn' = [conn EXCEPT ![w] = Head(pg_pool)]
  /\ pg_pool' = Tail(pg_pool)

\* Mutant: the error branch releases, and so does the end of the function.
PutPg_Twice(w) ==
  /\ pg_pool' = Append(pg_pool, conn[w])
                  \o (IF pg_state[conn[w]] = "ready" THEN <<>> ELSE <<conn[w]>>)
  /\ conn' = [conn EXCEPT ![w] = NoConn]

PutPg(w) ==
  /\ pg_pool' = Append(pg_pool, conn[w])
  /\ conn' = [conn EXCEPT ![w] = NoConn]

\* Mutant: the front of the queue is copied, not moved and popped.
TakeRedis_NoPop(w) ==
  /\ redis_pool # <<>>
  /\ conn' = [conn EXCEPT ![w] = Head(redis_pool)]
  /\ UNCHANGED redis_pool

TakeRedis(w) ==
  /\ redis_pool # <<>>
  /\ conn' = [conn EXCEPT ![w] = Head(redis_pool)]
  /\ redis_pool' = Tail(redis_pool)

\* Mutant: the pointer is moved from before it is pushed.
PutRedis_MovedFrom(w) ==
  /\ redis_pool' = Append(redis_pool, NoConn)
  /\ conn' = [conn EXCEPT ![w] = NoConn]

PutRedis(w) ==
  /\ redis_pool' = Append(redis_pool, conn[w])
  /\ conn' = [conn EXCEPT ![w] = NoConn]

\* The process ends: every thread, every pool, nothing of the two servers.  A
\* statement already sent may still be executed.
Exit ==
  /\ alive' = FALSE
  /\ pc' = [w \in Workers |-> "idle"]
  /\ long_url' = [w \in Workers |-> None]
  /\ short_url' = [w \in Workers |-> None]
  /\ attempt' = [w \in Workers |-> 0]
  /\ result' = [w \in Workers |-> None]
  /\ known' = [w \in Workers |-> FALSE]
  /\ conn' = [w \in Workers |-> NoConn]
  /\ reply' = [w \in Workers |-> NoReply]
  /\ pg_state' = [c \in Conns |-> "ready"]
  /\ pg_pool' = <<>>
  /\ redis_pool' = <<>>
  /\ \E sent \in SUBSET {w \in Workers : pc[w] = "store_query"
                                      /\ pg_state[conn[w]] = "ready"} :
       in_flight' = in_flight \cup {<<short_url[w], long_url[w]>> : w \in sent}

-----------------------------------------------------------------------------
(* handle_request: a request reaches an idle worker.                       *)

StartPost(w, u) ==
  /\ alive /\ pc[w] = "idle"
  /\ long_url' = [long_url EXCEPT ![w] = u]
  /\ short_url' = [short_url EXCEPT ![w] = base62_encode[u][0]]
  /\ reply' = [reply EXCEPT ![w] = NoReply]
  /\ GoTo(w, "lookup_acquire")
  /\ UNCHANGED <<alive, attempt, result, known, conn, poolVars, dataVars>>

StartGet(w, c) ==
  /\ alive /\ pc[w] = "idle"
  /\ short_url' = [short_url EXCEPT ![w] = c]
  /\ known' = [known EXCEPT ![w] = \E u \in Urls : <<c, u>> \in issued]
  /\ reply' = [reply EXCEPT ![w] = NoReply]
  /\ GoTo(w, "get_acquire")
  /\ UNCHANGED <<alive, long_url, attempt, result, conn, poolVars, dataVars>>

\* The requests answered without a client call: the HTML page of the base
\* path (200, or 404 when the file is missing), a URI of another length
\* (404), a method that is neither POST nor GET (405).
AnswerDirectly(w, code) ==
  /\ alive /\ pc[w] = "idle"
  /\ Answer(w, code, None)
  /\ UNCHANGED <<alive, conn, poolVars, dataVars>>

-----------------------------------------------------------------------------
(* RealRedisClient::get.                                                   *)

GetAcquire(w) ==
  /\ pc[w] = "get_acquire"
  /\ TakeRedis(w)
  /\ GoTo(w, "get_query")
  /\ UNCHANGED <<alive, requestVars, reply, pg_pool, pg_state, dataVars>>

GetQuery(w) ==
  /\ pc[w] = "get_query"
  /\ result' = [result EXCEPT ![w] = cache[short_url[w]]]
  /\ GoTo(w, "get_release")
  /\ UNCHANGED <<alive, long_url, short_url, attempt, known, conn, reply,
                 poolVars, dataVars>>

\* The command throws: the catch block returns nullopt, and the connection
\* goes out of scope without release().  The handler sees a miss.
GetThrows(w) ==
  /\ "redis_error" \in Faults
  /\ pc[w] = "get_query"
  /\ conn' = [conn EXCEPT ![w] = NoConn]
  /\ GoTo(w, "lookup_acquire")
  /\ UNCHANGED <<alive, requestVars, reply, poolVars, dataVars>>

GetHit(w) ==
  /\ pc[w] = "get_release"
  /\ result[w] # None
  /\ PutRedis(w)
  /\ Answer(w, 302, result[w])
  /\ UNCHANGED <<alive, pg_pool, pg_state, dataVars>>

\* Mutant: a miss leaves get() without release().
GetMiss_NoRelease(w) ==
  /\ pc[w] = "get_release"
  /\ result[w] = None
  /\ conn' = [conn EXCEPT ![w] = NoConn]
  /\ GoTo(w, "lookup_acquire")
  /\ UNCHANGED <<alive, requestVars, reply, poolVars, dataVars>>

\* Mutant: what is not in Redis does not exist.
GetMiss_IsNotFound(w) ==
  /\ pc[w] = "get_release"
  /\ result[w] = None
  /\ PutRedis(w)
  /\ Answer(w, 404, None)
  /\ UNCHANGED <<alive, pg_pool, pg_state, dataVars>>

GetMiss(w) ==
  /\ pc[w] = "get_release"
  /\ result[w] = None
  /\ PutRedis(w)
  /\ GoTo(w, "lookup_acquire")
  /\ UNCHANGED <<alive, requestVars, reply, pg_pool, pg_state, dataVars>>

-----------------------------------------------------------------------------
(* RealDatabaseClient::lookup, for handle_post_request and                 *)
(* handle_get_request.                                                     *)

LookupAcquire(w) ==
  /\ pc[w] = "lookup_acquire"
  /\ TakePg(w)
  /\ GoTo(w, "lookup_query")
  /\ UNCHANGED <<alive, requestVars, reply, pg_state, redis_pool, dataVars>>

\* The statement is sent and its rows are read to the closing null result.
LookupAnswered(w) ==
  /\ pg_state[conn[w]] = "ready"
  /\ result' = [result EXCEPT ![w] = db[short_url[w]]]
  /\ UNCHANGED <<known, pg_state>>

\* The server answers with an error: nullopt, and the loop is left with the
\* closing null result unread.
LookupSqlError(w) ==
  /\ "db_error" \in Faults
  /\ pg_state[conn[w]] = "ready"
  /\ result' = [result EXCEPT ![w] = None]
  /\ pg_state' = [pg_state EXCEPT ![conn[w]] = "undrained"]
  /\ known' = [known EXCEPT ![w] = FALSE]

\* PQconsumeInput fails: whatever had been read so far is returned.
LookupLost(w) ==
  /\ "db_loss" \in Faults
  /\ pg_state[conn[w]] = "ready"
  /\ \E r \in {None, db[short_url[w]]} : result' = [result EXCEPT ![w] = r]
  /\ pg_state' = [pg_state EXCEPT ![conn[w]] = "broken"]
  /\ known' = [known EXCEPT ![w] = FALSE]

\* PQsendQueryParams refuses: nullopt, and the connection stays as it is.
LookupRefused(w) ==
  /\ pg_state[conn[w]] # "ready"
  /\ result' = [result EXCEPT ![w] = None]
  /\ UNCHANGED pg_state
  /\ known' = [known EXCEPT ![w] = FALSE]

LookupQuery(w) ==
  /\ pc[w] = "lookup_query"
  /\ LookupAnswered(w) \/ LookupSqlError(w) \/ LookupLost(w) \/ LookupRefused(w)
  /\ GoTo(w, "lookup_release")
  /\ UNCHANGED <<alive, long_url, short_url, attempt, conn, reply,
                 pg_pool, redis_pool, dataVars>>

\* Mutant: an error return forgets release().
LookupRelease_NotOnError(w) ==
  /\ pc[w] = "lookup_release"
  /\ IF pg_state[conn[w]] = "ready"
       THEN PutPg(w)
       ELSE conn' = [conn EXCEPT ![w] = NoConn] /\ UNCHANGED pg_pool
  /\ UNCHANGED <<alive, pg_state, redis_pool, db, in_flight, cache, stored>>

\* Every way out of lookup() releases the connection; the handler goes on
\* from there.
LookupRelease(w) ==
  /\ pc[w] = "lookup_release"
  /\ PutPg(w)
  /\ UNCHANGED <<alive, pg_state, redis_pool, db, in_flight, cache, stored>>

\* The code is already bound to this URL: it is reused.
PostReuse(w) ==
  /\ LookupRelease(w)
  /\ IsPost(w) /\ result[w] = long_url[w]
  /\ AnswerPost(w)

\* Mutant: the loop continues without counting.
PostRehash_NotCounted(w) ==
  /\ LookupRelease(w)
  /\ IsPost(w) /\ result[w] \notin {None, long_url[w]}
  /\ result' = [result EXCEPT ![w] = None]
  /\ GoTo(w, "lookup_acquire")
  /\ UNCHANGED <<long_url, short_url, attempt, known, reply, issued>>

\* The code is bound to another URL: the next salt is tried.
PostRehash(w) ==
  /\ LookupRelease(w)
  /\ IsPost(w) /\ result[w] \notin {None, long_url[w]}
  /\ attempt[w] + 1 < kMaxAttempts
  /\ attempt' = [attempt EXCEPT ![w] = attempt[w] + 1]
  /\ short_url' = [short_url EXCEPT ![w] = base62_encode[long_url[w]][attempt[w] + 1]]
  /\ result' = [result EXCEPT ![w] = None]
  /\ GoTo(w, "lookup_acquire")
  /\ UNCHANGED <<long_url, known, reply, issued>>

PostExhausted(w) ==
  /\ LookupRelease(w)
  /\ IsPost(w) /\ result[w] \notin {None, long_url[w]}
  /\ attempt[w] + 1 = kMaxAttempts
  /\ Answer(w, 500, None)
  /\ UNCHANGED issued

\* Mutant: the URL of the row is not compared.
PostFree_Uncompared(w) ==
  /\ LookupRelease(w)
  /\ IsPost(w) /\ result[w] # long_url[w]
  /\ GoTo(w, "store_acquire")
  /\ UNCHANGED <<requestVars, reply, issued>>

\* No row (or none was returned): the URL will be stored under this code.
PostFree(w) ==
  /\ LookupRelease(w)
  /\ IsPost(w) /\ result[w] = None
  /\ GoTo(w, "store_acquire")
  /\ UNCHANGED <<requestVars, reply, issued>>

GetNotFound(w) ==
  /\ LookupRelease(w)
  /\ ~IsPost(w) /\ result[w] = None
  /\ Answer(w, 404, None)
  /\ UNCHANGED issued

GetFound(w) ==
  /\ LookupRelease(w)
  /\ ~IsPost(w) /\ result[w] # None
  /\ GoTo(w, "set_acquire")
  /\ UNCHANGED <<requestVars, reply, issued>>

-----------------------------------------------------------------------------
(* RealDatabaseClient::store.  result is long_url[w] for true, None for    *)
(* false.                                                                  *)

StoreAcquire(w) ==
  /\ pc[w] = "store_acquire"
  /\ TakePg(w)
  /\ GoTo(w, "store_query")
  /\ UNCHANGED <<alive, requestVars, reply, pg_state, redis_pool, dataVars>>

\* Mutant: the statement's parameters are shared by all requests.
Upsert_SharedParams(c, u) ==
  \E v \in Workers :
    /\ IsPost(v)
    /\ db' = [db EXCEPT ![c] = long_url[v]]
    /\ stored' = stored \cup {<<c, long_url[v]>>}

\* INSERT ... ON CONFLICT (short_url) DO UPDATE, at the server.
Upsert(c, u) ==
  /\ db' = [db EXCEPT ![c] = u]
  /\ stored' = stored \cup {<<c, u>>}

StoreDone(w) ==
  /\ pg_state[conn[w]] = "ready"
  /\ Upsert(short_url[w], long_url[w])
  /\ result' = [result EXCEPT ![w] = long_url[w]]
  /\ UNCHANGED <<pg_state, in_flight>>

\* Unlike lookup(), the loop goes on to the null result: the connection is
\* usable again.
StoreSqlError(w) ==
  /\ "db_error" \in Faults
  /\ pg_state[conn[w]] = "ready"
  /\ result' = [result EXCEPT ![w] = None]
  /\ UNCHANGED <<pg_state, db, in_flight, stored>>

\* The connection breaks.  The row has been written, and success may have
\* been read before the break; or the statement is lost; or it is still on
\* its way.
StoreLost(w) ==
  /\ "db_loss" \in Faults
  /\ pg_state[conn[w]] = "ready"
  /\ \/ /\ Upsert(short_url[w], long_url[w])
        /\ \E r \in {None, long_url[w]} : result' = [result EXCEPT ![w] = r]
        /\ UNCHANGED in_flight
     \/ /\ in_flight' \in {in_flight, in_flight \cup {<<short_url[w], long_url[w]>>}}
        /\ result' = [result EXCEPT ![w] = None]
        /\ UNCHANGED <<db, stored>>
  /\ pg_state' = [pg_state EXCEPT ![conn[w]] = "broken"]

StoreRefused(w) ==
  /\ pg_state[conn[w]] # "ready"
  /\ result' = [result EXCEPT ![w] = None]
  /\ UNCHANGED <<pg_state, db, in_flight, stored>>

StoreQuery(w) ==
  /\ pc[w] = "store_query"
  /\ StoreDone(w) \/ StoreSqlError(w) \/ StoreLost(w) \/ StoreRefused(w)
  /\ GoTo(w, "store_release")
  /\ UNCHANGED <<alive, long_url, short_url, attempt, known, conn, reply,
                 pg_pool, redis_pool, cache, issued>>

\* Mutant: the return value of store() is not looked at.
PostStored_Unchecked(w) ==
  /\ pc[w] = "store_release"
  /\ PutPg(w)
  /\ AnswerPost(w)
  /\ UNCHANGED <<alive, pg_state, redis_pool, db, in_flight, cache, stored>>

PostStored(w) ==
  /\ pc[w] = "store_release"
  /\ result[w] # None
  /\ PutPg(w)
  /\ AnswerPost(w)
  /\ UNCHANGED <<alive, pg_state, redis_pool, db, in_flight, cache, stored>>

PostFailed(w) ==
  /\ pc[w] = "store_release"
  /\ result[w] = None
  /\ PutPg(w)
  /\ Answer(w, 500, None)
  /\ UNCHANGED <<alive, pg_state, redis_pool, dataVars>>

-----------------------------------------------------------------------------
(* RealRedisClient::set, called with the row just read.                    *)

SetAcquire(w) ==
  /\ pc[w] = "set_acquire"
  /\ TakeRedis(w)
  /\ GoTo(w, "set_query")
  /\ UNCHANGED <<alive, requestVars, reply, pg_pool, pg_state, dataVars>>

\* Mutant: the key is a member that all requests share.
SetQuery_SharedKey(w) ==
  /\ pc[w] = "set_query"
  /\ \E v \in Workers :
       /\ short_url[v] # None
       /\ cache' = [cache EXCEPT ![short_url[v]] = result[w]]
  /\ GoTo(w, "set_release")
  /\ UNCHANGED <<alive, requestVars, conn, reply, poolVars,
                 db, in_flight, stored, issued>>

SetQuery(w) ==
  /\ pc[w] = "set_query"
  /\ cache' = [cache EXCEPT ![short_url[w]] = result[w]]
  /\ GoTo(w, "set_release")
  /\ UNCHANGED <<alive, requestVars, conn, reply, poolVars,
                 db, in_flight, stored, issued>>

\* The command throws, applied or not: exit(1).
SetThrows(w) ==
  /\ "redis_error" \in Faults
  /\ pc[w] = "set_query"
  /\ cache' \in {cache, [cache EXCEPT ![short_url[w]] = result[w]]}
  /\ Exit
  /\ UNCHANGED <<db, stored, issued>>

GetFilled(w) ==
  /\ pc[w] = "set_release"
  /\ PutRedis(w)
  /\ Answer(w, 302, result[w])
  /\ UNCHANGED <<alive, pg_pool, pg_state, dataVars>>

-----------------------------------------------------------------------------
(* The environment.                                                        *)

\* maxmemory-policy allkeys-lru: any key may go.
Evict(c) ==
  /\ "evict" \in Faults
  /\ cache[c] # None
  /\ cache' = [cache EXCEPT ![c] = None]
  /\ UNCHANGED <<alive, workerVars, poolVars, db, in_flight, stored, issued>>

\* The server gets to a statement whose client is gone.
LateUpsert(c, u) ==
  /\ <<c, u>> \in in_flight
  /\ in_flight' = in_flight \ {<<c, u>>}
  /\ Upsert(c, u)
  /\ UNCHANGED <<alive, workerVars, poolVars, cache, issued>>

Kill ==
  /\ "kill" \in Faults
  /\ alive
  /\ Exit
  /\ UNCHANGED <<db, cache, stored, issued>>

\* A new process builds both clients; the container's start script also
\* starts a new Redis, which keeps nothing on disk, while a server started
\* by hand finds the old one.
Restart ==
  /\ ~alive
  /\ alive' = TRUE
  /\ pg_pool' = FullPool
  /\ redis_pool' = FullPool
  /\ cache' \in {cache, [c \in Codes |-> None]}
  /\ UNCHANGED <<workerVars, pg_state, db, in_flight, stored, issued>>

\* The steps of a request in progress.
HandlerStep(w) ==
  \/ GetAcquire(w) \/ GetQuery(w) \/ GetThrows(w) \/ GetHit(w) \/ GetMiss(w)
  \/ LookupAcquire(w) \/ LookupQuery(w)
  \/ PostReuse(w) \/ PostRehash(w) \/ PostExhausted(w) \/ PostFree(w)
  \/ GetNotFound(w) \/ GetFound(w)
  \/ StoreAcquire(w) \/ StoreQuery(w) \/ PostStored(w) \/ PostFailed(w)
  \/ SetAcquire(w) \/ SetQuery(w) \/ SetThrows(w) \/ GetFilled(w)

RequestStep(w) ==
  \/ \E u \in Urls : StartPost(w, u)
  \/ \E c \in Codes : StartGet(w, c)
  \/ \E s \in {200, 404, 405} : AnswerDirectly(w, s)

Next ==
  \/ \E w \in Workers : RequestStep(w) \/ HandlerStep(w)
  \/ \E c \in Codes : Evict(c)
  \/ \E c \in Codes, u \in Urls : LateUpsert(c, u)
  \/ Kill
  \/ Restart

Spec == Init /\ [][Next]_vars

(***************************************************************************)
(* A worker whose next step is possible takes it: the threads are          *)
(* scheduled by the operating system, and the two servers answer every     *)
(* statement, if only with an error (the code sets no time limit on        *)
(* either).  Nothing is assumed of clients, faults or restarts, nor that a *)
(* waiting acquire() is ever preferred to a new caller.                    *)
(***************************************************************************)
FairSpec == Spec /\ \A w \in Workers : WF_vars(HandlerStep(w))
-----------------------------------------------------------------------------
(* What must hold in every environment.                                    *)

PgHeld == [w \in Workers |-> IF pc[w] \in PgPcs THEN conn[w] ELSE NoConn]
RedisHeld == [w \in Workers |-> IF pc[w] \in RedisPcs THEN conn[w] ELSE NoConn]

Places(pool, holder, c) ==
  Cardinality({i \in DOMAIN pool : pool[i] = c})
    + Cardinality({w \in Workers : holder[w] = c})

(***************************************************************************)
(* While the process runs, every PostgreSQL connection is in exactly one   *)
(* place, the queue or the hands of one worker: no return path of lookup() *)
(* or store() forgets or repeats release(), and no worker keeps a          *)
(* connection of one pool where the other is meant.  A Redis connection is *)
(* in at most one place; RealRedisClient::get may lose it.                 *)
(***************************************************************************)
ConnsAccounted ==
  alive => \A c \in Conns : /\ Places(pg_pool, PgHeld, c) = 1
                            /\ Places(redis_pool, RedisHeld, c) <= 1

\* Both clients use their pool as the contract says: the PostgreSQL client
\* never drops a connection, on no error path.
PgContract == INSTANCE PoolContract
  WITH Threads <- Workers, open <- alive, connections <- pg_pool, held <- PgHeld
RedisContract == INSTANCE PoolContract
  WITH Threads <- Workers, open <- alive, connections <- redis_pool, held <- RedisHeld

PgNeverDropped == PgContract!SpecNoDrop
RedisPoolUsed == RedisContract!Spec

\* And so does the Redis client where no command ever throws.
RedisNeverDropped == RedisContract!SpecNoDrop

\* The step in which a request is answered.
Answers(w) == pc[w] # "idle" /\ pc'[w] = "idle" /\ alive'

(***************************************************************************)
(* A 302 sends the client to a URL that the database has held under the    *)
(* requested code, however the database, the cache, their errors and other *)
(* requests were interleaved: never to another code's URL, never to        *)
(* something that was only about to be stored.                             *)
(***************************************************************************)
RedirectsToStored ==
  [][\A w \in Workers :
       Answers(w) /\ reply'[w].status = 302
         => <<short_url[w], reply'[w].url>> \in stored]_vars

(***************************************************************************)
(* A GET of a code that had been issued before the GET began is not        *)
(* answered 404 unless its lookup failed, whatever is evicted, restarted   *)
(* or in progress: rows are replaced and never removed, and a miss of the  *)
(* cache is no proof of absence.                                           *)
(***************************************************************************)
IssuedNotLost ==
  [][\A w \in Workers : Answers(w) /\ known[w] => reply'[w].status # 404]_vars

\* Every code answered with 200 had been bound to its URL when it was
\* answered: the service keeps the weak promise of UrlService.
Candidate(c, u) == \E k \in Attempts : base62_encode[u][k] = c
Service == INSTANCE UrlService
  WITH map <- db, bound <- stored, Derives <- Candidate
KeepsWeakPromise == Service!WeakSpec

\* Two hashes have one code exactly where base62_encode keeps the same of
\* them, and every code has its length.  It is about numbers only: one state
\* is enough to check it in.
CodesCollide == stored = {} => CodesAsKept

-----------------------------------------------------------------------------
(* What holds where two POSTs never compete for one code: they do not      *)
(* overlap and every lookup is answered, or the hash has no collisions.    *)

\* Clients make one POST at a time, and none while the server has not yet got
\* to the statement of a process that has ended.  GETs may overlap it.
OnePost ==
  \A w \in Workers : IsPost(w) =>
    /\ in_flight = {}
    /\ \A v \in Workers : IsPost(v) => v = w

\* No lookup has ended in an error, and no connection is lost.
AllReady == \A c \in Conns : pg_state[c] = "ready"

\* No code is a candidate of two URLs.
CollisionFree ==
  \A c \in Codes, u1, u2 \in Urls : Candidate(c, u1) /\ Candidate(c, u2) => u1 = u2

\* The row of an issued code still has the URL it was issued for.
IssuedResolves == \A p \in issued : db[p[1]] = p[2]

\* The cache, which no write ever invalidates, agrees with the table.
CacheCoherent == \A c \in Codes : cache[c] \in {None, db[c]}

\* While nothing comes between the lookup and the store of a POST, comparing
\* the URLs is enough: whatever the hash, no later POST or late statement of
\* another URL gives an issued code away or makes the cache stale.
StaysBound == [](OnePost /\ AllReady) => [](IssuedResolves /\ CacheCoherent)

\* The strong promise of UrlService: codes are bound once, and a client is only
\* told a code that is bound to its URL.
KeepsStrongPromise == Service!Spec

-----------------------------------------------------------------------------
(* What holds where no GET of Redis throws and each pool has a connection  *)
(* for every worker.                                                       *)

\* Every request is answered, or ends with the process: no worker waits for
\* ever in acquire(), and the salted attempts come to an end.
RequestsEnd == \A w \in Workers : pc[w] # "idle" ~> pc[w] = "idle"

-----------------------------------------------------------------------------
(* What comments say of the clients.                                       *)

\* real_redis_client.h says get() returns nullopt on an error: it returns.
GetReturns == \A w \in Workers : pc[w] = "get_acquire" ~> pc[w] # "get_acquire"
=============================================================================
