-------------------------- MODULE ShortenerProofs ---------------------------
(***************************************************************************)
(* What holds of the /shorten route for every number of workers, URLs,     *)
(* codes, attempts and connections, and for every hash.                    *)
(***************************************************************************)
EXTENDS Shortener, SequenceTheorems, NaturalsInduction, WellFoundedInduction, TLAPS

-----------------------------------------------------------------------------
(* Type correctness.  TypeOK needs to know what a worker's locals are at   *)
(* the steps that use them: a connection is only released, a code only     *)
(* looked up and a URL only stored where the worker has one.               *)

StorePcs == {"store_acquire", "store_query", "store_release"}

LocalsOf(w) ==
  /\ pc[w] # "idle" => short_url[w] \in Codes
  /\ pc[w] \in RedisPcs \cup PgPcs => conn[w] \in Conns
  /\ pc[w] \in StorePcs => IsPost(w)
  /\ IsPost(w) => short_url[w] = base62_encode[long_url[w]][attempt[w]]
  /\ pc[w] = "idle" => attempt[w] = 0 /\ ~IsPost(w)

Locals == \A w \in Workers : LocalsOf(w)

TypeInv == TypeOK /\ Locals

\* The constructors leave full pools and workers without locals.
LEMMA InitTypeInv == Init => TypeInv
  <1> SUFFICES ASSUME Init PROVE TypeInv
    OBVIOUS
  <1>1. FullPool \in Seq(Conns)
    BY ShortenerAssumption DEF FullPool, Conns
  <1>2. 0 \in Attempts
    BY ShortenerAssumption DEF Attempts
  <1>3. TypeOK
    BY <1>1, <1>2 DEF Init, TypeOK, NoReply, Replies, PgStates
  <1>4. Locals
    BY DEF Init, Locals, LocalsOf, RedisPcs, PgPcs, StorePcs, IsPost
  <1>5. QED BY <1>3, <1>4 DEF TypeInv

\* Taking the front of a pool, and putting a connection back.
LEMMA PoolQueue ==
  ASSUME NEW pool \in Seq(Conns)
  PROVE  /\ \A c \in Conns : Append(pool, c) \in Seq(Conns)
         /\ pool # <<>> => Head(pool) \in Conns /\ Tail(pool) \in Seq(Conns)
  OBVIOUS

\* Hashing a URL with any salt of the loop gives a code.
LEMMA CodeType ==
  ASSUME NEW u \in Urls, NEW k \in Attempts
  PROVE  base62_encode[u][k] \in Codes
  BY ShortenerAssumption

\* The end of the process drops every local; only a POST leaves a statement behind.
LEMMA ExitTypeInv ==
  ASSUME TypeInv, Exit, cache' \in [Codes -> Urls \cup {None}],
         UNCHANGED <<db, stored, issued>>
  PROVE  TypeInv'
  <1>1. <<>> \in Seq(Conns) /\ 0 \in Attempts
    BY ShortenerAssumption DEF Attempts
  <1>2. in_flight' \subseteq Codes \X Urls
    BY DEF Exit, TypeInv, TypeOK, Locals, LocalsOf, StorePcs, IsPost
  <1>3. TypeOK'
    <2>1. NoReply \in Replies
      BY DEF NoReply, Replies
    <2>2. reply' \in [Workers -> Replies] /\ attempt' \in [Workers -> Attempts]
      BY <1>1, <2>1 DEF Exit
    <2>3. QED BY <1>1, <1>2, <2>2 DEF TypeInv, TypeOK, Exit, PgStates
  <1>4. Locals'
    BY DEF Exit, Locals, LocalsOf, RedisPcs, PgPcs, StorePcs, IsPost
  <1>5. QED BY <1>3, <1>4 DEF TypeInv

StatusCodes == {200, 302, 404, 405, 500}

\* The status codes of the answers.
LEMMA StatusCodesAre ==
  /\ 200 \in StatusCodes /\ 302 \in StatusCodes /\ 404 \in StatusCodes
  /\ 405 \in StatusCodes /\ 500 \in StatusCodes
  BY DEF StatusCodes

\* The locals a returning handler leaves behind.
LEMMA AnswerTypeInv ==
  ASSUME TypeInv, NEW w \in Workers,
         NEW code \in StatusCodes, NEW url \in Urls \cup {None},
         Answer(w, code, url)
  PROVE  /\ pc' \in [Workers -> {"idle"} \cup RedisPcs \cup PgPcs \cup WaitPcs]
         /\ long_url' \in [Workers -> Urls \cup {None}]
         /\ short_url' \in [Workers -> Codes \cup {None}]
         /\ attempt' \in [Workers -> Attempts]
         /\ result' \in [Workers -> Urls \cup {None}]
         /\ known' \in [Workers -> BOOLEAN]
         /\ reply' \in [Workers -> Replies]
         /\ pc'[w] = "idle" /\ long_url'[w] = None /\ attempt'[w] = 0
         /\ \A v \in Workers \ {w} :
              /\ pc'[v] = pc[v] /\ long_url'[v] = long_url[v]
              /\ short_url'[v] = short_url[v] /\ attempt'[v] = attempt[v]
  <1>1. 0 \in Attempts
    BY ShortenerAssumption DEF Attempts
  <1>2. [status |-> code, url |-> url] \in Replies
    BY DEF Replies, StatusCodes
  <1>3. QED BY <1>1, <1>2 DEF Answer, GoTo, TypeInv, TypeOK

\* A worker that answers and gives its connection back, or had none.
LEMMA AnsweredTypeInv ==
  ASSUME TypeInv, NEW w \in Workers,
         NEW code \in StatusCodes, NEW url \in Urls \cup {None},
         Answer(w, code, url),
         conn' = conn \/ conn' = [conn EXCEPT ![w] = NoConn],
         pg_pool' \in Seq(Conns), redis_pool' \in Seq(Conns),
         issued' \subseteq Codes \X Urls,
         UNCHANGED <<alive, pg_state, db, in_flight, cache, stored>>
  PROVE  TypeInv'
  <1>0. conn \in [Workers -> Conns \cup {NoConn}]
    BY DEF TypeInv, TypeOK
  <1>1. conn' \in [Workers -> Conns \cup {NoConn}]
    BY <1>0
  <1>2. TypeOK'
    BY <1>1, AnswerTypeInv DEF TypeInv, TypeOK
  <1>3. \A v \in Workers \ {w} : conn'[v] = conn[v]
    BY <1>0
  <1>4. ASSUME NEW v \in Workers PROVE LocalsOf(v)'
    <2>1. CASE v = w
      BY <2>1, AnswerTypeInv DEF LocalsOf, RedisPcs, PgPcs, StorePcs, IsPost
    <2>2. CASE v # w
      <3>1. /\ pc'[v] = pc[v] /\ conn'[v] = conn[v] /\ attempt'[v] = attempt[v]
            /\ long_url'[v] = long_url[v] /\ short_url'[v] = short_url[v]
        BY <2>2, <1>3, AnswerTypeInv
      <3>2. LocalsOf(v)
        BY DEF TypeInv, Locals
      <3>3. QED BY <3>1, <3>2 DEF LocalsOf, IsPost
    <2>3. QED BY <2>1, <2>2
  <1>5. QED BY <1>2, <1>4 DEF TypeInv, Locals

\* A worker goes on to another step of its handler.
LEMMA GoneToTypeInv ==
  ASSUME TypeInv, NEW w \in Workers,
         NEW label \in RedisPcs \cup PgPcs \cup WaitPcs, GoTo(w, label),
         long_url' \in [Workers -> Urls \cup {None}],
         short_url' \in [Workers -> Codes \cup {None}],
         attempt' \in [Workers -> Attempts],
         result' \in [Workers -> Urls \cup {None}],
         known' \in [Workers -> BOOLEAN],
         conn' \in [Workers -> Conns \cup {NoConn}],
         reply' \in [Workers -> Replies],
         \A v \in Workers \ {w} : /\ long_url'[v] = long_url[v]
                                  /\ short_url'[v] = short_url[v]
                                  /\ attempt'[v] = attempt[v]
                                  /\ conn'[v] = conn[v],
         short_url'[w] \in Codes,
         label \in RedisPcs \cup PgPcs => conn'[w] \in Conns,
         label \in StorePcs => long_url'[w] # None,
         long_url'[w] # None => short_url'[w] = base62_encode[long_url'[w]][attempt'[w]],
         pg_pool' \in Seq(Conns), redis_pool' \in Seq(Conns),
         pg_state' \in [Conns -> PgStates],
         alive' = alive,
         db' \in [Codes -> Urls \cup {None}], cache' \in [Codes -> Urls \cup {None}],
         in_flight' \subseteq Codes \X Urls, stored' \subseteq Codes \X Urls,
         issued' = issued
  PROVE  TypeInv'
  <1>0. pc \in [Workers -> {"idle"} \cup RedisPcs \cup PgPcs \cup WaitPcs]
    BY DEF TypeInv, TypeOK
  <1>1. /\ pc' \in [Workers -> {"idle"} \cup RedisPcs \cup PgPcs \cup WaitPcs]
        /\ pc'[w] = label /\ \A v \in Workers \ {w} : pc'[v] = pc[v]
    BY <1>0 DEF GoTo
  <1>2. TypeOK'
    BY <1>1 DEF TypeInv, TypeOK
  <1>4. ASSUME NEW v \in Workers PROVE LocalsOf(v)'
    <2>1. CASE v = w
      BY <2>1, <1>1 DEF LocalsOf, IsPost, RedisPcs, PgPcs, WaitPcs
    <2>2. CASE v # w
      <3>1. LocalsOf(v)
        BY DEF TypeInv, Locals
      <3>2. QED BY <2>2, <1>1, <3>1 DEF LocalsOf, IsPost
    <2>3. QED BY <2>1, <2>2
  <1>5. QED BY <1>2, <1>4 DEF TypeInv, Locals

\* What a store() may leave in the table and in the worker.
StoreTyped ==
  /\ result' \in [Workers -> Urls \cup {None}]
  /\ pg_state' \in [Conns -> PgStates]
  /\ db' \in [Codes -> Urls \cup {None}]
  /\ in_flight' \subseteq Codes \X Urls
  /\ stored' \subseteq Codes \X Urls

\* Every return path of store() leaves rows, statements in flight and connections typed.
LEMMA StoreType ==
  ASSUME TypeInv, NEW w \in Workers,
         short_url[w] \in Codes, long_url[w] \in Urls, conn[w] \in Conns,
         StoreDone(w) \/ StoreSqlError(w) \/ StoreLost(w) \/ StoreRefused(w)
  PROVE  StoreTyped
  <1>1. /\ result \in [Workers -> Urls \cup {None}]
        /\ pg_state \in [Conns -> PgStates]
        /\ db \in [Codes -> Urls \cup {None}]
        /\ in_flight \subseteq Codes \X Urls
        /\ stored \subseteq Codes \X Urls
    BY DEF TypeInv, TypeOK
  <1>2. <<short_url[w], long_url[w]>> \in Codes \X Urls
    OBVIOUS
  <1>3. ASSUME Upsert(short_url[w], long_url[w])
        PROVE  db' \in [Codes -> Urls \cup {None}] /\ stored' \subseteq Codes \X Urls
    BY <1>1, <1>2, <1>3 DEF Upsert
  <1>4. CASE StoreDone(w)
    BY <1>1, <1>3, <1>4 DEF StoreDone, StoreTyped
  <1>5. CASE StoreSqlError(w) \/ StoreRefused(w)
    BY <1>1, <1>5 DEF StoreSqlError, StoreRefused, StoreTyped
  <1>6. CASE StoreLost(w)
    <2>1. pg_state' \in [Conns -> PgStates]
      BY <1>1, <1>6 DEF StoreLost, PgStates
    <2>2. result' \in [Workers -> Urls \cup {None}]
      BY <1>1, <1>6 DEF StoreLost
    <2>3. in_flight' \subseteq Codes \X Urls
      BY <1>1, <1>2, <1>6 DEF StoreLost
    <2>4. db' \in [Codes -> Urls \cup {None}] /\ stored' \subseteq Codes \X Urls
      BY <1>1, <1>3, <1>6 DEF StoreLost
    <2>5. QED BY <2>1, <2>2, <2>3, <2>4 DEF StoreTyped
  <1>7. QED BY <1>4, <1>5, <1>6

\* No step of a handler, a server or the operating system breaks a type.
LEMMA NextTypeInv == TypeInv /\ [Next]_vars => TypeInv'
  <1> SUFFICES ASSUME TypeInv, [Next]_vars
               PROVE  TypeInv'
    OBVIOUS
  <1>t. TypeInv /\ TypeOK /\ Locals
    BY DEF TypeInv
  <1> USE DEF TypeInv, TypeOK, Locals, LocalsOf, RedisPcs, PgPcs, StorePcs, WaitPcs,
          IsPost, requestVars, poolVars, dataVars
  <1>q. /\ \A c \in Conns : /\ Append(pg_pool, c) \in Seq(Conns)
                            /\ Append(redis_pool, c) \in Seq(Conns)
        /\ pg_pool # <<>> => Head(pg_pool) \in Conns /\ Tail(pg_pool) \in Seq(Conns)
        /\ redis_pool # <<>> => Head(redis_pool) \in Conns /\ Tail(redis_pool) \in Seq(Conns)
    BY PoolQueue
  <1>n. /\ NoReply \in Replies /\ 0 \in Attempts
    BY ShortenerAssumption DEF NoReply, Replies, Attempts
  <1>1. ASSUME NEW w \in Workers, NEW u \in Urls, StartPost(w, u)
        PROVE  TypeInv'
    <2>1. attempt[w] = 0
      BY <1>1 DEF StartPost
    <2>2. base62_encode[u][0] \in Codes
      BY <1>n, CodeType
    <2>3. QED BY <1>1, <1>n, <2>1, <2>2, GoneToTypeInv DEF StartPost
  <1>2. ASSUME NEW w \in Workers, NEW c \in Codes, StartGet(w, c)
        PROVE  TypeInv'
    <2>1. /\ short_url' \in [Workers -> Codes \cup {None}] /\ short_url'[w] = c
          /\ known' \in [Workers -> BOOLEAN] /\ reply' \in [Workers -> Replies]
          /\ \A v \in Workers \ {w} : short_url'[v] = short_url[v]
          /\ long_url[w] = None
      BY <1>2, <1>n DEF StartGet
    <2>2. GoTo(w, "get_acquire") /\ UNCHANGED <<alive, long_url, attempt, result, conn, poolVars, dataVars>>
      BY <1>2 DEF StartGet
    <2>3. /\ "get_acquire" \in WaitPcs
          /\ "get_acquire" \notin RedisPcs \cup PgPcs /\ "get_acquire" \notin StorePcs
      BY DEF WaitPcs, RedisPcs, PgPcs, StorePcs
    <2>4. /\ long_url' \in [Workers -> Urls \cup {None}] /\ attempt' \in [Workers -> Attempts]
          /\ result' \in [Workers -> Urls \cup {None}] /\ conn' \in [Workers -> Conns \cup {NoConn}]
          /\ long_url'[w] = None
          /\ \A v \in Workers \ {w} : /\ long_url'[v] = long_url[v] /\ attempt'[v] = attempt[v]
                                       /\ conn'[v] = conn[v]
      BY <2>1, <2>2
    <2>5. /\ pg_pool' \in Seq(Conns) /\ redis_pool' \in Seq(Conns) /\ pg_state' \in [Conns -> PgStates]
          /\ db' \in [Codes -> Urls \cup {None}] /\ cache' \in [Codes -> Urls \cup {None}]
          /\ in_flight' \subseteq Codes \X Urls /\ stored' \subseteq Codes \X Urls
          /\ issued' = issued /\ alive' = alive
      BY <2>2 DEF poolVars, dataVars
    <2>6. TypeInv /\ c \in Codes /\ w \in Workers
      OBVIOUS
    <2> HIDE DEF TypeInv, TypeOK, Locals, LocalsOf, RedisPcs, PgPcs, StorePcs, WaitPcs
    <2>7. QED BY ONLY <2>1, <2>2, <2>3, <2>4, <2>5, <2>6, GoneToTypeInv
  <1>3. ASSUME NEW w \in Workers, NEW s \in {200, 404, 405}, AnswerDirectly(w, s)
        PROVE  TypeInv'
    BY <1>3, StatusCodesAre, AnsweredTypeInv DEF AnswerDirectly
  <1>4. ASSUME NEW w \in Workers, GetAcquire(w) PROVE TypeInv'
    BY <1>4, <1>q, GoneToTypeInv DEF GetAcquire, TakeRedis
  <1>5. ASSUME NEW w \in Workers, GetQuery(w) PROVE TypeInv'
    BY <1>5, GoneToTypeInv DEF GetQuery
  <1>6. ASSUME NEW w \in Workers, GetThrows(w) PROVE TypeInv'
    BY <1>6, GoneToTypeInv DEF GetThrows
  <1>7. ASSUME NEW w \in Workers, GetHit(w) PROVE TypeInv'
    <2>1. conn[w] \in Conns /\ result[w] \in Urls \cup {None}
      BY <1>7 DEF GetHit
    <2>2. /\ Answer(w, 302, result[w])
          /\ conn' = [conn EXCEPT ![w] = NoConn]
          /\ pg_pool' \in Seq(Conns) /\ redis_pool' \in Seq(Conns)
          /\ issued' \subseteq Codes \X Urls
          /\ UNCHANGED <<alive, pg_state, db, in_flight, cache, stored>>
      BY <1>7, <1>q, <2>1 DEF GetHit, PutRedis
    <2> HIDE DEF TypeInv
    <2>3. QED BY <2>1, <2>2, StatusCodesAre, AnsweredTypeInv
  <1>8. ASSUME NEW w \in Workers, GetMiss(w) PROVE TypeInv'
    BY <1>8, <1>q, GoneToTypeInv DEF GetMiss, PutRedis
  <1>9. ASSUME NEW w \in Workers, LookupAcquire(w) PROVE TypeInv'
    BY <1>9, <1>q, GoneToTypeInv DEF LookupAcquire, TakePg
  <1>10. ASSUME NEW w \in Workers, LookupQuery(w) PROVE TypeInv'
    <2>1. short_url[w] \in Codes /\ conn[w] \in Conns
      BY <1>10 DEF LookupQuery
    <2>2. /\ result' \in [Workers -> Urls \cup {None}]
          /\ pg_state' \in [Conns -> PgStates]
      BY <1>10, <2>1 DEF LookupQuery, LookupAnswered, LookupSqlError, LookupLost,
                         LookupRefused, PgStates
    <2>3. known' = known \/ known' = [known EXCEPT ![w] = FALSE]
      BY <1>10 DEF LookupQuery, LookupAnswered, LookupSqlError, LookupLost, LookupRefused
    <2>4. known' \in [Workers -> BOOLEAN]
      BY <2>3
    <2>5. QED BY <1>10, <2>1, <2>2, <2>4, GoneToTypeInv DEF LookupQuery
  <1>11. ASSUME NEW w \in Workers, PostReuse(w) PROVE TypeInv'
    <2>1. conn[w] \in Conns /\ <<short_url[w], long_url[w]>> \in Codes \X Urls
      BY <1>11 DEF PostReuse, LookupRelease
    <2>2. /\ Answer(w, 200, None)
          /\ conn' = [conn EXCEPT ![w] = NoConn]
          /\ pg_pool' \in Seq(Conns) /\ redis_pool' \in Seq(Conns)
          /\ issued' \subseteq Codes \X Urls
          /\ UNCHANGED <<alive, pg_state, db, in_flight, cache, stored>>
      BY <1>11, <1>q, <2>1 DEF PostReuse, LookupRelease, PutPg, AnswerPost
    <2> HIDE DEF TypeInv
    <2>3. QED BY <2>1, <2>2, StatusCodesAre, AnsweredTypeInv
  <1>12. ASSUME NEW w \in Workers, PostRehash(w) PROVE TypeInv'
    <2>1. /\ attempt[w] + 1 \in Attempts /\ long_url[w] \in Urls /\ conn[w] \in Conns
      BY <1>12, ShortenerAssumption DEF PostRehash, LookupRelease, Attempts
    <2>2. QED BY <1>12, <1>q, <2>1, CodeType, GoneToTypeInv
              DEF PostRehash, LookupRelease, PutPg
  <1>13. ASSUME NEW w \in Workers, PostExhausted(w) PROVE TypeInv'
    <2>1. conn[w] \in Conns
      BY <1>13 DEF PostExhausted, LookupRelease
    <2>2. /\ Answer(w, 500, None)
          /\ conn' = [conn EXCEPT ![w] = NoConn]
          /\ pg_pool' \in Seq(Conns) /\ redis_pool' \in Seq(Conns)
          /\ issued' \subseteq Codes \X Urls
          /\ UNCHANGED <<alive, pg_state, db, in_flight, cache, stored>>
      BY <1>13, <1>q, <2>1 DEF PostExhausted, LookupRelease, PutPg
    <2> HIDE DEF TypeInv
    <2>3. QED BY <2>1, <2>2, StatusCodesAre, AnsweredTypeInv
  <1>14. ASSUME NEW w \in Workers, PostFree(w) PROVE TypeInv'
    BY <1>14, <1>q, GoneToTypeInv DEF PostFree, LookupRelease, PutPg
  <1>15. ASSUME NEW w \in Workers, GetNotFound(w) PROVE TypeInv'
    <2>1. conn[w] \in Conns
      BY <1>15 DEF GetNotFound, LookupRelease
    <2>2. /\ Answer(w, 404, None)
          /\ conn' = [conn EXCEPT ![w] = NoConn]
          /\ pg_pool' \in Seq(Conns) /\ redis_pool' \in Seq(Conns)
          /\ issued' \subseteq Codes \X Urls
          /\ UNCHANGED <<alive, pg_state, db, in_flight, cache, stored>>
      BY <1>15, <1>q, <2>1 DEF GetNotFound, LookupRelease, PutPg
    <2> HIDE DEF TypeInv
    <2>3. QED BY <2>1, <2>2, StatusCodesAre, AnsweredTypeInv
  <1>16. ASSUME NEW w \in Workers, GetFound(w) PROVE TypeInv'
    BY <1>16, <1>q, GoneToTypeInv DEF GetFound, LookupRelease, PutPg
  <1>17. ASSUME NEW w \in Workers, StoreAcquire(w) PROVE TypeInv'
    BY <1>17, <1>q, GoneToTypeInv DEF StoreAcquire, TakePg
  <1>18. ASSUME NEW w \in Workers, StoreQuery(w) PROVE TypeInv'
    <2>1. short_url[w] \in Codes /\ conn[w] \in Conns /\ long_url[w] \in Urls
      BY <1>18 DEF StoreQuery
    <2>2. StoreTyped
      BY <1>18, <2>1, StoreType DEF StoreQuery
    <2>3. QED BY <1>18, <2>1, <2>2, GoneToTypeInv DEF StoreQuery, StoreTyped
  <1>19. ASSUME NEW w \in Workers, PostStored(w) PROVE TypeInv'
    <2>1. conn[w] \in Conns /\ <<short_url[w], long_url[w]>> \in Codes \X Urls
      BY <1>19 DEF PostStored
    <2>2. /\ Answer(w, 200, None)
          /\ conn' = [conn EXCEPT ![w] = NoConn]
          /\ pg_pool' \in Seq(Conns) /\ redis_pool' \in Seq(Conns)
          /\ issued' \subseteq Codes \X Urls
          /\ UNCHANGED <<alive, pg_state, db, in_flight, cache, stored>>
      BY <1>19, <1>q, <2>1 DEF PostStored, PutPg, AnswerPost
    <2> HIDE DEF TypeInv
    <2>3. QED BY <2>1, <2>2, StatusCodesAre, AnsweredTypeInv
  <1>20. ASSUME NEW w \in Workers, PostFailed(w) PROVE TypeInv'
    <2>1. conn[w] \in Conns
      BY <1>20 DEF PostFailed
    <2>2. /\ Answer(w, 500, None)
          /\ conn' = [conn EXCEPT ![w] = NoConn]
          /\ pg_pool' \in Seq(Conns) /\ redis_pool' \in Seq(Conns)
          /\ issued' \subseteq Codes \X Urls
          /\ UNCHANGED <<alive, pg_state, db, in_flight, cache, stored>>
      BY <1>20, <1>q, <2>1 DEF PostFailed, PutPg
    <2> HIDE DEF TypeInv
    <2>3. QED BY <2>1, <2>2, StatusCodesAre, AnsweredTypeInv
  <1>21. ASSUME NEW w \in Workers, SetAcquire(w) PROVE TypeInv'
    BY <1>21, <1>q, GoneToTypeInv DEF SetAcquire, TakeRedis
  <1>22. ASSUME NEW w \in Workers, SetQuery(w) PROVE TypeInv'
    BY <1>22, GoneToTypeInv DEF SetQuery
  <1>23. ASSUME NEW w \in Workers, SetThrows(w) PROVE TypeInv'
    <2>1. Exit /\ cache' \in [Codes -> Urls \cup {None}] /\ UNCHANGED <<db, stored, issued>>
      BY <1>23 DEF SetThrows, TypeInv, TypeOK
    <2>2. QED BY <2>1, ExitTypeInv
  <1>24. ASSUME NEW w \in Workers, GetFilled(w) PROVE TypeInv'
    <2>1. conn[w] \in Conns /\ result[w] \in Urls \cup {None}
      BY <1>24 DEF GetFilled
    <2>2. /\ Answer(w, 302, result[w])
          /\ conn' = [conn EXCEPT ![w] = NoConn]
          /\ pg_pool' \in Seq(Conns) /\ redis_pool' \in Seq(Conns)
          /\ issued' \subseteq Codes \X Urls
          /\ UNCHANGED <<alive, pg_state, db, in_flight, cache, stored>>
      BY <1>24, <1>q, <2>1 DEF GetFilled, PutRedis
    <2> HIDE DEF TypeInv
    <2>3. QED BY <2>1, <2>2, StatusCodesAre, AnsweredTypeInv
  <1>25. ASSUME NEW c \in Codes, Evict(c) PROVE TypeInv'
    BY <1>25 DEF Evict, workerVars
  <1>26. ASSUME NEW c \in Codes, NEW u \in Urls, LateUpsert(c, u) PROVE TypeInv'
    BY <1>26 DEF LateUpsert, Upsert, workerVars
  <1>27. CASE Kill
    BY <1>27, ExitTypeInv DEF Kill
  <1>28. CASE Restart
    <2>1. FullPool \in Seq(Conns)
      BY ShortenerAssumption DEF FullPool, Conns
    <2>2. QED BY <1>28, <2>1 DEF Restart, workerVars
  <1>29. CASE UNCHANGED vars
    BY <1>29 DEF vars, workerVars
  <1>30. ASSUME NEW w \in Workers, RequestStep(w) \/ HandlerStep(w) PROVE TypeInv'
    <2>1. CASE RequestStep(w)
      BY ONLY <2>1, <1>1, <1>2, <1>3 DEF RequestStep
    <2>2. CASE HandlerStep(w)
      BY ONLY <2>2, <1>4, <1>5, <1>6, <1>7, <1>8, <1>9, <1>10, <1>11, <1>12, <1>13, <1>14,
         <1>15, <1>16, <1>17, <1>18, <1>19, <1>20, <1>21, <1>22, <1>23, <1>24, Zenon
         DEF HandlerStep
    <2>3. QED BY ONLY <1>30, <2>1, <2>2
  <1>31. QED BY <1>25, <1>26, <1>27, <1>28, <1>29, <1>30 DEF Next

\* Every variable keeps its type, in every environment.
THEOREM ShortenerTypeCorrect == Spec => []TypeOK
  BY InitTypeInv, NextTypeInv, PTL DEF Spec, TypeInv

-----------------------------------------------------------------------------
(* Where URLs come from.  Whatever a worker has read, the cache holds or a *)
(* client was told has once been a row of the table, a row is never        *)
(* removed, and a row's URL has the row's code as a candidate.             *)

SetPcs == {"set_acquire", "set_query", "set_release"}

ResultsOf(w) ==
  /\ result[w] # None => <<short_url[w], result[w]>> \in stored
  /\ pc[w] = "idle" => result[w] = None
  /\ pc[w] = "store_release" /\ result[w] # None => result[w] = long_url[w]
  /\ pc[w] \in SetPcs => result[w] # None

Results == \A w \in Workers : ResultsOf(w)

TableInv ==
  /\ \A c \in Codes : db[c] # None => <<c, db[c]>> \in stored
  /\ \A c \in Codes, u \in Urls : <<c, u>> \in stored => db[c] # None
  /\ \A c \in Codes, u \in Urls : <<c, u>> \in stored \cup in_flight => Candidate(c, u)

CacheInv ==
  /\ \A c \in Codes : cache[c] # None => <<c, cache[c]>> \in stored
  /\ issued \subseteq stored

Prov == Results /\ TableInv /\ CacheInv

Inv == TypeInv /\ Prov

\* Nothing has been read, cached or answered yet.
LEMMA InitProv == Init => Prov
  BY DEF Init, Prov, Results, ResultsOf, TableInv, CacheInv, SetPcs

\* The typing facts that the steps below use.
LEMMA Types ==
  ASSUME TypeInv
  PROVE  /\ pc \in [Workers -> {"idle"} \cup RedisPcs \cup PgPcs \cup WaitPcs]
         /\ long_url \in [Workers -> Urls \cup {None}]
         /\ short_url \in [Workers -> Codes \cup {None}]
         /\ result \in [Workers -> Urls \cup {None}]
         /\ db \in [Codes -> Urls \cup {None}]
         /\ cache \in [Codes -> Urls \cup {None}]
         /\ stored \subseteq Codes \X Urls
         /\ issued \subseteq Codes \X Urls
  BY DEF TypeInv, TypeOK

\* Writing a row keeps the table what it is, and everything read from it.
LEMMA UpsertTableInv ==
  ASSUME TypeInv, TableInv, NEW c \in Codes, NEW u \in Urls, Candidate(c, u),
         Upsert(c, u), in_flight' \subseteq in_flight \cup {<<c, u>>}
  PROVE  TableInv' /\ stored \subseteq stored' /\ <<c, u>> \in stored'
  <1>1. /\ db' = [db EXCEPT ![c] = u] /\ stored' = stored \cup {<<c, u>>}
        /\ db \in [Codes -> Urls \cup {None}] /\ u # None
    BY Types, ShortenerAssumption DEF Upsert
  <1>2. \A d \in Codes : db'[d] = IF d = c THEN u ELSE db[d]
    BY <1>1
  <1>3. \A d \in Codes : db'[d] # None => <<d, db'[d]>> \in stored'
    BY <1>1, <1>2 DEF TableInv
  <1>4. \A d \in Codes, v \in Urls : <<d, v>> \in stored' => db'[d] # None
    BY <1>1, <1>2 DEF TableInv
  <1>5. \A d \in Codes, v \in Urls : <<d, v>> \in stored' \cup in_flight' => Candidate(d, v)
    BY <1>1 DEF TableInv
  <1>6. QED BY <1>1, <1>3, <1>4, <1>5 DEF TableInv

\* What a POST stores is a candidate code of its URL.
LEMMA PostCandidate ==
  ASSUME TypeInv, NEW w \in Workers, IsPost(w)
  PROVE  Candidate(short_url[w], long_url[w])
  BY DEF TypeInv, TypeOK, Locals, LocalsOf, Candidate, IsPost

\* A worker that answers forgets what it has read.
LEMMA AnswerResults ==
  ASSUME TypeInv, Results, NEW w \in Workers, NEW code, NEW url, Answer(w, code, url),
         stored' = stored
  PROVE  Results'
  <1>1. /\ result'[w] = None
        /\ \A v \in Workers \ {w} : /\ result'[v] = result[v] /\ pc'[v] = pc[v]
                                    /\ short_url'[v] = short_url[v]
                                    /\ long_url'[v] = long_url[v]
    BY Types DEF Answer, GoTo
  <1>2. pc'[w] = "idle"
    BY Types DEF Answer, GoTo
  <1>3. QED BY <1>1, <1>2 DEF Results, ResultsOf, SetPcs

\* A worker goes on to another step, with or without something read.
LEMMA GoToResults ==
  ASSUME TypeInv, Results, NEW w \in Workers, NEW label, GoTo(w, label),
         label # "idle", stored \subseteq stored',
         result' \in [Workers -> Urls \cup {None}],
         \A v \in Workers \ {w} : /\ result'[v] = result[v]
                                  /\ short_url'[v] = short_url[v]
                                  /\ long_url'[v] = long_url[v],
         result'[w] # None => <<short_url'[w], result'[w]>> \in stored',
         label = "store_release" => result'[w] \in {None, long_url'[w]},
         label \in SetPcs => result'[w] # None
  PROVE  Results'
  <1>1. pc'[w] = label /\ \A v \in Workers \ {w} : pc'[v] = pc[v]
    BY Types DEF GoTo
  <1>2. QED BY <1>1 DEF Results, ResultsOf

\* The end of the process loses what the workers had read and keeps the rest.
LEMMA ExitProv ==
  ASSUME TypeInv, Prov, Exit, UNCHANGED <<db, stored, issued>>,
         \A c \in Codes : cache'[c] # None => <<c, cache'[c]>> \in stored
  PROVE  Prov'
  <1>1. Results'
    BY DEF Exit, Results, ResultsOf, SetPcs
  <1>2. ASSUME NEW w \in Workers, pc[w] = "store_query"
        PROVE  Candidate(short_url[w], long_url[w])
    <2>1. IsPost(w)
      BY <1>2 DEF TypeInv, Locals, LocalsOf, StorePcs
    <2>2. QED BY <2>1, PostCandidate
  <1>3. ASSUME NEW c \in Codes, NEW u \in Urls, <<c, u>> \in in_flight'
        PROVE  Candidate(c, u)
    <2>1. CASE <<c, u>> \in in_flight
      BY <2>1 DEF Prov, TableInv
    <2>2. CASE \E w \in Workers : /\ pc[w] = "store_query"
                                  /\ <<c, u>> = <<short_url[w], long_url[w]>>
      BY <2>2, <1>2
    <2>3. QED BY <1>3, <2>1, <2>2 DEF Exit
  <1>4. TableInv'
    BY <1>3 DEF Prov, TableInv, Candidate
  <1>5. CacheInv'
    BY DEF Prov, CacheInv
  <1>6. QED BY <1>1, <1>4, <1>5 DEF Prov

\* What workers read, cache and answer comes from a row, at every step.
LEMMA NextProv == TypeInv /\ Prov /\ [Next]_vars => Prov'
  <1> SUFFICES ASSUME TypeInv, Prov, [Next]_vars
               PROVE  Prov'
    OBVIOUS
  <1> USE DEF requestVars, poolVars, dataVars, SetPcs
  <1>t. Results /\ TableInv /\ CacheInv
    BY DEF Prov
  \* Steps that write neither server keep what is said of them.
  <1>d. ASSUME UNCHANGED dataVars PROVE TableInv' /\ CacheInv'
    BY <1>t, <1>d DEF TableInv, CacheInv, Candidate
  <1>r. ASSUME NEW w \in Workers PROVE ResultsOf(w)
    BY <1>t DEF Results
  <1>1. ASSUME NEW w \in Workers, NEW u \in Urls, StartPost(w, u) PROVE Prov'
    <2>1. result[w] = None
      BY <1>1, <1>r DEF StartPost, ResultsOf
    <2>2. Results'
      BY <1>1, <1>t, <2>1, Types, GoToResults DEF StartPost
    <2>3. QED BY <1>1, <1>d, <2>2 DEF StartPost, Prov
  <1>2. ASSUME NEW w \in Workers, NEW c \in Codes, StartGet(w, c) PROVE Prov'
    <2>1. result[w] = None
      BY <1>2, <1>r DEF StartGet, ResultsOf
    <2>2. Results'
      BY <1>2, <1>t, <2>1, Types, GoToResults DEF StartGet
    <2>3. QED BY <1>2, <1>d, <2>2 DEF StartGet, Prov
  \* Steps that move on with the same locals.
  <1>3. ASSUME NEW w \in Workers,
               \/ GetAcquire(w) \/ GetThrows(w) \/ GetMiss(w) \/ LookupAcquire(w)
               \/ PostFree(w) \/ GetFound(w) \/ StoreAcquire(w) \/ SetAcquire(w)
        PROVE  Prov'
    <2>1. UNCHANGED <<requestVars, dataVars>>
      BY <1>3 DEF GetAcquire, GetThrows, GetMiss, LookupAcquire, PostFree, GetFound,
                  StoreAcquire, SetAcquire, LookupRelease
    <2>2. \E label \in {"get_query", "lookup_acquire", "lookup_query", "store_acquire",
                        "set_acquire", "store_query", "set_query"} :
             GoTo(w, label) /\ (label \in SetPcs => result[w] # None)
      BY <1>3, <1>r DEF GetAcquire, GetThrows, GetMiss, LookupAcquire, PostFree, GetFound,
                        StoreAcquire, SetAcquire, ResultsOf
    <2>3. PICK label : /\ GoTo(w, label) /\ (label \in SetPcs => result[w] # None)
                       /\ label # "idle" /\ label # "store_release"
      BY <2>2
    <2>4. result[w] # None => <<short_url[w], result[w]>> \in stored
      BY <1>r DEF ResultsOf
    <2>5. Results'
      BY <1>t, <2>1, <2>3, <2>4, Types, GoToResults
    <2>6. QED BY <1>d, <2>1, <2>5 DEF Prov
  \* Steps that answer without having stored anything.
  <1>4. ASSUME NEW w \in Workers, NEW s,
               \/ AnswerDirectly(w, s) \/ GetHit(w) \/ PostExhausted(w) \/ GetNotFound(w)
               \/ PostFailed(w) \/ GetFilled(w)
        PROVE  Prov'
    <2>1. UNCHANGED dataVars /\ \E code, url : Answer(w, code, url)
      BY <1>4 DEF AnswerDirectly, GetHit, PostExhausted, GetNotFound, PostFailed,
                  GetFilled, LookupRelease
    <2>2. Results'
      BY <1>t, <2>1, AnswerResults
    <2>3. QED BY <1>d, <2>1, <2>2 DEF Prov
  \* A POST is answered with a code it has found or made bound to its URL.
  <1>5. ASSUME NEW w \in Workers, PostReuse(w) \/ PostStored(w) PROVE Prov'
    <2>1. /\ UNCHANGED <<db, in_flight, cache, stored>>
          /\ AnswerPost(w)
          /\ result[w] # None /\ result[w] = long_url[w]
      BY <1>5, <1>r DEF PostReuse, PostStored, LookupRelease, ResultsOf, IsPost
    <2>2. <<short_url[w], long_url[w]>> \in stored
      BY <1>r, <2>1 DEF ResultsOf
    <2>3. Results'
      BY <1>t, <2>1, AnswerResults DEF AnswerPost
    <2>4. CacheInv'
      BY <1>t, <2>1, <2>2 DEF CacheInv, AnswerPost
    <2>5. TableInv'
      BY <1>t, <2>1 DEF TableInv, Candidate
    <2>6. QED BY <2>3, <2>4, <2>5 DEF Prov
  <1>6. ASSUME NEW w \in Workers, GetQuery(w) PROVE Prov'
    <2>1. short_url[w] \in Codes
      BY <1>6 DEF GetQuery, TypeInv, Locals, LocalsOf
    <2>2. result' = [result EXCEPT ![w] = cache[short_url[w]]]
      BY <1>6 DEF GetQuery
    <2>3. result'[w] # None => <<short_url[w], result'[w]>> \in stored
      BY <1>t, <2>1, <2>2, Types DEF CacheInv
    <2>4. result' \in [Workers -> Urls \cup {None}]
      BY <2>1, <2>2, Types
    <2>5. Results'
      BY <1>6, <1>t, <2>2, <2>3, <2>4, Types, GoToResults DEF GetQuery
    <2>6. QED BY <1>6, <1>d, <2>5 DEF GetQuery, Prov
  <1>7. ASSUME NEW w \in Workers, LookupQuery(w) PROVE Prov'
    <2>1. short_url[w] \in Codes
      BY <1>7 DEF LookupQuery, TypeInv, Locals, LocalsOf, PgPcs
    <2>2. PICK r \in {None, db[short_url[w]]} : result' = [result EXCEPT ![w] = r]
      BY <1>7 DEF LookupQuery, LookupAnswered, LookupSqlError, LookupLost, LookupRefused
    <2>3. result'[w] # None => <<short_url[w], result'[w]>> \in stored
      BY <1>t, <2>1, <2>2, Types DEF TableInv
    <2>4. result' \in [Workers -> Urls \cup {None}]
      BY <2>1, <2>2, Types
    <2>5. Results'
      BY <1>7, <1>t, <2>2, <2>3, <2>4, Types, GoToResults DEF LookupQuery
    <2>6. QED BY <1>7, <1>d, <2>5 DEF LookupQuery, Prov
  <1>8. ASSUME NEW w \in Workers, PostRehash(w) PROVE Prov'
    <2>1. /\ result' = [result EXCEPT ![w] = None]
          /\ \A v \in Workers \ {w} : short_url'[v] = short_url[v]
          /\ GoTo(w, "lookup_acquire")
          /\ UNCHANGED <<long_url, dataVars>>
      BY <1>8, Types DEF PostRehash, LookupRelease
    <2>2. result' \in [Workers -> Urls \cup {None}] /\ result'[w] = None
      BY <2>1, Types
    <2>3. Results'
      BY <1>t, <2>1, <2>2, Types, GoToResults
    <2>4. QED BY <1>d, <2>1, <2>3 DEF Prov
  <1>9. ASSUME NEW w \in Workers, StoreQuery(w) PROVE Prov'
    <2>1. short_url[w] \in Codes /\ IsPost(w) /\ long_url[w] \in Urls
      BY <1>9, Types DEF StoreQuery, TypeInv, Locals, LocalsOf, StorePcs, IsPost
    <2>2. /\ GoTo(w, "store_release")
          /\ UNCHANGED <<long_url, short_url, cache, issued>>
      BY <1>9 DEF StoreQuery
    <2>3. Candidate(short_url[w], long_url[w])
      BY <2>1, PostCandidate
    <2>4. PICK r \in {None, long_url[w]} : result' = [result EXCEPT ![w] = r]
      BY <1>9 DEF StoreQuery, StoreDone, StoreSqlError, StoreLost, StoreRefused
    <2>5. result' \in [Workers -> Urls \cup {None}] /\ result'[w] = r
      BY <2>1, <2>4, Types
    <2>6. CASE Upsert(short_url[w], long_url[w]) /\ UNCHANGED in_flight
      <3>1. /\ TableInv' /\ stored \subseteq stored'
            /\ <<short_url[w], long_url[w]>> \in stored'
        BY <1>t, <2>1, <2>3, <2>6, UpsertTableInv
      <3>2. Results'
        BY <1>t, <2>2, <2>4, <2>5, <3>1, Types, GoToResults
      <3>3. CacheInv'
        BY <1>t, <2>2, <3>1 DEF CacheInv
      <3>4. QED BY <3>1, <3>2, <3>3 DEF Prov
    <2>7. CASE /\ UNCHANGED <<db, stored>> /\ r = None
               /\ in_flight' \subseteq in_flight \cup {<<short_url[w], long_url[w]>>}
      <3>1. TableInv'
        BY <1>t, <2>3, <2>7 DEF TableInv, Candidate
      <3>2. Results'
        BY <1>t, <2>2, <2>4, <2>5, <2>7, Types, GoToResults
      <3>3. CacheInv'
        BY <1>t, <2>2, <2>7 DEF CacheInv
      <3>4. QED BY <3>1, <3>2, <3>3 DEF Prov
    <2>8. \/ Upsert(short_url[w], long_url[w]) /\ UNCHANGED in_flight
          \/ /\ UNCHANGED <<db, stored>> /\ result'[w] = None
             /\ in_flight' \subseteq in_flight \cup {<<short_url[w], long_url[w]>>}
      BY <1>9, Types DEF StoreQuery, StoreDone, StoreSqlError, StoreLost, StoreRefused
    <2>9. QED BY <2>5, <2>6, <2>7, <2>8
  <1>10. ASSUME NEW w \in Workers, SetQuery(w) PROVE Prov'
    <2>1. result[w] # None => <<short_url[w], result[w]>> \in stored
      BY <1>r DEF ResultsOf
    <2>2. CacheInv'
      BY <1>10, <1>t, <2>1, Types DEF SetQuery, CacheInv
    <2>3. Results'
      BY <1>10, <1>r, <1>t, <2>1, Types, GoToResults DEF SetQuery, ResultsOf
    <2>4. TableInv'
      BY <1>10, <1>t DEF SetQuery, TableInv, Candidate
    <2>5. QED BY <2>2, <2>3, <2>4 DEF Prov
  <1>11. ASSUME NEW w \in Workers, SetThrows(w) PROVE Prov'
    <2>1. result[w] # None => <<short_url[w], result[w]>> \in stored
      BY <1>r DEF ResultsOf
    <2>2. \A c \in Codes : cache'[c] # None => <<c, cache'[c]>> \in stored
      BY <1>11, <1>t, <2>1, Types DEF SetThrows, CacheInv
    <2>3. QED BY <1>11, <2>2, ExitProv DEF SetThrows
  <1>12. ASSUME NEW c \in Codes, Evict(c) PROVE Prov'
    <2>1. CacheInv'
      BY <1>12, <1>t, Types DEF Evict, CacheInv
    <2>2. Results' /\ TableInv'
      BY <1>12, <1>t DEF Evict, workerVars, Results, ResultsOf, TableInv, Candidate
    <2>3. QED BY <2>1, <2>2 DEF Prov
  <1>13. ASSUME NEW c \in Codes, NEW u \in Urls, LateUpsert(c, u) PROVE Prov'
    <2>1. /\ Candidate(c, u) /\ Upsert(c, u) /\ in_flight' \subseteq in_flight \cup {<<c, u>>}
      BY <1>13, <1>t DEF LateUpsert, TableInv
    <2>2. TableInv' /\ stored \subseteq stored'
      BY <1>t, <2>1, UpsertTableInv
    <2>3. Results' /\ CacheInv'
      BY <1>13, <1>t, <2>2 DEF LateUpsert, workerVars, Results, ResultsOf, CacheInv
    <2>4. QED BY <2>2, <2>3 DEF Prov
  <1>14. CASE Kill
    BY <1>14, <1>t, ExitProv DEF Kill, CacheInv
  <1>15. CASE Restart
    <2>1. CacheInv'
      BY <1>15, <1>t DEF Restart, CacheInv
    <2>2. Results' /\ TableInv'
      BY <1>15, <1>t DEF Restart, workerVars, Results, ResultsOf, TableInv, Candidate
    <2>3. QED BY <2>1, <2>2 DEF Prov
  <1>16. CASE UNCHANGED vars
    <2>1. Results'
      BY <1>16, <1>t DEF vars, workerVars, Results, ResultsOf
    <2>2. QED BY <1>16, <1>d, <2>1 DEF vars, Prov
  <1>17. ASSUME NEW w \in Workers, RequestStep(w) \/ HandlerStep(w) PROVE Prov'
    BY ONLY <1>17, <1>1, <1>2, <1>3, <1>4, <1>5, <1>6, <1>7, <1>8, <1>9, <1>10, <1>11
       DEF RequestStep, HandlerStep
  <1>18. QED BY <1>12, <1>13, <1>14, <1>15, <1>16, <1>17 DEF Next

\* The inductive invariant of every proof below: besides the types, whatever
\* a worker has read, Redis holds or a client was told was once a row.
THEOREM ShortenerInv == Spec => []Inv
  <1>1. Init => Inv
    BY InitTypeInv, InitProv DEF Inv
  <1>2. Inv /\ [Next]_vars => Inv'
    BY NextTypeInv, NextProv DEF Inv
  <1>3. QED BY <1>1, <1>2, PTL DEF Spec

-----------------------------------------------------------------------------
(* Answers.  Only seven steps end a request, each its own worker's.        *)

\* A request that ends was ended by one of seven steps of its own worker.
LEMMA WhoAnswers ==
  ASSUME TypeInv, [Next]_vars, NEW w \in Workers, Answers(w)
  PROVE  \/ PostReuse(w) \/ PostExhausted(w) \/ PostStored(w) \/ PostFailed(w)
         \/ GetHit(w) \/ GetFilled(w) \/ GetNotFound(w)
  <1> DEFINE Ends(v) == \/ PostReuse(v) \/ PostExhausted(v) \/ PostStored(v)
                        \/ PostFailed(v) \/ GetHit(v) \/ GetFilled(v) \/ GetNotFound(v)
  <1>0. pc[w] # "idle" /\ pc'[w] = "idle" /\ alive'
    BY DEF Answers
  <1>1. ASSUME NEW v \in Workers, NEW label, GoTo(v, label)
        PROVE  /\ pc'[v] = label
               /\ w # v => pc'[w] = pc[w]
    BY <1>1, Types DEF GoTo
  <1>2. ASSUME NEW v \in Workers, RequestStep(v) PROVE FALSE
    <2>1. /\ pc[v] = "idle"
          /\ \E label \in {"idle", "lookup_acquire", "get_acquire"} : GoTo(v, label)
      BY <1>2 DEF RequestStep, StartPost, StartGet, AnswerDirectly, Answer
    <2>2. QED BY <1>0, <1>1, <2>1
  <1>3. ASSUME NEW v \in Workers,
               \/ GetAcquire(v) \/ GetQuery(v) \/ GetThrows(v) \/ GetMiss(v)
               \/ LookupAcquire(v) \/ LookupQuery(v) \/ PostRehash(v) \/ PostFree(v)
               \/ GetFound(v) \/ StoreAcquire(v) \/ StoreQuery(v) \/ SetAcquire(v)
               \/ SetQuery(v)
        PROVE  FALSE
    <2>1. \E label \in RedisPcs \cup PgPcs \cup WaitPcs : GoTo(v, label)
      BY <1>3 DEF GetAcquire, GetQuery, GetThrows, GetMiss, LookupAcquire, LookupQuery,
                  PostRehash, PostFree, GetFound, StoreAcquire, StoreQuery, SetAcquire,
                  SetQuery, RedisPcs, PgPcs, WaitPcs
    <2>2. PICK label \in RedisPcs \cup PgPcs \cup WaitPcs : GoTo(v, label)
      BY <2>1
    <2>3. label # "idle"
      BY <2>2 DEF RedisPcs, PgPcs, WaitPcs
    <2>4. QED BY <1>0, <1>1, <2>2, <2>3
  <1>4. ASSUME NEW v \in Workers, Ends(v) PROVE v = w
    <2>1. GoTo(v, "idle")
      BY <1>4 DEF PostReuse, PostExhausted, PostStored, PostFailed, GetHit, GetFilled,
                  GetNotFound, AnswerPost, Answer
    <2>2. QED BY <1>0, <1>1, <2>1
  <1>5. ASSUME NEW v \in Workers, SetThrows(v) PROVE FALSE
    BY <1>0, <1>5 DEF SetThrows, Exit
  <1>6. CASE Kill
    BY <1>0, <1>6 DEF Kill, Exit
  <1>7. CASE \/ \E c \in Codes : Evict(c)
             \/ \E c \in Codes, u \in Urls : LateUpsert(c, u)
             \/ Restart
             \/ UNCHANGED vars
    BY <1>0, <1>7 DEF Evict, LateUpsert, Restart, vars, workerVars
  <1>8. ASSUME NEW v \in Workers, HandlerStep(v) PROVE Ends(w)
    BY ONLY <1>3, <1>4, <1>5, <1>8 DEF HandlerStep
  <1>9. QED BY <1>2, <1>6, <1>7, <1>8 DEF Next

\* What Answer() makes of the reply.
LEMMA AnswerReply ==
  ASSUME TypeInv, NEW w \in Workers, NEW code, NEW url, Answer(w, code, url)
  PROVE  reply'[w].status = code /\ reply'[w].url = url
  <1>1. reply \in [Workers -> Replies]
    BY DEF TypeInv, TypeOK
  <1>2. reply'[w] = [status |-> code, url |-> url]
    BY <1>1 DEF Answer
  <1>3. QED BY <1>2

\* A redirect leads to a URL that the table has held under the code.
THEOREM ShortenerRedirects == Spec => RedirectsToStored
  <1>1. ASSUME Inv, [Next]_vars, NEW w \in Workers, Answers(w), reply'[w].status = 302
        PROVE  <<short_url[w], reply'[w].url>> \in stored
    <2>0. TypeInv /\ Prov
      BY <1>1 DEF Inv
    <2>1. GetHit(w) \/ GetFilled(w)
      <3>1. ~PostReuse(w) /\ ~PostStored(w)
        BY <1>1, <2>0, AnswerReply DEF PostReuse, PostStored, AnswerPost
      <3>2. ~PostExhausted(w) /\ ~PostFailed(w) /\ ~GetNotFound(w)
        BY <1>1, <2>0, AnswerReply DEF PostExhausted, PostFailed, GetNotFound
      <3>3. QED BY <1>1, <2>0, <3>1, <3>2, WhoAnswers
    <2>2. reply'[w].url = result[w]
      BY <2>0, <2>1, AnswerReply DEF GetHit, GetFilled
    <2>3. result[w] # None
      BY <2>0, <2>1 DEF GetHit, GetFilled, Prov, Results, ResultsOf, SetPcs
    <2>4. QED BY <2>0, <2>2, <2>3 DEF Prov, Results, ResultsOf
  <1>2. Inv /\ [Next]_vars =>
          [\A w \in Workers : Answers(w) /\ reply'[w].status = 302
                                => <<short_url[w], reply'[w].url>> \in stored]_vars
    BY <1>1
  <1>3. QED BY <1>2, ShortenerInv, PTL DEF Spec, RedirectsToStored

-----------------------------------------------------------------------------
(* The weak promise.                                                       *)

\* Nothing is bound and nothing issued at the start.
LEMMA InitWeak == Init => Service!Init
  BY DEF Init, Service!Init

\* An upsert binds a candidate code.
LEMMA UpsertBinds ==
  ASSUME NEW c \in Codes, NEW u \in Urls, Candidate(c, u), Upsert(c, u), issued' = issued
  PROVE  Service!WeakNext
  BY DEF Upsert, Service!WeakNext, Service!Bind

\* Every step binds a candidate code, issues a bound one, or does neither.
LEMMA NextWeak ==
  TypeInv /\ Prov /\ [Next]_vars => [Service!WeakNext]_(Service!serviceVars)
  <1> SUFFICES ASSUME TypeInv, Prov, [Next]_vars
               PROVE  Service!WeakNext \/ UNCHANGED <<db, stored, issued>>
    BY DEF Service!serviceVars
  <1> USE DEF dataVars
  <1>1. ASSUME NEW w \in Workers, RequestStep(w)
        PROVE  UNCHANGED <<db, stored, issued>>
    BY <1>1 DEF RequestStep, StartPost, StartGet, AnswerDirectly
  <1>2. ASSUME NEW w \in Workers, PostReuse(w) \/ PostStored(w)
        PROVE  Service!WeakNext
    <2>1. /\ UNCHANGED <<db, stored>>
          /\ issued' = issued \cup {<<short_url[w], long_url[w]>>}
          /\ result[w] # None /\ result[w] = long_url[w]
      BY <1>2 DEF PostReuse, PostStored, LookupRelease, AnswerPost, Prov, Results,
                  ResultsOf, IsPost
    <2>2. <<short_url[w], long_url[w]>> \in stored
      BY <2>1 DEF Prov, Results, ResultsOf
    <2>3. short_url[w] \in Codes /\ long_url[w] \in Urls
      BY <2>2, Types
    <2>4. QED BY <2>1, <2>2, <2>3 DEF Service!WeakNext, Service!Issue
  <1>3. ASSUME NEW w \in Workers, StoreQuery(w)
        PROVE  Service!WeakNext \/ UNCHANGED <<db, stored, issued>>
    <2>1. short_url[w] \in Codes /\ IsPost(w) /\ long_url[w] \in Urls
      BY <1>3, Types DEF StoreQuery, TypeInv, Locals, LocalsOf, StorePcs, IsPost
    <2>2. Upsert(short_url[w], long_url[w]) \/ UNCHANGED <<db, stored>>
      BY <1>3 DEF StoreQuery, StoreDone, StoreSqlError, StoreLost, StoreRefused
    <2>3. issued' = issued
      BY <1>3 DEF StoreQuery
    <2>4. QED BY <2>1, <2>2, <2>3, PostCandidate, UpsertBinds
  <1>4. ASSUME NEW w \in Workers, HandlerStep(w),
               ~PostReuse(w), ~PostStored(w), ~StoreQuery(w)
        PROVE  UNCHANGED <<db, stored, issued>>
    BY <1>4 DEF HandlerStep, GetAcquire, GetQuery, GetThrows, GetHit, GetMiss,
       LookupAcquire, LookupQuery, PostRehash, PostExhausted, PostFree, GetNotFound,
       GetFound, LookupRelease, StoreAcquire, PostFailed, SetAcquire, SetQuery,
       SetThrows, GetFilled
  <1>5. ASSUME NEW c \in Codes, NEW u \in Urls, LateUpsert(c, u)
        PROVE  Service!WeakNext
    <2>1. Candidate(c, u) /\ Upsert(c, u) /\ issued' = issued
      BY <1>5 DEF LateUpsert, Prov, TableInv
    <2>2. QED BY <2>1, UpsertBinds
  <1>6. CASE Kill \/ Restart \/ (\E c \in Codes : Evict(c)) \/ UNCHANGED vars
    BY <1>6 DEF Kill, Restart, Evict, vars
  <1>7. QED BY <1>1, <1>2, <1>3, <1>4, <1>5, <1>6 DEF Next

\* Whatever fails, a client is only told codes that were bound to its URL.
THEOREM ShortenerKeepsWeakPromise == Spec => KeepsWeakPromise
  BY ShortenerInv, InitWeak, NextWeak, PTL
     DEF Spec, Inv, KeepsWeakPromise, Service!WeakSpec

-----------------------------------------------------------------------------
(* Codes that were issued before a GET of them began.                      *)

\* The GET looks for a row that exists, and has found it once lookup() returns.
KnownOf(w) ==
  known[w] => /\ pc[w] # "idle" /\ ~IsPost(w)
              /\ \E u \in Urls : <<short_url[w], u>> \in stored
              /\ pc[w] = "lookup_release" => result[w] # None

Known == \A w \in Workers : KnownOf(w)

\* What the table has held stays part of its history.
LEMMA StoredGrows ==
  ASSUME Inv, [Next]_vars
  PROVE  stored \subseteq stored'
  BY NextWeak DEF Inv, Service!WeakNext, Service!Bind, Service!Issue, Service!serviceVars

\* A step of one worker keeps what the others know.
LEMMA OthersKnow ==
  ASSUME Known, stored \subseteq stored', NEW w \in Workers, KnownOf(w)',
         \A v \in Workers \ {w} : /\ known'[v] = known[v] /\ pc'[v] = pc[v]
                                  /\ long_url'[v] = long_url[v]
                                  /\ short_url'[v] = short_url[v]
                                  /\ result'[v] = result[v]
  PROVE  Known'
  <1>1. ASSUME NEW v \in Workers \ {w}
        PROVE  KnownOf(v)'
    BY <1>1 DEF Known, KnownOf, IsPost
  <1>2. QED BY <1>1 DEF Known

\* A worker that answers knows nothing any more.
LEMMA AnswerKnown ==
  ASSUME TypeInv, Known, stored \subseteq stored', NEW w \in Workers,
         NEW code, NEW url, Answer(w, code, url)
  PROVE  Known'
  <1>1. known \in [Workers -> BOOLEAN]
    BY DEF TypeInv, TypeOK
  <1>2. ~known'[w]
    BY <1>1 DEF Answer
  <1>3. KnownOf(w)'
    BY <1>2 DEF KnownOf
  <1>4. \A v \in Workers \ {w} : /\ known'[v] = known[v] /\ pc'[v] = pc[v]
                                 /\ long_url'[v] = long_url[v]
                                 /\ short_url'[v] = short_url[v]
                                 /\ result'[v] = result[v]
    BY <1>1, Types DEF Answer, GoTo
  <1>5. QED BY <1>3, <1>4, OthersKnow

\* A worker goes on, and learns nothing about a code.
LEMMA GoToKnown ==
  ASSUME TypeInv, Known, stored \subseteq stored', NEW w \in Workers, NEW label,
         GoTo(w, label), label # "idle",
         long_url' = [long_url EXCEPT ![w] = long_url'[w]],
         short_url' = [short_url EXCEPT ![w] = short_url'[w]],
         result' = [result EXCEPT ![w] = result'[w]],
         known' = [known EXCEPT ![w] = known'[w]],
         known'[w] => /\ known[w]
                      /\ label = "lookup_release" => result'[w] # None
                      /\ long_url'[w] = long_url[w] /\ short_url'[w] = short_url[w]
  PROVE  Known'
  <1>1. known \in [Workers -> BOOLEAN]
    BY DEF TypeInv, TypeOK
  <1>2. pc'[w] = label
    BY Types DEF GoTo
  <1>3. KnownOf(w)'
    BY <1>2 DEF Known, KnownOf, IsPost
  <1>4. \A v \in Workers \ {w} : /\ known'[v] = known[v] /\ pc'[v] = pc[v]
                                 /\ long_url'[v] = long_url[v]
                                 /\ short_url'[v] = short_url[v]
                                 /\ result'[v] = result[v]
    BY <1>1, Types DEF GoTo
  <1>5. QED BY <1>3, <1>4, OthersKnow

\* A request begins: a GET knows its code if the code had been issued.
LEMMA RequestKnown ==
  ASSUME Inv, Known, NEW w \in Workers, RequestStep(w)
  PROVE  Known'
  <1>0. TypeInv /\ known \in [Workers -> BOOLEAN]
    BY DEF Inv, TypeInv, TypeOK
  <1>1. CASE \E u \in Urls : StartPost(w, u)
    <2>1. PICK u \in Urls : StartPost(w, u)
      BY <1>1
    <2>2. /\ pc[w] = "idle" /\ GoTo(w, "lookup_acquire") /\ UNCHANGED <<result, known, stored>>
          /\ long_url' = [long_url EXCEPT ![w] = u]
          /\ short_url' = [short_url EXCEPT ![w] = base62_encode[u][0]]
      BY <2>1 DEF StartPost, dataVars
    <2>3. ~known'[w]
      BY <2>2 DEF Known, KnownOf
    <2>4. /\ long_url' = [long_url EXCEPT ![w] = long_url'[w]]
          /\ short_url' = [short_url EXCEPT ![w] = short_url'[w]]
          /\ result' = [result EXCEPT ![w] = result'[w]]
          /\ known' = [known EXCEPT ![w] = known'[w]]
      BY <1>0, <2>2, Types
    <2>5. QED BY <1>0, <2>2, <2>3, <2>4, GoToKnown
  <1>2. CASE \E c \in Codes : StartGet(w, c)
    <2>1. PICK c \in Codes : StartGet(w, c)
      BY <1>2
    <2>2. /\ pc[w] = "idle" /\ pc' = [pc EXCEPT ![w] = "get_acquire"]
          /\ UNCHANGED <<long_url, result, stored>>
          /\ known' = [known EXCEPT ![w] = \E u \in Urls : <<c, u>> \in issued]
          /\ short_url' = [short_url EXCEPT ![w] = c]
      BY <2>1 DEF StartGet, GoTo, dataVars
    <2>3. pc'[w] = "get_acquire" /\ short_url'[w] = c /\ ~IsPost(w)'
      BY <1>0, <2>2, Types DEF TypeInv, Locals, LocalsOf, IsPost
    <2>4. known'[w] = \E u \in Urls : <<c, u>> \in issued
      BY <1>0, <2>2
    <2>5. known'[w] => \E u \in Urls : <<c, u>> \in stored'
      BY <2>2, <2>4 DEF Inv, Prov, CacheInv
    <2>6. KnownOf(w)'
      BY <2>3, <2>5 DEF KnownOf
    <2>7. \A v \in Workers \ {w} : /\ known'[v] = known[v] /\ pc'[v] = pc[v]
                                   /\ long_url'[v] = long_url[v]
                                   /\ short_url'[v] = short_url[v]
                                   /\ result'[v] = result[v]
      BY <1>0, <2>2, Types
    <2>8. QED BY <2>2, <2>6, <2>7, OthersKnow
  <1>3. CASE \E s \in {200, 404, 405} : AnswerDirectly(w, s)
    BY <1>0, <1>3, AnswerKnown DEF AnswerDirectly, dataVars
  <1>4. QED BY <1>1, <1>2, <1>3 DEF RequestStep

\* What the steps of a handler do not touch.
LEMMA Untouched ==
  ASSUME TypeInv, NEW w \in Workers
  PROVE  /\ long_url = [long_url EXCEPT ![w] = long_url[w]]
         /\ short_url = [short_url EXCEPT ![w] = short_url[w]]
         /\ result = [result EXCEPT ![w] = result[w]]
         /\ known = [known EXCEPT ![w] = known[w]]
  BY DEF TypeInv, TypeOK

\* A lookup finds the row of a known code, or is known to have failed.
LEMMA LookupKnown ==
  ASSUME Inv, Known, NEW w \in Workers, LookupQuery(w)
  PROVE  Known'
  <1>0. TypeInv /\ known \in [Workers -> BOOLEAN]
    BY DEF Inv, TypeInv, TypeOK
  <1>1. /\ pc[w] = "lookup_query" /\ GoTo(w, "lookup_release")
        /\ UNCHANGED <<long_url, short_url, stored>>
    BY DEF LookupQuery, dataVars
  <1>2. CASE LookupAnswered(w)
    <2>1. result' = [result EXCEPT ![w] = db[short_url[w]]] /\ known' = known
      BY <1>2 DEF LookupAnswered
    <2>2. result'[w] = db[short_url[w]] /\ result' = [result EXCEPT ![w] = result'[w]]
      BY <1>0, <2>1, Types
    <2>3. known[w] => db[short_url[w]] # None
      <3>1. short_url[w] \in Codes
        BY <1>0, <1>1 DEF TypeInv, Locals, LocalsOf
      <3>2. QED BY <3>1 DEF Known, KnownOf, Inv, Prov, TableInv
    <2>4. QED BY <1>0, <1>1, <2>1, <2>2, <2>3, Untouched, GoToKnown
  <1>3. CASE LookupSqlError(w) \/ LookupLost(w) \/ LookupRefused(w)
    <2>1. known' = [known EXCEPT ![w] = FALSE] /\ ~known'[w]
      BY <1>0, <1>3 DEF LookupSqlError, LookupLost, LookupRefused
    <2>2. \E r : result' = [result EXCEPT ![w] = r]
      BY <1>3 DEF LookupSqlError, LookupLost, LookupRefused
    <2>3. result' = [result EXCEPT ![w] = result'[w]]
      BY <1>0, <2>2, Types
    <2>4. known' = [known EXCEPT ![w] = known'[w]]
      BY <1>0, <2>1
    <2>5. QED BY <1>0, <1>1, <2>1, <2>3, <2>4, Untouched, GoToKnown
  <1>4. QED BY <1>2, <1>3 DEF LookupQuery

\* The other steps of a request.
LEMMA HandlerKnown ==
  ASSUME Inv, Known, stored \subseteq stored', NEW w \in Workers, HandlerStep(w)
  PROVE  Known'
  <1>0. TypeInv
    BY DEF Inv
  <1>1. ASSUME \/ PostReuse(w) \/ PostExhausted(w) \/ PostStored(w) \/ PostFailed(w)
               \/ GetHit(w) \/ GetFilled(w) \/ GetNotFound(w)
        PROVE  Known'
    <2>1. \E code, url : Answer(w, code, url)
      BY <1>1 DEF PostReuse, PostExhausted, PostStored, PostFailed, GetHit, GetFilled,
                  GetNotFound, AnswerPost
    <2>2. QED BY <1>0, <2>1, AnswerKnown
  <1>2. ASSUME \/ GetAcquire(w) \/ GetThrows(w) \/ GetMiss(w) \/ LookupAcquire(w)
               \/ PostFree(w) \/ GetFound(w) \/ StoreAcquire(w) \/ SetAcquire(w) \/ SetQuery(w)
        PROVE  Known'
    <2>1. /\ \E label \in RedisPcs \cup PgPcs \cup WaitPcs :
               GoTo(w, label) /\ label # "lookup_release"
          /\ UNCHANGED <<long_url, short_url, result, known>>
      BY <1>2 DEF GetAcquire, GetThrows, GetMiss, LookupAcquire, PostFree, GetFound,
                  StoreAcquire, SetAcquire, SetQuery, requestVars, RedisPcs, PgPcs, WaitPcs
    <2>2. PICK label \in RedisPcs \cup PgPcs \cup WaitPcs :
            GoTo(w, label) /\ label # "lookup_release"
      BY <2>1
    <2>3. label # "idle"
      BY <2>2 DEF RedisPcs, PgPcs, WaitPcs
    <2>4. QED BY <1>0, <2>1, <2>2, <2>3, Untouched, GoToKnown
  <1>3. CASE GetQuery(w)
    <2>1. /\ GoTo(w, "get_release") /\ UNCHANGED <<long_url, short_url, known>>
          /\ result' = [result EXCEPT ![w] = cache[short_url[w]]]
      BY <1>3 DEF GetQuery
    <2>2. result' = [result EXCEPT ![w] = result'[w]]
      BY <1>0, <2>1, Types
    <2>3. QED BY <1>0, <2>1, <2>2, Untouched, GoToKnown
  <1>4. CASE PostRehash(w) \/ StoreQuery(w)
    <2>1. ~known[w] /\ UNCHANGED <<long_url, known>>
      BY <1>0, <1>4 DEF PostRehash, StoreQuery, Known, KnownOf, TypeInv, Locals, LocalsOf, StorePcs
    <2>2. /\ \E label \in {"lookup_acquire", "store_release"} : GoTo(w, label)
          /\ \E r : result' = [result EXCEPT ![w] = r]
          /\ short_url' = short_url \/ \E c : short_url' = [short_url EXCEPT ![w] = c]
      BY <1>4 DEF PostRehash, StoreQuery, StoreDone, StoreSqlError, StoreLost, StoreRefused
    <2>3. /\ result' = [result EXCEPT ![w] = result'[w]]
          /\ short_url' = [short_url EXCEPT ![w] = short_url'[w]]
      BY <1>0, <2>2, Types
    <2>4. QED BY <1>0, <2>1, <2>2, <2>3, Untouched, GoToKnown
  <1>5. CASE SetThrows(w)
    BY <1>5 DEF SetThrows, Exit, Known, KnownOf
  <1>6. CASE LookupQuery(w)
    BY <1>6, LookupKnown
  <1>7. QED BY ONLY HandlerStep(w), <1>1, <1>2, <1>3, <1>4, <1>5, <1>6 DEF HandlerStep

\* A GET of a code that had been issued before the GET began is not answered
\* 404 unless its lookup failed: rows are replaced, and never removed.
THEOREM ShortenerIssuedNotLost == Spec => IssuedNotLost
  <1>1. Init => Known
    BY DEF Init, Known, KnownOf
  <1>2. ASSUME Inv, Known, [Next]_vars
        PROVE  Known'
    <2>1. CASE \E w \in Workers : RequestStep(w)
      BY <1>2, <2>1, RequestKnown
    <2>2. CASE \E w \in Workers : HandlerStep(w)
      BY <1>2, <2>2, StoredGrows, HandlerKnown
    <2>3. CASE Kill
      BY <2>3 DEF Kill, Exit, Known, KnownOf
    <2>4. CASE \/ \E c \in Codes : Evict(c)
               \/ \E c \in Codes, u \in Urls : LateUpsert(c, u)
               \/ Restart
               \/ UNCHANGED vars
      <3>1. UNCHANGED <<pc, long_url, short_url, result, known>>
        BY <2>4 DEF Evict, LateUpsert, Restart, vars, workerVars, requestVars
      <3>2. stored \subseteq stored'
        BY <1>2, StoredGrows
      <3>3. QED BY <1>2, <3>1, <3>2 DEF Known, KnownOf, IsPost
    <2>5. QED BY <1>2, <2>1, <2>2, <2>3, <2>4 DEF Next
  <1>3. ASSUME Inv, Known, [Next]_vars, NEW w \in Workers, Answers(w), known[w]
        PROVE  reply'[w].status # 404
    <2>1. TypeInv
      BY <1>3 DEF Inv
    <2>2. ~GetNotFound(w)
      BY <1>3 DEF GetNotFound, LookupRelease, Known, KnownOf
    <2>3. \E code \in {200, 302, 500} : \E url : Answer(w, code, url)
      BY <1>3, <2>1, <2>2, WhoAnswers
         DEF PostReuse, PostExhausted, PostStored, PostFailed, GetHit, GetFilled, AnswerPost
    <2>4. QED BY <2>1, <2>3, AnswerReply
  <1>4. Inv /\ Known /\ [Next]_vars =>
          [\A w \in Workers : Answers(w) /\ known[w] => reply'[w].status # 404]_vars
    BY <1>3
  <1>5. QED BY <1>1, <1>2, <1>4, ShortenerInv, PTL DEF Spec, IssuedNotLost

-----------------------------------------------------------------------------
(* The strong promise.  Rows never change, so the cache and what was       *)
(* issued agree with them, on one of two accounts.  Under a hash without   *)
(* collisions a row that exists holds the only URL its code can have, so a *)
(* second store writes what is there.  Where POSTs do not overlap and no   *)
(* lookup fails, a POST only stores under a code that has no row.          *)

\* A row holds the only URL that its code has ever been bound to.
OneUrl == \A c \in Codes, u \in Urls : <<c, u>> \in stored => db[c] = u

\* A row that exists holds the one URL its code can have.
LEMMA OnlyUrl ==
  ASSUME TypeInv, Prov, CollisionFree
  PROVE  OneUrl
  <1> SUFFICES ASSUME NEW c \in Codes, NEW u \in Urls, <<c, u>> \in stored
               PROVE  db[c] = u
    BY DEF OneUrl
  <1>1. /\ db[c] # None /\ db[c] \in Urls /\ <<c, db[c]>> \in stored
    BY Types DEF Prov, TableInv
  <1>2. Candidate(c, u) /\ Candidate(c, db[c])
    BY <1>1 DEF Prov, TableInv
  <1>3. QED BY <1>1, <1>2 DEF CollisionFree

\* Rows that never change agree with the cache and with what was issued.
LEMMA OneUrlCoherent ==
  ASSUME Inv, OneUrl
  PROVE  IssuedResolves /\ CacheCoherent
  <1>1. IssuedResolves
    <2>1. ASSUME NEW p \in issued PROVE db[p[1]] = p[2]
      <3>1. PICK c \in Codes, u \in Urls : p = <<c, u>>
        BY Types DEF Inv
      <3>2. <<c, u>> \in stored
        BY <3>1 DEF Inv, Prov, CacheInv
      <3>3. QED BY <3>1, <3>2 DEF OneUrl
    <2>2. QED BY <2>1 DEF IssuedResolves
  <1>2. CacheCoherent
    <2>1. ASSUME NEW c \in Codes, cache[c] # None PROVE cache[c] = db[c]
      <3>1. cache[c] \in Urls /\ <<c, cache[c]>> \in stored
        BY <2>1, Types DEF Inv, Prov, CacheInv
      <3>2. QED BY <3>1 DEF OneUrl
    <2>2. QED BY <2>1 DEF CacheCoherent
  <1>3. QED BY <1>1, <1>2

\* A row, once written, stays as it is.
RowsKept == \A c \in Codes : db[c] # None => db'[c] = db[c]

\* Where rows stay as they are, every step of the weak promise is one of the
\* strong one.
LEMMA NextStrong ==
  ASSUME Inv, OneUrl, RowsKept, [Service!WeakNext]_(Service!serviceVars)
  PROVE  [Service!Next]_(Service!serviceVars)
  <1> SUFFICES ASSUME Service!WeakNext
               PROVE  Service!Next \/ UNCHANGED Service!serviceVars
    OBVIOUS
  <1>1. PICK c \in Codes, u \in Urls : Service!Bind(c, u) \/ Service!Issue(c, u)
    BY DEF Service!WeakNext
  <1>2. CASE Service!Issue(c, u)
    BY <1>2 DEF OneUrl, Service!Issue, Service!Next
  <1>3. CASE Service!Bind(c, u) /\ db[c] = None
    BY <1>3 DEF Service!Next
  <1>4. CASE Service!Bind(c, u) /\ db[c] # None
    <2>1. db[c] \in Urls /\ <<c, db[c]>> \in stored /\ db \in [Codes -> Urls \cup {None}]
      BY <1>4, Types DEF Inv, Prov, TableInv
    <2>2. db[c] = u
      BY <1>4, <2>1 DEF RowsKept, Service!Bind
    <2>3. db' = db /\ stored' = stored /\ issued' = issued
      BY <1>4, <2>1, <2>2 DEF Service!Bind
    <2>4. QED BY <2>3 DEF Service!serviceVars
  <1>5. QED BY <1>1, <1>2, <1>3, <1>4

\* Under a hash without collisions an upsert of a row writes what is there.
LEMMA CollisionFreeKeeps ==
  ASSUME CollisionFree, Inv, [Service!WeakNext]_(Service!serviceVars)
  PROVE  RowsKept
  <1> SUFFICES ASSUME NEW d \in Codes, db[d] # None
               PROVE  db'[d] = db[d]
    BY DEF RowsKept
  <1>1. CASE UNCHANGED Service!serviceVars
    BY <1>1 DEF Service!serviceVars
  <1>2. ASSUME NEW c \in Codes, NEW u \in Urls, Service!Bind(c, u) \/ Service!Issue(c, u)
        PROVE  db'[d] = db[d]
    <2>1. db[d] \in Urls /\ Candidate(d, db[d]) /\ db \in [Codes -> Urls \cup {None}]
      BY Types DEF Inv, Prov, TableInv
    <2>2. CASE Service!Issue(c, u)
      BY <2>2 DEF Service!Issue
    <2>3. CASE Service!Bind(c, u)
      <3>1. Candidate(c, u) /\ db' = [db EXCEPT ![c] = u]
        BY <2>3 DEF Service!Bind
      <3>2. c = d => u = db[d]
        BY <2>1, <3>1 DEF CollisionFree
      <3>3. QED BY <2>1, <3>1, <3>2
    <2>4. QED BY <1>2, <2>2, <2>3
  <1>3. QED BY <1>1, <1>2 DEF Service!WeakNext

\* The service keeps the strong promise under a hash without collisions: it
\* binds a code once, whatever fails and however POSTs overlap.
THEOREM ShortenerKeepsStrongPromise ==
  ASSUME CollisionFree
  PROVE  Spec => KeepsStrongPromise
  <1>1. Inv /\ [Next]_vars => [Service!Next]_(Service!serviceVars)
    BY NextWeak, OnlyUrl, CollisionFreeKeeps, NextStrong DEF Inv
  <1>2. QED BY <1>1, InitWeak, ShortenerInv, PTL
            DEF Spec, KeepsStrongPromise, Service!Spec

-----------------------------------------------------------------------------
(* One POST at a time, under any hash.                                     *)

\* What a POST knows of the row that it looks up, until it has written it.
SeesOf(w) ==
  IsPost(w) =>
    /\ pc[w] = "lookup_release" => result[w] = db[short_url[w]]
    /\ pc[w] \in {"store_acquire", "store_query"} => db[short_url[w]] = None

Sees == \A w \in Workers : SeesOf(w)

\* A statement that a process left behind is the only one, and has no row yet.
LeftBehind ==
  /\ \A p, q \in in_flight : p = q
  /\ \A c \in Codes, u \in Urls : <<c, u>> \in in_flight => db[c] = None

SerialInv == OnePost /\ Sees /\ LeftBehind /\ AllReady

\* A step that leaves the table and the connections to PostgreSQL alone, and
\* of the workers changes only w.
Quiet(w) ==
  /\ UNCHANGED <<db, stored, in_flight, pg_state>>
  /\ \A v \in Workers \ {w} : /\ pc'[v] = pc[v] /\ result'[v] = result[v]
                              /\ long_url'[v] = long_url[v] /\ short_url'[v] = short_url[v]
  /\ SeesOf(w)'

\* The invariant holds after such a step.
LEMMA QuietKeeps ==
  ASSUME SerialInv, OnePost', NEW w \in Workers, Quiet(w)
  PROVE  SerialInv' /\ UNCHANGED <<db, stored>>
  <1>1. ASSUME NEW v \in Workers PROVE SeesOf(v)'
    BY DEF SerialInv, Sees, SeesOf, Quiet, IsPost
  <1>2. QED BY <1>1 DEF SerialInv, Sees, LeftBehind, AllReady, Quiet

\* A worker that answers has no POST any more.
LEMMA AnswerQuiet ==
  ASSUME TypeInv, NEW w \in Workers, NEW code, NEW url, Answer(w, code, url),
         UNCHANGED <<db, stored, in_flight, pg_state>>
  PROVE  Quiet(w)
  BY Types DEF Answer, GoTo, Quiet, SeesOf, IsPost

\* A worker that goes on has looked up what it goes on with.
LEMMA GoToQuiet ==
  ASSUME TypeInv, NEW w \in Workers, NEW label, GoTo(w, label),
         UNCHANGED <<db, stored, in_flight, pg_state>>,
         \A v \in Workers \ {w} : /\ result'[v] = result[v] /\ long_url'[v] = long_url[v]
                                  /\ short_url'[v] = short_url[v],
         label = "lookup_release" => result'[w] = db[short_url'[w]],
         label \in {"store_acquire", "store_query"} => db[short_url'[w]] = None
  PROVE  Quiet(w)
  BY Types DEF GoTo, Quiet, SeesOf

\* Only the statements of a POST write a row, and it is a new one.
RowAdded == \E c \in Codes, u \in Urls : db[c] = None /\ Upsert(c, u)

\* The steps of a request before and after its statements.
LEMMA HandlerQuiet ==
  ASSUME TypeInv, SerialInv, NEW w \in Workers,
         HandlerStep(w), ~StoreQuery(w), ~LookupQuery(w), ~SetThrows(w)
  PROVE  Quiet(w)
  <1> USE DEF requestVars, poolVars, dataVars
  <1>1. ASSUME \/ GetAcquire(w) \/ GetQuery(w) \/ GetThrows(w) \/ GetMiss(w)
               \/ LookupAcquire(w) \/ PostRehash(w) \/ GetFound(w)
               \/ SetAcquire(w) \/ SetQuery(w)
        PROVE  Quiet(w)
    <2>1. \E label \in {"get_query", "get_release", "lookup_acquire", "lookup_query",
                        "set_acquire", "set_query", "set_release"} : GoTo(w, label)
      BY <1>1 DEF GetAcquire, GetQuery, GetThrows, GetMiss, LookupAcquire, PostRehash,
                  GetFound, SetAcquire, SetQuery
    <2>2. UNCHANGED <<db, stored, in_flight, pg_state>>
      BY <1>1 DEF GetAcquire, GetQuery, GetThrows, GetMiss, LookupAcquire, PostRehash,
                  GetFound, SetAcquire, SetQuery, LookupRelease
    <2>3. \A v \in Workers \ {w} : /\ result'[v] = result[v] /\ long_url'[v] = long_url[v]
                                   /\ short_url'[v] = short_url[v]
      BY <1>1, Types DEF GetAcquire, GetQuery, GetThrows, GetMiss, LookupAcquire, PostRehash,
                         GetFound, SetAcquire, SetQuery
    <2>4. PICK label \in {"get_query", "get_release", "lookup_acquire", "lookup_query",
                          "set_acquire", "set_query", "set_release"} : GoTo(w, label)
      BY <2>1
    <2>5. label \notin {"lookup_release", "store_acquire", "store_query"}
      BY <2>4
    <2>6. QED BY <2>2, <2>3, <2>4, <2>5, GoToQuiet
  <1>2. ASSUME PostFree(w) \/ StoreAcquire(w)
        PROVE  Quiet(w)
    <2>1. SeesOf(w)
      BY DEF SerialInv, Sees
    <2>2. /\ db[short_url[w]] = None
          /\ UNCHANGED <<result, long_url, short_url, db, stored, in_flight, pg_state>>
          /\ GoTo(w, "store_acquire") \/ GoTo(w, "store_query")
      BY <1>2, <2>1 DEF PostFree, StoreAcquire, LookupRelease, SeesOf, TypeInv, Locals,
                        LocalsOf, StorePcs, IsPost
    <2>3. QED BY <2>2, GoToQuiet
  <1>3. ASSUME \/ PostReuse(w) \/ PostExhausted(w) \/ PostStored(w) \/ PostFailed(w)
               \/ GetHit(w) \/ GetFilled(w) \/ GetNotFound(w)
        PROVE  Quiet(w)
    <2>1. /\ \E code, url : Answer(w, code, url)
          /\ UNCHANGED <<db, stored, in_flight, pg_state>>
      BY <1>3 DEF PostReuse, PostExhausted, PostStored, PostFailed, GetHit, GetFilled,
                  GetNotFound, AnswerPost, LookupRelease
    <2>2. QED BY <2>1, AnswerQuiet
  <1>4. QED BY <1>1, <1>2, <1>3 DEF HandlerStep

\* The end of the process leaves the statement of the one POST behind, if any.
LEMMA ExitSerial ==
  ASSUME TypeInv, SerialInv, Exit, UNCHANGED <<db, stored>>
  PROVE  SerialInv'
  <1>1. PICK sent \in SUBSET {w \in Workers : pc[w] = "store_query"
                                           /\ pg_state[conn[w]] = "ready"} :
          in_flight' = in_flight \cup {<<short_url[w], long_url[w]>> : w \in sent}
    BY DEF Exit
  <1>2. \A w \in sent : /\ IsPost(w) /\ db[short_url[w]] = None /\ in_flight = {}
                        /\ \A v \in sent : v = w
    BY DEF TypeInv, Locals, LocalsOf, StorePcs, SerialInv, OnePost, Sees, SeesOf
  <1>3. \/ in_flight' = in_flight
        \/ \E w \in sent : /\ in_flight' = {<<short_url[w], long_url[w]>>}
                           /\ db[short_url[w]] = None
    BY <1>1, <1>2
  <1>4. LeftBehind'
    BY <1>3 DEF SerialInv, LeftBehind
  <1>5. /\ \A w \in Workers : ~IsPost(w)'
        /\ AllReady'
    BY DEF Exit, IsPost, AllReady
  <1>6. QED BY <1>4, <1>5 DEF SerialInv, OnePost, Sees, SeesOf

\* Where no lookup fails, the POST in progress sees the row as it is, and the
\* only rows that are written are new ones.
LEMMA NextSerial ==
  ASSUME TypeInv, SerialInv, Next, OnePost', AllReady'
  PROVE  SerialInv' /\ (RowAdded \/ UNCHANGED <<db, stored>>)
  <1> USE DEF requestVars, poolVars, dataVars
  <1>1. ASSUME NEW w \in Workers, RequestStep(w)
        PROVE  SerialInv' /\ UNCHANGED <<db, stored>>
    <2>1. UNCHANGED <<db, stored, in_flight, pg_state>>
      BY <1>1 DEF RequestStep, StartPost, StartGet, AnswerDirectly
    <2>2. CASE \E s \in {200, 404, 405} : AnswerDirectly(w, s)
      BY <2>1, <2>2, AnswerQuiet, QuietKeeps DEF AnswerDirectly
    <2>3. CASE (\E u \in Urls : StartPost(w, u)) \/ (\E c \in Codes : StartGet(w, c))
      <3>1. \E label \in {"lookup_acquire", "get_acquire"} : GoTo(w, label)
        BY <2>3 DEF StartPost, StartGet
      <3>2. \A v \in Workers \ {w} : /\ result'[v] = result[v] /\ long_url'[v] = long_url[v]
                                     /\ short_url'[v] = short_url[v]
        BY <2>3, Types DEF StartPost, StartGet
      <3>3. Quiet(w)
        BY <2>1, <3>1, <3>2, GoToQuiet
      <3>4. QED BY <3>3, QuietKeeps
    <2>4. QED BY <1>1, <2>2, <2>3 DEF RequestStep
  <1>2. ASSUME NEW w \in Workers, LookupQuery(w)
        PROVE  SerialInv' /\ UNCHANGED <<db, stored>>
    <2>1. conn[w] \in Conns /\ pg_state[conn[w]] = "ready"
      BY <1>2 DEF LookupQuery, TypeInv, Locals, LocalsOf, PgPcs, SerialInv, AllReady
    <2>2. LookupAnswered(w)
      <3>1. pg_state'[conn[w]] = "ready" /\ pg_state \in [Conns -> PgStates]
        BY <2>1 DEF AllReady, TypeInv, TypeOK
      <3>2. QED BY <1>2, <2>1, <3>1 DEF LookupQuery, LookupSqlError, LookupLost, LookupRefused
    <2>3. /\ result' = [result EXCEPT ![w] = db[short_url[w]]] /\ GoTo(w, "lookup_release")
          /\ UNCHANGED <<long_url, short_url, db, stored, in_flight, pg_state>>
      BY <1>2, <2>2 DEF LookupQuery, LookupAnswered
    <2>4. Quiet(w)
      BY <2>3, Types, GoToQuiet
    <2>5. QED BY <2>4, QuietKeeps
  <1>3. ASSUME NEW w \in Workers, StoreQuery(w)
        PROVE  SerialInv' /\ (RowAdded \/ UNCHANGED <<db, stored>>)
    <2>1. /\ conn[w] \in Conns /\ pg_state[conn[w]] = "ready" /\ IsPost(w)
          /\ short_url[w] \in Codes /\ long_url[w] \in Urls /\ db[short_url[w]] = None
      BY <1>3, Types DEF StoreQuery, TypeInv, Locals, LocalsOf, PgPcs, StorePcs, SerialInv,
                         AllReady, Sees, SeesOf, IsPost
    <2>2. CASE StoreDone(w)
      <3>1. Upsert(short_url[w], long_url[w]) /\ UNCHANGED <<pg_state, in_flight, long_url, short_url>>
        BY <1>3, <2>2 DEF StoreQuery, StoreDone
      <3>2. pc'[w] = "store_release" /\ \A v \in Workers \ {w} : ~IsPost(v)'
        BY <1>3, <2>1, <3>1, Types DEF StoreQuery, GoTo, SerialInv, OnePost, IsPost
      <3>3. Sees'
        BY <3>2 DEF Sees, SeesOf
      <3>4. in_flight' = {} /\ AllReady'
        BY <2>1, <3>1 DEF SerialInv, OnePost, AllReady
      <3>5. QED BY <2>1, <3>1, <3>3, <3>4 DEF SerialInv, LeftBehind, RowAdded
    <2>3. CASE StoreSqlError(w)
      <3>1. /\ result' = [result EXCEPT ![w] = None] /\ GoTo(w, "store_release")
            /\ UNCHANGED <<long_url, short_url, db, stored, in_flight, pg_state>>
        BY <1>3, <2>3 DEF StoreQuery, StoreSqlError
      <3>2. Quiet(w)
        BY <3>1, Types, GoToQuiet
      <3>3. QED BY <3>2, QuietKeeps
    <2>4. ~StoreLost(w) /\ ~StoreRefused(w)
      <3>1. pg_state'[conn[w]] = "ready" /\ pg_state \in [Conns -> PgStates]
        BY <2>1 DEF AllReady, TypeInv, TypeOK
      <3>2. QED BY <2>1, <3>1 DEF StoreLost, StoreRefused
    <2>5. QED BY <1>3, <2>2, <2>3, <2>4 DEF StoreQuery
  <1>4. ASSUME NEW w \in Workers, SetThrows(w)
        PROVE  SerialInv' /\ UNCHANGED <<db, stored>>
    BY <1>4, ExitSerial DEF SetThrows
  <1>5. ASSUME NEW w \in Workers, HandlerStep(w), ~LookupQuery(w), ~StoreQuery(w), ~SetThrows(w)
        PROVE  SerialInv' /\ UNCHANGED <<db, stored>>
    BY <1>5, HandlerQuiet, QuietKeeps
  <1>6. ASSUME NEW c \in Codes, NEW u \in Urls, LateUpsert(c, u)
        PROVE  SerialInv' /\ RowAdded
    <2>1. /\ <<c, u>> \in in_flight /\ in_flight' = in_flight \ {<<c, u>>} /\ Upsert(c, u)
          /\ UNCHANGED <<pc, result, long_url, short_url, pg_state>>
      BY <1>6 DEF LateUpsert, workerVars
    <2>2. in_flight' = {} /\ db[c] = None /\ \A w \in Workers : ~IsPost(w)
      BY <2>1 DEF SerialInv, OnePost, LeftBehind
    <2>3. QED BY <2>1, <2>2 DEF SerialInv, OnePost, Sees, SeesOf, LeftBehind, AllReady,
                                IsPost, RowAdded
  <1>7. CASE Kill
    BY <1>7, ExitSerial DEF Kill
  <1>8. CASE Restart \/ \E c \in Codes : Evict(c)
    <2>1. UNCHANGED <<pc, result, long_url, short_url, pg_state, db, stored, in_flight>>
      BY <1>8 DEF Restart, Evict, workerVars
    <2>2. QED BY <2>1 DEF SerialInv, OnePost, Sees, SeesOf, LeftBehind, AllReady, IsPost
  <1>9. QED BY <1>1, <1>2, <1>3, <1>4, <1>5, <1>6, <1>7, <1>8 DEF Next

\* A new row leaves the others as they are, and is the first of its code.
LEMMA RowAddedKeeps ==
  ASSUME Inv, OneUrl, RowAdded \/ UNCHANGED <<db, stored>>
  PROVE  RowsKept /\ OneUrl'
  <1>1. CASE UNCHANGED <<db, stored>>
    BY <1>1 DEF RowsKept, OneUrl
  <1>2. ASSUME NEW c \in Codes, NEW u \in Urls, db[c] = None, Upsert(c, u)
        PROVE  RowsKept /\ OneUrl'
    <2>1. \A d \in Codes : db'[d] = IF d = c THEN u ELSE db[d]
      BY <1>2, Types DEF Inv, Upsert
    <2>2. \A v \in Urls : <<c, v>> \notin stored
      BY <1>2 DEF Inv, Prov, TableInv
    <2>3. QED BY <1>2, <2>1, <2>2 DEF Upsert, RowsKept, OneUrl
  <1>3. QED BY <1>1, <1>2 DEF RowAdded

\* No row and no POST: the invariant holds at the start.
LEMMA InitSerial == Init => SerialInv /\ OneUrl
  BY DEF Init, SerialInv, OnePost, Sees, SeesOf, IsPost, LeftBehind, AllReady, OneUrl

\* The inductive invariant of such behaviours.
SerialRows == Inv /\ SerialInv /\ OneUrl

\* The step from one such state to the next.
LEMMA SerialStep ==
  ASSUME SerialRows, [Next]_vars, OnePost', AllReady'
  PROVE  SerialRows' /\ RowsKept
  <1>1. Inv'
    BY NextTypeInv, NextProv DEF SerialRows, Inv
  <1>2. CASE Next
    BY <1>1, <1>2, NextSerial, RowAddedKeeps DEF SerialRows, Inv
  <1>3. CASE UNCHANGED vars
    <2>1. UNCHANGED <<pc, result, long_url, short_url, pg_state, db, stored, in_flight>>
      BY <1>3 DEF vars, workerVars, requestVars, poolVars, dataVars
    <2>2. QED BY <1>1, <2>1 DEF SerialRows, SerialInv, OnePost, Sees, SeesOf, LeftBehind,
                               AllReady, IsPost, OneUrl, RowsKept
  <1>4. QED BY <1>2, <1>3

\* What StaysBound assumes of a state.
Undisturbed == OnePost /\ AllReady

\* Where it holds all along, so does the invariant.
LEMMA SerialInvariant == Spec /\ []Undisturbed => []SerialRows
  <1>1. Init => SerialRows
    BY InitTypeInv, InitProv, InitSerial DEF SerialRows, Inv
  <1>2. SerialRows /\ [Next]_vars /\ Undisturbed' => SerialRows'
    BY SerialStep DEF Undisturbed
  <1>3. QED BY <1>1, <1>2, PTL DEF Spec

\* No issued code is ever given away and no cached URL is ever stale where POSTs do
\* not overlap and lookups are answered, though URLs share codes, processes end
\* and statements come late: a row that could be replaced is not.
THEOREM ShortenerStaysBound == Spec => StaysBound
  <1>1. SerialRows => IssuedResolves /\ CacheCoherent
    BY OneUrlCoherent DEF SerialRows
  <1>2. Undisturbed <=> OnePost /\ AllReady
    BY DEF Undisturbed
  <1>3. QED BY <1>1, <1>2, SerialInvariant, PTL DEF StaysBound

\* And the service then keeps the strong promise.
THEOREM ShortenerSerialPromise == Spec /\ [](OnePost /\ AllReady) => KeepsStrongPromise
  <1>1. SerialRows /\ [Next]_vars /\ Undisturbed' => [Service!Next]_(Service!serviceVars)
    <2>1. SerialRows /\ [Next]_vars => [Service!WeakNext]_(Service!serviceVars)
      BY NextWeak DEF SerialRows, Inv
    <2>2. QED BY <2>1, SerialStep, NextStrong DEF SerialRows, Undisturbed
  <1>2. Undisturbed <=> OnePost /\ AllReady
    BY DEF Undisturbed
  <1>3. QED BY <1>1, <1>2, InitWeak, SerialInvariant, PTL
            DEF Spec, KeepsStrongPromise, Service!Spec

-----------------------------------------------------------------------------
(* The codes.  digits, which calls itself, is a function of every number;  *)
(* what encode keeps of a number then follows from its digits one by one.  *)

\* A set of natural numbers that is not empty has a least one.
LEMMA LeastNumber ==
  ASSUME NEW S \in SUBSET Nat, S # {}
  PROVE  \E x \in S : \A y \in S : x <= y
  <1>1. PICK x \in S : \A y \in S : ~(<<y, x>> \in OpToRel(<, Nat))
    BY NatLessThanWellFounded, WFMin
  <1>2. \A y \in S : ~(y < x)
    BY <1>1 DEF OpToRel
  <1>3. QED BY <1>2

-----------------------------------------------------------------------------
(* Arithmetic of a base.                                                   *)

\* A quotient and a remainder are the ones of the division.
LEMMA DivisionIs ==
  ASSUME NEW a \in Nat \ {0}, NEW q \in Int, NEW r \in Nat, r < a
  PROVE  (a * q + r) \div a = q /\ (a * q + r) % a = r
  BY Z3

\* Every number is its quotient's multiple and the remainder.
LEMMA Division ==
  ASSUME NEW k \in Nat, NEW a \in Nat \ {0}
  PROVE  \E q \in Nat, r \in Nat : k = a * q + r /\ r < a /\ k \div a = q /\ k % a = r
  <1>1. PICK q \in Int, r \in Int : q = k \div a /\ r = k % a
    OBVIOUS
  <1>2. r \in 0..(a - 1) /\ k = a * q + r
    BY <1>1, Z3
  <1>3. q >= 0
    <2>1. SUFFICES ASSUME q <= -1 PROVE FALSE
      BY <1>1
    <2>2. a * q <= a * (-1)
      BY <1>1, <2>1, Z3
    <2>3. QED BY <1>1, <1>2, <2>2
  <1>4. QED BY <1>1, <1>2, <1>3

\* Dividing twice is dividing by the product.
LEMMA DividedTwice ==
  ASSUME NEW k \in Nat, NEW a \in Nat \ {0}, NEW b \in Nat \ {0}
  PROVE  (k \div a) \div b = k \div (a * b)
  <1>1. PICK q \in Nat, r \in Nat : k = a * q + r /\ r < a /\ k \div a = q
    BY Division
  <1>2. PICK p \in Nat, s \in Nat : q = b * p + s /\ s < b /\ q \div b = p
    BY Division
  <1>3. a * b \in Nat \ {0} /\ a * s + r \in Nat
    BY <1>1, <1>2, Z3
  <1>4. a * s + r < a * b
    <2>1. a * s + a <= a * b
      BY <1>1, <1>2, Z3
    <2>2. QED BY <1>1, <1>3, <2>1
  <1>5. k = (a * b) * p + (a * s + r)
    BY <1>1, <1>2, Z3
  <1>6. k \div (a * b) = p
    <2>1. PICK c \in Nat \ {0}, t \in Nat : c = a * b /\ t = a * s + r
      BY <1>3
    <2>2. t < c /\ k = c * p + t
      BY <1>4, <1>5, <2>1
    <2>3. k \div c = p
      BY <2>2, DivisionIs
    <2>4. QED BY <2>1, <2>3
  <1>7. QED BY <1>1, <1>2, <1>6
-----------------------------------------------------------------------------
(* The two functions of module Base62 are defined for every number: each    *)
(* value from smaller ones, and so, up to any bound, in just one way.       *)

PowerStep(f, k) == IF k = 0 THEN 1 ELSE BASE * f[k - 1]

PowerUpTo(n, f) == f = [k \in 0..n |-> PowerStep(f, k)]

\* The powers up to any exponent.
LEMMA PowerExists ==
  ASSUME NEW n \in Nat
  PROVE  \E f : PowerUpTo(n, f)
  <1> DEFINE bad == {k \in Nat : ~ \E f : PowerUpTo(k, f)}
  <1>1. SUFFICES ASSUME bad # {}
                 PROVE  FALSE
    OBVIOUS
  <1>2. PICK k \in bad : \A j \in bad : k <= j
    BY <1>1, LeastNumber
  <1>3. CASE k = 0
    <2> DEFINE f == [j \in 0..0 |-> 1]
    <2>1. PowerUpTo(0, f)
      BY DEF PowerUpTo, PowerStep
    <2>2. QED BY <1>2, <1>3, <2>1
  <1>4. CASE k # 0
    <2>1. k - 1 \in Nat /\ k - 1 \notin bad
      BY <1>2, <1>4
    <2>2. PICK g : g = [j \in 0..(k - 1) |-> PowerStep(g, j)]
      BY <2>1 DEF PowerUpTo
    <2> DEFINE f == [j \in 0..k |-> IF j = k THEN PowerStep(g, k) ELSE g[j]]
    <2>3. ASSUME NEW j \in 0..k
          PROVE  f[j] = PowerStep(f, j)
      <3>1. j # 0 => f[j - 1] = g[j - 1]
        <4>1. j # 0 => j - 1 \in 0..k /\ j - 1 # k
          BY <1>2
        <4>2. QED BY <4>1
      <3>2. PowerStep(f, j) = PowerStep(g, j)
        BY <3>1 DEF PowerStep
      <3>3. j # k => j \in 0..(k - 1)
        BY <1>2
      <3>4. j # k => g[j] = PowerStep(g, j)
        BY <2>2, <3>3
      <3>5. QED BY <3>2, <3>4
    <2>4. PowerUpTo(k, f)
      <3>1. f = [j \in 0..k |-> f[j]]
        OBVIOUS
      <3> HIDE DEF f
      <3>2. QED BY <2>3, <3>1 DEF PowerUpTo
    <2>5. QED BY <1>2, <2>4
  <1>5. QED BY <1>3, <1>4

\* Two functions of powers agree as far as both go.
LEMMA PowerUnique ==
  ASSUME NEW m \in Nat, NEW n \in Nat, m <= n, NEW f, NEW g,
         PowerUpTo(m, f), PowerUpTo(n, g)
  PROVE  f[m] = g[m]
  <1> DEFINE bad == {k \in 0..m : f[k] # g[k]}
  <1>1. SUFFICES ASSUME bad # {}
                 PROVE  FALSE
    OBVIOUS
  <1>2. PICK k \in bad : \A j \in bad : k <= j
    <2>1. bad \in SUBSET Nat
      OBVIOUS
    <2>2. QED BY <1>1, <2>1, LeastNumber
  <1>3. f[k] = PowerStep(f, k) /\ g[k] = PowerStep(g, k)
    <2>1. k \in 0..m /\ k \in 0..n
      BY <1>2
    <2>2. QED BY <2>1 DEF PowerUpTo
  <1>4. k # 0 => f[k - 1] = g[k - 1]
    <2>1. k # 0 => k - 1 \in 0..m /\ k - 1 \notin bad
      BY <1>2
    <2>2. QED BY <2>1
  <1>5. PowerStep(f, k) = PowerStep(g, k)
    BY <1>4 DEF PowerStep
  <1>6. QED BY <1>2, <1>3, <1>5

\* What power computes.
LEMMA PowerIs ==
  ASSUME NEW k \in Nat
  PROVE  power[k] = PowerStep(power, k)
  <1> DEFINE upTo(n) == CHOOSE f : PowerUpTo(n, f)
  <1> DEFINE g == [n \in Nat |-> upTo(n)[n]]
  <1>1. \A n \in Nat : PowerUpTo(n, upTo(n))
    BY PowerExists
  <1>2. ASSUME NEW n \in Nat
        PROVE  g[n] = PowerStep(g, n)
    <2>1. upTo(n)[n] = PowerStep(upTo(n), n)
      <3>1. PICK f : f = upTo(n) /\ PowerUpTo(n, f)
        BY <1>1
      <3>2. f[n] = PowerStep(f, n)
        BY <3>1 DEF PowerUpTo
      <3>3. QED BY <3>1, <3>2
    <2>2. n # 0 => upTo(n)[n - 1] = g[n - 1]
      <3>1. CASE n # 0
        <4>1. n - 1 \in Nat /\ n - 1 <= n
          BY <3>1
        <4>2. PICK f, h : f = upTo(n - 1) /\ h = upTo(n) /\ PowerUpTo(n - 1, f) /\ PowerUpTo(n, h)
          BY <1>1, <4>1
        <4>3. f[n - 1] = h[n - 1]
          BY <4>1, <4>2, PowerUnique
        <4>4. QED BY <4>1, <4>2, <4>3
      <3>2. QED BY <3>1
    <2>3. PowerStep(upTo(n), n) = PowerStep(g, n)
      BY <2>2 DEF PowerStep
    <2>4. QED BY <2>1, <2>3
  <1>3. g = [n \in Nat |-> PowerStep(g, n)]
    <2>1. g = [n \in Nat |-> g[n]]
      OBVIOUS
    <2> HIDE DEF g
    <2>2. QED BY <1>2, <2>1
  <1>4. power = CHOOSE f : f = [n \in Nat |-> PowerStep(f, n)]
    BY DEF power, PowerStep
  <1> HIDE DEF g
  <1>5. power = [n \in Nat |-> PowerStep(power, n)]
    BY <1>3, <1>4
  <1>6. QED BY <1>5

\* Dividing by the base makes a number smaller.
LEMMA QuotientSmaller ==
  ASSUME NEW n \in Nat
  PROVE  /\ n \div BASE \in Nat /\ n \div BASE <= n
         /\ n # 0 => n \div BASE \in 0..(n - 1)
         /\ n % BASE \in 0..(BASE - 1)
  <1>1. PICK b \in Nat \ {0} : b = BASE /\ 2 <= b
    BY Base62Assumption
  <1>2. PICK q \in Nat, r \in Nat : n = b * q + r /\ r < b /\ n \div b = q /\ n % b = r
    BY Division
  <1>3. 2 * q <= b * q /\ b * q \in Nat
    BY <1>1, <1>2, Z3
  <1>4. q <= n /\ (n # 0 => q < n)
    <2>1. PICK p \in Nat : p = b * q
      BY <1>3
    <2>2. 2 * q <= p /\ n = p + r
      BY <1>2, <1>3, <2>1
    <2>3. QED BY <2>2
  <1>5. q \in Nat /\ q <= n /\ (n # 0 => q \in 0..(n - 1)) /\ r \in 0..(b - 1)
    BY <1>2, <1>4
  <1>6. n \div BASE = q /\ n % BASE = r /\ BASE = b
    BY <1>1, <1>2
  <1>7. QED BY ONLY <1>5, <1>6

DigitsStep(f, n) == IF n = 0 THEN <<>> ELSE <<n % BASE>> \o f[n \div BASE]

DigitsUpTo(n, f) == f = [k \in 0..n |-> DigitsStep(f, k)]

\* The digits of the numbers up to any bound.
LEMMA DigitsExist ==
  ASSUME NEW n \in Nat
  PROVE  \E f : DigitsUpTo(n, f)
  <1> DEFINE bad == {k \in Nat : ~ \E f : DigitsUpTo(k, f)}
  <1>1. SUFFICES ASSUME bad # {}
                 PROVE  FALSE
    OBVIOUS
  <1>2. PICK k \in bad : \A j \in bad : k <= j
    BY <1>1, LeastNumber
  <1>3. CASE k = 0
    <2> DEFINE f == [j \in 0..0 |-> <<>>]
    <2>1. \A j \in 0..0 : DigitsStep(f, j) = <<>>
      BY DEF DigitsStep
    <2>2. f = [j \in 0..0 |-> DigitsStep(f, j)]
      BY <2>1
    <2>3. DigitsUpTo(0, f)
      BY <2>2 DEF DigitsUpTo
    <2>4. QED BY <1>2, <1>3, <2>3
  <1>4. CASE k # 0
    <2>1. k - 1 \in Nat /\ k - 1 \notin bad
      BY <1>2, <1>4
    <2>2. PICK g : g = [j \in 0..(k - 1) |-> DigitsStep(g, j)]
      BY <2>1 DEF DigitsUpTo
    <2> DEFINE f == [j \in 0..k |-> IF j = k THEN DigitsStep(g, k) ELSE g[j]]
    <2>3. ASSUME NEW j \in 0..k
          PROVE  f[j] = DigitsStep(f, j)
      <3>1. j # 0 => f[j \div BASE] = g[j \div BASE]
        <4>1. PICK q : q = j \div BASE
          OBVIOUS
        <4>2. j # 0 => q \in 0..k /\ q # k
          BY <1>2, <4>1, QuotientSmaller
        <4>3. j # 0 => f[q] = g[q]
          BY <4>2
        <4>4. QED BY <4>1, <4>3
      <3>2. DigitsStep(f, j) = DigitsStep(g, j)
        BY <3>1 DEF DigitsStep
      <3>3. j # k => j \in 0..(k - 1)
        BY <1>2
      <3>4. j # k => g[j] = DigitsStep(g, j)
        BY <2>2, <3>3
      <3>5. QED BY <3>2, <3>4
    <2>4. DigitsUpTo(k, f)
      <3>1. f = [j \in 0..k |-> f[j]]
        OBVIOUS
      <3> HIDE DEF f
      <3>2. QED BY <2>3, <3>1 DEF DigitsUpTo
    <2>5. QED BY <1>2, <2>4
  <1>5. QED BY <1>3, <1>4

\* Two functions of digits agree as far as both go.
LEMMA DigitsUnique ==
  ASSUME NEW m \in Nat, NEW n \in Nat, m <= n, NEW f, NEW g,
         DigitsUpTo(m, f), DigitsUpTo(n, g)
  PROVE  f[m] = g[m]
  <1> DEFINE bad == {k \in 0..m : f[k] # g[k]}
  <1>1. SUFFICES ASSUME bad # {}
                 PROVE  FALSE
    OBVIOUS
  <1>2. PICK k \in bad : \A j \in bad : k <= j
    <2>1. bad \in SUBSET Nat
      OBVIOUS
    <2>2. QED BY <1>1, <2>1, LeastNumber
  <1>3. f[k] = DigitsStep(f, k) /\ g[k] = DigitsStep(g, k)
    <2>1. k \in 0..m /\ k \in 0..n
      BY <1>2
    <2>2. QED BY <2>1 DEF DigitsUpTo
  <1>4. k # 0 => f[k \div BASE] = g[k \div BASE]
    <2>1. PICK q : q = k \div BASE
      OBVIOUS
    <2>2. k # 0 => q \in 0..m /\ q < k
      BY <1>2, <2>1, QuotientSmaller
    <2>3. k # 0 => f[q] = g[q]
      BY <1>2, <2>2
    <2>4. QED BY <2>1, <2>3
  <1>5. DigitsStep(f, k) = DigitsStep(g, k)
    BY <1>4 DEF DigitsStep
  <1>6. QED BY <1>2, <1>3, <1>5

\* What digits computes.
LEMMA DigitsAre ==
  ASSUME NEW n \in Nat
  PROVE  digits[n] = DigitsStep(digits, n)
  <1> DEFINE upTo(k) == CHOOSE f : DigitsUpTo(k, f)
  <1> DEFINE g == [k \in Nat |-> upTo(k)[k]]
  <1>1. \A k \in Nat : DigitsUpTo(k, upTo(k))
    BY DigitsExist
  <1>2. ASSUME NEW k \in Nat
        PROVE  g[k] = DigitsStep(g, k)
    <2>1. PICK h : h = upTo(k) /\ DigitsUpTo(k, h)
      BY <1>1
    <2>2. h[k] = DigitsStep(h, k)
      BY <2>1 DEF DigitsUpTo
    <2>3. k # 0 => h[k \div BASE] = g[k \div BASE]
      <3>1. PICK q \in Nat : q = k \div BASE /\ q <= k
        BY QuotientSmaller
      <3>2. PICK f : f = upTo(q) /\ DigitsUpTo(q, f)
        BY <1>1
      <3>3. f[q] = h[q]
        <4>1. DigitsUpTo(q, f) /\ DigitsUpTo(k, h) /\ q <= k
          BY <2>1, <3>1, <3>2
        <4>2. QED BY ONLY <4>1, DigitsUnique
      <3>4. QED BY <3>1, <3>2, <3>3
    <2>4. DigitsStep(h, k) = DigitsStep(g, k)
      BY <2>3 DEF DigitsStep
    <2>5. g[k] = h[k]
      BY <2>1
    <2>6. QED BY <2>2, <2>4, <2>5
  <1>3. g = [k \in Nat |-> DigitsStep(g, k)]
    <2>1. g = [k \in Nat |-> g[k]]
      OBVIOUS
    <2> HIDE DEF g
    <2>2. QED BY <1>2, <2>1
  <1>4. digits = CHOOSE f : f = [k \in Nat |-> DigitsStep(f, k)]
    BY DEF digits, DigitsStep
  <1> HIDE DEF g
  <1>5. digits = [k \in Nat |-> DigitsStep(digits, k)]
    BY <1>3, <1>4
  <1>6. QED BY <1>5

-----------------------------------------------------------------------------
(* Powers.                                                                 *)

\* One power and the next.
LEMMA PowerNext ==
  ASSUME NEW k \in Nat
  PROVE  power[0] = 1 /\ power[k + 1] = BASE * power[k]
  <1>1. power[0] = 1
    BY PowerIs DEF PowerStep
  <1>2. PICK j \in Nat : j = k + 1 /\ j # 0 /\ j - 1 = k
    OBVIOUS
  <1>3. power[j] = BASE * power[j - 1]
    BY <1>2, PowerIs DEF PowerStep
  <1>4. QED BY <1>1, <1>2, <1>3

\* Every power is a positive number.
LEMMA PowerType ==
  ASSUME NEW k \in Nat
  PROVE  power[k] \in Nat \ {0}
  <1> DEFINE bad == {j \in Nat : power[j] \notin Nat \ {0}}
  <1>1. SUFFICES ASSUME bad # {}
                 PROVE  FALSE
    OBVIOUS
  <1>2. PICK j \in bad : \A i \in bad : j <= i
    BY <1>1, LeastNumber
  <1>3. j # 0
    BY <1>2, PowerNext
  <1>4. PICK i \in Nat : j = i + 1 /\ i \notin bad
    <2>1. j - 1 \in Nat /\ j = (j - 1) + 1 /\ j - 1 \notin bad
      BY <1>2, <1>3
    <2>2. QED BY <2>1
  <1>5. PICK b \in Nat \ {0}, p \in Nat \ {0} : b = BASE /\ p = power[i]
    BY <1>4, Base62Assumption
  <1>6. b * p \in Nat \ {0}
    BY Z3
  <1>7. power[j] = b * p
    BY <1>4, <1>5, PowerNext
  <1>8. QED BY <1>2, <1>6, <1>7

\* Powers multiply by adding their exponents.
LEMMA PowerAdds ==
  ASSUME NEW k \in Nat, NEW m \in Nat
  PROVE  power[k + m] = power[k] * power[m]
  <1> DEFINE bad == {j \in Nat : power[k + j] # power[k] * power[j]}
  <1>1. SUFFICES ASSUME bad # {}
                 PROVE  FALSE
    OBVIOUS
  <1>2. PICK j \in bad : \A i \in bad : j <= i
    BY <1>1, LeastNumber
  <1>3. PICK x \in Nat : x = power[k]
    BY PowerType
  <1>4. j # 0
    <2>1. power[k + 0] = power[k] * power[0]
      BY <1>3, PowerNext
    <2>2. QED BY <1>2, <2>1
  <1>5. PICK i \in Nat : j = i + 1 /\ i \notin bad
    <2>1. j - 1 \in Nat /\ j = (j - 1) + 1 /\ j - 1 \notin bad
      BY <1>2, <1>4
    <2>2. QED BY <2>1
  <1>6. PICK b \in Nat, y \in Nat : b = BASE /\ y = power[i]
    BY Base62Assumption, PowerType
  <1>7. PICK n \in Nat : n = k + i /\ k + j = n + 1
    BY <1>5
  <1>8. power[n] = x * y
    BY <1>3, <1>5, <1>6, <1>7
  <1>9. power[n + 1] = b * (x * y) /\ power[j] = b * y
    BY <1>5, <1>6, <1>8, PowerNext
  <1>10. b * (x * y) = x * (b * y)
    BY Z3
  <1>11. power[k + j] = power[k] * power[j]
    BY <1>3, <1>7, <1>9, <1>10
  <1>12. QED BY <1>2, <1>11

\* A smaller exponent's power is a proper divisor of a greater one's.
LEMMA PowerDivides ==
  ASSUME NEW k \in Nat, NEW m \in Nat, k < m
  PROVE  \E c \in Nat \ {0} : power[m] = power[k] * (BASE * c)
  <1>1. PICK j \in Nat, i \in Nat : j = i + 1 /\ m = k + j
    <2>1. m - k - 1 \in Nat /\ m - k \in Nat /\ m - k = (m - k - 1) + 1 /\ m = k + (m - k)
      OBVIOUS
    <2>2. QED BY <2>1
  <1>2. power[m] = power[k] * power[j] /\ power[j] = BASE * power[i] /\ power[i] \in Nat \ {0}
    BY <1>1, PowerAdds, PowerNext, PowerType
  <1>3. QED BY <1>2

\* Powers grow with their exponents, at least by the base.
LEMMA PowerGrows ==
  ASSUME NEW k \in Nat, NEW m \in Nat, k < m
  PROVE  power[k] < power[m] /\ BASE * power[k] <= power[m]
  <1>1. PICK c \in Nat \ {0} : power[m] = power[k] * (BASE * c)
    BY PowerDivides
  <1>2. PICK b \in Nat, x \in Nat \ {0}, y \in Nat \ {0} : b = BASE /\ 2 <= b /\ x = power[k] /\ y = power[m]
    BY Base62Assumption, PowerType
  <1>3. y = x * (b * c)
    BY <1>1, <1>2
  <1>4. y = (b * x) * c /\ b * x \in Nat /\ 2 * x <= b * x
    BY <1>2, <1>3, Z3
  <1>5. b * x <= y
    <2>1. PICK z \in Nat : z = b * x
      BY <1>4
    <2>2. z <= z * c
      BY Z3
    <2>3. QED BY <1>4, <2>1, <2>2
  <1>6. x < y
    BY <1>4, <1>5, <1>2
  <1>7. QED BY <1>2, <1>5, <1>6

-----------------------------------------------------------------------------
(* The digits of a number, one by one.                                     *)

Digit(k, i) == (k \div power[i]) % BASE

\* A digit is a digit.
LEMMA DigitType ==
  ASSUME NEW k \in Nat, NEW i \in Nat
  PROVE  Digit(k, i) \in Digits
  <1>1. PICK p \in Nat \ {0}, q \in Nat : p = power[i] /\ k \div p = q
    BY PowerType, Division
  <1>2. q % BASE \in 0..(BASE - 1)
    BY QuotientSmaller
  <1>3. QED BY <1>1, <1>2 DEF Digit, Digits

\* The lowest digit of a number, and the ones above it.
LEMMA DigitShift ==
  ASSUME NEW n \in Nat, NEW i \in Nat
  PROVE  Digit(n, 0) = n % BASE /\ Digit(n, i + 1) = Digit(n \div BASE, i)
  <1>1. PICK b \in Nat \ {0}, x \in Nat \ {0} : b = BASE /\ x = power[i]
    BY Base62Assumption, PowerType
  <1>2. power[0] = 1 /\ n \div 1 = n
    BY PowerNext
  <1>3. power[i + 1] = b * x
    BY <1>1, PowerNext
  <1>4. (n \div b) \div x = n \div (b * x)
    BY DividedTwice
  <1>5. QED BY <1>1, <1>2, <1>3, <1>4 DEF Digit

\* d holds the m digits of n, the lowest first.
IsWritten(n, d, m) ==
  /\ d \in Seq(Digits) /\ m = Len(d)
  /\ n < power[m]
  /\ n = 0 => m = 0
  /\ n # 0 => m # 0 /\ power[m - 1] <= n
  /\ \A i \in 1..m : d[i] = Digit(n, i - 1)

\* The digits of 0.
LEMMA ZeroWritten == digits[0] = <<>> /\ IsWritten(0, digits[0], 0)
  <1>1. digits[0] = <<>>
    BY DigitsAre DEF DigitsStep
  <1>2. power[0] = 1
    BY PowerNext
  <1>3. IsWritten(0, <<>>, 0)
    <2>1. <<>> \in Seq(Digits) /\ 0 = Len(<<>>)
      OBVIOUS
    <2>2. \A i \in 1..0 : FALSE
      OBVIOUS
    <2>3. 0 < power[0]
      BY <1>2
    <2>4. QED BY ONLY <2>1, <2>2, <2>3 DEF IsWritten
  <1>4. QED BY <1>1, <1>3

\* The digits of the quotient are those above the lowest one.
LEMMA QuotientWritten ==
  ASSUME NEW n \in Nat, n # 0, NEW q \in Nat, q = n \div BASE, NEW d, NEW m \in Nat, IsWritten(q, d, m)
  PROVE  IsWritten(n, <<n % BASE>> \o d, m + 1)
  <1>1. PICK b \in Nat \ {0}, x \in Nat \ {0}, r \in Nat :
          b = BASE /\ x = power[m] /\ n = b * q + r /\ r < b /\ n % b = r
    <2>1. PICK b \in Nat \ {0}, x \in Nat \ {0} : b = BASE /\ x = power[m]
      BY Base62Assumption, PowerType
    <2>2. PICK p \in Nat, r \in Nat : n = b * p + r /\ r < b /\ n \div b = p /\ n % b = r
      BY Division
    <2>3. p = q
      BY <2>1, <2>2
    <2>4. QED BY <2>1, <2>2, <2>3
  <1>2. d \in Seq(Digits) /\ m = Len(d) /\ q < x
    BY <1>1 DEF IsWritten
  <1>3. r \in Digits
    BY <1>1 DEF Digits
  <1>4. <<r>> \in Seq(Digits) /\ Len(<<r>>) = 1 /\ <<r>>[1] = r
    BY <1>3
  <1>5. PICK e : e = <<r>> \o d
    OBVIOUS
  <1>6. e \in Seq(Digits) /\ Len(e) = m + 1 /\ e[1] = r /\ \A i \in 1..m : e[i + 1] = d[i]
    BY <1>2, <1>4, <1>5, ConcatProperties
  <1>7. n < power[m + 1]
    <2>1. b * q + b <= b * x
      BY <1>1, <1>2, Z3
    <2>2. power[m + 1] = b * x
      BY <1>1, PowerNext
    <2>3. PICK y \in Nat, z \in Nat : y = b * q /\ z = b * x
      BY <1>1
    <2>4. y + b <= z /\ n = y + r
      BY <1>1, <2>1, <2>3
    <2>5. r < b
      BY <1>1
    <2>6. n < z
      BY <2>4, <2>5
    <2>7. QED BY <2>2, <2>3, <2>6
  <1>8. power[m] <= n
    <2>1. CASE q = 0
      <3>1. m = 0
        BY <2>1 DEF IsWritten
      <3>2. power[m] = 1
        BY <3>1, PowerNext
      <3>3. QED BY <3>2
    <2>2. CASE q # 0
      <3>1. PICK j \in Nat : m = j + 1 /\ power[j] <= q
        <4>1. m # 0 /\ power[m - 1] <= q
          BY <2>2 DEF IsWritten
        <4>2. m - 1 \in Nat /\ m = (m - 1) + 1
          BY <4>1
        <4>3. QED BY <4>1, <4>2
      <3>2. PICK w \in Nat : w = power[j]
        BY PowerType
      <3>3. power[m] = b * w /\ w <= q
        BY <1>1, <3>1, <3>2, PowerNext
      <3>4. b * w <= b * q /\ b * w \in Nat /\ b * q \in Nat
        BY <3>3, Z3
      <3>5. b * w <= n
        BY <1>1, <3>4
      <3>6. QED BY <3>3, <3>5
    <2>3. QED BY <2>1, <2>2
  <1>9. \A i \in 1..(m + 1) : e[i] = Digit(n, i - 1)
    <2>1. TAKE i \in 1..(m + 1)
    <2>2. CASE i = 1
      <3>1. e[1] = r /\ Digit(n, 0) = r
        BY <1>1, <1>6, DigitShift
      <3>2. QED BY <2>2, <3>1
    <2>3. CASE i # 1
      <3>1. PICK j \in 1..m, k \in Nat : i = j + 1 /\ j = k + 1
        <4>1. i - 1 \in 1..m /\ i = (i - 1) + 1 /\ i - 2 \in Nat /\ i - 1 = (i - 2) + 1
          BY <2>3
        <4>2. QED BY <4>1
      <3>2. e[i] = d[j]
        BY <1>6, <3>1
      <3>3. d[j] = Digit(q, j - 1)
        BY DEF IsWritten
      <3>4. Digit(q, k) = Digit(n, k + 1)
        BY DigitShift
      <3>5. j - 1 = k /\ i - 1 = k + 1
        BY <3>1
      <3>6. QED BY <3>2, <3>3, <3>4, <3>5
    <2>4. QED BY <2>2, <2>3
  <1>10. e = <<n % BASE>> \o d
    BY <1>1, <1>5
  <1>11. IsWritten(n, e, m + 1)
    <2>1. m + 1 = Len(e) /\ m + 1 # 0 /\ (m + 1) - 1 = m
      BY <1>6
    <2>2. e \in Seq(Digits) /\ n # 0
      BY <1>6
    <2>3. QED BY ONLY <1>7, <1>8, <1>9, <2>1, <2>2 DEF IsWritten
  <1>12. QED BY <1>10, <1>11

\* What the loop of base62_encode computes, for every number.
LEMMA Written ==
  ASSUME NEW n \in Nat
  PROVE  \E m \in Nat : IsWritten(n, digits[n], m)
  <1> DEFINE bad == {k \in Nat : ~ \E m \in Nat : IsWritten(k, digits[k], m)}
  <1>1. SUFFICES ASSUME bad # {}
                 PROVE  FALSE
    OBVIOUS
  <1>2. PICK k \in bad : \A j \in bad : k <= j
    BY <1>1, LeastNumber
  <1>3. k # 0
    BY <1>2, ZeroWritten
  <1>4. PICK q \in Nat : q = k \div BASE /\ q \notin bad
    <2>1. k \div BASE \in Nat /\ k \div BASE < k
      <3>1. PICK p : p = k \div BASE
        OBVIOUS
      <3>2. p \in 0..(k - 1)
        BY <1>2, <1>3, <3>1, QuotientSmaller
      <3>3. p \in Nat /\ p < k
        BY <1>2, <3>2
      <3>4. QED BY <3>1, <3>3
    <2>2. QED BY <1>2, <2>1
  <1>5. PICK m \in Nat : IsWritten(q, digits[q], m)
    BY <1>4
  <1>6. IsWritten(k, <<k % BASE>> \o digits[q], m + 1)
    BY <1>2, <1>3, <1>4, <1>5, QuotientWritten
  <1>7. digits[k] = <<k % BASE>> \o digits[q]
    BY <1>2, <1>3, <1>4, DigitsAre DEF DigitsStep
  <1>8. m + 1 \in Nat
    OBVIOUS
  <1>9. QED BY <1>2, <1>6, <1>7, <1>8

-----------------------------------------------------------------------------
(* The code of a number that has room in one.                              *)

LowDigits(k) == [i \in 1..SHORT_URL_LENGTH |-> Digit(k, i - 1)]

\* Numbers with the same digits from one place on.
SameFrom(j, k, m) == k \div power[j] = m \div power[j]

\* Two numbers with room in a code have it only when they are the same.
LEMMA LowDigitsDiffer ==
  ASSUME NEW k \in Nat, NEW m \in Nat, k < Room, m < Room, LowDigits(k) = LowDigits(m)
  PROVE  k = m
  <1>1. PICK len \in Nat : len = SHORT_URL_LENGTH
    BY Base62Assumption
  <1> DEFINE bad == {j \in 0..len : SameFrom(len - j, k, m) = FALSE}
  <1>2. bad = {}
    <2>1. SUFFICES ASSUME bad # {}
                   PROVE  FALSE
      OBVIOUS
    <2>2. PICK j \in bad : \A i \in bad : j <= i
      <3>1. bad \in SUBSET Nat
        OBVIOUS
      <3>2. QED BY <2>1, <3>1, LeastNumber
    <2>3. j # 0
      <3>1. PICK w \in Nat \ {0} : w = power[len]
        BY PowerType
      <3>2. k < w /\ m < w
        BY <1>1, <3>1 DEF Room
      <3>3. k \div w = 0 /\ m \div w = 0
        BY <3>2, Z3
      <3>4. SameFrom(len, k, m)
        BY <3>1, <3>3 DEF SameFrom
      <3>5. len - 0 = len
        OBVIOUS
      <3>6. QED BY <2>2, <3>4, <3>5
    <2>4. PICK i \in Nat : i = len - j /\ i + 1 = len - (j - 1) /\ i + 1 \in 1..len /\ SameFrom(i + 1, k, m)
      <3>1. j - 1 \in 0..len /\ j - 1 \notin bad /\ j - 1 < j
        BY <2>2, <2>3
      <3>2. SameFrom(len - (j - 1), k, m)
        BY <3>1
      <3>3. len - j \in Nat /\ (len - j) + 1 = len - (j - 1) /\ (len - j) + 1 \in 1..len
        BY <2>2, <2>3
      <3>4. QED BY <3>2, <3>3
    <2>5. PICK x \in Nat \ {0}, b \in Nat \ {0} : x = power[i] /\ b = BASE
      BY <2>4, PowerType, Base62Assumption
    <2>6. Digit(k, i) = Digit(m, i)
      <3>1. LowDigits(k)[i + 1] = Digit(k, (i + 1) - 1) /\ LowDigits(m)[i + 1] = Digit(m, (i + 1) - 1)
        BY <1>1, <2>4 DEF LowDigits
      <3>2. (i + 1) - 1 = i
        OBVIOUS
      <3>3. QED BY <3>1, <3>2
    <2>7. PICK p \in Nat, q \in Nat : p = k \div x /\ q = m \div x
      BY Division
    <2>8. p \div b = q \div b
      <3>1. power[i + 1] = x * b
        <4>1. b * x = x * b
          OBVIOUS
        <4>2. QED BY <2>5, <4>1, PowerNext
      <3>2. k \div (x * b) = m \div (x * b)
        BY <2>4, <3>1 DEF SameFrom
      <3>3. p \div b = k \div (x * b) /\ q \div b = m \div (x * b)
        BY <2>7, DividedTwice
      <3>4. QED BY <3>2, <3>3
    <2>9. p % b = q % b
      BY <2>5, <2>6, <2>7 DEF Digit
    <2>10. p = q
      <3>1. PICK c \in Nat, r \in Nat : p = b * c + r /\ p \div b = c /\ p % b = r
        BY Division
      <3>2. PICK e \in Nat, s \in Nat : q = b * e + s /\ q \div b = e /\ q % b = s
        BY Division
      <3>3. c = e /\ r = s
        BY <2>8, <2>9, <3>1, <3>2
      <3>4. QED BY <3>1, <3>2, <3>3
    <2>11. SameFrom(len - j, k, m)
      BY <2>4, <2>5, <2>7, <2>10 DEF SameFrom
    <2>12. QED BY <2>2, <2>11
  <1>3. SameFrom(0, k, m)
    <2>1. len \in 0..len /\ len - len = 0
      OBVIOUS
    <2>2. SameFrom(len - len, k, m)
      BY <1>2, <2>1 DEF SameFrom
    <2>3. QED BY <2>1, <2>2
  <1>4. power[0] = 1 /\ k \div 1 = k /\ m \div 1 = m
    BY PowerNext
  <1>5. QED BY <1>3, <1>4 DEF SameFrom

\* What a code is too short for does not show in it.
LEMMA LowDigitsCut ==
  ASSUME NEW n \in Nat
  PROVE  /\ n % Room \in Nat /\ n % Room < Room
         /\ LowDigits(n % Room) = LowDigits(n)
  <1>1. PICK w \in Nat \ {0} : w = Room
    BY Base62Assumption, PowerType DEF Room
  <1>2. PICK q \in Nat, s \in Nat : n = w * q + s /\ s < w /\ n % w = s
    BY Division
  <1>3. ASSUME NEW i \in Nat, i < SHORT_URL_LENGTH
        PROVE  Digit(s, i) = Digit(n, i)
    <2>1. PICK c \in Nat \ {0}, x \in Nat \ {0}, b \in Nat \ {0} :
            w = x * (b * c) /\ x = power[i] /\ b = BASE
      <3>1. SHORT_URL_LENGTH \in Nat /\ w = power[SHORT_URL_LENGTH]
        BY <1>1, Base62Assumption DEF Room
      <3>2. PICK c \in Nat \ {0} : w = power[i] * (BASE * c)
        BY <1>3, <3>1, PowerDivides
      <3>3. power[i] \in Nat \ {0} /\ BASE \in Nat \ {0}
        BY PowerType, Base62Assumption
      <3>4. QED BY <3>2, <3>3
    <2>2. PICK p \in Nat, r \in Nat : s = x * p + r /\ r < x /\ s \div x = p
      BY Division
    <2>3. n \div x = (b * c) * q + p
      <3>1. PICK d \in Nat : d = (b * c) * q + p
        <4>1. (b * c) * q + p \in Nat
          BY Z3
        <4>2. QED BY <4>1
      <3>2. n = x * d + r
        BY <1>2, <2>1, <2>2, <3>1, Z3
      <3>3. n \div x = d
        BY <2>2, <3>2, DivisionIs
      <3>4. QED BY <3>1, <3>3
    <2>4. PICK t \in Nat, u \in Nat : p = b * t + u /\ u < b /\ p % b = u
      BY Division
    <2>5. ((b * c) * q + p) % b = u
      <3>1. PICK v \in Nat : v = c * q + t
        <4>1. c * q + t \in Nat
          BY Z3
        <4>2. QED BY <4>1
      <3>2. (b * c) * q + p = b * v + u
        BY <2>4, <3>1, Z3
      <3>3. (b * v + u) % b = u
        BY <2>4, DivisionIs
      <3>4. QED BY <3>2, <3>3
    <2>6. QED BY <2>1, <2>2, <2>3, <2>4, <2>5 DEF Digit
  <1>4. LowDigits(s) = LowDigits(n)
    <2>1. \A i \in 1..SHORT_URL_LENGTH : i - 1 \in Nat /\ i - 1 < SHORT_URL_LENGTH
      BY Base62Assumption
    <2>2. \A i \in 1..SHORT_URL_LENGTH : Digit(s, i - 1) = Digit(n, i - 1)
      BY <1>3, <2>1
    <2>3. QED BY <2>2 DEF LowDigits
  <1>5. n % Room = s
    BY <1>1, <1>2
  <1>6. QED BY <1>1, <1>2, <1>4, <1>5

\* Digits that move up leave zeros below them.
LEMMA DigitMoved ==
  ASSUME NEW n \in Nat, NEW z \in Nat, NEW i \in Nat
  PROVE  /\ i < z => Digit(n * power[z], i) = 0
         /\ Digit(n * power[z], z + i) = Digit(n, i)
  <1>1. PICK w \in Nat \ {0} : w = power[z]
    BY PowerType
  <1>2. ASSUME i < z
        PROVE  Digit(n * w, i) = 0
    <2>1. PICK c \in Nat \ {0}, x \in Nat \ {0}, b \in Nat \ {0} :
            w = x * (b * c) /\ x = power[i] /\ b = BASE
      <3>1. PICK c \in Nat \ {0} : w = power[i] * (BASE * c)
        BY <1>1, <1>2, PowerDivides
      <3>2. power[i] \in Nat \ {0} /\ BASE \in Nat \ {0}
        BY PowerType, Base62Assumption
      <3>3. QED BY <3>1, <3>2
    <2>2. PICK d \in Nat, v \in Nat : v = c * n /\ d = b * v
      <3>1. c * n \in Nat /\ b * (c * n) \in Nat
        BY Z3
      <3>2. QED BY <3>1
    <2>3. n * w = x * d + 0 /\ d = b * v + 0
      BY <2>1, <2>2, Z3
    <2>4. (x * d + 0) \div x = d /\ (b * v + 0) % b = 0
      BY DivisionIs
    <2>5. QED BY <2>1, <2>3, <2>4 DEF Digit
  <1>3. Digit(n * w, z + i) = Digit(n, i)
    <2>1. PICK x \in Nat \ {0} : x = power[i] /\ power[z + i] = w * x
      BY <1>1, PowerType, PowerAdds
    <2>2. n * w \in Nat /\ n * w = w * n + 0
      BY Z3
    <2>3. (w * n + 0) \div w = n
      BY DivisionIs
    <2>4. PICK v \in Nat : v = n * w /\ v \div w = n
      BY <2>2, <2>3
    <2>5. v \div (w * x) = n \div x
      BY <2>4, DividedTwice
    <2>6. QED BY <2>1, <2>4, <2>5 DEF Digit
  <1>4. QED BY <1>1, <1>2, <1>3

-----------------------------------------------------------------------------
(* What encode keeps of a number.                                          *)

\* A number, its code and what is kept of it.
IsKept(n, k) == k \in Nat /\ k < Room /\ encode(n) = LowDigits(k)

\* Behind z zeros, the digits d of n are a code that has moved them up.
MovesUp(n, d, z) ==
  SubSeq([i \in 1..z |-> 0] \o d, 1, SHORT_URL_LENGTH) = LowDigits(n * power[z])

\* Zeros in front of the digits.
LEMMA Padded ==
  ASSUME NEW n \in Nat, NEW d, NEW m \in Nat, IsWritten(n, d, m), NEW z \in Nat, z + m = SHORT_URL_LENGTH
  PROVE  MovesUp(n, d, z)
  <1>1. PICK len \in Nat : len = SHORT_URL_LENGTH /\ z + m = len
    BY Base62Assumption
  <1>2. PICK zeros : zeros = [i \in 1..z |-> 0]
    OBVIOUS
  <1>3. 0 \in Digits
    BY Base62Assumption DEF Digits
  <1>4. zeros \in Seq(Digits) /\ Len(zeros) = z /\ \A i \in 1..z : zeros[i] = 0
    BY <1>2, <1>3
  <1>5. d \in Seq(Digits) /\ Len(d) = m
    BY DEF IsWritten
  <1>6. PICK e : e = zeros \o d
    OBVIOUS
  <1>7. /\ e \in Seq(Digits) /\ Len(e) = len
        /\ \A i \in 1..z : e[i] = 0
        /\ \A i \in 1..m : e[z + i] = d[i]
    <2>1. /\ e \in Seq(Digits) /\ Len(e) = z + m
          /\ \A i \in 1..(z + m) : e[i] = IF i <= z THEN zeros[i] ELSE d[i - z]
      BY <1>4, <1>5, <1>6, ConcatProperties
    <2>2. \A i \in 1..z : i \in 1..(z + m) /\ i <= z
      OBVIOUS
    <2>3. \A i \in 1..m : z + i \in 1..(z + m) /\ ~(z + i <= z) /\ (z + i) - z = i
      OBVIOUS
    <2>4. QED BY <1>1, <1>4, <2>1, <2>2, <2>3
  <1>8. SubSeq(e, 1, len) = e
    BY <1>7, SubSeqFull
  <1>9. e = [i \in 1..len |-> e[i]]
    BY <1>7
  <1>10. ASSUME NEW i \in 1..len
         PROVE  e[i] = Digit(n * power[z], i - 1)
    <2>1. CASE i <= z
      <3>1. e[i] = 0
        BY <1>7, <2>1
      <3>2. i - 1 \in Nat /\ i - 1 < z
        BY <2>1
      <3>3. QED BY <3>1, <3>2, DigitMoved
    <2>2. CASE i > z
      <3>1. PICK j \in 1..m, k \in Nat : i = z + j /\ j - 1 = k /\ i - 1 = z + k
        <4>1. i - z \in 1..m /\ i = z + (i - z) /\ (i - z) - 1 \in Nat /\ i - 1 = z + ((i - z) - 1)
          BY <1>1, <2>2
        <4>2. QED BY <4>1
      <3>2. e[i] = d[j]
        BY <1>7, <3>1
      <3>3. d[j] = Digit(n, j - 1)
        BY DEF IsWritten
      <3>4. Digit(n * power[z], z + k) = Digit(n, k)
        BY DigitMoved
      <3>5. QED BY <3>1, <3>2, <3>3, <3>4
    <2>3. QED BY <2>1, <2>2
  <1>11. e = [i \in 1..len |-> Digit(n * power[z], i - 1)]
    BY <1>9, <1>10
  <1>12. SubSeq(e, 1, SHORT_URL_LENGTH) = LowDigits(n * power[z])
    BY <1>1, <1>8, <1>11 DEF LowDigits
  <1>13. e = [i \in 1..z |-> 0] \o d
    BY <1>2, <1>6
  <1>14. QED BY <1>12, <1>13 DEF MovesUp

\* A number with all the digits of a code, or more, loses the high ones.
LEMMA LongKept ==
  ASSUME NEW n \in Nat, NEW m \in Nat, IsWritten(n, digits[n], m), SHORT_URL_LENGTH <= m
  PROVE  encode(n) = LowDigits(n)
  <1>1. PICK len \in Nat : len = SHORT_URL_LENGTH /\ len <= m
    BY Base62Assumption
  <1>2. PICK d : d = digits[n]
    OBVIOUS
  <1>3. d \in Seq(Digits) /\ Len(d) = m /\ \A i \in 1..m : d[i] = Digit(n, i - 1)
    BY <1>2 DEF IsWritten
  <1>4. [i \in 1..(len - m) |-> 0] = <<>>
    <2>1. 1..(len - m) = {}
      BY <1>1
    <2>2. [i \in {} |-> 0] = <<>>
      OBVIOUS
    <2>3. QED BY <2>1, <2>2
  <1>5. <<>> \o d = d
    BY <1>3
  <1>6. encode(n) = SubSeq(d, 1, len)
    <2>1. encode(n) = SubSeq([i \in 1..(len - m) |-> 0] \o d, 1, len)
      BY <1>1, <1>2, <1>3 DEF encode
    <2>2. QED BY <1>4, <1>5, <2>1
  <1>7. SubSeq(d, 1, len) = [i \in 1..len |-> d[i]]
    BY <1>1, <1>3
  <1>8. [i \in 1..len |-> d[i]] = [i \in 1..len |-> Digit(n, i - 1)]
    <2>1. \A i \in 1..len : i \in 1..m
      BY <1>1
    <2>2. QED BY <1>3, <2>1
  <1>9. QED BY <1>1, <1>6, <1>7, <1>8 DEF LowDigits

\* A code has room for one digit more than a power of one less.
LEMMA RoomIs ==
  \E j \in Nat, x \in Nat \ {0} :
    SHORT_URL_LENGTH = j + 1 /\ x = power[j] /\ Room = BASE * x /\ Room \div BASE = x
  <1>1. PICK len \in Nat, b \in Nat \ {0} : len = SHORT_URL_LENGTH /\ len # 0 /\ b = BASE
    BY Base62Assumption
  <1>2. PICK j \in Nat : len = j + 1
    <2>1. len - 1 \in Nat /\ len = (len - 1) + 1
      BY <1>1
    <2>2. QED BY <2>1
  <1>3. PICK x \in Nat \ {0} : x = power[j]
    BY PowerType
  <1>4. Room = b * x
    BY <1>1, <1>2, <1>3, PowerNext DEF Room
  <1>5. (b * x + 0) \div b = x /\ b * x + 0 = b * x
    <2>1. b * x \in Nat
      BY Z3
    <2>2. (b * x + 0) \div b = x
      BY <1>1, DivisionIs
    <2>3. QED BY <2>1, <2>2
  <1>6. QED BY <1>1, <1>2, <1>3, <1>4, <1>5

\* A number is not shifted into the room twice.
LEMMA OneShift ==
  ASSUME NEW n \in Nat \ {0}, NEW j \in Nat, NEW k \in Nat, j < k,
         NEW x \in Nat, x <= n * power[j], n * power[k] < BASE * x
  PROVE  FALSE
  <1>1. PICK p \in Nat \ {0}, q \in Nat \ {0}, b \in Nat \ {0} : p = power[j] /\ q = power[k] /\ b = BASE
    BY PowerType, Base62Assumption
  <1>2. b * p <= q /\ x <= n * p /\ n * q < b * x
    BY <1>1, PowerGrows
  <1>3. PICK s \in Nat, t \in Nat : s = n * p /\ t = b * p
    BY <1>1
  <1>4. n * t <= n * q
    <2>1. t <= q
      BY <1>2, <1>3
    <2>2. QED BY <2>1, Z3
  <1>5. b * x <= b * s
    <2>1. x <= s
      BY <1>2, <1>3
    <2>2. QED BY <2>1, Z3
  <1>6. n * t = b * s
    BY <1>3, Z3
  <1>7. PICK v \in Nat, w \in Nat, y \in Nat : v = n * t /\ w = n * q /\ y = b * x
    OBVIOUS
  <1>8. v <= w /\ w < y /\ y <= v
    BY <1>2, <1>4, <1>5, <1>6, <1>7
  <1>9. QED BY <1>8

\* A number with fewer digits than a code is shifted up by what is missing.
LEMMA ShortKept ==
  ASSUME NEW n \in Nat, n # 0, NEW m \in Nat, IsWritten(n, digits[n], m), m < SHORT_URL_LENGTH
  PROVE  IsKept(n, Kept(n))
  <1>1. PICK j \in Nat, x \in Nat \ {0} :
          SHORT_URL_LENGTH = j + 1 /\ x = power[j] /\ Room = BASE * x /\ Room \div BASE = x
    BY RoomIs
  <1>2. PICK l \in Nat, z \in Nat : m = l + 1 /\ z + m = j + 1 /\ l + z = j /\ m <= j
    <2>1. m # 0
      BY DEF IsWritten
    <2>2. /\ m - 1 \in Nat /\ m = (m - 1) + 1 /\ m <= j
          /\ (j + 1) - m \in Nat /\ ((j + 1) - m) + m = j + 1 /\ (m - 1) + ((j + 1) - m) = j
      BY <1>1, <2>1
    <2>3. QED BY <2>2
  <1>3. PICK w \in Nat \ {0}, p \in Nat \ {0}, q \in Nat \ {0} : w = power[z] /\ p = power[l] /\ q = power[m]
    BY PowerType
  <1>4. p <= n /\ n < q
    <2>1. power[m - 1] <= n /\ n < power[m]
      BY DEF IsWritten
    <2>2. m - 1 = l
      BY <1>2
    <2>3. QED BY <1>3, <2>1, <2>2
  <1>5. n < x
    <2>1. m = j \/ m < j
      BY <1>2
    <2>2. q <= x
      <3>1. CASE m = j
        BY <1>1, <1>3, <3>1
      <3>2. CASE m < j
        <4>1. q < x
          BY <1>1, <1>3, <3>2, PowerGrows
        <4>2. QED BY <4>1
      <3>3. QED BY <2>1, <3>1, <3>2
    <2>3. QED BY <1>4, <2>2
  <1>6. PICK s \in Nat : s = n * w
    OBVIOUS
  <1>7. x <= s
    <2>1. x = p * w
      BY <1>1, <1>2, <1>3, PowerAdds
    <2>2. p * w <= n * w
      BY <1>4, Z3
    <2>3. QED BY <1>6, <2>1, <2>2
  <1>8. s < Room /\ Room \in Nat
    <2>1. Room = q * w
      <3>1. Room = power[m + z]
        <4>1. m + z = j + 1
          BY <1>2
        <4>2. QED BY <1>1, <4>1 DEF Room
      <3>2. QED BY <1>3, <3>1, PowerAdds
    <2>2. n * w + w <= q * w
      BY <1>4, Z3
    <2>3. PICK r \in Nat : r = q * w
      OBVIOUS
    <2>4. s + w <= r
      BY <1>6, <2>2, <2>3
    <2>5. QED BY <2>1, <2>3, <2>4
  <1>9. PICK r \in Nat : r = Room /\ s < r
    BY <1>8
  <1>10. z \in 0..j
    BY <1>2
  <1>11. ASSUME NEW k \in 0..j, n * power[k] \in x..(r - 1)
         PROVE  n * power[k] = s
    <2>1. n * power[k] \in Nat /\ n * power[z] = s
      BY <1>3, <1>6, PowerType
    <2>2. x <= n * power[k] /\ n * power[k] < BASE * x /\ x <= n * power[z] /\ n * power[z] < BASE * x
      <3>1. PICK v \in Nat : v = n * power[k]
        BY <2>1
      <3>2. x <= v /\ v < r
        BY <1>9, <1>11, <3>1
      <3>3. QED BY <1>1, <1>7, <1>9, <2>1, <3>1, <3>2
    <2>3. ~(k < z)
      BY <2>2, OneShift
    <2>4. ~(z < k)
      BY <2>2, OneShift
    <2>5. k = z
      BY <2>3, <2>4
    <2>6. QED BY <2>1, <2>5
  <1> DEFINE shifted == {n * power[k] : k \in 0..(SHORT_URL_LENGTH - 1)} \cap (Room \div BASE)..(Room - 1)
  <1>12. SHORT_URL_LENGTH - 1 = j /\ Room \div BASE = x /\ Room - 1 = r - 1
    BY <1>1, <1>9
  <1>13. shifted = {s}
    <2>1. shifted = {n * power[k] : k \in 0..j} \cap x..(r - 1)
      BY <1>12
    <2>2. \A v \in shifted : v = s
      BY <1>11, <2>1
    <2>3. s \in x..(r - 1)
      BY <1>7, <1>9
    <2>4. s \in shifted
      BY <1>3, <1>6, <1>10, <2>1, <2>3
    <2>5. QED BY <2>2, <2>4
  <1>14. n \in 1..(Room \div BASE - 1)
    <2>1. n \in 1..(x - 1)
      BY <1>5
    <2>2. QED BY <1>1, <2>1
  <1>15. Kept(n) = s
    <2>1. Kept(n) = CHOOSE v \in shifted : TRUE
      BY <1>14 DEF Kept
    <2> HIDE DEF shifted
    <2>2. QED BY <1>13, <2>1
  <1>16. encode(n) = LowDigits(s)
    <2>1. Len(digits[n]) = m /\ SHORT_URL_LENGTH - m = z
      <3>1. Len(digits[n]) = m
        BY DEF IsWritten
      <3>2. QED BY <1>1, <1>2, <3>1
    <2>2. encode(n) = SubSeq([i \in 1..z |-> 0] \o digits[n], 1, SHORT_URL_LENGTH)
      BY <2>1 DEF encode
    <2>3. z + m = SHORT_URL_LENGTH
      BY <1>1, <1>2
    <2>4. PICK d : d = digits[n] /\ IsWritten(n, d, m)
      OBVIOUS
    <2>5. MovesUp(n, d, z)
      BY <2>3, <2>4, Padded
    <2>6. n * power[z] = s /\ digits[n] = d
      BY <1>3, <1>6, <2>4
    <2>7. QED BY ONLY <2>2, <2>5, <2>6 DEF MovesUp
  <1>17. QED BY <1>8, <1>15, <1>16 DEF IsKept

\* Every number has the code of what is kept of it, and that has room in a code.
LEMMA EncodeKeeps ==
  ASSUME NEW n \in Nat
  PROVE  IsKept(n, Kept(n))
  <1>1. PICK m \in Nat : IsWritten(n, digits[n], m)
    BY Written
  <1>2. PICK j \in Nat, x \in Nat \ {0} :
          SHORT_URL_LENGTH = j + 1 /\ x = power[j] /\ Room = BASE * x /\ Room \div BASE = x
    BY RoomIs
  <1>3. CASE n = 0
    <2>1. encode(n) = LowDigits(0)
      <3>1. IsWritten(0, <<>>, 0) /\ digits[0] = <<>>
        BY ZeroWritten
      <3>2. PICK len \in Nat : len = SHORT_URL_LENGTH /\ len + 0 = len
        BY Base62Assumption
      <3>3. SubSeq([i \in 1..len |-> 0] \o <<>>, 1, SHORT_URL_LENGTH) = LowDigits(0 * power[len])
        <4>1. MovesUp(0, <<>>, len)
          BY <3>1, <3>2, Padded
        <4>2. QED BY <4>1 DEF MovesUp
      <3>4. 0 * power[len] = 0
        BY PowerType
      <3>5. SHORT_URL_LENGTH - Len(digits[0]) = len
        BY <3>1, <3>2
      <3>6. encode(0) = SubSeq([i \in 1..len |-> 0] \o <<>>, 1, SHORT_URL_LENGTH)
        BY <3>1, <3>5 DEF encode
      <3>7. QED BY <1>3, <3>3, <3>4, <3>6
    <2>2. Kept(n) = n % Room
      <3>1. n \notin 1..(Room \div BASE - 1)
        BY <1>3
      <3>2. QED BY <3>1 DEF Kept
    <2>3. PICK w \in Nat \ {0} : w = Room
      BY Base62Assumption, PowerType DEF Room
    <2>4. 0 % w = 0
      OBVIOUS
    <2>5. Kept(n) = 0 /\ 0 < w
      BY <1>3, <2>2, <2>3, <2>4
    <2>6. QED BY <2>1, <2>3, <2>5 DEF IsKept
  <1>4. CASE n # 0 /\ m < SHORT_URL_LENGTH
    BY <1>1, <1>4, ShortKept
  <1>5. CASE n # 0 /\ ~(m < SHORT_URL_LENGTH)
    <2>1. SHORT_URL_LENGTH <= m
      BY <1>2, <1>5
    <2>2. encode(n) = LowDigits(n)
      BY <1>1, <2>1, LongKept
    <2>3. x <= n
      <3>1. PICK l \in Nat : m = l + 1 /\ power[l] <= n
        <4>1. m # 0 /\ power[m - 1] <= n
          BY <1>1, <1>5 DEF IsWritten
        <4>2. m - 1 \in Nat /\ m = (m - 1) + 1
          BY <4>1
        <4>3. QED BY <4>1, <4>2
      <3>2. PICK p \in Nat : p = power[l]
        BY PowerType
      <3>3. j = l \/ j < l
        BY <1>2, <2>1, <3>1
      <3>4. x <= p
        <4>1. CASE j = l
          BY <1>2, <3>2, <4>1
        <4>2. CASE j < l
          <5>1. x < p
            BY <1>2, <3>2, <4>2, PowerGrows
          <5>2. QED BY <5>1
        <4>3. QED BY <3>3, <4>1, <4>2
      <3>5. QED BY <3>1, <3>2, <3>4
    <2>4. Kept(n) = n % Room
      <3>1. n \notin 1..(x - 1)
        BY <2>3
      <3>2. n \notin 1..(Room \div BASE - 1)
        BY <1>2, <3>1
      <3>3. QED BY <3>2 DEF Kept
    <2>5. n % Room \in Nat /\ n % Room < Room /\ LowDigits(n % Room) = LowDigits(n)
      BY LowDigitsCut
    <2>6. QED BY <2>2, <2>4, <2>5 DEF IsKept
  <1>6. QED BY <1>3, <1>4, <1>5

\* Codes of the right length, equal exactly where the same is kept.
LEMMA CodesKept == CodesAsKept
  <1>1. SUFFICES ASSUME NEW m \in Hashes, NEW n \in Hashes
                 PROVE  /\ encode(m) \in [1..SHORT_URL_LENGTH -> Digits]
                        /\ encode(m) = encode(n) <=> Kept(m) = Kept(n)
    BY DEF CodesAsKept
  <1>2. m \in Nat /\ n \in Nat
    BY Base62Assumption
  <1>3. PICK j \in Nat, k \in Nat : /\ j = Kept(m) /\ j < Room /\ encode(m) = LowDigits(j)
                                    /\ k = Kept(n) /\ k < Room /\ encode(n) = LowDigits(k)
    <2>1. IsKept(m, Kept(m)) /\ IsKept(n, Kept(n))
      BY <1>2, EncodeKeeps
    <2>2. QED BY <2>1 DEF IsKept
  <1>4. LowDigits(j) = LowDigits(k) => j = k
    BY <1>3, LowDigitsDiffer
  <1>5. LowDigits(j) \in [1..SHORT_URL_LENGTH -> Digits]
    <2>1. \A i \in 1..SHORT_URL_LENGTH : Digit(j, i - 1) \in Digits
      <3>1. \A i \in 1..SHORT_URL_LENGTH : i - 1 \in Nat
        BY Base62Assumption
      <3>2. QED BY <3>1, DigitType
    <2>2. QED BY <2>1 DEF LowDigits
  <1>6. QED BY <1>3, <1>4, <1>5

\* Two hashes have one code exactly where base62_encode keeps the same of
\* them, and every code has its length: for every base, length and hash.
THEOREM ShortenerCodesCollide == Spec => []CodesCollide
  <1>1. CodesCollide
    BY CodesKept DEF CodesCollide
  <1>2. QED BY <1>1, PTL
=============================================================================
