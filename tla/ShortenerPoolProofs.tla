------------------------ MODULE ShortenerPoolProofs --------------------------
(***************************************************************************)
(* What the clients of the /shorten route do to their two pools, for every *)
(* number of workers and connections and under every fault: both use them  *)
(* as PoolContract says, and no connection is lost, copied or given to the *)
(* wrong pool.                                                             *)
(***************************************************************************)
EXTENDS ShortenerProofs, FiniteSetTheorems

-----------------------------------------------------------------------------
(* A queue of connections and their holders.                               *)

\* No connection is in two places.
Once(pool, holder) ==
  /\ \A i, j \in DOMAIN pool : pool[i] = pool[j] => i = j
  /\ \A i \in DOMAIN pool, w \in Workers : pool[i] # holder[w]
  /\ \A v, w \in Workers : holder[v] # NoConn /\ holder[v] = holder[w] => v = w

\* Every connection is in some place.
Everywhere(pool, holder) ==
  \A c \in Conns : \/ \E i \in DOMAIN pool : pool[i] = c
                   \/ \E w \in Workers : holder[w] = c

Holders == [Workers -> Conns \cup {NoConn}]

Nobody == [w \in Workers |-> NoConn]

\* No connection has the number of none.
LEMMA NoConnIsNone == NoConn \notin Conns
  BY ShortenerAssumption DEF NoConn, Conns

\* The front of a queue, and the rest of it.
LEMMA FrontAndRest ==
  ASSUME NEW pool \in Seq(Conns), pool # <<>>
  PROVE  /\ Head(pool) = pool[1] /\ 1 \in DOMAIN pool /\ Head(pool) \in Conns
         /\ Tail(pool) \in Seq(Conns)
         /\ \A i \in DOMAIN Tail(pool) : Tail(pool)[i] = pool[i + 1] /\ i + 1 \in DOMAIN pool
                                         /\ i \in Nat \ {0}
         /\ \A i \in DOMAIN pool \ {1} : i - 1 \in DOMAIN Tail(pool) /\ Tail(pool)[i - 1] = pool[i]
  <1>1. Len(pool) \in Nat \ {0}
    OBVIOUS
  <1>2. Tail(pool) \in Seq(Conns) /\ Len(Tail(pool)) = Len(pool) - 1
    OBVIOUS
  <1>3. DOMAIN Tail(pool) = 1..(Len(pool) - 1) /\ DOMAIN pool = 1..Len(pool)
    BY <1>1, <1>2
  <1>4. \A i \in 1..(Len(pool) - 1) : Tail(pool)[i] = pool[i + 1]
    BY <1>1
  <1>5. Head(pool) = pool[1] /\ pool[1] \in Conns
    BY <1>1
  <1>6. \A i \in DOMAIN pool \ {1} : i - 1 \in 1..(Len(pool) - 1) /\ (i - 1) + 1 = i
    BY <1>1, <1>3
  <1>7. QED BY <1>1, <1>2, <1>3, <1>4, <1>5, <1>6

\* Taking the front moves a connection.
LEMMA TakeOnce ==
  ASSUME NEW pool \in Seq(Conns), pool # <<>>, NEW holder \in Holders,
         NEW w \in Workers, holder[w] = NoConn, Once(pool, holder)
  PROVE  Once(Tail(pool), [holder EXCEPT ![w] = Head(pool)])
  <1> DEFINE h == Head(pool)
             rest == Tail(pool)
             new == [holder EXCEPT ![w] = Head(pool)]
  <1>1. /\ h = pool[1] /\ 1 \in DOMAIN pool /\ h \in Conns
        /\ \A i \in DOMAIN rest : rest[i] = pool[i + 1] /\ i + 1 \in DOMAIN pool /\ i \in Nat \ {0}
    BY FrontAndRest
  <1>2. \A v \in Workers : new[v] = IF v = w THEN h ELSE holder[v]
    BY DEF Holders
  <1> HIDE DEF h, rest, new
  <1>3. \A v \in Workers : holder[v] # h
    BY <1>1 DEF Once
  <1>4. \A i \in DOMAIN rest : rest[i] # h /\ \A v \in Workers : rest[i] # holder[v]
    <2>1. \A i \in DOMAIN rest : i + 1 # 1
      BY <1>1
    <2>2. QED BY <1>1, <2>1 DEF Once
  <1>5. \A i, j \in DOMAIN rest : rest[i] = rest[j] => i = j
    <2>1. \A i, j \in DOMAIN rest : rest[i] = rest[j] => i + 1 = j + 1
      BY <1>1 DEF Once
    <2>2. QED BY <1>1, <2>1
  <1>6. \A u, v \in Workers : new[u] # NoConn /\ new[u] = new[v] => u = v
    BY <1>2, <1>3 DEF Once
  <1>7. \A i \in DOMAIN rest, v \in Workers : rest[i] # new[v]
    BY <1>2, <1>4
  <1>8. Once(rest, new)
    BY <1>5, <1>6, <1>7 DEF Once
  <1>9. QED BY <1>8 DEF rest, new

\* Taking the front loses no connection.
LEMMA TakeEverywhere ==
  ASSUME NEW pool \in Seq(Conns), pool # <<>>, NEW holder \in Holders,
         NEW w \in Workers, holder[w] = NoConn, Everywhere(pool, holder)
  PROVE  Everywhere(Tail(pool), [holder EXCEPT ![w] = Head(pool)])
  <1> DEFINE h == Head(pool)
             rest == Tail(pool)
             new == [holder EXCEPT ![w] = Head(pool)]
  <1>1. /\ h = pool[1]
        /\ \A i \in DOMAIN pool \ {1} : i - 1 \in DOMAIN rest /\ rest[i - 1] = pool[i]
    BY FrontAndRest
  <1>2. \A v \in Workers : new[v] = IF v = w THEN h ELSE holder[v]
    BY DEF Holders
  <1> HIDE DEF h, rest, new
  <1>3. ASSUME NEW c \in Conns
        PROVE  (\E i \in DOMAIN rest : rest[i] = c) \/ (\E v \in Workers : new[v] = c)
    <2>1. CASE \E i \in DOMAIN pool : pool[i] = c
      <3>1. PICK i \in DOMAIN pool : pool[i] = c
        BY <2>1
      <3>2. CASE i = 1
        BY <1>1, <1>2, <3>1, <3>2
      <3>3. CASE i # 1
        BY <1>1, <3>1, <3>3
      <3>4. QED BY <3>2, <3>3
    <2>2. CASE \E v \in Workers : holder[v] = c
      BY <1>2, <2>2, NoConnIsNone
    <2>3. QED BY <2>1, <2>2 DEF Everywhere
  <1>4. Everywhere(rest, new)
    BY <1>3 DEF Everywhere
  <1>5. QED BY <1>4 DEF rest, new

\* The back of a queue.
LEMMA BackOfQueue ==
  ASSUME NEW pool \in Seq(Conns), NEW c \in Conns
  PROVE  /\ Append(pool, c) \in Seq(Conns)
         /\ Append(pool, c)[Len(pool) + 1] = c
         /\ Len(pool) + 1 \in DOMAIN Append(pool, c) /\ Len(pool) + 1 \notin DOMAIN pool
         /\ \A i \in DOMAIN pool : i \in DOMAIN Append(pool, c) /\ Append(pool, c)[i] = pool[i]
         /\ \A i \in DOMAIN Append(pool, c) : i \in DOMAIN pool \/ i = Len(pool) + 1
  <1>1. /\ Len(pool) \in Nat /\ DOMAIN pool = 1..Len(pool)
        /\ DOMAIN Append(pool, c) = 1..(Len(pool) + 1)
    OBVIOUS
  <1>2. QED BY <1>1

\* Putting a connection back moves it.
LEMMA PutOnce ==
  ASSUME NEW pool \in Seq(Conns), NEW holder \in Holders,
         NEW w \in Workers, holder[w] \in Conns, Once(pool, holder)
  PROVE  Once(Append(pool, holder[w]), [holder EXCEPT ![w] = NoConn])
  <1> DEFINE c == holder[w]
             new == [holder EXCEPT ![w] = NoConn]
             more == Append(pool, holder[w])
             n == Len(pool) + 1
  <1>1. /\ more[n] = c /\ n \in DOMAIN more /\ n \notin DOMAIN pool
        /\ \A i \in DOMAIN pool : i \in DOMAIN more /\ more[i] = pool[i]
        /\ \A i \in DOMAIN more : i \in DOMAIN pool \/ i = n
    BY BackOfQueue
  <1>2. \A v \in Workers : new[v] = IF v = w THEN NoConn ELSE holder[v]
    BY DEF Holders
  <1>3. c # NoConn /\ c = holder[w] /\ \A i \in DOMAIN pool : pool[i] # NoConn
    BY NoConnIsNone
  <1> HIDE DEF c, new, more, n
  <1>4. \A i, j \in DOMAIN more : more[i] = more[j] => i = j
    BY <1>1, <1>3 DEF Once
  <1>5. \A i \in DOMAIN more, v \in Workers : more[i] # new[v]
    BY <1>1, <1>2, <1>3 DEF Once
  <1>6. \A u, v \in Workers : new[u] # NoConn /\ new[u] = new[v] => u = v
    BY <1>2 DEF Once
  <1>7. Once(more, new)
    BY <1>4, <1>5, <1>6 DEF Once
  <1>8. QED BY <1>7 DEF more, new

\* Putting a connection back loses none.
LEMMA PutEverywhere ==
  ASSUME NEW pool \in Seq(Conns), NEW holder \in Holders,
         NEW w \in Workers, holder[w] \in Conns, Everywhere(pool, holder)
  PROVE  Everywhere(Append(pool, holder[w]), [holder EXCEPT ![w] = NoConn])
  <1> DEFINE new == [holder EXCEPT ![w] = NoConn]
             more == Append(pool, holder[w])
             n == Len(pool) + 1
  <1>1. /\ more[n] = holder[w] /\ n \in DOMAIN more
        /\ \A i \in DOMAIN pool : i \in DOMAIN more /\ more[i] = pool[i]
    BY BackOfQueue
  <1>2. \A v \in Workers : new[v] = IF v = w THEN NoConn ELSE holder[v]
    BY DEF Holders
  <1> HIDE DEF new, more, n
  <1>3. Everywhere(more, new)
    BY <1>1, <1>2 DEF Everywhere
  <1>4. QED BY <1>3 DEF more, new

\* A connection that is dropped is in no place.
LEMMA DropOnce ==
  ASSUME NEW pool \in Seq(Conns), NEW holder \in Holders,
         NEW w \in Workers, Once(pool, holder)
  PROVE  Once(pool, [holder EXCEPT ![w] = NoConn])
  <1>1. \A i \in DOMAIN pool : pool[i] # NoConn
    BY NoConnIsNone
  <1>2. QED BY <1>1 DEF Once, Holders

\* A new pool is full.
LEMMA FullIsOnce ==
  /\ FullPool \in Seq(Conns) /\ Nobody \in Holders
  /\ Once(FullPool, Nobody) /\ Everywhere(FullPool, Nobody)
  <1>1. DOMAIN FullPool = Conns /\ \A i \in Conns : FullPool[i] = i
    BY DEF FullPool, Conns
  <1>2. FullPool \in Seq(Conns)
    BY ShortenerAssumption DEF FullPool, Conns
  <1>3. QED BY <1>1, <1>2, NoConnIsNone DEF Once, Everywhere, Nobody, Holders

\* How many places a connection is in.
LEMMA HowManyPlaces ==
  ASSUME NEW pool \in Seq(Conns), NEW holder \in Holders, Once(pool, holder), NEW c \in Conns
  PROVE  /\ Places(pool, holder, c) <= 1
         /\ Everywhere(pool, holder) => Places(pool, holder, c) = 1
  <1> DEFINE queued == {i \in DOMAIN pool : pool[i] = c}
             held == {w \in Workers : holder[w] = c}
  <1>1. queued = {} \/ \E i \in DOMAIN pool : queued = {i}
    BY DEF Once
  <1>2. held = {} \/ \E w \in Workers : held = {w}
    BY NoConnIsNone DEF Once
  <1>3. queued = {} \/ held = {}
    BY DEF Once
  <1>4. Everywhere(pool, holder) => queued # {} \/ held # {}
    BY DEF Everywhere
  <1>5. Places(pool, holder, c) = Cardinality(queued) + Cardinality(held)
    BY DEF Places
  <1> HIDE DEF queued, held
  <1>6. Cardinality({}) = 0
    BY FS_EmptySet
  <1>7. (queued # {} => Cardinality(queued) = 1) /\ (held # {} => Cardinality(held) = 1)
    BY <1>1, <1>2, FS_Singleton
  <1>8. CASE queued = {} /\ held = {}
    BY <1>4, <1>5, <1>6, <1>8
  <1>9. CASE queued # {} /\ held = {}
    BY <1>5, <1>6, <1>7, <1>9
  <1>10. CASE queued = {} /\ held # {}
    BY <1>5, <1>6, <1>7, <1>10
  <1>11. QED BY <1>3, <1>8, <1>9, <1>10

-----------------------------------------------------------------------------
(* The steps of the clients, as each pool sees them.                       *)

\* What the workers hold of the connections of one pool.
Held(Pcs) == [w \in Workers |-> IF pc[w] \in Pcs THEN conn[w] ELSE NoConn]

\* Without a process there are no requests.
NobodyServes == ~alive => \A w \in Workers : pc[w] = "idle"

\* A worker that comes to hold a connection, and one that comes to hold none.
LEMMA HeldStep ==
  ASSUME TypeInv, NEW Pcs, NEW w \in Workers, NEW label, GoTo(w, label),
         NEW x, conn' = [conn EXCEPT ![w] = x]
  PROVE  /\ label \in Pcs => Held(Pcs)' = [Held(Pcs) EXCEPT ![w] = x]
         /\ label \notin Pcs => Held(Pcs)' = [Held(Pcs) EXCEPT ![w] = NoConn]
  <1>1. conn \in [Workers -> Conns \cup {NoConn}]
    BY DEF TypeInv, TypeOK
  <1>2. \A v \in Workers : /\ conn'[v] = IF v = w THEN x ELSE conn[v]
                           /\ pc'[v] = IF v = w THEN label ELSE pc[v]
    BY <1>1, Types DEF GoTo
  <1>3. QED BY <1>2 DEF Held

\* A step that keeps a worker's connection, or its want of one.
LEMMA HeldKept ==
  ASSUME TypeInv, NEW Pcs, NEW w \in Workers, NEW label, GoTo(w, label),
         \/ label \in Pcs /\ pc[w] \in Pcs /\ conn' = conn
         \/ label \notin Pcs /\ pc[w] \notin Pcs /\ \A v \in Workers \ {w} : conn'[v] = conn[v]
  PROVE  Held(Pcs)' = Held(Pcs)
  <1>1. \A v \in Workers : pc'[v] = IF v = w THEN label ELSE pc[v]
    BY Types DEF GoTo
  <1>2. QED BY <1>1 DEF Held

\* What a step of worker w may do to a pool and to what the workers hold of it.
Takes(pool, poolNext, Pcs, w) ==
  /\ alive /\ alive' = alive /\ Held(Pcs)[w] = NoConn /\ pool # <<>>
  /\ Held(Pcs)' = [Held(Pcs) EXCEPT ![w] = Head(pool)] /\ poolNext = Tail(pool)

Puts(pool, poolNext, Pcs, w) ==
  /\ alive /\ alive' = alive /\ Held(Pcs)[w] # NoConn
  /\ Held(Pcs)' = [Held(Pcs) EXCEPT ![w] = NoConn]
  /\ poolNext = Append(pool, Held(Pcs)[w])

Drops(pool, poolNext, Pcs, w) ==
  /\ alive /\ alive' = alive /\ Held(Pcs)[w] # NoConn
  /\ Held(Pcs)' = [Held(Pcs) EXCEPT ![w] = NoConn] /\ poolNext = pool

Leaves(pool, poolNext, Pcs) ==
  alive' = alive /\ Held(Pcs)' = Held(Pcs) /\ poolNext = pool

\* Types that the steps below need.
LEMMA PoolTypes ==
  ASSUME TypeInv, NobodyServes, NEW w \in Workers
  PROVE  /\ pg_pool \in Seq(Conns) /\ redis_pool \in Seq(Conns)
         /\ conn \in [Workers -> Conns \cup {NoConn}]
         /\ pc[w] \in RedisPcs \cup PgPcs => conn[w] \in Conns /\ conn[w] # NoConn
         /\ pc[w] # "idle" => alive
  BY NoConnIsNone DEF TypeInv, TypeOK, Locals, LocalsOf, NobodyServes

\* The labels at which a worker holds nothing.
LEMMA OtherLabels ==
  /\ "idle" \notin PgPcs \cup RedisPcs
  /\ \A label \in WaitPcs : label \notin PgPcs \cup RedisPcs /\ label # "idle"
  /\ \A label \in RedisPcs : label \notin PgPcs /\ label # "idle"
  /\ \A label \in PgPcs : label \notin RedisPcs /\ label # "idle"
  BY DEF PgPcs, RedisPcs, WaitPcs

\* A connection is taken where a worker waits for one.
LEMMA TakeStep ==
  ASSUME TypeInv, NobodyServes, NEW Pcs, NEW pool, NEW poolNext, NEW w \in Workers,
         pc[w] \in WaitPcs, pc[w] \notin Pcs, NEW label \in Pcs, GoTo(w, label),
         pool # <<>>, conn' = [conn EXCEPT ![w] = Head(pool)], poolNext = Tail(pool),
         UNCHANGED alive
  PROVE  Takes(pool, poolNext, Pcs, w)
  <1>1. Held(Pcs)' = [Held(Pcs) EXCEPT ![w] = Head(pool)]
    BY HeldStep
  <1>2. Held(Pcs)[w] = NoConn
    BY DEF Held
  <1>3. alive
    BY PoolTypes, OtherLabels
  <1>4. QED BY <1>1, <1>2, <1>3 DEF Takes

\* A connection is put back by its holder.
LEMMA PutStep ==
  ASSUME TypeInv, NobodyServes, NEW Pcs, Pcs \subseteq RedisPcs \cup PgPcs,
         NEW pool, NEW poolNext, NEW w \in Workers,
         pc[w] \in Pcs, NEW label, label \notin Pcs, GoTo(w, label),
         conn' = [conn EXCEPT ![w] = NoConn], poolNext = Append(pool, conn[w]), UNCHANGED alive
  PROVE  Puts(pool, poolNext, Pcs, w)
  <1>1. Held(Pcs)' = [Held(Pcs) EXCEPT ![w] = NoConn]
    BY HeldStep
  <1>2. Held(Pcs)[w] = conn[w]
    BY DEF Held
  <1>3. conn[w] # NoConn /\ alive
    BY PoolTypes, OtherLabels
  <1>4. QED BY <1>1, <1>2, <1>3 DEF Puts

\* Steps of a worker that are none of a pool's.
LEMMA LeaveStep ==
  ASSUME TypeInv, NEW Pcs, NEW pool, NEW poolNext, NEW w \in Workers, NEW label, GoTo(w, label),
         \/ label \in Pcs /\ pc[w] \in Pcs /\ conn' = conn
         \/ label \notin Pcs /\ pc[w] \notin Pcs /\ \E x : conn' = [conn EXCEPT ![w] = x]
         \/ label \notin Pcs /\ pc[w] \notin Pcs /\ conn' = conn,
         poolNext = pool, UNCHANGED alive
  PROVE  Leaves(pool, poolNext, Pcs)
  <1>1. conn \in [Workers -> Conns \cup {NoConn}]
    BY DEF TypeInv, TypeOK
  <1>2. label \notin Pcs => \A v \in Workers \ {w} : conn'[v] = conn[v]
    BY <1>1
  <1>3. Held(Pcs)' = Held(Pcs)
    BY <1>2, HeldKept
  <1>4. QED BY <1>3 DEF Leaves

\* The steps of a request, as the PostgreSQL pool sees them.
LEMMA PgSteps ==
  ASSUME TypeInv, NobodyServes, NEW w \in Workers, RequestStep(w) \/ HandlerStep(w),
         ~SetThrows(w)
  PROVE  \/ Takes(pg_pool, pg_pool', PgPcs, w) \/ Puts(pg_pool, pg_pool', PgPcs, w)
         \/ Leaves(pg_pool, pg_pool', PgPcs)
  <1>1. ASSUME LookupAcquire(w) \/ StoreAcquire(w)
        PROVE  Takes(pg_pool, pg_pool', PgPcs, w)
    <2>1. /\ pc[w] \in {"lookup_acquire", "store_acquire"} /\ TakePg(w) /\ UNCHANGED alive
          /\ \E label \in {"lookup_query", "store_query"} : GoTo(w, label)
      BY <1>1 DEF LookupAcquire, StoreAcquire
    <2>2. /\ pc[w] \in WaitPcs /\ pc[w] \notin PgPcs
          /\ {"lookup_query", "store_query"} \subseteq PgPcs
      BY <2>1 DEF WaitPcs, PgPcs
    <2>3. QED BY <2>1, <2>2, TakeStep DEF TakePg
  <1>2. ASSUME \/ PostReuse(w) \/ PostRehash(w) \/ PostExhausted(w) \/ PostFree(w)
               \/ GetNotFound(w) \/ GetFound(w) \/ PostStored(w) \/ PostFailed(w)
        PROVE  Puts(pg_pool, pg_pool', PgPcs, w)
    <2>1. /\ pc[w] \in {"lookup_release", "store_release"} /\ PutPg(w) /\ UNCHANGED alive
          /\ \E label \in {"idle"} \cup WaitPcs : GoTo(w, label)
      BY <1>2 DEF PostReuse, PostRehash, PostExhausted, PostFree, GetNotFound, GetFound,
                  PostStored, PostFailed, LookupRelease, AnswerPost, Answer, WaitPcs
    <2>2. pc[w] \in PgPcs /\ \A label \in {"idle"} \cup WaitPcs : label \notin PgPcs
      BY <2>1, OtherLabels DEF PgPcs
    <2>3. QED BY <2>1, <2>2, PutStep DEF PutPg
  <1>3. ASSUME LookupQuery(w) \/ StoreQuery(w)
        PROVE  Leaves(pg_pool, pg_pool', PgPcs)
    <2>1. /\ pc[w] \in PgPcs /\ UNCHANGED <<alive, conn, pg_pool>>
          /\ \E label \in PgPcs : GoTo(w, label)
      BY <1>3 DEF LookupQuery, StoreQuery, PgPcs
    <2>2. QED BY <2>1, LeaveStep
  <1>4. ASSUME \/ GetAcquire(w) \/ GetQuery(w) \/ GetThrows(w) \/ GetHit(w) \/ GetMiss(w)
               \/ SetAcquire(w) \/ SetQuery(w) \/ GetFilled(w)
        PROVE  Leaves(pg_pool, pg_pool', PgPcs)
    <2>1. /\ pc[w] \in RedisPcs \cup WaitPcs /\ UNCHANGED <<alive, pg_pool>>
          /\ \E label \in {"idle"} \cup RedisPcs \cup WaitPcs : GoTo(w, label)
          /\ conn' = conn \/ \E x : conn' = [conn EXCEPT ![w] = x]
      BY <1>4 DEF GetAcquire, GetQuery, GetThrows, GetHit, GetMiss, SetAcquire, SetQuery,
                  GetFilled, TakeRedis, PutRedis, Answer, poolVars, RedisPcs, WaitPcs
    <2>2. QED BY <2>1, OtherLabels, LeaveStep
  <1>5. ASSUME RequestStep(w)
        PROVE  Leaves(pg_pool, pg_pool', PgPcs)
    <2>1. /\ pc[w] = "idle" /\ UNCHANGED <<alive, conn, pg_pool>>
          /\ \E label \in {"idle"} \cup WaitPcs : GoTo(w, label)
      BY <1>5 DEF RequestStep, StartPost, StartGet, AnswerDirectly, Answer, poolVars, WaitPcs
    <2>2. QED BY <2>1, OtherLabels, LeaveStep
  <1>6. QED BY <1>1, <1>2, <1>3, <1>4, <1>5 DEF HandlerStep

\* The steps of a request, as the Redis pool sees them.
LEMMA RedisSteps ==
  ASSUME TypeInv, NobodyServes, NEW w \in Workers, RequestStep(w) \/ HandlerStep(w),
         ~SetThrows(w)
  PROVE  \/ Takes(redis_pool, redis_pool', RedisPcs, w)
         \/ Puts(redis_pool, redis_pool', RedisPcs, w)
         \/ "redis_error" \in Faults /\ Drops(redis_pool, redis_pool', RedisPcs, w)
         \/ Leaves(redis_pool, redis_pool', RedisPcs)
  <1>1. ASSUME GetAcquire(w) \/ SetAcquire(w)
        PROVE  Takes(redis_pool, redis_pool', RedisPcs, w)
    <2>1. /\ pc[w] \in {"get_acquire", "set_acquire"} /\ TakeRedis(w) /\ UNCHANGED alive
          /\ \E label \in {"get_query", "set_query"} : GoTo(w, label)
      BY <1>1 DEF GetAcquire, SetAcquire
    <2>2. /\ pc[w] \in WaitPcs /\ pc[w] \notin RedisPcs
          /\ {"get_query", "set_query"} \subseteq RedisPcs
      BY <2>1 DEF WaitPcs, RedisPcs
    <2>3. QED BY <2>1, <2>2, TakeStep DEF TakeRedis
  <1>2. ASSUME GetHit(w) \/ GetMiss(w) \/ GetFilled(w)
        PROVE  Puts(redis_pool, redis_pool', RedisPcs, w)
    <2>1. /\ pc[w] \in {"get_release", "set_release"} /\ PutRedis(w) /\ UNCHANGED alive
          /\ \E label \in {"idle"} \cup WaitPcs : GoTo(w, label)
      BY <1>2 DEF GetHit, GetMiss, GetFilled, Answer, WaitPcs
    <2>2. pc[w] \in RedisPcs /\ \A label \in {"idle"} \cup WaitPcs : label \notin RedisPcs
      BY <2>1, OtherLabels DEF RedisPcs
    <2>3. QED BY <2>1, <2>2, PutStep DEF PutRedis
  <1>3. ASSUME GetThrows(w)
        PROVE  "redis_error" \in Faults /\ Drops(redis_pool, redis_pool', RedisPcs, w)
    <2>1. /\ "redis_error" \in Faults
          /\ pc[w] = "get_query" /\ GoTo(w, "lookup_acquire")
          /\ conn' = [conn EXCEPT ![w] = NoConn] /\ UNCHANGED <<alive, redis_pool>>
      BY <1>3 DEF GetThrows, poolVars
    <2>2. pc[w] \in RedisPcs /\ "lookup_acquire" \notin RedisPcs
      BY <2>1 DEF RedisPcs
    <2>3. Held(RedisPcs)' = [Held(RedisPcs) EXCEPT ![w] = NoConn]
      BY <2>1, <2>2, HeldStep
    <2>4. Held(RedisPcs)[w] # NoConn /\ alive
      BY <2>1, <2>2, PoolTypes DEF Held
    <2>5. QED BY <2>1, <2>3, <2>4 DEF Drops
  <1>4. ASSUME GetQuery(w) \/ SetQuery(w)
        PROVE  Leaves(redis_pool, redis_pool', RedisPcs)
    <2>1. /\ pc[w] \in RedisPcs /\ UNCHANGED <<alive, conn, redis_pool>>
          /\ \E label \in RedisPcs : GoTo(w, label)
      BY <1>4 DEF GetQuery, SetQuery, RedisPcs, poolVars
    <2>2. QED BY <2>1, LeaveStep
  <1>5. ASSUME \/ LookupAcquire(w) \/ LookupQuery(w)
               \/ PostReuse(w) \/ PostRehash(w) \/ PostExhausted(w) \/ PostFree(w)
               \/ GetNotFound(w) \/ GetFound(w) \/ PostStored(w) \/ PostFailed(w)
               \/ StoreAcquire(w) \/ StoreQuery(w)
        PROVE  Leaves(redis_pool, redis_pool', RedisPcs)
    <2>1. /\ pc[w] \in PgPcs \cup WaitPcs /\ UNCHANGED <<alive, redis_pool>>
          /\ \E label \in {"idle"} \cup PgPcs \cup WaitPcs : GoTo(w, label)
          /\ conn' = conn \/ \E x : conn' = [conn EXCEPT ![w] = x]
      BY <1>5 DEF LookupAcquire, LookupQuery, StoreAcquire, StoreQuery, PostReuse, PostRehash,
                  PostExhausted, PostFree, GetNotFound, GetFound, PostStored, PostFailed,
                  LookupRelease, AnswerPost, Answer, TakePg, PutPg, PgPcs, WaitPcs
    <2>2. QED BY <2>1, OtherLabels, LeaveStep
  <1>6. ASSUME RequestStep(w)
        PROVE  Leaves(redis_pool, redis_pool', RedisPcs)
    <2>1. /\ pc[w] = "idle" /\ UNCHANGED <<alive, conn, redis_pool>>
          /\ \E label \in {"idle"} \cup WaitPcs : GoTo(w, label)
      BY <1>6 DEF RequestStep, StartPost, StartGet, AnswerDirectly, Answer, poolVars, WaitPcs
    <2>2. QED BY <2>1, OtherLabels, LeaveStep
  <1>7. QED BY <1>1, <1>2, <1>3, <1>4, <1>5, <1>6 DEF HandlerStep

\* Requests run in a process that lives on, but for the set() that throws.
LEMMA ServedAlive ==
  ASSUME TypeInv, NobodyServes, NEW w \in Workers, RequestStep(w) \/ HandlerStep(w),
         ~SetThrows(w)
  PROVE  alive /\ alive' = alive
  <1>1. CASE RequestStep(w)
    BY <1>1 DEF RequestStep, StartPost, StartGet, AnswerDirectly, Answer
  <1>2. CASE HandlerStep(w)
    <2>1. pc[w] # "idle"
      BY <1>2 DEF HandlerStep, GetAcquire, GetQuery, GetThrows, GetHit, GetMiss, LookupAcquire,
                  LookupQuery, PostReuse, PostRehash, PostExhausted, PostFree, GetNotFound,
                  GetFound, LookupRelease, StoreAcquire, StoreQuery, PostStored, PostFailed,
                  SetAcquire, SetQuery, SetThrows, GetFilled
    <2>2. alive' = alive
      BY <1>2, PgSteps DEF Takes, Puts, Leaves
    <2>3. QED BY <2>1, <2>2 DEF NobodyServes
  <1>3. QED BY <1>1, <1>2

\* With the process go both pools and everything the workers hold.
LEMMA ExitDestroys ==
  ASSUME Exit
  PROVE  /\ alive' = FALSE /\ pg_pool' = <<>> /\ redis_pool' = <<>>
         /\ \A w \in Workers : pc'[w] = "idle"
         /\ PgHeld' = Nobody /\ RedisHeld' = Nobody
  BY OtherLabels DEF Exit, PgHeld, RedisHeld, Nobody

\* A new process starts with full pools and idle workers.
LEMMA RestartConstructs ==
  ASSUME NobodyServes, Restart
  PROVE  /\ ~alive /\ alive' = TRUE /\ pg_pool' = FullPool /\ redis_pool' = FullPool
         /\ PgHeld' = Nobody /\ RedisHeld' = Nobody
  BY OtherLabels DEF Restart, NobodyServes, workerVars, PgHeld, RedisHeld, Nobody

\* The other steps leave the pools and the workers alone.
PoolsAlone == UNCHANGED <<alive, pc, conn, pg_pool, redis_pool>>

\* Every step is one of a request, an end, a beginning, or none of the pools'.
LEMMA StepsOfPools ==
  ASSUME [Next]_vars
  PROVE  \/ \E w \in Workers : (RequestStep(w) \/ HandlerStep(w)) /\ ~SetThrows(w)
         \/ Exit \/ Restart \/ PoolsAlone
  <1>1. CASE \E w \in Workers : RequestStep(w) \/ HandlerStep(w)
    BY <1>1 DEF SetThrows
  <1>2. CASE \E c \in Codes : Evict(c)
    BY <1>2 DEF Evict, PoolsAlone, workerVars, poolVars
  <1>3. CASE \E c \in Codes, u \in Urls : LateUpsert(c, u)
    BY <1>3 DEF LateUpsert, PoolsAlone, workerVars, poolVars
  <1>4. CASE Kill
    BY <1>4 DEF Kill
  <1>5. CASE UNCHANGED vars
    BY <1>5 DEF vars, PoolsAlone, workerVars, poolVars
  <1>6. QED BY <1>1, <1>2, <1>3, <1>4, <1>5 DEF Next

\* What the workers hold, by the names the properties give it.
LEMMA HeldOf ==
  /\ Held(PgPcs) = PgHeld /\ Held(PgPcs)' = PgHeld'
  /\ Held(RedisPcs) = RedisHeld /\ Held(RedisPcs)' = RedisHeld'
  BY DEF Held, PgHeld, RedisHeld

\* What the workers hold is a connection or none.
LEMMA HeldType == TypeInv => PgHeld \in Holders /\ RedisHeld \in Holders
  BY DEF TypeInv, TypeOK, PgHeld, RedisHeld, Holders

-----------------------------------------------------------------------------
(* The invariant.                                                          *)

PoolsInv ==
  /\ NobodyServes
  /\ alive => /\ Once(pg_pool, PgHeld) /\ Everywhere(pg_pool, PgHeld)
              /\ Once(redis_pool, RedisHeld)

\* The constructors leave every connection in its queue.
LEMMA InitPools ==
  Init => PoolsInv /\ PgHeld = Nobody /\ RedisHeld = Nobody
  <1> SUFFICES ASSUME Init
               PROVE  PoolsInv /\ PgHeld = Nobody /\ RedisHeld = Nobody
    OBVIOUS
  <1>1. PgHeld = Nobody /\ RedisHeld = Nobody
    BY OtherLabels DEF Init, PgHeld, RedisHeld, Nobody
  <1>2. QED BY <1>1, FullIsOnce DEF Init, PoolsInv, NobodyServes

\* A step of a client moves or drops a connection, and copies none.
LEMMA ClientOnce ==
  ASSUME NEW pool \in Seq(Conns), NEW poolNext, NEW Pcs, NEW w \in Workers,
         Held(Pcs) \in Holders, Once(pool, Held(Pcs)),
         \/ Takes(pool, poolNext, Pcs, w) \/ Puts(pool, poolNext, Pcs, w)
         \/ Drops(pool, poolNext, Pcs, w) \/ Leaves(pool, poolNext, Pcs)
  PROVE  Once(poolNext, Held(Pcs)')
  <1>1. CASE Takes(pool, poolNext, Pcs, w)
    BY <1>1, TakeOnce DEF Takes
  <1>2. CASE Puts(pool, poolNext, Pcs, w)
    <2>1. Held(Pcs)[w] \in Conns
      BY <1>2 DEF Puts, Holders
    <2>2. QED BY <1>2, <2>1, PutOnce DEF Puts
  <1>3. CASE Drops(pool, poolNext, Pcs, w)
    BY <1>3, DropOnce DEF Drops
  <1>4. CASE Leaves(pool, poolNext, Pcs)
    BY <1>4 DEF Leaves
  <1>5. QED BY <1>1, <1>2, <1>3, <1>4

\* And loses none where none is dropped.
LEMMA ClientEverywhere ==
  ASSUME NEW pool \in Seq(Conns), NEW poolNext, NEW Pcs, NEW w \in Workers,
         Held(Pcs) \in Holders, Everywhere(pool, Held(Pcs)),
         \/ Takes(pool, poolNext, Pcs, w) \/ Puts(pool, poolNext, Pcs, w)
         \/ Leaves(pool, poolNext, Pcs)
  PROVE  Everywhere(poolNext, Held(Pcs)')
  <1>1. CASE Takes(pool, poolNext, Pcs, w)
    BY <1>1, TakeEverywhere DEF Takes
  <1>2. CASE Puts(pool, poolNext, Pcs, w)
    <2>1. Held(Pcs)[w] \in Conns
      BY <1>2 DEF Puts, Holders
    <2>2. QED BY <1>2, <2>1, PutEverywhere DEF Puts
  <1>3. CASE Leaves(pool, poolNext, Pcs)
    BY <1>3 DEF Leaves
  <1>4. QED BY <1>1, <1>2, <1>3

\* Every step keeps the invariant.
LEMMA NextPools == TypeInv /\ PoolsInv /\ [Next]_vars => PoolsInv'
  <1> SUFFICES ASSUME TypeInv, PoolsInv, [Next]_vars
               PROVE  PoolsInv'
    OBVIOUS
  <1>1. ASSUME NEW w \in Workers, RequestStep(w) \/ HandlerStep(w), ~SetThrows(w)
        PROVE  PoolsInv'
    <2>1. alive /\ alive'
      BY <1>1, ServedAlive DEF PoolsInv
    <2>2. pg_pool \in Seq(Conns) /\ redis_pool \in Seq(Conns)
      BY DEF TypeInv, TypeOK
    <2>3. Once(pg_pool, Held(PgPcs)) /\ Everywhere(pg_pool, Held(PgPcs))
          /\ Once(redis_pool, Held(RedisPcs))
      BY <2>1, HeldOf DEF PoolsInv
    <2>4. Held(PgPcs) \in Holders /\ Held(RedisPcs) \in Holders
      BY HeldOf, HeldType
    <2>5. Once(pg_pool', Held(PgPcs)')
      BY <1>1, <2>2, <2>3, <2>4, PgSteps, ClientOnce DEF PoolsInv
    <2>6. Everywhere(pg_pool', Held(PgPcs)')
      BY <1>1, <2>2, <2>3, <2>4, PgSteps, ClientEverywhere DEF PoolsInv
    <2>7. Once(redis_pool', Held(RedisPcs)')
      BY <1>1, <2>2, <2>3, <2>4, RedisSteps, ClientOnce DEF PoolsInv
    <2>8. QED BY <2>1, <2>5, <2>6, <2>7, HeldOf DEF PoolsInv, NobodyServes
  <1>2. CASE Exit
    BY <1>2, ExitDestroys DEF PoolsInv, NobodyServes
  <1>3. CASE Restart
    <2>1. /\ Once(pg_pool, PgHeld)' /\ Everywhere(pg_pool, PgHeld)'
          /\ Once(redis_pool, RedisHeld)' /\ alive'
      BY <1>3, RestartConstructs, FullIsOnce DEF PoolsInv
    <2>2. QED BY <2>1 DEF PoolsInv, NobodyServes
  <1>4. CASE PoolsAlone
    <2>1. PgHeld' = PgHeld /\ RedisHeld' = RedisHeld
      BY <1>4 DEF PoolsAlone, PgHeld, RedisHeld
    <2>2. QED BY <1>4, <2>1 DEF PoolsAlone, PoolsInv, NobodyServes
  <1>5. QED BY <1>1, <1>2, <1>3, <1>4, StepsOfPools

\* The invariant holds throughout.
LEMMA PoolsInvariant == Spec => [](TypeInv /\ PoolsInv)
  <1>1. Init => TypeInv /\ PoolsInv
    BY InitTypeInv, InitPools
  <1>2. TypeInv /\ PoolsInv /\ [Next]_vars => (TypeInv /\ PoolsInv)'
    BY NextTypeInv, NextPools
  <1>3. QED BY <1>1, <1>2, PTL DEF Spec

-----------------------------------------------------------------------------
(* The theorems.                                                           *)

\* While the process runs, every PostgreSQL connection is in exactly one
\* place and no Redis connection in two: ConnsAccounted, under every fault.
THEOREM ShortenerConnsAccounted == Spec => []ConnsAccounted
  <1>1. TypeInv /\ PoolsInv => ConnsAccounted
    <2> SUFFICES ASSUME TypeInv, PoolsInv, alive, NEW c \in Conns
                 PROVE  Places(pg_pool, PgHeld, c) = 1 /\ Places(redis_pool, RedisHeld, c) <= 1
      BY DEF ConnsAccounted
    <2>1. pg_pool \in Seq(Conns) /\ redis_pool \in Seq(Conns)
      BY DEF TypeInv, TypeOK
    <2>2. QED BY <2>1, HeldType, HowManyPlaces DEF PoolsInv
  <1>2. QED BY <1>1, PoolsInvariant, PTL

\* What the PostgreSQL client does is what a client that drops nothing may do.
LEMMA PgStepAllowed ==
  ASSUME TypeInv, PoolsInv, [Next]_vars
  PROVE  [PgContract!NextNoDrop]_(PgContract!contractVars)
  <1>1. ASSUME NEW w \in Workers, RequestStep(w) \/ HandlerStep(w), ~SetThrows(w)
        PROVE  [PgContract!NextNoDrop]_(PgContract!contractVars)
    <2>1. CASE Takes(pg_pool, pg_pool', PgPcs, w)
      <3>1. PgContract!Acquire(w)
        BY <2>1, HeldOf DEF Takes, PgContract!Acquire, PgContract!NoConn, NoConn
      <3>2. QED BY <3>1 DEF PgContract!NextNoDrop
    <2>2. CASE Puts(pg_pool, pg_pool', PgPcs, w)
      <3>1. PgContract!Release(w)
        BY <2>2, HeldOf DEF Puts, PgContract!Release, PgContract!NoConn, NoConn
      <3>2. QED BY <3>1 DEF PgContract!NextNoDrop
    <2>3. CASE Leaves(pg_pool, pg_pool', PgPcs)
      BY <2>3, HeldOf DEF Leaves, PgContract!contractVars
    <2>4. QED BY <1>1, <2>1, <2>2, <2>3, PgSteps DEF PoolsInv
  <1>2. CASE Exit
    <2>1. PgContract!Destroy
      BY <1>2, ExitDestroys DEF PgContract!Destroy, PgContract!NoConn, Nobody, NoConn
    <2>2. QED BY <2>1 DEF PgContract!NextNoDrop
  <1>3. CASE Restart
    <2>1. PgContract!Construct
      BY <1>3, RestartConstructs
      DEF PoolsInv, PgContract!Construct, PgContract!NoConn, PgContract!FullPool, Nobody, NoConn,
          FullPool
    <2>2. QED BY <2>1 DEF PgContract!NextNoDrop
  <1>4. CASE PoolsAlone
    BY <1>4 DEF PoolsAlone, PgContract!contractVars, PgHeld
  <1>5. QED BY <1>1, <1>2, <1>3, <1>4, StepsOfPools

\* The PostgreSQL client keeps PgNeverDropped: on no return path of lookup()
\* or store(), and after no error, is a connection forgotten or used by two
\* requests.
THEOREM ShortenerPgNeverDropped == Spec => PgNeverDropped
  <1>1. Init => PgContract!Init
    BY InitPools
    DEF Init, PgContract!Init, PgContract!FullPool, PgContract!NoConn, Nobody, NoConn, FullPool
  <1>2. TypeInv /\ PoolsInv /\ [Next]_vars => [PgContract!NextNoDrop]_(PgContract!contractVars)
    BY PgStepAllowed
  <1>3. QED BY <1>1, <1>2, PoolsInvariant, PTL DEF Spec, PgNeverDropped, PgContract!SpecNoDrop

\* What the Redis client does is what a client that drops nothing may do, and
\* where a command may throw, dropping.
LEMMA RedisStepAllowed ==
  ASSUME TypeInv, PoolsInv, [Next]_vars
  PROVE  \/ [RedisContract!NextNoDrop]_(RedisContract!contractVars)
         \/ "redis_error" \in Faults /\ \E w \in Workers : RedisContract!Drop(w)
  <1>1. ASSUME NEW w \in Workers, RequestStep(w) \/ HandlerStep(w), ~SetThrows(w)
        PROVE  \/ [RedisContract!NextNoDrop]_(RedisContract!contractVars)
               \/ "redis_error" \in Faults /\ RedisContract!Drop(w)
    <2>1. CASE Takes(redis_pool, redis_pool', RedisPcs, w)
      <3>1. RedisContract!Acquire(w)
        BY <2>1, HeldOf DEF Takes, RedisContract!Acquire, RedisContract!NoConn, NoConn
      <3>2. QED BY <3>1 DEF RedisContract!NextNoDrop
    <2>2. CASE Puts(redis_pool, redis_pool', RedisPcs, w)
      <3>1. RedisContract!Release(w)
        BY <2>2, HeldOf DEF Puts, RedisContract!Release, RedisContract!NoConn, NoConn
      <3>2. QED BY <3>1 DEF RedisContract!NextNoDrop
    <2>3. CASE "redis_error" \in Faults /\ Drops(redis_pool, redis_pool', RedisPcs, w)
      <3>1. RedisContract!Drop(w)
        BY <2>3, HeldOf DEF Drops, RedisContract!Drop, RedisContract!NoConn, NoConn
      <3>2. QED BY <2>3, <3>1
    <2>4. CASE Leaves(redis_pool, redis_pool', RedisPcs)
      BY <2>4, HeldOf DEF Leaves, RedisContract!contractVars
    <2>5. QED BY <1>1, <2>1, <2>2, <2>3, <2>4, RedisSteps DEF PoolsInv
  <1>2. CASE Exit
    <2>1. RedisContract!Destroy
      BY <1>2, ExitDestroys DEF RedisContract!Destroy, RedisContract!NoConn, Nobody, NoConn
    <2>2. QED BY <2>1 DEF RedisContract!NextNoDrop
  <1>3. CASE Restart
    <2>1. RedisContract!Construct
      BY <1>3, RestartConstructs
      DEF PoolsInv, RedisContract!Construct, RedisContract!NoConn, RedisContract!FullPool,
          Nobody, NoConn, FullPool
    <2>2. QED BY <2>1 DEF RedisContract!NextNoDrop
  <1>4. CASE PoolsAlone
    BY <1>4 DEF PoolsAlone, RedisContract!contractVars, RedisHeld
  <1>5. QED BY <1>1, <1>2, <1>3, <1>4, StepsOfPools

\* Its pool starts full, and nobody holds a connection.
LEMMA InitRedisPool == Init => RedisContract!Init
  BY InitPools
  DEF Init, RedisContract!Init, RedisContract!FullPool, RedisContract!NoConn, Nobody, NoConn,
      FullPool

\* The Redis client uses its pool as PoolContract says, dropping included.
THEOREM ShortenerRedisPoolUsed == Spec => RedisPoolUsed
  <1>1. TypeInv /\ PoolsInv /\ [Next]_vars => [RedisContract!Next]_(RedisContract!contractVars)
    BY RedisStepAllowed DEF RedisContract!NextNoDrop, RedisContract!Next
  <1>2. QED BY <1>1, InitRedisPool, PoolsInvariant, PTL
            DEF Spec, RedisPoolUsed, RedisContract!Spec

\* Where no Redis command throws, the Redis client keeps RedisNeverDropped: it
\* loses a connection in the catch block of get() and nowhere else.
THEOREM ShortenerRedisNeverDropped ==
  ASSUME "redis_error" \notin Faults
  PROVE  Spec => RedisNeverDropped
  <1>1. TypeInv /\ PoolsInv /\ [Next]_vars
          => [RedisContract!NextNoDrop]_(RedisContract!contractVars)
    BY RedisStepAllowed
  <1>2. QED BY <1>1, InitRedisPool, PoolsInvariant, PTL
            DEF Spec, RedisNeverDropped, RedisContract!SpecNoDrop
=============================================================================
