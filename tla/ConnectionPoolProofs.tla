------------------------ MODULE ConnectionPoolProofs ------------------------
(***************************************************************************)
(* What holds of the connection pool for every number of threads and       *)
(* connections.                                                            *)
(***************************************************************************)
EXTENDS ConnectionPool, FiniteSetTheorems, TLAPS

-----------------------------------------------------------------------------
(* Type correctness.                                                       *)

\* The constructor fills the queue.
LEMMA InitTypeOK == Init => TypeOK
  <1>1. Init => connections \in Seq(Conns)
    BY PoolAssumption DEF Init, Conns
  <1>2. QED BY <1>1 DEF Init, TypeOK

\* Popping the front leaves a queue of connections.
LEMMA TakeFrontTypeOK ==
  ASSUME TypeOK, NEW t \in Threads, TakeFront(t)
  PROVE  connections' \in Seq(Conns) /\ held' \in [Threads -> Conns \cup {NoConn}]
  <1>1. connections \in Seq(Conns) /\ connections # <<>>
    BY DEF TypeOK, TakeFront
  <1>2. Head(connections) \in Conns /\ Tail(connections) \in Seq(Conns)
    BY <1>1
  <1>3. QED BY <1>2 DEF TypeOK, TakeFront

\* A notification moves at most one sleeper.
LEMMA NotifyOneTypeOK ==
  ASSUME TypeOK, NotifyOne
  PROVE  asleep' \subseteq Threads /\ awake' \subseteq Threads
  BY DEF TypeOK, NotifyOne

\* No step of a caller, of release() or of the destructor breaks a type.
LEMMA NextTypeOK == TypeOK /\ [Next]_vars => TypeOK'
  <1> SUFFICES ASSUME TypeOK, [Next]_vars
               PROVE  TypeOK'
    OBVIOUS
  <1> USE DEF TypeOK
  <1>1. ASSUME NEW t \in Threads, AcquireAtOnce(t)
        PROVE  TypeOK'
    BY <1>1, TakeFrontTypeOK DEF AcquireAtOnce
  <1>2. ASSUME NEW t \in Threads, AcquireWait(t)
        PROVE  TypeOK'
    BY <1>2 DEF AcquireWait
  <1>3. ASSUME NEW t \in Threads, WakeAndTake(t)
        PROVE  TypeOK'
    BY <1>3, TakeFrontTypeOK DEF WakeAndTake
  <1>4. ASSUME NEW t \in Threads, WakeAndWait(t)
        PROVE  TypeOK'
    BY <1>4 DEF WakeAndWait
  <1>5. ASSUME NEW t \in Threads, SpuriousWakeup(t)
        PROVE  TypeOK'
    BY <1>5 DEF SpuriousWakeup
  <1>6. ASSUME NEW t \in Threads, Release(t)
        PROVE  TypeOK'
    <2>1. held[t] \in Conns
      BY <1>6 DEF Release
    <2>2. Append(connections, held[t]) \in Seq(Conns)
      BY <2>1
    <2>3. QED BY <1>6, <2>2, NotifyOneTypeOK DEF Release
  <1>7. ASSUME NEW t \in Threads, Drop(t)
        PROVE  TypeOK'
    BY <1>7 DEF Drop
  <1>8. CASE UNCHANGED vars
    BY <1>8 DEF vars
  <1>9. QED BY <1>1, <1>2, <1>3, <1>4, <1>5, <1>6, <1>7, <1>8 DEF Next

\* The queue holds connections and nothing else, and so do the callers.
THEOREM PoolTypeCorrect == Spec => []TypeOK
  BY InitTypeOK, NextTypeOK, PTL DEF Spec

-----------------------------------------------------------------------------
(* Exclusive ownership.  TakeFront moves the front of the queue, Release   *)
(* appends what its caller owned; every other step leaves both alone.      *)

\* Popping the front of the queue moves a connection, and copies none.
LEMMA TakeFrontExclusive ==
  ASSUME TypeOK, Exclusive, NEW t \in Threads, TakeFront(t)
  PROVE  Exclusive'
  <1> DEFINE q == connections
             h == Head(connections)
  <1>1. q \in Seq(Conns) /\ q # <<>> /\ Len(q) \in Nat \ {0}
    BY DEF TypeOK, TakeFront
  <1>2. h = q[1] /\ 1 \in DOMAIN q
    BY <1>1
  <1>3. /\ Tail(q) \in Seq(Conns)
        /\ DOMAIN Tail(q) = 1..(Len(q) - 1)
        /\ \A i \in DOMAIN Tail(q) : Tail(q)[i] = q[i + 1] /\ i + 1 \in DOMAIN q
    BY <1>1
  <1>4. /\ held' = [held EXCEPT ![t] = h]
        /\ connections' = Tail(q)
        /\ held \in [Threads -> Conns \cup {NoConn}]
    BY DEF TakeFront, TypeOK
  <1>5. \A s \in Threads : held[s] # h
    BY <1>2 DEF Exclusive
  <1>6. \A t1, t2 \in Threads : held'[t1] # NoConn /\ held'[t1] = held'[t2] => t1 = t2
    BY <1>4, <1>5 DEF Exclusive
  <1>7. ASSUME NEW i \in DOMAIN connections'
        PROVE  /\ connections'[i] # h
               /\ \A s \in Threads : connections'[i] # held[s]
    <2>1. connections'[i] = q[i + 1] /\ i + 1 \in DOMAIN q /\ i \in Nat \ {0}
      BY <1>1, <1>3, <1>4
    <2>2. i + 1 # 1
      BY <2>1
    <2>3. QED BY <2>1, <2>2, <1>2 DEF Exclusive
  <1>8. \A s \in Threads, i \in DOMAIN connections' : connections'[i] # held'[s]
    BY <1>4, <1>7
  <1>9. ASSUME NEW i \in DOMAIN connections', NEW j \in DOMAIN connections',
               connections'[i] = connections'[j]
        PROVE  i = j
    <2>1. /\ connections'[i] = q[i + 1] /\ i + 1 \in DOMAIN q /\ i \in Nat
          /\ connections'[j] = q[j + 1] /\ j + 1 \in DOMAIN q /\ j \in Nat
      BY <1>1, <1>3, <1>4
    <2>2. i + 1 = j + 1
      BY <2>1, <1>9 DEF Exclusive
    <2>3. QED BY <2>1, <2>2
  <1>10. QED BY <1>6, <1>8, <1>9 DEF Exclusive

\* release() appends what its caller owned, and the caller owns it no more.
LEMMA ReleaseExclusive ==
  ASSUME TypeOK, Exclusive, NEW t \in Threads, Release(t)
  PROVE  Exclusive'
  <1> DEFINE q == connections
  <1>1. /\ q \in Seq(Conns) /\ Len(q) \in Nat
        /\ held \in [Threads -> Conns \cup {NoConn}]
        /\ held[t] \in Conns /\ held[t] # NoConn
        /\ held' = [held EXCEPT ![t] = NoConn]
        /\ connections' = Append(q, held[t])
    BY DEF TypeOK, Release
  <1>2. /\ DOMAIN connections' = 1..(Len(q) + 1) /\ DOMAIN q = 1..Len(q)
        /\ connections'[Len(q) + 1] = held[t]
        /\ \A i \in DOMAIN q : connections'[i] = q[i]
    BY <1>1
  <1>3. \A i \in DOMAIN connections' : i \in DOMAIN q \/ i = Len(q) + 1
    BY <1>1, <1>2
  <1>4. NoConn \notin Conns
    BY DEF NoConn, Conns
  <1>5. \A t1, t2 \in Threads : held'[t1] # NoConn /\ held'[t1] = held'[t2] => t1 = t2
    BY <1>1 DEF Exclusive
  <1>6. ASSUME NEW s \in Threads, NEW i \in DOMAIN connections'
        PROVE  connections'[i] # held'[s]
    <2>1. connections'[i] \in Conns
      BY <1>1, <1>2, <1>3
    <2>2. CASE s = t
      BY <2>1, <2>2, <1>1, <1>4
    <2>3. CASE s # t /\ i \in DOMAIN q
      BY <2>3, <1>1, <1>2 DEF Exclusive
    <2>4. CASE s # t /\ i = Len(q) + 1
      BY <2>4, <1>1, <1>2 DEF Exclusive
    <2>5. QED BY <2>2, <2>3, <2>4, <1>3
  <1>7. ASSUME NEW i \in DOMAIN connections', NEW j \in DOMAIN connections',
               connections'[i] = connections'[j]
        PROVE  i = j
    <2>1. \A k \in DOMAIN q : q[k] # held[t]
      BY DEF Exclusive
    <2>2. QED BY <2>1, <1>2, <1>3, <1>7 DEF Exclusive
  <1>8. QED BY <1>5, <1>6, <1>7 DEF Exclusive

\* No step puts a connection in two places.
LEMMA NextExclusive == TypeOK /\ Exclusive /\ [Next]_vars => Exclusive'
  <1> SUFFICES ASSUME TypeOK, Exclusive, [Next]_vars
               PROVE  Exclusive'
    OBVIOUS
  <1>1. ASSUME NEW t \in Threads, AcquireAtOnce(t)
        PROVE  Exclusive'
    BY <1>1, TakeFrontExclusive DEF AcquireAtOnce
  <1>2. ASSUME NEW t \in Threads, AcquireWait(t)
        PROVE  Exclusive'
    BY <1>2 DEF AcquireWait, Exclusive
  <1>3. ASSUME NEW t \in Threads, WakeAndTake(t)
        PROVE  Exclusive'
    BY <1>3, TakeFrontExclusive DEF WakeAndTake
  <1>4. ASSUME NEW t \in Threads, WakeAndWait(t)
        PROVE  Exclusive'
    BY <1>4 DEF WakeAndWait, Exclusive
  <1>5. ASSUME NEW t \in Threads, SpuriousWakeup(t)
        PROVE  Exclusive'
    BY <1>5 DEF SpuriousWakeup, Exclusive
  <1>6. ASSUME NEW t \in Threads, Release(t)
        PROVE  Exclusive'
    BY <1>6, ReleaseExclusive
  <1>7. ASSUME NEW t \in Threads, Drop(t)
        PROVE  Exclusive'
    <2>1. /\ held' = [held EXCEPT ![t] = NoConn] /\ connections' = connections
          /\ held \in [Threads -> Conns \cup {NoConn}]
          /\ connections \in Seq(Conns)
      BY <1>7 DEF Drop, TypeOK
    <2>2. \A i \in DOMAIN connections : connections[i] # NoConn
      <3>1. \A i \in DOMAIN connections : connections[i] \in Conns
        BY <2>1
      <3>2. NoConn \notin Conns
        BY DEF Conns, NoConn
      <3>3. QED BY <3>1, <3>2
    <2>3. QED BY <2>1, <2>2 DEF Exclusive
  <1>8. CASE UNCHANGED vars
    BY <1>8 DEF vars, Exclusive
  <1>9. QED BY <1>1, <1>2, <1>3, <1>4, <1>5, <1>6, <1>7, <1>8 DEF Next

\* The constructor opens distinct connections.
LEMMA InitExclusive == Init => Exclusive
  BY PoolAssumption DEF Init, Exclusive, NoConn

\* No connection is ever in two places.
THEOREM PoolExclusive == Spec => []Exclusive
  BY InitTypeOK, NextTypeOK, InitExclusive, NextExclusive, PTL DEF Spec

-----------------------------------------------------------------------------
(* A thread inside acquire() owns nothing, and it is asleep or awake but   *)
(* not both: what the wake-ups and the refinement rest on.                 *)

Waiters ==
  /\ asleep \cap awake = {}
  /\ \A t \in asleep \cup awake : held[t] = NoConn

\* Nobody waits yet.
LEMMA InitWaiters == Init => Waiters
  BY DEF Init, Waiters

\* Who waits owns nothing, and is asleep or awake but not both.
LEMMA NextWaiters == TypeOK /\ Waiters /\ [Next]_vars => Waiters'
  <1> SUFFICES ASSUME TypeOK, Waiters, [Next]_vars
               PROVE  Waiters'
    OBVIOUS
  <1> USE DEF TypeOK, Waiters
  <1>1. ASSUME NEW t \in Threads, AcquireAtOnce(t)
        PROVE  Waiters'
    BY <1>1 DEF AcquireAtOnce, TakeFront, Outside
  <1>2. ASSUME NEW t \in Threads, AcquireWait(t)
        PROVE  Waiters'
    BY <1>2 DEF AcquireWait, Outside
  <1>3. ASSUME NEW t \in Threads, WakeAndTake(t)
        PROVE  Waiters'
    BY <1>3 DEF WakeAndTake, TakeFront
  <1>4. ASSUME NEW t \in Threads, WakeAndWait(t)
        PROVE  Waiters'
    BY <1>4 DEF WakeAndWait
  <1>5. ASSUME NEW t \in Threads, SpuriousWakeup(t)
        PROVE  Waiters'
    BY <1>5 DEF SpuriousWakeup
  <1>6. ASSUME NEW t \in Threads, Release(t)
        PROVE  Waiters'
    BY <1>6 DEF Release, NotifyOne
  <1>7. ASSUME NEW t \in Threads, Drop(t)
        PROVE  Waiters'
    BY <1>7 DEF Drop
  <1>8. CASE UNCHANGED vars
    BY <1>8 DEF vars
  <1>9. QED BY <1>1, <1>2, <1>3, <1>4, <1>5, <1>6, <1>7, <1>8 DEF Next

-----------------------------------------------------------------------------
(* No lost wake-up.  The bound Len(connections) <= Cardinality(awake) is   *)
(* kept by release(), which adds one to both sides, and by a woken thread  *)
(* that takes a connection, which takes one from both.                     *)

\* The woken threads can be counted.
LEMMA AwakeFinite ==
  ASSUME TypeOK
  PROVE  /\ IsFiniteSet(awake) /\ Cardinality(awake) \in Nat
         /\ \A t : /\ IsFiniteSet(awake \cup {t})
                   /\ t \notin awake => Cardinality(awake \cup {t}) = Cardinality(awake) + 1
                   /\ t \in awake => Cardinality(awake \ {t}) = Cardinality(awake) - 1
  <1>1. IsFiniteSet(awake)
    BY PoolAssumption, FS_Subset DEF TypeOK
  <1>2. QED BY <1>1, FS_CardinalityType, FS_AddElement, FS_RemoveElement

\* Nobody sleeps yet.
LEMMA InitNoLostWakeup == Init => NoLostWakeup
  BY DEF Init, NoLostWakeup

\* Every step keeps the bound of free connections by woken threads.
LEMMA NextNoLostWakeup ==
  TypeOK /\ Waiters /\ NoLostWakeup /\ [Next]_vars => NoLostWakeup'
  <1> SUFFICES ASSUME TypeOK, Waiters, NoLostWakeup, [Next]_vars
               PROVE  NoLostWakeup'
    OBVIOUS
  <1> DEFINE len == Len(connections)
             card == Cardinality(awake)
  <1>0. /\ connections \in Seq(Conns) /\ len \in Nat /\ card \in Nat
        /\ connections # <<>> => Len(Tail(connections)) = len - 1 /\ len # 0
        /\ connections = <<>> => len = 0
    BY AwakeFinite DEF TypeOK
  <1>1. ASSUME NEW t \in Threads, AcquireAtOnce(t)
        PROVE  NoLostWakeup'
    BY <1>0, <1>1 DEF AcquireAtOnce, TakeFront, NoLostWakeup
  <1>2. ASSUME NEW t \in Threads, AcquireWait(t)
        PROVE  NoLostWakeup'
    BY <1>0, <1>2 DEF AcquireWait, NoLostWakeup
  <1>3. ASSUME NEW t \in Threads, WakeAndTake(t)
        PROVE  NoLostWakeup'
    BY <1>0, <1>3, AwakeFinite DEF WakeAndTake, TakeFront, NoLostWakeup
  <1>4. ASSUME NEW t \in Threads, WakeAndWait(t)
        PROVE  NoLostWakeup'
    <2>1. Cardinality(awake \ {t}) = card - 1 /\ card - 1 \in Nat
      <3>1. IsFiniteSet(awake \ {t}) /\ Cardinality(awake \ {t}) \in Nat
        BY AwakeFinite, FS_Subset, FS_CardinalityType
      <3>2. QED BY <1>4, <3>1, AwakeFinite DEF WakeAndWait
    <2>2. QED BY <1>0, <1>4, <2>1 DEF WakeAndWait, NoLostWakeup
  <1>5. ASSUME NEW t \in Threads, SpuriousWakeup(t)
        PROVE  NoLostWakeup'
    <2>1. Cardinality(awake \cup {t}) = card + 1 /\ asleep # {}
      BY <1>5, AwakeFinite DEF SpuriousWakeup, Waiters
    <2>2. QED BY <1>0, <1>5, <2>1 DEF SpuriousWakeup, NoLostWakeup
  <1>6. ASSUME NEW t \in Threads, Release(t)
        PROVE  NoLostWakeup'
    <2>1. Len(connections') = len + 1
      BY <1>6, <1>0 DEF Release
    <2>2. CASE asleep = {}
      BY <2>2, <1>6 DEF Release, NotifyOne, NoLostWakeup
    <2>3. CASE asleep # {}
      <3>1. PICK s \in asleep : awake' = awake \cup {s}
        BY <2>3, <1>6 DEF Release, NotifyOne
      <3>2. Cardinality(awake') = card + 1
        BY <3>1, AwakeFinite DEF Waiters
      <3>3. QED BY <2>1, <2>3, <3>2, <1>0 DEF NoLostWakeup
    <2>4. QED BY <2>2, <2>3
  <1>7. ASSUME NEW t \in Threads, Drop(t)
        PROVE  NoLostWakeup'
    BY <1>7 DEF Drop, NoLostWakeup
  <1>8. CASE UNCHANGED vars
    BY <1>8 DEF vars, NoLostWakeup
  <1>9. QED BY <1>1, <1>2, <1>3, <1>4, <1>5, <1>6, <1>7, <1>8 DEF Next

\* A thread sleeps in acquire() only while every free connection has a woken
\* thread coming for it.
THEOREM PoolNoLostWakeup == Spec => []NoLostWakeup
  BY InitTypeOK, NextTypeOK, InitWaiters, NextWaiters, InitNoLostWakeup,
     NextNoLostWakeup, PTL DEF Spec

-----------------------------------------------------------------------------
(* The pool implements its contract: a thread that takes a connection, at  *)
(* once or after a wait, acquires; going to sleep and waking up are        *)
(* invisible.                                                              *)

\* A new pool is a full queue.
LEMMA InitContract == Init => Contract!Init
  BY DEF Init, Contract!Init, Contract!FullPool, NoConn, Contract!NoConn

\* Every step is one of the contract, or invisible to it.
LEMMA NextContract ==
  TypeOK /\ Waiters /\ [Next]_vars => [Contract!Next]_(Contract!contractVars)
  <1> SUFFICES ASSUME TypeOK, Waiters, [Next]_vars
               PROVE  Contract!Next \/ UNCHANGED Contract!contractVars
    OBVIOUS
  <1> USE DEF NoConn, Contract!NoConn, Contract!contractVars
  <1>1. ASSUME NEW t \in Threads, TakeFront(t), held[t] = NoConn
        PROVE  Contract!Next
    BY <1>1 DEF TakeFront, Contract!Next, Contract!Acquire
  <1>2. ASSUME NEW t \in Threads, AcquireAtOnce(t) \/ WakeAndTake(t)
        PROVE  Contract!Next
    BY <1>1, <1>2 DEF AcquireAtOnce, WakeAndTake, Outside, Waiters
  <1>3. ASSUME NEW t \in Threads,
               AcquireWait(t) \/ WakeAndWait(t) \/ SpuriousWakeup(t)
        PROVE  UNCHANGED Contract!contractVars
    BY <1>3 DEF AcquireWait, WakeAndWait, SpuriousWakeup
  <1>4. ASSUME NEW t \in Threads, Release(t)
        PROVE  Contract!Next
    BY <1>4 DEF Release, Contract!Next, Contract!Release
  <1>5. ASSUME NEW t \in Threads, Drop(t)
        PROVE  Contract!Next
    BY <1>5 DEF Drop, Contract!Next, Contract!Drop
  <1>6. CASE UNCHANGED vars
    BY <1>6 DEF vars
  <1>7. QED BY <1>2, <1>3, <1>4, <1>5, <1>6 DEF Next

\* The mutex and the condition variable implement the atomic queue.
THEOREM PoolImplementsContract == Spec => ImplementsContract
  BY InitTypeOK, NextTypeOK, InitWaiters, NextWaiters, InitContract, NextContract,
     PTL DEF Spec, ImplementsContract, Contract!Spec
=============================================================================
