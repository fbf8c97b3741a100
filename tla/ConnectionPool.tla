--------------------------- MODULE ConnectionPool ---------------------------
(***************************************************************************)
(* PostgresConnectionPool and RedisConnectionPool, which are the same code *)
(* over two connection types: a std::queue under a mutex, and one          *)
(* std::condition_variable that release() signals with notify_one().       *)
(*                                                                         *)
(* The mutex is held from the first line of acquire() to the wait, from a  *)
(* wake-up to the next wait or the return, and all through release(): each *)
(* of these is one step.  A thread inside cv_.wait is in asleep until a    *)
(* notify_one or a spurious wake-up moves it to awake, where it competes   *)
(* for the mutex with every other caller and tests the predicate again.    *)
(***************************************************************************)
EXTENDS Naturals, Sequences, FiniteSets

CONSTANTS Threads,    \* the threads that call acquire() and release()
          pool_size   \* connections the constructor opens

ASSUME PoolAssumption == pool_size \in Nat /\ IsFiniteSet(Threads)

VARIABLES connections,  \* connections_, the queue of free connections
          held,         \* the connection each caller owns, 0 for none
          asleep,       \* threads blocked inside cv_.wait
          awake         \* threads woken there, not yet past the predicate

vars == <<connections, held, asleep, awake>>

NoConn == 0
Conns  == 1..pool_size

TypeOK ==
  /\ connections \in Seq(Conns)
  /\ held \in [Threads -> Conns \cup {NoConn}]
  /\ asleep \subseteq Threads
  /\ awake \subseteq Threads

Init ==
  /\ connections = [i \in 1..pool_size |-> i]
  /\ held = [t \in Threads |-> NoConn]
  /\ asleep = {}
  /\ awake = {}

\* A thread that holds nothing and is not inside acquire().
Outside(t) == held[t] = NoConn /\ t \notin asleep \cup awake

\* Mutant: the connection handed out stays in the queue (pop forgotten).
TakeFront_NoPop(t) ==
  /\ connections # <<>>
  /\ held' = [held EXCEPT ![t] = Head(connections)]
  /\ UNCHANGED connections

\* The rest of acquire() once the predicate holds: take the front.
TakeFront(t) ==
  /\ connections # <<>>
  /\ held' = [held EXCEPT ![t] = Head(connections)]
  /\ connections' = Tail(connections)

\* acquire() called while a connection is free: the wait returns at once.
AcquireAtOnce(t) ==
  /\ Outside(t)
  /\ TakeFront(t)
  /\ UNCHANGED <<asleep, awake>>

\* acquire() called while none is free: the mutex is given up and the thread
\* sleeps.
AcquireWait(t) ==
  /\ Outside(t)
  /\ connections = <<>>
  /\ asleep' = asleep \cup {t}
  /\ UNCHANGED <<connections, held, awake>>

\* A woken thread has the mutex back and finds a connection.
WakeAndTake(t) ==
  /\ t \in awake
  /\ TakeFront(t)
  /\ awake' = awake \ {t}
  /\ UNCHANGED asleep

\* A woken thread finds that another caller was faster, and waits again.
WakeAndWait(t) ==
  /\ t \in awake
  /\ connections = <<>>
  /\ awake' = awake \ {t}
  /\ asleep' = asleep \cup {t}
  /\ UNCHANGED <<connections, held>>

\* The standard library may wake a waiter that nobody notified.
SpuriousWakeup(t) ==
  /\ t \in asleep
  /\ asleep' = asleep \ {t}
  /\ awake' = awake \cup {t}
  /\ UNCHANGED <<connections, held>>

\* Mutant: notify only when the queue was empty before the push, the usual
\* "saving" that strands the second of two waiters.
NotifyOne_OnlyFirst ==
  IF asleep = {} \/ connections # <<>>
    THEN UNCHANGED <<asleep, awake>>
    ELSE \E s \in asleep : /\ asleep' = asleep \ {s}
                           /\ awake' = awake \cup {s}

\* Mutant: the notification is forgotten.
NotifyOne_Forgotten == UNCHANGED <<asleep, awake>>

\* cv_.notify_one(): some sleeper, if there is one.
NotifyOne ==
  IF asleep = {}
    THEN UNCHANGED <<asleep, awake>>
    ELSE \E s \in asleep : /\ asleep' = asleep \ {s}
                           /\ awake' = awake \cup {s}

\* Mutant: release() returns the connection but the caller's pointer is
\* still used for the next query.
Release_StillUsed(t) ==
  /\ held[t] # NoConn
  /\ connections' = Append(connections, held[t])
  /\ UNCHANGED held
  /\ NotifyOne

\* Mutant: the pointer is cleared before it is pushed.
Release_Cleared(t) ==
  /\ held[t] # NoConn
  /\ connections' = Append(connections, NoConn)
  /\ held' = [held EXCEPT ![t] = NoConn]
  /\ NotifyOne

Release(t) ==
  /\ held[t] # NoConn
  /\ connections' = Append(connections, held[t])
  /\ held' = [held EXCEPT ![t] = NoConn]
  /\ NotifyOne

\* RealRedisClient::get leaves by an exception between acquire() and
\* release(): nobody holds the connection any more, and nobody returns it.
Drop(t) ==
  /\ held[t] # NoConn
  /\ held' = [held EXCEPT ![t] = NoConn]
  /\ UNCHANGED <<connections, asleep, awake>>

Next ==
  \E t \in Threads :
    \/ AcquireAtOnce(t)
    \/ AcquireWait(t)
    \/ WakeAndTake(t)
    \/ WakeAndWait(t)
    \/ SpuriousWakeup(t)
    \/ Release(t)
    \/ Drop(t)

Spec == Init /\ [][Next]_vars

(***************************************************************************)
(* A woken thread gets the mutex and runs on, and a caller that owns a     *)
(* connection finishes its query and gives it up.  Nothing is assumed of   *)
(* the calls to acquire(), of spurious wake-ups, of dropped connections or *)
(* of which sleeper notify_one picks: the standard promises no order.      *)
(***************************************************************************)
FairSpec ==
  /\ Spec
  /\ \A t \in Threads : /\ WF_vars(WakeAndTake(t) \/ WakeAndWait(t))
                        /\ WF_vars(Release(t))

-----------------------------------------------------------------------------
(***************************************************************************)
(* Two threads never own the same connection, an owned connection is not   *)
(* in the queue, and the queue holds none twice: acquire() and release()   *)
(* hand connections over, they never share one.  libpq and redis++ objects *)
(* would be used by two threads at once otherwise.                         *)
(***************************************************************************)
Exclusive ==
  /\ \A t1, t2 \in Threads : held[t1] # NoConn /\ held[t1] = held[t2] => t1 = t2
  /\ \A t \in Threads, i \in DOMAIN connections : connections[i] # held[t]
  /\ \A i, j \in DOMAIN connections : connections[i] = connections[j] => i = j

(***************************************************************************)
(* No lost wake-up: while somebody sleeps in acquire(), every free         *)
(* connection has a woken thread on its way to it.  A sleeper beside an    *)
(* unclaimed connection would wait for a release that need never come.     *)
(***************************************************************************)
NoLostWakeup ==
  asleep # {} => Len(connections) <= Cardinality(awake)

(***************************************************************************)
(* The pool keeps moving: as long as one connection has not been dropped,  *)
(* a thread that waits in acquire() means that some thread will own a      *)
(* connection, again and again, until nobody waits.                        *)
(***************************************************************************)
AllDropped == connections = <<>> /\ \A t \in Threads : held[t] = NoConn

PoolProgress ==
  (asleep \cup awake # {}) ~> (AllDropped \/ \E t \in Threads : held[t] # NoConn)

\* The locks and wake-ups above implement the atomic queue of PoolContract.
Contract == INSTANCE PoolContract WITH open <- TRUE
ImplementsContract == Contract!Spec
=============================================================================
