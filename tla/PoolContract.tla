---------------------------- MODULE PoolContract ----------------------------
(***************************************************************************)
(* What a connection pool promises the threads that use it, whatever it is *)
(* built from: connections_ is a queue, acquire() hands its front to one   *)
(* caller, release() puts a connection at the back.  Connection i is the   *)
(* i-th one the constructor opened; 0 stands for no connection.            *)
(*                                                                         *)
(* Drop is not an operation of the pool.  It is what a caller does that    *)
(* leaves its scope without calling release(): the pool stays one          *)
(* connection short for the life of the process.                           *)
(***************************************************************************)
EXTENDS Naturals, Sequences

CONSTANTS Threads, pool_size

VARIABLES open,        \* the pool exists
          connections, \* connections_
          held         \* the connection each thread owns

contractVars == <<open, connections, held>>

NoConn == 0
Conns  == 1..pool_size

\* The constructor opens pool_size connections and pushes them in order.
FullPool == [i \in 1..pool_size |-> i]

TypeOK ==
  /\ open \in BOOLEAN
  /\ connections \in Seq(Conns)
  /\ held \in [Threads -> Conns \cup {NoConn}]

Init ==
  /\ open = TRUE
  /\ connections = FullPool
  /\ held = [t \in Threads |-> NoConn]

Acquire(t) ==
  /\ open
  /\ held[t] = NoConn
  /\ connections # <<>>
  /\ held' = [held EXCEPT ![t] = Head(connections)]
  /\ connections' = Tail(connections)
  /\ UNCHANGED open

Release(t) ==
  /\ open
  /\ held[t] # NoConn
  /\ connections' = Append(connections, held[t])
  /\ held' = [held EXCEPT ![t] = NoConn]
  /\ UNCHANGED open

Drop(t) ==
  /\ open
  /\ held[t] # NoConn
  /\ held' = [held EXCEPT ![t] = NoConn]
  /\ UNCHANGED <<open, connections>>

\* The process ends, and its pool with it; a new process builds a new one.
Destroy ==
  /\ open' = FALSE
  /\ connections' = <<>>
  /\ held' = [t \in Threads |-> NoConn]

Construct ==
  /\ ~open
  /\ open' = TRUE
  /\ connections' = FullPool
  /\ held' = [t \in Threads |-> NoConn]

Next ==
  \/ \E t \in Threads : Acquire(t) \/ Release(t) \/ Drop(t)
  \/ Destroy
  \/ Construct

Spec == Init /\ [][Next]_contractVars

-----------------------------------------------------------------------------
\* No connection is lost without trace as long as nobody drops one: what a
\* client that always releases implements.
NextNoDrop ==
  \/ \E t \in Threads : Acquire(t) \/ Release(t)
  \/ Destroy
  \/ Construct

SpecNoDrop == Init /\ [][NextNoDrop]_contractVars
=============================================================================
