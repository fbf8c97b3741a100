------------------------------- MODULE Server --------------------------------
(***************************************************************************)
(* Server and the threads that main runs the io_service in: connections    *)
(* are accepted one after the other, each handle_accept beginning the next *)
(* accept, and every completion is handled by whichever thread is idle.    *)
(***************************************************************************)
EXTENDS Session

CONSTANT
  Stuck   \* connections whose requests a handler may never finish

VARIABLES
  accept,  \* the chain of accepts: see AcceptStates
  thrown   \* history: the threads that an exception has ended

vars == <<sessionVars, accept, thrown>>

\* done, error: the completion is in the queue.  handled: in handle_accept.
\* lost: handle_accept was left without start_accept.
AcceptStates == {"pending", "done", "error", "handled", "lost"}

\* The constructor of Server begins the first accept.
Init ==
  /\ SessionInit
  /\ accept = "pending"
  /\ thrown = {}

-----------------------------------------------------------------------------

Accept(c) ==
  /\ accept = "pending" /\ SomeIdle
  /\ conn[c] = "backlog"
  /\ \/ accept' = "done" /\ conn' = [conn EXCEPT ![c] = "accepted"]
     \/ "accept_error" \in Faults /\ accept' = "error" /\ UNCHANGED conn
  /\ UNCHANGED <<clientVars, ioVars, threadVars, thrown>>

\* handle_accept up to start_accept.  remote_endpoint() throws when the client
\* has gone; otherwise the session is started.
HandleAccept(t) ==
  /\ Idle(t)
  /\ \/ /\ accept = "error"
        /\ accept' = "handled"
        /\ thread' = [thread EXCEPT ![t] = "accept"]
        /\ UNCHANGED <<conn, op, thrown>>
     \/ \E c \in Conns :
          /\ accept = "done" /\ conn[c] = "accepted"
          /\ IF peer[c] = "reset"
               THEN /\ accept' = "lost"
                    /\ conn' = [conn EXCEPT ![c] = "closed"]
                    /\ thread' = [thread EXCEPT ![t] = "ended"]
                    /\ thrown' = thrown \cup {t}
                    /\ UNCHANGED op
               ELSE /\ accept' = "handled"
                    /\ conn' = [conn EXCEPT ![c] = "open"]
                    /\ op' = [op EXCEPT ![c] = "read"]
                    /\ thread' = [thread EXCEPT ![t] = "accept"]
                    /\ UNCHANGED thrown
  /\ UNCHANGED <<clientVars, failed, data_, response_msg, answers, session>>

start_accept(t) ==
  /\ thread[t] = "accept"
  /\ accept' = "pending"
  /\ thread' = [thread EXCEPT ![t] = "idle"]
  /\ UNCHANGED <<conn, clientVars, ioVars, session, thrown>>

\* Boost.Asio's rule: run() returns when nothing has been begun and no handler
\* runs, for then nothing is left that could begin something.  The signal_set
\* made after it is destroyed with the thread, so no signal is ever waited for.
RunReturns(t) ==
  /\ Idle(t)
  /\ accept = "lost"
  /\ \A c \in Conns : op[c] = "none"
  /\ \A s \in Threads : thread[s] \in {"idle", "ended"}
  /\ thread' = [thread EXCEPT ![t] = "ended"]
  /\ UNCHANGED <<conn, clientVars, ioVars, session, accept, thrown>>

\* main joins the threads and returns; what is open is closed.
Exit ==
  /\ \A t \in Threads : thread[t] = "ended"
  /\ \E c \in Conns : Connected(c)
  /\ conn' = [c \in Conns |-> IF Connected(c) THEN "closed" ELSE conn[c]]
  /\ op' = [c \in Conns |-> "none"]
  /\ UNCHANGED <<clientVars, failed, data_, response_msg, answers, threadVars, accept, thrown>>

EndHandler(t) ==
  \/ EndRead(t) /\ UNCHANGED <<accept, thrown>>
  \/ Throw(t) /\ thrown' = thrown \cup {t} /\ UNCHANGED accept

SessionStep ==
  \/ /\ \E c \in Conns : ClientStep(c) \/ Receive(c) \/ SendRest(c)
     /\ UNCHANGED <<accept, thrown>>
  \/ /\ \E t \in Threads, c \in Conns : BeginRead(t, c) \/ HandleWrite(t, c)
     /\ UNCHANGED <<accept, thrown>>
  \/ \E t \in Threads : EndHandler(t)

Next ==
  \/ SessionStep
  \/ \E c \in Conns : Accept(c)
  \/ \E t \in Threads : HandleAccept(t) \/ start_accept(t) \/ RunReturns(t)
  \/ Exit

Spec == Init /\ [][Next]_vars

\* A thread goes on with what it does, except in a handler that is stuck.  The
\* queue of the io_service is first in, first out, and the reactor is an entry
\* of it: what can be done again and again by an idle thread is done.
FairSpec ==
  /\ Spec
  /\ \A t \in Threads :
       /\ WF_vars(start_accept(t))
       /\ WF_vars(session[t] \notin Stuck /\ EndHandler(t))
  /\ \A c \in Conns :
       /\ SF_vars((Receive(c) \/ SendRest(c)) /\ UNCHANGED <<accept, thrown>>)
       /\ SF_vars(\E t \in Threads : (BeginRead(t, c) \/ HandleWrite(t, c))
                                       /\ UNCHANGED <<accept, thrown>>)

-----------------------------------------------------------------------------
(* Properties.                                                             *)

Responses == [kind : {"bad", "garbage", "answer", "part"}, request : Nat]

TypeOK ==
  /\ conn \in [Conns -> ConnStates]
  /\ peer \in [Conns -> {"up", "fin", "reset"}]
  /\ sent \in [Conns -> Nat]
  /\ polite \in [Conns -> BOOLEAN]
  /\ answers \in [Conns -> Seq(Responses)]
  /\ op \in [Conns -> Ops]
  /\ failed \in [Conns -> BOOLEAN]
  /\ data_ \in [Conns -> [first : Nat, last : Nat]]
  /\ \A c \in Conns : data_[c].last <= sent[c] /\ sent[c] <= MaxHalves[c]
  /\ response_msg \in [Conns -> Responses]
  /\ thread \in [Threads -> ThreadStates]
  /\ session \in [Threads -> Conns \cup {NoConn}]
  /\ accept \in AcceptStates
  /\ thrown \subseteq Threads

Handling(t, c) == thread[t] = "request" /\ session[t] = c

\* A session is used by one thread at a time without a lock or a strand, and
\* is never forgotten while its connection is open: it waits for one
\* operation, or one thread handles its completion, and never both.
SessionHeld ==
  /\ \A c \in Conns, t \in Threads :
       Handling(t, c) => /\ conn[c] = "open" /\ op[c] = "none"
                         /\ \A s \in Threads : Handling(s, c) => s = t
  /\ \A c \in Conns :
       /\ conn[c] = "open" => op[c] # "none" \/ \E t \in Threads : Handling(t, c)
       /\ op[c] # "none" => conn[c] = "open"

\* The clients that an exception may have been thrown for.
Culprits == {c \in Conns : conn[c] = "closed" /\ (peer[c] = "reset" \/ "throw" \in Faults)}

\* Every exception ends a thread for good, so what a client can cost matters:
\* at most one thread each, and never before its connection is closed; and
\* accepting ends only through a client that is gone before it got an answer.
OneThreadPerClient ==
  /\ \E culprit \in [thrown -> Culprits] :
       \A s, t \in thrown : culprit[s] = culprit[t] => s = t
  /\ accept = "lost" =>
       \E c \in Conns : conn[c] = "closed" /\ peer[c] = "reset" /\ answers[c] = <<>>

\* The promise to the clients.
Http == INSTANCE HttpService WITH asked <- [c \in Conns |-> sent[c] \div 2]
KeepsHttpPromise == Http!HttpSpec

\* A client that waits for an answer gets it or is disconnected, as long as
\* more threads are left than handlers can be stuck.
Waiting(c) ==
  /\ conn[c] = "open" /\ peer[c] = "up"
  /\ polite[c] /\ 2 * Len(answers[c]) < sent[c]
  /\ Cardinality({t \in Threads : thread[t] # "ended"}) > Cardinality(Stuck)
Served == \A c \in Conns \ Stuck : Waiting(c) ~> ~Waiting(c)

\* "start_accept();  // wait for next client": while a thread runs, the next
\* client is waited for.
AcceptingGoesOn ==
  (\E t \in Threads : thread[t] # "ended") => accept # "lost"

\* "send Response and continue reading loop": what is sent is the response.
SendsResponse ==
  \A c \in Conns : \A i \in DOMAIN answers[c] : answers[c][i] # Garbage
=============================================================================
