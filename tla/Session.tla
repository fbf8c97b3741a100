------------------------------- MODULE Session -------------------------------
(***************************************************************************)
(* Session and RequestParser, and the clients at the other ends of the     *)
(* connections.  A session lives on what it has begun: a read or a write,  *)
(* whose completion a thread of module Server handles and begins the next. *)
(*                                                                         *)
(* A client's stream is a sequence of halves: request n is the halves      *)
(* 2n - 1 and 2n.  Where a request is cut in two, in its header or in its  *)
(* body, is left open.                                                     *)
(***************************************************************************)
EXTENDS Naturals, Sequences, FiniteSets

CONSTANTS
  Conns,        \* connections that clients make, each of them once
  Threads,      \* threads of the io_service
  MaxHalves,    \* bound: halves that each client sends
  MAX_LENGTH,   \* how many halves fit in one read
  Invalid,      \* numbers of the requests with a wrong version or method
  Large,        \* connections with answers that do not fit in one send
  Faults        \* subset of {"throw", "accept_error"}

NoConn == "no connection"

\* A request of the clients that keep to the promise of module HttpService,
\* two halves, fits in one read.
ASSUME SessionAssumption ==
  /\ MaxHalves \in [Conns -> Nat]
  /\ MAX_LENGTH \in Nat /\ MAX_LENGTH >= 2
  /\ NoConn \notin Conns

VARIABLES
  conn,          \* the connection: see ConnStates
  peer,          \* the client's end: up, fin (it sends no more) or reset
  sent,          \* halves that the client has sent
  polite,        \* history: requests in one piece, one at a time, small answers
  answers,       \* history: what was written to the connection
  op,            \* what the session has begun: see Ops
  failed,        \* the operation ended with an error
  data_,         \* halves in the read buffer: from first to last
  response_msg,  \* the response whose first part has been sent
  thread,        \* what the thread does: see ThreadStates
  session        \* the session it does it for

clientVars == <<peer, sent, polite>>
ioVars == <<op, failed, data_, response_msg, answers>>
threadVars == <<thread, session>>
sessionVars == <<conn, clientVars, ioVars, threadVars>>

\* backlog: made by the kernel for the listening socket.  accepted: its
\* handle_accept has not begun.
ConnStates == {"none", "backlog", "accepted", "open", "closed"}

\* read_done and write_done are completions in the queue of the io_service.
Ops == {"none", "read", "read_done", "write", "write_done"}

\* request: in handle_read.  accept: in handle_accept, before start_accept.
ThreadStates == {"idle", "request", "accept", "ended"}

Response(kind, n) == [kind |-> kind, request |-> n]
BadRequest == Response("bad", 0)
Garbage == Response("garbage", 0)
NoData == [first |-> 0, last |-> 0]

SessionInit ==
  /\ conn = [c \in Conns |-> "none"]
  /\ peer = [c \in Conns |-> "up"]
  /\ sent = [c \in Conns |-> 0]
  /\ polite = [c \in Conns |-> c \notin Large]
  /\ answers = [c \in Conns |-> <<>>]
  /\ op = [c \in Conns |-> "none"]
  /\ failed = [c \in Conns |-> FALSE]
  /\ data_ = [c \in Conns |-> NoData]
  /\ response_msg = [c \in Conns |-> BadRequest]
  /\ thread = [t \in Threads |-> "idle"]
  /\ session = [t \in Threads |-> NoConn]

-----------------------------------------------------------------------------
(* Clients.                                                                *)

Connected(c) == conn[c] \in {"backlog", "accepted", "open"}

Connect(c) ==
  /\ conn[c] = "none"
  /\ \E t \in Threads : thread[t] # "ended"
  /\ conn' = [conn EXCEPT ![c] = "backlog"]
  /\ UNCHANGED <<clientVars, ioVars, threadVars>>

\* Two halves at once arrive at once.
Send(c, halves) ==
  /\ Connected(c) /\ peer[c] = "up"
  /\ sent[c] + halves <= MaxHalves[c]
  /\ sent' = [sent EXCEPT ![c] = @ + halves]
  /\ polite' = [polite EXCEPT ![c] = @ /\ halves = 2 /\ sent[c] = 2 * Len(answers[c])]
  /\ UNCHANGED <<conn, peer, ioVars, threadVars>>

Leave(c, how) ==
  /\ Connected(c)
  /\ \/ how = "fin" /\ peer[c] = "up"
     \/ how = "reset" /\ peer[c] # "reset"
  /\ peer' = [peer EXCEPT ![c] = how]
  /\ UNCHANGED <<conn, sent, polite, ioVars, threadVars>>

ClientStep(c) ==
  \/ Connect(c)
  \/ \E halves \in 1..2 : Send(c, halves)
  \/ \E how \in {"fin", "reset"} : Leave(c, how)

-----------------------------------------------------------------------------
(* What a read makes of a request.                                         *)

RequestOf(half) == (half + 1) \div 2

\* RequestParser::parse of the halves first to last as one message.  Behind
\* the first whole request everything is ignored; half a request fails unless
\* the cut is in the body.
parse(first, last) ==
  LET n == RequestOf(first)
      begins == first = 2 * n - 1
  IN IF ~begins \/ n \in Invalid THEN {"bad"}
     ELSE IF last = first THEN {"bad", "part"}
     ELSE {"answer"}

\* Session::handle_response: an invalid request is refused, another one gets
\* its handler's answer.
handle_response(first, last) ==
  {IF kind = "bad" THEN BadRequest ELSE Response(kind, RequestOf(first)) :
     kind \in parse(first, last)}

-----------------------------------------------------------------------------
(* Reading and writing.                                                    *)

\* The reactor runs, and handlers are called, in a thread that is in run().
Idle(t) == thread[t] = "idle"
SomeIdle == \E t \in Threads : Idle(t)

\* Mutant: the whole buffer is taken for read.
Receive_WholeBuffer(c) ==
  /\ op[c] = "read" /\ SomeIdle
  /\ data_[c].last < sent[c]
  /\ data_' = [data_ EXCEPT ![c] = [first |-> @.last + 1, last |-> @.last + MAX_LENGTH]]
  /\ op' = [op EXCEPT ![c] = "read_done"]
  /\ UNCHANGED <<conn, clientVars, failed, response_msg, answers, threadVars>>

\* Mutant: what was read before is still in the buffer.
Receive_Appends(c) ==
  /\ op[c] = "read" /\ SomeIdle
  /\ data_[c].last < sent[c]
  /\ data_' = [data_ EXCEPT ![c] = [first |-> 1, last |-> sent[c]]]
  /\ op' = [op EXCEPT ![c] = "read_done"]
  /\ UNCHANGED <<conn, clientVars, failed, response_msg, answers, threadVars>>

\* async_read_some ends with what there is to read, or with an error.
Receive(c) ==
  /\ op[c] = "read" /\ SomeIdle
  /\ \/ LET first == data_[c].last + 1
            last == IF sent[c] < data_[c].last + MAX_LENGTH
                      THEN sent[c] ELSE data_[c].last + MAX_LENGTH
        IN /\ first <= sent[c]
           /\ data_' = [data_ EXCEPT ![c] = [first |-> first, last |-> last]]
           /\ UNCHANGED failed
     \/ /\ \/ peer[c] = "reset"
           \/ peer[c] = "fin" /\ data_[c].last = sent[c]
        /\ failed' = [failed EXCEPT ![c] = TRUE]
        /\ UNCHANGED data_
  /\ op' = [op EXCEPT ![c] = "read_done"]
  /\ UNCHANGED <<conn, clientVars, response_msg, answers, threadVars>>

\* The last reference to a session goes, and its socket is closed.
Close(c) == conn' = [conn EXCEPT ![c] = "closed"]

\* Mutant: the next read is begun before the answer is written.
BeginRead_ReadsOn(t, c) ==
  /\ Idle(t) /\ op[c] = "read_done" /\ ~failed[c]
  /\ op' = [op EXCEPT ![c] = "read"]
  /\ thread' = [thread EXCEPT ![t] = "request"]
  /\ session' = [session EXCEPT ![t] = c]
  /\ UNCHANGED <<conn, clientVars, failed, data_, response_msg, answers>>

\* handle_read is called; with an error it begins nothing.
BeginRead(t, c) ==
  /\ Idle(t) /\ op[c] = "read_done"
  /\ op' = [op EXCEPT ![c] = "none"]
  /\ IF failed[c]
       THEN Close(c) /\ UNCHANGED threadVars
       ELSE /\ thread' = [thread EXCEPT ![t] = "request"]
            /\ session' = [session EXCEPT ![t] = c]
            /\ UNCHANGED conn
  /\ UNCHANGED <<clientVars, failed, data_, response_msg, answers>>

Writes(c, r) == answers' = [answers EXCEPT ![c] = Append(@, r)]

\* async_write sends at once what the socket takes: everything, unless the
\* answer is large or the client leaves earlier ones unread.
EndRead(t) ==
  LET c == session[t]
  IN /\ thread[t] = "request" /\ peer[c] # "reset"
     /\ \E r \in handle_response(data_[c].first, data_[c].last) :
          \/ /\ Writes(c, r)
             /\ op' = [op EXCEPT ![c] = "write_done"]
             /\ UNCHANGED response_msg
          \/ /\ c \in Large \/ ~polite[c]
             /\ op' = [op EXCEPT ![c] = "write"]
             /\ response_msg' = [response_msg EXCEPT ![c] = r]
             /\ UNCHANGED answers
     /\ thread' = [thread EXCEPT ![t] = "idle"]
     /\ session' = [session EXCEPT ![t] = NoConn]
     /\ UNCHANGED <<conn, clientVars, failed, data_>>

\* remote_endpoint() throws when the client has reset the connection, and a
\* handler may throw.  The exception leaves run() and ends the thread.
Throw(t) ==
  LET c == session[t]
  IN /\ thread[t] = "request"
     /\ peer[c] = "reset" \/ "throw" \in Faults
     /\ Close(c)
     /\ thread' = [thread EXCEPT ![t] = "ended"]
     /\ session' = [session EXCEPT ![t] = NoConn]
     /\ UNCHANGED <<clientVars, ioVars>>

\* The rest is sent from memory that was freed when handle_read returned: it
\* still holds the response, or something else.
SendRest(c) ==
  /\ op[c] = "write" /\ SomeIdle
  /\ op' = [op EXCEPT ![c] = "write_done"]
  /\ IF peer[c] = "reset"
       THEN failed' = [failed EXCEPT ![c] = TRUE] /\ UNCHANGED answers
       ELSE /\ \E r \in {response_msg[c], Garbage} : Writes(c, r)
            /\ UNCHANGED failed
  /\ response_msg' = [response_msg EXCEPT ![c] = BadRequest]
  /\ UNCHANGED <<conn, clientVars, data_, threadVars>>

\* Mutant: nothing is read after an answer.
HandleWrite_NoRead(t, c) ==
  /\ Idle(t) /\ op[c] = "write_done"
  /\ op' = [op EXCEPT ![c] = "none"]
  /\ UNCHANGED <<conn, clientVars, failed, data_, response_msg, answers, threadVars>>

\* handle_write: the next read, unless the write failed.
HandleWrite(t, c) ==
  /\ Idle(t) /\ op[c] = "write_done"
  /\ IF failed[c]
       THEN Close(c) /\ op' = [op EXCEPT ![c] = "none"]
       ELSE UNCHANGED conn /\ op' = [op EXCEPT ![c] = "read"]
  /\ UNCHANGED <<clientVars, failed, data_, response_msg, answers, threadVars>>
=============================================================================
