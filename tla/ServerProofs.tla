---------------------------- MODULE ServerProofs ----------------------------
(***************************************************************************)
(* What holds of the server for every number of threads and connections,   *)
(* however the clients cut their requests and whichever faults happen.     *)
(***************************************************************************)
EXTENDS Server, TLAPS

\* A thread in handle_read has a session.
RequestsHaveSessions == \A t \in Threads : thread[t] = "request" => session[t] \in Conns

\* A thread that an exception has left is gone.
ThrownEnded == \A t \in thrown : thread[t] = "ended"

\* Before its session is started a client is not answered.
Unstarted(c) == conn[c] \in {"none", "backlog", "accepted"}
UnstartedUnanswered == \A c \in Conns : Unstarted(c) => answers[c] = <<>>

CostInv == OneThreadPerClient /\ ThrownEnded /\ UnstartedUnanswered

SessionsHeld == RequestsHaveSessions /\ SessionHeld
ThreadInv == TypeOK /\ SessionsHeld /\ CostInv

\* What the read buffer holds is yet to be answered.
Fresh(c) == (op[c] = "read_done" /\ ~failed[c]) \/ \E t \in Threads : Handling(t, c)

\* The buffer begins with the half after the last one that was answered.
BufferInv(c) ==
  /\ Fresh(c) => 1 <= data_[c].first /\ data_[c].first <= data_[c].last
  /\ \A i \in DOMAIN answers[c] :
       2 * answers[c][i].request <= IF Fresh(c) THEN data_[c].first ELSE data_[c].last + 1

\* What may be written to a connection of which the buffer was read up to last.
Allowed(c, r, last) ==
  \/ r = BadRequest
  \/ \E n \in 1..(last + 1) :
       /\ \/ r = Response("answer", n) /\ 2 * n <= last
          \/ r = Response("part", n) /\ 2 * n <= last + 1
       /\ \A i \in DOMAIN answers[c] : answers[c][i].request < n

\* A response whose first part is sent may still be answered.
WriteInv(c) == op[c] = "write" => Allowed(c, response_msg[c], data_[c].last)

\* An operation that failed is a session's last.
FailedInv(c) == failed[c] => conn[c] = "closed" \/ op[c] \in {"read_done", "write_done"}

\* A polite client waits for nothing, or its next request is whole in the
\* buffer or whole before it.
PoliteInv(c) ==
  polite[c] /\ conn[c] # "closed" =>
    /\ c \notin Large /\ op[c] # "write"
    /\ sent[c] \in {2 * Len(answers[c]), 2 * Len(answers[c]) + 2}
    /\ IF Fresh(c)
         THEN /\ sent[c] = 2 * Len(answers[c]) + 2
              /\ data_[c].first = 2 * Len(answers[c]) + 1
              /\ data_[c].last = 2 * Len(answers[c]) + 2
         ELSE data_[c].last = 2 * Len(answers[c])

StreamInv(c) == BufferInv(c) /\ WriteInv(c) /\ FailedInv(c) /\ PoliteInv(c)

IInv == ThreadInv /\ \A c \in Conns : StreamInv(c)

-----------------------------------------------------------------------------
(* Types.                                                                  *)

\* A request's number.
LEMMA RequestNumber ==
  ASSUME NEW first \in Nat
  PROVE  /\ RequestOf(first) \in Nat
         /\ first = 2 * RequestOf(first) - 1 \/ first = 2 * RequestOf(first)
  BY SMT DEF RequestOf

\* Session::handle_response answers an invalid or cut request with 400, or
\* the request that the buffer begins with.
LEMMA ResponseTo ==
  ASSUME NEW first \in Nat, NEW last \in Nat, NEW r \in handle_response(first, last)
  PROVE  /\ r \in Responses
         /\ \/ r = BadRequest
            \/ /\ first = 2 * RequestOf(first) - 1
               /\ \/ r = Response("answer", RequestOf(first)) /\ first # last
                  \/ r = Response("part", RequestOf(first))
  <1>1. PICK kind \in parse(first, last) :
          r = IF kind = "bad" THEN BadRequest ELSE Response(kind, RequestOf(first))
    BY DEF handle_response
  <1>2. RequestOf(first) \in Nat
    BY RequestNumber
  <1>3. CASE first = 2 * RequestOf(first) - 1 /\ RequestOf(first) \notin Invalid
    <2>1. kind \in {"bad", "part", "answer"} /\ (kind = "answer" => first # last)
      BY <1>3 DEF parse
    <2>2. QED BY <1>1, <1>2, <1>3, <2>1 DEF Response, BadRequest, Responses
  <1>4. CASE ~(first = 2 * RequestOf(first) - 1 /\ RequestOf(first) \notin Invalid)
    <2>1. kind = "bad"
      BY <1>4 DEF parse
    <2>2. QED BY <1>1, <2>1 DEF Response, BadRequest, Responses
  <1>5. QED BY <1>3, <1>4

\* Writing appends a response.
LEMMA WritesType ==
  ASSUME answers \in [Conns -> Seq(Responses)], NEW c \in Conns, NEW r \in Responses, Writes(c, r)
  PROVE  answers' \in [Conns -> Seq(Responses)]
  <1>1. Append(answers[c], r) \in Seq(Responses)
    OBVIOUS
  <1>2. QED BY <1>1 DEF Writes

\* The server begins with correct types.
LEMMA InitTypeOK == Init => TypeOK
  <1> SUFFICES ASSUME Init PROVE TypeOK
    OBVIOUS
  <1>1. <<>> \in Seq(Responses) /\ BadRequest \in Responses /\ NoData \in [first : Nat, last : Nat]
    BY DEF Responses, BadRequest, Response, NoData
  <1>2. QED BY <1>1, SessionAssumption DEF Init, SessionInit, TypeOK, ConnStates, Ops, ThreadStates,
                                           AcceptStates, NoData

\* No step breaks a type, and no buffer holds what was not sent.
LEMMA NextTypeOK == TypeOK /\ SessionsHeld /\ [Next]_vars => TypeOK'
  <1> SUFFICES ASSUME TypeOK, SessionsHeld, [Next]_vars
               PROVE  TypeOK'
    OBVIOUS
  <1> USE DEF TypeOK, SessionsHeld, Idle, Close, ConnStates, Ops, ThreadStates, AcceptStates
  <1>1. ASSUME NEW c \in Conns, Connect(c), UNCHANGED <<accept, thrown>>
        PROVE  TypeOK'
    BY <1>1 DEF Connect, clientVars, ioVars, threadVars
  <1>2. ASSUME NEW c \in Conns, NEW halves \in 1..2, Send(c, halves), UNCHANGED <<accept, thrown>>
        PROVE  TypeOK'
    BY <1>2, SessionAssumption DEF Send, clientVars, ioVars, threadVars
  <1>3. ASSUME NEW c \in Conns, NEW how \in {"fin", "reset"}, Leave(c, how), UNCHANGED <<accept, thrown>>
        PROVE  TypeOK'
    BY <1>3 DEF Leave, clientVars, ioVars, threadVars
  <1>4. ASSUME NEW c \in Conns, Receive(c), UNCHANGED <<accept, thrown>>
        PROVE  TypeOK'
    <2>1. /\ data_[c].first \in Nat /\ data_[c].last \in Nat /\ sent[c] \in Nat
          /\ data_[c].last <= sent[c] /\ MAX_LENGTH \in Nat
      BY SessionAssumption
    <2>2. CASE failed' = [failed EXCEPT ![c] = TRUE] /\ data_' = data_
      BY <1>4, <2>2 DEF Receive, clientVars, threadVars
    <2>3. CASE /\ failed' = failed
               /\ \E last \in Nat :
                    /\ last <= sent[c]
                    /\ data_' = [data_ EXCEPT ![c] = [first |-> data_[c].last + 1, last |-> last]]
      BY <1>4, <2>1, <2>3 DEF Receive, clientVars, threadVars
    <2>4. QED BY <1>4, <2>1, <2>2, <2>3 DEF Receive
  <1>5. ASSUME NEW c \in Conns, SendRest(c), UNCHANGED <<accept, thrown>>
        PROVE  TypeOK'
    <2>1. answers' \in [Conns -> Seq(Responses)]
      <3>1. \/ answers' = answers
            \/ \E r \in {response_msg[c], Garbage} : Writes(c, r)
        BY <1>5 DEF SendRest
      <3>2. response_msg[c] \in Responses /\ Garbage \in Responses
        BY DEF Responses, Garbage, Response
      <3>3. QED BY <3>1, <3>2, WritesType
    <2>2. BadRequest \in Responses
      BY DEF Responses, BadRequest, Response
    <2>3. QED BY <1>5, <2>1, <2>2 DEF SendRest, clientVars, threadVars
  <1>6. ASSUME NEW t \in Threads, NEW c \in Conns, BeginRead(t, c), UNCHANGED <<accept, thrown>>
        PROVE  TypeOK'
    BY <1>6 DEF BeginRead, clientVars, ioVars, threadVars
  <1>7. ASSUME NEW t \in Threads, NEW c \in Conns, HandleWrite(t, c), UNCHANGED <<accept, thrown>>
        PROVE  TypeOK'
    BY <1>7 DEF HandleWrite, clientVars, ioVars, threadVars
  <1>8. ASSUME NEW t \in Threads, EndRead(t), UNCHANGED <<accept, thrown>>
        PROVE  TypeOK'
    <2> DEFINE d == session[t]
    <2>1. d \in Conns /\ data_[d].first \in Nat /\ data_[d].last \in Nat
      BY <1>8 DEF EndRead, RequestsHaveSessions
    <2>2. PICK r \in handle_response(data_[d].first, data_[d].last) :
            \/ Writes(d, r) /\ op' = [op EXCEPT ![d] = "write_done"] /\ response_msg' = response_msg
            \/ /\ op' = [op EXCEPT ![d] = "write"]
               /\ response_msg' = [response_msg EXCEPT ![d] = r] /\ answers' = answers
      BY <1>8 DEF EndRead
    <2>3. r \in Responses
      BY <2>1, ResponseTo
    <2>4. answers' \in [Conns -> Seq(Responses)]
      BY <2>1, <2>2, <2>3, WritesType
    <2>5. op' \in [Conns -> Ops] /\ response_msg' \in [Conns -> Responses]
      <3>1. op' = [op EXCEPT ![d] = "write_done"] \/ op' = [op EXCEPT ![d] = "write"]
        BY <2>2
      <3>2. response_msg' = response_msg \/ response_msg' = [response_msg EXCEPT ![d] = r]
        BY <2>2
      <3>3. op \in [Conns -> Ops] /\ "write" \in Ops /\ "write_done" \in Ops
        BY DEF Ops
      <3>4. response_msg \in [Conns -> Responses]
        OBVIOUS
      <3>5. op' \in [Conns -> Ops]
        BY ONLY <3>1, <3>3
      <3>6. response_msg' \in [Conns -> Responses]
        BY ONLY <2>3, <3>2, <3>4
      <3>7. QED BY <3>5, <3>6
    <2>6. thread' \in [Threads -> ThreadStates] /\ session' \in [Threads -> Conns \cup {NoConn}]
      BY <1>8 DEF EndRead
    <2>7. QED BY <1>8, <2>4, <2>5, <2>6 DEF EndRead, clientVars
  <1>9. ASSUME NEW t \in Threads, Throw(t), thrown' = thrown \cup {t}, UNCHANGED accept
        PROVE  TypeOK'
    BY <1>9 DEF Throw, clientVars, ioVars, threadVars
  <1>10. ASSUME NEW c \in Conns, Accept(c)
        PROVE  TypeOK'
    BY <1>10 DEF Accept, clientVars, ioVars, threadVars
  <1>11. ASSUME NEW t \in Threads, HandleAccept(t)
        PROVE  TypeOK'
    <2>1. /\ UNCHANGED <<peer, sent, polite, failed, data_, response_msg, answers, session>>
          /\ accept' \in AcceptStates /\ thrown' \subseteq Threads
      BY <1>11 DEF HandleAccept, clientVars
    <2>2. thread' \in [Threads -> ThreadStates]
      <3>1. \/ thread' = [thread EXCEPT ![t] = "accept"]
            \/ thread' = [thread EXCEPT ![t] = "ended"]
        BY <1>11 DEF HandleAccept
      <3>2. QED BY <3>1
    <2>3. conn' \in [Conns -> ConnStates] /\ op' \in [Conns -> Ops]
      <3>1. CASE UNCHANGED <<conn, op>>
        BY <3>1
      <3>2. CASE ~UNCHANGED <<conn, op>>
        <4>1. PICK c \in Conns :
                \/ conn' = [conn EXCEPT ![c] = "closed"] /\ op' = op
                \/ conn' = [conn EXCEPT ![c] = "open"] /\ op' = [op EXCEPT ![c] = "read"]
          BY <1>11, <3>2 DEF HandleAccept
        <4>2. QED BY <4>1
      <3>3. QED BY <3>1, <3>2
    <2>4. QED BY <2>1, <2>2, <2>3
  <1>12. ASSUME NEW t \in Threads, start_accept(t)
        PROVE  TypeOK'
    BY <1>12 DEF start_accept, clientVars, ioVars, threadVars
  <1>13. ASSUME NEW t \in Threads, RunReturns(t)
        PROVE  TypeOK'
    BY <1>13 DEF RunReturns, clientVars, ioVars, threadVars
  <1>14. ASSUME Exit
        PROVE  TypeOK'
    BY <1>14 DEF Exit, clientVars, ioVars, threadVars
  <1>15. CASE UNCHANGED vars
    BY <1>15 DEF vars, sessionVars, clientVars, ioVars, threadVars
  <1>16. QED
    BY <1>1, <1>2, <1>3, <1>4, <1>5, <1>6, <1>7, <1>8,
       <1>9, <1>10, <1>11, <1>12, <1>13, <1>14, <1>15
    DEF Next, SessionStep, ClientStep, EndHandler

-----------------------------------------------------------------------------
(* One thread at a time uses a session, and every open one waits for an    *)
(* operation or is in a thread's hands.                                    *)

\* No operation and no thread belongs to a session at first.
LEMMA InitHeld == Init => SessionsHeld
  BY DEF Init, SessionInit, SessionsHeld, RequestsHaveSessions, SessionHeld, Handling

\* Every step hands a session on to an operation or to one thread.
LEMMA NextHeld == TypeOK /\ SessionsHeld /\ [Next]_vars => SessionsHeld'
  <1> SUFFICES ASSUME TypeOK, SessionsHeld, [Next]_vars
               PROVE  SessionsHeld'
    OBVIOUS
  <1> USE DEF TypeOK, Idle, Close, SessionsHeld, RequestsHaveSessions, SessionHeld, Handling, Connected
  <1>1. ASSUME NEW c \in Conns, Connect(c), UNCHANGED <<accept, thrown>>
        PROVE  SessionsHeld'
    BY <1>1 DEF Connect, clientVars, ioVars, threadVars
  <1>2. ASSUME NEW c \in Conns, NEW halves \in 1..2, Send(c, halves), UNCHANGED <<accept, thrown>>
        PROVE  SessionsHeld'
    BY <1>2 DEF Send, clientVars, ioVars, threadVars
  <1>3. ASSUME NEW c \in Conns, NEW how \in {"fin", "reset"}, Leave(c, how), UNCHANGED <<accept, thrown>>
        PROVE  SessionsHeld'
    BY <1>3 DEF Leave, clientVars, ioVars, threadVars
  <1>4. ASSUME NEW c \in Conns, Receive(c), UNCHANGED <<accept, thrown>>
        PROVE  SessionsHeld'
    BY <1>4 DEF Receive, clientVars, ioVars, threadVars
  <1>5. ASSUME NEW c \in Conns, SendRest(c), UNCHANGED <<accept, thrown>>
        PROVE  SessionsHeld'
    BY <1>5 DEF SendRest, clientVars, ioVars, threadVars
  <1>6. ASSUME NEW t \in Threads, NEW c \in Conns, BeginRead(t, c), UNCHANGED <<accept, thrown>>
        PROVE  SessionsHeld'
    <2>1. conn[c] = "open" /\ \A s \in Threads : ~Handling(s, c)
      BY <1>6 DEF BeginRead
    <2>2. CASE failed[c]
      BY <1>6, <2>1, <2>2 DEF BeginRead, threadVars
    <2>3. CASE ~failed[c]
      <3>1. /\ op' = [op EXCEPT ![c] = "none"] /\ conn' = conn
            /\ thread' = [thread EXCEPT ![t] = "request"] /\ session' = [session EXCEPT ![t] = c]
        BY <1>6, <2>3 DEF BeginRead
      <3>2. RequestsHaveSessions'
        BY <3>1
      <3>3. \A s \in Threads, d \in Conns :
              Handling(s, d)' <=> IF s = t THEN d = c ELSE Handling(s, d)
        BY <3>1
      <3>4. ~\E d \in Conns : Handling(t, d)
        BY <1>6 DEF BeginRead
      <3>5. SessionHeld'
        BY <2>1, <3>1, <3>3, <3>4
      <3>6. QED BY <3>2, <3>5
    <2>4. QED BY <2>2, <2>3
  <1>7. ASSUME NEW t \in Threads, NEW c \in Conns, HandleWrite(t, c), UNCHANGED <<accept, thrown>>
        PROVE  SessionsHeld'
    <2>1. conn[c] = "open" /\ \A s \in Threads : ~Handling(s, c)
      BY <1>7 DEF HandleWrite
    <2>2. CASE failed[c]
      <3>1. /\ op' = [op EXCEPT ![c] = "none"] /\ conn' = [conn EXCEPT ![c] = "closed"]
            /\ thread' = thread /\ session' = session
        BY <1>7, <2>2 DEF HandleWrite, threadVars
      <3>2. QED BY <2>1, <3>1
    <2>3. CASE ~failed[c]
      BY <1>7, <2>1, <2>3 DEF HandleWrite, threadVars
    <2>4. QED BY <2>2, <2>3
  <1>8. ASSUME NEW t \in Threads, EndRead(t), UNCHANGED <<accept, thrown>>
        PROVE  SessionsHeld'
    <2> DEFINE d == session[t]
    <2>1. /\ thread[t] = "request" /\ d \in Conns /\ conn' = conn
          /\ thread' = [thread EXCEPT ![t] = "idle"] /\ session' = [session EXCEPT ![t] = NoConn]
      BY <1>8 DEF EndRead
    <2>2. \/ op' = [op EXCEPT ![d] = "write_done"]
          \/ op' = [op EXCEPT ![d] = "write"]
      BY <1>8 DEF EndRead
    <2>3. conn[d] = "open" /\ \A s \in Threads : Handling(s, d) => s = t
      BY <2>1
    <2>4. RequestsHaveSessions'
      BY <2>1
    <2>5. \A s \in Threads, e \in Conns : Handling(s, e)' <=> s # t /\ Handling(s, e)
      BY <2>1
    <2>6. SessionHeld'
      BY <2>1, <2>2, <2>3, <2>5
    <2>7. QED BY <2>4, <2>6
  <1>9. ASSUME NEW t \in Threads, Throw(t), thrown' = thrown \cup {t}, UNCHANGED accept
        PROVE  SessionsHeld'
    BY <1>9 DEF Throw, clientVars, ioVars, threadVars
  <1>10. ASSUME NEW c \in Conns, Accept(c)
        PROVE  SessionsHeld'
    BY <1>10 DEF Accept, clientVars, ioVars, threadVars
  <1>11. ASSUME NEW t \in Threads, HandleAccept(t)
        PROVE  SessionsHeld'
    <2>1. \/ thread' = [thread EXCEPT ![t] = "accept"]
          \/ thread' = [thread EXCEPT ![t] = "ended"]
      BY <1>11 DEF HandleAccept
    <2>2. session' = session /\ thread[t] = "idle"
      BY <1>11 DEF HandleAccept
    <2>3. RequestsHaveSessions'
      BY <2>1, <2>2
    <2>4. \A s \in Threads, e \in Conns : Handling(s, e)' <=> Handling(s, e)
      BY <2>1, <2>2
    <2>5. CASE UNCHANGED <<conn, op>>
      BY <2>3, <2>4, <2>5
    <2>6. CASE ~UNCHANGED <<conn, op>>
      <3>1. PICK c \in Conns :
              /\ conn[c] = "accepted"
              /\ \/ conn' = [conn EXCEPT ![c] = "closed"] /\ op' = op
                 \/ conn' = [conn EXCEPT ![c] = "open"] /\ op' = [op EXCEPT ![c] = "read"]
        BY <1>11, <2>6 DEF HandleAccept
      <3>2. \A s \in Threads : ~Handling(s, c)
        BY <3>1
      <3>3. SessionHeld'
        <4>1. \A d \in Conns : d # c => conn'[d] = conn[d] /\ op'[d] = op[d]
          BY <3>1
        <4>2. op'[c] # "none" => conn'[c] = "open"
          BY <3>1
        <4>3. conn'[c] = "open" => op'[c] # "none"
          BY <3>1
        <4>4. \A s \in Threads : ~Handling(s, c)'
          BY <2>4, <3>2
        <4>0. \A d \in Conns :
                /\ conn[d] = "open" => op[d] # "none" \/ \E s \in Threads : Handling(s, d)
                /\ op[d] # "none" => conn[d] = "open"
          BY ONLY SessionsHeld DEF SessionsHeld, SessionHeld
        <4>5. (\A d \in Conns, s \in Threads :
                 Handling(s, d) => /\ conn[d] = "open" /\ op[d] = "none"
                                   /\ \A r \in Threads : Handling(r, d) => r = s)'
          BY <2>4, <4>1, <4>4
        <4>6. (\A d \in Conns :
                 /\ conn[d] = "open" => op[d] # "none" \/ \E s \in Threads : Handling(s, d)
                 /\ op[d] # "none" => conn[d] = "open")'
          BY ONLY <2>4, <4>0, <4>1, <4>2, <4>3
        <4>7. QED BY ONLY <4>5, <4>6 DEF SessionHeld
      <3>4. QED BY <2>3, <3>3
    <2>7. QED BY <2>5, <2>6
  <1>12. ASSUME NEW t \in Threads, start_accept(t)
        PROVE  SessionsHeld'
    BY <1>12 DEF start_accept, clientVars, ioVars, threadVars
  <1>13. ASSUME NEW t \in Threads, RunReturns(t)
        PROVE  SessionsHeld'
    BY <1>13 DEF RunReturns, clientVars, ioVars, threadVars
  <1>14. ASSUME Exit
        PROVE  SessionsHeld'
    BY <1>14 DEF Exit, clientVars, ioVars, threadVars
  <1>15. CASE UNCHANGED vars
    BY <1>15 DEF vars, sessionVars, clientVars, ioVars, threadVars
  <1>16. QED
    BY <1>1, <1>2, <1>3, <1>4, <1>5, <1>6, <1>7, <1>8,
       <1>9, <1>10, <1>11, <1>12, <1>13, <1>14, <1>15
    DEF Next, SessionStep, ClientStep, EndHandler

-----------------------------------------------------------------------------
(* What a client costs.                                                    *)

\* A step in which no exception is thrown: no thread comes back, no client is
\* forgotten, and closed connections stay what they are.
Peaceful(c) ==
  /\ Unstarted(c)' => Unstarted(c) /\ answers'[c] = answers[c]
  /\ conn[c] = "closed" =>
       conn'[c] = "closed" /\ answers'[c] = answers[c] /\ (peer[c] = "reset" => peer'[c] = "reset")
EndedStay == \A s \in Threads : thread[s] = "ended" => thread'[s] = "ended"

\* No thread has ended, and nobody is answered.
LEMMA InitCost == Init => CostInv
  <1> SUFFICES ASSUME Init PROVE CostInv
    OBVIOUS
  <1>1. thrown = {} /\ accept = "pending" /\ \A c \in Conns : answers[c] = <<>>
    BY DEF Init, SessionInit
  <1>2. \E culprit \in [thrown -> Culprits] : \A s, t \in thrown : culprit[s] = culprit[t] => s = t
    <2>1. [t \in {} |-> NoConn] \in [{} -> Culprits]
      OBVIOUS
    <2>2. QED BY <1>1, <2>1
  <1>3. QED BY <1>1, <1>2 DEF CostInv, OneThreadPerClient, ThrownEnded, UnstartedUnanswered

\* Culprits stay culprits.
LEMMA CulpritsStay ==
  ASSUME \A c \in Conns : Peaceful(c)
  PROVE  Culprits \subseteq Culprits'
  BY DEF Culprits, Peaceful

\* Without an exception nothing is paid.
LEMMA NoException ==
  ASSUME CostInv, TypeOK, thrown' = thrown, accept' = accept \/ accept' # "lost",
         EndedStay, \A c \in Conns : Peaceful(c)
  PROVE  CostInv'
  <1>1. PICK culprit \in [thrown -> Culprits] :
          \A s, t \in thrown : culprit[s] = culprit[t] => s = t
    BY DEF CostInv, OneThreadPerClient
  <1>2. culprit \in [thrown' -> Culprits']
    BY <1>1, CulpritsStay
  <1>3. accept' = "lost" =>
          \E c \in Conns : conn'[c] = "closed" /\ peer'[c] = "reset" /\ answers'[c] = <<>>
    BY DEF CostInv, OneThreadPerClient, Peaceful
  <1>4. ThrownEnded' /\ UnstartedUnanswered'
    BY DEF CostInv, ThrownEnded, UnstartedUnanswered, Peaceful, EndedStay, TypeOK
  <1>5. OneThreadPerClient'
    BY <1>1, <1>2, <1>3 DEF OneThreadPerClient
  <1>6. QED BY <1>4, <1>5 DEF CostInv

\* An exception costs a thread and closes the connection it is thrown for.
LEMMA Exception ==
  ASSUME CostInv, TypeOK, NEW t \in Threads, NEW c \in Conns,
         thread[t] # "ended", thread' = [thread EXCEPT ![t] = "ended"], thrown' = thrown \cup {t},
         conn[c] # "closed", c \in Culprits',
         accept' = "lost" =>
           accept = "lost" \/ (conn'[c] = "closed" /\ peer'[c] = "reset" /\ answers'[c] = <<>>),
         \A d \in Conns : Peaceful(d)
  PROVE  CostInv'
  <1>1. PICK culprit \in [thrown -> Culprits] :
          \A r, s \in thrown : culprit[r] = culprit[s] => r = s
    BY DEF CostInv, OneThreadPerClient
  <1>2. t \notin thrown /\ c \notin Culprits
    BY DEF CostInv, ThrownEnded, Culprits
  <1> DEFINE paid == [s \in thrown \cup {t} |-> IF s = t THEN c ELSE culprit[s]]
  <1>3. paid \in [thrown' -> Culprits']
    BY <1>1, <1>2, CulpritsStay
  <1>4. \A r, s \in thrown' : paid[r] = paid[s] => r = s
    <2>1. \A s \in thrown : paid[s] = culprit[s] /\ culprit[s] \in Culprits
      BY <1>1, <1>2
    <2>2. paid[t] = c
      OBVIOUS
    <2> HIDE DEF paid
    <2>3. QED BY <1>1, <1>2, <2>1, <2>2
  <1>5. \E f \in [thrown' -> Culprits'] : \A r, s \in thrown' : f[r] = f[s] => r = s
    <2> HIDE DEF paid
    <2>1. QED BY <1>3, <1>4
  <1>6. accept' = "lost" =>
          \E d \in Conns : conn'[d] = "closed" /\ peer'[d] = "reset" /\ answers'[d] = <<>>
    BY DEF CostInv, OneThreadPerClient, Peaceful
  <1>7. ThrownEnded' /\ UnstartedUnanswered'
    BY DEF CostInv, ThrownEnded, UnstartedUnanswered, Peaceful, TypeOK
  <1>8. OneThreadPerClient'
    BY <1>5, <1>6 DEF OneThreadPerClient
  <1>9. QED BY <1>7, <1>8 DEF CostInv

\* No step costs more than a thread for a connection that it closes.
LEMMA NextCost == ThreadInv /\ [Next]_vars => CostInv'
  <1> SUFFICES ASSUME ThreadInv, [Next]_vars
               PROVE  CostInv'
    OBVIOUS
  <1> USE DEF ThreadInv, TypeOK, Idle, Close, Peaceful, EndedStay, Unstarted
  <1>1. ASSUME NEW c \in Conns, Connect(c), UNCHANGED <<accept, thrown>>
        PROVE  CostInv'
    BY <1>1, NoException DEF Connect, clientVars, ioVars, threadVars
  <1>2. ASSUME NEW c \in Conns, NEW halves \in 1..2, Send(c, halves), UNCHANGED <<accept, thrown>>
        PROVE  CostInv'
    BY <1>2, NoException DEF Send, clientVars, ioVars, threadVars
  <1>3. ASSUME NEW c \in Conns, NEW how \in {"fin", "reset"}, Leave(c, how), UNCHANGED <<accept, thrown>>
        PROVE  CostInv'
    BY <1>3, NoException DEF Leave, Connected, clientVars, ioVars, threadVars
  <1>4. ASSUME NEW c \in Conns, Receive(c), UNCHANGED <<accept, thrown>>
        PROVE  CostInv'
    BY <1>4, NoException DEF Receive, clientVars, ioVars, threadVars
  <1>5. ASSUME NEW c \in Conns, SendRest(c), UNCHANGED <<accept, thrown>>
        PROVE  CostInv'
    <2>1. conn[c] = "open" /\ \A d \in Conns : d # c => answers'[d] = answers[d]
      BY <1>5 DEF SendRest, Writes, SessionsHeld, SessionHeld
    <2>2. UNCHANGED <<conn, peer, thread>>
      BY <1>5 DEF SendRest, clientVars, threadVars
    <2>3. EndedStay /\ \A d \in Conns : Peaceful(d)
      BY <2>1, <2>2
    <2>4. QED BY <1>5, <2>3, NoException
  <1>6. ASSUME NEW t \in Threads, NEW c \in Conns, BeginRead(t, c), UNCHANGED <<accept, thrown>>
        PROVE  CostInv'
    <2>1. conn[c] = "open" /\ UNCHANGED <<peer, answers>>
      BY <1>6 DEF BeginRead, SessionsHeld, SessionHeld, clientVars
    <2>2. EndedStay /\ \A d \in Conns : Peaceful(d)
      BY <1>6, <2>1 DEF BeginRead, threadVars
    <2>3. QED BY <1>6, <2>2, NoException
  <1>7. ASSUME NEW t \in Threads, NEW c \in Conns, HandleWrite(t, c), UNCHANGED <<accept, thrown>>
        PROVE  CostInv'
    <2>1. conn[c] = "open" /\ UNCHANGED <<peer, answers, thread>>
      BY <1>7 DEF HandleWrite, SessionsHeld, SessionHeld, clientVars, threadVars
    <2>2. EndedStay /\ \A d \in Conns : Peaceful(d)
      BY <1>7, <2>1 DEF HandleWrite
    <2>3. QED BY <1>7, <2>2, NoException
  <1>8. ASSUME NEW t \in Threads, EndRead(t), UNCHANGED <<accept, thrown>>
        PROVE  CostInv'
    <2>1. conn[session[t]] = "open" /\ \A d \in Conns : d # session[t] => answers'[d] = answers[d]
      BY <1>8 DEF EndRead, Writes, SessionsHeld, RequestsHaveSessions, SessionHeld, Handling
    <2>2. UNCHANGED <<conn, peer>> /\ EndedStay
      BY <1>8 DEF EndRead, clientVars
    <2>3. \A d \in Conns : Peaceful(d)
      BY <2>1, <2>2
    <2>4. QED BY <1>8, <2>2, <2>3, NoException
  <1>9. ASSUME NEW t \in Threads, Throw(t), thrown' = thrown \cup {t}, UNCHANGED accept
        PROVE  CostInv'
    <2> DEFINE c == session[t]
    <2>1. c \in Conns /\ conn[c] = "open" /\ thread[t] = "request"
      BY <1>9 DEF Throw, SessionsHeld, RequestsHaveSessions, SessionHeld, Handling
    <2>2. /\ UNCHANGED <<peer, answers>> /\ conn' = [conn EXCEPT ![c] = "closed"]
          /\ thread' = [thread EXCEPT ![t] = "ended"]
          /\ peer[c] = "reset" \/ "throw" \in Faults
      BY <1>9 DEF Throw, clientVars, ioVars
    <2>3. c \in Culprits' /\ \A d \in Conns : Peaceful(d)
      BY <2>1, <2>2 DEF Culprits
    <2>4. QED BY <1>9, <2>1, <2>2, <2>3, Exception
  <1>10. ASSUME NEW c \in Conns, Accept(c)
        PROVE  CostInv'
    BY <1>10, NoException DEF Accept, clientVars, ioVars, threadVars
  <1>11. ASSUME NEW t \in Threads, HandleAccept(t)
        PROVE  CostInv'
    <2>1. UNCHANGED <<peer, answers>> /\ thread[t] = "idle" /\ accept # "lost"
      BY <1>11 DEF HandleAccept, clientVars
    <2>2. CASE accept' = "handled"
      <3>1. EndedStay /\ thrown' = thrown
        BY <1>11, <2>1, <2>2 DEF HandleAccept
      <3>2. UNCHANGED conn \/ \E c \in Conns : conn[c] = "accepted" /\ conn' = [conn EXCEPT ![c] = "open"]
        BY <1>11, <2>2 DEF HandleAccept
      <3>3. \A d \in Conns : Peaceful(d)
        BY <2>1, <3>2
      <3>4. QED BY <2>2, <3>1, <3>3, NoException
    <2>3. CASE accept' # "handled"
      <3>1. PICK c \in Conns :
              /\ conn[c] = "accepted" /\ peer[c] = "reset"
              /\ conn' = [conn EXCEPT ![c] = "closed"]
        BY <1>11, <2>3 DEF HandleAccept
      <3>2. thread' = [thread EXCEPT ![t] = "ended"] /\ thrown' = thrown \cup {t}
        BY <1>11, <2>3 DEF HandleAccept
      <3>3. answers[c] = <<>>
        BY <3>1 DEF CostInv, UnstartedUnanswered
      <3>4. c \in Culprits' /\ \A d \in Conns : Peaceful(d)
        BY <2>1, <3>1 DEF Culprits
      <3>5. QED BY <2>1, <3>1, <3>2, <3>3, <3>4, Exception
    <2>4. QED BY <2>2, <2>3
  <1>12. ASSUME NEW t \in Threads, start_accept(t)
        PROVE  CostInv'
    BY <1>12, NoException DEF start_accept, clientVars, ioVars, threadVars
  <1>13. ASSUME NEW t \in Threads, RunReturns(t)
        PROVE  CostInv'
    BY <1>13, NoException DEF RunReturns, clientVars, ioVars, threadVars
  <1>14. ASSUME Exit
        PROVE  CostInv'
    BY <1>14, NoException DEF Exit, Connected, clientVars, ioVars, threadVars
  <1>15. CASE UNCHANGED vars
    BY <1>15, NoException DEF vars, sessionVars, clientVars, ioVars, threadVars
  <1>16. QED
    BY <1>1, <1>2, <1>3, <1>4, <1>5, <1>6, <1>7, <1>8,
       <1>9, <1>10, <1>11, <1>12, <1>13, <1>14, <1>15
    DEF Next, SessionStep, ClientStep, EndHandler

\* The invariants of the threads and what they cost, together.
LEMMA NextThreadInv == ThreadInv /\ [Next]_vars => ThreadInv'
  BY NextTypeOK, NextHeld, NextCost DEF ThreadInv

\* They hold in every state.
LEMMA ThreadInvariant == Spec => []ThreadInv
  <1>1. Init => ThreadInv
    BY InitTypeOK, InitHeld, InitCost DEF ThreadInv
  <1>2. QED BY <1>1, NextThreadInv, PTL DEF Spec

\* Every variable of the server has its type, and no buffer ever claims more
\* than its client has sent.
THEOREM ServerTypeCorrect == Spec => []TypeOK
  <1>1. ThreadInv => TypeOK
    BY DEF ThreadInv
  <1>2. QED BY <1>1, ThreadInvariant, PTL

\* However many threads share the sessions, none is used by two of them or
\* while it waits, and none is forgotten while its connection is open.
THEOREM ServerSessionHeld == Spec => []SessionHeld
  <1>1. ThreadInv => SessionHeld
    BY DEF ThreadInv, SessionsHeld
  <1>2. QED BY <1>1, ThreadInvariant, PTL

\* However many exceptions are thrown, no client costs more than one thread,
\* and accepting ends only through a client that was gone unanswered.
THEOREM ServerOneThreadPerClient == Spec => []OneThreadPerClient
  <1>1. ThreadInv => OneThreadPerClient
    BY DEF ThreadInv, CostInv
  <1>2. QED BY <1>1, ThreadInvariant, PTL

-----------------------------------------------------------------------------
(* The streams.                                                            *)

\* The numbers in a state of correct type.
LEMMA Numbers ==
  ASSUME TypeOK, NEW c \in Conns
  PROVE  /\ data_[c].first \in Nat /\ data_[c].last \in Nat /\ Len(answers[c]) \in Nat
         /\ \A i \in DOMAIN answers[c] : answers[c][i].request \in Nat
  <1>1. data_[c].first \in Nat /\ data_[c].last \in Nat /\ answers[c] \in Seq(Responses)
    BY DEF TypeOK
  <1>2. Len(answers[c]) \in Nat /\ \A i \in DOMAIN answers[c] : answers[c][i] \in Responses
    BY <1>1
  <1>3. QED BY <1>1, <1>2 DEF Responses

\* What touches neither the stream nor the session of a connection.
LEMMA Untouched ==
  ASSUME NEW d \in Conns, StreamInv(d), Fresh(d)' <=> Fresh(d),
         data_'[d] = data_[d], answers'[d] = answers[d], sent'[d] = sent[d],
         polite'[d] => polite[d], conn'[d] # "closed" => conn[d] # "closed",
         op'[d] = "write" => op[d] = "write" /\ response_msg'[d] = response_msg[d],
         FailedInv(d)'
  PROVE  StreamInv(d)'
  <1>1. BufferInv(d)'
    BY DEF StreamInv, BufferInv
  <1>2. WriteInv(d)'
    BY DEF StreamInv, WriteInv, Allowed, Response, BadRequest
  <1>3. PoliteInv(d)'
    BY DEF StreamInv, PoliteInv
  <1>4. QED BY <1>1, <1>2, <1>3 DEF StreamInv

\* The same, where the connection has not moved at all.
LEMMA Elsewhere ==
  ASSUME NEW d \in Conns, StreamInv(d),
         \A s \in Threads : Handling(s, d)' <=> Handling(s, d),
         data_'[d] = data_[d], answers'[d] = answers[d], sent'[d] = sent[d],
         polite'[d] = polite[d], conn'[d] = conn[d], op'[d] = op[d], failed'[d] = failed[d],
         response_msg'[d] = response_msg[d]
  PROVE  StreamInv(d)'
  <1>1. Fresh(d)' <=> Fresh(d)
    BY DEF Fresh
  <1>2. FailedInv(d)'
    BY DEF StreamInv, FailedInv
  <1>3. QED BY <1>1, <1>2, Untouched

\* A session ends: what is in its buffer will not be answered.
LEMMA Closing ==
  ASSUME TypeOK, NEW d \in Conns, StreamInv(d), ~Fresh(d)',
         data_'[d] = data_[d], answers'[d] = answers[d], conn'[d] = "closed", op'[d] # "write"
  PROVE  StreamInv(d)'
  <1>1. BufferInv(d)'
    <2>1. /\ data_[d].first \in Nat /\ data_[d].last \in Nat
          /\ \A i \in DOMAIN answers[d] : answers[d][i].request \in Nat
      BY Numbers
    <2>2. QED BY <2>1 DEF StreamInv, BufferInv
  <1>2. WriteInv(d)' /\ FailedInv(d)' /\ PoliteInv(d)'
    BY DEF WriteInv, FailedInv, PoliteInv
  <1>3. QED BY <1>1, <1>2 DEF StreamInv

\* Nothing is asked or answered at first.
LEMMA InitStream == Init => \A c \in Conns : StreamInv(c)
  <1> SUFFICES ASSUME Init, NEW c \in Conns PROVE StreamInv(c)
    OBVIOUS
  <1>1. /\ conn[c] = "none" /\ sent[c] = 0 /\ (polite[c] => c \notin Large) /\ answers[c] = <<>>
        /\ op[c] = "none" /\ ~failed[c] /\ data_[c].last = 0 /\ ~Fresh(c)
    BY DEF Init, SessionInit, NoData, Fresh, Handling
  <1>2. Len(answers[c]) = 0 /\ DOMAIN answers[c] = {}
    BY <1>1
  <1>3. BufferInv(c) /\ WriteInv(c) /\ FailedInv(c)
    BY <1>1, <1>2 DEF BufferInv, WriteInv, FailedInv
  <1>4. PoliteInv(c)
    BY <1>1, <1>2 DEF PoliteInv
  <1>5. QED BY <1>3, <1>4 DEF StreamInv

\* A client sends.
LEMMA SendStream ==
  ASSUME ThreadInv, NEW c \in Conns, StreamInv(c), NEW halves \in 1..2, Send(c, halves)
  PROVE  StreamInv(c)'
  <1> USE DEF StreamInv
  <1>1. /\ UNCHANGED <<conn, op, failed, data_, response_msg, answers, thread, session>>
        /\ sent' = [sent EXCEPT ![c] = @ + halves]
        /\ polite' = [polite EXCEPT ![c] = @ /\ halves = 2 /\ sent[c] = 2 * Len(answers[c])]
    BY DEF Send, ioVars, threadVars
  <1>2. Fresh(c)' <=> Fresh(c)
    BY <1>1 DEF Fresh, Handling
  <1>3. BufferInv(c)' /\ WriteInv(c)' /\ FailedInv(c)'
    BY <1>1, <1>2 DEF BufferInv, WriteInv, Allowed, FailedInv, Response, BadRequest
  <1>4. PoliteInv(c)'
    <2>1. SUFFICES ASSUME polite'[c], conn[c] # "closed"
                   PROVE  PoliteInv(c)'
      BY <1>1 DEF PoliteInv
    <2>2. /\ polite[c] /\ halves = 2 /\ sent[c] = 2 * Len(answers[c]) /\ sent'[c] = sent[c] + 2
      BY <1>1, <2>1 DEF ThreadInv, TypeOK
    <2>3. Len(answers[c]) \in Nat
      BY DEF ThreadInv, TypeOK
    <2>4. ~Fresh(c)
      BY <2>1, <2>2, <2>3 DEF PoliteInv
    <2>5. QED BY <1>1, <1>2, <2>1, <2>2, <2>3, <2>4 DEF PoliteInv
  <1>5. QED BY <1>3, <1>4

\* A read ends: what it brings follows what was read before.
LEMMA ReceiveStream ==
  ASSUME ThreadInv, NEW c \in Conns, StreamInv(c), Receive(c)
  PROVE  StreamInv(c)'
  <1> USE DEF StreamInv
  <1>1. /\ op[c] = "read" /\ conn[c] = "open" /\ ~failed[c]
        /\ \A s \in Threads : ~Handling(s, c)
    BY DEF Receive, ThreadInv, SessionsHeld, SessionHeld, FailedInv
  <1>2. /\ UNCHANGED <<conn, sent, polite, response_msg, answers, thread, session>>
        /\ op' = [op EXCEPT ![c] = "read_done"]
    BY DEF Receive, clientVars, threadVars
  <1>3. op'[c] = "read_done" /\ ~Fresh(c) /\ \A s \in Threads : ~Handling(s, c)'
    BY <1>1, <1>2 DEF Fresh, Handling, ThreadInv, TypeOK
  <1>4. CASE data_' = data_ /\ failed' = [failed EXCEPT ![c] = TRUE]
    <2>1. ~Fresh(c)' /\ FailedInv(c)'
      BY <1>3, <1>4 DEF Fresh, FailedInv, ThreadInv, TypeOK
    <2>2. QED BY <1>2, <1>3, <1>4, <2>1, Untouched
  <1>5. CASE failed' = failed
    <2> DEFINE last == data_'[c].last
    <2>1. /\ data_'[c].first = data_[c].last + 1 /\ data_'[c].first <= last
          /\ last \in {sent[c], data_[c].last + MAX_LENGTH} /\ last <= sent[c]
          /\ (last # sent[c] => data_[c].last + MAX_LENGTH <= sent[c])
      <3>1. data_[c].first \in Nat /\ data_[c].last \in Nat /\ sent[c] \in Nat
        BY DEF ThreadInv, TypeOK
      <3>2. PICK l \in Nat :
              /\ l = (IF sent[c] < data_[c].last + MAX_LENGTH THEN sent[c] ELSE data_[c].last + MAX_LENGTH)
              /\ data_' = [data_ EXCEPT ![c] = [first |-> data_[c].last + 1, last |-> l]]
              /\ data_[c].last + 1 <= sent[c]
        <4>1. failed' # [failed EXCEPT ![c] = TRUE]
          BY <1>1, <1>5 DEF ThreadInv, TypeOK
        <4>2. QED BY <3>1, <4>1, SessionAssumption DEF Receive
      <3>3. data_'[c].first = data_[c].last + 1 /\ last = l
        BY <3>2 DEF ThreadInv, TypeOK
      <3>4. QED BY <3>1, <3>2, <3>3, SessionAssumption
    <2>2. Fresh(c)'
      BY <1>1, <1>3, <1>5 DEF Fresh
    <2>3. FailedInv(c)' /\ WriteInv(c)'
      BY <1>1, <1>3, <1>5 DEF FailedInv, WriteInv
    <2>4. BufferInv(c)'
      BY <1>2, <1>3, <2>1, <2>2 DEF BufferInv, ThreadInv, TypeOK
    <2>5. PoliteInv(c)'
      <3> SUFFICES ASSUME polite[c]
                   PROVE  PoliteInv(c)'
        BY <1>2 DEF PoliteInv
      <3>1. /\ c \notin Large /\ sent[c] \in {2 * Len(answers[c]), 2 * Len(answers[c]) + 2}
            /\ data_[c].last = 2 * Len(answers[c])
        BY <1>1, <1>3 DEF PoliteInv
      <3>2. Len(answers[c]) \in Nat
        BY DEF ThreadInv, TypeOK
      <3>3. sent[c] = 2 * Len(answers[c]) + 2 /\ last = 2 * Len(answers[c]) + 2
        BY <2>1, <3>1, <3>2, SessionAssumption
      <3>4. QED BY <1>2, <1>3, <2>1, <2>2, <3>1, <3>2, <3>3 DEF PoliteInv
    <2>6. QED BY <2>3, <2>4, <2>5
  <1>6. QED BY <1>4, <1>5 DEF Receive

\* What is written, written out.
LEMMA WritesAppends ==
  ASSUME TypeOK, NEW c \in Conns, NEW r \in Responses, Writes(c, r)
  PROVE  /\ answers'[c] = Append(answers[c], r) /\ \A d \in Conns \ {c} : answers'[d] = answers[d]
         /\ Len(answers[c]) \in Nat /\ Len(answers'[c]) = Len(answers[c]) + 1
         /\ \A i \in DOMAIN answers'[c] :
              \/ i \in DOMAIN answers[c] /\ answers'[c][i] = answers[c][i]
              \/ answers'[c][i] = r
  <1>1. answers'[c] = Append(answers[c], r) /\ \A d \in Conns \ {c} : answers'[d] = answers[d]
    BY DEF Writes, TypeOK
  <1>2. answers[c] \in Seq(Responses)
    BY DEF TypeOK
  <1>3. QED BY <1>1, <1>2

\* The rest of a response is sent.
LEMMA SendRestStream ==
  ASSUME ThreadInv, NEW c \in Conns, StreamInv(c), SendRest(c)
  PROVE  StreamInv(c)'
  <1> USE DEF StreamInv
  <1>1. /\ op[c] = "write" /\ conn[c] = "open" /\ ~polite[c]
        /\ \A s \in Threads : ~Handling(s, c)
    BY DEF SendRest, ThreadInv, SessionsHeld, SessionHeld, PoliteInv
  <1>2. /\ UNCHANGED <<conn, sent, polite, data_, thread, session>>
        /\ op' = [op EXCEPT ![c] = "write_done"]
    BY DEF SendRest, clientVars, threadVars
  <1>3. op'[c] = "write_done" /\ ~Fresh(c) /\ ~Fresh(c)'
    BY <1>1, <1>2 DEF Fresh, Handling, ThreadInv, TypeOK
  <1>4. FailedInv(c)' /\ WriteInv(c)' /\ PoliteInv(c)'
    BY <1>1, <1>2, <1>3 DEF FailedInv, WriteInv, PoliteInv
  <1>5. BufferInv(c)'
    <2>1. CASE answers' = answers
      BY <1>2, <1>3, <2>1 DEF BufferInv
    <2>2. CASE answers' # answers
      <3>1. PICK r \in {response_msg[c], Garbage} : Writes(c, r)
        BY <2>2 DEF SendRest
      <3>2. data_[c].last \in Nat /\ r \in Responses
        BY DEF ThreadInv, TypeOK, Responses, Garbage, Response
      <3>3. 2 * r.request <= data_[c].last + 1
        <4>1. CASE r = Garbage \/ r = BadRequest
          BY <3>2, <4>1 DEF Garbage, BadRequest, Response
        <4>2. CASE r # Garbage /\ r # BadRequest
          <5>1. PICK n \in 1..(data_[c].last + 1) :
                  \/ r = Response("answer", n) /\ 2 * n <= data_[c].last
                  \/ r = Response("part", n) /\ 2 * n <= data_[c].last + 1
            BY <1>1, <3>1, <4>2 DEF WriteInv, Allowed
          <5>2. QED BY <3>2, <5>1 DEF Response
        <4>3. QED BY <4>1, <4>2
      <3>4. \A i \in DOMAIN answers'[c] :
              \/ i \in DOMAIN answers[c] /\ answers'[c][i] = answers[c][i]
              \/ answers'[c][i] = r
        BY <3>1, <3>2, WritesAppends DEF ThreadInv
      <3>5. QED BY <1>2, <1>3, <3>3, <3>4 DEF BufferInv
    <2>3. QED BY <2>1, <2>2
  <1>6. QED BY <1>4, <1>5

\* The response to what the buffer holds may be written.
LEMMA ResponseAllowed ==
  ASSUME TypeOK, NEW c \in Conns, StreamInv(c), Fresh(c),
         NEW r \in handle_response(data_[c].first, data_[c].last)
  PROVE  /\ r \in Responses /\ Allowed(c, r, data_[c].last)
         /\ 2 * r.request <= data_[c].last + 1
  <1> DEFINE n == RequestOf(data_[c].first)
  <1>1. /\ data_[c].first \in Nat /\ data_[c].last \in Nat
        /\ \A i \in DOMAIN answers[c] : answers[c][i].request \in Nat
    BY Numbers
  <1>2. /\ 1 <= data_[c].first /\ data_[c].first <= data_[c].last
        /\ \A i \in DOMAIN answers[c] : 2 * answers[c][i].request <= data_[c].first
    BY DEF StreamInv, BufferInv
  <1>3. n \in Nat /\ r \in Responses
    BY <1>1, RequestNumber, ResponseTo
  <1>4. CASE r = BadRequest
    BY <1>1, <1>3, <1>4 DEF Allowed, BadRequest, Response
  <1>5. CASE r # BadRequest
    <2>1. /\ data_[c].first = 2 * n - 1
          /\ \/ r = Response("answer", n) /\ data_[c].first # data_[c].last
             \/ r = Response("part", n)
      BY <1>1, <1>5, ResponseTo
    <2>2. n \in 1..(data_[c].last + 1) /\ 2 * n <= data_[c].last + 1
      BY <1>1, <1>2, <1>3, <2>1
    <2>3. \A i \in DOMAIN answers[c] : answers[c][i].request < n
      BY <1>1, <1>2, <1>3, <2>1
    <2>4. r = Response("answer", n) => 2 * n <= data_[c].last \/ r = Response("part", n)
      BY <1>1, <1>2, <1>3, <2>1
    <2>5. Allowed(c, r, data_[c].last)
      BY <2>1, <2>2, <2>3, <2>4 DEF Allowed
    <2>6. r.request = n
      BY <2>1 DEF Response
    <2>7. QED BY <1>3, <2>2, <2>5, <2>6
  <1>6. QED BY <1>4, <1>5

\* handle_read ends with a response written, or begun.
LEMMA EndReadStream ==
  ASSUME ThreadInv, NEW t \in Threads, NEW c \in Conns, c = session[t], StreamInv(c), EndRead(t)
  PROVE  StreamInv(c)'
  <1> USE DEF StreamInv
  <1>1. /\ Handling(t, c) /\ conn[c] = "open" /\ op[c] = "none"
        /\ \A s \in Threads : Handling(s, c) => s = t
    BY DEF EndRead, Handling, ThreadInv, SessionsHeld, SessionHeld
  <1>2. Fresh(c)
    BY <1>1 DEF Fresh
  <1>3. /\ UNCHANGED <<conn, sent, polite, failed, data_>>
        /\ thread' = [thread EXCEPT ![t] = "idle"]
    BY DEF EndRead, clientVars
  <1>4. PICK r \in handle_response(data_[c].first, data_[c].last) :
          \/ Writes(c, r) /\ op' = [op EXCEPT ![c] = "write_done"]
          \/ /\ c \in Large \/ ~polite[c]
             /\ op' = [op EXCEPT ![c] = "write"]
             /\ response_msg' = [response_msg EXCEPT ![c] = r]
             /\ answers' = answers
    BY DEF EndRead
  <1>5. /\ r \in Responses /\ Allowed(c, r, data_[c].last)
        /\ 2 * r.request <= data_[c].last + 1
    BY <1>2, ResponseAllowed DEF ThreadInv
  <1>6. op'[c] \in {"write", "write_done"} /\ ~Fresh(c)'
    <2>1. \A s \in Threads : ~Handling(s, c)'
      <3>1. /\ thread'[t] = "idle"
            /\ \A s \in Threads \ {t} : thread'[s] = thread[s] /\ session'[s] = session[s]
        BY DEF EndRead, ThreadInv, TypeOK
      <3>2. QED BY <1>1, <3>1 DEF Handling
    <2>2. op'[c] \in {"write", "write_done"}
      BY <1>4 DEF ThreadInv, TypeOK
    <2>3. QED BY <2>1, <2>2 DEF Fresh
  <1>7. ~failed[c] /\ FailedInv(c)'
    BY <1>1, <1>3 DEF FailedInv
  <1>8. /\ data_[c].first \in Nat /\ data_[c].last \in Nat /\ Len(answers[c]) \in Nat
        /\ \A i \in DOMAIN answers[c] :
             answers[c][i].request \in Nat /\ 2 * answers[c][i].request <= data_[c].last + 1
    <2>1. /\ data_[c].first <= data_[c].last
          /\ \A i \in DOMAIN answers[c] : 2 * answers[c][i].request <= data_[c].first
      BY <1>2 DEF BufferInv
    <2>2. /\ data_[c].first \in Nat /\ data_[c].last \in Nat /\ Len(answers[c]) \in Nat
          /\ \A i \in DOMAIN answers[c] : answers[c][i].request \in Nat
      BY Numbers DEF ThreadInv
    <2>3. \A first, last, n \in Nat : 2 * n <= first /\ first <= last => 2 * n <= last + 1
      BY ONLY SMT
    <2>4. QED BY ONLY <2>1, <2>2, <2>3
  <1>9. CASE Writes(c, r) /\ op' = [op EXCEPT ![c] = "write_done"]
    <2>1. /\ Len(answers'[c]) = Len(answers[c]) + 1
          /\ \A i \in DOMAIN answers'[c] :
               \/ i \in DOMAIN answers[c] /\ answers'[c][i] = answers[c][i]
               \/ answers'[c][i] = r
      BY <1>5, <1>9, WritesAppends DEF ThreadInv
    <2>2. op'[c] = "write_done"
      BY <1>9 DEF ThreadInv, TypeOK
    <2>3. BufferInv(c)'
      BY <1>3, <1>5, <1>6, <1>8, <2>1 DEF BufferInv
    <2>4. WriteInv(c)'
      BY <2>2 DEF WriteInv
    <2>5. PoliteInv(c)'
      BY <1>1, <1>2, <1>3, <1>6, <1>8, <2>1, <2>2 DEF PoliteInv
    <2>6. QED BY <1>7, <2>3, <2>4, <2>5
  <1>10. CASE /\ c \in Large \/ ~polite[c]
              /\ response_msg' = [response_msg EXCEPT ![c] = r]
              /\ answers' = answers
    <2>1. BufferInv(c)'
      BY <1>3, <1>6, <1>8, <1>10 DEF BufferInv
    <2>2. response_msg'[c] = r
      BY <1>10 DEF ThreadInv, TypeOK
    <2>3. WriteInv(c)'
      BY <1>3, <1>5, <1>10, <2>2 DEF WriteInv, Allowed, Response, BadRequest
    <2>4. PoliteInv(c)'
      BY <1>1, <1>3, <1>10 DEF PoliteInv
    <2>5. QED BY <1>7, <2>1, <2>3, <2>4
  <1>11. QED BY <1>4, <1>9, <1>10

\* No step breaks the invariants of a connection's stream.
LEMMA NextStream == ThreadInv /\ (\A c \in Conns : StreamInv(c)) /\ [Next]_vars => (\A d \in Conns : StreamInv(d))'
  <1> SUFFICES ASSUME ThreadInv, \A c \in Conns : StreamInv(c), [Next]_vars
               PROVE  (\A d \in Conns : StreamInv(d))'
    OBVIOUS
  <1> USE DEF ThreadInv, TypeOK, Idle, Close
  <1>1. ASSUME NEW c \in Conns, Connect(c), UNCHANGED <<accept, thrown>>
        PROVE  (\A d \in Conns : StreamInv(d))'
    <2> SUFFICES ASSUME NEW d \in Conns PROVE StreamInv(d)'
      OBVIOUS
    <2>1. FailedInv(d)'
      BY <1>1 DEF Connect, StreamInv, FailedInv, ioVars
    <2>2. QED BY <1>1, <2>1, Untouched DEF Connect, clientVars, threadVars, ioVars, Fresh, Handling
  <1>2. ASSUME NEW c \in Conns, NEW halves \in 1..2, Send(c, halves), UNCHANGED <<accept, thrown>>
        PROVE  (\A d \in Conns : StreamInv(d))'
    <2> SUFFICES ASSUME NEW d \in Conns PROVE StreamInv(d)'
      OBVIOUS
    <2>1. CASE d = c
      BY <1>2, <2>1, SendStream
    <2>2. CASE d # c
      BY <1>2, <2>2, Elsewhere DEF Send, clientVars, threadVars, ioVars, Handling
    <2>3. QED BY <2>1, <2>2
  <1>3. ASSUME NEW c \in Conns, NEW how \in {"fin", "reset"}, Leave(c, how), UNCHANGED <<accept, thrown>>
        PROVE  (\A d \in Conns : StreamInv(d))'
    <2> SUFFICES ASSUME NEW d \in Conns PROVE StreamInv(d)'
      OBVIOUS
    <2>1. QED BY <1>3, Elsewhere DEF Leave, clientVars, threadVars, ioVars, Handling
  <1>4. ASSUME NEW c \in Conns, Receive(c), UNCHANGED <<accept, thrown>>
        PROVE  (\A d \in Conns : StreamInv(d))'
    <2> SUFFICES ASSUME NEW d \in Conns PROVE StreamInv(d)'
      OBVIOUS
    <2>1. CASE d = c
      BY <1>4, <2>1, ReceiveStream
    <2>2. CASE d # c
      BY <1>4, <2>2, Elsewhere DEF Receive, clientVars, threadVars, ioVars, Handling
    <2>3. QED BY <2>1, <2>2
  <1>5. ASSUME NEW c \in Conns, SendRest(c), UNCHANGED <<accept, thrown>>
        PROVE  (\A d \in Conns : StreamInv(d))'
    <2> SUFFICES ASSUME NEW d \in Conns PROVE StreamInv(d)'
      OBVIOUS
    <2>1. CASE d = c
      BY <1>5, <2>1, SendRestStream
    <2>2. CASE d # c
      <3>1. /\ op'[d] = op[d] /\ answers'[d] = answers[d] /\ response_msg'[d] = response_msg[d]
            /\ failed'[d] = failed[d]
        BY <1>5, <2>2 DEF SendRest, Writes
      <3>2. QED BY <1>5, <3>1, Elsewhere DEF SendRest, clientVars, threadVars, Handling
    <2>3. QED BY <2>1, <2>2
  <1>6. ASSUME NEW t \in Threads, NEW c \in Conns, BeginRead(t, c), UNCHANGED <<accept, thrown>>
        PROVE  (\A d \in Conns : StreamInv(d))'
    <2> SUFFICES ASSUME NEW d \in Conns PROVE StreamInv(d)'
      OBVIOUS
    <2>1. /\ UNCHANGED <<sent, polite, failed, data_, response_msg, answers>>
          /\ op' = [op EXCEPT ![c] = "none"] /\ thread[t] = "idle" /\ op[c] = "read_done"
      BY <1>6 DEF BeginRead, clientVars
    <2>2. conn[c] = "open" /\ \A s \in Threads : ~Handling(s, c)
      BY <2>1 DEF SessionsHeld, SessionHeld
    <2>3. CASE failed[c]
      <3>1. /\ conn' = [conn EXCEPT ![c] = "closed"]
            /\ \A s \in Threads, e \in Conns : Handling(s, e)' <=> Handling(s, e)
        BY <1>6, <2>3 DEF BeginRead, threadVars, Handling
      <3>2. CASE d = c
        BY <2>1, <2>2, <3>1, <3>2, Closing DEF Fresh
      <3>3. CASE d # c
        BY <2>1, <3>1, <3>3, Elsewhere
      <3>4. QED BY <3>2, <3>3
    <2>4. CASE ~failed[c]
      <3>1. /\ conn' = conn /\ thread' = [thread EXCEPT ![t] = "request"]
            /\ session' = [session EXCEPT ![t] = c]
        BY <1>6, <2>4 DEF BeginRead
      <3>2. \A s \in Threads, e \in Conns : Handling(s, e)' <=> IF s = t THEN e = c ELSE Handling(s, e)
        BY <3>1 DEF Handling
      <3>3. \A e \in Conns : ~Handling(t, e)
        BY <2>1 DEF Handling
      <3>4. CASE d = c
        <4>1. Fresh(c) /\ Fresh(c)'
          BY <2>1, <2>4, <3>2 DEF Fresh
        <4>2. FailedInv(c)'
          BY <2>1, <2>4 DEF FailedInv
        <4>3. QED BY <2>1, <3>1, <3>4, <4>1, <4>2, Untouched
      <3>5. CASE d # c
        BY <2>1, <3>1, <3>2, <3>3, <3>5, Elsewhere
      <3>6. QED BY <3>4, <3>5
    <2>5. QED BY <2>3, <2>4
  <1>7. ASSUME NEW t \in Threads, NEW c \in Conns, HandleWrite(t, c), UNCHANGED <<accept, thrown>>
        PROVE  (\A d \in Conns : StreamInv(d))'
    <2> SUFFICES ASSUME NEW d \in Conns PROVE StreamInv(d)'
      OBVIOUS
    <2>1. /\ UNCHANGED <<sent, polite, failed, data_, response_msg, answers, thread, session>>
          /\ op[c] = "write_done"
          /\ IF failed[c] THEN conn' = [conn EXCEPT ![c] = "closed"] /\ op' = [op EXCEPT ![c] = "none"]
                          ELSE conn' = conn /\ op' = [op EXCEPT ![c] = "read"]
      BY <1>7 DEF HandleWrite, clientVars, threadVars
    <2>2. /\ conn[c] = "open" /\ \A s \in Threads : ~Handling(s, c)
          /\ \A s \in Threads, e \in Conns : Handling(s, e)' <=> Handling(s, e)
      BY <2>1 DEF SessionsHeld, SessionHeld, Handling
    <2>3. CASE d = c
      <3>1. ~Fresh(c) /\ ~Fresh(c)' /\ op'[c] # "write"
        BY <2>1, <2>2 DEF Fresh
      <3>2. CASE failed[c]
        BY <2>1, <2>3, <3>1, <3>2, Closing
      <3>3. CASE ~failed[c]
        BY <2>1, <2>3, <3>1, <3>3, Untouched DEF FailedInv
      <3>4. QED BY <3>2, <3>3
    <2>4. CASE d # c
      <3>1. conn'[d] = conn[d] /\ op'[d] = op[d]
        BY <2>1, <2>4
      <3>2. QED BY <2>1, <2>2, <3>1, Elsewhere
    <2>5. QED BY <2>3, <2>4
  <1>8. ASSUME NEW t \in Threads, EndRead(t), UNCHANGED <<accept, thrown>>
        PROVE  (\A d \in Conns : StreamInv(d))'
    <2> SUFFICES ASSUME NEW d \in Conns PROVE StreamInv(d)'
      OBVIOUS
    <2> DEFINE c == session[t]
    <2>1. /\ thread[t] = "request" /\ c \in Conns
          /\ UNCHANGED <<conn, sent, polite, failed, data_>>
          /\ thread' = [thread EXCEPT ![t] = "idle"] /\ session' = [session EXCEPT ![t] = NoConn]
      BY <1>8 DEF EndRead, clientVars, SessionsHeld, RequestsHaveSessions
    <2>2. CASE d = c
      BY <1>8, <2>2, EndReadStream
    <2>3. CASE d # c
      <3>1. /\ op'[d] = op[d] /\ answers'[d] = answers[d] /\ response_msg'[d] = response_msg[d]
        BY <1>8, <2>3 DEF EndRead, Writes
      <3>2. \A s \in Threads : Handling(s, d)' <=> Handling(s, d)
        BY <2>1, <2>3 DEF Handling
      <3>3. QED BY <2>1, <3>1, <3>2, Elsewhere
    <2>4. QED BY <2>2, <2>3
  <1>9. ASSUME NEW t \in Threads, Throw(t), thrown' = thrown \cup {t}, UNCHANGED accept
        PROVE  (\A d \in Conns : StreamInv(d))'
    <2> SUFFICES ASSUME NEW d \in Conns PROVE StreamInv(d)'
      OBVIOUS
    <2> DEFINE c == session[t]
    <2>1. /\ thread[t] = "request" /\ c \in Conns /\ conn' = [conn EXCEPT ![c] = "closed"]
          /\ UNCHANGED <<peer, sent, polite, op, failed, data_, response_msg, answers>>
          /\ thread' = [thread EXCEPT ![t] = "ended"] /\ session' = [session EXCEPT ![t] = NoConn]
      BY <1>9 DEF Throw, clientVars, ioVars, SessionsHeld, RequestsHaveSessions
    <2>2. /\ op[c] = "none" /\ \A s \in Threads : Handling(s, c) => s = t
      BY <2>1 DEF SessionsHeld, SessionHeld, Handling
    <2>3. CASE d = c
      BY <2>1, <2>2, <2>3, Closing DEF Fresh, Handling
    <2>4. CASE d # c
      <3>1. \A s \in Threads : Handling(s, d)' <=> Handling(s, d)
        BY <2>1, <2>4 DEF Handling
      <3>2. QED BY <2>1, <2>4, <3>1, Elsewhere
    <2>5. QED BY <2>3, <2>4
  <1>10. ASSUME NEW c \in Conns, Accept(c)
        PROVE  (\A d \in Conns : StreamInv(d))'
    <2> SUFFICES ASSUME NEW d \in Conns PROVE StreamInv(d)'
      OBVIOUS
    <2>1. FailedInv(d)'
      BY <1>10 DEF Accept, StreamInv, FailedInv, ioVars
    <2>2. QED BY <1>10, <2>1, Untouched DEF Accept, clientVars, threadVars, ioVars, Fresh, Handling
  <1>11. ASSUME NEW t \in Threads, HandleAccept(t)
        PROVE  (\A d \in Conns : StreamInv(d))'
    <2> SUFFICES ASSUME NEW d \in Conns PROVE StreamInv(d)'
      OBVIOUS
    <2>1. /\ UNCHANGED <<sent, polite, failed, data_, response_msg, answers, session>>
          /\ thread[t] = "idle"
          /\ \/ thread' = [thread EXCEPT ![t] = "accept"]
             \/ thread' = [thread EXCEPT ![t] = "ended"]
      BY <1>11 DEF HandleAccept, clientVars
    <2>2. \A s \in Threads, e \in Conns : Handling(s, e)' <=> Handling(s, e)
      BY <2>1 DEF Handling
    <2>3. CASE conn'[d] = conn[d] /\ op'[d] = op[d]
      BY <2>1, <2>2, <2>3, Elsewhere
    <2>4. CASE ~(conn'[d] = conn[d] /\ op'[d] = op[d])
      <3>1. /\ conn[d] = "accepted"
            /\ \/ conn'[d] = "closed" /\ op'[d] = op[d]
               \/ conn'[d] = "open" /\ op'[d] = "read"
        <4>1. PICK c \in Conns :
                /\ conn[c] = "accepted"
                /\ \/ conn' = [conn EXCEPT ![c] = "closed"] /\ op' = op
                   \/ conn' = [conn EXCEPT ![c] = "open"] /\ op' = [op EXCEPT ![c] = "read"]
          BY <1>11, <2>4 DEF HandleAccept
        <4>2. QED BY <2>4, <4>1
      <3>2. op[d] = "none" /\ \A s \in Threads : ~Handling(s, d)
        BY <3>1 DEF SessionsHeld, SessionHeld
      <3>3. ~Fresh(d) /\ ~Fresh(d)'
        BY <2>2, <3>1, <3>2 DEF Fresh
      <3>4. FailedInv(d)'
        BY <2>1, <3>1, <3>2 DEF StreamInv, FailedInv
      <3>5. QED BY <2>1, <3>1, <3>2, <3>3, <3>4, Untouched
    <2>5. QED BY <2>3, <2>4
  <1>12. ASSUME NEW t \in Threads, start_accept(t)
        PROVE  (\A d \in Conns : StreamInv(d))'
    <2> SUFFICES ASSUME NEW d \in Conns PROVE StreamInv(d)'
      OBVIOUS
    <2>1. QED BY <1>12, Elsewhere DEF start_accept, clientVars, threadVars, ioVars, Handling
  <1>13. ASSUME NEW t \in Threads, RunReturns(t)
        PROVE  (\A d \in Conns : StreamInv(d))'
    <2> SUFFICES ASSUME NEW d \in Conns PROVE StreamInv(d)'
      OBVIOUS
    <2>1. QED BY <1>13, Elsewhere DEF RunReturns, clientVars, threadVars, ioVars, Handling
  <1>14. ASSUME Exit
        PROVE  (\A d \in Conns : StreamInv(d))'
    <2> SUFFICES ASSUME NEW d \in Conns PROVE StreamInv(d)'
      OBVIOUS
    <2>1. /\ UNCHANGED <<sent, polite, failed, data_, response_msg, answers, thread, session>>
          /\ op'[d] = "none" /\ conn'[d] = IF Connected(d) THEN "closed" ELSE conn[d]
          /\ \A s \in Threads : ~Handling(s, d) /\ ~Handling(s, d)'
      BY <1>14 DEF Exit, clientVars, threadVars, Handling
    <2>2. CASE conn'[d] = "closed"
      BY <2>1, <2>2, Closing DEF Fresh
    <2>3. CASE conn'[d] # "closed"
      <3>1. conn'[d] = conn[d] /\ conn[d] = "none"
        BY <2>1, <2>3 DEF Connected, ConnStates
      <3>2. op[d] = "none"
        BY <3>1 DEF SessionsHeld, SessionHeld
      <3>3. QED BY <2>1, <3>1, <3>2, Elsewhere
    <2>4. QED BY <2>2, <2>3
  <1>15. CASE UNCHANGED vars
    BY <1>15, Elsewhere DEF Handling, vars, sessionVars, clientVars, ioVars, threadVars
  <1>16. QED
    BY <1>1, <1>2, <1>3, <1>4, <1>5, <1>6, <1>7, <1>8,
       <1>9, <1>10, <1>11, <1>12, <1>13, <1>14, <1>15
    DEF Next, SessionStep, ClientStep, EndHandler

\* The inductive invariant holds in every state.
LEMMA Invariant == Spec => []IInv
  <1>1. Init => IInv
    BY InitTypeOK, InitHeld, InitCost, InitStream DEF IInv, ThreadInv
  <1>2. IInv /\ [Next]_vars => IInv'
    BY NextThreadInv, NextStream DEF IInv
  <1>3. QED BY <1>1, <1>2, PTL DEF Spec

-----------------------------------------------------------------------------
(* The promise to the clients.                                             *)

\* How many whole requests some halves are.
LEMMA WholeRequests ==
  ASSUME NEW s \in Nat
  PROVE  /\ s \div 2 \in Nat /\ 2 * (s \div 2) <= s /\ s <= 2 * (s \div 2) + 1
         /\ \A h \in 1..2 : (s + h) \div 2 \in {s \div 2, (s \div 2) + 1}
         /\ \A n \in Nat : s = 2 * n => s \div 2 = n /\ (s + 2) \div 2 = n + 1
  BY SMT

\* What changes nothing that clients see is no step of the service.
LEMMA Unseen ==
  ASSUME UNCHANGED <<sent, polite, answers>>
  PROVE  UNCHANGED Http!httpVars
  BY DEF Http!httpVars

\* Sending is asking.
LEMMA SendAsks ==
  ASSUME IInv, NEW c \in Conns, NEW halves \in 1..2, Send(c, halves)
  PROVE  Http!Ask(c)
  <1> DEFINE n == sent'[c] \div 2
  <1>1. /\ sent' = [sent EXCEPT ![c] = @ + halves] /\ answers' = answers
        /\ polite' = [polite EXCEPT ![c] = @ /\ halves = 2 /\ sent[c] = 2 * Len(answers[c])]
    BY DEF Send, ioVars
  <1>2. /\ sent \in [Conns -> Nat] /\ polite \in [Conns -> BOOLEAN] /\ Len(answers[c]) \in Nat
        /\ sent'[c] = sent[c] + halves /\ polite'[c] \in {polite[c], FALSE}
    BY <1>1, Numbers DEF IInv, ThreadInv, TypeOK
  <1>3. n \in {sent[c] \div 2, (sent[c] \div 2) + 1}
    BY <1>2, WholeRequests
  <1>4. polite'[c] => n = (sent[c] \div 2) + 1 /\ sent[c] \div 2 = Len(answers[c])
    <2> SUFFICES ASSUME polite'[c]
                 PROVE  n = (sent[c] \div 2) + 1 /\ sent[c] \div 2 = Len(answers[c])
      OBVIOUS
    <2>1. halves = 2 /\ sent[c] = 2 * Len(answers[c])
      BY <1>1, <1>2
    <2>2. /\ sent[c] \div 2 = Len(answers[c]) /\ (sent[c] + 2) \div 2 = Len(answers[c]) + 1
      <3>1. PICK s \in Nat, m \in Nat : s = sent[c] /\ m = Len(answers[c])
        BY <1>2
      <3>2. s = 2 * m
        BY ONLY <2>1, <3>1
      <3>3. s \div 2 = m /\ (s + 2) \div 2 = m + 1
        BY ONLY <3>2, WholeRequests
      <3>4. QED BY ONLY <3>1, <3>3
    <2>3. sent'[c] = sent[c] + 2
      BY <1>2, <2>1
    <2>4. QED BY <2>2, <2>3
  <1>5. [d \in Conns |-> sent'[d] \div 2] = [[d \in Conns |-> sent[d] \div 2] EXCEPT ![c] = n]
    BY <1>1, <1>2
  <1>6. polite' = [polite EXCEPT ![c] = polite'[c]]
    BY <1>1, <1>2
  <1>7. QED BY <1>1, <1>2, <1>3, <1>4, <1>5, <1>6 DEF Http!Ask

\* What Allowed allows may follow, for a client that has sent what was read.
LEMMA AllowedFollows ==
  ASSUME TypeOK, NEW c \in Conns, NEW r, Allowed(c, r, data_[c].last) \/ r = Garbage
  PROVE  \E kind \in {"bad", "garbage", "answer", "part"}, n \in 0..((sent[c] \div 2) + 1) :
           r = Response(kind, n) /\ Http!MayFollow(c, r)
  <1>1. /\ sent[c] \in Nat /\ data_[c].last \in Nat /\ data_[c].last <= sent[c]
        /\ sent[c] \div 2 \in Nat /\ sent[c] <= 2 * (sent[c] \div 2) + 1
    BY WholeRequests DEF TypeOK
  <1>2. CASE r \in {BadRequest, Garbage}
    <2>1. Http!MayFollow(c, r)
      BY <1>2 DEF Http!MayFollow, Http!BadRequest, Http!Garbage, Http!Response, BadRequest, Garbage, Response
    <2>2. QED BY <1>1, <1>2, <2>1 DEF BadRequest, Garbage
  <1>3. CASE r \notin {BadRequest, Garbage}
    <2>1. PICK n \in 1..(data_[c].last + 1) :
            /\ \/ r = Response("answer", n) /\ 2 * n <= data_[c].last
               \/ r = Response("part", n) /\ 2 * n <= data_[c].last + 1
            /\ \A i \in DOMAIN answers[c] : answers[c][i].request < n
      BY <1>3 DEF Allowed
    <2>2. n \in 1..((sent[c] \div 2) + 1)
      BY <1>1, <2>1
    <2>3. r = Response("answer", n) => n <= sent[c] \div 2 \/ r = Response("part", n)
      BY <1>1, <2>1
    <2>4. Http!MayFollow(c, r)
      BY <1>1, <2>1, <2>2, <2>3 DEF Http!MayFollow, Http!Response, Response
    <2>5. QED BY <1>1, <2>1, <2>2, <2>4
  <1>4. QED BY <1>2, <1>3

\* Writing what is allowed to an impolite client is answering it.
LEMMA WritesAnswers ==
  ASSUME TypeOK, NEW c \in Conns, NEW r, Allowed(c, r, data_[c].last) \/ r = Garbage,
         ~polite[c], Writes(c, r), UNCHANGED <<sent, polite>>
  PROVE  Http!Answer(c)
  <1>1. PICK kind \in {"bad", "garbage", "answer", "part"}, n \in 0..((sent[c] \div 2) + 1) :
          r = Response(kind, n) /\ Http!MayFollow(c, r)
    BY AllowedFollows
  <1>2. Http!Response(kind, n) = r
    BY <1>1 DEF Http!Response, Response
  <1>3. [d \in Conns |-> sent[d] \div 2]' = [d \in Conns |-> sent[d] \div 2]
    OBVIOUS
  <1>4. QED BY <1>1, <1>2, <1>3 DEF Http!Answer, Writes

\* The end of handle_read answers, or only begins to.
LEMMA EndReadAnswers ==
  ASSUME IInv, NEW t \in Threads, EndRead(t)
  PROVE  UNCHANGED Http!httpVars \/ \E c \in Conns : Http!Answer(c)
  <1> DEFINE c == session[t]
  <1>1. /\ c \in Conns /\ Handling(t, c) /\ conn[c] = "open" /\ TypeOK /\ StreamInv(c)
    BY DEF EndRead, IInv, ThreadInv, SessionsHeld, RequestsHaveSessions, SessionHeld, Handling
  <1>2. Fresh(c) /\ UNCHANGED <<sent, polite>>
    BY <1>1 DEF Fresh, EndRead, clientVars
  <1>3. CASE answers' = answers
    BY <1>2, <1>3, Unseen
  <1>4. CASE answers' # answers
    <2>1. PICK r \in handle_response(data_[c].first, data_[c].last) : Writes(c, r)
      BY <1>4 DEF EndRead
    <2>2. CASE ~polite[c]
      <3>1. Allowed(c, r, data_[c].last)
        BY <1>1, <1>2, <2>1, ResponseAllowed
      <3>2. QED BY <1>1, <1>2, <2>1, <2>2, <3>1, WritesAnswers
    <2>3. CASE polite[c]
      <3>1. /\ sent[c] = 2 * Len(answers[c]) + 2 /\ data_[c].first = 2 * Len(answers[c]) + 1
            /\ data_[c].last = 2 * Len(answers[c]) + 2
        BY <1>1, <1>2, <2>3 DEF StreamInv, PoliteInv
      <3> DEFINE n == Len(answers[c]) + 1
      <3>2. Len(answers[c]) \in Nat /\ sent[c] \in Nat /\ data_[c].first \in Nat /\ data_[c].last \in Nat
        BY <1>1, Numbers DEF TypeOK
      <3>3. sent[c] \div 2 = n /\ sent[c] \div 2 > Len(answers[c])
        <4>1. n \in Nat /\ sent[c] = 2 * n
          BY <3>1, <3>2
        <4>2. sent[c] \div 2 = n
          BY <3>2, <4>1, WholeRequests
        <4>3. QED BY <3>2, <4>2
      <3>4. RequestOf(data_[c].first) = n
        <4> HIDE DEF c
        <4>1. /\ RequestOf(data_[c].first) \in Nat
              /\ \/ data_[c].first = 2 * RequestOf(data_[c].first) - 1
                 \/ data_[c].first = 2 * RequestOf(data_[c].first)
          BY <3>2, RequestNumber
        <4>2. QED BY <3>1, <3>2, <4>1
      <3>5. r = Http!Proper(n)
        <4>1. parse(data_[c].first, data_[c].last) = IF n \in Invalid THEN {"bad"} ELSE {"answer"}
          BY <3>1, <3>2, <3>4 DEF parse
        <4>2. r = IF n \in Invalid THEN BadRequest ELSE Response("answer", n)
          BY <2>1, <3>4, <4>1 DEF handle_response
        <4>3. QED BY <4>2 DEF Http!Proper, Http!BadRequest, Http!Response, BadRequest, Response
      <3>6. [d \in Conns |-> sent[d] \div 2]' = [d \in Conns |-> sent[d] \div 2]
        BY <1>2
      <3>7. Http!Answer(c)
        BY <1>1, <1>2, <2>1, <2>3, <3>3, <3>5, <3>6 DEF Http!Answer, Writes
      <3>8. QED BY <1>1, <3>7
    <2>4. QED BY <2>2, <2>3
  <1>5. QED BY <1>3, <1>4

\* Sending the rest answers.
LEMMA SendRestAnswers ==
  ASSUME IInv, NEW c \in Conns, SendRest(c)
  PROVE  UNCHANGED Http!httpVars \/ Http!Answer(c)
  <1>1. /\ TypeOK /\ op[c] = "write" /\ conn[c] = "open" /\ UNCHANGED <<sent, polite>>
    BY DEF SendRest, IInv, ThreadInv, SessionsHeld, SessionHeld, clientVars
  <1>2. ~polite[c] /\ Allowed(c, response_msg[c], data_[c].last)
    BY <1>1 DEF IInv, StreamInv, PoliteInv, WriteInv
  <1>3. CASE answers' = answers
    BY <1>1, <1>3, Unseen
  <1>4. CASE answers' # answers
    <2>1. PICK r \in {response_msg[c], Garbage} : Writes(c, r)
      BY <1>4 DEF SendRest
    <2>2. QED BY <1>1, <1>2, <2>1, WritesAnswers
  <1>5. QED BY <1>3, <1>4

\* The server begins like the service.
LEMMA InitRefines == Init => Http!HttpInit
  <1> SUFFICES ASSUME Init PROVE Http!HttpInit
    OBVIOUS
  <1>1. 0 \div 2 = 0
    BY SMT
  <1>2. [c \in Conns |-> sent[c] \div 2] = [c \in Conns |-> 0]
    BY <1>1 DEF Init, SessionInit
  <1>3. QED BY <1>2 DEF Init, SessionInit, Http!HttpInit

\* A step of the server is a step of the service, or unseen.
LEMMA NextRefines == IInv /\ [Next]_vars => [Http!HttpNext]_Http!httpVars
  <1> SUFFICES ASSUME IInv, [Next]_vars
               PROVE  [Http!HttpNext]_Http!httpVars
    OBVIOUS
  <1>1. ASSUME NEW c \in Conns, Connect(c), UNCHANGED <<accept, thrown>>
        PROVE  [Http!HttpNext]_Http!httpVars
    BY <1>1, Unseen DEF Connect, clientVars, ioVars, threadVars
  <1>2. ASSUME NEW c \in Conns, NEW halves \in 1..2, Send(c, halves), UNCHANGED <<accept, thrown>>
        PROVE  [Http!HttpNext]_Http!httpVars
    BY <1>2, SendAsks DEF Http!HttpNext
  <1>3. ASSUME NEW c \in Conns, NEW how \in {"fin", "reset"}, Leave(c, how), UNCHANGED <<accept, thrown>>
        PROVE  [Http!HttpNext]_Http!httpVars
    BY <1>3, Unseen DEF Leave, clientVars, ioVars, threadVars
  <1>4. ASSUME NEW c \in Conns, Receive(c), UNCHANGED <<accept, thrown>>
        PROVE  [Http!HttpNext]_Http!httpVars
    BY <1>4, Unseen DEF Receive, clientVars, ioVars, threadVars
  <1>5. ASSUME NEW c \in Conns, SendRest(c), UNCHANGED <<accept, thrown>>
        PROVE  [Http!HttpNext]_Http!httpVars
    BY <1>5, SendRestAnswers DEF Http!HttpNext
  <1>6. ASSUME NEW t \in Threads, NEW c \in Conns, BeginRead(t, c), UNCHANGED <<accept, thrown>>
        PROVE  [Http!HttpNext]_Http!httpVars
    BY <1>6, Unseen DEF BeginRead, clientVars, ioVars, threadVars
  <1>7. ASSUME NEW t \in Threads, NEW c \in Conns, HandleWrite(t, c), UNCHANGED <<accept, thrown>>
        PROVE  [Http!HttpNext]_Http!httpVars
    BY <1>7, Unseen DEF HandleWrite, clientVars, ioVars, threadVars
  <1>8. ASSUME NEW t \in Threads, EndRead(t), UNCHANGED <<accept, thrown>>
        PROVE  [Http!HttpNext]_Http!httpVars
    BY <1>8, EndReadAnswers DEF Http!HttpNext
  <1>9. ASSUME NEW t \in Threads, Throw(t), thrown' = thrown \cup {t}, UNCHANGED accept
        PROVE  [Http!HttpNext]_Http!httpVars
    BY <1>9, Unseen DEF Throw, clientVars, ioVars, threadVars
  <1>10. ASSUME NEW c \in Conns, Accept(c)
        PROVE  [Http!HttpNext]_Http!httpVars
    BY <1>10, Unseen DEF Accept, clientVars, ioVars, threadVars
  <1>11. ASSUME NEW t \in Threads, HandleAccept(t)
        PROVE  [Http!HttpNext]_Http!httpVars
    BY <1>11, Unseen DEF HandleAccept, clientVars, ioVars, threadVars
  <1>12. ASSUME NEW t \in Threads, start_accept(t)
        PROVE  [Http!HttpNext]_Http!httpVars
    BY <1>12, Unseen DEF start_accept, clientVars, ioVars, threadVars
  <1>13. ASSUME NEW t \in Threads, RunReturns(t)
        PROVE  [Http!HttpNext]_Http!httpVars
    BY <1>13, Unseen DEF RunReturns, clientVars, ioVars, threadVars
  <1>14. ASSUME Exit
        PROVE  [Http!HttpNext]_Http!httpVars
    BY <1>14, Unseen DEF Exit, clientVars, ioVars, threadVars
  <1>15. CASE UNCHANGED vars
    BY <1>15, Unseen DEF vars, sessionVars, clientVars, ioVars
  <1>16. QED
    BY <1>1, <1>2, <1>3, <1>4, <1>5, <1>6, <1>7, <1>8,
       <1>9, <1>10, <1>11, <1>12, <1>13, <1>14, <1>15
    DEF Next, SessionStep, ClientStep, EndHandler

\* Whatever its threads do, the server keeps the promise of module
\* HttpService: a polite client gets each answer once, whole and in order, and
\* no client an answer twice, late or to what it has not sent.
THEOREM ServerKeepsHttpPromise == Spec => KeepsHttpPromise
  <1>1. Init => Http!HttpInit
    BY InitRefines
  <1>2. IInv /\ [Next]_vars => [Http!HttpNext]_Http!httpVars
    BY NextRefines
  <1>3. QED BY <1>1, <1>2, Invariant, PTL DEF Spec, KeepsHttpPromise, Http!HttpSpec

=============================================================================
