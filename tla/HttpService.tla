----------------------------- MODULE HttpService -----------------------------
(***************************************************************************)
(* What the server promises the clients of its connections, whatever the   *)
(* threads, the reads and the writes inside it are.  A client that sends   *)
(* each request in one piece, and only when it has the answer to the one   *)
(* before, gets its own answers, whole and in order.  Any other client may *)
(* get refusals and garbage too, but never an answer twice, late or to     *)
(* what it has not sent.                                                   *)
(***************************************************************************)
EXTENDS Naturals, Sequences

CONSTANTS
  Conns,    \* connections
  Invalid   \* numbers of the requests that are to be refused with 400

VARIABLES
  asked,    \* how many requests the client has sent completely
  polite,   \* the client has always waited for its answers
  answers   \* what was written to the connection

httpVars == <<asked, polite, answers>>

\* kind "part": a request cut off in its body, answered as if it were whole.
Response(kind, n) == [kind |-> kind, request |-> n]
BadRequest == Response("bad", 0)
Garbage == Response("garbage", 0)

Proper(n) == IF n \in Invalid THEN BadRequest ELSE Response("answer", n)

HttpInit ==
  /\ asked = [c \in Conns |-> 0]
  /\ polite \in [Conns -> BOOLEAN]
  /\ answers = [c \in Conns |-> <<>>]

\* A client sends, and stays polite or not.
Ask(c) ==
  /\ \E n \in {asked[c], asked[c] + 1}, p \in {polite[c], FALSE} :
       /\ p => n = asked[c] + 1 /\ asked[c] = Len(answers[c])
       /\ asked' = [asked EXCEPT ![c] = n]
       /\ polite' = [polite EXCEPT ![c] = p]
  /\ UNCHANGED answers

MayFollow(c, r) ==
  \/ r \in {BadRequest, Garbage}
  \/ \E n \in 1..(asked[c] + 1) :
       /\ \/ r = Response("answer", n) /\ n <= asked[c]
          \/ r = Response("part", n)
       /\ \A i \in DOMAIN answers[c] : answers[c][i].request < n

Answer(c) ==
  /\ IF polite[c]
       THEN /\ asked[c] > Len(answers[c])
            /\ answers' = [answers EXCEPT ![c] = Append(@, Proper(Len(answers[c]) + 1))]
       ELSE \E kind \in {"bad", "garbage", "answer", "part"}, n \in 0..(asked[c] + 1) :
              /\ MayFollow(c, Response(kind, n))
              /\ answers' = [answers EXCEPT ![c] = Append(@, Response(kind, n))]
  /\ UNCHANGED <<asked, polite>>

HttpNext == \E c \in Conns : Ask(c) \/ Answer(c)

HttpSpec == HttpInit /\ [][HttpNext]_httpVars
=============================================================================
