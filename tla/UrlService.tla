----------------------------- MODULE UrlService -----------------------------
(***************************************************************************)
(* What the URL shortener promises, without workers, pools or a cache:     *)
(* codes are bound to URLs, and a client that is told a code has been told *)
(* the truth.  Two promises of different strength:                         *)
(*                                                                         *)
(*   Spec      a code is bound once and for all, so a client that was told *)
(*             a code can rely on it for ever;                             *)
(*   WeakSpec  a code may be bound again, to another URL that hashes to    *)
(*             it: a code a client was told was bound to its URL at some   *)
(*             time, and nothing more.                                     *)
(***************************************************************************)
CONSTANTS Urls, Codes,
          Derives(_, _),  \* Derives(c, u): c is a candidate code of u
          None

VARIABLES map,     \* map[c]: the URL code c is bound to, or None
          bound,   \* every <<code, url>> that has ever been bound
          issued   \* every <<code, url>> a client has been answered

serviceVars == <<map, bound, issued>>

Init ==
  /\ map = [c \in Codes |-> None]
  /\ bound = {}
  /\ issued = {}

Bind(c, u) ==
  /\ Derives(c, u)
  /\ map' = [map EXCEPT ![c] = u]
  /\ bound' = bound \cup {<<c, u>>}
  /\ UNCHANGED issued

Issue(c, u) ==
  /\ <<c, u>> \in bound
  /\ issued' = issued \cup {<<c, u>>}
  /\ UNCHANGED <<map, bound>>

WeakNext == \E c \in Codes, u \in Urls : Bind(c, u) \/ Issue(c, u)

WeakSpec == Init /\ [][WeakNext]_serviceVars

Next ==
  \E c \in Codes, u \in Urls :
    \/ map[c] = None /\ Bind(c, u)
    \/ map[c] = u /\ Issue(c, u)

Spec == Init /\ [][Next]_serviceVars
=============================================================================
