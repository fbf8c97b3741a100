---------------------------- MODULE ConfigGrammar ----------------------------
(***************************************************************************)
(* What a configuration is: one or more statements, where a statement is   *)
(* words closed by a semicolon, or words and a block of statements in      *)
(* braces, which may be empty.  This is the reference definition that the  *)
(* token machine of ConfigParser is compared with; texts are sequences of  *)
(* lexemes.                                                                *)
(***************************************************************************)
EXTENDS Naturals, Sequences, SequencesExt

CONSTANT Words  \* the lexemes that are tokens of type NORMAL

Punctuation == {"{", "}", ";"}
CommentLexeme == "#"
Lexemes == Words \cup Punctuation \cup {CommentLexeme}

\* A word is told from a brace, a semicolon and a comment.
ASSUME LexemesAssumption == Words \cap (Punctuation \cup {CommentLexeme}) = {}

\* ends[i]: where a possibly empty sequence of statements that begins at
\* position i may end (the position behind it); the first of them ends at k.
IsConfig(t) ==
  LET AllWords(i, j) == \A p \in i..(j - 1) : t[p] \in Words
      ends[i \in 1..(Len(t) + 1)] ==
        {i} \cup
        UNION {ends[k] : k \in
          {k \in (i + 2)..(Len(t) + 1) :
             \/ /\ t[k - 1] = ";"
                /\ AllWords(i, k - 1)
             \/ /\ t[k - 1] = "}"
                /\ \E open \in (i + 1)..(k - 2) :
                     /\ t[open] = "{"
                     /\ AllWords(i, open)
                     /\ k - 1 \in ends[open + 1]}}
  IN t # <<>> /\ Len(t) + 1 \in ends[1]

Occurrences(t, x) == Cardinality({i \in DOMAIN t : t[i] = x})

\* How many braces are open at the end of t.
Depth(t) == Occurrences(t, "{") - Occurrences(t, "}")

Braces(n) == [i \in 1..n |-> "}"]

\* Some configuration begins with t: if so, t can be completed by ending its
\* statement, or beginning one, and closing what is open.
IsBeginning(t) ==
  LET word == CHOOSE w \in Words : TRUE
      endings == {<<>>, <<";">>, <<word, ";">>}
  IN /\ Depth(t) >= 0
     /\ \E ending \in endings : IsConfig(t \o ending \o Braces(Depth(t)))
=============================================================================
