-------------------------------- MODULE Lexer --------------------------------
(***************************************************************************)
(* NginxConfigParser::parse_token: how characters become tokens.  Module   *)
(* ConfigParser goes on from the tokens.                                   *)
(***************************************************************************)
EXTENDS Naturals, Sequences, SequencesExt

CONSTANT Inputs  \* what a configuration file may hold, as its characters

ASSUME LexerAssumption == Inputs \subseteq Seq(STRING)

Blanks == {" ", "\t", "\n", "\r"}
Quotes == {"'", "\""}

\* TokenParserState.  Any other result of After is the type of a token.
States == {"initial", "single_quote", "double_quote", "comment", "normal"}

SingleCharacter == [c \in {"{", "}", ";"} |->
  CASE c = "{" -> "START_BLOCK" [] c = "}" -> "END_BLOCK" [] c = ";" -> "STATEMENT_END"]

\* A carriage return does not end a word: it becomes its last character.
EndsWord == {" ", "\t", "\n"} \cup DOMAIN SingleCharacter

AfterBlanks(c) ==
  IF c \in Blanks THEN "initial"
  ELSE IF c \in DOMAIN SingleCharacter THEN SingleCharacter[c]
  ELSE CASE c = "#"  -> "comment"
         [] c = "'"  -> "single_quote"
         [] c = "\"" -> "double_quote"
         [] OTHER    -> "normal"

\* Mutant: either quote ends a double-quoted word.
After_AnyQuote(state, c) ==
  CASE state = "initial" -> AfterBlanks(c)
    [] state \in {"single_quote", "double_quote"} -> IF c \in Quotes THEN "NORMAL" ELSE state
    [] state = "comment" -> IF c \in {"\n", "\r"} THEN "COMMENT" ELSE state
    [] state = "normal"  -> IF c \in EndsWord THEN "NORMAL" ELSE state

After(state, c) ==
  CASE state = "initial"      -> AfterBlanks(c)
    [] state = "single_quote" -> IF c = "'" THEN "NORMAL" ELSE state
    [] state = "double_quote" -> IF c = "\"" THEN "NORMAL" ELSE state
    [] state = "comment"      -> IF c \in {"\n", "\r"} THEN "COMMENT" ELSE state
    [] state = "normal"       -> IF c \in EndsWord THEN "NORMAL" ELSE state

\* The token behind position i, its type and where it begins and ends.  Next
\* is where the input goes on: what ended a word is put back.
parse_token(input, i) ==
  LET last == Len(input)
      scan[p \in i..(last + 1)] == [first \in i..(last + 1) |-> [state \in States |->
        IF p > last
          THEN [type |-> IF state \in {"single_quote", "double_quote"} THEN "ERROR" ELSE "EOF",
                first |-> first, last |-> last, next |-> p]
          ELSE LET after == After(state, input[p])
                   begin == IF after = "initial" THEN p + 1 ELSE first
               IN IF after \in States THEN scan[p + 1][begin][after]
                  ELSE [type |-> after, first |-> first,
                        last |-> IF state \in {"normal", "comment"} THEN p - 1 ELSE p,
                        next |-> IF state = "normal" THEN p ELSE p + 1]]]
  IN scan[i][i]["initial"]

\* What the loop of parse reads.
tokens_of(input) ==
  LET from[i \in 1..(Len(input) + 1)] ==
        LET t == parse_token(input, i)
        IN <<t>> \o (IF t.type \in {"EOF", "ERROR"} THEN <<>> ELSE from[t.next])
  IN from[1]

-----------------------------------------------------------------------------
(* The reference: what a token is.                                         *)

Between(input, i, j) == {input[p] : p \in i..j}

\* The characters from i to j begin a token of type NORMAL.
BeginsQuote(input, i, j) ==
  i <= j /\ input[i] \in Quotes /\ input[i] \notin Between(input, i + 1, j)
BeginsWord(input, i, j) ==
  /\ i <= j /\ input[i] \notin Quotes \cup Blanks \cup {"#"}
  /\ EndsWord \cap Between(input, i, j) = {}
BeginsComment(input, i, j) ==
  i <= j /\ input[i] = "#" /\ {"\n", "\r"} \cap Between(input, i, j) = {}

IsToken(input, t) ==
  CASE t.type = "NORMAL" ->
         \/ BeginsQuote(input, t.first, t.last - 1) /\ input[t.last] = input[t.first]
         \/ BeginsWord(input, t.first, t.last) /\ input[t.last + 1] \in EndsWord
    [] t.type = "COMMENT" -> /\ BeginsComment(input, t.first, t.last)
                             /\ input[t.last + 1] \in {"\n", "\r"}
    [] t.type = "ERROR" -> BeginsQuote(input, t.first, t.last)
    [] t.type = "EOF" -> \/ t.first > t.last
                         \/ BeginsWord(input, t.first, t.last)
                         \/ BeginsComment(input, t.first, t.last)
    [] OTHER -> t.first = t.last /\ SingleCharacter[input[t.first]] = t.type

\* The text is cut into words, quoted words, comments and punctuation, each as
\* long as it can be, with only blanks between them: no character is lost or
\* read twice.  At the end of the file, only a comment or word that the end
\* cuts off is dropped, and only an open quote is an error.
TokensCover(input) ==
  LET ts == tokens_of(input)
      begin(k) == IF k = 1 THEN 1 ELSE ts[k - 1].last + 1
  IN /\ \A k \in DOMAIN ts : /\ IsToken(input, ts[k])
                             /\ begin(k) <= ts[k].first
                             /\ Between(input, begin(k), ts[k].first - 1) \subseteq Blanks
     /\ Last(ts).last = Len(input)

\* What TokensAreText of module Main says of every text.
TextsCovered == \A input \in Inputs : TokensCover(input)
=============================================================================
