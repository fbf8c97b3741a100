---------------------------- MODULE ConfigParser -----------------------------
(***************************************************************************)
(* NginxConfigParser::parse.  A step is one turn of its loop: the next     *)
(* token is read, checked against the token before it, and built into the  *)
(* tree.  What parse_token makes of characters is a lexeme with its type;  *)
(* the text of the file is chosen one lexeme at a time, among Texts.       *)
(*                                                                         *)
(* config_stack is a stack of pointers to blocks that parse() maintains by *)
(* hand.  Its top() is undefined when it is empty, which the code never    *)
(* asks.                                                                   *)
(***************************************************************************)
EXTENDS ConfigTree

CONSTANT Texts  \* prefix-closed set of the texts that are read

VARIABLES
  text,             \* history: the lexemes read so far
  ending,           \* history: what parse_token met at the end of the file
  verdict,          \* what parse() returned
  last_token_type,
  config_stack,     \* numbers of blocks, the root at the bottom
  blocks            \* the tree below the out-parameter config

parserVars == <<text, ending, verdict, last_token_type, config_stack, blocks>>

\* reading: in the loop.  no_file: the file could not be opened, parse()
\* returned false.  undefined: the behaviour of the program is undefined.
Verdicts == {"reading", "valid", "invalid", "no_file", "undefined"}

\* The types a token before this one can have: comments are skipped, and
\* TOKEN_TYPE_EOF and TOKEN_TYPE_ERROR end the loop.
TokenTypes == {"START", "NORMAL", "START_BLOCK", "END_BLOCK", "STATEMENT_END"}

\* clean: nothing was begun, or only a comment.  word: the last word ends
\* with the file; parse_token drops it and returns TOKEN_TYPE_EOF.  quote: a
\* quoted word is not closed; TOKEN_TYPE_ERROR.
Endings == {"clean", "word", "quote"}

ParserInit ==
  /\ text = <<>>
  /\ ending = "none"
  /\ verdict \in {"reading", "no_file"}
  /\ last_token_type = "START"
  /\ config_stack = <<1>>
  /\ blocks = <<<<>>>>

-----------------------------------------------------------------------------

Top == config_stack[Len(config_stack)]

Statement(tokens, child_block) == [tokens |-> tokens, child_block |-> child_block]

\* The last statement of a block is a pointer away: it is changed in place.
ReplaceLast(block, s) == [block EXCEPT ![Len(block)] = s]

NewWord(block, word) == Append(block, Statement(<<word>>, NullBlock))

AddWord(block, word) ==
  ReplaceLast(block, Statement(Append(Last(block).tokens, word), Last(block).child_block))

\* The token is lex, and the loop is not left before it is used.
Reads(lex) ==
  /\ verdict = "reading"
  /\ Append(text, lex) \in Texts
  /\ text' = Append(text, lex)
  /\ UNCHANGED ending

Returns(v) ==
  /\ verdict' = v
  /\ UNCHANGED <<last_token_type, config_stack, blocks>>

Comment ==
  /\ Reads(CommentLexeme)
  /\ UNCHANGED <<verdict, last_token_type, config_stack, blocks>>

\* Mutant: a word always goes to the newest block.
Normal_NewestBlock(word) ==
  /\ Reads(word)
  /\ config_stack # <<>>
  /\ last_token_type' = "NORMAL"
  /\ blocks' = [blocks EXCEPT ![Len(blocks)] =
       IF last_token_type # "NORMAL" THEN NewWord(@, word) ELSE AddWord(@, word)]
  /\ UNCHANGED <<verdict, config_stack>>

\* Mutant: a word behind a block goes on with the block's statement.
Normal_AfterBlock(word) ==
  /\ Reads(word)
  /\ config_stack # <<>>
  /\ last_token_type' = "NORMAL"
  /\ blocks' = [blocks EXCEPT ![Top] =
       IF last_token_type \notin {"NORMAL", "END_BLOCK"} THEN NewWord(@, word) ELSE AddWord(@, word)]
  /\ UNCHANGED <<verdict, config_stack>>

\* A word begins a statement or is added to the one it stands in.
Normal(word) ==
  /\ Reads(word)
  /\ config_stack # <<>>
  /\ last_token_type' = "NORMAL"
  /\ blocks' = [blocks EXCEPT ![Top] =
       IF last_token_type # "NORMAL" THEN NewWord(@, word) ELSE AddWord(@, word)]
  /\ UNCHANGED <<verdict, config_stack>>

StatementEnd ==
  /\ Reads(";")
  /\ last_token_type = "NORMAL"
  /\ last_token_type' = "STATEMENT_END"
  /\ UNCHANGED <<verdict, config_stack, blocks>>

\* Mutant: the block is given to the first statement.
StartBlock_First ==
  LET new_config == Len(blocks) + 1
  IN /\ Reads("{")
     /\ last_token_type = "NORMAL"
     /\ last_token_type' = "START_BLOCK"
     /\ blocks' = Append([blocks EXCEPT ![Top][1].child_block = new_config], <<>>)
     /\ config_stack' = Append(config_stack, new_config)
     /\ UNCHANGED verdict

\* A new block becomes the child of the statement and the top of the stack.
StartBlock ==
  LET new_config == Len(blocks) + 1
  IN /\ Reads("{")
     /\ last_token_type = "NORMAL"
     /\ last_token_type' = "START_BLOCK"
     /\ blocks' = Append([blocks EXCEPT ![Top] =
                            ReplaceLast(@, Statement(Last(@).tokens, new_config))], <<>>)
     /\ config_stack' = Append(config_stack, new_config)
     /\ UNCHANGED verdict

BeforeEndBlock == {"STATEMENT_END", "END_BLOCK", "START_BLOCK"}

\* Nothing keeps the root block on the stack.
EndBlock ==
  /\ Reads("}")
  /\ last_token_type \in BeforeEndBlock
  /\ config_stack # <<>>
  /\ last_token_type' = "END_BLOCK"
  /\ config_stack' = Front(config_stack)
  /\ UNCHANGED <<verdict, blocks>>

\* top() or pop() of an empty stack.
EmptyStack(lex) ==
  /\ Reads(lex)
  /\ \/ lex \in Words
     \/ lex = "}" /\ last_token_type \in BeforeEndBlock
  /\ config_stack = <<>>
  /\ Returns("undefined")

\* "Unexpected STATEMENT_END / START_BLOCK / END_BLOCK after ...".
Unexpected(lex) ==
  /\ Reads(lex)
  /\ \/ lex \in {";", "{"} /\ last_token_type # "NORMAL"
     \/ lex = "}" /\ last_token_type \notin BeforeEndBlock
  /\ Returns("invalid")

\* Mutant: blocks may be left open.
EndOfFile_Open(how) ==
  /\ verdict = "reading"
  /\ ending' = how
  /\ UNCHANGED text
  /\ IF how # "quote" /\ last_token_type \in {"STATEMENT_END", "END_BLOCK"}
     THEN Returns("valid")
     ELSE Returns("invalid")

\* TOKEN_TYPE_EOF or TOKEN_TYPE_ERROR.
EndOfFile(how) ==
  /\ verdict = "reading"
  /\ ending' = how
  /\ UNCHANGED text
  /\ IF /\ how # "quote"
        /\ last_token_type \in {"STATEMENT_END", "END_BLOCK"}
        /\ Len(config_stack) = 1
     THEN Returns("valid")
     ELSE Returns("invalid")

ParserNext ==
  \/ Comment
  \/ \E word \in Words : Normal(word)
  \/ StatementEnd
  \/ StartBlock
  \/ EndBlock
  \/ \E lex \in Lexemes : EmptyStack(lex) \/ Unexpected(lex)
  \/ \E how \in Endings : EndOfFile(how)

ParserSpec == ParserInit /\ [][ParserNext]_parserVars

-----------------------------------------------------------------------------
(* Properties.                                                             *)

ParserTypeOK ==
  /\ text \in Seq(Lexemes)
  /\ ending \in Endings \cup {"none"}
  /\ verdict \in Verdicts
  /\ last_token_type \in TokenTypes
  /\ config_stack \in Seq(DOMAIN blocks)
  /\ blocks \in Seq(Seq(Statements))

\* The lexemes that are tokens.
Code ==
  LET code[n \in 0..Len(text)] ==
        IF n = 0 THEN <<>>
        ELSE IF text[n] = CommentLexeme THEN code[n - 1] ELSE Append(code[n - 1], text[n])
  IN code[Len(text)]

\* parse() accepts what the grammar does.  A text that ends in a word without
\* a terminator is judged without the word, which parse_token drops.  A text
\* that is refused before its end, or makes the behaviour undefined, is the
\* beginning of no configuration.
AcceptsTheGrammar ==
  /\ verdict = "valid" => IsConfig(Code)
  /\ verdict = "invalid" /\ ending \in {"clean", "word"} => ~IsConfig(Code)
  /\ verdict \in {"invalid", "undefined"} /\ ending = "none" => ~IsBeginning(Code)

\* While blocks are open, the stack leads from the root to the current block:
\* each block on it is the child of the last statement of the one below, and
\* a word is only ever added to a statement that has no block yet.
StackIsPath ==
  config_stack # <<>> =>
    /\ config_stack[1] = 1
    /\ \A i \in 1..(Len(config_stack) - 1) :
         LET below == blocks[config_stack[i]]
         IN /\ below # <<>>
            /\ below[Len(below)].child_block = config_stack[i + 1]
    /\ last_token_type = "NORMAL" =>
         /\ blocks[Top] # <<>>
         /\ blocks[Top][Len(blocks[Top])].child_block = NullBlock

\* Nothing is lost, added or moved: the tree, written out, is the text that
\* was read, with what is still open closed.
TreeIsText ==
  verdict \in {"reading", "valid"} /\ config_stack # <<>> =>
    to_string(blocks) =
      Code \o (IF last_token_type = "NORMAL" THEN <<";">> ELSE <<>>)
           \o Braces(Len(config_stack) - 1)

\* What a brace has closed stays as it is.
ClosedBlocksFixed ==
  [][\A b \in DOMAIN blocks :
       b \notin Range(config_stack) => blocks'[b] = blocks[b]]_parserVars
=============================================================================
