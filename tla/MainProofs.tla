----------------------------- MODULE MainProofs -----------------------------
(***************************************************************************)
(* What holds of main for every text of the configuration file, every      *)
(* number of workers and every request: the parser's stack, the routes     *)
(* that the workers share, and the tokens that a text is read as.          *)
(***************************************************************************)
EXTENDS Main, SequenceTheorems, NaturalsInduction, WellFoundedInduction, TLAPS

\* The blocks on the stack were made in its order.
StackOrdered ==
  \A i, j \in DOMAIN config_stack : i < j => config_stack[i] < config_stack[j]

\* A word has a block to go to.
WordHasBlock == last_token_type = "NORMAL" => config_stack # <<>>

RootExists == 1 \in DOMAIN blocks

ParserInv == ParserTypeOK /\ StackIsPath /\ StackOrdered /\ WordHasBlock /\ RootExists

-----------------------------------------------------------------------------
(* Lists of statements.                                                    *)

\* A statement is begun at the end of a block.
LEMMA NewWordIs ==
  ASSUME NEW block \in Seq(Statements), NEW word \in Words
  PROVE  /\ NewWord(block, word) \in Seq(Statements) /\ NewWord(block, word) # <<>>
         /\ Last(NewWord(block, word)).child_block = NullBlock
  <1> DEFINE s == [tokens |-> <<word>>, child_block |-> NullBlock]
  <1>1. s \in Statements /\ s.child_block = NullBlock
    BY DEF Statements, NullBlock
  <1>2. /\ Append(block, s) \in Seq(Statements) /\ Append(block, s) # <<>>
        /\ Append(block, s)[Len(Append(block, s))] = s
    <2> HIDE DEF s
    <2>1. QED BY <1>1, AppendProperties
  <1>3. QED BY <1>1, <1>2 DEF NewWord, Statement, Last

\* The last statement of a block is replaced.
LEMMA ReplaceLastIs ==
  ASSUME NEW block \in Seq(Statements), block # <<>>, NEW s \in Statements
  PROVE  /\ ReplaceLast(block, s) \in Seq(Statements) /\ ReplaceLast(block, s) # <<>>
         /\ Last(ReplaceLast(block, s)) = s
  <1>1. Len(block) \in 1..Len(block)
    BY EmptySeq
  <1>2. QED BY <1>1 DEF ReplaceLast, Last

\* A block that is not empty has a last statement.
LEMMA LastIs ==
  ASSUME NEW block \in Seq(Statements), block # <<>>
  PROVE  Last(block) \in Statements
  <1>1. Len(block) \in 1..Len(block)
    BY EmptySeq
  <1>2. QED BY <1>1 DEF Last

\* A word is added to the last statement of a block.
LEMMA AddWordIs ==
  ASSUME NEW block \in Seq(Statements), block # <<>>, NEW word \in Words
  PROVE  /\ AddWord(block, word) \in Seq(Statements) /\ AddWord(block, word) # <<>>
         /\ Last(AddWord(block, word)).child_block = Last(block).child_block
  <1> DEFINE last == Last(block)
             s == Statement(Append(last.tokens, word), last.child_block)
  <1>1. last \in Statements
    BY LastIs
  <1>2. s \in Statements /\ s.child_block = last.child_block
    BY <1>1 DEF Statement, Statements
  <1>3. /\ ReplaceLast(block, s) \in Seq(Statements) /\ ReplaceLast(block, s) # <<>>
        /\ Last(ReplaceLast(block, s)) = s
    <2> HIDE DEF s
    <2>1. QED BY <1>2, ReplaceLastIs
  <1>4. QED BY <1>2, <1>3 DEF AddWord

\* A block becomes the child of the last statement of another.
LEMMA SetChild ==
  ASSUME NEW block \in Seq(Statements), block # <<>>, NEW child \in Nat
  PROVE  LET new == ReplaceLast(block, Statement(Last(block).tokens, child))
         IN /\ new \in Seq(Statements) /\ new # <<>>
            /\ Last(new).child_block = child
  <1> DEFINE s == Statement(Last(block).tokens, child)
  <1>1. s \in Statements /\ s.child_block = child
    BY LastIs DEF Statement, Statements
  <1>2. /\ ReplaceLast(block, s) \in Seq(Statements) /\ ReplaceLast(block, s) # <<>>
        /\ Last(ReplaceLast(block, s)) = s
    <2> HIDE DEF s
    <2>1. QED BY <1>1, ReplaceLastIs
  <1>3. QED BY <1>1, <1>2

\* The stack without its top.
LEMMA FrontIs ==
  ASSUME NEW S, NEW s \in Seq(S), s # <<>>
  PROVE  /\ Front(s) \in Seq(S) /\ Len(Front(s)) = Len(s) - 1
         /\ DOMAIN Front(s) = 1..(Len(s) - 1)
         /\ \A i \in 1..(Len(s) - 1) : Front(s)[i] = s[i]
  <1> DEFINE n == Len(s) - 1
  <1>1. n \in Nat /\ \A i \in 1..n : s[i] \in S
    OBVIOUS
  <1>2. /\ SubSeq(s, 1, n) \in Seq(S)
        /\ Len(SubSeq(s, 1, n)) = IF 1 <= n THEN n - 1 + 1 ELSE 0
        /\ \A i \in 1..(n - 1 + 1) : SubSeq(s, 1, n)[i] = s[1 + i - 1]
    BY <1>1, SubSeqProperties
  <1>3. Front(s) = SubSeq(s, 1, n)
    BY DEF Front
  <1> HIDE DEF n
  <1>4. /\ Len(SubSeq(s, 1, n)) = n /\ DOMAIN SubSeq(s, 1, n) = 1..n
        /\ \A i \in 1..n : SubSeq(s, 1, n)[i] = s[i]
    BY <1>1, <1>2
  <1>5. QED BY <1>2, <1>3, <1>4 DEF n

-----------------------------------------------------------------------------
(* The parser.                                                             *)

\* The root block alone, and nothing read.
LEMMA ParserInitInv == ParserInit => ParserInv
  <1> SUFFICES ASSUME ParserInit PROVE ParserInv
    OBVIOUS
  <1>1. /\ text = <<>> /\ ending = "none" /\ verdict \in {"reading", "no_file"}
        /\ last_token_type = "START" /\ config_stack = <<1>> /\ blocks = <<<<>>>>
    BY DEF ParserInit
  <1>2. blocks \in Seq(Seq(Statements)) /\ config_stack \in Seq(DOMAIN blocks)
    BY <1>1
  <1>3. ParserTypeOK
    BY <1>1, <1>2 DEF ParserTypeOK, Verdicts, TokenTypes
  <1>4. StackIsPath /\ StackOrdered /\ WordHasBlock /\ RootExists
    BY <1>1 DEF StackIsPath, StackOrdered, WordHasBlock, RootExists
  <1>5. QED BY <1>3, <1>4 DEF ParserInv

\* The history of the text has its type.
LEMMA ReadsText ==
  ASSUME ParserTypeOK, NEW lex \in Lexemes, Reads(lex)
  PROVE  text' \in Seq(Lexemes) /\ ending' = ending /\ verdict = "reading"
  BY DEF ParserTypeOK, Reads

\* A word goes into the block on top of the stack, into a statement without a
\* block.
LEMMA NormalInv ==
  ASSUME ParserInv, NEW word \in Words, Normal(word)
  PROVE  ParserInv' /\ \A b \in DOMAIN blocks : b # Top => blocks'[b] = blocks[b]
  <1> USE DEF ParserInv, ParserTypeOK
  <1>1. /\ config_stack' = config_stack /\ config_stack # <<>> /\ verdict' = verdict
        /\ last_token_type' = "NORMAL"
    BY DEF Normal
  <1>2. /\ text' \in Seq(Lexemes) /\ ending' = ending
    BY ReadsText DEF Normal, Lexemes
  <1>3. /\ Len(config_stack) \in Nat \ {0} /\ Len(config_stack) \in DOMAIN config_stack
        /\ Top \in DOMAIN blocks /\ blocks[Top] \in Seq(Statements)
        /\ \A i \in DOMAIN config_stack : config_stack[i] \in DOMAIN blocks
    BY <1>1 DEF Top
  <1>4. PICK block \in Seq(Statements) :
          /\ blocks' = [blocks EXCEPT ![Top] = block]
          /\ block # <<>> /\ Last(block).child_block = NullBlock
    <2>1. CASE last_token_type # "NORMAL"
      BY <1>3, <2>1, NewWordIs DEF Normal
    <2>2. CASE last_token_type = "NORMAL"
      <3>1. blocks[Top] # <<>> /\ Last(blocks[Top]).child_block = NullBlock
        BY <1>1, <2>2 DEF StackIsPath, Last
      <3>2. QED BY <1>3, <2>2, <3>1, AddWordIs DEF Normal
    <2>3. QED BY <2>1, <2>2
  <1>5. /\ blocks' \in Seq(Seq(Statements)) /\ DOMAIN blocks' = DOMAIN blocks
        /\ blocks'[Top] = block /\ \A b \in DOMAIN blocks : b # Top => blocks'[b] = blocks[b]
    BY <1>3, <1>4
  <1>6. ParserTypeOK'
    BY <1>1, <1>2, <1>5 DEF TokenTypes
  <1>7. StackIsPath'
    <2>1. ASSUME NEW i \in 1..(Len(config_stack) - 1)
          PROVE  blocks'[config_stack[i]] = blocks[config_stack[i]]
      <3>1. i \in DOMAIN config_stack /\ i < Len(config_stack)
        BY <1>3
      <3>2. config_stack[i] < Top
        BY <1>3, <3>1 DEF StackOrdered, Top
      <3>3. QED BY <1>3, <1>5, <3>1, <3>2
    <2>2. Top' = Top
      BY <1>1 DEF Top
    <2>3. \A i \in 1..(Len(config_stack) - 1) :
            LET below == blocks'[config_stack[i]]
            IN below # <<>> /\ below[Len(below)].child_block = config_stack[i + 1]
      BY <1>1, <2>1 DEF StackIsPath
    <2>4. blocks'[Top] # <<>> /\ blocks'[Top][Len(blocks'[Top])].child_block = NullBlock
      BY <1>4, <1>5 DEF Last
    <2>5. config_stack[1] = 1
      BY <1>1 DEF StackIsPath
    <2>6. QED BY <1>1, <2>2, <2>3, <2>4, <2>5 DEF StackIsPath
  <1>8. StackOrdered' /\ WordHasBlock' /\ RootExists'
    BY <1>1, <1>5 DEF StackOrdered, WordHasBlock, RootExists
  <1>9. QED BY <1>5, <1>6, <1>7, <1>8

\* A new block is put on the stack and below the last statement.
LEMMA StartBlockInv ==
  ASSUME ParserInv, StartBlock
  PROVE  ParserInv' /\ \A b \in DOMAIN blocks : b # Top => blocks'[b] = blocks[b]
  <1> USE DEF ParserInv, ParserTypeOK
  <1> DEFINE new == Len(blocks) + 1
             old == blocks[Top]
             block == ReplaceLast(old, Statement(Last(old).tokens, new))
             changed == [blocks EXCEPT ![Top] = block]
             n == Len(config_stack)
  <1>1. /\ last_token_type = "NORMAL" /\ last_token_type' = "START_BLOCK" /\ verdict' = verdict
        /\ config_stack # <<>> /\ config_stack' = Append(config_stack, new)
        /\ blocks' = Append(changed, <<>>)
    BY DEF StartBlock, WordHasBlock
  <1>2. /\ text' \in Seq(Lexemes) /\ ending' = ending
    BY ReadsText DEF StartBlock, Lexemes, Punctuation
  <1>3. /\ n \in Nat \ {0} /\ n \in DOMAIN config_stack /\ new \in Nat
        /\ Top \in DOMAIN blocks /\ old \in Seq(Statements)
        /\ \A i \in DOMAIN config_stack : config_stack[i] \in DOMAIN blocks
    BY <1>1 DEF Top
  <1>4. old # <<>>
    BY <1>1 DEF StackIsPath
  <1>5. block \in Seq(Statements) /\ block # <<>> /\ Last(block).child_block = new
    BY <1>3, <1>4, SetChild
  <1>6. changed \in Seq(Seq(Statements)) /\ Len(changed) = Len(blocks)
    BY <1>3, <1>5
  <1>7. /\ blocks' \in Seq(Seq(Statements)) /\ DOMAIN blocks' = 1..new
        /\ blocks'[Top] = block /\ \A b \in DOMAIN blocks : b # Top => blocks'[b] = blocks[b]
    BY <1>1, <1>3, <1>5, <1>6
  <1>8. /\ config_stack' \in Seq(1..new) /\ Len(config_stack') = n + 1
        /\ DOMAIN config_stack' = 1..(n + 1)
        /\ \A i \in 1..n : config_stack'[i] = config_stack[i]
        /\ config_stack'[n + 1] = new
    <2>1. DOMAIN blocks \subseteq 1..new /\ new \in 1..new
      BY <1>3
    <2>2. config_stack \in Seq(1..new)
      BY <2>1, SeqMonotonic
    <2>3. QED BY <1>1, <2>1, <2>2, AppendProperties
  <1>9. ParserTypeOK'
    BY <1>1, <1>2, <1>7, <1>8 DEF TokenTypes
  <1>10. /\ n = Len(config_stack) /\ DOMAIN config_stack = 1..n /\ 1..(n - 1) \subseteq 1..n
         /\ \A i \in 1..n : config_stack[i] \in Nat /\ config_stack[i] < new
    <2>1. config_stack \in Seq(DOMAIN blocks) /\ blocks \in Seq(Seq(Statements))
      OBVIOUS
    <2>2. PICK m \in Nat : m = Len(blocks) /\ DOMAIN blocks = 1..m
      BY ONLY <2>1, LenProperties
    <2>3. \A i \in DOMAIN config_stack : config_stack[i] \in 1..m
      BY ONLY <1>3, <2>2
    <2>4. \A b \in 1..m : b \in Nat /\ b < m + 1
      BY ONLY <2>2
    <2>5. PICK k \in Nat : k = Len(config_stack) /\ DOMAIN config_stack = 1..k
      BY ONLY <2>1, LenProperties
    <2>6. 1..(k - 1) \subseteq 1..k
      BY ONLY <2>5
    <2>7. \A i \in 1..k : config_stack[i] \in Nat /\ config_stack[i] < m + 1
      BY ONLY <2>3, <2>4, <2>5
    <2>8. QED BY ONLY <2>2, <2>5, <2>6, <2>7
  <1> HIDE DEF new, old, block, changed, n
  <1>11. \A i \in 1..(n - 1) :
           /\ i + 1 \in 1..n /\ config_stack[i] # Top /\ config_stack[i] \in DOMAIN blocks
           /\ blocks'[config_stack[i]] = blocks[config_stack[i]]
    <2> SUFFICES ASSUME NEW i \in 1..(n - 1)
                 PROVE  /\ i + 1 \in 1..n /\ config_stack[i] # Top /\ config_stack[i] \in DOMAIN blocks
                        /\ blocks'[config_stack[i]] = blocks[config_stack[i]]
      OBVIOUS
    <2>1. i \in 1..n /\ i + 1 \in 1..n /\ i < n /\ n \in 1..n
      <3>1. n \in Nat \ {0}
        BY <1>3
      <3>2. QED BY <3>1
    <2>2. config_stack[i] < config_stack[n] /\ Top = config_stack[n]
      BY <1>10, <2>1 DEF StackOrdered, Top
    <2>3. config_stack[i] # Top
      BY <1>10, <2>1, <2>2
    <2>4. QED BY <1>3, <1>7, <1>10, <2>1, <2>3
  <1>12. StackIsPath'
    <2>1. config_stack'[1] = 1
      BY <1>1, <1>3, <1>8 DEF StackIsPath
    <2>2. ASSUME NEW i \in 1..n
          PROVE  LET below == blocks'[config_stack'[i]]
                 IN below # <<>> /\ below[Len(below)].child_block = config_stack'[i + 1]
      <3>1. CASE i = n
        BY <1>3, <1>5, <1>7, <1>8, <1>10, <3>1 DEF Top, Last
      <3>2. CASE i # n
        <4>1. i \in 1..(n - 1)
          BY <1>3, <3>2
        <4>2. LET below == blocks[config_stack[i]]
              IN below # <<>> /\ below[Len(below)].child_block = config_stack[i + 1]
          BY <1>1, <1>10, <4>1 DEF StackIsPath
        <4>3. config_stack'[i] = config_stack[i] /\ config_stack'[i + 1] = config_stack[i + 1]
          BY <1>8, <1>11, <4>1
        <4>4. QED BY <1>11, <4>1, <4>2, <4>3
      <3>3. QED BY <3>1, <3>2
    <2>3. Len(config_stack') - 1 = n
      BY <1>3, <1>8
    <2>4. last_token_type' # "NORMAL"
      BY <1>1
    <2>5. QED BY <2>1, <2>2, <2>3, <2>4 DEF StackIsPath
  <1>13. StackOrdered'
    <2> SUFFICES ASSUME NEW i \in 1..(n + 1), NEW j \in 1..(n + 1), i < j
                 PROVE  config_stack'[i] < config_stack'[j]
      BY <1>8 DEF StackOrdered
    <2>1. i \in 1..n
      BY <1>3
    <2>2. CASE j = n + 1
      BY <1>8, <1>10, <2>1, <2>2
    <2>3. CASE j # n + 1
      <3>1. j \in 1..n
        BY <1>3, <2>3
      <3>2. QED BY <1>8, <1>10, <2>1, <3>1 DEF StackOrdered
    <2>4. QED BY <2>2, <2>3
  <1>14. WordHasBlock' /\ RootExists'
    BY <1>1, <1>3, <1>7, <1>10 DEF WordHasBlock, RootExists, new
  <1>15. QED BY <1>7, <1>9, <1>12, <1>13, <1>14

\* The top of the stack is taken off.
LEMMA EndBlockInv ==
  ASSUME ParserInv, EndBlock
  PROVE  ParserInv' /\ blocks' = blocks
  <1> USE DEF ParserInv, ParserTypeOK
  <1> DEFINE n == Len(config_stack) - 1
  <1>1. /\ last_token_type' = "END_BLOCK" /\ UNCHANGED <<verdict, blocks>>
        /\ config_stack # <<>> /\ config_stack' = Front(config_stack)
    BY DEF EndBlock
  <1>2. /\ text' \in Seq(Lexemes) /\ ending' = ending
    BY ReadsText DEF EndBlock, Lexemes, Punctuation
  <1>3. /\ n \in Nat /\ DOMAIN config_stack = 1..(n + 1)
        /\ \A i \in 1..(n + 1) : config_stack[i] \in DOMAIN blocks
    BY <1>1
  <1>4. /\ config_stack' \in Seq(DOMAIN blocks) /\ Len(config_stack') = n
        /\ DOMAIN config_stack' = 1..n
        /\ \A i \in 1..n : config_stack'[i] = config_stack[i]
    BY <1>1, FrontIs
  <1>5. ParserTypeOK'
    BY <1>1, <1>2, <1>4 DEF TokenTypes
  <1> HIDE DEF n
  <1>6. StackIsPath'
    <2> SUFFICES ASSUME config_stack' # <<>>
                 PROVE  StackIsPath'
      BY DEF StackIsPath
    <2>1. n \in Nat \ {0} /\ n < Len(config_stack)
      <3>1. Len(config_stack') \in Nat \ {0}
        BY <1>4, EmptySeq
      <3>2. n \in Nat /\ n = Len(config_stack')
        BY <1>3, <1>4
      <3>3. Len(config_stack) = n + 1
        BY <1>3 DEF n
      <3>4. QED BY <3>1, <3>2, <3>3
    <2>2. config_stack'[1] = 1
      BY <1>1, <1>4, <2>1 DEF StackIsPath
    <2>3. ASSUME NEW i \in 1..(n - 1)
          PROVE  LET below == blocks[config_stack'[i]]
                 IN below # <<>> /\ below[Len(below)].child_block = config_stack'[i + 1]
      <3>1. i \in 1..n /\ i + 1 \in 1..n /\ i \in 1..(Len(config_stack) - 1)
        BY <2>1
      <3>2. QED BY <1>1, <1>4, <3>1 DEF StackIsPath
    <2>4. last_token_type' # "NORMAL"
      BY <1>1
    <2>5. QED BY <1>1, <1>4, <2>2, <2>3, <2>4 DEF StackIsPath
  <1>7. StackOrdered'
    <2>1. 1..n \subseteq DOMAIN config_stack
      BY <1>3
    <2>2. QED BY <1>4, <2>1 DEF StackOrdered
  <1>8. WordHasBlock' /\ RootExists'
    BY <1>1 DEF WordHasBlock, RootExists
  <1>9. QED BY <1>1, <1>5, <1>6, <1>7, <1>8

\* The invariant where neither the stack nor the tree changes.
LEMMA SameTree ==
  ASSUME ParserInv, ParserTypeOK', UNCHANGED <<config_stack, blocks>>,
         last_token_type' = "NORMAL" => last_token_type = "NORMAL"
  PROVE  ParserInv'
  <1>1. Top' = Top
    BY DEF Top
  <1>2. QED BY <1>1 DEF ParserInv, StackIsPath, StackOrdered, WordHasBlock, RootExists

\* No step of the parser breaks its invariant, and none but a word or a block
\* under the top of the stack changes a block.
LEMMA ParserNextInv ==
  ASSUME ParserInv, ParserNext
  PROVE  ParserInv' /\ \A b \in DOMAIN blocks : b \notin Range(config_stack) => blocks'[b] = blocks[b]
  <1> USE DEF ParserInv
  <1>1. config_stack # <<>> => Top \in Range(config_stack)
    BY DEF ParserTypeOK, Top, Range
  <1>2. ASSUME Comment
        PROVE  ParserInv' /\ blocks' = blocks
    <2>1. /\ text' \in Seq(Lexemes) /\ ending' = ending
          /\ UNCHANGED <<verdict, last_token_type, config_stack, blocks>>
      BY <1>2, ReadsText DEF Comment, Lexemes
    <2>2. QED BY <2>1, SameTree DEF ParserTypeOK
  <1>3. ASSUME NEW word \in Words, Normal(word)
        PROVE  ParserInv' /\ \A b \in DOMAIN blocks : b # Top => blocks'[b] = blocks[b]
    BY <1>3, NormalInv
  <1>4. ASSUME StatementEnd
        PROVE  ParserInv' /\ blocks' = blocks
    <2>1. /\ text' \in Seq(Lexemes) /\ ending' = ending
          /\ last_token_type' = "STATEMENT_END" /\ UNCHANGED <<verdict, config_stack, blocks>>
      BY <1>4, ReadsText DEF StatementEnd, Lexemes, Punctuation
    <2>2. QED BY <2>1, SameTree DEF ParserTypeOK, TokenTypes
  <1>5. ASSUME StartBlock
        PROVE  ParserInv' /\ \A b \in DOMAIN blocks : b # Top => blocks'[b] = blocks[b]
    BY <1>5, StartBlockInv
  <1>6. ASSUME EndBlock
        PROVE  ParserInv' /\ blocks' = blocks
    BY <1>6, EndBlockInv
  <1>7. ASSUME NEW lex \in Lexemes, EmptyStack(lex) \/ Unexpected(lex)
        PROVE  ParserInv' /\ blocks' = blocks
    <2>1. /\ text' \in Seq(Lexemes) /\ ending' = ending /\ verdict' \in Verdicts
          /\ UNCHANGED <<last_token_type, config_stack, blocks>>
      BY <1>7, ReadsText DEF EmptyStack, Unexpected, Returns, Verdicts
    <2>2. QED BY <2>1, SameTree DEF ParserTypeOK
  <1>8. ASSUME NEW how \in Endings, EndOfFile(how)
        PROVE  ParserInv' /\ blocks' = blocks
    <2>1. /\ text' = text /\ ending' \in Endings /\ verdict' \in Verdicts
          /\ UNCHANGED <<last_token_type, config_stack, blocks>>
      BY <1>8 DEF EndOfFile, Returns, Verdicts
    <2>2. QED BY <2>1, SameTree DEF ParserTypeOK
  <1>9. Normal(CHOOSE word \in Words : Normal(word)) \/ StartBlock => config_stack # <<>>
    BY DEF Normal, StartBlock, WordHasBlock
  <1>10. QED
    BY <1>1, <1>2, <1>3, <1>4, <1>5, <1>6, <1>7, <1>8 DEF ParserNext, Normal, StartBlock, WordHasBlock

-----------------------------------------------------------------------------
(* main runs the parser, and nothing else touches its state.               *)

\* A step of main is one of the parser, or none.
LEMMA MainParses == [Next]_vars => [ParserNext]_parserVars
  <1>1. Parse => ParserNext
    BY DEF Parse
  <1>2. Parsed \/ ReadPort \/ Bind \/ Serve => UNCHANGED parserVars
    BY DEF Parsed, ReadPort, Bind, Serve
  <1>3. MakeDispatcher => UNCHANGED parserVars
    BY DEF MakeDispatcher
  <1>4. Ended \/ UNCHANGED vars => UNCHANGED parserVars
    BY DEF Ended, vars
  <1>5. QED BY <1>1, <1>2, <1>3, <1>4 DEF Next

\* The parser's invariant holds in every state of main.
LEMMA ParserInvariant == Spec => []ParserInv
  <1>1. Init => ParserInv
    BY ParserInitInv DEF Init
  <1>2. ParserInv /\ [Next]_vars => ParserInv'
    <2> SUFFICES ASSUME ParserInv, [Next]_vars PROVE ParserInv'
      OBVIOUS
    <2>1. CASE ParserNext
      BY <2>1, ParserNextInv
    <2>2. CASE UNCHANGED parserVars
      BY <2>2 DEF parserVars, ParserInv, ParserTypeOK, StackIsPath, StackOrdered, WordHasBlock,
                  RootExists, Top
    <2>3. QED BY <2>1, <2>2, MainParses
  <1>3. QED BY <1>1, <1>2, PTL DEF Spec

\* The parser's variables have their types: its stack only ever holds blocks
\* that exist, whatever the text.
THEOREM MainParserTypeCorrect == Spec => []ParserTypeOK
  <1>1. ParserInv => ParserTypeOK
    BY DEF ParserInv
  <1>2. QED BY <1>1, ParserInvariant, PTL

\* The stack that parse() keeps by hand is the path from the root to the
\* block that is open, whatever the text.
THEOREM MainStackIsPath == Spec => []StackIsPath
  <1>1. ParserInv => StackIsPath
    BY DEF ParserInv
  <1>2. QED BY <1>1, ParserInvariant, PTL

\* What a closing brace has finished is never changed again.
THEOREM MainClosedBlocksFixed == Spec => ClosedBlocksFixed
  <1> DEFINE Fixed == \A b \in DOMAIN blocks : b \notin Range(config_stack) => blocks'[b] = blocks[b]
  <1>1. ParserInv /\ [Next]_vars => [Fixed]_parserVars
    BY MainParses, ParserNextInv
  <1>2. QED BY <1>1, ParserInvariant, PTL DEF Spec, ClosedBlocksFixed

-----------------------------------------------------------------------------
(* The longest match.                                                      *)

\* A set of naturals has a least element.
LEMMA LeastNatural ==
  ASSUME NEW S \in SUBSET Nat, S # {}
  PROVE  \E x \in S : \A y \in S : x <= y
  <1>1. PICK x \in S : \A y \in S : ~(<<y, x>> \in OpToRel(<, Nat))
    BY NatLessThanWellFounded, WFMin
  <1>2. \A y \in S : ~(y < x)
    BY <1>1 DEF OpToRel
  <1>3. QED BY <1>2

\* Among prefixes of a word there is one that none is longer than.
LEMMA LongestPrefix ==
  ASSUME NEW u \in Seq(STRING), NEW S \in SUBSET Seq(STRING), S # {}, \A p \in S : IsPrefix(p, u)
  PROVE  \E p \in S : \A q \in S : Len(q) <= Len(p)
  <1> DEFINE rests == {Len(u) - Len(p) : p \in S}
  <1>1. /\ Len(u) \in Nat /\ \A p \in S : Len(p) \in Nat /\ Len(p) <= Len(u)
    BY LenProperties DEF IsPrefix
  <1>2. rests \in SUBSET Nat /\ rests # {}
    BY <1>1
  <1>3. PICK x \in rests : \A y \in rests : x <= y
    BY <1>2, LeastNatural
  <1>4. PICK p \in S : x = Len(u) - Len(p)
    BY <1>3
  <1>5. \A q \in S : Len(u) - Len(p) <= Len(u) - Len(q)
    BY <1>3, <1>4
  <1>6. QED BY <1>1, <1>4, <1>5

\* longest_prefix_match finds the longest path, or NoMatch if there is none.
LEMMA LongestPrefixMatch ==
  ASSUME NEW u \in Seq(STRING), DOMAIN routes \subseteq Seq(STRING)
  PROVE  LET l == longest_prefix_match(u)
             matches == {path \in DOMAIN routes : path # <<>> /\ IsPrefix(path, u)}
         IN \/ l = NoMatch /\ matches = {}
            \/ l \in matches /\ \A path \in matches : Len(path) <= Len(l)
  <1> DEFINE matches == {path \in DOMAIN routes : path # <<>> /\ IsPrefix(path, u)}
  <1>1. CASE matches = {}
    BY <1>1 DEF longest_prefix_match
  <1>2. CASE matches # {}
    <2>1. \E path \in matches : \A other \in matches : Len(other) <= Len(path)
      <3> HIDE DEF matches
      <3>1. matches \in SUBSET Seq(STRING) /\ \A p \in matches : IsPrefix(p, u)
        BY DEF matches
      <3>2. QED BY <1>2, <3>1, LongestPrefix
    <2>2. longest_prefix_match(u)
            = CHOOSE path \in matches : \A other \in matches : Len(other) <= Len(path)
      BY <1>2 DEF longest_prefix_match
    <2> HIDE DEF matches
    <2>3. longest_prefix_match(u) \in matches
          /\ \A other \in matches : Len(other) <= Len(longest_prefix_match(u))
      BY <2>1, <2>2
    <2>4. QED BY <2>3 DEF matches
  <1>3. QED BY <1>1, <1>2

-----------------------------------------------------------------------------
(* The routes, which are shared without a lock.                            *)

\* The worker's location is the longest match of its URL.
Longest(w) ==
  /\ url[w] \in Urls
  /\ location[w] \in Configured
  /\ IsPrefix(location[w], url[w])
  /\ \A path \in Configured : IsPrefix(path, url[w]) => Len(path) <= Len(location[w])

\* longest_prefix_match has answered.
Located(w) == Longest(w) \/ (location[w] = NoMatch /\ url[w] \in Urls /\ Unmatched(w))

WorkerInv(w) ==
  /\ pc[w] # "crashed"
  /\ pc[w] = "match" => url[w] \in Urls
  /\ pc[w] \in {"route", "use"} => Located(w)
  /\ pc[w] = "use" => location[w] \in DOMAIN routes
  /\ pc[w] \in {"handler", "open"} \/ (pc[w] = "idle" /\ reply[w] # NoReply) => Longest(w)

\* The map holds the configured routes, and a null one at most for NoMatch.
RoutesInv ==
  /\ Configured \subseteq Seq(STRING) \ {<<>>}
  /\ Configured \subseteq DOMAIN routes /\ DOMAIN routes \subseteq Configured \cup {NoMatch}
  /\ \A path \in Configured : routes[path] # NullRoute
  /\ NoMatch \in DOMAIN routes => routes[NoMatch] = NullRoute

DispatchTypes ==
  /\ pc \in [Workers -> Pcs \cup {"open"}]
  /\ url \in [Workers -> Urls \cup {<<>>}]
  /\ location \in [Workers -> Seq(STRING)]
  /\ reply = [w \in Workers |-> reply[w]]

ServeInv == phase = "serve" => RoutesInv /\ \A w \in Workers : WorkerInv(w)

\* Before main serves, no worker does anything.
NotServing ==
  phase \in {"parse", "port", "bind", "dispatcher"} =>
    \A w \in Workers : pc[w] = "idle" /\ reply[w] = NoReply

DispatchInv == DispatchTypes /\ NotServing /\ ServeInv /\ CrashOnlyUnmatched

\* A valid configuration's locations have paths, and registered handlers.
LEMMA LocationsAreRoutes ==
  ASSUME ParserInv, NEW l \in get_locations(blocks).locations,
         get_locations(blocks).outcome = "valid"
  PROVE  l.path \in Seq(STRING) \ {<<>>} /\ l.handler # "null"
  <1> DEFINE bad == {i \in DOMAIN blocks[1] : LocationOutcome(blocks, i) \in {"refused", "undefined"}}
             made == {blocks[1][i] : i \in {j \in DOMAIN blocks[1] : IsLocation(blocks[1][j])}}
             loc(s) == [path |-> spelling[s.tokens[2]], handler |-> s.tokens[3],
                        args |-> RootArgs(blocks, s)]
  <1>1. \/ bad = {} /\ get_locations(blocks) = [outcome |-> "valid", locations |-> {loc(s) : s \in made}]
        \/ bad # {} /\ get_locations(blocks) = [outcome |-> LocationOutcome(blocks, Min(bad)), locations |-> {}]
    BY DEF get_locations
  <1>2. bad = {} /\ get_locations(blocks).locations = {loc(s) : s \in made}
    BY <1>1
  <1>3. PICK i \in DOMAIN blocks[1] : IsLocation(blocks[1][i]) /\ l = loc(blocks[1][i])
    BY <1>2
  <1> DEFINE s == blocks[1][i]
  <1>4. s \in Statements
    <2>1. blocks[1] \in Seq(Statements)
      BY DEF ParserInv, ParserTypeOK, RootExists
    <2>2. QED BY <1>3, <2>1
  <1>5. LocationOutcome(blocks, i) # "refused"
    BY <1>2, <1>3
  <1>6. Len(s.tokens) = 3
    BY <1>3, <1>5 DEF LocationOutcome
  <1>7. s.tokens[2] \in Words /\ s.tokens[3] \in Words
    <2>1. s.tokens \in Seq(Words)
      BY <1>4 DEF Statements
    <2>2. QED BY <1>6, <2>1, ElementOfSeq
  <1>8. l.path = spelling[s.tokens[2]] /\ l.handler = s.tokens[3]
    BY <1>3
  <1>9. QED BY <1>7, <1>8, WordsAssumption, HandlersAssumption

\* The dispatcher is made from the locations.
LEMMA MakesRoutes ==
  ASSUME ParserInv, DispatchInv, MakeDispatcher
  PROVE  DispatchInv'
  <1>1. /\ phase = "dispatcher" /\ UNCHANGED <<parserVars, pc, url, location, reply>>
        /\ phase' \in {"serve", "exited", "crashed"}
    BY DEF MakeDispatcher, Exit
  <1>2. \A w \in Workers : pc'[w] = "idle" /\ reply'[w] = NoReply
    BY <1>1 DEF DispatchInv, NotServing
  <1>3. DispatchTypes' /\ NotServing' /\ CrashOnlyUnmatched'
    BY <1>1, <1>2 DEF DispatchInv, DispatchTypes, NotServing, CrashOnlyUnmatched
  <1>4. ServeInv'
    <2> SUFFICES ASSUME phase' = "serve"
                 PROVE  ServeInv'
      BY DEF ServeInv
    <2> DEFINE result == get_locations(blocks)
    <2>1. result.outcome = "valid" /\ AddRoutes(result.locations)
      BY DEF MakeDispatcher, Exit
    <2>2. \A l \in result.locations : l.path \in Seq(STRING) \ {<<>>} /\ l.handler # "null"
      BY <2>1, LocationsAreRoutes
    <2>3. Configured' = {l.path : l \in result.locations}
      BY <1>1 DEF Configured, parserVars
    <2>4. DOMAIN routes' = {l.path : l \in result.locations}
      BY <2>1 DEF AddRoutes
    <2>5. ASSUME NEW path \in DOMAIN routes'
          PROVE  routes'[path] # NullRoute
      <3> DEFINE l == CHOOSE x \in result.locations : x.path = path
      <3> HIDE DEF result
      <3>1. \E x \in result.locations : x.path = path
        BY <2>4, <2>5
      <3>2. l \in result.locations
        BY <3>1
      <3>3. routes'[path] = [handler |-> l.handler, args |-> l.args]
        BY <2>1, <2>4, <2>5 DEF AddRoutes
      <3>4. QED BY <2>2, <3>2, <3>3 DEF NullRoute
    <2>6. RoutesInv'
      BY <2>2, <2>3, <2>4, <2>5 DEF RoutesInv, NoMatch
    <2>7. \A w \in Workers : WorkerInv(w)'
      BY <1>2 DEF WorkerInv
    <2>8. QED BY <2>6, <2>7 DEF ServeInv
  <1>5. QED BY <1>3, <1>4 DEF DispatchInv

\* A URL that begins with a slash is matched by "/".
LEMMA UnmatchedSlash ==
  ASSUME NEW w \in Workers, url[w] \in Urls, Unmatched(w)
  PROVE  <<"/">> \in Configured => Head(url[w]) # "/"
  <1> SUFFICES ASSUME <<"/">> \in Configured, Head(url[w]) = "/"
               PROVE  FALSE
    OBVIOUS
  <1>1. url[w] \in Seq(STRING) /\ Len(url[w]) \in Nat \ {0}
    BY UrlsAssumption, EmptySeq
  <1>2. url[w][1] = "/" /\ url[w][1] \in STRING
    BY <1>1, ElementOfSeq
  <1>3. SubSeq(url[w], 1, 1) = <<"/">>
    <2>1. SubSeq(url[w], 1, 1) = <<url[w][1]>> \o SubSeq(url[w], 2, 1)
      BY <1>1, SubSeqRecursiveFirst
    <2>2. SubSeq(url[w], 2, 1) = <<>>
      BY SubSeqEmpty
    <2>3. <<url[w][1]>> \in Seq(STRING)
      BY <1>2
    <2>4. <<url[w][1]>> \o <<>> = <<url[w][1]>>
      BY <2>3, ConcatEmptySeq
    <2>5. QED BY <1>2, <2>1, <2>2, <2>4
  <1>4. <<"/">> \in Seq(STRING) /\ Len(<<"/">>) = 1
    BY <1>2
  <1>5. SubSeq(<<"/">>, 1, 1) = <<"/">>
    BY <1>4, SubSeqFull
  <1>6. IsPrefix(<<"/">>, url[w])
    BY <1>1, <1>3, <1>4, <1>5 DEF IsPrefix
  <1>7. QED BY <1>6 DEF Unmatched

\* A request changes its worker alone, and leaves the routes alone.
LEMMA OneWorker ==
  ASSUME DispatchInv, Serve, NEW w \in Workers, UNCHANGED routes,
         pc' = [pc EXCEPT ![w] = pc'[w]], url' = [url EXCEPT ![w] = url'[w]],
         location' = [location EXCEPT ![w] = location'[w]],
         reply' = [reply EXCEPT ![w] = reply'[w]],
         pc'[w] \in Pcs \cup {"open"}, url'[w] \in Urls \cup {<<>>},
         location'[w] \in Seq(STRING), WorkerInv(w)'
  PROVE  DispatchInv'
  <1>1. phase = "serve" /\ UNCHANGED blocks /\ phase' \in {"serve", "exited", "crashed"}
    BY DEF Serve, parserVars
  <1>2. RoutesInv /\ \A v \in Workers : WorkerInv(v)
    BY <1>1 DEF DispatchInv, ServeInv
  <1>3. Configured' = Configured
    BY <1>1 DEF Configured
  <1>4. DispatchTypes'
    BY DEF DispatchInv, DispatchTypes
  <1>5. ASSUME NEW v \in Workers \ {w}
        PROVE  /\ pc'[v] = pc[v] /\ url'[v] = url[v]
               /\ location'[v] = location[v] /\ reply'[v] = reply[v]
    BY DEF DispatchInv, DispatchTypes
  <1>6. ASSUME NEW v \in Workers
        PROVE  WorkerInv(v)'
    <2>1. CASE v = w
      BY <2>1
    <2>2. CASE v # w
      <3>1. Longest(v)' <=> Longest(v)
        BY <1>3, <1>5, <2>2 DEF Longest
      <3>2. Located(v)' <=> Located(v)
        BY <1>3, <1>5, <2>2, <3>1 DEF Located, Unmatched
      <3>3. QED BY <1>2, <1>5, <2>2, <3>1, <3>2 DEF WorkerInv
    <2>3. QED BY <2>1, <2>2
  <1>7. RoutesInv'
    BY <1>2, <1>3 DEF RoutesInv
  <1>8. CrashOnlyUnmatched'
    BY <1>6 DEF CrashOnlyUnmatched, WorkerInv
  <1>9. QED BY <1>1, <1>4, <1>6, <1>7, <1>8 DEF DispatchInv, ServeInv, NotServing

\* A crash under a request that nothing matches.
LEMMA CrashStep ==
  ASSUME DispatchInv, Serve, NEW w \in Workers, Unmatched(w), url[w] \in Urls,
         UNCHANGED url, DispatchTypes', \E v \in Workers : pc'[v] = "crashed"
  PROVE  DispatchInv'
  <1>1. UNCHANGED blocks /\ phase' = "crashed"
    BY DEF Serve, parserVars
  <1>2. Configured' = Configured
    BY <1>1 DEF Configured
  <1>3. <<"/">> \in Configured => Head(url[w]) # "/"
    BY UnmatchedSlash
  <1>4. CrashOnlyUnmatched'
    BY <1>2, <1>3 DEF CrashOnlyUnmatched, Unmatched
  <1>5. QED BY <1>1, <1>4 DEF DispatchInv, ServeInv, NotServing

\* What the invariant says of a worker while main serves.
LEMMA WorkerFacts ==
  ASSUME DispatchInv, Serve, NEW w \in Workers
  PROVE  RoutesInv /\ WorkerInv(w) /\ DispatchTypes /\ location[w] \in Seq(STRING)
         /\ url[w] \in Urls \cup {<<>>} /\ Configured' = Configured
  BY DEF DispatchInv, ServeInv, DispatchTypes, Serve, Configured, parserVars

\* A request comes in.
LEMMA GetsRequest ==
  ASSUME DispatchInv, Serve, NEW w \in Workers, GetHandler(w),
         reply' = [reply EXCEPT ![w] = NoReply]
  PROVE  DispatchInv'
  <1>1. PICK u \in Urls : url' = [url EXCEPT ![w] = u]
    BY DEF GetHandler
  <1>2. /\ pc' = [pc EXCEPT ![w] = "match"] /\ UNCHANGED routes
        /\ location' = [location EXCEPT ![w] = NoMatch]
    BY DEF GetHandler, GoTo
  <1>3. pc'[w] = "match" /\ url'[w] = u /\ location'[w] = <<>> /\ reply'[w] = NoReply
    BY <1>1, <1>2, WorkerFacts DEF DispatchTypes, NoMatch
  <1>4. WorkerInv(w)'
    BY <1>3 DEF WorkerInv
  <1>5. <<>> \in Seq(STRING)
    BY EmptySeq
  <1>6. QED BY <1>1, <1>2, <1>3, <1>4, <1>5, OneWorker DEF Pcs

\* The match is located.
LEMMA Matches ==
  ASSUME DispatchInv, Serve, NEW w \in Workers, Match(w), UNCHANGED reply
  PROVE  DispatchInv'
  <1> DEFINE l == longest_prefix_match(url[w])
             matches == {path \in DOMAIN routes : path # <<>> /\ IsPrefix(path, url[w])}
  <1>1. /\ pc[w] = "match" /\ pc' = [pc EXCEPT ![w] = "route"] /\ UNCHANGED <<routes, url>>
        /\ location' = [location EXCEPT ![w] = l]
    BY DEF Match, GoTo
  <1>2. RoutesInv /\ DispatchTypes /\ Configured' = Configured /\ url[w] \in Urls
    BY <1>1, WorkerFacts DEF WorkerInv
  <1>3. url[w] \in Seq(STRING) /\ url[w] # <<>>
    BY <1>2, UrlsAssumption
  <1>4. DOMAIN routes \subseteq Seq(STRING)
    BY <1>2, EmptySeq DEF RoutesInv, NoMatch
  <1>5. \A path : path \in matches <=> path \in Configured /\ IsPrefix(path, url[w])
    BY <1>2 DEF RoutesInv, NoMatch
  <1>6. /\ pc'[w] = "route" /\ location'[w] = l /\ url'[w] = url[w] /\ reply'[w] = reply[w]
    BY <1>1, <1>2 DEF DispatchTypes
  <1>7. \/ l = NoMatch /\ matches = {}
        \/ l \in matches /\ \A path \in matches : Len(path) <= Len(l)
    BY <1>3, <1>4, LongestPrefixMatch
  <1> HIDE DEF l, matches
  <1>8. Located(w)'
    <2>1. CASE l = NoMatch /\ matches = {}
      BY <1>2, <1>3, <1>5, <1>6, <2>1 DEF Located, Unmatched
    <2>2. CASE l \in matches /\ \A path \in matches : Len(path) <= Len(l)
      BY <1>2, <1>5, <1>6, <2>2 DEF Located, Longest
    <2>3. QED BY <1>7, <2>1, <2>2
  <1>9. WorkerInv(w)'
    BY <1>6, <1>8 DEF WorkerInv
  <1>10. l \in Seq(STRING)
    BY <1>4, <1>7, EmptySeq DEF matches, NoMatch
  <1>11. QED BY <1>1, <1>2, <1>6, <1>9, <1>10, OneWorker DEF Pcs, DispatchTypes

\* A location that has no entry is no location: nothing matches.
LEMMA NoEntry ==
  ASSUME DispatchInv, Serve, NEW w \in Workers, pc[w] \in {"route", "use"},
         location[w] \notin DOMAIN routes \/ routes[location[w]] = NullRoute
  PROVE  location[w] = NoMatch /\ Unmatched(w) /\ url[w] \in Urls
  BY WorkerFacts DEF RoutesInv, WorkerInv, Located, Longest

\* The entry is found.
LEMMA LooksUp ==
  ASSUME DispatchInv, Serve, NEW w \in Workers, LookupRoute(w), UNCHANGED reply
  PROVE  DispatchInv'
  <1>1. /\ pc[w] = "route" /\ pc' = [pc EXCEPT ![w] = "use"]
        /\ UNCHANGED <<routes, url, location>> /\ location[w] \in DOMAIN routes
    BY DEF LookupRoute, GoTo
  <1>2. DispatchTypes /\ pc'[w] = "use"
    BY <1>1, WorkerFacts DEF DispatchTypes
  <1>3. Located(w)'
    BY <1>1, WorkerFacts DEF WorkerInv, Located, Longest, Unmatched
  <1>4. WorkerInv(w)'
    BY <1>1, <1>2, <1>3 DEF WorkerInv
  <1>5. QED BY <1>1, <1>2, <1>4, WorkerFacts, OneWorker DEF Pcs, DispatchTypes

\* The entry is made: the other workers may crash, and the routes stay theirs.
LEMMA Inserts ==
  ASSUME DispatchInv, Serve, NEW w \in Workers, InsertRoute(w), UNCHANGED reply
  PROVE  DispatchInv'
  <1>1. /\ pc[w] = "route" /\ location[w] \notin DOMAIN routes /\ UNCHANGED <<url, location>>
        /\ routes' = [path \in DOMAIN routes \cup {location[w]} |->
                        IF path = location[w] THEN NullRoute ELSE routes[path]]
    BY DEF InsertRoute
  <1>2. PICK torn \in SUBSET {v \in Workers \ {w} : pc[v] \in {"match", "route"}} :
          pc' = [v \in Workers |-> IF v = w THEN "use"
                                   ELSE IF v \in torn THEN "crashed" ELSE pc[v]]
    BY DEF InsertRoute
  <1>3. location[w] = NoMatch /\ Unmatched(w) /\ url[w] \in Urls
    BY <1>1, NoEntry
  <1>4. DispatchTypes'
    BY <1>1, <1>2, WorkerFacts DEF DispatchTypes, Pcs
  <1>5. CASE \E v \in Workers : pc'[v] = "crashed"
    BY <1>1, <1>3, <1>4, <1>5, CrashStep
  <1>6. CASE ~ \E v \in Workers : pc'[v] = "crashed"
    <2>1. phase' \in {"serve", "exited"}
      BY <1>6 DEF Serve
    <2>2. RoutesInv'
      BY <1>1, <1>3, WorkerFacts DEF RoutesInv, NoMatch
    <2>3. ASSUME NEW v \in Workers
          PROVE  WorkerInv(v)'
      <3>1. WorkerInv(v) /\ Configured' = Configured
        BY WorkerFacts
      <3>2. Longest(v)' <=> Longest(v)
        BY <1>1, <3>1 DEF Longest
      <3>3. Located(v)' <=> Located(v)
        BY <1>1, <3>1, <3>2 DEF Located, Unmatched
      <3>4. CASE v = w
        <4>1. pc'[v] = "use" /\ location'[v] \in DOMAIN routes' /\ Located(v)
          BY <1>1, <1>2, <3>1, <3>4 DEF WorkerInv
        <4>2. QED BY <3>3, <4>1 DEF WorkerInv
      <3>5. CASE v # w
        <4>1. pc'[v] = pc[v]
          BY <1>2, <1>6, <3>5
        <4>2. location[v] \in DOMAIN routes => location'[v] \in DOMAIN routes'
          BY <1>1
        <4>3. QED BY <1>1, <3>1, <3>2, <3>3, <4>1, <4>2 DEF WorkerInv
      <3>6. QED BY <3>4, <3>5
    <2>4. QED BY <1>4, <1>6, <2>1, <2>2, <2>3
            DEF DispatchInv, ServeInv, NotServing, CrashOnlyUnmatched
  <1>7. QED BY <1>5, <1>6

\* The pointer is dereferenced.
LEMMA Uses ==
  ASSUME DispatchInv, Serve, NEW w \in Workers, UseRoute(w), UNCHANGED reply
  PROVE  DispatchInv'
  <1>1. pc[w] = "use" /\ UNCHANGED <<routes, url, location>>
    BY DEF UseRoute
  <1>2. RoutesInv /\ WorkerInv(w) /\ DispatchTypes /\ location[w] \in Seq(STRING)
    BY WorkerFacts
  <1>3. CASE routes[location[w]] = NullRoute
    <2>1. pc' = [pc EXCEPT ![w] = "crashed"]
      BY <1>3 DEF UseRoute, GoTo
    <2>2. DispatchTypes' /\ pc'[w] = "crashed"
      BY <1>1, <1>2, <2>1 DEF DispatchTypes, Pcs
    <2>3. Unmatched(w) /\ url[w] \in Urls
      BY <1>1, <1>3, NoEntry
    <2>4. QED BY <1>1, <2>2, <2>3, CrashStep
  <1>4. CASE routes[location[w]] # NullRoute
    <2>1. pc' = [pc EXCEPT ![w] = "handler"]
      BY <1>4 DEF UseRoute, GoTo
    <2>2. pc'[w] = "handler"
      BY <1>2, <2>1 DEF DispatchTypes
    <2>3. Longest(w)
      BY <1>1, <1>2, <1>4 DEF WorkerInv, Located, RoutesInv
    <2>4. Longest(w)'
      BY <1>1, <2>3, WorkerFacts DEF Longest
    <2>5. WorkerInv(w)'
      BY <2>2, <2>4 DEF WorkerInv
    <2>6. QED BY <1>1, <1>2, <2>1, <2>2, <2>5, OneWorker DEF Pcs, DispatchTypes
  <1>5. QED BY <1>3, <1>4

\* A handler answers, or looks at its file first.
LEMMA HandlerStep ==
  ASSUME DispatchInv, Serve, NEW w \in Workers, pc[w] \in {"handler", "open"},
         UNCHANGED <<routes, url, location>>, NEW label \in {"open", "idle", "ended"}, GoTo(w, label),
         reply' = [reply EXCEPT ![w] = reply'[w]]
  PROVE  DispatchInv'
  <1>1. WorkerInv(w) /\ DispatchTypes /\ Configured' = Configured
    BY WorkerFacts
  <1>2. pc' = [pc EXCEPT ![w] = label] /\ pc'[w] = label
    BY <1>1 DEF GoTo, DispatchTypes
  <1>3. label # "ended" => Longest(w)'
    BY <1>1 DEF WorkerInv, Longest
  <1>4. WorkerInv(w)'
    BY <1>2, <1>3 DEF WorkerInv
  <1>5. QED BY <1>1, <1>2, <1>4, WorkerFacts, OneWorker DEF Pcs, DispatchTypes

\* An answer is a handler's step.
LEMMA ReplyStep ==
  ASSUME DispatchInv, Serve, NEW w \in Workers, pc[w] \in {"handler", "open"},
         UNCHANGED <<routes, url, location>>, NEW response, Replies(w, response)
  PROVE  DispatchInv'
  <1>1. reply' = [reply EXCEPT ![w] = response] /\ GoTo(w, "idle")
    BY DEF Replies
  <1>2. reply' = [reply EXCEPT ![w] = reply'[w]]
    BY <1>1, WorkerFacts DEF DispatchTypes
  <1>3. QED BY <1>1, <1>2, HandlerStep

\* So is an exception.
LEMMA ThrowStep ==
  ASSUME DispatchInv, Serve, NEW w \in Workers, pc[w] \in {"handler", "open"},
         UNCHANGED <<routes, url, location>>, Throws(w)
  PROVE  DispatchInv'
  <1>1. UNCHANGED reply /\ GoTo(w, "ended")
    BY DEF Throws
  <1>2. reply' = [reply EXCEPT ![w] = reply'[w]]
    BY <1>1, WorkerFacts DEF DispatchTypes
  <1>3. QED BY <1>1, <1>2, HandlerStep

\* Until main serves, and when it has ended, the workers stand still.
LEMMA EarlyStep ==
  ASSUME DispatchInv, phase \in {"parse", "port", "bind", "dispatcher"},
         UNCHANGED <<pc, url, location, reply>>, phase' # "serve"
  PROVE  DispatchInv'
  <1>1. \A w \in Workers : pc'[w] = "idle" /\ reply'[w] = NoReply
    BY DEF DispatchInv, NotServing
  <1>2. DispatchTypes'
    BY DEF DispatchInv, DispatchTypes
  <1>3. QED BY <1>1, <1>2 DEF DispatchInv, NotServing, ServeInv, CrashOnlyUnmatched

\* Nothing happens.
LEMMA StutterStep ==
  ASSUME DispatchInv, UNCHANGED vars
  PROVE  DispatchInv'
  <1>1. UNCHANGED <<blocks, routes, pc, url, location, reply, phase>>
    BY DEF vars, parserVars, staticVars, dispatchVars
  <1>2. Configured' = Configured
    BY <1>1 DEF Configured
  <1>3. DispatchTypes' /\ NotServing'
    BY <1>1 DEF DispatchInv, DispatchTypes, NotServing
  <1>4. ASSUME NEW w \in Workers
        PROVE  (WorkerInv(w)' <=> WorkerInv(w)) /\ (Unmatched(w)' <=> Unmatched(w))
    BY <1>1, <1>2 DEF WorkerInv, Located, Longest, Unmatched
  <1>5. RoutesInv' <=> RoutesInv
    BY <1>1, <1>2 DEF RoutesInv
  <1>6. ServeInv'
    BY <1>1, <1>4, <1>5 DEF DispatchInv, ServeInv
  <1>7. CrashOnlyUnmatched'
    BY <1>1, <1>2, <1>4 DEF DispatchInv, CrashOnlyUnmatched
  <1>8. QED BY <1>3, <1>6, <1>7 DEF DispatchInv

\* A file changes under the handlers.
LEMMA DiskStep ==
  ASSUME DispatchInv, Serve, DiskChanges
  PROVE  DispatchInv'
  <1>1. UNCHANGED <<blocks, routes, pc, url, location, reply>> /\ phase = "serve"
    BY DEF Serve, DiskChanges, dispatchVars, parserVars
  <1>2. \A w \in Workers : pc'[w] # "crashed"
    BY <1>1 DEF DispatchInv, ServeInv, WorkerInv
  <1>3. phase' \in {"serve", "exited"}
    BY <1>1, <1>2 DEF Serve
  <1>4. Configured' = Configured
    BY <1>1 DEF Configured
  <1>5. ASSUME NEW w \in Workers
        PROVE  WorkerInv(w)' <=> WorkerInv(w)
    BY <1>1, <1>4 DEF WorkerInv, Located, Longest, Unmatched
  <1>6. RoutesInv' <=> RoutesInv
    BY <1>1, <1>4 DEF RoutesInv
  <1>7. DispatchTypes'
    BY <1>1 DEF DispatchInv, DispatchTypes
  <1>8. QED BY <1>1, <1>2, <1>3, <1>5, <1>6, <1>7
          DEF DispatchInv, ServeInv, NotServing, CrashOnlyUnmatched

\* A step of a handler.
LEMMA HandlersKeep ==
  ASSUME DispatchInv, Serve, NEW w \in Workers,
         \/ StaticCheck(w) \/ StaticOpen(w)
         \/ Echo(w) \/ Health(w) \/ NotFound(w) \/ Blocking(w) \/ OtherHandler(w)
  PROVE  DispatchInv'
  <1>1. CASE StaticCheck(w)
    <2>1. pc[w] = "handler" /\ UNCHANGED <<routes, url, location>>
      BY <1>1 DEF StaticCheck
    <2>2. Replies(w, Stock404) \/ Throws(w) \/ (GoTo(w, "open") /\ UNCHANGED reply)
      BY <1>1 DEF StaticCheck
    <2>3. CASE Replies(w, Stock404)
      BY <2>1, <2>3, ReplyStep
    <2>4. CASE GoTo(w, "open") /\ UNCHANGED reply
      <3>1. reply' = [reply EXCEPT ![w] = reply'[w]]
        BY <2>4, WorkerFacts DEF DispatchTypes
      <3>2. QED BY <2>1, <2>4, <3>1, HandlerStep
    <2>5. CASE Throws(w)
      BY <2>1, <2>5, ThrowStep
    <2>6. QED BY <2>2, <2>3, <2>4, <2>5
  <1>2. CASE StaticOpen(w)
    <2>1. pc[w] = "open" /\ UNCHANGED <<routes, url, location>>
      BY <1>2 DEF StaticOpen
    <2>2. (\E response : Replies(w, response)) \/ Throws(w)
      BY <1>2 DEF StaticOpen
    <2>3. QED BY <2>1, <2>2, ReplyStep, ThrowStep
  <1>3. ASSUME NEW kind, NEW status, NEW body, Answers(w, kind, status, body)
        PROVE  DispatchInv'
    BY <1>3, ReplyStep DEF Answers
  <1>4. CASE OtherHandler(w)
    <2>1. CASE \E kind \in {"crud", "shorten"} : Answers(w, kind, 1, Empty)
      BY <1>3, <2>1
    <2>2. CASE pc[w] = "handler" /\ Throws(w) /\ UNCHANGED <<routes, url, location>>
      BY <2>2, ThrowStep
    <2>3. QED BY <1>4, <2>1, <2>2 DEF OtherHandler
  <1>5. QED BY <1>1, <1>2, <1>3, <1>4 DEF Echo, Health, NotFound, Blocking

\* Requests are served.
LEMMA Serves ==
  ASSUME DispatchInv, Serve
  PROVE  DispatchInv'
  <1>1. \/ \E w \in Workers :
             \/ DispatchStep(w) \/ StaticCheck(w) \/ StaticOpen(w)
             \/ Echo(w) \/ Health(w) \/ NotFound(w) \/ Blocking(w) \/ OtherHandler(w)
        \/ DiskChanges
    BY DEF Serve, StaticNext
  <1>2. ASSUME NEW w \in Workers, DispatchStep(w)
        PROVE  DispatchInv'
    <2>1. CASE GetHandler(w)
      BY <1>2, <2>1, GetsRequest DEF DispatchStep, GetHandler, Match, LookupRoute, InsertRoute, UseRoute
    <2>2. CASE /\ Match(w) \/ LookupRoute(w) \/ InsertRoute(w) \/ UseRoute(w)
               /\ UNCHANGED reply
      BY <2>2, Matches, LooksUp, Inserts, Uses
    <2>3. QED BY <1>2, <2>1, <2>2 DEF DispatchStep
  <1>3. QED BY <1>1, <1>2, HandlersKeep, DiskStep

\* The invariant holds of every step.
LEMMA NextDispatchInv ==
  ASSUME ParserInv, DispatchInv, [Next]_vars
  PROVE  DispatchInv'
  <1>1. CASE Parse
    <2>1. phase' # "serve" /\ phase = "parse" /\ UNCHANGED <<pc, url, location, reply>>
      BY <1>1 DEF Parse, staticVars, dispatchVars
    <2>2. QED BY <2>1, EarlyStep
  <1>2. CASE Parsed
    <2>1. phase' # "serve" /\ phase = "parse" /\ UNCHANGED <<pc, url, location, reply>>
      BY <1>2 DEF Parsed, Exit, staticVars, dispatchVars
    <2>2. QED BY <2>1, EarlyStep
  <1>3. CASE ReadPort
    <2>1. phase' # "serve" /\ phase = "port" /\ UNCHANGED <<pc, url, location, reply>>
      BY <1>3 DEF ReadPort, Exit, staticVars, dispatchVars
    <2>2. QED BY <2>1, EarlyStep
  <1>4. CASE Bind
    <2>1. phase' # "serve" /\ phase = "bind" /\ UNCHANGED <<pc, url, location, reply>>
      BY <1>4 DEF Bind, Exit, staticVars, dispatchVars
    <2>2. QED BY <2>1, EarlyStep
  <1>5. CASE MakeDispatcher
    BY <1>5, MakesRoutes
  <1>6. CASE Serve
    BY <1>6, Serves
  <1>7. CASE UNCHANGED vars
    BY <1>7, StutterStep
  <1>8. QED BY <1>1, <1>2, <1>3, <1>4, <1>5, <1>6, <1>7 DEF Next, Ended

\* The invariant holds of every behaviour.
LEMMA DispatchInvariant == Spec => []DispatchInv
  <1>1. Init => DispatchInv
    <2> SUFFICES ASSUME Init
                 PROVE  DispatchInv
      OBVIOUS
    <2>1. /\ pc = [w \in Workers |-> "idle"] /\ url = [w \in Workers |-> <<>>]
          /\ location = [w \in Workers |-> <<>>] /\ reply = [w \in Workers |-> NoReply]
          /\ phase = "parse"
      BY DEF Init, StaticInit, DispatcherInit, NoMatch
    <2>2. <<>> \in Seq(STRING)
      BY EmptySeq
    <2>3. DispatchTypes
      BY <2>1, <2>2 DEF DispatchTypes, Pcs
    <2>4. QED BY <2>1, <2>3 DEF DispatchInv, NotServing, ServeInv, CrashOnlyUnmatched
  <1>2. ParserInv /\ DispatchInv /\ [Next]_vars => DispatchInv'
    BY NextDispatchInv
  <1>3. QED BY <1>1, <1>2, ParserInvariant, PTL DEF Spec

\* A request reaches the handler of the longest configured path that its URL
\* begins with: longest_prefix_match and get_handler.
THEOREM MainLongestMatch == Spec => []LongestMatch
  <1>1. DispatchInv => LongestMatch
    BY DEF DispatchInv, ServeInv, WorkerInv, Longest, LongestMatch
  <1>2. QED BY <1>1, DispatchInvariant, PTL

\* The program only crashes on a request that no configured path matches.
THEOREM MainCrashOnlyUnmatched == Spec => []CrashOnlyUnmatched
  <1>1. DispatchInv => CrashOnlyUnmatched
    BY DEF DispatchInv
  <1>2. QED BY <1>1, DispatchInvariant, PTL

\* While requests are served, the routes that the workers share without a lock
\* change only under a request that no configured path matches.
THEOREM MainRoutesFixed == Spec => RoutesFixed
  <1>1. ASSUME DispatchInv, [Next]_vars, phase = "serve", routes' # routes
        PROVE  \E w \in Workers : Unmatched(w)
    <2>1. Serve
      BY <1>1 DEF Next, Parse, Parsed, ReadPort, Bind, MakeDispatcher, Ended,
                  vars, staticVars, dispatchVars
    <2>2. \A w \in Workers : ~(StaticCheck(w) \/ StaticOpen(w) \/ Echo(w) \/ Health(w)
                               \/ NotFound(w) \/ Blocking(w) \/ OtherHandler(w))
      BY <1>1 DEF StaticCheck, StaticOpen, Echo, Health, NotFound, Blocking,
                  OtherHandler, Answers
    <2>3. PICK w \in Workers : InsertRoute(w)
      BY <1>1, <2>1, <2>2 DEF Serve, StaticNext, DispatchStep, DiskChanges, dispatchVars,
                              GetHandler, Match, LookupRoute, UseRoute
    <2>4. QED BY <1>1, <2>1, <2>3, NoEntry DEF InsertRoute
  <1>2. DispatchInv /\ [Next]_vars
          => (phase = "serve" /\ routes' # routes => \E w \in Workers : Unmatched(w))
    BY <1>1
  <1>3. QED BY <1>2, DispatchInvariant, PTL DEF Spec, RoutesFixed
-----------------------------------------------------------------------------
(* The scan of one token.  What is left to read shrinks with each step, so *)
(* the scan is built from the end of the text down to where it begins.     *)

EndOfScan(input, first, state, p) ==
  [type |-> IF state \in {"single_quote", "double_quote"} THEN "ERROR" ELSE "EOF",
   first |-> first, last |-> Len(input), next |-> p]

EndOfToken(after, first, state, p) ==
  [type |-> after, first |-> first,
   last |-> IF state \in {"normal", "comment"} THEN p - 1 ELSE p,
   next |-> IF state = "normal" THEN p ELSE p + 1]

BeginOf(after, first, p) == IF after = "initial" THEN p + 1 ELSE first

\* The scan at p, given what it is one character later.
ScanStep(input, i, next, p) ==
  [first \in i..(Len(input) + 1) |-> [state \in States |->
    IF p > Len(input) THEN EndOfScan(input, first, state, p)
    ELSE IF After(state, input[p]) \in States
           THEN next[BeginOf(After(state, input[p]), first, p)][After(state, input[p])]
           ELSE EndOfToken(After(state, input[p]), first, state, p)]]

\* f is the scan of the token behind i, from position k on.
ScansFrom(input, i, k, f) == f = [p \in k..(Len(input) + 1) |-> ScanStep(input, i, f[p + 1], p)]

\* parse_token returns what its scan gives.
LEMMA ParseTokenIs ==
  ASSUME NEW input, NEW i
  PROVE  parse_token(input, i) = (CHOOSE f : ScansFrom(input, i, i, f))[i][i]["initial"]
  BY DEF parse_token, ScansFrom, ScanStep, EndOfScan, EndOfToken, BeginOf

\* Behind the text nothing is read.
LEMMA NothingBehind ==
  ASSUME NEW input, NEW i, NEW p \in Nat, Len(input) \in Nat, p > Len(input), NEW x, NEW y
  PROVE  ScanStep(input, i, x, p) = ScanStep(input, i, y, p)
  BY DEF ScanStep

\* The scan exists.
LEMMA ScanExists ==
  ASSUME NEW input, NEW len \in Nat, len = Len(input), NEW i \in 1..(len + 1)
  PROVE  \E f : ScansFrom(input, i, i, f)
  <1> DEFINE bad == {j \in Nat : j <= len + 1 - i /\ ~ \E f : ScansFrom(input, i, len + 1 - j, f)}
  <1>1. bad = {}
    <2>1. SUFFICES ASSUME bad # {}
                   PROVE  FALSE
      OBVIOUS
    <2>2. PICK j \in bad : \A l \in bad : j <= l
      BY <2>1, LeastNatural
    <2>3. PICK k \in 1..(len + 1) : k = len + 1 - j
      <3>1. j \in Nat /\ j <= len + 1 - i
        BY <2>2
      <3>2. len + 1 - j \in 1..(len + 1)
        BY ONLY <3>1, len \in Nat, i \in 1..(len + 1)
      <3>3. QED BY <3>2
    <2>4. PICK g : k # len + 1 => ScansFrom(input, i, k + 1, g)
      <3>1. CASE k = len + 1
        BY <3>1
      <3>2. CASE k # len + 1
        <4>1. j - 1 \in Nat /\ j - 1 <= len + 1 - i /\ j - 1 < j /\ len + 1 - (j - 1) = k + 1
          <5>1. j \in Nat /\ j <= len + 1 - i
            BY <2>2
          <5>2. j # 0
            BY <2>3, <3>2
          <5>3. QED BY ONLY <2>3, <5>1, <5>2, len \in Nat, i \in 1..(len + 1)
        <4>2. j - 1 \notin bad
          <5>1. \A l \in bad : j <= l
            BY <2>2
          <5>2. j \in Nat /\ ~(j <= j - 1)
            BY <2>2
          <5> HIDE DEF bad
          <5>3. QED BY ONLY <5>1, <5>2
        <4>3. \E f : ScansFrom(input, i, len + 1 - (j - 1), f)
          BY <4>1, <4>2
        <4>4. QED BY <4>1, <4>3
      <3>3. QED BY <3>1, <3>2
    <2> DEFINE f == [p \in k..(len + 1) |-> IF p = k THEN ScanStep(input, i, g[p + 1], p) ELSE g[p]]
    <2>5. ASSUME NEW p \in k..(len + 1)
          PROVE  f[p] = ScanStep(input, i, f[p + 1], p)
      <3>1. f[p] = ScanStep(input, i, g[p + 1], p)
        <4>1. CASE p = k
          BY <4>1
        <4>2. CASE p # k
          <5>1. p \in (k + 1)..(len + 1) /\ k # len + 1
            BY <4>2
          <5>2. g = [q \in (k + 1)..(len + 1) |-> ScanStep(input, i, g[q + 1], q)]
            BY <2>4, <5>1 DEF ScansFrom
          <5>3. g[p] = ScanStep(input, i, g[p + 1], p)
            BY <5>1, <5>2
          <5>4. QED BY <4>2, <5>3
        <4>3. QED BY <4>1, <4>2
      <3>2. CASE p = len + 1
        <4>1. p \in Nat /\ Len(input) \in Nat /\ p > Len(input)
          BY <3>2
        <4>2. ScanStep(input, i, g[p + 1], p) = ScanStep(input, i, f[p + 1], p)
          BY <4>1, NothingBehind
        <4>3. QED BY <3>1, <4>2
      <3>3. CASE p # len + 1
        <4>1. p + 1 \in k..(len + 1) /\ p + 1 # k
          BY <3>3
        <4>2. f[p + 1] = g[p + 1]
          BY <4>1
        <4>3. QED BY <3>1, <4>2
      <3>4. QED BY <3>2, <3>3
    <2>6. ScansFrom(input, i, k, f)
      <3>1. f = [p \in k..(len + 1) |-> f[p]]
        OBVIOUS
      <3> HIDE DEF f
      <3>2. f = [p \in k..(len + 1) |-> ScanStep(input, i, f[p + 1], p)]
        BY <2>5, <3>1
      <3>3. QED BY <3>2 DEF ScansFrom
    <2>7. QED BY <2>2, <2>3, <2>6
  <1>2. len + 1 - i \in Nat /\ len + 1 - (len + 1 - i) = i
    OBVIOUS
  <1>3. \E f : ScansFrom(input, i, len + 1 - (len + 1 - i), f)
    <2>1. PICK j \in Nat : j = len + 1 - i /\ j <= len + 1 - i
      BY <1>2
    <2>2. j \notin bad
      BY <1>1
    <2>3. \E f : ScansFrom(input, i, len + 1 - j, f)
      BY <2>1, <2>2
    <2>4. QED BY <2>1, <2>3
  <1>4. QED BY <1>2, <1>3

-----------------------------------------------------------------------------
(* What a state of the scan stands for.                                    *)

QuoteStates == {"single_quote", "double_quote"}
QuoteOf(state) == IF state = "single_quote" THEN "'" ELSE "\""

\* What a state says of the characters from the token's first one to q.
Stands(input, first, q, state) ==
  /\ state \in QuoteStates => BeginsQuote(input, first, q) /\ input[first] = QuoteOf(state)
  /\ state = "comment" => BeginsComment(input, first, q)
  /\ state = "normal" => BeginsWord(input, first, q)

\* The scan of the token behind i is at p, in a state, with the token's first
\* character found.
Opens(input, i, p, first, state) ==
  /\ i <= first /\ first <= p
  /\ Between(input, i, first - 1) \subseteq Blanks
  /\ state = "initial" => first = p
  /\ Stands(input, first, p - 1, state)

\* A token behind i, and where the input goes on.
Ends(t) == t.type \in {"EOF", "ERROR"}

TokenAt(input, i, t) ==
  /\ IsToken(input, t)
  /\ t.first \in Nat /\ i <= t.first
  /\ Between(input, i, t.first - 1) \subseteq Blanks
  /\ Ends(t) => t.last = Len(input)
  /\ ~Ends(t) => /\ t.last \in Nat
                 /\ t.next \in (i + 1)..(Len(input) + 1)
                 /\ \/ t.next = t.last + 1
                    \/ t.next = t.last + 2 /\ input[t.last + 1] \in Blanks

\* One character more.
LEMMA BetweenNext ==
  ASSUME NEW input, NEW i \in Int, NEW p \in Int, i <= p
  PROVE  Between(input, i, p) = Between(input, i, p - 1) \cup {input[p]}
  <1>1. i..p = i..(p - 1) \cup {p}
    OBVIOUS
  <1>2. QED BY <1>1 DEF Between

\* No character.
LEMMA BetweenNone ==
  ASSUME NEW input, NEW i \in Int, NEW p \in Int, p < i
  PROVE  Between(input, i, p) = {}
  BY DEF Between

\* What a state makes of a character that goes on with it.
LEMMA AfterInside ==
  ASSUME NEW c
  PROVE  /\ \A state \in QuoteStates : After(state, c) = IF c = QuoteOf(state) THEN "NORMAL" ELSE state
         /\ After("comment", c) = IF c \in {"\n", "\r"} THEN "COMMENT" ELSE "comment"
         /\ After("normal", c) = IF c \in EndsWord THEN "NORMAL" ELSE "normal"
         /\ After("initial", c) = AfterBlanks(c)
  <1>1. /\ After("single_quote", c) = IF c = "'" THEN "NORMAL" ELSE "single_quote"
        /\ After("double_quote", c) = IF c = "\"" THEN "NORMAL" ELSE "double_quote"
    BY DEF After
  <1>2. \A state \in QuoteStates : After(state, c) = IF c = QuoteOf(state) THEN "NORMAL" ELSE state
    BY <1>1 DEF QuoteStates, QuoteOf
  <1>3. /\ After("comment", c) = IF c \in {"\n", "\r"} THEN "COMMENT" ELSE "comment"
        /\ After("normal", c) = IF c \in EndsWord THEN "NORMAL" ELSE "normal"
        /\ After("initial", c) = AfterBlanks(c)
    BY DEF After
  <1>4. QED BY <1>2, <1>3

\* What it makes of the first character that is no blank.
LEMMA AfterFirst ==
  ASSUME NEW c
  PROVE  /\ c \in Blanks => AfterBlanks(c) = "initial"
         /\ c = "{" => AfterBlanks(c) = "START_BLOCK" /\ SingleCharacter[c] = "START_BLOCK"
         /\ c = "}" => AfterBlanks(c) = "END_BLOCK" /\ SingleCharacter[c] = "END_BLOCK"
         /\ c = ";" => AfterBlanks(c) = "STATEMENT_END" /\ SingleCharacter[c] = "STATEMENT_END"
         /\ c = "#" => AfterBlanks(c) = "comment"
         /\ c = "'" => AfterBlanks(c) = "single_quote"
         /\ c = "\"" => AfterBlanks(c) = "double_quote"
         /\ \/ c \in Blanks \cup {"{", "}", ";", "#", "'", "\""}
            \/ AfterBlanks(c) = "normal"
  <1>1. DOMAIN SingleCharacter = {"{", "}", ";"}
    BY DEF SingleCharacter
  <1>2. /\ SingleCharacter["{"] = "START_BLOCK" /\ SingleCharacter["}"] = "END_BLOCK"
        /\ SingleCharacter[";"] = "STATEMENT_END"
    BY DEF SingleCharacter
  <1>3. QED BY <1>1, <1>2 DEF AfterBlanks, Blanks

\* The character tells what begins with it.
LEMMA FirstTells ==
  ASSUME NEW c
  PROVE  /\ AfterBlanks(c) = "initial" => c \in Blanks
         /\ AfterBlanks(c) = "comment" => c = "#"
         /\ AfterBlanks(c) \in QuoteStates => c = QuoteOf(AfterBlanks(c))
         /\ AfterBlanks(c) = "normal" => c \notin EndsWord \cup Quotes \cup Blanks \cup {"#"}
         /\ AfterBlanks(c) \notin States => /\ c \in {"{", "}", ";"} /\ SingleCharacter[c] = AfterBlanks(c)
                                            /\ AfterBlanks(c) \in {"START_BLOCK", "END_BLOCK", "STATEMENT_END"}
  <1>1. CASE c \in Blanks
    BY <1>1, AfterFirst DEF QuoteStates, States
  <1>2. CASE c \in {"{", "}", ";"}
    BY <1>2, AfterFirst DEF QuoteStates, States
  <1>3. CASE c \in {"#", "'", "\""}
    BY <1>3, AfterFirst DEF QuoteStates, QuoteOf, States
  <1>4. CASE c \notin Blanks \cup {"{", "}", ";", "#", "'", "\""}
    <2>1. AfterBlanks(c) = "normal"
      BY <1>4, AfterFirst
    <2>2. EndsWord \subseteq Blanks \cup {"{", "}", ";"}
      BY DEF EndsWord, Blanks, SingleCharacter
    <2>3. QED BY <1>4, <2>1, <2>2 DEF QuoteStates, States, Quotes
  <1>5. QED BY <1>1, <1>2, <1>3, <1>4

\* Where the token is.
LEMMA OpensAt ==
  ASSUME NEW input, NEW i, NEW p, NEW first, NEW state, Opens(input, i, p, first, state)
  PROVE  /\ i <= first /\ first <= p /\ Between(input, i, first - 1) \subseteq Blanks
         /\ state = "initial" => first = p
         /\ Stands(input, first, p - 1, state)
  BY DEF Opens

\* The scan behind the end of the text.
LEMMA ScanEnds ==
  ASSUME NEW input, NEW len \in Nat, len = Len(input), NEW i \in 1..(len + 1),
         NEW first \in i..(len + 1), NEW state \in States, Opens(input, i, len + 1, first, state)
  PROVE  TokenAt(input, i, EndOfScan(input, first, state, len + 1))
  <1>1. PICK t : t = EndOfScan(input, first, state, len + 1)
    OBVIOUS
  <1>2. t.first = first /\ t.last = len
    BY <1>1 DEF EndOfScan
  <1>3. /\ i <= first /\ Between(input, i, first - 1) \subseteq Blanks
        /\ state = "initial" => first = len + 1
        /\ Stands(input, first, len, state)
    <2>1. (len + 1) - 1 = len
      OBVIOUS
    <2>2. QED BY <2>1, OpensAt
  <1>4. IsToken(input, t) /\ Ends(t)
    <2>1. CASE state \in {"single_quote", "double_quote"}
      <3>1. t.type = "ERROR"
        BY <1>1, <2>1 DEF EndOfScan
      <3>2. BeginsQuote(input, first, len)
        BY <1>3, <2>1 DEF Stands, QuoteStates
      <3>3. QED BY <1>2, <3>1, <3>2 DEF IsToken, Ends
    <2>2. CASE state \notin {"single_quote", "double_quote"}
      <3>1. t.type = "EOF"
        BY <1>1, <2>2 DEF EndOfScan
      <3>2. first > len \/ BeginsWord(input, first, len) \/ BeginsComment(input, first, len)
        <4>1. state \in {"initial", "comment", "normal"}
          BY <2>2 DEF States
        <4>2. state = "comment" => BeginsComment(input, first, len)
          BY <1>3 DEF Stands
        <4>3. state = "normal" => BeginsWord(input, first, len)
          BY <1>3 DEF Stands
        <4>4. QED BY <1>3, <4>1, <4>2, <4>3
      <3>3. QED BY <1>2, <3>1, <3>2 DEF IsToken, Ends
    <2>3. QED BY <2>1, <2>2
  <1>5. TokenAt(input, i, t)
    BY <1>2, <1>3, <1>4 DEF TokenAt
  <1>6. QED BY <1>1, <1>5

\* A character that ends a token.
LEMMA ScanStops ==
  ASSUME NEW input, NEW len \in Nat, len = Len(input), NEW i \in 1..(len + 1), NEW p \in i..len,
         NEW first \in i..(len + 1), NEW state \in States, Opens(input, i, p, first, state),
         NEW c, c = input[p], NEW after, after = After(state, c), after \notin States
  PROVE  TokenAt(input, i, EndOfToken(after, first, state, p))
  <1>1. PICK t : t = EndOfToken(after, first, state, p)
    OBVIOUS
  <1>2. /\ t.type = after /\ t.first = first
        /\ t.last = IF state \in {"normal", "comment"} THEN p - 1 ELSE p
        /\ t.next = IF state = "normal" THEN p ELSE p + 1
    BY <1>1 DEF EndOfToken
  <1>3. /\ i <= first /\ first <= p /\ Between(input, i, first - 1) \subseteq Blanks
        /\ state = "initial" => first = p
        /\ Stands(input, first, p - 1, state)
    BY OpensAt
  <1>4. CASE state = "initial"
    <2>1. /\ after = AfterBlanks(c) /\ first = p /\ t.last = p /\ t.next = p + 1
      BY <1>2, <1>3, <1>4, AfterInside
    <2>2. c \in {"{", "}", ";"} /\ SingleCharacter[c] = after
          /\ after \in {"START_BLOCK", "END_BLOCK", "STATEMENT_END"}
      BY <2>1, FirstTells
    <2>3. IsToken(input, t) /\ ~Ends(t)
      BY <1>2, <2>1, <2>2 DEF IsToken, Ends
    <2>4. t.last \in Nat /\ t.next \in (i + 1)..(len + 1) /\ t.next = t.last + 1
      BY <2>1
    <2>5. QED BY <1>1, <1>2, <1>3, <2>3, <2>4 DEF TokenAt
  <1>5. CASE state \in QuoteStates
    <2>1. after = IF c = QuoteOf(state) THEN "NORMAL" ELSE state
      <3>1. After(state, c) = IF c = QuoteOf(state) THEN "NORMAL" ELSE state
        BY ONLY <1>5, AfterInside
      <3>2. QED BY <3>1
    <2>2. after = "NORMAL" /\ c = QuoteOf(state)
      BY <2>1
    <2>3. t.last = p /\ t.next = p + 1
      BY <1>2, <1>5 DEF QuoteStates
    <2>4. BeginsQuote(input, first, p - 1) /\ input[first] = c
      BY <1>3, <1>5, <2>2 DEF Stands
    <2>5. IsToken(input, t) /\ ~Ends(t)
      BY <1>2, <2>2, <2>3, <2>4 DEF IsToken, Ends
    <2>6. t.last \in Nat /\ t.next \in (i + 1)..(len + 1) /\ t.next = t.last + 1
      BY <2>3
    <2>7. QED BY <1>1, <1>2, <1>3, <2>5, <2>6 DEF TokenAt
  <1>6. CASE state = "comment"
    <2>1. after = "COMMENT" /\ t.last = p - 1 /\ t.next = p + 1 /\ c \in {"\n", "\r"}
      BY <1>2, <1>6, AfterInside DEF States
    <2>2. BeginsComment(input, first, p - 1) /\ (p - 1) + 1 = p
      BY <1>3, <1>6 DEF Stands
    <2>3. IsToken(input, t) /\ ~Ends(t)
      BY <1>2, <2>1, <2>2 DEF IsToken, Ends
    <2>4. /\ t.last \in Nat /\ t.next \in (i + 1)..(len + 1)
          /\ t.next = t.last + 2 /\ t.last + 1 = p
      BY <2>1
    <2>5. input[t.last + 1] \in Blanks
      BY <2>1, <2>4 DEF Blanks
    <2>6. QED BY <1>1, <1>2, <1>3, <2>3, <2>4, <2>5 DEF TokenAt
  <1>7. CASE state = "normal"
    <2>1. after = "NORMAL" /\ t.last = p - 1 /\ t.next = p /\ c \in EndsWord
      BY <1>2, <1>7, AfterInside DEF States
    <2>2. BeginsWord(input, first, p - 1) /\ (p - 1) + 1 = p
      BY <1>3, <1>7 DEF Stands
    <2>3. IsToken(input, t) /\ ~Ends(t)
      BY <1>2, <2>1, <2>2 DEF IsToken, Ends
    <2>4. first <= p - 1
      BY <2>2 DEF BeginsWord
    <2>5. t.last \in Nat /\ t.next \in (i + 1)..(len + 1) /\ t.next = t.last + 1
      BY <1>3, <2>1, <2>4
    <2>6. QED BY <1>1, <1>2, <1>3, <2>3, <2>5 DEF TokenAt
  <1>8. QED BY <1>4, <1>5, <1>6, <1>7 DEF States, QuoteStates

\* A character that goes on with a token, or with the blanks before it.
LEMMA ScanGoes ==
  ASSUME NEW input, NEW i \in Nat, NEW p \in Nat, i <= p,
         NEW first \in Nat, NEW state \in States, Opens(input, i, p, first, state),
         NEW c, c = input[p], NEW after, after = After(state, c), after \in States
  PROVE  Opens(input, i, p + 1, BeginOf(after, first, p), after)
  <1> DEFINE begin == BeginOf(after, first, p)
  <1>1. /\ i <= first /\ first <= p /\ Between(input, i, first - 1) \subseteq Blanks
        /\ state = "initial" => first = p
        /\ Stands(input, first, p - 1, state)
    BY OpensAt
  <1>2. SUFFICES /\ i <= begin /\ begin <= p + 1 /\ Between(input, i, begin - 1) \subseteq Blanks
                 /\ after = "initial" => begin = p + 1
                 /\ Stands(input, begin, p, after)
    <2>1. (p + 1) - 1 = p
      OBVIOUS
    <2>2. QED BY <2>1 DEF Opens
  <1>3. CASE after = "initial"
    <2>1. state = "initial"
      <3>1. state \in QuoteStates \cup {"comment", "normal"} => after # "initial"
        BY AfterInside DEF QuoteStates
      <3>2. QED BY <1>3, <3>1 DEF States, QuoteStates
    <2>2. c \in Blanks /\ first = p
      <3>1. AfterBlanks(c) = "initial"
        BY <1>3, <2>1, AfterInside
      <3>2. c \in Blanks
        BY ONLY <3>1, FirstTells
      <3>3. QED BY <1>1, <2>1, <3>2
    <2>3. begin = p + 1 /\ begin - 1 = p
      BY <1>3 DEF BeginOf
    <2>4. Between(input, i, p) = Between(input, i, p - 1) \cup {c}
      BY BetweenNext
    <2>5. Between(input, i, begin - 1) \subseteq Blanks
      BY <1>1, <2>2, <2>3, <2>4
    <2>6. Stands(input, begin, p, after)
      BY <1>3 DEF Stands, QuoteStates
    <2>7. i <= p + 1
      OBVIOUS
    <2>8. QED BY ONLY <2>3, <2>5, <2>6, <2>7, p \in Nat
  <1>4. CASE after # "initial" /\ state = "initial"
    <2>1. first = p /\ after = AfterBlanks(c) /\ begin = p
      BY <1>1, <1>4, AfterInside DEF BeginOf
    <2>2. Between(input, p, p) = {c} /\ Between(input, p + 1, p) = {}
      BY DEF Between
    <2>3. after = "comment" => BeginsComment(input, p, p)
      <3>1. after = "comment" => c = "#"
        BY <2>1, FirstTells
      <3>2. QED BY <2>2, <3>1 DEF BeginsComment
    <2>4. after \in QuoteStates => BeginsQuote(input, p, p) /\ input[p] = QuoteOf(after)
      <3>1. after \in QuoteStates => c = QuoteOf(after)
        BY <2>1, FirstTells
      <3>2. QuoteOf(after) \in Quotes
        BY DEF QuoteOf, Quotes
      <3>3. QED BY <2>2, <3>1, <3>2 DEF BeginsQuote
    <2>5. after = "normal" => BeginsWord(input, p, p)
      <3>1. after = "normal" => c \notin EndsWord \cup Quotes \cup Blanks \cup {"#"}
        BY <2>1, FirstTells
      <3>2. QED BY <2>2, <3>1 DEF BeginsWord
    <2>6. Stands(input, begin, p, after)
      BY <2>1, <2>3, <2>4, <2>5 DEF Stands
    <2>7. begin <= p + 1 /\ i <= begin /\ Between(input, i, begin - 1) \subseteq Blanks
      BY <1>1, <2>1
    <2>8. QED BY ONLY <1>4, <2>6, <2>7
  <1>5. CASE after # "initial" /\ state # "initial"
    <2>1. begin = first
      BY <1>5 DEF BeginOf
    <2>2. Between(input, first, p) = Between(input, first, p - 1) \cup {c}
      BY <1>1, BetweenNext
    <2>3. ASSUME state \in QuoteStates
          PROVE  Stands(input, first, p, after)
      <3>1. after = (IF c = QuoteOf(state) THEN "NORMAL" ELSE state) /\ "NORMAL" \notin States
        BY <2>3, AfterInside DEF States
      <3>2. after = state /\ c # QuoteOf(state)
        BY <3>1
      <3>3. BeginsQuote(input, first, p - 1) /\ input[first] = QuoteOf(state)
        BY <1>1, <2>3 DEF Stands
      <3>4. first + 1 <= p /\ input[first] \in Quotes /\ input[first] \notin Between(input, first + 1, p - 1)
        BY <3>3 DEF BeginsQuote
      <3>5. Between(input, first + 1, p) = Between(input, first + 1, p - 1) \cup {c}
        BY <3>4, BetweenNext
      <3>6. BeginsQuote(input, first, p)
        BY <1>1, <3>2, <3>3, <3>4, <3>5 DEF BeginsQuote
      <3>7. QED BY <2>3, <3>2, <3>3, <3>6 DEF Stands, QuoteStates
    <2>4. ASSUME state = "comment"
          PROVE  Stands(input, first, p, after)
      <3>1. after = (IF c \in {"\n", "\r"} THEN "COMMENT" ELSE "comment") /\ "COMMENT" \notin States
        BY <2>4, AfterInside DEF States
      <3>2. after = "comment" /\ c \notin {"\n", "\r"}
        BY <3>1
      <3>3. BeginsComment(input, first, p - 1)
        BY <1>1, <2>4 DEF Stands
      <3>4. BeginsComment(input, first, p)
        BY <1>1, <2>2, <3>2, <3>3 DEF BeginsComment
      <3>5. QED BY <3>2, <3>4 DEF Stands, QuoteStates
    <2>5. ASSUME state = "normal"
          PROVE  Stands(input, first, p, after)
      <3>1. after = (IF c \in EndsWord THEN "NORMAL" ELSE "normal") /\ "NORMAL" \notin States
        BY <2>5, AfterInside DEF States
      <3>2. after = "normal" /\ c \notin EndsWord
        BY <3>1
      <3>3. BeginsWord(input, first, p - 1)
        BY <1>1, <2>5 DEF Stands
      <3>4. BeginsWord(input, first, p)
        BY <1>1, <2>2, <3>2, <3>3 DEF BeginsWord
      <3>5. QED BY <3>2, <3>4 DEF Stands, QuoteStates
    <2>6. Stands(input, first, p, after)
      BY <1>5, <2>3, <2>4, <2>5 DEF States, QuoteStates
    <2>7. first <= p + 1
      BY <1>1
    <2>8. QED BY <1>1, <1>5, <2>1, <2>6, <2>7
  <1>6. QED BY <1>3, <1>4, <1>5

\* From a position on, the scan finds a token in whatever state it is there.
Finds(input, i, p, f) ==
  \A first \in i..(Len(input) + 1), state \in States :
    Opens(input, i, p, first, state) => TokenAt(input, i, f[p][first][state])

\* It finds one at the end of the text, and elsewhere if it does further on.
LEMMA FindsBefore ==
  ASSUME NEW input, NEW len \in Nat, len = Len(input), NEW i \in 1..(len + 1), NEW f,
         ScansFrom(input, i, i, f), NEW p \in i..(len + 1), p # len + 1 => Finds(input, i, p + 1, f)
  PROVE  Finds(input, i, p, f)
  <1>1. SUFFICES ASSUME NEW first \in i..(len + 1), NEW state \in States, Opens(input, i, p, first, state)
                 PROVE  TokenAt(input, i, f[p][first][state])
    BY DEF Finds
  <1>2. f[p] = ScanStep(input, i, f[p + 1], p)
    BY DEF ScansFrom
  <1>3. PICK next : next = f[p + 1]
    OBVIOUS
  <1>4. PICK t : t = f[p][first][state]
    OBVIOUS
  <1>5. t = IF p > len THEN EndOfScan(input, first, state, p)
            ELSE IF After(state, input[p]) \in States
                   THEN next[BeginOf(After(state, input[p]), first, p)][After(state, input[p])]
                   ELSE EndOfToken(After(state, input[p]), first, state, p)
    BY <1>2, <1>3, <1>4 DEF ScanStep
  <1>6. CASE p = len + 1
    <2>1. Opens(input, i, len + 1, first, state)
      BY <1>1, <1>6
    <2>2. TokenAt(input, i, EndOfScan(input, first, state, len + 1))
      BY <2>1, ScanEnds
    <2>3. t = EndOfScan(input, first, state, len + 1)
      BY <1>5, <1>6
    <2>4. QED BY <1>4, <2>2, <2>3
  <1>7. CASE p # len + 1
    <2>1. p \in i..len /\ ~(p > len)
      BY <1>7
    <2>2. PICK c, after : c = input[p] /\ after = After(state, c)
      OBVIOUS
    <2>3. CASE after \notin States
      <3>1. TokenAt(input, i, EndOfToken(after, first, state, p))
        BY <1>1, <2>1, <2>2, <2>3, ScanStops
      <3>2. t = EndOfToken(after, first, state, p)
        BY <1>5, <2>1, <2>2, <2>3
      <3>3. QED BY <1>4, <3>1, <3>2
    <2>4. CASE after \in States
      <3>1. PICK begin : begin = BeginOf(after, first, p)
        OBVIOUS
      <3>2. begin \in i..(len + 1)
        BY <2>1, <3>1 DEF BeginOf
      <3>3. Opens(input, i, p + 1, begin, after)
        <4>1. i \in Nat /\ p \in Nat /\ i <= p /\ first \in Nat
          BY <2>1
        <4>2. QED BY <1>1, <2>2, <2>4, <3>1, <4>1, ScanGoes
      <3>4. TokenAt(input, i, f[p + 1][begin][after])
        BY <1>7, <2>4, <3>2, <3>3 DEF Finds
      <3>5. t = next[begin][after]
        BY <1>5, <2>1, <2>2, <2>4, <3>1
      <3>6. QED BY <1>3, <1>4, <3>4, <3>5
    <2>5. QED BY <2>3, <2>4
  <1>8. QED BY <1>6, <1>7

\* parse_token finds a token.
LEMMA ParseTokenFinds ==
  ASSUME NEW input, NEW len \in Nat, len = Len(input), NEW i \in 1..(len + 1)
  PROVE  TokenAt(input, i, parse_token(input, i))
  <1>1. PICK f : ScansFrom(input, i, i, f) /\ parse_token(input, i) = f[i][i]["initial"]
    <2>1. PICK f : f = CHOOSE g : ScansFrom(input, i, i, g)
      OBVIOUS
    <2>2. ScansFrom(input, i, i, f)
      BY <2>1, ScanExists
    <2>3. parse_token(input, i) = f[i][i]["initial"]
      BY <2>1, ParseTokenIs
    <2>4. QED BY <2>2, <2>3
  <1> DEFINE bad == {j \in Nat : j <= len + 1 - i /\ ~Finds(input, i, len + 1 - j, f)}
  <1>2. bad = {}
    <2>1. SUFFICES ASSUME bad # {}
                   PROVE  FALSE
      OBVIOUS
    <2>2. PICK j \in bad : \A l \in bad : j <= l
      BY <2>1, LeastNatural
    <2>3. j \in Nat /\ j <= len + 1 - i /\ ~Finds(input, i, len + 1 - j, f)
      BY <2>2
    <2>4. PICK p \in i..(len + 1) : p = len + 1 - j
      <3>1. len + 1 - j \in i..(len + 1)
        BY <2>3
      <3>2. QED BY <3>1
    <2>5. ASSUME p # len + 1
          PROVE  Finds(input, i, p + 1, f)
      <3>1. PICK l \in Nat : j = l + 1
        <4>1. j # 0
          BY <2>4, <2>5
        <4>2. j - 1 \in Nat /\ j = (j - 1) + 1
          BY <2>3, <4>1
        <4>3. QED BY <4>2
      <3>2. l <= len + 1 - i /\ ~(j <= l) /\ len + 1 - l = p + 1
        BY <2>3, <2>4, <3>1
      <3>3. l \notin bad
        <4>1. \A m \in bad : j <= m
          BY <2>2
        <4> HIDE DEF bad
        <4>2. QED BY <3>2, <4>1
      <3>4. Finds(input, i, len + 1 - l, f)
        BY <3>2, <3>3
      <3>5. QED BY <3>2, <3>4
    <2>6. Finds(input, i, p, f)
      BY <1>1, <2>5, FindsBefore
    <2>7. QED BY <2>3, <2>4, <2>6
  <1>3. Finds(input, i, i, f)
    <2>1. PICK j \in Nat : j = len + 1 - i /\ j <= len + 1 - i /\ len + 1 - j = i
      <3>1. len + 1 - i \in Nat /\ len + 1 - (len + 1 - i) = i
        OBVIOUS
      <3>2. QED BY <3>1
    <2>2. j \notin bad
      BY <1>2
    <2>3. Finds(input, i, len + 1 - j, f)
      BY <2>1, <2>2
    <2>4. QED BY <2>1, <2>3
  <1>4. Opens(input, i, i, i, "initial")
    <2>1. Between(input, i, i - 1) = {}
      BY BetweenNone
    <2>2. Stands(input, i, i - 1, "initial")
      BY DEF Stands, QuoteStates
    <2>3. QED BY <2>1, <2>2 DEF Opens
  <1>5. i \in i..(Len(input) + 1) /\ "initial" \in States
    BY DEF States
  <1>6. TokenAt(input, i, f[i][i]["initial"])
    BY <1>3, <1>4, <1>5 DEF Finds
  <1>7. QED BY <1>1, <1>6

-----------------------------------------------------------------------------
(* The tokens of a text, one behind the other, from the last one back.     *)

TokensStep(input, f, i) ==
  <<parse_token(input, i)>> \o
    (IF parse_token(input, i).type \in {"EOF", "ERROR"} THEN <<>> ELSE f[parse_token(input, i).next])

\* f has the tokens behind every position from k on.
TokensFrom(input, k, f) == f = [i \in k..(Len(input) + 1) |-> TokensStep(input, f, i)]

\* The tokens of a text are those from its first character on.
LEMMA TokensOfIs ==
  ASSUME NEW input
  PROVE  tokens_of(input) = (CHOOSE f : TokensFrom(input, 1, f))[1]
  BY DEF tokens_of, TokensFrom, TokensStep

\* The tokens from i on follow from those behind the next one.
LEMMA TokensAgree ==
  ASSUME NEW input, NEW len \in Nat, len = Len(input), NEW i \in 1..(len + 1), NEW f, NEW g,
         \A j \in (i + 1)..(len + 1) : f[j] = g[j]
  PROVE  TokensStep(input, f, i) = TokensStep(input, g, i)
  <1>1. PICK t : t = parse_token(input, i) /\ TokenAt(input, i, t)
    BY ParseTokenFinds
  <1>2. t.type \notin {"EOF", "ERROR"} => t.next \in (i + 1)..(len + 1)
    BY <1>1 DEF TokenAt, Ends
  <1>3. t.type \notin {"EOF", "ERROR"} => f[t.next] = g[t.next]
    BY <1>2
  <1>4. QED BY <1>1, <1>3 DEF TokensStep

\* They exist.
LEMMA TokensExist ==
  ASSUME NEW input, NEW len \in Nat, len = Len(input)
  PROVE  \E f : TokensFrom(input, 1, f)
  <1> DEFINE bad == {j \in Nat : j <= len /\ ~ \E f : TokensFrom(input, len + 1 - j, f)}
  <1>1. bad = {}
    <2>1. SUFFICES ASSUME bad # {}
                   PROVE  FALSE
      OBVIOUS
    <2>2. PICK j \in bad : \A l \in bad : j <= l
      BY <2>1, LeastNatural
    <2>3. j \in Nat /\ j <= len /\ ~ \E f : TokensFrom(input, len + 1 - j, f)
      BY <2>2
    <2>4. PICK k \in 1..(len + 1) : k = len + 1 - j
      <3>1. j \in Nat /\ j <= len
        BY <2>3
      <3>2. len + 1 - j \in 1..(len + 1)
        BY ONLY <3>1, len \in Nat
      <3>3. QED BY <3>2
    <2>5. PICK g : k # len + 1 => TokensFrom(input, k + 1, g)
      <3>1. CASE k = len + 1
        BY <3>1
      <3>2. CASE k # len + 1
        <4>1. PICK l \in Nat : j = l + 1
          <5>1. j # 0
            BY <2>4, <3>2
          <5>2. j - 1 \in Nat /\ j = (j - 1) + 1
            BY <2>3, <5>1
          <5>3. QED BY <5>2
        <4>2. l <= len /\ ~(j <= l) /\ len + 1 - l = k + 1
          BY <2>3, <2>4, <4>1
        <4>3. l \notin bad
          <5>1. \A m \in bad : j <= m
            BY <2>2
          <5> HIDE DEF bad
          <5>2. QED BY <4>2, <5>1
        <4>4. \E f : TokensFrom(input, len + 1 - l, f)
          BY <4>2, <4>3
        <4>5. QED BY <4>2, <4>4
      <3>3. QED BY <3>1, <3>2
    <2> DEFINE f == [i \in k..(len + 1) |-> IF i = k THEN TokensStep(input, g, i) ELSE g[i]]
    <2>6. ASSUME NEW i \in k..(len + 1)
          PROVE  f[i] = TokensStep(input, f, i)
      <3>1. f[i] = TokensStep(input, g, i)
        <4>1. CASE i = k
          BY <4>1
        <4>2. CASE i # k
          <5>1. i \in (k + 1)..(len + 1) /\ k # len + 1
            BY <4>2
          <5>2. g = [h \in (k + 1)..(len + 1) |-> TokensStep(input, g, h)]
            BY <2>5, <5>1 DEF TokensFrom
          <5>3. g[i] = TokensStep(input, g, i)
            BY <5>1, <5>2
          <5>4. QED BY <4>2, <5>3
        <4>3. QED BY <4>1, <4>2
      <3>2. \A h \in (i + 1)..(len + 1) : f[h] = g[h]
        <4>1. \A h \in (i + 1)..(len + 1) : h \in k..(len + 1) /\ h # k
          OBVIOUS
        <4>2. QED BY <4>1
      <3> HIDE DEF f
      <3>3. TokensStep(input, f, i) = TokensStep(input, g, i)
        <4>1. i \in 1..(len + 1)
          OBVIOUS
        <4>2. QED BY <3>2, <4>1, TokensAgree
      <3>4. QED BY <3>1, <3>3
    <2>7. TokensFrom(input, k, f)
      <3>1. f = [i \in k..(len + 1) |-> f[i]]
        OBVIOUS
      <3> HIDE DEF f
      <3>2. f = [i \in k..(len + 1) |-> TokensStep(input, f, i)]
        BY <2>6, <3>1
      <3>3. QED BY <3>2 DEF TokensFrom
    <2>8. QED BY <2>3, <2>4, <2>7
  <1>2. PICK j \in Nat : j = len /\ j <= len /\ len + 1 - j = 1
    OBVIOUS
  <1>3. j \notin bad
    BY <1>1
  <1>4. \E f : TokensFrom(input, len + 1 - j, f)
    BY <1>2, <1>3
  <1>5. QED BY <1>2, <1>4

TokensIn(input) == {parse_token(input, i) : i \in 1..(Len(input) + 1)}

\* Where the text behind the tokens before the k-th one begins.
BehindTokens(ts, i, k) == IF k = 1 THEN i ELSE ts[k - 1].last + 1

\* A token of the text, with only blanks in front of it.
TokenFits(input, t, begin) ==
  /\ IsToken(input, t)
  /\ t.first \in Nat /\ begin <= t.first
  /\ Between(input, begin, t.first - 1) \subseteq Blanks

\* The tokens ts cut the text up from position i to its end.
Cover(input, i, ts) ==
  /\ ts \in Seq(TokensIn(input)) /\ ts # <<>>
  /\ \A k \in 1..Len(ts) : TokenFits(input, ts[k], BehindTokens(ts, i, k))
  /\ ts[Len(ts)].last = Len(input)

\* The end of the text, or an open quote, is the last token.
LEMMA LastCovers ==
  ASSUME NEW input, NEW i, NEW t \in TokensIn(input), TokenAt(input, i, t), Ends(t)
  PROVE  Cover(input, i, <<t>>)
  <1>1. PICK ts : ts = <<t>>
    OBVIOUS
  <1>2. ts \in Seq(TokensIn(input)) /\ ts # <<>> /\ Len(ts) = 1 /\ ts[1] = t
    BY <1>1
  <1>3. TokenFits(input, t, i) /\ t.last = Len(input)
    BY DEF TokenAt, TokenFits
  <1>4. \A k \in 1..Len(ts) : TokenFits(input, ts[k], BehindTokens(ts, i, k))
    BY <1>2, <1>3 DEF BehindTokens
  <1>5. Cover(input, i, ts)
    BY <1>2, <1>3, <1>4 DEF Cover
  <1>6. QED BY <1>1, <1>5

\* Where the input goes on behind a token.
LEMMA TokenAtNext ==
  ASSUME NEW input, NEW i, NEW t, TokenAt(input, i, t), ~Ends(t)
  PROVE  /\ t.last \in Nat /\ t.next \in (i + 1)..(Len(input) + 1)
         /\ t.next = t.last + 1 \/ (t.next = t.last + 2 /\ input[t.last + 1] \in Blanks)
  BY DEF TokenAt

\* Another token comes before those behind it.
LEMMA NextCovers ==
  ASSUME NEW input, Len(input) \in Nat, NEW i \in Nat, NEW t \in TokensIn(input), TokenAt(input, i, t), ~Ends(t),
         NEW us, Cover(input, t.next, us)
  PROVE  Cover(input, i, <<t>> \o us)
  <1>1. us \in Seq(TokensIn(input)) /\ <<t>> \in Seq(TokensIn(input)) /\ Len(<<t>>) = 1 /\ <<t>>[1] = t
    BY DEF Cover
  <1>2. PICK n \in Nat : n = Len(us) /\ n # 0
    BY <1>1 DEF Cover
  <1>3. PICK ts : ts = <<t>> \o us
    OBVIOUS
  <1>4. ts \in Seq(TokensIn(input)) /\ Len(ts) = n + 1 /\ ts[1] = t /\ \A k \in 1..n : ts[k + 1] = us[k]
    BY <1>1, <1>2, <1>3, ConcatProperties
  <1>5. TokenFits(input, t, i)
    BY DEF TokenAt, TokenFits
  <1>6. PICK l \in Nat, m \in Nat : /\ l = t.last /\ m = t.next
                                    /\ m = l + 1 \/ (m = l + 2 /\ input[l + 1] \in Blanks)
    <2>1. /\ t.last \in Nat /\ t.next \in (i + 1)..(Len(input) + 1)
          /\ t.next = t.last + 1 \/ (t.next = t.last + 2 /\ input[t.last + 1] \in Blanks)
      BY TokenAtNext
    <2>2. t.next \in Nat
      BY <2>1
    <2>3. QED BY <2>1, <2>2
  <1>7. TokenFits(input, us[1], l + 1)
    <2>1. PICK u : u = us[1] /\ TokenFits(input, u, m)
      <3>1. 1 \in 1..Len(us) /\ BehindTokens(us, t.next, 1) = t.next
        BY <1>2 DEF BehindTokens
      <3>2. QED BY <1>6, <3>1 DEF Cover
    <2>2. CASE m = l + 1
      BY <2>1, <2>2
    <2>3. CASE m = l + 2 /\ input[l + 1] \in Blanks
      <3>1. /\ IsToken(input, u) /\ u.first \in Nat /\ m <= u.first
            /\ Between(input, m, u.first - 1) \subseteq Blanks
        BY <2>1 DEF TokenFits
      <3>2. Between(input, l + 1, u.first - 1) \subseteq Between(input, m, u.first - 1) \cup {input[l + 1]}
        <4>1. (l + 1)..(u.first - 1) \subseteq m..(u.first - 1) \cup {l + 1}
          BY <2>3
        <4>2. QED BY <4>1 DEF Between
      <3>3. l + 1 <= u.first
        BY <2>3, <3>1
      <3>4. TokenFits(input, u, l + 1)
        BY <2>3, <3>1, <3>2, <3>3 DEF TokenFits
      <3>5. QED BY <2>1, <3>4
    <2>4. QED BY <1>6, <2>2, <2>3
  <1>8. \A k \in 1..(n + 1) : TokenFits(input, ts[k], BehindTokens(ts, i, k))
    <2>1. TAKE k \in 1..(n + 1)
    <2>2. CASE k = 1
      BY <1>4, <1>5, <2>2 DEF BehindTokens
    <2>3. CASE k = 2
      <3>1. ts[2] = us[1]
        <4>1. 1 \in 1..n /\ 1 + 1 = 2
          BY <1>2
        <4>2. QED BY <1>4, <4>1
      <3>2. BehindTokens(ts, i, 2) = l + 1
        BY <1>4, <1>6 DEF BehindTokens
      <3>3. QED BY <1>7, <2>3, <3>1, <3>2
    <2>4. CASE k # 1 /\ k # 2
      <3>1. PICK h \in 1..n, g \in 1..n : k = h + 1 /\ h = g + 1 /\ k - 1 = h /\ h - 1 = g /\ h # 1
        <4>1. k - 1 \in 1..n /\ (k - 1) - 1 \in 1..n /\ k = (k - 1) + 1 /\ k - 1 = ((k - 1) - 1) + 1 /\ k - 1 # 1
          BY <2>4
        <4>2. QED BY <4>1
      <3>2. ts[k] = us[h] /\ ts[h] = us[g]
        BY <1>4, <3>1
      <3>3. BehindTokens(ts, i, k) = us[g].last + 1 /\ BehindTokens(us, t.next, h) = us[g].last + 1
        BY <2>4, <3>1, <3>2 DEF BehindTokens
      <3>4. TokenFits(input, us[h], BehindTokens(us, t.next, h))
        BY <1>2 DEF Cover
      <3>5. QED BY <3>2, <3>3, <3>4
    <2>5. QED BY <2>2, <2>3, <2>4
  <1>9. ts[n + 1].last = Len(input)
    <2>1. us[n].last = Len(input)
      BY <1>2 DEF Cover
    <2>2. n \in 1..n
      BY <1>2
    <2>3. QED BY <1>4, <2>1, <2>2
  <1>10. Cover(input, i, ts)
    <2>1. ts # <<>>
      BY <1>4
    <2>2. QED BY <1>4, <1>8, <1>9, <2>1 DEF Cover
  <1>11. QED BY <1>3, <1>10

\* The tokens behind every position cover the rest of the text.
LEMMA TokensFromCover ==
  ASSUME NEW input, NEW len \in Nat, len = Len(input), NEW f, TokensFrom(input, 1, f)
  PROVE  Cover(input, 1, f[1])
  <1> DEFINE bad == {j \in Nat : j <= len /\ ~Cover(input, len + 1 - j, f[len + 1 - j])}
  <1>1. bad = {}
    <2>1. SUFFICES ASSUME bad # {}
                   PROVE  FALSE
      OBVIOUS
    <2>2. PICK j \in bad : \A l \in bad : j <= l
      BY <2>1, LeastNatural
    <2>3. j \in Nat /\ j <= len /\ ~Cover(input, len + 1 - j, f[len + 1 - j])
      BY <2>2
    <2>4. PICK i \in 1..(len + 1) : i = len + 1 - j
      <3>1. j \in Nat /\ j <= len
        BY <2>3
      <3>2. len + 1 - j \in 1..(len + 1)
        BY ONLY <3>1, len \in Nat
      <3>3. QED BY <3>2
    <2>5. PICK t : t = parse_token(input, i) /\ TokenAt(input, i, t) /\ t \in TokensIn(input)
      BY ParseTokenFinds DEF TokensIn
    <2>6. f[i] = TokensStep(input, f, i)
      BY DEF TokensFrom
    <2>7. f[i] = <<t>> \o (IF Ends(t) THEN <<>> ELSE f[t.next])
      BY <2>5, <2>6 DEF TokensStep, Ends
    <2>8. CASE Ends(t)
      <3>1. Cover(input, i, <<t>>)
        BY <2>5, <2>8, LastCovers
      <3>2. f[i] = <<t>>
        BY <2>7, <2>8
      <3>3. QED BY <2>3, <2>4, <3>1, <3>2
    <2>9. CASE ~Ends(t)
      <3>1. t.next \in (i + 1)..(len + 1)
        BY <2>5, <2>9, TokenAtNext
      <3>2. PICK m \in Nat, l \in Nat : m = t.next /\ l <= len /\ l < j /\ m = len + 1 - l
        <4>1. PICK m \in (i + 1)..(len + 1) : m = t.next
          BY <3>1
        <4>2. PICK l : l = len + 1 - m
          OBVIOUS
        <4>3. m \in Nat /\ l \in Nat /\ l <= len /\ l < j /\ m = len + 1 - l
          BY <2>3, <2>4, <4>2
        <4>4. QED BY <4>1, <4>3
      <3>3. l \notin bad
        <4>1. \A h \in bad : j <= h
          BY <2>2
        <4>2. ~(j <= l)
          BY <2>3, <3>2
        <4> HIDE DEF bad
        <4>3. QED BY ONLY <4>1, <4>2
      <3>4. Cover(input, len + 1 - l, f[len + 1 - l])
        BY <3>2, <3>3
      <3>5. PICK us : us = f[t.next] /\ Cover(input, t.next, us)
        BY <3>2, <3>4
      <3>6. Cover(input, i, <<t>> \o us)
        <4>1. Len(input) \in Nat /\ i \in Nat
          OBVIOUS
        <4>2. QED BY <2>5, <2>9, <3>5, <4>1, NextCovers
      <3>7. f[i] = <<t>> \o us
        BY <2>7, <2>9, <3>5
      <3>8. QED BY <2>3, <2>4, <3>6, <3>7
    <2>10. QED BY <2>8, <2>9
  <1>2. PICK j \in Nat : j = len /\ j <= len /\ len + 1 - j = 1
    OBVIOUS
  <1>3. j \notin bad
    BY <1>1
  <1>4. Cover(input, len + 1 - j, f[len + 1 - j])
    BY <1>2, <1>3
  <1>5. QED BY <1>2, <1>4

\* The tokens of a text cover it.
LEMMA TextCovered ==
  ASSUME NEW input, Len(input) \in Nat
  PROVE  TokensCover(input)
  <1>1. PICK len \in Nat : len = Len(input)
    OBVIOUS
  <1>2. PICK ts : ts = tokens_of(input) /\ Cover(input, 1, ts)
    <2>1. PICK f : f = CHOOSE g : TokensFrom(input, 1, g)
      OBVIOUS
    <2>2. TokensFrom(input, 1, f)
      BY <1>1, <2>1, TokensExist
    <2>3. tokens_of(input) = f[1]
      BY <2>1, TokensOfIs
    <2>4. Cover(input, 1, f[1])
      BY <1>1, <2>2, TokensFromCover
    <2>5. QED BY <2>3, <2>4
  <1>3. ts \in Seq(TokensIn(input)) /\ ts[Len(ts)].last = Len(input)
    BY <1>2 DEF Cover
  <1>4. Last(ts).last = Len(input)
    BY <1>3 DEF Last
  <1>5. ASSUME NEW k \in DOMAIN ts
        PROVE  TokenFits(input, ts[k], IF k = 1 THEN 1 ELSE ts[k - 1].last + 1)
    <2>1. k \in 1..Len(ts)
      BY <1>3
    <2>2. TokenFits(input, ts[k], BehindTokens(ts, 1, k))
      BY <1>2, <2>1 DEF Cover
    <2>3. QED BY <2>2 DEF BehindTokens
  <1>6. \A k \in DOMAIN ts :
          /\ IsToken(input, ts[k])
          /\ (IF k = 1 THEN 1 ELSE ts[k - 1].last + 1) <= ts[k].first
          /\ Between(input, IF k = 1 THEN 1 ELSE ts[k - 1].last + 1, ts[k].first - 1) \subseteq Blanks
    BY <1>5 DEF TokenFits
  <1>7. QED BY <1>2, <1>4, <1>6 DEF TokensCover

\* Whatever the file holds, the parser reads the tokens of its text, and they
\* cover it: for every text of any length.
THEOREM MainTokensAreText == Spec => []TokensAreText
  <1>1. \A input \in Inputs : Len(input) \in Nat
    BY LexerAssumption
  <1>2. TokensAreText
    BY <1>1, TextCovered DEF TokensAreText, TextsCovered
  <1>3. QED BY <1>2, PTL
=============================================================================
