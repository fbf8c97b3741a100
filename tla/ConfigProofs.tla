---------------------------- MODULE ConfigProofs -----------------------------
(***************************************************************************)
(* What holds of the configuration for every text: the tree is the text,   *)
(* the parser accepts what the grammar does, the port and the routes that  *)
(* main takes from the tree are those that the text names, and a static    *)
(* handler answers from the roots that it names.                           *)
(***************************************************************************)
EXTENDS MainProofs, FiniteSetTheorems

\* A set of naturals with a bound has a greatest element.
LEMMA GreatestNatural ==
  ASSUME NEW n \in Nat, NEW S \in SUBSET (0..n), S # {}
  PROVE  \E x \in S : \A y \in S : y <= x
  <1> DEFINE rests == {n - x : x \in S}
  <1>1. rests \in SUBSET Nat /\ rests # {}
    <2>1. \A x \in S : x \in 0..n /\ n - x \in Nat
      OBVIOUS
    <2>2. QED BY <2>1
  <1>2. PICK r \in rests : \A s \in rests : r <= s
    BY <1>1, LeastNatural
  <1>3. PICK x \in S : r = n - x
    BY <1>2
  <1>4. \A y \in S : n - x <= n - y
    BY <1>2, <1>3
  <1>5. QED BY <1>4

-----------------------------------------------------------------------------
(* The code of a text: its lexemes without the comments.                   *)

Tokens == Words \cup Punctuation

CodeStep(t, f, n) ==
  IF n = 0 THEN <<>>
  ELSE IF t[n] = CommentLexeme THEN f[n - 1] ELSE Append(f[n - 1], t[n])

\* f computes the code of every beginning of t up to m lexemes.
CodeUpTo(t, m, f) == f = [n \in 0..m |-> CodeStep(t, f, n)]

CodeOf(t) == (CHOOSE f : CodeUpTo(t, Len(t), f))[Len(t)]

\* The first m lexemes of two texts are the same.
Agree(t, u, m) == \A k \in 1..m : t[k] = u[k]

\* The code of the text that was read.
LEMMA CodeIs == Code = CodeOf(text)
  BY DEF Code, CodeOf, CodeUpTo, CodeStep

\* The function that the code of a text is defined by exists.
LEMMA CodeExists ==
  ASSUME NEW t, NEW m \in Nat
  PROVE  \E f : CodeUpTo(t, m, f)
  <1> DEFINE bad == {k \in Nat : ~ \E f : CodeUpTo(t, k, f)}
  <1>1. SUFFICES ASSUME bad # {}
                 PROVE  FALSE
    OBVIOUS
  <1>2. PICK k \in bad : \A j \in bad : k <= j
    BY <1>1, LeastNatural
  <1>3. CASE k = 0
    <2> DEFINE f == [n \in 0..0 |-> <<>>]
    <2>1. CodeUpTo(t, 0, f)
      BY DEF CodeUpTo, CodeStep
    <2>2. QED BY <1>2, <1>3, <2>1
  <1>4. CASE k # 0
    <2>1. k - 1 \in Nat /\ k - 1 \notin bad
      BY <1>2, <1>4
    <2>2. PICK g : g = [n \in 0..(k - 1) |-> CodeStep(t, g, n)]
      BY <2>1 DEF CodeUpTo
    <2> DEFINE f == [n \in 0..k |-> IF n = k THEN CodeStep(t, g, k) ELSE g[n]]
    <2>3. ASSUME NEW n \in 0..k
          PROVE  f[n] = CodeStep(t, f, n)
      <3>1. n # 0 => n - 1 \in 0..(k - 1) /\ n - 1 \in 0..k /\ n - 1 # k
        BY <1>2
      <3>2. n # 0 => f[n - 1] = g[n - 1]
        BY <3>1
      <3>3. CodeStep(t, f, n) = CodeStep(t, g, n)
        BY <3>2 DEF CodeStep
      <3>4. CASE n = k
        BY <3>3, <3>4
      <3>5. CASE n # k
        <4>1. n \in 0..(k - 1)
          BY <3>5
        <4>2. g[n] = CodeStep(t, g, n)
          BY <2>2, <4>1
        <4>3. QED BY <3>3, <3>5, <4>2
      <3>6. QED BY <3>4, <3>5
    <2>4. CodeUpTo(t, k, f)
      <3>1. f = [n \in 0..k |-> f[n]]
        OBVIOUS
      <3> HIDE DEF f
      <3>2. QED BY <2>3, <3>1 DEF CodeUpTo
    <2>5. QED BY <1>2, <2>4
  <1>5. QED BY <1>3, <1>4

\* It is unique, as far as the texts agree.
LEMMA CodeUnique ==
  ASSUME NEW t, NEW u, NEW f, NEW g, NEW m \in Nat, NEW n \in Nat, m <= n,
         CodeUpTo(t, m, f), CodeUpTo(u, n, g), Agree(t, u, m)
  PROVE  f[m] = g[m]
  <1> DEFINE bad == {k \in 0..m : f[k] # g[k]}
  <1>1. SUFFICES ASSUME bad # {}
                 PROVE  FALSE
    OBVIOUS
  <1>2. PICK k \in bad : \A j \in bad : k <= j
    <2>1. bad \in SUBSET Nat
      OBVIOUS
    <2>2. QED BY <1>1, <2>1, LeastNatural
  <1>3. f[k] = CodeStep(t, f, k) /\ g[k] = CodeStep(u, g, k)
    <2>1. k \in 0..m /\ k \in 0..n
      BY <1>2
    <2>2. QED BY <2>1 DEF CodeUpTo
  <1>4. k # 0 => f[k - 1] = g[k - 1] /\ t[k] = u[k]
    BY <1>2 DEF Agree
  <1>5. CodeStep(t, f, k) = CodeStep(u, g, k)
    BY <1>4 DEF CodeStep
  <1>6. QED BY <1>2, <1>3, <1>5

\* The code grows by every lexeme that is not a comment.
LEMMA CodeAppend ==
  ASSUME NEW t \in Seq(Lexemes), NEW lex \in Lexemes
  PROVE  CodeOf(Append(t, lex)) = IF lex = CommentLexeme THEN CodeOf(t) ELSE Append(CodeOf(t), lex)
  <1>1. PICK m \in Nat, n \in Nat, u \in Seq(Lexemes) : m = Len(t) /\ n = m + 1 /\ u = Append(t, lex)
    <2>1. Len(t) \in Nat /\ Len(t) + 1 \in Nat /\ Append(t, lex) \in Seq(Lexemes)
      BY LenProperties, AppendProperties
    <2>2. QED BY <2>1
  <1>2. /\ m <= n /\ Len(u) = n /\ u[n] = lex /\ Agree(t, u, m)
    BY <1>1, AppendProperties DEF Agree
  <1>3. CodeOf(t) = (CHOOSE f : CodeUpTo(t, m, f))[m] /\ CodeOf(u) = (CHOOSE f : CodeUpTo(u, n, f))[n]
    BY <1>1, <1>2 DEF CodeOf
  <1>4. PICK f : CodeUpTo(t, m, f) /\ CodeOf(t) = f[m]
    BY <1>3, CodeExists
  <1>5. PICK g : CodeUpTo(u, n, g) /\ CodeOf(u) = g[n]
    BY <1>3, CodeExists
  <1>6. f[m] = g[m]
    <2>1. m \in Nat /\ n \in Nat /\ m <= n
      BY <1>2
    <2>2. CodeUpTo(t, m, f) /\ CodeUpTo(u, n, g) /\ Agree(t, u, m)
      BY <1>2, <1>4, <1>5
    <2>3. QED BY ONLY <2>1, <2>2, CodeUnique
  <1>7. g[n] = CodeStep(u, g, n) /\ n # 0 /\ n - 1 = m
    BY <1>1, <1>5 DEF CodeUpTo
  <1>8. g[n] = IF lex = CommentLexeme THEN g[m] ELSE Append(g[m], lex)
    BY <1>2, <1>7 DEF CodeStep
  <1>9. QED BY <1>1, <1>4, <1>5, <1>6, <1>8

\* No text has no code.
LEMMA CodeOfNothing == CodeOf(<<>>) = <<>>
  <1>1. PICK f : CodeUpTo(<<>>, 0, f) /\ CodeOf(<<>>) = f[0]
    <2>1. CodeOf(<<>>) = (CHOOSE f : CodeUpTo(<<>>, 0, f))[0]
      BY DEF CodeOf
    <2>2. QED BY <2>1, CodeExists
  <1>2. QED BY <1>1 DEF CodeUpTo, CodeStep

-----------------------------------------------------------------------------
(* FlattenSeq.                                                             *)

\* f concatenates the first sequences of ss, up to m of them.
FlatUpTo(ss, m, f) == f = [i \in 1..m |-> IF i = 1 THEN ss[i] ELSE f[i - 1] \o ss[i]]

\* What FlattenSeq is defined by exists.
LEMMA FlatExists ==
  ASSUME NEW ss, NEW m \in Nat
  PROVE  \E f : FlatUpTo(ss, m, f)
  <1> DEFINE bad == {k \in Nat : ~ \E f : FlatUpTo(ss, k, f)}
  <1>1. SUFFICES ASSUME bad # {}
                 PROVE  FALSE
    OBVIOUS
  <1>2. PICK k \in bad : \A j \in bad : k <= j
    BY <1>1, LeastNatural
  <1>3. CASE k = 0
    <2> DEFINE f == [i \in 1..0 |-> <<>>]
    <2>1. FlatUpTo(ss, 0, f)
      BY DEF FlatUpTo
    <2>2. QED BY <1>2, <1>3, <2>1
  <1>4. CASE k # 0
    <2>1. k - 1 \in Nat /\ k - 1 \notin bad
      BY <1>2, <1>4
    <2>2. PICK g : g = [i \in 1..(k - 1) |-> IF i = 1 THEN ss[i] ELSE g[i - 1] \o ss[i]]
      BY <2>1 DEF FlatUpTo
    <2> DEFINE f == [i \in 1..k |-> IF i = k THEN (IF i = 1 THEN ss[i] ELSE g[i - 1] \o ss[i]) ELSE g[i]]
    <2>3. ASSUME NEW i \in 1..k
          PROVE  f[i] = IF i = 1 THEN ss[i] ELSE f[i - 1] \o ss[i]
      <3>1. i # 1 => i - 1 \in 1..(k - 1) /\ i - 1 \in 1..k /\ i - 1 # k
        BY <1>2
      <3>2. i # 1 => f[i - 1] = g[i - 1]
        BY <3>1
      <3>3. CASE i = k
        BY <3>2, <3>3
      <3>4. CASE i # k
        <4>1. i \in 1..(k - 1)
          BY <3>4
        <4>2. g[i] = IF i = 1 THEN ss[i] ELSE g[i - 1] \o ss[i]
          BY <2>2, <4>1
        <4>3. QED BY <3>2, <3>4, <4>2
      <3>5. QED BY <3>3, <3>4
    <2>4. FlatUpTo(ss, k, f)
      <3>1. f = [i \in 1..k |-> f[i]]
        OBVIOUS
      <3> HIDE DEF f
      <3>2. QED BY <2>3, <3>1 DEF FlatUpTo
    <2>5. QED BY <1>2, <2>4
  <1>5. QED BY <1>3, <1>4

\* It is unique, as far as the sequences agree.
LEMMA FlatUnique ==
  ASSUME NEW ss, NEW tt, NEW f, NEW g, NEW m \in Nat, NEW n \in Nat, m <= n,
         FlatUpTo(ss, m, f), FlatUpTo(tt, n, g), Agree(ss, tt, m)
  PROVE  \A i \in 1..m : f[i] = g[i]
  <1> DEFINE bad == {k \in 1..m : f[k] # g[k]}
  <1>1. SUFFICES ASSUME bad # {}
                 PROVE  FALSE
    OBVIOUS
  <1>2. PICK k \in bad : \A j \in bad : k <= j
    <2>1. bad \in SUBSET Nat
      OBVIOUS
    <2>2. QED BY <1>1, <2>1, LeastNatural
  <1>3. /\ f[k] = IF k = 1 THEN ss[k] ELSE f[k - 1] \o ss[k]
        /\ g[k] = IF k = 1 THEN tt[k] ELSE g[k - 1] \o tt[k]
    <2>1. k \in 1..m /\ k \in 1..n
      BY <1>2
    <2>2. QED BY <2>1 DEF FlatUpTo
  <1>4. (k # 1 => f[k - 1] = g[k - 1]) /\ ss[k] = tt[k]
    BY <1>2 DEF Agree
  <1>5. QED BY <1>2, <1>3, <1>4

\* FlattenSeq by that function.
LEMMA FlattenIs ==
  ASSUME NEW ss, NEW m \in Nat \ {0}, Len(ss) = m
  PROVE  \E f : FlatUpTo(ss, m, f) /\ FlattenSeq(ss) = f[m]
  <1>1. FlattenSeq(ss) = (CHOOSE f : FlatUpTo(ss, m, f))[m]
    BY DEF FlattenSeq, FlatUpTo
  <1>2. QED BY <1>1, FlatExists

\* The last sequence is concatenated to those before it.
LEMMA FlattenAppend ==
  ASSUME NEW S, NEW ss \in Seq(Seq(S)), NEW s \in Seq(S)
  PROVE  FlattenSeq(Append(ss, s)) = FlattenSeq(ss) \o s
  <1>1. PICK m \in Nat, n \in Nat \ {0}, tt \in Seq(Seq(S)) : m = Len(ss) /\ n = m + 1 /\ tt = Append(ss, s)
    <2>1. Len(ss) \in Nat /\ Len(ss) + 1 \in Nat \ {0} /\ Append(ss, s) \in Seq(Seq(S))
      BY LenProperties, AppendProperties
    <2>2. QED BY <2>1
  <1>2. Len(tt) = n /\ tt[n] = s /\ Agree(ss, tt, m)
    BY <1>1, AppendProperties DEF Agree
  <1>3. PICK g : FlatUpTo(tt, n, g) /\ FlattenSeq(tt) = g[n]
    BY <1>2, FlattenIs
  <1>4. g[n] = IF n = 1 THEN s ELSE g[n - 1] \o s
    <2>1. n \in 1..n
      OBVIOUS
    <2>2. QED BY <1>2, <1>3, <2>1 DEF FlatUpTo
  <1>5. CASE m = 0
    <2>1. ss = <<>> /\ FlattenSeq(ss) = <<>>
      BY <1>1, <1>5, EmptySeq DEF FlattenSeq
    <2>2. QED BY <1>1, <1>3, <1>4, <1>5, <2>1, ConcatEmptySeq
  <1>6. CASE m # 0
    <2>1. PICK f : FlatUpTo(ss, m, f) /\ FlattenSeq(ss) = f[m]
      BY <1>1, <1>6, FlattenIs
    <2>2. m \in Nat /\ n \in Nat /\ m <= n
      BY <1>1
    <2>3. FlatUpTo(ss, m, f) /\ FlatUpTo(tt, n, g) /\ Agree(ss, tt, m)
      BY <1>2, <1>3, <2>1
    <2>4. \A i \in 1..m : f[i] = g[i]
      BY ONLY <2>2, <2>3, FlatUnique
    <2>5. m \in 1..m /\ n # 1 /\ n - 1 = m
      BY <1>1, <1>6
    <2>6. QED BY <1>1, <1>3, <1>4, <2>1, <2>4, <2>5
  <1>7. QED BY <1>5, <1>6

\* Nothing is flattened to nothing.
LEMMA FlattenNone == FlattenSeq(<<>>) = <<>>
  BY DEF FlattenSeq

\* What is flattened is a sequence of the elements.
LEMMA FlattenType ==
  ASSUME NEW S, NEW ss \in Seq(Seq(S))
  PROVE  FlattenSeq(ss) \in Seq(S)
  <1>1. CASE ss = <<>>
    BY <1>1, FlattenNone, EmptySeq
  <1>2. CASE ss # <<>>
    <2>1. PICK m \in Nat \ {0} : m = Len(ss)
      BY <1>2, EmptySeq
    <2>2. PICK f : FlatUpTo(ss, m, f) /\ FlattenSeq(ss) = f[m]
      BY <2>1, FlattenIs
    <2> DEFINE bad == {k \in 1..m : f[k] \notin Seq(S)}
    <2>3. bad = {}
      <3>1. SUFFICES ASSUME bad # {}
                     PROVE  FALSE
        OBVIOUS
      <3>2. PICK k \in bad : \A j \in bad : k <= j
        <4>1. bad \in SUBSET Nat
          OBVIOUS
        <4>2. QED BY <3>1, <4>1, LeastNatural
      <3>3. k \in 1..m /\ f[k] = IF k = 1 THEN ss[k] ELSE f[k - 1] \o ss[k]
        BY <2>2, <3>2 DEF FlatUpTo
      <3>4. ss[k] \in Seq(S)
        BY <2>1, <3>3, ElementOfSeq
      <3>5. k # 1 => f[k - 1] \in Seq(S)
        BY <3>2
      <3>6. f[k] \in Seq(S)
        BY <3>3, <3>4, <3>5, ConcatProperties
      <3>7. QED BY <3>2, <3>6
    <2>4. QED BY <2>2, <2>3
  <1>3. QED BY <1>1, <1>2

-----------------------------------------------------------------------------
(* What the parser does to the block on top of its stack.                  *)

\* new is old with another last statement.
Changed(old, new, s) ==
  /\ old # <<>> /\ Len(new) = Len(old) /\ new[Len(old)] = s
  /\ \A i \in 1..(Len(old) - 1) : new[i] = old[i]

\* new is old and one more statement.
Extended(old, new, s) ==
  /\ Len(new) = Len(old) + 1 /\ new[Len(old) + 1] = s
  /\ \A i \in 1..Len(old) : new[i] = old[i]

\* The last statement is changed in place.
LEMMA ReplaceLastChanges ==
  ASSUME NEW block \in Seq(Statements), block # <<>>, NEW s \in Statements
  PROVE  Changed(block, ReplaceLast(block, s), s) /\ ReplaceLast(block, s) \in Seq(Statements)
  <1>1. Len(block) \in 1..Len(block) /\ DOMAIN block = 1..Len(block)
    BY EmptySeq
  <1>2. PICK n \in 1..Len(block), new \in Seq(Statements) :
          n = Len(block) /\ new = [block EXCEPT ![n] = s]
    BY <1>1, ExceptSeq
  <1>3. /\ new \in Seq(Statements) /\ Len(new) = Len(block)
        /\ \A i \in 1..Len(block) : new[i] = IF i = n THEN s ELSE block[i]
    BY <1>2, ExceptSeq
  <1>4. \A i \in 1..(Len(block) - 1) : i \in 1..Len(block) /\ i # n
    BY <1>2
  <1>5. Changed(block, new, s)
    BY <1>2, <1>3, <1>4 DEF Changed
  <1>6. QED BY <1>2, <1>3, <1>5 DEF ReplaceLast

\* The block on top of the stack, and its last statement behind a word.
LEMMA TopIs ==
  ASSUME ParserInv, config_stack # <<>>
  PROVE  /\ Top \in DOMAIN blocks /\ blocks[Top] \in Seq(Statements)
         /\ last_token_type = "NORMAL" =>
              /\ blocks[Top] # <<>> /\ Len(blocks[Top]) \in DOMAIN blocks[Top]
              /\ Last(blocks[Top]) = blocks[Top][Len(blocks[Top])]
              /\ Last(blocks[Top]) \in Statements
              /\ Last(blocks[Top]).child_block = NullBlock
  <1>1. Top \in DOMAIN blocks /\ blocks[Top] \in Seq(Statements)
    <2>1. Len(config_stack) \in 1..Len(config_stack) /\ config_stack \in Seq(DOMAIN blocks)
      BY EmptySeq DEF ParserInv, ParserTypeOK
    <2>2. Top \in DOMAIN blocks
      BY <2>1 DEF Top
    <2>3. QED BY <2>2 DEF ParserInv, ParserTypeOK
  <1>2. ASSUME last_token_type = "NORMAL"
        PROVE  /\ blocks[Top] # <<>> /\ Len(blocks[Top]) \in DOMAIN blocks[Top]
               /\ blocks[Top][Len(blocks[Top])].child_block = NullBlock
    <2>1. blocks[Top] # <<>> /\ blocks[Top][Len(blocks[Top])].child_block = NullBlock
      BY <1>2 DEF ParserInv, StackIsPath
    <2>2. QED BY <1>1, <2>1, EmptySeq
  <1>3. QED BY <1>1, <1>2, LastIs DEF Last

\* A word begins a statement of that block, or goes on with the last one.
LEMMA NormalIs ==
  ASSUME ParserInv, NEW word \in Words, Normal(word)
  PROVE  /\ config_stack # <<>> /\ UNCHANGED <<config_stack, verdict>> /\ last_token_type' = "NORMAL"
         /\ Top' = Top /\ DOMAIN blocks' = DOMAIN blocks /\ Len(blocks') = Len(blocks)
         /\ blocks'[Top] \in Seq(Statements)
         /\ \A b \in DOMAIN blocks : b # Top => blocks'[b] = blocks[b]
         /\ \/ /\ last_token_type # "NORMAL"
               /\ Extended(blocks[Top], blocks'[Top], Statement(<<word>>, NullBlock))
            \/ /\ last_token_type = "NORMAL"
               /\ Changed(blocks[Top], blocks'[Top],
                          Statement(Append(Last(blocks[Top]).tokens, word), NullBlock))
  <1>1. /\ config_stack # <<>> /\ UNCHANGED <<config_stack, verdict>> /\ last_token_type' = "NORMAL"
        /\ blocks' = [blocks EXCEPT ![Top] =
             IF last_token_type # "NORMAL" THEN NewWord(@, word) ELSE AddWord(@, word)]
    BY DEF Normal
  <1>2. Top' = Top
    BY <1>1 DEF Top
  <1>3. /\ DOMAIN blocks' = DOMAIN blocks /\ Len(blocks') = Len(blocks)
        /\ \A b \in DOMAIN blocks : b # Top => blocks'[b] = blocks[b]
        /\ blocks'[Top] = IF last_token_type # "NORMAL" THEN NewWord(blocks[Top], word)
                                                        ELSE AddWord(blocks[Top], word)
    BY <1>1, TopIs DEF ParserInv, ParserTypeOK
  <1>4. CASE last_token_type # "NORMAL"
    <2>1. Statement(<<word>>, NullBlock) \in Statements
      BY DEF Statement, Statements, NullBlock
    <2>2. PICK old, s : old = blocks[Top] /\ s = Statement(<<word>>, NullBlock)
      OBVIOUS
    <2>3. blocks'[Top] = Append(old, s) /\ old \in Seq(Statements) /\ s \in Statements
      BY <1>1, <1>3, <1>4, <2>1, <2>2, TopIs DEF NewWord
    <2>4. blocks'[Top] \in Seq(Statements) /\ Extended(old, blocks'[Top], s)
      BY <2>3, AppendProperties DEF Extended
    <2>5. blocks'[Top] \in Seq(Statements)
          /\ Extended(blocks[Top], blocks'[Top], Statement(<<word>>, NullBlock))
      BY <2>2, <2>4
    <2>6. QED BY <1>1, <1>2, <1>3, <1>4, <2>5
  <1>5. CASE last_token_type = "NORMAL"
    <2> DEFINE s == Statement(Append(Last(blocks[Top]).tokens, word), NullBlock)
    <2>1. s \in Statements
      BY <1>1, <1>5, TopIs DEF Statement, Statements, NullBlock
    <2>2. blocks'[Top] = ReplaceLast(blocks[Top], s)
      BY <1>1, <1>3, <1>5, TopIs DEF AddWord
    <2> HIDE DEF s
    <2>3. blocks'[Top] \in Seq(Statements) /\ Changed(blocks[Top], blocks'[Top], s)
      BY <1>1, <1>5, <2>1, <2>2, TopIs, ReplaceLastChanges
    <2>4. QED BY <1>1, <1>2, <1>3, <1>5, <2>3 DEF s
  <1>6. QED BY <1>4, <1>5

\* A brace gives the last statement of that block an empty block of its own,
\* which is on top of the stack then.
LEMMA StartBlockIs ==
  ASSUME ParserInv, StartBlock
  PROVE  /\ config_stack # <<>> /\ verdict' = verdict
         /\ last_token_type = "NORMAL" /\ last_token_type' = "START_BLOCK"
         /\ config_stack' = Append(config_stack, Len(blocks) + 1)
         /\ DOMAIN blocks' = 1..(Len(blocks) + 1) /\ Len(blocks') = Len(blocks) + 1
         /\ blocks'[Len(blocks) + 1] = <<>>
         /\ \A b \in DOMAIN blocks : b # Top => blocks'[b] = blocks[b]
         /\ blocks'[Top] \in Seq(Statements)
         /\ Changed(blocks[Top], blocks'[Top], Statement(Last(blocks[Top]).tokens, Len(blocks) + 1))
  <1>1. /\ last_token_type = "NORMAL" /\ last_token_type' = "START_BLOCK" /\ verdict' = verdict
        /\ config_stack # <<>> /\ config_stack' = Append(config_stack, Len(blocks) + 1)
        /\ blocks' = Append([blocks EXCEPT ![Top] =
                       ReplaceLast(@, Statement(Last(@).tokens, Len(blocks) + 1))], <<>>)
    BY DEF StartBlock, ParserInv, WordHasBlock
  <1>2. PICK s, n : s = Statement(Last(blocks[Top]).tokens, n) /\ n = Len(blocks) + 1
    OBVIOUS
  <1>3. PICK new : new = ReplaceLast(blocks[Top], s)
    OBVIOUS
  <1>4. PICK changed : changed = [blocks EXCEPT ![Top] = new]
    OBVIOUS
  <1>5. blocks' = Append(changed, <<>>)
    BY <1>1, <1>2, <1>3, <1>4
  <1>6. n \in Nat /\ Len(blocks) \in Nat /\ s \in Statements /\ blocks \in Seq(Seq(Statements))
    <2>1. Last(blocks[Top]) \in Statements
      BY <1>1, TopIs
    <2>2. blocks \in Seq(Seq(Statements))
      BY DEF ParserInv, ParserTypeOK
    <2>3. n \in Nat /\ Len(blocks) \in Nat
      BY ONLY <1>2, <2>2, LenProperties
    <2>4. s \in Statements
      BY ONLY <1>2, <2>1, <2>3 DEF Statement, Statements
    <2>5. QED BY ONLY <2>2, <2>3, <2>4
  <1>7. Changed(blocks[Top], new, s) /\ new \in Seq(Statements)
    BY <1>1, <1>3, <1>6, TopIs, ReplaceLastChanges
  <1>8. /\ changed \in Seq(Seq(Statements)) /\ Len(changed) = Len(blocks)
        /\ \A b \in 1..Len(blocks) : changed[b] = IF b = Top THEN new ELSE blocks[b]
    <2>1. Top \in 1..Len(blocks)
      BY <1>1, <1>6, TopIs
    <2>2. QED BY <1>4, <1>6, <1>7, <2>1, ExceptSeq
  <1>9. <<>> \in Seq(Statements)
    BY EmptySeq
  <1>10. /\ DOMAIN blocks' = 1..n /\ Len(blocks') = n /\ blocks'[n] = <<>>
         /\ \A b \in 1..Len(blocks) : blocks'[b] = changed[b]
    <2>1. /\ Append(changed, <<>>) \in Seq(Seq(Statements))
          /\ Len(Append(changed, <<>>)) = Len(changed) + 1
          /\ \A b \in 1..Len(changed) : Append(changed, <<>>)[b] = changed[b]
          /\ Append(changed, <<>>)[Len(changed) + 1] = <<>>
      BY <1>8, <1>9, AppendProperties
    <2>2. blocks' \in Seq(Seq(Statements)) /\ Len(blocks') = n
      BY <1>2, <1>5, <1>8, <2>1
    <2>3. DOMAIN blocks' = 1..n
      BY <2>2, LenProperties
    <2>4. QED BY <1>2, <1>5, <1>8, <2>1, <2>2, <2>3
  <1>11. Top \in 1..Len(blocks) /\ DOMAIN blocks = 1..Len(blocks)
    BY <1>1, <1>6, TopIs
  <1>12. blocks'[Top] = new /\ \A b \in DOMAIN blocks : b # Top => blocks'[b] = blocks[b]
    BY <1>8, <1>10, <1>11
  <1>13. QED BY <1>1, <1>2, <1>7, <1>10, <1>12

-----------------------------------------------------------------------------
(* The tree and the code of the text, step by step.                        *)

\* A statement has a token, and its block was made after the statement's own.
ChildrenFollow ==
  \A b \in DOMAIN blocks : \A i \in DOMAIN blocks[b] :
    /\ blocks[b][i].tokens # <<>>
    /\ \/ blocks[b][i].child_block = NullBlock
       \/ blocks[b][i].child_block \in (b + 1)..Len(blocks)

\* A block on the stack has one parent, the last statement of the block below.
OnlyParents ==
  \A k \in 1..(Len(config_stack) - 1) : \A b \in DOMAIN blocks : \A i \in DOMAIN blocks[b] :
    blocks[b][i].child_block = config_stack[k + 1] => b = config_stack[k] /\ i = Len(blocks[b])

CodeInv == Code \in Seq(Tokens)

TreeInv == ParserInv /\ CodeInv /\ ChildrenFollow /\ OnlyParents

\* A lexeme that is read belongs to the code, unless it is a comment.
LEMMA CodeGrows ==
  ASSUME ParserInv, NEW lex \in Lexemes, Reads(lex)
  PROVE  Code' = IF lex = CommentLexeme THEN Code ELSE Append(Code, lex)
  <1>1. Code' = CodeOf(text')
    BY DEF Code, CodeOf, CodeUpTo, CodeStep
  <1>2. text \in Seq(Lexemes) /\ text' = Append(text, lex)
    BY DEF ParserInv, ParserTypeOK, Reads
  <1>3. QED BY <1>1, <1>2, CodeIs, CodeAppend

\* The same text has the same code.
LEMMA CodeStays ==
  ASSUME UNCHANGED text
  PROVE  Code' = Code
  BY DEF Code

\* A token is appended to the code.
LEMMA TokenRead ==
  ASSUME TreeInv, NEW lex \in Tokens, Reads(lex)
  PROVE  /\ Code' = Append(Code, lex) /\ CodeInv'
         /\ Len(Code') = Len(Code) + 1 /\ Code'[Len(Code) + 1] = lex
         /\ \A i \in 1..Len(Code) : Code'[i] = Code[i]
  <1>1. lex \in Lexemes /\ lex # CommentLexeme
    BY LexemesAssumption DEF Tokens, Lexemes, Punctuation, CommentLexeme
  <1>2. Code' = Append(Code, lex)
    BY <1>1, CodeGrows DEF TreeInv
  <1>3. QED BY <1>2, AppendProperties DEF TreeInv, CodeInv

\* What the steps of the parser are, for the tree and the code.
LEMMA ParserSteps ==
  ASSUME TreeInv, ParserNext
  PROVE  \/ UNCHANGED <<Code, last_token_type, config_stack, blocks>>
         \/ \E word \in Words : Normal(word)
         \/ StatementEnd
         \/ StartBlock
         \/ EndBlock
         \/ /\ verdict' \in {"invalid", "undefined"}
            /\ \E lex \in Tokens : Reads(lex) /\ UNCHANGED <<last_token_type, config_stack, blocks>>
  <1>1. CASE Comment
    <2>1. CommentLexeme \in Lexemes
      BY DEF Lexemes
    <2>2. Code' = Code /\ UNCHANGED <<last_token_type, config_stack, blocks>>
      BY <1>1, <2>1, CodeGrows DEF Comment, TreeInv
    <2>3. QED BY <2>2
  <1>2. ASSUME NEW lex \in Lexemes, EmptyStack(lex) \/ Unexpected(lex)
        PROVE  /\ verdict' \in {"invalid", "undefined"} /\ lex \in Tokens
               /\ Reads(lex) /\ UNCHANGED <<last_token_type, config_stack, blocks>>
    BY <1>2 DEF EmptyStack, Unexpected, Returns, Tokens, Punctuation
  <1>3. ASSUME NEW how \in Endings, EndOfFile(how)
        PROVE  UNCHANGED <<Code, last_token_type, config_stack, blocks>>
    BY <1>3, CodeStays DEF EndOfFile, Returns
  <1>4. QED BY <1>1, <1>2, <1>3 DEF ParserNext

\* The tree keeps its shape under a word.
LEMMA NormalTree ==
  ASSUME TreeInv, NEW word \in Words, Normal(word)
  PROVE  ChildrenFollow' /\ OnlyParents'
  <1> DEFINE n == Len(blocks[Top])
  <1>1. /\ ParserInv /\ config_stack # <<>> /\ UNCHANGED config_stack
        /\ DOMAIN blocks' = DOMAIN blocks /\ Len(blocks') = Len(blocks)
        /\ \A b \in DOMAIN blocks : b # Top => blocks'[b] = blocks[b]
        /\ Top \in DOMAIN blocks /\ blocks[Top] \in Seq(Statements) /\ blocks'[Top] \in Seq(Statements)
    BY NormalIs, TopIs DEF TreeInv
  <1>2. /\ n \in Nat /\ DOMAIN blocks[Top] = 1..n
        /\ DOMAIN blocks'[Top] = 1..Len(blocks'[Top])
    BY <1>1, LenProperties
  <1>3. \A i \in DOMAIN blocks'[Top] :
          \/ i \in DOMAIN blocks[Top] /\ i # n /\ blocks'[Top][i] = blocks[Top][i]
          \/ /\ i = n /\ last_token_type # "NORMAL" /\ i \in DOMAIN blocks[Top]
             /\ blocks'[Top][i] = blocks[Top][i]
          \/ /\ i = Len(blocks'[Top]) /\ blocks'[Top][i].child_block = NullBlock
             /\ blocks'[Top][i].tokens # <<>>
    <2>1. CASE /\ last_token_type # "NORMAL"
               /\ Extended(blocks[Top], blocks'[Top], Statement(<<word>>, NullBlock))
      <3>1. /\ Len(blocks'[Top]) = n + 1 /\ \A i \in 1..n : blocks'[Top][i] = blocks[Top][i]
            /\ blocks'[Top][n + 1].child_block = NullBlock /\ blocks'[Top][n + 1].tokens = <<word>>
        BY <2>1 DEF Extended, Statement
      <3>2. <<word>> # <<>>
        OBVIOUS
      <3> HIDE DEF n
      <3>3. \A i \in 1..(n + 1) : i = n + 1 \/ i \in 1..n
        BY <1>2
      <3>4. QED BY <1>2, <2>1, <3>1, <3>2, <3>3
    <2>2. CASE /\ last_token_type = "NORMAL"
               /\ Changed(blocks[Top], blocks'[Top],
                          Statement(Append(Last(blocks[Top]).tokens, word), NullBlock))
      <3>1. /\ Len(blocks'[Top]) = n /\ \A i \in 1..(n - 1) : blocks'[Top][i] = blocks[Top][i]
            /\ blocks'[Top][n].child_block = NullBlock
            /\ blocks'[Top][n].tokens = Append(Last(blocks[Top]).tokens, word)
        BY <2>2 DEF Changed, Statement
      <3>2. Append(Last(blocks[Top]).tokens, word) # <<>>
        <4>1. Last(blocks[Top]).tokens \in Seq(Words)
          BY <1>1, <2>2, TopIs DEF Statements
        <4>2. QED BY <4>1, AppendProperties
      <3> HIDE DEF n
      <3>3. \A i \in 1..n : i = n \/ i \in 1..(n - 1)
        BY <1>2
      <3>4. QED BY <1>2, <3>1, <3>2, <3>3
    <2>3. QED BY <2>1, <2>2, NormalIs DEF TreeInv
  <1>4. ChildrenFollow'
    BY <1>1, <1>3 DEF TreeInv, ChildrenFollow
  <1>5. OnlyParents'
    <2> SUFFICES ASSUME NEW k \in 1..(Len(config_stack) - 1), NEW b \in DOMAIN blocks,
                        NEW i \in DOMAIN blocks'[b],
                        blocks'[b][i].child_block = config_stack[k + 1]
                 PROVE  b = config_stack[k] /\ i = Len(blocks'[b])
      BY <1>1 DEF OnlyParents
    <2>1. /\ k \in 1..Len(config_stack) /\ k < Len(config_stack)
          /\ k + 1 \in DOMAIN config_stack /\ config_stack[k + 1] \in DOMAIN blocks
          /\ config_stack[k] # Top
      <3>1. config_stack \in Seq(DOMAIN blocks) /\ Len(config_stack) \in Nat
        BY <1>1 DEF ParserInv, ParserTypeOK
      <3>2. /\ k \in 1..Len(config_stack) /\ k < Len(config_stack) /\ k + 1 \in DOMAIN config_stack
            /\ k \in DOMAIN config_stack /\ Len(config_stack) \in DOMAIN config_stack
        BY <3>1
      <3>3. config_stack[k + 1] \in DOMAIN blocks /\ config_stack[k] \in DOMAIN blocks
        BY <3>1, <3>2
      <3>4. config_stack[k] < Top
        BY <1>1, <3>2 DEF ParserInv, StackOrdered, Top
      <3>5. config_stack[k] \in Nat
        <4>1. blocks \in Seq(Seq(Statements))
          BY <1>1 DEF ParserInv, ParserTypeOK
        <4>2. DOMAIN blocks \subseteq Nat
          BY ONLY <4>1, LenProperties
        <4>3. QED BY ONLY <3>3, <4>2
      <3>6. QED BY <3>2, <3>3, <3>4, <3>5
    <2>2. config_stack[k + 1] # NullBlock
      BY <1>1, <2>1 DEF NullBlock, ParserInv, ParserTypeOK
    <2>3. CASE b # Top
      BY <1>1, <2>3 DEF TreeInv, OnlyParents
    <2>4. CASE b = Top
      <3>1. i \in DOMAIN blocks[Top] /\ blocks'[Top][i] = blocks[Top][i]
        BY <1>3, <2>2, <2>4
      <3>2. Top = config_stack[k]
        BY <1>1, <2>4, <3>1 DEF TreeInv, OnlyParents
      <3>3. QED BY <2>1, <3>2
    <2>5. QED BY <2>3, <2>4
  <1>6. QED BY <1>4, <1>5

\* The tree keeps its shape under a new block.
LEMMA StartBlockTree ==
  ASSUME TreeInv, StartBlock
  PROVE  ChildrenFollow' /\ OnlyParents'
  <1> DEFINE n == Len(blocks[Top])
             new == Len(blocks) + 1
  <1>1. /\ ParserInv /\ config_stack # <<>> /\ last_token_type = "NORMAL"
        /\ config_stack' = Append(config_stack, new)
        /\ DOMAIN blocks' = 1..new /\ Len(blocks') = new /\ blocks'[new] = <<>>
        /\ \A b \in DOMAIN blocks : b # Top => blocks'[b] = blocks[b]
        /\ Top \in DOMAIN blocks /\ blocks[Top] \in Seq(Statements) /\ blocks'[Top] \in Seq(Statements)
        /\ Changed(blocks[Top], blocks'[Top], Statement(Last(blocks[Top]).tokens, new))
    BY StartBlockIs, TopIs DEF TreeInv
  <1>2. /\ n \in Nat /\ new \in Nat /\ DOMAIN blocks = 1..(new - 1) /\ Len(blocks) = new - 1
        /\ DOMAIN blocks[Top] = 1..n /\ n \in 1..n
        /\ Len(blocks'[Top]) = n /\ DOMAIN blocks'[Top] = 1..n
        /\ \A i \in 1..(n - 1) : blocks'[Top][i] = blocks[Top][i]
        /\ blocks'[Top][n].child_block = new
        /\ blocks'[Top][n].tokens = blocks[Top][n].tokens
    BY <1>1, TopIs DEF Changed, Statement, ParserInv, ParserTypeOK
  <1>3. /\ \A i \in 1..n : i = n \/ i \in 1..(n - 1)
        /\ \A b \in 1..new : b = new \/ b \in DOMAIN blocks
        /\ \A b \in DOMAIN blocks : \A c : c \in (b + 1)..Len(blocks) => c \in (b + 1)..new
        /\ \A b \in DOMAIN blocks : new \in (b + 1)..new
        /\ DOMAIN <<>> = {}
    BY <1>2
  <1> HIDE DEF n, new
  <1>4. ChildrenFollow'
    <2> SUFFICES ASSUME NEW b \in 1..new, NEW i \in DOMAIN blocks'[b]
                 PROVE  /\ blocks'[b][i].tokens # <<>>
                        /\ \/ blocks'[b][i].child_block = NullBlock
                           \/ blocks'[b][i].child_block \in (b + 1)..new
      BY <1>1 DEF ChildrenFollow
    <2>1. b \in DOMAIN blocks
      BY <1>1, <1>3
    <2>2. CASE b = Top /\ i = n
      BY <1>2, <1>3, <2>1, <2>2 DEF TreeInv, ChildrenFollow
    <2>3. CASE ~(b = Top /\ i = n)
      <3>1. i \in DOMAIN blocks[b] /\ blocks'[b][i] = blocks[b][i]
        BY <1>1, <1>2, <1>3, <2>1, <2>3
      <3>2. QED BY <1>3, <2>1, <3>1 DEF TreeInv, ChildrenFollow
    <2>4. QED BY <2>2, <2>3
  <1>5. OnlyParents'
    <2> DEFINE m == Len(config_stack)
    <2>1. /\ config_stack \in Seq(DOMAIN blocks) /\ m \in Nat \ {0}
          /\ Len(config_stack') = m + 1 /\ config_stack'[m + 1] = new /\ config_stack'[m] = Top
          /\ \A j \in 1..m : config_stack'[j] = config_stack[j]
      <3>1. config_stack \in Seq(DOMAIN blocks)
        BY <1>1 DEF ParserInv, ParserTypeOK
      <3>2. m \in Nat \ {0} /\ m \in 1..m
        BY <1>1, <3>1, EmptySeq
      <3>3. config_stack \in Seq(1..new) /\ new \in 1..new
        <4>1. DOMAIN blocks \subseteq 1..new /\ new \in 1..new
          BY <1>2
        <4>2. QED BY <3>1, <4>1, SeqMonotonic
      <3>4. QED BY <1>1, <3>1, <3>2, <3>3, AppendProperties DEF Top
    <2> HIDE DEF m
    <2> SUFFICES ASSUME NEW k \in 1..m, NEW b \in 1..new, NEW i \in DOMAIN blocks'[b],
                        blocks'[b][i].child_block = config_stack'[k + 1]
                 PROVE  b = config_stack'[k] /\ i = Len(blocks'[b])
      <3>1. (m + 1) - 1 = m
        BY <2>1
      <3>2. QED BY <1>1, <2>1, <3>1 DEF OnlyParents
    <2>2. b \in DOMAIN blocks
      BY <1>1, <1>3
    <2>3. CASE b = Top /\ i = n
      <3>1. k = m
        <4>1. SUFFICES ASSUME k # m
                       PROVE  FALSE
          OBVIOUS
        <4>2. k + 1 \in 1..m
          BY <2>1, <4>1
        <4>3. config_stack'[k + 1] \in DOMAIN blocks
          BY <2>1, <4>2 DEF m
        <4>4. QED BY <1>2, <2>3, <4>3
      <3>2. QED BY <1>2, <2>1, <2>3, <3>1
    <2>4. CASE ~(b = Top /\ i = n)
      <3>1. i \in DOMAIN blocks[b] /\ blocks'[b][i] = blocks[b][i]
        BY <1>1, <1>2, <1>3, <2>2, <2>4
      <3>2. blocks[b][i].child_block # new
        <4>1. \/ blocks[b][i].child_block = NullBlock
              \/ blocks[b][i].child_block \in (b + 1)..Len(blocks)
          BY <2>2, <3>1 DEF TreeInv, ChildrenFollow
        <4>2. new # 0 /\ new \notin (b + 1)..Len(blocks)
          BY <1>2, <1>3, <2>2
        <4>3. QED BY <4>1, <4>2 DEF NullBlock
      <3>3. k # m
        BY <2>1, <3>1, <3>2
      <3>4. k \in 1..(m - 1) /\ k \in 1..m /\ k + 1 \in 1..m
        BY <2>1, <3>3
      <3>5. blocks[b][i].child_block = config_stack[k + 1]
        BY <2>1, <3>1, <3>4
      <3>6. b = config_stack[k] /\ i = Len(blocks[b])
        BY <2>2, <3>1, <3>4, <3>5 DEF TreeInv, OnlyParents, m
      <3>7. b # Top
        BY <2>4, <3>6 DEF n
      <3>8. QED BY <1>1, <2>1, <2>2, <3>4, <3>6, <3>7
    <2>5. QED BY <2>3, <2>4
  <1>6. QED BY <1>4, <1>5

\* The tree keeps its shape when a block is closed.
LEMMA EndBlockTree ==
  ASSUME TreeInv, EndBlock
  PROVE  ChildrenFollow' /\ OnlyParents'
  <1> DEFINE n == Len(config_stack)
  <1>1. UNCHANGED blocks /\ config_stack # <<>> /\ config_stack' = Front(config_stack)
    BY DEF EndBlock
  <1>2. /\ config_stack \in Seq(DOMAIN blocks) /\ n \in Nat \ {0} /\ Len(config_stack') = n - 1
        /\ \A k \in 1..(n - 1) : config_stack'[k] = config_stack[k]
    <2>1. config_stack \in Seq(DOMAIN blocks)
      BY DEF TreeInv, ParserInv, ParserTypeOK
    <2>2. QED BY <1>1, <2>1, FrontIs, EmptySeq
  <1> HIDE DEF n
  <1>3. \A k \in 1..((n - 1) - 1) : k \in 1..(n - 1) /\ k + 1 \in 1..(n - 1)
    BY <1>2
  <1>4. OnlyParents'
    BY <1>1, <1>2, <1>3 DEF TreeInv, OnlyParents, n
  <1>5. QED BY <1>1, <1>4 DEF TreeInv, ChildrenFollow

\* No step breaks the tree.
LEMMA NextTreeInv ==
  ASSUME TreeInv, [Next]_vars
  PROVE  TreeInv'
  <1>1. CASE ParserNext
    <2>1. ParserInv'
      BY <1>1, ParserNextInv DEF TreeInv
    <2>2. CASE UNCHANGED <<Code, last_token_type, config_stack, blocks>>
      BY <2>1, <2>2 DEF TreeInv, CodeInv, ChildrenFollow, OnlyParents
    <2>3. ASSUME NEW word \in Words, Normal(word)
          PROVE  TreeInv'
      BY <2>1, <2>3, NormalTree, TokenRead DEF TreeInv, Normal, Tokens
    <2>4. CASE StatementEnd
      <3>1. CodeInv' /\ UNCHANGED <<config_stack, blocks>>
        BY <2>4, TokenRead DEF StatementEnd, Tokens, Punctuation
      <3>2. QED BY <2>1, <3>1 DEF TreeInv, ChildrenFollow, OnlyParents
    <2>5. CASE StartBlock
      BY <2>1, <2>5, StartBlockTree, TokenRead DEF TreeInv, StartBlock, Tokens, Punctuation
    <2>6. CASE EndBlock
      BY <2>1, <2>6, EndBlockTree, TokenRead DEF TreeInv, EndBlock, Tokens, Punctuation
    <2>7. ASSUME NEW lex \in Tokens, Reads(lex), UNCHANGED <<last_token_type, config_stack, blocks>>
          PROVE  TreeInv'
      <3>1. CodeInv'
        BY <2>7, TokenRead
      <3>2. QED BY <2>1, <2>7, <3>1 DEF TreeInv, ChildrenFollow, OnlyParents
    <2>8. QED BY <1>1, <2>2, <2>3, <2>4, <2>5, <2>6, <2>7, ParserSteps
  <1>2. CASE UNCHANGED parserVars
    <2>1. UNCHANGED <<text, ending, verdict, last_token_type, config_stack, blocks>>
      BY <1>2 DEF parserVars
    <2>2. Code' = Code
      BY <2>1, CodeStays
    <2>3. ParserInv'
      BY <2>1 DEF TreeInv, ParserInv, ParserTypeOK, StackIsPath, StackOrdered, WordHasBlock,
                  RootExists, Top
    <2>4. QED BY <2>1, <2>2, <2>3 DEF TreeInv, CodeInv, ChildrenFollow, OnlyParents
  <1>3. QED BY <1>1, <1>2, MainParses

\* The tree has its shape in every state.
LEMMA TreeInvariant == Spec => []TreeInv
  <1>1. Init => TreeInv
    <2> SUFFICES ASSUME Init
                 PROVE  TreeInv
      OBVIOUS
    <2>1. text = <<>> /\ config_stack = <<1>> /\ blocks = <<<<>>>>
      BY DEF Init, ParserInit
    <2>2. Code = <<>>
      BY <2>1, CodeIs, CodeOfNothing
    <2>3. CodeInv
      BY <2>2, EmptySeq DEF CodeInv
    <2>4. ChildrenFollow /\ OnlyParents
      BY <2>1 DEF ChildrenFollow, OnlyParents
    <2>5. QED BY <2>3, <2>4, ParserInitInv DEF TreeInv, Init
  <1>2. TreeInv /\ [Next]_vars => TreeInv'
    BY NextTreeInv
  <1>3. QED BY <1>1, <1>2, PTL DEF Spec

-----------------------------------------------------------------------------
(* get_port.                                                               *)

\* A block counts where it has a port.
IsPort(s) == Setting(s, "port")
HasPort(f, s) == s.child_block # NullBlock /\ f[s.child_block] # -1

Found(f, b) == {i \in DOMAIN blocks[b] : IsPort(blocks[b][i]) \/ HasPort(f, blocks[b][i])}

\* The port of block b, given those of the blocks below it.
PortStep(f, b) ==
  IF Found(f, b) = {} THEN -1
  ELSE IF IsPort(blocks[b][Min(Found(f, b))]) THEN port_number(blocks[b][Min(Found(f, b))].tokens[2])
  ELSE f[blocks[b][Min(Found(f, b))].child_block]

\* f gives the ports of the blocks from k on.
PortsFrom(k, f) == f = [b \in k..Len(blocks) |-> PortStep(f, b)]

\* get_port by that function.
LEMMA PortIs ==
  ASSUME blocks \in Seq(Seq(Statements))
  PROVE  get_port(blocks) = (CHOOSE f : PortsFrom(1, f))[1]
  <1>1. DOMAIN blocks = 1..Len(blocks)
    OBVIOUS
  <1>2. get_port(blocks) = (CHOOSE f : f = [b \in DOMAIN blocks |-> PortStep(f, b)])[1]
    BY DEF get_port, PortStep, Found, IsPort, HasPort
  <1>3. QED BY <1>1, <1>2 DEF PortsFrom

\* The first statement found is one of them.
LEMMA FirstFound ==
  ASSUME ParserInv, NEW f, NEW b \in DOMAIN blocks, Found(f, b) # {}
  PROVE  Min(Found(f, b)) \in Found(f, b)
  <1>1. Found(f, b) \in SUBSET Nat
    BY DEF Found, ParserInv, ParserTypeOK
  <1>2. \E x \in Found(f, b) : \A y \in Found(f, b) : x <= y
    BY <1>1, LeastNatural
  <1>3. QED BY <1>2 DEF Min

\* Only the blocks below a block decide on its port.
LEMMA PortStepAgrees ==
  ASSUME ParserInv, NEW f, NEW g, NEW b \in DOMAIN blocks,
         \A i \in DOMAIN blocks[b] :
           blocks[b][i].child_block # NullBlock => f[blocks[b][i].child_block] = g[blocks[b][i].child_block]
  PROVE  PortStep(f, b) = PortStep(g, b)
  <1>1. \A i \in DOMAIN blocks[b] : HasPort(f, blocks[b][i]) <=> HasPort(g, blocks[b][i])
    BY DEF HasPort
  <1>2. Found(f, b) = Found(g, b)
    BY <1>1 DEF Found
  <1>3. CASE Found(f, b) = {}
    BY <1>2, <1>3 DEF PortStep
  <1>4. CASE Found(f, b) # {}
    <2>1. PICK i \in DOMAIN blocks[b] :
            i = Min(Found(f, b)) /\ (IsPort(blocks[b][i]) \/ HasPort(f, blocks[b][i]))
      BY <1>4, FirstFound DEF Found
    <2>2. ~IsPort(blocks[b][i]) => f[blocks[b][i].child_block] = g[blocks[b][i].child_block]
      BY <2>1 DEF HasPort
    <2>3. QED BY <1>2, <1>4, <2>1, <2>2 DEF PortStep
  <1>5. QED BY <1>3, <1>4

\* The function that get_port is defined by exists.
LEMMA PortsExist ==
  ASSUME TreeInv
  PROVE  \E f : PortsFrom(1, f)
  <1>1. PICK n \in Nat : n = Len(blocks) /\ DOMAIN blocks = 1..n
    BY DEF TreeInv, ParserInv, ParserTypeOK
  <1> DEFINE bad == {d \in 0..n : ~ \E f : PortsFrom((n + 1) - d, f)}
  <1>2. bad = {}
    <2>1. SUFFICES ASSUME bad # {}
                   PROVE  FALSE
      OBVIOUS
    <2>2. PICK d \in bad : \A e \in bad : d <= e
      <3>1. bad \in SUBSET Nat
        OBVIOUS
      <3>2. QED BY <2>1, <3>1, LeastNatural
    <2>3. CASE d = 0
      <3> DEFINE f == [b \in (n + 1)..n |-> -1]
      <3>1. (n + 1) - 0 = n + 1 /\ (n + 1)..n = {}
        OBVIOUS
      <3>2. PortsFrom((n + 1) - 0, f)
        BY <1>1, <3>1 DEF PortsFrom
      <3>3. QED BY <2>2, <2>3, <3>2
    <2>4. CASE d # 0
      <3>1. d - 1 \in 0..n /\ d - 1 \notin bad
        <4>1. d \in 1..n
          BY <2>2, <2>4
        <4>2. d - 1 \in 0..n /\ ~(d <= d - 1)
          BY ONLY <4>1, n \in Nat
        <4>3. QED BY <2>2, <4>2
      <3>2. PICK k \in 1..n : k = (n + 1) - d /\ k + 1 = (n + 1) - (d - 1)
        BY <2>2, <2>4
      <3>3. PICK g : PortsFrom(k + 1, g)
        BY <3>1, <3>2
      <3> DEFINE f == [b \in k..n |-> IF b = k THEN PortStep(g, k) ELSE g[b]]
      <3>4. ASSUME NEW b \in k..n
            PROVE  f[b] = PortStep(f, b)
        <4>1. b \in DOMAIN blocks
          BY <1>1, <3>2
        <4>2. ASSUME NEW i \in DOMAIN blocks[b], blocks[b][i].child_block # NullBlock
              PROVE  f[blocks[b][i].child_block] = g[blocks[b][i].child_block]
          <5>1. blocks[b][i].child_block \in (b + 1)..n
            BY <1>1, <4>1, <4>2 DEF TreeInv, ChildrenFollow
          <5>2. blocks[b][i].child_block \in k..n /\ blocks[b][i].child_block # k
            BY <3>2, <5>1
          <5>3. QED BY <5>2
        <4> HIDE DEF f
        <4>3. PortStep(f, b) = PortStep(g, b)
          BY <4>1, <4>2, PortStepAgrees DEF TreeInv
        <4>4. f[b] = IF b = k THEN PortStep(g, k) ELSE g[b]
          BY DEF f
        <4>5. b # k => g[b] = PortStep(g, b)
          <5>1. b # k => b \in (k + 1)..n
            BY <3>2
          <5>2. QED BY <1>1, <3>3, <5>1 DEF PortsFrom
        <4>6. QED BY <4>3, <4>4, <4>5
      <3>5. f = [b \in k..n |-> f[b]]
        OBVIOUS
      <3> HIDE DEF f
      <3>6. PortsFrom(k, f)
        BY <1>1, <3>4, <3>5 DEF PortsFrom
      <3>7. QED BY <2>2, <3>2, <3>6
    <2>5. QED BY <2>3, <2>4
  <1>3. n \in 0..n /\ (n + 1) - n = 1
    OBVIOUS
  <1>4. QED BY <1>2, <1>3

\* get_port returns the number of a port directive, or -1.
LEMMA PortOf ==
  ASSUME TreeInv
  PROVE  /\ get_port(blocks) \in Int
         /\ \/ get_port(blocks) = -1
            \/ \E b \in DOMAIN blocks : \E i \in DOMAIN blocks[b] :
                 /\ IsPort(blocks[b][i])
                 /\ get_port(blocks) = port_number(blocks[b][i].tokens[2])
  <1> DEFINE Directive(p) == \E b \in DOMAIN blocks : \E i \in DOMAIN blocks[b] :
                               IsPort(blocks[b][i]) /\ p = port_number(blocks[b][i].tokens[2])
  <1>1. PICK n \in Nat : n = Len(blocks) /\ DOMAIN blocks = 1..n /\ 1 \in 1..n
    BY DEF TreeInv, ParserInv, ParserTypeOK, RootExists
  <1>2. PICK f : PortsFrom(1, f) /\ get_port(blocks) = f[1]
    BY PortIs, PortsExist DEF TreeInv, ParserInv, ParserTypeOK
  <1>3. \A b \in 1..n : f[b] = PortStep(f, b)
    BY <1>1, <1>2 DEF PortsFrom
  <1> DEFINE bad == {b \in 1..n : ~(f[b] = -1 \/ Directive(f[b]))}
  <1>4. bad = {}
    <2>1. SUFFICES ASSUME bad # {}
                   PROVE  FALSE
      OBVIOUS
    <2>2. PICK b \in bad : \A c \in bad : c <= b
      <3>1. bad \in SUBSET (0..n)
        OBVIOUS
      <3> HIDE DEF bad
      <3>2. QED BY <2>1, <3>1, GreatestNatural
    <2>3. b \in 1..n /\ f[b] # -1 /\ ~Directive(f[b])
      BY <2>2
    <2>4. Found(f, b) # {}
      BY <1>3, <2>3 DEF PortStep
    <2>5. PICK i \in DOMAIN blocks[b] :
            i = Min(Found(f, b)) /\ (IsPort(blocks[b][i]) \/ HasPort(f, blocks[b][i]))
      BY <1>1, <2>3, <2>4, FirstFound DEF Found, TreeInv
    <2>6. CASE IsPort(blocks[b][i])
      <3>1. f[b] = port_number(blocks[b][i].tokens[2])
        BY <1>3, <2>3, <2>4, <2>5, <2>6 DEF PortStep
      <3>2. Directive(f[b])
        BY <1>1, <2>3, <2>6, <3>1
      <3>3. QED BY <2>3, <3>2
    <2>7. CASE ~IsPort(blocks[b][i])
      <3>1. PICK c : c = blocks[b][i].child_block
        OBVIOUS
      <3>2. f[b] = f[c] /\ c # NullBlock
        BY <1>3, <2>3, <2>4, <2>5, <2>7, <3>1 DEF PortStep, HasPort
      <3>3. c \in (b + 1)..n
        BY <1>1, <2>3, <3>1, <3>2 DEF TreeInv, ChildrenFollow
      <3>4. c \in 1..n /\ ~(c <= b)
        BY <2>3, <3>3
      <3>5. c \notin bad
        BY <2>2, <3>4
      <3>6. QED BY <2>3, <3>2, <3>4, <3>5
    <2>8. QED BY <2>6, <2>7
  <1>5. f[1] = -1 \/ Directive(f[1])
    BY <1>1, <1>4
  <1>6. ASSUME NEW b \in DOMAIN blocks, NEW i \in DOMAIN blocks[b], IsPort(blocks[b][i])
        PROVE  port_number(blocks[b][i].tokens[2]) \in Int
    <2>1. blocks[b][i] \in Statements
      BY DEF TreeInv, ParserInv, ParserTypeOK
    <2>2. blocks[b][i].tokens \in Seq(Words) /\ Len(blocks[b][i].tokens) = 2
      BY <1>6, <2>1 DEF Statements, IsPort, Setting
    <2>4. QED BY StoiAssumption DEF port_number
  <1>7. QED BY <1>2, <1>5, <1>6

-----------------------------------------------------------------------------
(* Depth.                                                                  *)

\* How often a lexeme occurs grows with every occurrence.
LEMMA OccurrencesAppend ==
  ASSUME NEW S, NEW t \in Seq(S), NEW y \in S, NEW x
  PROVE  /\ Occurrences(t, x) \in Nat
         /\ Occurrences(Append(t, y), x) = IF y = x THEN Occurrences(t, x) + 1 ELSE Occurrences(t, x)
  <1> DEFINE at == {i \in DOMAIN t : t[i] = x}
             at2 == {i \in DOMAIN Append(t, y) : Append(t, y)[i] = x}
  <1>1. PICK n \in Nat : n = Len(t) /\ DOMAIN t = 1..n
    BY LenProperties
  <1>2. /\ DOMAIN Append(t, y) = 1..(n + 1) /\ Append(t, y)[n + 1] = y
        /\ \A i \in 1..n : Append(t, y)[i] = t[i]
    <2>1. Append(t, y) \in Seq(S) /\ Len(Append(t, y)) = n + 1
      BY <1>1, AppendProperties
    <2>2. QED BY <1>1, <2>1, AppendProperties, LenProperties
  <1>3. IsFiniteSet(at) /\ Cardinality(at) \in Nat /\ n + 1 \notin at
    <2>1. IsFiniteSet(1..n)
      BY FS_Interval
    <2>2. at \in SUBSET (1..n)
      BY <1>1
    <2>3. QED BY <2>1, <2>2, FS_Subset, FS_CardinalityType
  <1>4. \A i \in 1..(n + 1) : i = n + 1 \/ i \in 1..n
    OBVIOUS
  <1>5. CASE y = x
    <2>1. at2 = at \cup {n + 1}
      BY <1>1, <1>2, <1>4, <1>5
    <2>2. Cardinality(at2) = Cardinality(at) + 1
      BY <1>3, <2>1, FS_AddElement
    <2>3. QED BY <1>3, <1>5, <2>2 DEF Occurrences
  <1>6. CASE y # x
    <2>1. at2 = at
      BY <1>1, <1>2, <1>4, <1>6
    <2>2. QED BY <1>3, <1>6, <2>1 DEF Occurrences
  <1>7. QED BY <1>5, <1>6

\* A brace opens or closes one level.
LEMMA DepthAppend ==
  ASSUME NEW S, NEW t \in Seq(S), NEW y \in S
  PROVE  /\ Depth(t) \in Int
         /\ y = "{" => Depth(Append(t, y)) = Depth(t) + 1
         /\ y = "}" => Depth(Append(t, y)) = Depth(t) - 1
         /\ y \notin {"{", "}"} => Depth(Append(t, y)) = Depth(t)
  <1>1. PICK u, open, close : u = Append(t, y) /\ open = "{" /\ close = "}"
    OBVIOUS
  <1>2. /\ Occurrences(t, open) \in Nat /\ Occurrences(t, close) \in Nat
        /\ Occurrences(u, open) = IF y = open THEN Occurrences(t, open) + 1 ELSE Occurrences(t, open)
        /\ Occurrences(u, close) = IF y = close THEN Occurrences(t, close) + 1 ELSE Occurrences(t, close)
    <2>1. \A x : /\ Occurrences(t, x) \in Nat
                 /\ Occurrences(Append(t, y), x)
                      = IF y = x THEN Occurrences(t, x) + 1 ELSE Occurrences(t, x)
      BY OccurrencesAppend
    <2>2. QED BY <1>1, <2>1
  <1>3. Depth(t) = Occurrences(t, open) - Occurrences(t, close)
        /\ Depth(u) = Occurrences(u, open) - Occurrences(u, close)
    BY <1>1 DEF Depth
  <1>4. open # close
    BY <1>1
  <1>5. /\ Depth(t) \in Int
        /\ y = open => Depth(u) = Depth(t) + 1
        /\ y = close => Depth(u) = Depth(t) - 1
        /\ y \notin {open, close} => Depth(u) = Depth(t)
    BY <1>2, <1>3, <1>4
  <1>6. QED BY <1>1, <1>5

\* Nothing is open where nothing is.
LEMMA DepthNone == Depth(<<>>) = 0
  <1>1. \A x : {i \in DOMAIN <<>> : <<>>[i] = x} = {}
    OBVIOUS
  <1>2. \A x : Occurrences(<<>>, x) = 0
    BY <1>1, FS_EmptySet DEF Occurrences
  <1>3. PICK t, open, close : t = <<>> /\ open = "{" /\ close = "}"
    OBVIOUS
  <1>4. Occurrences(t, open) = 0 /\ Occurrences(t, close) = 0
    BY <1>2, <1>3
  <1>5. Depth(t) = Occurrences(t, open) - Occurrences(t, close)
    BY <1>3 DEF Depth
  <1>6. Depth(t) = 0
    BY <1>4, <1>5
  <1>7. QED BY <1>3, <1>6

\* What comes behind leaves the beginning alone.
LEMMA BeginningOfAppend ==
  ASSUME NEW S, NEW t \in Seq(S), NEW y \in S, NEW p \in 1..(Len(t) + 1)
  PROVE  SubSeq(Append(t, y), 1, p - 1) = SubSeq(t, 1, p - 1)
  <1>1. Append(t, y) = t \o <<y>> /\ <<y>> \in Seq(S)
    BY AppendIsConcat
  <1>2. CASE p = 1
    BY <1>2, SubSeqEmpty
  <1>3. CASE p # 1
    <2>1. 1 \in 1..Len(t) /\ p - 1 \in 1..Len(t)
      BY <1>3, LenProperties
    <2>2. QED BY <1>1, <2>1, SubSeqOfConcat1
  <1>4. QED BY <1>2, <1>3

-----------------------------------------------------------------------------
(* The statements of the tree stand in the text.                           *)

TokenType(lex) ==
  IF lex \in Words THEN "NORMAL"
  ELSE IF lex = ";" THEN "STATEMENT_END"
  ELSE IF lex = "{" THEN "START_BLOCK" ELSE "END_BLOCK"

LastTokenIs ==
  /\ Code = <<>> => last_token_type = "START"
  /\ Code # <<>> => last_token_type = TokenType(Code[Len(Code)])

DepthIs == Depth(Code) = Len(config_stack) - 1

\* A statement begins at position p.
BeginsAt(p) == p = 1 \/ Code[p - 1] \in Punctuation

StandsAt(tokens, p) ==
  /\ p \in 1..Len(Code) /\ p + Len(tokens) <= Len(Code) + 1
  /\ \A k \in 1..Len(tokens) : Code[(p + k) - 1] = tokens[k]

\* Words are still being added to the statement.
Open(b, i) == last_token_type = "NORMAL" /\ b = Top /\ i = Len(blocks[b])

\* What may follow the words of a statement.
AfterWords == {";", "{"}

\* The i-th statement of block b stands at position p.
Written(b, i, p) ==
  LET tokens == blocks[b][i].tokens
  IN /\ BeginsAt(p) /\ StandsAt(tokens, p)
     /\ Open(b, i) => p + Len(tokens) = Len(Code) + 1
     /\ ~Open(b, i) => p + Len(tokens) <= Len(Code) /\ Code[p + Len(tokens)] \in AfterWords
     /\ b = 1 => Depth(SubSeq(Code, 1, p - 1)) = 0

StatementsStand ==
  \A b \in DOMAIN blocks : \A i \in DOMAIN blocks[b] : \E p \in 1..Len(Code) : Written(b, i, p)

\* At the outermost level, every statement of the text is in the tree.
StatementsFound ==
  \A p \in 1..Len(Code) :
    /\ Code[p] \in Words /\ BeginsAt(p) /\ Depth(SubSeq(Code, 1, p - 1)) = 0
    => \E i \in DOMAIN blocks[1] : Written(1, i, p)

TextInv ==
  verdict \notin {"invalid", "undefined"} => LastTokenIs /\ DepthIs /\ StatementsStand /\ StatementsFound

\* A token that is appended to the code moves nothing in it.
LEMMA StandsStill ==
  ASSUME TreeInv, NEW lex \in Tokens, Reads(lex)
  PROVE  /\ \A p \in 1..(Len(Code) + 1) :
              /\ BeginsAt(p)' <=> BeginsAt(p)
              /\ SubSeq(Code', 1, p - 1) = SubSeq(Code, 1, p - 1)
         /\ \A p \in 1..Len(Code) : p \in 1..Len(Code') /\ Code'[p] = Code[p]
         /\ \A tokens \in Seq(Words) : \A p : StandsAt(tokens, p) => StandsAt(tokens, p)'
  <1>1. /\ Code \in Seq(Tokens) /\ Code' = Append(Code, lex) /\ Len(Code') = Len(Code) + 1
        /\ \A i \in 1..Len(Code) : Code'[i] = Code[i]
    BY TokenRead DEF TreeInv, CodeInv
  <1>2. PICK n \in Nat : n = Len(Code)
    BY <1>1, LenProperties
  <1>3. ASSUME NEW p \in 1..(n + 1)
        PROVE  /\ BeginsAt(p)' <=> BeginsAt(p)
               /\ SubSeq(Code', 1, p - 1) = SubSeq(Code, 1, p - 1)
    <2>1. p # 1 => p - 1 \in 1..n
      OBVIOUS
    <2>2. p # 1 => Code'[p - 1] = Code[p - 1]
      BY <1>1, <1>2, <2>1
    <2>3. QED BY <1>1, <1>2, <2>2, BeginningOfAppend DEF BeginsAt
  <1>4. ASSUME NEW p \in 1..n
        PROVE  p \in 1..Len(Code') /\ Code'[p] = Code[p]
    BY <1>1, <1>2
  <1>5. ASSUME NEW tokens \in Seq(Words), NEW p, StandsAt(tokens, p)
        PROVE  StandsAt(tokens, p)'
    <2>1. PICK m \in Nat : m = Len(tokens)
      BY LenProperties
    <2>2. p \in 1..n /\ p + m <= n + 1 /\ \A k \in 1..m : Code[(p + k) - 1] = tokens[k]
      BY <1>2, <1>5, <2>1 DEF StandsAt
    <2>3. \A k \in 1..m : (p + k) - 1 \in 1..n
      BY <2>2
    <2>4. p \in 1..(n + 1) /\ p + m <= (n + 1) + 1
      BY <2>2
    <2>5. QED BY <1>1, <1>2, <2>1, <2>2, <2>3, <2>4 DEF StandsAt
  <1>6. QED BY <1>2, <1>3, <1>4, <1>5

\* A statement of the tree, and its tokens.
LEMMA StatementIs ==
  ASSUME ParserInv, NEW b \in DOMAIN blocks, NEW i \in DOMAIN blocks[b]
  PROVE  blocks[b][i] \in Statements /\ blocks[b][i].tokens \in Seq(Words)
  <1>1. blocks[b] \in Seq(Statements)
    BY DEF ParserInv, ParserTypeOK
  <1>2. blocks[b][i] \in Statements
    BY <1>1, ElementOfSeq, LenProperties
  <1>3. QED BY <1>2 DEF Statements

\* A step leaves the tokens of a statement alone.
TokensStay(b, i) == blocks'[b][i].tokens = blocks[b][i].tokens

\* A step leaves the tokens of all statements alone, and adds none.
TreeStays ==
  /\ DOMAIN blocks \subseteq DOMAIN blocks'
  /\ \A b \in DOMAIN blocks' : b \notin DOMAIN blocks => blocks'[b] = <<>>
  /\ \A b \in DOMAIN blocks :
       /\ DOMAIN blocks'[b] = DOMAIN blocks[b]
       /\ \A i \in DOMAIN blocks[b] : TokensStay(b, i)

\* A statement still stands where it stood; if words were being added to it,
\* the token has ended it.
LEMMA WrittenStays ==
  ASSUME TreeInv, NEW lex \in Tokens, Reads(lex),
         NEW b \in DOMAIN blocks, NEW i \in DOMAIN blocks[b], NEW p \in 1..Len(Code), Written(b, i, p),
         TokensStay(b, i), ~Open(b, i)', Open(b, i) => lex \in AfterWords
  PROVE  Written(b, i, p)'
  <1>1. PICK tokens, m, n : tokens = blocks[b][i].tokens /\ m = Len(tokens) /\ n = Len(Code)
    OBVIOUS
  <1>2. tokens \in Seq(Words) /\ m \in Nat /\ n \in Nat
    <2>1. tokens \in Seq(Words)
      BY <1>1, StatementIs DEF TreeInv
    <2>2. QED BY <1>1, <2>1, LenProperties DEF TreeInv, CodeInv
  <1>3. /\ BeginsAt(p) /\ StandsAt(tokens, p) /\ p + m <= n + 1
        /\ Open(b, i) => p + m = n + 1
        /\ ~Open(b, i) => p + m <= n /\ Code[p + m] \in AfterWords
        /\ b = 1 => Depth(SubSeq(Code, 1, p - 1)) = 0
    BY <1>1 DEF Written, StandsAt, AfterWords
  <1>4. /\ BeginsAt(p)' /\ StandsAt(tokens, p)' /\ SubSeq(Code', 1, p - 1) = SubSeq(Code, 1, p - 1)
    <2>1. p \in 1..n
      BY <1>1
    <2>2. p \in 1..(n + 1)
      BY <1>2, <2>1
    <2>3. p \in 1..(Len(Code) + 1)
      BY <1>1, <2>2
    <2>4. QED BY <1>2, <1>3, <2>3, StandsStill
  <1>5. p + m <= n + 1 /\ Code'[p + m] \in AfterWords
    <2>1. CASE Open(b, i)
      BY <1>1, <1>3, <2>1, TokenRead
    <2>2. CASE ~Open(b, i)
      <3>1. p \in 1..n
        BY <1>1
      <3>2. p + m \in 1..n
        BY <1>2, <1>3, <2>2, <3>1
      <3>3. p + m \in 1..Len(Code)
        BY <1>1, <3>2
      <3>4. QED BY <1>3, <2>2, <3>3, TokenRead
    <2>3. QED BY <1>3, <2>1, <2>2
  <1>6. Len(Code') = n + 1
    BY <1>1, TokenRead
  <1>7. QED BY <1>1, <1>3, <1>4, <1>5, <1>6 DEF Written, TokensStay, AfterWords

\* A token that is no word ends what words were added to, and begins nothing.
LEMMA PunctuationKeeps ==
  ASSUME TreeInv, StatementsStand, StatementsFound,
         NEW lex \in Punctuation, Reads(lex), last_token_type' # "NORMAL",
         last_token_type = "NORMAL" => lex \in AfterWords, TreeStays
  PROVE  StatementsStand' /\ StatementsFound'
  <1>1. lex \in Tokens /\ lex \notin Words
    BY LexemesAssumption DEF Tokens
  <1>2. ASSUME NEW b \in DOMAIN blocks, NEW i \in DOMAIN blocks[b], NEW p \in 1..Len(Code), Written(b, i, p)
        PROVE  Written(b, i, p)'
    <2>1. ~Open(b, i)' /\ (Open(b, i) => lex \in AfterWords)
      BY DEF Open
    <2>2. TokensStay(b, i)
      BY DEF TreeStays
    <2>3. QED BY <1>1, <1>2, <2>1, <2>2, WrittenStays
  <1>3. PICK n \in Nat : n = Len(Code)
    BY LenProperties DEF TreeInv, CodeInv
  <1>4. /\ Len(Code') = n + 1 /\ Code'[n + 1] = lex
        /\ \A p \in 1..n : /\ Code'[p] = Code[p]
                           /\ BeginsAt(p)' <=> BeginsAt(p)
                           /\ SubSeq(Code', 1, p - 1) = SubSeq(Code, 1, p - 1)
    <2>1. \A p \in 1..n : p \in 1..(n + 1)
      OBVIOUS
    <2>2. QED BY <1>1, <1>3, <2>1, TokenRead, StandsStill
  <1>5. \A p \in 1..(n + 1) : p = n + 1 \/ p \in 1..n
    OBVIOUS
  <1>6. StatementsStand'
    <2> SUFFICES ASSUME NEW b \in DOMAIN blocks', NEW i \in DOMAIN blocks'[b]
                 PROVE  \E p \in 1..Len(Code') : Written(b, i, p)'
      BY DEF StatementsStand
    <2>1. b \in DOMAIN blocks
      <3>1. DOMAIN <<>> = {}
        OBVIOUS
      <3>2. QED BY <3>1 DEF TreeStays
    <2>2. i \in DOMAIN blocks[b]
      BY <2>1 DEF TreeStays
    <2>3. PICK p \in 1..n : Written(b, i, p)
      BY <1>3, <2>1, <2>2 DEF StatementsStand
    <2>4. p \in 1..(n + 1)
      OBVIOUS
    <2>5. QED BY <1>2, <1>3, <1>4, <2>1, <2>2, <2>3, <2>4
  <1>7. StatementsFound'
    <2> SUFFICES ASSUME NEW p \in 1..Len(Code'), Code'[p] \in Words, BeginsAt(p)',
                        Depth(SubSeq(Code', 1, p - 1)) = 0
                 PROVE  \E i \in DOMAIN blocks'[1] : Written(1, i, p)'
      BY DEF StatementsFound
    <2>1. p \in 1..n
      BY <1>1, <1>4, <1>5
    <2>2. PICK i \in DOMAIN blocks[1] : Written(1, i, p)
      BY <1>3, <1>4, <2>1 DEF StatementsFound
    <2>3. 1 \in DOMAIN blocks
      BY DEF TreeInv, ParserInv, RootExists
    <2>4. i \in DOMAIN blocks'[1] /\ Written(1, i, p)'
      BY <1>2, <1>3, <2>1, <2>2, <2>3 DEF TreeStays
    <2>5. QED BY <2>4
  <1>8. QED BY <1>6, <1>7

\* The root is on top of the stack where nothing is open.
LEMMA RootOnTop ==
  ASSUME ParserInv, config_stack # <<>>
  PROVE  Top = 1 <=> Len(config_stack) = 1
  <1>1. PICK n \in Nat \ {0} : n = Len(config_stack) /\ DOMAIN config_stack = 1..n
    BY DEF ParserInv, ParserTypeOK
  <1>2. config_stack[1] = 1 /\ Top = config_stack[n]
    BY <1>1 DEF ParserInv, StackIsPath, Top
  <1>3. n # 1 => config_stack[1] < config_stack[n]
    <2>1. n # 1 => 1 \in 1..n /\ n \in 1..n /\ 1 < n
      OBVIOUS
    <2>2. QED BY <1>1, <2>1 DEF ParserInv, StackOrdered
  <1>4. QED BY <1>1, <1>2, <1>3

\* The statement that a word begins stands at the end of the code.
LEMMA BegunStands ==
  ASSUME TreeInv, LastTokenIs, DepthIs, NEW word \in Words, Normal(word), last_token_type # "NORMAL",
         NEW b, b = Top, NEW i, i = Len(blocks[b]) + 1, NEW p, p = Len(Code) + 1
  PROVE  i \in DOMAIN blocks'[b] /\ p \in 1..Len(Code') /\ Written(b, i, p)'
  <1>1. PICK m \in Nat, n \in Nat : m = Len(blocks[b]) /\ n = Len(Code)
    <2>1. blocks[Top] \in Seq(Statements) /\ Code \in Seq(Tokens)
      BY NormalIs, TopIs DEF TreeInv, CodeInv
    <2>2. QED BY <2>1, LenProperties
  <1>2. /\ ParserInv /\ word \in Tokens /\ Reads(word) /\ config_stack # <<>> /\ Top' = b
        /\ last_token_type' = "NORMAL" /\ blocks'[b] \in Seq(Statements)
        /\ Extended(blocks[b], blocks'[b], Statement(<<word>>, NullBlock))
    BY NormalIs DEF TreeInv, Normal, Tokens
  <1>a. i = m + 1 /\ p = n + 1
    BY <1>1
  <1>3. Len(blocks'[b]) = i /\ blocks'[b][i].tokens = <<word>>
    BY <1>1, <1>2 DEF Extended, Statement
  <1>4. i \in DOMAIN blocks'[b]
    <2>1. DOMAIN blocks'[b] = 1..i
      BY <1>2, <1>3, LenProperties
    <2>2. QED BY <1>a, <2>1
  <1>5. Open(b, i)'
    BY <1>2, <1>3 DEF Open
  <1>6. /\ Code \in Seq(Tokens) /\ Len(Code') = p /\ Code'[p] = word
        /\ SubSeq(Code', 1, p - 1) = Code
    <2>1. Code \in Seq(Tokens) /\ Len(Code') = n + 1 /\ Code'[n + 1] = word
      BY <1>1, <1>2, TokenRead DEF TreeInv, CodeInv
    <2>2. n + 1 \in 1..(n + 1) /\ (n + 1) - 1 = n
      OBVIOUS
    <2>3. SubSeq(Code', 1, (n + 1) - 1) = SubSeq(Code, 1, (n + 1) - 1)
      BY <1>1, <1>2, <2>2, StandsStill
    <2>4. SubSeq(Code, 1, n) = Code
      BY <1>1, <2>1, SubSeqFull
    <2>5. QED BY <1>a, <2>1, <2>2, <2>3, <2>4
  <1>7. BeginsAt(p)'
    <2>1. p \in 1..(n + 1) /\ p - 1 = n
      BY <1>a
    <2>2. BeginsAt(p)
      <3>1. CASE Code = <<>>
        BY <1>1, <1>a, <3>1, EmptySeq DEF BeginsAt
      <3>2. CASE Code # <<>>
        <4>1. n \in 1..n
          BY <1>1, <1>6, <3>2, EmptySeq
        <4>2. Code[n] \in Tokens
          BY <1>1, <1>6, <4>1, ElementOfSeq
        <4>3. Code[n] \notin Words
          BY <1>1, <3>2 DEF LastTokenIs, TokenType
        <4>4. QED BY <2>1, <4>2, <4>3 DEF BeginsAt, Tokens
      <3>3. QED BY <3>1, <3>2
    <2>3. QED BY <1>1, <1>2, <2>1, <2>2, StandsStill
  <1>8. StandsAt(<<word>>, p)'
    <2>1. Len(<<word>>) = 1 /\ <<word>>[1] = word
      OBVIOUS
    <2>2. p \in 1..p /\ p + 1 <= p + 1 /\ \A k \in 1..1 : k = 1 /\ (p + k) - 1 = p
      BY <1>a
    <2> SUFFICES /\ p \in 1..Len(Code') /\ p + Len(<<word>>) <= Len(Code') + 1
                 /\ \A k \in 1..Len(<<word>>) : Code'[(p + k) - 1] = <<word>>[k]
      BY DEF StandsAt
    <2>3. QED BY <1>6, <2>1, <2>2
  <1>9. b = 1 => Depth(Code) = 0
    <2>1. b = 1 => Len(config_stack) = 1
      BY <1>2, RootOnTop
    <2>2. QED BY <2>1 DEF DepthIs
  <1>10. Written(b, i, p)'
    <2>1. Len(<<word>>) = 1
      OBVIOUS
    <2>2. p + Len(<<word>>) = Len(Code') + 1
      BY <1>6, <2>1
    <2>3. b = 1 => Depth(SubSeq(Code', 1, p - 1)) = 0
      BY <1>6, <1>9
    <2>4. QED BY <1>3, <1>5, <1>7, <1>8, <2>2, <2>3 DEF Written
  <1>11. QED BY <1>4, <1>6, <1>10, <1>a

\* The statement that a word is added to stands where it stood.
LEMMA ExtendedStands ==
  ASSUME TreeInv, NEW word \in Words, Normal(word), last_token_type = "NORMAL",
         NEW b, b = Top, NEW i, i = Len(blocks[b]), NEW p \in 1..Len(Code), Written(b, i, p)
  PROVE  Written(b, i, p)'
  <1>1. /\ ParserInv /\ word \in Tokens /\ Reads(word) /\ config_stack # <<>> /\ Top' = b
        /\ last_token_type' = "NORMAL" /\ b \in DOMAIN blocks
        /\ blocks[b] # <<>> /\ i \in DOMAIN blocks[b] /\ Last(blocks[b]) = blocks[b][i]
        /\ Changed(blocks[b], blocks'[b], Statement(Append(Last(blocks[b]).tokens, word), NullBlock))
    BY NormalIs, TopIs DEF TreeInv, Normal, Tokens
  <1>2. PICK tokens, new, m, n :
          /\ tokens = blocks[b][i].tokens /\ new = Append(tokens, word)
          /\ m = Len(tokens) /\ n = Len(Code)
    OBVIOUS
  <1>3. tokens \in Seq(Words) /\ m \in Nat /\ n \in Nat /\ Code \in Seq(Tokens)
    <2>1. tokens \in Seq(Words)
      BY <1>1, <1>2, StatementIs
    <2>2. QED BY <1>2, <2>1, LenProperties DEF TreeInv, CodeInv
  <1>4. /\ Len(blocks'[b]) = i /\ blocks'[b][i].tokens = new
    BY <1>1, <1>2 DEF Changed, Statement
  <1>5. Open(b, i) /\ Open(b, i)'
    BY <1>1, <1>4 DEF Open
  <1>6. BeginsAt(p) /\ StandsAt(tokens, p) /\ p + m = n + 1
        /\ (b = 1 => Depth(SubSeq(Code, 1, p - 1)) = 0)
    BY <1>2, <1>5 DEF Written
  <1>7. /\ Len(new) = m + 1 /\ new[m + 1] = word /\ \A k \in 1..m : new[k] = tokens[k]
    <2>1. tokens \in Seq(Words) /\ word \in Words /\ m = Len(tokens)
      BY <1>2, <1>3
    <2>2. QED BY ONLY <1>2, <2>1, AppendProperties
  <1>8. /\ Code' = Append(Code, word) /\ Len(Code') = n + 1 /\ Code'[n + 1] = word
        /\ \A k \in 1..n : Code'[k] = Code[k]
    BY <1>1, <1>2, TokenRead
  <1>9. BeginsAt(p)' /\ SubSeq(Code', 1, p - 1) = SubSeq(Code, 1, p - 1)
    <2>1. p \in 1..n
      BY <1>2
    <2>2. p \in 1..(n + 1)
      BY <1>3, <2>1
    <2>3. p \in 1..(Len(Code) + 1)
      BY <1>2, <2>2
    <2>4. QED BY <1>1, <1>6, <2>3, StandsStill
  <1>10. StandsAt(new, p)'
    <2>1. p \in 1..n /\ \A k \in 1..m : Code[(p + k) - 1] = tokens[k]
      BY <1>2, <1>6 DEF StandsAt
    <2>2. \A k \in 1..(m + 1) : (k = m + 1 /\ (p + k) - 1 = n + 1) \/ (k \in 1..m /\ (p + k) - 1 \in 1..n)
      BY <1>3, <1>6, <2>1
    <2>3. \A k \in 1..(m + 1) : Code'[(p + k) - 1] = new[k]
      BY <1>7, <1>8, <2>1, <2>2
    <2>4. p \in 1..(n + 1) /\ p + (m + 1) <= (n + 1) + 1
      BY <1>3, <1>6, <2>1
    <2> SUFFICES /\ p \in 1..Len(Code') /\ p + Len(new) <= Len(Code') + 1
                 /\ \A k \in 1..Len(new) : Code'[(p + k) - 1] = new[k]
      BY DEF StandsAt
    <2>5. QED BY <1>7, <1>8, <2>3, <2>4
  <1>11. p + Len(new) = Len(Code') + 1
    BY <1>3, <1>6, <1>7, <1>8
  <1>12. b = 1 => Depth(SubSeq(Code', 1, p - 1)) = 0
    BY <1>6, <1>9
  <1>13. QED BY <1>4, <1>5, <1>9, <1>10, <1>11, <1>12 DEF Written

\* Every statement still stands where it stood, when a word is read.
LEMMA NormalKeeps ==
  ASSUME TreeInv, NEW word \in Words, Normal(word),
         NEW b \in DOMAIN blocks, NEW i \in DOMAIN blocks[b], NEW p \in 1..Len(Code), Written(b, i, p)
  PROVE  i \in DOMAIN blocks'[b] /\ Written(b, i, p)'
  <1>1. /\ ParserInv /\ word \in Tokens /\ Reads(word) /\ config_stack # <<>> /\ Top' = Top
        /\ last_token_type' = "NORMAL" /\ Top \in DOMAIN blocks
        /\ blocks[Top] \in Seq(Statements) /\ blocks'[Top] \in Seq(Statements)
        /\ \A c \in DOMAIN blocks : c # Top => blocks'[c] = blocks[c]
    BY NormalIs, TopIs DEF TreeInv, Normal, Tokens
  <1>2. PICK m \in Nat : m = Len(blocks[Top])
    BY <1>1, LenProperties
  <1>3. CASE b # Top
    <2>1. ~Open(b, i) /\ ~Open(b, i)' /\ TokensStay(b, i) /\ i \in DOMAIN blocks'[b]
      BY <1>1, <1>3 DEF Open, TokensStay
    <2>2. QED BY <1>1, <2>1, WrittenStays
  <1>4. CASE b = Top /\ last_token_type # "NORMAL"
    <2>1. /\ Len(blocks'[b]) = m + 1 /\ \A j \in 1..m : blocks'[b][j] = blocks[b][j]
      BY <1>2, <1>4, NormalIs DEF TreeInv, Extended
    <2>2. i \in 1..m /\ i \in 1..(m + 1) /\ i # m + 1
      BY <1>1, <1>2, <1>4, LenProperties
    <2>3. DOMAIN blocks'[b] = 1..(m + 1)
      BY <1>1, <1>4, <2>1, LenProperties
    <2>4. ~Open(b, i) /\ ~Open(b, i)' /\ TokensStay(b, i) /\ i \in DOMAIN blocks'[b]
      BY <1>1, <1>4, <2>1, <2>2, <2>3 DEF Open, TokensStay
    <2>5. QED BY <1>1, <2>4, WrittenStays
  <1>5. CASE b = Top /\ last_token_type = "NORMAL"
    <2>1. /\ Len(blocks'[b]) = m /\ \A j \in 1..(m - 1) : blocks'[b][j] = blocks[b][j]
      BY <1>2, <1>5, NormalIs DEF TreeInv, Changed
    <2>2. DOMAIN blocks'[b] = 1..m /\ i \in 1..m
      BY <1>1, <1>2, <1>5, <2>1, LenProperties
    <2>3. CASE i = m
      BY <1>2, <1>5, <2>2, <2>3, ExtendedStands
    <2>4. CASE i # m
      <3>1. i \in 1..(m - 1)
        BY <2>2, <2>4
      <3>2. ~Open(b, i) /\ ~Open(b, i)' /\ TokensStay(b, i)
        BY <1>1, <1>2, <1>5, <2>1, <2>4, <3>1 DEF Open, TokensStay
      <3>3. QED BY <1>1, <2>2, <3>2, WrittenStays
    <2>5. QED BY <2>3, <2>4
  <1>6. QED BY <1>3, <1>4, <1>5

\* The statements and the text agree after a word.
LEMMA NormalText ==
  ASSUME TreeInv, LastTokenIs, DepthIs, StatementsStand, StatementsFound, NEW word \in Words, Normal(word)
  PROVE  StatementsStand' /\ StatementsFound'
  <1>1. /\ ParserInv /\ word \in Tokens /\ Reads(word) /\ config_stack # <<>>
        /\ Top \in DOMAIN blocks /\ DOMAIN blocks' = DOMAIN blocks
        /\ blocks[Top] \in Seq(Statements) /\ blocks'[Top] \in Seq(Statements)
        /\ \A c \in DOMAIN blocks : c # Top => blocks'[c] = blocks[c]
    BY NormalIs, TopIs DEF TreeInv, Normal, Tokens
  <1>2. PICK m \in Nat, n \in Nat : m = Len(blocks[Top]) /\ n = Len(Code)
    <2>1. Code \in Seq(Tokens)
      BY DEF TreeInv, CodeInv
    <2>2. QED BY <1>1, <2>1, LenProperties
  <1>3. /\ Len(Code') = n + 1
        /\ \A p \in 1..(n + 1) : p = n + 1 \/ p \in 1..n
        /\ \A p \in 1..n : p \in 1..(n + 1)
        /\ (n + 1) - 1 = n
    BY <1>1, <1>2, TokenRead
  <1>4. StatementsStand'
    <2> SUFFICES ASSUME NEW b \in DOMAIN blocks, NEW i \in DOMAIN blocks'[b]
                 PROVE  \E p \in 1..(n + 1) : Written(b, i, p)'
      BY <1>1, <1>3 DEF StatementsStand
    <2>1. CASE i \in DOMAIN blocks[b]
      <3>1. PICK p \in 1..n : Written(b, i, p)
        BY <1>2, <2>1 DEF StatementsStand
      <3>2. Written(b, i, p)'
        BY <1>2, <2>1, <3>1, NormalKeeps
      <3>3. QED BY <1>3, <3>1, <3>2
    <2>2. CASE i \notin DOMAIN blocks[b]
      <3>1. b = Top
        BY <1>1, <2>2
      <3>2. DOMAIN blocks[b] = 1..m
        BY <1>1, <1>2, <3>1, LenProperties
      <3>3. last_token_type # "NORMAL"
        <4>1. SUFFICES ASSUME last_token_type = "NORMAL" PROVE FALSE
          OBVIOUS
        <4>2. Len(blocks'[b]) = m
          BY <1>2, <3>1, <4>1, NormalIs DEF TreeInv, Changed
        <4>3. DOMAIN blocks'[b] = 1..m
          BY <1>1, <3>1, <4>2, LenProperties
        <4>4. QED BY <2>2, <3>2, <4>3
      <3>4. i = m + 1
        <4>1. Len(blocks'[b]) = m + 1
          BY <1>2, <3>1, <3>3, NormalIs DEF TreeInv, Extended
        <4>2. DOMAIN blocks'[b] = 1..(m + 1)
          BY <1>1, <3>1, <4>1, LenProperties
        <4>3. QED BY <2>2, <3>2, <4>2
      <3>5. PICK p : p = Len(Code) + 1
        OBVIOUS
      <3>6. i = Len(blocks[b]) + 1
        BY <1>2, <3>1, <3>4
      <3>7. p \in 1..Len(Code') /\ Written(b, i, p)'
        BY <3>1, <3>3, <3>5, <3>6, BegunStands
      <3>8. QED BY <1>3, <3>7
    <2>3. QED BY <2>1, <2>2
  <1>5. StatementsFound'
    <2> SUFFICES ASSUME NEW p \in 1..(n + 1), Code'[p] \in Words, BeginsAt(p)',
                        Depth(SubSeq(Code', 1, p - 1)) = 0
                 PROVE  \E i \in DOMAIN blocks'[1] : Written(1, i, p)'
      BY <1>3 DEF StatementsFound
    <2>1. BeginsAt(p) /\ SubSeq(Code', 1, p - 1) = SubSeq(Code, 1, p - 1)
      BY <1>1, <1>2, StandsStill
    <2>2. CASE p \in 1..n
      <3>1. Code'[p] = Code[p]
        BY <1>1, <1>2, <2>2, TokenRead
      <3>2. PICK i \in DOMAIN blocks[1] : Written(1, i, p)
        BY <1>2, <2>1, <2>2, <3>1 DEF StatementsFound
      <3>3. 1 \in DOMAIN blocks
        BY <1>1 DEF ParserInv, RootExists
      <3>4. i \in DOMAIN blocks'[1] /\ Written(1, i, p)'
        BY <1>2, <2>2, <3>2, <3>3, NormalKeeps
      <3>5. QED BY <3>4
    <2>3. CASE p = n + 1
      <3>1. SubSeq(Code, 1, p - 1) = Code
        <4>1. Code \in Seq(Tokens) /\ p - 1 = n
          BY <1>3, <2>3 DEF TreeInv, CodeInv
        <4>2. QED BY <1>2, <4>1, SubSeqFull
      <3>2. Depth(Code) = 0
        BY <2>1, <3>1
      <3>3. Len(config_stack) - 1 = 0 /\ Len(config_stack) \in Nat
        <4>1. config_stack \in Seq(DOMAIN blocks)
          BY <1>1 DEF ParserInv, ParserTypeOK
        <4>2. Len(config_stack) - 1 = 0
          BY ONLY DepthIs, <3>2 DEF DepthIs
        <4>3. QED BY <4>1, <4>2, LenProperties
      <3>4. Top = 1
        BY <1>1, <3>3, RootOnTop
      <3>5. last_token_type # "NORMAL"
        <4>1. SUFFICES ASSUME last_token_type = "NORMAL" PROVE FALSE
          OBVIOUS
        <4>2. Code # <<>>
          BY <4>1 DEF LastTokenIs
        <4>3. Code[n] \in Words
          BY <1>2, <4>1, <4>2 DEF LastTokenIs, TokenType
        <4>4. n # 0
          BY <1>2, <4>2, EmptySeq DEF TreeInv, CodeInv
        <4>5. Code[n] \in Punctuation
          BY <1>3, <2>1, <2>3, <4>4 DEF BeginsAt
        <4>6. QED BY <4>3, <4>5, LexemesAssumption
      <3>6. PICK b, i : b = 1 /\ i = Len(blocks[b]) + 1
        OBVIOUS
      <3>7. i \in DOMAIN blocks'[b] /\ Written(b, i, p)'
        BY <1>2, <2>3, <3>4, <3>5, <3>6, BegunStands
      <3>8. QED BY <3>6, <3>7
    <2>4. QED BY <1>3, <2>2, <2>3
  <1>6. QED BY <1>4, <1>5

\* The type of the last token is kept.
LEMMA KeepsLastToken ==
  ASSUME TreeInv, NEW lex \in Tokens, Reads(lex), last_token_type' = TokenType(lex)
  PROVE  LastTokenIs'
  <1>1. Code \in Seq(Tokens) /\ Code' = Append(Code, lex) /\ Code'[Len(Code')] = lex
    <2>1. /\ Code' = Append(Code, lex)
          /\ Len(Code') = Len(Code) + 1 /\ Code'[Len(Code) + 1] = lex
      BY TokenRead
    <2>2. QED BY <2>1 DEF TreeInv, CodeInv
  <1>2. Code' # <<>>
    BY <1>1, AppendProperties
  <1>3. QED BY <1>1, <1>2 DEF LastTokenIs

\* The type of each token.
LEMMA TypesOfTokens ==
  /\ \A word \in Words : word \in Tokens /\ TokenType(word) = "NORMAL" /\ word \notin {"{", "}"}
  /\ ";" \in Tokens /\ ";" \in Punctuation /\ TokenType(";") = "STATEMENT_END" /\ ";" \notin {"{", "}"}
  /\ "{" \in Tokens /\ "{" \in Punctuation /\ TokenType("{") = "START_BLOCK"
  /\ "}" \in Tokens /\ "}" \in Punctuation /\ TokenType("}") = "END_BLOCK"
  BY LexemesAssumption DEF Tokens, TokenType, Punctuation

\* A word.
LEMMA NormalTextInv ==
  ASSUME TreeInv, LastTokenIs, DepthIs, StatementsStand, StatementsFound, NEW word \in Words, Normal(word)
  PROVE  LastTokenIs' /\ DepthIs' /\ StatementsStand' /\ StatementsFound'
  <1>1. word \in Tokens /\ Reads(word) /\ last_token_type' = TokenType(word) /\ UNCHANGED config_stack
    BY TypesOfTokens DEF Normal
  <1>2. Code \in Seq(Tokens) /\ Code' = Append(Code, word) /\ word \notin {"{", "}"}
    BY <1>1, TokenRead, TypesOfTokens DEF TreeInv, CodeInv
  <1>3. Depth(Code') = Depth(Code)
    BY ONLY <1>1, <1>2, DepthAppend
  <1>4. DepthIs'
    BY <1>1, <1>3 DEF DepthIs
  <1>5. QED BY <1>1, <1>4, KeepsLastToken, NormalText

\* A semicolon.
LEMMA StatementEndTextInv ==
  ASSUME TreeInv, LastTokenIs, DepthIs, StatementsStand, StatementsFound, StatementEnd
  PROVE  LastTokenIs' /\ DepthIs' /\ StatementsStand' /\ StatementsFound'
  <1>1. PICK lex : lex = ";"
    OBVIOUS
  <1>2. /\ lex \in Tokens /\ lex \in Punctuation /\ Reads(lex) /\ last_token_type' = TokenType(lex)
        /\ UNCHANGED <<config_stack, blocks>> /\ last_token_type' # "NORMAL" /\ lex \notin {"{", "}"}
    BY <1>1, TypesOfTokens DEF StatementEnd
  <1>3. Code \in Seq(Tokens) /\ Code' = Append(Code, lex)
    BY <1>2, TokenRead DEF TreeInv, CodeInv
  <1>4. Depth(Code') = Depth(Code)
    BY ONLY <1>2, <1>3, DepthAppend
  <1>5. DepthIs'
    BY <1>2, <1>4 DEF DepthIs
  <1>6. TreeStays /\ lex \in AfterWords
    BY <1>1, <1>2 DEF TreeStays, TokensStay, AfterWords
  <1>7. QED BY <1>2, <1>5, <1>6, KeepsLastToken, PunctuationKeeps

\* An opening brace.
LEMMA StartBlockTextInv ==
  ASSUME TreeInv, LastTokenIs, DepthIs, StatementsStand, StatementsFound, StartBlock
  PROVE  LastTokenIs' /\ DepthIs' /\ StatementsStand' /\ StatementsFound'
  <1>1. PICK lex : lex = "{"
    OBVIOUS
  <1>2. /\ lex \in Tokens /\ lex \in Punctuation /\ Reads(lex) /\ last_token_type' = TokenType(lex)
        /\ last_token_type' # "NORMAL" /\ last_token_type = "NORMAL"
    BY <1>1, TypesOfTokens DEF StartBlock
  <1>3. PICK n \in Nat, k \in Nat : n = Len(blocks) /\ k = Len(config_stack)
    BY LenProperties DEF TreeInv, ParserInv, ParserTypeOK
  <1>4. /\ ParserInv /\ config_stack # <<>> /\ config_stack' = Append(config_stack, n + 1)
        /\ DOMAIN blocks' = 1..(n + 1) /\ blocks'[n + 1] = <<>>
        /\ \A b \in DOMAIN blocks : b # Top => blocks'[b] = blocks[b]
        /\ blocks'[Top] \in Seq(Statements)
        /\ Changed(blocks[Top], blocks'[Top], Statement(Last(blocks[Top]).tokens, n + 1))
    BY <1>3, StartBlockIs DEF TreeInv
  <1>5. Depth(Code') = Depth(Code) + 1 /\ Depth(Code) \in Int
    <2>1. Code \in Seq(Tokens) /\ Code' = Append(Code, lex)
      BY <1>2, TokenRead DEF TreeInv, CodeInv
    <2>2. QED BY ONLY <1>1, <1>2, <2>1, DepthAppend
  <1>6. Len(config_stack') = k + 1
    <2>1. config_stack \in Seq(Nat) /\ n + 1 \in Nat
      BY <1>4 DEF ParserInv, ParserTypeOK
    <2>2. QED BY ONLY <1>3, <1>4, <2>1, AppendProperties
  <1>7. DepthIs'
    <2>1. Depth(Code) = k - 1
      BY ONLY DepthIs, <1>3 DEF DepthIs
    <2>2. Depth(Code') = (k + 1) - 1
      BY ONLY <1>3, <1>5, <2>1
    <2>3. QED BY <1>6, <2>2 DEF DepthIs
  <1>8. TreeStays
    <2>1. DOMAIN blocks \subseteq DOMAIN blocks'
          /\ \A b \in DOMAIN blocks' : b \notin DOMAIN blocks => blocks'[b] = <<>>
      <3>1. DOMAIN blocks = 1..n
        BY <1>3, LenProperties DEF TreeInv, ParserInv, ParserTypeOK
      <3>2. \A b \in 1..(n + 1) : b \in 1..n \/ b = n + 1
        OBVIOUS
      <3>3. \A b \in 1..n : b \in 1..(n + 1)
        OBVIOUS
      <3>4. QED BY <1>4, <3>1, <3>2, <3>3
    <2>2. ASSUME NEW b \in DOMAIN blocks
          PROVE  DOMAIN blocks'[b] = DOMAIN blocks[b] /\ \A i \in DOMAIN blocks[b] : TokensStay(b, i)
      <3>1. CASE b # Top
        BY <1>4, <3>1 DEF TokensStay
      <3>2. CASE b = Top
        <4>1. PICK m \in Nat : m = Len(blocks[b]) /\ DOMAIN blocks[b] = 1..m
          BY <1>4, <3>2, TopIs
        <4>2. /\ Len(blocks'[b]) = m /\ \A i \in 1..(m - 1) : blocks'[b][i] = blocks[b][i]
              /\ blocks'[b][m].tokens = blocks[b][m].tokens
          BY <1>2, <1>4, <3>2, <4>1, TopIs DEF Changed, Statement
        <4>3. DOMAIN blocks'[b] = 1..m
          BY <1>4, <3>2, <4>2, LenProperties
        <4>4. \A i \in 1..m : i = m \/ i \in 1..(m - 1)
          OBVIOUS
        <4>5. QED BY <4>1, <4>2, <4>3, <4>4 DEF TokensStay
      <3>3. QED BY <3>1, <3>2
    <2>3. QED BY <2>1, <2>2 DEF TreeStays
  <1>9. lex \in AfterWords
    BY <1>1 DEF AfterWords
  <1>10. QED BY <1>2, <1>7, <1>8, <1>9, KeepsLastToken, PunctuationKeeps

\* A closing brace.
LEMMA EndBlockTextInv ==
  ASSUME TreeInv, LastTokenIs, DepthIs, StatementsStand, StatementsFound, EndBlock
  PROVE  LastTokenIs' /\ DepthIs' /\ StatementsStand' /\ StatementsFound'
  <1>1. PICK lex : lex = "}"
    OBVIOUS
  <1>2. /\ lex \in Tokens /\ lex \in Punctuation /\ Reads(lex) /\ last_token_type' = TokenType(lex)
        /\ last_token_type' # "NORMAL" /\ last_token_type # "NORMAL"
        /\ UNCHANGED blocks /\ config_stack # <<>> /\ config_stack' = Front(config_stack)
    BY <1>1, TypesOfTokens DEF EndBlock, BeforeEndBlock
  <1>3. PICK k \in Nat : k = Len(config_stack) /\ Len(config_stack') = k - 1
    <2>1. config_stack \in Seq(DOMAIN blocks)
      BY DEF TreeInv, ParserInv, ParserTypeOK
    <2>2. QED BY <1>2, <2>1, FrontIs, LenProperties
  <1>4. Depth(Code') = Depth(Code) - 1 /\ Depth(Code) \in Int
    <2>1. Code \in Seq(Tokens) /\ Code' = Append(Code, lex)
      BY <1>2, TokenRead DEF TreeInv, CodeInv
    <2>2. QED BY ONLY <1>1, <1>2, <2>1, DepthAppend
  <1>5. DepthIs'
    <2>1. Depth(Code) = k - 1
      BY ONLY DepthIs, <1>3 DEF DepthIs
    <2>2. Depth(Code') = (k - 1) - 1
      BY ONLY <1>3, <1>4, <2>1
    <2>3. QED BY <1>3, <2>2 DEF DepthIs
  <1>6. TreeStays
    BY <1>2 DEF TreeStays, TokensStay
  <1>7. QED BY <1>2, <1>5, <1>6, KeepsLastToken, PunctuationKeeps

\* The parser only steps while it reads.
LEMMA OnlyReading == ParserNext => verdict = "reading"
  BY DEF ParserNext, Comment, Normal, StatementEnd, StartBlock, EndBlock, EmptyStack, Unexpected,
         EndOfFile, Reads

\* Where nothing changes, the text and the tree agree as before.
LEMMA TextStays ==
  ASSUME UNCHANGED <<Code, last_token_type, config_stack, blocks>>,
         LastTokenIs, DepthIs, StatementsStand, StatementsFound
  PROVE  LastTokenIs' /\ DepthIs' /\ StatementsStand' /\ StatementsFound'
  <1>1. Top' = Top
    BY DEF Top
  <1>2. \A b, i, p : Written(b, i, p)' <=> Written(b, i, p)
    BY <1>1 DEF Written, BeginsAt, StandsAt, Open
  <1>3. \A p : BeginsAt(p)' <=> BeginsAt(p)
    BY DEF BeginsAt
  <1>4. LastTokenIs' /\ DepthIs'
    BY DEF LastTokenIs, DepthIs
  <1>5. StatementsStand'
    BY <1>2 DEF StatementsStand
  <1>6. StatementsFound'
    BY <1>2, <1>3 DEF StatementsFound
  <1>7. QED BY <1>4, <1>5, <1>6

\* No step parts the tree from its text.
LEMMA NextTextInv ==
  ASSUME TreeInv, TextInv, [Next]_vars
  PROVE  TextInv'
  <1>1. CASE ParserNext
    <2>1. LastTokenIs /\ DepthIs /\ StatementsStand /\ StatementsFound
      BY <1>1, OnlyReading DEF TextInv
    <2>2. \/ verdict' \in {"invalid", "undefined"}
          \/ LastTokenIs' /\ DepthIs' /\ StatementsStand' /\ StatementsFound'
      BY <1>1, <2>1, ParserSteps, TextStays, NormalTextInv, StatementEndTextInv, StartBlockTextInv,
         EndBlockTextInv
    <2>3. QED BY <2>2 DEF TextInv
  <1>2. CASE UNCHANGED parserVars
    <2>1. UNCHANGED <<Code, verdict, last_token_type, config_stack, blocks>>
      BY <1>2, CodeStays DEF parserVars
    <2>2. QED BY <2>1, TextStays DEF TextInv
  <1>3. QED BY <1>1, <1>2, MainParses

\* The tree and the text agree in every state.
LEMMA TextInvariant == Spec => []TextInv
  <1>1. Init => TextInv
    <2> SUFFICES ASSUME Init
                 PROVE  LastTokenIs /\ DepthIs /\ StatementsStand /\ StatementsFound
      BY DEF TextInv
    <2>1. text = <<>> /\ last_token_type = "START" /\ config_stack = <<1>> /\ blocks = <<<<>>>>
      BY DEF Init, ParserInit
    <2>2. Code = <<>>
      BY <2>1, CodeIs, CodeOfNothing
    <2>3. LastTokenIs
      BY <2>1, <2>2 DEF LastTokenIs
    <2>4. DepthIs
      <3>1. Len(config_stack) - 1 = 0
        BY <2>1
      <3>2. QED BY <2>2, <3>1, DepthNone DEF DepthIs
    <2>5. StatementsStand
      BY <2>1 DEF StatementsStand
    <2>6. StatementsFound
      <3>1. Len(Code) = 0
        BY <2>2
      <3>2. QED BY <3>1 DEF StatementsFound
    <2>7. QED BY <2>3, <2>4, <2>5, <2>6
  <1>2. TreeInv /\ TextInv /\ [Next]_vars => TextInv'
    BY NextTextInv
  <1>3. QED BY <1>1, <1>2, TreeInvariant, PTL DEF Spec

-----------------------------------------------------------------------------
(* What main makes of a valid text: the port.                              *)

\* The phases after the parser was done with a valid text, and those after
\* the port was read.
Accepted == {"port", "bind", "dispatcher", "serve"}
PortRead == {"bind", "dispatcher", "serve"}

\* What the phases have in common.
MainTypeOK == phase \in Phases /\ port \in {NoPort} \cup PortNumbers

\* A text is valid only where its last statement is complete and no block is
\* left open.
ValidEnds ==
  verdict = "valid" => last_token_type \in {"STATEMENT_END", "END_BLOCK"} /\ Len(config_stack) = 1

OnlyValid == phase \in Accepted => verdict = "valid"

PortGiven == get_port(blocks) # -1 /\ port = get_port(blocks) % 65536

PortKept == phase \in PortRead => PortGiven

MainInv == MainTypeOK /\ ValidEnds /\ OnlyValid /\ PortKept

\* The parser ends with a valid text only at the end of the file.
LEMMA ValidAtTheEnd ==
  ASSUME ParserNext
  PROVE  ValidEnds'
  <1>1. SUFFICES ASSUME verdict' = "valid"
                 PROVE  last_token_type' \in {"STATEMENT_END", "END_BLOCK"} /\ Len(config_stack') = 1
    BY DEF ValidEnds
  <1>2. verdict = "reading"
    BY OnlyReading
  <1>3. \E how \in Endings : EndOfFile(how)
    BY <1>1, <1>2 DEF ParserNext, Comment, Normal, StatementEnd, StartBlock, EndBlock, EmptyStack,
                      Unexpected, Returns
  <1>4. QED BY <1>1, <1>3 DEF EndOfFile, Returns

\* The numbers of ports are those of 16 bits.
LEMMA PortNumbersAre == \A q : q \in PortNumbers <=> q \in Int /\ 0 <= q /\ q <= 65535
  <1>1. USHRT_MAX \in Nat /\ USHRT_MAX <= 65535 /\ 65535 <= USHRT_MAX
    BY DEF USHRT_MAX
  <1>2. QED BY ONLY <1>1 DEF PortNumbers

\* The port is the number that is read, narrowed to 16 bits.
LEMMA ReadsPort ==
  ASSUME TreeInv, MainTypeOK, ReadPort
  PROVE  /\ phase = "port" /\ phase' \in {"bind", "exited"} /\ MainTypeOK'
         /\ phase' = "bind" => PortGiven'
  <1>1. PICK p : p = get_port(blocks)
    OBVIOUS
  <1>2. /\ phase = "port" /\ UNCHANGED blocks
        /\ \/ phase' = "exited" /\ port' = port
           \/ phase' = "bind" /\ p # -1 /\ port' = p % 65536
    BY <1>1 DEF ReadPort, Exit, parserVars
  <1>3. p % 65536 \in PortNumbers
    <2>1. p \in Int
      BY <1>1, PortOf
    <2>2. p % 65536 \in Int /\ 0 <= p % 65536 /\ p % 65536 <= 65535
      BY ONLY <2>1
    <2>3. QED BY ONLY <2>2, PortNumbersAre
  <1>4. phase' \in Phases
    BY ONLY <1>2 DEF Phases
  <1>5. port' \in {NoPort} \cup PortNumbers
    BY ONLY <1>2, <1>3, MainTypeOK DEF MainTypeOK
  <1>6. get_port(blocks)' = p
    BY <1>1, <1>2
  <1>7. phase' = "bind" => PortGiven'
    <2>1. "bind" # "exited"
      OBVIOUS
    <2>2. QED BY ONLY <1>2, <1>6, <2>1 DEF PortGiven
  <1>8. QED BY <1>2, <1>4, <1>5, <1>7 DEF MainTypeOK

\* From what phase to what phase each other step leads.
LEMMA PhaseSteps ==
  ASSUME [Next]_vars, ~Parse, ~ReadPort
  PROVE  /\ UNCHANGED <<parserVars, port>>
         /\ \/ phase' = phase
            \/ phase = "parse" /\ verdict = "valid" /\ phase' = "port"
            \/ phase = "bind" /\ phase' = "dispatcher"
            \/ phase = "dispatcher" /\ phase' = "serve"
            \/ phase' \in {"exited", "crashed"}
  BY DEF Next, Parsed, Bind, MakeDispatcher, Serve, Ended, vars, Exit

\* The steps of main keep to its phases.
LEMMA NextMainInv ==
  ASSUME TreeInv, MainInv, [Next]_vars
  PROVE  MainInv'
  <1>0. MainTypeOK /\ ValidEnds /\ OnlyValid /\ PortKept
    BY DEF MainInv
  <1>1. CASE Parse
    <2>1. phase = "parse" /\ phase' \in {"parse", "crashed"} /\ port' = port /\ ParserNext
      BY <1>1 DEF Parse
    <2>2. phase' \in Phases /\ phase' \notin Accepted /\ phase' \notin PortRead
      BY ONLY <2>1 DEF Phases, Accepted, PortRead
    <2>3. port' \in {NoPort} \cup PortNumbers
      BY ONLY <1>0, <2>1 DEF MainTypeOK
    <2>4. ValidEnds'
      BY <2>1, ValidAtTheEnd
    <2>5. QED BY ONLY <2>2, <2>3, <2>4 DEF MainInv, MainTypeOK, OnlyValid, PortKept
  <1>2. CASE ReadPort
    <2>1. /\ phase = "port" /\ phase' \in {"bind", "exited"} /\ MainTypeOK'
          /\ phase' = "bind" => PortGiven'
      BY <1>0, <1>2, ReadsPort
    <2>2. UNCHANGED <<verdict, last_token_type, config_stack>>
      BY <1>2 DEF ReadPort, parserVars
    <2>3. ValidEnds' /\ verdict' = "valid"
      BY ONLY <1>0, <2>1, <2>2 DEF ValidEnds, OnlyValid, Accepted
    <2>4. PortKept'
      BY ONLY <2>1 DEF PortKept, PortRead
    <2>5. QED BY ONLY <2>1, <2>3, <2>4 DEF MainInv, OnlyValid
  <1>3. CASE ~Parse /\ ~ReadPort
    <2>1. /\ UNCHANGED <<verdict, last_token_type, config_stack, blocks, port>>
          /\ \/ phase' = phase
             \/ phase = "parse" /\ verdict = "valid" /\ phase' = "port"
             \/ phase = "bind" /\ phase' = "dispatcher"
             \/ phase = "dispatcher" /\ phase' = "serve"
             \/ phase' \in {"exited", "crashed"}
      BY <1>3, PhaseSteps DEF parserVars
    <2>2. /\ phase \in Phases => phase' \in Phases
          /\ phase' \in Accepted => phase \in Accepted \/ verdict = "valid"
          /\ phase' \in PortRead => phase \in PortRead
      BY ONLY <2>1 DEF Phases, Accepted, PortRead
    <2>3. MainTypeOK'
      BY ONLY <1>0, <2>1, <2>2 DEF MainTypeOK
    <2>4. ValidEnds' /\ OnlyValid'
      BY ONLY <1>0, <2>1, <2>2 DEF ValidEnds, OnlyValid
    <2>5. PortGiven' <=> PortGiven
      BY ONLY <2>1 DEF PortGiven
    <2>6. PortKept'
      BY ONLY <1>0, <2>2, <2>5 DEF PortKept
    <2>7. QED BY ONLY <2>3, <2>4, <2>6 DEF MainInv
  <1>4. QED BY <1>1, <1>2, <1>3

\* main keeps to its phases in every state.
LEMMA MainInvariant == Spec => []MainInv
  <1>1. Init => MainInv
    BY DEF Init, ParserInit, MainInv, MainTypeOK, ValidEnds, OnlyValid, PortKept, Phases, Accepted, PortRead
  <1>2. TreeInv /\ MainInv /\ [Next]_vars => MainInv'
    BY NextMainInv
  <1>3. QED BY <1>1, <1>2, TreeInvariant, PTL DEF Spec

\* A statement of a valid text is complete.
LEMMA ValidStatement ==
  ASSUME TreeInv, TextInv, MainInv, verdict = "valid",
         NEW b \in DOMAIN blocks, NEW i \in DOMAIN blocks[b], NEW p \in 1..Len(Code), Written(b, i, p)
  PROVE  LET tokens == blocks[b][i].tokens
         IN /\ tokens \in Seq(Words) /\ BeginsAt(p)
            /\ p + Len(tokens) <= Len(Code) /\ Code[p + Len(tokens)] \in AfterWords
            /\ \A k \in 1..Len(tokens) : Code[(p + k) - 1] = tokens[k]
            /\ b = 1 => Depth(SubSeq(Code, 1, p - 1)) = 0
  <1>1. ~Open(b, i)
    BY DEF MainInv, ValidEnds, Open
  <1>2. blocks[b][i].tokens \in Seq(Words)
    BY StatementIs DEF TreeInv
  <1>3. PICK tokens : tokens = blocks[b][i].tokens
    OBVIOUS
  <1>4. /\ BeginsAt(p) /\ (b = 1 => Depth(SubSeq(Code, 1, p - 1)) = 0)
        /\ StandsAt(tokens, p)
        /\ p + Len(tokens) <= Len(Code) /\ Code[p + Len(tokens)] \in AfterWords
    BY ONLY <1>1, <1>3, Written(b, i, p) DEF Written
  <1>5. \A k \in 1..Len(tokens) : Code[(p + k) - 1] = tokens[k]
    BY ONLY <1>4 DEF StandsAt
  <1>6. QED BY <1>2, <1>3, <1>4, <1>5

\* The acceptor listens on the number of a port directive of the text, if it
\* is a port number at all: NginxConfig::get_port, main and Server.
THEOREM MainPortIsConfigured == Spec => []PortIsConfigured
  <1>1. TreeInv /\ TextInv /\ MainInv => PortIsConfigured
    <2> DEFINE Directive(i) == /\ Code[i] = "port"
                               /\ Code[i + 2] \in {";", "{"}
                               /\ i = 1 \/ Code[i - 1] \in Punctuation
                               /\ port_number(Code[i + 1]) \in PortNumbers => port = stoi[Code[i + 1]]
    <2> SUFFICES ASSUME TreeInv, TextInv, MainInv, phase \in PortRead
                 PROVE  \E i \in 1..(Len(Code) - 2) : Directive(i)
      BY Zenon DEF PortIsConfigured, PortRead
    <2>1. verdict = "valid" /\ get_port(blocks) # -1 /\ port = get_port(blocks) % 65536
      BY DEF MainInv, OnlyValid, PortKept, PortGiven, PortRead, Accepted
    <2>a. PICK b \in DOMAIN blocks : \E i \in DOMAIN blocks[b] :
            IsPort(blocks[b][i]) /\ get_port(blocks) = port_number(blocks[b][i].tokens[2])
      BY <2>1, PortOf
    <2>2. PICK i \in DOMAIN blocks[b] :
            IsPort(blocks[b][i]) /\ get_port(blocks) = port_number(blocks[b][i].tokens[2])
      BY <2>a
    <2>3. PICK p \in 1..Len(Code) : Written(b, i, p)
      BY <2>1 DEF TextInv, StatementsStand
    <2>4. PICK tokens, n : tokens = blocks[b][i].tokens /\ n = Len(Code)
      OBVIOUS
    <2>5. /\ BeginsAt(p) /\ p + Len(tokens) <= n /\ Code[p + Len(tokens)] \in AfterWords
          /\ \A k \in 1..Len(tokens) : Code[(p + k) - 1] = tokens[k]
      BY <2>1, <2>3, <2>4, ValidStatement
    <2>6. Len(tokens) = 2 /\ tokens[1] = "port" /\ n \in Nat
      BY <2>2, <2>4, LenProperties DEF IsPort, Setting, TreeInv, CodeInv
    <2>7. p \in 1..n
      BY <2>4
    <2>8. p + 2 <= n /\ Code[p + 2] \in AfterWords /\ Code[p] = tokens[1] /\ Code[p + 1] = tokens[2]
      <3>1. 1 \in 1..2 /\ 2 \in 1..2 /\ (p + 1) - 1 = p /\ (p + 2) - 1 = p + 1
        BY <2>7
      <3>2. QED BY <2>5, <2>6, <3>1
    <2>9. p \in 1..(n - 2)
      BY <2>6, <2>7, <2>8
    <2>10. ASSUME NEW q \in PortNumbers
           PROVE  q % 65536 = q
      <3>1. q \in Int /\ 0 <= q /\ q <= 65535
        BY PortNumbersAre
      <3>2. QED BY ONLY <3>1
    <2>11. port_number(Code[p + 1]) \in PortNumbers => port = stoi[Code[p + 1]]
      <3>1. port_number(Code[p + 1]) \in PortNumbers => port = port_number(Code[p + 1])
        BY <2>1, <2>2, <2>4, <2>8, <2>10
      <3>2. -1 \notin PortNumbers
        BY PortNumbersAre
      <3>3. QED BY <3>1, <3>2 DEF port_number
    <2>12. p = 1 \/ Code[p - 1] \in Punctuation
      BY <2>5 DEF BeginsAt
    <2>13. Code[p] = "port" /\ Code[p + 2] \in {";", "{"}
      <3>1. Code[p] = "port"
        BY ONLY <2>6, <2>8
      <3>2. Code[p + 2] \in {";", "{"}
        BY ONLY <2>8, Zenon DEF AfterWords
      <3>3. QED BY <3>1, <3>2, Zenon
    <2>14. Directive(p)
      BY <2>11, <2>12, <2>13, Zenon
    <2> HIDE DEF Directive
    <2>15. QED BY <2>4, <2>9, <2>14
  <1>2. QED BY <1>1, TreeInvariant, TextInvariant, MainInvariant, PTL

-----------------------------------------------------------------------------
(* What main makes of a valid text: the routes.                            *)

\* The location that a statement stands for.
LocationOf(s) ==
  [path |-> spelling[s.tokens[2]], handler |-> s.tokens[3], args |-> RootArgs(blocks, s)]

Locations == get_locations(blocks).locations

\* get_locations found nothing to refuse.
LocationsValid == get_locations(blocks).outcome = "valid"

\* What the locations of a valid configuration are made of.
LEMMA ValidLocations ==
  ASSUME ParserInv, LocationsValid
  PROVE  /\ \A i \in DOMAIN blocks[1] : LocationOutcome(blocks, i) \notin {"refused", "undefined"}
         /\ \A l : l \in Locations <=>
              \E i \in DOMAIN blocks[1] : IsLocation(blocks[1][i]) /\ l = LocationOf(blocks[1][i])
  <1> DEFINE bad == {i \in DOMAIN blocks[1] : LocationOutcome(blocks, i) \in {"refused", "undefined"}}
             made == {blocks[1][i] : i \in {j \in DOMAIN blocks[1] : IsLocation(blocks[1][j])}}
             loc(s) == [path |-> spelling[s.tokens[2]], handler |-> s.tokens[3],
                        args |-> RootArgs(blocks, s)]
  <1>1. \/ bad = {} /\ get_locations(blocks) = [outcome |-> "valid", locations |-> {loc(s) : s \in made}]
        \/ bad # {} /\ get_locations(blocks) = [outcome |-> LocationOutcome(blocks, Min(bad)), locations |-> {}]
    BY DEF get_locations
  <1>2. bad = {}
    <2>1. SUFFICES ASSUME bad # {}
                   PROVE  FALSE
      OBVIOUS
    <2>2. LocationOutcome(blocks, Min(bad)) = "valid"
      BY <1>1, <2>1 DEF LocationsValid
    <2>3. bad \in SUBSET Nat
      <3>1. blocks[1] \in Seq(Statements)
        BY DEF ParserInv, ParserTypeOK, RootExists
      <3>2. DOMAIN blocks[1] \subseteq Nat
        BY <3>1, LenProperties
      <3>3. QED BY <3>2
    <2>4. Min(bad) \in bad
      <3> HIDE DEF bad
      <3>1. PICK i \in bad : \A j \in bad : i <= j
        BY <2>1, <2>3, LeastNatural
      <3>2. QED BY <3>1 DEF Min
    <2>5. QED BY <2>2, <2>4
  <1>3. Locations = {loc(s) : s \in made}
    BY <1>1, <1>2 DEF Locations
  <1>4. \A s : loc(s) = LocationOf(s)
    BY DEF LocationOf
  <1>5. \A l : l \in Locations <=>
          \E i \in DOMAIN blocks[1] : IsLocation(blocks[1][i]) /\ l = LocationOf(blocks[1][i])
    <2> HIDE DEF loc
    <2>1. QED BY <1>3, <1>4
  <1>6. QED BY <1>2, <1>5

\* A location that is not refused has a path and a handler, and another path
\* than those before it.
LEMMA LocationHas ==
  ASSUME ParserInv, LocationsValid, NEW i \in DOMAIN blocks[1], IsLocation(blocks[1][i])
  PROVE  LET s == blocks[1][i]
         IN /\ s \in Statements /\ s.tokens \in Seq(Words) /\ Len(s.tokens) = 3
            /\ s.tokens[2] \in Words /\ s.tokens[3] \in Words
            /\ create_from_config(blocks, s) \notin {"refused", "undefined"}
            /\ \A j \in 1..(i - 1) :
                 IsLocation(blocks[1][j]) => spelling[blocks[1][j].tokens[2]] # spelling[s.tokens[2]]
  <1> DEFINE s == blocks[1][i]
             taken == \E j \in 1..(i - 1) :
                        /\ IsLocation(blocks[1][j])
                        /\ spelling[blocks[1][j].tokens[2]] = spelling[s.tokens[2]]
  <1>1. LocationOutcome(blocks, i) \notin {"refused", "undefined"}
    BY ValidLocations
  <1>2. s \in Statements /\ s.tokens \in Seq(Words)
    BY StatementIs DEF ParserInv, RootExists
  <1>3. Len(s.tokens) = 3 /\ ~taken /\ create_from_config(blocks, s) \notin {"refused", "undefined"}
    <2>1. Len(s.tokens) = 3 /\ ~taken /\ LocationOutcome(blocks, i) = create_from_config(blocks, s)
      BY <1>1 DEF LocationOutcome
    <2>2. QED BY <1>1, <2>1
  <1>4. s.tokens[2] \in Words /\ s.tokens[3] \in Words
    BY <1>2, <1>3, ElementOfSeq
  <1>5. QED BY <1>2, <1>3, <1>4

\* No two locations have the same path.
LEMMA OnePath ==
  ASSUME ParserInv, LocationsValid, NEW l \in Locations, NEW k \in Locations, l.path = k.path
  PROVE  l = k
  <1>1. PICK i \in DOMAIN blocks[1] : IsLocation(blocks[1][i]) /\ l = LocationOf(blocks[1][i])
    BY ValidLocations
  <1>2. PICK j \in DOMAIN blocks[1] : IsLocation(blocks[1][j]) /\ k = LocationOf(blocks[1][j])
    BY ValidLocations
  <1>3. spelling[blocks[1][i].tokens[2]] = spelling[blocks[1][j].tokens[2]]
    BY <1>1, <1>2 DEF LocationOf
  <1>4. PICK m \in Nat : DOMAIN blocks[1] = 1..m
    BY LenProperties DEF ParserInv, ParserTypeOK, RootExists
  <1>5. i = j \/ i \in 1..(j - 1) \/ j \in 1..(i - 1)
    BY <1>4
  <1>6. i \notin 1..(j - 1) /\ j \notin 1..(i - 1)
    BY <1>1, <1>2, <1>3, LocationHas
  <1>7. QED BY <1>1, <1>2, <1>5, <1>6

\* While requests are served, every location has its route.
LocationsServed ==
  phase = "serve" =>
    /\ LocationsValid
    /\ \A l \in Locations :
         l.path \in DOMAIN routes /\ routes[l.path] = [handler |-> l.handler, args |-> l.args]

\* The dispatcher is made from the locations.
LEMMA MakesLocations ==
  ASSUME ParserInv, MakeDispatcher
  PROVE  LocationsServed'
  <1> SUFFICES ASSUME phase' = "serve"
               PROVE  /\ LocationsValid'
                      /\ \A l \in Locations' : /\ l.path \in DOMAIN routes'
                                               /\ routes'[l.path] = [handler |-> l.handler, args |-> l.args]
    BY DEF LocationsServed
  <1>1. LocationsValid /\ AddRoutes(Locations) /\ UNCHANGED blocks
    BY DEF MakeDispatcher, Exit, LocationsValid, Locations, parserVars
  <1>2. LocationsValid' /\ Locations' = Locations
    BY <1>1 DEF LocationsValid, Locations
  <1>3. ASSUME NEW l \in Locations
        PROVE  /\ l.path \in DOMAIN routes'
               /\ routes'[l.path] = [handler |-> l.handler, args |-> l.args]
    <2>1. PICK k : k = CHOOSE x \in Locations : x.path = l.path
      OBVIOUS
    <2>2. k \in Locations /\ k.path = l.path
      BY <2>1
    <2>3. k = l
      BY <1>1, <2>2, OnePath
    <2>4. l.path \in {x.path : x \in Locations}
      OBVIOUS
    <2>5. QED BY <1>1, <2>1, <2>3, <2>4 DEF AddRoutes
  <1>4. QED BY <1>2, <1>3

\* A request takes no route away.
LEMMA RoutesGrow ==
  ASSUME Serve, NEW path \in DOMAIN routes
  PROVE  path \in DOMAIN routes' /\ routes'[path] = routes[path]
  <1>1. CASE UNCHANGED routes
    BY <1>1
  <1>2. CASE \E w \in Workers : InsertRoute(w)
    BY <1>2 DEF InsertRoute
  <1>3. QED BY <1>1, <1>2 DEF Serve, StaticNext, DispatchStep, GetHandler, Match, LookupRoute, UseRoute,
            StaticCheck, StaticOpen, Answers, Echo, Health, NotFound, Blocking, OtherHandler, DiskChanges,
            dispatchVars

\* The locations keep their routes.
LEMMA NextLocationsServed ==
  ASSUME ParserInv, LocationsServed, [Next]_vars
  PROVE  LocationsServed'
  <1>1. CASE Serve
    <2>1. phase = "serve" /\ UNCHANGED blocks
      BY <1>1 DEF Serve, parserVars
    <2>2. LocationsValid' = LocationsValid /\ Locations' = Locations
      BY <2>1 DEF LocationsValid, Locations
    <2>3. QED BY <1>1, <2>1, <2>2, RoutesGrow DEF LocationsServed
  <1>2. CASE MakeDispatcher
    BY <1>2, MakesLocations
  <1>3. CASE UNCHANGED vars
    <2>1. UNCHANGED <<phase, blocks, routes>>
      BY <1>3 DEF vars, parserVars, staticVars, dispatchVars
    <2>2. QED BY <2>1 DEF LocationsServed, LocationsValid, Locations
  <1>4. CASE Parse \/ Parsed \/ ReadPort \/ Bind
    <2>1. phase' # "serve"
      BY <1>4 DEF Parse, Parsed, ReadPort, Bind, Exit
    <2>2. QED BY <2>1 DEF LocationsServed
  <1>5. QED BY <1>1, <1>2, <1>3, <1>4 DEF Next, Ended

\* While requests are served, every location has its route, in every behaviour.
LEMMA LocationsInvariant == Spec => []LocationsServed
  <1>1. Init => LocationsServed
    BY DEF Init, LocationsServed
  <1>2. ParserInv /\ LocationsServed /\ [Next]_vars => LocationsServed'
    BY NextLocationsServed
  <1>3. QED BY <1>1, <1>2, ParserInvariant, PTL DEF Spec

\* The statement that begins at a position of the outermost level.
Starts ==
  {i \in DOMAIN Code : /\ Code[i] = "location"
                       /\ Depth(SubSeq(Code, 1, i - 1)) = 0
                       /\ i = 1 \/ Code[i - 1] \in Punctuation}

\* A location stands in the text where it says so.
LEMMA LocationStands ==
  ASSUME TreeInv, TextInv, MainInv, verdict = "valid", LocationsValid,
         NEW i \in DOMAIN blocks[1], IsLocation(blocks[1][i]), NEW p \in 1..Len(Code), Written(1, i, p)
  PROVE  /\ p \in Starts
         /\ Code[p + 1] = blocks[1][i].tokens[2] /\ Code[p + 2] = blocks[1][i].tokens[3]
  <1>1. 1 \in DOMAIN blocks /\ ParserInv
    BY DEF TreeInv, ParserInv, RootExists
  <1>2. PICK b, tokens : b = 1 /\ tokens = blocks[b][i].tokens
    OBVIOUS
  <1>3. /\ tokens \in Seq(Words) /\ BeginsAt(p) /\ Depth(SubSeq(Code, 1, p - 1)) = 0
        /\ \A k \in 1..Len(tokens) : Code[(p + k) - 1] = tokens[k]
    BY <1>1, <1>2, ValidStatement
  <1>4. Len(tokens) = 3 /\ tokens[1] = "location"
    BY <1>1, <1>2, LocationHas DEF IsLocation
  <1>5. /\ 1 \in 1..3 /\ 2 \in 1..3 /\ 3 \in 1..3
        /\ (p + 1) - 1 = p /\ (p + 2) - 1 = p + 1 /\ (p + 3) - 1 = p + 2
    OBVIOUS
  <1>6. Code[p] = tokens[1] /\ Code[p + 1] = tokens[2] /\ Code[p + 2] = tokens[3]
    BY <1>3, <1>4, <1>5
  <1>7. p \in DOMAIN Code
    BY LenProperties DEF TreeInv, CodeInv
  <1>8. QED BY <1>2, <1>3, <1>4, <1>6, <1>7 DEF Starts, BeginsAt

\* Where the text says so, there is a location.
LEMMA StartIsLocation ==
  ASSUME TreeInv, TextInv, MainInv, verdict = "valid", NEW p \in Starts
  PROVE  \E i \in DOMAIN blocks[1] : IsLocation(blocks[1][i]) /\ p \in 1..Len(Code) /\ Written(1, i, p)
  <1>1. p \in 1..Len(Code) /\ Code \in Seq(Tokens)
    BY LenProperties DEF Starts, TreeInv, CodeInv
  <1>2. /\ Code[p] = "location" /\ BeginsAt(p) /\ Depth(SubSeq(Code, 1, p - 1)) = 0
    BY DEF Starts, BeginsAt
  <1>3. Code[p] \in Words
    <2>1. Code[p] \in Tokens
      BY <1>1, ElementOfSeq
    <2>2. Code[p] \notin Punctuation
      BY <1>2 DEF Punctuation
    <2>3. QED BY <2>1, <2>2 DEF Tokens
  <1>4. PICK i \in DOMAIN blocks[1] : Written(1, i, p)
    BY <1>1, <1>2, <1>3 DEF TextInv, StatementsFound
  <1>5. IsLocation(blocks[1][i])
    <2>1. 1 \in DOMAIN blocks /\ blocks[1][i].tokens # <<>>
      BY DEF TreeInv, ParserInv, RootExists, ChildrenFollow
    <2>2. PICK b, tokens : b = 1 /\ tokens = blocks[b][i].tokens
      OBVIOUS
    <2>3. tokens \in Seq(Words) /\ \A k \in 1..Len(tokens) : Code[(p + k) - 1] = tokens[k]
      BY <1>1, <1>4, <2>1, <2>2, ValidStatement
    <2>4. 1 \in 1..Len(tokens) /\ (p + 1) - 1 = p
      BY <1>1, <2>1, <2>2, <2>3, EmptySeq
    <2>5. tokens[1] = "location"
      BY <1>2, <2>3, <2>4
    <2>6. QED BY <2>2, <2>5 DEF IsLocation
  <1>6. QED BY <1>1, <1>4, <1>5

\* The text of the configuration decides what is served: a location at the
\* outermost level gets its route and nothing else does.
THEOREM MainRoutesAreLocations == Spec => []RoutesAreLocations
  <1>1. ASSUME TreeInv, TextInv, MainInv, LocationsServed, ServeInv
        PROVE  RoutesAreLocations
    <2> DEFINE routed == {<<path, routes[path].handler>> : path \in {q \in DOMAIN routes : routes[q] # NullRoute}}
               said == {<<spelling[Code[i + 1]], Code[i + 2]>> : i \in Starts}
    <2> SUFFICES ASSUME phase = "serve"
                 PROVE  routed = said
      BY Zenon DEF RoutesAreLocations, Starts
    <2>1. /\ verdict = "valid" /\ ParserInv /\ LocationsValid /\ RoutesInv
          /\ 1 \in DOMAIN blocks
          /\ \A l \in Locations :
               l.path \in DOMAIN routes /\ routes[l.path] = [handler |-> l.handler, args |-> l.args]
      BY <1>1 DEF MainInv, OnlyValid, Accepted, TreeInv, ParserInv, RootExists, LocationsServed, ServeInv
    <2>2. ASSUME NEW path \in DOMAIN routes, routes[path] # NullRoute
          PROVE  <<path, routes[path].handler>> \in said
      <3>1. path \in Configured
        BY <2>1, <2>2 DEF RoutesInv
      <3>2. PICK l \in Locations : l.path = path
        BY <3>1 DEF Configured, Locations
      <3>3. PICK i \in DOMAIN blocks[1] : IsLocation(blocks[1][i]) /\ l = LocationOf(blocks[1][i])
        BY <2>1, ValidLocations
      <3>4. /\ path = spelling[blocks[1][i].tokens[2]]
            /\ routes[path].handler = blocks[1][i].tokens[3]
        <4>1. /\ l.path = spelling[blocks[1][i].tokens[2]]
              /\ l.handler = blocks[1][i].tokens[3]
          BY ONLY <3>3 DEF LocationOf
        <4>2. routes[path] = [handler |-> l.handler, args |-> l.args]
          BY <2>1, <3>2
        <4>3. routes[path].handler = l.handler
          BY ONLY <4>2
        <4>4. QED BY ONLY <3>2, <4>1, <4>3
      <3>5. PICK p \in 1..Len(Code) : Written(1, i, p)
        BY <1>1, <2>1 DEF TextInv, StatementsStand
      <3>6. /\ p \in Starts
            /\ Code[p + 1] = blocks[1][i].tokens[2] /\ Code[p + 2] = blocks[1][i].tokens[3]
        BY <1>1, <2>1, <3>3, <3>5, LocationStands
      <3>7. QED BY <3>4, <3>6
    <2>3. ASSUME NEW p \in Starts
          PROVE  <<spelling[Code[p + 1]], Code[p + 2]>> \in routed
      <3>1. PICK i \in DOMAIN blocks[1] :
              IsLocation(blocks[1][i]) /\ p \in 1..Len(Code) /\ Written(1, i, p)
        BY <1>1, <2>1, StartIsLocation
      <3>2. /\ Code[p + 1] = blocks[1][i].tokens[2] /\ Code[p + 2] = blocks[1][i].tokens[3]
        BY <1>1, <2>1, <3>1, LocationStands
      <3>3. PICK l \in Locations : l = LocationOf(blocks[1][i])
        BY <2>1, <3>1, ValidLocations
      <3>4. /\ l.path = spelling[Code[p + 1]] /\ l.handler = Code[p + 2]
        BY <3>2, <3>3 DEF LocationOf
      <3>5. l.path \in DOMAIN routes /\ routes[l.path].handler = l.handler
        <4>1. l.path \in DOMAIN routes /\ routes[l.path] = [handler |-> l.handler, args |-> l.args]
          BY <2>1
        <4>2. QED BY ONLY <4>1
      <3>6. routes[l.path] # NullRoute
        <4>1. l.path \in Configured
          BY DEF Configured, Locations
        <4>2. QED BY <2>1, <4>1 DEF RoutesInv
      <3>7. QED BY <3>4, <3>5, <3>6
    <2>4. QED BY <2>2, <2>3
  <1>2. DispatchInv => ServeInv
    BY DEF DispatchInv
  <1>3. QED BY <1>1, <1>2, TreeInvariant, TextInvariant, MainInvariant, LocationsInvariant,
               DispatchInvariant, PTL

-----------------------------------------------------------------------------
(* The handlers, and the files that change under them.                     *)

\* The worker is with a handler, or has its answer.
Answered(w) == pc[w] = "idle" /\ reply[w].status # 0
Routed(w) == pc[w] \in {"handler", "open"} \/ Answered(w)

IsStatic(w) == Kind[routes[location[w]].handler] = "static"

\* What the answer says was so while the request was served.
Truthful(w) ==
  IF reply[w].status = 404
    THEN seen[w] \cap {Absent, Directory} # {}
    ELSE /\ \/ reply[w].body \in seen[w]
            \/ reply[w].body = Empty /\ seen[w] \cap {Absent, Directory, Unreadable, Inaccessible} # {}
         /\ reply[w].type = get_file_content_type(w)

HandlerInv(w) ==
  /\ reply[w].status \in {0, 1, 200, 404}
  /\ Routed(w) => location[w] \in DOMAIN routes /\ routes[location[w]] # NullRoute
  /\ pc[w] = "open" => IsStatic(w) /\ At(generate_file_path(w)) \in seen[w]
  /\ Answered(w) /\ IsStatic(w) => Truthful(w)

\* The root of a static route is a canonical path.
StaticRoots ==
  \A path \in DOMAIN routes :
    routes[path] # NullRoute /\ Kind[routes[path].handler] = "static" =>
      routes[path].args \in Seq(STRING)

FilesInv ==
  /\ disk \in [Paths -> FileStates]
  /\ seen = [w \in Workers |-> seen[w]]
  /\ StaticRoots
  /\ \A w \in Workers : HandlerInv(w)

\* A worker keeps its request, and its route.
Keeps(w) ==
  /\ url'[w] = url[w] /\ location'[w] = location[w]
  /\ location[w] \in DOMAIN routes =>
       location[w] \in DOMAIN routes' /\ routes'[location[w]] = routes[location[w]]

\* The file of a request, its content type and the kind of its handler depend
\* on no more.
LEMMA SameFile ==
  ASSUME NEW w \in Workers, Keeps(w), location[w] \in DOMAIN routes
  PROVE  /\ location'[w] \in DOMAIN routes' /\ routes'[location'[w]] = routes[location[w]]
         /\ generate_file_path(w)' = generate_file_path(w)
         /\ get_file_content_type(w)' = get_file_content_type(w)
         /\ IsStatic(w)' <=> IsStatic(w)
  <1>1. /\ url'[w] = url[w] /\ location'[w] = location[w]
        /\ location'[w] \in DOMAIN routes' /\ routes'[location'[w]] = routes[location[w]]
    BY DEF Keeps
  <1>2. Root(w)' = Root(w)
    BY <1>1 DEF Root
  <1>3. generate_file_path(w)' = generate_file_path(w)
    BY <1>1, <1>2 DEF generate_file_path
  <1>4. get_file_content_type(w)' = get_file_content_type(w)
    BY <1>2, <1>3 DEF get_file_content_type
  <1>5. IsStatic(w)' <=> IsStatic(w)
    BY <1>1 DEF IsStatic
  <1>6. QED BY <1>1, <1>3, <1>4, <1>5

\* A worker that does nothing, or is crashed by another.
LEMMA Bystander ==
  ASSUME NEW w \in Workers, HandlerInv(w), Keeps(w), UNCHANGED disk,
         reply'[w] = reply[w], seen'[w] = seen[w], pc'[w] \in {pc[w], "crashed"}
  PROVE  HandlerInv(w)'
  <1>1. CASE Routed(w)'
    <2>1. pc'[w] = pc[w] /\ Routed(w) /\ (Answered(w)' <=> Answered(w))
      BY <1>1 DEF Routed, Answered
    <2>2. location[w] \in DOMAIN routes /\ routes[location[w]] # NullRoute
      BY <2>1 DEF HandlerInv
    <2>3. /\ location'[w] \in DOMAIN routes' /\ routes'[location'[w]] = routes[location[w]]
          /\ generate_file_path(w)' = generate_file_path(w)
          /\ get_file_content_type(w)' = get_file_content_type(w)
          /\ IsStatic(w)' <=> IsStatic(w)
      BY <2>2, SameFile
    <2>4. At(generate_file_path(w))' = At(generate_file_path(w))
      BY <2>3 DEF At
    <2>5. Truthful(w)' <=> Truthful(w)
      BY <2>3 DEF Truthful
    <2>6. QED BY <2>1, <2>2, <2>3, <2>4, <2>5 DEF HandlerInv
  <1>2. CASE ~Routed(w)'
    <2>1. pc'[w] # "open" /\ ~Answered(w)'
      BY <1>2 DEF Routed
    <2>2. QED BY <1>2, <2>1 DEF HandlerInv
  <1>3. QED BY <1>1, <1>2

\* A worker that is with no handler and has no answer.
LEMMA BetweenHandlers ==
  ASSUME NEW w \in Workers, HandlerInv(w),
         pc'[w] \in {"match", "route", "use", "crashed", "ended"}, reply'[w] \in {reply[w], NoReply}
  PROVE  HandlerInv(w)'
  <1>1. reply'[w].status \in {0, 1, 200, 404}
    <2>1. NoReply.status = 0
      BY DEF NoReply
    <2>2. QED BY <2>1 DEF HandlerInv
  <1>2. ~Routed(w)' /\ pc'[w] # "open" /\ ~Answered(w)'
    BY DEF Routed, Answered
  <1>3. QED BY <1>1, <1>2 DEF HandlerInv

\* Requests insert null routes at most.
LEMMA StaticRootsStay ==
  ASSUME StaticRoots, Serve
  PROVE  StaticRoots'
  <1>1. CASE UNCHANGED routes
    BY <1>1 DEF StaticRoots
  <1>2. CASE \E w \in Workers : InsertRoute(w)
    <2>1. PICK w \in Workers : InsertRoute(w)
      BY <1>2
    <2>2. \A path \in DOMAIN routes' : routes'[path] # NullRoute =>
            path \in DOMAIN routes /\ routes'[path] = routes[path]
      BY <2>1 DEF InsertRoute
    <2>3. QED BY <2>2 DEF StaticRoots
  <1>3. QED BY <1>1, <1>2 DEF Serve, StaticNext, DispatchStep, GetHandler, Match, LookupRoute, UseRoute,
            StaticCheck, StaticOpen, Answers, Echo, Health, NotFound, Blocking, OtherHandler, DiskChanges,
            dispatchVars

\* A static route's root was found in the configuration.
LEMMA MakesStaticRoots ==
  ASSUME TreeInv, LocationsValid, NEW l \in Locations, Kind[l.handler] = "static"
  PROVE  l.args \in Seq(STRING)
  <1>1. PICK i \in DOMAIN blocks[1] : IsLocation(blocks[1][i]) /\ l = LocationOf(blocks[1][i])
    BY ValidLocations DEF TreeInv
  <1>2. PICK s : s = blocks[1][i]
    OBVIOUS
  <1>3. /\ s \in Statements /\ create_from_config(blocks, s) \notin {"refused", "undefined"}
    BY <1>1, <1>2, LocationHas DEF TreeInv
  <1>4. Registry[s.tokens[3]] = "static" /\ l.args = RootArgs(blocks, s)
    BY <1>1, <1>2, CompositionAssumption DEF LocationOf
  <1>5. s.child_block # NullBlock /\ RootPath(blocks[s.child_block])
    BY <1>3, <1>4 DEF create_from_config, Accepts
  <1>6. s.child_block \in DOMAIN blocks
    <2>1. 1 \in DOMAIN blocks /\ blocks \in Seq(Seq(Statements))
      BY DEF TreeInv, ParserInv, ParserTypeOK, RootExists
    <2>2. s.child_block \in (1 + 1)..Len(blocks)
      BY <1>2, <1>5, <2>1 DEF TreeInv, ChildrenFollow
    <2>3. QED BY <2>1, <2>2
  <1>7. PICK block \in Seq(Statements) : block = blocks[s.child_block]
    BY <1>6 DEF TreeInv, ParserInv, ParserTypeOK
  <1>8. block[1].tokens[2] \in DOMAIN canonical
    BY <1>5, <1>7 DEF RootPath, UsablePath
  <1>9. QED BY <1>4, <1>7, <1>8, CanonicalAssumption DEF RootArgs

\* A step of one worker.
LEMMA OneHandler ==
  ASSUME DispatchInv, FilesInv, Serve, NEW w \in Workers, HandlerInv(w)', UNCHANGED disk,
         seen' = [seen EXCEPT ![w] = seen'[w]],
         \A v \in Workers \ {w} : Keeps(v) /\ reply'[v] = reply[v] /\ pc'[v] \in {pc[v], "crashed"}
  PROVE  FilesInv'
  <1>1. \A v \in Workers \ {w} : seen'[v] = seen[v]
    BY DEF FilesInv
  <1>2. \A v \in Workers \ {w} : HandlerInv(v)'
    BY <1>1, Bystander DEF FilesInv
  <1>3. StaticRoots'
    BY StaticRootsStay DEF FilesInv
  <1>4. seen' = [v \in Workers |-> seen'[v]]
    BY DEF FilesInv
  <1>5. QED BY <1>2, <1>3, <1>4 DEF FilesInv

\* A worker keeps its request where nobody touches it.
LEMMA KeepsRequest ==
  ASSUME DispatchInv, Serve, NEW v \in Workers, url'[v] = url[v], location'[v] = location[v]
  PROVE  Keeps(v)
  BY RoutesGrow DEF Keeps

\* The dispatcher's steps.
LEMMA DispatchFiles ==
  ASSUME DispatchInv, FilesInv, Serve, NEW w \in Workers, DispatchStep(w)
  PROVE  FilesInv'
  <1>1. /\ HandlerInv(w) /\ UNCHANGED disk /\ DispatchTypes /\ seen = [v \in Workers |-> seen[v]]
    BY DEF FilesInv, DispatchInv, DispatchStep
  <1>2. CASE GetHandler(w)
    <2>1. /\ pc' = [pc EXCEPT ![w] = "match"]
          /\ \E u \in Urls : url' = [url EXCEPT ![w] = u]
          /\ location' = [location EXCEPT ![w] = NoMatch]
      BY <1>2 DEF GetHandler, GoTo
    <2>2. reply' = [reply EXCEPT ![w] = NoReply] /\ seen' = [seen EXCEPT ![w] = {}]
      BY <1>2 DEF DispatchStep, GetHandler, Match, LookupRoute, InsertRoute, UseRoute
    <2>3. pc'[w] = "match" /\ reply'[w] = NoReply /\ seen'[w] = {}
      BY <1>1, <2>1, <2>2 DEF DispatchTypes
    <2>4. \A v \in Workers \ {w} : /\ url'[v] = url[v] /\ location'[v] = location[v]
                                   /\ reply'[v] = reply[v] /\ pc'[v] = pc[v]
      BY <1>1, <2>1, <2>2 DEF DispatchTypes
    <2>5. HandlerInv(w)'
      BY <1>1, <2>3, BetweenHandlers
    <2>6. QED BY <1>1, <2>2, <2>3, <2>4, <2>5, KeepsRequest, OneHandler
  <1>3. CASE Match(w) \/ LookupRoute(w) \/ InsertRoute(w) \/ UseRoute(w)
    <2>1. UNCHANGED <<reply, seen, url>>
      BY <1>3 DEF DispatchStep, GetHandler, Match, LookupRoute, InsertRoute, UseRoute
    <2>2. \A v \in Workers \ {w} : location'[v] = location[v] /\ pc'[v] \in {pc[v], "crashed"}
      BY <1>1, <1>3 DEF DispatchTypes, Match, LookupRoute, InsertRoute, UseRoute, GoTo
    <2>3. \A v \in Workers \ {w} : Keeps(v) /\ reply'[v] = reply[v]
      BY <2>1, <2>2, KeepsRequest
    <2>4. seen' = [seen EXCEPT ![w] = seen'[w]]
      BY <1>1, <2>1
    <2>5. CASE pc'[w] \in {"match", "route", "use", "crashed"}
      <3>1. HandlerInv(w)'
        BY <1>1, <2>1, <2>5, BetweenHandlers
      <3>2. QED BY <1>1, <2>2, <2>3, <2>4, <3>1, OneHandler
    <2>6. CASE UseRoute(w) /\ pc'[w] = "handler"
      <3>1. /\ pc[w] = "use" /\ UNCHANGED <<routes, location>> /\ routes[location[w]] # NullRoute
        BY <1>1, <2>6 DEF UseRoute, GoTo, DispatchTypes
      <3>2. location[w] \in DOMAIN routes
        BY <3>1, WorkerFacts DEF WorkerInv
      <3>3. ~Answered(w)'
        BY <2>6 DEF Answered
      <3>4. HandlerInv(w)'
        BY <1>1, <2>1, <2>6, <3>1, <3>2, <3>3 DEF HandlerInv
      <3>5. QED BY <1>1, <2>2, <2>3, <2>4, <3>4, OneHandler
    <2>7. pc'[w] \in {"match", "route", "use", "crashed"} \/ (UseRoute(w) /\ pc'[w] = "handler")
      BY <1>1, <1>3 DEF DispatchTypes, Match, LookupRoute, InsertRoute, UseRoute, GoTo
    <2>8. QED BY <2>5, <2>6, <2>7
  <1>4. QED BY <1>2, <1>3 DEF DispatchStep

\* A handler's step changes its worker's answer alone.
LEMMA HandlerFrame ==
  ASSUME DispatchInv, FilesInv, Serve, NEW w \in Workers, NEW label, NEW answer,
         GoTo(w, label), UNCHANGED <<routes, url, location>>,
         reply' = [reply EXCEPT ![w] = answer]
  PROVE  /\ pc'[w] = label /\ reply'[w] = answer /\ HandlerInv(w) /\ Keeps(w)
         /\ \A v \in Workers \ {w} : Keeps(v) /\ reply'[v] = reply[v] /\ pc'[v] \in {pc[v], "crashed"}
  <1>1. DispatchTypes /\ HandlerInv(w)
    BY DEF DispatchInv, FilesInv
  <1>2. pc'[w] = label /\ reply'[w] = answer
        /\ \A v \in Workers \ {w} : reply'[v] = reply[v] /\ pc'[v] = pc[v]
    BY <1>1 DEF DispatchTypes, GoTo
  <1>3. \A v \in Workers : Keeps(v)
    BY DEF Keeps
  <1>4. QED BY <1>1, <1>2, <1>3

\* exists() and is_regular_file().
LEMMA StaticCheckFiles ==
  ASSUME DispatchInv, FilesInv, Serve, NEW w \in Workers, StaticCheck(w)
  PROVE  FilesInv'
  <1>1. PICK state : state = At(generate_file_path(w))
    OBVIOUS
  <1>2. /\ pc[w] = "handler" /\ IsStatic(w) /\ seen' = [seen EXCEPT ![w] = {state}]
        /\ UNCHANGED <<routes, url, location, disk>>
        /\ \/ state \in {Absent, Directory} /\ Replies(w, Stock404)
           \/ \E label \in {"open", "ended"} : GoTo(w, label) /\ UNCHANGED reply
    BY <1>1 DEF StaticCheck, IsStatic, Throws
  <1>3. PICK label, answer :
          /\ GoTo(w, label) /\ reply' = [reply EXCEPT ![w] = answer]
          /\ \/ state \in {Absent, Directory} /\ label = "idle" /\ answer = Stock404
             \/ label \in {"open", "ended"} /\ answer = reply[w]
    <2>1. CASE state \in {Absent, Directory} /\ Replies(w, Stock404)
      BY <2>1 DEF Replies
    <2>2. CASE \E label \in {"open", "ended"} : GoTo(w, label) /\ UNCHANGED reply
      <3>1. reply' = [reply EXCEPT ![w] = reply[w]]
        BY <2>2 DEF DispatchInv, DispatchTypes
      <3>2. QED BY <2>2, <3>1
    <2>3. QED BY <1>2, <2>1, <2>2
  <1>4. /\ pc'[w] = label /\ reply'[w] = answer /\ HandlerInv(w) /\ Keeps(w)
        /\ \A v \in Workers \ {w} : Keeps(v) /\ reply'[v] = reply[v] /\ pc'[v] \in {pc[v], "crashed"}
    BY <1>2, <1>3, HandlerFrame
  <1>5. seen'[w] = {state}
    BY <1>2 DEF FilesInv
  <1>6. location[w] \in DOMAIN routes /\ routes[location[w]] # NullRoute
    BY <1>2, <1>4 DEF HandlerInv, Routed
  <1>7. /\ location'[w] \in DOMAIN routes' /\ routes'[location'[w]] # NullRoute
        /\ generate_file_path(w)' = generate_file_path(w) /\ IsStatic(w)'
    BY <1>2, <1>4, <1>6, SameFile
  <1>8. At(generate_file_path(w))' = state
    BY <1>1, <1>2, <1>7 DEF At
  <1>9. HandlerInv(w)'
    <2>1. CASE state \in {Absent, Directory} /\ label = "idle" /\ answer = Stock404
      <3>1. reply'[w].status = 404 /\ pc'[w] = "idle"
        BY <1>4, <2>1 DEF Stock404
      <3>2. Truthful(w)'
        BY <1>5, <2>1, <3>1 DEF Truthful
      <3>3. QED BY <1>7, <3>1, <3>2 DEF HandlerInv
    <2>2. CASE label = "open" /\ answer = reply[w]
      <3>1. reply'[w] = reply[w] /\ pc'[w] = "open" /\ ~Answered(w)'
        BY <1>4, <2>2 DEF Answered
      <3>2. QED BY <1>4, <1>5, <1>7, <1>8, <3>1 DEF HandlerInv
    <2>3. CASE label = "ended" /\ answer = reply[w]
      BY <1>4, <2>3, BetweenHandlers
    <2>4. QED BY <1>3, <2>1, <2>2, <2>3
  <1>10. seen' = [seen EXCEPT ![w] = seen'[w]]
    BY <1>2, <1>5
  <1>11. QED BY <1>2, <1>4, <1>9, <1>10, OneHandler

\* An exception ends the worker's thread.
LEMMA ThrowsFiles ==
  ASSUME DispatchInv, FilesInv, Serve, NEW w \in Workers, Throws(w),
         UNCHANGED <<routes, url, location, disk, seen>>
  PROVE  FilesInv'
  <1>1. reply' = [reply EXCEPT ![w] = reply[w]] /\ GoTo(w, "ended")
    BY DEF Throws, DispatchInv, DispatchTypes
  <1>2. /\ pc'[w] = "ended" /\ reply'[w] = reply[w] /\ HandlerInv(w)
        /\ \A v \in Workers \ {w} : Keeps(v) /\ reply'[v] = reply[v] /\ pc'[v] \in {pc[v], "crashed"}
    BY <1>1, HandlerFrame
  <1>3. HandlerInv(w)'
    BY <1>2, BetweenHandlers
  <1>4. seen' = [seen EXCEPT ![w] = seen'[w]]
    BY DEF FilesInv
  <1>5. QED BY <1>2, <1>3, <1>4, OneHandler

\* The file is opened and read, and the request answered.
LEMMA StaticOpenFiles ==
  ASSUME DispatchInv, FilesInv, Serve, NEW w \in Workers, StaticOpen(w), ~Throws(w)
  PROVE  FilesInv'
  <1>1. PICK state : state = At(generate_file_path(w))
    OBVIOUS
  <1>2. PICK answer :
          answer = [status |-> 200, body |-> IF state \in Contents THEN state ELSE Empty,
                    type |-> get_file_content_type(w)]
    OBVIOUS
  <1>3. /\ pc[w] = "open" /\ GoTo(w, "idle") /\ reply' = [reply EXCEPT ![w] = answer]
        /\ UNCHANGED <<routes, url, location, disk, seen>>
    BY <1>1, <1>2 DEF StaticOpen, Replies
  <1>4. /\ pc'[w] = "idle" /\ reply'[w] = answer /\ HandlerInv(w) /\ Keeps(w)
        /\ \A v \in Workers \ {w} : Keeps(v) /\ reply'[v] = reply[v] /\ pc'[v] \in {pc[v], "crashed"}
    BY <1>3, HandlerFrame
  <1>5. /\ location[w] \in DOMAIN routes /\ routes[location[w]] # NullRoute
        /\ IsStatic(w) /\ state \in seen[w]
    BY <1>1, <1>3, <1>4 DEF HandlerInv, Routed
  <1>6. /\ location'[w] \in DOMAIN routes' /\ routes'[location'[w]] # NullRoute
        /\ get_file_content_type(w)' = get_file_content_type(w)
    BY <1>3, <1>4, <1>5, SameFile
  <1>7. state \in Contents \/ state \in {Absent, Directory, Unreadable, Inaccessible}
    BY <1>1 DEF At, FilesInv, FileStates
  <1>8. /\ reply'[w].status = 200 /\ reply'[w].type = get_file_content_type(w)
        /\ state \in Contents => reply'[w].body = state
        /\ state \notin Contents => reply'[w].body = Empty
    BY <1>2, <1>4
  <1>9. Truthful(w)'
    <2>1. seen'[w] = seen[w]
      BY <1>3
    <2>2. \/ reply'[w].body \in seen'[w]
          \/ reply'[w].body = Empty /\ seen'[w] \cap {Absent, Directory, Unreadable, Inaccessible} # {}
      BY <1>5, <1>7, <1>8, <2>1
    <2>3. reply'[w].status # 404
      BY <1>8
    <2>4. QED BY <1>6, <1>8, <2>2, <2>3 DEF Truthful
  <1>10. HandlerInv(w)'
    BY <1>4, <1>6, <1>8, <1>9 DEF HandlerInv
  <1>11. seen' = [seen EXCEPT ![w] = seen'[w]]
    BY <1>3 DEF FilesInv
  <1>12. QED BY <1>3, <1>4, <1>10, <1>11, OneHandler

\* The other handlers answer in one step.
LEMMA AnswersFiles ==
  ASSUME DispatchInv, FilesInv, Serve, NEW w \in Workers, NEW kind, kind # "static",
         NEW status \in {1, 200, 404}, NEW body, Answers(w, kind, status, body)
  PROVE  FilesInv'
  <1> DEFINE answer == [status |-> status, body |-> body, type |-> "text/plain"]
  <1>1. answer.status = status
    OBVIOUS
  <1> HIDE DEF answer
  <1>2. /\ pc[w] = "handler" /\ ~IsStatic(w) /\ GoTo(w, "idle")
        /\ reply' = [reply EXCEPT ![w] = answer]
        /\ UNCHANGED <<routes, url, location, disk, seen>>
    BY DEF Answers, Replies, IsStatic, answer
  <1>3. /\ pc'[w] = "idle" /\ reply'[w] = answer /\ HandlerInv(w) /\ Keeps(w)
        /\ \A v \in Workers \ {w} : Keeps(v) /\ reply'[v] = reply[v] /\ pc'[v] \in {pc[v], "crashed"}
    BY <1>2, HandlerFrame, Zenon
  <1>4. location[w] \in DOMAIN routes /\ routes[location[w]] # NullRoute
    BY <1>2, <1>3 DEF HandlerInv, Routed
  <1>5. /\ location'[w] \in DOMAIN routes' /\ routes'[location'[w]] # NullRoute /\ ~IsStatic(w)'
    BY <1>2, <1>4 DEF IsStatic
  <1>6. reply'[w].status \in {0, 1, 200, 404}
    BY <1>1, <1>3
  <1>7. HandlerInv(w)'
    BY <1>3, <1>5, <1>6 DEF HandlerInv
  <1>8. seen' = [seen EXCEPT ![w] = seen'[w]]
    BY <1>2 DEF FilesInv
  <1>9. QED BY <1>2, <1>3, <1>7, <1>8, OneHandler

\* A file changes while its worker is between its check and its opening, or
\* while nobody looks.
LEMMA DiskFiles ==
  ASSUME DispatchInv, FilesInv, Serve, DiskChanges
  PROVE  FilesInv'
  <1>1. PICK path \in Paths, state \in FileStates :
          /\ disk' = [disk EXCEPT ![path] = state]
          /\ seen' = [w \in Workers |->
                        IF pc[w] = "open" /\ generate_file_path(w) = path
                          THEN seen[w] \cup {state}
                          ELSE seen[w]]
          /\ UNCHANGED <<routes, pc, url, location, reply>>
    BY DEF DiskChanges, dispatchVars
  <1>2. disk' \in [Paths -> FileStates] /\ seen' = [w \in Workers |-> seen'[w]]
    BY <1>1 DEF FilesInv
  <1>3. StaticRoots'
    BY StaticRootsStay DEF FilesInv
  <1>4. ASSUME NEW w \in Workers
        PROVE  HandlerInv(w)'
    <2>1. HandlerInv(w) /\ Keeps(w) /\ disk \in [Paths -> FileStates]
      BY <1>1 DEF FilesInv, Keeps
    <2>2. (Routed(w)' <=> Routed(w)) /\ (Answered(w)' <=> Answered(w)) /\ (IsStatic(w)' <=> IsStatic(w))
      BY <1>1 DEF Routed, Answered, IsStatic
    <2>3. CASE ~Routed(w)
      <3>1. ~Answered(w) /\ pc'[w] # "open"
        BY <1>1, <2>3 DEF Routed
      <3>2. QED BY <1>1, <2>1, <2>2, <2>3, <3>1 DEF HandlerInv
    <2>4. CASE Routed(w)
      <3>1. location[w] \in DOMAIN routes
        BY <2>1, <2>4 DEF HandlerInv
      <3>2. /\ generate_file_path(w)' = generate_file_path(w)
            /\ get_file_content_type(w)' = get_file_content_type(w)
        BY <2>1, <3>1, SameFile
      <3>3. pc'[w] = "open" => IsStatic(w)' /\ At(generate_file_path(w))' \in seen'[w]
        <4>1. SUFFICES ASSUME pc[w] = "open"
                       PROVE  IsStatic(w)' /\ At(generate_file_path(w))' \in seen'[w]
          BY <1>1
        <4>2. IsStatic(w)' /\ At(generate_file_path(w)) \in seen[w]
          BY <2>1, <2>2, <4>1 DEF HandlerInv
        <4>3. CASE generate_file_path(w) = path
          BY <1>1, <2>1, <3>2, <4>1, <4>2, <4>3 DEF At
        <4>4. CASE generate_file_path(w) # path
          <5>1. At(generate_file_path(w))' = At(generate_file_path(w))
            BY <1>1, <2>1, <3>2, <4>4 DEF At
          <5>2. seen'[w] = seen[w]
            BY <1>1, <4>4
          <5>3. QED BY <4>2, <5>1, <5>2
        <4>5. QED BY <4>3, <4>4
      <3>4. Answered(w)' /\ IsStatic(w)' => Truthful(w)'
        <4>1. SUFFICES ASSUME Answered(w), IsStatic(w)
                       PROVE  Truthful(w)'
          BY <2>2
        <4>2. Truthful(w)
          BY <2>1, <4>1 DEF HandlerInv
        <4>3. seen'[w] = seen[w] /\ reply'[w] = reply[w]
          BY <1>1, <4>1 DEF Answered
        <4>4. QED BY <3>2, <4>2, <4>3 DEF Truthful
      <3>5. QED BY <1>1, <2>1, <2>4, <3>3, <3>4 DEF HandlerInv
    <2>5. QED BY <2>3, <2>4
  <1>5. QED BY <1>2, <1>3, <1>4 DEF FilesInv

\* Nothing has been asked yet.
LEMMA NothingAsked ==
  ASSUME NEW w \in Workers, pc[w] = "idle", reply[w] = NoReply
  PROVE  HandlerInv(w)
  <1>1. NoReply.status = 0
    BY ONLY TRUE DEF NoReply
  <1>2. QED BY <1>1 DEF HandlerInv, Routed, Answered

\* The dispatcher gets the roots of the configuration.
LEMMA MakesFiles ==
  ASSUME TreeInv, DispatchInv, FilesInv, MakeDispatcher
  PROVE  FilesInv'
  <1>1. phase = "dispatcher" /\ UNCHANGED <<blocks, pc, url, location, disk, reply, seen>>
    BY DEF MakeDispatcher, Exit, parserVars
  <1>2. \A w \in Workers : pc'[w] = "idle" /\ reply'[w] = NoReply
    BY <1>1 DEF DispatchInv, NotServing
  <1>3. NoReply.status = 0
    BY ONLY TRUE DEF NoReply
  <1>4. \A w \in Workers : HandlerInv(w)'
    BY <1>2, <1>3 DEF HandlerInv, Routed, Answered
  <1>5. StaticRoots'
    <2>1. CASE UNCHANGED routes
      BY <2>1 DEF FilesInv, StaticRoots
    <2>2. CASE LocationsValid /\ AddRoutes(Locations)
      <3>1. ASSUME NEW path \in DOMAIN routes', Kind[routes'[path].handler] = "static"
            PROVE  routes'[path].args \in Seq(STRING)
        <4>1. PICK l : l = CHOOSE x \in Locations : x.path = path
          OBVIOUS
        <4>2. path \in {x.path : x \in Locations} /\ routes'[path] = [handler |-> l.handler, args |-> l.args]
          BY <2>2, <4>1 DEF AddRoutes
        <4>3. l \in Locations
          BY <4>1, <4>2
        <4>4. routes'[path].handler = l.handler /\ routes'[path].args = l.args
          BY ONLY <4>2
        <4>5. QED BY <2>2, <3>1, <4>3, <4>4, MakesStaticRoots
      <3>2. QED BY <3>1 DEF StaticRoots
    <2>3. QED BY <2>1, <2>2 DEF MakeDispatcher, LocationsValid, Locations
  <1>6. QED BY <1>1, <1>4, <1>5 DEF FilesInv

\* Nobody reads or writes a file.
LEMMA FilesStutter ==
  ASSUME FilesInv, UNCHANGED staticVars
  PROVE  FilesInv'
  <1>1. UNCHANGED <<routes, pc, url, location, disk, reply, seen>>
    BY DEF staticVars, dispatchVars
  <1>2. ASSUME NEW w \in Workers
        PROVE  HandlerInv(w)'
    <2>1. Keeps(w) /\ HandlerInv(w)
      BY <1>1 DEF Keeps, FilesInv
    <2>2. QED BY <1>1, <2>1, Bystander
  <1>3. QED BY <1>1, <1>2 DEF FilesInv, StaticRoots

\* What the handlers answer that do so in one step.
LEMMA AnswersInOneStep ==
  ASSUME NEW w, Echo(w) \/ Health(w) \/ NotFound(w) \/ Blocking(w) \/ OtherHandler(w), ~Throws(w)
  PROVE  \E kind, status, body :
           kind # "static" /\ status \in {1, 200, 404} /\ Answers(w, kind, status, body)
  <1>1. CASE Echo(w)
    BY <1>1 DEF Echo
  <1>2. CASE Health(w)
    BY <1>2 DEF Health
  <1>3. CASE NotFound(w)
    BY <1>3 DEF NotFound
  <1>4. CASE Blocking(w)
    BY <1>4 DEF Blocking
  <1>5. CASE OtherHandler(w)
    BY <1>5 DEF OtherHandler
  <1>6. QED BY <1>1, <1>2, <1>3, <1>4, <1>5

\* A step of any of them keeps the answers true.
LEMMA NextFilesInv ==
  ASSUME TreeInv, DispatchInv, FilesInv, [Next]_vars
  PROVE  FilesInv'
  <1>1. CASE Serve
    <2>1. \/ \E w \in Workers :
               \/ DispatchStep(w) \/ StaticCheck(w) \/ StaticOpen(w)
               \/ Echo(w) \/ Health(w) \/ NotFound(w) \/ Blocking(w) \/ OtherHandler(w)
          \/ DiskChanges
      BY <1>1 DEF Serve, StaticNext
    <2>2. ASSUME NEW w \in Workers, ~Throws(w),
                 Echo(w) \/ Health(w) \/ NotFound(w) \/ Blocking(w) \/ OtherHandler(w)
          PROVE  FilesInv'
      <3>1. PICK kind, status, body :
              kind # "static" /\ status \in {1, 200, 404} /\ Answers(w, kind, status, body)
        BY <2>2, AnswersInOneStep
      <3>2. QED BY <1>1, <3>1, AnswersFiles
    <2>3. ASSUME NEW w \in Workers, Throws(w),
                 \/ StaticOpen(w)
                 \/ Echo(w) \/ Health(w) \/ NotFound(w) \/ Blocking(w) \/ OtherHandler(w)
          PROVE  FilesInv'
      <3>1. UNCHANGED <<routes, url, location, disk, seen>>
        BY <2>3 DEF StaticOpen, Echo, Health, NotFound, Blocking, OtherHandler, Answers
      <3>2. QED BY <1>1, <2>3, <3>1, ThrowsFiles
    <2>4. QED BY <1>1, <2>1, <2>2, <2>3, DispatchFiles, StaticCheckFiles, StaticOpenFiles, DiskFiles
  <1>2. CASE MakeDispatcher
    BY <1>2, MakesFiles
  <1>3. CASE UNCHANGED staticVars
    BY <1>3, FilesStutter
  <1>4. QED BY <1>1, <1>2, <1>3 DEF Next, Parse, Parsed, ReadPort, Bind, Ended, vars

\* The answers of the handlers are true in every behaviour.
LEMMA FilesInvariant == Spec => []FilesInv
  <1>1. Init => FilesInv
    <2> SUFFICES ASSUME Init
                 PROVE  FilesInv
      OBVIOUS
    <2>1. /\ routes = <<>> /\ pc = [w \in Workers |-> "idle"]
          /\ disk = [path \in Paths |-> Absent] /\ reply = [w \in Workers |-> NoReply]
          /\ seen = [w \in Workers |-> {}]
      BY DEF Init, StaticInit, DispatcherInit
    <2>2. \A w \in Workers : HandlerInv(w)
      BY <2>1, NothingAsked
    <2>3. StaticRoots
      BY <2>1 DEF StaticRoots
    <2>4. QED BY <2>1, <2>2, <2>3 DEF FilesInv, FileStates
  <1>2. TreeInv /\ DispatchInv /\ FilesInv /\ [Next]_vars => FilesInv'
    BY NextFilesInv
  <1>3. QED BY <1>1, <1>2, TreeInvariant, DispatchInvariant, PTL DEF Spec

-----------------------------------------------------------------------------
(* The types of main, and the answers of the static handler.               *)

\* Every variable has its type in every behaviour.
THEOREM MainTypeCorrect == Spec => []TypeOK
  <1>1. ASSUME TreeInv, DispatchInv, FilesInv, MainInv
        PROVE  TypeOK
    <2>1. ParserTypeOK /\ MainTypeOK /\ DispatchTypes
      BY <1>1 DEF TreeInv, ParserInv, MainInv, DispatchInv
    <2>2. disk \in [Paths -> FileStates]
          /\ \A w \in Workers : /\ reply[w].status \in {0, 1, 200, 404}
                                /\ pc[w] \in {"handler", "open"} => location[w] \in DOMAIN routes
      BY <1>1 DEF FilesInv, HandlerInv, Routed
    <2>3. RoutedTypeOK
      BY <2>1, <2>2 DEF RoutedTypeOK, DispatchTypes
    <2>4. QED BY ONLY <2>1, <2>3 DEF TypeOK, MainTypeOK
  <1>2. QED BY <1>1, TreeInvariant, DispatchInvariant, FilesInvariant, MainInvariant, PTL

\* What is behind a position.
Behind(path, i) == SubSeq(path, i + 1, Len(path))

Dirs(path) == {i \in DOMAIN path : path[i] = "/"}

\* What is behind the last slash.
NameOf(path) ==
  IF Dirs(path) = {} THEN path ELSE Behind(path, CHOOSE i \in Dirs(path) : \A j \in Dirs(path) : j <= i)

\* e is what is behind a dot of the name.
Fits(path, e) == \E i \in DOMAIN NameOf(path) : NameOf(path)[i] = "." /\ Behind(NameOf(path), i) = e

DotsBehind(path, r) == {i \in (r + 1)..Len(path) : path[i] = "."}

\* What is behind the last dot that is behind position r.
ExtensionOf(path, r) ==
  IF DotsBehind(path, r) = {} THEN <<>>
  ELSE Behind(path, CHOOSE i \in DotsBehind(path, r) : \A j \in DotsBehind(path, r) : j <= i)

\* Behind a position are the elements behind it.
LEMMA BehindIs ==
  ASSUME NEW path \in Seq(STRING), NEW i \in 0..Len(path)
  PROVE  /\ Behind(path, i) \in Seq(STRING) /\ Len(Behind(path, i)) = Len(path) - i
         /\ \A k \in 1..(Len(path) - i) : Behind(path, i)[k] = path[i + k]
  <1>1. PICK n \in Nat : n = Len(path) /\ DOMAIN path = 1..n
    BY LenProperties
  <1>2. i + 1 \in Int /\ n \in Int /\ \A k \in (i + 1)..n : path[k] \in STRING
    BY <1>1, ElementOfSeq
  <1>3. PICK new : new = SubSeq(path, i + 1, n)
    OBVIOUS
  <1>4. /\ new \in Seq(STRING) /\ Len(new) = IF i + 1 <= n THEN n - (i + 1) + 1 ELSE 0
        /\ \A k \in 1..(n - (i + 1) + 1) : new[k] = path[(i + 1) + k - 1]
    BY <1>2, <1>3, SubSeqProperties
  <1>5. i \in Nat /\ i <= n /\ n - (i + 1) + 1 = n - i /\ \A k \in Nat : (i + 1) + k - 1 = i + k
    BY <1>1
  <1>6. Len(new) = n - i /\ \A k \in 1..(n - i) : new[k] = path[i + k]
    BY <1>1, <1>4, <1>5
  <1>7. QED BY <1>1, <1>3, <1>4, <1>6 DEF Behind

\* Nothing is before the first position.
LEMMA BehindNone ==
  ASSUME NEW path \in Seq(STRING)
  PROVE  Behind(path, 0) = path
  <1>1. PICK n \in Nat : n = Len(path)
    BY LenProperties
  <1>2. /\ Behind(path, 0) \in Seq(STRING) /\ Len(Behind(path, 0)) = n
        /\ \A k \in 1..n : Behind(path, 0)[k] = path[k]
    BY <1>1, BehindIs
  <1>3. QED BY <1>1, <1>2, SeqEqual

\* Behind a position of what is behind another.
LEMMA BehindTwice ==
  ASSUME NEW path \in Seq(STRING), NEW i \in 0..Len(path), NEW k \in 0..(Len(path) - i)
  PROVE  Behind(Behind(path, i), k) = Behind(path, i + k)
  <1>1. PICK n \in Nat : n = Len(path)
    BY LenProperties
  <1>2. PICK s : s = Behind(path, i)
    OBVIOUS
  <1>3. s \in Seq(STRING) /\ Len(s) = n - i /\ \A j \in 1..(n - i) : s[j] = path[i + j]
    BY <1>1, <1>2, BehindIs
  <1>4. /\ Behind(s, k) \in Seq(STRING) /\ Len(Behind(s, k)) = (n - i) - k
        /\ \A j \in 1..((n - i) - k) : Behind(s, k)[j] = s[k + j]
    <2>1. k \in 0..Len(s)
      BY <1>1, <1>3
    <2>2. QED BY <1>3, <2>1, BehindIs, Zenon
  <1>5. /\ Behind(path, i + k) \in Seq(STRING) /\ Len(Behind(path, i + k)) = n - (i + k)
        /\ \A j \in 1..(n - (i + k)) : Behind(path, i + k)[j] = path[(i + k) + j]
    <2>1. i + k \in 0..Len(path)
      BY <1>1
    <2>2. QED BY <1>1, <2>1, BehindIs
  <1>6. /\ (n - i) - k = n - (i + k)
        /\ \A j \in 1..((n - i) - k) : k + j \in 1..(n - i) /\ i + (k + j) = (i + k) + j
    BY <1>1
  <1>7. Len(Behind(s, k)) = Len(Behind(path, i + k))
        /\ \A j \in 1..Len(Behind(s, k)) : Behind(s, k)[j] = Behind(path, i + k)[j]
    <2>1. PICK m : m = (n - i) - k
      OBVIOUS
    <2>2. Len(Behind(s, k)) = m /\ Len(Behind(path, i + k)) = m
      BY ONLY <1>4, <1>5, <1>6, <2>1
    <2>3. ASSUME NEW j \in 1..m
          PROVE  Behind(s, k)[j] = Behind(path, i + k)[j]
      <3>1. k + j \in 1..(n - i) /\ i + (k + j) = (i + k) + j
        BY ONLY <1>6, <2>1, j \in 1..m
      <3>2. Behind(s, k)[j] = s[k + j] /\ s[k + j] = path[i + (k + j)]
        BY ONLY <1>3, <1>4, <2>1, <3>1, j \in 1..m
      <3>3. Behind(path, i + k)[j] = path[(i + k) + j]
        BY ONLY <1>5, <1>6, <2>1, j \in 1..m
      <3>4. QED BY ONLY <3>1, <3>2, <3>3
    <2>4. QED BY ONLY <2>2, <2>3
  <1>8. QED BY <1>2, <1>4, <1>5, <1>7, SeqEqual

\* The name is behind the last slash, if there is one.
LEMMA NameIs ==
  ASSUME NEW path \in Seq(STRING)
  PROVE  \E s \in 0..Len(path) : /\ NameOf(path) = Behind(path, s) /\ (s = 0 \/ path[s] = "/")
                                 /\ \A j \in (s + 1)..Len(path) : path[j] # "/"
  <1>1. PICK n \in Nat : n = Len(path) /\ DOMAIN path = 1..n
    BY LenProperties
  <1>2. CASE Dirs(path) = {}
    <2>1. NameOf(path) = Behind(path, 0)
      BY <1>2, BehindNone DEF NameOf
    <2>2. \A j \in (0 + 1)..n : path[j] # "/"
      BY <1>1, <1>2 DEF Dirs
    <2>3. QED BY <1>1, <2>1, <2>2
  <1>3. CASE Dirs(path) # {}
    <2>1. Dirs(path) \in SUBSET (0..n)
      BY <1>1 DEF Dirs
    <2>2. PICK s : s = CHOOSE i \in Dirs(path) : \A j \in Dirs(path) : j <= i
      OBVIOUS
    <2>3. s \in Dirs(path) /\ \A j \in Dirs(path) : j <= s
      BY <1>1, <1>3, <2>1, <2>2, GreatestNatural
    <2>4. s \in 0..n /\ \A j \in (s + 1)..n : j \in 1..n /\ ~(j <= s)
      BY <2>1, <2>3
    <2>5. \A j \in (s + 1)..n : path[j] # "/"
      BY <1>1, <2>3, <2>4 DEF Dirs
    <2>6. path[s] = "/"
      BY <2>3 DEF Dirs
    <2>7. QED BY <1>1, <1>3, <2>2, <2>4, <2>5, <2>6 DEF NameOf
  <1>4. QED BY <1>2, <1>3

\* The extension is behind the last dot, if there is one.
LEMMA ExtensionIs ==
  ASSUME NEW path \in Seq(STRING), NEW r \in 0..Len(path), DotsBehind(path, r) # {}
  PROVE  \E d \in (r + 1)..Len(path) : /\ path[d] = "." /\ ExtensionOf(path, r) = Behind(path, d)
                                       /\ \A j \in (d + 1)..Len(path) : path[j] # "."
  <1>1. PICK n \in Nat : n = Len(path)
    BY LenProperties
  <1>2. DotsBehind(path, r) \in SUBSET (0..n)
    BY <1>1 DEF DotsBehind
  <1>3. PICK d : d = CHOOSE i \in DotsBehind(path, r) : \A j \in DotsBehind(path, r) : j <= i
    OBVIOUS
  <1>4. d \in DotsBehind(path, r) /\ \A j \in DotsBehind(path, r) : j <= d
    BY <1>1, <1>2, <1>3, GreatestNatural
  <1>5. d \in (r + 1)..n /\ path[d] = "."
    BY <1>1, <1>4 DEF DotsBehind
  <1>6. \A j \in (d + 1)..n : j \in (r + 1)..n /\ ~(j <= d)
    BY <1>1, <1>5
  <1>7. \A j \in (d + 1)..n : path[j] # "."
    BY <1>1, <1>4, <1>6 DEF DotsBehind
  <1>8. QED BY <1>1, <1>3, <1>5, <1>7 DEF ExtensionOf

\* An extension of the name is behind a dot that no slash is behind.
LEMMA FitsIs ==
  ASSUME NEW path \in Seq(STRING), NEW s \in 0..Len(path), NameOf(path) = Behind(path, s), NEW e
  PROVE  Fits(path, e) <=> \E i \in (s + 1)..Len(path) : path[i] = "." /\ Behind(path, i) = e
  <1>1. PICK n \in Nat : n = Len(path)
    BY LenProperties
  <1>2. PICK name : name = Behind(path, s)
    OBVIOUS
  <1>3. /\ name \in Seq(STRING) /\ Len(name) = n - s /\ DOMAIN name = 1..(n - s)
        /\ \A k \in 1..(n - s) : name[k] = path[s + k]
    BY <1>1, <1>2, BehindIs, LenProperties
  <1>4. \A k \in 1..(n - s) : Behind(name, k) = Behind(path, s + k)
    BY <1>1, <1>2, BehindTwice
  <1>5. (\A k \in 1..(n - s) : s + k \in (s + 1)..n) /\ \A i \in (s + 1)..n : i - s \in 1..(n - s) /\ s + (i - s) = i
    BY <1>1
  <1>6. Fits(path, e) <=> \E k \in 1..(n - s) : name[k] = "." /\ Behind(name, k) = e
    BY <1>2, <1>3 DEF Fits
  <1>7. Fits(path, e) <=> \E k \in 1..(n - s) : path[s + k] = "." /\ Behind(path, s + k) = e
    BY <1>3, <1>4, <1>6
  <1>8. QED BY <1>1, <1>5, <1>7

\* What is behind the last dot is the extension of the name, if it is known.
LEMMA ExtensionFits ==
  ASSUME NEW path \in Seq(STRING),
         NEW Known \in SUBSET (Seq(STRING \ {".", "/"}) \ {<<>>})
  PROVE  /\ ExtensionOf(path, 0) \in Known => Fits(path, ExtensionOf(path, 0))
         /\ ExtensionOf(path, 0) \notin Known => \A e \in Known : ~Fits(path, e)
  <1>1. PICK n \in Nat : n = Len(path) /\ DOMAIN path = 1..n
    BY LenProperties
  <1>2. PICK s \in 0..n : /\ NameOf(path) = Behind(path, s) /\ (s = 0 \/ path[s] = "/")
                          /\ \A j \in (s + 1)..n : path[j] # "/"
    BY <1>1, NameIs
  <1>3. PICK ext : ext = ExtensionOf(path, 0)
    OBVIOUS
  <1>4. ASSUME NEW e \in Known, NEW i \in 1..n, Behind(path, i) = e
        PROVE  i < n /\ \A j \in (i + 1)..n : path[j] \notin {".", "/"}
    <2>1. i \in 0..n
      BY <1>1
    <2>2. Len(e) = n - i /\ \A k \in 1..(n - i) : e[k] = path[i + k]
      BY <1>1, <1>4, <2>1, BehindIs
    <2>3. e \in Seq(STRING \ {".", "/"}) /\ e # <<>>
      OBVIOUS
    <2>4. Len(e) # 0
      BY <2>3, EmptySeq
    <2>5. \A j \in (i + 1)..n : j - i \in 1..(n - i) /\ i + (j - i) = j
      BY <1>1
    <2>6. \A k \in 1..Len(e) : e[k] \notin {".", "/"}
      BY <2>3, ElementOfSeq
    <2>7. i < n
      BY <1>1, <2>2, <2>4
    <2>8. QED BY <2>2, <2>5, <2>6, <2>7
  <1>5. ASSUME ext \in Known
        PROVE  Fits(path, ext)
    <2>1. DotsBehind(path, 0) # {}
      BY <1>3, <1>5 DEF ExtensionOf
    <2>2. PICK d \in (0 + 1)..n : path[d] = "." /\ ext = Behind(path, d)
      BY <1>1, <1>3, <2>1, ExtensionIs
    <2>3. d \in 1..n
      BY <1>1
    <2>4. \A j \in (d + 1)..n : path[j] # "/"
      BY <1>4, <1>5, <2>2, <2>3
    <2>5. d \in (s + 1)..n
      <3>1. s # d
        <4>1. "/" # "."
          OBVIOUS
        <4>2. s # 0 => path[s] = "/"
          BY <1>2
        <4>3. QED BY <2>2, <2>3, <4>1, <4>2
      <3>2. s \notin (d + 1)..n
        <4>1. SUFFICES ASSUME s \in (d + 1)..n
                       PROVE  FALSE
          OBVIOUS
        <4>2. s # 0
          BY <1>1, <2>3, <4>1
        <4>3. QED BY <1>2, <2>4, <4>1, <4>2
      <3>3. QED BY <1>1, <2>3, <3>1, <3>2
    <2>6. QED BY <1>1, <1>2, <2>2, <2>5, FitsIs
  <1>6. ASSUME ext \notin Known, NEW e \in Known, Fits(path, e)
        PROVE  FALSE
    <2>1. PICK i \in (s + 1)..n : path[i] = "." /\ Behind(path, i) = e
      BY <1>1, <1>2, <1>6, FitsIs
    <2>2. i \in 1..n /\ \A j \in (i + 1)..n : path[j] # "."
      BY <1>1, <1>4, <2>1
    <2>3. i \in DotsBehind(path, 0)
      BY <1>1, <2>1, <2>2 DEF DotsBehind
    <2>4. PICK d \in (0 + 1)..n : /\ path[d] = "." /\ ext = Behind(path, d)
                                  /\ \A j \in (d + 1)..n : path[j] # "."
      BY <1>1, <1>3, <2>3, ExtensionIs
    <2>5. d \notin (i + 1)..n /\ i \notin (d + 1)..n
      BY <2>1, <2>2, <2>4
    <2>6. d = i
      BY <1>1, <2>2, <2>4, <2>5
    <2>7. QED BY <1>6, <2>1, <2>4, <2>6
  <1>7. QED BY <1>3, <1>5, <1>6

\* The dots behind the root are those of the rest of the URL.
LEMMA ExtensionOfRest ==
  ASSUME NEW root \in Seq(STRING), NEW rest \in Seq(STRING)
  PROVE  ExtensionOf(root \o rest, Len(root)) = ExtensionOf(rest, 0)
  <1>1. PICK n \in Nat, m \in Nat : n = Len(root) /\ m = Len(rest)
    BY LenProperties
  <1>2. PICK path : path = root \o rest
    OBVIOUS
  <1>3. /\ path \in Seq(STRING) /\ Len(path) = n + m
        /\ \A i \in 1..(n + m) : path[i] = IF i <= n THEN root[i] ELSE rest[i - n]
    BY <1>1, <1>2, ConcatProperties
  <1>4. \A i \in 1..m : path[n + i] = rest[i] /\ n + i \in (n + 1)..(n + m)
    <2>1. \A i \in 1..m : n + i \in 1..(n + m) /\ ~(n + i <= n) /\ (n + i) - n = i
      BY <1>1
    <2>2. QED BY <1>1, <1>3, <2>1
  <1>5. ASSUME NEW d \in 1..m
        PROVE  Behind(path, n + d) = Behind(rest, d)
    <2>1. d \in 0..Len(rest) /\ n + d \in 0..Len(path)
      BY <1>1, <1>3
    <2>2. /\ Behind(rest, d) \in Seq(STRING) /\ Len(Behind(rest, d)) = m - d
          /\ \A k \in 1..(m - d) : Behind(rest, d)[k] = rest[d + k]
      BY <1>1, <2>1, BehindIs
    <2>3. /\ Behind(path, n + d) \in Seq(STRING) /\ Len(Behind(path, n + d)) = (n + m) - (n + d)
          /\ \A k \in 1..((n + m) - (n + d)) : Behind(path, n + d)[k] = path[(n + d) + k]
      BY <1>3, <2>1, BehindIs
    <2>4. (n + m) - (n + d) = m - d /\ \A k \in 1..(m - d) : d + k \in 1..m /\ (n + d) + k = n + (d + k)
      BY <1>1
    <2>5. PICK u, v, l : u = Behind(path, n + d) /\ v = Behind(rest, d) /\ l = m - d
      OBVIOUS
    <2>6. u \in Seq(STRING) /\ v \in Seq(STRING) /\ Len(u) = l /\ Len(v) = l
      BY ONLY <2>2, <2>3, <2>4, <2>5
    <2>7. ASSUME NEW k \in 1..l
          PROVE  u[k] = v[k]
      <3>1. d + k \in 1..m /\ (n + d) + k = n + (d + k)
        BY <2>4, <2>5
      <3>2. u[k] = path[(n + d) + k] /\ v[k] = rest[d + k]
        BY ONLY <2>2, <2>3, <2>4, <2>5, k \in 1..l
      <3>3. QED BY ONLY <1>4, <3>1, <3>2
    <2>8. u = v
      BY <2>6, <2>7, SeqEqual
    <2>9. QED BY <2>5, <2>8
  <1>6. /\ \A i \in DotsBehind(path, n) : i - n \in DotsBehind(rest, 0) /\ n + (i - n) = i
        /\ \A i \in DotsBehind(rest, 0) : n + i \in DotsBehind(path, n) /\ i \in 1..m
    <2>1. \A i \in (n + 1)..(n + m) : i - n \in 1..m /\ n + (i - n) = i
      BY <1>1
    <2>2. QED BY <1>1, <1>3, <1>4, <2>1 DEF DotsBehind
  <1>7. CASE DotsBehind(rest, 0) = {}
    <2>1. DotsBehind(path, n) = {}
      BY <1>6, <1>7
    <2>2. QED BY <1>1, <1>2, <1>7, <2>1 DEF ExtensionOf
  <1>8. CASE DotsBehind(rest, 0) # {}
    <2>1. PICK d \in (0 + 1)..m : /\ rest[d] = "." /\ ExtensionOf(rest, 0) = Behind(rest, d)
                                 /\ \A j \in (d + 1)..m : rest[j] # "."
      BY <1>1, <1>8, ExtensionIs
    <2>2. d \in DotsBehind(rest, 0) /\ d \in 1..m
      BY <1>1, <2>1 DEF DotsBehind
    <2>3. DotsBehind(path, n) # {} /\ n \in 0..Len(path)
      BY <1>1, <1>3, <1>6, <2>2
    <2>4. PICK e \in (n + 1)..(n + m) :
            /\ path[e] = "." /\ ExtensionOf(path, n) = Behind(path, e)
            /\ \A j \in (e + 1)..(n + m) : path[j] # "."
      <3>1. Len(path) = n + m /\ path \in Seq(STRING)
        BY <1>3
      <3>2. QED BY ONLY <2>3, <3>1, ExtensionIs
    <2>5. e - n \in 1..m /\ n + (e - n) = e
      BY <1>1
    <2>6. rest[e - n] = "." /\ path[n + d] = "." /\ n + d \in (n + 1)..(n + m)
      BY <1>4, <2>1, <2>2, <2>4, <2>5
    <2>7. e - n \notin (d + 1)..m /\ n + d \notin (e + 1)..(n + m)
      BY <2>1, <2>4, <2>6
    <2>8. e = n + d
      BY <1>1, <2>2, <2>5, <2>6, <2>7
    <2>9. ExtensionOf(path, n) = ExtensionOf(rest, 0)
      BY <1>5, <2>1, <2>2, <2>4, <2>8
    <2>10. QED BY <1>1, <1>2, <2>9
  <1>9. QED BY <1>7, <1>8

\* What the URL has behind its location.
RestOf(w) == SubSeq(url[w], Len(location[w]) + 1, Len(url[w]))

\* The content type of a static answer is that of the name the URL ends in.
LEMMA ContentTypeIs ==
  ASSUME DispatchInv, FilesInv, NEW w \in Workers, Answered(w), IsStatic(w)
  PROVE  \/ \E e \in DOMAIN CONTENT_TYPE :
               Fits(RestOf(w), e) /\ get_file_content_type(w) = CONTENT_TYPE[e]
         \/ /\ get_file_content_type(w) = DefaultType
            /\ \A e \in DOMAIN CONTENT_TYPE : ~Fits(RestOf(w), e)
  <1>1. PICK root : root = Root(w)
    OBVIOUS
  <1>2. root \in Seq(STRING)
    BY <1>1 DEF Root, FilesInv, HandlerInv, Routed, StaticRoots, IsStatic
  <1>3. PICK rest : rest = RestOf(w)
    OBVIOUS
  <1>4. rest \in Seq(STRING)
    <2>1. url[w] \in Seq(STRING) /\ location[w] \in Seq(STRING)
      BY UrlsAssumption, EmptySeq DEF DispatchInv, DispatchTypes
    <2>2. PICK n \in Nat, m \in Nat : n = Len(url[w]) /\ m = Len(location[w])
      BY <2>1, LenProperties
    <2>3. \A i \in (m + 1)..n : i \in 1..n
      BY <2>2
    <2>4. \A i \in (m + 1)..n : url[w][i] \in STRING
      BY <2>1, <2>2, <2>3, ElementOfSeq
    <2>5. m + 1 \in Int /\ n \in Int
      BY <2>2
    <2>6. QED BY <1>3, <2>2, <2>4, <2>5, SubSeqProperties DEF RestOf
  <1>5. generate_file_path(w) = root \o rest
    BY <1>1, <1>3 DEF generate_file_path, RestOf
  <1>6. PICK ext : ext = ExtensionOf(rest, 0)
    OBVIOUS
  <1>7. ext = ExtensionOf(root \o rest, Len(root))
    BY <1>2, <1>4, <1>6, ExtensionOfRest
  <1>8. get_file_content_type(w) = IF ext \in DOMAIN CONTENT_TYPE THEN CONTENT_TYPE[ext] ELSE DefaultType
    BY <1>1, <1>5, <1>7 DEF get_file_content_type, ExtensionOf, DotsBehind, Behind
  <1>9. /\ ext \in DOMAIN CONTENT_TYPE => Fits(rest, ext)
        /\ ext \notin DOMAIN CONTENT_TYPE => \A e \in DOMAIN CONTENT_TYPE : ~Fits(rest, e)
    BY <1>4, <1>6, ContentTypeAssumption, ExtensionFits
  <1>10. QED BY <1>3, <1>8, <1>9

\* An answer of the static handler is about the file as it was at some time
\* during the request, and its content type is that of the name the URL ends
\* in, whatever the root is called.
THEOREM MainStaticAnswers == Spec => []StaticAnswers
  <1>1. ASSUME DispatchInv, FilesInv
        PROVE  StaticAnswers
    <2>1. ASSUME NEW w \in Workers, StaticAnswered(w)
          PROVE  IF reply[w].status = 404
                   THEN seen[w] \cap {Absent, Directory} # {}
                   ELSE /\ \/ reply[w].body \in seen[w]
                           \/ reply[w].body = Empty /\ seen[w] \cap {Absent, Directory, Unreadable, Inaccessible} # {}
                        /\ \/ \E e \in DOMAIN CONTENT_TYPE :
                                Fits(RestOf(w), e) /\ reply[w].type = CONTENT_TYPE[e]
                           \/ /\ reply[w].type = DefaultType
                              /\ \A e \in DOMAIN CONTENT_TYPE : ~Fits(RestOf(w), e)
      <3>1. Answered(w) /\ IsStatic(w)
        BY <2>1 DEF StaticAnswered, Answered, IsStatic
      <3>2. Truthful(w)
        BY <1>1, <3>1 DEF FilesInv, HandlerInv
      <3>3. \/ \E e \in DOMAIN CONTENT_TYPE :
                 Fits(RestOf(w), e) /\ get_file_content_type(w) = CONTENT_TYPE[e]
            \/ /\ get_file_content_type(w) = DefaultType
               /\ \A e \in DOMAIN CONTENT_TYPE : ~Fits(RestOf(w), e)
        BY <1>1, <3>1, ContentTypeIs
      <3>4. QED BY <3>2, <3>3 DEF Truthful
    <2>2. QED BY <2>1 DEF StaticAnswers, RestOf, Fits, NameOf, Dirs, Behind
  <1>2. QED BY <1>1, DispatchInvariant, FilesInvariant, PTL

-----------------------------------------------------------------------------
(* to_string.                                                              *)

Semicolon == <<";">>
LeftBrace == <<"{">>
RightBrace == <<"}">>

\* A statement written out, given the texts f of the blocks.
WrittenOut(f, s) ==
  s.tokens \o
  IF s.child_block = NullBlock THEN Semicolon ELSE LeftBrace \o f[s.child_block] \o RightBrace

\* What FlattenSeq makes the text of a block from.
Parts(f, block) == [i \in DOMAIN block |-> WrittenOut(f, block[i])]

TextStep(T, f, b) == FlattenSeq(Parts(f, T[b]))

\* f gives the texts of the blocks from k on.
TextFrom(T, k, f) == f = [b \in k..Len(T) |-> TextStep(T, f, b)]

\* A block below a statement comes after the statement's own.
IsTree(T) ==
  /\ T \in Seq(Seq(Statements)) /\ 1 \in DOMAIN T
  /\ \A b \in DOMAIN T : \A i \in DOMAIN T[b] :
       T[b][i].child_block = NullBlock \/ T[b][i].child_block \in (b + 1)..Len(T)

\* f gives the texts of all blocks of a tree.
AreTexts(T, f) ==
  \A b \in DOMAIN T : f[b] = TextStep(T, f, b) /\ f[b] \in Seq(Tokens)

\* f and g give the blocks below these statements the same texts.
SameBelow(f, g, block, m) ==
  \A i \in 1..m : block[i].child_block # NullBlock => f[block[i].child_block] = g[block[i].child_block]

\* Braces and semicolons are tokens.
LEMMA PunctuationIs == Semicolon \in Seq(Tokens) /\ LeftBrace \in Seq(Tokens) /\ RightBrace \in Seq(Tokens)
  <1>1. ";" \in Tokens /\ "{" \in Tokens /\ "}" \in Tokens
    BY DEF Tokens, Punctuation
  <1>2. ASSUME NEW x \in Tokens
        PROVE  <<x>> \in Seq(Tokens)
    OBVIOUS
  <1>3. QED BY <1>1, <1>2, Zenon DEF Semicolon, LeftBrace, RightBrace

\* to_string by that function.
LEMMA TextIs ==
  ASSUME NEW T \in Seq(Seq(Statements))
  PROVE  to_string(T) = (CHOOSE f : TextFrom(T, 1, f))[1]
  <1>1. DOMAIN T = 1..Len(T)
    OBVIOUS
  <1>2. to_string(T) = (CHOOSE f : f = [b \in DOMAIN T |-> TextStep(T, f, b)])[1]
    BY DEF to_string, TextStep, Parts, WrittenOut, Semicolon, LeftBrace, RightBrace
  <1>3. QED BY <1>1, <1>2 DEF TextFrom

\* Only the blocks below a block decide on its text.
LEMMA TextStepAgrees ==
  ASSUME NEW T, NEW U, NEW f, NEW g, NEW b, NEW c, T[b] = U[c], T[b] \in Seq(Statements),
         SameBelow(f, g, T[b], Len(T[b]))
  PROVE  TextStep(T, f, b) = TextStep(U, g, c)
  <1>1. PICK block \in Seq(Statements) : block = T[b] /\ block = U[c]
    OBVIOUS
  <1>2. DOMAIN block = 1..Len(block)
    BY LenProperties
  <1>3. \A i \in DOMAIN block : WrittenOut(f, block[i]) = WrittenOut(g, block[i])
    BY <1>1, <1>2 DEF SameBelow, WrittenOut
  <1>4. Parts(f, block) = Parts(g, block)
    BY <1>3 DEF Parts
  <1>5. QED BY <1>1, <1>4 DEF TextStep

\* A statement written out is a sequence of tokens.
LEMMA WrittenOutType ==
  ASSUME NEW f, NEW s \in Statements, s.child_block # NullBlock => f[s.child_block] \in Seq(Tokens)
  PROVE  WrittenOut(f, s) \in Seq(Tokens)
  <1>1. s.tokens \in Seq(Tokens)
    <2>1. s.tokens \in Seq(Words) /\ Words \subseteq Tokens
      BY DEF Statements, Tokens
    <2>2. QED BY <2>1, SeqMonotonic
  <1>2. CASE s.child_block = NullBlock
    <2>1. WrittenOut(f, s) = s.tokens \o Semicolon
      BY <1>2 DEF WrittenOut
    <2>2. QED BY <1>1, <2>1, PunctuationIs, ConcatProperties
  <1>3. CASE s.child_block # NullBlock
    <2>1. PICK t \in Seq(Tokens) : t = f[s.child_block]
      BY <1>3
    <2>2. WrittenOut(f, s) = s.tokens \o (LeftBrace \o t \o RightBrace)
      BY <1>3, <2>1 DEF WrittenOut
    <2>3. LeftBrace \o t \o RightBrace \in Seq(Tokens)
      BY PunctuationIs, ConcatProperties
    <2>4. QED BY <1>1, <2>2, <2>3, ConcatProperties
  <1>4. QED BY <1>2, <1>3

\* The function that to_string is defined by exists.
LEMMA TextsExist ==
  ASSUME NEW T, IsTree(T)
  PROVE  \E f : TextFrom(T, 1, f)
  <1>1. PICK n \in Nat : n = Len(T) /\ DOMAIN T = 1..n
    BY DEF IsTree
  <1> DEFINE bad == {d \in 0..n : ~ \E f : TextFrom(T, (n + 1) - d, f)}
  <1>2. bad = {}
    <2>1. SUFFICES ASSUME bad # {}
                   PROVE  FALSE
      OBVIOUS
    <2>2. PICK d \in bad : \A e \in bad : d <= e
      <3>1. bad \in SUBSET Nat
        OBVIOUS
      <3>2. QED BY <2>1, <3>1, LeastNatural
    <2>3. CASE d = 0
      <3> DEFINE f == [b \in (n + 1)..n |-> <<>>]
      <3>1. (n + 1) - 0 = n + 1 /\ (n + 1)..n = {}
        OBVIOUS
      <3>2. TextFrom(T, (n + 1) - 0, f)
        BY <1>1, <3>1 DEF TextFrom
      <3>3. QED BY <2>2, <2>3, <3>2
    <2>4. CASE d # 0
      <3>1. d - 1 \in 0..n /\ d - 1 \notin bad
        <4>1. d \in 1..n
          BY <2>2, <2>4
        <4>2. d - 1 \in 0..n /\ ~(d <= d - 1)
          BY ONLY <4>1, n \in Nat
        <4>3. QED BY <2>2, <4>2
      <3>2. PICK k \in 1..n : k = (n + 1) - d /\ k + 1 = (n + 1) - (d - 1)
        BY <2>2, <2>4
      <3>3. PICK g : TextFrom(T, k + 1, g)
        BY <3>1, <3>2
      <3> DEFINE f == [b \in k..n |-> IF b = k THEN TextStep(T, g, k) ELSE g[b]]
      <3>4. ASSUME NEW b \in k..n
            PROVE  f[b] = TextStep(T, f, b)
        <4>1. b \in DOMAIN T /\ T[b] \in Seq(Statements) /\ DOMAIN T[b] = 1..Len(T[b])
          BY <1>1, <3>2 DEF IsTree
        <4>2. ASSUME NEW i \in DOMAIN T[b], T[b][i].child_block # NullBlock
              PROVE  f[T[b][i].child_block] = g[T[b][i].child_block]
          <5>1. T[b][i].child_block \in (b + 1)..n
            BY <1>1, <4>1, <4>2 DEF IsTree
          <5>2. T[b][i].child_block \in k..n /\ T[b][i].child_block # k
            BY <3>2, <5>1
          <5>3. QED BY <5>2
        <4> HIDE DEF f
        <4>3. TextStep(T, f, b) = TextStep(T, g, b)
          BY <4>1, <4>2, TextStepAgrees DEF SameBelow
        <4>4. f[b] = IF b = k THEN TextStep(T, g, k) ELSE g[b]
          BY DEF f
        <4>5. b # k => g[b] = TextStep(T, g, b)
          <5>1. b # k => b \in (k + 1)..n
            BY <3>2
          <5>2. QED BY <1>1, <3>3, <5>1 DEF TextFrom
        <4>6. QED BY <4>3, <4>4, <4>5
      <3>5. f = [b \in k..n |-> f[b]]
        OBVIOUS
      <3> HIDE DEF f
      <3>6. TextFrom(T, k, f)
        BY <1>1, <3>4, <3>5 DEF TextFrom
      <3>7. QED BY <2>2, <3>2, <3>6
    <2>5. QED BY <2>3, <2>4
  <1>3. n \in 0..n /\ (n + 1) - n = 1
    OBVIOUS
  <1>4. QED BY <1>2, <1>3

\* to_string gives the texts of a tree, which are tokens.
LEMMA TextOf ==
  ASSUME NEW T, IsTree(T)
  PROVE  \E f : AreTexts(T, f) /\ to_string(T) = f[1]
  <1>1. PICK n \in Nat : n = Len(T) /\ DOMAIN T = 1..n
    BY DEF IsTree
  <1>2. PICK f : TextFrom(T, 1, f) /\ to_string(T) = f[1]
    BY TextIs, TextsExist DEF IsTree
  <1>3. \A b \in 1..n : f[b] = TextStep(T, f, b)
    BY <1>1, <1>2 DEF TextFrom
  <1> DEFINE bad == {b \in 1..n : f[b] \notin Seq(Tokens)}
  <1>4. bad = {}
    <2>1. SUFFICES ASSUME bad # {}
                   PROVE  FALSE
      OBVIOUS
    <2>2. PICK b \in bad : \A c \in bad : c <= b
      <3>1. bad \in SUBSET (0..n)
        OBVIOUS
      <3> HIDE DEF bad
      <3>2. QED BY <2>1, <3>1, GreatestNatural
    <2>3. b \in 1..n /\ T[b] \in Seq(Statements)
      BY <1>1, <2>2 DEF IsTree
    <2>4. PICK block \in Seq(Statements) : block = T[b]
      BY <2>3
    <2>5. ASSUME NEW i \in 1..Len(block)
          PROVE  WrittenOut(f, block[i]) \in Seq(Tokens)
      <3>1. block[i] \in Statements /\ i \in DOMAIN block
        BY ElementOfSeq, LenProperties
      <3>2. ASSUME block[i].child_block # NullBlock
            PROVE  f[block[i].child_block] \in Seq(Tokens)
        <4>1. block[i].child_block \in (b + 1)..n
          BY <1>1, <2>3, <2>4, <3>1, <3>2 DEF IsTree
        <4>2. block[i].child_block \in 1..n /\ ~(block[i].child_block <= b)
          BY <2>3, <4>1
        <4>3. block[i].child_block \notin bad
          BY <2>2, <4>2
        <4>4. QED BY <4>2, <4>3
      <3>3. QED BY <3>1, <3>2, WrittenOutType
    <2>6. Parts(f, block) \in Seq(Seq(Tokens))
      <3>1. Len(block) \in Nat /\ DOMAIN block = 1..Len(block)
        BY LenProperties
      <3>2. QED BY <2>5, <3>1 DEF Parts
    <2>7. TextStep(T, f, b) \in Seq(Tokens)
      BY <2>4, <2>6, FlattenType DEF TextStep
    <2>8. QED BY <1>3, <2>2, <2>3, <2>7
  <1>5. QED BY <1>1, <1>2, <1>3, <1>4 DEF AreTexts

\* The text of the statements of a block before its last.
Before(f, block) == FlattenSeq([i \in 1..(Len(block) - 1) |-> WrittenOut(f, block[i])])

\* The blocks below these statements have texts.
TextsBelow(f, block) ==
  \A i \in DOMAIN block : block[i].child_block # NullBlock => f[block[i].child_block] \in Seq(Tokens)

\* A block is its last statement behind the others.
LEMMA LastWritten ==
  ASSUME NEW f, NEW block \in Seq(Statements), block # <<>>, TextsBelow(f, block)
  PROVE  /\ Before(f, block) \in Seq(Tokens) /\ WrittenOut(f, block[Len(block)]) \in Seq(Tokens)
         /\ FlattenSeq(Parts(f, block)) = Before(f, block) \o WrittenOut(f, block[Len(block)])
  <1>1. PICK n \in Nat \ {0} : n = Len(block) /\ DOMAIN block = 1..n
    BY EmptySeq, LenProperties
  <1>2. ASSUME NEW i \in 1..n
        PROVE  WrittenOut(f, block[i]) \in Seq(Tokens)
    <2>1. block[i] \in Statements
      BY <1>1, ElementOfSeq
    <2>2. block[i].child_block # NullBlock => f[block[i].child_block] \in Seq(Tokens)
      BY <1>1 DEF TextsBelow
    <2>3. QED BY <2>1, <2>2, WrittenOutType
  <1>3. PICK front, last : /\ front = [i \in 1..(n - 1) |-> WrittenOut(f, block[i])]
                           /\ last = WrittenOut(f, block[n])
    OBVIOUS
  <1>4. front \in Seq(Seq(Tokens)) /\ Len(front) = n - 1
    <2>1. n - 1 \in Nat /\ \A i \in 1..(n - 1) : i \in 1..n
      BY <1>1
    <2>2. QED BY <1>2, <1>3, <2>1
  <1>5. last \in Seq(Tokens)
    BY <1>1, <1>2, <1>3
  <1>6. Parts(f, block) = Append(front, last)
    <2>1. PICK all : all = Append(front, last)
      OBVIOUS
    <2>2. /\ all \in Seq(Seq(Tokens)) /\ Len(all) = n
          /\ \A i \in 1..(n - 1) : all[i] = front[i]
          /\ all[n] = last
      <3>1. (n - 1) + 1 = n
        BY <1>1
      <3>2. QED BY <1>4, <1>5, <2>1, <3>1, AppendProperties
    <2>3. all = [i \in 1..n |-> all[i]]
      BY <2>2, LenProperties
    <2>4. \A i \in 1..n : i = n \/ i \in 1..(n - 1)
      BY <1>1
    <2>5. \A i \in 1..n : all[i] = WrittenOut(f, block[i])
      BY <1>3, <2>2, <2>4
    <2>6. QED BY <1>1, <2>1, <2>3, <2>5 DEF Parts
  <1>7. Before(f, block) = FlattenSeq(front)
    BY <1>1, <1>3 DEF Before
  <1>8. QED BY <1>1, <1>3, <1>4, <1>5, <1>6, <1>7, FlattenAppend, FlattenType

\* Before the last statement nothing changes.
LEMMA BeforeChanged ==
  ASSUME NEW f, NEW g, NEW old \in Seq(Statements), NEW new \in Seq(Statements), NEW s,
         Changed(old, new, s), SameBelow(f, g, old, Len(old) - 1)
  PROVE  Before(f, old) = Before(g, new)
  <1>1. PICK n : n = Len(old) - 1 /\ n = Len(new) - 1
    BY DEF Changed
  <1>2. \A i \in 1..n : new[i] = old[i]
    BY <1>1 DEF Changed
  <1>3. \A i \in 1..n : WrittenOut(f, old[i]) = WrittenOut(g, new[i])
    BY <1>1, <1>2 DEF SameBelow, WrittenOut
  <1>4. [i \in 1..n |-> WrittenOut(f, old[i])] = [i \in 1..n |-> WrittenOut(g, new[i])]
    BY <1>3
  <1>5. QED BY <1>1, <1>4 DEF Before

\* Before a statement that is added there is what was there.
LEMMA BeforeExtended ==
  ASSUME NEW f, NEW g, NEW old \in Seq(Statements), NEW new \in Seq(Statements), NEW s,
         Extended(old, new, s), SameBelow(f, g, old, Len(old))
  PROVE  Before(g, new) = FlattenSeq(Parts(f, old))
  <1>1. PICK n \in Nat : n = Len(old) /\ n = Len(new) - 1 /\ DOMAIN old = 1..n
    BY LenProperties DEF Extended
  <1>2. \A i \in 1..n : new[i] = old[i]
    BY <1>1 DEF Extended
  <1>3. \A i \in 1..n : WrittenOut(f, old[i]) = WrittenOut(g, new[i])
    BY <1>1, <1>2 DEF SameBelow, WrittenOut
  <1>4. [i \in 1..n |-> WrittenOut(f, old[i])] = [i \in 1..n |-> WrittenOut(g, new[i])]
    BY <1>3
  <1>5. QED BY <1>1, <1>4 DEF Before, Parts

\* The texts below a block of a tree.
LEMMA TextsAreBelow ==
  ASSUME NEW T, IsTree(T), NEW f, AreTexts(T, f), NEW b \in DOMAIN T
  PROVE  TextsBelow(f, T[b])
  <1>1. PICK n \in Nat : n = Len(T) /\ DOMAIN T = 1..n
    BY DEF IsTree
  <1>2. ASSUME NEW i \in DOMAIN T[b], T[b][i].child_block # NullBlock
        PROVE  f[T[b][i].child_block] \in Seq(Tokens)
    <2>1. T[b][i].child_block \in (b + 1)..n
      BY <1>1, <1>2 DEF IsTree
    <2>2. T[b][i].child_block \in DOMAIN T
      BY <1>1, <2>1
    <2>3. QED BY <2>2 DEF AreTexts
  <1>3. QED BY <1>2 DEF TextsBelow

\* The braces that close what is open.
LEMMA BracesAre ==
  ASSUME NEW n \in Nat
  PROVE  /\ Braces(n) \in Seq(Tokens) /\ Braces(0) = <<>>
         /\ Braces(n) \o RightBrace = Braces(n + 1) /\ RightBrace \o Braces(n) = Braces(n + 1)
  <1>1. PICK brace \in Tokens : brace = "}"
    BY DEF Tokens, Punctuation
  <1>2. \A m \in Nat : Braces(m) = [i \in 1..m |-> brace]
    BY <1>1 DEF Braces
  <1>3. \A m \in Nat : Braces(m) \in Seq(Tokens) /\ Len(Braces(m)) = m /\ \A i \in 1..m : Braces(m)[i] = brace
    BY <1>2
  <1>4. RightBrace = <<brace>> /\ RightBrace \in Seq(Tokens) /\ Len(RightBrace) = 1 /\ RightBrace[1] = brace
    <2>1. RightBrace = <<brace>>
      BY <1>1 DEF RightBrace
    <2>2. ASSUME NEW x \in Tokens
          PROVE  <<x>> \in Seq(Tokens) /\ Len(<<x>>) = 1 /\ <<x>>[1] = x
      OBVIOUS
    <2>3. QED BY <1>1, <2>1, <2>2, Zenon
  <1>5. PICK s, t : s = Braces(n) \o RightBrace /\ t = RightBrace \o Braces(n)
    OBVIOUS
  <1>6. /\ s \in Seq(Tokens) /\ Len(s) = n + 1
        /\ \A i \in 1..(n + 1) : s[i] = IF i <= n THEN Braces(n)[i] ELSE RightBrace[i - n]
    BY <1>3, <1>4, <1>5, ConcatProperties
  <1>7. /\ t \in Seq(Tokens) /\ Len(t) = n + 1
        /\ \A i \in 1..(n + 1) : t[i] = IF i <= 1 THEN RightBrace[i] ELSE Braces(n)[i - 1]
    <2>1. 1 + n = n + 1
      OBVIOUS
    <2>2. QED BY <1>3, <1>4, <1>5, <2>1, ConcatProperties
  <1>8. \A i \in 1..(n + 1) : s[i] = brace /\ t[i] = brace
    <2>1. ASSUME NEW i \in 1..(n + 1)
          PROVE  s[i] = brace /\ t[i] = brace
      <3>1. (i <= n => i \in 1..n) /\ (~(i <= n) => i - n = 1)
        OBVIOUS
      <3>2. (i <= 1 => i = 1) /\ (~(i <= 1) => i - 1 \in 1..n)
        OBVIOUS
      <3>3. QED BY <1>3, <1>4, <1>6, <1>7, <3>1, <3>2
    <2>2. QED BY <2>1
  <1>9. s = Braces(n + 1) /\ t = Braces(n + 1)
    <2>1. n + 1 \in Nat
      OBVIOUS
    <2>2. /\ Braces(n + 1) \in Seq(Tokens) /\ Len(Braces(n + 1)) = n + 1
          /\ \A i \in 1..(n + 1) : Braces(n + 1)[i] = brace
      BY <1>3, <2>1
    <2>3. QED BY <1>6, <1>7, <1>8, <2>2, SeqEqual
  <1>10. Braces(0) = <<>>
    BY <1>2
  <1>11. QED BY <1>3, <1>5, <1>9, <1>10

AreSequences(S, before, words, left, c, e, braces, right) ==
  /\ before \in Seq(S) /\ words \in Seq(S) /\ left \in Seq(S) /\ c \in Seq(S)
  /\ e \in Seq(S) /\ braces \in Seq(S) /\ right \in Seq(S)

\* c goes on with e where a block is, and so does the text around the block.
Nests(S, before, words, left, c, e, braces, right) ==
  /\ before \o (words \o (left \o c)) \in Seq(S)
  /\ before \o (words \o (left \o (c \o (e \o braces)) \o right))
       = (before \o (words \o (left \o c))) \o (e \o (braces \o right))

\* What is written into a nested block is written into the block around it.
LEMMA NestedText ==
  ASSUME NEW S, NEW before, NEW words, NEW left, NEW c, NEW e, NEW braces, NEW right,
         AreSequences(S, before, words, left, c, e, braces, right)
  PROVE  Nests(S, before, words, left, c, e, braces, right)
  <1>1. PICK inner, open, tail, head :
          inner = e \o braces /\ open = left \o c /\ tail = inner \o right /\ head = words \o open
    OBVIOUS
  <1>2. inner \in Seq(S) /\ open \in Seq(S)
    <2>1. e \in Seq(S) /\ braces \in Seq(S) /\ left \in Seq(S) /\ c \in Seq(S)
      BY DEF AreSequences
    <2>2. QED BY ONLY <1>1, <2>1, ConcatProperties
  <1>3. tail \in Seq(S) /\ head \in Seq(S)
    <2>1. right \in Seq(S) /\ words \in Seq(S)
      BY DEF AreSequences
    <2>2. QED BY ONLY <1>1, <1>2, <2>1, ConcatProperties
  <1>4. left \o (c \o inner) = open \o inner
    <2>1. left \in Seq(S) /\ c \in Seq(S) /\ inner \in Seq(S) /\ open = left \o c
      BY <1>1, <1>2 DEF AreSequences
    <2>2. QED BY ONLY <2>1, ConcatAssociative
  <1>5. (open \o inner) \o right = open \o tail
    <2>1. open \in Seq(S) /\ inner \in Seq(S) /\ right \in Seq(S) /\ tail = inner \o right
      BY <1>1, <1>2 DEF AreSequences
    <2>2. QED BY ONLY <2>1, ConcatAssociative
  <1>6. tail = e \o (braces \o right)
    <2>1. e \in Seq(S) /\ braces \in Seq(S) /\ right \in Seq(S) /\ tail = (e \o braces) \o right
      BY <1>1 DEF AreSequences
    <2>2. QED BY ONLY <2>1, ConcatAssociative
  <1>7. words \o (open \o tail) = head \o tail
    <2>1. words \in Seq(S) /\ open \in Seq(S) /\ tail \in Seq(S) /\ head = words \o open
      BY <1>1, <1>2, <1>3 DEF AreSequences
    <2>2. QED BY ONLY <2>1, ConcatAssociative
  <1>8. before \o (head \o tail) = (before \o head) \o tail
    <2>1. before \in Seq(S) /\ head \in Seq(S) /\ tail \in Seq(S)
      BY <1>3 DEF AreSequences
    <2>2. QED BY ONLY <2>1, ConcatAssociative
  <1>9. before \o head \in Seq(S)
    <2>1. before \in Seq(S) /\ head \in Seq(S)
      BY <1>3 DEF AreSequences
    <2>2. QED BY ONLY <2>1, ConcatProperties
  <1>10. QED BY ONLY <1>1, <1>4, <1>5, <1>6, <1>7, <1>8, <1>9 DEF Nests
\* What a statement that is still open lacks.
Pending == IF last_token_type = "NORMAL" THEN Semicolon ELSE <<>>

OnStack(b) == \E k \in 1..Len(config_stack) : b = config_stack[k]

\* U is the tree with another block on top of the stack, and blocks of its own.
ChangesTop(U) ==
  \A b \in DOMAIN blocks : b \in DOMAIN U /\ (b # Top => U[b] = blocks[b])

\* The texts f and g of the k-th block on the stack differ in that the one
\* goes on with e and the other with x, where the open blocks are closed.
Differ(f, g, k, e, x) ==
  \E c \in Seq(Tokens) :
    /\ f[config_stack[k]] = c \o (e \o Braces(Len(config_stack) - k))
    /\ g[config_stack[k]] = c \o (x \o Braces(Len(config_stack) - k))

\* The tree of the parser.
LEMMA ParserTree == TreeInv => IsTree(blocks)
  BY DEF TreeInv, ParserInv, ParserTypeOK, RootExists, ChildrenFollow, IsTree

\* The blocks on the stack.
LEMMA StackFacts ==
  ASSUME TreeInv, config_stack # <<>>
  PROVE  \E m \in Nat \ {0} :
           /\ m = Len(config_stack) /\ Top = config_stack[m] /\ config_stack[1] = 1
           /\ \A k \in 1..m : config_stack[k] \in DOMAIN blocks
           /\ \A k \in 1..(m - 1) : config_stack[k] # Top
  <1>1. config_stack \in Seq(DOMAIN blocks) /\ DOMAIN blocks \subseteq Nat
    BY DEF TreeInv, ParserInv, ParserTypeOK
  <1>2. PICK m \in Nat \ {0} : m = Len(config_stack) /\ DOMAIN config_stack = 1..m
    BY <1>1, EmptySeq, LenProperties
  <1>3. \A k \in 1..m : config_stack[k] \in DOMAIN blocks
    BY <1>1, <1>2, ElementOfSeq
  <1>4. Top = config_stack[m] /\ config_stack[1] = 1
    BY <1>2 DEF Top, TreeInv, ParserInv, StackIsPath
  <1>5. ASSUME NEW k \in 1..(m - 1)
        PROVE  config_stack[k] # Top
    <2>1. k \in 1..m /\ m \in 1..m /\ k < m
      BY <1>2
    <2>2. config_stack[k] < config_stack[m]
      BY <1>2, <2>1 DEF TreeInv, ParserInv, StackOrdered
    <2>3. config_stack[k] \in Nat /\ config_stack[m] \in Nat
      BY <1>1, <1>3, <2>1
    <2>4. QED BY <1>4, <2>2, <2>3
  <1>6. QED BY <1>2, <1>3, <1>4, <1>5

\* A block is only on the stack below the last statement of one on the stack.
LEMMA ChildOffStack ==
  ASSUME TreeInv, NEW b \in DOMAIN blocks, NEW i \in DOMAIN blocks[b],
         blocks[b][i].child_block # NullBlock,
         \A k \in 1..(Len(config_stack) - 1) : b = config_stack[k] => i # Len(blocks[b])
  PROVE  /\ blocks[b][i].child_block \in (b + 1)..Len(blocks)
         /\ blocks[b][i].child_block \in DOMAIN blocks
         /\ ~OnStack(blocks[b][i].child_block)
  <1>1. PICK c : c = blocks[b][i].child_block
    OBVIOUS
  <1>2. PICK n \in Nat : n = Len(blocks) /\ DOMAIN blocks = 1..n
    BY DEF TreeInv, ParserInv, ParserTypeOK
  <1>3. c \in (b + 1)..n
    BY <1>1, <1>2 DEF TreeInv, ChildrenFollow
  <1>4. ASSUME NEW k \in 1..Len(config_stack), c = config_stack[k]
        PROVE  FALSE
    <2>1. config_stack \in Seq(DOMAIN blocks)
      BY DEF TreeInv, ParserInv, ParserTypeOK
    <2>2. PICK m \in Nat : m = Len(config_stack)
      BY <2>1, LenProperties
    <2>3. CASE k = 1
      <3>1. config_stack # <<>>
        BY <2>2
      <3>2. config_stack[1] = 1
        BY <3>1 DEF TreeInv, ParserInv, StackIsPath
      <3>3. QED BY <1>2, <1>3, <1>4, <2>3, <3>2
    <2>4. CASE k # 1
      <3>1. k - 1 \in 1..(m - 1) /\ (k - 1) + 1 = k
        BY <2>2, <2>4
      <3>2. PICK j \in 1..(m - 1) : j + 1 = k
        BY <3>1
      <3>3. blocks[b][i].child_block = config_stack[j + 1] /\ j \in 1..(Len(config_stack) - 1)
        BY <1>1, <1>4, <2>2, <3>2
      <3>4. b = config_stack[j] /\ i = Len(blocks[b])
        BY <3>3 DEF TreeInv, OnlyParents
      <3>5. QED BY <2>2, <3>2, <3>4
    <2>5. QED BY <2>3, <2>4
  <1>5. c \in DOMAIN blocks
    BY <1>2, <1>3
  <1>6. QED BY <1>1, <1>2, <1>3, <1>4, <1>5 DEF OnStack

\* The texts of the blocks off the stack stay.
LEMMA OffStackTexts ==
  ASSUME TreeInv, config_stack # <<>>, NEW U, ChangesTop(U),
         NEW f, NEW g, AreTexts(blocks, f), AreTexts(U, g)
  PROVE  \A b \in DOMAIN blocks : ~OnStack(b) => f[b] = g[b]
  <1>1. PICK n \in Nat : n = Len(blocks) /\ DOMAIN blocks = 1..n
    BY DEF TreeInv, ParserInv, ParserTypeOK
  <1> DEFINE bad == {b \in 1..n : ~OnStack(b) /\ f[b] # g[b]}
  <1>2. SUFFICES ASSUME bad # {}
                 PROVE  FALSE
    BY <1>1
  <1>3. PICK b \in bad : \A c \in bad : c <= b
    <2>1. bad \in SUBSET (0..n)
      OBVIOUS
    <2> HIDE DEF bad
    <2>2. QED BY <1>2, <2>1, GreatestNatural
  <1>4. b \in 1..n /\ ~OnStack(b) /\ f[b] # g[b]
    BY <1>3
  <1>5. U[b] = blocks[b] /\ b \in DOMAIN U /\ b \in DOMAIN blocks
    <2>1. b # Top
      <3>1. PICK m \in Nat \ {0} : m = Len(config_stack) /\ Top = config_stack[m]
        BY StackFacts
      <3>2. m \in 1..m
        OBVIOUS
      <3>3. QED BY <1>4, <3>1, <3>2 DEF OnStack
    <2>2. QED BY <1>1, <1>4, <2>1 DEF ChangesTop
  <1>6. PICK block \in Seq(Statements) : block = blocks[b]
    BY <1>5 DEF TreeInv, ParserInv, ParserTypeOK
  <1>7. ASSUME NEW i \in 1..Len(block), block[i].child_block # NullBlock
        PROVE  f[block[i].child_block] = g[block[i].child_block]
    <2>1. i \in DOMAIN block
      BY LenProperties
    <2>2. \A k \in 1..(Len(config_stack) - 1) : b # config_stack[k]
      <3>1. PICK m \in Nat \ {0} : m = Len(config_stack)
        BY StackFacts
      <3>2. \A k \in 1..(m - 1) : k \in 1..m
        OBVIOUS
      <3>3. QED BY <1>4, <3>1, <3>2 DEF OnStack
    <2>3. /\ block[i].child_block \in (b + 1)..Len(blocks)
          /\ ~OnStack(block[i].child_block)
      BY <1>5, <1>6, <1>7, <2>1, <2>2, ChildOffStack
    <2>4. block[i].child_block \in 1..n /\ ~(block[i].child_block <= b)
      BY <1>1, <1>4, <2>3
    <2>5. block[i].child_block \notin bad
      BY <1>3, <2>4
    <2>6. QED BY <2>3, <2>4, <2>5
  <1>8. TextStep(blocks, f, b) = TextStep(U, g, b)
    BY <1>5, <1>6, <1>7, TextStepAgrees DEF SameBelow
  <1>9. f[b] = TextStep(blocks, f, b) /\ g[b] = TextStep(U, g, b)
    BY <1>5 DEF AreTexts
  <1>10. QED BY <1>4, <1>8, <1>9


\* The blocks below these statements have the same texts in both trees.
LEMMA SameOffStack ==
  ASSUME TreeInv, config_stack # <<>>, NEW U, ChangesTop(U),
         NEW f, NEW g, AreTexts(blocks, f), AreTexts(U, g),
         NEW b \in DOMAIN blocks, NEW n \in Nat, n < Len(blocks[b]) \/ (b = Top /\ n = Len(blocks[b]))
  PROVE  SameBelow(f, g, blocks[b], n)
  <1>1. PICK block \in Seq(Statements) : block = blocks[b]
    BY DEF TreeInv, ParserInv, ParserTypeOK
  <1>2. PICK l \in Nat : l = Len(block) /\ DOMAIN block = 1..l
    BY LenProperties
  <1>3. ASSUME NEW i \in 1..n, block[i].child_block # NullBlock
        PROVE  f[block[i].child_block] = g[block[i].child_block]
    <2>1. i \in DOMAIN block /\ (i # l \/ b = Top)
      BY <1>1, <1>2
    <2>2. \A k \in 1..(Len(config_stack) - 1) : b = config_stack[k] => i # Len(blocks[b])
      BY <1>1, <1>2, <2>1, StackFacts
    <2>3. /\ blocks[b][i].child_block \in DOMAIN blocks
          /\ ~OnStack(blocks[b][i].child_block)
      BY <1>1, <1>3, <2>1, <2>2, ChildOffStack
    <2>4. QED BY <1>1, <2>3, OffStackTexts
  <1>4. QED BY <1>1, <1>3 DEF SameBelow

\* What differs in a block on the stack differs in the block below it.
LEMMA Descends ==
  ASSUME TreeInv, config_stack # <<>>, NEW U, IsTree(U), ChangesTop(U),
         NEW f, NEW g, AreTexts(blocks, f), AreTexts(U, g),
         NEW e \in Seq(Tokens), NEW x \in Seq(Tokens),
         NEW k \in 1..(Len(config_stack) - 1), Differ(f, g, k + 1, e, x)
  PROVE  Differ(f, g, k, e, x)
  <1>1. PICK m \in Nat \ {0} :
          /\ m = Len(config_stack) /\ Top = config_stack[m]
          /\ \A l \in 1..m : config_stack[l] \in DOMAIN blocks
          /\ \A l \in 1..(m - 1) : config_stack[l] # Top
    BY StackFacts
  <1>2. k \in 1..(m - 1) /\ k \in 1..m /\ k + 1 \in 1..m /\ m - (k + 1) \in Nat /\ (m - (k + 1)) + 1 = m - k
    BY <1>1
  <1>3. PICK b \in DOMAIN blocks, d \in DOMAIN blocks : b = config_stack[k] /\ d = config_stack[k + 1]
    BY <1>1, <1>2
  <1>4. b \in DOMAIN U /\ U[b] = blocks[b]
    BY <1>1, <1>2, <1>3 DEF ChangesTop
  <1>5. PICK block \in Seq(Statements) : block = blocks[b]
    BY DEF TreeInv, ParserInv, ParserTypeOK
  <1>6. block # <<>> /\ block[Len(block)].child_block = d /\ d # NullBlock
    <2>1. d # NullBlock
      BY DEF TreeInv, ParserInv, ParserTypeOK, NullBlock
    <2>2. QED BY <1>1, <1>2, <1>3, <1>5, <2>1 DEF TreeInv, ParserInv, StackIsPath
  <1>7. PICK l \in Nat \ {0} : l = Len(block)
    BY <1>6, EmptySeq, LenProperties
  <1>8. PICK s \in Statements : s = block[l]
    <2>1. l \in 1..l
      OBVIOUS
    <2>2. QED BY <1>7, <2>1, ElementOfSeq
  <1>9. /\ f[b] = Before(f, block) \o WrittenOut(f, s)
        /\ g[b] = Before(g, block) \o WrittenOut(g, s) /\ Before(g, block) \in Seq(Tokens)
    <2>1. TextsBelow(f, block) /\ TextsBelow(g, block)
      BY <1>4, <1>5, ParserTree, TextsAreBelow
    <2>2. f[b] = FlattenSeq(Parts(f, block)) /\ g[b] = FlattenSeq(Parts(g, block))
      BY <1>4, <1>5 DEF AreTexts, TextStep
    <2>3. QED BY <1>6, <1>7, <1>8, <2>1, <2>2, LastWritten
  <1>10. Before(f, block) = Before(g, block)
    <2>1. l - 1 \in Nat /\ l - 1 < Len(blocks[b])
      BY <1>5, <1>7
    <2>2. SameBelow(f, g, blocks[b], l - 1)
      BY <2>1, SameOffStack
    <2>3. Changed(block, block, s)
      BY <1>6, <1>7, <1>8 DEF Changed
    <2>4. QED BY <1>5, <1>7, <2>2, <2>3, BeforeChanged
  <1>11. PICK before, words, c, braces :
           /\ before = Before(g, block) /\ words = s.tokens /\ braces = Braces(m - (k + 1))
           /\ c \in Seq(Tokens) /\ f[d] = c \o (e \o braces) /\ g[d] = c \o (x \o braces)
    BY <1>1, <1>3 DEF Differ
  <1>12. before \in Seq(Tokens) /\ words \in Seq(Tokens) /\ braces \in Seq(Tokens)
    <2>1. words \in Seq(Words) /\ Words \subseteq Tokens
      BY <1>11 DEF Statements, Tokens
    <2>2. words \in Seq(Tokens)
      BY <2>1, SeqMonotonic
    <2>3. QED BY <1>2, <1>9, <1>11, <2>2, BracesAre
  <1>13. /\ f[b] = before \o (words \o (LeftBrace \o (c \o (e \o braces)) \o RightBrace))
         /\ g[b] = before \o (words \o (LeftBrace \o (c \o (x \o braces)) \o RightBrace))
    BY <1>6, <1>7, <1>8, <1>9, <1>10, <1>11 DEF WrittenOut
  <1>14. braces \o RightBrace = Braces(m - k)
    BY <1>2, <1>11, BracesAre
  <1>15. PICK C : C = before \o (words \o (LeftBrace \o c))
    OBVIOUS
  <1>16. C \in Seq(Tokens) /\ f[b] = C \o (e \o Braces(m - k)) /\ g[b] = C \o (x \o Braces(m - k))
    <2>1. c \in Seq(Tokens) /\ LeftBrace \in Seq(Tokens) /\ RightBrace \in Seq(Tokens)
      BY <1>11, PunctuationIs
    <2>2. /\ AreSequences(Tokens, before, words, LeftBrace, c, e, braces, RightBrace)
          /\ AreSequences(Tokens, before, words, LeftBrace, c, x, braces, RightBrace)
      BY <1>12, <2>1 DEF AreSequences
    <2>3. /\ Nests(Tokens, before, words, LeftBrace, c, e, braces, RightBrace)
          /\ Nests(Tokens, before, words, LeftBrace, c, x, braces, RightBrace)
      BY ONLY <2>2, NestedText, Zenon
    <2>4. /\ C \in Seq(Tokens) /\ f[b] = C \o (e \o (braces \o RightBrace))
          /\ g[b] = C \o (x \o (braces \o RightBrace))
      BY ONLY <1>13, <1>15, <2>3 DEF Nests
    <2>5. QED BY <1>14, <2>4
  <1>17. QED BY <1>1, <1>3, <1>16 DEF Differ

\* What differs in the block on top of the stack differs in the root block.
LEMMA ToTheRoot ==
  ASSUME TreeInv, config_stack # <<>>, NEW U, IsTree(U), ChangesTop(U),
         NEW f, NEW g, AreTexts(blocks, f), AreTexts(U, g),
         NEW e \in Seq(Tokens), NEW x \in Seq(Tokens), Differ(f, g, Len(config_stack), e, x)
  PROVE  Differ(f, g, 1, e, x)
  <1>1. PICK m \in Nat \ {0} : m = Len(config_stack)
    BY StackFacts
  <1> DEFINE bad == {k \in 1..m : ~Differ(f, g, k, e, x)}
  <1>2. SUFFICES ASSUME bad # {}
                 PROVE  FALSE
    BY <1>1
  <1>3. PICK k \in bad : \A l \in bad : l <= k
    <2>1. bad \in SUBSET (0..m)
      OBVIOUS
    <2> HIDE DEF bad
    <2>2. QED BY <1>2, <2>1, GreatestNatural
  <1>4. k \in 1..m /\ ~Differ(f, g, k, e, x) /\ k # m
    BY <1>1, <1>3
  <1>5. k \in 1..(m - 1) /\ k + 1 \in 1..m /\ ~(k + 1 <= k)
    BY <1>4
  <1>6. Differ(f, g, k + 1, e, x)
    BY <1>3, <1>5
  <1>7. QED BY <1>1, <1>4, <1>5, <1>6, Descends

\* Texts that go on alike and end alike begin alike.
LEMMA BeginAlike ==
  ASSUME NEW S, NEW code, NEW c, NEW e, NEW braces,
         code \in Seq(S), c \in Seq(S), e \in Seq(S), braces \in Seq(S),
         c \o (e \o braces) = (code \o e) \o braces
  PROVE  c = code
  <1>1. PICK end : end = e \o braces
    OBVIOUS
  <1>2. end \in Seq(S)
    <2>1. e \in Seq(S) /\ braces \in Seq(S)
      OBVIOUS
    <2>2. QED BY ONLY <1>1, <2>1, ConcatProperties
  <1>3. (code \o e) \o braces = code \o end
    <2>1. code \in Seq(S) /\ e \in Seq(S) /\ braces \in Seq(S)
      OBVIOUS
    <2>2. QED BY ONLY <1>1, <2>1, ConcatAssociative
  <1>4. c \o end = code \o end
    BY <1>1, <1>3
  <1>5. c \in Seq(S) /\ code \in Seq(S)
    OBVIOUS
  <1>6. \A r, t, v \in Seq(S) : r \o v = t \o v => r = t
    BY ONLY ConcatSimplifications, Zenon
  <1>7. QED BY ONLY <1>2, <1>4, <1>5, <1>6, Zenon

PendingIs == Pending \in Seq(Tokens)

\* The tree is the code, with what is still open closed.
Spelled == to_string(blocks) = (Code \o Pending) \o Braces(Len(config_stack) - 1)

\* What the block on top of the stack goes on with, the text of the tree does.
LEMMA Rewritten ==
  ASSUME TreeInv, config_stack # <<>>, Spelled, PendingIs,
         NEW U, IsTree(U), ChangesTop(U), NEW x \in Seq(Tokens),
         \A f, g : AreTexts(blocks, f) /\ AreTexts(U, g) => Differ(f, g, Len(config_stack), Pending, x)
  PROVE  to_string(U) = Code \o (x \o Braces(Len(config_stack) - 1))
  <1>1. PICK f : AreTexts(blocks, f) /\ to_string(blocks) = f[1]
    BY ParserTree, TextOf
  <1>2. PICK g : AreTexts(U, g) /\ to_string(U) = g[1]
    BY TextOf
  <1>3. PICK e, code, braces :
          e = Pending /\ code = Code /\ braces = Braces(Len(config_stack) - 1)
    OBVIOUS
  <1>4. e \in Seq(Tokens) /\ code \in Seq(Tokens) /\ braces \in Seq(Tokens)
    <2>1. PICK m \in Nat \ {0} : m = Len(config_stack)
      BY StackFacts
    <2>2. m - 1 \in Nat
      OBVIOUS
    <2>3. QED BY <1>3, <2>1, <2>2, BracesAre DEF PendingIs, TreeInv, CodeInv
  <1>5. Differ(f, g, 1, e, x)
    <2>1. Differ(f, g, Len(config_stack), e, x)
      BY <1>1, <1>2, <1>3
    <2>2. QED BY <1>1, <1>2, <1>4, <2>1, ToTheRoot
  <1>6. config_stack[1] = 1
    BY StackFacts
  <1>7. PICK c \in Seq(Tokens) : f[1] = c \o (e \o braces) /\ g[1] = c \o (x \o braces)
    BY <1>3, <1>5, <1>6 DEF Differ
  <1>8. c \o (e \o braces) = (code \o e) \o braces
    BY <1>1, <1>3, <1>7 DEF Spelled
  <1>9. c = code
    <2>1. c \in Seq(Tokens)
      OBVIOUS
    <2>2. QED BY ONLY <1>4, <1>8, <2>1, BeginAlike
  <1>10. QED BY <1>2, <1>3, <1>7, <1>9

\* The texts of the block on top of the stack.
LEMMA DifferOnTop ==
  ASSUME TreeInv, config_stack # <<>>, NEW f, NEW g, NEW e, NEW x, NEW c,
         c \in Seq(Tokens), e \in Seq(Tokens), x \in Seq(Tokens), f[Top] = c \o e, g[Top] = c \o x
  PROVE  Differ(f, g, Len(config_stack), e, x)
  <1>1. PICK m \in Nat \ {0} : m = Len(config_stack) /\ Top = config_stack[m]
    BY StackFacts
  <1>2. Braces(m - m) = <<>>
    <2>1. m - m = 0 /\ 0 \in Nat
      OBVIOUS
    <2>2. QED BY <2>1, BracesAre
  <1>3. e \o <<>> = e /\ x \o <<>> = x
    BY ConcatEmptySeq
  <1>4. QED BY <1>1, <1>2, <1>3 DEF Differ

\* The block on top of the stack, in both trees.
LEMMA TopTexts ==
  ASSUME TreeInv, config_stack # <<>>, NEW U, IsTree(U), ChangesTop(U),
         NEW f, NEW g, AreTexts(blocks, f), AreTexts(U, g)
  PROVE  /\ f[Top] = FlattenSeq(Parts(f, blocks[Top])) /\ f[Top] \in Seq(Tokens) /\ TextsBelow(f, blocks[Top])
         /\ g[Top] = FlattenSeq(Parts(g, U[Top])) /\ g[Top] \in Seq(Tokens) /\ TextsBelow(g, U[Top])
         /\ blocks[Top] \in Seq(Statements) /\ U[Top] \in Seq(Statements)
         /\ SameBelow(f, g, blocks[Top], Len(blocks[Top]))
  <1>1. PICK b : b = Top
    OBVIOUS
  <1>2. b \in DOMAIN blocks /\ b \in DOMAIN U /\ blocks[b] \in Seq(Statements) /\ U[b] \in Seq(Statements)
    BY <1>1, TopIs DEF TreeInv, ChangesTop, IsTree
  <1>3. /\ f[b] = FlattenSeq(Parts(f, blocks[b])) /\ f[b] \in Seq(Tokens)
        /\ g[b] = FlattenSeq(Parts(g, U[b])) /\ g[b] \in Seq(Tokens)
    BY <1>2 DEF AreTexts, TextStep
  <1>4. TextsBelow(f, blocks[b]) /\ TextsBelow(g, U[b])
    BY <1>2, ParserTree, TextsAreBelow
  <1>5. SameBelow(f, g, blocks[b], Len(blocks[b]))
    <2>1. Len(blocks[b]) \in Nat
      BY <1>2, LenProperties
    <2>2. QED BY <1>1, <1>2, <2>1, SameOffStack
  <1>6. QED BY <1>1, <1>2, <1>3, <1>4, <1>5

Shifts(a, b, c, d) == c = a \o b => c \o d = a \o (b \o d)

\* What is concatenated in the middle may be concatenated before.
LEMMA Shifted ==
  ASSUME NEW S, NEW a, NEW b, NEW c, NEW d, a \in Seq(S), b \in Seq(S), d \in Seq(S)
  PROVE  Shifts(a, b, c, d)
  <1>1. a \in Seq(S) /\ b \in Seq(S) /\ d \in Seq(S)
    OBVIOUS
  <1>2. QED BY ONLY <1>1, ConcatAssociative DEF Shifts

\* The last statement, in which words are still being read, goes on with x.
LEMMA TopChanged ==
  ASSUME TreeInv, config_stack # <<>>, last_token_type = "NORMAL",
         NEW U, IsTree(U), ChangesTop(U), NEW f, NEW g, AreTexts(blocks, f), AreTexts(U, g),
         NEW s, Changed(blocks[Top], U[Top], s), NEW x \in Seq(Tokens),
         WrittenOut(g, s) = Last(blocks[Top]).tokens \o x
  PROVE  Differ(f, g, Len(config_stack), Pending, x)
  <1>1. PICK old \in Seq(Statements), new \in Seq(Statements) : old = blocks[Top] /\ new = U[Top]
    BY TopTexts
  <1>2. /\ f[Top] = FlattenSeq(Parts(f, old)) /\ TextsBelow(f, old)
        /\ g[Top] = FlattenSeq(Parts(g, new)) /\ TextsBelow(g, new)
        /\ SameBelow(f, g, old, Len(old))
    BY <1>1, TopTexts
  <1>3. PICK n \in Nat \ {0} : n = Len(old) /\ n = Len(new)
    BY <1>1, EmptySeq, LenProperties DEF Changed
  <1>4. old # <<>> /\ new # <<>> /\ new[n] = s
    BY <1>1, <1>3, EmptySeq DEF Changed
  <1>5. Last(old) = old[n] /\ Last(old) \in Statements /\ Last(old).child_block = NullBlock
    BY <1>1, <1>3, TopIs DEF TreeInv
  <1>6. PICK words : words = Last(old).tokens
    OBVIOUS
  <1>7. words \in Seq(Tokens)
    <2>1. words \in Seq(Words) /\ Words \subseteq Tokens
      BY <1>5, <1>6 DEF Statements, Tokens
    <2>2. QED BY <2>1, SeqMonotonic
  <1>8. PICK before : before = Before(f, old) /\ before = Before(g, new)
    <2>1. \A i \in 1..(n - 1) : i \in 1..n
      OBVIOUS
    <2>2. SameBelow(f, g, old, Len(old) - 1)
      BY <1>2, <1>3, <2>1 DEF SameBelow
    <2>3. Changed(old, new, s)
      BY <1>1
    <2>4. QED BY <2>2, <2>3, BeforeChanged
  <1>9. /\ before \in Seq(Tokens) /\ f[Top] = before \o (words \o Semicolon)
        /\ g[Top] = before \o (words \o x)
    <2>1. WrittenOut(f, old[n]) = words \o Semicolon /\ WrittenOut(g, new[n]) = words \o x
      BY <1>1, <1>4, <1>5, <1>6 DEF WrittenOut
    <2>2. QED BY <1>2, <1>3, <1>4, <1>8, <2>1, LastWritten
  <1>10. PICK c : c = before \o words
    OBVIOUS
  <1>11. c \in Seq(Tokens) /\ f[Top] = c \o Semicolon /\ g[Top] = c \o x
    <2>1. before \in Seq(Tokens) /\ words \in Seq(Tokens)
      BY <1>7, <1>9
    <2>2. c \in Seq(Tokens)
      BY ONLY <1>10, <2>1, ConcatProperties
    <2>3. c \o Semicolon = before \o (words \o Semicolon)
      <3>1. PICK end \in Seq(Tokens) : end = Semicolon
        BY PunctuationIs
      <3>2. c \o end = before \o (words \o end)
        <4>1. Shifts(before, words, c, end)
          BY ONLY <2>1, <3>1, Shifted, Zenon
        <4>2. QED BY ONLY <1>10, <4>1 DEF Shifts
      <3>3. QED BY <3>1, <3>2
    <2>4. x \in Seq(Tokens)
      OBVIOUS
    <2>5. c \o x = before \o (words \o x)
      <3>1. Shifts(before, words, c, x)
        BY ONLY <2>1, <2>4, Shifted, Zenon
      <3>2. QED BY ONLY <1>10, <3>1 DEF Shifts
    <2>6. QED BY <1>9, <2>2, <2>3, <2>5
  <1>12. Pending = Semicolon
    BY DEF Pending
  <1>13. QED BY <1>11, <1>12, PunctuationIs, DifferOnTop

Regroups(a, b, c, d) == a \o ((b \o c) \o d) = ((a \o b) \o c) \o d

\* Pieces of a text, in another grouping.
LEMMA Regrouped ==
  ASSUME NEW S, NEW a, NEW b, NEW c, NEW d, a \in Seq(S), b \in Seq(S), c \in Seq(S), d \in Seq(S)
  PROVE  Regroups(a, b, c, d)
  <1>1. PICK bc, ab : bc = b \o c /\ ab = a \o b
    OBVIOUS
  <1>2. a \in Seq(S) /\ b \in Seq(S)
    OBVIOUS
  <1>3. b \in Seq(S) /\ c \in Seq(S)
    OBVIOUS
  <1>4. bc \in Seq(S)
    BY ONLY <1>1, <1>3, ConcatProperties
  <1>5. (a \o bc) \o d = a \o (bc \o d)
    <2>1. a \in Seq(S) /\ bc \in Seq(S) /\ d \in Seq(S)
      BY <1>4
    <2>2. QED BY ONLY <2>1, ConcatAssociative
  <1>6. ab \o c = a \o bc
    <2>1. a \in Seq(S) /\ b \in Seq(S) /\ c \in Seq(S)
      OBVIOUS
    <2>2. QED BY ONLY <1>1, <2>1, ConcatAssociative
  <1>7. QED BY ONLY <1>1, <1>5, <1>6 DEF Regroups

\* What is pending is tokens.
LEMMA PendingTokens == PendingIs
  <1>1. <<>> \in Seq(Tokens)
    OBVIOUS
  <1>2. QED BY <1>1, PunctuationIs DEF PendingIs, Pending

\* The tree after a step.
LEMMA NextTree == TreeInv' => IsTree(blocks')
  BY DEF TreeInv, ParserInv, ParserTypeOK, RootExists, ChildrenFollow, IsTree

\* A text with no tokens.
LEMMA NoText == ASSUME NEW f PROVE FlattenSeq(Parts(f, <<>>)) = <<>>
  <1>1. Parts(f, <<>>) = <<>>
    BY DEF Parts
  <1>2. QED BY <1>1, FlattenNone

\* A word begins a statement in the block on top of the stack.
LEMMA WordBegins ==
  ASSUME TreeInv, config_stack # <<>>, last_token_type # "NORMAL",
         NEW U, IsTree(U), ChangesTop(U), NEW f, NEW g, AreTexts(blocks, f), AreTexts(U, g),
         NEW word \in Words, Extended(blocks[Top], U[Top], Statement(<<word>>, NullBlock))
  PROVE  Differ(f, g, Len(config_stack), Pending, <<word>> \o Semicolon)
  <1>1. PICK old \in Seq(Statements), new \in Seq(Statements), s \in {Statement(<<word>>, NullBlock)} :
          old = blocks[Top] /\ new = U[Top] /\ s = Statement(<<word>>, NullBlock)
    BY TopTexts
  <1>2. /\ f[Top] = FlattenSeq(Parts(f, old)) /\ f[Top] \in Seq(Tokens)
        /\ g[Top] = FlattenSeq(Parts(g, new)) /\ TextsBelow(g, new)
        /\ SameBelow(f, g, old, Len(old)) /\ Extended(old, new, s)
    BY <1>1, TopTexts
  <1>3. PICK n \in Nat : n = Len(old) /\ Len(new) = n + 1 /\ new[n + 1] = s
    BY <1>2, LenProperties DEF Extended
  <1>4. Before(g, new) = f[Top]
    BY <1>2, BeforeExtended
  <1>5. PICK x : x = <<word>> \o Semicolon
    OBVIOUS
  <1>6. WrittenOut(g, s) = x
    BY <1>1, <1>5 DEF WrittenOut, Statement
  <1>7. new # <<>>
    BY <1>3, EmptySeq
  <1>8. g[Top] = f[Top] \o x /\ x \in Seq(Tokens)
    BY <1>2, <1>3, <1>4, <1>6, <1>7, LastWritten
  <1>9. PICK c \in Seq(Tokens) : c = f[Top]
    BY <1>2
  <1>10. Pending = <<>> /\ <<>> \in Seq(Tokens) /\ f[Top] = c \o <<>>
    BY <1>9, ConcatEmptySeq, EmptySeq DEF Pending
  <1>11. QED BY <1>5, <1>8, <1>9, <1>10, DifferOnTop

\* A word is added to the statement it stands in.
LEMMA WordGoesOn ==
  ASSUME TreeInv, config_stack # <<>>, last_token_type = "NORMAL",
         NEW U, IsTree(U), ChangesTop(U), NEW f, NEW g, AreTexts(blocks, f), AreTexts(U, g),
         NEW word \in Words,
         Changed(blocks[Top], U[Top], Statement(Append(Last(blocks[Top]).tokens, word), NullBlock))
  PROVE  Differ(f, g, Len(config_stack), Pending, <<word>> \o Semicolon)
  <1>1. PICK words, s, one, x :
          /\ words = Last(blocks[Top]).tokens /\ s = Statement(Append(words, word), NullBlock)
          /\ one = <<word>> /\ x = one \o Semicolon
    OBVIOUS
  <1>2. word \in Tokens /\ one \in Seq(Tokens)
    BY <1>1 DEF Tokens
  <1>3. words \in Seq(Tokens)
    <2>1. words \in Seq(Words) /\ Words \subseteq Tokens
      BY <1>1, TopIs DEF TreeInv, Statements, Tokens
    <2>2. QED BY <2>1, SeqMonotonic
  <1>4. x \in Seq(Tokens)
    BY ONLY <1>1, <1>2, PunctuationIs, ConcatProperties
  <1>5. WrittenOut(g, s) = Append(words, word) \o Semicolon
    BY <1>1 DEF WrittenOut, Statement
  <1>6. Append(words, word) = words \o one
    BY ONLY <1>1, <1>2, <1>3, AppendIsConcat
  <1>7. (words \o one) \o Semicolon = words \o x
    <2>1. PICK end \in Seq(Tokens) : end = Semicolon
      BY PunctuationIs
    <2>2. (words \o one) \o end = words \o (one \o end)
      BY ONLY <1>2, <1>3, ConcatAssociative
    <2>3. QED BY <1>1, <2>1, <2>2
  <1>8. Changed(blocks[Top], U[Top], s) /\ WrittenOut(g, s) = Last(blocks[Top]).tokens \o x
    BY <1>1, <1>5, <1>6, <1>7
  <1>9. Differ(f, g, Len(config_stack), Pending, x)
    BY <1>4, <1>8, TopChanged
  <1>10. QED BY <1>1, <1>9

\* An opening brace gives the statement a block, which is empty.
LEMMA BlockBegins ==
  ASSUME TreeInv, config_stack # <<>>, last_token_type = "NORMAL",
         NEW U, IsTree(U), ChangesTop(U), NEW f, NEW g, AreTexts(blocks, f), AreTexts(U, g),
         NEW b \in DOMAIN U, b # NullBlock, U[b] = <<>>,
         Changed(blocks[Top], U[Top], Statement(Last(blocks[Top]).tokens, b))
  PROVE  Differ(f, g, Len(config_stack), Pending, LeftBrace \o RightBrace)
  <1>1. PICK words, s, x :
          /\ words = Last(blocks[Top]).tokens /\ s = Statement(words, b)
          /\ x = LeftBrace \o RightBrace
    OBVIOUS
  <1>2. x \in Seq(Tokens)
    BY ONLY <1>1, PunctuationIs, ConcatProperties
  <1>3. g[b] = <<>>
    BY NoText DEF AreTexts, TextStep
  <1>4. WrittenOut(g, s) = words \o (LeftBrace \o <<>> \o RightBrace)
    BY <1>1, <1>3 DEF WrittenOut, Statement
  <1>5. LeftBrace \o <<>> = LeftBrace
    BY PunctuationIs, ConcatEmptySeq
  <1>6. Changed(blocks[Top], U[Top], s) /\ WrittenOut(g, s) = Last(blocks[Top]).tokens \o x
    BY <1>1, <1>4, <1>5
  <1>7. Differ(f, g, Len(config_stack), Pending, x)
    BY <1>2, <1>6, TopChanged
  <1>8. QED BY <1>1, <1>7

\* The tree is the code after a word.
LEMMA NormalSpells ==
  ASSUME TreeInv, TreeInv', Spelled, NEW word \in Words, Normal(word)
  PROVE  Spelled'
  <1>1. /\ config_stack # <<>> /\ UNCHANGED config_stack /\ last_token_type' = "NORMAL"
        /\ DOMAIN blocks' = DOMAIN blocks
        /\ \A b \in DOMAIN blocks : b # Top => blocks'[b] = blocks[b]
        /\ \/ /\ last_token_type # "NORMAL"
              /\ Extended(blocks[Top], blocks'[Top], Statement(<<word>>, NullBlock))
           \/ /\ last_token_type = "NORMAL"
              /\ Changed(blocks[Top], blocks'[Top],
                         Statement(Append(Last(blocks[Top]).tokens, word), NullBlock))
    BY NormalIs DEF TreeInv
  <1>2. PICK U : U = blocks' /\ IsTree(U) /\ ChangesTop(U)
    BY <1>1, NextTree DEF ChangesTop
  <1>3. PICK one, x : one = <<word>> /\ x = one \o Semicolon
    OBVIOUS
  <1>4. word \in Tokens /\ one \in Seq(Tokens)
    BY <1>3 DEF Tokens
  <1>5. x \in Seq(Tokens)
    BY ONLY <1>3, <1>4, PunctuationIs, ConcatProperties
  <1>6. ASSUME NEW f, NEW g, AreTexts(blocks, f), AreTexts(U, g)
        PROVE  Differ(f, g, Len(config_stack), Pending, x)
    <2>1. CASE Extended(blocks[Top], U[Top], Statement(<<word>>, NullBlock)) /\ last_token_type # "NORMAL"
      BY <1>1, <1>2, <1>3, <1>6, <2>1, WordBegins
    <2>2. CASE /\ last_token_type = "NORMAL"
               /\ Changed(blocks[Top], U[Top],
                          Statement(Append(Last(blocks[Top]).tokens, word), NullBlock))
      BY <1>1, <1>2, <1>3, <1>6, <2>2, WordGoesOn
    <2>3. QED BY <1>1, <1>2, <2>1, <2>2
  <1>7. PICK code, braces : code = Code /\ braces = Braces(Len(config_stack) - 1)
    OBVIOUS
  <1>8. to_string(U) = code \o (x \o braces)
    BY <1>1, <1>2, <1>5, <1>6, <1>7, PendingTokens, Rewritten
  <1>9. code \in Seq(Tokens) /\ braces \in Seq(Tokens)
    <2>1. PICK m \in Nat \ {0} : m = Len(config_stack)
      BY <1>1, StackFacts
    <2>2. m - 1 \in Nat
      OBVIOUS
    <2>3. QED BY <1>7, <2>1, <2>2, BracesAre DEF TreeInv, CodeInv
  <1>10. Code' = code \o one
    <2>1. Code' = Append(code, word)
      BY <1>4, <1>7, TokenRead DEF Normal
    <2>2. QED BY <1>3, <1>4, <1>9, <2>1, AppendIsConcat
  <1>11. code \o ((one \o Semicolon) \o braces) = ((code \o one) \o Semicolon) \o braces
    <2>1. PICK end \in Seq(Tokens) : end = Semicolon
      BY PunctuationIs
    <2>2. code \in Seq(Tokens) /\ one \in Seq(Tokens) /\ end \in Seq(Tokens) /\ braces \in Seq(Tokens)
      BY <1>4, <1>9
    <2>3. Regroups(code, one, end, braces)
      BY ONLY <2>2, Regrouped, Zenon
    <2>4. QED BY <2>1, <2>3 DEF Regroups
  <1>12. Pending' = Semicolon
    BY <1>1 DEF Pending
  <1>13. QED BY <1>1, <1>2, <1>3, <1>7, <1>8, <1>10, <1>11, <1>12 DEF Spelled

\* The tree is the code after an opening brace.
LEMMA StartBlockSpells ==
  ASSUME TreeInv, TreeInv', Spelled, StartBlock
  PROVE  Spelled'
  <1>1. PICK n \in Nat, m \in Nat : n = Len(blocks) /\ m = Len(config_stack)
    BY LenProperties DEF TreeInv, ParserInv, ParserTypeOK
  <1>2. /\ config_stack # <<>> /\ config_stack' = Append(config_stack, n + 1)
        /\ last_token_type = "NORMAL" /\ last_token_type' = "START_BLOCK"
        /\ DOMAIN blocks' = 1..(n + 1) /\ blocks'[n + 1] = <<>>
        /\ \A b \in DOMAIN blocks : b # Top => blocks'[b] = blocks[b]
        /\ Changed(blocks[Top], blocks'[Top], Statement(Last(blocks[Top]).tokens, n + 1))
    BY <1>1, StartBlockIs DEF TreeInv
  <1>3. DOMAIN blocks \subseteq 1..(n + 1)
    BY <1>1 DEF TreeInv, ParserInv, ParserTypeOK
  <1>4. PICK U : U = blocks' /\ IsTree(U) /\ ChangesTop(U)
    BY <1>2, <1>3, NextTree DEF ChangesTop
  <1>5. PICK b \in DOMAIN U : b = n + 1 /\ b # NullBlock
    <2>1. n + 1 \in 1..(n + 1) /\ n + 1 # 0
      OBVIOUS
    <2>2. QED BY <1>2, <1>4, <2>1 DEF NullBlock
  <1>6. PICK x : x = LeftBrace \o RightBrace
    OBVIOUS
  <1>7. x \in Seq(Tokens)
    BY ONLY <1>6, PunctuationIs, ConcatProperties
  <1>8. ASSUME NEW f, NEW g, AreTexts(blocks, f), AreTexts(U, g)
        PROVE  Differ(f, g, Len(config_stack), Pending, x)
    <2>1. U[b] = <<>> /\ Changed(blocks[Top], U[Top], Statement(Last(blocks[Top]).tokens, b))
      BY <1>2, <1>4, <1>5
    <2>2. QED BY <1>2, <1>4, <1>5, <1>6, <1>8, <2>1, BlockBegins
  <1>9. PICK code, braces, left, right :
          /\ code = Code /\ braces = Braces(Len(config_stack) - 1)
          /\ left = LeftBrace /\ right = RightBrace
    OBVIOUS
  <1>10. to_string(U) = code \o (x \o braces)
    BY <1>2, <1>4, <1>7, <1>8, <1>9, PendingTokens, Rewritten
  <1>11. /\ code \in Seq(Tokens) /\ braces \in Seq(Tokens)
         /\ left \in Seq(Tokens) /\ right \in Seq(Tokens)
         /\ right \o braces = Braces(Len(config_stack') - 1)
    <2>1. m - 1 \in Nat /\ (m - 1) + 1 = m
      <3>1. m # 0
        BY <1>1, <1>2, EmptySeq DEF TreeInv, ParserInv, ParserTypeOK
      <3>2. QED BY <3>1
    <2>2. Len(config_stack') - 1 = m
      <3>1. config_stack \in Seq(Nat) /\ n + 1 \in Nat
        <4>1. config_stack \in Seq(DOMAIN blocks) /\ DOMAIN blocks \subseteq Nat
          BY DEF TreeInv, ParserInv, ParserTypeOK
        <4>2. QED BY <4>1, SeqMonotonic
      <3>2. Len(config_stack') = m + 1
        BY <1>1, <1>2, <3>1, AppendProperties
      <3>3. QED BY <3>2
    <2>3. QED BY <1>1, <1>9, <2>1, <2>2, BracesAre, PunctuationIs DEF TreeInv, CodeInv
  <1>12. PICK next \in Seq(Tokens) : next = Code' /\ next = code \o left
    <2>1. PICK lex : lex = "{"
      OBVIOUS
    <2>2. lex \in Tokens /\ Reads(lex)
      BY <2>1, TypesOfTokens DEF StartBlock
    <2>3. Code' = Append(code, lex)
      BY <1>9, <2>2, TokenRead
    <2>4. Append(code, lex) = code \o <<lex>> /\ Append(code, lex) \in Seq(Tokens)
      BY <1>11, <2>2, AppendIsConcat, AppendProperties
    <2>5. <<lex>> = left
      BY <1>9, <2>1 DEF LeftBrace
    <2>6. QED BY <2>3, <2>4, <2>5
  <1>13. code \o ((left \o right) \o braces) = ((code \o left) \o right) \o braces
    <2>1. code \in Seq(Tokens) /\ left \in Seq(Tokens) /\ right \in Seq(Tokens) /\ braces \in Seq(Tokens)
      BY <1>11
    <2>2. Regroups(code, left, right, braces)
      BY ONLY <2>1, Regrouped, Zenon
    <2>3. QED BY <2>2 DEF Regroups
  <1>14. (next \o right) \o braces = next \o (right \o braces)
    <2>1. next \in Seq(Tokens) /\ right \in Seq(Tokens) /\ braces \in Seq(Tokens)
      BY <1>11
    <2>2. QED BY ONLY <2>1, ConcatAssociative
  <1>15. next \o <<>> = next
    BY ConcatEmptySeq
  <1>16. Pending' = <<>>
    BY <1>2 DEF Pending
  <1>17. to_string(blocks') = next \o (right \o braces)
    BY <1>4, <1>6, <1>9, <1>10, <1>12, <1>13, <1>14
  <1>18. QED BY <1>11, <1>12, <1>15, <1>16, <1>17 DEF Spelled

\* The tree is the code after a semicolon.
LEMMA StatementEndSpells ==
  ASSUME TreeInv, Spelled, StatementEnd
  PROVE  Spelled'
  <1>1. PICK lex : lex = ";"
    OBVIOUS
  <1>2. lex \in Tokens /\ Reads(lex)
    BY <1>1, TypesOfTokens DEF StatementEnd
  <1>3. Code' = Append(Code, lex) /\ Code \in Seq(Tokens)
    BY <1>2, TokenRead DEF TreeInv, CodeInv
  <1>4. PICK next \in Seq(Tokens) : next = Code' /\ next = Code \o Semicolon
    <2>1. Append(Code, lex) = Code \o <<lex>> /\ Append(Code, lex) \in Seq(Tokens)
      BY <1>2, <1>3, AppendIsConcat, AppendProperties
    <2>2. <<lex>> = Semicolon
      BY <1>1 DEF Semicolon
    <2>3. QED BY <1>3, <2>1, <2>2
  <1>5. Pending = Semicolon /\ Pending' = <<>> /\ UNCHANGED <<config_stack, blocks>>
    BY DEF Pending, StatementEnd
  <1>6. next \o <<>> = next
    BY ConcatEmptySeq
  <1>7. QED BY <1>4, <1>5, <1>6 DEF Spelled

\* The tree is the code after a closing brace.
LEMMA EndBlockSpells ==
  ASSUME TreeInv, Spelled, EndBlock, config_stack' # <<>>
  PROVE  Spelled'
  <1>1. PICK lex : lex = "}"
    OBVIOUS
  <1>2. lex \in Tokens /\ Reads(lex)
    BY <1>1, TypesOfTokens DEF EndBlock
  <1>3. /\ config_stack # <<>> /\ config_stack' = Front(config_stack) /\ UNCHANGED blocks
        /\ Pending = <<>> /\ Pending' = <<>>
    BY DEF EndBlock, BeforeEndBlock, Pending
  <1>4. PICK m \in Nat : m = Len(config_stack) /\ Len(config_stack') = m - 1 /\ m - 2 \in Nat
    <2>1. config_stack \in Seq(DOMAIN blocks)
      BY DEF TreeInv, ParserInv, ParserTypeOK
    <2>2. /\ Len(config_stack) \in Nat /\ Len(config_stack') = Len(config_stack) - 1
          /\ config_stack' \in Seq(DOMAIN blocks)
      BY <1>3, <2>1, LenProperties, FrontIs
    <2>3. Len(config_stack') \in Nat /\ Len(config_stack') # 0
      BY <2>2, EmptySeq, LenProperties
    <2>4. QED BY <2>2, <2>3
  <1>5. PICK code \in Seq(Tokens), right \in Seq(Tokens), braces \in Seq(Tokens) :
          /\ code = Code /\ right = RightBrace
          /\ braces = Braces(m - 2) /\ right \o braces = Braces(m - 1)
    <2>1. (m - 2) + 1 = m - 1
      OBVIOUS
    <2>2. QED BY <1>4, <2>1, BracesAre, PunctuationIs DEF TreeInv, CodeInv
  <1>6. PICK next \in Seq(Tokens) : next = Code' /\ next = code \o right
    <2>1. Code' = Append(code, lex)
      BY <1>2, <1>5, TokenRead
    <2>2. Append(code, lex) = code \o <<lex>> /\ Append(code, lex) \in Seq(Tokens)
      BY <1>2, AppendIsConcat, AppendProperties
    <2>3. <<lex>> = right
      BY <1>1, <1>5 DEF RightBrace
    <2>4. QED BY <2>1, <2>2, <2>3
  <1>7. code \o <<>> = code /\ next \o <<>> = next
    BY ConcatEmptySeq
  <1>8. (code \o right) \o braces = code \o (right \o braces)
    <2>1. code \in Seq(Tokens) /\ right \in Seq(Tokens) /\ braces \in Seq(Tokens)
      OBVIOUS
    <2>2. QED BY ONLY <2>1, ConcatAssociative
  <1>9. Len(config_stack') - 1 = m - 2
    BY <1>4
  <1>10. QED BY <1>3, <1>4, <1>5, <1>6, <1>7, <1>8, <1>9 DEF Spelled

\* The text and the tree agree where blocks may still come.
SpelledInv == verdict \in {"reading", "valid"} /\ config_stack # <<>> => Spelled

\* An empty text, and an empty tree.
LEMMA NothingSpelled ==
  ASSUME TreeInv, Code = <<>>, Len(config_stack) = 1, blocks = <<<<>>>>, last_token_type = "START"
  PROVE  Spelled
  <1>1. PICK f : AreTexts(blocks, f) /\ to_string(blocks) = f[1]
    BY ParserTree, TextOf
  <1>2. 1 \in DOMAIN blocks /\ blocks[1] = <<>>
    OBVIOUS
  <1>3. f[1] = <<>>
    BY <1>1, <1>2, NoText DEF AreTexts, TextStep
  <1>4. Pending = <<>>
    BY DEF Pending
  <1>5. Len(config_stack) - 1 = 0 /\ 0 \in Nat
    OBVIOUS
  <1>6. Braces(Len(config_stack) - 1) = <<>>
    BY <1>5, BracesAre
  <1>7. (<<>> \o <<>>) \o <<>> = <<>>
    OBVIOUS
  <1>8. QED BY <1>1, <1>3, <1>4, <1>6, <1>7 DEF Spelled

\* No step takes the tree and the text apart.
LEMMA NextSpelledInv ==
  ASSUME TreeInv, TreeInv', SpelledInv, [Next]_vars
  PROVE  SpelledInv'
  <1>1. CASE ParserNext
    <2> SUFFICES ASSUME verdict' \in {"reading", "valid"}, config_stack' # <<>>
                 PROVE  Spelled'
      BY DEF SpelledInv
    <2>1. config_stack # <<>> => Spelled
      BY <1>1, OnlyReading DEF SpelledInv
    <2>2. CASE UNCHANGED <<Code, last_token_type, config_stack, blocks>>
      BY <2>1, <2>2 DEF Spelled, Pending
    <2>3. ASSUME NEW word \in Words, Normal(word)
          PROVE  Spelled'
      <3>1. config_stack # <<>>
        BY <2>3 DEF Normal
      <3>2. QED BY <2>1, <2>3, <3>1, NormalSpells
    <2>4. CASE StatementEnd
      <3>1. config_stack # <<>>
        BY <2>4 DEF StatementEnd
      <3>2. QED BY <2>1, <2>4, <3>1, StatementEndSpells
    <2>5. CASE StartBlock
      <3>1. config_stack # <<>>
        BY <2>5, StartBlockIs DEF TreeInv
      <3>2. QED BY <2>1, <2>5, <3>1, StartBlockSpells
    <2>6. CASE EndBlock
      <3>1. config_stack # <<>>
        BY <2>6 DEF EndBlock
      <3>2. QED BY <2>1, <2>6, <3>1, EndBlockSpells
    <2>7. verdict' \notin {"invalid", "undefined"}
      OBVIOUS
    <2>8. QED BY <1>1, <2>2, <2>3, <2>4, <2>5, <2>6, <2>7, ParserSteps
  <1>2. CASE UNCHANGED parserVars
    <2>1. UNCHANGED <<text, ending, verdict, last_token_type, config_stack, blocks>>
      BY <1>2 DEF parserVars
    <2>2. Code' = Code
      BY <2>1, CodeStays
    <2>3. QED BY <2>1, <2>2 DEF SpelledInv, Spelled, Pending
  <1>3. QED BY <1>1, <1>2, MainParses

\* The text and the tree agree in every state.
LEMMA SpelledInvariant == Spec => []SpelledInv
  <1>1. Init /\ TreeInv => SpelledInv
    <2> SUFFICES ASSUME Init, TreeInv
                 PROVE  SpelledInv
      OBVIOUS
    <2>1. text = <<>> /\ config_stack = <<1>> /\ blocks = <<<<>>>> /\ last_token_type = "START"
      BY DEF Init, ParserInit
    <2>2. Code = <<>>
      BY <2>1, CodeIs, CodeOfNothing
    <2>3. QED BY <2>1, <2>2, NothingSpelled DEF SpelledInv
  <1>2. TreeInv /\ TreeInv' /\ SpelledInv /\ [Next]_vars => SpelledInv'
    BY NextSpelledInv
  <1>3. QED BY <1>1, <1>2, TreeInvariant, PTL DEF Spec

\* Nothing is lost, added or moved: whatever the parser reads, the tree it
\* builds, written out by to_string, is the text, with what is open closed.
THEOREM MainTreeIsText == Spec => []TreeIsText
  <1>1. SpelledInv => TreeIsText
    BY DEF SpelledInv, Spelled, Pending, Semicolon, TreeIsText
  <1>2. QED BY <1>1, SpelledInvariant, PTL

-----------------------------------------------------------------------------
(* The grammar.                                                            *)

AllWords(t, i, j) == \A p \in i..(j - 1) : t[p] \in Words

\* A statement that begins at i ends before k; e gives the ends inside blocks.
Closes(t, e, i, k) ==
  \/ t[k - 1] = ";" /\ AllWords(t, i, k - 1)
  \/ /\ t[k - 1] = "}"
     /\ \E open \in (i + 1)..(k - 2) : t[open] = "{" /\ AllWords(t, i, open) /\ k - 1 \in e[open + 1]

FirstEnds(t, e, i) == {k \in (i + 2)..(Len(t) + 1) : Closes(t, e, i, k)}

EndsStep(t, e, i) == {i} \cup UNION {e[k] : k \in FirstEnds(t, e, i)}

\* e gives the ends from position k on.
EndsFrom(t, k, e) == e = [i \in k..(Len(t) + 1) |-> EndsStep(t, e, i)]

AreEnds(t, e) == \A i \in 1..(Len(t) + 1) : e[i] = EndsStep(t, e, i)

\* A configuration by that function.
LEMMA ConfigIs ==
  ASSUME NEW t
  PROVE  IsConfig(t) <=> t # <<>> /\ Len(t) + 1 \in (CHOOSE e : EndsFrom(t, 1, e))[1]
  BY DEF IsConfig, EndsFrom, EndsStep, FirstEnds, Closes, AllWords

\* Only the ends from behind the first word on count.
LEMMA EndsStepAgrees ==
  ASSUME NEW t, NEW n \in Nat, n = Len(t) + 1, NEW e, NEW g, NEW i \in 1..n,
         \A k \in (i + 2)..n : e[k] = g[k]
  PROVE  EndsStep(t, e, i) = EndsStep(t, g, i)
  <1>1. ASSUME NEW k \in (i + 2)..n
        PROVE  Closes(t, e, i, k) = Closes(t, g, i, k)
    <2>1. ASSUME NEW open \in (i + 1)..(k - 2)
          PROVE  e[open + 1] = g[open + 1]
      <3>1. open + 1 \in (i + 2)..n
        OBVIOUS
      <3>2. QED BY <3>1
    <2>2. QED BY <2>1 DEF Closes
  <1>2. PICK K : K = FirstEnds(t, e, i) /\ K = FirstEnds(t, g, i)
    BY <1>1 DEF FirstEnds
  <1>3. K \subseteq (i + 2)..n
    BY <1>2 DEF FirstEnds
  <1>4. {e[k] : k \in K} = {g[k] : k \in K}
    BY <1>3
  <1>5. QED BY <1>2, <1>4 DEF EndsStep

\* The function that IsConfig is defined by exists.
LEMMA EndsExist ==
  ASSUME NEW t, NEW n \in Nat, n = Len(t) + 1
  PROVE  \E e : EndsFrom(t, 1, e)
  <1> DEFINE bad == {d \in 0..n : ~ \E e : EndsFrom(t, (n + 1) - d, e)}
  <1>1. bad = {}
    <2>1. SUFFICES ASSUME bad # {}
                   PROVE  FALSE
      OBVIOUS
    <2>2. PICK d \in bad : \A c \in bad : d <= c
      <3>1. bad \in SUBSET Nat
        OBVIOUS
      <3>2. QED BY <2>1, <3>1, LeastNatural
    <2>3. CASE d = 0
      <3> DEFINE e == [i \in (n + 1)..n |-> {}]
      <3>1. (n + 1) - 0 = n + 1 /\ (n + 1)..n = {}
        OBVIOUS
      <3>2. EndsFrom(t, (n + 1) - 0, e)
        BY <3>1 DEF EndsFrom
      <3>3. QED BY <2>2, <2>3, <3>2
    <2>4. CASE d # 0
      <3>1. d - 1 \in 0..n /\ d - 1 \notin bad
        <4>1. d \in 1..n
          BY <2>2, <2>4
        <4>2. d - 1 \in 0..n /\ ~(d <= d - 1)
          BY ONLY <4>1, n \in Nat
        <4>3. QED BY <2>2, <4>2
      <3>2. PICK k \in 1..n : k = (n + 1) - d /\ k + 1 = (n + 1) - (d - 1)
        BY <2>2, <2>4
      <3>3. PICK g : EndsFrom(t, k + 1, g)
        BY <3>1, <3>2
      <3> DEFINE e == [i \in k..n |-> IF i = k THEN EndsStep(t, g, k) ELSE g[i]]
      <3>4. ASSUME NEW i \in k..n
            PROVE  e[i] = EndsStep(t, e, i)
        <4>1. i \in 1..n
          BY <3>2
        <4>2. ASSUME NEW j \in (i + 2)..n
              PROVE  e[j] = g[j]
          <5>1. j \in k..n /\ j # k
            BY <3>2
          <5>2. QED BY <5>1
        <4>3. e[i] = IF i = k THEN EndsStep(t, g, k) ELSE g[i]
          OBVIOUS
        <4> HIDE DEF e
        <4>4. EndsStep(t, e, i) = EndsStep(t, g, i)
          BY <4>1, <4>2, EndsStepAgrees
        <4>5. i # k => g[i] = EndsStep(t, g, i)
          <5>1. i # k => i \in (k + 1)..n
            BY <3>2
          <5>2. QED BY <3>3, <5>1 DEF EndsFrom
        <4>6. QED BY <4>3, <4>4, <4>5
      <3>5. e = [i \in k..n |-> e[i]]
        OBVIOUS
      <3> HIDE DEF e
      <3>6. EndsFrom(t, k, e)
        BY <3>4, <3>5 DEF EndsFrom
      <3>7. QED BY <2>2, <3>2, <3>6
    <2>5. QED BY <2>3, <2>4
  <1>2. n \in 0..n /\ (n + 1) - n = 1
    OBVIOUS
  <1>3. QED BY <1>1, <1>2

\* What a configuration is.
LEMMA ConfigEnds ==
  ASSUME NEW t, Len(t) \in Nat
  PROVE  \E e : /\ AreEnds(t, e)
                /\ IsConfig(t) <=> t # <<>> /\ Len(t) + 1 \in e[1]
  <1>1. PICK n \in Nat : n = Len(t) + 1
    OBVIOUS
  <1>2. PICK e : EndsFrom(t, 1, e) /\ e = (CHOOSE f : EndsFrom(t, 1, f))
    BY <1>1, EndsExist
  <1>3. AreEnds(t, e)
    BY <1>2 DEF EndsFrom, AreEnds
  <1>4. QED BY <1>2, <1>3, ConfigIs

\* Statements end where they begin, or behind the first of them.
LEMMA EndIs ==
  ASSUME NEW t, NEW n, n = Len(t) + 1, NEW e, AreEnds(t, e), NEW i \in 1..n
  PROVE  \A j : j \in e[i] <=> j = i \/ \E k \in (i + 2)..n : Closes(t, e, i, k) /\ j \in e[k]
  BY DEF AreEnds, EndsStep, FirstEnds

\* Statements end behind where they begin, within the text.
LEMMA EndsInside ==
  ASSUME NEW t, NEW n \in Nat, n = Len(t) + 1, NEW e, AreEnds(t, e)
  PROVE  \A i \in 1..n : \A j \in e[i] : j \in i..n
  <1> DEFINE bad == {i \in 1..n : \E j \in e[i] : j \notin i..n}
  <1>1. SUFFICES ASSUME bad # {}
                 PROVE  FALSE
    OBVIOUS
  <1>2. PICK i \in bad : \A k \in bad : k <= i
    <2>1. bad \in SUBSET (0..n)
      OBVIOUS
    <2> HIDE DEF bad
    <2>2. QED BY <1>1, <2>1, GreatestNatural
  <1>3. PICK j \in e[i] : j \notin i..n
    BY <1>2
  <1>4. PICK k \in (i + 2)..n : j \in e[k]
    <2>1. i \in 1..n /\ i \in i..n
      BY <1>2
    <2>2. QED BY <1>3, <2>1, EndIs
  <1>5. i \in 1..n /\ k \in 1..n /\ ~(k <= i)
    BY <1>2
  <1>6. j \in k..n
    BY <1>2, <1>4, <1>5
  <1>7. QED BY <1>3, <1>5, <1>6

\* Statements go on where statements end.
LEMMA EndsGoOn ==
  ASSUME NEW t, NEW n \in Nat, n = Len(t) + 1, NEW e, AreEnds(t, e)
  PROVE  \A i \in 1..n : \A j \in e[i] : e[j] \subseteq e[i]
  <1> DEFINE bad == {i \in 1..n : \E j \in e[i] : ~(e[j] \subseteq e[i])}
  <1>1. SUFFICES ASSUME bad # {}
                 PROVE  FALSE
    OBVIOUS
  <1>2. PICK i \in bad : \A k \in bad : k <= i
    <2>1. bad \in SUBSET (0..n)
      OBVIOUS
    <2> HIDE DEF bad
    <2>2. QED BY <1>1, <2>1, GreatestNatural
  <1>3. i \in 1..n
    BY <1>2
  <1>4. PICK j \in e[i] : ~(e[j] \subseteq e[i])
    BY <1>2
  <1>5. PICK k \in (i + 2)..n : Closes(t, e, i, k) /\ j \in e[k]
    <2>1. j # i
      BY <1>4
    <2>2. QED BY <1>3, <1>4, <2>1, EndIs
  <1>6. k \in 1..n /\ ~(k <= i)
    BY <1>3
  <1>7. e[j] \subseteq e[k]
    BY <1>2, <1>5, <1>6
  <1>8. e[k] \subseteq e[i]
    BY <1>3, <1>5, EndIs
  <1>9. QED BY <1>4, <1>7, <1>8

\* The text t stands in the text u, behind position d.
StandsIn(t, u, d) ==
  /\ Len(t) \in Nat /\ Len(u) \in Nat /\ d \in Nat /\ d + Len(t) <= Len(u)
  /\ \A p \in 1..Len(t) : u[d + p] = t[p]

\* What a statement is does not depend on the text around it.
LEMMA EndsStand ==
  ASSUME NEW t, NEW u, NEW d, StandsIn(t, u, d), NEW e, AreEnds(t, e), NEW g, AreEnds(u, g)
  PROVE  \A i \in 1..(Len(t) + 1) : \A j \in e[i] : d + j \in g[d + i]
  <1>1. PICK n \in Nat, m \in Nat : n = Len(t) + 1 /\ m = Len(u) + 1 /\ n \in 1..n
    BY DEF StandsIn
  <1>2. d \in Nat /\ d + n <= m /\ \A p \in 1..(n - 1) : u[d + p] = t[p]
    BY <1>1 DEF StandsIn
  <1> DEFINE bad == {i \in 1..n : \E j \in e[i] : d + j \notin g[d + i]}
  <1>3. SUFFICES ASSUME bad # {}
                 PROVE  FALSE
    BY <1>1
  <1>4. PICK i \in bad : \A k \in bad : k <= i
    <2>1. bad \in SUBSET (0..n)
      OBVIOUS
    <2> HIDE DEF bad
    <2>2. QED BY <1>3, <2>1, GreatestNatural
  <1>5. i \in 1..n /\ d + i \in 1..m
    BY <1>1, <1>2, <1>4
  <1>6. PICK j \in e[i] : d + j \notin g[d + i]
    BY <1>4
  <1>7. \A k : k = d + i \/ (\E l \in ((d + i) + 2)..m : Closes(u, g, d + i, l) /\ k \in g[l]) => k \in g[d + i]
    BY <1>1, <1>5, EndIs
  <1>8. PICK k \in (i + 2)..n : Closes(t, e, i, k) /\ j \in e[k]
    <2>1. j # i
      BY <1>6, <1>7
    <2>2. QED BY <1>1, <1>5, <1>6, <2>1, EndIs
  <1>9. k \in 1..n /\ ~(k <= i) /\ d + k \in ((d + i) + 2)..m /\ k - 1 \in 1..(n - 1) /\ (d + k) - 1 = d + (k - 1)
    BY <1>1, <1>2, <1>5
  <1>10. d + j \in g[d + k]
    BY <1>4, <1>8, <1>9
  <1>11. ASSUME NEW l \in i..n, AllWords(t, i, l)
         PROVE  AllWords(u, d + i, d + l)
    <2> SUFFICES ASSUME NEW p \in (d + i)..((d + l) - 1)
                 PROVE  u[p] \in Words
      BY DEF AllWords
    <2>1. p - d \in i..(l - 1) /\ p - d \in 1..(n - 1) /\ d + (p - d) = p
      BY <1>2, <1>5
    <2>2. QED BY <1>2, <1>11, <2>1 DEF AllWords
  <1>12. u[(d + k) - 1] = t[k - 1]
    BY <1>2, <1>9
  <1>13. Closes(u, g, d + i, d + k)
    <2>1. CASE t[k - 1] = ";" /\ AllWords(t, i, k - 1)
      <3>1. k - 1 \in i..n
        BY <1>5
      <3>2. QED BY <1>9, <1>11, <1>12, <2>1, <3>1 DEF Closes
    <2>2. ASSUME t[k - 1] = "}", NEW open \in (i + 1)..(k - 2), t[open] = "{", AllWords(t, i, open),
                 k - 1 \in e[open + 1]
          PROVE  Closes(u, g, d + i, d + k)
      <3>1. /\ open \in i..n /\ open \in 1..(n - 1) /\ open + 1 \in 1..n /\ ~(open + 1 <= i)
            /\ d + open \in ((d + i) + 1)..((d + k) - 2) /\ d + (open + 1) = (d + open) + 1
        BY <1>2, <1>5
      <3>2. u[d + open] = "{" /\ AllWords(u, d + i, d + open)
        BY <1>2, <1>11, <2>2, <3>1
      <3>3. (d + k) - 1 \in g[(d + open) + 1]
        BY <1>4, <1>9, <2>2, <3>1
      <3>4. QED BY <1>12, <2>2, <3>1, <3>2, <3>3 DEF Closes
    <2>3. QED BY <1>8, <2>1, <2>2 DEF Closes
  <1>14. QED BY <1>6, <1>7, <1>9, <1>10, <1>13

\* What statements are.
LEMMA EndsGiven ==
  ASSUME NEW t, Len(t) \in Nat
  PROVE  \E e : AreEnds(t, e)
  BY ConfigEnds, Zenon

\* t is a, of n lexemes, and b, of m.
Joined(t, a, n, b, m) ==
  /\ n \in Nat /\ n = Len(a) /\ m \in Nat /\ m = Len(b) /\ Len(t) = n + m
  /\ \A p \in 1..n : t[p] = a[p]
  /\ \A p \in 1..m : t[n + p] = b[p]

\* A text that is written behind another.
LEMMA JoinIs ==
  ASSUME NEW S, NEW a, NEW b, a \in Seq(S), b \in Seq(S)
  PROVE  Joined(a \o b, a, Len(a), b, Len(b)) /\ a \o b \in Seq(S)
  <1>1. PICK t, n, m : t = a \o b /\ n = Len(a) /\ m = Len(b)
    OBVIOUS
  <1>2. n \in Nat /\ m \in Nat
    BY <1>1, LenProperties
  <1>3. /\ t \in Seq(S) /\ Len(t) = n + m
        /\ \A p \in 1..(n + m) : t[p] = IF p <= n THEN a[p] ELSE b[p - n]
    <2>1. a \in Seq(S) /\ b \in Seq(S)
      OBVIOUS
    <2>2. QED BY ONLY <1>1, <2>1, ConcatProperties
  <1>4. /\ \A p \in 1..n : p \in 1..(n + m) /\ p <= n
        /\ \A p \in 1..m : n + p \in 1..(n + m) /\ ~(n + p <= n) /\ (n + p) - n = p
    BY <1>2
  <1>5. (\A p \in 1..n : t[p] = a[p]) /\ (\A p \in 1..m : t[n + p] = b[p])
    BY <1>3, <1>4
  <1>6. QED BY <1>1, <1>2, <1>3, <1>5 DEF Joined

\* The text t is statements, or nothing.
IsList(t) == \E e : AreEnds(t, e) /\ Len(t) + 1 \in e[1]

\* A list of statements that stands in a text.
LEMMA ListStands ==
  ASSUME NEW t, IsList(t), NEW u, NEW d, StandsIn(t, u, d), NEW g, AreEnds(u, g)
  PROVE  d + (Len(t) + 1) \in g[d + 1]
  <1>1. PICK e : AreEnds(t, e) /\ Len(t) + 1 \in e[1]
    BY DEF IsList
  <1>2. 1 \in 1..(Len(t) + 1)
    BY DEF StandsIn
  <1>3. QED BY <1>1, <1>2, EndsStand

\* Nothing is a list.
LEMMA NothingIsList == IsList(<<>>)
  <1>1. PICK t : t = <<>>
    OBVIOUS
  <1>2. Len(t) = 0
    BY <1>1
  <1>3. PICK e : AreEnds(t, e)
    BY <1>2, ConfigEnds
  <1>4. 1 \in 1..1 /\ 1 = Len(t) + 1
    BY <1>2
  <1>5. 1 \in e[1]
    BY <1>3, <1>4, EndIs
  <1>6. QED BY <1>1, <1>3, <1>4, <1>5 DEF IsList

\* Statements behind statements.
LEMMA ListsJoin ==
  ASSUME NEW S, NEW a \in Seq(S), NEW b \in Seq(S), IsList(a), IsList(b)
  PROVE  IsList(a \o b)
  <1>1. PICK t, n, m : t = a \o b /\ n = Len(a) /\ m = Len(b)
    OBVIOUS
  <1>2. n \in Nat /\ m \in Nat /\ Len(t) = n + m /\ Len(t) \in Nat
        /\ (\A p \in 1..n : t[p] = a[p]) /\ (\A p \in 1..m : t[n + p] = b[p])
    <2>1. Joined(t, a, n, b, m)
      <3>1. a \in Seq(S) /\ b \in Seq(S)
        OBVIOUS
      <3>2. QED BY ONLY <1>1, <3>1, JoinIs, Zenon
    <2>2. \A i, j \in Nat : i + j \in Nat
      OBVIOUS
    <2>3. QED BY ONLY <2>1, <2>2 DEF Joined
  <1>3. StandsIn(a, t, 0) /\ StandsIn(b, t, n)
    BY <1>1, <1>2 DEF StandsIn
  <1>4. PICK e : AreEnds(t, e)
    BY <1>2, EndsGiven, Zenon
  <1>5. n + 1 \in e[1]
    <2>1. 0 + (Len(a) + 1) \in e[0 + 1]
      BY <1>3, <1>4, ListStands
    <2>2. 0 + (Len(a) + 1) = n + 1 /\ 0 + 1 = 1
      BY <1>1
    <2>3. QED BY <2>1, <2>2
  <1>6. Len(t) + 1 \in e[n + 1]
    <2>1. n + (Len(b) + 1) \in e[n + 1]
      BY <1>3, <1>4, ListStands
    <2>2. n + (Len(b) + 1) = Len(t) + 1
      BY <1>1, <1>2
    <2>3. QED BY <2>1, <2>2
  <1>7. Len(t) + 1 \in Nat /\ 1 \in 1..(Len(t) + 1)
    BY <1>2
  <1>8. Len(t) + 1 \in e[1]
    BY <1>4, <1>5, <1>6, <1>7, EndsGoOn
  <1>9. QED BY <1>1, <1>4, <1>8 DEF IsList

\* A statement that ends at the end of the text.
LEMMA OneStatement ==
  ASSUME NEW t, NEW n \in Nat, n = Len(t), n > 1, NEW e, AreEnds(t, e), Closes(t, e, 1, n + 1)
  PROVE  IsList(t)
  <1>1. n + 1 \in (1 + 2)..(n + 1) /\ 1 \in 1..(n + 1) /\ n + 1 \in 1..(n + 1)
    OBVIOUS
  <1>2. n + 1 \in e[n + 1]
    BY <1>1, EndIs
  <1>3. n + 1 \in e[1]
    BY <1>1, <1>2, EndIs
  <1>4. QED BY <1>3 DEF IsList

\* Words and a semicolon are a statement.
LEMMA SimpleStatement ==
  ASSUME NEW words \in Seq(Words), words # <<>>
  PROVE  IsList(words \o Semicolon)
  <1>1. words \in Seq(Tokens)
    <2>1. Words \subseteq Tokens
      BY DEF Tokens
    <2>2. QED BY <2>1, SeqMonotonic
  <1>2. PICK w \in Nat \ {0} : w = Len(words) /\ \A p \in 1..w : words[p] \in Words
    BY EmptySeq, LenProperties, ElementOfSeq
  <1>3. PICK t : t = words \o Semicolon
    OBVIOUS
  <1>4. Len(t) = w + 1 /\ Len(t) \in Nat /\ t[w + 1] = ";" /\ \A p \in 1..w : t[p] \in Words
    <2>1. Len(Semicolon) = 1 /\ Semicolon[1] = ";"
      BY DEF Semicolon
    <2>2. Joined(t, words, w, Semicolon, Len(Semicolon))
      BY ONLY <1>1, <1>2, <1>3, PunctuationIs, JoinIs, Zenon
    <2>3. Len(t) = w + 1 /\ (\A p \in 1..w : t[p] = words[p]) /\ (\A p \in 1..1 : t[w + p] = Semicolon[p])
      BY ONLY <2>1, <2>2 DEF Joined
    <2>4. 1 \in 1..1 /\ w + 1 \in Nat
      OBVIOUS
    <2>5. QED BY <1>2, <2>1, <2>3, <2>4
  <1>5. PICK e : AreEnds(t, e)
    BY <1>4, EndsGiven, Zenon
  <1>6. Closes(t, e, 1, (w + 1) + 1)
    <2>1. ((w + 1) + 1) - 1 = w + 1 /\ (w + 1) - 1 = w
      OBVIOUS
    <2>2. AllWords(t, 1, w + 1)
      BY <1>4, <2>1 DEF AllWords
    <2>3. QED BY <1>4, <2>1, <2>2 DEF Closes
  <1>7. w + 1 \in Nat /\ w + 1 > 1
    OBVIOUS
  <1>8. QED BY <1>3, <1>4, <1>5, <1>6, <1>7, OneStatement

\* Words and a block of statements are a statement.
LEMMA BlockStatement ==
  ASSUME NEW words \in Seq(Words), words # <<>>, NEW u \in Seq(Tokens), IsList(u)
  PROVE  IsList(words \o (LeftBrace \o u \o RightBrace))
  <1>1. words \in Seq(Tokens)
    <2>1. Words \subseteq Tokens
      BY DEF Tokens
    <2>2. QED BY <2>1, SeqMonotonic
  <1>2. PICK w \in Nat \ {0} : w = Len(words) /\ \A p \in 1..w : words[p] \in Words
    BY EmptySeq, LenProperties, ElementOfSeq
  <1>3. PICK l \in Nat : l = Len(u)
    BY LenProperties
  <1>4. PICK open, block, t : open = LeftBrace \o u /\ block = open \o RightBrace /\ t = words \o block
    OBVIOUS
  <1>5. Len(LeftBrace) = 1 /\ LeftBrace[1] = "{" /\ Len(RightBrace) = 1 /\ RightBrace[1] = "}"
    BY DEF LeftBrace, RightBrace
  <1>6. /\ open \in Seq(Tokens) /\ Len(open) = 1 + l /\ open[1] = "{"
        /\ \A p \in 1..l : open[1 + p] = u[p]
    <2>1. u \in Seq(Tokens)
      OBVIOUS
    <2>2. Joined(open, LeftBrace, Len(LeftBrace), u, l) /\ open \in Seq(Tokens)
      BY ONLY <1>3, <1>4, <2>1, PunctuationIs, JoinIs, Zenon
    <2>3. /\ Len(open) = 1 + l /\ \A p \in 1..1 : open[p] = LeftBrace[p]
          /\ \A p \in 1..l : open[1 + p] = u[p]
      BY ONLY <1>5, <2>2 DEF Joined
    <2>4. 1 \in 1..1
      OBVIOUS
    <2>5. QED BY <1>5, <2>2, <2>3, <2>4
  <1>7. /\ block \in Seq(Tokens) /\ Len(block) = l + 2 /\ block[1] = "{" /\ block[l + 2] = "}"
        /\ \A p \in 1..l : block[1 + p] = u[p]
    <2>1. Joined(block, open, Len(open), RightBrace, Len(RightBrace)) /\ block \in Seq(Tokens)
      BY ONLY <1>4, <1>6, PunctuationIs, JoinIs, Zenon
    <2>2. /\ Len(block) = (1 + l) + 1 /\ \A p \in 1..(1 + l) : block[p] = open[p]
          /\ \A p \in 1..1 : block[(1 + l) + p] = RightBrace[p]
      BY ONLY <1>5, <1>6, <2>1 DEF Joined
    <2>3. /\ 1 \in 1..1 /\ 1 \in 1..(1 + l) /\ (1 + l) + 1 = l + 2
          /\ \A p \in 1..l : 1 + p \in 1..(1 + l)
      OBVIOUS
    <2>4. QED BY <1>5, <1>6, <2>1, <2>2, <2>3
  <1>8. /\ Len(t) = w + (l + 2) /\ Len(t) \in Nat /\ t[w + 1] = "{" /\ t[w + (l + 2)] = "}"
        /\ \A p \in 1..w : t[p] \in Words
        /\ \A p \in 1..l : t[(w + 1) + p] = u[p]
    <2>1. Joined(t, words, w, block, Len(block))
      BY ONLY <1>1, <1>2, <1>4, <1>7, JoinIs, Zenon
    <2>2. /\ Len(t) = w + (l + 2) /\ \A p \in 1..w : t[p] = words[p]
          /\ \A p \in 1..(l + 2) : t[w + p] = block[p]
      BY ONLY <1>7, <2>1 DEF Joined
    <2>3. /\ 1 \in 1..(l + 2) /\ l + 2 \in 1..(l + 2) /\ w + (l + 2) \in Nat
          /\ \A p \in 1..l : 1 + p \in 1..(l + 2) /\ w + (1 + p) = (w + 1) + p
      OBVIOUS
    <2>4. ASSUME NEW p \in 1..l
          PROVE  t[(w + 1) + p] = u[p]
      <3>1. t[w + (1 + p)] = block[1 + p] /\ w + (1 + p) = (w + 1) + p
        BY ONLY <2>2, <2>3
      <3>2. block[1 + p] = u[p]
        BY ONLY <1>7
      <3>3. QED BY ONLY <3>1, <3>2
    <2>5. t[w + 1] = "{" /\ t[w + (l + 2)] = "}"
      BY ONLY <1>7, <2>2, <2>3
    <2>6. \A p \in 1..w : t[p] \in Words
      BY ONLY <1>2, <2>2
    <2>7. QED BY <2>2, <2>3, <2>4, <2>5, <2>6
  <1>9. PICK n \in Nat : n = w + (l + 2)
    OBVIOUS
  <1>10. PICK e : AreEnds(t, e)
    BY <1>8, EndsGiven, Zenon
  <1>11. n \in e[(w + 1) + 1]
    <2>1. StandsIn(u, t, w + 1)
      <3>1. w + 1 \in Nat /\ l \in Nat /\ (w + 1) + l <= w + (l + 2)
        OBVIOUS
      <3>2. QED BY ONLY <1>3, <1>8, <3>1 DEF StandsIn
    <2>2. (w + 1) + (Len(u) + 1) \in e[(w + 1) + 1]
      BY <1>10, <2>1, ListStands
    <2>3. (w + 1) + (Len(u) + 1) = n
      BY <1>3, <1>9
    <2>4. QED BY <2>2, <2>3
  <1>12. Closes(t, e, 1, n + 1)
    <2>1. (n + 1) - 1 = n /\ w + 1 \in (1 + 1)..((n + 1) - 2) /\ (w + 1) - 1 = w
      BY <1>9
    <2>2. AllWords(t, 1, w + 1)
      BY <1>8, <2>1 DEF AllWords
    <2>3. t[n] = "}" /\ t[w + 1] = "{"
      BY ONLY <1>8, <1>9
    <2>4. QED BY <1>11, <2>1, <2>2, <2>3 DEF Closes
  <1>13. n > 1
    BY ONLY <1>9
  <1>14. n = Len(t)
    BY ONLY <1>8, <1>9
  <1>15. QED BY <1>4, <1>10, <1>12, <1>13, <1>14, OneStatement

\* A statement written out is a statement of the grammar.
LEMMA WrittenIsList ==
  ASSUME NEW f, NEW s \in Statements, s.tokens # <<>>,
         s.child_block # NullBlock => f[s.child_block] \in Seq(Tokens) /\ IsList(f[s.child_block])
  PROVE  IsList(WrittenOut(f, s))
  <1>1. PICK words \in Seq(Words) : words = s.tokens /\ words # <<>>
    BY DEF Statements
  <1>2. CASE s.child_block = NullBlock
    BY <1>1, <1>2, SimpleStatement DEF WrittenOut
  <1>3. CASE s.child_block # NullBlock
    <2>1. PICK u \in Seq(Tokens) : u = f[s.child_block] /\ IsList(u)
      BY <1>3
    <2>2. IsList(words \o (LeftBrace \o u \o RightBrace))
      BY <1>1, <2>1, BlockStatement
    <2>3. QED BY <1>1, <1>3, <2>1, <2>2 DEF WrittenOut
  <1>4. QED BY <1>2, <1>3

\* Lists one behind the other are a list.
LEMMA ListsFlatten ==
  ASSUME NEW n \in Nat, NEW parts, \A i \in 1..n : parts[i] \in Seq(Tokens) /\ IsList(parts[i])
  PROVE  IsList(FlattenSeq([i \in 1..n |-> parts[i]]))
  <1> DEFINE Front_(k) == [i \in 1..k |-> parts[i]]
             bad == {k \in 0..n : ~IsList(FlattenSeq(Front_(k)))}
  <1>1. SUFFICES ASSUME bad # {}
                 PROVE  FALSE
    <2>1. n \in 0..n
      OBVIOUS
    <2>2. QED BY <2>1, Zenon
  <1>2. PICK k \in bad : \A l \in bad : k <= l
    <2>1. bad \in SUBSET Nat
      OBVIOUS
    <2> HIDE DEF bad
    <2>2. QED BY <1>1, <2>1, LeastNatural
  <1>3. k \in 0..n /\ ~IsList(FlattenSeq(Front_(k)))
    BY <1>2
  <1>4. CASE k = 0
    <2>1. Front_(0) = <<>>
      OBVIOUS
    <2>2. QED BY <1>3, <1>4, <2>1, FlattenNone, NothingIsList
  <1>5. CASE k # 0
    <2>1. k - 1 \in 0..n /\ k - 1 \in Nat /\ k \in 1..n /\ ~(k <= k - 1) /\ (k - 1) + 1 = k
      BY <1>3, <1>5
    <2>2. IsList(FlattenSeq(Front_(k - 1)))
      BY <1>2, <2>1
    <2>3. PICK front, last : front = Front_(k - 1) /\ last = parts[k]
      OBVIOUS
    <2>4. front \in Seq(Seq(Tokens)) /\ Len(front) = k - 1 /\ \A i \in 1..(k - 1) : front[i] = parts[i]
      <3>1. \A i \in 1..(k - 1) : i \in 1..n
        BY <1>3
      <3>2. QED BY <2>1, <2>3, <3>1
    <2>5. last \in Seq(Tokens) /\ IsList(last)
      BY <2>1, <2>3
    <2>6. PICK all : all = Append(front, last)
      OBVIOUS
    <2>7. /\ all \in Seq(Seq(Tokens)) /\ Len(all) = k /\ all[k] = last
          /\ \A i \in 1..(k - 1) : all[i] = front[i]
      BY <2>1, <2>4, <2>5, <2>6, AppendProperties
    <2>8. all = [i \in 1..k |-> all[i]]
      BY <2>7, LenProperties
    <2>9. \A i \in 1..k : i = k \/ i \in 1..(k - 1)
      BY <1>3
    <2>10. \A i \in 1..k : all[i] = parts[i]
      BY <2>3, <2>4, <2>7, <2>9
    <2>11. all = Front_(k)
      BY <2>8, <2>10
    <2>12. FlattenSeq(all) = FlattenSeq(front) \o last
      BY <2>4, <2>5, <2>6, FlattenAppend
    <2>13. FlattenSeq(front) \in Seq(Tokens)
      BY <2>4, FlattenType
    <2>14. IsList(FlattenSeq(front) \o last)
      BY <2>2, <2>3, <2>5, <2>13, ListsJoin
    <2>15. QED BY <1>3, <2>11, <2>12, <2>14
  <1>6. QED BY <1>4, <1>5

\* The text of a tree whose statements have words is statements.
LEMMA TextIsList ==
  ASSUME NEW T, IsTree(T), NEW f, AreTexts(T, f), \A b \in DOMAIN T : \A i \in DOMAIN T[b] : T[b][i].tokens # <<>>
  PROVE  \A b \in DOMAIN T : IsList(f[b])
  <1>1. PICK n \in Nat : n = Len(T) /\ DOMAIN T = 1..n
    BY DEF IsTree
  <1> DEFINE bad == {b \in 1..n : ~IsList(f[b])}
  <1>2. SUFFICES ASSUME bad # {}
                 PROVE  FALSE
    BY <1>1
  <1>3. PICK b \in bad : \A c \in bad : c <= b
    <2>1. bad \in SUBSET (0..n)
      OBVIOUS
    <2> HIDE DEF bad
    <2>2. QED BY <1>2, <2>1, GreatestNatural
  <1>4. b \in 1..n /\ ~IsList(f[b])
    BY <1>3
  <1>5. PICK block \in Seq(Statements) : block = T[b]
    BY <1>1, <1>4 DEF IsTree
  <1>6. PICK m \in Nat : m = Len(block) /\ DOMAIN block = 1..m
    BY LenProperties
  <1>7. PICK parts : parts = Parts(f, block)
    OBVIOUS
  <1>8. ASSUME NEW i \in 1..m
        PROVE  parts[i] \in Seq(Tokens) /\ IsList(parts[i])
    <2>1. block[i] \in Statements /\ block[i].tokens # <<>> /\ parts[i] = WrittenOut(f, block[i])
      BY <1>1, <1>4, <1>5, <1>6, <1>7, ElementOfSeq DEF Parts
    <2>2. ASSUME block[i].child_block # NullBlock
          PROVE  f[block[i].child_block] \in Seq(Tokens) /\ IsList(f[block[i].child_block])
      <3>1. block[i].child_block \in (b + 1)..n
        BY <1>1, <1>4, <1>5, <1>6, <2>2 DEF IsTree
      <3>2. block[i].child_block \in 1..n /\ ~(block[i].child_block <= b)
        BY <1>4, <3>1
      <3>3. block[i].child_block \notin bad
        BY <1>3, <3>2
      <3>4. QED BY <1>1, <3>2, <3>3 DEF AreTexts
    <2>3. QED BY <2>1, <2>2, WrittenOutType, WrittenIsList
  <1>9. parts = [i \in 1..m |-> parts[i]]
    BY <1>6, <1>7 DEF Parts
  <1>10. IsList(FlattenSeq(parts))
    BY <1>8, <1>9, ListsFlatten
  <1>11. QED BY <1>1, <1>4, <1>5, <1>7, <1>10 DEF AreTexts, TextStep

\* A text that is found valid is a configuration.
LEMMA ValidIsConfig ==
  ASSUME TreeInv, TextInv, SpelledInv, MainInv, verdict = "valid"
  PROVE  IsConfig(Code)
  <1>1. last_token_type \in {"STATEMENT_END", "END_BLOCK"} /\ Len(config_stack) = 1
    BY DEF MainInv, ValidEnds
  <1>2. Code \in Seq(Tokens) /\ Code # <<>>
    BY <1>1 DEF TreeInv, CodeInv, TextInv, LastTokenIs
  <1>3. config_stack # <<>>
    BY <1>1
  <1>4. PICK code \in Seq(Tokens) : code = Code
    BY <1>2
  <1>5. to_string(blocks) = code
    <2>1. to_string(blocks) = (code \o <<>>) \o Braces(Len(config_stack) - 1)
      BY <1>1, <1>3, <1>4 DEF SpelledInv, Spelled, Pending
    <2>2. Len(config_stack) - 1 = 0 /\ 0 \in Nat
      BY <1>1
    <2>3. Braces(Len(config_stack) - 1) = <<>>
      BY <2>2, BracesAre
    <2>4. code \o <<>> = code
      BY ConcatEmptySeq
    <2>5. QED BY <2>1, <2>3, <2>4
  <1>6. PICK f : AreTexts(blocks, f) /\ to_string(blocks) = f[1]
    BY ParserTree, TextOf
  <1>7. IsList(code)
    <2>1. 1 \in DOMAIN blocks /\ \A b \in DOMAIN blocks : \A i \in DOMAIN blocks[b] : blocks[b][i].tokens # <<>>
      BY DEF TreeInv, ParserInv, RootExists, ChildrenFollow
    <2>2. IsList(f[1])
      BY <1>6, <2>1, ParserTree, TextIsList
    <2>3. QED BY <1>5, <1>6, <2>2
  <1>8. PICK n \in Nat : n = Len(code)
    BY LenProperties
  <1>9. PICK e : AreEnds(code, e) /\ (IsConfig(code) <=> code # <<>> /\ n + 1 \in e[1])
    BY <1>8, ConfigEnds
  <1>10. n + 1 \in e[1]
    <2>1. StandsIn(code, code, 0)
      BY <1>8 DEF StandsIn
    <2>2. 0 + (Len(code) + 1) \in e[0 + 1]
      BY <1>7, <1>9, <2>1, ListStands
    <2>3. 0 + (Len(code) + 1) = n + 1 /\ 0 + 1 = 1
      BY <1>8
    <2>4. QED BY <2>2, <2>3
  <1>11. QED BY <1>2, <1>4, <1>9, <1>10

\* What a list of statements ends with.
StatementEnds == {";", "}"}

\* A semicolon and an opening brace stand behind a word, a closing brace does
\* not, and none of them at the beginning of a list, which is position i.
Placed(t, i, p) ==
  /\ t[p] \in AfterWords => i < p /\ t[p - 1] \in Words
  /\ t[p] = "}" => i < p /\ t[p - 1] \notin Words

\* No word is punctuation.
LEMMA NoWords ==
  /\ \A w \in Words : w \notin AfterWords /\ w # "}"
  /\ \A w \in StatementEnds : w \notin Words
  /\ "{" \notin Words /\ "{" # "}" /\ ";" # "}" /\ "}" \notin AfterWords /\ "{" \in AfterWords /\ ";" \in AfterWords
  BY LexemesAssumption DEF AfterWords, StatementEnds, Punctuation

\* The tokens of the first statement are in their places.
LEMMA FirstPlaced ==
  ASSUME NEW t, NEW e, NEW i \in Nat, NEW k \in Nat, i + 2 <= k, Closes(t, e, i, k),
         \A open \in (i + 1)..(k - 2) : k - 1 \in e[open + 1] =>
           /\ k - 1 = open + 1 \/ t[k - 2] \in StatementEnds
           /\ \A p \in (open + 1)..(k - 2) : Placed(t, open + 1, p)
  PROVE  t[k - 1] \in StatementEnds /\ \A p \in i..(k - 1) : Placed(t, i, p)
  <1>1. t[k - 1] \in StatementEnds
    BY DEF Closes, StatementEnds
  <1>2. ASSUME NEW p \in i..(k - 1)
        PROVE  Placed(t, i, p)
    <2>1. CASE t[p] \in Words
      BY <2>1, NoWords DEF Placed
    <2>2. CASE t[k - 1] = ";" /\ AllWords(t, i, k - 1)
      <3>1. CASE p = k - 1
        <4>1. p - 1 \in i..((k - 1) - 1) /\ i < p
          BY <3>1
        <4>2. t[p - 1] \in Words
          BY <2>2, <4>1 DEF AllWords
        <4>3. QED BY <2>2, <3>1, <4>1, <4>2, NoWords DEF Placed
      <3>2. CASE p # k - 1
        <4>1. p \in i..((k - 1) - 1)
          BY <3>2
        <4>2. QED BY <2>1, <2>2, <4>1 DEF AllWords
      <3>3. QED BY <3>1, <3>2
    <2>3. ASSUME t[k - 1] = "}", NEW open \in (i + 1)..(k - 2), t[open] = "{", AllWords(t, i, open),
                 k - 1 \in e[open + 1]
          PROVE  Placed(t, i, p)
      <3>1. /\ k - 1 = open + 1 \/ t[k - 2] \in StatementEnds
            /\ \A q \in (open + 1)..(k - 2) : Placed(t, open + 1, q)
        BY <2>3
      <3>2. CASE p < open
        <4>1. p \in i..(open - 1)
          BY <3>2
        <4>2. QED BY <2>1, <2>3, <4>1 DEF AllWords
      <3>3. CASE p = open
        <4>1. p - 1 \in i..(open - 1) /\ i < p
          BY <3>3
        <4>2. t[p - 1] \in Words
          BY <2>3, <4>1 DEF AllWords
        <4>3. QED BY <2>3, <3>3, <4>1, <4>2, NoWords DEF Placed
      <3>4. CASE open < p /\ p < k - 1
        <4>1. p \in (open + 1)..(k - 2) /\ i < p
          BY <3>4
        <4>2. Placed(t, open + 1, p)
          BY <3>1, <4>1
        <4>3. QED BY <4>1, <4>2 DEF Placed
      <3>5. CASE p = k - 1
        <4>1. i < p /\ p - 1 = k - 2 /\ (k - 1 = open + 1 => p - 1 = open)
          BY <3>5
        <4>2. t[p - 1] \notin Words
          BY <2>3, <3>1, <4>1, NoWords
        <4>3. QED BY <2>3, <3>5, <4>1, <4>2, NoWords DEF Placed
      <3>6. p < open \/ p = open \/ (open < p /\ p < k - 1) \/ p = k - 1
        OBVIOUS
      <3>7. QED BY <3>2, <3>3, <3>4, <3>5, <3>6
    <2>4. QED BY <2>2, <2>3 DEF Closes
  <1>3. QED BY <1>1, <1>2

PlacedFrom(t, i, j) ==
  /\ j = i \/ t[j - 1] \in StatementEnds
  /\ \A p \in i..(j - 1) : Placed(t, i, p)

\* The tokens of statements are in their places.
LEMMA EndsPlaced ==
  ASSUME NEW t, NEW n \in Nat, n = Len(t) + 1, NEW e, AreEnds(t, e)
  PROVE  \A i \in 1..n : \A j \in e[i] : PlacedFrom(t, i, j)
  <1> DEFINE bad == {i \in 1..n : \E j \in e[i] : ~PlacedFrom(t, i, j)}
  <1>1. SUFFICES ASSUME bad # {}
                 PROVE  FALSE
    BY Zenon
  <1>2. PICK i \in bad : \A k \in bad : k <= i
    <2>1. bad \in SUBSET (0..n)
      OBVIOUS
    <2> HIDE DEF bad
    <2>2. QED BY <1>1, <2>1, GreatestNatural
  <1>3. i \in 1..n
    BY <1>2
  <1>4. PICK j \in e[i] : ~PlacedFrom(t, i, j)
    BY <1>2
  <1>5. j \in i..n
    BY <1>3, EndsInside
  <1>6. PICK k \in (i + 2)..n : Closes(t, e, i, k) /\ j \in e[k]
    <2>1. j # i
      <3>1. i..(i - 1) = {}
        BY <1>3
      <3>2. QED BY <1>4, <3>1 DEF PlacedFrom
    <2>2. QED BY <1>3, <1>4, <2>1, EndIs
  <1>7. k \in 1..n /\ ~(k <= i)
    BY <1>3
  <1>8. PlacedFrom(t, k, j) /\ j \in k..n
    BY <1>2, <1>6, <1>7, EndsInside
  <1>9. t[k - 1] \in StatementEnds /\ \A p \in i..(k - 1) : Placed(t, i, p)
    <2>1. i \in Nat /\ k \in Nat /\ i + 2 <= k
      BY <1>3
    <2>2. ASSUME NEW open \in (i + 1)..(k - 2), k - 1 \in e[open + 1]
          PROVE  /\ k - 1 = open + 1 \/ t[k - 2] \in StatementEnds
                 /\ \A p \in (open + 1)..(k - 2) : Placed(t, open + 1, p)
      <3>1. open + 1 \in 1..n /\ ~(open + 1 <= i) /\ (k - 1) - 1 = k - 2
        BY <1>3
      <3>2. PlacedFrom(t, open + 1, k - 1)
        BY <1>2, <2>2, <3>1
      <3>3. QED BY <3>1, <3>2 DEF PlacedFrom
    <2>3. QED BY <1>6, <2>1, <2>2, FirstPlaced
  <1>10. ASSUME NEW p \in i..(j - 1)
         PROVE  Placed(t, i, p)
    <2>1. CASE p < k
      <3>1. p \in i..(k - 1)
        BY <1>3, <2>1
      <3>2. QED BY <1>9, <3>1
    <2>2. CASE ~(p < k)
      <3>1. p \in k..(j - 1) /\ i < p
        BY <1>3, <1>5, <2>2
      <3>2. Placed(t, k, p)
        BY <1>8, <3>1 DEF PlacedFrom
      <3>3. QED BY <3>1, <3>2 DEF Placed
    <2>3. QED BY <2>1, <2>2
  <1>11. t[j - 1] \in StatementEnds
    BY <1>8, <1>9 DEF PlacedFrom
  <1>12. QED BY <1>4, <1>10, <1>11 DEF PlacedFrom

\* How many blocks are open before position p.
Level(t, p) == Depth(SubSeq(t, 1, p - 1))

\* A token opens or closes a block, or does not.
LEMMA LevelStep ==
  ASSUME NEW S, NEW t \in Seq(S), NEW p \in 1..Len(t)
  PROVE  /\ Level(t, p) \in Int
         /\ t[p] = "{" => Level(t, p + 1) = Level(t, p) + 1
         /\ t[p] = "}" => Level(t, p + 1) = Level(t, p) - 1
         /\ t[p] \notin {"{", "}"} => Level(t, p + 1) = Level(t, p)
  <1>1. PICK n \in Nat : n = Len(t)
    BY LenProperties
  <1>2. PICK s, x : s = SubSeq(t, 1, p - 1) /\ x = t[p]
    OBVIOUS
  <1>3. x \in S
    BY <1>2, ElementOfSeq
  <1>4. s \in Seq(S)
    <2>1. \A q \in 1..(p - 1) : q \in 1..n
      BY <1>1
    <2>2. \A q \in 1..(p - 1) : t[q] \in S
      BY <1>1, <2>1, ElementOfSeq
    <2>3. 1 \in Int /\ p - 1 \in Int
      BY <1>1
    <2>4. QED BY <1>2, <2>2, <2>3, SubSeqProperties
  <1>5. SubSeq(t, 1, p) = Append(s, x)
    <2>1. 1 \in 1..Len(t) /\ p \in 1..Len(t)
      BY <1>1
    <2>2. SubSeq(t, 1, p) = s \o <<x>>
      BY <1>2, <2>1, SubSeqRecursiveSecond
    <2>3. QED BY <1>3, <1>4, <2>2, AppendIsConcat
  <1>6. (p + 1) - 1 = p
    BY <1>1
  <1>7. Level(t, p) = Depth(s) /\ Level(t, p + 1) = Depth(Append(s, x))
    BY <1>2, <1>5, <1>6 DEF Level
  <1>8. /\ Depth(s) \in Int
        /\ x = "{" => Depth(Append(s, x)) = Depth(s) + 1
        /\ x = "}" => Depth(Append(s, x)) = Depth(s) - 1
        /\ x \notin {"{", "}"} => Depth(Append(s, x)) = Depth(s)
    BY ONLY <1>3, <1>4, DepthAppend
  <1>9. QED BY ONLY <1>2, <1>7, <1>8

\* Words open and close nothing.
LEMMA WordsLevel ==
  ASSUME NEW S, NEW t \in Seq(S), NEW n \in Nat, n = Len(t), NEW i \in 1..(n + 1), NEW j \in i..(n + 1),
         AllWords(t, i, j)
  PROVE  Level(t, j) = Level(t, i)
  <1> DEFINE bad == {k \in i..j : Level(t, k) # Level(t, i)}
  <1>1. SUFFICES ASSUME bad # {}
                 PROVE  FALSE
    <2>1. j \in i..j
      OBVIOUS
    <2>2. QED BY <2>1, Zenon
  <1>2. PICK k \in bad : \A l \in bad : k <= l
    <2>1. bad \in SUBSET Nat
      OBVIOUS
    <2> HIDE DEF bad
    <2>2. QED BY <1>1, <2>1, LeastNatural
  <1>3. k \in i..j /\ Level(t, k) # Level(t, i)
    BY <1>2
  <1>4. k - 1 \in i..(j - 1) /\ k - 1 \in i..j /\ ~(k <= k - 1) /\ k - 1 \in 1..n /\ (k - 1) + 1 = k
    BY <1>3
  <1>5. Level(t, k - 1) = Level(t, i)
    BY <1>2, <1>4
  <1>6. t[k - 1] \in Words
    BY <1>4 DEF AllWords
  <1>7. t[k - 1] \notin {"{", "}"}
    BY <1>6, NoWords DEF AfterWords
  <1>8. Level(t, (k - 1) + 1) = Level(t, k - 1)
    BY <1>4, <1>7, LevelStep
  <1>9. QED BY <1>3, <1>4, <1>5, <1>8

\* What statements open they close.
LEMMA EndsLevel ==
  ASSUME NEW S, NEW t \in Seq(S), NEW n \in Nat, n = Len(t) + 1, NEW e, AreEnds(t, e)
  PROVE  \A i \in 1..n : \A j \in e[i] : Level(t, j) = Level(t, i)
  <1> DEFINE bad == {i \in 1..n : \E j \in e[i] : Level(t, j) # Level(t, i)}
  <1>1. SUFFICES ASSUME bad # {}
                 PROVE  FALSE
    BY Zenon
  <1>2. PICK i \in bad : \A k \in bad : k <= i
    <2>1. bad \in SUBSET (0..n)
      OBVIOUS
    <2> HIDE DEF bad
    <2>2. QED BY <1>1, <2>1, GreatestNatural
  <1>3. i \in 1..n
    BY <1>2
  <1>4. PICK j \in e[i] : Level(t, j) # Level(t, i)
    BY <1>2
  <1>5. PICK k \in (i + 2)..n : Closes(t, e, i, k) /\ j \in e[k]
    <2>1. j # i
      BY <1>4
    <2>2. QED BY <1>3, <1>4, <2>1, EndIs
  <1>6. k \in 1..n /\ ~(k <= i)
    BY <1>3
  <1>7. Level(t, j) = Level(t, k)
    BY <1>2, <1>5, <1>6
  <1>8. PICK m \in Nat : m = Len(t) /\ n = m + 1
    BY LenProperties
  <1>9. /\ k - 1 \in 1..m /\ (k - 1) + 1 = k /\ i \in 1..(m + 1)
        /\ \A l \in i..m : l \in i..(m + 1)
    BY <1>3, <1>8
  <1>10. ASSUME NEW l \in i..m, AllWords(t, i, l)
         PROVE  Level(t, l) = Level(t, i)
    BY <1>8, <1>9, <1>10, WordsLevel
  <1>11. CASE t[k - 1] = ";" /\ AllWords(t, i, k - 1)
    <2>1. k - 1 \in i..m
      BY <1>3, <1>8
    <2>2. Level(t, k - 1) = Level(t, i)
      BY <1>10, <1>11, <2>1
    <2>3. t[k - 1] \notin {"{", "}"}
      BY <1>11
    <2>4. Level(t, (k - 1) + 1) = Level(t, k - 1)
      BY <1>8, <1>9, <2>3, LevelStep
    <2>5. QED BY <1>4, <1>7, <1>9, <2>2, <2>4
  <1>12. ASSUME t[k - 1] = "}", NEW open \in (i + 1)..(k - 2), t[open] = "{", AllWords(t, i, open),
                k - 1 \in e[open + 1]
         PROVE  FALSE
    <2>1. open \in i..m /\ open \in 1..m /\ open + 1 \in 1..n /\ ~(open + 1 <= i)
      BY <1>3, <1>8
    <2>2. Level(t, open) = Level(t, i)
      BY <1>10, <1>12, <2>1
    <2>3. Level(t, open + 1) = Level(t, open) + 1 /\ Level(t, open) \in Int
      BY <1>8, <1>12, <2>1, LevelStep
    <2>4. Level(t, k - 1) = Level(t, open + 1)
      BY <1>2, <1>12, <2>1
    <2>5. Level(t, (k - 1) + 1) = Level(t, k - 1) - 1
      BY <1>8, <1>9, <1>12, LevelStep
    <2>6. QED BY <1>4, <1>7, <1>9, <2>2, <2>3, <2>4, <2>5
  <1>13. QED BY <1>5, <1>11, <1>12 DEF Closes

\* A configuration ends with a statement, leaves no block open, and has every
\* token in its place.
LEMMA ConfigShape ==
  ASSUME NEW S, NEW t \in Seq(S), IsConfig(t)
  PROVE  /\ t # <<>> /\ Len(t) \in 1..Len(t) /\ t[Len(t)] \in StatementEnds
         /\ Depth(t) = 0
         /\ \A p \in 1..Len(t) : Placed(t, 1, p)
  <1>1. PICK m \in Nat : m = Len(t)
    BY LenProperties
  <1>2. PICK e : AreEnds(t, e) /\ t # <<>> /\ m + 1 \in e[1]
    BY <1>1, ConfigEnds
  <1>3. m # 0
    BY <1>1, <1>2, EmptySeq
  <1>4. PICK n \in Nat : n = m + 1 /\ 1 \in 1..n /\ n - 1 = m /\ n # 1
    BY <1>3
  <1>5. PlacedFrom(t, 1, n)
    BY <1>1, <1>2, <1>4, EndsPlaced
  <1>6. t[m] \in StatementEnds /\ \A p \in 1..m : Placed(t, 1, p)
    BY <1>4, <1>5 DEF PlacedFrom
  <1>7. Level(t, n) = Level(t, 1)
    BY <1>1, <1>2, <1>4, EndsLevel
  <1>8. Level(t, n) = Depth(t)
    BY <1>1, <1>4, SubSeqFull DEF Level
  <1>9. Level(t, 1) = 0
    <2>1. SubSeq(t, 1, 1 - 1) = <<>>
      BY SubSeqEmpty
    <2>2. QED BY <2>1, DepthNone DEF Level
  <1>10. m \in 1..m
    BY <1>3
  <1>11. QED BY <1>1, <1>2, <1>6, <1>7, <1>8, <1>9, <1>10

\* In the beginning of a configuration, no block is closed that was not
\* opened, and every token is in its place.
LEMMA BeginningShape ==
  ASSUME NEW t \in Seq(Tokens), IsBeginning(t)
  PROVE  Depth(t) >= 0 /\ \A p \in 1..Len(t) : Placed(t, 1, p)
  <1>1. PICK word : word = CHOOSE w \in Words : TRUE
    OBVIOUS
  <1>2. PICK finish :
          finish \in {<<>>, <<";">>, <<word, ";">>} /\ Depth(t) >= 0 /\ IsConfig(t \o finish \o Braces(Depth(t)))
    BY <1>1 DEF IsBeginning
  <1>3. PICK S : S = Tokens \cup {word}
    OBVIOUS
  <1>4. t \in Seq(S)
    <2>1. Tokens \subseteq S
      BY <1>3
    <2>2. QED BY <2>1, SeqMonotonic
  <1>5. finish \in Seq(S)
    <2>1. PICK semicolon \in S : semicolon = ";"
      BY <1>3, TypesOfTokens
    <2>2. word \in S
      BY <1>3
    <2>3. <<>> \in Seq(S) /\ <<semicolon>> \in Seq(S) /\ <<word, semicolon>> \in Seq(S)
      <3>1. ASSUME NEW A, NEW x \in A, NEW y \in A
            PROVE  <<>> \in Seq(A) /\ <<x>> \in Seq(A) /\ <<y, x>> \in Seq(A)
        OBVIOUS
      <3>2. QED BY ONLY <2>1, <2>2, <3>1, Zenon
    <2>4. QED BY <1>2, <2>1, <2>3
  <1>6. PICK braces : braces = Braces(Depth(t)) /\ braces \in Seq(S)
    <2>1. Depth(t) \in Nat
      <3>1. Depth(t) \in Int
        <4>1. ";" \in Tokens
          BY TypesOfTokens
        <4>2. QED BY <4>1, DepthAppend
      <3>2. PICK d : d = Depth(t)
        OBVIOUS
      <3>3. d \in Int /\ d >= 0
        BY ONLY <1>2, <3>1, <3>2
      <3>4. d \in Nat
        BY ONLY <3>3
      <3>5. QED BY ONLY <3>2, <3>4
    <2>2. Braces(Depth(t)) \in Seq(Tokens) /\ Tokens \subseteq S
      BY <1>3, <2>1, BracesAre
    <2>3. QED BY <2>2, SeqMonotonic
  <1>7. PICK front, all, l, m :
          front = t \o finish /\ all = front \o braces /\ l = Len(t) /\ m = Len(front)
    OBVIOUS
  <1>8. Joined(front, t, l, finish, Len(finish)) /\ front \in Seq(S)
    BY ONLY <1>4, <1>5, <1>7, JoinIs, Zenon
  <1>9. Joined(all, front, m, braces, Len(braces)) /\ all \in Seq(S)
    BY ONLY <1>6, <1>7, <1>8, JoinIs, Zenon
  <1>10. /\ l \in Nat /\ Len(finish) \in Nat /\ m = l + Len(finish)
         /\ \A p \in 1..l : front[p] = t[p]
    BY ONLY <1>7, <1>8 DEF Joined
  <1>11. /\ Len(braces) \in Nat /\ Len(all) = m + Len(braces)
         /\ \A p \in 1..m : all[p] = front[p]
    BY ONLY <1>9 DEF Joined
  <1>12. \A p \in 1..l : p \in 1..m /\ p \in 1..Len(all)
    <2>1. PICK a, b, c : a = Len(finish) /\ b = Len(braces) /\ c = Len(all)
      OBVIOUS
    <2>2. l \in Nat /\ a \in Nat /\ b \in Nat /\ m = l + a /\ c = m + b
      BY ONLY <1>10, <1>11, <2>1
    <2>3. \A p \in 1..l : p \in 1..m /\ p \in 1..c
      BY ONLY <2>2
    <2>4. QED BY ONLY <2>1, <2>3
  <1>13. \A p \in 1..l : all[p] = t[p]
    BY <1>10, <1>11, <1>12
  <1>14. IsConfig(all)
    BY <1>2, <1>6, <1>7
  <1>15. ASSUME NEW p \in 1..l
         PROVE  Placed(t, 1, p)
    <2>1. Placed(all, 1, p) /\ all[p] = t[p]
      BY <1>9, <1>12, <1>13, <1>14, ConfigShape
    <2>2. 1 < p => all[p - 1] = t[p - 1]
      <3>1. 1 < p => p - 1 \in 1..l
        <4>1. l \in Nat /\ p \in 1..l
          BY ONLY <1>10, p \in 1..l
        <4>2. QED BY ONLY <4>1
      <3>2. QED BY <1>13, <3>1
    <2>3. QED BY <2>1, <2>2 DEF Placed
  <1>16. QED BY <1>2, <1>7, <1>15

-----------------------------------------------------------------------------
(* What the parser refuses.                                                *)

\* A text that is refused at its end is no configuration, and one that is
\* refused before is the beginning of none.
Refuses ==
  /\ verdict = "reading" => ending = "none"
  /\ verdict = "invalid" /\ ending \in {"clean", "word"} => ~IsConfig(Code)
  /\ verdict \in {"invalid", "undefined"} /\ ending = "none" => ~IsBeginning(Code)

\* At the end of the file.
LEMMA EndOfFileRefuses ==
  ASSUME TreeInv, LastTokenIs, DepthIs, NEW how \in Endings, EndOfFile(how)
  PROVE  Refuses'
  <1>1. Code' = Code
    BY CodeStays DEF EndOfFile
  <1>2. ending' = how /\ how # "none" /\ verdict' \in {"valid", "invalid"}
    BY DEF EndOfFile, Returns, Endings
  <1>3. ASSUME verdict' = "invalid", how # "quote", IsConfig(Code)
        PROVE  FALSE
    <2>1. Code \in Seq(Tokens)
      BY DEF TreeInv, CodeInv
    <2>2. Code # <<>> /\ Code[Len(Code)] \in StatementEnds /\ Depth(Code) = 0
      BY <1>3, <2>1, ConfigShape
    <2>3. last_token_type \in {"STATEMENT_END", "END_BLOCK"}
      <3>1. last_token_type = TokenType(Code[Len(Code)])
        BY <2>2 DEF LastTokenIs
      <3>2. QED BY <2>2, <3>1, TypesOfTokens DEF StatementEnds
    <2>4. Len(config_stack) = 1
      <3>1. PICK k \in Nat : k = Len(config_stack)
        BY LenProperties DEF TreeInv, ParserInv, ParserTypeOK
      <3>2. QED BY <2>2, <3>1 DEF DepthIs
    <2>5. QED BY <1>3, <2>3, <2>4 DEF EndOfFile, Returns
  <1>4. how = "quote" => ending' \notin {"clean", "word"}
    BY <1>2
  <1>5. QED BY <1>1, <1>2, <1>3, <1>4 DEF Refuses

\* A brace too many has been read before.
LEMMA EmptyStackRefuses ==
  ASSUME TreeInv, DepthIs, NEW lex \in Lexemes, EmptyStack(lex)
  PROVE  ~IsBeginning(Code')
  <1>1. lex \in Tokens /\ lex # "{" /\ Reads(lex) /\ config_stack = <<>>
    BY TypesOfTokens, NoWords DEF EmptyStack
  <1>2. Code \in Seq(Tokens) /\ Code' = Append(Code, lex)
    BY <1>1, TokenRead DEF TreeInv, CodeInv
  <1>3. Depth(Code) = -1
    <2>1. Len(config_stack) = 0
      BY <1>1
    <2>2. QED BY <2>1 DEF DepthIs
  <1>4. Depth(Code') = -1 \/ Depth(Code') = -2
    <2>1. lex = "}" => Depth(Code') = Depth(Code) - 1
      BY <1>1, <1>2, DepthAppend
    <2>2. lex # "}" => Depth(Code') = Depth(Code)
      BY <1>1, <1>2, DepthAppend
    <2>3. PICK d, e : d = Depth(Code) /\ e = Depth(Code')
      OBVIOUS
    <2>4. d = -1 /\ (e = d - 1 \/ e = d)
      BY ONLY <1>3, <2>1, <2>2, <2>3
    <2>5. e = -1 \/ e = -2
      BY ONLY <2>4
    <2>6. QED BY ONLY <2>3, <2>5
  <1>5. Code' \in Seq(Tokens)
    BY <1>1, <1>2, AppendProperties
  <1>6. ASSUME IsBeginning(Code')
        PROVE  FALSE
    <2>1. Depth(Code') >= 0
      BY <1>5, <1>6, BeginningShape
    <2>2. QED BY <1>4, <2>1
  <1>7. QED BY <1>6

\* A token that is out of place.
LEMMA UnexpectedRefuses ==
  ASSUME TreeInv, LastTokenIs, NEW lex \in Lexemes, Unexpected(lex)
  PROVE  ~IsBeginning(Code')
  <1>1. lex \in Tokens /\ Reads(lex)
    BY TypesOfTokens DEF Unexpected
  <1>2. PICK n \in Nat : n = Len(Code)
    BY LenProperties DEF TreeInv, CodeInv
  <1>3. /\ Code' = Append(Code, lex) /\ Len(Code') = n + 1 /\ Code'[n + 1] = lex
        /\ \A p \in 1..n : Code'[p] = Code[p]
    BY <1>1, <1>2, TokenRead
  <1>4. Code' \in Seq(Tokens)
    BY <1>1, <1>3, AppendProperties DEF TreeInv, CodeInv
  <1>5. ASSUME IsBeginning(Code')
        PROVE  FALSE
    <2>1. Placed(Code', 1, n + 1)
      <3>1. n + 1 \in 1..Len(Code')
        BY <1>3
      <3>2. QED BY <1>4, <1>5, <3>1, BeginningShape
    <2>2. lex \in AfterWords \/ lex = "}"
      BY DEF Unexpected, AfterWords
    <2>3. 1 < n + 1 /\ (n + 1) - 1 = n
      <3>1. Code'[n + 1] \in AfterWords \/ Code'[n + 1] = "}"
        BY ONLY <1>3, <2>2
      <3>2. 1 < n + 1
        BY ONLY <2>1, <3>1 DEF Placed
      <3>3. n \in Nat
        BY ONLY <1>2
      <3>4. QED BY ONLY <3>2, <3>3
    <2>4. n \in 1..n /\ Code'[(n + 1) - 1] = Code[n]
      BY <1>3, <2>3
    <2>5. last_token_type = TokenType(Code[n])
      <3>1. Code # <<>>
        BY <1>2, <2>3
      <3>2. QED BY <1>2, <3>1 DEF LastTokenIs
    <2>6. Code[n] \in Tokens
      <3>1. Code \in Seq(Tokens)
        BY DEF TreeInv, CodeInv
      <3>2. QED BY <1>2, <2>4, <3>1, ElementOfSeq
    <2>7. CASE lex \in {";", "{"} /\ last_token_type # "NORMAL"
      <3>1. Code[n] \in Words
        BY <1>3, <2>1, <2>4, <2>7 DEF Placed, AfterWords
      <3>2. QED BY <2>5, <2>7, <3>1, TypesOfTokens
    <2>8. CASE lex = "}" /\ last_token_type \notin BeforeEndBlock
      <3>1. Code[n] \notin Words
        BY <1>3, <2>1, <2>4, <2>8 DEF Placed
      <3>2. QED BY <2>5, <2>8, <3>1 DEF TokenType, BeforeEndBlock
    <2>9. QED BY <2>7, <2>8 DEF Unexpected
  <1>6. QED BY <1>5

\* No step refuses a configuration.
LEMMA NextRefuses ==
  ASSUME TreeInv, TextInv, Refuses, [Next]_vars
  PROVE  Refuses'
  <1>1. CASE ParserNext
    <2>1. verdict = "reading" /\ ending = "none" /\ LastTokenIs /\ DepthIs
      BY <1>1, OnlyReading DEF TextInv, Refuses
    <2>2. CASE verdict' = "reading" /\ ending' = ending
      BY <2>1, <2>2 DEF Refuses
    <2>3. ASSUME NEW how \in Endings, EndOfFile(how)
          PROVE  Refuses'
      BY <2>1, <2>3, EndOfFileRefuses
    <2>4. ASSUME NEW lex \in Lexemes, EmptyStack(lex)
          PROVE  Refuses'
      <3>1. ending' = "none" /\ verdict' = "undefined" /\ ~IsBeginning(Code')
        BY <2>1, <2>4, EmptyStackRefuses DEF EmptyStack, Reads, Returns
      <3>2. QED BY <3>1 DEF Refuses
    <2>5. ASSUME NEW lex \in Lexemes, Unexpected(lex)
          PROVE  Refuses'
      <3>1. ending' = "none" /\ verdict' = "invalid" /\ ~IsBeginning(Code')
        BY <2>1, <2>5, UnexpectedRefuses DEF Unexpected, Reads, Returns
      <3>2. QED BY <3>1 DEF Refuses
    <2>6. \/ verdict' = "reading" /\ ending' = ending
          \/ \E lex \in Lexemes : EmptyStack(lex) \/ Unexpected(lex)
          \/ \E how \in Endings : EndOfFile(how)
      BY <1>1, <2>1 DEF ParserNext, Comment, Normal, StatementEnd, StartBlock, EndBlock, Reads
    <2>7. QED BY <2>2, <2>3, <2>4, <2>5, <2>6
  <1>2. CASE UNCHANGED parserVars
    <2>1. UNCHANGED <<Code, verdict, ending>>
      BY <1>2, CodeStays DEF parserVars
    <2>2. QED BY <2>1 DEF Refuses
  <1>3. QED BY <1>1, <1>2, MainParses

\* The parser and the grammar agree on every text: what NginxConfigParser
\* accepts is a configuration, and what it refuses is none.
THEOREM MainAcceptsTheGrammar == Spec => []AcceptsTheGrammar
  <1>1. Init => Refuses
    BY DEF Init, ParserInit, Refuses
  <1>2. TreeInv /\ TextInv /\ Refuses /\ [Next]_vars => Refuses'
    BY NextRefuses
  <1>3. TreeInv /\ TextInv /\ SpelledInv /\ MainInv /\ Refuses => AcceptsTheGrammar
    BY ValidIsConfig DEF Refuses, AcceptsTheGrammar
  <1>4. QED BY <1>1, <1>2, <1>3, TreeInvariant, TextInvariant, SpelledInvariant, MainInvariant, PTL DEF Spec
=============================================================================
