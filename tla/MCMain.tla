------------------------------- MODULE MCMain --------------------------------
(* main for TLC: it reads every short text and the beginnings of some       *)
(* configurations, and serves those.                                        *)
EXTENDS Main, TLC

CONSTANTS w1, w2

Keywords == {"port", "location", "root", "data_path", "server"} \cup Range(shorten_keys)
Numbers == {"80", "12", "65616", "-1", "aa"}
PathWords == {"/", "/a", "/ab", "/a/", "a", "'a'", "/r", "/x"}
HandlerWords == {"EchoHandler", "StaticHandler", "CrudHandler", "BlockingHandler",
                 "ShortenHandler", "HealthHandler", "NotFoundHandler", "NoHandler"}
MCWords == {"word"} \cup Keywords \cup Numbers \cup PathWords \cup HandlerWords

MCSpelling ==
  [w \in MCWords |->
     CASE w = "/"   -> <<"/">>
       [] w = "/a"  -> <<"/", "a">>
       [] w = "/ab" -> <<"/", "a", "b">>
       [] w = "/a/" -> <<"/", "a", "/">>
       [] w = "a"   -> <<"a">>
       [] w = "'a'" -> <<"'", "a", "'">>
       [] w = "/r"  -> <<"/", "r">>
       [] w = "/x"  -> <<"/", "x">>
       [] OTHER     -> <<w>>]

MCStoi == "80" :> 80 @@ "12" :> 12 @@ "65616" :> 65616 @@ "-1" :> -1

\* The root is a symbolic link.
MCCanonical == "/r" :> <<"/", "e", ".">> @@ "/a/" :> <<"/", "a">>

MCRegistry ==
  "EchoHandler" :> "echo" @@ "HealthHandler" :> "health" @@ "NotFoundHandler" :> "not_found" @@
  "BlockingHandler" :> "blocking" @@ "StaticHandler" :> "static" @@
  "CrudHandler" :> "crud" @@ "ShortenHandler" :> "shorten"

Port80 == <<"port", "80", ";">>
EmptyBlock == <<"{", "}">>
Location(path, handler, block) == <<"location", path, handler>> \o block
Block(key, value) == <<"{", key, value, ";", "}">>
CatchAll == Location("/", "NotFoundHandler", EmptyBlock)
ShortenBlock == <<"{">> \o FlattenSeq([i \in DOMAIN shorten_keys |-> <<shorten_keys[i], "12", ";">>])
                       \o <<"}">>

\* Each of these is read up to any of its lexemes.  Most name the port last,
\* so that only the whole file is served.
Files ==
  { CatchAll \o Location("/a", "StaticHandler", Block("root", "/r")) \o <<"#">>
      \o Location("/ab", "EchoHandler", EmptyBlock) \o Port80,
    Location("/a", "CrudHandler", Block("data_path", "/r"))
      \o Location("/ab", "StaticHandler", Block("root", "/r")) \o Port80,
    Port80 \o CatchAll \o CatchAll,
    Location("/a/", "EchoHandler", EmptyBlock) \o Port80,
    Location("a", "EchoHandler", EmptyBlock) \o Port80,
    Location("'a'", "EchoHandler", EmptyBlock) \o Port80,
    Location("/a", "NoHandler", EmptyBlock) \o Port80,
    Location("/a", "StaticHandler", Block("root", "/x")) \o Port80,
    Location("/a", "StaticHandler", Block("data_path", "/r")) \o Port80,
    Location("/a", "EchoHandler", Block("root", "/r")) \o Port80,
    Location("/a", "EchoHandler", <<";">>) \o Port80,
    Location("/a", "CrudHandler", <<";">>) \o Port80,
    Location("/a", "BlockingHandler", <<";">>) \o Location("/ab", "HealthHandler", EmptyBlock) \o CatchAll \o Port80,
    Location("/a", "ShortenHandler", ShortenBlock) \o Port80,
    <<"location", "/a", ";">> \o Port80,
    <<"server", "{", "port", "aa", ";">> \o CatchAll \o <<"}">> \o Port80 \o CatchAll,
    <<"port", "65616", ";">> \o CatchAll,
    <<"port", "-1", ";">> \o CatchAll,
    <<"port", "aa", ";">> \o Port80 }

MCTexts == BoundedSeq({"word", "{", "}", ";"}, 7) \cup BoundedSeq({"word", "#", ";"}, 3)
             \cup UNION {Prefixes(f) : f \in Files}

MCUrls == { <<"/", "a", "/", ".", "t">>, <<"/", "a", "b">>, <<"/", "b">>, <<"*">> }

MCPaths == { <<"/", "e", ".", "/", ".", "t">> }

MCTypes == <<"t">> :> "text"

MCKind == MCRegistry

\* Every text of up to five characters.
MCInputs == BoundedSeq({"{", ";", "#", "'", "\"", "a", " ", "\r"}, 5)

WorkerSymmetry == Permutations(Workers)
=============================================================================
