----------------------------- MODULE ConfigTree ------------------------------
(***************************************************************************)
(* NginxConfig: the tree that the parser builds, and what main and the     *)
(* dispatcher read from it -- get_port, get_locations with the             *)
(* create_from_config function of each kind of handler -- and to_string.   *)
(*                                                                         *)
(* A tree is a sequence of blocks, block 1 the root.  A block is its       *)
(* statements_; a statement has tokens_ and the number of its child_block_ *)
(* (NullBlock for a null pointer).                                         *)
(***************************************************************************)
EXTENDS Integers, Sequences, FiniteSets, SequencesExt, ConfigGrammar

CONSTANTS
  spelling,   \* the characters of a word
  stoi,       \* std::stoi of the words that it converts
  canonical,  \* canonical() of the words for which it does not throw
  Registry    \* name of a registered handler -> its kind

\* Tokens are not empty.
ASSUME WordsAssumption == spelling \in [Words -> Seq(STRING) \ {<<>>}]

\* What std::stoi returns is an int.
ASSUME StoiAssumption == DOMAIN stoi \subseteq Words /\ stoi \in [DOMAIN stoi -> Int]

\* What canonical() returns is a path, as characters.
ASSUME CanonicalAssumption ==
  /\ DOMAIN canonical \subseteq Words
  /\ canonical \in [DOMAIN canonical -> Seq(STRING) \ {<<>>}]

NullBlock == 0
NoArgs == <<>>

Statements == [tokens : Seq(Words), child_block : Nat]

HandlerKinds == {"echo", "health", "not_found", "blocking", "static", "crud", "shorten"}

-----------------------------------------------------------------------------
(* NginxConfig::to_string and NginxConfig::get_port, depth first.          *)

to_string(blocks) ==
  LET text[b \in DOMAIN blocks] ==
        LET Written(s) ==
              s.tokens \o
              IF s.child_block = NullBlock
                THEN <<";">>
                ELSE <<"{">> \o text[s.child_block] \o <<"}">>
        IN FlattenSeq([i \in DOMAIN blocks[b] |-> Written(blocks[b][i])])
  IN text[1]

\* Mutant: any setting will do.
Setting_AnyKey(s, key) == Len(s.tokens) = 2

Setting(s, key) == Len(s.tokens) = 2 /\ s.tokens[1] = key

\* What cannot be converted is taken for a missing port.
port_number(word) == IF word \in DOMAIN stoi THEN stoi[word] ELSE -1

\* The first statement that is a port directive decides, its number readable
\* or not; a block counts where it has a port.
get_port(blocks) ==
  LET port[b \in DOMAIN blocks] ==
        LET IsPort(i) == Setting(blocks[b][i], "port")
            HasPort(i) == /\ blocks[b][i].child_block # NullBlock
                          /\ port[blocks[b][i].child_block] # -1
            found == {i \in DOMAIN blocks[b] : IsPort(i) \/ HasPort(i)}
            first == Min(found)
        IN IF found = {} THEN -1
           ELSE IF IsPort(first) THEN port_number(blocks[b][first].tokens[2])
           ELSE port[blocks[b][first].child_block]
  IN port[1]

-----------------------------------------------------------------------------
(* create_from_config: the arguments are made, or refused (a null pointer, *)
(* or an exception, which main treats alike), or a null child_block_ is    *)
(* dereferenced.                                                           *)

TrailingSlash(path) == Last(path) = "/" /\ path # <<"/">>

UsablePath(word) == ~TrailingSlash(spelling[word]) /\ word \in DOMAIN canonical

OneSetting(block, key) == Len(block) = 1 /\ Setting(block[1], key)

shorten_keys == <<"redis_ip", "redis_port", "db_host", "db_name",
                  "db_user", "db_pass", "pool_size">>

validate_config_structure(block) ==
  /\ Len(block) = Len(shorten_keys)
  /\ \A i \in DOMAIN shorten_keys : Setting(block[i], shorten_keys[i])

NoArguments(block) == block = <<>>

RootPath(block) == OneSetting(block, "root") /\ UsablePath(block[1].tokens[2])

DataPath(block) == OneSetting(block, "data_path") /\ UsablePath(block[1].tokens[2])

\* The numbers are converted outside of any try.
Credentials(block) ==
  /\ validate_config_structure(block)
  /\ block[2].tokens[2] \in DOMAIN stoi
  /\ block[7].tokens[2] \in DOMAIN stoi

Accepts(kind, block) ==
  CASE kind \in {"echo", "health", "not_found"} -> NoArguments(block)
    [] kind = "blocking" -> TRUE
    [] kind = "static"   -> RootPath(block)
    [] kind = "crud"     -> DataPath(block)
    [] kind = "shorten"  -> Credentials(block)

create_from_config(blocks, s) ==
  LET kind == Registry[s.tokens[3]]
  IN IF s.child_block = NullBlock
     THEN CASE kind = "blocking" -> "made"
            [] kind = "crud"     -> "refused"
            [] OTHER             -> "undefined"
     ELSE IF Accepts(kind, blocks[s.child_block]) THEN "made" ELSE "refused"

-----------------------------------------------------------------------------
(* NginxConfig::get_locations.                                             *)

IsLocation(s) == s.tokens[1] = "location"

Quoted(path) == \E q \in {"'", "\""} : Head(path) = q /\ Last(path) = q

\* What becomes of a statement of the root block, if none before it is bad.
LocationOutcome(blocks, i) ==
  LET s == blocks[1][i]
      path == spelling[s.tokens[2]]
      taken == \E j \in 1..(i - 1) :
                 /\ IsLocation(blocks[1][j])
                 /\ spelling[blocks[1][j].tokens[2]] = path
      bad_path == Quoted(path) \/ TrailingSlash(path) \/ Head(path) # "/"
  IN IF ~IsLocation(s) THEN "no location"
     ELSE IF \/ Len(s.tokens) # 3
             \/ bad_path
             \/ taken
             \/ s.tokens[3] \notin DOMAIN Registry
     THEN "refused"
     ELSE create_from_config(blocks, s)

\* The constructors of the pools connect, or call exit(1): a shorten location
\* does that as soon as it is read.
OpensPools(blocks) ==
  \E i \in DOMAIN blocks[1] :
    LET s == blocks[1][i]
    IN /\ IsLocation(s)
       /\ \A j \in 1..i : LocationOutcome(blocks, j) \in {"no location", "made"}
       /\ Registry[s.tokens[3]] = "shorten"
       /\ stoi[blocks[s.child_block][7].tokens[2]] # 0

\* A static location knows its root.
RootArgs(blocks, s) ==
  IF Registry[s.tokens[3]] = "static"
    THEN canonical[blocks[s.child_block][1].tokens[2]]
    ELSE NoArgs

\* Mutant: the last statement is not looked at.
get_locations_AllButLast(blocks) ==
  LET read == 1..(Len(blocks[1]) - 1)
      bad == {i \in read : LocationOutcome(blocks, i) \in {"refused", "undefined"}}
      made == {blocks[1][i] : i \in {j \in read : IsLocation(blocks[1][j])}}
      Location(s) == [path    |-> spelling[s.tokens[2]],
                      handler |-> s.tokens[3],
                      args    |-> RootArgs(blocks, s)]
  IN IF bad = {}
       THEN [outcome |-> "valid", locations |-> {Location(s) : s \in made}]
       ELSE [outcome |-> LocationOutcome(blocks, Min(bad)), locations |-> {}]

\* The first bad statement decides.  A location is its path, handler and args.
get_locations(blocks) ==
  LET bad == {i \in DOMAIN blocks[1] :
                LocationOutcome(blocks, i) \in {"refused", "undefined"}}
      made == {blocks[1][i] : i \in {j \in DOMAIN blocks[1] : IsLocation(blocks[1][j])}}
      Location(s) == [path    |-> spelling[s.tokens[2]],
                      handler |-> s.tokens[3],
                      args    |-> RootArgs(blocks, s)]
  IN IF bad = {}
       THEN [outcome |-> "valid", locations |-> {Location(s) : s \in made}]
       ELSE [outcome |-> LocationOutcome(blocks, Min(bad)), locations |-> {}]
=============================================================================
