---------------------------- MODULE ConfigParser ----------------------------
(***************************************************************************)
(* The recursive descent parser of src/config/config_parser.cpp.  The      *)
(* environment writes a configuration file token by token, and the parser  *)
(* consumes each token as soon as it is written: at any point the rules    *)
(* look at one token only.  Tokens are strings; "{", "}" and ";" are the   *)
(* punctuation and everything else is a WORD.                              *)
(***************************************************************************)
EXTENDS Integers, Sequences, FiniteSets, SequencesExt, Functions, Maps

CONSTANTS Names,        \* words tried where a directive or block may begin
          Args,         \* first word of a statement -> words tried in its place
          stoi,         \* word -> number, for the words that are numbers
          colon,        \* word -> <<before, after>>, for words with one ':'
          suffix,       \* word -> <<number word, multiplier>> of sizes
          MaxStatements,\* bound: directives and blocks in a file
          MaxWords      \* bound: words of a directive

VARIABLES
    tokens_,    \* the file up to pos_
    open,       \* the blocks being parsed, outermost first
    expect,     \* what the directive being parsed consumes next
    words,      \* what it has consumed
    configs, upstreams_,
    outcome     \* "parsing", "ok", or "error" for any exception

parserVars == <<tokens_, open, expect, words, configs, upstreams_, outcome>>

TokenType(t) == IF t \in {"{", "}", ";"} THEN t ELSE "WORD"

\* The default of client_max_body_size.
Megabyte == 1048576

\* The blocks, with the defaults of server_config.h and location_config.h.
ServerBlock ==
    [rule |-> "server", port |-> 8080, host |-> "0.0.0.0", server_name |-> "localhost",
     root |-> "./www", client_max_body_size |-> Megabyte, rate_limit |-> 0,
     error_pages |-> <<>>, locations |-> <<>>]

LocationBlock(p) ==
    [rule |-> "location", path |-> p, root |-> "", index_file |-> "index.html",
     proxy_pass |-> "", methods |-> <<>>, autoindex |-> FALSE]

UpstreamBlock(n) ==
    [rule |-> "upstream", name |-> n, servers |-> <<>>, health_check_interval |-> 5]

ParserInit ==
    /\ tokens_ = <<>> /\ open = <<>> /\ expect = <<>> /\ words = <<>>
    /\ configs = <<>> /\ upstreams_ = <<>>
    /\ outcome = "parsing"

-----------------------------------------------------------------------------
(* Directives                                                               *)

rule == IF open = <<>> THEN "top" ELSE Last(open).rule

One == <<"WORD", ";">>

\* What each rule consumes after the word that begins a statement.  "WORDS"
\* is the loop over all words of methods.
Statements ==
    [top      |-> [server |-> <<"{">>, upstream |-> <<"WORD", "{">>],
     server   |-> [location |-> <<"WORD", "{">>, listen |-> One, server_name |-> One,
                   root |-> One, error_page |-> <<"WORD", "WORD", ";">>,
                   client_max_body_size |-> One, rate_limit |-> One],
     location |-> [root |-> One, index |-> One, proxy_pass |-> One, autoindex |-> One,
                   methods |-> <<"WORDS", ";">>],
     upstream |-> [server |-> One, health_check_interval |-> One]]

parse_size(w) ==
    IF w \in DOMAIN suffix THEN stoi[suffix[w][1]] * suffix[w][2] ELSE stoi[w]

\* Where stoi or stoul is applied, and to which word.
Numeric == {"listen", "error_page", "client_max_body_size", "rate_limit",
            "health_check_interval"}

Number(d, w) ==
    CASE d \in {"listen", "server"} /\ w \in DOMAIN colon -> colon[w][2]
      [] d = "client_max_body_size" /\ w \in DOMAIN suffix -> suffix[w][1]
      [] OTHER -> w

\* No conversion throws.
Converts(r, w) ==
    (\/ w[1] \in Numeric
     \/ (r = "upstream" /\ w[1] = "server" /\ w[2] \in DOMAIN colon))
    => Number(w[1], w[2]) \in DOMAIN stoi

\* "host:port", or one of the two with the other as it was.
parse_listen(config, w) ==
    IF w \in DOMAIN colon
    THEN [config EXCEPT !.host = colon[w][1], !.port = stoi[colon[w][2]]]
    ELSE [config EXCEPT !.port = stoi[w]]

parse_address(w) ==
    IF w \in DOMAIN colon THEN <<colon[w][1], stoi[colon[w][2]]>> ELSE <<w, 80>>

parse_server_directive(config, w) ==
    CASE w[1] = "listen" -> parse_listen(config, w[2])
      [] w[1] = "error_page" -> [config EXCEPT !.error_pages = Assigned(@, stoi[w[2]], w[3])]
      [] w[1] = "client_max_body_size" -> [config EXCEPT ![w[1]] = parse_size(w[2])]
      [] w[1] = "rate_limit" -> [config EXCEPT ![w[1]] = stoi[w[2]]]
      [] w[1] \in {"server_name", "root"} -> [config EXCEPT ![w[1]] = w[2]]

\* Mutant of AddMethods: a second methods directive replaces the first.
ReplaceMethods(old, new) == new

AddMethods(old, new) == old \o new

parse_location_directive(loc, w) ==
    CASE w[1] = "methods" -> [loc EXCEPT !.methods = AddMethods(@, Tail(w))]
      [] w[1] = "index" -> [loc EXCEPT !.index_file = w[2]]
      [] w[1] = "autoindex" -> [loc EXCEPT !.autoindex = w[2] \in {"on", "true", "yes"}]
      [] w[1] \in {"root", "proxy_pass"} -> [loc EXCEPT ![w[1]] = w[2]]

parse_upstream_directive(upstream, w) ==
    IF w[1] = "server" THEN [upstream EXCEPT !.servers = Append(@, parse_address(w[2]))]
    ELSE [upstream EXCEPT !.health_check_interval = stoi[w[2]]]

\* The innermost block after a directive.
Directive(block, w) ==
    CASE block.rule = "server" -> parse_server_directive(block, w)
      [] block.rule = "location" -> parse_location_directive(block, w)
      [] block.rule = "upstream" -> parse_upstream_directive(block, w)

-----------------------------------------------------------------------------
(* The rules, one token at a time                                           *)

Parsing(t) == outcome = "parsing" /\ tokens_' = Append(tokens_, t)

\* The first word of a statement the rule knows.
BeginStatement(t) ==
    /\ Parsing(t)
    /\ expect = <<>> /\ t \in DOMAIN Statements[rule]
    /\ words' = <<t>>
    /\ expect' = Statements[rule][t]
    /\ UNCHANGED <<open, configs, upstreams_, outcome>>

\* consume(WORD) inside a statement.
ConsumeWord(t) ==
    /\ Parsing(t)
    /\ expect # <<>> /\ TokenType(t) = "WORD" /\ Head(expect) \in {"WORD", "WORDS"}
    /\ words' = Append(words, t)
    /\ expect' = IF Head(expect) = "WORD" THEN Tail(expect) ELSE expect
    /\ UNCHANGED <<open, configs, upstreams_, outcome>>

\* consume(LBRACE): a block begins.
OpenBlock(t) ==
    /\ Parsing(t)
    /\ expect = <<"{">> /\ t = "{"
    /\ open' = Append(open, CASE words[1] = "server" -> ServerBlock
                              [] words[1] = "location" -> LocationBlock(words[2])
                              [] words[1] = "upstream" -> UpstreamBlock(words[2]))
    /\ expect' = <<>> /\ words' = <<>>
    /\ UNCHANGED <<configs, upstreams_, outcome>>

\* consume(SEMICOLON): the directive takes effect, unless a conversion throws.
EndDirective(t) ==
    /\ Parsing(t)
    /\ expect \in {<<";">>, <<"WORDS", ";">>} /\ t = ";"
    /\ expect = <<";">> => Converts(rule, words)
    /\ open' = Append(Front(open), Directive(Last(open), words))
    /\ expect' = <<>> /\ words' = <<>>
    /\ UNCHANGED <<configs, upstreams_, outcome>>

\* consume(RBRACE): the block goes where it belongs.  Of two upstreams of the
\* same name the later one stays.
CloseBlock(t) ==
    LET block == Last(open) outer == Front(open) IN
    /\ Parsing(t)
    /\ open # <<>> /\ expect = <<>> /\ t = "}"
    /\ open' = IF block.rule = "location"
               THEN Append(Front(outer),
                           [Last(outer) EXCEPT !.locations = Append(@, block)])
               ELSE outer
    /\ configs' = IF block.rule = "server" THEN Append(configs, block) ELSE configs
    /\ upstreams_' = IF block.rule = "upstream" THEN Assigned(upstreams_, block.name, block)
                     ELSE upstreams_
    /\ UNCHANGED <<expect, words, outcome>>

\* An exception leaves nothing of what was parsed.
Throw ==
    /\ outcome' = "error"
    /\ tokens_' = <<>> /\ open' = <<>> /\ expect' = <<>> /\ words' = <<>>
    /\ configs' = <<>> /\ upstreams_' = <<>>

\* Any other token, or a word that is no number where one is needed.
SyntaxError(t) ==
    /\ outcome = "parsing"
    /\ IF expect = <<>> THEN t \notin DOMAIN Statements[rule] /\ ~(open # <<>> /\ t = "}")
       ELSE \/ TokenType(t) \notin (IF Head(expect) = "WORDS" THEN {"WORD", ";"}
                                   ELSE {Head(expect)})
            \/ expect = <<";">> /\ t = ";" /\ ~Converts(rule, words)
    /\ Throw

\* The end of the file: inside a block or a statement it is an error, and so
\* is a file without a server block.
EndOfFile ==
    /\ outcome = "parsing"
    /\ IF open = <<>> /\ expect = <<>> /\ configs # <<>>
       THEN outcome' = "ok" /\ UNCHANGED <<tokens_, open, expect, words, configs, upstreams_>>
       ELSE Throw

\* The tokens tried next: punctuation anywhere, words as far as the bounds go.
Candidates ==
    {"{", "}", ";"} \cup
    (IF expect # <<>>
     THEN IF Len(words) < MaxWords THEN Args[words[1]] ELSE {}
     ELSE IF Cardinality({i \in DOMAIN tokens_ : tokens_[i] \in {"{", ";"}}) < MaxStatements
     THEN Names ELSE {})

ReadToken(t) ==
    \/ BeginStatement(t) \/ ConsumeWord(t) \/ OpenBlock(t) \/ EndDirective(t)
    \/ CloseBlock(t) \/ SyntaxError(t)

ParseConfig == EndOfFile \/ \E t \in Candidates : ReadToken(t)

-----------------------------------------------------------------------------
(* What a file says, read off its text                                      *)

\* Statements begin where the file does and after each '{', '}' and ';'.
Starts(f) == {i \in DOMAIN f : /\ TokenType(f[i]) = "WORD"
                               /\ i = 1 \/ TokenType(f[i - 1]) # "WORD"}

Depth(f, i) == Cardinality({j \in 1..(i - 1) : f[j] = "{"})
             - Cardinality({j \in 1..(i - 1) : f[j] = "}"})

\* The statements directly inside the block that begins at b.
Inside(f, b, name) ==
    {i \in Starts(f) :
        /\ f[i] = name /\ i > b /\ Depth(f, i) = Depth(f, b) + 1
        /\ \A j \in Starts(f) : j \in (b + 1)..i => Depth(f, j) > Depth(f, b)}

\* The argument of the last such statement.
Said(f, b, name, default) ==
    LET all == Inside(f, b, name) IN IF all = {} THEN default ELSE f[Max(all) + 1]

SaidNumber(f, b, name, default) ==
    LET all == Inside(f, b, name)
    IN  IF all = {} THEN default ELSE stoi[Number(name, f[Max(all) + 1])]

SaidSize(f, b, name, default) ==
    IF Inside(f, b, name) = {} THEN default ELSE parse_size(Said(f, b, name, ""))

\* The host of the last listen that names one.
WithHost(f, b) == {i \in Inside(f, b, "listen") : f[i + 1] \in DOMAIN colon}

SaidHost(f, b) ==
    IF WithHost(f, b) = {} THEN "0.0.0.0" ELSE colon[f[Max(WithHost(f, b)) + 1]][1]

\* The words of all such statements, without the name.
SaidWords(f, b, name) ==
    {k \in DOMAIN f \ Starts(f) :
        \E i \in Inside(f, b, name) : i < k /\ \A j \in i..k : TokenType(f[j]) = "WORD"}

Blocks(f, name) == {i \in Starts(f) : f[i] = name /\ Depth(f, i) = 0}

\* The elements of S up to n: which of them n is, in their order.
Rank(S, n) == Cardinality({m \in S : m <= n})

-----------------------------------------------------------------------------
(* Properties                                                               *)

BracesMatch(f) == Depth(f, Len(f) + 1) = 0 /\ \A i \in DOMAIN f : Depth(f, i) >= 0

LocationMeans(f, l, loc) ==
    LET all == SaidWords(f, l, "methods") IN
    /\ loc.path = f[l + 1]
    /\ loc.root = Said(f, l, "root", "")
    /\ loc.index_file = Said(f, l, "index", "index.html")
    /\ loc.proxy_pass = Said(f, l, "proxy_pass", "")
    /\ loc.autoindex = (Said(f, l, "autoindex", "off") \in {"on", "true", "yes"})
    /\ Len(loc.methods) = Cardinality(all)
    /\ \A k \in all : loc.methods[Rank(all, k)] = f[k]

LocationsMean(f, places, locations) ==
    /\ Len(locations) = Cardinality(places)
    /\ \A l \in places : LocationMeans(f, l, locations[Rank(places, l)])

\* What a server block says of itself.
ServerSays(f, b, config) ==
    LET pages == Inside(f, b, "error_page")
        pagesFor(c) == {i \in pages : stoi[f[i + 1]] = c}
    IN
    /\ config.root = Said(f, b, "root", "./www")
    /\ config.server_name = Said(f, b, "server_name", "localhost")
    /\ config.host = SaidHost(f, b)
    /\ config.port = SaidNumber(f, b, "listen", 8080)
    /\ config.client_max_body_size = SaidSize(f, b, "client_max_body_size", Megabyte)
    /\ config.rate_limit = SaidNumber(f, b, "rate_limit", 0)
    /\ DOMAIN config.error_pages = {stoi[f[i + 1]] : i \in pages}
    /\ \A c \in DOMAIN config.error_pages : config.error_pages[c] = f[Max(pagesFor(c)) + 2]

ServerMeans(f, b, config) ==
    /\ ServerSays(f, b, config)
    /\ LocationsMean(f, Inside(f, b, "location"), config.locations)

ServersMean(f, blocks, servers) ==
    /\ Len(servers) = Cardinality(blocks)
    /\ \A b \in blocks : ServerMeans(f, b, servers[Rank(blocks, b)])

UpstreamMeans(f, b, upstream) ==
    LET all == Inside(f, b, "server") IN
    /\ upstream.health_check_interval = SaidNumber(f, b, "health_check_interval", 5)
    /\ Len(upstream.servers) = Cardinality(all)
    /\ \A i \in all : upstream.servers[Rank(all, i)] = parse_address(f[i + 1])

UpstreamsMean(f, blocks, upstreams) ==
    LET blocksOf(n) == {b \in blocks : f[b + 1] = n} IN
    /\ DOMAIN upstreams = {f[b + 1] : b \in blocks}
    /\ \A n \in DOMAIN upstreams : UpstreamMeans(f, Max(blocksOf(n)), upstreams[n])

\* A file that is accepted is taken at its word: its braces match, each server
\* block and each location in it is there, in order, with what the last
\* directive inside its own braces says - not what another block says - and
\* the methods of all its methods directives; a host is that of the last
\* listen that names one, an error page the last one for its code, an upstream
\* the last block of its name, with the addresses of its servers in order.
MeansWhatItSays ==
    outcome = "ok" =>
    /\ BracesMatch(tokens_)
    /\ ServersMean(tokens_, Blocks(tokens_, "server"), configs)
    /\ UpstreamsMean(tokens_, Blocks(tokens_, "upstream"), upstreams_)
=============================================================================
