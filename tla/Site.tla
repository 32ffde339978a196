-------------------------------- MODULE Site --------------------------------
(***************************************************************************)
(* From a configuration file to the bytes of a response: main loads a file *)
(* (ConfigParser), the server built from its first server block registers  *)
(* the routes (Router), and process_request takes a buffer through the     *)
(* parser (HttpParser), the router, a handler and the last touches of      *)
(* server.cpp to what build puts on the wire (HttpResponse).               *)
(*                                                                         *)
(* One request is followed at a time: what requests share (limiter, cache, *)
(* balancer) is in the modules of those, and here only decides between     *)
(* answers.                                                                *)
(***************************************************************************)
EXTENDS ConfigParser, HttpParser, Router, HttpResponse

CONSTANTS Raws,         \* the contents of read_buffer that are tried
          chars,        \* word of the file -> its characters
          no_scheme,    \* word -> the word without a leading "http://"
          Dotted,       \* the hosts that inet_pton accepts
          None

ASSUME RawsAssumption ==
    \A raw \in Raws :
       /\ raw \in Seq(Range(raw))
       /\ \A u \in Range(raw) : u.unit = "line" => u.uri \in Seq(STRING)

ASSUME CharsAssumption ==
    /\ {"/", "/health", "/metrics"} \cup Args["location"] \subseteq DOMAIN chars
    /\ \A w \in DOMAIN chars : chars[w] \in Seq(STRING)

VARIABLES
    process,    \* main: args | loading | serving | exit 0 | exit 1
    config_, load_balancers_,
    routes_,    \* router_.routes_
    last        \* the request in hand and all that became of it

siteVars == <<process, config_, load_balancers_, routes_, last>>
vars == <<parserVars, siteVars>>

Init ==
    /\ ParserInit
    /\ process = "args"
    /\ config_ = None /\ load_balancers_ = {}
    /\ routes_ = <<>>
    /\ last = None

-----------------------------------------------------------------------------
(* main                                                                     *)

\* -h and -v.
Usage ==
    /\ process = "args"
    /\ process' = "exit 0"
    /\ UNCHANGED <<parserVars, config_, load_balancers_, routes_, last>>

LoadFile ==
    /\ process = "args"
    /\ process' = "loading"
    /\ UNCHANGED <<parserVars, config_, load_balancers_, routes_, last>>

Loading ==
    /\ process = "loading"
    /\ ParseConfig
    /\ UNCHANGED siteVars

\* A ConfigError, or another exception of the parser.
LoadFailed ==
    /\ process = "loading" /\ outcome = "error"
    /\ process' = "exit 1"
    /\ UNCHANGED <<parserVars, config_, load_balancers_, routes_, last>>

\* -t with a file.
TestOnly ==
    /\ process = "loading" /\ outcome = "ok"
    /\ process' = "exit 0"
    /\ UNCHANGED <<parserVars, config_, load_balancers_, routes_, last>>

-----------------------------------------------------------------------------
(* setup_routes                                                             *)

Route(prefix, methods, target) == [prefix |-> prefix, methods |-> methods, target |-> target]

Internal ==
    <<Route(chars["/health"], <<"GET">>, Target("internal", "/health")),
      Route(chars["/metrics"], <<"GET">>, Target("internal", "/metrics"))>>

\* The handler of a location: an upstream if there is one of that name, else
\* the url as it stands, else files.
LocationTarget(loc, config, upstreams) ==
    IF loc.proxy_pass = ""
    THEN Target("static", IF loc.root = "" THEN config.root ELSE loc.root)
    ELSE IF no_scheme[loc.proxy_pass] \in upstreams
    THEN Target("balanced", no_scheme[loc.proxy_pass])
    ELSE Target("proxy", loc.proxy_pass)

LocationRoutes(config, upstreams) ==
    IF config.locations = <<>>
    THEN <<Route(chars["/"], <<"GET", "HEAD">>, Target("static", "./www"))>>
    ELSE [i \in DOMAIN config.locations |->
             LET loc == config.locations[i]
             IN  Route(chars[loc.path], loc.methods, LocationTarget(loc, config, upstreams))]

\* All that may come of registering the routes in order.
setup_routes(config, upstreams) ==
    LET all == Internal \o LocationRoutes(config, upstreams)
        after[n \in 0..Len(all)] ==
            IF n = 0 THEN {<<>>} ELSE UNION {add_route(routes, all[n]) : routes \in after[n - 1]}
    IN  after[Len(all)]

\* The server for the first server block; nothing reads the parser any more.
\* -p changes only the port it listens on.
StartWithFile ==
    /\ process = "loading" /\ outcome = "ok"
    /\ process' = "serving"
    /\ config_' = Head(configs)
    /\ load_balancers_' = DOMAIN upstreams_
    /\ routes_' \in setup_routes(Head(configs), DOMAIN upstreams_)
    /\ tokens_' = <<>> /\ configs' = <<>> /\ upstreams_' = <<>> /\ outcome' = "taken"
    /\ UNCHANGED <<open, expect, words, last>>

\* No file: the defaults, whether or not -t is given.
StartWithDefaults ==
    /\ process = "args"
    /\ process' = "serving"
    /\ config_' = ServerBlock
    /\ routes_' \in setup_routes(ServerBlock, {})
    /\ UNCHANGED <<parserVars, load_balancers_, last>>

-----------------------------------------------------------------------------
(* Handlers: the responses each may give                                    *)

FileSize == 2
PageSize == 3
BackendSize == 4

\* A file, from the cache or from disk, or what kept handle from one.
StaticAnswers ==
    {set_header(ok(FileSize), "Content-Length", FileSize),
     redirect, forbidden, not_found, internal_error}

\* BackendAddr::parse.
backend_address(url) ==
    LET u == no_scheme[url]
        host == IF u \in DOMAIN colon THEN colon[u][1] ELSE u
    IN  [host |-> IF host = "localhost" THEN "127.0.0.1" ELSE host,
         port |-> IF u \in DOMAIN colon /\ colon[u][2] \in DOMAIN stoi
                  THEN stoi[colon[u][2]] ELSE 80]

\* parse_backend_response with a blank line: the status, or 502 without one
\* (404 stands for the errors), the headers with their keys as the backend
\* spells them, and as much of the body as came before the end, an error or
\* the timeout.  All headers are relayed; those about length, coding and
\* connection are kept here, the last two in one spelling.
FromBackend(method) ==
    LET full == IF method = "HEAD" THEN 0 ELSE BackendSize
        bare == {Response(code, size) : code \in {200, 404}, size \in {full, full \div 2}}
        sized == {set_header(r, key, BackendSize) :
                     r \in bare, key \in {"Content-Length", "content-length", "Transfer-Encoding"}}
    IN  bare \cup sized
            \cup {set_header(r, "Connection", value) :
                     r \in bare \cup sized, value \in {"close", "keep-alive"}}

\* ProxyHandler::handle with a backend at host: no connection or nothing
\* received, nothing with a blank line, or the backend's answer.
ProxyAnswers(host, method) ==
    {internal_error}
        \cup (IF host \in Dotted THEN {Response(502, 1)} \cup FromBackend(method) ELSE {})

\* What the router returns; a balancer without a healthy backend answers 500.
Answers(target, method) ==
    CASE target.handler = "404" -> {not_found}
      [] target.handler = "405" -> {method_not_allowed}
      [] target.handler = "internal" -> {ok(1)}
      [] target.handler = "static" -> StaticAnswers
      [] target.handler = "proxy" ->
            ProxyAnswers(backend_address(target.argument).host, method)
      [] target.handler = "balanced" -> ProxyAnswers("127.0.0.1", method)

-----------------------------------------------------------------------------
(* process_request                                                          *)

\* Mutant of DropBody: a HEAD response keeps its body.
KeepBody(request, response) == response

DropBody(request, response) ==
    IF request.method = "HEAD" THEN set_body(response, 0) ELSE response

\* The status has an error page; found says that the page is served with 200.
HasPage(response, found) ==
    found /\ response.status_code >= 400 /\ response.status_code \in DOMAIN config_.error_pages

ErrorPage(response, found) ==
    IF HasPage(response, found) THEN set_body(response, PageSize) ELSE response

KeepAlive(request, response) ==
    IF wants_keep_alive(request) THEN set_header(response, "Connection", "keep-alive")
    ELSE response

Finish(request, answer, found) ==
    build(KeepAlive(request, ErrorPage(DropBody(request, answer), found)))

Serving == process = "serving" /\ last = None

Handled(raw, request, target, answer, page, wire) ==
    /\ last' = [raw |-> raw, request |-> request, target |-> target, answer |-> answer,
                page |-> page, wire |-> wire]
    /\ UNCHANGED <<parserVars, process, config_, load_balancers_, routes_>>

\* What a fresh parser makes of each buffer.
Parsed == [raw \in Raws |-> parse(FreshParser, raw)]

\* The limiter refuses: the request is not even parsed.
Refuse(raw) ==
    /\ Serving /\ config_.rate_limit > 0
    /\ Handled(raw, NoRequest, Target("429", ""), too_many_requests, FALSE,
               build(too_many_requests))

BadRequest(raw) ==
    LET p == Parsed[raw] IN
    /\ Serving /\ ~(p.done /\ p.request.is_valid)
    /\ Handled(raw, NoRequest, Target("400", ""), bad_request, FALSE, build(bad_request))

Respond(raw) ==
    LET p == Parsed[raw]
        target == route(routes_, p.request)
    IN
    /\ Serving /\ p.done /\ p.request.is_valid
    /\ \E answer \in Answers(target, p.request.method), found \in BOOLEAN :
          Handled(raw, p.request, target, answer, HasPage(answer, found),
                  Finish(p.request, answer, found))

\* The response is written, the buffer cleared, and the next request comes.
NextRequest ==
    /\ last # None
    /\ last' = None
    /\ UNCHANGED <<parserVars, process, config_, load_balancers_, routes_>>

Next ==
    \/ Usage \/ LoadFile \/ Loading \/ LoadFailed \/ TestOnly
    \/ StartWithFile \/ StartWithDefaults
    \/ \E raw \in Raws : Refuse(raw) \/ BadRequest(raw) \/ Respond(raw)
    \/ NextRequest

Spec == Init /\ [][Next]_vars

-----------------------------------------------------------------------------
(* Properties                                                               *)

\* The i-th smallest of a set of numbers.
Nth(S, i) == CHOOSE n \in S : Rank(S, n) = i

\* The segments between the '/' of a path.
Ends(path) == {0, Len(path) + 1} \cup {i \in DOMAIN path : path[i] = "/"}

Segments(path) ==
    [i \in 1..(Cardinality(Ends(path)) - 1) |->
        SubSeq(path, Nth(Ends(path), i) + 1, Nth(Ends(path), i + 1) - 1)]

Covers(prefix, path) ==
    prefix = <<"/">> \/ IsPrefix(Segments(prefix), Segments(path))

\* A request goes where the configuration says: to a location whose path
\* covers the request's segment by segment and is the longest that does, in
\* whatever order the file has them; 405 comes only from such a location that
\* does not list the method, 404 only if no location covers the path.  The
\* internal endpoints count as locations (setup_routes, add_route, route).
RoutedByLongestPrefix ==
    last # None /\ last.request.is_valid =>
    LET said == Range(Internal \o LocationRoutes(config_, load_balancers_))
        covering == {r \in said : Covers(r.prefix, last.request.path)}
        longest == {r \in covering : \A s \in covering : Len(s.prefix) <= Len(r.prefix)}
        allowed(r) == r.methods = <<>> \/ last.request.method \in Range(r.methods)
    IN  CASE last.target.handler = "404" -> covering = {}
          [] last.target.handler = "405" -> \E r \in longest : ~allowed(r)
          [] OTHER -> \E r \in longest : allowed(r) /\ r.target = last.target

\* All ways to cut a buffer into at most three pieces.
Cuts(raw) ==
    {<<SubSeq(raw, 1, c[1]), SubSeq(raw, c[1] + 1, c[2]), SubSeq(raw, c[2] + 1, Len(raw))>> :
        c \in {c \in (0..Len(raw)) \X (0..Len(raw)) : c[1] <= c[2]}}

\* Any cut of raw leads the parser where raw as a whole does.
Uncut(raw) ==
    \A pieces \in Cuts(raw) :
       LET p == Feed(pieces) IN
       /\ (p.done <=> Parsed[raw].done) /\ p.request = Parsed[raw].request
       /\ ~p.done => p.buffer_ = Parsed[raw].buffer_

CutFreely == {raw \in Raws : Uncut(raw)}

\* However the bytes of a request are cut, the parser ends up where it does
\* when they come at once - same verdict, same request, and while unfinished
\* the same bytes kept - and it has finished exactly when the bytes hold a
\* whole request or can no longer become one (HttpParser::parse).
PiecesDoNotMatter ==
    last # None => /\ Parsed[last.raw].done <=> Whole(last.raw)
                   /\ last.raw \in CutFreely

\* Which responses a client cannot find the end of, and which mislead it about
\* the connection.  A refused or malformed request is answered with an
\* announced close.  Every other response ends where it says, except in two
\* cases: a HEAD request whose error status has a page (the body is dropped
\* first and the page put in after), and a backend's answer with a length or
\* a coding whose body is not that any more, because the backend was cut short
\* or because an error page replaced it.  It says that the connection stays
\* where it does, and also where a client that has asked for the close gets a
\* backend's own keep-alive (process_request, send_and_receive,
\* parse_backend_response, build).
FramedExactly ==
    last # None =>
    IF ~last.request.is_valid THEN last.wire.headers["Connection"] = "close"
    ELSE LET relayed == last.target.handler \in {"proxy", "balanced"} IN
         /\ Framed(last.request.method, last.wire) <=>
              ~(\/ last.request.method = "HEAD" /\ last.page
                \/ /\ last.request.method # "HEAD" /\ relayed
                   /\ Announced(last.answer) # {}
                   /\ last.page \/ last.answer.body # BackendSize)
         /\ SaysKept(last.wire) <=>
              wants_keep_alive(last.request) \/ (relayed /\ SaysKept(last.answer))
=============================================================================
