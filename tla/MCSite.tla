------------------------------- MODULE MCSite -------------------------------
(***************************************************************************)
(* Words for configuration files and the requests tried on the servers     *)
(* they make.                                                              *)
(***************************************************************************)
EXTENDS Site

ArgsValue ==
    [server |-> {"127.0.0.1:1"}, upstream |-> {"up"},
     location |-> {"/", "/a", "/a/b"}, listen |-> {"1", "localhost:1"}, server_name |-> {"up"},
     root |-> {"/a"}, error_page |-> {"404", "/a"}, client_max_body_size |-> {"1k"},
     rate_limit |-> {"1"}, index |-> {"up"}, autoindex |-> {"on"},
     proxy_pass |-> {"http://up", "http://127.0.0.1:1"}, methods |-> {"GET", "HEAD"},
     health_check_interval |-> {"1"}]

stoiValue == [w \in {"1", "404"} |-> IF w = "1" THEN 1 ELSE 404]
colonValue == ("127.0.0.1:1" :> <<"127.0.0.1", "1">>) @@ ("localhost:1" :> <<"localhost", "1">>)
suffixValue == "1k" :> <<"1", 1024>>

charsValue ==
    ("/" :> <<"/">>) @@ ("/a" :> <<"/", "a">>) @@ ("/a/b" :> <<"/", "a", "/", "b">>)
        @@ ("/health" :> <<"/", "health">>) @@ ("/metrics" :> <<"/", "metrics">>)

no_schemeValue ==
    ("http://up" :> "up") @@ ("http://127.0.0.1:1" :> "127.0.0.1:1")

DecodedValue == [c \in {"/", "a", "b", "health", "%61"} |-> IF c = "%61" THEN "a" ELSE c]
LowerValue == [k \in {"Connection", "content-length", "Content-Length"} |->
                  IF k = "Connection" THEN "connection" ELSE "content-length"]
stoulValue == [n \in {"1", "2"} |-> IF n = "1" THEN 1 ELSE 2]

Bare(m, uri, v) == <<Line(m, uri, v), CRLF, CRLF>>
WithBody(uri, key, n, body) ==
    <<Line("POST", uri, "HTTP/1.1"), CRLF, Header(key, n), CRLF, CRLF>> \o body

RawsValue ==
    {Bare("GET", <<"/">>, "HTTP/1.0"),
     Bare("GET", <<"/", "a", "b">>, "HTTP/1.1"),
     Bare("HEAD", <<"/", "%61", "/", "b", "/", "a">>, "HTTP/1.1"),
     Bare("GET", <<"a", "?", "/", "b">>, "HTTP/1.1"),
     Bare("HEAD", <<"/", "health">>, "HTTP/1.1"),
     Bare("BREW", <<"/", "a">>, "HTTP/1.1"),
     WithBody(<<"/", "a", "/", "b">>, "Content-Length", "2", <<Byte("x"), Byte("y")>>),
     WithBody(<<"/", "a">>, "content-length", "2", <<Byte("x")>>),
     WithBody(<<"/", "a">>, "Content-Length", "many", <<Byte("x"), Byte("y")>>),
     <<CRLF, CRLF>>,
     <<Line("GET", <<"/", "health", "/", "a">>, "HTTP/1.1"), CRLF,
       Header("Connection", "close"), CRLF, Header("content-length", "2"), CRLF,
       Header("Content-Length", "1"), CRLF, CRLF, Byte("x"), Byte("y")>>}
=============================================================================
