---------------------------- MODULE HttpResponse ----------------------------
(***************************************************************************)
(* Responses (src/http/http_response.cpp) as far as a client needs them to *)
(* find the end of one: the status, the size of the body and the headers   *)
(* about it.  headers_ is a map with case-sensitive keys, so that a        *)
(* backend's "content-length" and the server's "Content-Length" are two    *)
(* headers.                                                                *)
(***************************************************************************)
EXTENDS Integers, Maps

\* What the factories make: no headers about length or connection.
Response(code, size) == [status_code |-> code, body |-> size, headers |-> <<>>]

set_header(r, key, value) == [r EXCEPT !.headers = Assigned(@, key, value)]
set_body(r, size) == [r EXCEPT !.body = size]

ok(size)             == Response(200, size)
redirect             == Response(301, 0)
bad_request          == Response(400, 1)
forbidden            == Response(403, 1)
not_found            == Response(404, 1)
method_not_allowed   == Response(405, 1)
internal_error       == Response(500, 1)
too_many_requests    == Response(429, 1)

\* The response on the wire: what build adds.
build(r) ==
    LET sized == IF "Content-Length" \in DOMAIN r.headers THEN r
                 ELSE set_header(r, "Content-Length", r.body)
    IN  IF "Connection" \in DOMAIN sized.headers THEN sized
        ELSE set_header(sized, "Connection", "close")

\* The sizes a response on the wire announces.  A transfer coding, whose value
\* here is the size of the coded stream, marks its own end, whatever lengths
\* are beside it.
Announced(wire) ==
    IF "Transfer-Encoding" \in DOMAIN wire.headers THEN {wire.headers["Transfer-Encoding"]}
    ELSE {wire.headers[k] : k \in {"Content-Length", "content-length"} \cap DOMAIN wire.headers}

\* A response tells the client that the connection stays.
SaysKept(r) == "Connection" \in DOMAIN r.headers /\ r.headers["Connection"] = "keep-alive"

\* A client that reads by the announced size, or nothing after the answer to
\* HEAD, finds the next response where this one ends.
Framed(method, wire) ==
    IF method = "HEAD" THEN wire.body = 0 ELSE Announced(wire) = {wire.body}
=============================================================================
