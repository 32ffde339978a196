----------------------------- MODULE HttpParser -----------------------------
(***************************************************************************)
(* The incremental request parser of src/http/http_parser.cpp as an        *)
(* operator on the parser's state.  Bytes come in units no part of the     *)
(* parser looks into: a line end, a request line, a header line, a byte of *)
(* a body.  A uri is the sequence of its characters, an escape sequence    *)
(* being one of them.                                                      *)
(***************************************************************************)
EXTENDS Integers, Sequences, SequencesExt, FiniteSetsExt, Functions

CONSTANTS Decoded,      \* character of a uri -> what url_decode makes of it
          Lower,        \* header key -> the key in lower case
          stoul         \* header value -> number, for values that are numbers

ASSUME NumbersAssumption == \A v \in DOMAIN stoul : stoul[v] \in Nat

CRLF == [unit |-> "crlf"]
Line(m, u, v) == [unit |-> "line", method |-> m, uri |-> u, version |-> v]
Header(k, v) == [unit |-> "header", key |-> k, value |-> v]
Byte(b) == [unit |-> "byte", byte |-> b]

NoRequest ==
    [method |-> "", path |-> <<>>, version |-> "", headers |-> <<>>, body |-> <<>>,
     is_complete |-> FALSE, is_valid |-> FALSE]

\* A parser before its first parse or after reset, with the request it fills
\* and what parse has returned.
FreshParser ==
    [buffer_ |-> <<>>, headers_parsed_ |-> FALSE, content_length_ |-> 0,
     request |-> NoRequest, done |-> FALSE]

-----------------------------------------------------------------------------

url_decode(uri) == [i \in DOMAIN uri |-> Decoded[uri[i]]]

\* The part before '?', decoded and made to start with '/'.
PathOf(uri) ==
    LET q == SelectInSeq(uri, LAMBDA c : c = "?")
        p == url_decode(IF q = 0 THEN uri ELSE SubSeq(uri, 1, q - 1))
    IN  IF p = <<>> \/ p[1] # "/" THEN <<"/">> \o p ELSE p

ValidMethods == {"GET", "POST", "PUT", "DELETE", "HEAD", "OPTIONS"}

\* parse_request_line accepts the first line of the header section.
ValidLine(section) ==
    /\ section # <<>> /\ section[1].unit = "line"
    /\ section[1].method \in ValidMethods
    /\ section[1].version \in {"HTTP/1.1", "HTTP/1.0"}

\* parse_headers: keys in lower case, the last of a key wins, lines that are
\* no header are skipped.
HeadersOf(section) ==
    FoldLeft(LAMBDA h, u : IF u.unit = "header" THEN (Lower[u.key] :> u.value) @@ h ELSE h,
             <<>>, section)

\* A value that is no number counts as 0.
ContentLength(headers) ==
    IF "content-length" \in DOMAIN headers /\ headers["content-length"] \in DOMAIN stoul
    THEN stoul[headers["content-length"]] ELSE 0

wants_keep_alive(request) ==
    LET asked == IF "connection" \in DOMAIN request.headers
                 THEN request.headers["connection"] ELSE ""
    IN  IF request.version = "HTTP/1.1" THEN asked # "close" ELSE asked = "keep-alive"

\* The place of the first blank line, two line ends in a row; 0 without one.
BlankLine(buffer) ==
    LET ends == {i \in 1..(Len(buffer) - 1) : buffer[i] = CRLF /\ buffer[i + 1] = CRLF}
    IN  IF ends = {} THEN 0 ELSE Min(ends)

\* Stage 1: nothing before the blank line has come; a bad request line ends
\* the parse with the request not valid.
ParseHead(p) ==
    LET end == BlankLine(p.buffer_)
        section == SubSeq(p.buffer_, 1, end - 1)
        headers == HeadersOf(Tail(section))
    IN
    IF p.headers_parsed_ \/ end = 0 THEN p
    ELSE IF ~ValidLine(section) THEN [p EXCEPT !.done = TRUE]
    ELSE [p EXCEPT !.headers_parsed_ = TRUE,
                   !.buffer_ = SubSeq(@, end + 2, Len(@)),
                   !.content_length_ = ContentLength(headers),
                   !.request = [@ EXCEPT !.method = section[1].method,
                                         !.path = PathOf(section[1].uri),
                                         !.version = section[1].version,
                                         !.headers = headers]]

\* Stage 2: the body, once all of it is there.
ParseBody(p) ==
    LET n == p.content_length_ IN
    IF p.done \/ ~p.headers_parsed_ \/ Len(p.buffer_) < n THEN p
    ELSE [p EXCEPT !.done = TRUE,
                   !.buffer_ = SubSeq(@, n + 1, Len(@)),
                   !.request = [@ EXCEPT !.body = SubSeq(p.buffer_, 1, n),
                                         !.is_complete = TRUE, !.is_valid = TRUE]]

\* Mutant of Received: the buffer is replaced by what has just come.
ReceivedOnly(p, data) == [p EXCEPT !.buffer_ = data]

Received(p, data) == [p EXCEPT !.buffer_ = @ \o data]

parse(p, data) == ParseBody(ParseHead(Received(p, data)))

\* parse is called with one piece after the other until it returns true.
Feed(pieces) ==
    LET after[n \in 0..Len(pieces)] ==
            IF n = 0 THEN FreshParser
            ELSE LET p == after[n - 1] IN IF p.done THEN p ELSE parse(p, pieces[n])
    IN  after[Len(pieces)]

-----------------------------------------------------------------------------
(* What a request is, read off all its bytes                                *)

\* What comes after the blank line.
Rest(raw) == SubSeq(raw, BlankLine(raw) + 2, Len(raw))

\* The bytes hold a whole request, or a head that cannot become one.
Whole(raw) ==
    LET head == SubSeq(raw, 1, BlankLine(raw) - 1) IN
    /\ BlankLine(raw) > 0
    /\ ValidLine(head) => Len(Rest(raw)) >= ContentLength(HeadersOf(Tail(head)))
=============================================================================
