----------------------------- MODULE HttpParser -----------------------------
(***************************************************************************)
(* The request parser of one HttpData: ParseURI, ParseHeaders and          *)
(* AnalysisRequest, as HandleRead drives them over whatever part of the    *)
(* stream each read finds, until the first error.                          *)
(*                                                                         *)
(* The stream is a sequence of symbols: words (a method, a part of a path, *)
(* a key, a part of a value) and the characters the parser looks for.      *)
(* Positions count from 1 and std::string::npos is 0, so that npos + 1 is  *)
(* the first position, as it is in the code.                               *)
(***************************************************************************)
EXTENDS Integers, SequencesExt, TLC

CONSTANTS
  Requests,           \* what the client may ask, records as in RequestOK
  MaxRequests,        \* requests of a connection (the bound)
  Files,              \* names AnalysisRequest finds
  MaxValue            \* the 255 of ParseHeaders

Methods == {"GET", "POST", "HEAD"}
ParseState == {"H_START", "H_KEY", "H_COLON", "H_SPACES_AFTER_COLON", "H_VALUE",
               "H_CR", "H_LF", "H_END_CR", "H_END_LF"}
\* A request as HTTP has it.
RequestOK(r) ==
  /\ r.method \in Methods
  /\ r.path \in Seq(STRING)
  /\ \A i \in DOMAIN r.path : r.path[i] \notin {" ", "CR", "LF"}
  /\ r.headers \in Seq([key : STRING, value : Seq(STRING)])
  /\ \A i \in DOMAIN r.headers :
       /\ r.headers[i].key \notin {":", " ", "CR", "LF"}
       /\ \A k \in DOMAIN r.headers[i].value : r.headers[i].value[k] # "CR"
  /\ r.body \in Seq(STRING)

ASSUME RequestsAssumption == \A r \in Requests : RequestOK(r)
ASSUME BoundsAssumption == MaxRequests \in Nat \ {0} /\ MaxValue \in Nat

VARIABLES
  http,               \* the parser's part of HttpData
  wire,               \* sent and not yet read
  again,              \* HandleRead is about to call itself
  sent,               \* history: the requests sent
  served,             \* history: what was answered with 200
  piped,              \* history: a request was sent before the last was served
  clean               \* history: every read ended at the end of what was sent,
                      \* or next to the LF of the request line
vars == <<http, wire, again, sent, served, piped, clean>>

NoHeaders == [k \in {} |-> <<>>]

Init ==
  /\ http = [state_ |-> "STATE_PARSE_URI", h_state_ |-> "H_START",
             in_buffer_ |-> <<>>, method_ |-> "GET", file_name_ |-> <<>>,
             headers_ |-> NoHeaders, keep_alive_ |-> FALSE, error_ |-> "no"]
  /\ wire = <<>> /\ again = FALSE
  /\ sent = <<>> /\ served = <<>> /\ piped = FALSE /\ clean = TRUE

-----------------------------------------------------------------------------
\* What a client puts on the wire for a request.
HeaderLine(h) == <<h.key, ":", " ">> \o h.value \o <<"CR", "LF">>
HeaderPart(r) ==
  FlattenSeq([i \in DOMAIN r.headers |-> HeaderLine(r.headers[i])])
    \o <<"CR", "LF">> \o r.body
Render(r) ==
  <<r.method, " ", "/">> \o r.path \o <<" ", "HTTP", "/", "1.1", "CR", "LF">>
    \o HeaderPart(r)

-----------------------------------------------------------------------------
npos == 0

\* str.find(c, from)
Find(str, c, from) ==
  IF from = npos THEN npos
  ELSE SelectInSubSeq(str, from, Len(str), LAMBDA x : x = c)

\* Mutant: the query stays in the file name.
FileNameWithQuery(name) == IF name = <<>> THEN <<"index.html">> ELSE name

\* The name up to the query.
FileName(name) ==
  LET query == Find(name, "?", 1) IN
  IF name = <<>> THEN <<"index.html">>
  ELSE IF query = npos THEN name
  ELSE SubSeq(name, 1, query - 1)

\* The method, wherever it is in the line; GET before POST before HEAD.
MethodIn(line) ==
  IF Contains(line, "GET") THEN "GET"
  ELSE IF Contains(line, "POST") THEN "POST"
  ELSE IF Contains(line, "HEAD") THEN "HEAD"
  ELSE "none"

\* ParseURI.  Its tests for "not found" compare an unsigned position with 0
\* and never hold: without a CR the whole buffer is the request line and
\* stays in the buffer; without a '/' or ' ' the search goes on from npos.
ParseURI(h) ==
  LET str == h.in_buffer_
      cr == Find(str, "CR", 1)
      line == IF cr = npos THEN str ELSE SubSeq(str, 1, cr - 1)
      method == MethodIn(line)
      slash == Find(line, "/", Find(line, method, 1))
      space == Find(line, " ", slash)
      name == IF slash = npos THEN <<>>
              ELSE IF space = npos THEN SubSeq(line, slash + 1, Len(line))
              ELSE SubSeq(line, slash + 1, space - 1)
      version == Find(line, "/", space) + 1
      ok == /\ method # "none"
            /\ version <= Len(line) /\ line[version] \in {"1.0", "1.1"}
  IN IF ok
     THEN [h EXCEPT !.in_buffer_ = SubSeq(str, cr + 1, Len(str)),
                    !.method_ = method, !.file_name_ = FileName(name),
                    !.state_ = "STATE_PARSE_HEADERS"]
     ELSE [h EXCEPT !.in_buffer_ = <<>>, !.error_ = "400"]

-----------------------------------------------------------------------------
\* ParseHeaders: p holds its local variables, reset with every call, and the
\* state that is kept between calls.  h_state_ = "error" stands for its
\* PARSE_HEADER_ERROR returns.
Unset == 0
Locals(h) ==
  [h_state_ |-> h.h_state_, headers_ |-> h.headers_,
   key_start |-> Unset, key_end |-> Unset,
   value_start |-> Unset, value_end |-> Unset,
   now_read_line_begin |-> 1, finished |-> FALSE]

\* string(begin + from, begin + to).  A start that was never set is -1 in the
\* code: the range begins with whatever is in front of the buffer.
Slice(str, from, to) ==
  IF from = Unset /\ to # Unset
  THEN <<"junk">> \o SubSeq(str, 1, to - 1)
  ELSE SubSeq(str, from, to - 1)

\* headers[key] = value
Assign(headers, key, value) ==
  [k \in DOMAIN headers \union {key} |-> IF k = key THEN value ELSE headers[k]]

\* Mutant: the bound on values is one lower.
TooLongByOne(p, i) == i - p.value_start >= MaxValue

TooLong(p, i) == i - p.value_start > MaxValue

\* One turn of the loop, on character i.
Advance(p, str, i) ==
  LET c == str[i]
      eol == c \in {"CR", "LF"}
      Goto(s) == [p EXCEPT !.h_state_ = s]
  IN CASE p.h_state_ = "H_START" ->
            IF eol THEN p
            ELSE [Goto("H_KEY") EXCEPT !.key_start = i,
                                       !.now_read_line_begin = i]
       [] p.h_state_ = "H_KEY" ->
            IF c = ":" /\ i > p.key_start
            THEN [Goto("H_COLON") EXCEPT !.key_end = i]
            ELSE IF c = ":" \/ eol THEN Goto("error") ELSE p
       [] p.h_state_ = "H_COLON" ->
            Goto(IF c = " " THEN "H_SPACES_AFTER_COLON" ELSE "error")
       [] p.h_state_ = "H_SPACES_AFTER_COLON" ->
            [Goto("H_VALUE") EXCEPT !.value_start = i]
       [] p.h_state_ = "H_VALUE" ->
            IF c = "CR" /\ i > p.value_start
            THEN [Goto("H_CR") EXCEPT !.value_end = i]
            ELSE IF c = "CR" \/ TooLong(p, i) THEN Goto("error") ELSE p
       [] p.h_state_ = "H_CR" ->
            IF c = "LF"
            THEN [Goto("H_LF") EXCEPT
                    !.headers_ = Assign(p.headers_,
                                        Slice(str, p.key_start, p.key_end),
                                        Slice(str, p.value_start, p.value_end)),
                    !.now_read_line_begin = i]
            ELSE Goto("error")
       [] p.h_state_ = "H_LF" ->
            IF c = "CR" THEN Goto("H_END_CR")
            ELSE [Goto("H_KEY") EXCEPT !.key_start = i]
       [] p.h_state_ = "H_END_CR" ->
            Goto(IF c = "LF" THEN "H_END_LF" ELSE "error")
       [] p.h_state_ = "H_END_LF" ->
            [p EXCEPT !.finished = TRUE, !.key_start = i,
                      !.now_read_line_begin = i]

\* The loop over the buffer: the locals after its first n characters.
Scan(h) ==
  LET str == h.in_buffer_
      scan[n \in 0..Len(str)] ==
        IF n = 0 THEN [p |-> Locals(h), i |-> 0]
        ELSE LET s == scan[n - 1] IN
             IF s.p.finished \/ s.p.h_state_ = "error" THEN s
             ELSE [p |-> Advance(s.p, str, n), i |-> n]
  IN scan[Len(str)]

\* Mutant: a buffer that ends with the headers is not the end of the headers.
ParseHeadersNeedsMore(h) ==
  LET s == Scan(h)
      str == h.in_buffer_
      after == [h EXCEPT !.h_state_ = s.p.h_state_, !.headers_ = s.p.headers_]
  IN CASE s.p.h_state_ = "error" -> [h EXCEPT !.error_ = "400"]
       [] s.p.finished ->
            [after EXCEPT !.in_buffer_ = SubSeq(str, s.i + 1, Len(str)),
                          !.state_ = IF h.method_ = "POST" THEN "STATE_RECV_BODY"
                                     ELSE "STATE_ANALYSIS"]
       [] OTHER ->
            [after EXCEPT !.in_buffer_ =
                            SubSeq(str, s.p.now_read_line_begin, Len(str))]

ParseHeaders(h) ==
  LET s == Scan(h)
      str == h.in_buffer_
      after == [h EXCEPT !.h_state_ = s.p.h_state_, !.headers_ = s.p.headers_]
  IN CASE s.p.h_state_ = "error" -> [h EXCEPT !.error_ = "400"]
       [] s.p.h_state_ = "H_END_LF" ->
            [after EXCEPT !.in_buffer_ = SubSeq(str, s.i + 1, Len(str)),
                          !.state_ = IF h.method_ = "POST" THEN "STATE_RECV_BODY"
                                     ELSE "STATE_ANALYSIS"]
       [] OTHER ->
            [after EXCEPT !.in_buffer_ =
                            SubSeq(str, s.p.now_read_line_begin, Len(str))]

-----------------------------------------------------------------------------
\* The body of a POST: wait for as many characters as Content-length says.
ContentLength == <<"Content-length">>
ReceiveBody(h) ==
  IF ContentLength \notin DOMAIN h.headers_ THEN [h EXCEPT !.error_ = "400"]
  ELSE IF \E n \in 0..Len(h.in_buffer_) : h.headers_[ContentLength] = <<ToString(n)>>
  THEN [h EXCEPT !.state_ = "STATE_ANALYSIS"]
  ELSE h

AsksKeepAlive(headers) ==
  /\ <<"Connection">> \in DOMAIN headers
  /\ headers[<<"Connection">>] = <<"Keep-Alive">>

\* AnalysisRequest: the possible outcomes.  A POST is an error without an
\* answer; open() or mmap() of a file that exists may fail.
AnalysisRequest(h) ==
  LET alive == [h EXCEPT !.keep_alive_ = @ \/ AsksKeepAlive(h.headers_)]
      finish == [alive EXCEPT !.state_ = "STATE_FINISH"]
      notFound == [alive EXCEPT !.error_ = "404"]
  IN IF h.method_ = "POST" THEN {[h EXCEPT !.error_ = "unanswered"]}
     ELSE IF h.file_name_ \notin Files THEN {notFound}
     ELSE IF h.method_ = "HEAD" THEN {finish}
     ELSE {finish, notFound}

\* Mutant: the state of the header parser is not reset.
ResetKeepsState(h) ==
  [h EXCEPT !.file_name_ = <<>>, !.state_ = "STATE_PARSE_URI",
            !.headers_ = NoHeaders]

Reset(h) ==
  [h EXCEPT !.file_name_ = <<>>, !.state_ = "STATE_PARSE_URI",
            !.h_state_ = "H_START", !.headers_ = NoHeaders]

-----------------------------------------------------------------------------
\* A stage of HandleRead runs in its state, if no stage before it failed; a
\* stage that needs more input leaves the state as it is.
Stage(h, state, result) ==
  IF h.state_ = state /\ h.error_ = "no" THEN result ELSE h

Outcomes(h) ==
  LET uri == Stage(h, "STATE_PARSE_URI", ParseURI(h))
      headers == Stage(uri, "STATE_PARSE_HEADERS", ParseHeaders(uri))
      body == Stage(headers, "STATE_RECV_BODY", ReceiveBody(headers))
  IN IF body.state_ = "STATE_ANALYSIS" /\ body.error_ = "no"
     THEN AnalysisRequest(body)
     ELSE {body}

\* The client sends a request, whatever became of the ones before.
Send(r) ==
  /\ Len(sent) < MaxRequests
  /\ http.error_ = "no"
  /\ sent' = Append(sent, r)
  /\ wire' = wire \o Render(r)
  /\ piped' = (piped \/ Len(served) < Len(sent) \/ again)
  /\ UNCHANGED <<http, again, served, clean>>

\* The read of n symbols ends where the parser expects a request to be cut.
CleanCut(n) ==
  LET left == Len(wire) - n
      headers == Len(HeaderPart(Last(sent)))
  IN n = 0 \/ left = 0 \/ left = headers \/ left = headers + 1

\* One pass of HandleRead over what it finds on the wire: epoll calls it for
\* input, and it calls itself while a served request leaves input behind.
HandleRead(n) ==
  /\ http.error_ = "no"
  /\ again \/ n > 0
  /\ LET input == http.in_buffer_ \o SubSeq(wire, 1, n) IN
     \E h \in Outcomes([http EXCEPT !.in_buffer_ = input]) :
       IF h.state_ = "STATE_FINISH"
       THEN /\ served' = Append(served, [method |-> h.method_,
                                        file |-> h.file_name_,
                                        headers |-> h.headers_])
            /\ http' = Reset(h)
            /\ again' = (h.in_buffer_ # <<>>)
       ELSE /\ http' = h
            /\ again' = FALSE
            /\ UNCHANGED served
  /\ wire' = SubSeq(wire, n + 1, Len(wire))
  /\ clean' = (clean /\ CleanCut(n))
  /\ UNCHANGED <<sent, piped>>

Next ==
  \/ \E r \in Requests : Send(r)
  \/ \E n \in 0..Len(wire) : HandleRead(n)

Spec == Init /\ [][Next]_vars

-----------------------------------------------------------------------------
\* What a request means.
Named(r) ==
  IF r.path = <<>> THEN <<"index.html">>
  ELSE CHOOSE name \in Prefixes(r.path) :
         /\ ~Contains(name, "?")
         /\ name = r.path \/ r.path[Len(name) + 1] = "?"
Fields(r) ==
  [k \in {<<r.headers[i].key>> : i \in DOMAIN r.headers} |->
     LET last == CHOOSE i \in DOMAIN r.headers :
                   /\ <<r.headers[i].key>> = k
                   /\ \A j \in DOMAIN r.headers :
                        <<r.headers[j].key>> = k => j <= i
     IN r.headers[last].value]
Meaning(r) == [method |-> r.method, file |-> Named(r), headers |-> Fields(r)]

\* A request that the parser cannot take for another.  Nothing in the code
\* asks for this: a method is looked for in the whole request line; a line
\* whose path ends with a colon reads like a header; the value of a header is
\* never empty, so an empty one takes in the line behind it; and the body of
\* a GET or HEAD is read as the next request.
Clear(r) ==
  /\ \A i \in DOMAIN r.path : r.path[i] \notin Methods
  /\ r.path # <<>> => r.path[Len(r.path)] # ":"
  /\ \A i \in DOMAIN r.headers : r.headers[i].value # <<>>
  /\ r.method # "POST" => r.body = <<>>

\* What the server supports: GET and HEAD, with at least one header.
Supported(r) == r.method \in {"GET", "HEAD"} /\ r.headers # <<>>
Fits(r) == \A i \in DOMAIN r.headers : Len(r.headers[i].value) <= MaxValue + 1

-----------------------------------------------------------------------------
\* Properties.

\* The fields have their types, and between two requests the parser is as it
\* was made.
TypeOK ==
  /\ http.state_ \in {"STATE_PARSE_URI", "STATE_PARSE_HEADERS", "STATE_RECV_BODY"}
       \/ http.error_ # "no"
  /\ http.h_state_ \in ParseState
  /\ http.method_ \in Methods
  /\ http.error_ \in {"no", "400", "404", "unanswered"}
  /\ http.keep_alive_ \in BOOLEAN /\ again \in BOOLEAN
  /\ http.state_ = "STATE_PARSE_URI" =>
       /\ http.h_state_ = "H_START"
       /\ http.headers_ = NoHeaders /\ http.file_name_ = <<>>
  /\ again => http.state_ = "STATE_PARSE_URI" /\ http.in_buffer_ # <<>>

\* However the stream is cut into reads and however much is pipelined: as long
\* as all requests are clear, what is answered is the file that was asked for,
\* in the order of the requests.
NeverServesAnother ==
  (\A i \in DOMAIN sent : Clear(sent[i])) =>
    /\ Len(served) <= Len(sent)
    /\ \A i \in DOMAIN served : /\ served[i].method = sent[i].method
                                /\ served[i].file = Named(sent[i])

\* A client that waits for its answers, and whose requests are clear and
\* arrive whole or cut next to the LF of the request line, is understood: its
\* requests are not refused, and every header has its value and belongs to its
\* request.
WholeIsUnderstood ==
  /\ clean /\ ~piped
  /\ \A i \in DOMAIN sent : Clear(sent[i]) /\ Supported(sent[i]) /\ Fits(sent[i])
  => /\ http.error_ # "400"
     /\ \A i \in DOMAIN served : served[i] = Meaning(sent[i])

\* A clear request that has arrived completely, in whatever pieces, is served
\* or refused: the parser does not wait for more.
ArrivedIsDecided ==
  /\ sent # <<>> /\ wire = <<>> /\ ~again
  /\ \A i \in DOMAIN sent : Clear(sent[i]) /\ Supported(sent[i])
  => http.error_ # "no" \/ Len(served) = Len(sent)

\* README.md: pipelining is supported.
PipelinedIsUnderstood ==
  /\ clean
  /\ \A i \in DOMAIN sent : Clear(sent[i]) /\ Supported(sent[i]) /\ Fits(sent[i])
  => http.error_ # "400"
=============================================================================
