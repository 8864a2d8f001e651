---------------------------- MODULE MCHttpParser ----------------------------
(***************************************************************************)
(* Instance of HttpParser for TLC: requests that differ in method, path,   *)
(* query, number of headers and length of a value; one without headers and *)
(* a POST with a body, too; and five that are not clear.                   *)
(***************************************************************************)
EXTENDS HttpParser

Header(key, value) == [key |-> key, value |-> value]
Host == Header("Host", <<"x">>)
Request(method, path, headers, body) ==
  [method |-> method, path |-> path, headers |-> headers, body |-> body]

MCRequests ==
  { Request("GET", <<"a">>, <<Host>>, <<>>),
    Request("HEAD", <<"a", "/", "b", "?", "q">>,
            <<Host, Header("Connection", <<"Keep-Alive">>)>>, <<>>),
    Request("GET", <<>>, <<Header("Connection", <<"close">>)>>, <<>>),
    Request("GET", <<"b">>, <<Header("Host", <<"x", ":", "80">>)>>, <<>>),
    Request("GET", <<"a">>, <<Header("Host", <<"x", "x">>)>>, <<>>),
    Request("GET", <<"a">>, <<>>, <<>>),
    Request("POST", <<"a">>, <<Header("Content-length", <<"2">>)>>,
            <<"body", "body">>),
    Request("HEAD", <<"x", "/", "GET", "/", "a">>, <<Host>>, <<>>),
    Request("HEAD", <<"GET">>, <<Host>>, <<>>),
    Request("GET", <<"a", ":">>, <<Host>>, <<>>),
    Request("GET", <<"a">>, <<Header("Host", <<>>)>>, <<>>),
    Request("GET", <<"a">>, <<Host>>, <<"GET", " ", "/", "b">>) }

\* A file name may hold a question mark, too.
MCFiles ==
  {<<"a">>, <<"a", "/", "b">>, <<"a", "/", "b", "?", "q">>, <<"index.html">>}
=============================================================================
