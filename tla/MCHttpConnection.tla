-------------------------- MODULE MCHttpConnection --------------------------
(* Instances of HttpConnection for TLC. *)
EXTENDS HttpConnection

Get == [method |-> "GET", headers |-> <<>>, body |-> <<>>]
Post(headers, body) == [method |-> "POST", headers |-> headers, body |-> body]

\* One of each kind that the code tells apart: plain ones, a last one, other bodies and
\* lengths (none, too long, with a line break, announced in lower case), methods that are
\* known but not served, unknown, and a header without a separator.
MixedRequests ==
    {Get,
     [Get EXCEPT !.headers = <<"Connection: close">>],
     [Get EXCEPT !.method = "HEAD"],
     [Get EXCEPT !.method = "BREW"],
     [Get EXCEPT !.headers = <<"malformed">>],
     Post(<<"Content-Length">>, <<"x", "x">>),
     Post(<<"Content-Type", "Content-Length">>, <<"x", "x">>),
     Post(<<"Content-Length">>, <<"x", "nl">>),
     Post(<<"Content-Length">>, <<>>),
     Post(<<"Content-Length">>, <<"x", "x", "x">>),
     Post(<<"content-length">>, <<"x", "x">>)}

PlainGets == {Get}
=============================================================================
