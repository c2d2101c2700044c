---------------------------- MODULE MCHttpService ----------------------------
(* Constants for HttpService. *)
EXTENDS HttpService

MCKind == [a |-> "ansuz", f |-> "fileserv", g |-> "fileserv", d |-> "default404",
           l |-> "logger", r |-> "redirect"]

MCHosts == [a |-> None, f |-> {"h1"}, g |-> None, d |-> None, l |-> None, r |-> None]

Full == [auth |-> "full"]

MCContents ==
    {Full, [auth |-> "partial", nodot |-> Mistyped], [nodot |-> FALSE, modules |-> TRUE],
     [auth |-> Mistyped, modules |-> Mistyped]}

(* The control panel with everything it can load and unload, one of the    *)
(* file servers with its root elsewhere; a file server whose .algiz files  *)
(* are edited; one that is asked for ranges.                               *)
MCDeployments ==
    {[plugins |-> <<"l", "a", "f", "g", "d">>, files |-> {Gone}, edits |-> 0, traffic |-> "panel"],
     [plugins |-> <<"g", "r">>, files |-> {Full, Torn, Gone}, edits |-> 2, traffic |-> "files"],
     [plugins |-> <<"g">>, files |-> {Gone}, edits |-> 0, traffic |-> "ranges"]}

MCOptions == [nodot |-> TRUE]

Numbers == {0, 1, 2, 5, 6, 7}

Both == [form : {"both"}, start : Numbers, end : Numbers]

Pieces ==
    Both \cup [form : {"open", "suffix"}, start : {0, 2, 6, 7}, end : {0}]
         \cup [form : {"bare"}, start : {0, 5, 6}, end : {0}]

Short == {b \in [form : {"both"}, start : 0 .. 6, end : 0 .. 6] : b.end - b.start \in {1, 2}}

Few == {<<>>, <<[form |-> "both", start |-> 1, end |-> 2]>>, <<[form |-> "suffix", start |-> 2, end |-> 0]>>}

Many ==
    {<<>>} \cup {<<p>> : p \in Pieces} \cup {<<p, q>> : p, q \in Pieces}
        \cup {<<p, q, s>> : p, q, s \in Short}

MCTraffic(name) ==
    CASE name = "panel"  -> [requests |-> UpgradeRequests \cup PanelRequests
                                \cup {r \in PlainRequests : r.to \in {"file", "missing", "noslash"}},
                             headers |-> {<<>>}]
      [] name = "files"  -> [requests |-> {r \in PlainRequests : r.host = None
                                            /\ (r.method = "POST" => r.to \in {"file", "dot", "module"})},
                             headers |-> Few]
      [] name = "ranges" -> [requests |-> {r \in PlainRequests : r.host = None /\ r.method = "GET"
                                            /\ r.to = "file" /\ ~r.cred},
                             headers |-> Many]
=============================================================================
