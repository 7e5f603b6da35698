------------------------------- MODULE MCCli -------------------------------
(* Two runs of one client against a grant that exists already: command lines *)
(* that share a key, reuse the grant, respell their URL or are unusable.     *)
EXTENDS Cli

CONSTANTS r1, r2, late, issued, none, key

MCUpper(m) == IF m = "post" THEN "POST" ELSE IF m = "trace" THEN "TRACE" ELSE m

MCExisting == [origin |-> "h1", methods |-> {"GET"},
               prefixes |-> {[spelled |-> "plain", segs |-> <<"a">>]}, uses |-> 1]

MCInjections == {[kind |-> "header", header |-> "x-key", template |-> "usable", secret |-> "safe"],
                 [kind |-> "aws-sigv4", header |-> "none", template |-> "usable",
                  secret |-> "unsafe"]}

Path(how, segs) == [spelled |-> how, segs |-> segs]
Url(path, query) == [scheme |-> "https", userinfo |-> FALSE, fragment |-> FALSE,
                     host |-> "h1", path |-> path, query |-> query]
Header(name, form, nominates) ==
    [name |-> name, form |-> form, value |-> "v", nominates |-> nominates]

Get == [cmd |-> "curl", url |-> Url(Path("plain", <<"a">>), none), method |-> none,
        body |-> none, headers |-> <<>>, secret |-> "s", grant |-> none, key |-> none,
        ttl |-> 1, uses |-> 1, allow |-> {}, prefixes |-> {}, output |-> none, fail |-> FALSE,
        include |-> FALSE, override |-> FALSE, mechanism |-> "cli-read", tierKnown |-> TRUE]

SharedKey == [id |-> key, bytes |-> 1]
Data(id) == [id |-> id, from |-> "raw", size |-> 1]

\* A call with a body, a hop-by-hop header and an output file.
Post(id) == [Get EXCEPT !.key = SharedKey, !.body = Data(id), !.output = "out",
                        !.headers = <<Header("connection", "value", {"x-hop"}),
                                      Header("x-hop", "value", {}),
                                      Header("x-key", "value", {})>>]

Reuse == [Get EXCEPT !.grant = issued, !.secret = none]
Release == [Get EXCEPT !.cmd = "request", !.key = SharedKey]
Deposit == [Get EXCEPT !.cmd = "store", !.body = Data("v")]

\* Refused before anything is sent.
Unusable ==
    {[Get EXCEPT !.url.scheme = "http"], [Get EXCEPT !.method = "trace"],
     [Get EXCEPT !.url.path = Path("dots", <<"a">>)],
     [Get EXCEPT !.url.path = Path("escaped", <<"a">>), !.prefixes = {Path("plain", <<"a">>)}],
     [Get EXCEPT !.prefixes = {Path("plain", <<"b">>)}],
     [Get EXCEPT !.output = "token"], [Get EXCEPT !.secret = none],
     [Get EXCEPT !.headers = <<Header("host", "remove", {})>>],
     [Get EXCEPT !.uses = 3],
     [Deposit EXCEPT !.body = none], [Release EXCEPT !.mechanism = "brokered"]}

\* Written to the token file, which this run does not need.
Refresh == [Get EXCEPT !.url.query = [odd |-> FALSE], !.output = "token", !.override = TRUE,
                       !.fail = TRUE, !.include = TRUE, !.uses = 2]

Pair(a, b) == (r1 :> a) @@ (r2 :> b)

MCCommandLines ==
    {Pair(Post("b1"), Post("b1")), Pair(Post("b1"), Post("b2")),
     Pair(Release, Release), Pair(Deposit, Deposit),
     Pair(Deposit, Refresh),
     Pair(Reuse, [Reuse EXCEPT !.url.path = Path("encoded", <<"a", "b">>), !.fail = TRUE,
                               !.output = "out"])}
    \cup {Pair(Deposit, b) : b \in Unusable \cup
             {[Reuse EXCEPT !.url.host = "h2"],
              [Get EXCEPT !.url.query = [odd |-> TRUE], !.method = "post"],
              [Get EXCEPT !.body = [id |-> "b3", from |-> "missing", size |-> 1]]}}
=============================================================================
