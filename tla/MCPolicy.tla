------------------------------ MODULE MCPolicy ------------------------------
EXTENDS Policy, TLC

MCUpper == [m \in Method |-> IF m = "get" THEN "GET" ELSE m]
MCLower == [s \in Segment |-> IF s = "A" THEN "a" ELSE s]

AnyPort == [host |-> "h", port |-> Null]
Https == [host |-> "h", port |-> 443]

\* A row for any client and secret that lets everything on one origin pass.
Wild == [client |-> Null, secret |-> Null, tag |-> Null, mech |-> "brokered",
         outcome |-> "auto-approve", priority |-> 0, origins |-> {AnyPort},
         methods |-> {}, prefixes |-> {<<"a">>}, maxTtl |-> Null, maxUses |-> Null,
         notAfter |-> Null, readable |-> TRUE, managed |-> FALSE]

Rows ==
    << Wild,
       [Wild EXCEPT !.notAfter = 1, !.managed = TRUE],
       [Wild EXCEPT !.outcome = "notify-only", !.client = ClientName, !.secret = "s",
                    !.prefixes = {<<"a", "b">>}, !.maxTtl = 1, !.maxUses = 1],
       [Wild EXCEPT !.outcome = "require-approval", !.tag = "old", !.notAfter = 2, !.origins = {}],
       [Wild EXCEPT !.outcome = "deny", !.methods = {"get"}, !.prefixes = {<<"A", "b">>}],
       [Wild EXCEPT !.outcome = "deny", !.tag = "old", !.origins = {Https}, !.prefixes = {}],
       \* left by an earlier release, which did not ask for an origin
       [Wild EXCEPT !.origins = {}, !.priority = 1, !.prefixes = {}],
       \* written past the form: its prefixes do not canonicalize
       [Wild EXCEPT !.outcome = "deny", !.secret = "s", !.prefixes = {}, !.readable = FALSE] >>

MCWritten == {Rows[5]}

\* Tables of up to two rows.  Their order matters only to rows that tie, which
\* the first two do.
Pairs == {<<i, j>> \in (0 .. Len(Rows)) \X (0 .. Len(Rows)) :
              i > j \/ <<i, j>> \in {<<0, 0>>, <<1, 2>>}}

Table(i, j) == [k \in Id |-> LET n == IF k = 1 THEN i ELSE j IN IF n = 0 THEN Null ELSE Rows[n]]

MCTables == {Table(pair[1], pair[2]) : pair \in Pairs}

Brokered(o, M, P, ttl, uses) ==
    [name |-> "s", mech |-> "brokered",
     cons |-> [origins |-> {o}, methods |-> M, prefixes |-> P, ttl |-> ttl, uses |-> uses]]

MCAsks ==
    { Brokered(Https, {"GET"}, {<<"a">>}, 2, Null),
      Brokered(AnyPort, {"get", "PUT"}, {<<"a", "b">>}, 1, 1),
      Brokered(Https, {"PUT", "TRACE"}, {}, 2, 1),
      [Brokered(Https, {}, {}, 1, Null) EXCEPT !.mech = "cli-read", !.cons.origins = {}] }

MCClients == {[enabled |-> TRUE, maxTier |-> 2, mechanisms |-> {"brokered", "cli-read"}]}

MCCalls == {<<>>, <<"a">>, <<"a", "b">>, <<"A", "b">>, <<"b", "a">>}
=============================================================================
