----------------------------- MODULE Invocation -----------------------------
(***************************************************************************)
(* One command line of the client, as far as it can be judged without the  *)
(* network (cli/src/curl.rs, cli/src/main.rs), and the broker's own        *)
(* judgement of the same call (server/src/proxy.rs).  The client refuses   *)
(* locally what the broker would refuse after an operator has been asked.  *)
(*                                                                         *)
(* A URL is a record of its parts.  A raw path is its segments and how     *)
(* they are spelled: "plain", "encoded" (another spelling of the same      *)
(* path), "respelled" (by the next URL parser), "dots" (segments that      *)
(* parser resolves), "escaped" (an encoded slash) or "relative"; a query   *)
(* is odd when it holds characters a URL parser deletes or spells          *)
(* differently.  Header names are in lower case.  The numeric options and  *)
(* lengths of a request are represented by ttl, uses and the key's bytes.  *)
(***************************************************************************)
EXTENDS Naturals, FiniteSets, Sequences, SequencesExt

CONSTANTS
    Upper(_),      \* a method in upper case
    Methods,       \* method tokens of at most 64 bytes
    StripList,     \* STRIPPED_HEADERS and STRIP_LIST: the same names
    Hosts,         \* hosts that Origin::parse accepts
    MaxBody,       \* KEYCHUTE_MAX_BODY_BYTES
    MaxTtl, MaxUses, MaxKey,
    Null

ASSUME UpperAssumption ==
    /\ Upper("GET") = "GET" /\ Upper("POST") = "POST"
    /\ \A m \in Methods : Upper(Upper(m)) = Upper(m)

ASSUME StripListAssumption == "connection" \in StripList

-----------------------------------------------------------------------------
(* The target.                                                             *)

\* keychute_types::paths::canonicalize, the same code on both sides.
Canonical(p) == IF p.spelled \in {"plain", "encoded", "respelled"} THEN p.segs ELSE Null

\* path_covered and prefix_matches, at segment boundaries.
Covered(prefix, path) == IsPrefix(prefix, path)

\* Fault: a URL that the next parser spells differently is accepted.
ParseTargetOdd(u) ==
    IF u.scheme = "https" /\ ~u.userinfo /\ ~u.fragment /\ u.host \in Hosts
    THEN [origin |-> u.host, path |-> u.path, query |-> u.query] ELSE Null

ParseTarget(u) ==
    IF /\ u.scheme = "https" /\ ~u.userinfo /\ ~u.fragment /\ u.host \in Hosts
       /\ u.path.spelled # "respelled" /\ (u.query # Null => ~u.query.odd)
    THEN [origin |-> u.host, path |-> u.path, query |-> u.query] ELSE Null

\* What remains of a raw path and query when reqwest parses the URL again.
Wire(p) == IF p.spelled = "dots" THEN [spelled |-> "plain", segs |-> <<>>] ELSE p
WireQuery(q) == IF q # Null /\ q.odd THEN [q EXCEPT !.odd = FALSE] ELSE q

NormalizeMethod(m) ==
    IF m \in Methods /\ Upper(m) \notin {"CONNECT", "TRACE"} THEN Upper(m) ELSE Null

BodyIsSupplied(a) == a.body # Null

\* -X, or what the presence of a body implies.
Method(a) ==
    IF a.method # Null THEN NormalizeMethod(a.method)
    ELSE IF BodyIsSupplied(a) THEN "POST" ELSE "GET"

-----------------------------------------------------------------------------
(* Headers: "value", "empty" (Name;), "remove" (Name:) or "bad".           *)

\* The headers at the positions in I, in their order: a filter of the list that
\* is not defined by recursion, so that it can be reasoned about.
Filtered(headers, I) ==
    [k \in 1..Cardinality(I) |->
        headers[CHOOSE i \in I : Cardinality({j \in I : j <= i}) = k]]

Unremovable(name, hasBody) == name = "host" \/ (name = "content-length" /\ hasBody)

HeadersValid(a) ==
    \A i \in DOMAIN a.headers :
        LET h == a.headers[i] IN
        /\ h.form # "bad"
        /\ h.form = "remove" => ~Unremovable(h.name, BodyIsSupplied(a))

\* The positions of the headers that have a value.
ParsedHeaders(a) == {i \in DOMAIN a.headers : a.headers[i].form \in {"value", "empty"}}

\* The names that the Connection headers among these nominate.
Nominated(headers, I) ==
    UNION {headers[i].nominates : i \in {j \in I : headers[j].name = "connection"}}

IsStripped(name) == name \in StripList

\* The headers that are sent, and so are part of the call that is approved.
SentHeaders(a) ==
    Filtered(a.headers, {i \in ParsedHeaders(a) :
                            /\ ~IsStripped(a.headers[i].name)
                            /\ a.headers[i].name \notin Nominated(a.headers, ParsedHeaders(a))})

SuppressUserAgent(a) ==
    \/ \E i \in DOMAIN a.headers : a.headers[i].name = "user-agent" /\ a.headers[i].form = "remove"
    \/ "user-agent" \in Nominated(a.headers, ParsedHeaders(a))

-----------------------------------------------------------------------------
(* The grant that is asked for.                                            *)

\* A prefix the broker would refuse, or a set that leaves out the call.
PrefixesServe(prefixes, path) ==
    /\ \A p \in prefixes : Canonical(p) # Null
    /\ Canonical(path) # Null =>
         \E p \in prefixes : Covered(Canonical(p), Canonical(path))

ConstraintsFor(t, m, a) ==
    [origin   |-> t.origin,
     methods  |-> {m} \cup {Upper(x) : x \in a.allow},
     prefixes |-> IF a.prefixes = {} THEN {t.path} ELSE a.prefixes,
     uses     |-> IF a.uses = 0 THEN Null ELSE a.uses]

\* Fault: the path is left for the broker to refuse.
ValidGrantOptionsLax(a, t, m) ==
    a.grant # Null \/ a.prefixes = {} \/ PrefixesServe(a.prefixes, t.path)

\* validate_grant_options; the options of a request are not judged when a
\* grant is reused.
ValidGrantOptions(a, t, m) ==
    /\ Canonical(t.path) # Null
    /\ \/ a.grant # Null
       \/ /\ a.key # Null => a.key.bytes \in 1..MaxKey
          /\ a.ttl \in 1..MaxTtl
          /\ a.uses <= MaxUses
          /\ \A x \in a.allow : NormalizeMethod(x) # Null
          /\ a.prefixes # {} => PrefixesServe(a.prefixes, t.path)

\* --secret or --grant-id.
SelectorGiven(a) == a.secret # Null \/ a.grant # Null

\* --output names the file that the bearer token is read from.
OverTokenFile(a) == ~a.override /\ a.output = "token"

\* Every usage question of run_curl that needs neither network nor body.
CurlUsage(a) ==
    LET t == ParseTarget(a.url) IN
    /\ t # Null
    /\ SelectorGiven(a)
    /\ ~OverTokenFile(a)
    /\ Method(a) # Null
    /\ HeadersValid(a)
    /\ ValidGrantOptions(a, t, Method(a))

\* run_request: only a releasing mechanism has anything to print.
RequestUsage(a) == a.mechanism = "cli-read" /\ (a.key # Null => a.key.bytes \in 1..MaxKey)

\* run_store: the tier is known, the value not empty and not too long.
StoreUsage(a) == a.tierKnown /\ a.body # Null /\ a.body.size \in 1..MaxBody

\* open_body_sources, and read_body_with on what they hold.
SourcesOpen(a) == BodyIsSupplied(a) => a.body.from # "missing"
BodyFits(a) == BodyIsSupplied(a) => a.body.size <= MaxBody

-----------------------------------------------------------------------------
(* The call.                                                               *)

CallOf(a) ==
    LET t == ParseTarget(a.url) IN
    [method |-> Method(a), origin |-> t.origin, path |-> t.path, query |-> t.query,
     headers |-> SentHeaders(a), body |-> a.body, noAgent |-> SuppressUserAgent(a)]

\* Fault: the body is not bound.
BoundCallNoBody(a) == [CallOf(a) EXCEPT !.body = Null]

\* call_bound_idempotency_key: what "the same call" means.
BoundCall(a) == CallOf(a)

\* Fault: the origin of a reused grant is not compared with the URL's.
GrantCoversAnyOrigin(c, a) ==
    LET t == ParseTarget(a.url) IN
    /\ c.methods # {} => Method(a) \in c.methods
    /\ c.prefixes # {} => \E p \in c.prefixes : Covered(Canonical(p), Canonical(t.path))

\* check_grant_covers: the call stays inside a grant that is reused.
GrantCovers(c, a) ==
    LET t == ParseTarget(a.url) IN
    /\ c.origin = t.origin
    /\ c.methods # {} => Method(a) \in c.methods
    /\ c.prefixes # {} => \E p \in c.prefixes : Covered(Canonical(p), Canonical(t.path))

-----------------------------------------------------------------------------
(* The broker.                                                             *)

\* create refuses constraints with a prefix that has no canonical form.
Storable(c) == \A p \in c.prefixes : Canonical(p) # Null

\* handle_inner: the method and the path against the grant, and the injection
\* template, all before a use is counted.  "ok" or the failure's code.
Judged(c, call, inject) ==
    LET m    == Upper(call.method)
        path == Canonical(Wire(call.path))
    IN  IF m = "TRACE" \/ (c.methods # {} /\ m \notin c.methods) THEN "policy-denied"
        ELSE IF path = Null THEN "invalid-path"
        ELSE IF c.prefixes # {} /\ ~\E p \in c.prefixes : Covered(Canonical(p), path)
             THEN "policy-denied"
        ELSE IF inject.template = "unusable" THEN "bad-credential-encoding"
        ELSE IF inject.kind = "aws-sigv4" /\ call.query # Null THEN "invalid-request" ELSE "ok"

\* injection_header and sigv4_headers, once the use is counted.
Injectable(call, inject) ==
    IF inject.secret = "unsafe" THEN "bad-credential-encoding"
    ELSE IF inject.kind = "aws-sigv4" /\ \E i \in DOMAIN call.headers :
               call.headers[i].name = "x-amz-meta" /\ call.headers[i].value = "not-ascii"
         THEN "invalid-request" ELSE "ok"

\* The headers that the injection sets; the caller's are dropped.
Owned(inject) ==
    IF inject.kind = "aws-sigv4" THEN {"authorization", "x-amz-date", "x-amz-copy-source"}
    ELSE {inject.header}

\* build_outbound_headers.
OutboundHeaders(headers, inject) ==
    Filtered(headers, {i \in DOMAIN headers : /\ ~IsStripped(headers[i].name)
                                              /\ headers[i].name \notin Nominated(headers, DOMAIN headers)
                                              /\ headers[i].name \notin Owned(inject)})

\* What leaves for upstream: the origin is the grant's, the path canonical.
Outbound(c, call, inject) ==
    [method |-> Upper(call.method), origin |-> c.origin, segs |-> Canonical(Wire(call.path)),
     query |-> WireQuery(call.query), headers |-> OutboundHeaders(call.headers, inject),
     body |-> call.body, noAgent |-> call.noAgent]

\* The same call as the request's page shows it, and as it was bound.
Shown(call, inject) ==
    [method |-> call.method, origin |-> call.origin, segs |-> Canonical(call.path),
     query |-> call.query,
     headers |-> Filtered(call.headers, {i \in DOMAIN call.headers :
                                            call.headers[i].name \notin Owned(inject)}),
     body |-> call.body, noAgent |-> call.noAgent]

-----------------------------------------------------------------------------
(* Errors and exit codes.                                                  *)

\* ApiFailure::status_code_message.
Status(code) ==
    CASE code \in {"unauthenticated"}                                      -> 401
      [] code \in {"invalid-request", "invalid-path", "wrong-mechanism"}   -> 400
      [] code \in {"policy-denied", "revalidation-failed"}                 -> 403
      [] code = "not-found"                                                -> 404
      [] code \in {"idempotency-key-reuse", "secret-exists"}               -> 409
      [] code \in {"too-many-pending", "too-many-waits", "too-many-streams",
                   "too-many-deposits"}                                    -> 429
      [] code \in {"grant-exhausted", "grant-expired", "payload-lost"}     -> 410
      [] code = "body-too-large"                                           -> 413
      [] code \in {"bad-credential-encoding", "upstream-unreachable"}      -> 502
      [] code = "upstream-timeout"                                         -> 504
      [] OTHER                                                             -> 500

\* 0 done, 1 other, 2 usage or configuration, 3 denied, 4 timeout, 5 lost.
ClassifyGone(code) ==
    CASE code = "payload-lost" -> 5 [] code = "grant-expired" -> 4 [] OTHER -> 1

ExitFor(code) ==
    CASE Status(code) = 410 -> ClassifyGone(code)
      [] Status(code) = 401 -> 2
      [] Status(code) = 403 -> 3
      [] OTHER              -> 1

\* classify_proxy_error: the invocation is at fault where it can be.
ProxyExit(status, code) ==
    CASE status = 410                   -> ClassifyGone(code)
      [] status \in {400, 401, 405, 413} -> 2
      [] status = 403                   -> 3
      [] OTHER                          -> 1

ProxyExitFor(code) == ProxyExit(Status(code), code)
=============================================================================
