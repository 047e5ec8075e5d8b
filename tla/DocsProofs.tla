----------------------------- MODULE DocsProofs -----------------------------
(***************************************************************************)
(* Proofs about DocsSite: who is shown the documentation, and what becomes *)
(* of the statement timeout.  Neither depends on what a page shows.        *)
(***************************************************************************)
EXTENDS DocsSite, TLAPS

-----------------------------------------------------------------------------
(* Requests.                                                                *)

\* A request with these fields.
RequestOf(pc, route, token, tables, page, reads, writes) ==
    [pc |-> pc, route |-> route, token |-> token, tables |-> tables,
     page |-> page, reads |-> reads, writes |-> writes]

IsRequest(q) ==
    q = RequestOf(q.pc, q.route, q.token, q.tables, q.page, q.reads, q.writes)

\* The record with the next table on its page.
Written(q, pc, page, reads, writes) ==
    [q EXCEPT !.pc = pc, !.page = page, !.reads = reads, !.writes = writes]

\* The record after each of the changes that the actions make.
LEMMA RequestChanges ==
    ASSUME NEW q, IsRequest(q)
    PROVE  /\ \A v : [q EXCEPT !.pc = v] =
                 RequestOf(v, q.route, q.token, q.tables, q.page, q.reads, q.writes)
           /\ \A v, w : [q EXCEPT !.pc = v, !.tables = w] =
                 RequestOf(v, q.route, q.token, w, q.page, q.reads, q.writes)
           /\ \A v, w, x : [q EXCEPT !.pc = v, !.reads = w, !.writes = x] =
                 RequestOf(v, q.route, q.token, q.tables, q.page, w, x)
           /\ \A v, w, x, y : Written(q, v, y, w, x) =
                 RequestOf(v, q.route, q.token, q.tables, y, w, x)
  <1> DEFINE Staged(v) == [q EXCEPT !.pc = v] =
                 RequestOf(v, q.route, q.token, q.tables, q.page, q.reads, q.writes)
             Begun(v, w) == [q EXCEPT !.pc = v, !.tables = w] =
                 RequestOf(v, q.route, q.token, w, q.page, q.reads, q.writes)
             Sorting(v, w, x) == [q EXCEPT !.pc = v, !.reads = w, !.writes = x] =
                 RequestOf(v, q.route, q.token, q.tables, q.page, w, x)
             Sorted(v, w, x, y) == Written(q, v, y, w, x) =
                 RequestOf(v, q.route, q.token, q.tables, y, w, x)
  <1> SUFFICES /\ \A v : Staged(v)
               /\ \A v, w : Begun(v, w)
               /\ \A v, w, x : Sorting(v, w, x)
               /\ \A v, w, x, y : Sorted(v, w, x, y)
    BY Zenon
  <1> HIDE DEF Staged, Begun, Sorting, Sorted
  <1> SUFFICES ASSUME NEW v, NEW w, NEW x, NEW y
               PROVE  Staged(v) /\ Begun(v, w) /\ Sorting(v, w, x) /\ Sorted(v, w, x, y)
    BY Zenon
  <1>1. PICK pc, route, token, tables, page, reads, writes :
           /\ q = RequestOf(pc, route, token, tables, page, reads, writes)
           /\ q.route = route /\ q.token = token /\ q.tables = tables
           /\ q.page = page /\ q.reads = reads /\ q.writes = writes
    BY Zenon DEF IsRequest
  <1> DEFINE u == RequestOf(v, route, token, tables, page, reads, writes)
  <1>2. [q EXCEPT !.pc = v] = u
    <2>1. q = RequestOf(pc, route, token, tables, page, reads, writes)
      BY <1>1
    <2> QED BY <2>1 DEF RequestOf
  <1>3. [q EXCEPT !.pc = v, !.tables = w] =
           RequestOf(v, route, token, w, page, reads, writes)
    <2>1. [u EXCEPT !.tables = w] = RequestOf(v, route, token, w, page, reads, writes)
      BY DEF RequestOf
    <2>2. [q EXCEPT !.pc = v, !.tables = w] = [[q EXCEPT !.pc = v] EXCEPT !.tables = w]
      BY Zenon
    <2> QED BY <1>2, <2>1, <2>2, Zenon
  <1>4. ASSUME NEW k
        PROVE  [RequestOf(v, route, token, tables, k, reads, writes)
                  EXCEPT !.reads = w, !.writes = x] =
                  RequestOf(v, route, token, tables, k, w, x)
    <2> DEFINE o == RequestOf(v, route, token, tables, k, reads, writes)
    <2>1. [o EXCEPT !.reads = w] = RequestOf(v, route, token, tables, k, w, writes)
      BY DEF RequestOf
    <2>2. [RequestOf(v, route, token, tables, k, w, writes) EXCEPT !.writes = x] =
             RequestOf(v, route, token, tables, k, w, x)
      BY DEF RequestOf
    <2>3. [o EXCEPT !.reads = w, !.writes = x] = [[o EXCEPT !.reads = w] EXCEPT !.writes = x]
      BY Zenon
    <2> QED BY <2>1, <2>2, <2>3, Zenon
  <1>5. [q EXCEPT !.pc = v, !.reads = w, !.writes = x] =
           RequestOf(v, route, token, tables, page, w, x)
    <2>1. [u EXCEPT !.reads = w, !.writes = x] =
             RequestOf(v, route, token, tables, page, w, x)
      BY <1>4, Zenon
    <2>2. [q EXCEPT !.pc = v, !.reads = w, !.writes = x] =
             [[q EXCEPT !.pc = v] EXCEPT !.reads = w, !.writes = x]
      BY Zenon
    <2> QED BY <1>2, <2>1, <2>2, Zenon
  <1>6. Written(q, v, y, w, x) = RequestOf(v, route, token, tables, y, w, x)
    <2>1. [u EXCEPT !.page = y] = RequestOf(v, route, token, tables, y, reads, writes)
      BY DEF RequestOf
    <2>2. [[u EXCEPT !.page = y] EXCEPT !.reads = w, !.writes = x] =
             RequestOf(v, route, token, tables, y, w, x)
      BY <1>4, <2>1, Zenon
    <2>3. Written(q, v, y, w, x) =
             [[[q EXCEPT !.pc = v] EXCEPT !.page = y] EXCEPT !.reads = w, !.writes = x]
      BY Zenon DEF Written
    <2> QED BY <1>2, <2>2, <2>3, Zenon
  <1> QED BY <1>1, <1>2, <1>3, <1>5, <1>6, Zenon DEF Staged, Begun, Sorting, Sorted

\* The configuration belongs to the process, and requests reach a process that
\* has started.
ServedInv ==
    /\ <<env, doc>> \in Processes
    /\ cfg = Unset \/ cfg = loadConfig(env)
    /\ req = [r \in Requests |-> req[r]]
    /\ \A r \in Requests : req[r] # Free =>
          cfg # Unset /\ cfg # Failed /\ IsRequest(req[r])

\* The inductive invariant.
SiteInv == ServedInv /\ PagesGated

\* Only a request that passed registerDocsRoutes is served.
GateInv(q) ==
    q.pc # "route" =>
        (q.pc \notin {"401", "404"} <=>
            \/ env.ENVIRONMENT \notin {Unset, "production"}
            \/ /\ env.DOCS_ENABLED \in {"true", "TRUE", "True"}
               /\ env.DOCS_AUTH_TOKEN \in {Unset, q.token})

\* A step of one request keeps the invariant when the request keeps its part.
LEMMA RequestStep ==
    ASSUME SiteInv, NEW r \in Requests, NEW u, req' = [req EXCEPT ![r] = u],
           UNCHANGED <<env, doc, cfg>>, cfg # Unset, cfg # Failed,
           IsRequest(u), GateInv(u)
    PROVE  SiteInv'
  <1>1. /\ req' = [x \in Requests |-> req'[x]]
        /\ \A x \in Requests : req'[x] = IF x = r THEN u ELSE req[x]
    <2>1. req = [x \in Requests |-> req[x]]
      BY DEF SiteInv, ServedInv
    <2>2. DOMAIN req = Requests
      BY <2>1
    <2> QED BY <2>2, Zenon
  <1>2. ASSUME NEW x \in Requests, req'[x] # Free
        PROVE  IsRequest(req[x])' /\ GateInv(req[x])'
    <2>1. IsRequest(req'[x]) /\ GateInv(req'[x])
      BY <1>1, <1>2 DEF SiteInv, ServedInv, PagesGated, GateInv
    <2> QED BY <2>1, Zenon DEF IsRequest, GateInv
  <1>3. ServedInv'
    BY <1>1, <1>2 DEF SiteInv, ServedInv
  <1>4. PagesGated'
    BY <1>2 DEF PagesGated, GateInv
  <1> QED BY <1>3, <1>4 DEF SiteInv

\* A request that has passed the routes and goes on is still served rightly:
\* its token is the one the routes saw.
LEMMA ServedOn ==
    ASSUME SiteInv, NEW r \in Requests, req[r] # Free,
           req[r].pc \notin {"route", "401", "404"},
           NEW pc \in {"table", "sort", "200", "500"},
           NEW tables, NEW page, NEW reads, NEW writes,
           req' = [req EXCEPT ![r] = RequestOf(pc, req[r].route, req[r].token,
                                               tables, page, reads, writes)],
           UNCHANGED <<env, doc, cfg>>
    PROVE  SiteInv'
  <1> DEFINE u == RequestOf(pc, req[r].route, req[r].token, tables, page, reads, writes)
  <1>1. /\ u.pc = pc /\ u.route = req[r].route /\ u.token = req[r].token
        /\ u.tables = tables /\ u.page = page /\ u.reads = reads /\ u.writes = writes
    BY DEF RequestOf
  <1>2. req' = [req EXCEPT ![r] = u]
    OBVIOUS
  <1>3. IsRequest(u)
    BY <1>1, Zenon DEF IsRequest
  <1> HIDE DEF u
  <1>4. cfg # Unset /\ cfg # Failed /\ GateInv(req[r])
    BY DEF SiteInv, ServedInv, PagesGated, GateInv
  <1>5. GateInv(u)
    BY <1>1, <1>4 DEF GateInv
  <1> QED BY <1>2, <1>3, <1>4, <1>5, RequestStep, Zenon

\* What the configuration says of the documentation.
LEMMA ConfigIs ==
    ASSUME SiteInv, cfg # Unset, cfg # Failed
    PROVE  /\ Active(cfg) <=> \/ env.ENVIRONMENT \notin {Unset, "production"}
                              \/ env.DOCS_ENABLED \in {"true", "TRUE", "True"}
           /\ NeedsToken(cfg) <=> /\ env.ENVIRONMENT \in {Unset, "production"}
                                  /\ env.DOCS_AUTH_TOKEN # Unset
           /\ cfg.DocsAuthToken = env.DOCS_AUTH_TOKEN
           /\ cfg.Environment # Unset
           /\ cfg.DatabaseURL = DSNFromEnv(env) /\ DSNFromEnv(env) # NoDSN
           /\ cfg.MigrationDatabaseURL = MigrationDSNFromEnv(env)
  <1>1. cfg = loadConfig(env)
    BY DEF SiteInv, ServedInv
  <1> DEFINE timeout == getEnvInt(env, "MEMBERSHIP_CHECK_TIMEOUT_MS", 300)
             url == DSNFromEnv(env)
             migration == MigrationDSNFromEnv(env)
             environment == getEnv(env, "ENVIRONMENT", "production")
             enabled == getEnv(env, "DOCS_ENABLED", "false") \in {"true", "TRUE", "True"}
             token == env.DOCS_AUTH_TOKEN
  <1>2. /\ url # NoDSN
        /\ cfg = [failed |-> FALSE, MembershipCheckTimeout |-> timeout,
                  DatabaseURL |-> url, MigrationDatabaseURL |-> migration,
                  Environment |-> environment, DocsEnabled |-> enabled,
                  DocsAuthToken |-> token]
    BY <1>1, Zenon DEF loadConfig
  <1> HIDE DEF timeout, url, migration, environment, enabled, token
  <1>3. /\ cfg.Environment = environment /\ (cfg.DocsEnabled <=> enabled)
        /\ cfg.DocsAuthToken = token /\ cfg.DatabaseURL = url
        /\ cfg.MigrationDatabaseURL = migration
    BY <1>2
  <1>4. environment = IF env.ENVIRONMENT = Unset THEN "production" ELSE env.ENVIRONMENT
    BY DEF environment, getEnv
  <1>5. enabled <=> env.DOCS_ENABLED \in {"true", "TRUE", "True"}
    BY DocsAssumption DEF enabled, getEnv
  <1>6. environment # Unset
    BY <1>4, DocsAssumption
  <1>7. Active(cfg) <=> \/ env.ENVIRONMENT \notin {Unset, "production"}
                        \/ env.DOCS_ENABLED \in {"true", "TRUE", "True"}
    BY <1>3, <1>4, <1>5 DEF Active
  <1>8. NeedsToken(cfg) <=> /\ env.ENVIRONMENT \in {Unset, "production"}
                            /\ env.DOCS_AUTH_TOKEN # Unset
    BY <1>3, <1>4 DEF NeedsToken, token
  <1> QED BY <1>2, <1>3, <1>6, <1>7, <1>8, Zenon DEF token, url, migration

\* The invariant holds when the process starts.
LEMMA SiteInit == Init => SiteInv
  <1> SUFFICES ASSUME Init PROVE SiteInv
    OBVIOUS
  <1>1. \A r \in Requests : req[r] = Free
    BY DEF Init
  <1>2. <<env, doc>> \in Processes
    <2>1. PICK p \in Processes : env = p[1] /\ doc = p[2]
      BY DEF Init
    <2>2. p = <<p[1], p[2]>>
      BY DocsAssumption
    <2> QED BY <2>1, <2>2
  <1>3. cfg = Unset /\ req = [r \in Requests |-> req[r]]
    BY <1>1 DEF Init
  <1> QED BY <1>1, <1>2, <1>3, Zenon DEF SiteInv, ServedInv, PagesGated

\* loadConfig runs before any request.
LEMMA StartKeeps == SiteInv /\ Start => SiteInv'
  <1> SUFFICES ASSUME SiteInv, Start PROVE SiteInv'
    OBVIOUS
  <1>1. \A r \in Requests : req[r] = Free
    BY DEF SiteInv, ServedInv, Start
  <1>2. /\ cfg' = loadConfig(env) /\ UNCHANGED <<env, doc, req>>
        /\ <<env, doc>> \in Processes /\ req = [r \in Requests |-> req[r]]
    BY DEF SiteInv, ServedInv, Start
  <1>3. ServedInv'
    BY <1>1, <1>2 DEF ServedInv
  <1>4. PagesGated'
    BY <1>1, <1>2 DEF PagesGated
  <1> QED BY <1>3, <1>4 DEF SiteInv

\* A new request has been nowhere yet.
LEMMA GetKeeps ==
    ASSUME SiteInv, NEW r \in Requests, NEW route, NEW token, Get(r, route, token)
    PROVE  SiteInv'
  <1> DEFINE u == NewRequest(route, token)
  <1>1. /\ u.pc = "route" /\ u.page = <<>> /\ u.reads = {} /\ u.writes = {}
        /\ u.route = route /\ u.token = token /\ u.tables = <<>>
    BY DEF NewRequest
  <1>2. u = RequestOf("route", route, token, <<>>, <<>>, {}, {})
    BY DEF NewRequest, RequestOf
  <1>3. IsRequest(u)
    BY <1>1, <1>2, Zenon DEF IsRequest
  <1>4. /\ req' = [req EXCEPT ![r] = u] /\ UNCHANGED <<env, doc, cfg>>
        /\ cfg # Unset /\ cfg # Failed
    BY DEF Get
  <1> HIDE DEF u
  <1>5. GateInv(u)
    BY <1>1 DEF GateInv
  <1> QED BY <1>3, <1>4, <1>5, RequestStep, Zenon

\* The routes let through whom they should.
LEMMA RouteKeeps ==
    ASSUME SiteInv, NEW r \in Requests, Route(r)
    PROVE  SiteInv'
  <1> DEFINE q == req[r]
             pc == IF ~Active(cfg) THEN "404"
                   ELSE IF NeedsToken(cfg) /\ req[r].token # cfg.DocsAuthToken
                   THEN "401"
                   ELSE IF req[r].route = "/asyncapi" THEN "load" ELSE "200"
             u == [q EXCEPT !.pc = pc]
  <1>1. /\ q # Free /\ req' = [req EXCEPT ![r] = u] /\ UNCHANGED <<env, doc, cfg>>
    BY Zenon DEF Route, Goto
  <1>2. cfg # Unset /\ cfg # Failed /\ IsRequest(q)
    BY <1>1 DEF SiteInv, ServedInv
  <1>3. pc \notin {"401", "404"} <=>
           Active(cfg) /\ ~(NeedsToken(cfg) /\ q.token # cfg.DocsAuthToken)
    OBVIOUS
  <1> HIDE DEF pc, q
  <1>4. u = RequestOf(pc, q.route, q.token, q.tables, q.page, q.reads, q.writes)
    BY <1>2, RequestChanges, Zenon
  <1> HIDE DEF u
  <1>5. /\ u.pc = pc /\ u.route = q.route /\ u.token = q.token /\ u.tables = q.tables
        /\ u.page = q.page /\ u.reads = q.reads /\ u.writes = q.writes
    BY <1>4 DEF RequestOf
  <1>6. IsRequest(u)
    BY <1>4, <1>5, Zenon DEF IsRequest
  <1>7. GateInv(u)
    BY <1>2, <1>3, <1>5, ConfigIs, Zenon DEF GateInv
  <1> QED BY <1>1, <1>2, <1>6, <1>7, RequestStep, Zenon DEF q

\* Parsing changes no request.
LEMMA ParseKeeps ==
    ASSUME SiteInv, UNCHANGED <<env, doc, cfg, req>>
    PROVE  SiteInv'
  BY DEF SiteInv, ServedInv, PagesGated, IsRequest

\* The steps behind the routes keep the invariant.
LEMMA ServeKeeps ==
    ASSUME SiteInv, NEW r \in Requests,
           Loaded(r) \/ BeginTable(r) \/ EndTable(r) \/ Respond(r)
    PROVE  SiteInv'
  <1> DEFINE q == req[r]
  <1>1. /\ q # Free /\ q.pc \in {"load", "table", "sort"} /\ UNCHANGED <<env, doc, cfg>>
    BY DEF Loaded, BeginTable, EndTable, Respond
  <1>2. IsRequest(q)
    BY <1>1 DEF SiteInv, ServedInv
  <1>3. q.pc \notin {"route", "401", "404"}
    BY <1>1
  <1> DEFINE Becomes(pc, tables, page, reads, writes) ==
                req' = [req EXCEPT ![r] = RequestOf(pc, q.route, q.token, tables,
                                                    page, reads, writes)]
  <1>4. ASSUME NEW pc \in {"table", "sort", "200", "500"},
               NEW tables, NEW page, NEW reads, NEW writes,
               Becomes(pc, tables, page, reads, writes)
        PROVE  SiteInv'
    BY <1>1, <1>3, <1>4, ServedOn, Zenon
  <1>5. CASE Loaded(r)
    <2>1. \/ req' = [req EXCEPT ![r] = [q EXCEPT !.pc = "500"]]
          \/ req' = [req EXCEPT ![r] =
                       [q EXCEPT !.pc = "table", !.tables = renderPage(spec)]]
      BY <1>5, Zenon DEF Loaded, Goto
    <2> HIDE DEF q
    <2>2. /\ [q EXCEPT !.pc = "500"] =
                RequestOf("500", q.route, q.token, q.tables, q.page, q.reads, q.writes)
          /\ [q EXCEPT !.pc = "table", !.tables = renderPage(spec)] =
                RequestOf("table", q.route, q.token, renderPage(spec), q.page,
                          q.reads, q.writes)
      BY <1>2, RequestChanges, Zenon
    <2>3. \/ Becomes("500", q.tables, q.page, q.reads, q.writes)
          \/ Becomes("table", renderPage(spec), q.page, q.reads, q.writes)
      BY <2>1, <2>2, Zenon
    <2> HIDE DEF Becomes
    <2> QED BY <1>4, <2>3, Zenon
  <1>6. CASE BeginTable(r)
    <2>1. PICK w, x : req' = [req EXCEPT ![r] =
                                [q EXCEPT !.pc = "sort", !.reads = w, !.writes = x]]
      BY <1>6, Zenon DEF BeginTable
    <2> HIDE DEF q
    <2>2. [q EXCEPT !.pc = "sort", !.reads = w, !.writes = x] =
             RequestOf("sort", q.route, q.token, q.tables, q.page, w, x)
      <3>1. \A v, a, b : [q EXCEPT !.pc = v, !.reads = a, !.writes = b] =
               RequestOf(v, q.route, q.token, q.tables, q.page, a, b)
        BY <1>2, RequestChanges, Zenon
      <3> QED BY <3>1, Zenon
    <2>3. Becomes("sort", q.tables, q.page, w, x)
      BY <2>1, <2>2, Zenon
    <2> HIDE DEF Becomes
    <2> QED BY <1>4, <2>3, Zenon
  <1>7. CASE EndTable(r)
    <2>1. PICK y : req' = [req EXCEPT ![r] = Written(q, "table", y, {}, {})]
      BY <1>7, Zenon DEF EndTable, Written
    <2> HIDE DEF q
    <2>2. Written(q, "table", y, {}, {}) =
             RequestOf("table", q.route, q.token, q.tables, y, {}, {})
      <3>1. \A v, a, b, k : Written(q, v, k, a, b) =
               RequestOf(v, q.route, q.token, q.tables, k, a, b)
        BY <1>2, RequestChanges, Zenon
      <3> QED BY <3>1, Zenon
    <2>3. Becomes("table", q.tables, y, {}, {})
      BY <2>1, <2>2, Zenon
    <2> HIDE DEF Becomes
    <2> QED BY <1>4, <2>3, Zenon
  <1>8. CASE Respond(r)
    <2>1. req' = [req EXCEPT ![r] = [q EXCEPT !.pc = "200"]]
      BY <1>8, Zenon DEF Respond, Goto
    <2> HIDE DEF q
    <2>2. [q EXCEPT !.pc = "200"] =
             RequestOf("200", q.route, q.token, q.tables, q.page, q.reads, q.writes)
      BY <1>2, RequestChanges, Zenon
    <2>3. Becomes("200", q.tables, q.page, q.reads, q.writes)
      BY <2>1, <2>2, Zenon
    <2> HIDE DEF Becomes
    <2> QED BY <1>4, <2>3, Zenon
  <1> QED BY <1>5, <1>6, <1>7, <1>8, Zenon

\* Every step keeps the invariant.
LEMMA SiteNext == SiteInv /\ [Next]_vars => SiteInv'
  <1> SUFFICES ASSUME SiteInv, [Next]_vars PROVE SiteInv'
    OBVIOUS
  <1>1. CASE Start
    BY <1>1, StartKeeps
  <1>2. ASSUME NEW r \in Requests, NEW route \in Routes, NEW token \in Tokens \cup {Unset},
               Get(r, route, token)
        PROVE  SiteInv'
    BY <1>2, GetKeeps
  <1>3. ASSUME NEW r \in Requests, Serve(r) PROVE SiteInv'
    <2>1. CASE Route(r)
      BY <2>1, RouteKeeps
    <2>2. CASE BeginParse(r) \/ EndParse(r)
      BY <2>2, ParseKeeps DEF BeginParse, EndParse
    <2>3. CASE Loaded(r) \/ BeginTable(r) \/ EndTable(r) \/ Respond(r)
      BY <2>3, ServeKeeps
    <2> QED BY <1>3, <2>1, <2>2, <2>3 DEF Serve
  <1>4. CASE UNCHANGED vars
    BY <1>4, ParseKeeps DEF vars
  <1> QED BY <1>1, <1>2, <1>3, <1>4, Zenon DEF Next

\* The invariant holds in every state.
THEOREM SiteInvariant == Spec => []SiteInv
  BY SiteInit, SiteNext, PTL DEF Spec

\* The documentation is shown to whom the environment says, in every
\* environment and to any number of requests (registerDocsRoutes).
THEOREM PagesAreGated == Spec => []PagesGated
  <1>1. SiteInv => PagesGated
    BY DEF SiteInv
  <1> QED BY <1>1, SiteInvariant, PTL

-----------------------------------------------------------------------------
(* The statement timeout.                                                   *)

\* The places of a sequence.
LEMMA SeqLen ==
    ASSUME NEW S, NEW s \in Seq(S)
    PROVE  Len(s) \in Nat /\ s \in [1..Len(s) -> S] /\ DOMAIN s = 1..Len(s)
  OBVIOUS

\* The empty sequence.
LEMMA SeqEmpty ==
    ASSUME NEW S
    PROVE  /\ <<>> \in Seq(S) /\ Len(<<>>) = 0
           /\ \A s \in Seq(S) : s # <<>> => Len(s) \in Nat \ {0}
  OBVIOUS

\* One sequence after another.
LEMMA SeqConcat ==
    ASSUME NEW S, NEW s \in Seq(S), NEW u \in Seq(S)
    PROVE  /\ s \o u \in Seq(S) /\ Len(s \o u) = Len(s) + Len(u)
           /\ \A n \in 1..(Len(s) + Len(u)) :
                 (s \o u)[n] = IF n <= Len(s) THEN s[n] ELSE u[n - Len(s)]
  OBVIOUS

\* The timeout of an environment, in milliseconds.
Millis(e) == e.PG_STATEMENT_TIMEOUT \div 1000

\* A connection string with these parts.
Url(from, query, timeouts, inName) ==
    [from |-> from, query |-> query, timeouts |-> timeouts, inName |-> inName]

\* A connection string that gets other timeouts keeps the rest.
LEMMA UrlChanges ==
    ASSUME NEW from, NEW query, NEW timeouts, NEW inName, NEW t
    PROVE  [Url(from, query, timeouts, inName) EXCEPT !.timeouts = t] =
               Url(from, query, t, inName)
  BY DEF Url

\* What ApplyStatementTimeout makes of a connection string with a query part
\* that sets no timeout, and of one that does.
LEMMA ApplyIs ==
    ASSUME NEW e, e.PG_STATEMENT_TIMEOUT \in Nat \cup {Unset, BadValue}, TimeoutGiven(e),
           NEW from, NEW timeouts \in Seq(Nat), NEW inName \in Seq(Nat)
    PROVE  ApplyStatementTimeout(e, Url(from, TRUE, timeouts, inName)) =
              IF timeouts \o inName # <<>> THEN Url(from, TRUE, timeouts, inName)
              ELSE Url(from, TRUE, <<Millis(e)>>, inName)
  <1> DEFINE url == Url(from, TRUE, timeouts, inName)
  <1>1. Millis(e) \in Nat
    BY DEF TimeoutGiven, Millis
  <1>2. url.query = TRUE /\ url.timeouts = timeouts /\ url.inName = inName
    BY DEF Url
  <1>3. url # NoDSN
    <2>1. NoDSN.query = FALSE
      BY DEF NoDSN, DSN
    <2> QED BY <1>2, <2>1, Zenon
  <1>4. \A t : [url EXCEPT !.timeouts = t] = Url(from, TRUE, t, inName)
    <2>1. PICK yes : yes = TRUE
      BY Zenon
    <2>2. \A t : [Url(from, yes, timeouts, inName) EXCEPT !.timeouts = t] =
                Url(from, yes, t, inName)
      BY UrlChanges
    <2> QED BY <2>1, <2>2, Zenon
  <1> HIDE DEF url
  <1>5. CASE timeouts \o inName # <<>>
    <2>1. ApplyStatementTimeout(e, url) = url
      BY <1>2, <1>5 DEF ApplyStatementTimeout
    <2> QED BY <1>5, <2>1, Zenon DEF url
  <1>6. CASE timeouts \o inName = <<>>
    <2>1. timeouts = <<>>
      <3>1. Len(timeouts \o inName) = Len(timeouts) + Len(inName)
        BY SeqConcat
      <3>2. Len(timeouts) \in Nat /\ Len(inName) \in Nat
        BY SeqLen
      <3>3. Len(timeouts \o inName) = 0
        BY <1>6
      <3>4. Len(timeouts) = 0
        BY <3>1, <3>2, <3>3
      <3> QED BY <3>4, SeqEmpty
    <2>2. Append(timeouts, Millis(e)) = <<Millis(e)>>
      BY <1>1, <2>1
    <2>3. ApplyStatementTimeout(e, url) = WithOption(url, Millis(e))
      BY <1>2, <1>3, <1>6 DEF ApplyStatementTimeout, Millis
    <2>4. WithOption(url, Millis(e)) = [url EXCEPT !.timeouts = Append(url.timeouts, Millis(e))]
      BY <1>2 DEF WithOption
    <2>5. ApplyStatementTimeout(e, url) = [url EXCEPT !.timeouts = <<Millis(e)>>]
      BY <1>2, <2>2, <2>3, <2>4, Zenon
    <2> QED BY <1>4, <1>6, <2>5, Zenon DEF url
  <1> QED BY <1>5, <1>6, Zenon

\* The timeout is set exactly once, in every environment.
THEOREM TimeoutIsSetOnce == Spec => []TimeoutOnce
  <1>1. SiteInv => TimeoutOnce
    <2> DEFINE Once(dsn, given) ==
                  dsn.timeouts = IF given # Unset /\ given.timeouts \o given.inName # <<>>
                                 THEN given.timeouts ELSE <<Millis(env)>>
               made == Url(env.PG_HOST, TRUE, <<Millis(env)>>, <<>>)
    <2> SUFFICES ASSUME SiteInv, cfg # Unset, cfg # Failed, TimeoutGiven(env)
                 PROVE  /\ env.DATABASE_URL = Unset => Once(cfg.DatabaseURL, Unset)
                        /\ env.DATABASE_URL # Unset => cfg.DatabaseURL = env.DATABASE_URL
                        /\ cfg.DatabaseURL.query =>
                              Once(LedgerPoolConfig(env, cfg.DatabaseURL).DSN,
                                   env.DATABASE_URL)
                        /\ IF env.MIGRATION_DATABASE_URL = Unset
                           THEN cfg.MigrationDatabaseURL = cfg.DatabaseURL
                           ELSE env.MIGRATION_DATABASE_URL.query =>
                                  Once(cfg.MigrationDatabaseURL, env.MIGRATION_DATABASE_URL)
      BY Zenon DEF TimeoutOnce, Millis
    <2>1. /\ cfg.DatabaseURL = DSNFromEnv(env) /\ DSNFromEnv(env) # NoDSN
          /\ cfg.MigrationDatabaseURL = MigrationDSNFromEnv(env)
      BY ConfigIs
    <2>2. Environ(env)
      BY DocsAssumption DEF SiteInv, ServedInv
    <2>3. env.PG_STATEMENT_TIMEOUT \in Nat \cup {Unset, BadValue}
      BY <2>2 DEF Environ
    <2>4. Millis(env) \in Nat
      BY <2>3 DEF TimeoutGiven, Millis
    <2>5. ASSUME NEW url \in {env.DATABASE_URL, env.MIGRATION_DATABASE_URL}, url # Unset,
                 url.query
          PROVE  Once(ApplyStatementTimeout(env, url), url)
      <3>1. PICK from, timeouts, inName :
               url = Url(from, TRUE, timeouts, inName)
        <4>1. url.query = TRUE
          BY <2>2, <2>5 DEF Environ
        <4>2. url = Url(url.from, url.query, url.timeouts, url.inName)
          BY <2>2, <2>5 DEF Environ, Url
        <4> QED BY <4>1, <4>2, Zenon
      <3>2. timeouts \in Seq(Nat) /\ inName \in Seq(Nat)
        <4>1. url.timeouts \in Seq(Nat) /\ url.inName \in Seq(Nat)
          BY <2>2, <2>5 DEF Environ
        <4> QED BY <2>5, <3>1, <4>1 DEF Url
      <3>3. ApplyStatementTimeout(env, url) =
               IF timeouts \o inName # <<>> THEN url
               ELSE Url(from, TRUE, <<Millis(env)>>, inName)
        BY <2>3, <3>1, <3>2, ApplyIs, Zenon
      <3>4. ApplyStatementTimeout(env, url).timeouts =
               IF timeouts \o inName # <<>> THEN timeouts ELSE <<Millis(env)>>
        BY <3>1, <3>3 DEF Url
      <3>5. url.timeouts = timeouts /\ url.inName = inName
        BY <3>1 DEF Url
      <3> QED BY <2>5, <3>4, <3>5
    <2>6. \A dsn : LedgerPoolConfig(env, dsn).DSN = ApplyStatementTimeout(env, dsn)
      BY DEF LedgerPoolConfig
    <2>7. CASE env.DATABASE_URL = Unset
      <3>1. env.PG_HOST # Unset
        BY <2>1, <2>7, Zenon DEF DSNFromEnv, ConfigFromEnv, ApplyStatementTimeout
      <3>2. DSNFromEnv(env) = ApplyStatementTimeout(env, DSN(env.PG_HOST, TRUE, <<>>))
        BY <2>7, <3>1 DEF DSNFromEnv, ConfigFromEnv
      <3>3. DSN(env.PG_HOST, TRUE, <<>>) =
               Url(env.PG_HOST, TRUE, <<>>, <<>>)
        BY Zenon DEF DSN, Url
      <3>4. ApplyStatementTimeout(env, DSN(env.PG_HOST, TRUE, <<>>)) = made
        <4>1. <<>> \in Seq(Nat) /\ <<>> \o <<>> = <<>>
          OBVIOUS
        <4> QED BY <2>3, <3>3, <4>1, ApplyIs, Zenon
      <3>5. cfg.DatabaseURL = made
        BY <2>1, <3>2, <3>4, Zenon
      <3>6. made.timeouts = <<Millis(env)>> /\ made.inName = <<>>
        BY DEF Url
      <3>7. <<Millis(env)>> \o <<>> # <<>>
        BY <2>4
      <3> HIDE DEF made
      <3>8. ApplyStatementTimeout(env, made) = made
        BY <3>6, <3>7 DEF ApplyStatementTimeout
      <3>9. Once(cfg.DatabaseURL, Unset) /\ Once(LedgerPoolConfig(env, cfg.DatabaseURL).DSN, Unset)
        BY <2>6, <3>5, <3>6, <3>8
      <3>10. env.MIGRATION_DATABASE_URL = Unset =>
                cfg.MigrationDatabaseURL = cfg.DatabaseURL
        BY <2>1 DEF MigrationDSNFromEnv
      <3>11. env.MIGRATION_DATABASE_URL # Unset /\ env.MIGRATION_DATABASE_URL.query =>
                Once(cfg.MigrationDatabaseURL, env.MIGRATION_DATABASE_URL)
        BY <2>1, <2>5 DEF MigrationDSNFromEnv
      <3> QED BY <2>7, <3>9, <3>10, <3>11, Zenon
    <2>8. CASE env.DATABASE_URL # Unset
      <3>1. cfg.DatabaseURL = env.DATABASE_URL
        BY <2>1, <2>8 DEF DSNFromEnv, ConfigFromEnv
      <3>2. cfg.DatabaseURL.query =>
               Once(LedgerPoolConfig(env, cfg.DatabaseURL).DSN, env.DATABASE_URL)
        BY <2>5, <2>6, <2>8, <3>1
      <3>3. env.MIGRATION_DATABASE_URL = Unset =>
               cfg.MigrationDatabaseURL = cfg.DatabaseURL
        BY <2>1 DEF MigrationDSNFromEnv
      <3>4. env.MIGRATION_DATABASE_URL # Unset /\ env.MIGRATION_DATABASE_URL.query =>
               Once(cfg.MigrationDatabaseURL, env.MIGRATION_DATABASE_URL)
        BY <2>1, <2>5 DEF MigrationDSNFromEnv
      <3> QED BY <2>8, <3>1, <3>2, <3>3, <3>4, Zenon
    <2> QED BY <2>7, <2>8, Zenon
  <1> QED BY <1>1, SiteInvariant, PTL
=============================================================================
