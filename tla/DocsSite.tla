------------------------------ MODULE DocsSite ------------------------------
(***************************************************************************)
(* The documentation surface: the routes registerDocsRoutes mounts, who    *)
(* may read them, and GET /asyncapi, whose concurrent requests share one   *)
(* parsed document (sync.Once).  renderPropsTable sorts the field order    *)
(* that belongs to this document in place, without a lock.                 *)
(***************************************************************************)
EXTENDS ServiceConfig, EventCatalog

CONSTANTS
    Processes,  \* <<environment, document embedded>> of the processes to start
    Broken,     \* a document that yaml.Unmarshal rejects
    Requests,   \* request slots, each used once
    Tokens      \* what clients put behind "Bearer "

\* A document as a YAML file holds it: a schema lists each of its fields once,
\* or none; and no schema is made of itself, which resolveSchema would follow
\* forever.
Document(d) ==
    /\ d = [messages |-> d.messages, names |-> d.names, schemas |-> d.schemas]
    /\ d.names \subseteq DOMAIN d.schemas /\ d.names \subseteq Nat
    /\ DOMAIN d.messages \subseteq Nat
    /\ IsFiniteSet(DOMAIN d.schemas) /\ IsFiniteSet(DOMAIN d.messages)
    /\ \A n \in DOMAIN d.schemas : \E sc \in {d.schemas[n]} :
          /\ sc = [order |-> sc.order, props |-> sc.props, required |-> sc.required,
                   allOf |-> sc.allOf, ref |-> sc.ref, array |-> Private]
          /\ sc.props \subseteq Nat /\ IsFiniteSet(sc.props)
          /\ sc.order \in Seq(sc.props) /\ IsInjective(sc.order)
          /\ sc.order # <<>> => Range(sc.order) = sc.props
          /\ sc.allOf \in Seq(DOMAIN d.schemas)
    /\ \A T \in SUBSET DOMAIN d.schemas :
          T # {} => \E n \in T : T \cap Range(Links(d)[n]) = {}

\* An environment: the variables that hold a connection string, if they are
\* set, and the timeout.
Environ(e) ==
    /\ e.PG_STATEMENT_TIMEOUT \in Nat \cup {Unset, BadValue}
    /\ \A url \in {e.DATABASE_URL, e.MIGRATION_DATABASE_URL} : url # Unset =>
          /\ url = [from |-> url.from, query |-> url.query,
                    timeouts |-> url.timeouts, inName |-> url.inName]
          /\ url.query \in BOOLEAN
          /\ url.timeouts \in Seq(Nat) /\ url.inName \in Seq(Nat)

ASSUME DocsAssumption ==
    /\ \A p \in Processes :
          /\ p = <<p[1], p[2]>> /\ Environ(p[1])
          /\ p[2] # Broken => Document(p[2]) /\ Private \notin DOMAIN p[2].schemas
    /\ {"no", "done"} \cap Requests = {}
    /\ Unset \notin {"production", "true", "TRUE", "True"}

VARIABLES
    env, doc,  \* fixed when the process is built and started
    cfg,       \* loadConfig's result, Unset before
    once,      \* asyncSpecOnce: who parses, "no" or "done"
    spec,      \* asyncSpecVal, or Broken for asyncSpecErr
    req,       \* request -> its stage
    raced      \* history: a sort wrote to an array another request was using

vars == <<env, doc, cfg, once, spec, req, raced>>

Routes == {"/swagger", "/asyncapi", "/asyncapi.yaml"}

\* A request: where it stands, what it sent, the tables of its page and those
\* written so far, and the arrays it reads and writes in the table at hand.
Free == [pc |-> "free"]

NewRequest(route, token) ==
    [pc |-> "route", route |-> route, token |-> token, tables |-> <<>>,
     page |-> <<>>, reads |-> {}, writes |-> {}]

\* What the configuration and the requests look like.
DocsTypeOK ==
    /\ <<env, doc>> \in Processes
    /\ cfg = Unset \/ cfg = Failed \/ cfg.Environment # Unset
    /\ once \in Requests \cup {"no", "done"}
    /\ \A r \in Requests : req[r] # Free =>
          /\ req[r].pc \in {"route", "load", "table", "sort", "200", "401",
                            "404", "500"}
          /\ req[r].writes \subseteq req[r].reads
          /\ req[r].pc = "200" /\ req[r].route = "/asyncapi"
                => Len(req[r].page) = Len(renderPage(doc))
    /\ raced \in BOOLEAN

Init ==
    /\ \E p \in Processes : env = p[1] /\ doc = p[2]
    /\ cfg = Unset
    /\ once = "no"
    /\ spec = None
    /\ req = [r \in Requests |-> Free]
    /\ raced = FALSE

Goto(r, pc) == req' = [req EXCEPT ![r].pc = pc]

-----------------------------------------------------------------------------
\* run() loads the configuration; an error ends the process.
Start ==
    /\ cfg = Unset
    /\ cfg' = loadConfig(env)
    /\ UNCHANGED <<env, doc, once, spec, req, raced>>

\* Mutant: only DOCS_ENABLED counts.
Active_EnabledOnly(c) == c.DocsEnabled

\* DocsConfig.active.
Active(c) == c.Environment # "production" \/ c.DocsEnabled

\* Mutant: a token is only asked for outside production.
NeedsToken_Inverted(c) == c.Environment # "production" /\ c.DocsAuthToken # Unset

\* registerDocsRoutes installs docsAuthMiddleware.
NeedsToken(c) == c.Environment = "production" /\ c.DocsAuthToken # Unset

\* A request arrives at a running process.
Get(r, route, token) ==
    /\ cfg # Unset /\ cfg # Failed
    /\ req[r] = Free
    /\ req' = [req EXCEPT ![r] = NewRequest(route, token)]
    /\ UNCHANGED <<env, doc, cfg, once, spec, raced>>

\* The routes and their middlewares; only /asyncapi has more to do.
Route(r) ==
    /\ req[r] # Free /\ req[r].pc = "route"
    /\ Goto(r, IF ~Active(cfg) THEN "404"
               ELSE IF NeedsToken(cfg) /\ req[r].token # cfg.DocsAuthToken
               THEN "401"
               ELSE IF req[r].route = "/asyncapi" THEN "load" ELSE "200")
    /\ UNCHANGED <<env, doc, cfg, once, spec, raced>>

\* loadAsyncSpec: the first request parses, the others wait for it.
BeginParse(r) ==
    /\ req[r] # Free /\ req[r].pc = "load"
    /\ once = "no"
    /\ once' = r
    /\ UNCHANGED <<env, doc, cfg, spec, req, raced>>

\* Mutant: a mutex in place of sync.Once, which the request that meets the
\* error leaves locked: it is answered, the others wait.
EndParse_LockKept(r) ==
    /\ once = r
    /\ IF doc = Broken
       THEN once' = once /\ spec' = Broken /\ Goto(r, "500")
       ELSE once' = "done" /\ spec' = parseAsyncSpec(doc) /\ req' = req
    /\ UNCHANGED <<env, doc, cfg, raced>>

EndParse(r) ==
    /\ once = r
    /\ once' = "done"
    /\ spec' = IF doc = Broken THEN Broken ELSE parseAsyncSpec(doc)
    /\ UNCHANGED <<env, doc, cfg, req, raced>>

\* The document, or 500 for its error.
Loaded(r) ==
    /\ req[r] # Free /\ req[r].pc = "load"
    /\ once = "done"
    /\ IF spec = Broken THEN Goto(r, "500")
       ELSE req' = [req EXCEPT ![r] = [@ EXCEPT !.pc = "table",
                                                !.tables = renderPage(spec)]]
    /\ UNCHANGED <<env, doc, cfg, once, spec, raced>>

\* There is another table to write, and its schema.
More(r) == Len(req[r].page) < Len(req[r].tables)

NextSchema(r) == req[r].tables[Len(req[r].page) + 1].schema

\* The sort of r and the table of q use the same array, and one writes.
Conflict(r, q) ==
    /\ req[r] # Free /\ req[q] # Free
    /\ req[r].writes \cap req[q].reads # {} \/ req[q].writes \cap req[r].reads # {}

\* renderPropsTable starts on the next table: from here to its last row it
\* uses the arrays of the document.
BeginTable(r) ==
    /\ req[r] # Free /\ req[r].pc = "table" /\ More(r)
    /\ \E sc \in {resolveSchema(spec)[NextSchema(r)]} :
          req' = [req EXCEPT ![r] =
                    [@ EXCEPT !.pc = "sort",
                              !.reads = Range(Parts(Links(spec))[NextSchema(r)]),
                              !.writes = IF SortsInPlace(sc) THEN {sc.array} ELSE {}]]
    /\ raced' = (raced \/ \E q \in Requests \ {r} : Conflict(r, q)')
    /\ UNCHANGED <<env, doc, cfg, once, spec>>

\* The rows of a table: in order or, once two requests were in the same array
\* at a time and one of them wrote, any of its elements in any place.
Rows(r, sc) ==
    IF raced /\ (req[r].writes # {} \/ \E q \in Requests \ {r} : Conflict(r, q))
    THEN [DOMAIN sc.order -> Range(sc.order)]
    ELSE {PropsTable(sc)}

\* Its table is written; the array keeps the order of the sort.
EndTable(r) ==
    /\ req[r] # Free /\ req[r].pc = "sort"
    /\ \E sc \in {resolveSchema(spec)[NextSchema(r)]} : \E keys \in Rows(r, sc) :
          /\ req' = [req EXCEPT ![r] =
                       [@ EXCEPT !.pc = "table", !.page = Append(req[r].page, keys),
                                 !.reads = {}, !.writes = {}]]
          /\ spec' = [spec EXCEPT !.schemas = [n \in DOMAIN spec.schemas |->
                        IF n \in req[r].writes
                        THEN [spec.schemas[n] EXCEPT !.order = keys]
                        ELSE spec.schemas[n]]]
    /\ UNCHANGED <<env, doc, cfg, once, raced>>

\* The page is complete.
Respond(r) ==
    /\ req[r] # Free /\ req[r].pc = "table" /\ ~More(r)
    /\ Goto(r, "200")
    /\ UNCHANGED <<env, doc, cfg, once, spec, raced>>

Serve(r) ==
    \/ Route(r) \/ BeginParse(r) \/ EndParse(r) \/ Loaded(r)
    \/ BeginTable(r) \/ EndTable(r) \/ Respond(r)

Next ==
    \/ Start
    \/ \E r \in Requests : \/ \E route \in Routes, token \in Tokens \cup {Unset} :
                               Get(r, route, token)
                          \/ Serve(r)

Spec == Init /\ [][Next]_vars

FairSpec == Spec /\ WF_vars(Start) /\ \A r \in Requests : WF_vars(Serve(r))

-----------------------------------------------------------------------------
(* Properties.                                                              *)

\* The finished pages, as far as the order of their tables goes.
Pages == {r \in Requests : /\ req[r] # Free /\ req[r].pc = "200"
                           /\ req[r].route = "/asyncapi"}

\* The schemas of the file d that schema n is made of, and what they declare.
PartsOf(d, n) == Parts(Links(d))[n]
Fields(d, n) == UNION {d.schemas[p].props : p \in Range(PartsOf(d, n))}
Required(d, n) == UNION {d.schemas[p].required : p \in Range(PartsOf(d, n))}
Orders(d, n) ==
    LET parts == PartsOf(d, n) IN [i \in DOMAIN parts |-> d.schemas[parts[i]].order]

\* keys lists every field of schema n once, the required ones first.
Complete(d, keys, n) ==
    LET required == Required(d, n)
    IN  /\ Range(keys) = Fields(d, n)
        /\ Cardinality(Range(keys)) = Len(keys)
        /\ \A i, j \in DOMAIN keys :
              keys[i] \in required /\ keys[j] \notin required => i < j

\* In a file with this listing of fields k stands before l: it has a place
\* before each one of l.  Fields without a place come last, in alphabetical
\* order.
InFileOrder(k, l, listing) ==
    LET At(f) == {p \in listing : p[3] = f}
    IN  IF At(k) = {} THEN At(l) = {} /\ k < l
        ELSE \A q \in At(l) : \E p \in At(k) : Precedes(p, q)

\* Two fields of a kind are in the order of the file.
Declared(d, keys, n) ==
    LET required == Required(d, n)
        listing == Listing(Orders(d, n))
    IN  \A i, j \in DOMAIN keys :
            /\ i < j
            /\ keys[i] \in required <=> keys[j] \in required
            => InFileOrder(keys[i], keys[j], listing)

\* The table t of a page shows this schema of the file.
Shown(d, t) == renderPage(d)[t].schema

\* The schema p lists its required fields first.
TidySchema(p) ==
    \A i, j \in DOMAIN p.order :
        p.order[i] \in p.required /\ p.order[j] \notin p.required => i < j

\* So does every plain schema of the file, the parts written inline included.
\* api/asyncapi.yaml is tidy: all its fields are required.
Tidy(d) ==
    \A n \in DOMAIN d.schemas : Links(d)[n] = <<>> => TidySchema(d.schemas[n])

\* With a tidy document the shared order is never written to, so no number of
\* concurrent requests races on it, and every page shows every field once,
\* the required ones first and otherwise in the order of the file.
TidyPagesRight ==
    doc # Broken /\ Tidy(doc) =>
        /\ ~raced
        /\ \A r \in Pages : \A t \in DOMAIN req[r].page :
              /\ Complete(doc, req[r].page[t], Shown(doc, t))
              /\ Declared(doc, req[r].page[t], Shown(doc, t))

\* With any document, as long as no sort has raced, every table of every page
\* is complete and has the required fields first, although the sorts of
\* earlier requests have changed the document they share.
PagesComplete ==
    ~raced => \A r \in Pages : \A t \in DOMAIN req[r].page :
                 Complete(doc, req[r].page[t], Shown(doc, t))

\* In production, which is what a process without ENVIRONMENT is in, the
\* documentation is served when DOCS_ENABLED is true, in any case, and the
\* request carries the token, if there is one; elsewhere it always is.
PagesGated ==
    \A r \in Requests : req[r] # Free /\ req[r].pc # "route" =>
        (req[r].pc \notin {"401", "404"} <=>
            \/ env.ENVIRONMENT \notin {Unset, "production"}
            \/ /\ env.DOCS_ENABLED \in {"true", "TRUE", "True"}
               /\ env.DOCS_AUTH_TOKEN \in {Unset, req[r].token})

\* A statement_timeout of a millisecond or more that the environment asks for
\* (ApplyStatementTimeout truncates a shorter one to 0) is an option of every
\* connection string the process assembles or is given with a query part,
\* exactly once however many functions apply it; DATABASE_URL stays as it is
\* until LedgerPoolConfig, and a string that mentions the option is kept.
TimeoutOnce ==
    (/\ cfg # Unset /\ cfg # Failed
     /\ TimeoutGiven(env) /\ env.PG_STATEMENT_TIMEOUT >= 1000) =>
        LET ms == env.PG_STATEMENT_TIMEOUT \div 1000
            Once(dsn, given) ==
                dsn.timeouts = IF given # Unset /\ given.timeouts \o given.inName # <<>>
                               THEN given.timeouts ELSE <<ms>>
        IN  /\ env.DATABASE_URL = Unset => Once(cfg.DatabaseURL, Unset)
            /\ env.DATABASE_URL # Unset => cfg.DatabaseURL = env.DATABASE_URL
            /\ cfg.DatabaseURL.query =>
                  Once(LedgerPoolConfig(env, cfg.DatabaseURL).DSN, env.DATABASE_URL)
            /\ IF env.MIGRATION_DATABASE_URL = Unset
               THEN cfg.MigrationDatabaseURL = cfg.DatabaseURL
               ELSE env.MIGRATION_DATABASE_URL.query =>
                      Once(cfg.MigrationDatabaseURL, env.MIGRATION_DATABASE_URL)

\* Every request to the documentation is answered, those that wait for another
\* request to parse the document included.
EveryGetAnswered ==
    \A r \in Requests :
        req[r] # Free ~> req[r] # Free /\ req[r].pc \in {"200", "401", "404", "500"}
=============================================================================
