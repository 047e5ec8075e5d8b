----------------------------- MODULE MCDocsSite -----------------------------
(* DocsSite for TLC. *)
EXTENDS DocsSite

CONSTANTS secret, appHost, r1, r2

Url(query, timeouts) == DSN("url", query, timeouts)

\* A production process with the docs off and a database made of PG_HOST.
Plain ==
    [DATABASE_URL |-> Unset, PG_HOST |-> appHost, PG_STATEMENT_TIMEOUT |-> 2000,
     MIGRATION_DATABASE_URL |-> Unset, MEMBERSHIP_CHECK_TIMEOUT_MS |-> Unset,
     MEMBER_REMOVAL_SQS_QUEUE_URL |-> "queue", ENVIRONMENT |-> Unset,
     DOCS_ENABLED |-> Unset, DOCS_AUTH_TOKEN |-> Unset]

\* Who sees the docs, and what the connection strings look like: each part of
\* the environment varies while the other is fixed.
DocsEnvironments ==
    {[Plain EXCEPT !.ENVIRONMENT = e, !.DOCS_ENABLED = d, !.DOCS_AUTH_TOKEN = t] :
        e \in {Unset, "production", "staging"},
        d \in {Unset, "false", "true", "TRUE"}, t \in {Unset, secret}}

Urls == {Url(FALSE, <<>>), Url(TRUE, <<>>), Url(TRUE, <<7>>)}

DSNEnvironments ==
    {[Plain EXCEPT !.DATABASE_URL = u, !.PG_HOST = h, !.PG_STATEMENT_TIMEOUT = t,
                   !.MIGRATION_DATABASE_URL = m] :
        u \in {Unset} \cup Urls, h \in {Unset, appHost},
        t \in {Unset, BadValue, 0, 500, 2000}, m \in {Unset} \cup Urls}

OtherEnvironments ==
    {[Plain EXCEPT !.MEMBERSHIP_CHECK_TIMEOUT_MS = c,
                   !.MEMBER_REMOVAL_SQS_QUEUE_URL = q] :
        c \in {Unset, BadValue, 100}, q \in {Unset, "queue"}}


-----------------------------------------------------------------------------
Named(fields) == [Schema(<<>>, {}, {}) EXCEPT !.ref = fields]
AllOf(parts) == [Schema(<<>>, {}, {}) EXCEPT !.allOf = parts]
Message(consumed, payload) == [isConsumed |-> consumed, payload |-> payload]
Doc(messages, names, schemas) ==
    [messages |-> messages, names |-> names, schemas |-> schemas]

\* api/asyncapi.yaml: two consumed messages, every field required, and not in
\* alphabetical order.
Embedded ==
    Doc(<<Message(TRUE, 2), Message(TRUE, 1)>>, 1..2,
        <<Schema(<<1, 3, 2>>, 1..3, 1..3), Schema(<<2, 1>>, 1..2, 1..2)>>)

\* $ref, allOf over a named, an inline and an aliased part, a published
\* message, a payload that is not in the document: required fields first.
Composed ==
    Doc(<<Message(FALSE, 3), Message(TRUE, 9)>>, 1..4,
        <<Schema(<<3, 1>>, {1, 3}, {3}), Named(1), AllOf(<<5, 6, 7>>), Named(8),
          Named(2), Schema(<<2, 1>>, 1..2, {2}), Schema(<<>>, {4, 5}, {})>>)

\* An optional field before a required one, alone and as a part of an allOf.
Untidy ==
    Doc(<<>>, 1..2,
        <<Schema(<<1, 2>>, 1..2, {2}), AllOf(<<3, 4>>), Named(1),
          Schema(<<3>>, {3}, {3})>>)

\* An allOf in an allOf, and parts with a field in common.
Nested ==
    Doc(<<>>, {1},
        <<AllOf(<<2, 3>>), AllOf(<<4, 5>>), Schema(<<3, 1>>, {1, 3}, {3}),
          Schema(<<2>>, {2}, {2}), Schema(<<1>>, {1}, {})>>)

\* Every environment with one document, every document with one environment.
AllProcesses ==
    ((DocsEnvironments \cup DSNEnvironments \cup OtherEnvironments) \X {Broken})
        \cup ({[Plain EXCEPT !.ENVIRONMENT = "staging"]}
                \X {Embedded, Composed, Nested, Untidy, Broken})
=============================================================================
