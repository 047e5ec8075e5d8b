---------------------------- MODULE ServiceConfig ----------------------------
(***************************************************************************)
(* The configuration main.go reads from the environment: loadConfig and    *)
(* the connection strings of the postgres package, as operators on an      *)
(* environment env (variable -> value, Unset when it is not set or empty). *)
(*                                                                         *)
(* A connection string is what the driver reads in it: its source, whether *)
(* it has a query part, the statement_timeout options there (milliseconds) *)
(* and those that ended up in the name of the database because there is no *)
(* query part.  A duration is a number of microseconds.                    *)
(***************************************************************************)
EXTENDS Naturals, Sequences

CONSTANTS
    Unset,     \* os.Getenv returns ""
    BadValue   \* a value that strconv.Atoi or time.ParseDuration rejects

\* Mutant: no fallback.
getEnv_NoFallback(env, key, fallback) == env[key]

getEnv(env, key, fallback) == IF env[key] = Unset THEN fallback ELSE env[key]

\* A value that is set and is no integer is an error, not the fallback.
getEnvInt(env, key, fallback) == getEnv(env, key, fallback)

DSN(from, query, timeouts) ==
    [from |-> from, query |-> query, timeouts |-> timeouts, inName |-> <<>>]

NoDSN == DSN(Unset, FALSE, <<>>)

\* pgcommon.ConfigFromEnv: DATABASE_URL as it is, or a URL made of PG_HOST and
\* its companions, or none.
ConfigFromEnv(env) ==
    IF env.DATABASE_URL # Unset THEN env.DATABASE_URL
    ELSE IF env.PG_HOST = Unset THEN NoDSN
    ELSE DSN(env.PG_HOST, TRUE, <<>>)

\* PG_STATEMENT_TIMEOUT parses and is positive.
TimeoutGiven(env) ==
    env.PG_STATEMENT_TIMEOUT \notin {Unset, BadValue, 0}

\* "&options=" is appended, whether or not a query part precedes it.
WithOption(dsn, ms) ==
    IF dsn.query THEN [dsn EXCEPT !.timeouts = Append(@, ms)]
    ELSE [dsn EXCEPT !.inName = Append(@, ms)]

\* Mutant: the option is appended whatever the string holds.
ApplyStatementTimeout_Again(env, dsn) ==
    IF dsn = NoDSN \/ ~TimeoutGiven(env) THEN dsn
    ELSE WithOption(dsn, env.PG_STATEMENT_TIMEOUT \div 1000)

\* d.Milliseconds() is appended, unless the string mentions the option.
ApplyStatementTimeout(env, dsn) ==
    IF dsn = NoDSN \/ ~TimeoutGiven(env) \/ dsn.timeouts \o dsn.inName # <<>>
    THEN dsn
    ELSE WithOption(dsn, env.PG_STATEMENT_TIMEOUT \div 1000)

\* DATABASE_URL is returned as it is.
DSNFromEnv(env) ==
    IF env.DATABASE_URL # Unset THEN ConfigFromEnv(env)
    ELSE ApplyStatementTimeout(env, ConfigFromEnv(env))

MigrationDSNFromEnv(env) ==
    IF env.MIGRATION_DATABASE_URL # Unset
    THEN ApplyStatementTimeout(env, env.MIGRATION_DATABASE_URL)
    ELSE DSNFromEnv(env)

\* The pool without a tenant: it sets the option on a string that another
\* function may have set it on.
LedgerPoolConfig(env, dsn) ==
    [DSN |-> ApplyStatementTimeout(env, dsn), GUCProvider |-> FALSE,
     PGBouncerMode |-> TRUE, MinConns |-> 0]

Failed == [failed |-> TRUE]

\* loadConfig: the configuration, or an error that ends the process.
loadConfig(env) ==
    IF \/ getEnvInt(env, "MEMBERSHIP_CHECK_TIMEOUT_MS", 300) = BadValue
       \/ DSNFromEnv(env) = NoDSN
       \/ env.MEMBER_REMOVAL_SQS_QUEUE_URL = Unset
    THEN Failed
    ELSE [failed |-> FALSE,
          MembershipCheckTimeout |->
              getEnvInt(env, "MEMBERSHIP_CHECK_TIMEOUT_MS", 300),
          DatabaseURL |-> DSNFromEnv(env),
          MigrationDatabaseURL |-> MigrationDSNFromEnv(env),
          Environment |-> getEnv(env, "ENVIRONMENT", "production"),
          DocsEnabled |->
              getEnv(env, "DOCS_ENABLED", "false") \in {"true", "TRUE", "True"},
          DocsAuthToken |-> env.DOCS_AUTH_TOKEN]
=============================================================================
