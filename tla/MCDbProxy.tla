----------------------------- MODULE MCDbProxy -----------------------------
(***************************************************************************)
(* Texts for DbProxy: a write, a transaction sent in one piece or piece by *)
(* piece, and texts that fail or end their transaction in their middle;    *)
(* connection strings of both forms, with and without a password.          *)
(***************************************************************************)
EXTENDS DbProxy

MCTexts ==
  {<<"read">>, <<"write">>, <<"begin">>, <<"commit">>, <<"write", "commit">>,
   <<"write", "error">>, <<"commit", "write">>, <<"commit", "begin", "write">>,
   <<"write", "commit", "error">>, <<"write", "rollback">>, <<"rollback", "write">>,
   <<"rollback", "begin", "write">>}

P(glue, key, value) == ComposeDbParameter(glue, key, value)

MCBases ==
  {<<>>,
   <<P("", "dbname", "db"), P(" ", "password", "old")>>,
   <<P("postgres://", "host", "")>>,
   <<P("postgresql://", "host", "here"), P(":", "port", "5433"), P("/", "dbname", "db")>>,
   <<P("postgresql://", "user", "me"), P(":", "password", "old"), P("@", "host", "here")>>,
   <<P("postgresql://", "user", "me"), P("@", "host", "here"), P("?", "password", "old"),
     P("&", "dbname", Question)>>,
   <<P("postgresql://", "user", "me"), P(":", "password", Question), P("@", "host", "here")>>,
   <<P("postgresql://", "host", "here"), P("?", "nothing", "")>>}

MCPasswords == {"new", Special}
=============================================================================
