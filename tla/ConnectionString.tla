-------------------------- MODULE ConnectionString --------------------------
(***************************************************************************)
(* The connection string of psqlxx and the password put into it (db.cpp),  *)
(* with what libpq makes of the result.  A connection string is a sequence *)
(* of parameters, each with the characters that glue it to the one before: *)
(* a URI is                                                                *)
(*   "postgresql://" user ":" password "@" host ":" port "/" dbname        *)
(*                   "?" key=value "&" key=value                           *)
(* with all but the host left out or not (a host left out is an empty      *)
(* one; several hosts are one value), the other form key=value " "         *)
(* key=value.                                                              *)
(***************************************************************************)
EXTENDS Integers, SequencesExt

Schemes == {"postgresql://", "postgres://"}
Glue    == Schemes \cup {"", ":", "@", "/", "?", "&", " "}

\* A value that would have to be quoted or escaped, for which there is no support
\* (the note at db.hpp:55).
Special == "a b&c"

\* A value with a question mark in it, which needs no escape before an "@" and
\* none in the query.
Question == "a?b"

DbParameterKey == {"host", "port", "dbname", "user", "password"}

\* "nothing" is what stands after a last "?" or "&" that no parameter follows.
Parameter == [glue : Glue, key : DbParameterKey \cup {"nothing"}, value : STRING]

StartsWithScheme(cs) == cs # <<>> /\ cs[1].glue \in Schemes

ComposeDbParameter(glue, key, value) == [glue |-> glue, key |-> key, value |-> value]

GlueQuestionMark(cs) == "?"    \* mutant: the parameters a URI may have are not looked for

\* Any question mark of the string is taken for the one before the parameters.
UriGlue(cs) ==
  IF \E k \in DOMAIN cs : cs[k].glue = "?" \/ cs[k].value = Question THEN "&" ELSE "?"

overridePassword(cs, password) ==
  LET glue == IF StartsWithScheme(cs) THEN UriGlue(cs)
              ELSE IF cs = <<>> THEN "" ELSE " "
  IN  Append(cs, ComposeDbParameter(glue, "password", password))
-----------------------------------------------------------------------------
\* The first k parameters reach into the query of the URI.
InQuery(cs, k) == \E j \in 2..k : cs[j].glue = "?"

Credentials == {"user", "password"}

\* Before its query a URI may go on with q after p.
Follows(p, q) ==
  \/ q.glue = ":" /\ <<p.key, q.key>> \in {<<"user", "password">>, <<"host", "port">>}
  \/ q.glue = "@" /\ p.key \in Credentials /\ q.key = "host"
  \/ q.glue = "/" /\ p.key \in {"host", "port"} /\ q.key = "dbname"
  \/ q.glue = "?" /\ p.key \in {"host", "port", "dbname"}

WellFormedUri(cs) ==
  /\ cs[1].key \in {"user", "host"}
  /\ \A k \in 2..Len(cs) :
       IF InQuery(cs, k - 1) THEN cs[k].glue = "&" ELSE Follows(cs[k - 1], cs[k])
  /\ \A k \in 1..Len(cs) :
       /\ cs[k].key = "nothing" => k = Len(cs) /\ cs[k].value = ""
       /\ ~InQuery(cs, k) /\ cs[k].key \in Credentials => k < Len(cs)
       /\ ~InQuery(cs, k) /\ cs[k].value = Question => cs[k].key \in Credentials

WellFormedKeyValues(cs) ==
  \A k \in DOMAIN cs : cs[k].glue = (IF k = 1 THEN "" ELSE " ") /\ cs[k].key # "nothing"

\* libpq can tell the parameters of the string apart.
WellFormed(cs) ==
  /\ \A k \in DOMAIN cs : cs[k].value # Special
  /\ IF StartsWithScheme(cs) THEN WellFormedUri(cs) ELSE WellFormedKeyValues(cs)

\* The parameters libpq reads: of two with the same key, the later one counts.
Settings(cs) ==
  {<<cs[k].key, cs[k].value>> :
     k \in {i \in DOMAIN cs : /\ cs[i].key # "nothing"
                              /\ \A j \in DOMAIN cs : cs[j].key = cs[i].key => j <= i}}

\* dsn is base with the password in place of any other, and nothing else changed.
Overrides(dsn, base, password) ==
  /\ WellFormed(dsn)
  /\ Settings(dsn) =
       {s \in Settings(base) : s[1] # "password"} \cup {<<"password", password>>}

\* URIs that libpq reads, but not with what overridePassword puts after them: the
\* query is empty or ends in an "&", or there is none and the credentials hold a
\* question mark.
Unextendable(cs) ==
  /\ StartsWithScheme(cs)
  /\ \/ Last(cs).key = "nothing"
     \/ ~InQuery(cs, Len(cs)) /\ \E k \in DOMAIN cs : cs[k].value = Question
=============================================================================
