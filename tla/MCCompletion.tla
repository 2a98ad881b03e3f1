---------------------------- MODULE MCCompletion ----------------------------
(***************************************************************************)
(* Names and keywords over two letters, some of them beginning with        *)
(* others, in one group, across the groups and as keywords.                *)
(***************************************************************************)
EXTENDS Completion

MCChars == {"a", "b", " "}
MCGroupNames == << {<<"a", "a", "b">>, <<"a", "a", "b", "a">>}, {<<"a">>, <<"b", "b">>, <<"b", "b", "a">>} >>
MCKeywords == {<<"a", "b">>, <<"b">>, <<"b", "a">>, <<"b", "a", "b">>}
=============================================================================
