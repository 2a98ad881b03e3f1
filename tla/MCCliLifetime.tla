--------------------------- MODULE MCCliLifetime ---------------------------
(***************************************************************************)
(* History files for two sessions: none or an empty one, one entry, and as *)
(* many as the limit, or more, with a repetition.                          *)
(***************************************************************************)
EXTENDS CliLifetime

CONSTANTS a, b, s1, s2

MCFiles == {<<>>, <<a>>, <<a, b>>, <<b, b, a>>, <<a, b, a>>}
=============================================================================
