----------------------------- MODULE MCCommands -----------------------------
(***************************************************************************)
(* Command lines for TLC: pipelines with an endless and with a finite writer, *)
(* an unknown word before a known one, the background, KILL; and two          *)
(* pipelines, one after the other, for the end of file.                       *)
(***************************************************************************)
EXTENDS Commands

MCLines == << {<<"LOOP", "|", "FILTER">>, <<"CAT">>, <<"LOOP", "&">>},
              {<<"LOOP", "|", "FILTER">>, <<"HELP", "|", "WC">>, <<"KILL", "1">>, <<"|", "HELP">>},
              {<<"FOO", "WC">>} >>
TwoPipelines == << {<<"LOOP", "|", "FILTER">>}, {<<"LOOP", "|", "FILTER">>} >>
MCHelp == <<"A">>
MCLineStart == <<"O">>
MCStale == {"?", "\n"}
=============================================================================
