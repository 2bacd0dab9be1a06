---------------------------- MODULE MC_Renderer -----------------------------
(***************************************************************************)
(* Two placeholders the dict defines and one it does not (the aggregation *)
(* template's __INCLUDES__ is not in create_api's dict); values of up to  *)
(* two tokens over plain text, a backslash, the letter n, a digit and a   *)
(* placeholder.                                                            *)
(***************************************************************************)
EXTENDS Renderer

MCKeys == {"__VERSION__", "__NAMESPACE__"}
MCPlaceholders == MCKeys \cup {"__INCLUDES__"}
MCDigits == {"1"}
MCTemplates ==
  { <<"__VERSION__", "__NAMESPACE__">>, <<"__NAMESPACE__", "a">>,
    <<"__INCLUDES__", "a">>, <<"a">> }
MCValues == SeqOf({"a", "bs", "n", "1", "__VERSION__"}, 2)
=============================================================================
