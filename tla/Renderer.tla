------------------------------ MODULE Renderer ------------------------------
(***************************************************************************)
(* The template renderer, replace_by_dict (lines 291-297), as            *)
(* create_templates uses it: the implementation template, then the     *)
(* interface template, filled from one replacements dict (1573-1640).   *)
(*                                                                         *)
(* Text is a sequence of tokens: a placeholder such as __VERSION__ is one *)
(* token; "bs" is a backslash, "n" the letter n, "nl" a newline, digits   *)
(* are digits; any other token is plain text.  re.sub(k, v, s) replaces   *)
(* every occurrence of the placeholder k by v read as a replacement       *)
(* template, whose backslash escapes Python 2's sre_parse processes.      *)
(***************************************************************************)
EXTENDS Naturals, Sequences, SequencesExt

CONSTANTS
  Keys,          \* the placeholders the replacements dict defines
  Placeholders,  \* every placeholder token, Keys among them
  Templates,     \* the template texts
  Values,        \* the values of the dict
  Digits,        \* the digit tokens
  Absent,        \* a template not rendered yet
  Raised         \* the exception re.sub raises on a bad template

VARIABLES
  tmpl,   \* tmpl[kind]: the cpp and hpp templates, read from files
  repl,   \* the replacements dict, Keys -> Values
  order,  \* the dict's iteration order, fixed but unknown in Python 2
  out     \* out[kind]: Absent, Raised or the rendered text

vars == <<tmpl, repl, order, out>>

(***************************************************************************)
(* sre_parse.parse_template, run before any match is looked for: a "\"   *)
(* at the end raises "bogus escape".  A "\" before a digit is a group    *)
(* reference; the pattern has no groups, and Python 2.7 rejects the       *)
(* reference only when expand_template fills it in, that is, on a match.  *)
(* Otherwise "\\" is a backslash, "\n" a newline, and an unknown escape *)
(* is kept as written.                                                     *)
(***************************************************************************)
RECURSIVE BadTemplate(_)
BadTemplate(v) ==
  CASE v = <<>>           -> FALSE
    [] Head(v) # "bs"     -> BadTemplate(Tail(v))
    [] Len(v) = 1         -> TRUE
    [] OTHER              -> BadTemplate(Tail(Tail(v)))

RECURSIVE GroupRef(_)
GroupRef(v) ==
  CASE v = <<>>           -> FALSE
    [] Head(v) # "bs"     -> GroupRef(Tail(v))
    [] Len(v) = 1         -> FALSE
    [] v[2] \in Digits    -> TRUE
    [] OTHER              -> GroupRef(Tail(Tail(v)))

Escape(c) ==
  CASE c = "bs" -> <<"bs">>
    [] c = "n"  -> <<"nl">>
    [] OTHER    -> <<"bs", c>>

RECURSIVE Expand(_)
Expand(v) ==
  CASE v = <<>>           -> <<>>
    [] Head(v) # "bs"     -> <<Head(v)>> \o Expand(Tail(v))
    [] Len(v) = 1         -> <<>>
    [] OTHER              -> Escape(v[2]) \o Expand(Tail(Tail(v)))

\* re.sub(k, v, s): the template is parsed before any match is looked for,
\* and a group reference fails when the first match is expanded.
ReSub(k, v, s) ==
  IF BadTemplate(v) \/ (GroupRef(v) /\ k \in Range(s)) THEN Raised
  ELSE FlattenSeq([i \in DOMAIN s |-> IF s[i] = k THEN Expand(v) ELSE <<s[i]>>])

SubStep(d, acc, k) == IF acc = Raised THEN Raised ELSE ReSub(k, d[k], acc)

\* replace_by_dict: one re.sub per key, in d.items() order, on the running text.
ReplaceByDict(s, d, ord) ==
  FoldLeft(LAMBDA acc, k : SubStep(d, acc, k), s, ord)

Init ==
  /\ tmpl \in [{"cpp", "hpp"} -> Templates]
  /\ repl \in [Keys -> Values]
  /\ order \in SetToSeqs(Keys)
  /\ out = [kind \in {"cpp", "hpp"} |-> Absent]

\* Line 1636: cpp = replace_by_dict(cpp, replacements).
RenderCpp ==
  /\ out["cpp"] = Absent
  /\ out' = [out EXCEPT !["cpp"] = ReplaceByDict(tmpl["cpp"], repl, order)]
  /\ UNCHANGED <<tmpl, repl, order>>

\* Line 1640: the hpp is rendered only once the cpp step returned.
RenderHpp ==
  /\ out["cpp"] \notin {Absent, Raised}
  /\ out["hpp"] = Absent
  /\ out' = [out EXCEPT !["hpp"] = ReplaceByDict(tmpl["hpp"], repl, order)]
  /\ UNCHANGED <<tmpl, repl, order>>

Next == RenderCpp \/ RenderHpp

Spec == Init /\ [][Next]_vars

-----------------------------------------------------------------------------
(***************************************************************************)
(* Spec section 4.5: exact-token substitution, a slot's value inserted as *)
(* it is and never rescanned, and a placeholder the map has no value for  *)
(* rendered as the empty string.                                           *)
(***************************************************************************)
RenderExact(s, d) ==
  FlattenSeq([i \in DOMAIN s |->
                CASE s[i] \in DOMAIN d     -> d[s[i]]
                  [] s[i] \in Placeholders -> <<>>
                  [] OTHER                 -> <<s[i]>>])

\* Every template replace_by_dict renders is the exact-token substitution
\* of its slots that section 4.5 describes, whatever the dict order.
RendersExactTokens ==
  \A kind \in {"cpp", "hpp"} :
    out[kind] # Absent => out[kind] = RenderExact(tmpl[kind], repl)
=============================================================================
