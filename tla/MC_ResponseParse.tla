-------------------------- MODULE MC_ResponseParse --------------------------
(***************************************************************************)
(* Model values for ResponseParse.  One enum E with members A ("a", alias *)
(* "a2") and B ("b"), one return struct T, and the scalar type int.  The  *)
(* descriptors cover every json_type, every presence get_return_parameters *)
(* produces (required, null default, value default, optional flag, and a  *)
(* default overridden by the optional flag) and every kind, except the    *)
(* combinations the generator refuses (Generable) and a default_value on  *)
(* an array or a struct, whose C++ initialiser text is not modelled.      *)
(***************************************************************************)
EXTENDS ResponseParse, FiniteSets

MCEnumNames   == {"E"}
MCStructNames == {"T"}
MCEnumMembers == <<[name |-> "A", values |-> <<"a", "a2">>],
                   [name |-> "B", values |-> <<"b">>]>>

D(t, j, dv, o) == [cpp_type |-> t, json_type |-> j, default_value |-> dv, optional |-> o]

\* (default_value, optional) pairs as a document may write them.
Presences == {<<Absent, Absent>>, <<"null", Absent>>, <<"7", Absent>>,
              <<Absent, TRUE>>, <<"7", TRUE>>}

AllDescs ==
  {D(t, j, pr[1], pr[2]) : t \in {"int", "E", "T"},
                           j \in {Absent, "single", "array", "array_front"},
                           pr \in Presences}

Descs ==
  {p \in AllDescs : Generable(p) /\
     ~(PresenceOf(p) = "default" /\ (ShapeOf(p) = "array" \/ KindOf(p) = "struct"))}

ReqInt == D("int", Absent, Absent, Absent)
OptEnum == D("E", Absent, Absent, TRUE)

\* Every one-field document, and two-field documents in which a required
\* field before or after another one can fail the parse.
PassDocuments ==
  {<<p>> : p \in Descs} \cup {<<ReqInt, p>> : p \in Descs} \cup {<<p, OptEnum>> : p \in Descs}

ScalarWires(p) ==
  IF ShapeOf(p) = "single" THEN {Absent, "v", "bad"}
  ELSE {Absent, <<>>, <<"v">>, <<"bad">>, <<"v", "v">>, <<"v", "bad">>, <<"bad", "v">>}

EnumWires(p) ==
  IF ShapeOf(p) = "single" THEN {Absent, "a", "a2", "b", "z"}
  ELSE {Absent, <<>>, <<"a2">>, <<"z", "b">>, <<"b", "z">>}

\* Struct contents on which the emitted parser follows the policy.
StructWiresAgreeing(p) ==
  CASE ShapeOf(p) = "single" /\ Required(p)  -> {Absent, "ok", "empty", "broken"}
    [] ShapeOf(p) = "single" /\ ~Required(p) -> {Absent, "ok", "empty"}
    [] ShapeOf(p) = "array" /\ Required(p)   -> {Absent, <<"ok">>, <<"ok", "ok">>, <<"ok", "broken">>}
    [] ShapeOf(p) = "array" /\ ~Required(p)  -> {Absent, <<>>, <<"ok">>, <<"ok", "ok">>}

PassWires(p) ==
  CASE KindOf(p) = "scalar" -> ScalarWires(p)
    [] KindOf(p) = "enum"   -> EnumWires(p)
    [] KindOf(p) = "struct" -> StructWiresAgreeing(p)

(***************************************************************************)
(* The struct documents and contents of the three disagreements.           *)
(***************************************************************************)
OptStruct      == D("T", Absent, Absent, TRUE)
ReqStructArray == D("T", "array", Absent, Absent)
OptStructArray == D("T", "array", "null", Absent)

OptStructDocuments      == {<<OptStruct>>}
ReqStructArrayDocuments == {<<ReqStructArray, ReqInt>>}
OptStructArrayDocuments == {<<OptStructArray>>}

\* A present object whose required member is missing.
BrokenStructWires(p) ==
  IF KindOf(p) = "struct" THEN {Absent, "ok", "empty", "broken"} ELSE {"v"}

\* An empty element or an empty array where a required array is expected.
EmptyStructWires(p) ==
  IF KindOf(p) = "struct" THEN {Absent, <<"ok">>, <<>>, <<"ok", "empty">>} ELSE {"v"}

\* A failing element before a good one in an optional array.
SkippedStructWires(p) ==
  {Absent, <<>>, <<"ok">>, <<"empty", "ok">>}

(***************************************************************************)
(* The enum disagreement: A lists as an alias "b", the api_value of the   *)
(* later member B.  The validator checks additional_api_values against    *)
(* nothing, so it accepts this enum.                                       *)
(***************************************************************************)
ShadowMembers == <<[name |-> "A", values |-> <<"a", "b">>],
                   [name |-> "B", values |-> <<"b">>]>>
ReqEnum == D("E", Absent, Absent, Absent)
ShadowedEnumDocuments == {<<ReqEnum>>}

\* The four disagreements together, each field with its own contents.
DisagreementDocuments ==
  OptStructDocuments \cup ReqStructArrayDocuments \cup OptStructArrayDocuments
  \cup ShadowedEnumDocuments
DisagreementWires(p) ==
  CASE p = OptStruct      -> BrokenStructWires(p)
    [] p = ReqEnum        -> {"a", "b"}
    [] p = OptStructArray -> SkippedStructWires(p)
    [] OTHER              -> EmptyStructWires(p)
=============================================================================
