--------------------------- MODULE ResponseFields ---------------------------
(***************************************************************************)
(* Vocabulary shared by the decode policy (DecodePolicy) and the parser    *)
(* the generator emits (ResponseParse): return_params descriptors as they *)
(* appear in a document, how get_return_parameters reads them, and the    *)
(* response content a field may meet on the wire.                          *)
(*                                                                         *)
(* A descriptor is [cpp_type, json_type, default_value, optional] with     *)
(* "absent" for a key the document leaves out.  cpp_type is the name of a *)
(* scalar type, of one of the document's enums or of one of its structs.  *)
(* An element on the wire is: for a scalar, a value or "bad" (not         *)
(* convertible); for an enum, the string read; for a struct, "ok" (all    *)
(* its required members parse), "empty" (an empty object) or "broken" (a  *)
(* required member missing).  A field's wire content is Absent, one       *)
(* element (single) or a sequence of elements (array, array_front).       *)
(***************************************************************************)
EXTENDS Naturals, Sequences, SequencesExt

CONSTANTS
  EnumNames,     \* cpp_name of the document's enums
  StructNames,   \* cpp_name of the document's return_structs
  EnumMembers,   \* the enum's members in order: [name, values] with
                 \* values = <<api_value>> \o additional_api_values
  Documents,     \* the return_params lists considered
  Wires(_),      \* Wires(p): the wire contents considered for descriptor p
  Absent,        \* a key not in the response or not in the document
  NoResult       \* the result of a parse that failed

\* Absent and NoResult are model values: they compare unequal to every
\* string, sequence and record a wire or a result may hold.

Unset   == "unset"    \* a field the parser left alone
Default == "dflt"     \* the value given by default_value
StructValue == "S"    \* a struct the extractor filled

(***************************************************************************)
(* get_return_parameters: json_type defaults to single; default_value     *)
(* makes the field Optional(default_value), and "optional": true replaces *)
(* that by the bare Optional, whatever default was given.  A null default *)
(* is Optional(None), which is_optional_no_default treats as no default.  *)
(***************************************************************************)
ShapeOf(p) ==
  CASE p.json_type \in {Absent, "single"} -> "single"
    [] p.json_type = "array"              -> "array"
    [] p.json_type = "array_front"        -> "array_front"

PresenceOf(p) ==
  CASE p.optional = TRUE                         -> "optional"
    [] p.default_value = Absent                  -> "required"
    [] p.default_value = "null"                  -> "optional"
    [] OTHER                                     -> "default"

\* content_parse_branch: enum names are looked up before struct names.
KindOf(p) ==
  CASE p.cpp_type \in EnumNames   -> "enum"
    [] p.cpp_type \in StructNames -> "struct"
    [] OTHER                      -> "scalar"

(***************************************************************************)
(* The combinations the generator refuses by raising: an enum in an array *)
(* (create_content_enum_parse) and a struct as array front, which falls   *)
(* through the duplicated "dt is TArray" test to InvalidTType             *)
(* (create_content_struct_parse).  Such a document aborts the whole run,  *)
(* so no parser is ever generated for it.                                 *)
(***************************************************************************)
Generable(p) ==
  ~ \/ KindOf(p) = "enum" /\ ShapeOf(p) = "array"
    \/ KindOf(p) = "struct" /\ ShapeOf(p) = "array_front"

\* The wire contents of every field of a document, built field by field
\* (the contents of different fields need not be comparable).
WireTuples(desc) ==
  LET W[n \in 0..Len(desc)] ==
        IF n = 0 THEN {<<>>} ELSE {t \o <<x>> : t \in W[n - 1], x \in Wires(desc[n])}
  IN  W[Len(desc)]
=============================================================================
