----------------------------- MODULE PathNaming -----------------------------
(***************************************************************************)
(* Path & naming derivation of gen_api_template.py: how the "api" path and *)
(* the "version" of a document become wire segments, identifier-safe      *)
(* segments, the domain key and the output file paths (create_templates).  *)
(*                                                                         *)
(* Strings are kept as strings; a path is given already split on "/"       *)
(* (str.split keeps empty pieces, so "/api/a" is <<"", "api", "a">>) and a *)
(* version already split on "." (str(version).split('.')).  Whether a      *)
(* segment starts with a digit (part[0].isdigit()) is the CONSTANT set     *)
(* NumericSegments, since TLC cannot index a string.                       *)
(***************************************************************************)
EXTENDS Sequences, SequencesExt

CONSTANT NumericSegments

\* The two wire keywords that keep their name on the wire but get an
\* identifier-safe alias (get_path_parts, the "delete" and "register" arms).
ReservedWords == {"delete", "register"}

IsNumeric(part) == part \in NumericSegments

(***************************************************************************)
(* One iteration of the loop of get_path_parts: the accumulator holds      *)
(* path_parts, path_parts_cpp_safe and last_part.  last_part is updated    *)
(* for every piece, empty ones included, so the alias of "delete" is built *)
(* from the raw piece before it, whatever it was.                          *)
(***************************************************************************)
PathStep(acc, part) ==
  [parts |-> IF part = "" THEN acc.parts ELSE Append(acc.parts, part),
   safe  |-> CASE part = ""              -> acc.safe
               [] IsNumeric(part)        -> acc.safe
               [] part \in ReservedWords -> Append(acc.safe, acc.last \o "_" \o part)
               [] OTHER                  -> Append(acc.safe, part),
   last  |-> part]

(***************************************************************************)
(* get_path_parts(path).  It returns None when parts is empty (IsNone).   *)
(* The trailing deletions of empty first/last elements can never fire     *)
(* (empty pieces are never appended) and leave the result as it is.       *)
(***************************************************************************)
GetPathParts(raw) ==
  LET r == FoldLeft(PathStep, [parts |-> <<>>, safe |-> <<>>, last |-> ""], raw)
  IN  [parts |-> r.parts, safe |-> r.safe]

IsNone(pp) == pp.parts = <<>>

\* '/'-free join of a sequence of strings with a separator.
JoinWith(s, sep) ==
  IF s = <<>> THEN "" ELSE FoldLeft(LAMBDA a, b : a \o sep \o b, Head(s), Tail(s))

\* get_version_string: 'v' + str(version).replace('.', '_').
GetVersionString(rawVersion) == "v" \o JoinWith(rawVersion, "_")

(***************************************************************************)
(* The layout computed at the top of create_templates.  A file path is the *)
(* triple <<directory segments, base name, extension>>; two triples are    *)
(* equal exactly when the joined path strings are, since no segment holds *)
(* a "/".  relative_path drops the first identifier-safe segment, the file *)
(* name is the version string, and the domain is relative_path itself.     *)
(* Malformed(raw) is a path on which create_templates raises: None from    *)
(* get_path_parts (TypeError on unpacking) or no identifier-safe segment   *)
(* (IndexError on path_parts_cpp_safe[-1]).                                *)
(***************************************************************************)
Malformed(raw) ==
  LET pp == GetPathParts(raw) IN IsNone(pp) \/ pp.safe = <<>>

Safe(raw)   == GetPathParts(raw).safe
Domain(raw) == Tail(Safe(raw))

CppPath(raw, rawVersion) == <<Domain(raw), GetVersionString(rawVersion), "cpp">>
HppPath(raw, rawVersion) == <<Domain(raw), GetVersionString(rawVersion), "hpp">>

\* create_common_headers is called with domain + '.hpp' under the destination.
CommonHeaderPath(dom) ==
  IF dom = <<>> THEN <<<<>>, "", "hpp">> ELSE <<Front(dom), Last(dom), "hpp">>

\* generate_cmake_include target 'GeneratedList.txt'.
ManifestPath == <<<<>>, "GeneratedList", "txt">>
=============================================================================
