---------------------------- MODULE MC_Validator ----------------------------
(***************************************************************************)
(* Documents for the Validator runs.  An object is O(vals, arrs); keys are *)
(* JSON keys, values JSON literals: "true" and "false" are the booleans,  *)
(* "0" and "1" numbers, anything else a string.                            *)
(***************************************************************************)
EXTENDS Validator

O(vals, arrs) == [vals |-> vals, arrs |-> arrs]
Head2 == ("api" :> "/api/a/b") @@ ("version" :> "1")
Param(n, path) == O(("cpp_name" :> n) @@ ("cpp_type" :> "t") @@ ("api_path" :> path), <<>>)
Member(n, v) == O(("cpp_name" :> n) @@ ("api_value" :> v), <<>>)
Enum(n, ms) == O("cpp_name" :> n, "members" :> ms)

MCObjects ==
  \* valid: two inputs, an enum of two members, an optional input and a comment
  ("ok" :> O(Head2 @@ ("_comment" :> "c") @@ ("session_token" :> "false"),
             ("input_params" :> <<"p1", "p2">>) @@ ("enums" :> <<"e1">>)
             @@ ("optional_input_params" :> <<"p3">>)))
  @@ ("p1" :> Param("a", "x")) @@ ("p2" :> Param("b", "y")) @@ ("p3" :> Param("c", "x"))
  @@ ("e1" :> Enum("E", <<"m1", "m2">>))
  @@ ("m1" :> Member("A", "a")) @@ ("m2" :> Member("B", "b"))
  \* invalid: a repeated api_path, a repeated enum name after an enum with
  \* members, a member without api_value, a bad delivery_method, an excess key
  @@ ("bad" :> O(Head2 @@ ("delivery_method" :> "PUT") @@ ("extra" :> "z"),
                 ("input_params" :> <<"p1", "p4">>) @@ ("enums" :> <<"e1", "e2">>)))
  @@ ("p4" :> Param("d", "x"))
  @@ ("e2" :> Enum("E", <<"m3">>))
  @@ ("m3" :> O("cpp_name" :> "C", <<>>))
  \* invalid: api missing; an enum without members; a member repeating api_value
  @@ ("bad2" :> O("version" :> "1", "enums" :> <<"e3", "e4">>))
  @@ ("e3" :> O("cpp_name" :> "F", <<>>))
  @@ ("e4" :> Enum("G", <<"m1", "m4">>))
  @@ ("m4" :> Member("D", "a"))
  \* return params and a struct: a bad json_type, optional false, a struct
  \* member missing cpp_type, two structs' members sharing an api_path
  @@ ("ret" :> O(Head2, ("return_params" :> <<"r1", "r2">>) @@ ("return_structs" :> <<"s1", "s2">>)
                 @@ ("system_cpp_includes" :> <<"ok">>)))
  @@ ("r1" :> O(("cpp_name" :> "r") @@ ("cpp_type" :> "t") @@ ("api_path" :> "x")
                @@ ("json_type" :> "list"), <<>>))
  @@ ("r2" :> O(("cpp_name" :> "s") @@ ("cpp_type" :> "t") @@ ("api_path" :> "y")
                @@ ("optional" :> "false"), <<>>))
  @@ ("s1" :> O("cpp_name" :> "S", "members" :> <<"r1">>))
  @@ ("s2" :> O("cpp_name" :> "T", "members" :> <<"r1", "t1">>))
  @@ ("t1" :> O(("cpp_name" :> "u") @@ ("api_path" :> "x"), <<>>))
  \* session_token 0 and default_version 1
  @@ ("zero" :> O(Head2 @@ ("session_token" :> "0") @@ ("default_version" :> "1"), <<>>))

MCPrivateKeys == {"_comment"}

CheckedRoots == {"ok", "bad", "bad2", "ret"}
ZeroRoots == {"zero"}
=============================================================================
