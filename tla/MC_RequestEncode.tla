------------------------- MODULE MC_RequestEncode -------------------------
(***************************************************************************)
(* Documents for RequestEncode: every session_token ("true", "false" or   *)
(* left out), every delivery_method, up to two input_params and one       *)
(* optional_input_param, each with every http_method.                     *)
(***************************************************************************)
EXTENDS RequestEncode

Methods == {Absent, "GET", "POST"}

Param(n, x, m) == [name |-> n, path |-> x, method |-> m]

\* Input parameter lists with distinct api_paths.
InputLists ==
  {<<>>} \cup {<<Param("a", "pa", m)>> : m \in Methods}
         \cup {<<Param("a", "pa", m1), Param("b", "pb", m2)>> : m1, m2 \in Methods}

\* Optional parameter lists; path is "po", or "pa" to meet an input's.
OptionalLists(path) == {<<>>} \cup {<<Param("o", path, m)>> : m \in Methods}

Doc(s, dm, ins, opts) == [session |-> s, delivery |-> dm, inputs |-> ins, optionals |-> opts]

AllDocs(path) ==
  {Doc(s, dm, ins, opts) : s \in {Absent, "true", "false"}, dm \in Methods,
                           ins \in InputLists, opts \in OptionalLists(path)}

\* A document that names GET as its delivery_method and tags a parameter POST.
GetWithPostParam(d) ==
  d.delivery = "GET" /\ \E p \in ToSet(d.inputs) \cup ToSet(d.optionals) : p.method = "POST"

\* No session token, no delivery_method, and a parameter without http_method.
UntaggedWithoutSession(d) ==
  /\ d.session = "false" /\ d.delivery = Absent
  /\ \E p \in ToSet(d.inputs) \cup ToSet(d.optionals) : p.method = Absent

\* The documents on which the generated class follows spec 4.3 and 4.4.
AgreeingDocs == {d \in AllDocs("po") : ~GetWithPostParam(d) /\ ~UntaggedWithoutSession(d)}
GetPostDocs  == {d \in AllDocs("po") : GetWithPostParam(d)}
UntaggedDocs == {d \in AllDocs("po") : UntaggedWithoutSession(d)}
\* An input_param and an optional_input_param with the same api_path.
SharedPathDocs == {d \in AllDocs("pa") : ~GetWithPostParam(d) /\ d.optionals # <<>>}
\* The two ways a parameter gets lost.
LostParamDocs == GetPostDocs \cup SharedPathDocs
\* Every disagreement with the encode policy.
DisagreeingDocs == UntaggedDocs \cup LostParamDocs
=============================================================================
