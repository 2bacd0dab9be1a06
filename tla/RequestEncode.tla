---------------------------- MODULE RequestEncode ----------------------------
(***************************************************************************)
(* The request side of one generated class: how the generator decides the *)
(* HTTP method (parse_input_params, uses_session_token, delivery_method)  *)
(* and what the emitted C++ puts on the wire.  The Request is built with  *)
(* its required input_params (the constructor), the caller sets any of    *)
(* its optional_input_params (the emitted setters), and sending it runs   *)
(* the emitted GetRequestMethod, the URL-creation code (query parts) and  *)
(* GetPostData (body parts).                                               *)
(*                                                                         *)
(* A document is [session, delivery, inputs, optionals]: session is the   *)
(* JSON literal of "session_token" ("true", "false", ...) or Absent,      *)
(* delivery is "GET", "POST" or Absent, and a parameter is [name, path,   *)
(* method] with method "GET", "POST" or Absent (no "http_method").  Query *)
(* and body parts are std::map<std::string, std::string> keyed by         *)
(* api_path: functions from path to the parameter whose value is there.  *)
(***************************************************************************)
EXTENDS Naturals, Sequences, SequencesExt

CONSTANTS
  Documents,   \* the request-side halves of the documents considered
  Absent       \* a key the document leaves out

VARIABLES
  doc,      \* the document the class was generated from
  isSet,    \* cpp_names of the optional parameters the caller has set
  method,   \* the request method sent
  query,    \* the query parts sent: api_path -> cpp_name
  body,     \* the POST parts sent: api_path -> cpp_name
  pc

vars == <<doc, isSet, method, query, body, pc>>

\* default_http_input_method
DefaultHttpInputMethod == "POST"

(***************************************************************************)
(* parse_input_params: a parameter's http_method, else the document's     *)
(* delivery_method, else POST.                                             *)
(***************************************************************************)
HttpMethod(p, d) ==
  IF p.method # Absent THEN p.method
  ELSE IF d.delivery # Absent THEN d.delivery
  ELSE DefaultHttpInputMethod

\* uses_session_token: false only for a session_token that "is False".
UsesSessionToken(d) == d.session # "false"

\* Mutant: the document's delivery_method is taken as it is, not inferred.
DeliveryMethodRaw(d) == d.delivery

(***************************************************************************)
(* delivery_method: the document's delivery_method if given; else POST if *)
(* an input or optional input parameter resolves to POST; else POST when  *)
(* the session token is used; else GET.                                    *)
(***************************************************************************)
DeliveryMethod(d) ==
  IF d.delivery # Absent THEN d.delivery
  ELSE IF \E k \in DOMAIN d.inputs : HttpMethod(d.inputs[k], d) = "POST" THEN "POST"
  ELSE IF \E k \in DOMAIN d.optionals : HttpMethod(d.optionals[k], d) = "POST" THEN "POST"
  ELSE IF UsesSessionToken(d) THEN "POST"
  ELSE "GET"

\* Mutant: the optional parameters' assignments lose their "if (x_)" guard.
AssignmentsUnguarded(m) ==
  SelectSeq(doc.inputs, LAMBDA p : HttpMethod(p, doc) = m)
  \o SelectSeq(doc.optionals, LAMBDA p : HttpMethod(p, doc) = m)

(***************************************************************************)
(* The assignments 'parts["api_path"] = ...' the URL-creation and         *)
(* post-data generators emit for method m, in order: every input_param    *)
(* resolving to m, then every optional_input_param resolving to m, the    *)
(* latter guarded by "if (x_)", i.e. only when set.                        *)
(***************************************************************************)
Assignments(m) ==
  SelectSeq(doc.inputs, LAMBDA p : HttpMethod(p, doc) = m)
  \o SelectSeq(doc.optionals, LAMBDA p : p.name \in isSet /\ HttpMethod(p, doc) = m)

\* Running the assignments on an empty std::map: a later one overwrites.
Parts(as) == FoldLeft(LAMBDA acc, p : (p.path :> p.name) @@ acc, <<>>, as)

Init ==
  /\ doc \in Documents
  /\ isSet = {}
  /\ method = Absent
  /\ query = <<>>
  /\ body = <<>>
  /\ pc = "building"

\* Request::SetX (get_cpp_optional_setters): impl_->x_ = x.
SetOptional(n) ==
  /\ pc = "building"
  /\ isSet' = isSet \cup {n}
  /\ UNCHANGED <<doc, method, query, body, pc>>

(***************************************************************************)
(* The request is sent: GetRequestMethod (get_cpp_post_data_impl_decl),   *)
(* the query parts of get_url_creation, and GetPostData, which exists     *)
(* only when delivery_method is POST (get_cpp_post_data_impl_def returns  *)
(* nothing for GET).                                                       *)
(***************************************************************************)
Send ==
  /\ pc = "building"
  /\ method' = DeliveryMethod(doc)
  /\ query' = Parts(Assignments("GET"))
  /\ body' = IF DeliveryMethod(doc) = "POST" THEN Parts(Assignments("POST")) ELSE <<>>
  /\ pc' = "sent"
  /\ UNCHANGED <<doc, isSet>>

Next ==
  \/ \E k \in DOMAIN doc.optionals : SetOptional(doc.optionals[k].name)
  \/ Send

Spec == Init /\ [][Next]_vars

-----------------------------------------------------------------------------
TypeOK ==
  /\ doc \in Documents
  /\ isSet \subseteq {doc.optionals[k].name : k \in DOMAIN doc.optionals}
  /\ pc \in {"building", "sent"}
  /\ method \in IF pc = "sent" THEN {"GET", "POST"} ELSE {Absent}

(***************************************************************************)
(* The emitted request implements the encode policy (spec sections 4.3    *)
(* and 4.4): once sent, its method (GetRequestMethod) is the one the      *)
(* inference order prescribes, and its query and body parts together      *)
(* carry every required parameter and exactly the optional ones the       *)
(* caller set (get_url_creation, get_cpp_post_data_impl_def, setters).    *)
(***************************************************************************)
Policy == INSTANCE EncodePolicy WITH
  sent <- IF pc = "sent" THEN [method |-> method, params |-> Range(query) \cup Range(body)]
          ELSE Absent

ImplementsEncodePolicy == Policy!Spec
=============================================================================
