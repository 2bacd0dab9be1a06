---------------------------- MODULE EncodePolicy ----------------------------
(***************************************************************************)
(* What spec sections 4.3 and 4.4 promise of a request: the caller sets    *)
(* some optional parameters, and sending it in one step puts on the wire   *)
(* every required parameter and exactly the optional ones set, with the   *)
(* method the delivery inference prescribes.  No code; this is the        *)
(* abstract specification RequestEncode is checked against.               *)
(***************************************************************************)
EXTENDS Naturals, Sequences, SequencesExt

CONSTANTS Documents, Absent

VARIABLES
  doc,     \* the document of the request class
  isSet,   \* the optional parameters set so far
  sent     \* Absent, or the request sent: [method, params]

(***************************************************************************)
(* Section 4.3: the document's delivery method if given; otherwise POST   *)
(* if some parameter is explicitly POST, else POST when the session token *)
(* is used (the default), else GET.  A parameter without a method         *)
(* inherits the document's.                                                *)
(***************************************************************************)
ExplicitlyPost(d) ==
  \E p \in ToSet(d.inputs) \cup ToSet(d.optionals) : p.method = "POST"

PolicyMethod(d) ==
  CASE d.delivery # Absent -> d.delivery
    [] ExplicitlyPost(d)   -> "POST"
    [] d.session # "false" -> "POST"
    [] OTHER               -> "GET"

Names(ps) == {ps[k].name : k \in DOMAIN ps}

Init ==
  /\ doc \in Documents
  /\ isSet = {}
  /\ sent = Absent

SetOptional(n) ==
  /\ sent = Absent
  /\ isSet' = isSet \cup {n}
  /\ UNCHANGED <<doc, sent>>

\* Section 4.4: required parameters always, optional ones only if set.
Send ==
  /\ sent = Absent
  /\ sent' = [method |-> PolicyMethod(doc), params |-> Names(doc.inputs) \cup isSet]
  /\ UNCHANGED <<doc, isSet>>

Next == (\E n \in Names(doc.optionals) : SetOptional(n)) \/ Send

Spec == Init /\ [][Next]_<<doc, isSet, sent>>
=============================================================================
