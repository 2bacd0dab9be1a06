---------------------------- MODULE DecodePolicy ----------------------------
(***************************************************************************)
(* What parsing a response promises (spec 4.4, decode policy by shape and *)
(* presence), as one atomic step: a document with return_params desc      *)
(* meets the response wire and the parse either fails with a content      *)
(* error or yields one value per field.                                   *)
(*                                                                         *)
(*   Single, Required:          absent or unparseable fails the parse     *)
(*   Single, Optional:          absent leaves the field unset              *)
(*   Single, Optional(v):       pre-seeded v, overwritten if present       *)
(*   List, Required:            absent or empty fails; a failing element  *)
(*                              fails the field                            *)
(*   List, Optional:            absent or empty gives the empty list; a   *)
(*                              failing element stops accumulation         *)
(*   FirstOfList:               the first element, by the Single rules     *)
(*   Enum: primary value then aliases, first match wins; unmatched is     *)
(*   unparseable.  Struct: the nested extractor; its failure is propagated *)
(*   when Required and is absence when Optional.                           *)
(***************************************************************************)
EXTENDS ResponseFields

VARIABLES desc, wire, status, result

(***************************************************************************)
(* The member a string decodes to: the member whose primary value it is,  *)
(* else the first member listing it as an alias.  A member's values are   *)
(* its primary value followed by its aliases, which are decode-only       *)
(* synonyms of that member (spec section 3).                               *)
(***************************************************************************)
FirstOf(S) == CHOOSE i \in S : \A k \in S : i <= k

MemberOf(s) ==
  LET primary == {i \in DOMAIN EnumMembers : EnumMembers[i].values[1] = s}
      alias   == {i \in DOMAIN EnumMembers :
                    \E j \in 2 .. Len(EnumMembers[i].values) : EnumMembers[i].values[j] = s}
      hits    == IF primary # {} THEN primary ELSE alias
  IN  IF hits = {} THEN Absent ELSE EnumMembers[FirstOf(hits)].name

ElementOk(p, e) ==
  CASE KindOf(p) = "scalar" -> e # "bad"
    [] KindOf(p) = "enum"   -> MemberOf(e) # Absent
    [] KindOf(p) = "struct" -> e = "ok"

ElementValue(p, e) ==
  CASE KindOf(p) = "scalar" -> e
    [] KindOf(p) = "enum"   -> MemberOf(e)
    [] KindOf(p) = "struct" -> StructValue

\* The value of a field the response does not fill.
NotFilled(p) == IF PresenceOf(p) = "default" THEN Default ELSE Unset

DecodeSingle(p, w) ==
  IF w # Absent /\ ElementOk(p, w)
  THEN [fails |-> FALSE, val |-> ElementValue(p, w)]
  ELSE [fails |-> PresenceOf(p) = "required", val |-> NotFilled(p)]

DecodeList(p, w) ==
  IF w = Absent \/ w = <<>>
  THEN [fails |-> PresenceOf(p) = "required", val |-> <<>>]
  ELSE LET bad  == {i \in DOMAIN w : ~ElementOk(p, w[i])}
           stop == IF bad = {} THEN Len(w) + 1 ELSE CHOOSE i \in bad : \A k \in bad : i <= k
       IN  [fails |-> PresenceOf(p) = "required" /\ bad # {},
            val   |-> [i \in 1..(stop - 1) |-> ElementValue(p, w[i])]]

Decode(p, w) ==
  CASE ShapeOf(p) = "single"      -> DecodeSingle(p, w)
    [] ShapeOf(p) = "array"       -> DecodeList(p, w)
    [] ShapeOf(p) = "array_front" ->
         DecodeSingle(p, IF w = Absent \/ w = <<>> THEN Absent ELSE Head(w))

ParseFails == \E i \in DOMAIN desc : Decode(desc[i], wire[i]).fails

Init ==
  /\ desc \in Documents
  /\ wire \in WireTuples(desc)
  /\ status = "parsing"
  /\ result = NoResult

ParseResponse ==
  /\ status = "parsing"
  /\ status' = IF ParseFails THEN "error" ELSE "ok"
  /\ result' = IF ParseFails THEN NoResult
               ELSE [i \in DOMAIN desc |-> Decode(desc[i], wire[i]).val]
  /\ UNCHANGED <<desc, wire>>

Spec == Init /\ [][ParseResponse]_<<desc, wire, status, result>>
=============================================================================
