---------------------------- MODULE ResponseParse ----------------------------
(***************************************************************************)
(* The response parser the generator emits for one document: the body of  *)
(* the content-parsing function as content_parse_branch lays it out (the  *)
(* default pre-seeding loop, then one fragment per return parameter in    *)
(* document order), and the struct extractors of                          *)
(* get_data_type_struct_extractor.  One action per fragment generator     *)
(* executes the C++ text that generator emits for field i.                *)
(*                                                                         *)
(* response->error_code is the flag err.  A top-level return_error sets   *)
(* it and leaves the function; "return;  // error set already" leaves it  *)
(* without touching it.  The boost/property-tree helpers the fragments    *)
(* call are not part of the repository; they are read as their names and  *)
(* the fragments' comments say: GetIfExists(pt, r, &x) is true and stores *)
(* x when r is present and converts, GetIfExistsArrayFront does the same  *)
(* with the first element of the array r, and get_child throws           *)
(* ptree_bad_path when r is absent.                                       *)
(***************************************************************************)
EXTENDS ResponseFields

VARIABLES desc, wire, i, out, err, pc

vars == <<desc, wire, i, out, err, pc>>

(***************************************************************************)
(* The if / else-if chain of create_content_enum_parse: one case per      *)
(* member and per value, members in document order, each member's         *)
(* api_value before its additional_api_values.  Decoding s picks the      *)
(* first case whose value is s.                                            *)
(***************************************************************************)
EnumCases ==
  FoldLeft(LAMBDA acc, m : acc \o [k \in DOMAIN m.values |-> <<m.values[k], m.name>>],
           <<>>, EnumMembers)

EnumMatch(s) ==
  LET k == SelectInSeq(EnumCases, LAMBDA c : c[1] = s)
  IN  IF k = 0 THEN Absent ELSE EnumCases[k][2]

\* GetIfExistsArrayFront reads the first element of the array.
FrontOf(w) == IF w = Absent \/ w = <<>> THEN Absent ELSE Head(w)

\* GetIfExists / GetValueIfExists on a scalar: present and convertible.
Converts(e) == e # Absent /\ e # "bad"

Required(p) == PresenceOf(p) = "required"

(***************************************************************************)
(* get_data_type_struct_extractor, on one element: an empty branch returns *)
(* false without an error ("Stop if branch is empty"); a required member  *)
(* missing runs the extractor's own return_error, which sets              *)
(* response->error_code and returns false; otherwise it returns true.     *)
(***************************************************************************)
ExtractOk(e)   == e = "ok"
ExtractErr(e)  == e = "broken"

\* Field i is done: move to the next one.
Continue(o) == /\ out' = o /\ i' = i + 1 /\ UNCHANGED <<err, pc>>

\* return_error at the top level of the parsing function.
ReturnError == /\ err' = TRUE /\ pc' = "done" /\ UNCHANGED <<out, i>>

Field == desc[i]
Wire  == wire[i]

Init ==
  /\ desc \in Documents
  /\ wire \in WireTuples(desc)
  /\ i = 1
  /\ out = [k \in DOMAIN desc |-> IF ShapeOf(desc[k]) = "array" THEN <<>> ELSE Unset]
  /\ err = FALSE
  /\ pc = "seed"

\* The first loop of content_parse_branch: "ob->n = default_value;" for
\* every parameter whose presence is Optional with a non-null default.
SeedDefaults ==
  /\ pc = "seed"
  /\ out' = [k \in DOMAIN desc |-> IF PresenceOf(desc[k]) = "default" THEN Default ELSE out[k]]
  /\ pc' = "parse"
  /\ UNCHANGED <<desc, wire, i, err>>

Parsing(kind, shapes) ==
  /\ pc = "parse" /\ i \in DOMAIN desc
  /\ KindOf(Field) = kind /\ ShapeOf(Field) \in shapes
  /\ UNCHANGED <<desc, wire>>

(***************************************************************************)
(* create_content_parse_single and create_content_parse_array_front: the  *)
(* required form fails on a missing or unconvertible value, the two       *)
(* optional forms store the value only when GetIfExists succeeds.         *)
(***************************************************************************)
ParseScalarSingle ==
  /\ Parsing("scalar", {"single", "array_front"})
  /\ LET e == IF ShapeOf(Field) = "single" THEN Wire ELSE FrontOf(Wire)
     IN  \/ Converts(e) /\ Continue([out EXCEPT ![i] = e])
         \/ ~Converts(e) /\ Required(Field) /\ ReturnError
         \/ ~Converts(e) /\ ~Required(Field) /\ Continue(out)

\* Mutant: an Optional array skips an unconvertible element ("continue")
\* instead of stopping at it ("break").
ParseScalarArraySkipping ==
  /\ Parsing("scalar", {"array"})
  /\ LET bad == SelectInSeq(Wire, LAMBDA e : ~Converts(e))
     IN  \/ Wire = Absent /\ Required(Field) /\ ReturnError
         \/ Wire = Absent /\ ~Required(Field) /\ Continue(out)
         \/ Wire = <<>> /\ Required(Field) /\ ReturnError
         \/ Wire # Absent /\ (Wire # <<>> \/ ~Required(Field))
            /\ IF bad # 0 /\ Required(Field) THEN ReturnError
               ELSE Continue([out EXCEPT ![i] = SelectSeq(Wire, Converts)])

(***************************************************************************)
(* create_content_parse_array: a missing array is an error when Required; *)
(* a Required empty array is an error; the loop pushes each converted     *)
(* element and, at the first element that does not convert, returns an    *)
(* error when Required and breaks when Optional.                          *)
(***************************************************************************)
ParseScalarArray ==
  /\ Parsing("scalar", {"array"})
  /\ LET bad == SelectInSeq(Wire, LAMBDA e : ~Converts(e))
         upto == IF bad = 0 THEN Wire ELSE SubSeq(Wire, 1, bad - 1)
     IN  \/ Wire = Absent /\ Required(Field) /\ ReturnError
         \/ Wire = Absent /\ ~Required(Field) /\ Continue(out)
         \/ Wire = <<>> /\ Required(Field) /\ ReturnError
         \/ Wire # Absent /\ (Wire # <<>> \/ ~Required(Field))
            /\ IF bad # 0 /\ Required(Field) THEN ReturnError
               ELSE Continue([out EXCEPT ![i] = upto])

\* Mutant: an unmatched Optional enum keeps the string it read.
ParseEnumStoresRaw ==
  /\ Parsing("enum", {"single", "array_front"})
  /\ LET s == IF ShapeOf(Field) = "single" THEN Wire ELSE FrontOf(Wire)
     IN  \/ s # Absent /\ EnumMatch(s) # Absent
            /\ Continue([out EXCEPT ![i] = EnumMatch(s)])
         \/ (s = Absent \/ EnumMatch(s) = Absent) /\ Required(Field) /\ ReturnError
         \/ s = Absent /\ ~Required(Field) /\ Continue(out)
         \/ s # Absent /\ EnumMatch(s) = Absent /\ ~Required(Field)
            /\ Continue([out EXCEPT ![i] = s])

(***************************************************************************)
(* create_content_enum_parse, TSingle and TArrayFront: with a value read, *)
(* the case chain assigns the first matching member; no match is          *)
(* "invalid value" when Required and nothing when Optional; no value is   *)
(* "no value" when Required and nothing when Optional.                    *)
(***************************************************************************)
ParseEnum ==
  /\ Parsing("enum", {"single", "array_front"})
  /\ LET s == IF ShapeOf(Field) = "single" THEN Wire ELSE FrontOf(Wire)
     IN  \/ s # Absent /\ EnumMatch(s) # Absent
            /\ Continue([out EXCEPT ![i] = EnumMatch(s)])
         \/ (s = Absent \/ EnumMatch(s) = Absent) /\ Required(Field) /\ ReturnError
         \/ (s = Absent \/ EnumMatch(s) = Absent) /\ ~Required(Field) /\ Continue(out)

(***************************************************************************)
(* create_content_struct_parse, TSingle: a missing branch is an error     *)
(* when Required.  The extractor runs on the branch; on true the value is *)
(* moved in, on false a Required field runs return_error, an Optional one *)
(* carries on, keeping whatever error the extractor itself recorded.      *)
(***************************************************************************)
ParseStructSingle ==
  /\ Parsing("struct", {"single"})
  /\ \/ Wire = Absent /\ Required(Field) /\ ReturnError
     \/ Wire = Absent /\ ~Required(Field) /\ Continue(out)
     \/ Wire # Absent /\ ExtractOk(Wire) /\ Continue([out EXCEPT ![i] = StructValue])
     \/ Wire # Absent /\ ~ExtractOk(Wire) /\ Required(Field) /\ ReturnError
     \/ Wire # Absent /\ ~ExtractOk(Wire) /\ ~Required(Field)
        /\ out' = out /\ i' = i + 1 /\ err' = (err \/ ExtractErr(Wire))
        /\ pc' = pc

(***************************************************************************)
(* create_content_struct_parse, TArray: a missing branch is an error when *)
(* Required.  Each element goes through the extractor; a success is       *)
(* pushed.  A failure ends the function with "return;" when Required     *)
(* (the error is whatever the extractor recorded) and is skipped when     *)
(* Optional, the loop going on with the next element.                     *)
(***************************************************************************)
ParseStructArray ==
  /\ Parsing("struct", {"array"})
  /\ \/ Wire = Absent /\ Required(Field) /\ ReturnError
     \/ Wire = Absent /\ ~Required(Field) /\ Continue(out)
     \/ Wire # Absent /\ Required(Field)
        /\ LET bad == SelectInSeq(Wire, LAMBDA e : ~ExtractOk(e))
               ok  == [k \in 1..(IF bad = 0 THEN Len(Wire) ELSE bad - 1) |-> StructValue]
           IN  IF bad = 0 THEN Continue([out EXCEPT ![i] = ok])
               ELSE /\ out' = [out EXCEPT ![i] = ok] /\ i' = i
                    /\ err' = (err \/ ExtractErr(Wire[bad])) /\ pc' = "done"
     \/ Wire # Absent /\ ~Required(Field)
        /\ out' = [out EXCEPT ![i] = [k \in 1..Len(SelectSeq(Wire, ExtractOk)) |-> StructValue]]
        /\ i' = i + 1
        /\ err' = (err \/ \E k \in DOMAIN Wire : ExtractErr(Wire[k]))
        /\ pc' = pc

\* Every fragment has run: the function falls off its end.
Finish ==
  /\ pc = "parse" /\ i = Len(desc) + 1
  /\ pc' = "done"
  /\ UNCHANGED <<desc, wire, i, out, err>>

Next ==
  \/ SeedDefaults
  \/ ParseScalarSingle
  \/ ParseScalarArray
  \/ ParseEnum
  \/ ParseStructSingle
  \/ ParseStructArray
  \/ Finish

Spec == Init /\ [][Next]_vars

-----------------------------------------------------------------------------
(***************************************************************************)
(* Properties.                                                             *)
(***************************************************************************)
Values == {Unset, Default, StructValue, "v", "bad"} \cup {m.name : m \in Range(EnumMembers)}

TypeOK ==
  /\ desc \in Documents
  /\ i \in 1..(Len(desc) + 1)
  /\ \A k \in DOMAIN desc :
       out[k] \in IF ShapeOf(desc[k]) = "array" THEN Seq(Values) ELSE Values
  /\ err \in BOOLEAN
  /\ pc \in {"seed", "parse", "done"}

(***************************************************************************)
(* The parser the generator emits implements the decode policy: when the  *)
(* parsing function returns, response->error_code is set exactly when     *)
(* the policy fails the parse, and otherwise every field holds what the   *)
(* policy decodes, for every shape, presence and kind of return           *)
(* parameter and every response content.                                  *)
(***************************************************************************)
Policy == INSTANCE DecodePolicy WITH
  status <- IF pc = "done" THEN (IF err THEN "error" ELSE "ok") ELSE "parsing",
  result <- IF pc = "done" /\ ~err THEN out ELSE NoResult

ImplementsDecodePolicy == Policy!Spec
=============================================================================
