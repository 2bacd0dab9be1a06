------------------------------ MODULE Validator ------------------------------
(***************************************************************************)
(* The schema validator: api_template_errors, the analysers it builds and *)
(* the recursive JsonAnalyser.run with its ErrorFormatter, run as a        *)
(* program with an explicit call stack.  A frame is one activation of run *)
(* on one JSON object; the duplicate_checker stack, the intro (locator)   *)
(* stack and the json_error_count_ stack are the shared state the         *)
(* activations push and pop.                                               *)
(*                                                                         *)
(* A JSON object is [vals, arrs]: vals maps the keys holding a scalar to  *)
(* its JSON literal (a string: "a", "true", "0", ...), arrs maps the keys  *)
(* holding an array to the sequence of its elements' object ids.  The     *)
(* analysers' dicts (fields, arrays) are iterated in the order given by   *)
(* sequences below.                                                        *)
(***************************************************************************)
EXTENDS Naturals, FiniteSets, Sequences, SequencesExt

CONSTANTS
  Objects,      \* object id -> [vals, arrs]
  Roots,        \* the documents: ids of top-level objects
  PrivateKeys,  \* keys for which is_private_field holds (they start with _)
  Absent

VARIABLES
  stack,      \* the activations of JsonAnalyser.run, innermost last
  dup,        \* duplicate_checker: a stack of key -> set of values seen
  intro,      \* ErrorFormatter.intro_
  cnt,        \* ErrorFormatter.json_error_count_
  cntStack,   \* ErrorFormatter.json_error_count_list_
  errors,     \* ErrorFormatter.errors_: [kind, loc, obj]
  root,       \* the document being validated
  pc

vars == <<stack, dup, intro, cnt, cntStack, errors, root, pc>>

(***************************************************************************)
(* The analysers (add_field / add_array calls), 1819-1935.                 *)
(***************************************************************************)
F(n, req, perm, isDup, isId) ==
  [name |-> n, required |-> req, permitted |-> perm, dup |-> isDup, id |-> isId]
A(n, req, child) == [name |-> n, required |-> req, child |-> child]
Opt(n) == F(n, FALSE, Absent, FALSE, FALSE)
Id(n)  == F(n, TRUE, Absent, TRUE, TRUE)

Analysers ==
  [top |-> [fields |-> <<F("api", TRUE, Absent, FALSE, FALSE), F("version", TRUE, Absent, FALSE, FALSE),
                         F("session_token", FALSE, {"true", "false"}, FALSE, FALSE),
                         F("delivery_method", FALSE, {"GET", "POST"}, FALSE, FALSE),
                         F("default_version", FALSE, {"true", "false"}, FALSE, FALSE)>>,
            arrays |-> <<A("enums", FALSE, "enum"), A("return_structs", FALSE, "struct"),
                         A("optional_input_params", FALSE, "input"),
                         A("return_params", FALSE, "return"), A("input_params", FALSE, "input"),
                         A("system_cpp_includes", FALSE, Absent),
                         A("system_hpp_includes", FALSE, Absent)>>],
   enum |-> [fields |-> <<Id("cpp_name")>>, arrays |-> <<A("members", TRUE, "member")>>],
   member |-> [fields |-> <<Id("cpp_name"), F("api_value", TRUE, Absent, TRUE, FALSE),
                            Opt("additional_api_values")>>, arrays |-> <<>>],
   input |-> [fields |-> <<Id("cpp_name"), F("cpp_type", TRUE, Absent, FALSE, FALSE),
                           F("api_path", TRUE, Absent, TRUE, FALSE),
                           F("http_method", FALSE, {"GET", "POST"}, FALSE, FALSE),
                           Opt("description")>>, arrays |-> <<>>],
   return |-> [fields |-> <<Id("cpp_name"), F("cpp_type", TRUE, Absent, FALSE, FALSE),
                            F("api_path", TRUE, Absent, TRUE, FALSE),
                            F("json_type", FALSE, {"single", "array", "array_front"}, FALSE, FALSE),
                            F("optional", FALSE, {"true"}, FALSE, FALSE),
                            Opt("default_value"), Opt("description")>>, arrays |-> <<>>],
   struct |-> [fields |-> <<Id("cpp_name")>>, arrays |-> <<A("members", TRUE, "return")>>]]

\* Python ==, as used by "in" on lists and on dict keys: True == 1, False == 0.
PyEq(a, b) == a = b \/ {a, b} = {"true", "1"} \/ {a, b} = {"false", "0"}
PyIn(v, S) == \E w \in S : PyEq(v, w)

Keys(o) == DOMAIN Objects[o].vals \cup DOMAIN Objects[o].arrs
Names(rules) == {r.name : r \in ToSet(rules)}

\* all_keys and required_keys of run.
Declared(an) == Names(Analysers[an].fields) \cup Names(Analysers[an].arrays)
Required(an) == {r.name : r \in {g \in ToSet(Analysers[an].fields) : g.required}}
                \cup {r.name : r \in {g \in ToSet(Analysers[an].arrays) : g.required}}

\* The locator the is_id fields give (the last one present wins).
IdOf(o, an, passed) ==
  FoldLeft(LAMBDA acc, f : IF f.id /\ f.name \in DOMAIN Objects[o].vals
                           THEN <<"id", Objects[o].vals[f.name]>> ELSE acc,
           passed, Analysers[an].fields)

(***************************************************************************)
(* The "Validate" loop over fields: a value outside permitted_values adds *)
(* two entries (the message and the acceptable values); a duplicate-      *)
(* forbidden value already in duplicate_checker[-1] adds one, otherwise   *)
(* it is recorded there.                                                   *)
(***************************************************************************)
FieldStep(o, acc, f) ==
    LET v == Objects[o].vals[f.name]
        seen == IF f.name \in DOMAIN acc.seen THEN acc.seen[f.name] ELSE {}
        permErr == IF f.permitted # Absent /\ ~PyIn(v, f.permitted)
                   THEN <<"permitted", "accepted_values">> ELSE <<>>
    IN  IF f.name \notin DOMAIN Objects[o].vals THEN acc
        ELSE IF ~f.dup THEN [acc EXCEPT !.errs = @ \o permErr]
        ELSE IF PyIn(v, seen) THEN [acc EXCEPT !.errs = @ \o permErr \o <<"duplicate">>]
        ELSE [errs |-> acc.errs \o permErr, seen |-> (f.name :> seen \cup {v}) @@ acc.seen]

Top == stack[Len(stack)]
TopScope == IF dup = <<>> THEN <<>> ELSE dup[Len(dup)]
Entry(k, loc, o) == [kind |-> k, loc |-> loc, obj |-> o]

Init ==
  /\ root \in Roots
  /\ stack = <<[obj |-> root, an |-> "top", ident |-> Absent, phase |-> "enter", ai |-> 0, ci |-> 0]>>
  /\ dup = <<>>
  /\ intro = <<>>
  /\ cnt = 0
  /\ cntStack = <<>>
  /\ errors = <<>>
  /\ pc = "run"

(***************************************************************************)
(* run, up to the child arrays: the identifier (push_intro when there is   *)
(* one), the missing required keys, the excess keys that are not private, *)
(* and the Validate loop; every ef.add counts in json_error_count_.        *)
(***************************************************************************)
Enter ==
  /\ pc = "run" /\ Top.phase = "enter"
  /\ LET o == Top.obj
         an == Top.an
         id == IdOf(o, an, Top.ident)
         loc == IF id # Absent THEN Append(intro, id) ELSE intro
         missing == Cardinality(Required(an) \ Keys(o))
         excess == Cardinality(Keys(o) \ (Declared(an) \cup PrivateKeys))
         res == FoldLeft(LAMBDA acc, f : FieldStep(o, acc, f), [errs |-> <<>>, seen |-> TopScope], Analysers[an].fields)
         kinds == [k \in 1..missing |-> "missing"] \o [k \in 1..excess |-> "unexpected"] \o res.errs
     IN  /\ intro' = loc
         /\ cntStack' = IF id # Absent THEN Append(cntStack, cnt) ELSE cntStack
         /\ cnt' = (IF id # Absent THEN 0 ELSE cnt) + Len(kinds)
         /\ errors' = errors \o [k \in DOMAIN kinds |-> Entry(kinds[k], loc, o)]
         /\ dup' = IF dup = <<>> THEN dup ELSE [dup EXCEPT ![Len(dup)] = res.seen]
         /\ stack' = [stack EXCEPT ![Len(stack)] =
                        [@ EXCEPT !.ident = id, !.phase = "arrays", !.ai = 1, !.ci = 0]]
  /\ UNCHANGED <<root, pc>>

\* The array the top frame's loop is at, and its elements (none when the
\* key is absent or the array has no analyser).
CurArray == Analysers[Top.an].arrays[Top.ai]
Children ==
  IF CurArray.name \in DOMAIN Objects[Top.obj].arrs /\ CurArray.child # Absent
  THEN Objects[Top.obj].arrs[CurArray.name] ELSE <<>>

InArrays == pc = "run" /\ Top.phase = "arrays" /\ Top.ai \in DOMAIN Analysers[Top.an].arrays

\* "child_id = child_id + 1; duplicate_checker.append({})"
ArrayOpen ==
  /\ InArrays /\ Top.ci = 0
  /\ dup' = Append(dup, <<>>)
  /\ stack' = [stack EXCEPT ![Len(stack)].ci = 1]
  /\ UNCHANGED <<intro, cnt, cntStack, errors, root, pc>>

(***************************************************************************)
(* The recursive call on the next element: it gets the positional         *)
(* identifier "'key' #child_id" when this object has no identifier, and   *)
(* None otherwise.                                                         *)
(***************************************************************************)
CallChild ==
  /\ InArrays /\ Top.ci \in DOMAIN Children
  /\ stack' = Append([stack EXCEPT ![Len(stack)].ci = @ + 1],
                     [obj |-> Children[Top.ci], an |-> CurArray.child,
                      ident |-> IF Top.ident = Absent THEN <<"pos", CurArray.name, Top.ai>> ELSE Absent,
                      phase |-> "enter", ai |-> 0, ci |-> 0])
  /\ UNCHANGED <<dup, intro, cnt, cntStack, errors, root, pc>>

\* Mutant: the array's duplicate scope is left on the stack.
ArrayCloseNoPop ==
  /\ InArrays /\ Top.ci >= 1 /\ Top.ci > Len(Children)
  /\ stack' = [stack EXCEPT ![Len(stack)].ai = @ + 1, ![Len(stack)].ci = 0]
  /\ UNCHANGED <<dup, intro, cnt, cntStack, errors, root, pc>>

\* "duplicate_checker.pop()" after the last element.
ArrayClose ==
  /\ InArrays /\ Top.ci >= 1 /\ Top.ci > Len(Children)
  /\ dup' = Front(dup)
  /\ stack' = [stack EXCEPT ![Len(stack)].ai = @ + 1, ![Len(stack)].ci = 0]
  /\ UNCHANGED <<intro, cnt, cntStack, errors, root, pc>>

\* Mutant: pop_intro leaves the locator on intro_.
ExitKeepsIntro ==
  /\ pc = "run" /\ Top.phase = "arrays" /\ Top.ai > Len(Analysers[Top.an].arrays)
  /\ IF Top.ident # Absent
     THEN /\ errors' = IF cnt > 0 THEN Append(errors, Entry("dump", intro, Top.obj)) ELSE errors
          /\ cnt' = Last(cntStack)
          /\ cntStack' = Front(cntStack)
          /\ UNCHANGED intro
     ELSE UNCHANGED <<intro, errors, cnt, cntStack>>
  /\ stack' = Front(stack)
  /\ pc' = IF Len(stack) = 1 THEN "done" ELSE pc
  /\ UNCHANGED <<dup, root>>

\* Mutant: pop_intro does not restore the caller's json_error_count_.
ExitKeepsCount ==
  /\ pc = "run" /\ Top.phase = "arrays" /\ Top.ai > Len(Analysers[Top.an].arrays)
  /\ IF Top.ident # Absent
     THEN /\ intro' = Front(intro)
          /\ errors' = IF cnt > 0 THEN Append(errors, Entry("dump", intro, Top.obj)) ELSE errors
          /\ cntStack' = Front(cntStack)
          /\ UNCHANGED cnt
     ELSE UNCHANGED <<intro, errors, cnt, cntStack>>
  /\ stack' = Front(stack)
  /\ pc' = IF Len(stack) = 1 THEN "done" ELSE pc
  /\ UNCHANGED <<dup, root>>

(***************************************************************************)
(* The end of run: pop_intro(json) when there is an identifier, which     *)
(* appends the object's JSON when errors were added since push_intro and  *)
(* restores the caller's count; then return to the caller.                *)
(***************************************************************************)
Exit ==
  /\ pc = "run" /\ Top.phase = "arrays" /\ Top.ai > Len(Analysers[Top.an].arrays)
  /\ IF Top.ident # Absent
     THEN /\ intro' = Front(intro)
          /\ errors' = IF cnt > 0 THEN Append(errors, Entry("dump", intro, Top.obj)) ELSE errors
          /\ cnt' = Last(cntStack)
          /\ cntStack' = Front(cntStack)
     ELSE UNCHANGED <<intro, errors, cnt, cntStack>>
  /\ stack' = Front(stack)
  /\ pc' = IF Len(stack) = 1 THEN "done" ELSE pc
  /\ UNCHANGED <<dup, root>>

Next == Enter \/ ArrayOpen \/ CallChild \/ ArrayClose \/ Exit

Spec == Init /\ [][Next]_vars


-----------------------------------------------------------------------------
(***************************************************************************)
(* The violations spec section 4.1 defines, counted: a missing required   *)
(* key, an undeclared key that is not private, a value outside the        *)
(* permitted literals (literals compared as JSON values: true is not 1),  *)
(* and an array element repeating the value of a duplicate-forbidden      *)
(* field of an earlier element of the same array; arrays recurse.         *)
(***************************************************************************)
SeqSum(s) == FoldLeft(+, 0, s)

OwnViolations(o, an) ==
  Cardinality(Required(an) \ Keys(o))
  + Cardinality(Keys(o) \ (Declared(an) \cup PrivateKeys))
  + Cardinality({k \in DOMAIN Analysers[an].fields :
                   LET f == Analysers[an].fields[k]
                   IN  f.name \in DOMAIN Objects[o].vals /\ f.permitted # Absent
                       /\ Objects[o].vals[f.name] \notin f.permitted})

Repeats(cs, an) ==
  LET Has(c, n) == n \in DOMAIN Objects[c].vals
  IN  SeqSum([k \in DOMAIN Analysers[an].fields |->
               LET f == Analysers[an].fields[k]
               IN  IF ~f.dup THEN 0
                   ELSE Cardinality({j \in DOMAIN cs :
                          Has(cs[j], f.name) /\ \E i \in 1..(j - 1) :
                            Has(cs[i], f.name)
                            /\ Objects[cs[i]].vals[f.name] = Objects[cs[j]].vals[f.name]})])

RECURSIVE Violations(_, _)
Violations(o, an) ==
  OwnViolations(o, an)
  + SeqSum([k \in DOMAIN Analysers[an].arrays |->
             LET a == Analysers[an].arrays[k]
                 cs == IF a.name \in DOMAIN Objects[o].arrs /\ a.child # Absent
                       THEN Objects[o].arrs[a.name] ELSE <<>>
             IN  IF cs = <<>> THEN 0 ELSE Repeats(cs, a.child) + SeqSum([j \in DOMAIN cs |-> Violations(cs[j], a.child)])])

\* The entries that report a violation, as against the "acceptable values"
\* line and the JSON dump that accompany some of them.
ViolationKinds == {"missing", "unexpected", "permitted", "duplicate"}
IsViolation(e) == e.kind \in ViolationKinds

TypeOK ==
  /\ root \in Roots
  /\ pc \in {"run", "done"}
  /\ \A k \in DOMAIN stack : stack[k].obj \in DOMAIN Objects /\ stack[k].an \in DOMAIN Analysers
  /\ cnt \in Nat
  /\ Len(cntStack) = Len(intro)
  /\ \A k \in DOMAIN errors : errors[k].kind \in ViolationKinds \cup {"accepted_values", "dump"}

(***************************************************************************)
(* Exhaustive reporting (spec sections 4.1 and 8): when api_template_errors*)
(* returns, it has reported one entry for each violation the document     *)
(* has, in every array at every depth, duplicates judged in the scope of  *)
(* their own array: the duplicate_checker stack pushed and popped around  *)
(* each array while the recursion into elements pushes its own scopes.   *)
(***************************************************************************)
ReportsEveryViolation ==
  pc = "done" => Len(SelectSeq(errors, IsViolation)) = Violations(root, "top")

(***************************************************************************)
(* ErrorFormatter's count stack: an identified object's JSON is appended  *)
(* after its errors exactly when some violation was reported under its    *)
(* own locator, i.e. by the object itself or by an element below it that  *)
(* has no locator of its own; errors of identified elements below it are  *)
(* counted in their own scope only (push_intro resets the count,          *)
(* pop_intro restores the caller's).                                       *)
(***************************************************************************)
DumpExactlyForOwnViolations ==
  pc = "done" =>
    /\ \A j \in DOMAIN errors : errors[j].kind = "dump" =>
         \E i \in 1..(j - 1) : IsViolation(errors[i]) /\ errors[i].loc = errors[j].loc
    /\ \A i \in DOMAIN errors : IsViolation(errors[i]) /\ errors[i].loc # <<>> =>
         \E j \in (i + 1)..Len(errors) : errors[j].kind = "dump" /\ errors[j].loc = errors[i].loc
=============================================================================
