----------------------------- MODULE Conditions -----------------------------
(***************************************************************************)
(* The pure part of a step: references to flow variables in its parameters *)
(* (engine.go) and the judgement of condition_check.  A value is tagged    *)
(* with its Go type; the operators below look at the tag where the code    *)
(* has a type switch, and at the text where it prints with %v.             *)
(***************************************************************************)
EXTENDS Integers, Sequences, SequencesExt, TLC

CONSTANTS
  Numbers,        \* the numbers a flow of this instance meets
  Spellings,      \* the texts of this instance that ParseFloat reads as a number
  Numeral,        \* the text %v prints for it as an int
  Printed         \* and as a float64: from a million on with an exponent, 1e+06

(* The two printed texts are texts of the number, and a text is read as    *)
(* one number.                                                             *)
ASSUME NumberAssumption ==
  /\ Numbers \subseteq Int
  /\ \A n \in Numbers : {Numeral[n], Printed[n]} \subseteq Spellings[n]
  /\ \A m, n \in Numbers : Spellings[m] \cap Spellings[n] # {} => m = n

Nil == [type |-> "nil"]

(* A number of a flow came through JSON and is a float64.                  *)
Num(n) == [type |-> "num", n |-> n]

(* Only the built-in deviceId is an int.                                   *)
GoInt(n) == [type |-> "int", n |-> n]

Str(s) == [type |-> "str", s |-> s]

Bool(b) == [type |-> "bool", b |-> b]

EmptyList == [type |-> "list"]

(* A map from names to values, of one entry at most where it is printed.   *)
Map(f) == [type |-> "map", fields |-> f]

TextOfScalar(v) == CASE v.type = "nil"  -> "<nil>"
                     [] v.type = "num"  -> Printed[v.n]
                     [] v.type = "int"  -> Numeral[v.n]
                     [] v.type = "str"  -> v.s
                     [] v.type = "bool" -> IF v.b THEN "true" ELSE "false"
                     [] OTHER           -> "[]"

(* fmt.Sprintf("%v", v)                                                    *)
Text(v) == IF v.type # "map" THEN TextOfScalar(v)
           ELSE IF DOMAIN v.fields = {} THEN "map[]"
           ELSE LET k == CHOOSE k \in DOMAIN v.fields : TRUE
                IN "map[" \o k \o ":" \o TextOfScalar(v.fields[k]) \o "]"

(***************************************************************************)
(* References to variables in parameters                                   *)
(***************************************************************************)
(* What a name stands for in a value: nothing, unless it is a map.         *)
Entry(v, name) == IF v.type = "map" THEN IF name \in DOMAIN v.fields THEN v.fields[name] ELSE Nil
                  ELSE Nil

(* A path is cut at its dots; the paths here are one or two names long,    *)
(* and a name holds no dot.                                                *)
getVarValue(path, vars) ==
  IF Len(path) = 1 THEN Entry(Map(vars), path[1]) ELSE Entry(Entry(Map(vars), path[1]), path[2])

(* A string is a sequence of parts: text, and references in braces.  A     *)
(* string that is one reference gives the value itself, another one text,  *)
(* in which references to nil are left standing.                           *)
Template(parts) == [type |-> "template", parts |-> parts]

Ref(path) == [type |-> "ref", path |-> path]

IsRef(part) == part.type = "ref"

(* A part as the flow has it.                                              *)
Raw(part) == IF ~IsRef(part) THEN part.s
             ELSE "{{" \o part.path[1] \o (IF Len(part.path) = 1 THEN "" ELSE "." \o part.path[2]) \o "}}"

Joined(texts) == Str(FoldLeft(LAMBDA text, next : text \o next, "", texts))

replaceRefs(parts, vars) ==
  LET Of(part) == IF ~IsRef(part) \/ getVarValue(part.path, vars) = Nil THEN Raw(part)
                  ELSE Text(getVarValue(part.path, vars))
  IN Joined([i \in DOMAIN parts |-> Of(parts[i])])

resolveString(parts, vars) ==
  IF Len(parts) = 1 /\ IsRef(parts[1]) THEN getVarValue(parts[1].path, vars)
  ELSE replaceRefs(parts, vars)

(* deviceId overrides a flow variable of that name.                        *)
resolveParams(params, vars, deviceID) ==
  LET all == [x \in DOMAIN vars \cup {"deviceId"} |->
                IF x = "deviceId" THEN GoInt(deviceID) ELSE vars[x]]
  IN [k \in DOMAIN params |->
        IF params[k].type = "template" THEN resolveString(params[k].parts, all) ELSE params[k]]

(* The single-step handler hands the parameters on as they are.            *)
asWritten(params) ==
  [k \in DOMAIN params |->
     IF params[k].type = "template" THEN Joined([i \in DOMAIN params[k].parts |-> Raw(params[k].parts[i])])
     ELSE params[k]]

(***************************************************************************)
(* condition_check                                                         *)
(***************************************************************************)
compareEqual(a, b) == (a = Nil /\ b = Nil) \/ (a # Nil /\ b # Nil /\ Text(a) = Text(b))

(* Mutant of toFloat64: texts are not parsed.                              *)
toFloat64NoText(v) == IF v.type \in {"num", "int"} THEN v.n ELSE 0

(* toFloat64: a text that is no number, and any other type, counts as 0.   *)
toFloat64(v) == CASE v.type \in {"num", "int"} -> v.n
                  [] v.type = "str" -> IF \E n \in Numbers : v.s \in Spellings[n]
                                       THEN CHOOSE n \in Numbers : v.s \in Spellings[n] ELSE 0
                  [] OTHER          -> 0

compareNumeric(a, b) == IF toFloat64(a) < toFloat64(b) THEN -1
                        ELSE IF toFloat64(a) > toFloat64(b) THEN 1 ELSE 0

stringContains(a, b) ==
  \E i \in 0..(Len(Text(a)) - Len(Text(b))) : SubSeq(Text(a), i + 1, i + Len(Text(b))) = Text(b)

isEmpty(v) == v \in {Nil, Str(""), EmptyList} \/ (v.type = "map" /\ DOMAIN v.fields = {})

isTruthy(v) == CASE v.type = "nil"  -> FALSE
                 [] v.type = "bool" -> v.b
                 [] v.type = "str"  -> v.s \notin {"", "false", "0"}
                 [] v.type \in {"num", "int"} -> v.n # 0
                 [] OTHER           -> TRUE

Operators == {"eq", "ne", "gt", "lt", "gte", "lte", "contains", "not_contains",
              "empty", "not_empty", "true", "false"}

evaluateCondition(a, op, b) ==
  CASE op = "eq"           -> compareEqual(a, b)
    [] op = "ne"           -> ~compareEqual(a, b)
    [] op = "gt"           -> compareNumeric(a, b) > 0
    [] op = "lt"           -> compareNumeric(a, b) < 0
    [] op = "gte"          -> compareNumeric(a, b) >= 0
    [] op = "lte"          -> compareNumeric(a, b) <= 0
    [] op = "contains"     -> stringContains(a, b)
    [] op = "not_contains" -> ~stringContains(a, b)
    [] op = "empty"        -> isEmpty(a)
    [] op = "not_empty"    -> ~isEmpty(a)
    [] op = "true"         -> isTruthy(a)
    [] op = "false"        -> ~isTruthy(a)
    [] OTHER               -> FALSE

(* What the flow does next: only stop_error fails the step, and an action  *)
(* the code does not know continues.                                       *)
Actions == {"continue", "skip_next", "jump_to_step", "stop_success", "stop_error", "other"}

executeAction(action) == [ok |-> action # "stop_error",
                          signal |-> IF action \in {"skip_next", "jump_to_step", "stop_success"}
                                     THEN action ELSE "continue"]
=============================================================================
