---------------------------- MODULE RoutineText -----------------------------
(* Local routines and request routines: how their text is read, line by line *)
(* in a fixed order, how templates are filled in, how a local routine is     *)
(* written out.  Reading returns what became of it: "ok", "end" (the text    *)
(* ends before the routine does) or the error that is raised.                *)
EXTENDS HostLanguage

CONSTANTS
    Decimals,      \* the words that only float() can read
    ToInt          \* the integer that a word of Numerals stands for

ASSUME IntegersAreRead == DOMAIN ToInt = Numerals

\* A line "key: value, value, ..."; a value is a word, a sized name, a
\* template {n} or an arrow "id -> node".
KeyLine(key, values) == [line |-> "key", key |-> key, values |-> values]
NameLine(head, name) == [line |-> head, name |-> name]
BareLine(head) == [line |-> head]
CodeLine(templates) == [line |-> "netqasm", templates |-> templates]
Word(n) == IqoalaSingleton(n)
Template(n) == Written("template", <<n>>, None)
Arrow(id, node) == Written("arrow", <<id, node>>, None)

WordOf(v) == v.names[1]
IsTemplate(v) == v.kind = "template"
Values(line) == line.values
Wrong == "QoalaParseError"

------------------------------------------------------------------------------
(* What the values of a line may be.                                          *)

IsName(v) == v.kind = "singleton" /\ IsValidName(WordOf(v))
IsInteger(v) == v.kind = "singleton" /\ WordOf(v) \in Numerals
IsFloat(v) == v.kind = "singleton" /\ WordOf(v) \in Numerals \cup Decimals
IsGoodTemplate(v) == IsTemplate(v) /\ IsValidName(WordOf(v))
All(Is(_), vs) == \A i \in DOMAIN vs : Is(vs[i])
One(Is(_), vs) == Len(vs) = 1 /\ All(Is, vs)
AtMostOneName(vs) == vs = <<>> \/ One(IsName, vs)
OneOf(words, vs) == One(LAMBDA v : v.kind = "singleton" /\ WordOf(v) \in words, vs)

\* A returned variable: a name, or a vector whose size is an integer or a template.
IsReturned(v) ==
    \/ IsName(v)
    \/ v.kind = "vector" /\ IsValidName(WordOf(v)) /\ v.arg \in Numerals
    \/ v.kind = "templated" /\ IsValidName(WordOf(v)) /\ IsValidName(v.arg)

IsIntOrTemplate(v) == IsInteger(v) \/ IsGoodTemplate(v)
IsFloatOrTemplate(v) == IsFloat(v) \/ IsGoodTemplate(v)

EprRoles == {"create", "receive"}
EprTypes == {"create_keep", "measure_directly", "remote_state_prep"}
CallbackTypes == {"sequential", "wait_all"}

\* virt_ids: the kind of mapping, then one integer or template, or integers.
\* What is not of this form raises another error than the parser's.
FromStr(vs) ==
    IF \/ OneOf({"all", "increment"}, SubSeq(vs, 1, 1))
             /\ One(LAMBDA v : IsInteger(v) \/ IsTemplate(v), SubSeq(vs, 2, Len(vs)))
       \/ OneOf({"custom"}, SubSeq(vs, 1, 1))
             /\ Len(vs) > 1 /\ All(IsInteger, SubSeq(vs, 2, Len(vs)))
    THEN "ok" ELSE "ValueError"

------------------------------------------------------------------------------
(* The lines of each routine.                                                 *)

Judged(good) == IF good THEN "ok" ELSE Wrong
ParseName(line, head) == Judged(line.line = head /\ IsValidName(line.name))

SubrtKeys == <<"params", "returns", "uses", "keeps", "request">>
ParseSubrtMetaLine(key, vs) ==
    CASE key = "params" -> Judged(All(IsName, vs))
      [] key = "returns" -> Judged(All(IsReturned, vs))
      [] key \in {"uses", "keeps"} -> Judged(All(IsInteger, vs))
      [] key = "request" -> Judged(AtMostOneName(vs))

RequestKeys == <<"callback_type", "callback", "return_vars", "remote_id",
                 "epr_socket_id", "num_pairs", "virt_ids", "timeout", "fidelity",
                 "typ", "role">>
ParseRequestLine(key, vs) ==
    CASE key = "callback_type" -> Judged(vs = <<>> \/ OneOf(CallbackTypes, vs))
      [] key = "callback" -> Judged(AtMostOneName(vs))
      [] key = "return_vars" -> Judged(All(IsReturned, vs))
      [] key \in {"remote_id", "epr_socket_id", "num_pairs", "timeout"} ->
             Judged(One(IsIntOrTemplate, vs))
      [] key = "virt_ids" -> FromStr(vs)
      [] key = "fidelity" -> Judged(One(IsFloatOrTemplate, vs))
      [] key = "typ" -> Judged(OneOf(EprTypes, vs))
      [] key = "role" -> Judged(OneOf(EprRoles, vs))

\* The line at i of the text, whose values are parsed to the outcome when it is
\* the keyed line that is due there.
KeyedAt(lines, i, key, outcome) ==
    IF i > Len(lines) THEN "end"
    ELSE IF lines[i].line # "key" THEN Wrong
    ELSE IF lines[i].key # key THEN Wrong ELSE outcome

HeadAt(lines, i, head) ==
    IF i > Len(lines) THEN "end"
    ELSE IF lines[i].line # head THEN Wrong ELSE ParseName(lines[i], head)

BareAt(lines, i, head) ==
    IF i > Len(lines) THEN "end" ELSE Judged(lines[i].line = head)

\* The first thing that does not go well decides.
FirstFailure(outcomes) ==
    LET bad == {i \in DOMAIN outcomes : outcomes[i] # "ok"}
    IN  IF bad = {} THEN "ok" ELSE outcomes[Min(bad)]

------------------------------------------------------------------------------
(* Reading.                                                                   *)

\* Where the body of the routine at i ends, 0 if it does not.
BodyEnd(lines, i) ==
    LET ends == {j \in (i + 7)..Len(lines) : lines[j].line = "NETQASM_END"}
    IN  IF ends = {} THEN 0 ELSE Min(ends)

\* Fault: the end of the text inside a body is taken for the end of the section.
BodyOutcomeUnended(lines, i) == IF BodyEnd(lines, i) = 0 THEN "end" ELSE "ok"

\* The body must end, must be NetQASM, and takes what is declared in params.
BodyOutcome(lines, i) ==
    LET body == (i + 7)..(BodyEnd(lines, i) - 1)
        declared == {WordOf(v) : v \in Range(Values(lines[i + 1]))}
    IN  IF BodyEnd(lines, i) = 0 THEN Wrong
        ELSE IF \E j \in body : lines[j].line # "netqasm" THEN "NetQASMSyntaxError"
        ELSE Judged(\A j \in body : lines[j].templates \subseteq declared)

SubroutineOutcome(lines, i) ==
    LET head == FirstFailure(
            <<HeadAt(lines, i, "SUBROUTINE")>>
            \o [k \in DOMAIN SubrtKeys |->
                   KeyedAt(lines, i + k, SubrtKeys[k],
                           ParseSubrtMetaLine(SubrtKeys[k], Values(lines[i + k])))]
            \o <<BareAt(lines, i + 6, "NETQASM_START")>>)
    IN  IF head # "ok" THEN head ELSE BodyOutcome(lines, i)

LocalRoutine(lines, i) ==
    [name |-> lines[i].name, return_vars |-> Values(lines[i + 2]),
     uses |-> Values(lines[i + 3]), keeps |-> Values(lines[i + 4]),
     request |-> Values(lines[i + 5]),
     body |-> SubSeq(lines, i + 7, BodyEnd(lines, i) - 1)]

\* Fault: the reader does not move past the request.
RequestLengthUnread == 0

RequestLength == 12

\* A callback without a type of callback is refused as soon as it is read.
CallbackOutcome(lines, i) ==
    Judged(Values(lines[i + 2]) # <<>> => Values(lines[i + 1]) # <<>>)

RequestOutcome(lines, i) ==
    LET keyed == [k \in DOMAIN RequestKeys |->
                     KeyedAt(lines, i + k, RequestKeys[k],
                             ParseRequestLine(RequestKeys[k], Values(lines[i + k])))]
        callback == FirstFailure(SubSeq(keyed, 1, 2))
    IN  FirstFailure(<<HeadAt(lines, i, "REQUEST"), callback>>
                     \o (IF callback = "ok" THEN <<CallbackOutcome(lines, i)>> ELSE <<>>)
                     \o SubSeq(keyed, 3, Len(keyed)))

RequestRoutine(lines, i) ==
    LET Field(key) == Values(lines[i + CHOOSE k \in DOMAIN RequestKeys :
                                           RequestKeys[k] = key])
    IN  [name |-> lines[i].name,
         callback_type |-> IF Field("callback_type") = <<>> THEN "wait_all"
                           ELSE WordOf(Field("callback_type")[1]),
         callback |-> Field("callback"), return_vars |-> Field("return_vars"),
         values |-> [key \in {"remote_id", "epr_socket_id", "num_pairs", "timeout",
                              "fidelity"} |-> Field(key)[1]],
         virt_ids |-> Field("virt_ids"), typ |-> WordOf(Field("typ")[1]),
         role |-> WordOf(Field("role")[1])]

\* A dictionary in the order of insertion: a routine of the same name replaces.
Stored(dict, routine) ==
    IF \E i \in DOMAIN dict : dict[i].name = routine.name
    THEN [i \in DOMAIN dict |-> IF dict[i].name = routine.name THEN routine ELSE dict[i]]
    ELSE Append(dict, routine)

Names(dict) == {dict[i].name : i \in DOMAIN dict}

------------------------------------------------------------------------------
(* Writing out, and filling in.                                               *)

\* What is written of a local routine: not the request it belongs to.
LocalRoutineText(routine) ==
    LET arguments == UNION {line.templates : line \in Range(routine.body)}
    IN  <<NameLine("SUBROUTINE", routine.name),
          KeyLine("params", [i \in 1..Cardinality(arguments) |->
                                Word(SetToSeq(arguments)[i])]),
          KeyLine("returns", routine.return_vars),
          KeyLine("uses", routine.uses), KeyLine("keeps", routine.keeps),
          BareLine("NETQASM_START")>>
        \o routine.body \o <<BareLine("NETQASM_END")>>

\* The templates of a request routine that instantiate looks up.
TemplatesOf(routine) ==
    {WordOf(v) : v \in {u \in Range(routine.values) \cup Range(routine.virt_ids) :
                           IsTemplate(u)}}
    \cup {v.arg : v \in {u \in Range(routine.return_vars) : u.kind = "templated"}}

\* A value once the inputs of the program have been filled in.
Instantiated(v, inputs) == IF IsTemplate(v) THEN inputs[WordOf(v)] ELSE ToInt[WordOf(v)]

NumPairs(routine, inputs) == Instantiated(routine.values["num_pairs"], inputs)
VirtIdMappingType(routine) == WordOf(routine.virt_ids[1])

\* Fault: the qubit of the next pair is looked up.
HasIdOfNext(routine, index) ==
    VirtIdMappingType(routine) = "custom" => index + 3 <= Len(routine.virt_ids)

\* A list of virtual qubits may be too short for a pair.
HasId(routine, index) ==
    VirtIdMappingType(routine) = "custom" => index + 2 <= Len(routine.virt_ids)
==============================================================================
