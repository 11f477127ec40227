---------------------------- MODULE ProgramText -----------------------------
(* A program text becomes a program: it is split into sections, and four     *)
(* parsers read them with a line cursor each.  A program that was accepted   *)
(* is written out and read again, and its requests are started.              *)
EXTENDS RoutineText

CONSTANTS
    Texts,         \* the texts that may be given to the parser
    Inputs         \* what the inputs of the program give its templates

VARIABLES
    text,          \* the lines given
    section,       \* the lines of each section, once split
    phase,         \* the parser that is at work
    cursor,        \* the line it reads next
    vectors,       \* the vectors defined so far: name -> size
    program,       \* what has been parsed
    outcome,       \* "none", "ok" or the exception raised
    first,         \* the program read from the given text, once that is written out
    started        \* the request that was started, and what came of it

vars == <<text, section, phase, cursor, vectors, program, outcome, first, started>>

EmptyMeta == [name |-> None, parameters |-> <<>>, csockets |-> {}, epr_sockets |-> {}]
Nothing == [meta |-> EmptyMeta, blocks |-> <<>>, subroutines |-> <<>>, requests |-> <<>>]
Sections == {"meta", "host", "subroutines", "requests"}
Unsplit == [s \in Sections |-> <<>>]
NotStarted == [name |-> None, outcome |-> "none"]

Init ==
    /\ text \in Texts
    /\ section = Unsplit /\ phase = "split" /\ cursor = 1
    /\ vectors = <<>> /\ program = Nothing /\ outcome = "none"
    /\ first = Nothing /\ started = NotStarted

Raise(error) ==
    /\ outcome' = error /\ phase' = "done"
    /\ UNCHANGED <<text, section, cursor, vectors, program, first, started>>

StartReading(next, line) == phase' = next /\ cursor' = line

------------------------------------------------------------------------------
(* Sections.                                                                  *)

FirstLine(head) == SelectInSeq(text, LAMBDA l : l.line = head)

\* Sections by the first line with a keyword: the order of the sections in the
\* text is taken for granted.
SplitText ==
    LET last == FirstLine("META_END")
        subrt == FirstLine("SUBROUTINE")
        req == FirstLine("REQUEST")
        end == Len(text)
        hostEnd == IF subrt # 0 THEN subrt - 1 ELSE IF req # 0 THEN req - 1 ELSE end
    IN  [meta |-> SubSeq(text, 1, last), host |-> SubSeq(text, last + 1, hostEnd),
         subroutines |-> IF subrt = 0 THEN <<>>
                         ELSE SubSeq(text, subrt, IF req = 0 THEN end ELSE req - 1),
         requests |-> IF req = 0 THEN <<>> ELSE SubSeq(text, req, end)]

Split ==
    /\ phase = "split"
    /\ IF FirstLine("META_END") = 0 THEN Raise("UnboundLocalError")
       ELSE /\ section' = SplitText
            /\ StartReading("host", 0)
            /\ UNCHANGED <<text, vectors, program, outcome, first, started>>

------------------------------------------------------------------------------
(* Host code.                                                                 *)

Host == section["host"]
ReadingHost == phase = "host" /\ cursor <= Len(Host)

\* Blocks begin at their headers; what precedes the first header is skipped.
GetBlockTexts ==
    /\ phase = "host" /\ cursor = 0
    /\ LET header == SelectInSeq(Host, LAMBDA l : l.line = "^")
       IN  IF header = 0 THEN Raise(Wrong)
           ELSE /\ StartReading("host", header)
                /\ UNCHANGED <<text, section, vectors, program, outcome, first, started>>

BlockTypes == {"CL", "CC", "QL", "QC"}

\* The annotations are split at commas before the list of deadlines is looked
\* at: of a list of several, the first piece has no closing bracket.
DeadlinesOutcome(header) ==
    CASE header.style = "none" -> "ok"
      [] header.style = "dict" -> Wrong
      [] Len(header.deadlines) > 1 -> "AssertionError"
      [] Len(header.deadlines) = 0 -> "ValueError"
      [] OTHER -> IF header.deadlines[1][2] \in Numerals THEN "ok" ELSE "ValueError"

HeaderOutcome(header) ==
    FirstFailure(<<Judged(header.style # "dict" /\ IsValidName(header.name)),
                   Judged(header.typ \in BlockTypes), DeadlinesOutcome(header)>>)

BasicBlock(header) ==
    [name |-> header.name, typ |-> header.typ, deadlines |-> header.deadlines,
     instrs |-> <<>>]

ParseBlockHeader ==
    /\ ReadingHost /\ cursor > 0 /\ Host[cursor].line = "^"
    /\ IF HeaderOutcome(Host[cursor]) # "ok" THEN Raise(HeaderOutcome(Host[cursor]))
       ELSE /\ program' = [program EXCEPT !.blocks = Append(@, BasicBlock(Host[cursor]))]
            /\ cursor' = cursor + 1
            /\ UNCHANGED <<text, section, phase, vectors, outcome, first, started>>

\* Can this text be read as a variable, the vectors being known?
VarParses(v, isResult, known) ==
    CASE v.kind = "none" -> isResult
      [] v.kind = "tuple" ->
             (v.arg = ";" \/ Len(v.names) < 2) /\ \A i \in DOMAIN v.names : IsValidName(v.names[i])
      [] v.kind = "vector" ->
             isResult /\ IsValidName(WordOf(v)) /\ (v.arg \in Numerals \/ IsValidName(v.arg))
      [] v.kind = "element" -> WordOf(v) \in DOMAIN known /\ v.arg \in Numerals
      [] v.kind = "singleton" -> IsValidName(WordOf(v))
      [] OTHER -> FALSE

\* Fault: the vectors defined above are not looked up.
ParseVarAsWritten(v, known) == IF v.kind = "tuple" THEN IqoalaTuple(v.names) ELSE v

\* The variable it is: a name that has been defined as a vector is that vector.
ParseVar(v, known) ==
    CASE v.kind = "singleton" /\ WordOf(v) \in DOMAIN known ->
             IqoalaVector(WordOf(v), known[WordOf(v)])
      [] v.kind = "tuple" -> IqoalaTuple(v.names)
      [] OTHER -> v

\* The result is read, and defines its vector, before the arguments are read.
Defining(result) ==
    IF result.kind = "vector" THEN (WordOf(result) :> result.arg) @@ vectors ELSE vectors

InstrResult(line) == ParseVar(line.result, vectors)
InstrArgs(line) ==
    [i \in DOMAIN line.args |-> ParseVar(line.args[i], Defining(InstrResult(line)))]

InstrOutcome(line) ==
    IF line.line # "instr" THEN Wrong
    ELSE IF ~ VarParses(line.result, TRUE, vectors) THEN Wrong
    ELSE IF \E i \in DOMAIN line.args :
                ~ VarParses(line.args[i], FALSE, Defining(InstrResult(line))) THEN Wrong
    ELSE IF line.op \notin DOMAIN LHR_OP_NAMES THEN "KeyError"
    ELSE IF Accepts(line.op, InstrResult(line), InstrArgs(line), line.attr) THEN "ok"
    ELSE "HostLanguageSyntaxError"

ParseLhr ==
    /\ ReadingHost /\ cursor > 0 /\ Host[cursor].line # "^"
    /\ LET line == Host[cursor]
           instr == ClassicalIqoalaOp(line.op, InstrResult(line), InstrArgs(line), line.attr)
       IN  IF InstrOutcome(line) # "ok" THEN Raise(InstrOutcome(line))
           ELSE /\ program' = [program EXCEPT !.blocks[Len(program.blocks)].instrs =
                                   Append(@, instr)]
                /\ vectors' = Defining(InstrResult(line))
                /\ cursor' = cursor + 1
                /\ UNCHANGED <<text, section, phase, outcome, first, started>>

HostDone ==
    /\ phase = "host" /\ cursor > Len(Host)
    /\ StartReading("subroutines", 1)
    /\ UNCHANGED <<text, section, vectors, program, outcome, first, started>>

------------------------------------------------------------------------------
(* Routines.  Both parsers read routines until the text ends; where it ends   *)
(* inside the fixed lines of a routine, that routine is dropped.              *)

Subroutines == section["subroutines"]
Requests == section["requests"]

ParseSubroutine ==
    /\ phase = "subroutines"
    /\ LET result == SubroutineOutcome(Subroutines, cursor)
       IN  CASE result = "ok" ->
                  /\ program' = [program EXCEPT !.subroutines =
                                     Stored(@, LocalRoutine(Subroutines, cursor))]
                  /\ cursor' = BodyEnd(Subroutines, cursor) + 1
                  /\ UNCHANGED <<text, section, phase, vectors, outcome, first, started>>
             [] result = "end" ->
                  /\ StartReading("requests", 1)
                  /\ UNCHANGED <<text, section, vectors, program, outcome, first, started>>
             [] OTHER -> Raise(result)

ParseRequest ==
    /\ phase = "requests"
    /\ LET result == RequestOutcome(Requests, cursor)
       IN  CASE result = "ok" ->
                  /\ program' = [program EXCEPT !.requests =
                                     Stored(@, RequestRoutine(Requests, cursor))]
                  /\ cursor' = cursor + RequestLength
                  /\ UNCHANGED <<text, section, phase, vectors, outcome, first, started>>
             [] result = "end" ->
                  /\ StartReading("meta", 1)
                  /\ UNCHANGED <<text, section, vectors, program, outcome, first, started>>
             [] OTHER -> Raise(result)

------------------------------------------------------------------------------
(* Meta data, and the whole.                                                  *)

MetaKeys == <<"name", "parameters", "csockets", "epr_sockets">>
IsArrow(v) == v.kind = "arrow" /\ v.names[1] \in Numerals /\ IsValidName(v.names[2])
ParseMetaLine(key, vs) ==
    CASE key = "name" -> Judged(One(IsName, vs))
      [] key = "parameters" -> Judged(All(IsName, vs))
      [] key \in {"csockets", "epr_sockets"} -> Judged(All(IsArrow, vs))

\* Here the end of the text is an error like the others.
MetaOutcome(lines) ==
    Judged(FirstFailure(
        <<BareAt(lines, 1, "META_START")>>
        \o [k \in DOMAIN MetaKeys |->
               KeyedAt(lines, 1 + k, MetaKeys[k], ParseMetaLine(MetaKeys[k], Values(lines[1 + k])))]
        \o <<BareAt(lines, 6, "META_END")>>) = "ok")

\* Sockets are a dictionary from id to node: the last entry of an id counts.
ParseMetaMapping(vs) ==
    {<<vs[i].names[1], vs[i].names[2]>> :
        i \in {j \in DOMAIN vs : \A k \in (j + 1)..Len(vs) : vs[k].names[1] # vs[j].names[1]}}

ProgramMeta(lines) ==
    [name |-> WordOf(Values(lines[2])[1]), parameters |-> Values(lines[3]),
     csockets |-> ParseMetaMapping(Values(lines[4])),
     epr_sockets |-> ParseMetaMapping(Values(lines[5]))]

ParseMeta ==
    /\ phase = "meta"
    /\ IF MetaOutcome(section["meta"]) # "ok" THEN Raise(Wrong)
       ELSE /\ program' = [program EXCEPT !.meta = ProgramMeta(section["meta"])]
            /\ StartReading("references", 1)
            /\ UNCHANGED <<text, section, vectors, outcome, first, started>>

\* The routines that the host code calls.
CalledBy(p, op) ==
    UNION {{i.attr : i \in {j \in Range(b.instrs) : j.op = op}} : b \in Range(p.blocks)}

CheckReferences ==
    /\ phase = "references"
    /\ IF /\ CalledBy(program, "run_subroutine") \subseteq Names(program.subroutines)
          /\ CalledBy(program, "run_request") \subseteq Names(program.requests)
       THEN /\ outcome' = "ok" /\ phase' = "done"
            /\ UNCHANGED <<text, section, cursor, vectors, program, first, started>>
       ELSE Raise(Wrong)

------------------------------------------------------------------------------
(* The program is used.                                                       *)

Accepted == phase = "done" /\ outcome = "ok"
Unused == Accepted /\ first = Nothing /\ started = NotStarted

MappingValues(sockets) ==
    LET entries == SetToSeq(sockets)
    IN  [i \in DOMAIN entries |-> Arrow(entries[i][1], entries[i][2])]

\* Fault: the sockets are written in another order than they are read.
ProgramMetaTextSwapped(meta) ==
    <<BareLine("META_START"), KeyLine("name", <<Word(meta.name)>>),
      KeyLine("parameters", meta.parameters),
      KeyLine("epr_sockets", MappingValues(meta.epr_sockets)),
      KeyLine("csockets", MappingValues(meta.csockets)), BareLine("META_END")>>

ProgramMetaText(meta) ==
    <<BareLine("META_START"), KeyLine("name", <<Word(meta.name)>>),
      KeyLine("parameters", meta.parameters),
      KeyLine("csockets", MappingValues(meta.csockets)),
      KeyLine("epr_sockets", MappingValues(meta.epr_sockets)), BareLine("META_END")>>

\* Requests are not written.
Serialize(p) ==
    ProgramMetaText(p.meta)
    \o FlattenSeq([i \in DOMAIN p.blocks |-> BasicBlockText(p.blocks[i])])
    \o FlattenSeq([i \in DOMAIN p.subroutines |-> LocalRoutineText(p.subroutines[i])])

WriteOut ==
    /\ Unused
    /\ text' = Serialize(program) /\ first' = program
    /\ section' = Unsplit /\ StartReading("split", 1)
    /\ vectors' = <<>> /\ program' = Nothing /\ outcome' = "none"
    /\ UNCHANGED started

\* The scheduler asks for the virtual qubits of the request as it was parsed,
\* the number of pairs alone being taken from the inputs.
CheckOutcome(r) ==
    LET pairs == 0..(NumPairs(r, Inputs) - 1)
        count == r.values["num_pairs"]
    IN  IF IsTemplate(count) /\ WordOf(count) \notin DOMAIN Inputs THEN "KeyError"
        ELSE IF pairs # {} /\ IsTemplate(r.virt_ids[2]) THEN "AssertionError"
        ELSE IF \E i \in pairs : ~ HasId(r, i) THEN "IndexError" ELSE "ok"

\* A request is executed: checked, then filled in on a copy of its own.
StartOutcome(r) ==
    IF CheckOutcome(r) # "ok" THEN CheckOutcome(r)
    ELSE IF ~ TemplatesOf(r) \subseteq DOMAIN Inputs THEN "KeyError" ELSE "ok"

StartRequest ==
    /\ Unused
    /\ \E r \in Range(program.requests) :
          started' = [name |-> r.name, outcome |-> StartOutcome(r)]
    /\ UNCHANGED <<text, section, phase, cursor, vectors, program, outcome, first>>

Parse == Split \/ GetBlockTexts \/ ParseBlockHeader \/ ParseLhr \/ HostDone
         \/ ParseSubroutine \/ ParseRequest \/ ParseMeta \/ CheckReferences
Next == Parse \/ WriteOut \/ StartRequest

\* The parser is one call: it goes on until it returns or raises.
Spec == Init /\ [][Next]_vars /\ WF_vars(Parse)

------------------------------------------------------------------------------
(* Properties.                                                                *)

\* Whatever the text, the parser comes to an end.  Its loops over routines stop
\* only because the text does.
ParserEnds == []<>(phase = "done")

\* What the parsers may drop without a word is the last routine of a section,
\* cut off before its fixed lines are complete, or an earlier routine of a name
\* that is used again: every other heading of the text is in the program.
HeadingsAreKept(lines, head, length, dict) ==
    \A i \in DOMAIN lines :
        lines[i].line = head /\ i + length - 1 <= Len(lines) => lines[i].name \in Names(dict)
OnlyTheTailIsLost ==
    Accepted =>
        /\ HeadingsAreKept(Subroutines, "SUBROUTINE", 7, program.subroutines)
        /\ HeadingsAreKept(Requests, "REQUEST", RequestLength, program.requests)

AllInstrs(p) == FlattenSeq([i \in DOMAIN p.blocks |-> p.blocks[i].instrs])
Writes(instr, n) == instr.result.kind # "tuple" /\ n \in Range(instr.result.names)

\* An argument is taken for a vector exactly if the last instruction above it,
\* in any block, that assigned to its name assigned a vector (an assignment by
\* way of a tuple aside): a scalar never hides behind the name of a vector.
KindOfLastWrite ==
    Accepted =>
        LET all == AllInstrs(program)
        IN  \A i \in DOMAIN all : \A a \in Range(all[i].args) :
                a.kind # "tuple" =>
                LET writers == {j \in 1..i : Writes(all[j], WordOf(a))
                                               /\ (j < i \/ all[j].result.kind = "vector")}
                    vector == writers # {} /\ all[Max(writers)].result.kind = "vector"
                IN  vector <=> a.kind \in {"vector", "element"}

\* A program that is written out and read again is the same program exactly if
\* it has no routines and no deadlines: nothing else is written as it is read.
Classical(p) ==
    p.subroutines = <<>> /\ p.requests = <<>>
    /\ \A b \in Range(p.blocks) : b.deadlines = <<>>
CopyIsFaithful ==
    phase = "done" /\ first # Nothing =>
        (Classical(first) <=> outcome = "ok" /\ program = first)

\* A request that the parser has accepted can be started once the program has inputs
\* for its templates, whatever line of its text is damaged: no missing or odd field
\* gets past the parser to fail in the check for qubits (scheduler.py:1066-1095) or
\* in the network stack (netstackprocessor.py:234-252).  Two forms do fail: qubits
\* given by a template, of which the check asks for an id before it is filled in
\* (request.py:86, 89), and a list with fewer qubits than pairs (request.py:93).
QubitsAreATemplate(r) == IsTemplate(r.virt_ids[2])
MorePairsThanQubits(r) ==
    VirtIdMappingType(r) = "custom" /\ Len(r.virt_ids) - 1 < NumPairs(r, Inputs)
RequestsWithInputsStart ==
    \A r \in Range(program.requests) :
        started.name = r.name /\ TemplatesOf(r) \subseteq DOMAIN Inputs =>
            started.outcome = "ok" \/ QubitsAreATemplate(r) \/ MorePairsThanQubits(r)
==============================================================================
