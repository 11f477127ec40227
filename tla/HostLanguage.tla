---------------------------- MODULE HostLanguage ----------------------------
(* The host language: its variables, the fifteen operations with what each   *)
(* accepts, and how variables, instructions and blocks are written out.      *)
(* Text is a sequence of lines, a line a record of what its punctuation      *)
(* separates; a word is a string, and an integer a word of Numerals.         *)
EXTENDS SequencesExt, Integers

CONSTANTS
    Identifiers,   \* the words that are identifiers and start with a letter
    Numerals       \* the words that int() can read

ASSUME WordsAreDistinct == Identifiers \cap Numerals = {} /\ "" \notin Numerals

None == ""

(* A variable, and the text of one: name, tuple<a; b>, name<size> or name[i]. *)
Written(kind, names, arg) == [kind |-> kind, names |-> names, arg |-> arg]
Absent == Written("none", <<>>, None)
IqoalaSingleton(n) == Written("singleton", <<n>>, None)
IqoalaTuple(ns) == Written("tuple", ns, ";")
IqoalaVector(n, size) == Written("vector", <<n>>, size)
IqoalaVectorElement(n, i) == Written("element", <<n>>, i)

------------------------------------------------------------------------------
(* What from_generic_args of every operation accepts: the kinds of result, of *)
(* each argument, and of the attribute.                                       *)

Readable == {"singleton", "element"}
Takes(result, args, attr) == [result |-> result, args |-> args, attr |-> attr]
Jumps(args) == Takes({"none"}, args, {"str"})
Calls == Takes({"none", "tuple", "vector"}, <<{"tuple"}>>, {"str"})

AssignCValueOp == Takes({"singleton"}, <<>>, {"int"})
BusyOp == Takes({"none"}, <<>>, {"int", "str"})
SendCMsgOp == Takes({"none"}, <<Readable, Readable>>, {"none"})
ReceiveCMsgOp == Takes({"singleton"}, <<Readable>>, {"none"})
AddCValueOp == Takes({"singleton"}, <<Readable, Readable>>, {"none"})
MultiplyConstantCValueOp == Takes({"singleton"}, <<Readable>>, {"int", "str"})
BitConditionalMultiplyConstantCValueOp ==
    Takes({"singleton"}, <<Readable, Readable>>, {"int"})
RunSubroutineOp == Calls
RunRequestOp == Calls
ReturnResultOp == Takes({"none"}, <<{"singleton", "vector"}>>, {"none"})
JumpOp == Jumps(<<>>)
BranchIfEqualOp == Jumps(<<Readable, Readable>>)
BranchIfNotEqualOp == Jumps(<<Readable, Readable>>)
BranchIfGreaterThanOp == Jumps(<<Readable, Readable>>)
BranchIfLessThanOp == Jumps(<<Readable, Readable>>)

LHR_OP_NAMES ==
    [assign_cval |-> AssignCValueOp, busy |-> BusyOp, send_cmsg |-> SendCMsgOp,
     recv_cmsg |-> ReceiveCMsgOp, add_cval_c |-> AddCValueOp,
     mult_const |-> MultiplyConstantCValueOp,
     bcond_mult_const |-> BitConditionalMultiplyConstantCValueOp,
     run_subroutine |-> RunSubroutineOp, run_request |-> RunRequestOp,
     return_result |-> ReturnResultOp, jump |-> JumpOp, beq |-> BranchIfEqualOp,
     bne |-> BranchIfNotEqualOp, bgt |-> BranchIfGreaterThanOp,
     blt |-> BranchIfLessThanOp]

\* A name is an identifier that starts with a letter and is not reserved.
IsValidName(n) == n \in Identifiers \ DOMAIN LHR_OP_NAMES

AttrKind(attr) ==
    IF attr = None THEN "none" ELSE IF attr \in Numerals THEN "int" ELSE "str"

\* A call without arguments has the empty tuple for its argument.
CallArgs(op, args) ==
    IF LHR_OP_NAMES[op] = Calls /\ args = <<>> THEN <<IqoalaTuple(<<>>)>> ELSE args

Accepts(op, result, args, attr) ==
    LET takes == LHR_OP_NAMES[op]
        given == CallArgs(op, args)
    IN  /\ result.kind \in takes.result
        /\ Len(given) = Len(takes.args)
        /\ \A i \in DOMAIN given : given[i].kind \in takes.args[i]
        /\ AttrKind(attr) \in takes.attr

ClassicalIqoalaOp(op, result, args, attr) ==
    [op |-> op, result |-> result, args |-> CallArgs(op, args), attr |-> attr]

------------------------------------------------------------------------------
(* Writing a program out.                                                     *)

InstrLine(result, op, args, attr) ==
    [line |-> "instr", result |-> result, op |-> op, args |-> args, attr |-> attr]
BlockLine(name, typ, deadlines, style) ==
    [line |-> "^", name |-> name, typ |-> typ, deadlines |-> deadlines, style |-> style]

\* The names of a tuple are joined by commas; a reader splits it at semicolons.
TupleText(v) == IF v.kind = "tuple" THEN [v EXCEPT !.arg = ","] ELSE v

\* Arguments too are separated by commas, which tear such a tuple to pieces.
ArgText(v) ==
    IF v.kind = "tuple" /\ Len(v.names) > 1
    THEN [i \in DOMAIN v.names |-> Written("torn", <<v.names[i]>>, None)]
    ELSE <<TupleText(v)>>

InstrText(instr) ==
    InstrLine(TupleText(instr.result), instr.op,
              IF instr.args = <<IqoalaTuple(<<>>)>> THEN <<>>
              ELSE FlattenSeq([i \in DOMAIN instr.args |-> ArgText(instr.args[i])]),
              instr.attr)

\* Deadlines are written as a Python dictionary, in braces of its own.
BasicBlockText(block) ==
    <<BlockLine(block.name, block.typ, block.deadlines,
                IF block.deadlines = <<>> THEN "none" ELSE "dict")>>
    \o [i \in DOMAIN block.instrs |-> InstrText(block.instrs[i])]
==============================================================================
