--------------------------- MODULE MCProgramText ----------------------------
(* Texts: a program with everything in it and every damage to one of its     *)
(* lines, every instruction after a definition of a vector, definitions that *)
(* follow each other in different blocks, and every form of a request.       *)
EXTENDS ProgramText

MCIdentifiers == {"x", "y", "v", "w", "b0", "b1", "b2", "s1", "s2", "r1", "r2", "n", "k",
                  "m", "alice", "bob", "busy"}
MCToInt == [i \in {"0", "1", "2"} |-> CASE i = "0" -> 0 [] i = "1" -> 1 [] i = "2" -> 2]
MCInputs == "n" :> 2

Words(ns) == [i \in DOMAIN ns |-> Word(ns[i])]
Header(name, typ) == BlockLine(name, typ, <<>>, "none")
Timed(name, deadlines) == BlockLine(name, "QC", deadlines, "list")
Set(n, i) == InstrLine(Word(n), "assign_cval", <<>>, i)
Call(result, args, s) == InstrLine(result, "run_subroutine", args, s)
Ask(result, r) == InstrLine(result, "run_request", <<>>, r)
Return(n) == InstrLine(Absent, "return_result", <<Word(n)>>, None)

Meta == <<BareLine("META_START"), KeyLine("name", Words(<<"alice">>)),
          KeyLine("parameters", Words(<<"n">>)), KeyLine("csockets", <<Arrow("0", "bob")>>),
          KeyLine("epr_sockets", <<>>), BareLine("META_END")>>

Subroutine(name, params, returns) ==
    <<NameLine("SUBROUTINE", name), KeyLine("params", Words(params)),
      KeyLine("returns", returns), KeyLine("uses", Words(<<"0", "1">>)),
      KeyLine("keeps", Words(<<"1">>)), KeyLine("request", <<>>),
      BareLine("NETQASM_START"), CodeLine(Range(params)), BareLine("NETQASM_END")>>

Request(name, type, callback, returns, pairs, virts) ==
    <<NameLine("REQUEST", name), KeyLine("callback_type", Words(type)),
      KeyLine("callback", Words(callback)), KeyLine("return_vars", returns),
      KeyLine("remote_id", Words(<<"1">>)), KeyLine("epr_socket_id", Words(<<"0">>)),
      KeyLine("num_pairs", <<pairs>>), KeyLine("virt_ids", virts),
      KeyLine("timeout", Words(<<"2">>)), KeyLine("fidelity", Words(<<"0.9">>)),
      KeyLine("typ", Words(<<"create_keep">>)), KeyLine("role", Words(<<"create">>))>>

S1 == Subroutine("s1", <<"x">>, Words(<<"m">>))
S2 == Subroutine("s2", <<>>, <<IqoalaVector("m", "2")>>)
R(name) == Request(name, <<"wait_all">>, <<"s2">>, <<Written("templated", <<"m">>, "n")>>,
                   Template("n"), Words(<<"increment", "0">>))

Everything ==
    Meta \o <<Header("b0", "CL"), Set("x", "1"),
              Header("b1", "QL"), Call(IqoalaTuple(<<"y">>), <<IqoalaTuple(<<"x">>)>>, "s1"),
              Timed("b2", <<<<"b0", "2">>>>), Ask(IqoalaVector("v", "n"), "r1"), Return("v")>>
         \o S1 \o S2 \o R("r1") \o R("r2")

\* Damage to one line: cut off there, lost, doubled, swapped with the next.
Cut(t, i) == SubSeq(t, 1, i)
Lost(t, i) == RemoveAt(t, i)
Doubled(t, i) == InsertAt(t, i, t[i])
Swapped(t, i) == IF i = Len(t) THEN t ELSE [t EXCEPT ![i] = t[i + 1], ![i + 1] = t[i]]
Damaged(t) == UNION {{Cut(t, i), Lost(t, i), Doubled(t, i), Swapped(t, i)} : i \in DOMAIN t}

\* Two routines of a name, and one that nobody calls.
TwoOfAName == Meta \o <<Header("b0", "QL"), Call(Absent, <<>>, "s2")>> \o S2 \o S2 \o S1

\* Deadlines, none to two of them, one that is no integer.
DeadlineTexts ==
    {Meta \o <<Header("b0", "CL"), Timed("b1", d), Set("x", "1")>> :
        d \in {<<>>, <<<<"b0", "2">>>>, <<<<"b0", "y">>>>, <<<<"b0", "2">>, <<"b0", "1">>>>}}

\* Any instruction, after one that defines the vector v.
Results == {Absent, Word("x"), Word("v"), Word("busy"), IqoalaTuple(<<"x">>),
            IqoalaVector("w", "n"), IqoalaVectorElement("v", "0")}
Arguments == {Word("x"), Word("v"), IqoalaVectorElement("v", "1"),
              IqoalaVectorElement("x", "0"), IqoalaTuple(<<"x", "y">>), IqoalaVector("v", "2")}
ArgLists == {<<>>} \cup {<<a>> : a \in Arguments} \cup {<<a, b>> : a, b \in Arguments}
InstrTexts ==
    {Meta \o <<Header("b0", "QL"), Call(IqoalaVector("v", "2"), <<>>, "s2"),
               InstrLine(r, op, args, attr)>> \o S2 :
        r \in Results, op \in DOMAIN LHR_OP_NAMES \cup {"halt"}, args \in ArgLists,
        attr \in {None, "1", "b0"}}

\* Two assignments to one name and a use of it, in one block or in three.
Assignments == {Set("v", "1"), Call(IqoalaVector("v", "2"), <<>>, "s2"),
                Call(Word("v"), <<>>, "s2"), Call(IqoalaTuple(<<"v">>), <<>>, "s2")}
Uses == {Return("v"), InstrLine(Absent, "send_cmsg", <<Word("v"), Word("v")>>, None),
         InstrLine(Word("y"), "add_cval_c", <<IqoalaVectorElement("v", "0"), Word("x")>>, None)}
AssignmentTexts ==
    {Meta \o <<Header("b0", "QL"), a, b, c>> \o S2 : a, b \in Assignments, c \in Uses}
    \cup {Meta \o <<Header("b0", "QL"), a, Header("b1", "QL"), b, Header("b2", "CL"), c>> \o S2 :
             a, b \in Assignments, c \in Uses}

\* Every form of a request.
VirtIds == {Words(<<"all", "0">>), <<Word("all"), Template("n")>>,
            Words(<<"increment", "1">>), <<Word("increment"), Template("k")>>,
            Words(<<"custom", "1", "0">>), Words(<<"custom", "1">>), Words(<<"every", "0">>)}
RequestTexts ==
    {Meta \o <<Header("b0", "QC"), Ask(Absent, "r1")>>
          \o Request("r1", type, callback, returns, pairs, virts) :
        type \in {<<>>, <<"sequential">>, <<"always">>}, callback \in {<<>>, <<"s1">>},
        returns \in {Words(<<"m">>), <<Written("templated", <<"m">>, "k")>>},
        pairs \in {Word("0"), Word("2"), Template("n"), Template("k")}, virts \in VirtIds}

MCTexts == {Everything, TwoOfAName} \cup Damaged(Everything)
           \cup Damaged(TwoOfAName) \cup DeadlineTexts
           \cup InstrTexts \cup AssignmentTexts \cup RequestTexts
==============================================================================
