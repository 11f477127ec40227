---------------------- MODULE TaskGraphExecutionProofs ----------------------
(***************************************************************************)
(* Proofs about the execution of one task graph by two processors, for     *)
(* every graph, of any size and with any placement of its tasks.           *)
(***************************************************************************)
EXTENDS TaskGraphExecution, TLAPS

\* The predecessors of t in the graph as built that run on processor c, and
\* those that run on the other one.
Own(c, t) == {p \in graph.preds[t] : graph.proc[p] = c}
Foreign(c, t) == {p \in graph.preds[t] : graph.proc[p] # c}

\* A partial graph is a record of its three fields, about tasks of its processor.
PartialGraphShape(c) ==
    /\ pgraph[c] = [tasks |-> pgraph[c].tasks, preds |-> pgraph[c].preds, ext |-> pgraph[c].ext]
    /\ pgraph[c].tasks \subseteq {t \in graph.tasks : graph.proc[t] = c}

\* What a processor no longer waits for has finished, on the processor that it
\* looks at for it.
NothingForgotten(c) ==
    \A t \in pgraph[c].tasks :
        /\ Own(c, t) \subseteq pgraph[c].preds[t] \cup finished[c]
        /\ Foreign(c, t) \subseteq pgraph[c].ext[t] \cup finished[Other(c)]

\* The inductive invariant: OriginalOrder itself does not say why a task that
\* will be started next has nothing left to wait for.
ExecInv ==
    /\ graph \in Graphs
    /\ pgraph = [c \in Cores |-> pgraph[c]] /\ finished = [c \in Cores |-> finished[c]]
    /\ running = [c \in Cores |-> running[c]]
    /\ \A c \in Cores : PartialGraphShape(c) /\ NothingForgotten(c)
    /\ OriginalOrder

\* The predecessors of a task are those on its own processor and the others.
LEMMA OwnAndForeign ==
    \A c \in Cores : \A t : graph.preds[t] = Own(c, t) \cup Foreign(c, t)
  BY DEF Own, Foreign

LEMMA OtherIsOther ==
    \A c \in Cores : Other(c) \in Cores /\ Other(c) # c /\ Other(Other(c)) = c
                     /\ \A d \in Cores : d = c \/ d = Other(c)
  BY DEF Cores, Other

LEMMA InitExecInv == Init => ExecInv
  <1> SUFFICES ASSUME Init PROVE ExecInv
    OBVIOUS
  <1>1. \A c \in Cores : PartialGraphShape(c)
    BY DEF Init, PartialGraphShape, PartialGraph
  <1>2. ASSUME NEW c \in Cores PROVE NothingForgotten(c)
    <2> SUFFICES ASSUME NEW t \in pgraph[c].tasks
                 PROVE  /\ Own(c, t) \subseteq pgraph[c].preds[t]
                        /\ Foreign(c, t) \subseteq pgraph[c].ext[t]
      BY DEF NothingForgotten
    <2> DEFINE mine == {u \in graph.tasks : graph.proc[u] = c}
    <2>1. /\ t \in mine
          /\ pgraph[c].preds[t] = (graph.preds[t] \cap mine) \cup DoubleCross(graph, t)
          /\ pgraph[c].ext[t] = graph.preds[t] \ mine
      BY DEF Init, PartialGraph
    <2>2. graph.preds[t] \subseteq graph.tasks
      BY <2>1, GraphAssumption DEF Init
    <2> QED BY <2>1, <2>2 DEF Own, Foreign
  <1> QED BY <1>1, <1>2 DEF Init, ExecInv, OriginalOrder

\* Looking at what the other processor has finished forgets nothing else.
LEMMA PollingForgetsNothing ==
    ASSUME ExecInv, NEW c \in Cores
    PROVE  /\ Polled(c).tasks = pgraph[c].tasks /\ Polled(c).preds = pgraph[c].preds
           /\ Polled(c) = [tasks |-> Polled(c).tasks, preds |-> Polled(c).preds,
                           ext |-> Polled(c).ext]
           /\ \A t \in pgraph[c].tasks :
                 Foreign(c, t) \subseteq Polled(c).ext[t] \cup finished[Other(c)]
  <1> DEFINE pg == pgraph[c]
             ext == [t \in pg.tasks |-> IF t \in RootsIgnoringExternal(pg)
                                        THEN pg.ext[t] \ finished[Other(c)] ELSE pg.ext[t]]
  <1>1. pg = [tasks |-> pg.tasks, preds |-> pg.preds, ext |-> pg.ext]
    BY DEF ExecInv, PartialGraphShape
  <1>2. Polled(c) = [tasks |-> pg.tasks, preds |-> pg.preds, ext |-> ext]
    <2>1. Polled(c) = [pg EXCEPT !.ext = ext]
      BY DEF Polled, DropFinished
    <2> HIDE DEF pg, ext
    <2> QED BY <1>1, <2>1
  <1>3. \A t \in pg.tasks : Foreign(c, t) \subseteq ext[t] \cup finished[Other(c)]
    BY DEF ExecInv, NothingForgotten
  <1> QED BY <1>2, <1>3

\* A processor that starts a task, or goes to sleep, replaces its graph by what
\* it has polled.
LEMMA PolledExecInv ==
    ASSUME ExecInv, NEW c \in Cores, pgraph' = [pgraph EXCEPT ![c] = Polled(c)],
           UNCHANGED <<graph, finished>>
    PROVE  \A d \in Cores : (PartialGraphShape(d) /\ NothingForgotten(d))'
  <1> SUFFICES ASSUME NEW d \in Cores PROVE (PartialGraphShape(d) /\ NothingForgotten(d))'
    OBVIOUS
  <1>1. CASE d = c
    <2>1. pgraph'[d] = Polled(c)
      BY <1>1 DEF ExecInv
    <2> QED BY <1>1, <2>1, PollingForgetsNothing
            DEF ExecInv, PartialGraphShape, NothingForgotten, Own, Foreign
  <1>2. CASE d # c
    <2>1. pgraph'[d] = pgraph[d]
      BY <1>2 DEF ExecInv
    <2>2. PartialGraphShape(d) /\ NothingForgotten(d)
      BY DEF ExecInv
    <2>3. \A t : Own(d, t)' = Own(d, t) /\ Foreign(d, t)' = Foreign(d, t)
      BY DEF Own, Foreign
    <2>4. PartialGraphShape(d)'
      BY <2>1, <2>2 DEF PartialGraphShape
    <2>5. NothingForgotten(d)'
      BY <2>1, <2>2, <2>3 DEF NothingForgotten
    <2> QED BY <2>4, <2>5
  <1> QED BY <1>1, <1>2

\* A task without predecessors left, in the polled graph, has none in the graph
\* as built that has not finished.
LEMMA StartedInOrder ==
    ASSUME ExecInv, NEW c \in Cores, NEW t \in Roots(Polled(c))
    PROVE  graph.preds[t] \subseteq AllFinished
  <1>1. t \in pgraph[c].tasks /\ pgraph[c].preds[t] = {} /\ Polled(c).ext[t] = {}
    BY PollingForgetsNothing DEF Roots, RootsIgnoringExternal
  <1>2. Own(c, t) \subseteq finished[c] /\ Foreign(c, t) \subseteq finished[Other(c)]
    BY <1>1, PollingForgetsNothing DEF ExecInv, NothingForgotten
  <1>3. finished[c] \subseteq AllFinished /\ finished[Other(c)] \subseteq AllFinished
    BY DEF AllFinished, Cores, Other
  <1> QED BY <1>2, <1>3, OwnAndForeign

LEMMA StartExecInv ==
    ASSUME ExecInv, NEW c \in Cores, StartTask(c)
    PROVE  ExecInv'
  <1>1. PICK t \in Roots(Polled(c)) : running' = [running EXCEPT ![c] = t]
    BY DEF StartTask
  <1>2. OriginalOrder'
    BY <1>1, StartedInOrder DEF ExecInv, OriginalOrder, AllFinished, StartTask
  <1>3. \A d \in Cores : (PartialGraphShape(d) /\ NothingForgotten(d))'
    BY PolledExecInv DEF StartTask
  <1>4. pgraph' = [d \in Cores |-> pgraph'[d]] /\ running' = [d \in Cores |-> running'[d]]
    BY <1>1 DEF ExecInv, StartTask
  <1> QED BY <1>2, <1>3, <1>4 DEF ExecInv, StartTask

LEMMA SleepExecInv ==
    ASSUME ExecInv, NEW c \in Cores, Sleep(c)
    PROVE  ExecInv'
  <1>1. \A d \in Cores : (PartialGraphShape(d) /\ NothingForgotten(d))'
    BY PolledExecInv DEF Sleep
  <1>2. pgraph' = [d \in Cores |-> pgraph'[d]]
    BY DEF ExecInv, Sleep
  <1> QED BY <1>1, <1>2 DEF ExecInv, OriginalOrder, AllFinished, Sleep

\* The task that has finished leaves the graph of its processor only, and is
\* recorded in the same step.
LEMMA FinishExecInv ==
    ASSUME ExecInv, NEW c \in Cores, FinishTask(c)
    PROVE  ExecInv'
  <1> DEFINE done == running[c]
             pg == pgraph[c]
             left == pg.tasks \ {done}
  <1>1. /\ pgraph' = [d \in Cores |-> IF d = c THEN RemoveTask(pg, done) ELSE pgraph[d]]
        /\ finished' = [d \in Cores |-> IF d = c THEN finished[d] \cup {done} ELSE finished[d]]
        /\ running' = [d \in Cores |-> IF d = c THEN NoTask ELSE running[d]]
        /\ graph' = graph
    BY DEF ExecInv, FinishTask
  <1>2. ASSUME NEW d \in Cores
        PROVE  (PartialGraphShape(d) /\ NothingForgotten(d))'
    <2>1. CASE d = c
      <3>1. pgraph'[d] = [tasks |-> left, preds |-> [s \in left |-> pg.preds[s] \ {done}],
                          ext |-> [s \in left |-> pg.ext[s]]]
        BY <1>1, <2>1 DEF RemoveTask
      <3>2. finished'[c] = finished[c] \cup {done} /\ finished'[Other(c)] = finished[Other(c)]
        BY <1>1, OtherIsOther
      <3>3. PartialGraphShape(d)'
        BY <1>1, <2>1, <3>1 DEF ExecInv, PartialGraphShape
      <3>4. ASSUME NEW t \in left
            PROVE  /\ Own(c, t) \subseteq (pg.preds[t] \ {done}) \cup finished'[c]
                   /\ Foreign(c, t) \subseteq pg.ext[t] \cup finished'[Other(c)]
        BY <3>2 DEF ExecInv, NothingForgotten
      <3>5. NothingForgotten(d)'
        BY <1>1, <2>1, <3>1, <3>4 DEF NothingForgotten, Own, Foreign
      <3> QED BY <3>3, <3>5
    <2>2. CASE d # c
      <3>1. pgraph'[d] = pgraph[d] /\ finished'[d] = finished[d]
            /\ finished[Other(d)] \subseteq finished'[Other(d)]
        BY <1>1, <2>2, OtherIsOther
      <3>2. PartialGraphShape(d)'
        BY <1>1, <3>1 DEF ExecInv, PartialGraphShape
      <3>3. NothingForgotten(d) /\ graph' = graph
        BY <1>1 DEF ExecInv
      <3>4. NothingForgotten(d)'
        BY <3>1, <3>3 DEF NothingForgotten, Own, Foreign
      <3> QED BY <3>2, <3>4
    <2> QED BY <2>1, <2>2
  <1>3. OriginalOrder'
    <2>1. AllFinished \subseteq AllFinished'
      BY <1>1 DEF AllFinished, Cores
    <2> QED BY <1>1, <2>1 DEF ExecInv, OriginalOrder
  <1>4. /\ pgraph' = [d \in Cores |-> pgraph'[d]] /\ finished' = [d \in Cores |-> finished'[d]]
        /\ running' = [d \in Cores |-> running'[d]]
    BY <1>1
  <1> QED BY <1>1, <1>2, <1>3, <1>4 DEF ExecInv

LEMMA NextExecInv == ExecInv /\ [Next]_vars => ExecInv'
  <1> SUFFICES ASSUME ExecInv, [Next]_vars PROVE ExecInv'
    OBVIOUS
  <1>1. CASE UNCHANGED vars
    BY <1>1 DEF vars, ExecInv, PartialGraphShape, NothingForgotten, Own, Foreign,
                OriginalOrder, AllFinished
  <1>2. ASSUME NEW c \in Cores, FailTask(c)
        PROVE  ExecInv'
    <2>1. running' = [d \in Cores |-> IF d = c THEN NoTask ELSE running[d]]
      BY <1>2 DEF ExecInv, FailTask
    <2>2. UNCHANGED <<graph, pgraph, finished>>
      BY <1>2 DEF FailTask
    <2>3. \A d \in Cores : \A t : Own(d, t)' = Own(d, t) /\ Foreign(d, t)' = Foreign(d, t)
      BY <2>2 DEF Own, Foreign
    <2>4. \A d \in Cores : PartialGraphShape(d)' /\ NothingForgotten(d)'
      BY <2>2, <2>3 DEF ExecInv, PartialGraphShape, NothingForgotten
    <2>5. OriginalOrder'
      BY <2>1, <2>2 DEF ExecInv, OriginalOrder, AllFinished
    <2>6. running' = [d \in Cores |-> running'[d]]
      BY <2>1
    <2> QED BY <2>2, <2>4, <2>5, <2>6 DEF ExecInv
  <1> QED BY <1>1, <1>2, StartExecInv, SleepExecInv, FinishExecInv DEF Next

\* The inductive invariant holds throughout.
THEOREM ExecInvInvariant == Spec => []ExecInv
  BY InitExecInv, NextExecInv, PTL DEF Spec

\* The order of the graph as built survives its split (partial_graph,
\* update_external_predcessors, remove_task): for every graph, no task is executed
\* before all of its predecessors have finished, on whichever processor.
THEOREM OrderSurvives == Spec => []OriginalOrder
  <1>1. ExecInv => OriginalOrder
    BY DEF ExecInv
  <1> QED BY <1>1, ExecInvInvariant, PTL

------------------------------------------------------------------------------
(* What NearestCross and Ancestors compute: that such functions exist, least  *)
(* solutions of their equations, and that they satisfy them.                  *)

IsRelation(r, T) == r \subseteq T \X T

\* f is what reaches each element: over an edge of base, and then edges of pass.
Reaches(f, T, base, pass) ==
    /\ f \in [T -> SUBSET T]
    /\ \A t \in T : \A a \in T :
          a \in f[t] <=> <<a, t>> \in base \/ \E p \in T : <<p, t>> \in pass /\ a \in f[p]

LEMMA LeastSolution ==
    ASSUME NEW T, NEW base, IsRelation(base, T), NEW pass, IsRelation(pass, T)
    PROVE  \E f : Reaches(f, T, base, pass)
  <1> DEFINE Closed(R) ==
                /\ base \subseteq R
                /\ \A a \in T, p \in T, t \in T : <<a, p>> \in R /\ <<p, t>> \in pass => <<a, t>> \in R
             least == {x \in T \X T : \A R \in SUBSET (T \X T) : Closed(R) => x \in R}
             f == [t \in T |-> {a \in T : <<a, t>> \in least}]
  <1>1. f \in [T -> SUBSET T] /\ \A t \in T, a \in T : a \in f[t] <=> <<a, t>> \in least
    OBVIOUS
  <1>2. Closed(least)
    BY DEF IsRelation
  <1>3. ASSUME NEW t \in T, NEW a \in T, <<a, t>> \in least,
               <<a, t>> \notin base, \A p \in T : <<p, t>> \in pass => <<a, p>> \notin least
        PROVE  FALSE
    <2> DEFINE R == least \ {<<a, t>>}
    <2>1. base \subseteq R
      BY <1>2, <1>3
    <2>2. ASSUME NEW b \in T, NEW p \in T, NEW u \in T, <<b, p>> \in R, <<p, u>> \in pass
          PROVE  <<b, u>> \in R
      <3>1. <<b, u>> \in least
        BY <1>2, <2>2
      <3>2. <<b, u>> # <<a, t>>
        BY <1>3, <2>2
      <3> QED BY <3>1, <3>2
    <2>3. R \in SUBSET (T \X T) /\ Closed(R)
      BY <2>1, <2>2
    <2>4. <<a, t>> \in R
      <3> HIDE DEF R, Closed
      <3> QED BY <1>3, <2>3
    <2> QED BY <2>4
  <1>4. Reaches(f, T, base, pass)
    <2> HIDE DEF least, f
    <2> QED BY <1>1, <1>2, <1>3 DEF Reaches
  <1> QED BY <1>4

LEMMA AncestorsEquation ==
    ASSUME NEW g, \A t \in g.tasks : g.preds[t] \subseteq g.tasks
    PROVE  Ancestors(g) = [t \in g.tasks |->
               g.preds[t] \cup UNION {Ancestors(g)[p] : p \in g.preds[t]}]
  <1> DEFINE F(f) == [t \in g.tasks |-> g.preds[t] \cup UNION {f[p] : p \in g.preds[t]}]
  <1>1. PICK T : T = g.tasks
    OBVIOUS
  <1>2. PICK edges : IsRelation(edges, T) /\ \A p \in T, t \in T : <<p, t>> \in edges <=> p \in g.preds[t]
    <2>1. IsRelation({e \in T \X T : e[1] \in g.preds[e[2]]}, T)
      BY DEF IsRelation
    <2> QED BY <2>1
  <1>3. PICK f : Reaches(f, T, edges, edges)
    BY <1>2, LeastSolution
  <1>4. f = F(f)
    <2>1. ASSUME NEW t \in T PROVE f[t] = g.preds[t] \cup UNION {f[p] : p \in g.preds[t]}
      <3>1. g.preds[t] \subseteq T /\ f[t] \subseteq T /\ \A p \in T : f[p] \subseteq T
        BY <1>1, <1>3 DEF Reaches
      <3>2. ASSUME NEW a \in T
            PROVE  a \in f[t] <=> a \in g.preds[t] \/ \E p \in g.preds[t] : a \in f[p]
        BY <1>2, <1>3, <3>1 DEF Reaches
      <3> QED BY <3>1, <3>2
    <2>2. f = [t \in T |-> f[t]]
      BY <1>3 DEF Reaches
    <2> QED BY <1>1, <2>1, <2>2
  <1>5. Ancestors(g) = CHOOSE h : h = F(h)
    BY DEF Ancestors
  <1> HIDE DEF F
  <1>6. Ancestors(g) = F(Ancestors(g))
    BY <1>4, <1>5
  <1> QED BY <1>6 DEF F

LEMMA CrossEquation ==
    ASSUME NEW g, \A t \in g.tasks : g.preds[t] \subseteq g.tasks
    PROVE  NearestCross(g) = [t \in g.tasks |->
               UNION {IF g.proc[p] # g.proc[t] THEN {p} ELSE NearestCross(g)[p] : p \in g.preds[t]}]
  <1> DEFINE F(f) == [t \in g.tasks |->
                 UNION {IF g.proc[p] # g.proc[t] THEN {p} ELSE f[p] : p \in g.preds[t]}]
  <1>1. PICK T : T = g.tasks
    OBVIOUS
  <1>2. PICK cross : IsRelation(cross, T) /\
            \A p \in T, t \in T : <<p, t>> \in cross <=> p \in g.preds[t] /\ g.proc[p] # g.proc[t]
    <2>1. IsRelation({e \in T \X T : e[1] \in g.preds[e[2]] /\ g.proc[e[1]] # g.proc[e[2]]}, T)
      BY DEF IsRelation
    <2> QED BY <2>1
  <1>3. PICK same : IsRelation(same, T) /\
            \A p \in T, t \in T : <<p, t>> \in same <=> p \in g.preds[t] /\ g.proc[p] = g.proc[t]
    <2>1. IsRelation({e \in T \X T : e[1] \in g.preds[e[2]] /\ g.proc[e[1]] = g.proc[e[2]]}, T)
      BY DEF IsRelation
    <2> QED BY <2>1
  <1>4. PICK f : Reaches(f, T, cross, same)
    BY <1>2, <1>3, LeastSolution
  <1>5. f = F(f)
    <2>1. ASSUME NEW t \in T
          PROVE  f[t] = UNION {IF g.proc[p] # g.proc[t] THEN {p} ELSE f[p] : p \in g.preds[t]}
      <3>1. g.preds[t] \subseteq T /\ f[t] \subseteq T /\ \A p \in T : f[p] \subseteq T
        BY <1>1, <1>4 DEF Reaches
      <3>2. ASSUME NEW a \in T
            PROVE  a \in f[t] <=> \E p \in g.preds[t] :
                                     a \in IF g.proc[p] # g.proc[t] THEN {p} ELSE f[p]
        BY <1>2, <1>3, <1>4, <3>1 DEF Reaches
      <3>3. \A a : (\E p \in g.preds[t] : a \in IF g.proc[p] # g.proc[t] THEN {p} ELSE f[p]) => a \in T
        BY <3>1
      <3> QED BY <3>1, <3>2, <3>3
    <2>2. f = [t \in T |-> f[t]]
      BY <1>4 DEF Reaches
    <2> QED BY <1>1, <2>1, <2>2
  <1>6. NearestCross(g) = CHOOSE h : h = F(h)
    BY DEF NearestCross
  <1> HIDE DEF F
  <1>7. NearestCross(g) = F(NearestCross(g))
    BY <1>5, <1>6
  <1> QED BY <1>7 DEF F

\* An ancestor on the processor of t, behind a task q of the other processor, is a
\* nearest one of q or comes before one.
LEMMA BehindNearest ==
    ASSUME NEW g \in Graphs, NEW c \in Cores
    PROVE  \A q \in g.tasks : \A a \in Ancestors(g)[q] :
              g.proc[q] # c /\ g.proc[a] = c =>
                  \E b \in NearestCross(g)[q] : g.proc[b] = c /\ (a = b \/ a \in Ancestors(g)[b])
  <1> DEFINE Bad == {q \in g.tasks : \E a \in Ancestors(g)[q] :
                        /\ g.proc[q] # c /\ g.proc[a] = c
                        /\ \A b \in NearestCross(g)[q] :
                              ~ (g.proc[b] = c /\ (a = b \/ a \in Ancestors(g)[b]))}
  <1>1. /\ g.proc \in [g.tasks -> Cores]
        /\ \A t \in g.tasks : g.preds[t] \subseteq g.tasks
        /\ IsAcyclic(g)
    BY GraphAssumption
  <1>2. \A t \in g.tasks : Ancestors(g)[t] = g.preds[t] \cup UNION {Ancestors(g)[p] : p \in g.preds[t]}
    BY <1>1, AncestorsEquation
  <1>3. \A t \in g.tasks : NearestCross(g)[t] =
            UNION {IF g.proc[p] # g.proc[t] THEN {p} ELSE NearestCross(g)[p] : p \in g.preds[t]}
    BY <1>1, CrossEquation
  <1>4. ASSUME Bad # {} PROVE FALSE
    <2>1. PICK q \in Bad : g.preds[q] \cap Bad = {}
      <3> HIDE DEF Bad
      <3>1. Bad \in SUBSET g.tasks
        BY DEF Bad
      <3> QED BY <1>1, <1>4, <3>1 DEF IsAcyclic
    <2>2. PICK a \in Ancestors(g)[q] :
              /\ g.proc[q] # c /\ g.proc[a] = c
              /\ \A b \in NearestCross(g)[q] :
                    ~ (g.proc[b] = c /\ (a = b \/ a \in Ancestors(g)[b]))
      OBVIOUS
    <2>3. ASSUME NEW p \in g.preds[q], g.proc[p] = c
          PROVE  p \in NearestCross(g)[q]
      BY <1>3, <2>2, <2>3
    <2>4. ASSUME NEW p \in g.preds[q], g.proc[p] # c
          PROVE  NearestCross(g)[p] \subseteq NearestCross(g)[q]
      <3>1. g.proc[p] = g.proc[q]
        BY <1>1, <2>2, <2>4 DEF Cores
      <3> QED BY <1>3, <3>1
    <2>5. CASE a \in g.preds[q]
      BY <2>2, <2>3, <2>5
    <2>6. CASE \E p \in g.preds[q] : a \in Ancestors(g)[p]
      <3>1. PICK p \in g.preds[q] : a \in Ancestors(g)[p]
        BY <2>6
      <3>2. CASE g.proc[p] = c
        BY <2>2, <2>3, <3>1, <3>2
      <3>3. CASE g.proc[p] # c
        <4>1. p \in g.tasks /\ p \notin Bad
          BY <1>1, <2>1
        <4>2. PICK b \in NearestCross(g)[p] : g.proc[b] = c /\ (a = b \/ a \in Ancestors(g)[b])
          BY <2>2, <3>1, <3>3, <4>1
        <4> QED BY <2>2, <2>4, <3>3, <4>2
      <3> QED BY <3>2, <3>3
    <2> QED BY <1>2, <2>2, <2>5, <2>6
  <1> QED BY <1>4

OwnAncestors(c, t) == {a \in Ancestors(graph)[t] : graph.proc[a] = c}

\* The tasks of its own processor that a task waits for.
Shortcuts(c, t) == Own(c, t) \cup DoubleCross(graph, t)

\* WaitsForOtherOnly, of what has finished and of what is executed.
ChainInv ==
    /\ ExecInv
    /\ \A c \in Cores :
          /\ \A t \in pgraph[c].tasks : Shortcuts(c, t) \subseteq pgraph[c].preds[t] \cup finished[c]
          /\ \A t \in finished[c] : OwnAncestors(c, t) \subseteq finished[c]
          /\ running[c] # NoTask => running[c] \in RootsIgnoringExternal(pgraph[c])

\* With the tasks of its own processor that a task waits for, all before them have
\* finished.
LEMMA RootsHaveNoOwnAncestors ==
    ASSUME ChainInv, NEW c \in Cores, NEW t \in RootsIgnoringExternal(pgraph[c])
    PROVE  OwnAncestors(c, t) \subseteq finished[c]
  <1>1. graph \in Graphs /\ t \in graph.tasks /\ graph.proc[t] = c
    BY DEF ChainInv, ExecInv, PartialGraphShape, RootsIgnoringExternal
  <1>2. Shortcuts(c, t) \subseteq finished[c]
    BY DEF ChainInv, RootsIgnoringExternal
  <1>3. graph.preds[t] \subseteq graph.tasks
    BY <1>1, GraphAssumption
  <1>4. \A u \in finished[c] : OwnAncestors(c, u) \subseteq finished[c]
    BY DEF ChainInv
  <1>5. Ancestors(graph)[t] = graph.preds[t] \cup UNION {Ancestors(graph)[p] : p \in graph.preds[t]}
    BY <1>1, GraphAssumption, AncestorsEquation
  <1>6. SUFFICES ASSUME NEW a \in Ancestors(graph)[t], graph.proc[a] = c
                 PROVE  a \in finished[c]
    BY DEF OwnAncestors
  <1>7. CASE a \in graph.preds[t]
    BY <1>2, <1>6, <1>7 DEF Shortcuts, Own
  <1>8. CASE \E p \in graph.preds[t] : a \in Ancestors(graph)[p]
    <2>1. PICK p \in graph.preds[t] : a \in Ancestors(graph)[p]
      BY <1>8
    <2>2. CASE graph.proc[p] = c
      <3>1. p \in finished[c]
        BY <1>2, <2>2 DEF Shortcuts, Own
      <3> QED BY <1>4, <1>6, <2>1, <3>1 DEF OwnAncestors
    <2>3. CASE graph.proc[p] # c
      <3>1. PICK b \in NearestCross(graph)[p] :
                graph.proc[b] = c /\ (a = b \/ a \in Ancestors(graph)[b])
        BY <1>1, <1>3, <1>6, <2>1, <2>3, BehindNearest
      <3>2. b \in finished[c]
        BY <1>1, <1>2, <2>3, <3>1 DEF Shortcuts, DoubleCross, ImmediateCross
      <3> QED BY <1>4, <1>6, <3>1, <3>2 DEF OwnAncestors
    <2> QED BY <2>2, <2>3
  <1> QED BY <1>5, <1>7, <1>8

LEMMA InitChainInv == Init => ChainInv
  <1> SUFFICES ASSUME Init PROVE ChainInv
    OBVIOUS
  <1>1. ASSUME NEW c \in Cores, NEW t \in pgraph[c].tasks
        PROVE  Shortcuts(c, t) \subseteq pgraph[c].preds[t]
    <2>1. /\ t \in graph.tasks
          /\ pgraph[c].preds[t] = (graph.preds[t] \cap {u \in graph.tasks : graph.proc[u] = c})
                                  \cup DoubleCross(graph, t)
      BY <1>1 DEF Init, PartialGraph
    <2>2. graph.preds[t] \subseteq graph.tasks
      BY <2>1, GraphAssumption DEF Init
    <2> QED BY <2>1, <2>2 DEF Shortcuts, Own
  <1>2. \A c \in Cores : finished[c] = {} /\ running[c] = NoTask
    BY DEF Init
  <1> QED BY <1>1, <1>2, InitExecInv DEF ChainInv

\* A processor that polls leaves the order on its own processor as it is.
LEMMA PolledChainInv ==
    ASSUME ChainInv, NEW c \in Cores, pgraph' = [pgraph EXCEPT ![c] = Polled(c)],
           UNCHANGED <<graph, finished>>, NEW d \in Cores
    PROVE  /\ \A t \in pgraph'[d].tasks :
                 Shortcuts(d, t)' \subseteq pgraph'[d].preds[t] \cup finished'[d]
           /\ \A t \in finished'[d] : OwnAncestors(d, t)' \subseteq finished'[d]
           /\ RootsIgnoringExternal(pgraph'[d]) = RootsIgnoringExternal(pgraph[d])
  <1>1. pgraph'[d].tasks = pgraph[d].tasks /\ pgraph'[d].preds = pgraph[d].preds
    BY PollingForgetsNothing DEF ChainInv, ExecInv
  <1>2. \A t : Shortcuts(d, t)' = Shortcuts(d, t) /\ OwnAncestors(d, t)' = OwnAncestors(d, t)
    BY DEF Shortcuts, Own, OwnAncestors
  <1>3. RootsIgnoringExternal(pgraph'[d]) = RootsIgnoringExternal(pgraph[d])
    BY <1>1 DEF RootsIgnoringExternal
  <1> QED BY <1>1, <1>2, <1>3 DEF ChainInv

LEMMA NextChainInv == ChainInv /\ [Next]_vars => ChainInv'
  <1> SUFFICES ASSUME ChainInv, [Next]_vars PROVE ChainInv'
    OBVIOUS
  <1>1. ExecInv'
    BY NextExecInv DEF ChainInv
  <1>2. graph' = graph
    BY DEF Next, vars, StartTask, Sleep, FinishTask, FailTask
  <1>3. \A d \in Cores : \A t : Shortcuts(d, t)' = Shortcuts(d, t)
                                /\ OwnAncestors(d, t)' = OwnAncestors(d, t)
    BY <1>2 DEF Shortcuts, Own, OwnAncestors
  <1>4. ASSUME NEW c \in Cores, StartTask(c)
        PROVE  ChainInv'
    <2>1. PICK t \in Roots(Polled(c)) : running' = [running EXCEPT ![c] = t]
      BY <1>4 DEF StartTask
    <2>2. t \in RootsIgnoringExternal(pgraph[c])
      BY PollingForgetsNothing DEF Roots, RootsIgnoringExternal, ChainInv
    <2>3. \A d \in Cores : running'[d] # NoTask => running'[d] \in RootsIgnoringExternal(pgraph[d])
      BY <2>1, <2>2 DEF ChainInv, ExecInv
    <2> QED BY <1>1, <1>4, <2>3, PolledChainInv DEF ChainInv, StartTask
  <1>5. ASSUME NEW c \in Cores, Sleep(c)
        PROVE  ChainInv'
    <2>1. \A d \in Cores : running'[d] # NoTask => running'[d] \in RootsIgnoringExternal(pgraph[d])
      BY <1>5 DEF ChainInv, Sleep
    <2> QED BY <1>1, <1>5, <2>1, PolledChainInv DEF ChainInv, Sleep
  <1>6. ASSUME NEW c \in Cores, FinishTask(c)
        PROVE  ChainInv'
    <2>1. PICK done : done = running[c]
      OBVIOUS
    <2>2. done \in RootsIgnoringExternal(pgraph[c])
      BY <1>6, <2>1 DEF ChainInv, FinishTask
    <2>3. /\ \A d \in Cores : pgraph'[d] = IF d = c THEN RemoveTask(pgraph[c], done) ELSE pgraph[d]
          /\ \A d \in Cores : finished'[d] = IF d = c THEN finished[c] \cup {done} ELSE finished[d]
          /\ \A d \in Cores : running'[d] = IF d = c THEN NoTask ELSE running[d]
      BY <1>6, <2>1 DEF ChainInv, ExecInv, FinishTask
    <2>4. ASSUME NEW d \in Cores
          PROVE  /\ \A t \in pgraph'[d].tasks :
                       Shortcuts(d, t) \subseteq pgraph'[d].preds[t] \cup finished'[d]
                 /\ \A t \in finished'[d] : OwnAncestors(d, t) \subseteq finished'[d]
                 /\ running'[d] # NoTask => running'[d] \in RootsIgnoringExternal(pgraph'[d])
      <3>1. CASE d = c
        <4>1. /\ pgraph'[c].tasks = pgraph[c].tasks \ {done}
              /\ \A t \in pgraph'[c].tasks : pgraph'[c].preds[t] = pgraph[c].preds[t] \ {done}
          <5>1. PICK pg : pg = pgraph[c] /\ pgraph'[c] = RemoveTask(pg, done)
            BY <2>3
          <5>2. /\ RemoveTask(pg, done).tasks = pg.tasks \ {done}
                /\ \A t \in pg.tasks \ {done} : RemoveTask(pg, done).preds[t] = pg.preds[t] \ {done}
            BY DEF RemoveTask
          <5> QED BY <5>1, <5>2
        <4>2. \A t \in pgraph'[c].tasks :
                  Shortcuts(c, t) \subseteq pgraph'[c].preds[t] \cup finished'[c]
          BY <2>3, <4>1 DEF ChainInv
        <4>3. \A t \in finished'[c] : OwnAncestors(c, t) \subseteq finished'[c]
          BY <2>2, <2>3, RootsHaveNoOwnAncestors DEF ChainInv
        <4> QED BY <2>3, <3>1, <4>2, <4>3
      <3>2. CASE d # c
        BY <2>3, <3>2 DEF ChainInv
      <3> QED BY <3>1, <3>2
    <2> QED BY <1>1, <1>3, <2>4 DEF ChainInv
  <1>7. ASSUME NEW c \in Cores, FailTask(c)
        PROVE  ChainInv'
    <2>1. \A d \in Cores : running'[d] = IF d = c THEN NoTask ELSE running[d]
      BY <1>7 DEF ChainInv, ExecInv, FailTask
    <2>2. pgraph' = pgraph /\ finished' = finished
      BY <1>7 DEF FailTask
    <2> QED BY <1>1, <1>3, <2>1, <2>2 DEF ChainInv
  <1>8. CASE UNCHANGED vars
    BY <1>1, <1>3, <1>8 DEF ChainInv, vars
  <1> QED BY <1>4, <1>5, <1>6, <1>7, <1>8 DEF Next

\* A task whose own processor has removed all its predecessors waits for the other
\* processor only (partial_graph's shortcuts over the other processor, of any
\* length): WAITING_OTHER_CORE never hides work of the processor itself.
THEOREM OnlyTheOtherIsAwaited == Spec => []WaitsForOtherOnly
  <1>1. ChainInv => WaitsForOtherOnly
    BY RootsHaveNoOwnAncestors DEF WaitsForOtherOnly, OwnAncestors
  <1> QED BY <1>1, InitChainInv, NextChainInv, PTL DEF Spec
=============================================================================
