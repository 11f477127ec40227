----------------------- MODULE MCTaskGraphExecution -----------------------
(* All graphs over four tasks whose edges go from lower to higher numbers,  *)
(* with every assignment of the tasks to the two processors, and the graphs *)
(* of the quantum blocks with up to two pairs.                              *)
EXTENDS TaskGraphExecution

CONSTANT Size
Numbered == {<<"Task", i>> : i \in 1..Size}
Edges == {e \in Numbered \X Numbered : e[1][2] < e[2][2]}
AllDags ==
    {[tasks |-> Numbered, proc |-> p,
      preds |-> [t \in Numbered |-> {e[1] : e \in {d \in es : d[2] = t}}]] :
        es \in SUBSET Edges, p \in [Numbered -> Cores]}
Blocks ==
    [typ : {"CL", "CC", "QL"}, sequential : {FALSE}, pairs : {1}, callback : {FALSE}]
      \cup [typ : {"QC"}, sequential : BOOLEAN, pairs : 1..2, callback : BOOLEAN]
MCGraphs == AllDags \cup {BlockGraph(b) : b \in Blocks}
=============================================================================
