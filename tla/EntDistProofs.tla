---------------------------- MODULE EntDistProofs ----------------------------
(***************************************************************************)
(* Proofs about the entanglement distributor, for any number of nodes, all *)
(* requests and every network schedule that starts at time 0: a pair is    *)
(* delivered only to nodes that both still wait for it, a node never finds *)
(* an answer to another request than its own, and every wake-up is backed  *)
(* by a signal.                                                            *)
(*                                                                         *)
(* The first two rest on a request being in one place at a time (PlaceInv),*)
(* the last on which signals can be left when a timer runs out (SignalInv).*)
(***************************************************************************)
EXTENDS EntDist, NetworkScheduleProofs, FiniteSetTheorems

Serving(n) == joint # None /\ n \in {joint.node1, joint.node2}

\* What a node may find: a pid, or that there was no pair.
Answers == {r.pid : r \in Requests} \cup {None}

TypeOK ==
    /\ schedule \in Schedules \cup {NoSchedule} /\ now \in Nat /\ timer \in Nat
    /\ port \in [Nodes -> Seq(Requests)]
    /\ buffer \in [Nodes -> Seq(Requests)]
    /\ requests \in [Nodes -> Seq(Requests)]
    /\ \A n \in Nodes : asked[n] \in Wants[n] \cup {None}
    /\ asked \in [Nodes -> Requests \cup {None}]
    /\ replies \in [Nodes -> Seq(Answers)]
    /\ signals \subseteq Nodes
    /\ entd \in {"listening", "flushing", "awake", "bin", "delivering", "pausing", "crashed"}

\* A request or its answer is in one place: on the way, in the buffer, among
\* the requests that were put, in the pair that is generated, or on the way back.
OnePlace(n) ==
    /\ port[n] # <<>> => port[n] = <<asked[n]>>
          /\ buffer[n] = <<>> /\ requests[n] = <<>> /\ ~ Serving(n) /\ replies[n] = <<>>
    /\ buffer[n] # <<>> => buffer[n] = <<asked[n]>>
          /\ requests[n] = <<>> /\ ~ Serving(n) /\ replies[n] = <<>>
    /\ requests[n] # <<>> => requests[n] = <<asked[n]>> /\ ~ Serving(n) /\ replies[n] = <<>>
    /\ replies[n] # <<>> => ~ Serving(n)
          /\ \E answer \in {None, asked[n].pid} : replies[n] = <<answer>>
    /\ asked[n] = None =>
          port[n] = <<>> /\ buffer[n] = <<>> /\ requests[n] = <<>> /\ replies[n] = <<>> /\ ~ Serving(n)

JointIsAsked ==
    /\ entd = "delivering" <=> joint # None
    /\ joint # None =>
          /\ joint.node1 \in Nodes /\ joint.node2 \in Nodes
          /\ SideIs(asked[joint.node1], joint.qubit1, joint.pid1, joint.node2, joint.pid2)
          /\ SideIs(asked[joint.node2], joint.qubit2, joint.pid2, joint.node1, joint.pid1)

PlaceInv == (\A n \in Nodes : OnePlace(n)) /\ JointIsAsked

\* With a schedule nothing that was put is left for later, and only with one are
\* bins waited for.
BinRules ==
    /\ Scheduled => \A n \in Nodes : requests[n] = <<>>
    /\ entd = "bin" => Scheduled

PlacesOK == TypeOK /\ PlaceInv /\ BinRules

\* Before a timer runs out every signal has been delivered.
QuietWhenDue == TimerDue => signals = {}

SignalInv ==
    /\ entd = "listening" => Filled \subseteq signals
    /\ entd = "flushing" => flush \in 1..Cardinality(signals)
    /\ Scheduled =>
          /\ QuietWhenDue
          /\ entd # "crashed"
          /\ entd = "awake" /\ Filled = {} => signals = {}
          /\ entd = "listening" => signals \subseteq Filled
          /\ entd = "flushing" => Filled # {}

\* What is so long after the start of its period starts one time unit before the
\* timer runs out.
Due(t, left, place, period) == (t + left - 1 - place) % period = 0

\* So does the bin that is waited for.
SlotStarts ==
    Scheduled /\ entd = "bin" =>
        \E i \in DOMAIN schedule.pattern :
            /\ schedule.pattern[i] = slot
            /\ Due(now, timer, (i - 1) * schedule.length, schedule.period)

DistInv == PlacesOK /\ SignalInv /\ SlotStarts

------------------------------------------------------------------------------
(* The operators.                                                             *)

\* A set of positions has a first one.
LEMMA LeastIsIn ==
    ASSUME NEW S, S \subseteq Nat, S # {}
    PROVE  Least(S) \in S
<1>1. PICK k \in S : \A l \in S : ~ (<<l, k>> \in OpToRel(<, Nat))
  <2>1. IsWellFoundedOn(OpToRel(<, Nat), Nat)
    BY NatLessThanWellFounded
  <2> QED
    BY <2>1, WFMin
<1>2. ASSUME NEW l \in Nat, NEW m \in Nat, l < m
      PROVE  <<l, m>> \in OpToRel(<, Nat)
  BY <1>2 DEF OpToRel
<1>3. \A l \in S : ~ (l < k) /\ l \in Nat /\ k \in Nat
  BY <1>1, <1>2
<1>4. \A l \in S : k <= l
  BY <1>3
<1> QED
  BY <1>4 DEF Least

\* A loop over no message, and over one.
LEMMA ForBinOfNone ==
    ASSUME NEW bin
    PROVE  ForBin(<<>>, bin) = <<>>
<1> DEFINE all == <<>>
           Turn(found) == [i \in 0..Len(all) |->
               IF i = 0 THEN <<>>
               ELSE IF MatchesTimebin(all[i], bin)
                    THEN Append(found[i - 1], all[i]) ELSE found[i - 1]]
           result == CHOOSE found : found = Turn(found)
           expected == [i \in 0..Len(all) |-> <<>>]
<1>1. ForBin(<<>>, bin) = result[Len(all)]
  BY DEF ForBin
<1>2. expected = Turn(expected)
  OBVIOUS
<1>3. result = Turn(result)
  <2>1. \E found : found = Turn(found)
    BY <1>2
  <2> HIDE DEF Turn
  <2> QED
    BY <2>1, Zenon
<1> HIDE DEF result
<1> QED
  BY <1>1, <1>3

LEMMA ForBinOfOne ==
    ASSUME NEW r, NEW bin
    PROVE  ForBin(<<r>>, bin) = IF MatchesTimebin(r, bin) THEN <<r>> ELSE <<>>
<1> DEFINE all == <<r>>
           one == IF MatchesTimebin(r, bin) THEN <<r>> ELSE <<>>
           Turn(found) == [i \in 0..Len(all) |->
               IF i = 0 THEN <<>>
               ELSE IF MatchesTimebin(all[i], bin)
                    THEN Append(found[i - 1], all[i]) ELSE found[i - 1]]
           result == CHOOSE found : found = Turn(found)
           expected == [i \in 0..Len(all) |-> IF i = 0 THEN <<>> ELSE one]
<1>1. ForBin(<<r>>, bin) = result[Len(all)]
  BY DEF ForBin
<1>2. expected = Turn(expected)
  <2>1. 0..Len(all) = {0, 1} /\ all[1] = r
    OBVIOUS
  <2>2. Append(<<>>, r) = <<r>>
    OBVIOUS
  <2> QED
    BY <2>1, <2>2
<1>3. result = Turn(result)
  <2>1. \E found : found = Turn(found)
    BY <1>2
  <2> HIDE DEF Turn
  <2> QED
    BY <2>1, Zenon
<1>4. Len(all) = 1 /\ all[1] = r /\ 0 \in 0..Len(all) /\ 1 \in 0..Len(all)
  OBVIOUS
<1> HIDE DEF result
<1>5. result[0] = <<>>
  BY <1>3, <1>4
<1>6. result[1] = IF MatchesTimebin(r, bin) THEN Append(result[0], r) ELSE result[0]
  <2>1. result[1] = Turn(result)[1]
    BY <1>3
  <2>2. 1 - 1 = 0
    OBVIOUS
  <2> QED
    BY <1>4, <2>1, <2>2
<1> QED
  BY <1>1, <1>4, <1>5, <1>6

\* Two nodes that ask for each other, and the joint request that takes both.
TakesBoth(reqs, wanted, a, b, joined, left) ==
    /\ a # b
    /\ reqs[a] = <<wanted[a]>> /\ reqs[b] = <<wanted[b]>>
    /\ wanted[a] \in Wants[a] /\ wanted[b] \in Wants[b]
    /\ wanted[a].remote = b /\ wanted[b].remote = a
    /\ wanted[a].remotePid = wanted[b].pid /\ wanted[b].remotePid = wanted[a].pid
    /\ joined = [node1 |-> a, node2 |-> b,
                 qubit1 |-> wanted[a].qubit, qubit2 |-> wanted[b].qubit,
                 pid1 |-> wanted[a].pid, pid2 |-> wanted[b].pid]
    /\ left = [n \in Nodes |-> IF n \in {a, b} THEN <<>> ELSE reqs[n]]

AtMostOne(reqs, wanted) ==
    /\ reqs \in [Nodes -> Seq(Requests)]
    /\ \A n \in Nodes : reqs[n] # <<>> => reqs[n] = <<wanted[n]>> /\ wanted[n] \in Wants[n]

\* When requests meet, and no node has more than one, that is the joint request.
LEMMA JointOf ==
    ASSUME NEW reqs, NEW wanted, AtMostOne(reqs, wanted), Meeting(reqs) # {}
    PROVE  \E a, b \in Nodes :
              TakesBoth(reqs, wanted, a, b, NextJoint(reqs).joint, NextJoint(reqs).left)
<1> DEFINE place == Least(Meeting(reqs))
           a == NodeOrder[place]
           b == wanted[a].remote
           index == Least(RemoteIndices(reqs, wanted[a]))
<1>1. place \in Meeting(reqs)
  <2>1. Meeting(reqs) \subseteq Nat
    BY EntDistAssumption DEF Meeting
  <2> QED
    BY <2>1, LeastIsIn
<1>2. /\ a \in Nodes /\ reqs[a] # <<>>
      /\ RemoteIndices(reqs, Head(reqs[a])) # {}
  BY <1>1 DEF Meeting, Nodes
<1> HIDE DEF place, a
<1>3. reqs[a] = <<wanted[a]>> /\ wanted[a] \in Wants[a] /\ Head(reqs[a]) = wanted[a]
  BY <1>2 DEF AtMostOne
<1>4. wanted[a].node = a /\ b \in Nodes /\ a # b
  BY <1>2, <1>3, EntDistAssumption
<1> HIDE DEF b
<1>5. PICK i \in DOMAIN reqs[b] : IsOpposite(wanted[a], reqs[b][i])
  BY <1>2, <1>3 DEF RemoteIndices, b
<1>6. reqs[b] = <<wanted[b]>> /\ wanted[b] \in Wants[b]
  <2>1. reqs[b] # <<>>
    BY <1>5
  <2> QED
    BY <1>4, <2>1 DEF AtMostOne
<1>7. i = 1 /\ DOMAIN reqs[b] = {1} /\ reqs[b][1] = wanted[b]
  BY <1>5, <1>6
<1>8. wanted[b].node = b
  BY <1>4, <1>6, EntDistAssumption
<1>9. /\ wanted[a].remote = b /\ wanted[b].remote = a
      /\ wanted[a].remotePid = wanted[b].pid /\ wanted[b].remotePid = wanted[a].pid
  BY <1>4, <1>5, <1>7, <1>8 DEF IsOpposite
<1>10. index = 1
  <2>1. RemoteIndices(reqs, wanted[a]) = {1}
    BY <1>5, <1>7, <1>9 DEF RemoteIndices
  <2> QED
    BY <2>1, LeastIsIn
<1> HIDE DEF index
<1>11. Tail(reqs[a]) = <<>> /\ Without(reqs[b], 1) = <<>>
  BY <1>3, <1>6 DEF Without
<1>12. NextJoint(reqs) =
         [joint |-> [node1 |-> wanted[a].node, node2 |-> reqs[b][index].node,
                     qubit1 |-> wanted[a].qubit, qubit2 |-> reqs[b][index].qubit,
                     pid1 |-> wanted[a].pid, pid2 |-> wanted[a].remotePid],
          left  |-> [reqs EXCEPT ![wanted[a].node] = Tail(@), ![b] = Without(@, index)]]
  BY <1>3, <1>9 DEF NextJoint, a, place, index
<1>13. NextJoint(reqs).joint =
         [node1 |-> a, node2 |-> b,
          qubit1 |-> wanted[a].qubit, qubit2 |-> wanted[b].qubit,
          pid1 |-> wanted[a].pid, pid2 |-> wanted[b].pid]
  BY <1>4, <1>7, <1>8, <1>9, <1>10, <1>12
<1>14. NextJoint(reqs).left =
         [n \in Nodes |-> IF n \in {a, b} THEN <<>> ELSE reqs[n]]
  <2>1. NextJoint(reqs).left =
           [reqs EXCEPT ![a] = Tail(reqs[a]), ![b] = Without(reqs[b], 1)]
    BY <1>4, <1>10, <1>12
  <2> QED
    BY <1>2, <1>4, <1>11, <2>1 DEF AtMostOne
<1> QED
  BY <1>2, <1>3, <1>4, <1>6, <1>9, <1>13, <1>14 DEF TakesBoth

\* A joint request is not taken for none.
LEMMA JointIsSome ==
    ASSUME NEW reqs, NEW wanted, NEW a \in Nodes, NEW b \in Nodes, NEW joined, NEW left,
           TakesBoth(reqs, wanted, a, b, joined, left)
    PROVE  joined # None
<1>1. wanted[a] \in Requests /\ wanted[b] \in Requests
  BY DEF TakesBoth, Requests
<1>2. joined \in JointRequests
  BY <1>1 DEF TakesBoth, JointRequests
<1> QED
  BY <1>2, EntDistAssumption

------------------------------------------------------------------------------
(* Where requests are.                                                        *)

\* What the places hold is what the node asked for.
LEMMA HeldIsAsked ==
    ASSUME PlacesOK
    PROVE  /\ AtMostOne(buffer, asked) /\ AtMostOne(requests, asked)
           /\ \A n \in Nodes : asked[n] # None => asked[n] \in Wants[n]
           /\ joint # None => /\ joint.node1 \in Nodes /\ joint.node2 \in Nodes
                              /\ joint.node1 # joint.node2
<1>1. AtMostOne(buffer, asked) /\ AtMostOne(requests, asked)
  BY DEF PlacesOK, TypeOK, PlaceInv, OnePlace, AtMostOne
<1>2. \A n \in Nodes : asked[n] # None => asked[n] \in Wants[n]
  BY DEF PlacesOK, TypeOK
<1>3. ASSUME joint # None
      PROVE  /\ joint.node1 \in Nodes /\ joint.node2 \in Nodes
             /\ joint.node1 # joint.node2
  <2>1. /\ joint.node1 \in Nodes /\ joint.node2 \in Nodes
        /\ asked[joint.node1] # None /\ asked[joint.node1].remote = joint.node2
    BY <1>3 DEF PlacesOK, PlaceInv, JointIsAsked, SideIs
  <2> QED
    BY <1>2, <2>1, EntDistAssumption
<1> QED
  BY <1>1, <1>2, <1>3

LEMMA AnswersAre ==
    /\ None \in Answers
    /\ \A x \in Answers : <<x>> \in Seq(Answers)
    /\ \A n \in Nodes : \A r \in Wants[n] : r.pid \in Answers
<1>1. /\ None \in Answers
      /\ \A n \in Nodes : \A r \in Wants[n] : r.pid \in Answers
  BY DEF Answers, Requests
<1> HIDE DEF Answers
<1> QED
  BY <1>1

LEMMA InitPlaces == Init => PlacesOK
<1> SUFFICES ASSUME Init PROVE PlacesOK
  OBVIOUS
<1>1. TypeOK
  BY DEF Init, TypeOK
<1>2. \A n \in Nodes : OnePlace(n)
  BY DEF Init, OnePlace, Serving
<1>3. JointIsAsked /\ BinRules
  BY DEF Init, JointIsAsked, BinRules
<1> QED
  BY <1>1, <1>2, <1>3 DEF PlacesOK, PlaceInv

LEMMA AskPlaces ==
    ASSUME PlacesOK, NEW n \in Nodes, Ask(n)
    PROVE  PlacesOK'
<1>1. PICK r \in Wants[n] : /\ asked' = [asked EXCEPT ![n] = r]
                            /\ port' = [port EXCEPT ![n] = Append(@, r)]
  BY DEF Ask
<1>2. /\ asked[n] = None /\ schedule' = schedule /\ now' = now
      /\ buffer' = buffer /\ signals' = signals /\ replies' = replies
      /\ requests' = requests /\ entd' = entd /\ timer' = timer /\ joint' = joint
  BY DEF Ask, netVars, entdVars
<1>3. r # None /\ r \in Requests
  BY <1>1, EntDistAssumption DEF Requests
<1>4. OnePlace(n) /\ asked \in [Nodes -> Requests \cup {None}] /\ port \in [Nodes -> Seq(Requests)]
  BY DEF PlacesOK, PlaceInv, TypeOK
<1>5. /\ asked'[n] = r /\ port'[n] = <<r>>
      /\ \A m \in Nodes \ {n} : asked'[m] = asked[m] /\ port'[m] = port[m]
  <2>1. port[n] = <<>>
    BY <1>2, <1>4 DEF OnePlace
  <2> QED
    BY <1>1, <1>4, <2>1
<1>6. TypeOK'
  <2>1. port' \in [Nodes -> Seq(Requests)] /\ asked' \in [Nodes -> Requests \cup {None}]
    BY <1>1, <1>3, <1>4
  <2> QED
    BY <1>2, <1>5, <2>1 DEF PlacesOK, TypeOK
<1>7. \A m \in Nodes : OnePlace(m)'
  <2>1. OnePlace(n)'
    BY <1>2, <1>3, <1>4, <1>5 DEF OnePlace, Serving
  <2>2. ASSUME NEW m \in Nodes \ {n} PROVE OnePlace(m)'
    BY <1>2, <1>5, <2>2 DEF PlacesOK, PlaceInv, OnePlace, Serving
  <2> QED
    BY <2>1, <2>2
<1>8. JointIsAsked'
  BY <1>2, <1>5 DEF PlacesOK, PlaceInv, JointIsAsked, SideIs
<1>9. BinRules'
  BY <1>2 DEF PlacesOK, BinRules, Scheduled
<1> QED
  BY <1>6, <1>7, <1>8, <1>9 DEF PlacesOK, PlaceInv

LEMMA ReadPlaces ==
    ASSUME PlacesOK, NEW n \in Nodes, ReadReply(n)
    PROVE  PlacesOK'
<1>1. /\ asked' = [asked EXCEPT ![n] = None]
      /\ replies' = [replies EXCEPT ![n] = Tail(@)]
      /\ replies[n] # <<>> /\ schedule' = schedule /\ now' = now
      /\ buffer' = buffer /\ signals' = signals /\ port' = port
      /\ requests' = requests /\ entd' = entd /\ timer' = timer /\ joint' = joint
  BY DEF ReadReply, netVars, inVars, entdVars
<1>2. /\ OnePlace(n) /\ asked \in [Nodes -> Requests \cup {None}]
      /\ replies \in [Nodes -> Seq(Answers)]
  BY DEF PlacesOK, PlaceInv, TypeOK
<1>3. /\ asked'[n] = None /\ replies'[n] = <<>>
      /\ \A m \in Nodes \ {n} : asked'[m] = asked[m] /\ replies'[m] = replies[m]
  <2>1. \E x : replies[n] = <<x>>
    BY <1>1, <1>2 DEF OnePlace
  <2> QED
    BY <1>1, <1>2, <2>1
<1>4. TypeOK'
  <2>1. /\ asked' \in [Nodes -> Requests \cup {None}]
        /\ replies' \in [Nodes -> Seq(Answers)]
    BY <1>1, <1>2
  <2> QED
    BY <1>1, <1>3, <2>1 DEF PlacesOK, TypeOK
<1>5. \A m \in Nodes : OnePlace(m)'
  <2>1. OnePlace(n)'
    BY <1>1, <1>2, <1>3 DEF OnePlace, Serving
  <2>2. ASSUME NEW m \in Nodes \ {n} PROVE OnePlace(m)'
    BY <1>1, <1>3, <2>2 DEF PlacesOK, PlaceInv, OnePlace, Serving
  <2> QED
    BY <2>1, <2>2
<1>6. JointIsAsked'
  <2>1. ~ Serving(n)
    BY <1>1, <1>2 DEF OnePlace
  <2> QED
    BY <1>1, <1>3, <2>1 DEF PlacesOK, PlaceInv, JointIsAsked, Serving
<1>7. BinRules'
  BY <1>1 DEF PlacesOK, BinRules, Scheduled
<1> QED
  BY <1>4, <1>5, <1>6, <1>7 DEF PlacesOK, PlaceInv

LEMMA ArrivePlaces ==
    ASSUME PlacesOK, NEW n \in Nodes, Arrive(n)
    PROVE  PlacesOK'
<1>1. /\ buffer' = [buffer EXCEPT ![n] = @ \o port[n]]
      /\ port' = [port EXCEPT ![n] = <<>>]
      /\ port[n] # <<>> /\ signals' = signals \cup {n}
      /\ schedule' = schedule /\ now' = now /\ asked' = asked /\ replies' = replies
      /\ requests' = requests /\ entd' = entd /\ timer' = timer /\ joint' = joint
  BY DEF Arrive, netVars, entdVars
<1>2. /\ OnePlace(n) /\ port \in [Nodes -> Seq(Requests)] /\ buffer \in [Nodes -> Seq(Requests)]
  BY DEF PlacesOK, PlaceInv, TypeOK
<1>3. /\ buffer'[n] = <<asked[n]>> /\ port'[n] = <<>>
      /\ \A m \in Nodes \ {n} : buffer'[m] = buffer[m] /\ port'[m] = port[m]
  <2>1. buffer[n] = <<>> /\ port[n] = <<asked[n]>>
    BY <1>1, <1>2 DEF OnePlace
  <2> QED
    BY <1>1, <1>2, <2>1
<1>4. TypeOK'
  <2>1. port' \in [Nodes -> Seq(Requests)] /\ buffer' \in [Nodes -> Seq(Requests)]
    BY <1>1, <1>2
  <2> QED
    BY <1>1, <2>1 DEF PlacesOK, TypeOK
<1>5. \A m \in Nodes : OnePlace(m)'
  <2>1. OnePlace(n)'
    BY <1>1, <1>2, <1>3 DEF OnePlace, Serving
  <2>2. ASSUME NEW m \in Nodes \ {n} PROVE OnePlace(m)'
    BY <1>1, <1>3, <2>2 DEF PlacesOK, PlaceInv, OnePlace, Serving
  <2> QED
    BY <2>1, <2>2
<1>6. JointIsAsked'
  BY <1>1 DEF PlacesOK, PlaceInv, JointIsAsked
<1>7. BinRules'
  BY <1>1 DEF PlacesOK, BinRules, Scheduled
<1> QED
  BY <1>4, <1>5, <1>6, <1>7 DEF PlacesOK, PlaceInv

\* The schedule that is configured, and the bin that comes next.
LEMMA ScheduleFacts ==
    ASSUME TypeOK, Scheduled
    PROVE  /\ WellPlaced(schedule) /\ schedule \in Schedules
           /\ schedule.period \in Nat \ {0} /\ Period = schedule.period
           /\ schedule.first = 0
<1>1. schedule \in Schedules
  BY DEF TypeOK, Scheduled
<1>2. IsSchedule(schedule) /\ schedule.first = 0
  BY <1>1, EntDistAssumption, ScheduleAssumption
<1> QED
  BY <1>1, <1>2 DEF WellPlaced, IsSchedule, FirstInBin, Period

LEMMA ComingBinFacts ==
    ASSUME TypeOK, Scheduled
    PROVE  \E r \in Int : \E i \in DOMAIN schedule.pattern :
              /\ ComingBin.bin = schedule.pattern[i]
              /\ ComingBin.start = r * schedule.period + (i - 1) * schedule.length
              /\ ComingBin.start \in Nat /\ ComingBin.start >= now
<1>1. WellPlaced(schedule) /\ schedule # NoSchedule /\ now \in Nat /\ schedule.first = 0
  BY ScheduleFacts DEF Scheduled, TypeOK
<1>2. NextBinIsNext /\ AskedFor(schedule, now) = now
  BY <1>1, NextBinCorrect DEF WellPlaced, AskedFor
<1>3. /\ ComingBin.start >= now
      /\ ComingBin.start \in StartsOf(schedule, now, {ComingBin.bin})
  BY <1>1, <1>2 DEF NextBinIsNext, IsNext, ComingBin, WellPlaced
<1>4. PICK r \in Near(schedule, now), i \in DOMAIN schedule.pattern :
         schedule.pattern[i] = ComingBin.bin /\ ComingBin.start = StartOf(schedule, r, i)
  BY <1>3 DEF StartsOf
<1>5. StartOf(schedule, r, i) \in Int
  BY <1>1, StartsAround
<1>6. /\ schedule.first = 0 /\ schedule.period \in Nat \ {0} /\ schedule.length \in Nat \ {0}
      /\ DOMAIN schedule.pattern = 1..Len(schedule.pattern)
      /\ Near(schedule, now) = (Repetition(schedule, now) - 1)..(Repetition(schedule, now) + 1)
      /\ Repetition(schedule, now) \in Int
  BY <1>1, Numbers
<1>7. r \in Int /\ i \in Int
  BY <1>6
<1>8. 0 + r * schedule.period + (i - 1) * schedule.length
         = r * schedule.period + (i - 1) * schedule.length
  BY <1>6, <1>7
<1> QED
  BY <1>1, <1>3, <1>4, <1>5, <1>6, <1>7, <1>8 DEF StartOf

\* Steps that only wait, wake up or end.
LEMMA QuietPlaces ==
    ASSUME PlacesOK, Tick \/ SignalDelivered \/ Listen \/ Paused \/ Ended
    PROVE  PlacesOK'
<1>1. /\ port' = port /\ buffer' = buffer /\ requests' = requests /\ replies' = replies
      /\ asked' = asked /\ joint' = joint /\ schedule' = schedule
      /\ signals' \subseteq signals
      /\ entd' \in {"listening", "flushing", "awake", "bin", "delivering", "pausing", "crashed"}
      /\ entd' = "delivering" <=> entd = "delivering"
      /\ entd' = "bin" <=> entd = "bin"
  <2>1. CASE Tick
    BY <2>1 DEF Tick, inVars, PlacesOK, TypeOK
  <2>2. CASE SignalDelivered
    BY <2>2 DEF SignalDelivered, netVars, Timed, PlacesOK, TypeOK
  <2>3. CASE Listen \/ Paused \/ Ended
    BY <2>3 DEF Listen, Paused, Ended, netVars, inVars, entdVars, vars, PlacesOK, TypeOK
  <2> QED
    BY <2>1, <2>2, <2>3
<1>2. now' \in Nat /\ timer' \in Nat
  <2>1. CASE Tick
    <3>1. now' = (now + 1) % Period /\ timer' = IF Timed THEN timer - 1 ELSE timer
      BY <2>1 DEF Tick
    <3>2. Period \in Nat \ {0}
      BY ScheduleFacts DEF Period, PlacesOK
    <3>3. now \in Nat /\ timer \in Nat /\ (Timed => timer # 0)
      BY <2>1 DEF PlacesOK, TypeOK, Tick, OthersMayAct, TimerDue
    <3> HIDE DEF Period
    <3> QED
      BY <3>1, <3>2, <3>3
  <2>2. CASE SignalDelivered \/ Listen \/ Paused \/ Ended
    BY <2>2 DEF SignalDelivered, Listen, Paused, Ended, netVars, entdVars, vars, PlacesOK, TypeOK
  <2> QED
    BY <2>1, <2>2
<1>3. TypeOK'
  BY <1>1, <1>2 DEF PlacesOK, TypeOK
<1>4. \A n \in Nodes : OnePlace(n)'
  BY <1>1 DEF PlacesOK, PlaceInv, OnePlace, Serving
<1>5. JointIsAsked'
  BY <1>1 DEF PlacesOK, PlaceInv, JointIsAsked
<1>6. BinRules'
  BY <1>1 DEF PlacesOK, BinRules, Scheduled
<1> QED
  BY <1>3, <1>4, <1>5, <1>6 DEF PlacesOK, PlaceInv

\* What happens in a bin: two nodes that asked for it are served, or all are
\* refused; nothing is left to be served later.
ServedInBin(bin, a, b, joined) ==
    /\ a \in Nodes /\ b \in Nodes
    /\ TakesBoth(buffer, asked, a, b, joined, [n \in Nodes |-> IF n \in {a, b} THEN <<>> ELSE buffer[n]])
    /\ MatchesTimebin(asked[a], bin)
    /\ \A n \in Nodes \ {a, b} : buffer[n] # <<>> => ~ MatchesTimebin(asked[n], bin)

LEMMA BinPut ==
    ASSUME PlacesOK, Scheduled, NEW bin
    PROVE  PutForBin(bin) = [n \in Nodes |->
              IF buffer[n] # <<>> /\ MatchesTimebin(asked[n], bin) THEN <<asked[n]>> ELSE <<>>]
<1>1. ASSUME NEW n \in Nodes
      PROVE  requests[n] \o ForBin(buffer[n], bin) =
                IF buffer[n] # <<>> /\ MatchesTimebin(asked[n], bin) THEN <<asked[n]>> ELSE <<>>
  <2>1. requests[n] = <<>>
    BY DEF PlacesOK, BinRules
  <2>2. buffer[n] # <<>> => buffer[n] = <<asked[n]>>
    BY DEF PlacesOK, PlaceInv, OnePlace
  <2> QED
    BY <2>1, <2>2, ForBinOfNone, ForBinOfOne
<1> QED
  BY <1>1 DEF PutForBin

LEMMA BinHandled ==
    ASSUME PlacesOK, Scheduled, NEW bin, HandleBin(bin)
    PROVE  /\ buffer' = [n \in Nodes |-> <<>>]
           /\ requests' = [n \in Nodes |-> <<>>]
           /\ \/ /\ \E a, b \in Nodes : ServedInBin(bin, a, b, joint')
                 /\ entd' = "delivering" /\ timer' \in Nat \ {0}
                 /\ replies' = replies
              \/ /\ replies' = [n \in Nodes |->
                       IF buffer[n] # <<>> THEN <<None>> ELSE replies[n]]
                 /\ entd' = "pausing" /\ timer' = 1
                 /\ joint' = joint
<1>1. PICK reqs : reqs = PutForBin(bin)
  OBVIOUS
<1>2. reqs = [n \in Nodes |->
         IF buffer[n] # <<>> /\ MatchesTimebin(asked[n], bin) THEN <<asked[n]>> ELSE <<>>]
  BY <1>1, BinPut
<1>3. /\ buffer \in [Nodes -> Seq(Requests)]
      /\ \A n \in Nodes : buffer[n] # <<>> =>
            buffer[n] = <<asked[n]>> /\ asked[n] \in Wants[n] /\ asked[n] \in Requests
  BY HeldIsAsked DEF AtMostOne, Requests
<1>4. buffer' = [n \in Nodes |-> <<>>]
  BY DEF HandleBin
<1>5. CASE Meeting(reqs) # {}
  <2>1. /\ requests' = NextJoint(reqs).left /\ joint' = NextJoint(reqs).joint
        /\ entd' = "delivering" /\ timer' \in DeliveryTimes /\ replies' = replies
    BY <1>1, <1>5 DEF HandleBin, StartDelivery
  <2>2. AtMostOne(reqs, asked)
    <3>1. \A n \in Nodes : reqs[n] \in Seq(Requests)
      BY <1>2, <1>3
    <3> QED
      BY <1>2, <1>3, <3>1 DEF AtMostOne
  <2>3. PICK a, b \in Nodes :
           TakesBoth(reqs, asked, a, b, NextJoint(reqs).joint, NextJoint(reqs).left)
    BY <1>5, <2>2, JointOf
  <2>4. /\ buffer[a] # <<>> /\ MatchesTimebin(asked[a], bin)
        /\ buffer[b] # <<>> /\ MatchesTimebin(asked[b], bin)
    BY <1>2, <2>3 DEF TakesBoth
  <2>5. ASSUME NEW n \in Nodes \ {a, b}, buffer[n] # <<>>
        PROVE  ~ MatchesTimebin(asked[n], bin)
    <3>1. /\ asked[n].node = n /\ asked[a].node = a /\ asked[a].remote = b
      BY <1>3, <2>3, <2>4, <2>5, EntDistAssumption DEF TakesBoth
    <3>2. {a, b} = bin.nodes
      BY <2>4, <3>1 DEF MatchesTimebin
    <3> QED
      BY <2>5, <3>1, <3>2 DEF MatchesTimebin
  <2>6. NextJoint(reqs).left = [n \in Nodes |-> <<>>]
    <3>1. NextJoint(reqs).left = [n \in Nodes |-> IF n \in {a, b} THEN <<>> ELSE reqs[n]]
      BY <2>3 DEF TakesBoth
    <3>2. \A n \in Nodes \ {a, b} : reqs[n] = <<>>
      BY <1>2, <2>5
    <3> QED
      BY <3>1, <3>2
  <2>7. ServedInBin(bin, a, b, joint')
    <3>1. TakesBoth(buffer, asked, a, b, joint',
                    [n \in Nodes |-> IF n \in {a, b} THEN <<>> ELSE buffer[n]])
      BY <1>3, <2>1, <2>3, <2>4 DEF TakesBoth
    <3> QED
      BY <2>4, <2>5, <3>1 DEF ServedInBin
  <2> QED
    BY <1>4, <2>1, <2>6, <2>7, EntDistAssumption
<1>6. CASE Meeting(reqs) = {}
  <2>1. /\ replies' = [n \in Nodes |-> replies[n] \o [i \in DOMAIN buffer[n] |-> None]]
        /\ requests' = [n \in Nodes |-> <<>>]
        /\ entd' = "pausing" /\ timer' = 1 /\ joint' = joint
    BY <1>1, <1>6 DEF HandleBin, Refuse, ClearRequests
  <2>2. ASSUME NEW n \in Nodes
        PROVE  replies[n] \o [i \in DOMAIN buffer[n] |-> None] =
                  IF buffer[n] # <<>> THEN <<None>> ELSE replies[n]
    <3>1. replies[n] \in Seq(Answers)
      BY DEF PlacesOK, TypeOK
    <3>2. CASE buffer[n] # <<>>
      <4>1. replies[n] = <<>> /\ buffer[n] = <<asked[n]>>
        BY <3>2 DEF PlacesOK, PlaceInv, OnePlace
      <4>2. [i \in DOMAIN buffer[n] |-> None] = <<None>>
        BY <4>1
      <4> QED
        BY <3>2, <4>1, <4>2
    <3>3. CASE buffer[n] = <<>>
      <4>1. [i \in DOMAIN buffer[n] |-> None] = <<>>
        BY <3>3
      <4> QED
        BY <3>1, <3>3, <4>1
    <3> QED
      BY <3>2, <3>3
  <2> QED
    BY <1>4, <2>1, <2>2
<1> QED
  BY <1>5, <1>6

\* Two nodes whose requests are taken together are served from then on.
LEMMA TakenAreServed ==
    ASSUME NEW reqs, NEW a \in Nodes, NEW b \in Nodes, NEW left,
           TakesBoth(reqs, asked, a, b, joint', left), asked' = asked
    PROVE  /\ joint' # None /\ \A n \in Nodes : Serving(n)' <=> n \in {a, b}
           /\ joint'.node1 \in Nodes /\ joint'.node2 \in Nodes
           /\ SideIs(asked[joint'.node1], joint'.qubit1, joint'.pid1, joint'.node2, joint'.pid2)
           /\ SideIs(asked[joint'.node2], joint'.qubit2, joint'.pid2, joint'.node1, joint'.pid1)
<1>1. joint' # None
  BY JointIsSome
<1>2. /\ joint'.node1 = a /\ joint'.node2 = b
      /\ joint'.qubit1 = asked[a].qubit /\ joint'.qubit2 = asked[b].qubit
      /\ joint'.pid1 = asked[a].pid /\ joint'.pid2 = asked[b].pid
  BY DEF TakesBoth
<1>3. asked[a] # None /\ asked[b] # None
  BY EntDistAssumption DEF TakesBoth, Requests
<1> QED
  BY <1>1, <1>2, <1>3 DEF SideIs, TakesBoth, Serving

LEMMA BinPlaces ==
    ASSUME PlacesOK, Scheduled, joint = None, NEW bin, HandleBin(bin),
           schedule' = schedule, now' = now, port' = port, signals' = signals, asked' = asked
    PROVE  PlacesOK'
<1>1. /\ buffer' = [n \in Nodes |-> <<>>]
      /\ requests' = [n \in Nodes |-> <<>>]
      /\ \/ /\ \E a, b \in Nodes : ServedInBin(bin, a, b, joint')
            /\ entd' = "delivering" /\ timer' \in Nat \ {0}
            /\ replies' = replies
         \/ /\ replies' = [n \in Nodes |->
                  IF buffer[n] # <<>> THEN <<None>> ELSE replies[n]]
            /\ entd' = "pausing" /\ timer' = 1
            /\ joint' = joint
  BY BinHandled
<1>2. replies \in [Nodes -> Seq(Answers)]
  BY DEF PlacesOK, TypeOK
<1>3. TypeOK'
  <2>1. replies' \in [Nodes -> Seq(Answers)]
    BY <1>1, <1>2, AnswersAre
  <2>2. buffer' \in [Nodes -> Seq(Requests)] /\ requests' \in [Nodes -> Seq(Requests)]
    BY <1>1
  <2>3. timer' \in Nat /\ entd' \in {"delivering", "pausing"}
    BY <1>1
  <2> QED
    BY <2>1, <2>2, <2>3 DEF PlacesOK, TypeOK
<1>4. BinRules'
  BY <1>1 DEF BinRules, Scheduled
<1>5. CASE entd' = "delivering"
  <2>1. replies' = replies
    BY <1>1, <1>5
  <2>2. PICK a, b \in Nodes : ServedInBin(bin, a, b, joint')
    BY <1>1, <1>5
  <2>3. TakesBoth(buffer, asked, a, b, joint',
                  [n \in Nodes |-> IF n \in {a, b} THEN <<>> ELSE buffer[n]])
    BY <2>2 DEF ServedInBin
  <2>4. \A n \in Nodes : Serving(n)' <=> n \in {a, b}
    BY <2>3, TakenAreServed
  <2>5. JointIsAsked'
    BY <1>5, <2>3, TakenAreServed DEF JointIsAsked
  <2>6. ASSUME NEW n \in Nodes PROVE OnePlace(n)'
    <3>1. n \in {a, b} => buffer[n] # <<>>
      BY <2>3 DEF TakesBoth
    <3>2. OnePlace(n)
      BY DEF PlacesOK, PlaceInv
    <3>3. buffer'[n] = <<>> /\ requests'[n] = <<>>
      BY <1>1
    <3> QED
      BY <2>1, <2>4, <3>1, <3>2, <3>3 DEF OnePlace
  <2> QED
    BY <1>3, <1>4, <2>5, <2>6 DEF PlacesOK, PlaceInv
<1>6. CASE entd' # "delivering"
  <2>1. /\ replies' = [n \in Nodes |-> IF buffer[n] # <<>> THEN <<None>> ELSE replies[n]]
        /\ joint' = None
    BY <1>1, <1>6
  <2>2. JointIsAsked'
    BY <1>6, <2>1 DEF JointIsAsked
  <2>3. ASSUME NEW n \in Nodes PROVE OnePlace(n)'
    <3>1. OnePlace(n)
      BY DEF PlacesOK, PlaceInv
    <3>2. buffer'[n] = <<>> /\ requests'[n] = <<>>
      BY <1>1
    <3>3. replies'[n] = IF buffer[n] # <<>> THEN <<None>> ELSE replies[n]
      BY <2>1
    <3>4. ~ Serving(n)'
      BY <2>1 DEF Serving
    <3> QED
      BY <3>1, <3>2, <3>3, <3>4 DEF OnePlace
  <2> QED
    BY <1>3, <1>4, <2>2, <2>3 DEF PlacesOK, PlaceInv
<1> QED
  BY <1>5, <1>6

LEMMA ScheduledPlaces ==
    ASSUME PlacesOK, AwaitBin \/ BinStarted
    PROVE  PlacesOK'
<1>1. /\ Scheduled /\ joint = None
      /\ schedule' = schedule /\ now' = now /\ port' = port /\ signals' = signals
      /\ asked' = asked
  <2>1. (entd = "awake" /\ Scheduled) \/ entd = "bin"
    BY DEF AwaitBin, BinStarted
  <2>2. Scheduled /\ joint = None
    BY <2>1 DEF PlacesOK, PlaceInv, JointIsAsked, BinRules
  <2>3. /\ schedule' = schedule /\ now' = now /\ port' = port /\ signals' = signals
        /\ asked' = asked
    BY DEF AwaitBin, BinStarted, netVars
  <2> QED
    BY <2>2, <2>3
<1>2. CASE \E bin : HandleBin(bin)
  BY <1>1, <1>2, BinPlaces
<1>3. CASE ~ \E bin : HandleBin(bin)
  <2>1. /\ entd' = "bin" /\ timer' = ComingBin.start - now + 1
        /\ buffer' = buffer /\ requests' = requests /\ joint' = joint /\ replies' = replies
    BY <1>3 DEF AwaitBin, BinStarted
  <2>2. timer' \in Nat
    <3>1. ComingBin.start \in Nat /\ ComingBin.start >= now /\ now \in Nat
      BY <1>1, ComingBinFacts DEF PlacesOK, TypeOK
    <3>2. \A x, y \in Nat : x >= y => x - y + 1 \in Nat
      OBVIOUS
    <3> QED
      BY <2>1, <3>1, <3>2
  <2>3. TypeOK'
    BY <1>1, <2>1, <2>2 DEF PlacesOK, TypeOK
  <2>4. \A n \in Nodes : OnePlace(n)'
    BY <1>1, <2>1 DEF PlacesOK, PlaceInv, OnePlace, Serving
  <2>5. JointIsAsked' /\ BinRules'
    BY <1>1, <2>1 DEF PlacesOK, PlaceInv, JointIsAsked, BinRules, Scheduled
  <2> QED
    BY <2>3, <2>4, <2>5 DEF PlacesOK, PlaceInv
<1> QED
  BY <1>2, <1>3

\* The answers to a pair: each node gets one, about its own program.
LEMMA PairAnswered ==
    ASSUME PlacesOK, entd = "delivering", AnswerPair
    PROVE  /\ joint # None
           /\ replies' \in [Nodes -> Seq(Answers)]
           /\ \A n \in Nodes :
                 replies'[n] = IF Serving(n) THEN <<asked[n].pid>> ELSE replies[n]
<1>1. /\ joint # None
      /\ asked[joint.node1].pid = joint.pid1 /\ asked[joint.node2].pid = joint.pid2
      /\ asked[joint.node1] # None /\ asked[joint.node2] # None
  BY DEF PlacesOK, PlaceInv, JointIsAsked, SideIs
<1>2. PICK a, b : a = joint.node1 /\ b = joint.node2
  OBVIOUS
<1>3. a \in Nodes /\ b \in Nodes /\ a # b
  BY <1>1, <1>2, HeldIsAsked
<1>4. replies[a] = <<>> /\ replies[b] = <<>>
  BY <1>1, <1>2, <1>3 DEF PlacesOK, PlaceInv, OnePlace, Serving
<1>5. replies \in [Nodes -> Seq(Answers)]
  BY DEF PlacesOK, TypeOK
<1>6. replies' = [replies EXCEPT ![a] = Append(replies[a], asked[a].pid),
                                 ![b] = Append(replies[b], asked[b].pid)]
  BY <1>1, <1>2, <1>3 DEF AnswerPair
<1>7. replies' = [replies EXCEPT ![a] = <<asked[a].pid>>, ![b] = <<asked[b].pid>>]
  BY <1>4, <1>6
<1>8. <<asked[a].pid>> \in Seq(Answers) /\ <<asked[b].pid>> \in Seq(Answers)
  BY <1>1, <1>2, <1>3, HeldIsAsked, AnswersAre
<1>9. replies' \in [Nodes -> Seq(Answers)]
  BY <1>3, <1>5, <1>7, <1>8
<1>10. \A n \in Nodes : Serving(n) <=> n \in {a, b}
  BY <1>1, <1>2 DEF Serving
<1>11. \A n \in Nodes : replies'[n] = IF n \in {a, b} THEN <<asked[n].pid>> ELSE replies[n]
  BY <1>3, <1>5, <1>7
<1> QED
  BY <1>1, <1>9, <1>10, <1>11

LEMMA DeliveredInBinPlaces ==
    ASSUME PlacesOK, DeliveredInBin
    PROVE  PlacesOK'
<1>1. /\ entd = "delivering" /\ AnswerPair /\ requests' = [n \in Nodes |-> <<>>]
      /\ entd' = "pausing" /\ timer' = 1 /\ joint' = None
      /\ schedule' = schedule /\ now' = now /\ asked' = asked
      /\ port' = port /\ buffer' = buffer /\ signals' = signals
  BY DEF DeliveredInBin, ClearRequests, netVars, inVars
<1>2. /\ replies' \in [Nodes -> Seq(Answers)]
      /\ \A n \in Nodes :
            replies'[n] = IF Serving(n) THEN <<asked[n].pid>> ELSE replies[n]
  BY <1>1, PairAnswered
<1>3. TypeOK'
  <2>1. requests' \in [Nodes -> Seq(Requests)] /\ timer' \in Nat
    BY <1>1
  <2> QED
    BY <1>1, <1>2, <2>1 DEF PlacesOK, TypeOK
<1>4. ASSUME NEW n \in Nodes PROVE OnePlace(n)'
  <2>1. OnePlace(n)
    BY DEF PlacesOK, PlaceInv
  <2>2. requests'[n] = <<>> /\ ~ Serving(n)'
    BY <1>1 DEF Serving
  <2>3. replies'[n] = IF Serving(n) THEN <<asked[n].pid>> ELSE replies[n]
    BY <1>2
  <2> QED
    BY <1>1, <2>1, <2>2, <2>3 DEF OnePlace
<1>5. JointIsAsked' /\ BinRules'
  BY <1>1 DEF JointIsAsked, BinRules
<1> QED
  BY <1>3, <1>4, <1>5 DEF PlacesOK, PlaceInv

\* What serve_all_requests does: it serves two nodes that ask for each other, or
\* goes back to waiting.
LEMMA ServedNext ==
    ASSUME NEW reqs, AtMostOne(reqs, asked), ServeNext(reqs)
    PROVE  \/ /\ \E a, b \in Nodes : TakesBoth(reqs, asked, a, b, joint', requests')
              /\ entd' = "delivering" /\ timer' \in Nat \ {0}
           \/ requests' = reqs /\ entd' = "awake" /\ joint' = None /\ timer' = timer
<1>1. CASE Meeting(reqs) # {}
  <2>1. PICK a, b \in Nodes :
           TakesBoth(reqs, asked, a, b, NextJoint(reqs).joint, NextJoint(reqs).left)
    BY <1>1, JointOf
  <2>2. /\ joint' = NextJoint(reqs).joint /\ requests' = NextJoint(reqs).left
        /\ entd' = "delivering" /\ timer' \in DeliveryTimes
    BY <1>1 DEF ServeNext, StartDelivery
  <2>3. TakesBoth(reqs, asked, a, b, joint', requests')
    BY <2>1, <2>2 DEF TakesBoth
  <2> QED
    BY <2>2, <2>3, EntDistAssumption
<1>2. CASE Meeting(reqs) = {}
  BY <1>2 DEF ServeNext
<1> QED
  BY <1>1, <1>2

\* The places of a node's request before it is served from these requests.
Waiting(n, reqs, ways, kept, answers) ==
    /\ reqs[n] # <<>> => ways[n] = <<>> /\ kept[n] = <<>> /\ answers[n] = <<>>
    /\ ways[n] # <<>> => ways[n] = <<asked[n]>> /\ kept[n] = <<>> /\ answers[n] = <<>>
    /\ kept[n] # <<>> => kept[n] = <<asked[n]>> /\ answers[n] = <<>>
    /\ answers[n] # <<>> => \E answer \in {None, asked[n].pid} : answers[n] = <<answer>>
    /\ asked[n] = None =>
          reqs[n] = <<>> /\ ways[n] = <<>> /\ kept[n] = <<>> /\ answers[n] = <<>>

LEMMA ServeNextPlaces ==
    ASSUME PlacesOK, ~ Scheduled, NEW reqs, AtMostOne(reqs, asked), ServeNext(reqs),
           schedule' = schedule, now' = now, port' = port, signals' = signals, asked' = asked,
           buffer' \in [Nodes -> Seq(Requests)], replies' \in [Nodes -> Seq(Answers)],
           \A n \in Nodes : Waiting(n, reqs, port', buffer', replies')
    PROVE  PlacesOK'
<1>1. reqs \in [Nodes -> Seq(Requests)]
      /\ \A n \in Nodes : reqs[n] # <<>> => reqs[n] = <<asked[n]>>
  BY DEF AtMostOne
<1>2. CASE requests' = reqs /\ entd' = "awake" /\ joint' = None /\ timer' = timer
  <2>1. TypeOK'
    BY <1>1, <1>2 DEF PlacesOK, TypeOK
  <2>2. ASSUME NEW n \in Nodes PROVE OnePlace(n)'
    <3>1. Waiting(n, reqs, port', buffer', replies')
      OBVIOUS
    <3> QED
      BY <1>1, <1>2, <3>1 DEF OnePlace, Waiting, Serving
  <2>3. JointIsAsked' /\ BinRules'
    BY <1>2 DEF JointIsAsked, BinRules, Scheduled
  <2> QED
    BY <2>1, <2>2, <2>3 DEF PlacesOK, PlaceInv
<1>3. ASSUME NEW a \in Nodes, NEW b \in Nodes, TakesBoth(reqs, asked, a, b, joint', requests'),
             entd' = "delivering", timer' \in Nat \ {0}
      PROVE  PlacesOK'
  <2>1. /\ reqs[a] # <<>> /\ reqs[b] # <<>>
        /\ requests' = [n \in Nodes |-> IF n \in {a, b} THEN <<>> ELSE reqs[n]]
    BY <1>3 DEF TakesBoth
  <2>2. /\ joint' # None /\ \A n \in Nodes : Serving(n)' <=> n \in {a, b}
    BY <1>3, TakenAreServed
  <2>3. TypeOK'
    <3>1. requests' \in [Nodes -> Seq(Requests)] /\ timer' \in Nat
      BY <1>1, <1>3, <2>1
    <3> QED
      BY <1>3, <3>1 DEF PlacesOK, TypeOK
  <2>4. ASSUME NEW n \in Nodes PROVE OnePlace(n)'
    <3>1. Waiting(n, reqs, port', buffer', replies')
      OBVIOUS
    <3>2. /\ Serving(n)' => reqs[n] # <<>> /\ requests'[n] = <<>>
          /\ ~ Serving(n)' => requests'[n] = reqs[n]
      BY <2>1, <2>2
    <3> QED
      BY <1>1, <3>1, <3>2 DEF OnePlace, Waiting
  <2>5. JointIsAsked'
    BY <1>3, TakenAreServed DEF JointIsAsked
  <2>6. BinRules'
    BY <1>3 DEF BinRules, Scheduled
  <2> QED
    BY <2>3, <2>4, <2>5, <2>6 DEF PlacesOK, PlaceInv
<1> QED
  BY <1>2, <1>3, ServedNext

\* The message that is taken is the request of a node whose buffer is not empty.
LEMMA MessageTaken ==
    ASSUME PlacesOK, HandleMessage
    PROVE  \E n \in Nodes :
              /\ buffer[n] = <<asked[n]>> /\ asked[n] \in Wants[n]
              /\ buffer' = [buffer EXCEPT ![n] = <<>>]
              /\ ServeNext([requests EXCEPT ![n] = Append(@, asked[n])])
<1> DEFINE places == {i \in DOMAIN NodeOrder : NodeOrder[i] \in Filled}
           first == NodeOrder[Least(places)]
<1>1. first \in Filled
  <2>1. places \subseteq Nat
    BY EntDistAssumption
  <2>2. places # {}
    BY DEF HandleMessage, Filled, Nodes
  <2>3. Least(places) \in places
    <3> HIDE DEF places
    <3> QED
      BY <2>1, <2>2, LeastIsIn
  <2> QED
    BY <2>3
<1>2. /\ buffer' = [buffer EXCEPT ![first] = Tail(@)]
      /\ ServeNext([requests EXCEPT ![Head(buffer[first]).node] = Append(@, Head(buffer[first]))])
  BY DEF HandleMessage
<1>3. PICK n \in Nodes : n = first /\ buffer[n] # <<>>
  BY <1>1 DEF Filled
<1> HIDE DEF first
<1>4. buffer[n] = <<asked[n]>> /\ asked[n] \in Wants[n]
  BY <1>3, HeldIsAsked DEF AtMostOne
<1>5. Head(buffer[n]) = asked[n] /\ Tail(buffer[n]) = <<>> /\ asked[n].node = n
  BY <1>4, EntDistAssumption
<1>6. buffer' = [buffer EXCEPT ![n] = <<>>]
  BY <1>2, <1>3, <1>5
<1>7. ServeNext([requests EXCEPT ![n] = Append(@, asked[n])])
  BY <1>2, <1>3, <1>5
<1> QED
  BY <1>4, <1>6, <1>7

LEMMA HandlePlaces ==
    ASSUME PlacesOK, HandleMessage
    PROVE  PlacesOK'
<1>1. PICK n \in Nodes :
         /\ buffer[n] = <<asked[n]>> /\ asked[n] \in Wants[n]
         /\ buffer' = [buffer EXCEPT ![n] = <<>>]
         /\ ServeNext([requests EXCEPT ![n] = Append(@, asked[n])])
  BY MessageTaken
<1>2. /\ ~ Scheduled /\ entd = "awake"
      /\ schedule' = schedule /\ now' = now /\ port' = port /\ signals' = signals
      /\ asked' = asked /\ replies' = replies
  BY DEF HandleMessage, netVars
<1>3. PICK reqs : reqs = [requests EXCEPT ![n] = Append(@, asked[n])]
  OBVIOUS
<1>4. /\ buffer \in [Nodes -> Seq(Requests)] /\ requests \in [Nodes -> Seq(Requests)]
      /\ replies \in [Nodes -> Seq(Answers)]
      /\ \A m \in Nodes : OnePlace(m) /\ ~ Serving(m)
  BY <1>2 DEF PlacesOK, TypeOK, PlaceInv, JointIsAsked, Serving
<1>5. /\ buffer'[n] = <<>> /\ reqs[n] = <<asked[n]>>
      /\ \A m \in Nodes \ {n} : buffer'[m] = buffer[m] /\ reqs[m] = requests[m]
  <2>1. requests[n] = <<>>
    BY <1>1, <1>4 DEF OnePlace
  <2> QED
    BY <1>1, <1>3, <1>4, <2>1
<1>6. buffer' \in [Nodes -> Seq(Requests)]
  BY <1>1, <1>4
<1>7. AtMostOne(reqs, asked)
  <2>1. asked[n] \in Requests
    BY <1>1 DEF Requests
  <2>2. reqs \in [Nodes -> Seq(Requests)]
    BY <1>3, <1>4, <2>1
  <2>3. AtMostOne(requests, asked)
    BY HeldIsAsked
  <2> QED
    BY <1>1, <1>5, <2>2, <2>3 DEF AtMostOne
<1>8. ASSUME NEW m \in Nodes PROVE Waiting(m, reqs, port', buffer', replies')
  <2>1. OnePlace(m) /\ OnePlace(n)
    BY <1>4
  <2>2. CASE m = n
    <3>1. asked[n] # None
      BY <1>1, EntDistAssumption DEF Requests
    <3> QED
      BY <1>1, <1>2, <1>5, <2>1, <2>2, <3>1 DEF OnePlace, Waiting
  <2>3. CASE m # n
    BY <1>2, <1>5, <2>1, <2>3 DEF OnePlace, Waiting
  <2> QED
    BY <2>2, <2>3
<1> QED
  BY <1>1, <1>2, <1>3, <1>4, <1>6, <1>7, <1>8, ServeNextPlaces

LEMMA DeliveredPlaces ==
    ASSUME PlacesOK, Delivered
    PROVE  PlacesOK'
<1>1. /\ ~ Scheduled /\ entd = "delivering" /\ AnswerPair /\ ServeNext(requests)
      /\ schedule' = schedule /\ now' = now /\ port' = port /\ signals' = signals
      /\ asked' = asked /\ buffer' = buffer
  BY DEF Delivered, netVars, inVars
<1>2. /\ joint # None /\ replies' \in [Nodes -> Seq(Answers)]
      /\ \A n \in Nodes :
            replies'[n] = IF Serving(n) THEN <<asked[n].pid>> ELSE replies[n]
  BY <1>1, PairAnswered
<1>3. buffer \in [Nodes -> Seq(Requests)]
  BY DEF PlacesOK, TypeOK
<1>4. ASSUME NEW n \in Nodes PROVE Waiting(n, requests, port', buffer', replies')
  <2>1. OnePlace(n)
    BY DEF PlacesOK, PlaceInv
  <2>2. replies'[n] = IF Serving(n) THEN <<asked[n].pid>> ELSE replies[n]
    BY <1>2
  <2> QED
    BY <1>1, <2>1, <2>2 DEF OnePlace, Waiting
<1> QED
  BY <1>1, <1>2, <1>3, <1>4, HeldIsAsked, ServeNextPlaces

\* Every step leaves every request in one place.
LEMMA StepPlaces == PlacesOK /\ [Next]_vars => PlacesOK'
<1> SUFFICES ASSUME PlacesOK, [Next]_vars PROVE PlacesOK'
  OBVIOUS
<1>1. CASE Tick \/ SignalDelivered \/ Listen \/ Paused \/ Ended
  BY <1>1, QuietPlaces
<1>2. ASSUME NEW n \in Nodes, Ask(n) \/ ReadReply(n) \/ Arrive(n)
      PROVE  PlacesOK'
  BY <1>2, AskPlaces, ReadPlaces, ArrivePlaces
<1>3. CASE AwaitBin \/ BinStarted
  BY <1>3, ScheduledPlaces
<1>4. CASE DeliveredInBin
  BY <1>4, DeliveredInBinPlaces
<1>5. CASE HandleMessage
  BY <1>5, HandlePlaces
<1>6. CASE Delivered
  BY <1>6, DeliveredPlaces
<1>7. CASE UNCHANGED vars
  <2>1. TypeOK'
    BY <1>7 DEF PlacesOK, TypeOK, vars, netVars, inVars, entdVars
  <2>2. (\A n \in Nodes : OnePlace(n)') /\ JointIsAsked'
    BY <1>7 DEF PlacesOK, PlaceInv, OnePlace, JointIsAsked, Serving, vars, netVars, inVars, entdVars
  <2>3. BinRules'
    BY <1>7 DEF PlacesOK, BinRules, Scheduled, vars, netVars, entdVars
  <2> QED
    BY <2>1, <2>2, <2>3 DEF PlacesOK, PlaceInv
<1> QED
  BY <1>1, <1>2, <1>3, <1>4, <1>5, <1>6, <1>7 DEF Next

THEOREM PlacesInvariant == Spec => []PlacesOK
<1> QED
  BY InitPlaces, StepPlaces, PTL DEF Spec

\* A pair is delivered to two nodes that still wait for each other, in the qubits
\* they gave: of no node are two requests with the distributor, and of none is a
\* request there when the node has gone on.
THEOREM ServedPairsAreAwaited == Spec => []ServedPairIsAwaited
<1>1. PlacesOK => ServedPairIsAwaited
  <2> SUFFICES ASSUME PlacesOK, joint # None PROVE ServedPairIsAwaited
    BY DEF ServedPairIsAwaited
  <2>1. joint.node1 \in Nodes /\ joint.node2 \in Nodes
    BY HeldIsAsked
  <2>2. replies[joint.node1] = <<>> /\ replies[joint.node2] = <<>>
    BY <2>1 DEF PlacesOK, PlaceInv, OnePlace, Serving
  <2> QED
    BY <2>2 DEF ServedPairIsAwaited, PlacesOK, PlaceInv, JointIsAsked
<1> QED
  BY <1>1, PlacesInvariant, PTL

\* What a node reads is the answer to its request: there is one answer at most,
\* to a node that waits, about the program that it waits for.
THEOREM AnswersStayCurrent == Spec => []AnswersAreCurrent
<1>1. PlacesOK => AnswersAreCurrent
  <2> SUFFICES ASSUME PlacesOK, NEW n \in Nodes, replies[n] # <<>>
               PROVE  /\ Len(replies[n]) = 1
                      /\ asked[n] # None
                      /\ replies[n][1] \in {None, asked[n].pid}
    BY DEF AnswersAreCurrent
  <2>1. OnePlace(n)
    BY DEF PlacesOK, PlaceInv
  <2>2. PICK answer \in {None, asked[n].pid} : replies[n] = <<answer>>
    BY <2>1 DEF OnePlace
  <2> QED
    BY <2>1, <2>2 DEF OnePlace
<1> QED
  BY <1>1, PlacesInvariant, PTL

------------------------------------------------------------------------------
(* Signals.                                                                   *)

LEMMA SignalsAreFinite ==
    ASSUME PlacesOK
    PROVE  /\ IsFiniteSet(signals) /\ Cardinality(signals) \in Nat
           /\ \A S \in SUBSET Nodes : IsFiniteSet(S)
           /\ Filled \subseteq Nodes
<1>1. IsFiniteSet(1..Len(NodeOrder)) /\ DOMAIN NodeOrder = 1..Len(NodeOrder)
  BY EntDistAssumption, FS_Interval
<1>2. IsFiniteSet(Nodes)
  <2>1. NodeOrder \in [1..Len(NodeOrder) -> Nodes]
    BY EntDistAssumption
  <2>2. \A n \in Nodes : \E i \in 1..Len(NodeOrder) : NodeOrder[i] = n
    BY <1>1 DEF Nodes
  <2>3. NodeOrder \in Surjection(1..Len(NodeOrder), Nodes)
    BY <2>1, <2>2, Zenon DEF Surjection
  <2> QED
    BY <1>1, <2>3, FS_Surjection
<1>3. \A S \in SUBSET Nodes : IsFiniteSet(S)
  BY <1>2, FS_Subset
<1>4. signals \subseteq Nodes
  BY DEF PlacesOK, TypeOK
<1> QED
  BY <1>3, <1>4, FS_CardinalityType DEF Filled

\* A message arrives, and with it a signal.
LEMMA ArriveSignals ==
    ASSUME PlacesOK, SignalInv, NEW n \in Nodes, Arrive(n)
    PROVE  SignalInv'
<1>1. /\ entd' = entd /\ flush' = flush /\ timer' = timer /\ schedule' = schedule
      /\ signals' = signals \cup {n} /\ port[n] # <<>> /\ ~ TimerDue /\ entd \notin {"awake", "crashed"}
      /\ buffer' = [buffer EXCEPT ![n] = @ \o port[n]]
  BY DEF Arrive, netVars, entdVars, OthersMayAct
<1>2. Filled' = Filled \cup {n}
  <2>1. port[n] \in Seq(Requests) /\ buffer \in [Nodes -> Seq(Requests)]
    BY DEF PlacesOK, TypeOK
  <2>2. buffer'[n] # <<>>
    <3>1. buffer'[n] = buffer[n] \o port[n] /\ buffer[n] \in Seq(Requests)
      BY <1>1, <2>1
    <3> QED
      BY <1>1, <2>1, <3>1
  <2>3. \A m \in Nodes \ {n} : buffer'[m] = buffer[m]
    BY <1>1, <2>1
  <2> QED
    BY <2>2, <2>3 DEF Filled
<1>3. Cardinality(signals) <= Cardinality(signals') /\ Cardinality(signals') \in Nat
  <2>1. IsFiniteSet(signals) /\ Cardinality(signals) \in Nat
    BY SignalsAreFinite
  <2>2. Cardinality(signals \cup {n}) =
           IF n \in signals THEN Cardinality(signals) ELSE Cardinality(signals) + 1
    BY <2>1, FS_AddElement
  <2> QED
    BY <1>1, <2>1, <2>2
<1>4. entd = "flushing" => flush' \in 1..Cardinality(signals')
  <2>1. entd = "flushing" => flush \in 1..Cardinality(signals)
    BY DEF SignalInv
  <2> QED
    BY <1>1, <1>3, <2>1, SignalsAreFinite
<1> QED
  BY <1>1, <1>2, <1>4 DEF SignalInv, QuietWhenDue, TimerDue, Timed, Scheduled

\* A signal reaches the distributor.
LEMMA DeliverSignals ==
    ASSUME PlacesOK, SignalInv, SignalDelivered
    PROVE  SignalInv'
<1>1. /\ timer' = timer /\ schedule' = schedule /\ buffer' = buffer /\ ~ TimerDue
  BY DEF SignalDelivered, netVars, OthersMayAct
<1>2. PICK n \in signals : signals' = signals \ {n}
  BY DEF SignalDelivered
<1>3. /\ Cardinality(signals') = Cardinality(signals) - 1
      /\ Cardinality(signals) \in Nat /\ Cardinality(signals') \in Nat
  BY <1>2, SignalsAreFinite, FS_RemoveElement, FS_CardinalityType
<1>4. Filled' = Filled
  BY <1>1 DEF Filled
<1>5. CASE entd = "listening" /\ Filled = {} /\ entd' = "crashed"
  <2>1. ~ Scheduled
    BY <1>2, <1>5 DEF SignalInv
  <2> QED
    BY <1>1, <1>5, <2>1 DEF SignalInv, Scheduled
<1>6. CASE /\ entd = "listening" /\ Filled # {} /\ flush' = FlushCount
           /\ entd' = IF flush' = 0 THEN "awake" ELSE "flushing"
  <2>1. Filled \subseteq signals
    BY <1>6 DEF SignalInv
  <2>2. Cardinality(Filled) \in Nat /\ Cardinality(Filled) <= Cardinality(signals)
        /\ Cardinality(Filled) # 0
    BY <1>6, <2>1, SignalsAreFinite, FS_Subset, FS_CardinalityType, FS_EmptySet
  <2>3. entd' = "flushing" => flush' \in 1..Cardinality(signals')
    BY <1>3, <1>6, <2>2 DEF FlushCount
  <2> QED
    BY <1>1, <1>4, <1>6, <2>3 DEF SignalInv, QuietWhenDue, TimerDue, Timed, Scheduled
<1>7. CASE /\ entd = "flushing" /\ flush' = flush - 1
           /\ entd' = IF flush' = 0 THEN "awake" ELSE "flushing"
  <2>1. flush \in 1..Cardinality(signals)
    BY <1>7 DEF SignalInv
  <2>2. entd' = "flushing" => flush' \in 1..Cardinality(signals')
    BY <1>3, <1>7, <2>1
  <2> QED
    BY <1>1, <1>4, <1>7, <2>2 DEF SignalInv, QuietWhenDue, TimerDue, Timed, Scheduled
<1>8. CASE Timed /\ entd' = entd /\ flush' = flush
  BY <1>1, <1>2, <1>4, <1>8 DEF SignalInv, QuietWhenDue, TimerDue, Timed, Scheduled
<1> QED
  BY <1>5, <1>6, <1>7, <1>8 DEF SignalDelivered

\* The distributor goes on when it has messages, or a timer that is set.
LEMMA WorkSignals ==
    ASSUME PlacesOK, SignalInv,
           AwaitBin \/ BinStarted \/ DeliveredInBin \/ HandleMessage \/ Delivered
    PROVE  SignalInv'
<1>1. schedule' = schedule /\ entd' \in {"awake", "bin", "delivering", "pausing"}
  BY DEF AwaitBin, BinStarted, DeliveredInBin, HandleMessage, Delivered, HandleBin, ServeNext,
         StartDelivery, netVars
<1>2. Scheduled => entd' # "awake" /\ timer' # 0
  <2>1. ASSUME NEW bin, HandleBin(bin) PROVE entd' # "awake" /\ timer' # 0
    BY <2>1, EntDistAssumption DEF HandleBin, StartDelivery
  <2>2. CASE AwaitBin
    <3>1. CASE HandleBin(slot')
      BY <2>1, <3>1
    <3>2. CASE entd' = "bin" /\ timer' = ComingBin.start - now + 1 /\ ComingBin.start > now
      <4>1. ComingBin.start \in Nat /\ now \in Nat
        BY <2>2, ComingBinFacts DEF PlacesOK, TypeOK, AwaitBin
      <4>2. \A x, y \in Nat : x > y => x - y + 1 # 0
        OBVIOUS
      <4> QED
        BY <3>2, <4>1, <4>2
    <3> QED
      BY <2>2, <3>1, <3>2 DEF AwaitBin
  <2>3. CASE BinStarted
    BY <2>1, <2>3 DEF BinStarted
  <2>4. CASE DeliveredInBin \/ HandleMessage \/ Delivered
    BY <2>4 DEF DeliveredInBin, HandleMessage, Delivered
  <2> QED
    BY <2>2, <2>3, <2>4
<1> QED
  BY <1>1, <1>2 DEF SignalInv, QuietWhenDue, TimerDue, Scheduled

LEMMA StepSignals == PlacesOK /\ SignalInv /\ [Next]_vars => SignalInv'
<1> SUFFICES ASSUME PlacesOK, SignalInv, [Next]_vars PROVE SignalInv'
  OBVIOUS
<1>1. CASE Tick
  <2>1. /\ signals = {} /\ signals' = signals /\ buffer' = buffer /\ schedule' = schedule
        /\ entd' = entd /\ flush' = flush
    BY <1>1 DEF Tick, inVars
  <2> QED
    BY <2>1 DEF SignalInv, QuietWhenDue, Filled, Scheduled
<1>2. ASSUME NEW n \in Nodes, Ask(n) \/ ReadReply(n)
      PROVE  SignalInv'
  <2>1. /\ signals' = signals /\ buffer' = buffer /\ schedule' = schedule
        /\ entd' = entd /\ flush' = flush /\ timer' = timer
    BY <1>2 DEF Ask, ReadReply, netVars, inVars, entdVars
  <2> QED
    BY <2>1 DEF SignalInv, QuietWhenDue, TimerDue, Timed, Filled, Scheduled
<1>3. CASE Listen
  BY <1>3 DEF Listen, SignalInv, QuietWhenDue, TimerDue, Timed, Filled, Scheduled, netVars, inVars
<1>4. CASE Paused
  <2>1. /\ signals' = signals /\ schedule' = schedule /\ entd' = "awake" /\ TimerDue
    BY <1>4 DEF Paused, netVars, inVars
  <2> QED
    BY <2>1 DEF SignalInv, QuietWhenDue, TimerDue, Timed, Scheduled
<1>5. CASE Ended \/ UNCHANGED vars
  <2>1. /\ signals' = signals /\ buffer' = buffer /\ schedule' = schedule
        /\ entd' = entd /\ flush' = flush /\ timer' = timer
    BY <1>5 DEF Ended, vars, netVars, inVars, entdVars
  <2> QED
    BY <2>1 DEF SignalInv, QuietWhenDue, TimerDue, Timed, Filled, Scheduled
<1> QED
  BY <1>1, <1>2, <1>3, <1>4, <1>5, ArriveSignals, DeliverSignals, WorkSignals DEF Next

LEMMA InitSignals == Init => SignalInv
<1> QED
  BY DEF Init, SignalInv, QuietWhenDue, TimerDue, Timed

\* Flushing never waits for a signal that nobody sent, and with a schedule no
\* signal finds all buffers empty: those of messages that were handled with the
\* bin have been delivered before its timer ran out.
THEOREM WakeUpsStayBacked == Spec => []WakeUpsAreBacked
<1>1. PlacesOK /\ SignalInv => WakeUpsAreBacked
  <2> SUFFICES ASSUME PlacesOK, SignalInv PROVE WakeUpsAreBacked
    OBVIOUS
  <2>1. entd = "flushing" => Cardinality(signals) >= flush
    BY SignalsAreFinite DEF SignalInv
  <2> QED
    BY <2>1 DEF WakeUpsAreBacked, SignalInv
<1> QED
  BY <1>1, InitPlaces, StepPlaces, InitSignals, StepSignals, PTL DEF Spec

------------------------------------------------------------------------------
(* What is forgotten.                                                         *)

\* Somebody has the request of this node, or the answer to it.
Held(n) ==
    port[n] # <<>> \/ buffer[n] # <<>> \/ requests[n] # <<>> \/ replies[n] # <<>> \/ Serving(n)

LEMMA ForgottenIsNotHeld ==
    ASSUME NEW n PROVE Forgotten(n) <=> asked[n] # None /\ ~ Held(n)
<1> QED
  BY DEF Forgotten, Held, Serving

\* Nothing that was put is lost when a pair is looked for without a schedule.
LEMMA ServeNextHolds ==
    ASSUME NEW reqs, AtMostOne(reqs, asked), ServeNext(reqs), asked' = asked,
           NEW n \in Nodes, reqs[n] # <<>>
    PROVE  requests'[n] # <<>> \/ Serving(n)'
<1>1. CASE requests' = reqs
  BY <1>1
<1>2. ASSUME NEW a \in Nodes, NEW b \in Nodes, TakesBoth(reqs, asked, a, b, joint', requests')
      PROVE  requests'[n] # <<>> \/ Serving(n)'
  <2>1. /\ requests' = [m \in Nodes |-> IF m \in {a, b} THEN <<>> ELSE reqs[m]]
    BY <1>2 DEF TakesBoth
  <2>2. Serving(n)' <=> n \in {a, b}
    BY <1>2, TakenAreServed
  <2> QED
    BY <2>1, <2>2
<1> QED
  BY <1>1, <1>2, ServedNext

LEMMA HandleHolds ==
    ASSUME PlacesOK, HandleMessage, NEW n \in Nodes, Held(n)
    PROVE  Held(n)'
<1>1. PICK m \in Nodes :
         /\ buffer[m] = <<asked[m]>> /\ asked[m] \in Wants[m]
         /\ buffer' = [buffer EXCEPT ![m] = <<>>]
         /\ ServeNext([requests EXCEPT ![m] = Append(@, asked[m])])
  BY MessageTaken
<1>2. PICK reqs : reqs = [requests EXCEPT ![m] = Append(@, asked[m])]
  OBVIOUS
<1>3. /\ entd = "awake" /\ port' = port /\ asked' = asked /\ replies' = replies
  BY DEF HandleMessage
<1>4. /\ buffer \in [Nodes -> Seq(Requests)] /\ requests \in [Nodes -> Seq(Requests)]
      /\ OnePlace(m) /\ ~ Serving(n)
  BY <1>3 DEF PlacesOK, TypeOK, PlaceInv, JointIsAsked, Serving
<1>5. /\ buffer'[m] = <<>> /\ reqs[m] = <<asked[m]>>
      /\ \A k \in Nodes \ {m} : buffer'[k] = buffer[k] /\ reqs[k] = requests[k]
  <2>1. requests[m] = <<>>
    BY <1>1, <1>4 DEF OnePlace
  <2> QED
    BY <1>1, <1>2, <1>4, <2>1
<1>6. AtMostOne(reqs, asked)
  <2>1. asked[m] \in Requests
    BY <1>1 DEF Requests
  <2>2. reqs \in [Nodes -> Seq(Requests)]
    BY <1>2, <1>4, <2>1
  <2>3. AtMostOne(requests, asked)
    BY HeldIsAsked
  <2> QED
    BY <1>1, <1>5, <2>2, <2>3 DEF AtMostOne
<1>7. reqs[n] # <<>> => requests'[n] # <<>> \/ Serving(n)'
  BY <1>1, <1>2, <1>3, <1>6, ServeNextHolds
<1>8. buffer[n] # <<>> \/ requests[n] # <<>> => buffer'[n] # <<>> \/ reqs[n] # <<>>
  BY <1>5
<1> QED
  BY <1>3, <1>4, <1>7, <1>8 DEF Held

\* When a bin is handled, everybody who asked is served or refused, except, when
\* a pair is served, those who did not ask for this bin.
LEMMA BinForgets ==
    ASSUME PlacesOK, Scheduled, joint = None, NEW bin, HandleBin(bin),
           port' = port, asked' = asked, NEW n \in Nodes, Held(n), ~ Held(n)'
    PROVE  /\ joint' # None /\ n \notin {joint'.node1, joint'.node2}
           /\ ~ MatchesTimebin(asked[n], bin)
<1>1. requests[n] = <<>> /\ ~ Serving(n) /\ port[n] = <<>>
  BY DEF PlacesOK, BinRules, Serving, Held
<1>2. CASE replies' = [m \in Nodes |-> IF buffer[m] # <<>> THEN <<None>> ELSE replies[m]]
  BY <1>1, <1>2 DEF Held
<1>3. ASSUME replies' = replies, NEW a \in Nodes, NEW b \in Nodes, ServedInBin(bin, a, b, joint')
      PROVE  /\ joint' # None /\ n \notin {joint'.node1, joint'.node2}
             /\ ~ MatchesTimebin(asked[n], bin)
  <2>1. buffer[n] # <<>>
    BY <1>1, <1>3 DEF Held
  <2>2. TakesBoth(buffer, asked, a, b, joint',
                  [m \in Nodes |-> IF m \in {a, b} THEN <<>> ELSE buffer[m]])
    BY <1>3 DEF ServedInBin
  <2>3. joint' # None /\ (Serving(n)' <=> n \in {a, b})
    BY <2>2, TakenAreServed
  <2>4. ~ Serving(n)'
    BY DEF Held
  <2> QED
    BY <1>3, <2>1, <2>3, <2>4 DEF ServedInBin, Serving
<1> QED
  BY <1>2, <1>3, BinHandled

\* The whole of it: a request goes out of sight only in this way.
LEMMA StepForgets ==
    ASSUME PlacesOK, Next, NEW n \in Nodes, ~ Forgotten(n), Forgotten(n)'
    PROVE  /\ Scheduled /\ joint' # None
           /\ n \notin {joint'.node1, joint'.node2}
           /\ ~ MatchesTimebin(asked[n], slot')
<1>1. asked'[n] # None /\ ~ Held(n)'
  BY DEF Forgotten, Held, Serving
<1>2. asked[n] = None \/ Held(n)
  BY ForgottenIsNotHeld
<1>3. OnePlace(n) /\ asked \in [Nodes -> Requests \cup {None}] /\ replies \in [Nodes -> Seq(Answers)]
      /\ port \in [Nodes -> Seq(Requests)] /\ buffer \in [Nodes -> Seq(Requests)]
  BY DEF PlacesOK, PlaceInv, TypeOK
<1>4. ~ (/\ asked'[n] = asked[n] /\ port'[n] = port[n] /\ buffer'[n] = buffer[n]
         /\ requests'[n] = requests[n] /\ replies'[n] = replies[n] /\ joint' = joint)
  BY <1>1, <1>2 DEF Held, Serving
<1>5. ~ (Tick \/ SignalDelivered \/ Listen \/ Paused \/ Ended)
  BY <1>4 DEF Tick, SignalDelivered, Listen, Paused, Ended, vars, netVars, inVars, entdVars
<1>6. ASSUME NEW m \in Nodes, Ask(m) \/ ReadReply(m) \/ Arrive(m)
      PROVE  FALSE
  <2>1. CASE m # n
    BY <1>3, <1>4, <1>6, <2>1 DEF Ask, ReadReply, Arrive, netVars, inVars, entdVars
  <2>2. CASE Ask(n)
    <3>1. PICK r \in Wants[n] : port' = [port EXCEPT ![n] = Append(@, r)]
      BY <2>2 DEF Ask
    <3>2. port'[n] = Append(port[n], r) /\ port[n] \in Seq(Requests)
      BY <1>3, <3>1
    <3>3. port'[n] # <<>>
      BY <3>2
    <3> QED
      BY <1>1, <3>3 DEF Held
  <2>3. CASE ReadReply(n)
    BY <1>1, <1>3, <2>3 DEF ReadReply
  <2>4. CASE Arrive(n)
    <3>1. buffer'[n] = buffer[n] \o port[n] /\ port[n] # <<>>
      BY <1>3, <2>4 DEF Arrive
    <3>2. buffer[n] \in Seq(Requests) /\ port[n] \in Seq(Requests)
      BY <1>3
    <3>3. buffer'[n] # <<>>
      BY <3>1, <3>2
    <3> QED
      BY <1>1, <3>3 DEF Held
  <2> QED
    BY <1>6, <2>1, <2>2, <2>3, <2>4
<1>7. CASE AwaitBin \/ BinStarted \/ DeliveredInBin \/ HandleMessage \/ Delivered
  <2>1. asked' = asked /\ Held(n)
    BY <1>1, <1>2, <1>7 DEF AwaitBin, BinStarted, DeliveredInBin, HandleMessage, Delivered
  <2>2. CASE AwaitBin \/ BinStarted
    <3>1. /\ Scheduled /\ joint = None /\ port' = port
      <4>1. (entd = "awake" /\ Scheduled) \/ entd = "bin"
        BY <2>2 DEF AwaitBin, BinStarted
      <4> QED
        BY <2>2, <4>1 DEF AwaitBin, BinStarted, PlacesOK, PlaceInv, JointIsAsked, BinRules
    <3>2. HandleBin(slot')
      BY <1>4, <2>1, <2>2 DEF AwaitBin, BinStarted
    <3> QED
      BY <1>1, <2>1, <3>1, <3>2, BinForgets
  <2>3. CASE DeliveredInBin
    <3>1. /\ entd = "delivering" /\ AnswerPair /\ port' = port /\ buffer' = buffer
          /\ requests[n] = <<>>
      BY <2>3 DEF DeliveredInBin, inVars, PlacesOK, BinRules
    <3>2. replies'[n] = IF Serving(n) THEN <<asked[n].pid>> ELSE replies[n]
      BY <3>1, PairAnswered
    <3> QED
      BY <1>1, <2>1, <3>1, <3>2 DEF Held
  <2>4. CASE HandleMessage
    BY <1>1, <2>1, <2>4, HandleHolds
  <2>5. CASE Delivered
    <3>1. /\ entd = "delivering" /\ AnswerPair /\ port' = port /\ buffer' = buffer
          /\ ServeNext(requests)
      BY <2>5 DEF Delivered, inVars
    <3>2. replies'[n] = IF Serving(n) THEN <<asked[n].pid>> ELSE replies[n]
      BY <3>1, PairAnswered
    <3>3. requests[n] # <<>> => requests'[n] # <<>> \/ Serving(n)'
      BY <2>1, <3>1, HeldIsAsked, ServeNextHolds
    <3> QED
      BY <1>1, <2>1, <3>1, <3>2, <3>3 DEF Held
  <2> QED
    BY <1>7, <2>2, <2>3, <2>4, <2>5
<1> QED
  BY <1>5, <1>6, <1>7 DEF Next

\* A node is left waiting without anybody having its request only when a pair is
\* served in a bin that it did not ask for; without a schedule never.
THEOREM OnlyOthersAreForgotten == Spec => ForgetsOnlyWhatIsNotForTheBin
<1>1. PlacesOK /\ [Next]_vars =>
        [\A n \in Nodes : ~ Forgotten(n) /\ Forgotten(n)' =>
              /\ Scheduled /\ joint' # None
              /\ n \notin {joint'.node1, joint'.node2}
              /\ ~ MatchesTimebin(asked[n], slot')]_vars
  BY StepForgets
<1> QED
  BY <1>1, PlacesInvariant, PTL DEF Spec, ForgetsOnlyWhatIsNotForTheBin

------------------------------------------------------------------------------
(* Bins.                                                                      *)

\* The remainder as a difference.
LEMMA Remainder ==
    ASSUME NEW x \in Int, NEW p \in Nat \ {0}
    PROVE  /\ x \div p \in Int /\ x % p \in 0..(p - 1)
           /\ (x \div p) * p \in Int /\ x = (x \div p) * p + (x % p)
<1>1. x \div p \in Int /\ x % p \in 0..(p - 1) /\ x = p * (x \div p) + (x % p)
  OBVIOUS
<1>2. PICK q \in Int : q = x \div p
  BY <1>1
<1>3. q * p \in Int /\ p * q = q * p
  OBVIOUS
<1> QED
  BY <1>1, <1>2, <1>3

LEMMA WithinOne ==
    ASSUME NEW k \in Int, NEW p \in Nat \ {0}, k * p < p, - p < k * p
    PROVE  k = 0
<1>1. k * p \in Int
  OBVIOUS
<1>2. CASE k >= 1
  BY <1>1, <1>2, TimesMonotone
<1>3. CASE k <= -1
  <2>1. k * p <= (-1) * p
    BY <1>3, TimesMonotone
  <2> QED
    BY <1>1, <2>1
<1> QED
  BY <1>2, <1>3

\* Periods apart.
Congruent(x, y, p) == \E k \in Int : y = x + k * p

\* Remainders depend only on the place in the period.
LEMMA Shifted ==
    ASSUME NEW x \in Int, NEW y \in Int, NEW p \in Nat \ {0}, Congruent(x, y, p)
    PROVE  y % p = x % p
<1>0. PICK k \in Int : y = x + k * p
  BY DEF Congruent
<1>2. PICK q, r \in Int : q = x \div p /\ r = y \div p
  BY Remainder
<1>3. PICK m, n \in 0..(p - 1) : m = x % p /\ n = y % p
  BY Remainder
<1>4. PICK qp, rp, kp \in Int : qp = q * p /\ rp = r * p /\ kp = k * p
  OBVIOUS
<1>5. x = qp + m /\ y = rp + n
  BY <1>2, <1>3, <1>4, Remainder
<1>6. (q + k - r) * p = qp + kp - rp /\ q + k - r \in Int
  BY <1>4
<1>7. (q + k - r) * p = n - m
  BY <1>0, <1>4, <1>5, <1>6
<1>8. q + k - r = 0
  BY <1>6, <1>7, WithinOne
<1>9. n = m
  BY <1>7, <1>8
<1> QED
  BY <1>3, <1>9

\* A multiple of the period, and one time unit after it.
LEMMA AtStart ==
    ASSUME NEW x \in Int, NEW k \in Int, NEW p \in Nat \ {0}, x = k * p
    PROVE  x % p = 0
<1>1. x = 0 + k * p /\ 0 \in Int /\ 0 % p = 0
  OBVIOUS
<1>2. Congruent(0, x, p)
  BY <1>1 DEF Congruent
<1>3. x % p = 0 % p
  BY <1>1, <1>2, Shifted
<1> QED
  BY <1>1, <1>3

LEMMA AfterStart ==
    ASSUME NEW x \in Int, NEW p \in Nat \ {0}, (x - 1) % p = 0
    PROVE  x % p \in {0, 1}
<1>1. PICK k \in Int : k = (x - 1) \div p /\ x - 1 = k * p
  <2>1. x - 1 \in Int
    OBVIOUS
  <2>2. PICK y \in Int : y = x - 1
    BY <2>1
  <2>3. y = (y \div p) * p + 0 /\ (y \div p) * p \in Int /\ y \div p \in Int
    BY <2>2, Remainder
  <2> QED
    BY <2>2, <2>3
<1>2. x = 1 + k * p /\ 1 \in Int
  <2>1. k * p \in Int
    OBVIOUS
  <2> QED
    BY <1>1, <2>1
<1>3. x % p = 1 % p
  <2>1. Congruent(1, x, p)
    BY <1>2 DEF Congruent
  <2> QED
    BY <1>2, <2>1, Shifted
<1>4. 1 % p \in {0, 1}
  <2>1. p = 1 => 1 % p = 0
    OBVIOUS
  <2>2. p > 1 => 1 % p = 1
    OBVIOUS
  <2> QED
    BY <2>1, <2>2
<1> QED
  BY <1>3, <1>4

\* Time passes, counted modulo the period, and the timer runs.
LEMMA TimePasses ==
    ASSUME NEW t \in Nat, NEW left \in Nat, NEW c \in Nat, NEW p \in Nat \ {0},
           Due(t, left, c, p)
    PROVE  Due((t + 1) % p, left - 1, c, p)
<1>0. PICK x \in Int : x = t + left - 1 - c /\ x % p = 0
  BY DEF Due
<1>1. PICK next \in Int : next = t + 1
  OBVIOUS
<1>2. PICK q \in Int : q = next \div p
  BY Remainder
<1>3. PICK later, qp \in Int : later = next % p /\ qp = q * p
  <2>1. next % p \in Int /\ q * p \in Int
    BY Remainder
  <2> QED
    BY <2>1, Zenon
<1>4. next = qp + later
  BY <1>2, <1>3, Remainder
<1>5. PICK less \in Int : less * p = - qp
  <2>1. (- q) * p = - qp /\ - q \in Int
    BY <1>3
  <2> QED
    BY <2>1
<1>6. PICK y \in Int : y = later + (left - 1) - 1 - c
  BY <1>3
<1>7. y = x + (- qp)
  BY <1>0, <1>1, <1>4, <1>6
<1>8. Congruent(x, y, p)
  BY <1>5, <1>7, Zenon DEF Congruent
<1>9. y % p = 0
  BY <1>0, <1>8, Shifted
<1>10. y = ((t + 1) % p) + (left - 1) - 1 - c
  BY <1>1, <1>3, <1>6
<1> QED
  BY <1>9, <1>10 DEF Due

\* The bin that is found starts when the wait for it says.
LEMMA AwaitSlots ==
    ASSUME PlacesOK, AwaitBin
    PROVE  SlotStarts' /\ (joint' # joint =>
              \E i \in DOMAIN schedule.pattern :
                  /\ schedule.pattern[i] = slot'
                  /\ (now - (i - 1) * schedule.length) % schedule.period = 0)
<1>1. /\ Scheduled /\ slot' = ComingBin.bin /\ schedule' = schedule /\ now' = now
  BY DEF AwaitBin, netVars
<1>2. PICK r \in Int, i \in DOMAIN schedule.pattern :
         /\ ComingBin.bin = schedule.pattern[i]
         /\ ComingBin.start = r * schedule.period + (i - 1) * schedule.length
         /\ ComingBin.start \in Nat /\ ComingBin.start >= now
  BY <1>1, ComingBinFacts DEF PlacesOK
<1>3. PICK c, p, start \in Nat : /\ c = (i - 1) * schedule.length /\ p = schedule.period /\ p # 0
                                 /\ start = ComingBin.start
  BY <1>1, <1>2, ScheduleFacts, PlaceInPeriod DEF PlacesOK
<1>4. start - c = r * p /\ (start - c) % p = 0
  <2>1. PICK rp \in Int : rp = r * p
    OBVIOUS
  <2>2. start - c = r * p /\ start - c \in Int
    BY <1>2, <1>3, <2>1
  <2> QED
    BY <1>3, <2>2, AtStart
<1>5. now \in Nat
  BY DEF PlacesOK, TypeOK
<1>6. CASE entd' = "bin"
  <2>1. timer' = start - now + 1 /\ joint' = joint
    BY <1>3, <1>6 DEF AwaitBin, HandleBin, StartDelivery
  <2>2. now + timer' - 1 - c = start - c
    BY <1>5, <2>1
  <2>3. Due(now', timer', (i - 1) * schedule'.length, schedule'.period)
    BY <1>1, <1>3, <1>4, <2>2 DEF Due
  <2> QED
    BY <1>1, <1>2, <2>1, <2>3 DEF SlotStarts
<1>7. CASE entd' # "bin"
  <2>1. ComingBin.start = now
    BY <1>7 DEF AwaitBin
  <2> QED
    BY <1>1, <1>2, <1>3, <1>4, <1>7, <2>1 DEF SlotStarts
<1> QED
  BY <1>6, <1>7

LEMMA StepSlots == PlacesOK /\ SlotStarts /\ [Next]_vars => SlotStarts'
<1> SUFFICES ASSUME PlacesOK, SlotStarts, [Next]_vars, Scheduled', entd' = "bin"
             PROVE  SlotStarts'
  BY DEF SlotStarts
<1>1. CASE AwaitBin
  BY <1>1, AwaitSlots
<1>2. CASE Tick
  <2>1. /\ Scheduled /\ entd = "bin" /\ slot' = slot /\ schedule' = schedule
        /\ now' = (now + 1) % schedule.period /\ timer' = timer - 1
        /\ schedule.period \in Nat \ {0}
    BY <1>2, ScheduleFacts DEF Tick, Timed, Scheduled, PlacesOK
  <2>2. PICK i \in DOMAIN schedule.pattern :
           /\ schedule.pattern[i] = slot
           /\ Due(now, timer, (i - 1) * schedule.length, schedule.period)
    BY <2>1 DEF SlotStarts
  <2>3. (i - 1) * schedule.length \in Nat
    BY <2>1, ScheduleFacts, PlaceInPeriod DEF PlacesOK
  <2>4. now \in Nat /\ timer \in Nat
    BY DEF PlacesOK, TypeOK
  <2>5. Due((now + 1) % schedule.period, timer - 1, (i - 1) * schedule.length, schedule.period)
    BY <2>1, <2>2, <2>3, <2>4, TimePasses
  <2>6. Due(now', timer', (i - 1) * schedule'.length, schedule'.period)
    BY <2>1, <2>5
  <2> QED
    BY <2>1, <2>2, <2>6 DEF SlotStarts
<1>3. CASE ~ AwaitBin /\ ~ Tick
  <2>1. /\ schedule' = schedule /\ now' = now /\ timer' = timer /\ slot' = slot /\ entd = "bin"
    <3>1. CASE \E n \in Nodes : Ask(n) \/ ReadReply(n) \/ Arrive(n)
      BY <3>1 DEF Ask, ReadReply, Arrive, netVars, entdVars
    <3>2. CASE SignalDelivered
      BY <3>2 DEF SignalDelivered, netVars
    <3>3. CASE BinStarted \/ DeliveredInBin \/ Paused \/ Listen \/ HandleMessage \/ Delivered
      BY <3>3 DEF BinStarted, HandleBin, StartDelivery, DeliveredInBin, Paused, Listen,
                  HandleMessage, Delivered, ServeNext
    <3>4. CASE Ended \/ UNCHANGED vars
      BY <3>4 DEF Ended, vars, netVars, entdVars
    <3> QED
      BY <1>3, <3>1, <3>2, <3>3, <3>4 DEF Next
  <2> QED
    BY <2>1 DEF SlotStarts, Scheduled
<1> QED
  BY <1>1, <1>2, <1>3

\* The pair whose generation begins is one for the bin that begins.
LEMMA StepGenerates ==
    ASSUME PlacesOK, SlotStarts, Next, Scheduled, joint = None, joint' # None
    PROVE  \E bin \in StartingBins :
              /\ bin.nodes = {joint'.node1, joint'.node2}
              /\ bin.pids[joint'.node1] = joint'.pid1
              /\ bin.pids[joint'.node2] = joint'.pid2
<1>1. CASE AwaitBin \/ BinStarted
  <2>1. HandleBin(slot')
    BY <1>1 DEF AwaitBin, BinStarted
  <2>2. PICK i \in DOMAIN schedule.pattern :
           /\ schedule.pattern[i] = slot'
           /\ (now - (i - 1) * schedule.length) % schedule.period \in {0, 1}
    <3>1. CASE AwaitBin
      BY <3>1, AwaitSlots
    <3>2. CASE BinStarted
      <4>1. entd = "bin" /\ timer = 0 /\ slot' = slot
        BY <3>2 DEF BinStarted, TimerDue
      <4>2. PICK i \in DOMAIN schedule.pattern :
               /\ schedule.pattern[i] = slot
               /\ Due(now, 0, (i - 1) * schedule.length, schedule.period)
        BY <4>1 DEF SlotStarts
      <4>3. PICK c, p \in Nat : c = (i - 1) * schedule.length /\ p = schedule.period /\ p # 0
        BY ScheduleFacts, PlaceInPeriod DEF PlacesOK
      <4>4. PICK x \in Int : x = now - c /\ x - 1 = now + 0 - 1 - c
        <5>1. now \in Nat
          BY DEF PlacesOK, TypeOK
        <5> QED
          BY <4>3, <5>1
      <4>5. x % p \in {0, 1}
        BY <4>2, <4>3, <4>4, AfterStart DEF Due
      <4> QED
        BY <4>1, <4>2, <4>3, <4>4, <4>5
    <3> QED
      BY <1>1, <3>1, <3>2
  <2>3. slot' \in StartingBins
    BY <2>2 DEF StartingBins
  <2>4. PICK a, b \in Nodes : ServedInBin(slot', a, b, joint')
    BY <2>1, BinHandled
  <2>5. /\ asked[a].node = a /\ asked[a].remote = b /\ MatchesTimebin(asked[a], slot')
        /\ joint'.node1 = a /\ joint'.node2 = b
        /\ joint'.pid1 = asked[a].pid /\ joint'.pid2 = asked[a].remotePid
    BY <2>4, EntDistAssumption DEF ServedInBin, TakesBoth
  <2> QED
    BY <2>3, <2>5 DEF MatchesTimebin
<1>2. CASE ~ AwaitBin /\ ~ BinStarted
  <2>1. entd # "delivering"
    BY DEF PlacesOK, PlaceInv, JointIsAsked
  <2>2. ~ HandleMessage /\ ~ Delivered /\ ~ DeliveredInBin
    BY <2>1 DEF HandleMessage, Delivered, DeliveredInBin
  <2>3. joint' = joint
    BY <1>2, <2>2 DEF Next, Tick, Ask, ReadReply, Arrive, SignalDelivered, Listen, Paused, Ended,
                      entdVars, vars
  <2> QED
    BY <2>3
<1> QED
  BY <1>1, <1>2

LEMMA InitSlots == Init => SlotStarts
<1> QED
  BY DEF Init, SlotStarts

\* All of it is an invariant.
THEOREM DistInvInvariant == Spec => []DistInv
<1> QED
  BY InitPlaces, StepPlaces, InitSignals, StepSignals, InitSlots, StepSlots, PTL DEF Spec, DistInv

\* Although the bin is chosen before it is waited for, and the requests after it,
\* the generation of a pair begins only at the start of a bin for its nodes and
\* programs.
THEOREM GenerationIsInItsBin == Spec => GenerationStartsInItsBin
<1>1. PlacesOK /\ SlotStarts /\ [Next]_vars =>
        [Scheduled /\ joint = None /\ joint' # None =>
            \E bin \in StartingBins :
                /\ bin.nodes = {joint'.node1, joint'.node2}
                /\ bin.pids[joint'.node1] = joint'.pid1
                /\ bin.pids[joint'.node2] = joint'.pid2]_vars
  BY StepGenerates
<1> QED
  BY <1>1, DistInvInvariant, PTL DEF DistInv, Spec, GenerationStartsInItsBin
=============================================================================
