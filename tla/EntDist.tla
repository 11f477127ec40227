------------------------------- MODULE EntDist -------------------------------
(***************************************************************************)
(* The entanglement distributor (qoala/sim/entdist/entdist.py) and its     *)
(* message listeners (qoala/sim/componentprot.py), with the network stacks *)
(* of the nodes as its users.  A node asks for a pair and does nothing     *)
(* else until it has an answer.  With a network schedule the distributor   *)
(* handles, at the next bin, all that has arrived, and serves one pair of  *)
(* requests that meet in that bin; without one it handles request after    *)
(* request.                                                                *)
(*                                                                         *)
(* The clock counts modulo the schedule's period: the answers of a         *)
(* schedule that starts at time 0 depend on nothing else.                  *)
(***************************************************************************)
EXTENDS NetworkSchedule, FiniteSets

CONSTANTS
    NodeOrder,          \* the nodes, in the order of the distributor's tables
    Wants,              \* node -> the requests it may make
    DeliveryTimes,      \* how long the generation of a pair may take
    None

\* schedule and now come from NetworkSchedule; now counts modulo the period.
VARIABLES
    asked,              \* node -> the request it waits for, or None
    port,               \* node -> its messages on the way to the distributor
    buffer,             \* node -> messages in the buffer of its listener
    signals,            \* nodes whose listener has sent a signal, undelivered
    requests,           \* node -> requests put, not yet served (_requests)
    entd,               \* "listening", "flushing", "awake", "bin", "delivering",
                        \* "pausing", or "crashed"
    flush,              \* signals still to be flushed away
    timer,              \* time left in "bin", "delivering", "pausing"
    slot,               \* next_slot, the bin that is waited for or served
    joint,              \* the joint request that is served
    replies             \* node -> answers it has not read: a pid, or None

netVars == <<schedule, now>>
inVars == <<port, buffer, signals>>
entdVars == <<requests, entd, flush, timer, slot, joint>>
vars == <<netVars, inVars, entdVars, asked, replies>>

Nodes == {NodeOrder[i] : i \in DOMAIN NodeOrder}
Requests == UNION {Wants[n] : n \in Nodes}

\* The two sides of a pair.
JointRequests ==
    [node1 : Nodes, node2 : Nodes,
     qubit1 : {r.qubit : r \in Requests}, qubit2 : {r.qubit : r \in Requests},
     pid1 : {r.pid : r \in Requests}, pid2 : {r.pid : r \in Requests}]

\* The generation of a pair takes time; nodes do not ask for pairs with
\* themselves; schedules start at time 0.
ASSUME EntDistAssumption ==
    /\ NodeOrder \in Seq(Nodes)
    /\ DeliveryTimes \subseteq Nat \ {0}
    /\ \A n \in Nodes : \A r \in Wants[n] : r.node = n /\ r.remote \in Nodes \ {n}
    /\ None \notin Requests \cup JointRequests
    /\ \A s \in Schedules : s.first = 0

Scheduled == schedule # NoSchedule
Period == IF Scheduled THEN schedule.period ELSE 1

Init ==
    /\ schedule \in Schedules \cup {NoSchedule}
    /\ now = 0
    /\ asked = [n \in Nodes |-> None]
    /\ port = [n \in Nodes |-> <<>>]
    /\ buffer = [n \in Nodes |-> <<>>]
    /\ signals = {}
    /\ requests = [n \in Nodes |-> <<>>]
    /\ entd = "awake" /\ flush = 0 /\ timer = 0
    /\ slot = None /\ joint = None
    /\ replies = [n \in Nodes |-> <<>>]

------------------------------------------------------------------------------
(* Order of events.  What is due at an instant happens before time goes on, *)
(* in the order in which it was scheduled: the distributor's timer, set at  *)
(* an earlier instant, before messages sent at this one.                    *)

Timed == entd \in {"bin", "delivering", "pausing"}
TimerDue == Timed /\ timer = 0

\* The distributor is at a yield and its timer does not run out now.
OthersMayAct == entd \notin {"awake", "crashed"} /\ ~ TimerDue

Tick ==
    /\ OthersMayAct
    /\ signals = {} /\ \A n \in Nodes : port[n] = <<>> /\ replies[n] = <<>>
    /\ now' = (now + 1) % Period
    /\ timer' = IF Timed THEN timer - 1 ELSE timer
    /\ UNCHANGED <<schedule, inVars, asked, replies, requests, entd, flush, slot, joint>>

------------------------------------------------------------------------------
(* The network stack of a node: _execute_entdist_request.  The first pair of *)
(* a request is asked for at the start of a bin, the others at any time.      *)

Ask(n) ==
    /\ OthersMayAct
    /\ asked[n] = None
    /\ \E r \in Wants[n] :
          /\ asked' = [asked EXCEPT ![n] = r]
          /\ port' = [port EXCEPT ![n] = Append(@, r)]
    /\ UNCHANGED <<netVars, buffer, signals, entdVars, replies>>

ReadReply(n) ==
    /\ OthersMayAct
    /\ asked[n] # None /\ replies[n] # <<>>
    /\ replies' = [replies EXCEPT ![n] = Tail(@)]
    /\ asked' = [asked EXCEPT ![n] = None]
    /\ UNCHANGED <<netVars, inVars, entdVars>>

------------------------------------------------------------------------------
(* Listeners and waiting for messages.                                        *)

\* PortListener.run: all input of the port goes to the buffer.
Arrive(n) ==
    /\ OthersMayAct
    /\ port[n] # <<>>
    /\ buffer' = [buffer EXCEPT ![n] = @ \o port[n]]
    /\ port' = [port EXCEPT ![n] = <<>>]
    /\ signals' = signals \cup {n}
    /\ UNCHANGED <<netVars, entdVars, asked, replies>>

Filled == {n \in Nodes : buffer[n] # <<>>}

\* Fault: as many signals are flushed as there are messages.
FlushAll == Cardinality(Filled)

\* Of the signals of the filled buffers, one has been waited for already.
FlushCount == Cardinality(Filled) - 1

\* A signal reaches the distributor, which may wait for it.  An assertion
\* fails when it has taken the message already.
SignalDelivered ==
    /\ OthersMayAct
    /\ \E n \in signals : signals' = signals \ {n}
    /\ \/ /\ entd = "listening" /\ Filled = {}
          /\ entd' = "crashed"
          /\ UNCHANGED flush
       \/ /\ entd = "listening" /\ Filled # {}
          /\ flush' = FlushCount
          /\ entd' = IF flush' = 0 THEN "awake" ELSE "flushing"
       \/ /\ entd = "flushing"
          /\ flush' = flush - 1
          /\ entd' = IF flush' = 0 THEN "awake" ELSE "flushing"
       \/ /\ Timed
          /\ UNCHANGED <<entd, flush>>
    /\ UNCHANGED <<netVars, port, buffer, requests, timer, slot, joint, asked, replies>>

\* Fault: waits for a signal although there are messages.
ListenRegardless ==
    /\ entd = "awake"
    /\ entd' = "listening"
    /\ UNCHANGED <<netVars, inVars, requests, flush, timer, slot, joint, asked, replies>>

\* _wait_for_msg_any_source with nothing there.
Listen ==
    /\ entd = "awake" /\ Filled = {}
    /\ entd' = "listening"
    /\ UNCHANGED <<netVars, inVars, requests, flush, timer, slot, joint, asked, replies>>

------------------------------------------------------------------------------
(* Requests that meet.                                                        *)

\* Fault: the pids are not compared.
OppositeNodes(r, q) == r.node = q.remote /\ r.remote = q.node

IsOpposite(r, q) ==
    /\ r.node = q.remote /\ r.remote = q.node
    /\ r.pid = q.remotePid /\ r.remotePid = q.pid

\* matches_timebin
MatchesTimebin(r, bin) ==
    /\ {r.node, r.remote} = bin.nodes
    /\ bin.pids[r.node] = r.pid /\ bin.pids[r.remote] = r.remotePid

RemoteIndices(reqs, r) == {i \in DOMAIN reqs[r.remote] : IsOpposite(r, reqs[r.remote][i])}

Least(S) == CHOOSE i \in S : \A j \in S : i <= j

\* Fault: gives up when the first request of the first node has no counterpart.
MeetingOfFirst(reqs) ==
    {i \in DOMAIN NodeOrder :
        /\ reqs[NodeOrder[i]] # <<>>
        /\ \A j \in 1..(i - 1) : reqs[NodeOrder[j]] = <<>>
        /\ RemoteIndices(reqs, Head(reqs[NodeOrder[i]])) # {}}

\* The nodes whose first request has a counterpart, by their place in the order.
Meeting(reqs) ==
    {i \in DOMAIN NodeOrder :
        LET mine == reqs[NodeOrder[i]]
        IN  mine # <<>> /\ RemoteIndices(reqs, Head(mine)) # {}}

Without(s, i) == SubSeq(s, 1, i - 1) \o SubSeq(s, i + 1, Len(s))

\* get_next_joint_request of these requests, when some meet, and what is left.
NextJoint(reqs) ==
    LET local == Head(reqs[NodeOrder[Least(Meeting(reqs))]])
        index == Least(RemoteIndices(reqs, local))
        remote == reqs[local.remote][index]
    IN  [joint |-> [node1 |-> local.node, node2 |-> remote.node,
                    qubit1 |-> local.qubit, qubit2 |-> remote.qubit,
                    pid1 |-> local.pid, pid2 |-> local.remotePid],
         left  |-> [reqs EXCEPT ![local.node] = Tail(@),
                                ![local.remote] = Without(@, index)]]

\* serve_request up to its yield.
StartDelivery(j) ==
    /\ joint' = j
    /\ \E d \in DeliveryTimes : timer' = d
    /\ entd' = "delivering"

\* The rest of it: both nodes get a message.
AnswerPair ==
    replies' = [replies EXCEPT ![joint.node1] = Append(@, joint.pid1),
                               ![joint.node2] = Append(@, joint.pid2)]

------------------------------------------------------------------------------
(* With a schedule.                                                           *)

\* The messages that are for the bin, as the loop over them finds them.
ForBin(messages, bin) ==
    LET found[i \in 0..Len(messages)] ==
            IF i = 0 THEN <<>>
            ELSE IF MatchesTimebin(messages[i], bin)
                 THEN Append(found[i - 1], messages[i]) ELSE found[i - 1]
    IN  found[Len(messages)]

\* put_request of them.
PutForBin(bin) == [n \in Nodes |-> requests[n] \o ForBin(buffer[n], bin)]

\* Fault: a request that found no counterpart stays.
KeepRequests(reqs) == reqs

\* clear_requests
ClearRequests(reqs) == [n \in Nodes |-> <<>>]

\* Fault: only those that were put are refused.
RefusePut(bin) ==
    [n \in Nodes |-> replies[n] \o
        [i \in DOMAIN ForBin(buffer[n], bin) |-> None]]

\* Every requester is refused.
Refuse(bin) == [n \in Nodes |-> replies[n] \o [i \in DOMAIN buffer[n] |-> None]]

\* From the messages of this instant on: one joint request is served, or
\* everybody who asked is refused.
HandleBin(bin) ==
    LET reqs == PutForBin(bin)
    IN  /\ buffer' = [n \in Nodes |-> <<>>]
        /\ \/ /\ Meeting(reqs) # {}
              /\ requests' = NextJoint(reqs).left
              /\ StartDelivery(NextJoint(reqs).joint)
              /\ UNCHANGED replies
           \/ /\ Meeting(reqs) = {}
              /\ replies' = Refuse(bin)
              /\ requests' = ClearRequests(reqs)
              /\ entd' = "pausing" /\ timer' = 1
              /\ UNCHANGED joint

\* Fault: the bin is not waited for.
BinNow == [start |-> now, bin |-> NextBin(schedule, now).bin]

ComingBin == NextBin(schedule, now)

\* There are messages: wait for the next bin, until just after its start.
AwaitBin ==
    /\ Scheduled
    /\ entd = "awake" /\ Filled # {}
    /\ slot' = ComingBin.bin
    /\ \/ /\ ComingBin.start > now
          /\ entd' = "bin" /\ timer' = ComingBin.start - now + 1
          /\ UNCHANGED <<buffer, requests, joint, replies>>
       \/ /\ ComingBin.start = now
          /\ HandleBin(slot')
    /\ UNCHANGED <<netVars, port, signals, flush, asked>>

BinStarted ==
    /\ entd = "bin" /\ TimerDue
    /\ HandleBin(slot)
    /\ UNCHANGED <<netVars, port, signals, flush, slot, asked>>

DeliveredInBin ==
    /\ Scheduled
    /\ entd = "delivering" /\ TimerDue
    /\ AnswerPair
    /\ requests' = ClearRequests(requests)
    /\ entd' = "pausing" /\ timer' = 1
    /\ joint' = None
    /\ UNCHANGED <<netVars, inVars, flush, slot, asked>>

Paused ==
    /\ entd = "pausing" /\ TimerDue
    /\ entd' = "awake"
    /\ UNCHANGED <<netVars, inVars, requests, flush, timer, slot, joint, asked, replies>>

------------------------------------------------------------------------------
(* Without one.                                                               *)

\* serve_all_requests: the next joint request, or back to the messages.
ServeNext(reqs) ==
    \/ /\ Meeting(reqs) # {}
       /\ requests' = NextJoint(reqs).left
       /\ StartDelivery(NextJoint(reqs).joint)
    \/ /\ Meeting(reqs) = {}
       /\ requests' = reqs
       /\ entd' = "awake" /\ joint' = None
       /\ UNCHANGED timer

\* receive_msg takes the first message of the first listener that has one.
HandleMessage ==
    /\ ~ Scheduled
    /\ entd = "awake" /\ Filled # {}
    /\ LET n == NodeOrder[Least({i \in DOMAIN NodeOrder : NodeOrder[i] \in Filled})]
           r == Head(buffer[n])
       IN  /\ buffer' = [buffer EXCEPT ![n] = Tail(@)]
           /\ ServeNext([requests EXCEPT ![r.node] = Append(@, r)])
    /\ UNCHANGED <<netVars, port, signals, flush, slot, asked, replies>>

Delivered ==
    /\ ~ Scheduled
    /\ entd = "delivering" /\ TimerDue
    /\ AnswerPair
    /\ ServeNext(requests)
    /\ UNCHANGED <<netVars, inVars, flush, slot, asked>>

------------------------------------------------------------------------------
\* A failed assertion ends the simulation.
Ended == entd = "crashed" /\ UNCHANGED vars

Next ==
    \/ Tick
    \/ \E n \in Nodes : Ask(n) \/ ReadReply(n) \/ Arrive(n)
    \/ SignalDelivered \/ Listen
    \/ AwaitBin \/ BinStarted \/ DeliveredInBin \/ Paused
    \/ HandleMessage \/ Delivered
    \/ Ended

\* The simulator runs what is due, and time goes on.  Nobody has to ask.
Distributor ==
    Listen \/ AwaitBin \/ BinStarted \/ DeliveredInBin \/ Paused \/ HandleMessage \/ Delivered

Fairness ==
    /\ WF_vars(Tick) /\ WF_vars(SignalDelivered) /\ WF_vars(Distributor)
    /\ \A n \in Nodes : WF_vars(ReadReply(n)) /\ WF_vars(Arrive(n))

Spec == Init /\ [][Next]_vars /\ Fairness

------------------------------------------------------------------------------
(* Properties.                                                                *)

\* A request as one side of the joint request.
SideIs(r, qubit, pid, remote, remotePid) ==
    r # None /\ r.qubit = qubit /\ r.pid = pid /\ r.remote = remote /\ r.remotePid = remotePid

\* deliver puts the pair into qubits and reports to nodes that it was told of
\* before its yield: during all of it both nodes still wait, each for this pair
\* in that qubit, and have no answer yet.
ServedPairIsAwaited ==
    joint # None =>
        /\ SideIs(asked[joint.node1], joint.qubit1, joint.pid1, joint.node2, joint.pid2)
        /\ SideIs(asked[joint.node2], joint.qubit2, joint.pid2, joint.node1, joint.pid1)
        /\ replies[joint.node1] = <<>> /\ replies[joint.node2] = <<>>

\* A node reads any message there is as the answer to its request.  There is
\* none left over from another one: an answer is the only one, to a node that
\* waits, about the program that it waits for.
AnswersAreCurrent ==
    \A n \in Nodes : replies[n] # <<>> =>
        /\ Len(replies[n]) = 1
        /\ asked[n] # None
        /\ replies[n][1] \in {None, asked[n].pid}

\* componentprot.py: "There *must* be at least one event that has fired since
\* we yielded", that is, a message in some buffer.
WakeUpFindsMessage == entd # "crashed"

\* With a schedule this is so, since signals of messages already taken run out
\* during the pause; and flushing never waits for a signal that nobody sent.
WakeUpsAreBacked ==
    /\ Scheduled => entd # "crashed"
    /\ entd = "flushing" => Cardinality(signals) >= flush

\* The bins of the pattern that start at this time or started one unit ago.
StartingBins ==
    {schedule.pattern[i] : i \in {j \in DOMAIN schedule.pattern :
        (now - (j - 1) * schedule.length) % schedule.period \in {0, 1}}}

\* The bin is chosen before the wait, the requests after it: the generation of
\* a pair still begins only at the start of a bin for its nodes and programs.
GenerationStartsInItsBin ==
    [][Scheduled /\ joint = None /\ joint' # None =>
          \E bin \in StartingBins :
              /\ bin.nodes = {joint'.node1, joint'.node2}
              /\ bin.pids[joint'.node1] = joint'.pid1
              /\ bin.pids[joint'.node2] = joint'.pid2]_vars

\* A node waits for an answer that nobody is going to send.
Forgotten(n) ==
    /\ asked[n] # None
    /\ port[n] = <<>> /\ buffer[n] = <<>> /\ requests[n] = <<>> /\ replies[n] = <<>>
    /\ ~ (joint # None /\ n \in {joint.node1, joint.node2})

\* The code forgets requests, when it serves a pair in the same bin; but only
\* requests for another bin.
ForgetsOnlyWhatIsNotForTheBin ==
    [][\A n \in Nodes : ~ Forgotten(n) /\ Forgotten(n)' =>
          /\ Scheduled /\ joint' # None
          /\ n \notin {joint'.node1, joint'.node2}
          /\ ~ MatchesTimebin(asked[n], slot')]_vars

\* With a schedule, every request that is not forgotten so is answered.
ScheduledRequestsAnswered ==
    \A n \in Nodes : []<>(~ Scheduled \/ asked[n] = None \/ Forgotten(n))

\* The node waits for a pair with one that waits for a pair with it.
Meets(n) ==
    /\ asked[n] # None /\ replies[n] = <<>>
    /\ LET other == asked[n].remote
       IN  asked[other] # None /\ replies[other] = <<>> /\ IsOpposite(asked[n], asked[other])

\* Without one, two requests that meet are served, whatever others wait for.
MeetingRequestsServed ==
    \A n \in Nodes : []<>(Scheduled \/ entd = "crashed" \/ ~ Meets(n))
==============================================================================
