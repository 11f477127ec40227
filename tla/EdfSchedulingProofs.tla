------------------------ MODULE EdfSchedulingProofs ------------------------
(***************************************************************************)
(* Proofs about the EDF schedulers, for every task graph, every mail and   *)
(* every network schedule (that starts before the end of a bin, where bins *)
(* are waited for).                                                        *)
(***************************************************************************)
EXTENDS EdfScheduling, NetworkScheduleProofs, FiniteSetTheorems

\* The schedule stays, and time does not go back.
TimeInv == schedule \in Schedules \cup {NoSchedule} /\ now \in Nat

LEMMA TimeInvInductive ==
    /\ Init => TimeInv
    /\ TimeInv /\ [Next]_vars => TimeInv'
  <1>1. Init => TimeInv
    BY DEF Init, TimeInv
  <1>2. ASSUME TimeInv, [Next]_vars
        PROVE  TimeInv'
    <2>1. CASE UNCHANGED vars
      BY <1>2, <2>1 DEF TimeInv, vars
    <2>2. ASSUME NEW c \in Cores, StartTask(c) \/ Sleep(c)
          PROVE  TimeInv'
      BY <1>2, <2>2 DEF TimeInv, StartTask, Sleep
    <2>3. ASSUME NEW c \in Cores, FinishTask(c) \/ FailTask(c) \/ AlarmRings(c)
          PROVE  TimeInv'
      BY <1>2, <2>3 DEF TimeInv, FinishTask, FailTask, AlarmRings
    <2>4. ASSUME NEW p \in Peers, Arrive(p)
          PROVE  TimeInv'
      BY <1>2, <2>4 DEF TimeInv, Arrive
    <2>5. CASE Tick
      BY <1>2, <2>5 DEF TimeInv, Tick
    <2> QED BY <1>2, <2>1, <2>2, <2>3, <2>4, <2>5 DEF Next
  <1> QED BY <1>1, <1>2

\* At every instant of every execution the schedulers and the distributor are
\* told the right bin, as of first_bin ago (next_bin, next_specific_bin).
THEOREM BinsAlwaysNext == Spec => []BinsAreNext
  <1>1. TimeInv => BinsAreNext
    <2> SUFFICES ASSUME TimeInv PROVE BinsAreNext
      OBVIOUS
    <2>1. schedule # NoSchedule => IsSchedule(schedule)
      BY ScheduleAssumption DEF TimeInv
    <2>2. now \in Nat
      BY DEF TimeInv
    <2> QED BY <2>1, <2>2, BinsCorrect
  <1> QED BY <1>1, TimeInvInductive, PTL DEF Spec

------------------------------------------------------------------------------
(* The buffer of a listener.                                                  *)

\* A buffer as a sequence of entries, each of a pair of pids of its own.
Pids == Nat \X Nat
Entries == [key : Pids, msgs : Seq(Nat)]
IsBuffer(buffer) ==
    /\ buffer \in Seq(Entries)
    /\ \A i, j \in 1..Len(buffer) : buffer[i].key = buffer[j].key => i = j

LEMMA EntryOf ==
    ASSUME NEW key \in Pids, NEW msgs \in Seq(Nat)
    PROVE  [key |-> key, msgs |-> msgs] \in Entries
  BY DEF Entries

LEMMA EntryParts ==
    ASSUME NEW entry \in Entries
    PROVE  entry.key \in Pids /\ entry.msgs \in Seq(Nat)
  BY DEF Entries

LEMMA EntryWith ==
    ASSUME NEW entry \in Entries, NEW msgs \in Seq(Nat)
    PROVE  /\ [entry EXCEPT !.msgs = msgs] \in Entries
           /\ [entry EXCEPT !.msgs = msgs].key = entry.key
           /\ [entry EXCEPT !.msgs = msgs].msgs = msgs
  BY DEF Entries

LEMMA BufferParts ==
    ASSUME NEW buffer, IsBuffer(buffer)
    PROVE  /\ Len(buffer) \in Nat /\ DOMAIN buffer = 1..Len(buffer)
           /\ \A i \in 1..Len(buffer) : buffer[i] \in Entries
  BY DEF IsBuffer

IsList(buffer, n) == buffer = [i \in 1..n |-> buffer[i]]

LEMMA BufferMade ==
    ASSUME NEW buffer, NEW n \in Nat, IsList(buffer, n),
           \A i \in 1..n : buffer[i] \in Entries,
           \A i, j \in 1..n : buffer[i].key = buffer[j].key => i = j
    PROVE  IsBuffer(buffer) /\ Len(buffer) = n
  BY DEF IsBuffer, IsList

LEMMA KeyIsThere ==
    ASSUME NEW buffer, IsBuffer(buffer), NEW key
    PROVE  key \in Keys(buffer) <=> \E i \in 1..Len(buffer) : buffer[i].key = key
  BY BufferParts DEF Keys, Range

LEMMA MsgsOfAbsent ==
    ASSUME NEW buffer, IsBuffer(buffer), NEW key, key \notin Keys(buffer)
    PROVE  MsgsOf(buffer, key) = <<>>
<1>1. \A i \in 1..Len(buffer) : buffer[i].key # key
  BY KeyIsThere
<1> QED
  BY <1>1 DEF MsgsOf, SelectInSeq

LEMMA MsgsOfEntry ==
    ASSUME NEW buffer, IsBuffer(buffer), NEW i \in 1..Len(buffer)
    PROVE  MsgsOf(buffer, buffer[i].key) = buffer[i].msgs
<1> DEFINE places == {j \in 1..Len(buffer) : buffer[j].key = buffer[i].key}
<1>1. places = {i}
  BY DEF IsBuffer
<1>2. i \in Nat /\ i # 0 /\ i <= i
  BY BufferParts
<1>3. Min(places) = i
  BY <1>1, <1>2 DEF Min
<1>4. SelectInSeq(buffer, LAMBDA entry : entry.key = buffer[i].key) = Min(places)
  BY <1>1 DEF SelectInSeq
<1> QED
  BY <1>2, <1>3, <1>4 DEF MsgsOf

LEMMA MsgsAreNumbers ==
    ASSUME NEW buffer, IsBuffer(buffer), NEW key
    PROVE  MsgsOf(buffer, key) \in Seq(Nat)
<1>1. CASE key \in Keys(buffer)
  <2>1. PICK i \in 1..Len(buffer) : buffer[i].key = key
    BY <1>1, KeyIsThere
  <2>2. buffer[i] \in Entries
    BY <2>1, BufferParts
  <2>3. MsgsOf(buffer, key) = buffer[i].msgs
    BY <2>1, MsgsOfEntry
  <2> QED
    BY <2>2, <2>3, EntryParts
<1>2. CASE key \notin Keys(buffer)
  <2>1. MsgsOf(buffer, key) = <<>>
    BY <1>2, MsgsOfAbsent
  <2> QED
    BY <2>1
<1> QED
  BY <1>1, <1>2

\* Changing the messages of the entry of a key, and of no other.
Changed(buffer, key, msgs) ==
    [i \in DOMAIN buffer |-> IF buffer[i].key = key
                             THEN [buffer[i] EXCEPT !.msgs = msgs] ELSE buffer[i]]

LEMMA MsgsChanged ==
    ASSUME NEW buffer, IsBuffer(buffer), NEW after, NEW key, key \in Keys(buffer),
           NEW msgs \in Seq(Nat), after = Changed(buffer, key, msgs)
    PROVE  /\ IsBuffer(after)
           /\ MsgsOf(after, key) = msgs
           /\ \A other : other # key => MsgsOf(after, other) = MsgsOf(buffer, other)
<1>1. Len(buffer) \in Nat /\ DOMAIN buffer = 1..Len(buffer)
      /\ \A i \in 1..Len(buffer) : buffer[i] \in Entries
  BY BufferParts
<1>2. ASSUME NEW i \in 1..Len(buffer)
      PROVE  /\ after[i] \in Entries /\ after[i].key = buffer[i].key
             /\ after[i].msgs = IF buffer[i].key = key THEN msgs ELSE buffer[i].msgs
  <2>1. after[i] = IF buffer[i].key = key
                      THEN [buffer[i] EXCEPT !.msgs = msgs] ELSE buffer[i]
    BY <1>1 DEF Changed
  <2>2. buffer[i] \in Entries
    BY <1>1
  <2> QED
    BY <2>1, <2>2, EntryWith
<1>3. IsBuffer(after) /\ Len(after) = Len(buffer)
  <2>1. IsList(after, Len(buffer))
    BY <1>1 DEF Changed, IsList
  <2>2. \A i, j \in 1..Len(buffer) : after[i].key = after[j].key => i = j
    BY <1>2 DEF IsBuffer
  <2> QED
    BY <1>1, <1>2, <2>1, <2>2, BufferMade
<1>4. ASSUME NEW k, k \in Keys(buffer)
      PROVE  MsgsOf(after, k) = IF k = key THEN msgs ELSE MsgsOf(buffer, k)
  <2>1. PICK i \in 1..Len(buffer) : buffer[i].key = k
    BY <1>4, KeyIsThere
  <2>2. after[i].key = k /\ i \in 1..Len(after)
    BY <1>2, <1>3, <2>1
  <2>3. MsgsOf(after, k) = after[i].msgs
    BY <1>3, <2>2, MsgsOfEntry
  <2>4. MsgsOf(buffer, k) = buffer[i].msgs
    BY <2>1, MsgsOfEntry
  <2> QED
    BY <1>2, <2>1, <2>3, <2>4
<1>5. ASSUME NEW k, k \notin Keys(buffer)
      PROVE  MsgsOf(after, k) = MsgsOf(buffer, k)
  <2>1. k \notin Keys(after)
    BY <1>2, <1>3, <1>5, KeyIsThere
  <2> QED
    BY <1>3, <1>5, <2>1, MsgsOfAbsent
<1> QED
  BY <1>3, <1>4, <1>5

\* A message is added to those of its key.
LEMMA Added ==
    ASSUME NEW buffer, IsBuffer(buffer), NEW key \in Pids, NEW msg \in Nat
    PROVE  LET after == AddMsg(buffer, key, msg)
           IN  /\ IsBuffer(after)
               /\ MsgsOf(after, key) = Append(MsgsOf(buffer, key), msg)
               /\ \A other : other # key => MsgsOf(after, other) = MsgsOf(buffer, other)
<1>1. Len(buffer) \in Nat /\ DOMAIN buffer = 1..Len(buffer)
      /\ \A i \in 1..Len(buffer) : buffer[i] \in Entries
  BY BufferParts
<1>2. PICK after : after = AddMsg(buffer, key, msg)
  OBVIOUS
<1>3. CASE key \notin Keys(buffer)
  <2>1. PICK entry : entry = [key |-> key, msgs |-> <<msg>>]
    OBVIOUS
  <2>2. entry \in Entries /\ entry.key = key /\ entry.msgs = <<msg>>
    <3>1. <<msg>> \in Seq(Nat)
      OBVIOUS
    <3> QED
      BY <2>1, <3>1, EntryOf
  <2>3. after = Append(buffer, entry)
    BY <1>2, <1>3, <2>1 DEF AddMsg
  <2>4. \A j \in 1..Len(buffer) : buffer[j].key # key
    BY <1>3, KeyIsThere
  <2>5. /\ after \in Seq(Entries) /\ Len(after) = Len(buffer) + 1
        /\ after[Len(after)] = entry
        /\ \A j \in 1..Len(buffer) : after[j] = buffer[j]
    BY <2>2, <2>3 DEF IsBuffer
  <2>6. \A j \in 1..Len(after) : j \in 1..Len(buffer) \/ j = Len(after)
    BY <1>1, <2>5
  <2>7. IsBuffer(after)
    <3>1. ASSUME NEW i \in 1..Len(after), NEW j \in 1..Len(after), after[i].key = after[j].key
          PROVE  i = j
      <4>1. CASE i \in 1..Len(buffer) /\ j \in 1..Len(buffer)
        BY <2>5, <3>1, <4>1 DEF IsBuffer
      <4>2. CASE i = Len(after) \/ j = Len(after)
        BY <2>2, <2>4, <2>5, <2>6, <3>1, <4>2
      <4> QED
        BY <2>6, <4>1, <4>2
    <3> QED
      BY <2>5, <3>1 DEF IsBuffer
  <2>8. MsgsOf(after, key) = <<msg>>
    <3>1. Len(after) \in 1..Len(after)
      BY <1>1, <2>5
    <3> QED
      BY <2>2, <2>5, <2>7, <3>1, MsgsOfEntry
  <2>9. MsgsOf(buffer, key) = <<>>
    BY <1>3, MsgsOfAbsent
  <2>10. ASSUME NEW other, other # key PROVE MsgsOf(after, other) = MsgsOf(buffer, other)
    <3>1. CASE other \in Keys(buffer)
      <4>1. PICK i \in 1..Len(buffer) : buffer[i].key = other
        BY <3>1, KeyIsThere
      <4>2. i \in 1..Len(after) /\ after[i] = buffer[i]
        BY <1>1, <2>5
      <4>3. MsgsOf(after, other) = after[i].msgs
        BY <2>7, <4>1, <4>2, MsgsOfEntry
      <4> QED
        BY <4>1, <4>2, <4>3, MsgsOfEntry
    <3>2. CASE other \notin Keys(buffer)
      <4>1. \A j \in 1..Len(buffer) : after[j].key # other
        BY <2>5, <3>2, KeyIsThere
      <4>2. \A j \in 1..Len(after) : after[j].key # other
        BY <2>2, <2>5, <2>6, <2>10, <4>1
      <4>3. other \notin Keys(after)
        BY <2>7, <4>2, KeyIsThere
      <4> QED
        BY <2>7, <3>2, <4>3, MsgsOfAbsent
    <3> QED
      BY <3>1, <3>2
  <2>11. Append(<<>>, msg) = <<msg>>
    OBVIOUS
  <2> QED
    BY <1>2, <2>7, <2>8, <2>9, <2>10, <2>11
<1>4. CASE key \in Keys(buffer)
  <2>1. PICK i \in 1..Len(buffer) : buffer[i].key = key
    BY <1>4, KeyIsThere
  <2>2. \A j \in DOMAIN buffer : buffer[j].key = key => j = i
    BY <1>1, <2>1 DEF IsBuffer
  <2>3. MsgsOf(buffer, key) = buffer[i].msgs /\ MsgsOf(buffer, key) \in Seq(Nat)
    BY <2>1, MsgsOfEntry, MsgsAreNumbers
  <2>4. PICK msgs : msgs = Append(MsgsOf(buffer, key), msg)
    OBVIOUS
  <2>4a. msgs \in Seq(Nat)
    BY <2>3, <2>4
  <2>5. after = [j \in DOMAIN buffer |-> IF buffer[j].key = key
                    THEN [buffer[j] EXCEPT !.msgs = Append(buffer[j].msgs, msg)] ELSE buffer[j]]
    BY <1>2, <1>4 DEF AddMsg
  <2>6. \A j \in DOMAIN buffer : buffer[j].key = key => Append(buffer[j].msgs, msg) = msgs
    BY <2>2, <2>3, <2>4
  <2>7. after = Changed(buffer, key, msgs)
    BY <2>5, <2>6 DEF Changed
  <2>8. /\ IsBuffer(after) /\ MsgsOf(after, key) = msgs
        /\ \A other : other # key => MsgsOf(after, other) = MsgsOf(buffer, other)
    BY <1>4, <2>4a, <2>7, MsgsChanged
  <2> QED
    BY <1>2, <2>4, <2>8
<1> QED
  BY <1>3, <1>4

\* The first message of a key is taken.
LEMMA Popped ==
    ASSUME NEW buffer, IsBuffer(buffer), NEW key, MsgsOf(buffer, key) # <<>>
    PROVE  LET after == PopMsg(buffer, key)
           IN  /\ IsBuffer(after)
               /\ MsgsOf(after, key) = Tail(MsgsOf(buffer, key))
               /\ \A other : other # key => MsgsOf(after, other) = MsgsOf(buffer, other)
<1>1. Len(buffer) \in Nat /\ DOMAIN buffer = 1..Len(buffer)
  BY BufferParts
<1>2. PICK after : after = PopMsg(buffer, key)
  OBVIOUS
<1>3. key \in Keys(buffer)
  BY MsgsOfAbsent
<1>4. PICK i \in 1..Len(buffer) : buffer[i].key = key
  BY <1>3, KeyIsThere
<1>5. \A j \in DOMAIN buffer : buffer[j].key = key => j = i
  BY <1>1, <1>4 DEF IsBuffer
<1>6. MsgsOf(buffer, key) = buffer[i].msgs /\ MsgsOf(buffer, key) \in Seq(Nat)
  BY <1>4, MsgsOfEntry, MsgsAreNumbers
<1>7. PICK msgs : msgs = Tail(MsgsOf(buffer, key))
  OBVIOUS
<1>7a. msgs \in Seq(Nat)
  BY <1>6, <1>7
<1>8. after = [j \in DOMAIN buffer |-> IF buffer[j].key = key
                  THEN [buffer[j] EXCEPT !.msgs = Tail(buffer[j].msgs)] ELSE buffer[j]]
  BY <1>2 DEF PopMsg
<1>9. \A j \in DOMAIN buffer : buffer[j].key = key => Tail(buffer[j].msgs) = msgs
  BY <1>5, <1>6, <1>7
<1>10. after = Changed(buffer, key, msgs)
  BY <1>8, <1>9 DEF Changed
<1>11. /\ IsBuffer(after) /\ MsgsOf(after, key) = msgs
       /\ \A other : other # key => MsgsOf(after, other) = MsgsOf(buffer, other)
  BY <1>3, <1>7a, <1>10, MsgsChanged
<1> QED
  BY <1>2, <1>7, <1>11

------------------------------------------------------------------------------
(* Messages.                                                                  *)

LEMMA NothingBuffered ==
    ASSUME NEW key
    PROVE  IsBuffer(EmptyBuffer) /\ MsgsOf(EmptyBuffer, key) = <<>>
  <1>1. IsBuffer(EmptyBuffer)
    BY DEF IsBuffer, EmptyBuffer
  <1>2. Keys(EmptyBuffer) = {}
    BY DEF Keys, Range, EmptyBuffer
  <1> QED BY <1>1, <1>2, MsgsOfAbsent

\* Taking the first of the messages that wait.
LEMMA HeadMoves ==
    ASSUME NEW taken \in Seq(Nat), NEW waiting \in Seq(Nat), waiting # <<>>
    PROVE  Append(taken, Head(waiting)) \o Tail(waiting) = taken \o waiting
  <1>1. PICK first, rest : first = Head(waiting) /\ rest = Tail(waiting)
    OBVIOUS
  <1>2. /\ first \in Nat /\ rest \in Seq(Nat) /\ Len(waiting) = Len(rest) + 1
        /\ Len(rest) \in Nat /\ waiting[1] = first
        /\ \A i \in 1..Len(rest) : waiting[i + 1] = rest[i]
    BY <1>1
  <1>3. waiting = <<first>> \o rest
    <2>1. PICK both : both = <<first>> \o rest
      OBVIOUS
    <2>2. both \in Seq(Nat) /\ Len(both) = Len(rest) + 1 /\ both[1] = first
          /\ \A i \in 1..Len(rest) : both[i + 1] = rest[i]
      BY <1>2, <2>1
    <2>3. ASSUME NEW i \in 1..Len(waiting) PROVE waiting[i] = both[i]
      <3>1. CASE i = 1
        BY <1>2, <2>2, <3>1
      <3>2. CASE i # 1
        <4>1. PICK j \in 1..Len(rest) : i = j + 1
          <5>1. i - 1 \in 1..Len(rest) /\ i = (i - 1) + 1
            BY <1>2, <3>2
          <5> QED BY <5>1
        <4> QED BY <1>2, <2>2, <4>1
      <3> QED BY <3>1, <3>2
    <2> QED BY <1>2, <2>1, <2>2, <2>3
  <1>4. Append(taken, first) \o rest = taken \o (<<first>> \o rest)
    BY SMTT(40), <1>2
  <1> QED BY <1>1, <1>3, <1>4

LEMMA TailGrows ==
    ASSUME NEW taken \in Seq(Nat), NEW waiting \in Seq(Nat), NEW n \in Nat
    PROVE  taken \o Append(waiting, n) = Append(taken \o waiting, n)
  OBVIOUS

LEMMA StaysIncreasing ==
    ASSUME NEW all \in Seq(Nat), IsIncreasing(all), NEW n \in Nat,
           \A m \in Range(all) : m < n
    PROVE  IsIncreasing(Append(all, n)) /\ Range(Append(all, n)) = Range(all) \cup {n}
  <1>1. /\ Len(all) \in Nat /\ DOMAIN all = 1..Len(all) /\ \A i \in 1..Len(all) : all[i] \in Nat
        /\ DOMAIN Append(all, n) = 1..(Len(all) + 1)
        /\ \A i \in 1..Len(all) : Append(all, n)[i] = all[i]
        /\ Append(all, n)[Len(all) + 1] = n
    OBVIOUS
  <1>2. PICK longer : longer = Append(all, n)
    OBVIOUS
  <1>3. \A i \in DOMAIN longer : i \in DOMAIN all \/ i = Len(all) + 1
    BY <1>1, <1>2
  <1>4. ASSUME NEW i \in DOMAIN longer, NEW j \in DOMAIN longer, i < j
        PROVE  longer[i] < longer[j]
    <2>1. i \in 1..Len(all)
      BY <1>1, <1>2, <1>4
    <2>2. CASE j \in 1..Len(all)
      BY <1>1, <1>2, <1>4, <2>1, <2>2 DEF IsIncreasing
    <2>3. CASE j = Len(all) + 1
      <3>1. all[i] \in Range(all)
        BY <1>1, <2>1 DEF Range
      <3> QED BY <1>1, <1>2, <2>1, <2>3, <3>1
    <2> QED BY <1>1, <1>3, <2>2, <2>3
  <1>5. Range(longer) = Range(all) \cup {n}
    <2>1. ASSUME NEW m \in Range(longer) PROVE m \in Range(all) \cup {n}
      BY <1>1, <1>2, <1>3, <2>1 DEF Range
    <2>2. ASSUME NEW m \in Range(all) PROVE m \in Range(longer)
      <3>1. PICK i \in 1..Len(all) : all[i] = m
        BY <1>1, <2>2 DEF Range
      <3>2. i \in DOMAIN longer /\ longer[i] = m
        BY <1>1, <1>2, <3>1
      <3> QED BY <3>2 DEF Range
    <2>3. n \in Range(longer)
      <3>1. Len(all) + 1 \in DOMAIN longer /\ longer[Len(all) + 1] = n
        BY <1>1, <1>2
      <3> QED BY <3>1 DEF Range
    <2> QED BY <2>1, <2>2, <2>3
  <1> QED BY <1>2, <1>4, <1>5 DEF IsIncreasing

\* What has been received over a socket, and what waits for it.
AllOf(s) == got[s] \o MsgsOf(inbox[s.peer], <<s.remote, s.own>>)

Delivered ==
    /\ DOMAIN sent = Peers /\ DOMAIN inbox = Peers /\ DOMAIN got = Sockets
    /\ \A p \in Peers : sent[p] \in Nat /\ IsBuffer(inbox[p])
    /\ \A s \in Sockets :
          /\ got[s] \in Seq(Nat)
          /\ IsIncreasing(AllOf(s)) /\ Range(AllOf(s)) = Sent(s, sent[s.peer])

\* The tasks of the schedulers are those of the upload, and the messages are where
\* they should be.
MailInv ==
    /\ upload \in Uploads
    /\ DOMAIN pgraph = Cores /\ \A c \in Cores : pgraph[c].tasks \subseteq AllTasks
    /\ PidsAgree => Delivered

LEMMA SocketParts ==
    ASSUME upload \in Uploads, NEW s \in Sockets
    PROVE  s \in [own : Nat, peer : Peers, remote : Nat]
  <1>1. PICK t \in AllTasks : Kind(t) = "receive" /\ s = Jobs[t].socket
    BY DEF Sockets
  <1> QED BY <1>1, UploadAssumption DEF AllTasks, Jobs, Kind

\* A receive task takes the first of the messages of its socket.
LEMMA ReceiveDelivers ==
    ASSUME MailInv, PidsAgree, NEW t \in AllTasks, Kind(t) = "receive", IsMessageAvailable(t),
           Receive(t), UNCHANGED upload
    PROVE  Delivered'
  <1>1. PICK s \in Sockets : s = Jobs[t].socket
    BY DEF Sockets
  <1>2. s \in [own : Nat, peer : Peers, remote : Nat] /\ s.own = s.remote
    BY <1>1, SocketParts DEF MailInv, PidsAgree
  <1>3. PICK key : key = <<s.remote, s.own>>
    OBVIOUS
  <1>4. key \in GetAll(inbox[s.peer]) /\ KeyTaken(t) = key
    BY <1>1, <1>2, <1>3 DEF IsMessageAvailable, KeyAskedFor, KeyTaken
  <1>5. PICK waiting : waiting = MsgsOf(inbox[s.peer], key)
    OBVIOUS
  <1>6. s.peer \in Peers /\ IsBuffer(inbox[s.peer])
    BY <1>2 DEF MailInv, Delivered
  <1>7. waiting \in Seq(Nat) /\ waiting # <<>>
    BY <1>4, <1>5, <1>6, MsgsAreNumbers DEF GetAll
  <1>8. PICK after : after = PopMsg(inbox[s.peer], key)
    OBVIOUS
  <1>9. /\ IsBuffer(after) /\ MsgsOf(after, key) = Tail(waiting)
        /\ \A other : other # key => MsgsOf(after, other) = MsgsOf(inbox[s.peer], other)
    BY SMTT(40), <1>5, <1>6, <1>7, <1>8, Popped
  <1>10. /\ got' = [got EXCEPT ![s] = Append(got[s], Head(waiting))]
         /\ inbox' = [inbox EXCEPT ![s.peer] = after]
         /\ sent' = sent
    BY <1>1, <1>4, <1>5, <1>8 DEF Receive
  <1>11. Sockets' = Sockets
    BY DEF Sockets, AllTasks, Jobs, Kind
  <1>12. DOMAIN sent' = Peers /\ DOMAIN inbox' = Peers /\ DOMAIN got' = Sockets
    BY <1>10 DEF MailInv, Delivered
  <1>13. \A p \in Peers : sent'[p] \in Nat /\ IsBuffer(inbox'[p])
    BY <1>6, <1>9, <1>10 DEF MailInv, Delivered
  <1>14. ASSUME NEW r \in Sockets
         PROVE  got'[r] \in Seq(Nat) /\ AllOf(r)' = AllOf(r)
    <2>1. r \in [own : Nat, peer : Peers, remote : Nat] /\ r.own = r.remote
      BY SocketParts DEF MailInv, PidsAgree
    <2>2. got[r] \in Seq(Nat)
      BY DEF MailInv, Delivered
    <2>3. CASE r = s
      <3>1. got'[s] = Append(got[s], Head(waiting)) /\ inbox'[s.peer] = after
        BY <1>6, <1>10 DEF MailInv, Delivered
      <3>2. Append(got[s], Head(waiting)) \o Tail(waiting) = got[s] \o waiting
        BY <1>7, <2>2, <2>3, HeadMoves
      <3>3. AllOf(s)' = got'[s] \o MsgsOf(inbox'[s.peer], key) /\ AllOf(s) = got[s] \o waiting
        BY <1>3, <1>5 DEF AllOf
      <3>4. Head(waiting) \in Nat
        BY <1>7
      <3>5. AllOf(s)' = Append(got[s], Head(waiting)) \o Tail(waiting)
        BY <1>9, <3>1, <3>3
      <3>6. got'[s] \in Seq(Nat)
        BY <2>2, <2>3, <3>1, <3>4
      <3> QED BY <2>3, <3>2, <3>3, <3>5, <3>6
    <2>4. CASE r # s
      <3>1. got'[r] = got[r]
        BY <1>10, <2>4 DEF MailInv, Delivered
      <3>2. CASE r.peer = s.peer
        <4>1. <<r.remote, r.own>> # key
          BY <1>2, <1>3, <2>1, <2>4, <3>2
        <4>2. MsgsOf(after, <<r.remote, r.own>>) = MsgsOf(inbox[s.peer], <<r.remote, r.own>>)
          BY <1>9, <4>1
        <4>3. inbox'[r.peer] = after
          BY <1>6, <1>10, <3>2 DEF MailInv, Delivered
        <4> QED BY <2>2, <3>1, <3>2, <4>2, <4>3 DEF AllOf
      <3>3. CASE r.peer # s.peer
        <4>1. inbox'[r.peer] = inbox[r.peer]
          BY <1>10, <2>1, <3>3 DEF MailInv, Delivered
        <4> QED BY <2>2, <3>1, <4>1 DEF AllOf
      <3> QED BY <3>2, <3>3
    <2> QED BY <2>3, <2>4
  <1>15. ASSUME NEW r \in Sockets
         PROVE  /\ got'[r] \in Seq(Nat)
                /\ IsIncreasing(AllOf(r)') /\ Range(AllOf(r)') = Sent(r, sent[r.peer])'
    <2>1. Sent(r, sent[r.peer])' = Sent(r, sent[r.peer])
      BY <1>10 DEF Sent
    <2>2. IsIncreasing(AllOf(r)) /\ Range(AllOf(r)) = Sent(r, sent[r.peer])
      BY DEF MailInv, Delivered
    <2> QED BY <1>14, <2>1, <2>2
  <1> QED BY <1>11, <1>12, <1>13, <1>15 DEF Delivered, IsIncreasing

\* A message that arrives is the last of its socket.
LEMMA ArrivalDelivers ==
    ASSUME MailInv, PidsAgree, NEW peer \in Peers, Arrive(peer)
    PROVE  Delivered'
  <1>1. PICK n : n = sent[peer] + 1
    OBVIOUS
  <1>2. n \in Nat /\ n \in 1..Len(upload.mail[peer]) /\ sent[peer] = n - 1 /\ sent[peer] \in Nat
    <2>1. upload.mail[peer] \in Seq(Nat \X Nat)
      BY UploadAssumption DEF MailInv
    <2>2. sent[peer] \in Nat /\ sent[peer] < Len(upload.mail[peer]) /\ Len(upload.mail[peer]) \in Nat
      BY <2>1 DEF MailInv, Delivered, Arrive
    <2> QED BY <1>1, <2>2
  <1>3. PICK key : key = upload.mail[peer][n]
    OBVIOUS
  <1>4. key \in Pids
    <2>1. upload.mail[peer] \in Seq(Nat \X Nat)
      BY UploadAssumption DEF MailInv
    <2> QED BY <1>2, <1>3, <2>1 DEF Pids
  <1>5. PICK after : after = AddMsg(inbox[peer], key, n)
    OBVIOUS
  <1>6. IsBuffer(inbox[peer])
    BY DEF MailInv, Delivered
  <1>7. /\ IsBuffer(after) /\ MsgsOf(after, key) = Append(MsgsOf(inbox[peer], key), n)
        /\ \A other : other # key => MsgsOf(after, other) = MsgsOf(inbox[peer], other)
    <2>1. n \in Nat
      BY <1>2
    <2>2. /\ IsBuffer(AddMsg(inbox[peer], key, n))
          /\ MsgsOf(AddMsg(inbox[peer], key, n), key) = Append(MsgsOf(inbox[peer], key), n)
          /\ \A other : other # key =>
                MsgsOf(AddMsg(inbox[peer], key, n), other) = MsgsOf(inbox[peer], other)
      BY ONLY <1>4, <1>6, <2>1, Added, Zenon
    <2> QED BY ONLY <1>5, <2>2
  <1>8. /\ sent' = [sent EXCEPT ![peer] = n] /\ sent'[peer] = n
        /\ inbox' = [inbox EXCEPT ![peer] = after]
        /\ got' = got /\ upload' = upload
    <2>1. sent' = [sent EXCEPT ![peer] = n]
      BY <1>1 DEF Arrive
    <2>2. sent'[peer] = n
      BY <2>1 DEF MailInv, Delivered
    <2> QED BY <1>3, <1>5, <2>1, <2>2 DEF Arrive
  <1>9. Sockets' = Sockets
    BY <1>8 DEF Sockets, AllTasks, Jobs, Kind
  <1>10. DOMAIN sent' = Peers /\ DOMAIN inbox' = Peers /\ DOMAIN got' = Sockets
    BY <1>8 DEF MailInv, Delivered
  <1>11. \A p \in Peers : sent'[p] \in Nat /\ IsBuffer(inbox'[p])
    BY <1>2, <1>7, <1>8 DEF MailInv, Delivered
  <1>12. ASSUME NEW r \in Sockets
         PROVE  /\ got'[r] \in Seq(Nat)
                /\ IsIncreasing(AllOf(r)') /\ Range(AllOf(r)') = Sent(r, sent[r.peer])'
    <2>1. r \in [own : Nat, peer : Peers, remote : Nat]
      BY SocketParts DEF MailInv
    <2>2. /\ got[r] \in Seq(Nat) /\ got'[r] = got[r]
          /\ IsIncreasing(AllOf(r)) /\ Range(AllOf(r)) = Sent(r, sent[r.peer])
      BY <1>8 DEF MailInv, Delivered
    <2>3. CASE r.peer # peer
      <3>1. sent'[r.peer] = sent[r.peer] /\ inbox'[r.peer] = inbox[r.peer]
        BY <1>8, <2>1, <2>3 DEF MailInv, Delivered
      <3>2. Sent(r, sent[r.peer])' = Sent(r, sent[r.peer]) /\ AllOf(r)' = AllOf(r)
        BY <1>8, <2>2, <3>1 DEF Sent, AllOf
      <3> QED BY <2>2, <3>2
    <2>4. CASE r.peer = peer
      <3>1. inbox'[r.peer] = after /\ sent'[r.peer] = n
        BY <1>8, <2>4 DEF MailInv, Delivered
      <3>2. Sent(r, sent[r.peer])' = Sent(r, n) /\ Sent(r, sent[r.peer]) = Sent(r, n - 1)
        BY <1>2, <1>8, <2>4, <3>1 DEF Sent
      <3>3. CASE <<r.remote, r.own>> = key
        <4>1. Sent(r, n) = Sent(r, n - 1) \cup {n}
          BY <1>2, <1>3, <2>4, <3>3 DEF Sent
        <4>2. PICK taken, waiting : taken = got[r] /\ waiting = MsgsOf(inbox[peer], key)
          OBVIOUS
        <4>3. taken \in Seq(Nat) /\ waiting \in Seq(Nat)
          BY <1>6, <2>2, <4>2, MsgsAreNumbers
        <4>4. AllOf(r) = taken \o waiting
          BY <2>4, <3>3, <4>2 DEF AllOf
        <4>5. AllOf(r) \in Seq(Nat)
          BY <4>3, <4>4
        <4>6. AllOf(r)' = taken \o Append(waiting, n)
          BY <1>7, <2>2, <3>1, <3>3, <4>2 DEF AllOf
        <4>7. AllOf(r)' = Append(AllOf(r), n)
          BY <1>2, <4>3, <4>4, <4>6, TailGrows
        <4>8. \A m \in Range(AllOf(r)) : m < n
          BY <1>2, <2>2, <3>2 DEF Sent
        <4>9. IsIncreasing(Append(AllOf(r), n)) /\ Range(Append(AllOf(r), n)) = Range(AllOf(r)) \cup {n}
          BY <1>2, <2>2, <4>5, <4>8, StaysIncreasing
        <4> QED BY <2>2, <3>2, <4>1, <4>7, <4>9
      <3>4. CASE <<r.remote, r.own>> # key
        <4>1. Sent(r, n) = Sent(r, n - 1)
          BY <1>2, <1>3, <2>4, <3>4 DEF Sent
        <4>2. MsgsOf(after, <<r.remote, r.own>>) = MsgsOf(inbox[peer], <<r.remote, r.own>>)
          BY <1>7, <3>4
        <4>3. AllOf(r)' = AllOf(r)
          BY <2>2, <2>4, <3>1, <4>2 DEF AllOf
        <4> QED BY <2>2, <3>2, <4>1, <4>3
      <3> QED BY <3>3, <3>4
    <2> QED BY <2>3, <2>4
  <1> QED BY <1>9, <1>10, <1>11, <1>12 DEF Delivered, IsIncreasing

LEMMA MailInvInitially == Init => MailInv
  <1> SUFFICES ASSUME Init PROVE MailInv
    OBVIOUS
  <1>1. upload \in Uploads /\ DOMAIN pgraph = Cores /\ \A c \in Cores : pgraph[c].tasks \subseteq AllTasks
    BY DEF Init, PartialGraph, WholeGraph
  <1>2. ASSUME NEW s \in Sockets
        PROVE  /\ got[s] \in Seq(Nat)
               /\ IsIncreasing(AllOf(s)) /\ Range(AllOf(s)) = Sent(s, sent[s.peer])
    <2>1. s.peer \in Peers
      BY <1>1, SocketParts
    <2>2. got[s] = <<>> /\ sent[s.peer] = 0 /\ inbox[s.peer] = EmptyBuffer
      BY <2>1 DEF Init
    <2>3. AllOf(s) = <<>>
      BY <2>2, NothingBuffered DEF AllOf
    <2>4. Sent(s, 0) = {}
      BY DEF Sent
    <2>5. IsIncreasing(<<>>) /\ Range(<<>>) = {}
      BY DEF IsIncreasing, Range
    <2>6. <<>> \in Seq(Nat)
      OBVIOUS
    <2>7. IsIncreasing(AllOf(s)) /\ Range(AllOf(s)) = {}
      BY <2>3, <2>5
    <2>8. Sent(s, sent[s.peer]) = {}
      BY <2>2, <2>4
    <2> QED BY <2>2, <2>6, <2>7, <2>8
  <1>3. \A p \in Peers : sent[p] \in Nat /\ IsBuffer(inbox[p])
    BY NothingBuffered DEF Init
  <1>4. DOMAIN sent = Peers /\ DOMAIN inbox = Peers /\ DOMAIN got = Sockets
    BY DEF Init
  <1> QED BY <1>1, <1>2, <1>3, <1>4 DEF MailInv, Delivered

LEMMA MailInvPreserved ==
    ASSUME MailInv, [Next]_vars
    PROVE  MailInv'
  <1>1. upload' = upload
    BY DEF Next, vars, StartTask, Sleep, FinishTask, FailTask, AlarmRings, Arrive, Tick
  <1>2. AllTasks' = AllTasks /\ Sockets' = Sockets /\ PidsAgree' = PidsAgree
    BY <1>1 DEF AllTasks, Jobs, Sockets, Kind, PidsAgree
  <1>3. ASSUME PidsAgree, UNCHANGED mailVars
        PROVE  Delivered'
    <2>1. Delivered
      BY <1>3 DEF MailInv
    <2>2. \A s \in Sockets : Sent(s, sent[s.peer])' = Sent(s, sent[s.peer]) /\ AllOf(s)' = AllOf(s)
      BY <1>1, <1>3 DEF mailVars, Sent, AllOf
    <2> QED BY <1>2, <1>3, <2>1, <2>2 DEF Delivered, mailVars, IsIncreasing
  <1>4. ASSUME NEW c \in Cores
        PROVE  Polled(c).tasks \subseteq AllTasks
    BY DEF MailInv, Polled, DropFinished
  <1>5. ASSUME NEW c \in Cores, StartTask(c)
        PROVE  MailInv'
    <2>1. DOMAIN pgraph' = Cores /\ \A d \in Cores : pgraph'[d].tasks \subseteq AllTasks
      BY <1>4, <1>5 DEF MailInv, StartTask
    <2>2. ASSUME PidsAgree PROVE Delivered'
      <3>1. PICK t \in Candidates(c) : IF Kind(t) = "receive" THEN Receive(t) ELSE UNCHANGED mailVars
        BY <1>5 DEF StartTask
      <3>2. t \in Ready(c)
        BY DEF Candidates, EarliestDeadline
      <3>3. t \in AllTasks
        BY <1>4, <3>2 DEF Ready, Roots, RootsIgnoringExternal
      <3>4. CASE Kind(t) = "receive"
        <4>1. IsMessageAvailable(t)
          BY <3>2, <3>4 DEF Ready, BlockedOnMessage
        <4> QED BY <1>1, <2>2, <3>1, <3>3, <3>4, <4>1, ReceiveDelivers
      <3>5. CASE Kind(t) # "receive"
        BY <1>3, <2>2, <3>1, <3>5
      <3> QED BY <3>4, <3>5
    <2> QED BY <1>1, <1>2, <2>1, <2>2 DEF MailInv
  <1>6. ASSUME NEW c \in Cores, Sleep(c)
        PROVE  MailInv'
    <2>1. DOMAIN pgraph' = Cores /\ \A d \in Cores : pgraph'[d].tasks \subseteq AllTasks
      BY <1>4, <1>6 DEF MailInv, Sleep
    <2>2. UNCHANGED mailVars
      BY <1>6 DEF Sleep
    <2> QED BY <1>1, <1>2, <1>3, <2>1, <2>2 DEF MailInv
  <1>7. ASSUME NEW c \in Cores, FinishTask(c)
        PROVE  MailInv'
    <2>1. DOMAIN pgraph' = Cores /\ \A d \in Cores : pgraph'[d].tasks \subseteq AllTasks
      BY <1>7 DEF MailInv, FinishTask, RemoveTask
    <2>2. UNCHANGED mailVars
      BY <1>7 DEF FinishTask
    <2> QED BY <1>1, <1>2, <1>3, <2>1, <2>2 DEF MailInv
  <1>8. ASSUME NEW c \in Cores, FailTask(c) \/ AlarmRings(c)
        PROVE  MailInv'
    <2>1. UNCHANGED <<pgraph, mailVars>>
      BY <1>8 DEF FailTask, AlarmRings, graphVars
    <2> QED BY <1>1, <1>2, <1>3, <2>1 DEF MailInv
  <1>9. ASSUME NEW p \in Peers, Arrive(p)
        PROVE  MailInv'
    <2>1. UNCHANGED pgraph
      BY <1>9 DEF Arrive, graphVars
    <2>2. PidsAgree => Delivered'
      BY <1>9, ArrivalDelivers
    <2> QED BY <1>1, <1>2, <2>1, <2>2 DEF MailInv
  <1>10. CASE Tick \/ UNCHANGED vars
    <2>1. UNCHANGED <<pgraph, mailVars>>
      BY <1>10 DEF Tick, vars, graphVars
    <2> QED BY <1>1, <1>2, <1>3, <2>1 DEF MailInv
  <1> QED BY <1>5, <1>6, <1>7, <1>8, <1>9, <1>10 DEF Next

\* Where programs that talk to each other have the same pid on both nodes, no
\* message is lost, duplicated, put out of order or handed to another program
\* (MessageBuffer, recv_classical_msg): whatever the peers send and whenever it
\* arrives.
THEOREM EveryMessageReachesItsProgram == Spec => []MessagesReachTheirProgram
  <1>1. MailInv => MessagesReachTheirProgram
    BY DEF MailInv, Delivered, AllOf, MessagesReachTheirProgram
  <1> QED BY <1>1, MailInvInitially, MailInvPreserved, PTL DEF Spec

------------------------------------------------------------------------------
(* Bins.                                                                      *)

LEMMA MinIsLeast ==
    ASSUME NEW S, S \subseteq Nat, S # {}
    PROVE  Min(S) \in S /\ \A i \in S : Min(S) <= i
  <1>1. PICK k \in S : \A l \in S : ~ (<<l, k>> \in OpToRel(<, Nat))
    <2>1. IsWellFoundedOn(OpToRel(<, Nat), Nat)
      BY NatLessThanWellFounded
    <2> QED BY <2>1, WFMin
  <1>2. ASSUME NEW l \in Nat, NEW m \in Nat, l < m
        PROVE  <<l, m>> \in OpToRel(<, Nat)
    BY <1>2 DEF OpToRel
  <1>3. \A l \in S : ~ (l < k) /\ l \in Nat /\ k \in Nat
    BY <1>1, <1>2
  <1>4. \A l \in S : k <= l
    BY <1>3
  <1> QED BY <1>4 DEF Min

\* A partial graph is a record of its three fields.
IsPartial(pg) == pg = [tasks |-> pg.tasks, preds |-> pg.preds, ext |-> pg.ext]

\* The tasks that nothing of the graph precedes, and that the given ones would
\* make roots.
RootsAfter(pg, done) == {t \in RootsIgnoringExternal(pg) : pg.ext[t] \subseteq done}

LEMMA Polling ==
    ASSUME NEW pg, IsPartial(pg), NEW done, NEW polled, polled = DropFinished(pg, done)
    PROVE  /\ IsPartial(polled)
           /\ RootsIgnoringExternal(polled) = RootsIgnoringExternal(pg)
           /\ \A t \in RootsIgnoringExternal(pg) : polled.ext[t] = pg.ext[t] \ done
           /\ Roots(polled) = RootsAfter(pg, done)
           /\ \A more : done \subseteq more => RootsAfter(polled, more) = RootsAfter(pg, more)
  <1> DEFINE ext == [t \in pg.tasks |-> IF t \in RootsIgnoringExternal(pg)
                                        THEN pg.ext[t] \ done ELSE pg.ext[t]]
  <1>1. polled = [tasks |-> pg.tasks, preds |-> pg.preds, ext |-> ext]
    <2>1. polled = [pg EXCEPT !.ext = ext]
      BY DEF DropFinished
    <2> HIDE DEF ext
    <2> QED BY <2>1 DEF IsPartial
  <1>2. polled.tasks = pg.tasks /\ polled.preds = pg.preds /\ polled.ext = ext /\ IsPartial(polled)
    <2> HIDE DEF ext
    <2> QED BY <1>1 DEF IsPartial
  <1>3. RootsIgnoringExternal(polled) = RootsIgnoringExternal(pg)
    BY <1>2 DEF RootsIgnoringExternal
  <1>4. \A t \in RootsIgnoringExternal(pg) : polled.ext[t] = pg.ext[t] \ done
    BY <1>2 DEF RootsIgnoringExternal
  <1>5. Roots(polled) = RootsAfter(pg, done)
    BY <1>3, <1>4 DEF Roots, RootsAfter
  <1>6. \A more : done \subseteq more => RootsAfter(polled, more) = RootsAfter(pg, more)
    BY <1>3, <1>4 DEF RootsAfter
  <1> HIDE DEF ext
  <1> QED BY <1>2, <1>3, <1>4, <1>5, <1>6

\* The pair tasks that the QPU may execute.
Pairs == {t \in RootsAfter(pgraph["QPU"], finished["CPU"]) : Kind(t) = "epr"}

\* No bin for the task is taken to start between now and then: none starts between
\* the times that are first_bin earlier.
NoBinBefore(then, t) ==
    \A r \in Int : \A i \in DOMAIN schedule.pattern :
        schedule.pattern[i] = Jobs[t].bin /\ StartOf(schedule, r, i) >= AskedFor(schedule, now)
        => StartOf(schedule, r, i) >= AskedFor(schedule, then)

\* An alarm will ring for the task in time.
Alarmed(t) ==
    /\ "time" \in waits["QPU"]
    /\ \E then \in alarm["QPU"] : then >= now /\ NoBinBefore(then, t)

\* While the QPU sleeps, an alarm is set for each pair task that it may execute,
\* and those that the CPU holds up will wake it.
SleepInv ==
    /\ running["QPU"] # NoTask => waits["QPU"] = {}
    /\ waits["QPU"] # {} =>
          /\ \A t \in RootsIgnoringExternal(pgraph["QPU"]) :
                pgraph["QPU"].ext[t] \subseteq finished["CPU"] \/ "other" \in waits["QPU"]
          /\ schedule # NoSchedule /\ IsInjective(schedule.pattern) => \A t \in Pairs : Alarmed(t)

Placed ==
    /\ DOMAIN pgraph = Cores /\ DOMAIN running = Cores /\ DOMAIN finished = Cores
    /\ DOMAIN waits = Cores /\ DOMAIN alarm = Cores

BinInv ==
    /\ TimeInv /\ upload \in Uploads
    /\ Placed
    /\ \A c \in Cores : IsPartial(pgraph[c]) /\ pgraph[c].tasks \subseteq AllTasks
    /\ alarm["QPU"] \subseteq Nat
    /\ SleepInv

LEMMA TheCores ==
    /\ "CPU" \in Cores /\ "QPU" \in Cores /\ Other("CPU") = "QPU" /\ Other("QPU") = "CPU"
    /\ \A c \in Cores : c = "CPU" \/ c = "QPU"
  BY DEF Cores, Other

LEMMA PairsAreEprRoots ==
    ASSUME BinInv
    PROVE  EprRoots("QPU") = Pairs /\ Roots(Polled("QPU")) = RootsAfter(pgraph["QPU"], finished["CPU"])
  <1>1. Roots(Polled("QPU")) = RootsAfter(pgraph["QPU"], finished["CPU"])
    BY TheCores, Polling DEF BinInv, Placed, Polled
  <1> QED BY <1>1 DEF EprRoots, Pairs

LEMMA BinInvInitially == Init => BinInv
  <1> SUFFICES ASSUME Init PROVE BinInv
    OBVIOUS
  <1>1. TimeInv /\ upload \in Uploads
    BY DEF Init, TimeInv
  <1>2. Placed
    BY DEF Init, Placed
  <1>3. \A c \in Cores : IsPartial(pgraph[c]) /\ pgraph[c].tasks \subseteq AllTasks
    BY DEF Init, PartialGraph, WholeGraph, IsPartial
  <1>4. alarm["QPU"] = {} /\ waits["QPU"] = {}
    BY TheCores DEF Init
  <1> QED BY <1>1, <1>2, <1>3, <1>4 DEF BinInv, Placed, SleepInv

\* A processor that starts a task, or goes to sleep, replaces its graph by what
\* it has polled.
LEMMA GraphAfterPolling ==
    ASSUME BinInv, NEW c \in Cores, pgraph' = [pgraph EXCEPT ![c] = Polled(c)],
           UNCHANGED <<upload, finished>>
    PROVE  /\ DOMAIN pgraph' = Cores
           /\ \A d \in Cores : IsPartial(pgraph'[d]) /\ pgraph'[d].tasks \subseteq AllTasks'
           /\ Pairs' = Pairs
           /\ c = "CPU" => pgraph'["QPU"] = pgraph["QPU"]
  <1>1. PICK polled : polled = DropFinished(pgraph[c], finished[Other(c)]) /\ polled = Polled(c)
    BY DEF Polled
  <1>2. /\ IsPartial(polled)
        /\ \A more : finished[Other(c)] \subseteq more =>
                        RootsAfter(polled, more) = RootsAfter(pgraph[c], more)
    <2>1. IsPartial(pgraph[c])
      BY DEF BinInv, Placed
    <2>2. PICK pg, done : pg = pgraph[c] /\ done = finished[Other(c)]
      OBVIOUS
    <2>3. polled = DropFinished(pg, done) /\ IsPartial(pg)
      BY <1>1, <2>1, <2>2
    <2>4. IsPartial(polled)
      BY <2>3, Polling
    <2>5. ASSUME NEW more, done \subseteq more
          PROVE  RootsAfter(polled, more) = RootsAfter(pg, more)
      BY <2>3, <2>5, Polling
    <2> QED BY <2>2, <2>4, <2>5
  <1>3. polled.tasks = pgraph[c].tasks
    BY <1>1 DEF DropFinished, BinInv, Placed, IsPartial
  <1>4. DOMAIN pgraph' = Cores /\ \A d \in Cores : pgraph'[d] = IF d = c THEN polled ELSE pgraph[d]
    BY <1>1 DEF BinInv, Placed
  <1>5. AllTasks' = AllTasks /\ Jobs' = Jobs
    BY DEF AllTasks, Jobs
  <1>6. \A d \in Cores : IsPartial(pgraph'[d]) /\ pgraph'[d].tasks \subseteq AllTasks'
    BY <1>2, <1>3, <1>4, <1>5 DEF BinInv, Placed
  <1>7. RootsAfter(pgraph'["QPU"], finished["CPU"]) = RootsAfter(pgraph["QPU"], finished["CPU"])
    <2>1. CASE c = "QPU"
      BY <1>2, <1>4, <2>1, TheCores
    <2>2. CASE c = "CPU"
      BY <1>4, <2>2, TheCores
    <2> QED BY <2>1, <2>2, TheCores
  <1>8. Pairs' = Pairs
    BY <1>5, <1>7 DEF Pairs, Kind
  <1>9. c = "CPU" => pgraph'["QPU"] = pgraph["QPU"]
    BY <1>4, TheCores
  <1> QED BY <1>4, <1>6, <1>8, <1>9

\* What is the same for the QPU leaves its alarms right.
LEMMA SleepsOn ==
    ASSUME BinInv, UNCHANGED <<schedule, now, upload>>, Pairs' \subseteq Pairs,
           pgraph'["QPU"] = pgraph["QPU"], running'["QPU"] = running["QPU"],
           finished'["CPU"] = finished["CPU"], waits'["QPU"] = waits["QPU"],
           alarm["QPU"] \subseteq alarm'["QPU"]
    PROVE  SleepInv'
  <1>1. ASSUME NEW t, Alarmed(t) PROVE Alarmed(t)'
    <2>1. PICK then \in alarm["QPU"] : then >= now /\ NoBinBefore(then, t)
      BY <1>1 DEF Alarmed
    <2>2. NoBinBefore(then, t)'
      BY <2>1 DEF NoBinBefore, Jobs
    <2> QED BY <1>1, <2>1, <2>2 DEF Alarmed
  <1>2. /\ running'["QPU"] # NoTask => waits'["QPU"] = {}
        /\ waits'["QPU"] # {} =>
              \A t \in RootsIgnoringExternal(pgraph'["QPU"]) :
                pgraph'["QPU"].ext[t] \subseteq finished'["CPU"] \/ "other" \in waits'["QPU"]
    BY DEF BinInv, Placed, SleepInv
  <1>3. ASSUME waits'["QPU"] # {}, schedule' # NoSchedule, IsInjective(schedule'.pattern),
               NEW t \in Pairs'
        PROVE  Alarmed(t)'
    <2>1. Alarmed(t)
      BY <1>3 DEF BinInv, Placed, SleepInv
    <2> QED BY <1>1, <2>1
  <1> QED BY <1>2, <1>3 DEF SleepInv

\* The QPU awake has no alarms to care about.
LEMMA AwakeNow ==
    ASSUME waits'["QPU"] = {}
    PROVE  SleepInv'
  BY DEF SleepInv

\* The next bin of a pair task is at a time.
LEMMA BinTimes ==
    ASSUME BinInv, \A s \in Schedules : FirstInBin(s), NEW u \in EprRoots("QPU")
    PROVE  now + TimeUntilBin(u) \in Nat /\ now + TimeUntilBin(u) >= now
  <1>1. u \in AllTasks /\ Kind(u) = "epr"
    BY PairsAreEprRoots, TheCores DEF Pairs, RootsAfter, RootsIgnoringExternal, BinInv, Placed
  <1>2. now \in Nat
    BY DEF BinInv, Placed, TimeInv
  <1>3. CASE schedule = NoSchedule
    BY <1>2, <1>3 DEF TimeUntilBin
  <1>4. CASE schedule # NoSchedule
    <2>1. WellPlaced(schedule) /\ schedule \in Schedules
      BY <1>4, ScheduleAssumption DEF BinInv, Placed, TimeInv, WellPlaced
    <2>2. Jobs[u].bin \in Range(schedule.pattern)
      BY <2>1, <1>1, UploadAssumption DEF AllTasks, Jobs, Kind, BinInv, Placed
    <2>3. TimeUntil(schedule, now, Jobs[u].bin) \in Nat
      BY <1>2, <1>4, <2>1, <2>2, WaitIsNat
    <2>4. now + TimeUntilBin(u) = now + TimeUntil(schedule, now, Jobs[u].bin)
      BY <1>4 DEF TimeUntilBin
    <2> QED BY <1>2, <2>3, <2>4
  <1> QED BY <1>3, <1>4

\* An alarm is set for a time of the future.
LEMMA AlarmsAreTimes ==
    ASSUME BinInv, Sleep("QPU"), \A s \in Schedules : FirstInBin(s)
    PROVE  alarm'["QPU"] \subseteq Nat
  <1>1. alarm' = alarm \/ alarm' = [alarm EXCEPT !["QPU"] = @ \cup TimesToWaitFor("QPU")]
    BY DEF Sleep
  <1>2. alarm["QPU"] \subseteq Nat
    BY DEF BinInv, Placed
  <1> DEFINE times == {Jobs[u].start : u \in WithFutureStart("QPU")}
                      \cup {now + TimeUntilBin(u) : u \in WaitingForBin("QPU")}
  <1>3. times \subseteq Nat
    <2>1. WithFutureStart("QPU") = {}
      BY DEF WithFutureStart
    <2>2. \A u \in WaitingForBin("QPU") : now + TimeUntilBin(u) \in Nat
      BY BinTimes DEF WaitingForBin
    <2> QED BY <2>1, <2>2
  <1>4. TimesToWaitFor("QPU") \subseteq Nat
    <2>1. times # {} => Min(times) \in times
      <3> HIDE DEF times
      <3> QED BY <1>3, MinIsLeast
    <2>2. TimesToWaitFor("QPU") = IF times = {} THEN {} ELSE {Min(times)}
      BY DEF TimesToWaitFor
    <2> HIDE DEF times
    <2> QED BY <1>3, <2>1, <2>2
  <1> QED BY <1>1, <1>2, <1>4, TheCores DEF BinInv, Placed

\* When the QPU goes to sleep, the alarm is set for the earliest of its bins.
LEMMA SleepsInTime ==
    ASSUME BinInv, Sleep("QPU"), waits'["QPU"] # {},
           \A s \in Schedules : FirstInBin(s)
    PROVE  SleepInv'
  <1>1. /\ Awake("QPU") /\ Candidates("QPU") = {} /\ pgraph' = [pgraph EXCEPT !["QPU"] = Polled("QPU")]
        /\ UNCHANGED <<schedule, now, upload, running, finished>>
    BY DEF Sleep, execVars
  <1>2. /\ waits' = [waits EXCEPT !["QPU"] = {"tasks"} \cup Reasons("QPU")]
        /\ alarm' = [alarm EXCEPT !["QPU"] = @ \cup TimesToWaitFor("QPU")]
    BY <1>1 DEF Sleep, Awake
  <1>3. /\ Reasons("QPU") \subseteq waits'["QPU"] /\ TimesToWaitFor("QPU") \subseteq alarm'["QPU"]
        /\ pgraph'["QPU"] = Polled("QPU") /\ running'["QPU"] = NoTask
    BY <1>1, <1>2, TheCores DEF BinInv, Placed, Awake
  <1>4. ASSUME NEW t \in RootsIgnoringExternal(pgraph'["QPU"])
        PROVE  pgraph'["QPU"].ext[t] \subseteq finished'["CPU"] \/ "other" \in waits'["QPU"]
    <2>1. CASE Polled("QPU").ext[t] = {}
      BY <1>3, <2>1
    <2>2. CASE Polled("QPU").ext[t] # {}
      <3>1. t \in BlockedOnlyOnExternal(Polled("QPU"))
        BY <1>3, <1>4, <2>2 DEF BlockedOnlyOnExternal
      <3> QED BY <1>3, <3>1 DEF Reasons
    <2> QED BY <2>1, <2>2
  <1>5. ASSUME schedule # NoSchedule, IsInjective(schedule.pattern), NEW t \in Pairs'
        PROVE  Alarmed(t)'
    <2>1. Pairs' = Pairs
      BY <1>1, TheCores, GraphAfterPolling
    <2>2. t \in EprRoots("QPU") /\ EprRoots("QPU") = Pairs
      BY <1>5, <2>1, PairsAreEprRoots
    <2>3. t \notin Ready("QPU")
      BY <1>1, <2>2 DEF Candidates
    <2>4. WithFutureStart("QPU") = {}
      BY DEF WithFutureStart
    <2>5. t \in WaitingForBin("QPU")
      BY <2>2, <2>3, <2>4 DEF Ready, BlockedOnMessage, EprRoots
    <2>6. WellPlaced(schedule) /\ now \in Nat /\ schedule \in Schedules
      BY <1>5, ScheduleAssumption DEF BinInv, Placed, TimeInv, WellPlaced
    <2>7. \A u \in EprRoots("QPU") : now + TimeUntilBin(u) \in Nat /\ now + TimeUntilBin(u) >= now
      BY BinTimes
    <2> DEFINE times == {Jobs[u].start : u \in WithFutureStart("QPU")}
                        \cup {now + TimeUntilBin(u) : u \in WaitingForBin("QPU")}
    <2>8. times \subseteq Nat /\ now + TimeUntilBin(t) \in times
      BY <2>4, <2>5, <2>7 DEF WaitingForBin
    <2>9. TimesToWaitFor("QPU") = {Min(times)}
      BY <2>8 DEF TimesToWaitFor
    <2>10. PICK then \in times : then = Min(times) /\ then <= now + TimeUntilBin(t)
      <3> HIDE DEF times
      <3> QED BY <2>8, MinIsLeast
    <2>11. then >= now
      BY <2>4, <2>7, <2>10 DEF WaitingForBin
    <2>12. NoBinBefore(then, t)
      <3> SUFFICES ASSUME NEW r \in Int, NEW i \in DOMAIN schedule.pattern,
                          schedule.pattern[i] = Jobs[t].bin,
                          StartOf(schedule, r, i) >= AskedFor(schedule, now)
                   PROVE  StartOf(schedule, r, i) >= AskedFor(schedule, then)
        BY DEF NoBinBefore
      <3>1. PICK first, wait, start : /\ first = schedule.first /\ wait = TimeUntilBin(t)
                                      /\ start = StartOf(schedule, r, i)
        OBVIOUS
      <3>2. wait = TimeUntil(schedule, now, Jobs[t].bin)
        BY <1>5, <3>1 DEF TimeUntilBin
      <3>3. start >= (now - first) + wait
        BY <1>5, <2>6, <3>1, <3>2, NextSpecificOfAll DEF AskedFor
      <3>4. wait \in Nat /\ now \in Nat /\ then \in Nat /\ then <= now + wait
        <4>1. wait \in Nat
          <5>1. Jobs[t].bin \in Range(schedule.pattern)
            <6>1. i \in DOMAIN schedule.pattern /\ schedule.pattern[i] = Jobs[t].bin
              OBVIOUS
            <6> QED BY <6>1 DEF Range
          <5> QED BY <1>5, <2>6, <3>2, <5>1, WaitIsNat
        <4> QED BY <2>6, <2>8, <2>10, <3>1, <4>1
      <3>5. start \in Int /\ first \in Int
        BY <2>6, <3>1, OthersAreFar DEF WellPlaced, IsSchedule
      <3>6. start >= then - first
        BY <3>3, <3>4, <3>5
      <3> QED BY <3>1, <3>6 DEF AskedFor
    <2>13. NoBinBefore(then, t)'
      BY <1>1, <2>12 DEF NoBinBefore, Jobs
    <2>14. "time" \in waits'["QPU"] /\ then \in alarm'["QPU"]
      BY <1>3, <2>9, <2>10 DEF Reasons
    <2> QED BY <1>1, <2>11, <2>13, <2>14 DEF Alarmed
  <1> QED BY <1>1, <1>3, <1>4, <1>5 DEF SleepInv

LEMMA BinInvPreserved ==
    ASSUME BinInv, [Next]_vars, \A s \in Schedules : FirstInBin(s)
    PROVE  BinInv'
  <1>1. upload' = upload /\ schedule' = schedule
    BY DEF Next, vars, StartTask, Sleep, FinishTask, FailTask, AlarmRings, Arrive, Tick
  <1>2. TimeInv' /\ upload' \in Uploads
    BY <1>1, TimeInvInductive DEF BinInv, Placed
  <1>3. AllTasks' = AllTasks /\ Jobs' = Jobs
    BY <1>1 DEF AllTasks, Jobs
  <1>4. alarm["QPU"] \subseteq Nat
    BY DEF BinInv, Placed
  <1>5. ASSUME NEW c \in Cores, StartTask(c)
        PROVE  BinInv'
    <2>1. /\ pgraph' = [pgraph EXCEPT ![c] = Polled(c)] /\ Awake(c)
          /\ UNCHANGED <<schedule, now, upload, finished, waits, alarm>>
          /\ \E t : running' = [running EXCEPT ![c] = t]
      BY <1>5 DEF StartTask
    <2>2. /\ DOMAIN pgraph' = Cores
          /\ \A d \in Cores : IsPartial(pgraph'[d]) /\ pgraph'[d].tasks \subseteq AllTasks'
          /\ Pairs' = Pairs
          /\ c = "CPU" => pgraph'["QPU"] = pgraph["QPU"]
      BY <2>1, GraphAfterPolling
    <2>3. SleepInv'
      <3>1. CASE c = "QPU"
        BY <2>1, <3>1, AwakeNow DEF Awake
      <3>2. CASE c = "CPU"
        <4>1. running'["QPU"] = running["QPU"]
          BY <2>1, <3>2, TheCores DEF BinInv, Placed
        <4> QED BY <2>1, <2>2, <3>2, <4>1, SleepsOn
      <3> QED BY <3>1, <3>2, TheCores
    <2> QED BY <1>2, <1>4, <2>1, <2>2, <2>3 DEF BinInv, Placed
  <1>6. ASSUME NEW c \in Cores, Sleep(c)
        PROVE  BinInv'
    <2>1. /\ pgraph' = [pgraph EXCEPT ![c] = Polled(c)] /\ Awake(c)
          /\ UNCHANGED <<schedule, now, upload, finished, running>>
          /\ waits' = waits \/ \E w : waits' = [waits EXCEPT ![c] = w]
          /\ alarm' = alarm \/ alarm' = [alarm EXCEPT ![c] = @ \cup TimesToWaitFor(c)]
      BY <1>6 DEF Sleep, execVars
    <2>2. /\ DOMAIN pgraph' = Cores
          /\ \A d \in Cores : IsPartial(pgraph'[d]) /\ pgraph'[d].tasks \subseteq AllTasks'
          /\ Pairs' = Pairs
          /\ c = "CPU" => pgraph'["QPU"] = pgraph["QPU"]
      BY <2>1, GraphAfterPolling
    <2>3. DOMAIN waits' = Cores /\ DOMAIN alarm' = Cores
      BY <2>1 DEF BinInv, Placed
    <2>4. SleepInv'
      <3>1. CASE c = "QPU"
        BY <1>6, <3>1, AwakeNow, SleepsInTime
      <3>2. CASE c = "CPU"
        <4>1. waits'["QPU"] = waits["QPU"] /\ alarm'["QPU"] = alarm["QPU"]
          BY <2>1, <3>2, TheCores DEF BinInv, Placed
        <4> QED BY <2>1, <2>2, <3>2, <4>1, SleepsOn
      <3> QED BY <3>1, <3>2, TheCores
    <2>5. alarm'["QPU"] \subseteq Nat
      <3>1. CASE c = "QPU"
        BY <1>6, <3>1, AlarmsAreTimes
      <3>2. CASE c = "CPU"
        BY <2>1, <3>2, <1>4, TheCores DEF BinInv, Placed
      <3> QED BY <3>1, <3>2, TheCores
    <2> QED BY <1>2, <2>1, <2>2, <2>3, <2>4, <2>5 DEF BinInv, Placed
  <1>7. ASSUME NEW c \in Cores, FinishTask(c)
        PROVE  BinInv'
    <2>1. /\ running[c] # NoTask
          /\ pgraph' = [pgraph EXCEPT ![c] = RemoveTask(pgraph[c], running[c])]
          /\ finished' = [finished EXCEPT ![c] = @ \cup {running[c]}]
          /\ running' = [running EXCEPT ![c] = NoTask]
          /\ waits' = [waits EXCEPT ![Other(c)] = WokenBy(Other(c), "other")]
          /\ UNCHANGED <<schedule, now, upload, alarm>>
      BY <1>7 DEF FinishTask
    <2>2. Placed'
      BY <2>1 DEF BinInv, Placed
    <2>3. \A d \in Cores : IsPartial(pgraph'[d]) /\ pgraph'[d].tasks \subseteq AllTasks
      BY <2>1 DEF BinInv, Placed, RemoveTask, IsPartial
    <2>4. CASE c = "QPU"
      <3>1. waits'["QPU"] = {}
        BY <2>1, <2>4, TheCores DEF BinInv, Placed, SleepInv
      <3> QED BY <1>2, <1>3, <1>4, <2>1, <2>2, <2>3, <3>1, AwakeNow DEF BinInv, Placed
    <2>5. CASE c = "CPU"
      <3>1. /\ pgraph'["QPU"] = pgraph["QPU"] /\ running'["QPU"] = running["QPU"]
            /\ finished'["CPU"] = finished["CPU"] \cup {running["CPU"]}
            /\ waits'["QPU"] = IF "other" \in waits["QPU"] THEN {} ELSE waits["QPU"]
        BY <2>1, <2>5, TheCores DEF BinInv, Placed, WokenBy
      <3>2. SleepInv'
        <4>1. CASE waits'["QPU"] = {}
          BY <4>1, AwakeNow
        <4>2. CASE waits'["QPU"] # {}
          <5>1. waits'["QPU"] = waits["QPU"] /\ "other" \notin waits["QPU"]
            BY <3>1, <4>2
          <5>2. \A t \in RootsIgnoringExternal(pgraph["QPU"]) :
                    pgraph["QPU"].ext[t] \subseteq finished["CPU"]
            BY <4>2, <5>1 DEF BinInv, Placed, SleepInv
          <5>3. Pairs' = Pairs
            BY <1>3, <3>1, <5>2 DEF Pairs, RootsAfter, Kind
          <5>4. /\ running'["QPU"] # NoTask => waits'["QPU"] = {}
                /\ \A t \in RootsIgnoringExternal(pgraph'["QPU"]) :
                      pgraph'["QPU"].ext[t] \subseteq finished'["CPU"]
            BY <3>1, <5>1, <5>2 DEF BinInv, Placed, SleepInv
          <5>5. ASSUME schedule # NoSchedule, IsInjective(schedule.pattern), NEW t \in Pairs
                PROVE  Alarmed(t)'
            <6>1. Alarmed(t)
              BY <4>2, <5>1, <5>5 DEF BinInv, Placed, SleepInv
            <6> QED BY <2>1, <5>1, <6>1, <1>3 DEF Alarmed, NoBinBefore
          <5> QED BY <1>1, <5>3, <5>4, <5>5 DEF SleepInv
        <4> QED BY <4>1, <4>2
      <3> QED BY <1>2, <1>3, <1>4, <2>1, <2>2, <2>3, <3>2 DEF BinInv, Placed
    <2> QED BY <2>4, <2>5, TheCores
  <1>8. ASSUME NEW c \in Cores, FailTask(c)
        PROVE  BinInv'
    <2>1. /\ running[c] # NoTask /\ running' = [running EXCEPT ![c] = NoTask]
          /\ UNCHANGED <<schedule, now, upload, pgraph, finished, waits, alarm>>
      BY <1>8 DEF FailTask, graphVars
    <2>2. Placed'
      BY <2>1 DEF BinInv, Placed
    <2>3. \A d \in Cores : IsPartial(pgraph'[d]) /\ pgraph'[d].tasks \subseteq AllTasks'
      BY <1>3, <2>1 DEF BinInv, Placed
    <2>4. SleepInv'
      <3>1. CASE c = "QPU"
        <4>1. waits'["QPU"] = {}
          BY <2>1, <3>1 DEF BinInv, Placed, SleepInv
        <4> QED BY <4>1, AwakeNow
      <3>2. CASE c = "CPU"
        <4>1. running'["QPU"] = running["QPU"]
          BY <2>1, <3>2, TheCores DEF BinInv, Placed
        <4>2. Pairs' = Pairs
          BY <1>3, <2>1 DEF Pairs, Kind
        <4> QED BY <2>1, <4>1, <4>2, SleepsOn
      <3> QED BY <3>1, <3>2, TheCores
    <2> QED BY <1>2, <1>4, <2>1, <2>2, <2>3, <2>4 DEF BinInv, Placed
  <1>9. ASSUME NEW c \in Cores, AlarmRings(c)
        PROVE  BinInv'
    <2>1. /\ alarm' = [alarm EXCEPT ![c] = @ \ {now}]
          /\ waits' = [waits EXCEPT ![c] = WokenBy(c, "time")]
          /\ UNCHANGED <<schedule, now, upload, pgraph, running, finished>>
      BY <1>9 DEF AlarmRings, graphVars, execVars
    <2>2. Placed'
      BY <2>1 DEF BinInv, Placed
    <2>3. \A d \in Cores : IsPartial(pgraph'[d]) /\ pgraph'[d].tasks \subseteq AllTasks'
      BY <1>3, <2>1 DEF BinInv, Placed
    <2>4. Pairs' = Pairs
      BY <1>3, <2>1 DEF Pairs, Kind
    <2>5. SleepInv' /\ alarm'["QPU"] \subseteq Nat
      <3>1. CASE c = "QPU"
        <4>1. /\ waits'["QPU"] = IF "time" \in waits["QPU"] THEN {} ELSE waits["QPU"]
              /\ alarm'["QPU"] = alarm["QPU"] \ {now}
          BY <2>1, <3>1, TheCores DEF BinInv, Placed, WokenBy
        <4>2. CASE waits'["QPU"] = {}
          BY <1>4, <4>1, <4>2, AwakeNow
        <4>3. CASE waits'["QPU"] # {}
          <5>1. waits'["QPU"] = waits["QPU"] /\ "time" \notin waits["QPU"]
            BY <4>1, <4>3
          <5>2. schedule # NoSchedule /\ IsInjective(schedule.pattern) => Pairs = {}
            BY <4>3, <5>1 DEF BinInv, Placed, SleepInv, Alarmed
          <5> QED BY <1>4, <2>1, <2>4, <4>1, <5>1, <5>2 DEF BinInv, Placed, SleepInv
        <4> QED BY <4>2, <4>3
      <3>2. CASE c = "CPU"
        <4>1. alarm'["QPU"] = alarm["QPU"] /\ waits'["QPU"] = waits["QPU"]
          BY <2>1, <3>2, TheCores DEF BinInv, Placed
        <4> QED BY <1>4, <2>1, <2>4, <4>1, SleepsOn
      <3> QED BY <3>1, <3>2, TheCores
    <2> QED BY <1>2, <2>2, <2>3, <2>5 DEF BinInv, Placed
  <1>10. ASSUME NEW p \in Peers, Arrive(p)
        PROVE  BinInv'
    <2>1. /\ waits' = [waits EXCEPT !["CPU"] = WokenBy("CPU", "message")]
          /\ UNCHANGED <<schedule, now, upload, pgraph, running, finished, alarm>>
      BY <1>10 DEF Arrive, graphVars, execVars
    <2>2. /\ Placed'
          /\ waits'["QPU"] = waits["QPU"]
      BY <2>1, TheCores DEF BinInv, Placed
    <2>3. \A d \in Cores : IsPartial(pgraph'[d]) /\ pgraph'[d].tasks \subseteq AllTasks'
      BY <1>3, <2>1 DEF BinInv, Placed
    <2>4. Pairs' = Pairs
      BY <1>3, <2>1 DEF Pairs, Kind
    <2>5. SleepInv'
      BY <2>1, <2>2, <2>4, SleepsOn
    <2> QED BY <1>2, <1>4, <2>1, <2>2, <2>3, <2>5 DEF BinInv, Placed
  <1>11. CASE Tick
    <2>1. /\ now' = now + 1 /\ now \notin alarm["QPU"]
          /\ UNCHANGED <<schedule, upload, pgraph, running, finished, waits, alarm>>
      BY <1>11, TheCores DEF Tick, NothingDue, graphVars, execVars
    <2>2. /\ Placed'
          /\ \A d \in Cores : IsPartial(pgraph'[d]) /\ pgraph'[d].tasks \subseteq AllTasks'
      BY <1>3, <2>1 DEF BinInv, Placed
    <2>3. Pairs' = Pairs
      BY <1>3, <2>1 DEF Pairs, Kind
    <2>4. ASSUME NEW t, Alarmed(t), schedule # NoSchedule
          PROVE  Alarmed(t)'
      <3>1. PICK then \in alarm["QPU"] : then >= now /\ NoBinBefore(then, t)
        BY <2>4 DEF Alarmed
      <3>2. then \in Nat /\ now \in Nat /\ then # now
        BY <1>4, <2>1 DEF BinInv, Placed, TimeInv
      <3>3. then >= now'
        BY <2>1, <3>1, <3>2
      <3>4. WellPlaced(schedule)
        BY <2>4, ScheduleAssumption DEF BinInv, Placed, TimeInv, WellPlaced
      <3>5. NoBinBefore(then, t)'
        <4> SUFFICES ASSUME NEW r \in Int, NEW i \in DOMAIN schedule.pattern,
                            schedule.pattern[i] = Jobs[t].bin,
                            StartOf(schedule, r, i) >= AskedFor(schedule, now')
                     PROVE  StartOf(schedule, r, i) >= AskedFor(schedule, then)
          BY <1>3, <2>1 DEF NoBinBefore
        <4>1. StartOf(schedule, r, i) \in Int
          BY <3>2, <3>4, OthersAreFar
        <4>2. schedule.first \in Int
          BY <3>4 DEF WellPlaced, IsSchedule
        <4>3. StartOf(schedule, r, i) >= AskedFor(schedule, now)
          BY <2>1, <3>2, <4>1, <4>2 DEF AskedFor
        <4> QED BY <3>1, <4>3 DEF NoBinBefore
      <3> QED BY <2>1, <2>4, <3>1, <3>3, <3>5 DEF Alarmed
    <2>5. SleepInv'
      <3>1. ASSUME waits'["QPU"] # {}, schedule # NoSchedule, IsInjective(schedule.pattern),
                   NEW t \in Pairs
            PROVE  Alarmed(t)'
        <4>1. Alarmed(t)
          BY <2>1, <3>1 DEF BinInv, Placed, SleepInv
        <4> QED BY <2>4, <3>1, <4>1
      <3>2. /\ running'["QPU"] # NoTask => waits'["QPU"] = {}
            /\ waits'["QPU"] # {} =>
                  \A t \in RootsIgnoringExternal(pgraph'["QPU"]) :
                    pgraph'["QPU"].ext[t] \subseteq finished'["CPU"] \/ "other" \in waits'["QPU"]
        BY <2>1 DEF BinInv, Placed, SleepInv
      <3> QED BY <1>1, <2>3, <3>1, <3>2 DEF SleepInv
    <2> QED BY <1>2, <1>4, <2>1, <2>2, <2>5 DEF BinInv, Placed
  <1>12. CASE UNCHANGED vars
    <2>1. UNCHANGED <<schedule, now, upload, pgraph, running, finished, waits, alarm>>
      BY <1>12 DEF vars, graphVars, execVars
    <2>2. Pairs' = Pairs
      BY <1>3, <2>1 DEF Pairs, Kind
    <2>3. SleepInv'
      BY <2>1, <2>2, SleepsOn
    <2> QED BY <1>2, <1>3, <2>1, <2>3 DEF BinInv, Placed
  <1> QED BY <1>5, <1>6, <1>7, <1>8, <1>9, <1>10, <1>11, <1>12 DEF Next

\* A bin that starts now does not pass while a pair task that could use it sleeps.
LEMMA NoBinPasses ==
    ASSUME BinInv, [Next]_vars, \A s \in Schedules : FirstInBin(s),
           now' # now, schedule # NoSchedule, IsInjective(schedule.pattern),
           running["QPU"] = NoTask, NEW t \in EprRoots("QPU")
    PROVE  AskedFor(schedule, now) \notin StartsOf(schedule, now, {Jobs[t].bin})
  <1>1. Tick
    BY DEF Next, vars, StartTask, Sleep, FinishTask, FailTask, AlarmRings, Arrive
  <1>2. now \notin alarm["QPU"] /\ waits["QPU"] # {}
    BY <1>1, TheCores DEF Tick, NothingDue, Awake
  <1>3. t \in Pairs
    BY PairsAreEprRoots
  <1>4. PICK then \in alarm["QPU"] : then >= now /\ NoBinBefore(then, t)
    BY <1>2, <1>3 DEF BinInv, Placed, SleepInv, Alarmed
  <1>5. then \in Nat /\ now \in Nat /\ then # now
    BY <1>2 DEF BinInv, Placed, TimeInv
  <1>6. WellPlaced(schedule)
    BY ScheduleAssumption DEF BinInv, Placed, TimeInv, WellPlaced
  <1>7. SUFFICES ASSUME AskedFor(schedule, now) \in StartsOf(schedule, now, {Jobs[t].bin})
                 PROVE  FALSE
    OBVIOUS
  <1>8. PICK r \in Near(schedule, now), i \in DOMAIN schedule.pattern :
            schedule.pattern[i] = Jobs[t].bin /\ AskedFor(schedule, now) = StartOf(schedule, r, i)
    BY <1>7 DEF StartsOf
  <1>9. r \in Int
    <2>1. PICK n \in Int : Near(schedule, now) = (n - 1)..(n + 1)
      BY <1>5, <1>6, Numbers
    <2> QED BY <1>8, <2>1
  <1>10. now >= then
    <2>1. PICK first : first = schedule.first
      OBVIOUS
    <2>2. first \in Int
      BY <1>6, <2>1 DEF WellPlaced, IsSchedule
    <2>3. now - first >= then - first
      <3>1. AskedFor(schedule, now) >= AskedFor(schedule, now)
        BY <1>5, <2>1, <2>2 DEF AskedFor
      <3> QED BY <1>4, <1>8, <1>9, <2>1, <3>1 DEF NoBinBefore, AskedFor
    <2> QED BY <1>5, <2>2, <2>3
  <1> QED BY <1>4, <1>5, <1>10

\* No bin of the network schedule is slept through: the QPU waits for the earliest
\* of the bins and starts that it knows of, and a task that the CPU releases wakes
\* it (QpuEdfScheduler.update_status, run).
THEOREM NoBinIsMissed ==
    ASSUME \A s \in Schedules : FirstInBin(s)
    PROVE  Spec => BinNotMissed
  <1>1. BinInv /\ [Next]_vars =>
            (now' # now /\ schedule # NoSchedule /\ FirstInBin(schedule)
                 /\ IsInjective(schedule.pattern) /\ running["QPU"] = NoTask
             => \A t \in EprRoots("QPU") :
                   AskedFor(schedule, now) \notin StartsOf(schedule, now, {Jobs[t].bin}))
    BY NoBinPasses
  <1>2. BinInv /\ [Next]_vars => BinInv'
    BY BinInvPreserved
  <1> QED BY <1>1, <1>2, BinInvInitially, PTL DEF Spec, BinNotMissed

------------------------------------------------------------------------------
(* Deadlines.                                                                 *)

MyTasks(c) == {t \in AllTasks : Jobs[t].proc = c}

\* The time in which a processor has executed nothing, or without success.
IdleTime(c) ==
    (IF running[c] # NoTask THEN ends[c] - Jobs[running[c]].duration ELSE now) - worked[c]

\* A processor has those of its tasks that it has not finished.
PlacesOK ==
    \A c \in Cores :
        /\ pgraph[c].tasks = MyTasks(c) \ finished[c] /\ finished[c] \subseteq MyTasks(c)
        /\ running[c] # NoTask => running[c] \in pgraph[c].tasks
        /\ IsPartial(pgraph[c])
WorkOK ==
    /\ DOMAIN ends = Cores /\ DOMAIN worked = Cores
    /\ \A c \in Cores : worked[c] \in Nat /\ ends[c] \in Nat /\ IdleTime(c) \in Nat
EndsOK ==
    /\ DOMAIN taskEnds = finished["CPU"] \cup finished["QPU"]
    /\ \A x \in DOMAIN taskEnds : taskEnds[x] \in Nat

\* The other tasks of the same processor to which a task has relative deadlines.
OwnRel(t) == {x \in DOMAIN Jobs[t].rel : Jobs[x].proc = Jobs[t].proc}

\* What a task has left until one of the times at which it is due, but for time in
\* which the processor was idle after that deadline was set.
DeadlineOK(c, t) ==
    /\ rel[t] = [x \in OwnRel(t) \ finished[c] |-> Jobs[t].rel[x]]
    /\ Dues(t) = {} => deadline[t] = NoTime
    /\ Dues(t) # {} =>
          /\ deadline[t] \in Int
          /\ \E d \in Dues(t) :
                deadline[t] + worked[c] <= d /\ d <= deadline[t] + worked[c] + IdleTime(c)

DueInv ==
    /\ TimeInv /\ upload \in Uploads /\ Placed
    /\ DOMAIN deadline = AllTasks /\ DOMAIN rel = AllTasks
    /\ PlacesOK /\ WorkOK /\ EndsOK
    /\ \A c \in Cores : \A t \in pgraph[c].tasks : DeadlineOK(c, t)

LEMMA JobParts ==
    ASSUME upload \in Uploads, NEW t \in AllTasks
    PROVE  /\ Jobs[t].proc \in Cores /\ Jobs[t].duration \in Nat
           /\ Jobs[t].deadline \in Int \cup {NoTime} /\ NoTime \notin Int
           /\ DOMAIN Jobs[t].rel \subseteq AllTasks
           /\ \A x \in DOMAIN Jobs[t].rel : Jobs[t].rel[x] \in Int
  BY UploadAssumption DEF Jobs, AllTasks

\* The times at which a task is due are numbers.
LEMMA DuesAreNumbers ==
    ASSUME upload \in Uploads, EndsOK, NEW t \in AllTasks
    PROVE  Dues(t) \subseteq Int
  <1>1. {d \in {Jobs[t].deadline} : d # NoTime} \subseteq Int
    BY JobParts
  <1>2. \A x \in DOMAIN Jobs[t].rel \cap DOMAIN taskEnds :
            taskEnds[x] \in Nat /\ Jobs[t].rel[x] \in Int
    BY JobParts DEF EndsOK
  <1> QED BY <1>1, <1>2 DEF Dues

LEMMA DueInvInitially == Init => DueInv
  <1> SUFFICES ASSUME Init PROVE DueInv
    OBVIOUS
  <1>1. /\ TimeInv /\ upload \in Uploads /\ Placed /\ DOMAIN deadline = AllTasks
        /\ DOMAIN rel = AllTasks
    BY DEF Init, TimeInv, Placed
  <1>2. /\ \A c \in Cores : finished[c] = {} /\ running[c] = NoTask /\ worked[c] = 0 /\ ends[c] = 0
        /\ DOMAIN ends = Cores /\ DOMAIN worked = Cores /\ now = 0 /\ DOMAIN taskEnds = {}
    BY DEF Init
  <1>3. PlacesOK
    <2>1. \A c \in Cores : pgraph[c].tasks = MyTasks(c)
      BY DEF Init, PartialGraph, WholeGraph, MyTasks
    <2>2. \A c \in Cores : IsPartial(pgraph[c])
      BY DEF Init, PartialGraph, IsPartial
    <2> QED BY <1>2, <2>1, <2>2 DEF PlacesOK
  <1>4. WorkOK
    BY <1>2 DEF WorkOK, IdleTime
  <1>5. EndsOK
    BY <1>2, TheCores DEF EndsOK
  <1>6. ASSUME NEW c \in Cores, NEW t \in pgraph[c].tasks PROVE DeadlineOK(c, t)
    <2>1. t \in AllTasks /\ finished[c] = {}
      BY <1>2, <1>3, <1>6 DEF PlacesOK, MyTasks
    <2>2. deadline[t] = Jobs[t].deadline /\ rel[t] = PartialRelDeadlines(t)
      BY <2>1 DEF Init
    <2>3. rel[t] = [x \in OwnRel(t) \ finished[c] |-> Jobs[t].rel[x]]
      BY <2>1, <2>2 DEF PartialRelDeadlines, OwnRel
    <2>4. Dues(t) = {d \in {Jobs[t].deadline} : d # NoTime}
      BY <1>2 DEF Dues
    <2>5. Jobs[t].deadline \in Int \cup {NoTime}
      BY <1>1, <2>1, JobParts
    <2>6. worked[c] = 0 /\ IdleTime(c) = 0
      BY <1>2 DEF IdleTime
    <2>7. Dues(t) # {} => deadline[t] \in Int /\ deadline[t] \in Dues(t)
      BY <2>2, <2>4, <2>5
    <2>8. Dues(t) # {} => /\ deadline[t] + worked[c] <= deadline[t]
                          /\ deadline[t] <= deadline[t] + worked[c] + IdleTime(c)
      BY <2>6, <2>7
    <2> QED BY <2>2, <2>3, <2>4, <2>7, <2>8 DEF DeadlineOK
  <1> QED BY <1>1, <1>3, <1>4, <1>5, <1>6 DEF DueInv

\* A step in which no task finishes: the time in which a processor is idle grows,
\* and all else stays.
LEMMA NothingFinished ==
    ASSUME DueInv, TimeInv', Placed',
           UNCHANGED <<upload, deadline, rel, finished, taskEnds, worked>>,
           DOMAIN ends' = Cores,
           \A c \in Cores : /\ pgraph'[c].tasks = pgraph[c].tasks /\ IsPartial(pgraph'[c])
                            /\ running'[c] # NoTask => running'[c] \in pgraph[c].tasks
                            /\ ends'[c] \in Nat
                            /\ IdleTime(c)' \in Nat /\ IdleTime(c)' >= IdleTime(c)
    PROVE  DueInv'
  <1>1. /\ Jobs' = Jobs /\ AllTasks' = AllTasks
        /\ \A t : OwnRel(t)' = OwnRel(t)
        /\ \A c : MyTasks(c)' = MyTasks(c)
    BY DEF Jobs, AllTasks, OwnRel, MyTasks
  <1>2. \A t : Dues(t)' = Dues(t)
    BY <1>1 DEF Dues
  <1>3. PlacesOK' /\ WorkOK' /\ EndsOK'
    BY <1>1 DEF DueInv, PlacesOK, IsPartial, WorkOK, EndsOK
  <1>4. ASSUME NEW c \in Cores, NEW t \in pgraph[c].tasks PROVE DeadlineOK(c, t)'
    <2>1. DeadlineOK(c, t) /\ worked[c] \in Nat /\ IdleTime(c) \in Nat
      BY <1>4 DEF DueInv, WorkOK
    <2>2. t \in AllTasks
      BY <1>4 DEF DueInv, PlacesOK, MyTasks
    <2>3. PICK before, after : before = IdleTime(c) /\ after = IdleTime(c)'
      OBVIOUS
    <2>4. before \in Nat /\ after \in Nat /\ after >= before
      BY <2>1, <2>3
    <2>5. ASSUME Dues(t) # {}
          PROVE  /\ deadline[t] \in Int
                 /\ \E d \in Dues(t) :
                       deadline[t] + worked[c] <= d /\ d <= deadline[t] + worked[c] + after
      <3>1. PICK d \in Dues(t) : /\ deadline[t] \in Int /\ deadline[t] + worked[c] <= d
                                 /\ d <= deadline[t] + worked[c] + before
        BY <2>1, <2>3, <2>5 DEF DeadlineOK
      <3>2. d \in Int
        BY <2>2, DuesAreNumbers DEF DueInv
      <3>3. d <= deadline[t] + worked[c] + after
        BY <2>1, <2>4, <3>1, <3>2
      <3> QED BY <3>1, <3>3
    <2> QED BY <1>1, <1>2, <2>1, <2>3, <2>5 DEF DeadlineOK
  <1> QED BY <1>1, <1>3, <1>4 DEF DueInv

\* The end of a task: deadlines of the processor's tasks are decreased by what it
\* took, and those relative to it become absolute.
LEMMA TaskFinished ==
    ASSUME DueInv, NEW c \in Cores, FinishTask(c), Placed'
    PROVE  DueInv'
  <1> DEFINE task == running[c]
             took == Jobs[task].duration
  <1>1. /\ running[c] # NoTask /\ ends[c] = now
        /\ deadline' = MadeAbsolute(DecreasedDeadlines(c, took), task) /\ rel' = WithoutRel(task)
        /\ pgraph' = [pgraph EXCEPT ![c] = RemoveTask(@, task)]
        /\ finished' = [finished EXCEPT ![c] = @ \cup {task}]
        /\ taskEnds' = [t \in DOMAIN taskEnds \cup {task} |-> IF t = task THEN now ELSE taskEnds[t]]
        /\ worked' = [worked EXCEPT ![c] = @ + took]
        /\ running' = [running EXCEPT ![c] = NoTask]
        /\ UNCHANGED <<schedule, now, upload, ends>>
    BY DEF FinishTask
  <1>2. task \in pgraph[c].tasks /\ task \in MyTasks(c) /\ task \notin finished[c]
    BY <1>1 DEF DueInv, PlacesOK
  <1>3. task \in AllTasks /\ Jobs[task].proc = c /\ took \in Nat
    BY <1>2, JobParts DEF MyTasks, DueInv
  <1>4. /\ Jobs' = Jobs /\ AllTasks' = AllTasks
        /\ \A t : OwnRel(t)' = OwnRel(t)
        /\ \A d : MyTasks(d)' = MyTasks(d)
    BY <1>1 DEF Jobs, AllTasks, OwnRel, MyTasks
  <1> HIDE DEF task, took
  <1>5. /\ pgraph'[c].tasks = pgraph[c].tasks \ {task}
        /\ finished'[c] = finished[c] \cup {task} /\ running'[c] = NoTask
        /\ worked'[c] = worked[c] + took
        /\ \A d \in Cores \ {c} :
              /\ pgraph'[d] = pgraph[d] /\ finished'[d] = finished[d] /\ running'[d] = running[d]
              /\ worked'[d] = worked[d]
    BY <1>1 DEF DueInv, Placed, WorkOK, RemoveTask
  <1>6. \A d \in Cores : worked[d] \in Nat /\ ends[d] \in Nat /\ IdleTime(d) \in Nat /\ now \in Nat
    BY DEF DueInv, WorkOK, TimeInv
  <1>7. IdleTime(c) = now - took - worked[c] /\ \A d \in Cores : IdleTime(d)' = IdleTime(d)
    <2>1. IdleTime(c) = now - took - worked[c]
      BY <1>1 DEF IdleTime, task, took
    <2>2. IdleTime(c)' = now - (worked[c] + took)
      BY <1>1, <1>5 DEF IdleTime
    <2>3. now \in Int /\ worked[c] \in Int /\ took \in Int
      BY <1>3, <1>6
    <2>4. IdleTime(c)' = IdleTime(c)
      BY <2>1, <2>2, <2>3
    <2>5. \A d \in Cores \ {c} : IdleTime(d)' = IdleTime(d)
      BY <1>1, <1>4, <1>5 DEF IdleTime
    <2> QED BY <2>1, <2>4, <2>5
  <1>8. TimeInv' /\ upload' \in Uploads /\ DOMAIN deadline' = AllTasks' /\ DOMAIN rel' = AllTasks'
    BY <1>1, <1>4 DEF DueInv, TimeInv, MadeAbsolute, WithoutRel
  <1>9. PlacesOK'
    <2>1. IsPartial(pgraph'[c]) /\ \A d \in Cores \ {c} : IsPartial(pgraph'[d])
      BY <1>1, <1>5 DEF DueInv, Placed, PlacesOK, RemoveTask, IsPartial
    <2>2. \A d \in Cores : /\ pgraph'[d].tasks = MyTasks(d) \ finished'[d]
                           /\ finished'[d] \subseteq MyTasks(d)
                           /\ running'[d] # NoTask => running'[d] \in pgraph'[d].tasks
      BY <1>2, <1>5 DEF DueInv, PlacesOK
    <2>3. \A d \in Cores : IsPartial(pgraph'[d])
      BY <2>1
    <2>4. \A d \in Cores : IsPartial(pgraph[d])'
      BY <2>3 DEF IsPartial
    <2> QED BY <1>4, <2>2, <2>4 DEF PlacesOK
  <1>10. WorkOK'
    <2>1. \A d \in Cores : worked'[d] \in Nat
      BY <1>3, <1>5, <1>6
    <2>2. DOMAIN worked' = Cores /\ DOMAIN ends' = Cores
      BY <1>1 DEF DueInv, WorkOK
    <2> QED BY <1>1, <1>6, <1>7, <2>1, <2>2 DEF WorkOK
  <1>11. EndsOK'
    <2>1. finished'["CPU"] \cup finished'["QPU"] = finished["CPU"] \cup finished["QPU"] \cup {task}
      BY <1>5, TheCores
    <2> QED BY <1>1, <1>6, <2>1 DEF DueInv, EndsOK
  <1>12. task \notin DOMAIN taskEnds
    <2>1. \A d \in Cores : task \notin finished[d]
      BY <1>2, <1>3 DEF DueInv, PlacesOK, MyTasks
    <2> QED BY <2>1, TheCores DEF DueInv, EndsOK
  <1>13. ASSUME NEW d \in Cores, NEW t \in pgraph'[d].tasks
         PROVE  DeadlineOK(d, t)'
    <2>1. t \in pgraph[d].tasks /\ t \in AllTasks /\ Jobs[t].proc = d
      BY <1>4, <1>5, <1>9, <1>13 DEF PlacesOK, MyTasks
    <2>2. /\ rel[t] = [x \in OwnRel(t) \ finished[d] |-> Jobs[t].rel[x]]
          /\ Dues(t) = {} => deadline[t] = NoTime
          /\ Dues(t) # {} =>
                /\ deadline[t] \in Int
                /\ \E e \in Dues(t) : /\ deadline[t] + worked[d] <= e
                                      /\ e <= deadline[t] + worked[d] + IdleTime(d)
      BY <2>1 DEF DueInv, DeadlineOK
    <2>3. rel'[t] = [x \in DOMAIN rel[t] \ {task} |-> rel[t][x]]
      BY <1>1, <2>1 DEF WithoutRel, Restrict
    <2>4. task \in OwnRel(t) => d = c
      BY <1>3, <2>1 DEF OwnRel
    <2>5. rel'[t] = [x \in OwnRel(t) \ finished'[d] |-> Jobs[t].rel[x]]
      <3>1. (OwnRel(t) \ finished[d]) \ {task} = OwnRel(t) \ finished'[d]
        BY <1>5, <2>4
      <3>2. DOMAIN rel[t] = OwnRel(t) \ finished[d]
        BY <2>2
      <3> QED BY <2>2, <2>3, <3>1, <3>2
    <2>6. deadline'[t] = IF task \in DOMAIN rel[t] THEN rel[t][task]
                         ELSE DecreasedDeadlines(c, took)[t]
      BY <1>1, <2>1 DEF MadeAbsolute
    <2>7. Dues(t)' = {e \in {Jobs[t].deadline} : e # NoTime}
                     \cup {taskEnds'[x] + Jobs[t].rel[x] : x \in OwnRel(t) \cap DOMAIN taskEnds'}
      BY <1>4 DEF Dues, OwnRel
    <2>8. CASE task \in OwnRel(t)
      <3>1. d = c /\ task \in DOMAIN Jobs[t].rel
        BY <2>4, <2>8 DEF OwnRel
      <3>2. deadline'[t] = Jobs[t].rel[task] /\ Jobs[t].rel[task] \in Int
        BY <1>2, <2>1, <2>2, <2>6, <2>8, <3>1, JobParts DEF DueInv
      <3>3. now + Jobs[t].rel[task] \in Dues(t)'
        BY <1>1, <2>7, <2>8
      <3>4. PICK due : due = Jobs[t].rel[task]
        OBVIOUS
      <3>5. PICK idle : idle = IdleTime(c)
        OBVIOUS
      <3>6. /\ due \in Int /\ idle \in Nat /\ worked[c] \in Nat /\ now \in Nat /\ took \in Nat
            /\ idle = now - took - worked[c]
        BY <1>3, <1>6, <1>7, <3>2, <3>4, <3>5
      <3>7. /\ now + due \in Int /\ due + (worked[c] + took) <= now + due
            /\ now + due <= due + (worked[c] + took) + idle
        BY <3>6
      <3>8. now + due \in Dues(t)' /\ deadline'[t] = due /\ IdleTime(d)' = idle
            /\ worked'[d] = worked[c] + took /\ due \in Int
        BY <1>5, <1>7, <3>1, <3>2, <3>3, <3>4, <3>5, <3>6
      <3> QED BY <1>4, <2>5, <3>7, <3>8 DEF DeadlineOK
    <2>9. CASE task \notin OwnRel(t)
      <3>1. Dues(t)' = Dues(t)
        <4>1. OwnRel(t) \cap DOMAIN taskEnds' = OwnRel(t) \cap DOMAIN taskEnds
          BY <1>1, <2>9
        <4>2. \A x \in OwnRel(t) \cap DOMAIN taskEnds : taskEnds'[x] = taskEnds[x]
          BY <1>1, <2>9
        <4>3. Dues(t) = {e \in {Jobs[t].deadline} : e # NoTime}
                        \cup {taskEnds[x] + Jobs[t].rel[x] : x \in OwnRel(t) \cap DOMAIN taskEnds}
          BY DEF Dues, OwnRel
        <4> QED BY <2>7, <4>1, <4>2, <4>3
      <3>2. deadline'[t] = DecreasedDeadlines(c, took)[t]
        BY <2>2, <2>6, <2>9
      <3>3. IdleTime(d)' = IdleTime(d) /\ IdleTime(d) \in Nat /\ worked[d] \in Nat /\ took \in Nat
        BY <1>3, <1>6, <1>7
      <3>4. NoTime \notin Int
        BY UploadAssumption
      <3>5. CASE d = c
        <4>1. deadline'[t] = IF deadline[t] # NoTime THEN deadline[t] - took ELSE deadline[t]
          BY <2>1, <3>2, <3>5 DEF DecreasedDeadlines
        <4>2. worked'[d] = worked[d] + took
          BY <1>5, <3>5
        <4>3. PICK idle : idle = IdleTime(d)
          OBVIOUS
        <4>4. ASSUME Dues(t) # {}
              PROVE  /\ deadline'[t] \in Int
                     /\ \E e \in Dues(t) : /\ deadline'[t] + worked'[d] <= e
                                           /\ e <= deadline'[t] + worked'[d] + idle
          <5>1. PICK e \in Dues(t) : /\ deadline[t] \in Int /\ deadline[t] + worked[d] <= e
                                     /\ e <= deadline[t] + worked[d] + idle
            BY <2>2, <4>3, <4>4
          <5>2. deadline'[t] = deadline[t] - took /\ idle \in Nat
            BY <3>3, <3>4, <4>1, <4>3, <5>1
          <5>3. deadline'[t] \in Int /\ deadline'[t] + worked'[d] = deadline[t] + worked[d]
            BY <3>3, <4>2, <5>1, <5>2
          <5> QED BY <5>1, <5>3
        <4>5. Dues(t) = {} => deadline'[t] = NoTime
          BY <2>2, <4>1
        <4> QED BY <1>4, <2>5, <3>1, <3>3, <4>3, <4>4, <4>5 DEF DeadlineOK
      <3>6. CASE d # c
        <4>1. t \notin pgraph[c].tasks
          BY <2>1, <3>6 DEF DueInv, PlacesOK, MyTasks
        <4>2. deadline'[t] = deadline[t] /\ worked'[d] = worked[d]
          BY <1>5, <2>1, <3>2, <3>6, <4>1 DEF DecreasedDeadlines
        <4> QED BY <1>4, <2>2, <2>5, <3>1, <3>3, <4>2 DEF DeadlineOK
      <3> QED BY <3>5, <3>6
    <2> QED BY <2>8, <2>9
  <1> QED BY <1>4, <1>8, <1>9, <1>10, <1>11, <1>13 DEF DueInv

LEMMA DueInvPreserved ==
    ASSUME DueInv, [Next]_vars
    PROVE  DueInv'
  <1> USE DEF Placed
  <1>1. TimeInv'
    BY TimeInvInductive DEF DueInv
  <1>2. /\ now \in Nat
        /\ \A c \in Cores :
              /\ worked[c] \in Nat /\ ends[c] \in Nat /\ IdleTime(c) \in Nat
              /\ running[c] # NoTask => Jobs[running[c]].duration \in Nat
    <2>1. \A t \in AllTasks : Jobs[t].duration \in Nat
      BY JobParts DEF DueInv
    <2>2. \A c \in Cores : running[c] # NoTask => running[c] \in AllTasks
      BY DEF DueInv, PlacesOK, MyTasks
    <2> QED BY <2>1, <2>2 DEF DueInv, WorkOK, TimeInv
  <1>3. ASSUME NEW c \in Cores
        PROVE  Polled(c).tasks = pgraph[c].tasks /\ IsPartial(Polled(c))
               /\ Roots(Polled(c)) \subseteq pgraph[c].tasks
    <2>1. IsPartial(pgraph[c])
      BY DEF DueInv, PlacesOK
    <2>2. PICK pg, done : pg = pgraph[c] /\ done = finished[Other(c)]
      OBVIOUS
    <2>3. PICK polled : polled = DropFinished(pg, done) /\ polled = Polled(c)
      BY <2>2 DEF Polled
    <2>4. IsPartial(polled)
      BY <2>1, <2>2, <2>3, Polling
    <2>5. polled.tasks = pg.tasks
      BY <2>1, <2>2, <2>3 DEF DropFinished, IsPartial
    <2>6. Roots(polled) \subseteq polled.tasks
      BY DEF Roots, RootsIgnoringExternal
    <2> QED BY <2>2, <2>3, <2>4, <2>5, <2>6
  <1>4. ASSUME NEW c \in Cores, StartTask(c) PROVE DueInv'
    <2>1. PICK t \in Candidates(c) :
            /\ running' = [running EXCEPT ![c] = t]
            /\ ends' = [ends EXCEPT ![c] = now + Jobs[t].duration]
      BY <1>4 DEF StartTask
    <2>2. /\ running[c] = NoTask /\ pgraph' = [pgraph EXCEPT ![c] = Polled(c)]
          /\ UNCHANGED <<now, upload, deadline, rel, finished, taskEnds, worked, waits, alarm>>
      BY <1>4 DEF StartTask, Awake
    <2>3. t \in pgraph[c].tasks
      BY <1>3 DEF Candidates, Ready, EprRoots, EarliestDeadline
    <2>4. Jobs[t].duration \in Nat /\ Jobs' = Jobs
      <3>1. t \in AllTasks
        BY <2>3 DEF DueInv, PlacesOK, MyTasks
      <3> QED BY <2>2, <3>1, JobParts DEF DueInv, Jobs
    <2>5. /\ pgraph'[c] = Polled(c) /\ running'[c] = t /\ ends'[c] = now + Jobs[t].duration
          /\ \A d \in Cores \ {c} : /\ pgraph'[d] = pgraph[d] /\ running'[d] = running[d]
                                  /\ ends'[d] = ends[d]
      BY <2>1, <2>2 DEF DueInv, WorkOK
    <2>6. Placed' /\ DOMAIN ends' = Cores
      BY <2>1, <2>2 DEF DueInv, WorkOK
    <2>7. IdleTime(c)' \in Nat /\ IdleTime(c)' >= IdleTime(c)
      <3>1. IdleTime(c) = now - worked[c] /\ IdleTime(c) \in Nat
        BY <1>2, <2>2 DEF IdleTime
      <3>2. IdleTime(c)' = IF t # NoTask THEN (now + Jobs[t].duration) - Jobs[t].duration - worked[c]
                           ELSE now - worked[c]
        BY <2>2, <2>4, <2>5 DEF IdleTime
      <3> QED BY <1>2, <2>4, <3>1, <3>2
    <2>8. \A d \in Cores \ {c} : IdleTime(d)' = IdleTime(d)
      BY <2>2, <2>4, <2>5 DEF IdleTime
    <2>9. \A d \in Cores : IdleTime(d)' \in Nat /\ IdleTime(d)' >= IdleTime(d)
      BY <1>2, <2>7, <2>8
    <2>10. \A d \in Cores : /\ pgraph'[d].tasks = pgraph[d].tasks /\ IsPartial(pgraph'[d])
                            /\ running'[d] # NoTask => running'[d] \in pgraph[d].tasks
                            /\ ends'[d] \in Nat
      <3>1. now + Jobs[t].duration \in Nat
        BY <1>2, <2>4
      <3> QED BY <1>2, <1>3, <2>3, <2>5, <3>1 DEF DueInv, PlacesOK
    <2> HIDE DEF Placed
    <2> QED BY <1>1, <2>2, <2>6, <2>9, <2>10, NothingFinished
  <1>5. ASSUME NEW c \in Cores, Sleep(c) PROVE DueInv'
    <2>1. /\ pgraph' = [pgraph EXCEPT ![c] = Polled(c)]
          /\ UNCHANGED <<now, upload, deadline, rel, finished, taskEnds, worked, running, ends>>
          /\ DOMAIN waits' = Cores /\ DOMAIN alarm' = Cores
      BY <1>5 DEF Sleep, execVars, DueInv
    <2>2. Placed' /\ DOMAIN ends' = Cores
      BY <2>1 DEF DueInv, WorkOK
    <2>3. \A d \in Cores : IdleTime(d)' = IdleTime(d)
      BY <2>1 DEF IdleTime, Jobs
    <2>4. \A d \in Cores : pgraph'[d].tasks = pgraph[d].tasks /\ IsPartial(pgraph'[d])
      BY <1>3, <2>1 DEF DueInv, PlacesOK
    <2>5. \A d \in Cores : IdleTime(d)' \in Nat /\ IdleTime(d)' >= IdleTime(d)
      BY <1>2, <2>3
    <2> HIDE DEF Placed
    <2> QED BY <1>1, <1>2, <2>1, <2>2, <2>4, <2>5, NothingFinished DEF DueInv, PlacesOK
  <1>6. ASSUME NEW c \in Cores, FinishTask(c) PROVE DueInv'
    <2>1. Placed'
      BY <1>6 DEF FinishTask, DueInv
    <2> HIDE DEF Placed
    <2> QED BY <1>6, <2>1, TaskFinished
  <1>7. ASSUME NEW c \in Cores, FailTask(c) PROVE DueInv'
    <2>1. /\ running' = [running EXCEPT ![c] = NoTask] /\ running[c] # NoTask /\ ends[c] = now
          /\ UNCHANGED <<now, upload, pgraph, deadline, rel, finished, taskEnds, worked, ends, waits,
                         alarm>>
      BY <1>7 DEF FailTask, graphVars
    <2>2. Placed' /\ DOMAIN ends' = Cores
      BY <2>1 DEF DueInv, WorkOK
    <2>3. running'[c] = NoTask /\ \A d \in Cores \ {c} : running'[d] = running[d]
      BY <2>1 DEF DueInv
    <2>4. \A d \in Cores \ {c} : IdleTime(d)' = IdleTime(d)
      BY <2>1, <2>3 DEF IdleTime, Jobs
    <2>5. IdleTime(c)' \in Nat /\ IdleTime(c)' >= IdleTime(c)
      <3>1. IdleTime(c) = now - Jobs[running[c]].duration - worked[c] /\ IdleTime(c) \in Nat
        BY <1>2, <2>1 DEF IdleTime
      <3>2. IdleTime(c)' = now - worked[c]
        BY <2>1, <2>3 DEF IdleTime
      <3>3. Jobs[running[c]].duration \in Nat
        BY <1>2, <2>1
      <3> QED BY <1>2, <3>1, <3>2, <3>3
    <2>6. \A d \in Cores : IdleTime(d)' \in Nat /\ IdleTime(d)' >= IdleTime(d)
      BY <1>2, <2>4, <2>5
    <2> HIDE DEF Placed
    <2> QED BY <1>1, <1>2, <2>1, <2>2, <2>3, <2>6, NothingFinished DEF DueInv, PlacesOK
  <1>8. ASSUME UNCHANGED <<upload, graphVars, execVars>>, DOMAIN waits' = Cores, DOMAIN alarm' = Cores,
               now' = now \/ now' = now + 1
        PROVE  DueInv'
    <2>1. UNCHANGED <<upload, pgraph, deadline, rel, finished, taskEnds, worked, running, ends>>
      BY <1>8 DEF graphVars, execVars
    <2>2. Placed' /\ DOMAIN ends' = Cores
      BY <1>8, <2>1 DEF DueInv, WorkOK
    <2>3. ASSUME NEW d \in Cores PROVE IdleTime(d)' \in Nat /\ IdleTime(d)' >= IdleTime(d)
      <3>1. CASE running[d] # NoTask
        <4>1. IdleTime(d)' = IdleTime(d)
          BY <2>1, <3>1 DEF IdleTime, Jobs
        <4> QED BY <1>2, <4>1
      <3>2. CASE running[d] = NoTask
        <4>1. IdleTime(d) = now - worked[d] /\ IdleTime(d)' = now' - worked[d]
          BY <2>1, <3>2 DEF IdleTime
        <4> QED BY <1>2, <1>8, <4>1
      <3> QED BY <3>1, <3>2
    <2> HIDE DEF Placed
    <2> QED BY <1>1, <1>2, <2>1, <2>2, <2>3, NothingFinished DEF DueInv, PlacesOK
  <1>9. ASSUME NEW c \in Cores, AlarmRings(c) PROVE DueInv'
    BY <1>8, <1>9 DEF AlarmRings, DueInv
  <1>10. ASSUME NEW p \in Peers, Arrive(p) PROVE DueInv'
    BY <1>8, <1>10 DEF Arrive, DueInv
  <1>11. CASE Tick
    BY <1>8, <1>11 DEF Tick, DueInv
  <1>12. CASE UNCHANGED vars
    BY <1>8, <1>12 DEF vars, DueInv
  <1> HIDE DEF Placed
  <1> QED BY <1>4, <1>5, <1>6, <1>7, <1>9, <1>10, <1>11, <1>12 DEF Next

\* Of several ready tasks a processor starts one that is due first, though deadlines
\* are not kept as times but decreased by what each task takes (decrease_deadlines,
\* remove_task): by as much as the processor has been idle it may be wrong, and a
\* task with several deadlines counts as due at one of them.
THEOREM EarliestIsDueFirst == Spec => EarliestDueFirst
  <1> DEFINE StartsInOrder ==
        \A c \in Cores :
          LET t == running'[c]
          IN  Awake(c) /\ t # NoTask /\ Kind(t) # "epr"
              => \A u \in Ready(c) : Dues(u) # {} =>
                     \E d \in Dues(t), e \in Dues(u) : d <= e + IdleSoFar(c)
  <1>1. ASSUME DueInv, [Next]_vars PROVE StartsInOrder
    <2> SUFFICES ASSUME NEW c \in Cores, NEW t, t = running'[c], Awake(c), t # NoTask, Kind(t) # "epr",
                        NEW u \in Ready(c), Dues(u) # {}
                 PROVE  \E d \in Dues(t), e \in Dues(u) : d <= e + IdleSoFar(c)
      OBVIOUS
    <2>1. running[c] = NoTask /\ worked[c] \in Nat /\ now \in Nat /\ NoTime \notin Int
      BY <1>1, UploadAssumption DEF Awake, DueInv, TimeInv, WorkOK
    <2>2. StartTask(c)
      <3>1. running'[c] # running[c]
        BY <2>1
      <3>2. \E d \in Cores : StartTask(d) \/ FinishTask(d) \/ FailTask(d)
        BY <1>1, <3>1 DEF Next, vars, Sleep, AlarmRings, Arrive, Tick, execVars
      <3>3. PICK d \in Cores : StartTask(d) \/ FinishTask(d) \/ FailTask(d)
        BY <3>2
      <3>4. \E value : running' = [running EXCEPT ![d] = value]
        BY <3>3 DEF StartTask, FinishTask, FailTask
      <3>5. d = c
        BY <3>1, <3>4 DEF DueInv, Placed
      <3> QED BY <2>1, <3>3, <3>5 DEF FinishTask, FailTask
    <2>3. t \in Candidates(c)
      BY <1>1, <2>2 DEF StartTask, DueInv, Placed
    <2>4. t \in EarliestDeadline(Ready(c)) /\ t \in Ready(c)
      <3>1. Ready(c) \cap EprRoots(c) = {}
        BY <2>3 DEF Candidates, EprRoots
      <3> QED BY <2>3, <3>1 DEF Candidates, EarliestDeadline
    <2>5. IdleSoFar(c) \in Nat /\ IdleSoFar(c) = now - worked[c]
      BY <1>1, <2>1 DEF DueInv, WorkOK, IdleTime, IdleSoFar
    <2>6. ASSUME NEW v \in Ready(c)
          PROVE  /\ Dues(v) \subseteq Int
                 /\ Dues(v) = {} => deadline[v] = NoTime
                 /\ Dues(v) # {} =>
                       /\ deadline[v] \in Int
                       /\ \E d \in Dues(v) : /\ deadline[v] + worked[c] <= d
                                             /\ d <= deadline[v] + worked[c] + IdleSoFar(c)
      <3>1. v \in pgraph[c].tasks
        <4>1. IsPartial(pgraph[c])
          BY <1>1 DEF DueInv, PlacesOK
        <4>2. PICK pg, done : pg = pgraph[c] /\ done = finished[Other(c)]
          OBVIOUS
        <4>3. PICK polled : polled = DropFinished(pg, done) /\ polled = Polled(c)
          BY <4>2 DEF Polled
        <4>4. polled.tasks = pg.tasks
          BY <4>1, <4>2, <4>3 DEF DropFinished, IsPartial
        <4> QED BY <4>2, <4>3, <4>4 DEF Ready, Roots, RootsIgnoringExternal
      <3>2. DeadlineOK(c, v) /\ IdleTime(c) = IdleSoFar(c)
        BY <1>1, <2>1, <3>1 DEF DueInv, IdleTime, IdleSoFar
      <3>3. v \in AllTasks
        BY <1>1, <3>1 DEF DueInv, PlacesOK, MyTasks
      <3>4. Dues(v) \subseteq Int
        BY <1>1, <3>3, DuesAreNumbers DEF DueInv
      <3> QED BY <3>2, <3>4 DEF DeadlineOK
    <2>7. deadline[u] \in Int /\ deadline[u] # NoTime
      BY <2>1, <2>6
    <2>8. deadline[t] # NoTime /\ deadline[t] <= deadline[u]
      BY <2>4, <2>7 DEF EarliestDeadline
    <2>9. Dues(t) # {} /\ deadline[t] \in Int
      BY <2>4, <2>6, <2>8
    <2>10. PICK mine \in Dues(t) : mine <= deadline[t] + worked[c] + IdleSoFar(c)
      BY <2>4, <2>6, <2>9
    <2>11. PICK other \in Dues(u) : deadline[u] + worked[c] <= other
      BY <2>6
    <2>12. mine \in Int /\ other \in Int
      BY <2>4, <2>6, <2>10, <2>11
    <2>13. mine <= other + IdleSoFar(c)
      BY <2>1, <2>5, <2>7, <2>8, <2>9, <2>10, <2>11, <2>12
    <2> QED BY <2>10, <2>11, <2>13
  <1>2. DueInv /\ [Next]_vars => [StartsInOrder]_vars
    BY <1>1
  <1>3. Spec => []DueInv
    BY DueInvInitially, DueInvPreserved, PTL DEF Spec
  <1> QED BY <1>2, <1>3, PTL DEF Spec, EarliestDueFirst
=============================================================================
