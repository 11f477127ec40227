----------------------- MODULE NetworkScheduleProofs -----------------------
(***************************************************************************)
(* Proofs about the network schedule, for every schedule that starts at    *)
(* time 0 or less than a bin later, whatever its pattern, bin length and   *)
(* repeat period, and for every time.                                      *)
(***************************************************************************)
EXTENDS NetworkSchedule, WellFoundedInduction, TLAPS

\* What the theorems need of a schedule.  That it starts before the end of a bin is
\* essential: the code subtracts first_bin twice.
WellPlaced(s) == IsSchedule(s) /\ FirstInBin(s)

\* The repetition in which a time falls.
Repetition(s, t) == (t - s.first) \div s.period

\* Multiplication keeps order.
LEMMA TimesMonotone ==
    ASSUME NEW a \in Int, NEW b \in Int, a <= b, NEW l \in Nat
    PROVE  a * l <= b * l
  <1>1. (b - a) * l >= 0
    OBVIOUS
  <1>2. (b - a) * l = b * l - a * l
    OBVIOUS
  <1> QED BY <1>1, <1>2

\* One repetition more or less.
LEMMA OneMoreOrLess ==
    ASSUME NEW a \in Int, NEW l \in Int
    PROVE  a * l \in Int /\ (a - 1) * l = a * l - l /\ (a + 1) * l = a * l + l
  OBVIOUS

\* A time is in exactly one repetition of the period.
LEMMA InRepetition ==
    ASSUME NEW t \in Int, NEW p \in Nat \ {0}
    PROVE  /\ t \div p \in Int
           /\ (t \div p) * p <= t
           /\ t < (t \div p) * p + p
  OBVIOUS

\* Rounding up: the least number of bins that covers a time, which may lie before
\* the first of them by less than a bin.
LEMMA CeilingIsLeast ==
    ASSUME NEW x \in Int, NEW l \in Nat \ {0}, x > - l
    PROVE  /\ Ceiling(x, l) \in Nat
           /\ x <= Ceiling(x, l) * l
           /\ (Ceiling(x, l) - 1) * l < x
  <1> DEFINE c == (- x) \div l
  <1>1. c \in Int /\ c * l <= - x /\ - x < c * l + l
    OBVIOUS
  <1>2. Ceiling(x, l) = - c
    BY DEF Ceiling
  <1>3. (- c) * l = - (c * l) /\ (- c - 1) * l = - (c * l) - l
    BY <1>1
  <1>4. c <= 0
    <2>1. SUFFICES ASSUME c >= 1 PROVE FALSE
      BY <1>1
    <2>2. 1 * l <= c * l
      BY <2>1, <1>1, TimesMonotone
    <2> QED BY <2>2, <1>1
  <1> HIDE DEF c
  <1> QED BY <1>1, <1>2, <1>3, <1>4

\* The numbers behind both answers: the repetition r in which a time t falls, the
\* time since it began as the code has it, and where the bins of it and of its
\* neighbours start.
LEMMA Numbers ==
    ASSUME NEW s, WellPlaced(s), NEW t \in Int
    PROVE  /\ s.length \in Nat \ {0} /\ s.period \in Nat \ {0} /\ Len(s.pattern) \in Nat \ {0}
           /\ s.first \in 0..(s.length - 1)
           /\ DOMAIN s.pattern = 1..Len(s.pattern)
           /\ Repetition(s, t) \in Int
           /\ Repetition(s, t) * s.period \in Int
           /\ PatternStart(s, t) = Repetition(s, t) * s.period + s.first
           /\ PatternStart(s, t) \in Int
           /\ AskedFor(s, t) \in Int /\ AskedFor(s, t) = t - s.first
           /\ SincePatternStart(s, t) = AskedFor(s, t) - PatternStart(s, t)
           /\ SincePatternStart(s, t) \in (- s.first)..(s.period - s.first - 1)
           /\ Near(s, t) = (Repetition(s, t) - 1)..(Repetition(s, t) + 1)
  <1>1. /\ s.length \in Nat \ {0} /\ s.period \in Nat \ {0} /\ Len(s.pattern) \in Nat \ {0}
        /\ s.first \in 0..(s.length - 1)
        /\ DOMAIN s.pattern = 1..Len(s.pattern)
    BY DEF WellPlaced, IsSchedule, FirstInBin
  <1>2. t - s.first \in Int
    BY <1>1
  <1>3. /\ Repetition(s, t) \in Int
        /\ Repetition(s, t) * s.period <= t - s.first
        /\ t - s.first < Repetition(s, t) * s.period + s.period
    BY <1>1, <1>2, InRepetition DEF Repetition
  <1>4. Repetition(s, t) * s.period \in Int
    BY <1>1, <1>3
  <1>5. PatternStart(s, t) = Repetition(s, t) * s.period + s.first
    BY DEF PatternStart, Repetition
  <1>6. SincePatternStart(s, t) = AskedFor(s, t) - PatternStart(s, t)
    BY DEF SincePatternStart, AskedFor
  <1>7. Near(s, t) = (Repetition(s, t) - 1)..(Repetition(s, t) + 1)
    BY DEF Near, Repetition
  <1>8. AskedFor(s, t) = t - s.first /\ AskedFor(s, t) \in Int
    BY <1>2 DEF AskedFor
  <1>9. /\ PatternStart(s, t) \in Int
        /\ SincePatternStart(s, t) \in (- s.first)..(s.period - s.first - 1)
    <2>1. PICK here, first, period : /\ here = Repetition(s, t) * s.period /\ first = s.first
                                     /\ period = s.period
      OBVIOUS
    <2>2. /\ here \in Int /\ first \in Int /\ period \in Int /\ t - first \in Int
          /\ here <= t - first /\ t - first < here + period
      BY <1>1, <1>2, <1>3, <1>4, <2>1
    <2>3. PatternStart(s, t) = here + first
      BY <1>5, <2>1
    <2>4. SincePatternStart(s, t) = (t - first) - (here + first)
      BY <1>6, <1>8, <2>1, <2>3
    <2> QED BY <2>1, <2>2, <2>3, <2>4
  <1> QED BY <1>1, <1>3, <1>4, <1>5, <1>6, <1>7, <1>8, <1>9

\* The bins of a pattern lie within its period.
LEMMA PlaceInPeriod ==
    ASSUME NEW s, WellPlaced(s), NEW i \in DOMAIN s.pattern
    PROVE  (i - 1) * s.length \in Nat /\ (i - 1) * s.length + s.length <= s.period
  <1>1. /\ s.length \in Nat \ {0} /\ s.period \in Nat \ {0} /\ Len(s.pattern) \in Nat \ {0}
        /\ i \in 1..Len(s.pattern)
    BY DEF WellPlaced, IsSchedule
  <1>2. Len(s.pattern) * s.length <= s.period /\ Len(s.pattern) * s.length \in Int
    BY <1>1 DEF WellPlaced, IsSchedule
  <1>3. 0 * s.length <= (i - 1) * s.length
    BY <1>1, TimesMonotone
  <1>4. i * s.length <= Len(s.pattern) * s.length
    BY <1>1, TimesMonotone
  <1>5. i * s.length = (i - 1) * s.length + s.length /\ (i - 1) * s.length \in Int
    BY <1>1
  <1> QED BY <1>1, <1>2, <1>3, <1>4, <1>5

\* Where a bin starts, seen from the repetition that a time falls in: in that one,
\* in the one before it or in the one after it.
LEMMA StartsAround ==
    ASSUME NEW s, WellPlaced(s), NEW t \in Int, NEW r \in Near(s, t), NEW i \in DOMAIN s.pattern
    PROVE  /\ StartOf(s, r, i) \in Int
           /\ \/ r = Repetition(s, t)
                 /\ StartOf(s, r, i) = PatternStart(s, t) + (i - 1) * s.length
              \/ StartOf(s, r, i) = PatternStart(s, t) - s.period + (i - 1) * s.length
              \/ StartOf(s, r, i) = PatternStart(s, t) + s.period + (i - 1) * s.length
  <1> DEFINE n == Repetition(s, t)
             place == (i - 1) * s.length
  <1>1. /\ s.period \in Nat \ {0} /\ n \in Int /\ s.first \in Int
        /\ PatternStart(s, t) = n * s.period + s.first
        /\ r \in (n - 1)..(n + 1)
    <2>1. s.first \in Int
      BY DEF WellPlaced, IsSchedule
    <2> QED BY <2>1, Numbers
  <1>2. place \in Nat
    BY PlaceInPeriod
  <1> SUFFICES /\ StartOf(s, r, i) \in Int
               /\ \/ r = n /\ StartOf(s, r, i) = PatternStart(s, t) + place
                  \/ StartOf(s, r, i) = PatternStart(s, t) - s.period + place
                  \/ StartOf(s, r, i) = PatternStart(s, t) + s.period + place
    OBVIOUS
  <1>3. StartOf(s, r, i) = s.first + r * s.period + place
    BY DEF StartOf
  <1> HIDE DEF n, place
  <1>4. /\ n * s.period \in Int
        /\ (n - 1) * s.period = n * s.period - s.period
        /\ (n + 1) * s.period = n * s.period + s.period
    BY <1>1
  <1>5. r = n - 1 \/ r = n \/ r = n + 1
    BY <1>1
  <1>6. CASE r = n - 1
    BY <1>1, <1>2, <1>3, <1>4, <1>6
  <1>7. CASE r = n
    BY <1>1, <1>2, <1>3, <1>4, <1>7
  <1>8. CASE r = n + 1
    BY <1>1, <1>2, <1>3, <1>4, <1>8
  <1> QED BY <1>5, <1>6, <1>7, <1>8

\* The other way round: these are starts of bins.
LEMMA AreStarts ==
    ASSUME NEW s, WellPlaced(s), NEW t \in Int, NEW bins,
           NEW i \in DOMAIN s.pattern, s.pattern[i] \in bins
    PROVE  /\ PatternStart(s, t) + (i - 1) * s.length \in StartsOf(s, t, bins)
           /\ PatternStart(s, t) + s.period + (i - 1) * s.length \in StartsOf(s, t, bins)
  <1> DEFINE n == Repetition(s, t)
             place == (i - 1) * s.length
  <1>1. /\ s.period \in Nat \ {0} /\ n \in Int /\ s.first \in Int
        /\ PatternStart(s, t) = n * s.period + s.first
        /\ Near(s, t) = (n - 1)..(n + 1)
    BY Numbers
  <1>2. place \in Nat
    BY PlaceInPeriod
  <1>3. n * s.period \in Int /\ (n + 1) * s.period = n * s.period + s.period
    BY <1>1, OneMoreOrLess
  <1>4. StartOf(s, n, i) = PatternStart(s, t) + place
    BY <1>1, <1>2, <1>3 DEF StartOf
  <1>5. StartOf(s, n + 1, i) = PatternStart(s, t) + s.period + place
    BY <1>1, <1>2, <1>3 DEF StartOf
  <1>6. n \in Near(s, t) /\ n + 1 \in Near(s, t)
    BY <1>1
  <1> HIDE DEF n, place
  <1>7. StartOf(s, n, i) \in StartsOf(s, t, bins) /\ StartOf(s, n + 1, i) \in StartsOf(s, t, bins)
    BY <1>6 DEF StartsOf
  <1> QED BY <1>4, <1>5, <1>7 DEF n, place

\* A start of some bin that is not over: in this repetition, or in the next one.
LEMMA NotOver ==
    ASSUME NEW s, WellPlaced(s), NEW t \in Int, NEW bins,
           NEW start \in StartsOf(s, t, bins), start >= AskedFor(s, t)
    PROVE  \E i \in DOMAIN s.pattern :
               /\ s.pattern[i] \in bins
               /\ \/ start = PatternStart(s, t) + (i - 1) * s.length
                  \/ start = PatternStart(s, t) + s.period + (i - 1) * s.length
  <1>1. PICK r \in Near(s, t), i \in {j \in DOMAIN s.pattern : s.pattern[j] \in bins} :
            start = StartOf(s, r, i)
    BY DEF StartsOf
  <1> DEFINE place == (i - 1) * s.length
  <1>2. /\ s.length \in Nat \ {0} /\ s.period \in Nat \ {0} /\ PatternStart(s, t) \in Int
        /\ s.first \in 0..(s.length - 1) /\ AskedFor(s, t) \in Int
        /\ SincePatternStart(s, t) = AskedFor(s, t) - PatternStart(s, t)
        /\ SincePatternStart(s, t) \in (- s.first)..(s.period - s.first - 1)
    BY Numbers
  <1>3. place \in Nat /\ place + s.length <= s.period
    BY PlaceInPeriod
  <1>4. \/ start = PatternStart(s, t) + place
        \/ start = PatternStart(s, t) - s.period + place
        \/ start = PatternStart(s, t) + s.period + place
    BY <1>1, StartsAround
  <1> HIDE DEF place
  <1>5. start # PatternStart(s, t) - s.period + place
    BY <1>2, <1>3
  <1> QED BY <1>1, <1>4, <1>5 DEF place

\* next_bin answers the bin that comes next, or came next first_bin earlier, for
\* every time and every schedule that starts before the end of a bin.
THEOREM NextBinCorrect ==
    ASSUME schedule # NoSchedule => IsSchedule(schedule), now \in Nat
    PROVE  NextBinIsNext
  <1> SUFFICES ASSUME schedule # NoSchedule, FirstInBin(schedule)
               PROVE  LET answer == NextBin(schedule, now)
                      IN  /\ IsNext(answer.start, AskedFor(schedule, now),
                                    StartsOf(schedule, now, Range(schedule.pattern)))
                          /\ answer.start \in StartsOf(schedule, now, {answer.bin})
    BY DEF NextBinIsNext
  <1> DEFINE here == PatternStart(schedule, now)
             since == SincePatternStart(schedule, now)
             length == schedule.length
             pattern == schedule.pattern
             index == BinIndex(schedule, now)
             asked == AskedFor(schedule, now)
             all == StartsOf(schedule, now, Range(pattern))
  <1>1. WellPlaced(schedule)
    BY DEF WellPlaced
  <1>2. /\ length \in Nat \ {0} /\ schedule.period \in Nat \ {0} /\ Len(pattern) \in Nat \ {0}
        /\ DOMAIN pattern = 1..Len(pattern)
        /\ here \in Int /\ asked \in Int /\ since \in Int /\ since = asked - here
        /\ since > - length /\ since < schedule.period
    <2>1. PICK first : first = schedule.first
      OBVIOUS
    <2>2. /\ length \in Nat \ {0} /\ schedule.period \in Nat \ {0} /\ Len(pattern) \in Nat \ {0}
          /\ DOMAIN pattern = 1..Len(pattern)
          /\ here \in Int /\ asked \in Int /\ since = asked - here
          /\ first \in 0..(length - 1) /\ since \in (- first)..(schedule.period - first - 1)
      BY <1>1, <2>1, Numbers
    <2> HIDE DEF here, since, length, pattern, asked
    <2> QED BY <2>2
  <1>3. \A i \in DOMAIN pattern : pattern[i] \in Range(pattern)
    BY DEF Range
  <1>4. index \in Nat /\ since <= index * length /\ (index - 1) * length < since
    <2>1. index = Ceiling(since, length)
      BY DEF BinIndex
    <2> HIDE DEF since, length, index
    <2> QED BY <1>2, <2>1, CeilingIsLeast
  <1>5. \A i \in DOMAIN pattern :
            (i - 1) * length \in Nat /\ (i - 1) * length + length <= schedule.period
    BY <1>1, PlaceInPeriod
  <1>6. \A other \in all : other >= asked =>
            \E i \in DOMAIN pattern : \/ other = here + (i - 1) * length
                                      \/ other = here + schedule.period + (i - 1) * length
    BY <1>1, NotOver
  <1>7. ASSUME NEW i \in DOMAIN pattern, NEW bins, pattern[i] \in bins
        PROVE  /\ here + (i - 1) * length \in StartsOf(schedule, now, bins)
               /\ here + schedule.period + (i - 1) * length \in StartsOf(schedule, now, bins)
    BY <1>1, <1>7, AreStarts
  <1>8. NextBin(schedule, now) =
            IF index >= Len(pattern) THEN [start |-> here + schedule.period, bin |-> pattern[1]]
            ELSE [start |-> index * length + here, bin |-> BinAt(schedule, index)]
    BY Zenon DEF NextBin
  <1> SUFFICES /\ IsNext(NextBin(schedule, now).start, asked, all)
               /\ NextBin(schedule, now).start \in StartsOf(schedule, now, {NextBin(schedule, now).bin})
    OBVIOUS
  <1>9. pattern = schedule.pattern /\ all = StartsOf(schedule, now, Range(pattern))
    OBVIOUS
  <1> HIDE DEF here, since, length, pattern, index, asked, all
  <1>10. CASE index >= Len(pattern)
    <2> DEFINE start == here + schedule.period
    <2>1. NextBin(schedule, now) = [start |-> start, bin |-> pattern[1]]
      BY <1>8, <1>10
    <2>2. 1 \in DOMAIN pattern /\ (1 - 1) * length = 0
      BY <1>2
    <2>3. start \in all /\ start \in StartsOf(schedule, now, {pattern[1]})
      <3>1. start = here + schedule.period + (1 - 1) * length
        BY <1>2, <2>2
      <3> HIDE DEF start
      <3> QED BY <1>3, <1>7, <1>9, <2>2, <3>1
    <2>4. start >= asked
      BY <1>2
    <2>5. ASSUME NEW other \in all, other >= asked
          PROVE  other >= start
      <3>1. PICK i \in DOMAIN pattern : \/ other = here + (i - 1) * length
                                        \/ other = here + schedule.period + (i - 1) * length
        BY <1>6, <2>5
      <3>2. i - 1 <= index - 1 /\ i - 1 \in Int /\ index - 1 \in Int
        BY <1>2, <1>4, <1>10
      <3>3. (i - 1) * length <= (index - 1) * length
        BY <1>2, <3>2, TimesMonotone
      <3>4. PICK mine, last : mine = (i - 1) * length /\ last = (index - 1) * length
        OBVIOUS
      <3>5. mine \in Nat /\ last \in Int /\ mine <= last /\ last < since
        BY <1>2, <1>4, <1>5, <3>2, <3>3, <3>4
      <3>6. other = here + mine \/ other = here + schedule.period + mine
        BY <3>1, <3>4
      <3> QED BY <1>2, <2>5, <3>5, <3>6
    <2> HIDE DEF start
    <2> QED BY <2>1, <2>3, <2>4, <2>5 DEF IsNext
  <1>11. CASE ~ (index >= Len(pattern))
    <2> DEFINE start == index * length + here
    <2>1. NextBin(schedule, now) = [start |-> start, bin |-> pattern[index + 1]]
      <3>1. ~ (index < 0)
        BY <1>4
      <3>2. BinAt(schedule, index) = pattern[index + 1]
        BY <1>9, <3>1, Zenon DEF BinAt
      <3> QED BY <1>8, <1>11, <3>2
    <2>2. index + 1 \in DOMAIN pattern /\ (index + 1) - 1 = index
      BY <1>2, <1>4, <1>11
    <2>3. PICK place : place = index * length
      OBVIOUS
    <2>4. place \in Nat /\ place + length <= schedule.period /\ since <= place /\ start = place + here
      <3>1. ((index + 1) - 1) * length \in Nat /\ ((index + 1) - 1) * length + length <= schedule.period
        BY <1>5, <2>2
      <3> QED BY <1>4, <2>2, <2>3, <3>1
    <2>5. start \in all /\ start \in StartsOf(schedule, now, {pattern[index + 1]})
      <3>1. start = here + ((index + 1) - 1) * length
        BY <1>2, <2>2, <2>3, <2>4
      <3> HIDE DEF start
      <3> QED BY <1>3, <1>7, <1>9, <2>2, <3>1
    <2>6. start >= asked
      BY <1>2, <2>4
    <2>7. ASSUME NEW other \in all, other >= asked
          PROVE  other >= start
      <3>1. PICK i \in DOMAIN pattern : \/ other = here + (i - 1) * length
                                        \/ other = here + schedule.period + (i - 1) * length
        BY <1>6, <2>7
      <3>2. PICK mine : mine = (i - 1) * length
        OBVIOUS
      <3>3. mine \in Nat /\ (other = here + mine \/ other = here + schedule.period + mine)
        BY <1>5, <3>1, <3>2
      <3>4. other = here + mine => mine >= place
        <4> SUFFICES ASSUME other = here + mine PROVE mine >= place
          OBVIOUS
        <4>1. i - 1 \in Int /\ index - 1 \in Int /\ index \in Int
          BY <1>2, <1>4
        <4>2. i - 1 >= index
          <5> SUFFICES ASSUME i - 1 <= index - 1 PROVE FALSE
            BY <4>1
          <5>1. mine <= (index - 1) * length /\ (index - 1) * length \in Int
            BY <1>2, <3>2, <4>1, TimesMonotone
          <5>2. mine < since
            BY <1>2, <1>4, <3>3, <5>1
          <5> QED BY <1>2, <2>7, <3>3, <5>2
        <4> QED BY <1>2, <2>3, <3>2, <4>1, <4>2, TimesMonotone
      <3> QED BY <1>2, <2>4, <3>3, <3>4
    <2> HIDE DEF start
    <2> QED BY <2>1, <2>5, <2>6, <2>7 DEF IsNext
  <1> QED BY <1>10, <1>11

\* A bin of a pattern has a last place in it, the one that the code looks up; it
\* is its only place if no bin occurs twice.
LEMMA LastPlace ==
    ASSUME NEW s, WellPlaced(s), NEW bin \in Range(s.pattern)
    PROVE  /\ PlaceOf(s, bin) \in 0..(Len(s.pattern) - 1)
           /\ s.pattern[PlaceOf(s, bin) + 1] = bin
  <1> DEFINE n == Len(s.pattern)
             places == {i \in 0..(n - 1) : s.pattern[i + 1] = bin}
             fromEnd == {n - 1 - i : i \in places}
  <1>1. n \in Nat \ {0} /\ DOMAIN s.pattern = 1..n
    BY DEF WellPlaced, IsSchedule
  <1>2. PICK j \in DOMAIN s.pattern : s.pattern[j] = bin
    BY DEF Range
  <1>3. j - 1 \in places
    BY <1>1, <1>2
  <1>4. fromEnd \subseteq Nat /\ fromEnd # {}
    <2>1. \A i \in places : n - 1 - i \in Nat
      <3> HIDE DEF n
      <3> QED BY <1>1
    <2>2. n - 1 - (j - 1) \in fromEnd
      BY <1>3
    <2> QED BY <2>1, <2>2
  <1>5. PICK k \in fromEnd : \A l \in fromEnd : ~ (<<l, k>> \in OpToRel(<, Nat))
    <2>1. IsWellFoundedOn(OpToRel(<, Nat), Nat)
      BY NatLessThanWellFounded
    <2> HIDE DEF fromEnd
    <2> QED BY <1>4, <2>1, WFMin
  <1>6. \A l \in fromEnd : k <= l
    <2>1. ASSUME NEW l \in Nat, NEW m \in Nat, l < m
          PROVE  <<l, m>> \in OpToRel(<, Nat)
      BY <2>1 DEF OpToRel
    <2>2. \A l \in fromEnd : ~ (l < k) /\ l \in Nat /\ k \in Nat
      <3> HIDE DEF fromEnd
      <3> QED BY <1>4, <1>5, <2>1
    <2> HIDE DEF fromEnd
    <2> QED BY <2>2
  <1>7. PICK i \in places : k = n - 1 - i
    BY <1>5
  <1>8. ASSUME NEW m \in (i + 1)..(n - 1), s.pattern[m + 1] = bin
        PROVE  FALSE
    <2>1. m \in places
      BY <1>1, <1>7, <1>8
    <2>2. n - 1 - m \in fromEnd
      BY <2>1
    <2>3. i \in Int /\ m \in Int /\ n \in Int /\ i < m
      BY <1>1, <1>7, <1>8
    <2>4. n - 1 - i <= n - 1 - m
      BY <1>6, <1>7, <2>2
    <2> HIDE DEF n
    <2> QED BY <2>3, <2>4
  <1>9. /\ i \in 0..(n - 1)
        /\ s.pattern[i + 1] = bin
        /\ \A m \in (i + 1)..(n - 1) : s.pattern[m + 1] # bin
    BY <1>7, <1>8
  <1> QED BY <1>9 DEF PlaceOf

\* next_specific_bin answers the time, counted from first_bin ago, until a start of the
\* bin, less than a period, and until the next one if no bin occurs twice in the pattern.
THEOREM SpecificBinCorrect ==
    ASSUME schedule # NoSchedule => IsSchedule(schedule), now \in Nat
    PROVE  SpecificBinIsNext
  <1> SUFFICES ASSUME schedule # NoSchedule, FirstInBin(schedule), NEW bin \in Range(schedule.pattern)
               PROVE  LET wait == TimeUntil(schedule, now, bin)
                          answer == AskedFor(schedule, now) + wait
                          starts == StartsOf(schedule, now, {bin})
                      IN  /\ answer \in starts /\ wait \in 0..(schedule.period - 1)
                          /\ IsInjective(schedule.pattern) =>
                                IsNext(answer, AskedFor(schedule, now), starts)
    BY DEF SpecificBinIsNext
  <1> DEFINE here == PatternStart(schedule, now)
             since == SincePatternStart(schedule, now)
             asked == AskedFor(schedule, now)
             length == schedule.length
             period == schedule.period
             pattern == schedule.pattern
             last == PlaceOf(schedule, bin)
             place == last * length
             wait == TimeUntil(schedule, now, bin)
             answer == asked + wait
             starts == StartsOf(schedule, now, {bin})
  <1>1. WellPlaced(schedule)
    BY DEF WellPlaced
  <1>2. /\ length \in Nat \ {0} /\ period \in Nat \ {0} /\ Len(pattern) \in Nat \ {0}
        /\ DOMAIN pattern = 1..Len(pattern)
        /\ here \in Int /\ asked \in Int /\ since \in Int /\ since = asked - here
        /\ since > - length /\ since < period
    <2>1. PICK first : first = schedule.first
      OBVIOUS
    <2>2. /\ length \in Nat \ {0} /\ period \in Nat \ {0} /\ Len(pattern) \in Nat \ {0}
          /\ DOMAIN pattern = 1..Len(pattern)
          /\ here \in Int /\ asked \in Int /\ since = asked - here
          /\ first \in 0..(length - 1) /\ since \in (- first)..(period - first - 1)
      BY <1>1, <2>1, Numbers
    <2> HIDE DEF here, since, length, period, pattern, asked
    <2> QED BY <2>2
  <1>3. last + 1 \in DOMAIN pattern /\ pattern[last + 1] = bin /\ last = (last + 1) - 1
    <2>1. last \in 0..(Len(pattern) - 1) /\ pattern[last + 1] = bin
      BY <1>1, LastPlace
    <2> HIDE DEF last, pattern
    <2> QED BY <1>2, <2>1
  <1>4. place \in Nat /\ place + length <= period
    <2>1. ((last + 1) - 1) * length \in Nat /\ ((last + 1) - 1) * length + length <= period
      BY <1>1, <1>3, PlaceInPeriod
    <2> QED BY <1>3, <2>1
  <1>5. here + place \in starts /\ here + period + place \in starts
    <2>1. /\ here + ((last + 1) - 1) * length \in starts
          /\ here + period + ((last + 1) - 1) * length \in starts
      BY <1>1, <1>3, AreStarts
    <2> QED BY <1>3, <2>1
  <1>6. ASSUME IsInjective(pattern), NEW other \in starts, other >= asked
        PROVE  other = here + place \/ other = here + period + place
    <2>1. PICK i \in DOMAIN pattern : /\ pattern[i] \in {bin}
                                      /\ \/ other = here + (i - 1) * length
                                         \/ other = here + period + (i - 1) * length
      BY <1>1, <1>6, NotOver
    <2>2. i = last + 1
      BY <1>3, <1>6, <2>1 DEF IsInjective
    <2> QED BY <1>3, <2>1, <2>2
  <1>7. wait = IF place >= since THEN place - since ELSE period - since + place
    BY DEF TimeUntil
  <1> SUFFICES /\ answer \in starts /\ wait \in 0..(period - 1)
               /\ IsInjective(pattern) => IsNext(answer, asked, starts)
    OBVIOUS
  <1> HIDE DEF here, since, asked, length, period, pattern, last, place, wait, starts
  <1>8. CASE place >= since
    <2>1. wait = place - since
      BY <1>7, <1>8
    <2>2. answer = here + place /\ wait \in 0..(period - 1) /\ answer >= asked
      BY <1>2, <1>4, <1>8, <2>1
    <2> HIDE DEF answer
    <2>3. ASSUME IsInjective(pattern), NEW other \in starts, other >= asked
          PROVE  other >= answer
      BY <1>2, <1>4, <1>6, <2>2, <2>3
    <2> QED BY <1>5, <2>2, <2>3 DEF IsNext
  <1>9. CASE ~ (place >= since)
    <2>1. wait = period - since + place
      BY <1>7, <1>9
    <2>2. answer = here + period + place /\ wait \in 0..(period - 1) /\ answer >= asked
      BY <1>2, <1>4, <1>9, <2>1
    <2> HIDE DEF answer
    <2>3. ASSUME IsInjective(pattern), NEW other \in starts, other >= asked
          PROVE  other >= answer
      BY <1>2, <1>4, <1>6, <1>9, <2>2, <2>3
    <2> QED BY <1>5, <2>2, <2>3 DEF IsNext
  <1> QED BY <1>8, <1>9

\* Nobody is told to wait for the past.
LEMMA WaitIsNat ==
    ASSUME WellPlaced(schedule), schedule # NoSchedule, now \in Nat,
           NEW bin \in Range(schedule.pattern)
    PROVE  TimeUntil(schedule, now, bin) \in Nat
  <1>1. SpecificBinIsNext
    BY SpecificBinCorrect DEF WellPlaced
  <1>2. TimeUntil(schedule, now, bin) \in 0..(schedule.period - 1)
    BY <1>1 DEF SpecificBinIsNext, WellPlaced
  <1>3. schedule.period \in Nat
    BY DEF WellPlaced, IsSchedule
  <1> QED BY <1>2, <1>3

\* Both together.
THEOREM BinsCorrect ==
    ASSUME schedule # NoSchedule => IsSchedule(schedule), now \in Nat
    PROVE  BinsAreNext
  BY NextBinCorrect, SpecificBinCorrect DEF BinsAreNext

\* BinsAreNext looks at the repetition of the time and its two neighbours.  No
\* start of another repetition comes between: it is over, or comes after one of
\* the next repetition.
LEMMA OthersAreFar ==
    ASSUME NEW s, WellPlaced(s), NEW t \in Int, NEW r \in Int, NEW i \in DOMAIN s.pattern
    PROVE  /\ StartOf(s, r, i) \in Int
           /\ r < Repetition(s, t) => StartOf(s, r, i) < AskedFor(s, t)
           /\ r > Repetition(s, t) => StartOf(s, r, i) >= StartOf(s, Repetition(s, t) + 1, i)
           /\ StartOf(s, Repetition(s, t) + 1, i) \in Int
           /\ StartOf(s, Repetition(s, t) + 1, i) >= AskedFor(s, t)
  <1> DEFINE n == Repetition(s, t)
             place == (i - 1) * s.length
             asked == AskedFor(s, t)
             here == n * s.period
             length == s.length
             period == s.period
             first == s.first
  <1>1. /\ length \in Nat \ {0} /\ period \in Nat \ {0} /\ n \in Int
        /\ first \in 0..(length - 1) /\ here \in Int /\ asked \in Int
        /\ SincePatternStart(s, t) = asked - (here + first)
        /\ SincePatternStart(s, t) \in (- first)..(period - first - 1)
    <2>1. /\ PatternStart(s, t) = here + first
          /\ SincePatternStart(s, t) = asked - PatternStart(s, t)
      BY Numbers
    <2> QED BY <2>1, Numbers
  <1>2. place \in Nat /\ place + length <= period
    BY PlaceInPeriod
  <1>3. \A x : StartOf(s, x, i) = first + x * period + place
    BY DEF StartOf
  <1> SUFFICES /\ StartOf(s, r, i) \in Int
               /\ r < n => StartOf(s, r, i) < asked
               /\ r > n => StartOf(s, r, i) >= StartOf(s, n + 1, i)
               /\ StartOf(s, n + 1, i) \in Int /\ StartOf(s, n + 1, i) >= asked
    OBVIOUS
  <1>4. here = n * period
    OBVIOUS
  <1> HIDE DEF n, place, asked, here, length, period, first
  <1>5. here <= asked /\ asked < here + period
    BY <1>1
  <1>6. PICK mine, next : mine = r * period /\ next = (n + 1) * period
    OBVIOUS
  <1>7. mine \in Int /\ next = here + period /\ next \in Int /\ n + 1 \in Int
    BY <1>1, <1>4, <1>6, OneMoreOrLess
  <1>8. StartOf(s, r, i) = first + mine + place /\ StartOf(s, n + 1, i) = first + next + place
    BY <1>3, <1>6
  <1>9. r < n => mine <= here - period
    <2> SUFFICES ASSUME r < n PROVE mine <= here - period
      OBVIOUS
    <2>1. r <= n - 1 /\ n - 1 \in Int
      BY <1>1
    <2>2. r * period <= (n - 1) * period
      BY <1>1, <2>1, TimesMonotone
    <2>3. (n - 1) * period = here - period
      BY <1>1, <1>4, OneMoreOrLess
    <2> QED BY <1>6, <2>2, <2>3
  <1>10. r > n => next <= mine
    <2> SUFFICES ASSUME r > n PROVE next <= mine
      OBVIOUS
    <2>1. n + 1 <= r /\ n + 1 \in Int
      BY <1>1
    <2> QED BY <1>1, <1>6, <2>1, TimesMonotone
  <1> QED BY <1>1, <1>2, <1>5, <1>7, <1>8, <1>9, <1>10

\* What comes next among the starts around a time comes next among all of them.
LEMMA NextOfNear ==
    ASSUME WellPlaced(schedule), now \in Nat, NEW bins, NEW answer,
           IsNext(answer, AskedFor(schedule, now), StartsOf(schedule, now, bins)),
           NEW r \in Int, NEW i \in DOMAIN schedule.pattern, schedule.pattern[i] \in bins,
           StartOf(schedule, r, i) >= AskedFor(schedule, now)
    PROVE  StartOf(schedule, r, i) >= answer
  <1> DEFINE all == StartsOf(schedule, now, bins)
             asked == AskedFor(schedule, now)
             n == Repetition(schedule, now)
  <1>1. n \in Int /\ Near(schedule, now) = (n - 1)..(n + 1) /\ asked \in Int
    BY Numbers
  <1>2. answer \in all /\ \A other \in all : other >= asked => other >= answer
    BY DEF IsNext
  <1>3. \A x \in {n, n + 1} : StartOf(schedule, x, i) \in all
    <2>1. i \in {j \in DOMAIN schedule.pattern : schedule.pattern[j] \in bins}
      OBVIOUS
    <2> HIDE DEF n
    <2>2. n \in Near(schedule, now) /\ n + 1 \in Near(schedule, now)
      BY <1>1
    <2> QED BY <2>1, <2>2 DEF StartsOf
  <1>4. /\ StartOf(schedule, r, i) \in Int
        /\ r < n => StartOf(schedule, r, i) < asked
        /\ r > n => StartOf(schedule, r, i) >= StartOf(schedule, n + 1, i)
        /\ StartOf(schedule, n + 1, i) \in Int /\ StartOf(schedule, n + 1, i) >= asked
    BY OthersAreFar
  <1>5. answer \in Int
    <2>1. \A x \in Near(schedule, now), j \in DOMAIN schedule.pattern : StartOf(schedule, x, j) \in Int
      BY StartsAround
    <2> HIDE DEF n, asked
    <2> QED BY <1>2, <2>1 DEF StartsOf
  <1>6. StartOf(schedule, r, i) >= asked
    OBVIOUS
  <1> HIDE DEF all, n, asked
  <1>7. CASE r < n
    BY <1>1, <1>4, <1>6, <1>7
  <1>8. CASE r = n
    BY <1>2, <1>3, <1>6, <1>8
  <1>9. CASE r > n
    <2>1. StartOf(schedule, n + 1, i) >= answer
      BY <1>2, <1>3, <1>4
    <2> QED BY <1>4, <1>5, <1>9, <2>1
  <1> QED BY <1>1, <1>7, <1>8, <1>9

\* Of all repetitions, no bin that is not over starts before the answer of next_bin,
\* both as of first_bin ago.
THEOREM NextOfAll ==
    ASSUME WellPlaced(schedule), schedule # NoSchedule, now \in Nat,
           NEW r \in Int, NEW i \in DOMAIN schedule.pattern,
           StartOf(schedule, r, i) >= AskedFor(schedule, now)
    PROVE  StartOf(schedule, r, i) >= NextBin(schedule, now).start
  <1>1. IsNext(NextBin(schedule, now).start, AskedFor(schedule, now),
               StartsOf(schedule, now, Range(schedule.pattern)))
    BY NextBinCorrect DEF NextBinIsNext, WellPlaced
  <1>2. schedule.pattern[i] \in Range(schedule.pattern)
    BY DEF Range
  <1> QED BY <1>1, <1>2, NextOfNear

\* The same for the next bin of a pair of programs, if it occurs once in the pattern.
LEMMA NextSpecificOfAll ==
    ASSUME WellPlaced(schedule), schedule # NoSchedule, now \in Nat,
           IsInjective(schedule.pattern),
           NEW r \in Int, NEW i \in DOMAIN schedule.pattern,
           StartOf(schedule, r, i) >= AskedFor(schedule, now)
    PROVE  StartOf(schedule, r, i)
               >= AskedFor(schedule, now) + TimeUntil(schedule, now, schedule.pattern[i])
  <1>1. schedule.pattern[i] \in Range(schedule.pattern)
    BY DEF Range
  <1>2. IsNext(AskedFor(schedule, now) + TimeUntil(schedule, now, schedule.pattern[i]),
               AskedFor(schedule, now), StartsOf(schedule, now, {schedule.pattern[i]}))
    BY <1>1, SpecificBinCorrect DEF SpecificBinIsNext, WellPlaced
  <1> QED BY <1>2, NextOfNear
============================================================================
