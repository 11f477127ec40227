--------------------------- MODULE NetworkSchedule ---------------------------
(***************************************************************************)
(* The network schedule (EhiNetworkSchedule in qoala/lang/ehi.py): a       *)
(* pattern of time bins that starts at first_bin and repeats.  The QPU     *)
(* scheduler asks how long it is until the next bin for a pair of programs *)
(* (next_specific_bin), the entanglement distributor which bin comes next  *)
(* (next_bin); a bin can be used only from its start.  Both compute the    *)
(* answer from the time alone.                                             *)
(***************************************************************************)
EXTENDS Integers, Sequences, Functions

CONSTANTS
    Schedules,          \* the schedules that may be configured
    NoSchedule          \* there is none

\* A schedule as the configuration gives it: the bins of a pattern fit in its
\* repeat period, which may be longer.
IsSchedule(s) ==
    /\ s.first \in Nat
    /\ s.length \in Nat \ {0} /\ s.period \in Nat \ {0}
    /\ s.pattern \in Seq(Range(s.pattern)) /\ Len(s.pattern) > 0
    /\ Len(s.pattern) * s.length <= s.period

ASSUME ScheduleAssumption == \A s \in Schedules : IsSchedule(s)

VARIABLES
    schedule,           \* the schedule of this network, or NoSchedule
    now                 \* ns.sim_time()

Ceiling(a, b) == - ((- a) \div b)

------------------------------------------------------------------------------
(* The code's arithmetic. *)

PatternStart(s, t) == ((t - s.first) \div s.period) * s.period + s.first

\* time_since_pattern_start: the time since first_bin less the pattern's start.
SincePatternStart(s, t) == (t - s.first) - PatternStart(s, t)

\* Fault: rounds down, to the bin that has already started.
BinIndexDown(s, t) == SincePatternStart(s, t) \div s.length

BinIndex(s, t) == Ceiling(SincePatternStart(s, t), s.length)

\* What the pattern has at an index, where a negative one counts from its end;
\* below that there is nothing (an IndexError).
BinAt(s, i) == s.pattern[(IF i < 0 THEN i + Len(s.pattern) ELSE i) + 1]

\* next_bin: the start of a bin and what it is for.
NextBin(s, t) ==
    IF BinIndex(s, t) >= Len(s.pattern)
    THEN [start |-> PatternStart(s, t) + s.period, bin |-> s.pattern[1]]
    ELSE [start |-> BinIndex(s, t) * s.length + PatternStart(s, t),
          bin   |-> BinAt(s, BinIndex(s, t))]

\* The last place of a bin in the pattern; bins are counted from 0.
PlaceOf(s, bin) ==
    CHOOSE i \in 0..(Len(s.pattern) - 1) :
        /\ s.pattern[i + 1] = bin
        /\ \A j \in (i + 1)..(Len(s.pattern) - 1) : s.pattern[j + 1] # bin

\* Fault: a bin that starts right now is taken to be over.
WaitPastStart(s, t, bin) ==
    LET place == PlaceOf(s, bin) * s.length
    IN  IF place > SincePatternStart(s, t)
        THEN place - SincePatternStart(s, t)
        ELSE s.period - SincePatternStart(s, t) + place

\* next_specific_bin: the time until the next bin equal to the given one.
TimeUntil(s, t, bin) ==
    LET place == PlaceOf(s, bin) * s.length
    IN  IF place >= SincePatternStart(s, t)
        THEN place - SincePatternStart(s, t)
        ELSE s.period - SincePatternStart(s, t) + place

------------------------------------------------------------------------------
(* Properties. *)

\* What a schedule means: bin i of the r-th repetition starts at this time.
StartOf(s, r, i) == s.first + r * s.period + (i - 1) * s.length

\* The repetitions that matter for a time t, one on each side included.
Near(s, t) == LET r == (t - s.first) \div s.period IN (r - 1)..(r + 1)

StartsOf(s, t, bins) ==
    {StartOf(s, r, i) : r \in Near(s, t), i \in {j \in DOMAIN s.pattern : s.pattern[j] \in bins}}

IsNext(start, t, starts) ==
    start \in starts /\ start >= t /\ \A other \in starts : other >= t => other >= start

\* Both questions subtract first_bin twice, so that each is answered as for a time
\* that much earlier.
AskedFor(s, t) == t - s.first

\* From a first_bin on that is a bin's length or more the index may be negative.
FirstInBin(s) == s.first < s.length

\* next_bin answers the first bin that does not start before the time it is taken
\* to be asked for, whatever repetition the bin belongs to, and what the schedule
\* has there: it is never later than that, and late by less than first_bin.
NextBinIsNext ==
    schedule # NoSchedule /\ FirstInBin(schedule) =>
        LET answer == NextBin(schedule, now)
        IN  /\ IsNext(answer.start, AskedFor(schedule, now),
                      StartsOf(schedule, now, Range(schedule.pattern)))
            /\ answer.start \in StartsOf(schedule, now, {answer.bin})

\* next_specific_bin answers the time from then until the first start of such a bin
\* that is not over then, for every bin of the schedule.  Of a bin that occurs several
\* times in the pattern it may pass over some, but never for longer than a period.
SpecificBinIsNext ==
    schedule # NoSchedule /\ FirstInBin(schedule) =>
        \A bin \in Range(schedule.pattern) :
            LET wait == TimeUntil(schedule, now, bin)
                answer == AskedFor(schedule, now) + wait
                starts == StartsOf(schedule, now, {bin})
            IN  /\ answer \in starts /\ wait \in 0..(schedule.period - 1)
                /\ IsInjective(schedule.pattern) => IsNext(answer, AskedFor(schedule, now), starts)

\* The two questions that are asked of a schedule have the answers that are right
\* first_bin earlier: for a schedule that starts at time 0, the right ones.
BinsAreNext == NextBinIsNext /\ SpecificBinIsNext
=============================================================================
