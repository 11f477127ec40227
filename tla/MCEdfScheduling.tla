--------------------------- MODULE MCEdfScheduling ---------------------------
(* Schedules with up to three bins of two kinds, one of them repeated, and a   *)
(* pause; deadlines of every kind and start times; programs that receive from  *)
(* two peers, with pids that agree or cross; pairs in bins between classical   *)
(* tasks.                                                                      *)
EXTENDS EdfScheduling

CONSTANTS a, b, alice, bob, none

MCSchedules ==
    UNION {{[first |-> start, length |-> n, pattern |-> p, period |-> Len(p) * n + pause] :
               start \in 0..(n - 1), p \in {<<a, b>>, <<b, a, b>>}, pause \in 0..1} : n \in 1..2}

Job(proc, kind, preds, duration) ==
    [proc |-> proc, preds |-> preds, kind |-> kind, start |-> NoTime, deadline |-> NoTime,
     rel |-> <<>>, duration |-> duration, socket |-> none, bin |-> none]
Cpu(preds, duration) == Job("CPU", "plain", preds, duration)
Qpu(preds, duration) == Job("QPU", "plain", preds, duration)
PairIn(bin, preds) == [Job("QPU", "epr", preds, 1) EXCEPT !.bin = bin]
From(socket, preds) == [Job("CPU", "receive", preds, 1) EXCEPT !.socket = socket]
By(job, due) == [job EXCEPT !.deadline = due]
Within(job, task, time) == [job EXCEPT !.rel = task :> time]
NotBefore(job, time) == [job EXCEPT !.start = time]

Socket(own, peer, remote) == [own |-> own, peer |-> peer, remote |-> remote]
NoMail == [p \in Peers |-> <<>>]
Upload(jobs, mail, awaits) ==
    [jobs |-> jobs, mail |-> mail, awaits |-> [p \in Peers |-> awaits]]

\* Tasks after a first one: one with a deadline relative to its end, one with a
\* given deadline; beside one with a deadline, and start times.
Deadlines ==
    {Upload(1 :> NotBefore(Job(c, "plain", {}, 2), start)
            @@ 2 :> Within(Job(c, "plain", {1}, 1), 1, d)
            @@ 3 :> By(Job(c, "plain", {1}, 1), e) @@ 4 :> By(Job(c, "plain", {}, 1), 3)
            @@ 5 :> NotBefore(Cpu({3}, 1), 8), NoMail, {}) :
        c \in Cores, d \in 0..2, e \in {2, 4, 5}, start \in {NoTime, 2}}

\* Two programs that receive, from one peer or from two, one of them twice and
\* after some local work; a peer that sends only when it has been sent something.
Mails(p, s, q, t) ==
    LET m == <<s.remote, s.own>>
        n == <<t.remote, t.own>>
    IN  IF p = q THEN {[NoMail EXCEPT ![p] = x] : x \in {<<m, n, m>>, <<n, m, m>>, <<m, n>>}}
        ELSE {[NoMail EXCEPT ![p] = <<m, m>>, ![q] = <<n>>]}
Messages ==
    UNION {{Upload(1 :> From(s, {}) @@ 2 :> From(s, {1}) @@ 3 :> Cpu({6}, 1)
                   @@ 4 :> From(t, {3}) @@ 5 :> Cpu({6}, 1) @@ 6 :> Qpu({}, 2), mail, awaits) :
               mail \in Mails(s.peer, s, t.peer, t), awaits \in {{}, {5}}} :
        s \in {Socket(0, alice, 0), Socket(0, alice, 1)},
        t \in {Socket(1, alice, 1), Socket(1, alice, 0), Socket(1, bob, 1)}}

\* Pairs of two programs in their bins, each between classical tasks, beside a
\* routine and a message.
Bins ==
    {Upload(1 :> Cpu({}, d) @@ 2 :> PairIn(a, {1}) @@ 3 :> Cpu({2}, 1)
            @@ 4 :> PairIn(IF a \in bins THEN b ELSE a, {}) @@ 5 :> By(Qpu({1}, 1), 4)
            @@ 6 :> NotBefore(Cpu({}, 1), 3), NoMail, {}) : d \in 1..3, bins \in {{a}, {}}}

\* After two units of idle time, a task with a given deadline beside one with a
\* deadline relative to the end of the task before both.
AfterIdling ==
    {Upload(1 :> NotBefore(Cpu({}, 1), 2) @@ 2 :> Within(Cpu({1}, 1), 1, 2)
            @@ 3 :> By(Cpu({1}, 1), e), NoMail, {}) : e \in 3..6}

\* A task with a tight deadline relative to one task and a loose one to another.
TwoDeadlines ==
    {Upload(1 :> Job(c, "plain", {}, 1) @@ 2 :> Job(c, "plain", {1}, 1)
            @@ 3 :> [Job(c, "plain", {1, 2}, 1) EXCEPT !.rel = (1 :> d) @@ (2 :> 3)],
            NoMail, {}) : c \in Cores, d \in {2, 4}}

MCUploads == Deadlines \cup Messages \cup Bins \cup AfterIdling \cup TwoDeadlines
==============================================================================
