---------------------------- MODULE PushRefresh ----------------------------
(***************************************************************************)
(* What a pushed delivery sets off: push.cpp's OnMessage and Refresh, and  *)
(* the worker of baas.cpp (RunInBackground) that runs the re-reads.        *)
(*                                                                         *)
(* The connection thread turns a frame into one Refresh per queue kind it  *)
(* concerns.  A kind that is queued already is not queued again; the task  *)
(* takes its mark off before it reads, so a delivery that comes during the *)
(* read queues another one.                                                *)
(***************************************************************************)
EXTENDS Naturals, Sequences

CONSTANTS
    Kinds,      \* keys of State::queued: "friends", "requests", "invitations"
    Lists,      \* what a re-read fetches
    Deliveries, \* what a frame sets off: sequences of [kind, lists]
    Idle        \* the connection thread or the worker has nothing in hand

\* One Refresh call: the kind it queues under and the lists its work reads.
Job == [kind : Kinds, lists : Seq(Lists)]

ASSUME PushRefreshAssumption ==
    /\ Deliveries \subseteq Seq(Job)
    /\ Idle \notin Job

VARIABLES
    queued,  \* State::queued
    todo,    \* the Refresh calls left of the frame being handled
    posting, \* a Refresh that has set its mark and not yet called RunInBackground
    tasks,   \* Worker::tasks
    taken,   \* the task the worker popped, its mark not yet off
    reading, \* the lists left of the work that runs
    stale    \* lists a delivery concerned and no fetch has begun for since

vars == <<queued, todo, posting, tasks, taken, reading, stale>>

Init ==
    /\ queued = [k \in Kinds |-> FALSE]
    /\ todo = <<>> /\ tasks = <<>> /\ reading = <<>>
    /\ posting = Idle /\ taken = Idle
    /\ stale = {}

\* Every job a frame can ask for.
Known == UNION {{d[i] : i \in 1..Len(d)} : d \in Deliveries}

ListsOf(job) == {job.lists[i] : i \in 1..Len(job.lists)}
Concerned(d) == UNION {ListsOf(d[i]) : i \in 1..Len(d)}

-----------------------------------------------------------------------------
(* The connection thread.                                                  *)

\* A frame: the handover result, or OnMessage with a message of some kind.
OnMessage(d) ==
    /\ todo = <<>> /\ posting = Idle
    /\ todo' = d
    /\ stale' = stale \cup Concerned(d)
    /\ UNCHANGED <<queued, posting, tasks, taken, reading>>

\* Mutant: the mark is not looked at.
RefreshAlways ==
    /\ todo # <<>> /\ posting = Idle
    /\ todo' = Tail(todo)
    /\ posting' = Head(todo) /\ queued' = [queued EXCEPT ![Head(todo).kind] = TRUE]
    /\ UNCHANGED <<tasks, taken, reading, stale>>

\* Refresh under State::mutex: a queued kind is left alone.
Refresh ==
    /\ todo # <<>> /\ posting = Idle
    /\ todo' = Tail(todo)
    /\ IF queued[Head(todo).kind]
       THEN UNCHANGED <<queued, posting>>
       ELSE /\ queued' = [queued EXCEPT ![Head(todo).kind] = TRUE]
            /\ posting' = Head(todo)
    /\ UNCHANGED <<tasks, taken, reading, stale>>

RunInBackground ==
    /\ posting # Idle
    /\ tasks' = Append(tasks, posting)
    /\ posting' = Idle
    /\ UNCHANGED <<queued, todo, taken, reading, stale>>

-----------------------------------------------------------------------------
(* The worker.                                                             *)

\* Mutant: a wait without its predicate, so that a spurious wake pops nothing.
RunSpurious ==
    /\ taken = Idle /\ reading = <<>>
    /\ taken' = IF tasks = <<>> THEN <<>> ELSE Head(tasks)
    /\ tasks' = IF tasks = <<>> THEN <<>> ELSE Tail(tasks)
    /\ UNCHANGED <<queued, todo, posting, reading, stale>>

\* Worker::Run: wait for a task and pop it.
Run ==
    /\ taken = Idle /\ reading = <<>> /\ tasks # <<>>
    /\ taken' = Head(tasks)
    /\ tasks' = Tail(tasks)
    /\ UNCHANGED <<queued, todo, posting, reading, stale>>

\* Mutant: the mark comes off after the work, so the first read starts first.
UnmarkLate ==
    /\ taken # Idle
    /\ \/ /\ ListsOf(taken) \cap stale # {}
          /\ stale' = stale \ ListsOf(taken)
          /\ UNCHANGED <<queued, taken>>
       \/ /\ queued' = [queued EXCEPT ![taken.kind] = FALSE]
          /\ taken' = Idle
          /\ UNCHANGED stale
    /\ UNCHANGED <<todo, posting, tasks, reading>>

\* The task's first act: its mark comes off, under State::mutex.
Unmark ==
    /\ taken # Idle
    /\ queued' = [queued EXCEPT ![taken.kind] = FALSE]
    /\ reading' = taken.lists
    /\ taken' = Idle
    /\ UNCHANGED <<todo, posting, tasks, stale>>

\* The work's next read begins: what was delivered until now is in its answer.
\* An exception out of it ends the task there; Worker::Run catches it.
Fetch ==
    /\ reading # <<>>
    /\ stale' = stale \ {Head(reading)}
    /\ reading' \in {Tail(reading), <<>>}
    /\ UNCHANGED <<queued, todo, posting, tasks, taken>>

Connection == Refresh \/ RunInBackground
Worker     == Run \/ Unmark \/ Fetch

Next == (\E d \in Deliveries : OnMessage(d)) \/ Connection \/ Worker

Spec == Init /\ [][Next]_vars

\* Neither thread stops while it has work; deliveries may stop at any time.
FairSpec == Spec /\ WF_vars(Connection) /\ WF_vars(Worker)

-----------------------------------------------------------------------------
\* The type invariant of the queue, its marks and the worker.
TypeOK ==
    /\ queued \in [Kinds -> BOOLEAN]
    /\ todo \in Seq(Job) /\ tasks \in Seq(Job) /\ reading \in Seq(Lists)
    /\ posting \in Job \cup {Idle} /\ taken \in Job \cup {Idle}
    /\ stale \subseteq Lists

\* The jobs whose mark is set: being posted, waiting, or popped.
InTasks(k)  == \E i \in 1..Len(tasks) : tasks[i].kind = k
Marked(k) ==
    \/ posting # Idle /\ posting.kind = k
    \/ taken # Idle /\ taken.kind = k
    \/ InTasks(k)

\* "a burst of deliveries for one list costs one fetch, never one each": a
\* kind's mark is set exactly while one task of the kind is on its way, and
\* there is never a second one.
Coalesced ==
    /\ \A k \in Kinds : queued[k] <=> Marked(k)
    /\ \A i, j \in 1..Len(tasks) : tasks[i].kind = tasks[j].kind => i = j
    /\ taken # Idle => ~InTasks(taken.kind)
    /\ posting # Idle => /\ ~InTasks(posting.kind)
                         /\ taken # Idle => taken.kind # posting.kind

\* The task on its way for a kind reads this list.
OnItsWay(l) ==
    \/ \E i \in 1..Len(reading) : reading[i] = l
    \/ \E i \in 1..Len(todo) : l \in ListsOf(todo[i])
    \/ posting # Idle /\ l \in ListsOf(posting)
    \/ taken # Idle /\ l \in ListsOf(taken)
    \/ \E i \in 1..Len(tasks) : l \in ListsOf(tasks[i])

\* The lists that are the first read of every job of their kind: all but the
\* guest's own inbox, which only a pushed invitation reads.
Starts(job, l) == job.lists # <<>> /\ Head(job.lists) = l
Always == {l \in Lists : \A a, b \in Known :
               l \in ListsOf(a) /\ a.kind = b.kind => Starts(b, l)}

\* No delivery is lost in the coalescing: a list that was delivered has a read
\* on its way that has not begun, also when reads fail.
NoDeliveryLost == \A l \in stale \cap Always : OnItsWay(l)

\* And that read does begin.
Reread == \A l \in Lists : l \in stale /\ l \in Always ~> l \notin stale

\* The inductive strengthening of NoDeliveryLost: the read on its way is the
\* first its job makes, every job came from a frame, and one task runs at once.
Begins(l) ==
    \/ reading # <<>> /\ Head(reading) = l
    \/ \E i \in 1..Len(todo) : Starts(todo[i], l)
    \/ posting # Idle /\ Starts(posting, l)
    \/ taken # Idle /\ Starts(taken, l)
    \/ \E i \in 1..Len(tasks) : Starts(tasks[i], l)
DeliveryInv ==
    /\ \A l \in stale \cap Always : Begins(l)
    /\ \A i \in 1..Len(todo) : todo[i] \in Known
    /\ \A i \in 1..Len(tasks) : tasks[i] \in Known
    /\ posting \in Known \cup {Idle} /\ taken \in Known \cup {Idle}
    /\ taken # Idle => reading = <<>>
=============================================================================
