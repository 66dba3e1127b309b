------------------------- MODULE PushRefreshProofs -------------------------
(***************************************************************************)
(* For any kinds, lists and frames: one task per kind at a time, and no    *)
(* delivery lost to a task that had already read its list.                 *)
(***************************************************************************)
EXTENDS PushRefresh, SequenceTheorems, TLAPS

\* A frame asks for jobs of the declared shape.
LEMMA KnownJobs == Known \subseteq Job
  BY PushRefreshAssumption DEF Known

\* The initial state has its types.
LEMMA TypeInit == Init => TypeOK
  BY DEF Init, TypeOK

\* Every step keeps the types.
LEMMA TypeStep == TypeOK /\ [Next]_vars => TypeOK'
  <1> SUFFICES ASSUME TypeOK, [Next]_vars PROVE TypeOK'
    OBVIOUS
  <1> USE DEF TypeOK
  <1>1. ASSUME NEW d \in Deliveries, OnMessage(d) PROVE TypeOK'
    <2>1. d \in Seq(Job)
      BY PushRefreshAssumption
    <2>2. Concerned(d) \subseteq Lists
      <3>1. ASSUME NEW job \in Job PROVE ListsOf(job) \subseteq Lists
        <4>1. job.lists \in Seq(Lists)
          BY DEF Job
        <4>2. QED
          BY <4>1 DEF ListsOf
      <3>2. \A i \in 1..Len(d) : d[i] \in Job
        BY <2>1
      <3>3. QED
        BY <3>1, <3>2 DEF Concerned
    <2>3. QED
      BY <1>1, <2>1, <2>2 DEF OnMessage
  <1>2. CASE Refresh
    <2>1. Head(todo) \in Job /\ Tail(todo) \in Seq(Job)
      BY <1>2 DEF Refresh
    <2>2. QED
      BY <1>2, <2>1 DEF Refresh, Job
  <1>3. CASE RunInBackground
    BY <1>3 DEF RunInBackground
  <1>4. CASE Run
    BY <1>4 DEF Run
  <1>5. CASE Unmark
    BY <1>5 DEF Unmark, Job
  <1>6. CASE Fetch
    <2>1. Tail(reading) \in Seq(Lists) /\ <<>> \in Seq(Lists)
      BY <1>6, HeadTailProperties, EmptySeq DEF Fetch
    <2>2. QED
      BY <1>6, <2>1 DEF Fetch
  <1>7. CASE UNCHANGED vars
    BY <1>7 DEF vars
  <1>8. QED
    BY <1>1, <1>2, <1>3, <1>4, <1>5, <1>6, <1>7 DEF Next, Connection, Worker

\* Nothing is marked and nothing queued at the start.
LEMMA CoalescedInit == Init => Coalesced
  BY DEF Init, Coalesced, Marked, InTasks

\* Every step keeps one task per marked kind.
LEMMA CoalescedStep == TypeOK /\ Coalesced /\ [Next]_vars => Coalesced'
  <1> SUFFICES ASSUME TypeOK, Coalesced, [Next]_vars PROVE Coalesced'
    OBVIOUS
  <1>0. /\ queued \in [Kinds -> BOOLEAN] /\ tasks \in Seq(Job) /\ todo \in Seq(Job)
        /\ posting \in Job \cup {Idle} /\ taken \in Job \cup {Idle} /\ Idle \notin Job
    BY PushRefreshAssumption DEF TypeOK
  <1>1. ASSUME NEW d \in Deliveries, OnMessage(d) PROVE Coalesced'
    BY <1>1 DEF OnMessage, Coalesced, Marked, InTasks
  <1>2. CASE Refresh
    <2>1. Head(todo) \in Job /\ Head(todo) # Idle /\ Head(todo).kind \in Kinds
      <3>1. Head(todo) \in Job
        BY <1>0, <1>2, HeadTailProperties DEF Refresh
      <3>2. QED
        BY <1>0, <3>1 DEF Job
    <2>2. CASE queued[Head(todo).kind]
      BY <1>2, <2>2 DEF Refresh, Coalesced, Marked, InTasks
    <2>3. CASE ~queued[Head(todo).kind]
      <3> DEFINE h == Head(todo).kind
      <3>1. /\ posting = Idle /\ posting' = Head(todo) /\ UNCHANGED <<tasks, taken>>
            /\ \A k \in Kinds : queued'[k] = IF k = h THEN TRUE ELSE queued[k]
        BY <1>0, <1>2, <2>3 DEF Refresh
      <3>2. ~Marked(h)
        BY <2>1, <2>3 DEF Coalesced
      <3>3. \A k \in Kinds : Marked(k)' <=> k = h \/ Marked(k)
        BY <3>1, <2>1 DEF Marked, InTasks
      <3>4. \A k \in Kinds : queued'[k] <=> Marked(k)'
        BY <2>1, <3>1, <3>3 DEF Coalesced
      <3>5. \A k \in Kinds : InTasks(k)' <=> InTasks(k)
        BY <3>1 DEF InTasks
      <3>6. ~InTasks(h) /\ (taken # Idle => taken.kind # h)
        BY <3>2 DEF Marked
      <3>7. /\ \A i, j \in 1..Len(tasks') : tasks'[i].kind = tasks'[j].kind => i = j
            /\ taken' # Idle => ~InTasks(taken.kind)'
        BY <3>1 DEF Coalesced, InTasks
      <3>8. posting' # Idle => /\ ~InTasks(posting.kind)'
                               /\ taken' # Idle => taken'.kind # posting'.kind
        BY <3>1, <3>6 DEF InTasks
      <3>9. QED
        BY <3>4, <3>7, <3>8 DEF Coalesced
    <2>4. QED
      BY <2>2, <2>3
  <1>3. CASE RunInBackground
    <2>1. /\ posting \in Job /\ posting' = Idle /\ UNCHANGED <<queued, taken>>
          /\ tasks' = Append(tasks, posting)
      BY <1>0, <1>3 DEF RunInBackground
    <2>2. /\ Len(tasks') = Len(tasks) + 1 /\ Len(tasks) \in Nat
          /\ \A i \in 1..Len(tasks) : tasks'[i] = tasks[i]
          /\ tasks'[Len(tasks) + 1] = posting
      BY <1>0, <2>1
    <2>3. \A k \in Kinds : InTasks(k)' <=> InTasks(k) \/ posting.kind = k
      BY <2>2 DEF InTasks
    <2>4. \A k \in Kinds : Marked(k)' <=> Marked(k)
      BY <1>0, <2>1, <2>3 DEF Marked
    <2>5. \A i, j \in 1..Len(tasks') : tasks'[i].kind = tasks'[j].kind => i = j
      BY <1>3, <2>2 DEF RunInBackground, Coalesced, InTasks
    <2>6. taken' # Idle => ~InTasks(taken.kind)'
      BY <1>0, <1>3, <2>1, <2>3 DEF RunInBackground, Coalesced, Job
    <2>7. QED
      BY <1>0, <2>1, <2>4, <2>5, <2>6 DEF Coalesced
  <1>4. CASE Run
    <2>1. /\ taken = Idle /\ tasks # <<>> /\ taken' = tasks[1] /\ taken' \in Job
          /\ tasks' = Tail(tasks) /\ UNCHANGED <<queued, posting>>
      BY <1>0, <1>4 DEF Run
    <2>2. /\ Len(tasks') = Len(tasks) - 1 /\ Len(tasks) \in Nat \ {0}
          /\ \A i \in 1..Len(tasks') : tasks'[i] = tasks[i + 1]
      BY <1>0, <2>1
    <2>3. \A k \in Kinds : InTasks(k) <=> InTasks(k)' \/ taken'.kind = k
      <3> SUFFICES ASSUME NEW k \in Kinds
                   PROVE  InTasks(k) <=> InTasks(k)' \/ taken'.kind = k
        OBVIOUS
      <3>1. ASSUME NEW i \in 1..Len(tasks), tasks[i].kind = k, i # 1 PROVE InTasks(k)'
        <4>1. i - 1 \in 1..Len(tasks') /\ tasks'[i - 1] = tasks[i]
          BY <2>2, <3>1
        <4>2. QED
          BY <3>1, <4>1 DEF InTasks
      <3>2. InTasks(k)' => InTasks(k)
        BY <2>2 DEF InTasks
      <3>3. taken'.kind = k => InTasks(k)
        BY <2>1, <2>2 DEF InTasks
      <3>4. QED
        BY <2>1, <3>1, <3>2, <3>3 DEF InTasks
    <2>4. ~InTasks(taken.kind)'
      BY <2>1, <2>2 DEF InTasks, Coalesced
    <2>5. \A k \in Kinds : Marked(k)' <=> Marked(k)
      BY <1>0, <2>1, <2>3 DEF Marked
    <2>6. \A i, j \in 1..Len(tasks') : tasks'[i].kind = tasks'[j].kind => i = j
      BY <2>2 DEF Coalesced
    <2>7. posting' # Idle => ~InTasks(posting.kind)' /\ taken'.kind # posting'.kind
      BY <1>0, <2>1, <2>3 DEF Coalesced, Job
    <2>8. QED
      BY <2>1, <2>4, <2>5, <2>6, <2>7 DEF Coalesced
  <1>5. CASE Unmark
    <2>1. /\ taken \in Job /\ taken.kind \in Kinds /\ taken' = Idle
          /\ UNCHANGED <<tasks, posting>>
          /\ \A k \in Kinds : queued'[k] = IF k = taken.kind THEN FALSE ELSE queued[k]
      BY <1>0, <1>5 DEF Unmark, Job
    <2>2. \A k \in Kinds : Marked(k)' <=> Marked(k) /\ k # taken.kind
      BY <1>0, <2>1 DEF Marked, Coalesced, InTasks
    <2>3. QED
      BY <2>1, <2>2 DEF Coalesced, InTasks
  <1>6. CASE Fetch
    BY <1>6 DEF Fetch, Coalesced, Marked, InTasks
  <1>7. CASE UNCHANGED vars
    BY <1>7 DEF vars, Coalesced, Marked, InTasks
  <1>8. QED
    BY <1>1, <1>2, <1>3, <1>4, <1>5, <1>6, <1>7 DEF Next, Connection, Worker

-----------------------------------------------------------------------------
\* Nothing has been delivered at the start.
LEMMA DeliveryInit == Init => DeliveryInv
  BY DEF Init, DeliveryInv

\* A job of a frame that reads an Always list starts with it, and so does any
\* other job of its kind.
LEMMA SameKindStarts ==
  ASSUME NEW a \in Known, NEW b \in Known, a.kind = b.kind,
         NEW l \in Always, l \in ListsOf(a)
  PROVE  Starts(b, l)
  BY DEF Always

\* A list a job begins with is one it reads.
LEMMA StartIsRead ==
  ASSUME NEW job \in Job, NEW l, Starts(job, l)
  PROVE  l \in ListsOf(job)
  <1>1. job.lists \in Seq(Lists) /\ job.lists # <<>> /\ Head(job.lists) = l
    BY DEF Job, Starts
  <1>2. 1 \in 1..Len(job.lists) /\ job.lists[1] = l
    BY <1>1
  <1>3. QED
    BY <1>2 DEF ListsOf

\* Every step keeps a read on its way for each delivered list.
LEMMA DeliveryStep ==
    TypeOK /\ Coalesced /\ DeliveryInv /\ [Next]_vars => DeliveryInv'
  <1> SUFFICES ASSUME TypeOK, Coalesced, DeliveryInv, [Next]_vars PROVE DeliveryInv'
    OBVIOUS
  <1>0. /\ tasks \in Seq(Job) /\ todo \in Seq(Job) /\ reading \in Seq(Lists)
        /\ posting \in Job \cup {Idle} /\ taken \in Job \cup {Idle} /\ Idle \notin Job
        /\ queued \in [Kinds -> BOOLEAN]
    BY PushRefreshAssumption DEF TypeOK
  <1>1. ASSUME NEW d \in Deliveries, OnMessage(d) PROVE DeliveryInv'
    <2>1. d \in Seq(Job) /\ \A i \in 1..Len(d) : d[i] \in Known
      BY PushRefreshAssumption DEF Known
    <2>2. ASSUME NEW l \in stale' \cap Always PROVE Begins(l)'
      <3>1. CASE l \in stale
        <4>1. Begins(l)
          BY <3>1 DEF DeliveryInv
        <4>2. QED
          BY <1>1, <4>1 DEF OnMessage, Begins
      <3>2. CASE l \in Concerned(d)
        <4>1. PICK i \in 1..Len(d) : l \in ListsOf(d[i])
          BY <3>2 DEF Concerned
        <4>2. Starts(d[i], l)
          BY <2>1, <4>1, SameKindStarts
        <4>3. QED
          BY <1>1, <4>2 DEF OnMessage, Begins
      <3>3. QED
        BY <1>1, <2>2, <3>1, <3>2 DEF OnMessage
    <2>3. QED
      BY <1>1, <2>1, <2>2 DEF OnMessage, DeliveryInv
  <1>2. CASE Refresh
    <2>1. /\ todo # <<>> /\ posting = Idle /\ todo' = Tail(todo)
          /\ UNCHANGED <<tasks, taken, reading, stale>>
      BY <1>2 DEF Refresh
    <2>2. /\ Len(todo') = Len(todo) - 1 /\ Len(todo) \in Nat \ {0}
          /\ \A i \in 1..Len(todo') : todo'[i] = todo[i + 1]
          /\ Head(todo) = todo[1]
      BY <1>0, <2>1
    <2>3. Head(todo) \in Known /\ \A i \in 1..Len(todo') : todo'[i] \in Known
      BY <2>2 DEF DeliveryInv
    <2>4. posting' \in Known \cup {Idle}
      BY <1>2, <2>1, <2>3 DEF Refresh
    <2>5. Head(todo) \in Job /\ Head(todo).kind \in Kinds /\ Head(todo) # Idle
      BY <1>0, <2>3, KnownJobs DEF Job
    <2>6. ASSUME NEW l \in stale \cap Always, Starts(Head(todo), l)
          PROVE  Begins(l)'
      <3>1. CASE queued[Head(todo).kind]
        <4>1. Marked(Head(todo).kind)
          BY <2>5, <3>1 DEF Coalesced
        <4>2. l \in ListsOf(Head(todo))
          BY <2>5, <2>6, StartIsRead
        <4>3. CASE taken # Idle /\ taken.kind = Head(todo).kind
          <5>1. Starts(taken, l)
            BY <2>3, <4>2, <4>3, SameKindStarts DEF DeliveryInv
          <5>2. QED
            BY <2>1, <4>3, <5>1 DEF Begins
        <4>4. CASE InTasks(Head(todo).kind)
          <5>1. PICK i \in 1..Len(tasks) : tasks[i].kind = Head(todo).kind
            BY <4>4 DEF InTasks
          <5>2. tasks[i] \in Known
            BY DEF DeliveryInv
          <5>3. Starts(tasks[i], l)
            BY <2>3, <4>2, <5>1, <5>2, SameKindStarts
          <5>4. QED
            BY <2>1, <5>3 DEF Begins
        <4>5. QED
          BY <2>1, <4>1, <4>3, <4>4 DEF Marked
      <3>2. CASE ~queued[Head(todo).kind]
        <4>1. posting' = Head(todo)
          BY <1>2, <3>2 DEF Refresh
        <4>2. QED
          BY <2>5, <2>6, <4>1 DEF Begins
      <3>3. QED
        BY <3>1, <3>2
    <2>7. ASSUME NEW l \in stale' \cap Always PROVE Begins(l)'
      <3>1. Begins(l) /\ l \in stale
        BY <2>1 DEF DeliveryInv
      <3>2. ASSUME NEW i \in 1..Len(todo), Starts(todo[i], l) PROVE Begins(l)'
        <4>1. CASE i = 1
          BY <2>2, <2>6, <3>1, <3>2, <4>1
        <4>2. CASE i # 1
          <5>1. i - 1 \in 1..Len(todo') /\ todo'[i - 1] = todo[i]
            BY <2>2, <4>2
          <5>2. QED
            BY <3>2, <5>1 DEF Begins
        <4>3. QED
          BY <4>1, <4>2
      <3>3. CASE \/ reading # <<>> /\ Head(reading) = l
                 \/ taken # Idle /\ Starts(taken, l)
                 \/ \E i \in 1..Len(tasks) : Starts(tasks[i], l)
        BY <2>1, <3>3 DEF Begins
      <3>4. QED
        BY <2>1, <3>1, <3>2, <3>3 DEF Begins
    <2>8. QED
      BY <2>1, <2>3, <2>4, <2>7 DEF DeliveryInv
  <1>3. CASE RunInBackground
    <2>1. /\ posting # Idle /\ posting' = Idle /\ posting \in Known
          /\ tasks' = Append(tasks, posting)
          /\ UNCHANGED <<todo, taken, reading, stale>>
      BY <1>3 DEF RunInBackground, DeliveryInv
    <2>2. /\ Len(tasks') = Len(tasks) + 1 /\ Len(tasks) \in Nat
          /\ \A i \in 1..Len(tasks) : tasks'[i] = tasks[i]
          /\ tasks'[Len(tasks) + 1] = posting
      BY <1>0, <2>1
    <2>3. \A i \in 1..Len(tasks') : tasks'[i] \in Known
      BY <2>1, <2>2 DEF DeliveryInv
    <2>4. ASSUME NEW l \in stale' \cap Always PROVE Begins(l)'
      <3>1. Begins(l)
        BY <2>1 DEF DeliveryInv
      <3>2. CASE Starts(posting, l)
        <4>1. Len(tasks) + 1 \in 1..Len(tasks') /\ Starts(tasks'[Len(tasks) + 1], l)
          BY <2>2, <3>2
        <4>2. QED
          BY <4>1 DEF Begins
      <3>3. ASSUME NEW i \in 1..Len(tasks), Starts(tasks[i], l) PROVE Begins(l)'
        <4>1. i \in 1..Len(tasks') /\ Starts(tasks'[i], l)
          BY <2>2, <3>3
        <4>2. QED
          BY <4>1 DEF Begins
      <3>4. QED
        BY <2>1, <3>1, <3>2, <3>3 DEF Begins
    <2>5. QED
      BY <2>1, <2>3, <2>4 DEF DeliveryInv
  <1>4. CASE Run
    <2>1. /\ taken = Idle /\ tasks # <<>> /\ taken' = tasks[1]
          /\ tasks' = Tail(tasks) /\ UNCHANGED <<todo, posting, reading, stale>>
          /\ reading = <<>>
      BY <1>0, <1>4 DEF Run
    <2>2. /\ Len(tasks') = Len(tasks) - 1 /\ Len(tasks) \in Nat \ {0}
          /\ \A i \in 1..Len(tasks') : tasks'[i] = tasks[i + 1]
      BY <1>0, <2>1
    <2>3. /\ taken' \in Known /\ taken' # Idle
          /\ \A i \in 1..Len(tasks') : tasks'[i] \in Known
      BY <1>0, <2>1, <2>2, KnownJobs DEF DeliveryInv
    <2>4. ASSUME NEW l \in stale' \cap Always PROVE Begins(l)'
      <3>1. Begins(l)
        BY <2>1 DEF DeliveryInv
      <3>2. ASSUME NEW i \in 1..Len(tasks), Starts(tasks[i], l) PROVE Begins(l)'
        <4>1. CASE i = 1
          BY <2>1, <2>3, <3>2, <4>1 DEF Begins
        <4>2. CASE i # 1
          <5>1. i - 1 \in 1..Len(tasks') /\ tasks'[i - 1] = tasks[i]
            BY <2>2, <4>2
          <5>2. QED
            BY <3>2, <5>1 DEF Begins
        <4>3. QED
          BY <4>1, <4>2
      <3>3. QED
        BY <2>1, <3>1, <3>2 DEF Begins
    <2>5. QED
      BY <2>1, <2>3, <2>4 DEF DeliveryInv
  <1>5. CASE Unmark
    <2>1. /\ taken # Idle /\ taken' = Idle /\ reading' = taken.lists
          /\ UNCHANGED <<todo, posting, tasks, stale>>
      BY <1>5 DEF Unmark
    <2>2. reading = <<>>
      BY <2>1 DEF DeliveryInv
    <2>3. QED
      BY <2>1, <2>2 DEF DeliveryInv, Begins, Starts
  <1>6. CASE Fetch
    <2>1. /\ reading # <<>> /\ stale' = stale \ {Head(reading)}
          /\ UNCHANGED <<todo, posting, tasks, taken>>
      BY <1>6 DEF Fetch
    <2>2. QED
      BY <2>1 DEF DeliveryInv, Begins
  <1>7. CASE UNCHANGED vars
    BY <1>7 DEF vars, DeliveryInv, Begins
  <1>8. QED
    BY <1>1, <1>2, <1>3, <1>4, <1>5, <1>6, <1>7 DEF Next, Connection, Worker

\* A read that is the first of its job is a read on its way.
LEMMA DeliveryImplies == TypeOK /\ DeliveryInv => NoDeliveryLost
  <1> SUFFICES ASSUME TypeOK, DeliveryInv, NEW l \in stale \cap Always
               PROVE  OnItsWay(l)
    BY DEF NoDeliveryLost
  <1>0. Begins(l)
    BY DEF DeliveryInv
  <1>1. CASE reading # <<>> /\ Head(reading) = l
    <2>1. 1 \in 1..Len(reading) /\ reading[1] = l
      BY <1>1 DEF TypeOK
    <2>2. QED
      BY <2>1 DEF OnItsWay
  <1>2. ASSUME NEW i \in 1..Len(todo), Starts(todo[i], l) PROVE OnItsWay(l)
    <2>1. todo[i] \in Job
      BY DEF TypeOK
    <2>2. QED
      BY <1>2, <2>1, StartIsRead DEF OnItsWay
  <1>3. CASE posting # Idle /\ Starts(posting, l)
    BY <1>3, StartIsRead DEF OnItsWay, TypeOK
  <1>4. CASE taken # Idle /\ Starts(taken, l)
    BY <1>4, StartIsRead DEF OnItsWay, TypeOK
  <1>5. ASSUME NEW i \in 1..Len(tasks), Starts(tasks[i], l) PROVE OnItsWay(l)
    <2>1. tasks[i] \in Job
      BY DEF TypeOK
    <2>2. QED
      BY <1>5, <2>1, StartIsRead DEF OnItsWay
  <1>6. QED
    BY <1>0, <1>1, <1>2, <1>3, <1>4, <1>5 DEF Begins

-----------------------------------------------------------------------------
\* The types of the queue, its marks and the worker: only jobs a frame asked for are
\* ever posted, and the worker reads only the lists of one.
THEOREM TypeCorrect == Spec => []TypeOK
  BY TypeInit, TypeStep, PTL DEF Spec

\* Refresh never has two tasks of one kind on their way, and its mark says
\* exactly whether there is one, whatever frames come and however the worker
\* interleaves with them.
THEOREM OneTaskPerKind == Spec => [](TypeOK /\ Coalesced)
  <1>1. Init => TypeOK /\ Coalesced
    BY TypeInit, CoalescedInit
  <1>2. TypeOK /\ Coalesced /\ [Next]_vars => (TypeOK /\ Coalesced)'
    BY TypeStep, CoalescedStep
  <1>3. QED
    BY <1>1, <1>2, PTL DEF Spec

\* Refresh loses no delivery: every list a frame concerned, whose kind always
\* begins with it, has a read still to begin, even when reads throw.
THEOREM NoDeliveryIsLost == Spec => []NoDeliveryLost
  <1> DEFINE Inv == TypeOK /\ Coalesced /\ DeliveryInv
  <1>1. Init => Inv
    BY TypeInit, CoalescedInit, DeliveryInit
  <1>2. Inv /\ [Next]_vars => Inv'
    BY TypeStep, CoalescedStep, DeliveryStep
  <1>3. Inv => NoDeliveryLost
    BY DeliveryImplies
  <1>4. QED
    BY <1>1, <1>2, <1>3, PTL DEF Spec
=============================================================================
