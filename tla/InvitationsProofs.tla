------------------------- MODULE InvitationsProofs -------------------------
(***************************************************************************)
(* For any number of users, invitations, overlapping polls and profile     *)
(* switches: nothing is shown unannounced; and, until the first switch,    *)
(* the badge never settles on a wrong count.                               *)
(***************************************************************************)
EXTENDS Invitations, FiniteSetTheorems, TLAPS

\* No poll is under way and the list is empty at the start.
LEMMA AnnounceInit == Init => AnnounceInv
  BY DEF Init, AnnounceInv, NoneUnannounced, NoPoll

\* Every step keeps AnnounceInv.
LEMMA AnnounceStep == TypeOK /\ AnnounceInv /\ [Next]_vars => AnnounceInv'
  <1> SUFFICES ASSUME TypeOK, AnnounceInv, [Next]_vars PROVE AnnounceInv'
    OBVIOUS
  <1>0. /\ poll \in [Pollers -> Poll] /\ announced \subseteq Ids
        /\ invitations \subseteq Ids
    BY DEF TypeOK
  <1> USE <1>0 DEF AnnounceInv, NoneUnannounced, Announced
  <1>1. CASE \E i \in Ids : Arrive(i) \/ Prune(i) \/ DismissInvitation(i)
    BY <1>1 DEF Arrive, Prune, DismissInvitation
  <1>2. CASE FollowProfile \/ DismissChanged
    BY <1>2 DEF FollowProfile, DismissChanged
  <1>3. CASE \E u \in Users : Login(u)
    BY <1>3 DEF Login
  <1>4. ASSUME NEW t \in Pollers, Snapshot(t) PROVE AnnounceInv'
    <2>1. poll'[t].arrived = {} /\ poll[t].arrived = {} /\ poll'[t].pc = "fetch"
          /\ poll'[t].previous = invitations /\ poll'[t].waiting = {}
      BY <1>4 DEF Snapshot, NoPoll
    <2>2. \A u \in Pollers \ {t} : poll'[u] = poll[u]
      BY <1>4 DEF Snapshot
    <2>3. UNCHANGED <<invitations, announced>>
      BY <1>4 DEF Snapshot
    <2>4. \A i \in Ids : Announced(i) => Announced(i)'
      BY <2>1, <2>2, <2>3
    <2>5. QED
      BY <2>1, <2>2, <2>3, <2>4 DEF Poll
  <1>5. ASSUME NEW t \in Pollers, Fetch(t) PROVE AnnounceInv'
    <2>1. /\ poll[t].arrived = {} /\ poll'[t].pc = "install" /\ poll'[t].previous = {}
          /\ poll'[t].arrived = poll'[t].waiting \ poll[t].previous
          /\ poll'[t].waiting \subseteq Ids
      BY <1>5 DEF Fetch, NoPoll, Waiting
    <2>2. \A u \in Pollers \ {t} : poll'[u] = poll[u]
      BY <1>5 DEF Fetch
    <2>3. UNCHANGED <<invitations, announced>>
      BY <1>5 DEF Fetch
    <2>4. \A i \in Ids : Announced(i) => Announced(i)'
      BY <2>1, <2>2, <2>3
    <2>5. \A i \in poll'[t].waiting : Announced(i)'
      BY <2>1, <2>4
    <2>6. QED
      BY <2>1, <2>2, <2>3, <2>4, <2>5 DEF Poll
  <1>6. ASSUME NEW t \in Pollers, FetchFails(t) \/ Changed(t) PROVE AnnounceInv'
    <2>1. poll[t].arrived = {} /\ poll' = [poll EXCEPT ![t] = NoPoll]
      BY <1>6 DEF FetchFails, Changed
    <2>2. UNCHANGED <<invitations, announced>>
      BY <1>6 DEF FetchFails, Changed
    <2>3. \A u \in Pollers : poll'[u] = IF u = t THEN NoPoll ELSE poll[u]
      BY <2>1
    <2>4. \A i \in Ids : Announced(i) => Announced(i)'
      BY <2>1, <2>2, <2>3
    <2>5. QED
      BY <2>2, <2>3, <2>4 DEF Poll, NoPoll
  <1>7. ASSUME NEW t \in Pollers, Install(t) PROVE AnnounceInv'
    <2>1. /\ poll'[t].arrived = poll[t].arrived /\ poll'[t].pc = "arrivals"
          /\ poll'[t].previous = {} /\ poll'[t].waiting = {}
      BY <1>7 DEF Install, NoPoll
    <2>2. \A u \in Pollers \ {t} : poll'[u] = poll[u]
      BY <1>7 DEF Install
    <2>3. invitations' = poll[t].waiting /\ UNCHANGED announced
      BY <1>7 DEF Install
    <2>4. \A i \in Ids : Announced(i) => Announced(i)'
      BY <2>1, <2>2, <2>3
    <2>5. QED
      BY <2>1, <2>2, <2>3, <2>4 DEF Poll
  <1>8. ASSUME NEW t \in Pollers, Arrivals(t) PROVE AnnounceInv'
    <2>1. /\ poll'[t].arrived = {} /\ poll'[t].previous = {} /\ poll'[t].waiting = {}
      BY <1>8 DEF Arrivals, NoPoll
    <2>2. \A u \in Pollers \ {t} : poll'[u] = poll[u]
      BY <1>8 DEF Arrivals
    <2>3. UNCHANGED invitations
      BY <1>8 DEF Arrivals
    <2>4. \A i \in Ids : /\ i \in announced => i \in announced'
                         /\ i \in poll[t].arrived => i \in announced'
      BY <1>8 DEF Arrivals
    <2>5. \A i \in Ids : Announced(i) => Announced(i)'
      BY <2>2, <2>4
    <2>6. QED
      BY <2>1, <2>2, <2>3, <2>5 DEF Poll
  <1>9. CASE UNCHANGED vars
    BY <1>9 DEF vars
  <1>10. QED
    BY <1>1, <1>2, <1>3, <1>4, <1>5, <1>6, <1>7, <1>8, <1>9 DEF Next

\* The count of a list is at most the number of invitations there are.
LEMMA CountBound ==
    ASSUME NEW S \in SUBSET Ids
    PROVE  Cardinality(S) \in 0..Cardinality(Ids)
  BY InvitationsAssumption, FS_Subset, FS_CardinalityType

\* The initial state has its types.
LEMMA TypeInit == Init => TypeOK
  <1>1. NoPoll \in Poll
    BY DEF NoPoll, Poll
  <1>2. 0 \in 0..Cardinality(Ids)
    BY CountBound, FS_EmptySet
  <1>3. QED
    BY <1>1, <1>2, InvitationsAssumption DEF Init, TypeOK

\* Every step keeps the types.
LEMMA TypeStep == TypeOK /\ [Next]_vars => TypeOK'
  <1> SUFFICES ASSUME TypeOK, [Next]_vars PROVE TypeOK'
    OBVIOUS
  <1>0. NoPoll \in Poll
    BY DEF NoPoll, Poll
  <1>a. Cardinality(invitations) \in 0..Cardinality(Ids)
    BY CountBound DEF TypeOK
  <1> USE InvitationsAssumption
  <1>1. CASE \E i \in Ids : Arrive(i) \/ Prune(i) \/ DismissInvitation(i)
    BY <1>1 DEF Arrive, Prune, DismissInvitation, TypeOK
  <1>2. CASE FollowProfile
    BY <1>2 DEF FollowProfile, TypeOK
  <1>3. CASE DismissChanged
    BY <1>3, <1>a DEF DismissChanged, TypeOK
  <1>4. CASE \E u \in Users : Login(u)
    BY <1>4 DEF Login, TypeOK
  <1>5. ASSUME NEW t \in Pollers, Snapshot(t) PROVE TypeOK'
    <2>1. poll' \in [Pollers -> Poll]
      BY <1>5 DEF Snapshot, TypeOK, NoPoll, Poll
    <2>2. QED
      BY <1>5, <2>1 DEF Snapshot, TypeOK
  <1>6. ASSUME NEW t \in Pollers, Fetch(t) PROVE TypeOK'
    <2>1. Waiting(poll[t]) \subseteq Ids
      BY DEF Waiting
    <2>2. poll' \in [Pollers -> Poll]
      BY <1>6, <2>1 DEF Fetch, TypeOK, NoPoll, Poll
    <2>3. QED
      BY <1>6, <2>2 DEF Fetch, TypeOK
  <1>7. ASSUME NEW t \in Pollers, FetchFails(t) \/ Changed(t) PROVE TypeOK'
    BY <1>7, <1>0, <1>a DEF FetchFails, Changed, TypeOK
  <1>8. ASSUME NEW t \in Pollers, Install(t) PROVE TypeOK'
    <2>1. poll[t].arrived \subseteq Ids /\ poll[t].waiting \subseteq Ids
      BY DEF TypeOK, Poll
    <2>2. PICK b \in BOOLEAN :
             poll' = [poll EXCEPT ![t] = [NoPoll EXCEPT !.pc = "arrivals",
                                             !.arrived = poll[t].arrived, !.changed = b]]
      BY <1>8 DEF Install
    <2>3. poll' \in [Pollers -> Poll]
      BY <2>1, <2>2 DEF TypeOK, NoPoll, Poll
    <2>4. QED
      BY <1>8, <2>1, <2>3 DEF Install, TypeOK
  <1>9. ASSUME NEW t \in Pollers, Arrivals(t) PROVE TypeOK'
    <2>1. poll' \in [Pollers -> Poll]
      BY <1>9 DEF Arrivals, TypeOK, NoPoll, Poll
    <2>2. announced' \subseteq Ids
      BY <1>9 DEF Arrivals, TypeOK, Poll
    <2>3. QED
      BY <1>9, <2>1, <2>2 DEF Arrivals, TypeOK
  <1>10. CASE UNCHANGED vars
    BY <1>10 DEF vars, TypeOK
  <1>11. QED
    BY <1>1, <1>2, <1>3, <1>4, <1>5, <1>6, <1>7, <1>8, <1>9, <1>10 DEF Next

\* The types of the inbox, its polls and the host's badge, for every value of the
\* constants: the count the host was told and the hooks owed stay within bounds.
THEOREM TypeCorrect == Spec => []TypeOK
  BY TypeInit, TypeStep, PTL DEF Spec

\* Whatever polls overlap and whenever profiles switch, an invitation in the
\* list has had its on_arrival call or a poll is about to make it.
THEOREM NothingShownUnannounced == Spec => [](TypeOK /\ NoneUnannounced)
  <1>1. AnnounceInv => NoneUnannounced
    BY DEF AnnounceInv
  <1>2. QED
    BY TypeInit, TypeStep, AnnounceInit, AnnounceStep, <1>1, PTL DEF Spec

\* Until the first profile switch the host's count is the list's, or a count
\* hook is on its way: however polls and dismissals overlap.
THEOREM BadgeIsRight == Spec => []BadgeFollows
  <1>1. Init => BadgeInv
    BY FS_EmptySet DEF Init, BadgeInv, BadgeFollows, NoPoll
  <1>2. TypeOK /\ BadgeInv /\ [Next]_vars => BadgeInv'
    <2> SUFFICES ASSUME TypeOK, BadgeInv, [Next]_vars PROVE BadgeInv'
      OBVIOUS
    <2>0. poll \in [Pollers -> Poll] /\ owed \in Nat /\ switches \in Nat
      BY DEF TypeOK
    <2> USE <2>0 DEF BadgeInv, BadgeFollows
    <2>1. CASE \E i \in Ids : Arrive(i) \/ Prune(i)
      BY <2>1 DEF Arrive, Prune
    <2>2. ASSUME NEW i \in Ids, DismissInvitation(i) PROVE BadgeInv'
      <3>1. CASE i \in invitations
        BY <2>2, <3>1 DEF DismissInvitation
      <3>2. CASE i \notin invitations
        <4>1. invitations' = invitations
          BY <2>2, <3>2 DEF DismissInvitation
        <4>2. QED
          BY <2>2, <3>2, <4>1 DEF DismissInvitation
      <3>3. QED
        BY <3>1, <3>2
    <2>3. CASE FollowProfile
      <3>1. switches' # 0 /\ poll' = poll
        BY <2>3 DEF FollowProfile
      <3>2. QED
        BY <3>1
    <2>4. CASE DismissChanged
      BY <2>4 DEF DismissChanged
    <2>5. CASE \E u \in Users : Login(u)
      BY <2>5 DEF Login
    <2>6. ASSUME NEW t \in Pollers, Snapshot(t) \/ Fetch(t) \/ FetchFails(t)
          PROVE  BadgeInv'
      <3>1. ~poll[t].changed /\ poll[t].pc # "changed"
        BY <2>6 DEF Snapshot, Fetch, FetchFails
      <3>2. ~poll'[t].changed /\ \A u \in Pollers \ {t} : poll'[u] = poll[u]
        <4>1. CASE Snapshot(t)
          BY <4>1 DEF Snapshot, NoPoll
        <4>2. CASE Fetch(t)
          BY <4>2 DEF Fetch, NoPoll
        <4>3. CASE FetchFails(t)
          BY <4>3 DEF FetchFails, NoPoll
        <4>4. QED
          BY <2>6, <4>1, <4>2, <4>3
      <3>3. UNCHANGED <<invitations, told, owed, switches>>
        BY <2>6 DEF Snapshot, Fetch, FetchFails
      <3>4. QED
        BY <3>1, <3>2, <3>3
    <2>7. ASSUME NEW t \in Pollers, Install(t) PROVE BadgeInv'
      <3>1. /\ poll'[t].pc = "arrivals" /\ \A u \in Pollers \ {t} : poll'[u] = poll[u]
            /\ Cardinality(invitations) # Cardinality(invitations') => poll'[t].changed
        BY <2>7 DEF Install, NoPoll
      <3>2. ~poll[t].changed /\ poll[t].pc # "changed" /\ UNCHANGED <<told, owed, switches>>
        BY <2>7 DEF Install
      <3>3. QED
        BY <3>1, <3>2
    <2>8. ASSUME NEW t \in Pollers, Arrivals(t) PROVE BadgeInv'
      <3>1. /\ ~poll'[t].changed /\ \A u \in Pollers \ {t} : poll'[u] = poll[u]
            /\ poll[t].changed => poll'[t].pc = "changed"
            /\ poll[t].pc # "changed" /\ UNCHANGED <<invitations, told, owed, switches>>
        BY <2>8 DEF Arrivals, NoPoll
      <3>2. QED
        BY <3>1
    <2>9. ASSUME NEW t \in Pollers, Changed(t) PROVE BadgeInv'
      BY <2>9 DEF Changed, NoPoll
    <2>10. CASE UNCHANGED vars
      BY <2>10 DEF vars
    <2>11. QED
      BY <2>1, <2>2, <2>3, <2>4, <2>5, <2>6, <2>7, <2>8, <2>9, <2>10 DEF Next
  <1>3. BadgeInv => BadgeFollows
    BY DEF BadgeInv
  <1>4. QED
    BY TypeInit, TypeStep, <1>1, <1>2, <1>3, PTL DEF Spec
=============================================================================
