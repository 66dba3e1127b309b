---------------------------- MODULE Invitations ----------------------------
(***************************************************************************)
(* The native invitation inbox of client/openpak/session.cpp: the list the *)
(* session keeps, the polls that replace it, dismissals, and the two hooks *)
(* a host registers.                                                       *)
(*                                                                         *)
(* RefreshInvitations is called by the heartbeat (every third beat), by    *)
(* the friends module's worker (a pushed delivery) and by the host's       *)
(* pages, so polls overlap.  A poll is a locked snapshot, a request, a     *)
(* locked replacement, and the hooks, which run outside every lock.        *)
(***************************************************************************)
EXTENDS Naturals, FiniteSets

CONSTANTS
    Users,       \* BAAS users, one per profile
    NoUser,      \* nobody is signed in
    Ids,         \* invitation ids, unique on the server
    Pollers,     \* threads that call RefreshInvitations
    MaxSwitches, \* bound: profile switches
    MaxOwed      \* bound: DismissInvitation calls in flight

CONSTANT Receiver   \* the user each invitation was sent to

ASSUME InvitationsAssumption ==
    /\ NoUser \notin Users /\ IsFiniteSet(Ids)
    /\ Receiver \in [Ids -> Users]
    /\ MaxSwitches \in Nat /\ MaxOwed \in Nat

VARIABLES
    user,        \* State::user_id
    invitations, \* State::invitations, by id
    dismissed,   \* State::dismissed
    mail,        \* server side: each id is "unsent", "waiting" or "gone"
    poll,        \* each poller's progress and local variables
    owed,        \* DismissInvitation calls that have yet to raise the count hook
    announced,   \* the ids on_arrival has been called for
    told,        \* the count the host read when on_invitations_changed last ran
    switches

vars == <<user, invitations, dismissed, mail, poll, owed, announced, told, switches>>

\* A poll's locals: the snapshot (user, dismissed, previous) and the answer.
Poll == [pc : {"idle", "fetch", "install", "arrivals", "changed"},
         user : Users \cup {NoUser}, dismissed : SUBSET Ids, previous : SUBSET Ids,
         waiting : SUBSET Ids, arrived : SUBSET Ids, changed : BOOLEAN]
NoPoll == [pc |-> "idle", user |-> NoUser, dismissed |-> {}, previous |-> {},
           waiting |-> {}, arrived |-> {}, changed |-> FALSE]

Init ==
    /\ user \in Users /\ invitations = {} /\ dismissed = {}
    /\ mail = [i \in Ids |-> "unsent"]
    /\ poll = [t \in Pollers |-> NoPoll]
    /\ owed = 0 /\ told = 0 /\ switches = 0
    /\ announced = {}

-----------------------------------------------------------------------------
(* The server.                                                             *)

Arrive(i) ==
    /\ mail[i] = "unsent"
    /\ mail' = [mail EXCEPT ![i] = "waiting"]
    /\ UNCHANGED <<user, invitations, dismissed, poll, owed, announced, told, switches>>

\* Invitations are kept for a day and pruned.
Prune(i) ==
    /\ mail[i] = "waiting"
    /\ mail' = [mail EXCEPT ![i] = "gone"]
    /\ UNCHANGED <<user, invitations, dismissed, poll, owed, announced, told, switches>>

-----------------------------------------------------------------------------
(* FollowProfile and the login, as far as the inbox goes.                  *)

\* The switch clears the list and the dismissals; it raises no hook.
FollowProfile ==
    /\ switches < MaxSwitches
    /\ switches' = switches + 1
    /\ user' = NoUser /\ invitations' = {} /\ dismissed' = {}
    /\ UNCHANGED <<mail, poll, owed, announced, told>>

Login(u) ==
    /\ user = NoUser
    /\ user' = u
    /\ UNCHANGED <<invitations, dismissed, mail, poll, owed, announced, told, switches>>

-----------------------------------------------------------------------------
(* RefreshInvitations.                                                     *)

\* The snapshot under the lock; without a user there is nothing to ask with.
Snapshot(t) ==
    /\ poll[t].pc = "idle" /\ user # NoUser
    /\ poll' = [poll EXCEPT ![t] =
                   [NoPoll EXCEPT !.pc = "fetch", !.user = user,
                                  !.dismissed = dismissed, !.previous = invitations]]
    /\ UNCHANGED <<user, invitations, dismissed, mail, owed, announced, told, switches>>

\* Mutant: what was dismissed is not left out of the answer.
WaitingAll(p) == {i \in Ids : mail[i] = "waiting" /\ Receiver[i] = p.user}

\* The inbox as the loop keeps it: dismissals known at the snapshot left out.
Waiting(p) ==
    {i \in Ids : mail[i] = "waiting" /\ Receiver[i] = p.user} \ p.dismissed

\* Mutant: only what is not in the list by now counts as arrived.
FetchComparesLate(t) ==
    /\ poll[t].pc = "fetch"
    /\ poll' = [poll EXCEPT ![t] =
                   [NoPoll EXCEPT !.pc = "install", !.waiting = Waiting(poll[t]),
                                  !.arrived = Waiting(poll[t]) \ (poll[t].previous \cup dismissed)]]
    /\ UNCHANGED <<user, invitations, dismissed, mail, owed, announced, told, switches>>

\* The answer, with the senders' names looked up.
Fetch(t) ==
    /\ poll[t].pc = "fetch"
    /\ poll' = [poll EXCEPT ![t] =
                   [NoPoll EXCEPT !.pc = "install", !.waiting = Waiting(poll[t]),
                                  !.arrived = Waiting(poll[t]) \ poll[t].previous]]
    /\ UNCHANGED <<user, invitations, dismissed, mail, owed, announced, told, switches>>

\* No answer, or one without items: false, and nothing changes.
FetchFails(t) ==
    /\ poll[t].pc = "fetch"
    /\ poll' = [poll EXCEPT ![t] = NoPoll]
    /\ UNCHANGED <<user, invitations, dismissed, mail, owed, announced, told, switches>>

\* Mutant: the count hook is only for arrivals.
InstallCountsArrivals(t) ==
    /\ poll[t].pc = "install"
    /\ invitations' = poll[t].waiting
    /\ poll' = [poll EXCEPT ![t] =
                   [NoPoll EXCEPT !.pc = "arrivals", !.arrived = poll[t].arrived,
                                  !.changed = (poll[t].arrived # {})]]
    /\ UNCHANGED <<user, dismissed, mail, owed, announced, told, switches>>

\* Mutant: a poll only takes entries away.
InstallPrunes(t) ==
    /\ poll[t].pc = "install"
    /\ invitations' = invitations \cap poll[t].waiting
    /\ poll' = [poll EXCEPT ![t] = NoPoll]
    /\ UNCHANGED <<user, dismissed, mail, owed, announced, told, switches>>

\* The list is replaced under the lock.
Install(t) ==
    /\ poll[t].pc = "install"
    /\ invitations' = poll[t].waiting
    /\ poll' = [poll EXCEPT ![t] =
                   [NoPoll EXCEPT !.pc = "arrivals", !.arrived = poll[t].arrived,
                       !.changed = \/ Cardinality(invitations) # Cardinality(poll[t].waiting)
                                   \/ poll[t].arrived # {}]]
    /\ UNCHANGED <<user, dismissed, mail, owed, announced, told, switches>>

\* on_arrival, once for each.
Arrivals(t) ==
    /\ poll[t].pc = "arrivals"
    /\ announced' = announced \cup poll[t].arrived
    /\ poll' = [poll EXCEPT ![t] = [NoPoll EXCEPT
                    !.pc = IF poll[t].changed THEN "changed" ELSE "idle"]]
    /\ UNCHANGED <<user, invitations, dismissed, mail, owed, told, switches>>

\* InvitationsChanged: the host reads the count.
Changed(t) ==
    /\ poll[t].pc = "changed"
    /\ told' = Cardinality(invitations)
    /\ poll' = [poll EXCEPT ![t] = NoPoll]
    /\ UNCHANGED <<user, invitations, dismissed, mail, owed, announced, switches>>

-----------------------------------------------------------------------------
(* DismissInvitation, by the person or by PollInvitations for the guest:   *)
(* the locked part, then the hook; the request that marks the invitation   *)
(* read changes nothing a poll looks at.  One that a poll brought back can *)
(* be dismissed again.                                                     *)

DismissInvitation(i) ==
    /\ mail[i] # "unsent"
    /\ i \in invitations \/ i \notin dismissed
    /\ i \in invitations => owed < MaxOwed
    /\ dismissed' = dismissed \cup {i}
    /\ invitations' = invitations \ {i}
    /\ owed' = IF i \in invitations THEN owed + 1 ELSE owed
    /\ UNCHANGED <<user, mail, poll, announced, told, switches>>

\* Mutant: the hook is raised for an id that was not in the list.
DismissChangedAlways ==
    /\ owed' = owed - 1
    /\ told' = Cardinality(invitations)
    /\ UNCHANGED <<user, invitations, dismissed, mail, poll, announced, switches>>

DismissChanged ==
    /\ owed > 0
    /\ owed' = owed - 1
    /\ told' = Cardinality(invitations)
    /\ UNCHANGED <<user, invitations, dismissed, mail, poll, announced, switches>>

-----------------------------------------------------------------------------
Next ==
    \/ \E i \in Ids : Arrive(i) \/ Prune(i) \/ DismissInvitation(i)
    \/ FollowProfile \/ DismissChanged
    \/ \E u \in Users : Login(u)
    \/ \E t \in Pollers :
          \/ Snapshot(t) \/ Fetch(t) \/ FetchFails(t)
          \/ Install(t) \/ Arrivals(t) \/ Changed(t)

Spec == Init /\ [][Next]_vars

\* The heartbeat polls for as long as the process lives, a request has a 20 s
\* timeout, and a server that keeps being asked answers now and then.
FairSpec ==
    /\ Spec
    /\ \A t \in Pollers :
          /\ WF_vars(Snapshot(t)) /\ SF_vars(Fetch(t))
          /\ WF_vars(Install(t) \/ Arrivals(t) \/ Changed(t))

-----------------------------------------------------------------------------
\* The type invariant of the inbox, its polls and the host's hooks.
TypeOK ==
    /\ user \in Users \cup {NoUser}
    /\ invitations \subseteq Ids /\ dismissed \subseteq Ids
    /\ mail \in [Ids -> {"unsent", "waiting", "gone"}]
    /\ poll \in [Pollers -> Poll]
    /\ owed \in 0..MaxOwed
    /\ announced \subseteq Ids
    /\ told \in 0..Cardinality(Ids)
    /\ switches \in 0..MaxSwitches

Announced(i) == i \in announced \/ \E t \in Pollers : i \in poll[t].arrived

\* No invitation is shown without being announced: whatever polls overlap, an
\* id in the list has had its on_arrival call or a poll is about to make it.
NoneUnannounced == \A i \in invitations : Announced(i)

\* The host's count is the list's, or a count hook is still to come: no
\* overlap of polls and dismissals ends with a wrong badge.  (A profile switch
\* does: FollowProfile empties the list and raises no hook.)
BadgeFollows == switches = 0 =>
    \/ told = Cardinality(invitations)
    \/ owed > 0
    \/ \E t \in Pollers : poll[t].changed \/ poll[t].pc = "changed"

\* Its inductive strengthening: only a poll between the replacement of the list
\* and its hooks has a count to tell.
BadgeInv ==
    /\ BadgeFollows
    /\ \A t \in Pollers : poll[t].changed => poll[t].pc = "arrivals"

\* An invitation that stays in the signed-in user's inbox gets into the list.
Shown == \A i \in Ids :
    LET due == mail[i] = "waiting" /\ Receiver[i] = user /\ i \notin dismissed
    IN  due ~> (i \in invitations \/ ~due)

\* A list that a poll under way at a dismissal or a switch brought back is put
\* right while somebody is signed in.
Heals == \A i \in Ids :
    LET wrong == /\ i \in invitations /\ user # NoUser
                 /\ i \in dismissed \/ Receiver[i] # user
    IN  wrong ~> ~wrong

\* The inductive strengthening of NoneUnannounced: what a poll remembers or is
\* about to install is announced too, and only the two steps between answer
\* and hooks have arrivals in hand.
AnnounceInv ==
    /\ NoneUnannounced
    /\ \A t \in Pollers :
          /\ \A i \in poll[t].previous \cup poll[t].waiting : Announced(i)
          /\ poll[t].pc \notin {"install", "arrivals"} => poll[t].arrived = {}
=============================================================================
