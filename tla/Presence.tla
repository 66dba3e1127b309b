------------------------------ MODULE Presence ------------------------------
(***************************************************************************)
(* What the server is told of the running title: the heartbeat thread of   *)
(* client/openpak/session.cpp, PublishPresence and PublishInactive behind  *)
(* State::presence_mutex, FollowProfile's part in it, GoOffline, and the   *)
(* declarations of client/openpak/presence_state.cpp.                      *)
(*                                                                         *)
(* Three kinds of thread speak: the heartbeat, callers of Ensure (a guest, *)
(* the push thread), and the host in GoOffline.  A publish is: the gate,   *)
(* the body, a snapshot of who is signed in, the request, the gate again.  *)
(* A BAAS user is named by its profile.  The app-field blob and the state  *)
(* string are one datum, whether a session is declared open.               *)
(***************************************************************************)
EXTENDS Naturals, Sequences

CONSTANTS
    Profiles,    \* profiles, and the BAAS user of each
    First,       \* the profile the emulator starts with
    Titles,      \* applications a host may run
    None,        \* no application, nobody, nothing published
    Callers,     \* threads that call Ensure
    InvitationEveryNthBeat, \* the beats apart that publish by force (3)
    MaxChanges,  \* bound: launches, exits, declarations, exceptions
    MaxSwitches, \* bound: profile switches
    MaxStarts    \* bound: StartHeartbeat calls

Beat == "heartbeat"
Host == "host"
Threads == Callers \cup {Beat, Host}

ASSUME PresenceAssumption ==
    /\ First \in Profiles
    /\ None \notin Profiles /\ None \notin Titles /\ None \notin Threads
    /\ {Beat, Host} \cap Callers = {}
    /\ InvitationEveryNthBeat \in Nat \ {0}
    /\ {MaxChanges, MaxSwitches, MaxStarts} \subseteq Nat

\* A presence body: INACTIVE, or ONLINE / PLAYING in a title.
Inactive == [title |-> None, open |-> FALSE]
Body     == [title : Titles \cup {None}, open : BOOLEAN]

VARIABLES
    active,    \* Platform::ProfileId()
    profile,   \* State::profile
    user,      \* State::user_id, None when nobody is signed in
    names,     \* State::host_sets_application
    title,     \* what the host runs, and its callback answers
    app,       \* PresenceState::application_id_
    declared,  \* PresenceState::states_
    dirty,     \* State::presence_dirty
    pending,   \* State::signed_in_pending
    running,   \* State::heartbeat_running
    tick,      \* the heartbeat's count of beats, modulo InvitationEveryNthBeat
    work,      \* what is left of the heartbeat's round
    published, \* State::published_presence
    gate,      \* State::presence_mutex: its holder, and the holder's locals
    at,        \* where each thread is
    seen,      \* FollowProfile's copy of the profile id, until the switch
    ensuring,  \* the thread's FollowProfile is Ensure's, a login follows
    shown,     \* server side: the body last accepted for each user
    changes, switches, starts

who    == <<active, profile, user, switches>>
game   == <<names, title, app, declared, changes>>
beat   == <<running, tick, starts>>
flags  == <<dirty, pending>>
frames == <<at, work, seen, ensuring>>
vars   == <<who, game, beat, flags, published, gate, frames, shown>>

Free == [by |-> None, body |-> Inactive, speaker |-> None, sent |-> FALSE]

PCs == {"off", "idle", "wait", "follow", "goodbye", "switch", "login",
        "title", "sync", "publish", "force", "join", "farewell"}

Init ==
    /\ active = First /\ profile = First /\ user \in {First, None}
    /\ names \in BOOLEAN /\ title \in Titles \cup {None}
    /\ app = IF names THEN title ELSE None
    /\ declared = [p \in Profiles |-> Inactive]
    /\ dirty = FALSE /\ pending = (user # None)
    /\ running = FALSE /\ tick = 0 /\ work = <<>>
    /\ published = None /\ gate = Free
    /\ at = [t \in Threads |-> IF t = Beat THEN "off" ELSE "idle"]
    /\ seen = [t \in Threads |-> None]
    /\ ensuring = [t \in Threads |-> FALSE]
    /\ shown = [p \in Profiles |-> None]
    /\ changes = 0 /\ switches = 0 /\ starts = 0

-----------------------------------------------------------------------------
(* PresenceState.                                                          *)

\* ForLocked: a declaration another title left does not carry over.
For(p) == IF declared[p].title = app THEN declared[p] ELSE [title |-> app, open |-> FALSE]

\* Current: INACTIVE without a title.
Current(p) == IF app = None THEN Inactive ELSE For(p)

\* Update, for the running title; the callback raises presence_dirty.
Update(p, open) ==
    /\ app # None /\ changes < MaxChanges
    /\ For(p).open # open
    /\ declared' = [declared EXCEPT ![p] = [title |-> app, open |-> open]]
    /\ changes' = changes + 1
    /\ dirty' = (dirty \/ starts > 0)
    /\ UNCHANGED <<who, names, title, app, beat, pending, published, gate, frames, shown>>

\* A title starts or ends, and the host names it: a change of its own.
SetRunningApplication(x) ==
    /\ names /\ x # title /\ changes < MaxChanges
    /\ title' = x /\ app' = x /\ dirty' = TRUE
    /\ changes' = changes + 1
    /\ UNCHANGED <<who, names, declared, beat, pending, published, gate, frames, shown>>

\* A title starts or ends, and only the callback of StartHeartbeat tells.
TitleChanges(x) ==
    /\ ~names /\ x # title /\ changes < MaxChanges
    /\ title' = x
    /\ changes' = changes + 1
    /\ UNCHANGED <<who, names, app, declared, beat, flags, published, gate, frames, shown>>

SwitchProfile(p) ==
    /\ p # active /\ switches < MaxSwitches
    /\ active' = p /\ switches' = switches + 1
    /\ UNCHANGED <<profile, user, game, beat, flags, published, gate, frames, shown>>

-----------------------------------------------------------------------------
(* PublishPresence and PublishInactive.                                    *)

Publishes(t) == at[t] \in {"publish", "force", "goodbye", "farewell"}

\* The thread goes on: a round of the heartbeat with its next piece, then with
\* the wait; any other call returns.
Rest(t) == IF t # Beat THEN "idle" ELSE IF work = <<>> THEN "wait" ELSE Head(work)
Goes(t, next) ==
    /\ at' = [at EXCEPT ![t] = next]
    /\ UNCHANGED work
Finish(t) ==
    /\ at' = [at EXCEPT ![t] = Rest(t)]
    /\ work' = IF t = Beat /\ work # <<>> THEN Tail(work) ELSE work

\* Nothing new, and nobody insists: nothing is sent.
Skip(t) ==
    /\ at[t] = "publish" /\ gate.by = None
    /\ Current(active) = published
    /\ Finish(t)
    /\ UNCHANGED <<who, game, beat, flags, published, gate, seen, ensuring, shown>>

\* The gate, and the body under it.
Enter(t) ==
    /\ Publishes(t) /\ gate.by = None
    /\ at[t] = "publish" => Current(active) # published
    /\ gate' = [Free EXCEPT !.by = t,
                    !.body = IF at[t] \in {"goodbye", "farewell"} THEN Inactive
                             ELSE Current(active)]
    /\ UNCHANGED <<who, game, beat, flags, published, frames, shown>>

\* SendPresence: who is signed in, under State::mutex.
Speak(t) ==
    /\ gate.by = t /\ ~gate.sent
    /\ user # None
    /\ gate' = [gate EXCEPT !.speaker = user, !.sent = TRUE]
    /\ UNCHANGED <<who, game, beat, flags, published, frames, shown>>

\* The end of either publish: a body the server took is remembered, and
\* INACTIVE clears what was.
Leave(t, taken) ==
    /\ gate' = Free
    /\ published' = IF at[t] \in {"goodbye", "farewell"} THEN None
                    ELSE IF taken THEN gate.body ELSE published
    /\ IF at[t] = "goodbye" THEN Goes(t, "switch") ELSE Finish(t)
    /\ UNCHANGED <<who, game, beat, flags, seen, ensuring>>

Accepted(t) ==
    /\ gate.by = t /\ gate.sent
    /\ shown' = [shown EXCEPT ![gate.speaker] = gate.body]
    /\ Leave(t, TRUE)

\* The server took it and the answer was lost.
AnswerLost(t) ==
    /\ gate.by = t /\ gate.sent
    /\ shown' = [shown EXCEPT ![gate.speaker] = gate.body]
    /\ Leave(t, FALSE)

\* Nobody is signed in, or the request did not land.
NotSent(t) ==
    /\ gate.by = t /\ (gate.sent \/ user = None)
    /\ Leave(t, FALSE)
    /\ UNCHANGED shown

-----------------------------------------------------------------------------
(* FollowProfile and Ensure, of the heartbeat and of the callers.          *)

\* A guest or the push thread calls Ensure.
Call(t) ==
    /\ t \in Callers /\ at[t] = "idle"
    /\ Goes(t, "follow")
    /\ ensuring' = [ensuring EXCEPT ![t] = TRUE]
    /\ UNCHANGED <<who, game, beat, flags, published, gate, seen, shown>>

\* The first look at the profile.
Compare(t) ==
    /\ at[t] = "follow"
    /\ seen' = [seen EXCEPT ![t] = IF active # profile THEN active ELSE None]
    /\ IF active # profile THEN Goes(t, "goodbye")
       ELSE IF ensuring[t] THEN Goes(t, "login") ELSE Finish(t)
    /\ UNCHANGED <<who, game, beat, flags, published, gate, ensuring, shown>>

\* The second look, and the switch.  The heartbeat calls Ensure if it did it.
Switch(t) ==
    /\ at[t] = "switch"
    /\ IF seen[t] = profile
       THEN UNCHANGED <<profile, user>>
       ELSE profile' = seen[t] /\ user' = None
    /\ IF ensuring[t] THEN Goes(t, "login")
       ELSE IF seen[t] # profile THEN Goes(t, "follow") ELSE Finish(t)
    /\ ensuring' = [ensuring EXCEPT ![t] = @ \/ seen[t] # profile]
    /\ seen' = [seen EXCEPT ![t] = None]
    /\ UNCHANGED <<active, switches, game, beat, flags, published, gate, shown>>

\* A fresh token is the whole of Ensure.
StillFresh(t) ==
    /\ at[t] = "login" /\ user # None
    /\ Finish(t)
    /\ ensuring' = [ensuring EXCEPT ![t] = FALSE]
    /\ UNCHANGED <<who, game, beat, flags, published, gate, seen, shown>>

\* The login answered; the heartbeat is told.
Login(t) ==
    /\ at[t] = "login"
    /\ user' = profile /\ pending' = TRUE
    /\ Finish(t)
    /\ ensuring' = [ensuring EXCEPT ![t] = FALSE]
    /\ UNCHANGED <<active, profile, switches, game, beat, dirty, published, gate, seen, shown>>

LoginFails(t) ==
    /\ at[t] = "login"
    /\ Finish(t)
    /\ ensuring' = [ensuring EXCEPT ![t] = FALSE]
    /\ UNCHANGED <<who, game, beat, flags, published, gate, seen, shown>>

-----------------------------------------------------------------------------
(* The heartbeat thread.                                                   *)

StartHeartbeat ==
    /\ ~running /\ at[Beat] = "off" /\ at[Host] = "idle" /\ starts < MaxStarts
    /\ running' = TRUE /\ starts' = starts + 1 /\ tick' = 0
    /\ Goes(Beat, "wait")
    /\ UNCHANGED <<who, game, flags, published, gate, seen, ensuring, shown>>

\* Mutant: no beat publishes what it published last.
RoundUnforced(due) ==
    (IF pending THEN <<"title", "publish", "sync">> ELSE <<>>)
    \o (IF due THEN <<"follow", "title">> \o (IF tick = 0 THEN <<"sync">> ELSE <<>>) \o <<"publish">>
        ELSE IF dirty THEN <<"publish">> ELSE <<>>)

\* What a round does: after a sign-in a forced publish and a sync; on a beat the
\* profile, the title, on some a sync, and a publish, forced on those;
\* else a change.
Round(due) ==
    (IF pending THEN <<"title", "force", "sync">> ELSE <<>>)
    \o (IF due THEN <<"follow", "title">> \o (IF tick = 0 THEN <<"sync", "force">> ELSE <<"publish">>)
        ELSE IF dirty THEN <<"publish">> ELSE <<>>)

\* The wait ends: the beat is due, or there is something to do before it.
Wake(due) ==
    /\ at[Beat] = "wait"
    /\ due \/ ~running \/ dirty \/ pending
    /\ dirty' = FALSE /\ pending' = FALSE
    /\ IF running
       THEN LET round == Round(due)
            IN /\ at' = [at EXCEPT ![Beat] = Head(round)]
               /\ work' = Tail(round)
       ELSE Goes(Beat, "off")
    /\ tick' = IF running /\ due THEN (tick + 1) % InvitationEveryNthBeat ELSE tick
    /\ UNCHANGED <<who, game, running, starts, published, gate, seen, ensuring, shown>>

\* FollowTitle: the callback's title stands in for one the host does not name.
FollowTitle ==
    /\ at[Beat] = "title"
    /\ app' = IF names THEN app ELSE title
    /\ Finish(Beat)
    /\ UNCHANGED <<who, names, title, declared, changes, flags, beat, published, gate, seen,
                   ensuring, shown>>

\* BackgroundSync: without a user it returns; its requests call Ensure first, and
\* the first of them stands for all.
BackgroundSync ==
    /\ at[Beat] = "sync"
    /\ IF user = None THEN Finish(Beat) ELSE Goes(Beat, "follow")
    /\ ensuring' = [ensuring EXCEPT ![Beat] = user # None]
    /\ UNCHANGED <<who, game, beat, flags, published, gate, seen, shown>>

\* The callback, or a hook of the sync, throws: the rest of the round is left out.
Throws ==
    /\ at[Beat] \in {"title", "sync"} /\ changes < MaxChanges
    /\ at' = [at EXCEPT ![Beat] = "wait"] /\ work' = <<>>
    /\ changes' = changes + 1
    /\ UNCHANGED <<who, names, title, app, declared, beat, flags, published, gate, seen, ensuring, shown>>

-----------------------------------------------------------------------------
(* GoOffline.                                                              *)

\* Mutant: the thread is not joined.
GoOfflineUnjoined ==
    /\ at[Host] = "idle" /\ starts > 0
    /\ running' = FALSE
    /\ Goes(Host, "farewell")
    /\ UNCHANGED <<who, game, flags, tick, starts, published, gate, seen, ensuring, shown>>

GoOffline ==
    /\ at[Host] = "idle" /\ starts > 0
    /\ running' = FALSE
    /\ Goes(Host, IF running THEN "join" ELSE "farewell")
    /\ UNCHANGED <<who, game, flags, tick, starts, published, gate, seen, ensuring, shown>>

Join ==
    /\ at[Host] = "join" /\ at[Beat] = "off"
    /\ Goes(Host, "farewell")
    /\ UNCHANGED <<who, game, beat, flags, published, gate, seen, ensuring, shown>>

-----------------------------------------------------------------------------
Publish(t) == Skip(t) \/ Enter(t) \/ Speak(t) \/ Accepted(t) \/ AnswerLost(t) \/ NotSent(t)
Follow(t)  == Compare(t) \/ Switch(t) \/ StillFresh(t) \/ Login(t) \/ LoginFails(t)
Heartbeat  == (\E due \in BOOLEAN : Wake(due)) \/ Throws \/ FollowTitle \/ BackgroundSync

Next ==
    \/ \E p \in Profiles : SwitchProfile(p) \/ \E open \in BOOLEAN : Update(p, open)
    \/ \E x \in Titles \cup {None} : SetRunningApplication(x) \/ TitleChanges(x)
    \/ \E t \in Threads : Publish(t) \/ Follow(t) \/ Call(t)
    \/ StartHeartbeat \/ Heartbeat
    \/ GoOffline \/ Join

Spec == Init /\ [][Next]_vars

\* The clock goes on, so beats come for as long as the heartbeat runs; every
\* request has a 20 s timeout; and a server that keeps being told answers now and
\* then.
FairSpec ==
    /\ Spec
    /\ SF_vars(Wake(TRUE)) /\ WF_vars(Heartbeat) /\ SF_vars(Accepted(Beat))
    /\ \A t \in Threads : WF_vars(Publish(t) \/ Follow(t))

-----------------------------------------------------------------------------
\* The type invariant; a request on its way speaks for somebody (SendPresence's
\* test of user_id).
TypeOK ==
    /\ active \in Profiles /\ profile \in Profiles /\ user \in Profiles \cup {None}
    /\ names \in BOOLEAN /\ {title, app} \subseteq Titles \cup {None}
    /\ declared \in [Profiles -> Body]
    /\ {dirty, pending, running} \subseteq BOOLEAN
    /\ tick \in 0..(InvitationEveryNthBeat - 1) /\ work \in Seq(PCs)
    /\ published \in Body \cup {None}
    /\ gate \in [by : Threads \cup {None}, body : Body,
                 speaker : Profiles \cup {None}, sent : BOOLEAN]
    /\ gate.sent => gate.speaker # None
    /\ at \in [Threads -> PCs] /\ seen \in [Threads -> Profiles \cup {None}]
    /\ ensuring \in [Threads -> BOOLEAN]
    /\ shown \in [Profiles -> Body \cup {None}]
    /\ changes \in 0..MaxChanges /\ switches \in 0..MaxSwitches
    /\ starts \in 0..MaxStarts

\* Once GoOffline has said goodbye nothing takes it back: the beat it stopped
\* is over, and later sign-ins and switches say nothing but INACTIVE.
Gone == ~running /\ at[Host] = "idle"
GoneStaysGone ==
    [][Gone /\ Gone' => \A p \in Profiles : shown'[p] \in {shown[p], Inactive}]_vars

\* What the signed-in profile's friends see is what its title declares, whatever
\* requests and answers were lost on the way, once it stays.
Settles ==
    <>[](user = active /\ running) => <>[](app = title /\ shown[active] = Current(active))
=============================================================================
