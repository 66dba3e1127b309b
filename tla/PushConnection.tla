--------------------------- MODULE PushConnection ---------------------------
(***************************************************************************)
(* The push connection of client/openpak/push.cpp: the thread that holds   *)
(* one frontline connection for whoever is signed in, the registration and *)
(* ticket it opens it with, and Start, Stop, Drop and ForgetProfile.       *)
(*                                                                         *)
(* The session is seen through what push.cpp asks of it: the active        *)
(* profile (Platform::ProfileId), the signed-in user (session::UserId) and *)
(* SendAs, whose bearer is the user's who is signed in when it is sent.    *)
(* A BAAS user is named by its profile.  What a delivery sets off is the   *)
(* business of module PushRefresh.                                         *)
(***************************************************************************)
EXTENDS Naturals, FiniteSets

CONSTANTS
    Profiles,      \* profiles, and the BAAS user of each
    None,          \* nobody, or nothing
    BearerChecked, \* the server refuses a registration that is not the bearer's
    MaxMinted,     \* bound: registrations the server makes
    MaxRevoked,    \* bound: registrations it stops honouring
    MaxSwitches,   \* bound: profile switches
    MaxStarts      \* bound: Start calls

Registration == [owner : Profiles, serial : 1..MaxMinted]

ASSUME PushConnectionAssumption ==
    /\ None \notin Profiles /\ None \notin Registration
    /\ BearerChecked \in BOOLEAN
    /\ {MaxMinted, MaxRevoked, MaxSwitches, MaxStarts} \subseteq Nat

VARIABLES
    active,   \* Platform::ProfileId()
    profile,  \* session State::profile
    user,     \* session::UserId(), None when nobody is signed in
    running,  \* State::running
    forget,   \* State::forget
    live,     \* State::live is set
    cut,      \* the open request was stopped from another thread
    reg,      \* State::registration
    ticket,   \* State::ticket, by the registration it was issued for
    aged,     \* the ticket is within an hour of its expiry
    files,    \* the registration file of each profile
    pc,       \* where the connection thread is
    uid,      \* its user_id
    ask,      \* what the SendAs under way asks for: "register" or "login"
    bearer,   \* the user whose token it speaks with
    fresh,    \* Register's registration before it is kept
    stopping, \* Stop: "no", "cutting", "joining"
    minted, revoked, \* server side
    refused,  \* history: registrations val answered 401 or 403 to
    switches, starts

session == <<active, profile, user, switches>>
thread  == <<pc, uid, ask, bearer, fresh>>
locals  == <<uid, ask, bearer, fresh>>
held    == <<reg, ticket, aged, files>>
control == <<running, stopping, starts>>
penne   == <<minted, revoked>>
vars    == <<session, thread, held, control, penne, forget, live, cut, refused>>

PCs == {"off", "loop", "user", "load", "ticket", "ensure", "token", "register",
        "write", "login", "remove", "open", "send", "connected", "unauthorized",
        "close", "check", "block", "wait"}

Init ==
    /\ active \in Profiles /\ profile = active /\ user = None
    /\ running = FALSE /\ forget = FALSE /\ live = FALSE /\ cut = FALSE
    /\ reg = None /\ ticket = None /\ aged = FALSE
    /\ files = [p \in Profiles |-> None]
    /\ pc = "off" /\ uid = None /\ ask = "login" /\ bearer = None /\ fresh = None /\ stopping = "no"
    /\ minted = 0 /\ revoked = {} /\ refused = {}
    /\ switches = 0 /\ starts = 0

-----------------------------------------------------------------------------
(* The host, the session and the server.                                   *)

SwitchProfile(p) ==
    /\ p # active /\ switches < MaxSwitches
    /\ active' = p /\ switches' = switches + 1
    /\ UNCHANGED <<profile, user, thread, held, control, penne, forget, live, cut, refused>>

\* live->stop(): it ends a request under way; one whose socket is not open yet
\* goes on as if nothing had been said.
StopLive ==
    CASE live /\ pc = "connected" -> cut' = TRUE
      [] live /\ pc = "send"      -> cut' \in {cut, TRUE}
      [] OTHER                    -> UNCHANGED cut

\* Mutant: Drop only ends the request.
DropKeeps == StopLive /\ UNCHANGED forget

Drop == forget' = TRUE /\ StopLive

\* Session: the switch, under session State::mutex, with its call of Drop.
FollowProfile ==
    /\ profile # active
    /\ profile' = active /\ user' = None
    /\ Drop
    /\ UNCHANGED <<active, switches, thread, held, control, penne, live, refused>>

\* Session: a login answered.
Login ==
    /\ user = None
    /\ user' = profile
    /\ UNCHANGED <<active, profile, switches, thread, held, control, penne,
                   forget, live, cut, refused>>

\* A profile is deleted, its registration with it.
ForgetProfile(p) ==
    /\ p # active /\ files[p] # None
    /\ files' = [files EXCEPT ![p] = None]
    /\ UNCHANGED <<session, thread, reg, ticket, aged, control, penne, forget, live, cut, refused>>

\* The server stops honouring a registration and the tickets issued for it.
Revoke(r) ==
    /\ r.serial <= minted /\ r \notin revoked /\ Cardinality(revoked) < MaxRevoked
    /\ \/ r \in {reg, ticket}
       \/ \E p \in Profiles : files[p] = r
    /\ revoked' = revoked \cup {r}
    /\ UNCHANGED <<session, thread, held, control, minted, forget, live, cut, refused>>

\* Now() > ticket_expiry - 3600.
Age ==
    /\ ticket # None /\ ~aged
    /\ aged' = TRUE
    /\ UNCHANGED <<session, thread, reg, ticket, files, control, penne, forget, live, cut, refused>>

-----------------------------------------------------------------------------
(* Start and Stop.                                                         *)

Start ==
    /\ ~running /\ stopping = "no" /\ starts < MaxStarts
    /\ running' = TRUE /\ starts' = starts + 1
    /\ pc' = "loop"
    /\ UNCHANGED <<session, locals, held, stopping, penne, forget, live, cut, refused>>

\* running.exchange(false) and the notification, which only a thread that is
\* blocked in its wait hears.
Stop ==
    /\ running /\ stopping = "no"
    /\ running' = FALSE /\ stopping' = "cutting"
    /\ pc' = IF pc = "wait" THEN "loop" ELSE pc
    /\ UNCHANGED <<session, locals, held, starts, penne, forget, live, cut, refused>>

StopCuts ==
    /\ stopping = "cutting"
    /\ stopping' = "joining"
    /\ StopLive
    /\ UNCHANGED <<session, thread, held, running, starts, penne, forget, live, refused>>

StopJoins ==
    /\ stopping = "joining" /\ pc = "off"
    /\ stopping' = "no"
    /\ UNCHANGED <<session, thread, held, running, starts, penne, forget, live, cut, refused>>

-----------------------------------------------------------------------------
(* The connection thread.                                                  *)

\* Mutant: the ticket for the old registration is kept.
LoopKeepsTicket ==
    /\ pc = "loop"
    /\ IF ~running
       THEN pc' = "off" /\ UNCHANGED <<reg, forget>>
       ELSE /\ pc' = "user" /\ forget' = FALSE
            /\ reg' = IF forget THEN None ELSE reg
    /\ UNCHANGED <<session, locals, ticket, aged, files, control, penne, live, cut, refused>>

\* The top of the loop: what Drop said to forget is forgotten.
Loop ==
    /\ pc = "loop"
    /\ IF ~running
       THEN pc' = "off" /\ UNCHANGED <<reg, ticket, aged, forget>>
       ELSE /\ pc' = "user" /\ forget' = FALSE
            /\ IF forget
               THEN reg' = None /\ ticket' = None /\ aged' = FALSE
               ELSE UNCHANGED <<reg, ticket, aged>>
    /\ UNCHANGED <<session, locals, files, control, penne, live, cut, refused>>

ReadUser ==
    /\ pc = "user"
    /\ uid' = user
    /\ pc' = IF user = None THEN "check" ELSE "load"
    /\ UNCHANGED <<session, ask, bearer, fresh, held, control, penne, forget, live, cut, refused>>

\* Hold: the registration in memory, else the active profile's file.
LoadRegistration ==
    /\ pc = "load"
    /\ reg' = IF reg = None THEN files[active] ELSE reg
    /\ pc' = IF reg' = None THEN "ensure" ELSE "ticket"
    /\ ask' = "register"
    /\ UNCHANGED <<session, uid, bearer, fresh, ticket, aged, files, control, penne,
                   forget, live, cut, refused>>

\* Hold: a ticket that will do for an hour, or LoginTicket.
NeedsTicket == ticket = None \/ aged
NextTicket ==
    /\ pc = "ticket"
    /\ pc' = IF NeedsTicket THEN "ensure" ELSE "open"
    /\ ask' = "login"
    /\ UNCHANGED <<session, uid, bearer, fresh, held, control, penne, forget, live, cut, refused>>

\* SendAs: Ensure on this thread, which follows the profile and may sign it in.
Ensure ==
    /\ pc = "ensure"
    /\ profile' = active
    /\ IF profile # active
       THEN user' \in {None, active} /\ Drop
       ELSE user' \in {user, profile} /\ UNCHANGED <<forget, cut>>
    /\ pc' = "token"
    /\ UNCHANGED <<active, switches, locals, held, control, penne, live, refused>>

\* SendAs: the bearer of whoever is signed in by now; nobody is no request.
TakeToken ==
    /\ pc = "token"
    /\ bearer' = user
    /\ pc' = IF user = None THEN "check" ELSE ask
    /\ UNCHANGED <<session, uid, ask, fresh, held, control, penne, forget, live, cut, refused>>

\* Register: the server makes a registration for the bearer.
Register ==
    /\ pc = "register" /\ minted < MaxMinted
    /\ minted' = minted + 1
    /\ fresh' = [owner |-> bearer, serial |-> minted']
    /\ pc' = "write"
    /\ UNCHANGED <<session, uid, ask, bearer, held, control, revoked, forget, live, cut, refused>>

\* The file of the profile that is active by now; a failed write is ignored.
WriteRegistration ==
    /\ pc = "write"
    /\ files' \in {files, [files EXCEPT ![active] = fresh]}
    /\ reg' = fresh /\ fresh' = None
    /\ pc' = "ticket"
    /\ UNCHANGED <<session, uid, ask, bearer, ticket, aged, control, penne,
                   forget, live, cut, refused>>

Honoured == reg \notin revoked /\ (BearerChecked => reg.owner = bearer)

\* Mutant: the bearer is taken for the ticket.
LoginTicketBearer ==
    /\ pc = "login" /\ Honoured
    /\ ticket' = bearer /\ aged' = FALSE
    /\ pc' = "open"
    /\ UNCHANGED <<session, locals, reg, files, control, penne, forget, live, cut, refused>>

\* LoginTicket: 200, a ticket for the registration.
LoginTicket ==
    /\ pc = "login" /\ Honoured
    /\ ticket' = reg /\ aged' = FALSE
    /\ pc' = "open"
    /\ UNCHANGED <<session, locals, reg, files, control, penne, forget, live, cut, refused>>

\* LoginTicket: 401 or 403, "a registration the server no longer honours".
TicketRefused ==
    /\ pc = "login" /\ ~Honoured
    /\ refused' = refused \cup {reg}
    /\ pc' = "remove"
    /\ UNCHANGED <<session, locals, held, control, penne, forget, live, cut>>

\* Mutant: the refused registration stays on disk.
RemoveReset ==
    /\ pc = "remove"
    /\ reg' = None
    /\ pc' = "check"
    /\ UNCHANGED <<session, locals, ticket, aged, files, control, penne,
                   forget, live, cut, refused>>

\* Its file, which is the active profile's by now, and its copy in memory go.
RemoveRegistration ==
    /\ pc = "remove"
    /\ files' = [files EXCEPT ![active] = None]
    /\ reg' = None
    /\ pc' = "check"
    /\ UNCHANGED <<session, locals, ticket, aged, control, penne,
                   forget, live, cut, refused>>

\* No answer, or no answer that will do, to Register or LoginTicket.
RequestFails ==
    /\ pc \in {"register", "login"}
    /\ pc' = "check"
    /\ UNCHANGED <<session, locals, held, control, penne, forget, live, cut, refused>>

Open ==
    /\ pc = "open"
    /\ live' = TRUE /\ cut' = FALSE
    /\ pc' = "send"
    /\ UNCHANGED <<session, locals, held, control, penne, forget, refused>>

\* The receiver's first question: is this still the user it was opened for?
Accepts == running /\ user = uid

\* The handover: the connection is open.
Handover ==
    /\ pc = "send" /\ ~cut /\ ticket \notin revoked
    /\ pc' = IF Accepts THEN "connected" ELSE "close"
    /\ UNCHANGED <<session, locals, held, control, penne, forget, live, cut, refused>>

\* Anything arrives on the open connection for a user who is not signed in now.
\* (A delivery that is accepted changes nothing here.)
Receive ==
    /\ pc = "connected" /\ ~Accepts
    /\ pc' = "close"
    /\ UNCHANGED <<session, locals, held, control, penne, forget, live, cut, refused>>

Unauthorized ==
    /\ pc = "send" /\ ticket \in revoked
    /\ pc' = "unauthorized"
    /\ UNCHANGED <<session, locals, held, control, penne, forget, live, cut, refused>>

\* No connection, a reset, 300 s of silence, or a stop from another thread.
Ends ==
    /\ pc \in {"send", "connected"}
    /\ pc' = "close"
    /\ UNCHANGED <<session, locals, held, control, penne, forget, live, cut, refused>>

\* The end of Hold.
Close ==
    /\ pc \in {"close", "unauthorized"}
    /\ live' = FALSE /\ cut' = FALSE
    /\ IF pc = "unauthorized"
       THEN ticket' = None /\ aged' = FALSE
       ELSE UNCHANGED <<ticket, aged>>
    /\ pc' = "check"
    /\ UNCHANGED <<session, locals, reg, files, control, penne, forget, refused>>

\* wait_for looks at its predicate, then blocks, then times out.
Check ==
    /\ pc = "check"
    /\ pc' = IF running THEN "block" ELSE "loop"
    /\ UNCHANGED <<session, locals, held, control, penne, forget, live, cut, refused>>

Block ==
    /\ pc = "block"
    /\ pc' = "wait"
    /\ UNCHANGED <<session, locals, held, control, penne, forget, live, cut, refused>>

\* Mutant: the thread waits for the notification alone.
WaitForever ==
    /\ pc = "wait" /\ running
    /\ pc' = "loop"
    /\ UNCHANGED <<session, locals, held, control, penne, forget, live, cut, refused>>

BackoffElapses ==
    /\ pc = "wait"
    /\ pc' = "loop"
    /\ UNCHANGED <<session, locals, held, control, penne, forget, live, cut, refused>>

Thread ==
    \/ Loop \/ ReadUser \/ LoadRegistration \/ NextTicket \/ Ensure \/ TakeToken
    \/ Register \/ WriteRegistration
    \/ LoginTicket \/ TicketRefused \/ RemoveRegistration \/ RequestFails
    \/ Open \/ Handover \/ Receive \/ Unauthorized \/ Ends \/ Close
    \/ Check \/ Block \/ BackoffElapses

Stopper == StopCuts \/ StopJoins

Next ==
    \/ \E p \in Profiles : SwitchProfile(p) \/ ForgetProfile(p)
    \/ FollowProfile \/ Login
    \/ \E r \in Registration : Revoke(r)
    \/ Age
    \/ Start \/ Stop \/ Stopper
    \/ Thread

Spec == Init /\ [][Next]_vars

\* The steps of the thread that something forces: not the end of an open
\* connection that is accepted and was not cut.  Its read timeout is per read, so a
\* connection that keeps receiving is held for as long as it does.
Forced == (pc = "connected" => cut \/ ~Accepts) /\ Thread

\* A request has its timeout (20 s, 300 s until the handover) and the wait its
\* backoff, and a stop, or a user who is not the connection's, ends the connection
\* at the latest after 300 s of silence; a server that keeps being asked answers now
\* and then.
FairSpec ==
    /\ Spec
    /\ WF_vars(Forced) /\ WF_vars(Stopper)
    /\ SF_vars(Register) /\ SF_vars(LoginTicket) /\ SF_vars(TicketRefused)
    /\ SF_vars(Handover) /\ SF_vars(Unauthorized)

-----------------------------------------------------------------------------
\* The type invariant of the connection thread, the session it asks and the server.
TypeOK ==
    /\ active \in Profiles /\ profile \in Profiles /\ user \in Profiles \cup {None}
    /\ {running, forget, live, cut, aged} \subseteq BOOLEAN
    /\ {reg, ticket, fresh} \subseteq Registration \cup {None}
    /\ files \in [Profiles -> Registration \cup {None}]
    /\ pc \in PCs /\ {uid, bearer} \subseteq Profiles \cup {None}
    /\ ask \in {"register", "login"}
    /\ stopping \in {"no", "cutting", "joining"}
    /\ minted \in 0..MaxMinted /\ switches \in 0..MaxSwitches /\ starts \in 0..MaxStarts
    /\ revoked \subseteq Registration /\ refused \subseteq Registration

\* "one to replace, not to retry": until a profile switch makes the removed file
\* another profile's, a registration val refused is never the one a ticket is
\* asked for again (LoginTicket).
RefusedNotRetried == switches = 0 /\ pc = "login" => reg \notin refused

\* Connected as the user who is signed in, with that user's own ticket.
ConnectedAs(p) == pc = "connected" /\ uid = p /\ ticket.owner = p

\* "the connection speaking for the old one ends now" (Drop): what the thread takes
\* for the signed-in user's connection has that user's ticket.
SpeaksForUser == pc = "connected" /\ ~cut /\ Accepts => ticket.owner = user

\* Where the server checks a registration against the bearer, a connection that
\* speaks for another user is only one opened after Drop had told the thread to
\* forget: nothing of the last user outlives the next look at forget.
StrayIsForgotten == BearerChecked => SpeaksForUser \/ forget

\* Whatever switches, revocations, aged tickets and failures came before, a
\* profile that stays signed in gets its own connection, and again after each end
\* of it.  The exception is a stray connection as above that never falls silent:
\* nothing but its own end makes the thread look at forget.
Reconnects == \A p \in Profiles :
    <>[](active = p /\ user = p /\ running) =>
        []<>ConnectedAs(p) \/ <>[](forget /\ ~SpeaksForUser)

\* Stop returns wherever the thread is, also when its notification is lost.
StopReturns == stopping # "no" ~> stopping = "no"
=============================================================================
