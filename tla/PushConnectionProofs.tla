------------------------ MODULE PushConnectionProofs ------------------------
(***************************************************************************)
(* The types of the push connection, that a registration the server        *)
(* refused is replaced and not retried, and that a connection of another   *)
(* user is one the thread was told to forget: for any profiles, and any    *)
(* number of registrations, revocations, starts and stops.                 *)
(***************************************************************************)
EXTENDS PushConnection, TLAPS

\* A request for a ticket has the registration it asks with, one to register has a
\* bearer, one to write has what to write; and Start starts the thread that has ended.
InHand ==
    /\ pc \in {"ticket", "login"} \/ (pc \in {"ensure", "token"} /\ ask = "login") => reg # None
    /\ pc = "register" => bearer # None
    /\ pc = "write" => fresh # None
    /\ ~running /\ stopping = "no" => pc = "off"

\* Every registration was made by the server.
MadeByServer ==
    /\ reg # None => reg.serial <= minted
    /\ \A p \in Profiles : files[p] # None => files[p].serial <= minted
    /\ fresh # None => fresh.serial <= minted
    /\ \A r \in refused : r.serial <= minted

\* Before the first switch there is one file, and what was refused is nowhere but where
\* LoginTicket is about to remove it.
RefusedIsGone ==
    switches = 0 =>
        /\ \A p \in Profiles \ {active} : files[p] = None
        /\ pc # "remove" => reg \notin refused /\ files[active] \notin refused
        /\ pc = "write" => fresh \notin refused

Inductive == TypeOK /\ InHand /\ MadeByServer /\ RefusedIsGone

\* The parts of TypeOK that are stated of several variables at once, one by one.
Parts ==
    /\ running \in BOOLEAN /\ forget \in BOOLEAN /\ live \in BOOLEAN
    /\ cut \in BOOLEAN /\ aged \in BOOLEAN
    /\ reg \in Registration \cup {None} /\ ticket \in Registration \cup {None}
    /\ fresh \in Registration \cup {None}
    /\ uid \in Profiles \cup {None} /\ bearer \in Profiles \cup {None}

\* They follow from it.
LEMMA TypeParts == TypeOK => Parts
  BY DEF TypeOK, Parts

\* Stopping the open request sets its flag to one of the two.
LEMMA StopLiveType == Parts /\ StopLive => cut' \in BOOLEAN
  BY DEF Parts, StopLive

\* The initial states satisfy the inductive invariant.
LEMMA InitInductive == Init => Inductive
  <1> SUFFICES ASSUME Init PROVE Inductive
    OBVIOUS
  <1>1. TypeOK
    <2>1. Parts
      BY DEF Init, Parts
    <2>2. QED
      BY <2>1, PushConnectionAssumption DEF Init, TypeOK, PCs, Parts
  <1>2. InHand /\ MadeByServer /\ RefusedIsGone
    BY PushConnectionAssumption DEF Init, InHand, MadeByServer, RefusedIsGone
  <1>3. QED
    BY <1>1, <1>2 DEF Inductive

\* Every step keeps the types.
LEMMA TypeStep == Inductive /\ [Next]_vars => TypeOK'
  <1> SUFFICES ASSUME Inductive, [Next]_vars PROVE TypeOK'
    OBVIOUS
  <1>0. TypeOK /\ InHand /\ Parts
    BY TypeParts DEF Inductive
  <1>a. /\ active \in Profiles /\ profile \in Profiles /\ user \in Profiles \cup {None}
        /\ files \in [Profiles -> Registration \cup {None}] /\ pc \in PCs
        /\ ask \in {"register", "login"} /\ stopping \in {"no", "cutting", "joining"}
        /\ minted \in 0..MaxMinted /\ switches \in 0..MaxSwitches /\ starts \in 0..MaxStarts
        /\ revoked \subseteq Registration /\ refused \subseteq Registration
        /\ MaxMinted \in Nat /\ MaxSwitches \in Nat /\ MaxStarts \in Nat
    BY <1>0, PushConnectionAssumption DEF TypeOK
  <1> USE DEF session, thread, locals, held, control, penne, PCs
  <1>1. ASSUME NEW p \in Profiles, SwitchProfile(p) PROVE TypeOK'
    BY <1>0, <1>1, <1>a DEF SwitchProfile, TypeOK
  <1>2. ASSUME NEW p \in Profiles, ForgetProfile(p) PROVE TypeOK'
    BY <1>0, <1>2, <1>a DEF ForgetProfile, TypeOK
  <1>3. CASE FollowProfile \/ Ensure \/ StopCuts
    <2>1. cut' \in BOOLEAN /\ forget' \in BOOLEAN
      BY <1>0, <1>3, StopLiveType DEF FollowProfile, Ensure, StopCuts, Drop, Parts
    <2>2. Parts'
      BY <1>0, <1>3, <2>1 DEF FollowProfile, Ensure, StopCuts, Parts
    <2>3. /\ profile' \in Profiles /\ user' \in Profiles \cup {None}
          /\ UNCHANGED <<active, files, ask, minted, switches, starts, revoked, refused>>
          /\ pc' \in PCs /\ stopping' \in {"no", "cutting", "joining"}
      BY <1>3, <1>a DEF FollowProfile, Ensure, StopCuts
    <2>4. QED
      BY <1>a, <2>2, <2>3 DEF TypeOK, Parts
  <1>4. CASE Login \/ Start \/ Stop \/ StopJoins \/ Age
    <2>1. Parts'
      BY <1>0, <1>4 DEF Login, Start, Stop, StopJoins, Age, Parts
    <2>2. /\ UNCHANGED <<active, profile, files, ask, minted, switches, revoked, refused>>
          /\ pc' \in PCs /\ user' \in Profiles \cup {None}
          /\ stopping' \in {"no", "cutting", "joining"} /\ starts' \in 0..MaxStarts
      BY <1>4, <1>a DEF Login, Start, Stop, StopJoins, Age
    <2>3. QED
      BY <1>a, <2>1, <2>2 DEF TypeOK, Parts
  <1>5. ASSUME NEW r \in Registration, Revoke(r) PROVE TypeOK'
    BY <1>0, <1>5, <1>a DEF Revoke, TypeOK
  <1>6. CASE Loop \/ ReadUser \/ TakeToken \/ NextTicket
    BY <1>0, <1>6, <1>a DEF Loop, ReadUser, TakeToken, NextTicket, TypeOK
  <1>7. CASE LoadRegistration \/ WriteRegistration \/ RemoveRegistration
    <2>1. files[active] \in Registration \cup {None}
      BY <1>a
    <2>2. files' \in [Profiles -> Registration \cup {None}]
      BY <1>0, <1>7, <1>a DEF LoadRegistration, WriteRegistration, RemoveRegistration, Parts
    <2>3. reg' \in Registration \cup {None} /\ fresh' \in Registration \cup {None}
      BY <1>0, <1>7, <2>1 DEF LoadRegistration, WriteRegistration, RemoveRegistration, Parts
    <2>4. QED
      BY <1>0, <1>7, <1>a, <2>2, <2>3
         DEF LoadRegistration, WriteRegistration, RemoveRegistration, TypeOK
  <1>8. CASE Register
    <2>1. minted' \in 1..MaxMinted /\ bearer \in Profiles
      BY <1>0, <1>8, <1>a DEF Register, InHand, Parts
    <2>2. fresh' \in Registration
      BY <1>8, <2>1 DEF Register, Registration
    <2>3. QED
      BY <1>0, <1>8, <1>a, <2>1, <2>2 DEF Register, TypeOK
  <1>9. CASE TicketRefused
    <2>1. reg \in Registration
      BY <1>0, <1>9 DEF TicketRefused, InHand, Parts
    <2>2. QED
      BY <1>0, <1>9, <1>a, <2>1 DEF TicketRefused, TypeOK
  <1>10. CASE LoginTicket \/ RequestFails \/ Open \/ Handover \/ Receive \/ Unauthorized
              \/ Ends \/ Close \/ Check \/ Block \/ BackoffElapses
    <2>1. Parts'
      BY <1>0, <1>10 DEF LoginTicket, RequestFails, Open, Handover, Receive, Unauthorized,
                         Ends, Close, Check, Block, BackoffElapses, Parts
    <2>2. /\ UNCHANGED <<active, profile, user, files, ask, stopping, minted, switches, starts,
                         revoked, refused>>
          /\ pc' \in PCs
      BY <1>10 DEF LoginTicket, RequestFails, Open, Handover, Receive, Unauthorized,
                   Ends, Close, Check, Block, BackoffElapses
    <2>3. QED
      BY <1>a, <2>1, <2>2 DEF TypeOK, Parts
  <1>11. CASE UNCHANGED vars
    BY <1>0, <1>11 DEF vars, TypeOK
  <1>12. QED
    BY <1>1, <1>2, <1>3, <1>4, <1>5, <1>6, <1>7, <1>8, <1>9, <1>10, <1>11
       DEF Next, Stopper, Thread

\* Every step keeps what is in hand, and the server's registrations its own.
LEMMA HandStep == Inductive /\ [Next]_vars => InHand' /\ MadeByServer'
  <1> SUFFICES ASSUME Inductive, [Next]_vars PROVE InHand' /\ MadeByServer'
    OBVIOUS
  <1>0. /\ TypeOK /\ Parts /\ InHand /\ MadeByServer
        /\ active \in Profiles /\ files \in [Profiles -> Registration \cup {None}]
        /\ minted \in Nat
    BY TypeParts, PushConnectionAssumption DEF Inductive, TypeOK
  <1> USE DEF session, thread, locals, held, control, penne
  <1>1. ASSUME UNCHANGED <<reg, fresh, refused, minted, bearer, ask>>,
               \A p \in Profiles : files'[p] \in {files[p], None},
               pc' = pc \/ pc' \in PCs \ {"ticket", "ensure", "token", "register", "login", "write"},
               (~running /\ stopping = "no" => pc = "off")'
        PROVE  InHand' /\ MadeByServer'
    BY <1>0, <1>1 DEF InHand, MadeByServer
  <1>2. CASE \E p \in Profiles : SwitchProfile(p) \/ ForgetProfile(p)
    BY <1>0, <1>1, <1>2 DEF SwitchProfile, ForgetProfile, InHand
  <1>3. CASE FollowProfile \/ Login \/ Age \/ Start \/ Stop \/ StopCuts \/ StopJoins
             \/ \E r \in Registration : Revoke(r)
    BY <1>0, <1>1, <1>3 DEF FollowProfile, Login, Age, Start, Stop, StopCuts, StopJoins, Revoke, PCs,
                                InHand
  <1>4. CASE LoginTicket \/ RequestFails \/ Open \/ Handover \/ Receive \/ Unauthorized
              \/ Ends \/ Close \/ Check \/ Block \/ BackoffElapses
    BY <1>0, <1>1, <1>4 DEF LoginTicket, RequestFails, Open, Handover, Receive, Unauthorized,
                   Ends, Close, Check, Block, BackoffElapses, PCs, InHand
  <1>5. CASE Loop \/ ReadUser \/ NextTicket \/ Ensure \/ TakeToken
    <2>1. CASE Loop
      BY <1>0, <2>1 DEF Loop, InHand, MadeByServer
    <2>2. CASE ReadUser \/ NextTicket
      BY <1>0, <2>2 DEF ReadUser, NextTicket, InHand, MadeByServer
    <2>3. CASE Ensure
      BY <1>0, <2>3 DEF Ensure, InHand, MadeByServer
    <2>4. CASE TakeToken
      BY <1>0, <2>4 DEF TakeToken, TypeOK, InHand, MadeByServer
    <2>5. QED
      BY <1>5, <2>1, <2>2, <2>3, <2>4
  <1>6. CASE LoadRegistration \/ RemoveRegistration
    <2>1. \A p \in Profiles : files'[p] \in {files[p], None}
      BY <1>0, <1>6 DEF LoadRegistration, RemoveRegistration
    <2>2. QED
      BY <1>0, <1>6, <2>1 DEF LoadRegistration, RemoveRegistration, InHand, MadeByServer
  <1>7. CASE Register
    <2>1. minted' = minted + 1 /\ fresh'.serial = minted' /\ fresh' \in Registration
      <3>1. minted' = minted + 1 /\ fresh' = [owner |-> bearer, serial |-> minted']
        BY <1>7 DEF Register
      <3>2. bearer \in Profiles /\ minted' \in 1..MaxMinted
        BY <1>0, <1>7, <3>1, PushConnectionAssumption DEF Register, InHand, Parts
      <3>3. QED
        BY <3>1, <3>2 DEF Registration
    <2>2. InHand'
      BY <1>0, <1>7, <2>1, PushConnectionAssumption DEF Register, InHand
    <2>3. MadeByServer'
      <3>1. \A r \in Registration : r.serial <= minted => r.serial <= minted'
        BY <1>0, <2>1 DEF Registration
      <3>2. /\ UNCHANGED <<reg, files, refused>> /\ refused \subseteq Registration
        BY <1>0, <1>7 DEF Register, TypeOK
      <3>3. minted' <= minted'
        BY <1>0, <2>1
      <3>4. QED
        BY <1>0, <2>1, <3>1, <3>2, <3>3 DEF MadeByServer, Parts
    <2>4. QED
      BY <2>2, <2>3
  <1>8. CASE WriteRegistration
    <2>1. \A p \in Profiles : files'[p] \in {files[p], fresh}
      BY <1>0, <1>8 DEF WriteRegistration
    <2>2. QED
      BY <1>0, <1>8, <2>1 DEF WriteRegistration, InHand, MadeByServer
  <1>9. CASE TicketRefused
    BY <1>0, <1>9 DEF TicketRefused, InHand, MadeByServer
  <1>10. CASE UNCHANGED vars
    BY <1>0, <1>1, <1>10 DEF vars, InHand
  <1>11. QED
    BY <1>2, <1>3, <1>4, <1>5, <1>6, <1>7, <1>8, <1>9, <1>10 DEF Next, Stopper, Thread

\* Every step before the first switch keeps what was refused out of the way.
LEMMA RefusedStep == Inductive /\ [Next]_vars => RefusedIsGone'
  <1> SUFFICES ASSUME Inductive, [Next]_vars, switches' = 0 PROVE RefusedIsGone'
    BY DEF RefusedIsGone
  <1>0. /\ TypeOK /\ Parts /\ InHand /\ MadeByServer /\ RefusedIsGone
        /\ active \in Profiles /\ files \in [Profiles -> Registration \cup {None}]
        /\ minted \in Nat /\ switches \in Nat /\ refused \subseteq Registration
        /\ None \notin Registration
    BY TypeParts, PushConnectionAssumption DEF Inductive, TypeOK
  <1> USE DEF session, thread, locals, held, control, penne
  <1>1. ASSUME switches = 0, UNCHANGED <<active, reg, fresh, refused>>,
               \A p \in Profiles : files'[p] \in {files[p], None},
               pc # "remove", pc' = "write" => pc = "write"
        PROVE  RefusedIsGone'
    BY <1>0, <1>1 DEF RefusedIsGone
  <1>2. ASSUME NEW p \in Profiles, SwitchProfile(p) PROVE RefusedIsGone'
    BY <1>0, <1>2 DEF SwitchProfile
  <1>3. ASSUME NEW p \in Profiles, ForgetProfile(p) PROVE RefusedIsGone'
    <2>1. \A q \in Profiles : files'[q] \in {files[q], None}
      BY <1>0, <1>3 DEF ForgetProfile
    <2>2. QED
      BY <1>0, <1>3, <2>1 DEF ForgetProfile, RefusedIsGone
  <1>4. CASE FollowProfile \/ Login \/ Age \/ Start \/ Stop \/ StopCuts \/ StopJoins
             \/ \E r \in Registration : Revoke(r)
    <2>1. UNCHANGED <<active, reg, fresh, refused, files, switches>>
      BY <1>4 DEF FollowProfile, Login, Age, Start, Stop, StopCuts, StopJoins, Revoke
    <2>2. pc' = pc \/ (pc' = "loop" /\ pc # "remove")
      BY <1>0, <1>4 DEF FollowProfile, Login, Age, Start, Stop, StopCuts, StopJoins, Revoke, InHand
    <2>3. QED
      BY <1>0, <2>1, <2>2 DEF RefusedIsGone
  <1>5. CASE LoginTicket \/ RequestFails \/ Open \/ Handover \/ Receive \/ Unauthorized
              \/ Ends \/ Close \/ Check \/ Block \/ BackoffElapses
              \/ ReadUser \/ NextTicket \/ Ensure \/ TakeToken
    <2>1. UNCHANGED <<active, reg, fresh, refused, files, switches>> /\ pc # "remove" /\ pc' # "write"
      BY <1>0, <1>5
         DEF LoginTicket, RequestFails, Open, Handover, Receive, Unauthorized,
             Ends, Close, Check, Block, BackoffElapses, ReadUser, NextTicket, Ensure, TakeToken, TypeOK
    <2>2. QED
      BY <1>1, <2>1
  <1>6. CASE Loop \/ LoadRegistration
    BY <1>0, <1>6 DEF Loop, LoadRegistration, RefusedIsGone
  <1>7. CASE Register
    <2>1. fresh'.serial = minted + 1 /\ UNCHANGED <<active, reg, files, refused, switches>>
          /\ pc = "register" /\ pc' = "write"
      BY <1>7 DEF Register
    <2>2. fresh' \notin refused
      BY <1>0, <2>1 DEF MadeByServer, Registration
    <2>3. QED
      BY <1>0, <2>1, <2>2 DEF RefusedIsGone
  <1>8. CASE WriteRegistration
    <2>1. /\ \A p \in Profiles : files'[p] = files[p] \/ (p = active /\ files'[p] = fresh)
          /\ reg' = fresh /\ pc = "write" /\ pc' = "ticket" /\ UNCHANGED <<active, refused, switches>>
      BY <1>0, <1>8 DEF WriteRegistration
    <2>2. QED
      BY <1>0, <2>1 DEF RefusedIsGone
  <1>9. CASE TicketRefused
    BY <1>0, <1>9 DEF TicketRefused, RefusedIsGone
  <1>10. CASE RemoveRegistration
    <2>1. /\ \A p \in Profiles : files'[p] = IF p = active THEN None ELSE files[p]
          /\ reg' = None /\ pc' = "check" /\ UNCHANGED <<active, refused, switches>>
      BY <1>0, <1>10 DEF RemoveRegistration
    <2>2. QED
      BY <1>0, <2>1 DEF RefusedIsGone
  <1>11. CASE UNCHANGED vars
    BY <1>0, <1>11 DEF vars, RefusedIsGone
  <1>12. QED
    BY <1>2, <1>3, <1>4, <1>5, <1>6, <1>7, <1>8, <1>9, <1>10, <1>11 DEF Next, Stopper, Thread

\* The inductive invariant holds throughout.
LEMMA InductiveHolds == Spec => []Inductive
  <1>1. Inductive /\ [Next]_vars => Inductive'
    BY TypeStep, HandStep, RefusedStep DEF Inductive
  <1>2. QED
    BY InitInductive, <1>1, PTL DEF Spec

\* The types of the connection thread, the session it asks and the server's side: in
\* particular LoginTicket never asks with a registration it does not have, and Register
\* never speaks for nobody, wherever Drop, Stop and profile switches come.
THEOREM TypeCorrect == Spec => []TypeOK
  <1>1. Inductive => TypeOK
    BY DEF Inductive
  <1>2. QED
    BY InductiveHolds, <1>1, PTL

\* "one to replace, not to retry": until the first profile switch, LoginTicket never asks
\* for a ticket with a registration val has answered 401 or 403 to, for any number of
\* registrations, revocations, aged tickets, starts and stops.
THEOREM RefusedIsReplaced == Spec => []RefusedNotRetried
  <1>1. Inductive => RefusedNotRetried
    BY DEF Inductive, RefusedIsGone, RefusedNotRetried
  <1>2. QED
    BY InductiveHolds, <1>1, PTL

-----------------------------------------------------------------------------
(* The connection of another user.                                         *)

\* Where the thread has a user to connect for.
Asking == pc \in PCs \ {"off", "loop", "user", "check", "block", "wait"}

\* The session's user is of the profile it follows; whoever connects has a user, and a
\* connection a ticket.
UserShape ==
    /\ user \in {None, profile}
    /\ Asking => uid # None
    /\ pc \in {"open", "send", "connected"} => ticket # None

\* What the thread has in hand is of the profile the session follows, or Drop came after it.
OwnOrForgotten ==
    BearerChecked /\ ~forget =>
        /\ ticket # None => ticket.owner = profile
        /\ pc \in {"register", "login"} => bearer = profile

\* Drop comes with every change of the profile that is followed.
LEMMA FollowingDrops ==
  ASSUME Inductive, UserShape, [Next]_vars
  PROVE  /\ user' \in {None, profile'}
         /\ \/ forget' = forget /\ profile' = profile
            \/ forget' = TRUE
            \/ pc = "loop" /\ forget' = FALSE /\ profile' = profile
  <1>0. active \in Profiles /\ forget \in BOOLEAN
    BY DEF Inductive, TypeOK
  <1> USE DEF session, thread, locals, held, control, penne
  <1>1. CASE FollowProfile \/ Ensure \/ Login
    BY <1>0, <1>1 DEF FollowProfile, Ensure, Login, Drop, UserShape
  <1>2. CASE Loop
    BY <1>0, <1>2 DEF Loop, UserShape
  <1>3. CASE UNCHANGED <<user, profile, forget>>
    BY <1>3 DEF UserShape
  <1>4. CASE \/ \E p \in Profiles : SwitchProfile(p) \/ ForgetProfile(p)
             \/ \E r \in Registration : Revoke(r)
             \/ Age \/ Start \/ Stop \/ StopCuts \/ StopJoins
    BY <1>3, <1>4 DEF SwitchProfile, ForgetProfile, Revoke, Age, Start, Stop, StopCuts, StopJoins
  <1>5. CASE ReadUser \/ LoadRegistration \/ NextTicket \/ TakeToken \/ Register
             \/ WriteRegistration \/ LoginTicket \/ TicketRefused \/ RemoveRegistration
    BY <1>3, <1>5 DEF ReadUser, LoadRegistration, NextTicket, TakeToken, Register,
                      WriteRegistration, LoginTicket, TicketRefused, RemoveRegistration
  <1>6. CASE RequestFails \/ Open \/ Handover \/ Receive \/ Unauthorized \/ Ends \/ Close
             \/ Check \/ Block \/ BackoffElapses \/ UNCHANGED vars
    BY <1>3, <1>6 DEF RequestFails, Open, Handover, Receive, Unauthorized, Ends, Close,
                      Check, Block, BackoffElapses, vars
  <1> QED BY <1>1, <1>2, <1>4, <1>5, <1>6 DEF Next, Stopper, Thread

\* The thread's own steps: what it takes is the session's, as far as it is not told to forget.
LEMMA OwnStep ==
  ASSUME Inductive, UserShape, OwnOrForgotten, [Next]_vars
  PROVE  UserShape' /\ OwnOrForgotten'
  <1>0. /\ pc \in PCs /\ forget \in BOOLEAN /\ InHand
        /\ user' \in {None, profile'}
        /\ \/ forget' = forget /\ profile' = profile
           \/ forget' = TRUE
           \/ pc = "loop" /\ forget' = FALSE /\ profile' = profile
    BY FollowingDrops DEF Inductive, TypeOK
  <1> USE DEF session, thread, locals, held, control, penne
  <1>1. ASSUME UNCHANGED <<ticket, bearer, uid>>, forget => forget',
               pc' = pc \/ pc' \notin {"register", "login"}, Asking' => Asking,
               pc' \in {"open", "send", "connected"} =>
                  pc \in {"open", "send", "connected"} \/ ticket # None
        PROVE  UserShape' /\ OwnOrForgotten'
    BY <1>0, <1>1 DEF UserShape, OwnOrForgotten
  <1>2. CASE \/ \E p \in Profiles : SwitchProfile(p) \/ ForgetProfile(p)
             \/ \E r \in Registration : Revoke(r)
             \/ FollowProfile \/ Login \/ Age \/ Start \/ Stop \/ StopCuts \/ StopJoins
    BY <1>0, <1>1, <1>2 DEF SwitchProfile, ForgetProfile, Revoke, FollowProfile, Login, Drop, Age,
                            Start, Stop, StopCuts, StopJoins, Asking
  <1>3. CASE LoadRegistration \/ NextTicket \/ Ensure \/ Register \/ WriteRegistration
             \/ TicketRefused \/ RemoveRegistration \/ RequestFails
    BY <1>0, <1>1, <1>3 DEF LoadRegistration, NextTicket, NeedsTicket, Ensure, Drop, Register,
                            WriteRegistration, TicketRefused, RemoveRegistration, RequestFails,
                            Asking, PCs
  <1>4. CASE Open \/ Handover \/ Receive \/ Unauthorized \/ Ends \/ Check \/ Block
             \/ BackoffElapses \/ UNCHANGED vars
    BY <1>0, <1>1, <1>4 DEF Open, Handover, Receive, Unauthorized, Ends, Check, Block,
                            BackoffElapses, Asking, PCs, vars
  <1>5. CASE Loop
    BY <1>0, <1>5 DEF Loop, UserShape, OwnOrForgotten, Asking
  <1>6. CASE ReadUser
    BY <1>0, <1>6 DEF ReadUser, UserShape, OwnOrForgotten, Asking
  <1>7. CASE TakeToken
    <2>1. Asking /\ uid # None
      BY <1>0, <1>7 DEF TakeToken, UserShape, Asking
    <2> QED BY <1>0, <1>7, <2>1 DEF TakeToken, Inductive, TypeOK, UserShape, OwnOrForgotten
  <1>8. CASE LoginTicket
    <2>1. Asking /\ uid # None
      BY <1>0, <1>8 DEF LoginTicket, UserShape, Asking
    <2>2. reg # None /\ ticket' = reg /\ (BearerChecked => reg.owner = bearer)
      BY <1>0, <1>8 DEF LoginTicket, Honoured, InHand
    <2> QED BY <1>0, <1>8, <2>1, <2>2 DEF LoginTicket, UserShape, OwnOrForgotten
  <1>9. CASE Close
    BY <1>0, <1>9 DEF Close, UserShape, OwnOrForgotten, Asking
  <1> QED BY <1>2, <1>3, <1>4, <1>5, <1>6, <1>7, <1>8, <1>9 DEF Next, Stopper, Thread

\* Where the server checks a registration against the bearer that asks for a ticket, every
\* connection that is accepted for a user and opened with another's ticket is one Drop has
\* told the thread to forget since it last looked, and its next turn does: however Drop,
\* logins, lost requests, restarts of the thread and profile switches fall between the
\* thread's look at forget, its look at the user, the ticket and the handover.  What the
\* code lacks is a second look before the handover, not a Drop.
THEOREM StrayIsToldToGo == Spec => []StrayIsForgotten
  <1>1. Init => UserShape /\ OwnOrForgotten
    BY DEF Init, UserShape, OwnOrForgotten, Asking
  <1>2. Inductive /\ UserShape /\ OwnOrForgotten /\ [Next]_vars => UserShape' /\ OwnOrForgotten'
    BY OwnStep
  <1>3. UserShape /\ OwnOrForgotten => StrayIsForgotten
    <2> SUFFICES ASSUME UserShape, OwnOrForgotten, BearerChecked, ~forget,
                        pc = "connected", Accepts
                 PROVE  ticket.owner = user
      BY DEF StrayIsForgotten, SpeaksForUser
    <2>1. Asking
      BY DEF Asking, PCs
    <2>2. uid # None /\ user = uid /\ ticket # None
      BY <2>1 DEF UserShape, Accepts
    <2> QED BY <2>2 DEF UserShape, OwnOrForgotten
  <1> QED BY InductiveHolds, <1>1, <1>2, <1>3, PTL DEF Spec
=============================================================================
