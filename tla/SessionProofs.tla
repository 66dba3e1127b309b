--------------------------- MODULE SessionProofs ---------------------------
(***************************************************************************)
(* Session's type invariant; that no device account is ever shared or,     *)
(* once bound to a person, lost; that a token counts for no other title;   *)
(* and that account, tokens and user are one identity and go to the server *)
(* that issued them, unless a Configure put them out of step: for every    *)
(* set of profiles, servers and threads, any number of Configures and of   *)
(* crashes.                                                                *)
(***************************************************************************)
EXTENDS Session, TLAPS

USE DEF Goto, Leave, At

\* What the adoption of the file from before profiles does to the disk.
LEMMA AdoptedShape ==
    ASSUME TypeOK, NEW s \in Servers, NEW p \in Owners
    PROVE  /\ Adopted(s, p) \in [Servers -> [Owners -> Account \cup {None, Torn}]]
           /\ \A z \in Servers : z # s => Adopted(s, p)[z] = disk[z]
           /\ \/ Adopted(s, p) = disk
              \/ /\ p # NoProfile /\ disk[s][p] = None
                 /\ \A q \in Owners :
                       Adopted(s, p)[s][q] = IF q = p THEN disk[s][NoProfile]
                                             ELSE IF q = NoProfile THEN None
                                             ELSE disk[s][q]
  BY DEF TypeOK, Adopted, Owners

\* What a load answers: nothing new, or the profile's own file.
LEMMA LoadAnswer ==
    ASSUME TypeOK, NEW s \in Servers, NEW p \in Owners, NEW d \in Account \cup {None}
    PROVE  LET r == LoadDeviceAccount(s, p, d)
           IN  /\ r \in Account \cup {None}
               /\ \/ r = d /\ Adopted(s, p)[s][p] \in {None, Torn}
                  \/ r \in Account /\ Adopted(s, p)[s][p] = r
  <1>1. Adopted(s, p)[s][p] \in Account \cup {None, Torn}
    BY AdoptedShape
  <1>2. QED
    BY <1>1 DEF LoadDeviceAccount

\* An adoption keeps every account, in one file of the same server.
LEMMA AdoptionKeeps ==
    ASSUME TypeOK, DiskInv, AccountsUnshared,
           NEW s \in Servers, NEW p \in Owners,
           disk' = Adopted(s, p), linked' = linked, minted' = minted
    PROVE  /\ DiskInv' /\ AccountsUnshared'
           /\ \A a \in Account : Stored(a) => Stored(a)'
           /\ \A x \in Servers, q \in Owners : disk'[x][q] \in Account =>
                 \E r \in Owners : disk[x][r] = disk'[x][q]
  <1>1. NoProfile \in Owners
    BY DEF Owners
  <1>2. CASE Adopted(s, p) = disk
    BY <1>2 DEF DiskInv, AccountsUnshared, Stored
  <1>3. CASE /\ p # NoProfile /\ disk[s][p] = None
             /\ \A q \in Owners :
                   Adopted(s, p)[s][q] = IF q = p THEN disk[s][NoProfile]
                                         ELSE IF q = NoProfile THEN None
                                         ELSE disk[s][q]
    <2>1. \A z \in Servers : z # s => disk'[z] = disk[z]
      BY AdoptedShape
    <2>2. \A q \in Owners : disk'[s][q] = IF q = p THEN disk[s][NoProfile]
                                          ELSE IF q = NoProfile THEN None
                                          ELSE disk[s][q]
      BY <1>3
    <2>3. None \notin Account
      BY AbsentAssumption
    <2>4. \A x \in Servers, q \in Owners : disk'[x][q] \in Account =>
             \E r \in Owners : disk[x][r] = disk'[x][q]
      BY <1>1, <2>1, <2>2, <2>3
    <2>5. DiskInv'
      BY <2>4 DEF DiskInv
    <2>6. AccountsUnshared'
      <3>1. \A x \in Servers, q \in Owners :
               disk'[x][q] \in Account \cup {None, Torn}
        BY AdoptedShape
      <3>2. ASSUME NEW x1 \in Servers, NEW x2 \in Servers, NEW q1 \in Owners,
                   NEW q2 \in Owners, disk'[x1][q1] = disk'[x2][q2],
                   disk'[x1][q1] \in Account
            PROVE  x1 = x2 /\ q1 = q2
        <4>1. x1 = x2
          BY <3>2, <2>5 DEF DiskInv
        <4>2. CASE x1 = s
          <5> DEFINE source(q) == IF q = p THEN NoProfile ELSE q
          <5>1. disk'[s][q1] = disk[s][source(q1)] /\ disk'[s][q2] = disk[s][source(q2)]
            BY <4>1, <4>2, <3>2, <2>2, <2>3, <1>3
          <5>2. q1 # NoProfile /\ q2 # NoProfile
            BY <4>1, <4>2, <3>2, <2>2, <2>3, <1>1, <1>3
          <5>3. source(q1) = source(q2)
            <6>1. source(q1) \in Owners /\ source(q2) \in Owners
              BY <1>1
            <6>2. disk[s][source(q1)] = disk[s][source(q2)]
              BY <5>1, <4>1, <4>2, <3>2
            <6>3. disk[s][source(q1)] \notin {None, Torn}
              BY <5>1, <4>2, <3>2, AbsentAssumption
            <6> HIDE DEF source
            <6>4. QED
              BY <6>1, <6>2, <6>3 DEF AccountsUnshared
          <5>4. QED
            BY <5>2, <5>3, <4>1
        <4>3. CASE x1 # s
          BY <4>1, <4>3, <3>2, <2>1, <2>3, AbsentAssumption DEF AccountsUnshared
        <4>4. QED
          BY <4>1, <4>2, <4>3
      <3>3. QED
        BY <3>1, <3>2 DEF AccountsUnshared
    <2>7. ASSUME NEW a \in Account, Stored(a) PROVE Stored(a)'
      <3>1. a.server \in Servers
        BY DEF Account
      <3>2. PICK q \in Owners : disk[a.server][q] = a
        BY <2>7 DEF Stored
      <3>3. CASE a.server # s
        BY <3>1, <3>2, <3>3, <2>1 DEF Stored
      <3>4. CASE a.server = s
        <4>1. q # p
          BY <3>2, <3>4, <1>3, <2>3
        <4>2. disk'[s][IF q = NoProfile THEN p ELSE q] = a
          BY <3>2, <3>4, <4>1, <2>2
        <4>3. QED
          BY <3>4, <4>2 DEF Stored
      <3>5. QED
        BY <3>3, <3>4
    <2>8. QED
      BY <2>4, <2>5, <2>6, <2>7
  <1>4. QED
    BY <1>2, <1>3, AdoptedShape

\* A file written with an account keeps the disk a disk.
LEMMA WriteKeeps ==
    ASSUME NEW d \in [Servers -> [Owners -> Account \cup {None, Torn}]],
           NEW s, NEW p, NEW a \in Account
    PROVE  [d EXCEPT ![s][p] = a] \in [Servers -> [Owners -> Account \cup {None, Torn}]]
  OBVIOUS

\* Moving a thread on keeps its frame a frame.
LEMMA FrameMoves ==
    ASSUME TypeOK, NEW t \in Threads, NEW w \in PCs
    PROVE  [frame EXCEPT ![t].pc = w] \in [Threads -> Frame]
  BY DEF TypeOK, Frame

\* Where a call goes on when Ensure or Link has returned.
LEMMA ReturnMoves ==
    ASSUME TypeOK, NEW t \in Threads, Returned(t)
    PROVE  frame' \in [Threads -> Frame]
  <1>1. CASE frame' = [frame EXCEPT ![t].pc = "token"]
    BY <1>1, FrameMoves DEF PCs
  <1>2. CASE frame' = [frame EXCEPT ![t] = Idle]
    <2>1. Idle \in Frame
      BY DEF Idle, Frame, PCs, Owners
    <2>2. QED
      BY <1>2, <2>1 DEF TypeOK
  <1>3. QED
    BY <1>1, <1>2 DEF Returned

\* The initial states satisfy the inductive invariant.
LEMMA InitInductive == Init => Inductive
  <1> SUFFICES ASSUME Init PROVE Inductive
    OBVIOUS
  <1> USE DEF Init, Idle, Fresh0
  <1>1. TypeOK
    <2>1. Idle \in Frame
      BY DEF Frame, PCs, Owners
    <2>2. Fresh0 \in State
      BY DEF State, Owners
    <2>3. QED
      BY <2>1, <2>2, SessionAssumption DEF TypeOK, Owners
  <1>2. Locked /\ ServerInv /\ MemoryInv
    BY AbsentAssumption DEF Locked, ServerInv, MemoryInv
  <1>3. DiskInv /\ AccountsUnshared /\ LinkedAccountKept
    BY AbsentAssumption DEF DiskInv, AccountsUnshared, LinkedAccountKept
  <1>4. QED
    BY <1>1, <1>2, <1>3 DEF Inductive

\* Every step keeps the types.
LEMMA TypeStep == Inductive /\ [Next]_vars => TypeOK'
  <1> SUFFICES ASSUME Inductive, [Next]_vars PROVE TypeOK'
    OBVIOUS
  <1>0. TypeOK /\ ServerInv /\ MemoryInv
    BY DEF Inductive
  <1>a. Idle \in Frame
    BY DEF Idle, Frame, PCs, Owners
  <1>b. state \in State /\ frame \in [Threads -> Frame] /\ active \in Owners
    BY <1>0 DEF TypeOK
  <1>c. ASSUME NEW t \in Threads, ~At(t, "idle") PROVE state.server \in Servers
    BY <1>0, <1>b, <1>c DEF ServerInv, State
  <1>d. state.profile \in Owners /\ state.device \in Account \cup {None}
    BY <1>b DEF State
  <1> USE <1>0, SessionAssumption DEF host, server
  <1>1. ASSUME NEW z \in Servers, Configure(z) PROVE TypeOK'
    <2>1. LoadDeviceAccount(z, active, state.device) \in Account \cup {None}
      BY <1>b, <1>d, LoadAnswer
    <2>2. state' \in State
      BY <1>1, <1>b, <2>1 DEF Configure, State
    <2>3. disk' \in [Servers -> [Owners -> Account \cup {None, Torn}]]
      BY <1>1, <1>b, AdoptedShape DEF Configure
    <2>4. mixed' \subseteq {"account", "server"}
      BY <1>1 DEF Configure, Mixes, TypeOK
    <2>5. QED
      BY <1>1, <2>2, <2>3, <2>4 DEF Configure, TypeOK
  <1>2. ASSUME NEW title \in Titles \cup {NoTitle}, SetApplication(title) PROVE TypeOK'
    <2>1. state' \in State
      BY <1>2, <1>b DEF SetApplication, State
    <2>2. QED
      BY <1>2, <2>1 DEF SetApplication, TypeOK
  <1>3. ASSUME NEW p \in Owners, SwitchProfile(p) PROVE TypeOK'
    BY <1>3 DEF SwitchProfile, TypeOK
  <1>4. ASSUME NEW p \in Owners, ForgetProfile(p) PROVE TypeOK'
    <2>1. disk' \in [Servers -> [Owners -> Account \cup {None, Torn}]]
      BY <1>4 DEF ForgetProfile, TypeOK
    <2>2. forgotten' \subseteq Account
      BY <1>4, <1>d DEF ForgetProfile, TypeOK
    <2>3. QED
      BY <1>4, <2>1, <2>2 DEF ForgetProfile, TypeOK
  <1>5. CASE Expire
    <2>1. state' \in State
      BY <1>5, <1>b DEF Expire, State
    <2>2. QED
      BY <1>5, <2>1 DEF Expire, TypeOK
  <1>6. ASSUME NEW t \in Threads, NEW c \in Calls, Begin(t, c) PROVE TypeOK'
    <2>1. [Idle EXCEPT !.pc = "compare", !.call = c, !.seen = active] \in Frame
      BY <1>b, SessionAssumption DEF Idle, Frame, PCs, Owners
    <2>2. frame' \in [Threads -> Frame]
      BY <1>6, <1>b, <2>1 DEF Begin
    <2>3. QED
      BY <1>6, <2>2 DEF Begin, TypeOK
  <1>7. ASSUME NEW t \in Threads, Step(t) PROVE TypeOK'
    <2>1. CASE Compare(t)
      <3>1. frame' \in [Threads -> Frame]
        BY <2>1, FrameMoves DEF Compare, PCs
      <3>2. QED
        BY <2>1, <3>1 DEF Compare, TypeOK
    <2>2. CASE Switch(t)
      <3>1. frame[t].seen \in Owners /\ state.server \in Servers
        BY <2>2, <1>b, <1>c DEF Switch, Frame
      <3>2. LoadDeviceAccount(state.server, frame[t].seen, None) \in Account \cup {None}
        BY <3>1, LoadAnswer
      <3>3. state' \in State
        <4>1. Fresh0 \in State
          BY DEF Fresh0, State, Owners
        <4>2. state \in State /\ state.application \in Titles \cup {NoTitle}
          BY DEF TypeOK, State
        <4>3. \A d \in Account \cup {None} :
                 [Fresh0 EXCEPT !.server = state.server, !.profile = frame[t].seen,
                                !.application = state.application, !.device = d] \in State
          BY <3>1, <4>1, <4>2 DEF State
        <4>4. QED
          BY <2>2, <3>2, <4>2, <4>3 DEF Switch
      <3>4. disk' \in [Servers -> [Owners -> Account \cup {None, Torn}]]
        BY <2>2, <3>1, AdoptedShape DEF Switch, TypeOK
      <3>5. frame' \in [Threads -> Frame]
        BY <2>2, FrameMoves DEF Switch, PCs
      <3>6. QED
        BY <2>2, <3>3, <3>4, <3>5 DEF Switch, TypeOK
    <2>3. CASE Lock(t)
      <3>1. frame' \in [Threads -> Frame]
        <4>1. CASE Returned(t)
          BY <4>1, ReturnMoves
        <4>2. CASE Goto(t, "exchange")
          BY <4>2, FrameMoves DEF PCs
        <4>3. QED
          BY <2>3, <4>1, <4>2 DEF Lock
      <3>2. QED
        BY <2>3, <3>1 DEF Lock, TypeOK
    <2>4. CASE Exchange(t)
      <3>1. state.server \in Servers
        BY <2>4, <1>c DEF Exchange
      <3>2. LoadDeviceAccount(state.server, state.profile, None) \in Account \cup {None}
        BY <3>1, <1>d, LoadAnswer
      <3>3. state' \in State
        <4>1. PICK d \in Account \cup {None} :
                 state' = [state EXCEPT !.device = d, !.applicationToken =
                               [server |-> state.server, user |-> None]]
          BY <2>4, <1>d, <3>2 DEF Exchange
        <4>2. [server |-> state.server, user |-> None] \in Bearer
          BY <3>1 DEF Bearer
        <4>3. QED
          BY <4>1, <4>2, <1>b DEF State
      <3>4. disk' \in [Servers -> [Owners -> Account \cup {None, Torn}]]
        BY <2>4, <1>d, <3>1, AdoptedShape DEF Exchange, TypeOK
      <3>5. frame' \in [Threads -> Frame]
        <4>1. PICK w \in PCs, title \in {state.application, NoTitle} :
                 frame' = [frame EXCEPT ![t].pc = w, ![t].bound = title]
          BY <2>4 DEF Exchange, PCs
        <4>2. title \in Titles \cup {NoTitle}
          BY <1>b DEF State
        <4>3. QED
          BY <4>1, <4>2, <1>b DEF Frame
      <3>6. QED
        BY <2>4, <3>3, <3>4, <3>5 DEF Exchange, TypeOK
    <2>5. CASE Create(t)
      <3>1. state.server \in Servers
        BY <2>5, <1>c DEF Create
      <3>2. minted' \in 1..MaxAccounts
        BY <2>5 DEF Create, TypeOK
      <3>3. state' \in State
        BY <2>5, <1>b, <3>1, <3>2 DEF Create, State, Account
      <3>4. disk' \in [Servers -> [Owners -> Account \cup {None, Torn}]]
        BY <2>5 DEF Create, TypeOK
      <3>5. frame' \in [Threads -> Frame]
        BY <2>5, FrameMoves DEF Create, PCs
      <3>6. QED
        BY <2>5, <3>2, <3>3, <3>4, <3>5 DEF Create, TypeOK
    <2>6. CASE SaveDeviceAccount(t)
      <3>1. state.device \in Account
        BY <2>6, <1>d DEF SaveDeviceAccount, MemoryInv
      <3>2. disk' \in [Servers -> [Owners -> Account \cup {None, Torn}]]
        <4>1. disk \in [Servers -> [Owners -> Account \cup {None, Torn}]]
          BY DEF TypeOK
        <4>2. CASE disk' = [disk EXCEPT ![state.server][state.profile] = state.device]
          BY <3>1, <4>1, <4>2, WriteKeeps
        <4>3. CASE UNCHANGED disk
          BY <4>1, <4>3
        <4>4. QED
          BY <2>6, <4>2, <4>3 DEF SaveDeviceAccount
      <3>3. frame' \in [Threads -> Frame]
        BY <2>6, FrameMoves DEF SaveDeviceAccount, PCs
      <3>4. QED
        BY <2>6, <3>1, <3>2, <3>3 DEF SaveDeviceAccount, TypeOK
    <2>7. CASE LoginSucceeds(t)
      <3>1. state.device \in Account /\ state.server \in Servers
        BY <2>7, <1>c, <1>d DEF LoginSucceeds, MemoryInv
      <3>2. frame[t].bound \in Titles \cup {NoTitle} /\ state.device.server \in Servers
        BY <3>1, <1>b DEF Frame, Account
      <3>3. frame' \in [Threads -> Frame]
        BY <2>7, ReturnMoves DEF LoginSucceeds
      <3>4. state' \in State
        <4>1. /\ [account |-> state.device, title |-> frame[t].bound] \in IdToken
              /\ [server |-> state.server, user |-> state.device] \in Bearer
          BY <3>1, <3>2 DEF IdToken, Bearer
        <4>2. QED
          BY <2>7, <1>b, <3>1, <4>1 DEF LoginSucceeds, State
      <3>5. strayed' \subseteq Servers /\ linked' \subseteq Account
        BY <2>7, <3>1, <3>2 DEF LoginSucceeds, Present, TypeOK
      <3>6. QED
        BY <2>7, <3>3, <3>4, <3>5 DEF LoginSucceeds, TypeOK
    <2>8. CASE LoginFails(t)
      <3>1. state.server \in Servers
        BY <2>8, <1>c DEF LoginFails
      <3>2. frame[t].pc = "login" => state.device \in Account /\ state.device.server \in Servers
        BY <1>d DEF MemoryInv, Account
      <3>3. frame' \in [Threads -> Frame]
        BY <2>8, ReturnMoves DEF LoginFails
      <3>4. strayed' \subseteq Servers /\ linked' \subseteq Account
        BY <2>8, <3>1, <3>2 DEF LoginFails, Present, TypeOK
      <3>5. QED
        BY <2>8, <3>3, <3>4 DEF LoginFails, TypeOK
    <2>9. CASE TakeToken(t)
      <3>1. frame' \in [Threads -> Frame]
        BY <2>9, <1>a, <1>b DEF TakeToken, State, Frame, PCs
      <3>2. QED
        BY <2>9, <3>1 DEF TakeToken, TypeOK
    <2>10. CASE SendRequest(t)
      <3>1. state.server \in Servers /\ frame[t].bearer.server \in Servers
        BY <2>10, <1>b, <1>c DEF SendRequest, ServerInv, Frame, Bearer
      <3>2. frame' \in [Threads -> Frame]
        BY <2>10, <1>a, <1>b DEF SendRequest
      <3>3. strayed' \subseteq Servers
        BY <2>10, <3>1 DEF SendRequest, Present, TypeOK
      <3>4. QED
        BY <2>10, <3>2, <3>3 DEF SendRequest, TypeOK
    <2>11. QED
      BY <1>7, <2>1, <2>2, <2>3, <2>4, <2>5, <2>6, <2>7, <2>8, <2>9, <2>10, <2>11 DEF Step
  <1>8. CASE Restart
    <2>1. Fresh0 \in State
      BY DEF Fresh0, State, Owners
    <2>2. QED
      BY <1>8, <1>a, <2>1 DEF Restart, TypeOK
  <1>9. CASE UNCHANGED vars
    BY <1>9 DEF vars, TypeOK
  <1>10. QED
    BY <1>1, <1>2, <1>3, <1>4, <1>5, <1>6, <1>7, <1>8, <1>9 DEF Next

\* The mutex has one holder, and a call runs on a configured session.
LEMMA LockStep == Inductive /\ [Next]_vars => Locked' /\ ServerInv'
  <1> SUFFICES ASSUME Inductive, [Next]_vars PROVE Locked' /\ ServerInv'
    OBVIOUS
  <1>0. /\ Locked /\ ServerInv /\ frame \in [Threads -> Frame]
        /\ state \in State /\ mutex \in Threads \cup {None} /\ None \notin Threads
    BY AbsentAssumption DEF Inductive, TypeOK
  <1> USE <1>0 DEF host, server, Locked, ServerInv, Idle
  <1>1. ASSUME NEW z \in Servers, Configure(z) PROVE Locked' /\ ServerInv'
    <2>1. state'.server = z /\ z # None
      BY <1>1, AbsentAssumption DEF Configure, State
    <2>2. QED
      BY <1>1, <2>1 DEF Configure
  <1>2. ASSUME NEW title \in Titles \cup {NoTitle}, SetApplication(title)
        PROVE  Locked' /\ ServerInv'
    BY <1>2 DEF SetApplication, State
  <1>3. ASSUME NEW p \in Owners, SwitchProfile(p) \/ ForgetProfile(p)
        PROVE  Locked' /\ ServerInv'
    BY <1>3 DEF SwitchProfile, ForgetProfile
  <1>4. CASE Expire
    BY <1>4 DEF Expire, State
  <1>5. ASSUME NEW t \in Threads, NEW c \in Calls, Begin(t, c) PROVE Locked' /\ ServerInv'
    BY <1>5 DEF Begin, Frame
  <1>6. ASSUME NEW t \in Threads, Step(t) PROVE Locked' /\ ServerInv'
    <2>1. CASE Compare(t)
      BY <2>1 DEF Compare, Frame
    <2>2. CASE Switch(t)
      <3>1. state'.server = state.server
        BY <2>2 DEF Switch, Fresh0
      <3>2. QED
        BY <2>2, <3>1 DEF Switch, Frame
    <2>3. CASE Lock(t)
      BY <2>3 DEF Lock, Returned, Frame
    <2>4. CASE Exchange(t)
      <3>1. state'.server = state.server
        BY <2>4 DEF Exchange, State
      <3>2. PICK w \in {"create", "login"}, title \in {state.application, NoTitle} :
               frame' = [frame EXCEPT ![t].pc = w, ![t].bound = title]
        BY <2>4 DEF Exchange
      <3>3. QED
        BY <2>4, <3>1, <3>2 DEF Exchange, Frame
    <2>5. CASE Create(t)
      BY <2>5 DEF Create, Frame, State
    <2>6. CASE SaveDeviceAccount(t)
      BY <2>6 DEF SaveDeviceAccount, Frame
    <2>7. CASE LoginSucceeds(t)
      <3>1. state'.server = state.server
        BY <2>7 DEF LoginSucceeds, State
      <3>2. QED
        BY <2>7, <3>1 DEF LoginSucceeds, Returned, Frame
    <2>8. CASE LoginFails(t)
      BY <2>8 DEF LoginFails, Returned, Idle, Frame
    <2>9. CASE TakeToken(t)
      BY <2>9 DEF TakeToken, Frame
    <2>10. CASE SendRequest(t)
      BY <2>10 DEF SendRequest, Frame
    <2>11. QED
      BY <1>6, <2>1, <2>2, <2>3, <2>4, <2>5, <2>6, <2>7, <2>8, <2>9, <2>10 DEF Step
  <1>7. CASE Restart
    BY <1>7 DEF Restart
  <1>8. CASE UNCHANGED vars
    BY <1>8 DEF vars
  <1>9. QED
    BY <1>1, <1>2, <1>3, <1>4, <1>5, <1>6, <1>7, <1>8 DEF Next

\* A step that leaves the accounts alone and brings no thread to create, write
\* or use one keeps what is known of them.
LEMMA QuietStep ==
    ASSUME Inductive,
           UNCHANGED <<disk, linked, minted, forgotten>>,
           state'.device = state.device, state'.server = state.server,
           state'.profile = state.profile,
           \A t \in Threads : /\ At(t, "create")' => At(t, "create")
                              /\ At(t, "save")' <=> At(t, "save")
                              /\ At(t, "login")' => At(t, "login")
    PROVE  DiskInv' /\ MemoryInv' /\ AccountsUnshared' /\ LinkedAccountKept'
  <1>1. DiskInv' /\ AccountsUnshared' /\ LinkedAccountKept'
    BY DEF Inductive, DiskInv, AccountsUnshared, LinkedAccountKept
  <1>2. MemoryInv'
    BY DEF Inductive, MemoryInv, Stored
  <1>3. QED
    BY <1>1, <1>2

\* A step that gives the session an account from a file (or none), with nobody
\* inside LoginLocked afterwards but at the login itself.
LEMMA LoadStep ==
    ASSUME Inductive, NEW s \in Servers, NEW p \in Owners,
           disk' = Adopted(s, p), UNCHANGED <<linked, minted, forgotten>>,
           NEW d \in Account \cup {None},
           d # None => /\ d.serial <= minted
                       /\ d \in forgotten \/ Stored(d),
           state'.device = LoadDeviceAccount(s, p, d)
    PROVE  /\ DiskInv' /\ AccountsUnshared' /\ LinkedAccountKept'
           /\ state'.device # None =>
                 /\ state'.device.serial <= minted
                 /\ state'.device \in forgotten \/ Stored(state.device)'
           /\ state'.device = None => disk'[s][p] \in {None, Torn}
  <1>0. /\ TypeOK /\ DiskInv /\ AccountsUnshared /\ LinkedAccountKept
        /\ linked \subseteq Account /\ None \notin Account /\ Torn \notin Account
    BY AbsentAssumption DEF Inductive, TypeOK
  <1>1. /\ DiskInv' /\ AccountsUnshared'
        /\ \A a \in Account : Stored(a) => Stored(a)'
    BY <1>0, AdoptionKeeps
  <1>2. LinkedAccountKept'
    BY <1>0, <1>1 DEF LinkedAccountKept, Stored
  <1>3. \/ state'.device = d /\ disk'[s][p] \in {None, Torn}
        \/ state'.device \in Account /\ disk'[s][p] = state'.device
    BY <1>0, LoadAnswer
  <1>4. ASSUME state'.device \in Account, disk'[s][p] = state'.device
        PROVE  state'.device.serial <= minted /\ Stored(state.device)'
    <2>1. state'.device.server = s /\ state'.device.serial <= minted
      BY <1>1, <1>4 DEF DiskInv
    <2>2. QED
      BY <1>4, <2>1 DEF Stored
  <1>5. state'.device # None =>
           /\ state'.device.serial <= minted
           /\ state'.device \in forgotten \/ Stored(state.device)'
    BY <1>1, <1>3, <1>4
  <1>6. state'.device = None => disk'[s][p] \in {None, Torn}
    BY <1>0, <1>3
  <1>7. QED
    BY <1>1, <1>2, <1>5, <1>6

\* Every step keeps what is known of the accounts.
LEMMA AccountsStep ==
    Inductive /\ [Next]_vars => DiskInv' /\ MemoryInv' /\ AccountsUnshared' /\ LinkedAccountKept'
  <1> DEFINE Accounts == DiskInv /\ MemoryInv /\ AccountsUnshared /\ LinkedAccountKept
  <1> SUFFICES ASSUME Inductive, [Next]_vars PROVE Accounts'
    OBVIOUS
  <1>0. /\ TypeOK /\ Locked /\ ServerInv /\ DiskInv /\ MemoryInv
        /\ AccountsUnshared /\ LinkedAccountKept
    BY DEF Inductive
  <1>a. /\ state \in State /\ frame \in [Threads -> Frame] /\ active \in Owners
        /\ disk \in [Servers -> [Owners -> Account \cup {None, Torn}]]
        /\ linked \subseteq Account /\ forgotten \subseteq Account
        /\ minted \in 0..MaxAccounts /\ MaxAccounts \in Nat
    BY <1>0, SessionAssumption DEF TypeOK
  <1>b. None \notin Account /\ Torn \notin Account /\ None # Torn /\ None \notin Threads
    BY AbsentAssumption
  <1>c. state.profile \in Owners /\ state.device \in Account \cup {None}
    BY <1>a DEF State
  <1>d. ASSUME mutex = None
        PROVE  \A t \in Threads : ~At(t, "create") /\ ~At(t, "save") /\ ~At(t, "login")
    BY <1>0, <1>b, <1>d DEF Locked
  <1>e. ASSUME NEW t \in Threads, frame[t].pc \in {"exchange", "create", "save", "login"}
        PROVE  \A u \in Threads \ {t} : ~At(u, "create") /\ ~At(u, "save") /\ ~At(u, "login")
    BY <1>0, <1>e DEF Locked
  <1>f. ASSUME NEW t \in Threads, ~At(t, "idle") PROVE state.server \in Servers
    BY <1>0, <1>a, <1>f DEF ServerInv, State
  <1> USE DEF host, server
  <1>1. ASSUME NEW z \in Servers, Configure(z) PROVE Accounts'
    <2>0. \A t \in Threads : ~At(t, "create") /\ ~At(t, "save") /\ ~At(t, "login")
      BY <1>1, <1>d DEF Configure
    <2>1. state.device # None => /\ state.device.serial <= minted
                                 /\ state.device \in forgotten \/ Stored(state.device)
      BY <1>0, <2>0 DEF MemoryInv
    <2>2. state'.device = LoadDeviceAccount(z, active, state.device)
      BY <1>1, <1>a DEF Configure, State
    <2>3. /\ disk' = Adopted(z, active) /\ UNCHANGED <<linked, minted, forgotten, frame>>
      BY <1>1 DEF Configure
    <2>4. /\ DiskInv' /\ AccountsUnshared' /\ LinkedAccountKept'
          /\ state'.device # None =>
                /\ state'.device.serial <= minted
                /\ state'.device \in forgotten \/ Stored(state.device)'
      BY <1>a, <1>c, <2>1, <2>2, <2>3, LoadStep
    <2>5. MemoryInv'
      BY <2>0, <2>3, <2>4 DEF MemoryInv
    <2>6. QED
      BY <2>4, <2>5
  <1>2. ASSUME NEW title \in Titles \cup {NoTitle}, SetApplication(title) PROVE Accounts'
    BY <1>2, <1>a, QuietStep DEF SetApplication, State
  <1>3. ASSUME NEW p \in Owners, SwitchProfile(p) PROVE Accounts'
    BY <1>3, QuietStep DEF SwitchProfile
  <1>4. ASSUME NEW p \in Owners, ForgetProfile(p) PROVE Accounts'
    <2>1. \A s \in Servers, q \in Owners : disk'[s][q] = IF q = p THEN None ELSE disk[s][q]
      BY <1>4, <1>a DEF ForgetProfile
    <2>2. UNCHANGED <<state, frame, linked, minted>> /\ forgotten \subseteq forgotten'
      BY <1>4 DEF ForgetProfile
    <2>3. \A s \in Servers : disk[s][p] \in Account => disk[s][p] \in forgotten'
      BY <1>4, <1>a, <1>b DEF ForgetProfile
    <2>4. DiskInv' /\ AccountsUnshared'
      BY <1>0, <1>b, <2>1, <2>2 DEF DiskInv, AccountsUnshared
    <2>5. \A a \in Account : Stored(a) => Stored(a)' \/ a \in forgotten'
      BY <1>a, <2>1, <2>3 DEF Stored, Account
    <2>6. LinkedAccountKept'
      BY <1>0, <1>a, <2>2, <2>5 DEF LinkedAccountKept, Stored
    <2>7. MemoryInv'
      <3>1. \A t \in Threads : At(t, "create") \/ At(t, "save") => state.server \in Servers
        BY <1>f
      <3>2. QED
        BY <1>0, <1>b, <1>c, <2>1, <2>2, <2>5, <3>1 DEF MemoryInv
    <2>8. QED
      BY <2>4, <2>6, <2>7
  <1>5. CASE Expire
    BY <1>5, <1>a, QuietStep DEF Expire, State
  <1>6. ASSUME NEW t \in Threads, NEW c \in Calls, Begin(t, c) PROVE Accounts'
    BY <1>6, <1>a, QuietStep DEF Begin, Idle, Frame
  <1>7. ASSUME NEW t \in Threads, Step(t) PROVE Accounts'
    <2>1. CASE Compare(t)
      BY <2>1, <1>a, QuietStep DEF Compare, Frame
    <2>2. CASE Switch(t)
      <3>0. \A u \in Threads : ~At(u, "create") /\ ~At(u, "save") /\ ~At(u, "login")
        BY <2>2, <1>d DEF Switch
      <3>1. \A u \in Threads : ~At(u, "create")' /\ ~At(u, "save")' /\ ~At(u, "login")'
        BY <2>2, <3>0, <1>a DEF Switch, Frame
      <3>2. CASE frame[t].seen = state.profile
        BY <2>2, <3>0, <3>1, <3>2, QuietStep DEF Switch
      <3>3. CASE frame[t].seen # state.profile
        <4>1. state.server \in Servers /\ frame[t].seen \in Owners
          BY <2>2, <1>a, <1>f DEF Switch, Frame
        <4>2. state'.device = LoadDeviceAccount(state.server, frame[t].seen, None)
          BY <2>2, <3>3 DEF Switch, Fresh0
        <4>3. /\ disk' = Adopted(state.server, frame[t].seen)
              /\ UNCHANGED <<linked, minted, forgotten>>
          BY <2>2, <3>3 DEF Switch
        <4>4. /\ DiskInv' /\ AccountsUnshared' /\ LinkedAccountKept'
              /\ state'.device # None =>
                    /\ state'.device.serial <= minted
                    /\ state'.device \in forgotten \/ Stored(state.device)'
          BY <4>1, <4>2, <4>3, LoadStep
        <4>5. MemoryInv'
          BY <3>1, <4>3, <4>4 DEF MemoryInv
        <4>6. QED
          BY <4>4, <4>5
      <3>4. QED
        BY <3>2, <3>3
    <2>3. CASE Lock(t)
      BY <2>3, <1>a, QuietStep DEF Lock, Returned, Idle, Frame
    <2>4. CASE Exchange(t)
      <3>1. state.server \in Servers
        BY <2>4, <1>f DEF Exchange
      <3>2. /\ state'.server = state.server /\ state'.profile = state.profile
            /\ UNCHANGED <<linked, minted, forgotten>>
        BY <2>4, <1>a DEF Exchange, State
      <3>3. \A u \in Threads \ {t} : ~At(u, "create") /\ ~At(u, "save") /\ ~At(u, "login")
        BY <2>4, <1>e DEF Exchange
      <3>4. /\ \A u \in Threads \ {t} : ~At(u, "create")' /\ ~At(u, "save")' /\ ~At(u, "login")'
            /\ frame'[t].pc = IF state'.device = None THEN "create" ELSE "login"
        <4>1. state'.device = IF state.device = None
                              THEN LoadDeviceAccount(state.server, state.profile, None)
                              ELSE state.device
          BY <2>4, <1>a DEF Exchange, State
        <4>2. PICK title \in {state.application, NoTitle} :
                 frame' = [frame EXCEPT ![t].pc = IF state'.device = None THEN "create" ELSE "login",
                                        ![t].bound = title]
          BY <2>4, <4>1 DEF Exchange
        <4>3. QED
          BY <3>3, <4>2, <1>a DEF Frame
      <3>5. CASE state.device # None
        <4>1. state'.device = state.device /\ UNCHANGED disk
          BY <2>4, <1>a, <3>5 DEF Exchange, State
        <4>2. DiskInv' /\ AccountsUnshared' /\ LinkedAccountKept'
          BY <1>0, <3>2, <4>1 DEF DiskInv, AccountsUnshared, LinkedAccountKept
        <4>3. MemoryInv'
          <5>1. \A u \in Threads : ~At(u, "save")
            BY <2>4, <3>3 DEF Exchange
          <5>2. QED
            BY <1>0, <3>2, <3>4, <3>5, <4>1, <5>1 DEF MemoryInv, Stored
        <4>4. QED
          BY <4>2, <4>3
      <3>6. CASE state.device = None
        <4>1. /\ disk' = Adopted(state.server, state.profile)
              /\ state'.device = LoadDeviceAccount(state.server, state.profile, None)
          BY <2>4, <1>a, <3>6 DEF Exchange, State
        <4>2. /\ DiskInv' /\ AccountsUnshared' /\ LinkedAccountKept'
              /\ state'.device # None =>
                    /\ state'.device.serial <= minted
                    /\ state'.device \in forgotten \/ Stored(state.device)'
              /\ state'.device = None => disk'[state.server][state.profile] \in {None, Torn}
          BY <1>c, <3>1, <3>2, <4>1, LoadStep
        <4>3. MemoryInv'
          BY <3>2, <3>4, <4>2 DEF MemoryInv
        <4>4. QED
          BY <4>2, <4>3
      <3>7. QED
        BY <3>5, <3>6
    <2>5. CASE Create(t)
      <3>1. state.server \in Servers /\ disk[state.server][state.profile] \in {None, Torn}
        BY <2>5, <1>0, <1>f DEF Create, MemoryInv
      <3>2. \A s \in Servers, q \in Owners :
               disk'[s][q] = IF s = state.server /\ q = state.profile THEN Torn ELSE disk[s][q]
        BY <2>5, <1>a, <1>c, <3>1 DEF Create
      <3>3. /\ state'.device = [server |-> state.server, serial |-> minted + 1]
            /\ state'.server = state.server /\ state'.profile = state.profile
            /\ minted' = minted + 1 /\ UNCHANGED <<linked, forgotten>>
        BY <2>5, <1>a DEF Create, State
      <3>4. DiskInv'
        BY <1>0, <1>a, <1>b, <3>2, <3>3 DEF DiskInv, Account
      <3>5. AccountsUnshared'
        BY <1>0, <1>b, <3>2 DEF AccountsUnshared
      <3>6. LinkedAccountKept'
        BY <1>0, <1>a, <1>b, <3>1, <3>2, <3>3 DEF LinkedAccountKept, Account
      <3>7. /\ \A u \in Threads \ {t} : ~At(u, "create")' /\ ~At(u, "save")' /\ ~At(u, "login")'
            /\ frame'[t].pc = "save"
        BY <2>5, <1>a, <1>e DEF Create, Frame
      <3>8. state'.device \notin linked /\ \A s \in Servers, q \in Owners : disk'[s][q] # state'.device
        <4>1. state'.device.serial = minted + 1
          BY <3>3
        <4>2. \A a \in Account : a.serial <= minted => a # state'.device
          BY <4>1, <1>a DEF Account
        <4>3. \A s \in Servers, q \in Owners : disk[s][q] # state'.device
          <5> SUFFICES ASSUME NEW s \in Servers, NEW q \in Owners, disk[s][q] = state'.device
                       PROVE  FALSE
            OBVIOUS
          <5>1. state'.device \in Account
            BY <2>5, <1>a, <3>1, <3>3 DEF Create, Account
          <5>2. QED
            BY <5>1, <1>0, <4>2 DEF DiskInv
        <4>4. Torn # state'.device
          BY <2>5, <1>a, <1>b, <3>1, <3>3 DEF Create, Account
        <4>5. QED
          BY <1>0, <1>a, <3>2, <4>2, <4>3, <4>4 DEF DiskInv
      <3>9. MemoryInv'
        <4>1. state'.device # None /\ state'.device.serial <= minted' /\ state'.device.server = state.server
          BY <2>5, <1>a, <1>b, <3>1, <3>3 DEF Create, Account
        <4>2. disk'[state'.server][state'.profile] \in {None, Torn}
          BY <3>1, <3>2, <3>3, <1>c
        <4>3. QED
          BY <3>3, <3>7, <3>8, <4>1, <4>2 DEF MemoryInv
      <3>10. QED
        BY <3>4, <3>5, <3>6, <3>9
    <2>6. CASE SaveDeviceAccount(t)
      <3>1. /\ state.device \in Account /\ state.device.server = state.server
            /\ state.server \in Servers /\ state.device \notin linked
            /\ disk[state.server][state.profile] \in {None, Torn}
            /\ \A s \in Servers, q \in Owners : disk[s][q] # state.device
            /\ state.device.serial <= minted
        BY <2>6, <1>0, <1>c, <1>f DEF SaveDeviceAccount, MemoryInv
      <3>2. /\ \A u \in Threads \ {t} : ~At(u, "create")' /\ ~At(u, "save")' /\ ~At(u, "login")'
            /\ frame'[t].pc = "login" /\ UNCHANGED <<state, linked, minted>>
        BY <2>6, <1>a, <1>e DEF SaveDeviceAccount, Frame
      <3>3. CASE disk' = [disk EXCEPT ![state.server][state.profile] = state.device]
                 /\ UNCHANGED forgotten
        <4>1. \A s \in Servers, q \in Owners :
                 disk'[s][q] = IF s = state.server /\ q = state.profile
                               THEN state.device ELSE disk[s][q]
          BY <3>3, <1>a, <1>c, <3>1
        <4>2. DiskInv'
          BY <1>0, <3>1, <3>2, <4>1 DEF DiskInv
        <4>3. AccountsUnshared'
          BY <1>0, <3>1, <4>1 DEF AccountsUnshared
        <4>4. LinkedAccountKept'
          BY <1>0, <1>a, <1>b, <3>1, <3>2, <3>3, <4>1 DEF LinkedAccountKept, Account
        <4>5. Stored(state.device)'
          BY <1>c, <3>1, <3>2, <4>1 DEF Stored
        <4>6. MemoryInv'
          BY <1>b, <3>1, <3>2, <4>5 DEF MemoryInv
        <4>7. QED
          BY <4>2, <4>3, <4>4, <4>6
      <3>4. CASE forgotten' = forgotten \cup {state.device} /\ UNCHANGED disk
        <4>1. DiskInv' /\ AccountsUnshared' /\ LinkedAccountKept'
          BY <1>0, <3>2, <3>4 DEF DiskInv, AccountsUnshared, LinkedAccountKept
        <4>2. MemoryInv'
          BY <1>b, <3>1, <3>2, <3>4 DEF MemoryInv
        <4>3. QED
          BY <4>1, <4>2
      <3>5. QED
        BY <2>6, <3>3, <3>4 DEF SaveDeviceAccount
    <2>7. CASE LoginSucceeds(t)
      <3>1. linked' \in {linked, linked \cup {state.device}}
        BY <2>7 DEF LoginSucceeds
      <3>2. /\ state'.device = state.device /\ state'.server = state.server
            /\ state'.profile = state.profile /\ UNCHANGED <<disk, forgotten, minted>>
        BY <2>7, <1>a DEF LoginSucceeds, State
      <3>3. At(t, "login") /\ ~At(t, "save") /\ ~At(t, "create")
        BY <2>7 DEF LoginSucceeds
      <3>4. \A u \in Threads : ~At(u, "create")' /\ ~At(u, "save")' /\ ~At(u, "login")'
        BY <2>7, <3>3, <1>a, <1>e DEF LoginSucceeds, Returned, Idle, Frame
      <3>5. QED
        <4>1. /\ state.device # None /\ state.device.serial <= minted
              /\ state.device \in forgotten \/ Stored(state.device)
          BY <1>0, <1>e, <3>3 DEF MemoryInv
        <4>2. DiskInv' /\ AccountsUnshared'
          BY <1>0, <3>1, <3>2, <4>1 DEF DiskInv, AccountsUnshared
        <4>3. LinkedAccountKept'
          BY <1>0, <3>1, <3>2, <4>1 DEF LinkedAccountKept, Stored
        <4>4. MemoryInv'
          BY <3>2, <3>4, <4>1 DEF MemoryInv, Stored
        <4>5. QED
          BY <4>2, <4>3, <4>4
    <2>8. CASE LoginFails(t)
      <3>1. UNCHANGED <<state, disk, forgotten, minted>>
        BY <2>8 DEF LoginFails
      <3>2. \A u \in Threads \ {t} : ~At(u, "create") /\ ~At(u, "save") /\ ~At(u, "login")
        BY <2>8, <1>e DEF LoginFails
      <3>3. \A u \in Threads : ~At(u, "create")' /\ ~At(u, "save")' /\ ~At(u, "login")'
        BY <2>8, <3>2, <1>a DEF LoginFails, Returned, Idle, Frame
      <3>4. \A u \in Threads : ~At(u, "save")
        BY <2>8, <3>2 DEF LoginFails
      <3>5. CASE linked' = linked
        BY <1>0, <3>1, <3>3, <3>4, <3>5
           DEF DiskInv, AccountsUnshared, LinkedAccountKept, MemoryInv, Stored
      <3>6. CASE At(t, "login") /\ linked' = linked \cup {state.device}
        <4>1. /\ state.device # None /\ state.device.serial <= minted
              /\ state.device \in forgotten \/ Stored(state.device)
          BY <1>0, <3>4, <3>6 DEF MemoryInv
        <4>2. DiskInv' /\ AccountsUnshared'
          BY <1>0, <3>1, <3>6, <4>1 DEF DiskInv, AccountsUnshared
        <4>3. LinkedAccountKept'
          BY <1>0, <3>1, <3>6, <4>1 DEF LinkedAccountKept, Stored
        <4>4. MemoryInv'
          BY <3>1, <3>3, <4>1 DEF MemoryInv, Stored
        <4>5. QED
          BY <4>2, <4>3, <4>4
      <3>7. QED
        BY <2>8, <3>5, <3>6 DEF LoginFails
    <2>9. CASE TakeToken(t)
      BY <2>9, <1>a, QuietStep DEF TakeToken, Idle, Frame
    <2>10. CASE SendRequest(t)
      BY <2>10, <1>a, QuietStep DEF SendRequest, Idle, Frame
    <2>11. QED
      BY <1>7, <2>1, <2>2, <2>3, <2>4, <2>5, <2>6, <2>7, <2>8, <2>9, <2>10 DEF Step
  <1>8. CASE Restart
    <2>1. state'.device = None /\ UNCHANGED <<disk, forgotten, linked, minted>>
      BY <1>8 DEF Restart, Fresh0
    <2>2. \A u \in Threads : frame'[u].pc = "idle"
      BY <1>8 DEF Restart, Idle
    <2>3. QED
      BY <1>0, <2>1, <2>2 DEF DiskInv, AccountsUnshared, LinkedAccountKept, MemoryInv
  <1>9. CASE UNCHANGED vars
    BY <1>9, QuietStep DEF vars
  <1>10. QED
    BY <1>1, <1>2, <1>3, <1>4, <1>5, <1>6, <1>7, <1>8, <1>9 DEF Next

\* The inductive invariant holds throughout.
LEMMA InductiveHolds == Spec => []Inductive
  <1>1. Inductive /\ [Next]_vars => Inductive'
    BY TypeStep, LockStep, AccountsStep DEF Inductive
  <1>2. QED
    BY InitInductive, <1>1, PTL DEF Spec

\* The types of Session's state, for every value of its constants.
THEOREM TypeCorrect == Spec => []TypeOK
  <1>1. Inductive => TypeOK
    BY DEF Inductive
  <1>2. QED
    BY InductiveHolds, <1>1, PTL

\* No device account is in two files: whatever the profiles do, however often
\* the server is configured and wherever the process crashes.
THEOREM NoAccountShared == Spec => []AccountsUnshared
  <1>1. Inductive => AccountsUnshared
    BY DEF Inductive
  <1>2. QED
    BY InductiveHolds, <1>1, PTL

\* An account the server bound to a person is on disk, unless its profile was
\* forgotten or the write itself failed.
THEOREM NoLinkedAccountLost == Spec => []LinkedAccountKept
  <1>1. Inductive => LinkedAccountKept
    BY DEF Inductive
  <1>2. QED
    BY InductiveHolds, <1>1, PTL

-----------------------------------------------------------------------------
(* The title of a token.                                                   *)

\* The token is its title's, and so is the one a login under way will bring: the
\* title cannot change while LoginLocked holds the lock.
TitleInv ==
    /\ state.idToken # None => state.idToken.title \in {state.idTokenApplication, NoTitle}
    /\ \A t \in Threads : frame[t].pc \in {"create", "save", "login"} =>
          frame[t].bound \in {state.application, NoTitle}

\* Every step keeps a token its title's.
LEMMA TitleStep == Inductive /\ TitleInv /\ [Next]_vars => TitleInv'
  <1> SUFFICES ASSUME Inductive, TitleInv, [Next]_vars PROVE TitleInv'
    OBVIOUS
  <1>0. /\ state \in State /\ frame \in [Threads -> Frame] /\ Locked /\ MemoryInv
        /\ None \notin Account /\ None \notin Threads
    BY AbsentAssumption DEF Inductive, TypeOK
  <1>1. ASSUME state'.idToken = state.idToken, state'.application = state.application,
               state'.idTokenApplication = state.idTokenApplication,
               \A u \in Threads : frame'[u].pc \in {"create", "save", "login"} =>
                  frame'[u].bound \in {state.application, NoTitle}
        PROVE  TitleInv'
    BY <1>1 DEF TitleInv
  <1>2. ASSUME NEW z \in Servers, Configure(z) PROVE TitleInv'
    BY <1>0, <1>1, <1>2 DEF Configure, State, TitleInv
  <1>3. ASSUME NEW title \in Titles \cup {NoTitle}, SetApplication(title) PROVE TitleInv'
    <2>1. \A u \in Threads : frame'[u].pc \notin {"create", "save", "login"}
      BY <1>0, <1>3 DEF SetApplication, Locked
    <2>2. state'.idToken = state.idToken /\ state'.idTokenApplication = state.idTokenApplication
      BY <1>0, <1>3 DEF SetApplication, State
    <2>3. QED
      BY <2>1, <2>2 DEF TitleInv
  <1>4. ASSUME NEW p \in Owners, SwitchProfile(p) \/ ForgetProfile(p) PROVE TitleInv'
    BY <1>1, <1>4 DEF SwitchProfile, ForgetProfile, TitleInv
  <1>5. CASE Expire
    BY <1>0, <1>1, <1>5 DEF Expire, State, TitleInv
  <1>6. ASSUME NEW t \in Threads, NEW c \in Calls, Begin(t, c) PROVE TitleInv'
    BY <1>0, <1>1, <1>6 DEF Begin, Idle, TitleInv
  <1>7. ASSUME NEW t \in Threads, Step(t) PROVE TitleInv'
    <2>1. CASE Compare(t) \/ Lock(t) \/ LoginFails(t) \/ TakeToken(t) \/ SendRequest(t)
      <3>1. \A u \in Threads : \/ frame'[u] = frame[u]
                               \/ frame'[u].pc \notin {"create", "save", "login"}
        BY <1>0, <2>1 DEF Compare, Lock, LoginFails, TakeToken, SendRequest,
                          Returned, Idle, Frame
      <3>2. UNCHANGED state
        BY <2>1 DEF Compare, Lock, LoginFails, TakeToken, SendRequest
      <3>3. QED
        BY <1>1, <3>1, <3>2 DEF TitleInv
    <2>2. CASE Switch(t)
      <3>1. \A u \in Threads : frame[u].pc \notin {"create", "save", "login"}
        BY <1>0, <2>2 DEF Switch, Locked
      <3>2. \A u \in Threads : frame'[u].pc \notin {"create", "save", "login"}
        BY <1>0, <2>2, <3>1 DEF Switch, Frame
      <3>3. state'.idToken = None \/ UNCHANGED state
        BY <2>2 DEF Switch, Fresh0
      <3>4. QED
        BY <3>2, <3>3 DEF TitleInv
    <2>3. CASE Exchange(t)
      <3>1. /\ state'.idToken = state.idToken /\ state'.application = state.application
            /\ state'.idTokenApplication = state.idTokenApplication
        BY <1>0, <2>3 DEF Exchange, State
      <3>2. PICK title \in {state.application, NoTitle}, w \in PCs :
               frame' = [frame EXCEPT ![t].pc = w, ![t].bound = title]
        BY <2>3 DEF Exchange, PCs
      <3>3. \A u \in Threads : frame'[u].bound = IF u = t THEN title ELSE frame[u].bound
        BY <1>0, <3>2 DEF Frame
      <3>4. \A u \in Threads \ {t} : frame'[u] = frame[u]
        BY <1>0, <3>2
      <3>5. QED
        BY <1>1, <3>1, <3>3, <3>4 DEF TitleInv
    <2>4. CASE Create(t) \/ SaveDeviceAccount(t)
      <3>1. /\ state'.idToken = state.idToken /\ state'.application = state.application
            /\ state'.idTokenApplication = state.idTokenApplication
        BY <1>0, <2>4 DEF Create, SaveDeviceAccount, State
      <3>2. \A u \in Threads : frame'[u].bound = frame[u].bound
        BY <1>0, <2>4 DEF Create, SaveDeviceAccount, Frame
      <3>3. frame[t].pc \in {"create", "save"} /\ \A u \in Threads \ {t} : frame'[u] = frame[u]
        BY <1>0, <2>4 DEF Create, SaveDeviceAccount
      <3>4. QED
        BY <1>1, <3>1, <3>2, <3>3 DEF TitleInv
    <2>5. CASE LoginSucceeds(t)
      <3>1. /\ state'.idToken = [account |-> state.device, title |-> frame[t].bound]
            /\ state'.application = state.application
            /\ state'.idTokenApplication = state.application
        BY <1>0, <2>5 DEF LoginSucceeds, State
      <3>2. \A u \in Threads \ {t} : frame[u].pc \notin {"create", "save", "login"}
        BY <1>0, <2>5 DEF LoginSucceeds, Locked
      <3>3. \A u \in Threads : frame'[u].pc \notin {"create", "save", "login"}
        BY <1>0, <2>5, <3>2 DEF LoginSucceeds, Returned, Idle, Frame
      <3>4. frame[t].bound \in {state.application, NoTitle}
        BY <2>5 DEF LoginSucceeds, TitleInv
      <3>5. QED
        BY <3>1, <3>3, <3>4 DEF TitleInv
    <2>6. QED
      BY <1>7, <2>1, <2>2, <2>3, <2>4, <2>5 DEF Step
  <1>8. CASE Restart
    <2>1. state'.idToken = None /\ \A u \in Threads : frame'[u].pc = "idle"
      BY <1>8 DEF Restart, Fresh0, Idle
    <2>2. QED
      BY <2>1 DEF TitleInv
  <1>9. CASE UNCHANGED vars
    BY <1>9 DEF vars, TitleInv
  <1>10. QED
    BY <1>2, <1>3, <1>4, <1>5, <1>6, <1>7, <1>8, <1>9 DEF Next

\* A token that Fresh() lets through was minted for the bound title or for none, for any
\* number of titles, threads and Configure calls: SetApplication waits for the lock, so the
\* title that LoginLocked reads twice is one.
THEOREM NoOtherTitlesToken == Spec => []FreshIsNoOtherTitles
  <1>1. Init => TitleInv
    BY DEF Init, Fresh0, Idle, TitleInv
  <1>2. TitleInv => FreshIsNoOtherTitles
    BY DEF TitleInv, FreshIsNoOtherTitles, Fresh
  <1>3. QED
    BY <1>1, <1>2, TitleStep, InductiveHolds, PTL DEF Spec

-----------------------------------------------------------------------------
(* One identity, over any number of Configures.                            *)

\* A process that is not configured has no account and no token.  While no Configure
\* changed the server, what the session holds and every bearer on its way is this
\* server's, whatever became of the profile.
ServerAgrees == "server" \notin mixed =>
    /\ state.device # None => state.device.server = state.server
    /\ state.applicationToken # None => state.applicationToken.server = state.server
    /\ \A t \in Threads : At(t, "send") => frame[t].bearer.server = state.server
    /\ strayed = {}

Home ==
    /\ state.server = None =>
          /\ state.device = None /\ state.idToken = None
          /\ state.user = None /\ state.applicationToken = None
    /\ DeviceIsThisProfiles /\ IdentityAgrees /\ ServerAgrees

\* The account that is loaded is the profile's on this server, and no other's.
LEMMA LoadedIsThisProfiles ==
    ASSUME TypeOK, DiskInv, AccountsUnshared, NEW s \in Servers, NEW p \in Owners,
           disk' = Adopted(s, p), linked' = linked, minted' = minted,
           NEW d, d = LoadDeviceAccount(s, p, None), d # None
    PROVE  /\ d.server = s /\ disk'[s][p] = d
           /\ \A q \in Owners \ {p} : disk'[s][q] # d
  <1>1. d \in Account /\ disk'[s][p] = d
    BY LoadAnswer
  <1>2. DiskInv' /\ AccountsUnshared'
    BY AdoptionKeeps
  <1>3. QED
    BY <1>1, <1>2, AbsentAssumption DEF DiskInv, AccountsUnshared

\* Every step keeps the identity in one piece, or records what it put out of step.
LEMMA HomeStep == Inductive /\ Home /\ [Next]_vars => Home'
  <1> SUFFICES ASSUME Inductive, Home, [Next]_vars PROVE Home'
    OBVIOUS
  <1>0. /\ TypeOK /\ Locked /\ ServerInv /\ DiskInv /\ MemoryInv /\ AccountsUnshared
        /\ state \in State /\ frame \in [Threads -> Frame] /\ active \in Owners
        /\ state.profile \in Owners
        /\ disk \in [Servers -> [Owners -> Account \cup {None, Torn}]]
    BY DEF Inductive, TypeOK, State
  <1>a. None \notin Account /\ Torn \notin Account /\ None # Torn /\ None \notin Threads
        /\ None \notin Servers
    BY AbsentAssumption
  <1>b. state.server = None => \A t \in Threads : At(t, "idle")
    BY <1>0 DEF ServerInv
  <1>c. state.device = None /\ "account" \notin mixed =>
            /\ state.idToken = None /\ state.user = None
            /\ state.applicationToken # None => state.applicationToken.user = None
    BY <1>0, <1>a DEF Home, IdentityAgrees, State, IdToken
  <1>d. ASSUME UNCHANGED <<state, disk, mixed, strayed>>,
               \A t \in Threads : frame'[t].pc = "send" =>
                  frame[t].pc = "send" /\ frame'[t].bearer = frame[t].bearer
        PROVE  Home'
    BY <1>d DEF Home, DeviceIsThisProfiles, IdentityAgrees, ServerAgrees
  <1> USE DEF host, server
  <1>1. ASSUME NEW z \in Servers, Configure(z) PROVE Home'
    <2> DEFINE d == LoadDeviceAccount(z, active, state.device)
    <2>1. /\ state'.server = z /\ state'.profile = active /\ state'.device = d
          /\ state'.idToken = state.idToken /\ state'.user = state.user
          /\ state'.applicationToken = state.applicationToken
          /\ mixed' = mixed \cup Mixes(z, d)
          /\ disk' = Adopted(z, active) /\ UNCHANGED <<frame, strayed, linked, minted>>
      BY <1>0, <1>1 DEF Configure, State
    <2>2. \/ d = state.device /\ disk'[z][active] \in {None, Torn}
          \/ d \in Account /\ disk'[z][active] = d
      BY <1>0, <2>1, LoadAnswer DEF State
    <2>3. d = LoadDeviceAccount(z, active, None) \/ d = state.device
      BY DEF LoadDeviceAccount
    <2>4. ASSUME d # None, d = LoadDeviceAccount(z, active, None)
          PROVE  /\ d.server = z /\ disk'[z][active] = d
                 /\ \A q \in Owners \ {active} : disk'[z][q] # d
      BY <1>0, <2>1, <2>4, LoadedIsThisProfiles
    <2> HIDE DEF d
    <2>5. CASE state.server = None
      <3>1. /\ state'.idToken = None /\ state'.user = None /\ state'.applicationToken = None
            /\ state.device = None
        BY <2>1, <2>5 DEF Home
      <3>2. DeviceIsThisProfiles'
        BY <2>1, <2>3, <2>4, <3>1 DEF DeviceIsThisProfiles
      <3>3. \A t \in Threads : ~At(t, "send")'
        BY <1>b, <2>1, <2>5
      <3>4. ServerAgrees'
        <4>1. "server" \notin mixed' => "server" \notin mixed
          BY <2>1
        <4>2. QED
          BY <2>1, <2>3, <2>4, <3>1, <3>3, <4>1 DEF ServerAgrees, Home
      <3>5. QED
        BY <1>a, <2>1, <3>1, <3>2, <3>4 DEF Home, IdentityAgrees
    <2>6. CASE state.server \notin {None, z}
      <3>1. "account" \in mixed' /\ "server" \in mixed'
        BY <2>1, <2>6 DEF Mixes
      <3>2. QED
        BY <1>a, <2>1, <3>1 DEF Home, DeviceIsThisProfiles, IdentityAgrees, ServerAgrees
    <2>7. CASE state.server = z
      <3>1. /\ "account" \notin mixed' => "account" \notin mixed
            /\ "server" \notin mixed' => "server" \notin mixed
            /\ "account" \notin mixed' /\ state.device # None =>
                  active = state.profile /\ d = state.device
        BY <2>1 DEF Mixes
      <3>2. ServerAgrees'
        BY <2>1, <2>3, <2>4, <2>7, <3>1 DEF Home, ServerAgrees
      <3>3. IdentityAgrees'
        BY <1>c, <2>1, <2>7, <3>1 DEF Home, IdentityAgrees
      <3>4. DeviceIsThisProfiles'
        <4>1. CASE d = LoadDeviceAccount(z, active, None)
          BY <2>1, <2>4, <4>1 DEF DeviceIsThisProfiles
        <4>2. CASE d = state.device /\ d # None /\ "account" \notin mixed'
          <5>1. d.server = z /\ active = state.profile /\ d \in Account
            BY <1>0, <2>7, <3>1, <4>2 DEF Home, DeviceIsThisProfiles, State
          <5>2. \A q \in Owners \ {active} : disk[z][q] # d
            BY <2>7, <3>1, <4>2, <5>1 DEF Home, DeviceIsThisProfiles
          <5>3. \A q \in Owners \ {active} : disk'[z][q] \in {disk[z][q], None}
            BY <1>0, <2>1, AdoptedShape
          <5>4. disk'[z][active] \in {d, None, Torn}
            BY <2>2
          <5>5. QED
            BY <1>a, <2>1, <5>1, <5>2, <5>3, <5>4 DEF DeviceIsThisProfiles
        <4>3. QED
          BY <2>1, <2>3, <4>1, <4>2 DEF DeviceIsThisProfiles
      <3>5. QED
        BY <1>a, <2>1, <3>2, <3>3, <3>4 DEF Home
    <2>8. QED
      BY <2>5, <2>6, <2>7
  <1>2. CASE Expire \/ \E title \in Titles \cup {NoTitle} : SetApplication(title)
    <2>1. /\ state'.server = state.server /\ state'.device = state.device
          /\ state'.profile = state.profile /\ state'.idToken = state.idToken
          /\ state'.user = state.user /\ state'.applicationToken = state.applicationToken
          /\ UNCHANGED <<disk, frame, strayed, mixed>>
      BY <1>0, <1>2 DEF SetApplication, Expire, State
    <2>2. QED
      BY <2>1 DEF Home, DeviceIsThisProfiles, IdentityAgrees, ServerAgrees
  <1>3. ASSUME NEW p \in Owners, SwitchProfile(p) PROVE Home'
    BY <1>3, <1>d DEF SwitchProfile
  <1>4. ASSUME NEW p \in Owners, ForgetProfile(p) PROVE Home'
    <2>1. UNCHANGED <<state, frame, strayed, mixed>>
      BY <1>4 DEF ForgetProfile
    <2>2. \A s \in Servers, q \in Owners : disk'[s][q] = IF q = p THEN None ELSE disk[s][q]
      BY <1>0, <1>4 DEF ForgetProfile
    <2>3. DeviceIsThisProfiles'
      <3>1. "account" \notin mixed /\ state.device # None => state.server \in Servers
        BY <1>0 DEF Home, DeviceIsThisProfiles, State, Account
      <3>2. QED
        BY <1>0, <1>a, <2>1, <2>2, <3>1 DEF Home, DeviceIsThisProfiles
    <2>4. QED
      BY <2>1, <2>3 DEF Home, IdentityAgrees, ServerAgrees
  <1>5. ASSUME NEW t \in Threads, NEW c \in Calls, Begin(t, c) PROVE Home'
    <2>1. \A u \in Threads \ {t} : frame'[u] = frame[u]
      BY <1>0, <1>5 DEF Begin
    <2>2. frame'[t].pc = "compare"
      BY <1>0, <1>5 DEF Begin, Idle
    <2>3. QED
      BY <1>5, <1>d, <2>1, <2>2 DEF Begin
  <1>6. ASSUME NEW t \in Threads, Step(t) PROVE Home'
    <2>0. state.server \in Servers
      <3>1. ~At(t, "idle")
        BY <1>6 DEF Step, Compare, Switch, Lock, Exchange, Create, SaveDeviceAccount,
                    LoginSucceeds, LoginFails, TakeToken, SendRequest
      <3>2. QED
        BY <1>0, <3>1 DEF ServerInv, State
    <2>a. \A u \in Threads \ {t} : frame'[u] = frame[u]
      BY <1>0, <1>6 DEF Step, Compare, Switch, Lock, Exchange, Create, SaveDeviceAccount,
                  LoginSucceeds, LoginFails, TakeToken, SendRequest, Returned
    <2>1. CASE Compare(t) \/ Lock(t)
      <3>1. frame'[t].pc # "send"
        BY <1>0, <2>1 DEF Compare, Lock, Returned, Idle, Frame
      <3>2. QED
        BY <1>d, <2>1, <2>a, <3>1 DEF Compare, Lock
    <2>2. CASE Switch(t)
      <3>1. frame'[t].pc # "send" /\ UNCHANGED <<strayed, linked, minted>>
        BY <1>0, <2>2 DEF Switch, Frame
      <3>2. CASE UNCHANGED <<state, disk, mixed>>
        BY <1>d, <2>a, <3>1, <3>2
      <3>3. CASE frame[t].seen # state.profile
        <4>1. /\ state'.server = state.server /\ state'.profile = frame[t].seen
              /\ state'.device = LoadDeviceAccount(state.server, frame[t].seen, None)
              /\ state'.idToken = None /\ state'.user = None /\ state'.applicationToken = None
              /\ disk' = Adopted(state.server, frame[t].seen) /\ frame[t].seen \in Owners
              /\ mixed' = mixed \ {"account"}
          BY <1>0, <2>2, <3>3 DEF Switch, Fresh0, Frame
        <4>2. state'.device # None =>
                 /\ state'.device.server = state.server
                 /\ disk'[state.server][frame[t].seen] = state'.device
                 /\ \A q \in Owners \ {frame[t].seen} : disk'[state.server][q] # state'.device
          BY <1>0, <2>0, <3>1, <4>1, LoadedIsThisProfiles
        <4>3. DeviceIsThisProfiles' /\ IdentityAgrees'
          BY <4>1, <4>2 DEF DeviceIsThisProfiles, IdentityAgrees
        <4>4. ServerAgrees'
          BY <2>a, <3>1, <4>1, <4>2 DEF Home, ServerAgrees
        <4>5. QED
          BY <1>a, <2>0, <4>1, <4>3, <4>4 DEF Home
      <3>4. QED
        BY <2>2, <3>2, <3>3 DEF Switch
    <2>3. CASE Exchange(t)
      <3>1. /\ state'.server = state.server /\ state'.profile = state.profile
            /\ state'.idToken = state.idToken /\ state'.user = state.user
            /\ state'.applicationToken = [server |-> state.server, user |-> None]
            /\ UNCHANGED <<strayed, linked, minted, mixed>>
        BY <1>0, <2>3 DEF Exchange, State
      <3>2. frame'[t].pc # "send"
        BY <1>0, <2>3 DEF Exchange, Frame
      <3>3. CASE state.device # None
        <4>1. state'.device = state.device /\ UNCHANGED disk
          BY <1>0, <2>3, <3>3 DEF Exchange, State
        <4>2. DeviceIsThisProfiles' /\ IdentityAgrees'
          BY <3>1, <4>1 DEF Home, DeviceIsThisProfiles, IdentityAgrees
        <4>3. ServerAgrees'
          BY <2>a, <3>1, <3>2, <4>1 DEF Home, ServerAgrees
        <4>4. QED
          BY <1>a, <2>0, <3>1, <4>2, <4>3 DEF Home
      <3>4. CASE state.device = None
        <4>1. /\ state'.device = LoadDeviceAccount(state.server, state.profile, None)
              /\ disk' = Adopted(state.server, state.profile)
          BY <1>0, <2>3, <3>4 DEF Exchange, State
        <4>2. state'.device # None =>
                 /\ state'.device.server = state.server
                 /\ disk'[state.server][state.profile] = state'.device
                 /\ \A q \in Owners \ {state.profile} : disk'[state.server][q] # state'.device
          BY <1>0, <2>0, <3>1, <4>1, LoadedIsThisProfiles
        <4>3. DeviceIsThisProfiles' /\ IdentityAgrees'
          BY <1>c, <3>1, <3>4, <4>2 DEF DeviceIsThisProfiles, IdentityAgrees
        <4>4. ServerAgrees'
          BY <2>a, <3>1, <3>2, <4>2 DEF Home, ServerAgrees
        <4>5. QED
          BY <1>a, <2>0, <3>1, <4>3, <4>4 DEF Home
      <3>5. QED
        BY <3>3, <3>4
    <2>4. CASE Create(t)
      <3>1. state.device = None
        BY <1>0, <2>4 DEF Create, MemoryInv
      <3>2. /\ state'.server = state.server /\ state'.profile = state.profile
            /\ state'.device = [server |-> state.server, serial |-> minted + 1]
            /\ state'.idToken = state.idToken /\ state'.user = state.user
            /\ state'.applicationToken = state.applicationToken
            /\ UNCHANGED <<strayed, mixed>>
        BY <1>0, <2>4 DEF Create, State
      <3>3. \A q \in Owners : disk'[state.server][q] =
                                 IF q = state.profile THEN Torn ELSE disk[state.server][q]
        BY <1>0, <2>0, <2>4 DEF Create
      <3>4. \A q \in Owners : disk[state.server][q] # state'.device
        <4>1. minted + 1 \in 1..MaxAccounts
          BY <1>0, <2>4, SessionAssumption DEF Create, TypeOK
        <4>2. state'.device \in Account /\ state'.device.serial = minted + 1
          BY <2>0, <3>2, <4>1 DEF Account
        <4>3. minted \in Nat
          BY <1>0, SessionAssumption DEF TypeOK
        <4>4. QED
          BY <1>0, <2>0, <4>2, <4>3 DEF DiskInv
      <3>5. state'.device.server = state.server
        BY <3>2
      <3>6. DeviceIsThisProfiles'
        BY <1>0, <3>2, <3>3, <3>4, <3>5 DEF DeviceIsThisProfiles
      <3>7. IdentityAgrees'
        BY <1>c, <3>1, <3>2 DEF IdentityAgrees, Home
      <3>8. frame'[t].pc # "send"
        BY <1>0, <2>4 DEF Create, Frame
      <3>9. ServerAgrees'
        BY <2>a, <3>2, <3>5, <3>8 DEF Home, ServerAgrees
      <3>10. QED
        BY <1>a, <2>0, <3>2, <3>6, <3>7, <3>9 DEF Home
    <2>5. CASE SaveDeviceAccount(t)
      <3>1. \A q \in Owners : disk'[state.server][q] \in
               {disk[state.server][q]} \cup IF q = state.profile THEN {state.device} ELSE {}
        BY <1>0, <2>0, <2>5 DEF SaveDeviceAccount
      <3>2. UNCHANGED <<state, strayed, mixed>> /\ frame'[t].pc # "send"
        BY <1>0, <2>5 DEF SaveDeviceAccount, Frame
      <3>3. DeviceIsThisProfiles'
        BY <1>0, <3>1, <3>2 DEF DeviceIsThisProfiles, Home
      <3>4. ServerAgrees'
        BY <2>a, <3>2 DEF Home, ServerAgrees
      <3>5. QED
        BY <3>2, <3>3, <3>4 DEF Home, IdentityAgrees
    <2>6. CASE LoginSucceeds(t)
      <3>1. state.device # None
        BY <1>0, <2>6 DEF LoginSucceeds, MemoryInv
      <3>2. /\ state'.server = state.server /\ state'.profile = state.profile
            /\ state'.device = state.device /\ state'.user = state.device
            /\ state'.idToken = [account |-> state.device, title |-> frame[t].bound]
            /\ state'.applicationToken = [server |-> state.server, user |-> state.device]
            /\ strayed' = strayed \cup ({state.device.server} \ {state.server})
            /\ UNCHANGED <<disk, mixed>>
        BY <1>0, <2>6 DEF LoginSucceeds, Present, State
      <3>3. frame'[t].pc # "send"
        BY <1>0, <2>6 DEF LoginSucceeds, Returned, Idle, Frame
      <3>4. DeviceIsThisProfiles' /\ IdentityAgrees'
        BY <3>2 DEF Home, DeviceIsThisProfiles, IdentityAgrees
      <3>5. ServerAgrees'
        BY <2>a, <3>1, <3>2, <3>3 DEF Home, ServerAgrees
      <3>6. QED
        BY <1>a, <2>0, <3>2, <3>4, <3>5 DEF Home
    <2>7. CASE LoginFails(t)
      <3>1. UNCHANGED <<state, disk, mixed>> /\ frame'[t].pc # "send"
        BY <1>0, <2>7 DEF LoginFails, Returned, Idle, Frame
      <3>2. \/ strayed' = strayed
            \/ /\ state.device # None
               /\ strayed' = strayed \cup ({state.device.server} \ {state.server})
        BY <1>0, <2>7 DEF LoginFails, Present, MemoryInv
      <3>3. ServerAgrees'
        BY <2>a, <3>1, <3>2 DEF Home, ServerAgrees
      <3>4. QED
        BY <3>1, <3>3 DEF Home, DeviceIsThisProfiles, IdentityAgrees
    <2>8. CASE TakeToken(t)
      <3>1. frame'[t].pc = "send" => frame'[t].bearer = state.applicationToken
                                     /\ state.applicationToken # None
        BY <1>0, <2>8 DEF TakeToken, Idle, Frame
      <3>2. UNCHANGED <<state, disk, mixed, strayed>>
        BY <2>8 DEF TakeToken
      <3>3. ServerAgrees'
        BY <2>a, <3>1, <3>2 DEF Home, ServerAgrees
      <3>4. QED
        BY <3>2, <3>3 DEF Home, DeviceIsThisProfiles, IdentityAgrees
    <2>9. CASE SendRequest(t)
      <3>1. /\ strayed' = strayed \cup ({frame[t].bearer.server} \ {state.server})
            /\ UNCHANGED <<state, disk, mixed>> /\ frame[t].pc = "send"
        BY <2>9 DEF SendRequest, Present
      <3>2. frame'[t].pc # "send"
        BY <1>0, <2>9 DEF SendRequest, Idle
      <3>3. ServerAgrees'
        BY <2>a, <3>1, <3>2 DEF Home, ServerAgrees
      <3>4. QED
        BY <3>1, <3>3 DEF Home, DeviceIsThisProfiles, IdentityAgrees
    <2>10. QED
      BY <1>6, <2>1, <2>2, <2>3, <2>4, <2>5, <2>6, <2>7, <2>8, <2>9 DEF Step
  <1>7. CASE Restart
    <2>1. /\ state'.server = None /\ state'.device = None /\ state'.idToken = None
          /\ state'.user = None /\ state'.applicationToken = None
          /\ strayed' = {} /\ \A t \in Threads : frame'[t].pc = "idle"
      BY <1>7 DEF Restart, Fresh0, Idle
    <2>2. QED
      BY <2>1 DEF Home, DeviceIsThisProfiles, IdentityAgrees, ServerAgrees
  <1>8. CASE UNCHANGED vars
    BY <1>8, <1>d DEF vars
  <1>9. QED
    BY <1>1, <1>2, <1>3, <1>4, <1>5, <1>6, <1>7, <1>8 DEF Next

\* What is in step is so throughout.
LEMMA HomeHolds == Spec => []Home
  <1>1. Init => Home
    BY DEF Init, Fresh0, Idle, Home, DeviceIsThisProfiles, IdentityAgrees, ServerAgrees
  <1>2. QED
    BY <1>1, HomeStep, InductiveHolds, PTL DEF Spec

\* For any profiles, servers, titles, threads, Configures and crashes: the account in
\* memory is the open profile's on the open server (FollowProfile, LoadDeviceAccount,
\* LoginLocked), except between a Configure that changes profile, server or account
\* under it (session.cpp:905-916) and the next switch.
THEOREM DeviceFollowsProfile == Spec => []DeviceIsThisProfiles
  <1>1. Home => DeviceIsThisProfiles
    BY DEF Home
  <1>2. QED
    BY <1>1, HomeHolds, PTL

\* ... with the same exception, token, user, bearer and account are one identity, through
\* profile switches, repeated Configures and logins that fail at any of their steps ...
THEOREM OneIdentity == Spec => []IdentityAgrees
  <1>1. Home => IdentityAgrees
    BY DEF Home
  <1>2. QED
    BY <1>1, HomeHolds, PTL

\* ... and a process whose Configures name one server, however many they are, sends no
\* device password or bearer to a server that did not issue it, whatever servers the
\* processes before it were given and whichever profiles it had mixed up.
THEOREM CredentialsGoHome == Spec => []HomeUnlessMoved
  <1>1. Home => HomeUnlessMoved
    BY DEF Home, ServerAgrees, HomeUnlessMoved, CredentialsStayHome
  <1>2. QED
    BY <1>1, HomeHolds, PTL
=============================================================================
