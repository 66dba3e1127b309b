------------------------------ MODULE Session ------------------------------
(***************************************************************************)
(* The sign-in chain of client/openpak/session.cpp: which server, which    *)
(* local profile and which device account the process speaks for, the      *)
(* id_token it hands to a title, and the bearer it speaks with.            *)
(*                                                                         *)
(* Every field of the C++ State that the chain touches is a field of       *)
(* `state'.  `mutex' is State::mutex: the network part of LoginLocked runs *)
(* with it held, so a login is several steps here and nobody else's locked *)
(* section runs between them; a crash may.  FollowProfile is three locked  *)
(* sections with a network call in the middle, so other threads' steps do  *)
(* run between those.                                                      *)
(*                                                                         *)
(* Data: a device account is the server that made it and a serial number;  *)
(* it is also the BAAS user the login answers with.  The server's answers  *)
(* to a successful login carry an idToken, a user and an accessToken.      *)
(***************************************************************************)
EXTENDS Naturals, FiniteSets

CONSTANTS
    Profiles,       \* local profiles of the host (Platform::ProfileId)
    NoProfile,      \* the empty profile id: a host without profiles
    Servers,        \* OpenPak servers the host may point the session at
    Titles,         \* application ids a host may bind
    NoTitle,        \* the empty application id: the game list
    Threads,        \* threads that call into the session
    Calls,          \* what they call: Ensure, Link, SendAs
    None,           \* an empty string or absent file
    Torn,           \* a device account file cut off by a crash while written
    MaxAccounts,    \* bound: device accounts ever created
    MaxRestarts     \* bound: crashes

ASSUME SessionAssumption ==
    /\ NoProfile \notin Profiles
    /\ NoTitle \notin Titles
    /\ Calls \subseteq {"Ensure", "Link", "SendAs"}
    /\ MaxAccounts \in Nat /\ MaxRestarts \in Nat

Owners  == Profiles \cup {NoProfile}
Account == [server : Servers, serial : 1..MaxAccounts]

ASSUME AbsentAssumption ==
    /\ None \notin Account \cup Servers /\ Torn \notin Account
    /\ None # Torn /\ None \notin Threads

\* What the session holds as its bearer: the device-scoped token of the
\* exchange, or the user-scoped accessToken of a login.
Bearer  == [server : Servers, user : Account \cup {None}]
IdToken == [account : Account, title : Titles \cup {NoTitle}]

VARIABLES
    state,      \* the C++ State: server, profile, device account, tokens, user
    mutex,      \* State::mutex: the thread that holds it, or None
    disk,       \* disk[s][p]: the device account file of profile p on server s
    active,     \* the host's active profile, what Platform::ProfileId answers
    linked,     \* server side: device accounts bound to a person (federation)
    minted,     \* number of device accounts created so far
    frame,      \* each thread's call: where it is, and its local variables
    strayed,    \* history: servers whose credentials this process sent to another one
    forgotten,  \* history: accounts ForgetProfile removed, or never written
    mixed,      \* history: what a later Configure of this process put out of step
    restarts

host   == <<active, mixed, restarts>>
server == <<linked, minted>>
vars   == <<state, mutex, disk, frame, strayed, forgotten, server, host>>

PCs   == {"idle", "compare", "switch", "lock", "exchange", "create", "save",
          "login", "token", "send"}

\* A thread's call: `seen' is FollowProfile's copy of the profile id, `bound'
\* the title LoginLocked's application_auth_token names, `bearer' SendAs's copy
\* of the token.
Frame == [pc : PCs, call : {"Ensure", "Link", "SendAs"}, seen : Owners,
          bound : Titles \cup {NoTitle}, bearer : Bearer \cup {None}]
Idle  == [pc |-> "idle", call |-> "Ensure", seen |-> NoProfile,
          bound |-> NoTitle, bearer |-> None]

\* The part of the C++ State the chain touches; the empty string is None.
State == [server : Servers \cup {None}, profile : Owners,
          device : Account \cup {None}, idToken : IdToken \cup {None},
          idTokenApplication : Titles \cup {NoTitle}, unexpired : BOOLEAN,
          applicationToken : Bearer \cup {None}, user : Account \cup {None},
          application : Titles \cup {NoTitle}]

\* The State of a process that has not been configured.
Fresh0 == [server |-> None, profile |-> NoProfile, device |-> None,
           idToken |-> None, idTokenApplication |-> NoTitle, unexpired |-> FALSE,
           applicationToken |-> None, user |-> None, application |-> NoTitle]

Init ==
    /\ state = Fresh0 /\ mutex = None
    /\ disk = [s \in Servers |-> [p \in Owners |-> None]]
    /\ active \in Owners
    /\ linked = {} /\ minted = 0
    /\ frame = [t \in Threads |-> Idle]
    /\ strayed = {} /\ forgotten = {}
    /\ mixed = {} /\ restarts = 0

-----------------------------------------------------------------------------
(* Device account files.                                                   *)

\* Mutant: the file from before profiles is copied and not moved.
AdoptedCopy(s, p) ==
    IF p # NoProfile /\ disk[s][p] = None /\ disk[s][NoProfile] # None
    THEN [disk EXCEPT ![s][p] = disk[s][NoProfile]]
    ELSE disk

\* LoadDeviceAccount's first half: the file from before profiles goes to the
\* profile that is open when it is first looked for.
Adopted(s, p) ==
    IF p # NoProfile /\ disk[s][p] = None /\ disk[s][NoProfile] # None
    THEN [disk EXCEPT ![s][p] = disk[s][NoProfile], ![s][NoProfile] = None]
    ELSE disk

\* Mutant: an unreadable file is taken for an account.
LoadDeviceAccountUnparsed(s, p, device) ==
    LET file == Adopted(s, p)[s][p]
    IN  IF file = None THEN device ELSE file

\* Mutant: the file name does not carry the server.
LoadDeviceAccountAnyServer(s, p, device) ==
    LET files == {disk[x][p] : x \in Servers} \ {None, Torn}
    IN  IF files = {} THEN device ELSE CHOOSE f \in files : TRUE

\* Its second half: the device account in memory after the load.  A missing
\* or unreadable file leaves what was there.
LoadDeviceAccount(s, p, device) ==
    LET file == Adopted(s, p)[s][p]
    IN  IF file \in {None, Torn} THEN device ELSE file

-----------------------------------------------------------------------------
(* The host's calls.                                                       *)

\* What a Configure that leaves `device' in memory puts out of step: "server",
\* when it is another server's turn and the tokens stay; "account", when it opens
\* another profile, or finds another account, beside the tokens of the last one.
Mixes(s, device) ==
    (IF state.server \in {None, s} THEN {} ELSE {"server", "account"})
    \cup (IF state.device # None /\ (active # state.profile \/ device # state.device)
          THEN {"account"} ELSE {})

\* Configure: the profile, the server and what the disk says of its account.  A
\* process may call it again (Android: the app at launch and the account service).
Configure(s) ==
    /\ mutex = None
    /\ LET device == LoadDeviceAccount(s, active, state.device)
       IN  /\ state' = [state EXCEPT !.profile = active, !.server = s, !.device = device]
           /\ mixed' = mixed \cup Mixes(s, device)
    /\ disk' = Adopted(s, active)
    /\ UNCHANGED <<mutex, frame, strayed, forgotten, server, active, restarts>>

SetApplication(title) ==
    /\ mutex = None
    /\ title # state.application
    /\ state' = [state EXCEPT !.application = title]
    /\ UNCHANGED <<mutex, disk, frame, strayed, forgotten, server, host>>

\* The host's profile changes; the session finds out at its next call.
SwitchProfile(p) ==
    /\ p # active
    /\ active' = p
    /\ UNCHANGED <<state, mutex, disk, frame, strayed, forgotten, server, mixed, restarts>>

\* ForgetProfile takes no lock: it removes the profile's files, every server's.
\* An account that is in memory for that profile is forgotten with them.
ForgetProfile(p) ==
    /\ p # NoProfile
    /\ \E s \in Servers : disk[s][p] # None
    /\ forgotten' = forgotten \cup
           (({disk[s][p] : s \in Servers}
               \cup (IF state.profile = p THEN {state.device} ELSE {})) \ {None, Torn})
    /\ disk' = [s \in Servers |-> [disk[s] EXCEPT ![p] = None]]
    /\ UNCHANGED <<state, mutex, frame, strayed, server, host>>

\* Time passes: the cached id_token is within five minutes of its expiry.
Expire ==
    /\ state.unexpired
    /\ mutex = None
    /\ state' = [state EXCEPT !.unexpired = FALSE]
    /\ UNCHANGED <<mutex, disk, frame, strayed, forgotten, server, host>>

-----------------------------------------------------------------------------
(* FollowProfile, which Ensure, Link and (through Ensure) SendAs start with. *)

At(t, where)   == frame[t].pc = where
Goto(t, where) == frame' = [frame EXCEPT ![t].pc = where]
Leave(t)       == frame' = [frame EXCEPT ![t] = Idle]

\* Enabled(), then the profile id, read outside State::mutex.
Begin(t, c) ==
    /\ At(t, "idle") /\ mutex = None
    /\ state.server # None
    /\ frame' = [frame EXCEPT ![t] = [Idle EXCEPT !.pc = "compare", !.call = c,
                                                  !.seen = active]]
    /\ UNCHANGED <<state, mutex, disk, strayed, forgotten, server, host>>

\* The first locked look.  A different profile is told to the server as
\* INACTIVE (a network call, without the lock) before the switch.
Compare(t) ==
    /\ At(t, "compare") /\ mutex = None
    /\ Goto(t, IF frame[t].seen = state.profile THEN "lock" ELSE "switch")
    /\ UNCHANGED <<state, mutex, disk, strayed, forgotten, server, host>>

\* Mutant: the device account is not cleared.
SwitchKeepsDevice(t) ==
    /\ At(t, "switch") /\ mutex = None
    /\ state' = [Fresh0 EXCEPT
                     !.server = state.server, !.profile = frame[t].seen,
                     !.application = state.application,
                     !.device = LoadDeviceAccount(state.server, frame[t].seen, state.device)]
    /\ disk' = Adopted(state.server, frame[t].seen)
    /\ Goto(t, "lock")
    /\ UNCHANGED <<mutex, strayed, forgotten, server, host>>

\* Mutant: the token and the user are not cleared.
SwitchKeepsToken(t) ==
    /\ At(t, "switch") /\ mutex = None
    /\ state' = [state EXCEPT
                     !.profile = frame[t].seen,
                     !.device = LoadDeviceAccount(state.server, frame[t].seen, None)]
    /\ disk' = Adopted(state.server, frame[t].seen)
    /\ Goto(t, "lock")
    /\ UNCHANGED <<mutex, strayed, forgotten, server, host>>

\* The second locked look, and the switch: nothing of the old profile stays.
Switch(t) ==
    /\ At(t, "switch") /\ mutex = None
    /\ IF frame[t].seen = state.profile
       THEN UNCHANGED <<state, disk, mixed>>
       ELSE /\ state' = [Fresh0 EXCEPT
                             !.server = state.server, !.profile = frame[t].seen,
                             !.application = state.application,
                             !.device = LoadDeviceAccount(state.server, frame[t].seen, None)]
            /\ disk' = Adopted(state.server, frame[t].seen)
            /\ mixed' = mixed \ {"account"}
    /\ Goto(t, "lock")
    /\ UNCHANGED <<mutex, strayed, forgotten, server, active, restarts>>

-----------------------------------------------------------------------------
(* Ensure and LoginLocked.                                                 *)

\* Mutant: a token is fresh for any title.
FreshForAny == state.idToken # None /\ state.unexpired

\* Fresh(): a token, for the bound title, that has not aged.
Fresh ==
    /\ state.idToken # None
    /\ state.idTokenApplication = state.application
    /\ state.unexpired

\* Ensure or Link returned: SendAs goes on with the token, whatever the result was.
Returned(t) == IF frame[t].call = "SendAs" THEN Goto(t, "token") ELSE Leave(t)

\* The lock is taken; a fresh token is the whole of Ensure, and Link always
\* runs the chain.
Lock(t) ==
    /\ At(t, "lock") /\ mutex = None
    /\ IF frame[t].call # "Link" /\ Fresh
       THEN Returned(t) /\ UNCHANGED mutex
       ELSE Goto(t, "exchange") /\ mutex' = t
    /\ UNCHANGED <<state, disk, strayed, forgotten, server, host>>

\* Credentials issued by server s are sent to the open one.
Present(s) == strayed' = strayed \cup ({s} \ {state.server})

\* The chain stops: the error path changes nothing else here.  The server may
\* have bound the account before the answer to /federation was lost.
LoginFails(t) ==
    /\ frame[t].pc \in {"exchange", "create", "login"}
    /\ mutex' = None
    /\ Returned(t)
    /\ IF At(t, "login") THEN Present(state.device.server) ELSE UNCHANGED strayed
    /\ \/ UNCHANGED linked
       \/ /\ At(t, "login") /\ frame[t].call = "Link"
          /\ linked' = linked \cup {state.device}
    /\ UNCHANGED <<state, disk, forgotten, minted, host>>

\* dauth, aauth and the token exchange.  A title's application_auth_token
\* that does not come is not an error.  Then the device account, from disk
\* when it is not in memory.
Exchange(t) ==
    /\ At(t, "exchange")
    /\ LET load   == state.device = None
           device == IF load
                     THEN LoadDeviceAccount(state.server, state.profile, None)
                     ELSE state.device
       IN  /\ state' = [state EXCEPT
                            !.device = device,
                            !.applicationToken = [server |-> state.server, user |-> None]]
           /\ disk' = IF load THEN Adopted(state.server, state.profile) ELSE disk
           /\ \E title \in {state.application, NoTitle} :
                 frame' = [frame EXCEPT ![t].pc = IF device = None THEN "create" ELSE "login",
                                        ![t].bound = title]
    /\ UNCHANGED <<mutex, strayed, forgotten, server, host>>

\* Mutant: the account is not written before it is used.
CreateUnsaved(t) ==
    /\ At(t, "create")
    /\ minted < MaxAccounts
    /\ minted' = minted + 1
    /\ state' = [state EXCEPT !.device = [server |-> state.server, serial |-> minted']]
    /\ Goto(t, "login")
    /\ UNCHANGED <<mutex, disk, strayed, forgotten, linked, host>>

\* POST /1.0.0/users, and SaveDeviceAccount as far as the truncated file.
Create(t) ==
    /\ At(t, "create")
    /\ minted < MaxAccounts
    /\ minted' = minted + 1
    /\ state' = [state EXCEPT !.device = [server |-> state.server, serial |-> minted']]
    /\ disk' = [disk EXCEPT ![state.server][state.profile] = Torn]
    /\ Goto(t, "save")
    /\ UNCHANGED <<mutex, strayed, forgotten, linked, host>>

\* SaveDeviceAccount's write.  Its result is not looked at: a full disk leaves
\* the truncated file, and a file removed since it was opened stays removed.
SaveDeviceAccount(t) ==
    /\ At(t, "save")
    /\ \/ /\ disk[state.server][state.profile] = Torn
          /\ disk' = [disk EXCEPT ![state.server][state.profile] = state.device]
          /\ UNCHANGED forgotten
       \/ /\ forgotten' = forgotten \cup {state.device}
          /\ UNCHANGED disk
    /\ Goto(t, "login")
    /\ UNCHANGED <<state, mutex, strayed, server, host>>

\* /login or /federation answered: the identity is this device account's.
LoginSucceeds(t) ==
    /\ At(t, "login")
    /\ Present(state.device.server)
    /\ linked' = IF frame[t].call = "Link" THEN linked \cup {state.device} ELSE linked
    /\ state' = [state EXCEPT
                     !.idToken = [account |-> state.device, title |-> frame[t].bound],
                     !.idTokenApplication = state.application,
                     !.unexpired = TRUE,
                     !.user = state.device,
                     !.applicationToken = [server |-> state.server, user |-> state.device]]
    /\ mutex' = None
    /\ Returned(t)
    /\ UNCHANGED <<disk, forgotten, minted, host>>

\* SendAs: the token under the lock; the endpoint, and the request, after it.
TakeToken(t) ==
    /\ At(t, "token") /\ mutex = None
    /\ IF state.applicationToken = None
       THEN Leave(t)
       ELSE frame' = [frame EXCEPT ![t].pc = "send", ![t].bearer = state.applicationToken]
    /\ UNCHANGED <<state, mutex, disk, strayed, forgotten, server, host>>

SendRequest(t) ==
    /\ At(t, "send") /\ mutex = None
    /\ Present(frame[t].bearer.server)
    /\ Leave(t)
    /\ UNCHANGED <<state, mutex, disk, forgotten, server, host>>

\* The process ends at any point and starts again: only the disk is left.
Restart ==
    /\ restarts < MaxRestarts
    /\ restarts' = restarts + 1
    /\ state' = Fresh0
    /\ mutex' = None
    /\ frame' = [t \in Threads |-> Idle]
    /\ mixed' = {} /\ strayed' = {}
    /\ UNCHANGED <<disk, forgotten, server, active>>

Step(t) ==
    \/ Compare(t) \/ Switch(t) \/ Lock(t)
    \/ Exchange(t) \/ Create(t) \/ SaveDeviceAccount(t)
    \/ LoginSucceeds(t) \/ LoginFails(t)
    \/ TakeToken(t) \/ SendRequest(t)

Next ==
    \/ \E s \in Servers : Configure(s)
    \/ \E title \in Titles \cup {NoTitle} : SetApplication(title)
    \/ \E p \in Owners : SwitchProfile(p) \/ ForgetProfile(p)
    \/ Expire
    \/ \E t \in Threads : (\E c \in Calls : Begin(t, c)) \/ Step(t)
    \/ Restart

Spec == Init /\ [][Next]_vars

-----------------------------------------------------------------------------
\* The type invariant of State, the files and the calls under way.
TypeOK ==
    /\ state \in State
    /\ mutex \in Threads \cup {None}
    /\ disk \in [Servers -> [Owners -> Account \cup {None, Torn}]]
    /\ active \in Owners
    /\ linked \subseteq Account /\ forgotten \subseteq Account
    /\ minted \in 0..MaxAccounts
    /\ frame \in [Threads -> Frame]
    /\ strayed \subseteq Servers
    /\ mixed \subseteq {"account", "server"} /\ restarts \in 0..MaxRestarts

\* A device account is one profile's: whatever profiles are opened, left,
\* forgotten or given the file from before profiles, no account is ever in two
\* files (DeviceAccountPath, LoadDeviceAccount, SaveDeviceAccount).
AccountsUnshared ==
    \A s1, s2 \in Servers, p1, p2 \in Owners :
        /\ disk[s1][p1] = disk[s2][p2]
        /\ disk[s1][p1] \notin {None, Torn}
        => s1 = s2 /\ p1 = p2

\* The account in memory is the open profile's on the open server, and no
\* other profile's: FollowProfile keeps nothing of the profile it leaves, and
\* a stale second look never puts an account under another profile.  Not from a
\* Configure that changes the profile, the server or the account under the one in
\* memory (session.cpp:905-916 keeps it) to the next switch.
DeviceIsThisProfiles ==
    "account" \notin mixed /\ state.device # None =>
        /\ state.device.server = state.server
        /\ disk[state.server][state.profile] \in {state.device, None, Torn}
        /\ \A p \in Owners \ {state.profile} : disk[state.server][p] # state.device

\* Token, user, bearer and device account speak of one identity, through
\* switches, repeated Configures and logins that fail half way (LoginLocked,
\* FollowProfile); but not from a Configure as above to the next switch, since it
\* replaces the account and keeps the tokens.
IdentityAgrees ==
    "account" \notin mixed =>
        /\ state.idToken # None =>
              state.idToken.account = state.device /\ state.user = state.device
        /\ state.user # None => state.user = state.device
        /\ state.applicationToken # None =>
              /\ state.applicationToken.server = state.server
              /\ state.applicationToken.user \in {None, state.device}

\* An account the server bound to a person is never lost to a crash: it was on
\* disk before /federation was asked (SaveDeviceAccount before the login).
LinkedAccountKept ==
    \A a \in linked \ forgotten : \E p \in Owners : disk[a.server][p] = a

\* No device password and no bearer goes to a server that did not issue it
\* (ServerKey's comment; session.h: another server is another device account).
CredentialsStayHome == strayed = {}

\* ... and none does as long as no Configure of the process changed the server:
\* whatever server the process before used, whichever profiles are switched, and
\* whatever moment SendAs reads the bearer and then the endpoint at.
HomeUnlessMoved == "server" \notin mixed => CredentialsStayHome

\* A token that counts as fresh is no other title's: it was minted for the bound
\* title, or for none when its application_auth_token did not come (Fresh).
FreshIsNoOtherTitles == Fresh => state.idToken.title \in {state.application, NoTitle}

-----------------------------------------------------------------------------
(* The inductive invariant behind AccountsUnshared and LinkedAccountKept.  *)

\* State::mutex is held by exactly the thread that is inside LoginLocked.
Locked == \A t \in Threads :
    frame[t].pc \in {"exchange", "create", "save", "login"} <=> mutex = t

\* A call is only begun on a configured session, and sends with a bearer.
ServerInv == \A t \in Threads :
    /\ ~At(t, "idle") => state.server # None
    /\ At(t, "send") => frame[t].bearer # None

\* Files and bindings are of accounts the server has made.
DiskInv ==
    /\ \A s \in Servers, p \in Owners :
          disk[s][p] \in Account => disk[s][p].server = s /\ disk[s][p].serial <= minted
    /\ \A a \in linked : a.serial <= minted

Stored(a) == \E p \in Owners : disk[a.server][p] = a

\* The account in memory has its file, lost it, or is being written now; it is
\* only created for a profile that has none, and it is new when it is written.
MemoryInv ==
    /\ state.device # None =>
          /\ state.device.serial <= minted
          /\ \/ state.device \in forgotten \/ Stored(state.device)
             \/ \E t \in Threads : At(t, "save")
    /\ \A t \in Threads :
          /\ At(t, "create") => /\ state.device = None
                               /\ disk[state.server][state.profile] \in {None, Torn}
          /\ At(t, "save") => /\ state.device # None
                             /\ state.device.server = state.server
                             /\ state.device \notin linked
                             /\ disk[state.server][state.profile] \in {None, Torn}
                             /\ \A s \in Servers, p \in Owners : disk[s][p] # state.device
          /\ At(t, "login") => state.device # None

Inductive ==
    /\ TypeOK /\ Locked /\ ServerInv /\ DiskInv /\ MemoryInv
    /\ AccountsUnshared /\ LinkedAccountKept
=============================================================================
