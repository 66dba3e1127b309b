---------------------------- MODULE ClientProofs ----------------------------
(* Theorems about the client library in one process.  Each component's part   *)
(* of a step is picked out of the composed next-state relation first, so that *)
(* an invariant of the component is proved over the component's own actions.  *)
EXTENDS Client, TLAPS, WellFoundedInduction, FiniteSetTheorems

-----------------------------------------------------------------------------
(* Numbers. *)

\* A set of numbers that is not empty has a least one.
LEMMA LeastNumber ==
  ASSUME NEW S \in SUBSET Nat, S # {}
  PROVE  \E x \in S : \A y \in S : x <= y
<1> DEFINE R == OpToRel(<, Nat)
<1>1. IsWellFoundedOn(R, Nat)
  BY NatLessThanWellFounded
<1> HIDE DEF R
<1>2. PICK x \in S : \A y \in S : ~(<<y, x>> \in R)
  BY <1>1, WFMin, Zenon
<1>3. ASSUME NEW y \in S PROVE x <= y
  <2>1. <<y, x>> \notin R
    BY <1>2
  <2>2. y < x => <<y, x>> \in R
    BY DEF R, OpToRel
  <2> QED BY <2>1, <2>2
<1> QED BY <1>3

-----------------------------------------------------------------------------
(* The website account. *)

\* What a step of the process does to the account, the site and the calls.

Unloaded == UNCHANGED <<disk, mem>>

\* A getter of the UI thread, or of a thread that starts or ends a call.
Loads == (EnsureLoaded \/ Unloaded) /\ UNCHANGED <<active, site, call, revoking, webPast, webLeft>>

Jobs == {PostAccount, DeclineInvitation, SetModFavourite, GetProfile, GetAccountFriends,
         GetInvitations, GetCloudSaves, GetMods, GetNewsManifest, GetServiceStatus}

StartsJob ==
  /\ \E t \in {"worker", "poll"}, ops \in Jobs : Started(t, ops, {})
  /\ EnsureLoaded \/ Unloaded
  /\ UNCHANGED <<active, site, revoking, webPast, webLeft>>

StartsSignIn ==
  /\ Len(site.owner) < MaxTokens
  /\ \E who \in Accounts :
       Started("signin", IF active = Shared THEN SignInAccountOnly ELSE SignIn, {who})
  /\ UNCHANGED <<disk, mem, active, site, revoking, webPast, webLeft>>

EndsCall ==
  /\ \E t \in Callers : call' = [call EXCEPT ![t] = NoCall]
  /\ EnsureLoaded \/ Unloaded
  /\ UNCHANGED <<active, site, revoking, webPast, webLeft>>

LeavesCall ==
  /\ call' = [call EXCEPT !["old"] = call["worker"], !["worker"] = NoCall]
  /\ UNCHANGED <<disk, mem, active, site, revoking, webPast, webLeft>>

FriendIsOnline ==
  /\ \E online \in SUBSET Accounts : site' = [site EXCEPT !.online = online]
  /\ UNCHANGED <<disk, mem, active, call, revoking, webPast, webLeft>>

AccountDies ==
  /\ mem' = [loaded |-> FALSE, profile |-> Shared, held |-> None]
  /\ call' = [t \in Callers |-> NoCall] /\ revoking' = {}
  /\ UNCHANGED <<disk, active, site, webPast, webLeft>>

AccountChanges ==
  \/ \E profile \in Files : Forget(profile)
  \/ SwitchProfile \/ SignOut \/ Revoke \/ Expire \/ FriendIsOnline \/ AccountDies

CallGoesOn(t) ==
  \/ Bind(t) \/ Try(t) \/ FetchSwitch(t) \/ StillSignedIn(t)
  \/ \E reply \in Replies : OwnAnswered(t, reply) \/ PartAnswered(t, reply)
                            \/ PublicAnswered(t, reply) \/ Minted(t, reply) \/ Identified(t, reply)
  \/ Rechecks(t) \/ Stored(t) \/ KeptByName(t)

WebNext ==
  \/ Loads \/ StartsJob \/ StartsSignIn \/ EndsCall \/ LeavesCall \/ AccountChanges
  \/ \E t \in Callers : CallGoesOn(t)

Calls == [busy : BOOLEAN, ops : Seq(Steps), bound : 0..MaxTokens, sent : 0..MaxTokens,
          who : SUBSET Accounts, got : BOOLEAN, seen : SUBSET Accounts, as : 0..MaxTokens]

WebShape ==
  /\ disk \in [Files -> AccountFile]
  /\ mem \in [loaded : BOOLEAN, profile : Files, held : AccountFile]
  /\ active \in Files
  /\ site \in [owner : Seq(Accounts), revoked : SUBSET Tokens, online : SUBSET Accounts]
  /\ Len(site.owner) <= MaxTokens
  /\ call \in [Callers -> Calls]
  /\ revoking \in SUBSET Tokens /\ webPast \in Nat /\ webLeft \in [change : Nat, fault : Nat]

\* A step of the process does one of these to the website account, or leaves it alone.
LEMMA WebSteps == WebShape /\ [Next]_clientVars => [WebNext]_webVars
<1> SUFFICES ASSUME WebShape, [Next]_clientVars PROVE [WebNext]_webVars
  OBVIOUS
<1>1. CASE ProcessStarts \/ Network \/ Reports \/ Delivery \/ UNCHANGED clientVars
  BY <1>1 DEF ProcessStarts, Network, Reports, Delivery, clientVars
<1>2. CASE Web
  BY <1>2 DEF Web, WebNext, AccountChanges, CallGoesOn
<1>3. CASE SignInRechecks
  BY <1>3 DEF SignInRechecks, WebNext, CallGoesOn
<1>4. CASE ProcessDies
  BY <1>4 DEF ProcessDies, WebDie, WebNext, AccountChanges, AccountDies
<1>5. CASE Desktop
  <2>1. ASSUME NEW page \in PageSet, OpenWindow(page) \/ GoToPage(page) \/ Act(page) PROVE Loads
    BY <2>1 DEF OpenWindow, GoToPage, Act, Reads, Loads
  <2>2. CASE Refresh \/ RefreshTimer \/ StatusTimer \/ \E title \in Titles : PickTitle(title)
    BY <2>2 DEF Refresh, RefreshTimer, StatusTimer, PickTitle, Reads, Loads, WebNext
  <2>3. CASE CloseWindow
    BY <2>3 DEF CloseWindow, LeavesCall, WebNext
  <2>4. CASE Draw
    BY <2>4 DEF Draw, Reads, Loads, WebNext
  <2>5. CASE WorkerTakes
    <3>1. Work(Head(jobs)) \in Jobs
      BY DEF Work, Jobs
    <3> QED BY <2>5, <3>1 DEF WorkerTakes, StartsJob, Unloaded, WebNext
  <2>6. CASE WorkerPosts \/ WorkerStops \/ PollAnswered
    BY <2>6 DEF WorkerPosts, WorkerStops, PollAnswered, EndsCall, Unloaded, Callers, WebNext
  <2>7. CASE Poll
    <3>1. GetAccountFriends \in Jobs
      BY DEF Jobs
    <3> QED BY <2>7, <3>1 DEF Poll, Loads, StartsJob, WebNext
  <2>8. ASSUME NEW who \in Accounts, Submit(who) PROVE StartsSignIn
    BY <2>8 DEF Submit, StartsSignIn
  <2>9. ASSUME NEW who \in Accounts, FriendMoves(who) PROVE FriendIsOnline
    <3> DEFINE online == IF who \notin site.online THEN site.online \cup {who} ELSE site.online \ {who}
    <3>1. online \in SUBSET Accounts /\ site' = [site EXCEPT !.online = online]
      BY <2>9 DEF FriendMoves, WebShape
    <3> QED BY <2>9, <3>1 DEF FriendMoves, FriendIsOnline
  <2>10. CASE CancelDialog
    BY <2>10 DEF CancelDialog
  <2>11. CASE SignInDone
    BY <2>11 DEF SignInDone, EndsCall, Unloaded, Callers, WebNext
  <2>12. CASE SignOutClicked
    BY <2>12 DEF SignOutClicked, WebNext, AccountChanges
  <2> QED BY <1>5, <2>1, <2>2, <2>3, <2>4, <2>5, <2>6, <2>7, <2>8, <2>9, <2>10, <2>11, <2>12
             DEF Desktop, WebNext, AccountChanges
<1> QED BY <1>1, <1>2, <1>3, <1>4, <1>5 DEF Next

\* The steps of a call that only asks, and what is left of a call's steps.
Reading == {"bind", "try", "own", "switch", "adapter", "check", "part", "more", "public"}
Has(ops, step) == \E i \in DOMAIN ops : ops[i] = step
SigningIn == call["signin"].ops

\* Every token kept anywhere is one the site has minted.
TokensKnown ==
  /\ \A f \in Files : /\ disk[f].bearer <= Len(site.owner)
                      /\ disk[f].bearer = 0 => disk[f] = None
  /\ mem.held.bearer <= Len(site.owner) /\ (mem.held.bearer = 0 => mem.held = None)
  /\ \A t \in Callers : /\ call[t].bound <= Len(site.owner)
                        /\ call[t].sent <= Len(site.owner) /\ call[t].as <= Len(site.owner)

\* Only the sign-in dialog's thread mints and stores; a host without profiles has one
\* file.
OnlySignInStores ==
  /\ \A t \in Callers \ {"signin"} : call[t].ops \in Seq(Reading)
  /\ active = Shared => mem.profile = Shared

\* The order of a sign-in's steps: one mint, first; one store, before the one under the
\* name; and a getter that finds nobody signed in skips only the request behind it.
StepsInOrder(ops) ==
  /\ \A i \in DOMAIN ops : ops[i] = "mint" => i = 1
  /\ \A i, j \in DOMAIN ops : {ops[i], ops[j]} \subseteq {"store", "save"} => i = j
  /\ \A i \in DOMAIN ops : i + 1 \in DOMAIN ops /\ ops[i] = "try" => ops[i + 1] = "part"
  /\ \A i \in DOMAIN ops : ops[i] # "switch"
  /\ \A i, j \in DOMAIN ops : ops[i] = "again" /\ ops[j] \in {"store", "save"} => j < i

\* The token that was minted is new to every file until it is stored.
MintedIsNew ==
  /\ StepsInOrder(SigningIn)
  /\ Has(SigningIn, "mint") =>
       /\ Len(site.owner) < MaxTokens
       /\ Has(SigningIn, "again") => Has(SigningIn, "save")
  /\ SigningIn # <<>> /\ ~Has(SigningIn, "mint") => call["signin"].as >= 1
  /\ (Has(SigningIn, "store") \/ Has(SigningIn, "save")) /\ ~Has(SigningIn, "mint") =>
       \A f \in Files : disk[f].bearer # call["signin"].as
  /\ Has(SigningIn, "save") \/ Has(SigningIn, "again") => active = Shared
  /\ Has(SigningIn, "again") /\ ~Has(SigningIn, "save") /\ ~Has(SigningIn, "mint") =>
       disk[Shared].bearer \in {0, call["signin"].as}

WebInductive == WebShape /\ TokensKnown /\ OnlySignInStores /\ MintedIsNew

\* Loading moves a file at most: it keeps every bearer, and writes no other.
LEMMA LoadingKeeps ==
  ASSUME WebShape, EnsureLoaded
  PROVE  /\ disk' \in [Files -> AccountFile]
         /\ mem' \in [loaded : BOOLEAN, profile : Files, held : AccountFile]
         /\ mem'.profile = active /\ mem'.held = Held /\ Held \in AccountFile
         /\ Held \in {mem.held} \cup {disk[f] : f \in Files}
         /\ \A f \in Files : disk'[f] \in {disk[g] : g \in Files} \cup {None}
         /\ Bearers(disk') = Bearers(disk)
         /\ disk'[Shared] \in {disk[Shared], None}
<1> USE DEF WebShape
<1>0. Shared \in Files /\ active \in Files /\ None \in AccountFile /\ None.bearer = 0
  BY WebsiteAssumption DEF Files, None, AccountFile
<1>1. CASE Migrated = disk
  <2>1. disk' = disk
    BY <1>1 DEF EnsureLoaded
  <2>2. Held \in AccountFile /\ Held \in {mem.held} \cup {disk[f] : f \in Files}
    BY <1>0, <1>1 DEF Held
  <2> QED BY <1>0, <2>1, <2>2 DEF EnsureLoaded, Bearers
<1>2. CASE /\ active # Shared /\ disk[active] = None
           /\ Migrated = [disk EXCEPT ![active] = disk[Shared], ![Shared] = None]
  <2>1. /\ disk'[active] = disk[Shared] /\ disk'[Shared] = None
        /\ \A f \in Files \ {active, Shared} : disk'[f] = disk[f]
        /\ disk' \in [Files -> AccountFile]
    BY <1>0, <1>2 DEF EnsureLoaded
  <2>2. Held \in AccountFile /\ Held \in {mem.held} \cup {disk[f] : f \in Files}
    BY <1>0, <1>2, <2>1 DEF Held
  <2>3. Bearers(disk') = Bearers(disk)
    <3>1. ASSUME NEW b \in Bearers(disk) PROVE b \in Bearers(disk')
      <4>1. PICK f \in Files : b = disk[f].bearer /\ b # 0
        BY <3>1 DEF Bearers
      <4>2. \E g \in Files : disk'[g] = disk[f]
        BY <1>0, <1>2, <2>1, <4>1
      <4> QED BY <4>1, <4>2 DEF Bearers
    <3>2. ASSUME NEW b \in Bearers(disk') PROVE b \in Bearers(disk)
      <4>1. PICK f \in Files : b = disk'[f].bearer /\ b # 0
        BY <3>2 DEF Bearers
      <4>2. \E g \in Files : disk'[f] = disk[g]
        BY <1>0, <1>2, <2>1, <4>1
      <4> QED BY <4>1, <4>2 DEF Bearers
    <3> QED BY <3>1, <3>2
  <2> QED BY <1>0, <2>1, <2>2, <2>3 DEF EnsureLoaded
<1> QED BY <1>1, <1>2 DEF Migrated

\* Saving writes the active profile's file, over what loading made of the directory.
LEMMA SavingKeeps ==
  ASSUME WebShape, NEW held \in AccountFile, Save(held)
  PROVE  /\ disk' \in [Files -> AccountFile]
         /\ mem' \in [loaded : BOOLEAN, profile : Files, held : AccountFile]
         /\ mem'.profile = active /\ mem'.held = held /\ disk'[active] = held
         /\ \A f \in Files : disk'[f] \in {disk[g] : g \in Files} \cup {None, held}
         /\ disk'[Shared] \in {disk[Shared], None, held}
<1> USE DEF WebShape
<1>0. Shared \in Files /\ active \in Files /\ None \in AccountFile
  BY WebsiteAssumption DEF Files, None, AccountFile
<1>1. CASE Migrated = disk
  BY <1>0, <1>1 DEF Save
<1>2. CASE /\ active # Shared /\ disk[active] = None
           /\ Migrated = [disk EXCEPT ![active] = disk[Shared], ![Shared] = None]
  <2>1. /\ disk' = [Migrated EXCEPT ![active] = held]
        /\ mem' = [loaded |-> TRUE, profile |-> active, held |-> held]
    BY DEF Save
  <2>2. /\ disk'[active] = held /\ disk'[Shared] = None
        /\ \A f \in Files \ {active, Shared} : disk'[f] = disk[f]
        /\ disk' \in [Files -> AccountFile]
    BY <1>0, <1>2, <2>1
  <2> QED BY <1>0, <2>1, <2>2
<1> QED BY <1>1, <1>2 DEF Migrated

\* The step that takes a call on by n of its steps.
LEMMA OnwardShape ==
  ASSUME NEW r \in Calls, NEW n \in 1..2, r.ops # <<>>
  PROVE  LET rest == SubSeq(r.ops, n + 1, Len(r.ops))
         IN /\ [r EXCEPT !.ops = rest] \in Calls /\ rest \in Seq(Steps) /\ rest # r.ops
            /\ \A i \in DOMAIN rest : n + i \in DOMAIN r.ops /\ rest[i] = r.ops[n + i]
            /\ \A i \in DOMAIN r.ops : i > n => i - n \in DOMAIN rest /\ rest[i - n] = r.ops[i]
<1> DEFINE rest == SubSeq(r.ops, n + 1, Len(r.ops))
<1>1. r.ops \in Seq(Steps)
  BY DEF Calls
<1>2. rest \in Seq(Steps) /\ Len(rest) < Len(r.ops)
  BY <1>1
<1>3. /\ \A i \in DOMAIN rest : n + i \in DOMAIN r.ops /\ rest[i] = r.ops[n + i]
      /\ \A i \in DOMAIN r.ops : i > n => i - n \in DOMAIN rest /\ rest[i - n] = r.ops[i]
  BY <1>1
<1>4. [r EXCEPT !.ops = rest] \in Calls
  BY <1>2 DEF Calls
<1> HIDE DEF rest
<1> QED BY <1>2, <1>3, <1>4 DEF rest

\* A step that takes files away, or moves them, and writes nothing new.
FilesOnlyLose ==
  /\ mem'.profile \in {mem.profile, active', Shared}
  /\ mem'.held \in {None, mem.held} \cup {disk[f] : f \in Files}
  /\ \A f \in Files : disk'[f] \in {disk[g] : g \in Files} \cup {None}
  /\ disk'[Shared] \in {disk[Shared], None}

\* A step in which no call mints, and none but the sign-in's comes to store anything.
CallsOnlyRead ==
  \A t \in Callers :
    /\ call'[t].bound <= Len(site.owner) /\ call'[t].sent <= Len(site.owner)
    /\ call'[t].as <= Len(site.owner)
    /\ t # "signin" => call'[t].ops \in Seq(Reading)

\* Such steps leave the minted token as new as it was, if the sign-in does not move.
LEMMA OtherCallsKeep ==
  ASSUME WebInductive, WebShape', site'.owner = site.owner,
         active' = active \/ (active # Shared /\ active' # Shared),
         FilesOnlyLose, CallsOnlyRead,
         call'["signin"] = call["signin"] \/ call'["signin"].ops = <<>>
  PROVE  WebInductive'
<1> USE DEF FilesOnlyLose, CallsOnlyRead
<1>0. Shared \in Files /\ None.bearer = 0 /\ Len(site.owner) \in Nat
  BY DEF Files, None, WebInductive, WebShape
<1>1. TokensKnown'
  BY <1>0 DEF WebInductive, TokensKnown
<1>2. OnlySignInStores'
  BY DEF WebInductive, OnlySignInStores
<1>3. MintedIsNew'
  <2>1. CASE call'["signin"].ops = <<>>
    BY <2>1 DEF MintedIsNew, SigningIn, Has, StepsInOrder
  <2>2. CASE call'["signin"] = call["signin"]
    <3>1. SigningIn' = SigningIn
      BY <2>2 DEF SigningIn
    <3>2. ASSUME SigningIn # <<>>, ~Has(SigningIn, "mint"),
                 Has(SigningIn, "store") \/ Has(SigningIn, "save"), NEW f \in Files
          PROVE  disk'[f].bearer # call["signin"].as
      BY <1>0, <3>2 DEF WebInductive, MintedIsNew
    <3>3. Has(SigningIn, "store") \/ Has(SigningIn, "save") => SigningIn # <<>>
      BY DEF Has
    <3> QED BY <1>0, <2>2, <3>1, <3>2, <3>3 DEF WebInductive, MintedIsNew, StepsInOrder
  <2> QED BY <2>1, <2>2
<1> QED BY <1>1, <1>2, <1>3 DEF WebInductive

\* A call that goes on loses its first steps and is given some fields anew.
LEMMA OnwardMoves ==
  ASSUME WebShape, NEW t \in Callers, NEW n \in 1..2, call[t].ops # <<>>, NEW fields,
         Onward(t, n, fields),
         DOMAIN fields \subseteq {"bound", "sent", "who", "got", "seen", "as"},
         "bound" \in DOMAIN fields => fields["bound"] \in 0..MaxTokens,
         "sent" \in DOMAIN fields => fields["sent"] \in 0..MaxTokens,
         "as" \in DOMAIN fields => fields["as"] \in 0..MaxTokens,
         "who" \in DOMAIN fields => fields["who"] \in SUBSET Accounts,
         "seen" \in DOMAIN fields => fields["seen"] \in SUBSET Accounts,
         "got" \in DOMAIN fields => fields["got"] \in BOOLEAN
  PROVE  /\ call' \in [Callers -> Calls]
         /\ \A u \in Callers \ {t} : call'[u] = call[u]
         /\ call'[t].ops = SubSeq(call[t].ops, n + 1, Len(call[t].ops))
         /\ call'[t].bound = IF "bound" \in DOMAIN fields THEN fields["bound"] ELSE call[t].bound
         /\ call'[t].sent = IF "sent" \in DOMAIN fields THEN fields["sent"] ELSE call[t].sent
         /\ call'[t].as = IF "as" \in DOMAIN fields THEN fields["as"] ELSE call[t].as
         /\ call'[t].who = IF "who" \in DOMAIN fields THEN fields["who"] ELSE call[t].who
         /\ call'[t].seen = IF "seen" \in DOMAIN fields THEN fields["seen"] ELSE call[t].seen
         /\ call'[t].got = IF "got" \in DOMAIN fields THEN fields["got"] ELSE call[t].got
<1> DEFINE ops == SubSeq(call[t].ops, n + 1, Len(call[t].ops))
           rest == [call[t] EXCEPT !.ops = ops]
           next == [f \in DOMAIN rest |-> IF f \in DOMAIN fields THEN fields[f] ELSE rest[f]]
<1>1. call[t] \in Calls
  BY DEF WebShape
<1>2. rest \in Calls /\ ops \in Seq(Steps)
  BY <1>1, OnwardShape
<1>3. /\ rest.ops = ops /\ rest.bound = call[t].bound /\ rest.sent = call[t].sent
      /\ rest.as = call[t].as /\ rest.who = call[t].who /\ rest.seen = call[t].seen
      /\ rest.got = call[t].got
      /\ DOMAIN rest = {"busy", "ops", "bound", "sent", "who", "got", "seen", "as"}
  BY <1>1 DEF Calls
<1>4. call' = [call EXCEPT ![t] = next]
  BY DEF Onward
<1> HIDE DEF rest, ops
<1>5. next \in Calls
  <2>1. next = [busy |-> rest.busy, ops |-> rest.ops, bound |-> next.bound, sent |-> next.sent,
                who |-> next.who, got |-> next.got, seen |-> next.seen, as |-> next.as]
    BY <1>3
  <2>2. /\ next.bound \in 0..MaxTokens /\ next.sent \in 0..MaxTokens /\ next.as \in 0..MaxTokens
        /\ next.who \in SUBSET Accounts /\ next.seen \in SUBSET Accounts /\ next.got \in BOOLEAN
    BY <1>2, <1>3 DEF Calls
  <2>3. rest.busy \in BOOLEAN /\ rest.ops \in Seq(Steps)
    BY <1>2 DEF Calls
  <2> HIDE DEF next
  <2> QED BY <2>1, <2>2, <2>3 DEF Calls
<1>6. /\ next.ops = rest.ops
      /\ next.bound = IF "bound" \in DOMAIN fields THEN fields["bound"] ELSE rest.bound
      /\ next.sent = IF "sent" \in DOMAIN fields THEN fields["sent"] ELSE rest.sent
      /\ next.as = IF "as" \in DOMAIN fields THEN fields["as"] ELSE rest.as
      /\ next.who = IF "who" \in DOMAIN fields THEN fields["who"] ELSE rest.who
      /\ next.seen = IF "seen" \in DOMAIN fields THEN fields["seen"] ELSE rest.seen
      /\ next.got = IF "got" \in DOMAIN fields THEN fields["got"] ELSE rest.got
  BY <1>3
<1> HIDE DEF next
<1>7. call'[t] = next /\ call' \in [Callers -> Calls] /\ \A u \in Callers \ {t} : call'[u] = call[u]
  BY <1>4, <1>5 DEF WebShape
<1> QED BY <1>3, <1>6, <1>7 DEF ops

\* The worker's and the notifier's jobs only read, and what only reads is a list of steps.
LEMMA JobsRead == Jobs \subseteq Seq(Reading) /\ Seq(Reading) \subseteq Seq(Steps)
<1>1. <<"bind", "own">> \in Seq(Reading) /\ <<"public">> \in Seq(Reading)
  BY DEF Reading
<1>2. <<"bind", "switch", "adapter", "check", "part", "more">> \in Seq(Reading)
  BY DEF Reading
<1>3. <<"bind", "part">> \in Seq(Reading) /\ <<"public", "try", "part">> \in Seq(Reading)
  BY DEF Reading
<1>4. Reading \subseteq Steps
  BY DEF Reading, Steps
<1> QED BY <1>1, <1>2, <1>3, <1>4
        DEF Jobs, GetProfile, GetCloudSaves, GetAccountFriends, GetInvitations, GetMods,
            GetNewsManifest, GetServiceStatus, PostAccount, DeclineInvitation, SetModFavourite

\* A sign-in mints before it saves or asks again, and has its steps in order.
LEMMA SignInShape ==
  /\ SignIn \in Seq(Steps) /\ SignInAccountOnly \in Seq(Steps)
  /\ StepsInOrder(SignIn) /\ StepsInOrder(SignInAccountOnly)
  /\ Has(SignIn, "mint") /\ Has(SignInAccountOnly, "mint")
  /\ ~Has(SignIn, "save") /\ ~Has(SignIn, "again") /\ Has(SignInAccountOnly, "save")
  BY DEF SignIn, SignInAccountOnly, Steps, StepsInOrder, Has

\* A call that has not begun is a call, with nothing to do and nothing sent.
LEMMA NoCallShape == NoCall \in Calls /\ NoCall.ops = <<>> /\ NoCall.ops \in Seq(Reading)
                     /\ NoCall.bound = 0 /\ NoCall.sent = 0 /\ NoCall.as = 0
  BY WebsiteAssumption DEF NoCall, Calls

\* The website account starts in its inductive invariant.
LEMMA WebStarts == Init => WebInductive
<1> SUFFICES ASSUME NEW s \in Scenarios,
                    WebInit(s.web, s.family, s.stored, IF s.notifies THEN SUBSET Accounts ELSE {{}})
             PROVE  WebInductive
  BY DEF Init
<1>1. /\ s.web \in [change : Nat, fault : Nat] /\ s.stored \subseteq {0, 1} \cap 0..MaxTokens
      /\ None \in AccountFile /\ None.bearer = 0 /\ Shared \in Files /\ Profiles \subseteq Files
  BY ScenariosAssumption, WebsiteAssumption DEF None, AccountFile, Files
<1>2. PICK n \in s.stored, a \in Accounts, online \in SUBSET Accounts :
        /\ disk = [f \in Files |-> IF f = Shared /\ n = 1
                                   THEN [bearer |-> 1, linked |-> s.family = "switch"] ELSE None]
        /\ site = [owner |-> IF n = 1 THEN <<a>> ELSE <<>>, revoked |-> {}, online |-> online]
  <2>1. (IF s.notifies THEN SUBSET Accounts ELSE {{}}) \subseteq SUBSET Accounts
    OBVIOUS
  <2> QED BY <2>1, Zenon DEF WebInit
<1>3. /\ mem = [loaded |-> FALSE, profile |-> Shared, held |-> None] /\ active \in Files
      /\ call = [t \in Callers |-> NoCall] /\ revoking = {} /\ webPast = 0 /\ webLeft = s.web
  BY <1>1 DEF WebInit
<1>4. n = 0 \/ (n = 1 /\ 1 \in 0..MaxTokens)
  BY <1>1
<1>5. /\ site.owner \in Seq(Accounts) /\ Len(site.owner) \in 0..MaxTokens
      /\ n = 1 => Len(site.owner) = 1
  <2>1. <<a>> \in Seq(Accounts) /\ Len(<<a>>) = 1 /\ <<>> \in Seq(Accounts) /\ Len(<<>>) = 0
    OBVIOUS
  <2>2. site.owner = IF n = 1 THEN <<a>> ELSE <<>>
    BY <1>2
  <2>3. CASE n = 1
    BY <1>4, <2>1, <2>2, <2>3
  <2>4. CASE n = 0
    BY <2>1, <2>2, <2>4, WebsiteAssumption
  <2> QED BY <1>4, <2>3, <2>4
<1>6. /\ disk \in [Files -> AccountFile]
      /\ \A f \in Files : disk[f] = None \/ (n = 1 /\ disk[f].bearer = 1)
  <2>1. n = 1 => [bearer |-> 1, linked |-> s.family = "switch"] \in AccountFile
    BY <1>4 DEF AccountFile
  <2> QED BY <1>1, <1>2, <2>1
<1>7. WebShape
  BY <1>1, <1>2, <1>3, <1>5, <1>6, NoCallShape DEF WebShape
<1>8. TokensKnown
  <2>1. \A f \in Files : disk[f].bearer <= Len(site.owner) /\ (disk[f].bearer = 0 => disk[f] = None)
    <3> SUFFICES ASSUME NEW f \in Files
                 PROVE  disk[f].bearer <= Len(site.owner) /\ (disk[f].bearer = 0 => disk[f] = None)
      OBVIOUS
    <3>1. CASE disk[f] = None
      BY <1>1, <1>5, <3>1
    <3>2. CASE n = 1 /\ disk[f].bearer = 1
      <4>0. Len(site.owner) = 1
        BY <1>5, <3>2, Zenon
      <4>1. 1 <= Len(site.owner) /\ 1 # 0
        BY <4>0
      <4> QED BY <3>2, <4>1, Zenon
    <3> QED BY <1>6, <3>1, <3>2
  <2>2. mem.held = None /\ \A t \in Callers : call[t] = NoCall
    BY <1>3
  <2> QED BY <1>1, <1>5, <2>1, <2>2, NoCallShape DEF TokensKnown
<1>9. OnlySignInStores
  BY <1>3, NoCallShape DEF OnlySignInStores
<1>10. MintedIsNew
  <2>1. SigningIn = <<>>
    BY <1>3, NoCallShape DEF SigningIn, Callers
  <2> QED BY <2>1 DEF MintedIsNew, StepsInOrder, Has
<1> QED BY <1>7, <1>8, <1>9, <1>10 DEF WebInductive

\* Forgetting, switching, signing out, revoking, expiring and dying keep the invariant.
LEMMA AccountChangesKeep == WebInductive /\ AccountChanges => WebInductive'
<1> SUFFICES ASSUME WebInductive, AccountChanges PROVE WebInductive'
  OBVIOUS
<1>0. /\ None \in AccountFile /\ None.bearer = 0 /\ Shared \in Files /\ Profiles \subseteq Files
      /\ Shared \notin Profiles /\ WebShape /\ site.owner \in Seq(Accounts) /\ Len(site.owner) \in Nat
  BY WebsiteAssumption DEF None, AccountFile, Files, WebInductive, WebShape
<1>a. UNCHANGED call /\ site'.owner = site.owner => CallsOnlyRead
  BY DEF WebInductive, TokensKnown, OnlySignInStores, CallsOnlyRead
<1>1. ASSUME NEW profile \in Files, Forget(profile) PROVE WebInductive'
  <2>1. WebShape'
    <3>1. disk' \in [Files -> AccountFile] /\ webPast' \in Nat
      BY <1>0, <1>1 DEF WebShape, Forget
    <3>2. mem' \in [loaded : BOOLEAN, profile : Files, held : AccountFile]
      BY <1>0, <1>1 DEF WebShape, Forget
    <3>3. webLeft' \in [change : Nat, fault : Nat] /\ UNCHANGED <<active, site, call, revoking>>
      BY <1>0, <1>1 DEF WebShape, Forget, Pays
    <3> QED BY <1>0, <3>1, <3>2, <3>3 DEF WebShape
  <2>2. FilesOnlyLose
    BY <1>0, <1>1 DEF FilesOnlyLose, WebShape, Forget
  <2> QED BY <1>a, <1>1, <2>1, <2>2, OtherCallsKeep DEF Forget
<1>2. CASE SwitchProfile
  <2>1. WebShape'
    BY <1>0, <1>2 DEF WebShape, SwitchProfile, Pays
  <2>2. active # Shared /\ active' # Shared
    BY <1>0, <1>2 DEF SwitchProfile
  <2>3. FilesOnlyLose
    BY <1>0, <1>2 DEF FilesOnlyLose, SwitchProfile
  <2> QED BY <1>a, <1>2, <2>1, <2>2, <2>3, OtherCallsKeep DEF SwitchProfile
<1>3. CASE SignOut
  <2>1. Save(None) /\ UNCHANGED <<active, site, call>> /\ webPast' = webPast + 1 /\ Pays("change")
    BY <1>3 DEF SignOut, Clear
  <2>2. Held # None /\ Held \in {mem.held} \cup {disk[f] : f \in Files}
    <3>1. \A f \in Files : Migrated[f] \in {disk[g] : g \in Files} \cup {None}
      BY <1>0 DEF Migrated, WebShape
    <3> QED BY <1>0, <1>3, <3>1 DEF SignOut, Held, WebShape
  <2>3. Held.bearer \in Tokens
    BY <1>0, <2>2 DEF WebInductive, TokensKnown, WebShape, AccountFile, Tokens
  <2>4. /\ disk' \in [Files -> AccountFile]
        /\ mem' \in [loaded : BOOLEAN, profile : Files, held : AccountFile]
        /\ mem'.profile = active /\ mem'.held = None
        /\ \A f \in Files : disk'[f] \in {disk[g] : g \in Files} \cup {None, None}
        /\ disk'[Shared] \in {disk[Shared], None, None}
    BY <1>0, <2>1, SavingKeeps
  <2>5. revoking' \in SUBSET Tokens /\ webLeft' \in [change : Nat, fault : Nat]
    <3>1. revoking' = revoking \cup {Held.bearer} /\ revoking \in SUBSET Tokens
      BY <1>0, <1>3 DEF WebShape, SignOut
    <3>2. webLeft' \in [change : Nat, fault : Nat]
      BY <1>0, <2>1 DEF WebShape, Pays
    <3> QED BY <2>3, <3>1, <3>2
  <2>6. WebShape'
    BY <1>0, <2>1, <2>4, <2>5 DEF WebShape
  <2>7. FilesOnlyLose
    BY <2>1, <2>4 DEF FilesOnlyLose
  <2> QED BY <1>a, <2>1, <2>6, <2>7, OtherCallsKeep
<1>4. CASE Revoke \/ Expire \/ FriendIsOnline
  <2>1. /\ UNCHANGED <<disk, mem, active, call, webPast>>
        /\ revoking' \in SUBSET Tokens
    BY <1>0, <1>4 DEF Revoke, Expire, FriendIsOnline, WebShape
  <2>2. webLeft' \in [change : Nat, fault : Nat]
    BY <1>0, <1>4 DEF Revoke, Expire, FriendIsOnline, WebShape, Pays
  <2>3. /\ site' \in [owner : Seq(Accounts), revoked : SUBSET Tokens, online : SUBSET Accounts]
        /\ site'.owner = site.owner
    <3>1. CASE Revoke
      BY <1>0, <3>1 DEF Revoke, WebShape
    <3>2. CASE Expire
      <4>1. 1..Len(site.owner) \subseteq Tokens
        BY WebsiteAssumption DEF WebInductive, WebShape, Tokens
      <4> QED BY <1>0, <3>2, <4>1 DEF Expire, WebShape
    <3>3. CASE FriendIsOnline
      BY <1>0, <3>3 DEF FriendIsOnline, WebShape
    <3> QED BY <1>4, <3>1, <3>2, <3>3
  <2>4. WebShape'
    BY <1>0, <2>1, <2>2, <2>3 DEF WebShape
  <2>5. FilesOnlyLose
    BY <1>0, <2>1 DEF FilesOnlyLose
  <2> QED BY <1>a, <2>1, <2>3, <2>4, <2>5, OtherCallsKeep
<1>5. CASE AccountDies
  <2>1. WebShape'
    BY <1>0, <1>5, NoCallShape DEF WebShape, AccountDies
  <2>2. \A t \in Callers : call'[t] = NoCall
    BY <1>5 DEF AccountDies
  <2>3. CallsOnlyRead
    <3>1. 0 <= Len(site.owner)
      BY <1>0
    <3> QED BY <2>2, <3>1, NoCallShape, Zenon DEF CallsOnlyRead
  <2>a. call'["signin"].ops = <<>>
    BY <2>2, NoCallShape DEF Callers
  <2>4. FilesOnlyLose
    BY <1>0, <1>5 DEF FilesOnlyLose, AccountDies
  <2> QED BY <1>5, <2>1, <2>3, <2>a, <2>4, OtherCallsKeep DEF AccountDies
<1> QED BY <1>1, <1>2, <1>3, <1>4, <1>5 DEF AccountChanges

\* A getter, or none, takes nothing away.
LEMMA LoadingLoses ==
  ASSUME WebInductive, EnsureLoaded \/ Unloaded, active' = active
  PROVE  /\ FilesOnlyLose /\ Bearers(disk') = Bearers(disk)
         /\ disk' \in [Files -> AccountFile]
         /\ mem' \in [loaded : BOOLEAN, profile : Files, held : AccountFile]
<1>1. CASE EnsureLoaded
  <2>1. WebShape
    BY DEF WebInductive
  <2> QED BY <1>1, <2>1, LoadingKeeps DEF FilesOnlyLose
<1>2. CASE Unloaded
  BY <1>2 DEF Unloaded, FilesOnlyLose, Bearers, WebInductive, WebShape
<1> QED BY <1>1, <1>2

\* Loading the account and starting, ending or leaving a call keep the invariant and the bearers on disk.
LEMMA CallsKeep ==
  ASSUME WebInductive, Loads \/ StartsJob \/ EndsCall \/ LeavesCall
  PROVE  WebInductive' /\ Bearers(disk') = Bearers(disk)
<1>1. /\ EnsureLoaded \/ Unloaded
      /\ UNCHANGED <<active, site, revoking, webPast, webLeft>>
  BY DEF Loads, StartsJob, EndsCall, LeavesCall, Unloaded
<1>2. /\ FilesOnlyLose /\ Bearers(disk') = Bearers(disk) /\ disk' \in [Files -> AccountFile]
      /\ mem' \in [loaded : BOOLEAN, profile : Files, held : AccountFile]
  BY <1>1, LoadingLoses
<1>3. /\ call' \in [Callers -> Calls]
      /\ call'["signin"] = call["signin"] \/ call'["signin"].ops = <<>>
      /\ \A t \in Callers :
           \/ \E u \in Callers : call'[t] = call[u] /\ (t # "signin" => u # "signin")
           \/ call'[t] = NoCall
           \/ /\ call'[t].ops \in Seq(Reading)
              /\ call'[t].bound = 0 /\ call'[t].sent = 0 /\ call'[t].as = 0
  <2>0. call \in [Callers -> Calls]
    BY DEF WebInductive, WebShape
  <2>1. CASE Loads
    BY <2>0, <2>1 DEF Loads
  <2>2. CASE StartsJob
    <3>1. PICK t \in {"worker", "poll"}, ops \in Jobs : Started(t, ops, {})
      BY <2>2 DEF StartsJob
    <3> DEFINE new == [NoCall EXCEPT !.busy = TRUE, !.ops = ops, !.who = {}]
    <3>2. ops \in Seq(Reading) /\ ops \in Seq(Steps)
      BY JobsRead
    <3>3. /\ new \in Calls /\ new.ops = ops
          /\ new.bound = 0 /\ new.sent = 0 /\ new.as = 0
      BY <3>2, NoCallShape DEF Calls
    <3>4. call' = [call EXCEPT ![t] = new] /\ t \in Callers
      BY <3>1 DEF Started, Callers
    <3> HIDE DEF new
    <3> QED BY <2>0, <3>2, <3>3, <3>4 DEF Callers
  <2>3. CASE EndsCall
    BY <2>0, <2>3, NoCallShape DEF EndsCall, Callers
  <2>4. CASE LeavesCall
    BY <2>0, <2>4, NoCallShape DEF LeavesCall, Callers
  <2> QED BY <2>1, <2>2, <2>3, <2>4
<1>4. WebShape'
  BY <1>1, <1>2, <1>3 DEF WebInductive, WebShape
<1>5. CallsOnlyRead
  <2>1. 0 <= Len(site.owner)
    BY DEF WebInductive, WebShape
  <2> QED BY <1>3, <2>1, NoCallShape, Zenon
          DEF CallsOnlyRead, WebInductive, TokensKnown, OnlySignInStores
<1> QED BY <1>1, <1>2, <1>3, <1>4, <1>5, OtherCallsKeep

\* Starting a sign-in keeps the invariant: the token it will mint is nobody's yet.
LEMMA SignInStartKeeps == WebInductive /\ StartsSignIn => WebInductive'
<1> SUFFICES ASSUME WebInductive, StartsSignIn PROVE WebInductive'
  OBVIOUS
<1> DEFINE ops == IF active = Shared THEN SignInAccountOnly ELSE SignIn
<1>1. PICK who \in Accounts : Started("signin", ops, {who})
  BY DEF StartsSignIn
<1> DEFINE new == [NoCall EXCEPT !.busy = TRUE, !.ops = ops, !.who = {who}]
<1>2. /\ new \in Calls /\ new.ops = ops /\ new.bound = 0 /\ new.sent = 0 /\ new.as = 0
  BY NoCallShape, SignInShape DEF Calls
<1>3. call' = [call EXCEPT !["signin"] = new]
  BY <1>1 DEF Started
<1> HIDE DEF new
<1>4. /\ call' \in [Callers -> Calls] /\ call'["signin"] = new
      /\ \A t \in Callers \ {"signin"} : call'[t] = call[t]
  BY <1>2, <1>3 DEF WebInductive, WebShape, Callers
<1>5. /\ UNCHANGED <<disk, mem, active, site, revoking, webPast, webLeft>>
      /\ Len(site.owner) < MaxTokens /\ 0 <= Len(site.owner)
  BY DEF StartsSignIn, WebInductive, WebShape
<1>6. WebShape'
  BY <1>4, <1>5 DEF WebInductive, WebShape
<1>7. TokensKnown'
  <2>1. /\ \A t \in Callers : /\ call'[t].bound <= Len(site.owner)
                              /\ call'[t].sent <= Len(site.owner) /\ call'[t].as <= Len(site.owner)
    BY <1>2, <1>4, <1>5 DEF WebInductive, TokensKnown
  <2> QED BY <1>5, <2>1 DEF WebInductive, TokensKnown
<1>8. OnlySignInStores'
  BY <1>4, <1>5 DEF WebInductive, OnlySignInStores
<1>9. MintedIsNew'
  <2>1. SigningIn' = ops
    BY <1>2, <1>4 DEF SigningIn
  <2>2. Has(ops, "mint") /\ StepsInOrder(ops) /\ ops # <<>>
    BY SignInShape DEF SignIn, SignInAccountOnly
  <2>3. /\ Has(ops, "save") \/ Has(ops, "again") => active = Shared
        /\ Has(ops, "again") => Has(ops, "save")
    BY SignInShape
  <2> HIDE DEF ops
  <2> QED BY <1>5, <2>1, <2>2, <2>3 DEF MintedIsNew, Has, StepsInOrder
<1> QED BY <1>6, <1>7, <1>8, <1>9 DEF WebInductive

\* What is left of a sign-in behind its first step, or behind a request it skips.
LEMMA StepsLeft ==
  ASSUME NEW ops \in Seq(Steps), ops # <<>>, StepsInOrder(ops), NEW n \in 1..2,
         n = 2 => ops[1] = "try"
  PROVE  LET rest == SubSeq(ops, n + 1, Len(ops))
         IN /\ StepsInOrder(rest) /\ ~Has(rest, "mint")
            /\ \A x \in Steps : Has(rest, x) => Has(ops, x)
            /\ \A x \in {"store", "save"} : Has(ops, x) /\ ops[1] # x => Has(rest, x)
            /\ ops[1] \in {"store", "save"} => ~Has(rest, "store") /\ ~Has(rest, "save")
<1> DEFINE rest == SubSeq(ops, n + 1, Len(ops))
<1>1. /\ \A i \in DOMAIN rest : n + i \in DOMAIN ops /\ rest[i] = ops[n + i] /\ i \in Nat \ {0}
      /\ \A i \in DOMAIN ops : i > n => i - n \in DOMAIN rest /\ rest[i - n] = ops[i]
      /\ \A i \in DOMAIN ops : i \in Nat \ {0}
      /\ 1 \in DOMAIN ops
      /\ \A i \in DOMAIN rest : i + 1 \in DOMAIN rest => n + i + 1 \in DOMAIN ops
                                                         /\ rest[i + 1] = ops[n + i + 1]
  OBVIOUS
<1> HIDE DEF rest
<1>2. ~Has(rest, "mint")
  BY <1>1 DEF Has, StepsInOrder
<1>3. StepsInOrder(rest)
  <2>1. \A i, j \in DOMAIN rest : {rest[i], rest[j]} \subseteq {"store", "save"} => i = j
    <3> SUFFICES ASSUME NEW i \in DOMAIN rest, NEW j \in DOMAIN rest,
                        {rest[i], rest[j]} \subseteq {"store", "save"}
                 PROVE  i = j
      OBVIOUS
    <3>1. n + i = n + j
      BY <1>1 DEF StepsInOrder
    <3> QED BY <1>1, <3>1
  <2>2. \A i \in DOMAIN rest : i + 1 \in DOMAIN rest /\ rest[i] = "try" => rest[i + 1] = "part"
    BY <1>1 DEF StepsInOrder
  <2>3. \A i \in DOMAIN rest : rest[i] # "switch"
    BY <1>1 DEF StepsInOrder
  <2>4. ASSUME NEW i \in DOMAIN rest, NEW j \in DOMAIN rest, rest[i] = "again", rest[j] \in {"store", "save"}
        PROVE  j < i
    <3>1. n + j < n + i
      BY <1>1, <2>4 DEF StepsInOrder
    <3> QED BY <1>1, <3>1
  <2> QED BY <1>2, <2>1, <2>2, <2>3, <2>4 DEF StepsInOrder, Has
<1>4. \A x \in Steps : Has(rest, x) => Has(ops, x)
  BY <1>1 DEF Has
<1>5. ASSUME NEW x \in {"store", "save"}, Has(ops, x), ops[1] # x PROVE Has(rest, x)
  <2>1. PICK k \in DOMAIN ops : ops[k] = x
    BY <1>5 DEF Has
  <2>2. k > n
    <3>1. k > 1
      BY <1>1, <1>5, <2>1
    <3>2. ASSUME n = 2, k = 2 PROVE FALSE
      <4>1. 1 \in DOMAIN ops /\ 1 + 1 \in DOMAIN ops /\ ops[1] = "try" /\ ops[1 + 1] = x
        BY <1>1, <2>1, <3>2
      <4>2. ops[1 + 1] = "part"
        BY <4>1, Zenon DEF StepsInOrder
      <4> QED BY <4>1, <4>2
    <3> QED BY <1>1, <3>1, <3>2
  <2> QED BY <1>1, <2>1, <2>2 DEF Has
<1>6. ops[1] \in {"store", "save"} => ~Has(rest, "store") /\ ~Has(rest, "save")
  BY <1>1 DEF Has, StepsInOrder
<1> QED BY <1>2, <1>3, <1>4, <1>5, <1>6 DEF rest

\* A step of a call that neither mints nor stores.
LEMMA ReadingKeeps ==
  ASSUME WebInductive, WebShape', site'.owner = site.owner, active' = active, FilesOnlyLose,
         NEW t \in Callers, call[t].ops # <<>>,
         Head(call[t].ops) \notin {"mint", "store", "save"},
         \A u \in Callers \ {t} : call'[u] = call[u],
         call'[t].as = call[t].as,
         call'[t].bound <= Len(site.owner), call'[t].sent <= Len(site.owner),
         \/ call'[t].ops = <<>>
         \/ \E n \in 1..2 : /\ call'[t].ops = SubSeq(call[t].ops, n + 1, Len(call[t].ops))
                            /\ n = 2 => Head(call[t].ops) \in {"try", "switch"}
  PROVE  WebInductive'
<1>1. ASSUME NEW u \in Callers \ {"signin"} PROVE call'[u].ops \in Seq(Reading)
  <2>1. call[u].ops \in Seq(Reading)
    BY DEF WebInductive, OnlySignInStores
  <2>2. CASE u # t
    BY <2>1, <2>2
  <2>3. CASE u = t
    <3>1. CASE call'[t].ops = <<>>
      BY <2>3, <3>1
    <3>2. ASSUME NEW n \in 1..2, call'[t].ops = SubSeq(call[t].ops, n + 1, Len(call[t].ops))
          PROVE  call'[u].ops \in Seq(Reading)
      BY <2>1, <2>3, <3>2
    <3> QED BY <3>1, <3>2
  <2> QED BY <2>2, <2>3
<1>2. CallsOnlyRead
  BY <1>1 DEF CallsOnlyRead, WebInductive, TokensKnown
<1>3. CASE t # "signin" \/ call'[t].ops = <<>>
  BY <1>2, <1>3, OtherCallsKeep DEF Callers
<1>4. CASE t = "signin" /\ call'[t].ops # <<>>
  <2> DEFINE ops == call["signin"].ops
             as == call["signin"].as
  <2>1. PICK n \in 1..2 : /\ call'["signin"].ops = SubSeq(ops, n + 1, Len(ops))
                          /\ n = 2 => Head(ops) \in {"try", "switch"}
    BY <1>4
  <2>2. ops \in Seq(Steps) /\ ops # <<>> /\ Head(ops) = ops[1] /\ StepsInOrder(ops)
    BY <1>4 DEF WebInductive, WebShape, Calls, MintedIsNew, SigningIn
  <2>a. n = 2 => ops[1] = "try"
    BY <2>1, <2>2 DEF StepsInOrder
  <2> DEFINE rest == call'["signin"].ops
  <2>3. /\ StepsInOrder(rest) /\ ~Has(rest, "mint")
        /\ \A x \in Steps : Has(rest, x) => Has(ops, x)
        /\ \A x \in {"store", "save"} : Has(ops, x) /\ ops[1] # x => Has(rest, x)
    BY <2>1, <2>2, <2>a, StepsLeft
  <2>4. ~Has(ops, "mint") /\ ops[1] \notin {"store", "save"}
    BY <1>4, <2>2 DEF StepsInOrder, Has
  <2>5. {"store", "save", "again", "mint"} \subseteq Steps /\ None.bearer = 0 /\ Shared \in Files
    BY DEF Steps, None, Files
  <2>6. as >= 1 /\ (Has(ops, "store") \/ Has(ops, "save") => \A f \in Files : disk[f].bearer # as)
    BY <2>2, <2>4 DEF WebInductive, MintedIsNew, SigningIn
  <2>7. Has(rest, "store") \/ Has(rest, "save") => \A f \in Files : disk'[f].bearer # as
    BY <2>3, <2>5, <2>6 DEF FilesOnlyLose
  <2>8. Has(rest, "save") \/ Has(rest, "again") => active' = Shared
    BY <2>3, <2>5 DEF WebInductive, MintedIsNew, SigningIn
  <2>9. Has(rest, "again") /\ ~Has(rest, "save") => disk'[Shared].bearer \in {0, as}
    <3>1. Has(rest, "again") /\ ~Has(rest, "save") => disk[Shared].bearer \in {0, as}
      BY <2>3, <2>4, <2>5 DEF WebInductive, MintedIsNew, SigningIn
    <3> QED BY <2>5, <3>1 DEF FilesOnlyLose
  <2>10. SigningIn' = rest /\ call'["signin"].as = as
    BY <1>4 DEF SigningIn
  <2> HIDE DEF rest, as, ops
  <2>11. MintedIsNew'
    BY <2>3, <2>6, <2>7, <2>8, <2>9, <2>10 DEF MintedIsNew, Has, StepsInOrder
  <2>12. TokensKnown'
    <3>1. \A f \in Files : /\ disk'[f].bearer <= Len(site.owner)
                           /\ disk'[f].bearer = 0 => disk'[f] = None
      BY <2>5 DEF FilesOnlyLose, WebInductive, TokensKnown, WebShape
    <3>2. mem'.held.bearer <= Len(site.owner) /\ (mem'.held.bearer = 0 => mem'.held = None)
      BY <2>5 DEF FilesOnlyLose, WebInductive, TokensKnown, WebShape
    <3> QED BY <1>2, <3>1, <3>2 DEF TokensKnown, CallsOnlyRead
  <2>13. OnlySignInStores'
    BY <1>1 DEF OnlySignInStores, FilesOnlyLose, WebInductive
  <2> QED BY <2>11, <2>12, <2>13 DEF WebInductive
<1> QED BY <1>3, <1>4

\* The call that ends early keeps everything but its steps and what it has.
LEMMA OverMoves ==
  ASSUME WebShape, NEW t \in Callers, Over(t)
  PROVE  /\ call' \in [Callers -> Calls] /\ \A u \in Callers \ {t} : call'[u] = call[u]
         /\ call'[t].ops = <<>> /\ call'[t].as = call[t].as /\ ~call'[t].got
         /\ call'[t].bound = call[t].bound /\ call'[t].sent = call[t].sent
         /\ call'[t].who = call[t].who
<1> DEFINE over == [call[t] EXCEPT !.ops = <<>>, !.got = FALSE]
<1>1. call[t] \in Calls
  BY DEF WebShape
<1>2. /\ over \in Calls /\ over.ops = <<>> /\ over.as = call[t].as /\ ~over.got
      /\ over.bound = call[t].bound /\ over.sent = call[t].sent /\ over.who = call[t].who
  <2>1. <<>> \in Seq(Steps) /\ FALSE \in BOOLEAN
    OBVIOUS
  <2>2. over \in Calls
    BY <1>1, <2>1 DEF Calls
  <2> QED BY <1>1, <2>2 DEF Calls
<1>3. call' = [call EXCEPT ![t] = over]
  BY DEF Over
<1> HIDE DEF over
<1> QED BY <1>2, <1>3 DEF WebShape

\* The four steps that read the account first: its bearer is one the site has minted.
LEMMA GetterKeeps ==
  ASSUME WebInductive, NEW t \in Callers, Bind(t) \/ Try(t) \/ FetchSwitch(t) \/ StillSignedIn(t)
  PROVE  WebInductive' /\ Bearers(disk') = Bearers(disk)
<1>0. WebShape
  BY DEF WebInductive
<1>1. /\ EnsureLoaded /\ UNCHANGED <<active, site, revoking, webPast, webLeft>>
      /\ call[t].ops # <<>> /\ Head(call[t].ops) \in {"bind", "try", "switch", "check"}
  BY DEF Bind, Try, FetchSwitch, StillSignedIn, At
<1>2. /\ FilesOnlyLose /\ Bearers(disk') = Bearers(disk) /\ disk' \in [Files -> AccountFile]
      /\ mem' \in [loaded : BOOLEAN, profile : Files, held : AccountFile]
  BY <1>1, LoadingLoses
<1>3. Held.bearer \in 0..MaxTokens /\ Held.bearer <= Len(site.owner)
  <2>1. Held \in AccountFile /\ Held \in {mem.held} \cup {disk[f] : f \in Files}
    BY <1>0, <1>1, LoadingKeeps
  <2> QED BY <2>1 DEF AccountFile, WebInductive, TokensKnown
<1>4. /\ call[t].bound <= Len(site.owner) /\ call[t].sent <= Len(site.owner)
  BY DEF WebInductive, TokensKnown
<1>5. /\ call' \in [Callers -> Calls] /\ \A u \in Callers \ {t} : call'[u] = call[u]
      /\ call'[t].as = call[t].as
      /\ call'[t].bound <= Len(site.owner) /\ call'[t].sent <= Len(site.owner)
      /\ \/ call'[t].ops = <<>>
         \/ \E n \in 1..2 : /\ call'[t].ops = SubSeq(call[t].ops, n + 1, Len(call[t].ops))
                            /\ n = 2 => Head(call[t].ops) \in {"try", "switch"}
  <2>1. CASE Over(t)
    BY <1>0, <1>4, <2>1, OverMoves
  <2>2. CASE \E n \in 1..2 : Onward(t, n, [bound |-> Held.bearer])
                             /\ (n = 2 => Head(call[t].ops) = "try")
    BY <1>0, <1>1, <1>3, <1>4, <2>2, OnwardMoves
  <2>3. CASE Onward(t, 1, [sent |-> Held.bearer])
    BY <1>0, <1>1, <1>3, <1>4, <2>3, OnwardMoves
  <2>4. CASE Onward(t, 1, <<>>)
    BY <1>0, <1>1, <1>4, <2>4, OnwardMoves
  <2>5. CASE FetchSwitch(t) /\ Onward(t, 2, <<>>)
    BY <1>0, <1>1, <1>4, <2>5, OnwardMoves DEF FetchSwitch, At
  <2> QED BY <2>1, <2>2, <2>3, <2>4, <2>5 DEF Bind, Try, FetchSwitch, StillSignedIn, At
<1>6. WebShape'
  BY <1>0, <1>1, <1>2, <1>5 DEF WebShape
<1> QED BY <1>1, <1>2, <1>5, <1>6, ReadingKeeps

\* An answer comes to a token the site has minted, and at the cost of a fault if it is lost.
LEMMA ReplyKnown ==
  ASSUME WebInductive, NEW t \in Callers, NEW reply, Reply(t, reply)
  PROVE  /\ webLeft' \in [change : Nat, fault : Nat]
         /\ Sends(t) \in 0..Len(site.owner)
         /\ reply = "data" /\ ~At(t, {"mint", "public"}) => Owner(Sends(t)) \in Accounts
<1>1. webLeft' \in [change : Nat, fault : Nat]
  BY DEF Reply, Pays, WebInductive, WebShape
<1>2. Sends(t) \in 0..Len(site.owner)
  <2>1. call[t].bound \in Nat /\ call[t].sent \in Nat /\ call[t].as \in Nat
    BY DEF WebInductive, WebShape, Calls
  <2>2. Len(site.owner) \in Nat
    BY DEF WebInductive, WebShape
  <2>3. Sends(t) \in {call[t].bound, call[t].sent, call[t].as}
    BY DEF Sends
  <2>4. \A n \in {call[t].bound, call[t].sent, call[t].as} : n \in Nat /\ n <= Len(site.owner)
    BY <2>1 DEF WebInductive, TokensKnown
  <2> QED BY <2>2, <2>3, <2>4
<1>3. ASSUME reply = "data", ~At(t, {"mint", "public"}) PROVE Owner(Sends(t)) \in Accounts
  <2>1. Verdict(Sends(t)) = "data"
    BY <1>3 DEF Reply
  <2>2. Sends(t) \in 1..Len(site.owner)
    BY <1>2, <2>1 DEF Verdict
  <2>3. site.owner \in Seq(Accounts)
    BY DEF WebInductive, WebShape
  <2> QED BY <2>2, <2>3 DEF Owner
<1> QED BY <1>1, <1>2, <1>3

\* The steps that apply an answer without storing a token.
LEMMA AnswerKeeps ==
  ASSUME WebInductive, NEW t \in Callers, NEW reply,
         \/ OwnAnswered(t, reply) \/ PartAnswered(t, reply) \/ PublicAnswered(t, reply)
         \/ Identified(t, reply) \/ Rechecks(t)
  PROVE  WebInductive'
<1>0. /\ WebShape /\ None \in AccountFile
      /\ call[t].bound <= Len(site.owner) /\ call[t].sent <= Len(site.owner)
  <2>1. None \in AccountFile
    BY WebsiteAssumption DEF None, AccountFile
  <2> QED BY <2>1 DEF WebInductive, TokensKnown
<1>1. /\ UNCHANGED <<active, site, revoking, webPast>>
      /\ call[t].ops # <<>> /\ Head(call[t].ops) \notin {"mint", "store", "save"}
  BY DEF OwnAnswered, PartAnswered, PublicAnswered, Identified, Rechecks, At
<1>2. webLeft' \in [change : Nat, fault : Nat]
  BY ReplyKnown DEF OwnAnswered, PartAnswered, PublicAnswered, Identified, Rechecks, WebInductive,
                    WebShape
<1>3. /\ FilesOnlyLose /\ disk' \in [Files -> AccountFile]
      /\ mem' \in [loaded : BOOLEAN, profile : Files, held : AccountFile]
  <2>1. CASE Unloaded
    BY <1>0, <2>1 DEF Unloaded, FilesOnlyLose, WebShape
  <2>2. CASE Save(None)
    BY <1>0, <1>1, <2>2, SavingKeeps DEF FilesOnlyLose
  <2> QED BY <2>1, <2>2 DEF OwnAnswered, PartAnswered, PublicAnswered, Identified, Rechecks,
                            ClearSessionIfRejected, Clear, Unloaded
<1>4. /\ call' \in [Callers -> Calls] /\ \A u \in Callers \ {t} : call'[u] = call[u]
      /\ call'[t].as = call[t].as
      /\ call'[t].bound = call[t].bound /\ call'[t].sent = call[t].sent
      /\ \/ call'[t].ops = <<>>
         \/ call'[t].ops = SubSeq(call[t].ops, 1 + 1, Len(call[t].ops))
  <2>0. /\ call[t].who \in SUBSET Accounts /\ call[t].seen \in SUBSET Accounts
        /\ call[t].got \in BOOLEAN /\ site.online \in SUBSET Accounts
    BY <1>0 DEF WebShape, Calls
  <2>1. CASE Over(t)
    BY <1>0, <2>1, OverMoves
  <2>2. CASE Onward(t, 1, <<>>)
    BY <1>0, <1>1, <2>2, OnwardMoves
  <2>3. CASE OwnAnswered(t, reply) /\ reply = "data"
    <3>1. Owner(Sends(t)) \in Accounts
      BY <2>3, ReplyKnown DEF OwnAnswered, At
    <3> DEFINE who == call[t].who \cup {Owner(Sends(t))}
    <3> DEFINE got == TRUE
    <3>2. Onward(t, 1, [who |-> who, got |-> got]) /\ who \in SUBSET Accounts
      BY <2>0, <2>3, <3>1 DEF OwnAnswered
    <3>3. got \in BOOLEAN
      OBVIOUS
    <3> HIDE DEF who, got
    <3> QED BY <1>0, <1>1, <3>2, <3>3, OnwardMoves
  <2>4. CASE PartAnswered(t, reply)
    <3> DEFINE used == reply = "data" /\ (At(t, {"more"}) \/ ~call[t].got)
               list == used /\ ~At(t, {"more"})
               who == call[t].who \cup (IF used THEN {Owner(Sends(t))} ELSE {})
               got == call[t].got \/ list
               seen == IF list THEN site.online \cap {Owner(Sends(t))} ELSE call[t].seen
    <3>1. reply = "data" => Owner(Sends(t)) \in Accounts
      BY <2>4, ReplyKnown DEF PartAnswered, At
    <3>2. Onward(t, 1, [who |-> who, got |-> got, seen |-> seen])
      BY <2>4 DEF PartAnswered
    <3>3. who \in SUBSET Accounts /\ seen \in SUBSET Accounts /\ got \in BOOLEAN
      BY <2>0, <3>1
    <3> HIDE DEF who, got, seen
    <3> QED BY <1>0, <1>1, <3>2, <3>3, OnwardMoves
  <2> QED BY <2>1, <2>2, <2>3, <2>4 DEF OwnAnswered, PublicAnswered, Identified, Rechecks
<1>5. WebShape'
  BY <1>0, <1>1, <1>2, <1>3, <1>4 DEF WebShape
<1> QED BY <1>0, <1>1, <1>3, <1>4, <1>5, ReadingKeeps

\* Nobody but the sign-in comes to mint or to store, and it has the token it stores.
LEMMA SignInStores ==
  ASSUME WebInductive, NEW t \in Callers, At(t, {"mint", "store", "save", "again"})
  PROVE  /\ t = "signin" /\ SigningIn \in Seq(Steps) /\ SigningIn # <<>>
         /\ 1 \in DOMAIN SigningIn /\ SigningIn[1] = Head(SigningIn) /\ StepsInOrder(SigningIn)
         /\ SigningIn[1] # "mint" => ~Has(SigningIn, "mint") /\ call["signin"].as \in 1..Len(site.owner)
<1>1. call[t].ops # <<>> /\ Head(call[t].ops) \in {"mint", "store", "save", "again"}
  BY DEF At
<1>2. t = "signin"
  <2>1. t # "signin" => call[t].ops \in Seq(Reading)
    BY DEF WebInductive, OnlySignInStores
  <2> QED BY <1>1, <2>1 DEF Reading
<1>3. /\ SigningIn \in Seq(Steps) /\ SigningIn # <<>>
  BY <1>1, <1>2 DEF SigningIn, WebInductive, WebShape, Calls
<1>4. 1 \in DOMAIN SigningIn /\ SigningIn[1] = Head(SigningIn)
  BY <1>3
<1>5. StepsInOrder(SigningIn)
  BY DEF WebInductive, MintedIsNew
<1>6. SigningIn[1] # "mint" => ~Has(SigningIn, "mint")
  BY <1>5 DEF StepsInOrder, Has
<1>7. ~Has(SigningIn, "mint") => call["signin"].as \in 1..Len(site.owner)
  <2>1. call["signin"].as \in Nat /\ call["signin"].as <= Len(site.owner) /\ Len(site.owner) \in Nat
    <3>1. call \in [Callers -> Calls] /\ "signin" \in Callers /\ site.owner \in Seq(Accounts)
      BY DEF WebInductive, WebShape, Callers
    <3>2. call["signin"] \in Calls /\ Len(site.owner) \in Nat
      BY <3>1
    <3>3. call["signin"].as \in Nat
      BY <3>2, WebsiteAssumption DEF Calls
    <3>4. call["signin"].as <= Len(site.owner)
      BY <3>1 DEF WebInductive, TokensKnown
    <3> QED BY <3>2, <3>3, <3>4
  <2> QED BY <1>3, <2>1 DEF WebInductive, MintedIsNew
<1> QED BY <1>2, <1>3, <1>4, <1>5, <1>6, <1>7

\* The answer to a mint keeps the invariant, and writes no file.
LEMMA MintedKeeps ==
  ASSUME WebInductive, NEW t \in Callers, NEW reply, Minted(t, reply)
  PROVE  WebInductive' /\ UNCHANGED disk
<1>0. /\ WebShape /\ At(t, {"mint"}) /\ Reply(t, reply)
      /\ UNCHANGED <<disk, mem, active, revoking, webPast>>
  BY DEF WebInductive, Minted
<1>1. At(t, {"mint", "store", "save", "again"})
  BY <1>0 DEF At
<1>2. /\ t = "signin" /\ SigningIn \in Seq(Steps) /\ SigningIn # <<>>
      /\ 1 \in DOMAIN SigningIn /\ SigningIn[1] = Head(SigningIn) /\ StepsInOrder(SigningIn)
  BY <1>1, SignInStores
<1>3. SigningIn[1] = "mint" /\ SigningIn = call[t].ops
  BY <1>0, <1>2 DEF At, SigningIn
<1>4. Len(site.owner) < MaxTokens /\ Len(site.owner) \in Nat
  BY <1>2, <1>3 DEF WebInductive, MintedIsNew, Has, WebShape
<1>5. webLeft' \in [change : Nat, fault : Nat]
  BY <1>0, ReplyKnown
<1>6. CASE Over(t) /\ UNCHANGED site
  <2>1. /\ call' \in [Callers -> Calls] /\ \A u \in Callers \ {t} : call'[u] = call[u]
        /\ call'[t].ops = <<>> /\ call'[t].as = call[t].as
        /\ call'[t].bound = call[t].bound /\ call'[t].sent = call[t].sent
    BY <1>0, <1>6, OverMoves
  <2>2. WebShape'
    BY <1>0, <1>5, <1>6, <2>1 DEF WebShape
  <2>3. FilesOnlyLose
    BY <1>0 DEF FilesOnlyLose, Files
  <2>4. CallsOnlyRead
    BY <1>2, <2>1 DEF CallsOnlyRead, WebInductive, TokensKnown, OnlySignInStores
  <2> QED BY <1>0, <1>2, <1>6, <2>1, <2>2, <2>3, <2>4, OtherCallsKeep
<1>7. ASSUME NEW a \in call[t].who, site' = [site EXCEPT !.owner = Append(@, a)],
             Onward(t, 1, [as |-> Len(site.owner) + 1])
      PROVE  WebInductive'
  <2>1. /\ a \in Accounts /\ site'.owner = Append(site.owner, a)
        /\ site' \in [owner : Seq(Accounts), revoked : SUBSET Tokens, online : SUBSET Accounts]
    <3>1. a \in Accounts
      BY <1>0, <1>7 DEF WebShape, Calls
    <3>2. site.owner \in Seq(Accounts) /\ Append(site.owner, a) \in Seq(Accounts)
      BY <1>0, <3>1 DEF WebShape
    <3> QED BY <1>0, <1>7, <3>1, <3>2 DEF WebShape
  <2>2. Len(site'.owner) = Len(site.owner) + 1
    BY <1>0, <2>1 DEF WebShape
  <2> DEFINE new == Len(site.owner) + 1
  <2>3. new \in 1..MaxTokens
    BY <1>4, WebsiteAssumption
  <2>4. /\ call' \in [Callers -> Calls] /\ \A u \in Callers \ {t} : call'[u] = call[u]
        /\ call'[t].as = new /\ call'[t].bound = call[t].bound /\ call'[t].sent = call[t].sent
        /\ call'[t].ops = SubSeq(call[t].ops, 1 + 1, Len(call[t].ops))
    <3> HIDE DEF new
    <3>1. new \in 0..MaxTokens
      BY <2>3
    <3>2. Onward(t, 1, [as |-> new])
      BY <1>7 DEF new
    <3> QED BY <1>0, <1>2, <1>3, <3>1, <3>2, OnwardMoves
  <2>5. WebShape'
    BY <1>0, <1>4, <1>5, <2>1, <2>2, <2>3, <2>4 DEF WebShape
  <2>6. TokensKnown'
    <3>1. \A n \in 0..MaxTokens : n <= Len(site.owner) => n <= Len(site'.owner)
      BY <1>4, <2>2
    <3>2. /\ \A f \in Files : disk[f].bearer \in 0..MaxTokens
          /\ mem.held.bearer \in 0..MaxTokens
          /\ \A u \in Callers : /\ call[u].bound \in 0..MaxTokens
                                /\ call[u].sent \in 0..MaxTokens /\ call[u].as \in 0..MaxTokens
      BY <1>0 DEF WebShape, AccountFile, Calls
    <3>3. call'[t].as <= Len(site'.owner)
      BY <1>4, <2>2, <2>4
    <3> QED BY <1>0, <2>4, <3>1, <3>2, <3>3 DEF WebInductive, TokensKnown
  <2>7. OnlySignInStores'
    BY <1>0, <1>2, <2>4 DEF WebInductive, OnlySignInStores
  <2>8. MintedIsNew'
    <3> DEFINE rest == SubSeq(SigningIn, 1 + 1, Len(SigningIn))
    <3>1. /\ StepsInOrder(rest) /\ ~Has(rest, "mint")
          /\ \A x \in Steps : Has(rest, x) => Has(SigningIn, x)
          /\ \A x \in {"store", "save"} : Has(SigningIn, x) /\ SigningIn[1] # x => Has(rest, x)
      BY <1>2, StepsLeft
    <3>2. \A f \in Files : disk[f].bearer # new
      BY <1>0, <1>4 DEF WebInductive, TokensKnown, WebShape, AccountFile
    <3>3. SigningIn' = rest /\ call'["signin"].as = new /\ new >= 1
      BY <1>2, <1>3, <1>4, <2>4 DEF SigningIn
    <3>4. {"store", "save", "again", "mint"} \subseteq Steps
      BY DEF Steps
    <3>5. Has(rest, "save") \/ Has(rest, "again") => active = Shared
      BY <3>1, <3>4 DEF WebInductive, MintedIsNew
    <3>6. Has(rest, "again") => Has(rest, "save")
      <4>1. Has(SigningIn, "mint")
        BY <1>2, <1>3 DEF Has
      <4>2. Has(SigningIn, "again") => Has(SigningIn, "save")
        BY <4>1 DEF WebInductive, MintedIsNew
      <4> QED BY <1>3, <3>1, <3>4, <4>2
    <3> HIDE DEF rest, new
    <3> QED BY <1>0, <3>1, <3>2, <3>3, <3>5, <3>6 DEF MintedIsNew, Has, StepsInOrder
  <2> QED BY <2>5, <2>6, <2>7, <2>8 DEF WebInductive
<1> QED BY <1>0, <1>6, <1>7 DEF Minted

\* A Switch host keeps a bearer that no file had.
LEMMA StoredKeeps ==
  ASSUME WebInductive, NEW t \in Callers, Stored(t)
  PROVE  WebInductive' /\ call["signin"].as \in Bearers(disk') \ Bearers(disk)
<1>0. /\ WebShape /\ At(t, {"store"}) /\ UNCHANGED <<active, site, revoking, webPast, webLeft>>
  BY DEF WebInductive, Stored
<1>1. At(t, {"mint", "store", "save", "again"})
  BY <1>0 DEF At
<1>2. /\ t = "signin" /\ SigningIn \in Seq(Steps) /\ SigningIn # <<>>
      /\ 1 \in DOMAIN SigningIn /\ SigningIn[1] = Head(SigningIn) /\ StepsInOrder(SigningIn)
      /\ SigningIn[1] # "mint" => ~Has(SigningIn, "mint") /\ call["signin"].as \in 1..Len(site.owner)
  BY <1>1, SignInStores
<1>3. SigningIn[1] = "store" /\ SigningIn = call[t].ops
  BY <1>0, <1>2 DEF At, SigningIn
<1> DEFINE as == call["signin"].as
           held == [bearer |-> as, linked |-> TRUE]
<1>4. as \in 1..Len(site.owner) /\ as \in 1..MaxTokens /\ ~Has(SigningIn, "mint")
  BY <1>0, <1>2, <1>3, WebsiteAssumption DEF WebShape
<1>5. held \in AccountFile /\ held.bearer = as /\ Save(held)
  <2>1. Save(held)
    BY <1>2 DEF Stored
  <2> QED BY <1>4, <2>1 DEF AccountFile
<1> HIDE DEF held
<1>6. /\ disk' \in [Files -> AccountFile]
      /\ mem' \in [loaded : BOOLEAN, profile : Files, held : AccountFile]
      /\ mem'.profile = active /\ mem'.held = held /\ disk'[active] = held
      /\ \A f \in Files : disk'[f] \in {disk[g] : g \in Files} \cup {None, held}
  BY <1>0, <1>5, SavingKeeps
<1>7. /\ call' \in [Callers -> Calls] /\ \A u \in Callers \ {t} : call'[u] = call[u]
      /\ call'[t].as = call[t].as /\ call'[t].bound = call[t].bound /\ call'[t].sent = call[t].sent
      /\ call'[t].ops = SubSeq(call[t].ops, 1 + 1, Len(call[t].ops))
  <2> DEFINE got == TRUE
  <2>1. Onward(t, 1, [got |-> got]) /\ got \in BOOLEAN
    BY DEF Stored
  <2> HIDE DEF got
  <2> QED BY <1>0, <1>2, <1>3, <2>1, OnwardMoves
<1>8. WebShape'
  BY <1>0, <1>6, <1>7 DEF WebShape
<1>9. TokensKnown'
  <2>1. held.bearer <= Len(site.owner) /\ held.bearer # 0 /\ None.bearer = 0 /\ 0 <= Len(site.owner)
    BY <1>0, <1>4, <1>5 DEF None, WebShape
  <2>2. \A f \in Files : /\ disk'[f].bearer <= Len(site.owner)
                         /\ disk'[f].bearer = 0 => disk'[f] = None
    BY <1>6, <2>1 DEF WebInductive, TokensKnown
  <2> QED BY <1>0, <1>6, <1>7, <2>1, <2>2 DEF WebInductive, TokensKnown
<1>10. OnlySignInStores'
  BY <1>0, <1>2, <1>6, <1>7 DEF WebInductive, OnlySignInStores
<1>11. MintedIsNew'
  <2> DEFINE rest == SubSeq(SigningIn, 1 + 1, Len(SigningIn))
  <2>1. /\ StepsInOrder(rest) /\ ~Has(rest, "mint")
        /\ \A x \in Steps : Has(rest, x) => Has(SigningIn, x)
        /\ ~Has(rest, "store") /\ ~Has(rest, "save")
    BY <1>2, <1>3, StepsLeft
  <2>2. SigningIn' = rest /\ call'["signin"].as = as
    BY <1>2, <1>3, <1>7 DEF SigningIn
  <2>3. {"store", "save", "again", "mint"} \subseteq Steps
    BY DEF Steps
  <2>4. Has(rest, "again") => active = Shared /\ disk'[Shared].bearer = as
    BY <1>5, <1>6, <2>1, <2>3 DEF WebInductive, MintedIsNew
  <2> HIDE DEF rest
  <2>5. as >= 1
    BY <1>4
  <2> HIDE DEF as
  <2> QED BY <1>0, <2>1, <2>2, <2>4, <2>5 DEF MintedIsNew
<1>12. as \in Bearers(disk') \ Bearers(disk)
  <2>1. as \in Bearers(disk')
    BY <1>0, <1>4, <1>5, <1>6 DEF Bearers, WebShape
  <2>2. Has(SigningIn, "store")
    BY <1>2, <1>3 DEF Has
  <2>3. \A f \in Files : disk[f].bearer # as
    BY <1>4, <2>2 DEF WebInductive, MintedIsNew
  <2> QED BY <2>1, <2>3 DEF Bearers
<1> QED BY <1>8, <1>9, <1>10, <1>11, <1>12 DEF WebInductive

\* The other hosts keep one that no file had, and then write over it only.
LEMMA KeptByNameKeeps ==
  ASSUME WebInductive, NEW t \in Callers, KeptByName(t)
  PROVE  /\ WebInductive'
         /\ \/ Bearers(disk) \subseteq Bearers(disk')
            \/ ~(Bearers(disk') \subseteq Bearers(disk))
<1>0. /\ WebShape /\ At(t, {"save", "again"})
      /\ UNCHANGED <<active, site, revoking, webPast, webLeft>>
  BY DEF WebInductive, KeptByName
<1>1. At(t, {"mint", "store", "save", "again"})
  BY <1>0 DEF At
<1>2. /\ t = "signin" /\ SigningIn \in Seq(Steps) /\ SigningIn # <<>>
      /\ 1 \in DOMAIN SigningIn /\ SigningIn[1] = Head(SigningIn) /\ StepsInOrder(SigningIn)
      /\ SigningIn[1] # "mint" => ~Has(SigningIn, "mint") /\ call["signin"].as \in 1..Len(site.owner)
  BY <1>1, SignInStores
<1>3. SigningIn[1] \in {"save", "again"} /\ SigningIn = call[t].ops
  BY <1>0, <1>2 DEF At, SigningIn
<1> DEFINE as == call["signin"].as
           held == [bearer |-> as, linked |-> FALSE]
<1>4. as \in 1..Len(site.owner) /\ as \in 1..MaxTokens /\ ~Has(SigningIn, "mint")
  BY <1>0, <1>2, <1>3, WebsiteAssumption DEF WebShape
<1>5. /\ held \in AccountFile /\ held.bearer = as /\ held.bearer <= Len(site.owner)
      /\ held.bearer # 0 /\ None.bearer = 0 /\ 0 <= Len(site.owner)
  BY <1>0, <1>4 DEF AccountFile, None, WebShape
<1>6. active = Shared /\ mem.profile = Shared /\ Shared \in Files
  BY <1>2, <1>3 DEF WebInductive, MintedIsNew, OnlySignInStores, Has, Files
<1>a. /\ SigningIn[1] = "save" => \A f \in Files : disk[f].bearer # as
      /\ SigningIn[1] = "again" => disk[Shared].bearer \in {0, as}
  <2>1. CASE SigningIn[1] = "save"
    <3>1. Has(SigningIn, "save")
      BY <1>2, <2>1 DEF Has
    <3> QED BY <1>4, <2>1, <3>1 DEF WebInductive, MintedIsNew
  <2>2. CASE SigningIn[1] = "again"
    <3>1. Has(SigningIn, "again")
      BY <1>2, <2>2 DEF Has
    <3>2. ~Has(SigningIn, "save")
      BY <1>2, <2>2 DEF StepsInOrder, Has
    <3> QED BY <1>4, <2>2, <3>1, <3>2 DEF WebInductive, MintedIsNew
  <2> QED BY <1>3, <2>1, <2>2
<1> HIDE DEF held
<1>7. \/ /\ disk' = [disk EXCEPT ![Shared] = held]
         /\ mem' = [mem EXCEPT !.loaded = TRUE, !.held = held]
      \/ SigningIn[1] = "again" /\ UNCHANGED <<disk, mem>>
  <2>1. SaveBearerOnly(call[t].as) \/ (~At(t, {"save"}) /\ UNCHANGED <<disk, mem>>)
    BY DEF KeptByName
  <2>2. ~At(t, {"save"}) => SigningIn[1] = "again"
    BY <1>2, <1>3 DEF At
  <2> QED BY <1>2, <1>6, <2>1, <2>2 DEF SaveBearerOnly, held
<1>8. /\ disk' \in [Files -> AccountFile]
      /\ mem' \in [loaded : BOOLEAN, profile : Files, held : AccountFile]
      /\ mem'.profile = Shared /\ mem'.held \in {mem.held, held}
      /\ \A f \in Files : disk'[f] = IF f = Shared /\ disk' # disk THEN held ELSE disk[f]
      /\ disk'[Shared] \in {disk[Shared], held}
  <2>1. TRUE \in BOOLEAN
    OBVIOUS
  <2>2. mem' \in [loaded : BOOLEAN, profile : Files, held : AccountFile]
        /\ mem'.profile = Shared /\ mem'.held \in {mem.held, held}
    BY <1>0, <1>5, <1>6, <1>7, <2>1 DEF WebShape
  <2>3. /\ disk' \in [Files -> AccountFile]
        /\ \A f \in Files : disk'[f] = IF f = Shared /\ disk' # disk THEN held ELSE disk[f]
    BY <1>0, <1>5, <1>6, <1>7 DEF WebShape
  <2> QED BY <1>6, <2>2, <2>3
<1>9. /\ call' \in [Callers -> Calls] /\ \A u \in Callers \ {t} : call'[u] = call[u]
      /\ call'[t].as = call[t].as /\ call'[t].bound = call[t].bound /\ call'[t].sent = call[t].sent
      /\ call'[t].ops = SubSeq(call[t].ops, 1 + 1, Len(call[t].ops))
  <2> DEFINE got == At(t, {"again"})
  <2>1. Onward(t, 1, [got |-> got])
    BY DEF KeptByName
  <2>2. got \in BOOLEAN
    BY DEF At
  <2> HIDE DEF got
  <2> QED BY <1>0, <1>2, <1>3, <2>1, <2>2, OnwardMoves
<1>10. WebShape'
  BY <1>0, <1>8, <1>9 DEF WebShape
<1>11. TokensKnown'
  <2>1. \A f \in Files : /\ disk'[f].bearer <= Len(site.owner)
                         /\ disk'[f].bearer = 0 => disk'[f] = None
    BY <1>5, <1>8 DEF WebInductive, TokensKnown
  <2>2. mem'.held.bearer <= Len(site.owner) /\ (mem'.held.bearer = 0 => mem'.held = None)
    BY <1>5, <1>8 DEF WebInductive, TokensKnown
  <2> QED BY <1>0, <1>9, <2>1, <2>2 DEF WebInductive, TokensKnown
<1>12. OnlySignInStores'
  BY <1>0, <1>2, <1>8, <1>9 DEF WebInductive, OnlySignInStores
<1>13. MintedIsNew'
  <2> DEFINE rest == SubSeq(SigningIn, 1 + 1, Len(SigningIn))
  <2>1. /\ StepsInOrder(rest) /\ ~Has(rest, "mint")
        /\ \A x \in Steps : Has(rest, x) => Has(SigningIn, x)
    BY <1>2, <1>3, StepsLeft
  <2>2. SigningIn' = rest /\ call'["signin"].as = as /\ as >= 1
    BY <1>2, <1>3, <1>4, <1>9 DEF SigningIn
  <2>3. {"store", "save", "again", "mint"} \subseteq Steps
    BY DEF Steps
  <2>4. disk'[Shared].bearer \in {0, as}
    BY <1>5, <1>7, <1>8, <1>a
  <2>5. ASSUME Has(rest, "store") \/ Has(rest, "save"), NEW f \in Files
        PROVE  disk'[f].bearer # as
    <3>1. SigningIn[1] = "again"
      <4>1. SigningIn[1] \in {"store", "save"} => ~Has(rest, "store") /\ ~Has(rest, "save")
        BY <1>2, StepsLeft
      <4> QED BY <1>3, <2>5, <4>1
    <3>2. ~Has(SigningIn, "store") /\ ~Has(SigningIn, "save")
      BY <1>2, <3>1 DEF StepsInOrder, Has
    <3> QED BY <2>1, <2>3, <2>5, <3>2
  <2> HIDE DEF rest, as
  <2> QED BY <1>0, <1>6, <2>1, <2>2, <2>4, <2>5 DEF MintedIsNew
<1>14. \/ Bearers(disk) \subseteq Bearers(disk')
       \/ ~(Bearers(disk') \subseteq Bearers(disk))
  <2>1. CASE SigningIn[1] = "save"
    BY <1>4, <1>5, <1>6, <1>7, <1>a, <1>8, <2>1 DEF Bearers, WebShape
  <2>2. CASE SigningIn[1] = "again"
    BY <1>4, <1>5, <1>6, <1>a, <1>8, <2>2 DEF Bearers, WebShape
  <2> QED BY <1>3, <2>1, <2>2
<1> QED BY <1>10, <1>11, <1>12, <1>13, <1>14 DEF WebInductive

\* A 401 clears one bearer at most: the one of the active profile's file, or of the file
\* that loading has just moved there.
LEMMA ClearingTakes ==
  ASSUME WebInductive, NEW t \in Callers, NEW reply,
         OwnAnswered(t, reply) \/ PartAnswered(t, reply),
         NEW b \in Bearers(disk) \ Bearers(disk')
  PROVE  /\ At(t, Asking) /\ Verdict(Sends(t)) = "401" /\ call'[t] # call[t]
         /\ Sends(t) = b => b \in site.revoked
<1>1. At(t, {"own", "part", "adapter", "more"}) /\ Reply(t, reply) /\ ClearSessionIfRejected(reply)
  BY DEF OwnAnswered, PartAnswered, At
<1>2. reply = "401"
  BY <1>1 DEF ClearSessionIfRejected, Rejected
<1>3. At(t, Asking)
  BY <1>1 DEF At, Asking
<1>4. ~At(t, {"mint", "public"})
  BY <1>1 DEF At
<1>5. Verdict(Sends(t)) = "401"
  BY <1>1, <1>2, <1>4 DEF Reply
<1>6. Sends(t) = b => b \in site.revoked
  BY <1>5 DEF Verdict, Bearers
<1>7. call'[t] # call[t]
  <2>1. WebShape /\ call[t] \in Calls /\ call[t].ops # <<>>
    BY <1>1 DEF WebInductive, WebShape, At
  <2>2. CASE Over(t)
    BY <2>1, <2>2, OverMoves
  <2>3. ASSUME NEW fields, Onward(t, 1, fields), "ops" \notin DOMAIN fields
        PROVE  call'[t].ops # call[t].ops
    <3> DEFINE rest == [call[t] EXCEPT !.ops = SubSeq(call[t].ops, 1 + 1, Len(call[t].ops))]
    <3>1. "ops" \in DOMAIN rest /\ rest.ops # call[t].ops
      BY <2>1, OnwardShape DEF Calls
    <3>2. call'[t] = [f \in DOMAIN rest |-> IF f \in DOMAIN fields THEN fields[f] ELSE rest[f]]
      BY <2>1, <2>3 DEF Onward, WebShape
    <3> HIDE DEF rest
    <3> QED BY <2>3, <3>1, <3>2
  <2>4. CASE PartAnswered(t, reply)
    <3> DEFINE used == reply = "data" /\ (At(t, {"more"}) \/ ~call[t].got)
               list == used /\ ~At(t, {"more"})
               who == call[t].who \cup (IF used THEN {Owner(Sends(t))} ELSE {})
               got == call[t].got \/ list
               seen == IF list THEN site.online \cap {Owner(Sends(t))} ELSE call[t].seen
               fields == [who |-> who, got |-> got, seen |-> seen]
    <3>1. Onward(t, 1, fields)
      BY <2>4 DEF PartAnswered
    <3>2. "ops" \notin DOMAIN fields
      OBVIOUS
    <3> HIDE DEF fields
    <3> QED BY <2>3, <3>1, <3>2
  <2> QED BY <1>2, <2>2, <2>4 DEF OwnAnswered
<1> QED BY <1>3, <1>5, <1>6, <1>7

\* The invariant the account rests on, for every number of accounts, profiles and tokens:
\* a bearer that is minted is new to every file until the sign-in stores it.
THEOREM WebInductiveHolds == Spec => []WebInductive
<1>1. WebInductive /\ [Next]_clientVars => WebInductive'
  <2> SUFFICES ASSUME WebInductive, [WebNext]_webVars PROVE WebInductive'
    BY WebSteps DEF WebInductive
  <2>1. CASE UNCHANGED webVars
    BY <2>1 DEF webVars, WebInductive, WebShape, TokensKnown, OnlySignInStores, MintedIsNew,
                StepsInOrder, Has, SigningIn
  <2>2. CASE Loads \/ StartsJob \/ EndsCall \/ LeavesCall
    BY <2>2, CallsKeep
  <2>3. CASE StartsSignIn \/ AccountChanges
    BY <2>3, SignInStartKeeps, AccountChangesKeep
  <2>4. ASSUME NEW t \in Callers, CallGoesOn(t) PROVE WebInductive'
    BY <2>4, GetterKeeps, AnswerKeeps, MintedKeeps, StoredKeeps, KeptByNameKeeps DEF CallGoesOn
  <2> QED BY <2>1, <2>2, <2>3, <2>4 DEF WebNext
<1> QED BY WebStarts, <1>1, PTL DEF Spec

\* A stored session the site still honours is lost to nothing but a sign-out, a new
\* sign-in or another token's 401, whatever calls, sign-ins, profile switches, lost
\* answers and crashes come together (ClearSessionIfRejected of api.cpp, the getters and
\* writers of account.cpp, and both sign-ins).
THEOREM GoodSessionKeptHolds == Spec => GoodSessionKept
<1> DEFINE Kept == \A t \in Bearers(disk) \ Bearers(disk') :
                     \/ t \in site.revoked \/ webPast' # webPast
                     \/ ~(Bearers(disk') \subseteq Bearers(disk))
                     \/ \E u \in Callers : /\ call'[u] # call[u] /\ At(u, Asking)
                                           /\ Sends(u) # t /\ Verdict(Sends(u)) = "401"
<1>1. WebInductive /\ [Next]_clientVars => [Kept]_webVars
  <2> SUFFICES ASSUME WebInductive, WebNext PROVE Kept
    BY WebSteps DEF WebInductive
  <2>0. UNCHANGED disk => Bearers(disk') = Bearers(disk)
    BY DEF Bearers
  <2>1. CASE Loads \/ StartsJob \/ EndsCall \/ LeavesCall
    BY <2>1, CallsKeep
  <2>2. CASE StartsSignIn
    BY <2>0, <2>2 DEF StartsSignIn
  <2>3. CASE AccountChanges
    <3>1. CASE UNCHANGED disk
      BY <2>0, <3>1
    <3>2. CASE webPast' = webPast + 1
      <4>1. webPast' # webPast
        BY <3>2 DEF WebInductive, WebShape
      <4> QED BY <4>1
    <3> QED BY <2>3, <3>1, <3>2 DEF AccountChanges, Forget, SwitchProfile, SignOut, Revoke, Expire,
                                    FriendIsOnline, AccountDies
  <2>4. ASSUME NEW t \in Callers, CallGoesOn(t) PROVE Kept
    <3>1. CASE Bind(t) \/ Try(t) \/ FetchSwitch(t) \/ StillSignedIn(t)
      BY <3>1, GetterKeeps
    <3>2. CASE UNCHANGED disk
      BY <2>0, <3>2
    <3>3. ASSUME NEW reply, OwnAnswered(t, reply) \/ PartAnswered(t, reply) PROVE Kept
      BY <3>3, ClearingTakes, Zenon
    <3>4. CASE Stored(t)
      BY <3>4, StoredKeeps
    <3>5. CASE KeptByName(t)
      BY <3>5, KeptByNameKeeps
    <3> HIDE DEF Kept
    <3> QED BY <2>4, <3>1, <3>2, <3>3, <3>4, <3>5
            DEF CallGoesOn, PublicAnswered, Minted, Identified, Rechecks
  <2> HIDE DEF Kept
  <2> QED BY <2>1, <2>2, <2>3, <2>4 DEF WebNext
<1> HIDE DEF Kept
<1>2. Spec => [][Kept]_webVars
  BY WebInductiveHolds, <1>1, PTL DEF Spec
<1> QED BY <1>2 DEF Kept, GoodSessionKept

-----------------------------------------------------------------------------
(* BCAT. *)

BcatNext ==
  ServiceMoves \/ Ask \/ DownloadPath \/ ForgetEntry \/ Forgotten \/ WriteEntry \/ BcatDie

\* A step of the process is a step of Fetch, of the service it asks or of the process
\* that dies, or leaves the BCAT data alone.
LEMMA DeliverySteps == [Next]_clientVars => [BcatNext]_bcatVars
  BY DEF Next, ProcessStarts, Network, Reports, Web, Desktop, Delivery, SignInRechecks,
         ProcessDies, BcatNext, clientVars, bcatVars

\* What the Fetch under way has in memory, at each point of it.
FetchHolds ==
  /\ fetch.at # "idle" => fetch.dataset <= service.newest
  /\ fetch.at \in {"download", "clear", "write"} =>
       fetch.dataset \in Datasets \ (fetch.closed \cup bcatPast.gone)
  /\ fetch.at = "download" =>
       /\ fetch.next \in Paths /\ Split(fetch.next)
       /\ \A p \in Paths :
            fetch.files[p] = IF Split(p) /\ p < fetch.next THEN fetch.dataset ELSE Absent
       /\ \A d \in fetch.closed \cap service.open : d > fetch.dataset
       /\ copy[0] \in Datasets => copy[0] <= fetch.dataset
  /\ fetch.at \in {"clear", "write"} =>
       \A p \in Paths : fetch.files[p] = IF Split(p) THEN fetch.dataset ELSE Absent
  /\ fetch.at = "clear" => fetch.next = After(0)

\* What the copy on disk holds as long as the disk does what it is asked: under a
\* manifest, that dataset's files or none; and while one is written, no manifest and
\* the files written so far.
CopyHolds ==
  ~bcatPast.failed =>
    /\ copy[0] \in Datasets =>
         /\ copy[0] \notin bcatPast.gone
         /\ \A p \in Paths : Split(p) => copy[p] \in {copy[0], Absent}
    /\ fetch.at = "write" =>
         /\ copy[0] = Absent
         /\ \A p \in Paths :
              Split(p) /\ (fetch.next = 0 \/ p < fetch.next) => copy[p] = fetch.dataset

\* Nothing is newer than what the service has published.
Published ==
  /\ \A d \in service.open : d <= service.newest
  /\ copy[0] \in Datasets => copy[0] <= service.newest

BcatShape ==
  /\ service \in [newest : 0..MaxDatasets, offered : BOOLEAN, open : SUBSET Datasets]
  /\ copy \in [Entries -> 0..Cut]
  /\ fetch \in [at : {"idle", "download", "clear", "write", "drop"}, dataset : 0..MaxDatasets,
                next : Entries, files : [Paths -> 0..MaxDatasets], closed : SUBSET Datasets]
  /\ given \in [outcome : {"unasked", "dataset", "none", "unreachable"}, files : [Paths -> 0..Cut],
                closed : SUBSET Datasets]
  /\ bcatPast \in [failed : BOOLEAN, gone : SUBSET Datasets]

BcatInductive == BcatShape /\ FetchHolds /\ CopyHolds /\ Published /\ DeliveredWhole

\* After walks the delivered paths upwards and comes to the manifest behind the last.
LEMMA AfterWalks ==
  ASSUME NEW p \in Entries
  PROVE  /\ After(p) \in Entries
         /\ After(p) # 0 => After(p) \in Paths /\ Split(After(p)) /\ After(p) > p
         /\ \A q \in Paths : Split(q) /\ q > p => After(p) # 0 /\ After(p) <= q
<1> DEFINE later == {q \in Paths : q > p /\ Split(q)}
<1>1. CASE later = {}
  BY <1>1, BcatAssumption DEF After, Entries, Paths
<1>2. CASE later # {}
  <2>1. later \in SUBSET Nat
    BY DEF Paths
  <2>2. \E q \in later : \A r \in later : q <= r
    BY <1>2, <2>1, LeastNumber, Zenon
  <2>3. After(p) \in later /\ \A r \in later : After(p) <= r
    BY <1>2, <2>2 DEF After
  <2> QED BY <2>3, BcatAssumption DEF Entries, Paths
<1> QED BY <1>1, <1>2

\* No Fetch, and nothing given, have their shapes.
LEMMA NothingShape ==
  /\ Nothing \in [Paths -> 0..MaxDatasets] /\ Nothing \in [Paths -> 0..Cut]
  /\ NoFetch \in [at : {"idle", "download", "clear", "write", "drop"}, dataset : 0..MaxDatasets,
                  next : Entries, files : [Paths -> 0..MaxDatasets], closed : SUBSET Datasets]
  BY BcatAssumption DEF NoFetch, Nothing, Absent, Entries, Cut

\* The BCAT data starts in its inductive invariant.
LEMMA BcatStarts == Init => BcatInductive
<1> SUFFICES ASSUME NEW budget, BcatInit(budget) PROVE BcatInductive
  BY DEF Init
<1>1. BcatShape
  BY BcatAssumption DEF BcatInit, BcatShape, NoFetch, Nothing, Gave, Entries, Paths, Datasets, Cut, Absent
<1>2. FetchHolds /\ CopyHolds /\ Published /\ DeliveredWhole
  BY BcatAssumption DEF BcatInit, FetchHolds, CopyHolds, Published, DeliveredWhole, NoFetch, Gave,
                        Entries, Datasets, Absent
<1> QED BY <1>1, <1>2 DEF BcatInductive

\* A service that publishes another dataset keeps it.
LEMMA ServiceMovesKeeps == BcatInductive /\ ServiceMoves => BcatInductive'
<1> SUFFICES ASSUME BcatInductive, ServiceMoves PROVE BcatInductive'
  OBVIOUS
<1> USE BcatAssumption
<1>1. BcatShape'
  <2>1. CASE /\ service.newest < MaxDatasets
             /\ \E window \in SUBSET {service.newest + 1} :
                  service' = [newest |-> service.newest + 1, offered |-> TRUE,
                              open |-> service.open \cup window]
    BY <2>1 DEF BcatInductive, BcatShape, ServiceMoves, Datasets
  <2>2. CASE service.newest > 0 /\ service' = [service EXCEPT !.offered = ~@]
    BY <2>2 DEF BcatInductive, BcatShape, ServiceMoves
  <2>3. CASE \E d \in service.open : service' = [service EXCEPT !.open = @ \ {d}]
    BY <2>3 DEF BcatInductive, BcatShape, ServiceMoves
  <2> QED BY <2>1, <2>2, <2>3 DEF ServiceMoves
<1>2. FetchHolds'
  <2>1. UNCHANGED <<copy, fetch, bcatPast>> /\ service.newest <= service'.newest
    BY DEF BcatInductive, BcatShape, ServiceMoves
  <2>2. \A d \in service'.open : d \in service.open \/ d > service.newest
    BY DEF BcatInductive, BcatShape, ServiceMoves
  <2>3. fetch.dataset \in Nat /\ service.newest \in Nat /\ service'.newest \in Nat
    BY <1>1 DEF BcatInductive, BcatShape
  <2>4. \A d \in fetch.closed \cap service'.open : d \in Nat
    BY <1>1 DEF BcatShape, Datasets
  <2> QED BY <2>1, <2>2, <2>3, <2>4 DEF BcatInductive, FetchHolds, Split, After
<1>3. CopyHolds'
  BY DEF BcatInductive, CopyHolds, ServiceMoves
<1>4. Published'
  BY DEF BcatInductive, BcatShape, Published, ServiceMoves, Datasets
<1>5. DeliveredWhole'
  BY DEF BcatInductive, DeliveredWhole, ServiceMoves
<1> QED BY <1>1, <1>2, <1>3, <1>4, <1>5 DEF BcatInductive

\* What is read from the copy on disk is whole, in its window and not gone.
LEMMA CacheGives ==
  ASSUME BcatInductive, NEW closed \in SUBSET Datasets, FromCache(closed),
         copy[0] \in Datasets /\ InWindow(copy[0]) => copy[0] \notin closed
  PROVE  /\ given' \in [outcome : {"unasked", "dataset", "none", "unreachable"}, files : [Paths -> 0..Cut],
                        closed : SUBSET Datasets]
         /\ UNCHANGED bcatPast => DeliveredWhole'
<1> USE BcatAssumption
<1>1. CASE ~Cached
  BY <1>1 DEF FromCache, Gave, DeliveredWhole, Nothing, Cut, Absent
<1>2. CASE Cached
  <2>1. copy[0] \in Datasets /\ copy[0] \notin closed
    BY <1>2 DEF Cached
  <2> DEFINE data == [p \in Paths |-> IF Split(p) THEN copy[p] ELSE Absent]
  <2>2. given' = Gave("dataset", data, closed)
    BY <1>2 DEF FromCache
  <2>3. data \in [Paths -> 0..Cut]
    <3>1. copy \in [Entries -> 0..Cut] /\ Paths \subseteq Entries /\ Absent \in 0..Cut
      BY DEF BcatInductive, BcatShape, Entries, Paths, Cut, Absent
    <3> QED BY <3>1
  <2>4. ASSUME ~bcatPast.failed
        PROVE  /\ copy[0] \notin bcatPast.gone
               /\ \A p \in Paths : data[p] = IF Split(p) THEN copy[0] ELSE Absent
    BY <1>2, <2>1, <2>4 DEF BcatInductive, CopyHolds, Cached
  <2> QED BY <2>1, <2>2, <2>3, <2>4 DEF Gave, DeliveredWhole, Split
<1> QED BY <1>1, <1>2

\* The request for the manifest keeps it.
LEMMA AskKeeps == BcatInductive /\ Ask => BcatInductive'
<1> SUFFICES ASSUME BcatInductive, Ask PROVE BcatInductive'
  OBVIOUS
<1> USE BcatAssumption
<1> DEFINE asked == [NoFetch EXCEPT !.dataset = service.newest, !.next = After(0),
                                    !.closed = Datasets \ service.open]
<1>0. After(0) \in Entries
  BY AfterWalks DEF Entries
<1>1. CASE FromCache(asked.closed) /\ UNCHANGED <<fetch, bcatPast>>
  <2>1. asked.closed = Datasets \ service.open
    BY DEF NoFetch
  <2>2. /\ given' \in [outcome : {"unasked", "dataset", "none", "unreachable"},
                       files : [Paths -> 0..Cut], closed : SUBSET Datasets]
        /\ DeliveredWhole'
    BY <1>1, <2>1, CacheGives DEF InWindow
  <2> QED BY <1>1, <2>2 DEF Ask, BcatInductive, BcatShape, FetchHolds, CopyHolds, Published,
                            Split, After
<1>2. CASE fetch' = [asked EXCEPT !.at = "drop"] /\ UNCHANGED <<given, bcatPast>>
  <2>1. BcatShape'
    BY <1>0, <1>2 DEF Ask, BcatInductive, BcatShape, NoFetch, Nothing, Absent, Paths
  <2>2. FetchHolds' /\ CopyHolds' /\ Published' /\ DeliveredWhole'
    BY <1>2 DEF Ask, BcatInductive, BcatShape, FetchHolds, CopyHolds, Published, DeliveredWhole, NoFetch
  <2> QED BY <2>1, <2>2 DEF BcatInductive
<1>3. CASE /\ service.offered /\ InWindow(service.newest)
           /\ fetch' = [asked EXCEPT !.at = IF asked.next = 0 THEN "clear" ELSE "download"]
           /\ bcatPast' = [bcatPast EXCEPT !.gone = @ \ {service.newest}]
           /\ UNCHANGED given
  <2>1. BcatShape'
    BY <1>0, <1>3 DEF Ask, BcatInductive, BcatShape, NoFetch, Nothing, Absent, Paths
  <2>2. /\ fetch'.at = IF After(0) = 0 THEN "clear" ELSE "download"
        /\ fetch'.dataset = service.newest /\ fetch'.next = After(0)
        /\ fetch'.closed = Datasets \ service.open /\ fetch'.files = Nothing
    BY <1>3 DEF NoFetch
  <2>3. service.newest \in service.open /\ service.open \subseteq Datasets
    BY <1>3 DEF InWindow, BcatInductive, BcatShape
  <2>4. After(0)' = After(0)
    BY DEF After, Split
  <2>5. bcatPast'.gone = bcatPast.gone \ {service.newest} /\ bcatPast'.failed = bcatPast.failed
    BY <1>3 DEF BcatInductive, BcatShape
  <2>6. UNCHANGED <<service, copy>>
    BY DEF Ask
  <2>7. \A p \in Paths : Nothing[p] = Absent
    BY DEF Nothing
  <2>8. \A p \in Paths : Split(p) => After(0) # 0 /\ After(0) <= p
    BY AfterWalks DEF Entries, Paths
  <2>9. After(0) # 0 => After(0) \in Paths /\ Split(After(0))
    BY AfterWalks DEF Entries
  <2>10. FetchHolds'
    BY <2>2, <2>3, <2>4, <2>5, <2>6, <2>7, <2>8, <2>9
       DEF FetchHolds, Split, Published, BcatInductive, Datasets, Paths, Absent
  <2>11. CopyHolds' /\ Published'
    BY <2>2, <2>5, <2>6 DEF BcatInductive, CopyHolds, Published
  <2>12. DeliveredWhole'
    BY <1>3, <2>5 DEF BcatInductive, DeliveredWhole
  <2> QED BY <2>1, <2>10, <2>11, <2>12 DEF BcatInductive
<1> QED BY <1>1, <1>2, <1>3 DEF Ask

\* Downloading one path keeps it.
LEMMA DownloadPathKeeps == BcatInductive /\ DownloadPath => BcatInductive'
<1> SUFFICES ASSUME BcatInductive, DownloadPath PROVE BcatInductive'
  OBVIOUS
<1> USE BcatAssumption
<1>1. UNCHANGED <<service, copy, bcatPast>> /\ fetch.at = "download"
  BY DEF DownloadPath
<1>2. CASE FromCache(fetch.closed) /\ fetch' = NoFetch
  <2>1. copy[0] \in Datasets /\ InWindow(copy[0]) => copy[0] \notin fetch.closed
    BY <1>1 DEF BcatInductive, FetchHolds, InWindow, BcatShape, Datasets
  <2>2. fetch.closed \in SUBSET Datasets
    BY DEF BcatInductive, BcatShape
  <2>3. /\ given' \in [outcome : {"unasked", "dataset", "none", "unreachable"},
                       files : [Paths -> 0..Cut], closed : SUBSET Datasets]
        /\ DeliveredWhole'
    BY <1>1, <1>2, <2>1, <2>2, CacheGives
  <2>4. BcatShape'
    BY <1>1, <1>2, <2>3
       DEF BcatInductive, BcatShape, NoFetch, Nothing, Absent, Paths, Entries, Datasets
  <2>5. FetchHolds' /\ CopyHolds' /\ Published'
    BY <1>1, <1>2 DEF BcatInductive, FetchHolds, CopyHolds, Published, NoFetch
  <2> QED BY <2>3, <2>4, <2>5 DEF BcatInductive
<1>3. CASE \E data \in Download :
             /\ data = fetch.dataset
             /\ fetch' = [fetch EXCEPT !.files[fetch.next] = data,
                                       !.at = IF After(fetch.next) = 0 THEN "clear" ELSE @,
                                       !.next = IF After(@) = 0 THEN After(0) ELSE After(@)]
             /\ UNCHANGED given
  <2> DEFINE next == fetch.next
  <2>1. next \in Paths /\ Split(next) /\ next \in Entries
    BY <1>1 DEF BcatInductive, FetchHolds, Paths, Entries
  <2>2. /\ After(next) \in Entries /\ After(0) \in Entries
        /\ After(next) # 0 => After(next) \in Paths /\ Split(After(next)) /\ After(next) > next
        /\ \A q \in Paths : Split(q) /\ q > next => After(next) # 0 /\ After(next) <= q
    BY <2>1, AfterWalks DEF Entries
  <2>3. /\ fetch'.files = [fetch.files EXCEPT ![next] = fetch.dataset]
        /\ fetch'.at = IF After(next) = 0 THEN "clear" ELSE "download"
        /\ fetch'.next = IF After(next) = 0 THEN After(0) ELSE After(next)
        /\ fetch'.dataset = fetch.dataset /\ fetch'.closed = fetch.closed
        /\ given' = given
    BY <1>1, <1>3 DEF BcatInductive, BcatShape
  <2>4. BcatShape'
    <3>1. fetch'.files \in [Paths -> 0..MaxDatasets]
      BY <2>1, <2>3 DEF BcatInductive, BcatShape
    <3>2. fetch' = [at |-> fetch'.at, dataset |-> fetch.dataset, next |-> fetch'.next,
                    files |-> fetch'.files, closed |-> fetch.closed]
      BY <1>3 DEF BcatInductive, BcatShape
    <3>3. fetch'.next \in Entries /\ fetch'.at \in {"clear", "download"}
      BY <2>2, <2>3
    <3> QED BY <1>1, <2>3, <3>1, <3>2, <3>3 DEF BcatInductive, BcatShape
  <2>5. \A p \in Paths : fetch'.files[p] = IF Split(p) /\ p <= next THEN fetch.dataset ELSE Absent
    BY <1>1, <2>1, <2>3 DEF BcatInductive, BcatShape, FetchHolds, Paths
  <2>6. After(0)' = After(0) /\ \A p \in Paths : Split(p)' = Split(p)
    BY DEF After, Split
  <2>7. FetchHolds'
    <3>1. CASE After(next) = 0
      BY <1>1, <2>2, <2>3, <2>5, <2>6, <3>1 DEF BcatInductive, FetchHolds, Paths
    <3>2. CASE After(next) # 0
      <4>1. fetch'.at = "download" /\ fetch'.next = After(next)
        BY <2>3, <3>2
      <4>2. \A p \in Paths : Split(p) => (p <= next <=> p < After(next))
        BY <2>1, <2>2, <3>2 DEF Paths, Entries
      <4> QED BY <1>1, <2>2, <2>3, <2>5, <3>2, <4>1, <4>2 DEF BcatInductive, FetchHolds, Split
    <3> QED BY <3>1, <3>2
  <2>8. CopyHolds' /\ Published' /\ DeliveredWhole'
    BY <1>1, <2>3 DEF BcatInductive, CopyHolds, Published, DeliveredWhole
  <2> QED BY <2>4, <2>7, <2>8 DEF BcatInductive
<1> QED BY <1>2, <1>3 DEF DownloadPath, Sha256Matches

\* Removing one entry of the copy keeps it.
LEMMA ForgetEntryKeeps == BcatInductive /\ ForgetEntry => BcatInductive'
<1> SUFFICES ASSUME BcatInductive, ForgetEntry PROVE BcatInductive'
  OBVIOUS
<1> USE BcatAssumption
<1>1. UNCHANGED <<service, fetch, given, bcatPast>> /\ fetch.at \in {"clear", "drop"}
  BY DEF ForgetEntry
<1>2. PICK e \in Entries : copy' = [copy EXCEPT ![e] = Absent]
  BY DEF ForgetEntry
<1>3. BcatShape'
  BY <1>1, <1>2 DEF BcatInductive, BcatShape, Absent, Cut
<1>4. \A f \in Entries : copy'[f] \in {copy[f], Absent}
  BY <1>2 DEF BcatInductive, BcatShape
<1>5. 0 \in Entries /\ Paths \subseteq Entries /\ Absent \notin Datasets
  BY DEF Entries, Paths, Absent, Datasets
<1>6. FetchHolds'
  BY <1>1 DEF BcatInductive, FetchHolds, Split, After
<1>7. CopyHolds'
  BY <1>1, <1>4, <1>5 DEF BcatInductive, CopyHolds, Split
<1>8. Published'
  BY <1>1, <1>4, <1>5 DEF BcatInductive, Published
<1>9. DeliveredWhole'
  BY <1>1 DEF BcatInductive, DeliveredWhole
<1> QED BY <1>3, <1>6, <1>7, <1>8, <1>9 DEF BcatInductive

\* The end of the removal, whether it went through or not, keeps it.
LEMMA ForgottenKeeps == BcatInductive /\ Forgotten => BcatInductive'
<1> SUFFICES ASSUME BcatInductive, Forgotten PROVE BcatInductive'
  OBVIOUS
<1> USE BcatAssumption
<1> DEFINE none == [e \in Entries |-> Absent]
<1>1. UNCHANGED <<service, copy>> /\ fetch.at \in {"clear", "drop"}
  BY DEF Forgotten
<1>2. /\ bcatPast'.failed = (bcatPast.failed \/ copy # none)
      /\ bcatPast'.gone = bcatPast.gone \cup IF fetch.at = "drop" THEN 1..fetch.dataset ELSE {}
  <2>1. PICK ok \in BOOLEAN :
          /\ ok = (copy = none)
          /\ bcatPast' = [failed |-> bcatPast.failed \/ ~ok,
                          gone |-> bcatPast.gone \cup
                                     IF fetch.at = "drop" THEN 1..fetch.dataset ELSE {}]
    BY DEF Forgotten
  <2>2. ok <=> copy = none
    BY <2>1, Zenon
  <2>3. bcatPast'.failed = (bcatPast.failed \/ ~ok)
    BY <2>1
  <2>4. bcatPast'.gone = bcatPast.gone \cup IF fetch.at = "drop" THEN 1..fetch.dataset ELSE {}
    BY <2>1
  <2> QED BY <2>2, <2>3, <2>4, Zenon
<1>3. bcatPast' \in [failed : BOOLEAN, gone : SUBSET Datasets]
  <2>1. 1..fetch.dataset \subseteq Datasets
    BY DEF BcatInductive, BcatShape, Datasets
  <2> QED BY <2>1 DEF Forgotten, BcatInductive, BcatShape
<1>4. copy = none => copy[0] \notin Datasets
  BY DEF Entries, Absent, Datasets
<1>5. CASE fetch.at = "clear" /\ fetch' = [fetch EXCEPT !.at = "write"] /\ UNCHANGED given
  <2>1. BcatShape'
    BY <1>1, <1>3, <1>5 DEF BcatInductive, BcatShape
  <2>2. /\ fetch'.at = "write" /\ fetch'.dataset = fetch.dataset /\ fetch'.next = After(0)
        /\ fetch'.files = fetch.files /\ fetch'.closed = fetch.closed
    BY <1>5 DEF BcatInductive, BcatShape, FetchHolds
  <2>3. bcatPast'.gone = bcatPast.gone
    BY <1>2, <1>5
  <2>4. FetchHolds'
    BY <1>1, <1>5, <2>2, <2>3 DEF BcatInductive, FetchHolds, Split
  <2>5. CopyHolds'
    <3>1. \A p \in Paths : Split(p) => After(0) # 0 /\ After(0) <= p
      BY AfterWalks DEF Entries, Paths
    <3>2. After(0) \in Nat /\ (copy = none => copy[0] = Absent)
      BY AfterWalks DEF Entries
    <3>3. ~bcatPast'.failed => copy = none
      BY <1>2, Zenon
    <3>4. \A p \in Paths : p \in Nat /\ Split(p)' = Split(p)
      BY DEF Paths, Split
    <3> QED BY <1>1, <1>4, <2>2, <3>1, <3>2, <3>3, <3>4 DEF CopyHolds
  <2>6. Published' /\ DeliveredWhole'
    BY <1>1, <1>2, <1>5, <2>3 DEF BcatInductive, Published, DeliveredWhole
  <2> QED BY <2>1, <2>4, <2>5, <2>6 DEF BcatInductive
<1>6. CASE fetch.at = "drop" /\ fetch' = NoFetch /\ given' = Gave("none", Nothing, fetch.closed)
  <2>1. BcatShape'
    BY <1>1, <1>3, <1>6, NothingShape DEF BcatInductive, BcatShape, Gave
  <2>2. fetch'.at = "idle" /\ given'.outcome = "none"
    BY <1>6 DEF NoFetch, Gave
  <2>3. FetchHolds' /\ CopyHolds' /\ Published' /\ DeliveredWhole'
    BY <1>1, <1>2, <1>4, <2>2 DEF BcatInductive, FetchHolds, CopyHolds, Published, DeliveredWhole
  <2> QED BY <2>1, <2>3 DEF BcatInductive
<1> QED BY <1>5, <1>6 DEF Forgotten

\* Writing one entry keeps it: the manifest is written after every file.
LEMMA WriteEntryKeeps == BcatInductive /\ WriteEntry => BcatInductive'
<1> SUFFICES ASSUME BcatInductive, WriteEntry PROVE BcatInductive'
  OBVIOUS
<1> USE BcatAssumption
<1> DEFINE next == fetch.next
           data == IF next = 0 THEN fetch.dataset ELSE fetch.files[next]
<1>1. UNCHANGED service /\ fetch.at = "write" /\ next \in Entries
  BY DEF WriteEntry, BcatInductive, BcatShape
<1>2. PICK left \in {copy[next], Cut, data} :
        /\ copy' = [copy EXCEPT ![next] = left]
        /\ bcatPast' = [bcatPast EXCEPT !.failed = @ \/ left # data]
  BY DEF WriteEntry
<1>3. /\ bcatPast'.gone = bcatPast.gone /\ bcatPast'.failed = (bcatPast.failed \/ left # data)
      /\ bcatPast' \in [failed : BOOLEAN, gone : SUBSET Datasets]
  BY <1>2 DEF BcatInductive, BcatShape
<1>4. data \in 0..MaxDatasets
  BY <1>1 DEF BcatInductive, BcatShape, Entries, Paths
<1>5. copy' \in [Entries -> 0..Cut]
  <2>1. left \in 0..Cut
    BY <1>1, <1>2, <1>4 DEF BcatInductive, BcatShape, Cut
  <2> QED BY <1>1, <1>2, <2>1 DEF BcatInductive, BcatShape
<1>6. copy'[next] = left /\ \A e \in Entries \ {next} : copy'[e] = copy[e]
  BY <1>1, <1>2 DEF BcatInductive, BcatShape
<1>7. 0 \in Entries /\ Paths \subseteq Entries /\ 0 \notin Paths /\ Cut \notin Datasets /\ Absent \notin Datasets
  BY DEF Entries, Paths, Cut, Datasets, Absent
<1>8. fetch.dataset \in Datasets \ (fetch.closed \cup bcatPast.gone) /\ fetch.dataset <= service.newest
  BY <1>1 DEF BcatInductive, FetchHolds
<1>9. \A p \in Paths : fetch.files[p] = IF Split(p) THEN fetch.dataset ELSE Absent
  BY <1>1 DEF BcatInductive, FetchHolds
<1>10. Published'
  BY <1>1, <1>2, <1>6, <1>7, <1>8 DEF BcatInductive, Published
<1>11. CASE next # 0 /\ fetch' = [fetch EXCEPT !.next = After(@)] /\ UNCHANGED given
  <2>0. next \in Paths
    BY <1>1, <1>11 DEF Entries, Paths
  <2>1. /\ fetch'.at = "write" /\ fetch'.dataset = fetch.dataset /\ fetch'.next = After(next)
        /\ fetch'.files = fetch.files /\ fetch'.closed = fetch.closed
    BY <1>1, <1>11 DEF BcatInductive, BcatShape
  <2>2. /\ After(next) \in Entries
        /\ \A q \in Paths : Split(q) /\ q > next => After(next) # 0 /\ After(next) <= q
    BY <1>1, AfterWalks
  <2>3. BcatShape'
    BY <1>1, <1>3, <1>5, <1>11, <2>2 DEF BcatInductive, BcatShape
  <2>4. FetchHolds'
    BY <1>1, <1>3, <2>1 DEF BcatInductive, FetchHolds, Split
  <2>5. CopyHolds'
    <3> SUFFICES ASSUME ~bcatPast'.failed PROVE CopyHolds'
      BY DEF CopyHolds
    <3>1. ~bcatPast.failed /\ left = fetch.files[next]
      BY <1>3, <1>11
    <3>2. copy'[0] = Absent
      BY <1>1, <1>6, <1>7, <1>11, <3>1 DEF BcatInductive, CopyHolds
    <3>3. ASSUME NEW p \in Paths, Split(p), After(next) = 0 \/ p < After(next)
          PROVE  copy'[p] = fetch.dataset
      <4>1. p <= next
        BY <2>0, <2>2, <3>3 DEF Paths, Entries
      <4>2. CASE p = next
        BY <1>6, <1>9, <3>1, <3>3, <4>2
      <4>3. CASE p < next
        BY <1>1, <1>6, <1>7, <3>1, <3>3, <4>3 DEF BcatInductive, CopyHolds, Paths, Entries
      <4> QED BY <2>0, <4>1, <4>2, <4>3 DEF Paths
    <3> QED BY <1>7, <2>1, <3>2, <3>3 DEF CopyHolds, Split
  <2>6. DeliveredWhole'
    BY <1>3, <1>11 DEF BcatInductive, DeliveredWhole
  <2> QED BY <1>10, <2>3, <2>4, <2>5, <2>6 DEF BcatInductive
<1>12. CASE next = 0 /\ fetch' = NoFetch /\ given' = Gave("dataset", fetch.files, fetch.closed)
  <2>1. fetch'.at = "idle" /\ given'.files = fetch.files /\ given'.closed = fetch.closed
    BY <1>12 DEF NoFetch, Gave
  <2>2. BcatShape'
    <3>1. fetch.files \in [Paths -> 0..Cut]
      BY DEF BcatInductive, BcatShape, Cut
    <3> QED BY <1>1, <1>3, <1>5, <1>12, <3>1, NothingShape DEF BcatInductive, BcatShape, Gave
  <2>3. FetchHolds'
    BY <2>1 DEF FetchHolds
  <2>4. CopyHolds'
    BY <1>1, <1>3, <1>6, <1>7, <1>8, <1>12, <2>1 DEF BcatInductive, CopyHolds, Split
  <2>5. DeliveredWhole'
    BY <1>3, <1>8, <1>9, <2>1 DEF DeliveredWhole, Split
  <2> QED BY <1>10, <2>2, <2>3, <2>4, <2>5 DEF BcatInductive
<1> QED BY <1>11, <1>12 DEF WriteEntry

\* A process that dies in the middle of a delivery keeps it.
LEMMA BcatDieKeeps == BcatInductive /\ BcatDie => BcatInductive'
<1> SUFFICES ASSUME BcatInductive, BcatDie PROVE BcatInductive'
  OBVIOUS
<1> USE BcatAssumption
<1>1. /\ UNCHANGED <<service, bcatPast>> /\ fetch' = NoFetch
      /\ given' = Gave("unasked", Nothing, {})
  BY DEF BcatDie
<1>2. fetch'.at = "idle" /\ given'.outcome = "unasked"
  BY <1>1 DEF NoFetch, Gave
<1>3. copy' \in [Entries -> 0..Cut]
  BY DEF BcatDie, BcatInductive, BcatShape, Cut
<1>4. BcatShape'
  BY <1>1, <1>3, NothingShape DEF BcatInductive, BcatShape, Gave
<1>5. FetchHolds' /\ DeliveredWhole'
  BY <1>2 DEF FetchHolds, DeliveredWhole
<1>6. CASE UNCHANGED copy
  BY <1>1, <1>2, <1>4, <1>5, <1>6 DEF BcatInductive, CopyHolds, Published
<1>7. CASE fetch.at = "write" /\ copy' = [copy EXCEPT ![fetch.next] = Cut]
  <2>1. /\ 0 \in Entries /\ Paths \subseteq Entries /\ fetch.next \in Entries
        /\ Cut \notin Datasets /\ Absent \notin Datasets
    BY DEF Entries, Paths, Cut, Datasets, Absent, BcatInductive, BcatShape
  <2>2. copy'[0] \in {copy[0], Cut}
    BY <1>7, <2>1 DEF BcatInductive, BcatShape
  <2>3. CopyHolds' /\ Published'
    BY <1>1, <1>2, <1>7, <2>1, <2>2 DEF BcatInductive, CopyHolds, Published
  <2> QED BY <1>4, <1>5, <2>3 DEF BcatInductive
<1> QED BY <1>6, <1>7 DEF BcatDie

\* What the Fetch under way and the copy on disk hold is one dataset, at every point of
\* a delivery.
THEOREM BcatInductiveHolds == Spec => []BcatInductive
<1>1. BcatInductive /\ [Next]_clientVars => BcatInductive'
  <2> SUFFICES ASSUME BcatInductive, [BcatNext]_bcatVars PROVE BcatInductive'
    BY DeliverySteps
  <2>1. CASE UNCHANGED bcatVars
    BY <2>1 DEF bcatVars, BcatInductive, BcatShape, FetchHolds, CopyHolds, Published,
                DeliveredWhole, Split, After
  <2> QED BY <2>1, ServiceMovesKeeps, AskKeeps, DownloadPathKeeps, ForgetEntryKeeps,
             ForgottenKeeps, WriteEntryKeeps, BcatDieKeeps DEF BcatNext
<1> QED BY BcatStarts, <1>1, PTL DEF Spec

\* As long as the disk does what it is asked, Fetch gives a title every path of one
\* dataset that was in its window and not given up, or none: for any number of paths and
\* datasets, whatever else the process does and wherever it dies.
THEOREM DeliveredWholeHolds == Spec => []DeliveredWhole
<1>1. BcatInductive => DeliveredWhole
  BY DEF BcatInductive
<1> QED BY BcatInductiveHolds, <1>1, PTL

-----------------------------------------------------------------------------
(* The network profile and its ceiling. *)

\* What a step of the process does to them.
NetNext ==
  \/ \E t \in Threads :
       \/ Decide(t) \/ WriteCache(t) \/ WriteHighest(t) \/ SetCeiling(t)
       \/ FetchWithCeiling(t) \/ Answered(t) \/ Finish(t) \/ StoreBody(t) \/ StoreEtag(t)
       \/ Apply(t) \/ SetDigestInUse(t)
  \/ CurrentCeiling \/ WatchLoop \/ FreshDigest \/ Publish \/ NetDie
  \/ RecheckSoon /\ UNCHANGED <<published, kept, load, netMixed, accepted, netLeft>>

\* A step of the process does one of these to the network profile, or leaves it alone.
LEMMA NetSteps == [Next]_clientVars => [NetNext]_netVars
<1> SUFFICES ASSUME [Next]_clientVars PROVE [NetNext]_netVars
  OBVIOUS
<1>1. CASE Network
  BY <1>1 DEF Network, NetNext
<1>2. CASE SignInRechecks
  BY <1>2 DEF SignInRechecks, NetNext
<1>3. CASE ProcessDies
  BY <1>3 DEF ProcessDies, NetNext
<1>4. CASE UNCHANGED netVars
  BY <1>4
<1>5. ProcessStarts \/ Reports \/ Web \/ Desktop \/ Delivery \/ UNCHANGED clientVars
      => UNCHANGED netVars
  BY DEF ProcessStarts, Reports, Web, Desktop, Delivery, clientVars
<1> QED BY <1>1, <1>2, <1>3, <1>4, <1>5 DEF Next

Places == {"idle", "asked", "answered", "cache", "highest", "set", "finish", "body", "etag",
           "apply", "inUse", "fresh"}

LoadFields == {"pc", "etag", "asked", "tag", "reply", "envelope", "ceiling", "store", "highest",
               "names", "again"}

LoadRecords ==
  [pc : Places, etag : 0..MaxVersion, asked : 0..MaxVersion, tag : 0..MaxVersion,
   reply : Same..MaxVersion, envelope : 0..MaxVersion, ceiling : 0..MaxVersion, store : BOOLEAN,
   highest : 0..MaxVersion, names : SUBSET Versions, again : BOOLEAN]

\* Only the thread's own load moves.
LoadMoves(t) ==
  load' \in [Threads -> LoadRecords] /\ \A u \in Threads \ {t} : load'[u] = load[u]

\* A step that writes the given fields leaves a load, the other fields of it and the
\* other threads' loads.
LEMMA StepMoves ==
  ASSUME NetTypeOK, NEW t \in Threads, NEW fields, Step(t, fields), DOMAIN fields \subseteq LoadFields,
         "pc" \in DOMAIN fields => fields["pc"] \in Places,
         "etag" \in DOMAIN fields => fields["etag"] \in 0..MaxVersion,
         "asked" \in DOMAIN fields => fields["asked"] \in 0..MaxVersion,
         "tag" \in DOMAIN fields => fields["tag"] \in 0..MaxVersion,
         "reply" \in DOMAIN fields => fields["reply"] \in Same..MaxVersion,
         "envelope" \in DOMAIN fields => fields["envelope"] \in 0..MaxVersion,
         "ceiling" \in DOMAIN fields => fields["ceiling"] \in 0..MaxVersion,
         "store" \in DOMAIN fields => fields["store"] \in BOOLEAN,
         "highest" \in DOMAIN fields => fields["highest"] \in 0..MaxVersion,
         "names" \in DOMAIN fields => fields["names"] \in SUBSET Versions,
         "again" \in DOMAIN fields => fields["again"] \in BOOLEAN
  PROVE  /\ LoadMoves(t)
         /\ load'[t].pc = IF "pc" \in DOMAIN fields THEN fields["pc"] ELSE load[t].pc
         /\ load'[t].etag = IF "etag" \in DOMAIN fields THEN fields["etag"] ELSE load[t].etag
         /\ load'[t].asked = IF "asked" \in DOMAIN fields THEN fields["asked"] ELSE load[t].asked
         /\ load'[t].tag = IF "tag" \in DOMAIN fields THEN fields["tag"] ELSE load[t].tag
         /\ load'[t].reply = IF "reply" \in DOMAIN fields THEN fields["reply"] ELSE load[t].reply
         /\ load'[t].envelope = IF "envelope" \in DOMAIN fields THEN fields["envelope"]
                                                                ELSE load[t].envelope
         /\ load'[t].ceiling = IF "ceiling" \in DOMAIN fields THEN fields["ceiling"]
                                                              ELSE load[t].ceiling
         /\ load'[t].store = IF "store" \in DOMAIN fields THEN fields["store"] ELSE load[t].store
         /\ load'[t].highest = IF "highest" \in DOMAIN fields THEN fields["highest"]
                                                              ELSE load[t].highest
         /\ load'[t].names = IF "names" \in DOMAIN fields THEN fields["names"] ELSE load[t].names
<1> DEFINE rest == load[t]
           next == [f \in DOMAIN rest |-> IF f \in DOMAIN fields THEN fields[f] ELSE rest[f]]
<1>1. rest \in LoadRecords /\ load \in [Threads -> LoadRecords]
  BY DEF NetTypeOK, LoadRecords, Places
<1>2. DOMAIN rest = LoadFields
  BY <1>1 DEF LoadRecords, LoadFields
<1>3. load' = [load EXCEPT ![t] = next]
  BY DEF Step
<1> HIDE DEF rest
<1>4. /\ next.pc = IF "pc" \in DOMAIN fields THEN fields["pc"] ELSE rest.pc
      /\ next.etag = IF "etag" \in DOMAIN fields THEN fields["etag"] ELSE rest.etag
      /\ next.asked = IF "asked" \in DOMAIN fields THEN fields["asked"] ELSE rest.asked
      /\ next.tag = IF "tag" \in DOMAIN fields THEN fields["tag"] ELSE rest.tag
      /\ next.reply = IF "reply" \in DOMAIN fields THEN fields["reply"] ELSE rest.reply
      /\ next.envelope = IF "envelope" \in DOMAIN fields THEN fields["envelope"] ELSE rest.envelope
      /\ next.ceiling = IF "ceiling" \in DOMAIN fields THEN fields["ceiling"] ELSE rest.ceiling
      /\ next.store = IF "store" \in DOMAIN fields THEN fields["store"] ELSE rest.store
      /\ next.highest = IF "highest" \in DOMAIN fields THEN fields["highest"] ELSE rest.highest
      /\ next.names = IF "names" \in DOMAIN fields THEN fields["names"] ELSE rest.names
      /\ next.again = IF "again" \in DOMAIN fields THEN fields["again"] ELSE rest.again
  BY <1>2 DEF LoadFields
<1>5. next = [pc |-> next.pc, etag |-> next.etag, asked |-> next.asked, tag |-> next.tag,
              reply |-> next.reply, envelope |-> next.envelope, ceiling |-> next.ceiling,
              store |-> next.store, highest |-> next.highest, names |-> next.names,
              again |-> next.again]
  BY <1>2 DEF LoadFields
<1>6. /\ rest.pc \in Places /\ rest.etag \in 0..MaxVersion /\ rest.asked \in 0..MaxVersion
      /\ rest.tag \in 0..MaxVersion /\ rest.reply \in Same..MaxVersion
      /\ rest.envelope \in 0..MaxVersion /\ rest.ceiling \in 0..MaxVersion
      /\ rest.store \in BOOLEAN /\ rest.highest \in 0..MaxVersion
      /\ rest.names \in SUBSET Versions /\ rest.again \in BOOLEAN
  BY <1>1 DEF LoadRecords
<1> HIDE DEF next
<1>7. /\ next.pc \in Places /\ next.etag \in 0..MaxVersion /\ next.asked \in 0..MaxVersion
      /\ next.tag \in 0..MaxVersion /\ next.reply \in Same..MaxVersion
      /\ next.envelope \in 0..MaxVersion /\ next.ceiling \in 0..MaxVersion
      /\ next.store \in BOOLEAN /\ next.highest \in 0..MaxVersion
      /\ next.names \in SUBSET Versions /\ next.again \in BOOLEAN
  BY <1>4, <1>6, Zenon
<1>8. next \in LoadRecords
  BY <1>5, <1>7 DEF LoadRecords
<1>9. load' \in [Threads -> LoadRecords] /\ load'[t] = next
      /\ \A u \in Threads \ {t} : load'[u] = load[u]
  BY <1>1, <1>3, <1>8
<1> QED BY <1>4, <1>9 DEF rest, LoadMoves

\* The watch loads a ceiling, and no profile.
WatchOnly ==
  /\ load["watch"].pc \in {"idle", "answered", "cache", "highest", "set", "fresh"}
  /\ load["watch"].reply = 0

\* No file and no load has a profile that the site has not published, and what is stored
\* is a profile.
Behind ==
  /\ kept.body <= published.profile /\ kept.etag <= published.profile
  /\ \A t \in Threads : /\ load[t].etag <= published.profile /\ load[t].tag <= published.profile
                        /\ load[t].reply <= published.profile
                        /\ load[t].pc \in {"body", "etag"} => load[t].reply > 0

OneLoader == load["boot"].pc = "idle" \/ load["settings"].pc = "idle"

\* The etag beside a body that parses is that body's, or an older one's.
TagBehind == kept.body > 0 => kept.etag <= kept.body

\* What a load under way knows of the two files: a request with an etag stands over the
\* body it is sent for, and an answer is not older than the etag on disk until it has
\* been stored.
LoadHonest(t) ==
  /\ load[t].pc = "asked" /\ load[t].asked # 0 => load[t].asked = kept.etag /\ kept.body > 0
  /\ load[t].pc = "answered" /\ load[t].reply = Same => kept.body = load[t].asked
  /\ load[t].pc \in {"answered", "cache", "highest", "set", "finish", "body"} /\ load[t].reply > 0
       => load[t].tag <= load[t].reply /\ kept.etag <= load[t].reply
  /\ load[t].pc = "etag" => load[t].tag <= load[t].reply /\ kept.body \in {0, load[t].reply}

ProfileHonest == ~netMixed.profile => OneLoader /\ TagBehind /\ \A t \in Threads : LoadHonest(t)

\* No name is applied, or about to be, that no ceiling in force so far admits.
Admitted ==
  /\ net.ceiling <= accepted /\ net.applied \subseteq 1..(accepted + 1)
  /\ \A t \in Threads : load[t].names \subseteq 1..(accepted + 1)

\* A load that writes the ceiling's files has found nothing better than the compiled
\* ceiling, or one that is not older than any file, nor than any put in force before; and
\* it puts it in force over a file that says so.
WriterOK(t) ==
  load[t].pc \in Writing =>
    \/ load[t].ceiling = 0 /\ ~load[t].store /\ load[t].highest <= kept.highest
    \/ /\ load[t].ceiling > 0 /\ load[t].highest = load[t].ceiling
       /\ load[t].ceiling >= accepted
       /\ load[t].ceiling >= kept.cache /\ load[t].ceiling >= kept.highest
       /\ load[t].store \/ kept.cache = load[t].ceiling
       /\ load[t].pc = "set" => load[t].ceiling = kept.cache \/ load[t].ceiling = kept.highest

OneWriter == \A t, u \in Threads : load[t].pc \in Writing /\ load[u].pc \in Writing => t = u

\* One of the two files remembers the highest ceiling put in force.
Remembered == accepted <= kept.cache \/ accepted <= kept.highest

NotOlder == net.ceiling <= 0 \/ net.ceiling >= accepted

CeilingHonest ==
  ~netMixed.ceiling => OneWriter /\ Remembered /\ NotOlder /\ \A t \in Threads : WriterOK(t)

NetInductive == NetTypeOK /\ WatchOnly /\ Behind /\ ProfileHonest /\ Admitted /\ CeilingHonest

\* What NoRollback says of a step.
RollsForward ==
  /\ net'.ceiling > CompiledCeiling /\ ~netMixed.ceiling => net'.ceiling >= accepted
  /\ \A name \in Versions : RedirectFor(name)' => name \in FamiliesFor(accepted)

\* The types, one by one.
LEMMA NetTypes ==
  ASSUME NetTypeOK
  PROVE  /\ MaxVersion \in Nat /\ MaxVersion >= 1
         /\ published.profile \in 1..MaxVersion /\ published.ceiling \in 1..MaxVersion
         /\ kept.body \in 0..MaxVersion /\ kept.etag \in 0..MaxVersion
         /\ kept.cache \in 0..MaxVersion /\ kept.highest \in 0..MaxVersion
         /\ net.ceiling \in -1..MaxVersion /\ accepted \in 0..MaxVersion
         /\ netMixed.ceiling \in BOOLEAN /\ netMixed.profile \in BOOLEAN
         /\ load \in [Threads -> LoadRecords]
         /\ \A t \in Threads :
              /\ load[t].pc \in Places
              /\ load[t].etag \in 0..MaxVersion /\ load[t].asked \in 0..MaxVersion
              /\ load[t].tag \in 0..MaxVersion /\ load[t].reply \in -1..MaxVersion
              /\ load[t].envelope \in 0..MaxVersion /\ load[t].ceiling \in 0..MaxVersion
              /\ load[t].store \in BOOLEAN /\ load[t].highest \in 0..MaxVersion
              /\ load[t].names \in SUBSET Versions
<1>1. load \in [Threads -> LoadRecords]
  BY DEF NetTypeOK, LoadRecords, Places
<1>2. \A t \in Threads : load[t] \in LoadRecords
  BY <1>1
<1>3. Same = -1 /\ Unset = -1
  BY DEF Same, Unset
<1>4. ASSUME NEW t \in Threads
      PROVE  /\ load[t].pc \in Places
              /\ load[t].etag \in 0..MaxVersion /\ load[t].asked \in 0..MaxVersion
              /\ load[t].tag \in 0..MaxVersion /\ load[t].reply \in -1..MaxVersion
              /\ load[t].envelope \in 0..MaxVersion /\ load[t].ceiling \in 0..MaxVersion
              /\ load[t].store \in BOOLEAN /\ load[t].highest \in 0..MaxVersion
              /\ load[t].names \in SUBSET Versions
  BY <1>2, <1>3 DEF LoadRecords
<1> QED BY <1>1, <1>3, <1>4, VersionAssumption DEF NetTypeOK, Versions

\* A load that goes on to the ceiling, to the profile's use or to its end, with what it
\* has of the profile; the watch's too.
LoadFollows(u) ==
  \/ load'[u] = load[u]
  \/ load'[u] = NoLoad
  \/ /\ load'[u].etag = load[u].etag /\ load'[u].asked = load[u].asked
     /\ load'[u].tag = load[u].tag /\ load'[u].reply = load[u].reply
     /\ \/ u = "watch"
        \/ load[u].pc # "idle" /\ load'[u].pc \in {"apply", "inUse", "fresh"}
        \/ /\ load[u].pc \in {"answered", "cache", "highest", "set"}
           /\ load'[u].pc \in {"cache", "highest", "set", "finish"}

\* A step that leaves the profile's two files keeps what the loads know of them.
LEMMA ProfileStays ==
  ASSUME NetInductive, WatchOnly', published' = published,
         kept'.body = kept.body, kept'.etag = kept.etag, netMixed'.profile = netMixed.profile,
         \A u \in Threads : LoadFollows(u)
  PROVE  Behind' /\ ProfileHonest'
<1>0. NetTypeOK /\ Behind /\ ProfileHonest
  BY DEF NetInductive
<1>1. \A u \in Threads : load'[u] = NoLoad \/ (load'[u].etag = load[u].etag
        /\ load'[u].tag = load[u].tag /\ load'[u].reply = load[u].reply)
  BY DEF LoadFollows
<1>2. NoLoad.pc = "idle" /\ NoLoad.etag = 0 /\ NoLoad.tag = 0 /\ NoLoad.reply = 0
  BY DEF NoLoad
<1>3. Behind'
  <2>1. \A u \in Threads : load'[u].pc \in {"body", "etag"} => load'[u].reply > 0
    BY <1>0, <1>2 DEF LoadFollows, Behind, WatchOnly
  <2> QED BY <1>0, <1>1, <1>2, <2>1, NetTypes DEF Behind
<1>4. ASSUME ~netMixed.profile, NEW u \in Threads PROVE LoadHonest(u)'
  <2>1. LoadHonest(u)
    BY <1>0, <1>4 DEF ProfileHonest
  <2>2. CASE u = "watch"
    BY <2>2 DEF WatchOnly, LoadHonest, Same
  <2>3. CASE u # "watch" /\ load'[u] = load[u]
    BY <2>1, <2>3 DEF LoadHonest
  <2>4. CASE load'[u] = NoLoad
    BY <1>2, <2>4 DEF LoadHonest
  <2>5. CASE u # "watch" /\ load'[u] # load[u] /\ load'[u] # NoLoad
    BY <2>1, <2>5 DEF LoadHonest, LoadFollows
  <2> QED BY <2>2, <2>3, <2>4, <2>5
<1>5. ASSUME ~netMixed.profile PROVE OneLoader'
  <2>1. \A u \in {"boot", "settings"} : load[u].pc = "idle" => load'[u].pc = "idle"
    BY <1>2 DEF LoadFollows, Threads
  <2> QED BY <1>0, <1>5, <2>1 DEF ProfileHonest, OneLoader
<1> QED BY <1>0, <1>3, <1>4, <1>5 DEF ProfileHonest, TagBehind

\* A step that leaves the ceiling, its files and the loads that write them keeps what is
\* known of them.
LEMMA CeilingStays ==
  ASSUME NetInductive, kept'.cache = kept.cache, kept'.highest = kept.highest,
         net'.ceiling = net.ceiling, accepted' = accepted, netMixed'.ceiling = netMixed.ceiling,
         \A u \in Threads : load'[u] = load[u] \/ load'[u].pc \notin Writing
  PROVE  CeilingHonest'
<1>1. CASE netMixed.ceiling
  BY <1>1 DEF CeilingHonest
<1>2. CASE ~netMixed.ceiling
  <2>1. OneWriter /\ Remembered /\ NotOlder /\ \A u \in Threads : WriterOK(u)
    BY <1>2 DEF NetInductive, CeilingHonest
  <2>2. OneWriter'
    BY <2>1 DEF OneWriter
  <2>3. Remembered' /\ NotOlder'
    BY <2>1 DEF Remembered, NotOlder
  <2>4. ASSUME NEW u \in Threads PROVE WriterOK(u)'
    BY <2>1 DEF WriterOK
  <2> QED BY <2>2, <2>3, <2>4 DEF CeilingHonest
<1> QED BY <1>1, <1>2 DEF NetInductive, NetTypeOK

\* A step that leaves the ceiling in force, or none, and the names applied rolls nothing
\* back.
LEMMA NothingRolls ==
  ASSUME NetInductive, net'.ceiling \in {net.ceiling, Unset},
         net'.applied \subseteq 1..(accepted + 1)
  PROVE  RollsForward
<1>0. NetTypeOK /\ CeilingHonest
  BY DEF NetInductive
<1>1. net'.ceiling > CompiledCeiling /\ ~netMixed.ceiling => net'.ceiling >= accepted
  BY <1>0, NetTypes DEF CeilingHonest, NotOlder, CompiledCeiling, Unset
<1>2. \A name \in Versions : RedirectFor(name)' => name \in FamiliesFor(accepted)
  BY DEF RedirectFor, FamiliesFor
<1> QED BY <1>1, <1>2 DEF RollsForward

\* Reading the two files and deciding.
LEMMA DecideNet ==
  ASSUME NetInductive, NEW t \in Threads, Decide(t)
  PROVE  NetInductive' /\ RollsForward
<1> DEFINE d == DecideCeiling(kept.cache, load[t].envelope, kept.highest)
<1>0. NetTypeOK /\ WatchOnly /\ Behind /\ ProfileHonest /\ Admitted /\ CeilingHonest
  BY DEF NetInductive
<1>1. /\ load[t].pc = "answered"
      /\ Step(t, [pc |-> "cache", ceiling |-> d.ceiling, store |-> d.store, highest |-> d.highest])
      /\ netMixed' = [netMixed EXCEPT !.ceiling =
                        netMixed.ceiling \/ \E u \in Threads \ {t} : load[u].pc \in Writing]
      /\ UNCHANGED <<published, kept, net, accepted, netLeft>>
  BY DEF Decide
<1>2. /\ d.ceiling \in 0..MaxVersion /\ d.store \in BOOLEAN /\ d.highest \in 0..MaxVersion
      /\ \/ d.ceiling = 0 /\ ~d.store /\ d.highest <= kept.highest
            /\ ~(kept.cache # 0 /\ kept.cache >= kept.highest)
         \/ /\ d.ceiling > 0 /\ d.highest = d.ceiling
            /\ d.ceiling >= kept.cache /\ d.ceiling >= kept.highest
            /\ d.store \/ kept.cache = d.ceiling
  BY <1>0, NetTypes DEF DecideCeiling, VerifyCeiling, CompiledCeiling
<1> HIDE DEF d
<1>3. /\ LoadMoves(t)
      /\ load'[t].pc = "cache" /\ load'[t].ceiling = d.ceiling /\ load'[t].store = d.store
      /\ load'[t].highest = d.highest /\ load'[t].names = load[t].names
      /\ load'[t].reply = load[t].reply /\ load'[t].tag = load[t].tag
      /\ load'[t].etag = load[t].etag /\ load'[t].asked = load[t].asked
  <2> DEFINE fields == [pc |-> "cache", ceiling |-> d.ceiling, store |-> d.store, highest |-> d.highest]
  <2>1. /\ DOMAIN fields = {"pc", "ceiling", "store", "highest"} /\ fields["pc"] = "cache"
        /\ fields["ceiling"] = d.ceiling /\ fields["store"] = d.store
        /\ fields["highest"] = d.highest
    OBVIOUS
  <2>2. Step(t, fields)
    BY <1>1
  <2> HIDE DEF fields
  <2> QED BY <1>0, <1>2, <2>1, <2>2, StepMoves DEF LoadFields, Places
<1>4. /\ published' = published /\ kept' = kept /\ net' = net /\ accepted' = accepted
      /\ netLeft' = netLeft /\ netMixed'.profile = netMixed.profile
      /\ netMixed' \in [ceiling : BOOLEAN, profile : BOOLEAN]
      /\ netMixed'.ceiling = (netMixed.ceiling \/ \E u \in Threads \ {t} : load[u].pc \in Writing)
  BY <1>0, <1>1 DEF NetTypeOK
<1>5. NetTypeOK'
  BY <1>0, <1>3, <1>4 DEF NetTypeOK, LoadMoves, LoadRecords, Places
<1>6. WatchOnly'
  BY <1>0, <1>1, <1>3, <1>4 DEF WatchOnly, LoadMoves, Threads
<1>7. Behind'
  BY <1>0, <1>3, <1>4 DEF Behind, LoadMoves
<1>8. ProfileHonest'
  <2>1. ASSUME ~netMixed.profile PROVE OneLoader'
    BY <1>0, <1>1, <1>3, <2>1 DEF ProfileHonest, OneLoader, LoadMoves, Threads
  <2>2. ASSUME ~netMixed.profile, NEW u \in Threads PROVE LoadHonest(u)'
    BY <1>0, <1>1, <1>3, <1>4, <2>2 DEF ProfileHonest, LoadHonest, LoadMoves
  <2> QED BY <1>0, <1>4, <2>1, <2>2 DEF ProfileHonest, TagBehind
<1>9. Admitted'
  BY <1>0, <1>3, <1>4 DEF Admitted, LoadMoves
<1>10. CeilingHonest'
  <2> SUFFICES ASSUME ~netMixed'.ceiling
               PROVE  OneWriter' /\ Remembered' /\ NotOlder' /\ \A u \in Threads : WriterOK(u)'
    BY DEF CeilingHonest
  <2>1. Remembered /\ NotOlder /\ \A u \in Threads \ {t} : load'[u].pc \notin Writing
    BY <1>0, <1>3, <1>4 DEF CeilingHonest, LoadMoves
  <2>2. OneWriter'
    BY <2>1 DEF OneWriter
  <2>3. Remembered' /\ NotOlder'
    BY <1>4, <2>1 DEF Remembered, NotOlder
  <2>4. WriterOK(t)'
    BY <1>0, <1>2, <1>3, <1>4, <2>1, NetTypes DEF WriterOK, Remembered
  <2>5. \A u \in Threads \ {t} : WriterOK(u)'
    BY <2>1 DEF WriterOK
  <2> QED BY <2>2, <2>3, <2>4, <2>5
<1>11. RollsForward
  BY <1>0, <1>4, NetTypes DEF RollsForward, RedirectFor, FamiliesFor, Admitted, CeilingHonest, NotOlder,
                              CompiledCeiling
<1> QED BY <1>5, <1>6, <1>7, <1>8, <1>9, <1>10, <1>11 DEF NetInductive

\* A step that only moves the load's place.
LEMMA PlaceMoves ==
  ASSUME NetTypeOK, NEW t \in Threads, NEW p \in Places, Step(t, [pc |-> p])
  PROVE  /\ LoadMoves(t) /\ load'[t].pc = p
         /\ load'[t].etag = load[t].etag /\ load'[t].asked = load[t].asked
         /\ load'[t].tag = load[t].tag /\ load'[t].reply = load[t].reply
         /\ load'[t].ceiling = load[t].ceiling /\ load'[t].store = load[t].store
         /\ load'[t].highest = load[t].highest /\ load'[t].names = load[t].names
<1> DEFINE fields == [pc |-> p]
<1>1. DOMAIN fields = {"pc"} /\ fields["pc"] = p
  OBVIOUS
<1>2. Step(t, fields)
  OBVIOUS
<1> HIDE DEF fields
<1> QED BY <1>1, <1>2, StepMoves DEF LoadFields

\* WriteAtomically of the cached ceiling, done or failed.
LEMMA WriteCacheNet ==
  ASSUME NetInductive, NEW t \in Threads, WriteCache(t)
  PROVE  NetInductive' /\ RollsForward
<1>0. NetTypeOK /\ WatchOnly /\ Behind /\ ProfileHonest /\ Admitted /\ CeilingHonest
  BY DEF NetInductive
<1>1. /\ load[t].pc = "cache" /\ Step(t, [pc |-> "highest"])
      /\ published' = published /\ net' = net /\ netMixed' = netMixed /\ accepted' = accepted
  BY DEF WriteCache
<1>2. /\ netLeft' \in [load : Nat, publish : Nat, fault : Nat]
      /\ \/ kept' = kept
         \/ load[t].store /\ kept' = [kept EXCEPT !.cache = load[t].ceiling]
  BY <1>0 DEF WriteCache, Or, Spend, NetTypeOK
<1>3. /\ kept' \in [body : 0..MaxVersion, etag : 0..MaxVersion, cache : 0..MaxVersion, highest : 0..MaxVersion]
      /\ kept'.body = kept.body /\ kept'.etag = kept.etag /\ kept'.highest = kept.highest
      /\ kept'.cache = kept.cache \/ (load[t].store /\ kept'.cache = load[t].ceiling)
  <2>1. load[t].ceiling \in 0..MaxVersion
    BY <1>0, NetTypes
  <2> QED BY <1>0, <1>2, <2>1 DEF NetTypeOK
<1>4. /\ LoadMoves(t) /\ load'[t].pc = "highest"
      /\ load'[t].etag = load[t].etag /\ load'[t].asked = load[t].asked
      /\ load'[t].tag = load[t].tag /\ load'[t].reply = load[t].reply
      /\ load'[t].ceiling = load[t].ceiling /\ load'[t].store = load[t].store
      /\ load'[t].highest = load[t].highest /\ load'[t].names = load[t].names
  <2>1. "highest" \in Places
    BY DEF Places
  <2> QED BY <1>0, <1>1, <2>1, PlaceMoves
<1>5. NetTypeOK'
  BY <1>0, <1>1, <1>2, <1>3, <1>4 DEF NetTypeOK, LoadMoves, LoadRecords, Places
<1>6. WatchOnly'
  BY <1>0, <1>4 DEF WatchOnly, LoadMoves, Threads
<1>7. \A u \in Threads : LoadFollows(u)
  BY <1>1, <1>4 DEF LoadFollows, LoadMoves
<1>8. Behind' /\ ProfileHonest'
  BY <1>1, <1>3, <1>6, <1>7, ProfileStays
<1>9. Admitted'
  BY <1>0, <1>1, <1>4 DEF Admitted, LoadMoves
<1>10. CeilingHonest'
  <2> SUFFICES ASSUME ~netMixed.ceiling
               PROVE  OneWriter' /\ Remembered' /\ NotOlder' /\ \A u \in Threads : WriterOK(u)'
    BY <1>1 DEF CeilingHonest
  <2>1. OneWriter /\ Remembered /\ NotOlder /\ WriterOK(t)
    BY <1>0 DEF CeilingHonest
  <2>2. \A u \in Threads \ {t} : load'[u].pc \notin Writing
    BY <1>1, <1>4, <2>1 DEF OneWriter, LoadMoves, Writing
  <2>3. OneWriter' /\ \A u \in Threads \ {t} : WriterOK(u)'
    BY <2>2 DEF OneWriter, WriterOK
  <2>4. Remembered' /\ NotOlder'
    BY <1>0, <1>1, <1>3, <2>1, NetTypes DEF Remembered, NotOlder, WriterOK, Writing
  <2>5. WriterOK(t)'
    BY <1>0, <1>1, <1>3, <1>4, <2>1, NetTypes DEF WriterOK, Writing
  <2> QED BY <2>3, <2>4, <2>5
<1>11. RollsForward
  BY <1>0, <1>1, NothingRolls DEF Admitted
<1> QED BY <1>5, <1>6, <1>8, <1>9, <1>10, <1>11 DEF NetInductive

\* The highest version, read again and written, or not.
LEMMA WriteHighestNet ==
  ASSUME NetInductive, NEW t \in Threads, WriteHighest(t)
  PROVE  NetInductive' /\ RollsForward
<1>0. NetTypeOK /\ WatchOnly /\ Behind /\ ProfileHonest /\ Admitted /\ CeilingHonest
  BY DEF NetInductive
<1>1. /\ load[t].pc = "highest" /\ Step(t, [pc |-> "set"])
      /\ published' = published /\ net' = net /\ accepted' = accepted
  BY DEF WriteHighest
<1>2. /\ netLeft' \in [load : Nat, publish : Nat, fault : Nat]
      /\ \/ load[t].highest <= kept.highest /\ kept' = kept /\ netMixed' = netMixed
         \/ /\ load[t].highest > kept.highest /\ netMixed' = netMixed
            /\ kept' = [kept EXCEPT !.highest = load[t].highest]
         \/ /\ kept' = kept
            /\ netMixed' = [netMixed EXCEPT !.ceiling =
                              netMixed.ceiling \/ kept.cache < load[t].highest]
  BY <1>0, NetTypes DEF WriteHighest, Or, Spend, NetTypeOK
<1>3. /\ kept' \in [body : 0..MaxVersion, etag : 0..MaxVersion, cache : 0..MaxVersion, highest : 0..MaxVersion]
      /\ netMixed' \in [ceiling : BOOLEAN, profile : BOOLEAN]
      /\ kept'.body = kept.body /\ kept'.etag = kept.etag /\ kept'.cache = kept.cache
      /\ netMixed'.profile = netMixed.profile
      /\ ~netMixed'.ceiling =>
           /\ ~netMixed.ceiling
           /\ \/ load[t].highest <= kept.highest /\ kept'.highest = kept.highest
              \/ load[t].highest > kept.highest /\ kept'.highest = load[t].highest
              \/ kept'.highest = kept.highest /\ kept.cache >= load[t].highest
  <2>1. load[t].highest \in 0..MaxVersion /\ kept.cache \in 0..MaxVersion /\ MaxVersion \in Nat
    BY <1>0, NetTypes
  <2>2. CASE netMixed' = netMixed
    BY <1>0, <1>2, <2>1, <2>2 DEF NetTypeOK
  <2>3. CASE /\ kept' = kept
             /\ netMixed' = [netMixed EXCEPT !.ceiling =
                               netMixed.ceiling \/ kept.cache < load[t].highest]
    <3> DEFINE lost == netMixed.ceiling \/ kept.cache < load[t].highest
    <3>1. lost \in BOOLEAN /\ (~lost => ~netMixed.ceiling /\ kept.cache >= load[t].highest)
      BY <2>1
    <3>2. netMixed' = [netMixed EXCEPT !.ceiling = lost]
      BY <2>3
    <3> HIDE DEF lost
    <3> QED BY <1>0, <2>3, <3>1, <3>2 DEF NetTypeOK
  <2> QED BY <1>2, <2>2, <2>3
<1>4. /\ LoadMoves(t) /\ load'[t].pc = "set"
      /\ load'[t].etag = load[t].etag /\ load'[t].asked = load[t].asked
      /\ load'[t].tag = load[t].tag /\ load'[t].reply = load[t].reply
      /\ load'[t].ceiling = load[t].ceiling /\ load'[t].store = load[t].store
      /\ load'[t].highest = load[t].highest /\ load'[t].names = load[t].names
  <2>1. "set" \in Places
    BY DEF Places
  <2> QED BY <1>0, <1>1, <2>1, PlaceMoves
<1>5. NetTypeOK'
  BY <1>0, <1>1, <1>2, <1>3, <1>4 DEF NetTypeOK, LoadMoves, LoadRecords, Places
<1>6. WatchOnly'
  BY <1>0, <1>4 DEF WatchOnly, LoadMoves, Threads
<1>7. \A u \in Threads : LoadFollows(u)
  BY <1>1, <1>4 DEF LoadFollows, LoadMoves
<1>8. Behind' /\ ProfileHonest'
  BY <1>1, <1>3, <1>6, <1>7, ProfileStays
<1>9. Admitted'
  BY <1>0, <1>1, <1>4 DEF Admitted, LoadMoves
<1>10. CeilingHonest'
  <2> SUFFICES ASSUME ~netMixed'.ceiling
               PROVE  OneWriter' /\ Remembered' /\ NotOlder' /\ \A u \in Threads : WriterOK(u)'
    BY DEF CeilingHonest
  <2>1. OneWriter /\ Remembered /\ NotOlder /\ WriterOK(t)
    BY <1>0, <1>3 DEF CeilingHonest
  <2>2. \A u \in Threads \ {t} : load'[u].pc \notin Writing
    BY <1>1, <1>4, <2>1 DEF OneWriter, LoadMoves, Writing
  <2>3. OneWriter' /\ \A u \in Threads \ {t} : WriterOK(u)'
    BY <2>2 DEF OneWriter, WriterOK
  <2>4. Remembered' /\ NotOlder'
    BY <1>0, <1>1, <1>3, <2>1, NetTypes DEF Remembered, NotOlder
  <2>5. WriterOK(t)'
    BY <1>0, <1>1, <1>3, <1>4, <2>1, NetTypes DEF WriterOK, Writing
  <2> QED BY <2>3, <2>4, <2>5
<1>11. RollsForward
  BY <1>0, <1>1, NothingRolls DEF Admitted
<1> QED BY <1>5, <1>6, <1>8, <1>9, <1>10, <1>11 DEF NetInductive

\* The decided ceiling is put in force.
LEMMA SetCeilingNet ==
  ASSUME NetInductive, NEW t \in Threads, SetCeiling(t)
  PROVE  NetInductive' /\ RollsForward
<1> DEFINE p == IF t = "watch" THEN "fresh" ELSE "finish"
<1>0. NetTypeOK /\ WatchOnly /\ Behind /\ ProfileHonest /\ Admitted /\ CeilingHonest
  BY DEF NetInductive
<1>1. /\ load[t].pc = "set" /\ Step(t, [pc |-> p])
      /\ published' = published /\ kept' = kept /\ netMixed' = netMixed /\ netLeft' = netLeft
      /\ net' = [net EXCEPT !.ceiling = load[t].ceiling]
      /\ accepted' = IF load[t].ceiling > accepted THEN load[t].ceiling ELSE accepted
  BY DEF SetCeiling, InForce
<1>2. load[t].ceiling \in 0..MaxVersion /\ accepted \in 0..MaxVersion /\ MaxVersion \in Nat
  BY <1>0, NetTypes
<1>3. /\ net' \in [ceiling : Unset..MaxVersion, applied : SUBSET Versions, inUse : SUBSET Versions,
                   announced : SUBSET Versions, booted : BOOLEAN, watching : BOOLEAN,
                   recheck : BOOLEAN]
      /\ net'.ceiling = load[t].ceiling /\ net'.applied = net.applied
      /\ accepted' \in 0..MaxVersion /\ accepted' >= accepted /\ accepted' >= load[t].ceiling
  BY <1>0, <1>1, <1>2 DEF NetTypeOK, Unset
<1>4. /\ LoadMoves(t) /\ load'[t].pc = p
      /\ load'[t].etag = load[t].etag /\ load'[t].asked = load[t].asked
      /\ load'[t].tag = load[t].tag /\ load'[t].reply = load[t].reply
      /\ load'[t].ceiling = load[t].ceiling /\ load'[t].store = load[t].store
      /\ load'[t].highest = load[t].highest /\ load'[t].names = load[t].names
  <2>1. p \in Places
    BY DEF Places
  <2> HIDE DEF p
  <2> QED BY <1>0, <1>1, <2>1, PlaceMoves
<1>5. NetTypeOK'
  BY <1>0, <1>1, <1>3, <1>4 DEF NetTypeOK, LoadMoves, LoadRecords, Places
<1>6. WatchOnly'
  BY <1>0, <1>4 DEF WatchOnly, LoadMoves, Threads
<1>7. \A u \in Threads : LoadFollows(u)
  BY <1>1, <1>4 DEF LoadFollows, LoadMoves
<1>8. Behind' /\ ProfileHonest'
  BY <1>1, <1>6, <1>7, ProfileStays
<1>9. Admitted'
  <2>1. 1..(accepted + 1) \subseteq 1..(accepted' + 1)
    BY <1>2, <1>3
  <2> QED BY <1>0, <1>3, <1>4, <2>1 DEF Admitted, LoadMoves
<1>10. ASSUME ~netMixed.ceiling
       PROVE  /\ load[t].ceiling > 0 => load[t].ceiling >= accepted
              /\ OneWriter' /\ Remembered' /\ NotOlder' /\ \A u \in Threads : WriterOK(u)'
  <2>1. OneWriter /\ Remembered /\ NotOlder /\ WriterOK(t)
    BY <1>0, <1>10 DEF CeilingHonest
  <2>2. \A u \in Threads : load'[u].pc \notin Writing
    BY <1>1, <1>4, <2>1 DEF OneWriter, LoadMoves, Writing
  <2>3. OneWriter' /\ \A u \in Threads : WriterOK(u)'
    BY <2>2 DEF OneWriter, WriterOK
  <2>4. load[t].ceiling > 0 =>
          load[t].ceiling >= accepted /\ (load[t].ceiling = kept.cache \/ load[t].ceiling = kept.highest)
    BY <1>1, <1>2, <2>1 DEF WriterOK, Writing
  <2>5. Remembered'
    BY <1>0, <1>1, <1>2, <2>1, <2>4, NetTypes DEF Remembered
  <2>6. NotOlder'
    BY <1>1, <1>2, <1>3, <2>4 DEF NotOlder
  <2> QED BY <2>3, <2>4, <2>5, <2>6
<1>11. CeilingHonest'
  BY <1>1, <1>10 DEF CeilingHonest
<1>12. RollsForward
  <2>1. net'.ceiling > CompiledCeiling /\ ~netMixed.ceiling => net'.ceiling >= accepted
    BY <1>2, <1>3, <1>10 DEF CompiledCeiling
  <2>2. \A name \in Versions : RedirectFor(name)' => name \in FamiliesFor(accepted)
    BY <1>0, <1>3 DEF RedirectFor, FamiliesFor, Admitted
  <2> QED BY <2>1, <2>2 DEF RollsForward
<1> QED BY <1>5, <1>6, <1>8, <1>9, <1>11, <1>12 DEF NetInductive

\* A higher version admits more names.
LEMMA RangeGrows ==
  ASSUME NEW a \in Nat, NEW b \in Nat, a <= b
  PROVE  1..(a + 1) \subseteq 1..(b + 1)
OBVIOUS

\* A lookup before the first load puts the cached ceiling in force, or the compiled one.
LEMMA CurrentCeilingNet ==
  ASSUME NetInductive, CurrentCeiling
  PROVE  NetInductive' /\ RollsForward
<1> DEFINE c == DecideCeiling(kept.cache, 0, kept.highest).ceiling
<1>0. NetTypeOK /\ WatchOnly /\ Behind /\ ProfileHonest /\ Admitted /\ CeilingHonest
  BY DEF NetInductive
<1>1. /\ published' = published /\ kept' = kept /\ netMixed' = netMixed /\ netLeft' = netLeft
      /\ load' = load
      /\ net' = [net EXCEPT !.ceiling = c]
      /\ accepted' = IF c > accepted THEN c ELSE accepted
  BY DEF CurrentCeiling, InForce
<1>2. /\ c \in 0..MaxVersion
      /\ c = 0 \/ (c = kept.cache /\ kept.cache >= kept.highest)
      /\ accepted \in 0..MaxVersion /\ MaxVersion \in Nat
  BY <1>0, NetTypes DEF DecideCeiling, VerifyCeiling, CompiledCeiling
<1> HIDE DEF c
<1>3. /\ net' \in [ceiling : Unset..MaxVersion, applied : SUBSET Versions, inUse : SUBSET Versions,
                   announced : SUBSET Versions, booted : BOOLEAN, watching : BOOLEAN,
                   recheck : BOOLEAN]
      /\ net'.ceiling = c /\ net'.applied = net.applied
      /\ accepted' \in 0..MaxVersion /\ accepted' >= accepted /\ accepted' >= c
  BY <1>0, <1>1, <1>2 DEF NetTypeOK, Unset
<1>5. NetTypeOK'
  BY <1>0, <1>1, <1>3 DEF NetTypeOK
<1>6. WatchOnly'
  BY <1>0, <1>1 DEF WatchOnly
<1>7. \A u \in Threads : LoadFollows(u)
  BY <1>1 DEF LoadFollows
<1>8. Behind' /\ ProfileHonest'
  BY <1>1, <1>6, <1>7, ProfileStays
<1>9. Admitted'
  <2>0. accepted \in Nat /\ accepted' \in Nat /\ accepted <= accepted'
    BY <1>2, <1>3
  <2>1. 1..(accepted + 1) \subseteq 1..(accepted' + 1)
    BY <2>0, RangeGrows
  <2> QED BY <1>0, <1>1, <1>3, <2>1 DEF Admitted
<1>10. ASSUME ~netMixed.ceiling
       PROVE  /\ c > 0 => c >= accepted
              /\ OneWriter' /\ Remembered' /\ NotOlder' /\ \A u \in Threads : WriterOK(u)'
  <2>1. OneWriter /\ Remembered /\ NotOlder /\ \A u \in Threads : WriterOK(u)
    BY <1>0, <1>10 DEF CeilingHonest
  <2>2. OneWriter'
    BY <1>1, <2>1 DEF OneWriter
  <2>3. c > 0 => c >= accepted
    BY <1>0, <1>2, <2>1, NetTypes DEF Remembered
  <2>4. Remembered' /\ NotOlder'
    BY <1>0, <1>1, <1>2, <1>3, <2>1, <2>3, NetTypes DEF Remembered, NotOlder
  <2>5. ASSUME NEW u \in Threads PROVE WriterOK(u)'
    BY <1>0, <1>1, <1>2, <2>1, NetTypes DEF WriterOK
  <2> QED BY <2>2, <2>3, <2>4, <2>5
<1>11. CeilingHonest'
  BY <1>1, <1>10 DEF CeilingHonest
<1>12. RollsForward
  <2>1. net'.ceiling > CompiledCeiling /\ ~netMixed.ceiling => net'.ceiling >= accepted
    BY <1>2, <1>3, <1>10 DEF CompiledCeiling
  <2>2. \A name \in Versions : RedirectFor(name)' => name \in FamiliesFor(accepted)
    BY <1>0, <1>3 DEF RedirectFor, FamiliesFor, Admitted
  <2> QED BY <2>1, <2>2 DEF RollsForward
<1> QED BY <1>5, <1>6, <1>8, <1>9, <1>11, <1>12 DEF NetInductive

\* A request goes out with the stored etag.
LEMMA FetchWithCeilingNet ==
  ASSUME NetInductive, NEW t \in Threads, FetchWithCeiling(t)
  PROVE  NetInductive' /\ RollsForward
<1> DEFINE conditional == t = "boot" /\ kept.etag # 0 /\ StoredUsable
           asked == IF conditional THEN kept.etag ELSE 0
           anew == t = "settings"
           fields == [pc |-> "asked", etag |-> kept.etag, again |-> anew, asked |-> asked]
           mixed == netMixed.profile \/ \E u \in Threads \ {t, "watch"} : load[u].pc # "idle"
<1>0. NetTypeOK /\ WatchOnly /\ Behind /\ ProfileHonest /\ Admitted /\ CeilingHonest
  BY DEF NetInductive
<1>1. /\ t # "watch" /\ load[t].pc = "idle" /\ Step(t, fields)
      /\ netMixed' = [netMixed EXCEPT !.profile = mixed]
      /\ published' = published /\ kept' = kept /\ accepted' = accepted
  BY DEF FetchWithCeiling
<1>2. /\ netLeft' \in [load : Nat, publish : Nat, fault : Nat]
      /\ net' = net \/ net' = [net EXCEPT !.booted = TRUE]
  BY <1>0 DEF FetchWithCeiling, Spend, NetTypeOK
<1>3. /\ net' \in [ceiling : Unset..MaxVersion, applied : SUBSET Versions, inUse : SUBSET Versions,
                   announced : SUBSET Versions, booted : BOOLEAN, watching : BOOLEAN,
                   recheck : BOOLEAN]
      /\ net'.ceiling = net.ceiling /\ net'.applied = net.applied
  BY <1>0, <1>2 DEF NetTypeOK
<1>4. /\ DOMAIN fields = {"pc", "etag", "again", "asked"} /\ fields["pc"] = "asked"
      /\ fields["etag"] = kept.etag /\ fields["again"] = anew /\ fields["asked"] = asked
  OBVIOUS
<1>5. asked \in 0..MaxVersion /\ anew \in BOOLEAN /\ (asked # 0 => asked = kept.etag /\ kept.body > 0)
  BY <1>0, NetTypes DEF StoredUsable, Valid
<1>6. /\ netMixed' \in [ceiling : BOOLEAN, profile : BOOLEAN] /\ netMixed'.ceiling = netMixed.ceiling
      /\ ~netMixed'.profile => /\ ~netMixed.profile
                               /\ \A u \in Threads \ {t, "watch"} : load[u].pc = "idle"
  <2>1. mixed \in BOOLEAN
    BY <1>0, NetTypes
  <2>2. ~mixed => ~netMixed.profile /\ \A u \in Threads \ {t, "watch"} : load[u].pc = "idle"
    OBVIOUS
  <2> HIDE DEF mixed
  <2> QED BY <1>0, <1>1, <2>1, <2>2 DEF NetTypeOK
<1> HIDE DEF fields, asked, anew, mixed
<1>7. /\ LoadMoves(t) /\ load'[t].pc = "asked" /\ load'[t].asked = asked
      /\ load'[t].etag = kept.etag /\ load'[t].names = load[t].names
      /\ load'[t].reply = load[t].reply /\ load'[t].tag = load[t].tag
  <2>1. kept.etag \in 0..MaxVersion
    BY <1>0, NetTypes
  <2> QED BY <1>0, <1>1, <1>4, <1>5, <2>1, StepMoves DEF LoadFields, Places
<1>8. NetTypeOK'
  BY <1>0, <1>1, <1>2, <1>3, <1>6, <1>7 DEF NetTypeOK, LoadMoves, LoadRecords, Places
<1>9. WatchOnly'
  BY <1>0, <1>1, <1>7 DEF WatchOnly, LoadMoves, Threads
<1>10. Behind'
  BY <1>0, <1>1, <1>7 DEF Behind, LoadMoves
<1>11. ProfileHonest'
  <2> SUFFICES ASSUME ~netMixed'.profile PROVE OneLoader' /\ TagBehind' /\ \A u \in Threads : LoadHonest(u)'
    BY DEF ProfileHonest
  <2>1. OneLoader'
    BY <1>1, <1>6, <1>7 DEF OneLoader, LoadMoves, Threads
  <2>2. ASSUME NEW u \in Threads PROVE LoadHonest(u)'
    <3>1. CASE u = t
      BY <1>1, <1>5, <1>7, <3>1 DEF LoadHonest
    <3>2. CASE u # t
      BY <1>0, <1>1, <1>6, <1>7, <3>2 DEF LoadHonest, LoadMoves, ProfileHonest
    <3> QED BY <3>1, <3>2
  <2> QED BY <1>0, <1>1, <1>6, <2>1, <2>2 DEF ProfileHonest, TagBehind
<1>12. Admitted'
  BY <1>0, <1>1, <1>3, <1>7 DEF Admitted, LoadMoves
<1>13. CeilingHonest'
  <2>1. \A u \in Threads : load'[u] = load[u] \/ load'[u].pc \notin Writing
    BY <1>7 DEF LoadMoves, Writing
  <2> QED BY <1>1, <1>3, <1>6, <2>1, CeilingStays
<1>14. RollsForward
  BY <1>0, <1>3, NothingRolls DEF Admitted
<1> QED BY <1>8, <1>9, <1>10, <1>11, <1>12, <1>13, <1>14 DEF NetInductive

\* The site answers, or does not: a 304 comes for the profile it publishes, which is then
\* the stored one.
LEMMA AnsweredNet ==
  ASSUME NetInductive, NEW t \in Threads, Answered(t)
  PROVE  NetInductive' /\ RollsForward
<1>0. NetTypeOK /\ WatchOnly /\ Behind /\ ProfileHonest /\ Admitted /\ CeilingHonest
  BY DEF NetInductive
<1>1. /\ load[t].pc = "asked"
      /\ published' = published /\ kept' = kept /\ net' = net /\ netMixed' = netMixed
      /\ accepted' = accepted
  BY DEF Answered
<1> DEFINE got(reply, tag, newest) ==
             \E envelope \in Envelopes(newest) :
               Step(t, [pc |-> "answered", reply |-> reply, tag |-> tag, envelope |-> envelope])
<1>2. /\ netLeft' \in [load : Nat, publish : Nat, fault : Nat]
      /\ \/ got(SiteAnswer(load[t].asked), published.profile, TRUE)
         \/ got(0, 0, TRUE)
         \/ got(SiteAnswer(load[t].asked), published.profile, FALSE)
         \/ got(SiteAnswer(load[t].asked), load[t].etag, TRUE)
  <2>1. \/ got(SiteAnswer(load[t].asked), published.profile, TRUE) /\ netLeft' = netLeft
        \/ /\ \/ got(0, 0, TRUE)
              \/ got(SiteAnswer(load[t].asked), published.profile, FALSE)
              \/ got(SiteAnswer(load[t].asked), load[t].etag, TRUE)
           /\ Spend("fault")
    BY DEF Answered, Or
  <2> HIDE DEF got
  <2>2. netLeft' = netLeft \/ Spend("fault")
    BY <2>1
  <2>3. netLeft' \in [load : Nat, publish : Nat, fault : Nat]
    BY <1>0, <2>2 DEF Spend, NetTypeOK
  <2> QED BY <2>1, <2>3, Zenon
<1>3. PICK newest \in BOOLEAN, reply \in {0, SiteAnswer(load[t].asked)},
           tag \in {0, published.profile, load[t].etag} : got(reply, tag, newest)
  <2> HIDE DEF got
  <2> QED BY <1>2, Zenon
<1>7. PICK envelope \in Envelopes(newest) :
         Step(t, [pc |-> "answered", reply |-> reply, tag |-> tag, envelope |-> envelope])
  BY <1>3
<1>4. /\ envelope \in 0..MaxVersion /\ tag \in 0..MaxVersion /\ tag <= published.profile
      /\ reply \in Same..MaxVersion /\ reply <= published.profile
      /\ reply > 0 => reply = published.profile
      /\ reply = Same => load[t].asked = published.profile
  BY <1>0, NetTypes DEF Envelopes, SiteAnswer, Same, Behind
<1>5. t # "watch"
  BY <1>0, <1>1 DEF WatchOnly
<1>6. /\ LoadMoves(t) /\ load'[t].pc = "answered" /\ load'[t].reply = reply /\ load'[t].tag = tag
      /\ load'[t].etag = load[t].etag /\ load'[t].asked = load[t].asked
      /\ load'[t].names = load[t].names
  <2> DEFINE fields == [pc |-> "answered", reply |-> reply, tag |-> tag, envelope |-> envelope]
  <2>1. /\ DOMAIN fields = {"pc", "reply", "tag", "envelope"} /\ fields["pc"] = "answered"
        /\ fields["reply"] = reply /\ fields["tag"] = tag /\ fields["envelope"] = envelope
    OBVIOUS
  <2>2. Step(t, fields)
    BY <1>7
  <2> HIDE DEF fields
  <2> QED BY <1>0, <1>4, <2>1, <2>2, StepMoves DEF LoadFields, Places
<1>8. NetTypeOK'
  BY <1>0, <1>1, <1>2, <1>6 DEF NetTypeOK, LoadMoves, LoadRecords, Places
<1>9. WatchOnly'
  BY <1>0, <1>5, <1>6 DEF WatchOnly, LoadMoves, Threads
<1>10. Behind'
  BY <1>0, <1>1, <1>4, <1>6 DEF Behind, LoadMoves
<1>11. ProfileHonest'
  <2> SUFFICES ASSUME ~netMixed.profile PROVE OneLoader' /\ TagBehind' /\ \A u \in Threads : LoadHonest(u)'
    BY <1>1 DEF ProfileHonest
  <2>1. OneLoader'
    BY <1>0, <1>1, <1>5, <1>6 DEF OneLoader, LoadMoves, Threads, ProfileHonest
  <2>2. LoadHonest(t)'
    BY <1>0, <1>1, <1>4, <1>6, NetTypes DEF LoadHonest, ProfileHonest, TagBehind, Behind
  <2>3. \A u \in Threads \ {t} : LoadHonest(u)'
    BY <1>0, <1>1, <1>6 DEF LoadHonest, LoadMoves, ProfileHonest
  <2> QED BY <1>0, <1>1, <2>1, <2>2, <2>3 DEF ProfileHonest, TagBehind
<1>12. Admitted'
  BY <1>0, <1>1, <1>6 DEF Admitted, LoadMoves
<1>13. CeilingHonest'
  <2>1. \A u \in Threads : load'[u] = load[u] \/ load'[u].pc \notin Writing
    BY <1>6 DEF LoadMoves, Writing
  <2> QED BY <1>1, <2>1, CeilingStays
<1>14. RollsForward
  BY <1>0, <1>1, NothingRolls DEF Admitted
<1> QED BY <1>8, <1>9, <1>10, <1>11, <1>12, <1>13, <1>14 DEF NetInductive

\* What is left of a profile under the ceiling in force is named by the profile, and
\* admitted by the highest ceiling so far.
LEMMA NamesAdmitted ==
  ASSUME NetInductive
  PROVE  /\ \A v \in 0..MaxVersion : /\ FilterToCeiling(v, net.ceiling) \subseteq Versions
                                     /\ FilterToCeiling(v, net.ceiling) \subseteq 1..(accepted + 1)
         /\ BuiltIn(net.ceiling) \subseteq Versions
         /\ BuiltIn(net.ceiling) \subseteq 1..(accepted + 1)
<1>1. /\ net.ceiling \in -1..MaxVersion /\ accepted \in 0..MaxVersion /\ net.ceiling <= accepted
      /\ MaxVersion \in Nat /\ MaxVersion >= 1
  BY NetTypes DEF NetInductive, Admitted
<1> QED BY <1>1 DEF FilterToCeiling, BuiltIn, FamiliesFor, Versions

\* The answer is stored, or what is stored stands in for it.
LEMMA FinishNet ==
  ASSUME NetInductive, NEW t \in Threads, Finish(t)
  PROVE  NetInductive' /\ RollsForward
<1>0. NetTypeOK /\ WatchOnly /\ Behind /\ ProfileHonest /\ Admitted /\ CeilingHonest
  BY DEF NetInductive
<1>1. /\ load[t].pc = "finish"
      /\ published' = published /\ kept' = kept /\ net' = net /\ netMixed' = netMixed
      /\ accepted' = accepted /\ netLeft' = netLeft
      /\ \/ load[t].reply > 0 /\ Step(t, [pc |-> "body"])
         \/ Step(t, [pc |-> "apply", names |-> LoadStored])
  BY DEF Finish, Valid
<1>2. LoadStored \subseteq Versions /\ LoadStored \subseteq 1..(accepted + 1)
  <2>1. kept.body \in 0..MaxVersion
    BY <1>0, NetTypes
  <2> QED BY <2>1, NamesAdmitted DEF LoadStored
<1>3. /\ LoadMoves(t)
      /\ load'[t].etag = load[t].etag /\ load'[t].asked = load[t].asked
      /\ load'[t].tag = load[t].tag /\ load'[t].reply = load[t].reply
      /\ \/ load[t].reply > 0 /\ load'[t].pc = "body" /\ load'[t].names = load[t].names
         \/ load'[t].pc = "apply" /\ load'[t].names \subseteq 1..(accepted + 1)
  <2>1. CASE load[t].reply > 0 /\ Step(t, [pc |-> "body"])
    <3>1. "body" \in Places
      BY DEF Places
    <3> QED BY <1>0, <2>1, <3>1, PlaceMoves
  <2>2. CASE Step(t, [pc |-> "apply", names |-> LoadStored])
    <3> DEFINE fields == [pc |-> "apply", names |-> LoadStored]
    <3>1. DOMAIN fields = {"pc", "names"} /\ fields["pc"] = "apply" /\ fields["names"] = LoadStored
      OBVIOUS
    <3>2. Step(t, fields)
      BY <2>2
    <3> HIDE DEF fields
    <3>3. fields["names"] \in SUBSET Versions /\ fields["pc"] \in Places
          /\ DOMAIN fields \subseteq LoadFields
      BY <1>2, <3>1 DEF LoadFields, Places
    <3>4. /\ LoadMoves(t) /\ load'[t].pc = "apply" /\ load'[t].names = LoadStored
          /\ load'[t].etag = load[t].etag /\ load'[t].asked = load[t].asked
          /\ load'[t].tag = load[t].tag /\ load'[t].reply = load[t].reply
      BY <1>0, <3>1, <3>2, <3>3, StepMoves
    <3> QED BY <1>2, <3>4
  <2> QED BY <1>1, <2>1, <2>2
<1>4. t # "watch"
  BY <1>0, <1>1 DEF WatchOnly
<1>5. NetTypeOK'
  BY <1>0, <1>1, <1>3 DEF NetTypeOK, LoadMoves, LoadRecords, Places
<1>6. WatchOnly'
  BY <1>0, <1>3, <1>4 DEF WatchOnly, LoadMoves, Threads
<1>7. Behind'
  BY <1>0, <1>1, <1>3 DEF Behind, LoadMoves
<1>8. ProfileHonest'
  <2> SUFFICES ASSUME ~netMixed.profile PROVE OneLoader' /\ TagBehind' /\ \A u \in Threads : LoadHonest(u)'
    BY <1>1 DEF ProfileHonest
  <2>1. OneLoader'
    BY <1>0, <1>1, <1>3, <1>4 DEF OneLoader, LoadMoves, Threads, ProfileHonest
  <2>2. LoadHonest(t)'
    BY <1>0, <1>1, <1>3 DEF LoadHonest, ProfileHonest
  <2>3. \A u \in Threads \ {t} : LoadHonest(u)'
    BY <1>0, <1>1, <1>3 DEF LoadHonest, LoadMoves, ProfileHonest
  <2> QED BY <1>0, <1>1, <2>1, <2>2, <2>3 DEF ProfileHonest, TagBehind
<1>9. Admitted'
  BY <1>0, <1>1, <1>3 DEF Admitted, LoadMoves
<1>10. CeilingHonest'
  <2>1. \A u \in Threads : load'[u] = load[u] \/ load'[u].pc \notin Writing
    BY <1>3 DEF LoadMoves, Writing
  <2> QED BY <1>1, <2>1, CeilingStays
<1>11. RollsForward
  BY <1>0, <1>1, NothingRolls DEF Admitted
<1> QED BY <1>5, <1>6, <1>7, <1>8, <1>9, <1>10, <1>11 DEF NetInductive

\* The body is written, torn or not opened.
LEMMA StoreBodyNet ==
  ASSUME NetInductive, NEW t \in Threads, StoreBody(t)
  PROVE  NetInductive' /\ RollsForward
<1>0. NetTypeOK /\ WatchOnly /\ Behind /\ ProfileHonest /\ Admitted /\ CeilingHonest
  BY DEF NetInductive
<1>1. /\ load[t].pc = "body" /\ Step(t, [pc |-> "etag"])
      /\ published' = published /\ net' = net /\ accepted' = accepted
  BY DEF StoreBody
<1>2. /\ netLeft' \in [load : Nat, publish : Nat, fault : Nat]
      /\ \/ kept' = [kept EXCEPT !.body = load[t].reply] /\ netMixed' = netMixed
         \/ kept' = [kept EXCEPT !.body = 0] /\ netMixed' = netMixed
         \/ kept' = kept /\ netMixed' = [netMixed EXCEPT !.profile = TRUE]
  BY <1>0 DEF StoreBody, Or, Spend, NetTypeOK
<1>3. t # "watch"
  BY <1>0, <1>1 DEF WatchOnly
<1>4. /\ LoadMoves(t) /\ load'[t].pc = "etag"
      /\ load'[t].etag = load[t].etag /\ load'[t].asked = load[t].asked
      /\ load'[t].tag = load[t].tag /\ load'[t].reply = load[t].reply
      /\ load'[t].names = load[t].names
  <2>1. "etag" \in Places
    BY DEF Places
  <2> QED BY <1>0, <1>1, <2>1, PlaceMoves
<1>5. load[t].reply > 0 /\ load[t].reply <= published.profile /\ load[t].reply \in 0..MaxVersion
      /\ published.profile \in 1..MaxVersion
  BY <1>0, <1>1, NetTypes DEF Behind
<1>6. /\ kept' \in [body : 0..MaxVersion, etag : 0..MaxVersion, cache : 0..MaxVersion, highest : 0..MaxVersion]
      /\ netMixed' \in [ceiling : BOOLEAN, profile : BOOLEAN]
      /\ kept'.body <= published.profile /\ kept'.etag = kept.etag
      /\ kept'.cache = kept.cache /\ kept'.highest = kept.highest
      /\ netMixed'.ceiling = netMixed.ceiling
      /\ ~netMixed'.profile => ~netMixed.profile /\ kept'.body \in {0, load[t].reply}
  <2>1. kept.body <= published.profile
    BY <1>0 DEF Behind
  <2>2. CASE kept' = [kept EXCEPT !.body = load[t].reply] /\ netMixed' = netMixed
    BY <1>0, <1>5, <2>2 DEF NetTypeOK
  <2>3. CASE kept' = [kept EXCEPT !.body = 0] /\ netMixed' = netMixed
    <3>1. 0 \in 0..MaxVersion /\ 0 <= published.profile
      BY <1>5, VersionAssumption
    <3>2. kept' \in [body : 0..MaxVersion, etag : 0..MaxVersion, cache : 0..MaxVersion, highest : 0..MaxVersion]
          /\ kept'.body = 0
      BY <1>0, <2>3, <3>1 DEF NetTypeOK
    <3> QED BY <1>0, <2>3, <3>1, <3>2 DEF NetTypeOK
  <2>4. CASE kept' = kept /\ netMixed' = [netMixed EXCEPT !.profile = TRUE]
    <3>1. netMixed' \in [ceiling : BOOLEAN, profile : BOOLEAN] /\ netMixed'.ceiling = netMixed.ceiling
      BY <1>0, <2>4 DEF NetTypeOK
    <3>2. netMixed'.profile
      BY <1>0, <2>4 DEF NetTypeOK
    <3> QED BY <1>0, <2>1, <2>4, <3>1, <3>2 DEF NetTypeOK
  <2> QED BY <1>2, <2>2, <2>3, <2>4
<1>7. NetTypeOK'
  BY <1>0, <1>1, <1>2, <1>4, <1>6 DEF NetTypeOK, LoadMoves, LoadRecords, Places
<1>8. WatchOnly'
  BY <1>0, <1>3, <1>4 DEF WatchOnly, LoadMoves, Threads
<1>9. Behind'
  BY <1>0, <1>1, <1>4, <1>5, <1>6 DEF Behind, LoadMoves
<1>10. ProfileHonest'
  <2> SUFFICES ASSUME ~netMixed'.profile PROVE OneLoader' /\ TagBehind' /\ \A u \in Threads : LoadHonest(u)'
    BY DEF ProfileHonest
  <2>1. OneLoader /\ LoadHonest(t) /\ TagBehind
    BY <1>0, <1>6 DEF ProfileHonest
  <2>2. OneLoader' /\ \A u \in Threads \ {t, "watch"} : load'[u].pc = "idle"
    BY <1>1, <1>3, <1>4, <2>1 DEF OneLoader, LoadMoves, Threads
  <2>3. TagBehind'
    BY <1>0, <1>1, <1>5, <1>6, <2>1, NetTypes DEF TagBehind, LoadHonest
  <2>4. LoadHonest(t)'
    BY <1>1, <1>4, <1>5, <1>6, <2>1 DEF LoadHonest
  <2>5. LoadHonest("watch")'
    BY <1>8 DEF LoadHonest, WatchOnly, Same
  <2>6. \A u \in Threads \ {t, "watch"} : LoadHonest(u)'
    BY <2>2 DEF LoadHonest
  <2> QED BY <2>2, <2>3, <2>4, <2>5, <2>6
<1>11. Admitted'
  BY <1>0, <1>1, <1>4 DEF Admitted, LoadMoves
<1>12. CeilingHonest'
  <2>1. \A u \in Threads : load'[u] = load[u] \/ load'[u].pc \notin Writing
    BY <1>4 DEF LoadMoves, Writing
  <2> QED BY <1>1, <1>6, <2>1, CeilingStays
<1>13. RollsForward
  BY <1>0, <1>1, NothingRolls DEF Admitted
<1> QED BY <1>7, <1>8, <1>9, <1>10, <1>11, <1>12, <1>13 DEF NetInductive

\* The etag is written after the body, whatever came of it.
LEMMA StoreEtagNet ==
  ASSUME NetInductive, NEW t \in Threads, StoreEtag(t)
  PROVE  NetInductive' /\ RollsForward
<1> DEFINE names == FilterToCeiling(load[t].reply, net.ceiling)
           fields == [pc |-> "apply", names |-> names]
<1>0. NetTypeOK /\ WatchOnly /\ Behind /\ ProfileHonest /\ Admitted /\ CeilingHonest
  BY DEF NetInductive
<1>1. /\ load[t].pc = "etag" /\ Step(t, fields)
      /\ kept' = [kept EXCEPT !.etag = load[t].tag]
      /\ published' = published /\ net' = net /\ netMixed' = netMixed /\ accepted' = accepted
      /\ netLeft' = netLeft
  BY DEF StoreEtag
<1>2. t # "watch"
  BY <1>0, <1>1 DEF WatchOnly
<1>3. /\ load[t].reply > 0 /\ load[t].reply \in 0..MaxVersion /\ load[t].tag \in 0..MaxVersion
      /\ load[t].tag <= published.profile
  BY <1>0, <1>1, NetTypes DEF Behind
<1>4. names \in SUBSET Versions /\ names \subseteq 1..(accepted + 1)
  BY <1>3, NamesAdmitted
<1> HIDE DEF names
<1>5. /\ LoadMoves(t) /\ load'[t].pc = "apply" /\ load'[t].names = names
      /\ load'[t].etag = load[t].etag /\ load'[t].asked = load[t].asked
      /\ load'[t].tag = load[t].tag /\ load'[t].reply = load[t].reply
  <2>1. DOMAIN fields = {"pc", "names"} /\ fields["pc"] = "apply" /\ fields["names"] = names
    OBVIOUS
  <2> HIDE DEF fields
  <2>2. fields["names"] \in SUBSET Versions /\ fields["pc"] \in Places
        /\ DOMAIN fields \subseteq LoadFields
    BY <1>4, <2>1 DEF LoadFields, Places
  <2> QED BY <1>0, <1>1, <2>1, <2>2, StepMoves
<1>6. /\ kept' \in [body : 0..MaxVersion, etag : 0..MaxVersion, cache : 0..MaxVersion, highest : 0..MaxVersion]
      /\ kept'.body = kept.body /\ kept'.etag = load[t].tag
      /\ kept'.cache = kept.cache /\ kept'.highest = kept.highest
  BY <1>0, <1>1, <1>3 DEF NetTypeOK
<1>7. NetTypeOK'
  BY <1>0, <1>1, <1>5, <1>6 DEF NetTypeOK, LoadMoves, LoadRecords, Places
<1>8. WatchOnly'
  BY <1>0, <1>2, <1>5 DEF WatchOnly, LoadMoves, Threads
<1>9. Behind'
  BY <1>0, <1>1, <1>3, <1>5, <1>6 DEF Behind, LoadMoves
<1>10. ProfileHonest'
  <2> SUFFICES ASSUME ~netMixed.profile PROVE OneLoader' /\ TagBehind' /\ \A u \in Threads : LoadHonest(u)'
    BY <1>1 DEF ProfileHonest
  <2>1. OneLoader /\ LoadHonest(t) /\ TagBehind
    BY <1>0 DEF ProfileHonest
  <2>2. OneLoader' /\ \A u \in Threads \ {t, "watch"} : load'[u].pc = "idle"
    BY <1>1, <1>2, <1>5, <2>1 DEF OneLoader, LoadMoves, Threads
  <2>3. TagBehind'
    BY <1>1, <1>6, <2>1 DEF TagBehind, LoadHonest
  <2>4. LoadHonest(t)'
    BY <1>5 DEF LoadHonest
  <2>5. LoadHonest("watch")'
    BY <1>8 DEF LoadHonest, WatchOnly, Same
  <2>6. \A u \in Threads \ {t, "watch"} : LoadHonest(u)'
    BY <2>2 DEF LoadHonest
  <2> QED BY <2>2, <2>3, <2>4, <2>5, <2>6
<1>11. Admitted'
  BY <1>0, <1>1, <1>4, <1>5 DEF Admitted, LoadMoves
<1>12. CeilingHonest'
  <2>1. \A u \in Threads : load'[u] = load[u] \/ load'[u].pc \notin Writing
    BY <1>5 DEF LoadMoves, Writing
  <2> QED BY <1>1, <1>6, <2>1, CeilingStays
<1>13. RollsForward
  BY <1>0, <1>1, NothingRolls DEF Admitted
<1> QED BY <1>7, <1>8, <1>9, <1>10, <1>11, <1>12, <1>13 DEF NetInductive

\* What NetInductive says of a step that leaves the files, the ceiling and the loads'
\* answers, and moves one load on to the profile's use or to its end.
LEMMA UseNet ==
  ASSUME NetInductive, NEW t \in Threads, NetTypeOK', WatchOnly',
         published' = published, kept' = kept, netMixed' = netMixed, accepted' = accepted,
         net'.ceiling = net.ceiling, net'.applied \in {net.applied, load[t].names},
         \A u \in Threads \ {t} : load'[u] = load[u], LoadFollows(t),
         load'[t].pc \notin Writing, load'[t].names \in {load[t].names, {}}
  PROVE  NetInductive' /\ RollsForward
<1>1. Behind' /\ ProfileHonest'
  <2>1. \A u \in Threads : LoadFollows(u)
    BY DEF LoadFollows
  <2> QED BY <2>1, ProfileStays
<1>2. net'.applied \subseteq 1..(accepted + 1)
  BY DEF NetInductive, Admitted
<1>3. Admitted'
  BY <1>2 DEF NetInductive, Admitted
<1>4. CeilingHonest'
  BY CeilingStays
<1>5. RollsForward
  BY <1>2, NothingRolls
<1> QED BY <1>1, <1>3, <1>4, <1>5 DEF NetInductive

\* The profile is applied.
LEMMA ApplyNet ==
  ASSUME NetInductive, NEW t \in Threads, Apply(t)
  PROVE  NetInductive' /\ RollsForward
<1>0. NetTypeOK /\ WatchOnly
  BY DEF NetInductive
<1>1. /\ load[t].pc = "apply" /\ Step(t, [pc |-> "inUse"])
      /\ net' = [net EXCEPT !.applied = load[t].names]
      /\ published' = published /\ kept' = kept /\ netMixed' = netMixed /\ accepted' = accepted
      /\ netLeft' = netLeft
  BY DEF Apply
<1>2. /\ LoadMoves(t) /\ load'[t].pc = "inUse"
      /\ load'[t].etag = load[t].etag /\ load'[t].asked = load[t].asked
      /\ load'[t].tag = load[t].tag /\ load'[t].reply = load[t].reply
      /\ load'[t].names = load[t].names
  <2>1. "inUse" \in Places
    BY DEF Places
  <2> QED BY <1>0, <1>1, <2>1, PlaceMoves
<1>3. /\ net' \in [ceiling : Unset..MaxVersion, applied : SUBSET Versions, inUse : SUBSET Versions,
                   announced : SUBSET Versions, booted : BOOLEAN, watching : BOOLEAN,
                   recheck : BOOLEAN]
      /\ net'.ceiling = net.ceiling /\ net'.applied = load[t].names
  <2>1. load[t].names \in SUBSET Versions
    BY <1>0, NetTypes
  <2> QED BY <1>0, <1>1, <2>1 DEF NetTypeOK
<1>4. NetTypeOK'
  BY <1>0, <1>1, <1>2, <1>3 DEF NetTypeOK, LoadMoves, LoadRecords, Places
<1>5. WatchOnly'
  BY <1>0, <1>1, <1>2 DEF WatchOnly, LoadMoves, Threads
<1>6. LoadFollows(t) /\ load'[t].pc \notin Writing /\ \A u \in Threads \ {t} : load'[u] = load[u]
  BY <1>1, <1>2 DEF LoadFollows, Writing, LoadMoves
<1> QED BY <1>1, <1>2, <1>3, <1>4, <1>5, <1>6, UseNet

\* A load that has ended is one that has not begun.
LEMMA NoLoadShape ==
  /\ NoLoad \in LoadRecords /\ NoLoad.pc = "idle" /\ NoLoad.reply = 0 /\ NoLoad.names = {}
  /\ NoLoad.etag = 0 /\ NoLoad.tag = 0 /\ NoLoad.asked = 0
<1> DEFINE no == FALSE
<1>1. NoLoad = [pc |-> "idle", etag |-> 0, asked |-> 0, tag |-> 0, reply |-> 0, envelope |-> 0,
                ceiling |-> 0, store |-> no, highest |-> 0, names |-> {}, again |-> no]
  BY DEF NoLoad
<1>2. no \in BOOLEAN
  OBVIOUS
<1> HIDE DEF no
<1>3. /\ 0 \in 0..MaxVersion /\ 0 \in Same..MaxVersion /\ {} \in SUBSET Versions
      /\ "idle" \in Places
  BY VersionAssumption DEF Same, Places
<1>4. NoLoad \in LoadRecords
  BY <1>1, <1>2, <1>3 DEF LoadRecords
<1> QED BY <1>1, <1>4

\* Its digest is noted, and the load ends or applies its result again.
LEMMA SetDigestInUseNet ==
  ASSUME NetInductive, NEW t \in Threads, SetDigestInUse(t)
  PROVE  NetInductive' /\ RollsForward
<1> DEFINE yes == TRUE
           no == FALSE
           fields == [pc |-> "apply", again |-> no]
<1>0. NetTypeOK /\ WatchOnly
  BY DEF NetInductive
<1>1. /\ load[t].pc = "inUse"
      /\ net' = [net EXCEPT !.inUse = load[t].names, !.watching = yes]
      /\ Step(t, fields) \/ load' = [load EXCEPT ![t] = NoLoad]
      /\ published' = published /\ kept' = kept /\ netMixed' = netMixed /\ accepted' = accepted
      /\ netLeft' = netLeft
  BY DEF SetDigestInUse
<1>2. yes \in BOOLEAN /\ no \in BOOLEAN
  OBVIOUS
<1> HIDE DEF yes, no
<1>3. /\ net' \in [ceiling : Unset..MaxVersion, applied : SUBSET Versions, inUse : SUBSET Versions,
                   announced : SUBSET Versions, booted : BOOLEAN, watching : BOOLEAN,
                   recheck : BOOLEAN]
      /\ net'.ceiling = net.ceiling /\ net'.applied = net.applied
  <2>1. load[t].names \in SUBSET Versions
    BY <1>0, NetTypes
  <2> QED BY <1>0, <1>1, <1>2, <2>1 DEF NetTypeOK
<1>4. /\ LoadMoves(t) /\ load'[t].pc \in {"apply", "idle"} /\ LoadFollows(t)
      /\ load'[t].names \in {load[t].names, {}}
  <2>1. CASE Step(t, fields)
    <3>1. DOMAIN fields = {"pc", "again"} /\ fields["pc"] = "apply" /\ fields["again"] = no
      OBVIOUS
    <3> HIDE DEF fields
    <3>2. /\ LoadMoves(t) /\ load'[t].pc = "apply" /\ load'[t].names = load[t].names
          /\ load'[t].etag = load[t].etag /\ load'[t].asked = load[t].asked
          /\ load'[t].tag = load[t].tag /\ load'[t].reply = load[t].reply
      BY <1>0, <1>2, <2>1, <3>1, StepMoves DEF LoadFields, Places
    <3> QED BY <1>1, <3>2 DEF LoadFollows
  <2>2. CASE load' = [load EXCEPT ![t] = NoLoad]
    BY <1>0, <2>2, NoLoadShape, NetTypes DEF LoadMoves, LoadFollows
  <2> QED BY <1>1, <2>1, <2>2
<1>5. NetTypeOK'
  BY <1>0, <1>1, <1>3, <1>4 DEF NetTypeOK, LoadMoves, LoadRecords, Places
<1>6. WatchOnly'
  BY <1>0, <1>1, <1>4 DEF WatchOnly, LoadMoves, Threads
<1>7. load'[t].pc \notin Writing /\ \A u \in Threads \ {t} : load'[u] = load[u]
  BY <1>4 DEF Writing, LoadMoves
<1> QED BY <1>1, <1>3, <1>4, <1>5, <1>6, <1>7, UseNet

\* The watch wakes, and an envelope comes, or none.
LEMMA WatchLoopNet ==
  ASSUME NetInductive, WatchLoop
  PROVE  NetInductive' /\ RollsForward
<1> DEFINE no == FALSE
<1>0. NetTypeOK /\ WatchOnly
  BY DEF NetInductive
<1>1. /\ load["watch"].pc = "idle" /\ net' = [net EXCEPT !.recheck = no]
      /\ published' = published /\ kept' = kept /\ netMixed' = netMixed /\ accepted' = accepted
  BY DEF WatchLoop
<1>2. netLeft' \in [load : Nat, publish : Nat, fault : Nat]
  BY <1>0 DEF WatchLoop, Spend, NetTypeOK
<1>3. PICK envelope \in 0..published.ceiling :
         Step("watch", [pc |-> "answered", envelope |-> envelope])
  BY DEF WatchLoop
<1>4. no \in BOOLEAN /\ envelope \in 0..MaxVersion /\ "watch" \in Threads
  BY <1>0, NetTypes DEF Threads
<1> HIDE DEF no
<1>5. /\ LoadMoves("watch") /\ load'["watch"].pc = "answered"
      /\ load'["watch"].etag = load["watch"].etag /\ load'["watch"].asked = load["watch"].asked
      /\ load'["watch"].tag = load["watch"].tag /\ load'["watch"].reply = load["watch"].reply
      /\ load'["watch"].names = load["watch"].names
  <2> DEFINE fields == [pc |-> "answered", envelope |-> envelope]
  <2>1. /\ DOMAIN fields = {"pc", "envelope"} /\ fields["pc"] = "answered"
        /\ fields["envelope"] = envelope
    OBVIOUS
  <2>2. Step("watch", fields)
    BY <1>3
  <2> HIDE DEF fields
  <2> QED BY <1>0, <1>4, <2>1, <2>2, StepMoves DEF LoadFields, Places
<1>6. /\ net' \in [ceiling : Unset..MaxVersion, applied : SUBSET Versions, inUse : SUBSET Versions,
                   announced : SUBSET Versions, booted : BOOLEAN, watching : BOOLEAN,
                   recheck : BOOLEAN]
      /\ net'.ceiling = net.ceiling /\ net'.applied = net.applied
  BY <1>0, <1>1, <1>4 DEF NetTypeOK
<1>7. NetTypeOK'
  BY <1>0, <1>1, <1>2, <1>5, <1>6 DEF NetTypeOK, LoadMoves, LoadRecords, Places
<1>8. WatchOnly'
  BY <1>0, <1>5 DEF WatchOnly
<1>9. /\ LoadFollows("watch") /\ load'["watch"].pc \notin Writing
      /\ \A u \in Threads \ {"watch"} : load'[u] = load[u]
  BY <1>5 DEF LoadFollows, Writing, LoadMoves
<1> QED BY <1>1, <1>4, <1>5, <1>6, <1>7, <1>8, <1>9, UseNet

\* The watch compares what is published with what is in use, and its load ends.
LEMMA FreshDigestNet ==
  ASSUME NetInductive, FreshDigest
  PROVE  NetInductive' /\ RollsForward
<1> DEFINE names == FilterToCeiling(published.profile, net.ceiling)
           told == IF ShouldAnnounce(names) THEN names ELSE net.announced
<1>0. NetTypeOK /\ WatchOnly
  BY DEF NetInductive
<1>1. /\ load["watch"].pc = "fresh" /\ load' = [load EXCEPT !["watch"] = NoLoad]
      /\ published' = published /\ kept' = kept /\ netMixed' = netMixed /\ accepted' = accepted
  BY DEF FreshDigest
<1>2. /\ net' = net \/ net' = [net EXCEPT !.announced = told]
      /\ netLeft' = netLeft \/ Spend("fault")
  BY DEF FreshDigest, Or
<1>3. netLeft' \in [load : Nat, publish : Nat, fault : Nat]
  BY <1>0, <1>2 DEF Spend, NetTypeOK
<1>4. told \in SUBSET Versions
  <2>1. published.profile \in 0..MaxVersion /\ net.announced \in SUBSET Versions
    BY <1>0, NetTypes DEF NetTypeOK
  <2> QED BY <2>1, NamesAdmitted
<1> HIDE DEF told
<1>5. /\ net' \in [ceiling : Unset..MaxVersion, applied : SUBSET Versions, inUse : SUBSET Versions,
                   announced : SUBSET Versions, booted : BOOLEAN, watching : BOOLEAN,
                   recheck : BOOLEAN]
      /\ net'.ceiling = net.ceiling /\ net'.applied = net.applied
  BY <1>0, <1>2, <1>4 DEF NetTypeOK
<1>6. "watch" \in Threads
  BY DEF Threads
<1>7. LoadMoves("watch") /\ load'["watch"] = NoLoad
  BY <1>0, <1>1, <1>6, NoLoadShape, NetTypes DEF LoadMoves
<1>8. NetTypeOK'
  BY <1>0, <1>1, <1>3, <1>5, <1>7 DEF NetTypeOK, LoadMoves, LoadRecords, Places
<1>9. WatchOnly'
  BY <1>7, NoLoadShape DEF WatchOnly
<1>10. /\ LoadFollows("watch") /\ load'["watch"].pc \notin Writing
       /\ load'["watch"].names = {}
       /\ \A u \in Threads \ {"watch"} : load'[u] = load[u]
  BY <1>7, NoLoadShape DEF LoadFollows, Writing, LoadMoves
<1> QED BY <1>1, <1>5, <1>6, <1>8, <1>9, <1>10, UseNet

\* A sign-in asks for the re-check.
LEMMA RecheckSoonNet ==
  ASSUME NetInductive, RecheckSoon, UNCHANGED <<published, kept, load, netMixed, accepted, netLeft>>
  PROVE  NetInductive' /\ RollsForward
<1>0. NetTypeOK /\ WatchOnly /\ Admitted
  BY DEF NetInductive
<1>1. /\ net' \in [ceiling : Unset..MaxVersion, applied : SUBSET Versions, inUse : SUBSET Versions,
                   announced : SUBSET Versions, booted : BOOLEAN, watching : BOOLEAN,
                   recheck : BOOLEAN]
      /\ net'.ceiling = net.ceiling /\ net'.applied = net.applied
  BY <1>0 DEF NetTypeOK, RecheckSoon
<1>2. NetTypeOK' /\ WatchOnly' /\ Admitted'
  BY <1>0, <1>1 DEF NetTypeOK, WatchOnly, Admitted
<1>3. Behind' /\ ProfileHonest'
  BY <1>2, ProfileStays DEF LoadFollows
<1>4. CeilingHonest'
  BY <1>1, CeilingStays
<1>5. RollsForward
  BY <1>0, <1>1, NothingRolls DEF Admitted
<1> QED BY <1>2, <1>3, <1>4, <1>5 DEF NetInductive

\* The site publishes.
LEMMA PublishNet ==
  ASSUME NetInductive, Publish
  PROVE  NetInductive' /\ RollsForward
<1>0. NetTypeOK /\ WatchOnly /\ Behind /\ ProfileHonest /\ Admitted /\ CeilingHonest
  BY DEF NetInductive
<1>1. /\ kept' = kept /\ net' = net /\ load' = load /\ netMixed' = netMixed /\ accepted' = accepted
      /\ netLeft' \in [load : Nat, publish : Nat, fault : Nat]
  BY <1>0 DEF Publish, Spend, NetTypeOK
<1>2. /\ published' \in [profile : Versions, ceiling : Versions]
      /\ published'.profile >= published.profile
  <2>1. PICK what \in DOMAIN published : /\ published[what] < MaxVersion
                                         /\ published' = [published EXCEPT ![what] = published[what] + 1]
    BY DEF Publish
  <2>2. /\ published \in [profile : Versions, ceiling : Versions] /\ what \in {"profile", "ceiling"}
        /\ published.profile \in 1..MaxVersion /\ published.ceiling \in 1..MaxVersion
        /\ MaxVersion \in Nat
    BY <1>0, NetTypes DEF NetTypeOK
  <2> QED BY <2>1, <2>2 DEF Versions
<1>3. NetTypeOK'
  BY <1>0, <1>1, <1>2 DEF NetTypeOK
<1>4. WatchOnly' /\ Admitted'
  BY <1>0, <1>1 DEF WatchOnly, Admitted
<1>5. Behind'
  BY <1>0, <1>1, <1>2, <1>3, NetTypes DEF Behind, NetTypeOK, Versions
<1>6. ProfileHonest'
  BY <1>0, <1>1 DEF ProfileHonest, OneLoader, TagBehind, LoadHonest
<1>7. CeilingHonest'
  BY <1>1, CeilingStays
<1>8. RollsForward
  BY <1>0, <1>1, NothingRolls DEF Admitted
<1> QED BY <1>3, <1>4, <1>5, <1>6, <1>7, <1>8 DEF NetInductive

\* The process dies, while a file is rewritten or not.
LEMMA NetDieNet ==
  ASSUME NetInductive, NetDie
  PROVE  NetInductive' /\ RollsForward
<1>0. NetTypeOK /\ WatchOnly /\ Behind /\ ProfileHonest /\ Admitted /\ CeilingHonest
  BY DEF NetInductive
<1>1. /\ net' = NewProcess /\ load' = [u \in Threads |-> NoLoad]
      /\ published' = published /\ netMixed' = netMixed /\ accepted' = accepted /\ netLeft' = netLeft
  BY DEF NetDie
<1>2. PICK body \in {kept.body, 0}, etag \in {kept.etag, 0} :
         kept' = [kept EXCEPT !.body = body, !.etag = etag]
  BY DEF NetDie
<1>3. MaxVersion \in Nat /\ MaxVersion >= 1 /\ published.profile \in 1..MaxVersion
      /\ kept.body \in 0..MaxVersion /\ kept.etag \in 0..MaxVersion /\ accepted \in 0..MaxVersion
  BY <1>0, NetTypes
<1>4. body \in 0..MaxVersion /\ etag \in 0..MaxVersion
  BY <1>2, <1>3
<1>5. /\ kept' \in [body : 0..MaxVersion, etag : 0..MaxVersion, cache : 0..MaxVersion, highest : 0..MaxVersion]
      /\ kept'.body = body /\ kept'.etag = etag
      /\ kept'.cache = kept.cache /\ kept'.highest = kept.highest
  BY <1>0, <1>2, <1>4 DEF NetTypeOK
<1>6. /\ net' \in [ceiling : Unset..MaxVersion, applied : SUBSET Versions, inUse : SUBSET Versions,
                   announced : SUBSET Versions, booted : BOOLEAN, watching : BOOLEAN,
                   recheck : BOOLEAN]
      /\ net'.ceiling = Unset /\ net'.applied = {}
  <2> DEFINE no == FALSE
  <2>1. /\ net' = [ceiling |-> Unset, applied |-> {}, inUse |-> {}, announced |-> {},
                   booted |-> no, watching |-> no, recheck |-> no]
        /\ no \in BOOLEAN
    BY <1>1 DEF NewProcess
  <2> HIDE DEF no
  <2>2. Unset \in Unset..MaxVersion
    BY <1>3 DEF Unset
  <2> QED BY <2>1, <2>2
<1>7. load' \in [Threads -> LoadRecords] /\ \A u \in Threads : load'[u] = NoLoad
  BY <1>1, NoLoadShape
<1>8. NetTypeOK'
  BY <1>0, <1>1, <1>5, <1>6, <1>7 DEF NetTypeOK, LoadRecords, Places
<1>9. WatchOnly'
  BY <1>7, NoLoadShape DEF WatchOnly, Threads
<1>10. Behind'
  BY <1>0, <1>1, <1>2, <1>3, <1>5, <1>7, NoLoadShape DEF Behind
<1>11. ProfileHonest'
  <2>1. OneLoader' /\ \A u \in Threads : LoadHonest(u)'
    BY <1>7, NoLoadShape DEF OneLoader, LoadHonest, Threads
  <2>2. ~netMixed.profile => TagBehind'
    BY <1>0, <1>2, <1>3, <1>5 DEF ProfileHonest, TagBehind
  <2> QED BY <1>1, <2>1, <2>2 DEF ProfileHonest
<1>12. Admitted'
  BY <1>1, <1>3, <1>6, <1>7, NoLoadShape DEF Admitted, Unset
<1>13. CeilingHonest'
  <2>1. OneWriter' /\ \A u \in Threads : WriterOK(u)'
    BY <1>7, NoLoadShape DEF OneWriter, WriterOK, Writing
  <2>2. NotOlder'
    BY <1>6 DEF NotOlder, Unset
  <2>3. ~netMixed.ceiling => Remembered'
    BY <1>0, <1>1, <1>5 DEF CeilingHonest, Remembered
  <2> QED BY <1>1, <2>1, <2>2, <2>3 DEF CeilingHonest
<1>14. RollsForward
  BY <1>3, <1>6, NothingRolls
<1> QED BY <1>8, <1>9, <1>10, <1>11, <1>12, <1>13, <1>14 DEF NetInductive

\* The network profile starts in its inductive invariant.
LEMMA NetStarts == Init => NetInductive
<1> SUFFICES ASSUME Init PROVE NetInductive
  OBVIOUS
<1>1. PICK s \in Scenarios : NetInit(s.net, s.looked)
  BY DEF Init
<1>2. s.net \in [load : Nat, publish : Nat, fault : Nat]
  BY ScenariosAssumption
<1> DEFINE c == IF s.looked THEN CompiledCeiling ELSE Unset
           no == FALSE
<1>3. /\ published = [profile |-> 1, ceiling |-> 1]
      /\ kept = [body |-> 0, etag |-> 0, cache |-> 0, highest |-> 0]
      /\ net = [ceiling |-> c, applied |-> {}, inUse |-> {}, announced |-> {},
                booted |-> no, watching |-> no, recheck |-> no]
      /\ load = [t \in Threads |-> NoLoad]
      /\ netMixed = [ceiling |-> no, profile |-> no] /\ no \in BOOLEAN
      /\ accepted = 0 /\ netLeft = s.net
  BY <1>1 DEF NetInit, NewProcess
<1>4. c \in {-1, 0}
  BY DEF CompiledCeiling, Unset
<1> HIDE DEF c, no
<1>5. MaxVersion \in Nat /\ MaxVersion >= 1
  BY VersionAssumption
<1>6. load \in [Threads -> LoadRecords] /\ \A u \in Threads : load[u] = NoLoad
  BY <1>3, NoLoadShape
<1>7. NetTypeOK
  <2>1. published \in [profile : Versions, ceiling : Versions]
    BY <1>3, <1>5 DEF Versions
  <2>2. kept \in [body : 0..MaxVersion, etag : 0..MaxVersion, cache : 0..MaxVersion, highest : 0..MaxVersion]
    BY <1>3, <1>5
  <2>3. net \in [ceiling : Unset..MaxVersion, applied : SUBSET Versions, inUse : SUBSET Versions,
                 announced : SUBSET Versions, booted : BOOLEAN, watching : BOOLEAN,
                 recheck : BOOLEAN]
    <3>1. c \in Unset..MaxVersion
      BY <1>4, <1>5 DEF Unset
    <3> QED BY <1>3, <3>1
  <2>4. netMixed \in [ceiling : BOOLEAN, profile : BOOLEAN]
    BY <1>3
  <2>5. accepted \in 0..MaxVersion /\ netLeft \in [load : Nat, publish : Nat, fault : Nat]
    BY <1>2, <1>3, <1>5
  <2> QED BY <1>6, <2>1, <2>2, <2>3, <2>4, <2>5 DEF NetTypeOK, LoadRecords, Places
<1>8. WatchOnly
  BY <1>6, NoLoadShape DEF WatchOnly, Threads
<1>9. Behind
  BY <1>3, <1>6, NoLoadShape DEF Behind
<1>10. ProfileHonest
  BY <1>3, <1>6, NoLoadShape DEF ProfileHonest, OneLoader, TagBehind, LoadHonest, Threads
<1>11. Admitted
  BY <1>3, <1>4, <1>6, NoLoadShape DEF Admitted
<1>12. CeilingHonest
  BY <1>3, <1>4, <1>6, NoLoadShape DEF CeilingHonest, OneWriter, Remembered, NotOlder, WriterOK, Writing
<1> QED BY <1>7, <1>8, <1>9, <1>10, <1>11, <1>12 DEF NetInductive

\* Every step of the process keeps it, and rolls nothing back.
LEMMA NetKeeps == NetInductive /\ [Next]_clientVars => NetInductive' /\ [RollsForward]_netVars
<1> SUFFICES ASSUME NetInductive, [Next]_clientVars PROVE NetInductive' /\ [RollsForward]_netVars
  OBVIOUS
<1>1. CASE UNCHANGED netVars
  BY <1>1 DEF NetInductive, NetTypeOK, WatchOnly, Behind, ProfileHonest, OneLoader, TagBehind,
              LoadHonest, Admitted, CeilingHonest, OneWriter, Remembered, NotOlder, WriterOK, netVars
<1>2. ASSUME NEW t \in Threads,
             \/ Decide(t) \/ WriteCache(t) \/ WriteHighest(t) \/ SetCeiling(t)
             \/ FetchWithCeiling(t) \/ Answered(t) \/ Finish(t) \/ StoreBody(t) \/ StoreEtag(t)
             \/ Apply(t) \/ SetDigestInUse(t)
      PROVE  NetInductive' /\ RollsForward
  BY <1>2, DecideNet, WriteCacheNet, WriteHighestNet, SetCeilingNet, FetchWithCeilingNet,
     AnsweredNet, FinishNet, StoreBodyNet, StoreEtagNet, ApplyNet, SetDigestInUseNet, Zenon
<1>3. CASE CurrentCeiling \/ WatchLoop \/ FreshDigest \/ Publish \/ NetDie
  BY <1>3, CurrentCeilingNet, WatchLoopNet, FreshDigestNet, PublishNet, NetDieNet
<1>4. CASE RecheckSoon /\ UNCHANGED <<published, kept, load, netMixed, accepted, netLeft>>
  BY <1>4, RecheckSoonNet
<1> QED BY <1>1, <1>2, <1>3, <1>4, NetSteps DEF NetNext

\* The inductive invariant of the network profile holds in every reachable state.
THEOREM NetInductiveHolds == Spec => []NetInductive
<1>1. Init => NetInductive
  BY NetStarts
<1>2. NetInductive /\ [Next]_clientVars => NetInductive'
  BY NetKeeps
<1> QED BY <1>1, <1>2, PTL DEF Spec

\* For any versions, loads, faults and restarts, and with everything else the process does
\* going on beside: until the boot fetch and a Refresh overlap, or the body cannot be
\* opened, a 304 stands for the stored body whose etag was sent (FetchWithCeiling,
\* WriteStored).
THEOREM NotModifiedIsStored == Spec => []Unchanged304
<1>1. NetInductive => Unchanged304
  BY DEF NetInductive, ProfileHonest, LoadHonest, Unchanged304
<1> QED BY <1>1, NetInductiveHolds, PTL

\* For any versions, loads, faults and restarts: until two loads overlap over the ceiling's
\* files, or one can write neither, no ceiling older than one that was in force is put in
\* force but the compiled one; and no name is ever redirected that no ceiling in force so
\* far admits (DecideCeiling, LoadCeiling, RedirectFor).
THEOREM CeilingNeverRolls == Spec => NoRollback
<1>1. NetInductive /\ [Next]_clientVars => [RollsForward]_netVars
  BY NetKeeps
<1>2. RollsForward <=>
        /\ net'.ceiling > CompiledCeiling /\ ~netMixed.ceiling => net'.ceiling >= accepted
        /\ \A name \in Versions : RedirectFor(name)' => name \in FamiliesFor(accepted)
  BY DEF RollsForward
<1> QED BY <1>1, <1>2, NetInductiveHolds, PTL DEF Spec, NoRollback

-----------------------------------------------------------------------------
(* The crash reports. *)

\* What a step of the process does to them.
RepNext ==
  \/ Install \/ RepDie \/ (\E policy \in Policies : SetPolicy(policy))
  \/ Record \/ OnTerminate \/ OnSignal
  \/ \E a \in Actors : \/ WriteLog(a) \/ WriteTmp(a) \/ Rename(a) \/ Prune(a)
                       \/ DiscardMeta(a) \/ DiscardLog(a)
  \/ OfferCrashReports \/ (\E yes, remember \in BOOLEAN : BoxAnswered(yes, remember))
  \/ DiscardAll \/ DiscardTmps \/ SendReads \/ PostCrashReport

\* A step of the process does one of these to the reports, or leaves them alone.
LEMMA RepSteps == [Next]_clientVars => [RepNext]_repVars
<1> SUFFICES ASSUME [Next]_clientVars PROVE [RepNext]_repVars
  OBVIOUS
<1>1. CASE Reports
  BY <1>1 DEF Reports, RepNext
<1>2. CASE ProcessStarts
  BY <1>2 DEF ProcessStarts, RepNext
<1>3. CASE ProcessDies
  BY <1>3 DEF ProcessDies, RepNext
<1>4. Network \/ SignInRechecks \/ Web \/ Desktop \/ Delivery \/ UNCHANGED clientVars
      => UNCHANGED repVars
  BY DEF Network, SignInRechecks, Web, Desktop, Delivery, clientVars
<1> QED BY <1>1, <1>2, <1>3, <1>4 DEF Next

RepPlaces == {"idle", "log", "tmp", "rename", "prune", "die", "box", "all", "tmps", "read",
              "post", "meta", "rest"}

ActorRecords == [pc : RepPlaces, id : {0} \cup Ids, todo : SUBSET Ids, prunes : BOOLEAN]

\* The types, one by one.
LEMMA RepTypes ==
  ASSUME RepTypeOK
  PROVE  /\ files.logs \subseteq Ids /\ files.metas \subseteq Ids /\ files.tmps \subseteq Ids
         /\ files.bad \subseteq Ids
         /\ repPast.next \in 1..(MaxReports + 1) /\ repPast.taken \subseteq Ids
         /\ repPast.ever \subseteq Ids /\ repPast.unlogged \subseteq Ids
         /\ actor \in [Actors -> ActorRecords]
         /\ \A a \in Actors : /\ actor[a] \in ActorRecords /\ actor[a].pc \in RepPlaces
                              /\ actor[a].id \in {0} \cup Ids /\ actor[a].todo \subseteq Ids
<1>1. actor \in [Actors -> ActorRecords]
  BY DEF RepTypeOK, ActorRecords, RepPlaces
<1>2. \A a \in Actors : actor[a] \in ActorRecords
  BY <1>1
<1>3. \A a \in Actors : /\ actor[a].pc \in RepPlaces
                        /\ actor[a].id \in {0} \cup Ids /\ actor[a].todo \subseteq Ids
  BY <1>2 DEF ActorRecords
<1>4. /\ files.logs \subseteq Ids /\ files.metas \subseteq Ids /\ files.tmps \subseteq Ids
      /\ files.bad \subseteq Ids
  BY DEF RepTypeOK
<1>5. /\ repPast.next \in 1..(MaxReports + 1) /\ repPast.taken \subseteq Ids
      /\ repPast.ever \subseteq Ids /\ repPast.unlogged \subseteq Ids
  BY DEF RepTypeOK
<1> QED BY <1>1, <1>2, <1>3, <1>4, <1>5

\* Only one actor moves.
ActorMoves(a) ==
  actor' \in [Actors -> ActorRecords] /\ \A u \in Actors \ {a} : actor'[u] = actor[u]

\* An actor that goes on to another place.
LEMMA GoesMoves ==
  ASSUME RepTypeOK, NEW a \in Actors, NEW p \in RepPlaces, Goes(a, p)
  PROVE  /\ ActorMoves(a) /\ actor'[a].pc = p /\ actor'[a].id = actor[a].id
         /\ actor'[a].todo = actor[a].todo /\ actor'[a].prunes = actor[a].prunes
<1>1. actor \in [Actors -> ActorRecords] /\ actor[a] \in ActorRecords
  BY RepTypes
<1>2. actor' = [actor EXCEPT ![a] = [actor[a] EXCEPT !.pc = p]]
  BY DEF Goes
<1> DEFINE r == [actor[a] EXCEPT !.pc = p]
<1>3. /\ r \in ActorRecords /\ r.pc = p /\ r.id = actor[a].id /\ r.todo = actor[a].todo
      /\ r.prunes = actor[a].prunes
  BY <1>1 DEF ActorRecords
<1>4. actor' = [actor EXCEPT ![a] = r]
  BY <1>2
<1> HIDE DEF r
<1> QED BY <1>1, <1>3, <1>4 DEF ActorMoves

SetsOut(a, reports, p) == actor' = [actor EXCEPT ![a].todo = reports, ![a].pc = p]

\* An actor with another list to go through.
LEMMA TodoMoves ==
  ASSUME RepTypeOK, NEW a \in Actors, NEW p \in RepPlaces, NEW reports \in SUBSET Ids,
         SetsOut(a, reports, p)
  PROVE  /\ ActorMoves(a) /\ actor'[a].pc = p /\ actor'[a].id = actor[a].id
         /\ actor'[a].todo = reports /\ actor'[a].prunes = actor[a].prunes
<1>1. actor \in [Actors -> ActorRecords] /\ actor[a] \in ActorRecords
  BY RepTypes
<1> DEFINE r == [actor[a] EXCEPT !.todo = reports, !.pc = p]
<1>2. actor' = [actor EXCEPT ![a] = r]
  BY <1>1 DEF SetsOut
<1>3. /\ r \in ActorRecords /\ r.pc = p /\ r.id = actor[a].id /\ r.todo = reports
      /\ r.prunes = actor[a].prunes
  BY <1>1 DEF ActorRecords
<1> HIDE DEF r
<1> QED BY <1>1, <1>2, <1>3 DEF ActorMoves

\* kMaxPending newer reports have been pending.
Outlived(i) == Cardinality({j \in repPast.ever : j > i}) >= MaxPending

\* A number is given to one report, and a report that is there has been pending.
Filed == files.metas \subseteq repPast.ever /\ repPast.ever \subseteq 1..(repPast.next - 1)

Composing == {"log", "tmp", "rename"}

\* What an actor has in hand: a writer the number of a report nobody has seen, with its log
\* written before its meta; and whoever discards, a report the site has taken, one that was
\* declined, or one that newer ones have outlived.
ActorOK(a) ==
  /\ actor[a].todo \subseteq repPast.ever
  /\ actor[a].pc \in {"box", "read", "post", "meta", "rest"} => actor[a].todo # {}
  /\ actor[a].pc \in Composing =>
       a \in {"host", "fault"} /\ actor[a].id \in 1..(repPast.next - 1) /\ actor[a].id \notin repPast.ever
  /\ actor[a].pc \in {"tmp", "rename"} => actor[a].id \in files.logs \cup repPast.unlogged
  /\ actor[a].pc = "prune" => a \in {"host", "fault"}
  /\ actor[a].pc \in {"meta", "rest"} =>
       \/ a = "prompt"
       \/ a = "sender" /\ First(a) \in repPast.taken
       \/ a \in {"host", "fault"} /\ \A i \in actor[a].todo : Outlived(i)

\* Two writers write two reports.
OwnNumbers ==
  actor["host"].pc \in Composing /\ actor["fault"].pc \in Composing => actor["host"].id # actor["fault"].id

RepInductive == RepTypeOK /\ Filed /\ OwnNumbers /\ \A a \in Actors : ActorOK(a)

\* What ReportsKept says of a step.
KeepsReports ==
  /\ files'.metas \ files.metas \subseteq files.logs \cup repPast.unlogged
  /\ \A id \in files.metas \ files'.metas :
       \/ id \in repPast.taken \/ id \in files.bad \/ id \in Declined
       \/ Cardinality({j \in repPast.ever : j > id}) >= MaxPending

\* The more reports, the more newer ones.
LEMMA MoreNewer ==
  ASSUME NEW T \in SUBSET Ids, NEW S \in SUBSET T, NEW i
  PROVE  /\ Cardinality({j \in S : j > i}) \in Nat /\ Cardinality({j \in T : j > i}) \in Nat
         /\ Cardinality({j \in S : j > i}) <= Cardinality({j \in T : j > i})
<1> DEFINE s == {j \in S : j > i}
           u == {j \in T : j > i}
<1>1. s \in SUBSET u /\ u \in SUBSET Ids
  OBVIOUS
<1> HIDE DEF s, u
<1>2. IsFiniteSet(Ids)
  BY FS_Interval, ReportAssumption DEF Ids
<1>3. IsFiniteSet(u)
  BY <1>1, <1>2, FS_Subset
<1>4. IsFiniteSet(s) /\ Cardinality(s) <= Cardinality(u)
  BY <1>1, <1>3, FS_Subset
<1>5. Cardinality(s) \in Nat /\ Cardinality(u) \in Nat
  BY <1>3, <1>4, FS_CardinalityType
<1> QED BY <1>4, <1>5 DEF s, u

\* The first of a list is of the list.
LEMMA FirstIn ==
  ASSUME RepTypeOK, NEW a \in Actors, actor[a].todo # {}
  PROVE  First(a) \in actor[a].todo /\ First(a) \in Ids
<1>1. actor[a].todo \in SUBSET Nat /\ actor[a].todo \subseteq Ids
  BY RepTypes DEF Ids
<1>2. \E x \in actor[a].todo : \A y \in actor[a].todo : x <= y
  BY <1>1, LeastNumber
<1> QED BY <1>1, <1>2 DEF First, Min

\* An actor that does not move keeps what it has in hand while the history only grows, and
\* neither its log nor its number is taken from it.
LEMMA OthersKeep ==
  ASSUME RepInductive, RepTypeOK', NEW u \in Actors, actor'[u] = actor[u],
         repPast.ever \subseteq repPast'.ever, repPast.taken \subseteq repPast'.taken,
         repPast.unlogged \subseteq repPast'.unlogged, repPast.next <= repPast'.next,
         actor[u].pc \in Composing =>
           /\ actor[u].id \notin repPast'.ever
           /\ actor[u].id \in files.logs => actor[u].id \in files'.logs
  PROVE  ActorOK(u)'
<1>1. ActorOK(u) /\ RepTypeOK
  BY DEF RepInductive
<1>2. repPast.next \in Nat /\ repPast'.next \in Nat /\ repPast'.ever \in SUBSET Ids
  BY <1>1, ReportAssumption DEF RepTypeOK
<1>3. ASSUME NEW i \in actor[u].todo, Outlived(i) PROVE Outlived(i)'
  <2>1. /\ Cardinality({j \in repPast.ever : j > i}) \in Nat /\ Cardinality({j \in repPast'.ever : j > i}) \in Nat
        /\ Cardinality({j \in repPast.ever : j > i}) <= Cardinality({j \in repPast'.ever : j > i})
    BY <1>2, MoreNewer
  <2>2. MaxPending \in Nat
    BY ReportAssumption
  <2> QED BY <1>3, <2>1, <2>2 DEF Outlived
<1>4. First(u)' = First(u)
  BY DEF First
<1>5. actor'[u].todo \subseteq repPast'.ever
      /\ (actor'[u].pc \in {"box", "read", "post", "meta", "rest"} => actor'[u].todo # {})
      /\ (actor'[u].pc = "prune" => u \in {"host", "fault"})
  BY <1>1 DEF ActorOK
<1>6. actor'[u].pc \in Composing =>
        u \in {"host", "fault"} /\ actor'[u].id \in 1..(repPast'.next - 1) /\ actor'[u].id \notin repPast'.ever
  BY <1>1, <1>2 DEF ActorOK
<1>7. actor'[u].pc \in {"tmp", "rename"} => actor'[u].id \in files'.logs \cup repPast'.unlogged
  BY <1>1 DEF ActorOK, Composing
<1>8. actor'[u].pc \in {"meta", "rest"} =>
       \/ u = "prompt"
       \/ u = "sender" /\ First(u)' \in repPast'.taken
       \/ u \in {"host", "fault"} /\ \A i \in actor'[u].todo : Outlived(i)'
  BY <1>1, <1>3, <1>4 DEF ActorOK
<1> QED BY <1>5, <1>6, <1>7, <1>8 DEF ActorOK

\* A step that leaves the metas keeps the reports.
LEMMA MetasStay ==
  ASSUME files'.metas = files.metas
  PROVE  KeepsReports
BY DEF KeepsReports

\* An actor that writes nothing and has nothing to discard is fine.
LEMMA IdleOK ==
  ASSUME NEW a \in Actors, actor'[a].todo \subseteq repPast'.ever,
         actor'[a].pc \in {"idle", "die", "all", "tmps"} \/
           (actor'[a].pc = "prune" /\ a \in {"host", "fault"}) \/
           (actor'[a].pc \in {"box", "read", "post"} /\ actor'[a].todo # {}) \/
           (actor'[a].pc = "meta" /\ a = "prompt" /\ actor'[a].todo # {})
  PROVE  ActorOK(a)'
BY DEF ActorOK, Composing

\* A report begins with the next number.
LEMMA BeginsKeeps ==
  ASSUME RepInductive, NEW a \in {"host", "fault"}, NEW prunes \in BOOLEAN, Begins(a, prunes),
         files' = files, rep' \in [installed : BOOLEAN, never : BOOLEAN, recorded : BOOLEAN, offered : BOOLEAN],
         repLeft' \in [start : Nat, crash : Nat, record : Nat, policy : Nat, fault : Nat]
  PROVE  RepInductive' /\ KeepsReports
<1>0. RepTypeOK /\ Filed /\ OwnNumbers /\ (\A u \in Actors : ActorOK(u)) /\ a \in Actors
  BY DEF RepInductive, Actors
<1> DEFINE r == [pc |-> "log", id |-> repPast.next, todo |-> {}, prunes |-> prunes]
<1>1. /\ repPast.next <= MaxReports /\ actor' = [actor EXCEPT ![a] = r]
      /\ repPast' = [repPast EXCEPT !.next = repPast.next + 1]
  BY DEF Begins
<1>2. repPast.next \in 1..(MaxReports + 1) /\ MaxReports \in Nat /\ repPast.next \in Ids
  BY <1>0, <1>1, RepTypes, ReportAssumption DEF Ids
<1>3. r \in ActorRecords /\ r.pc = "log" /\ r.id = repPast.next /\ r.todo = {}
  BY <1>2 DEF ActorRecords, RepPlaces
<1> HIDE DEF r
<1>4. ActorMoves(a) /\ actor'[a] = r
  BY <1>0, <1>1, <1>3, RepTypes DEF ActorMoves
<1>5. /\ repPast' \in [next : 1..(MaxReports + 1), taken : SUBSET Ids, ever : SUBSET Ids, unlogged : SUBSET Ids]
      /\ repPast'.next = repPast.next + 1 /\ repPast'.ever = repPast.ever
      /\ repPast'.taken = repPast.taken /\ repPast'.unlogged = repPast.unlogged
  BY <1>0, <1>1, <1>2 DEF RepTypeOK
<1>6. RepTypeOK'
  BY <1>0, <1>4, <1>5 DEF RepTypeOK, ActorMoves, ActorRecords, RepPlaces
<1>7. Filed'
  BY <1>0, <1>2, <1>5 DEF Filed
<1>8. ASSUME NEW u \in Actors \ {a} PROVE ActorOK(u)'
  <2>1. actor'[u] = actor[u] /\ ActorOK(u)
    BY <1>0, <1>4 DEF ActorMoves
  <2>2. actor[u].pc \in Composing => actor[u].id \notin repPast'.ever
    BY <1>5, <2>1 DEF ActorOK
  <2>3. repPast.next <= repPast'.next
    BY <1>2, <1>5
  <2> QED BY <1>5, <1>6, <2>1, <2>2, <2>3, OthersKeep
<1>9. ActorOK(a)'
  BY <1>0, <1>2, <1>3, <1>4, <1>5 DEF ActorOK, Filed, Composing
<1>10. OwnNumbers'
  <2>1. ASSUME NEW u \in {"host", "fault"}, u # a, actor[u].pc \in Composing PROVE actor[u].id # repPast.next
    BY <1>0, <1>2, <2>1 DEF ActorOK, Actors
  <2> QED BY <1>0, <1>3, <1>4, <2>1 DEF OwnNumbers, ActorMoves, Actors
<1>11. KeepsReports
  BY MetasStay
<1> QED BY <1>0, <1>6, <1>7, <1>8, <1>9, <1>10, <1>11 DEF RepInductive

FileRecords == [logs : SUBSET Ids, metas : SUBSET Ids, tmps : SUBSET Ids, bad : SUBSET Ids, policy : Policies]
PastRecords == [next : 1..(MaxReports + 1), taken : SUBSET Ids, ever : SUBSET Ids, unlogged : SUBSET Ids]
Budgets == [start : Nat, crash : Nat, record : Nat, policy : Nat, fault : Nat]

\* The step of one actor keeps the invariant when it keeps what the actor has in hand, and
\* takes no log but of a report that has been pending.
LEMMA ActorStep ==
  ASSUME RepInductive, NEW a \in Actors, RepTypeOK', Filed', ActorMoves(a), ActorOK(a)',
         repPast.ever \subseteq repPast'.ever, repPast.taken \subseteq repPast'.taken,
         repPast.unlogged \subseteq repPast'.unlogged, repPast.next = repPast'.next,
         files.logs \ files'.logs \subseteq repPast.ever,
         \A id \in repPast'.ever \ repPast.ever : actor[a].pc \in Composing /\ id = actor[a].id,
         actor'[a].pc \in Composing => actor[a].pc \in Composing /\ actor'[a].id = actor[a].id
  PROVE  RepInductive'
<1>0. RepTypeOK /\ OwnNumbers /\ \A u \in Actors : ActorOK(u)
  BY DEF RepInductive
<1>1. \A u \in Actors : actor[u].pc \in Composing => actor[u].id \notin repPast.ever /\ u \in {"host", "fault"}
  BY <1>0 DEF ActorOK
<1>2. ASSUME NEW u \in Actors \ {a} PROVE ActorOK(u)'
  <2>1. actor'[u] = actor[u]
    BY DEF ActorMoves
  <2>2. ASSUME actor[u].pc \in Composing
        PROVE  /\ actor[u].id \notin repPast'.ever
               /\ actor[u].id \in files.logs => actor[u].id \in files'.logs
    <3>1. actor[a].pc \in Composing => actor[u].id # actor[a].id
      BY <1>0, <1>1, <2>2 DEF OwnNumbers
    <3> QED BY <1>1, <2>2, <3>1
  <2>3. repPast.next <= repPast'.next
    BY <1>0, RepTypes
  <2> QED BY <2>1, <2>2, <2>3, OthersKeep
<1>3. OwnNumbers'
  <2>1. \A u \in {"host", "fault"} :
          actor'[u].pc \in Composing => actor[u].pc \in Composing /\ actor'[u].id = actor[u].id
    BY DEF ActorMoves, Actors
  <2> QED BY <1>0, <2>1 DEF OwnNumbers
<1> QED BY <1>2, <1>3 DEF RepInductive

\* A step of no actor.
LEMMA ActorsStay ==
  ASSUME RepInductive, RepTypeOK', actor' = actor, repPast' = repPast,
         files'.logs = files.logs, files'.metas = files.metas
  PROVE  RepInductive' /\ KeepsReports
<1>1. Filed' /\ OwnNumbers'
  BY DEF RepInductive, Filed, OwnNumbers
<1>2. ASSUME NEW u \in Actors PROVE ActorOK(u)'
  BY DEF RepInductive, ActorOK, Outlived, First
<1>3. KeepsReports
  BY MetasStay
<1> QED BY <1>1, <1>2, <1>3 DEF RepInductive

\* An event is paid for.
LEMMA Paid ==
  ASSUME RepTypeOK, NEW kind, Costs(kind)
  PROVE  repLeft' \in Budgets
BY DEF RepTypeOK, Costs, Budgets

\* The process starts, and a policy is set.
LEMMA InstallKeeps ==
  ASSUME RepInductive, Install \/ \E policy \in Policies : SetPolicy(policy)
  PROVE  RepInductive' /\ KeepsReports
<1>0. RepTypeOK
  BY DEF RepInductive
<1>1. CASE Install
  <2> DEFINE never == files.policy = "never"
             yes == TRUE
  <2>1. rep' = [rep EXCEPT !.installed = yes, !.never = never] /\ files' = files /\ actor' = actor
        /\ repPast' = repPast /\ Costs("start")
    BY <1>1 DEF Install
  <2>2. never \in BOOLEAN /\ yes \in BOOLEAN
    OBVIOUS
  <2> HIDE DEF never, yes
  <2>3. rep' \in [installed : BOOLEAN, never : BOOLEAN, recorded : BOOLEAN, offered : BOOLEAN]
    BY <1>0, <2>1, <2>2 DEF RepTypeOK
  <2>4. repLeft' \in Budgets
    BY <1>0, <2>1, Paid
  <2>5. RepTypeOK'
    BY <1>0, <2>1, <2>3, <2>4 DEF RepTypeOK, Budgets
  <2> QED BY <2>1, <2>5, ActorsStay
<1>2. ASSUME NEW policy \in Policies, SetPolicy(policy) PROVE RepInductive' /\ KeepsReports
  <2> DEFINE never == policy = "never"
  <2>1. /\ rep' = [rep EXCEPT !.never = never] /\ files' = [files EXCEPT !.policy = policy]
        /\ actor' = actor /\ repPast' = repPast /\ Costs("policy")
    BY <1>2 DEF SetPolicy, Keeps
  <2>2. never \in BOOLEAN
    OBVIOUS
  <2> HIDE DEF never
  <2>3. rep' \in [installed : BOOLEAN, never : BOOLEAN, recorded : BOOLEAN, offered : BOOLEAN]
    BY <1>0, <2>1, <2>2 DEF RepTypeOK
  <2>4. files' \in FileRecords /\ files'.logs = files.logs /\ files'.metas = files.metas
    BY <1>0, <2>1 DEF RepTypeOK, FileRecords
  <2>5. repLeft' \in Budgets
    BY <1>0, <2>1, Paid
  <2>6. RepTypeOK'
    BY <1>0, <2>1, <2>3, <2>4, <2>5 DEF RepTypeOK, Budgets, FileRecords
  <2> QED BY <2>1, <2>4, <2>6, ActorsStay
<1> QED BY <1>1, <1>2

\* The process dies: nobody has anything in hand.
LEMMA RepDieKeeps ==
  ASSUME RepInductive, RepDie
  PROVE  RepInductive' /\ KeepsReports
<1>0. RepTypeOK /\ Filed
  BY DEF RepInductive
<1>1. /\ rep' = NotRunning /\ actor' = [a \in Actors |-> Idle] /\ files' = files /\ repPast' = repPast
      /\ repLeft' = repLeft \/ Costs("crash")
  BY DEF RepDie
<1> DEFINE no == FALSE
<1>2. Idle = [pc |-> "idle", id |-> 0, todo |-> {}, prunes |-> no] /\ no \in BOOLEAN
      /\ rep' = [installed |-> no, never |-> no, recorded |-> no, offered |-> no]
  BY <1>1 DEF Idle, NotRunning
<1> HIDE DEF no
<1>3. Idle \in ActorRecords /\ Idle.pc = "idle" /\ Idle.todo = {}
  BY <1>2 DEF ActorRecords, RepPlaces
<1>4. actor' \in [Actors -> ActorRecords] /\ \A a \in Actors : actor'[a].pc = "idle" /\ actor'[a].todo = {}
  BY <1>1, <1>3
<1>5. repLeft' \in Budgets
  BY <1>0, <1>1, Paid DEF RepTypeOK, Budgets
<1>6. rep' \in [installed : BOOLEAN, never : BOOLEAN, recorded : BOOLEAN, offered : BOOLEAN]
  BY <1>2
<1>7. RepTypeOK'
  BY <1>0, <1>1, <1>4, <1>5, <1>6 DEF RepTypeOK, Budgets, ActorRecords, RepPlaces
<1>8. Filed' /\ OwnNumbers'
  BY <1>0, <1>1, <1>4 DEF Filed, OwnNumbers, Actors, Composing
<1>9. \A a \in Actors : ActorOK(a)'
  BY <1>4, IdleOK
<1>10. KeepsReports
  BY <1>1, MetasStay
<1> QED BY <1>7, <1>8, <1>9, <1>10 DEF RepInductive

\* A report is begun by the host, or by a fault, which ends the process if it has begun one.
LEMMA RecordKeeps ==
  ASSUME RepInductive, Record \/ OnTerminate \/ OnSignal
  PROVE  RepInductive' /\ KeepsReports
<1>0. RepTypeOK /\ Filed
  BY DEF RepInductive
<1>1. CASE Record
  <2>1. Begins("host", TRUE) /\ files' = files /\ rep' = rep /\ Costs("record")
    BY <1>1 DEF Record
  <2>2. repLeft' \in Budgets
    BY <1>0, <2>1, Paid
  <2> QED BY <1>0, <2>1, <2>2, BeginsKeeps DEF RepTypeOK, Budgets
<1>2. ASSUME NEW prunes \in BOOLEAN, Faults(prunes) PROVE RepInductive' /\ KeepsReports
  <2> DEFINE yes == TRUE
  <2>1. /\ rep' = [rep EXCEPT !.recorded = yes] /\ files' = files /\ Costs("crash")
        /\ \/ Goes("fault", "die") /\ repPast' = repPast
           \/ Begins("fault", prunes)
    BY <1>2 DEF Faults
  <2>2. yes \in BOOLEAN
    OBVIOUS
  <2> HIDE DEF yes
  <2>3. rep' \in [installed : BOOLEAN, never : BOOLEAN, recorded : BOOLEAN, offered : BOOLEAN]
    BY <1>0, <2>1, <2>2 DEF RepTypeOK
  <2>4. repLeft' \in Budgets
    BY <1>0, <2>1, Paid
  <2>5. CASE Begins("fault", prunes)
    BY <2>1, <2>3, <2>4, <2>5, BeginsKeeps DEF Budgets
  <2>6. CASE Goes("fault", "die") /\ repPast' = repPast
    <3>1. "fault" \in Actors /\ "die" \in RepPlaces
      BY DEF Actors, RepPlaces
    <3>2. ActorMoves("fault") /\ actor'["fault"].pc = "die" /\ actor'["fault"].todo = actor["fault"].todo
      BY <1>0, <2>6, <3>1, GoesMoves
    <3>3. RepTypeOK'
      BY <1>0, <2>1, <2>3, <2>4, <2>6, <3>2 DEF RepTypeOK, Budgets, ActorMoves, ActorRecords, RepPlaces
    <3>4. Filed'
      BY <1>0, <2>1, <2>6 DEF Filed
    <3>5. ActorOK("fault")'
      BY <2>6, <3>1, <3>2, IdleOK DEF RepInductive, ActorOK
    <3>6. RepInductive'
      BY <2>1, <2>6, <3>1, <3>2, <3>3, <3>4, <3>5, ActorStep DEF Composing
    <3> QED BY <2>1, <3>6, MetasStay
  <2> QED BY <2>1, <2>5, <2>6
<1> QED BY <1>1, <1>2 DEF OnTerminate, OnSignal

\* The log is written, or could not be.
LEMMA WriteLogKeeps ==
  ASSUME RepInductive, NEW a \in Actors, WriteLog(a)
  PROVE  RepInductive' /\ KeepsReports
<1>0. RepTypeOK /\ Filed /\ ActorOK(a)
  BY DEF RepInductive
<1>1. /\ actor[a].pc = "log" /\ Goes(a, "tmp") /\ rep' = rep
      /\ \/ /\ files' = [files EXCEPT !.logs = files.logs \cup {actor[a].id}]
            /\ repPast' = repPast /\ repLeft' = repLeft
         \/ /\ Costs("fault") /\ files' = files
            /\ repPast' = [repPast EXCEPT !.unlogged = repPast.unlogged \cup {actor[a].id}]
  BY DEF WriteLog
<1>2. actor[a].id \in Ids /\ a \in {"host", "fault"} /\ actor[a].id \notin repPast.ever
      /\ actor[a].id \in 1..(repPast.next - 1)
  BY <1>0, <1>1, RepTypes, ReportAssumption DEF ActorOK, Composing, Ids
<1>3. /\ ActorMoves(a) /\ actor'[a].pc = "tmp" /\ actor'[a].id = actor[a].id
      /\ actor'[a].todo = actor[a].todo
  <2>1. "tmp" \in RepPlaces
    BY DEF RepPlaces
  <2> QED BY <1>0, <1>1, <2>1, GoesMoves
<1>4. repLeft' \in Budgets
  BY <1>0, <1>1, Paid DEF RepTypeOK, Budgets
<1>5. /\ files' \in FileRecords /\ repPast' \in PastRecords
      /\ files'.metas = files.metas /\ repPast'.ever = repPast.ever /\ repPast'.taken = repPast.taken
      /\ repPast'.next = repPast.next /\ files.logs \subseteq files'.logs
      /\ repPast.unlogged \subseteq repPast'.unlogged
      /\ actor[a].id \in files'.logs \cup repPast'.unlogged
  BY <1>0, <1>1, <1>2 DEF RepTypeOK, FileRecords, PastRecords
<1>6. RepTypeOK'
  BY <1>0, <1>1, <1>3, <1>4, <1>5
     DEF RepTypeOK, Budgets, FileRecords, PastRecords, ActorMoves, ActorRecords, RepPlaces
<1>7. Filed'
  BY <1>0, <1>5 DEF Filed
<1>8. ActorOK(a)'
  BY <1>0, <1>2, <1>3, <1>5 DEF ActorOK, Composing
<1>9. RepInductive'
  BY <1>1, <1>3, <1>5, <1>6, <1>7, <1>8, ActorStep DEF Composing
<1> QED BY <1>5, <1>9, MetasStay

\* The meta is written aside, whole or cut short.
LEMMA WriteTmpKeeps ==
  ASSUME RepInductive, NEW a \in Actors, WriteTmp(a)
  PROVE  RepInductive' /\ KeepsReports
<1>0. RepTypeOK /\ Filed /\ ActorOK(a)
  BY DEF RepInductive
<1>1. /\ actor[a].pc = "tmp" /\ Goes(a, "rename") /\ rep' = rep /\ repPast' = repPast
      /\ \/ files' = BuildMeta(actor[a].id, TRUE) /\ repLeft' = repLeft
         \/ files' = BuildMeta(actor[a].id, FALSE) /\ Costs("fault")
  BY DEF WriteTmp
<1>2. actor[a].id \in Ids
  BY <1>0, <1>1, RepTypes, ReportAssumption DEF ActorOK, Composing, Ids
<1>3. /\ ActorMoves(a) /\ actor'[a].pc = "rename" /\ actor'[a].id = actor[a].id
      /\ actor'[a].todo = actor[a].todo
  <2>1. "rename" \in RepPlaces
    BY DEF RepPlaces
  <2> QED BY <1>0, <1>1, <2>1, GoesMoves
<1>4. repLeft' \in Budgets
  BY <1>0, <1>1, Paid DEF RepTypeOK, Budgets
<1>5. files' \in FileRecords /\ files'.metas = files.metas /\ files'.logs = files.logs
  <2>1. PICK bad \in SUBSET Ids : files' = [files EXCEPT !.tmps = files.tmps \cup {actor[a].id}, !.bad = bad]
    <3>1. files.bad \in SUBSET Ids /\ files.bad \cup {actor[a].id} \in SUBSET Ids
      BY <1>0, <1>2, RepTypes
    <3>2. CASE files' = BuildMeta(actor[a].id, TRUE)
      BY <3>1, <3>2 DEF BuildMeta
    <3>3. CASE files' = BuildMeta(actor[a].id, FALSE)
      BY <3>1, <3>3 DEF BuildMeta
    <3> QED BY <1>1, <3>2, <3>3
  <2> QED BY <1>0, <1>2, <2>1 DEF RepTypeOK, FileRecords
<1>6. RepTypeOK'
  BY <1>0, <1>1, <1>3, <1>4, <1>5
     DEF RepTypeOK, Budgets, FileRecords, ActorMoves, ActorRecords, RepPlaces
<1>7. Filed'
  BY <1>0, <1>1, <1>5 DEF Filed
<1>8. ActorOK(a)'
  BY <1>0, <1>1, <1>3, <1>5 DEF ActorOK, Composing
<1>9. RepInductive'
  BY <1>1, <1>3, <1>5, <1>6, <1>7, <1>8, ActorStep DEF Composing
<1> QED BY <1>5, <1>9, MetasStay

\* The meta is renamed in, unless its tmp was thrown away: the report appears.
LEMMA RenameKeeps ==
  ASSUME RepInductive, NEW a \in Actors, Rename(a)
  PROVE  RepInductive' /\ KeepsReports
<1> DEFINE there == files.tmps \cap {actor[a].id}
           p == IF actor[a].prunes THEN "prune" ELSE "die"
<1>0. RepTypeOK /\ Filed /\ ActorOK(a)
  BY DEF RepInductive
<1>1. /\ actor[a].pc = "rename" /\ Goes(a, p) /\ rep' = rep /\ repLeft' = repLeft
      /\ files' = [files EXCEPT !.tmps = files.tmps \ there, !.metas = files.metas \cup there]
      /\ repPast' = [repPast EXCEPT !.ever = repPast.ever \cup there]
  BY DEF Rename
<1>2. /\ actor[a].id \in Ids /\ a \in {"host", "fault"} /\ actor[a].id \in 1..(repPast.next - 1)
      /\ actor[a].id \in files.logs \cup repPast.unlogged
  BY <1>0, <1>1, RepTypes, ReportAssumption DEF ActorOK, Composing, Ids
<1>3. there \subseteq {actor[a].id} /\ there \subseteq Ids
  BY <1>2
<1>4. p \in RepPlaces /\ p \in {"prune", "die"}
  BY DEF RepPlaces
<1> HIDE DEF there, p
<1>5. ActorMoves(a) /\ actor'[a].pc = p /\ actor'[a].todo = actor[a].todo
  BY <1>0, <1>1, <1>4, GoesMoves
<1>6. /\ files' \in FileRecords /\ repPast' \in PastRecords
      /\ files'.metas = files.metas \cup there /\ files'.logs = files.logs
      /\ repPast'.ever = repPast.ever \cup there /\ repPast'.taken = repPast.taken
      /\ repPast'.next = repPast.next /\ repPast'.unlogged = repPast.unlogged
  BY <1>0, <1>1, <1>3 DEF RepTypeOK, FileRecords, PastRecords
<1>7. RepTypeOK'
  BY <1>0, <1>1, <1>5, <1>6
     DEF RepTypeOK, FileRecords, PastRecords, ActorMoves, ActorRecords, RepPlaces
<1>8. Filed'
  BY <1>0, <1>2, <1>3, <1>6 DEF Filed
<1>9. ActorOK(a)'
  <2>1. actor'[a].todo \subseteq repPast'.ever
    BY <1>0, <1>5, <1>6 DEF ActorOK
  <2> QED BY <1>2, <1>4, <1>5, <2>1, IdleOK
<1>10. RepInductive'
  <2>1. \A id \in repPast'.ever \ repPast.ever : actor[a].pc \in Composing /\ id = actor[a].id
    BY <1>1, <1>3, <1>6 DEF Composing
  <2> QED BY <1>4, <1>5, <1>6, <1>7, <1>8, <1>9, <2>1, ActorStep DEF Composing
<1>11. KeepsReports
  BY <1>2, <1>3, <1>6 DEF KeepsReports
<1> QED BY <1>10, <1>11

\* Listing the directory throws away the metas that do not parse, with their logs.
LEMMA SweptFiles ==
  ASSUME RepInductive, files' = Swept
  PROVE  /\ files' \in FileRecords /\ files'.metas = files.metas \ files.bad
         /\ files.logs \ files'.logs \subseteq repPast.ever
         /\ KeepsReports
         /\ Pending \subseteq Ids /\ Pending \subseteq repPast.ever
<1>0. RepTypeOK /\ Filed
  BY DEF RepInductive
<1>1. /\ files' \in FileRecords /\ files'.metas = files.metas \ files.bad
      /\ files'.logs = files.logs \ (files.metas \cap files.bad)
  BY <1>0 DEF RepTypeOK, FileRecords, Swept
<1>2. Pending \subseteq Ids /\ Pending \subseteq repPast.ever
  BY <1>0, RepTypes DEF Pending, Filed
<1>3. KeepsReports
  BY <1>1 DEF KeepsReports
<1> QED BY <1>0, <1>1, <1>2, <1>3 DEF Filed

\* Whoever goes through a list it took from the directory.
LEMMA ThroughKeeps ==
  ASSUME RepInductive, NEW a \in Actors, files' = Swept, NEW reports \in SUBSET Pending,
         GoesThrough(a, reports), repPast' = repPast, repLeft' = repLeft,
         rep' \in [installed : BOOLEAN, never : BOOLEAN, recorded : BOOLEAN, offered : BOOLEAN],
         a = "prompt" \/ (a \in {"host", "fault"} /\ \A i \in reports : Outlived(i))
  PROVE  RepInductive' /\ KeepsReports
<1> DEFINE p == IF reports = {} THEN Done(a) ELSE "meta"
<1>0. RepTypeOK /\ Filed /\ ActorOK(a)
  BY DEF RepInductive
<1>1. /\ files' \in FileRecords /\ files'.metas = files.metas \ files.bad
      /\ files.logs \ files'.logs \subseteq repPast.ever
      /\ KeepsReports
      /\ Pending \subseteq Ids /\ Pending \subseteq repPast.ever
  BY SweptFiles
<1>2. reports \in SUBSET Ids /\ reports \subseteq repPast.ever
  BY <1>1
<1>3. /\ p \in RepPlaces /\ p \in {"die", "tmps", "idle", "meta"}
      /\ p = "meta" => reports # {}
  BY DEF RepPlaces, Done
<1>4. ActorMoves(a) /\ actor'[a].pc = p /\ actor'[a].todo = reports
  <2>1. SetsOut(a, reports, p)
    BY DEF GoesThrough, SetsOut
  <2>2. p \in RepPlaces /\ reports \in SUBSET Ids /\ RepTypeOK
    BY <1>0, <1>2, <1>3
  <2> HIDE DEF p
  <2> QED BY <2>1, <2>2, TodoMoves
<1> HIDE DEF p
<1>5. RepTypeOK'
  BY <1>0, <1>1, <1>4 DEF RepTypeOK, FileRecords, ActorMoves, ActorRecords, RepPlaces
<1>6. Filed'
  BY <1>0, <1>1 DEF Filed
<1>7. ActorOK(a)'
  BY <1>2, <1>3, <1>4 DEF ActorOK, Composing, Outlived
<1>8. RepInductive'
  <2>1. actor'[a].pc \notin Composing
    BY <1>3, <1>4 DEF Composing
  <2> QED BY <1>1, <1>4, <1>5, <1>6, <1>7, <2>1, ActorStep
<1> QED BY <1>1, <1>8

\* Prune lists the reports that kMaxPending newer ones outlive; DiscardAll lists them all.
LEMMA PruneKeeps ==
  ASSUME RepInductive, (\E a \in Actors : Prune(a)) \/ DiscardAll
  PROVE  RepInductive' /\ KeepsReports
<1>0. RepTypeOK
  BY DEF RepInductive
<1>1. ASSUME NEW a \in Actors, Prune(a) PROVE RepInductive' /\ KeepsReports
  <2>1. /\ actor[a].pc = "prune" /\ GoesThrough(a, Victims(Pending)) /\ files' = Swept
        /\ rep' = rep /\ repPast' = repPast /\ repLeft' = repLeft
    BY <1>1 DEF Prune
  <2>2. a \in {"host", "fault"}
    BY <2>1 DEF RepInductive, ActorOK
  <2>3. Victims(Pending) \in SUBSET Pending
    BY DEF Victims
  <2>4. ASSUME NEW i \in Victims(Pending) PROVE Outlived(i)
    <3>1. Pending \in SUBSET repPast.ever /\ repPast.ever \in SUBSET Ids
      BY <1>0, <2>1, SweptFiles, RepTypes
    <3>2. /\ Cardinality({j \in Pending : j > i}) \in Nat /\ Cardinality({j \in repPast.ever : j > i}) \in Nat
          /\ Cardinality({j \in Pending : j > i}) <= Cardinality({j \in repPast.ever : j > i})
      BY <3>1, MoreNewer
    <3>3. Cardinality({j \in Pending : j > i}) >= MaxPending
      BY DEF Victims
    <3>4. MaxPending \in Nat
      BY ReportAssumption
    <3> QED BY <3>2, <3>3, <3>4 DEF Outlived
  <2> QED BY <1>0, <2>1, <2>2, <2>3, <2>4, ThroughKeeps DEF RepTypeOK
<1>2. CASE DiscardAll
  <2>1. /\ GoesThrough("prompt", Pending) /\ files' = Swept
        /\ rep' = rep /\ repPast' = repPast /\ repLeft' = repLeft /\ "prompt" \in Actors
    BY <1>2 DEF DiscardAll, Actors
  <2>2. Pending \in SUBSET Pending
    OBVIOUS
  <2> QED BY <1>0, <2>1, <2>2, ThroughKeeps DEF RepTypeOK
<1> QED BY <1>1, <1>2

\* Discard removes the meta of a report that may go.
LEMMA DiscardMetaKeeps ==
  ASSUME RepInductive, NEW a \in Actors, DiscardMeta(a)
  PROVE  RepInductive' /\ KeepsReports
<1>0. RepTypeOK /\ Filed /\ ActorOK(a)
  BY DEF RepInductive
<1>1. /\ actor[a].pc = "meta" /\ Goes(a, "rest") /\ rep' = rep /\ repPast' = repPast /\ repLeft' = repLeft
      /\ files' = [files EXCEPT !.metas = files.metas \ {First(a)}]
  BY DEF DiscardMeta
<1>2. /\ ActorMoves(a) /\ actor'[a].pc = "rest" /\ actor'[a].todo = actor[a].todo
  <2>1. "rest" \in RepPlaces
    BY DEF RepPlaces
  <2> QED BY <1>0, <1>1, <2>1, GoesMoves
<1>3. First(a)' = First(a)
  BY <1>2 DEF First
<1>4. files' \in FileRecords /\ files'.metas = files.metas \ {First(a)} /\ files'.logs = files.logs
  BY <1>0, <1>1 DEF RepTypeOK, FileRecords
<1>5. RepTypeOK'
  BY <1>0, <1>1, <1>2, <1>4 DEF RepTypeOK, FileRecords, ActorMoves, ActorRecords, RepPlaces
<1>6. Filed'
  BY <1>0, <1>1, <1>4 DEF Filed
<1>7. ActorOK(a)'
  BY <1>0, <1>1, <1>2, <1>3 DEF ActorOK, Composing, Outlived
<1>8. RepInductive'
  BY <1>1, <1>2, <1>4, <1>5, <1>6, <1>7, ActorStep DEF Composing
<1>9. KeepsReports
  <2>1. First(a) \in actor[a].todo
    BY <1>0, <1>1, FirstIn DEF ActorOK
  <2>2. First(a) \in repPast.taken \/ First(a) \in Declined \/ Outlived(First(a))
    BY <1>0, <1>1, <2>1 DEF ActorOK, Declined
  <2> QED BY <1>4, <2>2 DEF KeepsReports, Outlived
<1> QED BY <1>8, <1>9

\* An actor is done with the first of its list, and goes on to the next.
LEMMA PassesMoves ==
  ASSUME RepInductive, NEW a \in Actors, Passes(a), actor[a].pc \in {"read", "post", "rest"},
         a # "sender" => actor[a].pc = "rest", repPast'.ever = repPast.ever
  PROVE  /\ ActorMoves(a) /\ actor'[a].pc \notin Composing
         /\ ActorOK(a)'
<1> DEFINE rest == actor[a].todo \ {First(a)}
           loop == IF a = "sender" THEN "read" ELSE "meta"
           p == IF rest = {} THEN Done(a) ELSE loop
<1>0. RepTypeOK /\ ActorOK(a) /\ rest \in SUBSET Ids
  BY RepTypes DEF RepInductive
<1>1. /\ SetsOut(a, rest, p) /\ p \in RepPlaces
      /\ p \in {"die", "tmps", "idle", "read", "meta"}
      /\ p = "read" => rest # {}
      /\ p = "meta" => rest # {} /\ a # "sender"
  <2>1. SetsOut(a, rest, p)
    BY DEF Passes, SetsOut
  <2> QED BY <2>1 DEF Done, RepPlaces
<1> HIDE DEF p
<1>2. ActorMoves(a) /\ actor'[a].pc = p /\ actor'[a].todo = rest
  BY <1>0, <1>1, TodoMoves
<1>3. rest \subseteq actor[a].todo /\ rest \subseteq repPast.ever
  BY <1>0 DEF ActorOK
<1> HIDE DEF rest
<1>4. actor'[a].pc \notin Composing
  BY <1>1, <1>2 DEF Composing
<1>5. ActorOK(a)'
  BY <1>0, <1>1, <1>2, <1>3, <1>4 DEF ActorOK, Outlived, Composing, Actors
<1> QED BY <1>2, <1>4, <1>5

\* Discard removes the log after the meta.
LEMMA DiscardLogKeeps ==
  ASSUME RepInductive, NEW a \in Actors, DiscardLog(a)
  PROVE  RepInductive' /\ KeepsReports
<1>0. RepTypeOK /\ Filed /\ ActorOK(a)
  BY DEF RepInductive
<1>1. /\ actor[a].pc = "rest" /\ Passes(a) /\ rep' = rep /\ repPast' = repPast /\ repLeft' = repLeft
      /\ files' = [files EXCEPT !.logs = files.logs \ {First(a)}]
  BY DEF DiscardLog
<1>2. ActorMoves(a) /\ actor'[a].pc \notin Composing /\ ActorOK(a)'
  BY <1>1, PassesMoves
<1>3. files' \in FileRecords /\ files'.metas = files.metas /\ files'.logs = files.logs \ {First(a)}
  BY <1>0, <1>1 DEF RepTypeOK, FileRecords
<1>4. First(a) \in repPast.ever
  BY <1>0, <1>1, FirstIn DEF ActorOK
<1>5. RepTypeOK'
  BY <1>0, <1>1, <1>2, <1>3 DEF RepTypeOK, FileRecords, ActorMoves, ActorRecords, RepPlaces
<1>6. Filed'
  BY <1>0, <1>1, <1>3 DEF Filed
<1>7. RepInductive'
  BY <1>1, <1>2, <1>3, <1>4, <1>5, <1>6, ActorStep
<1> QED BY <1>3, <1>7, MetasStay
RepRecords == [installed : BOOLEAN, never : BOOLEAN, recorded : BOOLEAN, offered : BOOLEAN]

\* The prompt or the sender takes the list of the reports and goes to a place where nothing
\* is discarded yet.
LEMMA TakesList ==
  ASSUME RepInductive, NEW a \in Actors, a \in {"prompt", "sender"}, files' = Swept,
         NEW reports \in SUBSET Ids, reports = Pending, reports # {},
         NEW p \in {"box", "read"}, ActorMoves(a), actor'[a].pc = p, actor'[a].todo = reports,
         repPast' = repPast, repLeft' = repLeft, rep' \in RepRecords
  PROVE  RepInductive' /\ KeepsReports
<1>0. RepTypeOK /\ Filed
  BY DEF RepInductive
<1>1. /\ files' \in FileRecords /\ files'.metas = files.metas \ files.bad
      /\ files.logs \ files'.logs \subseteq repPast.ever
      /\ KeepsReports
      /\ reports \subseteq repPast.ever
  BY SweptFiles
<1>2. RepTypeOK'
  BY <1>0, <1>1 DEF RepTypeOK, FileRecords, RepRecords, ActorMoves, ActorRecords, RepPlaces
<1>3. Filed'
  BY <1>0, <1>1 DEF Filed
<1>4. ActorOK(a)'
  BY <1>0, <1>1, IdleOK
<1>5. RepInductive'
  <2>1. actor'[a].pc \notin Composing
    BY DEF Composing
  <2> QED BY <1>0, <1>1, <1>2, <1>3, <1>4, <2>1, ActorStep
<1> QED BY <1>1, <1>5

\* OfferCrashReports lists the reports, and asks about them, sends them or discards them.
LEMMA OfferKeeps ==
  ASSUME RepInductive, OfferCrashReports
  PROVE  RepInductive' /\ KeepsReports
<1> DEFINE yes == TRUE
<1>0. RepTypeOK /\ Filed
  BY DEF RepInductive
<1>1. /\ rep' = [rep EXCEPT !.offered = yes] /\ files' = Swept /\ repPast' = repPast /\ repLeft' = repLeft
      /\ \/ actor' = actor
         \/ GoesThrough("prompt", Pending)
         \/ Pending # {} /\ SetsOut("prompt", Pending, "box")
         \/ Pending # {} /\ SetsOut("sender", Pending, "read")
  BY DEF OfferCrashReports, SetsOut
<1>2. yes \in BOOLEAN
  OBVIOUS
<1> HIDE DEF yes
<1>3. rep' \in RepRecords
  BY <1>0, <1>1, <1>2 DEF RepTypeOK, RepRecords
<1>4. CASE actor' = actor
  <2>1. /\ files' \in FileRecords /\ files'.metas = files.metas \ files.bad
        /\ files.logs \ files'.logs \subseteq repPast.ever
        /\ KeepsReports
    BY <1>1, SweptFiles
  <2>2. RepTypeOK'
    BY <1>0, <1>1, <1>3, <1>4, <2>1 DEF RepTypeOK, FileRecords, RepRecords
  <2>3. Filed' /\ OwnNumbers'
    BY <1>0, <1>1, <1>4, <2>1 DEF Filed, OwnNumbers, RepInductive
  <2>4. ASSUME NEW u \in Actors PROVE ActorOK(u)'
    <3>1. actor[u].pc \in Composing => actor[u].id \notin repPast.ever
      BY DEF RepInductive, ActorOK
    <3>2. repPast.next <= repPast'.next
      BY <1>0, <1>1, RepTypes
    <3> QED BY <1>1, <1>4, <2>1, <2>2, <3>1, <3>2, OthersKeep
  <2> QED BY <2>1, <2>2, <2>3, <2>4 DEF RepInductive
<1>5. CASE GoesThrough("prompt", Pending)
  <2>1. "prompt" \in Actors /\ Pending \in SUBSET Pending
    BY DEF Actors
  <2> QED BY <1>1, <1>3, <1>5, <2>1, ThroughKeeps DEF RepRecords
<1>6. CASE Pending # {} /\ SetsOut("prompt", Pending, "box")
  <2>1. "prompt" \in Actors /\ "box" \in RepPlaces /\ Pending \in SUBSET Ids
    BY <1>1, SweptFiles DEF Actors, RepPlaces
  <2>2. ActorMoves("prompt") /\ actor'["prompt"].pc = "box" /\ actor'["prompt"].todo = Pending
    BY <1>0, <1>6, <2>1, TodoMoves
  <2> QED BY <1>1, <1>3, <1>6, <2>1, <2>2, TakesList
<1>7. CASE Pending # {} /\ SetsOut("sender", Pending, "read")
  <2>1. "sender" \in Actors /\ "read" \in RepPlaces /\ Pending \in SUBSET Ids
    BY <1>1, SweptFiles DEF Actors, RepPlaces
  <2>2. ActorMoves("sender") /\ actor'["sender"].pc = "read" /\ actor'["sender"].todo = Pending
    BY <1>0, <1>7, <2>1, TodoMoves
  <2> QED BY <1>1, <1>3, <1>7, <2>1, <2>2, TakesList
<1> QED BY <1>1, <1>4, <1>5, <1>6, <1>7

\* The answer to the box hands the list to the sender, or has the directory read again.
LEMMA BoxKeeps ==
  ASSUME RepInductive, NEW yes \in BOOLEAN, NEW remember \in BOOLEAN, BoxAnswered(yes, remember)
  PROVE  RepInductive' /\ KeepsReports
<1>0. RepTypeOK /\ Filed /\ OwnNumbers /\ ActorOK("prompt") /\ "prompt" \in Actors /\ "sender" \in Actors
  BY DEF RepInductive, Actors
<1>1. /\ actor["prompt"].pc = "box" /\ repPast' = repPast /\ repLeft' = repLeft
      /\ \/ Keeps("always") \/ Keeps("never") \/ (files' = files /\ rep' = rep)
      /\ \/ actor' = [actor EXCEPT !["prompt"] = Idle, !["sender"].todo = actor["prompt"].todo,
                                   !["sender"].pc = "read"]
         \/ actor' = [actor EXCEPT !["prompt"] = [Idle EXCEPT !.pc = "all"]]
  BY DEF BoxAnswered
<1>2. ASSUME NEW policy \in Policies, Keeps(policy)
      PROVE  /\ files' \in FileRecords /\ files'.logs = files.logs /\ files'.metas = files.metas
             /\ rep' \in RepRecords
  <2> DEFINE never == policy = "never"
  <2>1. rep' = [rep EXCEPT !.never = never] /\ files' = [files EXCEPT !.policy = policy]
    BY <1>2 DEF Keeps
  <2>2. never \in BOOLEAN
    OBVIOUS
  <2> HIDE DEF never
  <2> QED BY <1>0, <2>1, <2>2 DEF RepTypeOK, FileRecords, RepRecords
<1>3. /\ files' \in FileRecords /\ files'.logs = files.logs /\ files'.metas = files.metas
      /\ rep' \in RepRecords
  <2>1. "always" \in Policies /\ "never" \in Policies
    BY DEF Policies
  <2>2. files \in FileRecords /\ rep \in RepRecords
    BY <1>0 DEF RepTypeOK, FileRecords, RepRecords
  <2> QED BY <1>1, <1>2, <2>1, <2>2
<1> DEFINE no == FALSE
           all == [Idle EXCEPT !.pc = "all"]
           reads == [actor["sender"] EXCEPT !.todo = actor["prompt"].todo, !.pc = "read"]
<1>4. Idle = [pc |-> "idle", id |-> 0, todo |-> {}, prunes |-> no] /\ no \in BOOLEAN
  BY DEF Idle
<1> HIDE DEF no
<1>5. /\ Idle \in ActorRecords /\ Idle.pc = "idle" /\ Idle.todo = {}
      /\ all \in ActorRecords /\ all.pc = "all" /\ all.todo = {}
  BY <1>4 DEF ActorRecords, RepPlaces
<1>6. actor \in [Actors -> ActorRecords] /\ actor["prompt"] \in ActorRecords /\ actor["sender"] \in ActorRecords
  BY <1>0, RepTypes
<1>7. reads \in ActorRecords /\ reads.pc = "read" /\ reads.todo = actor["prompt"].todo
  BY <1>6 DEF ActorRecords, RepPlaces
<1>8. \/ actor' = [actor EXCEPT !["prompt"] = Idle, !["sender"] = reads]
      \/ actor' = [actor EXCEPT !["prompt"] = all]
  BY <1>1, <1>6
<1> HIDE DEF all, reads
<1>9. /\ actor' \in [Actors -> ActorRecords]
      /\ \A u \in {"host", "fault"} : actor'[u] = actor[u]
      /\ actor'["prompt"] = Idle \/ actor'["prompt"] = all
      /\ actor'["sender"] = reads \/ actor'["sender"] = actor["sender"]
  <2>1. CASE actor' = [actor EXCEPT !["prompt"] = Idle, !["sender"] = reads]
    BY <1>0, <1>5, <1>6, <1>7, <2>1 DEF Actors
  <2>2. CASE actor' = [actor EXCEPT !["prompt"] = all]
    BY <1>0, <1>5, <1>6, <2>2 DEF Actors
  <2> QED BY <1>8, <2>1, <2>2
<1>10. RepTypeOK'
  BY <1>0, <1>1, <1>3, <1>9 DEF RepTypeOK, FileRecords, RepRecords, ActorRecords, RepPlaces
<1>11. Filed' /\ OwnNumbers'
  BY <1>0, <1>1, <1>3, <1>9 DEF Filed, OwnNumbers
<1>12. ASSUME NEW u \in Actors, actor'[u] = actor[u] PROVE ActorOK(u)'
  <2>1. actor[u].pc \in Composing => actor[u].id \notin repPast.ever
    BY DEF RepInductive, ActorOK
  <2>2. repPast.next <= repPast'.next
    BY <1>0, <1>1, RepTypes
  <2> QED BY <1>1, <1>3, <1>10, <1>12, <2>1, <2>2, OthersKeep
<1>13. ActorOK("prompt")'
  <2>1. actor'["prompt"].pc \in {"idle", "all"} /\ actor'["prompt"].todo = {}
    BY <1>5, <1>9
  <2> QED BY <1>0, <2>1, IdleOK
<1>14. CASE actor'["sender"] = reads
  <2>1. actor'["sender"].pc = "read" /\ actor'["sender"].todo # {} /\ actor'["sender"].todo \subseteq repPast'.ever
    BY <1>0, <1>1, <1>7, <1>14 DEF ActorOK
  <2>2. ActorOK("sender")'
    BY <1>0, <2>1, IdleOK
  <2>3. \A u \in Actors : ActorOK(u)'
    BY <1>9, <1>12, <1>13, <2>2 DEF Actors
  <2> QED BY <1>3, <1>10, <1>11, <2>3, MetasStay DEF RepInductive
<1>15. CASE actor'["sender"] = actor["sender"]
  <2>1. \A u \in Actors : ActorOK(u)'
    BY <1>9, <1>12, <1>13, <1>15 DEF Actors
  <2> QED BY <1>3, <1>10, <1>11, <2>1, MetasStay DEF RepInductive
<1> QED BY <1>9, <1>14, <1>15

\* DiscardAll ends by throwing away what is half written: nobody's report yet.
LEMMA DiscardTmpsKeeps ==
  ASSUME RepInductive, DiscardTmps
  PROVE  RepInductive' /\ KeepsReports
<1>0. RepTypeOK /\ Filed /\ "prompt" \in Actors /\ "idle" \in RepPlaces
  BY DEF RepInductive, Actors, RepPlaces
<1>1. /\ Goes("prompt", "idle") /\ files' = [files EXCEPT !.tmps = {}] /\ rep' = rep
      /\ repPast' = repPast /\ repLeft' = repLeft
  BY DEF DiscardTmps
<1>2. ActorMoves("prompt") /\ actor'["prompt"].pc = "idle" /\ actor'["prompt"].todo = actor["prompt"].todo
  BY <1>0, <1>1, GoesMoves
<1>3. files' \in FileRecords /\ files'.metas = files.metas /\ files'.logs = files.logs
  BY <1>0, <1>1 DEF RepTypeOK, FileRecords
<1>4. RepTypeOK'
  BY <1>0, <1>1, <1>2, <1>3 DEF RepTypeOK, FileRecords, ActorMoves, ActorRecords, RepPlaces
<1>5. Filed'
  BY <1>0, <1>1, <1>3 DEF Filed
<1>6. ActorOK("prompt")'
  BY <1>0, <1>1, <1>2, IdleOK DEF RepInductive, ActorOK
<1>7. RepInductive'
  BY <1>0, <1>1, <1>2, <1>3, <1>4, <1>5, <1>6, ActorStep DEF Composing
<1> QED BY <1>3, <1>7, MetasStay

\* Send passes over a report that is gone; a post that is not taken leaves it where it is, and
\* one that is goes on to discard it.
LEMMA SendKeeps ==
  ASSUME RepInductive, SendReads \/ PostCrashReport
  PROVE  RepInductive' /\ KeepsReports
<1>0. RepTypeOK /\ Filed /\ ActorOK("sender") /\ "sender" \in Actors
      /\ "post" \in RepPlaces /\ "meta" \in RepPlaces
  BY DEF RepInductive, Actors, RepPlaces
<1>1. /\ actor["sender"].pc \in {"read", "post"} /\ files' = files /\ rep' = rep
      /\ \/ Goes("sender", "post") /\ repPast' = repPast
         \/ Passes("sender") /\ repPast' = repPast
         \/ Goes("sender", "meta") /\ repPast' = [repPast EXCEPT !.taken = repPast.taken \cup {First("sender")}]
      /\ repLeft' = repLeft \/ Costs("fault")
  BY DEF SendReads, PostCrashReport
<1>2. repLeft' \in Budgets
  BY <1>0, <1>1, Paid DEF RepTypeOK, Budgets
<1>3. CASE Passes("sender") /\ repPast' = repPast
  <2>1. ActorMoves("sender") /\ actor'["sender"].pc \notin Composing /\ ActorOK("sender")'
    BY <1>0, <1>1, <1>3, PassesMoves
  <2>2. RepTypeOK'
    BY <1>0, <1>1, <1>2, <1>3, <2>1 DEF RepTypeOK, Budgets, ActorMoves, ActorRecords, RepPlaces
  <2>3. Filed'
    BY <1>0, <1>1, <1>3 DEF Filed
  <2>4. RepInductive'
    BY <1>0, <1>1, <1>3, <2>1, <2>2, <2>3, ActorStep
  <2> QED BY <1>1, <2>4, MetasStay
<1>4. CASE Goes("sender", "post") /\ repPast' = repPast
  <2>1. ActorMoves("sender") /\ actor'["sender"].pc = "post" /\ actor'["sender"].todo = actor["sender"].todo
    BY <1>0, <1>4, GoesMoves
  <2>2. RepTypeOK'
    BY <1>0, <1>1, <1>2, <1>4, <2>1 DEF RepTypeOK, Budgets, ActorMoves, ActorRecords, RepPlaces
  <2>3. Filed'
    BY <1>0, <1>1, <1>4 DEF Filed
  <2>4. actor'["sender"].todo # {} /\ actor'["sender"].todo \subseteq repPast'.ever
    BY <1>0, <1>1, <1>4, <2>1 DEF ActorOK
  <2>5. ActorOK("sender")'
    BY <1>0, <2>1, <2>4, IdleOK
  <2>6. RepInductive'
    BY <1>0, <1>1, <1>4, <2>1, <2>2, <2>3, <2>5, ActorStep DEF Composing
  <2> QED BY <1>1, <2>6, MetasStay
<1>5. CASE Goes("sender", "meta") /\ repPast' = [repPast EXCEPT !.taken = repPast.taken \cup {First("sender")}]
  <2>1. ActorMoves("sender") /\ actor'["sender"].pc = "meta" /\ actor'["sender"].todo = actor["sender"].todo
    BY <1>0, <1>5, GoesMoves
  <2>2. First("sender") \in Ids
    BY <1>0, <1>1, FirstIn DEF ActorOK
  <2>3. /\ repPast' \in PastRecords /\ repPast'.taken = repPast.taken \cup {First("sender")}
        /\ repPast'.ever = repPast.ever /\ repPast'.next = repPast.next /\ repPast'.unlogged = repPast.unlogged
    BY <1>0, <1>5, <2>2 DEF RepTypeOK, PastRecords
  <2>4. RepTypeOK'
    BY <1>0, <1>1, <1>2, <2>1, <2>3 DEF RepTypeOK, Budgets, PastRecords, ActorMoves, ActorRecords, RepPlaces
  <2>5. Filed'
    BY <1>0, <1>1, <2>3 DEF Filed
  <2>6. First("sender")' = First("sender")
    BY <2>1 DEF First
  <2>7. ActorOK("sender")'
    BY <1>0, <1>1, <2>1, <2>3, <2>6 DEF ActorOK, Composing
  <2>8. RepInductive'
    <3>1. actor'["sender"].pc \notin Composing
      BY <2>1 DEF Composing
    <3> QED BY <1>0, <1>1, <2>1, <2>3, <2>4, <2>5, <2>7, <3>1, ActorStep
  <2> QED BY <1>1, <2>8, MetasStay
<1> QED BY <1>1, <1>3, <1>4, <1>5

\* The reports start empty.
LEMMA RepStarts == Init => RepInductive
<1> SUFFICES ASSUME Init PROVE RepInductive
  OBVIOUS
<1>1. PICK s \in Scenarios : RepInit(s.rep, s.running, s.policy)
  BY DEF Init
<1>2. s.rep \in Budgets /\ s.running \in BOOLEAN /\ s.policy \in Policies
  BY ScenariosAssumption DEF Budgets
<1> DEFINE no == FALSE
           never == s.running /\ s.policy = "never"
<1>3. /\ files = [logs |-> {}, metas |-> {}, tmps |-> {}, bad |-> {}, policy |-> s.policy]
      /\ rep = [[installed |-> no, never |-> no, recorded |-> no, offered |-> no]
                  EXCEPT !.installed = s.running, !.offered = s.running, !.never = never]
      /\ actor = [a \in Actors |-> Idle] /\ Idle = [pc |-> "idle", id |-> 0, todo |-> {}, prunes |-> no]
      /\ repPast = [next |-> 1, taken |-> {}, ever |-> {}, unlogged |-> {}] /\ repLeft = s.rep
  BY <1>1 DEF RepInit, NotRunning, Idle
<1>4. no \in BOOLEAN /\ never \in BOOLEAN
  OBVIOUS
<1> HIDE DEF no, never
<1>5. rep \in RepRecords
  BY <1>2, <1>3, <1>4 DEF RepRecords
<1>6. Idle \in ActorRecords /\ Idle.pc = "idle" /\ Idle.todo = {}
  BY <1>3, <1>4 DEF ActorRecords, RepPlaces
<1>7. actor \in [Actors -> ActorRecords] /\ \A a \in Actors : actor[a].pc = "idle" /\ actor[a].todo = {}
  BY <1>3, <1>6
<1>8. files \in FileRecords /\ repPast \in PastRecords
  BY <1>2, <1>3, ReportAssumption DEF FileRecords, PastRecords
<1>9. RepTypeOK
  BY <1>2, <1>3, <1>5, <1>7, <1>8
     DEF RepTypeOK, FileRecords, PastRecords, Budgets, RepRecords, ActorRecords, RepPlaces
<1>10. Filed /\ OwnNumbers
  BY <1>3, <1>7 DEF Filed, OwnNumbers, Actors, Composing
<1>11. \A a \in Actors : ActorOK(a)
  BY <1>3, <1>7 DEF ActorOK, Composing
<1> QED BY <1>9, <1>10, <1>11 DEF RepInductive

\* Every step of the process keeps the invariant, and keeps the reports.
LEMMA RepKeeps == RepInductive /\ [Next]_clientVars => RepInductive' /\ [KeepsReports]_repVars
<1> SUFFICES ASSUME RepInductive, [RepNext]_repVars PROVE RepInductive' /\ [KeepsReports]_repVars
  BY RepSteps
<1>1. CASE UNCHANGED repVars
  <2>1. RepTypeOK'
    BY <1>1 DEF repVars, RepInductive, RepTypeOK
  <2> QED BY <1>1, <2>1, ActorsStay DEF repVars
<1>2. CASE RepNext
  <2>1. ASSUME NEW a \in Actors,
               WriteLog(a) \/ WriteTmp(a) \/ Rename(a) \/ Prune(a) \/ DiscardMeta(a) \/ DiscardLog(a)
        PROVE  RepInductive' /\ KeepsReports
    BY <2>1, WriteLogKeeps, WriteTmpKeeps, RenameKeeps, PruneKeeps, DiscardMetaKeeps, DiscardLogKeeps
  <2>2. ASSUME NEW yes \in BOOLEAN, NEW remember \in BOOLEAN, BoxAnswered(yes, remember)
        PROVE  RepInductive' /\ KeepsReports
    BY <2>2, BoxKeeps
  <2> QED BY <1>2, <2>1, <2>2, InstallKeeps, RepDieKeeps, RecordKeeps, OfferKeeps, PruneKeeps,
             DiscardTmpsKeeps, SendKeeps DEF RepNext
<1> QED BY <1>1, <1>2

\* The invariant of the crash reports holds throughout (crash_reports.cpp,
\* crash_report_prompt.cpp).
THEOREM RepInductiveHolds == Spec => []RepInductive
<1>1. Init => RepInductive
  BY RepStarts
<1>2. RepInductive /\ [Next]_clientVars => RepInductive'
  BY RepKeeps
<1> QED BY <1>1, <1>2, PTL DEF Spec

\* For any number of reports, crashes, restarts and changes of policy, and any kMaxPending,
\* with whoever writes, prunes, sends or dies at the time: a report appears with its log, and
\* goes only when it was taken, declined, cut short or outlived (Record, WriteSignalReport,
\* Prune, Send, DiscardAll).
THEOREM ReportsStay == Spec => ReportsKept
<1>1. RepInductive /\ [Next]_clientVars => [KeepsReports]_repVars
  BY RepKeeps
<1>2. KeepsReports <=>
        /\ files'.metas \ files.metas \subseteq files.logs \cup repPast.unlogged
        /\ \A id \in files.metas \ files'.metas :
             \/ id \in repPast.taken \/ id \in files.bad \/ id \in Declined
             \/ Cardinality({j \in repPast.ever : j > id}) >= MaxPending
  BY DEF KeepsReports
<1> QED BY <1>1, <1>2, RepInductiveHolds, PTL DEF Spec, ReportsKept

-----------------------------------------------------------------------------
(* The friend notifier. *)

PollSteps == {"bind", "switch", "adapter", "check", "part", "more"}

Poller == call["poll"]

\* A call for the notifier's list asks for that and nothing else, and an answer that has
\* one says whose data it is.
PollShape ==
  /\ Poller.ops \in Seq(PollSteps)
  /\ Poller.got => Poller.who # {} /\ Poller.seen \subseteq Poller.who

\* The first answer after a reset is not told; the others are compared with somebody's.
NotifierShape ==
  /\ notifier \in [on : BOOLEAN, polling : BOOLEAN, first : BOOLEAN, due : BOOLEAN,
                   online : SUBSET Accounts]
  /\ uiPast \in [came : [Accounts -> Nat], told : [Accounts -> Nat], base : SUBSET Accounts,
                 crossed : BOOLEAN]
  /\ ~notifier.first => uiPast.base # {}

\* An arrival between two lists of the friends that are online.
Comes(a, from, to) == IF a \in to \ from THEN 1 ELSE 0

Compared(a) == ~notifier.first /\ uiPast.base = {a}
Answers(a) == Poller.got /\ Poller.who = {a}

\* What was told of a friend, and what is on its way to be told, came first: from the
\* notifier's list to the site, from the answer to the site, or from the list to the
\* answer to the site.
Balanced(a) ==
  LET told == uiPast.told[a]
      came == uiPast.came[a]
  IN /\ told <= came
     /\ Compared(a) => told + Comes(a, notifier.online, site.online) <= came
     /\ Answers(a) => told + Comes(a, Poller.seen, site.online) <= came
     /\ Compared(a) /\ Answers(a) =>
          told + Comes(a, notifier.online, Poller.seen) + Comes(a, Poller.seen, site.online) <= came

NotifierInductive ==
  /\ NotifierShape /\ PollShape
  /\ uiPast.crossed \/ \A a \in Accounts : Balanced(a)

\* What a step of the process does to the notifier, to what it is compared with and to the
\* call for its list.
Beyond == UNCHANGED <<notifier, uiPast>> /\ site'.online = site.online

Resets == /\ notifier' = Reset /\ uiPast' = Forgot /\ site'.online = site.online
          /\ Poller' = Poller

NotifierDies == /\ notifier' = Fresh(notifier.on) /\ uiPast' = Forgot
                /\ site'.online = site.online /\ Poller' = NoCall

NotifierNext ==
  \/ Beyond /\ (Poller' = Poller \/ CallGoesOn("poll"))
  \/ Poll \/ PollAnswered \/ Resets \/ NotifierDies
  \/ \E who \in Accounts : FriendMoves(who)

\* A call that goes on is the only one that changes, and nobody's friend comes by it.
LEMMA OneCallMoves ==
  ASSUME WebShape, NEW t \in Callers, CallGoesOn(t)
  PROVE  site'.online = site.online /\ \A u \in Callers \ {t} : call'[u] = call[u]
<1>1. site'.online = site.online
  <2>1. ASSUME NEW reply, Minted(t, reply) PROVE site'.online = site.online
    BY <2>1 DEF Minted, WebShape
  <2> QED BY <2>1, Zenon DEF CallGoesOn, Bind, Try, FetchSwitch, StillSignedIn, OwnAnswered,
             PartAnswered, PublicAnswered, Identified, Rechecks, Stored, KeptByName
<1>2. \E r : call' = [call EXCEPT ![t] = r]
  <2>1. ASSUME NEW n, NEW fields, Onward(t, n, fields) PROVE \E r : call' = [call EXCEPT ![t] = r]
    BY <2>1, Zenon DEF Onward
  <2>2. CASE Over(t)
    BY <2>2, Zenon DEF Over
  <2>3. CASE Bind(t) \/ Try(t) \/ FetchSwitch(t) \/ StillSignedIn(t)
    BY <2>1, <2>2, <2>3, Zenon DEF Bind, Try, FetchSwitch, StillSignedIn
  <2>4. ASSUME NEW reply, OwnAnswered(t, reply) \/ PartAnswered(t, reply) \/ PublicAnswered(t, reply)
        PROVE  \E r : call' = [call EXCEPT ![t] = r]
    BY <2>1, <2>2, <2>4, Zenon DEF OwnAnswered, PartAnswered, PublicAnswered
  <2>5. ASSUME NEW reply, Minted(t, reply) \/ Identified(t, reply)
        PROVE  \E r : call' = [call EXCEPT ![t] = r]
    BY <2>1, <2>2, <2>5, Zenon DEF Minted, Identified
  <2>6. CASE Rechecks(t) \/ Stored(t) \/ KeptByName(t)
    BY <2>1, <2>6, Zenon DEF Rechecks, Stored, KeptByName
  <2> QED BY <2>3, <2>4, <2>5, <2>6, Zenon DEF CallGoesOn
<1> QED BY <1>1, <1>2 DEF WebShape

\* A step of the process is one of the notifier's, or one that leaves it alone.
LEMMA NotifierSteps == WebShape /\ [Next]_clientVars => NotifierNext
<1> SUFFICES ASSUME WebShape, [Next]_clientVars PROVE NotifierNext
  OBVIOUS
<1>0. "poll" \in Callers /\ "poll" \notin {"worker", "old", "signin"}
  BY DEF Callers
<1>1. CASE ProcessStarts \/ Network \/ Reports \/ Delivery \/ UNCHANGED clientVars
  <2>1. UNCHANGED <<notifier, uiPast, site, call>>
    BY <1>1 DEF ProcessStarts, Network, Reports, Delivery, clientVars, webVars, winVars
  <2> QED BY <2>1 DEF NotifierNext, Beyond, Poller
<1>2. CASE Web \/ SignInRechecks
  <2>1. UNCHANGED <<notifier, uiPast>>
    BY <1>2 DEF Web, SignInRechecks, Beside
  <2>2. CASE \E t \in Callers : CallGoesOn(t)
    <3>1. PICK t \in Callers : CallGoesOn(t)
      BY <2>2
    <3>2. site'.online = site.online /\ \A u \in Callers \ {t} : call'[u] = call[u]
      BY <3>1, OneCallMoves
    <3> QED BY <1>0, <2>1, <3>1, <3>2 DEF NotifierNext, Beyond, Poller
  <2>3. CASE SwitchProfile \/ Revoke \/ Expire \/ \E profile \in Files : Forget(profile)
    <3>1. UNCHANGED call /\ site'.online = site.online
      BY <2>3 DEF SwitchProfile, Revoke, Expire, Forget, WebShape
    <3> QED BY <2>1, <3>1 DEF NotifierNext, Beyond, Poller
  <2> QED BY <1>2, <2>2, <2>3, Zenon DEF Web, SignInRechecks, CallGoesOn
<1>3. CASE ProcessDies
  <2>1. /\ notifier' = Fresh(notifier.on) /\ uiPast' = Forgot /\ UNCHANGED site
        /\ call' = [t \in Callers |-> NoCall]
    BY <1>3 DEF ProcessDies, WebDie
  <2> QED BY <1>0, <2>1 DEF NotifierNext, NotifierDies, Poller
<1>4. CASE Desktop
  <2>1. CASE UNCHANGED <<notifier, uiPast, site, call>>
    BY <2>1 DEF NotifierNext, Beyond, Poller
  <2>2. ASSUME UNCHANGED <<notifier, uiPast, site>>, NEW t \in Callers \ {"poll"}, NEW r,
               call' = [call EXCEPT ![t] = r]
        PROVE  NotifierNext
    <3>1. call'["poll"] = call["poll"]
      BY <1>0, <2>2 DEF WebShape
    <3> QED BY <2>2, <3>1 DEF NotifierNext, Beyond, Poller
  <2>3. ASSUME NEW page \in PageSet, OpenWindow(page) \/ GoToPage(page) \/ Act(page)
        PROVE  UNCHANGED <<notifier, uiPast, site, call>>
    BY <2>3 DEF OpenWindow, GoToPage, Act, Reads
  <2>4. CASE Refresh \/ RefreshTimer \/ StatusTimer \/ \E title \in Titles : PickTitle(title)
    BY <2>1, <2>4 DEF Refresh, RefreshTimer, StatusTimer, PickTitle, Reads
  <2>5. CASE CloseWindow
    <3>1. /\ call' = [call EXCEPT !["old"] = call["worker"], !["worker"] = NoCall]
          /\ UNCHANGED <<notifier, uiPast, site>>
      BY <2>5 DEF CloseWindow
    <3>2. call'["poll"] = call["poll"]
      BY <1>0, <3>1 DEF WebShape
    <3> QED BY <3>1, <3>2 DEF NotifierNext, Beyond, Poller
  <2>6. CASE Draw
    BY <2>1, <2>6, Zenon DEF Draw, Reads, webVars
  <2>7. CASE WorkerTakes \/ WorkerPosts \/ WorkerStops
    <3>1. {"worker", "old"} \subseteq Callers \ {"poll"}
      BY DEF Callers
    <3>2. /\ UNCHANGED <<notifier, uiPast, site>>
          /\ \E t \in {"worker", "old"} : \E r : call' = [call EXCEPT ![t] = r]
      BY <2>7, Zenon DEF WorkerTakes, WorkerPosts, WorkerStops, Started, winVars
    <3> QED BY <2>2, <3>1, <3>2
  <2>8. ASSUME NEW who \in Accounts, Submit(who) PROVE NotifierNext
    <3>1. "signin" \in Callers \ {"poll"}
      BY DEF Callers
    <3>2. UNCHANGED <<notifier, uiPast, site>> /\ \E r : call' = [call EXCEPT !["signin"] = r]
      BY <2>8, Zenon DEF Submit, Started
    <3> QED BY <2>2, <3>1, <3>2
  <2>9. CASE CancelDialog
    BY <2>1, <2>9 DEF CancelDialog, webVars
  <2>10. CASE SignInDone
    <3>1. /\ call' = [call EXCEPT !["signin"] = NoCall] /\ UNCHANGED site
          /\ (notifier' = Reset /\ uiPast' = Forgot) \/ UNCHANGED <<notifier, uiPast>>
      BY <2>10, Zenon DEF SignInDone
    <3>2. call'["poll"] = call["poll"]
      BY <1>0, <3>1 DEF WebShape
    <3> QED BY <3>1, <3>2 DEF NotifierNext, Beyond, Resets, Poller
  <2>11. CASE SignOutClicked
    <3>1. notifier' = Reset /\ uiPast' = Forgot /\ UNCHANGED <<site, call>>
      BY <2>11, Zenon DEF SignOutClicked, SignOut
    <3> QED BY <3>1 DEF NotifierNext, Resets, Poller
  <2>12. CASE Poll \/ PollAnswered \/ \E who \in Accounts : FriendMoves(who)
    BY <2>12 DEF NotifierNext
  <2> QED BY <1>4, <2>1, <2>3, <2>4, <2>5, <2>6, <2>7, <2>8, <2>9, <2>10, <2>11, <2>12, Zenon
          DEF Desktop
<1> QED BY <1>1, <1>2, <1>3, <1>4 DEF Next

\* A step of the call for the list: it has no answer, keeps the one it has, or is given the
\* friends of one account that are online at that moment.
PollMoves ==
  \/ ~Poller'.got
  \/ Poller.got /\ Poller.who \subseteq Poller'.who /\ Poller'.seen = Poller.seen
  \/ \E a \in Accounts : a \in Poller'.who /\ Poller'.seen = site.online \cap {a}

\* The call for the list asks for the list and for nothing else.
LEMMA PollAsks ==
  ASSUME WebInductive, PollShape, CallGoesOn("poll")
  PROVE  PollShape' /\ PollMoves
<1>0. /\ WebShape /\ "poll" \in Callers
      /\ call["poll"].bound \in 0..MaxTokens /\ call["poll"].sent \in 0..MaxTokens
      /\ call["poll"].who \in SUBSET Accounts /\ call["poll"].seen \in SUBSET Accounts
      /\ call["poll"].got \in BOOLEAN /\ site.online \in SUBSET Accounts
  BY DEF WebInductive, WebShape, Calls, Callers
<1>1. call["poll"].ops # <<>> /\ Head(call["poll"].ops) \in PollSteps
  <2>1. call["poll"].ops # <<>>
    BY DEF CallGoesOn, Bind, Try, FetchSwitch, StillSignedIn, OwnAnswered, PartAnswered,
           PublicAnswered, Minted, Identified, Rechecks, Stored, KeptByName, At
  <2> QED BY <2>1 DEF PollShape, Poller
<1>2. \A n \in 1..2 : SubSeq(call["poll"].ops, n + 1, Len(call["poll"].ops)) \in Seq(PollSteps)
  BY <1>1 DEF PollShape, Poller
<1>3. CASE Over("poll")
  <2>1. call'["poll"].ops = <<>> /\ ~call'["poll"].got
    BY <1>0, <1>3, OverMoves
  <2> QED BY <2>1 DEF PollShape, PollMoves, Poller
<1>4. ASSUME NEW n \in 1..2, NEW fields, Onward("poll", n, fields),
             DOMAIN fields \subseteq {"bound", "sent"},
             "bound" \in DOMAIN fields => fields["bound"] \in 0..MaxTokens,
             "sent" \in DOMAIN fields => fields["sent"] \in 0..MaxTokens
      PROVE  PollShape' /\ PollMoves
  <2>1. /\ call'["poll"].ops = SubSeq(call["poll"].ops, n + 1, Len(call["poll"].ops))
        /\ call'["poll"].who = call["poll"].who /\ call'["poll"].seen = call["poll"].seen
        /\ call'["poll"].got = call["poll"].got
    BY <1>0, <1>1, <1>4, OnwardMoves
  <2> QED BY <1>2, <2>1 DEF PollShape, PollMoves, Poller
<1>5. CASE Bind("poll") \/ FetchSwitch("poll") \/ StillSignedIn("poll")
  <2>1. EnsureLoaded
    BY <1>5 DEF Bind, FetchSwitch, StillSignedIn
  <2>2. Held.bearer \in 0..MaxTokens
    BY <1>0, <2>1, LoadingKeeps DEF AccountFile
  <2>3. CASE Onward("poll", 1, [bound |-> Held.bearer])
    BY <1>4, <2>2, <2>3
  <2>4. CASE Onward("poll", 1, [sent |-> Held.bearer])
    BY <1>4, <2>2, <2>4
  <2>5. CASE Onward("poll", 1, <<>>) \/ Onward("poll", 2, <<>>)
    BY <1>4, <2>5
  <2> QED BY <1>3, <1>5, <2>3, <2>4, <2>5, Zenon DEF Bind, FetchSwitch, StillSignedIn
<1>6. ASSUME NEW reply, PartAnswered("poll", reply) PROVE PollShape' /\ PollMoves
  <2> DEFINE used == reply = "data" /\ (At("poll", {"more"}) \/ ~call["poll"].got)
             list == used /\ ~At("poll", {"more"})
             who == call["poll"].who \cup (IF used THEN {Owner(Sends("poll"))} ELSE {})
             got == call["poll"].got \/ list
             seen == IF list THEN site.online \cap {Owner(Sends("poll"))} ELSE call["poll"].seen
  <2>1. used => Owner(Sends("poll")) \in Accounts
    BY <1>0, <1>6, ReplyKnown DEF PartAnswered, At
  <2>2. Onward("poll", 1, [who |-> who, got |-> got, seen |-> seen])
    BY <1>6 DEF PartAnswered
  <2>3. who \in SUBSET Accounts /\ seen \in SUBSET Accounts /\ got \in BOOLEAN
    BY <1>0, <2>1
  <2>4. got => who # {} /\ seen \subseteq who
    BY <1>0 DEF PollShape, Poller
  <2>5. \/ ~got
        \/ call["poll"].got /\ call["poll"].who \subseteq who /\ seen = call["poll"].seen
        \/ \E a \in Accounts : a \in who /\ seen = site.online \cap {a}
    BY <1>0, <2>1
  <2> HIDE DEF who, got, seen
  <2>6. /\ call'["poll"].ops = SubSeq(call["poll"].ops, 1 + 1, Len(call["poll"].ops))
        /\ call'["poll"].who = who /\ call'["poll"].seen = seen /\ call'["poll"].got = got
    BY <1>0, <1>1, <2>2, <2>3, OnwardMoves
  <2> QED BY <1>2, <2>4, <2>5, <2>6 DEF PollShape, PollMoves, Poller
<1>7. ASSUME NEW reply PROVE ~OwnAnswered("poll", reply) /\ ~PublicAnswered("poll", reply)
                             /\ ~Minted("poll", reply) /\ ~Identified("poll", reply)
  BY <1>1 DEF PollSteps, OwnAnswered, PublicAnswered, Minted, Identified, At
<1>8. ~Try("poll") /\ ~Rechecks("poll") /\ ~Stored("poll") /\ ~KeptByName("poll")
  BY <1>1 DEF PollSteps, Try, Rechecks, Stored, KeptByName, At
<1> QED BY <1>5, <1>6, <1>7, <1>8, Zenon DEF CallGoesOn

\* The notifier starts with nothing told and nothing to compare with.
LEMMA NotifierStarts == Init => NotifierInductive
<1> SUFFICES ASSUME Init PROVE NotifierInductive
  OBVIOUS
<1> DEFINE none == [a \in Accounts |-> 0]
           no == FALSE
<1>1. /\ \E on \in BOOLEAN : notifier = Fresh(on)
      /\ uiPast = [came |-> none, told |-> none, base |-> {}, crossed |-> no]
      /\ call = [t \in Callers |-> NoCall]
  BY ScenariosAssumption DEF Init, WinInit, WebInit
<1>2. none \in [Accounts -> Nat] /\ (\A a \in Accounts : none[a] = 0) /\ no \in BOOLEAN /\ ~no
  OBVIOUS
<1> HIDE DEF none, no
<1>3. NotifierShape /\ notifier.first
  BY <1>1, <1>2 DEF NotifierShape, Fresh
<1>4. Poller.ops = <<>> /\ ~Poller.got
  BY <1>1 DEF Poller, Callers, NoCall
<1>5. \A a \in Accounts : uiPast.told[a] = 0 /\ uiPast.came[a] = 0
  BY <1>1, <1>2
<1> QED BY <1>3, <1>4, <1>5 DEF NotifierInductive, PollShape, Balanced, Compared, Answers

\* A step of the call for the list leaves the account of what was told in balance: a list
\* fresh from the site has no arrival before it that the site does not have.
LEMMA AskingBalances ==
  ASSUME WebInductive, NotifierInductive, Beyond, PollMoves, PollShape'
  PROVE  NotifierInductive'
<1>1. NotifierShape'
  BY DEF NotifierInductive, NotifierShape, Beyond
<1>2. ASSUME NEW a \in Accounts, Balanced(a) PROVE Balanced(a)'
  <2>1. /\ uiPast.told[a] \in Nat /\ uiPast.came[a] \in Nat
        /\ UNCHANGED <<notifier, uiPast>> /\ site'.online = site.online
    BY DEF NotifierInductive, NotifierShape, Beyond
  <2>2. Compared(a)' <=> Compared(a)
    BY <2>1 DEF Compared
  <2>3. CASE ~Poller'.got
    BY <1>2, <2>1, <2>2, <2>3 DEF Balanced, Answers
  <2>4. CASE Poller.got /\ Poller.who \subseteq Poller'.who /\ Poller'.seen = Poller.seen
    <3>1. Answers(a)' => Answers(a)
      BY <2>4 DEF Answers, NotifierInductive, PollShape
    <3> QED BY <1>2, <2>1, <2>2, <2>4, <3>1 DEF Balanced, Comes
  <2>5. ASSUME NEW b \in Accounts, b \in Poller'.who, Poller'.seen = site.online \cap {b}
        PROVE  Balanced(a)'
    <3>1. Answers(a)' => a = b
      BY <2>5 DEF Answers
    <3>2. CASE ~Answers(a)'
      BY <1>2, <2>1, <2>2, <3>2 DEF Balanced
    <3>3. CASE a = b
      <4>1. /\ Comes(a, Poller'.seen, site'.online) = 0
            /\ Comes(a, notifier'.online, Poller'.seen) = Comes(a, notifier.online, site.online)
        BY <2>1, <2>5, <3>3 DEF Comes
      <4>2. uiPast.told[a] <= uiPast.came[a]
        BY <1>2 DEF Balanced
      <4>3. Compared(a) => uiPast.told[a] + Comes(a, notifier.online, site.online) <= uiPast.came[a]
        BY <1>2 DEF Balanced
      <4>4. Comes(a, notifier.online, site.online) \in Nat
        BY DEF Comes
      <4> HIDE DEF Comes
      <4> QED BY <2>1, <2>2, <4>1, <4>2, <4>3, <4>4 DEF Balanced
    <3> QED BY <3>1, <3>2, <3>3
  <2> QED BY <2>3, <2>4, <2>5 DEF PollMoves
<1> QED BY <1>1, <1>2 DEF NotifierInductive, Beyond

\* Nothing is told by a reset, or by the end of the process.
LEMMA ForgettingBalances ==
  ASSUME NotifierInductive, Resets \/ NotifierDies
  PROVE  NotifierInductive'
<1>1. uiPast' = Forgot /\ site'.online = site.online
  BY DEF Resets, NotifierDies
<1>2. /\ uiPast' \in [came : [Accounts -> Nat], told : [Accounts -> Nat], base : SUBSET Accounts,
                      crossed : BOOLEAN]
      /\ uiPast'.told = uiPast.told /\ uiPast'.came = uiPast.came
      /\ uiPast'.crossed = uiPast.crossed
  BY <1>1 DEF Forgot, NotifierInductive, NotifierShape
<1>3. /\ notifier' \in [on : BOOLEAN, polling : BOOLEAN, first : BOOLEAN, due : BOOLEAN,
                        online : SUBSET Accounts]
      /\ notifier'.first
  <2> DEFINE yes == TRUE
             no == FALSE
  <2>0. /\ notifier \in [on : BOOLEAN, polling : BOOLEAN, first : BOOLEAN, due : BOOLEAN,
                         online : SUBSET Accounts]
        /\ yes \in BOOLEAN /\ no \in BOOLEAN /\ yes
    BY DEF NotifierInductive, NotifierShape
  <2>1. \/ notifier' = [notifier EXCEPT !.first = yes, !.online = {}, !.due = notifier.on]
        \/ notifier' = [on |-> notifier.on, polling |-> no, first |-> yes, online |-> {},
                        due |-> notifier.on]
    BY DEF Resets, NotifierDies, Reset, Fresh
  <2> HIDE DEF yes, no
  <2>2. CASE notifier' = [notifier EXCEPT !.first = yes, !.online = {}, !.due = notifier.on]
    <3>1. notifier' = [on |-> notifier.on, polling |-> notifier.polling, first |-> yes,
                       online |-> {}, due |-> notifier.on]
      BY <2>0, <2>2
    <3> QED BY <2>0, <3>1
  <2>3. CASE notifier' = [on |-> notifier.on, polling |-> no, first |-> yes, online |-> {},
                          due |-> notifier.on]
    BY <2>0, <2>3
  <2> QED BY <2>1, <2>2, <2>3
<1>4. Poller' = Poller \/ (~Poller'.got /\ Poller'.ops = <<>>)
  BY DEF Resets, NotifierDies, NoCall
<1>5. PollShape'
  <2>1. CASE Poller' = Poller
    BY <2>1 DEF NotifierInductive, PollShape
  <2>2. CASE ~Poller'.got /\ Poller'.ops = <<>>
    BY <2>2 DEF PollShape
  <2> QED BY <1>4, <2>1, <2>2
<1>6. ASSUME NEW a \in Accounts, Balanced(a) PROVE Balanced(a)'
  BY <1>1, <1>2, <1>3, <1>4, <1>6 DEF Balanced, Compared, Answers
<1> QED BY <1>2, <1>3, <1>5, <1>6 DEF NotifierInductive, NotifierShape

\* A friend who comes or goes: an arrival more, or one that is not on its way any longer.
LEMMA MovingBalances ==
  ASSUME WebInductive, NotifierInductive, NEW who \in Accounts, FriendMoves(who)
  PROVE  NotifierInductive'
<1> DEFINE comes == who \notin site.online
           came == [uiPast.came EXCEPT ![who] = IF comes THEN @ + 1 ELSE @]
<1>0. /\ site \in [owner : Seq(Accounts), revoked : SUBSET Tokens, online : SUBSET Accounts]
      /\ uiPast \in [came : [Accounts -> Nat], told : [Accounts -> Nat], base : SUBSET Accounts,
                     crossed : BOOLEAN]
  BY DEF WebInductive, WebShape, NotifierInductive, NotifierShape
<1>1. /\ uiPast' = [uiPast EXCEPT !.came = came] /\ came \in [Accounts -> Nat]
      /\ \A a \in Accounts : came[a] = IF a = who /\ comes THEN uiPast.came[a] + 1 ELSE uiPast.came[a]
      /\ site'.online = IF comes THEN site.online \cup {who} ELSE site.online \ {who}
      /\ UNCHANGED <<notifier, call>>
  BY <1>0 DEF FriendMoves
<1>2. UNCHANGED Poller
  BY <1>1 DEF Poller
<1>3. /\ uiPast'.told = uiPast.told /\ uiPast'.came = came /\ uiPast'.base = uiPast.base
      /\ uiPast'.crossed = uiPast.crossed
      /\ uiPast' \in [came : [Accounts -> Nat], told : [Accounts -> Nat], base : SUBSET Accounts,
                      crossed : BOOLEAN]
  <2> HIDE DEF came
  <2> QED BY <1>0, <1>1
<1>4. ASSUME NEW a \in Accounts, NEW from
      PROVE  Comes(a, from, site'.online) + uiPast.came[a] <= Comes(a, from, site.online) + came[a]
  <2>1. uiPast.came[a] \in Nat
    BY <1>0
  <2>2. came[a] = IF a = who /\ comes THEN uiPast.came[a] + 1 ELSE uiPast.came[a]
    BY <1>1
  <2>3. a \in site'.online <=> (IF a = who THEN comes ELSE a \in site.online)
    BY <1>1
  <2> HIDE DEF came
  <2> QED BY <2>1, <2>2, <2>3 DEF Comes
<1> HIDE DEF came
<1>5. ASSUME NEW a \in Accounts, Balanced(a) PROVE Balanced(a)'
  <2> DEFINE told == uiPast.told[a]
             was == uiPast.came[a]
             list == Comes(a, notifier.online, site.online)
             list1 == Comes(a, notifier.online, site'.online)
             answer == Comes(a, Poller.seen, site.online)
             answer1 == Comes(a, Poller.seen, site'.online)
             between == Comes(a, notifier.online, Poller.seen)
  <2>1. told \in Nat /\ was \in Nat /\ came[a] \in Nat /\ was <= came[a]
    BY <1>0, <1>1
  <2>2. {list, list1, answer, answer1, between} \subseteq Nat
    BY DEF Comes
  <2>3. list1 + was <= list + came[a] /\ answer1 + was <= answer + came[a]
    BY <1>4
  <2>4. /\ told <= was
        /\ Compared(a) => told + list <= was
        /\ Answers(a) => told + answer <= was
        /\ Compared(a) /\ Answers(a) => told + between + answer <= was
    BY <1>5 DEF Balanced
  <2>5. (Compared(a)' <=> Compared(a)) /\ (Answers(a)' <=> Answers(a))
    BY <1>1, <1>2, <1>3 DEF Compared, Answers
  <2> HIDE DEF told, was, list, list1, answer, answer1, between
  <2>6. /\ told <= came[a]
        /\ Compared(a) => told + list1 <= came[a]
        /\ Answers(a) => told + answer1 <= came[a]
        /\ Compared(a) /\ Answers(a) => told + between + answer1 <= came[a]
    BY <2>1, <2>2, <2>3, <2>4
  <2> QED BY <1>1, <1>2, <1>3, <2>5, <2>6
          DEF Balanced, told, was, list, list1, answer, answer1, between
<1>6. NotifierShape' /\ PollShape'
  BY <1>1, <1>2, <1>3 DEF NotifierInductive, NotifierShape, PollShape
<1> QED BY <1>3, <1>5, <1>6 DEF NotifierInductive

\* A call for the list begins with no answer.
LEMMA PollBalances ==
  ASSUME WebInductive, NotifierInductive, Poll
  PROVE  NotifierInductive'
<1>0. /\ "poll" \in Callers /\ call \in [Callers -> Calls]
      /\ notifier \in [on : BOOLEAN, polling : BOOLEAN, first : BOOLEAN, due : BOOLEAN,
                       online : SUBSET Accounts]
  BY DEF WebInductive, WebShape, NotifierInductive, NotifierShape, Callers
<1>1. UNCHANGED uiPast /\ site'.online = site.online
  BY DEF Poll
<1>2. Poller' = Poller \/ (~Poller'.got /\ Poller'.ops \in Seq(PollSteps))
  <2>1. CASE Started("poll", GetAccountFriends, {})
    <3> DEFINE begun == [NoCall EXCEPT !.busy = TRUE, !.ops = GetAccountFriends, !.who = {}]
    <3>1. ~begun.got /\ begun.ops = GetAccountFriends
      BY DEF NoCall
    <3>2. call' = [call EXCEPT !["poll"] = begun]
      BY <2>1 DEF Started
    <3>3. GetAccountFriends \in Seq(PollSteps)
      BY DEF GetAccountFriends, PollSteps
    <3> HIDE DEF begun
    <3> QED BY <1>0, <3>1, <3>2, <3>3 DEF Poller
  <2>2. CASE UNCHANGED call
    BY <2>2 DEF Poller
  <2> QED BY <2>1, <2>2 DEF Poll
<1>3. /\ notifier'.first = notifier.first /\ notifier'.online = notifier.online
      /\ notifier' \in [on : BOOLEAN, polling : BOOLEAN, first : BOOLEAN, due : BOOLEAN,
                        online : SUBSET Accounts]
  <2> DEFINE yes == TRUE
             no == FALSE
  <2>1. yes \in BOOLEAN /\ no \in BOOLEAN
    OBVIOUS
  <2>2. \/ notifier' = [notifier EXCEPT !.due = no]
        \/ notifier' = [notifier EXCEPT !.due = no, !.polling = yes]
    BY DEF Poll
  <2> HIDE DEF yes, no
  <2> QED BY <1>0, <2>1, <2>2
<1>4. NotifierShape'
  BY <1>1, <1>3 DEF NotifierInductive, NotifierShape
<1>5. PollShape'
  <2>1. CASE Poller' = Poller
    BY <2>1 DEF NotifierInductive, PollShape
  <2>2. CASE ~Poller'.got /\ Poller'.ops \in Seq(PollSteps)
    BY <2>2 DEF PollShape
  <2> QED BY <1>2, <2>1, <2>2
<1>6. ASSUME NEW a \in Accounts, Balanced(a) PROVE Balanced(a)'
  <2>1. Compared(a)' <=> Compared(a)
    BY <1>1, <1>3 DEF Compared
  <2>2. CASE Poller' = Poller
    BY <1>1, <1>3, <1>6, <2>1, <2>2 DEF Balanced, Answers
  <2>3. CASE ~Poller'.got
    BY <1>1, <1>3, <1>6, <2>1, <2>3 DEF Balanced, Answers
  <2> QED BY <1>2, <2>2, <2>3
<1> QED BY <1>1, <1>4, <1>5, <1>6 DEF NotifierInductive

\* An answer that is applied becomes the list, and what it tells was counted.
LEMMA AnsweredBalances ==
  ASSUME WebInductive, NotifierInductive, PollAnswered
  PROVE  NotifierInductive'
<1>0. /\ "poll" \in Callers /\ call \in [Callers -> Calls] /\ Poller \in Calls
      /\ notifier \in [on : BOOLEAN, polling : BOOLEAN, first : BOOLEAN, due : BOOLEAN,
                       online : SUBSET Accounts]
      /\ uiPast \in [came : [Accounts -> Nat], told : [Accounts -> Nat], base : SUBSET Accounts,
                     crossed : BOOLEAN]
  BY DEF WebInductive, WebShape, NotifierInductive, NotifierShape, Callers, Poller
<1>1. site'.online = site.online /\ Poller' = NoCall
  BY <1>0 DEF PollAnswered, Poller
<1>2. PollShape' /\ \A a \in Accounts : ~Answers(a)'
  BY <1>1 DEF PollShape, Answers, NoCall
<1> DEFINE yes == TRUE
           no == FALSE
<1>3. yes \in BOOLEAN /\ no \in BOOLEAN /\ ~no
  OBVIOUS
<1>4. CASE notifier' = [notifier EXCEPT !.polling = FALSE] /\ UNCHANGED uiPast
  <2>0. notifier' = [notifier EXCEPT !.polling = no]
    BY <1>4
  <2> HIDE DEF no
  <2>1. /\ notifier'.first = notifier.first /\ notifier'.online = notifier.online
        /\ notifier' \in [on : BOOLEAN, polling : BOOLEAN, first : BOOLEAN, due : BOOLEAN,
                          online : SUBSET Accounts]
    BY <1>0, <1>3, <2>0
  <2>2. NotifierShape'
    BY <1>4, <2>1 DEF NotifierInductive, NotifierShape
  <2>3. ASSUME NEW a \in Accounts, Balanced(a) PROVE Balanced(a)'
    <3>1. Compared(a)' <=> Compared(a)
      BY <1>4, <2>1 DEF Compared
    <3> QED BY <1>1, <1>2, <1>4, <2>1, <2>3, <3>1 DEF Balanced
  <2> QED BY <1>2, <1>4, <2>2, <2>3 DEF NotifierInductive
<1>5. CASE Poller.got /\ SignedIn
  <2> DEFINE same == \E a \in Accounts : Poller.who = {a} /\ uiPast.base \subseteq {a}
             tells(a) == ~notifier.first /\ a \in Poller.seen \ notifier.online
             told == [a \in Accounts |-> uiPast.told[a] + IF tells(a) THEN 1 ELSE 0]
             crossed == uiPast.crossed \/ ~same
  <2>1. /\ notifier' = [notifier EXCEPT !.polling = no, !.first = no, !.online = Poller.seen]
        /\ uiPast' = [uiPast EXCEPT !.told = told, !.base = Poller.who, !.crossed = crossed]
    BY <1>5 DEF PollAnswered, Poller
  <2>2. /\ told \in [Accounts -> Nat] /\ crossed \in BOOLEAN
        /\ \A a \in Accounts : told[a] = uiPast.told[a] + IF tells(a) THEN 1 ELSE 0
    BY <1>0
  <2>3. /\ Poller.seen \in SUBSET Accounts /\ Poller.who \in SUBSET Accounts
        /\ Poller.who # {} /\ Poller.seen \subseteq Poller.who
    BY <1>0, <1>5 DEF Calls, NotifierInductive, PollShape
  <2> HIDE DEF told, no, crossed
  <2>4. /\ ~notifier'.first /\ notifier'.online = Poller.seen
        /\ notifier' \in [on : BOOLEAN, polling : BOOLEAN, first : BOOLEAN, due : BOOLEAN,
                          online : SUBSET Accounts]
    BY <1>0, <1>3, <2>1, <2>3
  <2>5. /\ uiPast'.told = told /\ uiPast'.came = uiPast.came /\ uiPast'.base = Poller.who
        /\ uiPast'.crossed = crossed
        /\ uiPast' \in [came : [Accounts -> Nat], told : [Accounts -> Nat], base : SUBSET Accounts,
                        crossed : BOOLEAN]
    BY <1>0, <2>1, <2>2, <2>3
  <2>6. NotifierShape'
    BY <2>3, <2>4, <2>5 DEF NotifierShape
  <2>7. ASSUME ~crossed, NEW a \in Accounts PROVE Balanced(a)'
    <3>1. PICK b \in Accounts : Poller.who = {b} /\ uiPast.base \subseteq {b}
      BY <2>7 DEF crossed
    <3>2. ~notifier.first => uiPast.base = {b}
      BY <3>1 DEF NotifierInductive, NotifierShape
    <3>3. Balanced(a)
      BY <2>7 DEF crossed, NotifierInductive
    <3>4. uiPast.told[a] \in Nat /\ uiPast.came[a] \in Nat
      BY <1>0
    <3>5. (Compared(a)' <=> a = b) /\ (Answers(a) <=> a = b)
      BY <1>5, <2>4, <2>5, <3>1 DEF Compared, Answers
    <3>6. told[a] = uiPast.told[a] + IF tells(a) THEN 1 ELSE 0
      BY <2>2
    <3>7. CASE a # b
      <4>1. ~tells(a)
        BY <2>3, <3>1, <3>7
      <4>2. told[a] <= uiPast.came[a]
        BY <3>3, <3>4, <3>6, <4>1 DEF Balanced
      <4> QED BY <1>2, <2>5, <3>5, <3>7, <4>2 DEF Balanced
    <3>8. CASE a = b
      <4> DEFINE on == Comes(a, Poller.seen, site.online)
                 between == Comes(a, notifier.online, Poller.seen)
      <4>1. on \in Nat /\ between \in Nat /\ (tells(a) => between = 1)
        BY DEF Comes
      <4>2. uiPast.told[a] + on <= uiPast.came[a]
        BY <3>3, <3>5, <3>8 DEF Balanced
      <4>3. ~notifier.first => uiPast.told[a] + between + on <= uiPast.came[a]
        BY <3>2, <3>3, <3>5, <3>8 DEF Balanced, Compared
      <4> HIDE DEF on, between
      <4>4. told[a] + on <= uiPast.came[a] /\ told[a] <= uiPast.came[a]
        BY <3>4, <3>6, <4>1, <4>2, <4>3
      <4> QED BY <1>1, <1>2, <2>4, <2>5, <4>4 DEF Balanced, on
    <3> QED BY <3>7, <3>8
  <2> QED BY <1>2, <2>5, <2>6, <2>7 DEF NotifierInductive
<1> QED BY <1>4, <1>5 DEF PollAnswered, Poller

\* Every step of the process keeps what was told in balance with what came.
THEOREM NotifierInductiveHolds == Spec => []NotifierInductive
<1>1. WebInductive /\ NotifierInductive /\ [Next]_clientVars => NotifierInductive'
  <2> SUFFICES ASSUME WebInductive, NotifierInductive, NotifierNext PROVE NotifierInductive'
    BY NotifierSteps DEF WebInductive
  <2>1. CASE Beyond /\ Poller' = Poller
    <3>1. NotifierShape' /\ PollShape'
      BY <2>1 DEF NotifierInductive, NotifierShape, PollShape, Beyond
    <3>2. ASSUME NEW a \in Accounts, Balanced(a) PROVE Balanced(a)'
      BY <2>1, <3>2 DEF Balanced, Compared, Answers, Beyond
    <3> QED BY <2>1, <3>1, <3>2 DEF NotifierInductive, Beyond
  <2>2. CASE Beyond /\ CallGoesOn("poll")
    BY <2>2, PollAsks, AskingBalances DEF NotifierInductive
  <2>3. CASE Poll
    BY <2>3, PollBalances
  <2>4. CASE PollAnswered
    BY <2>4, AnsweredBalances
  <2>5. CASE Resets \/ NotifierDies
    BY <2>5, ForgettingBalances
  <2>6. ASSUME NEW who \in Accounts, FriendMoves(who) PROVE NotifierInductive'
    BY <2>6, MovingBalances
  <2> QED BY <2>1, <2>2, <2>3, <2>4, <2>5, <2>6 DEF NotifierNext
<1> QED BY NotifierStarts, WebInductiveHolds, <1>1, PTL DEF Spec

\* A friend is announced at most as often as they came online, however polls, lost
\* answers, sign-ins, sign-outs, profile switches and crashes come together, until an
\* answer holds the data of two accounts or is compared with another account's (the
\* handlers of FriendNotifier).
THEOREM TellsOnce == Spec => []ToldOnce
<1>1. NotifierInductive => ToldOnce
  BY DEF NotifierInductive, Balanced, ToldOnce
<1> QED BY NotifierInductiveHolds, <1>1, PTL

-----------------------------------------------------------------------------
(* Positions of a sequence. *)

\* One more entry, or none.
PickedStep(s, places, picked, n) ==
  IF n = 0 THEN <<>> ELSE IF n \in places THEN Append(picked[n - 1], s[n]) ELSE picked[n - 1]

PickedUpTo(s, places, picked, n) == picked = [i \in 0..n |-> PickedStep(s, places, picked, i)]

\* The entries can be walked as far as one likes, one after the other.
LEMMA PickedWalks ==
  ASSUME NEW s, NEW places, NEW n \in Nat
  PROVE  \E picked : PickedUpTo(s, places, picked, n)
<1> DEFINE Stuck == {i \in Nat : ~\E picked : PickedUpTo(s, places, picked, i)}
<1>1. SUFFICES Stuck = {}
  OBVIOUS
<1>2. SUFFICES ASSUME Stuck # {} PROVE FALSE
  OBVIOUS
<1>3. PICK m \in Stuck : \A i \in Stuck : m <= i
  BY <1>2, LeastNumber
<1>4. CASE m = 0
  <2>1. PickedUpTo(s, places, [i \in 0..0 |-> <<>>], 0)
    BY DEF PickedUpTo, PickedStep
  <2> QED BY <1>3, <1>4, <2>1
<1>5. CASE m # 0
  <2>1. m - 1 \in Nat /\ m - 1 \notin Stuck /\ m \in Nat
    BY <1>3, <1>5
  <2>2. PICK picked : PickedUpTo(s, places, picked, m - 1)
    BY <2>1
  <2> DEFINE more == [i \in 0..m |-> IF i = m THEN PickedStep(s, places, picked, m) ELSE picked[i]]
  <2>3. \A i \in 0..(m - 1) : more[i] = picked[i] /\ picked[i] = PickedStep(s, places, picked, i)
    <3>1. \A i \in 0..(m - 1) : picked[i] = PickedStep(s, places, picked, i)
      BY <2>2 DEF PickedUpTo
    <3>2. \A i \in 0..(m - 1) : i \in 0..m /\ i # m
      BY <2>1
    <3> QED BY <3>1, <3>2
  <2>4. \A i \in 0..m : PickedStep(s, places, more, i) = PickedStep(s, places, picked, i)
    BY <2>1, <2>3 DEF PickedStep
  <2>5. \A i \in 0..m : more[i] = PickedStep(s, places, more, i)
    <3> SUFFICES ASSUME NEW i \in 0..m PROVE more[i] = PickedStep(s, places, more, i)
      OBVIOUS
    <3>1. CASE i = m
      BY <2>4, <3>1
    <3>2. CASE i # m
      BY <2>1, <2>3, <2>4, <3>2
    <3> QED BY <3>1, <3>2
  <2>6. PickedUpTo(s, places, more, m)
    <3> DEFINE again == [i \in 0..m |-> PickedStep(s, places, more, i)]
    <3>1. more = again
      BY <2>5
    <3> QED BY <3>1 DEF PickedUpTo
  <2> QED BY <1>3, <2>6
<1> QED BY <1>4, <1>5

\* Picked gives the entries at those positions, and no others.
LEMMA PickedEntries ==
  ASSUME NEW S, NEW s \in Seq(S), NEW places
  PROVE  /\ Picked(s, places) \in Seq(S)
         /\ \A i \in DOMAIN s \cap places :
              \E k \in DOMAIN Picked(s, places) : Picked(s, places)[k] = s[i]
         /\ \A k \in DOMAIN Picked(s, places) :
              \E i \in DOMAIN s \cap places : Picked(s, places)[k] = s[i]
<1> DEFINE picked == CHOOSE q : PickedUpTo(s, places, q, Len(s))
<1>0. Len(s) \in Nat /\ DOMAIN s = 1..Len(s)
  OBVIOUS
<1>1. PickedUpTo(s, places, picked, Len(s))
  <2>1. \E q : PickedUpTo(s, places, q, Len(s))
    BY <1>0, PickedWalks
  <2> QED BY <2>1, Zenon
<1>2. Picked(s, places) = picked[Len(s)]
  BY DEF Picked, PickedUpTo, PickedStep
<1> HIDE DEF picked
<1>3. \A n \in 0..Len(s) : picked[n] = PickedStep(s, places, picked, n)
  BY <1>1 DEF PickedUpTo
<1>a. \A n \in 0..Len(s) :
        /\ n = 0 => picked[n] = <<>>
        /\ n # 0 /\ n \in places => picked[n] = Append(picked[n - 1], s[n])
        /\ n # 0 /\ n \notin places => picked[n] = picked[n - 1]
  BY <1>3 DEF PickedStep
<1> DEFINE Right(n) ==
      /\ picked[n] \in Seq(S)
      /\ \A i \in 1..n \cap places : \E k \in DOMAIN picked[n] : picked[n][k] = s[i]
      /\ \A k \in DOMAIN picked[n] : \E i \in 1..n \cap places : picked[n][k] = s[i]
<1> DEFINE Wrong == {n \in 0..Len(s) : ~Right(n)}
<1>4. Wrong = {}
  <2> SUFFICES ASSUME Wrong # {} PROVE FALSE
    OBVIOUS
  <2>1. PICK m \in Wrong : \A n \in Wrong : m <= n
    <3>1. Wrong \subseteq Nat
      BY <1>0
    <3> HIDE DEF Wrong
    <3> QED BY <3>1, LeastNumber
  <2>a. m \in 0..Len(s) /\ m \in Nat /\ ~Right(m)
    BY <1>0, <2>1
  <2>2. m # 0
    <3> SUFFICES ASSUME m = 0 PROVE FALSE
      OBVIOUS
    <3>1. picked[m] = <<>>
      BY <1>a, <2>a
    <3>2. 1..m = {}
      BY <2>a
    <3> QED BY <2>a, <3>1, <3>2
  <2>3. m \in 1..Len(s) /\ m - 1 \in 0..Len(s) /\ Right(m - 1)
    <3>1. m - 1 \in 0..Len(s) /\ m \in 1..Len(s) /\ ~(m <= m - 1)
      BY <1>0, <2>a, <2>2
    <3> HIDE DEF Right
    <3> QED BY <2>1, <3>1
  <2>4. CASE m \in places
    <3>1. picked[m] = Append(picked[m - 1], s[m]) /\ s[m] \in S
      BY <1>0, <1>a, <2>a, <2>2, <2>3, <2>4
    <3> DEFINE old == picked[m - 1]
               new == picked[m]
    <3>a. old \in Seq(S) /\ new = Append(old, s[m])
      BY <2>3, <3>1
    <3>2. /\ old \in Seq(S) /\ new = Append(old, s[m]) /\ new \in Seq(S)
          /\ DOMAIN old = 1..Len(old) /\ DOMAIN new = 1..(Len(old) + 1) /\ Len(old) \in Nat
          /\ new[Len(old) + 1] = s[m] /\ \A k \in DOMAIN old : new[k] = old[k]
      <4> HIDE DEF old, new
      <4> QED BY <3>1, <3>a
    <3>3. 1..m = 1..(m - 1) \cup {m}
      BY <2>3
    <3>4. /\ \A i \in 1..(m - 1) \cap places : \E k \in DOMAIN old : old[k] = s[i]
          /\ \A k \in DOMAIN old : \E i \in 1..(m - 1) \cap places : old[k] = s[i]
      BY <2>3
    <3> HIDE DEF old, new
    <3>5. \A i \in 1..m \cap places : \E k \in DOMAIN new : new[k] = s[i]
      <4> SUFFICES ASSUME NEW i \in 1..m \cap places PROVE \E k \in DOMAIN new : new[k] = s[i]
        OBVIOUS
      <4>1. CASE i = m
        <5>1. Len(old) + 1 \in DOMAIN new
          BY <3>2
        <5> QED BY <3>2, <4>1, <5>1
      <4>2. CASE i # m
        <5>1. PICK k \in DOMAIN old : old[k] = s[i]
          BY <3>3, <3>4, <4>2
        <5>2. k \in DOMAIN new /\ new[k] = s[i]
          BY <3>2, <5>1
        <5> QED BY <5>2
      <4> QED BY <4>1, <4>2
    <3>6. \A k \in DOMAIN new : \E i \in 1..m \cap places : new[k] = s[i]
      <4> SUFFICES ASSUME NEW k \in DOMAIN new PROVE \E i \in 1..m \cap places : new[k] = s[i]
        OBVIOUS
      <4>1. CASE k \in DOMAIN old
        BY <3>2, <3>3, <3>4, <4>1
      <4>2. CASE k = Len(old) + 1
        BY <2>3, <2>4, <3>2, <4>2
      <4> QED BY <3>2, <4>1, <4>2
    <3> QED BY <2>1, <3>2, <3>5, <3>6 DEF new
  <2>5. CASE m \notin places
    <3>1. picked[m] = picked[m - 1]
      BY <1>3, <2>2, <2>3, <2>5 DEF PickedStep
    <3>2. 1..m \cap places = 1..(m - 1) \cap places
      BY <2>3, <2>5
    <3> QED BY <2>1, <2>3, <3>1, <3>2
  <2> QED BY <2>4, <2>5
<1>5. Right(Len(s))
  <2>1. Len(s) \in 0..Len(s)
    BY <1>0
  <2> HIDE DEF Right
  <2> QED BY <1>4, <2>1
<1> HIDE DEF Right
<1> QED BY <1>0, <1>2, <1>5 DEF Right

-----------------------------------------------------------------------------
(* The account window. *)

Windows == [open : BOOLEAN, pages : Seq(PageSet), page : PageSet, title : Titles \cup {"none"},
            asked : [Titled -> Titles \cup {"none"}]]

Asked == [page : PageSet, force : BOOLEAN]

\* Every job has a page, and the worker's call belongs to a job.
WinShape ==
  /\ win \in Windows /\ win.pages # <<>>
  /\ jobs \in Seq(Job) /\ running \in Job \cup {NoJob} /\ posted \in Seq(Result)
  /\ shown \in [Drawn -> SUBSET Accounts] /\ fresh \in [Drawn -> BOOLEAN]
  /\ dialog \in {"closed", "running", "left"}
  /\ uiLeft \in [ui : Nat, sign : Nat, poll : Nat, friend : Nat]
  /\ call["worker"].busy => running # NoJob

\* A job, or its result, that is to fill a page.
For(r, p) == ~r.act /\ p \in WithBadge({r.page})
Waits(queue, p) == \E i \in DOMAIN queue : For(queue[i], p)

Mine == {Owner(Held.bearer)}

\* The worker's call has asked with the session that is held, if with any.
CallIsMine ==
  /\ {call["worker"].bound, call["worker"].sent} \subseteq {0, Held.bearer}
  /\ call["worker"].who \subseteq Mine

\* The last answer on its way to a page.
LastIs(queue, p, whose) ==
  \A i \in DOMAIN queue :
    For(queue[i], p) /\ (\A j \in DOMAIN queue : j > i => ~For(queue[j], p)) =>
      queue[i].who \subseteq whose

\* A page that is fresh has the last word still before it: a job that is queued, one under
\* way that asks with the session held now, an answer to such a job, or what it shows.
PageGood(p) ==
  fresh[p] /\ ~Waits(jobs, p) =>
    /\ For(running, p) => CallIsMine
    /\ ~For(running, p) => LastIs(posted, p, Mine)
    /\ ~For(running, p) /\ ~Waits(posted, p) => shown[p] \subseteq Mine

PagesGood == SignedIn => \A p \in Drawn : PageGood(p)

PagesInductive == WinShape /\ PagesGood

\* What a page's badge goes with.
LEMMA BadgeFacts ==
  ASSUME NEW p \in Drawn
  PROVE  /\ ~For(NoJob, p)
         /\ \A pages, q : p \in WithBadge({q}) /\ q \in pages => p \in WithBadge(pages)
         /\ \A pages : p \in WithBadge(pages) => \E q \in pages : p \in WithBadge({q})
  BY DEF For, NoJob, WithBadge, Drawn, PageSet

\* The window starts closed, with nothing fresh.
LEMMA PagesStart == Init => PagesInductive
<1> SUFFICES ASSUME Init PROVE PagesInductive
  OBVIOUS
<1> DEFINE none == [p \in Drawn |-> {}]
           old == [p \in Drawn |-> FALSE]
<1>1. PICK s \in Scenarios : WinInit(s.ui, s.slices, s.notifies)
  BY DEF Init
<1>2. /\ s.ui \in [ui : Nat, sign : Nat, poll : Nat, friend : Nat]
      /\ s.slices \subseteq Seq(PageSet) \ {<<>>}
  BY ScenariosAssumption
<1>3. PICK pages \in s.slices : win = Closed(pages)
  BY <1>1 DEF WinInit
<1>4. /\ jobs = <<>> /\ running = NoJob /\ posted = <<>> /\ shown = none /\ fresh = old
      /\ dialog = "closed" /\ uiLeft = s.ui
  BY <1>1 DEF WinInit
<1>5. pages \in Seq(PageSet) /\ pages # <<>> /\ Head(pages) \in PageSet
  BY <1>2, <1>3
<1>6. none \in [Drawn -> SUBSET Accounts] /\ old \in [Drawn -> BOOLEAN] /\ \A p \in Drawn : ~old[p]
  OBVIOUS
<1>7. win \in Windows /\ win.pages # <<>>
  BY <1>3, <1>5 DEF Closed, Windows, Unasked
<1>8. ~call["worker"].busy
  BY DEF Init, WebInit, Callers, NoCall
<1> HIDE DEF none, old
<1>9. WinShape
  BY <1>2, <1>4, <1>6, <1>7, <1>8 DEF WinShape
<1>10. PagesGood
  BY <1>4, <1>6 DEF PagesGood, PageGood
<1> QED BY <1>9, <1>10 DEF PagesInductive

\* The session that is held is one the site has given.
LEMMA HeldKnown == WebInductive => Held.bearer \in 0..Len(site.owner)
<1> SUFFICES ASSUME WebInductive PROVE Held.bearer \in 0..Len(site.owner)
  OBVIOUS
<1>0. /\ active \in Files /\ Shared \in Files /\ None \in AccountFile /\ None.bearer = 0
      /\ disk \in [Files -> AccountFile] /\ mem.held \in AccountFile /\ Len(site.owner) \in Nat
  BY WebsiteAssumption DEF WebInductive, WebShape, Files, None, AccountFile
<1>1. Held \in {mem.held} \cup {disk[f] : f \in Files}
  <2>1. CASE Migrated = disk
    BY <1>0, <2>1 DEF Held
  <2>2. CASE active # Shared /\ Migrated = [disk EXCEPT ![active] = disk[Shared], ![Shared] = None]
    BY <1>0, <2>2 DEF Held
  <2> QED BY <2>1, <2>2 DEF Migrated
<1>2. /\ mem.held.bearer \in Nat /\ mem.held.bearer <= Len(site.owner)
      /\ \A f \in Files : disk[f].bearer \in Nat /\ disk[f].bearer <= Len(site.owner)
  BY <1>0 DEF WebInductive, TokensKnown, AccountFile
<1> QED BY <1>0, <1>1, <1>2

\* A getter gives the account that was held before it.
LEMMA SameAccount ==
  ASSUME EnsureLoaded \/ Unloaded, active' = active
  PROVE  Held' = Held
<1>1. CASE EnsureLoaded
  BY <1>1 DEF EnsureLoaded, Held, IsLoaded
<1>2. CASE Unloaded
  BY <1>2 DEF Unloaded, Held, IsLoaded, Migrated
<1> QED BY <1>1, <1>2

\* The site takes no token back from whom it gave it to.
Owned == \A n \in 1..Len(site.owner) : site'.owner[n] = site.owner[n]

\* A step that lets the pages be, or takes what they show for another account's.
PagesWait ==
  /\ UNCHANGED <<jobs, running, posted, shown>>
  /\ call'["worker"] = call["worker"]
  /\ \A p \in Drawn : fresh'[p] => fresh[p] /\ Held'.bearer = Held.bearer

\* Such a step keeps what is on its way to a page the account's.
LEMMA PagesStay ==
  ASSUME WebInductive, PagesGood, Owned, PagesWait
  PROVE  PagesGood'
<1> SUFFICES ASSUME SignedIn', NEW p \in Drawn, fresh'[p] PROVE PageGood(p)'
  BY DEF PagesGood, PageGood
<1>1. fresh[p] /\ Held'.bearer = Held.bearer /\ SignedIn
  BY DEF PagesWait, SignedIn
<1>2. Mine' = Mine
  <2>1. Held.bearer \in 1..Len(site.owner)
    BY <1>1, HeldKnown DEF WebInductive, WebShape, SignedIn
  <2> QED BY <1>1, <2>1 DEF Owned, Mine, Owner
<1>3. PageGood(p)
  BY <1>1 DEF PagesGood
<1>4. /\ Waits(jobs, p)' = Waits(jobs, p) /\ Waits(posted, p)' = Waits(posted, p)
      /\ For(running, p)' = For(running, p) /\ shown'[p] = shown[p]
  BY DEF PagesWait, Waits, For
<1>5. LastIs(posted, p, Mine)' = LastIs(posted, p, Mine)
  BY <1>2 DEF PagesWait, LastIs, For
<1>6. CallIsMine' = CallIsMine
  BY <1>1, <1>2 DEF PagesWait, CallIsMine
<1> QED BY <1>1, <1>2, <1>3, <1>4, <1>5, <1>6, Zenon DEF PageGood

\* What waits in two queues together waits in one of them.
LEMMA QueuesJoin ==
  ASSUME NEW S, NEW q \in Seq(S), NEW more \in Seq(S), NEW p
  PROVE  Waits(q \o more, p) <=> Waits(q, p) \/ Waits(more, p)
<1> DEFINE both == q \o more
<1>1. /\ \A i \in DOMAIN q : i \in DOMAIN both /\ both[i] = q[i]
      /\ \A i \in DOMAIN more : Len(q) + i \in DOMAIN both /\ both[Len(q) + i] = more[i]
  OBVIOUS
<1>2. \A i \in DOMAIN both : \/ i \in DOMAIN q /\ both[i] = q[i]
                             \/ i - Len(q) \in DOMAIN more /\ both[i] = more[i - Len(q)]
  OBVIOUS
<1> HIDE DEF both
<1> QED BY <1>1, <1>2 DEF Waits, both

\* What waits in a queue is its head or waits behind it, and its last answer stays last.
LEMMA HeadLeaves ==
  ASSUME NEW S, NEW q \in Seq(S), q # <<>>, NEW p, NEW whose
  PROVE  /\ Waits(q, p) <=> For(Head(q), p) \/ Waits(Tail(q), p)
         /\ LastIs(q, p, whose) => LastIs(Tail(q), p, whose)
         /\ LastIs(q, p, whose) /\ For(Head(q), p) /\ ~Waits(Tail(q), p) =>
              Head(q).who \subseteq whose
<1> DEFINE rest == Tail(q)
<1>1. /\ Head(q) = q[1] /\ 1 \in DOMAIN q /\ DOMAIN q \subseteq Nat /\ DOMAIN rest \subseteq Nat
      /\ \A i \in DOMAIN rest : i + 1 \in DOMAIN q /\ rest[i] = q[i + 1]
      /\ \A i \in DOMAIN q : i = 1 \/ (i > 1 /\ i - 1 \in DOMAIN rest /\ rest[i - 1] = q[i])
  OBVIOUS
<1> HIDE DEF rest
<1>2. Waits(q, p) <=> For(Head(q), p) \/ Waits(rest, p)
  BY <1>1 DEF Waits
<1>3. ASSUME LastIs(q, p, whose) PROVE LastIs(rest, p, whose)
  <2> SUFFICES ASSUME NEW i \in DOMAIN rest, For(rest[i], p),
                      \A j \in DOMAIN rest : j > i => ~For(rest[j], p)
               PROVE  rest[i].who \subseteq whose
    BY DEF LastIs
  <2>1. i + 1 \in DOMAIN q /\ rest[i] = q[i + 1]
    BY <1>1
  <2>2. ASSUME NEW j \in DOMAIN q, j > i + 1 PROVE ~For(q[j], p)
    <3>1. j - 1 \in DOMAIN rest /\ rest[j - 1] = q[j] /\ j - 1 > i
      BY <1>1, <2>2
    <3> QED BY <3>1
  <2> QED BY <1>3, <2>1, <2>2 DEF LastIs
<1>4. ASSUME LastIs(q, p, whose), For(Head(q), p), ~Waits(rest, p) PROVE Head(q).who \subseteq whose
  <2>1. ASSUME NEW j \in DOMAIN q, j > 1 PROVE ~For(q[j], p)
    <3>1. j - 1 \in DOMAIN rest /\ rest[j - 1] = q[j]
      BY <1>1, <2>1
    <3> QED BY <1>4, <3>1 DEF Waits
  <2> QED BY <1>1, <1>4, <2>1 DEF LastIs
<1> QED BY <1>2, <1>3, <1>4 DEF rest

\* An answer that comes last is the last, and another is that only for its own page.
LEMMA OneMore ==
  ASSUME NEW S, NEW q \in Seq(S), NEW r \in S, NEW p, NEW whose
  PROVE  /\ Waits(Append(q, r), p) <=> Waits(q, p) \/ For(r, p)
         /\ LastIs(q, p, whose) /\ ~For(r, p) => LastIs(Append(q, r), p, whose)
         /\ For(r, p) /\ r.who \subseteq whose => LastIs(Append(q, r), p, whose)
<1> DEFINE more == Append(q, r)
           last == Len(q) + 1
<1>1. /\ DOMAIN more = DOMAIN q \cup {last} /\ more[last] = r /\ last \in Nat
      /\ \A i \in DOMAIN q : more[i] = q[i] /\ i < last /\ i \in Nat
  OBVIOUS
<1> HIDE DEF more, last
<1>2. Waits(more, p) <=> Waits(q, p) \/ For(r, p)
  BY <1>1 DEF Waits
<1>3. LastIs(q, p, whose) /\ ~For(r, p) => LastIs(more, p, whose)
  BY <1>1 DEF LastIs
<1>4. For(r, p) /\ r.who \subseteq whose => LastIs(more, p, whose)
  BY <1>1 DEF LastIs
<1> QED BY <1>2, <1>3, <1>4 DEF more

\* What a reload asks for when somebody is signed in: a page that comes to be fresh has a
\* job waiting, and no page is emptied.
LEMMA ReloadAsks ==
  ASSUME WinShape, NEW w \in Windows, NEW signedIn \in BOOLEAN, signedIn,
         NEW pages \in Seq(Asked), Reload(w, signedIn, pages)
  PROVE  /\ jobs' \in Seq(Job) /\ shown' = shown
         /\ \A p \in Drawn : Waits(jobs, p) => Waits(jobs', p)
         /\ \A p \in Drawn : fresh'[p] /\ ~fresh[p] => Waits(jobs', p)
<1> DEFINE asks == {i \in DOMAIN pages : (pages[i].page \in Public \/ signedIn) /\ Asks(w, pages[i])}
           asking == Picked(pages, asks)
           asked == {pages[i].page : i \in asks}
           emptied == IF signedIn THEN {} ELSE {pages[i].page : i \in DOMAIN pages} \ Public
           more == [i \in DOMAIN asking |->
                      [page |-> asking[i].page, act |-> FALSE, title |-> w.title]]
<1>1. /\ jobs' = jobs \o more
      /\ shown' = [p \in Drawn |-> IF p \in WithBadge(emptied) THEN {} ELSE shown[p]]
      /\ fresh' = [p \in Drawn |-> fresh[p] \/ p \in WithBadge(asked \cup emptied)]
  BY DEF Reload, Post
<1>2. asks \subseteq DOMAIN pages /\ emptied = {}
  OBVIOUS
<1>3. /\ asking \in Seq(Asked)
      /\ \A i \in DOMAIN pages \cap asks : \E k \in DOMAIN asking : asking[k] = pages[i]
  <2> HIDE DEF asks
  <2>1. asking = Picked(pages, asks)
    OBVIOUS
  <2> HIDE DEF asking
  <2> QED BY <2>1, PickedEntries
<1> HIDE DEF asks, asking
<1>4. more \in Seq(Job)
  <2>1. w.title \in Titles \cup {"none"}
    BY DEF Windows
  <2>2. DOMAIN asking = 1..Len(asking) /\ Len(asking) \in Nat
    BY <1>3
  <2>3. \A i \in DOMAIN asking : asking[i].page \in PageSet
    <3>1. \A i \in DOMAIN asking : asking[i] \in Asked
      BY <1>3
    <3> QED BY <3>1 DEF Asked
  <2> QED BY <2>1, <2>2, <2>3 DEF Job
<1>5. \A i \in DOMAIN more : more[i].page = asking[i].page /\ ~more[i].act
  OBVIOUS
<1>6. DOMAIN more = DOMAIN asking
  OBVIOUS
<1>7. jobs \in Seq(Job) /\ shown \in [Drawn -> SUBSET Accounts] /\ fresh \in [Drawn -> BOOLEAN]
  BY DEF WinShape
<1> HIDE DEF more
<1>8. ASSUME NEW p \in Drawn PROVE Waits(jobs', p) <=> Waits(jobs, p) \/ Waits(more, p)
  BY <1>1, <1>4, <1>7, QueuesJoin
<1>9. WithBadge({}) = {}
  BY DEF WithBadge
<1>10. shown' = shown
  BY <1>1, <1>2, <1>7, <1>9
<1>11. ASSUME NEW p \in Drawn, fresh'[p], ~fresh[p] PROVE Waits(jobs', p)
  <2>1. p \in WithBadge(asked)
    BY <1>1, <1>2, <1>11
  <2>2. PICK i \in asks : p \in WithBadge({pages[i].page})
    <3>1. \E q \in asked : p \in WithBadge({q})
      <4> HIDE DEF asked
      <4> QED BY <2>1, BadgeFacts
    <3> QED BY <3>1
  <2>3. PICK k \in DOMAIN asking : asking[k] = pages[i]
    BY <1>2, <1>3, <2>2
  <2>4. k \in DOMAIN more /\ For(more[k], p)
    BY <1>5, <1>6, <2>2, <2>3 DEF For
  <2> QED BY <1>8, <2>4 DEF Waits
<1>12. jobs' \in Seq(Job)
  BY <1>1, <1>4, <1>7
<1> QED BY <1>8, <1>10, <1>11, <1>12

\* What a reload leaves behind, whoever is signed in.
LEMMA ReloadShape ==
  ASSUME WinShape, NEW w \in Windows, NEW signedIn \in BOOLEAN, NEW pages \in Seq(Asked),
         Reload(w, signedIn, pages)
  PROVE  /\ jobs' \in Seq(Job) /\ win' \in Windows /\ win'.pages = w.pages
         /\ shown' \in [Drawn -> SUBSET Accounts] /\ fresh' \in [Drawn -> BOOLEAN]
<1> DEFINE asks == {i \in DOMAIN pages : (pages[i].page \in Public \/ signedIn) /\ Asks(w, pages[i])}
           asking == Picked(pages, asks)
           asked == {pages[i].page : i \in asks}
           emptied == IF signedIn THEN {} ELSE {pages[i].page : i \in DOMAIN pages} \ Public
           more == [i \in DOMAIN asking |->
                      [page |-> asking[i].page, act |-> FALSE, title |-> w.title]]
           titles == [p \in Titled |-> IF p \in asked THEN w.title ELSE w.asked[p]]
<1>1. /\ jobs' = jobs \o more
      /\ shown' = [p \in Drawn |-> IF p \in WithBadge(emptied) THEN {} ELSE shown[p]]
      /\ fresh' = [p \in Drawn |-> fresh[p] \/ p \in WithBadge(asked \cup emptied)]
      /\ win' = [w EXCEPT !.asked = titles]
  BY DEF Reload, Post
<1>2. asking \in Seq(Asked)
  <2> HIDE DEF asks
  <2> QED BY PickedEntries
<1>3. w.title \in Titles \cup {"none"} /\ w.asked \in [Titled -> Titles \cup {"none"}]
  BY DEF Windows
<1>4. titles \in [Titled -> Titles \cup {"none"}]
  <2> HIDE DEF asked
  <2> QED BY <1>3
<1> HIDE DEF asks, asking, asked, emptied, titles
<1>5. more \in Seq(Job)
  <2>1. DOMAIN asking = 1..Len(asking) /\ Len(asking) \in Nat
    BY <1>2
  <2>2. \A i \in DOMAIN asking : asking[i].page \in PageSet
    <3>1. \A i \in DOMAIN asking : asking[i] \in Asked
      BY <1>2
    <3> QED BY <3>1 DEF Asked
  <2> QED BY <1>3, <2>1, <2>2 DEF Job
<1> HIDE DEF more
<1>6. jobs' \in Seq(Job)
  BY <1>1, <1>5 DEF WinShape
<1>7. shown' \in [Drawn -> SUBSET Accounts] /\ fresh' \in [Drawn -> BOOLEAN]
  BY <1>1 DEF WinShape
<1>8. win' \in Windows /\ win'.pages = w.pages
  BY <1>1, <1>4 DEF Windows
<1> QED BY <1>6, <1>7, <1>8

\* A queue that is made of two.
LEMMA TwoJoin ==
  ASSUME NEW S, NEW q \in Seq(S), NEW more \in Seq(S)
  PROVE  q \o more \in Seq(S)
  OBVIOUS

\* The pages a window asks for are pages.
LEMMA PagesAsked ==
  /\ \A page \in PageSet, force \in BOOLEAN : One(page, force) \in Seq(Asked)
  /\ \A w \in Windows : Everything(w) \in Seq(Asked)
  /\ \A places : Picked(Timed, places) \in Seq(Asked)
<1>1. ASSUME NEW page \in PageSet, NEW force \in BOOLEAN PROVE One(page, force) \in Seq(Asked)
  BY <1>1 DEF One, Asked
<1>2. ASSUME NEW w \in Windows PROVE Everything(w) \in Seq(Asked)
  <2> DEFINE others == Picked(w.pages, {i \in DOMAIN w.pages : w.pages[i] # w.page})
             rest == [i \in DOMAIN others |-> [page |-> others[i], force |-> FALSE]]
  <2>1. w.pages \in Seq(PageSet) /\ w.page \in PageSet
    BY DEF Windows
  <2>2. others \in Seq(PageSet)
    BY <2>1, PickedEntries
  <2> HIDE DEF others
  <2>3. rest \in Seq(Asked)
    <3>1. DOMAIN others = 1..Len(others) /\ Len(others) \in Nat
          /\ \A i \in DOMAIN others : others[i] \in PageSet
      BY <2>2
    <3> QED BY <3>1 DEF Asked
  <2>4. One(w.page, TRUE) \in Seq(Asked)
    BY <1>1, <2>1
  <2>5. Everything(w) = One(w.page, TRUE) \o rest
    BY DEF Everything, others
  <2> HIDE DEF rest
  <2> QED BY <2>3, <2>4, <2>5, TwoJoin, Zenon
<1>3. ASSUME NEW places PROVE Picked(Timed, places) \in Seq(Asked)
  <2>1. One("friends", FALSE) \in Seq(Asked) /\ One("invitations", FALSE) \in Seq(Asked)
    BY <1>1 DEF PageSet
  <2>2. Timed \in Seq(Asked)
    BY <2>1, TwoJoin, Zenon DEF Timed
  <2> QED BY <2>2, PickedEntries
<1> QED BY <1>1, <1>2, <1>3

\* A reload leaves to each page what was on its way to it, and the reloaded ones wait.
LEMMA ReloadStays ==
  ASSUME WebInductive, PagesInductive, EnsureLoaded, UNCHANGED <<active, site, running>>,
         call'["worker"] = call["worker"],
         NEW w \in Windows, NEW pages \in Seq(Asked), Reload(w, SignedIn, pages),
         \/ posted' = posted
         \/ posted # <<>> /\ posted' = Tail(posted) /\ Head(posted).act
  PROVE  PagesGood'
<1> SUFFICES ASSUME SignedIn', NEW p \in Drawn, fresh'[p], ~Waits(jobs', p)
             PROVE  PageGood(p)'
  BY DEF PagesGood, PageGood, Waits, For
<1>1. Held' = Held
  BY SameAccount
<1>2. SignedIn /\ Mine' = Mine
  BY <1>1 DEF SignedIn, Mine, Owner
<1>3. PICK signedIn \in BOOLEAN : signedIn = SignedIn
  BY DEF SignedIn
<1>4. signedIn /\ Reload(w, signedIn, pages) /\ WinShape
  BY <1>2, <1>3 DEF PagesInductive
<1>5. shown' = shown /\ fresh[p] /\ ~Waits(jobs, p)
  BY <1>4, ReloadAsks
<1>6. /\ For(running, p) => CallIsMine
      /\ ~For(running, p) => LastIs(posted, p, Mine)
      /\ ~For(running, p) /\ ~Waits(posted, p) => shown[p] \subseteq Mine
  BY <1>2, <1>5 DEF PagesInductive, PagesGood, PageGood
<1>7. /\ Waits(posted', p) <=> Waits(posted, p)
      /\ LastIs(posted, p, Mine) => LastIs(posted', p, Mine)
  <2>1. CASE posted # <<>> /\ posted' = Tail(posted) /\ Head(posted).act
    <3>1. ~For(Head(posted), p) /\ posted \in Seq(Result)
      BY <1>4, <2>1 DEF For, WinShape
    <3> QED BY <2>1, <3>1, HeadLeaves
  <2> QED BY <2>1
<1>8. CallIsMine' = CallIsMine
  BY <1>1, <1>2 DEF CallIsMine
<1>9. /\ For(running, p)' = For(running, p) /\ Waits(posted, p)' = Waits(posted', p)
      /\ LastIs(posted, p, Mine)' = LastIs(posted', p, Mine)
  BY <1>2 DEF For, Waits, LastIs
<1> QED BY <1>2, <1>5, <1>6, <1>7, <1>8, <1>9, Zenon DEF PageGood

\* The worker's call asks for data with the session that is held, while that is the same.
LEMMA WorkerAsks ==
  ASSUME WebInductive, CallGoesOn("worker"), SignedIn, CallIsMine, Held'.bearer = Held.bearer
  PROVE  CallIsMine' /\ site' = site
<1> DEFINE b == Held.bearer
<1>0. /\ WebShape /\ "worker" \in Callers /\ b \in 1..Len(site.owner) /\ b \in 0..MaxTokens
      /\ call["worker"].bound \in 0..MaxTokens /\ call["worker"].sent \in 0..MaxTokens
      /\ call["worker"].who \in SUBSET Accounts /\ call["worker"].seen \in SUBSET Accounts
      /\ call["worker"].got \in BOOLEAN /\ site.online \in SUBSET Accounts
      /\ site.owner[b] \in Accounts
  <2>1. b \in 1..Len(site.owner)
    BY HeldKnown DEF SignedIn, WebInductive, WebShape
  <2> HIDE DEF b
  <2>2. /\ site.owner \in Seq(Accounts) /\ Len(site.owner) <= MaxTokens /\ MaxTokens \in Nat
        /\ call \in [Callers -> Calls] /\ site.online \in SUBSET Accounts
    BY WebsiteAssumption DEF WebInductive, WebShape
  <2>3. b \in 0..MaxTokens /\ site.owner[b] \in Accounts
    BY <2>1, <2>2
  <2>4. "worker" \in Callers /\ call["worker"] \in Calls
    BY <2>2 DEF Callers
  <2> QED BY <2>1, <2>2, <2>3, <2>4 DEF WebInductive, Calls
<1>1. call["worker"].ops # <<>> /\ Head(call["worker"].ops) \in Reading
  <2>1. call["worker"].ops # <<>>
    BY DEF CallGoesOn, Bind, Try, FetchSwitch, StillSignedIn, OwnAnswered, PartAnswered,
           PublicAnswered, Minted, Identified, Rechecks, Stored, KeptByName, At
  <2>2. call["worker"].ops \in Seq(Reading)
    BY <1>0 DEF WebInductive, OnlySignInStores, Callers
  <2> QED BY <2>1, <2>2
<1>2. ASSUME NEW reply PROVE ~Minted("worker", reply) /\ ~Identified("worker", reply)
  BY <1>1 DEF Reading, Minted, Identified, At
<1>3. ~Rechecks("worker") /\ ~Stored("worker") /\ ~KeptByName("worker")
  BY <1>1 DEF Reading, Rechecks, Stored, KeptByName, At
<1>4. site' = site
  BY <1>2, <1>3, Zenon DEF CallGoesOn, Bind, Try, FetchSwitch, StillSignedIn, OwnAnswered,
     PartAnswered, PublicAnswered
<1>5. ASSUME call'["worker"].bound \in {call["worker"].bound, b},
             call'["worker"].sent \in {call["worker"].sent, b},
             call'["worker"].who \subseteq call["worker"].who \cup {site.owner[b]}
      PROVE  CallIsMine'
  <2>1. Mine = {site.owner[b]} /\ Mine' = {site.owner[b]}
    BY <1>4 DEF Mine, Owner
  <2>2. Held'.bearer = b
    OBVIOUS
  <2> HIDE DEF b
  <2>3. /\ {call["worker"].bound, call["worker"].sent} \subseteq {0, b}
        /\ call["worker"].who \subseteq {site.owner[b]}
    BY <2>1 DEF CallIsMine, b
  <2>4. call'["worker"].bound \in {0, b} /\ call'["worker"].sent \in {0, b}
    BY <1>5, <2>3
  <2>5. call'["worker"].who \subseteq {site.owner[b]}
    BY <1>5, <2>3
  <2> HIDE DEF Mine
  <2> QED BY <2>1, <2>2, <2>4, <2>5 DEF CallIsMine
<1>6. CASE Over("worker")
  BY <1>0, <1>4, <1>5, <1>6, OverMoves
<1>7. ASSUME NEW n \in 1..2, NEW fields, Onward("worker", n, fields),
             fields \in {<<>>, [bound |-> b], [sent |-> b]}
      PROVE  CallIsMine'
  <2>1. CASE fields = <<>>
    BY <1>0, <1>1, <1>5, <1>7, <2>1, OnwardMoves
  <2>2. CASE fields = [bound |-> b]
    BY <1>0, <1>1, <1>5, <1>7, <2>2, OnwardMoves
  <2>3. CASE fields = [sent |-> b]
    BY <1>0, <1>1, <1>5, <1>7, <2>3, OnwardMoves
  <2> QED BY <1>7, <2>1, <2>2, <2>3
<1>8. CASE Bind("worker") \/ Try("worker") \/ FetchSwitch("worker") \/ StillSignedIn("worker")
  BY <1>4, <1>6, <1>7, <1>8 DEF Bind, Try, FetchSwitch, StillSignedIn
<1>9. ASSUME NEW reply, Reply("worker", reply), reply = "data",
             At("worker", {"own", "part", "more", "adapter"})
      PROVE  Sends("worker") = b
  <2>1. Sends("worker") \in {call["worker"].bound, call["worker"].sent}
    BY <1>9 DEF Sends, At
  <2>2. Sends("worker") # 0
    BY <1>9 DEF Reply, Verdict, At
  <2> QED BY <2>1, <2>2 DEF CallIsMine
<1>10. ASSUME NEW reply, OwnAnswered("worker", reply) PROVE CallIsMine'
  <2>1. CASE reply = "data"
    <3> DEFINE who == call["worker"].who \cup {Owner(Sends("worker"))}
               got == TRUE
    <3>1. Onward("worker", 1, [who |-> who, got |-> got])
      BY <1>10, <2>1 DEF OwnAnswered
    <3>2. who = call["worker"].who \cup {site.owner[b]} /\ who \in SUBSET Accounts
      BY <1>0, <1>9, <1>10, <2>1 DEF OwnAnswered, At, Owner
    <3>3. got \in BOOLEAN
      OBVIOUS
    <3> HIDE DEF who, got
    <3> QED BY <1>0, <1>1, <1>5, <3>1, <3>2, <3>3, OnwardMoves
  <2> QED BY <1>6, <1>10, <2>1 DEF OwnAnswered
<1>11. ASSUME NEW reply, PartAnswered("worker", reply) PROVE CallIsMine'
  <2> DEFINE used == reply = "data" /\ (At("worker", {"more"}) \/ ~call["worker"].got)
             list == used /\ ~At("worker", {"more"})
             who == call["worker"].who \cup (IF used THEN {Owner(Sends("worker"))} ELSE {})
             got == call["worker"].got \/ list
             seen == IF list THEN site.online \cap {Owner(Sends("worker"))}
                     ELSE call["worker"].seen
  <2>1. used => Owner(Sends("worker")) = site.owner[b]
    BY <1>9, <1>11 DEF PartAnswered, At, Owner
  <2>2. Onward("worker", 1, [who |-> who, got |-> got, seen |-> seen])
    BY <1>11 DEF PartAnswered
  <2>3. /\ who \in SUBSET Accounts /\ seen \in SUBSET Accounts /\ got \in BOOLEAN
        /\ who \subseteq call["worker"].who \cup {site.owner[b]}
    BY <1>0, <2>1
  <2> HIDE DEF who, got, seen
  <2> QED BY <1>0, <1>1, <1>5, <2>2, <2>3, OnwardMoves
<1>12. ASSUME NEW reply, PublicAnswered("worker", reply) PROVE CallIsMine'
  BY <1>7, <1>12 DEF PublicAnswered
<1> QED BY <1>2, <1>3, <1>4, <1>8, <1>10, <1>11, <1>12, Zenon DEF CallGoesOn

\* The worker takes the next job, with a call that has asked for nothing yet.
LEMMA TakesGood ==
  ASSUME WebInductive, PagesInductive, WorkerTakes
  PROVE  PagesGood'
<1> SUFFICES ASSUME SignedIn', NEW p \in Drawn, fresh'[p], ~Waits(jobs', p)
             PROVE  PageGood(p)'
  BY DEF PagesGood, PageGood, Waits, For
<1>1. /\ jobs # <<>> /\ running = NoJob /\ running' = Head(jobs) /\ jobs' = Tail(jobs)
      /\ UNCHANGED <<posted, shown, fresh, site>> /\ jobs \in Seq(Job)
  BY DEF WorkerTakes, PagesInductive, WinShape
<1>2. Held' = Held
  BY SameAccount DEF WorkerTakes, Unloaded
<1>3. SignedIn /\ Mine' = Mine
  BY <1>1, <1>2 DEF SignedIn, Mine, Owner
<1>4. CallIsMine'
  <2>1. PICK ops : Started("worker", ops, {})
    BY DEF WorkerTakes
  <2>2. call'["worker"].bound = 0 /\ call'["worker"].sent = 0 /\ call'["worker"].who = {}
    BY <2>1 DEF Started, NoCall, WebInductive, WebShape, Callers
  <2> QED BY <2>2 DEF CallIsMine
<1>5. Waits(jobs, p) <=> For(Head(jobs), p) \/ Waits(jobs', p)
  BY <1>1, HeadLeaves
<1>6. ASSUME ~For(running', p) PROVE LastIs(posted, p, Mine) /\ (~Waits(posted, p) => shown[p] \subseteq Mine)
  <2>1. fresh[p] /\ ~Waits(jobs, p) /\ ~For(running, p)
    BY <1>1, <1>5, <1>6, BadgeFacts
  <2> QED BY <1>3, <2>1 DEF PagesInductive, PagesGood, PageGood
<1>7. /\ For(running, p)' = For(running', p) /\ Waits(posted, p)' = Waits(posted, p)
      /\ LastIs(posted, p, Mine)' = LastIs(posted, p, Mine) /\ shown' = shown
  BY <1>1, <1>3 DEF For, Waits, LastIs
<1> QED BY <1>3, <1>4, <1>6, <1>7, Zenon DEF PageGood

\* The worker posts what its call has of the account that is held.
LEMMA PostsGood ==
  ASSUME WebInductive, PagesInductive, WorkerPosts
  PROVE  PagesGood'
<1> SUFFICES ASSUME SignedIn', NEW p \in Drawn, fresh'[p], ~Waits(jobs', p)
             PROVE  PageGood(p)'
  BY DEF PagesGood, PageGood, Waits, For
<1> DEFINE r == [page |-> running.page, act |-> running.act, title |-> running.title,
                 ok |-> call["worker"].got, who |-> call["worker"].who]
           R == Result \cup {r}
<1>1. /\ posted' = Append(posted, r) /\ running' = NoJob
      /\ UNCHANGED <<jobs, shown, fresh, site>>
  BY DEF WorkerPosts
<1>2. posted \in Seq(R) /\ r \in R
  <2>1. posted \in Seq(Result)
    BY DEF PagesInductive, WinShape
  <2> HIDE DEF r
  <2> QED BY <2>1
<1>3. Held' = Held
  BY SameAccount DEF WorkerPosts, Unloaded
<1>4. SignedIn /\ Mine' = Mine
  BY <1>1, <1>3 DEF SignedIn, Mine, Owner
<1>5. /\ For(running, p) => CallIsMine
      /\ ~For(running, p) => LastIs(posted, p, Mine)
      /\ ~For(running, p) /\ ~Waits(posted, p) => shown[p] \subseteq Mine
  BY <1>1, <1>4 DEF PagesInductive, PagesGood, PageGood, Waits, For
<1>6. (For(r, p) <=> For(running, p)) /\ r.who = call["worker"].who
  BY DEF For
<1> HIDE DEF r, R
<1>7. /\ Waits(posted', p) <=> Waits(posted, p) \/ For(r, p)
      /\ LastIs(posted, p, Mine) /\ ~For(r, p) => LastIs(posted', p, Mine)
      /\ For(r, p) /\ r.who \subseteq Mine => LastIs(posted', p, Mine)
  BY <1>1, <1>2, OneMore
<1>8. LastIs(posted', p, Mine) /\ (~Waits(posted', p) => shown[p] \subseteq Mine)
  BY <1>5, <1>6, <1>7 DEF CallIsMine
<1>9. /\ ~For(running, p)' /\ Waits(posted, p)' = Waits(posted', p)
      /\ LastIs(posted, p, Mine)' = LastIs(posted', p, Mine) /\ shown' = shown
  <2>1. ~For(NoJob, p)
    BY BadgeFacts
  <2> QED BY <1>1, <1>4, <2>1 DEF For, Waits, LastIs
<1> QED BY <1>4, <1>8, <1>9, Zenon DEF PageGood

\* A page that is drawn shows the last answer's account, or is fresh no longer.
LEMMA DrawGood ==
  ASSUME WebInductive, PagesInductive, Draw
  PROVE  PagesGood'
<1> DEFINE r == Head(posted)
<1>0. posted # <<>> /\ posted' = Tail(posted) /\ posted \in Seq(Result) /\ r \in Result
  BY DEF Draw, PagesInductive, WinShape
<1>1. CASE r.act /\ Reads(win, One(r.page, TRUE))
  <2>1. One(r.page, TRUE) \in Seq(Asked) /\ win \in Windows
    BY <1>0, PagesAsked DEF Result, PagesInductive, WinShape
  <2>2. /\ EnsureLoaded /\ UNCHANGED <<active, site, call, running>>
        /\ Reload(win, SignedIn, One(r.page, TRUE))
    BY <1>1 DEF Reads, Draw
  <2> QED BY <1>0, <1>1, <2>1, <2>2, ReloadStays
<1>2. CASE /\ shown' = [p \in Drawn |-> IF Draws(r) /\ p \in WithBadge({r.page})
                                        THEN r.who ELSE shown[p]]
           /\ fresh' = [p \in Drawn |-> fresh[p] /\ (p \in WithBadge({r.page}) => Draws(r) \/ r.act)]
           /\ UNCHANGED <<win, jobs, webVars>>
  <2> SUFFICES ASSUME SignedIn', NEW p \in Drawn, fresh'[p], ~Waits(jobs', p)
               PROVE  PageGood(p)'
    BY DEF PagesGood, PageGood, Waits, For
  <2>1. UNCHANGED <<running, jobs, disk, mem, active, site, call>>
    BY <1>2 DEF Draw, webVars
  <2>2. Held' = Held
    BY <2>1, SameAccount DEF Unloaded
  <2>3. SignedIn /\ Mine' = Mine
    BY <2>1, <2>2 DEF SignedIn, Mine, Owner
  <2>4. fresh[p] /\ (For(r, p) => Draws(r))
    BY <1>2 DEF For
  <2>5. /\ For(running, p) => CallIsMine
        /\ ~For(running, p) => LastIs(posted, p, Mine)
        /\ ~For(running, p) /\ ~Waits(posted, p) => shown[p] \subseteq Mine
    BY <2>1, <2>3, <2>4 DEF PagesInductive, PagesGood, PageGood, Waits, For
  <2>6. shown'[p] = IF For(r, p) THEN r.who ELSE shown[p]
    BY <1>2, <2>4 DEF For, Draws
  <2>7. /\ Waits(posted, p) <=> For(r, p) \/ Waits(posted', p)
        /\ LastIs(posted, p, Mine) => LastIs(posted', p, Mine)
        /\ LastIs(posted, p, Mine) /\ For(r, p) /\ ~Waits(posted', p) => r.who \subseteq Mine
    BY <1>0, HeadLeaves
  <2>8. CallIsMine' = CallIsMine
    BY <2>1, <2>2, <2>3 DEF CallIsMine
  <2>9. /\ For(running, p)' = For(running, p) /\ Waits(posted, p)' = Waits(posted', p)
        /\ LastIs(posted, p, Mine)' = LastIs(posted', p, Mine)
    BY <2>1, <2>3 DEF For, Waits, LastIs
  <2> QED BY <2>3, <2>5, <2>6, <2>7, <2>8, <2>9 DEF PageGood
<1> QED BY <1>1, <1>2 DEF Draw

\* A page that is not fresh has nothing to keep.
LEMMA NoneFresh ==
  ASSUME fresh' = [p \in Drawn |-> FALSE]
  PROVE  PagesGood'
  BY DEF PagesGood, PageGood

\* A step of a call leaves the site's tokens with their owners.
LEMMA CallsOwn ==
  ASSUME WebInductive, NEW t \in Callers, CallGoesOn(t)
  PROVE  Owned
<1>0. site \in [owner : Seq(Accounts), revoked : SUBSET Tokens, online : SUBSET Accounts]
  BY DEF WebInductive, WebShape
<1>1. ASSUME NEW reply \in Replies, Minted(t, reply) PROVE Owned
  <2>1. CASE UNCHANGED site
    BY <2>1 DEF Owned
  <2>2. ASSUME NEW a, site' = [site EXCEPT !.owner = Append(@, a)] PROVE Owned
    BY <1>0, <2>2 DEF Owned
  <2> QED BY <1>1, <2>1, <2>2, Zenon DEF Minted
<1>2. UNCHANGED site \/ \E reply \in Replies : Minted(t, reply)
  BY Zenon DEF CallGoesOn, Bind, Try, FetchSwitch, StillSignedIn, OwnAnswered, PartAnswered,
           PublicAnswered, Identified, Rechecks, Stored, KeptByName
<1>3. CASE UNCHANGED site
  BY <1>3 DEF Owned
<1> QED BY <1>1, <1>2, <1>3

\* The worker's call goes on for the session that is held, or every page is old.
LEMMA WorkerGood ==
  ASSUME WebInductive, PagesInductive, CallGoesOn("worker"), Beside
  PROVE  PagesGood'
<1> SUFFICES ASSUME SignedIn', NEW p \in Drawn, fresh'[p], ~Waits(jobs', p)
             PROVE  PageGood(p)'
  BY DEF PagesGood, PageGood, Waits, For
<1>1. fresh[p] /\ Held'.bearer = Held.bearer /\ UNCHANGED <<jobs, running, posted, shown>>
  BY DEF Beside
<1>2. SignedIn
  BY <1>1 DEF SignedIn
<1>3. Mine' = Mine
  <2>1. Held.bearer \in 1..Len(site.owner)
    BY <1>2, HeldKnown DEF WebInductive, WebShape, SignedIn
  <2>2. Owned
    BY CallsOwn DEF Callers
  <2> QED BY <1>1, <2>1, <2>2 DEF Owned, Mine, Owner
<1>4. /\ For(running, p) => CallIsMine
      /\ ~For(running, p) => LastIs(posted, p, Mine)
      /\ ~For(running, p) /\ ~Waits(posted, p) => shown[p] \subseteq Mine
  BY <1>1, <1>2 DEF PagesInductive, PagesGood, PageGood, Waits, For
<1>5. CallIsMine => CallIsMine'
  BY <1>1, <1>2, WorkerAsks
<1>6. /\ For(running, p)' = For(running, p) /\ Waits(posted, p)' = Waits(posted, p)
      /\ LastIs(posted, p, Mine)' = LastIs(posted, p, Mine) /\ shown'[p] = shown[p]
  BY <1>1, <1>3 DEF For, Waits, LastIs
<1> QED BY <1>3, <1>4, <1>5, <1>6, Zenon DEF PageGood

\* What the website's module does beside the pages.
LEMMA BesideGood ==
  ASSUME WebInductive, PagesInductive, Web \/ SignInRechecks
  PROVE  PagesGood'
<1>0. /\ Beside /\ PagesGood /\ "worker" \in Callers
      /\ site \in [owner : Seq(Accounts), revoked : SUBSET Tokens, online : SUBSET Accounts]
  BY DEF Web, SignInRechecks, PagesInductive, WebInductive, WebShape, Callers
<1>1. ASSUME Owned, call'["worker"] = call["worker"] PROVE PagesGood'
  <2>1. PagesWait
    BY <1>0, <1>1 DEF PagesWait, Beside
  <2> QED BY <1>0, <1>1, <2>1, PagesStay
<1>2. ASSUME NEW t \in Callers, CallGoesOn(t) PROVE PagesGood'
  <2>1. CASE t = "worker"
    BY <1>0, <1>2, <2>1, WorkerGood
  <2>2. CASE t # "worker"
    <3>1. WebShape
      BY DEF WebInductive
    <3>2. call'["worker"] = call["worker"]
      BY <1>0, <1>2, <2>2, <3>1, OneCallMoves
    <3> QED BY <1>1, <1>2, <3>2, CallsOwn
  <2> QED BY <2>1, <2>2
<1>3. CASE SwitchProfile \/ Revoke \/ Expire \/ \E profile \in Files : Forget(profile)
  <2>1. UNCHANGED call
    BY <1>3 DEF SwitchProfile, Revoke, Expire, Forget
  <2>2. site'.owner = site.owner
    BY <1>0, <1>3 DEF SwitchProfile, Revoke, Expire, Forget
  <2> QED BY <1>1, <2>1, <2>2 DEF Owned
<1> QED BY <1>2, <1>3, Zenon DEF Web, SignInRechecks, CallGoesOn

\* What the window, the dialog and the notifier do to the pages.
LEMMA DesktopGood ==
  ASSUME WebInductive, PagesInductive, Desktop
  PROVE  PagesGood'
<1>0. /\ WinShape /\ PagesGood /\ win \in Windows /\ "worker" \in Callers /\ WebShape
      /\ site \in [owner : Seq(Accounts), revoked : SUBSET Tokens, online : SUBSET Accounts]
  BY DEF PagesInductive, WinShape, WebInductive, WebShape, Callers
<1>1. ASSUME NEW w \in Windows, NEW pages \in Seq(Asked), Reads(w, pages), UNCHANGED <<running, posted>>
      PROVE  PagesGood'
  BY <1>1, ReloadStays DEF Reads
<1>2. ASSUME EnsureLoaded \/ Unloaded, active' = active, Owned,
             UNCHANGED <<jobs, running, posted, shown, fresh>>, call'["worker"] = call["worker"]
      PROVE  PagesGood'
  <2>1. Held' = Held
    BY <1>2, SameAccount
  <2>2. PagesWait
    BY <1>2, <2>1 DEF PagesWait
  <2> QED BY <1>0, <1>2, <2>2, PagesStay
<1>a. UNCHANGED site => Owned
  BY DEF Owned
<1>3. ASSUME NEW page \in PageSet, OpenWindow(page) PROVE PagesGood'
  <2>1. PICK title \in IF \E p \in Titled : Follows(p) THEN Titles ELSE {"none"} :
          LET w == [win EXCEPT !.open = TRUE, !.page = page, !.title = title, !.asked = Unasked]
          IN Reads(w, Everything(w))
    BY <1>3 DEF OpenWindow
  <2> DEFINE w == [win EXCEPT !.open = TRUE, !.page = page, !.title = title, !.asked = Unasked]
  <2>2. w \in Windows
    BY <1>0 DEF Windows, Unasked
  <2>3. Reads(w, Everything(w))
    BY <2>1
  <2> HIDE DEF w
  <2>4. Everything(w) \in Seq(Asked)
    BY <2>2, PagesAsked
  <2> QED BY <1>1, <1>3, <2>2, <2>3, <2>4 DEF OpenWindow
<1>4. ASSUME NEW page \in PageSet, GoToPage(page) PROVE PagesGood'
  <2>1. [win EXCEPT !.page = page] \in Windows
    BY <1>0 DEF Windows
  <2>2. One(page, FALSE) \in Seq(Asked)
    BY PagesAsked
  <2> QED BY <1>1, <1>4, <2>1, <2>2, Zenon DEF GoToPage
<1>5. ASSUME NEW page \in PageSet, Act(page) PROVE PagesGood'
  <2> DEFINE job == [page |-> page, act |-> TRUE, title |-> "none"]
             J == Job \cup {job}
  <2>1. /\ EnsureLoaded /\ UNCHANGED <<active, site, call, running, posted, shown, fresh>>
        /\ jobs' = jobs \o <<job>>
    BY <1>5 DEF Act, Post
  <2>2. jobs \in Seq(J) /\ <<job>> \in Seq(J) /\ DOMAIN <<job>> = {1} /\ <<job>>[1] = job /\ job.act
    <3>1. jobs \in Seq(Job)
      BY <1>0 DEF WinShape
    <3>2. job.act
      OBVIOUS
    <3> HIDE DEF job
    <3> QED BY <3>1, <3>2
  <2> HIDE DEF job, J
  <2>3. \A p : Waits(jobs', p) <=> Waits(jobs, p)
    <3>1. \A p : ~Waits(<<job>>, p)
      BY <2>2 DEF Waits, For
    <3> QED BY <2>1, <2>2, <3>1, QueuesJoin
  <2> SUFFICES ASSUME SignedIn', NEW p \in Drawn, fresh'[p], ~Waits(jobs', p)
               PROVE  PageGood(p)'
    BY DEF PagesGood, PageGood, Waits, For
  <2>4. Held' = Held
    BY <2>1, SameAccount
  <2>5. SignedIn /\ Mine' = Mine
    BY <2>1, <2>4 DEF SignedIn, Mine, Owner
  <2>6. /\ For(running, p) => CallIsMine
        /\ ~For(running, p) => LastIs(posted, p, Mine)
        /\ ~For(running, p) /\ ~Waits(posted, p) => shown[p] \subseteq Mine
    BY <1>0, <2>1, <2>3, <2>5 DEF PagesGood, PageGood
  <2>7. CallIsMine' = CallIsMine
    BY <2>1, <2>4, <2>5 DEF CallIsMine
  <2>8. /\ For(running, p)' = For(running, p) /\ Waits(posted, p)' = Waits(posted, p)
        /\ LastIs(posted, p, Mine)' = LastIs(posted, p, Mine) /\ shown' = shown
    BY <2>1, <2>5 DEF For, Waits, LastIs
  <2> QED BY <2>5, <2>6, <2>7, <2>8, Zenon DEF PageGood
<1>6. CASE Refresh
  <2>1. One(win.page, TRUE) \in Seq(Asked)
    BY <1>0, PagesAsked DEF Windows
  <2> QED BY <1>0, <1>1, <1>6, <2>1 DEF Refresh
<1>7. CASE RefreshTimer
  <2>1. Picked(Timed, {i \in DOMAIN Timed : Follows(Timed[i].page)}) \in Seq(Asked)
    BY PagesAsked, Zenon
  <2> QED BY <1>0, <1>1, <1>7, <2>1, Zenon DEF RefreshTimer
<1>8. CASE StatusTimer
  <2>1. One("status", FALSE) \in Seq(Asked)
    BY PagesAsked DEF PageSet
  <2> QED BY <1>0, <1>1, <1>8, <2>1, Zenon DEF StatusTimer
<1>9. ASSUME NEW title \in Titles, PickTitle(title) PROVE PagesGood'
  <2>1. [win EXCEPT !.title = title] \in Windows
    BY <1>0 DEF Windows
  <2>2. One(win.page, FALSE) \in Seq(Asked)
    BY <1>0, PagesAsked DEF Windows
  <2> QED BY <1>1, <1>9, <2>1, <2>2, Zenon DEF PickTitle
<1>10. CASE CloseWindow
  BY <1>10, NoneFresh DEF CloseWindow
<1>11. CASE Draw \/ WorkerTakes \/ WorkerPosts
  BY <1>11, DrawGood, TakesGood, PostsGood
<1>12. CASE WorkerStops
  <2>1. call'["worker"] = call["worker"]
    BY <1>0, <1>12 DEF WorkerStops, WebShape
  <2> QED BY <1>2, <1>12, <1>a, <2>1 DEF WorkerStops, Unloaded, winVars
<1>13. CASE Poll
  <2>1. call'["worker"] = call["worker"]
    BY <1>0, <1>13 DEF Poll, Started, WebShape
  <2> QED BY <1>2, <1>13, <1>a, <2>1 DEF Poll
<1>14. CASE PollAnswered
  <2>1. call'["worker"] = call["worker"]
    BY <1>0, <1>14 DEF PollAnswered, WebShape
  <2> QED BY <1>2, <1>14, <1>a, <2>1 DEF PollAnswered
<1>15. ASSUME NEW who \in Accounts, Submit(who) PROVE PagesGood'
  <2>1. call'["worker"] = call["worker"]
    BY <1>0, <1>15 DEF Submit, Started, WebShape
  <2> QED BY <1>2, <1>15, <1>a, <2>1 DEF Submit, Unloaded
<1>16. ASSUME NEW who \in Accounts, FriendMoves(who) PROVE PagesGood'
  <2>1. site'.owner = site.owner
    BY <1>0, <1>16 DEF FriendMoves
  <2> QED BY <1>2, <1>16, <2>1 DEF FriendMoves, Unloaded, Owned
<1>17. CASE CancelDialog
  BY <1>2, <1>17, <1>a DEF CancelDialog, Unloaded, webVars
<1>18. CASE SignInDone
  <2>1. /\ call'["worker"] = call["worker"] /\ UNCHANGED <<active, site, running, posted>>
    BY <1>0, <1>18 DEF SignInDone, WebShape
  <2>2. CASE UNCHANGED <<notifier, uiPast, disk, mem, win, jobs, shown, fresh>>
    BY <1>2, <1>a, <2>1, <2>2 DEF Unloaded
  <2>3. CASE EnsureLoaded /\ Reload(win, SignedIn, IF win.open THEN Everything(win) ELSE <<>>)
    <3> DEFINE pages == IF win.open THEN Everything(win) ELSE <<>>
    <3>1. pages \in Seq(Asked)
      BY <1>0, PagesAsked
    <3>2. Reload(win, SignedIn, pages)
      BY <2>3
    <3> HIDE DEF pages
    <3> QED BY <1>0, <2>1, <2>3, <3>1, <3>2, ReloadStays
  <2> QED BY <1>18, <2>2, <2>3, Zenon DEF SignInDone
<1>19. CASE SignOutClicked
  <2>1. Held'.bearer = 0
    BY <1>19 DEF SignOutClicked, SignOut, Clear, Save, Held, IsLoaded, None
  <2> QED BY <2>1 DEF PagesGood, SignedIn
<1> QED BY <1>3, <1>4, <1>5, <1>6, <1>7, <1>8, <1>9, <1>10, <1>11, <1>12, <1>13, <1>14, <1>15,
           <1>16, <1>17, <1>18, <1>19, Zenon DEF Desktop

\* Every step of the process keeps what is on its way to a fresh page the account's.
LEMMA PagesKeep ==
  ASSUME WebInductive, PagesInductive, [Next]_clientVars
  PROVE  PagesGood'
<1>1. CASE ProcessStarts \/ Network \/ Reports \/ Delivery \/ UNCHANGED clientVars
  <2>1. UNCHANGED <<disk, mem, active, site, call, jobs, running, posted, shown, fresh>>
    BY <1>1 DEF ProcessStarts, Network, Reports, Delivery, clientVars, webVars, winVars
  <2>2. Held' = Held /\ Owned
    BY <2>1, SameAccount DEF Unloaded, Owned
  <2>3. PagesWait
    BY <2>1, <2>2 DEF PagesWait
  <2> QED BY <2>2, <2>3, PagesStay DEF PagesInductive
<1>2. CASE ProcessDies
  BY <1>2, NoneFresh DEF ProcessDies, WebDie
<1> QED BY <1>1, <1>2, BesideGood, DesktopGood, Zenon DEF Next

\* A call that goes on is busy as it was.
LEMMA BusyStays ==
  ASSUME WebShape, NEW t \in Callers, CallGoesOn(t)
  PROVE  call'[t].busy = call[t].busy
<1>0. call \in [Callers -> Calls] /\ call[t] \in Calls
  BY DEF WebShape
<1>1. CASE Over(t)
  <2> DEFINE over == [call[t] EXCEPT !.ops = <<>>, !.got = FALSE]
  <2>1. over.busy = call[t].busy
    BY <1>0 DEF Calls
  <2>2. call' = [call EXCEPT ![t] = over]
    BY <1>1 DEF Over
  <2> HIDE DEF over
  <2> QED BY <1>0, <2>1, <2>2
<1>2. ASSUME NEW n, NEW fields, Onward(t, n, fields), "busy" \notin DOMAIN fields
      PROVE  call'[t].busy = call[t].busy
  <2> DEFINE ops == SubSeq(call[t].ops, n + 1, Len(call[t].ops))
             rest == [call[t] EXCEPT !.ops = ops]
             next == [f \in DOMAIN rest |-> IF f \in DOMAIN fields THEN fields[f] ELSE rest[f]]
  <2>1. call' = [call EXCEPT ![t] = next]
    BY <1>2 DEF Onward
  <2>2. "busy" \in DOMAIN rest /\ rest.busy = call[t].busy
    <3> HIDE DEF ops
    <3> QED BY <1>0 DEF Calls
  <2> HIDE DEF rest
  <2>3. next.busy = call[t].busy
    BY <1>2, <2>2
  <2> HIDE DEF next
  <2> QED BY <1>0, <2>1, <2>3
<1>3. ASSUME NEW x PROVE /\ "busy" \notin DOMAIN <<>> /\ "busy" \notin DOMAIN [bound |-> x]
                         /\ "busy" \notin DOMAIN [sent |-> x] /\ "busy" \notin DOMAIN [as |-> x]
                         /\ "busy" \notin DOMAIN [got |-> x]
  OBVIOUS
<1>4. ASSUME NEW x, NEW y, NEW z PROVE /\ "busy" \notin DOMAIN [who |-> x, got |-> y]
                                       /\ "busy" \notin DOMAIN [who |-> x, got |-> y, seen |-> z]
  OBVIOUS
<1>5. CASE Bind(t) \/ Try(t) \/ FetchSwitch(t) \/ StillSignedIn(t) \/ Rechecks(t) \/ Stored(t)
           \/ KeptByName(t)
  BY <1>1, <1>2, <1>3, <1>5, Zenon DEF Bind, Try, FetchSwitch, StillSignedIn, Rechecks, Stored,
     KeptByName
<1>6. ASSUME NEW reply, OwnAnswered(t, reply) \/ PartAnswered(t, reply)
                        \/ PublicAnswered(t, reply) \/ Minted(t, reply) \/ Identified(t, reply)
      PROVE  call'[t].busy = call[t].busy
  BY <1>1, <1>2, <1>3, <1>4, <1>6, Zenon DEF OwnAnswered, PartAnswered, PublicAnswered, Minted,
     Identified
<1> QED BY <1>5, <1>6, Zenon DEF CallGoesOn

\* What is left of the events of a kind.
LEMMA EventsLeft ==
  ASSUME WinShape, NEW kind \in {"ui", "sign", "poll", "friend"}, Uses(kind)
  PROVE  uiLeft' \in [ui : Nat, sign : Nat, poll : Nat, friend : Nat]
<1>1. /\ uiLeft \in [ui : Nat, sign : Nat, poll : Nat, friend : Nat]
      /\ uiLeft[kind] > 0 /\ uiLeft' = [uiLeft EXCEPT ![kind] = uiLeft[kind] - 1]
  BY DEF WinShape, Uses
<1>2. uiLeft[kind] - 1 \in Nat
  BY <1>1
<1> QED BY <1>1, <1>2

\* What the website's module does beside the window keeps the window's shape.
LEMMA WebShapes ==
  ASSUME WebInductive, WinShape, Web \/ SignInRechecks
  PROVE  WinShape'
<1>1. /\ UNCHANGED <<win, jobs, running, posted, shown, dialog, uiLeft>>
      /\ fresh' = [p \in Drawn |-> fresh[p] /\ Held'.bearer = Held.bearer]
  BY DEF Web, SignInRechecks, Beside
<1>2. fresh' \in [Drawn -> BOOLEAN]
  BY <1>1
<1>3. call'["worker"].busy = call["worker"].busy
  <2>0. WebShape /\ "worker" \in Callers
    BY DEF WebInductive, Callers
  <2>1. ASSUME NEW t \in Callers, CallGoesOn(t) PROVE call'["worker"].busy = call["worker"].busy
    BY <2>0, <2>1, BusyStays, OneCallMoves
  <2>2. CASE SwitchProfile \/ Revoke \/ Expire \/ \E profile \in Files : Forget(profile)
    BY <2>2 DEF SwitchProfile, Revoke, Expire, Forget
  <2> QED BY <2>1, <2>2, Zenon DEF Web, SignInRechecks, CallGoesOn
<1> QED BY <1>1, <1>2, <1>3 DEF WinShape

\* So does what the window, its worker, the dialog and the notifier do.
LEMMA DesktopShapes ==
  ASSUME WebInductive, WinShape, Desktop
  PROVE  WinShape'
<1>0. /\ win \in Windows /\ call \in [Callers -> Calls] /\ "worker" \in Callers
      /\ win.pages \in Seq(PageSet) /\ win.pages # <<>> /\ win.page \in PageSet
  BY DEF WinShape, Windows, WebInductive, WebShape, Callers
<1>1. ASSUME NEW w \in Windows, NEW pages \in Seq(Asked), w.pages = win.pages, Reads(w, pages),
             UNCHANGED <<running, dialog>>, posted' \in Seq(Result),
             uiLeft' \in [ui : Nat, sign : Nat, poll : Nat, friend : Nat]
      PROVE  WinShape'
  <2>1. SignedIn \in BOOLEAN /\ Reload(w, SignedIn, pages) /\ UNCHANGED call
    BY <1>1 DEF Reads, SignedIn
  <2>2. PICK signedIn \in BOOLEAN : signedIn = SignedIn
    BY <2>1
  <2>3. /\ jobs' \in Seq(Job) /\ win' \in Windows /\ win'.pages = w.pages
        /\ shown' \in [Drawn -> SUBSET Accounts] /\ fresh' \in [Drawn -> BOOLEAN]
    BY <1>1, <2>1, <2>2, ReloadShape
  <2> QED BY <1>1, <2>1, <2>3 DEF WinShape
<1>2. ASSUME UNCHANGED <<win, jobs, running, posted, shown, fresh>>,
             dialog' \in {"closed", "running", "left"},
             uiLeft' \in [ui : Nat, sign : Nat, poll : Nat, friend : Nat],
             call'["worker"] = call["worker"]
      PROVE  WinShape'
  BY <1>2 DEF WinShape
<1>3. ASSUME NEW page \in PageSet, OpenWindow(page) PROVE WinShape'
  <2>1. PICK title \in IF \E p \in Titled : Follows(p) THEN Titles ELSE {"none"} :
          LET w == [win EXCEPT !.open = TRUE, !.page = page, !.title = title, !.asked = Unasked]
          IN Reads(w, Everything(w))
    BY <1>3 DEF OpenWindow
  <2> DEFINE w == [win EXCEPT !.open = TRUE, !.page = page, !.title = title, !.asked = Unasked]
  <2>2. w \in Windows /\ w.pages = win.pages
    BY <1>0 DEF Windows, Unasked
  <2>3. Reads(w, Everything(w))
    BY <2>1
  <2> HIDE DEF w
  <2>4. Everything(w) \in Seq(Asked)
    BY <2>2, PagesAsked
  <2>5. UNCHANGED <<running, posted, dialog>> /\ Uses("ui")
    BY <1>3 DEF OpenWindow
  <2> QED BY <1>1, <2>2, <2>3, <2>4, <2>5, EventsLeft DEF WinShape
<1>4. ASSUME NEW page \in PageSet, GoToPage(page) PROVE WinShape'
  <2> DEFINE w == [win EXCEPT !.page = page]
  <2>1. w \in Windows /\ w.pages = win.pages
    BY <1>0 DEF Windows
  <2>2. Reads(w, One(page, FALSE)) /\ UNCHANGED <<running, posted, dialog>> /\ Uses("ui")
    BY <1>4 DEF GoToPage
  <2>3. One(page, FALSE) \in Seq(Asked)
    BY PagesAsked
  <2> HIDE DEF w
  <2> QED BY <1>1, <2>1, <2>2, <2>3, EventsLeft DEF WinShape
<1>5. ASSUME NEW page \in PageSet, Act(page) PROVE WinShape'
  <2> DEFINE job == [page |-> page, act |-> TRUE, title |-> "none"]
  <2>1. /\ UNCHANGED <<win, call, running, posted, shown, fresh, dialog>> /\ Uses("ui")
        /\ jobs' = jobs \o <<job>>
    BY <1>5 DEF Act, Post
  <2>2. job \in Job
    BY DEF Job
  <2> HIDE DEF job
  <2>3. jobs' \in Seq(Job)
    BY <2>1, <2>2 DEF WinShape
  <2> QED BY <2>1, <2>3, EventsLeft DEF WinShape
<1>6. CASE Refresh \/ RefreshTimer \/ StatusTimer
  <2>1. PICK pages \in Seq(Asked) : Reads(win, pages)
    <3>1. One(win.page, TRUE) \in Seq(Asked)
      BY <1>0, PagesAsked
    <3>2. Picked(Timed, {i \in DOMAIN Timed : Follows(Timed[i].page)}) \in Seq(Asked)
      BY PagesAsked, Zenon
    <3>3. One("status", FALSE) \in Seq(Asked)
      BY PagesAsked DEF PageSet
    <3> QED BY <1>6, <3>1, <3>2, <3>3, Zenon DEF Refresh, RefreshTimer, StatusTimer
  <2>2. UNCHANGED <<running, posted, dialog>> /\ Uses("ui")
    BY <1>6, Zenon DEF Refresh, RefreshTimer, StatusTimer
  <2> QED BY <1>0, <1>1, <2>1, <2>2, EventsLeft DEF WinShape
<1>7. ASSUME NEW title \in Titles, PickTitle(title) PROVE WinShape'
  <2> DEFINE w == [win EXCEPT !.title = title]
  <2>1. w \in Windows /\ w.pages = win.pages
    BY <1>0 DEF Windows
  <2>2. Reads(w, One(win.page, FALSE)) /\ UNCHANGED <<running, posted, dialog>> /\ Uses("ui")
    BY <1>7 DEF PickTitle
  <2>3. One(win.page, FALSE) \in Seq(Asked)
    BY <1>0, PagesAsked
  <2> HIDE DEF w
  <2> QED BY <1>1, <2>1, <2>2, <2>3, EventsLeft DEF WinShape
<1>8. CASE CloseWindow
  <2>1. /\ win' = Closed(win.pages) /\ jobs' = <<>> /\ running' = NoJob /\ posted' = <<>>
        /\ shown' = [p \in Drawn |-> {}] /\ fresh' = [p \in Drawn |-> FALSE]
        /\ call' = [call EXCEPT !["old"] = call["worker"], !["worker"] = NoCall]
        /\ UNCHANGED dialog /\ Uses("ui")
    BY <1>8 DEF CloseWindow
  <2>2. win' \in Windows /\ win'.pages # <<>>
    <3>1. Head(win.pages) \in PageSet
      BY <1>0
    <3> QED BY <1>0, <2>1, <3>1 DEF Closed, Windows, Unasked
  <2>3. shown' \in [Drawn -> SUBSET Accounts] /\ fresh' \in [Drawn -> BOOLEAN]
    BY <2>1
  <2>4. ~call'["worker"].busy
    BY <1>0, <2>1 DEF NoCall
  <2> QED BY <2>1, <2>2, <2>3, <2>4, EventsLeft DEF WinShape
<1>9. CASE Draw
  <2> DEFINE r == Head(posted)
  <2>1. /\ posted # <<>> /\ posted' = Tail(posted) /\ posted \in Seq(Result) /\ r \in Result
        /\ UNCHANGED <<running, dialog, uiLeft>> /\ posted' \in Seq(Result)
    BY <1>9 DEF Draw, WinShape
  <2>2. CASE Reads(win, One(r.page, TRUE))
    <3>1. One(r.page, TRUE) \in Seq(Asked)
      BY <2>1, PagesAsked DEF Result
    <3> HIDE DEF r
    <3> QED BY <1>0, <1>1, <2>1, <2>2, <3>1 DEF WinShape
  <2>3. CASE /\ shown' = [p \in Drawn |-> IF Draws(r) /\ p \in WithBadge({r.page})
                                          THEN r.who ELSE shown[p]]
             /\ fresh' = [p \in Drawn |->
                            fresh[p] /\ (p \in WithBadge({r.page}) => Draws(r) \/ r.act)]
             /\ UNCHANGED <<win, jobs, webVars>>
    <3>1. r.who \in SUBSET Accounts
      BY <2>1 DEF Result
    <3> HIDE DEF r
    <3>2. shown' \in [Drawn -> SUBSET Accounts] /\ fresh' \in [Drawn -> BOOLEAN]
      BY <2>3, <3>1 DEF WinShape
    <3> QED BY <2>1, <2>3, <3>2 DEF WinShape, webVars
  <2> QED BY <1>9, <2>2, <2>3 DEF Draw
<1>10. CASE WorkerTakes
  <2>1. /\ jobs # <<>> /\ jobs' = Tail(jobs) /\ running' = Head(jobs) /\ jobs \in Seq(Job)
        /\ UNCHANGED <<win, posted, shown, fresh, dialog, uiLeft>>
    BY <1>10 DEF WorkerTakes, WinShape
  <2>2. jobs' \in Seq(Job) /\ running' \in Job
    BY <2>1
  <2>3. NoJob \notin Job
    BY DEF NoJob, Job, PageSet
  <2> QED BY <2>1, <2>2, <2>3 DEF WinShape
<1>11. CASE WorkerPosts
  <2> DEFINE r == [page |-> running.page, act |-> running.act, title |-> running.title,
                   ok |-> call["worker"].got, who |-> call["worker"].who]
  <2>1. /\ posted' = Append(posted, r) /\ running' = NoJob
        /\ call' = [call EXCEPT !["worker"] = NoCall]
        /\ UNCHANGED <<win, jobs, shown, fresh, dialog, uiLeft>>
        /\ call["worker"].busy
    BY <1>11 DEF WorkerPosts, Ended
  <2>2. r \in Result
    <3>1. running \in Job
      BY <2>1 DEF WinShape
    <3>2. call["worker"].got \in BOOLEAN /\ call["worker"].who \in SUBSET Accounts
      BY <1>0 DEF Calls
    <3> QED BY <3>1, <3>2 DEF Job, Result
  <2> HIDE DEF r
  <2>3. posted' \in Seq(Result)
    BY <2>1, <2>2 DEF WinShape
  <2>4. ~call'["worker"].busy
    BY <1>0, <2>1 DEF NoCall
  <2> QED BY <2>1, <2>3, <2>4 DEF WinShape
<1>12. CASE WorkerStops
  BY <1>0, <1>2, <1>12 DEF WorkerStops, winVars, WinShape
<1>13. CASE Poll
  <2>1. call'["worker"] = call["worker"]
    BY <1>0, <1>13 DEF Poll, Started
  <2>2. uiLeft' \in [ui : Nat, sign : Nat, poll : Nat, friend : Nat]
    BY <1>13, EventsLeft DEF Poll, WinShape
  <2> QED BY <1>2, <1>13, <2>1, <2>2 DEF Poll, WinShape
<1>14. CASE PollAnswered
  <2>1. call'["worker"] = call["worker"] /\ UNCHANGED <<win, jobs, running, posted, shown, fresh, dialog, uiLeft>>
    BY <1>0, <1>14 DEF PollAnswered
  <2> QED BY <1>2, <2>1 DEF WinShape
<1>15. ASSUME NEW who \in Accounts, Submit(who) PROVE WinShape'
  <2>1. call'["worker"] = call["worker"]
    BY <1>0, <1>15 DEF Submit, Started
  <2> QED BY <1>2, <1>15, <2>1, EventsLeft DEF Submit
<1>16. ASSUME NEW who \in Accounts, FriendMoves(who) PROVE WinShape'
  <2>1. UNCHANGED <<call, win, jobs, running, posted, shown, fresh, dialog>> /\ Uses("friend")
    BY <1>16 DEF FriendMoves
  <2> QED BY <1>2, <2>1, EventsLeft DEF WinShape
<1>17. CASE CancelDialog
  BY <1>2, <1>17, EventsLeft DEF CancelDialog, webVars
<1>18. CASE SignInDone
  <2>1. /\ call'["worker"] = call["worker"] /\ UNCHANGED <<running, posted, uiLeft>>
        /\ dialog' = "closed"
    BY <1>0, <1>18 DEF SignInDone
  <2>2. CASE UNCHANGED <<notifier, uiPast, disk, mem, win, jobs, shown, fresh>>
    BY <1>2, <2>1, <2>2 DEF WinShape
  <2>3. CASE EnsureLoaded /\ Reload(win, SignedIn, IF win.open THEN Everything(win) ELSE <<>>)
    <3> DEFINE pages == IF win.open THEN Everything(win) ELSE <<>>
    <3>1. pages \in Seq(Asked)
      BY <1>0, PagesAsked
    <3>2. Reload(win, SignedIn, pages) /\ SignedIn \in BOOLEAN
      BY <2>3 DEF SignedIn
    <3> HIDE DEF pages
    <3>3. PICK signedIn \in BOOLEAN : signedIn = SignedIn
      BY <3>2
    <3>4. /\ jobs' \in Seq(Job) /\ win' \in Windows /\ win'.pages = win.pages
          /\ shown' \in [Drawn -> SUBSET Accounts] /\ fresh' \in [Drawn -> BOOLEAN]
      BY <1>0, <3>1, <3>2, <3>3, ReloadShape
    <3> QED BY <2>1, <3>4 DEF WinShape
  <2> QED BY <1>18, <2>2, <2>3, Zenon DEF SignInDone
<1>19. CASE SignOutClicked
  <2>1. UNCHANGED <<call, running, posted, dialog, uiLeft>>
    BY <1>19 DEF SignOutClicked, SignOut
  <2>2. PICK pages \in Seq(Asked) : Reload(win, FALSE, pages)
    <3>1. /\ Everything(win) \in Seq(Asked) /\ <<>> \in Seq(Asked)
          /\ Everything(win) \o Everything(win) \in Seq(Asked)
      BY <1>0, PagesAsked, TwoJoin
    <3> QED BY <1>19, <3>1, Zenon DEF SignOutClicked
  <2>3. PICK signedIn \in BOOLEAN : signedIn = FALSE
    OBVIOUS
  <2>4. /\ jobs' \in Seq(Job) /\ win' \in Windows /\ win'.pages = win.pages
        /\ shown' \in [Drawn -> SUBSET Accounts] /\ fresh' \in [Drawn -> BOOLEAN]
    BY <1>0, <2>2, <2>3, ReloadShape
  <2> QED BY <2>1, <2>4 DEF WinShape
<1> QED BY <1>3, <1>4, <1>5, <1>6, <1>7, <1>8, <1>9, <1>10, <1>11, <1>12, <1>13, <1>14, <1>15,
           <1>16, <1>17, <1>18, <1>19, Zenon DEF Desktop

\* And so does every step of the process.
LEMMA ShapeKeeps ==
  ASSUME WebInductive, WinShape, [Next]_clientVars
  PROVE  WinShape'
<1>1. CASE ProcessStarts \/ Network \/ Reports \/ Delivery \/ UNCHANGED clientVars
  <2>1. UNCHANGED <<call, winVars>>
    BY <1>1 DEF ProcessStarts, Network, Reports, Delivery, clientVars, webVars
  <2> QED BY <2>1 DEF WinShape, winVars
<1>2. CASE ProcessDies
  <2>1. /\ call' = [t \in Callers |-> NoCall]
        /\ win' = Closed(win.pages) /\ jobs' = <<>> /\ running' = NoJob /\ posted' = <<>>
        /\ shown' = [p \in Drawn |-> {}] /\ fresh' = [p \in Drawn |-> FALSE]
        /\ dialog' = "closed" /\ UNCHANGED uiLeft
    BY <1>2 DEF ProcessDies, WebDie
  <2>2. win' \in Windows /\ win'.pages # <<>>
    <3>1. Head(win.pages) \in PageSet /\ win.pages \in Seq(PageSet) /\ win.pages # <<>>
      BY DEF WinShape, Windows
    <3> QED BY <2>1, <3>1 DEF Closed, Windows, Unasked
  <2>3. shown' \in [Drawn -> SUBSET Accounts] /\ fresh' \in [Drawn -> BOOLEAN]
    BY <2>1
  <2>4. ~call'["worker"].busy
    BY <2>1 DEF NoCall, Callers
  <2> QED BY <2>1, <2>2, <2>3, <2>4 DEF WinShape
<1> QED BY <1>1, <1>2, WebShapes, DesktopShapes, Zenon DEF Next

\* What the pages show rests on: of the jobs, the worker's call, the answers and the page,
\* the last one that is there for a fresh page is the account's that is signed in.
THEOREM PagesInductiveHolds == Spec => []PagesInductive
<1>1. WebInductive /\ PagesInductive /\ [Next]_clientVars => PagesInductive'
  BY PagesKeep, ShapeKeeps DEF PagesInductive
<1> QED BY PagesStart, WebInductiveHolds, <1>1, PTL DEF Spec

\* Once the window has come to rest, a page that was reloaded since the account last
\* changed shows the data of nobody but the account that is signed in, whatever sign-ins,
\* sign-outs, switches of profiles, lost answers, pages, timers and crashes come together
\* (WorkQueue, ReloadAll and the pages' reload).
THEOREM PagesFollow == Spec => []PageFollowsAccount
<1>1. PagesInductive => PageFollowsAccount
  <2> SUFFICES ASSUME PagesInductive, AtRest, SignedIn, NEW p \in Drawn, fresh[p]
               PROVE  shown[p] \subseteq {Owner(Held.bearer)}
    BY DEF PageFollowsAccount
  <2>1. ~Waits(jobs, p) /\ ~For(running, p) /\ ~Waits(posted, p)
    BY BadgeFacts DEF AtRest, Waits
  <2> QED BY <2>1 DEF PagesInductive, PagesGood, PageGood, Mine
<1> QED BY PagesInductiveHolds, <1>1, PTL

-----------------------------------------------------------------------------
(* Types. *)

BcatCounts == bcatLeft \in [service : Nat, fetch : Nat, fault : Nat]

\* A delivery takes no more events than there are.
LEMMA BcatCountsHold == Spec => []BcatCounts
<1>1. Init => BcatCounts
  BY ScenariosAssumption DEF Init, BcatInit, BcatCounts
<1>2. BcatCounts /\ [Next]_clientVars => BcatCounts'
  <2> SUFFICES ASSUME BcatCounts, [BcatNext]_bcatVars PROVE BcatCounts'
    BY DeliverySteps
  <2>1. ASSUME NEW kind, Takes(kind), kind \in {"service", "fetch", "fault"} PROVE BcatCounts'
    <3>1. bcatLeft[kind] - 1 \in Nat /\ bcatLeft' = [bcatLeft EXCEPT ![kind] = bcatLeft[kind] - 1]
      BY <2>1 DEF Takes, BcatCounts
    <3> QED BY <3>1 DEF BcatCounts
  <2>2. CASE UNCHANGED bcatLeft
    BY <2>2 DEF BcatCounts
  <2> QED BY <2>1, <2>2, Zenon DEF BcatNext, ServiceMoves, Ask, DownloadPath, ForgetEntry,
             Forgotten, WriteEntry, BcatDie, Tries, bcatVars
<1> QED BY <1>1, <1>2, PTL DEF Spec

\* Every part of the process keeps its type: no event of any kind, and no crash between
\* two of them, leads one part's state out of what the code's types allow.
THEOREM ClientTypes == Spec => []ClientTypeOK
<1>1. NetInductive => NetTypeOK
  BY DEF NetInductive
<1>2. RepInductive => RepTypeOK
  BY DEF RepInductive
<1>3. WebInductive => WebTypeOK
  BY DEF WebInductive, WebShape, WebTypeOK, Calls
<1>4. PagesInductive /\ NotifierInductive => WinTypeOK
  BY DEF PagesInductive, WinShape, Windows, NotifierInductive, NotifierShape, WinTypeOK
<1>5. BcatInductive /\ BcatCounts => BcatTypeOK
  BY DEF BcatInductive, BcatShape, BcatCounts, BcatTypeOK
<1>6. NetTypeOK /\ RepTypeOK /\ WebTypeOK /\ WinTypeOK /\ BcatTypeOK => ClientTypeOK
  BY DEF ClientTypeOK
<1> QED BY <1>1, <1>2, <1>3, <1>4, <1>5, <1>6, NetInductiveHolds, RepInductiveHolds,
           WebInductiveHolds, PagesInductiveHolds, NotifierInductiveHolds, BcatInductiveHolds,
           BcatCountsHold, PTL
=============================================================================
