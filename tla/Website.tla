------------------------------ MODULE Website -------------------------------
(* The website account kept on disk, and the calls made to the website with   *)
(* its bearer (account.cpp, api.cpp, and the sign-in of host_kit.cpp).        *)
(*                                                                            *)
(* A call is a sequence of steps: it reads the bearer once, at its start, and *)
(* sends its requests with that one, while other threads sign in, sign out or *)
(* switch profiles.  A 401 clears the account that is signed in when it is    *)
(* looked at.  A token is its number; what an answer holds is abstracted to   *)
(* the accounts whose data it is.                                             *)
EXTENDS Integers, Sequences, FiniteSets

CONSTANTS
  Accounts,    \* people with an account on the site
  Profiles,    \* profiles of a Switch host; the other hosts have the shared file only
  Shared,      \* the file from before profiles
  MaxTokens    \* how many tokens a behaviour mints

ASSUME WebsiteAssumption == Shared \notin Profiles /\ MaxTokens \in Nat

VARIABLES
  disk,      \* the account files, by profile
  mem,       \* what account.cpp holds: the profile it was loaded for, and the account
  active,    \* Platform::ProfileId
  site,      \* the site: whose each token is, which are revoked, whose friend is online
  call,      \* each thread's call
  revoking,  \* tokens that detached RevokeToken threads are about to revoke
  webPast,   \* history: how often somebody signed out or forgot a profile
  webLeft    \* how many more events of each kind this behaviour has

webVars == <<disk, mem, active, site, call, revoking, webPast, webLeft>>

Callers == {"worker", "old", "poll", "signin"}
Tokens == 1..MaxTokens
Files == Profiles \cup {Shared}

None == [bearer |-> 0, linked |-> FALSE]
AccountFile == [bearer : 0..MaxTokens, linked : BOOLEAN]

Steps == {"bind", "try", "own", "switch", "adapter", "check", "part", "more", "public",
          "mint", "identity", "recheck", "store", "save", "again"}

NoCall == [busy |-> FALSE, ops |-> <<>>, bound |-> 0, sent |-> 0, who |-> {},
           got |-> FALSE, seen |-> {}, as |-> 0]

WebTypeOK ==
  /\ disk \in [Files -> AccountFile]
  /\ mem \in [loaded : BOOLEAN, profile : Files, held : AccountFile]
  /\ active \in Files
  /\ site.owner \in Seq(Accounts) /\ Len(site.owner) <= MaxTokens
  /\ site.revoked \subseteq Tokens /\ site.online \subseteq Accounts
  /\ \A t \in Callers :
       /\ call[t].ops \in Seq(Steps) /\ call[t].busy \in BOOLEAN /\ call[t].got \in BOOLEAN
       /\ {call[t].bound, call[t].sent, call[t].as} \subseteq 0..MaxTokens
       /\ call[t].who \subseteq Accounts /\ call[t].seen \subseteq Accounts
  /\ revoking \subseteq Tokens /\ webPast \in Nat
  /\ webLeft \in [change : Nat, fault : Nat]

\* A start with nobody signed in (0), or with one account in the file from before
\* profiles (1).  A host without profiles is on the shared file.
WebInit(budget, family, stored, onlines) ==
  /\ \E n \in stored :
       /\ disk = [f \in Files |-> IF f = Shared /\ n = 1
                                  THEN [bearer |-> 1, linked |-> family = "switch"] ELSE None]
       /\ \E a \in Accounts, online \in onlines :
            site = [owner |-> IF n = 1 THEN <<a>> ELSE <<>>, revoked |-> {}, online |-> online]
  /\ mem = [loaded |-> FALSE, profile |-> Shared, held |-> None]
  /\ IF family = "switch" THEN active \in Profiles ELSE active = Shared
  /\ call = [t \in Callers |-> NoCall]
  /\ revoking = {} /\ webPast = 0 /\ webLeft = budget

Pays(kind) == webLeft[kind] > 0 /\ webLeft' = [webLeft EXCEPT ![kind] = @ - 1]

-----------------------------------------------------------------------------
(* account.cpp *)

IsLoaded == mem.loaded /\ mem.profile = active

\* EnsureLoaded: the shared file goes to the first profile that has none.
Migrated ==
  IF ~IsLoaded /\ active # Shared /\ disk[active] = None /\ disk[Shared] # None
  THEN [disk EXCEPT ![active] = disk[Shared], ![Shared] = None]
  ELSE disk

Held == IF IsLoaded THEN mem.held ELSE Migrated[active]

\* What every getter does before it answers.
EnsureLoaded ==
  /\ disk' = Migrated
  /\ mem' = [loaded |-> TRUE, profile |-> active, held |-> Held]

Save(held) ==
  /\ disk' = [Migrated EXCEPT ![active] = held]
  /\ mem' = [loaded |-> TRUE, profile |-> active, held |-> held]

\* The one that writes without loading: to the file of the profile loaded last.
SaveBearerOnly(token) ==
  /\ disk' = [disk EXCEPT ![mem.profile] = [bearer |-> token, linked |-> FALSE]]
  /\ mem' = [mem EXCEPT !.loaded = TRUE, !.held = [bearer |-> token, linked |-> FALSE]]

Clear == Save(None)

\* The host takes an account off another profile before it is signed in on this one.
Forget(profile) ==
  /\ Pays("change")
  /\ disk[profile] # None
  /\ disk' = [disk EXCEPT ![profile] = None]
  /\ mem' = [mem EXCEPT !.loaded = @ /\ mem.profile # profile]
  /\ webPast' = webPast + 1
  /\ UNCHANGED <<active, site, call, revoking>>

\* external: the host's profile manager
SwitchProfile ==
  /\ Pays("change")
  /\ active # Shared
  /\ \E p \in Profiles \ {active} : active' = p
  /\ UNCHANGED <<disk, mem, site, call, revoking, webPast>>

\* SignOutAndRevoke: the file first, the token by a detached thread.
SignOut ==
  /\ Pays("change")
  /\ Held # None
  /\ Clear
  /\ revoking' = revoking \cup {Held.bearer}
  /\ webPast' = webPast + 1
  /\ UNCHANGED <<active, site, call>>

-----------------------------------------------------------------------------
(* The site. *)

\* external: the site drops a token, by a RevokeToken that arrives or on its own
Revoke ==
  /\ \E t \in revoking :
       /\ revoking' = revoking \ {t}
       /\ \/ site' = [site EXCEPT !.revoked = @ \cup {t}] /\ UNCHANGED webLeft
          \/ UNCHANGED site /\ Pays("fault")
  /\ UNCHANGED <<disk, mem, active, call, webPast>>

Expire ==
  /\ Pays("change")
  /\ \E t \in 1..Len(site.owner) : site' = [site EXCEPT !.revoked = @ \cup {t}] /\ site' # site
  /\ UNCHANGED <<disk, mem, active, call, revoking, webPast>>

\* external: what the site says to a request sent with a token
Replies == {"data", "401", "none"}

Verdict(token) == IF token = 0 \/ token \in site.revoked THEN "401" ELSE "data"

-----------------------------------------------------------------------------
(* api.cpp: one call, step by step. *)

GetProfile == <<"bind", "own">>
GetCloudSaves == <<"bind", "own">>
GetAccountFriends == <<"bind", "switch", "adapter", "check", "part", "more">>
GetInvitations == <<"bind", "part">>
GetMods == <<"public", "try", "part">>
GetNewsManifest == <<"public">>
GetServiceStatus == <<"public">>
PostAccount == <<"bind", "own">>
DeclineInvitation == <<"bind", "own">>
SetModFavourite == <<"bind", "own">>
SignIn == <<"mint", "identity", "recheck", "store">>
SignInAccountOnly == <<"mint", "recheck", "save", "try", "part", "again">>

Started(t, ops, who) ==
  call' = [call EXCEPT ![t] = [NoCall EXCEPT !.busy = TRUE, !.ops = ops, !.who = who]]

Ended(t) == call[t].busy /\ call[t].ops = <<>>

At(t, ops) == call[t].ops # <<>> /\ Head(call[t].ops) \in ops

\* The call goes on past n steps, or is over.
Onward(t, n, fields) ==
  LET rest == [call[t] EXCEPT !.ops = SubSeq(@, n + 1, Len(@))]
  IN call' = [call EXCEPT ![t] =
                [f \in DOMAIN rest |-> IF f \in DOMAIN fields THEN fields[f] ELSE rest[f]]]

Over(t) == call' = [call EXCEPT ![t] = [@ EXCEPT !.ops = <<>>, !.got = FALSE]]

\* Nobody signed in ends the call before it sends anything.
Bind(t) ==
  /\ At(t, {"bind"})
  /\ EnsureLoaded
  /\ IF Held.bearer = 0 THEN Over(t) ELSE Onward(t, 1, [bound |-> Held.bearer])
  /\ UNCHANGED <<active, site, revoking, webPast, webLeft>>

\* A second function in the same job reads the bearer again, and does nothing
\* without one.
Try(t) ==
  /\ At(t, {"try"})
  /\ EnsureLoaded
  /\ Onward(t, IF Held.bearer = 0 THEN 2 ELSE 1, [bound |-> Held.bearer])
  /\ UNCHANGED <<active, site, revoking, webPast, webLeft>>

\* GetAccountFriends asks the adapter only for a linked account, and FetchSwitch
\* reads the bearer again.
FetchSwitch(t) ==
  /\ At(t, {"switch"})
  /\ EnsureLoaded
  /\ IF Held.linked THEN Onward(t, 1, [sent |-> Held.bearer]) ELSE Onward(t, 2, <<>>)
  /\ UNCHANGED <<active, site, revoking, webPast, webLeft>>

\* The account may be gone by the time the adapter has answered.
StillSignedIn(t) ==
  /\ At(t, {"check"})
  /\ EnsureLoaded
  /\ IF Held.bearer = 0 THEN Over(t) ELSE Onward(t, 1, <<>>)
  /\ UNCHANGED <<active, site, revoking, webPast, webLeft>>

\* The bearer of this step's request: the one bound at the start, the one FetchSwitch
\* read, or the one just minted.
Sends(t) ==
  CASE At(t, {"own", "part", "more"}) -> call[t].bound
    [] At(t, {"adapter"}) -> call[t].sent
    [] OTHER -> call[t].as

\* Send: what comes back of this step's request, an answer or nothing.  Asking and
\* answering is one step: a token the site has dropped stays dropped.
Reply(t, reply) ==
  \/ reply = (IF At(t, {"mint", "public"}) THEN "data" ELSE Verdict(Sends(t))) /\ UNCHANGED webLeft
  \/ reply = "none" /\ Pays("fault")

\* A bug to look for: a request that was not answered counts as rejected.
RejectedOrLost(reply) == reply \in {"401", "none"}

\* ClearSessionIfRejected: only a real 401 counts.
Rejected(reply) == reply = "401"

Owner(token) == site.owner[token]

\* Whoever is signed in now is signed out by it.
ClearSessionIfRejected(reply) == IF Rejected(reply) THEN Clear ELSE UNCHANGED <<disk, mem>>

\* A call that ends with its first failure.
OwnAnswered(t, reply) ==
  /\ At(t, {"own"}) /\ Reply(t, reply)
  /\ ClearSessionIfRejected(reply)
  /\ IF reply = "data"
     THEN Onward(t, 1, [who |-> call[t].who \cup {Owner(Sends(t))}, got |-> TRUE])
     ELSE Over(t)
  /\ UNCHANGED <<active, site, revoking, webPast>>

\* One of several parts; the friend list is the adapter's when it has one, and the
\* requests are the core's.
PartAnswered(t, reply) ==
  /\ At(t, {"part", "adapter", "more"}) /\ Reply(t, reply)
  /\ ClearSessionIfRejected(reply)
  /\ LET used == reply = "data" /\ (At(t, {"more"}) \/ ~call[t].got)
         list == used /\ ~At(t, {"more"})
     IN Onward(t, 1, [who  |-> call[t].who \cup (IF used THEN {Owner(Sends(t))} ELSE {}),
                      got  |-> call[t].got \/ list,
                      seen |-> IF list THEN site.online \cap {Owner(Sends(t))} ELSE call[t].seen])
  /\ UNCHANGED <<active, site, revoking, webPast>>

PublicAnswered(t, reply) ==
  /\ At(t, {"public"}) /\ Reply(t, reply)
  /\ Onward(t, 1, <<>>)
  /\ UNCHANGED <<disk, mem, active, site, revoking, webPast>>

\* A bug to look for: the token of an answer that came late is minted again.
MintedTwice(t, reply) ==
  /\ At(t, {"mint"}) /\ Reply(t, reply) /\ reply = "data"
  /\ \E a \in call[t].who :
       /\ site' = [site EXCEPT !.owner = @ \o <<a, a>>]
       /\ Onward(t, 1, [as |-> Len(site.owner) + 2])
  /\ UNCHANGED <<disk, mem, active, revoking, webPast>>

\* A token is minted, and stays valid if the identity does not come after it.
Minted(t, reply) ==
  /\ At(t, {"mint"}) /\ Reply(t, reply)
  /\ IF reply = "data"
     THEN \E a \in call[t].who :
            /\ site' = [site EXCEPT !.owner = Append(@, a)]
            /\ Onward(t, 1, [as |-> Len(site.owner) + 1])
     ELSE Over(t) /\ UNCHANGED site
  /\ UNCHANGED <<disk, mem, active, revoking, webPast>>

\* The identity is asked for with the new token, and nothing is cleared.
Identified(t, reply) ==
  /\ At(t, {"identity"}) /\ Reply(t, reply)
  /\ IF reply = "data" THEN Onward(t, 1, <<>>) ELSE Over(t)
  /\ UNCHANGED <<disk, mem, active, site, revoking, webPast>>

\* The last thing both sign-ins do is to ask for the redirects (RecheckSoon).
Rechecks(t) ==
  /\ At(t, {"recheck"})
  /\ Onward(t, 1, <<>>)
  /\ UNCHANGED <<disk, mem, active, site, revoking, webPast, webLeft>>

\* external: a Switch host keeps what SignIn returned
Stored(t) ==
  /\ At(t, {"store"})
  /\ Save([bearer |-> call[t].as, linked |-> TRUE])
  /\ Onward(t, 1, [got |-> TRUE])
  /\ UNCHANGED <<active, site, revoking, webPast, webLeft>>

\* host_kit keeps the bearer under the email, asks for the name, and keeps it again
\* under that if it came.
KeptByName(t) ==
  /\ At(t, {"save", "again"})
  /\ IF At(t, {"save"}) \/ call[t].got THEN SaveBearerOnly(call[t].as) ELSE UNCHANGED <<disk, mem>>
  /\ Onward(t, 1, [got |-> At(t, {"again"})])
  /\ UNCHANGED <<active, site, revoking, webPast, webLeft>>

-----------------------------------------------------------------------------
(* Properties. *)

Asking == {"own", "part", "more", "adapter"}

Bearers(d) == {d[f].bearer : f \in Files} \ {0}

\* A stored session that the site still honours goes away only by a sign-out, by a
\* new sign-in, or by the 401 of a call that was sent with another token: network
\* errors, server errors and a 401 the site did not mean for it never clear it, in
\* whatever order calls, sign-ins and profile switches come (ClearSessionIfRejected,
\* "network errors and 5xx must never clear a good session").
GoodSessionKept ==
  [][\A t \in Bearers(disk) \ Bearers(disk') :
       \/ t \in site.revoked \/ webPast' # webPast
       \/ ~(Bearers(disk') \subseteq Bearers(disk))
       \/ \E u \in Callers : /\ call'[u] # call[u] /\ At(u, Asking)
                             /\ Sends(u) # t /\ Verdict(Sends(u)) = "401"]_webVars
=============================================================================
