------------------------------- MODULE Client -------------------------------
(* The client library in one process: the network profile and its ceiling,    *)
(* the crash reports, the website account with its calls, the account window, *)
(* the friend notifier and a title's BCAT data.  They meet in two places: a   *)
(* sign-in asks the network profile's watch for a re-check, and a process     *)
(* that dies takes them all with it, leaving each one's files as they are at  *)
(* that moment.                                                               *)
(*                                                                            *)
(* A behaviour follows one scenario, which says how many events of each kind  *)
(* happen in it.                                                              *)
EXTENDS Window, NetworkProfile, CrashReports, Bcat

CONSTANT Scenarios

ASSUME ScenariosAssumption ==
  \A s \in Scenarios :
    /\ s.net \in [load : Nat, publish : Nat, fault : Nat]
    /\ s.rep \in [start : Nat, crash : Nat, record : Nat, policy : Nat, fault : Nat]
    /\ s.web \in [change : Nat, fault : Nat]
    /\ s.ui \in [ui : Nat, sign : Nat, poll : Nat, friend : Nat]
    /\ s.bcat \in [service : Nat, fetch : Nat, fault : Nat]
    /\ {s.running, s.looked, s.notifies} \subseteq BOOLEAN /\ s.policy \in Policies
    /\ s.stored \subseteq {0, 1} \cap 0..MaxTokens /\ s.slices \subseteq Seq(PageSet) \ {<<>>}

clientVars == <<netVars, repVars, webVars, winVars, bcatVars>>

ClientTypeOK == NetTypeOK /\ RepTypeOK /\ WebTypeOK /\ WinTypeOK /\ BcatTypeOK

Init ==
  \E s \in Scenarios :
    /\ NetInit(s.net, s.looked) /\ RepInit(s.rep, s.running, s.policy)
    /\ WebInit(s.web, s.family, s.stored, IF s.notifies THEN SUBSET Accounts ELSE {{}})
    /\ WinInit(s.ui, s.slices, s.notifies) /\ BcatInit(s.bcat)

-----------------------------------------------------------------------------
\* The threads of the network profile, and the site that publishes it.
Network ==
  /\ \/ \E t \in Threads :
          \/ Decide(t)
          \/ WriteCache(t)
          \/ WriteHighest(t)
          \/ SetCeiling(t)
          \/ FetchWithCeiling(t)
          \/ Answered(t)
          \/ Finish(t)
          \/ StoreBody(t)
          \/ StoreEtag(t)
          \/ Apply(t)
          \/ SetDigestInUse(t)
     \/ CurrentCeiling
     \/ WatchLoop
     \/ FreshDigest
     \/ Publish
  /\ UNCHANGED <<repVars, webVars, winVars, bcatVars>>

\* Whoever writes, offers, sends or throws away reports.
Reports ==
  /\ \/ \E policy \in Policies : SetPolicy(policy)
     \/ Record
     \/ OnTerminate
     \/ OnSignal
     \/ \E a \in Actors :
          \/ WriteLog(a)
          \/ WriteTmp(a)
          \/ Rename(a)
          \/ Prune(a)
          \/ DiscardMeta(a)
          \/ DiscardLog(a)
     \/ OfferCrashReports
     \/ \E yes, remember \in BOOLEAN : BoxAnswered(yes, remember)
     \/ DiscardAll
     \/ DiscardTmps
     \/ SendReads
     \/ PostCrashReport
  /\ UNCHANGED <<netVars, webVars, winVars, bcatVars>>

\* The account files, the site's tokens and the calls under way.
Web ==
  /\ \/ \E profile \in Files : Forget(profile)
     \/ SwitchProfile
     \/ Revoke
     \/ Expire
     \/ \E t \in Callers :
          \/ Bind(t)
          \/ Try(t)
          \/ FetchSwitch(t)
          \/ StillSignedIn(t)
          \/ \E reply \in Replies :
               \/ OwnAnswered(t, reply)
               \/ PartAnswered(t, reply)
               \/ PublicAnswered(t, reply)
               \/ Minted(t, reply)
               \/ Identified(t, reply)
          \/ Stored(t)
          \/ KeptByName(t)
  /\ Beside /\ UNCHANGED <<netVars, repVars, bcatVars>>

\* The window, its worker, the sign-in dialog and the notifier.
Desktop ==
  /\ \/ \E page \in PageSet :
          \/ OpenWindow(page)
          \/ GoToPage(page)
          \/ Act(page)
     \/ Refresh
     \/ RefreshTimer
     \/ StatusTimer
     \/ \E title \in Titles : PickTitle(title)
     \/ CloseWindow
     \/ Draw
     \/ WorkerTakes
     \/ WorkerPosts
     \/ WorkerStops
     \/ Poll
     \/ PollAnswered
     \/ \E who \in Accounts : Submit(who) \/ FriendMoves(who)
     \/ CancelDialog
     \/ SignInDone
     \/ SignOutClicked
  /\ UNCHANGED <<netVars, repVars, bcatVars>>

\* A title's BCAT data, and the service it comes from.
Delivery ==
  /\ \/ ServiceMoves
     \/ Ask
     \/ DownloadPath
     \/ ForgetEntry
     \/ Forgotten
     \/ WriteEntry
  /\ UNCHANGED <<netVars, repVars, webVars, winVars>>

\* Both sign-ins end by asking for the redirects again.
SignInRechecks ==
  /\ \E t \in Callers : Rechecks(t)
  /\ RecheckSoon /\ UNCHANGED <<published, kept, load, netMixed, accepted, netLeft>>
  /\ Beside /\ UNCHANGED <<repVars, bcatVars>>

ProcessStarts == Install /\ UNCHANGED <<netVars, webVars, winVars, bcatVars>>

ProcessDies == RepDie /\ NetDie /\ WebDie /\ BcatDie

Next ==
  \/ ProcessStarts
  \/ rep.installed /\ Network
  \/ rep.installed /\ Reports
  \/ rep.installed /\ Web
  \/ rep.installed /\ Desktop
  \/ rep.installed /\ Delivery
  \/ rep.installed /\ SignInRechecks
  \/ ProcessDies

Spec == Init /\ [][Next]_clientVars
=============================================================================
