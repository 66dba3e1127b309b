------------------------------ MODULE MCClient ------------------------------
(* Scenarios of the client that TLC explores: each gives one component room,  *)
(* and the last lets them meet.                                               *)
EXTENDS Client, TLC

NoNet == [load |-> 0, publish |-> 0, fault |-> 0]
NoReports == [start |-> 0, crash |-> 0, record |-> 0, policy |-> 0, fault |-> 0]
NoWeb == [change |-> 0, fault |-> 0]
NoDesktop == [ui |-> 0, sign |-> 0, poll |-> 0, friend |-> 0]
NoDelivery == [service |-> 0, fetch |-> 0, fault |-> 0]

Quiet == [net |-> NoNet, rep |-> NoReports, web |-> NoWeb, ui |-> NoDesktop, bcat |-> NoDelivery,
          family |-> "wfc", stored |-> {0}, slices |-> {<<"account">>},
          notifies |-> FALSE, running |-> TRUE, looked |-> TRUE, policy |-> "ask"]

\* Loads, re-checks and Refreshes over two starts.
NetworkScenario ==
  [Quiet EXCEPT !.running = FALSE, !.looked = FALSE, !.policy = "never",
                !.net = [load |-> 2, publish |-> 1, fault |-> 1],
                !.rep = [NoReports EXCEPT !.start = 2, !.crash = 1]]

\* Three loads at once, over files that can be written.
OverlapScenario ==
  [NetworkScenario EXCEPT !.net = [load |-> 3, publish |-> 1, fault |-> 0],
                          !.rep = [NoReports EXCEPT !.start = 1]]

\* Reports written, offered and sent over two starts.
ReportScenario ==
  [Quiet EXCEPT !.running = FALSE,
                !.rep = [start |-> 2, crash |-> 1, record |-> 2, policy |-> 0, fault |-> 0]]

\* The same while the policy changes.
PolicyScenario ==
  [ReportScenario EXCEPT !.rep.record = 1, !.rep.policy = 1, !.rep.fault = 1]

\* The window while people sign in and out and profiles are switched.
SwitchScenario ==
  [Quiet EXCEPT !.family = "switch", !.stored = {1},
                !.slices = {<<"friends", "invitations">>},
                !.web = [change |-> 2, fault |-> 0],
                !.ui = [NoDesktop EXCEPT !.ui = 1, !.sign = 1]]

\* The same window while its buttons, its pages and its timers are used.
ButtonScenario ==
  [SwitchScenario EXCEPT !.web.change = 1, !.ui = [NoDesktop EXCEPT !.ui = 3]]

SharedScenario ==
  [Quiet EXCEPT !.stored = {0, 1},
                !.slices = {<<"account", "friends">>, <<"saves">>},
                !.web = [change |-> 1, fault |-> 1], !.ui = [NoDesktop EXCEPT !.ui = 1, !.sign = 1]]

\* The pages that need no account, while a sign-in goes wrong.
PublicScenario ==
  [Quiet EXCEPT !.family = "switch", !.stored = {0, 1},
                !.slices = {<<"mods">>, <<"news">>, <<"status">>},
                !.web = [change |-> 0, fault |-> 1],
                !.ui = [NoDesktop EXCEPT !.ui = 2, !.sign = 1]]

\* The notifier while friends come and go and an account is left for another.
NotifierScenario ==
  [Quiet EXCEPT !.notifies = TRUE, !.stored = {1}, !.web = [change |-> 1, fault |-> 0],
                !.ui = [ui |-> 0, sign |-> 1, poll |-> 1, friend |-> 2]]

\* The same on a host with profiles, where an answer may hold two accounts' data.
RoamingScenario ==
  [NotifierScenario EXCEPT !.family = "switch", !.web.change = 2,
                           !.ui = [ui |-> 0, sign |-> 1, poll |-> 1, friend |-> 0]]

\* A sign-in that asks for a re-check, in a process that dies.
MeetingScenario ==
  [Quiet EXCEPT !.running = FALSE, !.net = [load |-> 1, publish |-> 0, fault |-> 0],
                !.rep = [NoReports EXCEPT !.start = 1, !.crash = 1, !.record = 0],
                !.ui = [NoDesktop EXCEPT !.sign = 1]]

\* A title that is started again and again while its dataset changes.
DeliveryScenario ==
  [Quiet EXCEPT !.policy = "never", !.rep = [NoReports EXCEPT !.start = 1, !.crash = 1],
                !.bcat = [service |-> 3, fetch |-> 3, fault |-> 1]]

MCScenarios == {NetworkScenario, OverlapScenario, ReportScenario, PolicyScenario, SwitchScenario,
                ButtonScenario, SharedScenario, PublicScenario, NotifierScenario, RoamingScenario,
                MeetingScenario, DeliveryScenario}

Symmetric == Permutations(Accounts) \cup Permutations(Profiles)
=============================================================================
