------------------------------- MODULE Window -------------------------------
(* The account window, its pages and the friend notifier over the website's   *)
(* calls (account_dialog.cpp, pages_p, friends_page.cpp, extra_pages.cpp,     *)
(* sign_in_dialog.cpp, friend_notifier.cpp).                                  *)
(*                                                                            *)
(* A page asks for its data by queueing a job.  One worker runs the jobs in   *)
(* order and posts each result to the UI thread, which draws it; meanwhile    *)
(* the UI thread signs in and out, turns pages, closes the window and opens   *)
(* it again.  What a page shows is abstracted to the accounts whose data it   *)
(* is, and each account has one friend, online or not.                        *)
EXTENDS Website

CONSTANT
  Titles    \* the titles the Mods page picks from

ASSUME WindowAssumption == "none" \notin Titles

VARIABLES
  win,       \* the window: open, the page showing, the title picked, what Mods asked for
  jobs,      \* WorkQueue: jobs not started
  running,   \* the job the worker is at, if any
  posted,    \* results on their way to the UI thread
  shown,     \* whose data each page shows
  fresh,     \* history: the page was reloaded after the account last changed, and drawn
  dialog,    \* the sign-in dialog: closed, running, or closed with its thread going on
  notifier,  \* FriendNotifier: polling, first, online
  uiPast,    \* history: friends that came online, announcements of them, whose answer
             \* the last one was, and whether one that was applied held the data of two
             \* accounts or was compared with another account's
  uiLeft     \* how many more events of each kind this behaviour has

winVars == <<win, jobs, running, posted, shown, fresh, dialog, notifier, uiPast, uiLeft>>

\* kAccountPage and on; the badge on the page list is drawn with the friends.
\* A behaviour follows some of the pages: the window's others only queue more jobs.
PageSet == {"account", "friends", "invitations", "saves", "mods", "news", "status"}
Titled == {"mods", "news"}
Drawn == PageSet \cup {"badge"}

Unasked == [p \in Titled |-> "none"]
Job == [page : PageSet, act : BOOLEAN, title : Titles \cup {"none"}]
Result == [page : PageSet, act : BOOLEAN, title : Titles \cup {"none"}, ok : BOOLEAN,
           who : SUBSET Accounts]
NoJob == [page |-> "none", act |-> FALSE, title |-> "none"]
Closed(pages) ==
  [open |-> FALSE, pages |-> pages, page |-> Head(pages), title |-> "none", asked |-> Unasked]

\* FriendNotifier as a host that shows toasts makes it.
Fresh(on) == [on |-> on, polling |-> FALSE, first |-> TRUE, online |-> {}, due |-> on]

WinTypeOK ==
  /\ win \in [open : BOOLEAN, pages : Seq(PageSet), page : PageSet, title : Titles \cup {"none"},
            asked : [Titled -> Titles \cup {"none"}]]
  /\ jobs \in Seq(Job) /\ running \in Job \cup {NoJob} /\ posted \in Seq(Result)
  /\ shown \in [Drawn -> SUBSET Accounts] /\ fresh \in [Drawn -> BOOLEAN]
  /\ dialog \in {"closed", "running", "left"}
  /\ notifier \in [on : BOOLEAN, polling : BOOLEAN, first : BOOLEAN, due : BOOLEAN,
                   online : SUBSET Accounts]
  /\ uiPast \in [came : [Accounts -> Nat], told : [Accounts -> Nat], base : SUBSET Accounts,
                 crossed : BOOLEAN]
  /\ uiLeft \in [ui : Nat, sign : Nat, poll : Nat, friend : Nat]

WinInit(budget, slices, notifies) ==
  /\ win \in {Closed(pages) : pages \in slices} /\ jobs = <<>> /\ running = NoJob /\ posted = <<>>
  /\ shown = [p \in Drawn |-> {}] /\ fresh = [p \in Drawn |-> FALSE]
  /\ dialog = "closed"
  /\ notifier = Fresh(notifies)
  /\ uiPast = [came |-> [a \in Accounts |-> 0], told |-> [a \in Accounts |-> 0],
               base |-> {}, crossed |-> FALSE]
  /\ uiLeft = budget

Uses(kind) == uiLeft[kind] > 0 /\ uiLeft' = [uiLeft EXCEPT ![kind] = @ - 1]

Follows(page) == \E i \in DOMAIN win.pages : win.pages[i] = page

SignedIn == Held.bearer # 0

-----------------------------------------------------------------------------
(* The pages ask. *)

\* The entries at some positions of a sequence, in order: SelectSeq, but with the
\* positions for the test, so that it can be proved about.
Picked(s, places) ==
  LET picked[n \in 0..Len(s)] ==
        IF n = 0 THEN <<>>
        ELSE IF n \in places THEN Append(picked[n - 1], s[n]) ELSE picked[n - 1]
  IN picked[Len(s)]

\* What each page's job does on the worker.
Work(job) ==
  CASE job.act /\ job.page = "friends" -> PostAccount
    [] job.act /\ job.page = "invitations" -> DeclineInvitation
    [] job.act /\ job.page = "mods" -> SetModFavourite
    [] ~job.act /\ job.page = "account" -> GetProfile
    [] ~job.act /\ job.page = "friends" -> GetAccountFriends
    [] ~job.act /\ job.page = "invitations" -> GetInvitations
    [] ~job.act /\ job.page = "saves" -> GetCloudSaves
    [] ~job.act /\ job.page = "mods" -> GetMods
    [] ~job.act /\ job.page = "news" -> GetNewsManifest
    [] OTHER -> GetServiceStatus

\* A bug to look for: a page whose job is under way is not asked for again.
PostOnce(queue, asked) ==
  queue \o Picked(asked, {i \in DOMAIN asked : asked[i].page # running.page})

Post(queue, asked) == queue \o asked

Public == {"mods", "news", "status"}

\* The Mods and News pages ask again only when forced or for another title; a host without
\* profiles has no Invitations and no News page (NotHerePage).
Asks(w, r) ==
  /\ r.page \in Titled => r.force \/ w.title # w.asked[r.page]
  /\ r.page \in {"invitations", "news"} => active # Shared

WithBadge(pages) == pages \cup IF "friends" \in pages THEN {"badge"} ELSE {}

\* reload of some pages in turn, in the window w: a page that needs an account is
\* emptied when nobody is signed in, any other reload waits its turn on the queue.
Reload(w, signedIn, pages) ==
  LET asks == {i \in DOMAIN pages : (pages[i].page \in Public \/ signedIn) /\ Asks(w, pages[i])}
      asking == Picked(pages, asks)
      asked == {pages[i].page : i \in asks}
      emptied == IF signedIn THEN {} ELSE {pages[i].page : i \in DOMAIN pages} \ Public
  IN /\ jobs' = Post(jobs, [i \in DOMAIN asking |->
                             [page |-> asking[i].page, act |-> FALSE, title |-> w.title]])
     /\ shown' = [p \in Drawn |-> IF p \in WithBadge(emptied) THEN {} ELSE shown[p]]
     /\ fresh' = [p \in Drawn |-> fresh[p] \/ p \in WithBadge(asked \cup emptied)]
     /\ win' = [w EXCEPT !.asked = [p \in Titled |-> IF p \in asked THEN w.title ELSE @[p]]]

One(page, force) == <<[page |-> page, force |-> force]>>

\* ReloadAll: the page that is showing first, and forced.
Everything(w) ==
  LET others == Picked(w.pages, {i \in DOMAIN w.pages : w.pages[i] # w.page})
  IN One(w.page, TRUE) \o [i \in DOMAIN others |-> [page |-> others[i], force |-> FALSE]]

\* A handler of the UI thread that reads the account and reloads pages.
Reads(w, pages) ==
  /\ EnsureLoaded /\ Reload(w, SignedIn, pages)
  /\ UNCHANGED <<active, site, call, revoking, webPast, webLeft>>

-----------------------------------------------------------------------------
(* The UI thread. *)

OpenWindow(page) ==
  /\ ~win.open /\ Follows(page) /\ Uses("ui")
  /\ \E title \in IF \E p \in Titled : Follows(p) THEN Titles ELSE {"none"} :
       LET w == [win EXCEPT !.open = TRUE, !.page = page, !.title = title, !.asked = Unasked]
       IN Reads(w, Everything(w))
  /\ UNCHANGED <<running, posted, dialog, notifier, uiPast>>

GoToPage(page) ==
  /\ win.open /\ page # win.page /\ Follows(page) /\ Uses("ui")
  /\ Reads([win EXCEPT !.page = page], One(page, FALSE))
  /\ UNCHANGED <<running, posted, dialog, notifier, uiPast>>

AtRest == jobs = <<>> /\ running = NoJob /\ posted = <<>>

\* The Refresh button is enabled while nothing is in flight.
Refresh ==
  /\ win.open /\ AtRest /\ Uses("ui")
  /\ Reads(win, One(win.page, TRUE))
  /\ UNCHANGED <<running, posted, dialog, notifier, uiPast>>

Timed == One("friends", FALSE) \o One("invitations", FALSE)

\* Every 30 seconds.
RefreshTimer ==
  /\ win.open /\ Uses("ui")
  /\ Reads(win, Picked(Timed, {i \in DOMAIN Timed : Follows(Timed[i].page)}))
  /\ UNCHANGED <<running, posted, dialog, notifier, uiPast>>

\* The Status page's own timer, while it is the one showing.
StatusTimer ==
  /\ win.open /\ win.page = "status" /\ Uses("ui")
  /\ Reads(win, One("status", FALSE))
  /\ UNCHANGED <<running, posted, dialog, notifier, uiPast>>

\* The title is every titled page's; the one whose picker it was asks now.
PickTitle(title) ==
  /\ win.open /\ title # win.title /\ win.page \in Titled /\ Uses("ui")
  /\ Reads([win EXCEPT !.title = title], One(win.page, FALSE))
  /\ UNCHANGED <<running, posted, dialog, notifier, uiPast>>

\* The buttons: add, accept, decline, remove or block a friend, on a host whose page is
\* not read-only; ignore an invitation; a mod's star.
FriendButtons == active # Shared
InvitationButtons == shown["invitations"] # {}
ModStar == SignedIn

Act(page) ==
  /\ win.open /\ Follows(page) /\ Uses("ui")
  /\ \/ page = "friends" /\ FriendButtons
     \/ page = "invitations" /\ InvitationButtons
     \/ page = "mods" /\ ModStar
  /\ jobs' = Post(jobs, <<[page |-> page, act |-> TRUE, title |-> "none"]>>)
  /\ EnsureLoaded
  /\ UNCHANGED <<active, site, call, revoking, webPast, webLeft>>
  /\ UNCHANGED <<win, running, posted, shown, fresh, dialog, notifier, uiPast>>

\* What has not started is dropped; the job under way goes on, and reports to nobody.
CloseWindow ==
  /\ win.open /\ ~call["old"].busy /\ Uses("ui")
  /\ win' = Closed(win.pages) /\ jobs' = <<>> /\ running' = NoJob /\ posted' = <<>>
  /\ shown' = [p \in Drawn |-> {}] /\ fresh' = [p \in Drawn |-> FALSE]
  /\ call' = [call EXCEPT !["old"] = call["worker"], !["worker"] = NoCall]
  /\ UNCHANGED <<disk, mem, active, site, revoking, webPast, webLeft>>
  /\ UNCHANGED <<dialog, notifier, uiPast>>

\* What each page does with an answer: two keep what they show when it failed, the
\* titled ones drop one for a title that is no longer picked.
RefreshAccount(r) == r.page = "account" /\ r.ok
FriendsReload(r) == r.page = "friends" /\ r.ok
InvitationsReload(r) == r.page = "invitations"
SavesReload(r) == r.page = "saves"
ModsReload(r) == r.page = "mods" /\ r.title = win.title
NewsReload(r) == r.page = "news" /\ r.title = win.title

Draws(r) ==
  ~r.act /\ \/ RefreshAccount(r) \/ FriendsReload(r) \/ InvitationsReload(r)
            \/ SavesReload(r) \/ ModsReload(r) \/ NewsReload(r)

\* The results come back in the order they were posted; a button's reloads its page,
\* but for a star's and that of an Add that failed.
Draw ==
  /\ posted # <<>>
  /\ posted' = Tail(posted)
  /\ LET r == Head(posted)
     IN \/ r.act /\ r.page # "mods" /\ Reads(win, One(r.page, TRUE))
        \/ /\ ~r.act \/ r.page = "mods" \/ (r.page = "friends" /\ ~r.ok)
           /\ shown' = [p \in Drawn |-> IF Draws(r) /\ p \in WithBadge({r.page})
                                        THEN r.who ELSE shown[p]]
           /\ fresh' = [p \in Drawn |->
                          fresh[p] /\ (p \in WithBadge({r.page}) => Draws(r) \/ r.act)]
           /\ UNCHANGED <<win, jobs, webVars>>
  /\ UNCHANGED <<running, dialog, notifier, uiPast, uiLeft>>

-----------------------------------------------------------------------------
(* WorkQueue. *)

WorkerTakes ==
  /\ jobs # <<>> /\ running = NoJob
  /\ running' = Head(jobs) /\ jobs' = Tail(jobs)
  /\ Started("worker", Work(Head(jobs)), {})
  /\ UNCHANGED <<disk, mem, active, site, revoking, webPast, webLeft>>
  /\ UNCHANGED <<win, posted, shown, fresh, dialog, notifier, uiPast, uiLeft>>

WorkerPosts ==
  /\ Ended("worker")
  /\ posted' = Append(posted, [page |-> running.page, act |-> running.act,
                               title |-> running.title, ok |-> call["worker"].got,
                               who |-> call["worker"].who])
  /\ running' = NoJob
  /\ call' = [call EXCEPT !["worker"] = NoCall]
  /\ UNCHANGED <<disk, mem, active, site, revoking, webPast, webLeft>>
  /\ UNCHANGED <<win, jobs, shown, fresh, dialog, notifier, uiPast, uiLeft>>

\* The thread of a window that was closed ends with its job.
WorkerStops ==
  /\ Ended("old")
  /\ call' = [call EXCEPT !["old"] = NoCall]
  /\ UNCHANGED <<disk, mem, active, site, revoking, webPast, webLeft, winVars>>

-----------------------------------------------------------------------------
(* The notifier. *)

\* A bug to look for: the first answer after a reset is compared with nothing.
ResetUnmarked == [notifier EXCEPT !.online = {}, !.due = notifier.on]

Reset == [notifier EXCEPT !.first = TRUE, !.online = {}, !.due = notifier.on]

\* The timer, or the single shot of a Reset; one poll at a time.
Poll ==
  /\ \/ notifier.due /\ UNCHANGED uiLeft
     \/ notifier.on /\ ~notifier.due /\ ~notifier.polling /\ SignedIn /\ Uses("poll")
  /\ EnsureLoaded
  /\ IF notifier.polling \/ ~SignedIn
     THEN notifier' = [notifier EXCEPT !.due = FALSE] /\ UNCHANGED call
     ELSE /\ notifier' = [notifier EXCEPT !.due = FALSE, !.polling = TRUE]
          /\ Started("poll", GetAccountFriends, {})
  /\ UNCHANGED <<active, site, revoking, webPast, webLeft>>
  /\ UNCHANGED <<win, jobs, running, posted, shown, fresh, dialog, uiPast>>

\* The answer is compared with the last one, whoever's that was.
PollAnswered ==
  /\ Ended("poll")
  /\ EnsureLoaded
  /\ call' = [call EXCEPT !["poll"] = NoCall]
  /\ LET answer == call["poll"]
         now    == answer.seen
         same   == \E a \in Accounts : answer.who = {a} /\ uiPast.base \subseteq {a}
     IN IF ~answer.got \/ ~SignedIn
        THEN notifier' = [notifier EXCEPT !.polling = FALSE] /\ UNCHANGED uiPast
        ELSE /\ notifier' = [notifier EXCEPT !.polling = FALSE, !.first = FALSE, !.online = now]
             /\ uiPast' = [uiPast EXCEPT
                  !.told = [a \in Accounts |->
                              @[a] + IF ~notifier.first /\ a \in now \ notifier.online THEN 1 ELSE 0],
                  !.base = answer.who,
                  !.crossed = @ \/ ~same]
  /\ UNCHANGED <<active, site, revoking, webPast, webLeft>>
  /\ UNCHANGED <<win, jobs, running, posted, shown, fresh, dialog, uiLeft>>

-----------------------------------------------------------------------------
(* Signing in and out. *)

\* The menu offers the dialog when nobody is signed in, the Account page to retry.
OffersSignIn == SignedIn => win.open

\* The sign-in dialog runs the host's submitter on a thread of its own.
Submit(who) ==
  /\ OffersSignIn
  /\ dialog = "closed" /\ ~call["signin"].busy /\ Len(site.owner) < MaxTokens /\ Uses("sign")
  /\ dialog' = "running"
  /\ Started("signin", IF active = Shared THEN SignInAccountOnly ELSE SignIn, {who})
  /\ UNCHANGED <<disk, mem, active, site, revoking, webPast, webLeft>>
  /\ UNCHANGED <<win, jobs, running, posted, shown, fresh, notifier, uiPast>>

\* Cancel closes the dialog; its thread goes on.
CancelDialog ==
  /\ dialog = "running" /\ Uses("ui")
  /\ dialog' = "left"
  /\ UNCHANGED <<webVars, win, jobs, running, posted, shown, fresh, notifier, uiPast>>

Forgot == [uiPast EXCEPT !.base = {}]

\* A dialog that is still there is accepted, and the host says AccountLinked.
SignInDone ==
  /\ Ended("signin")
  /\ call' = [call EXCEPT !["signin"] = NoCall]
  /\ dialog' = "closed"
  /\ IF call["signin"].got /\ dialog = "running"
     THEN /\ notifier' = Reset /\ uiPast' = Forgot /\ EnsureLoaded
          /\ Reload(win, SignedIn, IF win.open THEN Everything(win) ELSE <<>>)
     ELSE UNCHANGED <<notifier, uiPast, disk, mem, win, jobs, shown, fresh>>
  /\ UNCHANGED <<active, site, revoking, webPast, webLeft, running, posted, uiLeft>>

\* The host says AccountUnlinked, which reloads every page; OnSignOut, the window's own
\* button, reloads them once more.
SignOutClicked ==
  /\ SignOut
  /\ notifier' = Reset /\ uiPast' = Forgot
  /\ IF win.open
     THEN \E pages \in {Everything(win), Everything(win) \o Everything(win)} :
            Reload(win, FALSE, pages)
     ELSE Reload(win, FALSE, <<>>)
  /\ UNCHANGED <<running, posted, dialog, uiLeft>>

\* external: the one friend of an account comes or goes
FriendMoves(who) ==
  /\ Uses("friend")
  /\ LET comes == who \notin site.online
     IN /\ site' = [site EXCEPT !.online = IF comes THEN @ \cup {who} ELSE @ \ {who}]
        /\ uiPast' = [uiPast EXCEPT !.came[who] = IF comes THEN @ + 1 ELSE @]
  /\ UNCHANGED <<disk, mem, active, call, revoking, webPast, webLeft>>
  /\ UNCHANGED <<win, jobs, running, posted, shown, fresh, dialog, notifier>>

\* What a step of the website's module does to the window: nothing; and a page drawn
\* for another account is not fresh.
Beside ==
  /\ fresh' = [p \in Drawn |-> fresh[p] /\ Held'.bearer = Held.bearer]
  /\ UNCHANGED <<win, jobs, running, posted, shown, dialog, notifier, uiPast, uiLeft>>

\* The process ends; the files and the site stay.
WebDie ==
  /\ mem' = [loaded |-> FALSE, profile |-> Shared, held |-> None]
  /\ call' = [t \in Callers |-> NoCall] /\ revoking' = {}
  /\ win' = Closed(win.pages) /\ jobs' = <<>> /\ running' = NoJob /\ posted' = <<>>
  /\ shown' = [p \in Drawn |-> {}] /\ fresh' = [p \in Drawn |-> FALSE] /\ dialog' = "closed"
  /\ notifier' = Fresh(notifier.on)
  /\ uiPast' = Forgot
  /\ UNCHANGED <<disk, active, site, webPast, webLeft, uiLeft>>

-----------------------------------------------------------------------------
(* Properties. *)

\* Once the window has come to rest, a page that was reloaded since the account last
\* changed, and whose answer came, shows the data of the account that is signed in
\* and of no other: no answer asked for before a sign-in, a sign-out or a switch of
\* profiles is drawn over one asked for after it (WorkQueue, ReloadAll, the pages'
\* reload).
PageFollowsAccount ==
  win.open /\ AtRest /\ SignedIn =>
    \A p \in Drawn : fresh[p] => shown[p] \subseteq {Owner(Held.bearer)}

\* Until an answer holds the data of two accounts, or is compared with one for another
\* account, a friend is announced at most as often as they came online: not when the
\* notifier starts, not after a sign-in, and not again when a poll fails in between
\* (FriendNotifier).
ToldOnce == uiPast.crossed \/ \A a \in Accounts : uiPast.told[a] <= uiPast.came[a]
=============================================================================
