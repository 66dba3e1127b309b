# openpak-client: TLA+ models, checks and proofs

`openpak-client` is the C++ library with which emulators reach an OpenPak server:
it signs a local profile in, keeps the tokens a game asks for, holds a push
connection, tells friends what is running, keeps the invitation inbox and the
friends module's caches, synchronises saves, keeps the website account, bounds what
is redirected, delivers BCAT data and writes crash reports. `client/` is the
library, `qt/` the window hosts share. This directory models what of it keeps state.
Every definition is translated from the source; `PROJECT.json` (`map`) gives the lines.

    tlc -workers 2 -config invitations.cfg MCInvitations
    tlapm SessionProofs.tla

## 1. Inventory

| Component | State it keeps | Operations | Talks to |
| --- | --- | --- | --- |
| Session (`session.cpp`) | `State` under one mutex: server, profile, device account, id_token, bearer, user; account files on disk | `Configure`, `SetApplication`, `FollowProfile`, `Ensure`, `Link`, `SendAs`, `ForgetProfile` | server (dauth, aauth, baas), disk, everyone below |
| Invitation inbox (`session.cpp`) | `invitations`, `dismissed`, two hooks | `RefreshInvitations`, `DismissInvitation` | session, server, host badge |
| Presence and heartbeat (`session.cpp`, `presence_state.cpp`) | `published_presence` under `presence_mutex`, `presence_dirty`, `signed_in_pending`, the thread; declarations per profile | `StartHeartbeat`, `SetRunningApplication`, `GoOffline`, `Update` | session, server, friends module, host callback |
| Push connection (`push.cpp`) | registration, ticket, `forget`, `live`, the thread; registration files | `Start`, `Stop`, `Drop`, `ForgetProfile`, `Register`, `LoginTicket`, `Hold` | session (`SendAs`, `UserId`), push server |
| Push deliveries (`push.cpp`, worker of `baas.cpp`) | `queued` per kind, the worker's task queue | `OnMessage`, `Refresh`, `RunInBackground`, `Worker::Run` | inbox, friends module |
| Friends module (`baas*.cpp`) | friend list, request boxes, block list, own user, invitation inbox of the guest | `Attach`, `Detach`, `Sync*`, block and request calls | session, push, disk caches |
| Website account and API (`account.cpp`, `api.cpp`) | an account file per profile and the one from before profiles, the account in memory | `EnsureLoaded`, `Save`, `Clear`, `Forget`, the sign-ins, one call per endpoint, the clearing on a 401 | web server, hosts, the network profile's watch |
| Save synchronisation (`save_sync.cpp`, `restore_swap.h`, `zip_store.cpp`) | the save folder, the staging, previous and backup folders beside it, the version marker | pull before launch, forced pull, push after exit, the page's restore, download and delete | API, disk |
| Network profile and ceiling (`network_profile_fetch.cpp`, `network_ceiling.cpp`) | the stored profile and its etag, the cached ceiling and the highest version accepted, what is in force, the watch | fetch at start, Refresh, the six-hourly re-check, lookups | web server, disk, sign-in |
| Crash reports (`crash_reports.cpp`, `crash_report_prompt.cpp`) | a directory of logs and reports, the policy | `Record`, the two handlers, the prompt, the sender, `Prune` | disk, web server |
| BCAT (`bcat.cpp`) | a copy of a title's dataset | `Fetch` | news service, disk |
| Qt window (`account_dialog`, `pages_p`, `friends_page`, `extra_pages`, `sign_in_dialog`, `host_kit`) | the pages, one work queue, the sign-in dialog | reloads, timers, buttons, sign-in and sign-out | API, session, host |
| Qt notifier (`friend_notifier`) | the friends last seen online | `Poll`, `Reset` | API |
| Friends snapshot, sent requests, compatibility list, NAT check, chat client | a list or a file each, replaced whole | one request each | server, host |

What is hard here is nearly always the same thing: **a network call between a read
of the shared state and the write that uses it**. `State::mutex` is let go for the
request, so another thread (heartbeat, push, worker, a guest's IPC thread, a page)
moves in between, and a *profile switch* may replace whom the state is about. Next
come crashes between writing a file and telling the server, or between two files
that belong together, answers that are lost after the server acted, notifications
that fall between a test and a wait, and coalesced work that may swallow a later
request.

What makes each component correct:

* Session: accounts, tokens and files stay with their profile and server; a linked
  account is never lost; a credential is sent only to the server that issued it.
* Inbox: nothing is shown without being announced; the badge is right or about to
  be; what is waiting is shown, and what a late answer brought back goes away.
* Presence: the goodbye is the last word; what friends see becomes what is declared.
* Push: a refused registration is replaced; the signed-in profile gets its own
  connection back; `Stop` returns; no delivery is lost in the coalescing.
* Friends module: every cache becomes the signed-in user's list on the server, and
  what a sync changes the guest is told.
* Saves: the save is one whole copy at every moment, and a play is not lost with it.
* Account: a session the site honours is not thrown away.
* Network profile: an older ceiling never replaces a newer one, no name outside it is
  redirected, and a 304 stands for the body whose etag was sent.
* Crash reports: a report goes only when it was taken, declined or too old.
* BCAT: a title gets one dataset whole, or none.
* Window and notifier: what is shown and announced is the signed-in account's.

## 2. Modules

Each component is a module `X`, an `MCX` that instantiates it for TLC, and `XProofs`
with its theorems (section 4). The first seven are separate because the code couples
them through few points, and each of these is in every module it matters to:
`SwitchProfile` (the host), `FollowProfile`'s switch, and the login. A BAAS user is
named by its profile (in `Session`, by its device account). `Website`, `Window`,
`NetworkProfile`, `CrashReports` and `Bcat` are composed by `Client`.

**Session.** `state` is the C++ `State`. `frame[t]` is a thread's call: its place and
locals. `mutex` is explicit because the login chain runs under it: `Lock`,
`Exchange` (device and application tokens), `Create` and `SaveDeviceAccount` (a new
account and its file, which may be torn or fail), `LoginSucceeds` or `LoginFails`.
`FollowProfile` is `Compare`, the goodbye without the lock, and `Switch`.
`LoadDeviceAccount` includes the adoption of the file from before profiles.
`SendAs` is `TakeToken` and `SendRequest`, since the bearer and the endpoint are read
at two moments. `Configure` may be called at any moment and any number of times, as in
an Android process (`session.cpp:252`). `Restart` is a crash anywhere.

**Invitations.** A poll is `Snapshot` (user, bearer, previous list, dismissals, under
the lock), `Fetch`, `Install` (the whole list is assigned), then `Arrivals` and
`Changed` (the hooks, outside every lock). `DismissInvitation` removes at once and
owes a count hook. `Prune` is the lifetime the server gives an invitation.

**PushRefresh.** `OnMessage` and the handover turn a frame into `Refresh` calls; a call
sets the kind's mark and then posts, the worker pops, takes the mark off and reads.
A read may throw.

**PushConnection.** One `pc` for the connection thread: look at `forget`, read the user,
load or request a registration, request a ticket, open, hold, wait. The set of `live`
and the test of `running` are separate steps from what they protect, as in the code.
`Revoke` and `Age` are the server and the clock. `Forced` are the thread's steps that a
timeout, `Stop` or the server brings about.

**Presence.** A publish is `Enter` (gate and body), `Speak` (who is signed in), and
`Accepted`, `AnswerLost` or `NotSent`. The heartbeat's round is the list of pieces
`Round` gives it, executed one by one; `Throws` ends it early.

**FriendsModule.** `cache` is the C++ `State`, `account` what the server keeps of each
user, `call[t]` a thread's call: the requests still to make (`plan`), the one that is
out (`now`) with its answer, and the hook it will run. The heartbeat makes
`BackgroundSync`'s calls in order, the worker one guest command at a time. `Ask` reads
who is signed in and is answered; the action named after the C++ function applies
the answer later, to whoever is signed in then. One set of ids stands for friends,
blocked users, senders and invitation groups. The boxes are one list (inbox); the
outbox is replaced in the same step and nothing compares it. `SendFriendRequest` looks
the receiver up, meets a request from the other side or not, and refreshes what the
code refreshes.

**SaveSync** and **AtomicSaves.** A save is the set of plays it contains, a copy that
was not finished is not whole. Three threads: the launch, the upload after an exit
and the page's queue; a restore is extraction, backup, the two renames and the rename
back, each of which may fail or be the last step of the process. Which archives a zip
reader refuses is a free choice (`Refuses`). `AtomicSaves` is the promise: the
save in effect is whole and changes in one step, to itself with a play more or to a
version the server took. `Atomic` is the refinement, with the folder in effect (the
save's, or the one set aside while there is no other) as the abstract save.

**Website.** `disk` and `mem` are `account.cpp`; `call[t]` is a thread's call as the list
of steps it has left, so a call binds its bearer once and meets sign-ins, sign-outs
and switches between its requests. Asking and answering are one step: a token the
site has dropped stays dropped, and nothing else an answer depends on changes what
is done with it. A 401 clears whoever is signed in at that moment, as in the code.

**Window.** `jobs`, `running` and `posted` are the work queue, its thread and the results
on their way to the UI thread; `shown` is whose data each page shows. A page's reload
is `Reload`, the timers, buttons, dialogs and the closing of the window are actions of
their own, `Draw` is the UI thread's callback. The friend notifier polls beside it.

**NetworkProfile.** A load is one thread's walk from reading the cache to applying the
profile, with each file written in a step of its own; `kept` are the four files. A
profile is its version, a ceiling the families it admits.

**CrashReports.** `files` is the directory; four actors write, prune, offer and send, one
file operation at a time, and none holds a lock.

**Bcat.** `copy` is the directory of one title's dataset: an entry for each path and one
for the manifest, removed and written entry by entry. `Fetch` is `Ask`, a
`DownloadPath` for each path, `ForgetEntry` and `Forgotten`, `WriteEntry` for each. The
host is taken to make one `Fetch` of a title at a time; nothing in `bcat.cpp` sees to it.

**Client.** One process with all five. They meet where the code lets them: a sign-in
asks the watch for a re-check, and a death of the process (`ProcessDies`) takes the
memory of all and leaves every file as it is. A behaviour follows one scenario of
`MCClient`, which says how many events of each kind it has.

## 3. Runs

| Run | Bounds | Shows |
| --- | --- | --- |
| `session_profiles` | 2 profiles and the empty id, 2 threads, 2 accounts, 1 crash, any number of `Configure` calls (6.1M states) | `AccountsUnshared`, `DeviceIsThisProfiles`, `IdentityAgrees`, `LinkedAccountKept` |
| `session_servers` | 2 servers, 1 profile and the empty id, a title, 2 accounts, 1 restart, any number of `Configure` calls (7.1M) | `HomeUnlessMoved`, `FreshIsNoOtherTitles` |
| `session_reconfigured` | the same with 1 account, no restart and no title | violation of `CredentialsStayHome` |
| `invitations` | 2 users, an invitation each, 2 polls, 1 switch, 1 dismissal in flight (320k) | `BadgeFollows`, `NoneUnannounced`, `Shown`, `Heals` |
| `push_refresh` | the five frames of `push.cpp` | `Coalesced`, `NoDeliveryLost`, `Reread` |
| `push_connection` | 2 profiles, 3 registrations, 1 revoked, 1 switch, 2 starts (73k) | `RefusedNotRetried`, `StrayIsForgotten`, `Reconnects`, `StopReturns` |
| `push_old_connection` | 2 profiles, 2 registrations, 1 switch | violation of `SpeaksForUser` |
| `friends` | 2 users, 1 other person, block list of 1, any 3 of: a command or local edit, a change on the server, a lost request or answer, a switch (1.4M) | `ListTold`, `WarmingOwned`, `Heard`, `Converges` |
| `presence` | 2 profiles, 1 title, a guest thread, 1 switch, 1 change or exception (760k) | `GoneStaysGone`, `Settles` |
| `saves` | 2 launches, an upload from another machine, a click and a failure or crash, in any order (3.6M) | `Atomic`, `LostOnlyWithBackup`, `UnmarkedKept` |
| `saves_aside` | the same | violation of `AsideKept` |
| `client` | twelve scenarios (1.3M) of 2 accounts, 2 profiles, 2 tokens, 2 titles, 2 versions, 3 reports, 2 datasets | `NoRollback`, `Unchanged304`, `ReportsKept`, `GoodSessionKept`, `PageFollowsAccount`, `ToldOnce`, `DeliveredWhole` |

Most runs check a type invariant as well. Bounds: a race here needs two threads,
or one thread and the host, and one event between its two steps, so two of each
actor and one of each event reach it (three in `friends`, where a masked arrival takes a request
to each of two users and a switch); a second account, registration or start lets
the effect of the first be seen (an account copied instead of moved, a refused
registration offered again). The number of beats between forced publishes is 2
instead of 3: forced and unforced beats still alternate. Each property has a mutant
of the code (`PROJECT.json`, `mutants`) that breaks it under the run's own bounds.
`CHECK_DEADLOCK FALSE` stands where the system may stop: after `Stop` and after
`GoOffline` with every bound used up, and in `saves` and `client`, where a behaviour
ends with its events. Symmetry is used only in runs without liveness.

The scenarios of `client` give one component room each: loads that fail, and three that
overlap; reports over two starts, and under a changing policy; the window while
profiles are switched, while its buttons and timers are used, on a host without
profiles, and with the pages that need no account; the notifier, on a host without
profiles and on one whose profiles are switched under a poll; a sign-in that meets
the watch; a title started three times. The window follows one or two pages at a time,
since a page's jobs meet another page's only in the one queue. The waiting limit of
reports is 1 (`kMaxPending`), so that one more report prunes; the paths of a manifest
are three, one of which is not delivered.

**History variables.** Where the code lets an overlap go wrong, a history variable
records that it happened and the property ends there, so that what it says up to then is
checked in every other order: `mixed` (a `Configure` changed the account, the profile or
the server under what is in memory; the account is in step again after the next switch),
`masked` (another user's unread requests, stored after a switch, were counted as this
user's; until the next sign-in or sign-out), `exposed` (a restore, or the look at the folder that
decides about a Pull, met another restore or a running title; a folder was made while
the only copy was set aside; a file was left out of an archive; `saves` stops there),
`netMixed` (two loads overlapped, or one could write neither of the ceiling's files),
`uiPast.crossed` (an answer of two accounts, or one that was compared with another
account's), `fresh` (the page was reloaded after the account last changed, and the
answer came), `webPast` (sign-outs), `bcatPast.failed` (a write or a removal failed).
Section 5 says what happens after each.

**Fairness.** All of it comes from timeouts in the code. Weak fairness of the threads:
every request has a 20 s timeout, the backoff and the silent-connection limit are
finite, and the worker waits only for tasks. For the push thread it is fairness of `Forced`
only: its read timeout is per read (`push.cpp:316`), so a connection that keeps receiving
ends by `Stop` or the server and by nothing else. Strong fairness of an answer
(`Fetch`, `Accepted`, `Register`, `LoginTicket`, `TicketRefused`, `Handover`,
`Unauthorized`): a server that is asked again and again answers now and then. Strong fairness of
`Wake(TRUE)`: the clock reaches the next beat. Nothing is assumed of the host: titles,
switches, dismissals, `Stop` and `GoOffline` need not happen, and no sign-in need
succeed, so `Settles`, `Reconnects` and `Converges` start from a profile that stays signed in.

## 4. Proofs

TLAPS checks these for every value of the constants; the assumptions are the `ASSUME`s
of the modules: absent values are distinct from the others (`NoneAssumption` and the
like), what is counted is finite, bounds are in `Nat`, and a scenario of `Client` has
budgets in `Nat` and starts with at most one stored account (`ScenariosAssumption`). The
budgets are arbitrary, so no theorem depends on how many crashes, faults or switches a
run allows.

A property is seldom inductive as it stands. What each proof adds is the argument:

* `SessionProofs`: `TypeCorrect`, `NoAccountShared`, `NoLinkedAccountLost`. `Inductive`
  adds: a call is under way only on a configured session (`ServerInv`); files and
  bindings are of accounts already made, so a new one is nobody's (`DiskInv`); the
  account in memory has its file, lost it, or is being written right now, and one is
  created only where there is no file (`MemoryInv`). The last is the heart: between
  `Create` and the write the account is in no file, and what keeps it from being linked
  is that the login comes after the write, under the same lock. `AdoptionKeeps` shows
  that handing the old file over moves every account and copies none.
  `NoOtherTitlesToken` rests on `SetApplication` waiting for the lock that `LoginLocked`
  holds while it reads the title twice.
* `SessionProofs`, for any number of `Configure` calls: `DeviceFollowsProfile`,
  `OneIdentity` and `CredentialsGoHome`, from one invariant (`Home`): a session that is
  not configured holds nothing; until a `Configure` mixes two accounts, and again after
  the switch that follows it, what is in memory is one profile's; and until a `Configure`
  moves the process to another server, the account, the bearer and every bearer on its way
  are of the open server (`ServerAgrees`). The last does not rest on the first: a
  process whose profiles were mixed up still sends nothing to another server.
* `InvitationsProofs`: `TypeCorrect`; `NothingShownUnannounced` from `AnnounceInv` (what a
  poll remembers as previous, or is about to install, is announced or in some poll's
  hands); `BadgeIsRight` from `BadgeInv`.
* `PushRefreshProofs`: `TypeCorrect`; `OneTaskPerKind`, where the mark is shown equivalent
  to a task on its way; `NoDeliveryIsLost` from `DeliveryInv`: it is not enough that a
  read is on its way, it must be the first of its job, since a read that throws takes
  the rest of the job with it.
* `PushConnectionProofs`: `TypeCorrect`; `RefusedIsReplaced`, since until the first
  switch a refused registration is neither in the file nor in the thread's hands.
  `StrayIsToldToGo` proves `StrayIsForgotten`, which is what holds beside the violation
  in `push_old_connection`, for any number of switches: with a server that checks a
  registration against the bearer, a connection accepted for a user with another's
  ticket is one `Drop` has already told the thread to forget. `OwnOrForgotten` carries
  it: a ticket or bearer in hand is of the profile the session follows, or `forget` is
  set, since every change of that profile calls `Drop` and only the top of the loop
  clears `forget`, together with the ticket.
* `PresenceProofs`: `TypeCorrect`; `GoodbyeIsLast`. A heartbeat that was stopped is over
  once the host has joined it (`Stopped`), and whoever holds the gate while saying
  goodbye holds INACTIVE as the body (`Held`), so nothing else is left to be sent.
* `FriendsModuleProofs`: `TypeCorrect` (the unread count is the box's); `ChangesAreTold`,
  since while only syncs touch the list it is the list last signed (`Signed`) whatever
  order two threads' answers come in; `MarksAreOwned`.
* `SaveSyncProofs`: `TypeCorrect`; `LaunchKeepsUnmarked`; `NothingElseLoses`; and
  `RestoreIsAtomic`, the refinement of `AtomicSaves`. `Safe` says what each step of a
  restore knows of the four folders (`FilesSafe`), that what comes from the server is
  whole and was taken by it (`ZipSafe`), and that there is one restore at a time and none
  under a running title (`Alone`), which is what `exposed` ends with.
* `ClientProofs` proves over the composed process, with one lemma per component that
  picks its part out of `Next`:
  * `GoodSessionKeptHolds` from `WebInductive`: a bearer that was minted is new to every
    file until the sign-in stores it, and only the sign-in stores one.
  * `DeliveredWholeHolds` from `BcatInductive`: under a manifest the copy holds
    that dataset's files or none, and while one is written there is no manifest and what
    is written so far is of one dataset; the fetch holds in memory what it will give. An
    answer that cannot be read gives the copy up whatever the service offers.
  * `CeilingNeverRolls` and `NotModifiedIsStored` from `NetInductive`: one of the two
    files remembers the highest ceiling that was put in force, a load that writes them
    has found nothing older (`CeilingHonest`), and a request with an etag stands over
    the body it is sent for (`ProfileHonest`). The proof found what TLC's bounds
    did not: besides an overlap, one load that can write neither file forgets the
    ceiling it puts in force, and `netMixed` records that case too.
  * `ReportsStay` from `RepInductive`: a writer's number is its own and nobody has seen
    it, its log is written before its meta, and whoever discards holds a report that was
    taken, declined, or outlived by `kMaxPending` newer ones. The last stays true
    because what has been pending only grows.
  * `TellsOnce` from `NotifierInductive`, which uses `WebInductive`: of each friend, what
    was told and the arrivals still on their way to be told (from the list to the site,
    from the answer under way to the site, or from the list through the answer to the
    site) are no more than the arrivals there were. A list fresh from the site has every
    arrival in it; a reset leaves nothing to compare with, and the first answer after it
    tells nothing. The attempt to prove it showed that an answer of two accounts has to
    end the property too: two such answers name the same accounts and may hold the
    friends of one and then of the other (`RoamingScenario` has such behaviours).
  * `PagesFollow` from `PagesInductive`, which follows a page's data to where it comes
    from. A page that was asked for since the account last changed has a last word still
    before it: a job on the queue, the job the worker is at, an answer posted to the UI
    thread, or what it shows. Whichever of the four is last is of the account held now:
    a job on the queue has not read the bearer yet, the worker's call has asked with the
    session held (`CallIsMine`), and the last answer posted is drawn over the earlier ones,
    which may be another's (`LastIs`). A change of the account makes every page old, which
    is all that protects a page from an answer that was on its way. The friends' answer
    also draws the badge (`WithBadge`). A reload asks for the pages `ReloadAll` picks: that
    `Picked` gives every entry at a chosen place and no other (`PickedEntries`) is proved by
    a least counterexample on that recursive function (`PickedWalks`).
  * `ClientTypes` puts together the type parts of the inductive invariants above;
    `BcatCountsHold` adds what BCAT still counts.

Every safety invariant and action property that a passing run checks has a theorem. Only
model-checked:

* All liveness (`Shown`, `Heals`, `Reread`, `Reconnects`, `StopReturns`, `Heard`,
  `Converges`, `Settles`), which is out of the prover's reach, as is ENABLED.

The runs that expect a violation are counterexamples; what does hold beside each is a
theorem: `CredentialsGoHome` (`HomeUnlessMoved`) beside `session_reconfigured`,
`StrayIsToldToGo` beside `push_old_connection`, `NothingElseLoses` beside `saves_aside`.

## 5. What the code does otherwise than it says

Three have a run and an entry in `findings`: a second `Configure` sends the first
server's device password to the second; a `Drop` that falls between the push
thread's look at `forget` and its read of the user leaves the old user's connection
passing for the new one's; and a restore after a swap that failed twice removes the
only copy of the save.

The others were met while modelling. The properties are stated so that they hold,
with the condition in their comment, and the models contain the behaviour:

* `Configure` after a profile change keeps the first profile's tokens, and its account
  where the new profile has none (`session.cpp:905-916`), though two calls in one process
  are expected (`:252`): `DeviceIsThisProfiles` and `IdentityAgrees` except the time from
  such a call to the next switch.
* An unbound id_token, minted when aauth gave none, counts as fresh for the bound
  title (`:538`, `:599`): `FreshIsNoOtherTitles` allows for it.
* A failed `Ensure` leaves the aged token (`:948` says it is left empty), and a login
  that fails after the exchange leaves a device-scoped bearer (`:558`).
* A poll under way at a dismissal or a switch puts the old list back until the next
  one (`:1189`), and two overlapping polls announce an invitation twice (`:1174`):
  `Heals` says that it passes.
* A switch empties the list and raises no count hook (`:874`): `BadgeFollows` holds
  until the first switch.
* An invitation pushed while the handover's task waits never has the guest's inbox
  read (`push.cpp:352`): `NoDeliveryLost` is about the lists every task of a kind reads.
* A registration is filed under, or removed from, the profile active after the
  answer (`push.cpp:213`, `:231`): `RefusedNotRetried` holds until the first switch.
* A stray connection that keeps receiving frames is ended by nothing (`push.cpp:316` limits
  each read, and only the top of the loop looks at `forget`): `Reconnects` excepts it.
* A heartbeat between the goodbye of `FollowProfile` and its switch puts the leaver
  online again (`session.cpp:855`); before it, the new profile's declaration goes out
  for the old user (`:1458`); a lost answer leaves `published_presence` behind the
  server (`:700`), which is why the forced publish matters to `Settles`.
* After a switch whose one sign-in failed, no later beat tries again (`:1391`).
* A list asked for by one user is stored for the next after a switch
  (`baas.cpp:501`): `Converges` says the beat puts it right, once its cooldown is over.
* A friend request that arrives while another is read is not announced
  (`baas.cpp:990`): `Heard` is about one that is alone in its box. Nor is one whose user's
  count already stands at another user's unread requests, asked for before a switch and
  stored after it (`:501`): `Heard` excepts that (`masked`).
* `WarmUsers` with nobody signed in leaves its marks until the next sign-in
  (`baas.cpp:936`): `WarmingOwned` is about a signed-in user.
* A friend-list sync that takes a local change back raises no hook, because the
  signature compared is the last sync's (`baas.cpp:501`; `baas.h:132` says that anything
  that changed raises it). A friend request that meets one from the other side
  refreshes only the boxes (`baas_requests.cpp:376`): `Converges` covers both.
* `PollInvitations` hands the guest what is in the list and dismisses it
  (`api.cpp:1090`); a poll under way puts it back, and the next call hands it over again,
  though `api.cpp:1089` says it must not.
* `CaptureForPush` looks for no file (`save_sync.cpp:359`): a title that wrote nothing, or
  whose folder is missing, uploads an empty archive as the newest version. Earlier
  versions stay, so the properties hold.
* A restore is asked for with `still_wanted` and then takes many steps
  (`save_sync.cpp:460`), and two of one title share the staging folder.
* A 401 of a call sent with an older token clears whoever is signed in (`api.cpp:258`):
  the one case `GoodSessionKept` leaves out. `SignInAccountOnly` saves twice and can
  bring back an account signed out in between (`host_kit.cpp:120`); a cancelled
  dialog's thread still signs in, and nobody is told; an identity that does not come
  leaves a minted token valid (`api.cpp:491`); `SaveBearerOnly` writes without loading,
  to the profile loaded last (`account.cpp:168`).
* `GetAccountFriends` reads the bearer more than once, so one answer may hold two
  accounts' data (`api.cpp:904`).
* After a sign-out an answer under way is drawn over the emptied page until the next
  reload; the Mods page keeps the old account's stars while its title stays; the
  Account page keeps the old picture when `GetProfile` fails. `PageFollowsAccount` is
  about pages reloaded since.
* A poll of the notifier under way at `Reset` makes the old account's answer the
  baseline (`friend_notifier.cpp:92`): `ToldOnce` ends there, and where an answer of two
  accounts is applied.
* Overlapping loads can put an older ceiling in force (`network_ceiling.cpp:449`); a cache
  that could not be written beside a highest version that was leaves the compiled
  ceiling; a stored body that could not be opened, with the new etag beside it, is
  pinned by every 304 after it (`network_profile_fetch.cpp:93`).
* `Prune` racing `Send` sends a report without its log; `DiscardAll` removes a `.json.tmp`
  that a writer is about to rename, and reports recorded while the box was open; logs
  without a report are never removed; reports of a signal are not pruned.
* A 200 whose body is no JSON object is in no window (`bcat.cpp:164`, `:191`): the copy kept
  for offline is removed, and the title is told there is none. `DeliveredWhole` counts that
  dataset as given up.
* `Store` looks at no write and `Cached` at no checksum: a file cut short by a full disk
  is delivered offline (`bcat.cpp:111`; `bcat.h:11` says a dataset is taken whole or not at
  all). A `Forget` that failed lets a withdrawn dataset be delivered offline.

## 6. Plan

1. Pure algorithms against a reference: `FrameReader`, NAT classification, status
   mappings.
2. The guest's side of the website (`RefreshGuestFriends`, `friends_cache.cpp`), as one
   more caller of `Website`.

Not modelled: widget layout, strings and their generator, byte layouts of friend
structures, parsing of answers, one-shot requests (population, avatars, My Page),
certificates, the chat client. `PROJECT.json` lists every component with the reason.
