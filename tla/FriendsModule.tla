--------------------------- MODULE FriendsModule ---------------------------
(***************************************************************************)
(* The friends module's calls and caches: client/openpak/baas.cpp,         *)
(* baas_blocks.cpp and baas_requests.cpp.                                  *)
(*                                                                         *)
(* Two threads make the calls: the session's heartbeat (BackgroundSync)    *)
(* and the module's worker (what a guest's command handed over).  A call   *)
(* is a sequence of requests; a request reads who is signed in, goes to    *)
(* the server, and its answer is applied under the lock some time later,   *)
(* whoever is signed in by then.  Hooks run after the lock.                *)
(*                                                                         *)
(* One set of ids stands for the people of all lists: friends, blocked     *)
(* users, senders of a request and of an invitation (with its group).      *)
(***************************************************************************)
EXTENDS Naturals, FiniteSets, Sequences

CONSTANTS
    Users,       \* BAAS users, one per profile
    First,       \* the user signed in first
    None,        \* nobody, nothing
    People,      \* ids the lists hold
    BlockLimit,  \* the block list's capacity (100)
    MaxEvents    \* bound: guest commands and local edits, what other people do
                 \* on the server, requests or answers lost, profile switches

Beat    == "heartbeat"
Worker  == "worker"
Threads == {Beat, Worker}

ASSUME FriendsAssumption ==
    /\ First \in Users
    /\ None \notin Users /\ None \notin People /\ IsFiniteSet(People)
    /\ {BlockLimit, MaxEvents} \subseteq Nat

\* A friend as the module compares one: its flags and presence are one datum.
Friends  == [People -> {"no", "plain", "starred"}]
\* A request box: requests are answered once.
Box      == [People -> {"none", "unread", "read", "answered"}]

NoFriends == [x \in People |-> "no"]
NoBox     == [x \in People |-> "none"]

VARIABLES
    user,     \* State::user_id, and whose bearer SendAs speaks with
    cache,    \* the rest of State: lists, marks, settings
    found,    \* friend_users: the people a friend code was looked up for
    call,     \* each thread's call
    account,  \* server side: each user's lists
    told,     \* the friend list the guest read when the list hook last ran
    heard,    \* the requests the arrival hook has announced, as (user, sender)
    masked,   \* history: another user's unread requests were counted as this one's
    edited,   \* something other than a sync changed the friend list
    events    \* how many of the bounded events there were

guest  == <<told, heard, masked>>
vars   == <<user, cache, found, call, account, guest, edited, events>>

\* What ForgetLocked leaves.
Forgotten ==
    [friends |-> NoFriends, signature |-> None, cool |-> FALSE, blocks |-> {},
     setting |-> None, box |-> NoBox, unread |-> 0,
     invitations |-> {}, groups |-> {}, users |-> {}, warming |-> {}]

\* What the server keeps of a user.
Account == [friends : Friends, blocks : SUBSET People, box : Box, code : BOOLEAN,
            mail : SUBSET People]
NewAccount == [friends |-> NoFriends, blocks |-> {}, box |-> NoBox, code |-> FALSE, mail |-> {}]

\* A request of a call, and what it names.
Step(do, x) == [do |-> do, on |-> x]
Get(do)     == Step(do, None)
Requests    == {"requests", "friends", "force", "blocks", "setting", "code", "invitations",
                "group", "users", "block", "unblock", "patch", "delete", "answer", "read",
                "add", "drop", "code_user", "send"}
Steps       == [do : Requests, on : People \cup {None}]

ASSUME NoneAssumption == None \notin Friends /\ None \notin Steps /\ None # "list"

\* A call: its requests to come, the one whose answer is out, the answer, its
\* copy of the block list, and the hook it is about to run.
NoCall == [plan |-> <<>>, now |-> None, answer |-> None, body |-> None, blocks |-> {}, hook |-> None]

Init ==
    /\ user = First
    /\ cache = Forgotten /\ found = {}
    /\ call = [t \in Threads |-> NoCall]
    /\ account = [u \in Users |-> NewAccount]
    /\ told = NoFriends /\ heard = {} /\ masked = FALSE /\ edited = FALSE
    /\ events = 0

-----------------------------------------------------------------------------
(* Who is signed in.                                                       *)

\* FollowProfile: Detach forgets everything.
Detach ==
    /\ user # None /\ events < MaxEvents
    /\ user' = None /\ cache' = Forgotten /\ edited' = TRUE
    /\ masked' = FALSE /\ events' = events + 1
    /\ UNCHANGED <<call, found, account, told, heard>>

\* The login: caches from another user are dropped.
Attach(u) ==
    /\ user = None
    /\ user' = u /\ cache' = Forgotten
    /\ masked' = FALSE
    /\ UNCHANGED <<call, found, account, told, heard, edited, events>>

-----------------------------------------------------------------------------
(* The server.                                                             *)

\* What a write does to its user's lists.
Write(a, s) ==
    CASE s.do = "block"   -> [a EXCEPT !.blocks = @ \cup {s.on}, !.friends[s.on] = "no"]
      [] s.do = "unblock" -> [a EXCEPT !.blocks = @ \ {s.on}]
      [] s.do = "patch"   -> [a EXCEPT !.friends[s.on] = "starred"]
      [] s.do = "delete"  -> [a EXCEPT !.friends[s.on] = "no"]
      [] s.do = "answer"  -> [a EXCEPT !.box[s.on] = "answered", !.friends[s.on] = "plain"]
      [] s.do = "read"    -> [a EXCEPT !.box[s.on] = "read"]
      [] s.do = "send" /\ a.box[s.on] \in {"unread", "read"} ->
             [a EXCEPT !.box[s.on] = "answered", !.friends[s.on] = "plain"]
      [] s.do = "code"    -> [a EXCEPT !.code = TRUE]
      [] OTHER            -> a

\* A write about somebody the server does not know in that role.
Unknown(a, s) ==
    \/ s.do = "block" /\ s.on \in a.blocks
    \/ s.do = "unblock" /\ s.on \notin a.blocks
    \/ s.do \in {"patch", "delete"} /\ a.friends[s.on] = "no"
    \/ s.do = "send" /\ (a.friends[s.on] # "no" \/ s.on \in a.blocks)
    \/ s.do \in {"answer", "read"} /\ a.box[s.on] \notin {"unread", "read"}

\* Other people, and the person's other devices.
Change(u, x) ==
    /\ events < MaxEvents
    /\ \/ account' = [account EXCEPT ![u].friends[x] = IF @ = "no" THEN "plain" ELSE "no"]
       \/ /\ account[u].box[x] = "none"
          /\ account' = [account EXCEPT ![u].box[x] = "unread"]
       \/ account' = [account EXCEPT ![u].mail = @ \cup {x}]
    /\ events' = events + 1
    /\ UNCHANGED <<user, cache, found, call, guest, edited>>

-----------------------------------------------------------------------------
(* Calls.                                                                  *)

Idle(t) == call[t] = NoCall

\* BackgroundSync, in its order; SyncModuleCaches is the last three.
BackgroundSync ==
    /\ Idle(Beat)
    /\ call' = [call EXCEPT ![Beat].plan =
                    <<Get("requests"), Get("friends"), Get("blocks"), Get("setting"),
                      Get("invitations")>>]
    /\ UNCHANGED <<user, cache, found, account, guest, edited, events>>

AfterWrite == <<Get("blocks"), Get("force"), Get("requests")>>

\* What a guest's command hands to the worker.
Plans(x) == {
    <<Step("add", x), Step("block", x)>>,     \* BlockUser
    <<Step("drop", x), Step("unblock", x)>>,  \* UnblockUser
    <<Step("patch", x)>>,                     \* PatchFriend
    <<Step("delete", x)>>,                    \* DeleteFriend
    <<Step("answer", x)>>,                    \* AnswerFriendRequest
    <<Step("read", x)>>,                      \* ReadFriendRequest
    <<Step("code_user", x), Step("send", x)>>,\* SendFriendRequest
    <<Step("users", x)>>,                     \* WarmUsers
    <<Get("force")>>}                         \* SyncFriendList(true)

Command(x) ==
    /\ Idle(Worker) /\ events < MaxEvents
    /\ \E plan \in Plans(x) : call' = [call EXCEPT ![Worker].plan = plan]
    /\ events' = events + 1
    /\ UNCHANGED <<user, cache, found, account, guest, edited>>

\* Update: the local half of a change the guest makes to a friend.
Update(x) ==
    /\ events < MaxEvents /\ cache.friends[x] # "no"
    /\ cache' = [cache EXCEPT !.friends[x] = IF @ = "plain" THEN "starred" ELSE "plain"]
    /\ edited' = TRUE /\ events' = events + 1
    /\ UNCHANGED <<user, found, call, account, guest>>

\* The thread is at a request of its call that has this name, its hook done.
At(t, names) ==
    /\ call[t].plan # <<>> /\ call[t].now = None /\ call[t].hook = None
    /\ Head(call[t].plan).do \in names

\* ReceiverId: a friend is named by id; anybody else by the user behind their friend
\* code, once FriendUser has found it.
ReceiverKnown(x) == cache.friends[x] # "no" \/ x \in found

\* Mutant: a list that was synced once is not synced again.
NotNeededOnce(s) ==
    \/ user = None
    \/ s.do = "friends" /\ cache.signature # None
    \/ s.do = "group" /\ s.on \in cache.groups
    \/ s.do = "code_user" /\ ReceiverKnown(s.on)

\* A request that is not made: nobody is signed in, the list is within its
\* cooldown, the group is cached, the receiver known.
NotNeeded(s) ==
    \/ user = None
    \/ s.do = "friends" /\ cache.signature # None /\ cache.cool
    \/ s.do = "group" /\ s.on \in cache.groups
    \/ s.do = "code_user" /\ ReceiverKnown(s.on)

\* The requests that begin with the server, and not with the cache.
Remote == Requests \ {"add", "drop", "users"}

\* Nothing is sent; to BlockUser and UnblockUser that is a failure, after which
\* they sync.
Skip(t) ==
    /\ At(t, Remote) /\ NotNeeded(Head(call[t].plan))
    /\ call' = [call EXCEPT ![t].plan =
           (IF Head(@).do \in {"block", "unblock"} THEN <<Get("blocks")>> ELSE <<>>) \o Tail(@)]
    /\ UNCHANGED <<user, cache, found, account, guest, edited, events>>

\* BaasError: the codes a call tells apart.
BaasError(known) == IF known THEN "ok" ELSE "unknown"

\* The request goes to the server, for the user signed in, and is answered.
Ask(t) ==
    /\ At(t, Remote) /\ ~NotNeeded(Head(call[t].plan))
    /\ LET s     == Head(call[t].plan)
           known == ~Unknown(account[user], s)
           after == IF known THEN Write(account[user], s) ELSE account[user]
       IN  /\ account' = [account EXCEPT ![user] = after]
           /\ call' = [call EXCEPT ![t] = [@ EXCEPT !.plan = Tail(call[t].plan), !.now = s,
                           !.answer = BaasError(known),
                           !.body = [of |-> user, lists |-> after]]]
    /\ UNCHANGED <<user, cache, found, guest, edited, events>>

\* It does not arrive, is refused (another user's bearer), or its answer is lost.
AskFails(t, served) ==
    /\ At(t, Remote) /\ ~NotNeeded(Head(call[t].plan)) /\ events < MaxEvents
    /\ LET s == Head(call[t].plan)
       IN  /\ account' = IF served /\ ~Unknown(account[user], s)
                         THEN [account EXCEPT ![user] = Write(@, s)] ELSE account
           /\ call' = [call EXCEPT ![t] = [@ EXCEPT !.plan = Tail(call[t].plan), !.now = s, !.answer = "error"]]
    /\ events' = events + 1
    /\ UNCHANGED <<user, cache, found, guest, edited>>

\* The thread goes on: with more requests, and first with a hook.
Goes(t, plan, hook) ==
    call' = [call EXCEPT ![t] = [NoCall EXCEPT !.plan = plan \o call[t].plan, !.hook = hook]]

\* The answer to this thread's request, to be applied.
Answered(t, do, answer) ==
    /\ call[t].now # None
    /\ call[t].now.do = do /\ call[t].answer \in answer

-----------------------------------------------------------------------------
(* Lists the server is authoritative for.                                  *)

\* Mutant: the list is compared with itself.
SyncFriendListLate(t) ==
    /\ Answered(t, "friends", {"ok"}) \/ Answered(t, "force", {"ok"})
    /\ LET list == call[t].body.lists.friends
       IN  /\ cache' = [cache EXCEPT !.friends = list, !.signature = list, !.cool = TRUE]
           /\ Goes(t, <<>>, IF cache.signature = None THEN "list" ELSE None)
    /\ UNCHANGED <<user, found, account, guest, edited, events>>

\* SyncFriendList: the list, its signature and the time, and a hook if it changed.
SyncFriendList(t) ==
    /\ Answered(t, "friends", {"ok"}) \/ Answered(t, "force", {"ok"})
    /\ LET list == call[t].body.lists.friends
       IN  /\ cache' = [cache EXCEPT !.friends = list, !.signature = list, !.cool = TRUE]
           /\ Goes(t, <<>>, IF cache.signature # list THEN "list" ELSE None)
    /\ UNCHANGED <<user, found, account, guest, edited, events>>

\* The 30 seconds are over.
CooledDown ==
    /\ cache.cool /\ cache' = [cache EXCEPT !.cool = FALSE]
    /\ UNCHANGED <<user, found, call, account, guest, edited, events>>

SyncBlockList(t) ==
    /\ Answered(t, "blocks", {"ok"})
    /\ cache' = [cache EXCEPT !.blocks = call[t].body.lists.blocks]
    /\ Goes(t, <<>>, None)
    /\ UNCHANGED <<user, found, account, guest, edited, events>>

\* SyncUserSetting, IssueFriendCode: the user object; a code if it has none.
SyncUserSetting(t) ==
    /\ Answered(t, "setting", {"ok"}) \/ Answered(t, "code", {"ok"})
    /\ LET code == call[t].body.lists.code
       IN  /\ cache' = [cache EXCEPT !.setting = [of |-> call[t].body.of, code |-> code]]
           /\ Goes(t, IF code THEN <<>> ELSE <<Get("code")>>, None)
    /\ UNCHANGED <<user, found, account, guest, edited, events>>

\* SyncInvitations: the inbox, then each group that is not cached.
SyncInvitations(t) ==
    /\ Answered(t, "invitations", {"ok"})
    /\ LET mail == call[t].body.lists.mail
       IN  /\ cache' = [cache EXCEPT !.invitations = mail]
           /\ \E order \in {f \in [1..Cardinality(mail) -> mail] : \A x \in mail : \E i \in DOMAIN f : f[i] = x} :
                 Goes(t, [i \in DOMAIN order |-> Step("group", order[i])], None)
    /\ UNCHANGED <<user, found, account, guest, edited, events>>

FetchInvitationGroup(t) ==
    /\ Answered(t, "group", {"ok"})
    /\ cache' = [cache EXCEPT !.groups = @ \cup {call[t].now.on}]
    /\ Goes(t, <<>>, None)
    /\ UNCHANGED <<user, found, account, guest, edited, events>>

UnreadOf(box) == Cardinality({x \in People : box[x] = "unread"})

\* An answer for user u is stored as the signed-in one's.
Counted(u, box) == masked' = (masked \/ (u # user /\ UnreadOf(box) > 0))

\* Mutant: an arrival is noticed only beside another.
SetFriendRequestsFirst(t) ==
    /\ Answered(t, "requests", {"ok"})
    /\ LET box == call[t].body.lists.box
       IN  /\ cache' = [cache EXCEPT !.box = box, !.unread = UnreadOf(box)]
           /\ Counted(call[t].body.of, box)
           /\ Goes(t, <<>>, IF UnreadOf(box) > 1 THEN "request" ELSE None)
    /\ UNCHANGED <<user, found, account, told, heard, edited, events>>

\* Mutant: the count stays behind.
SetFriendRequestsUncounted(t) ==
    /\ Answered(t, "requests", {"ok"})
    /\ LET box == call[t].body.lists.box
       IN  /\ cache' = [cache EXCEPT !.box = box]
           /\ Counted(call[t].body.of, box)
           /\ Goes(t, <<>>, IF UnreadOf(box) > cache.unread THEN "request" ELSE None)
    /\ UNCHANGED <<user, found, account, told, heard, edited, events>>

\* SetFriendRequests: the boxes, and a hook when more of them are unread.
SetFriendRequests(t) ==
    /\ Answered(t, "requests", {"ok"})
    /\ LET box == call[t].body.lists.box
       IN  /\ cache' = [cache EXCEPT !.box = box, !.unread = UnreadOf(box)]
           /\ Counted(call[t].body.of, box)
           /\ Goes(t, <<>>, IF UnreadOf(box) > cache.unread THEN "request" ELSE None)
    /\ UNCHANGED <<user, found, account, told, heard, edited, events>>

\* A sync that fails leaves what there was.
SyncFails(t) ==
    /\ \E do \in {"requests", "friends", "force", "blocks", "setting", "code", "invitations",
                  "group", "patch", "send", "answer", "read"} : Answered(t, do, {"error"})
    /\ Goes(t, <<>>, None)
    /\ UNCHANGED <<user, cache, found, account, guest, edited, events>>

\* The hook of the call, outside every lock.  Unread requests in another user's box
\* are not what the one signed in was to hear of.
Hook(t) ==
    /\ call[t].hook # None
    /\ IF call[t].hook = "list"
       THEN told' = cache.friends /\ UNCHANGED heard
       ELSE /\ heard' = heard \cup
                   {<<user, x>> : x \in {y \in People : cache.box[y] = "unread" /\ ~masked}}
            /\ UNCHANGED told
    /\ call' = [call EXCEPT ![t].hook = None]
    /\ UNCHANGED <<user, cache, found, account, masked, edited, events>>

-----------------------------------------------------------------------------
(* Writes.                                                                 *)

\* AddLocally and RemoveLocally read the list under one lock ...
Peek(t) ==
    /\ At(t, {"add", "drop"})
    /\ call' = [call EXCEPT ![t] =
           IF user = None THEN NoCall
           ELSE [@ EXCEPT !.plan = Tail(call[t].plan), !.now = Head(call[t].plan), !.blocks = cache.blocks]]
    /\ UNCHANGED <<user, cache, found, account, guest, edited, events>>

\* ... and replace it under another.
ReplaceBlocks(t) ==
    /\ call[t].now # None
    /\ LET x     == call[t].now.on
           known == call[t].blocks
       IN  \/ /\ call[t].now.do = "add"
              /\ cache' = IF x \in known \/ Cardinality(known) >= BlockLimit THEN cache
                          ELSE [cache EXCEPT !.blocks = known \cup {x}]
           \/ /\ call[t].now.do = "drop"
              /\ cache' = [cache EXCEPT !.blocks = known \ {x}]
    /\ Goes(t, <<>>, None)
    /\ UNCHANGED <<user, found, account, guest, edited, events>>

\* BlockUser and UnblockUser: a success syncs all it touches, a failure the
\* blocks; an unblock of somebody unknown stands as it is.
BlockAnswered(t) ==
    /\ \E do \in {"block", "unblock"} : Answered(t, do, {"ok", "unknown", "error"})
    /\ Goes(t, IF call[t].answer = "ok" THEN AfterWrite
               ELSE IF call[t].now.do = "unblock" /\ call[t].answer = "unknown" THEN <<>>
               ELSE <<Get("blocks")>>, None)
    /\ UNCHANGED <<user, cache, found, account, guest, edited, events>>

\* Replace and Remove: one friend of the list, if it is there.
Replaced(friends, x, updated) == [friends EXCEPT ![x] = IF @ = "no" THEN @ ELSE updated]
Removed(friends, x) == [friends EXCEPT ![x] = "no"]

\* PatchFriend: the reply replaces the friend in the list.
PatchFriend(t) ==
    /\ Answered(t, "patch", {"ok"})
    /\ LET x == call[t].now.on
       IN  cache' = [cache EXCEPT !.friends = Replaced(@, x, call[t].body.lists.friends[x])]
    /\ edited' = TRUE
    /\ Goes(t, <<>>, "list")
    /\ UNCHANGED <<user, found, account, guest, events>>

\* DeleteFriend: the list is synced, or the friend nobody knows removed.
DeleteAnswered(t) ==
    /\ Answered(t, "delete", {"ok", "unknown", "error"})
    /\ IF call[t].answer = "unknown"
       THEN /\ cache' = [cache EXCEPT !.friends = Removed(@, call[t].now.on)]
            /\ edited' = TRUE /\ Goes(t, <<>>, "list")
       ELSE /\ Goes(t, IF call[t].answer = "ok" THEN <<Get("force")>> ELSE <<>>, None)
            /\ UNCHANGED <<cache, edited>>
    /\ UNCHANGED <<user, found, account, guest, events>>

\* AnswerFriendRequest and ReadFriendRequest read the boxes again.
RequestAnswered(t) ==
    /\ \E do \in {"answer", "read"} : Answered(t, do, {"ok"})
    /\ Goes(t, <<Get("requests")>>, None)
    /\ UNCHANGED <<user, cache, found, account, guest, edited, events>>

\* UserByFriendCode: the user behind a code, kept for every profile.
FriendUser(t) ==
    /\ Answered(t, "code_user", {"ok"})
    /\ found' = found \cup {call[t].now.on}
    /\ Goes(t, <<>>, None)
    /\ UNCHANGED <<user, cache, account, guest, edited, events>>

\* Without it the request is sent to an id that is nobody's, and refused.
FriendUserUnknown(t) ==
    /\ Answered(t, "code_user", {"error"})
    /\ call' = [call EXCEPT ![t] = NoCall]
    /\ UNCHANGED <<user, cache, found, account, guest, edited, events>>

\* SendFriendRequest: a request that met one from the other side made friends at
\* once, and the boxes are read again.
SendFriendRequest(t) ==
    /\ Answered(t, "send", {"ok"})
    /\ Goes(t, IF call[t].body.lists.friends[call[t].now.on] = "plain"
               THEN <<Get("requests")>> ELSE <<>>, None)
    /\ UNCHANGED <<user, cache, found, account, guest, edited, events>>

\* What the server refuses in a patch, a request, an answer or a read ends the call.
Refused(t) ==
    /\ \E do \in {"patch", "send", "answer", "read"} : Answered(t, do, {"unknown"})
    /\ Goes(t, <<>>, None)
    /\ UNCHANGED <<user, cache, found, account, guest, edited, events>>

-----------------------------------------------------------------------------
(* WarmUsers.                                                              *)

\* The ids wanted are marked; without a user the call ends there.
Warm(t) ==
    /\ At(t, {"users"})
    /\ LET s == Head(call[t].plan)
       IN  IF s.on \in cache.users \cup cache.warming
           THEN call' = [call EXCEPT ![t] = NoCall] /\ UNCHANGED cache
           ELSE /\ cache' = [cache EXCEPT !.warming = @ \cup {s.on}]
                /\ call' = [call EXCEPT ![t] = [@ EXCEPT !.plan = <<>>, !.now = s]]
    /\ UNCHANGED <<user, found, account, guest, edited, events>>

WarmGivesUp(t) ==
    /\ call[t].now # None /\ call[t].now.do = "users" /\ call[t].answer = None
    /\ user = None
    /\ call' = [call EXCEPT ![t] = NoCall]
    /\ UNCHANGED <<user, cache, found, account, guest, edited, events>>

FetchUsers(t) ==
    /\ call[t].now # None /\ call[t].now.do = "users" /\ call[t].answer = None
    /\ user # None
    /\ \/ call' = [call EXCEPT ![t].answer = "ok"] /\ UNCHANGED events
       \/ /\ events < MaxEvents /\ events' = events + 1
          /\ call' = [call EXCEPT ![t].answer = "error"]
    /\ UNCHANGED <<user, cache, found, account, guest, edited>>

\* Mutant: a failure is not asked for again.
WarmedOnce(t) ==
    /\ Answered(t, "users", {"ok", "error"})
    /\ cache' = IF call[t].answer = "ok"
                THEN [cache EXCEPT !.users = @ \cup {call[t].now.on}, !.warming = @ \ {call[t].now.on}]
                ELSE cache
    /\ Goes(t, <<>>, None)
    /\ UNCHANGED <<user, found, account, guest, edited, events>>

\* The users that came are kept, and the ids may be asked for again either way.
Warmed(t) ==
    /\ Answered(t, "users", {"ok", "error"})
    /\ cache' = [cache EXCEPT !.warming = @ \ {call[t].now.on},
                     !.users = IF call[t].answer = "ok" THEN @ \cup {call[t].now.on} ELSE @]
    /\ Goes(t, <<>>, None)
    /\ UNCHANGED <<user, found, account, guest, edited, events>>

-----------------------------------------------------------------------------
Sync(t) ==
    \/ SyncFriendList(t) \/ SyncBlockList(t) \/ SyncUserSetting(t) \/ SyncInvitations(t)
    \/ FetchInvitationGroup(t) \/ SetFriendRequests(t) \/ SyncFails(t)
Thread(t) ==
    \/ Skip(t) \/ Ask(t) \/ (\E served \in BOOLEAN : AskFails(t, served)) \/ Sync(t) \/ Hook(t)
    \/ Peek(t) \/ ReplaceBlocks(t) \/ BlockAnswered(t) \/ PatchFriend(t) \/ DeleteAnswered(t)
    \/ RequestAnswered(t) \/ Refused(t) \/ FriendUser(t) \/ FriendUserUnknown(t) \/ SendFriendRequest(t)
    \/ Warm(t) \/ WarmGivesUp(t) \/ FetchUsers(t) \/ Warmed(t)

Next ==
    \/ Detach \/ \E u \in Users : Attach(u) \/ \E x \in People : Change(u, x)
    \/ BackgroundSync \/ \E x \in People : Command(x) \/ Update(x)
    \/ CooledDown \/ \E t \in Threads : Thread(t)

Spec == Init /\ [][Next]_vars

\* The heartbeat goes on for the life of the process, every request has a 20 s
\* timeout, and the cooldown is a clock's.
FairSpec ==
    /\ Spec
    /\ WF_vars(BackgroundSync) /\ WF_vars(CooledDown)
    /\ \A t \in Threads : WF_vars(Thread(t))

-----------------------------------------------------------------------------
Calls == [plan : Seq(Steps), now : Steps \cup {None}, answer : {None, "ok", "unknown", "error"},
          body : [of : Users, lists : Account] \cup {None}, blocks : SUBSET People,
          hook : {None, "list", "request"}]

\* The type invariant of caches and calls; the unread count is the box's, as
\* both are replaced together (SetFriendRequests).
TypeOK ==
    /\ user \in Users \cup {None} /\ found \subseteq People
    /\ cache \in [friends : Friends, signature : Friends \cup {None}, cool : BOOLEAN,
                  blocks : SUBSET People, setting : [of : Users, code : BOOLEAN] \cup {None},
                  box : Box, unread : Nat, invitations : SUBSET People,
                  groups : SUBSET People, users : SUBSET People, warming : SUBSET People]
    /\ cache.unread = UnreadOf(cache.box)
    /\ call \in [Threads -> Calls]
    /\ account \in [Users -> Account]
    /\ told \in Friends /\ heard \subseteq (Users \cup {None}) \X People
    /\ masked \in BOOLEAN /\ edited \in BOOLEAN
    /\ events \in 0..MaxEvents

\* "anything that changed raises the friend-list hook": while only syncs touch
\* the list, and whatever order their answers come back in, the guest knows the
\* list or is about to be told (SyncFriendList).
ListTold ==
    ~edited =>
        told = cache.friends \/ \E t \in Threads : call[t].hook = "list"

\* "a failure that is never retried is a name that never appears": an id is
\* marked only while somebody fetches it, or until the next sign-in clears it.
WarmingOwned == \A x \in cache.warming :
    user = None \/ \E t \in Threads : call[t].now = Step("users", x)

\* The first request in a user's box does not stay unread and unannounced to that
\* user; unless unread requests of another user, asked for before a switch and
\* stored after it, were counted as this user's (SetFriendRequests compares counts).
Waiting(u, x) ==
    /\ user = u /\ account[u].box[x] = "unread"
    /\ \A y \in People \ {x} : account[u].box[y] = "none"
Heard == \A u \in Users, x \in People :
    []<>(Waiting(u, x) => <<u, x>> \in heard \/ masked)

\* Once the same user stays signed in, every cache becomes that user's list on
\* the server and stays so: optimistic entries, late answers, another user's
\* lists and lost updates are all put right by the beat.
InSync(u) ==
    /\ cache.friends = account[u].friends /\ cache.blocks = account[u].blocks
    /\ cache.box = account[u].box /\ cache.setting = [of |-> u, code |-> TRUE]
    /\ cache.invitations = account[u].mail /\ cache.invitations \subseteq cache.groups
Converges == \A u \in Users : <>[](user = u) => <>[]InSync(u)

=============================================================================
