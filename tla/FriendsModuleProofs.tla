------------------------- MODULE FriendsModuleProofs -------------------------
(***************************************************************************)
(* The friends module, for any users, people, block limit and number of    *)
(* commands, failures, changes and profile switches: its types, that the   *)
(* guest knows the friend list or is about to be told, and that an id is   *)
(* marked as being fetched only while somebody fetches it.                 *)
(***************************************************************************)
EXTENDS FriendsModule, FiniteSetTheorems, TLAPS

\* The types, one variable at a time.
Cache == [friends : Friends, signature : Friends \cup {None}, cool : BOOLEAN,
          blocks : SUBSET People, setting : [of : Users, code : BOOLEAN] \cup {None},
          box : Box, unread : Nat, invitations : SUBSET People,
          groups : SUBSET People, users : SUBSET People, warming : SUBSET People]

StateType ==
    /\ user \in Users \cup {None} /\ found \in SUBSET People
    /\ account \in [Users -> Account]
    /\ told \in Friends /\ heard \in SUBSET ((Users \cup {None}) \X People)
    /\ masked \in BOOLEAN /\ edited \in BOOLEAN
    /\ events \in Nat /\ events <= MaxEvents

CacheType == cache \in Cache /\ cache.unread = UnreadOf(cache.box)
CallType  == call \in [Threads -> Calls]

Body == [of : Users, lists : Account]

\* The requests that are about somebody.
Named == {"group", "users", "block", "unblock", "patch", "delete", "answer", "read", "add", "drop",
          "code_user", "send"}
Good  == {s \in Steps : s.do \in Named => s.on \in People}

\* A call knows whom its requests are about, an answer of the server has a body, and
\* a hook is run before the next request.
CallOK(c) ==
    /\ c.plan \in Seq(Good) /\ c.now \in Good \cup {None}
    /\ c.now # None /\ c.now.do \in Remote /\ c.answer \in {"ok", "unknown"} => c.body \in Body
    /\ c.now # None => c.hook = None

\* While only syncs touch the list it is the one last signed, and nobody signed out.
Signed ==
    ~edited => user # None /\ cache.friends = (IF cache.signature = None THEN NoFriends ELSE cache.signature)

Inductive ==
    /\ StateType /\ CacheType /\ CallType /\ \A t \in Threads : CallOK(call[t])
    /\ Signed /\ ListTold /\ WarmingOwned

-----------------------------------------------------------------------------
(* Operators of the model.                                                 *)

LEMMA EventsAssumption == MaxEvents \in Nat /\ BlockLimit \in Nat
  BY FriendsAssumption

\* Counting the unread requests of a box.
LEMMA UnreadCounts ==
  ASSUME NEW box
  PROVE  UnreadOf(box) \in Nat
<1>1. IsFiniteSet({x \in People : box[x] = "unread"})
  BY FriendsAssumption, FS_Subset
<1> QED BY <1>1, FS_CardinalityType DEF UnreadOf

\* A write leaves lists.
LEMMA WriteType ==
  ASSUME NEW a \in Account, NEW s \in Good
  PROVE  Write(a, s) \in Account
<1>1. a.friends \in Friends /\ a.box \in Box /\ a.blocks \in SUBSET People
  BY DEF Account
<1>2. \A mark \in {"no", "plain", "starred"} : [a.friends EXCEPT ![s.on] = mark] \in Friends
  BY <1>1 DEF Friends
<1>3. \A mark \in {"answered", "read"} : [a.box EXCEPT ![s.on] = mark] \in Box
  BY <1>1 DEF Box
<1>4. CASE s.do = "block"
  <2>1. s.on \in People
    BY <1>4 DEF Good, Named
  <2>2. Write(a, s) = [a EXCEPT !.blocks = @ \cup {s.on}, !.friends[s.on] = "no"]
    BY <1>4 DEF Write
  <2>3. [a EXCEPT !.blocks = @ \cup {s.on}, !.friends[s.on] = "no"] \in Account
    BY <1>1, <1>2, <2>1 DEF Account
  <2> QED BY <2>2, <2>3
<1>5. CASE s.do = "unblock"
  <2>1. Write(a, s) = [a EXCEPT !.blocks = @ \ {s.on}]
    BY <1>5 DEF Write
  <2>2. [a EXCEPT !.blocks = @ \ {s.on}] \in Account
    BY <1>1 DEF Account
  <2> QED BY <2>1, <2>2
<1>6. CASE s.do = "patch"
  <2>1. Write(a, s) = [a EXCEPT !.friends[s.on] = "starred"]
    BY <1>6 DEF Write
  <2>2. [a EXCEPT !.friends[s.on] = "starred"] \in Account
    BY <1>1, <1>2 DEF Account
  <2> QED BY <2>1, <2>2
<1>7. CASE s.do = "delete"
  <2>1. Write(a, s) = [a EXCEPT !.friends[s.on] = "no"]
    BY <1>7 DEF Write
  <2>2. [a EXCEPT !.friends[s.on] = "no"] \in Account
    BY <1>1, <1>2 DEF Account
  <2> QED BY <2>1, <2>2
<1>8. [a EXCEPT !.box[s.on] = "answered", !.friends[s.on] = "plain"] \in Account
  BY <1>1, <1>2, <1>3 DEF Account
<1>9. CASE s.do = "answer"
  <2>1. Write(a, s) = [a EXCEPT !.box[s.on] = "answered", !.friends[s.on] = "plain"]
    BY <1>9 DEF Write
  <2> QED BY <1>8, <2>1
<1>10. CASE s.do = "read"
  <2>1. Write(a, s) = [a EXCEPT !.box[s.on] = "read"]
    BY <1>10 DEF Write
  <2>2. [a EXCEPT !.box[s.on] = "read"] \in Account
    BY <1>1, <1>3 DEF Account
  <2> QED BY <2>1, <2>2
<1>11. CASE s.do = "send"
  <2>1. Write(a, s) \in {a, [a EXCEPT !.box[s.on] = "answered", !.friends[s.on] = "plain"]}
    BY <1>11 DEF Write
  <2> QED BY <1>8, <2>1
<1>12. CASE s.do = "code"
  <2> DEFINE yes == TRUE
  <2>1. Write(a, s) = [a EXCEPT !.code = yes]
    BY <1>12 DEF Write
  <2>2. yes \in BOOLEAN
    OBVIOUS
  <2> HIDE DEF yes
  <2>3. [a EXCEPT !.code = yes] \in Account
    BY <2>2 DEF Account
  <2> QED BY <2>1, <2>3
<1>13. CASE s.do \notin {"block", "unblock", "patch", "delete", "answer", "read", "send", "code"}
  BY <1>13 DEF Write
<1> QED BY <1>4, <1>5, <1>6, <1>7, <1>9, <1>10, <1>11, <1>12, <1>13

\* A step of a plan that names a person where its request needs one is a step.
LEMMA GoodSteps ==
  /\ Good \subseteq Steps
  /\ \A do \in Requests \ Named : Get(do) \in Good
  /\ \A do \in Requests, x \in People : Step(do, x) \in Good
<1>1. ASSUME NEW do \in Requests, NEW on \in People \cup {None}, do \in Named => on \in People
      PROVE  Step(do, on) \in Good
  <2>1. Step(do, on) = [do |-> do, on |-> on]
    BY DEF Step
  <2>2. [do |-> do, on |-> on] \in Steps
    BY DEF Steps
  <2> QED BY <1>1, <2>1, <2>2 DEF Good
<1> QED BY <1>1 DEF Get, Good

\* A thread's call changes, and no other.
Moves(t) == call' = [call EXCEPT ![t] = call'[t]]

\* A thread without a call satisfies what the invariant says of a call.
LEMMA NoCallOK == NoCall \in Calls /\ CallOK(NoCall) /\ NoCall.now = None /\ NoCall.hook = None /\ NoCall.plan = <<>>
<1>1. <<>> \in Seq(Good) /\ <<>> \in Seq(Steps)
  OBVIOUS
<1>2. NoCall.now = None /\ NoCall.hook = None /\ NoCall.plan = <<>>
  BY DEF NoCall
<1>3. NoCall \in Calls
  BY <1>1 DEF NoCall, Calls
<1>4. CallOK(NoCall)
  BY <1>1, <1>2 DEF CallOK
<1> QED BY <1>2, <1>3, <1>4

\* A call of which some fields are known.
LEMMA CallMade ==
  ASSUME NEW plan \in Seq(Good), NEW now \in Good \cup {None}, NEW answer \in {None, "ok", "unknown", "error"},
         NEW body \in Body \cup {None}, NEW blocks \in SUBSET People, NEW hook \in {None, "list", "request"},
         now # None /\ now.do \in Remote /\ answer \in {"ok", "unknown"} => body \in Body,
         now # None => hook = None,
         NEW c, c = [plan |-> plan, now |-> now, answer |-> answer, body |-> body, blocks |-> blocks, hook |-> hook]
  PROVE  c \in Calls /\ CallOK(c)
<1>1. plan \in Seq(Steps) /\ now \in Steps \cup {None}
  BY GoodSteps
<1>2. c \in Calls
  BY <1>1 DEF Calls, Body
<1>3. CallOK(c)
  BY DEF CallOK
<1> QED BY <1>2, <1>3

\* What is known of a call.
LEMMA CallParts ==
  ASSUME CallType, NEW t \in Threads, CallOK(call[t])
  PROVE  /\ call[t] = [plan |-> call[t].plan, now |-> call[t].now, answer |-> call[t].answer,
                       body |-> call[t].body, blocks |-> call[t].blocks, hook |-> call[t].hook]
         /\ call[t].plan \in Seq(Good) /\ call[t].now \in Good \cup {None}
         /\ call[t].answer \in {None, "ok", "unknown", "error"} /\ call[t].body \in Body \cup {None}
         /\ call[t].blocks \in SUBSET People /\ call[t].hook \in {None, "list", "request"}
         /\ call \in [Threads -> Calls] /\ call[t] \in Calls
         /\ call[t].plan # <<>> => Head(call[t].plan) \in Good /\ Tail(call[t].plan) \in Seq(Good)
<1>1. call[t] \in Calls
  BY DEF CallType
<1>2. call[t] = [plan |-> call[t].plan, now |-> call[t].now, answer |-> call[t].answer,
                       body |-> call[t].body, blocks |-> call[t].blocks, hook |-> call[t].hook]
  BY <1>1 DEF Calls
<1>3. /\ call[t].answer \in {None, "ok", "unknown", "error"} /\ call[t].body \in Body \cup {None}
      /\ call[t].blocks \in SUBSET People /\ call[t].hook \in {None, "list", "request"}
  BY <1>1 DEF Calls, Body
<1>4. call[t].plan \in Seq(Good) /\ call[t].now \in Good \cup {None}
  BY DEF CallOK
<1>5. call[t].plan # <<>> => Head(call[t].plan) \in Good /\ Tail(call[t].plan) \in Seq(Good)
  BY <1>4
<1> QED BY <1>1, <1>2, <1>3, <1>4, <1>5 DEF CallType

\* The thread goes on.
LEMMA GoesMoves ==
  ASSUME CallType, NEW t \in Threads, CallOK(call[t]), NEW plan \in Seq(Good),
         NEW hook \in {None, "list", "request"}, Goes(t, plan, hook)
  PROVE  Moves(t) /\ call'[t] \in Calls /\ CallOK(call'[t]) /\ call'[t].now = None /\ call'[t].hook = hook
<1> DEFINE rest == plan \o call[t].plan
<1>1. rest \in Seq(Good)
  <2>1. call[t].plan \in Seq(Good)
    BY CallParts
  <2> QED BY <2>1
<1>2. call' = [call EXCEPT ![t] = [NoCall EXCEPT !.plan = rest, !.hook = hook]]
  BY DEF Goes
<1> HIDE DEF rest
<1>3. call'[t] = [plan |-> rest, now |-> None, answer |-> None, body |-> None, blocks |-> {}, hook |-> hook]
  BY <1>2 DEF NoCall, CallType
<1>4. call'[t] \in Calls /\ CallOK(call'[t])
  BY <1>1, <1>3, CallMade
<1>5. Moves(t)
  BY <1>2, <1>3 DEF Moves, CallType
<1> QED BY <1>3, <1>4, <1>5


-----------------------------------------------------------------------------
(* What one thread's step has to show.                                     *)

\* The thread's step leaves a call, caches and a state of their types, and the
\* invariants about them.
Fine(t) ==
    /\ Moves(t) /\ call'[t] \in Calls /\ CallOK(call'[t])
    /\ StateType' /\ CacheType' /\ Signed' /\ ListTold' /\ WarmingOwned'

\* The parts of the caches that the invariants are about stay.
Still ==
    /\ user' = user /\ told' = told /\ edited' = edited
    /\ cache'.friends = cache.friends /\ cache'.signature = cache.signature
    /\ cache'.warming = cache.warming

\* A thread that has no hook to run and fetches no user may move as it likes.
LEMMA QuietStep ==
  ASSUME Inductive, NEW t \in Threads, Moves(t), Still, call[t].hook = None,
         \A x \in People : call[t].now # Step("users", x)
  PROVE  Signed' /\ ListTold' /\ WarmingOwned'
<1>1. \A u \in Threads \ {t} : call'[u] = call[u]
  BY DEF Moves, Inductive, CallType
<1>2. Signed'
  BY DEF Inductive, Signed, Still
<1>3. ListTold'
  <2> SUFFICES ASSUME ~edited', told' # cache'.friends
               PROVE  \E u \in Threads : call'[u].hook = "list"
    BY DEF ListTold
  <2>1. PICK u \in Threads : call[u].hook = "list"
    BY DEF Inductive, ListTold, Still
  <2>2. u # t
    BY <2>1, NoneAssumption
  <2> QED BY <1>1, <2>1, <2>2
<1>4. WarmingOwned'
  <2> SUFFICES ASSUME NEW x \in cache'.warming, user' # None
               PROVE  \E u \in Threads : call'[u].now = Step("users", x)
    BY DEF WarmingOwned
  <2>1. x \in cache.warming /\ user # None
    BY DEF Still
  <2>2. x \in People
    BY <2>1 DEF Inductive, CacheType, Cache
  <2>3. PICK u \in Threads : call[u].now = Step("users", x)
    BY <2>1 DEF Inductive, WarmingOwned
  <2>4. u # t
    BY <2>2, <2>3
  <2> QED BY <1>1, <2>3, <2>4
<1> QED BY <1>2, <1>3, <1>4

\* A thread whose answer is out has no hook to run, and its request is the one named.
LEMMA AnswerOut ==
  ASSUME Inductive, NEW t \in Threads, call[t].now # None
  PROVE  /\ call[t].hook = None /\ call[t].now \in Good /\ call[t].now.do \in Requests
         /\ call[t].now.do # "users" => \A x \in People : call[t].now # Step("users", x)
         /\ call[t].now.do \in Named => call[t].now.on \in People
         /\ call[t].now.do \in Remote /\ call[t].answer \in {"ok", "unknown"} =>
               /\ call[t].body \in Body /\ call[t].body.of \in Users /\ call[t].body.lists \in Account
               /\ call[t].body.lists.friends \in Friends /\ call[t].body.lists.box \in Box
               /\ call[t].body.lists.blocks \in SUBSET People /\ call[t].body.lists.mail \in SUBSET People
               /\ call[t].body.lists.code \in BOOLEAN
<1>1. CallOK(call[t])
  BY DEF Inductive
<1>2. call[t].hook = None /\ call[t].now \in Good
  BY <1>1 DEF CallOK
<1>3. call[t].now.do \in Requests
  BY <1>2 DEF Good, Steps
<1>4. call[t].now.do # "users" => \A x \in People : call[t].now # Step("users", x)
  BY DEF Step
<1>5. call[t].now.do \in Named => call[t].now.on \in People
  BY <1>2 DEF Good
<1>6. ASSUME call[t].now.do \in Remote, call[t].answer \in {"ok", "unknown"}
      PROVE  /\ call[t].body \in Body /\ call[t].body.of \in Users /\ call[t].body.lists \in Account
               /\ call[t].body.lists.friends \in Friends /\ call[t].body.lists.box \in Box
               /\ call[t].body.lists.blocks \in SUBSET People /\ call[t].body.lists.mail \in SUBSET People
               /\ call[t].body.lists.code \in BOOLEAN
  <2>1. call[t].body \in Body
    BY <1>1, <1>6 DEF CallOK
  <2>2. call[t].body.of \in Users /\ call[t].body.lists \in Account
    BY <2>1 DEF Body
  <2> QED BY <2>1, <2>2 DEF Account
<1> QED BY <1>2, <1>3, <1>4, <1>5, <1>6

\* An answer is applied: the call goes on, and the caches change outside what the
\* invariants are about.
LEMMA AppliedStep ==
  ASSUME Inductive, NEW t \in Threads, call[t].now # None, call[t].now.do # "users",
         NEW plan \in Seq(Good), NEW hook \in {None, "list", "request"}, Goes(t, plan, hook),
         Still, CacheType', found' \in SUBSET People, account' = account, heard' = heard,
         masked' \in BOOLEAN, events' = events
  PROVE  Fine(t)
<1>1. Moves(t) /\ call'[t] \in Calls /\ CallOK(call'[t])
  BY GoesMoves DEF Inductive
<1>2. Signed' /\ ListTold' /\ WarmingOwned'
  BY <1>1, AnswerOut, QuietStep
<1>3. StateType'
  BY DEF Inductive, StateType, Still
<1> QED BY <1>1, <1>2, <1>3 DEF Fine

\* A request is at the head of a call.
LEMMA AtHead ==
  ASSUME Inductive, NEW t \in Threads, NEW names, At(t, names)
  PROVE  /\ call[t].plan # <<>> /\ call[t].now = None /\ call[t].hook = None
         /\ Head(call[t].plan) \in Good /\ Head(call[t].plan).do \in names
         /\ Tail(call[t].plan) \in Seq(Good)
         /\ \A x \in People : call[t].now # Step("users", x)
<1>1. call[t].plan # <<>> /\ call[t].now = None /\ call[t].hook = None /\ Head(call[t].plan).do \in names
  BY DEF At
<1>2. Head(call[t].plan) \in Good /\ Tail(call[t].plan) \in Seq(Good)
  BY <1>1, CallParts DEF Inductive
<1>3. \A x \in People : None # Step("users", x)
  <2>1. \A x \in People : Step("users", x) \in Good
    BY GoodSteps DEF Requests
  <2> QED BY <2>1, NoneAssumption, GoodSteps
<1> QED BY <1>1, <1>2, <1>3

-----------------------------------------------------------------------------
(* Answers that are applied.                                               *)

\* The caches after a list was replaced.
LEMMA CacheKept ==
  ASSUME CacheType
  PROVE  /\ \A b \in SUBSET People : LET c == [cache EXCEPT !.blocks = b] IN
               c \in Cache /\ c.unread = UnreadOf(c.box) /\ c.friends = cache.friends
               /\ c.signature = cache.signature /\ c.warming = cache.warming
         /\ \A m \in SUBSET People : LET c == [cache EXCEPT !.invitations = m] IN
               c \in Cache /\ c.unread = UnreadOf(c.box) /\ c.friends = cache.friends
               /\ c.signature = cache.signature /\ c.warming = cache.warming
         /\ \A g \in SUBSET People : LET c == [cache EXCEPT !.groups = g] IN
               c \in Cache /\ c.unread = UnreadOf(c.box) /\ c.friends = cache.friends
               /\ c.signature = cache.signature /\ c.warming = cache.warming
         /\ \A s \in [of : Users, code : BOOLEAN] : LET c == [cache EXCEPT !.setting = s] IN
               c \in Cache /\ c.unread = UnreadOf(c.box) /\ c.friends = cache.friends
               /\ c.signature = cache.signature /\ c.warming = cache.warming
         /\ \A b \in Box : LET c == [cache EXCEPT !.box = b, !.unread = UnreadOf(b)] IN
               c \in Cache /\ c.unread = UnreadOf(c.box) /\ c.friends = cache.friends
               /\ c.signature = cache.signature /\ c.warming = cache.warming
<1>1. cache \in Cache /\ cache.unread = UnreadOf(cache.box)
  BY DEF CacheType
<1>2. \A b \in Box : UnreadOf(b) \in Nat
  BY UnreadCounts
<1>3. ASSUME NEW b \in SUBSET People
      PROVE  LET c == [cache EXCEPT !.blocks = b] IN
               c \in Cache /\ c.unread = UnreadOf(c.box) /\ c.friends = cache.friends
               /\ c.signature = cache.signature /\ c.warming = cache.warming
  BY <1>1 DEF Cache
<1>4. ASSUME NEW m \in SUBSET People
      PROVE  LET c == [cache EXCEPT !.invitations = m] IN
               c \in Cache /\ c.unread = UnreadOf(c.box) /\ c.friends = cache.friends
               /\ c.signature = cache.signature /\ c.warming = cache.warming
  BY <1>1 DEF Cache
<1>5. ASSUME NEW g \in SUBSET People
      PROVE  LET c == [cache EXCEPT !.groups = g] IN
               c \in Cache /\ c.unread = UnreadOf(c.box) /\ c.friends = cache.friends
               /\ c.signature = cache.signature /\ c.warming = cache.warming
  BY <1>1 DEF Cache
<1>6. ASSUME NEW s \in [of : Users, code : BOOLEAN]
      PROVE  LET c == [cache EXCEPT !.setting = s] IN
               c \in Cache /\ c.unread = UnreadOf(c.box) /\ c.friends = cache.friends
               /\ c.signature = cache.signature /\ c.warming = cache.warming
  BY <1>1 DEF Cache
<1>7. ASSUME NEW b \in Box
      PROVE  LET c == [cache EXCEPT !.box = b, !.unread = UnreadOf(b)] IN
               c \in Cache /\ c.unread = UnreadOf(c.box) /\ c.friends = cache.friends
               /\ c.signature = cache.signature /\ c.warming = cache.warming
  BY <1>1, <1>2 DEF Cache
<1> QED BY <1>3, <1>4, <1>5, <1>6, <1>7

\* The plans that answers lead to.
LEMMA PlansGood ==
  /\ <<>> \in Seq(Good) /\ <<Get("blocks")>> \in Seq(Good) /\ <<Get("force")>> \in Seq(Good)
  /\ <<Get("code")>> \in Seq(Good) /\ <<Get("requests")>> \in Seq(Good) /\ AfterWrite \in Seq(Good)
<1>1. /\ Get("blocks") \in Good /\ Get("force") \in Good /\ Get("code") \in Good /\ Get("requests") \in Good
      /\ Get("friends") \in Good /\ Get("setting") \in Good /\ Get("invitations") \in Good
  BY GoodSteps DEF Requests, Named
<1> QED BY <1>1 DEF AfterWrite

\* SyncBlockList leaves the call, the caches and the marks fine.
LEMMA SyncBlockListFine ==
  ASSUME Inductive, NEW t \in Threads, SyncBlockList(t)
  PROVE  Fine(t)
<1>1. /\ call[t].now # None /\ call[t].now.do = "blocks" /\ call[t].answer = "ok"
      /\ cache' = [cache EXCEPT !.blocks = call[t].body.lists.blocks] /\ Goes(t, <<>>, None)
      /\ user' = user /\ found' = found /\ account' = account /\ told' = told /\ heard' = heard
      /\ masked' = masked /\ edited' = edited /\ events' = events
  BY DEF SyncBlockList, Answered, guest
<1>2. call[t].body.lists.blocks \in SUBSET People
  BY <1>1, AnswerOut DEF Remote, Requests
<1>3. CacheType' /\ Still
  BY <1>1, <1>2, CacheKept DEF Inductive, CacheType, Still
<1> QED BY <1>1, <1>3, AppliedStep, PlansGood DEF Inductive, StateType

\* SyncUserSetting leaves the call, the caches and the marks fine.
LEMMA SyncUserSettingFine ==
  ASSUME Inductive, NEW t \in Threads, SyncUserSetting(t)
  PROVE  Fine(t)
<1> DEFINE code == call[t].body.lists.code
           setting == [of |-> call[t].body.of, code |-> code]
           plan == IF code THEN <<>> ELSE <<Get("code")>>
<1>1. /\ call[t].now # None /\ call[t].now.do \in {"setting", "code"} /\ call[t].answer = "ok"
      /\ cache' = [cache EXCEPT !.setting = setting] /\ Goes(t, plan, None)
      /\ user' = user /\ found' = found /\ account' = account /\ told' = told /\ heard' = heard
      /\ masked' = masked /\ edited' = edited /\ events' = events
  BY DEF SyncUserSetting, Answered, guest
<1>2. call[t].body.of \in Users /\ code \in BOOLEAN
  BY <1>1, AnswerOut DEF Remote, Requests
<1>3. plan \in Seq(Good)
  BY PlansGood
<1>4. setting \in [of : Users, code : BOOLEAN]
  <2> HIDE DEF code
  <2> QED BY <1>2
<1> HIDE DEF setting, plan
<1>5. CacheType' /\ Still
  BY <1>1, <1>4, CacheKept DEF Inductive, CacheType, Still
<1> QED BY <1>1, <1>3, <1>5, AppliedStep DEF Inductive, StateType

\* SyncInvitations leaves the call, the caches and the marks fine.
LEMMA SyncInvitationsFine ==
  ASSUME Inductive, NEW t \in Threads, SyncInvitations(t)
  PROVE  Fine(t)
<1> DEFINE mail == call[t].body.lists.mail
<1>1. /\ call[t].now # None /\ call[t].now.do = "invitations" /\ call[t].answer = "ok"
      /\ cache' = [cache EXCEPT !.invitations = mail]
      /\ user' = user /\ found' = found /\ account' = account /\ told' = told /\ heard' = heard
      /\ masked' = masked /\ edited' = edited /\ events' = events
  BY DEF SyncInvitations, Answered, guest
<1>2. PICK order \in [1..Cardinality(mail) -> mail] :
          Goes(t, [i \in DOMAIN order |-> Step("group", order[i])], None)
  BY DEF SyncInvitations
<1> DEFINE plan == [i \in DOMAIN order |-> Step("group", order[i])]
<1>3. mail \in SUBSET People
  BY <1>1, AnswerOut DEF Remote, Requests
<1> HIDE DEF mail
<1>4. Cardinality(mail) \in Nat
  BY <1>3, FriendsAssumption, FS_Subset, FS_CardinalityType
<1>5. plan \in Seq(Good)
  <2>1. \A i \in 1..Cardinality(mail) : Step("group", order[i]) \in Good
    BY <1>3, GoodSteps DEF Requests
  <2>2. DOMAIN order = 1..Cardinality(mail)
    OBVIOUS
  <2>3. plan \in [1..Cardinality(mail) -> Good]
    BY <2>1, <2>2
  <2> QED BY <1>4, <2>3
<1>6. Goes(t, plan, None)
  BY <1>2
<1> HIDE DEF plan
<1>7. CacheType' /\ Still
  BY <1>1, <1>3, CacheKept DEF Inductive, CacheType, Still
<1> QED BY <1>1, <1>5, <1>6, <1>7, AppliedStep DEF Inductive, StateType

\* FetchInvitationGroup leaves the call, the caches and the marks fine.
LEMMA FetchInvitationGroupFine ==
  ASSUME Inductive, NEW t \in Threads, FetchInvitationGroup(t)
  PROVE  Fine(t)
<1> DEFINE groups == cache.groups \cup {call[t].now.on}
<1>1. /\ call[t].now # None /\ call[t].now.do = "group" /\ call[t].answer = "ok"
      /\ cache' = [cache EXCEPT !.groups = groups] /\ Goes(t, <<>>, None)
      /\ user' = user /\ found' = found /\ account' = account /\ told' = told /\ heard' = heard
      /\ masked' = masked /\ edited' = edited /\ events' = events
  BY DEF FetchInvitationGroup, Answered, guest
<1>2. groups \in SUBSET People
  <2>1. call[t].now.on \in People
    BY <1>1, AnswerOut DEF Named
  <2>2. cache.groups \in SUBSET People
    BY DEF Inductive, CacheType, Cache
  <2> QED BY <2>1, <2>2
<1> HIDE DEF groups
<1>3. CacheType' /\ Still
  BY <1>1, <1>2, CacheKept DEF Inductive, CacheType, Still
<1> QED BY <1>1, <1>3, AppliedStep, PlansGood DEF Inductive, StateType

\* SetFriendRequests leaves the call, the caches and the marks fine.
LEMMA SetFriendRequestsFine ==
  ASSUME Inductive, NEW t \in Threads, SetFriendRequests(t)
  PROVE  Fine(t)
<1> DEFINE box == call[t].body.lists.box
           hook == IF UnreadOf(box) > cache.unread THEN "request" ELSE None
<1>1. /\ call[t].now # None /\ call[t].now.do = "requests" /\ call[t].answer = "ok"
      /\ cache' = [cache EXCEPT !.box = box, !.unread = UnreadOf(box)] /\ Goes(t, <<>>, hook)
      /\ user' = user /\ found' = found /\ account' = account /\ told' = told /\ heard' = heard
      /\ Counted(call[t].body.of, box) /\ edited' = edited /\ events' = events
  BY DEF SetFriendRequests, Answered
<1>2. box \in Box
  BY <1>1, AnswerOut DEF Remote, Requests
<1>3. hook \in {None, "list", "request"}
  OBVIOUS
<1> HIDE DEF box, hook
<1>4. CacheType' /\ Still
  BY <1>1, <1>2, CacheKept DEF Inductive, CacheType, Still
<1>5. masked' \in BOOLEAN
  BY <1>1, Zenon DEF Counted
<1> QED BY <1>1, <1>3, <1>4, <1>5, AppliedStep, PlansGood DEF Inductive, StateType

\* An answer that leaves the caches as they are.
LEMMA UnappliedStep ==
  ASSUME Inductive, NEW t \in Threads, call[t].now # None, call[t].now.do # "users",
         NEW plan \in Seq(Good), NEW hook \in {None, "list", "request"}, Goes(t, plan, hook),
         UNCHANGED <<user, cache, account, guest, edited, events>>, found' \in SUBSET People
  PROVE  Fine(t)
<1>1. CacheType' /\ Still
  BY DEF Inductive, CacheType, Still, guest
<1> QED BY <1>1, AppliedStep DEF Inductive, StateType, guest

\* A sync step that fails leaves the call, the caches and the marks fine.
LEMMA SyncFailsFine ==
  ASSUME Inductive, NEW t \in Threads, SyncFails(t)
  PROVE  Fine(t)
<1>1. /\ call[t].now # None /\ call[t].now.do # "users" /\ Goes(t, <<>>, None)
      /\ UNCHANGED <<user, cache, found, account, guest, edited, events>>
  BY DEF SyncFails, Answered
<1> QED BY <1>1, UnappliedStep, PlansGood DEF Inductive, StateType

\* BlockAnswered leaves the call, the caches and the marks fine.
LEMMA BlockAnsweredFine ==
  ASSUME Inductive, NEW t \in Threads, BlockAnswered(t)
  PROVE  Fine(t)
<1> DEFINE plan == IF call[t].answer = "ok" THEN AfterWrite
               ELSE IF call[t].now.do = "unblock" /\ call[t].answer = "unknown" THEN <<>>
               ELSE <<Get("blocks")>>
<1>1. /\ call[t].now # None /\ call[t].now.do # "users" /\ Goes(t, plan, None)
      /\ UNCHANGED <<user, cache, found, account, guest, edited, events>>
  BY DEF BlockAnswered, Answered
<1>2. plan \in Seq(Good)
  BY PlansGood
<1> HIDE DEF plan
<1> QED BY <1>1, <1>2, UnappliedStep DEF Inductive, StateType

\* RequestAnswered leaves the call, the caches and the marks fine.
LEMMA RequestAnsweredFine ==
  ASSUME Inductive, NEW t \in Threads, RequestAnswered(t)
  PROVE  Fine(t)
<1>1. /\ call[t].now # None /\ call[t].now.do # "users" /\ Goes(t, <<Get("requests")>>, None)
      /\ UNCHANGED <<user, cache, found, account, guest, edited, events>>
  BY DEF RequestAnswered, Answered
<1> QED BY <1>1, UnappliedStep, PlansGood DEF Inductive, StateType

\* A request the service refuses is fine.
LEMMA RefusedFine ==
  ASSUME Inductive, NEW t \in Threads, Refused(t)
  PROVE  Fine(t)
<1>1. /\ call[t].now # None /\ call[t].now.do # "users" /\ Goes(t, <<>>, None)
      /\ UNCHANGED <<user, cache, found, account, guest, edited, events>>
  BY DEF Refused, Answered
<1> QED BY <1>1, UnappliedStep, PlansGood DEF Inductive, StateType

\* FriendUser leaves the call, the caches and the marks fine.
LEMMA FriendUserFine ==
  ASSUME Inductive, NEW t \in Threads, FriendUser(t)
  PROVE  Fine(t)
<1>1. /\ call[t].now # None /\ call[t].now.do = "code_user" /\ Goes(t, <<>>, None)
      /\ found' = found \cup {call[t].now.on}
      /\ UNCHANGED <<user, cache, account, guest, edited, events>>
  BY DEF FriendUser, Answered
<1>2. call[t].now.on \in People
  BY <1>1, AnswerOut DEF Named
<1>3. found' \in SUBSET People
  BY <1>1, <1>2 DEF Inductive, StateType
<1> QED BY <1>1, <1>3, UnappliedStep, PlansGood

\* SendFriendRequest leaves the call, the caches and the marks fine.
LEMMA SendFriendRequestFine ==
  ASSUME Inductive, NEW t \in Threads, SendFriendRequest(t)
  PROVE  Fine(t)
<1> DEFINE plan == IF call[t].body.lists.friends[call[t].now.on] = "plain"
                   THEN <<Get("requests")>> ELSE <<>>
<1>1. /\ call[t].now # None /\ call[t].now.do # "users" /\ Goes(t, plan, None)
      /\ UNCHANGED <<user, cache, found, account, guest, edited, events>>
  BY DEF SendFriendRequest, Answered
<1>2. plan \in Seq(Good)
  BY PlansGood
<1> HIDE DEF plan
<1> QED BY <1>1, <1>2, UnappliedStep DEF Inductive, StateType

\* ReplaceBlocks leaves the call, the caches and the marks fine.
LEMMA ReplaceBlocksFine ==
  ASSUME Inductive, NEW t \in Threads, ReplaceBlocks(t)
  PROVE  Fine(t)
<1>1. /\ call[t].now # None /\ call[t].now.do \in {"add", "drop"} /\ Goes(t, <<>>, None)
      /\ user' = user /\ found' = found /\ account' = account /\ told' = told /\ heard' = heard
      /\ masked' = masked /\ edited' = edited /\ events' = events
      /\ \/ cache' = cache
         \/ cache' = [cache EXCEPT !.blocks = call[t].blocks \cup {call[t].now.on}]
         \/ cache' = [cache EXCEPT !.blocks = call[t].blocks \ {call[t].now.on}]
  BY DEF ReplaceBlocks, guest
<1>2. call[t].blocks \in SUBSET People /\ call[t].now.on \in People
  <2>1. call[t].now.on \in People
    BY <1>1, AnswerOut DEF Named
  <2> QED BY <2>1, CallParts DEF Inductive
<1>3. CacheType' /\ Still
  <2>1. CASE cache' = cache
    BY <1>1, <2>1 DEF Inductive, CacheType, Still
  <2>2. CASE cache' = [cache EXCEPT !.blocks = call[t].blocks \cup {call[t].now.on}]
    <3> DEFINE blocks == call[t].blocks \cup {call[t].now.on}
    <3>1. blocks \in SUBSET People /\ cache' = [cache EXCEPT !.blocks = blocks] /\ CacheType
      BY <1>2, <2>2 DEF Inductive
    <3> HIDE DEF blocks
    <3>2. /\ cache' \in Cache /\ cache'.unread = UnreadOf(cache'.box) /\ cache'.friends = cache.friends
          /\ cache'.signature = cache.signature /\ cache'.warming = cache.warming
      BY <3>1, CacheKept
    <3> QED BY <1>1, <3>2 DEF CacheType, Still
  <2>3. CASE cache' = [cache EXCEPT !.blocks = call[t].blocks \ {call[t].now.on}]
    <3> DEFINE blocks == call[t].blocks \ {call[t].now.on}
    <3>1. blocks \in SUBSET People /\ cache' = [cache EXCEPT !.blocks = blocks] /\ CacheType
      BY <1>2, <2>3 DEF Inductive
    <3> HIDE DEF blocks
    <3>2. /\ cache' \in Cache /\ cache'.unread = UnreadOf(cache'.box) /\ cache'.friends = cache.friends
          /\ cache'.signature = cache.signature /\ cache'.warming = cache.warming
      BY <3>1, CacheKept
    <3> QED BY <1>1, <3>2 DEF CacheType, Still
  <2> QED BY <1>1, <2>1, <2>2, <2>3
<1> QED BY <1>1, <1>3, AppliedStep, PlansGood DEF Inductive, StateType

\* The friend list is edited by an answer: from then on nothing is claimed of it.
LEMMA EditedStep ==
  ASSUME Inductive, NEW t \in Threads, call[t].now # None, call[t].now.do # "users",
         NEW friends \in Friends, cache' = [cache EXCEPT !.friends = friends], edited' = TRUE,
         Goes(t, <<>>, "list"), UNCHANGED <<user, found, account, guest, events>>
  PROVE  Fine(t)
<1>1. Moves(t) /\ call'[t] \in Calls /\ CallOK(call'[t])
  BY GoesMoves, PlansGood DEF Inductive
<1>2. CacheType' /\ cache'.warming = cache.warming
  BY DEF Inductive, CacheType, Cache
<1>3. StateType'
  BY DEF Inductive, StateType, guest
<1>4. Signed' /\ ListTold'
  BY DEF Signed, ListTold
<1>5. WarmingOwned'
  <2> SUFFICES ASSUME NEW x \in cache'.warming, user' # None
               PROVE  \E u \in Threads : call'[u].now = Step("users", x)
    BY DEF WarmingOwned
  <2>1. x \in cache.warming /\ user # None /\ x \in People
    BY <1>2 DEF Inductive, CacheType, Cache
  <2>2. PICK u \in Threads : call[u].now = Step("users", x)
    BY <2>1 DEF Inductive, WarmingOwned
  <2>3. u # t
    BY <2>1, <2>2, AnswerOut
  <2> QED BY <1>1, <2>2, <2>3 DEF Moves, Inductive, CallType
<1> QED BY <1>1, <1>2, <1>3, <1>4, <1>5 DEF Fine

\* PatchFriend leaves the call, the caches and the marks fine.
LEMMA PatchFriendFine ==
  ASSUME Inductive, NEW t \in Threads, PatchFriend(t)
  PROVE  Fine(t)
<1> DEFINE x == call[t].now.on
           friends == Replaced(cache.friends, x, call[t].body.lists.friends[x])
<1>1. /\ call[t].now # None /\ call[t].now.do = "patch" /\ call[t].answer = "ok"
      /\ cache' = [cache EXCEPT !.friends = friends] /\ edited' = TRUE /\ Goes(t, <<>>, "list")
      /\ UNCHANGED <<user, found, account, guest, events>>
  BY DEF PatchFriend, Answered
<1>2. x \in People /\ call[t].body.lists.friends \in Friends
  BY <1>1, AnswerOut DEF Remote, Requests, Named
<1>3. cache.friends \in Friends
  BY DEF Inductive, CacheType, Cache
<1>4. friends \in Friends
  BY <1>2, <1>3 DEF Replaced, Friends
<1> HIDE DEF friends
<1> QED BY <1>1, <1>4, EditedStep

\* DeleteAnswered leaves the call, the caches and the marks fine.
LEMMA DeleteAnsweredFine ==
  ASSUME Inductive, NEW t \in Threads, DeleteAnswered(t)
  PROVE  Fine(t)
<1>1. /\ call[t].now # None /\ call[t].now.do = "delete"
      /\ UNCHANGED <<user, found, account, guest, events>>
  BY DEF DeleteAnswered, Answered
<1>2. CASE call[t].answer = "unknown"
  <2> DEFINE friends == Removed(cache.friends, call[t].now.on)
  <2>1. cache' = [cache EXCEPT !.friends = friends] /\ edited' = TRUE /\ Goes(t, <<>>, "list")
    BY <1>2 DEF DeleteAnswered
  <2>2. cache.friends \in Friends
    BY DEF Inductive, CacheType, Cache
  <2>3. friends \in Friends
    BY <2>2 DEF Removed, Friends
  <2> HIDE DEF friends
  <2> QED BY <1>1, <2>1, <2>3, EditedStep
<1>3. CASE call[t].answer # "unknown"
  <2> DEFINE plan == IF call[t].answer = "ok" THEN <<Get("force")>> ELSE <<>>
  <2>1. Goes(t, plan, None) /\ cache' = cache /\ edited' = edited
    BY <1>3 DEF DeleteAnswered
  <2>2. plan \in Seq(Good)
    BY PlansGood
  <2> HIDE DEF plan
  <2> QED BY <1>1, <2>1, <2>2, UnappliedStep DEF Inductive, StateType
<1> QED BY <1>2, <1>3

\* The list that came is the list the guest was told of, or the hook is due.
LEMMA SyncFriendListFine ==
  ASSUME Inductive, NEW t \in Threads, SyncFriendList(t)
  PROVE  Fine(t)
<1> DEFINE list == call[t].body.lists.friends
           hook == IF cache.signature # list THEN "list" ELSE None
           yes == TRUE
<1>1. /\ call[t].now # None /\ call[t].now.do \in {"friends", "force"} /\ call[t].answer = "ok"
      /\ cache' = [cache EXCEPT !.friends = list, !.signature = list, !.cool = yes] /\ Goes(t, <<>>, hook)
      /\ UNCHANGED <<user, found, account, guest, edited, events>>
  BY DEF SyncFriendList, Answered
<1>2. list \in Friends
  BY <1>1, AnswerOut DEF Remote, Requests
<1>3. hook \in {None, "list", "request"} /\ (cache.signature # list => hook = "list") /\ yes \in BOOLEAN
  OBVIOUS
<1> HIDE DEF list, hook, yes
<1>4. Moves(t) /\ call'[t] \in Calls /\ CallOK(call'[t]) /\ call'[t].hook = hook
  BY <1>1, <1>3, GoesMoves, PlansGood DEF Inductive
<1>5. /\ CacheType' /\ cache'.warming = cache.warming /\ cache'.friends = list /\ cache'.signature = list
  BY <1>1, <1>2, <1>3 DEF Inductive, CacheType, Cache
<1>6. StateType'
  BY <1>1 DEF Inductive, StateType, guest
<1>7. list # None
  BY <1>2, NoneAssumption
<1>8. Signed'
  BY <1>1, <1>5, <1>7 DEF Inductive, Signed
<1>9. CASE cache.signature = list /\ ~edited
  <2>1. cache.friends = list
    BY <1>7, <1>9 DEF Inductive, Signed
  <2>2. Still
    BY <1>1, <1>5, <1>9, <2>1 DEF Still, guest
  <2>3. call[t].hook = None /\ \A x \in People : call[t].now # Step("users", x)
    BY <1>1, AnswerOut
  <2> QED BY <1>4, <1>5, <1>6, <2>2, <2>3, QuietStep DEF Fine
<1>10. CASE cache.signature # list \/ edited
  <2>1. ListTold'
    BY <1>1, <1>3, <1>4, <1>10 DEF ListTold
  <2>2. WarmingOwned'
    <3> SUFFICES ASSUME NEW x \in cache'.warming, user' # None
                 PROVE  \E u \in Threads : call'[u].now = Step("users", x)
      BY DEF WarmingOwned
    <3>1. x \in cache.warming /\ user # None /\ x \in People
      BY <1>1, <1>5 DEF Inductive, CacheType, Cache
    <3>2. PICK u \in Threads : call[u].now = Step("users", x)
      BY <3>1 DEF Inductive, WarmingOwned
    <3>3. u # t
      BY <1>1, <3>1, <3>2, AnswerOut
    <3> QED BY <1>4, <3>2, <3>3 DEF Moves, Inductive, CallType
  <2> QED BY <1>4, <1>5, <1>6, <1>8, <2>1, <2>2 DEF Fine
<1> QED BY <1>9, <1>10 DEF Inductive, StateType

-----------------------------------------------------------------------------
(* Requests, hooks and the users that are fetched.                         *)

LEMMA SkipFine ==
  ASSUME Inductive, NEW t \in Threads, Skip(t)
  PROVE  Fine(t)
<1> DEFINE first == IF Head(call[t].plan).do \in {"block", "unblock"} THEN <<Get("blocks")>> ELSE <<>>
           plan == first \o Tail(call[t].plan)
<1>1. /\ At(t, Remote) /\ call' = [call EXCEPT ![t].plan = plan]
      /\ UNCHANGED <<user, cache, found, account, guest, edited, events>>
  BY DEF Skip
<1>2. /\ call[t].now = None /\ call[t].hook = None /\ Tail(call[t].plan) \in Seq(Good)
      /\ \A x \in People : call[t].now # Step("users", x)
  BY <1>1, AtHead
<1>3. plan \in Seq(Good)
  <2>1. first \in Seq(Good)
    BY PlansGood
  <2> HIDE DEF first
  <2> QED BY <1>2, <2>1
<1> HIDE DEF plan
<1>4. /\ call \in [Threads -> Calls] /\ call[t] \in Calls
      /\ call[t] = [plan |-> call[t].plan, now |-> call[t].now, answer |-> call[t].answer,
                    body |-> call[t].body, blocks |-> call[t].blocks, hook |-> call[t].hook]
      /\ call[t].now \in Good \cup {None}
      /\ call[t].answer \in {None, "ok", "unknown", "error"} /\ call[t].body \in Body \cup {None}
      /\ call[t].blocks \in SUBSET People /\ call[t].hook \in {None, "list", "request"}
  BY CallParts DEF Inductive
<1>5. call'[t] = [plan |-> plan, now |-> call[t].now, answer |-> call[t].answer,
                  body |-> call[t].body, blocks |-> call[t].blocks, hook |-> call[t].hook]
  BY <1>1, <1>4
<1>6. call'[t] \in Calls /\ CallOK(call'[t])
  <2>1. plan \in Seq(Steps) /\ call[t].now \in Steps \cup {None}
    BY <1>3, <1>4, GoodSteps
  <2>2. call'[t] \in Calls
    BY <1>4, <1>5, <2>1 DEF Calls, Body
  <2>3. CallOK(call'[t])
    BY <1>2, <1>3, <1>5 DEF CallOK
  <2> QED BY <2>2, <2>3
<1>7. Moves(t)
  BY <1>1, <1>4, <1>5 DEF Moves
<1>8. StateType' /\ CacheType' /\ Still
  BY <1>1 DEF Inductive, StateType, CacheType, Still, guest
<1> QED BY <1>2, <1>6, <1>7, <1>8, QuietStep DEF Fine

\* A request is sent, and its answer or its failure is the call's.
LEMMA SentStep ==
  ASSUME Inductive, NEW t \in Threads, At(t, Remote), NEW answer \in {"ok", "unknown", "error"},
         NEW body \in Body \cup {None}, answer \in {"ok", "unknown"} => body \in Body,
         call' = [call EXCEPT ![t] = [@ EXCEPT !.plan = Tail(call[t].plan), !.now = Head(call[t].plan),
                      !.answer = answer, !.body = body]],
         UNCHANGED <<user, cache, found, guest, edited>>, account' \in [Users -> Account],
         events' \in Nat, events' <= MaxEvents
  PROVE  Fine(t)
<1>1. /\ call[t].now = None /\ call[t].hook = None /\ Tail(call[t].plan) \in Seq(Good)
      /\ Head(call[t].plan) \in Good
      /\ \A x \in People : call[t].now # Step("users", x)
  BY AtHead
<1>2. /\ call \in [Threads -> Calls] /\ call[t] \in Calls
      /\ call[t] = [plan |-> call[t].plan, now |-> call[t].now, answer |-> call[t].answer,
                    body |-> call[t].body, blocks |-> call[t].blocks, hook |-> call[t].hook]
      /\ call[t].blocks \in SUBSET People /\ call[t].hook \in {None, "list", "request"}
  BY CallParts DEF Inductive
<1> DEFINE tail == Tail(call[t].plan)
           head == Head(call[t].plan)
           c == call[t]
<1>3. call' = [call EXCEPT ![t] = [c EXCEPT !.plan = tail, !.now = head, !.answer = answer, !.body = body]]
  OBVIOUS
<1>4. /\ tail \in Seq(Good) /\ head \in Good
      /\ c = [plan |-> c.plan, now |-> c.now, answer |-> c.answer,
              body |-> c.body, blocks |-> c.blocks, hook |-> c.hook]
      /\ c.blocks \in SUBSET People /\ c.hook = None /\ call \in [Threads -> Calls]
  BY <1>1, <1>2
<1> HIDE DEF tail, head, c
<1>5. call'[t] = [plan |-> tail, now |-> head, answer |-> answer,
                  body |-> body, blocks |-> c.blocks, hook |-> c.hook]
  BY <1>3, <1>4
<1>6. call'[t] \in Calls /\ CallOK(call'[t])
  <2>1. /\ answer \in {None, "ok", "unknown", "error"} /\ head \in Good \cup {None}
        /\ c.hook \in {None, "list", "request"} /\ (head # None => c.hook = None)
        /\ head # None /\ head.do \in Remote /\ answer \in {"ok", "unknown"} => body \in Body
    BY <1>4
  <2>2. tail \in Seq(Steps) /\ head \in Steps \cup {None}
    BY <1>4, GoodSteps
  <2>3. call'[t] \in Calls
    BY <1>4, <1>5, <2>1, <2>2 DEF Calls, Body
  <2>4. CallOK(call'[t])
    BY <1>4, <1>5, <2>1 DEF CallOK
  <2> QED BY <2>3, <2>4
<1>7. Moves(t)
  BY <1>3, <1>4, <1>5 DEF Moves
<1>8. StateType' /\ CacheType' /\ Still
  BY DEF Inductive, StateType, CacheType, Still, guest
<1> QED BY <1>1, <1>6, <1>7, <1>8, QuietStep DEF Fine

\* Taking the next request of the plan is fine.
LEMMA AskFine ==
  ASSUME Inductive, NEW t \in Threads, Ask(t)
  PROVE  Fine(t)
<1> DEFINE s == Head(call[t].plan)
           known == ~Unknown(account[user], s)
           after == IF known THEN Write(account[user], s) ELSE account[user]
           body == [of |-> user, lists |-> after]
<1>1. /\ At(t, Remote) /\ user # None
      /\ account' = [account EXCEPT ![user] = after]
      /\ call' = [call EXCEPT ![t] = [@ EXCEPT !.plan = Tail(call[t].plan), !.now = s,
                           !.answer = BaasError(known), !.body = body]]
      /\ UNCHANGED <<user, cache, found, guest, edited, events>>
  BY DEF Ask, NotNeeded
<1>2. user \in Users /\ account \in [Users -> Account] /\ account[user] \in Account
  BY <1>1 DEF Inductive, StateType
<1>3. s \in Good
  BY <1>1, AtHead
<1>4. after \in Account
  BY <1>2, <1>3, WriteType
<1>5. BaasError(known) \in {"ok", "unknown", "error"}
  BY DEF BaasError
<1> HIDE DEF after
<1>6. body \in Body
  BY <1>2, <1>4 DEF Body
<1>7. account' \in [Users -> Account]
  BY <1>1, <1>2, <1>4
<1>8. events' \in Nat /\ events' <= MaxEvents
  BY <1>1 DEF Inductive, StateType
<1> DEFINE answer == BaasError(known)
<1>9. /\ answer \in {"ok", "unknown", "error"}
      /\ call' = [call EXCEPT ![t] = [@ EXCEPT !.plan = Tail(call[t].plan), !.now = Head(call[t].plan),
                           !.answer = answer, !.body = body]]
  BY <1>1, <1>5
<1> HIDE DEF answer, body
<1> QED BY <1>1, <1>6, <1>7, <1>8, <1>9, SentStep

\* A request that does not go out, or whose answer is lost, is fine.
LEMMA AskFailsFine ==
  ASSUME Inductive, NEW t \in Threads, NEW served \in BOOLEAN, AskFails(t, served)
  PROVE  Fine(t)
<1> DEFINE s == Head(call[t].plan)
<1>1. /\ At(t, Remote) /\ user # None /\ events < MaxEvents
      /\ \/ account' = [account EXCEPT ![user] = Write(@, s)]
         \/ account' = account
      /\ call' = [call EXCEPT ![t] = [@ EXCEPT !.plan = Tail(call[t].plan), !.now = s, !.answer = "error"]]
      /\ events' = events + 1
      /\ UNCHANGED <<user, cache, found, guest, edited>>
  BY DEF AskFails, NotNeeded
<1>2. user \in Users /\ account \in [Users -> Account] /\ account[user] \in Account
  BY <1>1 DEF Inductive, StateType
<1>3. s \in Good
  BY <1>1, AtHead
<1>4. Write(account[user], s) \in Account
  BY <1>2, <1>3, WriteType
<1>5. account' \in [Users -> Account]
  <2> HIDE DEF s
  <2> QED BY <1>1, <1>2, <1>4
<1>6. events' \in Nat /\ events' <= MaxEvents
  BY <1>1, EventsAssumption DEF Inductive, StateType
<1>7. /\ call \in [Threads -> Calls] /\ call[t] \in Calls
      /\ call[t] = [plan |-> call[t].plan, now |-> call[t].now, answer |-> call[t].answer,
                    body |-> call[t].body, blocks |-> call[t].blocks, hook |-> call[t].hook]
      /\ call[t].body \in Body \cup {None}
  BY CallParts DEF Inductive
<1> DEFINE body == call[t].body
<1>8. /\ body \in Body \cup {None}
      /\ call' = [call EXCEPT ![t] = [@ EXCEPT !.plan = Tail(call[t].plan), !.now = Head(call[t].plan),
                      !.answer = "error", !.body = body]]
  BY <1>1, <1>7
<1> HIDE DEF body
<1> QED BY <1>1, <1>5, <1>6, <1>8, SentStep

\* A call that ends.
LEMMA EndsStep ==
  ASSUME Inductive, NEW t \in Threads, call' = [call EXCEPT ![t] = NoCall]
  PROVE  Moves(t) /\ call'[t] \in Calls /\ CallOK(call'[t])
<1>1. call \in [Threads -> Calls]
  BY DEF Inductive, CallType
<1>2. call'[t] = NoCall
  BY <1>1
<1> QED BY <1>1, <1>2, NoCallOK DEF Moves

\* FriendUserUnknown leaves the call, the caches and the marks fine.
LEMMA FriendUserUnknownFine ==
  ASSUME Inductive, NEW t \in Threads, FriendUserUnknown(t)
  PROVE  Fine(t)
<1>1. /\ call[t].now # None /\ call[t].now.do = "code_user" /\ call' = [call EXCEPT ![t] = NoCall]
      /\ UNCHANGED <<user, cache, found, account, guest, edited, events>>
  BY DEF FriendUserUnknown, Answered
<1>2. call[t].hook = None /\ \A x \in People : call[t].now # Step("users", x)
  BY <1>1, AnswerOut
<1>3. StateType' /\ CacheType' /\ Still
  BY <1>1 DEF Inductive, StateType, CacheType, Still, guest
<1> QED BY <1>1, <1>2, <1>3, EndsStep, QuietStep DEF Fine

\* Reading the cache instead of asking is fine.
LEMMA PeekFine ==
  ASSUME Inductive, NEW t \in Threads, Peek(t)
  PROVE  Fine(t)
<1>1. /\ At(t, {"add", "drop"}) /\ UNCHANGED <<user, cache, found, account, guest, edited, events>>
      /\ \/ call' = [call EXCEPT ![t] = NoCall]
         \/ call' = [call EXCEPT ![t] = [@ EXCEPT !.plan = Tail(call[t].plan), !.now = Head(call[t].plan),
                                          !.blocks = cache.blocks]]
  <2>1. CASE user = None
    BY <2>1 DEF Peek
  <2>2. CASE user # None
    <3>1. call' = [call EXCEPT ![t] =
              IF user = None THEN NoCall
              ELSE [@ EXCEPT !.plan = Tail(call[t].plan), !.now = Head(call[t].plan), !.blocks = cache.blocks]]
      BY DEF Peek
    <3>2. At(t, {"add", "drop"}) /\ UNCHANGED <<user, cache, found, account, guest, edited, events>>
      BY DEF Peek
    <3> QED BY <2>2, <3>1, <3>2
  <2> QED BY <2>1, <2>2
<1>2. /\ call[t].now = None /\ call[t].hook = None /\ Tail(call[t].plan) \in Seq(Good)
      /\ Head(call[t].plan) \in Good /\ Head(call[t].plan).do \in {"add", "drop"}
      /\ \A x \in People : call[t].now # Step("users", x)
  BY <1>1, AtHead
<1>3. StateType' /\ CacheType' /\ Still
  BY <1>1 DEF Inductive, StateType, CacheType, Still, guest
<1>4. CASE call' = [call EXCEPT ![t] = NoCall]
  BY <1>2, <1>3, <1>4, EndsStep, QuietStep DEF Fine
<1>5. CASE call' = [call EXCEPT ![t] = [@ EXCEPT !.plan = Tail(call[t].plan), !.now = Head(call[t].plan),
                                          !.blocks = cache.blocks]]
  <2>1. /\ call \in [Threads -> Calls] /\ call[t] \in Calls
        /\ call[t] = [plan |-> call[t].plan, now |-> call[t].now, answer |-> call[t].answer,
                      body |-> call[t].body, blocks |-> call[t].blocks, hook |-> call[t].hook]
        /\ call[t].answer \in {None, "ok", "unknown", "error"} /\ call[t].body \in Body \cup {None}
        /\ call[t].hook \in {None, "list", "request"}
    BY CallParts DEF Inductive
  <2> DEFINE tail == Tail(call[t].plan)
             head == Head(call[t].plan)
             c == call[t]
             blocks == cache.blocks
  <2>2. call' = [call EXCEPT ![t] = [c EXCEPT !.plan = tail, !.now = head, !.blocks = blocks]]
    BY <1>5
  <2>3. blocks \in SUBSET People
    BY DEF Inductive, CacheType, Cache
  <2>4. head.do \notin Remote
    BY <1>2 DEF Remote
  <2>5. /\ tail \in Seq(Good) /\ head \in Good
        /\ c = [plan |-> c.plan, now |-> c.now, answer |-> c.answer,
                body |-> c.body, blocks |-> c.blocks, hook |-> c.hook]
        /\ c.answer \in {None, "ok", "unknown", "error"} /\ c.body \in Body \cup {None}
        /\ c.hook = None /\ call \in [Threads -> Calls]
    BY <1>2, <2>1
  <2> HIDE DEF tail, head, c, blocks
  <2>6. call'[t] = [plan |-> tail, now |-> head, answer |-> c.answer,
                    body |-> c.body, blocks |-> blocks, hook |-> c.hook]
    BY <2>2, <2>5
  <2>7. call'[t] \in Calls /\ CallOK(call'[t])
    <3>1. tail \in Seq(Steps) /\ head \in Steps
      BY <2>5, GoodSteps
    <3>2. call'[t] \in Calls
      BY <2>3, <2>5, <2>6, <3>1 DEF Calls, Body
    <3>3. CallOK(call'[t])
      BY <2>4, <2>5, <2>6 DEF CallOK
    <3> QED BY <3>2, <3>3
  <2>8. Moves(t)
    BY <2>2, <2>5, <2>6 DEF Moves
  <2> QED BY <1>2, <1>3, <2>7, <2>8, QuietStep DEF Fine
<1> QED BY <1>1, <1>4, <1>5

\* The hook that tells the host of a change is fine: it is what ListTold waits for.
LEMMA HookFine ==
  ASSUME Inductive, NEW t \in Threads, Hook(t)
  PROVE  Fine(t)
<1>1. /\ call[t].hook # None /\ call' = [call EXCEPT ![t].hook = None]
      /\ user' = user /\ cache' = cache /\ found' = found /\ account' = account
      /\ masked' = masked /\ edited' = edited /\ events' = events
  BY DEF Hook
<1>2. \/ call[t].hook = "list" /\ told' = cache.friends /\ heard' = heard
      \/ /\ call[t].hook # "list" /\ told' = told
         /\ heard' = heard \cup
               {<<user, x>> : x \in {y \in People : cache.box[y] = "unread" /\ ~masked}}
  BY DEF Hook
<1>3. call[t].now = None
  BY <1>1, AnswerOut
<1> DEFINE c == call[t]
<1>4. /\ call \in [Threads -> Calls] /\ c.plan \in Seq(Good) /\ c.now = None
      /\ c = [plan |-> c.plan, now |-> c.now, answer |-> c.answer,
              body |-> c.body, blocks |-> c.blocks, hook |-> c.hook]
      /\ c.answer \in {None, "ok", "unknown", "error"} /\ c.body \in Body \cup {None}
      /\ c.blocks \in SUBSET People
  BY <1>3, CallParts DEF Inductive
<1>5. call' = [call EXCEPT ![t] = [c EXCEPT !.hook = None]]
  BY <1>1, <1>4
<1> HIDE DEF c
<1>6. call'[t] = [plan |-> c.plan, now |-> c.now, answer |-> c.answer,
                  body |-> c.body, blocks |-> c.blocks, hook |-> None]
  BY <1>4, <1>5
<1>7. call'[t] \in Calls /\ CallOK(call'[t])
  <2>1. c.plan \in Seq(Steps)
    BY <1>4, GoodSteps
  <2>2. call'[t] \in Calls
    BY <1>4, <1>6, <2>1 DEF Calls, Body
  <2>3. CallOK(call'[t])
    BY <1>4, <1>6 DEF CallOK
  <2> QED BY <2>2, <2>3
<1>8. Moves(t)
  BY <1>4, <1>5, <1>6 DEF Moves
<1>9. StateType' /\ CacheType'
  <2>1. told' \in Friends /\ heard' \in SUBSET ((Users \cup {None}) \X People)
    BY <1>2 DEF Inductive, StateType, CacheType, Cache
  <2> QED BY <1>1, <2>1 DEF Inductive, StateType, CacheType
<1>10. \A u \in Threads : call'[u].now = call[u].now /\ (u # t => call'[u].hook = call[u].hook)
  BY <1>4, <1>5, <1>6 DEF c
<1>11. Signed' /\ WarmingOwned'
  BY <1>1, <1>10 DEF Inductive, Signed, WarmingOwned
<1>12. ListTold'
  BY <1>1, <1>2, <1>10 DEF Inductive, ListTold
<1> QED BY <1>7, <1>8, <1>9, <1>11, <1>12 DEF Fine

\* The id that is fetched is marked, and the thread owns the mark.
LEMMA WarmFine ==
  ASSUME Inductive, NEW t \in Threads, Warm(t)
  PROVE  Fine(t)
<1> DEFINE s == Head(call[t].plan)
<1>1. At(t, {"users"}) /\ UNCHANGED <<user, found, account, guest, edited, events>>
  BY DEF Warm
<1>2. /\ call[t].now = None /\ call[t].hook = None
      /\ s \in Good /\ s.do = "users"
      /\ \A x \in People : call[t].now # Step("users", x)
  BY <1>1, AtHead
<1>3. StateType'
  BY <1>1 DEF Inductive, StateType, guest
<1>4. CASE s.on \in cache.users \cup cache.warming
  <2>1. call' = [call EXCEPT ![t] = NoCall] /\ cache' = cache
    BY <1>4 DEF Warm
  <2>2. CacheType' /\ Still
    BY <1>1, <2>1 DEF Inductive, CacheType, Still, guest
  <2> QED BY <1>2, <1>3, <2>1, <2>2, EndsStep, QuietStep DEF Fine
<1>5. CASE s.on \notin cache.users \cup cache.warming
  <2>1. /\ cache' = [cache EXCEPT !.warming = @ \cup {s.on}]
        /\ call' = [call EXCEPT ![t] = [@ EXCEPT !.plan = <<>>, !.now = s]]
    BY <1>5 DEF Warm
  <2>2. s.on \in People /\ s = Step("users", s.on)
    BY <1>2 DEF Good, Named, Steps, Step
  <2> DEFINE c == call[t]
  <2>3. /\ call \in [Threads -> Calls] /\ c.hook = None
        /\ c = [plan |-> c.plan, now |-> c.now, answer |-> c.answer,
                body |-> c.body, blocks |-> c.blocks, hook |-> c.hook]
        /\ c.answer \in {None, "ok", "unknown", "error"} /\ c.body \in Body \cup {None}
        /\ c.blocks \in SUBSET People
    BY <1>2, CallParts DEF Inductive
  <2>4. call' = [call EXCEPT ![t] = [c EXCEPT !.plan = <<>>, !.now = s]]
    BY <2>1
  <2>5. s \in Good /\ s \in Steps /\ s.do \notin Remote /\ <<>> \in Seq(Good) /\ <<>> \in Seq(Steps)
    BY <1>2, GoodSteps DEF Remote
  <2> HIDE DEF c, s
  <2>6. call'[t] = [plan |-> <<>>, now |-> s, answer |-> c.answer,
                    body |-> c.body, blocks |-> c.blocks, hook |-> c.hook]
    BY <2>3, <2>4
  <2>7. call'[t] \in Calls
    BY <2>3, <2>5, <2>6 DEF Calls, Body
  <2>8. CallOK(call'[t])
    BY <2>3, <2>5, <2>6 DEF CallOK
  <2>9. Moves(t)
    BY <2>3, <2>4, <2>6 DEF Moves
  <2>10. /\ CacheType' /\ cache'.friends = cache.friends /\ cache'.signature = cache.signature
         /\ cache'.warming = cache.warming \cup {s.on}
    BY <2>1, <2>2 DEF Inductive, CacheType, Cache
  <2>11. call'[t].now = s /\ call'[t].hook = call[t].hook /\ \A u \in Threads \ {t} : call'[u] = call[u]
    BY <2>3, <2>4, <2>6 DEF c
  <2>12. Signed' /\ ListTold'
    <3>1. Signed'
      BY <1>1, <2>10 DEF Inductive, Signed
    <3>2. \A u \in Threads : call'[u].hook = call[u].hook
      BY <2>11
    <3>3. ListTold'
      BY <1>1, <2>10, <3>2 DEF Inductive, ListTold, guest
    <3> QED BY <3>1, <3>3
  <2>13. WarmingOwned'
    <3> SUFFICES ASSUME NEW x \in cache'.warming, user' # None
                 PROVE  \E u \in Threads : call'[u].now = Step("users", x)
      BY DEF WarmingOwned
    <3>1. CASE x = s.on
      BY <2>2, <2>11, <3>1
    <3>2. CASE x # s.on
      <4>1. x \in cache.warming /\ user # None /\ x \in People
        BY <1>1, <2>10, <3>2 DEF Inductive, CacheType, Cache
      <4>2. PICK u \in Threads : call[u].now = Step("users", x)
        BY <4>1 DEF Inductive, WarmingOwned
      <4>3. u # t
        BY <1>2, <4>1, <4>2
      <4> QED BY <2>11, <4>2, <4>3
    <3> QED BY <3>1, <3>2
  <2> QED BY <1>3, <2>7, <2>8, <2>9, <2>10, <2>12, <2>13 DEF Fine
<1> QED BY <1>4, <1>5

\* Nobody is signed in: the mark stays until the next sign-in clears it.
LEMMA WarmGivesUpFine ==
  ASSUME Inductive, NEW t \in Threads, WarmGivesUp(t)
  PROVE  Fine(t)
<1>1. /\ call[t].now # None /\ user = None /\ call' = [call EXCEPT ![t] = NoCall]
      /\ UNCHANGED <<user, cache, found, account, guest, edited, events>>
  BY DEF WarmGivesUp
<1>2. StateType' /\ CacheType'
  BY <1>1 DEF Inductive, StateType, CacheType, guest
<1>3. Signed' /\ ListTold' /\ WarmingOwned'
  BY <1>1 DEF Inductive, Signed, ListTold, WarmingOwned
<1> QED BY <1>1, <1>2, <1>3, EndsStep DEF Fine

\* Warming the cache of profiles is fine: the marks it sets are the call's own.
LEMMA FetchUsersFine ==
  ASSUME Inductive, NEW t \in Threads, FetchUsers(t)
  PROVE  Fine(t)
<1>1. /\ call[t].now # None /\ call[t].now.do = "users"
      /\ UNCHANGED <<user, cache, found, account, guest, edited>>
      /\ \/ events' = events
         \/ events < MaxEvents /\ events' = events + 1
  BY DEF FetchUsers
<1>2. PICK answer \in {"ok", "error"} : call' = [call EXCEPT ![t].answer = answer]
  BY DEF FetchUsers
<1> DEFINE c == call[t]
<1>3. /\ call \in [Threads -> Calls] /\ c.plan \in Seq(Good) /\ c.now \in Good /\ c.now.do = "users"
      /\ c = [plan |-> c.plan, now |-> c.now, answer |-> c.answer,
              body |-> c.body, blocks |-> c.blocks, hook |-> c.hook]
      /\ c.body \in Body \cup {None} /\ c.blocks \in SUBSET People /\ c.hook = None
  BY <1>1, CallParts, AnswerOut DEF Inductive
<1>4. call' = [call EXCEPT ![t] = [c EXCEPT !.answer = answer]]
  BY <1>2, <1>3
<1> HIDE DEF c
<1>5. call'[t] = [plan |-> c.plan, now |-> c.now, answer |-> answer,
                  body |-> c.body, blocks |-> c.blocks, hook |-> c.hook]
  BY <1>3, <1>4
<1>6. call'[t] \in Calls
  <2>1. c.plan \in Seq(Steps) /\ c.now \in Steps
    BY <1>3, GoodSteps
  <2> QED BY <1>3, <1>5, <2>1 DEF Calls, Body
<1>7. CallOK(call'[t])
  <2>1. c.now.do \notin Remote
    BY <1>3 DEF Remote
  <2> QED BY <1>3, <1>5, <2>1 DEF CallOK
<1>8. Moves(t)
  BY <1>3, <1>4, <1>5 DEF Moves
<1>9. StateType' /\ CacheType'
  BY <1>1, EventsAssumption DEF Inductive, StateType, CacheType, guest
<1>10. \A u \in Threads : call'[u].now = call[u].now /\ call'[u].hook = call[u].hook
  BY <1>3, <1>4, <1>5 DEF c
<1>11. Signed' /\ ListTold'
  BY <1>1, <1>10 DEF Inductive, Signed, ListTold, guest
<1>12. WarmingOwned'
  BY <1>1, <1>10 DEF Inductive, WarmingOwned
<1> QED BY <1>6, <1>7, <1>8, <1>9, <1>11, <1>12 DEF Fine

\* The mark goes with the fetch that owned it.
LEMMA WarmedFine ==
  ASSUME Inductive, NEW t \in Threads, Warmed(t)
  PROVE  Fine(t)
<1> DEFINE s == call[t].now
           users == IF call[t].answer = "ok" THEN cache.users \cup {s.on} ELSE cache.users
<1>1. /\ s # None /\ s.do = "users" /\ Goes(t, <<>>, None)
      /\ cache' = [cache EXCEPT !.warming = @ \ {s.on}, !.users = users]
      /\ UNCHANGED <<user, found, account, guest, edited, events>>
  BY DEF Warmed, Answered
<1>2. s \in Good /\ s.on \in People /\ s = Step("users", s.on) /\ call[t].hook = None
  <2>1. s \in Good /\ s.on \in People /\ call[t].hook = None
    BY <1>1, AnswerOut DEF Named
  <2> QED BY <1>1, <2>1 DEF Good, Steps, Step
<1>3. users \in SUBSET People
  <2>1. cache.users \in SUBSET People
    BY DEF Inductive, CacheType, Cache
  <2> QED BY <1>2, <2>1
<1>4. StateType'
  BY <1>1 DEF Inductive, StateType, guest
<1>5. Moves(t) /\ call'[t] \in Calls /\ CallOK(call'[t]) /\ call'[t].hook = None
  BY <1>1, GoesMoves, PlansGood DEF Inductive
<1> HIDE DEF users, s
<1>6. /\ CacheType' /\ cache'.friends = cache.friends /\ cache'.signature = cache.signature
      /\ cache'.warming = cache.warming \ {s.on}
  BY <1>1, <1>3 DEF Inductive, CacheType, Cache
<1>7. \A u \in Threads \ {t} : call'[u] = call[u]
  BY <1>5 DEF Moves, Inductive, CallType
<1>8. Signed'
  BY <1>1, <1>6 DEF Inductive, Signed
<1>9. ListTold'
  <2>1. \A u \in Threads : call'[u].hook = call[u].hook
    BY <1>2, <1>5, <1>7
  <2> QED BY <1>1, <1>6, <2>1 DEF Inductive, ListTold, guest
<1>10. WarmingOwned'
  <2> SUFFICES ASSUME NEW x \in cache'.warming, user' # None
               PROVE  \E u \in Threads : call'[u].now = Step("users", x)
    BY DEF WarmingOwned
  <2>1. x \in cache.warming /\ x # s.on /\ user # None
    BY <1>1, <1>6
  <2>2. PICK u \in Threads : call[u].now = Step("users", x)
    BY <2>1 DEF Inductive, WarmingOwned
  <2>3. Step("users", x) # Step("users", s.on)
    BY <2>1 DEF Step
  <2>4. u # t
    BY <1>2, <2>2, <2>3 DEF s
  <2> QED BY <1>7, <2>2, <2>4
<1> QED BY <1>4, <1>5, <1>6, <1>8, <1>9, <1>10 DEF Fine

-----------------------------------------------------------------------------
(* Everything else.                                                        *)

\* What is forgotten is of the caches' types, and owes nobody anything.
LEMMA ForgottenType ==
  /\ Forgotten \in Cache /\ Forgotten.unread = UnreadOf(Forgotten.box)
  /\ Forgotten.friends = NoFriends /\ Forgotten.signature = None /\ Forgotten.warming = {}
<1> DEFINE no == FALSE
<1>1. no \in BOOLEAN /\ NoFriends \in Friends /\ NoBox \in Box
  BY DEF NoFriends, Friends, NoBox, Box
<1>2. Forgotten = [friends |-> NoFriends, signature |-> None, cool |-> no, blocks |-> {},
                   setting |-> None, box |-> NoBox, unread |-> 0,
                   invitations |-> {}, groups |-> {}, users |-> {}, warming |-> {}]
  BY DEF Forgotten
<1> HIDE DEF no
<1>3. UnreadOf(NoBox) = 0
  <2>1. {x \in People : NoBox[x] = "unread"} = {}
    BY DEF NoBox
  <2> QED BY <2>1, FS_EmptySet DEF UnreadOf
<1>4. Forgotten \in Cache
  BY <1>1, <1>2 DEF Cache
<1> QED BY <1>2, <1>3, <1>4

\* The calls stay as they are.
LEMMA CallsStay ==
  ASSUME Inductive, call' = call
  PROVE  CallType' /\ \A t \in Threads : CallOK(call[t])'
BY DEF Inductive, CallType, CallOK

\* Detach, which forgets everything, keeps the invariant.
LEMMA DetachKeeps ==
  ASSUME Inductive, Detach
  PROVE  Inductive'
<1>1. /\ events < MaxEvents /\ user' = None /\ cache' = Forgotten /\ edited' = TRUE
      /\ events' = events + 1
      /\ UNCHANGED <<call, found, account, told, heard>>
  BY DEF Detach
<1>2. StateType'
  <2>1. masked' \in BOOLEAN
    BY Zenon DEF Detach
  <2> QED BY <1>1, <2>1, EventsAssumption DEF Inductive, StateType
<1>3. CacheType'
  BY <1>1, ForgottenType DEF CacheType
<1>4. Signed' /\ ListTold' /\ WarmingOwned'
  BY <1>1 DEF Signed, ListTold, WarmingOwned
<1> QED BY <1>1, <1>2, <1>3, <1>4, CallsStay DEF Inductive

\* The login, which drops another user's caches, keeps the invariant.
LEMMA AttachKeeps ==
  ASSUME Inductive, NEW u \in Users, Attach(u)
  PROVE  Inductive'
<1>1. /\ user = None /\ user' = u /\ cache' = Forgotten
      /\ UNCHANGED <<call, found, account, told, heard, edited, events>>
  BY DEF Attach
<1>2. StateType'
  <2>1. masked' \in BOOLEAN
    BY Zenon DEF Attach
  <2> QED BY <1>1, <2>1 DEF Inductive, StateType
<1>3. CacheType' /\ cache'.warming = {}
  BY <1>1, ForgottenType DEF CacheType
<1>4. edited' = edited /\ edited
  BY <1>1 DEF Inductive, Signed
<1>5. Signed' /\ ListTold' /\ WarmingOwned'
  BY <1>3, <1>4 DEF Signed, ListTold, WarmingOwned
<1> QED BY <1>1, <1>2, <1>3, <1>5, CallsStay DEF Inductive

\* A change that somebody else makes on the service keeps the invariant.
LEMMA ChangeKeeps ==
  ASSUME Inductive, NEW u \in Users, NEW x \in People, Change(u, x)
  PROVE  Inductive'
<1>1. /\ events < MaxEvents /\ events' = events + 1
      /\ UNCHANGED <<user, cache, found, call, guest, edited>>
  BY DEF Change
<1>2. account' \in [Users -> Account]
  <2>1. account \in [Users -> Account] /\ account[u] \in Account
    BY DEF Inductive, StateType
  <2>2. /\ account[u].friends \in Friends /\ account[u].box \in Box /\ account[u].mail \in SUBSET People
    BY <2>1 DEF Account
  <2>3. CASE account' = [account EXCEPT ![u].friends[x] = IF @ = "no" THEN "plain" ELSE "no"]
    <3> DEFINE friends == [account[u].friends EXCEPT ![x] = IF @ = "no" THEN "plain" ELSE "no"]
    <3>1. friends \in Friends
      BY <2>2 DEF Friends
    <3>2. account' = [account EXCEPT ![u].friends = friends]
      BY <2>1, <2>3
    <3> HIDE DEF friends
    <3> QED BY <2>1, <3>1, <3>2 DEF Account
  <2>4. CASE account' = [account EXCEPT ![u].box[x] = "unread"]
    <3> DEFINE box == [account[u].box EXCEPT ![x] = "unread"]
    <3>1. box \in Box
      BY <2>2 DEF Box
    <3>2. account' = [account EXCEPT ![u].box = box]
      BY <2>1, <2>4
    <3> HIDE DEF box
    <3> QED BY <2>1, <3>1, <3>2 DEF Account
  <2>5. CASE account' = [account EXCEPT ![u].mail = @ \cup {x}]
    <3> DEFINE mail == account[u].mail \cup {x}
    <3>1. mail \in SUBSET People
      BY <2>2
    <3>2. account' = [account EXCEPT ![u].mail = mail]
      BY <2>5
    <3> HIDE DEF mail
    <3> QED BY <2>1, <3>1, <3>2 DEF Account
  <2> QED BY <2>3, <2>4, <2>5 DEF Change
<1>3. StateType'
  BY <1>1, <1>2, EventsAssumption DEF Inductive, StateType, guest
<1>4. CacheType' /\ Signed' /\ ListTold' /\ WarmingOwned'
  BY <1>1 DEF Inductive, CacheType, Signed, ListTold, WarmingOwned, guest
<1> QED BY <1>1, <1>3, <1>4, CallsStay DEF Inductive

\* The local half of a change the guest makes to a friend keeps the invariant.
LEMMA UpdateKeeps ==
  ASSUME Inductive, NEW x \in People, Update(x)
  PROVE  Inductive'
<1> DEFINE friends == [cache.friends EXCEPT ![x] = IF @ = "plain" THEN "starred" ELSE "plain"]
<1>1. cache \in Cache /\ cache.friends \in Friends
  BY DEF Inductive, CacheType, Cache
<1>2. /\ events < MaxEvents /\ cache' = [cache EXCEPT !.friends = friends]
      /\ edited' = TRUE /\ events' = events + 1
      /\ UNCHANGED <<user, found, call, account, guest>>
  BY <1>1 DEF Update, Cache
<1>3. friends \in Friends
  BY <1>1 DEF Friends
<1> HIDE DEF friends
<1>4. CacheType' /\ cache'.warming = cache.warming
  BY <1>1, <1>2, <1>3 DEF Inductive, CacheType, Cache
<1>5. StateType'
  BY <1>2, EventsAssumption DEF Inductive, StateType, guest
<1>6. Signed' /\ ListTold' /\ WarmingOwned'
  BY <1>2, <1>4 DEF Inductive, Signed, ListTold, WarmingOwned
<1> QED BY <1>2, <1>4, <1>5, <1>6, CallsStay DEF Inductive

\* The end of the 30 seconds keeps the invariant.
LEMMA CooledDownKeeps ==
  ASSUME Inductive, CooledDown
  PROVE  Inductive'
<1> DEFINE no == FALSE
<1>1. /\ cache' = [cache EXCEPT !.cool = no] /\ no \in BOOLEAN
      /\ UNCHANGED <<user, found, call, account, guest, edited, events>>
  BY DEF CooledDown
<1> HIDE DEF no
<1>2. CacheType' /\ Still
  BY <1>1 DEF Inductive, CacheType, Cache, Still, guest
<1>3. StateType'
  BY <1>1 DEF Inductive, StateType, guest
<1>4. Signed' /\ ListTold' /\ WarmingOwned'
  BY <1>1, <1>2 DEF Inductive, Signed, ListTold, WarmingOwned, Still
<1> QED BY <1>1, <1>2, <1>3, <1>4, CallsStay DEF Inductive

\* A call begins with a plan.
LEMMA CallBegins ==
  ASSUME Inductive, NEW t \in Threads, Idle(t), NEW plan \in Seq(Good), call' = [call EXCEPT ![t].plan = plan],
         UNCHANGED <<user, cache, found, account, guest, edited>>, events' \in Nat, events' <= MaxEvents
  PROVE  Fine(t)
<1>1. call \in [Threads -> Calls] /\ call[t] = NoCall /\ call[t].now = None /\ call[t].hook = None
  BY NoCallOK DEF Idle, Inductive, CallType
<1>2. call' = [call EXCEPT ![t] = [NoCall EXCEPT !.plan = plan]]
  BY <1>1
<1>3. call'[t] = [plan |-> plan, now |-> None, answer |-> None, body |-> None, blocks |-> {}, hook |-> None]
  BY <1>1, <1>2 DEF NoCall
<1>4. call'[t] \in Calls /\ CallOK(call'[t])
  BY <1>3, CallMade
<1>5. Moves(t)
  BY <1>1, <1>2, <1>3 DEF Moves
<1>6. StateType' /\ CacheType' /\ Still
  BY DEF Inductive, StateType, CacheType, Still, guest
<1>7. \A x \in People : call[t].now # Step("users", x)
  <2>1. \A x \in People : Step("users", x) \in Good
    BY GoodSteps DEF Requests
  <2> QED BY <1>1, <2>1, NoneAssumption, GoodSteps
<1> QED BY <1>1, <1>4, <1>5, <1>6, <1>7, QuietStep DEF Fine

\* The heartbeat's sync starts a call that is fine.
LEMMA BackgroundSyncFine ==
  ASSUME Inductive, BackgroundSync
  PROVE  Fine(Beat)
<1> DEFINE plan == <<Get("requests"), Get("friends"), Get("blocks"), Get("setting"), Get("invitations")>>
<1>1. /\ Idle(Beat) /\ call' = [call EXCEPT ![Beat].plan = plan]
      /\ UNCHANGED <<user, cache, found, account, guest, edited, events>>
  BY DEF BackgroundSync
<1>2. plan \in Seq(Good)
  <2>1. /\ Get("blocks") \in Good /\ Get("requests") \in Good
        /\ Get("friends") \in Good /\ Get("setting") \in Good /\ Get("invitations") \in Good
    BY GoodSteps DEF Requests, Named
  <2> QED BY <2>1
<1> HIDE DEF plan
<1>3. Beat \in Threads /\ events' \in Nat /\ events' <= MaxEvents
  BY <1>1 DEF Threads, Inductive, StateType
<1> QED BY <1>1, <1>2, <1>3, CallBegins

\* A command of the title starts a call that is fine.
LEMMA CommandFine ==
  ASSUME Inductive, NEW x \in People, Command(x)
  PROVE  Fine(Worker)
<1>1. /\ Idle(Worker) /\ events < MaxEvents /\ events' = events + 1
      /\ UNCHANGED <<user, cache, found, account, guest, edited>>
  BY DEF Command
<1>2. PICK plan \in Plans(x) : call' = [call EXCEPT ![Worker].plan = plan]
  BY DEF Command
<1>3. plan \in Seq(Good)
  <2>1. \A do \in Requests : Step(do, x) \in Good
    BY GoodSteps
  <2>2. /\ Step("add", x) \in Good /\ Step("block", x) \in Good /\ Step("drop", x) \in Good
        /\ Step("unblock", x) \in Good /\ Step("patch", x) \in Good /\ Step("delete", x) \in Good
        /\ Step("answer", x) \in Good /\ Step("read", x) \in Good /\ Step("code_user", x) \in Good
        /\ Step("send", x) \in Good /\ Step("users", x) \in Good
    BY <2>1 DEF Requests
  <2>3. <<Step("add", x), Step("block", x)>> \in Seq(Good)
    BY <2>2
  <2>4. <<Step("drop", x), Step("unblock", x)>> \in Seq(Good)
    BY <2>2
  <2>5. <<Step("code_user", x), Step("send", x)>> \in Seq(Good)
    BY <2>2
  <2>6. /\ <<Step("patch", x)>> \in Seq(Good) /\ <<Step("delete", x)>> \in Seq(Good)
        /\ <<Step("answer", x)>> \in Seq(Good) /\ <<Step("read", x)>> \in Seq(Good)
        /\ <<Step("users", x)>> \in Seq(Good)
    BY <2>2
  <2>7. <<Get("force")>> \in Seq(Good)
    BY PlansGood
  <2> QED BY <2>3, <2>4, <2>5, <2>6, <2>7, Zenon DEF Plans
<1>4. Worker \in Threads /\ events' \in Nat /\ events' <= MaxEvents
  BY <1>1, EventsAssumption DEF Threads, Inductive, StateType
<1> QED BY <1>1, <1>2, <1>3, <1>4, CallBegins

-----------------------------------------------------------------------------
(* The inductive invariant, and the theorems.                              *)

LEMMA FineKeeps ==
  ASSUME Inductive, NEW t \in Threads, Fine(t)
  PROVE  Inductive'
<1>1. call \in [Threads -> Calls] /\ \A u \in Threads : CallOK(call[u])
  BY DEF Inductive, CallType
<1>2. Moves(t) /\ call'[t] \in Calls /\ CallOK(call'[t])
  BY DEF Fine
<1>3. call' \in [Threads -> Calls] /\ \A u \in Threads \ {t} : call'[u] = call[u]
  BY <1>1, <1>2 DEF Moves
<1>4. \A u \in Threads : CallOK(call'[u])
  <2>1. ASSUME NEW u \in Threads \ {t}
        PROVE  CallOK(call'[u])
    BY <1>1, <1>3 DEF CallOK
  <2> QED BY <1>2, <2>1
<1>5. CallType' /\ \A u \in Threads : CallOK(call[u])'
  BY <1>3, <1>4 DEF CallType, CallOK
<1> QED BY <1>5 DEF Fine, Inductive

\* Every step of a thread.
LEMMA ThreadFine ==
  ASSUME Inductive, NEW t \in Threads, Thread(t)
  PROVE  Fine(t)
<1>1. CASE Sync(t)
  BY <1>1, SyncFriendListFine, SyncBlockListFine, SyncUserSettingFine, SyncInvitationsFine,
     FetchInvitationGroupFine, SetFriendRequestsFine, SyncFailsFine DEF Sync
<1>2. CASE \E served \in BOOLEAN : AskFails(t, served)
  BY <1>2, AskFailsFine
<1>3. CASE \/ Skip(t) \/ Ask(t) \/ Hook(t) \/ Peek(t) \/ ReplaceBlocks(t) \/ BlockAnswered(t)
           \/ PatchFriend(t) \/ DeleteAnswered(t) \/ RequestAnswered(t) \/ Refused(t)
  BY <1>3, SkipFine, AskFine, HookFine, PeekFine, ReplaceBlocksFine, BlockAnsweredFine,
     PatchFriendFine, DeleteAnsweredFine, RequestAnsweredFine, RefusedFine
<1>4. CASE \/ FriendUser(t) \/ FriendUserUnknown(t) \/ SendFriendRequest(t)
           \/ Warm(t) \/ WarmGivesUp(t) \/ FetchUsers(t) \/ Warmed(t)
  BY <1>4, FriendUserFine, FriendUserUnknownFine, SendFriendRequestFine, WarmFine,
     WarmGivesUpFine, FetchUsersFine, WarmedFine
<1> QED BY <1>1, <1>2, <1>3, <1>4 DEF Thread

\* Every step of the module keeps the inductive invariant.
LEMMA InductiveStep == Inductive /\ [Next]_vars => Inductive'
<1> SUFFICES ASSUME Inductive, [Next]_vars
             PROVE  Inductive'
  OBVIOUS
<1>1. CASE Detach
  BY <1>1, DetachKeeps
<1>2. ASSUME NEW u \in Users, Attach(u)
      PROVE  Inductive'
  BY <1>2, AttachKeeps
<1>3. ASSUME NEW u \in Users, NEW x \in People, Change(u, x)
      PROVE  Inductive'
  BY <1>3, ChangeKeeps
<1>4. CASE BackgroundSync
  <2>1. Beat \in Threads
    BY DEF Threads
  <2> QED BY <1>4, <2>1, BackgroundSyncFine, FineKeeps
<1>5. ASSUME NEW x \in People, Command(x)
      PROVE  Inductive'
  <2>1. Worker \in Threads
    BY DEF Threads
  <2> QED BY <1>5, <2>1, CommandFine, FineKeeps
<1>6. ASSUME NEW x \in People, Update(x)
      PROVE  Inductive'
  BY <1>6, UpdateKeeps
<1>7. CASE CooledDown
  BY <1>7, CooledDownKeeps
<1>8. ASSUME NEW t \in Threads, Thread(t)
      PROVE  Inductive'
  BY <1>8, ThreadFine, FineKeeps
<1>9. CASE UNCHANGED vars
  <2>1. UNCHANGED <<user, cache, found, call, account, told, heard, masked, edited, events>>
    BY <1>9 DEF vars, guest
  <2>2. StateType' /\ CacheType' /\ Signed' /\ ListTold' /\ WarmingOwned'
    BY <2>1 DEF Inductive, StateType, CacheType, Signed, ListTold, WarmingOwned
  <2> QED BY <2>1, <2>2, CallsStay DEF Inductive
<1> QED BY <1>1, <1>2, <1>3, <1>4, <1>5, <1>6, <1>7, <1>8, <1>9 DEF Next

\* The module starts in it.
LEMMA InductiveInit == Init => Inductive
<1> SUFFICES ASSUME Init
             PROVE  Inductive
  OBVIOUS
<1>1. CacheType /\ cache.friends = NoFriends /\ cache.signature = None /\ cache.warming = {}
  BY ForgottenType DEF Init, CacheType
<1>2. CallType /\ \A t \in Threads : CallOK(call[t])
  <2>1. call = [t \in Threads |-> NoCall]
    BY DEF Init
  <2> QED BY <2>1, NoCallOK DEF CallType
<1>3. StateType
  <2> DEFINE no == FALSE
  <2>1. no \in BOOLEAN /\ NoFriends \in Friends /\ NoBox \in Box
    BY DEF NoFriends, Friends, NoBox, Box
  <2>2. NewAccount = [friends |-> NoFriends, blocks |-> {}, box |-> NoBox, code |-> no, mail |-> {}]
    BY DEF NewAccount
  <2> HIDE DEF no
  <2>3. NewAccount \in Account
    BY <2>1, <2>2 DEF Account
  <2>4. masked \in BOOLEAN /\ edited \in BOOLEAN
    BY Zenon DEF Init
  <2>5. events \in Nat /\ events <= MaxEvents
    BY EventsAssumption DEF Init
  <2>6. user \in Users /\ found = {} /\ told = NoFriends /\ heard = {} /\ account = [u \in Users |-> NewAccount]
    BY FriendsAssumption DEF Init
  <2> QED BY <2>1, <2>3, <2>4, <2>5, <2>6 DEF StateType
<1>4. Signed
  BY <1>1, FriendsAssumption DEF Init, Signed
<1>5. ListTold /\ WarmingOwned
  BY <1>1 DEF Init, ListTold, WarmingOwned
<1> QED BY <1>1, <1>2, <1>3, <1>4, <1>5 DEF Inductive

\* So it holds in every reachable state.
LEMMA InductiveHolds == Spec => []Inductive
BY InductiveInit, InductiveStep, PTL DEF Spec

\* The caches, calls, lists and counters of the friends module keep their types, whatever order
\* answers come back in and whoever is signed in by then, and the unread count is the box's.
THEOREM TypeCorrect == Spec => []TypeOK
<1>1. Inductive => TypeOK
  <2> SUFFICES ASSUME Inductive
               PROVE  TypeOK
    OBVIOUS
  <2>1. events \in 0..MaxEvents
    BY EventsAssumption DEF Inductive, StateType
  <2> QED BY <2>1 DEF Inductive, StateType, CacheType, CallType, TypeOK, Cache
<1> QED BY <1>1, InductiveHolds, PTL

\* While only syncs touch the friend list, the guest knows it or is about to be told: no order in
\* which two threads' answers are applied loses a change (SyncFriendList and its hook).
THEOREM ChangesAreTold == Spec => []ListTold
<1>1. Inductive => ListTold
  BY DEF Inductive
<1> QED BY <1>1, InductiveHolds, PTL

\* An id is marked as being fetched only while a thread fetches it, or until the next sign-in
\* clears the marks (WarmUsers).
THEOREM MarksAreOwned == Spec => []WarmingOwned
<1>1. Inductive => WarmingOwned
  BY DEF Inductive
<1> QED BY <1>1, InductiveHolds, PTL

=============================================================================
