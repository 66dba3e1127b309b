--------------------------- MODULE PresenceProofs ---------------------------
(***************************************************************************)
(* Presence, for any profiles, titles, callers of Ensure and number of     *)
(* changes, switches and heartbeats: its types, and that nothing takes     *)
(* back the goodbye of GoOffline.                                          *)
(***************************************************************************)
EXTENDS Presence, TLAPS

\* The types, one group of variables at a time.
Gate == [by : Threads \cup {None}, body : Body, speaker : Profiles \cup {None}, sent : BOOLEAN]

\* The pieces of a round of the heartbeat.
Pieces == {"title", "force", "publish", "sync", "follow"}

WhoType   == active \in Profiles /\ profile \in Profiles /\ user \in Profiles \cup {None} /\ switches \in 0..MaxSwitches
GameType  == /\ names \in BOOLEAN /\ title \in Titles \cup {None} /\ app \in Titles \cup {None}
             /\ declared \in [Profiles -> Body] /\ changes \in 0..MaxChanges
BeatType  == running \in BOOLEAN /\ tick \in 0..(InvitationEveryNthBeat - 1) /\ starts \in 0..MaxStarts
FlagType  == dirty \in BOOLEAN /\ pending \in BOOLEAN
ServerType == published \in Body \cup {None} /\ shown \in [Profiles -> Body \cup {None}]
GateType  == gate \in Gate /\ (gate.sent => gate.speaker # None)
PlaceType == at \in [Threads -> PCs] /\ work \in Seq(Pieces)
FrameType == seen \in [Threads -> Profiles \cup {None}] /\ ensuring \in [Threads -> BOOLEAN]

Types == WhoType /\ GameType /\ BeatType /\ FlagType /\ ServerType /\ GateType /\ PlaceType /\ FrameType

\* Where a thread may be: only the heartbeat publishes what the title declares, and only
\* the host takes leave.
Places(t) ==
    IF t = Host THEN {"idle", "join", "farewell"}
    ELSE IF t \in Callers THEN {"idle", "follow", "goodbye", "switch", "login"}
    ELSE PCs

Placed == \A t \in Threads : at[t] \in Places(t)

\* A heartbeat that was stopped is over once the host has joined it.
Stopped == ~running /\ at[Host] # "join" => at[Beat] = "off"

\* Whoever holds the gate publishes, and who says goodbye says INACTIVE.
Held ==
    gate.by # None =>
        /\ Publishes(gate.by)
        /\ at[gate.by] \in {"goodbye", "farewell"} => gate.body = Inactive

\* Who leaves a profile has seen the next one.
Compared == \A t \in Threads : at[t] \in {"goodbye", "switch"} => seen[t] # None

Inductive == Types /\ Placed /\ Stopped /\ Held /\ Compared

-----------------------------------------------------------------------------
(* Operators.                                                              *)

LEMMA Bounds ==
  /\ MaxChanges \in Nat /\ MaxSwitches \in Nat /\ MaxStarts \in Nat
  /\ InvitationEveryNthBeat \in Nat /\ InvitationEveryNthBeat # 0
  BY PresenceAssumption

\* The heartbeat, the host's thread and the callers are different threads.
LEMMA ThreadsDiffer ==
  /\ Beat \in Threads /\ Host \in Threads /\ Callers \subseteq Threads /\ Beat # Host
  /\ Beat \notin Callers /\ Host \notin Callers /\ None \notin Threads
  /\ \A t \in Threads : t = Beat \/ t = Host \/ t \in Callers
<1>1. Beat # Host
  BY DEF Beat, Host
<1>2. Beat \notin Callers /\ Host \notin Callers /\ None \notin Threads
  BY PresenceAssumption
<1> QED BY <1>1, <1>2 DEF Threads

\* INACTIVE is a body, and so is what the title declares.
LEMMA Bodies ==
  /\ Inactive \in Body
  /\ GameType => \A p \in Profiles : For(p) \in Body /\ Current(p) \in Body
<1> DEFINE no == FALSE
<1>1. no \in BOOLEAN /\ Inactive = [title |-> None, open |-> no]
  BY DEF Inactive
<1>2. \A p : For(p) = IF declared[p].title = app THEN declared[p] ELSE [title |-> app, open |-> no]
  BY DEF For
<1> HIDE DEF no
<1>3. Inactive \in Body
  BY <1>1 DEF Body
<1>4. ASSUME GameType, NEW p \in Profiles
      PROVE  For(p) \in Body
  <2>1. declared[p] \in Body
    BY <1>4 DEF GameType
  <2>2. [title |-> app, open |-> no] \in Body
    BY <1>1, <1>4 DEF GameType, Body
  <2> QED BY <1>2, <2>1, <2>2
<1> QED BY <1>3, <1>4 DEF Current

\* The gate is free while nobody is in it.
LEMMA FreeType == Free \in Gate /\ Free.by = None /\ Free.sent = FALSE
<1> DEFINE no == FALSE
<1>1. no \in BOOLEAN /\ Free = [by |-> None, body |-> Inactive, speaker |-> None, sent |-> no]
  BY DEF Free
<1>2. Free.sent = FALSE
  BY DEF Free
<1> HIDE DEF no
<1>3. Free \in Gate /\ Free.by = None
  BY <1>1, Bodies DEF Gate
<1> QED BY <1>2, <1>3

\* The thread goes on.
LEMMA GoesMoves ==
  ASSUME Inductive, NEW t \in Threads, NEW next \in PCs, Goes(t, next)
  PROVE  PlaceType' /\ at' = [at EXCEPT ![t] = next] /\ at'[t] = next
BY DEF Goes, Inductive, Types, PlaceType

\* A call returns, or the round goes on.
LEMMA FinishMoves ==
  ASSUME Inductive, NEW t \in Threads, Finish(t)
  PROVE  /\ PlaceType' /\ at' = [at EXCEPT ![t] = at'[t]] /\ at'[t] \notin {"goodbye", "switch"}
         /\ t # Beat => at'[t] = "idle"
<1>1. work \in Seq(Pieces) /\ at \in [Threads -> PCs]
  BY DEF Inductive, Types, PlaceType
<1>2. at' = [at EXCEPT ![t] = Rest(t)] /\ work' = IF t = Beat /\ work # <<>> THEN Tail(work) ELSE work
  BY DEF Finish
<1>3. work # <<>> => Head(work) \in Pieces /\ Tail(work) \in Seq(Pieces)
  BY <1>1
<1>4. Rest(t) \in {"idle", "wait"} \cup Pieces /\ (t # Beat => Rest(t) = "idle")
  BY <1>3 DEF Rest
<1>5. Rest(t) \in PCs /\ Rest(t) \notin {"goodbye", "switch"}
  BY <1>4 DEF Pieces, PCs
<1>6. work' \in Seq(Pieces)
  BY <1>1, <1>2, <1>3
<1>7. at' \in [Threads -> PCs] /\ at'[t] = Rest(t)
  BY <1>1, <1>2, <1>5
<1> QED BY <1>2, <1>4, <1>5, <1>6, <1>7 DEF PlaceType

-----------------------------------------------------------------------------
(* Who is where.                                                           *)

\* Nobody moves and the gate stays.
LEMMA NobodyMoves ==
  ASSUME Inductive, at' = at, gate' = gate, running' = running, seen' = seen
  PROVE  Placed' /\ Stopped' /\ Held' /\ Compared'
BY DEF Inductive, Placed, Stopped, Held, Publishes, Compared

\* A thread moves, having seen what it has to.
LEMMA ComparedMoves ==
  ASSUME Inductive, NEW t \in Threads, at' = [at EXCEPT ![t] = at'[t]],
         \A u \in Threads \ {t} : seen'[u] = seen[u],
         at'[t] \in {"goodbye", "switch"} => seen'[t] # None
  PROVE  Compared'
<1>1. \A u \in Threads \ {t} : at'[u] = at[u]
  BY DEF Inductive, Types, PlaceType
<1> QED BY <1>1 DEF Inductive, Compared

\* A thread that does not hold the gate moves to one of its places.
LEMMA ThreadMoves ==
  ASSUME Inductive, NEW t \in Threads, NEW pc \in Places(t), at' = [at EXCEPT ![t] = pc],
         gate' = gate, ~Publishes(t), running' = running, t # Host, at[t] # "off"
  PROVE  Placed' /\ Stopped' /\ Held'
<1>1. at \in [Threads -> PCs]
  BY DEF Inductive, Types, PlaceType
<1>2. at'[t] = pc /\ \A u \in Threads \ {t} : at'[u] = at[u]
  BY <1>1
<1>3. Placed'
  BY <1>2 DEF Inductive, Placed
<1>4. Stopped'
  BY <1>2, ThreadsDiffer DEF Inductive, Stopped
<1>5. Held'
  <2> SUFFICES ASSUME gate.by # None
               PROVE  Publishes(gate.by)' /\ (at'[gate.by] \in {"goodbye", "farewell"} => gate.body = Inactive)
    BY DEF Held
  <2>1. Publishes(gate.by) /\ (at[gate.by] \in {"goodbye", "farewell"} => gate.body = Inactive)
    BY DEF Inductive, Held
  <2>2. gate.by # t
    BY <2>1
  <2>3. gate.by \in Threads
    BY DEF Inductive, Types, GateType, Gate
  <2>4. at'[gate.by] = at[gate.by]
    BY <1>2, <2>2, <2>3
  <2> QED BY <2>1, <2>4 DEF Publishes
<1> QED BY <1>3, <1>4, <1>5

-----------------------------------------------------------------------------
(* Titles, declarations and profiles.                                      *)

\* Groups of variables that stay keep their types.
LEMMA Stay ==
  ASSUME Types
  PROVE  /\ UNCHANGED who => WhoType'
         /\ UNCHANGED game => GameType'
         /\ UNCHANGED beat => BeatType'
         /\ UNCHANGED flags => FlagType'
         /\ UNCHANGED <<published, shown>> => ServerType'
         /\ UNCHANGED gate => GateType'
         /\ UNCHANGED <<at, work>> => PlaceType'
         /\ UNCHANGED <<seen, ensuring>> => FrameType'
<1>1. UNCHANGED who => WhoType'
  BY DEF Types, WhoType, who
<1>2. UNCHANGED game => GameType'
  BY DEF Types, GameType, game
<1>3. UNCHANGED beat => BeatType'
  BY DEF Types, BeatType, beat
<1>4. UNCHANGED flags => FlagType'
  BY DEF Types, FlagType, flags
<1>5. UNCHANGED <<published, shown>> => ServerType'
  BY DEF Types, ServerType
<1>6. UNCHANGED gate => GateType'
  BY DEF Types, GateType
<1>7. UNCHANGED <<at, work>> => PlaceType'
  BY DEF Types, PlaceType
<1>8. UNCHANGED <<seen, ensuring>> => FrameType'
  BY DEF Types, FrameType
<1> QED BY <1>1, <1>2, <1>3, <1>4, <1>5, <1>6, <1>7, <1>8

\* SwitchProfile keeps the inductive invariant.
LEMMA SwitchProfileKeeps ==
  ASSUME Inductive, NEW p \in Profiles, SwitchProfile(p)
  PROVE  Inductive'
<1>1. /\ switches < MaxSwitches /\ active' = p /\ switches' = switches + 1
      /\ UNCHANGED <<profile, user, game, beat, flags, published, gate, frames, shown>>
  BY DEF SwitchProfile
<1>2. WhoType'
  BY <1>1, Bounds DEF Inductive, Types, WhoType
<1>3. UNCHANGED <<game, beat, flags, published, shown, gate, at, work, seen, ensuring>> /\ running' = running
  BY <1>1 DEF frames, beat
<1>4. Types'
  BY <1>2, <1>3, Stay DEF Inductive, Types
<1> QED BY <1>3, <1>4, NobodyMoves DEF Inductive

\* Update keeps the inductive invariant.
LEMMA UpdateKeeps ==
  ASSUME Inductive, NEW p \in Profiles, NEW open \in BOOLEAN, Update(p, open)
  PROVE  Inductive'
<1> DEFINE d == dirty \/ starts > 0
<1>1. /\ changes < MaxChanges
      /\ declared' = [declared EXCEPT ![p] = [title |-> app, open |-> open]]
      /\ changes' = changes + 1 /\ dirty' = d
      /\ UNCHANGED <<who, names, title, app, beat, pending, published, gate, frames, shown>>
  BY DEF Update
<1>2. d \in BOOLEAN
  BY Zenon
<1> HIDE DEF d
<1>3. FlagType'
  BY <1>1, <1>2 DEF Inductive, Types, FlagType
<1>4. GameType'
  <2>1. [title |-> app, open |-> open] \in Body
    BY DEF Inductive, Types, GameType, Body
  <2> QED BY <1>1, <2>1, Bounds DEF Inductive, Types, GameType
<1>5. UNCHANGED <<who, beat, published, shown, gate, at, work, seen, ensuring>> /\ running' = running
  BY <1>1 DEF frames, beat
<1>6. Types'
  BY <1>3, <1>4, <1>5, Stay DEF Inductive, Types
<1> QED BY <1>5, <1>6, NobodyMoves DEF Inductive

\* SetRunningApplication keeps the inductive invariant.
LEMMA SetRunningApplicationKeeps ==
  ASSUME Inductive, NEW x \in Titles \cup {None}, SetRunningApplication(x)
  PROVE  Inductive'
<1> DEFINE yes == TRUE
<1>1. /\ changes < MaxChanges /\ title' = x /\ app' = x /\ dirty' = yes /\ changes' = changes + 1
      /\ UNCHANGED <<who, names, declared, beat, pending, published, gate, frames, shown>>
  BY DEF SetRunningApplication
<1>2. yes \in BOOLEAN
  OBVIOUS
<1> HIDE DEF yes
<1>3. FlagType' /\ GameType'
  BY <1>1, <1>2, Bounds DEF Inductive, Types, FlagType, GameType
<1>4. UNCHANGED <<who, beat, published, shown, gate, at, work, seen, ensuring>> /\ running' = running
  BY <1>1 DEF frames, beat
<1>5. Types'
  BY <1>3, <1>4, Stay DEF Inductive, Types
<1> QED BY <1>4, <1>5, NobodyMoves DEF Inductive

\* TitleChanges keeps the inductive invariant.
LEMMA TitleChangesKeeps ==
  ASSUME Inductive, NEW x \in Titles \cup {None}, TitleChanges(x)
  PROVE  Inductive'
<1>1. /\ changes < MaxChanges /\ title' = x /\ changes' = changes + 1
      /\ UNCHANGED <<who, names, app, declared, beat, flags, published, gate, frames, shown>>
  BY DEF TitleChanges
<1>2. GameType'
  BY <1>1, Bounds DEF Inductive, Types, GameType
<1>3. UNCHANGED <<who, beat, flags, published, shown, gate, at, work, seen, ensuring>> /\ running' = running
  BY <1>1 DEF frames, beat
<1>4. Types'
  BY <1>2, <1>3, Stay DEF Inductive, Types
<1> QED BY <1>3, <1>4, NobodyMoves DEF Inductive

-----------------------------------------------------------------------------
(* PublishPresence and PublishInactive.                                    *)

\* Who is not the heartbeat neither skips nor waits, and is back at idle.
LEMMA PublisherPlace ==
  ASSUME Inductive, NEW t \in Threads, Publishes(t)
  PROVE  /\ t = Host => at[t] = "farewell"
         /\ t \in Callers => at[t] = "goodbye"
         /\ at[t] \in PCs
         /\ at[t] # "off" /\ at[t] # "join" /\ at[t] # "idle"
         /\ t # Beat => "idle" \in Places(t)
<1>1. at[t] \in Places(t) /\ at[t] \in PCs
  BY DEF Inductive, Placed, Types, PlaceType
<1>2. at[t] \in {"publish", "force", "goodbye", "farewell"}
  BY DEF Publishes
<1> QED BY <1>1, <1>2, ThreadsDiffer DEF Places

\* Skip keeps the inductive invariant.
LEMMA SkipKeeps ==
  ASSUME Inductive, NEW t \in Threads, Skip(t)
  PROVE  Inductive'
<1>1. /\ at[t] = "publish" /\ gate.by = None /\ Finish(t)
      /\ UNCHANGED <<who, game, beat, flags, published, gate, seen, ensuring, shown>>
  BY DEF Skip
<1>2. PlaceType' /\ at' = [at EXCEPT ![t] = at'[t]]
  BY <1>1, FinishMoves
<1>3. Types'
  BY <1>1, <1>2, Stay DEF Inductive, Types
<1>4. t = Beat
  BY <1>1, PublisherPlace, ThreadsDiffer DEF Publishes
<1>5. \A u \in Threads \ {Beat} : at'[u] = at[u]
  BY <1>2, <1>4 DEF Inductive, Types, PlaceType
<1>6. Placed'
  <2>1. at'[Beat] \in PCs
    BY <1>2, ThreadsDiffer DEF PlaceType
  <2> QED BY <1>5, <2>1, ThreadsDiffer DEF Inductive, Placed, Places
<1>7. Stopped'
  <2>1. running' = running
    BY <1>1 DEF beat
  <2> QED BY <1>1, <1>4, <1>5, <2>1, ThreadsDiffer DEF Inductive, Stopped
<1>8. Held'
  BY <1>1 DEF Held
<1>9. Compared'
  BY <1>1, FinishMoves, ComparedMoves
<1> QED BY <1>3, <1>6, <1>7, <1>8, <1>9 DEF Inductive

\* Enter keeps the inductive invariant.
LEMMA EnterKeeps ==
  ASSUME Inductive, NEW t \in Threads, Enter(t)
  PROVE  Inductive'
<1> DEFINE body == IF at[t] \in {"goodbye", "farewell"} THEN Inactive ELSE Current(active)
           no == FALSE
<1>1. /\ Publishes(t) /\ gate' = [Free EXCEPT !.by = t, !.body = body]
      /\ UNCHANGED <<who, game, beat, flags, published, frames, shown>>
  BY DEF Enter
<1>2. body \in Body /\ (at[t] \in {"goodbye", "farewell"} => body = Inactive)
  BY Bodies DEF Inductive, Types, WhoType
<1>3. no \in BOOLEAN /\ ~no /\ Free = [by |-> None, body |-> Inactive, speaker |-> None, sent |-> no]
  BY DEF Free
<1> HIDE DEF body, no
<1>4. gate' = [by |-> t, body |-> body, speaker |-> None, sent |-> no]
  BY <1>1, <1>3
<1>5. GateType' /\ gate'.by = t /\ gate'.body = body
  <2>1. gate' \in Gate /\ gate'.by = t /\ gate'.body = body
    BY <1>2, <1>3, <1>4 DEF Gate
  <2>2. ~gate'.sent
    BY <1>3, <1>4
  <2> QED BY <2>1, <2>2 DEF GateType
<1>6. UNCHANGED <<at, work, seen, ensuring>> /\ running' = running
  BY <1>1 DEF frames, beat
<1>7. Types'
  BY <1>1, <1>5, <1>6, Stay DEF Inductive, Types
<1>8. Placed' /\ Stopped' /\ Compared'
  BY <1>6 DEF Inductive, Placed, Stopped, Compared
<1>9. Held'
  BY <1>1, <1>2, <1>5, <1>6 DEF Held, Publishes
<1> QED BY <1>7, <1>8, <1>9 DEF Inductive

\* Speak keeps the inductive invariant.
LEMMA SpeakKeeps ==
  ASSUME Inductive, NEW t \in Threads, Speak(t)
  PROVE  Inductive'
<1> DEFINE yes == TRUE
<1>1. /\ user # None /\ gate' = [gate EXCEPT !.speaker = user, !.sent = yes]
      /\ UNCHANGED <<who, game, beat, flags, published, frames, shown>>
  BY DEF Speak
<1>2. yes \in BOOLEAN /\ user \in Profiles /\ gate \in Gate
  BY <1>1 DEF Inductive, Types, WhoType, GateType
<1> HIDE DEF yes
<1>3. GateType' /\ gate'.by = gate.by /\ gate'.body = gate.body
  <2>1. gate' \in Gate /\ gate'.by = gate.by /\ gate'.body = gate.body /\ gate'.speaker = user
    BY <1>1, <1>2 DEF Gate
  <2> QED BY <1>1, <2>1 DEF GateType
<1>4. UNCHANGED <<at, work, seen, ensuring>> /\ running' = running
  BY <1>1 DEF frames, beat
<1>5. Types'
  BY <1>1, <1>3, <1>4, Stay DEF Inductive, Types
<1>6. Placed' /\ Stopped' /\ Compared'
  BY <1>4 DEF Inductive, Placed, Stopped, Compared
<1>7. Held'
  BY <1>3, <1>4 DEF Inductive, Held, Publishes
<1> QED BY <1>5, <1>6, <1>7 DEF Inductive

\* The gate is left.
LEMMA LeaveKeeps ==
  ASSUME Inductive, NEW t \in Threads, gate.by = t, NEW taken \in BOOLEAN, Leave(t, taken),
         shown' \in [Profiles -> Body \cup {None}]
  PROVE  Inductive'
<1>1. /\ gate' = Free
      /\ published' = IF at[t] \in {"goodbye", "farewell"} THEN None
                      ELSE IF taken THEN gate.body ELSE published
      /\ \/ at[t] = "goodbye" /\ Goes(t, "switch")
         \/ at[t] # "goodbye" /\ Finish(t)
      /\ UNCHANGED <<who, game, beat, flags, seen, ensuring>>
  BY DEF Leave
<1>2. Publishes(t)
  BY ThreadsDiffer DEF Inductive, Held
<1>3. /\ PlaceType' /\ at' = [at EXCEPT ![t] = at'[t]]
      /\ at[t] = "goodbye" => at'[t] = "switch"
      /\ at[t] # "goodbye" => at'[t] \notin {"goodbye", "switch"}
      /\ t # Beat /\ at[t] # "goodbye" => at'[t] = "idle"
  <2>1. "switch" \in PCs
    BY DEF PCs
  <2> QED BY <1>1, <2>1, GoesMoves, FinishMoves
<1>4. GateType'
  BY <1>1, FreeType DEF GateType
<1>5. ServerType'
  <2>1. gate.body \in Body /\ published \in Body \cup {None}
    BY DEF Inductive, Types, GateType, Gate, ServerType
  <2> QED BY <1>1, <2>1 DEF ServerType
<1>6. Types'
  BY <1>1, <1>3, <1>4, <1>5, Stay DEF Inductive, Types
<1>7. \A u \in Threads \ {t} : at'[u] = at[u]
  BY <1>3 DEF Inductive, Types, PlaceType
<1>8. at'[t] \in Places(t)
  <2>1. CASE t = Beat
    BY <1>3, <2>1, ThreadsDiffer DEF PlaceType, Places
  <2>2. CASE t = Host
    BY <1>2, <1>3, <2>2, PublisherPlace, ThreadsDiffer DEF Places
  <2>3. CASE t \in Callers
    BY <1>2, <1>3, <2>3, PublisherPlace, ThreadsDiffer DEF Places
  <2> QED BY <2>1, <2>2, <2>3, ThreadsDiffer
<1>9. Placed'
  BY <1>7, <1>8 DEF Inductive, Placed
<1>10. Stopped'
  <2>1. running' = running
    BY <1>1 DEF beat
  <2>2. at[t] # "off" /\ at[t] # "join"
    BY <1>2, PublisherPlace
  <2>3. CASE t = Beat
    BY <1>7, <2>1, <2>2, <2>3, ThreadsDiffer DEF Inductive, Stopped
  <2>4. CASE t # Beat
    <3>1. at'[Beat] = at[Beat]
      BY <1>7, <2>4, ThreadsDiffer
    <3>2. at'[Host] # "join" => at[Host] # "join"
      BY <1>7, <2>2, ThreadsDiffer
    <3> QED BY <2>1, <3>1, <3>2 DEF Inductive, Stopped
  <2> QED BY <2>3, <2>4
<1>11. Held'
  BY <1>1, FreeType DEF Held
<1>12. Compared'
  <2>1. at[t] = "goodbye" => seen[t] # None
    BY DEF Inductive, Compared
  <2>2. seen' = seen
    BY <1>1
  <2> QED BY <1>3, <2>1, <2>2, ComparedMoves
<1> QED BY <1>6, <1>9, <1>10, <1>11, <1>12 DEF Inductive

\* What was sent was sent for somebody.
LEMMA AnswersKeep ==
  ASSUME Inductive, NEW t \in Threads, Accepted(t) \/ AnswerLost(t) \/ NotSent(t)
  PROVE  Inductive'
<1> DEFINE yes == TRUE
           no == FALSE
<1>1. yes \in BOOLEAN /\ no \in BOOLEAN
  OBVIOUS
<1>2. gate.by = t /\ \E taken \in {yes, no} : Leave(t, taken)
  BY DEF Accepted, AnswerLost, NotSent
<1>3. shown' \in [Profiles -> Body \cup {None}]
  <2>1. gate.body \in Body /\ shown \in [Profiles -> Body \cup {None}] /\ gate.speaker \in Profiles \cup {None}
    BY DEF Inductive, Types, GateType, Gate, ServerType
  <2>2. shown' = shown \/ shown' = [shown EXCEPT ![gate.speaker] = gate.body]
    BY DEF Accepted, AnswerLost, NotSent
  <2> QED BY <2>1, <2>2
<1> HIDE DEF yes, no
<1> QED BY <1>1, <1>2, <1>3, LeaveKeeps

-----------------------------------------------------------------------------
(* FollowProfile and Ensure.                                               *)

\* A thread that follows a profile is a caller or the heartbeat, and holds no gate.
LEMMA FollowerPlace ==
  ASSUME Inductive, NEW t \in Threads, at[t] \in {"follow", "switch", "login"}
  PROVE  /\ t # Host /\ ~Publishes(t) /\ at[t] # "off"
         /\ {"follow", "goodbye", "login"} \subseteq Places(t)
<1>1. at[t] \in Places(t)
  BY DEF Inductive, Placed
<1>2. t # Host
  BY <1>1 DEF Places
<1>3. {"follow", "goodbye", "login"} \subseteq Places(t)
  BY <1>2 DEF Places, PCs
<1> QED BY <1>2, <1>3 DEF Publishes

\* Such a thread goes to one of the places, or its call returns.
LEMMA FollowerMoves ==
  ASSUME Inductive, NEW t \in Threads, at[t] \in {"follow", "switch", "login"},
         Finish(t) \/ \E next \in {"follow", "goodbye", "login"} : Goes(t, next),
         gate' = gate, running' = running
  PROVE  PlaceType' /\ Placed' /\ Stopped' /\ Held' /\ at' = [at EXCEPT ![t] = at'[t]]
<1>1. /\ t # Host /\ ~Publishes(t) /\ at[t] # "off"
      /\ {"follow", "goodbye", "login"} \subseteq Places(t)
  BY FollowerPlace
<1>2. CASE Finish(t)
  <2>1. /\ PlaceType' /\ at' = [at EXCEPT ![t] = at'[t]]
        /\ t # Beat => at'[t] = "idle"
    BY <1>2, FinishMoves
  <2>2. at'[t] \in Places(t)
    <3>1. CASE t = Beat
      BY <2>1, <3>1, ThreadsDiffer DEF PlaceType, Places
    <3>2. CASE t # Beat
      BY <1>1, <2>1, <3>2, ThreadsDiffer DEF Places
    <3> QED BY <3>1, <3>2
  <2> DEFINE pc == at'[t]
  <2>3. pc \in Places(t) /\ at' = [at EXCEPT ![t] = pc]
    BY <2>1, <2>2
  <2> HIDE DEF pc
  <2> QED BY <1>1, <2>1, <2>3, ThreadMoves
<1>3. ASSUME NEW next \in {"follow", "goodbye", "login"}, Goes(t, next)
      PROVE  PlaceType' /\ Placed' /\ Stopped' /\ Held' /\ at' = [at EXCEPT ![t] = at'[t]]
  <2>1. next \in PCs /\ next \in Places(t)
    BY <1>1 DEF PCs
  <2>2. PlaceType' /\ at' = [at EXCEPT ![t] = next] /\ at'[t] = next
    BY <1>3, <2>1, GoesMoves
  <2> QED BY <1>1, <2>1, <2>2, ThreadMoves
<1> QED BY <1>2, <1>3

\* Call keeps the inductive invariant.
LEMMA CallKeeps ==
  ASSUME Inductive, NEW t \in Threads, Call(t)
  PROVE  Inductive'
<1> DEFINE yes == TRUE
<1>1. /\ t \in Callers /\ at[t] = "idle" /\ Goes(t, "follow")
      /\ ensuring' = [ensuring EXCEPT ![t] = yes] /\ yes \in BOOLEAN
      /\ UNCHANGED <<who, game, beat, flags, published, gate, seen, shown>>
  BY DEF Call
<1> HIDE DEF yes
<1>2. "follow" \in PCs /\ "follow" \in Places(t) /\ t # Host /\ ~Publishes(t) /\ running' = running
  BY <1>1, ThreadsDiffer DEF PCs, Places, Publishes, beat
<1>3. PlaceType' /\ at' = [at EXCEPT ![t] = "follow"]
  BY <1>1, <1>2, GoesMoves
<1>4. FrameType'
  BY <1>1 DEF Inductive, Types, FrameType
<1>5. Types'
  BY <1>1, <1>3, <1>4, Stay DEF Inductive, Types
<1>6. Placed' /\ Stopped' /\ Held'
  BY <1>1, <1>2, <1>3, ThreadMoves
<1>7. Compared'
  BY <1>1, <1>2, GoesMoves, ComparedMoves
<1> QED BY <1>5, <1>6, <1>7 DEF Inductive

\* Compare keeps the inductive invariant.
LEMMA CompareKeeps ==
  ASSUME Inductive, NEW t \in Threads, Compare(t)
  PROVE  Inductive'
<1>1. /\ at[t] = "follow"
      /\ seen' = [seen EXCEPT ![t] = IF active # profile THEN active ELSE None]
      /\ \/ active # profile /\ Goes(t, "goodbye")
         \/ active = profile /\ (Goes(t, "login") \/ Finish(t))
      /\ UNCHANGED <<who, game, beat, flags, published, gate, ensuring, shown>>
  BY DEF Compare
<1>2. Finish(t) \/ \E next \in {"follow", "goodbye", "login"} : Goes(t, next)
  BY <1>1
<1>3. PlaceType' /\ Placed' /\ Stopped' /\ Held' /\ at' = [at EXCEPT ![t] = at'[t]]
  BY <1>1, <1>2, FollowerMoves DEF beat
<1>4. FrameType'
  BY <1>1 DEF Inductive, Types, FrameType, WhoType
<1>5. Types'
  BY <1>1, <1>3, <1>4, Stay DEF Inductive, Types
<1>6. \A u \in Threads \ {t} : seen'[u] = seen[u]
  BY <1>1 DEF Inductive, Types, FrameType
<1>7. at'[t] \in {"goodbye", "switch"} => seen'[t] # None
  <2>1. CASE active # profile
    <3>1. seen'[t] = active /\ active \in Profiles
      BY <1>1, <2>1 DEF Inductive, Types, FrameType, WhoType
    <3> QED BY <3>1, PresenceAssumption
  <2>2. CASE active = profile
    <3>1. "login" \in PCs
      BY DEF PCs
    <3> QED BY <1>1, <2>2, <3>1, GoesMoves, FinishMoves
  <2> QED BY <2>1, <2>2
<1>8. Compared'
  BY <1>3, <1>6, <1>7, ComparedMoves
<1> QED BY <1>3, <1>5, <1>8 DEF Inductive

\* Switch keeps the inductive invariant.
LEMMA SwitchKeeps ==
  ASSUME Inductive, NEW t \in Threads, Switch(t)
  PROVE  Inductive'
<1> DEFINE e == ensuring[t] \/ seen[t] # profile
<1>1. /\ at[t] = "switch"
      /\ \/ profile' = profile /\ user' = user
         \/ profile' = seen[t] /\ user' = None
      /\ Finish(t) \/ \E next \in {"follow", "login"} : Goes(t, next)
      /\ ensuring' = [ensuring EXCEPT ![t] = e]
      /\ seen' = [seen EXCEPT ![t] = None]
      /\ UNCHANGED <<active, switches, game, beat, flags, published, gate, shown>>
  BY DEF Switch
<1>2. e \in BOOLEAN
  BY Zenon
<1> HIDE DEF e
<1>3. PlaceType' /\ Placed' /\ Stopped' /\ Held' /\ at' = [at EXCEPT ![t] = at'[t]]
  BY <1>1, FollowerMoves DEF beat
<1>4. FrameType'
  BY <1>1, <1>2 DEF Inductive, Types, FrameType
<1>5. WhoType'
  <2>1. seen[t] \in Profiles
    BY <1>1 DEF Inductive, Types, FrameType, Compared
  <2> QED BY <1>1, <2>1 DEF Inductive, Types, WhoType
<1>6. Types'
  BY <1>1, <1>3, <1>4, <1>5, Stay DEF Inductive, Types
<1>7. \A u \in Threads \ {t} : seen'[u] = seen[u]
  BY <1>1 DEF Inductive, Types, FrameType
<1>8. at'[t] \notin {"goodbye", "switch"}
  <2>1. {"follow", "login"} \subseteq PCs
    BY DEF PCs
  <2> QED BY <1>1, <2>1, GoesMoves, FinishMoves
<1>9. Compared'
  BY <1>3, <1>7, <1>8, ComparedMoves
<1> QED BY <1>3, <1>6, <1>9 DEF Inductive

\* A token that is still fresh, a login that succeeds and one that fails keep the invariant.
LEMMA LoginsKeep ==
  ASSUME Inductive, NEW t \in Threads, StillFresh(t) \/ Login(t) \/ LoginFails(t)
  PROVE  Inductive'
<1> DEFINE no == FALSE
           yes == TRUE
<1>1. /\ at[t] = "login" /\ Finish(t)
      /\ ensuring' = [ensuring EXCEPT ![t] = no]
      /\ \/ user' = user /\ pending' = pending
         \/ user' = profile /\ pending' = yes
      /\ UNCHANGED <<active, profile, switches, game, beat, dirty, published, gate, seen, shown>>
  BY DEF StillFresh, Login, LoginFails, who, flags
<1>2. no \in BOOLEAN /\ yes \in BOOLEAN
  OBVIOUS
<1> HIDE DEF no, yes
<1>3. PlaceType' /\ Placed' /\ Stopped' /\ Held'
  BY <1>1, FollowerMoves DEF beat
<1>4. FrameType' /\ FlagType' /\ WhoType'
  BY <1>1, <1>2 DEF Inductive, Types, FrameType, FlagType, WhoType
<1>5. Types'
  BY <1>1, <1>3, <1>4, Stay DEF Inductive, Types
<1>6. Compared'
  BY <1>1, FinishMoves, ComparedMoves
<1> QED BY <1>3, <1>5, <1>6 DEF Inductive

-----------------------------------------------------------------------------
(* The heartbeat thread and GoOffline.                                     *)

LEMMA StartHeartbeatKeeps ==
  ASSUME Inductive, StartHeartbeat
  PROVE  Inductive'
<1> DEFINE yes == TRUE
<1>1. /\ at[Beat] = "off" /\ starts < MaxStarts
      /\ running' = yes /\ starts' = starts + 1 /\ tick' = 0 /\ Goes(Beat, "wait")
      /\ UNCHANGED <<who, game, flags, published, gate, seen, ensuring, shown>>
  BY DEF StartHeartbeat
<1>2. yes \in BOOLEAN /\ yes = TRUE
  OBVIOUS
<1> HIDE DEF yes
<1>3. "wait" \in PCs /\ Beat \in Threads
  BY ThreadsDiffer DEF PCs
<1>4. PlaceType' /\ at' = [at EXCEPT ![Beat] = "wait"] /\ at'[Beat] = "wait"
  BY <1>1, <1>3, GoesMoves
<1>5. BeatType'
  BY <1>1, <1>2, Bounds DEF Inductive, Types, BeatType
<1>6. Types'
  BY <1>1, <1>4, <1>5, Stay DEF Inductive, Types
<1>7. \A u \in Threads \ {Beat} : at'[u] = at[u]
  BY <1>4 DEF Inductive, Types, PlaceType
<1>8. Placed'
  BY <1>3, <1>4, <1>7, ThreadsDiffer DEF Inductive, Placed, Places
<1>9. Stopped'
  BY <1>1, <1>2 DEF Stopped
<1>10. Held'
  <2> SUFFICES ASSUME gate.by # None
               PROVE  Publishes(gate.by)' /\ (at'[gate.by] \in {"goodbye", "farewell"} => gate.body = Inactive)
    BY <1>1 DEF Held
  <2>1. Publishes(gate.by) /\ (at[gate.by] \in {"goodbye", "farewell"} => gate.body = Inactive)
    BY DEF Inductive, Held
  <2>2. gate.by \in Threads \ {Beat}
    BY <1>1, <2>1 DEF Publishes, Inductive, Types, GateType, Gate
  <2>3. at'[gate.by] = at[gate.by]
    BY <1>7, <2>2
  <2> QED BY <1>1, <2>1, <2>3 DEF Publishes
<1>11. Compared'
  <2>1. seen' = seen
    BY <1>1
  <2> QED BY <1>3, <1>4, <2>1, ComparedMoves
<1> QED BY <1>6, <1>8, <1>9, <1>10, <1>11 DEF Inductive

\* A round that begins has a first piece.
LEMMA RoundPieces ==
  ASSUME NEW due \in BOOLEAN, due \/ dirty \/ pending
  PROVE  Round(due) \in Seq(Pieces) /\ Round(due) # <<>>
<1> DEFINE signed == IF pending THEN <<"title", "force", "sync">> ELSE <<>>
           synced == IF tick = 0 THEN <<"sync", "force">> ELSE <<"publish">>
           beaten == IF due THEN <<"follow", "title">> \o synced
                     ELSE IF dirty THEN <<"publish">> ELSE <<>>
<1>1. Round(due) = signed \o beaten
  BY DEF Round
<1>2. /\ <<"follow", "title">> \in Seq(Pieces) /\ <<"publish">> \in Seq(Pieces) /\ <<>> \in Seq(Pieces)
      /\ <<"sync", "force">> \in Seq(Pieces) /\ <<"title", "force", "sync">> \in Seq(Pieces)
      /\ Len(<<"follow", "title">>) = 2 /\ Len(<<"publish">>) = 1 /\ Len(<<"title", "force", "sync">>) = 3
  BY DEF Pieces
<1>3. signed \in Seq(Pieces) /\ (pending => Len(signed) = 3)
  <2>1. pending => signed = <<"title", "force", "sync">>
    OBVIOUS
  <2>2. ~pending => signed = <<>>
    OBVIOUS
  <2> HIDE DEF signed
  <2> QED BY <1>2, <2>1, <2>2
<1>4. synced \in Seq(Pieces)
  BY <1>2
<1> HIDE DEF signed, synced
<1>5. beaten \in Seq(Pieces) /\ (due \/ dirty => Len(beaten) >= 1)
  <2>1. CASE due
    <3>1. beaten = <<"follow", "title">> \o synced
      BY <2>1
    <3>2. <<"follow", "title">> \o synced \in Seq(Pieces)
      BY <1>4, <1>2
    <3>3. Len(<<"follow", "title">> \o synced) = 2 + Len(synced) /\ Len(synced) \in Nat
      BY <1>4, <1>2
    <3>4. Len(<<"follow", "title">> \o synced) >= 1
      BY <3>3
    <3> QED BY <3>1, <3>2, <3>4
  <2>2. CASE ~due /\ dirty
    <3>1. beaten = <<"publish">>
      BY <2>2
    <3> QED BY <1>2, <3>1
  <2>3. CASE ~due /\ ~dirty
    <3>1. beaten = <<>>
      BY <2>3
    <3> QED BY <1>2, <2>3, <3>1
  <2> QED BY <2>1, <2>2, <2>3
<1> HIDE DEF beaten
<1>6. signed \o beaten \in Seq(Pieces)
  BY <1>3, <1>5
<1>7. Len(signed \o beaten) = Len(signed) + Len(beaten) /\ Len(signed) \in Nat /\ Len(beaten) \in Nat
  BY <1>3, <1>5
<1>8. Len(signed) >= 1 \/ Len(beaten) >= 1
  <2>1. CASE pending
    <3>1. Len(signed) = 3
      BY <1>3, <2>1, Zenon
    <3> QED BY <3>1
  <2>2. CASE ~pending
    BY <1>5, <2>2
  <2> QED BY <2>1, <2>2
<1>9. Len(signed \o beaten) # 0
  BY <1>7, <1>8
<1>10. signed \o beaten # <<>>
  BY <1>9
<1> QED BY <1>1, <1>6, <1>10

\* The heartbeat moves, from where it holds no gate.
LEMMA BeatMoves ==
  ASSUME Inductive, NEW pc \in PCs, at' = [at EXCEPT ![Beat] = pc], pc \notin {"goodbye", "switch"},
         ~Publishes(Beat), at[Beat] # "off", gate' = gate, running' = running, seen' = seen
  PROVE  Placed' /\ Stopped' /\ Held' /\ Compared'
<1>1. Beat \in Threads /\ Beat # Host /\ pc \in Places(Beat)
  BY ThreadsDiffer DEF Places
<1>2. Placed' /\ Stopped' /\ Held'
  BY <1>1, ThreadMoves
<1>3. at'[Beat] = pc
  BY <1>1 DEF Inductive, Types, PlaceType
<1>4. Compared'
  BY <1>1, <1>3, ComparedMoves
<1> QED BY <1>2, <1>4

\* Wake keeps the inductive invariant.
LEMMA WakeKeeps ==
  ASSUME Inductive, NEW due \in BOOLEAN, Wake(due)
  PROVE  Inductive'
<1> DEFINE no == FALSE
<1>1. /\ at[Beat] = "wait" /\ (due \/ ~running \/ dirty \/ pending)
      /\ dirty' = no /\ pending' = no
      /\ tick' = IF running /\ due THEN (tick + 1) % InvitationEveryNthBeat ELSE tick
      /\ UNCHANGED <<who, game, running, starts, published, gate, seen, ensuring, shown>>
  BY DEF Wake
<1>2. no \in BOOLEAN
  OBVIOUS
<1> HIDE DEF no
<1>3. FlagType'
  BY <1>1, <1>2 DEF FlagType
<1>4. BeatType'
  <2>1. tick \in Nat /\ (tick + 1) % InvitationEveryNthBeat \in 0..(InvitationEveryNthBeat - 1)
    BY Bounds DEF Inductive, Types, BeatType
  <2> QED BY <1>1, <2>1 DEF Inductive, Types, BeatType
<1>5. ~Publishes(Beat) /\ at[Beat] # "off" /\ Beat \in Threads
  BY <1>1, ThreadsDiffer DEF Publishes
<1>6. at \in [Threads -> PCs] /\ work \in Seq(Pieces)
  BY DEF Inductive, Types, PlaceType
<1>7. CASE running
  <2>1. at' = [at EXCEPT ![Beat] = Head(Round(due))] /\ work' = Tail(Round(due))
    BY <1>7 DEF Wake
  <2>2. Round(due) \in Seq(Pieces) /\ Round(due) # <<>>
    BY <1>1, <1>7, RoundPieces
  <2>3. Head(Round(due)) \in Pieces /\ Tail(Round(due)) \in Seq(Pieces)
    BY <2>2
  <2> DEFINE pc == Head(Round(due))
  <2>4. pc \in PCs /\ pc \notin {"goodbye", "switch"}
    BY <2>3 DEF Pieces, PCs
  <2>5. at' = [at EXCEPT ![Beat] = pc]
    BY <2>1
  <2> HIDE DEF pc
  <2>6. PlaceType'
    BY <1>6, <2>1, <2>3, <2>4, <2>5 DEF PlaceType
  <2>7. Types'
    BY <1>1, <1>3, <1>4, <2>6, Stay DEF Inductive, Types
  <2>8. Placed' /\ Stopped' /\ Held' /\ Compared'
    BY <1>1, <1>5, <2>4, <2>5, BeatMoves
  <2> QED BY <2>7, <2>8 DEF Inductive
<1>8. CASE ~running
  <2>1. Goes(Beat, "off")
    BY <1>8 DEF Wake
  <2>2. "off" \in PCs
    BY DEF PCs
  <2>3. PlaceType' /\ at' = [at EXCEPT ![Beat] = "off"]
    BY <1>5, <2>1, <2>2, GoesMoves
  <2>4. Types'
    BY <1>1, <1>3, <1>4, <2>3, Stay DEF Inductive, Types
  <2>5. Placed' /\ Stopped' /\ Held' /\ Compared'
    BY <1>1, <1>5, <2>2, <2>3, BeatMoves
  <2> QED BY <2>4, <2>5 DEF Inductive
<1> QED BY <1>7, <1>8

\* The rest of a round.
LEMMA BeatFinishes ==
  ASSUME Inductive, Finish(Beat), ~Publishes(Beat), at[Beat] # "off",
         gate' = gate, running' = running, seen' = seen
  PROVE  PlaceType' /\ Placed' /\ Stopped' /\ Held' /\ Compared'
<1> DEFINE pc == at'[Beat]
<1>1. PlaceType' /\ at' = [at EXCEPT ![Beat] = pc] /\ pc \notin {"goodbye", "switch"}
  BY ThreadsDiffer, FinishMoves
<1>2. pc \in PCs
  BY <1>1, ThreadsDiffer DEF PlaceType
<1> HIDE DEF pc
<1> QED BY <1>1, <1>2, BeatMoves

\* FollowTitle keeps the inductive invariant.
LEMMA FollowTitleKeeps ==
  ASSUME Inductive, FollowTitle
  PROVE  Inductive'
<1>1. /\ at[Beat] = "title" /\ app' = (IF names THEN app ELSE title) /\ Finish(Beat)
      /\ UNCHANGED <<who, names, title, declared, changes, flags, beat, published, gate, seen, ensuring, shown>>
  BY DEF FollowTitle
<1>2. PlaceType' /\ Placed' /\ Stopped' /\ Held' /\ Compared'
  BY <1>1, BeatFinishes DEF Publishes, beat
<1>3. GameType'
  BY <1>1 DEF Inductive, Types, GameType
<1>4. Types'
  BY <1>1, <1>2, <1>3, Stay DEF Inductive, Types
<1> QED BY <1>2, <1>4 DEF Inductive

\* BackgroundSync keeps the inductive invariant.
LEMMA BackgroundSyncKeeps ==
  ASSUME Inductive, BackgroundSync
  PROVE  Inductive'
<1> DEFINE e == user # None
<1>1. /\ at[Beat] = "sync" /\ (Finish(Beat) \/ Goes(Beat, "follow"))
      /\ ensuring' = [ensuring EXCEPT ![Beat] = e]
      /\ UNCHANGED <<who, game, beat, flags, published, gate, seen, shown>>
  BY DEF BackgroundSync
<1>2. e \in BOOLEAN
  BY Zenon
<1> HIDE DEF e
<1>3. PlaceType' /\ Placed' /\ Stopped' /\ Held' /\ Compared'
  <2>1. CASE Finish(Beat)
    BY <1>1, <2>1, BeatFinishes DEF Publishes, beat
  <2>2. CASE Goes(Beat, "follow")
    <3>1. "follow" \in PCs
      BY DEF PCs
    <3>2. PlaceType' /\ at' = [at EXCEPT ![Beat] = "follow"]
      BY <2>2, <3>1, ThreadsDiffer, GoesMoves
    <3> QED BY <1>1, <3>1, <3>2, BeatMoves DEF Publishes, beat
  <2> QED BY <1>1, <2>1, <2>2
<1>4. FrameType'
  BY <1>1, <1>2 DEF Inductive, Types, FrameType
<1>5. Types'
  BY <1>1, <1>3, <1>4, Stay DEF Inductive, Types
<1> QED BY <1>3, <1>5 DEF Inductive

\* Throws keeps the inductive invariant.
LEMMA ThrowsKeeps ==
  ASSUME Inductive, Throws
  PROVE  Inductive'
<1>1. /\ at[Beat] \in {"title", "sync"} /\ changes < MaxChanges
      /\ at' = [at EXCEPT ![Beat] = "wait"] /\ work' = <<>> /\ changes' = changes + 1
      /\ UNCHANGED <<who, names, title, app, declared, beat, flags, published, gate, seen, ensuring, shown>>
  BY DEF Throws
<1>2. "wait" \in PCs
  BY DEF PCs
<1>3. Placed' /\ Stopped' /\ Held' /\ Compared'
  BY <1>1, <1>2, BeatMoves DEF Publishes, beat
<1>4. GameType'
  BY <1>1, Bounds DEF Inductive, Types, GameType
<1>5. PlaceType'
  <2>1. at' \in [Threads -> PCs]
    BY <1>1, <1>2 DEF Inductive, Types, PlaceType
  <2>2. work' \in Seq(Pieces)
    BY <1>1
  <2> QED BY <2>1, <2>2 DEF PlaceType
<1>6. Types'
  BY <1>1, <1>4, <1>5, Stay DEF Inductive, Types
<1> QED BY <1>3, <1>6 DEF Inductive

\* The host, which holds no gate, goes on to the join or the farewell.
LEMMA HostMoves ==
  ASSUME Inductive, at[Host] \in {"idle", "join"}, NEW pc \in {"join", "farewell"}, Goes(Host, pc),
         gate' = gate, seen' = seen, ~running' /\ pc = "farewell" => at[Beat] = "off"
  PROVE  PlaceType' /\ Placed' /\ Stopped' /\ Held' /\ Compared'
<1>1. pc \in PCs /\ Host \in Threads /\ pc \in Places(Host)
  BY ThreadsDiffer DEF PCs, Places
<1>2. PlaceType' /\ at' = [at EXCEPT ![Host] = pc] /\ at'[Host] = pc
  BY <1>1, GoesMoves
<1>3. \A u \in Threads \ {Host} : at'[u] = at[u]
  BY <1>2 DEF Inductive, Types, PlaceType
<1>4. Placed'
  BY <1>1, <1>2, <1>3 DEF Inductive, Placed
<1>5. Stopped'
  BY <1>2, <1>3, ThreadsDiffer DEF Stopped
<1>6. Held'
  <2> SUFFICES ASSUME gate.by # None
               PROVE  Publishes(gate.by)' /\ (at'[gate.by] \in {"goodbye", "farewell"} => gate.body = Inactive)
    BY DEF Held
  <2>1. Publishes(gate.by) /\ (at[gate.by] \in {"goodbye", "farewell"} => gate.body = Inactive)
    BY DEF Inductive, Held
  <2>2. gate.by \in Threads \ {Host}
    BY <2>1 DEF Publishes, Inductive, Types, GateType, Gate
  <2>3. at'[gate.by] = at[gate.by]
    BY <1>3, <2>2
  <2> QED BY <2>1, <2>3 DEF Publishes
<1>7. Compared'
  BY <1>1, <1>2, ComparedMoves
<1> QED BY <1>2, <1>4, <1>5, <1>6, <1>7

\* GoOffline keeps the inductive invariant.
LEMMA GoOfflineKeeps ==
  ASSUME Inductive, GoOffline
  PROVE  Inductive'
<1> DEFINE no == FALSE
           pc == IF running THEN "join" ELSE "farewell"
<1>1. /\ at[Host] = "idle" /\ running' = no /\ Goes(Host, pc)
      /\ UNCHANGED <<who, game, flags, tick, starts, published, gate, seen, ensuring, shown>>
  BY DEF GoOffline
<1>2. no \in BOOLEAN /\ pc \in {"join", "farewell"} /\ (pc = "farewell" => ~running)
  OBVIOUS
<1> HIDE DEF no, pc
<1>3. pc = "farewell" => at[Beat] = "off"
  BY <1>1, <1>2 DEF Inductive, Stopped
<1>4. PlaceType' /\ Placed' /\ Stopped' /\ Held' /\ Compared'
  BY <1>1, <1>2, <1>3, HostMoves
<1>5. BeatType'
  BY <1>1, <1>2 DEF Inductive, Types, BeatType
<1>6. Types'
  BY <1>1, <1>4, <1>5, Stay DEF Inductive, Types
<1> QED BY <1>4, <1>6 DEF Inductive

\* Join keeps the inductive invariant.
LEMMA JoinKeeps ==
  ASSUME Inductive, Join
  PROVE  Inductive'
<1>1. /\ at[Host] = "join" /\ at[Beat] = "off" /\ Goes(Host, "farewell")
      /\ UNCHANGED <<who, game, beat, flags, published, gate, seen, ensuring, shown>>
  BY DEF Join
<1>2. PlaceType' /\ Placed' /\ Stopped' /\ Held' /\ Compared'
  BY <1>1, HostMoves
<1>3. Types'
  BY <1>1, <1>2, Stay DEF Inductive, Types
<1> QED BY <1>2, <1>3 DEF Inductive

-----------------------------------------------------------------------------
(* The inductive invariant, and the theorems.                              *)

LEMMA InductiveInit == Init => Inductive
<1> SUFFICES ASSUME Init
             PROVE  Inductive
  OBVIOUS
<1>1. at = [t \in Threads |-> IF t = Beat THEN "off" ELSE "idle"] /\ work = <<>>
  BY DEF Init
<1>2. PlaceType
  BY <1>1 DEF PlaceType, PCs
<1>3. Placed
  BY <1>1, ThreadsDiffer DEF Placed, Places, PCs
<1>4. Stopped
  BY <1>1, ThreadsDiffer DEF Stopped
<1>5. gate = Free
  BY DEF Init
<1>6. GateType /\ Held
  BY <1>5, FreeType DEF GateType, Held
<1>7. Compared
  BY <1>1 DEF Compared
<1>8. WhoType /\ ServerType
  BY PresenceAssumption, Bounds DEF Init, WhoType, ServerType
<1>9. FlagType
  <2>1. dirty \in BOOLEAN
    BY Zenon DEF Init
  <2>2. pending \in BOOLEAN
    BY Zenon DEF Init
  <2> QED BY <2>1, <2>2 DEF FlagType
<1>10. BeatType
  <2>1. running \in BOOLEAN
    BY Zenon DEF Init
  <2>2. tick = 0 /\ starts = 0
    BY DEF Init
  <2> QED BY <2>1, <2>2, Bounds DEF BeatType
<1>11. FrameType
  <2> DEFINE no == FALSE
  <2>1. ensuring = [t \in Threads |-> no] /\ seen = [t \in Threads |-> None] /\ no \in BOOLEAN
    BY DEF Init
  <2> HIDE DEF no
  <2> QED BY <2>1 DEF FrameType
<1>12. GameType
  <2>1. /\ names \in BOOLEAN /\ title \in Titles \cup {None} /\ app = (IF names THEN title ELSE None)
        /\ declared = [p \in Profiles |-> Inactive] /\ changes = 0
    BY DEF Init
  <2> QED BY <2>1, Bodies, Bounds DEF GameType
<1> QED BY <1>2, <1>3, <1>4, <1>6, <1>7, <1>8, <1>9, <1>10, <1>11, <1>12 DEF Inductive, Types

\* Every step of the module keeps the inductive invariant.
LEMMA InductiveStep == Inductive /\ [Next]_vars => Inductive'
<1> SUFFICES ASSUME Inductive, [Next]_vars
             PROVE  Inductive'
  OBVIOUS
<1>1. ASSUME NEW p \in Profiles, SwitchProfile(p) \/ \E open \in BOOLEAN : Update(p, open)
      PROVE  Inductive'
  BY <1>1, SwitchProfileKeeps, UpdateKeeps
<1>2. ASSUME NEW x \in Titles \cup {None}, SetRunningApplication(x) \/ TitleChanges(x)
      PROVE  Inductive'
  BY <1>2, SetRunningApplicationKeeps, TitleChangesKeeps
<1>3. ASSUME NEW t \in Threads, Publish(t) \/ Follow(t) \/ Call(t)
      PROVE  Inductive'
  <2>1. CASE Publish(t)
    BY <2>1, SkipKeeps, EnterKeeps, SpeakKeeps, AnswersKeep DEF Publish
  <2>2. CASE Follow(t)
    BY <2>2, CompareKeeps, SwitchKeeps, LoginsKeep DEF Follow
  <2>3. CASE Call(t)
    BY <2>3, CallKeeps
  <2> QED BY <1>3, <2>1, <2>2, <2>3
<1>4. CASE StartHeartbeat
  BY <1>4, StartHeartbeatKeeps
<1>5. CASE Heartbeat
  BY <1>5, WakeKeeps, ThrowsKeeps, FollowTitleKeeps, BackgroundSyncKeeps DEF Heartbeat
<1>6. CASE GoOffline
  BY <1>6, GoOfflineKeeps
<1>7. CASE Join
  BY <1>7, JoinKeeps
<1>8. CASE UNCHANGED vars
  <2>1. /\ UNCHANGED <<who, game, beat, flags, published, shown, gate, at, work, seen, ensuring>>
        /\ running' = running
    BY <1>8 DEF vars, frames, beat
  <2>2. Types'
    BY <2>1, Stay DEF Inductive, Types
  <2> QED BY <2>1, <2>2, NobodyMoves DEF Inductive
<1> QED BY <1>1, <1>2, <1>3, <1>4, <1>5, <1>6, <1>7, <1>8 DEF Next

\* So it holds in every reachable state.
LEMMA InductiveHolds == Spec => []Inductive
BY InductiveInit, InductiveStep, PTL DEF Spec

\* Titles, declarations, the gate, the heartbeat's round and the threads' places keep their types,
\* and a request on its way speaks for somebody (SendPresence).
THEOREM TypeCorrect == Spec => []TypeOK
<1>1. Inductive => TypeOK
  <2> SUFFICES ASSUME Inductive
               PROVE  TypeOK
    OBVIOUS
  <2>1. work \in Seq(PCs)
    <3>1. work \in Seq(Pieces) /\ Pieces \subseteq PCs
      BY DEF Inductive, Types, PlaceType, Pieces, PCs
    <3> QED BY <3>1
  <2>2. {dirty, pending, running} \subseteq BOOLEAN
    BY Zenon DEF Inductive, Types, FlagType, BeatType
  <2>3. {title, app} \subseteq Titles \cup {None}
    BY DEF Inductive, Types, GameType
  <2>4. /\ active \in Profiles /\ profile \in Profiles /\ user \in Profiles \cup {None}
        /\ names \in BOOLEAN /\ declared \in [Profiles -> Body]
        /\ tick \in 0..(InvitationEveryNthBeat - 1) /\ published \in Body \cup {None}
        /\ at \in [Threads -> PCs] /\ seen \in [Threads -> Profiles \cup {None}]
        /\ ensuring \in [Threads -> BOOLEAN] /\ shown \in [Profiles -> Body \cup {None}]
        /\ changes \in 0..MaxChanges /\ switches \in 0..MaxSwitches /\ starts \in 0..MaxStarts
    BY DEF Inductive, Types, WhoType, GameType, BeatType, ServerType, PlaceType, FrameType
  <2>5. gate \in Gate /\ (gate.sent => gate.speaker # None)
    BY DEF Inductive, Types, GateType
  <2> QED BY <2>1, <2>2, <2>3, <2>4, <2>5, Zenon DEF TypeOK, Gate
<1> QED BY <1>1, InductiveHolds, PTL

\* Once GoOffline has taken leave, every later step leaves what friends are shown as it was or
\* says INACTIVE: the heartbeat it joined is over, and a caller of Ensure only ever says goodbye.
THEOREM GoodbyeIsLast == Spec => GoneStaysGone
<1>1. Inductive /\ [Next]_vars =>
          [Gone /\ Gone' => \A p \in Profiles : shown'[p] \in {shown[p], Inactive}]_vars
  <2> SUFFICES ASSUME Inductive, [Next]_vars, Gone, NEW p \in Profiles
               PROVE  shown'[p] \in {shown[p], Inactive}
    OBVIOUS
  <2>1. at[Host] = "idle" /\ at[Beat] = "off"
    BY DEF Gone, Inductive, Stopped
  <2>2. CASE shown' = shown
    BY <2>2
  <2>3. ASSUME NEW t \in Threads, gate.by = t, shown' = [shown EXCEPT ![gate.speaker] = gate.body]
        PROVE  shown'[p] \in {shown[p], Inactive}
    <3>1. Publishes(t) /\ (at[t] \in {"goodbye", "farewell"} => gate.body = Inactive)
      BY <2>3, ThreadsDiffer DEF Inductive, Held
    <3>2. t \in Callers
      BY <2>1, <3>1, ThreadsDiffer DEF Publishes
    <3>3. gate.body = Inactive
      BY <3>1, <3>2, PublisherPlace
    <3>4. shown \in [Profiles -> Body \cup {None}]
      BY DEF Inductive, Types, ServerType
    <3> QED BY <2>3, <3>3, <3>4
  <2>4. shown' = shown \/ \E t \in Threads : gate.by = t /\ shown' = [shown EXCEPT ![gate.speaker] = gate.body]
    <3>1. CASE UNCHANGED vars
      BY <3>1 DEF vars
    <3>2. ASSUME NEW q \in Profiles, SwitchProfile(q) \/ \E open \in BOOLEAN : Update(q, open)
          PROVE  shown' = shown
      BY <3>2 DEF SwitchProfile, Update
    <3>3. ASSUME NEW x \in Titles \cup {None}, SetRunningApplication(x) \/ TitleChanges(x)
          PROVE  shown' = shown
      BY <3>3 DEF SetRunningApplication, TitleChanges
    <3>4. ASSUME NEW t \in Threads, Publish(t)
          PROVE  shown' = shown \/ (gate.by = t /\ shown' = [shown EXCEPT ![gate.speaker] = gate.body])
      BY <3>4 DEF Publish, Skip, Enter, Speak, Accepted, AnswerLost, NotSent
    <3>5. ASSUME NEW t \in Threads, Follow(t) \/ Call(t)
          PROVE  shown' = shown
      BY <3>5 DEF Follow, Compare, Switch, StillFresh, Login, LoginFails, Call
    <3>6. CASE StartHeartbeat \/ Heartbeat \/ GoOffline \/ Join
      BY <3>6 DEF StartHeartbeat, Heartbeat, Wake, Throws, FollowTitle, BackgroundSync, GoOffline, Join
    <3> QED BY <3>1, <3>2, <3>3, <3>4, <3>5, <3>6 DEF Next
  <2> QED BY <2>2, <2>3, <2>4
<1> QED BY <1>1, InductiveHolds, PTL DEF Spec, GoneStaysGone

=============================================================================
