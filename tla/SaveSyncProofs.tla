--------------------------- MODULE SaveSyncProofs ---------------------------
(***************************************************************************)
(* Cloud saves, for any number of launches, clicks, uploads from elsewhere *)
(* and failures: the types, that the save implements AtomicSaves, that only *)
(* the step that throws an earlier backup away can lose a play, and that a *)
(* launch never replaces a save it shares no history with.                 *)
(***************************************************************************)
EXTENDS SaveSync, TLAPS, WellFoundedInduction

\* The calls that restore, those of them that keep a backup, and the uploads.
Pulls   == {"launch", "pull", "force", "download"}
Checked == {"launch", "download"}
Uploads == {"push", "upload", "captured"}

Ops  == Pulls \cup Uploads \cup {"none", "delete"}
Ats  == {"idle", "draw", "ask", "answer", "version", "decide", "backup", "copy", "stage", "extract", "aside",
         "inplace", "clear", "mark", "base", "put", "stored", "delete"}
Zips == Version \cup Copy \cup (SUBSET Nat) \cup {None}
Call == [op : Ops, at : Ats, zip : Zips, number : Nat]

\* What a call has in hand where it is, with so many versions stored.
CallOK(c, length) ==
    /\ c.number <= length
    /\ c.at \in {"idle", "draw"} => c.op = "none"
    /\ c.at \in {"ask", "aside", "inplace", "clear"} => c.op \in Pulls
    /\ c.at \in {"answer", "stage", "extract"} => c.op \in Pulls /\ c.zip \in Version
    /\ c.at \in {"version", "backup", "copy"} => c.op \in Checked /\ c.zip \in Version
    /\ c.at = "decide" => c.op = "launch" /\ c.zip \in Version
    /\ c.at = "mark" => c.op \in Checked \cup {"push", "upload"}
    /\ c.at = "base" => c.op = "push" /\ c.zip \in Copy
    /\ c.at = "put" => c.op \in Uploads /\ c.zip \in Copy
    /\ c.at = "stored" => c.op \in Uploads
    /\ c.at = "delete" => c.op = "delete" /\ c.zip \in SUBSET Nat

FilesShape ==
    /\ dir \in [Dirs -> Copy \cup {None}] /\ stager \in Threads \cup {None}
    /\ touched \in BOOLEAN /\ exposed \in {"no", "met", "anew", "partial"}

CountShape ==
    /\ cloud \in Seq(Version) /\ marker \in Nat /\ marker <= Len(cloud) /\ memory \in Nat /\ memory <= Len(cloud)
    /\ spent \in [Events -> Nat] /\ \A e \in Events : spent[e] <= Bound[e]

HostShape ==
    /\ bearer \in BOOLEAN /\ host \in {"marker", "earlier"} /\ title \in {"off", "pulling", "ready", "running"}
    /\ title # "off" => spent["launch"] # 0

PageShape ==
    drawn # None => drawn.newest \in Nat /\ drawn.newest <= Len(cloud) /\ drawn.versions \in SUBSET Nat

CallShape ==
    /\ call \in [Threads -> Call]
    /\ \A t \in Threads : CallOK(call[t], Len(cloud))
    /\ \A t \in Threads : call[t].op \in {"launch", "pull", "force"} => t = Launch
    /\ call[Launch].op \in {"pull", "force"} => title = "pulling"

Shape == FilesShape /\ CountShape /\ HostShape /\ PageShape /\ CallShape

\* Every copy the server ever took.
Taken == {cloud[n].copy.of : n \in DOMAIN cloud}

\* The save in effect is whole, and so is every version.
AllWhole == InEffect.whole /\ \A n \in DOMAIN cloud : cloud[n].copy.whole

\* One restore at a time, and none under a running title.
Alone ==
    /\ \A t, u \in Threads : Restoring(t) /\ Restoring(u) => t = u
    /\ \A t \in Threads : Restoring(t) => title # "running"

\* What came from the server, or is on its way there, is whole.
ZipSafe(t) ==
    /\ call[t].at \in {"answer", "version", "decide", "backup", "copy", "stage", "extract"} =>
          call[t].zip.copy.whole /\ call[t].zip.copy.of \in Taken
    /\ call[t].at \in {"base", "put"} => call[t].zip.whole

\* The folders, at each step of a restore.
FilesSafe(t) ==
    Restoring(t) =>
        /\ call[t].at = "copy" => dir["save"] # None /\ dir["backup"] = Torn(dir["save"].of)
        /\ call[t].at \in {"stage", "extract", "aside"} /\ call[t].op \in Checked =>
              ~HasLocalContent \/ dir["backup"] = dir["save"]
        /\ call[t].at = "extract" => stager = t
        /\ call[t].at \in {"aside", "inplace"} =>
              dir["new"] = None \/ (dir["new"].whole /\ dir["new"].of \in Taken)
        /\ call[t].at = "inplace" => dir["save"] = None
        /\ call[t].at = "inplace" /\ call[t].op \in Checked =>
              dir["old"] \in {None, Whole({})} \/ dir["backup"] = dir["old"]
        /\ call[t].at = "clear" => dir["save"] # None

\* A launch restores over a save only if a marker ties it to the cloud.
Tied(t) ==
    call[t].op = "launch" =>
        /\ call[t].at \in {"backup", "copy", "stage", "extract", "aside"} /\ HasLocalContent => marker # 0
        /\ call[t].at = "inplace" => dir["old"] \in {None, Whole({})} \/ marker # 0

\* A play that a version has.
InCloud(p) == \E n \in DOMAIN cloud : cloud[n].copy.whole /\ p \in cloud[n].copy.of

\* An unforced Pull replaces nothing the server does not have, or its swap will meet
\* the copy that was set aside.
PullSafe ==
    call[Launch].op = "pull" =>
        \/ Aside /\ \A t \in Threads : call[t].at # "inplace"
        \/ \A p \in InEffect.of : InCloud(p)

Safe == AllWhole /\ Alone /\ PullSafe /\ \A t \in Threads : ZipSafe(t) /\ FilesSafe(t) /\ Tied(t)

Inductive == Shape /\ (exposed = "no" => Safe)
-----------------------------------------------------------------------------
(* Operators of the model.                                                 *)

\* A set of versions has a newest one.
LEMMA GreatestNumber ==
  ASSUME NEW m \in Nat, NEW S \in SUBSET (1..m), S # {}
  PROVE  \E x \in S : \A y \in S : y <= x
<1> DEFINE R == OpToRel(<, Nat)
           D == {m - y : y \in S}
<1>1. IsWellFoundedOn(R, Nat)
  BY NatLessThanWellFounded
<1>2. D \in SUBSET Nat /\ D # {}
  <2>1. ASSUME NEW y \in S PROVE m - y \in Nat
    OBVIOUS
  <2>2. PICK y \in S : TRUE
    OBVIOUS
  <2>3. m - y \in D
    OBVIOUS
  <2>4. ASSUME NEW d \in D PROVE d \in Nat
    BY <2>1
  <2> QED BY <2>3, <2>4
<1> HIDE DEF R
<1>3. PICK d \in D : \A e \in D : ~(<<e, d>> \in R)
  <2> HIDE DEF D
  <2> QED BY <1>1, <1>2, WFMin, Zenon
<1>4. PICK x \in S : d = m - x
  OBVIOUS
<1>5. ASSUME NEW y \in S PROVE y <= x
  <2>1. <<m - y, d>> \notin R
    BY <1>3
  <2>2. m - y < d => <<m - y, d>> \in R
    BY <1>2 DEF R, OpToRel
  <2> QED BY <2>1, <2>2, <1>4
<1> QED BY <1>5

\* Newest is a version of the list, or 0.
LEMMA NewestIsLeft ==
  ASSUME CountShape
  PROVE  /\ Left \subseteq 1..Len(cloud) /\ Len(cloud) \in Nat
         /\ Newest \in Nat /\ Newest <= Len(cloud)
         /\ Newest # 0 => Newest \in DOMAIN cloud /\ cloud[Newest] \in Version
<1>1. DOMAIN cloud = 1..Len(cloud) /\ Len(cloud) \in Nat /\ cloud \in [1..Len(cloud) -> Version]
  BY DEF CountShape
<1>2. Left \in SUBSET (1..Len(cloud))
  BY <1>1 DEF Left
<1>3. CASE Left = {}
  BY <1>1, <1>2, <1>3 DEF Newest
<1>4. CASE Left # {}
  <2>1. \E x \in Left : \A y \in Left : y <= x
    BY <1>1, <1>2, <1>4, GreatestNumber
  <2>2. Newest \in Left
    BY <2>1, <1>4 DEF Newest
  <2> QED BY <2>2, <1>1, <1>2
<1> QED BY <1>3, <1>4

\* A thread's call changes, and no other.
Moves(t) == call' = [call EXCEPT ![t] = call'[t]]

\* A call that goes on to another place keeps its operation, its archive and its number.
LEMMA GoesMoves ==
  ASSUME CallShape, NEW t \in Threads, NEW at \in Ats, Goes(t, at)
  PROVE  /\ Moves(t) /\ call'[t] \in Call /\ call'[t].at = at
         /\ call'[t].op = call[t].op /\ call'[t].zip = call[t].zip /\ call'[t].number = call[t].number
  BY DEF CallShape, Goes, Moves, Call

\* A call that returns leaves its thread with nothing in hand.
LEMMA ReturnsMoves ==
  ASSUME CallShape, NEW t \in Threads, Returns(t)
  PROVE  /\ Moves(t) /\ call'[t] \in Call /\ call'[t].at \in {"idle", "draw"}
         /\ call'[t].op = "none" /\ call'[t].number = 0
<1> DEFINE at == IF t = Page /\ spent["click"] < Bound["click"] THEN "draw" ELSE "idle"
<1>1. call' = [call EXCEPT ![t] = [NoCall EXCEPT !.at = at]]
  BY Zenon DEF Returns
<1>2. at \in {"idle", "draw"}
  OBVIOUS
<1> HIDE DEF at
<1>3. call'[t] = [op |-> "none", at |-> at, zip |-> None, number |-> 0]
  BY <1>1 DEF CallShape, NoCall
<1>4. call'[t] \in Call
  <2>1. "none" \in Ops /\ at \in Ats
    BY <1>2 DEF Ops, Ats
  <2>2. None \in Zips
    BY Zenon DEF Zips
  <2> QED BY <1>3, <2>1, <2>2 DEF Call
<1>5. Moves(t)
  BY <1>1, <1>3 DEF CallShape, Moves
<1> QED BY <1>2, <1>3, <1>4, <1>5

\* The shape of the calls after one of them changed.
LEMMA CallKeeps ==
  ASSUME CallShape, CountShape, cloud' \in Seq(Version), Len(cloud) <= Len(cloud'),
         NEW t \in Threads, Moves(t), call'[t] \in Call, CallOK(call'[t], Len(cloud')),
         call'[t].op \in {"launch", "pull", "force"} => t = Launch,
         t # Launch /\ title = "pulling" => title' = "pulling",
         t = Launch /\ call'[t].op \in {"pull", "force"} => title' = "pulling"
  PROVE  CallShape'
<1>1. call' \in [Threads -> Call] /\ \A u \in Threads \ {t} : call'[u] = call[u]
  BY DEF CallShape, Moves
<1>2. ASSUME NEW u \in Threads PROVE CallOK(call'[u], Len(cloud'))
  <2>1. CASE u = t
    BY <2>1
  <2>2. CASE u # t
    <3>1. call[u].number \in Nat /\ Len(cloud) \in Nat /\ Len(cloud') \in Nat
      BY DEF CallShape, CountShape, Call
    <3> QED BY <2>2, <3>1, <1>1 DEF CallShape, CallOK
  <2> QED BY <2>1, <2>2
<1>3. ASSUME NEW u \in Threads, call'[u].op \in {"launch", "pull", "force"} PROVE u = Launch
  BY <1>1, <1>3 DEF CallShape
<1>4. call'[Launch].op \in {"pull", "force"} => title' = "pulling"
  BY <1>1 DEF CallShape, Threads
<1> QED BY <1>1, <1>2, <1>3, <1>4 DEF CallShape

\* Copies are made of plays.
LEMMA CopyParts ==
  ASSUME NEW c \in Copy
  PROVE  /\ c = [of |-> c.of, whole |-> c.whole]
         /\ c.of \in SUBSET Plays /\ c.whole \in BOOLEAN
         /\ c # None
  BY NoneAssumption DEF Copy

\* A whole and a torn copy of a set of plays are copies.
LEMMA CopiesMade ==
  ASSUME NEW plays \in SUBSET Plays
  PROVE  /\ Whole(plays) \in Copy /\ Whole(plays).of = plays /\ Whole(plays).whole
         /\ Torn(plays) \in Copy /\ Torn(plays).of = plays /\ ~Torn(plays).whole
  BY DEF Copy, Whole, Torn

\* The play that is going on.
LEMMA PlayIsOne ==
  ASSUME CountShape, HostShape, title # "off"
  PROVE  spent["launch"] \in Plays
<1>1. /\ spent["launch"] \in Nat /\ spent["launch"] <= Bound["launch"]
      /\ Bound["launch"] \in Nat /\ Bound["elsewhere"] \in Nat /\ spent["launch"] # 0
  BY BoundAssumption DEF CountShape, HostShape, Events
<1> QED BY <1>1 DEF Plays

-----------------------------------------------------------------------------
(* The types.                                                              *)

\* The steps that leave the folders alone.
Quiet(t) ==
    \/ LaunchPulls \/ Boot \/ Exit \/ SignIn \/ Elsewhere
    \/ Draw \/ Reload \/ ClickDownload \/ ClickUpload \/ ClickDelete \/ Delete
    \/ Ask(t) \/ Answer(t) \/ SaveVersion(t) \/ Decide(t) \/ Base(t) \/ Put(t) \/ Stored(t)
    \/ Rejected(t) \/ Unreachable(t)

\* The steps that change them.
Files(t) ==
    \/ Play \/ Backup(t) \/ Copied(t) \/ Stage(t) \/ Extract(t) \/ SetAside(t) \/ SwapIn(t) \/ Clear(t)
    \/ Mark(t) \/ Crash

\* A step leaves everything, or is one of a thread that leaves the files alone or moves them.
LEMMA NextCases ==
  ASSUME [Next]_vars
  PROVE  UNCHANGED vars \/ \E t \in Threads : Quiet(t) \/ Files(t)
<1>1. Launch \in Threads
  BY DEF Threads
<1> QED BY <1>1, Zenon DEF Next, Step, Quiet, Files

\* A quiet step leaves the files, and can only open the exposure that LaunchPulls notes.
LEMMA QuietFiles ==
  ASSUME NEW t \in Threads, Quiet(t)
  PROVE  /\ UNCHANGED files
         /\ exposed' \in {exposed, "met", "partial"} /\ (exposed # "no" => exposed' = exposed)
<1>1. CASE Exit
  BY <1>1 DEF Exit, ZipSave, LeavesOut, Exposes
<1>2. CASE LaunchPulls
  BY <1>2 DEF LaunchPulls, Exposes
<1>3. CASE Boot \/ Answer(t) \/ SaveVersion(t) \/ Decide(t)
  BY <1>3 DEF Boot, Answer, SaveVersion, Decide, Exposes
<1>4. CASE Draw \/ Reload \/ ClickDownload \/ ClickUpload \/ ClickDelete
  BY <1>4 DEF Draw, Reload, ClickDownload, ClickUpload, ClickDelete
<1>6. CASE Delete \/ SignIn
  BY <1>6, Zenon DEF Delete, SignIn
<1>7. CASE Elsewhere
  BY <1>7, Zenon DEF Elsewhere
<1>5. CASE Ask(t) \/ Base(t) \/ Put(t) \/ Stored(t) \/ Rejected(t) \/ Unreachable(t)
  BY <1>5 DEF Ask, Base, Put, Stored, Rejected, Unreachable
<1> QED BY <1>1, <1>2, <1>3, <1>4, <1>5, <1>6, <1>7 DEF Quiet

\* The folders keep their types.
LEMMA FilesStep ==
  ASSUME Shape, NEW t \in Threads, Quiet(t) \/ Files(t)
  PROVE  FilesShape'
<1>1. FilesShape /\ CountShape /\ HostShape /\ CallShape
  BY DEF Shape
<1>2. CASE Quiet(t)
  BY <1>1, <1>2, QuietFiles DEF FilesShape, files
<1>3. \A d \in Dirs : dir[d] # None => dir[d] \in Copy
  BY <1>1 DEF FilesShape
<1>4. "save" \in Dirs /\ "new" \in Dirs /\ "old" \in Dirs /\ "backup" \in Dirs
  BY DEF Dirs
<1>5. Whole({}) \in Copy /\ Torn({}) \in Copy
  BY CopiesMade
<1>6. dir["save"] # None => Torn(dir["save"].of) \in Copy
  BY <1>3, <1>4, CopyParts, CopiesMade
<1>7. CASE Play
  <2>1. spent["launch"] \in Plays
    BY <1>1, <1>7, PlayIsOne DEF Play
  <2> DEFINE before == IF dir["save"] = None THEN Whole({}) ELSE dir["save"]
  <2>2. before \in Copy
    BY <1>3, <1>4, <1>5
  <2>3. dir' = [dir EXCEPT !["save"] = [before EXCEPT !.of = @ \cup {spent["launch"]}]]
    BY <1>7 DEF Play, Folder
  <2> HIDE DEF before
  <2>4. [before EXCEPT !.of = @ \cup {spent["launch"]}] \in Copy
    BY <2>1, <2>2 DEF Copy
  <2>5. dir' \in [Dirs -> Copy \cup {None}]
    BY <1>1, <2>3, <2>4 DEF FilesShape
  <2> QED BY <1>1, <1>7, <2>5 DEF Play, FilesShape, Exposes
<1>8. CASE Backup(t)
  BY <1>1, <1>4, <1>5, <1>6, <1>8 DEF Backup, FilesShape, Exposes, HasLocalContent
<1>9. CASE Copied(t)
  <2>1. dir["save"] # None =>
           [dir["save"] EXCEPT !.whole = @ /\ dir["save"].of = dir["backup"].of] \in Copy
    BY <1>3, <1>4 DEF Copy
  <2> QED BY <1>1, <1>9, <2>1 DEF Copied, FilesShape
<1>10. CASE Stage(t)
  BY <1>1, <1>5, <1>10 DEF Stage, FilesShape
<1>11. CASE Extract(t)
  <2>1. call[t].zip.copy \in Copy
    BY <1>1, <1>11 DEF Extract, At, CallShape, CallOK, Version
  <2>2. [call[t].zip.copy EXCEPT !.whole = @ /\ stager = t] \in Copy
    BY <2>1 DEF Copy
  <2> QED BY <1>1, <1>11, <2>2 DEF Extract, FilesShape
<1>12. CASE SetAside(t)
  BY <1>1, <1>3, <1>4, <1>12 DEF SetAside, FilesShape, Exposes
<1>13. CASE SwapIn(t)
  BY <1>1, <1>3, <1>4, <1>13 DEF SwapIn, FilesShape
<1>14. CASE Clear(t) \/ Mark(t) \/ Crash
  BY <1>1, <1>14 DEF Clear, Mark, Crash, FilesShape
<1> QED
  BY <1>2, <1>7, <1>8, <1>9, <1>10, <1>11, <1>12, <1>13, <1>14 DEF Files

\* What a step spends stays within the bounds.
LEMMA SpendKeeps ==
  ASSUME CountShape, NEW e \in Events, Spend(e)
  PROVE  /\ spent' \in [Events -> Nat] /\ \A k \in Events : spent'[k] <= Bound[k]
         /\ spent'[e] = spent[e] + 1 /\ \A k \in Events \ {e} : spent'[k] = spent[k]
<1>1. spent' = [spent EXCEPT ![e] = spent[e] + 1] /\ spent[e] < Bound[e]
  BY DEF Spend
<1>2. spent[e] \in Nat /\ Bound[e] \in Nat
  BY BoundAssumption DEF CountShape
<1>3. spent' \in [Events -> Nat] /\ spent'[e] = spent[e] + 1 /\ \A k \in Events \ {e} : spent'[k] = spent[k]
  BY <1>1, <1>2 DEF CountShape
<1>4. spent[e] + 1 <= Bound[e]
  BY <1>1, <1>2
<1> QED BY <1>3, <1>4 DEF CountShape

\* No step spends more than the bound of an event.
LEMMA SpentStep ==
  ASSUME Shape, NEW t \in Threads, Quiet(t) \/ Files(t)
  PROVE  /\ spent' \in [Events -> Nat] /\ \A e \in Events : spent'[e] <= Bound[e]
         /\ spent["launch"] # 0 => spent'["launch"] # 0
<1> DEFINE Goal == /\ spent' \in [Events -> Nat] /\ \A e \in Events : spent'[e] <= Bound[e]
                   /\ spent["launch"] # 0 => spent'["launch"] # 0
<1>1. CountShape
  BY DEF Shape
<1>2. CASE UNCHANGED spent
  BY <1>1, <1>2 DEF CountShape
<1>3. CASE \E e \in Events : Spend(e)
  <2>1. PICK e \in Events : Spend(e)
    BY <1>3
  <2>2. spent["launch"] \in Nat
    BY <1>1 DEF CountShape, Events
  <2>3. "launch" \in Events
    BY DEF Events
  <2> QED BY <1>1, <2>1, <2>2, <2>3, SpendKeeps
<1>4. "launch" \in Events /\ "elsewhere" \in Events /\ "click" \in Events /\ "fault" \in Events
  BY DEF Events
<1>5. UNCHANGED spent \/ \E e \in Events : Spend(e)
  <2>1. CASE LaunchPulls \/ Reload \/ ClickDownload \/ ClickUpload \/ ClickDelete \/ Crash
    BY <1>4, <2>1, Zenon DEF LaunchPulls, Reload, ClickDownload, ClickUpload, ClickDelete, Crash
  <2>11. CASE Elsewhere
    <3>1. Spend("elsewhere")
      BY <2>11, Zenon DEF Elsewhere
    <3> QED BY <1>4, <3>1, Zenon
  <2>2. CASE Exit
    BY <1>4, <2>2, Zenon DEF Exit, ZipSave, LeavesOut
  <2>3. CASE Boot \/ SignIn \/ Delete \/ Play
    BY <2>3, Zenon DEF Boot, SignIn, Delete, Play
  <2>4. CASE Draw
    BY <1>4, <2>4, Zenon DEF Draw
  <2>5. CASE Ask(t) \/ Answer(t) \/ SaveVersion(t) \/ Decide(t) \/ Base(t) \/ Put(t) \/ Stored(t)
    BY <2>5, Zenon DEF Ask, Answer, SaveVersion, Decide, Base, Put, Stored
  <2>6. CASE Rejected(t) \/ Unreachable(t)
    BY <1>4, <2>6, Zenon DEF Rejected, Unreachable, Fails
  <2>7. CASE Backup(t) \/ Stage(t) \/ Clear(t)
    BY <2>7, Zenon DEF Backup, Stage, Clear
  <2>8. CASE Copied(t) \/ Extract(t) \/ SetAside(t)
    BY <1>4, <2>8, Zenon DEF Copied, Extract, SetAside, Fails
  <2>9. CASE SwapIn(t)
    BY <1>4, <2>9 DEF SwapIn, Fails
  <2>10. CASE Mark(t)
    BY <1>4, <2>10 DEF Mark
  <2> QED
    BY <2>1, <2>2, <2>3, <2>4, <2>5, <2>6, <2>7, <2>8, <2>9, <2>10, <2>11 DEF Quiet, Files
<1> QED BY <1>2, <1>3, <1>5

\* The server takes a version more.
LEMMA StoresKeeps ==
  ASSUME CountShape, NEW copy \in Copy, NEW conflict \in BOOLEAN, NEW placeable \in BOOLEAN,
         Stores(copy, conflict, placeable)
  PROVE  /\ cloud' \in Seq(Version) /\ Len(cloud') = Len(cloud) + 1
         /\ \A n \in DOMAIN cloud : cloud'[n] = cloud[n]
         /\ cloud'[Len(cloud) + 1].copy = copy
         /\ DOMAIN cloud' = DOMAIN cloud \cup {Len(cloud) + 1}
<1> DEFINE new == [copy |-> copy, conflict |-> conflict, placeable |-> placeable, deleted |-> FALSE]
<1>1. new \in Version /\ new.copy = copy
  BY DEF Version
<1>2. cloud' = Append(cloud, new)
  BY DEF Stores
<1> HIDE DEF new
<1> QED BY <1>1, <1>2 DEF CountShape

\* A copy the other machine uploads is made of plays.
LEMMA ElsewhereCopy ==
  ASSUME CountShape, Spend("elsewhere")
  PROVE  {Bound["launch"] + spent'["elsewhere"]} \cup (IF Newest = 0 THEN {} ELSE cloud[Newest].copy.of)
            \in SUBSET Plays
<1>1. /\ spent'["elsewhere"] \in Nat /\ spent'["elsewhere"] <= Bound["elsewhere"] /\ spent'["elsewhere"] # 0
      /\ Bound["launch"] \in Nat /\ Bound["elsewhere"] \in Nat
  BY SpendKeeps, BoundAssumption DEF CountShape, Events
<1>2. Bound["launch"] + spent'["elsewhere"] \in Plays
  BY <1>1 DEF Plays
<1>3. Newest # 0 => cloud[Newest].copy.of \in SUBSET Plays
  BY NewestIsLeft, CopyParts DEF Version
<1> QED BY <1>2, <1>3

\* What the server has stays, with perhaps a version more.
CloudSame ==
    /\ cloud' \in Seq(Version) /\ Len(cloud') = Len(cloud) /\ DOMAIN cloud' = DOMAIN cloud
    /\ \A n \in DOMAIN cloud : cloud'[n].copy = cloud[n].copy

CloudAdds(copy) ==
    /\ cloud' \in Seq(Version) /\ Len(cloud') = Len(cloud) + 1
    /\ DOMAIN cloud' = DOMAIN cloud \cup {Len(cloud) + 1}
    /\ \A n \in DOMAIN cloud : cloud'[n].copy = cloud[n].copy
    /\ cloud'[Len(cloud) + 1].copy = copy

\* The cloud only gains copies: a whole one, or the archive a thread is putting.
LEMMA CloudStep ==
  ASSUME Shape, NEW t \in Threads, Quiet(t) \/ Files(t)
  PROVE  \/ CloudSame
         \/ \E copy \in Copy : CloudAdds(copy) /\ (copy.whole \/ (At(t, "put") /\ copy = call[t].zip))
<1>1. CountShape /\ CallShape
  BY DEF Shape
<1>2. CASE UNCHANGED cloud
  BY <1>1, <1>2 DEF CountShape, CloudSame
<1>3. CASE Put(t) /\ cloud' # cloud
  <2>1. At(t, "put") /\ call[t].zip \in Copy
    BY <1>1, <1>3 DEF Put, At, CallShape, CallOK
  <2>2. Stores(call[t].zip, Newest # 0 /\ memory # Newest, TRUE)
    BY <1>3, Zenon DEF Put
  <2> DEFINE conflict == Newest # 0 /\ memory # Newest
             yes == TRUE
  <2>3. conflict \in BOOLEAN /\ yes \in BOOLEAN
    OBVIOUS
  <2>4. Stores(call[t].zip, conflict, yes)
    BY <2>2
  <2> HIDE DEF conflict, yes
  <2>5. CloudAdds(call[t].zip)
    BY <1>1, <2>1, <2>3, <2>4, StoresKeeps DEF CloudAdds
  <2> QED BY <2>1, <2>5
<1>4. CASE Elsewhere
  <2> DEFINE of == {Bound["launch"] + spent'["elsewhere"]}
                      \cup (IF Newest = 0 THEN {} ELSE cloud[Newest].copy.of)
             no == FALSE
  <2>1. Spend("elsewhere")
    BY <1>4, Zenon DEF Elsewhere
  <2>2. of \in SUBSET Plays
    BY <1>1, <2>1, ElsewhereCopy
  <2>3. PICK placeable \in BOOLEAN : Stores(Whole(of), no, placeable)
    BY <1>4, Zenon DEF Elsewhere
  <2>4. no \in BOOLEAN
    OBVIOUS
  <2> HIDE DEF of, no
  <2>5. Whole(of) \in Copy /\ Whole(of).whole
    BY <2>2, CopiesMade
  <2>6. CloudAdds(Whole(of))
    BY <1>1, <2>3, <2>4, <2>5, StoresKeeps DEF CloudAdds
  <2> QED BY <2>5, <2>6
<1>5. CASE Delete /\ cloud' # cloud
  <2> DEFINE rest == call[Page].zip \cap Left
             n == CHOOSE n \in rest : \A k \in rest : k <= n
  <2>1. cloud' = [cloud EXCEPT ![n].deleted = TRUE]
    BY <1>5, Zenon DEF Delete
  <2> HIDE DEF n
  <2>2. /\ Len(cloud) \in Nat /\ DOMAIN cloud = 1..Len(cloud)
        /\ \A k \in DOMAIN cloud : cloud[k] \in Version
    BY <1>1 DEF CountShape
  <2>3. DOMAIN cloud' = DOMAIN cloud
    BY <2>1
  <2>4. ASSUME NEW k \in DOMAIN cloud PROVE cloud'[k] \in Version /\ cloud'[k].copy = cloud[k].copy
    <3>1. cloud'[k] = IF k = n THEN [cloud[k] EXCEPT !.deleted = TRUE] ELSE cloud[k]
      BY <2>1
    <3>2. [cloud[k] EXCEPT !.deleted = TRUE] \in Version /\ [cloud[k] EXCEPT !.deleted = TRUE].copy = cloud[k].copy
      BY <2>2 DEF Version
    <3> QED BY <2>2, <3>1, <3>2
  <2>5. cloud' \in [1..Len(cloud) -> Version]
    <3>1. cloud' = [k \in 1..Len(cloud) |-> cloud'[k]]
      BY <2>1, <2>2
    <3> QED BY <2>2, <2>4, <3>1
  <2>6. cloud' \in Seq(Version) /\ Len(cloud') = Len(cloud)
    BY <2>2, <2>5
  <2> QED BY <2>3, <2>4, <2>6 DEF CloudSame
<1>6. UNCHANGED cloud \/ Put(t) \/ Elsewhere \/ Delete
  <2>1. CASE Quiet(t)
    BY <2>1, Zenon DEF Quiet, LaunchPulls, Boot, Exit, SignIn, Draw, Reload, ClickDownload, ClickUpload,
          ClickDelete, Ask, Answer, SaveVersion, Decide, Base, Stored, Rejected, Unreachable
  <2>2. CASE Files(t)
    BY <2>2, Zenon DEF Files, Play, Backup, Copied, Stage, Extract, SetAside, SwapIn, Clear, Mark, Crash
  <2> QED BY <2>1, <2>2
<1> QED BY <1>2, <1>3, <1>4, <1>5, <1>6

\* The list only grows.
LEMMA CloudGrows ==
  ASSUME Shape, NEW t \in Threads, Quiet(t) \/ Files(t)
  PROVE  /\ cloud' \in Seq(Version) /\ Len(cloud) \in Nat /\ Len(cloud') \in Nat /\ Len(cloud) <= Len(cloud')
         /\ \A n \in DOMAIN cloud : n \in DOMAIN cloud' /\ cloud'[n].copy = cloud[n].copy
<1>1. Len(cloud) \in Nat
  BY DEF Shape, CountShape
<1>2. CASE CloudSame
  BY <1>1, <1>2 DEF CloudSame
<1>3. ASSUME NEW copy \in Copy, CloudAdds(copy) PROVE Len(cloud') \in Nat /\ Len(cloud) <= Len(cloud')
  BY <1>1, <1>3 DEF CloudAdds
<1>4. CASE \E copy \in Copy : CloudAdds(copy)
  BY <1>1, <1>3, <1>4 DEF CloudAdds
<1> QED BY <1>2, <1>4, CloudStep

\* The counts keep their types and bounds.
LEMMA CountStep ==
  ASSUME Shape, NEW t \in Threads, Quiet(t) \/ Files(t)
  PROVE  CountShape'
<1>1. CountShape /\ CallShape /\ PageShape
  BY DEF Shape
<1>2. /\ cloud' \in Seq(Version) /\ Len(cloud) \in Nat /\ Len(cloud') \in Nat /\ Len(cloud) <= Len(cloud')
  BY CloudGrows
<1>3. call[t].number \in Nat /\ call[t].number <= Len(cloud)
  BY <1>1 DEF CallShape, CallOK, Call
<1>4. memory' \in {memory, call[t].number, marker, 0} \/ (drawn # None /\ memory' = drawn.newest)
  <2>1. CASE Quiet(t)
    BY <2>1, Zenon DEF Quiet, LaunchPulls, Boot, Exit, SignIn, Elsewhere, Draw, Reload, ClickDownload, ClickUpload,
          ClickDelete, Delete, Ask, Answer, SaveVersion, Decide, Base, Put, Stored, Rejected, Unreachable
  <2>2. CASE Files(t)
    BY <2>2, Zenon DEF Files, Play, Backup, Copied, Stage, Extract, SetAside, SwapIn, Clear, Mark, Crash
  <2> QED BY <2>1, <2>2
<1>5. marker' \in {marker, memory, call[t].number, 0}
  <2>1. CASE Quiet(t)
    BY <2>1, QuietFiles DEF files
  <2>2. CASE Mark(t)
    BY <2>2 DEF Mark
  <2>3. CASE Crash
    BY <2>3 DEF Crash
  <2>4. CASE Files(t) /\ ~Mark(t) /\ ~Crash
    BY <2>4, Zenon DEF Files, Play, Backup, Copied, Stage, Extract, SetAside, SwapIn, Clear
  <2> QED BY <2>1, <2>2, <2>3, <2>4
<1>6. memory' \in Nat /\ memory' <= Len(cloud')
  BY <1>1, <1>2, <1>3, <1>4 DEF CountShape, PageShape
<1>7. marker' \in Nat /\ marker' <= Len(cloud')
  BY <1>1, <1>2, <1>3, <1>5 DEF CountShape
<1>8. spent' \in [Events -> Nat] /\ \A e \in Events : spent'[e] <= Bound[e]
  BY SpentStep
<1> QED BY <1>2, <1>6, <1>7, <1>8 DEF CountShape

\* Returning lets the title start, and nothing else changes about it.
LEMMA ReturnsTitle ==
  ASSUME HostShape, Returns(Launch) \/ Returns(Push) \/ Returns(Page)
  PROVE  /\ title' \in {"off", "pulling", "ready", "running"} /\ (title' # "off" => title # "off")
         /\ title' = "running" <=> title = "running"
  BY DEF Returns, HostShape

\* The title is off until a launch.
LEMMA HostStep ==
  ASSUME Shape, NEW t \in Threads, Quiet(t) \/ Files(t)
  PROVE  HostShape'
<1>1. HostShape /\ CountShape
  BY DEF Shape
<1>2. Returns(t) => title' \in {"off", "pulling", "ready", "running"} /\ (title' # "off" => title # "off")
  BY <1>1, ReturnsTitle DEF Threads
<1>3. bearer' \in BOOLEAN /\ host' = host
  <2>1. CASE Quiet(t)
    BY <1>1, <2>1, Zenon DEF Quiet, LaunchPulls, Boot, Exit, SignIn, Elsewhere, Draw, Reload, ClickDownload,
          ClickUpload, ClickDelete, Delete, Ask, Answer, SaveVersion, Decide, Base, Put, Stored, Rejected,
          Unreachable, HostShape
  <2>2. CASE Files(t)
    BY <1>1, <2>2, Zenon DEF Files, Play, Backup, Copied, Stage, Extract, SetAside, SwapIn, Clear, Mark, Crash,
          HostShape
  <2> QED BY <2>1, <2>2
<1>4. CASE LaunchPulls
  <2>1. spent'["launch"] # 0
    BY <1>1, <1>4, SpendKeeps DEF LaunchPulls, Events, CountShape
  <2>2. title' \in {"ready", "pulling"}
    BY <1>4 DEF LaunchPulls
  <2> QED BY <1>1, <1>3, <2>1, <2>2 DEF HostShape
<1>5. CASE ~LaunchPulls
  <2>1. title' \in {"off", "pulling", "ready", "running"} /\ (title' # "off" => title # "off")
    <3>1. CASE Boot
      BY <3>1 DEF Boot
    <3>2. CASE Exit
      BY <3>2 DEF Exit
    <3>3. CASE Crash
      BY <3>3 DEF Crash
    <3>4. CASE Delete
      BY <1>1, <3>4, ReturnsTitle, Zenon DEF Delete, HostShape
    <3>5. CASE UNCHANGED title \/ Returns(t)
      BY <1>1, <1>2, <3>5 DEF HostShape
    <3>6. UNCHANGED title \/ Returns(t) \/ Boot \/ Exit \/ Crash \/ Delete
      <4>1. CASE Quiet(t)
        BY <1>5, <4>1, Zenon DEF Quiet, SignIn, Elsewhere, Draw, Reload, ClickDownload,
              ClickUpload, ClickDelete, Ask, Answer, SaveVersion, Decide, Base, Put, Stored, Rejected,
              Unreachable, Fails
      <4>2. CASE Files(t)
        BY <4>2, Zenon DEF Files, Play, Backup, Copied, Stage, Extract, SetAside, SwapIn, Clear, Mark, Fails
      <4> QED BY <4>1, <4>2
    <3> QED BY <3>1, <3>2, <3>3, <3>4, <3>5, <3>6
  <2>2. spent["launch"] # 0 => spent'["launch"] # 0
    BY SpentStep
  <2> QED BY <1>1, <1>3, <2>1, <2>2 DEF HostShape
<1> QED BY <1>4, <1>5

\* What is drawn is what the list had.
LEMMA PageStep ==
  ASSUME Shape, NEW t \in Threads, Quiet(t) \/ Files(t)
  PROVE  PageShape'
<1>1. PageShape /\ CountShape
  BY DEF Shape
<1>2. Len(cloud) \in Nat /\ Len(cloud') \in Nat /\ Len(cloud) <= Len(cloud')
  BY CloudGrows
<1>3. CASE drawn' \in {drawn, None}
  BY <1>1, <1>2, <1>3 DEF PageShape
<1>4. CASE Draw /\ drawn' # None
  <2>1. /\ Left \subseteq 1..Len(cloud) /\ Newest \in Nat /\ Newest <= Len(cloud)
    BY <1>1, NewestIsLeft
  <2>2. drawn'.versions = Left /\ drawn'.newest = Newest
    <3> DEFINE state == Compare(Newest)
               conflict == \E n \in Left : cloud[n].conflict
               up == title = "running"
    <3>1. drawn' = [versions |-> Left, newest |-> Newest, state |-> state, conflict |-> conflict, running |-> up]
      BY <1>4, Zenon DEF Draw
    <3> HIDE DEF state, conflict, up
    <3> QED BY <3>1
  <2>3. Left \in SUBSET Nat
    BY <1>2, <2>1
  <2> QED BY <1>2, <2>1, <2>2, <2>3 DEF PageShape
<1>5. drawn' \in {drawn, None} \/ Draw
  <2>1. CASE Quiet(t)
    BY <2>1, Zenon DEF Quiet, LaunchPulls, Boot, Exit, SignIn, Elsewhere, Reload, ClickDownload,
          ClickUpload, ClickDelete, Delete, Ask, Answer, SaveVersion, Decide, Base, Put, Stored, Rejected,
          Unreachable
  <2>2. CASE Files(t)
    BY <2>2, Zenon DEF Files, Play, Backup, Copied, Stage, Extract, SetAside, SwapIn, Clear, Mark, Crash
  <2> QED BY <2>1, <2>2
<1> QED BY <1>3, <1>4, <1>5

\* The shape of the calls after a step that changes none.
LEMMA CallStays ==
  ASSUME CallShape, CountShape, Len(cloud') \in Nat, Len(cloud) <= Len(cloud'), UNCHANGED call,
         call[Launch].op \in {"pull", "force"} => title' = "pulling"
  PROVE  CallShape'
<1>1. \A u \in Threads : call[u].number \in Nat
  BY DEF CallShape, Call
<1>2. Len(cloud) \in Nat
  BY DEF CountShape
<1>3. ASSUME NEW u \in Threads PROVE CallOK(call[u], Len(cloud'))
  BY <1>1, <1>2 DEF CallShape, CallOK
<1> QED BY <1>3 DEF CallShape

\* A call that returned has nothing in hand, a click starts with what it needs.
LEMMA ReturnsCalls ==
  ASSUME CallShape, CountShape, cloud' \in Seq(Version), Len(cloud') \in Nat, Len(cloud) <= Len(cloud'),
         NEW t \in Threads, Returns(t)
  PROVE  CallShape'
<1>1. Moves(t) /\ call'[t] \in Call /\ call'[t].at \in {"idle", "draw"} /\ call'[t].op = "none" /\ call'[t].number = 0
  BY ReturnsMoves
<1>2. t # Launch => title' = title
  BY DEF Returns
<1>3. CallOK(call'[t], Len(cloud'))
  BY <1>1 DEF CallOK
<1> QED BY <1>1, <1>2, <1>3, CallKeeps

\* A call goes on with what it has.
LEMMA GoesCalls ==
  ASSUME CallShape, CountShape, cloud' \in Seq(Version), Len(cloud') \in Nat, Len(cloud) <= Len(cloud'),
         NEW t \in Threads, NEW at \in Ats, Goes(t, at), UNCHANGED title,
         CallOK(call[t], Len(cloud)) => CallOK([call[t] EXCEPT !.at = at], Len(cloud))
  PROVE  CallShape'
<1>1. /\ Moves(t) /\ call'[t] \in Call /\ call'[t].at = at
      /\ call'[t].op = call[t].op /\ call'[t].zip = call[t].zip /\ call'[t].number = call[t].number
  BY GoesMoves
<1>2. call[t] \in Call /\ CallOK(call[t], Len(cloud)) /\ call[t].number \in Nat /\ Len(cloud) \in Nat
  BY DEF CallShape, CountShape, Call
<1>3. /\ [call[t] EXCEPT !.at = at].at = at /\ [call[t] EXCEPT !.at = at].op = call[t].op
      /\ [call[t] EXCEPT !.at = at].zip = call[t].zip /\ [call[t] EXCEPT !.at = at].number = call[t].number
  BY <1>2 DEF Call
<1>4. CallOK(call'[t], Len(cloud'))
  BY <1>1, <1>2, <1>3 DEF CallOK
<1> QED BY <1>1, <1>4, CallKeeps DEF CallShape

\* Every step leaves each call where its place, its operation and its archive agree.
LEMMA CallStep ==
  ASSUME Shape, NEW t \in Threads, Quiet(t) \/ Files(t)
  PROVE  CallShape'
<1>1. FilesShape /\ CountShape /\ HostShape /\ PageShape /\ CallShape
  BY DEF Shape
<1>2. /\ cloud' \in Seq(Version) /\ Len(cloud) \in Nat /\ Len(cloud') \in Nat /\ Len(cloud) <= Len(cloud')
  BY CloudGrows
<1>3. /\ call[t] \in Call /\ CallOK(call[t], Len(cloud)) /\ call \in [Threads -> Call]
      /\ call[t].op \in Ops /\ call[t].at \in Ats /\ call[t].zip \in Zips /\ call[t].number \in Nat
      /\ call[t].number <= Len(cloud)
  BY <1>1 DEF CallShape, Call, CallOK
<1>4. Launch \in Threads /\ Push \in Threads /\ Page \in Threads /\ Page # Launch /\ Push # Launch
  BY DEF Threads, Launch, Push, Page
<1>5. CASE Returns(t)
  BY <1>1, <1>2, <1>5, ReturnsCalls
<1>6. CASE UNCHANGED <<call, title>>
  BY <1>1, <1>2, <1>6, CallStays DEF CallShape
<1>7. CASE LaunchPulls
  <2>1. CASE UNCHANGED call
    <3>1. title = "off"
      BY <1>7 DEF LaunchPulls
    <3> QED BY <1>1, <1>2, <2>1, <3>1, CallStays DEF CallShape
  <2>2. CASE call' # call
    <3>1. PICK op \in {"launch", "pull", "force"} :
             call' = [call EXCEPT ![Launch] = [NoCall EXCEPT !.op = op, !.at = "ask"]] /\ title' = "pulling"
      BY <1>7, <2>2 DEF LaunchPulls
    <3>2. call'[Launch] = [op |-> op, at |-> "ask", zip |-> None, number |-> 0]
      BY <1>3, <1>4, <3>1 DEF NoCall
    <3>3. op \in Ops /\ "ask" \in Ats /\ op \in Pulls
      BY DEF Ops, Pulls, Ats
    <3>4. None \in Zips
      BY Zenon DEF Zips
    <3>5. call'[Launch] \in Call
      BY <3>2, <3>3, <3>4 DEF Call
    <3>6. CallOK(call'[Launch], Len(cloud'))
      BY <1>2, <3>2, <3>3 DEF CallOK
    <3>7. Moves(Launch)
      BY <1>3, <1>4, <3>1, <3>2 DEF Moves
    <3> QED BY <1>1, <1>2, <1>4, <3>1, <3>5, <3>6, <3>7, CallKeeps
  <2> QED BY <2>1, <2>2
<1>8. CASE Boot
  <2>1. call[Launch].op \in {"pull", "force"} => FALSE
    BY <1>1, <1>8 DEF Boot, CallShape
  <2>2. UNCHANGED call
    BY <1>8 DEF Boot
  <2> QED BY <1>1, <1>2, <2>1, <2>2, CallStays
<1>9. CASE Exit
  <2>1. title = "running"
    BY <1>9 DEF Exit
  <2>2. call[Launch].op \notin {"pull", "force"}
    BY <1>1, <2>1 DEF CallShape
  <2>3. CASE UNCHANGED call
    BY <1>1, <1>2, <2>2, <2>3, CallStays
  <2>4. CASE call' # call
    <3>1. PICK zip \in {Folder, Torn(Folder.of)} :
            call' = [call EXCEPT ![Push] =
                       IF host = "marker" THEN [op |-> "push", at |-> "base", zip |-> zip, number |-> 0]
                       ELSE [op |-> "captured", at |-> "put", zip |-> zip, number |-> 0]]
      BY <1>9, <2>4, Zenon DEF Exit
    <3>3. Folder \in Copy
      BY <1>1, CopiesMade DEF FilesShape, Dirs, Folder
    <3>4. zip \in Copy
      BY <3>1, <3>3, CopyParts, CopiesMade
    <3>5. zip \in Zips
      BY <3>4 DEF Zips
    <3>6. PICK op \in {"push", "captured"}, at \in {"base", "put"} :
            /\ call' = [call EXCEPT ![Push] = [op |-> op, at |-> at, zip |-> zip, number |-> 0]]
            /\ at = "base" => op = "push"
      <4>1. CASE host = "marker"
        BY <3>1, <4>1
      <4>2. CASE host # "marker"
        BY <3>1, <4>2
      <4> QED BY <4>1, <4>2
    <3>7. call'[Push] = [op |-> op, at |-> at, zip |-> zip, number |-> 0]
      BY <1>3, <1>4, <3>6
    <3>8. call'[Push] \in Call
      <4>1. op \in Ops /\ at \in Ats
        BY DEF Ops, Uploads, Ats
      <4> QED BY <3>5, <3>7, <4>1 DEF Call
    <3>9. CallOK(call'[Push], Len(cloud'))
      BY <1>2, <3>4, <3>6, <3>7 DEF CallOK, Uploads
    <3>10. Moves(Push) /\ call'[Launch] = call[Launch]
      BY <1>3, <1>4, <3>6, <3>7 DEF Moves
    <3>11. call'[Push].op \notin {"launch", "pull", "force"}
      BY <3>7
    <3> QED BY <1>1, <1>2, <1>4, <2>1, <3>8, <3>9, <3>10, <3>11, CallKeeps
  <2> QED BY <2>3, <2>4
<1>10. CASE Ask(t) /\ ~Returns(t)
  <2>1. /\ Newest # 0 /\ At(t, "ask") /\ UNCHANGED title
        /\ call' = [call EXCEPT ![t] = [@ EXCEPT !.at = "answer", !.number = Newest, !.zip = cloud[Newest]]]
    BY <1>10, Zenon DEF Ask
  <2>2. cloud[Newest] \in Version /\ Newest \in Nat /\ Newest <= Len(cloud)
    BY <1>1, <2>1, NewestIsLeft
  <2>3. call'[t] = [op |-> call[t].op, at |-> "answer", zip |-> cloud[Newest], number |-> Newest]
    BY <1>3, <2>1 DEF Call
  <2>4. call'[t] \in Call
    <3>1. cloud[Newest] \in Zips /\ "answer" \in Ats
      BY <2>2 DEF Zips, Ats
    <3> QED BY <1>3, <2>2, <2>3, <3>1 DEF Call
  <2>5. CallOK(call'[t], Len(cloud'))
    BY <1>2, <1>3, <2>1, <2>2, <2>3 DEF CallOK, At
  <2>6. Moves(t) /\ call'[t].op = call[t].op
    BY <1>3, <2>1, <2>3 DEF Moves
  <2> QED BY <1>1, <1>2, <2>1, <2>4, <2>5, <2>6, CallKeeps DEF CallShape
<1>11. CASE Answer(t)
  <2> DEFINE at == IF call[t].op \in {"pull", "force"} THEN "stage" ELSE "version"
  <2>1. At(t, "answer") /\ Goes(t, at) /\ UNCHANGED title
    BY <1>11, Zenon DEF Answer
  <2>2. at \in Ats
    BY DEF Ats
  <2>3. CallOK([call[t] EXCEPT !.at = at], Len(cloud))
    BY <1>3, <2>1 DEF CallOK, At, Pulls, Checked, Call
  <2> HIDE DEF at
  <2> QED BY <1>1, <1>2, <2>1, <2>2, <2>3, GoesCalls
<1>12. CASE SaveVersion(t)
  <2> DEFINE at == IF call[t].op = "launch" THEN "decide" ELSE "backup"
  <2>1. At(t, "version") /\ call' = [call EXCEPT ![t].number = memory, ![t].at = at] /\ UNCHANGED title
    BY <1>12, Zenon DEF SaveVersion
  <2>2. at \in Ats
    BY DEF Ats
  <2>3. call'[t] = [op |-> call[t].op, at |-> at, zip |-> call[t].zip, number |-> memory]
    BY <1>3, <2>1 DEF Call
  <2>4. memory \in Nat /\ memory <= Len(cloud)
    BY <1>1 DEF CountShape
  <2>5. call'[t] \in Call
    BY <1>3, <2>2, <2>3, <2>4 DEF Call
  <2>6. CallOK(call'[t], Len(cloud'))
    BY <1>2, <1>3, <2>1, <2>3, <2>4 DEF CallOK, At, Checked
  <2>7. call' = [call EXCEPT ![t] = call'[t]]
    BY <1>3, <2>1
  <2>8. Moves(t) /\ call'[t].op = call[t].op
    BY <2>3, <2>7 DEF Moves
  <2> QED BY <1>1, <1>2, <2>1, <2>5, <2>6, <2>8, CallKeeps DEF CallShape
<1>13. CASE Decide(t) /\ ~Returns(t)
  <2>1. At(t, "decide") /\ Goes(t, "backup") /\ UNCHANGED title
    BY <1>13, Zenon DEF Decide
  <2>2. CallOK([call[t] EXCEPT !.at = "backup"], Len(cloud)) /\ "backup" \in Ats
    BY <1>3, <2>1 DEF CallOK, At, Checked, Call, Ats
  <2> QED BY <1>1, <1>2, <2>1, <2>2, GoesCalls
<1>14. CASE Backup(t)
  <2>1. At(t, "backup") /\ (Goes(t, "copy") \/ Goes(t, "stage")) /\ UNCHANGED title
    BY <1>14, Zenon DEF Backup
  <2>2. CallOK([call[t] EXCEPT !.at = "copy"], Len(cloud)) /\ "copy" \in Ats
    BY <1>3, <2>1 DEF CallOK, At, Checked, Call, Ats
  <2>3. CallOK([call[t] EXCEPT !.at = "stage"], Len(cloud)) /\ "stage" \in Ats
    BY <1>3, <2>1 DEF CallOK, At, Checked, Pulls, Call, Ats
  <2> QED BY <1>1, <1>2, <2>1, <2>2, <2>3, GoesCalls
<1>15. CASE Copied(t) /\ ~Returns(t)
  <2>1. At(t, "copy") /\ Goes(t, "stage") /\ UNCHANGED title
    BY <1>15, Zenon DEF Copied, Fails
  <2>2. CallOK([call[t] EXCEPT !.at = "stage"], Len(cloud)) /\ "stage" \in Ats
    BY <1>3, <2>1 DEF CallOK, At, Checked, Pulls, Call, Ats
  <2> QED BY <1>1, <1>2, <2>1, <2>2, GoesCalls
<1>16. CASE Stage(t)
  <2>1. At(t, "stage") /\ Goes(t, "extract") /\ UNCHANGED title
    BY <1>16, Zenon DEF Stage
  <2>2. CallOK([call[t] EXCEPT !.at = "extract"], Len(cloud)) /\ "extract" \in Ats
    BY <1>3, <2>1 DEF CallOK, At, Pulls, Call, Ats
  <2> QED BY <1>1, <1>2, <2>1, <2>2, GoesCalls
<1>17. CASE Extract(t) /\ ~Returns(t)
  <2>1. At(t, "extract") /\ call' = [call EXCEPT ![t].at = "aside", ![t].zip = None] /\ UNCHANGED title
    BY <1>17, Zenon DEF Extract, Fails
  <2>2. call'[t] = [op |-> call[t].op, at |-> "aside", zip |-> None, number |-> call[t].number]
    BY <1>3, <2>1 DEF Call
  <2>3. call'[t] \in Call
    <3>1. None \in Zips
      BY Zenon DEF Zips
    <3>2. "aside" \in Ats
      BY DEF Ats
    <3> QED BY <1>3, <2>2, <3>1, <3>2 DEF Call
  <2>4. CallOK(call'[t], Len(cloud'))
    BY <1>2, <1>3, <2>1, <2>2 DEF CallOK, At
  <2>5. Moves(t) /\ call'[t].op = call[t].op
    BY <1>3, <2>1, <2>2 DEF Moves
  <2> QED BY <1>1, <1>2, <2>1, <2>3, <2>4, <2>5, CallKeeps DEF CallShape
<1>18. CASE SetAside(t) /\ ~Returns(t)
  <2>1. At(t, "aside") /\ Goes(t, "inplace") /\ UNCHANGED title
    BY <1>18, Zenon DEF SetAside, Fails
  <2>2. CallOK([call[t] EXCEPT !.at = "inplace"], Len(cloud)) /\ "inplace" \in Ats
    BY <1>3, <2>1 DEF CallOK, At, Pulls, Call, Ats
  <2> QED BY <1>1, <1>2, <2>1, <2>2, GoesCalls
<1>19. CASE SwapIn(t) /\ ~Returns(t)
  <2>1. At(t, "inplace") /\ Goes(t, "clear") /\ UNCHANGED title
    BY <1>19, Zenon DEF SwapIn, Fails
  <2>2. CallOK([call[t] EXCEPT !.at = "clear"], Len(cloud)) /\ "clear" \in Ats
    BY <1>3, <2>1 DEF CallOK, At, Pulls, Call, Ats
  <2> QED BY <1>1, <1>2, <2>1, <2>2, GoesCalls
<1>20. CASE Clear(t) /\ ~Returns(t)
  <2>1. At(t, "clear") /\ Goes(t, "mark") /\ UNCHANGED title /\ call[t].op \notin {"pull", "force"}
    BY <1>20, Zenon DEF Clear
  <2>2. CallOK([call[t] EXCEPT !.at = "mark"], Len(cloud)) /\ "mark" \in Ats
    BY <1>3, <2>1 DEF CallOK, At, Pulls, Checked, Call, Ats
  <2> QED BY <1>1, <1>2, <2>1, <2>2, GoesCalls
<1>21. CASE Base(t)
  <2>1. At(t, "base") /\ Goes(t, "put") /\ UNCHANGED title
    BY <1>21, Zenon DEF Base
  <2>2. CallOK([call[t] EXCEPT !.at = "put"], Len(cloud)) /\ "put" \in Ats
    BY <1>3, <2>1 DEF CallOK, At, Uploads, Call, Ats
  <2> QED BY <1>1, <1>2, <2>1, <2>2, GoesCalls
<1>22. CASE Stored(t) /\ ~Returns(t)
  <2>1. At(t, "stored") /\ Goes(t, "mark") /\ UNCHANGED title /\ call[t].op # "captured"
    BY <1>22, Zenon DEF Stored
  <2>2. CallOK([call[t] EXCEPT !.at = "mark"], Len(cloud)) /\ "mark" \in Ats
    BY <1>3, <2>1 DEF CallOK, At, Uploads, Checked, Call, Ats
  <2> QED BY <1>1, <1>2, <2>1, <2>2, GoesCalls
<1>23. CASE Put(t) /\ ~Returns(t)
  <2>1. /\ At(t, "put") /\ call' = [call EXCEPT ![t].at = "stored", ![t].number = Len(cloud) + 1] /\ UNCHANGED title
        /\ \E conflict : Stores(call[t].zip, conflict, TRUE)
    BY <1>23, Zenon DEF Put
  <2>2. Len(cloud') = Len(cloud) + 1
    BY <1>1, <2>1 DEF Stores, CountShape
  <2>3. call'[t] = [op |-> call[t].op, at |-> "stored", zip |-> call[t].zip, number |-> Len(cloud) + 1]
    BY <1>3, <2>1 DEF Call
  <2>4. call'[t] \in Call
    BY <1>2, <1>3, <2>3 DEF Call, Ats
  <2>5. CallOK(call'[t], Len(cloud'))
    BY <1>2, <1>3, <2>1, <2>2, <2>3 DEF CallOK, At
  <2>6. Moves(t) /\ call'[t].op = call[t].op
    BY <1>3, <2>1, <2>3 DEF Moves
  <2> QED BY <1>1, <1>2, <2>1, <2>4, <2>5, <2>6, CallKeeps DEF CallShape
<1>24. CASE Draw
  <2>1. call' = [call EXCEPT ![Page] = NoCall] /\ UNCHANGED title
    BY <1>24, Zenon DEF Draw
  <2>2. call'[Page] = [op |-> "none", at |-> "idle", zip |-> None, number |-> 0]
    BY <1>3, <1>4, <2>1 DEF NoCall
  <2>3. call'[Page] \in Call
    <3>1. None \in Zips
      BY Zenon DEF Zips
    <3>2. "idle" \in Ats /\ "none" \in Ops
      BY DEF Ats, Ops
    <3> QED BY <2>2, <3>1, <3>2 DEF Call
  <2>4. CallOK(call'[Page], Len(cloud'))
    BY <1>2, <2>2 DEF CallOK
  <2>5. Moves(Page) /\ call'[Page].op = "none"
    BY <1>3, <1>4, <2>1, <2>2 DEF Moves
  <2> QED BY <1>1, <1>2, <1>4, <2>1, <2>3, <2>4, <2>5, CallKeeps
<1>25. CASE Reload \/ (ClickUpload /\ Goes(Page, "draw"))
  <2>1. At(Page, "idle") /\ Goes(Page, "draw") /\ UNCHANGED title
    BY <1>25, Zenon DEF Reload, ClickUpload
  <2>2. CallOK([call[Page] EXCEPT !.at = "draw"], Len(cloud)) /\ "draw" \in Ats
    <3>1. call[Page] \in Call /\ CallOK(call[Page], Len(cloud))
      BY <1>1, <1>4 DEF CallShape
    <3> QED BY <2>1, <3>1 DEF CallOK, At, Call, Ats
  <2> QED BY <1>1, <1>2, <1>4, <2>1, <2>2, GoesCalls
<1>26. CASE ClickDownload \/ ClickDelete \/ (ClickUpload /\ ~Goes(Page, "draw"))
  <2>1. /\ UNCHANGED title
        /\ \E op \in {"download", "upload", "delete"}, at \in {"ask", "put", "delete"},
              zip \in {None, dir["save"], drawn.versions} :
              /\ Moves(Page) /\ call'[Page] = [op |-> op, at |-> at, zip |-> zip, number |-> 0]
              /\ at = "ask" => op = "download" /\ zip = None
              /\ at = "put" => op = "upload" /\ zip = dir["save"] /\ zip # None
              /\ at = "delete" => op = "delete" /\ zip = drawn.versions /\ drawn # None
    <3>1. CASE ClickDownload
      <4>1. /\ call' = [call EXCEPT ![Page] = [NoCall EXCEPT !.op = "download", !.at = "ask"]]
            /\ UNCHANGED title
        BY <3>1, Zenon DEF ClickDownload
      <4>2. call'[Page] = [op |-> "download", at |-> "ask", zip |-> None, number |-> 0]
        BY <1>3, <1>4, <4>1 DEF NoCall
      <4>3. Moves(Page)
        BY <1>3, <4>1, <4>2 DEF Moves
      <4> QED BY <4>1, <4>2, <4>3
    <3>2. CASE ClickDelete
      <4>1. /\ call' = [call EXCEPT ![Page] = [NoCall EXCEPT !.op = "delete", !.at = "delete", !.zip = drawn.versions]]
            /\ UNCHANGED title /\ drawn # None
        BY <3>2, Zenon DEF ClickDelete
      <4>2. call'[Page] = [op |-> "delete", at |-> "delete", zip |-> drawn.versions, number |-> 0]
        BY <1>3, <1>4, <4>1 DEF NoCall
      <4>3. Moves(Page)
        BY <1>3, <4>1, <4>2 DEF Moves
      <4> QED BY <4>1, <4>2, <4>3
    <3>3. CASE ClickUpload /\ ~Goes(Page, "draw")
      <4>1. /\ call' = [call EXCEPT ![Page] = [NoCall EXCEPT !.op = "upload", !.at = "put", !.zip = dir["save"]]]
            /\ UNCHANGED title /\ dir["save"] # None
        BY <3>3, Zenon DEF ClickUpload, HasLocalContent
      <4>2. call'[Page] = [op |-> "upload", at |-> "put", zip |-> dir["save"], number |-> 0]
        BY <1>3, <1>4, <4>1 DEF NoCall
      <4>3. Moves(Page)
        BY <1>3, <4>1, <4>2 DEF Moves
      <4> QED BY <4>1, <4>2, <4>3
    <3> QED BY <1>26, <3>1, <3>2, <3>3
  <2>2. PICK op \in {"download", "upload", "delete"}, at \in {"ask", "put", "delete"},
             zip \in {None, dir["save"], drawn.versions} :
              /\ Moves(Page) /\ call'[Page] = [op |-> op, at |-> at, zip |-> zip, number |-> 0]
              /\ at = "ask" => op = "download" /\ zip = None
              /\ at = "put" => op = "upload" /\ zip = dir["save"] /\ zip # None
              /\ at = "delete" => op = "delete" /\ zip = drawn.versions /\ drawn # None
    BY <2>1, Zenon
  <2>3. Moves(Page) /\ call'[Page] = [op |-> op, at |-> at, zip |-> zip, number |-> 0]
    BY <2>2
  <2>4. /\ at = "put" => zip \in Copy
        /\ at = "delete" => zip \in SUBSET Nat
    BY <1>1, <2>2 DEF FilesShape, PageShape, Dirs
  <2>5. zip \in Zips
    <3>1. CASE at = "ask"
      BY <2>2, <3>1, Zenon DEF Zips
    <3>2. CASE at \in {"put", "delete"}
      BY <2>4, <3>2, Zenon DEF Zips
    <3> QED BY <3>1, <3>2
  <2>6. op \in Ops /\ at \in Ats
    BY DEF Ops, Uploads, Pulls, Ats
  <2>7. call'[Page] \in Call
    BY <2>3, <2>5, <2>6 DEF Call
  <2>8. CallOK(call'[Page], Len(cloud'))
    BY <1>2, <2>2, <2>3, <2>4 DEF CallOK, Uploads, Pulls
  <2>10. call'[Page].op \notin {"launch", "pull", "force"}
    BY <2>3
  <2> QED BY <1>1, <1>2, <1>4, <2>1, <2>3, <2>7, <2>8, <2>10, CallKeeps
<1>27. CASE Delete
  <2>1. Returns(Page) \/ UNCHANGED <<call, title>>
    BY <1>27, Zenon DEF Delete
  <2> QED BY <1>1, <1>2, <1>4, <1>6, <2>1, ReturnsCalls
<1>28. CASE Crash
  <2>1. call' = [u \in Threads |-> NoCall]
    BY <1>28 DEF Crash
  <2>2. ASSUME NEW u \in Threads
        PROVE  call'[u] \in Call /\ CallOK(call'[u], Len(cloud')) /\ call'[u].op = "none"
    <3>1. call'[u] = [op |-> "none", at |-> "idle", zip |-> None, number |-> 0]
      BY <2>1 DEF NoCall
    <3>2. None \in Zips
      BY Zenon DEF Zips
    <3>3. "idle" \in Ats /\ "none" \in Ops
      BY DEF Ats, Ops
    <3>4. call'[u] \in Call
      BY <3>1, <3>2, <3>3 DEF Call
    <3> QED BY <1>2, <3>1, <3>4 DEF CallOK
  <2>3. call' \in [Threads -> Call]
    BY <2>1, <2>2
  <2> QED BY <1>4, <2>2, <2>3 DEF CallShape
<1>29. CASE Play \/ SignIn \/ Elsewhere
  BY <1>6, <1>29, Zenon DEF Play, SignIn, Elsewhere
<1>30. CASE Rejected(t) \/ Unreachable(t) \/ Mark(t)
  BY <1>5, <1>30, Zenon DEF Rejected, Unreachable, Mark, Fails
<1> HIDE DEF Shape, FilesShape, CallShape
<1>31. CASE Quiet(t)
  BY <1>5, <1>7, <1>8, <1>9, <1>10, <1>11, <1>12, <1>13, <1>21, <1>22, <1>23, <1>24, <1>25, <1>26, <1>27,
     <1>29, <1>30, <1>31, Zenon DEF Quiet
<1>32. CASE Files(t)
  BY <1>5, <1>14, <1>15, <1>16, <1>17, <1>18, <1>19, <1>20, <1>28, <1>29, <1>30, <1>32, Zenon DEF Files
<1> QED BY <1>31, <1>32

\* The types of the inductive invariant are kept.
LEMMA ShapeStep ==
  ASSUME Shape, NEW t \in Threads, Quiet(t) \/ Files(t)
  PROVE  Shape'
  BY FilesStep, CountStep, HostStep, PageStep, CallStep DEF Shape

\* The initial states have the shape.
LEMMA InitShape == Init => Shape
<1> SUFFICES ASSUME Init PROVE Shape
  OBVIOUS
<1>1. FilesShape /\ HostShape /\ PageShape
  BY DEF Init, FilesShape, HostShape, PageShape
<1>2. CountShape /\ Len(cloud) = 0
  BY BoundAssumption DEF Init, CountShape
<1>3. ASSUME NEW t \in Threads
      PROVE  call[t] \in Call /\ CallOK(call[t], Len(cloud)) /\ call[t].op = "none"
  <2> DEFINE at == IF t = Page THEN "draw" ELSE "idle"
  <2>1. call[t] = [NoCall EXCEPT !.at = at]
    BY DEF Init
  <2>2. at \in {"draw", "idle"}
    OBVIOUS
  <2> HIDE DEF at
  <2>3. call[t] = [op |-> "none", at |-> at, zip |-> None, number |-> 0]
    BY <2>1 DEF NoCall
  <2>4. None \in Zips
    BY Zenon DEF Zips
  <2>5. "none" \in Ops /\ at \in Ats
    BY <2>2 DEF Ops, Ats
  <2>6. call[t] \in Call
    BY <2>3, <2>4, <2>5 DEF Call
  <2> QED BY <1>2, <2>2, <2>3, <2>6 DEF CallOK
<1>4. call \in [Threads -> Call]
  BY <1>3 DEF Init
<1>5. CallShape
  BY <1>3, <1>4 DEF CallShape, Threads
<1> QED BY <1>1, <1>2, <1>5 DEF Shape

\* A step that changes nothing.
LEMMA ShapeStutters == Shape /\ UNCHANGED vars => Shape'
  BY DEF Shape, FilesShape, CountShape, HostShape, PageShape, CallShape, vars

\* Every version number the client keeps is one the server gave, the title is where its
\* call is, and every folder, count and call has its type, through any sequence of
\* launches, clicks, uploads, failures and crashes.
THEOREM TypeCorrect == Spec => []TypeOK
<1>1. Shape /\ [Next]_vars => Shape'
  BY NextCases, ShapeStep, ShapeStutters
<1>2. Shape => TypeOK
  BY DEF Shape, FilesShape, CountShape, HostShape, PageShape, CallShape, TypeOK
<1> QED BY InitShape, <1>1, <1>2, PTL DEF Spec

-----------------------------------------------------------------------------
(* The save, until a restore is exposed.                                   *)

\* Where a call that restores can be.
LEMMA RestoringAt ==
  ASSUME Shape, NEW u \in Threads
  PROVE  /\ call[u].at \in {"backup", "copy", "stage", "extract", "aside", "inplace", "clear"} => Restoring(u)
         /\ call[u].at \in {"idle", "draw", "ask", "answer", "version", "decide", "base", "put", "stored", "delete"}
               => ~Restoring(u)
         /\ call[u].op \in {"push", "upload"} => ~Restoring(u)
<1>1. CallOK(call[u], Len(cloud))
  BY DEF Shape, CallShape
<1> QED BY <1>1 DEF CallOK, Restoring, Pulls, Checked

\* Which places belong to a restore, after a step.
LEMMA RestoringNext ==
  ASSUME Shape', NEW u \in Threads
  PROVE  /\ call'[u].at \in {"backup", "copy", "stage", "extract", "aside", "inplace", "clear"} => Restoring(u)'
         /\ call'[u].at \in {"idle", "draw", "ask", "answer", "version", "decide", "base", "put", "stored", "delete"}
               => ~Restoring(u)'
         /\ call'[u].op \in {"push", "upload"} => ~Restoring(u)'
<1>1. CallOK(call'[u], Len(cloud'))
  BY DEF Shape, CallShape
<1> QED BY <1>1 DEF CallOK, Restoring, Pulls, Checked

\* What a call does not touch does not change for it.
LEMMA OtherCalls ==
  ASSUME Shape, NEW a \in Threads, Moves(a), NEW u \in Threads \ {a}
  PROVE  call'[u] = call[u] /\ (Restoring(u)' <=> Restoring(u)) /\ Restoring(u) \in BOOLEAN
  BY DEF Shape, CallShape, Moves, Restoring

\* The server keeps every copy, and takes whole ones.
LEMMA CloudSafe ==
  ASSUME Shape, Safe, NEW t \in Threads, Quiet(t) \/ Files(t)
  PROVE  /\ Taken \subseteq Taken' /\ \A p : InCloud(p) => InCloud(p)'
         /\ \A n \in DOMAIN cloud' : cloud'[n].copy.whole
<1>1. \A n \in DOMAIN cloud : n \in DOMAIN cloud' /\ cloud'[n].copy = cloud[n].copy
  BY CloudGrows
<1>2. Taken \subseteq Taken'
  BY <1>1 DEF Taken
<1>3. ASSUME NEW p, InCloud(p) PROVE InCloud(p)'
  BY <1>1, <1>3 DEF InCloud
<1>4. \A n \in DOMAIN cloud : cloud[n].copy.whole
  BY DEF Safe, AllWhole
<1>5. \A n \in DOMAIN cloud' : cloud'[n].copy.whole
  <2>1. CASE CloudSame
    BY <1>1, <1>4, <2>1 DEF CloudSame
  <2>2. ASSUME NEW copy \in Copy, CloudAdds(copy), copy.whole \/ (At(t, "put") /\ copy = call[t].zip)
        PROVE  \A n \in DOMAIN cloud' : cloud'[n].copy.whole
    <3>1. copy.whole
      BY <2>2 DEF Safe, ZipSafe, At
    <3> QED BY <1>4, <2>2, <3>1 DEF CloudAdds
  <2> QED BY <2>1, <2>2, CloudStep
<1> QED BY <1>2, <1>3, <1>5

\* A restore by a begins.
Begins(a) ==
    /\ Moves(a) /\ ~Meets(a) /\ UNCHANGED title
    /\ call[a].at \in {"answer", "version", "decide"}
    /\ call'[a].zip = call[a].zip /\ call'[a].op = call[a].op
    /\ \/ call'[a].at = "stage" /\ call'[a].op \notin Checked
       \/ call'[a].at = "backup" /\ (call'[a].op = "launch" => ~HasLocalContent \/ marker # 0)

\* A call goes on, or ends, and does not restore.
Idles(a) ==
    /\ Moves(a) /\ ~Restoring(a)' /\ ZipSafe(a)'
    /\ call'[Launch].op = "pull" => call[Launch].op = "pull" \/ LaunchPulls

\* A call that returned, or waits for an answer of the page, is idle.
LEMMA AtIdles ==
  ASSUME Shape, Shape', NEW a \in Threads, Moves(a), call'[a].op # "pull" \/ call[a].op = "pull",
         call'[a].at \in {"idle", "draw", "ask", "stored", "delete", "mark"},
         call'[a].at = "mark" => call'[a].op \in {"push", "upload"}
  PROVE  Idles(a)
<1>1. ~Restoring(a)'
  BY RestoringNext
<1>2. ZipSafe(a)'
  BY DEF ZipSafe
<1>3. call'[Launch].op = "pull" => call[Launch].op = "pull"
  <2>1. CASE a = Launch
    BY <2>1
  <2>2. CASE a # Launch
    BY <2>2, OtherCalls DEF Threads
  <2> QED BY <2>1, <2>2
<1> QED BY <1>1, <1>2, <1>3 DEF Idles

\* A call that returns is idle: it restores nothing and holds no archive.
LEMMA ReturnsIdles ==
  ASSUME Shape, Shape', NEW a \in Threads, Returns(a)
  PROVE  Idles(a)
<1>1. Moves(a) /\ call'[a].at \in {"idle", "draw"} /\ call'[a].op = "none"
  BY ReturnsMoves DEF Shape
<1> QED BY <1>1, AtIdles

\* A call keeps what it has in hand.
LEMMA ZipKept ==
  ASSUME Shape, Shape', Safe, NEW t \in Threads, Quiet(t) \/ Files(t), NEW a \in Threads, Moves(a),
         call'[a].zip = call[a].zip, call'[a].op = call[a].op,
         \/ /\ call[a].at \in {"answer", "version"}
            /\ call'[a].at \in {"version", "decide"}
         \/ call[a].at = "base" /\ call'[a].at = "put"
  PROVE  Idles(a)
<1>1. ~Restoring(a)'
  BY RestoringNext
<1>2. Taken \subseteq Taken'
  BY CloudSafe
<1>3. ZipSafe(a)
  BY DEF Safe
<1>4. ZipSafe(a)'
  BY <1>2, <1>3 DEF ZipSafe
<1>5. call'[Launch].op = "pull" => call[Launch].op = "pull"
  <2>1. CASE a = Launch
    BY <2>1
  <2>2. CASE a # Launch
    BY <2>2, OtherCalls DEF Threads
  <2> QED BY <2>1, <2>2
<1> QED BY <1>1, <1>4, <1>5 DEF Idles

\* The save of the title, if it has one, is whole.
LEMMA SaveWhole ==
  ASSUME Safe, dir["save"] # None
  PROVE  dir["save"].whole
  BY DEF Safe, AllWhole, InEffect

\* What the steps that leave the folders alone do to the calls.
LEMMA QuietKinds ==
  ASSUME Shape, Shape', Safe, exposed = "no", exposed' = "no", NEW t \in Threads, Quiet(t)
  PROVE  /\ \E a \in Threads : Begins(a) \/ Idles(a) \/ UNCHANGED call
         /\ title' = "running" => title = "running" \/ (UNCHANGED call /\ \A u \in Threads : ~Restoring(u))
<1> DEFINE Kind == \E a \in Threads : Begins(a) \/ Idles(a) \/ UNCHANGED call
           Starts == title' = "running" => title = "running" \/ (UNCHANGED call /\ \A u \in Threads : ~Restoring(u))
<1>1. FilesShape /\ CountShape /\ HostShape /\ PageShape /\ CallShape
  BY DEF Shape
<1>2. /\ call[t] \in Call /\ CallOK(call[t], Len(cloud)) /\ call \in [Threads -> Call]
  BY <1>1 DEF CallShape
<1>3. Launch \in Threads /\ Push \in Threads /\ Page \in Threads /\ Page # Launch /\ Push # Launch
  BY DEF Threads, Launch, Push, Page
<1>4. ASSUME NEW a \in Threads, Returns(a) PROVE Kind /\ Starts
  <2>1. title' = "running" <=> title = "running"
    BY <1>1, <1>4, ReturnsTitle DEF Threads
  <2> QED BY <1>4, <2>1, ReturnsIdles
<1>6. CASE LaunchPulls
  <2>1. title' \in {"ready", "pulling"}
    BY <1>6 DEF LaunchPulls
  <2>2. CASE call' # call
    <3>1. PICK op \in {"launch", "pull", "force"} :
             call' = [call EXCEPT ![Launch] = [NoCall EXCEPT !.op = op, !.at = "ask"]]
      BY <1>6, <2>2 DEF LaunchPulls
    <3>2. Moves(Launch) /\ call'[Launch].at = "ask"
      BY <1>2, <1>3, <3>1 DEF NoCall, Moves
    <3>3. ~Restoring(Launch)'
      BY <1>3, <3>2, RestoringNext
    <3>4. ZipSafe(Launch)'
      BY <3>2 DEF ZipSafe
    <3> QED BY <1>3, <1>6, <2>1, <3>2, <3>3, <3>4 DEF Idles
  <2> QED BY <1>3, <2>1, <2>2
<1>7. CASE Boot
  BY <1>3, <1>7 DEF Boot, Exposes
<1>8. CASE Exit
  <2>1. title' = "off" /\ title = "running"
    BY <1>8 DEF Exit
  <2>2. CASE call' # call
    <3>1. PICK zip \in {Folder, Torn(Folder.of)} :
            /\ ZipSave(zip)
            /\ call' = [call EXCEPT ![Push] =
                       IF host = "marker" THEN [op |-> "push", at |-> "base", zip |-> zip, number |-> 0]
                       ELSE [op |-> "captured", at |-> "put", zip |-> zip, number |-> 0]]
      BY <1>8, <2>2, Zenon DEF Exit
    <3>2. zip = Folder
      BY <1>8, <2>2, <3>1 DEF Exit, ZipSave, LeavesOut, Exposes
    <3>3. zip.whole
      BY <3>2, SaveWhole DEF Folder, Whole
    <3>4. Moves(Push) /\ call'[Push].at \in {"base", "put"} /\ call'[Push].zip = zip
      <4>1. CASE host = "marker"
        BY <1>2, <1>3, <3>1, <4>1 DEF Moves
      <4>2. CASE host # "marker"
        BY <1>2, <1>3, <3>1, <4>2 DEF Moves
      <4> QED BY <4>1, <4>2
    <3>5. ZipSafe(Push)' /\ ~Restoring(Push)'
      BY <1>3, <3>3, <3>4, RestoringNext DEF ZipSafe
    <3>6. call'[Launch] = call[Launch]
      BY <1>3, <3>4, OtherCalls
    <3> QED BY <1>3, <2>1, <3>4, <3>5, <3>6 DEF Idles
  <2> QED BY <1>3, <2>1, <2>2
<1>9. CASE Ask(t) /\ ~Returns(t)
  <2>1. /\ Newest # 0 /\ At(t, "ask") /\ UNCHANGED title
        /\ call' = [call EXCEPT ![t] = [@ EXCEPT !.at = "answer", !.number = Newest, !.zip = cloud[Newest]]]
    BY <1>9, Zenon DEF Ask
  <2>2. Newest \in DOMAIN cloud
    BY <1>1, <2>1, NewestIsLeft
  <2>3. call'[t].at = "answer" /\ call'[t].zip = cloud[Newest] /\ call'[t].op = call[t].op /\ Moves(t)
    BY <1>2, <2>1 DEF Call, Moves
  <2>4. UNCHANGED cloud
    BY <1>9, Zenon DEF Ask
  <2>5. cloud[Newest].copy.whole /\ cloud[Newest].copy.of \in Taken'
    BY <2>2, <2>4 DEF Safe, AllWhole, Taken
  <2>6. ZipSafe(t)' /\ ~Restoring(t)'
    BY <2>3, <2>5, RestoringNext DEF ZipSafe
  <2>7. call'[Launch].op = call[Launch].op
    BY <1>3, <2>3, OtherCalls
  <2> QED BY <2>1, <2>3, <2>6, <2>7 DEF Idles
<1>10. CASE Answer(t)
  <2> DEFINE pull == call[t].op \in {"pull", "force"}
             at == IF pull THEN "stage" ELSE "version"
  <2>1. At(t, "answer") /\ Goes(t, at) /\ UNCHANGED title /\ ~(pull /\ Meets(t))
    BY <1>10 DEF Answer, Exposes
  <2>2. at \in Ats
    BY DEF Ats
  <2>3. Moves(t) /\ call'[t].at = at /\ call'[t].op = call[t].op /\ call'[t].zip = call[t].zip
    <3> HIDE DEF at, pull
    <3> QED BY <1>1, <2>1, <2>2, GoesMoves
  <2>4. CASE pull
    BY <2>1, <2>3, <2>4 DEF Begins, At, Checked
  <2>5. CASE ~pull
    BY <2>1, <2>3, <2>5, ZipKept DEF At
  <2> QED BY <2>1, <2>4, <2>5
<1>11. CASE SaveVersion(t)
  <2>1. /\ At(t, "version") /\ UNCHANGED title /\ ~(call[t].op = "download" /\ Meets(t))
        /\ call' = [call EXCEPT ![t].number = memory, ![t].at = IF call[t].op = "launch" THEN "decide" ELSE "backup"]
    BY <1>11 DEF SaveVersion, Exposes
  <2>2. /\ Moves(t) /\ call'[t].op = call[t].op /\ call'[t].zip = call[t].zip
        /\ call'[t].at = IF call[t].op = "launch" THEN "decide" ELSE "backup"
    BY <1>2, <2>1 DEF Call, Moves
  <2>3. call[t].op \in Checked
    BY <1>2, <2>1 DEF CallOK, At
  <2>4. CASE call[t].op = "launch"
    BY <2>1, <2>2, <2>4, ZipKept DEF At
  <2>5. CASE call[t].op = "download"
    BY <2>1, <2>2, <2>5 DEF Begins, At
  <2> QED BY <2>1, <2>3, <2>4, <2>5 DEF Checked
<1>12. CASE Decide(t) /\ ~Returns(t)
  <2>1. /\ At(t, "decide") /\ Goes(t, "backup") /\ UNCHANGED title /\ ~Meets(t)
        /\ ~(HasLocalContent /\ marker \in {0, call[t].number})
    BY <1>12 DEF Decide, Exposes
  <2>2. Moves(t) /\ call'[t].at = "backup" /\ call'[t].op = call[t].op /\ call'[t].zip = call[t].zip
    BY <1>1, <2>1, GoesMoves DEF Ats
  <2> QED BY <2>1, <2>2 DEF Begins, At
<1>13. CASE Base(t)
  <2>1. At(t, "base") /\ Goes(t, "put") /\ UNCHANGED title
    BY <1>13, Zenon DEF Base
  <2>2. Moves(t) /\ call'[t].at = "put" /\ call'[t].op = call[t].op /\ call'[t].zip = call[t].zip
    BY <1>1, <2>1, GoesMoves DEF Ats
  <2> QED BY <2>1, <2>2, ZipKept DEF At
<1>14. CASE Put(t) /\ ~Returns(t)
  <2>1. At(t, "put") /\ call' = [call EXCEPT ![t].at = "stored", ![t].number = Len(cloud) + 1] /\ UNCHANGED title
    BY <1>14, Zenon DEF Put
  <2>2. Moves(t) /\ call'[t].at = "stored" /\ call'[t].op = call[t].op
    BY <1>2, <2>1 DEF Call, Moves
  <2> QED BY <2>1, <2>2, AtIdles
<1>15. CASE Stored(t) /\ ~Returns(t)
  <2>1. At(t, "stored") /\ Goes(t, "mark") /\ UNCHANGED title /\ call[t].op # "captured"
    BY <1>15, Zenon DEF Stored
  <2>2. Moves(t) /\ call'[t].at = "mark" /\ call'[t].op = call[t].op
    BY <1>1, <2>1, GoesMoves DEF Ats
  <2>3. call[t].op \in {"push", "upload"}
    BY <1>2, <2>1 DEF CallOK, At, Uploads
  <2> QED BY <2>1, <2>2, <2>3, AtIdles
<1>16. CASE Draw \/ Reload \/ ClickDownload \/ ClickDelete
  <2>1. UNCHANGED title
    BY <1>16, Zenon DEF Draw, Reload, ClickDownload, ClickDelete
  <2>2. Moves(Page) /\ call'[Page].at \in {"idle", "draw", "ask", "delete"} /\ call'[Page].op # "pull"
    <3>1. CASE Draw
      BY <1>2, <1>3, <3>1 DEF Draw, NoCall, Moves
    <3>2. CASE Reload
      <4>1. Goes(Page, "draw") /\ call[Page].op = "none"
        BY <1>1, <1>3, <3>2 DEF Reload, At, CallShape, CallOK
      <4> QED BY <1>1, <1>3, <4>1, GoesMoves DEF Ats
    <3>3. CASE ClickDownload
      <4>1. call' = [call EXCEPT ![Page] = [NoCall EXCEPT !.op = "download", !.at = "ask"]]
        BY <3>3, Zenon DEF ClickDownload
      <4> QED BY <1>2, <1>3, <4>1 DEF NoCall, Moves
    <3>4. CASE ClickDelete
      <4>1. call' = [call EXCEPT ![Page] =
                        [NoCall EXCEPT !.op = "delete", !.at = "delete", !.zip = drawn.versions]]
        BY <3>4, Zenon DEF ClickDelete
      <4> QED BY <1>2, <1>3, <4>1 DEF NoCall, Moves
    <3> QED BY <1>16, <3>1, <3>2, <3>3, <3>4
  <2> QED BY <1>3, <2>1, <2>2, AtIdles
<1>17. CASE ClickUpload
  <2>1. UNCHANGED title
    BY <1>17, Zenon DEF ClickUpload
  <2>2. CASE Goes(Page, "draw")
    <3>1. call[Page].op = "none"
      BY <1>1, <1>3, <1>17 DEF ClickUpload, At, CallShape, CallOK
    <3>2. Moves(Page) /\ call'[Page].at = "draw" /\ call'[Page].op = "none"
      BY <1>1, <1>3, <2>2, <3>1, GoesMoves DEF Ats
    <3> QED BY <1>3, <2>1, <3>2, AtIdles
  <2>3. CASE ~Goes(Page, "draw")
    <3>1. /\ call' = [call EXCEPT ![Page] = [NoCall EXCEPT !.op = "upload", !.at = "put", !.zip = dir["save"]]]
          /\ dir["save"] # None
      BY <1>17, <2>3, Zenon DEF ClickUpload, HasLocalContent
    <3>2. Moves(Page) /\ call'[Page].at = "put" /\ call'[Page].zip = dir["save"]
      BY <1>2, <1>3, <3>1 DEF NoCall, Moves
    <3>3. ZipSafe(Page)' /\ ~Restoring(Page)'
      BY <1>3, <3>1, <3>2, SaveWhole, RestoringNext DEF ZipSafe
    <3>4. call'[Launch] = call[Launch]
      BY <1>3, <3>2, OtherCalls
    <3> QED BY <1>3, <2>1, <3>2, <3>3, <3>4 DEF Idles
  <2> QED BY <2>2, <2>3
<1>18. CASE Delete
  <2>1. Returns(Page) \/ UNCHANGED <<call, title>>
    BY <1>18, Zenon DEF Delete
  <2> QED BY <1>3, <1>4, <2>1
<1>19. CASE SignIn \/ Elsewhere
  <2>1. UNCHANGED <<call, title>>
    BY <1>19, Zenon DEF SignIn, Elsewhere
  <2> QED BY <2>1
<1>20. CASE Rejected(t) \/ Unreachable(t)
  <2>1. Returns(t)
    BY <1>20, Zenon DEF Rejected, Unreachable, Fails
  <2> QED BY <1>4, <2>1
<1> QED
  BY <1>4, <1>6, <1>7, <1>8, <1>9, <1>10, <1>11, <1>12, <1>13, <1>14, <1>15, <1>16, <1>17, <1>18, <1>19,
     <1>20, Zenon DEF Quiet

\* What a call has in hand, and what it found, is kept by a step that changes neither
\* the call nor the folders.
LEMMA OthersKeep ==
  ASSUME Safe, NEW u \in Threads, call'[u] = call[u], UNCHANGED <<dir, stager>>,
         marker' = marker \/ marker' # 0, Taken \subseteq Taken'
  PROVE  FilesSafe(u)' /\ Tied(u)'
<1>1. FilesSafe(u) /\ Tied(u)
  BY DEF Safe
<1>2. FilesSafe(u)'
  BY <1>1 DEF FilesSafe, Restoring, HasLocalContent
<1>3. Tied(u)'
  BY <1>1 DEF Tied, HasLocalContent
<1> QED BY <1>2, <1>3

\* The archive of a thread that does not move stays safe while the copies taken only grow.
LEMMA ZipsKeep ==
  ASSUME Safe, NEW u \in Threads, call'[u] = call[u], Taken \subseteq Taken'
  PROVE  ZipSafe(u)'
<1>1. ZipSafe(u)
  BY DEF Safe
<1> QED BY <1>1 DEF ZipSafe

\* A call that does not restore asks nothing of the folders.
LEMMA IdleKeeps ==
  ASSUME Shape', NEW u \in Threads, ~Restoring(u)'
  PROVE  FilesSafe(u)' /\ Tied(u)'
<1>1. call'[u].at \notin {"backup", "copy", "stage", "extract", "aside", "inplace", "clear"}
  BY RestoringNext
<1> QED BY <1>1 DEF FilesSafe, Tied

\* The steps that leave the folders alone keep the invariant.
LEMMA QuietSafe ==
  ASSUME Shape, Shape', Safe, exposed = "no", exposed' = "no", NEW t \in Threads, Quiet(t)
  PROVE  Safe'
<1>1. UNCHANGED <<dir, stager, marker>>
  BY QuietFiles DEF files
<1>2. /\ Taken \subseteq Taken' /\ \A p : InCloud(p) => InCloud(p)'
      /\ \A n \in DOMAIN cloud' : cloud'[n].copy.whole
  BY CloudSafe
<1>3. PICK a \in Threads : Begins(a) \/ Idles(a) \/ UNCHANGED call
  BY QuietKinds
<1>4. \A u \in Threads \ {a} : call'[u] = call[u] /\ (Restoring(u)' <=> Restoring(u))
  BY <1>3, OtherCalls DEF Begins, Idles, Restoring
<1>5. AllWhole'
  BY <1>1, <1>2 DEF Safe, AllWhole, InEffect
<1>6. Restoring(a)' => Restoring(a) \/ Begins(a)
  BY <1>3 DEF Idles, Restoring
<1>7. Alone'
  <2>1. ASSUME NEW u \in Threads, NEW v \in Threads, Restoring(u)', Restoring(v)', u # v PROVE FALSE
    <3>1. CASE Begins(a)
      BY <1>4, <2>1, <3>1 DEF Begins, Meets, Safe, Alone
    <3>2. CASE ~Begins(a)
      BY <1>4, <1>6, <2>1, <3>2 DEF Safe, Alone
    <3> QED BY <3>1, <3>2
  <2>2. ASSUME NEW u \in Threads, Restoring(u)', title' = "running" PROVE FALSE
    <3>1. title = "running" \/ (UNCHANGED call /\ \A v \in Threads : ~Restoring(v))
      BY <2>2, QuietKinds
    <3>2. UNCHANGED call => (Restoring(u)' <=> Restoring(u))
      BY DEF Restoring
    <3>3. CASE Begins(a)
      BY <1>4, <2>2, <3>1, <3>2, <3>3 DEF Begins, Meets, Safe, Alone
    <3>4. CASE ~Begins(a)
      BY <1>4, <1>6, <2>2, <3>1, <3>2, <3>4 DEF Safe, Alone
    <3> QED BY <3>3, <3>4
  <2> QED BY <2>1, <2>2 DEF Alone
<1>8. PullSafe'
  <2>1. SUFFICES ASSUME call'[Launch].op = "pull" PROVE PullSafe'
    BY DEF PullSafe
  <2>2. InEffect' = InEffect /\ (Aside' <=> Aside) /\ (Aside \in BOOLEAN)
    BY <1>1 DEF InEffect, Aside
  <2>3. Launch \in Threads
    BY DEF Threads
  <2>4. CASE LaunchPulls /\ call[Launch].op # "pull"
    <3>1. ~HasLocalContent /\ ~\E u \in Threads : Restoring(u)
      <4>1. PICK op \in {"launch", "pull", "force"} :
              /\ \/ op = "pull" => ~HasLocalContent
                 \/ UNCHANGED call
              /\ \/ call' = [call EXCEPT ![Launch] = [NoCall EXCEPT !.op = op, !.at = "ask"]]
                 \/ UNCHANGED call
              /\ Exposes("met", op = "pull" /\ \E u \in Threads : Restoring(u))
        BY <2>4 DEF LaunchPulls
      <4>2. call' # call
        BY <2>1, <2>4
      <4>3. op = "pull"
        BY <2>1, <2>3, <4>1, <4>2 DEF Shape, CallShape, NoCall
      <4> QED BY <4>1, <4>2, <4>3 DEF Exposes
    <3>2. UNCHANGED cloud
      BY <2>4 DEF LaunchPulls
    <3>3. \A u \in Threads : ~Restoring(u)'
      <4>1. ~Begins(a)
        BY <2>4 DEF Begins, LaunchPulls
      <4> QED BY <1>4, <1>6, <3>1, <4>1
    <3>4. \A u \in Threads : call'[u].at # "inplace"
      BY <3>3, RestoringNext
    <3>5. ~Aside => InEffect = Whole({})
      BY <3>1 DEF Aside, InEffect, HasLocalContent
    <3>6. InEffect = Whole({}) => InEffect.of = {}
      BY DEF Whole
    <3> QED BY <2>2, <3>4, <3>5, <3>6 DEF PullSafe
  <2>5. CASE call[Launch].op = "pull"
    <3>1. CASE Aside /\ \A u \in Threads : call[u].at # "inplace"
      <4>1. call'[a].at # "inplace"
        <5>1. CASE Begins(a)
          BY <5>1 DEF Begins
        <5>2. CASE Idles(a)
          BY <5>2, RestoringNext DEF Idles
        <5>3. CASE UNCHANGED call
          BY <3>1, <5>3
        <5> QED BY <1>3, <5>1, <5>2, <5>3
      <4> QED BY <1>4, <2>2, <3>1, <4>1 DEF PullSafe
    <3>2. CASE \A p \in InEffect.of : InCloud(p)
      BY <1>2, <2>2, <3>2 DEF PullSafe
    <3> QED BY <2>5, <3>1, <3>2 DEF Safe, PullSafe
  <2>6. call[Launch].op = "pull" \/ LaunchPulls
    <3>1. CASE Begins(a)
      BY <1>4, <2>1, <2>3, <3>1 DEF Begins
    <3> QED BY <1>3, <2>1, <3>1 DEF Idles
  <2> QED BY <2>4, <2>5, <2>6
<1>9. ASSUME NEW u \in Threads PROVE ZipSafe(u)' /\ FilesSafe(u)' /\ Tied(u)'
  <2>1. CASE u # a \/ UNCHANGED call
    BY <1>1, <1>2, <1>4, <2>1, OthersKeep, ZipsKeep
  <2>2. CASE u = a /\ Idles(a)
    BY <2>2, IdleKeeps DEF Idles
  <2>3. CASE u = a /\ Begins(a)
    <3>1. ZipSafe(a)
      BY DEF Safe
    <3>2. ZipSafe(a)'
      BY <1>2, <2>3, <3>1 DEF Begins, ZipSafe
    <3>3. FilesSafe(a)'
      BY <2>3 DEF Begins, FilesSafe
    <3>4. Tied(a)'
      BY <1>1, <2>3 DEF Begins, Tied, HasLocalContent, Checked
    <3> QED BY <2>3, <3>2, <3>3, <3>4
  <2> QED BY <1>3, <2>1, <2>2, <2>3
<1> QED BY <1>5, <1>7, <1>8, <1>9 DEF Safe

\* What a step of the restore by t has to show.
LEMMA RestorerSafe ==
  ASSUME Shape, Shape', Safe, NEW t \in Threads, Files(t), Restoring(t), Moves(t),
         title' = "running" => title = "running",
         InEffect'.whole, ZipSafe(t)', FilesSafe(t)', Tied(t)', PullSafe'
  PROVE  Safe'
<1>1. /\ Taken \subseteq Taken' /\ \A n \in DOMAIN cloud' : cloud'[n].copy.whole
  BY CloudSafe
<1>2. \A u \in Threads \ {t} : call'[u] = call[u] /\ ~Restoring(u)'
  BY OtherCalls DEF Safe, Alone
<1>3. AllWhole'
  BY <1>1 DEF AllWhole
<1>4. title # "running"
  BY DEF Safe, Alone
<1>5. Alone'
  BY <1>2, <1>4 DEF Alone
<1>6. ASSUME NEW u \in Threads PROVE ZipSafe(u)' /\ FilesSafe(u)' /\ Tied(u)'
  BY <1>1, <1>2, IdleKeeps, ZipsKeep
<1> QED BY <1>3, <1>5, <1>6 DEF Safe

\* A pull that is under way stays safe while the save in effect does not change.
LEMMA PullKept ==
  ASSUME Shape, Safe, NEW t \in Threads, Quiet(t) \/ Files(t), Moves(t),
         call'[t].op \in {call[t].op, "none"}, InEffect' = InEffect,
         Aside => Aside' /\ call'[t].at # "inplace"
  PROVE  PullSafe'
<1>1. \A u \in Threads \ {t} : call'[u] = call[u]
  BY OtherCalls
<1>2. call'[Launch].op = "pull" => call[Launch].op = "pull"
  BY <1>1 DEF Threads
<1>3. \A p : InCloud(p) => InCloud(p)'
  BY CloudSafe
<1>4. PullSafe
  BY DEF Safe
<1> QED BY <1>1, <1>2, <1>3, <1>4 DEF PullSafe

\* A restore that returned is over.
LEMMA ReturnsSafe ==
  ASSUME Shape, Shape', Safe, NEW t \in Threads, Files(t), Restoring(t), Returns(t),
         InEffect' = InEffect, Aside => Aside'
  PROVE  Safe'
<1>1. Moves(t) /\ call'[t].at \in {"idle", "draw"} /\ call'[t].op = "none"
  BY ReturnsMoves DEF Shape
<1>2. ~Restoring(t)'
  BY <1>1, RestoringNext
<1>3. ZipSafe(t)' /\ FilesSafe(t)' /\ Tied(t)'
  BY <1>1, <1>2, IdleKeeps DEF ZipSafe
<1>4. PullSafe'
  BY <1>1, PullKept
<1>5. title' = "running" => title = "running"
  BY ReturnsTitle DEF Shape, Threads
<1>6. InEffect'.whole
  BY DEF Safe, AllWhole
<1> QED BY <1>1, <1>3, <1>4, <1>5, <1>6, RestorerSafe

\* The folders are there to be looked up.
LEMMA FolderTypes ==
  ASSUME Shape
  PROVE  /\ dir \in [Dirs -> Copy \cup {None}]
         /\ dir = [d \in Dirs |-> dir[d]]
         /\ "save" \in Dirs /\ "new" \in Dirs /\ "old" \in Dirs /\ "backup" \in Dirs
         /\ \A d \in Dirs : dir[d] # None => dir[d] \in Copy
  BY DEF Shape, FilesShape, Dirs

\* Making the backup keeps every play, and leaves the save in effect.
LEMMA BackupSafe ==
  ASSUME Shape, Shape', Safe, exposed = "no", exposed' = "no", NEW t \in Threads, Backup(t)
  PROVE  Safe' /\ InEffect' = InEffect
<1>1. Files(t) /\ At(t, "backup") /\ UNCHANGED <<title, marker, stager, cloud>>
  BY Zenon DEF Files, Backup
<1>2. Restoring(t)
  BY <1>1, RestoringAt DEF At
<1>3. call[t].op \in Checked
  BY <1>1 DEF At, Shape, CallShape, CallOK
<1>4. ZipSafe(t) /\ Tied(t)
  BY DEF Safe
<1>5. CASE HasLocalContent
  <2>1. Goes(t, "copy") /\ dir' = [dir EXCEPT !["backup"] = Torn(dir["save"].of)]
    BY <1>5, Zenon DEF Backup
  <2>2. Moves(t) /\ call'[t].at = "copy" /\ call'[t].op = call[t].op /\ call'[t].zip = call[t].zip
    BY <2>1, GoesMoves DEF Shape, Ats
  <2>3. /\ dir'["save"] = dir["save"] /\ dir'["old"] = dir["old"]
        /\ dir'["backup"] = Torn(dir["save"].of) /\ dir["save"] # None
    BY <1>5, <2>1, FolderTypes DEF HasLocalContent
  <2>4. InEffect' = InEffect /\ ~Aside
    BY <2>3 DEF InEffect, Aside
  <2>5. ZipSafe(t)'
    BY <1>1, <1>4, <2>2 DEF ZipSafe, At, Taken
  <2>6. FilesSafe(t)'
    BY <2>2, <2>3 DEF FilesSafe
  <2>7. Tied(t)'
    BY <1>1, <1>4, <2>2, <2>3 DEF Tied, At, HasLocalContent
  <2>8. PullSafe'
    BY <1>1, <2>2, <2>4, PullKept
  <2>9. InEffect'.whole
    BY <2>4 DEF Safe, AllWhole
  <2> QED BY <1>1, <1>2, <2>2, <2>4, <2>5, <2>6, <2>7, <2>8, <2>9, RestorerSafe
<1>6. CASE ~HasLocalContent
  <2>1. Goes(t, "stage") /\ dir' = [dir EXCEPT !["save"] = Whole({})] /\ ~Aside
    BY <1>6 DEF Backup, Exposes
  <2>2. Moves(t) /\ call'[t].at = "stage" /\ call'[t].op = call[t].op /\ call'[t].zip = call[t].zip
    BY <2>1, GoesMoves DEF Shape, Ats
  <2>3. dir'["save"] = Whole({}) /\ dir'["old"] = dir["old"] /\ Whole({}) # None
    BY <2>1, FolderTypes, CopiesMade, CopyParts
  <2>4. InEffect' = InEffect
    BY <1>6, <2>1, <2>3 DEF InEffect, Aside, HasLocalContent
  <2>5. ZipSafe(t)'
    BY <1>1, <1>4, <2>2 DEF ZipSafe, At, Taken
  <2>6. FilesSafe(t)'
    BY <2>2, <2>3 DEF FilesSafe, HasLocalContent
  <2>7. Tied(t)'
    BY <2>2, <2>3 DEF Tied, HasLocalContent
  <2>8. PullSafe'
    BY <1>1, <2>1, <2>2, <2>4, PullKept
  <2>9. InEffect'.whole
    BY <2>4 DEF Safe, AllWhole
  <2> QED BY <1>1, <1>2, <2>2, <2>4, <2>5, <2>6, <2>7, <2>8, <2>9, RestorerSafe
<1> QED BY <1>5, <1>6

\* The copy of the backup keeps every play, and leaves the save in effect.
LEMMA CopiedSafe ==
  ASSUME Shape, Shape', Safe, exposed = "no", exposed' = "no", NEW t \in Threads, Copied(t)
  PROVE  Safe' /\ InEffect' = InEffect
<1>1. Files(t) /\ At(t, "copy") /\ UNCHANGED <<marker, stager, cloud>>
  BY Zenon DEF Files, Copied
<1>2. Restoring(t)
  BY <1>1, RestoringAt DEF At
<1>3. ZipSafe(t) /\ Tied(t) /\ dir["save"] # None /\ dir["backup"] = Torn(dir["save"].of)
  BY <1>1, <1>2 DEF Safe, FilesSafe, At
<1>4. CASE Returns(t)
  <2>1. dir'["save"] = dir["save"] /\ dir'["old"] = dir["old"]
    BY <1>1, FolderTypes DEF Copied
  <2>2. InEffect' = InEffect /\ ~Aside
    BY <1>3, <2>1 DEF InEffect, Aside
  <2> QED BY <1>1, <1>2, <1>4, <2>2, ReturnsSafe
<1>5. CASE ~Returns(t)
  <2>1. /\ dir' = [dir EXCEPT !["backup"] = [dir["save"] EXCEPT !.whole = @ /\ dir["save"].of = dir["backup"].of]]
        /\ Goes(t, "stage") /\ UNCHANGED title
    BY <1>5, Zenon DEF Copied, Fails
  <2>2. Moves(t) /\ call'[t].at = "stage" /\ call'[t].op = call[t].op /\ call'[t].zip = call[t].zip
    BY <2>1, GoesMoves DEF Shape, Ats
  <2>3. dir["save"] \in Copy /\ dir["save"].whole
    BY <1>3, FolderTypes, SaveWhole
  <2>4. dir["backup"].of = dir["save"].of
    BY <1>3 DEF Torn
  <2>5. [dir["save"] EXCEPT !.whole = @ /\ dir["save"].of = dir["backup"].of] = dir["save"]
    BY <2>3, <2>4 DEF Copy
  <2>6. dir'["save"] = dir["save"] /\ dir'["old"] = dir["old"] /\ dir'["backup"] = dir["save"]
    BY <2>1, <2>5, FolderTypes
  <2>7. InEffect' = InEffect /\ ~Aside
    BY <1>3, <2>6 DEF InEffect, Aside
  <2>8. ZipSafe(t)'
    BY <1>1, <1>3, <2>2 DEF ZipSafe, At, Taken
  <2>9. FilesSafe(t)'
    BY <2>2, <2>6 DEF FilesSafe
  <2>10. Tied(t)'
    BY <1>1, <1>3, <2>2, <2>6 DEF Tied, At, HasLocalContent
  <2>11. PullSafe'
    BY <1>1, <2>2, <2>7, PullKept
  <2>12. InEffect'.whole
    BY <2>7 DEF Safe, AllWhole
  <2> QED BY <1>1, <1>2, <2>1, <2>2, <2>7, <2>8, <2>9, <2>10, <2>11, <2>12, RestorerSafe
<1> QED BY <1>4, <1>5

\* Clearing the staging directory keeps every play, and leaves the save in effect.
LEMMA StageSafe ==
  ASSUME Shape, Shape', Safe, exposed = "no", exposed' = "no", NEW t \in Threads, Stage(t)
  PROVE  Safe' /\ InEffect' = InEffect
<1>1. /\ Files(t) /\ At(t, "stage") /\ UNCHANGED <<marker, cloud, title>> /\ stager' = t /\ Goes(t, "extract")
      /\ dir' = [dir EXCEPT !["new"] = Torn({})]
  BY Zenon DEF Files, Stage
<1>2. Restoring(t)
  BY <1>1, RestoringAt DEF At
<1>3. ZipSafe(t) /\ Tied(t) /\ FilesSafe(t)
  BY DEF Safe
<1>4. Moves(t) /\ call'[t].at = "extract" /\ call'[t].op = call[t].op /\ call'[t].zip = call[t].zip
  BY <1>1, GoesMoves DEF Shape, Ats
<1>5. dir'["save"] = dir["save"] /\ dir'["old"] = dir["old"] /\ dir'["backup"] = dir["backup"]
  BY <1>1, FolderTypes
<1>6. InEffect' = InEffect /\ (Aside => Aside')
  BY <1>5 DEF InEffect, Aside
<1>7. ZipSafe(t)'
  BY <1>1, <1>3, <1>4 DEF ZipSafe, At, Taken
<1>8. FilesSafe(t)'
  BY <1>1, <1>2, <1>3, <1>4, <1>5 DEF FilesSafe, At, HasLocalContent
<1>9. Tied(t)'
  BY <1>1, <1>3, <1>4, <1>5 DEF Tied, At, HasLocalContent
<1>10. PullSafe'
  BY <1>1, <1>4, <1>6, PullKept
<1>11. InEffect'.whole
  BY <1>6 DEF Safe, AllWhole
<1> QED BY <1>1, <1>2, <1>4, <1>6, <1>7, <1>8, <1>9, <1>10, <1>11, RestorerSafe

\* Extracting beside the save keeps every play, and leaves the save in effect.
LEMMA ExtractSafe ==
  ASSUME Shape, Shape', Safe, exposed = "no", exposed' = "no", NEW t \in Threads, Extract(t)
  PROVE  Safe' /\ InEffect' = InEffect
<1>1. Files(t) /\ At(t, "extract") /\ UNCHANGED <<marker, cloud>>
  BY Zenon DEF Files, Extract
<1>2. Restoring(t)
  BY <1>1, RestoringAt DEF At
<1>3. ZipSafe(t) /\ Tied(t) /\ FilesSafe(t) /\ stager = t
  BY <1>1, <1>2 DEF Safe, FilesSafe, At
<1>4. dir'["save"] = dir["save"] /\ dir'["old"] = dir["old"] /\ dir'["backup"] = dir["backup"]
  BY FolderTypes DEF Extract
<1>5. InEffect' = InEffect /\ (Aside => Aside')
  BY <1>4 DEF InEffect, Aside
<1>6. CASE Returns(t)
  BY <1>1, <1>2, <1>5, <1>6, ReturnsSafe
<1>7. CASE ~Returns(t)
  <2>1. /\ dir' = [dir EXCEPT !["new"] = [call[t].zip.copy EXCEPT !.whole = @ /\ stager = t]]
        /\ call' = [call EXCEPT ![t].at = "aside", ![t].zip = None] /\ UNCHANGED title
    BY <1>7, Zenon DEF Extract, Fails
  <2>2. Moves(t) /\ call'[t].at = "aside" /\ call'[t].op = call[t].op
    BY <2>1 DEF Shape, CallShape, Call, Moves
  <2>3. call[t].zip.copy \in Copy
    BY <1>1 DEF Shape, CallShape, CallOK, At, Version
  <2>4. call[t].zip.copy.whole /\ call[t].zip.copy.of \in Taken
    BY <1>1, <1>3 DEF ZipSafe, At
  <2>5. dir'["new"].whole /\ dir'["new"].of \in Taken'
    <3>1. dir'["new"] = [call[t].zip.copy EXCEPT !.whole = @ /\ stager = t]
      BY <2>1, FolderTypes
    <3>2. Taken' = Taken
      BY <1>1 DEF Taken
    <3> QED BY <1>3, <2>3, <2>4, <3>1, <3>2 DEF Copy
  <2>6. ZipSafe(t)'
    BY <2>2 DEF ZipSafe
  <2>7. FilesSafe(t)'
    BY <1>1, <1>2, <1>3, <1>4, <2>2, <2>5 DEF FilesSafe, At, HasLocalContent
  <2>8. Tied(t)'
    BY <1>1, <1>3, <1>4, <2>2 DEF Tied, At, HasLocalContent
  <2>9. PullSafe'
    BY <1>1, <1>5, <2>2, PullKept
  <2>10. InEffect'.whole
    BY <1>5 DEF Safe, AllWhole
  <2> QED BY <1>1, <1>2, <1>5, <2>1, <2>2, <2>6, <2>7, <2>8, <2>9, <2>10, RestorerSafe
<1> QED BY <1>6, <1>7

\* Moving the save aside keeps every play: the save aside is the one in effect.
LEMMA SetAsideSafe ==
  ASSUME Shape, Shape', Safe, exposed = "no", exposed' = "no", NEW t \in Threads, SetAside(t)
  PROVE  Safe' /\ InEffect' = InEffect
<1>1. Files(t) /\ At(t, "aside") /\ UNCHANGED <<marker, cloud, stager>>
  BY Zenon DEF Files, SetAside
<1>2. Restoring(t) /\ ~Aside
  BY <1>1, RestoringAt DEF At, SetAside, Exposes
<1>3. ZipSafe(t) /\ Tied(t) /\ FilesSafe(t)
  BY DEF Safe
<1>4. CASE Returns(t)
  <2>1. CASE dir' = [dir EXCEPT !["old"] = None, !["new"] = None] /\ dir["save"] # None
    <3>1. dir'["save"] = dir["save"] /\ dir["save"] # None
      BY <2>1, FolderTypes
    <3>2. InEffect' = InEffect
      BY <3>1 DEF InEffect
    <3> QED BY <1>1, <1>2, <1>4, <3>2, ReturnsSafe
  <2>2. CASE Goes(t, "inplace")
    <3>1. call'[t].at = "inplace"
      BY <2>2, GoesMoves DEF Shape, Ats
    <3>2. call'[t].at \in {"idle", "draw"}
      BY <1>4, ReturnsMoves DEF Shape
    <3> QED BY <3>1, <3>2
  <2> QED BY <2>1, <2>2, Zenon DEF SetAside
<1>5. CASE ~Returns(t)
  <2>1. /\ dir' = [dir EXCEPT !["old"] = dir["save"], !["save"] = None]
        /\ Goes(t, "inplace") /\ UNCHANGED title
    BY <1>5, Zenon DEF SetAside, Fails
  <2>2. Moves(t) /\ call'[t].at = "inplace" /\ call'[t].op = call[t].op
    BY <2>1, GoesMoves DEF Shape, Ats
  <2>3. /\ dir'["save"] = None /\ dir'["old"] = dir["save"]
        /\ dir'["backup"] = dir["backup"] /\ dir'["new"] = dir["new"]
    BY <2>1, FolderTypes
  <2>4. InEffect' = InEffect
    BY <1>2, <2>3 DEF InEffect, Aside
  <2>5. ZipSafe(t)'
    BY <2>2 DEF ZipSafe
  <2>6. FilesSafe(t)'
    <3>1. Taken' = Taken
      BY <1>1 DEF Taken
    <3>2. dir["new"] = None \/ (dir["new"].whole /\ dir["new"].of \in Taken)
      BY <1>1, <1>2, <1>3 DEF FilesSafe, At
    <3>3. call[t].op \in Checked => dir["save"] \in {None, Whole({})} \/ dir["backup"] = dir["save"]
      BY <1>1, <1>2, <1>3 DEF FilesSafe, At, HasLocalContent
    <3> QED BY <2>2, <2>3, <3>1, <3>2, <3>3 DEF FilesSafe
  <2>7. Tied(t)'
    BY <1>1, <1>3, <2>2, <2>3 DEF Tied, At, HasLocalContent
  <2>8. PullSafe'
    BY <1>1, <1>2, <2>2, <2>4, PullKept
  <2>9. InEffect'.whole
    BY <2>4 DEF Safe, AllWhole
  <2> QED BY <1>1, <1>2, <2>1, <2>2, <2>4, <2>5, <2>6, <2>7, <2>8, <2>9, RestorerSafe
<1> QED BY <1>4, <1>5

\* Moving the new save in place keeps every play, and is the only step that changes the save in effect.
LEMMA SwapInSafe ==
  ASSUME Shape, Shape', Safe, exposed = "no", exposed' = "no", NEW t \in Threads, SwapIn(t)
  PROVE  /\ Safe'
         /\ \/ InEffect' = InEffect
            \/ /\ call'[t].at = "clear" /\ dir["save"] = None /\ dir["new"] # None
               /\ InEffect' = dir["new"] /\ dir'["backup"] = dir["backup"]
<1>1. Files(t) /\ At(t, "inplace") /\ UNCHANGED <<marker, cloud, stager>>
  BY Zenon DEF Files, SwapIn
<1>2. Restoring(t)
  BY <1>1, RestoringAt DEF At
<1>3. /\ Tied(t) /\ dir["save"] = None
      /\ dir["new"] = None \/ (dir["new"].whole /\ dir["new"].of \in Taken)
  BY <1>1, <1>2 DEF Safe, FilesSafe, At
<1>4. CASE Returns(t)
  <2>1. ~Goes(t, "clear")
    <3>1. Goes(t, "clear") => call'[t].at = "clear"
      BY GoesMoves DEF Shape, Ats
    <3>2. call'[t].at \in {"idle", "draw"}
      BY <1>4, ReturnsMoves DEF Shape
    <3> QED BY <3>1, <3>2
  <2>2. \/ dir["old"] # None /\ dir' = [dir EXCEPT !["new"] = None, !["save"] = dir["old"], !["old"] = None]
        \/ dir' = [dir EXCEPT !["new"] = None]
    BY <2>1 DEF SwapIn
  <2>3. \/ dir["old"] # None /\ dir'["save"] = dir["old"] /\ dir'["old"] = None
        \/ dir'["save"] = dir["save"] /\ dir'["old"] = dir["old"]
    BY <2>2, FolderTypes
  <2>4. InEffect' = InEffect
    BY <1>3, <2>3 DEF InEffect
  <2>5. PullSafe
    BY DEF Safe
  <2>6. Moves(t) /\ call'[t].at \in {"idle", "draw"} /\ call'[t].op = "none"
    BY <1>4, ReturnsMoves DEF Shape
  <2>7. ~Restoring(t)'
    BY <2>6, RestoringNext
  <2>8. ZipSafe(t)' /\ FilesSafe(t)' /\ Tied(t)'
    BY <2>6, <2>7, IdleKeeps DEF ZipSafe
  <2>9. PullSafe'
    <3>1. SUFFICES ASSUME call'[Launch].op = "pull" PROVE \A p \in InEffect'.of : InCloud(p)'
      BY DEF PullSafe
    <3>2. call[Launch].op = "pull"
      BY <2>6, <3>1, OtherCalls DEF Threads
    <3>3. \A p \in InEffect.of : InCloud(p)
      BY <1>1, <2>5, <3>2 DEF PullSafe, At
    <3>4. \A p : InCloud(p) => InCloud(p)'
      BY <1>1, CloudSafe
    <3> QED BY <2>4, <3>3, <3>4
  <2>10. title' = "running" => title = "running"
    BY <1>4, ReturnsTitle DEF Shape, Threads
  <2>11. InEffect'.whole
    BY <2>4 DEF Safe, AllWhole
  <2> QED BY <1>1, <1>2, <2>4, <2>6, <2>8, <2>9, <2>10, <2>11, RestorerSafe
<1>5. CASE ~Returns(t)
  <2>1. /\ dir["new"] # None /\ dir' = [dir EXCEPT !["save"] = dir["new"], !["new"] = None]
        /\ Goes(t, "clear") /\ UNCHANGED title
    BY <1>5, Zenon DEF SwapIn, Fails
  <2>2. Moves(t) /\ call'[t].at = "clear" /\ call'[t].op = call[t].op
    BY <2>1, GoesMoves DEF Shape, Ats
  <2>3. dir'["save"] = dir["new"] /\ dir'["backup"] = dir["backup"]
    BY <2>1, FolderTypes
  <2>4. InEffect' = dir["new"]
    BY <2>1, <2>3 DEF InEffect
  <2>5. ZipSafe(t)' /\ Tied(t)'
    BY <2>2 DEF ZipSafe, Tied
  <2>6. FilesSafe(t)'
    BY <2>1, <2>2, <2>3 DEF FilesSafe
  <2>7. PullSafe'
    <3>1. PICK n \in DOMAIN cloud : cloud[n].copy.of = dir["new"].of
      BY <1>3, <2>1 DEF Taken
    <3>2. cloud[n].copy.whole
      BY DEF Safe, AllWhole
    <3>3. \A p \in dir["new"].of : InCloud(p)
      BY <3>1, <3>2 DEF InCloud
    <3>4. \A p : InCloud(p) => InCloud(p)'
      BY <1>1, CloudSafe
    <3> QED BY <2>4, <3>3, <3>4 DEF PullSafe
  <2>8. InEffect'.whole
    BY <1>3, <2>1, <2>4
  <2>9. Safe'
    BY <1>1, <1>2, <2>1, <2>2, <2>5, <2>6, <2>7, <2>8, RestorerSafe
  <2> QED BY <1>3, <2>1, <2>2, <2>3, <2>4, <2>9
<1> QED BY <1>4, <1>5

\* Clearing what a restore left behind keeps every play, and leaves the save in effect.
LEMMA ClearSafe ==
  ASSUME Shape, Shape', Safe, exposed = "no", exposed' = "no", NEW t \in Threads, Clear(t)
  PROVE  Safe' /\ InEffect' = InEffect
<1>1. Files(t) /\ At(t, "clear") /\ UNCHANGED <<marker, cloud, stager>> /\ dir' = [dir EXCEPT !["old"] = None]
  BY Zenon DEF Files, Clear
<1>2. Restoring(t)
  BY <1>1, RestoringAt DEF At
<1>3. dir["save"] # None
  BY <1>1, <1>2 DEF Safe, FilesSafe, At
<1>4. dir'["save"] = dir["save"]
  BY <1>1, FolderTypes
<1>5. InEffect' = InEffect /\ ~Aside
  BY <1>3, <1>4 DEF InEffect, Aside
<1>6. CASE Returns(t)
  BY <1>1, <1>2, <1>5, <1>6, ReturnsSafe
<1>7. CASE ~Returns(t)
  <2>1. Goes(t, "mark") /\ UNCHANGED title
    BY <1>7, Zenon DEF Clear
  <2>2. Moves(t) /\ call'[t].at = "mark" /\ call'[t].op = call[t].op
    BY <2>1, GoesMoves DEF Shape, Ats
  <2>3. ZipSafe(t)' /\ Tied(t)' /\ FilesSafe(t)'
    BY <2>2 DEF ZipSafe, Tied, FilesSafe
  <2>4. PullSafe'
    BY <1>1, <1>5, <2>2, PullKept
  <2>5. InEffect'.whole
    BY <1>5 DEF Safe, AllWhole
  <2> QED BY <1>1, <1>2, <1>5, <2>1, <2>2, <2>3, <2>4, <2>5, RestorerSafe
<1> QED BY <1>6, <1>7

\* Writing the marker, by a restore or by an upload.
LEMMA MarkSafe ==
  ASSUME Shape, Shape', Safe, exposed = "no", exposed' = "no", NEW t \in Threads, Mark(t)
  PROVE  Safe' /\ InEffect' = InEffect
<1>1. Files(t) /\ At(t, "mark") /\ UNCHANGED <<dir, cloud, stager>> /\ Returns(t)
  BY Zenon DEF Files, Mark
<1>2. marker' = marker \/ marker' # 0
  BY DEF Mark
<1>3. InEffect' = InEffect /\ (Aside' <=> Aside)
  BY <1>1 DEF InEffect, Aside
<1>4. Moves(t) /\ call'[t].at \in {"idle", "draw"} /\ call'[t].op = "none"
  BY <1>1, ReturnsMoves DEF Shape
<1>5. ~Restoring(t)'
  BY <1>4, RestoringNext
<1>6. \A u \in Threads \ {t} : call'[u] = call[u] /\ (Restoring(u)' <=> Restoring(u))
  BY <1>4, OtherCalls
<1>7. Taken \subseteq Taken' /\ \A n \in DOMAIN cloud' : cloud'[n].copy.whole
  BY <1>1, CloudSafe
<1>8. AllWhole'
  BY <1>3, <1>7 DEF Safe, AllWhole
<1>9. title' = "running" => title = "running"
  BY <1>1, ReturnsTitle DEF Shape, Threads
<1>10. Alone'
  BY <1>5, <1>6, <1>9 DEF Safe, Alone
<1>11. PullSafe'
  BY <1>1, <1>3, <1>4, PullKept
<1>12. ASSUME NEW u \in Threads PROVE ZipSafe(u)' /\ FilesSafe(u)' /\ Tied(u)'
  <2>1. CASE u = t
    BY <1>4, <1>5, <2>1, IdleKeeps DEF ZipSafe
  <2>2. CASE u # t
    BY <1>1, <1>2, <1>6, <1>7, <2>2, OthersKeep, ZipsKeep
  <2> QED BY <2>1, <2>2
<1> QED BY <1>3, <1>8, <1>10, <1>11, <1>12 DEF Safe

\* The running title adds a play to a save nobody restores.
LEMMA PlaySafe ==
  ASSUME Shape, Shape', Safe, exposed = "no", exposed' = "no", Play
  PROVE  Safe' /\ InEffect' = Whole(InEffect.of \cup {spent["launch"]}) /\ dir'["backup"] = dir["backup"]
<1> DEFINE before == IF dir["save"] = None THEN Whole({}) ELSE dir["save"]
<1>1. /\ title = "running" /\ ~Aside /\ UNCHANGED <<call, title, cloud>>
      /\ dir' = [dir EXCEPT !["save"] = [before EXCEPT !.of = @ \cup {spent["launch"]}]]
  BY DEF Play, Exposes, Folder
<1>2. before \in Copy /\ before.whole /\ InEffect = before
  <2>1. CASE dir["save"] = None
    BY <1>1, <2>1, CopiesMade DEF InEffect, Aside
  <2>2. CASE dir["save"] # None
    BY <2>2, FolderTypes, SaveWhole DEF InEffect
  <2> QED BY <2>1, <2>2
<1> HIDE DEF before
<1>3. [before EXCEPT !.of = @ \cup {spent["launch"]}] = Whole(before.of \cup {spent["launch"]})
  <2> DEFINE yes == TRUE
             more == before.of \cup {spent["launch"]}
  <2>1. before = [of |-> before.of, whole |-> before.whole] /\ before.whole = yes
    BY <1>2, CopyParts
  <2>2. [before EXCEPT !.of = @ \cup {spent["launch"]}] = [before EXCEPT !.of = more]
    OBVIOUS
  <2>3. Whole(more) = [of |-> more, whole |-> yes]
    BY DEF Whole
  <2> HIDE DEF yes, more, before
  <2>4. [before EXCEPT !.of = more] = [of |-> more, whole |-> yes]
    BY <1>2, <2>1 DEF Copy
  <2> QED BY <2>2, <2>3, <2>4 DEF more
<1>4. dir'["save"] = Whole(InEffect.of \cup {spent["launch"]}) /\ dir'["backup"] = dir["backup"]
  BY <1>1, <1>2, <1>3, FolderTypes
<1>5. dir'["save"] # None
  <2>1. spent["launch"] \in Plays
    BY <1>1, PlayIsOne DEF Shape
  <2>2. InEffect.of \cup {spent["launch"]} \in SUBSET Plays
    BY <1>2, <2>1, CopyParts
  <2> QED BY <1>4, <2>2, CopiesMade, CopyParts
<1>6. InEffect' = Whole(InEffect.of \cup {spent["launch"]}) /\ InEffect'.whole
  BY <1>4, <1>5 DEF InEffect, Whole
<1>7. AllWhole' /\ Taken' = Taken
  BY <1>1, <1>6 DEF Safe, AllWhole, Taken
<1>8. \A u \in Threads : ~Restoring(u) /\ ~Restoring(u)'
  BY <1>1 DEF Safe, Alone, Restoring
<1>9. PullSafe'
  BY <1>1 DEF Shape, CallShape, PullSafe
<1>10. ASSUME NEW u \in Threads PROVE ZipSafe(u)' /\ FilesSafe(u)' /\ Tied(u)'
  BY <1>1, <1>7, <1>8, IdleKeeps, ZipsKeep
<1>11. Alone'
  BY <1>8 DEF Alone
<1> QED BY <1>4, <1>6, <1>7, <1>9, <1>10, <1>11 DEF Safe

\* Nobody restores after a crash.
LEMMA CrashSafe ==
  ASSUME Shape, Shape', Safe, Crash
  PROVE  Safe' /\ InEffect' = InEffect
<1>1. UNCHANGED <<dir, cloud>> /\ call' = [u \in Threads |-> NoCall]
  BY DEF Crash
<1>2. InEffect' = InEffect
  BY <1>1 DEF InEffect
<1>3. \A u \in Threads : call'[u].at = "idle" /\ call'[u].op = "none"
  BY <1>1 DEF NoCall
<1>4. \A u \in Threads : ~Restoring(u)'
  BY <1>3, RestoringNext
<1>5. AllWhole'
  BY <1>1, <1>2 DEF Safe, AllWhole
<1>6. Alone' /\ PullSafe'
  BY <1>3, <1>4 DEF Alone, PullSafe, Threads
<1>7. ASSUME NEW u \in Threads PROVE ZipSafe(u)' /\ FilesSafe(u)' /\ Tied(u)'
  BY <1>3, <1>4, IdleKeeps DEF ZipSafe
<1> QED BY <1>2, <1>5, <1>6, <1>7 DEF Safe

\* A step that moves files leaves the cloud alone.
LEMMA FilesKeepCloud ==
  ASSUME NEW t \in Threads, Files(t)
  PROVE  UNCHANGED cloud
  BY Zenon DEF Files, Play, Backup, Copied, Stage, Extract, SetAside, SwapIn, Clear, Mark, Crash

\* What was exposed stays so.
LEMMA ExposedStays ==
  ASSUME NEW t \in Threads, Quiet(t) \/ Files(t), exposed # "no"
  PROVE  exposed' = exposed
<1>1. CASE Quiet(t)
  BY <1>1, QuietFiles
<1>2. CASE Play \/ Backup(t) \/ SetAside(t)
  BY <1>2 DEF Play, Backup, SetAside, Exposes
<1>3. CASE Copied(t) \/ Stage(t) \/ Extract(t) \/ SwapIn(t) \/ Clear(t) \/ Mark(t) \/ Crash
  BY <1>3, Zenon DEF Copied, Stage, Extract, SwapIn, Clear, Mark, Crash
<1> QED BY <1>1, <1>2, <1>3 DEF Files

\* Every step keeps the invariant, and changes the save in effect only by a play or by
\* moving the staged folder in.
LEMMA SafeStep ==
  ASSUME Shape, Shape', Safe, exposed = "no", exposed' = "no", NEW t \in Threads, Quiet(t) \/ Files(t)
  PROVE  /\ Safe'
         /\ \/ InEffect' = InEffect
            \/ /\ Files(t) /\ title # "off"
               /\ InEffect' = Whole(InEffect.of \cup {spent["launch"]}) /\ dir'["backup"] = dir["backup"]
            \/ /\ Files(t) /\ At(t, "inplace") /\ call'[t].at = "clear" /\ dir["save"] = None /\ dir["new"] # None
               /\ InEffect' = dir["new"] /\ dir'["backup"] = dir["backup"]
<1>1. CASE Quiet(t)
  BY <1>1, QuietSafe, QuietFiles DEF files, InEffect
<1>2. CASE Play
  BY <1>2, PlaySafe DEF Play, Files
<1>3. CASE Backup(t) \/ Copied(t) \/ Stage(t) \/ Extract(t)
  BY <1>3, BackupSafe, CopiedSafe, StageSafe, ExtractSafe
<1>4. CASE SetAside(t) \/ Clear(t) \/ Mark(t) \/ Crash
  BY <1>4, SetAsideSafe, ClearSafe, MarkSafe, CrashSafe
<1>5. CASE SwapIn(t)
  <2>1. At(t, "inplace") /\ Files(t)
    BY <1>5, Zenon DEF SwapIn, Files
  <2> QED BY <1>5, <2>1, SwapInSafe
<1> QED BY <1>1, <1>2, <1>3, <1>4, <1>5 DEF Files

\* The initial states are safe.
LEMMA InitSafe == Init => Safe
<1> SUFFICES ASSUME Init PROVE Safe
  OBVIOUS
<1>1. \A t \in Threads : call[t].at \in {"idle", "draw"} /\ call[t].op = "none"
  BY DEF Init, NoCall
<1>2. \A t \in Threads : ~Restoring(t) /\ FilesSafe(t) /\ Tied(t) /\ ZipSafe(t)
  BY <1>1 DEF Restoring, FilesSafe, Tied, ZipSafe
<1>3. PullSafe
  BY <1>1 DEF PullSafe, Threads
<1>4. AllWhole
  <2>1. dir["save"] = None /\ dir["old"] = None /\ DOMAIN cloud = {}
    BY DEF Init, Dirs
  <2>2. InEffect = Whole({})
    BY <2>1 DEF InEffect
  <2> QED BY <2>1, <2>2, CopiesMade DEF AllWhole
<1> QED BY <1>2, <1>3, <1>4 DEF Safe, Alone

\* A stuttering step keeps the inductive invariant.
LEMMA Stutters == Inductive /\ UNCHANGED vars => Inductive'
<1> SUFFICES ASSUME Inductive, UNCHANGED vars PROVE Inductive'
  OBVIOUS
<1>1. Shape'
  BY ShapeStutters DEF Inductive
<1>2. exposed' = "no" => Safe'
  BY DEF Inductive, vars, Safe, AllWhole, Alone, PullSafe, ZipSafe, FilesSafe, Tied, Restoring, InEffect, Aside,
         InCloud, Taken, HasLocalContent
<1> QED BY <1>1, <1>2 DEF Inductive

\* Every step keeps the inductive invariant.
LEMMA InductiveStep == Inductive /\ [Next]_vars => Inductive'
<1> SUFFICES ASSUME Inductive, [Next]_vars PROVE Inductive'
  OBVIOUS
<1>1. CASE UNCHANGED vars
  BY <1>1, Stutters
<1>2. ASSUME NEW t \in Threads, Quiet(t) \/ Files(t) PROVE Inductive'
  <2>1. Shape /\ Shape'
    BY <1>2, ShapeStep DEF Inductive
  <2>2. exposed' = "no" => Safe'
    BY <1>2, <2>1, SafeStep, ExposedStays DEF Inductive
  <2> QED BY <2>1, <2>2 DEF Inductive
<1> QED BY <1>1, <1>2, NextCases

\* So it holds in every reachable state.
LEMMA InductiveHolds == Spec => []Inductive
<1>1. Init => Inductive
  BY InitShape, InitSafe DEF Inductive
<1> QED BY <1>1, InductiveStep, PTL DEF Spec

\* PullBeforeLaunch moves a downloaded version over a local save only if a marker ties
\* that save to the cloud, however the page, the upload after an exit and the account
\* change what is remembered meanwhile.
THEOREM LaunchKeepsUnmarked == Spec => UnmarkedKept
<1>1. Inductive /\ [Next]_vars =>
        [At(Launch, "inplace") /\ call'[Launch].at = "clear" /\ call[Launch].op = "launch"
          /\ dir["old"] \notin {None, Whole({})} => marker # 0 \/ exposed # "no"]_vars
  <2>1. Launch \in Threads
    BY DEF Threads
  <2> QED BY <2>1 DEF Inductive, Safe, Tied, At
<1> QED BY <1>1, InductiveHolds, PTL DEF Spec, UnmarkedKept

\* The backup is thrown away in one place, and written in another.
LEMMA BackupStep ==
  ASSUME Shape, Safe, NEW t \in Threads, Quiet(t) \/ Files(t)
  PROVE  \/ dir'["backup"] = dir["backup"]
         \/ At(t, "backup") /\ call'[t].at = "copy"
         \/ At(t, "copy") /\ ~dir["backup"].whole
<1>1. CASE Quiet(t)
  BY <1>1, QuietFiles DEF files
<1>2. CASE Backup(t)
  <2>1. CASE Goes(t, "copy")
    <3>1. call'[t].at = "copy"
      BY <2>1, GoesMoves DEF Shape, Ats
    <3> QED BY <1>2, <3>1 DEF Backup
  <2>2. CASE ~Goes(t, "copy")
    <3>1. dir' = [dir EXCEPT !["save"] = Whole({})]
      BY <1>2, <2>2, Zenon DEF Backup
    <3> QED BY <3>1, FolderTypes
  <2> QED BY <2>1, <2>2
<1>3. CASE Copied(t)
  <2>1. At(t, "copy") /\ Restoring(t)
    BY <1>3, RestoringAt DEF Copied, At
  <2>2. dir["backup"] = Torn(dir["save"].of)
    BY <2>1 DEF Safe, FilesSafe, At
  <2> QED BY <2>1, <2>2 DEF Torn
<1>4. CASE Stage(t) \/ SetAside(t) \/ SwapIn(t) \/ Clear(t) \/ Mark(t) \/ Crash
  BY <1>4, FolderTypes DEF Stage, SetAside, SwapIn, Clear, Mark, Crash
<1>5. CASE Play
  BY <1>5, FolderTypes DEF Play
<1>6. CASE Extract(t)
  BY <1>6, FolderTypes DEF Extract
<1> QED BY <1>1, <1>2, <1>3, <1>4, <1>5, <1>6 DEF Files

\* Until a restore meets another one or a running title, no failure, refusal or crash
\* loses a play: only the removal of an earlier backup, or a Pull the host forces, can
\* remove the last whole copy of one.
THEOREM NothingElseLoses == Spec => LostOnlyWithBackup
<1> DEFINE Loses == \A p \in Plays : Kept(p) /\ ~Kept(p)' =>
                       \/ exposed' # "no"
                       \/ \E t \in Threads : At(t, "backup") /\ call'[t].at = "copy"
                       \/ call[Launch].op = "force"
<1>1. Inductive /\ Inductive' /\ [Next]_vars => [Loses]_vars
  <2> SUFFICES ASSUME Inductive, Inductive', NEW t \in Threads, Quiet(t) \/ Files(t), NEW p \in Plays,
                      Kept(p), exposed' = "no", call[Launch].op # "force",
                      ~(At(t, "backup") /\ call'[t].at = "copy")
               PROVE  Kept(p)'
    BY NextCases
  <2>1. Shape /\ Shape' /\ Safe /\ Safe' /\ exposed = "no"
    BY ExposedStays DEF Inductive
  <2>2. InEffect.whole /\ InEffect'.whole
    BY <2>1 DEF Safe, AllWhole
  <2>3. CASE InCloud(p)
    <3>1. InCloud(p)'
      BY <2>1, <2>3, CloudSafe
    <3> QED BY <3>1 DEF Kept, InCloud
  <2>4. CASE dir["backup"] # None /\ dir["backup"].whole /\ p \in dir["backup"].of
    <3>1. dir'["backup"] = dir["backup"]
      BY <2>1, <2>4, BackupStep
    <3> QED BY <2>4, <3>1 DEF Kept
  <2>5. CASE p \in InEffect.of
    <3>1. CASE InEffect' = InEffect
      BY <2>2, <2>5, <3>1 DEF Kept
    <3>2. CASE InEffect' = Whole(InEffect.of \cup {spent["launch"]})
      BY <2>2, <2>5, <3>2 DEF Kept, Whole
    <3>3. CASE /\ At(t, "inplace") /\ dir["save"] = None
               /\ InEffect' = dir["new"] /\ dir'["backup"] = dir["backup"]
      <4>1. Restoring(t) /\ FilesSafe(t) /\ PullSafe
        BY <2>1, <3>3, RestoringAt DEF At, Safe
      <4>2. call[t].op \in {"launch", "download", "pull"}
        BY <2>1, <3>3 DEF Shape, CallShape, CallOK, At, Pulls
      <4>3. CASE call[t].op = "pull"
        <5>1. t = Launch
          BY <2>1, <4>3 DEF Shape, CallShape
        <5>2. InCloud(p)
          BY <2>5, <3>3, <4>1, <4>3, <5>1 DEF PullSafe, At
        <5> QED BY <2>3, <5>2
      <4>4. CASE call[t].op \in Checked
        <5>1. dir["old"] \in {None, Whole({})} \/ dir["backup"] = dir["old"]
          BY <3>3, <4>1, <4>4 DEF FilesSafe, At
        <5>2. dir["old"] \notin {None, Whole({})} /\ InEffect = dir["old"]
          BY <2>5, <3>3 DEF InEffect, Whole
        <5>3. dir'["backup"] = InEffect /\ InEffect # None
          BY <3>3, <5>1, <5>2
        <5> QED BY <2>2, <2>5, <5>3 DEF Kept
      <4> QED BY <4>2, <4>3, <4>4 DEF Checked
    <3> QED BY <2>1, <3>1, <3>2, <3>3, SafeStep
  <2> QED BY <2>3, <2>4, <2>5 DEF Kept, InCloud
<1> QED BY <1>1, InductiveHolds, PTL DEF Spec, LostOnlyWithBackup

-----------------------------------------------------------------------------
(* The refinement.                                                         *)

\* What AtomicSaves sees of a state that is not exposed.
Local == IF exposed # "no" THEN {} ELSE IF InEffect.whole THEN InEffect.of ELSE None
Sent  == IF exposed # "no" THEN {} ELSE {cloud[n].copy.of : n \in DOMAIN cloud}
Ended == exposed # "no"

\* The initial states map to those of the atomic saves.
LEMMA InitAtomic == Init => Saves!Init
<1> SUFFICES ASSUME Init PROVE Saves!Init
  OBVIOUS
<1>1. dir["save"] = None /\ dir["old"] = None /\ DOMAIN cloud = {} /\ exposed = "no"
  BY DEF Init, Dirs
<1>2. InEffect = Whole({})
  BY <1>1 DEF InEffect
<1>3. Whole({}).whole /\ Whole({}).of = {}
  BY CopiesMade
<1> QED BY <1>1, <1>2, <1>3 DEF Saves!Init

\* A step of the save is a step of AtomicSaves, or none.
LEMMA StepAtomic ==
  ASSUME Inductive, Inductive', [Next]_vars
  PROVE  Saves!Next \/ UNCHANGED <<Local, Sent, Ended>>
<1>1. CASE UNCHANGED vars
  BY <1>1 DEF vars, Local, Sent, Ended, InEffect
<1>2. ASSUME NEW t \in Threads, Quiet(t) \/ Files(t) PROVE Saves!Next \/ UNCHANGED <<Local, Sent, Ended>>
  <2>1. CASE exposed # "no"
    BY <1>2, <2>1, ExposedStays DEF Local, Sent, Ended
  <2>2. CASE exposed = "no" /\ exposed' # "no"
    BY <2>2 DEF Saves!Next, Saves!End
  <2>3. CASE exposed = "no" /\ exposed' = "no"
    <3>1. Shape /\ Shape' /\ Safe /\ Safe'
      BY <2>3 DEF Inductive
    <3>2. InEffect.whole /\ InEffect'.whole
      BY <3>1 DEF Safe, AllWhole
    <3>3. /\ Local = InEffect.of /\ Local' = InEffect'.of /\ Sent = Taken /\ Sent' = Taken'
          /\ UNCHANGED Ended /\ ~Ended
      BY <2>3, <3>2 DEF Local, Sent, Ended, Taken
    <3>4. Saves!Next <=> ~Ended /\ (Saves!Play \/ Saves!Restore \/ Saves!Store \/ Saves!End)
      BY Zenon DEF Saves!Next, Ended
    <3>5. Saves!Play <=> \E p \in Plays : Local' = Local \cup {p} /\ UNCHANGED <<Sent, Ended>>
      BY Zenon DEF Saves!Play, Local, Sent, Ended
    <3>6. Saves!Restore <=> Local' \in Sent /\ UNCHANGED <<Sent, Ended>>
      BY Zenon DEF Saves!Restore, Local, Sent, Ended
    <3>7. Saves!Store <=> \E copy \in SUBSET Plays : Sent' = Sent \cup {copy} /\ UNCHANGED <<Local, Ended>>
      BY Zenon DEF Saves!Store, Local, Sent, Ended
    <3> HIDE DEF Local, Sent, Ended
    <3>8. CASE Files(t)
      <4>1. Taken' = Taken
        BY <3>8, FilesKeepCloud DEF Taken
      <4>2. CASE InEffect' = InEffect
        BY <3>3, <4>1, <4>2
      <4>3. CASE title # "off" /\ InEffect' = Whole(InEffect.of \cup {spent["launch"]})
        <5>1. spent["launch"] \in Plays
          BY <3>1, <4>3, PlayIsOne DEF Shape
        <5>2. InEffect'.of = InEffect.of \cup {spent["launch"]}
          BY <4>3 DEF Whole
        <5>3. Saves!Play
          BY <3>3, <3>5, <4>1, <5>1, <5>2
        <5> QED BY <3>3, <3>4, <5>3
      <4>4. CASE At(t, "inplace") /\ dir["new"] # None /\ InEffect' = dir["new"]
        <5>1. Restoring(t)
          BY <3>1, <4>4, RestoringAt DEF At
        <5>2. dir["new"].of \in Taken
          BY <3>1, <4>4, <5>1 DEF Safe, FilesSafe, At
        <5>3. Saves!Restore
          BY <3>3, <3>6, <4>1, <4>4, <5>2
        <5> QED BY <3>3, <3>4, <5>3
      <4> QED BY <1>2, <2>3, <3>1, <4>2, <4>3, <4>4, SafeStep
    <3>9. CASE Quiet(t)
      <4>1. InEffect' = InEffect
        BY <3>9, QuietFiles DEF files, InEffect
      <4>2. CASE CloudSame
        <5>1. Taken' = Taken
          BY <4>2 DEF CloudSame, Taken
        <5> QED BY <3>3, <4>1, <5>1
      <4>3. ASSUME NEW copy \in Copy, CloudAdds(copy) PROVE Saves!Next
        <5>1. Taken' = Taken \cup {copy.of}
          BY <4>3 DEF CloudAdds, Taken
        <5>2. copy.of \in SUBSET Plays
          BY CopyParts
        <5>3. Saves!Store
          BY <3>3, <3>7, <4>1, <5>1, <5>2
        <5> QED BY <3>3, <3>4, <5>3
      <4> QED BY <3>1, <3>9, <4>2, <4>3, CloudStep
    <3> QED BY <1>2, <3>8, <3>9
  <2> QED BY <2>1, <2>2, <2>3
<1> QED BY <1>1, <1>2, NextCases

\* Until a restore meets another one or a running title, the save is always one whole
\* copy and changes in one step, by a play or by a version the server took: the
\* backup, the staging folder, the two renames and every failure, refusal and crash
\* between them implement AtomicSaves.
THEOREM RestoreIsAtomic == Spec => Atomic
<1>1. Inductive /\ Inductive' /\ [Next]_vars => [Saves!Next]_<<Local, Sent, Ended>>
  BY StepAtomic
<1>2. [Saves!Next]_<<Local, Sent, Ended>> =>
        [Saves!Next]_<<IF exposed # "no" THEN {} ELSE IF InEffect.whole THEN InEffect.of ELSE None,
                       IF exposed # "no" THEN {} ELSE {cloud[n].copy.of : n \in DOMAIN cloud},
                       exposed # "no">>
  BY Zenon DEF Local, Sent, Ended
<1> QED BY <1>1, <1>2, InitAtomic, InductiveHolds, PTL DEF Spec, Atomic, Saves!Spec
=============================================================================
