------------------------------ MODULE SaveSync ------------------------------
(***************************************************************************)
(* Cloud saves of one title: client/openpak/save_sync.cpp, restore_swap.h, *)
(* safe_entry_path.h, zip_store.cpp, the save calls of api.cpp and the     *)
(* cloud saves page of qt/openpak/qt/extra_pages.cpp.                      *)
(*                                                                         *)
(* Three threads touch the save: the launch (PullBeforeLaunch, Pull), the  *)
(* detached upload after an exit, and the page's queue.  A save is the set *)
(* of plays it contains; a copy that was not finished is not whole.        *)
(* remove_all is one step: what it leaves half done is never read.         *)
(***************************************************************************)
EXTENDS Naturals, FiniteSets, Sequences

CONSTANTS
    None,   \* no such directory, no archive
    Bound   \* how often each of Events happens

Events == {"launch", "elsewhere", "click", "fault"}

ASSUME BoundAssumption == Bound \in [Events -> Nat]

Launch  == "launch"
Push    == "push"
Page    == "page"
Threads == {Launch, Push, Page}

\* Plays on this machine, then those on another one.
Plays == 1..(Bound["launch"] + Bound["elsewhere"])
Copy  == [of : SUBSET Plays, whole : BOOLEAN]
Whole(plays) == [of |-> plays, whole |-> TRUE]
Torn(plays)  == [of |-> plays, whole |-> FALSE]

ASSUME NoneAssumption == None \notin Copy

\* A version the server keeps: placeable when this build can unpack its archive.
Version == [copy : Copy, conflict : BOOLEAN, placeable : BOOLEAN, deleted : BOOLEAN]

VARIABLES
    dir,      \* the folder, and .openpak-new, -old and -backup beside it
    stager,   \* whose extraction .openpak-new is
    marker,   \* the version in .openpak-version, 0 without one
    touched,  \* a file of the save is newer than the marker
    memory,   \* g_save_versions of the title, 0 without one
    bearer,   \* an account is signed in
    host,     \* which calls the host makes: the ones with a marker, or the earlier ones
    title,    \* the title: off, pulling, ready or running
    call,     \* each thread's call
    drawn,    \* the page's row as it was drawn
    cloud,    \* server side: the versions, by number
    spent,    \* how often each event happened
    exposed   \* history: "met" once a restore, or the look at the folder that decides
              \* about a Pull, met another restore or a running title,
              \* "anew" once a folder was made while the only copy was set aside,
              \* "partial" once a file was left out of an archive

files == <<dir, stager, marker, touched>>
vars  == <<dir, stager, marker, touched, memory, bearer, host, title, call, drawn, cloud, spent, exposed>>

Dirs   == {"save", "new", "old", "backup"}
NoCall == [op |-> "none", at |-> "idle", zip |-> None, number |-> 0]

Init ==
    /\ dir = [d \in Dirs |-> None]
    /\ stager = None /\ marker = 0 /\ touched = FALSE /\ memory = 0 /\ bearer = TRUE
    /\ host \in {"marker", "earlier"} /\ title = "off" /\ drawn = None /\ cloud = <<>>
    /\ call = [t \in Threads |-> [NoCall EXCEPT !.at = IF t = Page THEN "draw" ELSE "idle"]]
    /\ spent = [e \in Events |-> 0] /\ exposed = "no"

Spend(event) == spent[event] < Bound[event] /\ spent' = [spent EXCEPT ![event] = @ + 1]

Exposes(how, when) == exposed' = IF exposed = "no" /\ when THEN how ELSE exposed

-----------------------------------------------------------------------------
(* Reading the folder and the list.                                        *)

HasLocalContent == dir["save"] # None /\ dir["save"] # Whole({})

\* The only copy of the save is the one a swap set aside.
Aside == dir["save"] = None /\ dir["old"] # None

Left   == {n \in DOMAIN cloud : ~cloud[n].deleted}
Newest == IF Left = {} THEN 0 ELSE CHOOSE n \in Left : \A k \in Left : k <= n

\* Compare, against the newest version of the list.
Compare(newest) ==
    IF ~HasLocalContent THEN "NoLocal"
    ELSE IF marker = 0 THEN (IF newest > 0 THEN "NoHistory" ELSE "ChangedHere")
    ELSE IF marker # newest THEN "CloudNewer"
    ELSE IF touched THEN "ChangedHere" ELSE "InStep"

-----------------------------------------------------------------------------
(* Archives.                                                               *)

\* A reader places every entry or none: one that it cannot place safely, or cannot read,
\* refuses the archive.  What each build's reader takes differs, so an archive from
\* elsewhere may be either.
Refuses(zip) == ~zip.placeable

\* What there is to pack.
Folder == IF dir["save"] = None THEN Whole({}) ELSE dir["save"]

\* A file that cannot be read is left out of the archive, and nobody hears of it.
LeavesOut(zip) ==
    HasLocalContent /\ zip = Torn(Folder.of) /\ Spend("fault") /\ Exposes("partial", TRUE)

\* ZipSave packs the folder; one that is empty, or missing, is an empty archive.
ZipSave(zip) ==
    \/ zip = Folder /\ UNCHANGED <<spent, exposed>>
    \/ LeavesOut(zip)

-----------------------------------------------------------------------------
(* Calls.                                                                  *)

At(t, at)   == call[t].at = at
Goes(t, at) == call' = [call EXCEPT ![t].at = at]
\* The call returns: a launch lets the title start, a page still open reloads.
Returns(t) ==
    /\ call' = [call EXCEPT ![t] = [NoCall EXCEPT !.at =
                    IF t = Page /\ spent["click"] < Bound["click"] THEN "draw" ELSE "idle"]]
    /\ title' = IF t = Launch /\ title = "pulling" THEN "ready" ELSE title
Fails(t) == Spend("fault") /\ Returns(t)

Restoring(t) == call[t].at \in {"backup", "copy", "stage", "extract", "aside", "inplace", "clear", "mark"}
                /\ call[t].op \notin {"push", "upload"}
\* A restore by t begins here.
Meets(t) == title = "running" \/ \E u \in Threads \ {t} : Restoring(u)

\* PullBeforeLaunch, or Pull, which keeps what is there unless it is forced.
LaunchPulls ==
    /\ title = "off" /\ At(Launch, "idle") /\ Spend("launch")
    /\ \E op \in IF host = "marker" THEN {"launch"} ELSE {"pull", "force"} :
          /\ IF bearer /\ (op = "pull" => ~HasLocalContent)
             THEN /\ call' = [call EXCEPT ![Launch] = [NoCall EXCEPT !.op = op, !.at = "ask"]]
                  /\ title' = "pulling"
             ELSE title' = "ready" /\ UNCHANGED call
          /\ Exposes("met", op = "pull" /\ \E t \in Threads : Restoring(t))
    /\ UNCHANGED <<files, memory, bearer, host, drawn, cloud>>

\* The host starts the title; it may stop waiting for PullBeforeLaunch, which asks
\* it, and not for Pull.
Boot ==
    /\ title = "ready" \/ (title = "pulling" /\ call[Launch].op = "launch")
    /\ title' = "running"
    /\ Exposes("met", \E t \in Threads : Restoring(t))
    /\ UNCHANGED <<files, memory, bearer, host, call, drawn, cloud, spent>>

\* The running title writes its save.
Play ==
    /\ title = "running"
    /\ dir' = [dir EXCEPT !["save"] = [Folder EXCEPT !.of = @ \cup {spent["launch"]}]]
    /\ touched' = TRUE /\ Exposes("anew", Aside)
    /\ UNCHANGED <<stager, marker, memory, bearer, host, title, call, drawn, cloud, spent>>

\* CaptureForPush looks at the account alone, CaptureOnExit for a file to pack.
Captures == bearer /\ (host = "marker" => HasLocalContent)

\* One of them packs the folder; the upload has a thread of its own.  Without a file the
\* builds differ: an empty archive goes up, or nothing.
Exit ==
    /\ title = "running" /\ title' = "off" /\ At(Push, "idle")
    /\ \/ /\ Captures
          /\ \E zip \in {Folder, Torn(Folder.of)} :
                /\ ZipSave(zip)
                /\ call' = [call EXCEPT ![Push] =
                       IF host = "marker" THEN [op |-> "push", at |-> "base", zip |-> zip, number |-> 0]
                       ELSE [op |-> "captured", at |-> "put", zip |-> zip, number |-> 0]]
       \/ ~(bearer /\ HasLocalContent) /\ UNCHANGED <<call, spent, exposed>>
    /\ UNCHANGED <<files, memory, bearer, host, drawn, cloud>>

-----------------------------------------------------------------------------
(* The account and the server.                                             *)

SignIn ==
    /\ ~bearer /\ bearer' = TRUE
    /\ UNCHANGED <<files, memory, host, title, call, drawn, cloud, spent, exposed>>

Requests == {"ask", "put", "delete"}

\* ClearSessionIfRejected: a 401 ends the session.
Rejected(t) ==
    /\ call[t].at \in Requests /\ bearer' = FALSE /\ Fails(t)
    /\ UNCHANGED <<files, memory, host, drawn, cloud, exposed>>

\* The request fails, before or after the server acted on it.
Unreachable(t) ==
    /\ call[t].at \in Requests \cup {"answer", "stored"} /\ Fails(t)
    /\ UNCHANGED <<files, memory, bearer, host, drawn, cloud, exposed>>

Stores(copy, conflict, placeable) ==
    cloud' = Append(cloud, [copy |-> copy, conflict |-> conflict,
                            placeable |-> placeable, deleted |-> FALSE])

\* Another machine plays on from the newest version.
Elsewhere ==
    /\ Spend("elsewhere")
    /\ \E placeable \in BOOLEAN :
          Stores(Whole({Bound["launch"] + spent'["elsewhere"]} \cup
                       (IF Newest = 0 THEN {} ELSE cloud[Newest].copy.of)), FALSE, placeable)
    /\ UNCHANGED <<files, memory, bearer, host, title, call, drawn, exposed>>

\* PullSave: the newest version, or nothing stored (or no account any more).
Ask(t) ==
    /\ At(t, "ask")
    /\ IF ~bearer \/ Newest = 0 THEN Returns(t)
       ELSE /\ call' = [call EXCEPT ![t] = [@ EXCEPT !.at = "answer", !.number = Newest,
                                                     !.zip = cloud[Newest]]]
            /\ UNCHANGED title
    /\ UNCHANGED <<files, memory, bearer, host, drawn, cloud, spent, exposed>>

\* X-Save-Version is remembered for the title; Pull restores at once.
Answer(t) ==
    /\ At(t, "answer") /\ memory' = call[t].number
    /\ LET pull == call[t].op \in {"pull", "force"}
       IN  /\ Goes(t, IF pull THEN "stage" ELSE "version")
           /\ Exposes("met", pull /\ Meets(t))
    /\ UNCHANGED <<files, bearer, host, title, drawn, cloud, spent>>

\* SaveVersion: what is remembered by now, which another thread may have changed.
SaveVersion(t) ==
    /\ At(t, "version")
    /\ call' = [call EXCEPT ![t].number = memory,
                            ![t].at = IF call[t].op = "launch" THEN "decide" ELSE "backup"]
    /\ Exposes("met", call[t].op = "download" /\ Meets(t))
    /\ UNCHANGED <<files, memory, bearer, host, title, drawn, cloud, spent>>

-----------------------------------------------------------------------------
(* PullBeforeLaunch decides; ApplyCloud restores.                          *)

\* Mutant: a version that differs from an empty marker is newer.
DecideUnmarked(t) ==
    /\ At(t, "decide")
    /\ IF (HasLocalContent /\ call[t].number = marker) \/ title # "pulling"
       THEN Returns(t) /\ UNCHANGED exposed
       ELSE Goes(t, "backup") /\ Exposes("met", Meets(t)) /\ UNCHANGED title
    /\ UNCHANGED <<files, memory, bearer, host, drawn, cloud, spent>>

\* The three cases, and still_wanted.
Decide(t) ==
    /\ At(t, "decide")
    /\ IF (HasLocalContent /\ marker \in {0, call[t].number}) \/ title # "pulling"
       THEN Returns(t) /\ UNCHANGED exposed
       ELSE Goes(t, "backup") /\ Exposes("met", Meets(t)) /\ UNCHANGED title
    /\ UNCHANGED <<files, memory, bearer, host, drawn, cloud, spent>>

\* What is here is copied beside the folder; a missing folder is made.
Backup(t) ==
    /\ At(t, "backup")
    /\ IF HasLocalContent
       THEN /\ dir' = [dir EXCEPT !["backup"] = Torn(dir["save"].of)]
            /\ Goes(t, "copy") /\ UNCHANGED exposed
       ELSE /\ dir' = [dir EXCEPT !["save"] = Whole({})]
            /\ Goes(t, "stage") /\ Exposes("anew", Aside)
    /\ UNCHANGED <<stager, marker, touched, memory, bearer, host, title, drawn, cloud, spent>>

\* Mutant: the error of the copy is not looked at.
CopiedUnchecked(t) ==
    /\ At(t, "copy") /\ Goes(t, "stage")
    /\ \/ /\ dir["save"] # None /\ dir' = [dir EXCEPT !["backup"] = dir["save"]] /\ UNCHANGED spent
       \/ Spend("fault") /\ UNCHANGED dir
    /\ UNCHANGED <<stager, marker, touched, memory, bearer, host, title, drawn, cloud, exposed>>

\* The copy is finished, of a folder nobody wrote to meanwhile; or it failed.
Copied(t) ==
    /\ At(t, "copy")
    /\ \/ /\ dir["save"] # None
          /\ dir' = [dir EXCEPT !["backup"] = [dir["save"] EXCEPT !.whole = @ /\ dir["save"].of = dir["backup"].of]]
          /\ Goes(t, "stage") /\ UNCHANGED <<title, spent>>
       \/ Fails(t) /\ UNCHANGED dir
       \/ dir["save"] = None /\ Returns(t) /\ UNCHANGED <<dir, spent>>
    /\ UNCHANGED <<stager, marker, touched, memory, bearer, host, drawn, cloud, exposed>>

\* UnzipSave empties the folder it extracts into.
Stage(t) ==
    /\ At(t, "stage")
    /\ dir' = [dir EXCEPT !["new"] = Torn({})] /\ stager' = t /\ Goes(t, "extract")
    /\ UNCHANGED <<marker, touched, memory, bearer, host, title, drawn, cloud, spent, exposed>>

\* Mutant: a write error in the middle of an archive is not noticed.
ExtractUnchecked(t) ==
    /\ At(t, "extract") /\ ~Refuses(call[t].zip)
    /\ \/ dir' = [dir EXCEPT !["new"] = call[t].zip.copy] /\ UNCHANGED spent
       \/ Spend("fault") /\ dir' = [dir EXCEPT !["new"] = Torn(call[t].zip.copy.of)]
    /\ Goes(t, "aside")
    /\ UNCHANGED <<stager, marker, touched, memory, bearer, host, title, drawn, cloud, exposed>>

\* Every entry is placed, or one is refused or fails and nothing is kept.
Extract(t) ==
    /\ At(t, "extract")
    /\ \/ /\ ~Refuses(call[t].zip)
          /\ dir' = [dir EXCEPT !["new"] = [call[t].zip.copy EXCEPT !.whole = @ /\ stager = t]]
          /\ call' = [call EXCEPT ![t].at = "aside", ![t].zip = None] /\ UNCHANGED <<title, spent>>
       \/ Refuses(call[t].zip) /\ Returns(t) /\ dir' = [dir EXCEPT !["new"] = None] /\ UNCHANGED spent
       \/ Fails(t) /\ dir' = [dir EXCEPT !["new"] = None]
    /\ stager' = IF stager = t THEN None ELSE stager
    /\ UNCHANGED <<marker, touched, memory, bearer, host, drawn, cloud, exposed>>

\* SwapIntoPlace: what an earlier swap left aside goes, the save is set aside.
SetAside(t) ==
    /\ At(t, "aside")
    /\ \/ /\ dir' = [dir EXCEPT !["old"] = dir["save"], !["save"] = None]
          /\ Goes(t, "inplace") /\ UNCHANGED <<title, spent>>
       \/ /\ dir["save"] # None /\ Fails(t)
          /\ dir' = [dir EXCEPT !["old"] = None, !["new"] = None]
    /\ Exposes("anew", Aside)
    /\ UNCHANGED <<stager, marker, touched, memory, bearer, host, drawn, cloud>>

\* Mutant: a failed move removes what was set aside with what was staged.
SwapInDiscards(t) ==
    /\ At(t, "inplace")
    /\ \/ /\ dir["new"] # None /\ ~HasLocalContent
          /\ dir' = [dir EXCEPT !["save"] = dir["new"], !["new"] = None]
          /\ Goes(t, "clear") /\ UNCHANGED <<title, spent>>
       \/ Fails(t) /\ dir' = [dir EXCEPT !["new"] = None, !["old"] = None]
    /\ UNCHANGED <<stager, marker, touched, memory, bearer, host, drawn, cloud, exposed>>

\* The staged folder moves in; or it does not, and the old save goes back if it can.
SwapIn(t) ==
    /\ At(t, "inplace")
    /\ LET back == IF ~HasLocalContent /\ dir["old"] # None
                   THEN [dir EXCEPT !["new"] = None, !["save"] = dir["old"], !["old"] = None]
                   ELSE [dir EXCEPT !["new"] = None]
       IN  \/ /\ dir["new"] # None /\ ~HasLocalContent
              /\ dir' = [dir EXCEPT !["save"] = dir["new"], !["new"] = None]
              /\ Goes(t, "clear") /\ UNCHANGED <<title, spent>>
           \/ (dir["new"] = None \/ HasLocalContent) /\ Returns(t) /\ dir' = back /\ UNCHANGED spent
           \/ Fails(t) /\ dir' \in {back, [dir EXCEPT !["new"] = None]}
    /\ UNCHANGED <<stager, marker, touched, memory, bearer, host, drawn, cloud, exposed>>

\* The old save is removed once the new one is in place.  Pull writes no marker.
Clear(t) ==
    /\ At(t, "clear") /\ dir' = [dir EXCEPT !["old"] = None]
    /\ IF call[t].op \in {"pull", "force"} THEN Returns(t) ELSE Goes(t, "mark") /\ UNCHANGED title
    /\ UNCHANGED <<stager, marker, touched, memory, bearer, host, drawn, cloud, spent, exposed>>

\* WriteMarker: an upload writes what is remembered by now.  An empty version
\* writes nothing, and nobody hears of a file that could not be written.
Mark(t) ==
    /\ At(t, "mark") /\ Returns(t)
    /\ LET version == IF call[t].op \in {"push", "upload"} THEN memory ELSE call[t].number
       IN  \/ version # 0 /\ marker' = version /\ touched' = FALSE /\ UNCHANGED spent
           \/ version = 0 /\ UNCHANGED <<marker, touched, spent>>
           \/ version # 0 /\ Spend("fault") /\ UNCHANGED <<marker, touched>>
    /\ UNCHANGED <<dir, stager, memory, bearer, host, drawn, cloud, exposed>>

-----------------------------------------------------------------------------
(* Uploads.                                                                *)

\* PushCaptured: the version this copy was last in step with, from disk.
Base(t) ==
    /\ At(t, "base") /\ Goes(t, "put")
    /\ memory' = IF marker # 0 THEN marker ELSE memory
    /\ UNCHANGED <<files, bearer, host, title, drawn, cloud, spent, exposed>>

\* Mutant: the version is counted from the copies, the new one twice.
PutAhead(t) ==
    /\ At(t, "put") /\ bearer
    /\ Stores(call[t].zip, Newest # 0 /\ memory # Newest, TRUE)
    /\ call' = [call EXCEPT ![t].at = "stored", ![t].number = Len(cloud) + 2]
    /\ UNCHANGED <<files, memory, bearer, host, title, drawn, spent, exposed>>

\* PushSave: what is remembered goes along as the base; the server keeps a copy
\* with another base as a conflict.
Put(t) ==
    /\ At(t, "put")
    /\ IF bearer
       THEN /\ Stores(call[t].zip, Newest # 0 /\ memory # Newest, TRUE)
            /\ call' = [call EXCEPT ![t].at = "stored", ![t].number = Len(cloud) + 1]
            /\ UNCHANGED title
       ELSE Returns(t) /\ UNCHANGED cloud
    /\ UNCHANGED <<files, memory, bearer, host, drawn, spent, exposed>>

Stored(t) ==
    /\ At(t, "stored") /\ memory' = call[t].number
    /\ IF call[t].op = "captured" THEN Returns(t) ELSE Goes(t, "mark") /\ UNCHANGED title
    /\ UNCHANGED <<files, bearer, host, drawn, cloud, spent, exposed>>

-----------------------------------------------------------------------------
(* The cloud saves page.                                                   *)

\* page->reload reads the list and the folder; a failure leaves an empty page.
Draw ==
    /\ At(Page, "draw") /\ call' = [call EXCEPT ![Page] = NoCall]
    /\ \/ /\ bearer /\ UNCHANGED spent
          /\ drawn' = [versions |-> Left, newest |-> Newest, state |-> Compare(Newest),
                       conflict |-> \E n \in Left : cloud[n].conflict, running |-> title = "running"]
       \/ ~bearer /\ drawn' = None /\ UNCHANGED spent
       \/ bearer /\ Spend("fault") /\ drawn' = None
    /\ UNCHANGED <<files, memory, bearer, host, title, cloud, exposed>>

Reload ==
    /\ At(Page, "idle") /\ Spend("click") /\ Goes(Page, "draw")
    /\ UNCHANGED <<files, memory, bearer, host, title, drawn, cloud, exposed>>

\* What the row lets the person do, as it was drawn.
Choose       == drawn.conflict \/ drawn.state = "NoHistory"
MayDownload  == drawn.newest > 0 /\ ~drawn.running
MayUpload    == title # "running" \/ (drawn.newest > 0 /\ (Choose \/ (drawn.state # "NoLocal" /\ ~drawn.running)))

\* Download, Resolve and "Take the cloud's".
ClickDownload ==
    /\ drawn # None /\ At(Page, "idle") /\ MayDownload /\ Spend("click")
    /\ call' = [call EXCEPT ![Page] = [NoCall EXCEPT !.op = "download", !.at = "ask"]]
    /\ drawn' = None /\ UNCHANGED <<files, memory, bearer, host, title, cloud, exposed>>

\* Upload, Resolve and "Keep this machine's": based on the newest version drawn.
ClickUpload ==
    /\ drawn # None /\ At(Page, "idle") /\ MayUpload /\ Spend("click")
    /\ IF bearer /\ HasLocalContent
       THEN /\ call' = [call EXCEPT ![Page] = [NoCall EXCEPT !.op = "upload", !.at = "put", !.zip = dir["save"]]]
            /\ memory' = drawn.newest
       ELSE Goes(Page, "draw") /\ UNCHANGED memory
    /\ drawn' = None /\ UNCHANGED <<files, bearer, host, title, cloud, exposed>>

ClickDelete ==
    /\ drawn # None /\ At(Page, "idle") /\ drawn.versions # {} /\ Spend("click")
    /\ call' = [call EXCEPT ![Page] = [NoCall EXCEPT !.op = "delete", !.at = "delete", !.zip = drawn.versions]]
    /\ drawn' = None /\ UNCHANGED <<files, memory, bearer, host, title, cloud, exposed>>

\* The versions drawn go one by one, newest first.
Delete ==
    /\ At(Page, "delete")
    /\ LET rest == call[Page].zip \cap Left
       IN  IF ~bearer \/ rest = {} THEN Returns(Page) /\ UNCHANGED cloud
           ELSE /\ cloud' = [cloud EXCEPT ![CHOOSE n \in rest : \A k \in rest : k <= n].deleted = TRUE]
                /\ UNCHANGED <<call, title>>
    /\ UNCHANGED <<files, memory, bearer, host, drawn, spent, exposed>>

-----------------------------------------------------------------------------
\* The process dies: every call with it, and a marker that was being written.
Crash ==
    /\ Spend("fault")
    /\ call' = [t \in Threads |-> NoCall] /\ memory' = 0 /\ title' = "off" /\ drawn' = None /\ stager' = None
    /\ marker' \in {marker} \cup {0 : t \in {u \in Threads : At(u, "mark")}}
    /\ UNCHANGED <<dir, touched, bearer, host, cloud, exposed>>

Step(t) ==
    \/ Ask(t) \/ Answer(t) \/ SaveVersion(t) \/ Decide(t)
    \/ Backup(t) \/ Copied(t) \/ Stage(t) \/ Extract(t) \/ SetAside(t) \/ SwapIn(t) \/ Clear(t)
    \/ Base(t) \/ Put(t) \/ Stored(t) \/ Mark(t)
    \/ Rejected(t) \/ Unreachable(t)

Next ==
    \/ LaunchPulls \/ Boot \/ Play \/ Exit
    \/ SignIn \/ Elsewhere
    \/ \E t \in Threads : Step(t)
    \/ Draw \/ Reload \/ ClickDownload \/ ClickUpload \/ ClickDelete \/ Delete
    \/ Crash

Spec == Init /\ [][Next]_vars

-----------------------------------------------------------------------------
TypeOK ==
    /\ dir \in [Dirs -> Copy \cup {None}] /\ stager \in Threads \cup {None}
    /\ {marker, memory} \subseteq 0..Len(cloud) /\ cloud \in Seq(Version)
    /\ {touched, bearer} \subseteq BOOLEAN /\ exposed \in {"no", "met", "anew", "partial"}
    /\ title \in {"off", "pulling", "ready", "running"}
    /\ DOMAIN call = Threads /\ (drawn = None \/ drawn.newest \in 0..Len(cloud))
    /\ spent \in [Events -> Nat]

\* What the save in effect is to the person.
InEffect == IF dir["save"] # None THEN dir["save"] ELSE IF dir["old"] # None THEN dir["old"] ELSE Whole({})

\* A whole copy with play p is here, or the server has or had it.  What a swap that
\* was cut short left beside a save in place is not counted: the next swap removes it.
Kept(p) ==
    \/ InEffect.whole /\ p \in InEffect.of
    \/ dir["backup"] # None /\ dir["backup"].whole /\ p \in dir["backup"].of
    \/ \E n \in DOMAIN cloud : cloud[n].copy.whole /\ p \in cloud[n].copy.of

\* Until a restore meets another one or a running title, the save in effect only
\* ever changes the way the abstract store allows: a play is added or a stored
\* version replaces all of it, through every failure, refusal and crash.
Saves  == INSTANCE AtomicSaves WITH
              plays  <- Plays,
              local  <- IF exposed # "no" THEN {} ELSE IF InEffect.whole THEN InEffect.of ELSE None,
              stored <- IF exposed # "no" THEN {} ELSE {cloud[n].copy.of : n \in DOMAIN cloud},
              ended  <- exposed # "no"
Atomic == Saves!Spec

\* The one step that may lose a play is the one that throws an earlier backup
\* away, unless a host forces a Pull.
LostOnlyWithBackup ==
    [][\A p \in Plays : Kept(p) /\ ~Kept(p)' =>
          \/ exposed' # "no"
          \/ \E t \in Threads : At(t, "backup") /\ call'[t].at = "copy"
          \/ call[Launch].op = "force"]_vars

\* A launch never replaces a local save that no marker ties to the cloud.
UnmarkedKept ==
    [][At(Launch, "inplace") /\ call'[Launch].at = "clear" /\ call[Launch].op = "launch"
          /\ dir["old"] \notin {None, Whole({})} => marker # 0 \/ exposed # "no"]_vars

KeptOrAside(p) == Kept(p) \/ (dir["old"] # None /\ dir["old"].whole /\ p \in dir["old"].of)

\* A save that could not be put back is whole under .openpak-old and is never
\* deleted (SwapIntoPlace's comment): the next swap does not remove the last whole
\* copy of a play.
AsideKept ==
    [][\A t \in Threads, p \in Plays :
          At(t, "aside") /\ call'[t].at \in {"inplace", "idle"} /\ exposed \in {"no", "anew"}
             => (KeptOrAside(p) => KeptOrAside(p)')]_vars
=============================================================================
