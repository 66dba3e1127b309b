-------------------------------- MODULE Bcat --------------------------------
(* BCAT data of one title (bcat.cpp): the dataset the service holds, the copy *)
(* kept on disk for a title started offline, and the Fetch a host makes when  *)
(* the title starts.  The copy is a directory with a file for every path and  *)
(* the manifest, removed and written one entry at a time, in a process that   *)
(* may die and on a disk that may be full.  A dataset is a number; the data   *)
(* of a path is the number of the dataset it is from.                         *)
EXTENDS Integers

CONSTANTS
  MaxDatasets,  \* how many datasets the service publishes
  NPaths,       \* how many paths a manifest names
  Undelivered   \* those that are not <directory>/<file>

ASSUME BcatAssumption ==
  MaxDatasets \in Nat \ {0} /\ NPaths \in Nat \ {0} /\ Undelivered \subseteq 1..NPaths

VARIABLES
  service,   \* the newest dataset, whether it is offered, those that are in their window
  copy,      \* CacheDirectory: what each path's file and the manifest hold
  fetch,     \* the Fetch under way: where it is, its dataset, the next path, what it has
  given,     \* what the last Fetch returned, and which datasets were out of their window
             \* when it asked
  bcatPast,  \* history: a write or a removal failed; datasets that were given up
  bcatLeft   \* how many more events of each kind this behaviour has

bcatVars == <<service, copy, fetch, given, bcatPast, bcatLeft>>

Datasets == 1..MaxDatasets
Paths == 1..NPaths
Entries == 0..NPaths   \* the manifest is entry 0
Absent == 0
Cut == MaxDatasets + 1   \* half written

Nothing == [p \in Paths |-> Absent]
NoFetch == [at |-> "idle", dataset |-> 0, next |-> 0, files |-> Nothing, closed |-> {}]
Gave(outcome, data, closed) == [outcome |-> outcome, files |-> data, closed |-> closed]

BcatTypeOK ==
  /\ service \in [newest : 0..MaxDatasets, offered : BOOLEAN, open : SUBSET Datasets]
  /\ copy \in [Entries -> 0..Cut]
  /\ fetch \in [at : {"idle", "download", "clear", "write", "drop"}, dataset : 0..MaxDatasets,
                next : Entries, files : [Paths -> 0..MaxDatasets], closed : SUBSET Datasets]
  /\ given \in [outcome : {"unasked", "dataset", "none", "unreachable"}, files : [Paths -> 0..Cut],
                closed : SUBSET Datasets]
  /\ bcatPast \in [failed : BOOLEAN, gone : SUBSET Datasets]
  /\ bcatLeft \in [service : Nat, fetch : Nat, fault : Nat]

BcatInit(budget) ==
  /\ service = [newest |-> 0, offered |-> FALSE, open |-> {}]
  /\ copy = [e \in Entries |-> Absent] /\ fetch = NoFetch
  /\ given = Gave("unasked", Nothing, {})
  /\ bcatPast = [failed |-> FALSE, gone |-> {}]
  /\ bcatLeft = budget

Takes(kind) == bcatLeft[kind] > 0 /\ bcatLeft' = [bcatLeft EXCEPT ![kind] = @ - 1]

-----------------------------------------------------------------------------
(* external: the service publishes, withdraws, offers again; a window opens or ends. *)

ServiceMoves ==
  /\ Takes("service")
  /\ \/ /\ service.newest < MaxDatasets
        /\ \E window \in SUBSET {service.newest + 1} :
             service' = [newest |-> service.newest + 1, offered |-> TRUE,
                         open |-> service.open \cup window]
     \/ service.newest > 0 /\ service' = [service EXCEPT !.offered = ~@]
     \/ \E d \in service.open : service' = [service EXCEPT !.open = @ \ {d}]
  /\ UNCHANGED <<copy, fetch, given, bcatPast>>

-----------------------------------------------------------------------------
(* Fetch. *)

InWindow(dataset) == dataset \in service.open

Split(path) == path \notin Undelivered

\* The next path that is delivered; after the last one comes entry 0, the manifest.
After(path) ==
  LET later == {p \in Paths : p > path /\ Split(p)}
  IN IF later = {} THEN 0 ELSE CHOOSE p \in later : \A q \in later : p <= q

\* What the copy on disk holds, if it is a dataset: a manifest that can be read and is in
\* its window, and a file for every path it names.
Cached ==
  /\ copy[0] \in Datasets /\ InWindow(copy[0])
  /\ \A p \in Paths : Split(p) => copy[p] # Absent

FromCache(closed) ==
  given' = IF Cached
           THEN Gave("dataset", [p \in Paths |-> IF Split(p) THEN copy[p] ELSE Absent], closed)
           ELSE Gave("unreachable", Nothing, closed)

\* The request for the manifest: no answer, an error status, or an object with a field of
\* the wrong type; gone (404), out of its window, or, whatever the service offers, a 200
\* whose body is no object, which is in no window; or a dataset to download.
Ask ==
  /\ fetch = NoFetch /\ Takes("fetch")
  /\ LET asked == [NoFetch EXCEPT !.dataset = service.newest, !.next = After(0),
                                  !.closed = Datasets \ service.open]
     IN \/ FromCache(asked.closed) /\ UNCHANGED <<fetch, bcatPast>>
        \/ fetch' = [asked EXCEPT !.at = "drop"] /\ UNCHANGED <<given, bcatPast>>
        \/ /\ service.offered /\ InWindow(service.newest)
           /\ fetch' = [asked EXCEPT !.at = IF asked.next = 0 THEN "clear" ELSE "download"]
           /\ bcatPast' = [bcatPast EXCEPT !.gone = @ \ {service.newest}]
           /\ UNCHANGED given
  /\ UNCHANGED <<service, copy>>

\* A bug to look for: whatever was downloaded is taken.
Sha256Unchecked(data) == data # Absent

Sha256Matches(data) == data = fetch.dataset

\* What a URL of the manifest gives: nothing, the file, or by now a newer dataset's.
Download == {Absent, fetch.dataset, service.newest}

\* One path after another; one that fails ends in the copy on disk.
DownloadPath ==
  /\ fetch.at = "download"
  /\ \E data \in Download :
       IF ~Sha256Matches(data)
       THEN FromCache(fetch.closed) /\ fetch' = NoFetch
       ELSE /\ fetch' = [fetch EXCEPT !.files[fetch.next] = data,
                                      !.at = IF After(fetch.next) = 0 THEN "clear" ELSE @,
                                      !.next = IF After(@) = 0 THEN After(0) ELSE After(@)]
            /\ UNCHANGED given
  /\ UNCHANGED <<service, copy, bcatPast, bcatLeft>>

\* An operation on the disk goes through, or does not.
Tries(ok) == IF ok THEN UNCHANGED bcatLeft ELSE Takes("fault")

\* Forget, before a dataset is written or because there is none to keep: remove_all takes
\* the entries in any order.
ForgetEntry ==
  /\ fetch.at \in {"clear", "drop"}
  /\ \E e \in Entries : copy[e] # Absent /\ copy' = [copy EXCEPT ![e] = Absent]
  /\ UNCHANGED <<service, fetch, given, bcatPast, bcatLeft>>

\* It is done, or an error ended it unnoticed.
Forgotten ==
  /\ fetch.at \in {"clear", "drop"}
  /\ \E ok \in BOOLEAN :
       /\ Tries(ok) /\ ok = (copy = [e \in Entries |-> Absent])
       /\ bcatPast' = [failed |-> bcatPast.failed \/ ~ok,
                       gone |-> bcatPast.gone \cup IF fetch.at = "drop" THEN 1..fetch.dataset ELSE {}]
  /\ \/ fetch.at = "clear" /\ fetch' = [fetch EXCEPT !.at = "write"] /\ UNCHANGED given
     \/ fetch.at = "drop" /\ fetch' = NoFetch /\ given' = Gave("none", Nothing, fetch.closed)
  /\ UNCHANGED <<service, copy>>

\* Store: the files, then the manifest; whether a write went through is not looked at.
\* Then the dataset is returned, from memory.
WriteEntry ==
  /\ fetch.at = "write"
  /\ LET data == IF fetch.next = 0 THEN fetch.dataset ELSE fetch.files[fetch.next]
     IN \E ok \in BOOLEAN, left \in {copy[fetch.next], Cut, data} :
          /\ Tries(ok) /\ ok = (left = data)
          /\ copy' = [copy EXCEPT ![fetch.next] = left]
          /\ bcatPast' = [bcatPast EXCEPT !.failed = @ \/ ~ok]
  /\ \/ fetch.next # 0 /\ fetch' = [fetch EXCEPT !.next = After(@)] /\ UNCHANGED given
     \/ fetch.next = 0 /\ fetch' = NoFetch /\ given' = Gave("dataset", fetch.files, fetch.closed)
  /\ UNCHANGED service

\* The process ends, perhaps in the middle of a write.
BcatDie ==
  /\ \/ UNCHANGED copy
     \/ /\ fetch.at = "write"
        /\ copy' = [copy EXCEPT ![fetch.next] = Cut]
  /\ fetch' = NoFetch /\ given' = Gave("unasked", Nothing, {})
  /\ UNCHANGED <<service, bcatPast, bcatLeft>>

-----------------------------------------------------------------------------
(* Properties. *)

\* As long as the disk does what it is asked, a title is given every path of one dataset
\* or nothing; one that was in its window when the title asked; and not one that was given
\* up since, the service having said that it is gone or sent what cannot be read: whatever
\* was published meanwhile, wherever a download failed and wherever a process died (Fetch,
\* Store, Cached, Forget).
DeliveredWhole ==
  given.outcome = "dataset" /\ ~bcatPast.failed =>
    \E d \in Datasets \ (given.closed \cup bcatPast.gone) :
      \A p \in Paths : given.files[p] = IF Split(p) THEN d ELSE Absent
=============================================================================
