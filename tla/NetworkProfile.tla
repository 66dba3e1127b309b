--------------------------- MODULE NetworkProfile ---------------------------
(* Which names the emulated console's lookups are sent to OpenPak for: the   *)
(* network profile the site publishes, and the signed ceiling that bounds it *)
(* (network_profile_fetch.cpp, network_ceiling.cpp).                         *)
(*                                                                           *)
(* Three threads load: the fetch at start ("boot"), the settings' Refresh    *)
(* button ("settings") and the detached re-check ("watch").  They share four *)
(* files - the stored profile and its etag, the cached ceiling and the       *)
(* highest version accepted - and no lock covers a load from its first read  *)
(* to its last write.  A profile is abstracted to its version: version v     *)
(* names the families 1..v, and ceiling version c admits 1..c+1, version 0   *)
(* being the compiled one.                                                   *)
EXTENDS Integers

CONSTANT MaxVersion

ASSUME VersionAssumption == MaxVersion \in Nat \ {0}

VARIABLES
  published,  \* what the site publishes: the profile and the ceiling, by version
  kept,       \* the four files; 0 is no file, or one that does not parse
  net,        \* the process: ceiling in force, profile applied, the watch's state
  load,       \* each thread's load
  netMixed,   \* history: two loads overlapped over the ceiling, or one could write
              \* neither of its files; over the profile, or its file could not be opened
  accepted,   \* history: the highest ceiling version ever put in force
  netLeft     \* how many more events of each kind this behaviour has

netVars == <<published, kept, net, load, netMixed, accepted, netLeft>>

Threads == {"boot", "settings", "watch"}
Versions == 1..MaxVersion
Unset == -1
CompiledCeiling == 0
Same == -1      \* the answer 304

NetTypeOK ==
  /\ published \in [profile : Versions, ceiling : Versions]
  /\ kept \in [body : 0..MaxVersion, etag : 0..MaxVersion,
               cache : 0..MaxVersion, highest : 0..MaxVersion]
  /\ net \in [ceiling : Unset..MaxVersion, applied : SUBSET Versions, inUse : SUBSET Versions,
              announced : SUBSET Versions, booted : BOOLEAN, watching : BOOLEAN,
              recheck : BOOLEAN]
  /\ load \in [Threads -> [pc : {"idle", "asked", "answered", "cache", "highest", "set", "finish",
                                 "body", "etag", "apply", "inUse", "fresh"},
                           etag : 0..MaxVersion, asked : 0..MaxVersion, tag : 0..MaxVersion,
                           reply : Same..MaxVersion, envelope : 0..MaxVersion,
                           ceiling : 0..MaxVersion, store : BOOLEAN, highest : 0..MaxVersion,
                           names : SUBSET Versions, again : BOOLEAN]]
  /\ netMixed \in [ceiling : BOOLEAN, profile : BOOLEAN]
  /\ accepted \in 0..MaxVersion
  /\ netLeft \in [load : Nat, publish : Nat, fault : Nat]

NoLoad == [pc |-> "idle", etag |-> 0, asked |-> 0, tag |-> 0, reply |-> 0, envelope |-> 0,
           ceiling |-> 0, store |-> FALSE, highest |-> 0, names |-> {}, again |-> FALSE]

NewProcess == [ceiling |-> Unset, applied |-> {}, inUse |-> {}, announced |-> {},
               booted |-> FALSE, watching |-> FALSE, recheck |-> FALSE]

\* The site has published something, and nothing is stored yet: the emulator has never
\* run, or all it did was to look a name up.
NetInit(budget, looked) ==
  /\ published = [profile |-> 1, ceiling |-> 1]
  /\ kept = [body |-> 0, etag |-> 0, cache |-> 0, highest |-> 0]
  /\ net = [NewProcess EXCEPT !.ceiling = IF looked THEN CompiledCeiling ELSE Unset]
  /\ load = [t \in Threads |-> NoLoad]
  /\ netMixed = [ceiling |-> FALSE, profile |-> FALSE]
  /\ accepted = 0
  /\ netLeft = budget

Spend(kind) == netLeft[kind] > 0 /\ netLeft' = [netLeft EXCEPT ![kind] = @ - 1]

\* A step that goes as hoped, or fails at the cost of one fault.
Or(fine, failed) == \/ fine /\ UNCHANGED netLeft
                    \/ failed /\ Spend("fault")

Step(t, fields) ==
  load' = [load EXCEPT ![t] = [f \in DOMAIN @ |-> IF f \in DOMAIN fields THEN fields[f] ELSE @[f]]]

-----------------------------------------------------------------------------
(* The ceiling. *)

\* The names a ceiling version admits; the compiled one is frozen in the build.
FamiliesFor(ceiling) == 1..(ceiling + 1)

\* What is left of a profile under a ceiling, and what the host redirects with.
FilterToCeiling(profile, ceiling) == (1..profile) \cap FamiliesFor(ceiling)

\* The names a build carries for a console without any profile.
BuiltIn(ceiling) == {1} \cap FamiliesFor(ceiling)

\* An envelope that parses, and whose signature is a pinned key's; anything else is 0.
VerifyCeiling(envelope) == envelope # 0

\* A bug to look for: a fetched envelope only has to verify.
DecideAnyFetched(cached, fetched, highest) ==
  LET usable == VerifyCeiling(cached) /\ cached >= highest
  IN IF ~VerifyCeiling(fetched)
     THEN [ceiling |-> IF usable THEN cached ELSE CompiledCeiling, store |-> FALSE,
           highest |-> IF usable THEN cached ELSE highest]
     ELSE [ceiling |-> fetched, store |-> TRUE, highest |-> fetched]

\* The cached envelope counts unless it is older than one accepted before; the
\* fetched one replaces it unless it is older than either.
DecideCeiling(cached, fetched, highest) ==
  LET usable == VerifyCeiling(cached) /\ cached >= highest
      top    == IF usable THEN cached ELSE highest
  IN IF ~VerifyCeiling(fetched) \/ fetched < top
     THEN [ceiling |-> IF usable THEN cached ELSE CompiledCeiling, store |-> FALSE,
           highest |-> top]
     ELSE [ceiling |-> fetched, store |-> TRUE, highest |-> fetched]

Writing == {"cache", "highest", "set"}

\* LoadCeiling reads the two files and decides, once the envelope is there.
Decide(t) ==
  /\ load[t].pc = "answered"
  /\ LET d == DecideCeiling(kept.cache, load[t].envelope, kept.highest)
     IN Step(t, [pc |-> "cache", ceiling |-> d.ceiling, store |-> d.store, highest |-> d.highest])
  /\ netMixed' = [netMixed EXCEPT !.ceiling =
                    @ \/ \E u \in Threads \ {t} : load[u].pc \in Writing]
  /\ UNCHANGED <<published, kept, net, accepted, netLeft>>

\* WriteAtomically leaves the old file or the new one, whole.
WriteCache(t) ==
  /\ load[t].pc = "cache"
  /\ Step(t, [pc |-> "highest"])
  /\ IF load[t].store
     THEN Or(kept' = [kept EXCEPT !.cache = load[t].ceiling], UNCHANGED kept)
     ELSE UNCHANGED <<kept, netLeft>>
  /\ UNCHANGED <<published, net, netMixed, accepted>>

\* The highest version is read again before it is written.
WriteHighest(t) ==
  /\ load[t].pc = "highest"
  /\ Step(t, [pc |-> "set"])
  /\ IF load[t].highest > kept.highest
     THEN Or(kept' = [kept EXCEPT !.highest = load[t].highest] /\ UNCHANGED netMixed,
             /\ UNCHANGED kept
             /\ netMixed' = [netMixed EXCEPT !.ceiling = @ \/ kept.cache < load[t].highest])
     ELSE UNCHANGED <<kept, netMixed, netLeft>>
  /\ UNCHANGED <<published, net, accepted>>

InForce(ceiling) ==
  /\ net' = [net EXCEPT !.ceiling = ceiling]
  /\ accepted' = IF ceiling > accepted THEN ceiling ELSE accepted

SetCeiling(t) ==
  /\ load[t].pc = "set"
  /\ Step(t, [pc |-> IF t = "watch" THEN "fresh" ELSE "finish"])
  /\ InForce(load[t].ceiling)
  /\ UNCHANGED <<published, kept, netMixed, netLeft>>

\* A lookup before the first load reads the files itself, and sets the ceiling
\* only if nobody has.
CurrentCeiling ==
  /\ net.ceiling = Unset
  /\ InForce(DecideCeiling(kept.cache, 0, kept.highest).ceiling)
  /\ UNCHANGED <<published, kept, load, netMixed, netLeft>>

-----------------------------------------------------------------------------
(* The profile. *)

\* A body that parses and validates; anything else is 0.
Valid(body) == body > 0

\* A bug to look for: an etag is sent whatever is stored beside it.
StoredUnread == TRUE

\* A 304 may only be asked for over a stored copy that parses and validates.
StoredUsable == Valid(kept.body)

\* The request goes out with the stored etag; the envelope is fetched beside it.
FetchWithCeiling(t) ==
  /\ t # "watch" /\ load[t].pc = "idle"
  /\ Spend("load")
  /\ IF t = "boot" THEN ~net.booted /\ net' = [net EXCEPT !.booted = TRUE] ELSE UNCHANGED net
  /\ LET conditional == t = "boot" /\ kept.etag # 0 /\ StoredUsable
     IN Step(t, [pc |-> "asked", etag |-> kept.etag, again |-> t = "settings",
                 asked |-> IF conditional THEN kept.etag ELSE 0])
  /\ netMixed' = [netMixed EXCEPT !.profile =
                    @ \/ \E u \in Threads \ {t, "watch"} : load[u].pc # "idle"]
  /\ UNCHANGED <<published, kept, accepted>>

\* external: the envelopes the site may hand out; one behind the newest is a fault
Envelopes(newest) == IF newest THEN {published.ceiling} ELSE 0..(published.ceiling - 1)

\* external: the site compares the etag it is sent with the profile it publishes
SiteAnswer(asked) == IF asked = published.profile THEN Same ELSE published.profile

\* No answer, another status, a body that does not parse or validate and a CA
\* that does not match its digest all leave the load without a profile.  An
\* answer without an ETag is stored under the one that was sent.
Answered(t) ==
  /\ load[t].pc = "asked"
  /\ LET got(reply, tag, newest) ==
           \E envelope \in Envelopes(newest) :
             Step(t, [pc |-> "answered", reply |-> reply, tag |-> tag, envelope |-> envelope])
         reply == SiteAnswer(load[t].asked)
     IN Or(got(reply, published.profile, TRUE),
           \/ got(0, 0, TRUE)
           \/ got(reply, published.profile, FALSE)
           \/ got(reply, load[t].etag, TRUE))
  /\ UNCHANGED <<published, kept, net, netMixed, accepted>>

\* Finish: the stored copy, or the built-in one, stands in for a missing answer.
LoadStored == IF StoredUsable THEN FilterToCeiling(kept.body, net.ceiling)
                              ELSE BuiltIn(net.ceiling)

Finish(t) ==
  /\ load[t].pc = "finish"
  /\ Step(t, IF Valid(load[t].reply) THEN [pc |-> "body"]
                                      ELSE [pc |-> "apply", names |-> LoadStored])
  /\ UNCHANGED <<published, kept, net, netMixed, accepted, netLeft>>

\* WriteStored truncates and writes the body, and then the etag, whatever came of
\* the body: a file that cannot be written in full no longer parses, and one that
\* cannot be opened stays the old one.
StoreBody(t) ==
  /\ load[t].pc = "body"
  /\ Step(t, [pc |-> "etag"])
  /\ Or(kept' = [kept EXCEPT !.body = load[t].reply] /\ UNCHANGED netMixed,
        \/ kept' = [kept EXCEPT !.body = 0] /\ UNCHANGED netMixed
        \/ UNCHANGED kept /\ netMixed' = [netMixed EXCEPT !.profile = TRUE])
  /\ UNCHANGED <<published, net, accepted>>

StoreEtag(t) ==
  /\ load[t].pc = "etag"
  /\ kept' = [kept EXCEPT !.etag = load[t].tag]
  /\ Step(t, [pc |-> "apply", names |-> FilterToCeiling(load[t].reply, net.ceiling)])
  /\ UNCHANGED <<published, net, netMixed, accepted, netLeft>>

\* Apply publishes the profile and then, under another lock, its digest; the
\* settings page applies its result a second time.
Apply(t) ==
  /\ load[t].pc = "apply"
  /\ net' = [net EXCEPT !.applied = load[t].names]
  /\ Step(t, [pc |-> "inUse"])
  /\ UNCHANGED <<published, kept, netMixed, accepted, netLeft>>

SetDigestInUse(t) ==
  /\ load[t].pc = "inUse"
  /\ net' = [net EXCEPT !.inUse = load[t].names, !.watching = TRUE]
  /\ IF load[t].again THEN Step(t, [pc |-> "apply", again |-> FALSE])
                      ELSE load' = [load EXCEPT ![t] = NoLoad]
  /\ UNCHANGED <<published, kept, netMixed, accepted, netLeft>>

\* What a lookup of the emulated console is answered from: the profile applied.
RedirectFor(name) == name \in net.applied

-----------------------------------------------------------------------------
(* The re-check. *)

\* A sign-in asks for the re-check to be made now (api.cpp calls it).
RecheckSoon == net' = [net EXCEPT !.recheck = net.watching]

\* Every six hours, or when asked: the ceiling first, then the profile.  Any envelope
\* may come, or none.
WatchLoop ==
  /\ net.watching /\ load["watch"].pc = "idle"
  /\ \/ net.recheck /\ UNCHANGED netLeft
     \/ Spend("load")
  /\ net' = [net EXCEPT !.recheck = FALSE]
  /\ \E envelope \in 0..published.ceiling :
       Step("watch", [pc |-> "answered", envelope |-> envelope])
  /\ UNCHANGED <<published, kept, netMixed, accepted>>

\* One announcement for each set of names that is not the one in use.
ShouldAnnounce(names) == net.inUse # {} /\ names # net.inUse /\ names # net.announced

FreshDigest ==
  /\ load["watch"].pc = "fresh"
  /\ load' = [load EXCEPT !["watch"] = NoLoad]
  /\ LET names == FilterToCeiling(published.profile, net.ceiling)
     IN Or(net' = [net EXCEPT !.announced = IF ShouldAnnounce(names) THEN names ELSE @],
           UNCHANGED net)
  /\ UNCHANGED <<published, kept, netMixed, accepted>>

-----------------------------------------------------------------------------
\* external: the site publishes a new profile or a new ceiling
Publish ==
  /\ Spend("publish")
  /\ \E what \in DOMAIN published :
       /\ published[what] < MaxVersion
       /\ published' = [published EXCEPT ![what] = @ + 1]
  /\ UNCHANGED <<kept, net, load, netMixed, accepted>>

\* The process dies: a file being rewritten in place is left empty, or as it was.
NetDie ==
  /\ \E body \in {kept.body} \cup {0 : t \in {u \in Threads : load[u].pc = "body"}},
        etag \in {kept.etag} \cup {0 : t \in {u \in Threads : load[u].pc = "etag"}} :
       kept' = [kept EXCEPT !.body = body, !.etag = etag]
  /\ net' = NewProcess
  /\ load' = [t \in Threads |-> NoLoad]
  /\ UNCHANGED <<published, netMixed, accepted, netLeft>>

-----------------------------------------------------------------------------
(* Properties. *)

\* Until two loads overlap over the ceiling's files, or one load can write neither of
\* them, the ceiling put in force is never older than one that was in force before,
\* through restarts and failed writes - unless it is the compiled one, which a cache
\* that could not be written leaves; and whatever overlaps, no name is sent to
\* OpenPak that no ceiling in force so far admits (DecideCeiling, LoadCeiling,
\* FilterToCeiling, RedirectFor).
NoRollback ==
  [][/\ net'.ceiling > CompiledCeiling /\ ~netMixed.ceiling => net'.ceiling >= accepted
     /\ \A name \in Versions : RedirectFor(name)' => name \in FamiliesFor(accepted)]_netVars

\* Until the boot fetch and a Refresh overlap, or the body cannot be opened, a 304
\* stands for a stored body: the one whose etag was sent, whatever a crash or a
\* failed write left on disk (WriteStored, StoredUsable, Finish).
Unchanged304 ==
  \A t \in Threads :
    load[t].pc = "answered" /\ load[t].reply = Same /\ ~netMixed.profile
      => kept.body = load[t].asked
=============================================================================
