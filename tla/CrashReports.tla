---------------------------- MODULE CrashReports ----------------------------
(* Crash reports: written by a process that goes on (the host's Record), by   *)
(* one that is ending (OnTerminate, OnSignal), offered at the next start, and *)
(* sent or thrown away (crash_reports.cpp, crash_report_prompt.cpp).          *)
(*                                                                            *)
(* A report is a .log and a .json, the second written aside as .json.tmp and  *)
(* renamed in.  Names sort by time, so a report is its number.  Four actors   *)
(* touch the directory, and none of them holds a lock: the thread that        *)
(* records, the one that crashes, the prompt on the UI thread and the sender  *)
(* it starts.  The process may die between any two of their steps.            *)
EXTENDS Integers, FiniteSets, FiniteSetsExt

CONSTANTS
  MaxReports,   \* how many reports a behaviour writes
  MaxPending    \* kMaxPending

ASSUME ReportAssumption == MaxReports \in Nat /\ MaxPending \in Nat \ {0}

VARIABLES
  files,     \* the directory: logs, metas (.json), tmps, those of them that do not parse, policy
  rep,       \* the process: g_installed, g_never, g_recorded, and whether the prompt has run
  actor,     \* each actor: where it is, the report it writes, the reports it has to go through
  repPast,   \* history: reports taken by the site, ever pending, without a log on purpose
  repLeft    \* how many more events of each kind this behaviour has

repVars == <<files, rep, actor, repPast, repLeft>>

Actors == {"host", "fault", "prompt", "sender"}
Ids == 1..MaxReports
Policies == {"ask", "always", "never"}

RepTypeOK ==
  /\ files \in [logs : SUBSET Ids, metas : SUBSET Ids, tmps : SUBSET Ids, bad : SUBSET Ids,
                policy : Policies]
  /\ rep \in [installed : BOOLEAN, never : BOOLEAN, recorded : BOOLEAN, offered : BOOLEAN]
  /\ actor \in [Actors -> [pc : {"idle", "log", "tmp", "rename", "prune", "die", "box", "all",
                                 "tmps", "read", "post", "meta", "rest"},
                           id : {0} \cup Ids, todo : SUBSET Ids, prunes : BOOLEAN]]
  /\ repPast \in [next : 1..(MaxReports + 1), taken : SUBSET Ids, ever : SUBSET Ids,
                  unlogged : SUBSET Ids]
  /\ repLeft \in [start : Nat, crash : Nat, record : Nat, policy : Nat, fault : Nat]

Idle == [pc |-> "idle", id |-> 0, todo |-> {}, prunes |-> FALSE]

NotRunning == [installed |-> FALSE, never |-> FALSE, recorded |-> FALSE, offered |-> FALSE]

\* A process that has not started, or one that found nothing to offer.
RepInit(budget, running, policy) ==
  /\ files = [logs |-> {}, metas |-> {}, tmps |-> {}, bad |-> {}, policy |-> policy]
  /\ rep = [NotRunning EXCEPT !.installed = running, !.offered = running,
                              !.never = running /\ policy = "never"]
  /\ actor = [a \in Actors |-> Idle]
  /\ repPast = [next |-> 1, taken |-> {}, ever |-> {}, unlogged |-> {}]
  /\ repLeft = budget

Costs(kind) == repLeft[kind] > 0 /\ repLeft' = [repLeft EXCEPT ![kind] = @ - 1]

Goes(a, pc) == actor' = [actor EXCEPT ![a].pc = pc]

-----------------------------------------------------------------------------
(* The process. *)

Install ==
  /\ ~rep.installed /\ Costs("start")
  /\ rep' = [rep EXCEPT !.installed = TRUE, !.never = files.policy = "never"]
  /\ UNCHANGED <<files, actor, repPast>>

\* The file, and what the handlers read in its place.
Keeps(policy) ==
  /\ files' = [files EXCEPT !.policy = policy]
  /\ rep' = [rep EXCEPT !.never = policy = "never"]

SetPolicy(policy) ==
  /\ rep.installed /\ policy # files.policy /\ Costs("policy")
  /\ Keeps(policy)
  /\ UNCHANGED <<actor, repPast>>

\* The last signal is delivered again with its default action, somebody kills the
\* process, or a second thread faults while the first still writes.
RepDie ==
  /\ rep.installed
  /\ \/ actor["fault"].pc = "die" /\ UNCHANGED repLeft
     \/ actor["fault"].pc # "die" /\ Costs("crash")
  /\ rep' = NotRunning
  /\ actor' = [a \in Actors |-> Idle]
  /\ UNCHANGED <<files, repPast>>

-----------------------------------------------------------------------------
(* Writing a report. *)

Begins(a, prunes) ==
  /\ repPast.next <= MaxReports
  /\ actor' = [actor EXCEPT ![a] = [pc |-> "log", id |-> repPast.next, todo |-> {},
                                    prunes |-> prunes]]
  /\ repPast' = [repPast EXCEPT !.next = @ + 1]

Record ==
  /\ rep.installed /\ ~rep.never
  /\ actor["host"].pc = "idle" /\ Costs("record")
  /\ Begins("host", TRUE)
  /\ UNCHANGED <<files, rep>>

\* g_recorded is taken before g_never is looked at; the handlers of both kinds end
\* the process.
Faults(prunes) ==
  /\ rep.installed /\ actor["fault"].pc = "idle" /\ Costs("crash")
  /\ rep' = [rep EXCEPT !.recorded = TRUE]
  /\ IF rep.recorded \/ rep.never THEN Goes("fault", "die") /\ UNCHANGED repPast
                                  ELSE Begins("fault", prunes)
  /\ UNCHANGED files

\* Record, and then abort: its SIGABRT finds g_recorded set.
OnTerminate == Faults(TRUE)

\* WriteSignalReport only writes; it prunes nothing.
OnSignal == Faults(FALSE)

WriteLog(a) ==
  /\ actor[a].pc = "log"
  /\ Goes(a, "tmp")
  /\ \/ /\ files' = [files EXCEPT !.logs = @ \cup {actor[a].id}]
        /\ UNCHANGED <<repPast, repLeft>>
     \/ /\ Costs("fault")
        /\ repPast' = [repPast EXCEPT !.unlogged = @ \cup {actor[a].id}]
        /\ UNCHANGED files
  /\ UNCHANGED rep

\* The meta of a report, whole or cut short.
BuildMeta(id, whole) ==
  [files EXCEPT !.tmps = @ \cup {id}, !.bad = IF whole THEN @ ELSE @ \cup {id}]

\* A write that fails half way is renamed in like any other.
WriteTmp(a) ==
  /\ actor[a].pc = "tmp"
  /\ Goes(a, "rename")
  /\ \/ files' = BuildMeta(actor[a].id, TRUE) /\ UNCHANGED repLeft
     \/ files' = BuildMeta(actor[a].id, FALSE) /\ Costs("fault")
  /\ UNCHANGED <<rep, repPast>>

Rename(a) ==
  /\ actor[a].pc = "rename"
  /\ Goes(a, IF actor[a].prunes THEN "prune" ELSE "die")
  /\ LET there == files.tmps \cap {actor[a].id}
     IN /\ files' = [files EXCEPT !.tmps = @ \ there, !.metas = @ \cup there]
        /\ repPast' = [repPast EXCEPT !.ever = @ \cup there]
  /\ UNCHANGED <<rep, repLeft>>

-----------------------------------------------------------------------------
(* Reading and throwing away. *)

\* Pending lists the metas that parse, oldest first, and discards the others.
Pending == files.metas \ files.bad

Swept == [files EXCEPT !.metas = @ \ files.bad, !.logs = @ \ (files.metas \cap files.bad)]

Victims(reports) == {i \in reports : Cardinality({j \in reports : j > i}) >= MaxPending}

Done(a) == IF a = "fault" THEN "die" ELSE IF a = "prompt" THEN "tmps" ELSE "idle"

GoesThrough(a, reports) ==
  actor' = [actor EXCEPT ![a].todo = reports, ![a].pc = IF reports = {} THEN Done(a) ELSE "meta"]

\* The victims are listed once and discarded one after the other.
Prune(a) ==
  /\ actor[a].pc = "prune"
  /\ GoesThrough(a, Victims(Pending))
  /\ files' = Swept
  /\ UNCHANGED <<rep, repPast, repLeft>>

First(a) == Min(actor[a].todo)

\* Discard removes the meta and then the log.
DiscardMeta(a) ==
  /\ actor[a].pc = "meta"
  /\ Goes(a, "rest")
  /\ files' = [files EXCEPT !.metas = @ \ {First(a)}]
  /\ UNCHANGED <<rep, repPast, repLeft>>

Passes(a) ==
  LET rest == actor[a].todo \ {First(a)}
      loop == IF a = "sender" THEN "read" ELSE "meta"
  IN actor' = [actor EXCEPT ![a].todo = rest, ![a].pc = IF rest = {} THEN Done(a) ELSE loop]

DiscardLog(a) ==
  /\ actor[a].pc = "rest"
  /\ Passes(a)
  /\ files' = [files EXCEPT !.logs = @ \ {First(a)}]
  /\ UNCHANGED <<rep, repPast, repLeft>>

-----------------------------------------------------------------------------
(* The prompt and the sender. *)

\* Both lists of Pending are taken here: the one to ask about, and, for a policy of
\* never, the one DiscardAll reads again.
OfferCrashReports ==
  /\ rep.installed /\ ~rep.offered
  /\ rep' = [rep EXCEPT !.offered = TRUE]
  /\ files' = Swept
  /\ \/ Pending = {} /\ UNCHANGED actor
     \/ Pending # {} /\ files.policy = "never" /\ GoesThrough("prompt", Pending)
     \/ Pending # {} /\ files.policy = "ask"
        /\ actor' = [actor EXCEPT !["prompt"].todo = Pending, !["prompt"].pc = "box"]
     \/ Pending # {} /\ files.policy = "always"
        /\ actor' = [actor EXCEPT !["sender"].todo = Pending, !["sender"].pc = "read"]
  /\ UNCHANGED <<repPast, repLeft>>

\* The answer is about the reports that were listed when the box opened.
BoxAnswered(yes, remember) ==
  /\ actor["prompt"].pc = "box"
  /\ IF remember THEN Keeps(IF yes THEN "always" ELSE "never") ELSE UNCHANGED <<files, rep>>
  /\ actor' = IF yes
              THEN [actor EXCEPT !["prompt"] = Idle,
                                 !["sender"].todo = actor["prompt"].todo,
                                 !["sender"].pc = "read"]
              ELSE [actor EXCEPT !["prompt"] = [Idle EXCEPT !.pc = "all"]]
  /\ UNCHANGED <<repPast, repLeft>>

\* DiscardAll reads the directory again, ...
DiscardAll ==
  /\ actor["prompt"].pc = "all"
  /\ GoesThrough("prompt", Pending)
  /\ files' = Swept
  /\ UNCHANGED <<rep, repPast, repLeft>>

\* ... and goes on to what a crash left half written, or a writer is about to rename.
DiscardTmps ==
  /\ actor["prompt"].pc = "tmps"
  /\ Goes("prompt", "idle")
  /\ files' = [files EXCEPT !.tmps = {}]
  /\ UNCHANGED <<rep, repPast, repLeft>>

\* Send: a meta that is gone is not sent.
SendReads ==
  /\ actor["sender"].pc = "read"
  /\ IF First("sender") \in files.metas THEN Goes("sender", "post") ELSE Passes("sender")
  /\ UNCHANGED <<files, rep, repPast, repLeft>>

\* A bug to look for: whatever the site says, the report is thrown away.
PostedAnyway ==
  /\ actor["sender"].pc = "post"
  /\ \/ /\ repPast' = [repPast EXCEPT !.taken = @ \cup {First("sender")}]
        /\ UNCHANGED repLeft
     \/ Costs("fault") /\ UNCHANGED repPast
  /\ Goes("sender", "meta")
  /\ UNCHANGED <<files, rep>>

\* Only an answer of 2xx ends in Discard; any other leaves the report for the next
\* start.
PostCrashReport ==
  /\ actor["sender"].pc = "post"
  /\ \/ /\ Goes("sender", "meta")
        /\ repPast' = [repPast EXCEPT !.taken = @ \cup {First("sender")}]
        /\ UNCHANGED repLeft
     \/ Costs("fault") /\ Passes("sender") /\ UNCHANGED repPast
  /\ UNCHANGED <<files, rep>>

-----------------------------------------------------------------------------
(* Properties. *)

\* The report the prompt is throwing away, for an answer of no or a policy of never.
Declined == IF actor["prompt"].pc = "meta" THEN {First("prompt")} ELSE {}

\* A report appears with its log beside it, unless the log could not be written, and
\* it goes only when the site has taken it, when the person declined, when it does
\* not parse, or when kMaxPending newer ones had been pending - whoever is writing,
\* pruning, sending or dying at the time (Record, WriteSignalReport, Prune, Send,
\* DiscardAll; "A report that fails stays on disk and is offered again next time").
ReportsKept ==
  [][/\ files'.metas \ files.metas \subseteq files.logs \cup repPast.unlogged
     /\ \A id \in files.metas \ files'.metas :
          \/ id \in repPast.taken \/ id \in files.bad \/ id \in Declined
          \/ Cardinality({j \in repPast.ever : j > id}) >= MaxPending]_repVars
=============================================================================
