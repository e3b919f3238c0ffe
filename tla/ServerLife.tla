------------------------------- MODULE ServerLife -------------------------------
(***************************************************************************)
(* A server process from its start to its end: run of cmd/server/main.go,  *)
(* over Open of internal/repository.  Several processes may be started on  *)
(* one database file; the statements by which one opens the file are no    *)
(* transaction, so other processes, or its own death, come between them.   *)
(* A process may also have a database of its own, in memory.               *)
(*                                                                         *)
(* What a command does to the store is the subject of CommandService and   *)
(* of InspectionCase; here it is a handler that may commit once, and may   *)
(* hang.  Of the cases themselves only Validate's verdict is kept: whether *)
(* every one of them is intact as it lies in the file.                     *)
(***************************************************************************)
EXTENDS Integers, FiniteSets

CONSTANTS
  Processes,
  Flags,         \* per process, what its command line may ask for
  Handlers,      \* requests that one process may serve
  Statements,    \* how many tables the schema has
  InitialFiles,  \* what the database file may hold before the first start
  SchemaVersion, \* 2 in the code
  ClockMayStepBack,  \* as in InspectionCase
  MaxStarts, MaxCommits, MaxCrashes,  \* bounds
  Nil

Disk == "disk"

\* intact: no case violates a foreign key, its own rules, its rows, its audit chain.
Files == [tables : SUBSET (1..Statements), version : Nat \union {Nil},
          commits : Nat, intact : BOOLEAN]
Snapshots == [commits : Nat, intact : BOOLEAN]
Exits == {"refused", "error", "clean", "killed"}

\* A self-check is in memory unless its flags name a file, a server only if
\* its flags say so.
Configs == [selfcheck : BOOLEAN, memory : BOOLEAN]

ASSUME ServerAssumption ==
  /\ Flags \in [Processes -> SUBSET Configs]
  /\ Statements \in Nat /\ SchemaVersion \in Nat /\ ClockMayStepBack \in BOOLEAN
  /\ {MaxStarts, MaxCommits, MaxCrashes} \subseteq Nat
  /\ InitialFiles \subseteq Files
  /\ Disk \notin Processes /\ Nil \notin Nat \union Exits \union Snapshots

VARIABLES
  files,     \* per database: its tables, version in schema_meta, and cases
  phase,     \* per process, where run is
  cfg,       \* per process, what parseConfig and run make of its flags
  statement, \* per process, the next statement of the schema
  seen,      \* per process, the cases as Validate's snapshots hold them, or Nil
  failed,    \* per process, whether run will return an error
  posted,    \* per process, what Serve has sent to serverErrors, or Nil
  handlers,  \* per process and request, how far it is
  exit,      \* per process, how its last run ended
  beside,    \* history: another process was up while this one was opening
  starts, crashes

vars == <<files, phase, cfg, statement, seen, failed, posted, handlers,
          exit, beside, starts, crashes>>

Opening == {"schema", "version", "insert", "upgrade", "snapshots", "details"}
Up == Opening \union {"listen", "serving", "draining", "awaiting", "closing"}
EmptyFile == [tables |-> {}, version |-> Nil, commits |-> 0, intact |-> TRUE]

-----------------------------------------------------------------------------
(* Seeded faults.  No action uses these: each is a plausible mistake in the *)
(* definition that PROJECT.json pairs it with.                              *)

SchemaOnlyIfNew(file) == IF file.version = Nil THEN Statements ELSE 0

NoUpgrade(version) == FALSE

ClosedAtOnce(p) == TRUE

WaitsForEver(p) == FALSE

-----------------------------------------------------------------------------
(* Pieces of run and Open *)

\* The path that run opens.
Database(p) == IF cfg[p].memory THEN p ELSE Disk

File(p) == files[Database(p)]

Others(p) == {q \in Processes \ {p} : phase[q] \in Up /\ Database(q) = Database(p)}

\* Every statement is CREATE ... IF NOT EXISTS, and all of them run each time.
StatementsToRun(file) == Statements

NeedsUpgrade(version) == version = 1

Goto(p, next) == phase' = [phase EXCEPT ![p] = next]

\* The process is gone, and what it remembered with it.
End(p, how) ==
  /\ phase' = [phase EXCEPT ![p] = "down"]
  /\ exit' = [exit EXCEPT ![p] = how]
  /\ statement' = [statement EXCEPT ![p] = 1]
  /\ seen' = [seen EXCEPT ![p] = Nil]
  /\ failed' = [failed EXCEPT ![p] = FALSE]
  /\ posted' = [posted EXCEPT ![p] = Nil]

locals == <<statement, seen, failed, posted>>

\* Shutdown's condition to return nil, and its context's to end.
Drained(p) == \A h \in Handlers : handlers[p][h] \notin {"running", "committed"}

DeadlineMayPass(p) == TRUE

Changed(p, file) == files' = [files EXCEPT ![Database(p)] = file]

-----------------------------------------------------------------------------
(* Start: initialize, then Validate, statement by statement *)

Init ==
  /\ files \in [{Disk} \union Processes -> InitialFiles \union {EmptyFile}]
  /\ \A p \in Processes : files[p] = EmptyFile
  /\ phase = [p \in Processes |-> "down"]
  /\ cfg = [p \in Processes |-> [selfcheck |-> FALSE, memory |-> FALSE]]
  /\ statement = [p \in Processes |-> 1]
  /\ seen = [p \in Processes |-> Nil]
  /\ failed = [p \in Processes |-> FALSE]
  /\ posted = [p \in Processes |-> Nil]
  /\ handlers = [p \in Processes |-> [h \in Handlers |-> "none"]]
  /\ exit = [p \in Processes |-> Nil]
  /\ beside = [p \in Processes |-> FALSE]
  /\ starts = 0 /\ crashes = 0

Start(p) ==
  /\ phase[p] = "down" /\ starts < MaxStarts
  /\ \E c \in Flags[p] : cfg' = [cfg EXCEPT ![p] = c]
  /\ files' = [files EXCEPT ![p] = EmptyFile]
  /\ Goto(p, "schema")
  /\ handlers' = [handlers EXCEPT ![p] = [h \in Handlers |-> "none"]]
  /\ exit' = [exit EXCEPT ![p] = Nil]
  /\ beside' = [q \in Processes |->
       IF q = p THEN \E r \in Processes \ {p} : phase[r] \in Up /\ Database(r) = Database(p)'
       ELSE beside[q] \/ (phase[q] \in Opening /\ Database(q) = Database(p)')]
  /\ starts' = starts + 1
  /\ UNCHANGED <<crashes, locals>>

kept == <<cfg, handlers, beside, starts, crashes>>

CreateTable(p) ==
  /\ phase[p] = "schema"
  /\ IF statement[p] <= StatementsToRun(File(p))
       THEN /\ Changed(p, [File(p) EXCEPT !.tables = @ \union {statement[p]}])
            /\ statement' = [statement EXCEPT ![p] = @ + 1]
            /\ UNCHANGED phase
       ELSE Goto(p, "version") /\ UNCHANGED <<files, statement>>
  /\ UNCHANGED <<seen, failed, posted, exit, kept>>

ReadVersion(p) ==
  LET version == File(p).version
  IN /\ phase[p] = "version"
     /\ \/ version = Nil /\ Goto(p, "insert") /\ UNCHANGED <<exit, locals>>
        \/ version # Nil /\ NeedsUpgrade(version) /\ Goto(p, "upgrade") /\ UNCHANGED <<exit, locals>>
        \/ version = SchemaVersion /\ Goto(p, "snapshots") /\ UNCHANGED <<exit, locals>>
        \/ /\ version \notin {Nil, SchemaVersion} /\ ~NeedsUpgrade(version)
           /\ End(p, "refused")
     /\ UNCHANGED <<files, kept>>

\* The row has a primary key: whoever comes second fails, and does not start.
InsertVersion(p) ==
  /\ phase[p] = "insert"
  /\ IF File(p).version = Nil
       THEN /\ Changed(p, [File(p) EXCEPT !.version = SchemaVersion])
            /\ Goto(p, "snapshots") /\ UNCHANGED <<exit, locals>>
       ELSE End(p, "refused") /\ UNCHANGED files
  /\ UNCHANGED kept

UpgradeVersion(p) ==
  /\ phase[p] = "upgrade"
  /\ Changed(p, [File(p) EXCEPT !.version = SchemaVersion])
  /\ Goto(p, "snapshots")
  /\ UNCHANGED <<exit, locals, kept>>

ReadSnapshots(p) ==
  /\ phase[p] = "snapshots"
  /\ seen' = [seen EXCEPT ![p] = [commits |-> File(p).commits, intact |-> File(p).intact]]
  /\ Goto(p, "details")
  /\ UNCHANGED <<files, statement, failed, posted, exit, kept>>

\* A case that was not intact in its snapshot is refused.  The detail rows and
\* the audit events are those of now: a case committed since its snapshot was
\* read looks damaged, a case created since does not.
CompareDetails(p) ==
  /\ phase[p] = "details"
  /\ \/ seen[p].intact /\ Goto(p, "listen") /\ UNCHANGED <<exit, locals>>
     \/ (~seen[p].intact \/ File(p).commits # seen[p].commits) /\ End(p, "refused")
  /\ UNCHANGED <<files, kept>>

\* A statement waits five seconds for another process, and no longer.
Busy(p) ==
  /\ phase[p] \in Opening /\ Others(p) # {}
  /\ End(p, "refused")
  /\ UNCHANGED <<files, kept>>

\* The address may be taken; the store is then closed again.
Listen(p) ==
  /\ phase[p] = "listen"
  /\ \/ Goto(p, "serving") /\ UNCHANGED failed
     \/ Goto(p, "closing") /\ failed' = [failed EXCEPT ![p] = TRUE]
  /\ seen' = [seen EXCEPT ![p] = Nil] /\ statement' = [statement EXCEPT ![p] = 1]
  /\ beside' = [beside EXCEPT ![p] = FALSE]
  /\ UNCHANGED <<files, cfg, posted, handlers, exit, starts, crashes>>

-----------------------------------------------------------------------------
(* Service, and the end of it *)

opened == <<statement, seen, beside, starts>>  \* what opening has left behind

Handle(p, h, next) == handlers' = [handlers EXCEPT ![p][h] = next]

\* The self-check sends its requests one after the other.
Request(p, h) ==
  /\ phase[p] = "serving" /\ posted[p] = Nil
  /\ handlers[p][h] = "none"
  /\ cfg[p].selfcheck => Drained(p)
  /\ Handle(p, h, "running")
  /\ UNCHANGED <<files, phase, cfg, failed, posted, exit, crashes, opened>>

\* A commit keeps every case intact, but for one thing: under a clock that has
\* stepped back it stores a time before the one at which the case was created.
\* What is no longer intact never loads again, so no commit mends it.
StoresWhole(file) == IF ClockMayStepBack /\ file.commits > 0 THEN BOOLEAN ELSE {TRUE}

Committed(file, whole) == [file EXCEPT !.commits = @ + 1, !.intact = @ /\ whole]

HandlerCommits(p, h) ==
  /\ handlers[p][h] = "running" /\ File(p).commits < MaxCommits
  /\ \E whole \in StoresWhole(File(p)) : Changed(p, Committed(File(p), whole))
  /\ Handle(p, h, "committed")
  /\ UNCHANGED <<phase, cfg, failed, posted, exit, crashes, opened>>

HandlerAnswers(p, h) ==
  /\ handlers[p][h] \in {"running", "committed"}
  /\ Handle(p, h, "answered")
  /\ UNCHANGED <<files, phase, cfg, failed, posted, exit, crashes, opened>>

\* Serve returns, with an error of its own or because Shutdown closed the
\* listener, and sends what it returned to a channel that has room for one.
ServeReturns(p) ==
  /\ phase[p] \in {"serving", "draining", "awaiting"} /\ posted[p] = Nil
  /\ posted' = [posted EXCEPT ![p] = IF phase[p] = "serving" THEN "error" ELSE "nil"]
  /\ UNCHANGED <<files, phase, cfg, failed, handlers, exit, crashes, opened>>

ServeStops(p) == phase[p] \in {"draining", "awaiting"} /\ ServeReturns(p)
ServeFails(p) == phase[p] = "serving" /\ ServeReturns(p)

\* The two branches of select, both of which may be open.
NoticeFailure(p) ==
  /\ phase[p] = "serving" /\ ~cfg[p].selfcheck /\ posted[p] = "error"
  /\ Goto(p, "closing")
  /\ failed' = [failed EXCEPT ![p] = TRUE]
  /\ UNCHANGED <<files, cfg, handlers, posted, exit, crashes, opened>>

Signal(p) ==
  /\ phase[p] = "serving" /\ ~cfg[p].selfcheck
  /\ Goto(p, "draining")
  /\ UNCHANGED <<files, cfg, failed, handlers, posted, exit, crashes, opened>>

\* runSelfcheck: every request answered as expected, or the first that is not;
\* its client waits five seconds for each.
SelfcheckReturns(p) ==
  /\ phase[p] = "serving" /\ cfg[p].selfcheck
  /\ \/ (\A h \in Handlers : handlers[p][h] = "answered") /\ UNCHANGED failed
     \/ failed' = [failed EXCEPT ![p] = TRUE]
  /\ Goto(p, "draining")
  /\ UNCHANGED <<files, cfg, handlers, posted, exit, crashes, opened>>

\* Shutdown returns nil when no request is left, an error when time is up.
ShutdownReturns(p) ==
  /\ phase[p] = "draining"
  /\ \/ Drained(p) /\ UNCHANGED failed
     \/ ~Drained(p) /\ DeadlineMayPass(p) /\ failed' = [failed EXCEPT ![p] = TRUE]
  /\ Goto(p, IF cfg[p].selfcheck THEN "awaiting" ELSE "closing")
  /\ UNCHANGED <<files, cfg, handlers, posted, exit, crashes, opened>>

\* <-serverErrors, in the self-check only.
AwaitServe(p) ==
  /\ phase[p] = "awaiting" /\ posted[p] # Nil
  /\ failed' = [failed EXCEPT ![p] = @ \/ posted[p] = "error"]
  /\ Goto(p, "closing")
  /\ UNCHANGED <<files, cfg, handlers, posted, exit, crashes, opened>>

CutOff(p) ==
  [handlers EXCEPT ![p] = [h \in Handlers |->
     IF handlers[p][h] \in {"running", "committed"} THEN "cut" ELSE handlers[p][h]]]

\* store.Close, and the process ends under whatever still runs.
Exit(p) ==
  /\ phase[p] = "closing"
  /\ End(p, IF failed[p] THEN "error" ELSE "clean")
  /\ handlers' = CutOff(p)
  /\ UNCHANGED <<files, cfg, beside, starts, crashes>>

Crash(p) ==
  /\ phase[p] \in Up /\ crashes < MaxCrashes
  /\ End(p, "killed")
  /\ handlers' = CutOff(p)
  /\ crashes' = crashes + 1
  /\ UNCHANGED <<files, cfg, beside, starts>>

OpenStep(p) ==
  \/ CreateTable(p) \/ ReadVersion(p) \/ InsertVersion(p) \/ UpgradeVersion(p)
  \/ ReadSnapshots(p) \/ CompareDetails(p) \/ Busy(p) \/ Listen(p)

StopStep(p) ==
  \/ NoticeFailure(p) \/ SelfcheckReturns(p) \/ ShutdownReturns(p)
  \/ AwaitServe(p) \/ Exit(p)

HandlerStep(p) ==
  \E h \in Handlers : Request(p, h) \/ HandlerCommits(p, h) \/ HandlerAnswers(p, h)

Next ==
  \E p \in Processes :
    \/ Start(p) \/ OpenStep(p) \/ Signal(p) \/ StopStep(p)
    \/ ServeFails(p) \/ ServeStops(p) \/ HandlerStep(p) \/ Crash(p)

Spec == Init /\ [][Next]_vars

\* The main goroutine and Serve's run on; a statement returns after the busy
\* time at the latest, a context ends at its deadline.  Nothing is assumed of
\* handlers and clients, of signals, or of who starts a process.
Fairness ==
  \A p \in Processes : WF_vars(OpenStep(p) \/ StopStep(p)) /\ WF_vars(ServeStops(p))

FairSpec == Spec /\ Fairness

-----------------------------------------------------------------------------
(* Properties *)

\* Whatever crashes and other processes came between the statements of any
\* number of starts, who serves has all tables and the current version.
ServesOnlyCurrentSchema ==
  \A p \in Processes : phase[p] \in {"serving", "draining"} =>
    File(p).tables = 1..Statements /\ File(p).version = SchemaVersion

\* What a file is refused for: another process had it open, its version is
\* foreign, or a case in it is not intact.  Crashes alone never lock a store,
\* however many there are and wherever in an opening or a commit they fall.
RefusedOnlyForCause ==
  \A p \in Processes : exit[p] = "refused" =>
    beside[p] \/ File(p).version \notin {Nil, 1, SchemaVersion} \/ ~File(p).intact

\* A process that ends without an error has cut nobody off: a client whose
\* request it had taken up has its answer.
CleanExitLosesNothing ==
  \A p \in Processes : exit[p] = "clean" =>
    \A h \in Handlers : handlers[p][h] # "cut"

InService(p) == phase[p] = "serving" /\ ~cfg[p].selfcheck

\* Handlers may hang: a start still ends in service or at an error, a stop
\* ends in an exit, and the self-check ends however far it came.
Settles ==
  \A p \in Processes :
    phase[p] \in Up /\ ~InService(p) ~> phase[p] = "down" \/ InService(p)
=============================================================================
