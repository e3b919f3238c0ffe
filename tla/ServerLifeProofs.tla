---------------------------- MODULE ServerLifeProofs ----------------------------
(***************************************************************************)
(* Theorems about ServerLife, for any number of processes, of handlers and *)
(* of tables, and for any number of starts, commits and crashes.           *)
(***************************************************************************)
EXTENDS ServerLife, TLAPS

-----------------------------------------------------------------------------
(* The inductive invariant *)

Phases == Up \union {"down"}
HandlerStages == {"none", "running", "committed", "answered", "cut"}
Databases == {Disk} \union Processes

TypeOK ==
  /\ files \in [Databases -> Files]
  /\ phase \in [Processes -> Phases]
  /\ cfg \in [Processes -> Configs]
  /\ statement \in [Processes -> Nat \ {0}]
  /\ seen \in [Processes -> Snapshots \union {Nil}]
  /\ failed \in [Processes -> BOOLEAN]
  /\ posted \in [Processes -> {Nil, "error", "nil"}]
  /\ handlers \in [Processes -> [Handlers -> HandlerStages]]
  /\ exit \in [Processes -> Exits \union {Nil}]
  /\ beside \in [Processes -> BOOLEAN]
  /\ starts \in Nat /\ crashes \in Nat

Serving == {"serving", "draining", "awaiting", "closing"}
Validating == {"snapshots", "details", "listen"}
Upgradable == {1, SchemaVersion}

\* A process that is past a statement of the opening finds its effect in the file.
SchemaSound(p) ==
  /\ phase[p] = "down" => statement[p] = 1
  /\ phase[p] = "schema" => 1..(statement[p] - 1) \subseteq File(p).tables
  /\ phase[p] \in Up \ {"schema"} => File(p).tables = 1..Statements
  /\ phase[p] = "upgrade" => File(p).version \in Upgradable
  /\ phase[p] \in Validating \union Serving => File(p).version = SchemaVersion

\* Validate, or ReadVersion before it, refuses such a file and will ever do so.
Damaged(f) == f.version \notin {Nil} \union Upgradable \/ ~f.intact

\* Who opens a file alone finds it as it left it at the statement before; and
\* who was refused it alone was refused for its version or for a case that is
\* not intact, which nobody mends.
OpeningSound(p) ==
  /\ phase[p] \in Up => exit[p] = Nil
  /\ phase[p] \in Opening /\ ~beside[p] =>
       /\ Others(p) = {}
       /\ phase[p] = "insert" => File(p).version = Nil
       /\ phase[p] = "details" => seen[p].commits = File(p).commits
  /\ phase[p] = "details" => seen[p] \in Snapshots /\ (File(p).intact => seen[p].intact)
  /\ exit[p] = "refused" /\ ~beside[p] => Damaged(File(p))

\* Handlers run only in service; who goes down without an error has none left.
ServiceSound(p) ==
  /\ phase[p] \notin Serving => Drained(p)
  /\ phase[p] \in {"awaiting", "closing"} /\ ~failed[p] => Drained(p)
  /\ phase[p] \in Up \/ exit[p] = "clean" => \A h \in Handlers : handlers[p][h] # "cut"

LifeSound ==
  \A p \in Processes : SchemaSound(p) /\ OpeningSound(p) /\ ServiceSound(p)

-----------------------------------------------------------------------------
(* What a step of one process may do to what the others rely on *)

\* Tables are never dropped, a version only ever becomes the current one, and
\* what is not intact remains so.
Grows(f, g) ==
  /\ f.tables \subseteq g.tables /\ (g.intact => f.intact)
  /\ \/ g.version = f.version
     \/ f.version \in {Nil} \union Upgradable /\ g.version = SchemaVersion

OthersStay(p) ==
  \A q \in Processes \ {p} :
    /\ phase'[q] = phase[q] /\ cfg'[q] = cfg[q] /\ statement'[q] = statement[q]
    /\ seen'[q] = seen[q] /\ failed'[q] = failed[q] /\ handlers'[q] = handlers[q]
    /\ exit'[q] = exit[q]

FileStep(p) ==
  \/ files' = files
  \/ \E g \in Files : Grows(File(p), g) /\ files' = [files EXCEPT ![Database(p)] = g]

\* A step of a process that is up: not its start.
Moves(p) ==
  /\ phase[p] \in Up /\ cfg' = cfg
  /\ OthersStay(p) /\ FileStep(p)
  /\ \A q \in Processes \ {p} : beside'[q] = beside[q]

Sound(p) == SchemaSound(p) /\ OpeningSound(p) /\ ServiceSound(p)

\* Whatever a process that is up does, what the others rely on remains: who opens
\* a file alone shares it with nobody who could write to it.
LEMMA OthersSound ==
  ASSUME TypeOK, LifeSound, NEW p \in Processes, Moves(p), NEW q \in Processes, q # p
  PROVE  Sound(q)'
<1>1. /\ phase'[q] = phase[q] /\ cfg'[q] = cfg[q] /\ statement'[q] = statement[q]
      /\ seen'[q] = seen[q] /\ failed'[q] = failed[q] /\ handlers'[q] = handlers[q]
      /\ exit'[q] = exit[q] /\ beside'[q] = beside[q]
      /\ \A r \in Processes : cfg'[r] = cfg[r]
  BY DEF Moves, OthersStay
<1>2. Sound(q) /\ Database(q) \in Databases /\ Database(p) \in Databases
  BY DEF LifeSound, Sound, Database, Databases
<1>3. Database(q)' = Database(q)
  BY <1>1 DEF Database
<1>4. PICK f \in Files : f = File(q)
  BY <1>2 DEF TypeOK, File
<1>5. PICK g \in Files : g = File(q)' /\ Grows(f, g) /\ (Database(p) # Database(q) => g = f)
  <2>1. CASE files' = files
    BY <1>3, <1>4, <2>1 DEF File, Grows
  <2>2. ASSUME NEW x \in Files, Grows(File(p), x), files' = [files EXCEPT ![Database(p)] = x]
        PROVE  \E g \in Files : g = File(q)' /\ Grows(f, g) /\ (Database(p) # Database(q) => g = f)
    <3>1. CASE Database(p) = Database(q)
      BY <1>2, <1>3, <1>4, <2>2, <3>1 DEF File, TypeOK
    <3>2. CASE Database(p) # Database(q)
      <4>1. File(q)' = f
        BY <1>2, <1>3, <1>4, <2>2, <3>2 DEF File, TypeOK
      <4> QED BY <4>1 DEF Grows
    <3> QED BY <3>1, <3>2
  <2> QED BY <2>1, <2>2 DEF Moves, FileStep
<1>6. SchemaSound(q)'
  <2>1. f.tables = 1..Statements => g.tables = 1..Statements
    BY <1>5 DEF Grows, Files
  <2>2. f.version = SchemaVersion => g.version = SchemaVersion
    BY <1>5 DEF Grows
  <2>3. f.version \in Upgradable => g.version \in Upgradable
    BY <1>5 DEF Grows, Upgradable
  <2>4. f.tables \subseteq g.tables
    BY <1>5 DEF Grows
  <2> QED BY <1>1, <1>2, <1>4, <1>5, <2>1, <2>2, <2>3, <2>4 DEF Sound, SchemaSound
<1>7. OpeningSound(q)'
  <2>1. ASSUME phase[q] \in Opening, ~beside[q]
        PROVE  Others(q)' = {} /\ g = f
    <3>1. Others(q) = {}
      BY <1>2, <2>1 DEF Sound, OpeningSound
    <3>2. \A r \in Processes : Database(r)' = Database(r)
      BY <1>1 DEF Database
    <3>3. \A r \in Processes : phase'[r] \in Up => phase[r] \in Up
      BY DEF Moves, OthersStay
    <3>4. Others(q)' = {}
      BY <1>1, <3>1, <3>2, <3>3 DEF Others
    <3>5. Database(p) # Database(q)
      BY <3>1 DEF Others, Moves
    <3> QED BY <1>5, <3>4, <3>5
  <2>2. (Damaged(f) => Damaged(g)) /\ (g.intact => f.intact)
    BY <1>5 DEF Grows, Damaged
  <2> QED BY <1>1, <1>2, <1>4, <1>5, <2>1, <2>2 DEF Sound, OpeningSound
<1>8. ServiceSound(q)'
  BY <1>1, <1>2 DEF Sound, ServiceSound, Drained
<1> QED BY <1>6, <1>7, <1>8 DEF Sound

\* What a process shares its file with changes by its own steps not at all.
LEMMA SameOthers ==
  ASSUME NEW p \in Processes, Moves(p)
  PROVE  Others(p)' = Others(p) /\ Database(p)' = Database(p)
  BY DEF Moves, OthersStay, Others, Database

\* A process that has ended remembers nothing, and its file stays.
LEMMA EndTyped ==
  ASSUME TypeOK, NEW p \in Processes, NEW how \in Exits, End(p, how),
         UNCHANGED <<files, cfg, beside, starts>>,
         crashes' \in Nat, UNCHANGED handlers \/ handlers' = CutOff(p), phase[p] \in Up
  PROVE  /\ TypeOK' /\ Moves(p)
         /\ phase'[p] = "down" /\ statement'[p] = 1 /\ exit'[p] = how
<1>1. /\ phase' = [phase EXCEPT ![p] = "down"] /\ exit' = [exit EXCEPT ![p] = how]
      /\ statement' = [statement EXCEPT ![p] = 1] /\ seen' = [seen EXCEPT ![p] = Nil]
      /\ failed' = [failed EXCEPT ![p] = FALSE] /\ posted' = [posted EXCEPT ![p] = Nil]
  BY DEF End
<1>2. /\ handlers' \in [Processes -> [Handlers -> HandlerStages]]
      /\ \A q \in Processes \ {p} : handlers'[q] = handlers[q]
  <2>1. CASE UNCHANGED handlers
    BY <2>1 DEF TypeOK
  <2>2. CASE handlers' = CutOff(p)
    <3> DEFINE cut == [h \in Handlers |->
                 IF handlers[p][h] \in {"running", "committed"} THEN "cut" ELSE handlers[p][h]]
    <3>1. cut \in [Handlers -> HandlerStages]
      BY DEF TypeOK, HandlerStages
    <3>2. handlers' = [handlers EXCEPT ![p] = cut]
      BY <2>2 DEF CutOff
    <3> HIDE DEF cut
    <3> QED BY <3>1, <3>2 DEF TypeOK
  <2> QED BY <2>1, <2>2
<1>3. TypeOK'
  <2>1. /\ phase' \in [Processes -> Phases] /\ statement' \in [Processes -> Nat \ {0}]
        /\ exit' \in [Processes -> Exits \union {Nil}]
    BY <1>1 DEF TypeOK, Phases
  <2>2. /\ seen' \in [Processes -> Snapshots \union {Nil}] /\ failed' \in [Processes -> BOOLEAN]
        /\ posted' \in [Processes -> {Nil, "error", "nil"}]
    BY <1>1 DEF TypeOK
  <2> QED BY <1>2, <2>1, <2>2 DEF TypeOK
<1>4. Moves(p)
  BY <1>1, <1>2 DEF Moves, OthersStay, FileStep, TypeOK
<1> QED BY <1>1, <1>3, <1>4 DEF TypeOK

\* A process refused while opening: either it was not alone, or for the file.
LEMMA RefusedSound ==
  ASSUME TypeOK, LifeSound, NEW p \in Processes, phase[p] \in Opening,
         End(p, "refused"), UNCHANGED <<files, kept>>,
         beside[p] \/ Damaged(File(p))
  PROVE  TypeOK' /\ Moves(p) /\ Sound(p)'
<1>1. /\ TypeOK' /\ Moves(p) /\ phase'[p] = "down" /\ statement'[p] = 1
      /\ exit'[p] = "refused"
  <2>1. "refused" \in Exits /\ phase[p] \in Up
    BY DEF Exits, Up
  <2> QED BY <2>1, EndTyped DEF kept, TypeOK
<1>2. SchemaSound(p)'
  BY <1>1 DEF SchemaSound, Up, Opening, Validating, Serving
<1>3. OpeningSound(p)'
  <2>1. File(p)' = File(p) /\ beside'[p] = beside[p]
    BY DEF kept, File, Database
  <2> QED BY <1>1, <2>1 DEF OpeningSound, Up, Opening
<1>4. ServiceSound(p)'
  <2>1. Drained(p)
    BY DEF LifeSound, ServiceSound, Opening, Serving
  <2> QED BY <1>1, <2>1 DEF ServiceSound, Drained, Up, Opening, Serving, kept
<1> QED BY <1>1, <1>2, <1>3, <1>4 DEF Sound

\* CREATE TABLE IF NOT EXISTS, one statement after the other.
LEMMA CreateTableSound ==
  ASSUME TypeOK, LifeSound, NEW p \in Processes, CreateTable(p)
  PROVE  TypeOK' /\ Moves(p) /\ Sound(p)'
<1>1. /\ phase[p] = "schema" /\ Sound(p) /\ Database(p) \in Databases /\ File(p) \in Files
      /\ UNCHANGED <<seen, failed, posted, exit, kept>>
  BY DEF CreateTable, LifeSound, Sound, Database, Databases, TypeOK, File
<1>2. PICK s \in Nat \ {0} : s = statement[p]
  BY DEF TypeOK
<1>3. 1..(s - 1) \subseteq File(p).tables /\ File(p).tables \subseteq 1..Statements
  BY <1>1, <1>2 DEF Sound, SchemaSound, Files
<1>4. CASE s <= Statements
  <2> DEFINE g == [File(p) EXCEPT !.tables = @ \union {s}]
  <2>1. /\ files' = [files EXCEPT ![Database(p)] = g]
        /\ statement' = [statement EXCEPT ![p] = s + 1] /\ UNCHANGED phase
    BY <1>2, <1>4 DEF CreateTable, StatementsToRun, Changed
  <2>2. g \in Files /\ Grows(File(p), g) /\ g.tables = File(p).tables \union {s}
        /\ g.commits = File(p).commits /\ g.version = File(p).version
    <3>1. s \in 1..Statements
      BY <1>2, <1>4, ServerAssumption
    <3> QED BY <1>1, <3>1 DEF Files, Grows
  <2> HIDE DEF g
  <2>3. File(p)' = g
    BY <1>1, <2>1 DEF File, Database, TypeOK, kept
  <2>4. TypeOK' /\ Moves(p)
    <3>1. TypeOK'
      BY <1>1, <1>2, <2>1, <2>2 DEF TypeOK, kept
    <3> QED BY <1>1, <2>1, <2>2, <3>1 DEF Moves, OthersStay, FileStep, Up, Opening, TypeOK, kept
  <2>5. statement'[p] = s + 1 /\ phase'[p] = "schema" /\ 1..s \subseteq g.tables
    <3>1. 1..s \subseteq 1..(s - 1) \union {s}
      BY <1>2
    <3> QED BY <1>1, <1>3, <2>1, <2>2, <3>1 DEF TypeOK
  <2>6. SchemaSound(p)'
    <3>1. statement'[p] - 1 = s
      BY <1>2, <2>5
    <3> QED BY <2>3, <2>5, <3>1 DEF SchemaSound, Validating, Serving
  <2>7. OpeningSound(p)'
    BY <1>1, <2>2, <2>3, <2>4, <2>5, SameOthers, ServerAssumption
    DEF OpeningSound, Sound, Opening, Up, Exits, kept
  <2>8. ServiceSound(p)'
    BY <1>1, <2>5 DEF ServiceSound, Sound, Drained, Serving, Up, Opening, kept
  <2> QED BY <2>4, <2>6, <2>7, <2>8 DEF Sound
<1>5. CASE ~(s <= Statements)
  <2>1. /\ UNCHANGED <<files, statement>> /\ phase' = [phase EXCEPT ![p] = "version"]
    BY <1>2, <1>5 DEF CreateTable, StatementsToRun, Goto
  <2>2. TypeOK' /\ Moves(p) /\ phase'[p] = "version"
    <3>1. TypeOK' /\ phase'[p] = "version"
      BY <1>1, <2>1 DEF TypeOK, Phases, Up, Opening, kept
    <3> QED BY <1>1, <2>1, <3>1 DEF Moves, OthersStay, FileStep, Up, Opening, TypeOK, kept
  <2>3. File(p)' = File(p) /\ File(p).tables = 1..Statements
    <3>1. 1..Statements \subseteq 1..(s - 1)
      BY <1>2, <1>5, ServerAssumption
    <3> QED BY <1>1, <1>3, <2>1, <3>1 DEF File, Database, kept
  <2>4. SchemaSound(p)'
    BY <2>2, <2>3 DEF SchemaSound, Validating, Serving
  <2>5. OpeningSound(p)'
    BY <1>1, <2>2, <2>3, SameOthers DEF OpeningSound, Sound, Opening, Up, kept
  <2>6. ServiceSound(p)'
    BY <1>1, <2>2 DEF ServiceSound, Sound, Drained, Serving, Up, Opening, kept
  <2> QED BY <2>2, <2>4, <2>5, <2>6 DEF Sound
<1> QED BY <1>4, <1>5

\* A statement that goes on to the next one and leaves the file as it is, or
\* gives it the current version.
LEMMA OnwardSound ==
  ASSUME TypeOK, LifeSound, NEW p \in Processes,
         NEW next \in {"insert", "upgrade", "snapshots"},
         phase[p] \in {"version", "insert", "upgrade"}, Goto(p, next),
         UNCHANGED <<exit, locals, kept>>,
         \/ /\ files' = files
            /\ next = "snapshots" => File(p).version = SchemaVersion
            /\ next = "insert" => File(p).version = Nil
            /\ next = "upgrade" => File(p).version = 1
         \/ /\ Changed(p, [File(p) EXCEPT !.version = SchemaVersion])
            /\ next = "snapshots" /\ File(p).version \in {Nil} \union Upgradable
  PROVE  TypeOK' /\ Moves(p) /\ Sound(p)'
<1>1. /\ phase[p] \in Opening /\ Sound(p) /\ Database(p) \in Databases /\ File(p) \in Files
      /\ File(p).tables = 1..Statements
  BY DEF LifeSound, Sound, SchemaSound, Database, Databases, TypeOK, File, Opening, Up
<1>2. phase' = [phase EXCEPT ![p] = next] /\ phase'[p] = next
  BY DEF Goto, TypeOK
<1>3. PICK g \in Files :
         /\ g = File(p)' /\ Grows(File(p), g) /\ g.tables = 1..Statements
         /\ files' = files \/ files' = [files EXCEPT ![Database(p)] = g]
         /\ next = "snapshots" => g.version = SchemaVersion
         /\ next = "insert" => g.version = Nil
         /\ next = "upgrade" => g.version = 1
  <2>1. CASE files' = files
    <3>1. File(p)' = File(p) /\ Grows(File(p), File(p))
      BY <2>1 DEF File, Database, Grows, kept
    <3>2. \/ /\ next = "snapshots" => File(p).version = SchemaVersion
             /\ next = "insert" => File(p).version = Nil
             /\ next = "upgrade" => File(p).version = 1
          \/ /\ File(p) = [File(p) EXCEPT !.version = SchemaVersion]
             /\ next = "snapshots"
      BY <1>1, <2>1 DEF Changed, File, TypeOK
    <3>3. next = "snapshots" => File(p).version = SchemaVersion
      BY <1>1, <3>2 DEF Files
    <3> QED BY <1>1, <2>1, <3>1, <3>2, <3>3
  <2>2. CASE /\ Changed(p, [File(p) EXCEPT !.version = SchemaVersion])
             /\ next = "snapshots" /\ File(p).version \in {Nil} \union Upgradable
    <3> DEFINE g == [File(p) EXCEPT !.version = SchemaVersion]
    <3>1. g \in Files /\ Grows(File(p), g) /\ g.version = SchemaVersion /\ g.tables = File(p).tables
      BY <1>1, <2>2, ServerAssumption DEF Files, Grows
    <3>2. files' = [files EXCEPT ![Database(p)] = g]
      BY <2>2 DEF Changed
    <3> HIDE DEF g
    <3>3. File(p)' = g
      BY <1>1, <3>2 DEF File, Database, TypeOK, kept
    <3> QED BY <1>1, <2>2, <3>1, <3>2, <3>3
  <2> QED BY <2>1, <2>2
<1>4. TypeOK' /\ Moves(p)
  <2>1. files' \in [Databases -> Files]
    BY <1>3 DEF TypeOK
  <2>2. TypeOK'
    BY <1>2, <2>1 DEF TypeOK, Phases, Up, Opening, kept, locals
  <2> QED BY <1>1, <1>2, <1>3, <2>2 DEF Moves, OthersStay, FileStep, Up, TypeOK, kept, locals
<1>5. SchemaSound(p)'
  BY <1>2, <1>3 DEF SchemaSound, Validating, Serving, Upgradable
<1>6. OpeningSound(p)'
  BY <1>1, <1>2, <1>3, <1>4, SameOthers, ServerAssumption
  DEF OpeningSound, Sound, Opening, Up, Exits, kept
<1>7. ServiceSound(p)'
  BY <1>1, <1>2 DEF ServiceSound, Sound, Drained, Serving, Up, Opening, kept
<1> QED BY <1>4, <1>5, <1>6, <1>7 DEF Sound

\* The row of schema_meta is read, and then written where that is needed.
LEMMA VersionSound ==
  ASSUME TypeOK, LifeSound, NEW p \in Processes,
         ReadVersion(p) \/ InsertVersion(p) \/ UpgradeVersion(p)
  PROVE  TypeOK' /\ Moves(p) /\ Sound(p)'
<1>1. Sound(p)
  BY DEF LifeSound, Sound
<1>2. CASE ReadVersion(p)
  <2>1. phase[p] = "version" /\ phase[p] \in Opening /\ UNCHANGED <<files, kept>>
    BY <1>2 DEF ReadVersion, Opening
  <2>2. CASE File(p).version = Nil /\ Goto(p, "insert") /\ UNCHANGED <<exit, locals>>
    BY <2>1, <2>2, OnwardSound, ServerAssumption
  <2>3. CASE File(p).version = 1 /\ Goto(p, "upgrade") /\ UNCHANGED <<exit, locals>>
    BY <2>1, <2>3, OnwardSound, ServerAssumption
  <2>4. CASE File(p).version = SchemaVersion /\ Goto(p, "snapshots") /\ UNCHANGED <<exit, locals>>
    BY <2>1, <2>4, OnwardSound, ServerAssumption
  <2>5. CASE File(p).version \notin {Nil} \union Upgradable /\ End(p, "refused")
    BY <2>1, <2>5, RefusedSound DEF Damaged
  <2> QED BY <1>2, <2>2, <2>3, <2>4, <2>5 DEF ReadVersion, NeedsUpgrade, Upgradable
<1>3. CASE InsertVersion(p)
  <2>1. phase[p] = "insert" /\ phase[p] \in Opening /\ UNCHANGED kept
    BY <1>3 DEF InsertVersion, Opening
  <2>2. CASE File(p).version = Nil
    <3>1. /\ Changed(p, [File(p) EXCEPT !.version = SchemaVersion])
          /\ Goto(p, "snapshots") /\ UNCHANGED <<exit, locals>>
      BY <1>3, <2>2 DEF InsertVersion
    <3> QED BY <2>1, <2>2, <3>1, OnwardSound
  <2>3. CASE File(p).version # Nil
    <3>1. End(p, "refused") /\ UNCHANGED files
      BY <1>3, <2>3 DEF InsertVersion
    <3>2. beside[p]
      BY <1>1, <2>1, <2>3 DEF Sound, OpeningSound, TypeOK
    <3> QED BY <2>1, <3>1, <3>2, RefusedSound
  <2> QED BY <2>2, <2>3
<1>4. CASE UpgradeVersion(p)
  <2>1. /\ phase[p] = "upgrade" /\ UNCHANGED <<exit, locals, kept>> /\ Goto(p, "snapshots")
        /\ Changed(p, [File(p) EXCEPT !.version = SchemaVersion])
    BY <1>4 DEF UpgradeVersion
  <2>2. File(p).version \in Upgradable
    BY <1>1, <2>1 DEF Sound, SchemaSound
  <2> QED BY <2>1, <2>2, OnwardSound
<1> QED BY <1>2, <1>3, <1>4

\* Validate, the five seconds that a statement waits, and net.Listen.
LEMMA ValidationSound ==
  ASSUME TypeOK, LifeSound, NEW p \in Processes,
         ReadSnapshots(p) \/ CompareDetails(p) \/ Busy(p) \/ Listen(p)
  PROVE  TypeOK' /\ Moves(p) /\ Sound(p)'
<1>1. /\ Sound(p) /\ Database(p) \in Databases /\ File(p) \in Files
      /\ Nil \notin Nat /\ Nil # "refused"
  BY ServerAssumption DEF LifeSound, Sound, Database, Databases, TypeOK, File, Exits
<1>2. CASE ReadSnapshots(p)
  <2>1. /\ phase[p] = "snapshots" /\ phase' = [phase EXCEPT ![p] = "details"]
        /\ seen' = [seen EXCEPT ![p] = [commits |-> File(p).commits, intact |-> File(p).intact]]
        /\ UNCHANGED <<files, statement, failed, posted, exit, kept>>
    BY <1>2 DEF ReadSnapshots, Goto
  <2>2. [commits |-> File(p).commits, intact |-> File(p).intact] \in Snapshots
    BY <1>1 DEF Files, Snapshots
  <2>3. /\ TypeOK' /\ phase'[p] = "details" /\ seen'[p] \in Snapshots
        /\ seen'[p].commits = File(p).commits /\ seen'[p].intact = File(p).intact
    BY <2>1, <2>2 DEF TypeOK, Phases, Up, Opening, kept
  <2>4. Moves(p) /\ File(p)' = File(p)
    BY <2>1 DEF Moves, OthersStay, FileStep, Up, Opening, TypeOK, File, Database, kept
  <2>5. SchemaSound(p)'
    BY <1>1, <2>1, <2>3, <2>4 DEF Sound, SchemaSound, Validating, Serving, Up, Opening
  <2>6. OpeningSound(p)'
    BY <1>1, <2>1, <2>3, <2>4, SameOthers DEF OpeningSound, Sound, Opening, Up, kept
  <2>7. ServiceSound(p)'
    BY <1>1, <2>1, <2>3 DEF ServiceSound, Sound, Drained, Serving, Up, Opening, kept
  <2> QED BY <2>3, <2>4, <2>5, <2>6, <2>7 DEF Sound
<1>3. CASE CompareDetails(p)
  <2>1. phase[p] = "details" /\ phase[p] \in Opening /\ UNCHANGED <<files, kept>>
    BY <1>3 DEF CompareDetails, Opening
  <2>2. CASE (~seen[p].intact \/ File(p).commits # seen[p].commits) /\ End(p, "refused")
    <3>1. beside[p] \/ Damaged(File(p))
      BY <1>1, <2>1, <2>2 DEF Sound, OpeningSound, TypeOK, Damaged
    <3> QED BY <2>1, <2>2, <3>1, RefusedSound
  <2>3. CASE Goto(p, "listen") /\ UNCHANGED <<exit, locals>>
    <3>1. TypeOK' /\ phase'[p] = "listen"
      BY <2>1, <2>3 DEF Goto, TypeOK, Phases, Up, Opening, kept, locals
    <3>2. Moves(p) /\ File(p)' = File(p)
      BY <2>1, <2>3 DEF Goto, Moves, OthersStay, FileStep, Up, Opening, TypeOK, File, Database, kept, locals
    <3>3. SchemaSound(p)'
      BY <1>1, <2>1, <3>1, <3>2 DEF Sound, SchemaSound, Validating, Serving, Up, Opening
    <3>4. OpeningSound(p)'
      BY <1>1, <2>1, <2>3, <3>1, <3>2 DEF OpeningSound, Sound, Opening, Up, kept
    <3>5. ServiceSound(p)'
      BY <1>1, <2>1, <3>1 DEF ServiceSound, Sound, Drained, Serving, Up, Opening, kept
    <3> QED BY <3>1, <3>2, <3>3, <3>4, <3>5 DEF Sound
  <2> QED BY <1>3, <2>2, <2>3 DEF CompareDetails
<1>4. CASE Busy(p)
  <2>1. phase[p] \in Opening /\ End(p, "refused") /\ UNCHANGED <<files, kept>> /\ Others(p) # {}
    BY <1>4 DEF Busy
  <2>2. beside[p]
    BY <1>1, <2>1 DEF Sound, OpeningSound, TypeOK
  <2> QED BY <2>1, <2>2, RefusedSound
<1>5. CASE Listen(p)
  <2>1. /\ phase[p] = "listen" /\ beside' = [beside EXCEPT ![p] = FALSE]
        /\ seen' = [seen EXCEPT ![p] = Nil] /\ statement' = [statement EXCEPT ![p] = 1]
        /\ UNCHANGED <<files, cfg, posted, handlers, exit, starts, crashes>>
        /\ \/ phase' = [phase EXCEPT ![p] = "serving"] /\ UNCHANGED failed
           \/ phase' = [phase EXCEPT ![p] = "closing"] /\ failed' = [failed EXCEPT ![p] = TRUE]
    BY <1>5 DEF Listen, Goto
  <2>2. TypeOK' /\ phase'[p] \in {"serving", "closing"}
    <3>1. /\ phase' \in [Processes -> Phases] /\ failed' \in [Processes -> BOOLEAN]
          /\ phase'[p] \in {"serving", "closing"}
      BY <2>1 DEF TypeOK, Phases, Up
    <3>2. /\ seen' \in [Processes -> Snapshots \union {Nil}] /\ statement' \in [Processes -> Nat \ {0}]
          /\ beside' \in [Processes -> BOOLEAN]
      BY <2>1 DEF TypeOK
    <3> QED BY <2>1, <3>1, <3>2 DEF TypeOK
  <2>3. Moves(p) /\ File(p)' = File(p) /\ phase[p] \in Up \ Opening
    BY <2>1 DEF Moves, OthersStay, FileStep, Up, Opening, TypeOK, File, Database
  <2>4. SchemaSound(p)'
    BY <1>1, <2>1, <2>2, <2>3 DEF Sound, SchemaSound, Validating, Serving, Up, Opening
  <2>5. OpeningSound(p)'
    BY <1>1, <2>1, <2>2, <2>3 DEF OpeningSound, Sound, Opening, Up
  <2>6. ServiceSound(p)'
    BY <1>1, <2>1, <2>2 DEF ServiceSound, Sound, Drained, Serving, Up, Opening, TypeOK
  <2> QED BY <2>2, <2>3, <2>4, <2>5, <2>6 DEF Sound
<1> QED BY <1>2, <1>3, <1>4, <1>5

-----------------------------------------------------------------------------
(* Service, and the end of it *)

\* For any set of verdicts: a commit adds one to the count and gives a verdict.
LEMMA CommitTyped ==
  ASSUME NEW Verdicts, NEW verdict \in Verdicts,
         NEW f \in [tables : SUBSET (1..Statements), version : Nat \union {Nil},
                    commits : Nat, intact : Verdicts],
         NEW g, g = [f EXCEPT !.commits = @ + 1, !.intact = verdict]
  PROVE  /\ g \in [tables : SUBSET (1..Statements), version : Nat \union {Nil},
                    commits : Nat, intact : Verdicts]
         /\ g.tables = f.tables /\ g.version = f.version /\ g.intact = verdict
<1>1. f.commits + 1 \in Nat
  OBVIOUS
<1>2. g = [tables |-> f.tables, version |-> f.version, commits |-> f.commits + 1,
           intact |-> verdict]
  OBVIOUS
<1> QED BY <1>1, <1>2

\* What a commit makes of a file, whether or not it leaves its case intact.
LEMMA CommitGrows ==
  ASSUME NEW f \in Files, NEW whole \in BOOLEAN
  PROVE  /\ Committed(f, whole) \in Files /\ Grows(f, Committed(f, whole))
         /\ Committed(f, whole).tables = f.tables /\ Committed(f, whole).version = f.version
         /\ f.intact /\ whole => Committed(f, whole).intact
<1>1. PICK x : x \in BOOLEAN /\ x = (f.intact /\ whole)
  BY DEF Files
<1>2. Committed(f, whole) = [f EXCEPT !.commits = @ + 1, !.intact = x]
  BY <1>1 DEF Committed
<1> DEFINE V == BOOLEAN
           g == Committed(f, whole)
           Record == [tables : SUBSET (1..Statements), version : Nat \union {Nil},
                      commits : Nat, intact : V]
<1>3. x \in V /\ f \in Record /\ Record = Files
  BY <1>1 DEF Files
<1>4. g = [f EXCEPT !.commits = @ + 1, !.intact = x]
  BY <1>2
<1> HIDE DEF V, g
<1>5. g \in Record /\ g.tables = f.tables /\ g.version = f.version /\ g.intact = x
  BY <1>3, <1>4, CommitTyped
<1>6. g \in Files
  BY <1>3, <1>5
<1> QED BY <1>1, <1>5, <1>6 DEF g, Grows

\* A step in service keeps the file, or adds a commit to it.
LEMMA InServiceSound ==
  ASSUME TypeOK, LifeSound, NEW p \in Processes, phase[p] \in Serving,
         UNCHANGED <<cfg, exit, opened>>, NEW whole \in BOOLEAN,
         phase'[p] \in Serving, TypeOK',
         \A q \in Processes \ {p} :
           phase'[q] = phase[q] /\ failed'[q] = failed[q] /\ handlers'[q] = handlers[q],
         \/ files' = files
         \/ Changed(p, Committed(File(p), whole))
  PROVE  Moves(p) /\ SchemaSound(p)' /\ OpeningSound(p)'
<1>1. /\ Sound(p) /\ Database(p) \in Databases /\ File(p) \in Files
      /\ Nil \notin Nat /\ Nil # "refused" /\ exit[p] = Nil /\ phase[p] \in Up
  BY ServerAssumption
  DEF LifeSound, Sound, OpeningSound, Database, Databases, TypeOK, File, Exits, Up, Serving
<1>2. /\ FileStep(p)
      /\ File(p)'.tables = File(p).tables /\ File(p)'.version = File(p).version
  <2>1. CASE files' = files
    BY <2>1 DEF FileStep, File, Database
  <2>2. CASE Changed(p, Committed(File(p), whole))
    <3>1. PICK g \in Files : g = Committed(File(p), whole) /\ Grows(File(p), g)
                              /\ g.tables = File(p).tables /\ g.version = File(p).version
      BY <1>1, CommitGrows
    <3>2. files' = [files EXCEPT ![Database(p)] = g]
      BY <2>2, <3>1 DEF Changed
    <3>3. File(p)' = g
      BY <1>1, <3>2 DEF File, Database, TypeOK
    <3> QED BY <3>1, <3>2, <3>3 DEF FileStep
  <2> QED BY <2>1, <2>2
<1>3. Moves(p)
  BY <1>1, <1>2 DEF Moves, OthersStay, opened
<1>4. SchemaSound(p)'
  BY <1>1, <1>2 DEF Sound, SchemaSound, Validating, Serving, Up, Opening
<1>5. OpeningSound(p)'
  BY <1>1 DEF OpeningSound, Serving, Up, Opening
<1> QED BY <1>3, <1>4, <1>5

\* A request is taken up, commits, is answered: its phase is not the process's.
LEMMA HandlerSound ==
  ASSUME TypeOK, LifeSound, NEW p \in Processes, HandlerStep(p)
  PROVE  TypeOK' /\ Moves(p) /\ Sound(p)'
<1>1. PICK h \in Handlers : Request(p, h) \/ HandlerCommits(p, h) \/ HandlerAnswers(p, h)
  BY DEF HandlerStep
<1>2. PICK next \in {"running", "committed", "answered"} :
        /\ handlers' = [handlers EXCEPT ![p][h] = next]
        /\ next = "running" => phase[p] = "serving"
        /\ next # "running" => handlers[p][h] \in {"running", "committed"}
  BY <1>1 DEF Request, HandlerCommits, HandlerAnswers, Handle
<1>3. UNCHANGED <<phase, cfg, failed, posted, exit, crashes, opened>>
  BY <1>1 DEF Request, HandlerCommits, HandlerAnswers
<1>4. Sound(p)
  BY DEF LifeSound, Sound
<1>5. phase[p] \in Serving
  <2>1. CASE next = "running"
    BY <1>2, <2>1 DEF Serving
  <2>2. CASE next # "running"
    BY <1>2, <1>4, <2>2 DEF Sound, ServiceSound, Drained
  <2> QED BY <2>1, <2>2
<1>6. /\ handlers' \in [Processes -> [Handlers -> HandlerStages]]
      /\ \A q \in Processes \ {p} : handlers'[q] = handlers[q]
      /\ \A x \in Handlers \ {h} : handlers'[p][x] = handlers[p][x]
      /\ handlers'[p][h] = next
  BY <1>2 DEF TypeOK, HandlerStages
<1>7. PICK whole \in BOOLEAN : files' = files \/ Changed(p, Committed(File(p), whole))
  BY <1>1 DEF Request, HandlerCommits, HandlerAnswers, StoresWhole
<1>8. files' \in [Databases -> Files]
  <2>1. File(p) \in Files
    BY DEF TypeOK, File, Database, Databases
  <2>2. Committed(File(p), whole) \in Files
    BY <2>1, CommitGrows
  <2> QED BY <1>7, <2>2 DEF Changed, TypeOK
<1>9. TypeOK'
  BY <1>3, <1>6, <1>8 DEF TypeOK, opened
<1>10. Moves(p) /\ SchemaSound(p)' /\ OpeningSound(p)'
  BY <1>3, <1>5, <1>6, <1>7, <1>9, InServiceSound
<1>11. ServiceSound(p)'
  <2>1. phase[p] \in {"awaiting", "closing"} /\ ~failed[p] => Drained(p)'
    <3>1. CASE phase[p] \in {"awaiting", "closing"} /\ ~failed[p]
      <4>1. Drained(p)
        BY <1>4, <3>1 DEF Sound, ServiceSound
      <4>2. next = "running"
        BY <1>2, <4>1 DEF Drained
      <4> QED BY <1>2, <3>1, <4>2
    <3> QED BY <3>1
  <2>2. \A x \in Handlers : handlers'[p][x] # "cut"
    <3>1. \A x \in Handlers : handlers[p][x] # "cut"
      BY <1>4, <1>5 DEF Sound, ServiceSound, Up, Serving
    <3> QED BY <1>6, <3>1
  <2> QED BY <1>3, <1>5, <2>1, <2>2 DEF ServiceSound, Up, Serving
<1> QED BY <1>9, <1>10, <1>11 DEF Sound

\* The main goroutine in service: what it notices, waits for and gives up.
LEMMA StoppingSound ==
  ASSUME TypeOK, LifeSound, NEW p \in Processes,
         \/ Signal(p) \/ NoticeFailure(p) \/ SelfcheckReturns(p) \/ ShutdownReturns(p)
         \/ AwaitServe(p) \/ ServeReturns(p)
  PROVE  TypeOK' /\ Moves(p) /\ Sound(p)'
<1>1. /\ phase[p] \in Serving /\ Sound(p)
      /\ UNCHANGED <<files, cfg, handlers, exit, crashes, opened>>
  BY DEF Signal, NoticeFailure, SelfcheckReturns, ShutdownReturns, AwaitServe, ServeReturns,
         Serving, LifeSound, Sound
<1>2. PICK next \in Serving :
        /\ phase' = [phase EXCEPT ![p] = next]
        /\ next \in {"awaiting", "closing"} /\ phase[p] \notin {"awaiting", "closing"} =>
             Drained(p) \/ failed'[p]
        /\ phase[p] \in {"awaiting", "closing"} => next \in {"awaiting", "closing"}
  <2>1. CASE Signal(p) \/ SelfcheckReturns(p)
    <3>1. phase' = [phase EXCEPT ![p] = "draining"] /\ phase[p] = "serving"
      BY <2>1 DEF Signal, SelfcheckReturns, Goto
    <3> QED BY <3>1 DEF Serving
  <2>2. CASE NoticeFailure(p)
    <3>1. phase' = [phase EXCEPT ![p] = "closing"] /\ failed'[p]
      BY <2>2 DEF NoticeFailure, Goto, TypeOK
    <3>2. phase[p] = "serving"
      BY <2>2 DEF NoticeFailure
    <3> QED BY <3>1, <3>2 DEF Serving
  <2>3. CASE ShutdownReturns(p)
    <3>1. PICK next \in {"awaiting", "closing"} : phase' = [phase EXCEPT ![p] = next]
      BY <2>3 DEF ShutdownReturns, Goto
    <3>2. phase[p] = "draining" /\ (Drained(p) \/ failed'[p])
      BY <2>3 DEF ShutdownReturns, TypeOK
    <3> QED BY <3>1, <3>2 DEF Serving
  <2>4. CASE AwaitServe(p)
    <3>1. phase' = [phase EXCEPT ![p] = "closing"] /\ phase[p] = "awaiting"
      BY <2>4 DEF AwaitServe, Goto
    <3> QED BY <3>1 DEF Serving
  <2>5. CASE ServeReturns(p)
    <3>1. phase' = [phase EXCEPT ![p] = phase[p]]
      BY <2>5 DEF ServeReturns, TypeOK
    <3> QED BY <1>1, <3>1
  <2> QED BY <2>1, <2>2, <2>3, <2>4, <2>5
<1>3. /\ failed' \in [Processes -> BOOLEAN]
      /\ \A q \in Processes \ {p} : failed'[q] = failed[q]
      /\ failed[p] => failed'[p]
  BY DEF Signal, NoticeFailure, SelfcheckReturns, ShutdownReturns, AwaitServe, ServeReturns, TypeOK
<1>4. posted' \in [Processes -> {Nil, "error", "nil"}]
  BY DEF Signal, NoticeFailure, SelfcheckReturns, ShutdownReturns, AwaitServe, ServeReturns, TypeOK
<1>5. TypeOK' /\ phase'[p] = next /\ \A q \in Processes \ {p} : phase'[q] = phase[q]
  <2>1. phase' \in [Processes -> Phases]
    BY <1>2 DEF TypeOK, Phases, Up, Serving
  <2> QED BY <1>1, <1>2, <1>3, <1>4, <2>1 DEF TypeOK, opened
<1>6. Moves(p) /\ SchemaSound(p)' /\ OpeningSound(p)'
  BY <1>1, <1>2, <1>3, <1>5, InServiceSound
<1>7. ServiceSound(p)'
  <2>1. ASSUME next \in {"awaiting", "closing"}, ~failed'[p] PROVE Drained(p)
    BY <1>1, <1>2, <1>3, <2>1 DEF Sound, ServiceSound, TypeOK
  <2>2. \A h \in Handlers : handlers[p][h] # "cut"
    BY <1>1 DEF Sound, ServiceSound, Up, Serving
  <2> QED BY <1>1, <1>2, <1>5, <2>1, <2>2 DEF ServiceSound, Drained
<1> QED BY <1>5, <1>6, <1>7 DEF Sound

\* The end of a process, of its own accord or not.
LEMMA EndSound ==
  ASSUME TypeOK, LifeSound, NEW p \in Processes, Exit(p) \/ Crash(p)
  PROVE  TypeOK' /\ Moves(p) /\ Sound(p)'
<1>1. PICK how \in Exits \ {"refused"} :
        /\ End(p, how)
        /\ how = "clean" => phase[p] = "closing" /\ ~failed[p]
  BY DEF Exit, Crash, Exits
<1>2. /\ phase[p] \in Up /\ Sound(p) /\ handlers' = CutOff(p) /\ crashes' \in Nat
      /\ UNCHANGED <<files, cfg, beside, starts>>
  BY DEF Exit, Crash, Up, LifeSound, Sound, TypeOK
<1>3. /\ End(p, how) /\ TypeOK' /\ Moves(p)
      /\ phase'[p] = "down" /\ statement'[p] = 1 /\ exit'[p] = how
  <2>1. End(p, how)
    BY <1>1
  <2> QED BY <1>2, <2>1, EndTyped
<1>4. SchemaSound(p)'
  BY <1>3 DEF SchemaSound, Up, Opening, Validating, Serving
<1>5. OpeningSound(p)'
  BY <1>1, <1>3 DEF OpeningSound, Up, Opening
<1>6. \A h \in Handlers : handlers'[p][h] =
        IF handlers[p][h] \in {"running", "committed"} THEN "cut" ELSE handlers[p][h]
  BY <1>2 DEF CutOff, TypeOK
<1>7. Drained(p)'
  BY <1>6 DEF Drained
<1>8. how = "clean" => \A h \in Handlers : handlers'[p][h] # "cut"
  <2>1. \A h \in Handlers : handlers[p][h] # "cut"
    BY <1>2 DEF Sound, ServiceSound
  <2>2. how = "clean" => Drained(p)
    BY <1>1, <1>2 DEF Sound, ServiceSound
  <2> QED BY <1>6, <2>1, <2>2 DEF Drained
<1>9. ServiceSound(p)'
  BY <1>3, <1>7, <1>8 DEF ServiceSound, Up, Opening
<1> QED BY <1>3, <1>4, <1>5, <1>9 DEF Sound

\* A start is noticed by whoever is opening the same file.
LEMMA StartSound ==
  ASSUME TypeOK, LifeSound, NEW p \in Processes, Start(p)
  PROVE  TypeOK' /\ LifeSound'
<1>1. PICK c \in Configs : cfg' = [cfg EXCEPT ![p] = c]
  BY ServerAssumption DEF Start
<1>2. /\ phase[p] = "down" /\ phase' = [phase EXCEPT ![p] = "schema"]
      /\ files' = [files EXCEPT ![p] = EmptyFile]
      /\ handlers' = [handlers EXCEPT ![p] = [h \in Handlers |-> "none"]]
      /\ exit' = [exit EXCEPT ![p] = Nil]
      /\ UNCHANGED <<crashes, locals>>
  BY DEF Start, Goto
<1>3. beside' = [q \in Processes |->
        IF q = p THEN \E r \in Processes \ {p} : phase[r] \in Up /\ Database(r) = Database(p)'
        ELSE beside[q] \/ (phase[q] \in Opening /\ Database(q) = Database(p)')]
  BY DEF Start
<1>4. TypeOK'
  <2>1. EmptyFile \in Files /\ p \in Databases
    BY DEF EmptyFile, Files, Databases
  <2>2. files' \in [Databases -> Files]
    BY <1>2, <2>1 DEF TypeOK
  <2>3. phase' \in [Processes -> Phases] /\ cfg' \in [Processes -> Configs]
    BY <1>1, <1>2 DEF TypeOK, Phases, Up, Opening
  <2>4. handlers' \in [Processes -> [Handlers -> HandlerStages]]
    <3>1. [h \in Handlers |-> "none"] \in [Handlers -> HandlerStages]
      BY DEF HandlerStages
    <3> QED BY <1>2, <3>1 DEF TypeOK
  <2>5. exit' \in [Processes -> Exits \union {Nil}] /\ beside' \in [Processes -> BOOLEAN]
    BY <1>2, <1>3 DEF TypeOK
  <2>6. starts' \in Nat
    BY DEF Start, TypeOK
  <2> QED BY <1>2, <2>2, <2>3, <2>4, <2>5, <2>6 DEF TypeOK, locals
<1>5. ASSUME NEW q \in Processes, q # p PROVE Sound(q)'
  <2>1. /\ phase'[q] = phase[q] /\ cfg'[q] = cfg[q] /\ statement'[q] = statement[q]
        /\ seen'[q] = seen[q] /\ failed'[q] = failed[q] /\ handlers'[q] = handlers[q]
        /\ exit'[q] = exit[q]
    BY <1>1, <1>2, <1>5 DEF TypeOK, locals
  <2>2. Database(q)' = Database(q) /\ Database(q) \in Databases \ {p} /\ Sound(q)
    BY <1>5, <2>1, ServerAssumption DEF Database, Databases, LifeSound, Sound
  <2>3. File(q)' = File(q)
    BY <1>2, <2>2 DEF File, TypeOK
  <2>4. beside'[q] <=> beside[q] \/ (phase[q] \in Opening /\ Database(q) = Database(p)')
    BY <1>3, <1>5
  <2>5. ASSUME phase[q] \in Opening, ~beside'[q] PROVE Others(q)' = {}
    <3>1. Others(q) = {} /\ Database(p)' # Database(q)
      BY <2>2, <2>4, <2>5 DEF Sound, OpeningSound
    <3>2. Database(p)' # Database(q)'
      BY <2>2, <3>1
    <3>3. \A r \in Processes \ {p} : phase'[r] = phase[r] /\ Database(r)' = Database(r)
      BY <1>1, <1>2 DEF TypeOK, Database
    <3> QED BY <2>2, <3>1, <3>2, <3>3 DEF Others
  <2>6. OpeningSound(q)'
    BY <2>1, <2>2, <2>3, <2>4, <2>5 DEF Sound, OpeningSound
  <2>7. SchemaSound(q)'
    BY <2>1, <2>2, <2>3 DEF Sound, SchemaSound
  <2>8. ServiceSound(q)'
    BY <2>1, <2>2 DEF Sound, ServiceSound, Drained
  <2> QED BY <2>6, <2>7, <2>8 DEF Sound
<1>6. Sound(p)'
  <2>1. /\ phase'[p] = "schema" /\ statement'[p] = 1 /\ exit'[p] = Nil
        /\ \A h \in Handlers : handlers'[p][h] = "none"
    BY <1>2 DEF TypeOK, LifeSound, SchemaSound, locals
  <2>2. SchemaSound(p)'
    <3>1. 1..(statement'[p] - 1) = {}
      BY <2>1
    <3> QED BY <2>1, <3>1 DEF SchemaSound, Validating, Serving
  <2>3. ServiceSound(p)'
    BY <2>1 DEF ServiceSound, Drained, Serving
  <2>4. ~beside'[p] => Others(p)' = {}
    <3>1. ASSUME NEW r \in Others(p)' PROVE beside'[p]
      <4>1. r \in Processes \ {p} /\ phase'[r] \in Up /\ Database(r)' = Database(p)'
        BY <3>1 DEF Others
      <4>2. phase[r] \in Up /\ Database(r)' = Database(r)
        BY <1>1, <1>2, <4>1 DEF TypeOK, Database
      <4> QED BY <1>3, <4>1, <4>2
    <3> QED BY <3>1
  <2>5. OpeningSound(p)'
    BY <2>1, <2>4, ServerAssumption DEF OpeningSound, Exits
  <2> QED BY <2>2, <2>3, <2>5 DEF Sound
<1> QED BY <1>4, <1>5, <1>6 DEF LifeSound, Sound

-----------------------------------------------------------------------------
(* The theorems *)

LEMMA StepSound ==
  ASSUME TypeOK, LifeSound, Next
  PROVE  TypeOK' /\ LifeSound'
<1>1. PICK p \in Processes :
        \/ Start(p) \/ OpenStep(p) \/ Signal(p) \/ StopStep(p)
        \/ ServeFails(p) \/ ServeStops(p) \/ HandlerStep(p) \/ Crash(p)
  BY DEF Next
<1>2. CASE Start(p)
  BY <1>2, StartSound
<1>3. CASE ~Start(p)
  <2>1. TypeOK' /\ Moves(p) /\ Sound(p)'
    <3>1. CASE OpenStep(p)
      BY <3>1, CreateTableSound, VersionSound, ValidationSound DEF OpenStep
    <3>2. CASE StopStep(p) \/ Signal(p) \/ ServeFails(p) \/ ServeStops(p) \/ Crash(p)
      BY <3>2, StoppingSound, EndSound DEF StopStep, ServeFails, ServeStops
    <3>3. CASE HandlerStep(p)
      BY <3>3, HandlerSound
    <3> QED BY <1>1, <1>3, <3>1, <3>2, <3>3
  <2>2. \A q \in Processes : Sound(q)'
    BY <2>1, OthersSound
  <2> QED BY <2>1, <2>2 DEF LifeSound, Sound
<1> QED BY <1>2, <1>3

\* Between the statements of any number of openings, crashes and endings, every
\* process finds in its file what it has done there.
THEOREM LifeKept == Spec => [](TypeOK /\ LifeSound)
<1>1. Init => TypeOK /\ LifeSound
  <2> SUFFICES ASSUME Init PROVE TypeOK /\ LifeSound
    OBVIOUS
  <2>1. /\ InitialFiles \union {EmptyFile} \subseteq Files
        /\ [selfcheck |-> FALSE, memory |-> FALSE] \in Configs
    <3>1. EmptyFile \in Files
      BY DEF EmptyFile, Files
    <3>2. [selfcheck |-> FALSE, memory |-> FALSE] \in Configs
      BY DEF Configs
    <3> QED BY <3>1, <3>2, ServerAssumption
  <2>2. handlers \in [Processes -> [Handlers -> HandlerStages]]
    BY DEF Init, HandlerStages
  <2>3. TypeOK
    BY <2>1, <2>2 DEF Init, TypeOK, Phases, Databases
  <2>4. ASSUME NEW p \in Processes PROVE SchemaSound(p) /\ OpeningSound(p) /\ ServiceSound(p)
    <3>1. phase[p] = "down" /\ statement[p] = 1 /\ exit[p] = Nil
          /\ \A h \in Handlers : handlers[p][h] = "none"
      BY DEF Init
    <3>2. SchemaSound(p)
      BY <3>1 DEF SchemaSound, Up, Opening, Validating, Serving
    <3>3. OpeningSound(p)
      BY <3>1, ServerAssumption DEF OpeningSound, Up, Opening, Exits
    <3>4. ServiceSound(p)
      BY <3>1 DEF ServiceSound, Drained
    <3> QED BY <3>2, <3>3, <3>4
  <2> QED BY <2>3, <2>4 DEF LifeSound
<1>2. TypeOK /\ LifeSound /\ UNCHANGED vars => TypeOK' /\ LifeSound'
  BY DEF TypeOK, LifeSound, SchemaSound, OpeningSound, ServiceSound, Drained, Others, File,
         Database, vars
<1> QED BY <1>1, <1>2, StepSound, PTL DEF Spec

\* However many openings crashed half-way, and whoever opened the file beside,
\* a server that serves has every table and the current version.
THEOREM SchemaAlwaysCurrent == Spec => []ServesOnlyCurrentSchema
<1>1. LifeSound => ServesOnlyCurrentSchema
  BY DEF LifeSound, SchemaSound, Up, Opening, Serving, ServesOnlyCurrentSchema
<1> QED BY <1>1, LifeKept, PTL

\* Crashes never lock a store, wherever in how many openings and commits they
\* fall: only a process that shared the file while it was opening it, or met a
\* foreign version or a case that is not intact, is ever refused.
THEOREM AlwaysForCause == Spec => []RefusedOnlyForCause
<1>1. LifeSound => RefusedOnlyForCause
  BY DEF LifeSound, OpeningSound, Damaged, Upgradable, RefusedOnlyForCause
<1> QED BY <1>1, LifeKept, PTL

\* What is left of the causes when no clock has stepped back.
RefusedOnlyBeside ==
  \A p \in Processes : exit[p] = "refused" =>
    beside[p] \/ File(p).version \notin {Nil, 1, SchemaVersion}

\* No database holds a case that is not intact.
AllIntact == \A d \in Databases : files[d].intact

LEMMA IntactKept ==
  ASSUME TypeOK, AllIntact, Next, ~ClockMayStepBack
  PROVE  \/ files' = files
         \/ \E d \in Databases, f \in Files : f.intact /\ files' = [files EXCEPT ![d] = f]
<1>1. PICK p \in Processes :
        \/ Start(p) \/ OpenStep(p) \/ Signal(p) \/ StopStep(p)
        \/ ServeFails(p) \/ ServeStops(p) \/ HandlerStep(p) \/ Crash(p)
  BY DEF Next
<1>2. Database(p) \in Databases /\ File(p) \in Files /\ File(p).intact
  BY DEF Database, Databases, File, TypeOK, AllIntact
<1>3. CASE Start(p)
  <2>1. p \in Databases /\ EmptyFile \in Files /\ EmptyFile.intact
    BY DEF Databases, EmptyFile, Files
  <2>2. files' = [files EXCEPT ![p] = EmptyFile]
    BY <1>3 DEF Start
  <2> QED BY <2>1, <2>2
<1>4. CASE CreateTable(p)
  <2> DEFINE f == [File(p) EXCEPT !.tables = @ \union {statement[p]}]
  <2>1. files' = files
          \/ (files' = [files EXCEPT ![Database(p)] = f] /\ statement[p] \in 1..Statements)
    BY <1>4, ServerAssumption DEF CreateTable, StatementsToRun, Changed, TypeOK
  <2>2. statement[p] \in 1..Statements => f \in Files /\ f.intact
    BY <1>2 DEF Files
  <2> HIDE DEF f
  <2> QED BY <1>2, <2>1, <2>2
<1>5. CASE InsertVersion(p) \/ UpgradeVersion(p)
  <2> DEFINE f == [File(p) EXCEPT !.version = SchemaVersion]
  <2>1. files' = files \/ files' = [files EXCEPT ![Database(p)] = f]
    BY <1>5 DEF InsertVersion, UpgradeVersion, Changed
  <2>2. f \in Files /\ f.intact
    BY <1>2, ServerAssumption DEF Files
  <2> HIDE DEF f
  <2> QED BY <1>2, <2>1, <2>2
<1>6. CASE HandlerStep(p)
  <2> DEFINE f == Committed(File(p), TRUE)
  <2>1. files' = files \/ files' = [files EXCEPT ![Database(p)] = f]
    <3>1. CASE \E h \in Handlers : Request(p, h) \/ HandlerAnswers(p, h)
      BY <3>1 DEF Request, HandlerAnswers
    <3>2. ASSUME NEW h \in Handlers, HandlerCommits(p, h)
          PROVE  files' = [files EXCEPT ![Database(p)] = f]
      <4>1. PICK whole \in BOOLEAN :
              /\ whole
              /\ Changed(p, Committed(File(p), whole))
        BY <3>2 DEF HandlerCommits, StoresWhole
      <4>2. whole = TRUE
        BY <4>1
      <4> QED BY <4>1, <4>2 DEF Changed
    <3> QED BY <1>6, <3>1, <3>2 DEF HandlerStep
  <2>2. f \in Files /\ f.intact
    BY <1>2, CommitGrows
  <2> HIDE DEF f
  <2> QED BY <1>2, <2>1, <2>2
<1>7. CASE /\ ~Start(p) /\ ~CreateTable(p) /\ ~InsertVersion(p) /\ ~UpgradeVersion(p)
           /\ ~HandlerStep(p)
  BY <1>1, <1>7
  DEF OpenStep, ReadVersion, ReadSnapshots, CompareDetails, Busy, Listen, Signal, StopStep,
      NoticeFailure, SelfcheckReturns, ShutdownReturns, AwaitServe, Exit, ServeFails, ServeStops,
      ServeReturns, Crash
<1> QED BY <1>3, <1>4, <1>5, <1>6, <1>7

\* Under a clock that never steps back, a store that was intact at first is
\* refused only where another process had it open, or for its version; the run
\* clock_step_back shows the case that a stepped clock leaves behind.
THEOREM NeverRefusedAlone ==
  ASSUME ~ClockMayStepBack, \A f \in InitialFiles : f.intact
  PROVE  Spec => []RefusedOnlyBeside
<1>1. Init => AllIntact
  <2>1. \A f \in InitialFiles \union {EmptyFile} : f.intact
    BY DEF EmptyFile
  <2> QED BY <2>1 DEF Init, AllIntact, Databases
<1>2. TypeOK /\ AllIntact /\ [Next]_vars => AllIntact'
  <2> SUFFICES ASSUME TypeOK, AllIntact, [Next]_vars PROVE AllIntact'
    OBVIOUS
  <2>1. CASE UNCHANGED vars
    BY <2>1 DEF vars, AllIntact
  <2>2. CASE Next
    <3>1. \/ files' = files
          \/ \E d \in Databases, f \in Files : f.intact /\ files' = [files EXCEPT ![d] = f]
      BY <2>2, IntactKept
    <3> QED BY <3>1 DEF AllIntact, TypeOK
  <2> QED BY <2>1, <2>2
<1>3. LifeSound /\ AllIntact => RefusedOnlyBeside
  BY DEF LifeSound, OpeningSound, Damaged, Upgradable, AllIntact, File, Database, Databases,
         RefusedOnlyBeside
<1> QED BY <1>1, <1>2, <1>3, LifeKept, PTL DEF Spec

\* A server that ends without an error has answered all that it had taken up.
THEOREM CleanExitsAnswer == Spec => []CleanExitLosesNothing
<1>1. LifeSound => CleanExitLosesNothing
  BY DEF LifeSound, ServiceSound, CleanExitLosesNothing
<1> QED BY <1>1, LifeKept, PTL
=============================================================================
