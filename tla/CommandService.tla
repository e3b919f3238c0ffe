---------------------------- MODULE CommandService ----------------------------
(***************************************************************************)
(* How a writing command runs: internal/application (mutateResult and      *)
(* CreateCase) over the transactions of internal/repository.  Every call   *)
(* runs the steps between which other calls, processes or a crash may      *)
(* come: take the mutex of its case, look its key up, load the case, load  *)
(* the audit chain, commit, read the recorded answer back.                 *)
(*                                                                         *)
(* A case is the sequence of effects that made it.  Which commands the     *)
(* rules accept is the subject of InspectionCase; here a rule may refuse   *)
(* any of them.  A digest is the value it is the digest of.                *)
(***************************************************************************)
EXTENDS Integers, SequencesExt

CONSTANTS
  Calls,        \* the HTTP requests that clients send; a retry is another one
  Request,      \* of each: complete, key, command, body, target, caseNumber, expected
  Processes,    \* server processes on the same database file
  LockName,     \* strings.ToUpper(strings.TrimSpace(caseNumber))
  StoredName,   \* strings.ToUpper(NormalizeText(caseNumber))
  MaxCrashes,   \* bound
  Nil           \* no such row, no holder, no answer yet

Spellings == {Request[c].caseNumber : c \in Calls}
Keys == {Request[c].key : c \in Calls}
LockNames == {LockName[s] : s \in Spellings}
Numbers == {StoredName[s] : s \in Spellings} \union LockNames

ASSUME RequestAssumption ==
  /\ DOMAIN Request = Calls
  /\ \A c \in Calls : Request[c].expected \in Nat /\ Request[c].complete \in BOOLEAN
  /\ Spellings \subseteq DOMAIN LockName /\ Spellings \subseteq DOMAIN StoredName

ASSUME CrashAssumption == MaxCrashes \in Nat

VARIABLES
  cases, audit, idem,   \* the rows on disk: per number, per number, per key
  holder,               \* per process and name, who holds the mutex
  up, crashes,          \* which processes run, and how often one has died
  pc, at,               \* per call, its next step and its process
  draft, previous,      \* per call, the case as it will be and the last event
  reply                 \* per call, what its client was told

disk == <<cases, audit, idem>>
vars == <<disk, holder, up, crashes, pc, at, draft, previous, reply>>

Steps == {"idle", "lock", "replay", "load", "audit", "commit", "fetch", "done", "lost"}
Creates(r) == r.command = "create_case"

-----------------------------------------------------------------------------
(* The chain of audit events *)

\* Hash: it covers the hash of the event before, and so the whole chain.
Hash(event) ==
  Append(event.previous, [sequence |-> event.sequence, before |-> event.before,
                          after |-> event.after, result |-> event.result])

HashOf(prev) == IF prev = <<>> THEN <<>> ELSE Hash(Head(prev))

-----------------------------------------------------------------------------
(* Seeded faults.  No action uses these: each is a plausible mistake in the *)
(* definition that PROJECT.json pairs it with.                              *)

FingerprintOfCommand(r) == r.command

MutexIgnored(p, name) == TRUE

VersionIgnored(d) == d.before = 0 => cases[d.number] = Nil

EventFromZero(d, prev) ==
  [sequence |-> IF prev = <<>> THEN 0 ELSE Head(prev).sequence + 1,
   before |-> d.before, after |-> d.after, result |-> d.content, previous |-> HashOf(prev)]

AuditForgotten(d, event) == audit

KeyUnchecked(r) == TRUE

CurrentCase(r) ==
  LET number == IF Creates(r) THEN StoredName[r.caseNumber] ELSE LockName[r.caseNumber]
  IN cases[number].content

KeptOnRefusal(c) ==
  IF idem[Request[c].key] # Nil
    THEN [holder EXCEPT ![at[c]][LockName[Request[c].caseNumber]] = Nil]
    ELSE holder

-----------------------------------------------------------------------------
(* Pieces of the handlers *)

\* The case a command is about: NewInspectionCase normalises the number it is
\* given, every other command looks up the one in its path as it stands.
Target(r) == IF Creates(r) THEN StoredName[r.caseNumber] ELSE LockName[r.caseNumber]

\* What a command does to its case, marked with the key that asked for it.
Effect(r) == [key |-> r.key, number |-> Target(r),
              command |-> r.command, body |-> r.body, target |-> r.target]

\* fingerprint: a defect's identifier is in the path and tagged json:"-", so
\* the target is not part of it; nor is the spelling of the case number,
\* except in CreateCase, where the number is part of the body.
Fingerprint(r) ==
  IF Creates(r) THEN <<r.command, r.caseNumber, r.expected, r.body>>
  ELSE <<r.command, LockName[r.caseNumber], r.expected, r.body>>

MutexFree(p, name) == holder[p][name] = Nil

\* defer lock.Unlock(): on every way out of the handler.
Unlocked(c) == [holder EXCEPT ![at[c]][LockName[Request[c].caseNumber]] = Nil]

Goto(c, step) == pc' = [pc EXCEPT ![c] = step]

\* The handler returns: its mutex and its local variables go with it.
Answer(c, status, body) ==
  /\ reply' = [reply EXCEPT ![c] = [status |-> status, body |-> body]]
  /\ holder' = Unlocked(c)
  /\ at' = [at EXCEPT ![c] = Nil]
  /\ draft' = [draft EXCEPT ![c] = Nil]
  /\ previous' = [previous EXCEPT ![c] = <<>>]
  /\ Goto(c, "done")

\* NewEvent: numbered after the previous event, if there is one, and chained to it.
NewEvent(d, prev) ==
  [sequence |-> IF prev = <<>> THEN 1 ELSE Head(prev).sequence + 1,
   before |-> d.before, after |-> d.after, result |-> d.content, previous |-> HashOf(prev)]

-----------------------------------------------------------------------------
(* The steps of a call *)

Init ==
  /\ cases = [n \in Numbers |-> Nil]
  /\ audit = [n \in Numbers |-> <<>>]
  /\ idem = [k \in Keys |-> Nil]
  /\ holder = [p \in Processes |-> [name \in LockNames |-> Nil]]
  /\ up = Processes /\ crashes = 0
  /\ pc = [c \in Calls |-> "idle"]
  /\ at = [c \in Calls |-> Nil]
  /\ draft = [c \in Calls |-> Nil] /\ previous = [c \in Calls |-> <<>>]
  /\ reply = [c \in Calls |-> Nil]

Start(c, p) ==
  /\ pc[c] = "idle" /\ p \in up
  /\ Request[c].complete
  /\ at' = [at EXCEPT ![c] = p]
  /\ Goto(c, "lock")
  /\ UNCHANGED <<disk, holder, up, crashes, draft, previous, reply>>

\* validateMeta: a request without a key, an actor or a role goes no further.
Reject(c) ==
  /\ pc[c] = "idle" /\ ~Request[c].complete
  /\ reply' = [reply EXCEPT ![c] = [status |-> "refused", body |-> Nil]]
  /\ Goto(c, "done")
  /\ UNCHANGED <<disk, holder, up, crashes, at, draft, previous>>

Acquire(c) ==
  LET name == LockName[Request[c].caseNumber]
  IN /\ pc[c] = "lock"
     /\ MutexFree(at[c], name)
     /\ holder' = [holder EXCEPT ![at[c]][name] = c]
     /\ Goto(c, "replay")
     /\ UNCHANGED <<disk, up, crashes, at, draft, previous, reply>>

\* replay: FindIdempotency before anything else is read.
Replay(c) ==
  LET found == idem[Request[c].key]
  IN /\ pc[c] = "replay"
     /\ \/ /\ found = Nil
           /\ Goto(c, "load")
           /\ UNCHANGED <<holder, at, draft, previous, reply>>
        \/ /\ found # Nil /\ found.fingerprint = Fingerprint(Request[c])
           /\ Answer(c, "ok", found.response)
        \/ /\ found # Nil /\ found.fingerprint # Fingerprint(Request[c])
           /\ Answer(c, "idempotency_reuse", Nil)
     /\ UNCHANGED <<disk, up, crashes>>

\* CreateCase builds the new case without reading the store.
Build(c) ==
  LET r == Request[c]
  IN /\ pc[c] = "load" /\ Creates(r)
     /\ \/ Answer(c, "refused", Nil)
        \/ /\ draft' = [draft EXCEPT ![c] = [number |-> Target(r),
                          before |-> 0, after |-> 1, content |-> <<Effect(r)>>]]
           /\ Goto(c, "commit")
           /\ UNCHANGED <<holder, at, previous, reply>>
     /\ UNCHANGED <<disk, up, crashes>>

\* LoadCase, the version check and the domain method; a rule may refuse.
Load(c) ==
  LET r == Request[c]
      found == cases[Target(r)]
  IN /\ pc[c] = "load" /\ ~Creates(r)
     /\ \/ found = Nil /\ Answer(c, "not_found", Nil)
        \/ found # Nil /\ found.version # r.expected /\ Answer(c, "conflict", Nil)
        \/ found # Nil /\ found.version = r.expected /\ Answer(c, "refused", Nil)
        \/ /\ found # Nil /\ found.version = r.expected
           /\ draft' = [draft EXCEPT ![c] = [number |-> Target(r),
                          before |-> found.version, after |-> found.version + 1,
                          content |-> Append(found.content, Effect(r))]]
           /\ Goto(c, "audit")
           /\ UNCHANGED <<holder, at, previous, reply>>
     /\ UNCHANGED <<disk, up, crashes>>

\* previousEvent: none or one.
LastOf(events) == IF events = <<>> THEN <<>> ELSE <<Last(events)>>

LoadAudit(c) ==
  LET events == audit[draft[c].number]
  IN /\ pc[c] = "audit"
     /\ previous' = [previous EXCEPT ![c] = LastOf(events)]
     /\ Goto(c, "commit")
     /\ UNCHANGED <<disk, holder, up, crashes, at, draft, reply>>

\* Commit, one SQLite transaction: the key, then the row of the case under its
\* version, then the audit event under its sequence, then the answer.
KeyUnused(r) == idem[r.key] = Nil

VersionCurrent(d) ==
  IF d.before = 0 THEN cases[d.number] = Nil
  ELSE cases[d.number] # Nil /\ cases[d.number].version = d.before

SequenceUnused(d, event) ==
  \A i \in 1..Len(audit[d.number]) : audit[d.number][i].sequence # event.sequence

AuditWith(d, event) == [audit EXCEPT ![d.number] = Append(@, event)]

Commit(c) ==
  LET r == Request[c]
      d == draft[c]
      event == NewEvent(d, previous[c])
  IN /\ pc[c] = "commit"
     /\ \/ /\ ~KeyUnused(r) /\ idem[r.key].fingerprint = Fingerprint(r)
           /\ Goto(c, "fetch")
           /\ UNCHANGED <<disk, holder, at, draft, previous, reply>>
        \/ /\ ~KeyUnused(r) /\ idem[r.key].fingerprint # Fingerprint(r)
           /\ Answer(c, "idempotency_reuse", Nil)
           /\ UNCHANGED disk
        \/ /\ KeyUnused(r) /\ ~VersionCurrent(d)
           /\ Answer(c, "conflict", Nil)
           /\ UNCHANGED disk
        \/ /\ KeyUnused(r) /\ VersionCurrent(d) /\ SequenceUnused(d, event)
           /\ cases' = [cases EXCEPT ![d.number] = [version |-> d.after, content |-> d.content]]
           /\ audit' = AuditWith(d, event)
           /\ idem' = [idem EXCEPT ![r.key] =
                [fingerprint |-> Fingerprint(r), response |-> d.content]]
           /\ Goto(c, "fetch")
           /\ UNCHANGED <<holder, at, draft, previous, reply>>
     /\ UNCHANGED <<up, crashes>>

\* persistedResult: the answer is read back, never taken from memory.
PersistedAnswer(r) == idem[r.key].response

Fetch(c) ==
  /\ pc[c] = "fetch"
  /\ Answer(c, "ok", PersistedAnswer(Request[c]))
  /\ UNCHANGED <<disk, up, crashes>>

\* Any access to the store may fail: a busy file, a cancelled request, a full
\* disk.  A failed transaction is rolled back, and the handler returns.
StoreFails(c) ==
  /\ pc[c] \in {"replay", "load", "audit", "commit", "fetch"}
  /\ pc[c] = "load" => ~Creates(Request[c])
  /\ Answer(c, "error", Nil)
  /\ UNCHANGED <<disk, up, crashes>>

\* A process dies: its memory goes, its calls are never answered, the rows stay.
LostWith(p) == {c \in Calls : at[c] = p}

Crash(p) ==
  /\ p \in up /\ crashes < MaxCrashes
  /\ up' = up \ {p} /\ crashes' = crashes + 1
  /\ holder' = [holder EXCEPT ![p] = [name \in LockNames |-> Nil]]
  /\ pc' = [c \in Calls |-> IF c \in LostWith(p) THEN "lost" ELSE pc[c]]
  /\ at' = [c \in Calls |-> IF c \in LostWith(p) THEN Nil ELSE at[c]]
  /\ draft' = [c \in Calls |-> IF c \in LostWith(p) THEN Nil ELSE draft[c]]
  /\ previous' = [c \in Calls |-> IF c \in LostWith(p) THEN <<>> ELSE previous[c]]
  /\ UNCHANGED <<disk, reply>>

\* Validate: the chain of every case is numbered from one without a gap, each
\* event raises the version and names its predecessor, and the last one
\* reached the version of the case.
ChainValid(n) ==
  /\ \A i \in 1..Len(audit[n]) :
       /\ audit[n][i].sequence = i
       /\ audit[n][i].previous = IF i = 1 THEN <<>> ELSE Hash(audit[n][i - 1])
       /\ audit[n][i].after > audit[n][i].before
  /\ cases[n] # Nil =>
       audit[n] # <<>> /\ Last(audit[n]).after = cases[n].version

Validate == \A n \in Numbers : ChainValid(n)

\* Open refuses a store that Validate finds damaged.
Restart(p) ==
  /\ p \notin up
  /\ Validate
  /\ up' = up \union {p}
  /\ UNCHANGED <<disk, holder, crashes, pc, at, draft, previous, reply>>

Advance(c) ==
  Replay(c) \/ Build(c) \/ Load(c) \/ LoadAudit(c) \/ Commit(c) \/ Fetch(c)

Next ==
  \/ \E c \in Calls : Reject(c) \/ Acquire(c) \/ Advance(c) \/ StoreFails(c)
  \/ \E c \in Calls, p \in Processes : Start(c, p)
  \/ \E p \in Processes : Crash(p) \/ Restart(p)

Spec == Init /\ [][Next]_vars

\* A goroutine that can run does, and sync.Mutex hands the lock to a waiter
\* that has waited long enough (its starvation mode), however many others come.
Fairness == \A c \in Calls : WF_vars(Advance(c)) /\ SF_vars(Acquire(c))

FairSpec == Spec /\ Fairness

-----------------------------------------------------------------------------
(* Properties *)

Effects == {Effect(Request[c]) : c \in Calls}
Fingerprints == {Fingerprint(Request[c]) : c \in Calls}
Drafts == [number : Numbers, before : Nat, after : Nat \ {0}, content : Seq(Effects)]

CaseRows == [version : Nat \ {0}, content : Seq(Effects)]
KeyRows == [fingerprint : Fingerprints, response : Seq(Effects)]
Hashed == [sequence : Nat \ {0}, before : Nat, after : Nat \ {0}, result : Seq(Effects)]
Events == [sequence : Nat \ {0}, before : Nat, after : Nat \ {0}, result : Seq(Effects),
           previous : Seq(Hashed)]
Replies == [status : {"ok", "refused", "not_found", "conflict", "idempotency_reuse", "error"},
            body : {Nil} \union Seq(Effects)]

ASSUME NilAssumption ==
  Nil \notin Calls \union CaseRows \union KeyRows \union Drafts \union Replies \union Seq(Effects)

\* The type of every row on disk and of what each call carries.
TypeOK ==
  /\ cases \in [Numbers -> {Nil} \union CaseRows]
  /\ audit \in [Numbers -> Seq(Events)]
  /\ idem \in [Keys -> {Nil} \union KeyRows]
  /\ holder \in [Processes -> [LockNames -> Calls \union {Nil}]]
  /\ up \subseteq Processes /\ crashes \in 0..MaxCrashes
  /\ pc \in [Calls -> Steps]
  /\ at \in [Calls -> Processes \union {Nil}]
  /\ draft \in [Calls -> {Nil} \union Drafts]
  /\ previous \in [Calls -> Seq(Events)]
  /\ \A c \in Calls : Len(previous[c]) <= 1
  /\ reply \in [Calls -> {Nil} \union Replies]

\* No lost update: the case is what its audit events say was done to it, one
\* after the other, whoever raced whom (Commit's WHERE version = ? against a
\* case loaded in another transaction).
ChainMatchesCase ==
  \A n \in Numbers :
    /\ cases[n] = Nil => audit[n] = <<>>
    /\ cases[n] # Nil =>
         /\ Len(audit[n]) = cases[n].version
         /\ \A i \in 1..Len(audit[n]) :
              audit[n][i].result = SubSeq(cases[n].content, 1, i)

\* A client that is told of success asked for what was done last in the answer
\* it gets (README: a key reused for another request is refused with 409).
SuccessMeansApplied ==
  \A c \in Calls :
    reply[c] # Nil /\ reply[c].status = "ok" =>
      Last(reply[c].body) = Effect(Request[c])

\* Inside one process the mutex of a case spans the load, the audit read and
\* the commit: what a command works on is still the case when it commits
\* (README: commands on one case run one at a time inside the process).
BaseFresh ==
  \A c \in Calls :
    pc[c] \in {"audit", "commit"} /\ ~Creates(Request[c]) =>
      /\ VersionCurrent(draft[c])
      /\ Front(draft[c].content) = cases[draft[c].number].content
      /\ pc[c] = "commit" => SequenceUnused(draft[c], NewEvent(draft[c], previous[c]))

\* Inside one process a retry of what has succeeded, sent after a lost answer
\* or beside the first attempt, never comes back as a version conflict.
CarriedOut(c) ==
  LET found == idem[Request[c].key]
  IN found # Nil /\ found.fingerprint = Fingerprint(Request[c])

ToldOfConflict(c) == reply[c] = Nil /\ reply'[c] # Nil /\ reply'[c].status = "conflict"

RetryNeverConflicts == [][\A c \in Calls : ToldOfConflict(c) => ~CarriedOut(c)]_vars

\* Whatever the crash, the next Open accepts the store it finds: every commit
\* leaves rows that Validate accepts, so a restart is never refused.
StoreOpens == Validate

\* A request that has arrived is answered, unless its process dies under it:
\* every way out of the handler gives the mutex back (defer lock.Unlock()).
Answered ==
  \A c \in Calls : pc[c] = "lock" ~> pc[c] \in {"done", "lost"}

\* The service as ExactlyOnce sees it.
Ledger == [n \in Numbers |-> IF cases[n] = Nil THEN <<>> ELSE cases[n].content]
Recorded == [k \in Keys |-> IF idem[k] = Nil THEN Nil ELSE idem[k].response]
Told == [c \in Calls |->
           IF reply[c] # Nil /\ reply[c].status = "ok" THEN reply[c].body ELSE Nil]

Promise == INSTANCE ExactlyOnce WITH
  Cases <- Numbers,
  CaseOf <- [c \in Calls |-> Target(Request[c])],
  KeyOf <- [c \in Calls |-> Request[c].key],
  EffectOf <- [c \in Calls |-> Effect(Request[c])],
  Nothing <- Nil,
  ledger <- Ledger,
  recorded <- Recorded,
  told <- Told

\* What the steps amount to: effects appended one at a time, each key once,
\* every success told with the answer recorded at its commit.
KeepsExactlyOnce == Promise!Spec
=============================================================================
