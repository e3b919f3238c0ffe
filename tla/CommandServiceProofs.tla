------------------------- MODULE CommandServiceProofs -------------------------
(***************************************************************************)
(* Theorems about CommandService, for any set of requests, of processes,   *)
(* of keys and of spellings, and for any number of crashes.                *)
(***************************************************************************)
EXTENDS CommandService, SequenceTheorems, TLAPS

-----------------------------------------------------------------------------
(* Type correctness *)

Serving == {"lock", "replay", "load", "audit", "commit", "fetch"}

\* What a call carries while it is served.
Carries(c) ==
  /\ pc[c] \in Serving => at[c] \in Processes
  /\ pc[c] \in {"audit", "commit"} =>
       draft[c] \in Drafts /\ draft[c].number = Target(Request[c])
  /\ pc[c] = "fetch" => CarriedOut(c)

Carried == \A c \in Calls : Carries(c)

\* What every request names is one of the names, keys and effects there are.
LEMMA RequestFacts ==
  ASSUME NEW c \in Calls
  PROVE  /\ Target(Request[c]) \in Numbers
         /\ LockName[Request[c].caseNumber] \in LockNames
         /\ Request[c].key \in Keys
         /\ Effect(Request[c]) \in Effects
         /\ Fingerprint(Request[c]) \in Fingerprints
         /\ Request[c].expected \in Nat
  BY RequestAssumption
  DEF Target, Numbers, LockNames, Spellings, Keys, Effects, Fingerprints

\* A call that is answered carries nothing any more, and the others what they did.
LEMMA AnswerTyped ==
  ASSUME TypeOK, Carried, NEW c \in Calls, at[c] \in Processes,
         NEW status \in {"ok", "refused", "not_found", "conflict", "idempotency_reuse", "error"},
         NEW body \in {Nil} \union Seq(Effects), Answer(c, status, body),
         UNCHANGED <<disk, up, crashes>>
  PROVE  TypeOK' /\ Carried'
<1>1. [status |-> status, body |-> body] \in Replies
  BY DEF Replies
<1>2. reply' \in [Calls -> {Nil} \union Replies]
  BY <1>1 DEF Answer, TypeOK
<1>3. holder' \in [Processes -> [LockNames -> Calls \union {Nil}]]
  BY DEF Answer, Unlocked, TypeOK
<1>4. /\ pc' = [pc EXCEPT ![c] = "done"] /\ at' = [at EXCEPT ![c] = Nil]
      /\ draft' = [draft EXCEPT ![c] = Nil] /\ previous' = [previous EXCEPT ![c] = <<>>]
  BY DEF Answer, Goto
<1>5. /\ pc' \in [Calls -> Steps] /\ at' \in [Calls -> Processes \union {Nil}]
      /\ draft' \in [Calls -> {Nil} \union Drafts] /\ previous' \in [Calls -> Seq(Events)]
      /\ \A x \in Calls : Len(previous'[x]) <= 1
  BY <1>4, EmptySeq DEF TypeOK, Steps
<1>6. \A x \in Calls : Carries(x)'
  BY <1>4 DEF CarriedOut, Carried, Carries, Serving, TypeOK, Steps, disk
<1> QED BY <1>2, <1>3, <1>5, <1>6 DEF TypeOK, Carried, disk

\* The part of the rows: what a first answer writes is of the type of rows.
LEMMA CommitTyped ==
  ASSUME TypeOK, Carried, NEW c \in Calls, pc[c] = "commit"
  PROVE  /\ NewEvent(draft[c], previous[c]) \in Events
         /\ [version |-> draft[c].after, content |-> draft[c].content] \in CaseRows
         /\ [fingerprint |-> Fingerprint(Request[c]), response |-> draft[c].content] \in KeyRows
         /\ AuditWith(draft[c], NewEvent(draft[c], previous[c])) \in [Numbers -> Seq(Events)]
<1> DEFINE d == draft[c]
           p == previous[c]
<1>1. d \in Drafts /\ d.number \in Numbers
  BY RequestFacts DEF CarriedOut, Carried, Carries
<1>2. p = <<>> \/ (Len(p) = 1 /\ Head(p) \in Events)
  <2>1. p \in Seq(Events) /\ Len(p) <= 1 /\ Len(p) \in Nat
    BY DEF TypeOK
  <2>2. CASE Len(p) = 0
    BY <2>1, <2>2, EmptySeq
  <2>3. CASE Len(p) = 1
    <3>1. 1 \in 1..Len(p) /\ p # <<>>
      BY <2>1, <2>3
    <3> QED BY <2>1, <2>3, <3>1, ElementOfSeq
  <2>4. Len(p) = 0 \/ Len(p) = 1
    <3>1. \A n \in Nat : n <= 1 => n = 0 \/ n = 1
      OBVIOUS
    <3> QED BY <2>1, <3>1
  <2> QED BY <2>2, <2>3, <2>4
<1>3. HashOf(p) \in Seq(Hashed)
  <2>1. CASE p = <<>>
    BY <2>1 DEF HashOf
  <2>2. CASE p # <<>>
    <3>1. Head(p) \in Events
      BY <1>2, <2>2
    <3>2. Hash(Head(p)) \in Seq(Hashed)
      BY <3>1 DEF Hash, Events, Hashed
    <3> QED BY <2>2, <3>2 DEF HashOf
  <2> QED BY <2>1, <2>2
<1>4. NewEvent(d, p) \in Events
  <2>1. (IF p = <<>> THEN 1 ELSE Head(p).sequence + 1) \in Nat \ {0}
    BY <1>2 DEF Events
  <2> QED BY <1>1, <1>3, <2>1 DEF NewEvent, Events, Drafts
<1>5. AuditWith(d, NewEvent(d, p)) \in [Numbers -> Seq(Events)]
  BY <1>1, <1>4 DEF AuditWith, TypeOK
<1> QED BY <1>1, <1>4, <1>5, RequestFacts DEF CaseRows, KeyRows, Drafts

\* The steps before the store is read.
LEMMA ArrivalTyped ==
  ASSUME TypeOK, Carried, NEW c \in Calls,
         Reject(c) \/ Acquire(c) \/ \E p \in Processes : Start(c, p)
  PROVE  TypeOK' /\ Carried'
<1>1. CASE Reject(c)
  <2>1. [status |-> "refused", body |-> Nil] \in Replies
    BY DEF Replies
  <2> QED BY <1>1, <2>1 DEF Reject, Goto, TypeOK, Steps, CarriedOut, Carried, Carries, Serving, disk
<1>2. CASE Acquire(c)
  <2>1. at[c] \in Processes /\ LockName[Request[c].caseNumber] \in LockNames
    BY <1>2, RequestFacts DEF Acquire, CarriedOut, Carried, Carries, Serving
  <2>2. holder' \in [Processes -> [LockNames -> Calls \union {Nil}]]
    BY <1>2, <2>1 DEF Acquire, TypeOK
  <2> QED BY <1>2, <2>1, <2>2 DEF Acquire, Goto, TypeOK, Steps, CarriedOut, Carried, Carries, Serving, disk
<1>3. ASSUME NEW p \in Processes, Start(c, p) PROVE TypeOK' /\ Carried'
  BY <1>3 DEF Start, Goto, TypeOK, Steps, CarriedOut, Carried, Carries, Serving, disk
<1> QED BY <1>1, <1>2, <1>3

\* Every answer given after a look at the store.
LEMMA RepliesTyped ==
  ASSUME TypeOK, Carried, NEW c \in Calls,
         pc[c] \in Serving, UNCHANGED <<disk, up, crashes>>,
         \/ \E status \in {"refused", "not_found", "conflict", "idempotency_reuse", "error"} :
              Answer(c, status, Nil)
         \/ idem[Request[c].key] # Nil /\ Answer(c, "ok", idem[Request[c].key].response)
  PROVE  TypeOK' /\ Carried'
<1>1. at[c] \in Processes
  BY DEF CarriedOut, Carried, Carries
<1>2. CASE idem[Request[c].key] # Nil /\ Answer(c, "ok", idem[Request[c].key].response)
  <2>1. idem[Request[c].key].response \in Seq(Effects)
    BY <1>2, RequestFacts DEF TypeOK, KeyRows
  <2> QED BY <1>1, <1>2, <2>1, AnswerTyped
<1> QED BY <1>1, <1>2, AnswerTyped

\* The steps that look at the store and go on.
LEMMA LookingTyped ==
  ASSUME TypeOK, Carried, NEW c \in Calls,
         Replay(c) \/ Build(c) \/ Load(c) \/ LoadAudit(c) \/ Fetch(c) \/ StoreFails(c)
  PROVE  TypeOK' /\ Carried'
<1>1. CASE Replay(c)
  <2>1. CASE Goto(c, "load") /\ UNCHANGED <<holder, at, draft, previous, reply>>
    BY <1>1, <2>1 DEF Replay, Goto, TypeOK, Steps, CarriedOut, Carried, Carries, Serving, disk
  <2> QED BY <1>1, <2>1, RepliesTyped DEF Replay, Serving
<1>2. CASE Build(c)
  <2>1. CASE Answer(c, "refused", Nil)
    BY <1>2, <2>1, RepliesTyped DEF Build, Serving
  <2>2. CASE ~Answer(c, "refused", Nil)
    <3> DEFINE d == [number |-> Target(Request[c]), before |-> 0, after |-> 1,
                     content |-> <<Effect(Request[c])>>]
    <3>1. d \in Drafts
      BY RequestFacts DEF Drafts
    <3>2. /\ pc[c] = "load" /\ draft' = [draft EXCEPT ![c] = d] /\ Goto(c, "commit")
          /\ UNCHANGED <<disk, holder, up, crashes, at, previous, reply>>
      BY <1>2, <2>2 DEF Build
    <3>3. d.number = Target(Request[c])
      OBVIOUS
    <3> HIDE DEF d
    <3> QED BY <3>1, <3>2, <3>3 DEF Goto, TypeOK, Steps, CarriedOut, Carried, Carries, Serving, disk
  <2> QED BY <2>1, <2>2
<1>3. CASE Load(c)
  <2> DEFINE found == cases[Target(Request[c])]
             d == [number |-> Target(Request[c]), before |-> found.version,
                   after |-> found.version + 1,
                   content |-> Append(found.content, Effect(Request[c]))]
  <2>1. CASE /\ found # Nil /\ draft' = [draft EXCEPT ![c] = d] /\ Goto(c, "audit")
             /\ UNCHANGED <<disk, holder, up, crashes, at, previous, reply>>
    <3>1. found \in CaseRows
      BY <2>1, RequestFacts DEF TypeOK
    <3>2. d \in Drafts /\ d.number = Target(Request[c])
      BY <3>1, RequestFacts DEF Drafts, CaseRows
    <3>3. pc[c] = "load"
      BY <1>3 DEF Load
    <3> HIDE DEF d
    <3> QED BY <2>1, <3>2, <3>3 DEF Goto, TypeOK, Steps, CarriedOut, Carried, Carries, Serving, disk
  <2> QED BY <1>3, <2>1, RepliesTyped DEF Load, Serving
<1>4. CASE LoadAudit(c)
  <2> DEFINE events == audit[draft[c].number]
  <2>1. events \in Seq(Events)
    BY <1>4, RequestFacts DEF LoadAudit, CarriedOut, Carried, Carries, TypeOK
  <2>2. LastOf(events) \in Seq(Events) /\ Len(LastOf(events)) <= 1
    <3>1. events # <<>> => Len(events) \in 1..Len(events) /\ Last(events) \in Events
      BY <2>1, ElementOfSeq, EmptySeq, LenProperties DEF Last
    <3> QED BY <3>1 DEF LastOf
  <2> HIDE DEF events
  <2>3. /\ pc[c] = "audit" /\ Goto(c, "commit")
        /\ previous' = [previous EXCEPT ![c] = LastOf(events)]
        /\ UNCHANGED <<disk, holder, up, crashes, at, draft, reply>>
    BY <1>4 DEF LoadAudit, events
  <2> QED BY <2>2, <2>3 DEF Goto, TypeOK, Steps, CarriedOut, Carried, Carries, Serving, disk
<1>5. CASE Fetch(c)
  BY <1>5, RepliesTyped DEF Fetch, PersistedAnswer, CarriedOut, Carried, Carries, Serving
<1>6. CASE StoreFails(c)
  BY <1>6, RepliesTyped DEF StoreFails, Serving
<1> QED BY <1>1, <1>2, <1>3, <1>4, <1>5, <1>6

\* The transaction: it writes rows of the right type, or leaves them alone.
LEMMA CommitStepTyped ==
  ASSUME TypeOK, Carried, NEW c \in Calls, Commit(c)
  PROVE  TypeOK' /\ Carried'
<1> DEFINE r == Request[c]
           d == draft[c]
           event == NewEvent(d, previous[c])
<1>1. CASE \E status \in {"conflict", "idempotency_reuse"} :
             Answer(c, status, Nil) /\ UNCHANGED <<disk, up, crashes>>
  BY <1>1, RepliesTyped DEF Commit, Serving
<1>2. CASE /\ ~KeyUnused(r) /\ idem[r.key].fingerprint = Fingerprint(r)
           /\ Goto(c, "fetch")
           /\ UNCHANGED <<disk, holder, up, crashes, at, draft, previous, reply>>
  BY <1>2 DEF Commit, KeyUnused, Goto, TypeOK, Steps, CarriedOut, Carried, Carries, Serving, disk
<1>3. CASE /\ KeyUnused(r)
           /\ cases' = [cases EXCEPT ![d.number] = [version |-> d.after, content |-> d.content]]
           /\ audit' = AuditWith(d, event)
           /\ idem' = [idem EXCEPT ![r.key] =
                [fingerprint |-> Fingerprint(r), response |-> d.content]]
           /\ Goto(c, "fetch")
           /\ UNCHANGED <<holder, up, crashes, at, draft, previous, reply>>
  <2> DEFINE row == [version |-> d.after, content |-> d.content]
             key == [fingerprint |-> Fingerprint(r), response |-> d.content]
  <2>1. pc[c] = "commit"
    BY DEF Commit
  <2>2. row \in CaseRows /\ key \in KeyRows /\ AuditWith(d, event) \in [Numbers -> Seq(Events)]
    BY <2>1, CommitTyped
  <2>3. r.key \in Keys /\ key # Nil /\ key.fingerprint = Fingerprint(r)
    BY <2>2, RequestFacts, NilAssumption
  <2> HIDE DEF row, key
  <2>4. /\ cases' \in [Numbers -> {Nil} \union CaseRows]
        /\ idem' \in [Keys -> {Nil} \union KeyRows]
        /\ audit' \in [Numbers -> Seq(Events)]
    BY <1>3, <2>2, <2>3 DEF TypeOK, row, key
  <2>5. idem' = [idem EXCEPT ![r.key] = key]
    BY <1>3 DEF key
  <2>6. \A x \in Calls : Carries(x)'
    <3>1. SUFFICES ASSUME NEW x \in Calls PROVE Carries(x)'
      OBVIOUS
    <3>2. CASE x = c
      BY <1>3, <2>1, <2>3, <2>5, <3>2 DEF Goto, TypeOK, Steps, CarriedOut, Carried, Carries, Serving
    <3>3. CASE x # c
      BY <1>3, <2>3, <2>5, <3>3, RequestFacts
      DEF KeyUnused, Goto, TypeOK, Steps, CarriedOut, Carried, Carries, Serving
    <3> QED BY <3>2, <3>3
  <2> QED BY <1>3, <2>4, <2>6 DEF Goto, TypeOK, Steps, Carried
<1> QED BY <1>1, <1>2, <1>3 DEF Commit

\* A process that dies or is started again.
LEMMA ProcessTyped ==
  ASSUME TypeOK, Carried, NEW p \in Processes, Crash(p) \/ Restart(p)
  PROVE  TypeOK' /\ Carried'
<1>1. CASE Restart(p)
  BY <1>1 DEF Restart, TypeOK, CarriedOut, Carried, Carries, disk
<1>2. CASE Crash(p)
  <2>1. /\ pc' \in [Calls -> Steps] /\ at' \in [Calls -> Processes \union {Nil}]
        /\ draft' \in [Calls -> {Nil} \union Drafts] /\ previous' \in [Calls -> Seq(Events)]
        /\ \A c \in Calls : Len(previous'[c]) <= 1
    BY <1>2, EmptySeq DEF Crash, TypeOK, Steps
  <2>2. /\ holder' \in [Processes -> [LockNames -> Calls \union {Nil}]]
        /\ up' \subseteq Processes /\ crashes' \in 0..MaxCrashes
    BY <1>2, CrashAssumption DEF Crash, TypeOK
  <2>3. Carried'
    BY <1>2 DEF Crash, TypeOK, CarriedOut, Carried, Carries, Serving, disk
  <2> QED BY <1>2, <2>1, <2>2, <2>3 DEF Crash, TypeOK, disk
<1> QED BY <1>1, <1>2

\* The steps of the service, by what they have in common.
LEMMA StepTyped ==
  ASSUME TypeOK, Carried, Next
  PROVE  TypeOK' /\ Carried'
  BY ArrivalTyped, LookingTyped, CommitStepTyped, ProcessTyped DEF Next, Advance

\* Rows, mutexes and what calls carry keep their types, and a call that waits
\* to read its answer back finds it recorded: TypeOK is an invariant.
THEOREM Typing == Spec => [](TypeOK /\ Carried)
<1>1. Init => TypeOK /\ Carried
  BY EmptySeq, CrashAssumption DEF Init, TypeOK, Steps, CarriedOut, Carried, Carries, Serving
<1>2. TypeOK /\ Carried /\ [Next]_vars => TypeOK' /\ Carried'
  <2>1. TypeOK /\ Carried /\ UNCHANGED vars => TypeOK' /\ Carried'
    BY DEF TypeOK, CarriedOut, Carried, Carries, vars, disk
  <2> QED BY <2>1, StepTyped
<1> QED BY <1>1, <1>2, PTL DEF Spec

\* The types alone, as the run states them.
THEOREM TypesAlwaysKept == Spec => []TypeOK
  BY Typing, PTL

-----------------------------------------------------------------------------
(* No lost update: the inductive invariant *)

\* The case and its chain: event i took the case from version i-1 to i and is
\* hashed with the event before it.
EventSound(n, i) ==
  LET e == audit[n][i]
  IN /\ e.sequence = i /\ e.before = i - 1 /\ e.after = i
     /\ e.result = SubSeq(cases[n].content, 1, i)
     /\ e.previous = IF i = 1 THEN <<>> ELSE Hash(audit[n][i - 1])

CaseSound(n) ==
  /\ cases[n] = Nil => audit[n] = <<>>
  /\ cases[n] # Nil =>
       /\ Len(audit[n]) = cases[n].version /\ Len(cases[n].content) = cases[n].version
       /\ \A i \in 1..Len(audit[n]) : EventSound(n, i)

\* What a call has loaded was the case once, however far the case has moved on
\* since: the versions up to its base are still what the draft extends, and the
\* event it will follow is not older than its base.
Extends(d) ==
  /\ cases[d.number] # Nil /\ d.before <= cases[d.number].version
  /\ \A i \in 1..d.before : cases[d.number].content[i] = d.content[i]

DraftSound(c) ==
  /\ pc[c] \notin {"commit", "fetch"} => previous[c] = <<>>
  /\ pc[c] \in {"audit", "commit"} =>
       LET d == draft[c]
       IN /\ d.after = d.before + 1 /\ Len(d.content) = d.after
          /\ d.content[d.after] = Effect(Request[c])
          /\ d.before = 0 => pc[c] = "commit" /\ previous[c] = <<>>
          /\ d.before # 0 =>
               /\ Extends(d)
               /\ pc[c] = "commit" =>
                    \E j \in d.before..Len(audit[d.number]) : previous[c] = <<audit[d.number][j]>>

ChainSound == (\A n \in Numbers : CaseSound(n)) /\ (\A c \in Calls : DraftSound(c))

\* Sequences that agree up to a position have the same prefix there.
LEMMA SamePrefix ==
  ASSUME NEW S, NEW s \in Seq(S), NEW t \in Seq(S), NEW n \in Nat,
         n <= Len(s), n <= Len(t), \A i \in 1..n : s[i] = t[i]
  PROVE  SubSeq(s, 1, n) = SubSeq(t, 1, n)
<1>1. /\ SubSeq(s, 1, n) \in Seq(S) /\ SubSeq(t, 1, n) \in Seq(S)
      /\ Len(SubSeq(s, 1, n)) = n /\ Len(SubSeq(t, 1, n)) = n
      /\ \A i \in 1..n : SubSeq(s, 1, n)[i] = s[i] /\ SubSeq(t, 1, n)[i] = t[i]
  <2>1. \A i \in 1..n : i \in 1..Len(s) /\ i \in 1..Len(t) /\ i \in 1..(n - 1 + 1) /\ 1 + i - 1 = i
    BY LenProperties
  <2>2. 1 \in 1..(Len(s) + 1) /\ 1 \in 1..(Len(t) + 1) /\ n \in 0..Len(s) /\ n \in 0..Len(t)
    BY LenProperties
  <2> QED BY <2>1, <2>2, SubSeqProperties
<1> QED BY <1>1, SeqEqual

\* The invariant says what the runs check of a store at rest.
LEMMA ChainSoundSuffices ==
  ASSUME TypeOK, ChainSound
  PROVE  ChainMatchesCase /\ StoreOpens
<1>1. ChainMatchesCase
  BY DEF ChainSound, CaseSound, EventSound, ChainMatchesCase
<1>2. ASSUME NEW n \in Numbers
      PROVE  ChainValid(n)
  <2>1. audit[n] \in Seq(Events) /\ Len(audit[n]) \in Nat /\ (audit[n] = <<>> <=> Len(audit[n]) = 0)
    BY EmptySeq, LenProperties DEF TypeOK
  <2>2. CASE cases[n] = Nil
    BY <2>1, <2>2 DEF ChainSound, CaseSound, ChainValid
  <2>3. CASE cases[n] # Nil
    <3>1. cases[n] \in CaseRows /\ Len(audit[n]) = cases[n].version
      BY <2>3 DEF TypeOK, ChainSound, CaseSound
    <3>2. Len(audit[n]) \in 1..Len(audit[n])
      BY <2>1, <3>1 DEF CaseRows
    <3>3. \A i \in 1..Len(audit[n]) : EventSound(n, i)
      BY <2>3 DEF ChainSound, CaseSound
    <3>4. \A i \in 1..Len(audit[n]) : audit[n][i].after > audit[n][i].before
      BY <3>3 DEF EventSound
    <3> QED BY <2>1, <3>1, <3>2, <3>3, <3>4 DEF EventSound, ChainValid, Last
  <2> QED BY <2>2, <2>3
<1> QED BY <1>1, <1>2 DEF StoreOpens, Validate

\* A commit: the version of the row is still the base of the draft.
FirstCommit(c) ==
  LET d == draft[c]
  IN /\ pc[c] = "commit" /\ VersionCurrent(d)
     /\ cases' = [cases EXCEPT ![d.number] = [version |-> d.after, content |-> d.content]]
     /\ audit' = AuditWith(d, NewEvent(d, previous[c]))

\* What an optimistic commit rests on: at the moment the row still has the base
\* version, the event read earlier is still the last one of the chain, and all
\* that the case consists of is in the draft.
LEMMA NothingMissed ==
  ASSUME TypeOK, Carried, ChainSound, NEW c \in Calls, pc[c] = "commit", VersionCurrent(draft[c])
  PROVE  LET d == draft[c]
             n == d.number
         IN /\ Len(audit[n]) = d.before
            /\ d.before = 0 => cases[n] = Nil /\ previous[c] = <<>>
            /\ d.before # 0 =>
                 /\ cases[n] # Nil /\ cases[n].version = d.before
                 /\ previous[c] = <<audit[n][d.before]>>
                 /\ \A i \in 1..d.before : cases[n].content[i] = d.content[i]
<1> DEFINE d == draft[c]
           n == d.number
<1>1. d \in Drafts /\ n \in Numbers /\ audit[n] \in Seq(Events)
  BY RequestFacts DEF CarriedOut, Carried, Carries, TypeOK
<1>2. CaseSound(n) /\ DraftSound(c)
  BY <1>1 DEF ChainSound
<1>3. CASE d.before = 0
  BY <1>1, <1>2, <1>3, EmptySeq DEF CaseSound, DraftSound, VersionCurrent
<1>4. CASE d.before # 0
  <2>1. /\ cases[n] # Nil /\ cases[n].version = d.before /\ Len(audit[n]) = d.before
        /\ \A i \in 1..d.before : cases[n].content[i] = d.content[i]
    BY <1>2, <1>4 DEF CaseSound, DraftSound, Extends, VersionCurrent
  <2>2. PICK j \in d.before..Len(audit[n]) : previous[c] = <<audit[n][j]>>
    BY <1>2, <1>4 DEF DraftSound
  <2>3. d.before \in Nat
    BY <1>1 DEF Drafts
  <2>4. j = d.before
    BY <2>1, <2>2, <2>3
  <2> QED BY <1>4, <2>1, <2>2, <2>4
<1> QED BY <1>3, <1>4

\* The row and the chain of the case committed to are sound again.
LEMMA CommittedSound ==
  ASSUME TypeOK, Carried, ChainSound, NEW c \in Calls, FirstCommit(c),
         NEW n \in Numbers, n = draft[c].number
  PROVE  CaseSound(n)'
<1> DEFINE d == draft[c]
           e == NewEvent(d, previous[c])
<1>1. /\ d \in Drafts /\ n \in Numbers /\ audit[n] \in Seq(Events) /\ e \in Events
      /\ [version |-> d.after, content |-> d.content] \in CaseRows
  BY CommitTyped, RequestFacts DEF CarriedOut, Carried, Carries, TypeOK, FirstCommit
<1>2a. PICK b \in Nat : b = d.before
  BY <1>1 DEF Drafts
<1>2. /\ b = d.before /\ b \in Nat /\ d.after = b + 1 /\ d.content \in Seq(Effects) /\ Len(d.content) = b + 1
  BY <1>1, <1>2a DEF FirstCommit, ChainSound, DraftSound, Drafts
<1>3. /\ Len(audit[n]) = b
      /\ b = 0 => cases[n] = Nil /\ previous[c] = <<>>
      /\ b # 0 =>
           /\ cases[n] # Nil /\ cases[n].version = b
           /\ previous[c] = <<audit[n][b]>>
           /\ \A i \in 1..b : cases[n].content[i] = d.content[i]
  BY <1>2a, NothingMissed DEF FirstCommit
<1>4. /\ cases'[n] # Nil /\ cases'[n].version = b + 1 /\ cases'[n].content = d.content
      /\ audit'[n] = Append(audit[n], e)
  BY <1>1, <1>2, NilAssumption DEF FirstCommit, TypeOK, AuditWith
<1>5. /\ Len(audit'[n]) = b + 1 /\ audit'[n][b + 1] = e
      /\ \A i \in 1..b : audit'[n][i] = audit[n][i]
  BY <1>1, <1>3, <1>4, AppendProperties
<1>6. /\ e.before = b /\ e.after = b + 1 /\ e.result = d.content
      /\ e.sequence = b + 1
      /\ e.previous = IF b = 0 THEN <<>> ELSE Hash(audit[n][b])
  <2>1. CASE b = 0
    BY <1>2, <1>3, <2>1 DEF NewEvent, HashOf
  <2>2. CASE b # 0
    <3>1. EventSound(n, b)
      BY <1>1, <1>2, <1>3, <2>2 DEF ChainSound, CaseSound
    <3>2. previous[c] # <<>> /\ Head(previous[c]) = audit[n][b]
      BY <1>3, <2>2
    <3> QED BY <1>2, <2>2, <3>1, <3>2 DEF NewEvent, HashOf, EventSound
  <2> QED BY <2>1, <2>2
<1> HIDE DEF e
<1>7. ASSUME NEW i \in 1..b
      PROVE  EventSound(n, i)'
  <2>1. EventSound(n, i) /\ cases[n] \in CaseRows /\ Len(cases[n].content) = b
    BY <1>1, <1>3 DEF ChainSound, CaseSound, TypeOK
  <2>2. SubSeq(cases[n].content, 1, i) = SubSeq(d.content, 1, i)
    <3>1. /\ cases[n].content \in Seq(Effects)
          /\ i \in Nat /\ b # 0 /\ i <= b /\ i <= b + 1 /\ \A j \in 1..i : j \in 1..b
      BY <1>2, <2>1 DEF CaseRows
    <3>2. \A j \in 1..i : cases[n].content[j] = d.content[j]
      BY <1>3, <3>1
    <3> HIDE DEF d
    <3> QED BY <1>2, <2>1, <3>1, <3>2, SamePrefix
  <2>3. i # 1 => i - 1 \in 1..b
    BY <1>2
  <2> QED BY <1>4, <1>5, <2>1, <2>2, <2>3 DEF EventSound, Hash
<1>8. EventSound(n, b + 1)'
  <2>1. SubSeq(d.content, 1, b + 1) = d.content
    BY <1>2, SubSeqFull
  <2>2. (b + 1 = 1 <=> b = 0) /\ b + 1 - 1 = b /\ (b # 0 => audit'[n][b] = audit[n][b])
    BY <1>2, <1>5
  <2>3. e.previous = IF b + 1 = 1 THEN <<>> ELSE Hash(audit'[n][b + 1 - 1])
    BY <1>6, <2>2 DEF Hash
  <2>4. /\ e.sequence = b + 1 /\ e.before = b + 1 - 1 /\ e.after = b + 1
        /\ e.result = SubSeq(cases'[n].content, 1, b + 1)
    BY <1>4, <1>6, <2>1, <2>2
  <2>5. /\ audit'[n][b + 1].sequence = b + 1 /\ audit'[n][b + 1].before = b + 1 - 1
        /\ audit'[n][b + 1].after = b + 1
        /\ audit'[n][b + 1].result = SubSeq(cases'[n].content, 1, b + 1)
        /\ audit'[n][b + 1].previous = IF b + 1 = 1 THEN <<>> ELSE Hash(audit'[n][b + 1 - 1])
    BY <1>5, <2>3, <2>4
  <2> QED BY <2>5 DEF EventSound, Hash
<1>9. \A i \in 1..(b + 1) : i \in 1..b \/ i = b + 1
  BY <1>2
<1> QED BY <1>2, <1>4, <1>5, <1>7, <1>8, <1>9 DEF CaseSound

\* A commit leaves the other cases alone.
LEMMA OtherCaseSound ==
  ASSUME TypeOK, Carried, ChainSound, NEW c \in Calls, FirstCommit(c),
         NEW n \in Numbers, n # draft[c].number
  PROVE  CaseSound(n)'
<1>1. cases'[n] = cases[n] /\ audit'[n] = audit[n]
  BY DEF FirstCommit, AuditWith, TypeOK
<1> QED BY <1>1 DEF ChainSound, CaseSound, EventSound, Hash

\* A commit moves a case on: what others have loaded of it is still a part of it.
LEMMA OtherDraftSound ==
  ASSUME TypeOK, Carried, ChainSound, NEW c \in Calls, FirstCommit(c),
         NEW x \in Calls, pc'[x] = pc[x], draft'[x] = draft[x], previous'[x] = previous[x]
  PROVE  DraftSound(x)'
<1> SUFFICES ASSUME pc[x] \in {"audit", "commit"} PROVE DraftSound(x)'
  BY DEF ChainSound, DraftSound
<1> DEFINE n == draft[x].number
<1>1. /\ draft[x] \in Drafts /\ n \in Numbers /\ audit[n] \in Seq(Events)
      /\ draft[c] \in Drafts /\ NewEvent(draft[c], previous[c]) \in Events
      /\ DraftSound(x)
  BY CommitTyped, RequestFacts DEF CarriedOut, Carried, Carries, TypeOK, FirstCommit, ChainSound
<1>2. CASE draft[x].before = 0
  BY <1>1, <1>2 DEF DraftSound
<1>3. CASE draft[x].before # 0 /\ n # draft[c].number
  <2>1. cases'[n] = cases[n] /\ audit'[n] = audit[n]
    BY <1>1, <1>3 DEF FirstCommit, AuditWith, TypeOK
  <2> QED BY <1>1, <1>3, <2>1 DEF DraftSound, Extends
<1>4. CASE draft[x].before # 0 /\ n = draft[c].number
  <2> DEFINE b == draft[c].before
  <2>1. /\ cases[n] # Nil /\ draft[x].before <= cases[n].version
        /\ \A i \in 1..draft[x].before : cases[n].content[i] = draft[x].content[i]
    BY <1>1, <1>4 DEF DraftSound, Extends
  <2>2. b # 0 /\ cases[n].version = b /\ Len(audit[n]) = b
        /\ \A i \in 1..b : cases[n].content[i] = draft[c].content[i]
    BY <1>4, <2>1, NothingMissed DEF FirstCommit
  <2>3. draft[c].after = b + 1 /\ b \in Nat /\ draft[x].before \in Nat
    BY <1>1 DEF FirstCommit, ChainSound, DraftSound, Drafts
  <2>4. /\ cases'[n] = [version |-> b + 1, content |-> draft[c].content]
        /\ audit'[n] = Append(audit[n], NewEvent(draft[c], previous[c]))
    BY <1>1, <1>4, <2>3 DEF FirstCommit, AuditWith, TypeOK
  <2>5. cases'[n] # Nil
    BY <1>1, <2>3, <2>4, NilAssumption DEF CaseRows, Drafts
  <2>6. \A i \in 1..draft[x].before : cases'[n].content[i] = draft[x].content[i]
    <3>1. cases'[n].content = draft[c].content
      BY <2>4
    <3>2. \A i \in 1..draft[x].before : i \in 1..b
      BY <2>1, <2>2, <2>3
    <3> QED BY <2>1, <2>2, <3>1, <3>2
  <2>7. Len(audit'[n]) = b + 1 /\ \A j \in 1..b : audit'[n][j] = audit[n][j]
    BY <1>1, <2>2, <2>4, AppendProperties
  <2>8. pc[x] = "commit" =>
          \E j \in draft[x].before..Len(audit'[n]) : previous[x] = <<audit'[n][j]>>
    <3>1. SUFFICES ASSUME pc[x] = "commit"
                   PROVE  \E j \in draft[x].before..Len(audit'[n]) : previous[x] = <<audit'[n][j]>>
      OBVIOUS
    <3>2. PICK j \in draft[x].before..Len(audit[n]) : previous[x] = <<audit[n][j]>>
      BY <1>1, <1>4, <3>1 DEF DraftSound
    <3>3. j \in 1..b /\ j \in draft[x].before..Len(audit'[n])
      BY <1>4, <2>2, <2>3, <2>7, <3>2
    <3> QED BY <2>7, <3>2, <3>3
  <2>9. draft[x].before <= cases'[n].version
    BY <2>1, <2>2, <2>3, <2>4
  <2> QED BY <1>1, <1>4, <2>5, <2>6, <2>8, <2>9 DEF DraftSound, Extends
<1> QED BY <1>2, <1>3, <1>4

\* Steps that leave the rows alone, and every call but one.
LEMMA QuietSound ==
  ASSUME TypeOK, Carried, ChainSound, NEW c \in Calls, UNCHANGED disk, DraftSound(c)',
         \A x \in Calls \ {c} :
           pc'[x] = pc[x] /\ draft'[x] = draft[x] /\ previous'[x] = previous[x]
  PROVE  ChainSound'
<1>1. ASSUME NEW n \in Numbers PROVE CaseSound(n)'
  BY DEF ChainSound, CaseSound, EventSound, Hash, disk
<1>2. ASSUME NEW x \in Calls, x # c PROVE DraftSound(x)'
  BY <1>2 DEF ChainSound, DraftSound, Extends, disk
<1> QED BY <1>1, <1>2 DEF ChainSound

\* An answer ends with nothing carried.
LEMMA AnswerSound ==
  ASSUME TypeOK, Carried, ChainSound, NEW c \in Calls, NEW status, NEW body,
         Answer(c, status, body), UNCHANGED disk
  PROVE  ChainSound'
<1>1. /\ pc'[c] = "done" /\ previous'[c] = <<>>
      /\ \A x \in Calls \ {c} :
           pc'[x] = pc[x] /\ draft'[x] = draft[x] /\ previous'[x] = previous[x]
  BY DEF Answer, Goto, TypeOK
<1> QED BY <1>1, QuietSound DEF DraftSound

\* The steps of a call up to its commit.
LEMMA LookingSound ==
  ASSUME TypeOK, Carried, ChainSound, NEW c \in Calls,
         \/ Reject(c) \/ Acquire(c) \/ \E p \in Processes : Start(c, p)
         \/ Replay(c) \/ Build(c) \/ Load(c) \/ LoadAudit(c) \/ Fetch(c) \/ StoreFails(c)
  PROVE  ChainSound'
<1> DEFINE quiet == \A x \in Calls \ {c} :
             pc'[x] = pc[x] /\ draft'[x] = draft[x] /\ previous'[x] = previous[x]
<1>1. CASE Reject(c) \/ Acquire(c) \/ \E p \in Processes : Start(c, p)
  <2>1. /\ UNCHANGED disk /\ quiet /\ previous' = previous
        /\ pc[c] \in {"idle", "lock"} /\ pc'[c] \in {"done", "replay", "lock"}
    BY <1>1 DEF Reject, Acquire, Start, Goto, TypeOK
  <2> QED BY <2>1, QuietSound DEF DraftSound, ChainSound
<1>2. CASE \E status, body : Answer(c, status, body) /\ UNCHANGED disk
  BY <1>2, AnswerSound
<1>3. CASE /\ Goto(c, "load") /\ pc[c] = "replay"
           /\ UNCHANGED <<disk, draft, previous>>
  <2>1. /\ UNCHANGED disk /\ quiet /\ previous' = previous /\ pc'[c] = "load"
    BY <1>3 DEF Goto, TypeOK
  <2> QED BY <1>3, <2>1, QuietSound DEF DraftSound, ChainSound
<1>4. CASE Build(c) /\ ~Answer(c, "refused", Nil)
  <2> DEFINE d == [number |-> Target(Request[c]), before |-> 0, after |-> 1,
                   content |-> <<Effect(Request[c])>>]
  <2>1. /\ UNCHANGED disk /\ quiet /\ previous' = previous /\ pc[c] = "load"
        /\ pc'[c] = "commit" /\ draft'[c] = d
    BY <1>4 DEF Build, Goto, TypeOK
  <2>2. /\ d.before = 0 /\ d.after = 1 /\ Len(d.content) = 1
        /\ d.content[d.after] = Effect(Request[c])
    OBVIOUS
  <2> HIDE DEF d
  <2>3. DraftSound(c)'
    BY <2>1, <2>2 DEF ChainSound, DraftSound
  <2> QED BY <2>1, <2>3, QuietSound
<1>5. CASE Load(c) /\ ~\E status, body : Answer(c, status, body)
  <2> DEFINE n == Target(Request[c])
             found == cases[n]
             d == [number |-> n, before |-> found.version, after |-> found.version + 1,
                   content |-> Append(found.content, Effect(Request[c]))]
  <2>1. /\ UNCHANGED disk /\ quiet /\ previous' = previous /\ pc[c] = "load"
        /\ pc'[c] = "audit" /\ draft'[c] = d /\ found # Nil
    BY <1>5 DEF Load, Goto, TypeOK
  <2>2. found \in CaseRows /\ Len(found.content) = found.version
    BY <2>1, RequestFacts DEF TypeOK, ChainSound, CaseSound
  <2>3. /\ Len(Append(found.content, Effect(Request[c]))) = found.version + 1
        /\ Append(found.content, Effect(Request[c]))[found.version + 1] = Effect(Request[c])
        /\ \A i \in 1..found.version :
             Append(found.content, Effect(Request[c]))[i] = found.content[i]
    BY <2>2, RequestFacts, AppendProperties DEF CaseRows
  <2>4. /\ d.number = n /\ d.before = found.version /\ d.after = d.before + 1
        /\ Len(d.content) = d.after /\ d.before # 0
        /\ d.content[d.after] = Effect(Request[c])
        /\ d.before <= found.version
        /\ \A i \in 1..d.before : found.content[i] = d.content[i]
    BY <2>2, <2>3 DEF CaseRows
  <2> HIDE DEF d
  <2>5. DraftSound(c)'
    BY <2>1, <2>4 DEF ChainSound, DraftSound, Extends, disk
  <2> QED BY <2>1, <2>5, QuietSound
<1>6. CASE LoadAudit(c)
  <2> DEFINE n == draft[c].number
             events == audit[n]
  <2>1. /\ UNCHANGED disk /\ quiet /\ draft' = draft /\ pc[c] = "audit"
        /\ pc'[c] = "commit" /\ previous'[c] = LastOf(events)
    BY <1>6 DEF LoadAudit, Goto, TypeOK
  <2>2. /\ draft[c] \in Drafts /\ n \in Numbers /\ events \in Seq(Events)
        /\ DraftSound(c) /\ CaseSound(n)
    BY <2>1, RequestFacts DEF CarriedOut, Carried, Carries, TypeOK, ChainSound
  <2>3. /\ draft[c].before # 0 /\ cases[n] # Nil /\ draft[c].before <= cases[n].version
        /\ Len(events) = cases[n].version
    BY <2>1, <2>2 DEF DraftSound, Extends, CaseSound
  <2>4. /\ Len(events) \in draft[c].before..Len(events) /\ events # <<>>
        /\ LastOf(events) = <<events[Len(events)]>>
    BY <2>2, <2>3, EmptySeq, LenProperties DEF Drafts, LastOf, Last
  <2>5. \E j \in draft[c].before..Len(events) : previous'[c] = <<events[j]>>
    BY <2>1, <2>4
  <2>6. DraftSound(c)'
    BY <2>1, <2>2, <2>3, <2>5 DEF DraftSound, Extends, disk
  <2> QED BY <2>1, <2>6, QuietSound
<1>7. Replay(c) => (\E status, body : Answer(c, status, body) /\ UNCHANGED disk)
                     \/ (Goto(c, "load") /\ pc[c] = "replay" /\ UNCHANGED <<disk, draft, previous>>)
  BY DEF Replay
<1>8. Build(c) => UNCHANGED disk
  BY DEF Build
<1>9. Load(c) => UNCHANGED disk
  BY DEF Load
<1>10. Fetch(c) \/ StoreFails(c) => \E status, body : Answer(c, status, body) /\ UNCHANGED disk
  BY DEF Fetch, StoreFails
<1> QED BY <1>1, <1>2, <1>3, <1>4, <1>5, <1>6, <1>7, <1>8, <1>9, <1>10

\* The transaction.
LEMMA CommitSound ==
  ASSUME TypeOK, Carried, ChainSound, NEW c \in Calls, Commit(c)
  PROVE  ChainSound'
<1>1. CASE \E status, body : Answer(c, status, body) /\ UNCHANGED disk
  BY <1>1, AnswerSound
<1>2. CASE Goto(c, "fetch") /\ UNCHANGED <<disk, draft, previous>>
  <2>1. pc'[c] = "fetch" /\ \A x \in Calls \ {c} : pc'[x] = pc[x]
    BY <1>2 DEF Goto, TypeOK
  <2>2. DraftSound(c)'
    BY <2>1 DEF DraftSound
  <2> QED BY <1>2, <2>1, <2>2, QuietSound
<1>3. CASE FirstCommit(c) /\ Goto(c, "fetch") /\ UNCHANGED <<draft, previous>>
  <2>1. pc'[c] = "fetch" /\ \A x \in Calls \ {c} : pc'[x] = pc[x]
    BY <1>3 DEF Goto, TypeOK
  <2>2. \A n \in Numbers : CaseSound(n)'
    BY <1>3, CommittedSound, OtherCaseSound
  <2>3. \A x \in Calls : DraftSound(x)'
    <3>1. DraftSound(c)'
      BY <2>1 DEF DraftSound
    <3>2. \A x \in Calls \ {c} : DraftSound(x)'
      BY <1>3, <2>1, OtherDraftSound
    <3> QED BY <3>1, <3>2
  <2> QED BY <2>2, <2>3 DEF ChainSound
<1> QED BY <1>1, <1>2, <1>3 DEF Commit, FirstCommit

\* A process that dies takes its drafts with it.
LEMMA ProcessSound ==
  ASSUME TypeOK, Carried, ChainSound, NEW p \in Processes, Crash(p) \/ Restart(p)
  PROVE  ChainSound'
<1>1. UNCHANGED disk
  BY DEF Crash, Restart
<1>2. ASSUME NEW n \in Numbers PROVE CaseSound(n)'
  BY <1>1 DEF ChainSound, CaseSound, EventSound, Hash, disk
<1>3. ASSUME NEW x \in Calls PROVE DraftSound(x)'
  <2>1. CASE pc'[x] = pc[x] /\ draft'[x] = draft[x] /\ previous'[x] = previous[x]
    BY <1>1, <2>1 DEF ChainSound, DraftSound, Extends, disk
  <2>2. CASE pc'[x] = "lost" /\ previous'[x] = <<>>
    BY <2>2 DEF DraftSound
  <2> QED BY <2>1, <2>2 DEF Crash, Restart
<1> QED BY <1>2, <1>3 DEF ChainSound

\* ChainSound is an invariant of the service.
THEOREM Chaining == Spec => []ChainSound
<1>1. Init => ChainSound
  BY DEF Init, ChainSound, CaseSound, DraftSound
<1>2. TypeOK /\ Carried /\ ChainSound /\ [Next]_vars => ChainSound'
  <2>1. TypeOK /\ Carried /\ ChainSound /\ UNCHANGED vars => ChainSound'
    BY DEF ChainSound, CaseSound, EventSound, DraftSound, Extends, Hash, vars, disk
  <2>2. TypeOK /\ Carried /\ ChainSound /\ Next => ChainSound'
    BY LookingSound, CommitSound, ProcessSound DEF Next, Advance
  <2> QED BY <2>1, <2>2
<1> QED BY <1>1, <1>2, Typing, PTL DEF Spec

\* However many processes share the file and whenever they die, no update is
\* lost: a case is what its audit events say was done to it, one by one.
THEOREM NoUpdateLost == Spec => []ChainMatchesCase
<1>1. TypeOK /\ ChainSound => ChainMatchesCase
  BY ChainSoundSuffices
<1> QED BY <1>1, Typing, Chaining, PTL

\* Whatever was interrupted, Open accepts the store that is found.
THEOREM StoreAlwaysOpens == Spec => []StoreOpens
<1>1. TypeOK /\ ChainSound => StoreOpens
  BY ChainSoundSuffices
<1> QED BY <1>1, Typing, Chaining, PTL

-----------------------------------------------------------------------------
(* One process: what its mutexes are for *)

Inside == {"replay", "load", "audit", "commit", "fetch"}

LockOf(c) == LockName[Request[c].caseNumber]

\* A call inside the handler holds the mutex of its case, and its draft starts
\* from nothing just when it creates the case.
Guarded(c) ==
  /\ pc[c] \in Inside => holder[at[c]][LockOf(c)] = c
  /\ pc[c] \in {"audit", "commit"} => (Creates(Request[c]) <=> draft[c].before = 0)

AllGuarded == \A c \in Calls : Guarded(c)

\* Calls inside the handler of one process for one mutex name are one call.
LEMMA OneInside ==
  ASSUME TypeOK, Carried, AllGuarded, NEW c \in Calls, NEW x \in Calls,
         pc[c] \in Inside, pc[x] \in Inside, at[c] = at[x], LockOf(c) = LockOf(x)
  PROVE  c = x
  BY DEF AllGuarded, Guarded

\* Equal fingerprints come from requests for the same mutex.
LEMMA FingerprintNamesLock ==
  ASSUME NEW c \in Calls, NEW x \in Calls,
         Fingerprint(Request[c]) = Fingerprint(Request[x])
  PROVE  LockOf(c) = LockOf(x)
<1>1. Request[c].command = Request[x].command
  BY DEF Fingerprint
<1>2. Creates(Request[c]) <=> Creates(Request[x])
  BY <1>1 DEF Creates
<1>3. CASE Creates(Request[c])
  BY <1>2, <1>3 DEF Fingerprint, LockOf
<1>4. CASE ~Creates(Request[c])
  BY <1>2, <1>4 DEF Fingerprint, LockOf
<1> QED BY <1>3, <1>4

\* An answer frees the mutex of its own call.
LEMMA AnswerGuarded ==
  ASSUME TypeOK, Carried, AllGuarded, NEW c \in Calls, pc[c] \in Inside,
         NEW status, NEW body, Answer(c, status, body)
  PROVE  AllGuarded'
<1>1. ASSUME NEW x \in Calls PROVE Guarded(x)'
  <2>1. CASE x = c
    BY <2>1 DEF Answer, Goto, TypeOK, Guarded, Inside
  <2>2. CASE x # c /\ pc[x] \in Inside
    <3>1. at[x] \in Processes /\ at[c] \in Processes /\ LockOf(x) \in LockNames
      BY <2>2, RequestFacts DEF CarriedOut, Carried, Carries, Serving, Inside, LockOf
    <3>2. ~(at[x] = at[c] /\ LockOf(x) = LockOf(c))
      BY <2>2, OneInside
    <3>3. holder'[at[x]][LockOf(x)] = holder[at[x]][LockOf(x)]
      BY <3>1, <3>2 DEF Answer, Unlocked, LockOf, TypeOK
    <3>4. pc'[x] = pc[x] /\ at'[x] = at[x] /\ draft'[x] = draft[x]
      BY <2>2 DEF Answer, Goto, TypeOK
    <3> QED BY <2>2, <3>3, <3>4 DEF AllGuarded, Guarded, LockOf
  <2>3. CASE x # c /\ pc[x] \notin Inside
    BY <2>3 DEF Answer, Goto, TypeOK, Guarded, Inside
  <2> QED BY <2>1, <2>2, <2>3
<1> QED BY <1>1 DEF AllGuarded

\* A call goes on inside the handler.
LEMMA OnwardGuarded ==
  ASSUME TypeOK, AllGuarded, NEW c \in Calls, pc[c] \in Inside,
         \A x \in Calls \ {c} : pc'[x] = pc[x] /\ draft'[x] = draft[x],
         UNCHANGED <<holder, at>>,
         pc'[c] \in {"audit", "commit"} => (Creates(Request[c]) <=> draft'[c].before = 0)
  PROVE  AllGuarded'
  BY DEF AllGuarded, Guarded, LockOf

\* The steps of one call.
LEMMA CallGuarded ==
  ASSUME TypeOK, Carried, ChainSound, AllGuarded, NEW c \in Calls,
         \/ Reject(c) \/ Acquire(c) \/ \E p \in Processes : Start(c, p)
         \/ Advance(c) \/ StoreFails(c)
  PROVE  AllGuarded'
<1>1. CASE Reject(c) \/ \E p \in Processes : Start(c, p)
  BY <1>1 DEF Reject, Start, Goto, TypeOK, AllGuarded, Guarded, Inside, LockOf
<1>2. CASE Acquire(c)
  <2>1. ASSUME NEW x \in Calls PROVE Guarded(x)'
    <3>1. /\ at[c] \in Processes /\ LockOf(c) \in LockNames /\ pc[c] = "lock"
          /\ holder[at[c]][LockOf(c)] = Nil
          /\ holder' = [holder EXCEPT ![at[c]][LockOf(c)] = c]
          /\ pc' = [pc EXCEPT ![c] = "replay"] /\ at' = at /\ draft' = draft
      BY <1>2, RequestFacts DEF Acquire, MutexFree, Goto, CarriedOut, Carried, Carries, Serving, LockOf
    <3>2. CASE x = c
      BY <3>1, <3>2 DEF TypeOK, Guarded, LockOf
    <3>3. CASE x # c /\ pc[x] \in Inside
      <4>1. /\ at[x] \in Processes /\ LockOf(x) \in LockNames
            /\ holder[at[x]][LockOf(x)] = x /\ x # Nil
        BY <3>3, RequestFacts, NilAssumption
        DEF CarriedOut, Carried, Carries, Serving, Inside, LockOf, AllGuarded, Guarded
      <4>2. holder'[at[x]][LockOf(x)] = x
        BY <3>1, <4>1 DEF TypeOK
      <4> QED BY <3>1, <3>3, <4>2 DEF TypeOK, AllGuarded, Guarded, LockOf
    <3>4. CASE x # c /\ pc[x] \notin Inside
      BY <3>1, <3>4 DEF TypeOK, Guarded, Inside
    <3> QED BY <3>2, <3>3, <3>4
  <2> QED BY <2>1 DEF AllGuarded
<1>3. CASE \E status, body : Answer(c, status, body) /\ pc[c] \in Inside
  BY <1>3, AnswerGuarded
<1>4. CASE Replay(c) /\ ~\E status, body : Answer(c, status, body)
  BY <1>4, OnwardGuarded DEF Replay, Goto, TypeOK, Inside
<1>5. CASE Build(c) /\ ~\E status, body : Answer(c, status, body)
  <2>1. /\ pc[c] = "load" /\ Creates(Request[c]) /\ UNCHANGED <<holder, at>>
        /\ pc' = [pc EXCEPT ![c] = "commit"]
        /\ draft' = [draft EXCEPT ![c] = [number |-> Target(Request[c]), before |-> 0,
                       after |-> 1, content |-> <<Effect(Request[c])>>]]
    BY <1>5 DEF Build, Goto
  <2>2. draft'[c].before = 0 /\ \A x \in Calls \ {c} : pc'[x] = pc[x] /\ draft'[x] = draft[x]
    BY <2>1 DEF TypeOK
  <2> QED BY <2>1, <2>2, OnwardGuarded DEF Inside
<1>6. CASE Load(c) /\ ~\E status, body : Answer(c, status, body)
  <2>1. /\ cases[Target(Request[c])] \in CaseRows /\ ~Creates(Request[c])
        /\ draft'[c].before = cases[Target(Request[c])].version
    BY <1>6, RequestFacts DEF Load, TypeOK
  <2>2. draft'[c].before # 0
    BY <2>1 DEF CaseRows
  <2>3. /\ pc[c] = "load" /\ UNCHANGED <<holder, at>>
        /\ pc' = [pc EXCEPT ![c] = "audit"]
        /\ \E d : draft' = [draft EXCEPT ![c] = d]
    BY <1>6 DEF Load, Goto
  <2>4. \A x \in Calls \ {c} : pc'[x] = pc[x] /\ draft'[x] = draft[x]
    BY <2>3 DEF TypeOK
  <2> QED BY <2>1, <2>2, <2>3, <2>4, OnwardGuarded DEF Inside
<1>7. CASE LoadAudit(c)
  BY <1>7, OnwardGuarded DEF LoadAudit, Goto, TypeOK, Inside, AllGuarded, Guarded
<1>8. CASE Commit(c) /\ ~\E status, body : Answer(c, status, body)
  BY <1>8, OnwardGuarded DEF Commit, Goto, TypeOK, Inside
<1> QED BY <1>1, <1>2, <1>3, <1>4, <1>5, <1>6, <1>7, <1>8
        DEF Advance, Replay, Build, Load, Commit, Fetch, StoreFails, Inside

\* Two calls are never inside the handler for one mutex of one process.
THEOREM MutexHeld == Spec => []AllGuarded
<1>1. Init => AllGuarded
  BY DEF Init, AllGuarded, Guarded, Inside
<1>2. TypeOK /\ Carried /\ ChainSound /\ AllGuarded /\ [Next]_vars => AllGuarded'
  <2> SUFFICES ASSUME TypeOK, Carried, ChainSound, AllGuarded, [Next]_vars PROVE AllGuarded'
    OBVIOUS
  <2>1. CASE UNCHANGED vars
    BY <2>1 DEF AllGuarded, Guarded, LockOf, vars
  <2>2. ASSUME NEW p \in Processes, Crash(p) PROVE AllGuarded'
    <3>1. ASSUME NEW x \in Calls PROVE Guarded(x)'
      <4>1. CASE at[x] = p
        BY <2>2, <4>1 DEF Crash, LostWith, Guarded, Inside
      <4>2. CASE at[x] # p
        BY <2>2, <4>2 DEF Crash, LostWith, AllGuarded, Guarded, LockOf, TypeOK
      <4> QED BY <4>1, <4>2
    <3> QED BY <3>1 DEF AllGuarded
  <2>3. ASSUME NEW p \in Processes, Restart(p) PROVE AllGuarded'
    BY <2>3 DEF Restart, AllGuarded, Guarded, LockOf
  <2> QED BY <2>1, <2>2, <2>3, CallGuarded DEF Next
<1> QED BY <1>1, <1>2, Typing, Chaining, PTL DEF Spec

\* With one process on the store, what a call inside the handler has read of its
\* case still holds, and its own request has not been carried out meanwhile.
Alone == \A p, q \in Processes : p = q

Current(c) ==
  /\ pc[c] \in {"audit", "commit"} /\ ~Creates(Request[c]) =>
       cases[draft[c].number].version = draft[c].before
  /\ pc[c] \in {"load", "audit", "commit"} => ~CarriedOut(c)

AllCurrent == \A c \in Calls : Current(c)

\* A commit on the case of another call inside the handler would need its mutex.
LEMMA CommitKeepsCurrent ==
  ASSUME TypeOK, Carried, ChainSound, AllGuarded, AllCurrent, Alone,
         NEW c \in Calls, FirstCommit(c), KeyUnused(Request[c]),
         idem' = [idem EXCEPT ![Request[c].key] =
           [fingerprint |-> Fingerprint(Request[c]), response |-> draft[c].content]],
         NEW x \in Calls, x # c, pc'[x] = pc[x], draft'[x] = draft[x]
  PROVE  Current(x)'
<1>1. /\ pc[c] = "commit" /\ draft[c] \in Drafts /\ draft[c].number = Target(Request[c])
      /\ at[c] \in Processes /\ VersionCurrent(draft[c])
  BY DEF FirstCommit, CarriedOut, Carried, Carries, Serving
<1>2. ASSUME pc[x] \in Inside
      PROVE  LockOf(c) # LockOf(x)
  <2>1. at[x] = at[c]
    BY <1>1, <1>2 DEF Alone, CarriedOut, Carried, Carries, Serving, Inside
  <2> QED BY <1>1, <1>2, <2>1, OneInside DEF Inside
<1>3. ASSUME pc[x] \in {"audit", "commit"}, ~Creates(Request[x])
      PROVE  cases'[draft[x].number].version = draft[x].before
  <2>1. /\ draft[x].number = Target(Request[x]) /\ draft[x].before # 0
        /\ cases[draft[x].number] # Nil
        /\ cases[draft[x].number].version = draft[x].before
        /\ draft[x].number \in Numbers /\ draft[x].number = LockOf(x)
    BY <1>3, RequestFacts
    DEF CarriedOut, Carried, Carries, AllGuarded, Guarded, ChainSound, DraftSound, Extends, AllCurrent,
        Current, Target, LockOf
  <2>2. draft[x].number # draft[c].number
    <3>1. SUFFICES ASSUME draft[x].number = draft[c].number PROVE FALSE
      OBVIOUS
    <3>2. draft[c].before # 0
      BY <1>1, <2>1, <3>1 DEF VersionCurrent
    <3>3. ~Creates(Request[c])
      BY <1>1, <3>2 DEF AllGuarded, Guarded
    <3>4. draft[c].number = LockOf(c)
      BY <1>1, <3>3 DEF Target, LockOf
    <3> QED BY <1>2, <1>3, <2>1, <3>1, <3>4 DEF Inside
  <2>3. cases'[draft[x].number] = cases[draft[x].number]
    BY <2>1, <2>2 DEF FirstCommit, TypeOK
  <2> QED BY <2>1, <2>3
<1>4. ASSUME pc[x] \in {"load", "audit", "commit"}
      PROVE  ~(/\ idem'[Request[x].key] # Nil
               /\ idem'[Request[x].key].fingerprint = Fingerprint(Request[x]))
  <2>1. ~(idem[Request[x].key] # Nil /\ idem[Request[x].key].fingerprint = Fingerprint(Request[x]))
    BY <1>4 DEF CarriedOut, AllCurrent, Current
  <2>2. Request[x].key \in Keys /\ Request[c].key \in Keys
    BY RequestFacts
  <2>3. CASE Request[x].key # Request[c].key
    BY <2>1, <2>2, <2>3 DEF TypeOK
  <2>4. CASE Request[x].key = Request[c].key
    <3>1. idem'[Request[x].key].fingerprint = Fingerprint(Request[c])
      BY <2>2, <2>4 DEF TypeOK
    <3>2. Fingerprint(Request[c]) # Fingerprint(Request[x])
      BY <1>2, <1>4, FingerprintNamesLock DEF Inside
    <3> QED BY <3>1, <3>2
  <2> QED BY <2>3, <2>4
<1> QED BY <1>3, <1>4 DEF CarriedOut, Current

\* Steps that leave the rows and every call but one alone.
LEMMA QuietCurrent ==
  ASSUME AllCurrent, NEW c \in Calls, UNCHANGED disk, Current(c)',
         \A x \in Calls \ {c} : pc'[x] = pc[x] /\ draft'[x] = draft[x]
  PROVE  AllCurrent'
<1>1. ASSUME NEW x \in Calls, x # c PROVE Current(x)'
  BY <1>1 DEF CarriedOut, AllCurrent, Current, disk
<1> QED BY <1>1 DEF AllCurrent

\* The steps of one call.
LEMMA CallCurrent ==
  ASSUME TypeOK, Carried, ChainSound, AllGuarded, AllCurrent, Alone, NEW c \in Calls,
         \/ Reject(c) \/ Acquire(c) \/ \E p \in Processes : Start(c, p)
         \/ Advance(c) \/ StoreFails(c)
  PROVE  AllCurrent'
<1> DEFINE quiet == \A x \in Calls \ {c} : pc'[x] = pc[x] /\ draft'[x] = draft[x]
<1>1. CASE Reject(c) \/ Acquire(c) \/ \E p \in Processes : Start(c, p)
  <2>1. UNCHANGED disk /\ quiet /\ pc'[c] \in {"done", "replay", "lock"}
    BY <1>1 DEF Reject, Acquire, Start, Goto, TypeOK
  <2> QED BY <2>1, QuietCurrent DEF CarriedOut, Current
<1>2. CASE \E status, body : Answer(c, status, body) /\ UNCHANGED disk
  <2>1. quiet /\ pc'[c] = "done"
    BY <1>2 DEF Answer, Goto, TypeOK
  <2> QED BY <1>2, <2>1, QuietCurrent DEF CarriedOut, Current
<1>3. CASE Replay(c) /\ ~\E status, body : Answer(c, status, body)
  <2>1. /\ UNCHANGED disk /\ quiet /\ pc'[c] = "load" /\ idem[Request[c].key] = Nil
    BY <1>3 DEF Replay, Goto, TypeOK
  <2> QED BY <2>1, QuietCurrent DEF CarriedOut, Current, disk
<1>4. CASE Build(c) /\ ~\E status, body : Answer(c, status, body)
  <2>1. UNCHANGED disk /\ quiet /\ pc[c] = "load" /\ pc'[c] = "commit" /\ Creates(Request[c])
    BY <1>4 DEF Build, Goto, TypeOK
  <2> QED BY <2>1, QuietCurrent DEF CarriedOut, AllCurrent, Current, disk
<1>5. CASE Load(c) /\ ~\E status, body : Answer(c, status, body)
  <2>1. /\ UNCHANGED disk /\ quiet /\ pc[c] = "load" /\ pc'[c] = "audit"
        /\ draft'[c].number = Target(Request[c])
        /\ draft'[c].before = cases[Target(Request[c])].version
    BY <1>5 DEF Load, Goto, TypeOK
  <2> QED BY <2>1, QuietCurrent DEF CarriedOut, AllCurrent, Current, disk
<1>6. CASE LoadAudit(c)
  <2>1. UNCHANGED <<disk, draft>> /\ quiet /\ pc[c] = "audit" /\ pc'[c] = "commit"
    BY <1>6 DEF LoadAudit, Goto, TypeOK
  <2> QED BY <2>1, QuietCurrent DEF CarriedOut, AllCurrent, Current, disk
<1>7. CASE Commit(c) /\ UNCHANGED disk /\ Goto(c, "fetch") /\ UNCHANGED draft
  <2>1. quiet /\ pc'[c] = "fetch"
    BY <1>7 DEF Goto, TypeOK
  <2> QED BY <1>7, <2>1, QuietCurrent DEF CarriedOut, Current
<1>8. CASE /\ FirstCommit(c) /\ KeyUnused(Request[c]) /\ Goto(c, "fetch") /\ UNCHANGED draft
           /\ idem' = [idem EXCEPT ![Request[c].key] =
                [fingerprint |-> Fingerprint(Request[c]), response |-> draft[c].content]]
  <2>1. quiet /\ pc'[c] = "fetch"
    BY <1>8 DEF Goto, TypeOK
  <2>2. \A x \in Calls \ {c} : Current(x)'
    BY <1>8, <2>1, CommitKeepsCurrent
  <2>3. Current(c)'
    BY <2>1 DEF CarriedOut, Current
  <2> QED BY <2>2, <2>3 DEF AllCurrent
<1>9. Commit(c) => \/ \E status, body : Answer(c, status, body) /\ UNCHANGED disk
                   \/ UNCHANGED disk /\ Goto(c, "fetch") /\ UNCHANGED draft
                   \/ /\ FirstCommit(c) /\ KeyUnused(Request[c]) /\ Goto(c, "fetch")
                      /\ UNCHANGED draft
                      /\ idem' = [idem EXCEPT ![Request[c].key] =
                           [fingerprint |-> Fingerprint(Request[c]),
                            response |-> draft[c].content]]
  BY DEF Commit, FirstCommit
<1>10. /\ Replay(c) => UNCHANGED disk
       /\ Build(c) => UNCHANGED disk
       /\ Load(c) => UNCHANGED disk
       /\ Fetch(c) \/ StoreFails(c) => \E status, body : Answer(c, status, body) /\ UNCHANGED disk
  BY DEF Replay, Build, Load, Fetch, StoreFails
<1> QED BY <1>1, <1>2, <1>3, <1>4, <1>5, <1>6, <1>7, <1>8, <1>9, <1>10 DEF Advance

\* With one process, AllCurrent is an invariant.
THEOREM Currency ==
  ASSUME Alone
  PROVE  Spec => []AllCurrent
<1>1. Init => AllCurrent
  BY DEF Init, CarriedOut, AllCurrent, Current
<1>2. TypeOK /\ Carried /\ ChainSound /\ AllGuarded /\ AllCurrent /\ [Next]_vars => AllCurrent'
  <2> SUFFICES ASSUME TypeOK, Carried, ChainSound, AllGuarded, AllCurrent, [Next]_vars
               PROVE  AllCurrent'
    OBVIOUS
  <2>1. CASE UNCHANGED vars
    BY <2>1 DEF CarriedOut, AllCurrent, Current, vars, disk
  <2>2. ASSUME NEW p \in Processes, Crash(p) \/ Restart(p) PROVE AllCurrent'
    <3>1. ASSUME NEW x \in Calls PROVE Current(x)'
      <4>1. CASE pc'[x] = pc[x] /\ draft'[x] = draft[x]
        BY <2>2, <4>1 DEF Crash, Restart, CarriedOut, AllCurrent, Current, disk
      <4>2. CASE pc'[x] = "lost"
        BY <4>2 DEF CarriedOut, Current
      <4> QED BY <2>2, <4>1, <4>2 DEF Crash, Restart
    <3> QED BY <3>1 DEF AllCurrent
  <2> QED BY <2>1, <2>2, CallCurrent DEF Next
<1> QED BY <1>1, <1>2, Typing, Chaining, MutexHeld, PTL DEF Spec

\* What AllCurrent and the chain say of a call that works on an existing case.
LEMMA CurrentIsFresh ==
  ASSUME TypeOK, Carried, ChainSound, AllGuarded, AllCurrent,
         NEW c \in Calls, pc[c] \in {"audit", "commit"}, ~Creates(Request[c])
  PROVE  /\ VersionCurrent(draft[c])
         /\ Front(draft[c].content) = cases[draft[c].number].content
         /\ pc[c] = "commit" => SequenceUnused(draft[c], NewEvent(draft[c], previous[c]))
<1> DEFINE d == draft[c]
           n == d.number
<1>1. /\ d \in Drafts /\ n \in Numbers /\ d.before # 0 /\ cases[n] # Nil
      /\ cases[n].version = d.before /\ cases[n] \in CaseRows
      /\ Len(cases[n].content) = d.before /\ Len(d.content) = d.before + 1
      /\ \A i \in 1..d.before : cases[n].content[i] = d.content[i]
      /\ CaseSound(n)
  BY RequestFacts
  DEF CarriedOut, Carried, Carries, AllGuarded, Guarded, CarriedOut, AllCurrent, Current, ChainSound, DraftSound,
      Extends, CaseSound, TypeOK
<1>2. VersionCurrent(d)
  BY <1>1 DEF VersionCurrent
<1>3. /\ d.before \in Nat /\ d.content \in Seq(Effects) /\ cases[n].content \in Seq(Effects)
      /\ Len(d.content) - 1 = d.before
  BY <1>1 DEF Drafts, CaseRows
<1>4. Front(d.content) = cases[n].content
  <2>1. SubSeq(cases[n].content, 1, d.before) = cases[n].content
    BY <1>1, <1>3, SubSeqFull
  <2>2. SubSeq(cases[n].content, 1, d.before) = SubSeq(d.content, 1, d.before)
    <3>1. d.before <= Len(d.content) /\ d.before <= Len(cases[n].content)
      BY <1>1, <1>3
    <3> HIDE DEF d
    <3> QED BY <1>1, <1>3, <3>1, SamePrefix
  <2> QED BY <1>3, <2>1, <2>2 DEF Front
<1>5. pc[c] = "commit" => SequenceUnused(d, NewEvent(d, previous[c]))
  <2>1. SUFFICES ASSUME pc[c] = "commit"
                 PROVE  SequenceUnused(d, NewEvent(d, previous[c]))
    OBVIOUS
  <2>2. /\ Len(audit[n]) = d.before /\ previous[c] = <<audit[n][d.before]>>
        /\ \A i \in 1..d.before : audit[n][i].sequence = i
    BY <1>1, <1>2, <2>1, NothingMissed DEF CaseSound, EventSound
  <2>3. NewEvent(d, previous[c]).sequence = d.before + 1
    <3>1. previous[c] # <<>> /\ Head(previous[c]).sequence = d.before
      BY <1>1, <1>3, <2>2
    <3> QED BY <3>1 DEF NewEvent
  <2> QED BY <1>3, <2>2, <2>3 DEF SequenceUnused
<1> QED BY <1>2, <1>4, <1>5

\* Inside one process, what a command works on is still the case when it commits.
THEOREM BaseAlwaysFresh ==
  ASSUME Alone
  PROVE  Spec => []BaseFresh
<1>1. TypeOK /\ Carried /\ ChainSound /\ AllGuarded /\ AllCurrent => BaseFresh
  BY CurrentIsFresh DEF BaseFresh
<1> QED BY <1>1, Typing, Chaining, MutexHeld, Currency, PTL

\* Inside one process, a retry of what has succeeded is never told of a conflict.
THEOREM RetriesNeverConflict ==
  ASSUME Alone
  PROVE  Spec => RetryNeverConflicts
<1>1. TypeOK /\ AllCurrent /\ [Next]_vars =>
        [\A c \in Calls : ToldOfConflict(c) => ~CarriedOut(c)]_vars
  <2> SUFFICES ASSUME TypeOK, AllCurrent, Next, NEW c \in Calls, ToldOfConflict(c)
               PROVE  ~CarriedOut(c)
    BY DEF vars
  <2>1. \A x \in Calls : \A status, body : Answer(x, status, body) => x = c /\ status = "conflict"
    BY DEF Answer, TypeOK, ToldOfConflict
  <2>2. reply' # reply
    BY DEF ToldOfConflict
  <2>3. ASSUME NEW x \in Calls PROVE ~Reject(x)
    BY DEF Reject, TypeOK, ToldOfConflict
  <2>4. ASSUME NEW x \in Calls, Load(x) PROVE x = c /\ pc[c] = "load"
    BY <2>1, <2>2, <2>4 DEF Load
  <2>5. ASSUME NEW x \in Calls, Commit(x) PROVE x = c /\ KeyUnused(Request[c])
    BY <2>1, <2>2, <2>5 DEF Commit
  <2>6. ASSUME NEW x \in Calls
        PROVE  ~(Replay(x) \/ Build(x) \/ LoadAudit(x) \/ Fetch(x) \/ StoreFails(x) \/ Acquire(x))
    BY <2>1, <2>2 DEF Replay, Build, LoadAudit, Fetch, StoreFails, Acquire
  <2>7. ASSUME NEW p \in Processes
        PROVE  ~(Crash(p) \/ Restart(p) \/ \E x \in Calls : Start(x, p))
    BY <2>2 DEF Crash, Restart, Start
  <2>8. pc[c] = "load" \/ KeyUnused(Request[c])
    BY <2>3, <2>4, <2>5, <2>6, <2>7 DEF Next, Advance
  <2> QED BY <2>8 DEF KeyUnused, CarriedOut, AllCurrent, Current
<1> QED BY <1>1, Typing, Currency, PTL DEF Spec, RetryNeverConflicts

-----------------------------------------------------------------------------
(* Success means what was asked for *)

\* What the code leaves to its clients: two requests that agree in their key and
\* in all the fingerprint covers name the same target.  The fingerprint of a
\* command on a defect does not cover which defect it is (json:"-").
TargetsTold ==
  \A c, x \in Calls :
    /\ Request[c].key = Request[x].key
    /\ Fingerprint(Request[c]) = Fingerprint(Request[x])
    => Request[c].target = Request[x].target

\* A recorded answer ends with the effect of a request that was sent under its
\* key and with its fingerprint.
AskedFor(k, c) ==
  /\ Request[c].key = k /\ idem[k].fingerprint = Fingerprint(Request[c])
  /\ Last(idem[k].response) = Effect(Request[c])

RecordedAsAsked == \A k \in Keys : idem[k] # Nil => \E c \in Calls : AskedFor(k, c)

\* All that makes an effect is in the key, the fingerprint and the target: the
\* number of a new case follows from its spelling, that of any other is its lock.
LEMMA FingerprintTellsEffect ==
  ASSUME TargetsTold, NEW c \in Calls, NEW x \in Calls,
         Request[c].key = Request[x].key,
         Fingerprint(Request[c]) = Fingerprint(Request[x])
  PROVE  Effect(Request[c]) = Effect(Request[x])
<1> DEFINE r == Request[c]
           s == Request[x]
<1>1. r.key = s.key /\ r.target = s.target
  BY DEF TargetsTold
<1>2. r.command = s.command /\ r.body = s.body
  BY DEF Fingerprint
<1>3. CASE Creates(r)
  <2>1. Creates(s) /\ r.caseNumber = s.caseNumber
    BY <1>2, <1>3 DEF Creates, Fingerprint
  <2> QED BY <1>1, <1>2, <1>3, <2>1 DEF Effect, Target
<1>4. CASE ~Creates(r)
  <2>1. ~Creates(s) /\ LockName[r.caseNumber] = LockName[s.caseNumber]
    BY <1>2, <1>4 DEF Creates, Fingerprint
  <2> QED BY <1>1, <1>2, <1>4, <2>1 DEF Effect, Target
<1> QED BY <1>3, <1>4

\* An answer recorded for a request with the same key and fingerprint ends with
\* what this request asked for.
LEMMA RecordedForCall ==
  ASSUME TargetsTold, TypeOK, RecordedAsAsked, NEW c \in Calls, CarriedOut(c)
  PROVE  Last(idem[Request[c].key].response) = Effect(Request[c])
<1>1. PICK x \in Calls : AskedFor(Request[c].key, x)
  BY RequestFacts DEF RecordedAsAsked, CarriedOut
<1>2. Effect(Request[c]) = Effect(Request[x])
  BY <1>1, FingerprintTellsEffect DEF AskedFor, CarriedOut
<1> QED BY <1>1, <1>2 DEF AskedFor

\* Only the first commit of a key writes its answer, and what it writes ends with
\* the effect of the call.
LEMMA StepRecordsAsked ==
  ASSUME TypeOK, Carried, ChainSound, RecordedAsAsked, [Next]_vars
  PROVE  RecordedAsAsked'
<1>1. CASE UNCHANGED idem
  BY <1>1 DEF RecordedAsAsked, AskedFor
<1>2. ASSUME NEW c \in Calls, pc[c] = "commit",
             idem' = [idem EXCEPT ![Request[c].key] =
               [fingerprint |-> Fingerprint(Request[c]), response |-> draft[c].content]]
      PROVE  RecordedAsAsked'
  <2> DEFINE r == Request[c]
             row == [fingerprint |-> Fingerprint(r), response |-> draft[c].content]
  <2>1. /\ draft[c].content[draft[c].after] = Effect(r)
        /\ Len(draft[c].content) = draft[c].after
    BY <1>2 DEF ChainSound, DraftSound
  <2>2. /\ row.fingerprint = Fingerprint(r) /\ Last(row.response) = Effect(r)
    BY <2>1 DEF Last
  <2>3. r.key \in Keys /\ idem' = [idem EXCEPT ![r.key] = row]
    BY <1>2, RequestFacts
  <2> HIDE DEF row
  <2>4. SUFFICES ASSUME NEW k \in Keys, idem'[k] # Nil
                 PROVE  \E x \in Calls : AskedFor(k, x)'
    BY DEF RecordedAsAsked
  <2>5. CASE k = r.key
    <3>1. idem'[k] = row
      BY <2>3, <2>5 DEF TypeOK
    <3> QED BY <2>2, <2>5, <3>1 DEF AskedFor
  <2>6. CASE k # r.key
    <3>1. idem'[k] = idem[k]
      BY <2>3, <2>6 DEF TypeOK
    <3>2. PICK x \in Calls : AskedFor(k, x)
      BY <2>4, <3>1 DEF RecordedAsAsked
    <3> QED BY <3>1, <3>2 DEF AskedFor
  <2> QED BY <2>5, <2>6
<1>3. ASSUME NEW c \in Calls, Commit(c)
      PROVE  \/ UNCHANGED idem
             \/ /\ pc[c] = "commit"
                /\ idem' = [idem EXCEPT ![Request[c].key] =
                     [fingerprint |-> Fingerprint(Request[c]), response |-> draft[c].content]]
  BY <1>3 DEF Commit, disk
<1>4. ASSUME NEW c \in Calls,
             \/ Reject(c) \/ Acquire(c) \/ \E p \in Processes : Start(c, p)
             \/ Replay(c) \/ Build(c) \/ Load(c) \/ LoadAudit(c) \/ Fetch(c) \/ StoreFails(c)
      PROVE  UNCHANGED idem
  BY <1>4 DEF Reject, Acquire, Start, Replay, Build, Load, LoadAudit, Fetch, StoreFails, disk
<1>5. ASSUME NEW p \in Processes, Crash(p) \/ Restart(p) PROVE UNCHANGED idem
  BY <1>5 DEF Crash, Restart, disk
<1>6. UNCHANGED vars => UNCHANGED idem
  BY DEF vars, disk
<1> QED BY <1>1, <1>2, <1>3, <1>4, <1>5, <1>6 DEF Next, Advance

\* Whatever is recorded was asked for, by a call that was sent under that key.
THEOREM AnswersAsked == Spec => []RecordedAsAsked
<1>1. Init => RecordedAsAsked
  BY DEF Init, RecordedAsAsked
<1> QED BY <1>1, StepRecordsAsked, Typing, Chaining, PTL DEF Spec

\* Only a look at a recorded answer ends in a success.
LEMMA SuccessIsRecorded ==
  ASSUME TypeOK, Carried, Next, NEW c \in Calls,
         reply'[c] # Nil, reply'[c].status = "ok"
  PROVE  \/ reply[c] # Nil /\ reply[c] = reply'[c]
         \/ CarriedOut(c) /\ reply'[c].body = idem[Request[c].key].response
<1>1. CASE UNCHANGED reply
  BY <1>1
<1>2. ASSUME NEW x \in Calls, NEW status, NEW body, Answer(x, status, body),
             status = "ok" => CarriedOut(x) /\ body = idem[Request[x].key].response
      PROVE  \/ reply[c] # Nil /\ reply[c] = reply'[c]
             \/ CarriedOut(c) /\ reply'[c].body = idem[Request[c].key].response
  BY <1>2 DEF Answer, TypeOK
<1>3. ASSUME NEW x \in Calls, Reject(x)
      PROVE  reply[c] # Nil /\ reply[c] = reply'[c]
  BY <1>3 DEF Reject, TypeOK
<1>4. ASSUME NEW x \in Calls,
             Build(x) \/ Load(x) \/ Commit(x) \/ StoreFails(x)
      PROVE  UNCHANGED reply \/ \E status : status # "ok" /\ Answer(x, status, Nil)
  BY <1>4 DEF Build, Load, Commit, StoreFails
<1>5. ASSUME NEW x \in Calls, Replay(x)
      PROVE  \/ UNCHANGED reply \/ Answer(x, "idempotency_reuse", Nil)
             \/ CarriedOut(x) /\ Answer(x, "ok", idem[Request[x].key].response)
  BY <1>5 DEF Replay, CarriedOut
<1>6. ASSUME NEW x \in Calls, Fetch(x)
      PROVE  CarriedOut(x) /\ Answer(x, "ok", idem[Request[x].key].response)
  BY <1>6 DEF Fetch, PersistedAnswer, Carried, Carries
<1>7. ASSUME NEW x \in Calls, Acquire(x) \/ LoadAudit(x) \/ \E p \in Processes : Start(x, p)
      PROVE  UNCHANGED reply
  BY <1>7 DEF Acquire, LoadAudit, Start
<1>8. ASSUME NEW p \in Processes, Crash(p) \/ Restart(p) PROVE UNCHANGED reply
  BY <1>8 DEF Crash, Restart
<1> QED BY <1>1, <1>2, <1>3, <1>4, <1>5, <1>6, <1>7, <1>8 DEF Next, Advance

\* If clients name one target under one key and fingerprint, a client that is told
\* of success is told of what it asked for, however the calls race and crash.
THEOREM SuccessAlwaysApplied ==
  ASSUME TargetsTold
  PROVE  Spec => []SuccessMeansApplied
<1>1. Init => SuccessMeansApplied
  BY DEF Init, SuccessMeansApplied
<1>2. TypeOK /\ Carried /\ RecordedAsAsked /\ SuccessMeansApplied /\ [Next]_vars
        => SuccessMeansApplied'
  <2> SUFFICES ASSUME TypeOK, Carried, RecordedAsAsked, SuccessMeansApplied, [Next]_vars,
                      NEW c \in Calls, reply'[c] # Nil, reply'[c].status = "ok"
               PROVE  Last(reply'[c].body) = Effect(Request[c])
    BY DEF SuccessMeansApplied
  <2>1. CASE UNCHANGED vars
    BY <2>1 DEF SuccessMeansApplied, vars
  <2>2. CASE reply[c] # Nil /\ reply[c] = reply'[c]
    BY <2>2 DEF SuccessMeansApplied
  <2>3. CASE CarriedOut(c) /\ reply'[c].body = idem[Request[c].key].response
    BY <2>3, RecordedForCall
  <2> QED BY <2>1, <2>2, <2>3, SuccessIsRecorded
<1> QED BY <1>1, <1>2, Typing, AnswersAsked, PTL DEF Spec
=============================================================================
