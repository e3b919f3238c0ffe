------------------------- MODULE ExactlyOnceRefinement -------------------------
(***************************************************************************)
(* CommandService implements ExactlyOnce: the commit of a key that is not  *)
(* used yet is Apply, an answer of success is Tell, and nothing else that  *)
(* calls, processes and crashes do can be seen.                            *)
(***************************************************************************)
EXTENDS CommandServiceProofs

PromiseMapped == Promise!vars

\* A call that is still to be answered has been told nothing.
Unanswered == \A c \in Calls : pc[c] \in Serving \union {"idle"} => reply[c] = Nil

\* No handler answers twice, and none goes on after its answer.
THEOREM NoEarlyAnswer == Spec => []Unanswered
<1>1. Init => Unanswered
  BY DEF Init, Unanswered
<1>2. TypeOK /\ Unanswered /\ [Next]_vars => Unanswered'
  <2> SUFFICES ASSUME TypeOK, Unanswered, [Next]_vars PROVE Unanswered'
    OBVIOUS
  <2>1. CASE UNCHANGED vars
    BY <2>1 DEF Unanswered, vars
  <2>2. ASSUME NEW c \in Calls, \E status, body : Answer(c, status, body)
        PROVE  Unanswered'
    BY <2>2 DEF Answer, Goto, Unanswered, TypeOK, Serving
  <2>3. ASSUME NEW c \in Calls, pc[c] \in Serving \union {"idle"}, UNCHANGED reply,
               \E step : Goto(c, step)
        PROVE  Unanswered'
    BY <2>3 DEF Goto, Unanswered, TypeOK, Serving
  <2>4. ASSUME NEW c \in Calls, Reject(c) PROVE Unanswered'
    BY <2>4 DEF Reject, Goto, Unanswered, TypeOK, Serving
  <2>5. ASSUME NEW p \in Processes, Crash(p) PROVE Unanswered'
    <3>1. UNCHANGED reply /\ \A c \in Calls : pc'[c] = "lost" \/ pc'[c] = pc[c]
      BY <2>5 DEF Crash
    <3> QED BY <3>1 DEF Unanswered, Serving
  <2>6. ASSUME NEW p \in Processes, Restart(p) PROVE Unanswered'
    BY <2>6 DEF Restart, Unanswered
  <2>7. ASSUME NEW c \in Calls, Acquire(c) \/ LoadAudit(c) \/ \E p \in Processes : Start(c, p)
        PROVE  Unanswered'
    BY <2>3, <2>7 DEF Acquire, LoadAudit, Start, Serving
  <2>8. ASSUME NEW c \in Calls, Replay(c) \/ Build(c) \/ Load(c)
        PROVE  Unanswered'
    BY <2>2, <2>3, <2>8 DEF Replay, Build, Load, Serving
  <2>9. ASSUME NEW c \in Calls, Commit(c) \/ Fetch(c) \/ StoreFails(c)
        PROVE  Unanswered'
    BY <2>2, <2>3, <2>9 DEF Commit, Fetch, StoreFails, Serving
  <2> QED BY <2>1, <2>4, <2>5, <2>6, <2>7, <2>8, <2>9 DEF Next, Advance
<1> QED BY <1>1, <1>2, Typing, PTL DEF Spec

-----------------------------------------------------------------------------
(* The two steps that can be seen *)

\* What a commit leaves behind is the ledger as it was with one effect more,
\* although the draft was made from a row that was read earlier.
LEMMA DraftIsNext ==
  ASSUME TypeOK, Carried, ChainSound, NEW c \in Calls,
         pc[c] = "commit", VersionCurrent(draft[c])
  PROVE  draft[c].content = Append(Ledger[Target(Request[c])], Effect(Request[c]))
<1> DEFINE d == draft[c]
           n == Target(Request[c])
           base == Ledger[n]
           e == Effect(Request[c])
<1>1. /\ d \in Drafts /\ n \in Numbers /\ d.number = n /\ e \in Effects
      /\ d.after = d.before + 1 /\ Len(d.content) = d.after /\ d.content[d.after] = e
  BY RequestFacts DEF Carried, Carries, ChainSound, DraftSound
<1>2. d.before \in Nat /\ d.content \in Seq(Effects)
  BY <1>1 DEF Drafts
<1>3. /\ base \in Seq(Effects) /\ Len(base) = d.before
      /\ \A i \in 1..d.before : base[i] = d.content[i]
  <2>1. CASE d.before = 0
    <3>1. base = <<>>
      BY <1>1, <2>1, NothingMissed DEF Ledger
    <3> QED BY <2>1, <3>1, EmptySeq
  <2>2. CASE d.before # 0
    <3>1. /\ cases[n] # Nil /\ cases[n].version = d.before
          /\ \A i \in 1..d.before : cases[n].content[i] = d.content[i]
      BY <1>1, <2>2, NothingMissed
    <3>2. cases[n] \in CaseRows /\ Len(cases[n].content) = cases[n].version
      BY <1>1, <3>1 DEF TypeOK, ChainSound, CaseSound
    <3>3. base = cases[n].content
      BY <1>1, <3>1 DEF Ledger
    <3> QED BY <3>1, <3>2, <3>3 DEF CaseRows
  <2> QED BY <2>1, <2>2
<1> HIDE DEF d, n, base, e
<1>4. /\ Append(base, e) \in Seq(Effects) /\ Len(Append(base, e)) = d.before + 1
      /\ \A i \in 1..d.before : Append(base, e)[i] = base[i]
      /\ Append(base, e)[d.before + 1] = e
  BY <1>1, <1>3, AppendProperties
<1>5. \A i \in 1..(d.before + 1) : d.content[i] = Append(base, e)[i]
  <2>1. \A i \in 1..(d.before + 1) : i \in 1..d.before \/ i = d.before + 1
    BY <1>2
  <2> QED BY <1>1, <1>3, <1>4, <2>1
<1>6. d.content = Append(base, e)
  <2>1. Len(d.content) = Len(Append(base, e)) /\ Len(d.content) = d.before + 1
    BY <1>1, <1>4
  <2> QED BY <1>2, <1>4, <1>5, <2>1, SeqEqual
<1> QED BY <1>6 DEF d, n, base, e

\* The first commit under a key is one step of the promise.
LEMMA CommitApplies ==
  ASSUME TypeOK, Carried, ChainSound, NEW c \in Calls, FirstCommit(c), KeyUnused(Request[c]),
         idem' = [idem EXCEPT ![Request[c].key] =
           [fingerprint |-> Fingerprint(Request[c]), response |-> draft[c].content]],
         UNCHANGED reply
  PROVE  Promise!Apply(c)
<1> DEFINE r == Request[c]
           n == Target(r)
           next == draft[c].content
           row == [version |-> draft[c].after, content |-> next]
           key == [fingerprint |-> Fingerprint(r), response |-> next]
<1>1. /\ pc[c] = "commit" /\ draft[c] \in Drafts /\ draft[c].number = n
      /\ n \in Numbers /\ r.key \in Keys
  BY RequestFacts DEF FirstCommit, Carried, Carries
<1>2. next = Append(Ledger[n], Effect(r))
  BY <1>1, DraftIsNext DEF FirstCommit
<1>3. row # Nil /\ row.content = next /\ key # Nil /\ key.response = next
  BY <1>1, CommitTyped, NilAssumption
<1>4. cases' = [cases EXCEPT ![n] = row] /\ idem' = [idem EXCEPT ![r.key] = key]
  BY <1>1 DEF FirstCommit
<1>5. Recorded[r.key] = Nil
  BY <1>1 DEF Recorded, KeyUnused
<1> HIDE DEF n, next, row, key
<1>6. Ledger' = [Ledger EXCEPT ![n] = next]
  BY <1>1, <1>3, <1>4 DEF Ledger, TypeOK
<1>7. Recorded' = [Recorded EXCEPT ![r.key] = next]
  BY <1>1, <1>3, <1>4 DEF Recorded, TypeOK
<1>8. UNCHANGED Told
  BY DEF Told
<1> HIDE DEF r
<1>9. Ledger' = [Ledger EXCEPT ![n] = Append(@, Effect(Request[c]))]
  BY <1>1, <1>2, <1>6 DEF r, Ledger
<1> QED BY <1>2, <1>5, <1>7, <1>8, <1>9 DEF Promise!Apply, n, r

\* An answer of success repeats what the key's commit recorded; any other
\* answer tells the client of no success.
LEMMA AnswerTells ==
  ASSUME TypeOK, Unanswered, NEW c \in Calls, pc[c] \in Serving, UNCHANGED disk,
         NEW status, NEW body, Answer(c, status, body),
         status = "ok" =>
           idem[Request[c].key] # Nil /\ body = idem[Request[c].key].response
  PROVE  [Promise!Next]_PromiseMapped
<1>1. /\ reply[c] = Nil /\ Request[c].key \in Keys
      /\ reply' = [reply EXCEPT ![c] = [status |-> status, body |-> body]]
  BY RequestFacts DEF Unanswered, Answer
<1>2. UNCHANGED <<Ledger, Recorded>>
  BY DEF disk, Ledger, Recorded
<1>3. Told[c] = Nil
  BY <1>1 DEF Told
<1>4. CASE status # "ok"
  <2>1. UNCHANGED Told
    BY <1>1, <1>4 DEF Told, TypeOK
  <2> QED BY <1>2, <2>1 DEF PromiseMapped, Promise!vars
<1>5. CASE status = "ok"
  <2>1. body \in Seq(Effects) /\ Recorded[Request[c].key] = body
    BY <1>1, <1>5 DEF Recorded, TypeOK, KeyRows
  <2>2. body # Nil
    BY <2>1, NilAssumption
  <2>3. [status |-> status, body |-> body] # Nil
    <3>1. [status |-> status, body |-> body] \in Replies
      BY <1>5, <2>1 DEF Replies
    <3> QED BY <3>1, NilAssumption
  <2>4. Told' = [Told EXCEPT ![c] = body]
    BY <1>1, <1>5, <2>3 DEF Told, TypeOK
  <2>5. Promise!Tell(c)
    BY <1>2, <1>3, <2>1, <2>2, <2>4 DEF Promise!Tell
  <2> QED BY <2>5 DEF Promise!Next
<1> QED BY <1>4, <1>5

-----------------------------------------------------------------------------
(* Every step *)

\* A step that leaves the rows and what clients were told alone cannot be seen.
LEMMA Unseen ==
  ASSUME UNCHANGED <<disk, reply>>
  PROVE  [Promise!Next]_PromiseMapped
  BY DEF disk, Ledger, Recorded, Told, PromiseMapped, Promise!vars

\* The steps of one call.
LEMMA CallKeepsPromise ==
  ASSUME TypeOK, Carried, ChainSound, Unanswered, NEW c \in Calls,
         \/ Reject(c) \/ Acquire(c) \/ \E p \in Processes : Start(c, p)
         \/ Advance(c) \/ StoreFails(c)
  PROVE  [Promise!Next]_PromiseMapped
<1>1. CASE Reject(c)
  <2>1. UNCHANGED disk /\ UNCHANGED Told
    <3>1. reply[c] = Nil
      BY <1>1 DEF Reject, Unanswered
    <3> QED BY <1>1, <3>1 DEF Reject, Told, TypeOK
  <2> QED BY <2>1 DEF disk, Ledger, Recorded, PromiseMapped, Promise!vars
<1>2. CASE Acquire(c) \/ LoadAudit(c) \/ \E p \in Processes : Start(c, p)
  BY <1>2, Unseen DEF Acquire, LoadAudit, Start
<1>3. CASE Replay(c)
  BY <1>3, AnswerTells, Unseen DEF Replay, Serving
<1>4. CASE Build(c) \/ Load(c)
  <2>1. \/ UNCHANGED <<disk, reply>>
        \/ pc[c] = "load" /\ UNCHANGED disk
           /\ \E status \in {"refused", "not_found", "conflict"} : Answer(c, status, Nil)
    BY <1>4 DEF Build, Load
  <2> QED BY <2>1, AnswerTells, Unseen DEF Serving
<1>5. CASE Commit(c)
  <2>1. \/ UNCHANGED <<disk, reply>>
        \/ pc[c] = "commit" /\ UNCHANGED disk
           /\ \E status \in {"idempotency_reuse", "conflict"} : Answer(c, status, Nil)
        \/ FirstCommit(c) /\ KeyUnused(Request[c]) /\ UNCHANGED reply
           /\ idem' = [idem EXCEPT ![Request[c].key] =
                [fingerprint |-> Fingerprint(Request[c]), response |-> draft[c].content]]
    BY <1>5 DEF Commit, FirstCommit
  <2> QED BY <2>1, AnswerTells, CommitApplies, Unseen DEF Serving, Promise!Next
<1>6. CASE Fetch(c)
  BY <1>6, AnswerTells DEF Fetch, PersistedAnswer, Carried, Carries, CarriedOut, Serving
<1>7. CASE StoreFails(c)
  BY <1>7, AnswerTells DEF StoreFails, Serving
<1> QED BY <1>1, <1>2, <1>3, <1>4, <1>5, <1>6, <1>7 DEF Advance

\* Exactly once: whoever races, retries or dies, every case is a ledger to
\* which effects are appended one at a time, each key takes effect at most
\* once, and every success is told with the answer recorded at its commit.
THEOREM ExactlyOnceKept == Spec => KeepsExactlyOnce
<1>1. Init => Promise!Init
  BY RequestFacts DEF Init, Promise!Init, Ledger, Recorded, Told
<1>2. TypeOK /\ Carried /\ ChainSound /\ Unanswered /\ [Next]_vars
        => [Promise!Next]_PromiseMapped
  <2> SUFFICES ASSUME TypeOK, Carried, ChainSound, Unanswered, [Next]_vars
               PROVE  [Promise!Next]_PromiseMapped
    OBVIOUS
  <2>1. CASE UNCHANGED vars
    BY <2>1, Unseen DEF vars, disk
  <2>2. ASSUME NEW p \in Processes, Crash(p) \/ Restart(p)
        PROVE  [Promise!Next]_PromiseMapped
    BY <2>2, Unseen DEF Crash, Restart
  <2> QED BY <2>1, <2>2, CallKeepsPromise DEF Next
<1> QED BY <1>1, <1>2, Typing, Chaining, NoEarlyAnswer, PTL
        DEF Spec, KeepsExactlyOnce, Promise!Spec, PromiseMapped
=============================================================================
