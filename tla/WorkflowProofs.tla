--------------------------- MODULE WorkflowProofs ---------------------------
(***************************************************************************)
(* Theorems about WorkflowLease, for any runs, workers and principals,     *)
(* whichever workers share a principal.                                    *)
(***************************************************************************)
EXTENDS WorkflowLease, FiniteSetTheorems, SequenceTheorems, TLAPS

\* Of a row and its audit rows.
RunInv(row, log) ==
  /\ WellFormed(row)
  /\ Tells(log, row)
  /\ row.status = "absent" => row.revision = 0 /\ row.attempt = 0
  /\ row.status = "queued" => row.revision = 1
  /\ row.status = "running" => row.attempt > 0
  /\ (log = <<>>) = (row.status \in {"absent", "queued"})

Holder(s) == s.pc \in {"handling", "reporting", "sent"}

\* Of a worker, given the rows: its receipt is of an update that was made, and
\* if the row was not updated since, it runs this worker's attempt; the row
\* of a claim in progress can still be claimed.
ProcInv(s, rows) ==
  /\ s.pc # "idle" => s.run \in Runs
  /\ Holder(s) =>
       /\ s.attempt > 0 /\ s.revision > 0 /\ s.revision <= rows[s.run].revision
       /\ s.revision = rows[s.run].revision =>
            rows[s.run].status = "running" /\ rows[s.run].attempt = s.attempt
  /\ s.pc \in {"reporting", "sent"} => s.intent \in Terminal
  /\ s.pc = "claiming" =>
       \/ rows[s.run].status = "queued"
       \/ rows[s.run].status = "running" /\ rows[s.run].lease = "expired"

\* Of two workers: no two receipts are of the same update, no two claims in
\* progress of the same row.
Apart(s, t) ==
  /\ Holder(s) /\ Holder(t) /\ s.run = t.run => s.revision # t.revision
  /\ s.pc = "claiming" /\ t.pc = "claiming" => s.run # t.run

IInv ==
  /\ runs \in [Runs -> Row]
  /\ audits \in [Runs -> Seq(AuditEvent)]
  /\ procs \in [Processes -> Process]
  /\ crashes \in 0 .. MaxCrashes
  /\ \A r \in Runs : RunInv(runs[r], audits[r])
  /\ \A p \in Processes : ProcInv(procs[p], runs)
  /\ \A p, q \in Processes : p # q => Apart(procs[p], procs[q])

-----------------------------------------------------------------------------
(* An audit row appended by the statement that updates the row keeps the   *)
(* log telling the row's life.                                             *)
LEMMA TellsOn ==
  ASSUME NEW row \in Row, NEW new \in Row, NEW log \in Seq(AuditEvent), NEW event \in AuditEvent,
         RunInv(row, log), row.status # "absent",
         event.from = row.status, event.to = new.status,
         new.revision = row.revision + 1, event.revision = new.revision,
         (event.reason = "workflow_lease_taken_over") = (row.status = "running" /\ new.status = "running"),
         new.attempt = row.attempt + (IF IsClaim(event) THEN 1 ELSE 0)
  PROVE  Tells(Append(log, event), new)
<1> DEFINE longer == Append(log, event)
           claims == {i \in 1 .. Len(log) : IsClaim(log[i])}
           more == {i \in 1 .. Len(longer) : IsClaim(longer[i])}
<1>1. /\ longer \in Seq(AuditEvent) /\ longer # <<>> /\ Len(longer) = Len(log) + 1
      /\ \A i \in 1 .. Len(log) : longer[i] = log[i]
      /\ longer[Len(log) + 1] = event
  BY AppendProperties
<1>2. Len(log) \in Nat /\ row.revision \in Nat
  BY DEF Row
<1>3. row.revision = Len(log) + 1
  <2>1. CASE log = <<>>
    BY <2>1 DEF RunInv
  <2>2. CASE log # <<>>
    BY <2>2 DEF RunInv, Tells
  <2> QED BY <2>1, <2>2
<1>4. ASSUME NEW i \in 1 .. Len(longer)
      PROVE  /\ longer[i].from = (IF i = 1 THEN "queued" ELSE longer[i-1].to)
             /\ longer[i].revision = i + 1
             /\ (longer[i].reason = "workflow_lease_taken_over") = (longer[i].from = "running" /\ longer[i].to = "running")
  <2>1. CASE i \in 1 .. Len(log)
    <3>1. longer[i] = log[i] /\ (i # 1 => longer[i-1] = log[i-1])
      BY <1>1, <1>2, <2>1
    <3> QED BY <2>1, <3>1 DEF RunInv, Tells
  <2>2. CASE i = Len(log) + 1
    <3>1. longer[i] = event
      BY <1>1, <2>2
    <3>2. event.from = (IF i = 1 THEN "queued" ELSE longer[i-1].to)
      <4>1. CASE log = <<>>
        BY <4>1, <2>2 DEF RunInv
      <4>2. CASE log # <<>>
        <5>1. i - 1 = Len(log) /\ i # 1 /\ i - 1 \in 1 .. Len(log)
          BY <4>2, <2>2, <1>2
        <5>2. longer[i-1] = log[Len(log)]
          BY <5>1, <1>1
        <5> QED BY <4>2, <5>1, <5>2 DEF RunInv, Tells
      <4> QED BY <4>1, <4>2
    <3>3. event.revision = i + 1
      BY <1>2, <1>3, <2>2
    <3> QED BY <3>1, <3>2, <3>3
  <2> QED BY <1>1, <1>2, <2>1, <2>2
<1>5. longer[Len(longer)].to = new.status /\ new.revision = Len(longer) + 1
  BY <1>1, <1>2, <1>3
<1>6. new.attempt = Cardinality(more)
  <2>1. IsFiniteSet(claims) /\ Cardinality(claims) = row.attempt
    <3>1. IsFiniteSet(1 .. Len(log))
      BY <1>2, FS_Interval
    <3>2. claims \subseteq 1 .. Len(log)
      OBVIOUS
    <3>3. IsFiniteSet(claims)
      BY <3>1, <3>2, FS_Subset
    <3>4. Cardinality(claims) = row.attempt
      BY DEF RunInv, Tells
    <3> QED BY <3>3, <3>4
  <2>2. Len(log) + 1 \notin claims
    BY <1>2
  <2>3. CASE IsClaim(event)
    <3>1. more = claims \cup {Len(log) + 1}
      BY <1>1, <1>2, <2>3
    <3>2. Cardinality(more) = Cardinality(claims) + 1
      BY <2>1, <2>2, <3>1, FS_AddElement
    <3> QED BY <2>1, <2>3, <3>2
  <2>4. CASE ~IsClaim(event)
    <3>1. more = claims
      BY <1>1, <1>2, <2>4
    <3>2. row.attempt \in Nat
      BY DEF Row
    <3>3. new.attempt = row.attempt
      BY <2>4, <3>2
    <3>4. Cardinality(more) = Cardinality(claims)
      BY <3>1, Zenon
    <3> QED BY <2>1, <3>3, <3>4, Zenon
  <2> QED BY <2>3, <2>4
<1>7. \A i \in 1 .. Len(longer) :
        /\ longer[i].from = (IF i = 1 THEN "queued" ELSE longer[i-1].to)
        /\ longer[i].revision = i + 1
        /\ (longer[i].reason = "workflow_lease_taken_over") = (longer[i].from = "running" /\ longer[i].to = "running")
  BY <1>4
<1> QED BY <1>5, <1>6, <1>7, Zenon DEF Tells

-----------------------------------------------------------------------------
(* The ways a step changes the state. *)

\* One worker moves, the rows stay.
LEMMA WorkerMoves ==
  ASSUME IInv, NEW p \in Processes, NEW s \in Process, ProcInv(s, runs),
         \A q \in Processes : q # p => Apart(s, procs[q]) /\ Apart(procs[q], s),
         procs' = [procs EXCEPT ![p] = s], UNCHANGED <<runs, audits>>, crashes' \in 0 .. MaxCrashes
  PROVE  IInv'
<1>1. procs' \in [Processes -> Process]
  BY DEF IInv
<1>2. ASSUME NEW q \in Processes PROVE ProcInv(procs'[q], runs')
  BY DEF IInv
<1>3. ASSUME NEW q \in Processes, NEW t \in Processes, q # t PROVE Apart(procs'[q], procs'[t])
  BY <1>3 DEF IInv
<1> QED BY <1>1, <1>2, <1>3 DEF IInv

\* A worker that keeps its receipt, or drops it, keeps what is known of it.
LEMMA ReceiptKept ==
  ASSUME IInv, NEW p \in Processes, NEW s \in Process, Holder(procs[p]),
         \/ s.pc = "idle"
         \/ /\ Holder(s) /\ s.run = procs[p].run /\ s.revision = procs[p].revision
            /\ s.attempt = procs[p].attempt
            /\ s.pc \in {"reporting", "sent"} => s.intent \in Terminal
  PROVE  /\ ProcInv(s, runs)
         /\ \A q \in Processes : q # p => Apart(s, procs[q]) /\ Apart(procs[q], s)
<1>1. ProcInv(procs[p], runs)
  BY DEF IInv
<1>2. \A q \in Processes : q # p => Apart(procs[p], procs[q]) /\ Apart(procs[q], procs[p])
  BY DEF IInv
<1>3. CASE s.pc = "idle"
  BY <1>3 DEF ProcInv, Apart, Holder
<1>4. CASE s.pc # "idle"
  <2>1. Holder(s) /\ s.run = procs[p].run /\ s.revision = procs[p].revision /\ s.attempt = procs[p].attempt
    BY <1>4
  <2>2. s.pc \in {"reporting", "sent"} => s.intent \in Terminal
    BY <1>4
  <2>3. ProcInv(s, runs)
    BY <1>1, <2>1, <2>2 DEF ProcInv, Holder
  <2>4. ASSUME NEW q \in Processes, q # p PROVE Apart(s, procs[q]) /\ Apart(procs[q], s)
    BY <1>2, <2>1, <2>4 DEF Apart, Holder
  <2> QED BY <2>3, <2>4
<1> QED BY <1>3, <1>4

\* A worker that goes idle is consistent with everything.
LEMMA WorkerIdles ==
  ASSUME IInv, NEW p \in Processes
  PROVE  /\ Idle \in Process
         /\ ProcInv(Idle, runs)
         /\ \A q \in Processes : q # p => Apart(Idle, procs[q]) /\ Apart(procs[q], Idle)
BY DEF Idle, Process, ProcInv, Apart, Holder

\* One row is replaced, together with its log.
LEMMA RowReplaced ==
  ASSUME IInv, NEW r \in Runs, NEW row \in Row, NEW log \in Seq(AuditEvent), RunInv(row, log),
         runs' = [runs EXCEPT ![r] = row], audits' = [audits EXCEPT ![r] = log],
         UNCHANGED crashes
  PROVE  /\ runs' \in [Runs -> Row]
         /\ audits' \in [Runs -> Seq(AuditEvent)]
         /\ crashes' \in 0 .. MaxCrashes
         /\ \A w \in Runs : RunInv(runs'[w], audits'[w])
<1>1. runs' \in [Runs -> Row] /\ audits' \in [Runs -> Seq(AuditEvent)]
  BY DEF IInv
<1>2. ASSUME NEW w \in Runs PROVE RunInv(runs'[w], audits'[w])
  BY DEF IInv
<1> QED BY <1>1, <1>2 DEF IInv

\* What is known of a worker survives the update of a row it is not claiming:
\* its receipt, if of that row, is now of an older revision.
LEMMA Overtaken ==
  ASSUME IInv, NEW p \in Processes, NEW r \in Runs, NEW row \in Row,
         row.revision = runs[r].revision + 1,
         ~(procs[p].pc = "claiming" /\ procs[p].run = r)
  PROVE  ProcInv(procs[p], [runs EXCEPT ![r] = row])
<1>1. ProcInv(procs[p], runs) /\ procs[p] \in Process /\ runs \in [Runs -> Row]
  BY DEF IInv
<1>2. runs[r].revision \in Nat
  BY <1>1 DEF Row
<1>3. CASE procs[p].run = r
  <2>1. procs[p].revision \in Nat /\ procs[p].attempt \in Nat
    BY <1>1 DEF Process
  <2>2. [runs EXCEPT ![r] = row][r] = row
    BY <1>1
  <2>3. Holder(procs[p]) => procs[p].attempt > 0 /\ procs[p].revision > 0 /\ procs[p].revision < row.revision
    BY <1>1, <1>2, <1>3, <2>1 DEF ProcInv
  <2>4. procs[p].pc # "claiming"
    BY <1>3
  <2> QED BY <1>1, <1>2, <1>3, <2>1, <2>2, <2>3, <2>4 DEF ProcInv
<1>4. CASE procs[p].run # r
  <2>1. procs[p].pc # "idle" => [runs EXCEPT ![r] = row][procs[p].run] = runs[procs[p].run]
    BY <1>1, <1>4 DEF ProcInv
  <2> QED BY <1>1, <2>1 DEF ProcInv, Holder
<1> QED BY <1>3, <1>4

-----------------------------------------------------------------------------
(* The inductive invariant, step by step. *)

LEMMA InitHolds == Init => IInv
<1> SUFFICES ASSUME Init PROVE IInv
  OBVIOUS
<1>1. NoRow \in Row /\ Idle \in Process /\ <<>> \in Seq(AuditEvent)
  BY DEF NoRow, Row, Idle, Process, Status, Terminal
<1>2. RunInv(NoRow, <<>>)
  <2>1. WellFormed(NoRow)
    BY <1>1 DEF WellFormed, NoRow
  <2>2. Tells(<<>>, NoRow)
    <3>1. {i \in 1 .. Len(<<>>) : IsClaim(<<>>[i])} = {}
      OBVIOUS
    <3>2. Cardinality({i \in 1 .. Len(<<>>) : IsClaim(<<>>[i])}) = 0
      BY <3>1, FS_EmptySet, Zenon
    <3> QED BY <3>2 DEF Tells, NoRow
  <2> QED BY <2>1, <2>2 DEF RunInv, NoRow
<1>3. \A rows : ProcInv(Idle, rows) /\ Apart(Idle, Idle)
  BY DEF ProcInv, Apart, Holder, Idle
<1>4. 0 \in 0 .. MaxCrashes
  BY WorkflowAssumption
<1> QED BY <1>1, <1>2, <1>3, <1>4 DEF Init, IInv

LEMMA EnqueueKeeps ==
  ASSUME IInv, NEW r \in Runs, Enqueue(r)
  PROVE  IInv'
<1>1. /\ runs[r] \in Row /\ runs[r].status = "absent" /\ runs \in [Runs -> Row]
      /\ RunInv(runs[r], audits[r]) /\ audits \in [Runs -> Seq(AuditEvent)]
  BY DEF IInv, Enqueue
<1> DEFINE old == runs[r]
           row == FreshRow
<1>2. old.revision = 0 /\ audits[r] = <<>>
  BY <1>1 DEF RunInv
<1>3. row \in Row
  BY DEF FreshRow, Row, Status
<1>4. RunInv(row, audits[r])
  <2>1. WellFormed(row)
    BY <1>3 DEF WellFormed, FreshRow
  <2>2. {i \in 1 .. Len(<<>>) : IsClaim(<<>>[i])} = {}
    OBVIOUS
  <2>3. Cardinality({i \in 1 .. Len(<<>>) : IsClaim(<<>>[i])}) = 0
    BY <2>2, FS_EmptySet, Zenon
  <2>4. Tells(<<>>, row)
    BY <2>3 DEF Tells, FreshRow
  <2> QED BY <1>2, <2>1, <2>4 DEF RunInv, FreshRow
<1>5. runs' = [runs EXCEPT ![r] = row]
  BY DEF Enqueue
<1>6. audits' = [audits EXCEPT ![r] = audits[r]]
  BY <1>1 DEF Enqueue
<1>7. UNCHANGED <<procs, crashes>>
  BY DEF Enqueue
<1>8. ASSUME NEW p \in Processes PROVE ProcInv(procs'[p], runs')
  <2>1. ~(procs[p].pc = "claiming" /\ procs[p].run = r)
    BY <1>1 DEF IInv, ProcInv
  <2>2. row.revision = old.revision + 1
    BY <1>2 DEF FreshRow
  <2> HIDE DEF row
  <2>3. ProcInv(procs[p], [runs EXCEPT ![r] = row])
    BY <1>3, <2>1, <2>2, Overtaken
  <2> QED BY <1>5, <1>7, <2>3
<1> HIDE DEF row
<1>9. /\ runs' \in [Runs -> Row] /\ audits' \in [Runs -> Seq(AuditEvent)]
      /\ crashes' \in 0 .. MaxCrashes
      /\ \A w \in Runs : RunInv(runs'[w], audits'[w])
  BY <1>1, <1>3, <1>4, <1>5, <1>6, <1>7, RowReplaced
<1> QED BY <1>7, <1>8, <1>9 DEF IInv

LEMMA LockCandidateKeeps ==
  ASSUME IInv, NEW p \in Processes, NEW r \in Runs, LockCandidate(p, r)
  PROVE  IInv'
<1> DEFINE s == [pc |-> "claiming", run |-> r, revision |-> 0, attempt |-> 0, intent |-> "none", timely |-> FALSE]
<1>1. procs' = [procs EXCEPT ![p] = s] /\ UNCHANGED <<runs, audits, crashes>>
  BY DEF LockCandidate
<1>2. s \in Process
  BY DEF Process
<1>3. ProcInv(s, runs)
  BY DEF ProcInv, Holder, LockCandidate, Claimable
<1>4. ASSUME NEW q \in Processes, q # p PROVE Apart(s, procs[q]) /\ Apart(procs[q], s)
  BY DEF Apart, Holder, LockCandidate, Locked
<1>5. crashes' \in 0 .. MaxCrashes
  BY <1>1 DEF IInv
<1> HIDE DEF s
<1> QED BY <1>1, <1>2, <1>3, <1>4, <1>5, WorkerMoves

LEMMA CommitClaimKeeps ==
  ASSUME IInv, NEW p \in Processes, NEW answered \in BOOLEAN, CommitClaim(p, answered)
  PROVE  IInv'
<1> DEFINE r == procs[p].run
           old == runs[r]
           row == ClaimedRow(old, IdOf[p])
           reason == IF old.status = "running" THEN "workflow_lease_taken_over" ELSE "workflow_claimed"
           event == [reason |-> reason, from |-> old.status, to |-> row.status, revision |-> row.revision]
           s == IF answered
                THEN [pc |-> "handling", run |-> r, revision |-> row.revision,
                      attempt |-> row.attempt, intent |-> "none", timely |-> FALSE]
                ELSE Idle
<1>1. /\ procs[p].pc = "claiming" /\ r \in Runs /\ ProcInv(procs[p], runs)
      /\ old \in Row /\ old.status \in {"queued", "running"}
      /\ audits[r] \in Seq(AuditEvent) /\ RunInv(old, audits[r])
      /\ runs \in [Runs -> Row]
  BY DEF IInv, ProcInv, CommitClaim
<1>2. old.revision \in Nat /\ old.attempt \in Nat
  BY <1>1 DEF Row
<1>3. IdOf[p] \in Principals /\ IdOf[p] # NoOne
  BY WorkflowAssumption
<1>4. row \in Row
  BY <1>2, <1>3 DEF ClaimedRow, Row, Status
<1>5. row.revision = old.revision + 1 /\ row.attempt = old.attempt + 1 /\ row.status = "running"
  BY DEF ClaimedRow
<1>6. runs' = [runs EXCEPT ![r] = row] /\ UNCHANGED crashes /\ procs' = [procs EXCEPT ![p] = s]
  BY DEF CommitClaim
<1>7. runs'[r] = row
  BY <1>1, <1>6
<1>8. audits' = [audits EXCEPT ![r] = Append(audits[r], event)]
  <2>1. Audited(r, reason)
    BY Zenon DEF CommitClaim
  <2> QED BY <1>7, <2>1 DEF Audited
<1>9. event \in AuditEvent /\ Append(audits[r], event) \in Seq(AuditEvent)
  <2>1. event \in AuditEvent
    BY <1>1, <1>2, <1>5 DEF AuditEvent, Reason, Status, Row
  <2> QED BY <1>1, <2>1, AppendProperties
<1>10. RunInv(row, Append(audits[r], event))
  <2>1. WellFormed(row)
    BY <1>3, <1>4 DEF WellFormed, ClaimedRow
  <2>2. IsClaim(event)
    BY DEF IsClaim
  <2>3. (event.reason = "workflow_lease_taken_over") = (old.status = "running" /\ row.status = "running")
    BY <1>5
  <2>4. row.attempt = old.attempt + (IF IsClaim(event) THEN 1 ELSE 0)
    BY <1>5, <2>2
  <2>5. old.status # "absent" /\ event.from = old.status /\ event.to = row.status /\ event.revision = row.revision
    BY <1>1
  <2> HIDE DEF event, row
  <2>6. Tells(Append(audits[r], event), row)
    BY <1>1, <1>4, <1>5, <1>9, <2>3, <2>4, <2>5, TellsOn
  <2>7. Append(audits[r], event) # <<>>
    BY <1>1, <1>9, AppendProperties
  <2> QED BY <1>2, <1>5, <2>1, <2>6, <2>7 DEF RunInv
<1>11. s \in Process
  BY <1>1, <1>2, <1>5 DEF Process, Idle
<1>12. procs' \in [Processes -> Process]
  BY <1>6, <1>11 DEF IInv
<1>13. ASSUME NEW q \in Processes PROVE ProcInv(procs'[q], runs')
  <2>1. CASE q = p
    <3>1. procs'[q] = s
      BY <1>6, <2>1 DEF IInv
    <3>2. ProcInv(s, runs')
      BY <1>1, <1>2, <1>5, <1>7 DEF ProcInv, Holder, Idle
    <3> QED BY <3>1, <3>2
  <2>2. CASE q # p
    <3>1. procs'[q] = procs[q]
      BY <1>6, <2>2 DEF IInv
    <3>2. ~(procs[q].pc = "claiming" /\ procs[q].run = r)
      BY <1>1, <2>2 DEF IInv, Apart
    <3> HIDE DEF row
    <3>3. ProcInv(procs[q], [runs EXCEPT ![r] = row])
      BY <1>1, <1>4, <1>5, <3>2, Overtaken
    <3> QED BY <1>6, <3>1, <3>3
  <2> QED BY <2>1, <2>2
<1>14. ASSUME NEW q \in Processes, q # p PROVE Apart(s, procs[q]) /\ Apart(procs[q], s)
  <2>1. ProcInv(procs[q], runs) /\ procs[q] \in Process
    BY DEF IInv
  <2>2. Holder(procs[q]) /\ procs[q].run = r => procs[q].revision < row.revision
    BY <1>2, <1>5, <2>1 DEF ProcInv, Process
  <2>3. procs[q].revision \in Nat /\ row.revision \in Nat
    BY <2>1, <1>2, <1>5 DEF Process
  <2> HIDE DEF row
  <2> QED BY <2>2, <2>3 DEF Apart, Holder, Idle
<1>15. ASSUME NEW q \in Processes, NEW t \in Processes, q # t PROVE Apart(procs'[q], procs'[t])
  <2> HIDE DEF s
  <2> QED BY <1>6, <1>14, <1>15 DEF IInv
<1> HIDE DEF row, event, s, old
<1>16. /\ runs' \in [Runs -> Row] /\ audits' \in [Runs -> Seq(AuditEvent)]
       /\ crashes' \in 0 .. MaxCrashes
       /\ \A w \in Runs : RunInv(runs'[w], audits'[w])
  BY <1>1, <1>4, <1>6, <1>8, <1>9, <1>10, RowReplaced
<1> QED BY <1>12, <1>13, <1>15, <1>16 DEF IInv

LEMMA HandlerEndsKeeps ==
  ASSUME IInv, NEW p \in Processes, HandlerEnds(p)
  PROVE  IInv'
<1>1. procs[p] \in Process /\ procs[p].pc = "handling"
  BY DEF IInv, HandlerEnds
<1>2. PICK intent \in Terminal :
        procs' = [procs EXCEPT ![p] =
          [pc |-> "reporting", run |-> procs[p].run, revision |-> procs[p].revision,
           attempt |-> procs[p].attempt, intent |-> intent, timely |-> FALSE]]
  BY DEF HandlerEnds
<1> DEFINE s == [pc |-> "reporting", run |-> procs[p].run, revision |-> procs[p].revision,
                 attempt |-> procs[p].attempt, intent |-> intent, timely |-> FALSE]
<1>3. s \in Process /\ Holder(procs[p])
  BY <1>1 DEF Process, Holder
<1>4. Holder(s) /\ s.run = procs[p].run /\ s.revision = procs[p].revision
      /\ s.attempt = procs[p].attempt /\ s.intent \in Terminal
  BY DEF Holder
<1>5. UNCHANGED <<runs, audits>> /\ crashes' \in 0 .. MaxCrashes /\ procs' = [procs EXCEPT ![p] = s]
  BY <1>2 DEF HandlerEnds, IInv
<1> HIDE DEF s
<1>6. ProcInv(s, runs) /\ \A q \in Processes : q # p => Apart(s, procs[q]) /\ Apart(procs[q], s)
  BY <1>3, <1>4, ReceiptKept
<1> QED BY <1>3, <1>5, <1>6, WorkerMoves

LEMMA SendReportKeeps ==
  ASSUME IInv, NEW p \in Processes, SendReport(p)
  PROVE  IInv'
<1> DEFINE s == [pc |-> "sent", run |-> procs[p].run, revision |-> procs[p].revision,
                 attempt |-> procs[p].attempt, intent |-> procs[p].intent,
                 timely |-> runs[procs[p].run].lease = "live"]
<1>1. procs[p] \in Process /\ procs[p].pc = "reporting" /\ ProcInv(procs[p], runs)
  BY DEF IInv, SendReport
<1>2. s \in Process /\ Holder(procs[p])
  BY <1>1 DEF Process, Holder
<1>3. Holder(s) /\ s.run = procs[p].run /\ s.revision = procs[p].revision
      /\ s.attempt = procs[p].attempt /\ s.intent \in Terminal
  BY <1>1 DEF Holder, ProcInv
<1>4. UNCHANGED <<runs, audits>> /\ crashes' \in 0 .. MaxCrashes /\ procs' = [procs EXCEPT ![p] = s]
  BY DEF SendReport, IInv
<1> HIDE DEF s
<1>5. ProcInv(s, runs) /\ \A q \in Processes : q # p => Apart(s, procs[q]) /\ Apart(procs[q], s)
  BY <1>2, <1>3, ReceiptKept
<1> QED BY <1>2, <1>4, <1>5, WorkerMoves

\* The worker after an error has its receipt still, or none.
LEMMA AfterErrorKept ==
  ASSUME IInv, NEW p \in Processes, Holder(procs[p])
  PROVE  /\ AfterError(p) \in Process
         /\ \/ AfterError(p) = Idle
            \/ /\ Holder(AfterError(p)) /\ AfterError(p).run = procs[p].run
               /\ AfterError(p).revision = procs[p].revision
               /\ AfterError(p).attempt = procs[p].attempt
               /\ AfterError(p).intent \in Terminal
<1>1. procs[p] \in Process
  BY DEF IInv
<1>2. CASE procs[p].intent = "succeeded"
  <2> DEFINE s == [pc |-> "reporting", run |-> procs[p].run, revision |-> procs[p].revision,
                   attempt |-> procs[p].attempt, intent |-> "failed", timely |-> FALSE]
  <2>1. AfterError(p) = s
    BY <1>2 DEF AfterError
  <2>2. s \in Process
    BY <1>1 DEF Process, Terminal
  <2> QED BY <2>1, <2>2 DEF Holder, Terminal
<1>3. CASE procs[p].intent # "succeeded"
  <2>1. AfterError(p) = Idle
    BY <1>3 DEF AfterError
  <2> QED BY <2>1, WorkerIdles
<1> QED BY <1>2, <1>3

LEMMA ReportFailsKeeps ==
  ASSUME IInv, NEW p \in Processes, ReportFails(p)
  PROVE  IInv'
<1>1. Holder(procs[p])
  BY DEF Holder, ReportFails
<1>2. UNCHANGED <<runs, audits>> /\ crashes' \in 0 .. MaxCrashes /\ procs' = [procs EXCEPT ![p] = AfterError(p)]
  BY DEF ReportFails, IInv
<1>3. AfterError(p) \in Process
  BY <1>1, AfterErrorKept
<1>4. Idle.pc = "idle"
  BY DEF Idle
<1>5. /\ ProcInv(AfterError(p), runs)
      /\ \A q \in Processes : q # p => Apart(AfterError(p), procs[q]) /\ Apart(procs[q], AfterError(p))
  BY <1>1, <1>3, <1>4, AfterErrorKept, ReceiptKept
<1> QED BY <1>2, <1>3, <1>5, WorkerMoves

LEMMA CrashKeeps ==
  ASSUME IInv, NEW p \in Processes, Crash(p)
  PROVE  IInv'
<1>1. UNCHANGED <<runs, audits>> /\ procs' = [procs EXCEPT ![p] = Idle]
  BY DEF Crash
<1>2. crashes' \in 0 .. MaxCrashes
  BY WorkflowAssumption DEF Crash, IInv
<1> QED BY <1>1, <1>2, WorkerIdles, WorkerMoves

LEMMA ReportKeeps ==
  ASSUME IInv, NEW p \in Processes, NEW answered \in BOOLEAN, Report(p, answered)
  PROVE  IInv'
<1> DEFINE r == procs[p].run
           old == runs[r]
           row == FinishedRow(p)
           event == [reason |-> procs[p].intent, from |-> old.status, to |-> row.status, revision |-> row.revision]
           s == IF answered THEN Idle ELSE AfterError(p)
<1>1. /\ procs[p].pc = "sent" /\ r \in Runs /\ ProcInv(procs[p], runs) /\ procs[p] \in Process
      /\ old \in Row /\ audits[r] \in Seq(AuditEvent) /\ RunInv(old, audits[r])
      /\ runs \in [Runs -> Row]
  BY DEF IInv, ProcInv, Report
<1>2. /\ procs[p].revision = old.revision /\ old.status = "running"
      /\ procs[p].attempt > 0 /\ procs[p].intent \in Terminal
  BY <1>1 DEF Report, ReceiptHolds, ProcInv, Holder
<1>3. old.revision \in Nat /\ old.attempt \in Nat /\ procs[p].attempt \in Nat
  BY <1>1 DEF Row, Process
<1>4. row \in Row
  BY <1>2, <1>3 DEF FinishedRow, Row, Status
<1>5. row.revision = old.revision + 1 /\ row.attempt = old.attempt /\ row.status = procs[p].intent
  BY <1>2 DEF FinishedRow
<1>6. runs' = [runs EXCEPT ![r] = row] /\ UNCHANGED crashes /\ procs' = [procs EXCEPT ![p] = s]
  BY DEF Report
<1>7. runs'[r] = row
  BY <1>1, <1>6
<1>8. audits' = [audits EXCEPT ![r] = Append(audits[r], event)]
  <2>1. Audited(r, procs[p].intent)
    BY Zenon DEF Report
  <2> QED BY <1>7, <2>1 DEF Audited
<1>9. event \in AuditEvent /\ Append(audits[r], event) \in Seq(AuditEvent)
  <2>1. event \in AuditEvent
    BY <1>2, <1>3, <1>5 DEF AuditEvent, Reason, Status
  <2> QED BY <1>1, <2>1, AppendProperties
<1>10. RunInv(row, Append(audits[r], event))
  <2>1. WellFormed(row)
    BY <1>2, <1>3, <1>4 DEF WellFormed, FinishedRow, Terminal
  <2>2. ~IsClaim(event)
    BY <1>2 DEF IsClaim, Terminal
  <2>3. (event.reason = "workflow_lease_taken_over") = (old.status = "running" /\ row.status = "running")
    BY <1>2, <1>5 DEF Terminal
  <2>4. row.attempt = old.attempt + (IF IsClaim(event) THEN 1 ELSE 0)
    BY <1>3, <1>5, <2>2
  <2>5. old.status # "absent" /\ event.from = old.status /\ event.to = row.status /\ event.revision = row.revision
    BY <1>2
  <2> HIDE DEF event, row
  <2>6. Tells(Append(audits[r], event), row)
    BY <1>1, <1>4, <1>5, <1>9, <2>3, <2>4, <2>5, TellsOn
  <2>7. Append(audits[r], event) # <<>>
    BY <1>1, <1>9, AppendProperties
  <2> QED BY <1>2, <1>5, <2>1, <2>6, <2>7 DEF RunInv, Terminal
<1>11. s \in Process
  BY <1>1, AfterErrorKept, WorkerIdles DEF Holder
<1>12. procs' \in [Processes -> Process]
  <2> HIDE DEF s
  <2> QED BY <1>6, <1>11 DEF IInv
<1>13. \/ s = Idle
       \/ /\ Holder(s) /\ s.run = r /\ s.revision = old.revision
          /\ s.attempt = procs[p].attempt /\ s.intent \in Terminal
  BY <1>1, <1>2, AfterErrorKept DEF Holder
<1>14. Idle.pc = "idle"
  BY DEF Idle
<1>15. ASSUME NEW q \in Processes PROVE ProcInv(procs'[q], runs')
  <2> HIDE DEF row
  <2>1. CASE q = p
    <3>1. procs'[q] = s
      BY <1>6, <2>1 DEF IInv
    <3> HIDE DEF s
    <3>2. ProcInv(s, runs')
      <4>1. CASE s = Idle
        BY <1>14, <4>1 DEF ProcInv, Holder
      <4>2. CASE s # Idle
        <5>1. Holder(s) /\ s.run = r /\ s.revision = old.revision /\ s.attempt = procs[p].attempt /\ s.intent \in Terminal
          BY <1>13, <4>2
        <5>2. old.revision > 0
          BY <1>1, <1>2 DEF ProcInv, Holder
        <5> QED BY <1>1, <1>2, <1>3, <1>5, <1>7, <5>1, <5>2 DEF ProcInv, Holder
      <4> QED BY <4>1, <4>2
    <3> QED BY <3>1, <3>2
  <2>2. CASE q # p
    <3>1. procs'[q] = procs[q]
      BY <1>6, <2>2 DEF IInv
    <3>2. ~(procs[q].pc = "claiming" /\ procs[q].run = r)
      BY DEF Report, Locked
    <3>3. ProcInv(procs[q], [runs EXCEPT ![r] = row])
      BY <1>1, <1>4, <1>5, <3>2, Overtaken
    <3> QED BY <1>6, <3>1, <3>3
  <2> QED BY <2>1, <2>2
<1>16. ASSUME NEW q \in Processes, q # p PROVE Apart(s, procs[q]) /\ Apart(procs[q], s)
  <2> HIDE DEF s
  <2>1. Holder(procs[p])
    BY <1>1 DEF Holder
  <2>2. \/ s.pc = "idle"
        \/ /\ Holder(s) /\ s.run = procs[p].run /\ s.revision = procs[p].revision
           /\ s.attempt = procs[p].attempt
           /\ s.pc \in {"reporting", "sent"} => s.intent \in Terminal
    BY <1>2, <1>13, <1>14
  <2>3. \A t \in Processes : t # p => Apart(s, procs[t]) /\ Apart(procs[t], s)
    BY <1>11, <2>1, <2>2, ReceiptKept
  <2> QED BY <1>16, <2>3
<1>17. ASSUME NEW q \in Processes, NEW t \in Processes, q # t PROVE Apart(procs'[q], procs'[t])
  <2> HIDE DEF s
  <2> QED BY <1>6, <1>16, <1>17 DEF IInv
<1> HIDE DEF row, event, s, old
<1>18. /\ runs' \in [Runs -> Row] /\ audits' \in [Runs -> Seq(AuditEvent)]
       /\ crashes' \in 0 .. MaxCrashes
       /\ \A w \in Runs : RunInv(runs'[w], audits'[w])
  BY <1>1, <1>4, <1>6, <1>8, <1>9, <1>10, RowReplaced
<1> QED BY <1>12, <1>15, <1>17, <1>18 DEF IInv

LEMMA LeaseExpiresKeeps ==
  ASSUME IInv, NEW r \in Runs, LeaseExpires(r)
  PROVE  IInv'
<1> DEFINE old == runs[r]
           row == [old EXCEPT !.lease = "expired"]
<1>1. /\ old \in Row /\ old.lease = "live" /\ runs \in [Runs -> Row]
      /\ RunInv(old, audits[r]) /\ audits \in [Runs -> Seq(AuditEvent)]
  BY DEF IInv, LeaseExpires
<1>2. old.status = "running"
  BY <1>1 DEF RunInv, WellFormed
<1>3. row \in Row
  BY <1>1 DEF Row
<1>4. /\ row.status = old.status /\ row.revision = old.revision /\ row.attempt = old.attempt
      /\ row.lease_owner = old.lease_owner /\ row.output = old.output /\ row.error = old.error
      /\ row.lease = "expired"
  BY <1>1 DEF Row
<1>5. runs' = [runs EXCEPT ![r] = row] /\ audits' = [audits EXCEPT ![r] = audits[r]] /\ UNCHANGED <<procs, crashes>>
  BY <1>1 DEF LeaseExpires
<1> HIDE DEF row
<1>6. RunInv(row, audits[r])
  BY <1>1, <1>2, <1>3, <1>4 DEF RunInv, WellFormed, Tells
<1>7. ASSUME NEW p \in Processes PROVE ProcInv(procs'[p], runs')
  <2>1. ProcInv(procs[p], runs)
    BY DEF IInv
  <2>2. \A w \in Runs : /\ runs'[w].status = runs[w].status /\ runs'[w].revision = runs[w].revision
                        /\ runs'[w].attempt = runs[w].attempt
                        /\ runs[w].lease = "expired" => runs'[w].lease = "expired"
    BY <1>1, <1>4, <1>5
  <2> QED BY <1>5, <2>1, <2>2 DEF ProcInv, Holder
<1>8. /\ runs' \in [Runs -> Row] /\ audits' \in [Runs -> Seq(AuditEvent)]
      /\ crashes' \in 0 .. MaxCrashes
      /\ \A w \in Runs : RunInv(runs'[w], audits'[w])
  BY <1>1, <1>3, <1>5, <1>6, RowReplaced
<1> QED BY <1>5, <1>7, <1>8 DEF IInv

LEMMA NextKeeps == IInv /\ [Next]_vars => IInv'
<1>1. ASSUME IInv, Next PROVE IInv'
  BY <1>1, EnqueueKeeps, LockCandidateKeeps, CommitClaimKeeps, HandlerEndsKeeps, SendReportKeeps,
     ReportKeeps, ReportFailsKeeps, CrashKeeps, LeaseExpiresKeeps DEF Next
<1>2. ASSUME IInv, UNCHANGED vars PROVE IInv'
  BY <1>2 DEF IInv, vars
<1> QED BY <1>1, <1>2

THEOREM Invariance == Spec => []IInv
BY InitHolds, NextKeeps, PTL DEF Spec

-----------------------------------------------------------------------------
(* The rows stay what workflowRunSchema wants, although no statement is     *)
(* checked against it as a whole.                                           *)
THEOREM TypeCorrect == Spec => []TypeOK
<1>1. IInv => TypeOK
  BY DEF IInv, TypeOK, RunInv, ProcInv
<1> QED BY <1>1, Invariance, PTL

(* At most one of all receipts of a run is accepted, whoever shares a       *)
(* principal: what tells receipts apart is the revision.                    *)
THEOREM OneValidReceiptAlways == Spec => []OneValidReceipt
<1>1. IInv => OneValidReceipt
  BY DEF IInv, OneValidReceipt, ReceiptHolds, HasReceipt, Apart, Holder
<1> QED BY <1>1, Invariance, PTL

(* The audit rows of a run tell every update of it, in order.               *)
THEOREM AuditChainAlways == Spec => []AuditChain
<1>1. IInv => AuditChain
  BY DEF IInv, AuditChain, RunInv
<1> QED BY <1>1, Invariance, PTL

(* A live lease keeps every other worker away from the row.                 *)
THEOREM LeaseRespectedAlways == Spec => LeaseRespected
<1>1. ASSUME IInv, Next, NEW r \in Runs, runs[r].lease = "live", runs'[r] # runs[r]
      PROVE  \/ runs'[r].lease = "expired" /\ runs'[r].attempt = runs[r].attempt
             \/ \E p \in Processes : /\ HasReceipt(p) /\ procs[p].run = r
                                     /\ procs[p].revision = runs[r].revision
                                     /\ runs'[r].status \in Terminal
  <2>1. /\ runs \in [Runs -> Row] /\ WellFormed(runs[r])
        /\ \A p \in Processes : procs[p] \in Process /\ ProcInv(procs[p], runs)
    <3>1. IInv
      BY <1>1
    <3>2. RunInv(runs[r], audits[r])
      BY <3>1 DEF IInv
    <3>3. WellFormed(runs[r])
      BY <3>2 DEF RunInv
    <3> QED BY <3>1, <3>3 DEF IInv
  <2>2. runs[r].status = "running"
    BY <1>1, <2>1 DEF WellFormed
  <2>3. ASSUME NEW w \in Runs, Enqueue(w) PROVE FALSE
    BY <1>1, <2>2, <2>3 DEF Enqueue, IInv
  <2>4. ASSUME NEW w \in Runs, LeaseExpires(w)
        PROVE runs'[r].lease = "expired" /\ runs'[r].attempt = runs[r].attempt
    <3>1. w = r
      BY <1>1, <2>4 DEF LeaseExpires, IInv
    <3> QED BY <2>1, <2>4, <3>1 DEF LeaseExpires, Row
  <2>5. ASSUME NEW p \in Processes, NEW answered \in BOOLEAN, CommitClaim(p, answered) PROVE FALSE
    <3>1. procs[p].run = r
      BY <1>1, <2>1, <2>5 DEF CommitClaim, ProcInv
    <3> QED BY <1>1, <2>1, <2>2, <2>5, <3>1 DEF CommitClaim, ProcInv
  <2>6. ASSUME NEW p \in Processes, NEW answered \in BOOLEAN, Report(p, answered)
        PROVE /\ HasReceipt(p) /\ procs[p].run = r
              /\ procs[p].revision = runs[r].revision
              /\ runs'[r].status \in Terminal
    <3>1. procs[p].run = r /\ HasReceipt(p)
      BY <1>1, <2>1, <2>6 DEF Report, HasReceipt
    <3>2. procs[p].intent \in Terminal /\ procs[p].revision = runs[r].revision
      BY <2>1, <2>6, <3>1 DEF Report, ProcInv, ReceiptHolds
    <3>3. runs'[r] = FinishedRow(p)
      BY <2>1, <2>6, <3>1 DEF Report
    <3> QED BY <3>1, <3>2, <3>3 DEF FinishedRow
  <2>7. ASSUME NEW p \in Processes,
               \/ \E w \in Runs : LockCandidate(p, w)
               \/ HandlerEnds(p) \/ SendReport(p) \/ ReportFails(p) \/ Crash(p)
        PROVE FALSE
    <3>1. runs' = runs
      BY <2>7 DEF LockCandidate, HandlerEnds, SendReport, ReportFails, Crash
    <3> QED BY <1>1, <3>1
  <2> QED BY <1>1, <2>3, <2>4, <2>5, <2>6, <2>7 DEF Next
<1>2. IInv /\ [Next]_vars =>
        [\A r \in Runs : runs[r].lease = "live" /\ runs'[r] # runs[r] =>
           \/ runs'[r].lease = "expired" /\ runs'[r].attempt = runs[r].attempt
           \/ \E p \in Processes : /\ HasReceipt(p) /\ procs[p].run = r
                                   /\ procs[p].revision = runs[r].revision
                                   /\ runs'[r].status \in Terminal]_vars
  BY <1>1
<1> QED BY <1>2, Invariance, PTL DEF Spec, LeaseRespected

-----------------------------------------------------------------------------
(* The refinement: WorkflowLease implements WorkflowPromise. *)

LEMMA InitPromise == Init => Promise!Init
BY DEF Init, NoRow, ResultOf, Terminal, Promise!Init, Promise!Unsettled

\* An update that changes neither a row's attempts nor what it says of its run is a stutter.
LEMMA Stutter ==
  ASSUME NEW r \in Runs, runs \in [Runs -> Row], NEW row, runs' = [runs EXCEPT ![r] = row],
         row.attempt = runs[r].attempt, ResultOf(row) = ResultOf(runs[r])
  PROVE  UNCHANGED Promise!vars
<1>1. \A w \in Runs : runs'[w].attempt = runs[w].attempt /\ ResultOf(runs'[w]) = ResultOf(runs[w])
  OBVIOUS
<1> QED BY <1>1 DEF Promise!vars

LEMMA NextPromise ==
  ASSUME IInv, [Next]_vars
  PROVE  [Promise!Next]_(Promise!vars)
<1> DEFINE attempts == [r \in Runs |-> runs[r].attempt]
           result == [r \in Runs |-> ResultOf(runs[r])]
<1>1. runs \in [Runs -> Row] /\ \A r \in Runs : RunInv(runs[r], audits[r])
  BY DEF IInv
<1>2. ASSUME NEW r \in Runs, Enqueue(r) PROVE UNCHANGED Promise!vars
  <2>1. runs[r].attempt = FreshRow.attempt /\ ResultOf(FreshRow) = ResultOf(runs[r])
    BY <1>1, <1>2 DEF RunInv, FreshRow, ResultOf, Terminal, Enqueue
  <2>2. runs' = [runs EXCEPT ![r] = FreshRow]
    BY <1>2 DEF Enqueue
  <2> QED BY <1>1, <2>1, <2>2, Stutter
<1>3. ASSUME NEW r \in Runs, LeaseExpires(r) PROVE UNCHANGED Promise!vars
  <2> DEFINE row == [runs[r] EXCEPT !.lease = "expired"]
  <2>1. runs' = [runs EXCEPT ![r] = row]
    BY <1>1, <1>3 DEF LeaseExpires
  <2>2. row.attempt = runs[r].attempt /\ row.status = runs[r].status /\ row.output = runs[r].output
    BY <1>1 DEF Row
  <2> HIDE DEF row
  <2>3. ResultOf(row) = ResultOf(runs[r])
    BY <2>2 DEF ResultOf
  <2> QED BY <1>1, <2>1, <2>2, <2>3, Stutter
<1>4. ASSUME NEW p \in Processes, NEW answered \in BOOLEAN, CommitClaim(p, answered)
      PROVE  \E r \in Runs : Promise!Attempt(r)
  <2>1. PICK r \in Runs : r = procs[p].run /\ runs[r].status \in {"queued", "running"}
    BY <1>4 DEF IInv, ProcInv, CommitClaim
  <2> DEFINE row == ClaimedRow(runs[r], IdOf[p])
  <2>2. runs' = [runs EXCEPT ![r] = row]
    BY <1>4, <2>1 DEF CommitClaim
  <2>3. row.attempt = runs[r].attempt + 1 /\ row.status = "running"
    BY DEF ClaimedRow
  <2>4. ResultOf(row) = Promise!Unsettled /\ ResultOf(runs[r]) = Promise!Unsettled
    BY <2>1, <2>3 DEF ResultOf, Terminal, Promise!Unsettled
  <2> HIDE DEF row
  <2>5. attempts' = [attempts EXCEPT ![r] = @ + 1]
    BY <1>1, <2>1, <2>2, <2>3
  <2>6. result' = result /\ result[r] = Promise!Unsettled
    <3>1. \A w \in Runs : ResultOf(runs'[w]) = ResultOf(runs[w])
      BY <1>1, <2>1, <2>2, <2>4
    <3> QED BY <2>1, <2>4, <3>1
  <2>7. Promise!Attempt(r)
    BY <2>5, <2>6, Zenon DEF Promise!Attempt
  <2> QED BY <2>7
<1>5. ASSUME NEW p \in Processes, NEW answered \in BOOLEAN, Report(p, answered)
      PROVE  \E r \in Runs : Promise!Settle(r)
  <2> DEFINE r == procs[p].run
             row == FinishedRow(p)
  <2>1. r \in Runs /\ ProcInv(procs[p], runs) /\ procs[p].pc = "sent"
    BY <1>5 DEF IInv, ProcInv, Report
  <2>2. /\ runs[r].status = "running" /\ runs[r].attempt = procs[p].attempt
        /\ procs[p].attempt > 0 /\ procs[p].intent \in Terminal
    BY <1>5, <2>1 DEF Report, ReceiptHolds, ProcInv, Holder
  <2>3. runs' = [runs EXCEPT ![r] = row]
    BY <1>5 DEF Report
  <2>4. row.attempt = runs[r].attempt
    BY DEF FinishedRow
  <2>5. ResultOf(row) = [outcome |-> procs[p].intent, of |-> runs[r].attempt]
    BY <2>2 DEF ResultOf, FinishedRow, Terminal
  <2>6. ResultOf(runs[r]) = Promise!Unsettled
    BY <2>2 DEF ResultOf, Terminal, Promise!Unsettled
  <2> HIDE DEF row
  <2>7. attempts' = attempts
    <3>1. \A w \in Runs : runs'[w].attempt = runs[w].attempt
      BY <1>1, <2>1, <2>3, <2>4
    <3> QED BY <3>1
  <2>8. result' = [result EXCEPT ![r] = [outcome |-> procs[p].intent, of |-> attempts[r]]]
    BY <1>1, <2>1, <2>3, <2>5
  <2>9. result[r] = Promise!Unsettled /\ attempts[r] > 0
    BY <2>1, <2>2, <2>6
  <2>10. Promise!Settle(r)
    BY <2>2, <2>7, <2>8, <2>9 DEF Promise!Settle, Promise!Outcomes, Terminal
  <2> HIDE DEF r
  <2> QED BY <2>1, <2>10
<1>6. ASSUME UNCHANGED runs PROVE UNCHANGED Promise!vars
  BY <1>6 DEF Promise!vars
<1>7. ASSUME NEW p \in Processes,
             \/ \E r \in Runs : LockCandidate(p, r)
             \/ HandlerEnds(p) \/ SendReport(p) \/ ReportFails(p) \/ Crash(p)
      PROVE  UNCHANGED runs
  BY <1>7 DEF LockCandidate, HandlerEnds, SendReport, ReportFails, Crash
<1>8. CASE Next
  BY <1>2, <1>3, <1>4, <1>5, <1>6, <1>7, <1>8 DEF Next, Promise!Next
<1>9. CASE UNCHANGED vars
  BY <1>6, <1>9 DEF vars
<1> QED BY <1>8, <1>9

(* Leases, revisions, crashes and lost answers implement the promise: a run *)
(* settles at most once, with the result of its latest attempt.             *)
THEOREM ImplementsPromise == Spec => KeepsPromise
BY InitPromise, NextPromise, Invariance, PTL DEF Spec, KeepsPromise, Promise!Spec
=============================================================================
