--------------------------- MODULE WorkflowLease ---------------------------
(***************************************************************************)
(* Durable workflow runs (src/workflow): rows of workflow_runs, the worker *)
(* processes that claim and finish them through PostgreSQL statements, and *)
(* the audit rows those statements write.                                  *)
(*                                                                         *)
(* A claim locks its candidate (FOR UPDATE SKIP LOCKED) in one step and    *)
(* updates it in another; a terminal transition is sent in one step, when  *)
(* its NOW() is fixed, and takes effect in another, which waits for the    *)
(* row's lock.  A worker may crash anywhere, and a statement may take      *)
(* effect without its answer reaching the worker, or fail before it takes  *)
(* effect (a broken connection, or the worker's own clock saying that the  *)
(* lease is over).                                                         *)
(***************************************************************************)
EXTENDS Integers, Sequences, FiniteSets

CONSTANTS
  NRuns,        \* runs are 1 .. NRuns, in the order of their created_at
  Processes,    \* worker processes
  Principals,   \* service principals workers authenticate as
  IdOf,         \* IdOf[p]: the principal of process p; processes may share one
  MaxAttempts,  \* bound on the attempts of a run (the code has none)
  MaxCrashes    \* bound on the crashes of workers

Runs == 1 .. NRuns
NoOne == "nobody"

ASSUME WorkflowAssumption ==
  /\ NRuns \in Nat
  /\ IdOf \in [Processes -> Principals]
  /\ NoOne \notin Principals
  /\ MaxAttempts \in Nat
  /\ MaxCrashes \in Nat

VARIABLES
  runs,     \* the rows
  audits,   \* audit_events of each run, in the order they were written
  procs,    \* where each worker process is
  crashes   \* number of crashes so far

vars == <<runs, audits, procs, crashes>>

-----------------------------------------------------------------------------
Terminal == {"succeeded", "failed", "stale_ignored"}
Status == {"absent", "queued", "running"} \cup Terminal

\* lease: whether lease_expires_at is null, ahead of the database's NOW() or
\* not.  output: the attempt whose handler produced output_ref, 0 for null.
Row == [status: Status, revision: Nat, attempt: Nat, lease_owner: Principals \cup {NoOne},
        lease: {"none", "live", "expired"}, output: Nat, error: BOOLEAN]

\* A worker: the receipt it holds (run, revision and attempt of the row it
\* claimed), the status it is about to record, and whether NOW() of the
\* statement that records it came before the lease ended.
Process == [pc: {"idle", "claiming", "handling", "reporting", "sent"}, run: Runs \cup {0},
            revision: Nat, attempt: Nat, intent: Terminal \cup {"none"}, timely: BOOLEAN]

Reason == {"workflow_claimed", "workflow_lease_taken_over"} \cup Terminal

\* reason is the outcome for the reason code "workflow_" \o outcome.
AuditEvent == [reason: Reason, from: Status, to: Status, revision: Nat]

NoRow == [status |-> "absent", revision |-> 0, attempt |-> 0, lease_owner |-> NoOne,
          lease |-> "none", output |-> 0, error |-> FALSE]
Idle == [pc |-> "idle", run |-> 0, revision |-> 0, attempt |-> 0, intent |-> "none", timely |-> FALSE]

Init ==
  /\ runs = [r \in Runs |-> NoRow]
  /\ audits = [r \in Runs |-> <<>>]
  /\ procs = [p \in Processes |-> Idle]
  /\ crashes = 0

-----------------------------------------------------------------------------
(* Conditions of the statements. *)

\* Slip: an expired lease is not up for takeover.
SlipQueuedOnly(r) == runs[r].status = "queued"

\* Slip: a running row is up for takeover whatever its lease.
SlipLiveLeaseTaken(r) == runs[r].status \in {"queued", "running"}

\* The candidate condition of a claim: queued, or running past its lease.
Claimable(r) ==
  \/ runs[r].status = "queued"
  \/ runs[r].status = "running" /\ runs[r].lease = "expired"

\* Rows a claim in progress holds the lock of; SKIP LOCKED passes over them.
Locked(r) == \E p \in Processes : procs[p].pc = "claiming" /\ procs[p].run = r

\* Slip: the revision of the receipt is not compared.
SlipNoRevisionFence(p) ==
  LET row == runs[procs[p].run] IN
  /\ row.status = "running"
  /\ row.lease_owner = IdOf[p]
  /\ row.lease = "live" \/ procs[p].timely

\* The WHERE clause of a terminal transition, for the receipt of p.
ReceiptHolds(p) ==
  LET row == runs[procs[p].run] IN
  /\ row.revision = procs[p].revision
  /\ row.status = "running"
  /\ row.lease_owner = IdOf[p]
  /\ row.lease = "live" \/ procs[p].timely

\* Slip: the audit row records the status and revision before the update.
SlipAuditBefore(r, reason) ==
  audits' = [audits EXCEPT ![r] = Append(@,
    [reason |-> reason, from |-> runs[r].status, to |-> runs[r].status, revision |-> runs[r].revision])]

\* The audit row the same statement inserts (auditTransition).
Audited(r, reason) ==
  audits' = [audits EXCEPT ![r] = Append(@,
    [reason |-> reason, from |-> runs[r].status, to |-> runs'[r].status, revision |-> runs'[r].revision])]

Bounded(r) == runs[r].attempt < MaxAttempts

-----------------------------------------------------------------------------
(* The steps. *)

FreshRow == [status |-> "queued", revision |-> 1, attempt |-> 0, lease_owner |-> NoOne,
             lease |-> "none", output |-> 0, error |-> FALSE]

\* Another part of the system creates the next run.
Enqueue(r) ==
  /\ runs[r].status = "absent"
  /\ \A older \in Runs : older < r => runs[older].status # "absent"
  /\ runs' = [runs EXCEPT ![r] = FreshRow]
  /\ UNCHANGED <<audits, procs, crashes>>

\* claimOldestQueuedRun, first half: lock the oldest claimable row no one else has locked.
LockCandidate(p, r) ==
  /\ procs[p].pc = "idle"
  /\ Claimable(r) /\ ~Locked(r) /\ Bounded(r)
  /\ \A older \in Runs : older < r => ~Claimable(older) \/ Locked(older) \/ ~Bounded(older)
  /\ procs' = [procs EXCEPT ![p] = [pc |-> "claiming", run |-> r, revision |-> 0,
                                    attempt |-> 0, intent |-> "none", timely |-> FALSE]]
  /\ UNCHANGED <<runs, audits, crashes>>

ClaimedRow(row, id) ==
  [status |-> "running", revision |-> row.revision + 1, attempt |-> row.attempt + 1,
   lease_owner |-> id, lease |-> "live", output |-> 0, error |-> FALSE]

\* Second half: the row becomes running under a fresh lease.  With the answer
\* the worker has its receipt; without it the worker has nothing and the row
\* waits for its lease to expire.
CommitClaim(p, answered) ==
  LET r == procs[p].run
      row == ClaimedRow(runs[r], IdOf[p])
  IN /\ procs[p].pc = "claiming"
     /\ runs' = [runs EXCEPT ![r] = row]
     /\ Audited(r, IF runs[r].status = "running" THEN "workflow_lease_taken_over" ELSE "workflow_claimed")
     /\ procs' = [procs EXCEPT ![p] =
                    IF answered
                    THEN [pc |-> "handling", run |-> r, revision |-> row.revision,
                          attempt |-> row.attempt, intent |-> "none", timely |-> FALSE]
                    ELSE Idle]
     /\ UNCHANGED crashes

\* WorkflowRegistry.execute: the handler writes its output, throws, or finds
\* its source stale; what the runner does next depends on nothing else.
HandlerEnds(p) ==
  /\ procs[p].pc = "handling"
  /\ \E intent \in Terminal :
       procs' = [procs EXCEPT ![p] =
         [pc |-> "reporting", run |-> procs[p].run, revision |-> procs[p].revision,
          attempt |-> procs[p].attempt, intent |-> intent, timely |-> FALSE]]
  /\ UNCHANGED <<runs, audits, crashes>>

\* runNextWorkflow after an error of its terminal statement: an error while
\* recording success is recorded as a failure of the handler, an error while
\* recording a failure ends the call.
AfterError(p) ==
  IF procs[p].intent = "succeeded"
  THEN [pc |-> "reporting", run |-> procs[p].run, revision |-> procs[p].revision,
        attempt |-> procs[p].attempt, intent |-> "failed", timely |-> FALSE]
  ELSE Idle

\* Slip: the row keeps its lease.
SlipLeaseKept(p) ==
  [status |-> procs[p].intent, revision |-> procs[p].revision + 1,
   attempt |-> runs[procs[p].run].attempt,
   lease_owner |-> IdOf[p], lease |-> "live",
   output |-> IF procs[p].intent = "succeeded" THEN procs[p].attempt ELSE 0,
   error |-> procs[p].intent = "failed"]

\* The SET clause of a terminal transition.
FinishedRow(p) ==
  [status |-> procs[p].intent, revision |-> procs[p].revision + 1,
   attempt |-> runs[procs[p].run].attempt,
   lease_owner |-> NoOne, lease |-> "none",
   output |-> IF procs[p].intent = "succeeded" THEN procs[p].attempt ELSE 0,
   error |-> procs[p].intent = "failed"]

\* nativeTransition passes its preflight and sends its statement.
SendReport(p) ==
  /\ procs[p].pc = "reporting"
  /\ procs' = [procs EXCEPT ![p] =
       [pc |-> "sent", run |-> procs[p].run, revision |-> procs[p].revision,
        attempt |-> procs[p].attempt, intent |-> procs[p].intent,
        timely |-> runs[procs[p].run].lease = "live"]]
  /\ UNCHANGED <<runs, audits, crashes>>

\* The statement takes effect, and answers or not.
Report(p, answered) ==
  /\ procs[p].pc = "sent"
  /\ ReceiptHolds(p) /\ ~Locked(procs[p].run)
  /\ runs' = [runs EXCEPT ![procs[p].run] = FinishedRow(p)]
  /\ Audited(procs[p].run, procs[p].intent)
  /\ procs' = [procs EXCEPT ![p] = IF answered THEN Idle ELSE AfterError(p)]
  /\ UNCHANGED crashes

\* nativeTransition updates no row (the lease is lost), or never gets to the
\* database: the preflight against the worker's clock refuses, or the
\* connection breaks.
ReportFails(p) ==
  /\ procs[p].pc \in {"reporting", "sent"}
  /\ procs' = [procs EXCEPT ![p] = AfterError(p)]
  /\ UNCHANGED <<runs, audits, crashes>>

\* A worker dies: its claim in progress is rolled back, its receipt is gone.
Crash(p) ==
  /\ crashes < MaxCrashes
  /\ procs[p].pc # "idle"
  /\ procs' = [procs EXCEPT ![p] = Idle]
  /\ crashes' = crashes + 1
  /\ UNCHANGED <<runs, audits>>

\* Five minutes after its claim, a row that is still running is up for takeover.
LeaseExpires(r) ==
  /\ runs[r].lease = "live"
  /\ runs' = [runs EXCEPT ![r].lease = "expired"]
  /\ UNCHANGED <<audits, procs, crashes>>

Next ==
  \/ \E r \in Runs : Enqueue(r) \/ LeaseExpires(r)
  \/ \E p \in Processes :
       \/ \E r \in Runs : LockCandidate(p, r)
       \/ \E answered \in BOOLEAN : CommitClaim(p, answered) \/ Report(p, answered)
       \/ HandlerEnds(p)
       \/ SendReport(p)
       \/ ReportFails(p)
       \/ Crash(p)

Spec == Init /\ [][Next]_vars

\* A live worker goes on calling runNextWorkflow and each call goes on to its
\* end; the database clock reaches the end of every lease.
Fairness ==
  /\ \A p \in Processes :
       /\ WF_vars(\E r \in Runs : LockCandidate(p, r))
       /\ WF_vars(\E answered \in BOOLEAN : CommitClaim(p, answered))
       /\ WF_vars(HandlerEnds(p))
       /\ WF_vars(SendReport(p) \/ ReportFails(p) \/ \E answered \in BOOLEAN : Report(p, answered))
  /\ \A r \in Runs : WF_vars(LeaseExpires(r))

FairSpec == Spec /\ Fairness
-----------------------------------------------------------------------------
(* Properties. *)

\* What workflowRunSchema asks of a row: a lease exactly while it runs, an
\* output exactly when it succeeded, an error class exactly when it failed.
WellFormed(row) ==
  /\ row \in Row
  /\ (row.status = "running") = (row.lease # "none")
  /\ (row.status = "running") = (row.lease_owner # NoOne)
  /\ (row.status = "succeeded") = (row.output # 0)
  /\ (row.status = "failed") = row.error

\* The native statements bypass the schema and keep every row as it wants it.
TypeOK ==
  /\ \A r \in Runs : WellFormed(runs[r])
  /\ runs \in [Runs -> Row]
  /\ audits \in [Runs -> Seq(AuditEvent)]
  /\ procs \in [Processes -> Process]
  /\ \A p \in Processes : procs[p].pc # "idle" => procs[p].run \in Runs
  /\ crashes \in 0 .. MaxCrashes

HasReceipt(p) == procs[p].pc \in {"handling", "reporting", "sent"}

\* No two workers can finish the same run: of all receipts out there, those of
\* crashed or overtaken workers and of workers that authenticate as the same
\* service principal included, the terminal statement accepts at most one.
OneValidReceipt ==
  \A p, q \in Processes :
    /\ HasReceipt(p) /\ ReceiptHolds(p)
    /\ HasReceipt(q) /\ ReceiptHolds(q)
    /\ procs[p].run = procs[q].run
    => p = q

IsClaim(event) == event.reason \in {"workflow_claimed", "workflow_lease_taken_over"}

\* audit_events tell the whole life of a run: one row per update, in revision
\* order, each starting from the status the one before it left, the last one
\* agreeing with the row, a takeover recorded as one, and as many claims as
\* the row counts attempts.
Tells(log, row) ==
  /\ \A i \in 1 .. Len(log) :
       /\ log[i].from = (IF i = 1 THEN "queued" ELSE log[i-1].to)
       /\ log[i].revision = i + 1
       /\ (log[i].reason = "workflow_lease_taken_over") = (log[i].from = "running" /\ log[i].to = "running")
  /\ log # <<>> => log[Len(log)].to = row.status /\ row.revision = Len(log) + 1
  /\ row.attempt = Cardinality({i \in 1 .. Len(log) : IsClaim(log[i])})

AuditChain == \A r \in Runs : Tells(audits[r], runs[r])

\* While a lease is live, nobody but the worker that holds its receipt changes
\* the row: other workers wait for its end, even if the holder has crashed.
LeaseRespected ==
  [][\A r \in Runs : runs[r].lease = "live" /\ runs'[r] # runs[r] =>
       \/ runs'[r].lease = "expired" /\ runs'[r].attempt = runs[r].attempt
       \/ \E p \in Processes : /\ HasReceipt(p) /\ procs[p].run = r
                               /\ procs[p].revision = runs[r].revision
                               /\ runs'[r].status \in Terminal]_vars

\* What a row says of its run: the outcome, and the attempt it is the result of.
ResultOf(row) ==
  IF row.status \notin Terminal THEN [outcome |-> "none", of |-> 0]
  ELSE [outcome |-> row.status,
        of |-> IF row.status = "succeeded" THEN row.output ELSE row.attempt]

Promise == INSTANCE WorkflowPromise WITH
  attempts <- [r \in Runs |-> runs[r].attempt],
  result <- [r \in Runs |-> ResultOf(runs[r])]

\* The ledger promises what WorkflowPromise says: a run settles once, with the
\* outcome and the output of its latest attempt, so the late answer of a worker
\* whose run was taken over never replaces or precedes the successor's.
KeepsPromise == Promise!Spec

\* A run that is waiting or running settles in the end, whatever crashes and
\* broken connections its workers meet, unless it or a run created before it
\* goes on losing its attempts (the code sets no limit on them, the model
\* stops at MaxAttempts).
EventuallySettles ==
  \A r \in Runs :
    runs[r].status \in {"queued", "running"}
      ~> \/ runs[r].status \in Terminal
         \/ \E older \in Runs : older <= r /\ runs[older].attempt = MaxAttempts
=============================================================================
