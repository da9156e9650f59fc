----------------------------- MODULE LocalQueue -----------------------------
(***************************************************************************)
(* The local queue and what runs its jobs (src/queues: local-queue.ts,     *)
(* retry.ts and the executors and revocations of withdraw.ts): two lanes   *)
(* with capacities, dead letters and their replays, one semaphore per lane.*)
(*                                                                         *)
(* A call runs alone until it awaits.  replay awaits the append of its     *)
(* audit event and an executor awaits the effect of its job; everything    *)
(* else interleaves there.  A caller that shares the promise of a replay,  *)
(* or is refused for its fingerprint, changes no state and has no action.  *)
(***************************************************************************)
EXTENDS Integers, Sequences, FiniteSets, Functions

CONSTANTS
  Jobs,          \* job ids; each is enqueued once, by a producer or by a replay
  LaneOf,        \* the lane of a job: emergency withdrawals have their own
  Entities,      \* what a revocation may bury
  ReplayKeys,    \* replay idempotency keys
  Capacity,      \* of each lane
  Concurrency,   \* of each lane's executor
  Executors,     \* calls of runNext, each of the executor of one lane
  Serves,        \* the lane an executor takes its jobs from
  LastAttempt,   \* the attempt that is not retried: 7 in the code
  Window,        \* how long after enqueued_at a job is retried: 24 hours
  MaxJitter,     \* the cap of the jitter, 60 s in the code
  MaxDelay,      \* bound on Retry-After
  MaxTime,       \* bound on the clock
  MaxLetters,    \* bound on the dead letters
  MaxVersion     \* bound on the versions of withdrawal requests

Lanes == {"normal", "withdraw"}
NoKey == "none"

\* since: enqueued_at; a retry keeps it, a replay starts it again.
Envelope == [job: Jobs, attempt: 0 .. LastAttempt, since: 0 .. MaxTime]

\* The number of the dead letter in #dlq stands for its id.
Letters == 1 .. MaxLetters

ASSUME LocalQueueAssumption ==
  /\ LaneOf \in [Jobs -> Lanes]
  /\ Capacity \in [Lanes -> Nat] /\ Concurrency \in [Lanes -> Nat]
  /\ Serves \in [Executors -> Lanes]
  /\ IsFiniteSet(ReplayKeys) /\ IsFiniteSet(Executors)
  /\ LastAttempt \in Nat /\ Window \in Nat /\ MaxJitter \in Nat /\ MaxDelay \in Nat
  /\ MaxTime \in Nat /\ MaxLetters \in Nat /\ MaxVersion \in Nat

VARIABLES
  now,
  fresh,     \* the job ids nobody has used yet
  lanes,     \* the envelopes in each lane
  reserved,  \* the room promised to replays, in each lane
  leaked,    \* history: the part of it that no replay holds any more
  running,   \* the envelope each call of runNext works on
  active,    \* the semaphore of each lane's executor
  waiting,   \* failed jobs that are tried again, and when
  letters,   \* the dead letters, each with its alert
  asked,     \* the replay reservation of each key
  replays,   \* the letter each key has replayed, 0 for none
  pushes,    \* how often each key has put an envelope into a lane
  sink,      \* the audit events the sink holds; #auditEvents repeats what it acknowledged
  buried,    \* the tombstone of each entity, 0 for none
  revocations \* history: the revocations that went through

replayVars == <<asked, replays, pushes, sink>>
tombVars == <<buried, revocations>>
laneVars == <<now, fresh, lanes, reserved, leaked, running, active, waiting, letters, replayVars, tombVars>>
-----------------------------------------------------------------------------
Idle == [pc |-> "idle"]
NotAsked == [pc |-> "none"]

\* A reservation in #replayReservations: auditing while its promise waits for
\* the sink (stored: the sink has the event), done once it is resolved.
Reservation == [pc: {"auditing", "stored", "done"}, letter: Letters, envelope: Envelope]

\* An allowed replay names its key; a refused one has none.
AuditEvent == [letter: Letters, key: ReplayKeys \cup {NoKey}]

\* A call of recordRightsRevocation; nothing ties the entity to that of the job.
Revocation == [job: Jobs, entity: Entities, version: 1 .. MaxVersion]

\* Nothing is queued yet, and callers will use some of the ids.
LaneInit ==
  /\ now = 0
  /\ fresh \in SUBSET Jobs
  /\ lanes = [l \in Lanes |-> <<>>]
  /\ reserved = [l \in Lanes |-> 0] /\ leaked = [l \in Lanes |-> 0]
  /\ running = [x \in Executors |-> Idle]
  /\ active = [l \in Lanes |-> 0]
  /\ waiting = {} /\ letters = <<>>
  /\ asked = [k \in ReplayKeys |-> NotAsked]
  /\ replays = [k \in ReplayKeys |-> 0]
  /\ pushes = [k \in ReplayKeys |-> 0]
  /\ sink = {}
  /\ buried = [e \in Entities |-> 0] /\ revocations = {}

-----------------------------------------------------------------------------
(* The conditions. *)

\* Slip: room promised to replays is given away.
SlipUnreservedRoom(l) == Len(lanes[l]) < Capacity[l]

Room(l) == Len(lanes[l]) + reserved[l] < Capacity[l]

\* What a call of runNext finds before it takes a job.
Available(x) == active[Serves[x]] < Concurrency[Serves[x]] /\ lanes[Serves[x]] # <<>>

\* The delays a retryable failure of an envelope may give: full jitter under a
\* cap that doubles, with a Retry-After (0 for none) as its floor.
Delays(envelope, after) ==
  LET cap == IF 2 ^ envelope.attempt < MaxJitter THEN 2 ^ envelope.attempt ELSE MaxJitter
  IN  {IF jitter > after THEN jitter ELSE after : jitter \in 0 .. cap}

\* Slip: the delay may reach beyond the window, as long as now does not.
SlipWindowOpen(envelope, delay) == envelope.attempt < LastAttempt /\ now < envelope.since + Window

\* nextRetry answers retry: there is an attempt left, the window is open, and
\* the delay ends in it.
Retryable(envelope, delay) ==
  /\ envelope.attempt < LastAttempt
  /\ now < envelope.since + Window
  /\ now + delay <= envelope.since + Window

Pushing(envelope) == [lanes EXCEPT ![LaneOf[envelope.job]] = Append(@, envelope)]

\* Slip: the semaphore is not given back.
SlipHeld(x) == active

\* The finally of runNext.
Released(x) == [active EXCEPT ![Serves[x]] = @ - 1]

-----------------------------------------------------------------------------
(* Enqueueing and running. *)

\* enqueue throws where there is no room, and nothing has changed.
Enqueue(j) ==
  /\ j \in fresh
  /\ Room(LaneOf[j])
  /\ lanes' = Pushing([job |-> j, attempt |-> 0, since |-> now])
  /\ fresh' = fresh \ {j}
  /\ UNCHANGED <<now, reserved, leaked, running, active, waiting, letters, replayVars, tombVars>>

\* Slip: the tombstone is recorded before the job is enqueued, which may throw.
SlipRevoke(j, e, version) ==
  /\ j \in fresh /\ LaneOf[j] = "withdraw"
  /\ buried' = [buried EXCEPT ![e] = IF version > @ THEN version ELSE @]
  /\ IF Room("withdraw")
     THEN /\ lanes' = Pushing([job |-> j, attempt |-> 0, since |-> now])
          /\ fresh' = fresh \ {j}
          /\ revocations' = revocations \cup {[job |-> j, entity |-> e, version |-> version]}
     ELSE UNCHANGED <<lanes, fresh, revocations>>
  /\ UNCHANGED <<now, reserved, leaked, running, active, waiting, letters, replayVars>>

\* recordRightsRevocation enqueues an emergency job and then records the tombstone, unless
\* a newer one is there; a full lane throws before anything is recorded.
Revoke(j, e, version) ==
  /\ j \in fresh /\ LaneOf[j] = "withdraw"
  /\ Room("withdraw")
  /\ lanes' = Pushing([job |-> j, attempt |-> 0, since |-> now])
  /\ fresh' = fresh \ {j}
  /\ buried' = [buried EXCEPT ![e] = IF version > @ THEN version ELSE @]
  /\ revocations' = revocations \cup {[job |-> j, entity |-> e, version |-> version]}
  /\ UNCHANGED <<now, reserved, leaked, running, active, waiting, letters, replayVars>>

\* runNext takes the next job of its lane under the lane's semaphore.
Take(x) ==
  /\ running[x] = Idle
  /\ Available(x)
  /\ running' = [running EXCEPT ![x] = Head(lanes[Serves[x]])]
  /\ lanes' = [lanes EXCEPT ![Serves[x]] = Tail(@)]
  /\ active' = [active EXCEPT ![Serves[x]] = @ + 1]
  /\ UNCHANGED <<now, fresh, reserved, leaked, waiting, letters, replayVars, tombVars>>

\* The effect ends, well or not: runNext gives the semaphore back and forgets the job.
Finish(x) ==
  /\ running[x] # Idle
  /\ running' = [running EXCEPT ![x] = Idle]
  /\ active' = Released(x)
  /\ UNCHANGED <<now, fresh, lanes, reserved, leaked, waiting, letters, replayVars, tombVars>>

\* It fails, and whoever called runNext asks nextRetry, which puts the job off.
FailForNow(x, after) ==
  /\ running[x] # Idle
  /\ \E delay \in Delays(running[x], after) :
       /\ Retryable(running[x], delay)
       /\ waiting' = waiting \cup
            {[envelope |-> [job |-> running[x].job, attempt |-> running[x].attempt + 1, since |-> running[x].since],
              due |-> now + delay]}
  /\ running' = [running EXCEPT ![x] = Idle]
  /\ active' = Released(x)
  /\ UNCHANGED <<now, fresh, lanes, reserved, leaked, letters, replayVars, tombVars>>

\* It fails for a permanent reason, or nextRetry gives up, and the caller uses toDlq.
FailForGood(x) ==
  /\ running[x] # Idle
  /\ Len(letters) < MaxLetters
  /\ letters' = Append(letters, running[x])
  /\ running' = [running EXCEPT ![x] = Idle]
  /\ active' = Released(x)
  /\ UNCHANGED <<now, fresh, lanes, reserved, leaked, waiting, replayVars, tombVars>>

\* A job put off is enqueued again once it is due and there is room.
Retry(w) ==
  /\ w.due <= now
  /\ Room(LaneOf[w.envelope.job])
  /\ lanes' = Pushing(w.envelope)
  /\ waiting' = waiting \ {w}
  /\ UNCHANGED <<now, fresh, reserved, leaked, running, active, letters, replayVars, tombVars>>

Tick ==
  /\ now < MaxTime
  /\ now' = now + 1
  /\ UNCHANGED <<fresh, lanes, reserved, leaked, running, active, waiting, letters, replayVars, tombVars>>

-----------------------------------------------------------------------------
(* Replaying a dead letter. *)

\* The caller lacks the scope of the letter: the refusal is audited before it
\* is thrown.
Forbid(letter) ==
  /\ letter <= Len(letters)
  /\ sink' = sink \cup {[letter |-> letter, key |-> NoKey]}
  /\ UNCHANGED <<now, fresh, lanes, reserved, leaked, running, active, waiting, letters, tombVars,
                 asked, replays, pushes>>

\* Nobody has asked under this key, or whoever did has failed, and there is room for
\* the letter's job.
Admitted(k, letter) ==
  /\ letter <= Len(letters)
  /\ asked[k] = NotAsked /\ replays[k] = 0
  /\ Room(LaneOf[letters[letter].job])

Reserved(lane) == [reserved EXCEPT ![lane] = @ + 1]

\* #replayOnce reserves the room for the job under its new id and waits for the sink.
Replay(k, letter, j) ==
  LET lane == LaneOf[letters[letter].job] IN
  /\ Admitted(k, letter)
  /\ j \in fresh /\ LaneOf[j] = lane
  /\ reserved' = Reserved(lane)
  /\ asked' = [asked EXCEPT ![k] =
       [pc |-> "auditing", letter |-> letter, envelope |-> [job |-> j, attempt |-> 0, since |-> now]]]
  /\ fresh' = fresh \ {j}
  /\ UNCHANGED <<now, lanes, leaked, running, active, waiting, letters, tombVars, replays, pushes, sink>>

\* #newAudit throws (an id, a time or a principal its schema refuses): the room is
\* reserved already, and the try that gives it back has not begun.
Leak(k, letter) ==
  LET lane == LaneOf[letters[letter].job] IN
  /\ Admitted(k, letter)
  /\ reserved' = Reserved(lane)
  /\ leaked' = [leaked EXCEPT ![lane] = @ + 1]
  /\ UNCHANGED <<now, fresh, lanes, running, active, waiting, letters, tombVars, replayVars>>

\* The sink has the audit event and has not answered yet.
AuditStored(k) ==
  /\ asked[k].pc = "auditing"
  /\ sink' = sink \cup {[letter |-> asked[k].letter, key |-> k]}
  /\ asked' = [asked EXCEPT ![k] =
       [pc |-> "stored", letter |-> asked[k].letter, envelope |-> asked[k].envelope]]
  /\ UNCHANGED <<now, fresh, lanes, reserved, leaked, running, active, waiting, letters, tombVars,
                 replays, pushes>>

\* The finally of #replayOnce.
Unreserved(k) == [reserved EXCEPT ![LaneOf[asked[k].envelope.job]] = @ - 1]

\* The append resolves: the envelope goes into its lane.
Push(k) ==
  /\ asked[k].pc = "stored"
  /\ lanes' = Pushing(asked[k].envelope)
  /\ reserved' = Unreserved(k)
  /\ replays' = [replays EXCEPT ![k] = asked[k].letter]
  /\ pushes' = [pushes EXCEPT ![k] = @ + 1]
  /\ asked' = [asked EXCEPT ![k] =
       [pc |-> "done", letter |-> asked[k].letter, envelope |-> asked[k].envelope]]
  /\ UNCHANGED <<now, fresh, leaked, running, active, waiting, letters, tombVars, sink>>

\* Slip: the reservation is dropped as soon as the replay ends, well or not.
SlipForget(k) ==
  /\ asked[k].pc # "none"
  /\ reserved' = IF asked[k].pc = "done" THEN reserved ELSE Unreserved(k)
  /\ fresh' = fresh \cup {asked[k].envelope.job}
  /\ asked' = [asked EXCEPT ![k] = NotAsked]
  /\ replays' = [replays EXCEPT ![k] = 0]
  /\ UNCHANGED <<now, lanes, leaked, running, active, waiting, letters, tombVars, pushes, sink>>

\* The append fails, before or after the sink kept the event: the room and the
\* reservation are given back, and the key may be used again.
Forget(k) ==
  /\ asked[k].pc \in {"auditing", "stored"}
  /\ reserved' = Unreserved(k)
  /\ fresh' = fresh \cup {asked[k].envelope.job}
  /\ asked' = [asked EXCEPT ![k] = NotAsked]
  /\ UNCHANGED <<now, lanes, leaked, running, active, waiting, letters, tombVars,
                 replays, pushes, sink>>

LaneNext ==
  \/ \E j \in Jobs :
       Enqueue(j) \/ \E e \in Entities, version \in 1 .. MaxVersion : Revoke(j, e, version)
  \/ \E x \in Executors :
       Take(x) \/ Finish(x) \/ FailForGood(x) \/ \E after \in 0 .. MaxDelay : FailForNow(x, after)
  \/ \E w \in waiting : Retry(w)
  \/ \E letter \in Letters : Forbid(letter)
  \/ \E k \in ReplayKeys :
       \/ AuditStored(k) \/ Push(k) \/ Forget(k)
       \/ \E letter \in Letters : Leak(k, letter) \/ \E j \in Jobs : Replay(k, letter, j)
  \/ Tick

\* Only the emergency lane is assumed to be served: its executor is called
\* again and again and its effects come to an end.
LaneFairness ==
  \A x \in Executors : Serves[x] = "withdraw" => WF_laneVars(Take(x)) /\ WF_laneVars(Finish(x))

LaneSpec == LaneInit /\ [][LaneNext]_laneVars /\ LaneFairness
-----------------------------------------------------------------------------
(* Properties. *)

\* A retry is due inside the window of its job, whatever the jitter and the
\* Retry-After.
WaitingType == {w \in [envelope : Envelope, due : 0 .. MaxTime + Window] :
                  w.envelope.attempt > 0 /\ w.due <= w.envelope.since + Window}

LaneTypeOK ==
  /\ now \in 0 .. MaxTime
  /\ fresh \subseteq Jobs
  /\ lanes \in [Lanes -> Seq(Envelope)]
  /\ reserved \in [Lanes -> Nat] /\ leaked \in [Lanes -> Nat] /\ active \in [Lanes -> Nat]
  /\ running \in [Executors -> Envelope \cup {Idle}]
  /\ waiting \subseteq WaitingType
  /\ letters \in Seq(Envelope) /\ Len(letters) <= MaxLetters
  /\ asked \in [ReplayKeys -> Reservation \cup {NotAsked}]
  /\ replays \in [ReplayKeys -> 0 .. MaxLetters] /\ pushes \in [ReplayKeys -> Nat]
  /\ sink \subseteq AuditEvent
  /\ buried \in [Entities -> 0 .. MaxVersion] /\ revocations \subseteq Revocation

\* The replays that wait for the sink with room in a lane.
InFlight(l) == {k \in ReplayKeys : asked[k].pc \in {"auditing", "stored"} /\ LaneOf[asked[k].envelope.job] = l}

\* While replays wait for the sink, producers, retries and other replays fill
\* the lanes: no lane ever takes more than it has room for, every push of a
\* replay finds the room it was promised, and room stays promised to nobody only
\* where the audit event of a replay could not be built (local-queue.ts, #replayOnce).
NeverOverbooked ==
  \A l \in Lanes :
    /\ reserved[l] = Cardinality(InFlight(l)) + leaked[l]
    /\ Len(lanes[l]) + reserved[l] <= Capacity[l]

\* Callers repeat a replay, share its promise, or start it again after its
\* audit failed (even when the sink had kept the event): its key enqueues once
\* at most, and never without an audit event the sink holds.
ReplayedOnce ==
  \A k \in ReplayKeys :
    /\ pushes[k] <= 1
    /\ pushes[k] = 1 <=> replays[k] # 0
    /\ pushes[k] = 1 => asked[k].pc = "done" /\ [letter |-> replays[k], key |-> k] \in sink

\* Revocations of one entity come in any order and find the emergency lane full: a
\* tombstone is that of the newest revocation that went through, and none is recorded for
\* a revocation whose emergency job the queue refused (withdraw.ts, recordRightsRevocation).
BuriedAsRevoked ==
  /\ \A r \in revocations : r.job \notin fresh /\ r.version <= buried[r.entity]
  /\ \A e \in Entities : buried[e] > 0 => \E r \in revocations : r.entity = e /\ r.version = buried[e]

\* Whatever becomes of normal work (its lane is full, its effects never end),
\* an emergency withdrawal leaves its lane every time it is in it.
Queued(j) == \E i \in DOMAIN lanes["withdraw"] : lanes["withdraw"][i].job = j
EmergencyNotStarved == \A j \in Jobs : []<>~Queued(j)
=============================================================================
