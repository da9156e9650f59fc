-------------------------- MODULE LocalQueueProofs --------------------------
(***************************************************************************)
(* Theorems about LocalQueue, for any jobs, lanes' capacities, keys,       *)
(* executors and bounds.                                                   *)
(***************************************************************************)
EXTENDS LocalQueue, FiniteSetTheorems, TLAPS

\* The executors that work on a job of a lane.
Busy(l) == {x \in Executors : Serves[x] = l /\ running[x] # Idle}

\* A semaphore counts the calls that work, and they are not too many.
SemaphoresCount == \A l \in Lanes : active[l] = Cardinality(Busy(l)) /\ active[l] <= Concurrency[l]

\* How a key gets from its reservation to its replay.
ReplayTrack ==
  \A k \in ReplayKeys :
    /\ asked[k].pc = "done" <=> replays[k] # 0
    /\ pushes[k] = IF replays[k] # 0 THEN 1 ELSE 0
    /\ asked[k].pc = "stored" => [letter |-> asked[k].letter, key |-> k] \in sink
    /\ replays[k] # 0 => [letter |-> replays[k], key |-> k] \in sink

LaneIInv == LaneTypeOK /\ NeverOverbooked /\ SemaphoresCount /\ ReplayTrack

-----------------------------------------------------------------------------
(* What types say. *)

LEMMA JobFields ==
  ASSUME NEW j \in Jobs
  PROVE  LaneOf[j] \in Lanes
BY LocalQueueAssumption

LEMMA EnvelopeNotIdle ==
  ASSUME NEW envelope \in Envelope
  PROVE  envelope # Idle
<1>1. "job" \in DOMAIN envelope
  BY DEF Envelope
<1>2. "job" \notin DOMAIN Idle
  BY DEF Idle
<1> QED BY <1>1, <1>2

LEMMA NewEnvelope ==
  ASSUME LaneTypeOK, NEW j \in Jobs
  PROVE  [job |-> j, attempt |-> 0, since |-> now] \in Envelope
BY LocalQueueAssumption DEF LaneTypeOK, Envelope

LEMMA AskedFields ==
  ASSUME LaneTypeOK, NEW k \in ReplayKeys, asked[k].pc # "none"
  PROVE  /\ asked[k] \in Reservation /\ asked[k].pc \in {"auditing", "stored", "done"}
         /\ asked[k].letter \in Letters /\ asked[k].envelope \in Envelope
         /\ asked[k].envelope.job \in Jobs
BY DEF LaneTypeOK, Reservation, NotAsked, Envelope

LEMMA DelaysAreTimes ==
  ASSUME NEW envelope \in Envelope, NEW after \in Nat, NEW delay \in Delays(envelope, after)
  PROVE  delay \in Nat
BY DEF Delays

\* An envelope goes to the end of its lane.
LEMMA PushingLane ==
  ASSUME LaneTypeOK, NEW envelope \in Envelope, lanes' = Pushing(envelope)
  PROVE  /\ lanes' \in [Lanes -> Seq(Envelope)]
         /\ Len(lanes'[LaneOf[envelope.job]]) = Len(lanes[LaneOf[envelope.job]]) + 1
         /\ \A l \in Lanes : l # LaneOf[envelope.job] => lanes'[l] = lanes[l]
<1>1. envelope.job \in Jobs /\ LaneOf[envelope.job] \in Lanes
  BY JobFields DEF Envelope
<1> QED BY <1>1 DEF LaneTypeOK, Pushing

\* The semaphore and the calls under it move together.
LEMMA CallStarts ==
  ASSUME LaneTypeOK, SemaphoresCount, NEW x \in Executors, NEW envelope \in Envelope,
         running[x] = Idle, running' = [running EXCEPT ![x] = envelope],
         active[Serves[x]] < Concurrency[Serves[x]], active' = [active EXCEPT ![Serves[x]] = @ + 1]
  PROVE  active' \in [Lanes -> Nat] /\ running' \in [Executors -> Envelope \cup {Idle}] /\ SemaphoresCount'
<1>1. Serves[x] \in Lanes /\ envelope # Idle
  BY LocalQueueAssumption, EnvelopeNotIdle
<1>2. running' \in [Executors -> Envelope \cup {Idle}] /\ active' \in [Lanes -> Nat]
  BY <1>1 DEF LaneTypeOK
<1>0. Concurrency \in [Lanes -> Nat] /\ active \in [Lanes -> Nat]
  BY LocalQueueAssumption DEF LaneTypeOK
<1>3. ASSUME NEW l \in Lanes PROVE active'[l] = Cardinality(Busy(l)') /\ active'[l] <= Concurrency[l]
  <2>1. IsFiniteSet(Busy(l)) /\ x \notin Busy(l)
    BY LocalQueueAssumption, FS_Subset DEF Busy
  <2>2. CASE l = Serves[x]
    <3>0. \A y \in Executors : running'[y] = IF y = x THEN envelope ELSE running[y]
      BY DEF LaneTypeOK
    <3>1. Busy(l)' = Busy(l) \cup {x}
      BY <1>1, <2>2, <3>0 DEF Busy
    <3>2. Cardinality(Busy(l) \cup {x}) = Cardinality(Busy(l)) + 1
      BY <2>1, FS_AddElement
    <3>3. active'[l] = active[l] + 1 /\ active[l] < Concurrency[l]
      BY <1>0, <2>2
    <3>4. active'[l] <= Concurrency[l]
      BY <1>0, <3>3
    <3>5. Cardinality(Busy(l)') = Cardinality(Busy(l)) + 1
      BY <3>1, <3>2
    <3>6. active[l] = Cardinality(Busy(l))
      BY DEF SemaphoresCount
    <3> QED BY <3>3, <3>4, <3>5, <3>6
  <2>3. CASE l # Serves[x]
    <3>1. Busy(l)' = Busy(l)
      BY <2>3 DEF Busy, LaneTypeOK
    <3> QED BY <2>3, <3>1 DEF SemaphoresCount, LaneTypeOK
  <2> QED BY <2>2, <2>3
<1> QED BY <1>2, <1>3 DEF SemaphoresCount

LEMMA CallEnds ==
  ASSUME LaneTypeOK, SemaphoresCount, NEW x \in Executors, running[x] # Idle,
         running' = [running EXCEPT ![x] = Idle], active' = Released(x)
  PROVE  active' \in [Lanes -> Nat] /\ running' \in [Executors -> Envelope \cup {Idle}] /\ SemaphoresCount'
<1>1. Serves[x] \in Lanes
  BY LocalQueueAssumption
<1>2. running' \in [Executors -> Envelope \cup {Idle}] /\ DOMAIN active = Lanes
  BY DEF LaneTypeOK
<1>0. Concurrency \in [Lanes -> Nat] /\ active \in [Lanes -> Nat]
  BY LocalQueueAssumption DEF LaneTypeOK
<1>3. ASSUME NEW l \in Lanes
      PROVE  active'[l] = Cardinality(Busy(l)') /\ active'[l] \in Nat /\ active'[l] <= Concurrency[l]
  <2>1. IsFiniteSet(Busy(l))
    BY LocalQueueAssumption, FS_Subset DEF Busy
  <2>2. CASE l = Serves[x]
    <3>1. Busy(l)' = Busy(l) \ {x} /\ x \in Busy(l)
      BY <2>2 DEF Busy, LaneTypeOK
    <3>2. Cardinality(Busy(l) \ {x}) = Cardinality(Busy(l)) - 1
      BY <2>1, <3>1, FS_RemoveElement
    <3>3. IsFiniteSet(Busy(l) \ {x}) /\ Cardinality(Busy(l) \ {x}) \in Nat
      BY <2>1, FS_RemoveElement, FS_CardinalityType
    <3> QED BY <1>0, <2>2, <3>1, <3>2, <3>3 DEF SemaphoresCount, Released
  <2>3. CASE l # Serves[x]
    <3>1. Busy(l)' = Busy(l)
      BY <2>3 DEF Busy, LaneTypeOK
    <3> QED BY <2>3, <3>1 DEF SemaphoresCount, LaneTypeOK, Released
  <2> QED BY <2>2, <2>3
<1>4. active' = [l \in Lanes |-> active'[l]]
  BY <1>2 DEF Released
<1>5. active' \in [Lanes -> Nat]
  BY <1>3, <1>4
<1> QED BY <1>2, <1>3, <1>5 DEF SemaphoresCount
\* A replay starts to hold room, or lets it go.
LEMMA RoomHeld ==
  ASSUME LaneTypeOK, NEW k \in ReplayKeys, NEW lane \in Lanes,
         \A l \in Lanes : InFlight(l)' = IF l = lane THEN InFlight(l) \cup {k} ELSE InFlight(l),
         \A l \in Lanes : k \notin InFlight(l)
  PROVE  \A l \in Lanes :
           Cardinality(InFlight(l)') = IF l = lane THEN Cardinality(InFlight(l)) + 1 ELSE Cardinality(InFlight(l))
<1>1. \A l \in Lanes : IsFiniteSet(InFlight(l))
  BY LocalQueueAssumption, FS_Subset DEF InFlight
<1> QED BY <1>1, FS_AddElement

LEMMA RoomLetGo ==
  ASSUME LaneTypeOK, NEW k \in ReplayKeys, NEW lane \in Lanes, k \in InFlight(lane),
         \A l \in Lanes : InFlight(l)' = IF l = lane THEN InFlight(l) \ {k} ELSE InFlight(l)
  PROVE  /\ \A l \in Lanes :
              Cardinality(InFlight(l)') = IF l = lane THEN Cardinality(InFlight(l)) - 1 ELSE Cardinality(InFlight(l))
         /\ Cardinality(InFlight(lane)) - 1 \in Nat
<1>1. \A l \in Lanes : IsFiniteSet(InFlight(l))
  BY LocalQueueAssumption, FS_Subset DEF InFlight
<1>2. IsFiniteSet(InFlight(lane) \ {k}) /\ Cardinality(InFlight(lane) \ {k}) = Cardinality(InFlight(lane)) - 1
  BY <1>1, FS_RemoveElement
<1> QED BY <1>1, <1>2, FS_RemoveElement, FS_CardinalityType

LEMMA HeldIsNat ==
  ASSUME LaneTypeOK
  PROVE  \A l \in Lanes : Cardinality(InFlight(l)) \in Nat /\ leaked[l] \in Nat
<1>1. \A l \in Lanes : IsFiniteSet(InFlight(l))
  BY LocalQueueAssumption, FS_Subset DEF InFlight
<1> QED BY <1>1, FS_CardinalityType DEF LaneTypeOK

\* A reservation that ends (pushed or forgotten) gives back the room it held.
LEMMA ReservationEnds ==
  ASSUME LaneTypeOK, NeverOverbooked, NEW k \in ReplayKeys, asked[k].pc \in {"auditing", "stored"},
         NEW r \in Reservation \cup {NotAsked}, r.pc \in {"done", "none"},
         asked' = [asked EXCEPT ![k] = r], reserved' = Unreserved(k), UNCHANGED leaked
  PROVE  /\ reserved' \in [Lanes -> Nat]
         /\ \A l \in Lanes : reserved'[l] = Cardinality(InFlight(l)') + leaked'[l]
         /\ \A l \in Lanes : reserved'[l] = IF l = LaneOf[asked[k].envelope.job] THEN reserved[l] - 1 ELSE reserved[l]
<1> DEFINE lane == LaneOf[asked[k].envelope.job]
<1>1. lane \in Lanes
  BY AskedFields, JobFields
<1>2. \A h \in ReplayKeys : asked'[h] = IF h = k THEN r ELSE asked[h]
  BY DEF LaneTypeOK
<1>3. k \in InFlight(lane)
  BY DEF InFlight
<1>4. ASSUME NEW l \in Lanes PROVE InFlight(l)' = IF l = lane THEN InFlight(l) \ {k} ELSE InFlight(l)
  BY <1>2 DEF InFlight
<1> HIDE DEF lane
<1>5. /\ \A l \in Lanes :
           Cardinality(InFlight(l)') = IF l = lane THEN Cardinality(InFlight(l)) - 1 ELSE Cardinality(InFlight(l))
      /\ Cardinality(InFlight(lane)) - 1 \in Nat
  BY <1>1, <1>3, <1>4, RoomLetGo
<1>6. \A l \in Lanes : reserved'[l] = IF l = lane THEN reserved[l] - 1 ELSE reserved[l]
  BY <1>1 DEF Unreserved, LaneTypeOK, lane
<1>0. \A l \in Lanes : Cardinality(InFlight(l)) \in Nat /\ leaked[l] \in Nat
  BY HeldIsNat
<1>7. \A l \in Lanes : reserved'[l] = Cardinality(InFlight(l)') + leaked'[l]
  BY <1>0, <1>5, <1>6 DEF NeverOverbooked
<1>8. reserved' \in [Lanes -> Nat]
  <2>1. reserved[lane] - 1 \in Nat
    BY <1>0, <1>1, <1>5 DEF NeverOverbooked
  <2> QED BY <2>1, <1>1 DEF Unreserved, LaneTypeOK, lane
<1> QED BY <1>6, <1>7, <1>8 DEF lane

\* A reservation begins with the room of its lane.
LEMMA ReservationBegins ==
  ASSUME LaneTypeOK, NeverOverbooked, NEW k \in ReplayKeys, asked[k] = NotAsked, NEW lane \in Lanes,
         NEW r \in Reservation, r.pc = "auditing", LaneOf[r.envelope.job] = lane,
         asked' = [asked EXCEPT ![k] = r], reserved' = Reserved(lane), UNCHANGED leaked
  PROVE  /\ reserved' \in [Lanes -> Nat]
         /\ \A l \in Lanes : reserved'[l] = Cardinality(InFlight(l)') + leaked'[l]
         /\ \A l \in Lanes : reserved'[l] = IF l = lane THEN reserved[l] + 1 ELSE reserved[l]
<1>1. \A h \in ReplayKeys : asked'[h] = IF h = k THEN r ELSE asked[h]
  BY DEF LaneTypeOK
<1>2. \A l \in Lanes : k \notin InFlight(l)
  BY DEF InFlight, NotAsked
<1>3. ASSUME NEW l \in Lanes PROVE InFlight(l)' = IF l = lane THEN InFlight(l) \cup {k} ELSE InFlight(l)
  BY <1>1, <1>2 DEF InFlight
<1>4. \A l \in Lanes :
        Cardinality(InFlight(l)') = IF l = lane THEN Cardinality(InFlight(l)) + 1 ELSE Cardinality(InFlight(l))
  BY <1>2, <1>3, RoomHeld
<1>5. reserved' \in [Lanes -> Nat]
      /\ \A l \in Lanes : reserved'[l] = IF l = lane THEN reserved[l] + 1 ELSE reserved[l]
  BY DEF LaneTypeOK, Reserved
<1>6. ASSUME NEW l \in Lanes PROVE reserved'[l] = Cardinality(InFlight(l)') + leaked'[l]
  <2> DEFINE held == Cardinality(InFlight(l))
             heldNext == Cardinality(InFlight(l)')
  <2>1. held \in Nat /\ leaked[l] \in Nat /\ leaked'[l] = leaked[l]
    BY HeldIsNat
  <2>2. reserved[l] = held + leaked[l]
    BY DEF NeverOverbooked
  <2>3. heldNext = IF l = lane THEN held + 1 ELSE held
    BY <1>4
  <2>4. reserved'[l] = IF l = lane THEN reserved[l] + 1 ELSE reserved[l]
    BY <1>5
  <2> HIDE DEF held, heldNext
  <2>5. reserved'[l] = heldNext + leaked'[l]
    BY <2>1, <2>2, <2>3, <2>4
  <2> QED BY <2>5 DEF heldNext
<1> QED BY <1>5, <1>6

\* Nothing about replays moves.
LEMMA RoomStays ==
  ASSUME NeverOverbooked, UNCHANGED <<asked, reserved, leaked>>
  PROVE  \A l \in Lanes : reserved'[l] = Cardinality(InFlight(l)') + leaked'[l]
BY DEF NeverOverbooked, InFlight

-----------------------------------------------------------------------------
(* The invariant. *)

LEMMA LaneBegins == LaneInit => LaneIInv
<1> SUFFICES ASSUME LaneInit PROVE LaneIInv
  OBVIOUS
<1>1. LaneTypeOK
  <2>1. now \in 0 .. MaxTime /\ buried \in [Entities -> 0 .. MaxVersion] /\ replays \in [ReplayKeys -> 0 .. MaxLetters]
    BY LocalQueueAssumption DEF LaneInit
  <2>2. lanes \in [Lanes -> Seq(Envelope)] /\ letters \in Seq(Envelope) /\ Len(letters) <= MaxLetters
    BY LocalQueueAssumption DEF LaneInit
  <2> QED BY <2>1, <2>2 DEF LaneInit, LaneTypeOK
<1>2. \A l \in Lanes : InFlight(l) = {} /\ Busy(l) = {}
  <2>1. \A k \in ReplayKeys : asked[k].pc = "none"
    BY DEF LaneInit, NotAsked
  <2>2. \A x \in Executors : running[x] = Idle
    BY DEF LaneInit
  <2> QED BY <2>1, <2>2 DEF InFlight, Busy
<1>3. \A l \in Lanes : Len(lanes[l]) = 0 /\ reserved[l] = 0 /\ leaked[l] = 0 /\ active[l] = 0 /\ Capacity[l] \in Nat
  BY LocalQueueAssumption DEF LaneInit
<1>4. Cardinality({}) = 0
  BY FS_EmptySet
<1>5. NeverOverbooked
  <2> SUFFICES ASSUME NEW l \in Lanes
               PROVE  reserved[l] = Cardinality(InFlight(l)) + leaked[l] /\ Len(lanes[l]) + reserved[l] <= Capacity[l]
    BY DEF NeverOverbooked
  <2>1. InFlight(l) = {}
    BY <1>2
  <2>2. Len(lanes[l]) + reserved[l] <= Capacity[l]
    BY <1>3
  <2> QED BY <1>3, <1>4, <2>1, <2>2
<1>6. SemaphoresCount
  <2> SUFFICES ASSUME NEW l \in Lanes
               PROVE  active[l] = Cardinality(Busy(l)) /\ active[l] <= Concurrency[l]
    BY DEF SemaphoresCount
  <2>1. Busy(l) = {} /\ active[l] = 0
    BY <1>2, <1>3
  <2>2. Concurrency[l] \in Nat
    BY LocalQueueAssumption
  <2> QED BY <1>4, <2>1, <2>2
<1>7. ReplayTrack
  BY DEF LaneInit, ReplayTrack, NotAsked
<1> QED BY <1>1, <1>5, <1>6, <1>7 DEF LaneIInv
\* What does not move keeps its part of the invariant.
LEMMA CallsStay ==
  ASSUME SemaphoresCount, UNCHANGED <<running, active>>
  PROVE  SemaphoresCount'
BY DEF SemaphoresCount, Busy

LEMMA ReplaysStay ==
  ASSUME ReplayTrack, UNCHANGED replayVars
  PROVE  ReplayTrack'
BY DEF ReplayTrack, replayVars

LEMMA LanesDoNotGrow ==
  ASSUME LaneTypeOK, NeverOverbooked, UNCHANGED <<asked, reserved, leaked>>,
         \A l \in Lanes : Len(lanes'[l]) <= Len(lanes[l]) /\ Len(lanes'[l]) \in Nat
  PROVE  NeverOverbooked'
BY RoomStays, LocalQueueAssumption DEF NeverOverbooked, LaneTypeOK

\* An envelope that found room.
LEMMA PushedWithRoom ==
  ASSUME LaneTypeOK, NeverOverbooked, UNCHANGED <<asked, reserved, leaked>>,
         NEW envelope \in Envelope, Room(LaneOf[envelope.job]), lanes' = Pushing(envelope)
  PROVE  lanes' \in [Lanes -> Seq(Envelope)] /\ NeverOverbooked'
<1>1. /\ lanes' \in [Lanes -> Seq(Envelope)]
      /\ Len(lanes'[LaneOf[envelope.job]]) = Len(lanes[LaneOf[envelope.job]]) + 1
      /\ \A l \in Lanes : l # LaneOf[envelope.job] => lanes'[l] = lanes[l]
  BY PushingLane
<1>2. ASSUME NEW l \in Lanes PROVE Len(lanes'[l]) + reserved'[l] <= Capacity[l]
  <2>1. Len(lanes[l]) \in Nat /\ reserved[l] \in Nat /\ Capacity[l] \in Nat
    BY LocalQueueAssumption DEF LaneTypeOK
  <2>2. CASE l = LaneOf[envelope.job]
    BY <1>1, <2>1, <2>2 DEF Room
  <2>3. CASE l # LaneOf[envelope.job]
    BY <1>1, <2>1, <2>3 DEF NeverOverbooked
  <2> QED BY <2>2, <2>3
<1> QED BY <1>1, <1>2, RoomStays DEF NeverOverbooked

LEMMA EnqueueKeeps ==
  ASSUME LaneIInv, NEW j \in Jobs, Enqueue(j)
  PROVE  LaneIInv'
<1> DEFINE envelope == [job |-> j, attempt |-> 0, since |-> now]
<1>1. envelope \in Envelope /\ Room(LaneOf[envelope.job]) /\ lanes' = Pushing(envelope)
  BY NewEnvelope DEF Enqueue, LaneIInv
<1> HIDE DEF envelope
<1>2. lanes' \in [Lanes -> Seq(Envelope)] /\ NeverOverbooked'
  BY <1>1, PushedWithRoom DEF Enqueue, replayVars, tombVars, LaneIInv
<1>3. LaneTypeOK'
  BY <1>2 DEF Enqueue, replayVars, tombVars, LaneIInv, LaneTypeOK
<1> QED BY <1>2, <1>3, CallsStay, ReplaysStay DEF Enqueue, LaneIInv

LEMMA RevokeKeeps ==
  ASSUME LaneIInv, NEW j \in Jobs, NEW e \in Entities, NEW version \in 1 .. MaxVersion, Revoke(j, e, version)
  PROVE  LaneIInv'
<1> DEFINE envelope == [job |-> j, attempt |-> 0, since |-> now]
<1>1. envelope \in Envelope /\ Room(LaneOf[envelope.job]) /\ lanes' = Pushing(envelope)
  BY NewEnvelope DEF Revoke, LaneIInv
<1> HIDE DEF envelope
<1>2. lanes' \in [Lanes -> Seq(Envelope)] /\ NeverOverbooked'
  BY <1>1, PushedWithRoom DEF Revoke, replayVars, tombVars, LaneIInv
<1>3. buried' \in [Entities -> 0 .. MaxVersion]
  BY LocalQueueAssumption DEF Revoke, LaneIInv, LaneTypeOK
<1>5. revocations' \subseteq Revocation
  BY DEF Revoke, Revocation, LaneIInv, LaneTypeOK
<1>4. LaneTypeOK'
  BY <1>2, <1>3, <1>5 DEF Revoke, replayVars, tombVars, LaneIInv, LaneTypeOK
<1> QED BY <1>2, <1>4, CallsStay, ReplaysStay DEF Revoke, LaneIInv

LEMMA RetryKeeps ==
  ASSUME LaneIInv, NEW w \in waiting, Retry(w)
  PROVE  LaneIInv'
<1>1. w.envelope \in Envelope
  BY DEF LaneIInv, LaneTypeOK, WaitingType
<1>2. lanes' \in [Lanes -> Seq(Envelope)] /\ NeverOverbooked'
  BY <1>1, PushedWithRoom DEF Retry, replayVars, tombVars, LaneIInv
<1>3. LaneTypeOK'
  BY <1>2 DEF Retry, replayVars, tombVars, LaneIInv, LaneTypeOK
<1> QED BY <1>2, <1>3, CallsStay, ReplaysStay DEF Retry, LaneIInv

LEMMA TakeKeeps ==
  ASSUME LaneIInv, NEW x \in Executors, Take(x)
  PROVE  LaneIInv'
<1>1. Serves[x] \in Lanes /\ lanes[Serves[x]] \in Seq(Envelope) /\ lanes[Serves[x]] # <<>>
  BY LocalQueueAssumption DEF Take, Available, LaneIInv, LaneTypeOK
<1>2. Head(lanes[Serves[x]]) \in Envelope /\ Tail(lanes[Serves[x]]) \in Seq(Envelope)
      /\ Len(Tail(lanes[Serves[x]])) = Len(lanes[Serves[x]]) - 1
  BY <1>1
<1>3. lanes' \in [Lanes -> Seq(Envelope)]
      /\ \A l \in Lanes : lanes'[l] = IF l = Serves[x] THEN Tail(lanes[l]) ELSE lanes[l]
  BY <1>1, <1>2 DEF Take, LaneIInv, LaneTypeOK
<1>4. ASSUME NEW l \in Lanes
      PROVE  Len(lanes'[l]) <= Len(lanes[l]) /\ Len(lanes'[l]) \in Nat
  <2>1. lanes[l] \in Seq(Envelope) /\ Len(lanes[l]) \in Nat
    BY DEF LaneIInv, LaneTypeOK
  <2>2. CASE l = Serves[x]
    <3>1. lanes'[l] = Tail(lanes[l]) /\ Len(lanes'[l]) = Len(lanes[l]) - 1
      BY <1>2, <1>3, <2>2
    <3>2. lanes'[l] \in Seq(Envelope)
      BY <1>3
    <3>3. Len(lanes'[l]) \in Nat
      BY <3>2
    <3> QED BY <2>1, <3>1, <3>3
  <2>3. CASE l # Serves[x]
    BY <1>3, <2>1, <2>3
  <2> QED BY <2>2, <2>3
<1>5. NeverOverbooked'
  BY <1>4, LanesDoNotGrow DEF Take, replayVars, tombVars, LaneIInv
<1>6. active' \in [Lanes -> Nat] /\ running' \in [Executors -> Envelope \cup {Idle}] /\ SemaphoresCount'
  BY <1>2, CallStarts DEF Take, Available, LaneIInv
<1>7. LaneTypeOK'
  BY <1>3, <1>6 DEF Take, replayVars, tombVars, LaneIInv, LaneTypeOK
<1> QED BY <1>5, <1>6, <1>7, ReplaysStay DEF Take, LaneIInv

\* What an executor works on.
LEMMA RunningFields ==
  ASSUME LaneTypeOK, NEW x \in Executors, running[x] # Idle
  PROVE  running[x] \in Envelope /\ running[x].job \in Jobs
BY DEF LaneTypeOK, Envelope

LEMMA LanesAlone ==
  ASSUME LaneTypeOK, NeverOverbooked, UNCHANGED <<asked, reserved, leaked, lanes>>
  PROVE  NeverOverbooked'
BY LanesDoNotGrow DEF LaneTypeOK

LEMMA FinishKeeps ==
  ASSUME LaneIInv, NEW x \in Executors, Finish(x)
  PROVE  LaneIInv'
<1>1. active' \in [Lanes -> Nat] /\ running' \in [Executors -> Envelope \cup {Idle}] /\ SemaphoresCount'
  BY CallEnds DEF Finish, LaneIInv
<1>2. LaneTypeOK'
  BY <1>1 DEF Finish, replayVars, tombVars, LaneIInv, LaneTypeOK
<1> QED BY <1>1, <1>2, LanesAlone, ReplaysStay DEF Finish, replayVars, tombVars, LaneIInv

LEMMA FailForNowKeeps ==
  ASSUME LaneIInv, NEW x \in Executors, NEW after \in 0 .. MaxDelay, FailForNow(x, after)
  PROVE  LaneIInv'
<1>1. active' \in [Lanes -> Nat] /\ running' \in [Executors -> Envelope \cup {Idle}] /\ SemaphoresCount'
  BY CallEnds DEF FailForNow, LaneIInv
<1>2. PICK delay \in Delays(running[x], after) :
        /\ Retryable(running[x], delay)
        /\ waiting' = waiting \cup
             {[envelope |-> [job |-> running[x].job, attempt |-> running[x].attempt + 1, since |-> running[x].since],
               due |-> now + delay]}
  BY DEF FailForNow
<1>3. running[x] \in Envelope /\ delay \in Nat
  BY RunningFields, DelaysAreTimes DEF FailForNow, LaneIInv
<1>4. /\ running[x].attempt \in Nat /\ running[x].attempt < LastAttempt
      /\ running[x].since \in 0 .. MaxTime /\ now \in 0 .. MaxTime
      /\ now + delay <= running[x].since + Window
  BY <1>2, <1>3, LocalQueueAssumption DEF Retryable, Envelope, LaneIInv, LaneTypeOK
<1>5. [job |-> running[x].job, attempt |-> running[x].attempt + 1, since |-> running[x].since] \in Envelope
  BY <1>3, <1>4, LocalQueueAssumption DEF Envelope
<1>6. now + delay \in 0 .. MaxTime + Window
  BY <1>3, <1>4, LocalQueueAssumption
<1>7. waiting' \subseteq WaitingType
  BY <1>2, <1>4, <1>5, <1>6 DEF WaitingType, LaneIInv, LaneTypeOK
<1>8. LaneTypeOK'
  BY <1>1, <1>7 DEF FailForNow, replayVars, tombVars, LaneIInv, LaneTypeOK
<1> QED BY <1>1, <1>8, LanesAlone, ReplaysStay DEF FailForNow, replayVars, tombVars, LaneIInv

LEMMA FailForGoodKeeps ==
  ASSUME LaneIInv, NEW x \in Executors, FailForGood(x)
  PROVE  LaneIInv'
<1>1. active' \in [Lanes -> Nat] /\ running' \in [Executors -> Envelope \cup {Idle}] /\ SemaphoresCount'
  BY CallEnds DEF FailForGood, LaneIInv
<1>2. running[x] \in Envelope
  BY RunningFields DEF FailForGood, LaneIInv
<1>3. letters' \in Seq(Envelope) /\ Len(letters') <= MaxLetters
  BY <1>2, LocalQueueAssumption DEF FailForGood, LaneIInv, LaneTypeOK
<1>4. LaneTypeOK'
  BY <1>1, <1>3 DEF FailForGood, replayVars, tombVars, LaneIInv, LaneTypeOK
<1> QED BY <1>1, <1>4, LanesAlone, ReplaysStay DEF FailForGood, replayVars, tombVars, LaneIInv

LEMMA TickKeeps ==
  ASSUME LaneIInv, Tick
  PROVE  LaneIInv'
<1>1. LaneTypeOK'
  BY LocalQueueAssumption DEF Tick, replayVars, tombVars, LaneIInv, LaneTypeOK
<1> QED BY <1>1, LanesAlone, CallsStay, ReplaysStay DEF Tick, replayVars, tombVars, LaneIInv

LEMMA ForbidKeeps ==
  ASSUME LaneIInv, NEW letter \in Letters, Forbid(letter)
  PROVE  LaneIInv'
<1>1. LaneTypeOK'
  BY DEF Forbid, tombVars, LaneIInv, LaneTypeOK, AuditEvent
<1>2. ReplayTrack'
  BY DEF Forbid, tombVars, LaneIInv, ReplayTrack
<1> QED BY <1>1, <1>2, LanesAlone, CallsStay DEF Forbid, tombVars, LaneIInv
LEMMA ReplayKeeps ==
  ASSUME LaneIInv, NEW k \in ReplayKeys, NEW letter \in Letters, NEW j \in Jobs, Replay(k, letter, j)
  PROVE  LaneIInv'
<1> DEFINE lane == LaneOf[letters[letter].job]
           r == [pc |-> "auditing", letter |-> letter, envelope |-> [job |-> j, attempt |-> 0, since |-> now]]
<1>1. lane \in Lanes /\ LaneOf[j] = lane /\ asked[k] = NotAsked /\ Room(lane)
  BY JobFields DEF Replay, Admitted
<1>2. r \in Reservation /\ r.pc = "auditing" /\ LaneOf[r.envelope.job] = lane
  BY <1>1, NewEnvelope DEF Reservation, LaneIInv
<1>3. asked' = [asked EXCEPT ![k] = r] /\ reserved' = Reserved(lane) /\ UNCHANGED leaked
  BY DEF Replay
<1> HIDE DEF lane, r
<1>4. /\ reserved' \in [Lanes -> Nat]
      /\ \A l \in Lanes : reserved'[l] = Cardinality(InFlight(l)') + leaked'[l]
      /\ \A l \in Lanes : reserved'[l] = IF l = lane THEN reserved[l] + 1 ELSE reserved[l]
  BY <1>1, <1>2, <1>3, ReservationBegins DEF LaneIInv
<1>5. ASSUME NEW l \in Lanes PROVE Len(lanes'[l]) + reserved'[l] <= Capacity[l]
  <2>1. Len(lanes[l]) \in Nat /\ reserved[l] \in Nat /\ Capacity[l] \in Nat /\ lanes' = lanes
    <3>1. lanes' = lanes
      BY DEF Replay
    <3> QED BY <3>1, LocalQueueAssumption DEF LaneIInv, LaneTypeOK
  <2>2. CASE l = lane
    BY <1>1, <1>4, <2>1, <2>2 DEF Room
  <2>3. CASE l # lane
    BY <1>4, <2>1, <2>3 DEF LaneIInv, NeverOverbooked
  <2> QED BY <2>2, <2>3
<1>6. NeverOverbooked'
  BY <1>4, <1>5 DEF NeverOverbooked
<1>7. asked' \in [ReplayKeys -> Reservation \cup {NotAsked}]
      /\ \A h \in ReplayKeys : asked'[h] = IF h = k THEN r ELSE asked[h]
  BY <1>2, <1>3 DEF LaneIInv, LaneTypeOK
<1>8. LaneTypeOK'
  BY <1>4, <1>7 DEF Replay, tombVars, LaneIInv, LaneTypeOK
<1>9. ReplayTrack'
  <2>1. asked[k].pc = "none" /\ replays[k] = 0
    BY DEF Replay, Admitted, NotAsked
  <2> QED BY <1>2, <1>7, <2>1 DEF Replay, LaneIInv, ReplayTrack
<1> QED BY <1>6, <1>8, <1>9, CallsStay DEF Replay, LaneIInv

\* Room that no replay holds is counted as such.
LEMMA LeakKeeps ==
  ASSUME LaneIInv, NEW k \in ReplayKeys, NEW letter \in Letters, Leak(k, letter)
  PROVE  LaneIInv'
<1> DEFINE lane == LaneOf[letters[letter].job]
<1>0. letters[letter].job \in Jobs
  <2>1. letters \in Seq(Envelope) /\ letter \in 1 .. Len(letters)
    BY LocalQueueAssumption DEF Leak, Admitted, Letters, LaneIInv, LaneTypeOK
  <2>2. letters[letter] \in Envelope
    BY <2>1
  <2> QED BY <2>2 DEF Envelope
<1>1. lane \in Lanes /\ Room(lane)
  BY <1>0, JobFields DEF Leak, Admitted
<1>2. /\ reserved' = [reserved EXCEPT ![lane] = @ + 1]
      /\ leaked' = [leaked EXCEPT ![lane] = @ + 1]
      /\ lanes' = lanes /\ asked' = asked
  BY DEF Leak, Reserved, replayVars
<1> HIDE DEF lane
<1>3. reserved' \in [Lanes -> Nat] /\ leaked' \in [Lanes -> Nat]
  BY <1>1, <1>2 DEF LaneIInv, LaneTypeOK
<1>4. NeverOverbooked'
  <2> SUFFICES ASSUME NEW l \in Lanes
               PROVE  /\ reserved'[l] = Cardinality(InFlight(l)') + leaked'[l]
                      /\ Len(lanes'[l]) + reserved'[l] <= Capacity[l]
    BY DEF NeverOverbooked
  <2>1. Len(lanes[l]) \in Nat /\ reserved[l] \in Nat /\ Capacity[l] \in Nat
    BY LocalQueueAssumption DEF LaneIInv, LaneTypeOK
  <2>2. Cardinality(InFlight(l)) \in Nat /\ leaked[l] \in Nat /\ InFlight(l)' = InFlight(l)
    BY <1>2, HeldIsNat DEF InFlight, LaneIInv
  <2>3. reserved[l] = Cardinality(InFlight(l)) + leaked[l] /\ Len(lanes[l]) + reserved[l] <= Capacity[l]
    BY DEF LaneIInv, NeverOverbooked
  <2>4. /\ reserved'[l] = IF l = lane THEN reserved[l] + 1 ELSE reserved[l]
        /\ leaked'[l] = IF l = lane THEN leaked[l] + 1 ELSE leaked[l]
        /\ lanes'[l] = lanes[l]
    BY <1>2 DEF LaneIInv, LaneTypeOK
  <2>5. reserved'[l] = Cardinality(InFlight(l)') + leaked'[l]
    BY <2>1, <2>2, <2>3, <2>4
  <2>6. Len(lanes'[l]) + reserved'[l] <= Capacity[l]
    BY <1>1, <2>1, <2>3, <2>4 DEF Room
  <2> QED BY <2>5, <2>6
<1>5. LaneTypeOK'
  BY <1>3 DEF Leak, replayVars, tombVars, LaneIInv, LaneTypeOK
<1> QED BY <1>4, <1>5, CallsStay, ReplaysStay DEF Leak, LaneIInv

LEMMA AuditStoredKeeps ==
  ASSUME LaneIInv, NEW k \in ReplayKeys, AuditStored(k)
  PROVE  LaneIInv'
<1> DEFINE r == [pc |-> "stored", letter |-> asked[k].letter, envelope |-> asked[k].envelope]
<1>1. r \in Reservation /\ r.pc = "stored" /\ r.letter = asked[k].letter /\ r.envelope = asked[k].envelope
  BY AskedFields DEF AuditStored, Reservation, LaneIInv
<1>2. asked' = [asked EXCEPT ![k] = r]
  BY DEF AuditStored
<1> HIDE DEF r
<1>3. asked' \in [ReplayKeys -> Reservation \cup {NotAsked}]
      /\ \A h \in ReplayKeys : asked'[h] = IF h = k THEN r ELSE asked[h]
  BY <1>1, <1>2 DEF LaneIInv, LaneTypeOK
<1>4. \A l \in Lanes : InFlight(l)' = InFlight(l)
  BY <1>1, <1>3 DEF AuditStored, InFlight
<1>5. NeverOverbooked'
  BY <1>4 DEF AuditStored, LaneIInv, NeverOverbooked
<1>6. [letter |-> asked[k].letter, key |-> k] \in AuditEvent
  BY AskedFields DEF AuditStored, AuditEvent, LaneIInv
<1>7. LaneTypeOK'
  BY <1>3, <1>6 DEF AuditStored, tombVars, LaneIInv, LaneTypeOK
<1>8. ReplayTrack'
  BY <1>1, <1>3 DEF AuditStored, LaneIInv, ReplayTrack
<1> QED BY <1>5, <1>7, <1>8, CallsStay DEF AuditStored, LaneIInv

LEMMA PushKeeps ==
  ASSUME LaneIInv, NEW k \in ReplayKeys, Push(k)
  PROVE  LaneIInv'
<1> DEFINE r == [pc |-> "done", letter |-> asked[k].letter, envelope |-> asked[k].envelope]
           lane == LaneOf[asked[k].envelope.job]
<1>1. /\ asked[k].pc = "stored" /\ asked[k].envelope \in Envelope /\ asked[k].letter \in Letters
      /\ r \in Reservation /\ r.pc = "done" /\ lane \in Lanes
  BY AskedFields, JobFields DEF Push, Reservation, LaneIInv
<1>2. asked' = [asked EXCEPT ![k] = r] /\ reserved' = Unreserved(k) /\ lanes' = Pushing(asked[k].envelope)
      /\ UNCHANGED leaked
  BY DEF Push
<1> HIDE DEF r
<1>3. /\ reserved' \in [Lanes -> Nat]
      /\ \A l \in Lanes : reserved'[l] = Cardinality(InFlight(l)') + leaked'[l]
      /\ \A l \in Lanes : reserved'[l] = IF l = lane THEN reserved[l] - 1 ELSE reserved[l]
  BY <1>1, <1>2, ReservationEnds DEF LaneIInv
<1>4. /\ lanes' \in [Lanes -> Seq(Envelope)]
      /\ Len(lanes'[lane]) = Len(lanes[lane]) + 1
      /\ \A l \in Lanes : l # lane => lanes'[l] = lanes[l]
  BY <1>1, <1>2, PushingLane DEF LaneIInv
<1> HIDE DEF lane
<1>5. ASSUME NEW l \in Lanes PROVE Len(lanes'[l]) + reserved'[l] <= Capacity[l]
  <2>1. Len(lanes[l]) \in Nat /\ reserved[l] \in Nat /\ Capacity[l] \in Nat
        /\ Len(lanes[l]) + reserved[l] <= Capacity[l]
    BY LocalQueueAssumption DEF LaneIInv, LaneTypeOK, NeverOverbooked
  <2>2. CASE l = lane
    <3>1. Len(lanes'[l]) = Len(lanes[l]) + 1 /\ reserved'[l] = reserved[l] - 1
      BY <1>3, <1>4, <2>2
    <3> QED BY <2>1, <3>1
  <2>3. CASE l # lane
    <3>1. lanes'[l] = lanes[l] /\ reserved'[l] = reserved[l]
      BY <1>3, <1>4, <2>3
    <3> QED BY <2>1, <3>1
  <2> QED BY <2>2, <2>3
<1>6. NeverOverbooked'
  BY <1>3, <1>5 DEF NeverOverbooked
<1>7. asked' \in [ReplayKeys -> Reservation \cup {NotAsked}]
      /\ \A h \in ReplayKeys : asked'[h] = IF h = k THEN r ELSE asked[h]
  BY <1>1, <1>2 DEF LaneIInv, LaneTypeOK
<1>8. replays' \in [ReplayKeys -> 0 .. MaxLetters] /\ pushes' \in [ReplayKeys -> Nat]
  <2>1. asked[k].letter \in 0 .. MaxLetters
    BY <1>1, LocalQueueAssumption DEF Letters
  <2>2. pushes[k] + 1 \in Nat
    BY DEF LaneIInv, LaneTypeOK
  <2> QED BY <2>1, <2>2 DEF Push, LaneIInv, LaneTypeOK
<1>9. LaneTypeOK'
  BY <1>3, <1>4, <1>7, <1>8 DEF Push, tombVars, LaneIInv, LaneTypeOK
<1>10. ReplayTrack'
  <2>0. /\ replays[k] = 0 /\ pushes[k] = 0
        /\ [letter |-> asked[k].letter, key |-> k] \in sink
    BY <1>1 DEF LaneIInv, ReplayTrack
  <2>1. asked[k].letter # 0
    BY <1>1 DEF Letters
  <2>2. \A h \in ReplayKeys : /\ replays'[h] = IF h = k THEN asked[k].letter ELSE replays[h]
                              /\ pushes'[h] = IF h = k THEN 1 ELSE pushes[h]
    BY <2>0 DEF Push, LaneIInv, LaneTypeOK
  <2> QED BY <1>1, <1>7, <2>0, <2>1, <2>2 DEF Push, LaneIInv, ReplayTrack
<1> QED BY <1>6, <1>9, <1>10, CallsStay DEF Push, LaneIInv

LEMMA ForgetKeeps ==
  ASSUME LaneIInv, NEW k \in ReplayKeys, Forget(k)
  PROVE  LaneIInv'
<1>1. NotAsked.pc = "none" /\ asked[k].pc # "none"
  BY DEF NotAsked, Forget
<1>2. asked[k].envelope.job \in Jobs /\ LaneOf[asked[k].envelope.job] \in Lanes
  BY <1>1, AskedFields, JobFields DEF LaneIInv
<1>3. /\ reserved' \in [Lanes -> Nat]
      /\ \A l \in Lanes : reserved'[l] = Cardinality(InFlight(l)') + leaked'[l]
      /\ \A l \in Lanes : reserved'[l] = IF l = LaneOf[asked[k].envelope.job] THEN reserved[l] - 1 ELSE reserved[l]
  BY <1>1, ReservationEnds DEF Forget, LaneIInv
<1>4. ASSUME NEW l \in Lanes PROVE Len(lanes'[l]) + reserved'[l] <= Capacity[l]
  <2>1. Len(lanes[l]) \in Nat /\ reserved[l] \in Nat /\ Capacity[l] \in Nat /\ lanes' = lanes
        /\ Len(lanes[l]) + reserved[l] <= Capacity[l]
    BY LocalQueueAssumption DEF LaneIInv, LaneTypeOK, NeverOverbooked, Forget
  <2> QED BY <1>3, <2>1
<1>5. NeverOverbooked'
  BY <1>3, <1>4 DEF NeverOverbooked
<1>6. asked' \in [ReplayKeys -> Reservation \cup {NotAsked}]
      /\ \A h \in ReplayKeys : asked'[h] = IF h = k THEN NotAsked ELSE asked[h]
  BY DEF Forget, LaneIInv, LaneTypeOK
<1>7. LaneTypeOK'
  BY <1>2, <1>3, <1>6 DEF Forget, tombVars, LaneIInv, LaneTypeOK
<1>8. ReplayTrack'
  BY <1>1, <1>6 DEF Forget, LaneIInv, ReplayTrack
<1> QED BY <1>5, <1>7, <1>8, CallsStay DEF Forget, LaneIInv

LEMMA LaneSteps == LaneIInv /\ [LaneNext]_laneVars => LaneIInv'
<1> SUFFICES ASSUME LaneIInv, [LaneNext]_laneVars PROVE LaneIInv'
  OBVIOUS
<1>1. CASE UNCHANGED laneVars
  <2>1. LaneTypeOK'
    BY <1>1 DEF laneVars, replayVars, tombVars, LaneIInv, LaneTypeOK
  <2> QED BY <1>1, <2>1, LanesAlone, CallsStay, ReplaysStay DEF laneVars, replayVars, tombVars, LaneIInv
<1>2. CASE LaneNext
  BY <1>2, EnqueueKeeps, RevokeKeeps, RetryKeeps, TakeKeeps, FinishKeeps, FailForNowKeeps, FailForGoodKeeps,
     TickKeeps, ForbidKeeps, ReplayKeeps, LeakKeeps, AuditStoredKeeps, PushKeeps, ForgetKeeps DEF LaneNext
<1> QED BY <1>1, <1>2

LEMMA LaneInvariant == LaneSpec => []LaneIInv
BY LaneBegins, LaneSteps, PTL DEF LaneSpec

-----------------------------------------------------------------------------
(* The tombstones.  A replay takes a job id and may give it back: that it never is the
   id of a revocation needs that waiting replays have their ids to themselves. *)

Waits(k) == asked[k].pc \in {"auditing", "stored"}
HeldJob(k) == asked[k].envelope.job

OwnJobs ==
  \A k \in ReplayKeys : Waits(k) =>
    /\ HeldJob(k) \notin fresh
    /\ \A h \in ReplayKeys : Waits(h) /\ HeldJob(h) = HeldJob(k) => h = k
    /\ \A r \in revocations : r.job # HeldJob(k)

TombIInv == OwnJobs /\ BuriedAsRevoked

LEMMA TombBegins == LaneInit => TombIInv
<1> SUFFICES ASSUME LaneInit PROVE TombIInv
  OBVIOUS
<1>1. \A k \in ReplayKeys : ~Waits(k)
  BY DEF LaneInit, Waits, NotAsked
<1>2. revocations = {} /\ \A e \in Entities : buried[e] = 0
  BY DEF LaneInit
<1> QED BY <1>1, <1>2 DEF TombIInv, OwnJobs, BuriedAsRevoked

\* Ids are only taken, and replays and tombstones do not move.
LEMMA TombsStay ==
  ASSUME TombIInv, fresh' \subseteq fresh, UNCHANGED <<asked, tombVars>>
  PROVE  TombIInv'
<1>1. BuriedAsRevoked'
  BY DEF TombIInv, BuriedAsRevoked, tombVars
<1>2. \A k \in ReplayKeys : Waits(k)' = Waits(k) /\ HeldJob(k)' = HeldJob(k)
  BY DEF Waits, HeldJob
<1>3. OwnJobs'
  BY <1>2 DEF TombIInv, OwnJobs, tombVars
<1> QED BY <1>1, <1>3 DEF TombIInv

LEMMA RevokeTombs ==
  ASSUME LaneTypeOK, TombIInv, NEW j \in Jobs, NEW e \in Entities, NEW version \in 1 .. MaxVersion,
         Revoke(j, e, version)
  PROVE  TombIInv'
<1> DEFINE r == [job |-> j, entity |-> e, version |-> version]
<1>1. /\ j \in fresh /\ fresh' = fresh \ {j} /\ asked' = asked
      /\ revocations' = revocations \cup {r}
  BY DEF Revoke, replayVars
<1>2. \A d \in Entities : /\ buried[d] \in Nat
                          /\ buried'[d] = IF d = e /\ version > buried[d] THEN version ELSE buried[d]
  BY LocalQueueAssumption DEF Revoke, LaneTypeOK
<1>3. version \in Nat /\ version > 0
  BY LocalQueueAssumption
<1>4. r.job = j /\ r.entity = e /\ r.version = version
  OBVIOUS
<1> HIDE DEF r
<1>5. OwnJobs'
  <2>1. \A k \in ReplayKeys : Waits(k)' = Waits(k) /\ HeldJob(k)' = HeldJob(k)
    BY <1>1 DEF Waits, HeldJob
  <2> QED BY <1>1, <1>4, <2>1 DEF TombIInv, OwnJobs
<1>6. ASSUME NEW q \in revocations' PROVE q.job \notin fresh' /\ q.version <= buried'[q.entity]
  <2>1. CASE q = r
    BY <1>1, <1>2, <1>3, <1>4, <2>1
  <2>2. CASE q # r
    <3>1. q \in revocations /\ q \in Revocation
      BY <1>1, <2>2 DEF LaneTypeOK
    <3>2. q.entity \in Entities /\ q.version \in Nat
      BY <3>1, LocalQueueAssumption DEF Revocation
    <3>3. q.job \notin fresh /\ q.version <= buried[q.entity]
      BY <3>1 DEF TombIInv, BuriedAsRevoked
    <3>4. buried[q.entity] <= buried'[q.entity] /\ buried'[q.entity] \in Nat
      BY <1>2, <1>3, <3>2
    <3> QED BY <1>1, <1>2, <3>2, <3>3, <3>4
  <2> QED BY <2>1, <2>2
<1>7. ASSUME NEW d \in Entities, buried'[d] > 0
      PROVE  \E q \in revocations' : q.entity = d /\ q.version = buried'[d]
  <2>1. CASE d = e /\ version > buried[d]
    BY <1>1, <1>2, <1>4, <2>1
  <2>2. CASE ~(d = e /\ version > buried[d])
    BY <1>1, <1>2, <1>7, <2>2 DEF TombIInv, BuriedAsRevoked
  <2> QED BY <2>1, <2>2
<1>8. BuriedAsRevoked'
  BY <1>6, <1>7 DEF BuriedAsRevoked
<1> QED BY <1>5, <1>8 DEF TombIInv

\* A replay takes an id that nobody has used.
LEMMA ReplayTombs ==
  ASSUME LaneTypeOK, TombIInv, NEW k \in ReplayKeys, NEW letter \in Letters, NEW j \in Jobs,
         Replay(k, letter, j)
  PROVE  TombIInv'
<1>1. /\ j \in fresh /\ fresh' = fresh \ {j} /\ UNCHANGED tombVars
      /\ asked' = [asked EXCEPT ![k] =
           [pc |-> "auditing", letter |-> letter, envelope |-> [job |-> j, attempt |-> 0, since |-> now]]]
  BY DEF Replay
<1>2. \A h \in ReplayKeys : h # k => Waits(h)' = Waits(h) /\ HeldJob(h)' = HeldJob(h)
  BY <1>1 DEF Waits, HeldJob, LaneTypeOK
<1>3. HeldJob(k)' = j
  BY <1>1 DEF HeldJob, LaneTypeOK
<1>4. \A r \in revocations : r.job # j
  BY <1>1 DEF TombIInv, BuriedAsRevoked
<1>5. BuriedAsRevoked'
  BY <1>1 DEF TombIInv, BuriedAsRevoked, tombVars
<1>6. OwnJobs'
  <2> SUFFICES ASSUME NEW h \in ReplayKeys, Waits(h)'
               PROVE  /\ HeldJob(h)' \notin fresh'
                      /\ \A g \in ReplayKeys : Waits(g)' /\ HeldJob(g)' = HeldJob(h)' => g = h
                      /\ \A r \in revocations' : r.job # HeldJob(h)'
    BY DEF OwnJobs
  <2>1. revocations' = revocations
    BY <1>1 DEF tombVars
  <2>2. \A g \in ReplayKeys : g # k /\ Waits(g)' => HeldJob(g)' # j
    BY <1>1, <1>2 DEF TombIInv, OwnJobs
  <2>3. CASE h = k
    BY <1>1, <1>3, <1>4, <2>1, <2>2, <2>3
  <2>4. CASE h # k
    BY <1>1, <1>2, <1>3, <2>1, <2>2, <2>4 DEF TombIInv, OwnJobs
  <2> QED BY <2>3, <2>4
<1> QED BY <1>5, <1>6 DEF TombIInv

\* The id that a failed replay gives back is nobody else's.
LEMMA ForgetTombs ==
  ASSUME LaneTypeOK, TombIInv, NEW k \in ReplayKeys, Forget(k)
  PROVE  TombIInv'
<1>1. /\ Waits(k) /\ fresh' = fresh \cup {HeldJob(k)} /\ UNCHANGED tombVars
      /\ asked' = [asked EXCEPT ![k] = NotAsked]
  BY DEF Forget, Waits, HeldJob
<1>2. \A h \in ReplayKeys : h # k => Waits(h)' = Waits(h) /\ HeldJob(h)' = HeldJob(h)
  BY <1>1 DEF Waits, HeldJob, LaneTypeOK
<1>3. ~Waits(k)'
  BY <1>1 DEF Waits, NotAsked, LaneTypeOK
<1>4. /\ revocations' = revocations /\ buried' = buried
      /\ \A r \in revocations : r.job # HeldJob(k)
      /\ \A h \in ReplayKeys : Waits(h) /\ h # k => HeldJob(h) # HeldJob(k)
  BY <1>1 DEF tombVars, TombIInv, OwnJobs
<1>5. BuriedAsRevoked'
  BY <1>1, <1>4 DEF TombIInv, BuriedAsRevoked
<1>6. OwnJobs'
  BY <1>1, <1>2, <1>3, <1>4 DEF TombIInv, OwnJobs
<1> QED BY <1>5, <1>6 DEF TombIInv

\* A replay that goes on keeps its id.
LEMMA GoesOnTombs ==
  ASSUME LaneTypeOK, TombIInv, NEW k \in ReplayKeys, Waits(k), NEW pc \in {"stored", "done"},
         asked' = [asked EXCEPT ![k] = [pc |-> pc, letter |-> asked[k].letter, envelope |-> asked[k].envelope]],
         UNCHANGED <<fresh, tombVars>>
  PROVE  TombIInv'
<1>1. \A h \in ReplayKeys : (Waits(h)' => Waits(h)) /\ HeldJob(h)' = HeldJob(h)
  BY DEF Waits, HeldJob, LaneTypeOK
<1>2. BuriedAsRevoked'
  BY DEF TombIInv, BuriedAsRevoked, tombVars
<1>3. OwnJobs'
  BY <1>1 DEF TombIInv, OwnJobs, tombVars
<1> QED BY <1>2, <1>3 DEF TombIInv

LEMMA TombSteps == LaneTypeOK /\ TombIInv /\ [LaneNext]_laneVars => TombIInv'
<1> SUFFICES ASSUME LaneTypeOK, TombIInv, [LaneNext]_laneVars PROVE TombIInv'
  OBVIOUS
<1>1. ASSUME NEW j \in Jobs, Enqueue(j) PROVE TombIInv'
  BY <1>1, TombsStay DEF Enqueue, replayVars
<1>2. ASSUME NEW x \in Executors, Take(x) \/ Finish(x) \/ FailForGood(x) PROVE TombIInv'
  BY <1>2, TombsStay DEF Take, Finish, FailForGood, replayVars
<1>3. ASSUME NEW x \in Executors, NEW after \in 0 .. MaxDelay, FailForNow(x, after) PROVE TombIInv'
  BY <1>3, TombsStay DEF FailForNow, replayVars
<1>4. ASSUME NEW w \in waiting, Retry(w) PROVE TombIInv'
  BY <1>4, TombsStay DEF Retry, replayVars
<1>5. ASSUME Tick PROVE TombIInv'
  BY <1>5, TombsStay DEF Tick, replayVars
<1>6. ASSUME NEW letter \in Letters, Forbid(letter) PROVE TombIInv'
  BY <1>6, TombsStay DEF Forbid
<1>7. ASSUME NEW k \in ReplayKeys, NEW letter \in Letters, Leak(k, letter) PROVE TombIInv'
  BY <1>7, TombsStay DEF Leak, replayVars
<1>8. ASSUME NEW k \in ReplayKeys, AuditStored(k) \/ Push(k) PROVE TombIInv'
  BY <1>8, GoesOnTombs DEF AuditStored, Push, Waits
<1>9. CASE UNCHANGED laneVars
  BY <1>9, TombsStay DEF laneVars, replayVars
<1> QED BY <1>1, <1>2, <1>3, <1>4, <1>5, <1>6, <1>7, <1>8, <1>9, RevokeTombs, ReplayTombs, ForgetTombs
       DEF LaneNext

LEMMA TombInvariant == LaneSpec => []TombIInv
<1>1. LaneIInv => LaneTypeOK
  BY DEF LaneIInv
<1> QED BY <1>1, TombBegins, TombSteps, LaneInvariant, PTL DEF LaneSpec

-----------------------------------------------------------------------------
(* The theorems. *)

\* Queue, semaphores and replays keep their shape; no count goes below zero,
\* and no retry is due outside its window.
THEOREM LaneTypeCorrect == LaneSpec => []LaneTypeOK
BY LaneInvariant, PTL DEF LaneIInv

\* For any capacities and any number of replays waiting for the sink: lanes
\* and promised room together never exceed a capacity.
THEOREM NeverOverbookedAlways == LaneSpec => []NeverOverbooked
BY LaneInvariant, PTL DEF LaneIInv

\* However often a replay is shared, repeated or started again, its key
\* enqueues once at most, and audited.
THEOREM ReplayedOnceAlways == LaneSpec => []ReplayedOnce
<1>1. LaneIInv => ReplayedOnce
  <2> SUFFICES ASSUME LaneIInv, NEW k \in ReplayKeys
               PROVE  /\ pushes[k] <= 1
                      /\ pushes[k] = 1 <=> replays[k] # 0
                      /\ pushes[k] = 1 => asked[k].pc = "done" /\ [letter |-> replays[k], key |-> k] \in sink
    BY DEF ReplayedOnce
  <2>1. /\ asked[k].pc = "done" <=> replays[k] # 0
        /\ pushes[k] = IF replays[k] # 0 THEN 1 ELSE 0
        /\ replays[k] # 0 => [letter |-> replays[k], key |-> k] \in sink
    BY DEF LaneIInv, ReplayTrack
  <2>2. pushes[k] <= 1 /\ (pushes[k] = 1 <=> replays[k] # 0)
    BY <2>1
  <2> QED BY <2>1, <2>2
<1> QED BY <1>1, LaneInvariant, PTL

\* The semaphores of the two executors count the calls that work, through
\* failures and dead letters, and never pass their lane's concurrency.
THEOREM SemaphoresExact == LaneSpec => []SemaphoresCount
BY LaneInvariant, PTL DEF LaneIInv

\* In whatever order revocations of an entity come, and whichever of them the full lane
\* refuses: its tombstone is that of the newest one that went through.
THEOREM BuriedAsRevokedAlways == LaneSpec => []BuriedAsRevoked
BY TombInvariant, PTL DEF TombIInv
=============================================================================
