------------------------------ MODULE SliceRun ------------------------------
(***************************************************************************)
(* The slice orchestrator (src/pipeline/orchestrator.ts): a request takes  *)
(* two fixtures from the provider to raw bytes, sources and artifacts, and *)
(* publishes the pair by one compare-and-set of the checkpoint.  The runs  *)
(* in flight and the heads of the sources are in memory; raw store, source *)
(* and artifact stores, checkpoint and event sink are handed in, and       *)
(* modelled from how the code uses them: what is written inside            *)
(* transactPair is visible when the checkpoint moves, or never.            *)
(***************************************************************************)
EXTENDS Integers, Sequences, FiniteSets

CONSTANTS
  Requests,       \* the runIds of requests
  Contents,       \* for the two fixtures, what the provider may answer
  MaxAttempts,    \* options.maxAttempts
  MaxCheckpoint   \* bound on the revisions of the checkpoint

ASSUME SliceAssumption ==
  /\ DOMAIN Contents = {1, 2} /\ MaxCheckpoint \in Nat
  /\ "none" \notin Contents[1] \cup Contents[2]
  /\ MaxAttempts \in Nat \ {0}

VARIABLES
  slices,     \* the executions of #runs, by runId
  heads,      \* #sourceHeads
  rawBytes,   \* the contents the raw store holds
  commits,    \* the pairs published, the k-th under checkpoint revision k
  announced   \* the events of a run that say something is stored, by type

sliceVars == <<slices, heads, rawBytes, commits, announced>>
-----------------------------------------------------------------------------
NoSlice == [pc |-> "none"]
NoHead == [content |-> "none", revision |-> 0]
Fixtures == {1, 2}
AllContents == UNION {Contents[f] : f \in Fixtures}

\* A source: its content, its revision, and that of the head it follows.
Sourced == [content: AllContents, revision: Nat \ {0}, previous: Nat]

EventTypes == {"source.committed", "artifact.built", "checkpoint.committed", "slice.completed"}
Told(r, type) == announced' = [announced EXCEPT ![r] = @ \cup {type}]

SliceInit ==
  /\ slices = [r \in Requests |-> NoSlice]
  /\ heads = [f \in Fixtures |-> NoHead]
  /\ rawBytes = {} /\ commits = <<>>
  /\ announced = [r \in Requests |-> {}]

Running(r, pc) == slices[r].pc = pc
Continue(r, change) == slices' = [slices EXCEPT ![r] = change]

-----------------------------------------------------------------------------
\* run: a request expects some revision of the checkpoint; one whose runId is known
\* shares its execution, whatever it expects itself, and starts nothing.
Start(r, expected) ==
  /\ Running(r, "none")
  /\ Continue(r, [pc |-> "fetching", expected |-> expected,
                   attempt |-> 1, fetched |-> 0, stored |-> <<>>, sources |-> <<>>])
  /\ UNCHANGED <<heads, rawBytes, commits, announced>>

\* fetchWithRetry, one fixture after the other; what a record holds is looked at
\* when it is stored.
Fetch(r) ==
  /\ Running(r, "fetching")
  /\ Continue(r, [pc |-> IF slices[r].fetched = 0 THEN "fetching" ELSE "storing", expected |-> slices[r].expected,
                   attempt |-> 1, fetched |-> slices[r].fetched + 1, stored |-> <<>>, sources |-> <<>>])
  /\ UNCHANGED <<heads, rawBytes, commits, announced>>

\* Another attempt at a rate limit.
RateLimited(r) ==
  /\ Running(r, "fetching") /\ slices[r].attempt < MaxAttempts
  /\ Continue(r, [slices[r] EXCEPT !.attempt = @ + 1])
  /\ UNCHANGED <<heads, rawBytes, commits, announced>>

\* The raw bytes of the next record are durable under their hash.
Store(r, content) ==
  /\ Running(r, "storing") /\ content \in Contents[Len(slices[r].stored) + 1]
  /\ rawBytes' = rawBytes \cup {content}
  /\ Continue(r, [pc |-> IF Len(slices[r].stored) = 1 THEN "working" ELSE "storing", expected |-> slices[r].expected,
                   attempt |-> slices[r].attempt, fetched |-> slices[r].fetched,
                   stored |-> Append(slices[r].stored, content), sources |-> <<>>])
  /\ UNCHANGED <<heads, commits, announced>>

\* A partial record keeps its raw bytes and ends the run, as a failure.
StorePartial(r, content) ==
  /\ Running(r, "storing") /\ content \in Contents[Len(slices[r].stored) + 1]
  /\ rawBytes' = rawBytes \cup {content}
  /\ Continue(r, NoSlice)
  /\ UNCHANGED <<heads, commits, announced>>

\* A source is written inside the transaction, next to the head as it is now, and
\* called committed at once.
WriteSource(r) ==
  /\ Running(r, "working") /\ Len(slices[r].sources) < 2
  /\ LET f == Len(slices[r].sources) + 1
         content == slices[r].stored[f]
         source == [content |-> content, previous |-> heads[f].revision,
                    revision |-> IF heads[f].content = content THEN heads[f].revision ELSE heads[f].revision + 1]
     IN Continue(r, [pc |-> "building", expected |-> slices[r].expected,
                      attempt |-> slices[r].attempt, fetched |-> slices[r].fetched,
                      stored |-> slices[r].stored, sources |-> Append(slices[r].sources, source)])
  /\ Told(r, "source.committed")
  /\ UNCHANGED <<heads, rawBytes, commits>>

\* Its artifact as well.
BuildArtifact(r) ==
  /\ Running(r, "building")
  /\ Continue(r, [slices[r] EXCEPT !.pc = "working"])
  /\ Told(r, "artifact.built")
  /\ UNCHANGED <<heads, rawBytes, commits>>

\* Slip: the revision is read again when the work is done, as a retry loop would.
SlipPublish(r) ==
  /\ Running(r, "working") /\ Len(slices[r].sources) = 2
  /\ slices[r].expected <= Len(commits) /\ Len(commits) < MaxCheckpoint
  /\ commits' = Append(commits, [run |-> r, sources |-> slices[r].sources])
  /\ Continue(r, [slices[r] EXCEPT !.pc = "committed"])
  /\ UNCHANGED <<heads, rawBytes, announced>>

\* The commit of transactPair at the expected revision.
Publish(r) ==
  /\ Running(r, "working") /\ Len(slices[r].sources) = 2
  /\ slices[r].expected = Len(commits)
  /\ commits' = Append(commits, [run |-> r, sources |-> slices[r].sources])
  /\ Continue(r, [slices[r] EXCEPT !.pc = "committed"])
  /\ UNCHANGED <<heads, rawBytes, announced>>

\* The orchestrator hears of it: the heads move, then the events go out.
MoveHeads(r) ==
  /\ Running(r, "committed")
  /\ heads' = [f \in Fixtures |-> [content |-> slices[r].sources[f].content, revision |-> slices[r].sources[f].revision]]
  /\ Continue(r, [slices[r] EXCEPT !.pc = "moved"])
  /\ UNCHANGED <<rawBytes, commits, announced>>

Announce(r) ==
  /\ Running(r, "moved")
  /\ Told(r, "checkpoint.committed")
  /\ Continue(r, [slices[r] EXCEPT !.pc = "announced"])
  /\ UNCHANGED <<heads, rawBytes, commits>>

\* The result is kept in #runs and answers every later call.
Return(r) ==
  /\ Running(r, "announced")
  /\ Told(r, "slice.completed")
  /\ Continue(r, [pc |-> "returned", revision |-> slices[r].expected + 1, sources |-> slices[r].sources])
  /\ UNCHANGED <<heads, rawBytes, commits>>

\* A provider, a store, the checkpoint or the event sink refuses: slice.failed may be
\* sent, and the run is forgotten.  A commit whose answer is lost fails the same way;
\* the events sent inside a transaction that is refused stay sent.
Fails(r) ==
  /\ slices[r].pc \in {"fetching", "storing", "working", "building", "committed", "moved", "announced"}
  /\ Continue(r, NoSlice)
  /\ UNCHANGED <<heads, rawBytes, commits, announced>>

\* The process ends and starts again with empty maps.
Restart ==
  /\ slices' = [r \in Requests |-> NoSlice]
  /\ heads' = [f \in Fixtures |-> NoHead]
  /\ UNCHANGED <<rawBytes, commits, announced>>

SliceNext ==
  \/ \E r \in Requests, content \in AllContents : Store(r, content)
  \/ \E r \in Requests, content \in AllContents : StorePartial(r, content)
  \/ \E r \in Requests, expected \in 0 .. MaxCheckpoint - 1 : Start(r, expected)
  \/ \E r \in Requests :
       \/ Fetch(r) \/ RateLimited(r) \/ WriteSource(r) \/ BuildArtifact(r) \/ Publish(r) \/ MoveHeads(r)
       \/ Announce(r) \/ Return(r) \/ Fails(r)
  \/ Restart

SliceSpec == SliceInit /\ [][SliceNext]_sliceVars

-----------------------------------------------------------------------------
(* Properties. *)

\* The executions, heads and published pairs have their shapes.
SliceTypeOK ==
  /\ \A f \in Fixtures : heads[f] = NoHead \/ (heads[f].content \in Contents[f] /\ heads[f].revision \in Nat \ {0})
  /\ rawBytes \subseteq AllContents
  /\ announced \in [Requests -> SUBSET EventTypes]
  /\ \A k \in DOMAIN commits :
       commits[k].run \in Requests /\ commits[k].sources \in Seq(Sourced) /\ Len(commits[k].sources) = 2

\* Two runs expect one revision, one fails behind its commit and is repeated with
\* another, the process restarts: whoever asks for a run is answered with the pair it
\* published, at the checkpoint revision where that stands and the last of its runId.
\* What is published has durable raw bytes and its events, and of the events those
\* sent after the commit, unlike source.committed, are of a run that published.
AnsweredAsPublished ==
  /\ \A r \in Requests : Running(r, "returned") =>
       /\ slices[r].revision \in DOMAIN commits
       /\ commits[slices[r].revision] = [run |-> r, sources |-> slices[r].sources]
       /\ \A k \in DOMAIN commits : commits[k].run = r => k <= slices[r].revision
  /\ \A k \in DOMAIN commits :
       /\ \A f \in Fixtures : commits[k].sources[f].content \in rawBytes
       /\ {"source.committed", "artifact.built"} \subseteq announced[commits[k].run]
  /\ \A r \in Requests : announced[r] \cap {"checkpoint.committed", "slice.completed"} # {} =>
       \E k \in DOMAIN commits : commits[k].run = r
=============================================================================
