--------------------------- MODULE PipelineProofs ---------------------------
(***************************************************************************)
(* Theorems about the two components that carry evidence in: SliceRun, for *)
(* any requests, contents and attempts, and SnapshotImport, for any        *)
(* snapshots and importers; and about MCComponents, the run of the six     *)
(* components proved here, in CommandProofs and in LocalQueueProofs.       *)
(***************************************************************************)
EXTENDS MCComponents, LocalQueueProofs, CommandProofs, TLAPS

-----------------------------------------------------------------------------
(* The slice orchestrator. *)

\* An execution under way, an answer, and a published pair.
Stages == {"fetching", "storing", "working", "building", "committed", "moved", "announced"}
Past == {"committed", "moved", "announced"}
Execution == [pc: Stages, expected: Nat, attempt: Nat, fetched: Nat, stored: Seq(AllContents), sources: Seq(Sourced)]
Answer == [pc: {"returned"}, revision: Nat, sources: Seq(Sourced)]
PublishedPair == [run: Requests, sources: Seq(Sourced)]
Executions == Execution \cup Answer \cup {NoSlice}

\* The n-th pair is r's with these sources, and the last that is r's.
Upheld(r, n, t, pairs) ==
  /\ n \in DOMAIN pairs /\ pairs[n] = [run |-> r, sources |-> t]
  /\ \A k \in DOMAIN pairs : pairs[k].run = r => k <= n

\* How far an execution is: what it has stored is among the durable bytes, its
\* sources are of what it stored, and the events of both are sent.
Progress(s, bytes, told) ==
  /\ s.pc = "fetching" => s.stored = <<>> /\ s.sources = <<>>
  /\ s.pc = "storing" => Len(s.stored) <= 1 /\ s.sources = <<>>
  /\ s.pc \notin {"fetching", "storing"} => Len(s.stored) = 2
  /\ Len(s.sources) <= 2
  /\ s.pc \in Past => Len(s.sources) = 2
  /\ \A f \in DOMAIN s.stored : s.stored[f] \in Contents[f] \cap bytes
  /\ \A f \in DOMAIN s.sources : s.sources[f].content = s.stored[f]
  /\ s.sources # <<>> => "source.committed" \in told
  /\ s.sources # <<>> /\ s.pc # "building" => "artifact.built" \in told

\* What is true of s, as what is known of r: past the commit its pair stands where
\* it expected, and what is answered stands as well.
Faithful(r, s, bytes, told, pairs) ==
  /\ s \in Execution => Progress(s, bytes, told)
  /\ s \in Execution /\ s.pc \in Past => Upheld(r, s.expected + 1, s.sources, pairs)
  /\ s \in Answer => Upheld(r, s.revision, s.sources, pairs)

\* The pairs published are durable and their events sent; the events after a commit are of runs
\* that published.
Evidenced ==
  /\ \A k \in DOMAIN commits : \A f \in Fixtures : commits[k].sources[f].content \in rawBytes
  /\ \A k \in DOMAIN commits : {"source.committed", "artifact.built"} \subseteq announced[commits[k].run]
Published(r) == \E k \in DOMAIN commits : commits[k].run = r
Announced == \A r \in Requests : announced[r] \cap {"checkpoint.committed", "slice.completed"} # {} => Published(r)

SliceIInv ==
  /\ SliceTypeOK
  /\ slices \in [Requests -> Executions]
  /\ \A r \in Requests : Faithful(r, slices[r], rawBytes, announced[r], commits)
  /\ commits \in Seq(PublishedPair)
  /\ Evidenced
  /\ Announced

\* What distinguishes executions, answers and the rest.
LEMMA ExecutionKinds ==
  /\ NoSlice \in Executions /\ NoSlice \notin Execution /\ NoSlice \notin Answer
  /\ \A s \in Execution : s \in Executions /\ s \notin Answer /\ s.pc \in Stages
  /\ \A s \in Answer : s \in Executions /\ s \notin Execution /\ s.pc = "returned"
<1>1. NoSlice.pc = "none" /\ (\A s \in Execution : s.pc \in Stages) /\ \A s \in Answer : s.pc = "returned"
  BY DEF NoSlice, Execution, Answer
<1>2. "none" \notin Stages \cup {"returned"} /\ "returned" \notin Stages
  BY DEF Stages
<1> QED BY <1>1, <1>2 DEF Executions

LEMMA ExecutionFields ==
  ASSUME SliceIInv, NEW r \in Requests, slices[r].pc \in Stages
  PROVE  slices[r] \in Execution /\ Progress(slices[r], rawBytes, announced[r])
<1>1. slices[r] \in Executions /\ Faithful(r, slices[r], rawBytes, announced[r], commits)
  BY DEF SliceIInv
<1>2. slices[r] \in Execution
  BY <1>1, ExecutionKinds DEF Executions, NoSlice, Stages
<1> QED BY <1>1, <1>2 DEF Faithful

\* An execution past its commit.
LEMMA PastCommit ==
  ASSUME SliceIInv, NEW r \in Requests, slices[r].pc \in Past
  PROVE  /\ slices[r] \in Execution /\ Progress(slices[r], rawBytes, announced[r]) /\ Len(slices[r].sources) = 2
         /\ Upheld(r, slices[r].expected + 1, slices[r].sources, commits) /\ Published(r)
<1>1. slices[r] \in Execution /\ Progress(slices[r], rawBytes, announced[r])
  BY ExecutionFields DEF Past, Stages
<1>2. Upheld(r, slices[r].expected + 1, slices[r].sources, commits)
  BY <1>1 DEF SliceIInv, Faithful
<1>3. Published(r)
  BY <1>2 DEF Upheld, Published
<1>4. Len(slices[r].sources) = 2
  BY <1>1 DEF Progress
<1> QED BY <1>1, <1>2, <1>3, <1>4

\* Every answer stands.
LEMMA AnsweredFromInv == SliceIInv => AnsweredAsPublished
<1> SUFFICES ASSUME SliceIInv PROVE AnsweredAsPublished
  OBVIOUS
<1>1. ASSUME NEW r \in Requests, slices[r].pc = "returned"
      PROVE  Upheld(r, slices[r].revision, slices[r].sources, commits)
  <2>1. slices[r] \in Executions /\ Faithful(r, slices[r], rawBytes, announced[r], commits)
    BY DEF SliceIInv
  <2>2. slices[r] \in Answer
    BY <1>1, <2>1, ExecutionKinds DEF Executions, NoSlice, Stages
  <2> QED BY <2>1, <2>2 DEF Faithful
<1> QED BY <1>1 DEF SliceIInv, AnsweredAsPublished, Running, Upheld, Evidenced, Announced, Published

\* What is true of an execution stays true while bytes and events grow and nothing more is
\* published for its run.
LEMMA FaithfulStays ==
  ASSUME NEW r, NEW s, NEW bytes, NEW bytes2, NEW told, NEW told2, NEW pairs, NEW pairs2,
         bytes \subseteq bytes2, told \subseteq told2,
         \A n, t : Upheld(r, n, t, pairs) => Upheld(r, n, t, pairs2),
         Faithful(r, s, bytes, told, pairs)
  PROVE  Faithful(r, s, bytes2, told2, pairs2)
<1>1. s \in Execution => Progress(s, bytes2, told2)
  BY DEF Faithful, Progress
<1>2. s \in Execution /\ s.pc \in Past => Upheld(r, s.expected + 1, s.sources, pairs2)
  BY DEF Faithful
<1>3. s \in Answer => Upheld(r, s.revision, s.sources, pairs2)
  BY DEF Faithful
<1> QED BY <1>1, <1>2, <1>3 DEF Faithful

\* One execution moves; the others lose nothing.
LEMMA OneAdvances ==
  ASSUME SliceIInv, NEW r \in Requests, NEW s \in Executions, Continue(r, s),
         rawBytes \subseteq rawBytes', \A q \in Requests : announced[q] \subseteq announced'[q],
         \A q \in Requests \ {r} : \A n, t : Upheld(q, n, t, commits) => Upheld(q, n, t, commits'),
         Faithful(r, s, rawBytes', announced'[r], commits')
  PROVE  /\ slices' \in [Requests -> Executions]
         /\ \A q \in Requests : Faithful(q, slices'[q], rawBytes', announced'[q], commits')
<1>1. slices' \in [Requests -> Executions] /\ \A q \in Requests : slices'[q] = IF q = r THEN s ELSE slices[q]
  BY DEF SliceIInv, Continue
<1>2. ASSUME NEW q \in Requests, q # r
      PROVE  Faithful(q, slices[q], rawBytes', announced'[q], commits')
  <2>1. Faithful(q, slices[q], rawBytes, announced[q], commits)
    BY DEF SliceIInv
  <2>2. /\ rawBytes \subseteq rawBytes' /\ announced[q] \subseteq announced'[q]
        /\ \A n, t : Upheld(q, n, t, commits) => Upheld(q, n, t, commits')
    BY <1>2
  <2> QED BY <2>1, <2>2, FaithfulStays
<1> QED BY <1>1, <1>2

\* Nothing is published: what an execution does besides is to store and to tell.
LEMMA Quietly ==
  ASSUME SliceIInv, NEW r \in Requests, NEW s \in Executions, Continue(r, s), UNCHANGED <<heads, commits>>,
         rawBytes \subseteq rawBytes', rawBytes' \subseteq AllContents,
         announced' \in {announced, [announced EXCEPT ![r] = @ \cup {"source.committed"}],
                         [announced EXCEPT ![r] = @ \cup {"artifact.built"}]},
         Faithful(r, s, rawBytes', announced'[r], commits)
  PROVE  SliceIInv'
<1>1. /\ announced' \in [Requests -> SUBSET EventTypes] /\ \A q \in Requests : announced[q] \subseteq announced'[q]
      /\ \A q \in Requests : announced'[q] \cap {"checkpoint.committed", "slice.completed"}
                               = announced[q] \cap {"checkpoint.committed", "slice.completed"}
  BY DEF SliceIInv, SliceTypeOK, EventTypes
<1>2. /\ slices' \in [Requests -> Executions]
      /\ \A q \in Requests : Faithful(q, slices'[q], rawBytes', announced'[q], commits')
  BY <1>1, OneAdvances
<1>3. SliceTypeOK'
  BY <1>1 DEF SliceIInv, SliceTypeOK
<1>4. Evidenced'
  <2>1. \A k \in DOMAIN commits : commits[k].run \in Requests
    BY DEF SliceIInv, SliceTypeOK
  <2> QED BY <1>1, <2>1 DEF SliceIInv, Evidenced
<1>5. Announced'
  BY <1>1 DEF SliceIInv, Announced, Published
<1> QED BY <1>2, <1>3, <1>4, <1>5 DEF SliceIInv

LEMMA SliceBegins == SliceInit => SliceIInv
<1> SUFFICES ASSUME SliceInit PROVE SliceIInv
  OBVIOUS
<1>1. commits = <<>> /\ DOMAIN commits = {} /\ commits \in Seq(PublishedPair)
  BY DEF SliceInit
<1>2. SliceTypeOK /\ Evidenced /\ Announced
  BY <1>1 DEF SliceInit, SliceTypeOK, Evidenced, Announced
<1>3. slices \in [Requests -> Executions] /\ \A r \in Requests : slices[r] \notin Execution \cup Answer
  BY ExecutionKinds DEF SliceInit
<1> QED BY <1>1, <1>2, <1>3 DEF SliceIInv, Faithful

LEMMA StartKeeps ==
  ASSUME SliceIInv, NEW r \in Requests, NEW expected \in 0 .. MaxCheckpoint - 1, Start(r, expected)
  PROVE  SliceIInv'
<1> DEFINE s == [pc |-> "fetching", expected |-> expected,
                 attempt |-> 1, fetched |-> 0, stored |-> <<>>, sources |-> <<>>]
<1>1. s \in Execution
  BY SliceAssumption DEF Execution, Stages
<1>2. Progress(s, rawBytes, announced[r]) /\ s.pc \notin Past
  BY DEF Progress, Past
<1>3. Continue(r, s) /\ UNCHANGED <<heads, rawBytes, commits, announced>>
  BY DEF Start
<1> HIDE DEF s
<1>4. Faithful(r, s, rawBytes, announced[r], commits) /\ s \in Executions
  BY <1>1, <1>2, ExecutionKinds DEF Faithful
<1>5. rawBytes \subseteq AllContents
  BY DEF SliceIInv, SliceTypeOK
<1> QED BY <1>3, <1>4, <1>5, Quietly

LEMMA FetchKeeps ==
  ASSUME SliceIInv, NEW r \in Requests, Fetch(r) \/ RateLimited(r)
  PROVE  SliceIInv'
<1>1. slices[r] \in Execution /\ Progress(slices[r], rawBytes, announced[r]) /\ slices[r].pc = "fetching"
  BY ExecutionFields DEF Fetch, RateLimited, Running, Stages
<1>2. PICK s \in Execution : /\ Continue(r, s) /\ s.pc \in {"fetching", "storing"}
                             /\ s.stored = <<>> /\ s.sources = <<>>
  <2>1. CASE Fetch(r)
    <3> DEFINE s == [pc |-> IF slices[r].fetched = 0 THEN "fetching" ELSE "storing", expected |-> slices[r].expected,
                     attempt |-> 1, fetched |-> slices[r].fetched + 1, stored |-> <<>>, sources |-> <<>>]
    <3>1. s \in Execution
      BY <1>1 DEF Execution, Stages
    <3> QED BY <2>1, <3>1 DEF Fetch
  <2>2. CASE RateLimited(r)
    <3> DEFINE s == [slices[r] EXCEPT !.attempt = @ + 1]
    <3>1. s \in Execution /\ s.pc = "fetching" /\ s.stored = slices[r].stored /\ s.sources = slices[r].sources
      BY <1>1 DEF Execution
    <3>2. slices[r].stored = <<>> /\ slices[r].sources = <<>>
      BY <1>1 DEF Progress
    <3> QED BY <2>2, <3>1, <3>2 DEF RateLimited
  <2> QED BY <2>1, <2>2
<1>3. UNCHANGED <<heads, rawBytes, commits, announced>> /\ rawBytes \subseteq AllContents
  BY DEF Fetch, RateLimited, SliceIInv, SliceTypeOK
<1>4. Progress(s, rawBytes, announced[r]) /\ s.pc \notin Past
  BY <1>1, <1>2 DEF Progress, Past
<1>5. Faithful(r, s, rawBytes, announced[r], commits) /\ s \in Executions
  BY <1>2, <1>4, ExecutionKinds DEF Faithful
<1> QED BY <1>2, <1>3, <1>5, Quietly

\* Raw bytes become durable before anything refers to them.
LEMMA StoreKeeps ==
  ASSUME SliceIInv, NEW r \in Requests, NEW content \in AllContents, Store(r, content)
  PROVE  SliceIInv'
<1> DEFINE s == [pc |-> IF Len(slices[r].stored) = 1 THEN "working" ELSE "storing", expected |-> slices[r].expected,
                 attempt |-> slices[r].attempt, fetched |-> slices[r].fetched,
                 stored |-> Append(slices[r].stored, content), sources |-> <<>>]
<1>1. slices[r] \in Execution /\ Progress(slices[r], rawBytes, announced[r]) /\ slices[r].pc = "storing"
  BY ExecutionFields DEF Store, Running, Stages
<1>2. /\ Continue(r, s) /\ UNCHANGED <<heads, commits, announced>> /\ rawBytes' = rawBytes \cup {content}
      /\ content \in Contents[Len(slices[r].stored) + 1]
  BY DEF Store
<1>3. slices[r].stored \in Seq(AllContents) /\ Len(slices[r].stored) \in {0, 1}
  <2>1. slices[r].stored \in Seq(AllContents) /\ Len(slices[r].stored) <= 1
    BY <1>1 DEF Execution, Progress
  <2> DEFINE n == Len(slices[r].stored)
  <2>2. n \in Nat /\ n <= 1
    BY <2>1
  <2> HIDE DEF n
  <2>3. n \in {0, 1}
    BY <2>2
  <2> QED BY <2>1, <2>3 DEF n
<1>4. s \in Execution
  BY <1>1, <1>3 DEF Execution, Stages
<1>5. s.stored = Append(slices[r].stored, content) /\ s.sources = <<>>
      /\ s.pc = IF Len(slices[r].stored) = 1 THEN "working" ELSE "storing"
  OBVIOUS
<1>6. \A f \in DOMAIN s.stored : s.stored[f] \in Contents[f] \cap rawBytes'
  BY <1>1, <1>2, <1>3, <1>5 DEF Progress
<1>7. Len(s.stored) = Len(slices[r].stored) + 1
  BY <1>3, <1>5
<1> HIDE DEF s
<1>8. Progress(s, rawBytes', announced[r])
  <2>1. s.pc = "storing" => Len(s.stored) <= 1
    BY <1>3, <1>5, <1>7
  <2>2. s.pc \in {"working", "storing"} /\ (s.pc # "storing" => Len(s.stored) = 2)
    BY <1>3, <1>5, <1>7
  <2>3. s.sources = <<>> /\ Len(s.sources) = 0 /\ DOMAIN s.sources = {}
    BY <1>5
  <2>4. Len(s.sources) <= 2
    BY <2>3
  <2>5. \A f \in DOMAIN s.sources : s.sources[f].content = s.stored[f]
    BY <2>3
  <2> QED BY <1>6, <2>1, <2>2, <2>3, <2>4, <2>5 DEF Progress, Past
<1>9. s.pc \notin Past
  BY <1>5 DEF Past
<1>10. Faithful(r, s, rawBytes', announced[r], commits) /\ s \in Executions
  BY <1>4, <1>8, <1>9, ExecutionKinds DEF Faithful
<1>11. rawBytes \subseteq rawBytes' /\ rawBytes' \subseteq AllContents
  BY <1>2 DEF SliceIInv, SliceTypeOK
<1> QED BY <1>2, <1>10, <1>11, Quietly

\* An execution that ends is forgotten, with what it stored and told in place.
LEMMA EndKeeps ==
  ASSUME SliceIInv, NEW r \in Requests, Continue(r, NoSlice), UNCHANGED <<heads, commits, announced>>,
         rawBytes \subseteq rawBytes', rawBytes' \subseteq AllContents
  PROVE  SliceIInv'
<1>1. NoSlice \in Executions /\ Faithful(r, NoSlice, rawBytes', announced[r], commits)
  BY ExecutionKinds DEF Faithful
<1> QED BY <1>1, Quietly

\* A source is written next to the head as it is at this moment, and told at once.
LEMMA WriteSourceKeeps ==
  ASSUME SliceIInv, NEW r \in Requests, WriteSource(r)
  PROVE  SliceIInv'
<1> DEFINE f == Len(slices[r].sources) + 1
           content == slices[r].stored[f]
           created == [content |-> content, previous |-> heads[f].revision,
                       revision |-> IF heads[f].content = content THEN heads[f].revision ELSE heads[f].revision + 1]
           s == [pc |-> "building", expected |-> slices[r].expected,
                 attempt |-> slices[r].attempt, fetched |-> slices[r].fetched,
                 stored |-> slices[r].stored, sources |-> Append(slices[r].sources, created)]
<1>1. slices[r] \in Execution /\ Progress(slices[r], rawBytes, announced[r]) /\ slices[r].pc = "working"
  BY ExecutionFields DEF WriteSource, Running, Stages
<1>2. /\ Continue(r, s) /\ Len(slices[r].sources) < 2 /\ UNCHANGED <<heads, rawBytes, commits>>
      /\ announced' = [announced EXCEPT ![r] = @ \cup {"source.committed"}]
  BY DEF WriteSource, Told
<1>3. /\ slices[r].sources \in Seq(Sourced) /\ slices[r].stored \in Seq(AllContents)
      /\ Len(slices[r].stored) = 2 /\ f \in Fixtures
  <2>1. /\ slices[r].sources \in Seq(Sourced) /\ slices[r].stored \in Seq(AllContents)
        /\ Len(slices[r].stored) = 2
    BY <1>1 DEF Execution, Progress
  <2> DEFINE n == Len(slices[r].sources)
  <2>2. n \in Nat /\ n < 2
    BY <1>2, <2>1
  <2> HIDE DEF n
  <2>3. n + 1 \in Fixtures
    BY <2>2 DEF Fixtures
  <2> QED BY <2>1, <2>3 DEF n
<1>4. f \in DOMAIN slices[r].stored /\ content \in Contents[f] /\ content \in AllContents
  BY <1>1, <1>3 DEF Progress, Fixtures, AllContents
<1>5. created \in Sourced
  <2>1. heads[f] = NoHead \/ heads[f].revision \in Nat \ {0}
    BY <1>3 DEF SliceIInv, SliceTypeOK
  <2>2. content # "none"
    BY <1>3, <1>4, SliceAssumption DEF Fixtures
  <2>3. heads[f].revision \in Nat /\ (heads[f].content = content => heads[f].revision # 0)
    BY <2>1, <2>2 DEF NoHead
  <2> DEFINE revision == IF heads[f].content = content THEN heads[f].revision ELSE heads[f].revision + 1
  <2>4. revision \in Nat \ {0} /\ heads[f].revision \in Nat
    BY <2>3
  <2> HIDE DEF revision
  <2>5. [content |-> content, previous |-> heads[f].revision, revision |-> revision] \in Sourced
    BY <1>4, <2>4 DEF Sourced
  <2> QED BY <2>5 DEF revision
<1>6. created.content = content
  OBVIOUS
<1> HIDE DEF created
<1>7. /\ s \in Execution /\ s.pc = "building" /\ s.stored = slices[r].stored
      /\ s.sources = Append(slices[r].sources, created)
  <2>1. Append(slices[r].sources, created) \in Seq(Sourced)
    BY <1>3, <1>5
  <2> QED BY <1>1, <2>1 DEF Execution, Stages
<1> HIDE DEF s
<1>8. Len(s.sources) <= 2 /\ \A g \in DOMAIN s.sources : s.sources[g].content = s.stored[g]
  BY <1>1, <1>2, <1>3, <1>5, <1>6, <1>7 DEF Progress
<1>9. "source.committed" \in announced'[r]
  BY <1>2 DEF SliceIInv, SliceTypeOK
<1>10. Progress(s, rawBytes', announced'[r]) /\ s.pc \notin Past
  BY <1>1, <1>2, <1>7, <1>8, <1>9 DEF Progress, Past
<1>11. Faithful(r, s, rawBytes', announced'[r], commits) /\ s \in Executions
  BY <1>7, <1>10, ExecutionKinds DEF Faithful
<1>12. rawBytes \subseteq rawBytes' /\ rawBytes' \subseteq AllContents
  BY <1>2 DEF SliceIInv, SliceTypeOK
<1> QED BY <1>2, <1>11, <1>12, Quietly

LEMMA BuildArtifactKeeps ==
  ASSUME SliceIInv, NEW r \in Requests, BuildArtifact(r)
  PROVE  SliceIInv'
<1> DEFINE s == [slices[r] EXCEPT !.pc = "working"]
<1>1. slices[r] \in Execution /\ Progress(slices[r], rawBytes, announced[r]) /\ slices[r].pc = "building"
  BY ExecutionFields DEF BuildArtifact, Running, Stages
<1>2. /\ Continue(r, s) /\ UNCHANGED <<heads, rawBytes, commits>>
      /\ announced' = [announced EXCEPT ![r] = @ \cup {"artifact.built"}]
  BY DEF BuildArtifact, Told
<1>3. s \in Execution /\ s.pc = "working" /\ s.stored = slices[r].stored /\ s.sources = slices[r].sources
  BY <1>1 DEF Execution, Stages
<1> HIDE DEF s
<1>4. "artifact.built" \in announced'[r] /\ announced[r] \subseteq announced'[r]
  BY <1>2 DEF SliceIInv, SliceTypeOK
<1>5. Progress(s, rawBytes', announced'[r]) /\ s.pc \notin Past
  BY <1>1, <1>2, <1>3, <1>4 DEF Progress, Past
<1>6. Faithful(r, s, rawBytes', announced'[r], commits) /\ s \in Executions
  BY <1>3, <1>5, ExecutionKinds DEF Faithful
<1>7. rawBytes \subseteq rawBytes' /\ rawBytes' \subseteq AllContents
  BY <1>2 DEF SliceIInv, SliceTypeOK
<1> QED BY <1>2, <1>6, <1>7, Quietly

\* The commit: the pair is the next one, at the revision behind the one its request expects.
LEMMA PublishKeeps ==
  ASSUME SliceIInv, NEW r \in Requests, Publish(r)
  PROVE  SliceIInv'
<1> DEFINE pair == [run |-> r, sources |-> slices[r].sources]
           s == [slices[r] EXCEPT !.pc = "committed"]
<1>1. slices[r] \in Execution /\ Progress(slices[r], rawBytes, announced[r]) /\ slices[r].pc = "working"
  BY ExecutionFields DEF Publish, Running, Stages
<1>2. /\ Continue(r, s) /\ Len(slices[r].sources) = 2 /\ UNCHANGED <<heads, rawBytes, announced>>
      /\ commits' = Append(commits, pair) /\ slices[r].expected = Len(commits)
  BY DEF Publish
<1>3. pair \in PublishedPair /\ pair.run = r /\ pair.sources = slices[r].sources
  BY <1>1 DEF Execution, PublishedPair
<1>4. s \in Execution /\ s.pc = "committed" /\ s.stored = slices[r].stored
      /\ s.sources = slices[r].sources /\ s.expected = slices[r].expected
  BY <1>1 DEF Execution, Stages
<1>5. pair = [run |-> r, sources |-> s.sources]
  BY <1>4
<1> HIDE DEF pair, s
<1> DEFINE n == Len(commits)
<1>6. commits \in Seq(PublishedPair) /\ n \in Nat /\ DOMAIN commits = 1 .. n
  BY DEF SliceIInv
<1>7. /\ commits' \in Seq(PublishedPair) /\ DOMAIN commits' = 1 .. n + 1
      /\ \A k \in 1 .. n : commits'[k] = commits[k]
      /\ commits'[n + 1] = pair
  BY <1>2, <1>3, <1>6
<1>8. s.expected = n
  BY <1>2, <1>4
<1> HIDE DEF n
<1>9. Upheld(r, s.expected + 1, s.sources, commits')
  BY <1>5, <1>6, <1>7, <1>8 DEF Upheld
<1>10. \A q \in Requests \ {r} : \A m, t : Upheld(q, m, t, commits) => Upheld(q, m, t, commits')
  <2> SUFFICES ASSUME NEW q \in Requests \ {r}, NEW m, NEW t, Upheld(q, m, t, commits)
               PROVE  Upheld(q, m, t, commits')
    OBVIOUS
  <2>1. m \in 1 .. n /\ m \in DOMAIN commits' /\ commits'[m] = [run |-> q, sources |-> t]
    BY <1>6, <1>7 DEF Upheld
  <2>2. ASSUME NEW k \in DOMAIN commits', commits'[k].run = q PROVE k <= m
    <3>1. k # n + 1
      BY <1>3, <1>7, <2>2
    <3>2. k \in 1 .. n
      BY <1>6, <1>7, <3>1
    <3> QED BY <1>6, <1>7, <2>2, <3>2 DEF Upheld
  <2> QED BY <2>1, <2>2 DEF Upheld
<1>11. s.sources # <<>>
  <2>1. Len(s.sources) = 2
    BY <1>2, <1>4
  <2> QED BY <2>1
<1>12. Progress(s, rawBytes', announced'[r])
  BY <1>1, <1>2, <1>4 DEF Progress
<1>13. Faithful(r, s, rawBytes', announced'[r], commits') /\ s \in Executions
  BY <1>4, <1>9, <1>12, ExecutionKinds DEF Faithful
<1>14. /\ slices' \in [Requests -> Executions]
       /\ \A q \in Requests : Faithful(q, slices'[q], rawBytes', announced'[q], commits')
  BY <1>2, <1>10, <1>13, OneAdvances
<1>15. pair.sources \in Seq(Sourced) /\ Len(pair.sources) = 2 /\ pair.run \in Requests
  BY <1>2, <1>3 DEF PublishedPair
<1>16. SliceTypeOK'
  BY <1>2, <1>6, <1>7, <1>15 DEF SliceIInv, SliceTypeOK
<1>17. Evidenced'
  <2>1. \A f \in Fixtures : pair.sources[f].content \in rawBytes
    BY <1>1, <1>2, <1>3 DEF Progress, Fixtures, Execution
  <2>2. {"source.committed", "artifact.built"} \subseteq announced[pair.run]
    BY <1>1, <1>3, <1>4, <1>11 DEF Progress
  <2> QED BY <1>2, <1>6, <1>7, <2>1, <2>2 DEF SliceIInv, Evidenced
<1>18. Announced'
  <2>1. \A q \in Requests : Published(q) => Published(q)'
    BY <1>6, <1>7 DEF Published
  <2> QED BY <1>2, <2>1 DEF SliceIInv, Announced
<1> QED BY <1>7, <1>14, <1>16, <1>17, <1>18 DEF SliceIInv

\* The heads are those of the pair just published.
LEMMA MoveHeadsKeeps ==
  ASSUME SliceIInv, NEW r \in Requests, MoveHeads(r)
  PROVE  SliceIInv'
<1> DEFINE s == [slices[r] EXCEPT !.pc = "moved"]
<1>1. /\ slices[r] \in Execution /\ Progress(slices[r], rawBytes, announced[r]) /\ Len(slices[r].sources) = 2
      /\ Upheld(r, slices[r].expected + 1, slices[r].sources, commits) /\ slices[r].pc = "committed"
  BY PastCommit DEF MoveHeads, Running, Past
<1>2. Continue(r, s) /\ UNCHANGED <<rawBytes, commits, announced>>
  BY DEF MoveHeads
<1>3. /\ s \in Execution /\ s.pc = "moved" /\ s.stored = slices[r].stored
      /\ s.sources = slices[r].sources /\ s.expected = slices[r].expected
  BY <1>1 DEF Execution, Stages
<1> HIDE DEF s
<1>4. Progress(s, rawBytes, announced[r])
  BY <1>1, <1>3 DEF Progress, Past
<1>5. Faithful(r, s, rawBytes', announced'[r], commits') /\ s \in Executions
  BY <1>1, <1>2, <1>3, <1>4, ExecutionKinds DEF Faithful
<1>6. /\ slices' \in [Requests -> Executions]
      /\ \A q \in Requests : Faithful(q, slices'[q], rawBytes', announced'[q], commits')
  BY <1>2, <1>5, OneAdvances
<1>7. \A f \in Fixtures : heads'[f].content \in Contents[f] /\ heads'[f].revision \in Nat \ {0}
  <2> SUFFICES ASSUME NEW f \in Fixtures
               PROVE  heads'[f].content \in Contents[f] /\ heads'[f].revision \in Nat \ {0}
    OBVIOUS
  <2>1. f \in DOMAIN slices[r].sources /\ slices[r].sources[f] \in Sourced
    <3>1. slices[r].sources \in Seq(Sourced) /\ Len(slices[r].sources) = 2 /\ f \in 1 .. 2
      BY <1>1 DEF Execution, Fixtures
    <3> DEFINE t == slices[r].sources
    <3>2. t \in Seq(Sourced) /\ Len(t) = 2
      BY <3>1
    <3> HIDE DEF t
    <3>3. DOMAIN t = 1 .. 2
      BY <3>2
    <3>4. f \in DOMAIN t
      BY <3>1, <3>3
    <3>5. t[f] \in Sourced
      BY <3>2, <3>4
    <3> QED BY <3>4, <3>5 DEF t
  <2>2. f \in DOMAIN slices[r].stored /\ slices[r].sources[f].content \in Contents[f]
    <3>1. slices[r].stored \in Seq(AllContents)
      BY <1>1 DEF Execution
    <3>2. Len(slices[r].stored) = 2
      BY <1>1 DEF Progress
    <3>3. f \in DOMAIN slices[r].stored
      BY <3>1, <3>2 DEF Fixtures
    <3> QED BY <1>1, <2>1, <3>3 DEF Progress
  <2>3. heads'[f].content = slices[r].sources[f].content /\ heads'[f].revision = slices[r].sources[f].revision
    BY DEF MoveHeads
  <2> QED BY <2>1, <2>2, <2>3 DEF Sourced
<1>8. SliceTypeOK' /\ Evidenced' /\ Announced'
  BY <1>2, <1>7 DEF SliceIInv, SliceTypeOK, Evidenced, Announced, Published
<1> QED BY <1>2, <1>6, <1>8 DEF SliceIInv

\* checkpoint.committed and slice.completed are said of a published pair, and the answer
\* is that pair.
LEMMA AnnounceKeeps ==
  ASSUME SliceIInv, NEW r \in Requests, Announce(r) \/ Return(r)
  PROVE  SliceIInv'
<1>1. /\ slices[r] \in Execution /\ Progress(slices[r], rawBytes, announced[r]) /\ Len(slices[r].sources) = 2
      /\ Upheld(r, slices[r].expected + 1, slices[r].sources, commits) /\ Published(r)
  BY PastCommit DEF Announce, Return, Running, Past
<1>2. UNCHANGED <<heads, rawBytes, commits>>
  BY DEF Announce, Return
<1>3. PICK e \in {"checkpoint.committed", "slice.completed"} : announced' = [announced EXCEPT ![r] = @ \cup {e}]
  BY DEF Announce, Return, Told
<1>4. /\ announced' \in [Requests -> SUBSET EventTypes]
      /\ \A q \in Requests : announced[q] \subseteq announced'[q] /\ (q # r => announced'[q] = announced[q])
  BY <1>3 DEF SliceIInv, SliceTypeOK, EventTypes
<1>5. PICK s \in Executions : Continue(r, s) /\ Faithful(r, s, rawBytes, announced[r], commits)
  <2>1. CASE Announce(r)
    <3> DEFINE s == [slices[r] EXCEPT !.pc = "announced"]
    <3>1. /\ s \in Execution /\ s.pc = "announced" /\ s.stored = slices[r].stored
          /\ s.sources = slices[r].sources /\ s.expected = slices[r].expected
      BY <1>1 DEF Execution, Stages
    <3>2. Continue(r, s) /\ slices[r].pc = "moved"
      BY <2>1 DEF Announce, Running
    <3> HIDE DEF s
    <3>3. Progress(s, rawBytes, announced[r])
      BY <1>1, <3>1, <3>2 DEF Progress, Past
    <3> QED BY <1>1, <3>1, <3>2, <3>3, ExecutionKinds DEF Faithful
  <2>2. CASE Return(r)
    <3> DEFINE s == [pc |-> "returned", revision |-> slices[r].expected + 1, sources |-> slices[r].sources]
    <3>1. s \in Answer /\ s.revision = slices[r].expected + 1 /\ s.sources = slices[r].sources
      BY <1>1 DEF Execution, Answer
    <3>2. Continue(r, s)
      BY <2>2 DEF Return
    <3> HIDE DEF s
    <3> QED BY <1>1, <3>1, <3>2, ExecutionKinds DEF Faithful
  <2> QED BY <2>1, <2>2
<1>6. Faithful(r, s, rawBytes', announced'[r], commits')
  BY <1>2, <1>4, <1>5, FaithfulStays
<1>7. /\ slices' \in [Requests -> Executions]
      /\ \A q \in Requests : Faithful(q, slices'[q], rawBytes', announced'[q], commits')
  BY <1>2, <1>4, <1>5, <1>6, OneAdvances
<1>8. SliceTypeOK'
  BY <1>2, <1>4 DEF SliceIInv, SliceTypeOK
<1>9. Evidenced'
  <2>1. \A k \in DOMAIN commits : commits[k].run \in Requests
    BY DEF SliceIInv, SliceTypeOK
  <2> QED BY <1>2, <1>4, <2>1 DEF SliceIInv, Evidenced
<1>10. Announced'
  <2>1. \A q \in Requests : Published(q)' = Published(q)
    BY <1>2 DEF Published
  <2> QED BY <1>1, <1>4, <2>1 DEF SliceIInv, Announced
<1> QED BY <1>2, <1>7, <1>8, <1>9, <1>10 DEF SliceIInv

\* A restart forgets executions and heads; what is published stays.
LEMMA RestartKeeps ==
  ASSUME SliceIInv, Restart
  PROVE  SliceIInv'
<1>1. slices' \in [Requests -> Executions] /\ \A q \in Requests : slices'[q] \notin Execution \cup Answer
  BY ExecutionKinds DEF Restart
<1>2. SliceTypeOK' /\ Evidenced' /\ Announced'
  BY DEF Restart, SliceIInv, SliceTypeOK, Evidenced, Announced, Published
<1> QED BY <1>1, <1>2 DEF SliceIInv, Restart, Faithful

LEMMA SliceSteps == SliceIInv /\ [SliceNext]_sliceVars => SliceIInv'
<1> SUFFICES ASSUME SliceIInv, [SliceNext]_sliceVars PROVE SliceIInv'
  OBVIOUS
<1>0. rawBytes \subseteq AllContents
  BY DEF SliceIInv, SliceTypeOK
<1>1. ASSUME NEW r \in Requests, NEW content \in AllContents, Store(r, content) PROVE SliceIInv'
  BY <1>1, StoreKeeps
<1>2. ASSUME NEW r \in Requests, NEW content \in AllContents, StorePartial(r, content) PROVE SliceIInv'
  BY <1>0, <1>2, EndKeeps DEF StorePartial
<1>3. ASSUME NEW r \in Requests, NEW expected \in 0 .. MaxCheckpoint - 1, Start(r, expected) PROVE SliceIInv'
  BY <1>3, StartKeeps
<1>4. ASSUME NEW r \in Requests, Fetch(r) \/ RateLimited(r) PROVE SliceIInv'
  BY <1>4, FetchKeeps
<1>5. ASSUME NEW r \in Requests, WriteSource(r) PROVE SliceIInv'
  BY <1>5, WriteSourceKeeps
<1>6. ASSUME NEW r \in Requests, BuildArtifact(r) PROVE SliceIInv'
  BY <1>6, BuildArtifactKeeps
<1>7. ASSUME NEW r \in Requests, Publish(r) PROVE SliceIInv'
  BY <1>7, PublishKeeps
<1>8. ASSUME NEW r \in Requests, MoveHeads(r) PROVE SliceIInv'
  BY <1>8, MoveHeadsKeeps
<1>9. ASSUME NEW r \in Requests, Announce(r) \/ Return(r) PROVE SliceIInv'
  BY <1>9, AnnounceKeeps
<1>10. ASSUME NEW r \in Requests, Fails(r) PROVE SliceIInv'
  BY <1>0, <1>10, EndKeeps DEF Fails
<1>11. CASE Restart
  BY <1>11, RestartKeeps
<1>12. CASE UNCHANGED sliceVars
  BY <1>12 DEF sliceVars, SliceIInv, SliceTypeOK, Evidenced, Announced, Published
<1> QED BY <1>1, <1>2, <1>3, <1>4, <1>5, <1>6, <1>7, <1>8, <1>9, <1>10, <1>11, <1>12 DEF SliceNext

LEMMA SliceInvariant == SliceSpec => []SliceIInv
BY SliceBegins, SliceSteps, PTL DEF SliceSpec

\* Executions, heads, announcements and published pairs keep their shapes
\* (SliceOrchestrator.run and what it keeps).
THEOREM SliceTypeCorrect == SliceSpec => []SliceTypeOK
<1>1. SliceIInv => SliceTypeOK
  BY DEF SliceIInv
<1> QED BY <1>1, SliceInvariant, PTL

\* Whatever fails, is repeated with another expected revision, competes for one or
\* restarts: a run is answered with the last pair it published, at its checkpoint revision;
\* what is published is durable and announced, and of the events those behind the
\* commit are of runs that published (transactPair's compare-and-set, run's memory of
\* runIds, the order of raw bytes, events and commit in runOnce).
THEOREM AnsweredAsPublishedAlways == SliceSpec => []AnsweredAsPublished
<1> QED BY AnsweredFromInv, SliceInvariant, PTL

-----------------------------------------------------------------------------
(* The import of snapshots. *)

\* The posts whose tweet is known, those that are a source or an observation of
\* it, those that have their prompt as well, and the media references shown.
Known == {p \in AllPosts : \E s \in sources : s.tweet = p.tweet}
Placed == {p \in AllPosts : \E s \in sources : s.tweet = p.tweet /\ (s.content = p.content \/ p \in observations)}
Held == {p \in AllPosts : HasPost(p)}
Shown == {d \in AllMedia : \E e \in evidence : e.fact = d}

OnItems == {"create", "items", "source", "observe", "prompt", "artifact", "evidence"}
OnPost == {"source", "observe", "prompt", "artifact"}

\* What an importer in state s may rely on: what is no more on its lists is there,
\* and it ends as a success only when everything is.
Relies(s, known, placed, held, shown) ==
  /\ s.pc # "off" => s.manifest \in Manifests
  /\ s.pc \in OnItems => PostsOf[s.manifest] \subseteq s.posts \cup held /\ MediaOf[s.manifest] \subseteq s.media \cup shown
  /\ s.pc \in OnPost => s.item.post \in AllPosts
  /\ s.pc = "observe" => s.item.post \in known
  /\ s.pc \in {"prompt", "artifact"} => s.item.post \in placed
  /\ s.pc = "evidence" => s.item.media \in AllMedia
  /\ s.pc \in {"ending", "writing"} => s.status \in {"succeeded", "failed"}
  /\ s.pc \in {"ending", "writing"} /\ s.status = "succeeded" => PostsOf[s.manifest] \subseteq held /\ MediaOf[s.manifest] \subseteq shown
  /\ s.pc = "writing" => s.next \in ImportRun(s.manifest) /\ s.next.status # "running"
  /\ s.pc = "writing" /\ s.next.result = "import" => PostsOf[s.manifest] \subseteq held /\ MediaOf[s.manifest] \subseteq shown

\* The runs: a worker's lease leaves room for the revision it settles at, and the
\* result of an import stands for everything its snapshot lists.
RunsSound(held, shown) ==
  /\ DOMAIN runs = Manifests
  /\ \A m \in Manifests : runs[m] \in ImportRun(m) \cup {NoRun}
  /\ \A m \in Manifests : runs[m].status = "running" => runs[m].revision <= MaxRunRevision[m]
  /\ \A m \in Manifests : runs[m].result = "import" => PostsOf[m] \subseteq held /\ MediaOf[m] \subseteq shown

RowsSound ==
  /\ sources \subseteq SourceRow /\ artifacts \subseteq ArtifactRow /\ observations \subseteq AllPosts
  /\ \A r, s \in sources : r.tweet = s.tweet => r = s
  /\ \A a, b \in artifacts : a.tweet = b.tweet /\ (a.version = b.version \/ a.content = b.content) => a = b
  /\ \A e, f \in evidence : e.key = f.key => e = f
  /\ \A e \in evidence : e.fact \in AllMedia

ImportIInv ==
  /\ RunsSound(Held, Shown) /\ RowsSound
  /\ DOMAIN importers = Importers
  /\ \A i \in Importers : Relies(importers[i], Known, Placed, Held, Shown)

\* No row is lost; an artifact may be stamped with another version.
RowsKept ==
  /\ sources \subseteq sources' /\ observations \subseteq observations' /\ evidence \subseteq evidence'
  /\ \A a \in artifacts : \E b \in artifacts' : b.tweet = a.tweet /\ b.prompt = a.prompt /\ b.content = a.content

LEMMA WhatIsThereStays ==
  ASSUME RowsKept
  PROVE  Known \subseteq Known' /\ Placed \subseteq Placed' /\ Held \subseteq Held' /\ Shown \subseteq Shown'
<1>1. Known \subseteq Known' /\ Placed \subseteq Placed' /\ Shown \subseteq Shown'
  BY DEF RowsKept, Known, Placed, Shown
<1>2. ASSUME NEW p \in AllPosts, HasPost(p)
      PROVE  p \in Held'
  <2>1. \E s \in sources' : s.tweet = p.tweet /\ (s.content = p.content \/ p \in observations')
    BY <1>2 DEF HasPost, RowsKept
  <2>2. p.prompt # NoPrompt => \E a \in artifacts' : a.tweet = p.tweet /\ a.prompt = p.prompt
    BY <1>2 DEF HasPost, RowsKept
  <2> QED BY <2>1, <2>2 DEF Held, HasPost
<1> QED BY <1>1, <1>2 DEF Held

LEMMA UnchangedIsKept ==
  ASSUME UnchangedRows
  PROVE  RowsKept /\ (RowsSound => RowsSound')
BY DEF UnchangedRows, RowsKept, RowsSound

LEMMA StillRelies ==
  ASSUME NEW s, NEW k1, NEW k2, NEW p1, NEW p2, NEW h1, NEW h2, NEW d1, NEW d2,
         Relies(s, k1, p1, h1, d1), k1 \subseteq k2, p1 \subseteq p2, h1 \subseteq h2, d1 \subseteq d2
  PROVE  Relies(s, k2, p2, h2, d2)
BY DEF Relies

\* One importer moves; the others still have what they rely on.
LEMMA OneWorks ==
  ASSUME ImportIInv, RowsKept, NEW i \in Importers, NEW s, Goes(i, s),
         Relies(s, Known', Placed', Held', Shown')
  PROVE  /\ DOMAIN importers' = Importers
         /\ \A j \in Importers : Relies(importers'[j], Known', Placed', Held', Shown')
<1>1. /\ DOMAIN importers' = Importers
      /\ \A j \in Importers : importers'[j] = IF j = i THEN s ELSE importers[j]
  BY DEF Goes, ImportIInv
<1>2. Known \subseteq Known' /\ Placed \subseteq Placed' /\ Held \subseteq Held' /\ Shown \subseteq Shown'
  BY WhatIsThereStays
<1> HIDE DEF Known, Placed, Held, Shown
<1>3. ASSUME NEW j \in Importers PROVE Relies(importers[j], Known', Placed', Held', Shown')
  <2>1. Relies(importers[j], Known, Placed, Held, Shown)
    BY DEF ImportIInv
  <2> QED BY <1>2, <2>1, StillRelies
<1> QED BY <1>1, <1>3

\* A step of an importer that leaves the runs alone.
LEMMA WorkKeeps ==
  ASSUME ImportIInv, NEW i \in Importers, NEW s, Goes(i, s), UNCHANGED runs, RowsKept, RowsSound',
         Relies(s, Known', Placed', Held', Shown')
  PROVE  ImportIInv'
<1>1. /\ DOMAIN importers' = Importers
      /\ \A j \in Importers : Relies(importers'[j], Known', Placed', Held', Shown')
  BY OneWorks
<1>2. Held \subseteq Held' /\ Shown \subseteq Shown'
  BY WhatIsThereStays
<1>3. RunsSound(Held, Shown)' 
  BY <1>2 DEF ImportIInv, RunsSound
<1> QED BY <1>1, <1>3 DEF ImportIInv

LEMMA ImportBegins == ImportInit => ImportIInv
<1> SUFFICES ASSUME ImportInit PROVE ImportIInv
  OBVIOUS
<1>1. DOMAIN runs = Manifests /\ \A m \in Manifests : runs[m] = NoRun
  BY DEF ImportInit
<1>2. RunsSound(Held, Shown)
  BY <1>1 DEF RunsSound, NoRun
<1>3. RowsSound
  BY DEF ImportInit, RowsSound
<1>4. DOMAIN importers = Importers /\ \A i \in Importers : importers[i].pc = "off"
  BY DEF ImportInit, NotImporting
<1>5. \A i \in Importers : Relies(importers[i], Known, Placed, Held, Shown)
  BY <1>4 DEF Relies, OnItems, OnPost
<1> QED BY <1>2, <1>3, <1>4, <1>5 DEF ImportIInv

\* A step of an importer that writes nothing.
LEMMA PlanKeeps ==
  ASSUME ImportIInv, NEW i \in Importers, NEW s, Goes(i, s), UNCHANGED runs, UnchangedRows,
         Relies(s, Known, Placed, Held, Shown)
  PROVE  ImportIInv'
<1>1. RowsKept /\ RowsSound'
  BY UnchangedIsKept DEF ImportIInv
<1>2. Known \subseteq Known' /\ Placed \subseteq Placed' /\ Held \subseteq Held' /\ Shown \subseteq Shown'
  BY <1>1, WhatIsThereStays
<1> HIDE DEF Known, Placed, Held, Shown
<1>3. Relies(s, Known', Placed', Held', Shown')
  BY <1>2, StillRelies
<1> QED BY <1>1, <1>3, WorkKeeps

LEMMA IdleRelies ==
  ASSUME NEW k, NEW p, NEW h, NEW d
  PROVE  Relies(NotImporting, k, p, h, d)
BY DEF Relies, NotImporting, OnItems, OnPost

LEMMA OffKeeps ==
  ASSUME ImportIInv, NEW i \in Importers, Off(i), UNCHANGED runs, UnchangedRows
  PROVE  ImportIInv'
<1> HIDE DEF Known, Placed, Held, Shown, NotImporting
<1> QED BY PlanKeeps, IdleRelies DEF Off

LEMMA BeginKeeps ==
  ASSUME ImportIInv, NEW i \in Importers, NEW m \in Manifests, Begin(i, m)
  PROVE  ImportIInv'
<1> DEFINE s == [pc |-> IF runs[m] = NoRun THEN "create" ELSE "items", manifest |-> m, seen |-> runs[m],
                 posts |-> PostsOf[m], media |-> MediaOf[m]]
<1>1. Relies(s, Known, Placed, Held, Shown)
  BY DEF Relies, OnItems, OnPost
<1>2. Goes(i, s) /\ UNCHANGED runs /\ UnchangedRows
  BY DEF Begin
<1> HIDE DEF s
<1> QED BY <1>1, <1>2, PlanKeeps

\* The row of a new run is queued at revision 1.
LEMMA CreateRunKeeps ==
  ASSUME ImportIInv, NEW i \in Importers, CreateRun(i)
  PROVE  ImportIInv'
<1> DEFINE m == importers[i].manifest
           row == [status |-> "queued", revision |-> 1, result |-> "none"]
           s == [Work("items", i) EXCEPT !.seen = row]
<1>1. importers[i].pc = "create" /\ Relies(importers[i], Known, Placed, Held, Shown) /\ m \in Manifests
  BY DEF CreateRun, On, ImportIInv, Relies
<1>2. CASE runs[m] = NoRun
  <2>1. runs' = [runs EXCEPT ![m] = row] /\ Goes(i, s) /\ UnchangedRows
    BY <1>2 DEF CreateRun
  <2>2. /\ s.pc = "items" /\ s.manifest = m
        /\ s.posts = importers[i].posts /\ s.media = importers[i].media
    BY DEF Work
  <2> HIDE DEF s
  <2>3. RowsKept /\ RowsSound'
    BY <2>1, UnchangedIsKept DEF ImportIInv
  <2>4. Known \subseteq Known' /\ Placed \subseteq Placed' /\ Held \subseteq Held' /\ Shown \subseteq Shown'
    BY <2>3, WhatIsThereStays
  <2>5. Relies(s, Known, Placed, Held, Shown)
    BY <1>1, <2>2 DEF Relies, OnItems, OnPost
  <2>6. /\ DOMAIN runs' = Manifests
        /\ \A n \in Manifests : runs'[n] = IF n = m THEN row ELSE runs[n]
    BY <1>1, <2>1 DEF ImportIInv, RunsSound
  <2>7. /\ row \in ImportRun(m) /\ row.status # "running" /\ row.result # "import"
    BY <1>1, SnapshotAssumption DEF ImportRun, Settled
  <2> HIDE DEF row, Known, Placed, Held, Shown
  <2>8. RunsSound(Held, Shown)'
    BY <2>4, <2>6, <2>7 DEF ImportIInv, RunsSound
  <2>9. Relies(s, Known', Placed', Held', Shown')
    BY <2>4, <2>5, StillRelies
  <2>10. /\ DOMAIN importers' = Importers
         /\ \A j \in Importers : Relies(importers'[j], Known', Placed', Held', Shown')
    BY <2>1, <2>3, <2>9, OneWorks
  <2> QED BY <2>3, <2>8, <2>10 DEF ImportIInv
<1>3. CASE runs[m] # NoRun
  BY <1>3, OffKeeps DEF CreateRun
<1> QED BY <1>2, <1>3

\* Where a post goes from here depends on what is known of its tweet.
LEMMA FindPostKeeps ==
  ASSUME ImportIInv, NEW i \in Importers, NEW p \in AllPosts, FindPost(i, p)
  PROVE  ImportIInv'
<1> DEFINE own == [tweet |-> p.tweet, content |-> p.content] \in sources
           known == \E r \in sources : r.tweet = p.tweet
           item == [post |-> p, alias |-> known /\ ~own]
           pc == CASE ~known -> "source" [] known /\ ~own /\ p \notin observations -> "observe" [] OTHER -> "prompt"
           s == With(pc, i, item)
<1>1. importers[i].pc = "items" /\ Relies(importers[i], Known, Placed, Held, Shown)
  BY DEF FindPost, On, ImportIInv
<1>2. Goes(i, s) /\ UNCHANGED runs /\ UnchangedRows
  BY DEF FindPost
<1>3. own => known
  <2> DEFINE r == [tweet |-> p.tweet, content |-> p.content]
  <2>1. r.tweet = p.tweet
    OBVIOUS
  <2> QED BY <2>1
<1>4. pc \in {"source", "observe", "prompt"} /\ (pc = "observe" => p \in Known)
  BY DEF Known
<1>5. pc = "prompt" => p \in Placed
  <2>1. own => p \in Placed
    <3> DEFINE r == [tweet |-> p.tweet, content |-> p.content]
    <3>1. r.tweet = p.tweet /\ r.content = p.content
      OBVIOUS
    <3> QED BY <3>1 DEF Placed
  <2>2. known /\ p \in observations => p \in Placed
    BY DEF Placed
  <2> QED BY <1>3, <2>1, <2>2
<1> HIDE DEF pc
<1>6. /\ s.pc = pc /\ s.manifest = importers[i].manifest
      /\ s.posts = importers[i].posts /\ s.media = importers[i].media /\ s.item.post = p
  BY DEF With
<1> HIDE DEF s
<1>7. Relies(s, Known, Placed, Held, Shown)
  BY <1>1, <1>4, <1>5, <1>6 DEF Relies, OnItems, OnPost
<1> QED BY <1>2, <1>7, PlanKeeps

\* The post an importer is on is placed, and it goes on to the prompt.
LEMMA ToPrompt ==
  ASSUME ImportIInv, NEW i \in Importers, importers[i].pc \in {"source", "observe"},
         Goes(i, With("prompt", i, importers[i].item)), UNCHANGED runs, RowsKept, RowsSound',
         importers[i].item.post \in Placed'
  PROVE  ImportIInv'
<1> DEFINE s == With("prompt", i, importers[i].item)
<1>1. Relies(importers[i], Known, Placed, Held, Shown)
  BY DEF ImportIInv
<1>2. Held \subseteq Held' /\ Shown \subseteq Shown'
  BY WhatIsThereStays
<1>3. /\ s.pc = "prompt" /\ s.manifest = importers[i].manifest
      /\ s.posts = importers[i].posts /\ s.media = importers[i].media /\ s.item = importers[i].item
  BY DEF With
<1> HIDE DEF s, Known, Placed, Held, Shown
<1>4. Relies(s, Known', Placed', Held', Shown')
  BY <1>1, <1>2, <1>3 DEF Relies, OnItems, OnPost
<1> QED BY <1>4, WorkKeeps DEF s

LEMMA PutSourceKeeps ==
  ASSUME ImportIInv, NEW i \in Importers, PutSource(i)
  PROVE  ImportIInv'
<1> DEFINE p == importers[i].item.post
           row == [tweet |-> p.tweet, content |-> p.content]
<1>1. importers[i].pc = "source" /\ p \in AllPosts
  BY DEF PutSource, On, ImportIInv, Relies, OnPost
<1>2. /\ sources' = sources \cup {row} /\ ~\E s \in sources : s.tweet = p.tweet
      /\ UNCHANGED <<runs, observations, artifacts, evidence>>
      /\ Goes(i, With("prompt", i, importers[i].item))
  BY DEF PutSource
<1>3. row \in SourceRow /\ row.tweet = p.tweet /\ row.content = p.content
  BY <1>1 DEF SourceRow
<1> HIDE DEF row
<1>4. RowsKept /\ p \in Placed'
  BY <1>1, <1>2, <1>3 DEF RowsKept, Placed
<1>5. RowsSound'
  BY <1>2, <1>3 DEF ImportIInv, RowsSound
<1> QED BY <1>1, <1>2, <1>4, <1>5, ToPrompt

LEMMA PutObservationKeeps ==
  ASSUME ImportIInv, NEW i \in Importers, PutObservation(i)
  PROVE  ImportIInv'
<1> DEFINE p == importers[i].item.post
<1>1. importers[i].pc = "observe" /\ p \in AllPosts /\ p \in Known
  BY DEF PutObservation, On, ImportIInv, Relies, OnPost
<1>2. /\ observations' = observations \cup {p} /\ UNCHANGED <<runs, sources, artifacts, evidence>>
      /\ Goes(i, With("prompt", i, importers[i].item))
  BY DEF PutObservation
<1> HIDE DEF p
<1>4. RowsKept /\ p \in Placed'
  BY <1>1, <1>2 DEF RowsKept, Placed, Known
<1>5. RowsSound'
  BY <1>1, <1>2 DEF ImportIInv, RowsSound
<1> QED BY <1>1, <1>2, <1>4, <1>5, ToPrompt DEF p

\* A post whose prompt is there too, or a media reference shown, comes off its list.
LEMMA ItemDone ==
  ASSUME ImportIInv, NEW i \in Importers, importers[i].pc \in OnItems,
         NEW ps, NEW ds, Goes(i, Done(i, ps, ds)), UNCHANGED runs, RowsKept, RowsSound',
         ps \subseteq Held', ds \subseteq Shown'
  PROVE  ImportIInv'
<1> DEFINE s == Done(i, ps, ds)
<1>1. Relies(importers[i], Known, Placed, Held, Shown)
  BY DEF ImportIInv
<1>2. Held \subseteq Held' /\ Shown \subseteq Shown'
  BY WhatIsThereStays
<1>3. /\ s.pc = "items" /\ s.manifest = importers[i].manifest
      /\ s.posts = importers[i].posts \ ps /\ s.media = importers[i].media \ ds
  BY DEF Done
<1> HIDE DEF s, Known, Placed, Held, Shown
<1>4. s.manifest \in Manifests
  BY <1>1, <1>3 DEF Relies, OnItems
<1>5. PostsOf[s.manifest] \subseteq s.posts \cup Held' /\ MediaOf[s.manifest] \subseteq s.media \cup Shown'
  BY <1>1, <1>2, <1>3 DEF Relies
<1>6. Relies(s, Known', Placed', Held', Shown')
  BY <1>3, <1>4, <1>5 DEF Relies, OnPost
<1> QED BY <1>6, WorkKeeps DEF s

\* A stamp changes no artifact's tweet, prompt or content, and keeps versions apart.
LEMMA StampKeeps ==
  ASSUME RowsSound, NEW a \in artifacts, NEW m \in Manifests,
         ~\E b \in artifacts \ {a} : b.tweet = a.tweet /\ b.version = m,
         artifacts' = (artifacts \ {a}) \cup {[a EXCEPT !.version = m]},
         UNCHANGED <<sources, observations, evidence>>
  PROVE  RowsKept /\ RowsSound'
<1> DEFINE c == [a EXCEPT !.version = m]
<1>1. a \in ArtifactRow
  BY DEF RowsSound
<1>2. /\ c \in ArtifactRow /\ c.tweet = a.tweet /\ c.prompt = a.prompt
      /\ c.content = a.content /\ c.version = m
  BY <1>1 DEF ArtifactRow
<1> HIDE DEF c
<1>3. artifacts' = (artifacts \ {a}) \cup {c}
  BY DEF c
<1>4. RowsKept
  BY <1>2, <1>3 DEF RowsKept
<1>5. \A b \in artifacts \ {a} : b.tweet = c.tweet => b.version # c.version /\ b.content # c.content
  BY <1>2 DEF RowsSound
<1>6. artifacts' \subseteq ArtifactRow
  BY <1>2, <1>3 DEF RowsSound
<1>7. \A b, e \in artifacts' : b.tweet = e.tweet /\ (b.version = e.version \/ b.content = e.content) => b = e
  BY <1>3, <1>5 DEF RowsSound
<1> QED BY <1>4, <1>6, <1>7 DEF RowsSound

LEMMA FindPromptKeeps ==
  ASSUME ImportIInv, NEW i \in Importers, FindPrompt(i)
  PROVE  ImportIInv'
<1> DEFINE m == importers[i].manifest
           p == importers[i].item.post
           found == {a \in artifacts : a.tweet = p.tweet /\ a.prompt = p.prompt}
<1>1. /\ importers[i].pc = "prompt" /\ p \in AllPosts /\ p \in Placed /\ m \in Manifests
      /\ Relies(importers[i], Known, Placed, Held, Shown)
  BY DEF FindPrompt, On, ImportIInv, Relies, OnPost
<1>2. UNCHANGED <<runs, sources, observations, evidence>>
  BY DEF FindPrompt
<1>3. UNCHANGED artifacts => RowsKept /\ RowsSound'
  BY <1>2, UnchangedIsKept DEF ImportIInv, UnchangedRows
<1>4. \E r \in sources : r.tweet = p.tweet /\ (r.content = p.content \/ p \in observations)
  BY <1>1 DEF Placed
<1>5. CASE p.prompt = NoPrompt /\ Goes(i, Done(i, {p}, {})) /\ UNCHANGED artifacts
  <2>1. p \in Held'
    BY <1>1, <1>2, <1>4, <1>5 DEF Held, HasPost
  <2> QED BY <1>1, <1>2, <1>3, <1>5, <2>1, ItemDone DEF OnItems
<1>6. CASE Goes(i, With("artifact", i, importers[i].item)) /\ UNCHANGED artifacts
  <2> DEFINE s == With("artifact", i, importers[i].item)
  <2>1. /\ s.pc = "artifact" /\ s.manifest = m
        /\ s.posts = importers[i].posts /\ s.media = importers[i].media /\ s.item = importers[i].item
    BY DEF With
  <2>2. Goes(i, s) /\ UnchangedRows
    BY <1>2, <1>6 DEF UnchangedRows
  <2> HIDE DEF s, Known, Placed, Held, Shown
  <2>3. Relies(s, Known, Placed, Held, Shown)
    BY <1>1, <2>1 DEF Relies, OnItems, OnPost
  <2> QED BY <1>2, <2>2, <2>3, PlanKeeps
<1>7. ASSUME NEW a \in found, Goes(i, Done(i, {p}, {})),
             IF importers[i].item.alias THEN UNCHANGED artifacts
             ELSE /\ ~\E b \in artifacts \ {a} : b.tweet = a.tweet /\ b.version = m
                  /\ artifacts' = (artifacts \ {a}) \cup {[a EXCEPT !.version = m]}
      PROVE  ImportIInv'
  <2>1. RowsKept /\ RowsSound'
    BY <1>1, <1>2, <1>3, <1>7, StampKeeps DEF ImportIInv
  <2>2. \E b \in artifacts' : b.tweet = p.tweet /\ b.prompt = p.prompt
    BY <1>7, <2>1 DEF RowsKept
  <2>3. p \in Held'
    BY <1>1, <1>2, <1>4, <2>2 DEF Held, HasPost
  <2> QED BY <1>1, <1>2, <1>7, <2>1, <2>3, ItemDone DEF OnItems
<1> QED BY <1>5, <1>6, <1>7 DEF FindPrompt

LEMMA PutArtifactKeeps ==
  ASSUME ImportIInv, NEW i \in Importers, PutArtifact(i)
  PROVE  ImportIInv'
<1> DEFINE m == importers[i].manifest
           p == importers[i].item.post
           row == [tweet |-> p.tweet, prompt |-> p.prompt, content |-> p.content, version |-> m]
<1>1. importers[i].pc = "artifact" /\ p \in AllPosts /\ p \in Placed /\ m \in Manifests
  BY DEF PutArtifact, On, ImportIInv, Relies, OnPost
<1>2. /\ ~\E a \in artifacts : a.tweet = p.tweet /\ (a.version = m \/ a.content = p.content)
      /\ artifacts' = artifacts \cup {row} /\ Goes(i, Done(i, {p}, {}))
      /\ UNCHANGED <<runs, sources, observations, evidence>>
  BY DEF PutArtifact
<1>3. /\ row \in ArtifactRow /\ row.tweet = p.tweet /\ row.prompt = p.prompt
      /\ row.content = p.content /\ row.version = m
  BY <1>1 DEF ArtifactRow
<1> HIDE DEF row
<1>4. RowsKept
  BY <1>2 DEF RowsKept
<1>5. p \in Held'
  BY <1>1, <1>2, <1>3 DEF Held, HasPost, Placed
<1>6. RowsSound'
  BY <1>2, <1>3 DEF ImportIInv, RowsSound
<1> QED BY <1>1, <1>2, <1>4, <1>5, <1>6, ItemDone DEF OnItems

LEMMA FindMediaKeeps ==
  ASSUME ImportIInv, NEW i \in Importers, NEW d \in AllMedia, FindMedia(i, d)
  PROVE  ImportIInv'
<1>1. importers[i].pc = "items" /\ Relies(importers[i], Known, Placed, Held, Shown)
  BY DEF FindMedia, On, ImportIInv
<1>2. UNCHANGED runs /\ UnchangedRows
  BY DEF FindMedia
<1>3. RowsKept /\ RowsSound'
  BY <1>2, UnchangedIsKept DEF ImportIInv
<1>4. CASE (\E e \in evidence : e.fact = d) /\ Goes(i, Done(i, {}, {d}))
  <2>1. d \in Shown'
    BY <1>2, <1>4 DEF Shown, UnchangedRows
  <2> QED BY <1>1, <1>2, <1>3, <1>4, <2>1, ItemDone DEF OnItems
<1>5. CASE \E key : Goes(i, With("evidence", i, [media |-> d, key |-> key]))
  <2> PICK key : Goes(i, With("evidence", i, [media |-> d, key |-> key]))
    BY <1>5
  <2> DEFINE s == With("evidence", i, [media |-> d, key |-> key])
  <2>1. /\ s.pc = "evidence" /\ s.manifest = importers[i].manifest
        /\ s.posts = importers[i].posts /\ s.media = importers[i].media /\ s.item.media = d
    BY DEF With
  <2>2. Goes(i, s)
    OBVIOUS
  <2> HIDE DEF s, Known, Placed, Held, Shown
  <2>3. Relies(s, Known, Placed, Held, Shown)
    BY <1>1, <2>1 DEF Relies, OnItems, OnPost
  <2> QED BY <1>2, <2>2, <2>3, PlanKeeps
<1> QED BY <1>4, <1>5 DEF FindMedia

LEMMA PutMediaKeeps ==
  ASSUME ImportIInv, NEW i \in Importers, PutMedia(i)
  PROVE  ImportIInv'
<1> DEFINE d == importers[i].item.media
           key == importers[i].item.key
           row == [key |-> key, fact |-> d]
<1>1. importers[i].pc = "evidence" /\ d \in AllMedia
  BY DEF PutMedia, On, ImportIInv, Relies
<1>2. /\ ~\E e \in evidence : e.key = key
      /\ evidence' = evidence \cup {row} /\ Goes(i, Done(i, {}, {d}))
      /\ UNCHANGED <<runs, sources, observations, artifacts>>
  BY DEF PutMedia
<1>3. row.key = key /\ row.fact = d
  OBVIOUS
<1> HIDE DEF row
<1>4. RowsKept /\ d \in Shown'
  BY <1>1, <1>2, <1>3 DEF RowsKept, Shown
<1>5. RowsSound'
  BY <1>1, <1>2, <1>3 DEF ImportIInv, RowsSound
<1> QED BY <1>1, <1>2, <1>4, <1>5, ItemDone DEF OnItems

\* An end is begun as a failure, or as a success when everything is there.
LEMMA EndingRelies ==
  ASSUME ImportIInv, NEW i \in Importers, importers[i].pc # "off", NEW status \in {"succeeded", "failed"},
         NEW candidate, NEW attempt,
         status = "succeeded" => /\ PostsOf[importers[i].manifest] \subseteq Held
                                 /\ MediaOf[importers[i].manifest] \subseteq Shown
  PROVE  Relies(Ending(i, status, candidate, attempt), Known, Placed, Held, Shown)
<1> DEFINE s == Ending(i, status, candidate, attempt)
<1>1. s.pc = "ending" /\ s.manifest = importers[i].manifest /\ s.status = status
  BY DEF Ending
<1>2. importers[i].manifest \in Manifests
  BY DEF ImportIInv, Relies
<1> HIDE DEF s, Known, Placed, Held, Shown
<1>3. Relies(s, Known, Placed, Held, Shown)
  BY <1>1, <1>2 DEF Relies, OnItems, OnPost
<1> QED BY <1>3 DEF s

LEMMA CompleteKeeps ==
  ASSUME ImportIInv, NEW i \in Importers, Complete(i) \/ ItemFails(i)
  PROVE  ImportIInv'
<1>1. UNCHANGED runs /\ UnchangedRows /\ importers[i].pc \in OnItems /\ importers[i].pc # "off"
  BY DEF Complete, ItemFails, On, OnItems
<1>2. PICK status \in {"succeeded", "failed"} :
        /\ Goes(i, Ending(i, status, importers[i].seen, 0))
        /\ status = "succeeded" => importers[i].posts = {} /\ importers[i].media = {}
  BY DEF Complete, ItemFails
<1>3. status = "succeeded" => /\ PostsOf[importers[i].manifest] \subseteq Held
                              /\ MediaOf[importers[i].manifest] \subseteq Shown
  <2>1. Relies(importers[i], Known, Placed, Held, Shown)
    BY DEF ImportIInv
  <2> HIDE DEF Known, Placed, Held, Shown
  <2> QED BY <1>1, <1>2, <2>1 DEF Relies
<1> HIDE DEF Known, Placed, Held, Shown
<1>4. Relies(Ending(i, status, importers[i].seen, 0), Known, Placed, Held, Shown)
  BY <1>1, <1>3, EndingRelies
<1> QED BY <1>1, <1>2, <1>4, PlanKeeps

\* The row to be written is a terminal one, of the next revision.
LEMMA DecideEndKeeps ==
  ASSUME ImportIInv, NEW i \in Importers, DecideEnd(i)
  PROVE  ImportIInv'
<1> DEFINE m == importers[i].manifest
           status == importers[i].status
           next == [status |-> status, revision |-> runs[m].revision + 1,
                    result |-> IF status = "succeeded" THEN "import" ELSE "none"]
           s == [pc |-> "writing", manifest |-> m, seen |-> importers[i].seen,
                 status |-> status, attempt |-> importers[i].attempt, next |-> next]
<1>1. /\ importers[i].pc = "ending" /\ m \in Manifests /\ status \in {"succeeded", "failed"}
      /\ status = "succeeded" => PostsOf[m] \subseteq Held /\ MediaOf[m] \subseteq Shown
  BY DEF DecideEnd, On, ImportIInv, Relies
<1>2. Goes(i, s) /\ UNCHANGED runs /\ UnchangedRows /\ runs[m].revision < MaxRunRevision[m]
  BY DEF DecideEnd
<1>3. runs[m].revision \in Nat
  BY <1>1 DEF ImportIInv, RunsSound, ImportRun, NoRun
<1>4. next \in ImportRun(m) /\ next.status # "running" /\ (next.result = "import" => status = "succeeded")
  <2>1. runs[m].revision + 1 \in 1 .. MaxRunRevision[m] + 1
    BY <1>1, <1>2, <1>3, SnapshotAssumption
  <2> QED BY <1>1, <2>1 DEF ImportRun, Settled
<1> HIDE DEF next
<1>5. s.pc = "writing" /\ s.manifest = m /\ s.next = next /\ s.status = status
  OBVIOUS
<1> HIDE DEF s, Known, Placed, Held, Shown
<1>6. Relies(s, Known, Placed, Held, Shown)
  BY <1>1, <1>4, <1>5 DEF Relies, OnItems, OnPost
<1> QED BY <1>2, <1>6, PlanKeeps

\* A run changes and no row does.
LEMMA RunKeeps ==
  ASSUME ImportIInv, UnchangedRows, NEW m \in Manifests, NEW row \in ImportRun(m),
         runs' = [runs EXCEPT ![m] = row], row.status = "running" => row.revision <= MaxRunRevision[m],
         row.result = "import" => PostsOf[m] \subseteq Held /\ MediaOf[m] \subseteq Shown,
         DOMAIN importers' = Importers,
         \A j \in Importers : Relies(importers'[j], Known, Placed, Held, Shown)
  PROVE  ImportIInv'
<1>1. RowsKept /\ RowsSound'
  BY UnchangedIsKept DEF ImportIInv
<1>2. Known' = Known /\ Placed' = Placed /\ Held' = Held /\ Shown' = Shown
  BY DEF UnchangedRows, Known, Placed, Held, Shown, HasPost
<1> HIDE DEF Known, Placed, Held, Shown
<1>3. DOMAIN runs' = Manifests /\ \A n \in Manifests : runs'[n] = IF n = m THEN row ELSE runs[n]
  BY DEF ImportIInv, RunsSound
<1>4. RunsSound(Held, Shown)'
  BY <1>2, <1>3 DEF ImportIInv, RunsSound
<1> QED BY <1>1, <1>2, <1>4 DEF ImportIInv

LEMMA WriteEndKeeps ==
  ASSUME ImportIInv, NEW i \in Importers, WriteEnd(i)
  PROVE  ImportIInv'
<1> DEFINE m == importers[i].manifest
           row == importers[i].next
<1>1. importers[i].pc = "writing" /\ Relies(importers[i], Known, Placed, Held, Shown)
  BY DEF WriteEnd, On, ImportIInv
<1>2. runs' = [runs EXCEPT ![m] = row] /\ Off(i) /\ UnchangedRows
  BY DEF WriteEnd
<1> HIDE DEF Known, Placed, Held, Shown
<1>3. /\ m \in Manifests /\ row \in ImportRun(m) /\ row.status # "running"
      /\ row.result = "import" => PostsOf[m] \subseteq Held /\ MediaOf[m] \subseteq Shown
  BY <1>1 DEF Relies
<1>4. /\ DOMAIN importers' = Importers
      /\ \A j \in Importers : Relies(importers'[j], Known, Placed, Held, Shown)
  <2>1. /\ DOMAIN importers' = Importers
        /\ \A j \in Importers : importers'[j] = IF j = i THEN NotImporting ELSE importers[j]
    BY <1>2 DEF Off, Goes, ImportIInv
  <2> QED BY <2>1, IdleRelies DEF ImportIInv
<1> QED BY <1>2, <1>3, <1>4, RunKeeps

\* A success that is tried again was complete when it was first tried.
LEMMA EndFailsKeeps ==
  ASSUME ImportIInv, NEW i \in Importers, EndFails(i)
  PROVE  ImportIInv'
<1>1. UNCHANGED runs /\ UnchangedRows /\ importers[i].pc \in {"ending", "writing"}
  BY DEF EndFails
<1> DEFINE m == importers[i].manifest
<1>2. CASE Off(i)
  BY <1>1, <1>2, OffKeeps
<1>3. CASE Goes(i, Ending(i, importers[i].status, runs[m], 1))
  <2>1. /\ importers[i].status \in {"succeeded", "failed"}
        /\ importers[i].status = "succeeded" => PostsOf[m] \subseteq Held /\ MediaOf[m] \subseteq Shown
    BY <1>1 DEF ImportIInv, Relies
  <2> HIDE DEF Known, Placed, Held, Shown
  <2>2. Relies(Ending(i, importers[i].status, runs[m], 1), Known, Placed, Held, Shown)
    BY <1>1, <2>1, EndingRelies
  <2> QED BY <1>1, <1>3, <2>2, PlanKeeps
<1>4. CASE Goes(i, Ending(i, "failed", importers[i].seen, 0))
  <2> HIDE DEF Known, Placed, Held, Shown
  <2>1. Relies(Ending(i, "failed", importers[i].seen, 0), Known, Placed, Held, Shown)
    BY <1>1, EndingRelies
  <2> QED BY <1>1, <1>4, <2>1, PlanKeeps
<1> QED BY <1>2, <1>3, <1>4 DEF EndFails

LEMMA LeaseKeeps ==
  ASSUME ImportIInv, NEW m \in Manifests, Lease(m) \/ \E status \in Settled : Settle(m, status)
  PROVE  ImportIInv'
<1>1. /\ UnchangedRows /\ DOMAIN importers' = Importers
      /\ \A j \in Importers : Relies(importers'[j], Known, Placed, Held, Shown)
  BY DEF Lease, Settle, ImportIInv
<1>2. runs[m] \in ImportRun(m)
  BY DEF Lease, Settle, ImportIInv, RunsSound, NoRun
<1>3. PICK row \in ImportRun(m) : /\ runs' = [runs EXCEPT ![m] = row] /\ row.result # "import"
                                  /\ row.status = "running" => row.revision <= MaxRunRevision[m]
  <2> DEFINE n == runs[m].revision
  <2>1. n \in Nat /\ n >= 1 /\ MaxRunRevision[m] \in Nat
    BY <1>2, SnapshotAssumption DEF ImportRun
  <2>2. CASE Lease(m)
    <3> DEFINE row == [status |-> "running", revision |-> n + 1, result |-> "none"]
    <3>1. n < MaxRunRevision[m] /\ runs' = [runs EXCEPT ![m] = row]
      BY <2>2 DEF Lease, ImportIInv, RunsSound
    <3>2. n + 1 \in 1 .. MaxRunRevision[m] + 1 /\ n + 1 <= MaxRunRevision[m]
      BY <2>1, <3>1
    <3> HIDE DEF n
    <3>3. row \in ImportRun(m)
      BY <3>2 DEF ImportRun
    <3> QED BY <3>1, <3>2, <3>3
  <2>3. ASSUME NEW status \in Settled, Settle(m, status)
        PROVE  \E row \in ImportRun(m) : /\ runs' = [runs EXCEPT ![m] = row] /\ row.result # "import"
                                         /\ row.status = "running" => row.revision <= MaxRunRevision[m]
    <3> DEFINE row == [status |-> status, revision |-> n + 1, result |-> IF status = "succeeded" THEN "worker" ELSE "none"]
    <3>1. runs[m].status = "running" /\ runs' = [runs EXCEPT ![m] = row]
      BY <2>3 DEF Settle, ImportIInv, RunsSound
    <3>2. n + 1 \in 1 .. MaxRunRevision[m] + 1
      BY <2>1, <3>1 DEF ImportIInv, RunsSound
    <3> HIDE DEF n
    <3>3. row \in ImportRun(m) /\ row.status # "running" /\ row.result # "import"
      BY <3>2 DEF ImportRun, Settled
    <3> QED BY <3>1, <3>3
  <2> QED BY <2>2, <2>3
<1> HIDE DEF Known, Placed, Held, Shown
<1> QED BY <1>1, <1>3, RunKeeps

LEMMA ImportSteps == ImportIInv /\ [ImportNext]_importVars => ImportIInv'
<1> SUFFICES ASSUME ImportIInv, [ImportNext]_importVars PROVE ImportIInv'
  OBVIOUS
<1>1. ASSUME NEW i \in Importers, NEW m \in Manifests, Begin(i, m) PROVE ImportIInv'
  BY <1>1, BeginKeeps
<1>2. ASSUME NEW i \in Importers, NEW p \in AllPosts, FindPost(i, p) PROVE ImportIInv'
  BY <1>2, FindPostKeeps
<1>3. ASSUME NEW i \in Importers, NEW d \in AllMedia, FindMedia(i, d) PROVE ImportIInv'
  BY <1>3, FindMediaKeeps
<1>4. ASSUME NEW i \in Importers, CreateRun(i) PROVE ImportIInv'
  BY <1>4, CreateRunKeeps
<1>5. ASSUME NEW i \in Importers, PutSource(i) PROVE ImportIInv'
  BY <1>5, PutSourceKeeps
<1>6. ASSUME NEW i \in Importers, PutObservation(i) PROVE ImportIInv'
  BY <1>6, PutObservationKeeps
<1>7. ASSUME NEW i \in Importers, FindPrompt(i) PROVE ImportIInv'
  BY <1>7, FindPromptKeeps
<1>8. ASSUME NEW i \in Importers, PutArtifact(i) PROVE ImportIInv'
  BY <1>8, PutArtifactKeeps
<1>9. ASSUME NEW i \in Importers, PutMedia(i) PROVE ImportIInv'
  BY <1>9, PutMediaKeeps
<1>10. ASSUME NEW i \in Importers, Complete(i) \/ ItemFails(i) PROVE ImportIInv'
  BY <1>10, CompleteKeeps
<1>11. ASSUME NEW i \in Importers, AlreadyThere(i) PROVE ImportIInv'
  BY <1>11, OffKeeps DEF AlreadyThere
<1>12. ASSUME NEW i \in Importers, DecideEnd(i) PROVE ImportIInv'
  BY <1>12, DecideEndKeeps
<1>13. ASSUME NEW i \in Importers, WriteEnd(i) PROVE ImportIInv'
  BY <1>13, WriteEndKeeps
<1>14. ASSUME NEW i \in Importers, EndFails(i) PROVE ImportIInv'
  BY <1>14, EndFailsKeeps
<1>15. ASSUME NEW i \in Importers, Die(i) PROVE ImportIInv'
  BY <1>15, OffKeeps DEF Die
<1>16. ASSUME NEW m \in Manifests, Lease(m) \/ \E status \in Settled : Settle(m, status) PROVE ImportIInv'
  BY <1>16, LeaseKeeps
<1>17. CASE UNCHANGED importVars
  <2>1. runs' = runs /\ importers' = importers /\ UnchangedRows
    BY <1>17 DEF importVars, UnchangedRows
  <2>2. RowsSound' /\ Known' = Known /\ Placed' = Placed /\ Held' = Held /\ Shown' = Shown
    BY <2>1 DEF ImportIInv, UnchangedRows, RowsSound, Known, Placed, Held, Shown, HasPost
  <2> HIDE DEF Known, Placed, Held, Shown
  <2> QED BY <2>1, <2>2 DEF ImportIInv, RunsSound
<1> QED BY <1>1, <1>2, <1>3, <1>4, <1>5, <1>6, <1>7, <1>8, <1>9, <1>10, <1>11, <1>12, <1>13, <1>14, <1>15, <1>16, <1>17
        DEF ImportNext

LEMMA ImportInvariant == ImportSpec => []ImportIInv
BY ImportBegins, ImportSteps, PTL DEF ImportSpec

\* The rows of an import keep their shapes, and the unique indexes hold
\* (importHiggsfieldSnapshot beside other imports and the lease worker).
THEOREM ImportTypeCorrect == ImportSpec => []ImportTypeOK
<1>1. ImportIInv => ImportTypeOK
  BY DEF ImportIInv, RunsSound, RowsSound, ImportTypeOK
<1> QED BY <1>1, ImportInvariant, PTL

\* A run that carries the result of an import has everything its snapshot lists,
\* from then on (importHiggsfieldSnapshot with importMedia and terminalImportRun).
THEOREM ImportedIsCompleteAlways == ImportSpec => []ImportedIsComplete
<1>1. ASSUME ImportIInv PROVE ImportedIsComplete
  <2>1. \A m \in Manifests : runs[m].result = "import" => PostsOf[m] \subseteq Held /\ MediaOf[m] \subseteq Shown
    BY <1>1 DEF ImportIInv, RunsSound
  <2> QED BY <2>1 DEF ImportedIsComplete, Held, Shown
<1> QED BY <1>1, ImportInvariant, PTL
\* No import, and no attempt of one, loses what another has put: the rows are
\* only added to, and an artifact keeps its prompt when another version stamps
\* it (importHiggsfieldSnapshot, with every write between two finds of another).
THEOREM ImportsOnlyAdd == ImportSpec => [][RowsKept]_importVars
<1>1. ASSUME NEW i \in Importers,
             PutSource(i) \/ PutObservation(i) \/ PutArtifact(i) \/ PutMedia(i)
      PROVE  RowsKept
  BY <1>1 DEF RowsKept, PutSource, PutObservation, PutArtifact, PutMedia
<1>2. ASSUME ImportIInv, NEW i \in Importers, FindPrompt(i)
      PROVE  RowsKept
  <2>1. UNCHANGED <<sources, observations, evidence>> /\ importers[i].manifest \in Manifests
    BY <1>2 DEF FindPrompt, On, ImportIInv, Relies
  <2>2. CASE UNCHANGED artifacts
    BY <2>1, <2>2, UnchangedIsKept DEF UnchangedRows
  <2>3. ASSUME NEW a \in artifacts,
               ~\E b \in artifacts \ {a} : b.tweet = a.tweet /\ b.version = importers[i].manifest,
               artifacts' = (artifacts \ {a}) \cup {[a EXCEPT !.version = importers[i].manifest]}
        PROVE  RowsKept
    BY <1>2, <2>1, <2>3, StampKeeps DEF ImportIInv
  <2> QED
    BY <1>2, <2>2, <2>3 DEF FindPrompt
<1>3. ASSUME NEW i \in Importers,
             \/ CreateRun(i) \/ Complete(i) \/ ItemFails(i) \/ AlreadyThere(i)
             \/ DecideEnd(i) \/ WriteEnd(i) \/ EndFails(i) \/ Die(i)
      PROVE  UnchangedRows
  BY <1>3 DEF CreateRun, Complete, ItemFails, AlreadyThere, DecideEnd, WriteEnd, EndFails, Die, UnchangedRows
<1>4. ASSUME NEW i \in Importers,
             \/ \E m \in Manifests : Begin(i, m)
             \/ \E p \in AllPosts : FindPost(i, p)
             \/ \E d \in AllMedia : FindMedia(i, d)
      PROVE  UnchangedRows
  BY <1>4 DEF Begin, FindPost, FindMedia, UnchangedRows
<1>5. ASSUME NEW m \in Manifests, Lease(m) \/ \E status \in Settled : Settle(m, status)
      PROVE  UnchangedRows
  BY <1>5 DEF Lease, Settle, UnchangedRows
<1>6. ImportIInv /\ ImportNext => RowsKept
  BY <1>1, <1>2, <1>3, <1>4, <1>5, UnchangedIsKept DEF ImportNext
<1>7. ImportIInv /\ [ImportNext]_importVars => [RowsKept]_importVars
  BY <1>6
<1> QED
  BY <1>7, ImportInvariant, PTL DEF ImportSpec

-----------------------------------------------------------------------------
(* The run of six components. *)

\* A step of the run is a step of one component, and no other notices.
LEMMA OneMoves ==
  MCNext => \/ OnlyLanes /\ LaneNext
            \/ OnlyLocale /\ LocaleNext
            \/ OnlyPointer /\ PointerNext
            \/ OnlyImport /\ ImportNext
            \/ OnlySlice /\ SliceNext
            \/ OnlyReview /\ ReviewNext
<1>1. LaneMoves => OnlyLanes /\ LaneNext
  <2>0. (\E j \in Jobs \ DOMAIN MCRequests : Enqueue(j)) => LaneNext
    BY DEF LaneNext
  <2>1. (\E j \in DOMAIN MCRequests \cap Jobs, e \in Entities :
          \E version \in {MCRequests[j]} \cap 1 .. MaxVersion : Revoke(j, e, version)) => LaneNext
    BY DEF LaneNext
  <2>2. (\E e \in Executors : Take(e) \/ Finish(e) \/ FailForGood(e)) => LaneNext
    BY DEF LaneNext
  <2>3. (\E e \in Executors, after \in 0 .. MaxDelay : FailForNow(e, after)) => LaneNext
    BY DEF LaneNext
  <2>4. (\E w \in waiting : Retry(w)) \/ (\E letter \in Letters : Forbid(letter)) \/ Tick => LaneNext
    BY DEF LaneNext
  <2>5. (\E k \in ReplayKeys, letter \in Letters, j \in Jobs : Replay(k, letter, j)) => LaneNext
    BY DEF LaneNext
  <2>6. (\E k \in ReplayKeys : AuditStored(k) \/ Push(k) \/ Forget(k)) => LaneNext
    BY DEF LaneNext
  <2>7. (\E k \in ReplayKeys, letter \in Letters : Leak(k, letter)) => LaneNext
    BY DEF LaneNext
  <2> QED
    BY <2>0, <2>1, <2>2, <2>3, <2>4, <2>5, <2>6, <2>7 DEF LaneMoves
<1>2. LocaleMoves => OnlyLocale /\ LocaleNext
  <2>1. (\E v \in Variants, a \in Actors \cup {NoOne}, text \in Texts, risks \in SUBSET RiskClasses, origin \in 0 .. source :
          Create(v, a, text, risks, origin)) => LocaleNext
    BY DEF LocaleNext
  <2>2. (\E c \in Calls, v \in Variants, a \in Actors, to \in States, content \in 1 .. MaxContent :
          Transition(c, v, a, to, content)) => LocaleNext
    BY DEF LocaleNext
  <2>3. (\E c \in Calls, v \in Variants, a \in Actors, text \in Texts, risks \in SUBSET RiskClasses :
          Revise(c, v, a, text, risks)) => LocaleNext
    BY DEF LocaleNext
  <2>4. (\E c \in Calls, v \in Variants, a \in Actors, revision \in 1 .. MaxRevision, content \in 1 .. MaxContent :
          Amend(c, v, a, revision, content)) => LocaleNext
    BY DEF LocaleNext
  <2>5. (\E c \in Calls : Write(c)) \/ (\E c \in Calls : Abandon(c)) => LocaleNext
    BY DEF LocaleNext
  <2>6. InsertSource \/ RefuseSource \/ CommitSource => LocaleNext
    BY DEF LocaleNext
  <2>7. (\E f \in Artifacts : Ask(f)) \/ (\E v \in Variants : Stale(v)) => LocaleNext
    BY DEF LocaleNext
  <2> QED
    BY <2>1, <2>2, <2>3, <2>4, <2>5, <2>6, <2>7 DEF LocaleMoves
<1>3. PointerMoves => OnlyPointer /\ PointerNext
  BY DEF PointerMoves, PointerNext
<1>4. ImportMoves => OnlyImport /\ ImportNext
  <2>1. (\E i \in Importers, m \in Manifests : Begin(i, m)) => ImportNext
    BY DEF ImportNext
  <2>2. (\E i \in Importers, p \in AllPosts : FindPost(i, p)) => ImportNext
    BY DEF ImportNext
  <2>3. (\E i \in Importers, d \in AllMedia : FindMedia(i, d)) => ImportNext
    BY DEF ImportNext
  <2>4. (\E i \in Importers : \/ CreateRun(i) \/ PutSource(i) \/ PutObservation(i) \/ FindPrompt(i) \/ PutArtifact(i)
                              \/ PutMedia(i) \/ Complete(i) \/ ItemFails(i) \/ AlreadyThere(i) \/ DecideEnd(i)
                              \/ WriteEnd(i) \/ EndFails(i) \/ Die(i)) => ImportNext
    BY DEF ImportNext
  <2>5. (\E m \in Manifests : Lease(m)) \/ (\E m \in Manifests, status \in Settled : Settle(m, status)) => ImportNext
    BY DEF ImportNext
  <2> QED
    BY <2>1, <2>2, <2>3, <2>4, <2>5 DEF ImportMoves
<1>5. SliceMoves => OnlySlice /\ SliceNext
  BY DEF SliceMoves, SliceNext
<1>6. ReviewMoves => OnlyReview /\ ReviewNext
  <2>1. (\E c \in Candidates, fit \in BOOLEAN, used \in SUBSET EvidenceSources : Elevate(c, fit, used)) => ReviewNext
    BY DEF ReviewNext
  <2>2. (\E c \in Candidates : AppendCandidate(c) \/ DropCandidate(c)) => ReviewNext
    BY DEF ReviewNext
  <2>3. (\E c \in Candidates, fit \in BOOLEAN : Translate(c, fit) \/ Reassess(c, fit)) => ReviewNext
    BY DEF ReviewNext
  <2>4. (\E c \in Candidates, a \in MCAuthors \cap Reviewers, fit \in BOOLEAN : Edit(c, a, fit)) => ReviewNext
    BY DEF ReviewNext
  <2>5. (\E c \in Candidates, kind \in {"edge", "node"}, fit \in BOOLEAN, own \in EvidenceRef :
          \E target \in EvidenceRef : Extract(c, kind, fit, own, target)) => ReviewNext
    BY DEF ReviewNext
  <2>6. (\E s \in EvidenceSources : ReviseMaterial(s) \/ TurnMaterial(s)) => ReviewNext
    BY DEF ReviewNext
  <2>7. (\E r \in Reviewers : CheckCandidate(r) \/ AppendReview(r) \/ Enact(r) \/ Leave(r)) => ReviewNext
    BY DEF ReviewNext
  <2>8. (\E r \in Reviewers : \E c \in Candidates, decision \in MCDecisions[r] \cap {"approved", "rejected"} :
          Read(r, c, decision)) => ReviewNext
    BY DEF ReviewNext
  <2> QED
    BY <2>1, <2>2, <2>3, <2>4, <2>5, <2>6, <2>7, <2>8 DEF ReviewMoves
<1> QED BY <1>1, <1>2, <1>3, <1>4, <1>5, <1>6 DEF MCNext

LEMMA EachSteps ==
  [MCNext]_allVars => /\ [LaneNext]_laneVars /\ [LocaleNext]_localeVars /\ [PointerNext]_pointerVars
                      /\ [ImportNext]_importVars /\ [SliceNext]_sliceVars /\ [ReviewNext]_reviewVars
<1>1. CASE MCNext
  BY <1>1, OneMoves DEF OnlyLanes, OnlyLocale, OnlyPointer, OnlyImport, OnlySlice, OnlyReview
<1>2. CASE UNCHANGED allVars
  BY <1>2 DEF allVars
<1> QED BY <1>1, <1>2

\* The run of six components checks each of them as it is: what a behaviour
\* does to the state of one component is a behaviour of its specification, so
\* whatever is proved of that specification holds of the run.
THEOREM RunsEachComponent ==
  MCSpec => LaneSpec /\ LocaleSpec /\ PointerSpec /\ ImportSpec /\ SliceSpec /\ ReviewSpec
<1>1. MCInit => LaneInit /\ LocaleInit /\ PointerInit /\ ImportInit /\ SliceInit /\ ReviewInit
  BY DEF MCInit
<1> QED
  BY <1>1, EachSteps, PTL DEF MCSpec, LaneSpec, LocaleSpec, PointerSpec, ImportSpec, SliceSpec, ReviewSpec

\* Every component's state keeps its shape, the due times of retries and the
\* unique indexes of the import included.
THEOREM ComponentsTypeCorrect == MCSpec => []TypeOK
<1>1. MCSpec => /\ []LaneTypeOK /\ []LocaleTypeOK /\ []PointerTypeOK
                /\ []ImportTypeOK /\ []SliceTypeOK /\ []ReviewTypeOK
  BY RunsEachComponent, LaneTypeCorrect, LocaleTypeCorrect, PointerTypeCorrect, ImportTypeCorrect,
     SliceTypeCorrect, ReviewTypeCorrect
<1>2. LaneTypeOK /\ LocaleTypeOK /\ PointerTypeOK /\ ImportTypeOK /\ SliceTypeOK /\ ReviewTypeOK => TypeOK
  BY DEF TypeOK
<1> QED BY <1>1, <1>2, PTL
=============================================================================
