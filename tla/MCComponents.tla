---------------------------- MODULE MCComponents ----------------------------
(***************************************************************************)
(* Six components that share no state, checked in one run: the first step *)
(* of a behaviour is taken by one of them, and all the others are too.     *)
(* part says which; the rest stay in their initial state.                  *)
(***************************************************************************)
EXTENDS LocalQueue, LocaleWorkflow, PublicationPointer, SnapshotImport, SliceRun, CandidateReview, TLC

CONSTANTS n1, w1, w2, w3, x, y, A, B, i1, i2, q1, q2

VARIABLE part

allVars == <<laneVars, localeVars, pointerVars, importVars, sliceVars, reviewVars, part>>

-----------------------------------------------------------------------------
(* The instances. *)

\* Local queue: one job of normal work, three withdrawals.
MCJobs == {n1, w1, w2, w3}
MCLaneOf == (n1 :> "normal") @@ (w1 :> "withdraw") @@ (w2 :> "withdraw") @@ (w3 :> "withdraw")
MCCapacity == [normal |-> 1, withdraw |-> 1]
MCConcurrency == [normal |-> 1, withdraw |-> 1]
MCExecutors == {x, y}
MCServes == (x :> "normal") @@ (y :> "withdraw")

\* Two of the withdrawals are asked for by revocations, which come in any order.
MCRequests == (w1 :> 2) @@ (w2 :> 1)

\* The ids a caller ever uses: three withdrawals, or normal work and two.
UsedJobs == {jobs \in SUBSET Jobs : {w1, w2} \subseteq jobs /\ Cardinality(jobs) = 3}

\* Locale workflow: one who may do everything, a second reviewer, a service.
MCRoles == [editor |-> {"editor", "reviewer", "publisher"}, reviewer |-> {"reviewer"}, service |-> {"translate"}]

\* One variant under two updates at once, the second of which revises or approves it
\* while the first is under way ("locale"); or two variants of two artifacts under one
\* update until the source is revised ("fanout"), where the first may be a money page
\* and the second only be drafted and reviewed.  A plain update changes content_revision
\* there, and puts revision back here.
MCArtifactOf == [v1 |-> "f1", v2 |-> "f2"]
MayCreate(v, a, text, risks) ==
  /\ text = "old"
  /\ a \in {NoOne, "editor"}
  /\ IF part = "locale" THEN v = "v1" ELSE source = 0 /\ (a = "editor" <=> v = "v1" /\ risks # {})
MayCall(c, v) ==
  /\ calls[c] = NoCall
  /\ IF part = "locale" THEN c = "c2" => calls["c1"] # NoCall
                        ELSE c = "c1" /\ source = 0 /\ (rows[v].revision < IF v = "v1" THEN 5 ELSE 3)
MayMove(c, v, to, content) ==
  /\ c = "c2" => to = "approved"
  /\ to # "withdrawn" /\ (part = "fanout" /\ v = "v2" => to \in {"machine_draft", "review"})
  /\ content # rows[v].content => part = "locale" /\ to = "approved"
MayAmend(c, v, revision, content) ==
  IF part = "locale"
  THEN c = "c1" /\ revision = rows[v].revision /\ content # rows[v].content /\ rows[v].state \in {"review", "approved"}
  ELSE fanout # NoCall /\ rows[v].state = "approved" /\ revision = rows[v].revision - 1 /\ content = rows[v].content

\* Snapshot import: two providers list a tweet with the same prompt and other
\* content, and media under one id with other facts.  The run of A is claimed
\* and ended, that of B is only begun.
MCPosts == (A :> {[tweet |-> "t1", content |-> "h1", prompt |-> "x"]}) @@
           (B :> {[tweet |-> "t1", content |-> "h2", prompt |-> "x"]})
MCMedia == (A :> {[tweet |-> "t1", id |-> "d", url |-> "u", seen |-> 1]}) @@
           (B :> {[tweet |-> "t1", id |-> "d", url |-> "v", seen |-> 1]})
MCGivenTo == (i1 :> {A}) @@ (i2 :> {A, B})
MCMaxRunRevision == (A :> 2) @@ (B :> 1)

\* Slice: two runs expect the first revision or the second and are given other records
\* of one fixture; one at a time fetches and stores, which the other does not see.
MCContents == <<{"old", "new"}, {"own"}>>
MayStore(r, content) == content = "own" \/ (content = "old") = (r = q1)
MayStart == \A q \in Requests : slices[q].pc \notin {"fetching", "storing"}

\* Review: of the two reviewers ann also edits variants, and she rejects none.
MCAuthors == {"ann"}
MCMaxCandidate == [edge |-> 2, node |-> 2, variant |-> 3]
MCDecisions == [ann |-> {"approved"}, bob |-> {"approved", "rejected"}]

\* Sources matter to graph candidates only, and stay as they are for a variant.
GraphOnly == \A c \in Candidates : candidates[c] # Unproposed => candidates[c].kind # "variant"
Untouched == \A s \in EvidenceSources : material[s] = [revision |-> 0, usable |-> TRUE]

-----------------------------------------------------------------------------
(* The run. *)

MCInit ==
  /\ part \in {"lanes", "locale", "fanout", "pointer", "import", "slice", "review"}
  /\ fresh \in IF part = "lanes" THEN UsedJobs ELSE {Jobs}
  /\ LaneInit /\ LocaleInit /\ PointerInit /\ ImportInit /\ SliceInit /\ ReviewInit

OnlyLanes == part = "lanes" /\ UNCHANGED <<localeVars, pointerVars, importVars, sliceVars, reviewVars, part>>
OnlyLocale == part \in {"locale", "fanout"} /\ UNCHANGED <<laneVars, pointerVars, importVars, sliceVars, reviewVars, part>>
OnlyPointer == part = "pointer" /\ UNCHANGED <<laneVars, localeVars, importVars, sliceVars, reviewVars, part>>
OnlyImport == part = "import" /\ UNCHANGED <<laneVars, localeVars, pointerVars, sliceVars, reviewVars, part>>
OnlySlice == part = "slice" /\ UNCHANGED <<laneVars, localeVars, pointerVars, importVars, reviewVars, part>>
OnlyReview == part = "review" /\ UNCHANGED <<laneVars, localeVars, pointerVars, importVars, sliceVars, part>>

\* The next-state relations, action by action.
LaneMoves ==
  \/ OnlyLanes /\ \E j \in Jobs \ DOMAIN MCRequests : Enqueue(j)
  \/ OnlyLanes /\ \E j \in DOMAIN MCRequests \cap Jobs, e \in Entities :
       \E version \in {MCRequests[j]} \cap 1 .. MaxVersion : Revoke(j, e, version)
  \/ OnlyLanes /\ \E e \in Executors : Take(e)
  \/ OnlyLanes /\ \E e \in Executors : Finish(e)
  \/ OnlyLanes /\ \E e \in Executors : FailForGood(e)
  \/ OnlyLanes /\ \E e \in Executors, after \in 0 .. MaxDelay : FailForNow(e, after)
  \/ OnlyLanes /\ \E w \in waiting : Retry(w)
  \/ OnlyLanes /\ \E letter \in Letters : Forbid(letter)
  \/ OnlyLanes /\ \E k \in ReplayKeys, letter \in Letters, j \in Jobs : Replay(k, letter, j)
  \/ OnlyLanes /\ \E k \in ReplayKeys, letter \in Letters : Leak(k, letter)
  \/ OnlyLanes /\ \E k \in ReplayKeys : AuditStored(k)
  \/ OnlyLanes /\ \E k \in ReplayKeys : Push(k)
  \/ OnlyLanes /\ \E k \in ReplayKeys : Forget(k)
  \/ OnlyLanes /\ Tick

LocaleMoves ==
  \/ OnlyLocale /\ \E v \in Variants, a \in Actors \cup {NoOne}, text \in Texts, risks \in SUBSET RiskClasses, origin \in 0 .. source :
       MayCreate(v, a, text, risks) /\ Create(v, a, text, risks, origin)
  \/ OnlyLocale /\ \E c \in Calls, v \in Variants : Exists(v) /\ MayCall(c, v) /\ \E a \in Actors, to \in States, content \in 1 .. MaxContent :
       MayMove(c, v, to, content) /\ Transition(c, v, a, to, content)
  \/ OnlyLocale /\ part = "locale" /\ \E c \in Calls, v \in Variants : Exists(v) /\ MayCall(c, v) /\ \E a \in Actors, text \in Texts :
       \E risks \in SUBSET RiskClasses : Revise(c, v, a, text, risks)
  \/ OnlyLocale /\ \E c \in Calls, v \in Variants : Exists(v) /\ MayCall(c, v) /\ \E revision \in 1 .. MaxRevision, content \in 1 .. MaxContent :
       MayAmend(c, v, revision, content) /\ \E a \in Actors : Amend(c, v, a, revision, content)
  \/ OnlyLocale /\ \E c \in Calls : Write(c)
  \/ OnlyLocale /\ \E c \in Calls : Abandon(c)
  \/ OnlyLocale /\ part = "fanout" /\ InsertSource
  \/ OnlyLocale /\ RefuseSource
  \/ OnlyLocale /\ CommitSource
  \/ OnlyLocale /\ \E f \in Artifacts : Ask(f)
  \/ OnlyLocale /\ \E v \in Variants : Stale(v)

PointerMoves ==
  \/ OnlyPointer /\ \E p \in Writers, desired \in Triple : Order(p, desired)
  \/ OnlyPointer /\ \E p \in Writers : Decide(p)
  \/ OnlyPointer /\ \E p \in Writers : Claim(p)
  \/ OnlyPointer /\ \E p \in Writers : Insert(p)
  \/ OnlyPointer /\ \E p \in Writers : Commit(p)
  \/ OnlyPointer /\ \E p \in Writers : Rollback(p)
  \/ OnlyPointer /\ ChangeRoles

ImportMoves ==
  \/ OnlyImport /\ \E i \in Importers, m \in Manifests : Begin(i, m)
  \/ OnlyImport /\ \E i \in Importers : CreateRun(i)
  \/ OnlyImport /\ \E i \in Importers, p \in AllPosts : FindPost(i, p)
  \/ OnlyImport /\ \E i \in Importers : PutSource(i)
  \/ OnlyImport /\ \E i \in Importers : PutObservation(i)
  \/ OnlyImport /\ \E i \in Importers : FindPrompt(i)
  \/ OnlyImport /\ \E i \in Importers : PutArtifact(i)
  \/ OnlyImport /\ \E i \in Importers, d \in AllMedia : FindMedia(i, d)
  \/ OnlyImport /\ \E i \in Importers : PutMedia(i)
  \/ OnlyImport /\ \E i \in Importers : Complete(i)
  \/ OnlyImport /\ \E i \in Importers : ItemFails(i)
  \/ OnlyImport /\ \E i \in Importers : AlreadyThere(i)
  \/ OnlyImport /\ \E i \in Importers : DecideEnd(i)
  \/ OnlyImport /\ \E i \in Importers : WriteEnd(i)
  \/ OnlyImport /\ \E i \in Importers : EndFails(i)
  \/ OnlyImport /\ \E i \in Importers : Die(i)
  \/ OnlyImport /\ \E m \in Manifests : Lease(m)
  \/ OnlyImport /\ \E m \in Manifests, status \in Settled : Settle(m, status)

SliceMoves ==
  \/ OnlySlice /\ MayStart /\ \E r \in Requests, expected \in 0 .. MaxCheckpoint - 1 : Start(r, expected)
  \/ OnlySlice /\ \E r \in Requests : Fetch(r)
  \/ OnlySlice /\ \E r \in Requests : RateLimited(r)
  \/ OnlySlice /\ \E r \in Requests, content \in AllContents : MayStore(r, content) /\ Store(r, content)
  \/ OnlySlice /\ \E r \in Requests, content \in AllContents : MayStore(r, content) /\ StorePartial(r, content)
  \/ OnlySlice /\ \E r \in Requests : WriteSource(r)
  \/ OnlySlice /\ \E r \in Requests : BuildArtifact(r)
  \/ OnlySlice /\ \E r \in Requests : Publish(r)
  \/ OnlySlice /\ \E r \in Requests : MoveHeads(r)
  \/ OnlySlice /\ \E r \in Requests : Announce(r)
  \/ OnlySlice /\ \E r \in Requests : Return(r)
  \/ OnlySlice /\ \E r \in Requests : Fails(r)
  \/ OnlySlice /\ Restart

ReviewMoves ==
  \/ OnlyReview /\ \E c \in Candidates, fit \in BOOLEAN, used \in SUBSET EvidenceSources : Elevate(c, fit, used)
  \/ OnlyReview /\ \E c \in Candidates : AppendCandidate(c)
  \/ OnlyReview /\ \E c \in Candidates : DropCandidate(c)
  \/ OnlyReview /\ \E c \in Candidates, kind \in {"edge", "node"}, fit \in BOOLEAN, own \in EvidenceRef :
       \E target \in EvidenceRef : Extract(c, kind, fit, own, target)
  \/ OnlyReview /\ Untouched /\ \E c \in Candidates, fit \in BOOLEAN : Translate(c, fit)
  \/ OnlyReview /\ \E c \in Candidates, fit \in BOOLEAN : Reassess(c, fit)
  \/ OnlyReview /\ \E c \in Candidates, a \in MCAuthors \cap Reviewers, fit \in BOOLEAN : Edit(c, a, fit)
  \/ OnlyReview /\ GraphOnly /\ \E s \in EvidenceSources : ReviseMaterial(s)
  \/ OnlyReview /\ GraphOnly /\ \E s \in EvidenceSources : TurnMaterial(s)
  \/ OnlyReview /\ \E r \in Reviewers : \E c \in Candidates, decision \in MCDecisions[r] \cap {"approved", "rejected"} : Read(r, c, decision)
  \/ OnlyReview /\ \E r \in Reviewers : CheckCandidate(r)
  \/ OnlyReview /\ \E r \in Reviewers : AppendReview(r)
  \/ OnlyReview /\ \E r \in Reviewers : Enact(r)
  \/ OnlyReview /\ \E r \in Reviewers : Leave(r)

MCNext == LaneMoves \/ LocaleMoves \/ PointerMoves \/ ImportMoves \/ SliceMoves \/ ReviewMoves

MCSpec == MCInit /\ [][MCNext]_allVars /\ LaneFairness

\* Every component's state keeps its shape: in the local queue that a retry is
\* due inside the window of its job, in the import that the unique indexes hold,
\* whatever the order of the steps.
TypeOK == LaneTypeOK /\ LocaleTypeOK /\ PointerTypeOK /\ ImportTypeOK /\ SliceTypeOK /\ ReviewTypeOK
=============================================================================
