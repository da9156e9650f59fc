--------------------------- MODULE SnapshotImport ---------------------------
(***************************************************************************)
(* The import of a verified snapshot (src/imports/higgsfield-snapshot.ts)  *)
(* into Payload: one workflow run per manifest, a source or an observation *)
(* per post, an artifact per prompt, an evidence row per media reference.  *)
(* Importers run side by side, fail, die and are started again, and a      *)
(* lease worker may claim a run that is queued.                            *)
(*                                                                         *)
(* A snapshot is an input that was hashed, parsed and cross-checked before *)
(* the first row (a bad one ends there, and is not modelled further).  Its *)
(* finds about one item are one step, each write is a step of its own: rows*)
(* are only added, under unique indexes.  The order of the items in a file *)
(* is arbitrary.  The evidence objects are those of ObjectStore.           *)
(***************************************************************************)
EXTENDS Integers, FiniteSets

CONSTANTS
  Manifests,       \* verified snapshots, by the hash of their manifest
  PostsOf,         \* what a snapshot holds: posts [tweet, content, prompt], one per tweet
  MediaOf,         \* and media references [tweet, id, url, seen]
  NoPrompt,        \* prompt_text null
  Importers,       \* running importers
  GivenTo,         \* the snapshots an importer may be started with
  MaxRunRevision   \* bound on the revision a run is claimed or ended at by an importer

AllPosts == UNION {PostsOf[m] : m \in Manifests}
AllMedia == UNION {MediaOf[m] : m \in Manifests}

ASSUME SnapshotAssumption ==
  /\ \A m \in Manifests : \A p, q \in PostsOf[m] : p.tweet = q.tweet => p = q
  /\ \A m \in Manifests : \A d \in MediaOf[m] : \E p \in PostsOf[m] : p.tweet = d.tweet
  /\ GivenTo \in [Importers -> SUBSET Manifests]
  /\ \A m \in Manifests : MaxRunRevision[m] \in Nat \ {0}

VARIABLES
  runs,           \* workflow-runs of job type ingest, by manifest
  sources,        \* sources: one per tweet (semantic_key)
  observations,   \* source-observations: the post of another provider for a known tweet
  artifacts,      \* prompt-artifacts, by source and prompt
  evidence,       \* media-evidence
  importers       \* what each importer is doing

importVars == <<runs, sources, observations, artifacts, evidence, importers>>
-----------------------------------------------------------------------------
NoRun == [status |-> "none", revision |-> 0, result |-> "none"]
Settled == {"succeeded", "failed", "stale_ignored"}
ImportRun(m) == [status: {"queued", "running"} \cup Settled, revision: 1 .. MaxRunRevision[m] + 1,
                 result: {"none", "import", "worker"}]

\* version is the source_version: the manifest that listed the prompt last.  That
\* of a source and of evidence is stamped too; nothing reads it, and it is left out.
SourceRow == [tweet: {p.tweet : p \in AllPosts}, content: {p.content : p \in AllPosts}]
ArtifactRow == [tweet: {p.tweet : p \in AllPosts}, prompt: {p.prompt : p \in AllPosts},
                content: {p.content : p \in AllPosts}, version: Manifests]

\* provider_media_id: the provider's own, or the one qualified by the tweet.
OwnID(d) == [id |-> d.id, of |-> "any"]
QualifiedID(d) == [id |-> d.id, of |-> d.tweet]

NotImporting == [pc |-> "off"]

ImportInit ==
  /\ runs = [m \in Manifests |-> NoRun]
  /\ sources = {} /\ observations = {} /\ artifacts = {} /\ evidence = {}
  /\ importers = [i \in Importers |-> NotImporting]

On(i, pc) == importers[i].pc = pc
Goes(i, state) == importers' = [importers EXCEPT ![i] = state]
Off(i) == Goes(i, NotImporting)
UnchangedRows == UNCHANGED <<sources, observations, artifacts, evidence>>

\* An importer at work: what it read of its run, and what it has still to do.
Work(pc, i) == [pc |-> pc, manifest |-> importers[i].manifest, seen |-> importers[i].seen,
                posts |-> importers[i].posts, media |-> importers[i].media]
With(pc, i, item) == [pc |-> pc, manifest |-> importers[i].manifest, seen |-> importers[i].seen,
                      posts |-> importers[i].posts, media |-> importers[i].media, item |-> item]
Done(i, posts, media) == [pc |-> "items", manifest |-> importers[i].manifest, seen |-> importers[i].seen,
                          posts |-> importers[i].posts \ posts, media |-> importers[i].media \ media]

-----------------------------------------------------------------------------
(* The run of the import. *)

\* The snapshot is verified and stored as evidence, and its run looked up.
Begin(i, m) ==
  /\ On(i, "off") /\ m \in GivenTo[i]
  /\ Goes(i, [pc |-> IF runs[m] = NoRun THEN "create" ELSE "items", manifest |-> m, seen |-> runs[m],
              posts |-> PostsOf[m], media |-> MediaOf[m]])
  /\ UNCHANGED runs /\ UnchangedRows

\* The unique index on job type and idempotency key refuses the second row,
\* outside the try: that importer just ends.
CreateRun(i) ==
  /\ On(i, "create")
  /\ LET m == importers[i].manifest
         row == [status |-> "queued", revision |-> 1, result |-> "none"]
     IN IF runs[m] = NoRun
        THEN /\ runs' = [runs EXCEPT ![m] = row]
             /\ Goes(i, [Work("items", i) EXCEPT !.seen = row])
        ELSE Off(i) /\ UNCHANGED runs
  /\ UnchangedRows

-----------------------------------------------------------------------------
(* The items. *)

\* The finds about a post: its own source; else the source of its tweet and its
\* observation; else nothing.
FindPost(i, p) ==
  /\ On(i, "items") /\ p \in importers[i].posts
  /\ LET own == [tweet |-> p.tweet, content |-> p.content] \in sources
         known == \E s \in sources : s.tweet = p.tweet
     IN Goes(i, With(CASE ~known -> "source"
                       [] known /\ ~own /\ p \notin observations -> "observe"
                       [] OTHER -> "prompt", i, [post |-> p, alias |-> known /\ ~own]))
  /\ UNCHANGED runs /\ UnchangedRows

\* Slip: a source that violates the unique index is taken for one's own.
SlipPutSource(i) ==
  /\ On(i, "source")
  /\ LET p == importers[i].item.post
     IN sources' = IF \E s \in sources : s.tweet = p.tweet THEN sources
                   ELSE sources \cup {[tweet |-> p.tweet, content |-> p.content]}
  /\ Goes(i, With("prompt", i, importers[i].item))
  /\ UNCHANGED <<runs, observations, artifacts, evidence>>

\* The source of a new tweet; the semantic key is unique.
PutSource(i) ==
  /\ On(i, "source")
  /\ LET p == importers[i].item.post
     IN /\ ~\E s \in sources : s.tweet = p.tweet
        /\ sources' = sources \cup {[tweet |-> p.tweet, content |-> p.content]}
  /\ Goes(i, With("prompt", i, importers[i].item))
  /\ UNCHANGED <<runs, observations, artifacts, evidence>>

\* The observation of a known tweet; provider, record and content are unique.
PutObservation(i) ==
  /\ On(i, "observe")
  /\ importers[i].item.post \notin observations
  /\ observations' = observations \cup {importers[i].item.post}
  /\ Goes(i, With("prompt", i, importers[i].item))
  /\ UNCHANGED <<runs, sources, artifacts, evidence>>

\* The artifact of the prompt is looked for among those of the source, of which
\* two imports side by side may have made two; the one found is stamped with the
\* manifest, unless another has that stamp: then the unique index refuses it.
FindPrompt(i) ==
  /\ On(i, "prompt")
  /\ LET m == importers[i].manifest
         p == importers[i].item.post
         found == {a \in artifacts : a.tweet = p.tweet /\ a.prompt = p.prompt}
     IN \/ /\ p.prompt = NoPrompt
           /\ Goes(i, Done(i, {p}, {})) /\ UNCHANGED artifacts
        \/ /\ p.prompt # NoPrompt /\ found = {}
           /\ Goes(i, With("artifact", i, importers[i].item)) /\ UNCHANGED artifacts
        \/ /\ p.prompt # NoPrompt
           /\ \E a \in found :
                IF importers[i].item.alias THEN UNCHANGED artifacts
                ELSE /\ ~\E b \in artifacts \ {a} : b.tweet = a.tweet /\ b.version = m
                     /\ artifacts' = (artifacts \ {a}) \cup {[a EXCEPT !.version = m]}
           /\ Goes(i, Done(i, {p}, {}))
  /\ UNCHANGED <<runs, sources, observations, evidence>>

\* Unique: source, kind and source_version; and the stable id of tweet and content.
PutArtifact(i) ==
  /\ On(i, "artifact")
  /\ LET m == importers[i].manifest
         p == importers[i].item.post
     IN /\ ~\E a \in artifacts : a.tweet = p.tweet /\ (a.version = m \/ a.content = p.content)
        /\ artifacts' = artifacts \cup {[tweet |-> p.tweet, prompt |-> p.prompt, content |-> p.content, version |-> m]}
        /\ Goes(i, Done(i, {p}, {}))
  /\ UNCHANGED <<runs, sources, observations, evidence>>

\* The finds about a media reference: by source and url, else by the provider's
\* id; a row with other facts leaves it an id qualified by the tweet.
FindMedia(i, d) ==
  /\ On(i, "items") /\ importers[i].posts = {} /\ d \in importers[i].media
  /\ LET byURL == {e \in evidence : e.fact.tweet = d.tweet /\ e.fact.url = d.url}
         byID == {e \in evidence : e.key = OwnID(d)}
         first == IF byURL # {} THEN byURL ELSE byID
         other == \E e \in first : e.fact # d
         second == {e \in evidence : e.key = QualifiedID(d)}
     IN \/ /\ \E e \in first \cup (IF other THEN second ELSE {}) : e.fact = d
           /\ Goes(i, Done(i, {}, {d}))
        \/ /\ first = {} \/ (other /\ second = {})
           /\ Goes(i, With("evidence", i, [media |-> d, key |-> IF first = {} THEN OwnID(d) ELSE QualifiedID(d)]))
  /\ UNCHANGED runs /\ UnchangedRows

PutMedia(i) ==
  /\ On(i, "evidence")
  /\ LET item == importers[i].item
     IN /\ ~\E e \in evidence : e.key = item.key
        /\ evidence' = evidence \cup {[key |-> item.key, fact |-> item.media]}
        /\ Goes(i, Done(i, {}, {item.media}))
  /\ UNCHANGED <<runs, sources, observations, artifacts>>

-----------------------------------------------------------------------------
(* terminalImportRun. *)

Ending(i, status, candidate, attempt) ==
  [pc |-> "ending", manifest |-> importers[i].manifest, seen |-> importers[i].seen,
   status |-> status, candidate |-> candidate, attempt |-> attempt]

Complete(i) ==
  /\ On(i, "items") /\ importers[i].posts = {} /\ importers[i].media = {}
  /\ Goes(i, Ending(i, "succeeded", importers[i].seen, 0))
  /\ UNCHANGED runs /\ UnchangedRows

\* A unique index, a media conflict, the evidence store or the database refuses.
ItemFails(i) ==
  /\ importers[i].pc \in {"items", "source", "observe", "prompt", "artifact", "evidence"}
  /\ Goes(i, Ending(i, "failed", importers[i].seen, 0))
  /\ UNCHANGED runs /\ UnchangedRows

\* The run was already seen in the wanted state: nothing is written.
AlreadyThere(i) ==
  /\ On(i, "ending") /\ importers[i].candidate.status = importers[i].status
  /\ Off(i)
  /\ UNCHANGED runs /\ UnchangedRows

\* Payload reads the run and the hooks check it: status and revision are the
\* candidate's, and a running row would have to give up its lease.
DecideEnd(i) ==
  /\ On(i, "ending") /\ importers[i].candidate.status # importers[i].status
  /\ LET row == runs[importers[i].manifest]
     IN /\ row.status = importers[i].candidate.status /\ row.revision = importers[i].candidate.revision
        /\ row.status # "running" /\ row.revision < MaxRunRevision[importers[i].manifest]
        /\ Goes(i, [pc |-> "writing", manifest |-> importers[i].manifest, seen |-> importers[i].seen,
                    status |-> importers[i].status, attempt |-> importers[i].attempt,
                    next |-> [status |-> importers[i].status, revision |-> row.revision + 1,
                              result |-> IF importers[i].status = "succeeded" THEN "import" ELSE "none"]])
  /\ UNCHANGED runs /\ UnchangedRows

\* The whole row, by primary key.
WriteEnd(i) ==
  /\ On(i, "writing")
  /\ runs' = [runs EXCEPT ![importers[i].manifest] = importers[i].next]
  /\ Off(i)
  /\ UnchangedRows

\* The update fails, for a reason of its own or a conflict: the run is read
\* again, and tried once more while it is queued.  A success that cannot be
\* recorded becomes a failure to record.
EndFails(i) ==
  /\ importers[i].pc \in {"ending", "writing"}
  /\ On(i, "ending") => importers[i].candidate.status # importers[i].status
  /\ LET row == runs[importers[i].manifest]
     IN IF row.status = importers[i].status THEN Off(i)
        ELSE IF row.status = "queued" /\ importers[i].attempt = 0
        THEN Goes(i, Ending(i, importers[i].status, row, 1))
        ELSE IF importers[i].status = "succeeded"
        THEN Goes(i, Ending(i, "failed", importers[i].seen, 0))
        ELSE Off(i)
  /\ UNCHANGED runs /\ UnchangedRows

\* The process of an importer dies; it may be started again.
Die(i) ==
  /\ ~On(i, "off")
  /\ Off(i)
  /\ UNCHANGED runs /\ UnchangedRows

-----------------------------------------------------------------------------
(* The lease worker (module WorkflowLease), which may run the same job. *)

Lease(m) ==
  /\ runs[m].status = "queued" /\ runs[m].revision < MaxRunRevision[m]
  /\ runs' = [runs EXCEPT ![m] = [status |-> "running", revision |-> @.revision + 1, result |-> "none"]]
  /\ UNCHANGED importers /\ UnchangedRows

Settle(m, status) ==
  /\ runs[m].status = "running"
  /\ runs' = [runs EXCEPT ![m] = [status |-> status, revision |-> @.revision + 1,
                                  result |-> IF status = "succeeded" THEN "worker" ELSE "none"]]
  /\ UNCHANGED importers /\ UnchangedRows

ImportNext ==
  \/ \E i \in Importers, m \in Manifests : Begin(i, m)
  \/ \E i \in Importers, p \in AllPosts : FindPost(i, p)
  \/ \E i \in Importers, d \in AllMedia : FindMedia(i, d)
  \/ \E i \in Importers :
       \/ CreateRun(i) \/ PutSource(i) \/ PutObservation(i) \/ FindPrompt(i) \/ PutArtifact(i) \/ PutMedia(i)
       \/ Complete(i) \/ ItemFails(i) \/ AlreadyThere(i) \/ DecideEnd(i) \/ WriteEnd(i) \/ EndFails(i) \/ Die(i)
  \/ \E m \in Manifests : Lease(m)
  \/ \E m \in Manifests, status \in Settled : Settle(m, status)

ImportSpec == ImportInit /\ [][ImportNext]_importVars

-----------------------------------------------------------------------------
(* Properties. *)

\* The rows have their shapes, and the unique indexes hold.
ImportTypeOK ==
  /\ \A m \in Manifests : runs[m] \in ImportRun(m) \cup {NoRun}
  /\ sources \subseteq SourceRow /\ artifacts \subseteq ArtifactRow /\ observations \subseteq AllPosts
  /\ \A r, s \in sources : r.tweet = s.tweet => r = s
  /\ \A a, b \in artifacts : a.tweet = b.tweet /\ (a.version = b.version \/ a.content = b.content) => a = b
  /\ \A e, f \in evidence : e.key = f.key => e = f
  /\ \A e \in evidence : e.fact \in AllMedia

\* A run that succeeded with the result of an import (output_ref
\* private/import-results/...) has everything its snapshot lists: each post as
\* the source of its tweet or as an observation of it, each prompt as an
\* artifact of that source, each media reference as evidence, whatever other
\* importers, failures and repetitions came in between, and it stays so.
HasPost(p) ==
  /\ \E s \in sources : s.tweet = p.tweet /\ (s.content = p.content \/ p \in observations)
  /\ p.prompt # NoPrompt => \E a \in artifacts : a.tweet = p.tweet /\ a.prompt = p.prompt
ImportedIsComplete ==
  \A m \in Manifests : runs[m].result = "import" =>
    /\ \A p \in PostsOf[m] : HasPost(p)
    /\ \A d \in MediaOf[m] : \E e \in evidence : e.fact = d
=============================================================================
