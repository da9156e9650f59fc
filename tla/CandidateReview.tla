--------------------------- MODULE CandidateReview ---------------------------
(***************************************************************************)
(* Review by people of what machines propose: graph edges and nodes        *)
(* (src/graph/elevation.ts, provenance.ts, review.ts) and translated       *)
(* locale variants (src/review/locale-review.ts).  The three services work *)
(* alike: read the candidate, check it and its evidence, and then, in a    *)
(* transaction that expects the revision read, append the audit event and  *)
(* write the decision.                                                     *)
(*                                                                         *)
(* The store and the audit sink are interfaces.  The store is assumed to   *)
(* commit a transaction only at the revision it expects, and its other     *)
(* writers to move the revision; the sink keeps what it was given even     *)
(* when the decision is not written after all.                             *)
(***************************************************************************)
EXTENDS Integers

CONSTANTS
  Candidates,        \* ids of candidates
  Reviewers,         \* people the resolver knows as reviewers; they may edit variants too
  Machine,           \* the elevation, extraction or translation service, as an author
  NoReviewer,        \* reviewedBy null
  EvidenceSources,   \* the sources evidence refers to
  MaxCandidate,      \* bound on the revisions of a candidate, by its kind
  MaxMaterial        \* bound on the revisions of a source

Kinds == {"edge", "node", "variant"}

ASSUME ReviewAssumption ==
  /\ Machine \notin Reviewers /\ NoReviewer \notin Reviewers \cup {Machine}
  /\ MaxCandidate \in [Kinds -> Nat \ {0}] /\ MaxMaterial \in Nat

VARIABLES
  candidates,   \* the candidates the store holds
  proposals,    \* elevated edges on their way to the candidate sink
  material,     \* what the sources are at this moment
  desk,         \* the review each reviewer has under way
  reviewed      \* the audit events

reviewVars == <<candidates, proposals, material, desk, reviewed>>
-----------------------------------------------------------------------------
\* A version of a source a candidate rests on.
EvidenceRef == [source: EvidenceSources, revision: 0 .. MaxMaterial]

\* open: candidate, or in review; rejected: rejected, or blocked.  A node's
\* promotion state moves with it.  fit: the safety state is approved, or the QA
\* of the variant allows it and its protected spans passed.  The rights of a
\* candidate never change: one with blocked rights is refused for ever, and left out.
CandidateRow ==
  [kind: Kinds, state: {"open", "approved", "rejected"}, revision: Nat \ {0},
   author: Reviewers \cup {Machine}, reviewer: Reviewers \cup {NoReviewer}, fit: BOOLEAN,
   evidence: SUBSET EvidenceRef]
Unproposed == [state |-> "none"]

Bounded(row) == row.revision < MaxCandidate[row.kind]

FreeDesk == [pc |-> "free"]

\* sound is history: the evidence of the row was whole at some moment of this
\* review.  No step looks at it.
ReviewCall == [pc: {"read", "checked", "audited"}, candidate: Candidates, row: CandidateRow,
               decision: {"approved", "rejected"}, sound: BOOLEAN]

ReviewEvent == [candidate: Candidates, revision: Nat, by: Reviewers, decision: {"approved", "rejected"}]

ReviewInit ==
  /\ candidates = [c \in Candidates |-> Unproposed]
  /\ proposals = [c \in Candidates |-> Unproposed]
  /\ material = [s \in EvidenceSources |-> [revision |-> 0, usable |-> TRUE]]
  /\ desk = [r \in Reviewers |-> FreeDesk]
  /\ reviewed = {}

\* Every source is available, with rights, at the revision the evidence names
\* (validateCandidateProvenance); a variant has no evidence of this kind.
Whole(row, sources) ==
  row.kind # "variant" =>
    /\ row.evidence # {}
    /\ \A e \in row.evidence : sources[e.source].usable /\ sources[e.source].revision = e.revision

-----------------------------------------------------------------------------
(* How candidates come about. *)

\* What a service proposes; a variant its QA does not allow is blocked at once.
Proposed(kind, fit, evidence) ==
  [kind |-> kind, state |-> IF kind = "variant" /\ ~fit THEN "rejected" ELSE "open", revision |-> 1,
   author |-> Machine, reviewer |-> NoReviewer, fit |-> fit, evidence |-> evidence]

\* elevate builds an edge between two artifacts on the sources as they are, and
\* awaits the candidate sink.
Elevate(c, fit, used) ==
  /\ candidates[c] = Unproposed /\ proposals[c] = Unproposed
  /\ used # {} /\ \A s \in used : material[s].usable
  /\ proposals' = [proposals EXCEPT ![c] =
       Proposed("edge", fit, {[source |-> s, revision |-> material[s].revision] : s \in used})]
  /\ UNCHANGED <<candidates, material, desk, reviewed>>

\* The sink takes the edge; one whose id it has, it does not take again.
AppendCandidate(c) ==
  /\ proposals[c] # Unproposed
  /\ candidates' = [candidates EXCEPT ![c] = proposals[c]]
  /\ proposals' = [proposals EXCEPT ![c] = Unproposed]
  /\ UNCHANGED <<material, desk, reviewed>>

\* The sink fails, and the caller of elevate with it.
DropCandidate(c) ==
  /\ proposals[c] # Unproposed
  /\ proposals' = [proposals EXCEPT ![c] = Unproposed]
  /\ UNCHANGED <<candidates, material, desk, reviewed>>

\* Nodes and edges extracted from an artifact name the source version it was built
\* from, an edge to a variation that of its target too; both may have been revised since.
Extract(c, kind, fit, own, target) ==
  /\ candidates[c] = Unproposed /\ proposals[c] = Unproposed
  /\ kind = "node" => target = own
  /\ \A e \in {own, target} : e.revision <= material[e.source].revision
  /\ candidates' = [candidates EXCEPT ![c] = Proposed(kind, fit, {own, target})]
  /\ UNCHANGED <<proposals, material, desk, reviewed>>

\* A variant is translated, and blocked where its QA does not allow it.
Translate(c, fit) ==
  /\ candidates[c] = Unproposed /\ proposals[c] = Unproposed
  /\ candidates' = [candidates EXCEPT ![c] = Proposed("variant", fit, {})]
  /\ UNCHANGED <<proposals, material, desk, reviewed>>

-----------------------------------------------------------------------------
(* What else may happen to a candidate and to its evidence. *)

\* The next revision of a candidate.
NextRow(row, state, author, reviewer, fit) ==
  [kind |-> row.kind, state |-> state, revision |-> row.revision + 1,
   author |-> author, reviewer |-> reviewer, fit |-> fit, evidence |-> row.evidence]

\* The safety of a graph candidate is decided anew.
Reassess(c, fit) ==
  LET row == candidates[c] IN
  /\ row # Unproposed /\ row.kind # "variant" /\ Bounded(row)
  /\ candidates' = [candidates EXCEPT ![c] = NextRow(row, row.state, row.author, row.reviewer, fit)]
  /\ UNCHANGED <<proposals, material, desk, reviewed>>

\* A variant is edited, perhaps by a reviewer, and goes into review again.
Edit(c, a, fit) ==
  LET row == candidates[c] IN
  /\ row # Unproposed /\ row.kind = "variant" /\ Bounded(row)
  /\ candidates' = [candidates EXCEPT ![c] = NextRow(row, "open", a, NoReviewer, fit)]
  /\ UNCHANGED <<proposals, material, desk, reviewed>>

Changed(sources) ==
  /\ material' = sources
  /\ desk' = [r \in Reviewers |->
       IF desk[r] = FreeDesk THEN desk[r] ELSE [desk[r] EXCEPT !.sound = @ \/ Whole(desk[r].row, sources)]]
  /\ UNCHANGED <<candidates, proposals, reviewed>>

ReviseMaterial(s) == material[s].revision < MaxMaterial /\ Changed([material EXCEPT ![s].revision = @ + 1])

\* Rights or availability are taken away, or given back.
TurnMaterial(s) == Changed([material EXCEPT ![s].usable = ~@])

-----------------------------------------------------------------------------
(* A review. *)

\* The candidate is read at the revision the command expects.
Read(r, c, decision) ==
  /\ desk[r] = FreeDesk
  /\ candidates[c] # Unproposed
  /\ desk' = [desk EXCEPT ![r] = [pc |-> "read", candidate |-> c, row |-> candidates[c], decision |-> decision,
                                  sound |-> Whole(candidates[c], material)]]
  /\ UNCHANGED <<candidates, proposals, material, reviewed>>

\* An edge or a node: still a candidate, safe enough for the decision.
GraphReviewable(row, decision) ==
  row.kind # "variant" => row.state = "open" /\ (row.fit \/ decision = "rejected")

\* A variant in review, with its QA and its protected spans in order.
StillReviewable(row) == row.kind = "variant" => row.state = "open" /\ row.fit

\* What is checked before the transaction; the sources are looked up now.
CheckCandidate(r) ==
  LET row == desk[r].row IN
  /\ desk[r].pc = "read"
  /\ row.author # r
  /\ GraphReviewable(row, desk[r].decision) /\ StillReviewable(row)
  /\ Whole(row, material)
  /\ desk' = [desk EXCEPT ![r].pc = "checked"]
  /\ UNCHANGED <<candidates, proposals, material, reviewed>>

\* The transaction finds the revision it expects (and a variant still
\* reviewable) and appends the audit event.
AppendReview(r) ==
  LET c == desk[r].candidate
      row == candidates[c] IN
  /\ desk[r].pc = "checked"
  /\ row.revision = desk[r].row.revision /\ Bounded(row)
  /\ StillReviewable(row)
  /\ reviewed' = reviewed \cup
       {[candidate |-> c, revision |-> row.revision + 1, by |-> r, decision |-> desk[r].decision]}
  /\ desk' = [desk EXCEPT ![r].pc = "audited", ![r].row = row]
  /\ UNCHANGED <<candidates, proposals, material>>

\* A variant keeps who reviewed it; a graph candidate has it in its audit event.
DecidedRow(r) == NextRow(desk[r].row, desk[r].decision, desk[r].row.author, r, desk[r].row.fit)

\* Slip: the store writes what the operation returns, whatever came in between.
SlipEnact(r) ==
  /\ desk[r].pc = "audited"
  /\ candidates' = [candidates EXCEPT ![desk[r].candidate] = DecidedRow(r)]
  /\ desk' = [desk EXCEPT ![r] = FreeDesk]
  /\ UNCHANGED <<proposals, material, reviewed>>

\* The transaction commits, at the revision it expected.
Enact(r) ==
  /\ desk[r].pc = "audited"
  /\ candidates[desk[r].candidate].revision = desk[r].row.revision
  /\ candidates' = [candidates EXCEPT ![desk[r].candidate] = DecidedRow(r)]
  /\ desk' = [desk EXCEPT ![r] = FreeDesk]
  /\ UNCHANGED <<proposals, material, reviewed>>

\* A check refuses, the audit sink or the store fails, or the reviewer is gone.
Leave(r) ==
  /\ desk[r] # FreeDesk
  /\ desk' = [desk EXCEPT ![r] = FreeDesk]
  /\ UNCHANGED <<candidates, proposals, material, reviewed>>

ReviewNext ==
  \/ \E c \in Candidates, fit \in BOOLEAN, used \in SUBSET EvidenceSources : Elevate(c, fit, used)
  \/ \E c \in Candidates : AppendCandidate(c) \/ DropCandidate(c)
  \/ \E c \in Candidates, fit \in BOOLEAN :
       Translate(c, fit) \/ Reassess(c, fit) \/ \E a \in Reviewers \cup {Machine} : Edit(c, a, fit)
  \/ \E c \in Candidates, kind \in {"edge", "node"}, fit \in BOOLEAN, own \in EvidenceRef, target \in EvidenceRef :
       Extract(c, kind, fit, own, target)
  \/ \E s \in EvidenceSources : ReviseMaterial(s) \/ TurnMaterial(s)
  \/ \E r \in Reviewers :
       \/ CheckCandidate(r) \/ AppendReview(r) \/ Enact(r) \/ Leave(r)
       \/ \E c \in Candidates, decision \in {"approved", "rejected"} : Read(r, c, decision)

ReviewSpec == ReviewInit /\ [][ReviewNext]_reviewVars
-----------------------------------------------------------------------------
(* Properties. *)

ReviewTypeOK ==
  /\ candidates \in [Candidates -> CandidateRow \cup {Unproposed}]
  /\ \A c \in Candidates : candidates[c] # Unproposed => candidates[c].revision <= MaxCandidate[candidates[c].kind]
  /\ proposals \in [Candidates -> CandidateRow \cup {Unproposed}]
  /\ material \in [EvidenceSources -> [revision: 0 .. MaxMaterial, usable: BOOLEAN]]
  /\ desk \in [Reviewers -> ReviewCall \cup {FreeDesk}]
  /\ reviewed \subseteq ReviewEvent

\* Reviewers decide side by side while candidates are edited and their evidence
\* is revised, revoked and given back: a decision is taken on a candidate that
\* is still open, and overturns nobody's; by somebody who did not write what is
\* decided; on evidence that was whole at some moment of the review; and the
\* audit sink has it.  (That the evidence is still whole when the decision is
\* written, the code does not see to.)
ReviewsStand ==
  [][\A c \in Candidates :
       LET row == candidates'[c] IN
       candidates[c] # Unproposed /\ row.state # "open" /\ row.state # candidates[c].state =>
         /\ candidates[c].state = "open"
         /\ row.reviewer # candidates[c].author
         /\ [candidate |-> c, revision |-> row.revision, by |-> row.reviewer, decision |-> row.state] \in reviewed
         /\ \E r \in Reviewers :
              desk[r] # FreeDesk /\ desk[r].candidate = c /\ r = row.reviewer /\ desk[r].sound]_reviewVars
=============================================================================
