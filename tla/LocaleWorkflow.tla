--------------------------- MODULE LocaleWorkflow ---------------------------
(***************************************************************************)
(* The locale variants of one source lineage (src/collections/shared.ts,   *)
(* src/localization, src/contracts/locale.ts): canonical commands move a   *)
(* variant through its workflow, content commands revise it, plain updates *)
(* change what no hook protects, and a new revision of the source makes    *)
(* the variants of the last one stale.                                     *)
(*                                                                         *)
(* Payload updates by id: it reads the row, runs the hooks over it and     *)
(* writes the whole row back by primary key.  So a command here is a       *)
(* decision on a snapshot and a later write, and two commands that name    *)
(* the same expected revision may both be written.  The guards that a      *)
(* command merely claims (protected_spans_valid, new_content_revision ...) *)
(* are not verified by the code and are not modelled.                      *)
(***************************************************************************)
EXTENDS Integers, FiniteSets

CONSTANTS
  Variants,     \* locale variants, bound to the source revision they derive from
  Artifacts,    \* the prompt artifacts of the source
  ArtifactOf,   \* the one a variant is of
  Texts,        \* localized_fields
  NoText,
  Actors,       \* users and services
  RolesOf,      \* the roles and service scopes of an actor
  RiskClasses,  \* money, comparison, price, legal_rights
  Calls,        \* updates in flight
  NoOne,        \* no editor, no reviewer
  MaxRevision,  \* bound on the revisions of a variant
  MaxContent,   \* bound on content_revision
  MaxSource     \* bound on the revisions of the source

ASSUME LocaleAssumption ==
  /\ RolesOf \in [Actors -> SUBSET {"editor", "translator", "reviewer", "legal", "publisher", "admin",
                                   "translate", "withdraw"}]
  /\ ArtifactOf \in [Variants -> Artifacts] /\ NoText \notin Texts
  /\ "money" \in RiskClasses
  /\ NoOne \notin Actors
  /\ MaxRevision \in Nat \ {0} /\ MaxContent \in Nat \ {0} /\ MaxSource \in Nat

VARIABLES
  rows,     \* the table locale-variants
  calls,    \* what each update in flight has read and is about to write
  source,   \* the newest revision of the source
  fanout,   \* the transaction that inserts the next one
  due       \* history: the variants that were open when their artifact was asked for

localeVars == <<rows, calls, source, fanout, due>>
-----------------------------------------------------------------------------
States == {"missing", "machine_draft", "review", "approved", "published", "blocked", "stale", "withdrawn"}

\* reviewed is reviewed_revision, 0 for null; editor and reviewer are the
\* stable ids of last_content_editor and reviewed_by; seen is history, the text
\* the reviewer's command read.
Row == [state: States, revision: 1 .. MaxRevision, content: 1 .. MaxContent, text: Texts,
        risks: SUBSET RiskClasses, editor: Actors \cup {NoOne}, reviewer: Actors \cup {NoOne},
        reviewed: 0 .. MaxContent, seen: Texts \cup {NoText}, source: 0 .. MaxSource]
Absent == [state |-> "absent"]

NoCall == [pc |-> "idle"]
Update == [pc: {"decided"}, variant: Variants, next: Row]

\* asked: the artifacts whose variants were queried; found: the rows these queries
\* returned; made: the rows written so far, seen by nobody else.
FanOut == [pc: {"staling"}, asked: SUBSET Artifacts,
           found: [Variants -> Row \cup {Absent}], made: [Variants -> Row \cup {Absent}]]

LocaleInit ==
  /\ rows = [v \in Variants |-> Absent]
  /\ calls = [c \in Calls |-> NoCall]
  /\ source = 0
  /\ fanout = NoCall
  /\ due = {}

Money(row) == "money" \in row.risks
Exists(v) == rows[v] # Absent

-----------------------------------------------------------------------------
(* The decisions. *)

\* decideLocaleTransition: who may move a variant from where to where.
Movers(from, to) ==
  CASE from = "missing" /\ to = "machine_draft" -> {"translate"}
    [] from \in {"machine_draft", "blocked", "stale"} /\ to = "review" -> {"translator", "editor"}
    [] from \in {"machine_draft", "review"} /\ to = "blocked" -> {"reviewer", "legal"}
    [] from = "review" /\ to = "approved" -> {"reviewer"}
    [] from = "approved" /\ to = "published" -> {"publisher"}
    [] from \in {"machine_draft", "review", "approved", "published"} /\ to = "stale" ->
         {"translate", "translator", "editor"}
    [] from \in {"published", "stale", "blocked"} /\ to = "withdrawn" -> {"publisher", "legal", "withdraw"}
    [] OTHER -> {}

\* Slip: the reviewer of a money page is not compared with its editor.
SlipMoneyFacts(row, a, to) ==
  Money(row) /\ to = "published" => row.reviewer \notin {NoOne, a} /\ row.reviewed = row.content

\* requireCanonicalCommandFor: for a money page the persisted editor must not
\* be the reviewer, nor the persisted reviewer the publisher.
MoneyFacts(row, a, to) ==
  Money(row) =>
    /\ to = "approved" => row.editor \notin {NoOne, a}
    /\ to = "published" => row.reviewer \notin {NoOne, a} /\ row.reviewed = row.content

\* The row after the transition; approval stamps who reviewed which content.
\* content_revision is whatever the update says.
Moved(row, a, to, content) ==
  IF to = "approved"
  THEN [row EXCEPT !.state = to, !.revision = @ + 1, !.content = content,
                   !.reviewer = a, !.reviewed = row.content, !.seen = row.text]
  ELSE [row EXCEPT !.state = to, !.revision = @ + 1, !.content = content]

RevisedState(row) == IF row.state \in {"approved", "published"} THEN "stale" ELSE row.state

\* enforceLocaleServerMetadata writes, and records the editor, only where
\* the risks or the review facts of the row change.
MetadataChanges(row, risks) == risks # row.risks \/ row.reviewer # NoOne \/ row.reviewed # 0

\* decideLocaleContentRevision: risks are only added, the review is undone.
Revised(row, a, text, risks) ==
  [row EXCEPT !.state = RevisedState(row), !.revision = @ + 1, !.content = @ + 1, !.text = text,
              !.risks = risks, !.editor = IF MetadataChanges(row, risks) THEN a ELSE @,
              !.reviewer = NoOne, !.reviewed = 0, !.seen = NoText]

\* What the hooks require of a content command: an editor or a translator,
\* but an editor where the metadata changes; and where the state changes, the
\* command of the transition never claims a money page and may not make one.
MayRevise(row, a, risks) ==
  /\ RolesOf[a] \cap {"editor", "translator"} # {}
  /\ MetadataChanges(row, risks) => "editor" \in RolesOf[a]
  /\ RevisedState(row) # row.state => "money" \notin risks

-----------------------------------------------------------------------------
(* Updates. *)

\* A variant starts missing, bound to the source revision of its artifact, the
\* newest or an older one; only an editor's server command gives it risks and
\* an editor.
Create(v, a, text, risks, origin) ==
  /\ ~Exists(v)
  /\ a # NoOne => "editor" \in RolesOf[a]
  /\ a = NoOne => risks = {}
  /\ rows' = [rows EXCEPT ![v] =
       [state |-> "missing", revision |-> 1, content |-> 1, text |-> text, risks |-> risks,
        editor |-> a, reviewer |-> NoOne, reviewed |-> 0, seen |-> NoText, source |-> origin]]
  /\ UNCHANGED <<calls, source, fanout, due>>

Decided(c, v, next) ==
  /\ calls' = [calls EXCEPT ![c] = [pc |-> "decided", variant |-> v, next |-> next]]
  /\ UNCHANGED <<rows, source, fanout, due>>

\* The hooks accept a canonical command that names the revision they read.
Transition(c, v, a, to, content) ==
  /\ calls[c] = NoCall /\ Exists(v) /\ rows[v].revision < MaxRevision
  /\ RolesOf[a] \cap Movers(rows[v].state, to) # {}
  /\ MoneyFacts(rows[v], a, to)
  /\ Decided(c, v, Moved(rows[v], a, to, content))

\* The hooks accept a content command with another text, whose fields are classified for risk.
Revise(c, v, a, text, risks) ==
  /\ calls[c] = NoCall /\ Exists(v) /\ rows[v].revision < MaxRevision /\ rows[v].content < MaxContent
  /\ text # rows[v].text
  /\ MayRevise(rows[v], a, rows[v].risks \cup risks)
  /\ Decided(c, v, Revised(rows[v], a, text, rows[v].risks \cup risks))

\* An update without a command: no hook looks at revision or content_revision.
Amend(c, v, a, revision, content) ==
  /\ calls[c] = NoCall /\ Exists(v)
  /\ RolesOf[a] \cap {"translate", "translator", "admin"} # {}
  /\ Decided(c, v, [rows[v] EXCEPT !.revision = revision, !.content = content])

\* The write by primary key.
Write(c) ==
  /\ calls[c] # NoCall
  /\ rows' = [rows EXCEPT ![calls[c].variant] = calls[c].next]
  /\ calls' = [calls EXCEPT ![c] = NoCall]
  /\ UNCHANGED <<source, fanout, due>>

\* The write or the audit event of the update fails, and its transaction with it.
Abandon(c) ==
  /\ calls[c] # NoCall
  /\ calls' = [calls EXCEPT ![c] = NoCall]
  /\ UNCHANGED <<rows, source, fanout, due>>

-----------------------------------------------------------------------------
(* A new revision of the source. *)

Affected(row) ==
  row # Absent /\ row.source = source /\ row.state \in {"machine_draft", "review", "approved", "published"}

\* What anybody could read or review.
Open(row) == row # Absent /\ row.state \notin {"missing", "blocked", "stale", "withdrawn"}

\* The revision is inserted, in a transaction nobody else sees, and its
\* afterChange lists the artifacts of the last one.
InsertSource ==
  /\ fanout = NoCall /\ source < MaxSource
  /\ fanout' = [pc |-> "staling", asked |-> {},
                found |-> [v \in Variants |-> Absent], made |-> [v \in Variants |-> Absent]]
  /\ due' = {}
  /\ UNCHANGED <<rows, calls, source>>

\* What is left to make stale.
Left(v) == fanout # NoCall /\ fanout.found[v] # Absent /\ fanout.made[v] = Absent

\* Artifact by artifact, its variants of the last revision are queried, and made
\* stale before the next one is asked for.
Ask(f) ==
  /\ fanout # NoCall /\ f \notin fanout.asked /\ \A v \in Variants : ~Left(v)
  /\ fanout' = [pc |-> "staling", asked |-> fanout.asked \cup {f},
                found |-> [v \in Variants |->
                             IF ArtifactOf[v] = f /\ Affected(rows[v]) THEN rows[v] ELSE fanout.found[v]],
                made |-> fanout.made]
  /\ due' = due \cup {v \in Variants : ArtifactOf[v] = f /\ Open(rows[v]) /\ rows[v].source = source}
  /\ UNCHANGED <<rows, calls, source>>

\* The update of one variant is accepted: nobody has moved it since the
\* query, and its command, which never claims a money page, needs none.
Stalable(v) ==
  /\ rows[v].revision = fanout.found[v].revision /\ rows[v].state = fanout.found[v].state
  /\ rows[v].revision < MaxRevision
  /\ ~Money(rows[v])

\* Slip: a variant that moved meanwhile is passed over.
SlipStale(v) ==
  /\ Left(v)
  /\ fanout' = IF Stalable(v)
               THEN [fanout EXCEPT !.made[v] = [rows[v] EXCEPT !.state = "stale", !.revision = @ + 1]]
               ELSE [fanout EXCEPT !.found[v] = Absent]
  /\ UNCHANGED <<rows, calls, source, due>>

Stale(v) ==
  /\ Left(v) /\ Stalable(v)
  /\ fanout' = [fanout EXCEPT !.made[v] = [rows[v] EXCEPT !.state = "stale", !.revision = @ + 1]]
  /\ UNCHANGED <<rows, calls, source, due>>

\* A refused update, or any other failure, throws out of afterChange: the
\* source revision is not inserted and no variant has changed.
RefuseSource ==
  /\ fanout # NoCall
  /\ fanout' = NoCall
  /\ UNCHANGED <<rows, calls, source, due>>

CommitSource ==
  /\ fanout # NoCall /\ fanout.asked = Artifacts /\ \A v \in Variants : ~Left(v)
  /\ rows' = [v \in Variants |-> IF fanout.made[v] # Absent THEN fanout.made[v] ELSE rows[v]]
  /\ source' = source + 1
  /\ fanout' = NoCall
  /\ UNCHANGED <<calls, due>>

LocaleNext ==
  \/ \E v \in Variants, a \in Actors \cup {NoOne}, text \in Texts, risks \in SUBSET RiskClasses, origin \in 0 .. source :
       Create(v, a, text, risks, origin)
  \/ \E c \in Calls, v \in Variants, a \in Actors :
       \/ \E to \in States, content \in 1 .. MaxContent : Transition(c, v, a, to, content)
       \/ \E text \in Texts, risks \in SUBSET RiskClasses : Revise(c, v, a, text, risks)
       \/ \E revision \in 1 .. MaxRevision, content \in 1 .. MaxContent : Amend(c, v, a, revision, content)
  \/ \E c \in Calls : Write(c) \/ Abandon(c)
  \/ InsertSource \/ RefuseSource \/ CommitSource
  \/ \E f \in Artifacts : Ask(f)
  \/ \E v \in Variants : Stale(v)

LocaleSpec == LocaleInit /\ [][LocaleNext]_localeVars
-----------------------------------------------------------------------------
(* Properties. *)

LocaleTypeOK ==
  /\ rows \in [Variants -> Row \cup {Absent}]
  /\ calls \in [Calls -> Update \cup {NoCall}]
  /\ source \in 0 .. MaxSource
  /\ fanout \in FanOut \cup {NoCall}
  /\ due \subseteq Variants

\* Reviews, revisions, plain updates, staleness and lost updates interleave: the text
\* that is approved or published is the one the approval read, whatever became of
\* content_revision, and the review of a money page is not by the editor its row records.
Vouched(row) ==
  row # Absent /\ row.state \in {"approved", "published"} =>
    /\ row.text = row.seen
    /\ row.reviewer # NoOne
    /\ Money(row) => row.reviewer # row.editor
ApprovedWasReviewed == \A v \in Variants : Vouched(rows[v])

\* Variants move between the queries of two artifacts and while others are made stale,
\* and late writes overwrite those of the source: the revision is committed only when
\* every artifact was asked for, and with every variant stale that was open then.
Due(v) ==
  \/ v \in due
  \/ ArtifactOf[v] \notin fanout.asked /\ Open(rows[v]) /\ rows[v].source = source
OutdatedTogether ==
  [][source' # source => \A v \in Variants : Due(v) => rows'[v].state = "stale"]_localeVars
=============================================================================
