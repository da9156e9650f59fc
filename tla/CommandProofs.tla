--------------------------- MODULE CommandProofs ---------------------------
(***************************************************************************)
(* Theorems about the canonical commands on one document: the locale       *)
(* workflow, the publication pointer and the review of candidates, for any *)
(* variants, writers, candidates, reviewers and bounds.                    *)
(***************************************************************************)
EXTENDS LocaleWorkflow, PublicationPointer, CandidateReview, TLAPS

-----------------------------------------------------------------------------
(* The locale workflow. *)

\* Every row about to be written is as good as a row that was.
CallsVouched == \A c \in Calls : calls[c] # NoCall => Vouched(calls[c].next)

\* The variants that were open are still to be made stale, or have been.
FanOutCovers ==
  fanout # NoCall =>
    /\ source < MaxSource
    /\ \A v \in due : fanout.found[v] # Absent
    /\ \A v \in Variants : fanout.made[v] # Absent => fanout.made[v].state = "stale"

LocaleIInv == LocaleTypeOK /\ ApprovedWasReviewed /\ CallsVouched /\ FanOutCovers

-----------------------------------------------------------------------------
(* What types say. *)

LEMMA RowFields ==
  ASSUME NEW row \in Row
  PROVE  /\ row.state \in States /\ row.revision \in 1 .. MaxRevision /\ row.content \in 1 .. MaxContent
         /\ row.text \in Texts /\ row.seen \in Texts \cup {NoText} /\ row.risks \in SUBSET RiskClasses /\ row.editor \in Actors \cup {NoOne}
         /\ row.reviewer \in Actors \cup {NoOne} /\ row.reviewed \in 0 .. MaxContent
         /\ row.source \in 0 .. MaxSource
         /\ row # Absent
BY DEF Row, Absent, States

LEMMA ExistingRow ==
  ASSUME LocaleTypeOK, NEW v \in Variants, Exists(v)
  PROVE  rows[v] \in Row
BY DEF LocaleTypeOK, Exists

LEMMA UpdateFields ==
  ASSUME LocaleTypeOK, NEW c \in Calls, calls[c] # NoCall
  PROVE  calls[c].variant \in Variants /\ calls[c].next \in Row
BY DEF LocaleTypeOK, Update

LEMMA FanOutFields ==
  ASSUME LocaleTypeOK, fanout # NoCall
  PROVE  /\ fanout \in FanOut /\ fanout.asked \in SUBSET Artifacts
         /\ fanout.found \in [Variants -> Row \cup {Absent}]
         /\ fanout.made \in [Variants -> Row \cup {Absent}]
BY DEF LocaleTypeOK, FanOut

-----------------------------------------------------------------------------
(* What the decisions write. *)

LEMMA MovedRow ==
  ASSUME NEW row \in Row, NEW a \in Actors, NEW to \in States, NEW content \in 1 .. MaxContent,
         row.revision < MaxRevision
  PROVE  Moved(row, a, to, content) \in Row
<1>1. row.revision + 1 \in 1 .. MaxRevision
  BY LocaleAssumption, RowFields
<1>2. row.content \in 0 .. MaxContent /\ row.text \in Texts \cup {NoText}
  BY LocaleAssumption, RowFields
<1> QED
  BY <1>1, <1>2 DEF Moved, Row

LEMMA MovedVouched ==
  ASSUME NEW row \in Row, Vouched(row), NEW a \in Actors, NEW to \in States, NEW content \in 1 .. MaxContent,
         MoneyFacts(row, a, to), Movers(row.state, to) # {}
  PROVE  Vouched(Moved(row, a, to, content))
<1> DEFINE next == Moved(row, a, to, content)
<1>1. CASE to = "approved"
  <2>1. /\ next.text = row.text /\ next.seen = row.text
        /\ next.reviewer = a /\ next.editor = row.editor /\ next.risks = row.risks
    BY <1>1 DEF Moved, Row
  <2> QED
    BY <1>1, <2>1, LocaleAssumption DEF Vouched, MoneyFacts, Money
<1>2. CASE to = "published"
  <2>1. row.state = "approved"
    BY <1>2 DEF Movers
  <2>2. /\ next.text = row.text /\ next.seen = row.seen
        /\ next.reviewer = row.reviewer /\ next.editor = row.editor /\ next.risks = row.risks
    BY <1>2 DEF Moved, Row
  <2> QED
    BY <2>1, <2>2, RowFields DEF Vouched, Money
<1>3. CASE to \notin {"approved", "published"}
  <2>1. next.state = to
    BY <1>3 DEF Moved, Row
  <2> QED
    BY <1>3, <2>1 DEF Vouched
<1> QED
  BY <1>1, <1>2, <1>3

LEMMA RevisedRow ==
  ASSUME NEW row \in Row, NEW a \in Actors, NEW text \in Texts, NEW risks \in SUBSET RiskClasses,
         row.revision < MaxRevision, row.content < MaxContent
  PROVE  Revised(row, a, text, risks) \in Row /\ Vouched(Revised(row, a, text, risks))
<1>1. row.revision + 1 \in 1 .. MaxRevision /\ row.content + 1 \in 1 .. MaxContent /\ 0 \in 0 .. MaxContent
  BY LocaleAssumption, RowFields
<1>2. RevisedState(row) \in States \ {"approved", "published"}
  BY RowFields DEF RevisedState, States
<1>3. Revised(row, a, text, risks) \in Row /\ Revised(row, a, text, risks).state = RevisedState(row)
  BY <1>1, <1>2 DEF Revised, Row
<1> QED
  BY <1>2, <1>3 DEF Vouched

LEMMA AmendedRow ==
  ASSUME NEW row \in Row, Vouched(row), NEW revision \in 1 .. MaxRevision, NEW content \in 1 .. MaxContent
  PROVE  /\ [row EXCEPT !.revision = revision, !.content = content] \in Row
         /\ Vouched([row EXCEPT !.revision = revision, !.content = content])
<1> DEFINE next == [row EXCEPT !.revision = revision, !.content = content]
<1>1. next \in Row
  BY DEF Row
<1>2. /\ next.state = row.state /\ next.text = row.text /\ next.seen = row.seen
      /\ next.reviewer = row.reviewer /\ next.editor = row.editor /\ next.risks = row.risks
  BY DEF Row
<1>3. row # Absent
  BY RowFields
<1> QED
  BY <1>1, <1>2, <1>3 DEF Vouched, Money

-----------------------------------------------------------------------------
(* Steps. *)

LEMMA LocaleBegins == LocaleInit => LocaleIInv
<1> SUFFICES ASSUME LocaleInit PROVE LocaleIInv
  OBVIOUS
<1>1. LocaleTypeOK
  BY LocaleAssumption DEF LocaleInit, LocaleTypeOK
<1> QED
  BY <1>1 DEF LocaleInit, LocaleIInv, ApprovedWasReviewed, CallsVouched, FanOutCovers, Vouched

\* A row that types and vouches replaces one in the table.
LEMMA LocaleRowsKeep ==
  ASSUME LocaleIInv, NEW v \in Variants, NEW row \in Row, Vouched(row), rows' = [rows EXCEPT ![v] = row]
  PROVE  rows' \in [Variants -> Row \cup {Absent}] /\ ApprovedWasReviewed'
<1>1. rows \in [Variants -> Row \cup {Absent}] /\ ApprovedWasReviewed
  BY DEF LocaleIInv, LocaleTypeOK
<1>2. \A w \in Variants : rows'[w] = IF w = v THEN row ELSE rows[w]
  BY <1>1
<1>3. \A w \in Variants : Vouched(rows'[w])
  BY <1>1, <1>2 DEF ApprovedWasReviewed
<1> QED
  BY <1>1, <1>3 DEF ApprovedWasReviewed

LEMMA CreateVariantKeeps ==
  ASSUME LocaleIInv, NEW v \in Variants, NEW a \in Actors \cup {NoOne}, NEW text \in Texts,
         NEW risks \in SUBSET RiskClasses, NEW origin \in 0 .. source, Create(v, a, text, risks, origin)
  PROVE  LocaleIInv'
<1> DEFINE row == [state |-> "missing", revision |-> 1, content |-> 1, text |-> text, risks |-> risks,
                   editor |-> a, reviewer |-> NoOne, reviewed |-> 0, seen |-> NoText, source |-> origin]
<1>1. origin \in 0 .. MaxSource /\ 1 \in 1 .. MaxRevision /\ 1 \in 1 .. MaxContent /\ 0 \in 0 .. MaxContent
  BY LocaleAssumption DEF LocaleIInv, LocaleTypeOK
<1>2. row \in Row /\ Vouched(row)
  BY <1>1 DEF Row, States, Vouched
<1>3. rows' = [rows EXCEPT ![v] = row]
  BY DEF Create
<1> HIDE DEF row
<1>4. rows' \in [Variants -> Row \cup {Absent}] /\ ApprovedWasReviewed'
  BY <1>2, <1>3, LocaleRowsKeep
<1>5. UNCHANGED <<calls, source, fanout, due>>
  BY DEF Create
<1>6. LocaleTypeOK'
  BY <1>4, <1>5 DEF LocaleIInv, LocaleTypeOK
<1> QED
  BY <1>4, <1>5, <1>6 DEF LocaleIInv, CallsVouched, FanOutCovers

LEMMA DecidedKeeps ==
  ASSUME LocaleIInv, NEW c \in Calls, NEW v \in Variants, NEW next \in Row, Vouched(next), Decided(c, v, next)
  PROVE  LocaleIInv'
<1>1. calls \in [Calls -> Update \cup {NoCall}] /\ UNCHANGED <<rows, source, fanout, due>>
  BY DEF LocaleIInv, LocaleTypeOK, Decided
<1>2. [pc |-> "decided", variant |-> v, next |-> next] \in Update
  BY DEF Update
<1>3. \A d \in Calls : calls'[d] = IF d = c THEN [pc |-> "decided", variant |-> v, next |-> next] ELSE calls[d]
  BY <1>1 DEF Decided
<1>4. calls' \in [Calls -> Update \cup {NoCall}]
  BY <1>1, <1>2 DEF Decided
<1>5. LocaleTypeOK'
  BY <1>1, <1>4 DEF LocaleIInv, LocaleTypeOK
<1>6. CallsVouched'
  BY <1>3 DEF LocaleIInv, CallsVouched
<1> QED
  BY <1>1, <1>5, <1>6 DEF LocaleIInv, ApprovedWasReviewed, FanOutCovers

LEMMA TransitionKeeps ==
  ASSUME LocaleIInv, NEW c \in Calls, NEW v \in Variants, NEW a \in Actors, NEW to \in States,
         NEW content \in 1 .. MaxContent, Transition(c, v, a, to, content)
  PROVE  LocaleIInv'
<1>1. rows[v] \in Row /\ Vouched(rows[v])
  BY ExistingRow DEF Transition, LocaleIInv, ApprovedWasReviewed
<1>2. Movers(rows[v].state, to) # {}
  BY DEF Transition
<1>3. Moved(rows[v], a, to, content) \in Row /\ Vouched(Moved(rows[v], a, to, content))
  BY <1>1, <1>2, MovedRow, MovedVouched DEF Transition
<1> QED
  BY <1>3, DecidedKeeps DEF Transition

LEMMA ReviseKeeps ==
  ASSUME LocaleIInv, NEW c \in Calls, NEW v \in Variants, NEW a \in Actors, NEW text \in Texts,
         NEW risks \in SUBSET RiskClasses, Revise(c, v, a, text, risks)
  PROVE  LocaleIInv'
<1>1. rows[v] \in Row /\ rows[v].risks \cup risks \in SUBSET RiskClasses
  BY ExistingRow, RowFields DEF Revise, LocaleIInv
<1>2. /\ Revised(rows[v], a, text, rows[v].risks \cup risks) \in Row
      /\ Vouched(Revised(rows[v], a, text, rows[v].risks \cup risks))
  BY <1>1, RevisedRow DEF Revise
<1> QED
  BY <1>2, DecidedKeeps DEF Revise

LEMMA AmendKeeps ==
  ASSUME LocaleIInv, NEW c \in Calls, NEW v \in Variants, NEW a \in Actors, NEW revision \in 1 .. MaxRevision,
         NEW content \in 1 .. MaxContent, Amend(c, v, a, revision, content)
  PROVE  LocaleIInv'
<1>1. rows[v] \in Row /\ Vouched(rows[v])
  BY ExistingRow DEF Amend, LocaleIInv, ApprovedWasReviewed
<1>2. /\ [rows[v] EXCEPT !.revision = revision, !.content = content] \in Row
      /\ Vouched([rows[v] EXCEPT !.revision = revision, !.content = content])
  BY <1>1, AmendedRow
<1> QED
  BY <1>2, DecidedKeeps DEF Amend

\* A call is over.
LEMMA LocaleCallEnds ==
  ASSUME LocaleIInv, NEW c \in Calls, calls' = [calls EXCEPT ![c] = NoCall]
  PROVE  calls' \in [Calls -> Update \cup {NoCall}] /\ CallsVouched'
<1>1. calls \in [Calls -> Update \cup {NoCall}]
  BY DEF LocaleIInv, LocaleTypeOK
<1>2. \A d \in Calls : calls'[d] = IF d = c THEN NoCall ELSE calls[d]
  BY <1>1
<1> QED
  BY <1>1, <1>2 DEF LocaleIInv, CallsVouched

LEMMA WriteUpdateKeeps ==
  ASSUME LocaleIInv, NEW c \in Calls, Write(c)
  PROVE  LocaleIInv'
<1>1. calls[c].variant \in Variants /\ calls[c].next \in Row /\ Vouched(calls[c].next)
  BY UpdateFields DEF Write, LocaleIInv, CallsVouched
<1>2. rows' \in [Variants -> Row \cup {Absent}] /\ ApprovedWasReviewed'
  BY <1>1, LocaleRowsKeep DEF Write
<1>3. calls' \in [Calls -> Update \cup {NoCall}] /\ CallsVouched'
  BY LocaleCallEnds DEF Write
<1>4. UNCHANGED <<source, fanout, due>>
  BY DEF Write
<1>5. LocaleTypeOK'
  BY <1>2, <1>3, <1>4 DEF LocaleIInv, LocaleTypeOK
<1> QED
  BY <1>2, <1>3, <1>4, <1>5 DEF LocaleIInv, FanOutCovers

LEMMA AbandonUpdateKeeps ==
  ASSUME LocaleIInv, NEW c \in Calls, Abandon(c)
  PROVE  LocaleIInv'
<1>1. calls' \in [Calls -> Update \cup {NoCall}] /\ CallsVouched'
  BY LocaleCallEnds DEF Abandon
<1>2. UNCHANGED <<rows, source, fanout, due>>
  BY DEF Abandon
<1>3. LocaleTypeOK'
  BY <1>1, <1>2 DEF LocaleIInv, LocaleTypeOK
<1> QED
  BY <1>1, <1>2, <1>3 DEF LocaleIInv, ApprovedWasReviewed, FanOutCovers

\* What is open is what the query asks for.
LEMMA OpenIsAffected ==
  ASSUME LocaleTypeOK, NEW v \in Variants, Open(rows[v]), rows[v].source = source
  PROVE  Affected(rows[v])
<1>1. rows[v] \in Row
  BY ExistingRow DEF Open, Exists
<1> QED
  BY <1>1, RowFields DEF Open, Affected, States

LEMMA InsertSourceKeeps ==
  ASSUME LocaleIInv, InsertSource
  PROVE  LocaleIInv'
<1> DEFINE none == [v \in Variants |-> Absent]
<1>1. UNCHANGED <<rows, calls, source>> /\ due' = {} /\ source < MaxSource
  BY DEF InsertSource
<1>2. none \in [Variants -> Row \cup {Absent}] /\ \A v \in Variants : none[v] = Absent
  OBVIOUS
<1>3. fanout' = [pc |-> "staling", asked |-> {}, found |-> none, made |-> none]
  BY DEF InsertSource
<1> HIDE DEF none
<1>4. fanout' \in FanOut /\ fanout'.made = none
  BY <1>2, <1>3 DEF FanOut
<1>5. LocaleTypeOK'
  BY <1>1, <1>4 DEF LocaleIInv, LocaleTypeOK
<1>6. FanOutCovers'
  BY <1>1, <1>2, <1>4 DEF FanOutCovers
<1> QED
  BY <1>1, <1>5, <1>6 DEF LocaleIInv, ApprovedWasReviewed, CallsVouched

LEMMA AskKeeps ==
  ASSUME LocaleIInv, NEW f \in Artifacts, Ask(f)
  PROVE  LocaleIInv'
<1> DEFINE found == [v \in Variants |->
                       IF ArtifactOf[v] = f /\ Affected(rows[v]) THEN rows[v] ELSE fanout.found[v]]
           open == {v \in Variants : ArtifactOf[v] = f /\ Open(rows[v]) /\ rows[v].source = source}
<1>1. rows \in [Variants -> Row \cup {Absent}] /\ due \subseteq Variants /\ UNCHANGED <<rows, calls, source>>
  BY DEF LocaleIInv, LocaleTypeOK, Ask
<1>2. /\ fanout # NoCall /\ source < MaxSource
      /\ \A v \in due : fanout.found[v] # Absent
      /\ \A v \in Variants : fanout.made[v] # Absent => fanout.made[v].state = "stale"
  BY DEF LocaleIInv, FanOutCovers, Ask
<1>3. /\ fanout.asked \in SUBSET Artifacts /\ fanout.found \in [Variants -> Row \cup {Absent}]
      /\ fanout.made \in [Variants -> Row \cup {Absent}]
  BY <1>2, FanOutFields DEF LocaleIInv
<1>4. found \in [Variants -> Row \cup {Absent}]
  BY <1>1, <1>3
<1>5. fanout' = [pc |-> "staling", asked |-> fanout.asked \cup {f}, found |-> found, made |-> fanout.made]
  BY DEF Ask
<1>6. due' = due \cup open
  BY DEF Ask
<1>7. \A v \in open : v \in Variants /\ ArtifactOf[v] = f /\ Affected(rows[v])
  BY OpenIsAffected DEF LocaleIInv
<1>8. \A v \in due \cup open : v \in Variants /\ found[v] # Absent
  BY <1>1, <1>2, <1>7 DEF Affected
<1> HIDE DEF found, open
<1>9. fanout' \in FanOut /\ fanout'.found = found /\ fanout'.made = fanout.made
  BY <1>3, <1>4, <1>5 DEF FanOut
<1>10. LocaleTypeOK'
  BY <1>1, <1>6, <1>8, <1>9 DEF LocaleIInv, LocaleTypeOK
<1>11. FanOutCovers'
  BY <1>1, <1>2, <1>6, <1>8, <1>9 DEF FanOutCovers
<1> QED
  BY <1>1, <1>10, <1>11 DEF LocaleIInv, ApprovedWasReviewed, CallsVouched

LEMMA StaleKeeps ==
  ASSUME LocaleIInv, NEW v \in Variants, Stale(v)
  PROVE  LocaleIInv'
<1> DEFINE row == [rows[v] EXCEPT !.state = "stale", !.revision = @ + 1]
<1>1. fanout # NoCall /\ fanout.found[v] # Absent /\ fanout.found[v].state = rows[v].state /\ rows[v].revision < MaxRevision
  BY DEF Stale, Left, Stalable
<1>2. UNCHANGED <<rows, calls, source, due>> /\ fanout' = [fanout EXCEPT !.made[v] = row]
  BY DEF Stale
<1>3. fanout \in FanOut /\ fanout.found \in [Variants -> Row \cup {Absent}] /\ fanout.made \in [Variants -> Row \cup {Absent}]
  BY <1>1, FanOutFields DEF LocaleIInv
<1>4. rows[v] \in Row
  <2>1. fanout.found[v].state \in States
    BY <1>1, <1>3, RowFields
  <2>2. rows[v] \in Row \cup {Absent}
    BY DEF LocaleIInv, LocaleTypeOK
  <2>3. rows[v] # Absent
    BY <2>1, <1>1 DEF Absent, States
  <2> QED
    BY <2>2, <2>3
<1>5. rows[v].revision + 1 \in 1 .. MaxRevision
  BY <1>1, <1>4, RowFields, LocaleAssumption
<1>6. row \in Row /\ row.state = "stale"
  BY <1>4, <1>5 DEF Row, States
<1> HIDE DEF row
<1>7. /\ fanout' \in FanOut /\ fanout'.found = fanout.found
      /\ \A w \in Variants : fanout'.made[w] = IF w = v THEN row ELSE fanout.made[w]
  BY <1>2, <1>3, <1>6 DEF FanOut
<1>8. LocaleTypeOK'
  BY <1>2, <1>7 DEF LocaleIInv, LocaleTypeOK
<1>9. FanOutCovers'
  BY <1>1, <1>2, <1>6, <1>7 DEF LocaleIInv, FanOutCovers
<1> QED
  BY <1>2, <1>8, <1>9 DEF LocaleIInv, ApprovedWasReviewed, CallsVouched

LEMMA RefuseSourceKeeps ==
  ASSUME LocaleIInv, RefuseSource
  PROVE  LocaleIInv'
<1>1. LocaleTypeOK'
  BY DEF LocaleIInv, LocaleTypeOK, RefuseSource
<1> QED
  BY <1>1 DEF LocaleIInv, RefuseSource, ApprovedWasReviewed, CallsVouched, FanOutCovers

LEMMA CommitSourceKeeps ==
  ASSUME LocaleIInv, CommitSource
  PROVE  LocaleIInv' /\ \A v \in Variants : Due(v) => rows'[v].state = "stale"
<1>1. fanout # NoCall /\ (\A v \in Variants : ~Left(v)) /\ UNCHANGED <<calls, due>> /\ fanout' = NoCall
  BY DEF CommitSource
<1>2. fanout.found \in [Variants -> Row \cup {Absent}] /\ fanout.made \in [Variants -> Row \cup {Absent}]
  BY <1>1, FanOutFields DEF LocaleIInv
<1>3. rows \in [Variants -> Row \cup {Absent}] /\ due \subseteq Variants
  BY DEF LocaleIInv, LocaleTypeOK
<1>4. rows' = [v \in Variants |-> IF fanout.made[v] # Absent THEN fanout.made[v] ELSE rows[v]]
  BY DEF CommitSource
<1>5. rows' \in [Variants -> Row \cup {Absent}]
  BY <1>2, <1>3, <1>4
<1>6. \A v \in Variants : fanout.made[v] # Absent => fanout.made[v].state = "stale"
  BY <1>1 DEF LocaleIInv, FanOutCovers
<1>7. ApprovedWasReviewed'
  BY <1>4, <1>6 DEF LocaleIInv, ApprovedWasReviewed, Vouched
<1>8. \A v \in Variants : Due(v) => rows'[v].state = "stale"
  <2> SUFFICES ASSUME NEW v \in Variants, Due(v) PROVE rows'[v].state = "stale"
    OBVIOUS
  <2> v \in due
    BY LocaleAssumption DEF Due, CommitSource
  <2>1. fanout.made[v] # Absent
    BY <1>1, <1>3 DEF LocaleIInv, FanOutCovers, Left
  <2> QED
    BY <2>1, <1>3, <1>4, <1>6
<1>9. source' \in 0 .. MaxSource
  BY <1>1, LocaleAssumption DEF LocaleIInv, LocaleTypeOK, FanOutCovers, CommitSource
<1>10. LocaleTypeOK'
  BY <1>1, <1>5, <1>9 DEF LocaleIInv, LocaleTypeOK
<1> QED
  BY <1>1, <1>7, <1>8, <1>10 DEF LocaleIInv, CallsVouched, FanOutCovers

LEMMA LocaleSteps == LocaleIInv /\ [LocaleNext]_localeVars => LocaleIInv'
<1> SUFFICES ASSUME LocaleIInv, [LocaleNext]_localeVars PROVE LocaleIInv'
  OBVIOUS
<1>1. ASSUME NEW v \in Variants, NEW a \in Actors \cup {NoOne}, NEW text \in Texts, NEW risks \in SUBSET RiskClasses,
             NEW origin \in 0 .. source, Create(v, a, text, risks, origin)
      PROVE  LocaleIInv'
  BY <1>1, CreateVariantKeeps
<1>2. ASSUME NEW c \in Calls, Write(c) PROVE LocaleIInv'
  BY <1>2, WriteUpdateKeeps
<1>3. ASSUME NEW c \in Calls, Abandon(c) PROVE LocaleIInv'
  BY <1>3, AbandonUpdateKeeps
<1>4. ASSUME NEW c \in Calls, NEW v \in Variants, NEW a \in Actors, NEW to \in States,
             NEW content \in 1 .. MaxContent, Transition(c, v, a, to, content)
      PROVE  LocaleIInv'
  BY <1>4, TransitionKeeps
<1>5. ASSUME NEW c \in Calls, NEW v \in Variants, NEW a \in Actors, NEW text \in Texts,
             NEW risks \in SUBSET RiskClasses, Revise(c, v, a, text, risks)
      PROVE  LocaleIInv'
  BY <1>5, ReviseKeeps
<1>6. ASSUME NEW v \in Variants, Stale(v) PROVE LocaleIInv'
  BY <1>6, StaleKeeps
<1>7. CASE InsertSource
  BY <1>7, InsertSourceKeeps
<1>8. CASE RefuseSource
  BY <1>8, RefuseSourceKeeps
<1>9. CASE CommitSource
  BY <1>9, CommitSourceKeeps
<1>10. CASE UNCHANGED localeVars
  BY <1>10 DEF localeVars, LocaleIInv, LocaleTypeOK, ApprovedWasReviewed, CallsVouched, FanOutCovers
<1>11. ASSUME NEW c \in Calls, NEW v \in Variants, NEW a \in Actors, NEW revision \in 1 .. MaxRevision,
              NEW content \in 1 .. MaxContent, Amend(c, v, a, revision, content)
       PROVE  LocaleIInv'
  BY <1>11, AmendKeeps
<1>12. ASSUME NEW f \in Artifacts, Ask(f) PROVE LocaleIInv'
  BY <1>12, AskKeeps
<1> QED
  BY <1>1, <1>2, <1>3, <1>4, <1>5, <1>6, <1>7, <1>8, <1>9, <1>10, <1>11, <1>12 DEF LocaleNext

\* Only a commit moves the source.
LEMMA LocaleOutdates ==
  LocaleIInv /\ [LocaleNext]_localeVars /\ source' # source => \A v \in Variants : Due(v) => rows'[v].state = "stale"
<1> SUFFICES ASSUME LocaleIInv, [LocaleNext]_localeVars, source' # source
             PROVE  \A v \in Variants : Due(v) => rows'[v].state = "stale"
  OBVIOUS
<1>1. ASSUME NEW c \in Calls, NEW v \in Variants, NEW a \in Actors PROVE
        /\ \A to \in States, content \in 1 .. MaxContent : ~Transition(c, v, a, to, content)
        /\ \A text \in Texts, risks \in SUBSET RiskClasses : ~Revise(c, v, a, text, risks)
        /\ \A revision \in 1 .. MaxRevision, content \in 1 .. MaxContent : ~Amend(c, v, a, revision, content)
  BY DEF Transition, Revise, Amend, Decided
<1>2. \A v \in Variants, a \in Actors \cup {NoOne}, text \in Texts, risks \in SUBSET RiskClasses, origin \in 0 .. source :
        ~Create(v, a, text, risks, origin)
  BY DEF Create
<1>3. \A c \in Calls : ~Write(c) /\ ~Abandon(c)
  BY DEF Write, Abandon
<1>4. ~InsertSource /\ ~RefuseSource /\ (\A f \in Artifacts : ~Ask(f)) /\ (\A v \in Variants : ~Stale(v))
  BY DEF InsertSource, RefuseSource, Ask, Stale
<1>5. CommitSource
  BY <1>1, <1>2, <1>3, <1>4 DEF LocaleNext, localeVars
<1> QED
  BY <1>5, CommitSourceKeeps

-----------------------------------------------------------------------------
LEMMA LocaleInvariant == LocaleSpec => []LocaleIInv
<1> QED
  BY LocaleBegins, LocaleSteps, PTL DEF LocaleSpec

\* Rows, updates in flight and the source's transaction keep their shape: what
\* a command writes back is always a whole, well-formed row.
THEOREM LocaleTypeCorrect == LocaleSpec => []LocaleTypeOK
<1>1. LocaleIInv => LocaleTypeOK
  BY DEF LocaleIInv
<1> QED
  BY <1>1, LocaleInvariant, PTL

\* Whatever updates are lost, and whatever plain updates make of content_revision,
\* the text that is approved or published is the one its approval read, and a money
\* page was not reviewed by its recorded editor.
THEOREM ApprovedWasReviewedAlways == LocaleSpec => []ApprovedWasReviewed
<1>1. LocaleIInv => ApprovedWasReviewed
  BY DEF LocaleIInv
<1> QED
  BY <1>1, LocaleInvariant, PTL

\* A source revision is committed only when every artifact was asked for, and with
\* every variant stale that was open when its artifact was.
THEOREM OutdatedTogetherAlways == LocaleSpec => OutdatedTogether
<1>1. LocaleIInv /\ [LocaleNext]_localeVars => [source' # source => \A v \in Variants : Due(v) => rows'[v].state = "stale"]_localeVars
  BY LocaleOutdates
<1> QED
  BY <1>1, LocaleInvariant, PTL DEF LocaleSpec, OutdatedTogether

-----------------------------------------------------------------------------
(* The publication pointer.  The hook compares triples before it waits for *)
(* the lock, the database compares revisions only: the argument is that a  *)
(* revision names one triple, because the audit events number the triples. *)

\* The i-th audit event left revision i - 1.
Numbered == \A i \in DOMAIN trail : trail[i].after.revision = i - 1

\* What a request expects has once been the pointer, and it wants the next revision.
Once(p) == p = Unborn \/ (p.revision + 1 \in DOMAIN trail /\ trail[p.revision + 1].after = p)
Remembered ==
  \A w \in Writers : ~At(w, "resting") =>
    /\ Once(writers[w].expected)
    /\ writers[w].desired.revision = writers[w].expected.revision + 1

\* Only the holder of the lock has claimed, and the pointer is what it expects.
Locked == \A w \in Writers : At(w, "claimed") => holder = w /\ writers[w].expected = pointer

PointerIInv == PointerTypeOK /\ PointerLinear /\ Numbered /\ Remembered /\ Locked
-----------------------------------------------------------------------------
LEMMA TripleFacts ==
  /\ \A p \in Triple : p # Unborn /\ p.revision \in Nat
  /\ \A p \in Rows : p.revision \in Int
  /\ Unborn \in Rows /\ Unborn.revision = -1
BY PointerAssumption DEF Triple, Rows, Unborn

LEMMA RequestFacts ==
  ASSUME PointerTypeOK, NEW w \in Writers, ~At(w, "resting")
  PROVE  writers[w] \in Request /\ writers[w].expected \in Rows /\ writers[w].desired \in Triple
BY DEF PointerTypeOK, At, Resting, Request

\* The newest audit event, and the revision it left.
LEMMA NewestFacts ==
  ASSUME PointerTypeOK, PointerLinear, Numbered
  PROVE  /\ Len(trail) \in Nat
         /\ trail = <<>> <=> pointer = Unborn
         /\ trail # <<>> => Len(trail) \in DOMAIN trail /\ pointer = trail[Len(trail)].after
         /\ pointer.revision = Len(trail) - 1
<1>1. trail \in Seq(AllowedEvent) /\ Len(trail) \in Nat /\ DOMAIN trail = 1 .. Len(trail)
  BY DEF PointerTypeOK
<1>2. CASE trail = <<>>
  <2>1. pointer = Unborn /\ Len(trail) = 0
    BY <1>2 DEF PointerLinear, Newest
  <2>2. QED
    BY <1>2, <2>1, TripleFacts
<1>3. CASE trail # <<>>
  <2>1. Len(trail) \in DOMAIN trail
    BY <1>1, <1>3
  <2>2. pointer = trail[Len(trail)].after
    BY <1>3 DEF PointerLinear, Newest
  <2>4. trail[Len(trail)] \in AllowedEvent
    BY <1>1, <2>1
  <2>5. pointer \in Triple
    BY <2>2, <2>4 DEF AllowedEvent
  <2>3. QED
    BY <1>1, <1>3, <2>1, <2>2, <2>5, TripleFacts DEF Numbered
<1>4. QED
  BY <1>2, <1>3

\* A step that leaves the audit events and the pointer alone keeps what is said of them.
LEMMA TrailStays ==
  ASSUME PointerIInv, UNCHANGED <<pointer, trail>>
  PROVE  PointerLinear' /\ Numbered' /\ (\A p : Once(p) => Once(p)')
BY DEF PointerIInv, PointerLinear, Newest, Numbered, Once

-----------------------------------------------------------------------------
LEMMA OrderKeeps ==
  ASSUME PointerIInv, NEW w \in Writers, NEW desired \in Triple, Order(w, desired)
  PROVE  PointerIInv'
<1> USE DEF PointerIInv
<1>1. Once(pointer)
  BY NewestFacts, PointerAssumption DEF Once
<1>2. PointerTypeOK'
  <2>1. [pc |-> "ordered", expected |-> pointer, desired |-> desired] \in Request
    BY DEF Request, PointerTypeOK
  <2>2. QED
    BY <2>1 DEF PointerTypeOK, Order
<1>3. Remembered'
  <2> SUFFICES ASSUME NEW x \in Writers, ~At(x, "resting")'
               PROVE  /\ Once(writers[x].expected)'
                      /\ (writers[x].desired.revision = writers[x].expected.revision + 1)'
    BY DEF Remembered
  <2>1. CASE x = w
    <3>1. writers'[w] = [pc |-> "ordered", expected |-> pointer, desired |-> desired]
      BY DEF Order, PointerTypeOK
    <3>2. Once(pointer)'
      BY <1>1 DEF Once, Order
    <3>3. QED
      BY <2>1, <3>1, <3>2 DEF Once, Order
  <2>2. CASE x # w
    <3>1. writers'[x] = writers[x] /\ UNCHANGED trail
      BY <2>2 DEF Order, PointerTypeOK
    <3>2. QED
      BY <3>1 DEF Once, At, Remembered
  <2>3. QED
    BY <2>1, <2>2
<1>4. Locked'
  BY DEF Order, Locked, PointerTypeOK, At
<1>5. QED
  BY <1>2, <1>3, <1>4, TrailStays DEF Order

\* Moving the pc of a request from a busy one to a busy one.
LEMMA MovePCKeeps ==
  ASSUME PointerIInv, NEW w \in Writers, NEW pc \in {"decided", "claimed"}, ~At(w, "resting"),
         MovePC(w, pc), UNCHANGED <<pointer, trail>>
  PROVE  /\ writers' \in [Writers -> {Resting} \cup Request]
         /\ Remembered'
         /\ writers'[w] = [pc |-> pc, expected |-> writers[w].expected, desired |-> writers[w].desired]
         /\ \A x \in Writers \ {w} : writers'[x] = writers[x]
<1> USE DEF PointerIInv
<1>1. writers[w] \in Request
  BY RequestFacts
<1>2. writers'[w] = [pc |-> pc, expected |-> writers[w].expected, desired |-> writers[w].desired]
  BY <1>1 DEF MovePC, PointerTypeOK, Request
<1>3. \A x \in Writers \ {w} : writers'[x] = writers[x]
  BY DEF MovePC, PointerTypeOK
<1>4. writers'[w] \in Request
  BY <1>1, <1>2 DEF Request
<1>5. writers' \in [Writers -> {Resting} \cup Request]
  BY <1>4 DEF MovePC, PointerTypeOK
<1>6. Remembered'
  BY <1>2, <1>3 DEF Remembered, At, Once
<1>7. QED
  BY <1>2, <1>3, <1>5, <1>6

LEMMA DecideKeeps ==
  ASSUME PointerIInv, NEW w \in Writers, Decide(w)
  PROVE  PointerIInv'
<1>1. ~At(w, "resting") /\ MovePC(w, "decided") /\ UNCHANGED <<pointer, holder, trusted, trail>>
  BY DEF Decide, At
<1>2. /\ writers' \in [Writers -> {Resting} \cup Request] /\ Remembered'
      /\ writers'[w] = [pc |-> "decided", expected |-> writers[w].expected, desired |-> writers[w].desired]
      /\ \A x \in Writers \ {w} : writers'[x] = writers[x]
  BY <1>1, MovePCKeeps
<1>3. PointerTypeOK'
  BY <1>1, <1>2 DEF PointerIInv, PointerTypeOK
<1>5. Locked'
  BY <1>1, <1>2 DEF PointerIInv, Locked, At
<1>4. QED
  BY <1>1, <1>2, <1>3, <1>5, TrailStays DEF PointerIInv

\* The claim of the lock: by then the pointer is what the request expects.
LEMMA TakesLock ==
  ASSUME PointerIInv, NEW w \in Writers, At(w, "decided"), holder = Nobody, holder' = w,
         MovePC(w, "claimed"), UNCHANGED <<pointer, trusted, trail>>,
         writers[w].expected = pointer
  PROVE  PointerIInv'
<1>1. ~At(w, "resting")
  BY DEF At
<1>2. /\ writers' \in [Writers -> {Resting} \cup Request] /\ Remembered'
      /\ writers'[w] = [pc |-> "claimed", expected |-> writers[w].expected, desired |-> writers[w].desired]
      /\ \A x \in Writers \ {w} : writers'[x] = writers[x]
  BY <1>1, MovePCKeeps
<1>3. PointerTypeOK'
  BY <1>2 DEF PointerIInv, PointerTypeOK
<1>4. Locked'
  BY <1>2, PointerAssumption DEF PointerIInv, Locked, At
<1>5. QED
  BY <1>2, <1>3, <1>4, TrailStays DEF PointerIInv

LEMMA ClaimKeeps ==
  ASSUME PointerIInv, NEW w \in Writers, Claim(w)
  PROVE  PointerIInv'
<1> USE DEF PointerIInv
<1>1. ~At(w, "resting")
  BY DEF Claim, At
<1>2. writers[w].expected \in Rows /\ Once(writers[w].expected)
  BY <1>1, RequestFacts DEF Remembered
<1>3. /\ writers[w].expected.revision + 1 \in DOMAIN trail
      /\ trail[writers[w].expected.revision + 1].after = writers[w].expected
  BY <1>2 DEF Claim, Once
<1>4. writers[w].expected.revision + 1 = Len(trail)
  BY <1>2, NewestFacts, TripleFacts DEF Claim
<1>5. trail # <<>>
  BY <1>3
<1>6. writers[w].expected = pointer
  BY <1>3, <1>4, <1>5, NewestFacts
<1>7. QED
  BY <1>6, TakesLock DEF Claim

LEMMA InsertPointerKeeps ==
  ASSUME PointerIInv, NEW w \in Writers, Insert(w)
  PROVE  PointerIInv'
BY TakesLock DEF Insert

LEMMA CommitPointerKeeps ==
  ASSUME PointerIInv, NEW w \in Writers, Commit(w)
  PROVE  PointerIInv'
<1> USE DEF PointerIInv
<1> DEFINE event == [before |-> writers[w].expected, after |-> writers[w].desired]
<1>1. ~At(w, "resting") /\ holder = w /\ writers[w].expected = pointer
  BY DEF Commit, At, Locked
<1>2. writers[w].expected \in Rows /\ writers[w].desired \in Triple
  BY <1>1, RequestFacts
<1>3. event \in AllowedEvent /\ event.after = writers[w].desired /\ event.before = pointer
  BY <1>1, <1>2 DEF AllowedEvent
<1>4. event.after.revision = Len(trail)
  BY <1>1, <1>3, NewestFacts DEF Remembered
<1> HIDE DEF event
<1>5. /\ trail \in Seq(AllowedEvent) /\ trail' = Append(trail, event)
      /\ pointer' = event.after /\ holder' = Nobody /\ UNCHANGED trusted
      /\ writers' = [writers EXCEPT ![w] = Resting]
  BY <1>3 DEF Commit, event, PointerTypeOK
<1>6. /\ trail' \in Seq(AllowedEvent) /\ Len(trail') = Len(trail) + 1 /\ Len(trail) \in Nat
      /\ trail'[Len(trail) + 1] = event
      /\ \A i \in 1 .. Len(trail) : trail'[i] = trail[i]
      /\ DOMAIN trail = 1 .. Len(trail) /\ DOMAIN trail' = 1 .. (Len(trail) + 1)
  BY <1>3, <1>5
<1>7. PointerTypeOK'
  BY <1>2, <1>3, <1>5, <1>6 DEF PointerTypeOK, Rows
<1>8. PointerLinear'
  <2>1. Newest' = event.after
    BY <1>6 DEF Newest
  <2>2. trail'[Len(trail) + 1].before = IF Len(trail) + 1 = 1 THEN Unborn ELSE trail'[Len(trail)].after
    <3>1. CASE Len(trail) = 0
      BY <1>3, <1>6, <3>1, NewestFacts
    <3>2. CASE Len(trail) # 0
      BY <1>3, <1>6, <3>2, NewestFacts
    <3>3. QED
      BY <3>1, <3>2
  <2>3. ASSUME NEW i \in 1 .. Len(trail)
        PROVE  trail'[i].before = IF i = 1 THEN Unborn ELSE trail'[i - 1].after
    <3>1. CASE i = 1
      BY <1>6, <3>1 DEF PointerLinear
    <3>2. CASE i # 1
      <4>1. i - 1 \in 1 .. Len(trail)
        BY <1>6, <3>2
      <4>2. QED
        BY <1>6, <3>2, <4>1 DEF PointerLinear
    <3>3. QED
      BY <3>1, <3>2
  <2>4. ASSUME NEW i \in DOMAIN trail'
        PROVE  trail'[i].before = IF i = 1 THEN Unborn ELSE trail'[i - 1].after
    <3>1. i \in 1 .. Len(trail) \/ i = Len(trail) + 1
      BY <1>6
    <3>2. CASE i = Len(trail) + 1
      BY <1>6, <2>2, <3>2
    <3>3. QED
      BY <2>3, <3>1, <3>2
  <2>5. QED
    BY <1>5, <2>1, <2>4 DEF PointerLinear
<1>9. Numbered'
  BY <1>4, <1>6 DEF Numbered
<1>10. ASSUME NEW p \in Rows, Once(p)
       PROVE  Once(p)'
  <2>1. CASE p = Unborn
    BY <2>1 DEF Once
  <2>2. CASE p # Unborn
    <3>1. p.revision + 1 \in 1 .. Len(trail) /\ trail[p.revision + 1].after = p
      BY <1>6, <2>2, <1>10 DEF Once
    <3>2. p.revision + 1 \in DOMAIN trail'
      BY <1>6, <3>1
    <3>3. QED
      BY <1>6, <3>1, <3>2 DEF Once
  <2>3. QED
    BY <2>1, <2>2
<1>11. \A x \in Writers : ~At(x, "resting")' => x # w /\ writers'[x] = writers[x]
  BY <1>5 DEF At, Resting, PointerTypeOK
<1>12. Remembered'
  BY <1>10, <1>11, RequestFacts DEF Remembered, At
<1>13. Locked'
  BY <1>1, <1>11 DEF Locked, At
<1>14. QED
  BY <1>7, <1>8, <1>9, <1>12, <1>13

LEMMA RollbackKeeps ==
  ASSUME PointerIInv, NEW w \in Writers, Rollback(w)
  PROVE  PointerIInv'
<1> USE DEF PointerIInv
<1>1. \A x \in Writers : ~At(x, "resting")' => x # w /\ writers'[x] = writers[x]
  BY DEF Rollback, At, Resting, PointerTypeOK
<1>2. PointerTypeOK'
  BY DEF Rollback, PointerTypeOK
<1>3. Remembered'
  BY <1>1, TrailStays DEF Rollback, Remembered, At
<1>4. Locked'
  BY <1>1 DEF Rollback, Locked, At
<1>5. QED
  BY <1>2, <1>3, <1>4, TrailStays DEF Rollback

LEMMA StillKeeps ==
  ASSUME PointerIInv, UNCHANGED <<pointer, holder, writers, trail>>, trusted' \in BOOLEAN
  PROVE  PointerIInv'
BY DEF PointerIInv, PointerTypeOK, PointerLinear, Newest, Numbered, Remembered, Once, Locked, At

-----------------------------------------------------------------------------
LEMMA PointerBegins == PointerInit => PointerIInv
BY TripleFacts DEF PointerInit, PointerIInv, PointerTypeOK, PointerLinear, Newest, Numbered, Remembered, Locked, At, Resting

LEMMA PointerSteps == PointerIInv /\ [PointerNext]_pointerVars => PointerIInv'
<1> SUFFICES ASSUME PointerIInv, [PointerNext]_pointerVars PROVE PointerIInv'
  OBVIOUS
<1>1. CASE UNCHANGED pointerVars \/ ChangeRoles
  BY <1>1, StillKeeps DEF pointerVars, ChangeRoles, PointerIInv, PointerTypeOK
<1>2. CASE PointerNext /\ ~ChangeRoles
  BY <1>2, OrderKeeps, DecideKeeps, ClaimKeeps, InsertPointerKeeps, CommitPointerKeeps, RollbackKeeps DEF PointerNext
<1>3. QED
  BY <1>1, <1>2

\* Type correctness of the pointer, its requests and its audit events.
THEOREM PointerTypeCorrect == PointerSpec => []PointerTypeOK
<1>1. PointerIInv => PointerTypeOK
  BY DEF PointerIInv
<1>2. QED
  BY <1>1, PointerBegins, PointerSteps, PTL DEF PointerSpec

\* Every accepted command started from the triple its predecessor left, and the
\* pointer is what the last one wanted, however many requests race.
THEOREM PointerLinearAlways == PointerSpec => []PointerLinear
<1>1. PointerIInv => PointerLinear
  BY DEF PointerIInv
<1>2. QED
  BY <1>1, PointerBegins, PointerSteps, PTL DEF PointerSpec

-----------------------------------------------------------------------------
(* The review of candidates.  A revision names one state of a candidate:   *)
(* what a reviewer read is what the decision finds, if the revision is.    *)

\* A proposal on its way is a new edge, of an id nobody else has used.
ProposalsNew ==
  \A c \in Candidates : proposals[c] # Unproposed =>
    candidates[c] = Unproposed /\ proposals[c].revision = 1 /\ proposals[c].state = "open"

\* What a review under way relies on: its row is the candidate, or the candidate
\* is a later one; it has seen the evidence whole if that is so now; past its
\* checks it saw it whole, and the decision is of another's open work; past the
\* audit sink the event is there.
Stands(r, d, row, events) ==
  /\ row # Unproposed /\ d.row.revision <= row.revision
  /\ d.row.revision = row.revision => d.row = row
  /\ d.pc \in {"checked", "audited"} =>
       d.sound /\ d.row.author # r /\ GraphReviewable(d.row, d.decision) /\ StillReviewable(d.row)
  /\ d.pc = "audited" =>
       /\ Bounded(d.row)
       /\ [candidate |-> d.candidate, revision |-> d.row.revision + 1, by |-> r, decision |-> d.decision] \in events

ReviewIInv ==
  /\ ReviewTypeOK /\ ProposalsNew
  /\ \A r \in Reviewers : desk[r] # FreeDesk =>
       /\ Stands(r, desk[r], candidates[desk[r].candidate], reviewed)
       /\ Whole(desk[r].row, material) => desk[r].sound

LEMMA CandidateFields ==
  ASSUME NEW row \in CandidateRow
  PROVE  /\ row # Unproposed /\ row.kind \in Kinds /\ row.state \in {"open", "approved", "rejected"}
         /\ row.revision \in Nat \ {0} /\ row.author \in Reviewers \cup {Machine}
         /\ row.reviewer \in Reviewers \cup {NoReviewer} /\ row.fit \in BOOLEAN
         /\ MaxCandidate[row.kind] \in Nat \ {0}
<1>1. row.state # Unproposed.state
  BY DEF CandidateRow, Unproposed
<1> QED BY <1>1, ReviewAssumption DEF CandidateRow

LEMMA DeskFields ==
  ASSUME ReviewTypeOK, NEW r \in Reviewers, desk[r] # FreeDesk
  PROVE  /\ desk[r] \in ReviewCall /\ desk[r].candidate \in Candidates /\ desk[r].row \in CandidateRow
         /\ desk[r].decision \in {"approved", "rejected"} /\ desk[r].sound \in BOOLEAN
         /\ desk[r].pc \in {"read", "checked", "audited"}
BY DEF ReviewTypeOK, ReviewCall

\* A review in progress is not a free desk.
LEMMA CallIsNotFree ==
  ASSUME NEW d \in ReviewCall
  PROVE  d # FreeDesk
<1>1. d.pc # FreeDesk.pc
  BY DEF ReviewCall, FreeDesk
<1> QED BY <1>1

LEMMA ReviewBegins == ReviewInit => ReviewIInv
<1> SUFFICES ASSUME ReviewInit PROVE ReviewIInv
  OBVIOUS
<1>1. ReviewTypeOK
  BY ReviewAssumption DEF ReviewInit, ReviewTypeOK
<1> QED BY <1>1 DEF ReviewInit, ReviewIInv, ProposalsNew

\* A candidate is new, or goes on to a later revision; reviews go on or end.
LEMMA CandidateMoves ==
  ASSUME ReviewIInv, NEW c \in Candidates, NEW row \in CandidateRow,
         candidates' = [candidates EXCEPT ![c] = row], row.revision <= MaxCandidate[row.kind],
         candidates[c] # Unproposed => row.revision > candidates[c].revision,
         proposals' \in [Candidates -> CandidateRow \cup {Unproposed}], ProposalsNew',
         desk' \in [Reviewers -> ReviewCall \cup {FreeDesk}],
         \A r \in Reviewers : desk'[r] = FreeDesk \/ desk'[r] = desk[r],
         UNCHANGED <<material, reviewed>>
  PROVE  ReviewIInv'
<1>1. candidates' \in [Candidates -> CandidateRow \cup {Unproposed}]
      /\ \A x \in Candidates : candidates'[x] = IF x = c THEN row ELSE candidates[x]
  BY DEF ReviewIInv, ReviewTypeOK
<1>2. ReviewTypeOK'
  BY <1>1 DEF ReviewIInv, ReviewTypeOK
<1>3. ASSUME NEW r \in Reviewers, desk'[r] # FreeDesk
      PROVE  /\ Stands(r, desk'[r], candidates'[desk'[r].candidate], reviewed')
             /\ Whole(desk'[r].row, material') => desk'[r].sound
  <2>1. desk'[r] = desk[r] /\ desk[r] # FreeDesk /\ material' = material /\ reviewed' = reviewed
    BY <1>3
  <2>2. /\ Stands(r, desk[r], candidates[desk[r].candidate], reviewed)
        /\ Whole(desk[r].row, material) => desk[r].sound
    BY <2>1 DEF ReviewIInv
  <2>3. desk[r].candidate \in Candidates /\ desk[r].row.revision \in Nat
    BY <2>1, DeskFields, CandidateFields DEF ReviewIInv
  <2>4. CASE desk[r].candidate # c
    BY <1>1, <2>1, <2>2, <2>3, <2>4
  <2>5. CASE desk[r].candidate = c
    <3>1. candidates[c] # Unproposed /\ desk[r].row.revision <= candidates[c].revision
      BY <2>2, <2>5 DEF Stands
    <3>2. candidates[c].revision \in Nat /\ row.revision \in Nat
      BY <3>1, CandidateFields DEF ReviewIInv, ReviewTypeOK
    <3>3. desk[r].row.revision < row.revision /\ row # Unproposed
      BY <2>3, <3>1, <3>2, CandidateFields
    <3>4. Stands(r, desk[r], row, reviewed)
      BY <2>2, <2>3, <3>2, <3>3 DEF Stands
    <3> QED BY <1>1, <2>1, <2>2, <2>5, <3>4
  <2> QED BY <2>4, <2>5
<1> QED BY <1>2, <1>3 DEF ReviewIInv

\* One reviewer takes a step on a row that is still the candidate.
LEMMA DeskMoves ==
  ASSUME ReviewIInv, NEW r \in Reviewers, NEW d \in ReviewCall,
         desk' = [desk EXCEPT ![r] = d], UNCHANGED <<candidates, proposals, material>>,
         reviewed \subseteq reviewed', reviewed' \subseteq ReviewEvent,
         Stands(r, d, candidates[d.candidate], reviewed'), Whole(d.row, material) => d.sound
  PROVE  ReviewIInv'
<1>1. desk' \in [Reviewers -> ReviewCall \cup {FreeDesk}]
      /\ \A q \in Reviewers : desk'[q] = IF q = r THEN d ELSE desk[q]
  BY DEF ReviewIInv, ReviewTypeOK
<1>2. ReviewTypeOK' /\ ProposalsNew'
  BY <1>1 DEF ReviewIInv, ReviewTypeOK, ProposalsNew
<1>3. ASSUME NEW q \in Reviewers, q # r, desk[q] # FreeDesk
      PROVE  Stands(q, desk[q], candidates[desk[q].candidate], reviewed')
  BY <1>3 DEF ReviewIInv, Stands
<1>4. candidates' = candidates /\ material' = material
  OBVIOUS
<1> QED BY <1>1, <1>2, <1>3, <1>4 DEF ReviewIInv

\* A proposed row is of the first revision, and open unless it is a variant not allowed.
LEMMA ProposedFields ==
  ASSUME NEW kind \in Kinds, NEW fit \in BOOLEAN,
         NEW evidence \in SUBSET EvidenceRef
  PROVE  /\ Proposed(kind, fit, evidence) \in CandidateRow
         /\ Proposed(kind, fit, evidence).revision = 1
         /\ Proposed(kind, fit, evidence).revision <= MaxCandidate[Proposed(kind, fit, evidence).kind]
         /\ kind # "variant" => Proposed(kind, fit, evidence).state = "open"
<1> DEFINE row == Proposed(kind, fit, evidence)
<1>1. row \in CandidateRow /\ row.revision = 1 /\ row.kind = kind /\ (kind # "variant" => row.state = "open")
  BY DEF Proposed, CandidateRow
<1>2. MaxCandidate[kind] \in Nat \ {0}
  BY ReviewAssumption
<1> HIDE DEF row
<1>3. row.revision <= MaxCandidate[row.kind]
  BY <1>1, <1>2
<1> QED BY <1>1, <1>3 DEF row

LEMMA ElevateKeeps ==
  ASSUME ReviewIInv, NEW c \in Candidates, NEW fit \in BOOLEAN, NEW used \in SUBSET EvidenceSources,
         Elevate(c, fit, used)
  PROVE  ReviewIInv'
<1> DEFINE evidence_ == {[source |-> s, revision |-> material[s].revision] : s \in used}
           row == Proposed("edge", fit, evidence_)
<1>1. evidence_ \in SUBSET EvidenceRef
  BY DEF ReviewIInv, ReviewTypeOK, EvidenceRef
<1>2. proposals' = [proposals EXCEPT ![c] = row] /\ candidates[c] = Unproposed
      /\ UNCHANGED <<candidates, material, desk, reviewed>>
  BY DEF Elevate
<1> HIDE DEF evidence_
<1>3. row \in CandidateRow /\ row.revision = 1 /\ row.state = "open"
  BY <1>1, ProposedFields DEF Kinds
<1> HIDE DEF row
<1>4. ReviewTypeOK' /\ ProposalsNew'
  BY <1>2, <1>3 DEF ReviewIInv, ReviewTypeOK, ProposalsNew
<1> QED BY <1>2, <1>4 DEF ReviewIInv

LEMMA AppendCandidateKeeps ==
  ASSUME ReviewIInv, NEW c \in Candidates, AppendCandidate(c)
  PROVE  ReviewIInv'
<1>1. /\ proposals[c] \in CandidateRow /\ proposals[c].revision = 1 /\ candidates[c] = Unproposed
  BY DEF AppendCandidate, ReviewIInv, ReviewTypeOK, ProposalsNew
<1>2. /\ candidates' = [candidates EXCEPT ![c] = proposals[c]] /\ proposals' = [proposals EXCEPT ![c] = Unproposed]
      /\ UNCHANGED <<material, desk, reviewed>>
  BY DEF AppendCandidate
<1>3. proposals' \in [Candidates -> CandidateRow \cup {Unproposed}] /\ ProposalsNew'
  BY <1>2 DEF ReviewIInv, ReviewTypeOK, ProposalsNew
<1>4. proposals[c].revision <= MaxCandidate[proposals[c].kind]
  BY <1>1, CandidateFields
<1> QED BY <1>1, <1>2, <1>3, <1>4, CandidateMoves DEF ReviewIInv, ReviewTypeOK

LEMMA DropCandidateKeeps ==
  ASSUME ReviewIInv, NEW c \in Candidates, DropCandidate(c)
  PROVE  ReviewIInv'
BY DEF DropCandidate, ReviewIInv, ReviewTypeOK, ProposalsNew

\* A candidate that comes without a proposal.
LEMMA ProposedKeeps ==
  ASSUME ReviewIInv, NEW c \in Candidates, NEW kind \in Kinds, NEW fit \in BOOLEAN,
         NEW evidence_ \in SUBSET EvidenceRef,
         candidates[c] = Unproposed, proposals[c] = Unproposed,
         candidates' = [candidates EXCEPT ![c] = Proposed(kind, fit, evidence_)],
         UNCHANGED <<proposals, material, desk, reviewed>>
  PROVE  ReviewIInv'
<1> DEFINE row == Proposed(kind, fit, evidence_)
<1>1. row \in CandidateRow /\ row.revision <= MaxCandidate[row.kind]
  BY ProposedFields
<1> HIDE DEF row
<1>2. candidates' = [candidates EXCEPT ![c] = row]
  BY DEF row
<1>3. ProposalsNew'
  BY <1>2 DEF ReviewIInv, ReviewTypeOK, ProposalsNew
<1> QED BY <1>1, <1>2, <1>3, CandidateMoves DEF ReviewIInv, ReviewTypeOK

\* A candidate that moves on, within the bound.
LEMMA RevisedKeeps ==
  ASSUME ReviewIInv, NEW c \in Candidates, candidates[c] # Unproposed, Bounded(candidates[c]),
         NEW row \in CandidateRow, row.revision = candidates[c].revision + 1, row.kind = candidates[c].kind,
         candidates' = [candidates EXCEPT ![c] = row], UNCHANGED <<proposals, material, desk, reviewed>>
  PROVE  ReviewIInv'
<1>1. candidates[c] \in CandidateRow
  BY DEF ReviewIInv, ReviewTypeOK
<1>2. candidates[c].revision \in Nat /\ MaxCandidate[candidates[c].kind] \in Nat
  BY <1>1, CandidateFields
<1>3. row.revision <= MaxCandidate[row.kind] /\ row.revision > candidates[c].revision
  BY <1>2 DEF Bounded
<1>4. ProposalsNew'
  BY DEF ReviewIInv, ReviewTypeOK, ProposalsNew
<1> QED BY <1>3, <1>4, CandidateMoves DEF ReviewIInv, ReviewTypeOK

LEMMA ReassessKeeps ==
  ASSUME ReviewIInv, NEW c \in Candidates, NEW fit \in BOOLEAN, Reassess(c, fit)
  PROVE  ReviewIInv' /\ candidates'[c].state = candidates[c].state
<1> DEFINE row == candidates[c]
           next == NextRow(row, row.state, row.author, row.reviewer, fit)
<1>1. row \in CandidateRow /\ row # Unproposed /\ Bounded(row)
  BY DEF Reassess, ReviewIInv, ReviewTypeOK
<1>2. /\ next \in CandidateRow /\ next.state = row.state
      /\ next.revision = row.revision + 1 /\ next.kind = row.kind
  <2>1. row.revision + 1 \in Nat \ {0}
    BY <1>1, CandidateFields
  <2> QED BY <1>1, <2>1 DEF NextRow, CandidateRow
<1>3. candidates' = [candidates EXCEPT ![c] = next] /\ UNCHANGED <<proposals, material, desk, reviewed>>
  BY DEF Reassess
<1> HIDE DEF next
<1>4. candidates'[c] = next
  BY <1>3 DEF ReviewIInv, ReviewTypeOK
<1> QED BY <1>1, <1>2, <1>3, <1>4, RevisedKeeps

LEMMA EditKeeps ==
  ASSUME ReviewIInv, NEW c \in Candidates, NEW a \in Reviewers \cup {Machine}, NEW fit \in BOOLEAN, Edit(c, a, fit)
  PROVE  ReviewIInv' /\ candidates'[c].state = "open"
<1> DEFINE row == candidates[c]
           next == NextRow(row, "open", a, NoReviewer, fit)
<1>1. row \in CandidateRow /\ row # Unproposed /\ Bounded(row)
  BY DEF Edit, ReviewIInv, ReviewTypeOK
<1>2. next \in CandidateRow /\ next.state = "open" /\ next.revision = row.revision + 1 /\ next.kind = row.kind
  <2>1. row.revision + 1 \in Nat \ {0}
    BY <1>1, CandidateFields
  <2> QED BY <1>1, <2>1 DEF NextRow, CandidateRow
<1>3. candidates' = [candidates EXCEPT ![c] = next] /\ UNCHANGED <<proposals, material, desk, reviewed>>
  BY DEF Edit
<1> HIDE DEF next
<1>4. candidates'[c] = next
  BY <1>3 DEF ReviewIInv, ReviewTypeOK
<1> QED BY <1>1, <1>2, <1>3, <1>4, RevisedKeeps

\* Sources change, and each review sees whether its evidence is whole now.
LEMMA ChangedKeeps ==
  ASSUME ReviewIInv, NEW changed \in [EvidenceSources -> [revision: 0 .. MaxMaterial, usable: BOOLEAN]], Changed(changed)
  PROVE  ReviewIInv'
<1>1. material' = changed /\ UNCHANGED <<candidates, proposals, reviewed>>
  BY DEF Changed
<1>2. ASSUME NEW r \in Reviewers, desk[r] # FreeDesk
      PROVE  /\ desk'[r] \in ReviewCall /\ desk'[r].candidate = desk[r].candidate
             /\ Stands(r, desk'[r], candidates[desk[r].candidate], reviewed)
             /\ Whole(desk'[r].row, changed) => desk'[r].sound
  <2>1. desk[r] \in ReviewCall
    BY <1>2, DeskFields DEF ReviewIInv
  <2> DEFINE seen == desk[r].sound \/ Whole(desk[r].row, changed)
  <2>2. desk'[r] = [desk[r] EXCEPT !.sound = seen]
    BY <1>2 DEF Changed
  <2>3. seen \in BOOLEAN /\ (desk[r].sound => seen) /\ (Whole(desk[r].row, changed) => seen)
    OBVIOUS
  <2> HIDE DEF seen
  <2>4. /\ desk'[r] \in ReviewCall /\ desk'[r].candidate = desk[r].candidate /\ desk'[r].row = desk[r].row
        /\ desk'[r].pc = desk[r].pc /\ desk'[r].decision = desk[r].decision /\ desk'[r].sound = seen
    BY <2>1, <2>2, <2>3 DEF ReviewCall
  <2>5. Stands(r, desk[r], candidates[desk[r].candidate], reviewed)
    BY <1>2 DEF ReviewIInv
  <2>6. Stands(r, desk'[r], candidates[desk[r].candidate], reviewed)
    BY <2>3, <2>4, <2>5 DEF Stands
  <2> QED BY <2>3, <2>4, <2>6
<1>3. \A r \in Reviewers : desk[r] = FreeDesk => desk'[r] = FreeDesk
  BY DEF Changed
<1>4. desk' \in [Reviewers -> ReviewCall \cup {FreeDesk}]
  <2>1. desk' = [r \in Reviewers |-> desk'[r]]
    BY DEF Changed
  <2> QED BY <1>2, <1>3, <2>1
<1>5. ReviewTypeOK' /\ ProposalsNew'
  BY <1>1, <1>4 DEF ReviewIInv, ReviewTypeOK, ProposalsNew
<1> QED BY <1>1, <1>2, <1>3, <1>5 DEF ReviewIInv

LEMMA MaterialKeeps ==
  ASSUME ReviewIInv, NEW s \in EvidenceSources, ReviseMaterial(s) \/ TurnMaterial(s)
  PROVE  ReviewIInv'
<1>1. material \in [EvidenceSources -> [revision: 0 .. MaxMaterial, usable: BOOLEAN]]
  BY DEF ReviewIInv, ReviewTypeOK
<1>2. PICK changed : Changed(changed) /\ changed \in [EvidenceSources -> [revision: 0 .. MaxMaterial, usable: BOOLEAN]]
  <2>1. CASE ReviseMaterial(s)
    <3>1. material[s].revision + 1 \in 0 .. MaxMaterial
      BY <1>1, <2>1, ReviewAssumption DEF ReviseMaterial
    <3>2. [material EXCEPT ![s].revision = @ + 1] \in [EvidenceSources -> [revision: 0 .. MaxMaterial, usable: BOOLEAN]]
      BY <1>1, <3>1
    <3> QED BY <2>1, <3>2 DEF ReviseMaterial
  <2>2. CASE TurnMaterial(s)
    <3>1. [material EXCEPT ![s].usable = ~@] \in [EvidenceSources -> [revision: 0 .. MaxMaterial, usable: BOOLEAN]]
      BY <1>1
    <3> QED BY <2>2, <3>1 DEF TurnMaterial
  <2> QED BY <2>1, <2>2
<1> QED BY <1>2, ChangedKeeps

LEMMA ReadKeeps ==
  ASSUME ReviewIInv, NEW r \in Reviewers, NEW c \in Candidates, NEW decision \in {"approved", "rejected"},
         Read(r, c, decision)
  PROVE  ReviewIInv'
<1> DEFINE whole == Whole(candidates[c], material)
           d == [pc |-> "read", candidate |-> c, row |-> candidates[c], decision |-> decision, sound |-> whole]
<1>1. /\ candidates[c] # Unproposed /\ desk' = [desk EXCEPT ![r] = d]
      /\ UNCHANGED <<candidates, proposals, material, reviewed>>
  BY DEF Read
<1>2. candidates[c] \in CandidateRow /\ candidates[c].revision \in Nat
  BY <1>1, CandidateFields DEF ReviewIInv, ReviewTypeOK
<1>3. whole \in BOOLEAN
  BY DEF Whole
<1> HIDE DEF whole
<1>4. d \in ReviewCall
  BY <1>2, <1>3 DEF ReviewCall
<1>5. d.pc = "read" /\ d.candidate = c /\ d.row = candidates[c] /\ d.sound = whole
  OBVIOUS
<1> HIDE DEF d
<1>6. Stands(r, d, candidates[d.candidate], reviewed')
  BY <1>1, <1>2, <1>5 DEF Stands
<1>7. Whole(d.row, material) => d.sound
  BY <1>5 DEF whole
<1>8. reviewed' \subseteq ReviewEvent
  BY <1>1 DEF ReviewIInv, ReviewTypeOK
<1> QED BY <1>1, <1>4, <1>6, <1>7, <1>8, DeskMoves

LEMMA CheckCandidateKeeps ==
  ASSUME ReviewIInv, NEW r \in Reviewers, CheckCandidate(r)
  PROVE  ReviewIInv'
<1> DEFINE d == [desk[r] EXCEPT !.pc = "checked"]
<1>1. desk[r].pc = "read" /\ desk[r] # FreeDesk
  BY DEF CheckCandidate, FreeDesk
<1>2. desk[r] \in ReviewCall /\ Stands(r, desk[r], candidates[desk[r].candidate], reviewed)
  BY <1>1, DeskFields DEF ReviewIInv
<1>3. /\ d \in ReviewCall /\ d.pc = "checked" /\ d.candidate = desk[r].candidate /\ d.row = desk[r].row
      /\ d.decision = desk[r].decision /\ d.sound = desk[r].sound
  BY <1>2 DEF ReviewCall
<1>4. desk' = [desk EXCEPT ![r] = d]
  BY DEF CheckCandidate, ReviewIInv, ReviewTypeOK
<1> HIDE DEF d
<1>5. /\ d.row.author # r /\ GraphReviewable(d.row, d.decision) /\ StillReviewable(d.row)
      /\ Whole(d.row, material) /\ UNCHANGED <<candidates, proposals, material, reviewed>>
  BY <1>3 DEF CheckCandidate
<1>6. d.sound
  BY <1>1, <1>3, <1>5 DEF ReviewIInv
<1>7. Stands(r, d, candidates[d.candidate], reviewed')
  BY <1>2, <1>3, <1>5, <1>6 DEF Stands
<1>8. reviewed' \subseteq ReviewEvent
  BY <1>5 DEF ReviewIInv, ReviewTypeOK
<1> QED BY <1>3, <1>4, <1>5, <1>6, <1>7, <1>8, DeskMoves

\* The transaction finds the row that was read, since its revision is the same.
LEMMA AppendReviewKeeps ==
  ASSUME ReviewIInv, NEW r \in Reviewers, AppendReview(r)
  PROVE  ReviewIInv'
<1> DEFINE c == desk[r].candidate
           d == [desk[r] EXCEPT !.pc = "audited", !.row = candidates[c]]
           event == [candidate |-> c, revision |-> candidates[c].revision + 1, by |-> r, decision |-> desk[r].decision]
<1>1. desk[r].pc = "checked" /\ desk[r] # FreeDesk
  BY DEF AppendReview, FreeDesk
<1>2. /\ desk[r] \in ReviewCall /\ c \in Candidates /\ Stands(r, desk[r], candidates[c], reviewed)
      /\ desk[r].decision \in {"approved", "rejected"}
  BY <1>1, DeskFields DEF ReviewIInv
<1>3. candidates[c].revision = desk[r].row.revision /\ Bounded(candidates[c])
  BY DEF AppendReview
<1>4. candidates[c] = desk[r].row
  BY <1>2, <1>3 DEF Stands
<1>5. /\ candidates[c] \in CandidateRow /\ candidates[c].revision \in Nat
  BY <1>2, <1>4, CandidateFields DEF ReviewCall
<1>6. /\ d \in ReviewCall /\ d.pc = "audited" /\ d.candidate = c /\ d.row = candidates[c]
      /\ d.decision = desk[r].decision /\ d.sound = desk[r].sound
  BY <1>2, <1>5 DEF ReviewCall
<1>7. event \in ReviewEvent
  BY <1>2, <1>5 DEF ReviewEvent
<1>8. desk' = [desk EXCEPT ![r] = d] /\ reviewed' = reviewed \cup {event} /\ UNCHANGED <<candidates, proposals, material>>
  BY DEF AppendReview, ReviewIInv, ReviewTypeOK
<1>9. event = [candidate |-> d.candidate, revision |-> d.row.revision + 1, by |-> r, decision |-> d.decision]
  BY <1>6
<1> HIDE DEF event, d
<1>10. Stands(r, d, candidates[d.candidate], reviewed')
  BY <1>1, <1>2, <1>3, <1>4, <1>5, <1>6, <1>8, <1>9 DEF Stands
<1>11. reviewed \subseteq reviewed' /\ reviewed' \subseteq ReviewEvent
  BY <1>7, <1>8 DEF ReviewIInv, ReviewTypeOK
<1>12. d.sound
  BY <1>1, <1>2, <1>6 DEF Stands
<1> QED BY <1>6, <1>8, <1>10, <1>11, <1>12, DeskMoves

\* A decision: the candidate is the row that was checked, and the desk is cleared.
LEMMA EnactKeeps ==
  ASSUME ReviewIInv, NEW r \in Reviewers, Enact(r)
  PROVE  LET c == desk[r].candidate IN
         /\ ReviewIInv' /\ c \in Candidates /\ candidates' = [candidates EXCEPT ![c] = DecidedRow(r)]
         /\ desk[r] # FreeDesk /\ desk[r].sound
         /\ candidates[c].author # r /\ (desk[r].decision # candidates[c].state => candidates[c].state = "open")
         /\ DecidedRow(r).reviewer = r /\ DecidedRow(r).state = desk[r].decision
         /\ [candidate |-> c, revision |-> DecidedRow(r).revision, by |-> r, decision |-> desk[r].decision] \in reviewed
<1> DEFINE c == desk[r].candidate
           row == desk[r].row
<1>1. desk[r].pc = "audited" /\ desk[r] # FreeDesk
  BY DEF Enact, FreeDesk
<1>2. /\ c \in Candidates /\ row \in CandidateRow /\ desk[r].decision \in {"approved", "rejected"}
      /\ Stands(r, desk[r], candidates[c], reviewed)
  BY <1>1, DeskFields DEF ReviewIInv
<1>3. candidates[c] = row /\ row # Unproposed
  BY <1>2 DEF Enact, Stands
<1>4. /\ desk[r].sound /\ row.author # r /\ Bounded(row) /\ row.state = "open"
      /\ [candidate |-> c, revision |-> row.revision + 1, by |-> r, decision |-> desk[r].decision] \in reviewed
  BY <1>1, <1>2 DEF Stands, GraphReviewable, StillReviewable
<1>5. /\ DecidedRow(r) \in CandidateRow /\ DecidedRow(r).revision = row.revision + 1
      /\ DecidedRow(r).kind = row.kind /\ DecidedRow(r).reviewer = r /\ DecidedRow(r).state = desk[r].decision
  <2>1. row.revision + 1 \in Nat \ {0}
    BY <1>2, CandidateFields
  <2> QED BY <1>2, <2>1 DEF DecidedRow, NextRow, CandidateRow
<1>6. candidates' = [candidates EXCEPT ![c] = DecidedRow(r)] /\ UNCHANGED <<proposals, material, reviewed>>
  BY DEF Enact
<1>7. desk' \in [Reviewers -> ReviewCall \cup {FreeDesk}] /\ \A q \in Reviewers : desk'[q] = FreeDesk \/ desk'[q] = desk[q]
  BY DEF Enact, ReviewIInv, ReviewTypeOK
<1>8. row.revision \in Nat /\ MaxCandidate[row.kind] \in Nat
  BY <1>2, CandidateFields
<1>9. DecidedRow(r).revision <= MaxCandidate[DecidedRow(r).kind] /\ DecidedRow(r).revision > candidates[c].revision
  BY <1>3, <1>4, <1>5, <1>8 DEF Bounded
<1>10. ProposalsNew' /\ proposals' \in [Candidates -> CandidateRow \cup {Unproposed}]
  BY <1>2, <1>3, <1>6 DEF ReviewIInv, ReviewTypeOK, ProposalsNew
<1>11. ReviewIInv'
  BY <1>2, <1>5, <1>6, <1>7, <1>9, <1>10, CandidateMoves
<1> QED BY <1>1, <1>2, <1>3, <1>4, <1>5, <1>6, <1>11

LEMMA LeaveKeeps ==
  ASSUME ReviewIInv, NEW r \in Reviewers, Leave(r)
  PROVE  ReviewIInv'
<1>1. desk' \in [Reviewers -> ReviewCall \cup {FreeDesk}] /\ \A q \in Reviewers : desk'[q] = FreeDesk \/ desk'[q] = desk[q]
  BY DEF Leave, ReviewIInv, ReviewTypeOK
<1>2. UNCHANGED <<candidates, proposals, material, reviewed>>
  BY DEF Leave
<1>3. ReviewTypeOK' /\ ProposalsNew'
  BY <1>1, <1>2 DEF ReviewIInv, ReviewTypeOK, ProposalsNew
<1> QED BY <1>1, <1>2, <1>3 DEF ReviewIInv

\* What a step may do to a candidate that is there.
Decisions ==
  \A c \in Candidates :
    LET row == candidates'[c] IN
    candidates[c] # Unproposed /\ row.state # "open" /\ row.state # candidates[c].state =>
      /\ candidates[c].state = "open"
      /\ row.reviewer # candidates[c].author
      /\ [candidate |-> c, revision |-> row.revision, by |-> row.reviewer, decision |-> row.state] \in reviewed
      /\ \E r \in Reviewers : desk[r] # FreeDesk /\ desk[r].candidate = c /\ r = row.reviewer /\ desk[r].sound

\* A step that changes at most the candidate c, which was not there or is left as
\* it was decided or open.
LEMMA NoDecision ==
  ASSUME ReviewIInv, NEW c \in Candidates, NEW row, candidates' = [candidates EXCEPT ![c] = row],
         candidates[c] = Unproposed \/ candidates'[c].state \in {"open", candidates[c].state}
  PROVE  Decisions
BY DEF Decisions, ReviewIInv, ReviewTypeOK

LEMMA ReviewStep ==
  ASSUME ReviewIInv, ReviewNext
  PROVE  ReviewIInv' /\ Decisions
<1> USE DEF Kinds
<1>1. ASSUME UNCHANGED candidates PROVE Decisions
  BY <1>1 DEF Decisions
<1>2. ASSUME NEW c \in Candidates, NEW fit \in BOOLEAN, NEW used \in SUBSET EvidenceSources, Elevate(c, fit, used)
      PROVE  ReviewIInv' /\ Decisions
  BY <1>1, <1>2, ElevateKeeps DEF Elevate
<1>3. ASSUME NEW c \in Candidates, AppendCandidate(c) PROVE ReviewIInv' /\ Decisions
  <2>1. candidates[c] = Unproposed /\ candidates' = [candidates EXCEPT ![c] = proposals[c]]
    BY <1>3 DEF AppendCandidate, ReviewIInv, ProposalsNew
  <2> QED BY <1>3, <2>1, AppendCandidateKeeps, NoDecision
<1>4. ASSUME NEW c \in Candidates, DropCandidate(c) PROVE ReviewIInv' /\ Decisions
  BY <1>1, <1>4, DropCandidateKeeps DEF DropCandidate
<1>5. ASSUME NEW c \in Candidates, NEW fit \in BOOLEAN, Translate(c, fit) PROVE ReviewIInv' /\ Decisions
  <2>1. {} \in SUBSET EvidenceRef
    OBVIOUS
  <2>2. /\ candidates[c] = Unproposed /\ proposals[c] = Unproposed
        /\ candidates' = [candidates EXCEPT ![c] = Proposed("variant", fit, {})]
        /\ UNCHANGED <<proposals, material, desk, reviewed>>
    BY <1>5 DEF Translate
  <2> QED BY <2>1, <2>2, ProposedKeeps, NoDecision
<1>6. ASSUME NEW c \in Candidates, NEW kind \in {"edge", "node"}, NEW fit \in BOOLEAN,
             NEW own \in EvidenceRef, NEW target \in EvidenceRef, Extract(c, kind, fit, own, target)
      PROVE  ReviewIInv' /\ Decisions
  <2> DEFINE known == {own, target}
  <2>1. known \in SUBSET EvidenceRef
    OBVIOUS
  <2>2. /\ candidates[c] = Unproposed /\ proposals[c] = Unproposed
        /\ candidates' = [candidates EXCEPT ![c] = Proposed(kind, fit, known)]
        /\ UNCHANGED <<proposals, material, desk, reviewed>>
    BY <1>6 DEF Extract
  <2> HIDE DEF known
  <2> QED BY <2>1, <2>2, ProposedKeeps, NoDecision
<1>7. ASSUME NEW c \in Candidates, NEW fit \in BOOLEAN, Reassess(c, fit) PROVE ReviewIInv' /\ Decisions
  BY <1>7, ReassessKeeps, NoDecision DEF Reassess
<1>8. ASSUME NEW c \in Candidates, NEW a \in Reviewers \cup {Machine}, NEW fit \in BOOLEAN, Edit(c, a, fit)
      PROVE  ReviewIInv' /\ Decisions
  BY <1>8, EditKeeps, NoDecision DEF Edit
<1>9. ASSUME NEW s \in EvidenceSources, ReviseMaterial(s) \/ TurnMaterial(s) PROVE ReviewIInv' /\ Decisions
  BY <1>1, <1>9, MaterialKeeps DEF ReviseMaterial, TurnMaterial, Changed
<1>10. ASSUME NEW r \in Reviewers, NEW c \in Candidates, NEW decision \in {"approved", "rejected"}, Read(r, c, decision)
       PROVE  ReviewIInv' /\ Decisions
  BY <1>1, <1>10, ReadKeeps DEF Read
<1>11. ASSUME NEW r \in Reviewers, CheckCandidate(r) PROVE ReviewIInv' /\ Decisions
  BY <1>1, <1>11, CheckCandidateKeeps DEF CheckCandidate
<1>12. ASSUME NEW r \in Reviewers, AppendReview(r) PROVE ReviewIInv' /\ Decisions
  BY <1>1, <1>12, AppendReviewKeeps DEF AppendReview
<1>13. ASSUME NEW r \in Reviewers, Enact(r) PROVE ReviewIInv' /\ Decisions
  <2> DEFINE c == desk[r].candidate
  <2>1. /\ ReviewIInv' /\ c \in Candidates /\ candidates' = [candidates EXCEPT ![c] = DecidedRow(r)]
        /\ desk[r] # FreeDesk /\ desk[r].sound
        /\ candidates[c].author # r /\ (desk[r].decision # candidates[c].state => candidates[c].state = "open")
        /\ DecidedRow(r).reviewer = r /\ DecidedRow(r).state = desk[r].decision
        /\ [candidate |-> c, revision |-> DecidedRow(r).revision, by |-> r, decision |-> desk[r].decision] \in reviewed
    BY <1>13, EnactKeeps
  <2>2. \A x \in Candidates : candidates'[x] = IF x = c THEN DecidedRow(r) ELSE candidates[x]
    BY <2>1 DEF ReviewIInv, ReviewTypeOK
  <2> QED BY <2>1, <2>2 DEF Decisions
<1>14. ASSUME NEW r \in Reviewers, Leave(r) PROVE ReviewIInv' /\ Decisions
  BY <1>1, <1>14, LeaveKeeps DEF Leave
<1> QED BY <1>2, <1>3, <1>4, <1>5, <1>6, <1>7, <1>8, <1>9, <1>10, <1>11, <1>12, <1>13, <1>14 DEF ReviewNext

LEMMA ReviewSteps ==
  ASSUME ReviewIInv, [ReviewNext]_reviewVars
  PROVE  ReviewIInv' /\ [Decisions]_reviewVars
<1>1. CASE ReviewNext
  BY <1>1, ReviewStep
<1>2. CASE UNCHANGED reviewVars
  BY <1>2 DEF reviewVars, ReviewIInv, ReviewTypeOK, ProposalsNew
<1> QED BY <1>1, <1>2

LEMMA ReviewInvariant == ReviewSpec => []ReviewIInv
BY ReviewBegins, ReviewSteps, PTL DEF ReviewSpec

\* Candidates, proposals, sources, reviews under way and audit events keep their
\* shapes (elevation, extraction and translation, and the review services).
THEOREM ReviewTypeCorrect == ReviewSpec => []ReviewTypeOK
<1>1. ReviewIInv => ReviewTypeOK
  BY DEF ReviewIInv
<1> QED BY <1>1, ReviewInvariant, PTL

\* A decision is on open work of another, with evidence that was seen whole, and
\* the audit sink has it, however many reviewers, edits and changes of the sources
\* interleave (review of the candidate edge, node and locale review services).
THEOREM ReviewsStandAlways == ReviewSpec => ReviewsStand
<1>1. ReviewIInv /\ [ReviewNext]_reviewVars => [Decisions]_reviewVars
  BY ReviewSteps
<1> QED BY <1>1, ReviewInvariant, PTL DEF ReviewSpec, ReviewsStand, Decisions
=============================================================================
