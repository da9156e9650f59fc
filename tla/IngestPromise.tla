--------------------------- MODULE IngestPromise ---------------------------
(***************************************************************************)
(* What the ingest write plane promises of pages, receipts and evidence,   *)
(* without runs, reservations, locks, recoveries or reapers: a revision of *)
(* a unit publishes one page, with both checkpoints; a receipt publishes   *)
(* once, and never once it was ended; what is said of a receipt is true    *)
(* and final; evidence is erased only while it is retained, and never      *)
(* comes back.                                                             *)
(***************************************************************************)
EXTENDS Naturals

CONSTANTS Receipts, Hashes, Malformed, Empty, Units, Correlations

VARIABLES
  pages,      \* the page each receipt was issued for
  revision,   \* of each unit
  total,      \* of the run
  published,  \* the pages that were published, and with which revision
  ended,      \* receipts that may publish no more
  retained,   \* evidence kept without a source
  said,       \* what the store was told of each receipt
  bytes       \* the evidence itself

receipts == <<published, ended, said>>
checkpoints == <<revision, total>>
evidence == <<retained, bytes>>
vars == <<pages, checkpoints, receipts, evidence>>

Init ==
  /\ pages \in [Receipts -> [hash: Hashes, unit: Units, corr: Correlations]]
  /\ revision = [u \in Units |-> 0] /\ total = 0
  /\ published = {} /\ ended = {} /\ retained = {}
  /\ said = [r \in Receipts |-> "nothing"]
  /\ bytes = [h \in Hashes |-> "absent"]

-----------------------------------------------------------------------------
Hash(r) == pages[r].hash

\* The page of a receipt was published in its run, by this receipt or another.
\* An empty page leaves no trace of its run: it was published in this one or another.
Published(r) ==
  \E p \in published :
    p.hash = Hash(r) /\ (Hash(r) \in Empty \/ pages[p.by].corr = pages[r].corr)

\* Evidence nobody has to look for.
Accounted(h) == h \in retained \/ bytes[h] = "removed" \/ \E p \in published : p.hash = h

\* The checkpoint of a unit and that of the run move on, together and by one.
Advance(u) ==
  /\ revision' = [revision EXCEPT ![u] = @ + 1]
  /\ total' = total + 1

NothingFetched(u) == Advance(u) /\ UNCHANGED <<pages, receipts, evidence>>

PublishPage(r) ==
  /\ r \notin ended /\ Hash(r) \notin Malformed
  /\ \A p \in published : p.by # r
  /\ Advance(pages[r].unit)
  /\ published' = published \cup {[hash |-> Hash(r), unit |-> pages[r].unit,
                                   rev |-> revision[pages[r].unit] + 1, by |-> r]}
  /\ UNCHANGED <<pages, ended, said, evidence>>

QuarantinePage(r) ==
  /\ r \notin ended /\ Hash(r) \in Malformed
  /\ Advance(pages[r].unit)
  /\ ended' = ended \cup {r}
  /\ retained' = retained \cup {Hash(r)}
  /\ UNCHANGED <<pages, published, said, bytes>>

\* Recovery gives a receipt up, and keeps its evidence.  It gives up that of an empty
\* page that was published, too.
EndReceipt(r) ==
  /\ Hash(r) \in Empty \/ ~Published(r)
  /\ ended' = ended \cup {r}
  /\ retained' = retained \cup {Hash(r)}
  /\ UNCHANGED <<pages, checkpoints, published, said, bytes>>

Say(r, what) ==
  /\ said[r] = "nothing"
  /\ what = "committed" => Published(r)
  /\ what = "quarantined" => Accounted(Hash(r))
  /\ said' = [said EXCEPT ![r] = what]
  /\ UNCHANGED <<pages, checkpoints, published, ended, evidence>>

Store(h) ==
  /\ bytes[h] # "removed"
  /\ bytes' = [bytes EXCEPT ![h] = "present"]
  /\ UNCHANGED <<pages, checkpoints, receipts, retained>>

Retain(h) ==
  /\ retained' = retained \cup {h}
  /\ UNCHANGED <<pages, checkpoints, receipts, bytes>>

Erase(h) ==
  /\ h \in retained
  /\ bytes' = [bytes EXCEPT ![h] = "removed"]
  /\ UNCHANGED <<pages, checkpoints, receipts, retained>>

\* Evidence is no more looked after when it is gone and no source was made of it.
Release(h) ==
  /\ bytes[h] = "removed"
  /\ h \in Empty \/ \A p \in published : p.hash # h
  /\ retained' = retained \ {h}
  /\ UNCHANGED <<pages, checkpoints, receipts, bytes>>

Next ==
  \/ \E u \in Units : NothingFetched(u)
  \/ \E r \in Receipts :
       \/ PublishPage(r) \/ QuarantinePage(r) \/ EndReceipt(r)
       \/ \E what \in {"committed", "quarantined"} : Say(r, what)
  \/ \E h \in Hashes : Store(h) \/ Retain(h) \/ Erase(h) \/ Release(h)

Spec == Init /\ [][Next]_vars
=============================================================================
