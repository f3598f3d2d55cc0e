-------------------------- MODULE RegistryHistory --------------------------
(***************************************************************************)
(* One user's registry as it grows: assertions are recorded one by one,    *)
(* and a dry run puts a submission in an overlay on top of them.  Nothing  *)
(* here runs concurrently (ReviewQueue does that); the module asks what    *)
(* the answers are for every history within the bounds.                    *)
(***************************************************************************)
EXTENDS Consistency

CONSTANTS Contents,     \* the documents that may be submitted
          MaxStored,    \* bound on recorded assertions
          MaxPending    \* bound on documents in the dry run

ASSUME HistoryAssumption ==
    /\ MaxStored \in Nat /\ MaxPending \in Nat
    /\ \A d \in Contents : IsDocument(d)

VARIABLES stored,       \* the registry: assertion number -> document
          pending       \* the overlay of the dry run
vars == <<stored, pending>>

Count(f) == Cardinality(DOMAIN f)
Minted == Count(stored) + Count(pending) + 1

Extend(f, n, d) == [m \in DOMAIN f \cup {n} |-> IF m = n THEN d ELSE f[m]]

Init == stored = Empty /\ pending = Empty

(* InMemoryRegistry.append / FirestoreRegistry.append under a fresh id *)
Append(d) ==
    /\ pending = Empty
    /\ Count(stored) < MaxStored
    /\ stored' = Extend(stored, Minted, d)
    /\ UNCHANGED pending

(* DryRunOverlay.append: the write goes to the overlay only *)
AppendToOverlay(d) ==
    /\ Count(pending) < MaxPending
    /\ pending' = Extend(pending, Minted, d)
    /\ UNCHANGED stored

Next == \E d \in Contents : Append(d) \/ AppendToOverlay(d)
Spec == Init /\ [][Next]_vars

TypeOK ==
    /\ stored \in [DOMAIN stored -> Contents]
    /\ pending \in [DOMAIN pending -> Contents]
    /\ DOMAIN stored = 1 .. Count(stored)
    /\ DOMAIN pending = Count(stored) + 1 .. Count(stored) + Count(pending)

-----------------------------------------------------------------------------
DryRun   == Provider(stored, pending)
(* the real run of the same submission: everything is recorded *)
Recorded == Provider([n \in DOMAIN stored \cup DOMAIN pending |->
                         IF n \in DOMAIN stored THEN stored[n] ELSE pending[n]],
                     Empty)
Known == Recorded.base

SingleDocumentKinds == {"INTERNAL_INCONSISTENCY", "PO_NOT_FOUND"}
(* A document is never evidence about itself: every finding that compares   *)
(* it with other documents rests on at least one of them and not on it,     *)
(* although evaluation reads a registry the document is already in.         *)
NeverOwnEvidence ==
    \A n \in DOMAIN Known :
        \A f \in Evaluate(Recorded, n, TRUE) :
            f.kind \notin SingleDocumentKinds => f.evidence # {} /\ n \notin f.evidence

(* PO_NOT_FOUND is reported exactly while no purchase order with the cited  *)
(* number is recorded, whichever of the two lookup keys answers.            *)
OrderReportedMissingIsMissing ==
    \A n \in DOMAIN Known :
        (\E f \in Evaluate(Recorded, n, FALSE) : f.kind = "PO_NOT_FOUND")
            <=> /\ Known[n].doc_type = "invoice" /\ Present(Known[n].po)
                /\ ~\E m \in DOMAIN Known : /\ Known[m].doc_type = "purchase_order"
                                            /\ Known[m].po = Known[n].po

(* Whichever of two documents is evaluated, the duplicate is found, and     *)
(* with the same action: the stored keys and the query keys meet from both  *)
(* sides.  Holds for documents whose total was read, not filled in later.   *)
DuplicatesSeenFromBothSides ==
    \A m, n \in DOMAIN Known :
        m # n /\ StatedTotal(Known[m]) /\ StatedTotal(Known[n]) =>
            \A action \in NeedsCase :
                Finding("DUPLICATE", {m}, action) \in CheckDuplicates(Recorded, n)
                    <=> Finding("DUPLICATE", {n}, action) \in CheckDuplicates(Recorded, m)

(* A document is said to depart from its vendor's tax id, tax rate or       *)
(* number format only against at least MinBaseline other documents of that  *)
(* vendor that show one (of the oldest, as many as are read), which all     *)
(* agree, and which it differs from.  Of these three findings only:         *)
(* MISSING_TAX_ID has no such baseline (MissingTaxIdIsEarned below).        *)
Deviations == {"TAX_ID_CHANGED", "TAX_RATE_DEVIATION", "NUMBER_FORMAT_DEVIATION"}
Attribute(kind, d) == CASE kind = "TAX_ID_CHANGED" -> d.tax_id
                        [] kind = "TAX_RATE_DEVIATION" -> Rate(d)
                        [] OTHER -> Signature(d.num)
Supplies(kind, d) == CASE kind = "TAX_ID_CHANGED" -> Present(d.tax_id)
                       [] kind = "TAX_RATE_DEVIATION" -> HasRate(d)
                       [] OTHER -> d.doc_type = "invoice" /\ Present(d.num)
(* the other documents a finding of that kind about n is held against *)
Supplying(kind, n) ==
    LET vendors == {m \in DOMAIN Known : Known[m].vendor = Known[n].vendor}
    IN  {m \in Oldest(vendors, HistoryLimit) \ {n} : Supplies(kind, Known[m])}
Raised(kind, n) == \E f \in Evaluate(Recorded, n, FALSE) : f.kind = kind
BaselinesAreEarned ==
    \A n \in DOMAIN Known : \A kind \in Deviations :
        Raised(kind, n) =>
            /\ Cardinality(Supplying(kind, n)) >= MinBaseline
            /\ \E v \in {Attribute(kind, Known[m]) : m \in Supplying(kind, n)} :
                  /\ v # Attribute(kind, Known[n])
                  /\ \A m \in Supplying(kind, n) : Attribute(kind, Known[m]) = v

-----------------------------------------------------------------------------
(* What comments of the code claim and the code does not do. *)

(* consistency.py:75 "A baseline needs enough observations to BE a          *)
(* baseline. Below this we say nothing rather than call a vendor's second   *)
(* invoice anomalous": a missing tax id is reported only of a vendor that   *)
(* gave one on MinBaseline documents.  One is enough.                       *)
MissingTaxIdIsEarned ==
    \A n \in DOMAIN Known :
        Raised("MISSING_TAX_ID", n) =>
            Cardinality(Supplying("TAX_ID_CHANGED", n)) >= MinBaseline

(* provider.py:71 "Identical answers, nothing persisted, same code path on  *)
(* both backends": every finding of a dry run is that of the real run.      *)
DryRunIdentical ==
    \A n \in DOMAIN pending : Evaluate(DryRun, n, TRUE) = Evaluate(Recorded, n, TRUE)

(* store.py:23 "The check always runs. The finding is always raised": once  *)
(* a tax id has been flagged as changed, a later document of that vendor    *)
(* with the same changed tax id is flagged too.                             *)
UpTo(n) == Provider([m \in 1 .. n |-> stored[m]], Empty)
ChangedTaxId(n) == \E f \in CheckTaxId(UpTo(n), n) : f.kind = "TAX_ID_CHANGED"
ChangeKeepsBeingRaised ==
    \A m, n \in DOMAIN stored :
        m < n /\ ChangedTaxId(m) /\ stored[n] = stored[m] => ChangedTaxId(n)
=============================================================================
