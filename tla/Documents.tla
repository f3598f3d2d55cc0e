----------------------------- MODULE Documents -----------------------------
(***************************************************************************)
(* A document as the duplicate engine and the registry see it: the         *)
(* canonical values of its fields, with None for a field the extraction    *)
(* did not find, and the identity keys under which it can be found.        *)
(*                                                                         *)
(* The canonical values are opaque except where the code looks inside      *)
(* them: amounts are integers (cents), dates are day numbers, and an       *)
(* invoice or PO number is a pair <<shape, serial>>, the shape being what  *)
(* registry/consistency.py calls the number's signature.                   *)
(***************************************************************************)
EXTENDS Integers, FiniteSets

CONSTANT None     \* the absent value of every field

Fields == {"doc_type", "instrument", "vendor", "recipient", "num", "po",
           "amount", "raw_amount", "sub", "tax", "discount", "currency",
           "date", "tax_id", "surface", "verdict"}

(* a record of the right shape; the values are the business of each model *)
IsDocument(d) == DOMAIN d = Fields

Present(v) == v # None

(* date_canon[:7]: the calendar is abstracted to months of 30 days *)
Month(d) == d \div 30

-----------------------------------------------------------------------------
(* Keys are pairs <<name, value>>.  A key with a missing part is not formed. *)
KeyOf(name, parts) ==
    IF \A i \in DOMAIN parts : Present(parts[i]) THEN {<<name, parts>>} ELSE {}

MonthKey(d) ==
    IF Present(d.date)
    THEN KeyOf("vendor_amount_month", <<d.vendor, d.amount, Month(d.date)>>)
    ELSE {}

(* faulty variant: a number is only looked up together with its vendor *)
IdentityKeysOfVendor(d) ==
    KeyOf("vendor_invnum", <<d.vendor, d.num>>)
        \cup KeyOf("vendor_amount_curr", <<d.vendor, d.amount, d.currency>>)
        \cup KeyOf("po", <<d.po>>)
        \cup MonthKey(d)

(* The keys a query is looked up by: relationship_engine/identity.py *)
IdentityKeys(d) ==
    KeyOf("vendor_invnum", <<d.vendor, d.num>>)
        \cup KeyOf("vendor_amount_curr", <<d.vendor, d.amount, d.currency>>)
        \cup KeyOf("po", <<d.po>>)
        \cup MonthKey(d)
        \cup KeyOf("invnum", <<d.num>>)

(* A document's own reference: its PO number if it is a purchase order. *)
OwnReference(d) == IF d.doc_type = "purchase_order" THEN d.po ELSE d.num

(* The checksum of the fields, standing for the whole raw assertion. *)
Checksum(d) == [d EXCEPT !.amount = None, !.verdict = None]

(* The handles a stored assertion is indexed by: registry/keys.py *)
RegistryKeys(d) ==
    IdentityKeys(d)
        \cup KeyOf("po_ref", <<d.po>>)
        \cup KeyOf("po_vendor", <<d.po, d.vendor>>)
        \cup KeyOf("vendor", <<d.vendor>>)
        \cup KeyOf("tax_id", <<d.tax_id>>)
        \cup KeyOf("vendor_tax_id", <<d.vendor, d.tax_id>>)
        \cup KeyOf("doc_ref", <<d.doc_type, OwnReference(d)>>)
        \cup KeyOf("checksum", <<Checksum(d)>>)

-----------------------------------------------------------------------------
(* The view the engine matches on is recomputed from the raw fields, so it *)
(* loses the total the role verifier filled in or corrected at ingestion.  *)
Rehydrate(d) == [d EXCEPT !.amount = d.raw_amount]

(* a document whose total was read, not filled in or corrected later *)
StatedTotal(d) == d.amount = d.raw_amount

(* What /dedupe records: resolved fields only, no verification travels.    *)
FieldsOnly(d) == [d EXCEPT !.amount = d.raw_amount, !.verdict = None]

(* reconcile.py: the minimum that may enter the registry through Process *)
HasUsableIdentity(d) ==
    \/ Present(d.num)
    \/ Present(d.po)
    \/ Present(d.vendor) /\ Present(d.amount)
=============================================================================
