------------------------------ MODULE Registry ------------------------------
(***************************************************************************)
(* The questions the registry answers (registry/provider.py).  A registry  *)
(* is a function from assertion numbers to the documents asserted; numbers *)
(* grow with the time of assertion, so they also stand for asserted_at,    *)
(* the order in which every answer is sorted.                              *)
(*                                                                         *)
(* A provider is what a request reads through: the stored assertions and,  *)
(* in a dry run, the overlay of assertions that will never be stored.      *)
(***************************************************************************)
EXTENDS Relations

CONSTANTS HistoryLimit,   \* vendor_history(limit=200)
          EvidenceLimit   \* evidence_from[:5]

ASSUME LimitAssumption == HistoryLimit \in Nat /\ EvidenceLimit \in Nat \ {0}

Empty == [n \in {} |-> None]

Provider(base, pending) == [base |-> base, pending |-> pending]

(* The document of an assertion, wherever the provider keeps it. *)
Asserted(p, n) == IF n \in DOMAIN p.base THEN p.base[n] ELSE p.pending[n]

(* the k oldest members of a set of assertion numbers *)
Oldest(S, k) == {n \in S : Cardinality({m \in S : m < n}) < k}

Lookup(reg, name, parts) ==
    {n \in DOMAIN reg : <<name, parts>> \in RegistryKeys(reg[n])}

-----------------------------------------------------------------------------
(* InMemoryRegistry / FirestoreRegistry *)
(* faulty variant: only what was asserted before the document is returned *)
StoredCandidatesBefore(reg, query, self) ==
    {n \in DOMAIN reg :
        /\ n < self
        /\ reg[n].doc_type = query.doc_type
        /\ IdentityKeys(query) \cap RegistryKeys(reg[n]) # {}}

(* faulty variant: the document is compared with itself *)
StoredCandidatesWithSelf(reg, query, self) ==
    {n \in DOMAIN reg :
        /\ reg[n].doc_type = query.doc_type
        /\ IdentityKeys(query) \cap RegistryKeys(reg[n]) # {}}

StoredCandidates(reg, query, self) ==
    {n \in DOMAIN reg \ {self} :
        /\ reg[n].doc_type = query.doc_type
        /\ IdentityKeys(query) \cap RegistryKeys(reg[n]) # {}}

StoredByReference(reg, type, ref) ==
    LET own == Lookup(reg, "doc_ref", <<type, ref>>)
    IN  IF own # {} THEN own ELSE Lookup(reg, "po_ref", <<ref>>)

StoredVendorHistory(reg, vendor) ==
    Oldest(Lookup(reg, "vendor", <<vendor>>), HistoryLimit)

(* DryRunOverlay: the overlay compares key values whatever their names. *)
KeyValues(d) == {key[2] : key \in IdentityKeys(d)}

CandidatesFor(p, query, self) ==
    StoredCandidates(p.base, query, self)
        \cup {n \in DOMAIN p.pending \ {self} :
                 /\ p.pending[n].doc_type = query.doc_type
                 /\ KeyValues(query) \cap KeyValues(Rehydrate(p.pending[n])) # {}}

(* faulty variant: a dry run does not see the documents beside it *)
ByReferenceStored(p, type, ref) == StoredByReference(p.base, type, ref)

ByReference(p, type, ref) ==
    StoredByReference(p.base, type, ref)
        \cup {n \in DOMAIN p.pending :
                 LET d == p.pending[n] IN
                 \/ d.doc_type = type /\ OwnReference(d) = ref
                 \/ d.po = ref}

VendorHistory(p, vendor) ==
    Oldest(StoredVendorHistory(p.base, vendor)
               \cup {n \in DOMAIN p.pending : p.pending[n].vendor = vendor},
           HistoryLimit)
=============================================================================
