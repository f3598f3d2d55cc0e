------------------------ MODULE PairMatching_proofs ------------------------
(***************************************************************************)
(* Proofs about the duplicate engine and the consistency engine, which     *)
(* rest on the same lemmas about Relations.                                *)
(*                                                                         *)
(* Of PairMatching, for any two documents and any edits of them: what a    *)
(* BLOCK rests on, that the verdict does not depend on the order of the    *)
(* pair, that candidate keys lose no pair, that relabelling never weakens  *)
(* a verdict.                                                              *)
(*                                                                         *)
(* Of RegistryHistory, for every history of any documents: what a finding  *)
(* rests on, when an order is reported missing, that a duplicate is found  *)
(* from both sides, and what a vendor baseline takes.                      *)
(***************************************************************************)
EXTENDS PairMatching, RegistryHistory, FiniteSetTheorems, TLAPS

-----------------------------------------------------------------------------
(* A policy action of BLOCK comes only from the two duplicate types, which   *)
(* the classifier only gives to a provable pair without a contradiction.     *)
LEMMA BlockFacts ==
    ASSUME NEW a, NEW b, Action(a, b) = "BLOCK"
    PROVE  Provable(Facts(a, b)) /\ ~Collision(Facts(a, b))
<1> DEFINE f == Facts(a, b)
           type == ClassifyFacts(f)
<1>1. Action(a, b) = (IF DefaultPolicy(type) = "BLOCK" /\ ~Provable(f)
                      THEN "REVIEW" ELSE DefaultPolicy(type))
  BY DEF Action, Classify, DecideAction
<1> HIDE DEF f
<1>2. DefaultPolicy(type) = "BLOCK"
  BY <1>1
<1>3. type \in {"EXACT_DUPLICATE", "NORMALIZED_DUPLICATE"}
  BY <1>2 DEF DefaultPolicy
<1>4. ~Collision(f)
  BY <1>3 DEF ClassifyFacts
<1>5. Provable(f)
  BY <1>3, <1>4 DEF ClassifyFacts
<1> QED BY <1>4, <1>5 DEF f

(* A blocked pair agrees on number, vendor, currency and total, and         *)
(* contradicts itself on nothing else that identifies an obligation.        *)
THEOREM BlockNeedsIdentity == PairSpec => []BlockIsProvable
<1>1. BlockIsProvable
  <2> SUFFICES ASSUME Action(left, right) = "BLOCK"
               PROVE  /\ \A f \in {"num", "vendor", "currency"} : Agree(left[f], right[f])
                      /\ AmountsEqual(left.amount, right.amount)
                      /\ ~Differ(left.recipient, right.recipient)
                      /\ ~AmountsDiffer(left.sub, right.sub)
                      /\ ~AmountsDiffer(left.tax, right.tax)
                      /\ ~({left.instrument, right.instrument} \subseteq ObligatingTypes
                             /\ left.instrument # right.instrument)
    BY DEF BlockIsProvable
  <2>1. Provable(Facts(left, right)) /\ ~Collision(Facts(left, right))
    BY BlockFacts
  <2>2. /\ Agree(left.num, right.num)
        /\ Agree(left.vendor, right.vendor)
        /\ Agree(left.currency, right.currency)
        /\ AmountsEqual(left.amount, right.amount)
    BY <2>1 DEF Provable, Facts
  <2>3. /\ ~Differ(left.recipient, right.recipient)
        /\ ~AmountsDiffer(left.sub, right.sub)
        /\ ~AmountsDiffer(left.tax, right.tax)
        /\ ~InstrumentsConflict(left.instrument, right.instrument)
    BY <2>1, <2>2 DEF Collision, Facts
  <2>4. ~({left.instrument, right.instrument} \subseteq ObligatingTypes
            /\ left.instrument # right.instrument)
    <3> SUFFICES ASSUME {left.instrument, right.instrument} \subseteq ObligatingTypes,
                        left.instrument # right.instrument
                 PROVE  FALSE
      OBVIOUS
    <3>1. Present(left.instrument) /\ Present(right.instrument)
      BY KindsArePresent
    <3>2. \A x \in ObligatingTypes : x \notin RestatingTypes
      BY DEF ObligatingTypes, RestatingTypes
    <3>3. {left.instrument, right.instrument} \cap RestatingTypes = {}
      BY <3>2
    <3> QED BY <2>3, <3>1, <3>3 DEF InstrumentsConflict
  <2> QED BY <2>2, <2>3, <2>4
<1> QED BY <1>1, PTL
-----------------------------------------------------------------------------
(* Each comparison of two values is symmetric ...                           *)
LEMMA ComparisonsSymmetric ==
    ASSUME NEW x, NEW y
    PROVE  /\ Agree(x, y) <=> Agree(y, x)
           /\ Differ(x, y) <=> Differ(y, x)
           /\ AmountsEqual(x, y) <=> AmountsEqual(y, x)
           /\ AmountsDiffer(x, y) <=> AmountsDiffer(y, x)
           /\ InstrumentsConflict(x, y) <=> InstrumentsConflict(y, x)
<1>1. AmountsEqual(x, y) <=> AmountsEqual(y, x)
  BY DEF AmountsEqual
<1>2. InstrumentsConflict(x, y) <=> InstrumentsConflict(y, x)
  <2>1. {x, y} = {y, x}
    OBVIOUS
  <2> QED BY <2>1 DEF InstrumentsConflict
<1> QED BY <1>1, <1>2 DEF Agree, Differ, AmountsDiffer

(* ... so each fact about the pair is, and with them the verdict.           *)
LEMMA FactsSymmetric ==
    ASSUME NEW a, NEW b
    PROVE  Facts(a, b) = Facts(b, a)
<1>1. AmountsEqual(a.amount, b.amount) = AmountsEqual(b.amount, a.amount)
  BY ComparisonsSymmetric, Zenon DEF AmountsEqual
<1>2. /\ Agree(a.num, b.num) = Agree(b.num, a.num)
      /\ Differ(a.num, b.num) = Differ(b.num, a.num)
      /\ Agree(a.vendor, b.vendor) = Agree(b.vendor, a.vendor)
      /\ Agree(a.currency, b.currency) = Agree(b.currency, a.currency)
      /\ Agree(a.po, b.po) = Agree(b.po, a.po)
      /\ Differ(a.recipient, b.recipient) = Differ(b.recipient, a.recipient)
  BY Zenon DEF Agree, Differ
<1>3. /\ AmountsDiffer(a.sub, b.sub) <=> AmountsDiffer(b.sub, a.sub)
      /\ AmountsDiffer(a.tax, b.tax) <=> AmountsDiffer(b.tax, a.tax)
      /\ InstrumentsConflict(a.instrument, b.instrument)
            <=> InstrumentsConflict(b.instrument, a.instrument)
  BY ComparisonsSymmetric
<1>4. InstrumentsConflict(a.instrument, b.instrument)
        = InstrumentsConflict(b.instrument, a.instrument)
  BY <1>3 DEF InstrumentsConflict
<1>5. (\/ AmountsDiffer(a.sub, b.sub) \/ AmountsDiffer(a.tax, b.tax))
        = (\/ AmountsDiffer(b.sub, a.sub) \/ AmountsDiffer(b.tax, a.tax))
  BY <1>3
<1>6. /\ (Present(a.amount) /\ Present(b.amount)) = (Present(b.amount) /\ Present(a.amount))
      /\ (/\ Present(a.date) /\ Present(b.date) /\ Month(a.date) # Month(b.date))
           = (/\ Present(b.date) /\ Present(a.date) /\ Month(b.date) # Month(a.date))
      /\ (a.surface = b.surface) = (b.surface = a.surface)
  BY DEF Present
<1> QED BY <1>1, <1>2, <1>4, <1>5, <1>6, Zenon DEF Facts

(* The verdict on a pair does not depend on which document comes first.     *)
THEOREM OrderDoesNotMatter == PairSpec => []VerdictIgnoresOrder
<1>1. VerdictIgnoresOrder
  BY FactsSymmetric DEF VerdictIgnoresOrder, Classify
<1> QED BY <1>1, PTL

-----------------------------------------------------------------------------
(* Two documents with the same number meet under the number alone, two with *)
(* the same purchase order under the order.                                 *)
LEMMA SharedValueIsSharedKey ==
    ASSUME NEW a, NEW b, a.doc_type = b.doc_type,
           Agree(a.num, b.num) \/ Agree(a.po, b.po)
    PROVE  Candidates(a, b)
<1>1. ASSUME NEW x, NEW name, Present(x)
      PROVE  KeyOf(name, <<x>>) = {<<name, <<x>>>>}
  BY <1>1 DEF KeyOf
<1>2. CASE Agree(a.num, b.num)
  <2>1. KeyOf("invnum", <<a.num>>) = {<<"invnum", <<a.num>>>>}
    BY <1>1, <1>2 DEF Agree
  <2>2. <<"invnum", <<a.num>>>> \in IdentityKeys(a) \cap IdentityKeys(b)
    BY <2>1, <1>2 DEF IdentityKeys, Agree
  <2> QED BY <2>2 DEF Candidates
<1>3. CASE Agree(a.po, b.po)
  <2>1. KeyOf("po", <<a.po>>) = {<<"po", <<a.po>>>>}
    BY <1>1, <1>3 DEF Agree
  <2>2. <<"po", <<a.po>>>> \in IdentityKeys(a) \cap IdentityKeys(b)
    BY <2>1, <1>3 DEF IdentityKeys, Agree
  <2> QED BY <2>2 DEF Candidates
<1> QED BY <1>2, <1>3

(* Every typed relationship a person should see rests on a shared number or *)
(* a shared purchase order.                                                 *)
LEMMA RelationshipNeedsAnchor ==
    ASSUME NEW a, NEW b, Classify(a, b) # "LOW_CONFIDENCE", Action(a, b) \in NeedsCase
    PROVE  Agree(a.num, b.num) \/ Agree(a.po, b.po)
<1> DEFINE f == Facts(a, b)
<1>1. /\ f.invnum <=> Agree(a.num, b.num)
      /\ f.po <=> Agree(a.po, b.po)
  BY DEF Facts
<1>2. Classify(a, b) = ClassifyFacts(f) /\ Action(a, b) =
        (IF DefaultPolicy(ClassifyFacts(f)) = "BLOCK" /\ ~Provable(f)
         THEN "REVIEW" ELSE DefaultPolicy(ClassifyFacts(f)))
  BY DEF Classify, Action, DecideAction
<1> HIDE DEF f
<1>3. ClassifyFacts(f) # "RECURRING_INVOICE"
  BY <1>2 DEF DefaultPolicy, NeedsCase
<1>4. f.invnum \/ f.po
  BY <1>2, <1>3 DEF ClassifyFacts, Collision, Provable, Corrected, VendorVariant,
                    Recurring, SplitSuspect
<1> QED BY <1>1, <1>4

(* Candidate generation loses no pair that has something to say.            *)
THEOREM NothingIsLost == PairSpec => []CandidatesLoseNothing
<1>1. CandidatesLoseNothing
  BY RelationshipNeedsAnchor, SharedValueIsSharedKey DEF CandidatesLoseNothing
<1> QED BY <1>1, PTL

-----------------------------------------------------------------------------
(* A kind that restates obligations contradicts nothing.                    *)
LEMMA RestatedIsNoConflict ==
    ASSUME NEW x, NEW kind \in RestatingTypes
    PROVE  ~InstrumentsConflict(x, kind)
BY DEF InstrumentsConflict

(* Facts that differ only in what the kinds of the documents say, and no    *)
(* longer contradict each other, add up to an action no less severe: what   *)
(* stood between such a pair and a duplicate was a collision, which is only *)
(* reviewed.                                                                *)
LEMMA FewerConflictsNeverWeaken ==
    ASSUME NEW f, NEW g, ~g.instruments,
           g.invnum = f.invnum, g.invnums = f.invnums, g.vendor = f.vendor,
           g.amount = f.amount, g.amounts = f.amounts, g.currency = f.currency,
           g.po = f.po, g.recipients = f.recipients, g.composition = f.composition,
           g.months = f.months, g.surface = f.surface
    PROVE  Severity[DecideAction(ClassifyFacts(g), Provable(g))]
             >= Severity[DecideAction(ClassifyFacts(f), Provable(f))]
<1>1. /\ Provable(g) <=> Provable(f)
      /\ Corrected(g) <=> Corrected(f)
      /\ VendorVariant(g) <=> VendorVariant(f)
      /\ Recurring(g) <=> Recurring(f)
      /\ SplitSuspect(g) <=> SplitSuspect(f)
  BY DEF Provable, Corrected, VendorVariant, Recurring, SplitSuspect
<1>2. Collision(g) => Collision(f)
  BY DEF Collision
<1>3. CASE Collision(f) <=> Collision(g)
  <2>1. ClassifyFacts(g) = ClassifyFacts(f)
    BY <1>1, <1>3 DEF ClassifyFacts
  <2>2. DefaultPolicy(ClassifyFacts(f)) \in DOMAIN Severity
    BY DEF DefaultPolicy, Severity
  <2>3. DecideAction(ClassifyFacts(f), Provable(f)) \in DOMAIN Severity
    BY <2>2 DEF DecideAction, Severity
  <2>4. DecideAction(ClassifyFacts(g), Provable(g))
          = DecideAction(ClassifyFacts(f), Provable(f))
    BY <1>1, <2>1 DEF DecideAction
  <2>5. \A action \in DOMAIN Severity : Severity[action] \in Nat
    BY DEF Severity
  <2> QED BY <2>3, <2>4, <2>5
<1>4. CASE Collision(f) /\ ~Collision(g)
  <2>1. Severity[DecideAction(ClassifyFacts(f), Provable(f))] = 1
    BY <1>4 DEF ClassifyFacts, DecideAction, DefaultPolicy, Severity
  <2>2. ClassifyFacts(g) # "RECURRING_INVOICE"
    BY <1>4 DEF ClassifyFacts, Collision, Recurring
  <2>3. DecideAction(ClassifyFacts(g), Provable(g)) \in {"REVIEW", "ESCALATE", "BLOCK"}
    BY <2>2 DEF DecideAction, DefaultPolicy
  <2> QED BY <2>1, <2>3 DEF Severity
<1> QED BY <1>2, <1>3, <1>4

(* A step that relabels the right document with a restating type makes the *)
(* action no milder.                                                       *)
LEMMA RelabellingStep ==
    [PairNext]_pair =>
        (left'.instrument = left.instrument /\ right'.instrument # right.instrument
           /\ right'.instrument \in RestatingTypes
         => Severity[Action(left', right')] >= Severity[Action(left, right)])
<1> SUFFICES ASSUME [PairNext]_pair, right'.instrument # right.instrument,
                    right'.instrument \in RestatingTypes
             PROVE  Severity[Action(left', right')] >= Severity[Action(left, right)]
  OBVIOUS
<1>1. PICK field, value : Edit(field, value)
  BY DEF PairNext, pair
<1>2. /\ left' = left
      /\ \A f \in Fields \ {"instrument"} : right'[f] = right[f]
  BY <1>1 DEF Edit, Fields
<1> DEFINE f == Facts(left, right)
           g == Facts(left', right')
<1>3. /\ ~g.instruments
      /\ g.invnum = f.invnum /\ g.invnums = f.invnums /\ g.vendor = f.vendor
      /\ g.amount = f.amount /\ g.amounts = f.amounts /\ g.currency = f.currency
      /\ g.po = f.po /\ g.recipients = f.recipients /\ g.composition = f.composition
      /\ g.months = f.months /\ g.surface = f.surface
  <2>1. /\ right'.num = right.num /\ right'.vendor = right.vendor
        /\ right'.amount = right.amount /\ right'.currency = right.currency
        /\ right'.po = right.po /\ right'.recipient = right.recipient
        /\ right'.sub = right.sub /\ right'.tax = right.tax /\ right'.date = right.date
        /\ right'.surface = right.surface
    BY <1>2 DEF Fields
  <2>2. ~InstrumentsConflict(left'.instrument, right'.instrument)
    BY RestatedIsNoConflict
  <2> QED BY <1>2, <2>1, <2>2 DEF Facts
<1> HIDE DEF f, g
<1>4. Severity[DecideAction(ClassifyFacts(g), Provable(g))]
        >= Severity[DecideAction(ClassifyFacts(f), Provable(f))]
  BY <1>3, FewerConflictsNeverWeaken
<1> QED BY <1>4 DEF Action, Classify, f, g

(* Giving a document the name of a kind that restates obligations never     *)
(* weakens the verdict on it, whatever was edited before.                   *)
THEOREM RelabellingIsSafe == PairSpec => RelabellingNeverWeakens
<1>1. [PairNext]_pair =>
        [left'.instrument = left.instrument /\ right'.instrument # right.instrument
           /\ right'.instrument \in RestatingTypes
         => Severity[Action(left', right')] >= Severity[Action(left, right)]]_pair
  BY RelabellingStep
<1> QED BY <1>1, PTL DEF PairSpec, RelabellingNeverWeakens

-----------------------------------------------------------------------------
(* RegistryHistory: the registry as it grows.                              *)

(* The inductive invariant: the assertions are numbered as they were made, *)
(* those of the dry run after the recorded ones.                           *)
Numbered ==
    /\ Count(stored) \in Nat /\ Count(pending) \in Nat
    /\ stored \in [DOMAIN stored -> Contents]
    /\ pending \in [DOMAIN pending -> Contents]
    /\ DOMAIN stored = 1 .. Count(stored)
    /\ DOMAIN pending = Count(stored) + 1 .. Count(stored) + Count(pending)

(* A collection numbered from k + 1 grows at its end. *)
LEMMA ExtendNumbers ==
    ASSUME NEW f, NEW k \in Nat, NEW d \in Contents, Count(f) \in Nat,
           f \in [DOMAIN f -> Contents], DOMAIN f = k + 1 .. k + Count(f)
    PROVE  LET g == Extend(f, k + Count(f) + 1, d) IN
           /\ Count(g) = Count(f) + 1
           /\ g \in [DOMAIN g -> Contents]
           /\ DOMAIN g = k + 1 .. k + Count(g)
<1> DEFINE n == Count(f)
           g == Extend(f, k + n + 1, d)
<1>1. DOMAIN g = k + 1 .. k + n + 1
  BY DEF Extend
<1>2. Cardinality(k + 1 .. k + n + 1) = n + 1
  <2> DEFINE a == k + 1
             b == k + n + 1
  <2>1. a \in Int /\ b \in Int /\ a <= b /\ b - a + 1 = n + 1
    OBVIOUS
  <2> HIDE DEF a, b
  <2>2. Cardinality(a .. b) = b - a + 1
    BY <2>1, FS_Interval
  <2> QED BY <2>1, <2>2 DEF a, b
<1>3. \A m \in DOMAIN g : g[m] \in Contents
  BY DEF Extend
<1>4. g \in [DOMAIN g -> Contents]
  BY <1>3 DEF Extend
<1> QED BY <1>1, <1>2, <1>4 DEF Count

(* Initially the registry is empty, hence numbered.                        *)
LEMMA NumberedInit == Init => Numbered
<1> SUFFICES ASSUME Init PROVE Numbered
  OBVIOUS
<1>1. DOMAIN Empty = {} /\ Cardinality({}) = 0
  BY FS_EmptySet DEF Empty
<1>2. Empty \in [{} -> Contents] /\ 1 .. 0 = {} /\ 0 + 1 .. 0 + 0 = {}
  BY DEF Empty
<1> QED BY <1>1, <1>2 DEF Init, Numbered, Count

(* Recording and retracting keep assertions under their numbers.           *)
LEMMA NumberedStep == Numbered /\ [Next]_vars => Numbered'
<1> SUFFICES ASSUME Numbered, [Next]_vars PROVE Numbered'
  OBVIOUS
<1>1. ASSUME NEW d \in Contents, Append(d)
      PROVE  Numbered'
  <2>1. Count(pending) = 0
    BY <1>1, FS_EmptySet DEF Append, Empty, Count
  <2>2. Minted = 0 + Count(stored) + 1 /\ DOMAIN stored = 0 + 1 .. 0 + Count(stored)
    BY <2>1 DEF Minted, Numbered
  <2>3. stored' = Extend(stored, 0 + Count(stored) + 1, d) /\ pending' = pending
    BY <1>1, <2>2 DEF Append
  <2>4. /\ Count(stored)' = Count(stored) + 1
        /\ stored' \in [DOMAIN stored' -> Contents]
        /\ DOMAIN stored' = 1 .. Count(stored)'
    BY <2>2, <2>3, ExtendNumbers DEF Numbered, Count
  <2>5. DOMAIN pending = {} /\ Count(pending)' = 0
    BY <1>1, <2>1, <2>3 DEF Append, Empty, Count
  <2> QED BY <2>3, <2>4, <2>5 DEF Numbered
<1>2. ASSUME NEW d \in Contents, AppendToOverlay(d)
      PROVE  Numbered'
  <2>1. /\ pending' = Extend(pending, Count(stored) + Count(pending) + 1, d)
        /\ stored' = stored
    BY <1>2 DEF AppendToOverlay, Minted
  <2>2. /\ Count(pending)' = Count(pending) + 1
        /\ pending' \in [DOMAIN pending' -> Contents]
        /\ DOMAIN pending' = Count(stored) + 1 .. Count(stored) + Count(pending)'
    BY <2>1, ExtendNumbers DEF Numbered, Count
  <2> QED BY <2>1, <2>2 DEF Numbered, Count
<1>3. CASE UNCHANGED vars
  BY <1>3 DEF vars, Numbered, Count
<1> QED BY <1>1, <1>2, <1>3 DEF Next

(* Assertions are numbered without a gap, in the order they were made.     *)
THEOREM NumbersGrow == Spec => []TypeOK
<1>1. Numbered => TypeOK
  BY DEF Numbered, TypeOK
<1> QED BY <1>1, NumberedInit, NumberedStep, PTL DEF Spec
-----------------------------------------------------------------------------
(* The registry as the checks read it.  Below, reg is any set of numbered  *)
(* documents, read through a provider without an overlay.                  *)
IsRegistry(reg) ==
    /\ IsFiniteSet(DOMAIN reg) /\ DOMAIN reg \subseteq Nat
    /\ \A n \in DOMAIN reg : IsDocument(reg[n])

(* What is known in the real run is a registry of this kind. *)
LEMMA KnownIsRegistry ==
    ASSUME Numbered
    PROVE  Recorded = Provider(Known, Empty) /\ IsRegistry(Known)
<1> DEFINE all == [n \in DOMAIN stored \cup DOMAIN pending |->
                      IF n \in DOMAIN stored THEN stored[n] ELSE pending[n]]
<1>1. Recorded = Provider(all, Empty) /\ Known = all
  BY DEF Recorded, Known, Provider
<1>2. DOMAIN all \subseteq Nat
  BY DEF Numbered
<1>3. IsFiniteSet(DOMAIN all)
  <2>1. \A a, b \in Int : IsFiniteSet(a .. b)
    BY FS_Interval
  <2>2. IsFiniteSet(1 .. Count(stored))
    BY <2>1 DEF Numbered
  <2>3. Count(stored) + 1 \in Int /\ Count(stored) + Count(pending) \in Int
    BY DEF Numbered
  <2>4. IsFiniteSet(Count(stored) + 1 .. Count(stored) + Count(pending))
    BY <2>1, <2>3
  <2>5. IsFiniteSet(DOMAIN stored) /\ IsFiniteSet(DOMAIN pending)
    BY <2>2, <2>4 DEF Numbered
  <2> QED BY <2>5, FS_Union
<1>4. \A n \in DOMAIN all : all[n] \in Contents
  BY DEF Numbered
<1>5. \A n \in DOMAIN all : IsDocument(all[n])
  BY <1>4, HistoryAssumption
<1> HIDE DEF all
<1> QED BY <1>1, <1>2, <1>3, <1>5 DEF IsRegistry

(* A key is in a set of keys of one name exactly when it is that key, and  *)
(* complete.                                                               *)
LEMMA KeyMember ==
    ASSUME NEW key, NEW name, NEW parts
    PROVE  /\ key \in KeyOf(name, parts) =>
                  key = <<name, parts>> /\ \A i \in DOMAIN parts : Present(parts[i])
           /\ key = <<name, parts>> /\ (\A i \in DOMAIN parts : Present(parts[i])) =>
                  key \in KeyOf(name, parts)
BY DEF KeyOf

IdentityNames == {"vendor_invnum", "vendor_amount_curr", "po", "vendor_amount_month", "invnum"}

(* The identity keys of a document are those of its registry keys that have *)
(* one of the five names.                                                  *)
LEMMA IdentityKeyNames ==
    ASSUME NEW d, NEW key
    PROVE  /\ key \in IdentityKeys(d) => key[1] \in IdentityNames
           /\ key \in RegistryKeys(d) /\ key[1] \in IdentityNames => key \in IdentityKeys(d)
           /\ key \in IdentityKeys(d) => key \in RegistryKeys(d)
<1>1. ASSUME key \in IdentityKeys(d) PROVE key[1] \in IdentityNames
  <2>1. ASSUME key \in MonthKey(d) PROVE key[1] = "vendor_amount_month"
    BY <2>1, KeyMember DEF MonthKey
  <2> QED BY <1>1, <2>1, KeyMember DEF IdentityKeys, IdentityNames
<1>2. ASSUME key \in RegistryKeys(d), key \notin IdentityKeys(d)
      PROVE  key[1] \in {"po_ref", "po_vendor", "vendor", "tax_id", "vendor_tax_id",
                         "doc_ref", "checksum"}
  BY <1>2, KeyMember DEF RegistryKeys
<1>3. key \in IdentityKeys(d) => key \in RegistryKeys(d)
  BY DEF RegistryKeys
<1> QED BY <1>1, <1>2, <1>3 DEF IdentityNames

(* The lookups by vendor, by order and by document reference find what they *)
(* say.                                                                    *)
LEMMA NamedKeys ==
    ASSUME NEW d, NEW x
    PROVE  /\ <<"vendor", <<x>>>> \in RegistryKeys(d) <=> Present(x) /\ d.vendor = x
           /\ <<"po_ref", <<x>>>> \in RegistryKeys(d) <=> Present(x) /\ d.po = x
           /\ \A type : <<"doc_ref", <<type, x>>>> \in RegistryKeys(d) <=>
                 Present(type) /\ Present(x) /\ d.doc_type = type /\ OwnReference(d) = x
<1>1. ASSUME NEW name, name \notin IdentityNames, NEW parts
      PROVE  <<name, parts>> \notin IdentityKeys(d)
  BY <1>1, IdentityKeyNames
<1>2. \A parts : <<"vendor", parts>> \notin IdentityKeys(d)
  BY <1>1 DEF IdentityNames
<1>3. \A parts : <<"po_ref", parts>> \notin IdentityKeys(d)
  BY <1>1 DEF IdentityNames
<1>4. \A parts : <<"doc_ref", parts>> \notin IdentityKeys(d)
  BY <1>1 DEF IdentityNames
<1>a. ASSUME NEW name, NEW mine, NEW other, NEW parts, name # mine
      PROVE  <<name, parts>> \notin KeyOf(mine, other)
  BY <1>a, KeyMember
<1>5. ASSUME NEW parts
      PROVE  <<"vendor", parts>> \in RegistryKeys(d) <=> <<"vendor", parts>> \in KeyOf("vendor", <<d.vendor>>)
  BY <1>2, <1>a, Zenon DEF RegistryKeys
<1>6. ASSUME NEW parts
      PROVE  <<"po_ref", parts>> \in RegistryKeys(d) <=> <<"po_ref", parts>> \in KeyOf("po_ref", <<d.po>>)
  BY <1>3, <1>a, Zenon DEF RegistryKeys
<1>7. ASSUME NEW parts
      PROVE  <<"doc_ref", parts>> \in RegistryKeys(d) <=> <<"doc_ref", parts>> \in KeyOf("doc_ref", <<d.doc_type, OwnReference(d)>>)
  BY <1>4, <1>a, Zenon DEF RegistryKeys
<1>8. <<"vendor", <<x>>>> \in KeyOf("vendor", <<d.vendor>>) <=> Present(x) /\ d.vendor = x
  BY DEF KeyOf
<1>9. <<"po_ref", <<x>>>> \in KeyOf("po_ref", <<d.po>>) <=> Present(x) /\ d.po = x
  BY DEF KeyOf
<1>10. ASSUME NEW type
       PROVE  <<"doc_ref", <<type, x>>>> \in KeyOf("doc_ref", <<d.doc_type, OwnReference(d)>>)
                <=> Present(type) /\ Present(x) /\ d.doc_type = type /\ OwnReference(d) = x
  BY DEF KeyOf
<1> QED BY <1>5, <1>6, <1>7, <1>8, <1>9, <1>10
-----------------------------------------------------------------------------
(* The questions, asked of a registry without an overlay.                  *)
LEMMA Answers ==
    ASSUME NEW reg
    PROVE  LET p == Provider(reg, Empty) IN
           /\ \A n \in DOMAIN reg : Asserted(p, n) = reg[n]
           /\ \A query, self : CandidatesFor(p, query, self) = StoredCandidates(reg, query, self)
           /\ \A type, ref : ByReference(p, type, ref) = StoredByReference(reg, type, ref)
           /\ \A vendor : VendorHistory(p, vendor)
                            = Oldest(StoredVendorHistory(reg, vendor), HistoryLimit)
<1> DEFINE p == Provider(reg, Empty)
<1>1. p.base = reg /\ p.pending = Empty /\ DOMAIN Empty = {}
  BY DEF Provider, Empty
<1> HIDE DEF p
<1>2. \A n \in DOMAIN reg : Asserted(p, n) = reg[n]
  BY <1>1 DEF Asserted
<1>3. \A query, self : CandidatesFor(p, query, self) = StoredCandidates(reg, query, self)
  BY <1>1 DEF CandidatesFor
<1>4. \A type, ref : ByReference(p, type, ref) = StoredByReference(reg, type, ref)
  BY <1>1 DEF ByReference
<1>5. \A vendor : VendorHistory(p, vendor)
                    = Oldest(StoredVendorHistory(reg, vendor), HistoryLimit)
  BY <1>1 DEF VendorHistory
<1> QED BY <1>2, <1>3, <1>4, <1>5 DEF p

(* A finite set of numbers that is not empty has a first member. *)
LEMMA FirstMember ==
    ASSUME NEW S, IsFiniteSet(S), S \subseteq Nat, S # {}
    PROVE  \E n \in S : {m \in S : m < n} = {}
<1> DEFINE before(n) == {m \in S : m < n}
           Parts == {before(n) : n \in S}
<1>1. Parts \subseteq FiniteSubsetsOf(S)
  <2>1. \A n \in S : IsFiniteSet(before(n))
    BY FS_Subset
  <2> QED BY <2>1 DEF FiniteSubsetsOf
<1>2. PICK P \in Parts : \A Q \in Parts : <<Q, P>> \notin StrictSubsetOrdering(S)
  <2>1. Parts # {}
    OBVIOUS
  <2> HIDE DEF Parts
  <2> QED BY <1>1, <2>1, FS_StrictSubsetOrderingWellFounded, WFMin
<1>3. PICK n \in S : P = before(n)
  OBVIOUS
<1>4. ASSUME NEW m \in before(n) PROVE FALSE
  <2>0. m \in S /\ m \in Nat /\ n \in Nat /\ m < n
    BY <1>4
  <2>1. before(m) \subseteq before(n) /\ m \notin before(m)
    <3>1. \A k \in S : k \in Nat
      OBVIOUS
    <3>2. \A k \in S : k < m => k < n
      BY <2>0, <3>1
    <3>3. ~(m < m)
      BY <2>0
    <3> QED BY <3>2, <3>3
  <2>2. before(m) # before(n) /\ before(m) \subseteq S /\ before(n) \subseteq S
    BY <1>4, <2>1
  <2>3. <<before(m), before(n)>> \in StrictSubsetOrdering(S)
    <3> HIDE DEF before
    <3> QED BY <2>1, <2>2 DEF StrictSubsetOrdering
  <2> QED BY <1>2, <1>3, <2>0, <2>3
<1> QED BY <1>4

(* The oldest members of a set are among its members; asked of them again, *)
(* the question has the same answer; and there are some, if any are wanted. *)
LEMMA OldestMembers ==
    ASSUME NEW S, IsFiniteSet(S), S \subseteq Nat, NEW k \in Nat
    PROVE  /\ Oldest(S, k) \subseteq S
           /\ Oldest(Oldest(S, k), k) = Oldest(S, k)
           /\ S # {} /\ k # 0 => Oldest(S, k) # {}
<1>1. Oldest(S, k) \subseteq S
  BY DEF Oldest
<1>2. ASSUME NEW n \in Oldest(S, k) PROVE n \in Oldest(Oldest(S, k), k)
  <2> DEFINE A == {m \in Oldest(S, k) : m < n}
             B == {m \in S : m < n}
  <2>1. A \subseteq B /\ B \subseteq S
    BY <1>1
  <2>2. IsFiniteSet(B)
    BY <2>1, FS_Subset
  <2>3. Cardinality(A) <= Cardinality(B) /\ Cardinality(A) \in Nat /\ Cardinality(B) \in Nat
    BY <2>1, <2>2, FS_Subset, FS_CardinalityType
  <2>4. Cardinality(B) < k
    BY <1>2 DEF Oldest
  <2>5. Cardinality(A) < k
    BY <2>3, <2>4
  <2> QED BY <1>2, <2>5 DEF Oldest
<1>3. Oldest(Oldest(S, k), k) \subseteq Oldest(S, k)
  BY DEF Oldest
<1>4. ASSUME S # {}, k # 0 PROVE Oldest(S, k) # {}
  <2>1. PICK n \in S : {m \in S : m < n} = {}
    BY <1>4, FirstMember
  <2>3. Cardinality({m \in S : m < n}) = 0
    BY <2>1, FS_EmptySet
  <2>4. n \in Oldest(S, k)
    BY <1>4, <2>3 DEF Oldest
  <2> QED BY <2>4
<1> QED BY <1>1, <1>2, <1>3, <1>4

(* The history of a vendor: the oldest documents of that vendor.           *)
LEMMA HistoryOfVendor ==
    ASSUME NEW reg, IsRegistry(reg), NEW vendor
    PROVE  /\ VendorHistory(Provider(reg, Empty), vendor) \subseteq DOMAIN reg
           /\ Present(vendor) =>
                 VendorHistory(Provider(reg, Empty), vendor)
                     = Oldest({m \in DOMAIN reg : reg[m].vendor = vendor}, HistoryLimit)
<1> DEFINE L == Lookup(reg, "vendor", <<vendor>>)
<1>1. L \subseteq DOMAIN reg
  BY DEF Lookup
<1>2. IsFiniteSet(L) /\ L \subseteq Nat
  BY <1>1, FS_Subset DEF IsRegistry
<1>3. VendorHistory(Provider(reg, Empty), vendor) = Oldest(Oldest(L, HistoryLimit), HistoryLimit)
  BY Answers DEF StoredVendorHistory
<1>4. Oldest(Oldest(L, HistoryLimit), HistoryLimit) = Oldest(L, HistoryLimit)
       /\ Oldest(L, HistoryLimit) \subseteq L
  BY <1>2, OldestMembers, LimitAssumption
<1>5. Present(vendor) => L = {m \in DOMAIN reg : reg[m].vendor = vendor}
  BY NamedKeys DEF Lookup
<1> QED BY <1>1, <1>3, <1>4, <1>5

(* A few of the documents a finding could cite are some of them. *)
LEMMA SomeEvidence ==
    ASSUME NEW reg, IsRegistry(reg), NEW n, NEW S, S \subseteq DOMAIN reg \ {n}, S # {}
    PROVE  FirstFew(S) # {} /\ n \notin FirstFew(S)
<1>1. IsFiniteSet(S) /\ S \subseteq Nat
  BY FS_Subset DEF IsRegistry
<1> QED BY <1>1, OldestMembers, LimitAssumption DEF FirstFew

-----------------------------------------------------------------------------
(* A finding that compares a document rests on another document. *)
RestsOnOthers(f, n) == f.evidence # {} /\ n \notin f.evidence

(* What a document is a duplicate of is another document of the registry.  *)
LEMMA DuplicatesRestOnOthers ==
    ASSUME NEW reg, IsRegistry(reg), NEW n \in DOMAIN reg,
           NEW f \in CheckDuplicates(Provider(reg, Empty), n)
    PROVE  RestsOnOthers(f, n)
<1> DEFINE p == Provider(reg, Empty)
           query == Rehydrate(Asserted(p, n))
<1>1. PICK m \in CandidatesFor(p, query, n) : \E action : f = Finding("DUPLICATE", {m}, action)
  BY DEF CheckDuplicates
<1>2. m \in StoredCandidates(reg, query, n)
  BY <1>1, Answers
<1>3. m # n
  BY <1>2 DEF StoredCandidates
<1> QED BY <1>1, <1>3 DEF Finding, RestsOnOthers

(* The order an invoice is compared with is another document.              *)
LEMMA OrdersRestOnOthers ==
    ASSUME NEW reg, IsRegistry(reg), NEW n \in DOMAIN reg,
           NEW f \in CheckPO(Provider(reg, Empty), n), f.kind # "PO_NOT_FOUND"
    PROVE  RestsOnOthers(f, n)
<1> DEFINE p == Provider(reg, Empty)
           d == Asserted(p, n)
<1>1. d.doc_type = "invoice"
  BY DEF CheckPO
<1>2. PICK m \in OrdersCited(p, d.po) : f = Finding("PO_MISMATCH", {m}, None)
  BY <1>1 DEF CheckPO, Finding
<1>3. Asserted(p, m).doc_type = "purchase_order"
  BY <1>2 DEF OrdersCited
<1>4. m # n
  BY <1>1, <1>3
<1> QED BY <1>2, <1>4 DEF Finding, RestsOnOthers

(* The invoices a payment is compared with are other documents.            *)
LEMMA PaymentsRestOnOthers ==
    ASSUME NEW reg, IsRegistry(reg), NEW n \in DOMAIN reg,
           NEW f \in CheckPayments(Provider(reg, Empty), n)
    PROVE  RestsOnOthers(f, n)
<1> DEFINE p == Provider(reg, Empty)
           d == Asserted(p, n)
           payments == {m \in ByReference(p, "payment", d.num) :
                           Asserted(p, m).doc_type = "payment"}
<1>1. /\ d.doc_type = "invoice" /\ payments # {}
      /\ f = Finding("PAYMENT_CONFLICT", payments, None)
  BY DEF CheckPayments
<1>2. n \notin payments
  BY <1>1
<1> HIDE DEF payments
<1> QED BY <1>1, <1>2 DEF Finding, RestsOnOthers

(* A baseline is made of other documents.                                  *)
LEMMA BaselinesRestOnOthers ==
    ASSUME NEW reg, IsRegistry(reg), NEW n \in DOMAIN reg,
           NEW f \in CheckTaxId(Provider(reg, Empty), n) \cup CheckTaxRate(Provider(reg, Empty), n)
                         \cup CheckNumberFormat(Provider(reg, Empty), n)
    PROVE  RestsOnOthers(f, n)
<1> DEFINE p == Provider(reg, Empty)
           d == Asserted(p, n)
           H == History(p, n)
<1>1. H \subseteq DOMAIN reg \ {n}
  BY HistoryOfVendor DEF History
<1>2. Cardinality({}) = 0
  BY FS_EmptySet
<1>3. ASSUME NEW S, S \subseteq H, S # {}, NEW kind, f = Finding(kind, FirstFew(S), None)
      PROVE  RestsOnOthers(f, n)
  <2>1. FirstFew(S) # {} /\ n \notin FirstFew(S)
    BY <1>1, <1>3, SomeEvidence
  <2> QED BY <1>3, <2>1 DEF Finding, RestsOnOthers
<1>4. CASE f \in CheckTaxId(p, n)
  <2> DEFINE seen == {m \in H : Present(Asserted(p, m).tax_id)}
  <2>1. /\ seen # {}
        /\ \/ f = Finding("MISSING_TAX_ID", FirstFew(seen), None)
           \/ f = Finding("TAX_ID_CHANGED", FirstFew(seen), None)
    BY <1>4 DEF CheckTaxId
  <2>2. seen \subseteq H
    OBVIOUS
  <2> HIDE DEF seen
  <2> QED BY <1>3, <2>1, <2>2
<1>5. CASE f \in CheckTaxRate(p, n)
  <2> DEFINE rated == {m \in H : HasRate(Asserted(p, m))}
  <2>1. Cardinality(rated) >= MinBaseline /\ f = Finding("TAX_RATE_DEVIATION", FirstFew(H), None)
    BY <1>5 DEF CheckTaxRate
  <2>2. H # {}
    <3> SUFFICES ASSUME H = {} PROVE FALSE
      OBVIOUS
    <3>1. rated = {}
      OBVIOUS
    <3> QED BY <1>2, <2>1, <3>1, BaselineAssumption
  <2> HIDE DEF H
  <2> QED BY <1>3, <2>1, <2>2
<1>6. CASE f \in CheckNumberFormat(p, n)
  <2> DEFINE history == {m \in H : Asserted(p, m).doc_type = "invoice"}
             signed == {m \in history : Present(Asserted(p, m).num)}
             shapes == {Signature(Asserted(p, m).num) : m \in signed}
  <2>1. /\ Established(shapes, Cardinality(signed))
        /\ f = Finding("NUMBER_FORMAT_DEVIATION", FirstFew(history), None)
    BY <1>6 DEF CheckNumberFormat
  <2>2. shapes # {}
    BY <1>2, <2>1 DEF Established
  <2>3. history # {} /\ history \subseteq H
    BY <2>2
  <2> HIDE DEF history
  <2> QED BY <1>3, <2>1, <2>3
<1> QED BY <1>4, <1>5, <1>6

(* A document is never evidence about itself.                              *)
THEOREM EvidenceIsOfOthers == Spec => []NeverOwnEvidence
<1>1. ASSUME Numbered PROVE NeverOwnEvidence
  <2> SUFFICES ASSUME NEW n \in DOMAIN Known, NEW f \in Evaluate(Recorded, n, TRUE),
                      f.kind \notin SingleDocumentKinds
               PROVE  f.evidence # {} /\ n \notin f.evidence
    BY DEF NeverOwnEvidence
  <2>1. Recorded = Provider(Known, Empty) /\ IsRegistry(Known)
    BY <1>1, KnownIsRegistry
  <2>2. f.kind # "PO_NOT_FOUND" /\ f \notin CheckInternal(Recorded, n)
    BY DEF SingleDocumentKinds, CheckInternal, Finding
  <2>3. \/ f \in CheckDuplicates(Recorded, n)
        \/ f \in CheckPO(Recorded, n)
        \/ f \in CheckPayments(Recorded, n)
        \/ f \in CheckTaxId(Recorded, n) \cup CheckTaxRate(Recorded, n)
                    \cup CheckNumberFormat(Recorded, n)
    BY <2>2 DEF Evaluate
  <2>4. RestsOnOthers(f, n)
    BY <2>1, <2>2, <2>3, DuplicatesRestOnOthers, OrdersRestOnOthers, PaymentsRestOnOthers,
       BaselinesRestOnOthers
  <2> QED BY <2>4 DEF RestsOnOthers
<1> QED BY <1>1, NumberedInit, NumberedStep, PTL DEF Spec
-----------------------------------------------------------------------------
(* Whichever key answers, the orders cited are the purchase orders of that *)
(* number: the fallback to the documents that cite it adds none.           *)
LEMMA OrdersCitedAreOrders ==
    ASSUME NEW reg, NEW po, Present(po)
    PROVE  OrdersCited(Provider(reg, Empty), po)
               = {m \in DOMAIN reg : reg[m].doc_type = "purchase_order" /\ reg[m].po = po}
<1> DEFINE p == Provider(reg, Empty)
           own == Lookup(reg, "doc_ref", <<"purchase_order", po>>)
           citing == Lookup(reg, "po_ref", <<po>>)
           orders == {m \in DOMAIN reg : reg[m].doc_type = "purchase_order" /\ reg[m].po = po}
<1>1. citing = {m \in DOMAIN reg : reg[m].po = po}
  BY NamedKeys DEF Lookup
<1>2. own = {m \in orders : Present("purchase_order")}
  BY NamedKeys DEF Lookup, OwnReference
<1>3. ByReference(p, "purchase_order", po) = IF own # {} THEN own ELSE citing
  BY Answers DEF StoredByReference
<1>4. \A m \in DOMAIN reg : Asserted(p, m) = reg[m]
  BY Answers
<1> HIDE DEF p
<1>5. OrdersCited(p, po) = {m \in ByReference(p, "purchase_order", po) :
                               Asserted(p, m).doc_type = "purchase_order"}
  BY DEF OrdersCited
<1>6. CASE own # {}
  <2>1. own = orders
    BY <1>2, <1>6
  <2> QED BY <1>3, <1>4, <1>5, <1>6, <2>1 DEF p
<1>7. CASE own = {}
  <2>1. ByReference(p, "purchase_order", po) = citing
    BY <1>3, <1>7
  <2> HIDE DEF own
  <2> QED BY <1>1, <1>4, <1>5, <2>1 DEF p
<1> QED BY <1>6, <1>7

(* Only the check of orders reports a missing one.                         *)
LEMMA OnlyOrdersAreMissing ==
    ASSUME NEW p, NEW n, NEW f \in Evaluate(p, n, FALSE), f.kind = "PO_NOT_FOUND"
    PROVE  f \in CheckPO(p, n)
<1>1. f \notin CheckInternal(p, n)
  BY DEF CheckInternal, Finding
<1>2. f \notin CheckTaxId(p, n)
  BY DEF CheckTaxId, Finding
<1>3. f \notin CheckTaxRate(p, n)
  BY DEF CheckTaxRate, Finding
<1>4. f \notin CheckNumberFormat(p, n)
  BY DEF CheckNumberFormat, Finding
<1>5. f \notin CheckPayments(p, n)
  BY DEF CheckPayments, Finding
<1> QED BY <1>1, <1>2, <1>3, <1>4, <1>5 DEF Evaluate

(* An order is reported missing exactly while it is.                       *)
THEOREM MissingOrdersAreMissing == Spec => []OrderReportedMissingIsMissing
<1>1. ASSUME Numbered PROVE OrderReportedMissingIsMissing
  <2> SUFFICES ASSUME NEW n \in DOMAIN Known
               PROVE  (\E f \in Evaluate(Recorded, n, FALSE) : f.kind = "PO_NOT_FOUND")
                        <=> /\ Known[n].doc_type = "invoice" /\ Present(Known[n].po)
                            /\ ~\E m \in DOMAIN Known : /\ Known[m].doc_type = "purchase_order"
                                                        /\ Known[m].po = Known[n].po
    BY DEF OrderReportedMissingIsMissing
  <2> DEFINE d == Known[n]
             orders == OrdersCited(Recorded, d.po)
  <2>1. Recorded = Provider(Known, Empty) /\ Asserted(Recorded, n) = d
    BY <1>1, KnownIsRegistry, Answers
  <2>2. CheckPO(Recorded, n) =
          IF ~Present(d.po) \/ d.doc_type # "invoice" THEN {}
          ELSE IF orders = {} THEN {Finding("PO_NOT_FOUND", {n}, None)}
          ELSE {Finding("PO_MISMATCH", {m}, None) :
                   m \in {o \in orders : DisagreesWithOrder(d, Asserted(Recorded, o))}}
    BY <2>1 DEF CheckPO
  <2>3. (\E f \in Evaluate(Recorded, n, FALSE) : f.kind = "PO_NOT_FOUND")
           <=> \E f \in CheckPO(Recorded, n) : f.kind = "PO_NOT_FOUND"
    BY OnlyOrdersAreMissing DEF Evaluate
  <2>4. (\E f \in CheckPO(Recorded, n) : f.kind = "PO_NOT_FOUND")
           <=> d.doc_type = "invoice" /\ Present(d.po) /\ orders = {}
    <3> HIDE DEF orders, d
    <3>1. CASE ~Present(d.po) \/ d.doc_type # "invoice"
      BY <2>2, <3>1
    <3>2. CASE Present(d.po) /\ d.doc_type = "invoice" /\ orders = {}
      <4>1. Finding("PO_NOT_FOUND", {n}, None) \in CheckPO(Recorded, n)
        BY <2>2, <3>2
      <4>2. Finding("PO_NOT_FOUND", {n}, None).kind = "PO_NOT_FOUND"
        BY DEF Finding
      <4> QED BY <3>2, <4>1, <4>2
    <3>3. CASE Present(d.po) /\ d.doc_type = "invoice" /\ orders # {}
      <4>1. \A f \in CheckPO(Recorded, n) : f.kind = "PO_MISMATCH"
        BY <2>2, <3>3 DEF Finding
      <4> QED BY <3>3, <4>1
    <3> QED BY <3>1, <3>2, <3>3
  <2>5. Present(d.po) => orders = {m \in DOMAIN Known : /\ Known[m].doc_type = "purchase_order"
                                                        /\ Known[m].po = d.po}
    BY <2>1, OrdersCitedAreOrders
  <2> QED BY <2>3, <2>4, <2>5
<1> QED BY <1>1, NumberedInit, NumberedStep, PTL DEF Spec
-----------------------------------------------------------------------------
(* The action on a pair does not depend on which document comes first.      *)
LEMMA ActionSymmetric ==
    ASSUME NEW a, NEW b
    PROVE  Action(a, b) = Action(b, a)
BY FactsSymmetric DEF Action, Classify

(* A document whose total was read is matched on as it was recorded. *)
LEMMA StatedTotalsAreKept ==
    ASSUME NEW d, IsDocument(d), StatedTotal(d)
    PROVE  /\ Rehydrate(d).doc_type = d.doc_type
           /\ IdentityKeys(Rehydrate(d)) = IdentityKeys(d)
           /\ \A other : Action(other, Rehydrate(d)) = Action(other, d)
<1>1. \A f \in Fields : Rehydrate(d)[f] = d[f]
  BY DEF Rehydrate, IsDocument, StatedTotal
<1>2. /\ Rehydrate(d).doc_type = d.doc_type /\ Rehydrate(d).instrument = d.instrument
      /\ Rehydrate(d).vendor = d.vendor /\ Rehydrate(d).recipient = d.recipient
      /\ Rehydrate(d).num = d.num /\ Rehydrate(d).po = d.po
      /\ Rehydrate(d).amount = d.amount /\ Rehydrate(d).sub = d.sub
      /\ Rehydrate(d).tax = d.tax /\ Rehydrate(d).currency = d.currency
      /\ Rehydrate(d).date = d.date /\ Rehydrate(d).surface = d.surface
  BY <1>1 DEF Fields
<1>3. IdentityKeys(Rehydrate(d)) = IdentityKeys(d)
  BY <1>2, Zenon DEF IdentityKeys, MonthKey
<1>4. ASSUME NEW other PROVE Facts(other, Rehydrate(d)) = Facts(other, d)
  BY <1>2, Zenon DEF Facts
<1>5. \A other : Action(other, Rehydrate(d)) = Action(other, d)
  BY <1>4 DEF Action, Classify
<1> QED BY <1>2, <1>3, <1>5

(* Two such documents meet under the registry keys of either. *)
LEMMA CandidatesMeet ==
    ASSUME NEW reg, IsRegistry(reg), NEW m \in DOMAIN reg, NEW n \in DOMAIN reg,
           StatedTotal(reg[n])
    PROVE  m \in StoredCandidates(reg, Rehydrate(reg[n]), n)
              <=> m # n /\ Candidates(reg[n], reg[m])
<1> DEFINE a == reg[n]
           b == reg[m]
<1>1. /\ Rehydrate(a).doc_type = a.doc_type
      /\ IdentityKeys(Rehydrate(a)) = IdentityKeys(a)
  BY StatedTotalsAreKept DEF IsRegistry
<1>2. IdentityKeys(a) \cap RegistryKeys(b) = IdentityKeys(a) \cap IdentityKeys(b)
  BY IdentityKeyNames
<1> HIDE DEF a, b
<1>3. m \in StoredCandidates(reg, Rehydrate(a), n)
         <=> m # n /\ b.doc_type = a.doc_type /\ IdentityKeys(a) \cap RegistryKeys(b) # {}
  BY <1>1 DEF StoredCandidates, b
<1> QED BY <1>2, <1>3 DEF Candidates, a, b

(* When both totals are stated, a finding of duplicates with one document  *)
(* says that the two are candidates, and what their action is.             *)
LEMMA DuplicateMeans ==
    ASSUME NEW reg, IsRegistry(reg), NEW m \in DOMAIN reg, NEW n \in DOMAIN reg,
           StatedTotal(reg[m]), StatedTotal(reg[n]), NEW action
    PROVE  Finding("DUPLICATE", {m}, action) \in CheckDuplicates(Provider(reg, Empty), n)
              <=> /\ m # n /\ Candidates(reg[n], reg[m])
                  /\ Action(reg[m], reg[n]) = action /\ action # "ALLOW"
<1> DEFINE p == Provider(reg, Empty)
           query == Rehydrate(reg[n])
           hits == StoredCandidates(reg, query, n)
<1>1. hits \subseteq DOMAIN reg
  BY DEF StoredCandidates
<1>2. CandidatesFor(p, query, n) = hits /\ \A k \in DOMAIN reg : Asserted(p, k) = reg[k]
  BY Answers
<1>3. CheckDuplicates(p, n) =
        {Finding("DUPLICATE", {k}, Action(Rehydrate(reg[k]), query)) :
            k \in {c \in hits : Action(Rehydrate(reg[c]), query) # "ALLOW"}}
  BY <1>1, <1>2 DEF CheckDuplicates
<1>4. ASSUME NEW k PROVE Finding("DUPLICATE", {m}, action)
                            = Finding("DUPLICATE", {k}, Action(Rehydrate(reg[k]), query))
                         <=> k = m /\ Action(Rehydrate(reg[k]), query) = action
  BY DEF Finding
<1>5. Finding("DUPLICATE", {m}, action) \in CheckDuplicates(p, n)
        <=> m \in hits /\ Action(Rehydrate(reg[m]), query) = action /\ action # "ALLOW"
  <2> HIDE DEF hits, query
  <2> QED BY <1>3, <1>4
<1>6. Action(Rehydrate(reg[m]), query) = Action(reg[m], reg[n])
  <2>1. Action(Rehydrate(reg[m]), query) = Action(Rehydrate(reg[m]), reg[n])
    BY StatedTotalsAreKept DEF IsRegistry
  <2>2. Action(Rehydrate(reg[m]), reg[n]) = Action(reg[n], Rehydrate(reg[m]))
    BY ActionSymmetric
  <2>3. Action(reg[n], Rehydrate(reg[m])) = Action(reg[n], reg[m])
    BY StatedTotalsAreKept DEF IsRegistry
  <2>4. Action(reg[n], reg[m]) = Action(reg[m], reg[n])
    BY ActionSymmetric
  <2> HIDE DEF query
  <2> QED BY <2>1, <2>2, <2>3, <2>4
<1> QED BY <1>5, <1>6, CandidatesMeet

(* Whichever of two documents is evaluated, the duplicate is found.        *)
THEOREM DuplicatesAreMutual == Spec => []DuplicatesSeenFromBothSides
<1>1. ASSUME Numbered PROVE DuplicatesSeenFromBothSides
  <2> SUFFICES ASSUME NEW m \in DOMAIN Known, NEW n \in DOMAIN Known, m # n,
                      StatedTotal(Known[m]), StatedTotal(Known[n]), NEW action \in NeedsCase
               PROVE  Finding("DUPLICATE", {m}, action) \in CheckDuplicates(Recorded, n)
                        <=> Finding("DUPLICATE", {n}, action) \in CheckDuplicates(Recorded, m)
    BY DEF DuplicatesSeenFromBothSides
  <2>1. Recorded = Provider(Known, Empty) /\ IsRegistry(Known)
    BY <1>1, KnownIsRegistry
  <2>2. Candidates(Known[n], Known[m]) <=> Candidates(Known[m], Known[n])
    BY DEF Candidates
  <2>3. Action(Known[m], Known[n]) = Action(Known[n], Known[m])
    BY ActionSymmetric
  <2> QED BY <2>1, <2>2, <2>3, DuplicateMeans
<1> QED BY <1>1, NumberedInit, NumberedStep, PTL DEF Spec
-----------------------------------------------------------------------------
(* An established baseline is one value, of every document counted, and of *)
(* enough documents.                                                       *)
LEMMA EstablishedMeans ==
    ASSUME NEW S, IsFiniteSet(S), NEW g, Established({g[m] : m \in S}, Cardinality(S))
    PROVE  /\ Cardinality(S) >= MinBaseline
           /\ \E m \in S : \A l \in S : g[l] = g[m]
<1> DEFINE observed == {g[m] : m \in S}
<1>1. Cardinality(observed) = 1 /\ Cardinality(S) >= MinBaseline
  BY DEF Established
<1>2. IsFiniteSet(observed)
  <2>1. [m \in S |-> g[m]] \in Surjection(S, observed)
    BY DEF Surjection
  <2> HIDE DEF observed
  <2> QED BY <2>1, FS_Surjection
<1>3. PICK v : observed = {v}
  <2> HIDE DEF observed
  <2> QED BY <1>1, <1>2, FS_Singleton
<1>4. \A l \in S : g[l] = v
  BY <1>3
<1>5. S # {}
  BY <1>3
<1> QED BY <1>1, <1>4, <1>5

(* What a deviation reported of document n has been held against.          *)
EarnedFrom(others, kind, reg, n) ==
    /\ Cardinality(others) >= MinBaseline
    /\ \E k \in others : \A m \in others : Attribute(kind, reg[m]) = Attribute(kind, reg[k])
    /\ \A m \in others : Attribute(kind, reg[m]) # Attribute(kind, reg[n])

(* What the three checks with a baseline report, and of which documents.   *)
LEMMA BaselineChecks ==
    ASSUME NEW reg, IsRegistry(reg), NEW n \in DOMAIN reg, NEW kind \in Deviations,
           NEW f \in Evaluate(Provider(reg, Empty), n, FALSE), f.kind = kind,
           NEW others, others = {m \in Oldest({l \in DOMAIN reg : reg[l].vendor = reg[n].vendor},
                                              HistoryLimit) \ {n} : Supplies(kind, reg[m])}
    PROVE  EarnedFrom(others, kind, reg, n)
<1> DEFINE p == Provider(reg, Empty)
           d == reg[n]
           H == History(p, n)
           vendors == {m \in DOMAIN reg : reg[m].vendor = d.vendor}
           g == [m \in others |-> Attribute(kind, reg[m])]
           values == {Attribute(kind, reg[m]) : m \in others}
<1>0. others = {m \in Oldest(vendors, HistoryLimit) \ {n} : Supplies(kind, reg[m])}
  OBVIOUS
<1>1. Asserted(p, n) = d /\ \A m \in DOMAIN reg : Asserted(p, m) = reg[m]
  BY Answers
<1>2. H \subseteq DOMAIN reg /\ (Present(d.vendor) => H = Oldest(vendors, HistoryLimit) \ {n})
  <2>1. H = VendorHistory(p, d.vendor) \ {n}
    BY <1>1 DEF History
  <2> HIDE DEF H
  <2> QED BY <2>1, HistoryOfVendor
<1>3. /\ f \notin CheckInternal(p, n)
      /\ f \notin CheckPO(p, n)
      /\ f \notin CheckPayments(p, n)
  <2>1. f \notin CheckInternal(p, n)
    BY DEF CheckInternal, Finding, Deviations
  <2>2. f \notin CheckPO(p, n)
    BY DEF CheckPO, Finding, Deviations
  <2>3. f \notin CheckPayments(p, n)
    BY DEF CheckPayments, Finding, Deviations
  <2> QED BY <2>1, <2>2, <2>3
<1>4. ASSUME Established(values, Cardinality(others)), Attribute(kind, d) \notin values
      PROVE  EarnedFrom(others, kind, reg, n)
  <2>1. IsFiniteSet(others)
    <3>1. others \subseteq DOMAIN reg
      BY <1>0 DEF Oldest
    <3> QED BY <3>1, FS_Subset DEF IsRegistry
  <2>2. {g[m] : m \in others} = values
    OBVIOUS
  <2>3. /\ Cardinality(others) >= MinBaseline
        /\ \E m \in others : \A l \in others : g[l] = g[m]
    <3> HIDE DEF g, values
    <3> QED BY <1>4, <2>1, <2>2, EstablishedMeans
  <2>4. \A m \in others : Attribute(kind, reg[m]) # Attribute(kind, d)
    BY <1>4
  <2>5. \E k \in others : \A m \in others : Attribute(kind, reg[m]) = Attribute(kind, reg[k])
    BY <2>3
  <2> QED BY <2>3, <2>4, <2>5 DEF EarnedFrom
<1>5. CASE f \in CheckTaxId(p, n)
  <2> DEFINE seen == {m \in H : Present(Asserted(p, m).tax_id)}
             distinct == {Asserted(p, m).tax_id : m \in seen}
  <2>1. kind = "TAX_ID_CHANGED"
    BY <1>5 DEF CheckTaxId, Finding, Deviations
  <2>2. /\ Present(d.vendor)
        /\ Established(distinct, Cardinality(seen)) /\ d.tax_id \notin distinct
    BY <1>1, <1>5, <2>1 DEF CheckTaxId, Finding
  <2>3. seen = others
    BY <1>0, <1>1, <1>2, <2>1, <2>2 DEF Supplies
  <2>4. distinct = values
    <3> QED BY <1>1, <1>2, <2>1, <2>3 DEF Attribute
  <2>5. Attribute(kind, d) = d.tax_id
    BY <2>1 DEF Attribute
  <2> HIDE DEF seen, distinct, values
  <2>6. Established(values, Cardinality(others)) /\ Attribute(kind, d) \notin values
    BY <2>2, <2>3, <2>4, <2>5
  <2> QED BY <1>4, <2>6
<1>6. CASE f \in CheckTaxRate(p, n)
  <2> DEFINE rated == {m \in H : HasRate(Asserted(p, m))}
  <2>1. kind = "TAX_RATE_DEVIATION"
    BY <1>6 DEF CheckTaxRate, Finding, Deviations
  <2>2. /\ Present(d.vendor)
        /\ Cardinality(rated) >= MinBaseline
        /\ \A l, m \in rated : Rate(Asserted(p, l)) = Rate(Asserted(p, m))
        /\ \A m \in rated : Rate(d) # Rate(Asserted(p, m))
    BY <1>1, <1>6 DEF CheckTaxRate
  <2>3. rated = others
    BY <1>0, <1>1, <1>2, <2>1, <2>2 DEF Supplies
  <2>4. rated # {}
    <3>1. Cardinality({}) = 0
      BY FS_EmptySet
    <3> HIDE DEF rated
    <3> QED BY <2>2, <3>1, BaselineAssumption
  <2>5. /\ Attribute(kind, d) = Rate(d)
        /\ \A m \in DOMAIN reg : Attribute(kind, reg[m]) = Rate(Asserted(p, m))
    BY <1>1, <2>1 DEF Attribute
  <2>6. rated \subseteq DOMAIN reg
    BY <1>2
  <2> HIDE DEF rated
  <2> QED BY <2>2, <2>3, <2>4, <2>5, <2>6 DEF EarnedFrom
<1>7. CASE f \in CheckNumberFormat(p, n)
  <2> DEFINE history == {m \in H : Asserted(p, m).doc_type = "invoice"}
             signed == {m \in history : Present(Asserted(p, m).num)}
             shapes == {Signature(Asserted(p, m).num) : m \in signed}
  <2>1. kind = "NUMBER_FORMAT_DEVIATION"
    BY <1>7 DEF CheckNumberFormat, Finding, Deviations
  <2>2. /\ Present(d.vendor)
        /\ Established(shapes, Cardinality(signed)) /\ Signature(d.num) \notin shapes
    BY <1>1, <1>7 DEF CheckNumberFormat
  <2>3. signed = others
    BY <1>0, <1>1, <1>2, <2>1, <2>2 DEF Supplies
  <2>4. shapes = values
    <3> QED BY <1>1, <1>2, <2>1, <2>3 DEF Attribute
  <2>5. Attribute(kind, d) = Signature(d.num)
    BY <2>1 DEF Attribute
  <2> HIDE DEF signed, shapes, values
  <2>6. Established(values, Cardinality(others)) /\ Attribute(kind, d) \notin values
    BY <2>2, <2>3, <2>4, <2>5
  <2> QED BY <1>4, <2>6
<1> QED BY <1>3, <1>5, <1>6, <1>7 DEF Evaluate

(* A departure from a vendor's tax id, tax rate or number format is        *)
(* reported only against enough other documents of it that all agree.      *)
THEOREM BaselinesAreWellFounded == Spec => []BaselinesAreEarned
<1>1. ASSUME Numbered PROVE BaselinesAreEarned
  <2> SUFFICES ASSUME NEW n \in DOMAIN Known, NEW kind \in Deviations, Raised(kind, n)
               PROVE  /\ Cardinality(Supplying(kind, n)) >= MinBaseline
                      /\ \E v \in {Attribute(kind, Known[m]) : m \in Supplying(kind, n)} :
                            /\ v # Attribute(kind, Known[n])
                            /\ \A m \in Supplying(kind, n) : Attribute(kind, Known[m]) = v
    BY DEF BaselinesAreEarned
  <2>1. Recorded = Provider(Known, Empty) /\ IsRegistry(Known)
    BY <1>1, KnownIsRegistry
  <2>2. PICK f \in Evaluate(Recorded, n, FALSE) : f.kind = kind
    BY DEF Raised
  <2>3. f \in Evaluate(Provider(Known, Empty), n, FALSE)
    BY <2>1, <2>2
  <2>4. EarnedFrom(Supplying(kind, n), kind, Known, n)
    <3>1. Supplying(kind, n) = {m \in Oldest({l \in DOMAIN Known : Known[l].vendor = Known[n].vendor},
                                             HistoryLimit) \ {n} : Supplies(kind, Known[m])}
      BY DEF Supplying
    <3> QED BY <2>1, <2>2, <2>3, <3>1, BaselineChecks, Zenon
  <2> QED BY <2>4 DEF EarnedFrom
<1> QED BY <1>1, NumberedInit, NumberedStep, PTL DEF Spec
=============================================================================
