--------------------------- MODULE Billing_proofs ---------------------------
(* That the webhook brings the user where Paddle is, however often an event  *)
(* comes again and wherever a handler dies (paddle_webhook), for any         *)
(* subscriptions and any number of events and of crashes.                    *)
(*                                                                           *)
(* The argument is about the queue of what is not yet answered.  Its first   *)
(* event can be handled from where the user is now (Ready), each of them     *)
(* leads to where the next one can be handled from (Follows), and the last   *)
(* one leads to where Paddle is (UpToDate).  Handling an event twice leads   *)
(* to the same place, and part of the handling keeps it Ready.               *)
EXTENDS Billing, SequenceTheorems, TLAPS

-----------------------------------------------------------------------------
(* The subscriptions p that Paddle has *)
LiveIn(p, s) == p[s] # None /\ p[s].status # "canceled"
OneLive(p) == \A r, s \in Subs : LiveIn(p, r) /\ LiveIn(p, s) => r = s
TierIn(p) ==
    IF \E s \in Subs : LiveIn(p, s) /\ p[s].price = "team" THEN "team"
    ELSE IF \E s \in Subs : LiveIn(p, s) /\ p[s].price = "pro" THEN "pro"
    ELSE "starter"

(* Where one subscription is paid for, its price is the tier.                *)
LEMMA TierOfTheOne ==
  ASSUME NEW p \in [Subs -> {None} \cup Subscriptions], OneLive(p),
         NEW s \in Subs, LiveIn(p, s)
  PROVE  TierIn(p) = p[s].price
<1>1. \A r \in Subs : LiveIn(p, r) => r = s
  BY DEF OneLive
<1>2. p[s] \in Subscriptions
  BY DEF LiveIn
<1>3. p[s].price \in {"pro", "team"}
  BY <1>2 DEF Subscriptions, Paying
<1> QED BY <1>1, <1>3 DEF TierIn

(* Without a live subscription the tier is the free one.                   *)
LEMMA TierOfNone ==
  ASSUME NEW p, \A s \in Subs : ~ LiveIn(p, s)
  PROVE  TierIn(p) = "starter"
BY DEF TierIn

-----------------------------------------------------------------------------
(* The numbers of the events *)

Numbered(q, n) ==
    \A i \in DOMAIN q :
        /\ q[i].id \in 1 .. n
        /\ \A j \in DOMAIN q : i < j => q[i].id < q[j].id

(* Events that are sent come after those that wait.                          *)
LEMMA Appended ==
  ASSUME NEW q \in Seq(Events), NEW new \in Seq(Events), new # <<>>
  PROVE  /\ q \o new \in Seq(Events)
         /\ DOMAIN (q \o new) = 1 .. Len(q) + Len(new)
         /\ Len(q \o new) = Len(q) + Len(new)
         /\ Len(new) \in Nat \ {0} /\ Len(q) \in Nat
         /\ \A i \in 1 .. Len(q) : (q \o new)[i] = q[i]
         /\ \A i \in 1 .. Len(new) : (q \o new)[Len(q) + i] = new[i]
<1>1. /\ q \o new \in Seq(Events)
      /\ Len(q \o new) = Len(q) + Len(new)
      /\ \A i \in 1 .. Len(q) + Len(new) :
            (q \o new)[i] = IF i <= Len(q) THEN q[i] ELSE new[i - Len(q)]
  BY ConcatProperties
<1>2. Len(q) \in Nat /\ Len(new) \in Nat \ {0}
  BY EmptySeq
<1>3. DOMAIN (q \o new) = 1 .. Len(q \o new)
  BY <1>1, LenProperties
<1> QED BY <1>1, <1>2, <1>3

(* Events sent under the next numbers keep the queue numbered in order.    *)
LEMMA SendKeepsNumbers ==
  ASSUME NEW q \in Seq(Events), NEW n \in Nat, Numbered(q, n),
         NEW new \in Seq(Events), new # <<>>,
         \A i \in 1 .. Len(new) : new[i].id = n + i
  PROVE  Numbered(q \o new, n + Len(new))
<1> DEFINE r == q \o new
<1>1. /\ DOMAIN r = 1 .. Len(q) + Len(new)
      /\ Len(new) \in Nat \ {0} /\ Len(q) \in Nat
      /\ \A i \in 1 .. Len(q) : r[i] = q[i]
      /\ \A i \in 1 .. Len(new) : r[Len(q) + i] = new[i]
  BY Appended
<1>2. DOMAIN q = 1 .. Len(q)
  BY LenProperties
<1> HIDE DEF r
<1>3. ASSUME NEW i \in 1 .. Len(q)
      PROVE  r[i].id \in 1 .. n
  BY <1>1, <1>2 DEF Numbered
<1>4. ASSUME NEW i \in Len(q) + 1 .. Len(q) + Len(new)
      PROVE  r[i].id = n + (i - Len(q))
  <2>1. i - Len(q) \in 1 .. Len(new) /\ Len(q) + (i - Len(q)) = i
    BY <1>1
  <2>2. r[Len(q) + (i - Len(q))] = new[i - Len(q)]
    BY <1>1, <2>1
  <2> QED BY <2>1, <2>2
<1>5. ASSUME NEW i \in DOMAIN r
      PROVE  r[i].id \in 1 .. n + Len(new)
  <2>1. CASE i \in 1 .. Len(q)
    BY <1>1, <1>3, <2>1
  <2>2. CASE i \in Len(q) + 1 .. Len(q) + Len(new)
    BY <1>1, <1>4, <2>2
  <2> QED BY <1>1, <2>1, <2>2
<1>6. ASSUME NEW i \in DOMAIN r, NEW j \in DOMAIN r, i < j
      PROVE  r[i].id < r[j].id
  <2>1. CASE j \in 1 .. Len(q)
    <3>1. i \in 1 .. Len(q)
      BY <1>1, <1>6, <2>1
    <3>2. q[i].id < q[j].id
      BY <1>2, <1>6, <2>1, <3>1 DEF Numbered
    <3> QED BY <1>1, <2>1, <3>1, <3>2
  <2>2. CASE j \in Len(q) + 1 .. Len(q) + Len(new) /\ i \in 1 .. Len(q)
    BY <1>1, <1>3, <1>4, <2>2
  <2>3. CASE j \in Len(q) + 1 .. Len(q) + Len(new) /\ i \in Len(q) + 1 .. Len(q) + Len(new)
    BY <1>1, <1>4, <1>6, <2>3
  <2> QED BY <1>1, <2>1, <2>2, <2>3
<1> QED BY <1>5, <1>6 DEF Numbered, r

(* Without one of the events, the others keep their numbers.                 *)
LEMMA Removed ==
  ASSUME NEW q \in Seq(Events), NEW k \in DOMAIN q
  PROVE  /\ RemoveAt(q, k) \in Seq(Events)
         /\ Len(RemoveAt(q, k)) = Len(q) - 1
         /\ DOMAIN RemoveAt(q, k) = 1 .. Len(q) - 1
         /\ DOMAIN q = 1 .. Len(q) /\ Len(q) \in Nat
         /\ \A i \in 1 .. Len(q) - 1 :
               RemoveAt(q, k)[i] = IF i < k THEN q[i] ELSE q[i + 1]
<1> DEFINE a == SubSeq(q, 1, k - 1)
           b == SubSeq(q, k + 1, Len(q))
<1>0. DOMAIN q = 1 .. Len(q) /\ Len(q) \in Nat /\ k \in Int /\ 1 <= k /\ k <= Len(q)
  BY LenProperties
<1>1. /\ a \in Seq(Events) /\ Len(a) = k - 1
      /\ \A i \in 1 .. k - 1 : a[i] = q[i]
  <2>1. \A i \in 1 .. k - 1 : q[i] \in Events
    BY <1>0, ElementOfSeq
  <2>2. /\ a \in Seq(Events) /\ Len(a) = IF 1 <= k - 1 THEN k - 1 - 1 + 1 ELSE 0
        /\ \A i \in 1 .. k - 1 - 1 + 1 : a[i] = q[1 + i - 1]
    <3>1. 1 \in Int /\ k - 1 \in Int
      BY <1>0
    <3> QED BY <2>1, <3>1, SubSeqProperties
  <2> QED BY <1>0, <2>2
<1>2. /\ b \in Seq(Events) /\ Len(b) = Len(q) - k
      /\ \A i \in 1 .. Len(q) - k : b[i] = q[k + i]
  <2>1. \A i \in k + 1 .. Len(q) : q[i] \in Events
    BY <1>0, ElementOfSeq
  <2>2. /\ b \in Seq(Events)
        /\ Len(b) = IF k + 1 <= Len(q) THEN Len(q) - (k + 1) + 1 ELSE 0
        /\ \A i \in 1 .. Len(q) - (k + 1) + 1 : b[i] = q[k + 1 + i - 1]
    <3>1. k + 1 \in Int /\ Len(q) \in Int
      BY <1>0
    <3> QED BY <2>1, <3>1, SubSeqProperties
  <2> QED BY <1>0, <2>2
<1> HIDE DEF a, b
<1>3. /\ a \o b \in Seq(Events) /\ Len(a \o b) = Len(a) + Len(b)
      /\ \A i \in 1 .. Len(a) + Len(b) : (a \o b)[i] = IF i <= Len(a) THEN a[i] ELSE b[i - Len(a)]
  BY <1>1, <1>2, ConcatProperties
<1>4. RemoveAt(q, k) = a \o b
  BY DEF RemoveAt, a, b
<1>5. ASSUME NEW i \in 1 .. Len(q) - 1
      PROVE  (a \o b)[i] = IF i < k THEN q[i] ELSE q[i + 1]
  <2>1. CASE i < k
    BY <1>0, <1>1, <1>2, <1>3, <2>1
  <2>2. CASE ~ (i < k)
    <3>1. i - (k - 1) \in 1 .. Len(q) - k /\ k + (i - (k - 1)) = i + 1
      BY <1>0, <2>2
    <3>2. (a \o b)[i] = b[i - (k - 1)]
      BY <1>0, <1>1, <1>2, <1>3, <2>2, SMTT(30)
    <3> QED BY <1>2, <2>2, <3>1, <3>2
  <2> QED BY <2>1, <2>2
<1>6. Len(a \o b) = Len(q) - 1
  BY <1>0, <1>1, <1>2, <1>3
<1>7. DOMAIN (a \o b) = 1 .. Len(q) - 1
  BY <1>3, <1>6, LenProperties
<1> QED BY <1>0, <1>3, <1>4, <1>5, <1>6, <1>7

(* So does taking any event out of it.                                     *)
LEMMA RemovalKeepsNumbers ==
  ASSUME NEW q \in Seq(Events), NEW n \in Nat, Numbered(q, n), NEW k \in DOMAIN q
  PROVE  Numbered(RemoveAt(q, k), n)
<1> DEFINE r == RemoveAt(q, k)
           at(i) == IF i < k THEN i ELSE i + 1
<1>1. /\ DOMAIN r = 1 .. Len(q) - 1 /\ DOMAIN q = 1 .. Len(q) /\ Len(q) \in Nat
      /\ \A i \in 1 .. Len(q) - 1 : r[i] = IF i < k THEN q[i] ELSE q[i + 1]
  BY Removed
<1> HIDE DEF r
<1>2. ASSUME NEW i \in DOMAIN r
      PROVE  at(i) \in DOMAIN q /\ r[i] = q[at(i)]
  BY <1>1
<1>3. ASSUME NEW i \in DOMAIN r, NEW j \in DOMAIN r, i < j
      PROVE  at(i) < at(j)
  BY <1>1, <1>3
<1> HIDE DEF at
<1> QED BY <1>2, <1>3 DEF Numbered, r

-----------------------------------------------------------------------------
(* Types *)

(* What the types rest on: a handler that has begun has got an event.        *)
Typed ==
    /\ TypeOK
    /\ Numbered(queue, sent)
    /\ open \subseteq Paying
    /\ step # "idle" => handling \in Events

(* Initially everything has its type.                                      *)
LEMMA TypedInit == Init => Typed
<1> SUFFICES ASSUME Init PROVE Typed
  OBVIOUS
<1> USE BillingAssumption
<1>1. paid \in [Subs -> {None} \cup Subscriptions]
  BY DEF Init
<1>2. queue \in Seq(Events) /\ Numbered(queue, sent)
  BY DEF Init, Numbered
<1>3. tier \in DOMAIN TierRank
  BY DEF Init, TierRank
<1>4. paddle \in [sub : Subs \cup {None}, status : {"none", "active", "past_due", "canceled"}]
  BY DEF Init, NoPaddle
<1> QED BY <1>1, <1>2, <1>3, <1>4 DEF Typed, TypeOK, Init

Kinds == {"subscription.created", "subscription.updated", "subscription.canceled",
          "subscription.past_due", "transaction.completed"}

(* An event tells of a subscription as it is.                                *)
LEMMA EventType ==
  ASSUME Typed, NEW n \in {1, 2}, sent + n <= MaxEvents,
         NEW type \in Kinds, NEW s \in Subs, NEW sub \in Subscriptions
  PROVE  /\ Event(type, n, s, sub) \in Events
         /\ Event(type, n, s, sub).id = sent + n
<1>1. sent + n \in 1 .. MaxEvents
  BY BillingAssumption DEF Typed, TypeOK
<1>2. /\ sub.status \in {"active", "past_due", "canceled"}
      /\ sub.price \in Paying /\ sub.custom \in Paying
  BY DEF Subscriptions
<1> QED BY <1>1, <1>2 DEF Event, Events, Kinds

(* What Paddle does keeps the types.                                         *)
LEMMA SendTyped ==
  ASSUME Typed, NEW new \in Seq(Events), new # <<>>,
         \A i \in 1 .. Len(new) : new[i].id = sent + i,
         sent + Len(new) <= MaxEvents, Send(new),
         NEW s \in Subs, NEW sub \in Subscriptions, paid' = [paid EXCEPT ![s] = sub],
         UNCHANGED <<open, user, handling, step, crashes>>
  PROVE  Typed'
<1>1. sent \in Nat /\ queue \in Seq(Events) /\ Numbered(queue, sent)
  BY BillingAssumption DEF Typed, TypeOK
<1>2. Len(new) \in Nat /\ queue' \in Seq(Events)
  BY <1>1, Appended DEF Send
<1>3. Numbered(queue', sent')
  BY <1>1, SendKeepsNumbers DEF Send
<1>4. sent' \in 0 .. MaxEvents
  BY <1>1, <1>2, BillingAssumption DEF Send
<1>5. paid' \in [Subs -> {None} \cup Subscriptions]
  BY DEF Typed, TypeOK
<1> QED BY <1>2, <1>3, <1>4, <1>5 DEF Typed, TypeOK, user

-----------------------------------------------------------------------------
(* The order of the events *)

(* The tier that an event leads to, handled where it is due.                 *)
After(e) ==
    CASE e.type \in {"subscription.created", "transaction.completed"} -> e.custom
      [] e.type = "subscription.canceled" -> "starter"
      [] e.type \in {"subscription.updated", "subscription.past_due"} -> e.price

(* An event has the status that its type tells of.                           *)
Sound(e) ==
    e.status = CASE e.type = "subscription.canceled" -> "canceled"
                 [] e.type = "subscription.past_due" -> "past_due"
                 [] OTHER -> "active"

(* These two say of the subscription only what the user's record says not.   *)
Leaning == {"subscription.past_due", "subscription.canceled"}

Ready(e) ==
    /\ e.type \in Leaning => paddle.sub = e.sub
    /\ e.type = "subscription.past_due" => tier = e.price

Follows(d, e) ==
    /\ e.type \in Leaning => d.sub = e.sub
    /\ e.type = "subscription.past_due" => After(d) = e.price

Handled(e) == tier = After(e) /\ paddle = [sub |-> e.sub, status |-> e.status]

UpToDate(e, p) ==
    /\ After(e) = TierIn(p)
    /\ p[e.sub] # None /\ p[e.sub].status = e.status
    /\ \A s \in Subs : LiveIn(p, s) => s = e.sub

InStep ==
    /\ tier = TierIn(paid)
    /\ \A s \in Subs : LiveIn(paid, s) \/ paddle.sub = s =>
          /\ paid[s] # None
          /\ paddle = [sub |-> s, status |-> paid[s].status]

(* One checkout is one price, unless a plan may be changed.                  *)
AsBought == "change" \notin mix => \A s \in Subs : paid[s] # None => paid[s].price = paid[s].custom

InOrder ==
    /\ OneLive(paid)
    /\ AsBought
    /\ \A i \in 1 .. Len(queue) - 1 : Follows(queue[i], queue[i + 1])
    /\ \A i \in 1 .. Len(queue) : Sound(queue[i])
    /\ queue # <<>> => Ready(queue[1]) /\ UpToDate(queue[Len(queue)], paid)
    /\ queue = <<>> => InStep
    /\ step # "idle" => queue # <<>> /\ handling = queue[1]
    /\ step = "fields" => tier = After(queue[1])
    /\ step = "answer" => Handled(queue[1])

IInv == Typed /\ (Orderly => InOrder)

(* Initially user and Paddle agree and nothing is under way.               *)
LEMMA OrderInit == Init => InOrder
<1> SUFFICES ASSUME Init PROVE InOrder
  OBVIOUS
<1>1. \A s \in Subs : paid[s] = None
  BY DEF Init
<1>2. \A s \in Subs : ~ LiveIn(paid, s)
  BY <1>1 DEF LiveIn
<1>3. TierIn(paid) = "starter"
  BY <1>2, TierOfNone
<1>4. \A s \in Subs : paddle.sub # s
  BY BillingAssumption DEF Init, NoPaddle
<1>5. InStep
  BY <1>2, <1>3, <1>4 DEF InStep, Init
<1>6. queue = <<>> /\ Len(queue) = 0 /\ step = "idle"
  BY DEF Init
<1> QED BY <1>1, <1>2, <1>5, <1>6 DEF InOrder, OneLive, AsBought

(* What Paddle does to a subscription, and what it tells of it *)
Change(s, sub, new) ==
    /\ sub \in Subscriptions /\ paid' = [paid EXCEPT ![s] = sub]
    /\ new \in Seq(Events) /\ new # <<>> /\ Send(new)
    /\ \A i \in 1 .. Len(new) : new[i].id = sent + i
    /\ sent + Len(new) <= MaxEvents
    /\ UNCHANGED <<mix, open, user, handling, step, crashes>>

Tells(s, sub, new) ==
    /\ \A i \in 1 .. Len(new) : Sound(new[i])
    /\ \A i \in 2 .. Len(new) : new[i].type \notin Leaning
    /\ new[1].type \in Leaning => LiveIn(paid, s) /\ new[1].sub = s
    /\ new[1].type = "subscription.past_due" => new[1].price = paid[s].price
    /\ LET e == new[Len(new)] IN
        /\ e.sub = s /\ e.status = sub.status
        /\ After(e) = IF sub.status = "canceled" THEN "starter" ELSE sub.price
    /\ LiveIn(paid, s) \/ \A r \in Subs : ~ LiveIn(paid, r)
    /\ "change" \notin mix => sub.price = sub.custom

(* Whatever is said so keeps the order: the queue leads to where Paddle now  *)
(* is.                                                                       *)
LEMMA TellingKeepsOrder ==
  ASSUME Typed, InOrder, NEW s \in Subs, NEW sub, NEW new,
         Change(s, sub, new), Tells(s, sub, new)
  PROVE  InOrder'
<1>1. /\ queue \in Seq(Events) /\ queue' = queue \o new
      /\ new \in Seq(Events) /\ new # <<>>
  BY DEF Typed, TypeOK, Change, Send
<1>2. /\ Len(queue') = Len(queue) + Len(new)
      /\ Len(new) \in Nat \ {0} /\ Len(queue) \in Nat
      /\ \A i \in 1 .. Len(queue) : queue'[i] = queue[i]
      /\ \A i \in 1 .. Len(new) : queue'[Len(queue) + i] = new[i]
  BY <1>1, Appended
<1>3. paid \in [Subs -> {None} \cup Subscriptions] /\ sub \in Subscriptions /\ sub # None
  BY BillingAssumption DEF Typed, TypeOK, Change
<1>4. paid'[s] = sub /\ \A r \in Subs \ {s} : paid'[r] = paid[r]
  BY <1>3 DEF Change
<1>5. paid' \in [Subs -> {None} \cup Subscriptions]
  BY <1>3 DEF Change
<1>6. \A r \in Subs : LiveIn(paid', r) => r = s
  BY <1>4 DEF LiveIn, InOrder, OneLive, Tells
<1>7. OneLive(paid')
  BY <1>6 DEF OneLive
<1>8. AsBought'
  BY <1>4 DEF AsBought, InOrder, Tells, Change
<1>9. TierIn(paid') = IF sub.status = "canceled" THEN "starter" ELSE sub.price
  <2>1. CASE sub.status = "canceled"
    <3>1. ~ LiveIn(paid', s)
      BY <1>4, <2>1 DEF LiveIn
    <3>2. \A r \in Subs : ~ LiveIn(paid', r)
      BY <1>6, <3>1
    <3> QED BY <2>1, <3>2, TierOfNone
  <2>2. CASE sub.status # "canceled"
    <3>1. LiveIn(paid', s)
      BY <1>3, <1>4, <2>2 DEF LiveIn
    <3>2. TierIn(paid') = paid'[s].price
      BY <1>5, <1>7, <3>1, TierOfTheOne
    <3> QED BY <1>4, <2>2, <3>2
  <2> QED BY <2>1, <2>2
<1>10. UpToDate(queue'[Len(queue')], paid')
  <2>1. queue'[Len(queue')] = new[Len(new)]
    BY <1>2
  <2>2. UpToDate(new[Len(new)], paid')
    BY <1>3, <1>4, <1>6, <1>9 DEF UpToDate, Tells
  <2> QED BY <2>1, <2>2
<1>11. LiveIn(paid, s) => TierIn(paid) = paid[s].price
  BY <1>3, TierOfTheOne DEF InOrder
<1>12. ASSUME NEW i \in 1 .. Len(queue')
       PROVE  \/ i \in 1 .. Len(queue) /\ queue'[i] = queue[i]
              \/ /\ i - Len(queue) \in 1 .. Len(new)
                 /\ queue'[i] = new[i - Len(queue)]
  <2>1. CASE i <= Len(queue)
    BY <1>2, <2>1
  <2>2. CASE i > Len(queue)
    <3>1. i - Len(queue) \in 1 .. Len(new) /\ Len(queue) + (i - Len(queue)) = i
      BY <1>2, <2>2
    <3>2. queue'[Len(queue) + (i - Len(queue))] = new[i - Len(queue)]
      BY <1>2, <3>1
    <3> QED BY <3>1, <3>2
  <2> QED BY <1>2, <2>1, <2>2
<1>13. \A i \in 1 .. Len(queue') : Sound(queue'[i])
  BY <1>12 DEF InOrder, Tells
<1>14. ASSUME queue # <<>>
       PROVE  Follows(queue[Len(queue)], new[1])
  <2>1. UpToDate(queue[Len(queue)], paid)
    BY <1>14 DEF InOrder
  <2>2. ASSUME new[1].type \in Leaning
        PROVE  queue[Len(queue)].sub = new[1].sub
    BY <2>1, <2>2 DEF UpToDate, Tells
  <2>3. ASSUME new[1].type = "subscription.past_due"
        PROVE  After(queue[Len(queue)]) = new[1].price
    BY <1>11, <2>1, <2>3 DEF UpToDate, Tells, Leaning
  <2> QED BY <2>2, <2>3 DEF Follows
<1>15. ASSUME NEW i \in 1 .. Len(queue') - 1
       PROVE  Follows(queue'[i], queue'[i + 1])
  <2>1. CASE i < Len(queue)
    <3>1. i \in 1 .. Len(queue) - 1 /\ queue'[i] = queue[i] /\ queue'[i + 1] = queue[i + 1]
      BY <1>2, <2>1
    <3> QED BY <3>1 DEF InOrder
  <2>2. CASE i = Len(queue)
    <3>1. queue'[i] = queue[i] /\ queue'[i + 1] = new[1] /\ queue # <<>>
      BY <1>2, <2>2
    <3> QED BY <1>14, <2>2, <3>1
  <2>3. CASE i > Len(queue)
    <3>1. i + 1 - Len(queue) \in 2 .. Len(new) /\ queue'[i + 1] = new[i + 1 - Len(queue)]
      BY <1>2, <1>12, <2>3
    <3> QED BY <3>1 DEF Follows, Tells, Leaning
  <2> QED BY <1>2, <2>1, <2>2, <2>3
<1>16. /\ tier' = tier /\ paddle' = paddle /\ step' = step /\ handling' = handling
  BY DEF Change, user
<1>17. CASE queue # <<>>
  <2>1. queue'[1] = queue[1] /\ queue' # <<>>
    <3>1. 1 \in 1 .. Len(queue) /\ Len(queue') # 0
      BY <1>1, <1>2, <1>17, EmptySeq
    <3> QED BY <1>2, <3>1
  <2>2. Ready(queue[1])'
    BY <1>16, <1>17, <2>1 DEF InOrder, Ready
  <2>3. /\ step' # "idle" => handling' = queue'[1]
        /\ step' = "fields" => tier' = After(queue'[1])
        /\ step' = "answer" => Handled(queue[1])'
    BY <1>16, <1>17, <2>1 DEF InOrder, Handled
  <2> QED BY <1>7, <1>8, <1>10, <1>13, <1>15, <2>1, <2>2, <2>3 DEF InOrder
<1>18. CASE queue = <<>>
  <2>1. queue'[1] = new[1] /\ queue' # <<>>
    <3>1. Len(queue) = 0 /\ Len(queue') # 0
      BY <1>2, <1>18
    <3>2. queue'[0 + 1] = new[1] /\ queue' # <<>>
      BY <1>2, <3>1
    <3> QED BY <3>2
  <2>2. InStep /\ step = "idle"
    BY <1>18 DEF InOrder
  <2>3. ASSUME new[1].type \in Leaning
        PROVE  paddle.sub = new[1].sub
    <3>1. LiveIn(paid, s) /\ new[1].sub = s
      BY <2>3 DEF Tells
    <3>2. paddle = [sub |-> s, status |-> paid[s].status]
      BY <2>2, <3>1 DEF InStep
    <3> QED BY <3>1, <3>2
  <2>4. ASSUME new[1].type = "subscription.past_due"
        PROVE  tier = new[1].price
    BY <1>11, <2>2, <2>4 DEF Tells, Leaning, InStep
  <2>5. Ready(queue[1])'
    BY <1>16, <2>1, <2>3, <2>4 DEF Ready
  <2> QED BY <1>7, <1>8, <1>10, <1>13, <1>15, <1>16, <2>1, <2>2, <2>5 DEF InOrder
<1> QED BY <1>17, <1>18

-----------------------------------------------------------------------------
(* What each change of a subscription tells *)

Telling(s) ==
    \E sub, new : Change(s, sub, new) /\ (Orderly /\ InOrder => Tells(s, sub, new))

(* One event that says how the subscription is now.                          *)
LEMMA TellsOne ==
  ASSUME Typed, NEW type \in Kinds, NEW s \in Subs, NEW sub \in Subscriptions,
         sent + 1 <= MaxEvents, Becomes(s, sub, type),
         UNCHANGED <<mix, open, user, handling, step, crashes>>
  PROVE  Change(s, sub, <<Event(type, 1, s, sub)>>)
<1> DEFINE e == Event(type, 1, s, sub)
<1>1. e \in Events /\ e.id = sent + 1
  BY EventType
<1>2. <<e>> \in Seq(Events) /\ <<e>> # <<>> /\ Len(<<e>>) = 1 /\ <<e>>[1] = e
  <2> HIDE DEF e
  <2> QED BY <1>1
<1>3. paid' = [paid EXCEPT ![s] = sub] /\ Send(<<e>>)
  BY DEF Becomes
<1> HIDE DEF e
<1>4. \A i \in 1 .. Len(<<e>>) : <<e>>[i].id = sent + i
  BY <1>1, <1>2
<1>5. Change(s, sub, <<e>>)
  BY <1>2, <1>3, <1>4 DEF Change
<1> QED BY <1>5 DEF e

(* A change of one subscription that Paddle tells in two events is a       *)
(* Change.                                                                 *)
LEMMA TellsTwo ==
  ASSUME Typed, NEW first \in Kinds, NEW second \in Kinds,
         NEW s \in Subs, NEW sub \in Subscriptions,
         sent + 2 <= MaxEvents, paid' = [paid EXCEPT ![s] = sub],
         Send(<<Event(first, 1, s, sub), Event(second, 2, s, sub)>>),
         UNCHANGED <<mix, open, user, handling, step, crashes>>
  PROVE  Change(s, sub, <<Event(first, 1, s, sub), Event(second, 2, s, sub)>>)
<1> DEFINE e == Event(first, 1, s, sub)
           f == Event(second, 2, s, sub)
<1>1. sent + 1 <= MaxEvents
  BY BillingAssumption DEF Typed, TypeOK
<1>2. e \in Events /\ e.id = sent + 1 /\ f \in Events /\ f.id = sent + 2
  BY <1>1, EventType
<1>3. Send(<<e, f>>)
  OBVIOUS
<1> HIDE DEF e, f
<1>4. /\ <<e, f>> \in Seq(Events) /\ <<e, f>> # <<>> /\ Len(<<e, f>>) = 2
      /\ <<e, f>>[1] = e /\ <<e, f>>[2] = f
  BY <1>2
<1>5. \A i \in 1 .. Len(<<e, f>>) : <<e, f>>[i].id = sent + i
  BY <1>2, <1>4
<1>6. Change(s, sub, <<e, f>>)
  BY <1>3, <1>4, <1>5 DEF Change
<1> QED BY <1>6 DEF e, f

(* A payment is told.                                                      *)
LEMMA PayTells ==
  ASSUME Typed, UNCHANGED mix, NEW s \in Subs, Pay(s)
  PROVE  Telling(s)
<1>1. PICK t \in open :
        /\ Happens("checkout", 2)
        /\ "twice" \in mix \/ \A r \in Subs : ~Live(r)
        /\ paid' = [paid EXCEPT ![s] = [status |-> "active", price |-> t, custom |-> t]]
        /\ Send(<<Event("subscription.created", 1, s, [status |-> "active", price |-> t, custom |-> t]),
                  Event("transaction.completed", 2, s, [status |-> "active", price |-> t, custom |-> t])>>)
  BY DEF Pay
<1> DEFINE sub == [status |-> "active", price |-> t, custom |-> t]
           e == Event("subscription.created", 1, s, sub)
           f == Event("transaction.completed", 2, s, sub)
<1>2. sub \in Subscriptions
  BY DEF Typed, Subscriptions
<1>3. Change(s, sub, <<e, f>>)
  <2>1. {"subscription.created", "transaction.completed"} \subseteq Kinds
    BY DEF Kinds
  <2> HIDE DEF sub
  <2> QED BY <1>1, <1>2, <2>1, TellsTwo DEF Happens, sub
<1>4. /\ e.type = "subscription.created" /\ f.type = "transaction.completed"
      /\ e.status = "active" /\ f.status = "active" /\ f.sub = s /\ f.custom = t
  BY DEF Event
<1>5. Sound(e) /\ Sound(f) /\ After(f) = t
  BY <1>4 DEF Sound, After
<1>6. ASSUME Orderly
      PROVE  \A r \in Subs : ~ LiveIn(paid, r)
  BY <1>1, <1>6 DEF Orderly, Live, LiveIn
<1>7. sub.status = "active" /\ sub.price = t /\ sub.custom = t
  OBVIOUS
<1> HIDE DEF e, f, sub
<1>8. Len(<<e, f>>) = 2 /\ <<e, f>>[1] = e /\ <<e, f>>[2] = f
  OBVIOUS
<1>9. ASSUME Orderly
      PROVE  Tells(s, sub, <<e, f>>)
  BY <1>4, <1>5, <1>6, <1>7, <1>8, <1>9 DEF Tells, Leaning
<1> QED BY <1>3, <1>9 DEF Telling

(* A payment that succeeds after all is told.                              *)
LEMMA RecoveryTells ==
  ASSUME Typed, UNCHANGED mix, NEW s \in Subs, PaymentRecovers(s)
  PROVE  Telling(s)
<1> DEFINE sub == [paid[s] EXCEPT !.status = "active"]
           e == Event("transaction.completed", 1, s, sub)
           f == Event("subscription.updated", 2, s, sub)
<1>1. paid[s] \in Subscriptions /\ LiveIn(paid, s)
  BY DEF PaymentRecovers, Live, LiveIn, Typed, TypeOK
<1>2. /\ sub \in Subscriptions /\ sub.status = "active"
      /\ sub.price = paid[s].price /\ sub.custom = paid[s].custom
  BY <1>1 DEF Subscriptions
<1>3. Happens("fail", 2) /\ paid' = [paid EXCEPT ![s] = sub] /\ Send(<<e, f>>)
  BY DEF PaymentRecovers
<1>4. Change(s, sub, <<e, f>>)
  <2>1. {"subscription.updated", "transaction.completed"} \subseteq Kinds
    BY DEF Kinds
  <2> HIDE DEF sub
  <2> QED BY <1>2, <1>3, <2>1, TellsTwo DEF Happens
<1>5. /\ e.type = "transaction.completed" /\ f.type = "subscription.updated"
      /\ e.status = sub.status /\ f.status = sub.status /\ f.sub = s /\ f.price = sub.price
  BY DEF Event
<1> HIDE DEF e, f, sub
<1>6. Sound(e) /\ Sound(f) /\ After(f) = sub.price
  BY <1>2, <1>5 DEF Sound, After
<1>7. Len(<<e, f>>) = 2 /\ <<e, f>>[1] = e /\ <<e, f>>[2] = f
  OBVIOUS
<1>8. ASSUME InOrder
      PROVE  "change" \notin mix => sub.price = sub.custom
  BY <1>1, <1>2, <1>8 DEF InOrder, AsBought, LiveIn
<1>9. ASSUME InOrder
      PROVE  Tells(s, sub, <<e, f>>)
  BY <1>1, <1>2, <1>5, <1>6, <1>7, <1>8, <1>9 DEF Tells, Leaning
<1> QED BY <1>4, <1>9 DEF Telling

(* The other four tell of the subscription in one event.                     *)
LEMMA OneEventTells ==
  ASSUME Typed, UNCHANGED mix, NEW s \in Subs, NEW kind, NEW type \in Kinds, NEW sub,
         Happens(kind, 1), Live(s), sub \in Subscriptions, Becomes(s, sub, type),
         sub.status = CASE type = "subscription.canceled" -> "canceled"
                        [] type = "subscription.past_due" -> "past_due"
                        [] OTHER -> "active",
         type # "subscription.created",
         type = "transaction.completed" => ~ Orderly \/ ~ InOrder \/ sub.custom = sub.price,
         type # "subscription.updated" => sub.price = paid[s].price,
         sub.custom = paid[s].custom, "change" \notin mix => sub.price = paid[s].price
  PROVE  Telling(s)
<1> DEFINE e == Event(type, 1, s, sub)
<1>1. Change(s, sub, <<e>>)
  BY TellsOne DEF Happens
<1>2. /\ e.type = type /\ e.status = sub.status /\ e.sub = s
      /\ e.price = sub.price /\ e.custom = sub.custom
  BY DEF Event
<1> HIDE DEF e
<1>3. Sound(e)
  BY <1>2 DEF Sound
<1>4. Len(<<e>>) = 1 /\ <<e>>[1] = e
  OBVIOUS
<1>5. LiveIn(paid, s)
  BY DEF Live, LiveIn
<1>6. ASSUME Orderly, InOrder
      PROVE  After(e) = IF sub.status = "canceled" THEN "starter" ELSE sub.price
  <2>1. CASE type = "transaction.completed"
    BY <1>2, <1>6, <2>1 DEF After
  <2>2. CASE type = "subscription.canceled"
    BY <1>2, <2>2 DEF After
  <2>3. CASE type = "subscription.past_due"
    BY <1>2, <2>3 DEF After
  <2>4. CASE type = "subscription.updated"
    BY <1>2, <2>4 DEF After
  <2> QED BY <2>1, <2>2, <2>3, <2>4 DEF Kinds
<1>7. ASSUME InOrder, "change" \notin mix
      PROVE  sub.price = sub.custom
  BY <1>5, <1>7 DEF InOrder, AsBought, LiveIn
<1>8. ASSUME Orderly, InOrder
      PROVE  Tells(s, sub, <<e>>)
  BY <1>2, <1>3, <1>4, <1>5, <1>6, <1>7, <1>8 DEF Tells
<1> QED BY <1>1, <1>8 DEF Telling

(* What Paddle changes of a running subscription is told.                  *)
LEMMA ChangeTells ==
  ASSUME Typed, UNCHANGED mix, NEW s \in Subs,
         ChangePlan(s) \/ Renew(s) \/ PaymentFails(s) \/ CancelSub(s)
  PROVE  Telling(s)
<1>1. ASSUME Live(s)
      PROVE  paid[s] \in Subscriptions
  BY <1>1 DEF Live, Typed, TypeOK
<1>2. CASE ChangePlan(s)
  <2>1. PICK t \in Paying :
          /\ Happens("change", 1) /\ Live(s) /\ paid[s].status = "active"
          /\ Becomes(s, [paid[s] EXCEPT !.price = t], "subscription.updated")
    BY <1>2 DEF ChangePlan
  <2> DEFINE sub == [paid[s] EXCEPT !.price = t]
  <2>2. sub \in Subscriptions /\ sub.status = "active" /\ sub.custom = paid[s].custom
    BY <1>1, <2>1 DEF Subscriptions
  <2>3. "change" \in mix
    BY <2>1 DEF Happens
  <2>4. Becomes(s, sub, "subscription.updated")
    BY <2>1
  <2>5. "subscription.updated" \in Kinds
    BY DEF Kinds
  <2> HIDE DEF sub
  <2> QED BY <2>1, <2>2, <2>3, <2>4, <2>5, OneEventTells
<1>3. CASE Renew(s)
  <2>1. /\ Happens("renew", 1) /\ Live(s) /\ paid[s].status = "active"
        /\ Becomes(s, paid[s], "transaction.completed")
    BY <1>3 DEF Renew
  <2>2. ASSUME Orderly, InOrder
        PROVE  paid[s].custom = paid[s].price
    <3>1. "change" \notin mix
      BY <2>1, <2>2 DEF Orderly, Happens
    <3> QED BY <2>1, <2>2, <3>1 DEF InOrder, AsBought, Live
  <2>3. "transaction.completed" \in Kinds
    BY DEF Kinds
  <2> QED BY <1>1, <2>1, <2>2, <2>3, OneEventTells
<1>4. CASE PaymentFails(s)
  <2> DEFINE sub == [paid[s] EXCEPT !.status = "past_due"]
  <2>1. Happens("fail", 1) /\ Live(s) /\ Becomes(s, sub, "subscription.past_due")
    BY <1>4 DEF PaymentFails
  <2>2. /\ sub \in Subscriptions /\ sub.status = "past_due"
        /\ sub.custom = paid[s].custom /\ sub.price = paid[s].price
    BY <1>1, <2>1 DEF Subscriptions
  <2>3. "subscription.past_due" \in Kinds
    BY DEF Kinds
  <2> HIDE DEF sub
  <2> QED BY <2>1, <2>2, <2>3, OneEventTells
<1>5. CASE CancelSub(s)
  <2> DEFINE sub == [paid[s] EXCEPT !.status = "canceled"]
  <2>1. Happens("cancel", 1) /\ Live(s) /\ Becomes(s, sub, "subscription.canceled")
    BY <1>5 DEF CancelSub
  <2>2. /\ sub \in Subscriptions /\ sub.status = "canceled"
        /\ sub.custom = paid[s].custom /\ sub.price = paid[s].price
    BY <1>1, <2>1 DEF Subscriptions
  <2>3. "subscription.canceled" \in Kinds
    BY DEF Kinds
  <2> HIDE DEF sub
  <2> QED BY <2>1, <2>2, <2>3, OneEventTells
<1> QED BY <1>2, <1>3, <1>4, <1>5

(* What happens at Paddle keeps the invariant.                               *)
LEMMA TellingKeeps ==
  ASSUME IInv, UNCHANGED mix, NEW s \in Subs, Telling(s)
  PROVE  IInv'
<1>1. PICK sub, new : Change(s, sub, new) /\ (Orderly /\ InOrder => Tells(s, sub, new))
  BY DEF Telling
<1>2. Typed'
  BY <1>1, SendTyped DEF IInv, Change
<1>3. ASSUME Orderly
      PROVE  InOrder'
  BY <1>1, <1>3, TellingKeepsOrder DEF IInv
<1>4. Orderly' <=> Orderly
  BY DEF Orderly
<1> QED BY <1>2, <1>3, <1>4 DEF IInv

-----------------------------------------------------------------------------
(* The webhook *)

(* Handled in order, an event that is answered is the first one.             *)
LEMMA TheFirstIsSettled ==
  ASSUME NEW q \in Seq(Events), NEW n \in Nat, Numbered(q, n), q # <<>>,
         NEW i \in DOMAIN q, q[i] = q[1]
  PROVE  i = 1
<1>1. DOMAIN q = 1 .. Len(q) /\ Len(q) \in Nat \ {0}
  BY LenProperties, EmptySeq
<1>2. 1 \in DOMAIN q
  BY <1>1
<1>3. ASSUME 1 < i
      PROVE  FALSE
  <2>1. q[1].id < q[i].id /\ q[1].id \in 1 .. n /\ q[i].id = q[1].id
    BY <1>2, <1>3 DEF Numbered
  <2> QED BY <2>1
<1> QED BY <1>1, <1>3

(* Opening a checkout changes neither queue nor user.                      *)
LEMMA CheckoutKeeps ==
  ASSUME IInv, UNCHANGED mix, checkout_config
  PROVE  IInv'
<1>1. PICK t \in Paying \ open : open' = open \cup {t}
  BY DEF checkout_config
<1>2. UNCHANGED <<mix, paid, queue, sent, tier, paddle, handling, step, crashes>>
  BY DEF checkout_config, world, user
<1>3. Typed'
  BY <1>1, <1>2 DEF IInv, Typed, TypeOK, Numbered
<1>4. (Orderly => InOrder)'
  BY <1>2 DEF IInv, Orderly, InOrder, AsBought, InStep, Ready, Handled
<1> QED BY <1>3, <1>4 DEF IInv

(* Taking the first event off the wire keeps the order of the rest.        *)
LEMMA DeliverKeeps ==
  ASSUME IInv, UNCHANGED mix, Deliver
  PROVE  IInv'
<1>1. PICK i \in DOMAIN queue : ("unordered" \in mix \/ i = 1) /\ handling' = queue[i] /\ step' = "tier"
  BY DEF Deliver
<1>2. UNCHANGED <<mix, paid, queue, sent, open, tier, paddle, crashes>>
  BY DEF Deliver, world, user
<1>3. queue \in Seq(Events)
  BY DEF IInv, Typed, TypeOK
<1>4. queue[i] \in Events /\ queue # <<>>
  <2>1. DOMAIN queue = 1 .. Len(queue)
    BY <1>3, LenProperties
  <2> QED BY <1>3, <2>1, ElementOfSeq
<1>5. Typed'
  BY <1>1, <1>2, <1>4 DEF IInv, Typed, TypeOK, Numbered
<1>6. ASSUME Orderly
      PROVE  InOrder'
  <2>1. i = 1
    BY <1>1, <1>6 DEF Orderly
  <2> QED BY <1>1, <1>2, <1>4, <1>6, <2>1 DEF IInv, InOrder, AsBought, InStep, Ready, Handled
<1>7. Orderly' <=> Orderly
  BY <1>2 DEF Orderly
<1> QED BY <1>5, <1>6, <1>7 DEF IInv

(* Where an event is due, its handling leads to its tier.                    *)
LEMMA WriteTierKeeps ==
  ASSUME IInv, UNCHANGED mix, WriteTier
  PROVE  IInv'
<1>1. step = "tier" /\ tier' = NewTier(handling) /\ step' = "fields"
  BY DEF WriteTier
<1>2. UNCHANGED <<mix, paid, queue, sent, open, paddle, handling, crashes>>
  BY DEF WriteTier, world
<1>3. /\ handling \in Events
      /\ handling.type \in Kinds /\ handling.price \in Paying /\ handling.custom \in Paying
  BY <1>1 DEF IInv, Typed, Events, Kinds
<1>4. tier' \in DOMAIN TierRank
  <2>1. tier' \in {tier, "starter", "pro", "team"}
    BY <1>1, <1>3 DEF NewTier, Kinds, Paying
  <2>2. tier \in DOMAIN TierRank
    BY DEF IInv, Typed, TypeOK
  <2> QED BY <2>1, <2>2 DEF TierRank
<1>5. Typed'
  BY <1>1, <1>2, <1>3, <1>4 DEF IInv, Typed, TypeOK, Numbered
<1>6. ASSUME Orderly
      PROVE  InOrder'
  <2>1. /\ queue # <<>> /\ handling = queue[1] /\ Ready(queue[1]) /\ InOrder
    BY <1>1, <1>6 DEF IInv, InOrder
  <2>2. Sound(handling)
    <3>1. 1 \in 1 .. Len(queue)
      BY <2>1, EmptySeq DEF IInv, Typed, TypeOK
    <3> QED BY <2>1, <3>1 DEF InOrder
  <2>3. tier' = After(handling)
    BY <1>1, <1>3, <2>1, <2>2 DEF NewTier, After, Sound, Ready, Kinds
  <2>4. handling.type = "subscription.past_due" => tier' = handling.price
    BY <2>3 DEF After
  <2>5. Ready(queue[1])'
    BY <1>2, <2>1, <2>4 DEF Ready
  <2> QED BY <1>1, <1>2, <2>1, <2>3, <2>5 DEF InOrder, AsBought
<1>7. Orderly' <=> Orderly
  BY <1>2 DEF Orderly
<1> QED BY <1>5, <1>6, <1>7 DEF IInv

(* Writing the fields of an event brings the user to where the next event  *)
(* can be handled from.                                                    *)
LEMMA WriteFieldsKeeps ==
  ASSUME IInv, UNCHANGED mix, WriteFields
  PROVE  IInv'
<1>1. step = "fields" /\ paddle' = NewPaddle(handling) /\ step' = "answer"
  BY DEF WriteFields
<1>2. UNCHANGED <<mix, paid, queue, sent, open, tier, handling, crashes>>
  BY DEF WriteFields, world
<1>3. /\ handling \in Events /\ handling.type \in Kinds /\ handling.sub \in Subs
      /\ handling.status \in {"active", "past_due", "canceled"}
  BY <1>1 DEF IInv, Typed, Events, Kinds
<1> DEFINE Record == [sub : Subs \cup {None}, status : {"none", "active", "past_due", "canceled"}]
<1>4. paddle \in Record
  BY DEF IInv, Typed, TypeOK
<1>5. paddle' \in Record
  BY <1>1, <1>3, <1>4 DEF NewPaddle, Kinds
<1>6. Typed'
  BY <1>1, <1>2, <1>3, <1>5 DEF IInv, Typed, TypeOK, Numbered
<1>7. ASSUME Orderly
      PROVE  InOrder'
  <2>1. /\ queue # <<>> /\ handling = queue[1] /\ Ready(queue[1]) /\ InOrder
        /\ tier = After(queue[1])
    BY <1>1, <1>7 DEF IInv, InOrder
  <2>2. Sound(handling)
    <3>1. 1 \in 1 .. Len(queue)
      BY <2>1, EmptySeq DEF IInv, Typed, TypeOK
    <3> QED BY <2>1, <3>1 DEF InOrder
  <2>3. paddle' = [sub |-> handling.sub, status |-> handling.status]
    BY <1>1, <1>3, <1>4, <2>1, <2>2 DEF NewPaddle, Sound, Ready, Kinds, Leaning
  <2>4. Ready(queue[1])'
    BY <1>2, <2>1, <2>3 DEF Ready
  <2>5. Handled(queue[1])'
    BY <1>2, <2>1, <2>3 DEF Handled
  <2> QED BY <1>1, <1>2, <2>1, <2>4, <2>5 DEF InOrder, AsBought
<1>8. Orderly' <=> Orderly
  BY <1>2 DEF Orderly
<1> QED BY <1>6, <1>7, <1>8 DEF IInv

(* The event that is answered has led to where the next one can be handled   *)
(* from, or to where Paddle is.                                              *)
LEMMA AnswerKeeps ==
  ASSUME IInv, UNCHANGED mix, Answer
  PROVE  IInv'
<1>1. PICK k \in DOMAIN queue : queue[k] = handling /\ queue' = RemoveAt(queue, k)
  BY DEF Answer, Settle
<1>2. step = "answer" /\ step' = "idle" /\ handling' = None
  BY DEF Answer
<1>3. UNCHANGED <<mix, paid, sent, open, tier, paddle, crashes>>
  BY DEF Answer, user
<1>4. queue \in Seq(Events) /\ sent \in Nat /\ Numbered(queue, sent)
  BY BillingAssumption DEF IInv, Typed, TypeOK
<1>5. /\ queue' \in Seq(Events)
      /\ Len(queue') = Len(queue) - 1 /\ Len(queue) \in Nat
      /\ \A i \in 1 .. Len(queue) - 1 : queue'[i] = IF i < k THEN queue[i] ELSE queue[i + 1]
  BY <1>1, <1>4, Removed
<1>6. Numbered(queue', sent)
  BY <1>1, <1>4, RemovalKeepsNumbers
<1>7. Typed'
  BY <1>2, <1>3, <1>5, <1>6 DEF IInv, Typed, TypeOK
<1>8. ASSUME Orderly
      PROVE  InOrder'
  <2>1. queue # <<>> /\ handling = queue[1] /\ Handled(queue[1]) /\ InOrder
    BY <1>2, <1>8 DEF IInv, InOrder
  <2>2. k = 1
    BY <1>1, <1>4, <2>1, TheFirstIsSettled
  <2>3. \A i \in 1 .. Len(queue) - 1 : queue'[i] = queue[i + 1]
    BY <1>5, <2>2
  <2>4. Len(queue) \in Nat \ {0}
    BY <1>4, <2>1, EmptySeq
  <2>5. UpToDate(queue[Len(queue)], paid)
    BY <2>1 DEF InOrder
  <2>6. ASSUME NEW i \in 1 .. Len(queue') - 1
        PROVE  Follows(queue'[i], queue'[i + 1])
    <3>1. i + 1 \in 1 .. Len(queue) - 1 /\ i \in 1 .. Len(queue) - 1
      BY <1>5
    <3>2. queue'[i] = queue[i + 1] /\ queue'[i + 1] = queue[i + 1 + 1]
      BY <2>3, <3>1
    <3> QED BY <2>1, <3>1, <3>2 DEF InOrder
  <2>7. ASSUME NEW i \in 1 .. Len(queue')
        PROVE  Sound(queue'[i])
    <3>1. i + 1 \in 1 .. Len(queue) /\ queue'[i] = queue[i + 1]
      BY <1>5, <2>3
    <3> QED BY <2>1, <3>1 DEF InOrder
  <2>8. CASE Len(queue) = 1
    <3>1. queue' = <<>>
      BY <1>5, <2>8, EmptySeq
    <3>2. UpToDate(queue[1], paid)
      BY <2>5, <2>8
    <3>3. InStep'
      BY <1>3, <2>1, <3>2 DEF InStep, UpToDate, Handled
    <3> QED BY <1>2, <1>3, <2>1, <2>6, <2>7, <3>1, <3>3 DEF InOrder, AsBought
  <2>9. CASE Len(queue) # 1
    <3>1. /\ 1 \in 1 .. Len(queue) - 1 /\ Len(queue) - 1 \in 1 .. Len(queue) - 1
          /\ Len(queue) - 1 + 1 = Len(queue)
      <4>1. PICK n \in Nat : n = Len(queue) /\ n # 0 /\ n # 1
        BY <2>4, <2>9
      <4>2. 1 \in 1 .. n - 1 /\ n - 1 \in 1 .. n - 1 /\ n - 1 + 1 = n
        BY <4>1
      <4> QED BY <4>1, <4>2
    <3>2. queue'[1] = queue[1 + 1] /\ queue'[Len(queue')] = queue[Len(queue)]
      BY <1>5, <2>3, <3>1
    <3>3. queue' # <<>>
      BY <1>5, <2>4, <2>9
    <3>4. Follows(queue[1], queue[1 + 1])
      BY <2>1, <3>1 DEF InOrder
    <3>5. Ready(queue[1])'
      BY <1>3, <2>1, <3>2, <3>4 DEF Ready, Follows, Handled
    <3>6. UpToDate(queue'[Len(queue')], paid')
      BY <1>3, <2>5, <3>2
    <3> QED BY <1>2, <1>3, <2>1, <2>6, <2>7, <3>3, <3>5, <3>6 DEF InOrder, AsBought
  <2> QED BY <2>8, <2>9
<1>9. Orderly' <=> Orderly
  BY <1>3 DEF Orderly
<1> QED BY <1>7, <1>8, <1>9 DEF IInv

(* A handler that dies leaves the event as ready as it was.                  *)
LEMMA DieKeeps ==
  ASSUME IInv, UNCHANGED mix, Die
  PROVE  IInv'
<1>1. crashes < MaxCrashes /\ crashes' = crashes + 1 /\ handling' = None /\ step' = "idle"
  BY DEF Die
<1>2. UNCHANGED <<mix, paid, queue, sent, open, tier, paddle>>
  BY DEF Die, world, user
<1>3. crashes' \in 0 .. MaxCrashes
  BY <1>1, BillingAssumption DEF IInv, Typed, TypeOK
<1>4. Typed'
  BY <1>1, <1>2, <1>3 DEF IInv, Typed, TypeOK, Numbered
<1>5. (Orderly => InOrder)'
  BY <1>1, <1>2 DEF IInv, Orderly, InOrder, AsBought, InStep, Ready
<1> QED BY <1>4, <1>5 DEF IInv

-----------------------------------------------------------------------------
(* The results *)

(* Every step keeps the invariant.                                         *)
LEMMA StepKeeps == IInv /\ [Next]_vars => IInv'
<1> SUFFICES ASSUME IInv, [Next]_vars
             PROVE  IInv'
  OBVIOUS
<1>1. ASSUME UNCHANGED mix, NEW s \in Subs,
             \/ Pay(s) \/ ChangePlan(s) \/ Renew(s) \/ PaymentFails(s)
             \/ PaymentRecovers(s) \/ CancelSub(s)
      PROVE  IInv'
  <2>1. Typed
    BY DEF IInv
  <2>2. Telling(s)
    BY <1>1, <2>1, PayTells, RecoveryTells, ChangeTells
  <2> QED BY <1>1, <2>2, TellingKeeps
<1>2. CASE UNCHANGED mix /\ checkout_config
  BY <1>2, CheckoutKeeps
<1>3. CASE UNCHANGED mix /\ Webhook
  BY <1>3, DeliverKeeps, WriteTierKeeps, WriteFieldsKeeps, AnswerKeeps DEF Webhook
<1>4. CASE UNCHANGED mix /\ Die
  BY <1>4, DieKeeps
<1>5. CASE UNCHANGED vars
  <2>1. UNCHANGED <<mix, paid, queue, sent, open, tier, paddle, handling, step, crashes>>
    BY <1>5 DEF vars, world, user
  <2>2. Typed'
    BY <2>1 DEF IInv, Typed, TypeOK, Numbered
  <2>3. (Orderly => InOrder)'
    BY <2>1 DEF IInv, Orderly, InOrder, AsBought, InStep, Ready, Handled
  <2> QED BY <2>2, <2>3 DEF IInv
<1> QED BY <1>1, <1>2, <1>3, <1>4, <1>5 DEF Next

(* The inductive invariant holds in every state.                           *)
LEMMA IInvAlways == Spec => []IInv
<1>1. Init => IInv
  BY TypedInit, OrderInit DEF IInv
<1> QED BY <1>1, StepKeeps, PTL DEF Spec

(* Every variable of Billing keeps its type, in any traffic.                 *)
THEOREM TypeCorrect == Spec => []TypeOK
<1>1. IInv => TypeOK
  BY DEF IInv, Typed
<1> QED BY <1>1, IInvAlways, PTL

(* When all events of an orderly subscription are answered, the user has the *)
(* tier and the status that Paddle has on file, although any of them may     *)
(* have been handled twice, in whole or in part (paddle_webhook).            *)
THEOREM WebhookBringsAgreement == Spec => []AnsweredMeansAgreed
<1>1. IInv => AnsweredMeansAgreed
  <2> SUFFICES ASSUME IInv, Orderly, queue = <<>>
               PROVE  /\ tier = PaidTier
                      /\ \A s \in Subs : Live(s) \/ paddle.sub = s
                             => paddle = [sub |-> s, status |-> paid[s].status]
    BY DEF AnsweredMeansAgreed
  <2>1. InStep
    BY DEF IInv, InOrder
  <2>2. PaidTier = TierIn(paid)
    BY DEF PaidTier, PaidFor, TierIn, Live, LiveIn
  <2> QED BY <2>1, <2>2 DEF InStep, Live, LiveIn
<1> QED BY <1>1, IInvAlways, PTL
=============================================================================
