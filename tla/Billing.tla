------------------------------ MODULE Billing -------------------------------
(* What a user pays and what tier they have (src/api/routes/billing.py,      *)
(* auth/paddle.py, with Paddle as its use there implies).                    *)
(*                                                                           *)
(* Paddle tells the service of every change of a subscription by an event,   *)
(* again and again until it is answered 200; an event carries the            *)
(* subscription as it was then, and the custom_data of its checkout.  The    *)
(* webhook handles an event in steps, one for each write, and may die after  *)
(* any of them.  Signatures are taken to be right.                           *)
EXTENDS Integers, Sequences, SequencesExt

CONSTANTS
    Subs,        \* subscriptions Paddle can come to know
    Mixes,       \* the mixes of traffic: sets of what may happen
    MaxEvents,   \* bound on the events of a behaviour
    MaxCrashes,  \* bound on the handlers that die
    None

Paying == {"pro", "team"}

(* A subscription as Paddle has it: custom is what its checkout was for.     *)
Subscriptions == [status : {"active", "past_due", "canceled"},
                  price : Paying, custom : Paying]

ASSUME BillingAssumption ==
    /\ MaxEvents \in Nat /\ MaxCrashes \in Nat
    /\ None \notin Subs /\ None \notin Subscriptions

VARIABLES
    mix,       \* what may happen in this behaviour
    paid,      \* Paddle: each subscription, or None
    queue,     \* Paddle: the events not yet answered, oldest first
    sent,      \* Paddle: how many events there were
    open,      \* the tiers the user has got a checkout for
    tier,      \* users/{uid}.tier
    paddle,    \* users/{uid}.paddle
    handling,  \* the event the webhook is at, or None
    step,      \* the write it is about to make
    crashes

user == <<tier, paddle>>
world == <<paid, queue, sent>>
vars == <<mix, world, open, user, handling, step, crashes>>

TierRank == [starter |-> 1, pro |-> 2, team |-> 3]
NoPaddle == [sub |-> None, status |-> "none"]

Init ==
    /\ mix \in Mixes
    /\ paid = [s \in Subs |-> None]
    /\ queue = <<>> /\ sent = 0
    /\ open = {}
    /\ tier = "starter" /\ paddle = NoPaddle
    /\ handling = None /\ step = "idle" /\ crashes = 0

-----------------------------------------------------------------------------
(* Paddle, as the webhook sees it *)

(* An event: its type, the subscription now, and what its checkout said; n   *)
(* tells the events of one change apart.                                     *)
Event(type, n, s, sub) ==
    [id |-> sent + n, type |-> type, sub |-> s, status |-> sub.status, price |-> sub.price,
     custom |-> sub.custom]

Send(events) == queue' = queue \o events /\ sent' = sent + Len(events)

Happens(kind, n) ==
    /\ kind \in mix
    /\ sent + n <= MaxEvents
    /\ UNCHANGED <<open, user, handling, step, crashes>>

(* Not yet canceled. *)
Live(s) == paid[s] # None /\ paid[s].status # "canceled"

Pay(s) ==
    \E t \in open :
        LET sub == [status |-> "active", price |-> t, custom |-> t] IN
        /\ Happens("checkout", 2)
        /\ paid[s] = None
        /\ "twice" \in mix \/ \A r \in Subs : ~Live(r)
        /\ paid' = [paid EXCEPT ![s] = sub]
        /\ Send(<<Event("subscription.created", 1, s, sub),
                  Event("transaction.completed", 2, s, sub)>>)

Becomes(s, sub, type) ==
    /\ paid' = [paid EXCEPT ![s] = sub]
    /\ Send(<<Event(type, 1, s, sub)>>)

ChangePlan(s) ==
    \E t \in Paying :
        /\ Happens("change", 1)
        /\ Live(s) /\ paid[s].price # t /\ paid[s].status = "active"
        /\ Becomes(s, [paid[s] EXCEPT !.price = t], "subscription.updated")

Renew(s) ==
    /\ Happens("renew", 1)
    /\ Live(s) /\ paid[s].status = "active"
    /\ Becomes(s, paid[s], "transaction.completed")

PaymentFails(s) ==
    /\ Happens("fail", 1)
    /\ Live(s) /\ paid[s].status = "active"
    /\ Becomes(s, [paid[s] EXCEPT !.status = "past_due"], "subscription.past_due")

PaymentRecovers(s) ==
    /\ Happens("fail", 2)
    /\ Live(s) /\ paid[s].status = "past_due"
    /\ LET sub == [paid[s] EXCEPT !.status = "active"] IN
        /\ paid' = [paid EXCEPT ![s] = sub]
        /\ Send(<<Event("transaction.completed", 1, s, sub),
                  Event("subscription.updated", 2, s, sub)>>)

CancelSub(s) ==
    /\ Happens("cancel", 1)
    /\ Live(s)
    /\ Becomes(s, [paid[s] EXCEPT !.status = "canceled"], "subscription.canceled")

-----------------------------------------------------------------------------
(* GET /billing/checkout-config: only for a higher tier than the user's. *)
checkout_config ==
    \E t \in Paying \ open :
        /\ TierRank[tier] < TierRank[t]
        /\ open' = open \cup {t}
        /\ UNCHANGED <<world, user, handling, step, crashes>>

(* POST /billing/webhook: an event that is due, any one if order is not kept *)
Deliver ==
    \E i \in DOMAIN queue :
        /\ handling = None
        /\ "unordered" \in mix \/ i = 1
        /\ handling' = queue[i] /\ step' = "tier"
        /\ UNCHANGED <<world, open, user, crashes>>

(* faulty variant: an update says what is paid, whatever became of it. *)
NewTierOptimistic(event) ==
    CASE event.type \in {"subscription.created", "transaction.completed"} -> event.custom
      [] event.type = "subscription.canceled" -> event.price
      [] event.type = "subscription.updated" -> event.price
      [] event.type = "subscription.past_due" -> tier

(* The tier an event leads to: the one of its checkout, or of its price, and *)
(* none of both unless the subscription is active.                           *)
NewTier(event) ==
    CASE event.type \in {"subscription.created", "transaction.completed"} -> event.custom
      [] event.type = "subscription.canceled" -> "starter"
      [] event.type = "subscription.updated" ->
             IF event.status = "active" THEN event.price ELSE tier
      [] event.type = "subscription.past_due" -> tier

(* _update_user_tier; paddle was there before (_ensure_paddle_field).        *)
WriteTier ==
    /\ step = "tier"
    /\ tier' = NewTier(handling) /\ step' = "fields"
    /\ UNCHANGED <<world, open, paddle, handling, crashes>>

(* A payment that failed is entered where the subscription is known.         *)
NewPaddle(event) ==
    CASE event.type = "transaction.completed" -> [sub |-> event.sub, status |-> "active"]
      [] event.type \in {"subscription.created", "subscription.updated"} ->
             [sub |-> event.sub, status |-> event.status]
      [] event.type = "subscription.canceled" -> [paddle EXCEPT !.status = "canceled"]
      [] event.type = "subscription.past_due" ->
             IF paddle.sub = event.sub THEN [paddle EXCEPT !.status = "past_due"] ELSE paddle

(* _update_paddle_fields *)
WriteFields ==
    /\ step = "fields"
    /\ paddle' = NewPaddle(handling) /\ step' = "answer"
    /\ UNCHANGED <<world, open, tier, handling, crashes>>

(* Paddle has done with the event. *)
Settle == \E i \in DOMAIN queue : queue[i] = handling /\ queue' = RemoveAt(queue, i)

(* The 200, after which the event does not come again. *)
Answer ==
    /\ step = "answer"
    /\ Settle
    /\ handling' = None /\ step' = "idle"
    /\ UNCHANGED <<paid, sent, open, user, crashes>>

(* faulty variant: a handler that fails answers 200 all the same. *)
DieAnswered ==
    /\ handling # None
    /\ crashes < MaxCrashes
    /\ crashes' = crashes + 1
    /\ Settle
    /\ handling' = None /\ step' = "idle"
    /\ UNCHANGED <<paid, sent, open, user>>

(* The handler dies or is too late with its answer: the event comes again. *)
Die ==
    /\ handling # None
    /\ crashes < MaxCrashes
    /\ crashes' = crashes + 1
    /\ handling' = None /\ step' = "idle"
    /\ UNCHANGED <<world, open, user>>

Webhook == Deliver \/ WriteTier \/ WriteFields \/ Answer

Next ==
    /\ \/ checkout_config \/ Webhook \/ Die
       \/ \E s \in Subs : Pay(s) \/ ChangePlan(s) \/ Renew(s) \/ PaymentFails(s)
                           \/ PaymentRecovers(s) \/ CancelSub(s)
    /\ UNCHANGED mix

(* Paddle repeats what is not answered. *)
Spec == Init /\ [][Next]_vars /\ WF_vars(Webhook /\ UNCHANGED mix)

-----------------------------------------------------------------------------
Events == [id : 1 .. MaxEvents,
           type : {"subscription.created", "subscription.updated", "subscription.canceled",
                   "subscription.past_due", "transaction.completed"},
           sub : Subs, status : {"active", "past_due", "canceled"},
           price : Paying, custom : Paying]

(* Every variable keeps its type. *)
TypeOK ==
    /\ paid \in [Subs -> {None} \cup Subscriptions]
    /\ queue \in Seq(Events)
    /\ sent \in 0 .. MaxEvents
    /\ tier \in DOMAIN TierRank
    /\ paddle \in [sub : Subs \cup {None},
                   status : {"none", "active", "past_due", "canceled"}]
    /\ handling \in Events \cup {None}
    /\ step \in {"idle", "tier", "fields", "answer"}
    /\ crashes \in 0 .. MaxCrashes

(* The tier Paddle is paid for. *)
PaidFor(t) == \E s \in Subs : Live(s) /\ paid[s].price = t
PaidTier ==
    IF PaidFor("team") THEN "team" ELSE IF PaidFor("pro") THEN "pro" ELSE "starter"

(* The mixes in which nothing goes wrong: one subscription, in order, and no *)
(* renewal of a plan that was changed.                                       *)
Orderly == {"unordered", "twice"} \cap mix = {} /\ ~({"change", "renew"} \subseteq mix)

(* Events that come again do no harm: an event handled twice, in whole or in *)
(* part, leaves the user with the tier and the status Paddle has on file as  *)
(* soon as all is answered (paddle_webhook).                                 *)
AnsweredMeansAgreed ==
    Orderly /\ queue = <<>> =>
        /\ tier = PaidTier
        /\ \A s \in Subs : Live(s) \/ paddle.sub = s
               => paddle = [sub |-> s, status |-> paid[s].status]

(* Whoever pays gets their tier, and whoever has canceled loses it: in the   *)
(* end the two sides agree, although handlers die (paddle_webhook).          *)
InTheEndAgreed == Orderly => <>[](tier = PaidTier)

-----------------------------------------------------------------------------
(* Documented, and not so *)

(* "update tier on plan change" (billing.py:213): the next payment brings    *)
(* the tier of the checkout back.                                            *)
PlanChangeLasts ==
    mix \cap {"unordered", "twice"} = {} /\ queue = <<>> => tier = PaidTier

(* A late event puts an earlier one back, and the subscription that an       *)
(* upgrade left behind takes the new tier with it when it is canceled.       *)
AlwaysAgreed == queue = <<>> => tier = PaidTier
=============================================================================
