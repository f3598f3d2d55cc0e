------------------------------ MODULE Accounts ------------------------------
(* API keys, the index that finds their owner, and the daily counters        *)
(* (src/api/auth/firestore.py, limits.py, middleware/auth.py, the account    *)
(* endpoints of router.py).                                                  *)
(*                                                                           *)
(* Every Firestore call of a request is a step: the requests of one instance *)
(* do not overlap within a handler, those of two Cloud Run instances do.  A  *)
(* document that is read is kept in the call's copy until it is written back *)
(* whole.  A user's key list is a function from the hashes ever generated to *)
(* their status, since hashes do not repeat and the order of the list is not *)
(* looked at.  A call may end after any step, by an exception or with its    *)
(* instance.                                                                 *)
EXTENDS Integers, FiniteSets

CONSTANTS
    Calls,      \* requests in flight at the same time
    Uids,       \* Firebase identities
    Hashes,     \* key hashes generate_key can come up with
    Prefix,     \* [Hashes -> prefixes], the first 16 characters of the key
    Addresses,  \* client addresses of the free tier
    Mixes,      \* the mixes of traffic: sets of kinds of calls that arrive
    Tiers,      \* the tiers of TIER_LIMITS that have limits
    MaxKeys,    \* max_keys of each
    Limit,      \* requests_per_day of each
    FreeLimit,  \* FREE_IP_LIMIT
    Units,      \* units a request may cost (compute_request_units)
    MaxDay,     \* bound on the days that pass
    None

ASSUME AccountsAssumption ==
    /\ "starter" \in Tiers
    /\ MaxKeys \in [Tiers -> Nat]
    /\ Limit \in [Tiers -> Nat]
    /\ FreeLimit \in Nat
    /\ MaxDay \in Nat
    /\ Units \subseteq Nat \ {0}
    /\ IsFiniteSet(Hashes)
    /\ None \notin Uids \cup Hashes \cup Addresses \cup Tiers
    /\ Uids \cap Addresses = {}

VARIABLES
    mix,        \* the traffic of this behaviour
    users,      \* users/{uid}: the tier, the key list and the usage, or None
    index,      \* api_key_index/{hash}: a uid, or None
    ips,        \* ip_counters/{address}
    day,        \* _today()
    at,         \* the step each call is about to take
    arg,        \* what the call is about
    copy,       \* the document it last read
    issued,     \* history: whom a hash was generated for
    charged,    \* history: units charged to an account or address on a day,
                \* counted up to the highest limit
    had,        \* history: the tiers an account has had
    seen        \* history: whether the key of a lookup was active during it

storage == <<users, index, ips>>
history == <<issued, charged, had>>
vars == <<mix, users, index, ips, day, at, arg, copy, issued, charged, had, seen>>

Days == 0 .. MaxDay
Statuses == {"absent", "active", "revoked"}
Usage == [today : Nat, date : Days]
User == [tier : Tiers, keys : [Hashes -> Statuses], usage : Usage]
Args == [uid : Uids \cup Addresses \cup {None}, hash : Hashes \cup {None},
         todo : SUBSET Hashes, left : Nat, tier : Tiers \cup {None}]

NoArg == [uid |-> None, hash |-> None, todo |-> {}, left |-> 0, tier |-> None]
ActiveKeys(keys) == {h \in Hashes : keys[h] = "active"}
Holds(user, h) == user # None /\ user.keys[h] = "active"
KeyActive(us, h) == \E u \in Uids : Holds(us[u], h)

LookupSteps == {"index", "owner", "scan", "backfill"}

Init ==
    /\ mix \in Mixes
    /\ users = [u \in Uids |-> None]
    /\ index = [h \in Hashes |-> None]
    /\ ips = [a \in Addresses |-> [today |-> 0, date |-> 0]]
    /\ day = 0
    /\ at = [c \in Calls |-> "idle"]
    /\ arg = [c \in Calls |-> NoArg]
    /\ copy = [c \in Calls |-> None]
    /\ issued = [h \in Hashes |-> None]
    /\ charged = [o \in Uids \cup Addresses |-> [d \in Days |-> 0]]
    /\ had = [u \in Uids |-> {}]
    /\ seen = [c \in Calls |-> {}]

-----------------------------------------------------------------------------
(* Bookkeeping of a call *)

Step(c, from, to) == at[c] = from /\ at' = [at EXCEPT ![c] = to]

Begin(c, to, a) ==
    /\ Step(c, "idle", to)
    /\ arg' = [arg EXCEPT ![c] = a]
    /\ UNCHANGED <<storage, day, copy, history>>

End(c, from) ==
    /\ Step(c, from, "idle")
    /\ arg' = [arg EXCEPT ![c] = NoArg]
    /\ copy' = [copy EXCEPT ![c] = None]

(* A read of a document: it goes to the call's copy. *)
Read(c, document) ==
    copy' = [copy EXCEPT ![c] = document] /\ UNCHANGED <<storage, day, history>>

(* update() of one field of the user document; it raises when the document  *)
(* is gone, and the call ends.                                              *)
UpdateUser(c, from, to, new) ==
    \/ /\ Step(c, from, to)
       /\ users[arg[c].uid] # None
       /\ users' = [users EXCEPT ![arg[c].uid] = new]
       /\ UNCHANGED <<arg, copy>>
    \/ /\ End(c, from)
       /\ users[arg[c].uid] = None
       /\ UNCHANGED users

-----------------------------------------------------------------------------
(* Signing up and generating keys *)

FreshHash == {h \in Hashes : issued[h] = None}

Signup(c) ==
    \E u \in Uids : Begin(c, "signup", [NoArg EXCEPT !.uid = u])

(* get_user: an existing user is answered 409. *)
SignupCheck(c) ==
    \/ /\ Step(c, "signup", "create")
       /\ users[arg[c].uid] = None
       /\ UNCHANGED <<storage, day, arg, copy, history>>
    \/ /\ End(c, "signup")
       /\ users[arg[c].uid] # None
       /\ UNCHANGED <<storage, day, history>>

NewUser == [tier |-> "starter", keys |-> [h \in Hashes |-> "absent"],
            usage |-> [today |-> 0, date |-> day]]

Generated(c, h) ==
    /\ h \in FreshHash
    /\ issued' = [issued EXCEPT ![h] = arg[c].uid]
    /\ arg' = [arg EXCEPT ![c].hash = h]

(* create_user sets the whole document; then a key is generated. *)
create_user(c) ==
    /\ Step(c, "create", "add_read")
    /\ users' = [users EXCEPT ![arg[c].uid] = NewUser]
    /\ \E h \in Hashes : Generated(c, h)
    /\ had' = [had EXCEPT ![arg[c].uid] = @ \cup {"starter"}]
    /\ UNCHANGED <<index, ips, day, copy, charged>>

Generate(c) ==
    \E u \in Uids : Begin(c, "generate", [NoArg EXCEPT !.uid = u])

MayHaveKeys(user) == user # None /\ MaxKeys[user.tier] # 0

GenerateCheck(c) ==
    \/ /\ Step(c, "generate", "add_read")
       /\ MayHaveKeys(users[arg[c].uid])
       /\ \E h \in Hashes : Generated(c, h)
       /\ UNCHANGED <<storage, day, copy, charged, had>>
    \/ /\ End(c, "generate")
       /\ ~MayHaveKeys(users[arg[c].uid])
       /\ UNCHANGED <<storage, day, history>>

(* faulty variant: one key too many. *)
HasRoomLoose(user) ==
    user # None /\ Cardinality(ActiveKeys(user.keys)) <= MaxKeys[user.tier]

HasRoom(user) ==
    user # None /\ Cardinality(ActiveKeys(user.keys)) < MaxKeys[user.tier]

AddRead(c) ==
    LET user == users[arg[c].uid] IN
    \/ /\ Step(c, "add_read", "add_write")
       /\ HasRoom(user)
       /\ Read(c, user)
       /\ UNCHANGED arg
    \/ /\ End(c, "add_read")
       /\ ~HasRoom(user)
       /\ UNCHANGED <<storage, day, history>>

WithKeys(c, keys) == [users[arg[c].uid] EXCEPT !.keys = keys]

AddWrite(c) ==
    /\ UpdateUser(c, "add_write", "add_index",
                  WithKeys(c, [copy[c].keys EXCEPT ![arg[c].hash] = "active"]))
    /\ UNCHANGED <<index, ips, day, history>>

AddIndex(c) ==
    /\ End(c, "add_index")
    /\ index' = [index EXCEPT ![arg[c].hash] = arg[c].uid]
    /\ UNCHANGED <<users, ips, day, history>>

-----------------------------------------------------------------------------
(* Revoking a key *)

WithPrefix(keys, p) == {h \in Hashes : keys[h] # "absent" /\ Prefix[h] = p}

Revoke(c) ==
    \E u \in Uids, h \in Hashes :
        Begin(c, "revoke", [NoArg EXCEPT !.uid = u, !.hash = h])

(* The keys with the prefix of arg.hash are to be revoked; none: 404. *)
RevokeRead(c) ==
    LET user  == users[arg[c].uid]
        found == IF user = None THEN {} ELSE WithPrefix(user.keys, Prefix[arg[c].hash])
    IN  \/ /\ Step(c, "revoke", "rev_index")
           /\ found # {}
           /\ Read(c, user)
           /\ arg' = [arg EXCEPT ![c].todo = found]
        \/ /\ End(c, "revoke")
           /\ found = {}
           /\ UNCHANGED <<storage, day, history>>

(* One index entry is deleted, or its deletion fails and is forgotten. *)
DeleteEntry(c, from) ==
    \E h \in arg[c].todo :
        /\ at[c] = from
        /\ arg' = [arg EXCEPT ![c].todo = @ \ {h}]
        /\ \/ index' = [index EXCEPT ![h] = None]
           \/ UNCHANGED index
        /\ UNCHANGED <<users, ips, day, at, copy, history>>

RevokeIndex(c) == DeleteEntry(c, "rev_index")

Revoked(keys, p) ==
    [h \in Hashes |-> IF h \in WithPrefix(keys, p) THEN "revoked" ELSE keys[h]]

RevokeWrite(c) ==
    /\ arg[c].todo = {}
    /\ UpdateUser(c, "rev_index", "leave",
                  WithKeys(c, Revoked(copy[c].keys, Prefix[arg[c].hash])))
    /\ UNCHANGED <<index, ips, day, history>>

-----------------------------------------------------------------------------
(* A request: who is calling, within which limit, and what it costs *)

RequestWithKey(c) ==
    \E h \in Hashes, n \in Units :
        Begin(c, "index", [NoArg EXCEPT !.hash = h, !.left = n])

(* Polls, previews and the other endpoints that cost nothing. *)
Poll(c) ==
    \E h \in Hashes : Begin(c, "index", [NoArg EXCEPT !.hash = h])

RequestWithToken(c) ==
    \E u \in Uids, n \in Units :
        Begin(c, "token", [NoArg EXCEPT !.uid = u, !.left = n])

RequestFree(c) ==
    \E a \in Addresses, n \in Units :
        Begin(c, "free", [NoArg EXCEPT !.uid = a, !.left = n])

LookupIndex(c) ==
    /\ Step(c, "index", IF index[arg[c].hash] # None THEN "owner" ELSE "scan")
    /\ arg' = [arg EXCEPT ![c].uid = index[arg[c].hash]]
    /\ UNCHANGED <<storage, day, copy, history>>

(* faulty variant: an index entry is proof enough. *)
LookupOwnerTrusting(c) ==
    LET user == users[arg[c].uid] IN
    /\ Step(c, "owner", IF user # None THEN "limit" ELSE "denied")
    /\ arg' = [arg EXCEPT ![c].tier = IF user # None THEN user.tier ELSE @]
    /\ UNCHANGED <<storage, day, copy, history>>

(* The owner the index names is read and must hold the key, active. *)
LookupOwner(c) ==
    LET user == users[arg[c].uid] IN
    /\ \/ /\ Step(c, "owner", "limit")
          /\ Holds(user, arg[c].hash)
          /\ arg' = [arg EXCEPT ![c].tier = user.tier]
       \/ /\ Step(c, "owner", "denied")
          /\ ~Holds(user, arg[c].hash)
          /\ UNCHANGED arg
    /\ UNCHANGED <<storage, day, copy, history>>

(* The scan of all users; only its owner's document can hold a hash. *)
LookupScan(c) ==
    \/ /\ Step(c, "scan", "denied")
       /\ ~KeyActive(users, arg[c].hash)
       /\ UNCHANGED <<storage, day, arg, copy, history>>
    \/ \E u \in Uids :
        /\ Step(c, "scan", "backfill")
        /\ Holds(users[u], arg[c].hash)
        /\ arg' = [arg EXCEPT ![c].uid = u, ![c].tier = users[u].tier]
        /\ UNCHANGED <<storage, day, copy, history>>

Backfill(c) ==
    /\ Step(c, "backfill", "limit")
    /\ \/ index' = [index EXCEPT ![arg[c].hash] = arg[c].uid]
       \/ UNCHANGED index
    /\ UNCHANGED <<users, ips, day, arg, copy, history>>

(* A token of an unknown user falls through to the free tier. *)
LookupToken(c) ==
    \/ /\ Step(c, "token", "limit")
       /\ users[arg[c].uid] # None
       /\ arg' = [arg EXCEPT ![c].tier = users[arg[c].uid].tier]
       /\ UNCHANGED <<storage, day, copy, history>>
    \/ \E a \in Addresses :
        /\ Step(c, "token", "free")
        /\ users[arg[c].uid] = None
        /\ arg' = [arg EXCEPT ![c].uid = a]
        /\ UNCHANGED <<storage, day, copy, history>>

UsedToday(counter) == IF counter.date = day THEN counter.today ELSE 0

(* check_usage_limit, with the tier of the document the user was found in; a *)
(* user deleted since is not within it either.                               *)
CheckUsage(c) ==
    LET user == users[arg[c].uid] IN
    /\ Step(c, "limit",
            IF user = None THEN "gone"
            ELSE IF UsedToday(user.usage) < Limit[arg[c].tier] THEN "work" ELSE "refused")
    /\ UNCHANGED <<storage, day, arg, copy, history>>

CheckFree(c) ==
    /\ Step(c, "free", IF UsedToday(ips[arg[c].uid]) < FreeLimit THEN "work" ELSE "refused")
    /\ UNCHANGED <<storage, day, arg, copy, history>>

(* The work is done; a request is consumed afterwards, unit by unit. *)
Serve(c) ==
    /\ Step(c, "work", IF arg[c].left = 0 THEN "leave"
                       ELSE IF arg[c].uid \in Uids THEN "inc_read" ELSE "ip_read")
    /\ UNCHANGED <<storage, day, arg, copy, history>>

(* faulty variant: the day moves on and the count does not start anew. *)
RaisedEver(usage) == [today |-> usage.today + 1, date |-> day]

(* increment_usage: the counter is reset on a new day, raised, and written  *)
(* whole with the day it was read on.                                       *)
Raised(usage) == [today |-> UsedToday(usage) + 1, date |-> day]

IncrementRead(c) ==
    LET user == users[arg[c].uid] IN
    \/ /\ Step(c, "inc_read", "inc_write")
       /\ user # None
       /\ Read(c, [user EXCEPT !.usage = Raised(user.usage)])
       /\ UNCHANGED arg
    \/ /\ End(c, "inc_read")
       /\ user = None
       /\ UNCHANGED <<storage, day, history>>

BelowSome(n) == n < FreeLimit \/ \E t \in Tiers : n < Limit[t]

Charge(owner, d) ==
    charged' = [charged EXCEPT ![owner][d] = IF BelowSome(@) THEN @ + 1 ELSE @]

NextUnit(c, again) == IF arg[c].left > 1 THEN again ELSE "consumed"

IncrementWrite(c) ==
    LET u == arg[c].uid IN
    \/ /\ Step(c, "inc_write", NextUnit(c, "inc_read"))
       /\ users[u] # None
       /\ users' = [users EXCEPT ![u].usage = copy[c].usage]
       /\ arg' = [arg EXCEPT ![c].left = @ - 1]
       /\ Charge(u, copy[c].usage.date)
       /\ UNCHANGED <<index, ips, day, copy, issued, had>>
    \/ /\ End(c, "inc_write")
       /\ users[u] = None
       /\ UNCHANGED <<storage, day, history>>

(* increment_ip_count: a new day sets the whole record, else only the count *)
(* is updated.                                                              *)
FreeRead(c) ==
    /\ Step(c, "ip_read", IF ips[arg[c].uid].date = day THEN "ip_count" ELSE "ip_reset")
    /\ Read(c, Raised(ips[arg[c].uid]))
    /\ UNCHANGED arg

FreeWrite(c) ==
    \E step \in {"ip_count", "ip_reset"} :
        /\ Step(c, step, NextUnit(c, "ip_read"))
        /\ ips' = IF step = "ip_reset"
                  THEN [ips EXCEPT ![arg[c].uid] = copy[c]]
                  ELSE [ips EXCEPT ![arg[c].uid].today = copy[c].today]
        /\ arg' = [arg EXCEPT ![c].left = @ - 1]
        /\ Charge(arg[c].uid, copy[c].date)
        /\ UNCHANGED <<users, index, day, copy, issued, had>>

(* update_key_last_used reads the key list and writes it back. *)
WithLiveKey(c) == arg[c].uid \in Uids /\ arg[c].hash # None /\ users[arg[c].uid] # None

LastUsedRead(c) ==
    \/ /\ Step(c, "consumed", "use_write")
       /\ WithLiveKey(c)
       /\ Read(c, users[arg[c].uid])
       /\ UNCHANGED arg
    \/ /\ End(c, "consumed")
       /\ ~WithLiveKey(c)
       /\ UNCHANGED <<storage, day, history>>

LastUsedWrite(c) ==
    /\ UpdateUser(c, "use_write", "leave", WithKeys(c, copy[c].keys))
    /\ UNCHANGED <<index, ips, day, history>>

-----------------------------------------------------------------------------
(* Deleting an account, once the Firebase identity is gone *)

DeleteAccount(c) ==
    \E u \in Uids : Begin(c, "del_read", [NoArg EXCEPT !.uid = u])

DeleteRead(c) ==
    LET user == users[arg[c].uid] IN
    /\ Step(c, "del_read", "del_index")
    /\ \E read \in BOOLEAN :
        arg' = [arg EXCEPT ![c].todo =
            IF user = None \/ ~read THEN {} ELSE {h \in Hashes : user.keys[h] # "absent"}]
    /\ UNCHANGED <<storage, day, copy, history>>

DeleteIndex(c) == DeleteEntry(c, "del_index")

DeleteUser(c) ==
    /\ arg[c].todo = {}
    /\ End(c, "del_index")
    /\ users' = [users EXCEPT ![arg[c].uid] = None]
    /\ UNCHANGED <<index, ips, day, history>>

-----------------------------------------------------------------------------
(* The reply of a call that stores nothing more *)
Reply(c) ==
    /\ \E from \in {"leave", "denied", "refused", "gone"} : End(c, from)
    /\ UNCHANGED <<storage, day, history>>

(* An exception nobody catches, or the end of the instance. *)
Abort(c) ==
    /\ at[c] \notin {"idle", "leave", "denied", "refused", "gone"}
    /\ End(c, at[c])
    /\ UNCHANGED <<storage, day, history>>

(* update({"tier"}): the webhook of the billing, or joining a workspace.      *)
(* Nothing else of the account is touched.                                   *)
ChangeTier ==
    \E u \in Uids, t \in Tiers :
        /\ "tier" \in mix
        /\ users[u] # None /\ users[u].tier # t
        /\ users' = [users EXCEPT ![u].tier = t]
        /\ had' = [had EXCEPT ![u] = @ \cup {t}]
        /\ UNCHANGED <<index, ips, day, at, arg, copy, issued, charged>>

Midnight ==
    /\ "midnight" \in mix
    /\ day < MaxDay
    /\ day' = day + 1
    /\ UNCHANGED <<storage, at, arg, copy, history>>

Arrive(c) ==
    \/ "signup" \in mix /\ Signup(c)
    \/ "generate" \in mix /\ Generate(c)
    \/ "revoke" \in mix /\ Revoke(c)
    \/ "key" \in mix /\ RequestWithKey(c)
    \/ "poll" \in mix /\ Poll(c)
    \/ "token" \in mix /\ RequestWithToken(c)
    \/ "free" \in mix /\ RequestFree(c)
    \/ "delete" \in mix /\ DeleteAccount(c)

Keys(c) ==
    \/ SignupCheck(c) \/ create_user(c) \/ GenerateCheck(c)
    \/ AddRead(c) \/ AddWrite(c) \/ AddIndex(c)
    \/ RevokeRead(c) \/ RevokeIndex(c) \/ RevokeWrite(c)
    \/ DeleteRead(c) \/ DeleteIndex(c) \/ DeleteUser(c)

Request(c) ==
    \/ LookupIndex(c) \/ LookupOwner(c) \/ LookupScan(c) \/ Backfill(c)
    \/ LookupToken(c) \/ CheckUsage(c) \/ CheckFree(c) \/ Serve(c)
    \/ IncrementRead(c) \/ IncrementWrite(c) \/ FreeRead(c) \/ FreeWrite(c)
    \/ LastUsedRead(c) \/ LastUsedWrite(c)

(* What each lookup sees of its key, from its first step to its verdict. *)
Watch ==
    seen' = [c \in Calls |->
        LET looking == at[c] \in LookupSteps
            h == IF looking THEN arg[c].hash ELSE arg'[c].hash
        IN  IF looking \/ at'[c] = "index"
            THEN seen[c] \cup {KeyActive(users, h), KeyActive(users', h)}
            ELSE IF at'[c] = at[c] THEN seen[c] ELSE {}]

Next ==
    /\ \/ \E c \in Calls :
             Arrive(c) \/ Keys(c) \/ Request(c) \/ Reply(c) \/ Abort(c)
       \/ ChangeTier \/ Midnight
    /\ Watch
    /\ UNCHANGED mix

Spec == Init /\ [][Next]_vars

-----------------------------------------------------------------------------
Steps == {"idle", "leave", "denied", "refused", "gone", "signup", "create", "generate",
          "add_read", "add_write", "add_index", "revoke", "rev_index", "token", "free",
          "limit", "work", "inc_read", "inc_write", "ip_read", "ip_count", "ip_reset",
          "consumed", "use_write", "del_read", "del_index"} \cup LookupSteps

(* Every variable keeps its type. *)
TypeOK ==
    /\ mix \in Mixes
    /\ users \in [Uids -> User \cup {None}]
    /\ index \in [Hashes -> Uids \cup {None}]
    /\ ips \in [Addresses -> Usage]
    /\ day \in Days
    /\ at \in [Calls -> Steps]
    /\ arg \in [Calls -> Args]
    /\ copy \in [Calls -> User \cup Usage \cup {None}]
    /\ issued \in [Hashes -> Uids \cup {None}]
    /\ charged \in [Uids \cup Addresses -> [Days -> Nat]]
    /\ had \in [Uids -> SUBSET Tiers]
    /\ seen \in [Calls -> SUBSET BOOLEAN]

(* No account ever holds more active keys than some tier it has had allows,  *)
(* although the limit is checked on one copy of the key list, three handlers *)
(* write their copies back over each other, and the tier changes in between  *)
(* (add_api_key, revoke_api_key, update_key_last_used).                      *)
Fits(tiers, keys) == \E t \in tiers : Cardinality(ActiveKeys(keys)) <= MaxKeys[t]

KeyLimit == \A u \in Uids : users[u] # None => Fits(had[u], users[u].keys)

(* Authentication answers for one moment of the request: a key is let in     *)
(* only if it was active at some moment of the lookup and turned away only   *)
(* if it was not, whichever of the index, its missing or orphaned entry, the *)
(* fallback scan and the backfill the lookup met (get_user_by_key_hash).     *)
LookupIsLinearizable ==
    \A c \in Calls :
        /\ at[c] = "limit" /\ arg[c].hash # None => TRUE \in seen[c]
        /\ at[c] = "denied" => FALSE \in seen[c]

(* Lost updates err on the customer's side: whoever is told that the daily   *)
(* limit is reached was charged that many units today, whatever tier he was  *)
(* found in (increment_usage, check_usage_limit).                            *)
UsedUp(counter, limit) == UsedToday(counter) >= limit

RefusedMeansUsedUp ==
    \A u \in Uids, t \in Tiers :
        users[u] # None /\ UsedUp(users[u].usage, Limit[t]) => charged[u][day] >= Limit[t]

-----------------------------------------------------------------------------
(* Documented, and not so *)

(* "Enforces max_keys limit per tier" (firestore.py:197): the keys fit the    *)
(* tier the account has.  No change of the tier revokes any.                 *)
KeysWithinTier ==
    \A u \in Uids : users[u] # None => Fits({users[u].tier}, users[u].keys)

(* "Resets daily" (firestore.py:564): a free client refused today was       *)
(* charged that many requests today.  increment_ip_count reads before        *)
(* midnight and updates only the count after another request has reset the   *)
(* record.                                                                   *)
FreeRefusedMeansUsedUp ==
    \A a \in Addresses : UsedUp(ips[a], FreeLimit) => charged[a][day] >= FreeLimit

(* "it can no longer authenticate requests" (firestore.py:235): a revoked    *)
(* key stays revoked.                                                        *)
RevokedStaysRevoked ==
    [][\A u \in Uids, h \in Hashes :
        users[u] # None /\ users'[u] # None /\ users[u].keys[h] = "revoked"
            => users'[u].keys[h] # "active"]_vars
=============================================================================
