----------------------------- MODULE Workspaces -----------------------------
(* Team workspaces: membership, roles, invites and the shared request pool   *)
(* (src/api/auth/workspace.py, the workspace endpoints and the signup of     *)
(* router.py, check_and_increment_workspace of firestore.py).                *)
(*                                                                           *)
(* Every Firestore call is a step, calls on several instances interleave, a  *)
(* call may end after any step.  The member list is read, changed and        *)
(* written back whole; the pool is counted in a transaction.  An e-mail      *)
(* address is its user; names are left out.  A behaviour begins before the   *)
(* first workspace, or with a team that has formed.                          *)
EXTENDS Integers, Sequences, SequencesExt, FiniteSetsExt

CONSTANTS
    Calls,       \* requests in flight at the same time
    Uids,        \* people
    Payers,      \* those who have signed up and pay for a team
    Wids,        \* workspace ids
    Tokens,      \* invite tokens
    MaxMembers,  \* max_members of the team tier
    Pool,        \* requests_per_day of the team tier
    Units,       \* units a request may cost
    MaxDay,      \* bound on the days that pass
    Mixes,       \* the mixes of traffic: sets of kinds of calls that arrive
    None

ASSUME WorkspacesAssumption ==
    /\ Payers \subseteq Uids
    /\ MaxMembers \in Nat \ {0}
    /\ Pool \in Nat
    /\ Units \subseteq Nat \ {0}
    /\ MaxDay \in Nat
    /\ IsFiniteSet(Calls) /\ IsFiniteSet(Uids)
    /\ None \notin Uids \cup Wids \cup Tokens \cup {"owner", "admin", "member"}

VARIABLES
    mix,        \* the traffic of this behaviour
    users,      \* users/{uid}: workspace, role and tier, or None
    spaces,     \* workspaces/{id}, or None
    pool,       \* the usage field of each workspace
    breakdown,  \* member_usage.{uid}.{day} of each workspace
    invites,    \* pending_invites/{token}, or None
    day,        \* _today()
    at,         \* the step each call is about to take
    arg,        \* what the call is about
    copy,       \* the member list it read and changed
    appointed,  \* history: whom an owner made admin, and where
    granted     \* history: units granted to a member on a day

storage == <<users, spaces, pool, breakdown, invites>>
history == <<appointed, granted>>
vars == <<mix, users, spaces, pool, breakdown, invites, day, at, arg, copy,
          appointed, granted>>

Days == 0 .. MaxDay
Roles == {"owner", "admin", "member"}
NoArg == [uid |-> None, target |-> None, role |-> None, ws |-> None, token |-> None,
          units |-> 0, today |-> 0]

Member(u, role) == [uid |-> u, role |-> role, active |-> TRUE]
EntriesOf(list) == {list[i] : i \in DOMAIN list}
ActiveCount(list) == Cardinality({i \in DOMAIN list : list[i].active})
ActiveIn(list, u, roles) ==
    \E m \in EntriesOf(list) : m.uid = u /\ m.active /\ m.role \in roles

(* Every entry of u in the list, changed. *)
Changed(list, u, New(_)) ==
    [i \in DOMAIN list |-> IF list[i].uid = u THEN New(list[i]) ELSE list[i]]

NewPool == [today |-> 0, total |-> 0, date |-> 0]

Paying == [ws |-> None, role |-> None, tier |-> "team"]

(* Only the payers have signed up, and there is no workspace yet. *)
Beginning ==
    /\ users = [u \in Uids |-> IF u \in Payers THEN Paying ELSE None]
    /\ spaces = [w \in Wids |-> None]

(* A payer's workspace which everybody else has joined. *)
Established ==
    \E o \in Payers, home \in Wids, joined \in SetToSeqs(Uids) :
        LET RoleOf(u) == IF u = o THEN "owner" ELSE "member" IN
        /\ joined[1] = o
        /\ users = [u \in Uids |-> [Paying EXCEPT !.ws = home, !.role = RoleOf(u)]]
        /\ spaces = [w \in Wids |-> IF w # home THEN None
             ELSE [owner |-> o, count |-> Len(joined),
                   members |-> [i \in DOMAIN joined |-> Member(joined[i], RoleOf(joined[i]))]]]

Init ==
    /\ mix \in Mixes
    /\ IF "signup" \in mix THEN Beginning ELSE Established
    /\ pool = [w \in Wids |-> NewPool]
    /\ breakdown = [w \in Wids |-> [u \in Uids |-> [d \in Days |-> 0]]]
    /\ invites = [t \in Tokens |-> None]
    /\ day = 0
    /\ at = [c \in Calls |-> "idle"]
    /\ arg = [c \in Calls |-> NoArg]
    /\ copy = [c \in Calls |-> <<>>]
    /\ appointed = {}
    /\ granted = breakdown

-----------------------------------------------------------------------------
(* Bookkeeping of a call *)

Step(c, from, to) == at[c] = from /\ at' = [at EXCEPT ![c] = to]

Begin(c, kind, a) ==
    /\ kind \in mix
    /\ Step(c, "idle", kind)
    /\ arg' = [arg EXCEPT ![c] = a]
    /\ UNCHANGED <<storage, day, copy, history>>

End(c, from) ==
    /\ Step(c, from, "idle")
    /\ arg' = [arg EXCEPT ![c] = NoArg]
    /\ copy' = [copy EXCEPT ![c] = <<>>]

(* The call goes on if the condition holds, with what it has learnt, and is *)
(* answered 4xx otherwise.                                                  *)
Require(c, from, condition, to, newarg, newcopy) ==
    /\ UNCHANGED <<storage, day, history>>
    /\ \/ /\ Step(c, from, to)
          /\ condition
          /\ arg' = [arg EXCEPT ![c] = newarg]
          /\ copy' = [copy EXCEPT ![c] = newcopy]
       \/ /\ End(c, from)
          /\ ~condition

(* update() of the user document; it raises when there is none. *)
UpdateUser(c, from, to, u, new) ==
    /\ at[c] = from
    /\ IF users[u] # None
       THEN Step(c, from, to) /\ users' = [users EXCEPT ![u] = new] /\ UNCHANGED <<arg, copy>>
       ELSE End(c, from) /\ UNCHANGED users
    /\ UNCHANGED <<spaces, pool, breakdown, invites, day, history>>

(* The member list goes back as the call knows it. *)
WriteMembers(c, from, to) ==
    /\ Step(c, from, to)
    /\ spaces' = [spaces EXCEPT ![arg[c].ws].members = copy[c],
                                ![arg[c].ws].count = ActiveCount(copy[c])]
    /\ UNCHANGED <<users, pool, breakdown, invites, day, arg, copy, history>>

Rank == [owner |-> 3, admin |-> 2, member |-> 1]
RankOf(u) == IF users[u].role = None THEN 0 ELSE Rank[users[u].role]

(* get_user, _require_role and the user's workspace. *)
Authorized(c, minimum) ==
    LET u == arg[c].uid
    IN  users[u] # None /\ RankOf(u) >= Rank[minimum] /\ users[u].ws # None

InOwnWorkspace(c) == [arg[c] EXCEPT !.ws = users[arg[c].uid].ws]

-----------------------------------------------------------------------------
(* Creating a workspace: no tier is asked for, and an earlier one stays *)

Create(c) == \E u \in Uids : Begin(c, "create", [NoArg EXCEPT !.uid = u])

CreateCheck(c) ==
    Require(c, "create", users[arg[c].uid] # None, "create_ws", arg[c], <<>>)

create_workspace(c) ==
    /\ Step(c, "create_ws", "own")
    /\ \E w \in Wids :
        /\ spaces[w] = None
        /\ spaces' = [spaces EXCEPT ![w] =
             [owner |-> arg[c].uid, members |-> <<Member(arg[c].uid, "owner")>>, count |-> 1]]
        /\ arg' = [arg EXCEPT ![c].ws = w]
    /\ UNCHANGED <<users, pool, breakdown, invites, day, copy, history>>

CreateOwn(c) ==
    LET u == arg[c].uid IN
    UpdateUser(c, "own", "leave", u, [users[u] EXCEPT !.ws = arg[c].ws, !.role = "owner"])

-----------------------------------------------------------------------------
(* Inviting, and signing up with the invite *)

Invite(c) ==
    \E u, v \in Uids : Begin(c, "invite", [NoArg EXCEPT !.uid = u, !.target = v])

InviteCheck(c) ==
    Require(c, "invite", Authorized(c, "admin") /\ users[arg[c].uid].tier = "team",
            "invite_ws", InOwnWorkspace(c), <<>>)

MayInvite(space, v) ==
    /\ ActiveCount(space.members) < MaxMembers
    /\ \A m \in EntriesOf(space.members) : m.uid # v

InviteRead(c) ==
    Require(c, "invite_ws", MayInvite(spaces[arg[c].ws], arg[c].target),
            "invite_set", arg[c], <<>>)

InviteSet(c) ==
    /\ Step(c, "invite_set", "leave")
    /\ \E t \in Tokens :
        /\ invites[t] = None
        /\ invites' = [invites EXCEPT ![t] =
             [ws |-> arg[c].ws, to |-> arg[c].target, used |-> FALSE]]
    /\ UNCHANGED <<users, spaces, pool, breakdown, day, arg, copy, history>>

Signup(c) ==
    \E u \in Uids, t \in Tokens : Begin(c, "signup", [NoArg EXCEPT !.uid = u, !.token = t])

SignupCheck(c) ==
    Require(c, "signup", users[arg[c].uid] = None, "create_user", arg[c], <<>>)

create_user(c) ==
    /\ Step(c, "create_user", "join")
    /\ users' = [users EXCEPT ![arg[c].uid] = [ws |-> None, role |-> None, tier |-> "starter"]]
    /\ UNCHANGED <<spaces, pool, breakdown, invites, day, arg, copy, history>>

(* The invite must be there, unused, not expired, and for this person. *)
Valid(t, u) == invites[t] # None /\ ~invites[t].used /\ invites[t].to = u

JoinInvite(c) ==
    LET t == arg[c].token IN
    \E expired \in BOOLEAN :
        Require(c, "join", Valid(t, arg[c].uid) /\ ~expired,
                "join_ws", [arg[c] EXCEPT !.ws = invites[t].ws], <<>>)

JoinRead(c) ==
    /\ Step(c, "join_ws", "join_write")
    /\ copy' = [copy EXCEPT ![c] =
         Append(spaces[arg[c].ws].members, Member(arg[c].uid, "member"))]
    /\ UNCHANGED <<storage, day, arg, history>>

JoinWrite(c) == WriteMembers(c, "join_write", "join_user")

JoinUser(c) ==
    UpdateUser(c, "join_user", "join_mark", arg[c].uid,
               [ws |-> arg[c].ws, role |-> "member", tier |-> "team"])

JoinMark(c) ==
    /\ Step(c, "join_mark", "leave")
    /\ invites' = [invites EXCEPT ![arg[c].token].used = TRUE]
    /\ UNCHANGED <<users, spaces, pool, breakdown, day, arg, copy, history>>

-----------------------------------------------------------------------------
(* Removing a member and changing a role *)

RemoveMember(c) ==
    \E u, v \in Uids : Begin(c, "remove", [NoArg EXCEPT !.uid = u, !.target = v])

RemoveCheck(c) ==
    Require(c, "remove", Authorized(c, "admin"), "rem_ws", InOwnWorkspace(c), <<>>)

(* faulty variant: the owner may be removed like anybody else. *)
MayRemoveAnyone(space, u, v) ==
    u = v \/ ActiveIn(space.members, u, {"owner", "admin"})

MayRemove(space, u, v) ==
    v # space.owner /\ (u = v \/ ActiveIn(space.members, u, {"owner", "admin"}))

Deactivated(m) == [m EXCEPT !.active = FALSE]

RemoveRead(c) ==
    LET space == spaces[arg[c].ws] IN
    Require(c, "rem_ws", MayRemove(space, arg[c].uid, arg[c].target), "rem_write",
            arg[c], Changed(space.members, arg[c].target, Deactivated))

RemoveWrite(c) == WriteMembers(c, "rem_write", "rem_user")

RemoveUser(c) ==
    LET v == arg[c].target IN
    UpdateUser(c, "rem_user", "leave", v, [users[v] EXCEPT !.ws = None, !.role = None])

(* faulty variant: any role may be asked for. *)
ChangeRoleFreely(c) ==
    \E u, v \in Uids, r \in Roles :
        Begin(c, "role", [NoArg EXCEPT !.uid = u, !.target = v, !.role = r])

ChangeRole(c) ==
    \E u, v \in Uids, r \in {"admin", "member"} :
        Begin(c, "role", [NoArg EXCEPT !.uid = u, !.target = v, !.role = r])

RoleCheck(c) ==
    Require(c, "role", Authorized(c, "owner"), "role_ws", InOwnWorkspace(c), <<>>)

MayAppoint(space, u, v) == space.owner = u /\ ActiveIn(space.members, v, Roles)

Appoint(c, space) ==
    LET v == arg[c].target
        WithRole(m) == IF m.active THEN [m EXCEPT !.role = arg[c].role] ELSE m
    IN  /\ copy' = [copy EXCEPT ![c] = Changed(space.members, v, WithRole)]
        /\ appointed' = IF arg[c].role = "admin"
                        THEN appointed \cup {<<v, arg[c].ws>>} ELSE appointed

RoleRead(c) ==
    LET space == spaces[arg[c].ws] IN
    \/ /\ Step(c, "role_ws", "role_write")
       /\ MayAppoint(space, arg[c].uid, arg[c].target)
       /\ Appoint(c, space)
       /\ UNCHANGED <<storage, day, arg, granted>>
    \/ /\ End(c, "role_ws")
       /\ ~MayAppoint(space, arg[c].uid, arg[c].target)
       /\ UNCHANGED <<storage, day, history>>

(* Only the list is written, not the count. *)
RoleWrite(c) ==
    /\ Step(c, "role_write", "role_user")
    /\ spaces' = [spaces EXCEPT ![arg[c].ws].members = copy[c]]
    /\ UNCHANGED <<users, pool, breakdown, invites, day, arg, copy, history>>

RoleUser(c) ==
    LET v == arg[c].target IN
    UpdateUser(c, "role_user", "leave", v, [users[v] EXCEPT !.role = arg[c].role])

-----------------------------------------------------------------------------
(* The shared pool: checked before the work, counted after it *)

RequestPool(c) ==
    \E u \in Uids, n \in Units : Begin(c, "request", [NoArg EXCEPT !.uid = u, !.units = n])

UsedToday(w) == IF pool[w].date = day THEN pool[w].today ELSE 0

MayWork(u) ==
    users[u] # None /\ users[u].ws # None /\ users[u].tier = "team" /\ UsedToday(users[u].ws) < Pool

Admit(c) == Require(c, "request", MayWork(arg[c].uid), "work", InOwnWorkspace(c), <<>>)

(* check_and_increment_workspace asks for the date before its transaction. *)
AskDate(c) ==
    /\ Step(c, "work", "txn")
    /\ arg' = [arg EXCEPT ![c].today = day]
    /\ UNCHANGED <<storage, day, copy, history>>

(* faulty variant: the new day starts with the old day's count. *)
CurrentKept(usage, today) == [usage EXCEPT !.date = today]

Current(usage, today) ==
    IF usage.date = today THEN usage ELSE [usage EXCEPT !.today = 0, !.date = today]

Transaction(c) ==
    LET w == arg[c].ws
        n == arg[c].units
        usage == Current(pool[w], arg[c].today)
    IN  \/ /\ Step(c, "txn", "log")
           /\ usage.today + n <= Pool
           /\ pool' = [pool EXCEPT ![w] =
                [usage EXCEPT !.today = @ + n, !.total = @ + n]]
           /\ granted' = [granted EXCEPT ![w][arg[c].uid][arg[c].today] = @ + n]
           /\ UNCHANGED <<users, spaces, breakdown, invites, day, arg, copy, appointed>>
        \/ /\ End(c, "txn")
           /\ usage.today + n > Pool
           /\ UNCHANGED <<storage, day, history>>

(* An atomic increment outside the transaction, which may be lost. *)
LogMember(c) ==
    /\ End(c, "log")
    /\ breakdown' = [breakdown EXCEPT ![arg[c].ws][arg[c].uid][arg[c].today] = @ + arg[c].units]
    /\ UNCHANGED <<users, spaces, pool, invites, day, history>>

-----------------------------------------------------------------------------
Reply(c) == End(c, "leave") /\ UNCHANGED <<storage, day, history>>

(* An exception nobody catches, or the end of the instance. *)
Abort(c) ==
    /\ at[c] \notin {"idle", "leave"}
    /\ End(c, at[c])
    /\ UNCHANGED <<storage, day, history>>

Midnight ==
    /\ day < MaxDay
    /\ day' = day + 1
    /\ UNCHANGED <<storage, at, arg, copy, history>>

Arrive(c) ==
    Create(c) \/ Invite(c) \/ Signup(c) \/ RemoveMember(c) \/ ChangeRole(c) \/ RequestPool(c)

Membership(c) ==
    \/ CreateCheck(c) \/ create_workspace(c) \/ CreateOwn(c)
    \/ InviteCheck(c) \/ InviteRead(c) \/ InviteSet(c)
    \/ SignupCheck(c) \/ create_user(c)
    \/ JoinInvite(c) \/ JoinRead(c) \/ JoinWrite(c) \/ JoinUser(c) \/ JoinMark(c)
    \/ RemoveCheck(c) \/ RemoveRead(c) \/ RemoveWrite(c) \/ RemoveUser(c)
    \/ RoleCheck(c) \/ RoleRead(c) \/ RoleWrite(c) \/ RoleUser(c)

Usage(c) == Admit(c) \/ AskDate(c) \/ Transaction(c) \/ LogMember(c)

Next ==
    /\ \/ \E c \in Calls :
             Arrive(c) \/ Membership(c) \/ Usage(c) \/ Reply(c) \/ Abort(c)
       \/ Midnight
    /\ UNCHANGED mix

Spec == Init /\ [][Next]_vars

-----------------------------------------------------------------------------
Steps == {"idle", "leave", "create", "create_ws", "own", "invite", "invite_ws",
          "invite_set", "signup", "create_user", "join", "join_ws", "join_write",
          "join_user", "join_mark", "remove", "rem_ws", "rem_write", "rem_user", "role",
          "role_ws", "role_write", "role_user", "request", "work", "txn", "log"}
Entries == [uid : Uids, role : Roles, active : BOOLEAN]
User == [ws : Wids \cup {None}, role : Roles \cup {None}, tier : {"starter", "team"}]
Space == [owner : Uids, members : Seq(Entries), count : Nat]
PoolUsage == [today : Nat, total : Nat, date : Days]
InviteDoc == [ws : Wids, to : Uids, used : BOOLEAN]
Args == [uid : Uids \cup {None}, target : Uids \cup {None}, role : Roles \cup {None},
         ws : Wids \cup {None}, token : Tokens \cup {None}, units : Nat, today : Days]

(* The document that is not there is none of these. *)
ASSUME NoneAssumption == None \notin User \cup Space \cup InviteDoc

(* Every variable keeps its type. *)
TypeOK ==
    /\ mix \in Mixes
    /\ users \in [Uids -> User \cup {None}]
    /\ spaces \in [Wids -> Space \cup {None}]
    /\ pool \in [Wids -> PoolUsage]
    /\ breakdown \in [Wids -> [Uids -> [Days -> Nat]]]
    /\ invites \in [Tokens -> InviteDoc \cup {None}]
    /\ day \in Days
    /\ at \in [Calls -> Steps]
    /\ arg \in [Calls -> Args]
    /\ copy \in [Calls -> Seq(Entries)]
    /\ appointed \in SUBSET (Uids \X Wids)
    /\ granted \in [Wids -> [Uids -> [Days -> Nat]]]

(* However many stale member lists are written back over each other, a       *)
(* workspace never loses its owner: the owner is listed in it, active        *)
(* (create_workspace, join, remove_member and update_role of router.py).     *)
OwnerStays ==
    \A w \in Wids : spaces[w] # None => ActiveIn(spaces[w].members, spaces[w].owner, Roles)

(* Authority is never made up.  Whoever acts as owner owns the workspace     *)
(* they act in, and whoever acts as admin was made admin by an owner: no     *)
(* leaving, joining, removal or change of role that overtakes another turns  *)
(* into more than was given (the role is kept in the user document, apart    *)
(* from the lists).                                                          *)
AuthorityIsGranted ==
    \A u \in Uids : users[u] # None =>
        /\ users[u].role = "owner" => spaces[users[u].ws].owner = u
        /\ users[u].role = "admin" => \E w \in Wids : <<u, w>> \in appointed

GrantedOn(w, d) == SumFunctionOnSet([u \in Uids |-> granted[w][u][d]], Uids)
GrantedInAll(w) == SumFunctionOnSet([d \in Days |-> GrantedOn(w, d)], Days)

(* The pool counts what it granted, no more and no less, through concurrent  *)
(* requests and over midnight; the breakdown by member, an increment outside *)
(* the transaction, never claims more than was granted; and whoever finds    *)
(* the pool used up finds a pool that granted that much today                *)
(* (check_and_increment_workspace, get_workspace_usage).                     *)
PoolIsExact ==
    \A w \in Wids :
        /\ pool[w].total = GrantedInAll(w)
        /\ \A u \in Uids, d \in Days : breakdown[w][u][d] <= granted[w][u][d]
        /\ UsedToday(w) <= GrantedOn(w, day)

-----------------------------------------------------------------------------
(* Documented, and not so *)

(* "guarantee correctness under concurrent requests from multiple team       *)
(* members" (firestore.py:372): no more than the pool is granted on a day.   *)
(* A request that asked for the date before midnight resets the record of    *)
(* the new day to the old one, and the next one resets it again.             *)
PoolIsBounded == \A w \in Wids, d \in Days : GrantedOn(w, d) <= Pool

(* "Cannot exceed max_members limit" (workspace.py:159): open invites are    *)
(* not counted, and joining does not check the limit again.                  *)
MembersWithinLimit ==
    \A w \in Wids : spaces[w] # None => ActiveCount(spaces[w].members) <= MaxMembers

(* A user with a role in a workspace is in its member list: of two joins     *)
(* that read the list at the same time one is lost.                          *)
JoinedMeansMember ==
    \A u \in Uids : users[u] # None /\ users[u].ws # None =>
        \E m \in EntriesOf(spaces[users[u].ws].members) : m.uid = u

(* "This action requires admin role or higher" (router.py _require_role):   *)
(* the role counts where it was given.  Who joined one workspace and then    *)
(* created another gets the role the first owner gives in the one they       *)
(* created.                                                                  *)
RoleCountsWhereGiven ==
    \A u \in Uids : users[u] # None /\ users[u].ws # None /\ users[u].role = "admin"
        => <<u, users[u].ws>> \in appointed
=============================================================================
