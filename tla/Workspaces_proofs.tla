------------------------- MODULE Workspaces_proofs -------------------------
(***************************************************************************)
(* Proofs about Workspaces, for any number of calls, people, workspaces,   *)
(* invites and days: the shape of its state, the owner who cannot be lost, *)
(* the authority that is always given, and the pool that counts exactly.   *)
(***************************************************************************)
EXTENDS Workspaces, FiniteSetTheorems, TLAPS

-----------------------------------------------------------------------------
(* Induction, in a form without operator parameters *)

(* A nonempty set of naturals has a least element. *)
LEMMA LeastNatural ==
  ASSUME NEW T \in SUBSET Nat, T # {}
  PROVE  \E m \in T : \A k \in T : m <= k
<1> DEFINE Below(n) == 0 .. n - 1
           Segments == {Below(n) : n \in T}
<1>1. Segments \subseteq FiniteSubsetsOf(Nat)
  <2> SUFFICES ASSUME NEW n \in T PROVE Below(n) \in FiniteSubsetsOf(Nat)
    OBVIOUS
  <2>1. IsFiniteSet(Below(n))
    BY FS_Interval
  <2> QED BY <2>1 DEF FiniteSubsetsOf
<1>2. PICK s \in Segments : \A r \in Segments : <<r, s>> \notin StrictSubsetOrdering(Nat)
  <2>1. Segments # {}
    OBVIOUS
  <2> HIDE DEF Segments
  <2> QED BY <1>1, <2>1, FS_StrictSubsetOrderingWellFounded, WFMin
<1>3. PICK m \in T : s = Below(m)
  OBVIOUS
<1>4. ASSUME NEW k \in T, k < m PROVE FALSE
  <2>1. Below(k) \subseteq Below(m) /\ Below(k) # Below(m)
    <3>1. k \in Below(m) /\ k \notin Below(k)
      BY <1>4
    <3> QED BY <1>4, <3>1
  <2>2. Below(k) \in SUBSET Nat /\ Below(m) \in SUBSET Nat
    OBVIOUS
  <2>3. <<Below(k), Below(m)>> \notin StrictSubsetOrdering(Nat)
    BY <1>2, <1>3
  <2> HIDE DEF Below
  <2> QED BY <2>1, <2>2, <2>3 DEF StrictSubsetOrdering
<1> QED BY <1>4

(* Induction over the naturals, for sets: a set that holds 0 and with a     *)
(* number the next one is the set of all of them.                           *)
LEMMA SetInduction ==
  ASSUME NEW Good \in SUBSET Nat, 0 \in Good, \A n \in Good : n + 1 \in Good
  PROVE  Good = Nat
<1> SUFFICES ASSUME Nat \ Good # {} PROVE FALSE
  OBVIOUS
<1>1. PICK m \in Nat \ Good : \A k \in Nat \ Good : m <= k
  BY LeastNatural
<1>2. m # 0 /\ m - 1 \in Nat /\ m - 1 \in Good
  BY <1>1
<1>3. (m - 1) + 1 = m
  OBVIOUS
<1> QED BY <1>1, <1>2, <1>3

-----------------------------------------------------------------------------
(* The sum of a function over a finite set is what its definition says: the *)
(* recursion has a solution.                                               *)
First(s) == CHOOSE x \in s : TRUE

Solves(sum, D, h) ==
  sum = [s \in D |-> IF s = {} THEN 0 ELSE h[First(s)] + sum[s \ {First(s)}]]

(* A sum over a finite set exists as a function on its subsets.            *)
LEMMA SumHasSolution ==
  ASSUME NEW S, IsFiniteSet(S), NEW h
  PROVE  \E sum : Solves(sum, SUBSET S, h)
<1> DEFINE UpTo(n) == {s \in SUBSET S : Cardinality(s) <= n}
           Good == {n \in Nat : \E sum : Solves(sum, UpTo(n), h)}
<1>1. \A s \in SUBSET S : IsFiniteSet(s) /\ Cardinality(s) \in Nat
  BY FS_Subset, FS_CardinalityType
<1>2. ASSUME NEW s \in SUBSET S, s # {}
      PROVE  /\ First(s) \in s
             /\ s \ {First(s)} \in SUBSET S
             /\ Cardinality(s \ {First(s)}) = Cardinality(s) - 1
             /\ Cardinality(s) >= 1
  <2>1. First(s) \in s
    BY <1>2 DEF First
  <2>2. Cardinality(s) # 0
    BY <1>1, <1>2, FS_EmptySet
  <2> QED BY <1>1, <2>1, <2>2, FS_RemoveElement
<1>3. 0 \in Good
  <2>1. Solves([s \in UpTo(0) |-> 0], UpTo(0), h)
    <3>1. \A s \in UpTo(0) : s = {}
      BY <1>1, FS_EmptySet
    <3> QED BY <3>1 DEF Solves
  <2> QED BY <2>1
<1>4. ASSUME NEW n \in Good PROVE n + 1 \in Good
  <2>1. PICK sum : Solves(sum, UpTo(n), h)
    OBVIOUS
  <2> DEFINE More == [s \in UpTo(n + 1) |-> IF s = {} THEN 0 ELSE h[First(s)] + sum[s \ {First(s)}]]
  <2>2. Solves(More, UpTo(n + 1), h)
    <3>1. ASSUME NEW s \in UpTo(n + 1), s # {}
          PROVE  More[s \ {First(s)}] = sum[s \ {First(s)}]
      <4> DEFINE r == s \ {First(s)}
      <4>1. r \in UpTo(n) /\ r \in UpTo(n + 1)
        BY <1>1, <1>2, <3>1
      <4>2. sum[r] = IF r = {} THEN 0 ELSE h[First(r)] + sum[r \ {First(r)}]
        BY <2>1, <4>1 DEF Solves
      <4>3. More[r] = IF r = {} THEN 0 ELSE h[First(r)] + sum[r \ {First(r)}]
        BY <4>1
      <4> QED BY <4>2, <4>3
    <3>2. \A s \in UpTo(n + 1) :
            More[s] = IF s = {} THEN 0 ELSE h[First(s)] + More[s \ {First(s)}]
      BY <3>1
    <3> QED BY <3>2 DEF Solves
  <2>3. \E g : Solves(g, UpTo(n + 1), h)
    <3> HIDE DEF More, UpTo
    <3> QED BY <2>2
  <2>4. n + 1 \in Nat
    OBVIOUS
  <2> HIDE DEF More, UpTo
  <2> QED BY <2>3, <2>4
<1>5. Cardinality(S) \in Good
  <2> HIDE DEF Good
  <2>1. Good \in SUBSET Nat
    BY DEF Good
  <2> QED BY <1>3, <1>4, <1>1, <2>1, SetInduction
<1>6. UpTo(Cardinality(S)) = SUBSET S
  BY FS_Subset
<1> QED BY <1>5, <1>6


(* The sum of the community module is such a function.                     *)
LEMMA SumIsRecursive ==
  ASSUME NEW S, IsFiniteSet(S), NEW h
  PROVE  \E sum : Solves(sum, SUBSET S, h) /\ SumFunctionOnSet(h, S) = sum[S]
<1> DEFINE sum == CHOOSE sum : Solves(sum, SUBSET S, h)
<1>1. Solves(sum, SUBSET S, h)
  BY SumHasSolution
<1>2. SumFunctionOnSet(h, S) = sum[S]
  BY DEF SumFunctionOnSet, FoldFunctionOnSet, MapThenFoldSet, Solves, First
<1> HIDE DEF sum
<1> QED BY <1>1, <1>2


(* Of a set of subsets of a finite set one has no other below it. *)
LEMMA SmallestSubset ==
  ASSUME NEW S, IsFiniteSet(S), NEW B \in SUBSET (SUBSET S), B # {}
  PROVE  \E s \in B : \A r \in SUBSET S : r \subseteq s /\ r # s => r \notin B
<1>1. PICK s \in B : \A r \in B : <<r, s>> \notin StrictSubsetOrdering(S)
  BY FS_FiniteSubsetsOfFinite, FS_StrictSubsetOrderingWellFounded, WFMin
<1> QED BY <1>1 DEF StrictSubsetOrdering

(* A sum is computed by taking any one element out. *)
LEMMA SumOfNaturals ==
  ASSUME NEW S, IsFiniteSet(S), NEW h \in [S -> Nat]
  PROVE  /\ SumFunctionOnSet(h, S) \in Nat
         /\ \A x \in S : h[x] <= SumFunctionOnSet(h, S)
         /\ (\A x \in S : h[x] = 0) => SumFunctionOnSet(h, S) = 0
<1>1. PICK sum : Solves(sum, SUBSET S, h) /\ SumFunctionOnSet(h, S) = sum[S]
  BY SumIsRecursive
<1> DEFINE Fine(s) == /\ sum[s] \in Nat
                      /\ \A x \in s : h[x] <= sum[s]
                      /\ (\A x \in s : h[x] = 0) => sum[s] = 0
           Bad == {s \in SUBSET S : ~ Fine(s)}
<1>2. SUFFICES ASSUME Bad # {} PROVE FALSE
  BY <1>1
<1>3. PICK s \in Bad : \A r \in SUBSET S : r \subseteq s /\ r # s => r \notin Bad
  <2>1. Bad \in SUBSET (SUBSET S)
    OBVIOUS
  <2> HIDE DEF Bad
  <2> QED BY <1>2, <2>1, SmallestSubset
<1>4. s # {}
  BY <1>1 DEF Solves
<1>5. First(s) \in s
  BY <1>4 DEF First
<1>6. Fine(s \ {First(s)})
  BY <1>3, <1>5
<1>7. sum[s] = h[First(s)] + sum[s \ {First(s)}]
  BY <1>1, <1>4 DEF Solves
<1>8. h[First(s)] \in Nat
  BY <1>5
<1>9. Fine(s)
  <2>1. sum[s] \in Nat
    BY <1>6, <1>7, <1>8
  <2>2. ASSUME NEW x \in s PROVE h[x] <= sum[s]
    <3>1. CASE x = First(s)
      BY <3>1, <1>6, <1>7, <1>8
    <3>2. CASE x # First(s)
      <4>1. h[x] <= sum[s \ {First(s)}]
        BY <3>2, <1>6
      <4>2. h[x] \in Nat
        BY <1>3
      <4> QED BY <4>1, <4>2, <1>6, <1>7, <1>8
    <3> QED BY <3>1, <3>2
  <2>3. (\A x \in s : h[x] = 0) => sum[s] = 0
    BY <1>5, <1>6, <1>7
  <2> QED BY <2>1, <2>2, <2>3
<1> QED BY <1>3, <1>9

(* Raising one value raises the sum by as much. *)
LEMMA SumRaised ==
  ASSUME NEW S, IsFiniteSet(S), NEW h \in [S -> Nat], NEW g \in [S -> Nat],
         NEW x \in S, NEW n \in Nat, g[x] = h[x] + n,
         \A y \in S \ {x} : g[y] = h[y]
  PROVE  SumFunctionOnSet(g, S) = SumFunctionOnSet(h, S) + n
<1>1. PICK sum : Solves(sum, SUBSET S, h) /\ SumFunctionOnSet(h, S) = sum[S]
  BY SumIsRecursive
<1>2. PICK total : Solves(total, SUBSET S, g) /\ SumFunctionOnSet(g, S) = total[S]
  BY SumIsRecursive
<1> DEFINE Fine(s) == /\ sum[s] \in Nat
                      /\ total[s] = IF x \in s THEN sum[s] + n ELSE sum[s]
           Bad == {s \in SUBSET S : ~ Fine(s)}
<1>3. SUFFICES ASSUME Bad # {} PROVE FALSE
  BY <1>1, <1>2
<1>4. PICK s \in Bad : \A r \in SUBSET S : r \subseteq s /\ r # s => r \notin Bad
  <2>1. Bad \in SUBSET (SUBSET S)
    OBVIOUS
  <2> HIDE DEF Bad
  <2> QED BY <1>3, <2>1, SmallestSubset
<1>5. s # {}
  BY <1>1, <1>2 DEF Solves
<1>6. First(s) \in s
  BY <1>5 DEF First
<1>7. Fine(s \ {First(s)})
  BY <1>4, <1>6
<1>8. /\ sum[s] = h[First(s)] + sum[s \ {First(s)}]
      /\ total[s] = g[First(s)] + total[s \ {First(s)}]
  BY <1>1, <1>2, <1>5 DEF Solves
<1>9. h[First(s)] \in Nat /\ g[First(s)] \in Nat
  BY <1>6
<1>10. CASE x = First(s)
  BY <1>10, <1>4, <1>6, <1>7, <1>8, <1>9
<1>11. CASE x # First(s)
  <2>1. g[First(s)] = h[First(s)]
    BY <1>6, <1>11
  <2> QED BY <1>11, <2>1, <1>4, <1>6, <1>7, <1>8, <1>9
<1> QED BY <1>10, <1>11

-----------------------------------------------------------------------------
(* What a call holds at each of its steps *)

InWorkspace == {"own", "invite_ws", "invite_set", "join_ws", "join_write", "join_user",
                "join_mark", "rem_ws", "rem_write", "rem_user", "role_ws", "role_write",
                "role_user", "work", "txn", "log"}
HasTarget == {"invite", "invite_ws", "invite_set", "remove", "rem_ws", "rem_write",
              "rem_user", "role", "role_ws", "role_write", "role_user"}
HasRole == {"role", "role_ws", "role_write", "role_user"}
HasToken == {"signup", "create_user", "join"} \cup {"join_ws", "join_write", "join_user", "join_mark"}
Joining == {"join_ws", "join_write", "join_user", "join_mark"}

CallOK(c) ==
    /\ at[c] \notin {"idle", "leave"} => arg[c].uid \in Uids
    /\ at[c] \in InWorkspace => arg[c].ws \in Wids /\ spaces[arg[c].ws] # None
    /\ at[c] \in HasTarget => arg[c].target \in Uids
    /\ at[c] \in HasRole => arg[c].role \in {"admin", "member"}
    /\ at[c] \in HasToken => arg[c].token \in Tokens
    /\ at[c] \in Joining => invites[arg[c].token] # None

(* The workspace of a user or an invite exists. *)
Referenced ==
    /\ \A u \in Uids : users[u] # None /\ users[u].ws # None => spaces[users[u].ws] # None
    /\ \A t \in Tokens : invites[t] # None => spaces[invites[t].ws] # None

TypeInv == TypeOK /\ Referenced /\ \A c \in Calls : CallOK(c)

CallStep(c) == Arrive(c) \/ Membership(c) \/ Usage(c) \/ Reply(c) \/ Abort(c)

(* A call goes to one of its steps, and the others stand where they stood. *)
LEMMA CallsMove ==
    ASSUME TypeInv, NEW c \in Calls, CallStep(c)
    PROVE  /\ at' \in [Calls -> Steps]
           /\ \A d \in Calls \ {c} :
                at'[d] = at[d] /\ arg'[d] = arg[d] /\ copy'[d] = copy[d]
<1> USE DEF TypeInv, TypeOK, Steps, Step, End, Begin, Require, UpdateUser, WriteMembers
<1>1. CASE Create(c)
  BY <1>1 DEF Create
<1>2. CASE Invite(c)
  BY <1>2 DEF Invite
<1>3. CASE Signup(c)
  BY <1>3 DEF Signup
<1>4. CASE RemoveMember(c)
  BY <1>4 DEF RemoveMember
<1>5. CASE ChangeRole(c)
  BY <1>5 DEF ChangeRole
<1>6. CASE RequestPool(c)
  BY <1>6 DEF RequestPool
<1>7. CASE CreateCheck(c)
  BY <1>7 DEF CreateCheck
<1>8. CASE create_workspace(c)
  BY <1>8 DEF create_workspace
<1>9. CASE CreateOwn(c)
  BY <1>9 DEF CreateOwn
<1>10. CASE InviteCheck(c)
  BY <1>10 DEF InviteCheck
<1>11. CASE InviteRead(c)
  BY <1>11 DEF InviteRead
<1>12. CASE InviteSet(c)
  BY <1>12 DEF InviteSet
<1>13. CASE SignupCheck(c)
  BY <1>13 DEF SignupCheck
<1>14. CASE create_user(c)
  BY <1>14 DEF create_user
<1>15. CASE JoinInvite(c)
  BY <1>15 DEF JoinInvite
<1>16. CASE JoinRead(c)
  BY <1>16 DEF JoinRead
<1>17. CASE JoinWrite(c)
  BY <1>17 DEF JoinWrite
<1>18. CASE JoinUser(c)
  BY <1>18 DEF JoinUser
<1>19. CASE JoinMark(c)
  BY <1>19 DEF JoinMark
<1>20. CASE RemoveCheck(c)
  BY <1>20 DEF RemoveCheck
<1>21. CASE RemoveRead(c)
  BY <1>21 DEF RemoveRead
<1>22. CASE RemoveWrite(c)
  BY <1>22 DEF RemoveWrite
<1>23. CASE RemoveUser(c)
  BY <1>23 DEF RemoveUser
<1>24. CASE RoleCheck(c)
  BY <1>24 DEF RoleCheck
<1>25. CASE RoleRead(c)
  BY <1>25 DEF RoleRead, Appoint
<1>26. CASE RoleWrite(c)
  BY <1>26 DEF RoleWrite
<1>27. CASE RoleUser(c)
  BY <1>27 DEF RoleUser
<1>28. CASE Admit(c)
  BY <1>28 DEF Admit
<1>29. CASE AskDate(c)
  BY <1>29 DEF AskDate
<1>30. CASE Transaction(c)
  BY <1>30 DEF Transaction
<1>31. CASE LogMember(c)
  BY <1>31 DEF LogMember
<1>32. CASE Reply(c)
  BY <1>32 DEF Reply
<1>33. CASE Abort(c)
  BY <1>33 DEF Abort
<1> QED
  BY <1>1, <1>2, <1>3, <1>4, <1>5, <1>6, <1>7, <1>8, <1>9, <1>10, <1>11, <1>12, <1>13,
     <1>14, <1>15, <1>16, <1>17, <1>18, <1>19, <1>20, <1>21, <1>22, <1>23, <1>24,
     <1>25, <1>26, <1>27, <1>28, <1>29, <1>30, <1>31, <1>32, <1>33 DEF CallStep, Arrive, Membership, Usage

(* The arguments of a call stay arguments when one of them is changed. *)
LEMMA ArgsUpdated ==
    /\ NoArg \in Args
    /\ \A a \in Args :
          /\ \A u \in Uids : [a EXCEPT !.uid = u] \in Args
          /\ \A u \in Uids : [a EXCEPT !.target = u] \in Args
          /\ \A r \in Roles : [a EXCEPT !.role = r] \in Args
          /\ \A w \in Wids \cup {None} : [a EXCEPT !.ws = w] \in Args
          /\ \A t \in Tokens : [a EXCEPT !.token = t] \in Args
          /\ \A n \in Nat : [a EXCEPT !.units = n] \in Args
          /\ \A d \in Days : [a EXCEPT !.today = d] \in Args
BY WorkspacesAssumption DEF Args, NoArg, Days

(* The workspace a call turns to is that of its user, and exists. *)
LEMMA OwnWorkspace ==
    ASSUME TypeInv, NEW c \in Calls, at[c] \notin {"idle", "leave"},
           users[arg[c].uid] # None
    PROVE  /\ InOwnWorkspace(c) \in Args
           /\ users[arg[c].uid].ws # None =>
                /\ users[arg[c].uid].ws \in Wids
                /\ spaces[users[arg[c].uid].ws] # None
           /\ InOwnWorkspace(c).uid = arg[c].uid /\ InOwnWorkspace(c).target = arg[c].target
           /\ InOwnWorkspace(c).role = arg[c].role /\ InOwnWorkspace(c).units = arg[c].units
           /\ InOwnWorkspace(c).ws = users[arg[c].uid].ws
<1>1. arg[c].uid \in Uids /\ arg[c] \in Args
  BY DEF TypeInv, TypeOK, CallOK
<1>2. users[arg[c].uid] \in User
  BY <1>1 DEF TypeInv, TypeOK
<1>3. users[arg[c].uid].ws \in Wids \cup {None}
  BY <1>2 DEF User
<1>4. InOwnWorkspace(c) \in Args
  BY <1>1, <1>3, ArgsUpdated DEF InOwnWorkspace
<1> QED BY <1>1, <1>3, <1>4 DEF InOwnWorkspace, TypeInv, Referenced, Args

(* What a call is about keeps its type. *)
LEMMA ArgsKept ==
    ASSUME TypeInv, NEW c \in Calls, CallStep(c)
    PROVE  arg' \in [Calls -> Args]
<1> USE DEF TypeInv, TypeOK
<1>0. arg[c] \in Args
  OBVIOUS
<1>1. CASE Create(c)
  <2>1. PICK u \in Uids : Begin(c, "create", [NoArg EXCEPT !.uid = u])
    BY <1>1 DEF Create
  <2>2. [NoArg EXCEPT !.uid = u] \in Args
    BY WorkspacesAssumption, ArgsUpdated DEF Roles
  <2> QED BY <2>1, <2>2 DEF Begin
<1>2. CASE Invite(c)
  <2>1. PICK u \in Uids, v \in Uids : Begin(c, "invite", [NoArg EXCEPT !.uid = u, !.target = v])
    BY <1>2 DEF Invite
  <2>2. [NoArg EXCEPT !.uid = u, !.target = v] \in Args
    BY WorkspacesAssumption, ArgsUpdated DEF Roles
  <2> QED BY <2>1, <2>2 DEF Begin
<1>3. CASE Signup(c)
  <2>1. PICK u \in Uids, t \in Tokens : Begin(c, "signup", [NoArg EXCEPT !.uid = u, !.token = t])
    BY <1>3 DEF Signup
  <2>2. [NoArg EXCEPT !.uid = u, !.token = t] \in Args
    BY WorkspacesAssumption, ArgsUpdated DEF Roles
  <2> QED BY <2>1, <2>2 DEF Begin
<1>4. CASE RemoveMember(c)
  <2>1. PICK u \in Uids, v \in Uids : Begin(c, "remove", [NoArg EXCEPT !.uid = u, !.target = v])
    BY <1>4 DEF RemoveMember
  <2>2. [NoArg EXCEPT !.uid = u, !.target = v] \in Args
    BY WorkspacesAssumption, ArgsUpdated DEF Roles
  <2> QED BY <2>1, <2>2 DEF Begin
<1>5. CASE ChangeRole(c)
  <2>1. PICK u \in Uids, v \in Uids, r \in {"admin", "member"} : Begin(c, "role", [NoArg EXCEPT !.uid = u, !.target = v, !.role = r])
    BY <1>5 DEF ChangeRole
  <2>2. [NoArg EXCEPT !.uid = u, !.target = v, !.role = r] \in Args
    BY WorkspacesAssumption, ArgsUpdated DEF Roles
  <2> QED BY <2>1, <2>2 DEF Begin
<1>6. CASE RequestPool(c)
  <2>1. PICK u \in Uids, n \in Units : Begin(c, "request", [NoArg EXCEPT !.uid = u, !.units = n])
    BY <1>6 DEF RequestPool
  <2>2. [NoArg EXCEPT !.uid = u, !.units = n] \in Args
    BY WorkspacesAssumption, ArgsUpdated DEF Roles
  <2> QED BY <2>1, <2>2 DEF Begin
<1>7. CASE CreateCheck(c)
  BY <1>0, <1>7, ArgsUpdated DEF CreateCheck, End, Require
<1>8. CASE create_workspace(c)
  BY <1>0, <1>8, ArgsUpdated DEF create_workspace, End
<1>9. CASE CreateOwn(c)
  BY <1>0, <1>9, ArgsUpdated DEF CreateOwn, End, UpdateUser
<1>10. CASE InviteCheck(c)
  BY <1>0, <1>10, ArgsUpdated, OwnWorkspace DEF InviteCheck, End, Require, Authorized, Step, MayWork
<1>11. CASE InviteRead(c)
  BY <1>0, <1>11, ArgsUpdated DEF InviteRead, End, Require
<1>12. CASE InviteSet(c)
  BY <1>0, <1>12 DEF InviteSet
<1>13. CASE SignupCheck(c)
  BY <1>0, <1>13, ArgsUpdated DEF SignupCheck, End, Require
<1>14. CASE create_user(c)
  BY <1>0, <1>14 DEF create_user
<1>15. CASE JoinInvite(c)
  <2>1. CASE End(c, "join")
    BY <2>1, ArgsUpdated DEF End
  <2>2. CASE ~ End(c, "join")
    <3>1. /\ at[c] = "join" /\ invites[arg[c].token] # None
          /\ arg' = [arg EXCEPT ![c] = [arg[c] EXCEPT !.ws = invites[arg[c].token].ws]]
      BY <1>15, <2>2 DEF JoinInvite, Require, Step, Valid
    <3>2. invites[arg[c].token].ws \in Wids
      BY <3>1 DEF CallOK, HasToken, InviteDoc
    <3> QED BY <1>0, <3>1, <3>2, ArgsUpdated
  <2> QED BY <2>1, <2>2
<1>16. CASE JoinRead(c)
  BY <1>0, <1>16 DEF JoinRead
<1>17. CASE JoinWrite(c)
  BY <1>0, <1>17 DEF JoinWrite, WriteMembers
<1>18. CASE JoinUser(c)
  BY <1>0, <1>18, ArgsUpdated DEF JoinUser, End, UpdateUser
<1>19. CASE JoinMark(c)
  BY <1>0, <1>19 DEF JoinMark
<1>20. CASE RemoveCheck(c)
  BY <1>0, <1>20, ArgsUpdated, OwnWorkspace DEF RemoveCheck, End, Require, Authorized, Step, MayWork
<1>21. CASE RemoveRead(c)
  BY <1>0, <1>21, ArgsUpdated DEF RemoveRead, End, Require
<1>22. CASE RemoveWrite(c)
  BY <1>0, <1>22 DEF RemoveWrite, WriteMembers
<1>23. CASE RemoveUser(c)
  BY <1>0, <1>23, ArgsUpdated DEF RemoveUser, End, UpdateUser
<1>24. CASE RoleCheck(c)
  BY <1>0, <1>24, ArgsUpdated, OwnWorkspace DEF RoleCheck, End, Require, Authorized, Step, MayWork
<1>25. CASE RoleRead(c)
  BY <1>0, <1>25, ArgsUpdated DEF RoleRead, End
<1>26. CASE RoleWrite(c)
  BY <1>0, <1>26 DEF RoleWrite
<1>27. CASE RoleUser(c)
  BY <1>0, <1>27, ArgsUpdated DEF RoleUser, End, UpdateUser
<1>28. CASE Admit(c)
  BY <1>0, <1>28, ArgsUpdated, OwnWorkspace DEF Admit, End, Require, Authorized, Step, MayWork
<1>29. CASE AskDate(c)
  BY <1>0, <1>29, ArgsUpdated DEF AskDate, End
<1>30. CASE Transaction(c)
  BY <1>0, <1>30, ArgsUpdated DEF Transaction, End
<1>31. CASE LogMember(c)
  BY <1>0, <1>31, ArgsUpdated DEF LogMember, End
<1>32. CASE Reply(c)
  BY <1>0, <1>32, ArgsUpdated DEF Reply, End
<1>33. CASE Abort(c)
  BY <1>0, <1>33, ArgsUpdated DEF Abort, End
<1> QED
  BY <1>1, <1>2, <1>3, <1>4, <1>5, <1>6, <1>7, <1>8, <1>9, <1>10, <1>11, <1>12, <1>13,
     <1>14, <1>15, <1>16, <1>17, <1>18, <1>19, <1>20, <1>21, <1>22, <1>23, <1>24,
     <1>25, <1>26, <1>27, <1>28, <1>29, <1>30, <1>31, <1>32, <1>33 DEF CallStep, Arrive, Membership, Usage


-----------------------------------------------------------------------------
(* Member lists *)

(* The active members of a list are counted by a number and found at their *)
(* entries.                                                                *)
LEMMA ListFacts ==
    ASSUME NEW list \in Seq(Entries)
    PROVE  /\ ActiveCount(list) \in Nat
           /\ \A u \in Uids : ActiveIn(list, u, Roles)
                <=> \E i \in DOMAIN list : list[i].uid = u /\ list[i].active
<1>1. DOMAIN list = 1 .. Len(list) /\ Len(list) \in Nat
  OBVIOUS
<1>2. IsFiniteSet(DOMAIN list)
  BY <1>1, FS_Interval
<1>3. ActiveCount(list) \in Nat
  BY <1>2, FS_Subset, FS_CardinalityType DEF ActiveCount
<1>4. \A i \in DOMAIN list : list[i] \in Entries
  BY <1>1
<1> QED BY <1>3, <1>4 DEF ActiveIn, EntriesOf, Entries

(* A member who is added at the end leaves the others where they are. *)
LEMMA Added ==
    ASSUME NEW list \in Seq(Entries), NEW m \in Entries
    PROVE  /\ Append(list, m) \in Seq(Entries)
           /\ \A u \in Uids : ActiveIn(list, u, Roles) => ActiveIn(Append(list, m), u, Roles)
<1>1. Append(list, m) \in Seq(Entries)
  OBVIOUS
<1>2. \A i \in DOMAIN list : i \in DOMAIN Append(list, m) /\ Append(list, m)[i] = list[i]
  OBVIOUS
<1>3. ASSUME NEW u \in Uids, ActiveIn(list, u, Roles) PROVE ActiveIn(Append(list, m), u, Roles)
  <2>1. PICK i \in DOMAIN list : list[i].uid = u /\ list[i].active
    BY <1>3, ListFacts
  <2>2. Append(list, m)[i].uid = u /\ Append(list, m)[i].active
    BY <1>2, <2>1
  <2> QED BY <1>1, <1>2, <2>2, ListFacts
<1> QED BY <1>1, <1>3

(* Whoever is deactivated, the others stay active. *)
LEMMA Removed ==
    ASSUME NEW list \in Seq(Entries), NEW v
    PROVE  /\ Changed(list, v, Deactivated) \in Seq(Entries)
           /\ \A u \in Uids \ {v} :
                ActiveIn(list, u, Roles) => ActiveIn(Changed(list, v, Deactivated), u, Roles)
<1> DEFINE new == Changed(list, v, Deactivated)
<1>1. DOMAIN new = DOMAIN list /\ DOMAIN list = 1 .. Len(list) /\ Len(list) \in Nat
  BY DEF Changed
<1>2. \A i \in DOMAIN list : new[i] \in Entries
  <2>1. \A m \in Entries : Deactivated(m) \in Entries
    BY DEF Deactivated, Entries
  <2>2. \A i \in DOMAIN list : list[i] \in Entries
    BY <1>1
  <2> QED BY <2>1, <2>2 DEF Changed
<1>3. \A i \in DOMAIN list : list[i].uid # v => new[i] = list[i]
  BY DEF Changed
<1>4. new \in [1 .. Len(list) -> Entries]
  BY <1>1, <1>2 DEF Changed
<1>5. new \in Seq(Entries)
  BY <1>1, <1>4
<1>6. ASSUME NEW u \in Uids \ {v}, ActiveIn(list, u, Roles) PROVE ActiveIn(new, u, Roles)
  <2>1. PICK i \in DOMAIN list : list[i].uid = u /\ list[i].active
    BY <1>6, ListFacts
  <2>2. i \in DOMAIN new /\ new[i] = list[i]
    BY <1>1, <1>3, <2>1
  <2> HIDE DEF new
  <2> QED BY <1>5, <2>1, <2>2, ListFacts
<1> QED BY <1>5, <1>6

(* Whoever gets another role stays as active as before. *)
LEMMA Promoted ==
    ASSUME NEW list \in Seq(Entries), NEW v, NEW r \in Roles
    PROVE  LET WithRole(m) == IF m.active THEN [m EXCEPT !.role = r] ELSE m
               new == Changed(list, v, WithRole)
           IN  /\ new \in Seq(Entries)
               /\ \A u \in Uids : ActiveIn(list, u, Roles) => ActiveIn(new, u, Roles)
<1> DEFINE WithRole(m) == IF m.active THEN [m EXCEPT !.role = r] ELSE m
           new == Changed(list, v, WithRole)
<1>1. DOMAIN new = DOMAIN list /\ DOMAIN list = 1 .. Len(list) /\ Len(list) \in Nat
  BY DEF Changed
<1>2. \A m \in Entries :
        WithRole(m) \in Entries /\ WithRole(m).uid = m.uid /\ WithRole(m).active = m.active
  BY DEF Entries
<1>3. \A i \in DOMAIN list :
        new[i] \in Entries /\ new[i].uid = list[i].uid /\ new[i].active = list[i].active
  <2>1. \A i \in DOMAIN list : list[i] \in Entries
    BY <1>1
  <2> HIDE DEF WithRole
  <2> QED BY <1>2, <2>1 DEF Changed
<1>4. new \in [1 .. Len(list) -> Entries]
  BY <1>1, <1>3 DEF Changed
<1>5. new \in Seq(Entries)
  <2> HIDE DEF new
  <2> QED BY <1>1, <1>4
<1>6. \A u \in Uids : ActiveIn(list, u, Roles) => ActiveIn(new, u, Roles)
  <2> HIDE DEF new
  <2> QED BY <1>1, <1>3, <1>5, ListFacts
<1> QED BY <1>5, <1>6

(* What a call has read is a member list. *)
LEMMA CopiesKept ==
    ASSUME TypeInv, NEW c \in Calls, CallStep(c)
    PROVE  copy' \in [Calls -> Seq(Entries)]
<1> USE DEF TypeInv, TypeOK, Begin, End, Require, UpdateUser, WriteMembers
<1>0. \A w \in Wids : spaces[w] # None => spaces[w].members \in Seq(Entries)
  BY DEF Space
<1> <<>> \in Seq(Entries)
  OBVIOUS
<1>1. CASE Create(c)
  BY <1>1 DEF Create
<1>2. CASE Invite(c)
  BY <1>2 DEF Invite
<1>3. CASE Signup(c)
  BY <1>3 DEF Signup
<1>4. CASE RemoveMember(c)
  BY <1>4 DEF RemoveMember
<1>5. CASE ChangeRole(c)
  BY <1>5 DEF ChangeRole
<1>6. CASE RequestPool(c)
  BY <1>6 DEF RequestPool
<1>7. CASE CreateCheck(c)
  BY <1>7 DEF CreateCheck
<1>8. CASE create_workspace(c)
  BY <1>8 DEF create_workspace
<1>9. CASE CreateOwn(c)
  BY <1>9 DEF CreateOwn
<1>10. CASE InviteCheck(c)
  BY <1>10 DEF InviteCheck
<1>11. CASE InviteRead(c)
  BY <1>11 DEF InviteRead
<1>12. CASE InviteSet(c)
  BY <1>12 DEF InviteSet
<1>13. CASE SignupCheck(c)
  BY <1>13 DEF SignupCheck
<1>14. CASE create_user(c)
  BY <1>14 DEF create_user
<1>15. CASE JoinInvite(c)
  BY <1>15 DEF JoinInvite
<1>16. CASE JoinRead(c)
  <2>1. /\ at[c] = "join_ws"
        /\ copy' = [copy EXCEPT ![c] =
               Append(spaces[arg[c].ws].members, Member(arg[c].uid, "member"))]
    BY <1>16 DEF JoinRead, Step
  <2>2. arg[c].uid \in Uids /\ spaces[arg[c].ws].members \in Seq(Entries)
    BY <1>0, <2>1 DEF CallOK, InWorkspace
  <2>3. Member(arg[c].uid, "member") \in Entries
    BY <2>2 DEF Member, Entries, Roles
  <2> QED BY <2>1, <2>2, <2>3, Added
<1>17. CASE JoinWrite(c)
  BY <1>17 DEF JoinWrite
<1>18. CASE JoinUser(c)
  BY <1>18 DEF JoinUser
<1>19. CASE JoinMark(c)
  BY <1>19 DEF JoinMark
<1>20. CASE RemoveCheck(c)
  BY <1>20 DEF RemoveCheck
<1>21. CASE RemoveRead(c)
  <2>1. CASE End(c, "rem_ws")
    BY <2>1
  <2>2. CASE ~ End(c, "rem_ws")
    <3>1. /\ at[c] = "rem_ws"
          /\ copy' = [copy EXCEPT ![c] =
                 Changed(spaces[arg[c].ws].members, arg[c].target, Deactivated)]
      BY <1>21, <2>2 DEF RemoveRead, Step
    <3>2. spaces[arg[c].ws].members \in Seq(Entries)
      BY <1>0, <3>1 DEF CallOK, InWorkspace
    <3> QED BY <3>1, <3>2, Removed
  <2> QED BY <2>1, <2>2
<1>22. CASE RemoveWrite(c)
  BY <1>22 DEF RemoveWrite
<1>23. CASE RemoveUser(c)
  BY <1>23 DEF RemoveUser
<1>24. CASE RoleCheck(c)
  BY <1>24 DEF RoleCheck
<1>25. CASE RoleRead(c)
  <2>1. CASE End(c, "role_ws")
    BY <2>1
  <2>2. CASE ~ End(c, "role_ws")
    <3>1. at[c] = "role_ws" /\ Appoint(c, spaces[arg[c].ws])
      BY <1>25, <2>2 DEF RoleRead, Step
    <3>2. spaces[arg[c].ws].members \in Seq(Entries) /\ arg[c].role \in Roles
      BY <1>0, <3>1 DEF CallOK, InWorkspace, HasRole, Roles
    <3> QED BY <3>1, <3>2, Promoted DEF Appoint
  <2> QED BY <2>1, <2>2
<1>26. CASE RoleWrite(c)
  BY <1>26 DEF RoleWrite
<1>27. CASE RoleUser(c)
  BY <1>27 DEF RoleUser
<1>28. CASE Admit(c)
  BY <1>28 DEF Admit
<1>29. CASE AskDate(c)
  BY <1>29 DEF AskDate
<1>30. CASE Transaction(c)
  BY <1>30 DEF Transaction, storage
<1>31. CASE LogMember(c)
  BY <1>31 DEF LogMember
<1>32. CASE Reply(c)
  BY <1>32 DEF Reply
<1>33. CASE Abort(c)
  BY <1>33 DEF Abort
<1> QED
  BY <1>1, <1>2, <1>3, <1>4, <1>5, <1>6, <1>7, <1>8, <1>9, <1>10, <1>11, <1>12, <1>13,
     <1>14, <1>15, <1>16, <1>17, <1>18, <1>19, <1>20, <1>21, <1>22, <1>23, <1>24,
     <1>25, <1>26, <1>27, <1>28, <1>29, <1>30, <1>31, <1>32, <1>33 DEF CallStep, Arrive, Membership, Usage


-----------------------------------------------------------------------------
(* What is stored *)

(* A workspace never disappears, and keeps its owner. *)
LEMMA SpacesKept ==
    ASSUME TypeInv, NEW c \in Calls, CallStep(c)
    PROVE  /\ spaces' \in [Wids -> Space \cup {None}]
           /\ \A w \in Wids : spaces[w] # None =>
                spaces'[w] # None /\ spaces'[w].owner = spaces[w].owner
<1> USE DEF TypeInv, TypeOK, Begin, End, Require, UpdateUser, storage
<1>0. /\ None \notin Space
      /\ \A w \in Wids : spaces[w] # None => spaces[w] \in Space
      /\ ActiveCount(copy[c]) \in Nat /\ copy[c] \in Seq(Entries)
  BY NoneAssumption, ListFacts
<1>1. CASE Create(c)
  BY <1>1 DEF Create
<1>2. CASE Invite(c)
  BY <1>2 DEF Invite
<1>3. CASE Signup(c)
  BY <1>3 DEF Signup
<1>4. CASE RemoveMember(c)
  BY <1>4 DEF RemoveMember
<1>5. CASE ChangeRole(c)
  BY <1>5 DEF ChangeRole
<1>6. CASE RequestPool(c)
  BY <1>6 DEF RequestPool
<1>7. CASE CreateCheck(c)
  BY <1>7 DEF CreateCheck
<1>8. CASE create_workspace(c)
  <2>1. PICK w \in Wids :
          /\ spaces[w] = None
          /\ spaces' = [spaces EXCEPT ![w] =
               [owner |-> arg[c].uid, members |-> <<Member(arg[c].uid, "owner")>>, count |-> 1]]
    BY <1>8 DEF create_workspace
  <2>2. at[c] = "create_ws" /\ arg[c].uid \in Uids
    BY <1>8 DEF create_workspace, Step, CallOK
  <2>3. <<Member(arg[c].uid, "owner")>> \in Seq(Entries)
    BY <2>2 DEF Member, Entries, Roles
  <2> QED BY <1>0, <2>1, <2>2, <2>3 DEF Space
<1>9. CASE CreateOwn(c)
  BY <1>9 DEF CreateOwn
<1>10. CASE InviteCheck(c)
  BY <1>10 DEF InviteCheck
<1>11. CASE InviteRead(c)
  BY <1>11 DEF InviteRead
<1>12. CASE InviteSet(c)
  BY <1>12 DEF InviteSet
<1>13. CASE SignupCheck(c)
  BY <1>13 DEF SignupCheck
<1>14. CASE create_user(c)
  BY <1>14 DEF create_user
<1>15. CASE JoinInvite(c)
  BY <1>15 DEF JoinInvite
<1>16. CASE JoinRead(c)
  BY <1>16 DEF JoinRead
<1>17. CASE JoinWrite(c)
  <2>1. at[c] = "join_write" /\ arg[c].ws \in Wids /\ spaces[arg[c].ws] \in Space
    BY <1>17 DEF JoinWrite, WriteMembers, Step, CallOK, InWorkspace
  <2>2. \A s \in Space : [s EXCEPT !.members = copy[c], !.count = ActiveCount(copy[c])] \in Space
    BY <1>0 DEF Space
  <2>3. spaces' = [spaces EXCEPT ![arg[c].ws] = [spaces[arg[c].ws] EXCEPT !.members = copy[c], !.count = ActiveCount(copy[c])]]
    BY <1>17, <2>1 DEF JoinWrite, WriteMembers
  <2> QED BY <1>0, <2>1, <2>2, <2>3 DEF Space
<1>18. CASE JoinUser(c)
  BY <1>18 DEF JoinUser
<1>19. CASE JoinMark(c)
  BY <1>19 DEF JoinMark
<1>20. CASE RemoveCheck(c)
  BY <1>20 DEF RemoveCheck
<1>21. CASE RemoveRead(c)
  BY <1>21 DEF RemoveRead
<1>22. CASE RemoveWrite(c)
  <2>1. at[c] = "rem_write" /\ arg[c].ws \in Wids /\ spaces[arg[c].ws] \in Space
    BY <1>22 DEF RemoveWrite, WriteMembers, Step, CallOK, InWorkspace
  <2>2. \A s \in Space : [s EXCEPT !.members = copy[c], !.count = ActiveCount(copy[c])] \in Space
    BY <1>0 DEF Space
  <2>3. spaces' = [spaces EXCEPT ![arg[c].ws] = [spaces[arg[c].ws] EXCEPT !.members = copy[c], !.count = ActiveCount(copy[c])]]
    BY <1>22, <2>1 DEF RemoveWrite, WriteMembers
  <2> QED BY <1>0, <2>1, <2>2, <2>3 DEF Space
<1>23. CASE RemoveUser(c)
  BY <1>23 DEF RemoveUser
<1>24. CASE RoleCheck(c)
  BY <1>24 DEF RoleCheck
<1>25. CASE RoleRead(c)
  BY <1>25 DEF RoleRead
<1>26. CASE RoleWrite(c)
  <2>1. at[c] = "role_write" /\ arg[c].ws \in Wids /\ spaces[arg[c].ws] \in Space
    BY <1>26 DEF RoleWrite, Step, CallOK, InWorkspace
  <2>2. \A s \in Space : [s EXCEPT !.members = copy[c]] \in Space
    BY <1>0 DEF Space
  <2>3. spaces' = [spaces EXCEPT ![arg[c].ws] = [spaces[arg[c].ws] EXCEPT !.members = copy[c]]]
    BY <1>26, <2>1 DEF RoleWrite
  <2> QED BY <1>0, <2>1, <2>2, <2>3 DEF Space
<1>27. CASE RoleUser(c)
  BY <1>27 DEF RoleUser
<1>28. CASE Admit(c)
  BY <1>28 DEF Admit
<1>29. CASE AskDate(c)
  BY <1>29 DEF AskDate
<1>30. CASE Transaction(c)
  BY <1>30 DEF Transaction
<1>31. CASE LogMember(c)
  BY <1>31 DEF LogMember
<1>32. CASE Reply(c)
  BY <1>32 DEF Reply
<1>33. CASE Abort(c)
  BY <1>33 DEF Abort
<1> QED
  BY <1>1, <1>2, <1>3, <1>4, <1>5, <1>6, <1>7, <1>8, <1>9, <1>10, <1>11, <1>12, <1>13,
     <1>14, <1>15, <1>16, <1>17, <1>18, <1>19, <1>20, <1>21, <1>22, <1>23, <1>24,
     <1>25, <1>26, <1>27, <1>28, <1>29, <1>30, <1>31, <1>32, <1>33 DEF CallStep, Arrive, Membership, Usage

(* A user document is written over, never removed. *)
LEMMA UsersKept ==
    ASSUME TypeInv, NEW c \in Calls, CallStep(c)
    PROVE  users' \in [Uids -> User \cup {None}]
<1> USE DEF TypeInv, TypeOK, Begin, End, Require, WriteMembers, storage
<1>1. CASE Create(c)
  BY <1>1 DEF Create
<1>2. CASE Invite(c)
  BY <1>2 DEF Invite
<1>3. CASE Signup(c)
  BY <1>3 DEF Signup
<1>4. CASE RemoveMember(c)
  BY <1>4 DEF RemoveMember
<1>5. CASE ChangeRole(c)
  BY <1>5 DEF ChangeRole
<1>6. CASE RequestPool(c)
  BY <1>6 DEF RequestPool
<1>7. CASE CreateCheck(c)
  BY <1>7 DEF CreateCheck
<1>8. CASE create_workspace(c)
  BY <1>8 DEF create_workspace
<1>9. CASE CreateOwn(c)
  <2>1. CASE UNCHANGED users
    BY <2>1
  <2>2. CASE ~ UNCHANGED users
    <3>1. /\ at[c] = "own" /\ users[arg[c].uid] # None
          /\ users' = [users EXCEPT ![arg[c].uid] = [users[arg[c].uid] EXCEPT !.ws = arg[c].ws, !.role = "owner"]]
      BY <1>9, <2>2 DEF CreateOwn, UpdateUser
    <3>2. /\ arg[c] \in Args /\ arg[c].uid \in Uids /\ users[arg[c].uid] \in User
          /\ arg[c].ws \in Wids
      BY <3>1 DEF CallOK, InWorkspace, HasTarget, HasRole, Roles
    <3> QED BY <3>1, <3>2 DEF User, Roles
  <2> QED BY <2>1, <2>2
<1>10. CASE InviteCheck(c)
  BY <1>10 DEF InviteCheck
<1>11. CASE InviteRead(c)
  BY <1>11 DEF InviteRead
<1>12. CASE InviteSet(c)
  BY <1>12 DEF InviteSet
<1>13. CASE SignupCheck(c)
  BY <1>13 DEF SignupCheck
<1>14. CASE create_user(c)
  BY <1>14 DEF create_user, User
<1>15. CASE JoinInvite(c)
  BY <1>15 DEF JoinInvite
<1>16. CASE JoinRead(c)
  BY <1>16 DEF JoinRead
<1>17. CASE JoinWrite(c)
  BY <1>17 DEF JoinWrite
<1>18. CASE JoinUser(c)
  <2>1. CASE UNCHANGED users
    BY <2>1
  <2>2. CASE ~ UNCHANGED users
    <3>1. /\ at[c] = "join_user" /\ users[arg[c].uid] # None
          /\ users' = [users EXCEPT ![arg[c].uid] = [ws |-> arg[c].ws, role |-> "member", tier |-> "team"]]
      BY <1>18, <2>2 DEF JoinUser, UpdateUser
    <3>2. /\ arg[c] \in Args /\ arg[c].uid \in Uids /\ users[arg[c].uid] \in User
          /\ arg[c].ws \in Wids
      BY <3>1 DEF CallOK, InWorkspace, HasTarget, HasRole, Roles
    <3> QED BY <3>1, <3>2 DEF User, Roles
  <2> QED BY <2>1, <2>2
<1>19. CASE JoinMark(c)
  BY <1>19 DEF JoinMark
<1>20. CASE RemoveCheck(c)
  BY <1>20 DEF RemoveCheck
<1>21. CASE RemoveRead(c)
  BY <1>21 DEF RemoveRead
<1>22. CASE RemoveWrite(c)
  BY <1>22 DEF RemoveWrite
<1>23. CASE RemoveUser(c)
  <2>1. CASE UNCHANGED users
    BY <2>1
  <2>2. CASE ~ UNCHANGED users
    <3>1. /\ at[c] = "rem_user" /\ users[arg[c].target] # None
          /\ users' = [users EXCEPT ![arg[c].target] = [users[arg[c].target] EXCEPT !.ws = None, !.role = None]]
      BY <1>23, <2>2 DEF RemoveUser, UpdateUser
    <3>2. /\ arg[c] \in Args /\ arg[c].target \in Uids /\ users[arg[c].target] \in User
          
      BY <3>1 DEF CallOK, InWorkspace, HasTarget, HasRole, Roles
    <3> QED BY <3>1, <3>2 DEF User, Roles
  <2> QED BY <2>1, <2>2
<1>24. CASE RoleCheck(c)
  BY <1>24 DEF RoleCheck
<1>25. CASE RoleRead(c)
  BY <1>25 DEF RoleRead
<1>26. CASE RoleWrite(c)
  BY <1>26 DEF RoleWrite
<1>27. CASE RoleUser(c)
  <2>1. CASE UNCHANGED users
    BY <2>1
  <2>2. CASE ~ UNCHANGED users
    <3>1. /\ at[c] = "role_user" /\ users[arg[c].target] # None
          /\ users' = [users EXCEPT ![arg[c].target] = [users[arg[c].target] EXCEPT !.role = arg[c].role]]
      BY <1>27, <2>2 DEF RoleUser, UpdateUser
    <3>2. /\ arg[c] \in Args /\ arg[c].target \in Uids /\ users[arg[c].target] \in User
          /\ arg[c].role \in Roles
      BY <3>1 DEF CallOK, InWorkspace, HasTarget, HasRole, Roles
    <3> QED BY <3>1, <3>2 DEF User, Roles
  <2> QED BY <2>1, <2>2
<1>28. CASE Admit(c)
  BY <1>28 DEF Admit
<1>29. CASE AskDate(c)
  BY <1>29 DEF AskDate
<1>30. CASE Transaction(c)
  BY <1>30 DEF Transaction
<1>31. CASE LogMember(c)
  BY <1>31 DEF LogMember
<1>32. CASE Reply(c)
  BY <1>32 DEF Reply
<1>33. CASE Abort(c)
  BY <1>33 DEF Abort
<1> QED
  BY <1>1, <1>2, <1>3, <1>4, <1>5, <1>6, <1>7, <1>8, <1>9, <1>10, <1>11, <1>12, <1>13,
     <1>14, <1>15, <1>16, <1>17, <1>18, <1>19, <1>20, <1>21, <1>22, <1>23, <1>24,
     <1>25, <1>26, <1>27, <1>28, <1>29, <1>30, <1>31, <1>32, <1>33 DEF CallStep, Arrive, Membership, Usage

(* An invite never disappears, and stays for the same workspace. *)
LEMMA InvitesKept ==
    ASSUME TypeInv, NEW c \in Calls, CallStep(c)
    PROVE  /\ invites' \in [Tokens -> InviteDoc \cup {None}]
           /\ \A t \in Tokens : invites[t] # None =>
                invites'[t] # None /\ invites'[t].ws = invites[t].ws
<1> USE DEF TypeInv, TypeOK, Begin, End, Require, WriteMembers, UpdateUser, storage
<1>0. /\ None \notin InviteDoc
      /\ \A t \in Tokens : invites[t] # None => invites[t] \in InviteDoc
  BY NoneAssumption
<1>1. CASE Create(c)
  BY <1>1 DEF Create
<1>2. CASE Invite(c)
  BY <1>2 DEF Invite
<1>3. CASE Signup(c)
  BY <1>3 DEF Signup
<1>4. CASE RemoveMember(c)
  BY <1>4 DEF RemoveMember
<1>5. CASE ChangeRole(c)
  BY <1>5 DEF ChangeRole
<1>6. CASE RequestPool(c)
  BY <1>6 DEF RequestPool
<1>7. CASE CreateCheck(c)
  BY <1>7 DEF CreateCheck
<1>8. CASE create_workspace(c)
  BY <1>8 DEF create_workspace
<1>9. CASE CreateOwn(c)
  BY <1>9 DEF CreateOwn
<1>10. CASE InviteCheck(c)
  BY <1>10 DEF InviteCheck
<1>11. CASE InviteRead(c)
  BY <1>11 DEF InviteRead
<1>12. CASE InviteSet(c)
  <2>1. PICK t \in Tokens :
          /\ invites[t] = None
          /\ invites' = [invites EXCEPT ![t] =
               [ws |-> arg[c].ws, to |-> arg[c].target, used |-> FALSE]]
    BY <1>12 DEF InviteSet
  <2>2. at[c] = "invite_set" /\ arg[c].ws \in Wids /\ arg[c].target \in Uids
    BY <1>12 DEF InviteSet, Step, CallOK, InWorkspace, HasTarget
  <2> QED BY <1>0, <2>1, <2>2 DEF InviteDoc
<1>13. CASE SignupCheck(c)
  BY <1>13 DEF SignupCheck
<1>14. CASE create_user(c)
  BY <1>14 DEF create_user
<1>15. CASE JoinInvite(c)
  BY <1>15 DEF JoinInvite
<1>16. CASE JoinRead(c)
  BY <1>16 DEF JoinRead
<1>17. CASE JoinWrite(c)
  BY <1>17 DEF JoinWrite
<1>18. CASE JoinUser(c)
  BY <1>18 DEF JoinUser
<1>19. CASE JoinMark(c)
  <2>1. at[c] = "join_mark" /\ arg[c].token \in Tokens /\ invites[arg[c].token] \in InviteDoc
    BY <1>19 DEF JoinMark, Step, CallOK, HasToken, Joining
  <2>2. \A i \in InviteDoc : [i EXCEPT !.used = TRUE] \in InviteDoc /\ [i EXCEPT !.used = TRUE].ws = i.ws
    BY DEF InviteDoc
  <2> QED BY <1>19, <1>0, <2>1, <2>2 DEF JoinMark
<1>20. CASE RemoveCheck(c)
  BY <1>20 DEF RemoveCheck
<1>21. CASE RemoveRead(c)
  BY <1>21 DEF RemoveRead
<1>22. CASE RemoveWrite(c)
  BY <1>22 DEF RemoveWrite
<1>23. CASE RemoveUser(c)
  BY <1>23 DEF RemoveUser
<1>24. CASE RoleCheck(c)
  BY <1>24 DEF RoleCheck
<1>25. CASE RoleRead(c)
  BY <1>25 DEF RoleRead
<1>26. CASE RoleWrite(c)
  BY <1>26 DEF RoleWrite
<1>27. CASE RoleUser(c)
  BY <1>27 DEF RoleUser
<1>28. CASE Admit(c)
  BY <1>28 DEF Admit
<1>29. CASE AskDate(c)
  BY <1>29 DEF AskDate
<1>30. CASE Transaction(c)
  BY <1>30 DEF Transaction
<1>31. CASE LogMember(c)
  BY <1>31 DEF LogMember
<1>32. CASE Reply(c)
  BY <1>32 DEF Reply
<1>33. CASE Abort(c)
  BY <1>33 DEF Abort
<1> QED
  BY <1>1, <1>2, <1>3, <1>4, <1>5, <1>6, <1>7, <1>8, <1>9, <1>10, <1>11, <1>12, <1>13,
     <1>14, <1>15, <1>16, <1>17, <1>18, <1>19, <1>20, <1>21, <1>22, <1>23, <1>24,
     <1>25, <1>26, <1>27, <1>28, <1>29, <1>30, <1>31, <1>32, <1>33 DEF CallStep, Arrive, Membership, Usage


(* A pool of another day is started again, and its total kept. *)
LEMMA CurrentUsage ==
    ASSUME NEW p \in PoolUsage, NEW d \in Days
    PROVE  /\ Current(p, d) \in PoolUsage
           /\ Current(p, d).date = d
           /\ Current(p, d).total = p.total
           /\ Current(p, d).today = IF p.date = d THEN p.today ELSE 0
BY DEF Current, PoolUsage

(* Raising the usage of a day keeps its type and its day.                  *)
LEMMA RaisedUsage ==
    ASSUME NEW p \in PoolUsage, NEW n \in Nat
    PROVE  LET q == [p EXCEPT !.today = @ + n, !.total = @ + n]
           IN  /\ q \in PoolUsage
               /\ q.today = p.today + n /\ q.total = p.total + n /\ q.date = p.date
<1>1. \A k \in Nat : [p EXCEPT !.today = k] \in PoolUsage /\ [p EXCEPT !.today = k].today = k
        /\ [p EXCEPT !.today = k].total = p.total /\ [p EXCEPT !.today = k].date = p.date
  BY DEF PoolUsage
<1>2. \A r \in PoolUsage, k \in Nat : [r EXCEPT !.total = k] \in PoolUsage
        /\ [r EXCEPT !.total = k].total = k
        /\ [r EXCEPT !.total = k].today = r.today /\ [r EXCEPT !.total = k].date = r.date
  BY DEF PoolUsage
<1>3. p.today + n \in Nat /\ p.total + n \in Nat
  BY DEF PoolUsage
<1> DEFINE q == [p EXCEPT !.today = @ + n]
<1>4. q \in PoolUsage /\ q.today = p.today + n /\ q.total = p.total /\ q.date = p.date
  BY <1>1, <1>3
<1>5. [p EXCEPT !.today = @ + n, !.total = @ + n] = [q EXCEPT !.total = @ + n]
  OBVIOUS
<1> HIDE DEF q
<1> QED BY <1>2, <1>3, <1>4, <1>5

(* The pool, the breakdown and the history keep their types. *)
LEMMA CountsKept ==
    ASSUME TypeInv, NEW c \in Calls, CallStep(c)
    PROVE  /\ pool' \in [Wids -> PoolUsage]
           /\ breakdown' \in [Wids -> [Uids -> [Days -> Nat]]]
           /\ granted' \in [Wids -> [Uids -> [Days -> Nat]]]
           /\ appointed' \in SUBSET (Uids \X Wids)
           /\ day' = day
<1> USE DEF TypeInv, TypeOK, Begin, End, Require, WriteMembers, UpdateUser, storage, history
<1>1. CASE Create(c)
  BY <1>1 DEF Create
<1>2. CASE Invite(c)
  BY <1>2 DEF Invite
<1>3. CASE Signup(c)
  BY <1>3 DEF Signup
<1>4. CASE RemoveMember(c)
  BY <1>4 DEF RemoveMember
<1>5. CASE ChangeRole(c)
  BY <1>5 DEF ChangeRole
<1>6. CASE RequestPool(c)
  BY <1>6 DEF RequestPool
<1>7. CASE CreateCheck(c)
  BY <1>7 DEF CreateCheck
<1>8. CASE create_workspace(c)
  BY <1>8 DEF create_workspace
<1>9. CASE CreateOwn(c)
  BY <1>9 DEF CreateOwn
<1>10. CASE InviteCheck(c)
  BY <1>10 DEF InviteCheck
<1>11. CASE InviteRead(c)
  BY <1>11 DEF InviteRead
<1>12. CASE InviteSet(c)
  BY <1>12 DEF InviteSet
<1>13. CASE SignupCheck(c)
  BY <1>13 DEF SignupCheck
<1>14. CASE create_user(c)
  BY <1>14 DEF create_user
<1>15. CASE JoinInvite(c)
  BY <1>15 DEF JoinInvite
<1>16. CASE JoinRead(c)
  BY <1>16 DEF JoinRead
<1>17. CASE JoinWrite(c)
  BY <1>17 DEF JoinWrite
<1>18. CASE JoinUser(c)
  BY <1>18 DEF JoinUser
<1>19. CASE JoinMark(c)
  BY <1>19 DEF JoinMark
<1>20. CASE RemoveCheck(c)
  BY <1>20 DEF RemoveCheck
<1>21. CASE RemoveRead(c)
  BY <1>21 DEF RemoveRead
<1>22. CASE RemoveWrite(c)
  BY <1>22 DEF RemoveWrite
<1>23. CASE RemoveUser(c)
  BY <1>23 DEF RemoveUser
<1>24. CASE RoleCheck(c)
  BY <1>24 DEF RoleCheck
<1>25. CASE RoleRead(c)
  <2>1. CASE UNCHANGED appointed
    BY <1>25, <2>1 DEF RoleRead, Appoint
  <2>2. CASE ~ UNCHANGED appointed
    <3>1. at[c] = "role_ws" /\ appointed' = appointed \cup {<<arg[c].target, arg[c].ws>>}
      BY <1>25, <2>2 DEF RoleRead, Step, Appoint
    <3>2. arg[c].target \in Uids /\ arg[c].ws \in Wids
      BY <3>1 DEF CallOK, HasTarget, InWorkspace
    <3> QED BY <1>25, <3>1, <3>2 DEF RoleRead, Appoint
  <2> QED BY <2>1, <2>2
<1>26. CASE RoleWrite(c)
  BY <1>26 DEF RoleWrite
<1>27. CASE RoleUser(c)
  BY <1>27 DEF RoleUser
<1>28. CASE Admit(c)
  BY <1>28 DEF Admit
<1>29. CASE AskDate(c)
  BY <1>29 DEF AskDate
<1>30. CASE Transaction(c)
  <2>1. CASE UNCHANGED <<pool, granted>>
    BY <1>30, <2>1 DEF Transaction
  <2>2. CASE ~ UNCHANGED <<pool, granted>>
    <3> DEFINE usage == Current(pool[arg[c].ws], arg[c].today)
    <3>1. /\ at[c] = "txn"
          /\ pool' = [pool EXCEPT ![arg[c].ws] =
               [usage EXCEPT !.today = @ + arg[c].units, !.total = @ + arg[c].units]]
          /\ granted' = [granted EXCEPT ![arg[c].ws][arg[c].uid][arg[c].today] = @ + arg[c].units]
          /\ UNCHANGED <<breakdown, day, appointed>>
      BY <1>30, <2>2 DEF Transaction, Step
    <3>2. /\ arg[c].ws \in Wids /\ arg[c].uid \in Uids
          /\ arg[c].today \in Days /\ arg[c].units \in Nat
      BY <3>1 DEF CallOK, InWorkspace, Args
    <3>3. usage \in PoolUsage
      BY <3>2, CurrentUsage
    <3>4. [usage EXCEPT !.today = @ + arg[c].units, !.total = @ + arg[c].units] \in PoolUsage
      BY <3>2, <3>3, RaisedUsage
    <3> HIDE DEF usage
    <3> QED BY <3>1, <3>2, <3>4, SMTT(30)
  <2> QED BY <2>1, <2>2
<1>31. CASE LogMember(c)
  <2>1. at[c] = "log"
    BY <1>31 DEF LogMember, Step
  <2>2. /\ arg[c].ws \in Wids /\ arg[c].uid \in Uids
        /\ arg[c].today \in Days /\ arg[c].units \in Nat
    BY <2>1 DEF CallOK, InWorkspace, Args
  <2>3. /\ breakdown' = [breakdown EXCEPT ![arg[c].ws][arg[c].uid][arg[c].today] = @ + arg[c].units]
        /\ UNCHANGED <<pool, granted, day, appointed>>
    BY <1>31 DEF LogMember
  <2>4. breakdown[arg[c].ws][arg[c].uid][arg[c].today] + arg[c].units \in Nat
    BY <2>2
  <2>5. breakdown' \in [Wids -> [Uids -> [Days -> Nat]]]
    BY <2>2, <2>3, <2>4
  <2> QED BY <2>3, <2>5
<1>32. CASE Reply(c)
  BY <1>32 DEF Reply
<1>33. CASE Abort(c)
  BY <1>33 DEF Abort
<1> QED
  BY <1>1, <1>2, <1>3, <1>4, <1>5, <1>6, <1>7, <1>8, <1>9, <1>10, <1>11, <1>12, <1>13,
     <1>14, <1>15, <1>16, <1>17, <1>18, <1>19, <1>20, <1>21, <1>22, <1>23, <1>24,
     <1>25, <1>26, <1>27, <1>28, <1>29, <1>30, <1>31, <1>32, <1>33 DEF CallStep, Arrive, Membership, Usage

(* The workspaces that users and invites name exist after a step too. *)
LEMMA ReferencedKept ==
    ASSUME TypeInv, NEW c \in Calls, CallStep(c)
    PROVE  Referenced'
<1> USE DEF TypeInv, TypeOK, Referenced, Begin, End, Require, WriteMembers, UpdateUser, storage, history
<1>0. \A w \in Wids : spaces[w] # None => spaces'[w] # None
  BY SpacesKept
<1>u. \A u \in Uids : users[u] # None /\ users[u].ws # None => users[u].ws \in Wids
  BY DEF User
<1>i. \A t \in Tokens : invites[t] # None => invites[t].ws \in Wids
  BY DEF InviteDoc
<1>1. CASE Create(c)
  BY <1>0, <1>u, <1>i, <1>1 DEF Create
<1>2. CASE Invite(c)
  BY <1>0, <1>u, <1>i, <1>2 DEF Invite
<1>3. CASE Signup(c)
  BY <1>0, <1>u, <1>i, <1>3 DEF Signup
<1>4. CASE RemoveMember(c)
  BY <1>0, <1>u, <1>i, <1>4 DEF RemoveMember
<1>5. CASE ChangeRole(c)
  BY <1>0, <1>u, <1>i, <1>5 DEF ChangeRole
<1>6. CASE RequestPool(c)
  BY <1>0, <1>u, <1>i, <1>6 DEF RequestPool
<1>7. CASE CreateCheck(c)
  BY <1>0, <1>u, <1>i, <1>7 DEF CreateCheck
<1>8. CASE create_workspace(c)
  BY <1>8, <1>0, <1>u, <1>i DEF create_workspace
<1>9. CASE CreateOwn(c)
  <2>1. CASE UNCHANGED users
    BY <1>9, <1>0, <1>u, <1>i, <2>1 DEF CreateOwn
  <2>2. CASE ~ UNCHANGED users
    <3>1. /\ at[c] = "own" /\ users[arg[c].uid] # None
          /\ users' = [users EXCEPT ![arg[c].uid] = [users[arg[c].uid] EXCEPT !.ws = arg[c].ws, !.role = "owner"]]
          /\ UNCHANGED <<spaces, invites>>
      BY <1>9, <2>2 DEF CreateOwn, Step
    <3>2. arg[c].uid \in Uids /\ users[arg[c].uid] \in User
      BY <3>1 DEF CallOK, HasTarget
    <3>3. users'[arg[c].uid].ws = arg[c].ws /\ arg[c].ws \in Wids /\ spaces[arg[c].ws] # None
      BY <3>1, <3>2 DEF User, CallOK, InWorkspace
    <3> QED BY <1>0, <1>u, <1>i, <3>1, <3>2, <3>3
  <2> QED BY <2>1, <2>2
<1>10. CASE InviteCheck(c)
  BY <1>0, <1>u, <1>i, <1>10 DEF InviteCheck
<1>11. CASE InviteRead(c)
  BY <1>0, <1>u, <1>i, <1>11 DEF InviteRead
<1>12. CASE InviteSet(c)
  <2>1. PICK t \in Tokens :
          /\ invites' = [invites EXCEPT ![t] =
               [ws |-> arg[c].ws, to |-> arg[c].target, used |-> FALSE]]
          /\ UNCHANGED <<users, spaces>>
    BY <1>12 DEF InviteSet
  <2>2. arg[c].ws \in Wids /\ spaces[arg[c].ws] # None
    BY <1>12 DEF InviteSet, Step, CallOK, InWorkspace
  <2> QED BY <1>u, <1>i, <2>1, <2>2
<1>13. CASE SignupCheck(c)
  BY <1>0, <1>u, <1>i, <1>13 DEF SignupCheck
<1>14. CASE create_user(c)
  BY <1>0, <1>u, <1>i, <1>14 DEF create_user
<1>15. CASE JoinInvite(c)
  BY <1>0, <1>u, <1>i, <1>15 DEF JoinInvite
<1>16. CASE JoinRead(c)
  BY <1>0, <1>u, <1>i, <1>16 DEF JoinRead
<1>17. CASE JoinWrite(c)
  BY <1>0, <1>u, <1>i, <1>17 DEF JoinWrite
<1>18. CASE JoinUser(c)
  <2>1. CASE UNCHANGED users
    BY <1>18, <1>0, <1>u, <1>i, <2>1 DEF JoinUser
  <2>2. CASE ~ UNCHANGED users
    <3>1. /\ at[c] = "join_user" /\ users[arg[c].uid] # None
          /\ users' = [users EXCEPT ![arg[c].uid] = [ws |-> arg[c].ws, role |-> "member", tier |-> "team"]]
          /\ UNCHANGED <<spaces, invites>>
      BY <1>18, <2>2 DEF JoinUser, Step
    <3>2. arg[c].uid \in Uids /\ users[arg[c].uid] \in User
      BY <3>1 DEF CallOK, HasTarget
    <3>3. users'[arg[c].uid].ws = arg[c].ws /\ arg[c].ws \in Wids /\ spaces[arg[c].ws] # None
      BY <3>1, <3>2 DEF User, CallOK, InWorkspace
    <3> QED BY <1>0, <1>u, <1>i, <3>1, <3>2, <3>3
  <2> QED BY <2>1, <2>2
<1>19. CASE JoinMark(c)
  <2>1. \A t \in Tokens : invites'[t] # None => invites[t] # None /\ invites'[t].ws = invites[t].ws
    <3>1. at[c] = "join_mark" /\ arg[c].token \in Tokens /\ invites[arg[c].token] \in InviteDoc
      BY <1>19 DEF JoinMark, Step, CallOK, HasToken, Joining
    <3>2. \A i \in InviteDoc : [i EXCEPT !.used = TRUE].ws = i.ws
      BY DEF InviteDoc
    <3>3. invites' = [invites EXCEPT ![arg[c].token] = [invites[arg[c].token] EXCEPT !.used = TRUE]]
      BY <1>19 DEF JoinMark
    <3>4. invites'[arg[c].token].ws = invites[arg[c].token].ws
      BY <3>1, <3>2, <3>3
    <3>5. \A t \in Tokens \ {arg[c].token} : invites'[t] = invites[t]
      BY <3>3
    <3> QED BY NoneAssumption, <3>1, <3>4, <3>5, ZenonT(60)
  <2> QED BY <1>19, <1>0, <1>u, <1>i, <2>1 DEF JoinMark
<1>20. CASE RemoveCheck(c)
  BY <1>0, <1>u, <1>i, <1>20 DEF RemoveCheck
<1>21. CASE RemoveRead(c)
  BY <1>0, <1>u, <1>i, <1>21 DEF RemoveRead
<1>22. CASE RemoveWrite(c)
  BY <1>0, <1>u, <1>i, <1>22 DEF RemoveWrite
<1>23. CASE RemoveUser(c)
  <2>1. CASE UNCHANGED users
    BY <1>23, <1>0, <1>u, <1>i, <2>1 DEF RemoveUser
  <2>2. CASE ~ UNCHANGED users
    <3>1. /\ at[c] = "rem_user" /\ users[arg[c].target] # None
          /\ users' = [users EXCEPT ![arg[c].target] = [users[arg[c].target] EXCEPT !.ws = None, !.role = None]]
          /\ UNCHANGED <<spaces, invites>>
      BY <1>23, <2>2 DEF RemoveUser, Step
    <3>2. arg[c].target \in Uids /\ users[arg[c].target] \in User
      BY <3>1 DEF CallOK, HasTarget
    <3>3. users'[arg[c].target].ws = None
      BY <3>1, <3>2 DEF User
    <3> QED BY <1>0, <1>u, <1>i, <3>1, <3>2, <3>3
  <2> QED BY <2>1, <2>2
<1>24. CASE RoleCheck(c)
  BY <1>0, <1>u, <1>i, <1>24 DEF RoleCheck
<1>25. CASE RoleRead(c)
  BY <1>0, <1>u, <1>i, <1>25 DEF RoleRead
<1>26. CASE RoleWrite(c)
  BY <1>0, <1>u, <1>i, <1>26 DEF RoleWrite
<1>27. CASE RoleUser(c)
  <2>1. CASE UNCHANGED users
    BY <1>27, <1>0, <1>u, <1>i, <2>1 DEF RoleUser
  <2>2. CASE ~ UNCHANGED users
    <3>1. /\ at[c] = "role_user" /\ users[arg[c].target] # None
          /\ users' = [users EXCEPT ![arg[c].target] = [users[arg[c].target] EXCEPT !.role = arg[c].role]]
          /\ UNCHANGED <<spaces, invites>>
      BY <1>27, <2>2 DEF RoleUser, Step
    <3>2. arg[c].target \in Uids /\ users[arg[c].target] \in User
      BY <3>1 DEF CallOK, HasTarget
    <3>3. users'[arg[c].target].ws = users[arg[c].target].ws
      BY <3>1, <3>2 DEF User
    <3> QED BY <1>0, <1>u, <1>i, <3>1, <3>2, <3>3
  <2> QED BY <2>1, <2>2
<1>28. CASE Admit(c)
  BY <1>0, <1>u, <1>i, <1>28 DEF Admit
<1>29. CASE AskDate(c)
  BY <1>0, <1>u, <1>i, <1>29 DEF AskDate
<1>30. CASE Transaction(c)
  BY <1>0, <1>u, <1>i, <1>30 DEF Transaction
<1>31. CASE LogMember(c)
  BY <1>0, <1>u, <1>i, <1>31 DEF LogMember
<1>32. CASE Reply(c)
  BY <1>0, <1>u, <1>i, <1>32 DEF Reply
<1>33. CASE Abort(c)
  BY <1>0, <1>u, <1>i, <1>33 DEF Abort
<1> QED
  BY <1>1, <1>2, <1>3, <1>4, <1>5, <1>6, <1>7, <1>8, <1>9, <1>10, <1>11, <1>12, <1>13,
     <1>14, <1>15, <1>16, <1>17, <1>18, <1>19, <1>20, <1>21, <1>22, <1>23, <1>24,
     <1>25, <1>26, <1>27, <1>28, <1>29, <1>30, <1>31, <1>32, <1>33 DEF CallStep, Arrive, Membership, Usage


(* A call that steps holds what its next step needs. *)
LEMMA CallHolds ==
    ASSUME TypeInv, NEW c \in Calls, CallStep(c)
    PROVE  CallOK(c)'
<1> USE DEF TypeInv, TypeOK, CallOK, InWorkspace, HasTarget, HasRole, HasToken, Joining
<1>0. /\ \A w \in Wids : spaces[w] # None => spaces'[w] # None
      /\ \A t \in Tokens : invites[t] # None => invites'[t] # None
  BY SpacesKept, InvitesKept
<1>e. ASSUME NEW from, End(c, from) PROVE CallOK(c)'
  BY <1>e DEF End, Step
<1>1. CASE Create(c)
  <2>1. PICK u \in Uids : Begin(c, "create", [NoArg EXCEPT !.uid = u])
    BY <1>1 DEF Create
  <2>2. arg'[c] = [NoArg EXCEPT !.uid = u] /\ at'[c] = "create"
    BY <2>1 DEF Begin, Step
  <2>3. arg'[c].uid = u
    BY <2>2 DEF NoArg
  <2> QED BY <2>2, <2>3
<1>2. CASE Invite(c)
  <2>1. PICK u \in Uids, v \in Uids : Begin(c, "invite", [NoArg EXCEPT !.uid = u, !.target = v])
    BY <1>2 DEF Invite
  <2>2. arg'[c] = [NoArg EXCEPT !.uid = u, !.target = v] /\ at'[c] = "invite"
    BY <2>1 DEF Begin, Step
  <2>3. arg'[c].uid = u /\ arg'[c].target = v
    BY <2>2 DEF NoArg
  <2> QED BY <2>2, <2>3
<1>3. CASE Signup(c)
  <2>1. PICK u \in Uids, t \in Tokens : Begin(c, "signup", [NoArg EXCEPT !.uid = u, !.token = t])
    BY <1>3 DEF Signup
  <2>2. arg'[c] = [NoArg EXCEPT !.uid = u, !.token = t] /\ at'[c] = "signup"
    BY <2>1 DEF Begin, Step
  <2>3. arg'[c].uid = u /\ arg'[c].token = t
    BY <2>2 DEF NoArg
  <2> QED BY <2>2, <2>3
<1>4. CASE RemoveMember(c)
  <2>1. PICK u \in Uids, v \in Uids : Begin(c, "remove", [NoArg EXCEPT !.uid = u, !.target = v])
    BY <1>4 DEF RemoveMember
  <2>2. arg'[c] = [NoArg EXCEPT !.uid = u, !.target = v] /\ at'[c] = "remove"
    BY <2>1 DEF Begin, Step
  <2>3. arg'[c].uid = u /\ arg'[c].target = v
    BY <2>2 DEF NoArg
  <2> QED BY <2>2, <2>3
<1>5. CASE ChangeRole(c)
  <2>1. PICK u \in Uids, v \in Uids, r \in {"admin", "member"} : Begin(c, "role", [NoArg EXCEPT !.uid = u, !.target = v, !.role = r])
    BY <1>5 DEF ChangeRole
  <2>2. arg'[c] = [NoArg EXCEPT !.uid = u, !.target = v, !.role = r] /\ at'[c] = "role"
    BY <2>1 DEF Begin, Step
  <2>3. arg'[c].uid = u /\ arg'[c].target = v /\ arg'[c].role = r
    BY <2>2 DEF NoArg
  <2> QED BY <2>2, <2>3
<1>6. CASE RequestPool(c)
  <2>1. PICK u \in Uids, n \in Units : Begin(c, "request", [NoArg EXCEPT !.uid = u, !.units = n])
    BY <1>6 DEF RequestPool
  <2>2. arg'[c] = [NoArg EXCEPT !.uid = u, !.units = n] /\ at'[c] = "request"
    BY <2>1 DEF Begin, Step
  <2>3. arg'[c].uid = u /\ arg'[c].units = n
    BY <2>2 DEF NoArg
  <2> QED BY <2>2, <2>3
<1>7. CASE CreateCheck(c)
  BY <1>0, <1>e, <1>7 DEF CreateCheck, Step, Require, End
<1>8. CASE create_workspace(c)
  <2>1. PICK w \in Wids :
          /\ at[c] = "create_ws" /\ at'[c] = "own"
          /\ spaces' = [spaces EXCEPT ![w] =
               [owner |-> arg[c].uid, members |-> <<Member(arg[c].uid, "owner")>>, count |-> 1]]
          /\ arg' = [arg EXCEPT ![c].ws = w]
    BY <1>8 DEF create_workspace, Step
  <2>2. arg[c].uid \in Uids /\ arg'[c].uid = arg[c].uid /\ arg'[c].ws = w
    BY <2>1 DEF Args
  <2>3. spaces'[w] \in Space \cup {None} /\ spaces'[w].owner = arg[c].uid
    BY <2>1, SpacesKept
  <2>4. spaces'[w] # None
    <3>1. <<Member(arg[c].uid, "owner")>> \in Seq(Entries)
      BY <2>2 DEF Member, Entries, Roles
    <3>2. spaces'[w] \in Space
      BY <2>1, <2>2, <3>1 DEF Space
    <3> QED BY <3>2, NoneAssumption
  <2> QED BY <2>1, <2>2, <2>4
<1>9. CASE CreateOwn(c)
  BY <1>0, <1>e, <1>9 DEF CreateOwn, Step, UpdateUser, End
<1>10. CASE InviteCheck(c)
  <2>1. CASE End(c, "invite")
    BY <1>e, <2>1
  <2>2. CASE ~ End(c, "invite")
    <3>1. /\ at[c] = "invite" /\ at'[c] = "invite_ws"
          /\ users[arg[c].uid] # None /\ users[arg[c].uid].ws # None
          /\ arg'[c] = InOwnWorkspace(c)
      BY <1>10, <2>2 DEF InviteCheck, Require, Step, Authorized, MayWork
    <3> HIDE DEF TypeInv
    <3>2. /\ arg'[c].ws = users[arg[c].uid].ws /\ arg'[c].ws \in Wids /\ spaces[arg'[c].ws] # None
          /\ arg'[c].uid = arg[c].uid /\ arg'[c].target = arg[c].target
          /\ arg'[c].role = arg[c].role
      BY <3>1, OwnWorkspace
    <3> QED BY <1>0, <3>1, <3>2 DEF TypeInv
  <2> QED BY <2>1, <2>2
<1>11. CASE InviteRead(c)
  BY <1>0, <1>e, <1>11 DEF InviteRead, Step, Require, End
<1>12. CASE InviteSet(c)
  BY <1>0, <1>e, <1>12 DEF InviteSet, Step
<1>13. CASE SignupCheck(c)
  BY <1>0, <1>e, <1>13 DEF SignupCheck, Step, Require, End
<1>14. CASE create_user(c)
  BY <1>0, <1>e, <1>14 DEF create_user, Step
<1>15. CASE JoinInvite(c)
  <2>1. CASE End(c, "join")
    BY <1>e, <2>1
  <2>2. CASE ~ End(c, "join")
    <3>1. /\ at[c] = "join" /\ at'[c] = "join_ws" /\ invites[arg[c].token] # None
          /\ arg'[c] = [arg[c] EXCEPT !.ws = invites[arg[c].token].ws]
          /\ arg[c] \in Args
      BY <1>15, <2>2 DEF JoinInvite, Require, Step, Valid
    <3>2. /\ arg'[c].uid = arg[c].uid /\ arg'[c].token = arg[c].token
          /\ arg'[c].ws = invites[arg[c].token].ws
      BY <3>1 DEF Args
    <3>3. invites[arg[c].token].ws \in Wids
      BY <3>1 DEF InviteDoc
    <3> QED BY <1>0, <3>1, <3>2, <3>3 DEF Referenced
  <2> QED BY <2>1, <2>2
<1>16. CASE JoinRead(c)
  BY <1>0, <1>e, <1>16 DEF JoinRead, Step
<1>17. CASE JoinWrite(c)
  BY <1>0, <1>e, <1>17 DEF JoinWrite, Step, WriteMembers
<1>18. CASE JoinUser(c)
  BY <1>0, <1>e, <1>18 DEF JoinUser, Step, UpdateUser, End
<1>19. CASE JoinMark(c)
  BY <1>0, <1>e, <1>19 DEF JoinMark, Step
<1>20. CASE RemoveCheck(c)
  <2>1. CASE End(c, "remove")
    BY <1>e, <2>1
  <2>2. CASE ~ End(c, "remove")
    <3>1. /\ at[c] = "remove" /\ at'[c] = "rem_ws"
          /\ users[arg[c].uid] # None /\ users[arg[c].uid].ws # None
          /\ arg'[c] = InOwnWorkspace(c)
      BY <1>20, <2>2 DEF RemoveCheck, Require, Step, Authorized, MayWork
    <3> HIDE DEF TypeInv
    <3>2. /\ arg'[c].ws = users[arg[c].uid].ws /\ arg'[c].ws \in Wids /\ spaces[arg'[c].ws] # None
          /\ arg'[c].uid = arg[c].uid /\ arg'[c].target = arg[c].target
          /\ arg'[c].role = arg[c].role
      BY <3>1, OwnWorkspace
    <3> QED BY <1>0, <3>1, <3>2 DEF TypeInv
  <2> QED BY <2>1, <2>2
<1>21. CASE RemoveRead(c)
  BY <1>0, <1>e, <1>21 DEF RemoveRead, Step, Require, End
<1>22. CASE RemoveWrite(c)
  BY <1>0, <1>e, <1>22 DEF RemoveWrite, Step, WriteMembers
<1>23. CASE RemoveUser(c)
  BY <1>0, <1>e, <1>23 DEF RemoveUser, Step, UpdateUser, End
<1>24. CASE RoleCheck(c)
  <2>1. CASE End(c, "role")
    BY <1>e, <2>1
  <2>2. CASE ~ End(c, "role")
    <3>1. /\ at[c] = "role" /\ at'[c] = "role_ws"
          /\ users[arg[c].uid] # None /\ users[arg[c].uid].ws # None
          /\ arg'[c] = InOwnWorkspace(c)
      BY <1>24, <2>2 DEF RoleCheck, Require, Step, Authorized, MayWork
    <3> HIDE DEF TypeInv
    <3>2. /\ arg'[c].ws = users[arg[c].uid].ws /\ arg'[c].ws \in Wids /\ spaces[arg'[c].ws] # None
          /\ arg'[c].uid = arg[c].uid /\ arg'[c].target = arg[c].target
          /\ arg'[c].role = arg[c].role
      BY <3>1, OwnWorkspace
    <3> QED BY <1>0, <3>1, <3>2 DEF TypeInv
  <2> QED BY <2>1, <2>2
<1>25. CASE RoleRead(c)
  BY <1>0, <1>e, <1>25 DEF RoleRead, Step, End, Appoint
<1>26. CASE RoleWrite(c)
  BY <1>0, <1>e, <1>26 DEF RoleWrite, Step
<1>27. CASE RoleUser(c)
  BY <1>0, <1>e, <1>27 DEF RoleUser, Step, UpdateUser, End
<1>28. CASE Admit(c)
  <2>1. CASE End(c, "request")
    BY <1>e, <2>1
  <2>2. CASE ~ End(c, "request")
    <3>1. /\ at[c] = "request" /\ at'[c] = "work"
          /\ users[arg[c].uid] # None /\ users[arg[c].uid].ws # None
          /\ arg'[c] = InOwnWorkspace(c)
      BY <1>28, <2>2 DEF Admit, Require, Step, Authorized, MayWork
    <3> HIDE DEF TypeInv
    <3>2. /\ arg'[c].ws = users[arg[c].uid].ws /\ arg'[c].ws \in Wids /\ spaces[arg'[c].ws] # None
          /\ arg'[c].uid = arg[c].uid /\ arg'[c].target = arg[c].target
          /\ arg'[c].role = arg[c].role
      BY <3>1, OwnWorkspace
    <3> QED BY <1>0, <3>1, <3>2 DEF TypeInv
  <2> QED BY <2>1, <2>2
<1>29. CASE AskDate(c)
  <2>1. /\ at[c] = "work" /\ at'[c] = "txn" /\ arg[c] \in Args
        /\ arg'[c] = [arg[c] EXCEPT !.today = day]
    BY <1>29 DEF AskDate, Step
  <2>2. arg'[c].uid = arg[c].uid /\ arg'[c].ws = arg[c].ws
    BY <2>1 DEF Args
  <2> QED BY <1>0, <2>1, <2>2
<1>30. CASE Transaction(c)
  BY <1>0, <1>e, <1>30, ZenonT(60) DEF Transaction, Step, End
<1>31. CASE LogMember(c)
  BY <1>0, <1>e, <1>31 DEF LogMember, Step, End
<1>32. CASE Reply(c)
  BY <1>0, <1>e, <1>32 DEF Reply, Step, End
<1>33. CASE Abort(c)
  BY <1>0, <1>e, <1>33 DEF Abort, Step, End
<1> QED
  BY <1>1, <1>2, <1>3, <1>4, <1>5, <1>6, <1>7, <1>8, <1>9, <1>10, <1>11, <1>12, <1>13,
     <1>14, <1>15, <1>16, <1>17, <1>18, <1>19, <1>20, <1>21, <1>22, <1>23, <1>24,
     <1>25, <1>26, <1>27, <1>28, <1>29, <1>30, <1>31, <1>32, <1>33 DEF CallStep, Arrive, Membership, Usage

(* A step of a call leaves what every call holds well formed.              *)
LEMMA CallsHold ==
    ASSUME TypeInv, NEW c \in Calls, CallStep(c)
    PROVE  \A d \in Calls : CallOK(d)'
<1>1. /\ \A w \in Wids : spaces[w] # None => spaces'[w] # None
      /\ \A t \in Tokens : invites[t] # None => invites'[t] # None
  BY SpacesKept, InvitesKept
<1>2. ASSUME NEW d \in Calls \ {c} PROVE CallOK(d)'
  <2>1. at'[d] = at[d] /\ arg'[d] = arg[d] /\ CallOK(d)
    BY CallsMove DEF TypeInv
  <2> QED BY <1>1, <2>1 DEF CallOK, HasToken, Joining, InWorkspace
<1> QED BY <1>2, CallHolds

-----------------------------------------------------------------------------
(* Types *)

(* The member list of a new team is well formed and has the owner active.  *)
LEMMA MembersOfTeam ==
    ASSUME NEW o \in Uids, NEW joined \in SetToSeqs(Uids), joined[1] = o
    PROVE  LET RoleOf(u) == IF u = o THEN "owner" ELSE "member"
               list == [i \in DOMAIN joined |-> Member(joined[i], RoleOf(joined[i]))]
           IN  list \in Seq(Entries) /\ Len(joined) \in Nat /\ ActiveIn(list, o, Roles)
<1> DEFINE RoleOf(u) == IF u = o THEN "owner" ELSE "member"
           list == [i \in DOMAIN joined |-> Member(joined[i], RoleOf(joined[i]))]
           n == Cardinality(Uids)
<1>1. n \in Nat /\ n # 0
  BY WorkspacesAssumption, FS_CardinalityType, FS_EmptySet
<1>2. joined \in [1 .. n -> Uids]
  BY DEF SetToSeqs
<1>3. \A u \in Uids : Member(u, RoleOf(u)) \in Entries
                      /\ Member(u, RoleOf(u)).uid = u /\ Member(u, RoleOf(u)).active
  BY DEF Member, Entries, Roles
<1> HIDE DEF n, RoleOf
<1>4. list \in [1 .. n -> Entries] /\ DOMAIN list = 1 .. n
  BY <1>2, <1>3
<1>5. list[1].uid = o /\ list[1].active
  BY <1>1, <1>2, <1>3
<1> HIDE DEF list
<1>6. list \in Seq(Entries) /\ 1 \in DOMAIN list
  BY <1>1, <1>4
<1>7. Len(joined) \in Nat
  BY <1>1, <1>2
<1> QED BY <1>5, <1>6, <1>7, ListFacts DEF list, RoleOf

(* Initially everything has its type.                                      *)
LEMMA InitTypes ==
    ASSUME Init
    PROVE  TypeInv
<1>1. /\ pool \in [Wids -> PoolUsage] /\ breakdown \in [Wids -> [Uids -> [Days -> Nat]]]
      /\ invites \in [Tokens -> {None}] /\ day \in Days /\ at \in [Calls -> {"idle"}]
      /\ arg \in [Calls -> Args] /\ copy \in [Calls -> Seq(Entries)] /\ granted = breakdown
      /\ appointed = {} /\ mix \in Mixes
  BY WorkspacesAssumption, ArgsUpdated DEF Init, NewPool, PoolUsage, Days
<1>2. \A c \in Calls : CallOK(c)
  BY <1>1 DEF CallOK, InWorkspace, HasTarget, HasRole, HasToken, Joining
<1>3. CASE Beginning
  BY <1>1, <1>2, <1>3 DEF Beginning, Paying, TypeInv, TypeOK, User, Steps, Referenced
<1>4. CASE Established
  <2>1. PICK o \in Payers, home \in Wids, joined \in SetToSeqs(Uids) :
          LET RoleOf(u) == IF u = o THEN "owner" ELSE "member" IN
          /\ joined[1] = o
          /\ users = [u \in Uids |-> [Paying EXCEPT !.ws = home, !.role = RoleOf(u)]]
          /\ spaces = [w \in Wids |-> IF w # home THEN None
               ELSE [owner |-> o, count |-> Len(joined),
                     members |-> [i \in DOMAIN joined |->
                                    Member(joined[i], RoleOf(joined[i]))]]]
    BY <1>4 DEF Established
  <2>2. o \in Uids
    BY WorkspacesAssumption
  <2>3. spaces[home] \in Space /\ \A w \in Wids \ {home} : spaces[w] = None
    BY <2>1, <2>2, MembersOfTeam DEF Space
  <2>4. \A u \in Uids : users[u] \in User /\ users[u].ws = home
    BY <2>1 DEF Paying, User, Roles
  <2>5. users \in [Uids -> User \cup {None}] /\ spaces \in [Wids -> Space \cup {None}]
    BY <2>1, <2>3, <2>4
  <2> QED BY <1>1, <1>2, <2>3, <2>4, <2>5, NoneAssumption DEF TypeInv, TypeOK, Referenced, Steps
<1> QED BY <1>3, <1>4 DEF Init

(* Whatever the calls do, the state keeps its shape: the type invariant, the *)
(* workspace each user, invite and call refers to is there, and a call holds *)
(* what its next step needs.                                                 *)
LEMMA NextTypes ==
    ASSUME TypeInv, [Next]_vars
    PROVE  TypeInv'
<1>1. ASSUME NEW c \in Calls, CallStep(c), UNCHANGED mix PROVE TypeInv'
  BY <1>1, CallsMove, ArgsKept, CopiesKept, SpacesKept, UsersKept, InvitesKept, CountsKept,
     ReferencedKept, CallsHold DEF TypeInv, TypeOK
<1>2. ASSUME Midnight, UNCHANGED mix PROVE TypeInv'
  BY <1>2, WorkspacesAssumption DEF Midnight, TypeInv, TypeOK, Referenced, CallOK, storage, history, Days
<1>3. CASE UNCHANGED vars
  BY <1>3 DEF vars, TypeInv, TypeOK, Referenced, CallOK, storage
<1> QED BY <1>1, <1>2, <1>3 DEF Next, CallStep

(* Every variable keeps its type, and what is referred to exists. *)
THEOREM TypeCorrect == Spec => []TypeInv
BY InitTypes, NextTypes, PTL DEF Spec

-----------------------------------------------------------------------------
(* The owner stays *)

(* What a call is about to write back lists the owner too. *)
Writing == {"join_write", "rem_write", "role_write"}
CopyListsOwner(c) ==
    at[c] \in Writing => ActiveIn(copy[c], spaces[arg[c].ws].owner, Roles)
OwnerInv == OwnerStays /\ \A c \in Calls : CopyListsOwner(c)

(* Initially every workspace lists its owner.                              *)
LEMMA OwnerInit ==
    ASSUME Init
    PROVE  OwnerInv
<1>1. \A c \in Calls : CopyListsOwner(c)
  BY DEF Init, CopyListsOwner, Writing
<1>2. ASSUME Beginning PROVE OwnerStays
  BY <1>2 DEF Beginning, OwnerStays
<1>3. ASSUME Established PROVE OwnerStays
  <2>1. PICK o \in Payers, home \in Wids, joined \in SetToSeqs(Uids) :
          LET RoleOf(u) == IF u = o THEN "owner" ELSE "member" IN
          /\ joined[1] = o
          /\ users = [u \in Uids |-> [Paying EXCEPT !.ws = home, !.role = RoleOf(u)]]
          /\ spaces = [w \in Wids |-> IF w # home THEN None
               ELSE [owner |-> o, count |-> Len(joined),
                     members |-> [i \in DOMAIN joined |->
                                    Member(joined[i], RoleOf(joined[i]))]]]
    BY <1>3 DEF Established
  <2>2. o \in Uids
    BY WorkspacesAssumption
  <2>3. ActiveIn(spaces[home].members, spaces[home].owner, Roles)
    BY <2>1, <2>2, MembersOfTeam
  <2> QED BY <2>1, <2>3 DEF OwnerStays
<1> QED BY <1>1, <1>2, <1>3 DEF Init, OwnerInv

(* The lists that are stored keep their owner. *)
LEMMA StoredListsKeepOwner ==
    ASSUME TypeInv, OwnerInv, NEW c \in Calls, CallStep(c)
    PROVE  OwnerStays'
<1> USE DEF OwnerInv, OwnerStays, Begin, End, Require, UpdateUser, storage
<1>0. \A w \in Wids : spaces[w] # None =>
        spaces[w] \in Space /\ spaces'[w].owner = spaces[w].owner
  BY SpacesKept DEF TypeInv, TypeOK
<1>t. /\ spaces \in [Wids -> Space \cup {None}] /\ CopyListsOwner(c)
      /\ at[c] \in InWorkspace => arg[c].ws \in Wids /\ spaces[arg[c].ws] # None
  BY DEF TypeInv, TypeOK, CallOK
<1>1. CASE Create(c)
  BY <1>1 DEF Create
<1>2. CASE Invite(c)
  BY <1>2 DEF Invite
<1>3. CASE Signup(c)
  BY <1>3 DEF Signup
<1>4. CASE RemoveMember(c)
  BY <1>4 DEF RemoveMember
<1>5. CASE ChangeRole(c)
  BY <1>5 DEF ChangeRole
<1>6. CASE RequestPool(c)
  BY <1>6 DEF RequestPool
<1>7. CASE CreateCheck(c)
  BY <1>7 DEF CreateCheck
<1>8. CASE create_workspace(c)
  <2>1. PICK w \in Wids :
          spaces' = [spaces EXCEPT ![w] =
            [owner |-> arg[c].uid, members |-> <<Member(arg[c].uid, "owner")>>, count |-> 1]]
    BY <1>8 DEF create_workspace
  <2>2. ActiveIn(<<Member(arg[c].uid, "owner")>>, arg[c].uid, Roles)
    BY DEF ActiveIn, EntriesOf, Member, Roles
  <2> QED BY <1>t, <2>1, <2>2
<1>9. CASE CreateOwn(c)
  BY <1>9 DEF CreateOwn
<1>10. CASE InviteCheck(c)
  BY <1>10 DEF InviteCheck
<1>11. CASE InviteRead(c)
  BY <1>11 DEF InviteRead
<1>12. CASE InviteSet(c)
  BY <1>12 DEF InviteSet
<1>13. CASE SignupCheck(c)
  BY <1>13 DEF SignupCheck
<1>14. CASE create_user(c)
  BY <1>14 DEF create_user
<1>15. CASE JoinInvite(c)
  BY <1>15 DEF JoinInvite
<1>16. CASE JoinRead(c)
  BY <1>16 DEF JoinRead
<1>17. CASE JoinWrite(c)
  <2>1. at[c] = "join_write" /\ spaces' = [spaces EXCEPT ![arg[c].ws] = [spaces[arg[c].ws] EXCEPT !.members = copy[c], !.count = ActiveCount(copy[c])]]
    BY <1>17 DEF JoinWrite, WriteMembers, Step
  <2>2. arg[c].ws \in Wids /\ spaces[arg[c].ws] \in Space
    BY <1>0, <1>t, <2>1 DEF InWorkspace
  <2>3. [spaces[arg[c].ws] EXCEPT !.members = copy[c], !.count = ActiveCount(copy[c])].members = copy[c]
    BY <2>2 DEF Space
  <2>4. ActiveIn(copy[c], spaces[arg[c].ws].owner, Roles)
    BY <1>t, <2>1 DEF CopyListsOwner, Writing
  <2>5. spaces'[arg[c].ws].members = copy[c]
    BY <1>t, <2>1, <2>2, <2>3
  <2> QED BY <1>0, <1>t, <2>1, <2>2, <2>4, <2>5
<1>18. CASE JoinUser(c)
  BY <1>18 DEF JoinUser
<1>19. CASE JoinMark(c)
  BY <1>19 DEF JoinMark
<1>20. CASE RemoveCheck(c)
  BY <1>20 DEF RemoveCheck
<1>21. CASE RemoveRead(c)
  BY <1>21 DEF RemoveRead
<1>22. CASE RemoveWrite(c)
  <2>1. at[c] = "rem_write" /\ spaces' = [spaces EXCEPT ![arg[c].ws] = [spaces[arg[c].ws] EXCEPT !.members = copy[c], !.count = ActiveCount(copy[c])]]
    BY <1>22 DEF RemoveWrite, WriteMembers, Step
  <2>2. arg[c].ws \in Wids /\ spaces[arg[c].ws] \in Space
    BY <1>0, <1>t, <2>1 DEF InWorkspace
  <2>3. [spaces[arg[c].ws] EXCEPT !.members = copy[c], !.count = ActiveCount(copy[c])].members = copy[c]
    BY <2>2 DEF Space
  <2>4. ActiveIn(copy[c], spaces[arg[c].ws].owner, Roles)
    BY <1>t, <2>1 DEF CopyListsOwner, Writing
  <2>5. spaces'[arg[c].ws].members = copy[c]
    BY <1>t, <2>1, <2>2, <2>3
  <2> QED BY <1>0, <1>t, <2>1, <2>2, <2>4, <2>5
<1>23. CASE RemoveUser(c)
  BY <1>23 DEF RemoveUser
<1>24. CASE RoleCheck(c)
  BY <1>24 DEF RoleCheck
<1>25. CASE RoleRead(c)
  BY <1>25 DEF RoleRead
<1>26. CASE RoleWrite(c)
  <2>1. at[c] = "role_write" /\ spaces' = [spaces EXCEPT ![arg[c].ws] = [spaces[arg[c].ws] EXCEPT !.members = copy[c]]]
    BY <1>26 DEF RoleWrite, Step
  <2>2. arg[c].ws \in Wids /\ spaces[arg[c].ws] \in Space
    BY <1>0, <1>t, <2>1 DEF InWorkspace
  <2>3. [spaces[arg[c].ws] EXCEPT !.members = copy[c]].members = copy[c]
    BY <2>2 DEF Space
  <2>4. ActiveIn(copy[c], spaces[arg[c].ws].owner, Roles)
    BY <1>t, <2>1 DEF CopyListsOwner, Writing
  <2>5. spaces'[arg[c].ws].members = copy[c]
    BY <1>t, <2>1, <2>2, <2>3
  <2> QED BY <1>0, <1>t, <2>1, <2>2, <2>4, <2>5
<1>27. CASE RoleUser(c)
  BY <1>27 DEF RoleUser
<1>28. CASE Admit(c)
  BY <1>28 DEF Admit
<1>29. CASE AskDate(c)
  BY <1>29 DEF AskDate
<1>30. CASE Transaction(c)
  BY <1>30 DEF Transaction
<1>31. CASE LogMember(c)
  BY <1>31 DEF LogMember
<1>32. CASE Reply(c)
  BY <1>32 DEF Reply
<1>33. CASE Abort(c)
  BY <1>33 DEF Abort
<1> QED
  BY <1>1, <1>2, <1>3, <1>4, <1>5, <1>6, <1>7, <1>8, <1>9, <1>10, <1>11, <1>12, <1>13,
     <1>14, <1>15, <1>16, <1>17, <1>18, <1>19, <1>20, <1>21, <1>22, <1>23, <1>24,
     <1>25, <1>26, <1>27, <1>28, <1>29, <1>30, <1>31, <1>32, <1>33 DEF CallStep, Arrive, Membership, Usage

(* So do the lists that calls have read and changed. *)
LEMMA ReadListsKeepOwner ==
    ASSUME TypeInv, OwnerInv, NEW c \in Calls, CallStep(c)
    PROVE  CopyListsOwner(c)'
<1> USE DEF Begin, End, Require, UpdateUser, WriteMembers, Step, CopyListsOwner, Writing
<1>0. at \in [Calls -> Steps] /\ copy \in [Calls -> Seq(Entries)]
  BY DEF TypeInv, TypeOK
<1>w. at[c] \in InWorkspace =>
        /\ arg[c].ws \in Wids /\ spaces[arg[c].ws] \in Space
        /\ ActiveIn(spaces[arg[c].ws].members, spaces[arg[c].ws].owner, Roles)
        /\ spaces[arg[c].ws].members \in Seq(Entries)
        /\ spaces[arg[c].ws].owner \in Uids
        /\ spaces'[arg[c].ws].owner = spaces[arg[c].ws].owner
  <2>1. ASSUME at[c] \in InWorkspace PROVE arg[c].ws \in Wids /\ spaces[arg[c].ws] # None
    BY <2>1 DEF TypeInv, CallOK
  <2>2. \A w \in Wids : spaces[w] # None => spaces[w] \in Space
    BY DEF TypeInv, TypeOK
  <2> QED BY <2>1, <2>2, SpacesKept DEF OwnerInv, OwnerStays, Space
<1>1. CASE Create(c)
  BY <1>0, <1>1 DEF Create
<1>2. CASE Invite(c)
  BY <1>0, <1>2 DEF Invite
<1>3. CASE Signup(c)
  BY <1>0, <1>3 DEF Signup
<1>4. CASE RemoveMember(c)
  BY <1>0, <1>4 DEF RemoveMember
<1>5. CASE ChangeRole(c)
  BY <1>0, <1>5 DEF ChangeRole
<1>6. CASE RequestPool(c)
  BY <1>0, <1>6 DEF RequestPool
<1>7. CASE CreateCheck(c)
  BY <1>0, <1>7 DEF CreateCheck
<1>8. CASE create_workspace(c)
  BY <1>0, <1>8 DEF create_workspace
<1>9. CASE CreateOwn(c)
  BY <1>0, <1>9 DEF CreateOwn
<1>10. CASE InviteCheck(c)
  BY <1>0, <1>10 DEF InviteCheck
<1>11. CASE InviteRead(c)
  BY <1>0, <1>11 DEF InviteRead
<1>12. CASE InviteSet(c)
  BY <1>0, <1>12 DEF InviteSet
<1>13. CASE SignupCheck(c)
  BY <1>0, <1>13 DEF SignupCheck
<1>14. CASE create_user(c)
  BY <1>0, <1>14 DEF create_user
<1>15. CASE JoinInvite(c)
  BY <1>0, <1>15 DEF JoinInvite
<1>16. CASE JoinRead(c)
  <2>1. /\ at[c] = "join_ws" /\ arg' = arg
        /\ copy'[c] = Append(spaces[arg[c].ws].members, Member(arg[c].uid, "member"))
    BY <1>16, <1>0 DEF JoinRead
  <2>2. Member(arg[c].uid, "member") \in Entries
    BY <2>1 DEF TypeInv, CallOK, Member, Entries, Roles
  <2>3. ActiveIn(copy'[c], spaces[arg[c].ws].owner, Roles)
    BY <1>w, <2>1, <2>2, Added DEF InWorkspace
  <2> QED BY <1>w, <2>1, <2>3 DEF InWorkspace
<1>17. CASE JoinWrite(c)
  BY <1>0, <1>17 DEF JoinWrite
<1>18. CASE JoinUser(c)
  BY <1>0, <1>18 DEF JoinUser
<1>19. CASE JoinMark(c)
  BY <1>0, <1>19 DEF JoinMark
<1>20. CASE RemoveCheck(c)
  BY <1>0, <1>20 DEF RemoveCheck
<1>21. CASE RemoveRead(c)
  <2>1. CASE at'[c] = "idle"
    BY <2>1
  <2>2. CASE at'[c] # "idle"
    <3>1. /\ at[c] = "rem_ws" /\ arg'[c] = arg[c]
          /\ arg[c].target # spaces[arg[c].ws].owner
          /\ copy'[c] = Changed(spaces[arg[c].ws].members, arg[c].target, Deactivated)
      BY <1>21, <1>0, <2>2 DEF RemoveRead, MayRemove, TypeInv, TypeOK
    <3>2. ActiveIn(copy'[c], spaces[arg[c].ws].owner, Roles)
      BY <1>w, <3>1, Removed DEF InWorkspace
    <3> QED BY <1>w, <3>1, <3>2 DEF InWorkspace
  <2> QED BY <2>1, <2>2
<1>22. CASE RemoveWrite(c)
  BY <1>0, <1>22 DEF RemoveWrite
<1>23. CASE RemoveUser(c)
  BY <1>0, <1>23 DEF RemoveUser
<1>24. CASE RoleCheck(c)
  BY <1>0, <1>24 DEF RoleCheck
<1>25. CASE RoleRead(c)
  <2>1. CASE at'[c] = "idle"
    BY <2>1
  <2>2. CASE at'[c] # "idle"
    <3>1. at[c] = "role_ws" /\ arg' = arg /\ Appoint(c, spaces[arg[c].ws])
      BY <1>25, <1>0, <2>2 DEF RoleRead
    <3>2. arg[c].role \in Roles
      BY <3>1 DEF TypeInv, CallOK, HasRole, Roles
    <3> DEFINE WithRole(m) == IF m.active THEN [m EXCEPT !.role = arg[c].role] ELSE m
    <3>3. copy'[c] = Changed(spaces[arg[c].ws].members, arg[c].target, WithRole)
      BY <1>0, <3>1 DEF Appoint
    <3>4. spaces[arg[c].ws].members \in Seq(Entries) /\ spaces[arg[c].ws].owner \in Uids
          /\ ActiveIn(spaces[arg[c].ws].members, spaces[arg[c].ws].owner, Roles)
          /\ spaces'[arg[c].ws].owner = spaces[arg[c].ws].owner
      BY <1>w, <3>1 DEF InWorkspace
    <3>5. ActiveIn(copy'[c], spaces[arg[c].ws].owner, Roles)
      BY <3>2, <3>3, <3>4, Promoted
    <3> QED BY <3>1, <3>4, <3>5
  <2> QED BY <2>1, <2>2
<1>26. CASE RoleWrite(c)
  BY <1>0, <1>26 DEF RoleWrite
<1>27. CASE RoleUser(c)
  BY <1>0, <1>27 DEF RoleUser
<1>28. CASE Admit(c)
  BY <1>0, <1>28 DEF Admit
<1>29. CASE AskDate(c)
  BY <1>0, <1>29 DEF AskDate
<1>30. CASE Transaction(c)
  BY <1>0, <1>30 DEF Transaction
<1>31. CASE LogMember(c)
  BY <1>0, <1>31 DEF LogMember
<1>32. CASE Reply(c)
  BY <1>0, <1>32 DEF Reply
<1>33. CASE Abort(c)
  BY <1>0, <1>33 DEF Abort
<1> QED
  BY <1>1, <1>2, <1>3, <1>4, <1>5, <1>6, <1>7, <1>8, <1>9, <1>10, <1>11, <1>12, <1>13,
     <1>14, <1>15, <1>16, <1>17, <1>18, <1>19, <1>20, <1>21, <1>22, <1>23, <1>24,
     <1>25, <1>26, <1>27, <1>28, <1>29, <1>30, <1>31, <1>32, <1>33 DEF CallStep, Arrive, Membership, Usage

(* Every step keeps the owner on the list, and on every copy about to be   *)
(* stored.                                                                 *)
LEMMA OwnerNext ==
    ASSUME TypeInv, OwnerInv, [Next]_vars
    PROVE  OwnerInv'
<1>1. ASSUME NEW c \in Calls, CallStep(c) PROVE OwnerInv'
  <2>1. ASSUME NEW d \in Calls \ {c} PROVE CopyListsOwner(d)'
    <3>1. at'[d] = at[d] /\ arg'[d] = arg[d] /\ copy'[d] = copy[d]
      BY <1>1, CallsMove
    <3>2. at[d] \in Writing => spaces'[arg[d].ws].owner = spaces[arg[d].ws].owner
      BY <1>1, SpacesKept DEF TypeInv, CallOK, InWorkspace, Writing
    <3> QED BY <3>1, <3>2 DEF OwnerInv, CopyListsOwner
  <2> QED BY <1>1, <2>1, StoredListsKeepOwner, ReadListsKeepOwner DEF OwnerInv
<1>2. ASSUME UNCHANGED <<storage, at, arg, copy, history>> PROVE OwnerInv'
  BY <1>2 DEF OwnerInv, OwnerStays, CopyListsOwner, storage
<1> QED BY <1>1, <1>2 DEF Next, CallStep, Midnight, vars, storage, history

(* However many stale member lists are written back over each other, a       *)
(* workspace lists its owner, active: each list a call holds does.           *)
THEOREM OwnerNeverLost == Spec => []OwnerStays
<1>1. Spec => []OwnerInv
  BY InitTypes, NextTypes, OwnerInit, OwnerNext, PTL DEF Spec
<1> QED BY <1>1, PTL DEF OwnerInv

-----------------------------------------------------------------------------
(* Authority is granted *)

Justified(u) ==
    users[u] # None =>
        /\ users[u].role = "owner" =>
             users[u].ws # None /\ spaces[users[u].ws].owner = u
        /\ users[u].role = "admin" => \E w \in Wids : <<u, w>> \in appointed

(* A call that is about to make somebody owner or admin may. *)
MayMake(c) ==
    /\ at[c] = "own" => spaces[arg[c].ws].owner = arg[c].uid
    /\ at[c] \in {"role_write", "role_user"} /\ arg[c].role = "admin"
         => <<arg[c].target, arg[c].ws>> \in appointed

AuthorityInv == (\A u \in Uids : Justified(u)) /\ \A c \in Calls : MayMake(c)

(* Initially nobody has authority but the owner.                           *)
LEMMA AuthorityInit ==
    ASSUME Init
    PROVE  AuthorityInv
<1>1. \A c \in Calls : MayMake(c)
  BY DEF Init, MayMake
<1>2. ASSUME Beginning PROVE \A u \in Uids : Justified(u)
  BY <1>2, WorkspacesAssumption DEF Beginning, Paying, Justified
<1>3. ASSUME Established PROVE \A u \in Uids : Justified(u)
  <2>1. PICK o \in Payers, home \in Wids, joined \in SetToSeqs(Uids) :
          LET RoleOf(u) == IF u = o THEN "owner" ELSE "member" IN
          /\ joined[1] = o
          /\ users = [u \in Uids |-> [Paying EXCEPT !.ws = home, !.role = RoleOf(u)]]
          /\ spaces = [w \in Wids |-> IF w # home THEN None
               ELSE [owner |-> o, count |-> Len(joined),
                     members |-> [i \in DOMAIN joined |->
                                    Member(joined[i], RoleOf(joined[i]))]]]
    BY <1>3 DEF Established
  <2>2. spaces[home].owner = o
    BY <2>1
  <2>3. ASSUME NEW u \in Uids
        PROVE  users[u].ws = home /\ users[u].role = IF u = o THEN "owner" ELSE "member"
    BY <2>1 DEF Paying
  <2>4. home # None
    BY WorkspacesAssumption
  <2> QED BY <2>2, <2>3, <2>4 DEF Justified
<1> QED BY <1>1, <1>2, <1>3 DEF Init, AuthorityInv

(* Who has made whom admin is not forgotten. *)
LEMMA AppointedGrows ==
    ASSUME TypeInv, NEW c \in Calls, CallStep(c)
    PROVE  appointed \subseteq appointed'
<1> USE DEF Begin, End, Require, WriteMembers, UpdateUser, storage, history
<1>1. CASE Create(c)
  BY <1>1 DEF Create
<1>2. CASE Invite(c)
  BY <1>2 DEF Invite
<1>3. CASE Signup(c)
  BY <1>3 DEF Signup
<1>4. CASE RemoveMember(c)
  BY <1>4 DEF RemoveMember
<1>5. CASE ChangeRole(c)
  BY <1>5 DEF ChangeRole
<1>6. CASE RequestPool(c)
  BY <1>6 DEF RequestPool
<1>7. CASE CreateCheck(c)
  BY <1>7 DEF CreateCheck
<1>8. CASE create_workspace(c)
  BY <1>8 DEF create_workspace
<1>9. CASE CreateOwn(c)
  BY <1>9 DEF CreateOwn
<1>10. CASE InviteCheck(c)
  BY <1>10 DEF InviteCheck
<1>11. CASE InviteRead(c)
  BY <1>11 DEF InviteRead
<1>12. CASE InviteSet(c)
  BY <1>12 DEF InviteSet
<1>13. CASE SignupCheck(c)
  BY <1>13 DEF SignupCheck
<1>14. CASE create_user(c)
  BY <1>14 DEF create_user
<1>15. CASE JoinInvite(c)
  BY <1>15 DEF JoinInvite
<1>16. CASE JoinRead(c)
  BY <1>16 DEF JoinRead
<1>17. CASE JoinWrite(c)
  BY <1>17 DEF JoinWrite
<1>18. CASE JoinUser(c)
  BY <1>18 DEF JoinUser
<1>19. CASE JoinMark(c)
  BY <1>19 DEF JoinMark
<1>20. CASE RemoveCheck(c)
  BY <1>20 DEF RemoveCheck
<1>21. CASE RemoveRead(c)
  BY <1>21 DEF RemoveRead
<1>22. CASE RemoveWrite(c)
  BY <1>22 DEF RemoveWrite
<1>23. CASE RemoveUser(c)
  BY <1>23 DEF RemoveUser
<1>24. CASE RoleCheck(c)
  BY <1>24 DEF RoleCheck
<1>25. CASE RoleRead(c)
  BY <1>25 DEF RoleRead, Appoint
<1>26. CASE RoleWrite(c)
  BY <1>26 DEF RoleWrite
<1>27. CASE RoleUser(c)
  BY <1>27 DEF RoleUser
<1>28. CASE Admit(c)
  BY <1>28 DEF Admit
<1>29. CASE AskDate(c)
  BY <1>29 DEF AskDate
<1>30. CASE Transaction(c)
  BY <1>30 DEF Transaction
<1>31. CASE LogMember(c)
  BY <1>31 DEF LogMember
<1>32. CASE Reply(c)
  BY <1>32 DEF Reply
<1>33. CASE Abort(c)
  BY <1>33 DEF Abort
<1> QED
  BY <1>1, <1>2, <1>3, <1>4, <1>5, <1>6, <1>7, <1>8, <1>9, <1>10, <1>11, <1>12, <1>13,
     <1>14, <1>15, <1>16, <1>17, <1>18, <1>19, <1>20, <1>21, <1>22, <1>23, <1>24,
     <1>25, <1>26, <1>27, <1>28, <1>29, <1>30, <1>31, <1>32, <1>33 DEF CallStep, Arrive, Membership, Usage

(* A role in a user document is justified after each step. *)
LEMMA RolesJustified ==
    ASSUME TypeInv, AuthorityInv, NEW c \in Calls, CallStep(c)
    PROVE  \A u \in Uids : Justified(u)'
<1> USE DEF Begin, End, Require, WriteMembers, storage
<1>w. \A w \in Wids : spaces[w] # None => spaces'[w].owner = spaces[w].owner
  BY SpacesKept
<1>u. \A u \in Uids : users[u] # None /\ users[u].ws # None =>
        users[u].ws \in Wids /\ spaces[users[u].ws] # None
  BY DEF TypeInv, TypeOK, Referenced, User
<1>a. appointed \subseteq appointed'
  BY AppointedGrows
<1>same. ASSUME UNCHANGED users PROVE \A u \in Uids : Justified(u)'
  BY <1>w, <1>u, <1>a, <1>same DEF AuthorityInv, Justified
<1>one. ASSUME NEW v \in Uids, \A u \in Uids \ {v} : users'[u] = users[u], Justified(v)'
        PROVE  \A u \in Uids : Justified(u)'
  BY <1>w, <1>u, <1>a, <1>one DEF AuthorityInv, Justified
<1>t. users \in [Uids -> User \cup {None}]
  BY DEF TypeInv, TypeOK
<1>1. CASE Create(c)
  BY <1>same, <1>1 DEF Create
<1>2. CASE Invite(c)
  BY <1>same, <1>2 DEF Invite
<1>3. CASE Signup(c)
  BY <1>same, <1>3 DEF Signup
<1>4. CASE RemoveMember(c)
  BY <1>same, <1>4 DEF RemoveMember
<1>5. CASE ChangeRole(c)
  BY <1>same, <1>5 DEF ChangeRole
<1>6. CASE RequestPool(c)
  BY <1>same, <1>6 DEF RequestPool
<1>7. CASE CreateCheck(c)
  BY <1>same, <1>7 DEF CreateCheck
<1>8. CASE create_workspace(c)
  BY <1>same, <1>8 DEF create_workspace
<1>9. CASE CreateOwn(c)
  <2>1. CASE UNCHANGED users
    BY <1>same, <2>1
  <2>2. CASE ~ UNCHANGED users
    <3>1. /\ at[c] = "own" /\ users[arg[c].uid] # None
          /\ users' = [users EXCEPT ![arg[c].uid] = [users[arg[c].uid] EXCEPT !.ws = arg[c].ws, !.role = "owner"]]
      BY <1>9, <2>2 DEF CreateOwn, UpdateUser, Step
    <3>2. arg[c].uid \in Uids /\ users[arg[c].uid] \in User
          /\ arg[c].ws \in Wids /\ spaces[arg[c].ws] # None
      BY <1>t, <3>1 DEF TypeInv, CallOK, HasTarget, InWorkspace, HasRole
    <3>3. users'[arg[c].uid].ws = arg[c].ws /\ users'[arg[c].uid].role = "owner"
      BY <1>t, <3>1, <3>2 DEF User
    <3>4. PICK v \in Uids : v = arg[c].uid
      BY <3>2
    <3>5. Justified(v)'
      BY <1>w, <3>1, <3>2, <3>3, <3>4, WorkspacesAssumption, ZenonT(60) DEF Justified, AuthorityInv, MayMake
    <3> QED BY <1>one, <1>t, <3>1, <3>4, <3>5
  <2> QED BY <2>1, <2>2
<1>10. CASE InviteCheck(c)
  BY <1>same, <1>10 DEF InviteCheck
<1>11. CASE InviteRead(c)
  BY <1>same, <1>11 DEF InviteRead
<1>12. CASE InviteSet(c)
  BY <1>same, <1>12 DEF InviteSet
<1>13. CASE SignupCheck(c)
  BY <1>same, <1>13 DEF SignupCheck
<1>14. CASE create_user(c)
  <2>1. /\ arg[c].uid \in Uids
        /\ users' = [users EXCEPT ![arg[c].uid] = [ws |-> None, role |-> None, tier |-> "starter"]]
    BY <1>14 DEF create_user, TypeInv, CallOK, Step
  <2>2. PICK v \in Uids : v = arg[c].uid
    BY <2>1
  <2>3. Justified(v)'
    BY <1>t, <2>1, <2>2, WorkspacesAssumption DEF Justified
  <2> QED BY <1>one, <1>t, <2>1, <2>2, <2>3
<1>15. CASE JoinInvite(c)
  BY <1>same, <1>15 DEF JoinInvite
<1>16. CASE JoinRead(c)
  BY <1>same, <1>16 DEF JoinRead
<1>17. CASE JoinWrite(c)
  BY <1>same, <1>17 DEF JoinWrite
<1>18. CASE JoinUser(c)
  <2>1. CASE UNCHANGED users
    BY <1>same, <2>1
  <2>2. CASE ~ UNCHANGED users
    <3>1. /\ at[c] = "join_user" /\ users[arg[c].uid] # None
          /\ users' = [users EXCEPT ![arg[c].uid] = [ws |-> arg[c].ws, role |-> "member", tier |-> "team"]]
      BY <1>18, <2>2 DEF JoinUser, UpdateUser, Step
    <3>2. arg[c].uid \in Uids /\ users[arg[c].uid] \in User
      BY <1>t, <3>1 DEF TypeInv, CallOK, HasTarget, InWorkspace, HasRole
    <3>3. users'[arg[c].uid].ws = arg[c].ws /\ users'[arg[c].uid].role = "member"
      BY <1>t, <3>1, <3>2 DEF User
    <3>4. PICK v \in Uids : v = arg[c].uid
      BY <3>2
    <3>5. Justified(v)'
      BY <3>1, <3>2, <3>3, <3>4, WorkspacesAssumption DEF Justified
    <3> QED BY <1>one, <1>t, <3>1, <3>4, <3>5
  <2> QED BY <2>1, <2>2
<1>19. CASE JoinMark(c)
  BY <1>same, <1>19 DEF JoinMark
<1>20. CASE RemoveCheck(c)
  BY <1>same, <1>20 DEF RemoveCheck
<1>21. CASE RemoveRead(c)
  BY <1>same, <1>21 DEF RemoveRead
<1>22. CASE RemoveWrite(c)
  BY <1>same, <1>22 DEF RemoveWrite
<1>23. CASE RemoveUser(c)
  <2>1. CASE UNCHANGED users
    BY <1>same, <2>1
  <2>2. CASE ~ UNCHANGED users
    <3>1. /\ at[c] = "rem_user" /\ users[arg[c].target] # None
          /\ users' = [users EXCEPT ![arg[c].target] = [users[arg[c].target] EXCEPT !.ws = None, !.role = None]]
      BY <1>23, <2>2 DEF RemoveUser, UpdateUser, Step
    <3>2. arg[c].target \in Uids /\ users[arg[c].target] \in User
      BY <1>t, <3>1 DEF TypeInv, CallOK, HasTarget, InWorkspace, HasRole
    <3>3. users'[arg[c].target].ws = None /\ users'[arg[c].target].role = None
      BY <1>t, <3>1, <3>2 DEF User
    <3>4. PICK v \in Uids : v = arg[c].target
      BY <3>2
    <3>5. Justified(v)'
      BY <3>1, <3>2, <3>3, <3>4, WorkspacesAssumption DEF Justified
    <3> QED BY <1>one, <1>t, <3>1, <3>4, <3>5
  <2> QED BY <2>1, <2>2
<1>24. CASE RoleCheck(c)
  BY <1>same, <1>24 DEF RoleCheck
<1>25. CASE RoleRead(c)
  BY <1>same, <1>25 DEF RoleRead
<1>26. CASE RoleWrite(c)
  BY <1>same, <1>26 DEF RoleWrite
<1>27. CASE RoleUser(c)
  <2>1. CASE UNCHANGED users
    BY <1>same, <2>1
  <2>2. CASE ~ UNCHANGED users
    <3>1. /\ at[c] = "role_user" /\ users[arg[c].target] # None
          /\ users' = [users EXCEPT ![arg[c].target] = [users[arg[c].target] EXCEPT !.role = arg[c].role]]
      BY <1>27, <2>2 DEF RoleUser, UpdateUser, Step
    <3>2. arg[c].target \in Uids /\ users[arg[c].target] \in User
          /\ arg[c].role \in {"admin", "member"} /\ arg[c].ws \in Wids
      BY <1>t, <3>1 DEF TypeInv, CallOK, HasTarget, InWorkspace, HasRole
    <3>3. users'[arg[c].target].ws = users[arg[c].target].ws /\ users'[arg[c].target].role = arg[c].role
      BY <1>t, <3>1, <3>2 DEF User
    <3>4. PICK v \in Uids : v = arg[c].target
      BY <3>2
    <3>5. Justified(v)'
      BY <1>a, <3>1, <3>2, <3>3, <3>4, WorkspacesAssumption DEF Justified, AuthorityInv, MayMake
    <3> QED BY <1>one, <1>t, <3>1, <3>4, <3>5
  <2> QED BY <2>1, <2>2
<1>28. CASE Admit(c)
  BY <1>same, <1>28 DEF Admit
<1>29. CASE AskDate(c)
  BY <1>same, <1>29 DEF AskDate
<1>30. CASE Transaction(c)
  BY <1>same, <1>30 DEF Transaction
<1>31. CASE LogMember(c)
  BY <1>same, <1>31 DEF LogMember
<1>32. CASE Reply(c)
  BY <1>same, <1>32 DEF Reply
<1>33. CASE Abort(c)
  BY <1>same, <1>33 DEF Abort
<1> QED
  BY <1>1, <1>2, <1>3, <1>4, <1>5, <1>6, <1>7, <1>8, <1>9, <1>10, <1>11, <1>12, <1>13,
     <1>14, <1>15, <1>16, <1>17, <1>18, <1>19, <1>20, <1>21, <1>22, <1>23, <1>24,
     <1>25, <1>26, <1>27, <1>28, <1>29, <1>30, <1>31, <1>32, <1>33 DEF CallStep, Arrive, Membership, Usage

(* A call comes to make somebody owner or admin only when it may. *)
LEMMA CallMayMake ==
    ASSUME TypeInv, AuthorityInv, NEW c \in Calls, CallStep(c)
    PROVE  MayMake(c)'
<1> USE DEF Begin, End, Require, UpdateUser, WriteMembers, Step, MayMake
<1>0. at \in [Calls -> Steps] /\ arg \in [Calls -> Args]
  BY DEF TypeInv, TypeOK
<1>a. appointed \subseteq appointed'
  BY AppointedGrows
<1>1. CASE Create(c)
  BY <1>0, <1>1 DEF Create
<1>2. CASE Invite(c)
  BY <1>0, <1>2 DEF Invite
<1>3. CASE Signup(c)
  BY <1>0, <1>3 DEF Signup
<1>4. CASE RemoveMember(c)
  BY <1>0, <1>4 DEF RemoveMember
<1>5. CASE ChangeRole(c)
  BY <1>0, <1>5 DEF ChangeRole
<1>6. CASE RequestPool(c)
  BY <1>0, <1>6 DEF RequestPool
<1>7. CASE CreateCheck(c)
  BY <1>0, <1>7 DEF CreateCheck
<1>8. CASE create_workspace(c)
  <2>1. PICK w \in Wids :
          /\ at'[c] = "own" /\ arg' = [arg EXCEPT ![c].ws = w]
          /\ spaces' = [spaces EXCEPT ![w] =
               [owner |-> arg[c].uid, members |-> <<Member(arg[c].uid, "owner")>>, count |-> 1]]
    BY <1>8, <1>0 DEF create_workspace
  <2>2. arg'[c].uid = arg[c].uid /\ arg'[c].ws = w
    BY <1>0, <2>1 DEF Args
  <2>3. spaces'[w].owner = arg[c].uid
    BY <2>1 DEF TypeInv, TypeOK
  <2> QED BY <2>1, <2>2, <2>3
<1>9. CASE CreateOwn(c)
  BY <1>0, <1>9 DEF CreateOwn
<1>10. CASE InviteCheck(c)
  BY <1>0, <1>10 DEF InviteCheck
<1>11. CASE InviteRead(c)
  BY <1>0, <1>11 DEF InviteRead
<1>12. CASE InviteSet(c)
  BY <1>0, <1>12 DEF InviteSet
<1>13. CASE SignupCheck(c)
  BY <1>0, <1>13 DEF SignupCheck
<1>14. CASE create_user(c)
  BY <1>0, <1>14 DEF create_user
<1>15. CASE JoinInvite(c)
  BY <1>0, <1>15 DEF JoinInvite
<1>16. CASE JoinRead(c)
  BY <1>0, <1>16 DEF JoinRead
<1>17. CASE JoinWrite(c)
  BY <1>0, <1>17 DEF JoinWrite
<1>18. CASE JoinUser(c)
  BY <1>0, <1>18 DEF JoinUser
<1>19. CASE JoinMark(c)
  BY <1>0, <1>19 DEF JoinMark
<1>20. CASE RemoveCheck(c)
  BY <1>0, <1>20 DEF RemoveCheck
<1>21. CASE RemoveRead(c)
  BY <1>0, <1>21 DEF RemoveRead
<1>22. CASE RemoveWrite(c)
  BY <1>0, <1>22 DEF RemoveWrite
<1>23. CASE RemoveUser(c)
  BY <1>0, <1>23 DEF RemoveUser
<1>24. CASE RoleCheck(c)
  BY <1>0, <1>24 DEF RoleCheck
<1>25. CASE RoleRead(c)
  <2>1. CASE at'[c] = "idle"
    BY <2>1
  <2>2. CASE at'[c] # "idle"
    <3>1. /\ arg' = arg /\ at'[c] = "role_write"
          /\ arg[c].role = "admin" => <<arg[c].target, arg[c].ws>> \in appointed'
      BY <1>25, <1>0, <2>2 DEF RoleRead, Appoint
    <3> QED BY <3>1
  <2> QED BY <2>1, <2>2
<1>26. CASE RoleWrite(c)
  BY <1>26, <1>0, <1>a DEF RoleWrite, AuthorityInv
<1>27. CASE RoleUser(c)
  BY <1>0, <1>27 DEF RoleUser
<1>28. CASE Admit(c)
  BY <1>0, <1>28 DEF Admit
<1>29. CASE AskDate(c)
  BY <1>0, <1>29 DEF AskDate
<1>30. CASE Transaction(c)
  BY <1>0, <1>30 DEF Transaction
<1>31. CASE LogMember(c)
  BY <1>0, <1>31 DEF LogMember
<1>32. CASE Reply(c)
  BY <1>0, <1>32 DEF Reply
<1>33. CASE Abort(c)
  BY <1>0, <1>33 DEF Abort
<1> QED
  BY <1>1, <1>2, <1>3, <1>4, <1>5, <1>6, <1>7, <1>8, <1>9, <1>10, <1>11, <1>12, <1>13,
     <1>14, <1>15, <1>16, <1>17, <1>18, <1>19, <1>20, <1>21, <1>22, <1>23, <1>24,
     <1>25, <1>26, <1>27, <1>28, <1>29, <1>30, <1>31, <1>32, <1>33 DEF CallStep, Arrive, Membership, Usage

(* Every step gives authority only where somebody with authority gave it.  *)
LEMMA AuthorityNext ==
    ASSUME TypeInv, AuthorityInv, [Next]_vars
    PROVE  AuthorityInv'
<1>1. ASSUME NEW c \in Calls, CallStep(c) PROVE AuthorityInv'
  <2>1. ASSUME NEW d \in Calls \ {c} PROVE MayMake(d)'
    <3>1. at'[d] = at[d] /\ arg'[d] = arg[d]
      BY <1>1, CallsMove
    <3>2. at[d] = "own" => spaces'[arg[d].ws].owner = spaces[arg[d].ws].owner
      BY <1>1, SpacesKept DEF TypeInv, CallOK, InWorkspace
    <3>3. appointed \subseteq appointed'
      BY <1>1, AppointedGrows
    <3> QED BY <3>1, <3>2, <3>3 DEF AuthorityInv, MayMake
  <2> QED BY <1>1, <2>1, RolesJustified, CallMayMake DEF AuthorityInv
<1>2. ASSUME UNCHANGED <<storage, at, arg, copy, history>> PROVE AuthorityInv'
  BY <1>2 DEF AuthorityInv, Justified, MayMake, storage, history
<1> QED BY <1>1, <1>2 DEF Next, CallStep, Midnight, vars, storage, history

(* Whoever acts as owner owns the workspace they act in, and whoever acts as *)
(* admin was made admin by an owner, whatever overtakes what.                *)
THEOREM AuthorityNeverMadeUp == Spec => []AuthorityIsGranted
<1>1. Spec => []AuthorityInv
  BY InitTypes, NextTypes, AuthorityInit, AuthorityNext, PTL DEF Spec
<1>2. AuthorityInv => AuthorityIsGranted
  BY DEF AuthorityInv, Justified, AuthorityIsGranted
<1> QED BY <1>1, <1>2, PTL

-----------------------------------------------------------------------------
(* The pool is exact *)

(* What a call has been granted and has yet to add to the breakdown. *)
OpenUnits(c, w, u, d) ==
    IF at[c] = "log" /\ arg[c].ws = w /\ arg[c].uid = u /\ arg[c].today = d
    THEN arg[c].units ELSE 0
Unlogged(w, u, d) == SumFunctionOnSet([c \in Calls |-> OpenUnits(c, w, u, d)], Calls)

PoolInv ==
    \A w \in Wids :
        /\ pool[w].total = GrantedInAll(w)
        /\ \A d \in Days : pool[w].date = d => pool[w].today <= GrantedOn(w, d)
        /\ \A u \in Uids, d \in Days :
             breakdown[w][u][d] + Unlogged(w, u, d) <= granted[w][u][d]

(* Sums over people and calls have finitely many terms.                    *)
LEMMA FiniteConstants ==
    IsFiniteSet(Uids) /\ IsFiniteSet(Calls) /\ IsFiniteSet(Days) /\ 0 \in Days
BY WorkspacesAssumption, FS_Interval DEF Days

(* What was granted, and what a call has yet to log, are numbers.          *)
LEMMA GrantedTypes ==
    ASSUME TypeInv, NEW w \in Wids
    PROVE  /\ \A d \in Days : GrantedOn(w, d) \in Nat
           /\ GrantedInAll(w) \in Nat
           /\ \A u \in Uids, d \in Days :
                /\ Unlogged(w, u, d) \in Nat
                /\ \A c \in Calls : OpenUnits(c, w, u, d) \in Nat
<1>1. IsFiniteSet(Uids) /\ IsFiniteSet(Calls) /\ IsFiniteSet(Days)
  BY FiniteConstants
<1>2. ASSUME NEW d \in Days PROVE GrantedOn(w, d) \in Nat
  <2>1. [u \in Uids |-> granted[w][u][d]] \in [Uids -> Nat]
    BY DEF TypeInv, TypeOK
  <2> QED BY <1>1, <2>1, SumOfNaturals DEF GrantedOn
<1>3. GrantedInAll(w) \in Nat
  <2>1. [d \in Days |-> GrantedOn(w, d)] \in [Days -> Nat]
    BY <1>2
  <2> QED BY <1>1, <2>1, SumOfNaturals DEF GrantedInAll
<1>4. ASSUME NEW u \in Uids, NEW d \in Days, NEW c \in Calls PROVE OpenUnits(c, w, u, d) \in Nat
  BY DEF OpenUnits, TypeInv, TypeOK, Args
<1>5. ASSUME NEW u \in Uids, NEW d \in Days PROVE Unlogged(w, u, d) \in Nat
  <2>1. [c \in Calls |-> OpenUnits(c, w, u, d)] \in [Calls -> Nat]
    BY <1>4
  <2> QED BY <1>1, <2>1, SumOfNaturals DEF Unlogged
<1> QED BY <1>2, <1>3, <1>4, <1>5

(* Initially pool, breakdown and grants are all nothing.                   *)
LEMMA PoolInit ==
    ASSUME Init
    PROVE  PoolInv
<1>1. TypeInv
  BY InitTypes
<1>2. IsFiniteSet(Uids) /\ IsFiniteSet(Calls) /\ IsFiniteSet(Days) /\ 0 \in Days
  BY FiniteConstants
<1>3. ASSUME NEW w \in Wids, NEW d \in Days PROVE GrantedOn(w, d) = 0
  <2>1. /\ [u \in Uids |-> granted[w][u][d]] \in [Uids -> Nat]
        /\ \A u \in Uids : [v \in Uids |-> granted[w][v][d]][u] = 0
    BY DEF Init
  <2> QED BY <1>2, <2>1, SumOfNaturals DEF GrantedOn
<1>4. ASSUME NEW w \in Wids PROVE GrantedInAll(w) = 0
  <2>1. /\ [d \in Days |-> GrantedOn(w, d)] \in [Days -> Nat]
        /\ \A d \in Days : [e \in Days |-> GrantedOn(w, e)][d] = 0
    BY <1>3
  <2> QED BY <1>2, <2>1, SumOfNaturals DEF GrantedInAll
<1>5. ASSUME NEW w \in Wids, NEW u \in Uids, NEW d \in Days PROVE Unlogged(w, u, d) = 0
  <2>1. \A c \in Calls : OpenUnits(c, w, u, d) = 0
    BY DEF Init, OpenUnits
  <2>2. /\ [c \in Calls |-> OpenUnits(c, w, u, d)] \in [Calls -> Nat]
        /\ \A c \in Calls : [e \in Calls |-> OpenUnits(e, w, u, d)][c] = 0
    BY <2>1
  <2> QED BY <1>2, <2>2, SumOfNaturals DEF Unlogged
<1>6. \A w \in Wids : pool[w].total = 0 /\ pool[w].today = 0 /\ pool[w].date = 0
  BY DEF Init, NewPool
<1>7. \A w \in Wids, u \in Uids, d \in Days : breakdown[w][u][d] = 0 /\ granted[w][u][d] = 0
  BY DEF Init
<1> QED BY <1>2, <1>3, <1>4, <1>5, <1>6, <1>7 DEF PoolInv

(* What is left to add to the breakdown changes by what the call that steps *)
(* has left to add.                                                         *)
LEMMA UnloggedMoves ==
    ASSUME TypeInv, TypeInv', NEW c \in Calls, CallStep(c),
           NEW w \in Wids, NEW u \in Uids, NEW d \in Days
    PROVE  /\ Unlogged(w, u, d) \in Nat /\ Unlogged(w, u, d)' \in Nat
           /\ Unlogged(w, u, d)' + OpenUnits(c, w, u, d)
                = Unlogged(w, u, d) + OpenUnits(c, w, u, d)'
<1> DEFINE old == [x \in Calls |-> OpenUnits(x, w, u, d)]
           new == [x \in Calls |-> OpenUnits(x, w, u, d)']
           rest == [x \in Calls |-> IF x = c THEN 0 ELSE OpenUnits(x, w, u, d)]
<1>1. \A x \in Calls : OpenUnits(x, w, u, d) \in Nat /\ OpenUnits(x, w, u, d)' \in Nat
  BY DEF OpenUnits, TypeInv, TypeOK, Args
<1>2. \A x \in Calls \ {c} : OpenUnits(x, w, u, d)' = OpenUnits(x, w, u, d)
  BY CallsMove DEF OpenUnits
<1>3. IsFiniteSet(Calls)
  BY WorkspacesAssumption
<1>4. SumFunctionOnSet(old, Calls) = SumFunctionOnSet(rest, Calls) + OpenUnits(c, w, u, d)
  <2>1. /\ old \in [Calls -> Nat] /\ rest \in [Calls -> Nat] /\ OpenUnits(c, w, u, d) \in Nat
        /\ old[c] = rest[c] + OpenUnits(c, w, u, d)
        /\ \A x \in Calls \ {c} : old[x] = rest[x]
    BY <1>1
  <2> HIDE DEF old, rest
  <2> QED BY <1>3, <2>1, SumRaised
<1>5. SumFunctionOnSet(new, Calls) = SumFunctionOnSet(rest, Calls) + OpenUnits(c, w, u, d)'
  <2>1. /\ new \in [Calls -> Nat] /\ rest \in [Calls -> Nat] /\ OpenUnits(c, w, u, d)' \in Nat
        /\ new[c] = rest[c] + OpenUnits(c, w, u, d)'
        /\ \A x \in Calls \ {c} : new[x] = rest[x]
    BY <1>1, <1>2
  <2> HIDE DEF new, rest
  <2> QED BY <1>3, <2>1, SumRaised
<1>6. SumFunctionOnSet(rest, Calls) \in Nat
  <2>1. rest \in [Calls -> Nat]
    BY <1>1
  <2> HIDE DEF rest
  <2> QED BY <1>3, <2>1, SumOfNaturals
<1>7. Unlogged(w, u, d) = SumFunctionOnSet(old, Calls)
      /\ Unlogged(w, u, d)' = SumFunctionOnSet(new, Calls)
  BY DEF Unlogged
<1> HIDE DEF old, new, rest
<1> QED BY <1>1, <1>4, <1>5, <1>6, <1>7

(* A grant raises the sum of its day, and the sum of all days, by as much. *)
LEMMA GrantRaises ==
    ASSUME TypeInv, NEW w \in Wids, NEW u \in Uids, NEW d \in Days, NEW n \in Nat,
           granted' = [granted EXCEPT ![w][u][d] = @ + n]
    PROVE  /\ \A e \in Days : GrantedOn(w, e)' = IF e = d THEN GrantedOn(w, e) + n ELSE GrantedOn(w, e)
           /\ GrantedInAll(w)' = GrantedInAll(w) + n
           /\ \A v \in Wids \ {w} :
                GrantedInAll(v)' = GrantedInAll(v) /\ \A e \in Days : GrantedOn(v, e)' = GrantedOn(v, e)
<1>1. IsFiniteSet(Uids) /\ IsFiniteSet(Days)
  BY FiniteConstants
<1>2. granted \in [Wids -> [Uids -> [Days -> Nat]]]
  BY DEF TypeInv, TypeOK
<1>3. \A v \in Wids, x \in Uids, e \in Days :
        granted'[v][x][e] = IF v = w /\ x = u /\ e = d THEN granted[v][x][e] + n ELSE granted[v][x][e]
  BY <1>2
<1>4. \A v \in Wids, e \in Days :
        v # w \/ e # d => GrantedOn(v, e)' = GrantedOn(v, e)
  <2> SUFFICES ASSUME NEW v \in Wids, NEW e \in Days, v # w \/ e # d
               PROVE  GrantedOn(v, e)' = GrantedOn(v, e)
    OBVIOUS
  <2>1. [x \in Uids |-> granted'[v][x][e]] = [x \in Uids |-> granted[v][x][e]]
    BY <1>3
  <2> QED BY <2>1 DEF GrantedOn
<1>5. GrantedOn(w, d)' = GrantedOn(w, d) + n
  <2> DEFINE old == [x \in Uids |-> granted[w][x][d]]
             new == [x \in Uids |-> granted'[w][x][d]]
  <2>1. /\ old \in [Uids -> Nat] /\ new \in [Uids -> Nat]
        /\ new[u] = old[u] + n /\ \A x \in Uids \ {u} : new[x] = old[x]
    BY <1>2, <1>3
  <2>2. GrantedOn(w, d) = SumFunctionOnSet(old, Uids) /\ GrantedOn(w, d)' = SumFunctionOnSet(new, Uids)
    BY DEF GrantedOn
  <2> HIDE DEF old, new
  <2> QED BY <1>1, <2>1, <2>2, SumRaised
<1>6. GrantedInAll(w)' = GrantedInAll(w) + n
  <2> DEFINE old == [e \in Days |-> GrantedOn(w, e)]
             new == [e \in Days |-> GrantedOn(w, e)']
  <2>1. /\ old \in [Days -> Nat] /\ new \in [Days -> Nat]
        /\ new[d] = old[d] + n /\ \A e \in Days \ {d} : new[e] = old[e]
    BY <1>4, <1>5, GrantedTypes
  <2>2. GrantedInAll(w) = SumFunctionOnSet(old, Days) /\ GrantedInAll(w)' = SumFunctionOnSet(new, Days)
    BY DEF GrantedInAll
  <2> HIDE DEF old, new
  <2> QED BY <1>1, <2>1, <2>2, SumRaised
<1>7. ASSUME NEW v \in Wids \ {w} PROVE GrantedInAll(v)' = GrantedInAll(v)
  <2>1. [e \in Days |-> GrantedOn(v, e)'] = [e \in Days |-> GrantedOn(v, e)]
    BY <1>4
  <2> QED BY <2>1 DEF GrantedInAll
<1> QED BY <1>4, <1>5, <1>6, <1>7

(* But for the transaction and the entry in the breakdown no step counts,   *)
(* or grants a call anything.                                               *)
LEMMA OthersDoNotCount ==
    ASSUME TypeInv, NEW c \in Calls, CallStep(c), ~ Transaction(c), ~ LogMember(c)
    PROVE  UNCHANGED <<pool, breakdown, granted>> /\ at'[c] # "log"
<1> USE DEF Begin, End, Require, WriteMembers, UpdateUser, Step, storage, history
<1>0. at \in [Calls -> Steps]
  BY DEF TypeInv, TypeOK
<1>1. CASE Create(c)
  BY <1>0, <1>1 DEF Create
<1>2. CASE Invite(c)
  BY <1>0, <1>2 DEF Invite
<1>3. CASE Signup(c)
  BY <1>0, <1>3 DEF Signup
<1>4. CASE RemoveMember(c)
  BY <1>0, <1>4 DEF RemoveMember
<1>5. CASE ChangeRole(c)
  BY <1>0, <1>5 DEF ChangeRole
<1>6. CASE RequestPool(c)
  BY <1>0, <1>6 DEF RequestPool
<1>7. CASE CreateCheck(c)
  BY <1>0, <1>7 DEF CreateCheck
<1>8. CASE create_workspace(c)
  BY <1>0, <1>8 DEF create_workspace
<1>9. CASE CreateOwn(c)
  BY <1>0, <1>9 DEF CreateOwn
<1>10. CASE InviteCheck(c)
  BY <1>0, <1>10 DEF InviteCheck
<1>11. CASE InviteRead(c)
  BY <1>0, <1>11 DEF InviteRead
<1>12. CASE InviteSet(c)
  BY <1>0, <1>12 DEF InviteSet
<1>13. CASE SignupCheck(c)
  BY <1>0, <1>13 DEF SignupCheck
<1>14. CASE create_user(c)
  BY <1>0, <1>14 DEF create_user
<1>15. CASE JoinInvite(c)
  BY <1>0, <1>15 DEF JoinInvite
<1>16. CASE JoinRead(c)
  BY <1>0, <1>16 DEF JoinRead
<1>17. CASE JoinWrite(c)
  BY <1>0, <1>17 DEF JoinWrite
<1>18. CASE JoinUser(c)
  BY <1>0, <1>18 DEF JoinUser
<1>19. CASE JoinMark(c)
  BY <1>0, <1>19 DEF JoinMark
<1>20. CASE RemoveCheck(c)
  BY <1>0, <1>20 DEF RemoveCheck
<1>21. CASE RemoveRead(c)
  BY <1>0, <1>21 DEF RemoveRead
<1>22. CASE RemoveWrite(c)
  BY <1>0, <1>22 DEF RemoveWrite
<1>23. CASE RemoveUser(c)
  BY <1>0, <1>23 DEF RemoveUser
<1>24. CASE RoleCheck(c)
  BY <1>0, <1>24 DEF RoleCheck
<1>25. CASE RoleRead(c)
  BY <1>0, <1>25 DEF RoleRead, Appoint
<1>26. CASE RoleWrite(c)
  BY <1>0, <1>26 DEF RoleWrite
<1>27. CASE RoleUser(c)
  BY <1>0, <1>27 DEF RoleUser
<1>28. CASE Admit(c)
  BY <1>0, <1>28 DEF Admit
<1>29. CASE AskDate(c)
  BY <1>0, <1>29 DEF AskDate
<1>30. CASE Transaction(c)
  BY <1>30
<1>31. CASE LogMember(c)
  BY <1>31
<1>32. CASE Reply(c)
  BY <1>0, <1>32 DEF Reply
<1>33. CASE Abort(c)
  BY <1>0, <1>33 DEF Abort
<1> QED
  BY <1>1, <1>2, <1>3, <1>4, <1>5, <1>6, <1>7, <1>8, <1>9, <1>10, <1>11, <1>12, <1>13,
     <1>14, <1>15, <1>16, <1>17, <1>18, <1>19, <1>20, <1>21, <1>22, <1>23, <1>24,
     <1>25, <1>26, <1>27, <1>28, <1>29, <1>30, <1>31, <1>32, <1>33 DEF CallStep, Arrive, Membership, Usage

(* A step that moves neither pool nor breakdown, and brings no call to its *)
(* log, keeps the sums.                                                    *)
LEMMA PoolUnmoved ==
    ASSUME TypeInv, TypeInv', PoolInv, NEW c \in Calls, CallStep(c),
           UNCHANGED <<pool, breakdown, granted>>, at'[c] # "log"
    PROVE  PoolInv'
<1>1. ASSUME NEW w \in Wids, NEW u \in Uids, NEW d \in Days
      PROVE  breakdown[w][u][d] + Unlogged(w, u, d)' <= granted[w][u][d]
  <2>1. OpenUnits(c, w, u, d)' = 0
    BY DEF OpenUnits
  <2>2. OpenUnits(c, w, u, d) \in Nat
    BY GrantedTypes
  <2>3. breakdown[w][u][d] \in Nat /\ granted[w][u][d] \in Nat
    BY DEF TypeInv, TypeOK
  <2>4. breakdown[w][u][d] + Unlogged(w, u, d) <= granted[w][u][d]
    BY DEF PoolInv
  <2> QED BY <2>1, <2>2, <2>3, <2>4, UnloggedMoves
<1>2. \A w \in Wids : GrantedInAll(w)' = GrantedInAll(w) /\ \A d : GrantedOn(w, d)' = GrantedOn(w, d)
  BY DEF GrantedInAll, GrantedOn
<1> QED BY <1>1, <1>2 DEF PoolInv

(* The transaction counts what it grants. *)
LEMMA PoolCounts ==
    ASSUME TypeInv, TypeInv', PoolInv, NEW c \in Calls, Transaction(c), at'[c] = "log"
    PROVE  PoolInv'
<1>c. CallStep(c)
  BY DEF CallStep, Usage
<1>1. PICK w \in Wids, u \in Uids, d \in Days, n \in Nat :
        w = arg[c].ws /\ u = arg[c].uid /\ d = arg[c].today /\ n = arg[c].units
  BY DEF Transaction, Step, End, TypeInv, TypeOK, CallOK, InWorkspace, Args
<1> DEFINE usage == Current(pool[w], d)
<1>2. /\ at[c] = "txn" /\ at'[c] = "log" /\ arg' = arg /\ breakdown' = breakdown
      /\ pool' = [pool EXCEPT ![w] = [usage EXCEPT !.today = @ + n, !.total = @ + n]]
      /\ granted' = [granted EXCEPT ![w][u][d] = @ + n]
  BY <1>1 DEF Transaction, Step, End, TypeInv, TypeOK
<1>3. pool \in [Wids -> PoolUsage] /\ pool[w] \in PoolUsage
  BY DEF TypeInv, TypeOK
<1>4. /\ usage \in PoolUsage /\ usage.date = d /\ usage.total = pool[w].total
      /\ usage.today = IF pool[w].date = d THEN pool[w].today ELSE 0
  BY <1>3, CurrentUsage
<1>5. pool'[w].today = usage.today + n /\ pool'[w].total = usage.total + n /\ pool'[w].date = d
  <2> HIDE DEF usage
  <2> QED BY <1>2, <1>3, <1>4, RaisedUsage
<1>6. \A v \in Wids \ {w} : pool'[v] = pool[v]
  BY <1>2, <1>3
<1>7. /\ \A e \in Days : GrantedOn(w, e)' = IF e = d THEN GrantedOn(w, e) + n ELSE GrantedOn(w, e)
      /\ GrantedInAll(w)' = GrantedInAll(w) + n
      /\ \A v \in Wids \ {w} :
           GrantedInAll(v)' = GrantedInAll(v) /\ \A e \in Days : GrantedOn(v, e)' = GrantedOn(v, e)
  BY <1>2, GrantRaises
<1>8. ASSUME NEW v \in Wids
      PROVE  /\ pool'[v].total = GrantedInAll(v)'
             /\ \A e \in Days : pool'[v].date = e => pool'[v].today <= GrantedOn(v, e)'
  <2>1. /\ pool[v].total = GrantedInAll(v) /\ pool[v].today \in Nat
        /\ \A e \in Days : pool[v].date = e => pool[v].today <= GrantedOn(v, e)
    BY <1>3 DEF PoolInv, PoolUsage, TypeInv, TypeOK
  <2>2. CASE v # w
    BY <1>6, <1>7, <2>1, <2>2
  <2>3. CASE v = w
    <3>1. GrantedOn(w, d) \in Nat
      BY GrantedTypes
    <3>2. usage.today <= GrantedOn(w, d) /\ usage.today \in Nat
      BY <1>4, <2>1, <2>3, <3>1
    <3> HIDE DEF usage
    <3> QED BY <1>4, <1>5, <1>7, <2>1, <2>3, <3>1, <3>2
  <2> QED BY <2>2, <2>3
<1>9. ASSUME NEW v \in Wids, NEW x \in Uids, NEW e \in Days
      PROVE  breakdown'[v][x][e] + Unlogged(v, x, e)' <= granted'[v][x][e]
  <2>1. OpenUnits(c, v, x, e) = 0
    BY <1>2 DEF OpenUnits
  <2>2. OpenUnits(c, v, x, e)' = IF v = w /\ x = u /\ e = d THEN n ELSE 0
    BY <1>1, <1>2 DEF OpenUnits
  <2>3. breakdown[v][x][e] \in Nat /\ granted[v][x][e] \in Nat
    BY DEF TypeInv, TypeOK
  <2>4. breakdown[v][x][e] + Unlogged(v, x, e) <= granted[v][x][e]
    BY DEF PoolInv
  <2>5. granted'[v][x][e] = IF v = w /\ x = u /\ e = d THEN granted[v][x][e] + n ELSE granted[v][x][e]
    BY <1>2 DEF TypeInv, TypeOK
  <2>6. /\ Unlogged(v, x, e) \in Nat /\ Unlogged(v, x, e)' \in Nat
        /\ Unlogged(v, x, e)' + OpenUnits(c, v, x, e)
             = Unlogged(v, x, e) + OpenUnits(c, v, x, e)'
    BY <1>c, UnloggedMoves
  <2>7. breakdown'[v][x][e] = breakdown[v][x][e]
    BY <1>2
  <2> QED BY <2>1, <2>2, <2>3, <2>4, <2>5, <2>6, <2>7
<1> QED BY <1>8, <1>9 DEF PoolInv

(* The breakdown gets what was granted, once. *)
LEMMA PoolLogs ==
    ASSUME TypeInv, TypeInv', PoolInv, NEW c \in Calls, LogMember(c)
    PROVE  PoolInv'
<1>c. CallStep(c)
  BY DEF CallStep, Usage
<1>0. at[c] = "log" /\ at'[c] = "idle"
  BY DEF LogMember, End, Step, TypeInv, TypeOK
<1>1. PICK w \in Wids, u \in Uids, d \in Days, n \in Nat :
        w = arg[c].ws /\ u = arg[c].uid /\ d = arg[c].today /\ n = arg[c].units
  BY <1>0 DEF TypeInv, TypeOK, CallOK, InWorkspace, Args
<1>2. /\ breakdown' = [breakdown EXCEPT ![w][u][d] = @ + n]
      /\ UNCHANGED <<pool, granted>>
  BY <1>1 DEF LogMember, history
<1>3. ASSUME NEW v \in Wids, NEW x \in Uids, NEW e \in Days
      PROVE  breakdown'[v][x][e] + Unlogged(v, x, e)' <= granted'[v][x][e]
  <2>1. OpenUnits(c, v, x, e) = IF v = w /\ x = u /\ e = d THEN n ELSE 0
    BY <1>0, <1>1 DEF OpenUnits
  <2>2. OpenUnits(c, v, x, e)' = 0
    BY <1>0 DEF OpenUnits
  <2>3. breakdown[v][x][e] \in Nat /\ granted[v][x][e] \in Nat
    BY DEF TypeInv, TypeOK
  <2>4. breakdown[v][x][e] + Unlogged(v, x, e) <= granted[v][x][e]
    BY DEF PoolInv
  <2>5. breakdown'[v][x][e] = IF v = w /\ x = u /\ e = d THEN breakdown[v][x][e] + n ELSE breakdown[v][x][e]
    BY <1>2 DEF TypeInv, TypeOK
  <2> QED BY <1>2, <1>c, <2>1, <2>2, <2>3, <2>4, <2>5, UnloggedMoves
<1>4. \A v \in Wids : GrantedInAll(v)' = GrantedInAll(v) /\ \A e : GrantedOn(v, e)' = GrantedOn(v, e)
  BY <1>2 DEF GrantedInAll, GrantedOn
<1> QED BY <1>2, <1>3, <1>4 DEF PoolInv

(* Every step keeps the sums of pool and breakdown.                        *)
LEMMA PoolNext ==
    ASSUME TypeInv, TypeInv', PoolInv, [Next]_vars
    PROVE  PoolInv'
<1>1. ASSUME NEW c \in Calls, CallStep(c) PROVE PoolInv'
  <2>1. CASE Transaction(c) /\ at'[c] = "log"
    BY <2>1, PoolCounts
  <2>2. CASE Transaction(c) /\ at'[c] # "log"
    <3>1. UNCHANGED <<pool, breakdown, granted>>
      BY <2>2 DEF Transaction, Step, storage, history, TypeInv, TypeOK
    <3> QED BY <1>1, <2>2, <3>1, PoolUnmoved
  <2>3. CASE LogMember(c)
    BY <2>3, PoolLogs
  <2>4. CASE ~ Transaction(c) /\ ~ LogMember(c)
    BY <1>1, <2>4, OthersDoNotCount, PoolUnmoved
  <2> QED BY <2>1, <2>2, <2>3, <2>4
<1>2. ASSUME UNCHANGED <<storage, at, arg, copy, history>> PROVE PoolInv'
  BY <1>2 DEF PoolInv, GrantedInAll, GrantedOn, Unlogged, OpenUnits, storage, history
<1> QED BY <1>1, <1>2 DEF Next, CallStep, Midnight, vars, storage, history

(* The pool's total is the sum of all it granted, its count of today is no   *)
(* more than was granted today, and no member's share in the breakdown, with *)
(* what calls have still to add to it, is more than the member was granted.  *)
THEOREM PoolAlwaysExact == Spec => []PoolIsExact
<1>1. Spec => [](TypeInv /\ PoolInv)
  BY InitTypes, NextTypes, PoolInit, PoolNext, PTL DEF Spec
<1>2. TypeInv /\ PoolInv => PoolIsExact
  <2> SUFFICES ASSUME TypeInv, PoolInv, NEW w \in Wids
               PROVE  /\ pool[w].total = GrantedInAll(w)
                      /\ \A u \in Uids, d \in Days : breakdown[w][u][d] <= granted[w][u][d]
                      /\ UsedToday(w) <= GrantedOn(w, day)
    BY DEF PoolIsExact
  <2>1. \A u \in Uids, d \in Days : breakdown[w][u][d] <= granted[w][u][d]
    <3> SUFFICES ASSUME NEW u \in Uids, NEW d \in Days PROVE breakdown[w][u][d] <= granted[w][u][d]
      OBVIOUS
    <3>1. breakdown[w][u][d] \in Nat /\ granted[w][u][d] \in Nat
      BY DEF TypeInv, TypeOK
    <3>2. breakdown[w][u][d] + Unlogged(w, u, d) <= granted[w][u][d]
      BY DEF PoolInv
    <3>3. Unlogged(w, u, d) \in Nat
      BY GrantedTypes
    <3> QED BY <3>1, <3>2, <3>3
  <2>2. UsedToday(w) <= GrantedOn(w, day)
    <3>1. GrantedOn(w, day) \in Nat
      BY GrantedTypes DEF TypeInv, TypeOK
    <3>2. day \in Days
      BY DEF TypeInv, TypeOK
    <3> QED BY <3>1, <3>2 DEF UsedToday, PoolInv
  <2> QED BY <2>1, <2>2 DEF PoolInv
<1> QED BY <1>1, <1>2, PTL
=============================================================================
