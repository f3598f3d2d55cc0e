-------------------------- MODULE Accounts_proofs --------------------------
(***************************************************************************)
(* Proofs about Accounts, for any number of calls, users, keys, addresses  *)
(* and days: the shape of its state, the limit on keys, the answers of the *)
(* key lookup, and the daily counters.                                     *)
(***************************************************************************)
EXTENDS Accounts, FiniteSetTheorems, TLAPS

-----------------------------------------------------------------------------
(* What a call holds at each of its steps: a user, a key, a document. *)
OfUser == {"signup", "create", "generate", "add_read", "add_write", "add_index", "revoke",
           "rev_index", "token", "owner", "backfill", "limit", "inc_read", "inc_write",
           "use_write", "del_read", "del_index"}
OfAddress == {"free", "ip_read", "ip_count", "ip_reset"}
OfKey == {"add_read", "add_write", "add_index", "revoke", "rev_index"} \cup LookupSteps
Counting == {"inc_read", "inc_write", "ip_read", "ip_count", "ip_reset"}
HoldsUser == {"add_write", "rev_index", "inc_write", "use_write"}
HoldsUsage == {"ip_count", "ip_reset"}

CallOK(c) ==
    /\ at[c] \in OfUser => arg[c].uid \in Uids
    /\ at[c] \in OfAddress => arg[c].uid \in Addresses
    /\ at[c] = "work" => arg[c].uid # None
    /\ at[c] \in OfKey => arg[c].hash \in Hashes
    /\ at[c] \in {"backfill", "limit"} => arg[c].tier \in Tiers
    /\ at[c] \in Counting => arg[c].left > 0
    /\ at[c] \in HoldsUser => copy[c] \in User
    /\ at[c] \in HoldsUsage => copy[c] \in Usage

TypeInv == TypeOK /\ \A c \in Calls : CallOK(c)

(* A call goes to one of its steps, and the others stand where they stood. *)
LEMMA CallsMove ==
    ASSUME TypeInv, NEW c \in Calls,
           Arrive(c) \/ Keys(c) \/ Request(c) \/ Reply(c) \/ Abort(c)
    PROVE  /\ at' \in [Calls -> Steps]
           /\ \A d \in Calls \ {c} :
                at'[d] = at[d] /\ arg'[d] = arg[d] /\ copy'[d] = copy[d]
<1> USE DEF TypeInv, TypeOK, Steps, LookupSteps, Step, End, Begin, Read
<1>1. CASE Signup(c)
  BY <1>1 DEF Signup
<1>2. CASE SignupCheck(c)
  BY <1>2 DEF SignupCheck
<1>3. CASE create_user(c)
  BY <1>3 DEF create_user, Generated, FreshHash
<1>4. CASE Generate(c)
  BY <1>4 DEF Generate
<1>5. CASE GenerateCheck(c)
  BY <1>5 DEF GenerateCheck, Generated, FreshHash
<1>6. CASE AddRead(c)
  BY <1>6 DEF AddRead, HasRoom
<1>7. CASE AddWrite(c)
  BY <1>7 DEF AddWrite, UpdateUser
<1>8. CASE AddIndex(c)
  BY <1>8 DEF AddIndex
<1>9. CASE Revoke(c)
  BY <1>9 DEF Revoke
<1>10. CASE RevokeRead(c)
  BY <1>10 DEF RevokeRead
<1>11. CASE RevokeIndex(c)
  BY <1>11 DEF RevokeIndex, DeleteEntry
<1>12. CASE RevokeWrite(c)
  BY <1>12 DEF RevokeWrite, UpdateUser
<1>13. CASE RequestWithKey(c)
  BY <1>13 DEF RequestWithKey
<1>14. CASE Poll(c)
  BY <1>14 DEF Poll
<1>15. CASE RequestWithToken(c)
  BY <1>15 DEF RequestWithToken
<1>16. CASE RequestFree(c)
  BY <1>16 DEF RequestFree
<1>17. CASE LookupIndex(c)
  BY <1>17 DEF LookupIndex
<1>18. CASE LookupOwner(c)
  BY <1>18 DEF LookupOwner
<1>19. CASE LookupScan(c)
  BY <1>19 DEF LookupScan
<1>20. CASE Backfill(c)
  BY <1>20 DEF Backfill
<1>21. CASE LookupToken(c)
  BY <1>21 DEF LookupToken
<1>22. CASE CheckUsage(c)
  BY <1>22 DEF CheckUsage
<1>23. CASE CheckFree(c)
  BY <1>23 DEF CheckFree
<1>24. CASE Serve(c)
  BY <1>24 DEF Serve
<1>25. CASE IncrementRead(c)
  BY <1>25 DEF IncrementRead
<1>26. CASE IncrementWrite(c)
  BY <1>26 DEF IncrementWrite, NextUnit
<1>27. CASE FreeRead(c)
  BY <1>27 DEF FreeRead
<1>28. CASE FreeWrite(c)
  BY <1>28 DEF FreeWrite, NextUnit
<1>29. CASE LastUsedRead(c)
  BY <1>29 DEF LastUsedRead, WithLiveKey
<1>30. CASE LastUsedWrite(c)
  BY <1>30 DEF LastUsedWrite, UpdateUser
<1>31. CASE DeleteAccount(c)
  BY <1>31 DEF DeleteAccount
<1>32. CASE DeleteRead(c)
  BY <1>32 DEF DeleteRead
<1>33. CASE DeleteIndex(c)
  BY <1>33 DEF DeleteIndex, DeleteEntry
<1>34. CASE DeleteUser(c)
  BY <1>34 DEF DeleteUser
<1>35. CASE Reply(c)
  BY <1>35 DEF Reply
<1>36. CASE Abort(c)
  BY <1>36 DEF Abort
<1> QED
  BY <1>1, <1>2, <1>3, <1>4, <1>5, <1>6, <1>7, <1>8, <1>9, <1>10, <1>11, <1>12, <1>13,
     <1>14, <1>15, <1>16, <1>17, <1>18, <1>19, <1>20, <1>21, <1>22, <1>23, <1>24, <1>25,
     <1>26, <1>27, <1>28, <1>29, <1>30, <1>31, <1>32, <1>33, <1>34, <1>35, <1>36 DEF
     Arrive, Keys, Request

(* The arguments of a call stay arguments when one of them is changed. *)
LEMMA ArgsUpdated ==
    /\ NoArg \in Args
    /\ \A a \in Args :
          /\ \A u \in Uids \cup Addresses \cup {None} : [a EXCEPT !.uid = u] \in Args
          /\ \A h \in Hashes \cup {None} : [a EXCEPT !.hash = h] \in Args
          /\ \A s \in SUBSET Hashes : [a EXCEPT !.todo = s] \in Args
          /\ \A n \in Nat : [a EXCEPT !.left = n] \in Args
          /\ \A t \in Tiers \cup {None} : [a EXCEPT !.tier = t] \in Args
BY DEF Args, NoArg

(* What a call is about keeps its type. *)
LEMMA ArgsKept ==
    ASSUME TypeInv, NEW c \in Calls,
           Arrive(c) \/ Keys(c) \/ Request(c) \/ Reply(c) \/ Abort(c)
    PROVE  arg' \in [Calls -> Args]
<1> USE DEF TypeInv, TypeOK
<1>0. arg[c] \in Args /\ arg[c].todo \in SUBSET Hashes /\ arg[c].left \in Nat
  BY DEF Args
<1>1. CASE Signup(c)
  <2>1. PICK u \in Uids : Begin(c, "signup", [NoArg EXCEPT !.uid = u])
    BY <1>1 DEF Signup
  <2>2. [NoArg EXCEPT !.uid = u] \in Args
    BY AccountsAssumption, ArgsUpdated
  <2> QED BY <2>1, <2>2 DEF Begin
<1>2. CASE SignupCheck(c)
  BY <1>0, <1>2, ArgsUpdated DEF SignupCheck, End
<1>3. CASE create_user(c)
  BY <1>0, <1>3, ArgsUpdated DEF create_user, Generated, FreshHash
<1>4. CASE Generate(c)
  <2>1. PICK u \in Uids : Begin(c, "generate", [NoArg EXCEPT !.uid = u])
    BY <1>4 DEF Generate
  <2>2. [NoArg EXCEPT !.uid = u] \in Args
    BY AccountsAssumption, ArgsUpdated
  <2> QED BY <2>1, <2>2 DEF Begin
<1>5. CASE GenerateCheck(c)
  BY <1>0, <1>5, ArgsUpdated DEF GenerateCheck, End, Generated, FreshHash
<1>6. CASE AddRead(c)
  BY <1>0, <1>6, ArgsUpdated DEF AddRead, End, Step
<1>7. CASE AddWrite(c)
  BY <1>0, <1>7, ArgsUpdated DEF AddWrite, UpdateUser, End
<1>8. CASE AddIndex(c)
  BY <1>0, <1>8, ArgsUpdated DEF AddIndex, End
<1>9. CASE Revoke(c)
  <2>1. PICK u \in Uids, h \in Hashes : Begin(c, "revoke", [NoArg EXCEPT !.uid = u, !.hash = h])
    BY <1>9 DEF Revoke
  <2>2. [NoArg EXCEPT !.uid = u, !.hash = h] \in Args
    BY AccountsAssumption, ArgsUpdated
  <2> QED BY <2>1, <2>2 DEF Begin
<1>10. CASE RevokeRead(c)
  <2>1. CASE End(c, "revoke")
    BY <2>1, ArgsUpdated DEF End
  <2>2. CASE ~ End(c, "revoke")
    <3>1. PICK s \in SUBSET Hashes : arg' = [arg EXCEPT ![c].todo = s]
      BY <1>10, <2>2 DEF RevokeRead, WithPrefix
    <3> QED BY <1>0, <3>1, ArgsUpdated
  <2> QED BY <2>1, <2>2
<1>11. CASE RevokeIndex(c)
  <2>1. PICK h \in arg[c].todo : arg' = [arg EXCEPT ![c].todo = @ \ {h}]
    BY <1>11 DEF RevokeIndex, DeleteEntry
  <2>2. arg[c].todo \ {h} \in SUBSET Hashes
    BY <1>0
  <2> QED BY <1>0, <2>1, <2>2, ArgsUpdated
<1>12. CASE RevokeWrite(c)
  BY <1>0, <1>12, ArgsUpdated DEF RevokeWrite, UpdateUser, End
<1>13. CASE RequestWithKey(c)
  <2>1. PICK h \in Hashes, n \in Units : Begin(c, "index", [NoArg EXCEPT !.hash = h, !.left = n])
    BY <1>13 DEF RequestWithKey
  <2>2. [NoArg EXCEPT !.hash = h, !.left = n] \in Args
    BY AccountsAssumption, ArgsUpdated
  <2> QED BY <2>1, <2>2 DEF Begin
<1>14. CASE Poll(c)
  <2>1. PICK h \in Hashes : Begin(c, "index", [NoArg EXCEPT !.hash = h])
    BY <1>14 DEF Poll
  <2>2. [NoArg EXCEPT !.hash = h] \in Args
    BY AccountsAssumption, ArgsUpdated
  <2> QED BY <2>1, <2>2 DEF Begin
<1>15. CASE RequestWithToken(c)
  <2>1. PICK u \in Uids, n \in Units : Begin(c, "token", [NoArg EXCEPT !.uid = u, !.left = n])
    BY <1>15 DEF RequestWithToken
  <2>2. [NoArg EXCEPT !.uid = u, !.left = n] \in Args
    BY AccountsAssumption, ArgsUpdated
  <2> QED BY <2>1, <2>2 DEF Begin
<1>16. CASE RequestFree(c)
  <2>1. PICK a \in Addresses, n \in Units : Begin(c, "free", [NoArg EXCEPT !.uid = a, !.left = n])
    BY <1>16 DEF RequestFree
  <2>2. [NoArg EXCEPT !.uid = a, !.left = n] \in Args
    BY AccountsAssumption, ArgsUpdated
  <2> QED BY <2>1, <2>2 DEF Begin
<1>17. CASE LookupIndex(c)
  BY <1>0, <1>17, ArgsUpdated DEF LookupIndex, Step, CallOK, OfKey, LookupSteps
<1>18. CASE LookupOwner(c)
  <2>1. \/ arg' = arg
        \/ \E t \in Tiers : arg' = [arg EXCEPT ![c].tier = t]
    BY <1>18 DEF LookupOwner, Holds, CallOK, OfUser, Step, User
  <2> QED BY <1>0, <2>1, ArgsUpdated
<1>19. CASE LookupScan(c)
  <2>1. \/ arg' = arg
        \/ \E u \in Uids, t \in Tiers : arg' = [arg EXCEPT ![c].uid = u, ![c].tier = t]
    BY <1>19 DEF LookupScan, Holds, User
  <2>2. \A u \in Uids, t \in Tiers : [arg[c] EXCEPT !.uid = u, !.tier = t] \in Args
    BY <1>0, ArgsUpdated
  <2>3. CASE \E u \in Uids, t \in Tiers : arg' = [arg EXCEPT ![c].uid = u, ![c].tier = t]
    <3>1. PICK u \in Uids, t \in Tiers : arg' = [arg EXCEPT ![c].uid = u, ![c].tier = t]
      BY <2>3
    <3> DEFINE new == [arg[c] EXCEPT !.uid = u, !.tier = t]
    <3>2. arg'[c] = new /\ arg' = [d \in Calls |-> IF d = c THEN arg'[c] ELSE arg[d]]
      BY <3>1
    <3>3. new \in Args
      BY <2>2
    <3> HIDE DEF new
    <3> QED BY <3>2, <3>3
  <2> QED BY <2>1, <2>3
<1>20. CASE Backfill(c)
  BY <1>0, <1>20, ArgsUpdated DEF Backfill
<1>21. CASE LookupToken(c)
  <2>1. CASE UNCHANGED arg
    BY <2>1
  <2>2. CASE ~ UNCHANGED arg
    <3>1. \/ \E a \in Addresses : arg' = [arg EXCEPT ![c].uid = a]
          \/ \E t \in Tiers : arg' = [arg EXCEPT ![c].tier = t]
      BY <1>21, <2>2 DEF LookupToken, CallOK, OfUser, Step, User
    <3>2. \A a \in Addresses : [arg[c] EXCEPT !.uid = a] \in Args
      BY <1>0, ArgsUpdated
    <3>3. \A t \in Tiers : [arg[c] EXCEPT !.tier = t] \in Args
      BY <1>0, ArgsUpdated
    <3>4. CASE \E a \in Addresses : arg' = [arg EXCEPT ![c].uid = a]
      BY <3>2, <3>4
    <3>5. CASE \E t \in Tiers : arg' = [arg EXCEPT ![c].tier = t]
      BY <3>3, <3>5
    <3> QED BY <3>1, <3>4, <3>5
  <2> QED BY <2>1, <2>2
<1>22. CASE CheckUsage(c)
  BY <1>0, <1>22, ArgsUpdated DEF CheckUsage
<1>23. CASE CheckFree(c)
  BY <1>0, <1>23, ArgsUpdated DEF CheckFree
<1>24. CASE Serve(c)
  BY <1>0, <1>24, ArgsUpdated DEF Serve
<1>25. CASE IncrementRead(c)
  BY <1>0, <1>25, ArgsUpdated DEF IncrementRead, End
<1>26. CASE IncrementWrite(c)
  <2>1. CASE End(c, "inc_write")
    BY <2>1, ArgsUpdated DEF End
  <2>2. CASE ~ End(c, "inc_write")
    <3>1. arg' = [arg EXCEPT ![c].left = @ - 1] /\ arg[c].left - 1 \in Nat
      BY <1>0, <1>26, <2>2 DEF IncrementWrite, Step, CallOK, Counting
    <3> QED BY <1>0, <3>1, ArgsUpdated
  <2> QED BY <2>1, <2>2
<1>27. CASE FreeRead(c)
  BY <1>0, <1>27, ArgsUpdated DEF FreeRead
<1>28. CASE FreeWrite(c)
  <2>1. arg' = [arg EXCEPT ![c].left = @ - 1] /\ arg[c].left - 1 \in Nat
    BY <1>0, <1>28 DEF FreeWrite, Step, CallOK, Counting
  <2> QED BY <1>0, <2>1, ArgsUpdated
<1>29. CASE LastUsedRead(c)
  BY <1>0, <1>29, ArgsUpdated DEF LastUsedRead, End, WithLiveKey
<1>30. CASE LastUsedWrite(c)
  BY <1>0, <1>30, ArgsUpdated DEF LastUsedWrite, UpdateUser, End
<1>31. CASE DeleteAccount(c)
  <2>1. PICK u \in Uids : Begin(c, "del_read", [NoArg EXCEPT !.uid = u])
    BY <1>31 DEF DeleteAccount
  <2>2. [NoArg EXCEPT !.uid = u] \in Args
    BY AccountsAssumption, ArgsUpdated
  <2> QED BY <2>1, <2>2 DEF Begin
<1>32. CASE DeleteRead(c)
  <2>1. PICK s \in SUBSET Hashes : arg' = [arg EXCEPT ![c].todo = s]
    BY <1>32 DEF DeleteRead
  <2> QED BY <1>0, <2>1, ArgsUpdated
<1>33. CASE DeleteIndex(c)
  <2>1. PICK h \in arg[c].todo : arg' = [arg EXCEPT ![c].todo = @ \ {h}]
    BY <1>33 DEF DeleteIndex, DeleteEntry
  <2>2. arg[c].todo \ {h} \in SUBSET Hashes
    BY <1>0
  <2> QED BY <1>0, <2>1, <2>2, ArgsUpdated
<1>34. CASE DeleteUser(c)
  BY <1>0, <1>34, ArgsUpdated DEF DeleteUser, End
<1>35. CASE Reply(c)
  BY <1>0, <1>35, ArgsUpdated DEF Reply, End
<1>36. CASE Abort(c)
  BY <1>0, <1>36, ArgsUpdated DEF Abort, End
<1> QED
  BY <1>1, <1>2, <1>3, <1>4, <1>5, <1>6, <1>7, <1>8, <1>9, <1>10, <1>11, <1>12, <1>13,
     <1>14, <1>15, <1>16, <1>17, <1>18, <1>19, <1>20, <1>21, <1>22, <1>23, <1>24, <1>25,
     <1>26, <1>27, <1>28, <1>29, <1>30, <1>31, <1>32, <1>33, <1>34, <1>35, <1>36 DEF
     Arrive, Keys, Request

(* A counter that is raised stays a counter of the present day. *)
LEMMA RaisedUsage ==
    ASSUME TypeOK
    PROVE  /\ \A n \in Usage : Raised(n) \in Usage
           /\ \A user \in User : [user EXCEPT !.usage = Raised(user.usage)] \in User
<1>1. \A n \in Usage : Raised(n) \in Usage
  BY DEF TypeOK, Raised, UsedToday, Usage, Days
<1> QED BY <1>1 DEF User

(* What a call has read is a document. *)
LEMMA CopiesKept ==
    ASSUME TypeInv, NEW c \in Calls,
           Arrive(c) \/ Keys(c) \/ Request(c) \/ Reply(c) \/ Abort(c)
    PROVE  copy' \in [Calls -> User \cup Usage \cup {None}]
<1> USE DEF TypeInv, TypeOK, CallOK, OfUser, OfAddress, Step, End, Begin, Read, storage, history
<1>1. CASE Signup(c)
  BY <1>1 DEF Signup
<1>2. CASE SignupCheck(c)
  BY <1>2 DEF SignupCheck
<1>3. CASE create_user(c)
  BY <1>3 DEF create_user, Generated, FreshHash
<1>4. CASE Generate(c)
  BY <1>4 DEF Generate
<1>5. CASE GenerateCheck(c)
  BY <1>5 DEF GenerateCheck, Generated, FreshHash
<1>6. CASE AddRead(c)
  BY <1>6 DEF AddRead, HasRoom
<1>7. CASE AddWrite(c)
  BY <1>7 DEF AddWrite, UpdateUser
<1>8. CASE AddIndex(c)
  BY <1>8 DEF AddIndex
<1>9. CASE Revoke(c)
  BY <1>9 DEF Revoke
<1>10. CASE RevokeRead(c)
  BY <1>10 DEF RevokeRead
<1>11. CASE RevokeIndex(c)
  BY <1>11 DEF RevokeIndex, DeleteEntry
<1>12. CASE RevokeWrite(c)
  BY <1>12 DEF RevokeWrite, UpdateUser
<1>13. CASE RequestWithKey(c)
  BY <1>13 DEF RequestWithKey
<1>14. CASE Poll(c)
  BY <1>14 DEF Poll
<1>15. CASE RequestWithToken(c)
  BY <1>15 DEF RequestWithToken
<1>16. CASE RequestFree(c)
  BY <1>16 DEF RequestFree
<1>17. CASE LookupIndex(c)
  BY <1>17 DEF LookupIndex
<1>18. CASE LookupOwner(c)
  BY <1>18 DEF LookupOwner
<1>19. CASE LookupScan(c)
  BY <1>19 DEF LookupScan
<1>20. CASE Backfill(c)
  BY <1>20 DEF Backfill
<1>21. CASE LookupToken(c)
  BY <1>21 DEF LookupToken
<1>22. CASE CheckUsage(c)
  BY <1>22 DEF CheckUsage
<1>23. CASE CheckFree(c)
  BY <1>23 DEF CheckFree
<1>24. CASE Serve(c)
  BY <1>24 DEF Serve
<1>25. CASE IncrementRead(c)
  <2>1. CASE UNCHANGED copy \/ copy' = [copy EXCEPT ![c] = None]
    BY <2>1
  <2>2. CASE ~ (UNCHANGED copy \/ copy' = [copy EXCEPT ![c] = None])
    <3> DEFINE user == users[arg[c].uid]
    <3>1. user \in User /\ copy' = [copy EXCEPT ![c] = [user EXCEPT !.usage = Raised(user.usage)]]
      BY <1>25, <2>2 DEF IncrementRead
    <3> QED BY <3>1, RaisedUsage
  <2> QED BY <2>1, <2>2
<1>26. CASE IncrementWrite(c)
  BY <1>26 DEF IncrementWrite, NextUnit
<1>27. CASE FreeRead(c)
  BY <1>27 DEF FreeRead, Raised, UsedToday, Usage, Days
<1>28. CASE FreeWrite(c)
  BY <1>28 DEF FreeWrite, NextUnit
<1>29. CASE LastUsedRead(c)
  BY <1>29 DEF LastUsedRead, WithLiveKey
<1>30. CASE LastUsedWrite(c)
  BY <1>30 DEF LastUsedWrite, UpdateUser
<1>31. CASE DeleteAccount(c)
  BY <1>31 DEF DeleteAccount
<1>32. CASE DeleteRead(c)
  BY <1>32 DEF DeleteRead
<1>33. CASE DeleteIndex(c)
  BY <1>33 DEF DeleteIndex, DeleteEntry
<1>34. CASE DeleteUser(c)
  BY <1>34 DEF DeleteUser
<1>35. CASE Reply(c)
  BY <1>35 DEF Reply
<1>36. CASE Abort(c)
  BY <1>36 DEF Abort
<1> QED
  BY <1>1, <1>2, <1>3, <1>4, <1>5, <1>6, <1>7, <1>8, <1>9, <1>10, <1>11, <1>12, <1>13,
     <1>14, <1>15, <1>16, <1>17, <1>18, <1>19, <1>20, <1>21, <1>22, <1>23, <1>24, <1>25,
     <1>26, <1>27, <1>28, <1>29, <1>30, <1>31, <1>32, <1>33, <1>34, <1>35, <1>36 DEF
     Arrive, Keys, Request

(* A call holds what its next step needs. *)
LEMMA OwnCall ==
    ASSUME TypeInv, NEW c \in Calls,
           Arrive(c) \/ Keys(c) \/ Request(c) \/ Reply(c) \/ Abort(c)
    PROVE  CallOK(c)'
<1> USE AccountsAssumption DEF TypeInv, TypeOK, CallOK, Steps, LookupSteps, OfUser, OfAddress, OfKey,
        Counting, HoldsUser, HoldsUsage, Args, NoArg, Step
<1>1. CASE Signup(c)
  BY <1>1 DEF Signup, Begin
<1>2. CASE SignupCheck(c)
  BY <1>2 DEF SignupCheck, End
<1>3. CASE create_user(c)
  BY <1>3 DEF create_user, Generated, FreshHash
<1>4. CASE Generate(c)
  BY <1>4 DEF Generate, Begin
<1>5. CASE GenerateCheck(c)
  BY <1>5 DEF GenerateCheck, End, Generated, FreshHash
<1>6. CASE AddRead(c)
  BY <1>6 DEF AddRead, End, Read, HasRoom
<1>7. CASE AddWrite(c)
  BY <1>7 DEF AddWrite, UpdateUser, End
<1>8. CASE AddIndex(c)
  BY <1>8 DEF AddIndex, End
<1>9. CASE Revoke(c)
  BY <1>9 DEF Revoke, Begin
<1>10. CASE RevokeRead(c)
  BY <1>10, SMTT(30) DEF RevokeRead, End, Read, WithPrefix
<1>11. CASE RevokeIndex(c)
  BY <1>11 DEF RevokeIndex, DeleteEntry
<1>12. CASE RevokeWrite(c)
  BY <1>12 DEF RevokeWrite, UpdateUser, End
<1>13. CASE RequestWithKey(c)
  BY <1>13 DEF RequestWithKey, Begin
<1>14. CASE Poll(c)
  BY <1>14 DEF Poll, Begin
<1>15. CASE RequestWithToken(c)
  BY <1>15 DEF RequestWithToken, Begin
<1>16. CASE RequestFree(c)
  BY <1>16 DEF RequestFree, Begin
<1>17. CASE LookupIndex(c)
  BY <1>17 DEF LookupIndex
<1>18. CASE LookupOwner(c)
  <2>1. \/ at'[c] = "denied" /\ arg' = arg
        \/ /\ at'[c] = "limit" /\ arg[c].uid \in Uids /\ users[arg[c].uid] \in User
           /\ arg' = [arg EXCEPT ![c].tier = users[arg[c].uid].tier]
    BY <1>18 DEF LookupOwner, Holds
  <2>2. users[arg[c].uid] \in User => users[arg[c].uid].tier \in Tiers
    BY DEF User
  <2> QED BY <2>1, <2>2
<1>19. CASE LookupScan(c)
  <2>1. \/ at'[c] = "denied" /\ arg' = arg
        \/ /\ at'[c] = "backfill" /\ arg[c].hash \in Hashes
           /\ \E u \in Uids : /\ users[u] \in User
                              /\ arg' = [arg EXCEPT ![c].uid = u, ![c].tier = users[u].tier]
    BY <1>19 DEF LookupScan, Holds
  <2>2. CASE at'[c] = "denied" /\ arg' = arg
    BY <2>2
  <2>3. CASE /\ at'[c] = "backfill" /\ arg[c].hash \in Hashes
             /\ \E u \in Uids : /\ users[u] \in User
                                /\ arg' = [arg EXCEPT ![c].uid = u, ![c].tier = users[u].tier]
    <3>1. PICK u \in Uids : /\ users[u] \in User
                            /\ arg' = [arg EXCEPT ![c].uid = u, ![c].tier = users[u].tier]
      BY <2>3
    <3>2. users[u].tier \in Tiers
      BY <3>1 DEF User
    <3>3. arg'[c] = [arg[c] EXCEPT !.uid = u, !.tier = users[u].tier] /\ arg[c] \in Args
      BY <3>1
    <3>4. arg'[c].uid = u /\ arg'[c].tier = users[u].tier /\ arg'[c].hash = arg[c].hash
      BY <3>3
    <3> QED BY <2>3, <3>2, <3>4
  <2> QED BY <2>1, <2>2, <2>3
<1>20. CASE Backfill(c)
  BY <1>20 DEF Backfill
<1>21. CASE LookupToken(c)
  <2>1. \/ /\ at'[c] = "free"
           /\ \E a \in Addresses : arg' = [arg EXCEPT ![c].uid = a]
        \/ /\ at'[c] = "limit" /\ arg[c].uid \in Uids /\ users[arg[c].uid] \in User
           /\ arg' = [arg EXCEPT ![c].tier = users[arg[c].uid].tier]
    BY <1>21 DEF LookupToken
  <2>2. CASE at'[c] = "free" /\ \E a \in Addresses : arg' = [arg EXCEPT ![c].uid = a]
    BY <2>2
  <2>3. CASE /\ at'[c] = "limit" /\ arg[c].uid \in Uids /\ users[arg[c].uid] \in User
             /\ arg' = [arg EXCEPT ![c].tier = users[arg[c].uid].tier]
    <3>1. users[arg[c].uid].tier \in Tiers
      BY <2>3 DEF User
    <3> QED BY <2>3, <3>1
  <2> QED BY <2>1, <2>2, <2>3
<1>22. CASE CheckUsage(c)
  BY <1>22 DEF CheckUsage
<1>23. CASE CheckFree(c)
  BY <1>23 DEF CheckFree
<1>24. CASE Serve(c)
  BY <1>24 DEF Serve
<1>25. CASE IncrementRead(c)
  <2>1. CASE End(c, "inc_read")
    BY <2>1 DEF End
  <2>2. CASE ~ End(c, "inc_read")
    <3> DEFINE user == users[arg[c].uid]
    <3>1. /\ user \in User /\ arg' = arg /\ at[c] = "inc_read" /\ at'[c] = "inc_write"
          /\ copy'[c] = [user EXCEPT !.usage = Raised(user.usage)]
      BY <1>25, <2>2 DEF IncrementRead, Read
    <3> QED BY <3>1, RaisedUsage
  <2> QED BY <2>1, <2>2
<1>26. CASE IncrementWrite(c)
  <2>1. CASE End(c, "inc_write")
    BY <2>1 DEF End
  <2>2. CASE ~ End(c, "inc_write")
    <3>1. /\ at[c] = "inc_write" /\ at'[c] \in {"inc_read", "consumed"}
          /\ at'[c] = "inc_read" => arg[c].left > 1
          /\ arg'[c].left = arg[c].left - 1 /\ arg'[c].uid = arg[c].uid
      BY <1>26, <2>2 DEF IncrementWrite, NextUnit
    <3> QED BY <3>1
  <2> QED BY <2>1, <2>2
<1>27. CASE FreeRead(c)
  BY <1>27 DEF FreeRead, Read, Raised, UsedToday, Usage, Days
<1>28. CASE FreeWrite(c)
  BY <1>28 DEF FreeWrite, NextUnit
<1>29. CASE LastUsedRead(c)
  BY <1>29 DEF LastUsedRead, End, Read, WithLiveKey
<1>30. CASE LastUsedWrite(c)
  BY <1>30 DEF LastUsedWrite, UpdateUser, End
<1>31. CASE DeleteAccount(c)
  BY <1>31 DEF DeleteAccount, Begin
<1>32. CASE DeleteRead(c)
  BY <1>32 DEF DeleteRead
<1>33. CASE DeleteIndex(c)
  BY <1>33 DEF DeleteIndex, DeleteEntry
<1>34. CASE DeleteUser(c)
  BY <1>34 DEF DeleteUser, End
<1>35. CASE Reply(c)
  BY <1>35 DEF Reply, End
<1>36. CASE Abort(c)
  BY <1>36 DEF Abort, End
<1> QED
  BY <1>1, <1>2, <1>3, <1>4, <1>5, <1>6, <1>7, <1>8, <1>9, <1>10, <1>11, <1>12, <1>13,
     <1>14, <1>15, <1>16, <1>17, <1>18, <1>19, <1>20, <1>21, <1>22, <1>23, <1>24, <1>25,
     <1>26, <1>27, <1>28, <1>29, <1>30, <1>31, <1>32, <1>33, <1>34, <1>35, <1>36 DEF
     Arrive, Keys, Request

(* A user keeps its type when its keys are replaced. *)
LEMMA KeysReplaced ==
    ASSUME NEW user \in User, NEW keys \in [Hashes -> Statuses]
    PROVE  [user EXCEPT !.keys = keys] \in User
BY DEF User

(* What is stored keeps its type. *)
LEMMA StorageKept ==
    ASSUME TypeInv, NEW c \in Calls,
           Arrive(c) \/ Keys(c) \/ Request(c) \/ Reply(c) \/ Abort(c)
    PROVE  /\ users' \in [Uids -> User \cup {None}]
           /\ index' \in [Hashes -> Uids \cup {None}]
           /\ ips' \in [Addresses -> Usage]
           /\ issued' \in [Hashes -> Uids \cup {None}]
           /\ charged' \in [Uids \cup Addresses -> [Days -> Nat]]
           /\ had' \in [Uids -> SUBSET Tiers]
           /\ day' = day
<1> USE DEF TypeInv, TypeOK, CallOK, OfUser, OfAddress, OfKey, LookupSteps, Step, End, Begin, Read,
        storage, history
<1>1. CASE Signup(c)
  BY <1>1 DEF Signup
<1>2. CASE SignupCheck(c)
  BY <1>2 DEF SignupCheck
<1>3. CASE create_user(c)
  <2>1. NewUser \in User
    BY AccountsAssumption DEF NewUser, User, Usage, Statuses, Days
  <2>2. PICK h \in Hashes : Generated(c, h)
    BY <1>3 DEF create_user
  <2> QED BY <1>3, <2>1, <2>2, AccountsAssumption DEF create_user, Generated
<1>4. CASE Generate(c)
  BY <1>4 DEF Generate
<1>5. CASE GenerateCheck(c)
  BY <1>5 DEF GenerateCheck, Generated, FreshHash
<1>6. CASE AddRead(c)
  BY <1>6 DEF AddRead
<1>7. CASE AddWrite(c)
  <2>1. ASSUME users[arg[c].uid] # None
        PROVE  WithKeys(c, [copy[c].keys EXCEPT ![arg[c].hash] = "active"]) \in User
    <3>1. users[arg[c].uid] \in User /\ copy[c] \in User
      BY <1>7, <2>1 DEF AddWrite, UpdateUser, HoldsUser
    <3>2. [copy[c].keys EXCEPT ![arg[c].hash] = "active"] \in [Hashes -> Statuses]
      BY <3>1 DEF User, Statuses
    <3> QED BY <3>1, <3>2, KeysReplaced DEF WithKeys
  <2> QED BY <1>7, <2>1 DEF AddWrite, UpdateUser
<1>8. CASE AddIndex(c)
  BY <1>8 DEF AddIndex
<1>9. CASE Revoke(c)
  BY <1>9 DEF Revoke
<1>10. CASE RevokeRead(c)
  BY <1>10 DEF RevokeRead
<1>11. CASE RevokeIndex(c)
  BY <1>11 DEF RevokeIndex, DeleteEntry
<1>12. CASE RevokeWrite(c)
  <2>1. ASSUME users[arg[c].uid] # None
        PROVE  WithKeys(c, Revoked(copy[c].keys, Prefix[arg[c].hash])) \in User
    <3>1. users[arg[c].uid] \in User /\ copy[c] \in User
      BY <1>12, <2>1 DEF RevokeWrite, UpdateUser, HoldsUser
    <3>2. Revoked(copy[c].keys, Prefix[arg[c].hash]) \in [Hashes -> Statuses]
      BY <3>1 DEF User, Statuses, Revoked
    <3> QED BY <3>1, <3>2, KeysReplaced DEF WithKeys
  <2> QED BY <1>12, <2>1 DEF RevokeWrite, UpdateUser
<1>13. CASE RequestWithKey(c)
  BY <1>13 DEF RequestWithKey
<1>14. CASE Poll(c)
  BY <1>14 DEF Poll
<1>15. CASE RequestWithToken(c)
  BY <1>15 DEF RequestWithToken
<1>16. CASE RequestFree(c)
  BY <1>16 DEF RequestFree
<1>17. CASE LookupIndex(c)
  BY <1>17 DEF LookupIndex
<1>18. CASE LookupOwner(c)
  BY <1>18 DEF LookupOwner
<1>19. CASE LookupScan(c)
  BY <1>19 DEF LookupScan
<1>20. CASE Backfill(c)
  BY <1>20 DEF Backfill
<1>21. CASE LookupToken(c)
  BY <1>21 DEF LookupToken
<1>22. CASE CheckUsage(c)
  BY <1>22 DEF CheckUsage
<1>23. CASE CheckFree(c)
  BY <1>23 DEF CheckFree
<1>24. CASE Serve(c)
  BY <1>24 DEF Serve
<1>25. CASE IncrementRead(c)
  BY <1>25 DEF IncrementRead
<1>26. CASE IncrementWrite(c)
  <2>1. CASE UNCHANGED <<storage, history>>
    BY <1>26, <2>1 DEF IncrementWrite
  <2>2. CASE ~ UNCHANGED <<storage, history>>
    <3> DEFINE u == arg[c].uid
    <3>1. /\ u \in Uids /\ copy[c] \in User /\ users[u] \in User
          /\ users' = [users EXCEPT ![u].usage = copy[c].usage]
          /\ Charge(u, copy[c].usage.date)
          /\ UNCHANGED <<index, ips, day, issued, had>>
      BY <1>26, <2>2 DEF IncrementWrite, HoldsUser
    <3>2. [users[u] EXCEPT !.usage = copy[c].usage] \in User /\ copy[c].usage.date \in Days
      BY <3>1 DEF User, Usage
    <3> QED BY <3>1, <3>2, AccountsAssumption DEF Charge
  <2> QED BY <2>1, <2>2
<1>27. CASE FreeRead(c)
  BY <1>27 DEF FreeRead
<1>28. CASE FreeWrite(c)
  <2> DEFINE a == arg[c].uid
  <2>1. /\ a \in Addresses /\ copy[c] \in Usage
        /\ Charge(a, copy[c].date)
        /\ UNCHANGED <<users, index, day, issued, had>>
    BY <1>28 DEF FreeWrite, HoldsUsage
  <2>2. ips' = [ips EXCEPT ![a] = copy[c]] \/ ips' = [ips EXCEPT ![a].today = copy[c].today]
    BY <1>28 DEF FreeWrite
  <2>3. [ips[a] EXCEPT !.today = copy[c].today] \in Usage /\ copy[c].date \in Days
    BY <2>1 DEF Usage
  <2>4. ips' \in [Addresses -> Usage]
    BY <2>1, <2>2, <2>3
  <2>5. charged' \in [Uids \cup Addresses -> [Days -> Nat]]
    BY <2>1, <2>3, AccountsAssumption DEF Charge
  <2> QED BY <2>1, <2>4, <2>5
<1>29. CASE LastUsedRead(c)
  BY <1>29 DEF LastUsedRead, WithLiveKey
<1>30. CASE LastUsedWrite(c)
  <2>1. ASSUME users[arg[c].uid] # None
        PROVE  WithKeys(c, copy[c].keys) \in User
    <3>1. users[arg[c].uid] \in User /\ copy[c] \in User
      BY <1>30, <2>1 DEF LastUsedWrite, UpdateUser, HoldsUser
    <3>2. copy[c].keys \in [Hashes -> Statuses]
      BY <3>1 DEF User, Statuses
    <3> QED BY <3>1, <3>2, KeysReplaced DEF WithKeys
  <2>2. /\ UNCHANGED <<index, ips, day, issued, charged, had>>
        /\ \/ UNCHANGED users
           \/ /\ users[arg[c].uid] # None
              /\ users' = [users EXCEPT ![arg[c].uid] = WithKeys(c, copy[c].keys)]
    BY <1>30 DEF LastUsedWrite, UpdateUser
  <2> QED BY <2>1, <2>2
<1>31. CASE DeleteAccount(c)
  BY <1>31 DEF DeleteAccount
<1>32. CASE DeleteRead(c)
  BY <1>32 DEF DeleteRead
<1>33. CASE DeleteIndex(c)
  BY <1>33 DEF DeleteIndex, DeleteEntry
<1>34. CASE DeleteUser(c)
  BY <1>34 DEF DeleteUser
<1>35. CASE Reply(c)
  BY <1>35 DEF Reply
<1>36. CASE Abort(c)
  BY <1>36 DEF Abort
<1> QED
  BY <1>1, <1>2, <1>3, <1>4, <1>5, <1>6, <1>7, <1>8, <1>9, <1>10, <1>11, <1>12, <1>13,
     <1>14, <1>15, <1>16, <1>17, <1>18, <1>19, <1>20, <1>21, <1>22, <1>23, <1>24, <1>25,
     <1>26, <1>27, <1>28, <1>29, <1>30, <1>31, <1>32, <1>33, <1>34, <1>35, <1>36 DEF
     Arrive, Keys, Request

(* The history of a lookup holds truth values. *)
LEMMA SeenKept ==
    ASSUME TypeOK, Watch
    PROVE  seen' \in [Calls -> SUBSET BOOLEAN]
<1>1. \A us, h : KeyActive(us, h) \in BOOLEAN
  BY DEF KeyActive
<1> QED BY <1>1 DEF TypeOK, Watch

(* Every reachable state has the types of TypeOK, and every call holds what *)
(* its next step reads. *)
THEOREM TypeCorrect == Spec => []TypeInv
<1>1. Init => TypeInv
  BY AccountsAssumption DEF Init, TypeInv, TypeOK, CallOK, Days, Usage, Args, NoArg, Steps,
      OfUser, OfAddress, OfKey, Counting, HoldsUser, HoldsUsage, LookupSteps
<1>2. TypeInv /\ [Next]_vars => TypeInv'
  <2> SUFFICES ASSUME TypeInv, [Next]_vars
               PROVE  TypeInv'
    OBVIOUS
  <2>1. CASE Next
    <3>1. Watch /\ mix' = mix
      BY <2>1 DEF Next
    <3>2. seen' \in [Calls -> SUBSET BOOLEAN] /\ mix' \in Mixes
      BY <3>1, SeenKept DEF TypeInv, TypeOK
    <3>3. ASSUME NEW c \in Calls,
                 Arrive(c) \/ Keys(c) \/ Request(c) \/ Reply(c) \/ Abort(c)
          PROVE  TypeInv'
      <4>1. \A d \in Calls : CallOK(d)'
        BY <3>3, CallsMove, OwnCall DEF TypeInv, CallOK
      <4>2. TypeOK'
        BY <3>2, <3>3, CallsMove, ArgsKept, CopiesKept, StorageKept DEF TypeInv, TypeOK
      <4> QED BY <4>1, <4>2 DEF TypeInv
    <3>4. CASE Midnight
      <4>1. \A d \in Calls : CallOK(d)'
        BY <3>4 DEF Midnight, TypeInv, CallOK
      <4>2. TypeOK'
        BY <3>2, <3>4, AccountsAssumption DEF Midnight, TypeInv, TypeOK, storage, history, Days
      <4> QED BY <4>1, <4>2 DEF TypeInv
    <3>5. CASE ChangeTier
      <4>1. PICK u \in Uids, t \in Tiers :
              /\ users[u] # None /\ users' = [users EXCEPT ![u].tier = t]
              /\ had' = [had EXCEPT ![u] = @ \cup {t}]
              /\ UNCHANGED <<index, ips, day, at, arg, copy, issued, charged>>
        BY <3>5 DEF ChangeTier
      <4>2. [users[u] EXCEPT !.tier = t] \in User
        BY <4>1 DEF TypeInv, TypeOK, User
      <4>3. \A d \in Calls : CallOK(d)'
        BY <4>1 DEF TypeInv, CallOK
      <4>4. TypeOK'
        BY <3>2, <4>1, <4>2 DEF TypeInv, TypeOK
      <4> QED BY <4>3, <4>4 DEF TypeInv
    <3> QED BY <2>1, <3>3, <3>4, <3>5 DEF Next
  <2>2. CASE UNCHANGED vars
    BY <2>2 DEF vars, TypeInv, TypeOK, CallOK
  <2> QED BY <2>1, <2>2
<1> QED BY <1>1, <1>2, PTL DEF Spec

-----------------------------------------------------------------------------
(* A user has a tier it has had.  The limit on keys holds of the copies that *)
(* will be written back, too; the copy of a call that adds a key has room    *)
(* for it.                                                                   *)
Room(tiers, keys) == \E t \in tiers : Cardinality(ActiveKeys(keys)) < MaxKeys[t]

KeysWithin(c) ==
    /\ at[c] \in {"rev_index", "use_write"} => Fits(had[arg[c].uid], copy[c].keys)
    /\ at[c] = "add_write" => Room(had[arg[c].uid], copy[c].keys)

TiersHad == \A u \in Uids : users[u] # None => users[u].tier \in had[u]

KeyInv == TiersHad /\ KeyLimit /\ \A c \in Calls : KeysWithin(c)

(* Keys that fit go on fitting when there are more tiers to fit in. *)
LEMMA FitsMore ==
    ASSUME NEW S, NEW T, S \subseteq T, NEW keys
    PROVE  (Fits(S, keys) => Fits(T, keys)) /\ (Room(S, keys) => Room(T, keys))
BY DEF Fits, Room

(* What the changes of a key list do to the number of active keys. *)
LEMMA ActiveCounted ==
    ASSUME NEW keys \in [Hashes -> Statuses]
    PROVE  /\ Cardinality(ActiveKeys(keys)) \in Nat
           /\ \A h \in Hashes :
                Cardinality(ActiveKeys([keys EXCEPT ![h] = "active"])) <= Cardinality(ActiveKeys(keys)) + 1
           /\ \A p : Cardinality(ActiveKeys(Revoked(keys, p))) <= Cardinality(ActiveKeys(keys))
<1>1. IsFiniteSet(ActiveKeys(keys)) /\ Cardinality(ActiveKeys(keys)) \in Nat
  BY AccountsAssumption, FS_Subset, FS_CardinalityType DEF ActiveKeys
<1>2. ASSUME NEW h \in Hashes
      PROVE  Cardinality(ActiveKeys([keys EXCEPT ![h] = "active"])) <= Cardinality(ActiveKeys(keys)) + 1
  <2>1. ActiveKeys([keys EXCEPT ![h] = "active"]) = ActiveKeys(keys) \cup {h}
    BY DEF ActiveKeys, Statuses
  <2>2. CASE h \in ActiveKeys(keys)
    <3>1. ActiveKeys(keys) \cup {h} = ActiveKeys(keys)
      BY <2>2
    <3>2. Cardinality(ActiveKeys(keys)) <= Cardinality(ActiveKeys(keys)) + 1
      BY <1>1
    <3> QED BY <2>1, <3>1, <3>2
  <2>3. CASE h \notin ActiveKeys(keys)
    <3> DEFINE A == ActiveKeys(keys)
    <3>1. Cardinality(A \cup {h}) = Cardinality(A) + 1
      <4> HIDE DEF A
      <4> QED BY <1>1, <2>3, FS_AddElement DEF A
    <3>2. Cardinality(A) + 1 <= Cardinality(A) + 1
      BY <1>1
    <3> QED BY <2>1, <3>1, <3>2
  <2> QED BY <2>2, <2>3
<1>3. ASSUME NEW p
      PROVE  Cardinality(ActiveKeys(Revoked(keys, p))) <= Cardinality(ActiveKeys(keys))
  <2>1. ActiveKeys(Revoked(keys, p)) \subseteq ActiveKeys(keys)
    BY DEF ActiveKeys, Revoked
  <2> QED BY <1>1, <2>1, FS_Subset
<1> QED BY <1>1, <1>2, <1>3

(* The list of keys of a user gives every hash a status.                   *)
LEMMA UserKeys ==
    ASSUME NEW user \in User
    PROVE  user.keys \in [Hashes -> Statuses]
BY DEF User

(* A step of a call keeps the key lists and the copies within the limit. *)
LEMMA KeysKept ==
    ASSUME TypeInv, KeyInv, NEW c \in Calls,
           Arrive(c) \/ Keys(c) \/ Request(c) \/ Reply(c) \/ Abort(c)
    PROVE  /\ TiersHad' /\ KeyLimit' /\ KeysWithin(c)'
           /\ \A u \in Uids : had[u] \subseteq had'[u]
<1> USE DEF TypeInv, TypeOK, CallOK, KeyInv, TiersHad, KeyLimit, KeysWithin, Step, End, Read,
        storage, history, OfUser, HoldsUser, OfKey
<1>1. CASE Arrive(c)
  BY <1>1, ZenonT(60) DEF Arrive, Begin, Signup, Generate, Revoke, RequestWithKey, Poll, RequestWithToken,
      RequestFree, DeleteAccount
<1>2. CASE create_user(c)
  <2>1. PICK u \in Uids : /\ users' = [users EXCEPT ![u] = NewUser] /\ at'[c] = "add_read"
                          /\ had' = [had EXCEPT ![u] = @ \cup {"starter"}]
    BY <1>2 DEF create_user
  <2>2. ActiveKeys(NewUser.keys) = {}
    BY DEF ActiveKeys, NewUser
  <2>3. Cardinality(ActiveKeys(NewUser.keys)) = 0
    BY <2>2, FS_EmptySet
  <2>4. \A w \in Uids \ {u} : users'[w] = users[w] /\ had'[w] = had[w]
    BY <2>1
  <2>5. users'[u] = NewUser /\ had'[u] = had[u] \cup {"starter"} /\ NewUser.tier = "starter"
    BY <2>1 DEF NewUser
  <2>6. Fits(had'[u], NewUser.keys)
    BY <2>3, <2>5, AccountsAssumption DEF Fits
  <2> QED BY <2>1, <2>4, <2>5, <2>6
<1>3. CASE AddRead(c)
  <2>1. \/ users' = users /\ had' = had /\ at'[c] = "idle"
        \/ /\ users' = users /\ had' = had /\ at'[c] = "add_write" /\ HasRoom(users[arg[c].uid])
           /\ copy'[c] = users[arg[c].uid] /\ arg' = arg /\ arg[c].uid \in Uids
    BY <1>3 DEF AddRead
  <2>2. HasRoom(users[arg[c].uid]) /\ arg[c].uid \in Uids
        => Room(had[arg[c].uid], users[arg[c].uid].keys)
    BY DEF HasRoom, Room
  <2> QED BY <2>1, <2>2
<1>4. CASE AddWrite(c)
  <2> DEFINE u == arg[c].uid
             keys == [copy[c].keys EXCEPT ![arg[c].hash] = "active"]
  <2>1. \/ users' = users /\ had' = had /\ at'[c] = "idle"
        \/ /\ u \in Uids /\ users[u] \in User /\ users[u] # None /\ at'[c] = "add_index"
           /\ users' = [users EXCEPT ![u] = [users[u] EXCEPT !.keys = keys]] /\ had' = had
    BY <1>4 DEF AddWrite, UpdateUser, WithKeys
  <2>2. at[c] = "add_write" /\ arg[c].hash \in Hashes /\ copy[c].keys \in [Hashes -> Statuses]
    BY <1>4, UserKeys DEF AddWrite, UpdateUser
  <2>3. u \in Uids => Fits(had[u], keys)
    <3> HAVE u \in Uids
    <3>1. /\ Cardinality(ActiveKeys(copy[c].keys)) \in Nat
          /\ Cardinality(ActiveKeys(keys)) <= Cardinality(ActiveKeys(copy[c].keys)) + 1
      BY <2>2, ActiveCounted
    <3>2. keys \in [Hashes -> Statuses]
      BY <2>2 DEF Statuses
    <3>3. Cardinality(ActiveKeys(keys)) \in Nat
      BY <3>2, ActiveCounted
    <3>4. PICK t \in had[u] : Cardinality(ActiveKeys(copy[c].keys)) < MaxKeys[t]
      BY <2>2 DEF Room
    <3>5. MaxKeys[t] \in Nat
      BY <3>4, AccountsAssumption
    <3>6. Cardinality(ActiveKeys(keys)) <= MaxKeys[t]
      BY <3>1, <3>3, <3>4, <3>5
    <3> QED BY <3>4, <3>6 DEF Fits
  <2>4. ASSUME users[u] \in User
        PROVE  LET new == [users[u] EXCEPT !.keys = keys] IN new.keys = keys /\ new.tier = users[u].tier
    BY <2>4 DEF User
  <2> QED BY <2>1, <2>3, <2>4
<1>5. CASE RevokeRead(c)
  <2>1. \/ users' = users /\ had' = had /\ at'[c] = "idle"
        \/ /\ users' = users /\ had' = had /\ at'[c] = "rev_index" /\ arg'[c].uid = arg[c].uid /\ arg[c].uid \in Uids
           /\ users[arg[c].uid] # None /\ copy'[c] = users[arg[c].uid]
    BY <1>5 DEF RevokeRead, Args
  <2> QED BY <2>1
<1>6. CASE RevokeWrite(c)
  <2> DEFINE u == arg[c].uid
             keys == Revoked(copy[c].keys, Prefix[arg[c].hash])
  <2>1. \/ users' = users /\ had' = had /\ at'[c] = "idle"
        \/ /\ u \in Uids /\ users[u] \in User /\ users[u] # None /\ at'[c] = "leave"
           /\ users' = [users EXCEPT ![u] = [users[u] EXCEPT !.keys = keys]] /\ had' = had
    BY <1>6 DEF RevokeWrite, UpdateUser, WithKeys
  <2>2. at[c] = "rev_index" /\ copy[c].keys \in [Hashes -> Statuses]
    BY <1>6, UserKeys DEF RevokeWrite, UpdateUser
  <2>3. u \in Uids => Fits(had[u], keys)
    <3> HAVE u \in Uids
    <3>1. /\ Cardinality(ActiveKeys(copy[c].keys)) \in Nat
          /\ Cardinality(ActiveKeys(keys)) <= Cardinality(ActiveKeys(copy[c].keys))
      BY <2>2, ActiveCounted
    <3>2. keys \in [Hashes -> Statuses]
      BY <2>2 DEF Revoked, Statuses
    <3>3. Cardinality(ActiveKeys(keys)) \in Nat
      BY <3>2, ActiveCounted
    <3>4. PICK t \in had[u] : Cardinality(ActiveKeys(copy[c].keys)) <= MaxKeys[t]
      BY <2>2 DEF Fits
    <3>5. MaxKeys[t] \in Nat
      BY <3>4, AccountsAssumption
    <3>6. Cardinality(ActiveKeys(keys)) <= MaxKeys[t]
      BY <3>1, <3>3, <3>4, <3>5
    <3> QED BY <3>4, <3>6 DEF Fits
  <2>4. ASSUME users[u] \in User
        PROVE  LET new == [users[u] EXCEPT !.keys = keys] IN new.keys = keys /\ new.tier = users[u].tier
    BY <2>4 DEF User
  <2> QED BY <2>1, <2>3, <2>4
<1>7. CASE IncrementRead(c)
  <2>1. users' = users /\ had' = had /\ at'[c] \in {"idle", "inc_write"}
    BY <1>7 DEF IncrementRead
  <2> QED BY <2>1
<1>8. CASE IncrementWrite(c)
  <2> DEFINE u == arg[c].uid
  <2>1. \/ users' = users /\ had' = had /\ at'[c] = "idle"
        \/ /\ u \in Uids /\ users[u] \in User /\ users[u] # None /\ at'[c] \in {"inc_read", "consumed"}
           /\ users' = [users EXCEPT ![u] = [users[u] EXCEPT !.usage = copy[c].usage]]
    BY <1>8 DEF IncrementWrite, NextUnit
  <2>2. ASSUME users[u] \in User
        PROVE  LET new == [users[u] EXCEPT !.usage = copy[c].usage]
               IN  new.keys = users[u].keys /\ new.tier = users[u].tier
    BY <2>2 DEF User
  <2>3. CASE users[u] \in User /\ users[u] # None /\ u \in Uids /\ at'[c] \in {"inc_read", "consumed"}
             /\ users' = [users EXCEPT ![u] = [users[u] EXCEPT !.usage = copy[c].usage]]
    <3>1. /\ users'[u].keys = users[u].keys /\ users'[u].tier = users[u].tier
          /\ \A w \in Uids \ {u} : users'[w] = users[w]
      BY <2>2, <2>3
    <3>2. had' = had
      BY <1>8 DEF IncrementWrite
    <3> QED BY <2>3, <3>1, <3>2
  <2>4. had' = had
    BY <1>8 DEF IncrementWrite
  <2> QED BY <2>1, <2>3, <2>4
<1>9. CASE LastUsedRead(c)
  <2>1. \/ users' = users /\ had' = had /\ at'[c] = "idle"
        \/ /\ users' = users /\ had' = had /\ at'[c] = "use_write" /\ arg' = arg /\ arg[c].uid \in Uids
           /\ users[arg[c].uid] # None /\ copy'[c] = users[arg[c].uid]
    BY <1>9 DEF LastUsedRead, WithLiveKey
  <2> QED BY <2>1
<1>10. CASE LastUsedWrite(c)
  <2> DEFINE u == arg[c].uid
             keys == copy[c].keys
  <2>1. \/ users' = users /\ had' = had /\ at'[c] = "idle"
        \/ /\ u \in Uids /\ users[u] \in User /\ users[u] # None /\ at'[c] = "leave"
           /\ users' = [users EXCEPT ![u] = [users[u] EXCEPT !.keys = keys]] /\ had' = had
    BY <1>10 DEF LastUsedWrite, UpdateUser, WithKeys
  <2>2. at[c] = "use_write"
    BY <1>10 DEF LastUsedWrite, UpdateUser
  <2>3. ASSUME users[u] \in User
        PROVE  LET new == [users[u] EXCEPT !.keys = keys] IN new.keys = keys /\ new.tier = users[u].tier
    BY <2>3 DEF User
  <2> QED BY <2>1, <2>2, <2>3
<1>11. CASE DeleteUser(c)
  <2>1. PICK u \in Uids : users' = [users EXCEPT ![u] = None] /\ had' = had /\ at'[c] = "idle"
    BY <1>11 DEF DeleteUser
  <2> QED BY <2>1
<1>12. CASE GenerateCheck(c)
  BY <1>12 DEF GenerateCheck, Generated, FreshHash
<1>13. CASE AddIndex(c)
  BY <1>13 DEF AddIndex
<1>14. CASE RevokeIndex(c)
  <2>1. /\ users' = users /\ had' = had /\ copy' = copy /\ at' = at
        /\ arg'[c].uid = arg[c].uid
    BY <1>14 DEF RevokeIndex, DeleteEntry, Args
  <2> QED BY <2>1
<1>15. CASE DeleteRead(c)
  BY <1>15 DEF DeleteRead
<1>16. CASE DeleteIndex(c)
  BY <1>16 DEF DeleteIndex, DeleteEntry
<1>17. CASE LookupIndex(c)
  BY <1>17 DEF LookupIndex
<1>18. CASE LookupOwner(c)
  BY <1>18 DEF LookupOwner
<1>19. CASE LookupScan(c)
  BY <1>19 DEF LookupScan
<1>20. CASE Backfill(c)
  BY <1>20 DEF Backfill
<1>21. CASE LookupToken(c)
  BY <1>21 DEF LookupToken
<1>22. CASE CheckUsage(c)
  BY <1>22 DEF CheckUsage
<1>23. CASE CheckFree(c)
  BY <1>23 DEF CheckFree
<1>24. CASE Serve(c)
  BY <1>24 DEF Serve
<1>25. CASE FreeRead(c)
  BY <1>25 DEF FreeRead
<1>26. CASE FreeWrite(c)
  BY <1>26 DEF FreeWrite, NextUnit
<1>27. CASE Reply(c)
  BY <1>27 DEF Reply
<1>28. CASE Abort(c)
  BY <1>28 DEF Abort
<1>29. CASE SignupCheck(c)
  BY <1>29 DEF SignupCheck
<1> QED
  BY <1>1, <1>2, <1>3, <1>4, <1>5, <1>6, <1>7, <1>8, <1>9, <1>10, <1>11, <1>12, <1>13,
     <1>14, <1>15, <1>16, <1>17, <1>18, <1>19, <1>20, <1>21, <1>22, <1>23, <1>24, <1>25,
     <1>26, <1>27, <1>28, <1>29 DEF Keys, Request

(* KeyLimit: no account holds more active keys than some tier it has had     *)
(* allows, however the tier changes and the lists that calls write back over *)
(* each other are interleaved.                                               *)
THEOREM KeysAreLimited == Spec => []KeyLimit
<1>1. Init => KeyInv
  BY DEF Init, KeyInv, TiersHad, KeyLimit, KeysWithin
<1>2. TypeInv /\ TypeInv' /\ KeyInv /\ [Next]_vars => KeyInv'
  <2> SUFFICES ASSUME TypeInv, KeyInv, [Next]_vars
               PROVE  KeyInv'
    OBVIOUS
  <2>1. ASSUME NEW c \in Calls,
               Arrive(c) \/ Keys(c) \/ Request(c) \/ Reply(c) \/ Abort(c)
        PROVE  KeyInv'
    <3>1. /\ TiersHad' /\ KeyLimit' /\ KeysWithin(c)'
          /\ \A u \in Uids : had[u] \subseteq had'[u]
      BY <2>1, KeysKept
    <3>2. ASSUME NEW d \in Calls \ {c}
          PROVE  KeysWithin(d)'
      <4>1. at'[d] = at[d] /\ arg'[d] = arg[d] /\ copy'[d] = copy[d]
        BY <2>1, CallsMove
      <4>2. at[d] \in HoldsUser => had[arg[d].uid] \subseteq had'[arg[d].uid]
        BY <3>1 DEF TypeInv, CallOK, HoldsUser, OfUser
      <4> QED BY <4>1, <4>2, FitsMore DEF KeyInv, KeysWithin, HoldsUser
    <3> QED BY <3>1, <3>2 DEF KeyInv
  <2>2. CASE Midnight
    BY <2>2 DEF Midnight, KeyInv, TiersHad, KeyLimit, KeysWithin, storage, history
  <2>3. CASE ChangeTier
    <3>1. PICK u \in Uids, t \in Tiers :
            /\ users[u] # None /\ users' = [users EXCEPT ![u].tier = t]
            /\ had' = [had EXCEPT ![u] = @ \cup {t}]
            /\ UNCHANGED <<at, arg, copy>>
      BY <2>3 DEF ChangeTier
    <3>2. /\ users'[u].tier = t /\ users'[u].keys = users[u].keys
          /\ had'[u] = had[u] \cup {t}
          /\ \A w \in Uids \ {u} : users'[w] = users[w] /\ had'[w] = had[w]
      BY <3>1 DEF TypeInv, TypeOK, User
    <3>3. \A w \in Uids : had[w] \subseteq had'[w]
      BY <3>2
    <3>4. TiersHad'
      BY <3>2 DEF KeyInv, TiersHad
    <3>5. KeyLimit'
      BY <3>1, <3>2, <3>3, FitsMore DEF KeyInv, KeyLimit
    <3>6. ASSUME NEW d \in Calls
          PROVE  KeysWithin(d)'
      <4>1. at[d] \in HoldsUser => had[arg[d].uid] \subseteq had'[arg[d].uid]
        BY <3>3 DEF TypeInv, CallOK, HoldsUser, OfUser
      <4> QED BY <3>1, <4>1, FitsMore DEF KeyInv, KeysWithin, HoldsUser
    <3> QED BY <3>4, <3>5, <3>6 DEF KeyInv
  <2>4. CASE UNCHANGED vars
    BY <2>4 DEF vars, KeyInv, TiersHad, KeyLimit, KeysWithin
  <2> QED BY <2>1, <2>2, <2>3, <2>4 DEF Next
<1> QED BY <1>1, <1>2, TypeCorrect, PTL DEF Spec, KeyInv

-----------------------------------------------------------------------------
(* A hash is generated for one user.  Whatever a key list, the index or a    *)
(* call has of it agrees with that, so that the owner the index names is the *)
(* only one whose list can hold the key.                                     *)
OwnsKeys(keys, u) == \A h \in Hashes : keys[h] # "absent" => issued[h] = u

StoredIssued ==
    /\ \A u \in Uids : users[u] # None => OwnsKeys(users[u].keys, u)
    /\ \A h \in Hashes : index[h] # None => issued[h] = index[h]

CallIssued(c) ==
    /\ at[c] \in {"add_read", "add_write", "add_index", "owner", "backfill"} =>
          issued[arg[c].hash] = arg[c].uid
    /\ at[c] \in {"add_write", "rev_index", "use_write"} => OwnsKeys(copy[c].keys, arg[c].uid)
    /\ at[c] = "token" => arg[c].hash = None

CallAnswers(c) ==
    /\ at[c] = "backfill" => TRUE \in seen[c]
    /\ at[c] = "limit" /\ arg[c].hash # None => TRUE \in seen[c]
    /\ at[c] = "denied" => FALSE \in seen[c]

IssueInv == StoredIssued /\ \A c \in Calls : CallIssued(c)

(* Nothing that was issued is issued again. *)
LEMMA IssuedOnce ==
    ASSUME TypeInv, NEW c \in Calls,
           Arrive(c) \/ Keys(c) \/ Request(c) \/ Reply(c) \/ Abort(c)
    PROVE  \A h \in Hashes : issued[h] # None => issued'[h] = issued[h]
<1> USE DEF TypeInv, TypeOK, Step, End, Begin, Read, Generated, FreshHash, history, storage
<1>1. CASE Signup(c)
  BY <1>1 DEF Signup
<1>2. CASE SignupCheck(c)
  BY <1>2 DEF SignupCheck
<1>3. CASE create_user(c)
  BY <1>3 DEF create_user, Generated, FreshHash
<1>4. CASE Generate(c)
  BY <1>4 DEF Generate
<1>5. CASE GenerateCheck(c)
  BY <1>5 DEF GenerateCheck, Generated, FreshHash
<1>6. CASE AddRead(c)
  BY <1>6 DEF AddRead, HasRoom
<1>7. CASE AddWrite(c)
  BY <1>7 DEF AddWrite, UpdateUser
<1>8. CASE AddIndex(c)
  BY <1>8 DEF AddIndex
<1>9. CASE Revoke(c)
  BY <1>9 DEF Revoke
<1>10. CASE RevokeRead(c)
  BY <1>10 DEF RevokeRead, WithPrefix
<1>11. CASE RevokeIndex(c)
  BY <1>11 DEF RevokeIndex, DeleteEntry
<1>12. CASE RevokeWrite(c)
  BY <1>12 DEF RevokeWrite, UpdateUser
<1>13. CASE RequestWithKey(c)
  BY <1>13 DEF RequestWithKey
<1>14. CASE Poll(c)
  BY <1>14 DEF Poll
<1>15. CASE RequestWithToken(c)
  BY <1>15 DEF RequestWithToken
<1>16. CASE RequestFree(c)
  BY <1>16 DEF RequestFree
<1>17. CASE LookupIndex(c)
  BY <1>17 DEF LookupIndex
<1>18. CASE LookupOwner(c)
  BY <1>18 DEF LookupOwner
<1>19. CASE LookupScan(c)
  BY <1>19 DEF LookupScan
<1>20. CASE Backfill(c)
  BY <1>20 DEF Backfill
<1>21. CASE LookupToken(c)
  BY <1>21 DEF LookupToken
<1>22. CASE CheckUsage(c)
  BY <1>22 DEF CheckUsage
<1>23. CASE CheckFree(c)
  BY <1>23 DEF CheckFree
<1>24. CASE Serve(c)
  BY <1>24 DEF Serve
<1>25. CASE IncrementRead(c)
  BY <1>25 DEF IncrementRead
<1>26. CASE IncrementWrite(c)
  BY <1>26 DEF IncrementWrite, NextUnit
<1>27. CASE FreeRead(c)
  BY <1>27 DEF FreeRead
<1>28. CASE FreeWrite(c)
  BY <1>28 DEF FreeWrite, NextUnit
<1>29. CASE LastUsedRead(c)
  BY <1>29 DEF LastUsedRead, WithLiveKey
<1>30. CASE LastUsedWrite(c)
  BY <1>30 DEF LastUsedWrite, UpdateUser
<1>31. CASE DeleteAccount(c)
  BY <1>31 DEF DeleteAccount
<1>32. CASE DeleteRead(c)
  BY <1>32 DEF DeleteRead
<1>33. CASE DeleteIndex(c)
  BY <1>33 DEF DeleteIndex, DeleteEntry
<1>34. CASE DeleteUser(c)
  BY <1>34 DEF DeleteUser
<1>35. CASE Reply(c)
  BY <1>35 DEF Reply
<1>36. CASE Abort(c)
  BY <1>36 DEF Abort
<1> QED
  BY <1>1, <1>2, <1>3, <1>4, <1>5, <1>6, <1>7, <1>8, <1>9, <1>10, <1>11, <1>12, <1>13,
     <1>14, <1>15, <1>16, <1>17, <1>18, <1>19, <1>20, <1>21, <1>22, <1>23, <1>24, <1>25,
     <1>26, <1>27, <1>28, <1>29, <1>30, <1>31, <1>32, <1>33, <1>34, <1>35, <1>36 DEF
     Arrive, Keys, Request

(* A key list that belongs to a user still does after a step. *)
LEMMA StillOwned ==
    ASSUME TypeInv, NEW u \in Uids, NEW keys, OwnsKeys(keys, u),
           \A h \in Hashes : issued[h] # None => issued'[h] = issued[h]
    PROVE  \A h \in Hashes : keys[h] # "absent" => issued'[h] = u
<1>1. u # None
  BY AccountsAssumption
<1> QED BY <1>1 DEF OwnsKeys

(* The lists of keys and the index agree with what was issued. *)
LEMMA StoredIssuedKept ==
    ASSUME TypeInv, IssueInv, NEW c \in Calls,
           Arrive(c) \/ Keys(c) \/ Request(c) \/ Reply(c) \/ Abort(c)
    PROVE  StoredIssued'
<1> USE DEF TypeInv, TypeOK, CallOK, IssueInv, Step, End, Begin, Read, storage, history,
        OfUser, OfKey, LookupSteps
<1>0. \A h \in Hashes : issued[h] # None => issued'[h] = issued[h]
  BY IssuedOnce
<1>old. /\ \A u \in Uids : users[u] # None =>
            \A h \in Hashes : users[u].keys[h] # "absent" => issued'[h] = u
      /\ \A h \in Hashes : index[h] # None => issued'[h] = index[h]
  BY <1>0, AccountsAssumption DEF StoredIssued, OwnsKeys
<1>1. CASE Signup(c)
  <2>1. UNCHANGED <<users, index>>
    BY <1>1 DEF Signup
  <2> QED BY <1>0, <1>old, <2>1 DEF StoredIssued, OwnsKeys
<1>2. CASE SignupCheck(c)
  <2>1. UNCHANGED <<users, index>>
    BY <1>2 DEF SignupCheck
  <2> QED BY <1>0, <1>old, <2>1 DEF StoredIssued, OwnsKeys
<1>3. CASE create_user(c)
  <2>1. PICK u \in Uids : users' = [users EXCEPT ![u] = NewUser] /\ index' = index
    BY <1>3 DEF create_user
  <2>2. \A h \in Hashes : NewUser.keys[h] = "absent"
    BY DEF NewUser
  <2>3. users'[u] = NewUser /\ \A w \in Uids \ {u} : users'[w] = users[w]
    BY <2>1
  <2> QED BY <1>0, <1>old, <2>1, <2>2, <2>3 DEF StoredIssued, OwnsKeys
<1>4. CASE Generate(c)
  <2>1. UNCHANGED <<users, index>>
    BY <1>4 DEF Generate
  <2> QED BY <1>0, <1>old, <2>1 DEF StoredIssued, OwnsKeys
<1>5. CASE GenerateCheck(c)
  <2>1. UNCHANGED <<users, index>>
    BY <1>5 DEF GenerateCheck, Generated, FreshHash
  <2> QED BY <1>0, <1>old, <2>1 DEF StoredIssued, OwnsKeys
<1>6. CASE AddRead(c)
  <2>1. UNCHANGED <<users, index>>
    BY <1>6 DEF AddRead, HasRoom
  <2> QED BY <1>0, <1>old, <2>1 DEF StoredIssued, OwnsKeys
<1>7. CASE AddWrite(c)
  <2> DEFINE u == arg[c].uid
             keys == [copy[c].keys EXCEPT ![arg[c].hash] = "active"]
  <2>1. \/ UNCHANGED <<users, index>>
        \/ /\ u \in Uids /\ users[u] \in User /\ index' = index
           /\ users' = [users EXCEPT ![u] = [users[u] EXCEPT !.keys = keys]]
    BY <1>7 DEF AddWrite, UpdateUser, WithKeys
  <2>2. at[c] = "add_write" /\ u \in Uids /\ arg[c].hash \in Hashes /\ copy[c].keys \in [Hashes -> Statuses]
    BY <1>7, UserKeys DEF AddWrite, UpdateUser, HoldsUser
  <2>3. OwnsKeys(copy[c].keys, u) /\ issued[arg[c].hash] = u
    BY <2>2 DEF CallIssued
  <2>4. \A h \in Hashes : copy[c].keys[h] # "absent" => issued'[h] = u
    BY <1>0, <2>2, <2>3, StillOwned
  <2>5. \A h \in Hashes : keys[h] # "absent" => issued'[h] = u
    BY <1>0, <2>2, <2>3, <2>4, AccountsAssumption
  <2>6. ASSUME users[u] \in User  PROVE [users[u] EXCEPT !.keys = keys].keys = keys
    BY <2>6 DEF User
  <2>7. CASE UNCHANGED <<users, index>>
    BY <1>0, <1>old, <2>7 DEF StoredIssued, OwnsKeys
  <2>8. CASE /\ u \in Uids /\ users[u] \in User /\ index' = index
             /\ users' = [users EXCEPT ![u] = [users[u] EXCEPT !.keys = keys]]
    <3>1. users'[u].keys = keys /\ \A w \in Uids \ {u} : users'[w] = users[w]
      BY <2>6, <2>8
    <3> QED BY <1>0, <1>old, <2>5, <2>8, <3>1 DEF StoredIssued, OwnsKeys
  <2> QED BY <2>1, <2>7, <2>8
<1>8. CASE AddIndex(c)
  <2>1. users' = users /\ arg[c].hash \in Hashes /\ arg[c].uid \in Uids /\ issued' = issued
        /\ index' = [index EXCEPT ![arg[c].hash] = arg[c].uid]
    BY <1>8 DEF AddIndex
  <2>2. issued[arg[c].hash] = arg[c].uid
    BY <1>8 DEF AddIndex, CallIssued
  <2> QED BY <1>0, <1>old, <2>1, <2>2 DEF StoredIssued, OwnsKeys
<1>9. CASE Revoke(c)
  <2>1. UNCHANGED <<users, index>>
    BY <1>9 DEF Revoke
  <2> QED BY <1>0, <1>old, <2>1 DEF StoredIssued, OwnsKeys
<1>10. CASE RevokeRead(c)
  <2>1. UNCHANGED <<users, index>>
    BY <1>10 DEF RevokeRead, WithPrefix
  <2> QED BY <1>0, <1>old, <2>1 DEF StoredIssued, OwnsKeys
<1>11. CASE RevokeIndex(c)
  <2>1. PICK h \in Hashes : users' = users /\ index' \in {index, [index EXCEPT ![h] = None]}
    BY <1>11 DEF RevokeIndex, DeleteEntry, Args
  <2> QED BY <1>0, <1>old, <2>1 DEF StoredIssued, OwnsKeys
<1>12. CASE RevokeWrite(c)
  <2> DEFINE u == arg[c].uid
             keys == Revoked(copy[c].keys, Prefix[arg[c].hash])
  <2>1. \/ UNCHANGED <<users, index>>
        \/ /\ u \in Uids /\ users[u] \in User /\ index' = index
           /\ users' = [users EXCEPT ![u] = [users[u] EXCEPT !.keys = keys]]
    BY <1>12 DEF RevokeWrite, UpdateUser, WithKeys
  <2>2. at[c] = "rev_index" /\ u \in Uids
    BY <1>12 DEF RevokeWrite, UpdateUser
  <2>3. OwnsKeys(copy[c].keys, u)
    BY <2>2 DEF CallIssued
  <2>4. \A h \in Hashes : copy[c].keys[h] # "absent" => issued'[h] = u
    BY <1>0, <2>2, <2>3, StillOwned
  <2>5. \A h \in Hashes : keys[h] # "absent" => issued'[h] = u
    BY <1>0, <2>2, <2>3, <2>4 DEF Revoked, WithPrefix
  <2>6. ASSUME users[u] \in User  PROVE [users[u] EXCEPT !.keys = keys].keys = keys
    BY <2>6 DEF User
  <2>7. CASE UNCHANGED <<users, index>>
    BY <1>0, <1>old, <2>7 DEF StoredIssued, OwnsKeys
  <2>8. CASE /\ u \in Uids /\ users[u] \in User /\ index' = index
             /\ users' = [users EXCEPT ![u] = [users[u] EXCEPT !.keys = keys]]
    <3>1. users'[u].keys = keys /\ \A w \in Uids \ {u} : users'[w] = users[w]
      BY <2>6, <2>8
    <3> QED BY <1>0, <1>old, <2>5, <2>8, <3>1 DEF StoredIssued, OwnsKeys
  <2> QED BY <2>1, <2>7, <2>8
<1>13. CASE RequestWithKey(c)
  <2>1. UNCHANGED <<users, index>>
    BY <1>13 DEF RequestWithKey
  <2> QED BY <1>0, <1>old, <2>1 DEF StoredIssued, OwnsKeys
<1>14. CASE Poll(c)
  <2>1. UNCHANGED <<users, index>>
    BY <1>14 DEF Poll
  <2> QED BY <1>0, <1>old, <2>1 DEF StoredIssued, OwnsKeys
<1>15. CASE RequestWithToken(c)
  <2>1. UNCHANGED <<users, index>>
    BY <1>15 DEF RequestWithToken
  <2> QED BY <1>0, <1>old, <2>1 DEF StoredIssued, OwnsKeys
<1>16. CASE RequestFree(c)
  <2>1. UNCHANGED <<users, index>>
    BY <1>16 DEF RequestFree
  <2> QED BY <1>0, <1>old, <2>1 DEF StoredIssued, OwnsKeys
<1>17. CASE LookupIndex(c)
  <2>1. UNCHANGED <<users, index>>
    BY <1>17 DEF LookupIndex
  <2> QED BY <1>0, <1>old, <2>1 DEF StoredIssued, OwnsKeys
<1>18. CASE LookupOwner(c)
  <2>1. UNCHANGED <<users, index>>
    BY <1>18 DEF LookupOwner
  <2> QED BY <1>0, <1>old, <2>1 DEF StoredIssued, OwnsKeys
<1>19. CASE LookupScan(c)
  <2>1. UNCHANGED <<users, index>>
    BY <1>19 DEF LookupScan
  <2> QED BY <1>0, <1>old, <2>1 DEF StoredIssued, OwnsKeys
<1>20. CASE Backfill(c)
  <2>1. /\ users' = users /\ arg[c].hash \in Hashes /\ arg[c].uid \in Uids /\ issued' = issued
        /\ index' \in {index, [index EXCEPT ![arg[c].hash] = arg[c].uid]}
    BY <1>20 DEF Backfill
  <2>2. issued[arg[c].hash] = arg[c].uid
    BY <1>20 DEF Backfill, CallIssued
  <2> QED BY <1>0, <1>old, <2>1, <2>2 DEF StoredIssued, OwnsKeys
<1>21. CASE LookupToken(c)
  <2>1. UNCHANGED <<users, index>>
    BY <1>21 DEF LookupToken
  <2> QED BY <1>0, <1>old, <2>1 DEF StoredIssued, OwnsKeys
<1>22. CASE CheckUsage(c)
  <2>1. UNCHANGED <<users, index>>
    BY <1>22 DEF CheckUsage
  <2> QED BY <1>0, <1>old, <2>1 DEF StoredIssued, OwnsKeys
<1>23. CASE CheckFree(c)
  <2>1. UNCHANGED <<users, index>>
    BY <1>23 DEF CheckFree
  <2> QED BY <1>0, <1>old, <2>1 DEF StoredIssued, OwnsKeys
<1>24. CASE Serve(c)
  <2>1. UNCHANGED <<users, index>>
    BY <1>24 DEF Serve
  <2> QED BY <1>0, <1>old, <2>1 DEF StoredIssued, OwnsKeys
<1>25. CASE IncrementRead(c)
  <2>1. UNCHANGED <<users, index>>
    BY <1>25 DEF IncrementRead
  <2> QED BY <1>0, <1>old, <2>1 DEF StoredIssued, OwnsKeys
<1>26. CASE IncrementWrite(c)
  <2> DEFINE u == arg[c].uid
  <2>1. \/ UNCHANGED <<users, index>>
        \/ /\ u \in Uids /\ users[u] \in User /\ users[u] # None /\ index' = index
           /\ users' = [users EXCEPT ![u] = [users[u] EXCEPT !.usage = copy[c].usage]]
    BY <1>26 DEF IncrementWrite
  <2>2. ASSUME users[u] \in User  PROVE [users[u] EXCEPT !.usage = copy[c].usage].keys = users[u].keys
    BY <2>2 DEF User
  <2>3. CASE UNCHANGED <<users, index>>
    BY <1>0, <1>old, <2>3 DEF StoredIssued, OwnsKeys
  <2>4. CASE /\ u \in Uids /\ users[u] \in User /\ users[u] # None /\ index' = index
             /\ users' = [users EXCEPT ![u] = [users[u] EXCEPT !.usage = copy[c].usage]]
    <3>1. users'[u].keys = users[u].keys /\ \A w \in Uids \ {u} : users'[w] = users[w]
      BY <2>2, <2>4
    <3> QED BY <1>0, <1>old, <2>4, <3>1 DEF StoredIssued, OwnsKeys
  <2> QED BY <2>1, <2>3, <2>4
<1>27. CASE FreeRead(c)
  <2>1. UNCHANGED <<users, index>>
    BY <1>27 DEF FreeRead
  <2> QED BY <1>0, <1>old, <2>1 DEF StoredIssued, OwnsKeys
<1>28. CASE FreeWrite(c)
  <2>1. UNCHANGED <<users, index>>
    BY <1>28 DEF FreeWrite, NextUnit
  <2> QED BY <1>0, <1>old, <2>1 DEF StoredIssued, OwnsKeys
<1>29. CASE LastUsedRead(c)
  <2>1. UNCHANGED <<users, index>>
    BY <1>29 DEF LastUsedRead, WithLiveKey
  <2> QED BY <1>0, <1>old, <2>1 DEF StoredIssued, OwnsKeys
<1>30. CASE LastUsedWrite(c)
  <2> DEFINE u == arg[c].uid
             keys == copy[c].keys
  <2>1. \/ UNCHANGED <<users, index>>
        \/ /\ u \in Uids /\ users[u] \in User /\ index' = index
           /\ users' = [users EXCEPT ![u] = [users[u] EXCEPT !.keys = keys]]
    BY <1>30 DEF LastUsedWrite, UpdateUser, WithKeys
  <2>2. at[c] = "use_write" /\ u \in Uids
    BY <1>30 DEF LastUsedWrite, UpdateUser
  <2>3. OwnsKeys(copy[c].keys, u)
    BY <2>2 DEF CallIssued
  <2>4. \A h \in Hashes : copy[c].keys[h] # "absent" => issued'[h] = u
    BY <1>0, <2>2, <2>3, StillOwned
  <2>5. \A h \in Hashes : keys[h] # "absent" => issued'[h] = u
    BY <1>0, <2>2, <2>3, <2>4
  <2>6. ASSUME users[u] \in User  PROVE [users[u] EXCEPT !.keys = keys].keys = keys
    BY <2>6 DEF User
  <2>7. CASE UNCHANGED <<users, index>>
    BY <1>0, <1>old, <2>7 DEF StoredIssued, OwnsKeys
  <2>8. CASE /\ u \in Uids /\ users[u] \in User /\ index' = index
             /\ users' = [users EXCEPT ![u] = [users[u] EXCEPT !.keys = keys]]
    <3>1. users'[u].keys = keys /\ \A w \in Uids \ {u} : users'[w] = users[w]
      BY <2>6, <2>8
    <3> QED BY <1>0, <1>old, <2>5, <2>8, <3>1 DEF StoredIssued, OwnsKeys
  <2> QED BY <2>1, <2>7, <2>8
<1>31. CASE DeleteAccount(c)
  <2>1. UNCHANGED <<users, index>>
    BY <1>31 DEF DeleteAccount
  <2> QED BY <1>0, <1>old, <2>1 DEF StoredIssued, OwnsKeys
<1>32. CASE DeleteRead(c)
  <2>1. UNCHANGED <<users, index>>
    BY <1>32 DEF DeleteRead
  <2> QED BY <1>0, <1>old, <2>1 DEF StoredIssued, OwnsKeys
<1>33. CASE DeleteIndex(c)
  <2>1. PICK h \in Hashes : users' = users /\ index' \in {index, [index EXCEPT ![h] = None]}
    BY <1>33 DEF DeleteIndex, DeleteEntry, Args
  <2> QED BY <1>0, <1>old, <2>1 DEF StoredIssued, OwnsKeys
<1>34. CASE DeleteUser(c)
  <2>1. PICK u \in Uids : users' = [users EXCEPT ![u] = None] /\ index' = index
    BY <1>34 DEF DeleteUser
  <2> QED BY <1>0, <1>old, <2>1 DEF StoredIssued, OwnsKeys
<1>35. CASE Reply(c)
  <2>1. UNCHANGED <<users, index>>
    BY <1>35 DEF Reply
  <2> QED BY <1>0, <1>old, <2>1 DEF StoredIssued, OwnsKeys
<1>36. CASE Abort(c)
  <2>1. UNCHANGED <<users, index>>
    BY <1>36 DEF Abort
  <2> QED BY <1>0, <1>old, <2>1 DEF StoredIssued, OwnsKeys
<1> QED
  BY <1>1, <1>2, <1>3, <1>4, <1>5, <1>6, <1>7, <1>8, <1>9, <1>10, <1>11, <1>12, <1>13,
     <1>14, <1>15, <1>16, <1>17, <1>18, <1>19, <1>20, <1>21, <1>22, <1>23, <1>24, <1>25,
     <1>26, <1>27, <1>28, <1>29, <1>30, <1>31, <1>32, <1>33, <1>34, <1>35, <1>36 DEF
     Arrive, Keys, Request

(* What the call that moved holds agrees with what was issued. *)
LEMMA CallIssuedKept ==
    ASSUME TypeInv, IssueInv, NEW c \in Calls,
           Arrive(c) \/ Keys(c) \/ Request(c) \/ Reply(c) \/ Abort(c)
    PROVE  CallIssued(c)'
<1> USE DEF TypeInv, TypeOK, CallOK, IssueInv, Step, End, Begin, Read, storage, history,
        OfUser, OfKey, LookupSteps
<1>1. CASE Signup(c)
  <2>1. at'[c] \in {"signup"}
    BY <1>1 DEF Signup
  <2> QED BY <2>1 DEF CallIssued
<1>2. CASE SignupCheck(c)
  <2>1. at'[c] \in {"idle", "create"}
    BY <1>2 DEF SignupCheck
  <2> QED BY <2>1 DEF CallIssued
<1>3. CASE create_user(c)
  <2>1. PICK h \in Hashes : /\ at'[c] = "add_read" /\ issued' = [issued EXCEPT ![h] = arg[c].uid]
                            /\ arg' = [arg EXCEPT ![c].hash = h]
    BY <1>3 DEF create_user, Generated
  <2>2. arg'[c].hash = h /\ arg'[c].uid = arg[c].uid
    BY <2>1 DEF Args
  <2> QED BY <2>1, <2>2 DEF CallIssued
<1>4. CASE Generate(c)
  <2>1. at'[c] \in {"generate"}
    BY <1>4 DEF Generate
  <2> QED BY <2>1 DEF CallIssued
<1>5. CASE GenerateCheck(c)
  <2>1. CASE at'[c] = "idle"
    BY <2>1 DEF CallIssued
  <2>2. CASE \E h \in Hashes : at'[c] = "add_read" /\ Generated(c, h)
    <3>1. PICK h \in Hashes : /\ at'[c] = "add_read" /\ issued' = [issued EXCEPT ![h] = arg[c].uid]
                              /\ arg' = [arg EXCEPT ![c].hash = h]
      BY <2>2 DEF Generated
    <3>2. arg'[c].hash = h /\ arg'[c].uid = arg[c].uid
      BY <3>1 DEF Args
    <3> QED BY <3>1, <3>2 DEF CallIssued
  <2> QED BY <1>5, <2>1, <2>2 DEF GenerateCheck
<1>6. CASE AddRead(c)
  <2> DEFINE u == arg[c].uid
  <2>1. \/ at'[c] = "idle"
        \/ /\ at[c] = "add_read" /\ at'[c] = "add_write" /\ u \in Uids /\ users[u] # None /\ issued' = issued
           /\ copy'[c] = users[u] /\ arg'[c].uid = u /\ arg'[c].hash = arg[c].hash
    BY <1>6 DEF AddRead, HasRoom
  <2>2. \A w \in Uids : users[w] # None => \A h \in Hashes : users[w].keys[h] # "absent" => issued[h] = w
    BY DEF StoredIssued, OwnsKeys
  <2>3. at'[c] = "idle" \/ \A h \in Hashes : copy'[c].keys[h] # "absent" => issued'[h] = u
    BY <2>1, <2>2
  <2> QED BY <2>1, <2>3 DEF CallIssued, OwnsKeys
<1>7. CASE AddWrite(c)
  <2>1. \/ at'[c] = "idle"
        \/ at[c] = "add_write" /\ at'[c] = "add_index" /\ issued' = issued /\ arg' = arg
    BY <1>7 DEF AddWrite, UpdateUser
  <2> QED BY <2>1 DEF CallIssued
<1>8. CASE AddIndex(c)
  <2>1. at'[c] \in {"idle"}
    BY <1>8 DEF AddIndex
  <2> QED BY <2>1 DEF CallIssued
<1>9. CASE Revoke(c)
  <2>1. at'[c] \in {"revoke"}
    BY <1>9 DEF Revoke
  <2> QED BY <2>1 DEF CallIssued
<1>10. CASE RevokeRead(c)
  <2> DEFINE u == arg[c].uid
  <2>1. \/ at'[c] = "idle"
        \/ /\ at[c] = "revoke" /\ at'[c] = "rev_index" /\ u \in Uids /\ users[u] # None /\ issued' = issued
           /\ copy'[c] = users[u] /\ arg'[c].uid = u /\ arg'[c].hash = arg[c].hash
    BY <1>10 DEF RevokeRead, Args
  <2>2. \A w \in Uids : users[w] # None => \A h \in Hashes : users[w].keys[h] # "absent" => issued[h] = w
    BY DEF StoredIssued, OwnsKeys
  <2>3. at'[c] = "idle" \/ \A h \in Hashes : copy'[c].keys[h] # "absent" => issued'[h] = u
    BY <2>1, <2>2
  <2> QED BY <2>1, <2>3 DEF CallIssued, OwnsKeys
<1>11. CASE RevokeIndex(c)
  <2>1. at[c] = "rev_index" /\ at' = at /\ issued' = issued /\ copy' = copy
        /\ arg'[c].uid = arg[c].uid /\ arg'[c].hash = arg[c].hash
    BY <1>11 DEF RevokeIndex, DeleteEntry, Args
  <2> QED BY <2>1 DEF CallIssued, OwnsKeys
<1>12. CASE RevokeWrite(c)
  <2>1. at'[c] \in {"idle", "leave"}
    BY <1>12 DEF RevokeWrite, UpdateUser
  <2> QED BY <2>1 DEF CallIssued
<1>13. CASE RequestWithKey(c)
  <2>1. at'[c] \in {"index"}
    BY <1>13 DEF RequestWithKey
  <2> QED BY <2>1 DEF CallIssued
<1>14. CASE Poll(c)
  <2>1. at'[c] \in {"index"}
    BY <1>14 DEF Poll
  <2> QED BY <2>1 DEF CallIssued
<1>15. CASE RequestWithToken(c)
  <2>1. at'[c] = "token" /\ arg'[c].hash = None
    BY <1>15 DEF RequestWithToken, NoArg
  <2> QED BY <2>1 DEF CallIssued
<1>16. CASE RequestFree(c)
  <2>1. at'[c] \in {"free"}
    BY <1>16 DEF RequestFree
  <2> QED BY <2>1 DEF CallIssued
<1>17. CASE LookupIndex(c)
  <2>1. /\ at'[c] \in {"owner", "scan"} /\ (at'[c] = "owner" => index[arg[c].hash] # None)
        /\ arg[c].hash \in Hashes /\ issued' = issued
        /\ arg' = [arg EXCEPT ![c].uid = index[arg[c].hash]]
    BY <1>17 DEF LookupIndex
  <2>2. arg'[c].uid = index[arg[c].hash] /\ arg'[c].hash = arg[c].hash
    BY <2>1 DEF Args
  <2> QED BY <2>1, <2>2 DEF CallIssued, StoredIssued
<1>18. CASE LookupOwner(c)
  <2>1. at'[c] \in {"limit", "denied"}
    BY <1>18 DEF LookupOwner
  <2> QED BY <2>1 DEF CallIssued
<1>19. CASE LookupScan(c)
  <2>1. CASE at'[c] = "denied"
    BY <2>1 DEF CallIssued
  <2>2. CASE at'[c] = "backfill"
    <3>1. arg[c].hash \in Hashes /\ issued' = issued
      BY <1>19 DEF LookupScan
    <3>2. PICK u \in Uids : /\ users[u] # None /\ users[u].keys[arg[c].hash] = "active"
                            /\ arg' = [arg EXCEPT ![c].uid = u, ![c].tier = users[u].tier]
      BY <1>19, <2>2 DEF LookupScan, Holds
    <3>3. issued[arg[c].hash] = u
      BY <3>1, <3>2 DEF StoredIssued, OwnsKeys
    <3>4. arg'[c].uid = u /\ arg'[c].hash = arg[c].hash
      BY <3>2 DEF Args
    <3> QED BY <2>2, <3>1, <3>3, <3>4 DEF CallIssued
  <2> QED BY <1>19, <2>1, <2>2 DEF LookupScan
<1>20. CASE Backfill(c)
  <2>1. at'[c] \in {"limit"}
    BY <1>20 DEF Backfill
  <2> QED BY <2>1 DEF CallIssued
<1>21. CASE LookupToken(c)
  <2>1. at'[c] \in {"limit", "free"}
    BY <1>21 DEF LookupToken
  <2> QED BY <2>1 DEF CallIssued
<1>22. CASE CheckUsage(c)
  <2>1. at'[c] \in {"gone", "work", "refused"}
    BY <1>22 DEF CheckUsage
  <2> QED BY <2>1 DEF CallIssued
<1>23. CASE CheckFree(c)
  <2>1. at'[c] \in {"work", "refused"}
    BY <1>23 DEF CheckFree
  <2> QED BY <2>1 DEF CallIssued
<1>24. CASE Serve(c)
  <2>1. at'[c] \in {"leave", "inc_read", "ip_read"}
    BY <1>24 DEF Serve
  <2> QED BY <2>1 DEF CallIssued
<1>25. CASE IncrementRead(c)
  <2>1. at'[c] \in {"idle", "inc_write"}
    BY <1>25 DEF IncrementRead
  <2> QED BY <2>1 DEF CallIssued
<1>26. CASE IncrementWrite(c)
  <2>1. at'[c] \in {"idle", "inc_read", "consumed"}
    BY <1>26 DEF IncrementWrite, NextUnit
  <2> QED BY <2>1 DEF CallIssued
<1>27. CASE FreeRead(c)
  <2>1. at'[c] \in {"ip_count", "ip_reset"}
    BY <1>27 DEF FreeRead
  <2> QED BY <2>1 DEF CallIssued
<1>28. CASE FreeWrite(c)
  <2>1. at'[c] \in {"ip_read", "consumed"}
    BY <1>28 DEF FreeWrite, NextUnit
  <2> QED BY <2>1 DEF CallIssued
<1>29. CASE LastUsedRead(c)
  <2> DEFINE u == arg[c].uid
  <2>1. \/ at'[c] = "idle"
        \/ /\ at[c] = "consumed" /\ at'[c] = "use_write" /\ u \in Uids /\ users[u] # None /\ issued' = issued
           /\ copy'[c] = users[u] /\ arg'[c].uid = u /\ arg'[c].hash = arg[c].hash
    BY <1>29 DEF LastUsedRead, WithLiveKey
  <2>2. \A w \in Uids : users[w] # None => \A h \in Hashes : users[w].keys[h] # "absent" => issued[h] = w
    BY DEF StoredIssued, OwnsKeys
  <2>3. at'[c] = "idle" \/ \A h \in Hashes : copy'[c].keys[h] # "absent" => issued'[h] = u
    BY <2>1, <2>2
  <2> QED BY <2>1, <2>3 DEF CallIssued, OwnsKeys
<1>30. CASE LastUsedWrite(c)
  <2>1. at'[c] \in {"idle", "leave"}
    BY <1>30 DEF LastUsedWrite, UpdateUser
  <2> QED BY <2>1 DEF CallIssued
<1>31. CASE DeleteAccount(c)
  <2>1. at'[c] \in {"del_read"}
    BY <1>31 DEF DeleteAccount
  <2> QED BY <2>1 DEF CallIssued
<1>32. CASE DeleteRead(c)
  <2>1. at'[c] \in {"del_index"}
    BY <1>32 DEF DeleteRead
  <2> QED BY <2>1 DEF CallIssued
<1>33. CASE DeleteIndex(c)
  <2>1. at[c] = "del_index" /\ at' = at /\ issued' = issued /\ copy' = copy
        /\ arg'[c].uid = arg[c].uid /\ arg'[c].hash = arg[c].hash
    BY <1>33 DEF DeleteIndex, DeleteEntry, Args
  <2> QED BY <2>1 DEF CallIssued, OwnsKeys
<1>34. CASE DeleteUser(c)
  <2>1. at'[c] \in {"idle"}
    BY <1>34 DEF DeleteUser
  <2> QED BY <2>1 DEF CallIssued
<1>35. CASE Reply(c)
  <2>1. at'[c] \in {"idle"}
    BY <1>35 DEF Reply
  <2> QED BY <2>1 DEF CallIssued
<1>36. CASE Abort(c)
  <2>1. at'[c] \in {"idle"}
    BY <1>36 DEF Abort
  <2> QED BY <2>1 DEF CallIssued
<1> QED
  BY <1>1, <1>2, <1>3, <1>4, <1>5, <1>6, <1>7, <1>8, <1>9, <1>10, <1>11, <1>12, <1>13,
     <1>14, <1>15, <1>16, <1>17, <1>18, <1>19, <1>20, <1>21, <1>22, <1>23, <1>24, <1>25,
     <1>26, <1>27, <1>28, <1>29, <1>30, <1>31, <1>32, <1>33, <1>34, <1>35, <1>36 DEF
     Arrive, Keys, Request

(* It still does for the calls that did not move. *)
LEMMA OthersIssued ==
    ASSUME TypeInv, IssueInv, NEW c \in Calls,
           Arrive(c) \/ Keys(c) \/ Request(c) \/ Reply(c) \/ Abort(c),
           NEW d \in Calls \ {c}
    PROVE  CallIssued(d)'
<1>1. at'[d] = at[d] /\ arg'[d] = arg[d] /\ copy'[d] = copy[d]
  BY CallsMove
<1>2. \A h \in Hashes : issued[h] # None => issued'[h] = issued[h]
  BY IssuedOnce
<1>3. CallIssued(d) /\ CallOK(d)
  BY DEF IssueInv, TypeInv
<1>4. CASE at[d] \in {"add_read", "add_write", "add_index", "owner", "backfill"}
  <2>1. arg[d].hash \in Hashes /\ issued[arg[d].hash] = arg[d].uid /\ arg[d].uid \in Uids
    BY <1>3, <1>4 DEF CallIssued, CallOK, OfKey, OfUser, LookupSteps
  <2>2. issued'[arg[d].hash] = arg[d].uid
    BY <1>2, <2>1, AccountsAssumption
  <2>3. at[d] = "add_write" => \A h \in Hashes : copy[d].keys[h] # "absent" => issued'[h] = arg[d].uid
    BY <1>2, <1>3, <2>1, StillOwned DEF CallIssued
  <2> QED BY <1>1, <1>3, <1>4, <2>2, <2>3 DEF CallIssued, OwnsKeys
<1>5. CASE at[d] \in {"rev_index", "use_write"}
  <2>1. arg[d].uid \in Uids
    BY <1>3, <1>5 DEF CallOK, OfUser
  <2>2. \A h \in Hashes : copy[d].keys[h] # "absent" => issued'[h] = arg[d].uid
    BY <1>2, <1>3, <1>5, <2>1, StillOwned DEF CallIssued
  <2> QED BY <1>1, <1>5, <2>2 DEF CallIssued, OwnsKeys
<1> QED BY <1>1, <1>3, <1>4, <1>5 DEF CallIssued

(* What a lookup has seen, it remembers, and every one of its steps adds     *)
(* what it saw of its key.                                                   *)
LEMMA Watched ==
    ASSUME Watch, NEW c \in Calls
    PROVE  /\ at[c] \in LookupSteps \/ at'[c] = at[c] => seen[c] \subseteq seen'[c]
           /\ at[c] \in LookupSteps => KeyActive(users, arg[c].hash) \in seen'[c]
BY DEF Watch

(* The verdict of the call that moved was true of its key at some moment of  *)
(* the lookup.                                                               *)
LEMMA AnswersKept ==
    ASSUME TypeInv, IssueInv, Watch, NEW c \in Calls, CallAnswers(c),
           Arrive(c) \/ Keys(c) \/ Request(c) \/ Reply(c) \/ Abort(c)
    PROVE  CallAnswers(c)'
<1> USE DEF TypeInv, TypeOK, CallOK, IssueInv, Step, End, Begin, Read, storage, history
<1>1. CASE Signup(c)
  <2>1. at'[c] \in {"signup"}
    BY <1>1 DEF Signup
  <2> QED BY <2>1 DEF CallAnswers
<1>2. CASE SignupCheck(c)
  <2>1. at'[c] \in {"idle", "create"}
    BY <1>2 DEF SignupCheck
  <2> QED BY <2>1 DEF CallAnswers
<1>3. CASE create_user(c)
  <2>1. at'[c] \in {"add_read"}
    BY <1>3 DEF create_user, Generated, FreshHash
  <2> QED BY <2>1 DEF CallAnswers
<1>4. CASE Generate(c)
  <2>1. at'[c] \in {"generate"}
    BY <1>4 DEF Generate
  <2> QED BY <2>1 DEF CallAnswers
<1>5. CASE GenerateCheck(c)
  <2>1. at'[c] \in {"idle", "add_read"}
    BY <1>5 DEF GenerateCheck, Generated, FreshHash
  <2> QED BY <2>1 DEF CallAnswers
<1>6. CASE AddRead(c)
  <2>1. at'[c] \in {"idle", "add_write"}
    BY <1>6 DEF AddRead, HasRoom
  <2> QED BY <2>1 DEF CallAnswers
<1>7. CASE AddWrite(c)
  <2>1. at'[c] \in {"idle", "add_index"}
    BY <1>7 DEF AddWrite, UpdateUser
  <2> QED BY <2>1 DEF CallAnswers
<1>8. CASE AddIndex(c)
  <2>1. at'[c] \in {"idle"}
    BY <1>8 DEF AddIndex
  <2> QED BY <2>1 DEF CallAnswers
<1>9. CASE Revoke(c)
  <2>1. at'[c] \in {"revoke"}
    BY <1>9 DEF Revoke
  <2> QED BY <2>1 DEF CallAnswers
<1>10. CASE RevokeRead(c)
  <2>1. at'[c] \in {"idle", "rev_index"}
    BY <1>10 DEF RevokeRead, WithPrefix
  <2> QED BY <2>1 DEF CallAnswers
<1>11. CASE RevokeIndex(c)
  <2>1. at'[c] \in {"rev_index"}
    BY <1>11 DEF RevokeIndex, DeleteEntry
  <2> QED BY <2>1 DEF CallAnswers
<1>12. CASE RevokeWrite(c)
  <2>1. at'[c] \in {"idle", "leave"}
    BY <1>12 DEF RevokeWrite, UpdateUser
  <2> QED BY <2>1 DEF CallAnswers
<1>13. CASE RequestWithKey(c)
  <2>1. at'[c] \in {"index"}
    BY <1>13 DEF RequestWithKey
  <2> QED BY <2>1 DEF CallAnswers
<1>14. CASE Poll(c)
  <2>1. at'[c] \in {"index"}
    BY <1>14 DEF Poll
  <2> QED BY <2>1 DEF CallAnswers
<1>15. CASE RequestWithToken(c)
  <2>1. at'[c] \in {"token"}
    BY <1>15 DEF RequestWithToken
  <2> QED BY <2>1 DEF CallAnswers
<1>16. CASE RequestFree(c)
  <2>1. at'[c] \in {"free"}
    BY <1>16 DEF RequestFree
  <2> QED BY <2>1 DEF CallAnswers
<1>17. CASE LookupIndex(c)
  <2>1. at'[c] \in {"owner", "scan"}
    BY <1>17 DEF LookupIndex
  <2> QED BY <2>1 DEF CallAnswers
<1>18. CASE LookupOwner(c)
  <2> DEFINE h == arg[c].hash
             u == arg[c].uid
  <2>1. /\ at[c] = "owner" /\ h \in Hashes /\ u \in Uids /\ issued[h] = u
        /\ at'[c] = IF Holds(users[u], h) THEN "limit" ELSE "denied"
    BY <1>18 DEF LookupOwner, CallIssued, OfKey, OfUser, LookupSteps
  <2>2. \A w \in Uids : Holds(users[w], h) => w = u
    BY <2>1 DEF StoredIssued, OwnsKeys, Holds
  <2>3. KeyActive(users, h) <=> Holds(users[u], h)
    BY <2>1, <2>2 DEF KeyActive
  <2>4. KeyActive(users, h) \in seen'[c]
    BY <2>1, Watched DEF LookupSteps
  <2>5. at'[c] \in {"limit", "denied"} /\ (at'[c] = "limit" <=> KeyActive(users, h))
    BY <2>1, <2>3
  <2>6. KeyActive(users, h) \in BOOLEAN
    BY DEF KeyActive
  <2> QED BY <2>4, <2>5, <2>6 DEF CallAnswers
<1>19. CASE LookupScan(c)
  <2> DEFINE h == arg[c].hash
  <2>1. at[c] = "scan" /\ KeyActive(users, h) \in BOOLEAN
    BY <1>19 DEF LookupScan, KeyActive
  <2>2. KeyActive(users, h) \in seen'[c]
    BY <2>1, Watched DEF LookupSteps
  <2>3. \/ at'[c] = "denied" /\ ~KeyActive(users, h)
        \/ at'[c] = "backfill" /\ KeyActive(users, h)
    BY <1>19 DEF LookupScan, KeyActive
  <2> QED BY <2>1, <2>2, <2>3 DEF CallAnswers
<1>20. CASE Backfill(c)
  <2>1. at[c] = "backfill" /\ at'[c] = "limit"
    BY <1>20 DEF Backfill
  <2>2. TRUE \in seen'[c]
    BY <2>1, Watched DEF LookupSteps, CallAnswers
  <2> QED BY <2>1, <2>2 DEF CallAnswers
<1>21. CASE LookupToken(c)
  <2>1. at'[c] = "limit" => at[c] = "token" /\ arg'[c].hash = arg[c].hash
    BY <1>21 DEF LookupToken, Args
  <2>2. at'[c] \in {"limit", "free"}
    BY <1>21 DEF LookupToken
  <2> QED BY <2>1, <2>2 DEF CallAnswers, CallIssued
<1>22. CASE CheckUsage(c)
  <2>1. at'[c] \in {"gone", "work", "refused"}
    BY <1>22 DEF CheckUsage
  <2> QED BY <2>1 DEF CallAnswers
<1>23. CASE CheckFree(c)
  <2>1. at'[c] \in {"work", "refused"}
    BY <1>23 DEF CheckFree
  <2> QED BY <2>1 DEF CallAnswers
<1>24. CASE Serve(c)
  <2>1. at'[c] \in {"leave", "inc_read", "ip_read"}
    BY <1>24 DEF Serve
  <2> QED BY <2>1 DEF CallAnswers
<1>25. CASE IncrementRead(c)
  <2>1. at'[c] \in {"idle", "inc_write"}
    BY <1>25 DEF IncrementRead
  <2> QED BY <2>1 DEF CallAnswers
<1>26. CASE IncrementWrite(c)
  <2>1. at'[c] \in {"idle", "inc_read", "consumed"}
    BY <1>26 DEF IncrementWrite, NextUnit
  <2> QED BY <2>1 DEF CallAnswers
<1>27. CASE FreeRead(c)
  <2>1. at'[c] \in {"ip_count", "ip_reset"}
    BY <1>27 DEF FreeRead
  <2> QED BY <2>1 DEF CallAnswers
<1>28. CASE FreeWrite(c)
  <2>1. at'[c] \in {"ip_read", "consumed"}
    BY <1>28 DEF FreeWrite, NextUnit
  <2> QED BY <2>1 DEF CallAnswers
<1>29. CASE LastUsedRead(c)
  <2>1. at'[c] \in {"idle", "use_write"}
    BY <1>29 DEF LastUsedRead, WithLiveKey
  <2> QED BY <2>1 DEF CallAnswers
<1>30. CASE LastUsedWrite(c)
  <2>1. at'[c] \in {"idle", "leave"}
    BY <1>30 DEF LastUsedWrite, UpdateUser
  <2> QED BY <2>1 DEF CallAnswers
<1>31. CASE DeleteAccount(c)
  <2>1. at'[c] \in {"del_read"}
    BY <1>31 DEF DeleteAccount
  <2> QED BY <2>1 DEF CallAnswers
<1>32. CASE DeleteRead(c)
  <2>1. at'[c] \in {"del_index"}
    BY <1>32 DEF DeleteRead
  <2> QED BY <2>1 DEF CallAnswers
<1>33. CASE DeleteIndex(c)
  <2>1. at'[c] \in {"del_index"}
    BY <1>33 DEF DeleteIndex, DeleteEntry
  <2> QED BY <2>1 DEF CallAnswers
<1>34. CASE DeleteUser(c)
  <2>1. at'[c] \in {"idle"}
    BY <1>34 DEF DeleteUser
  <2> QED BY <2>1 DEF CallAnswers
<1>35. CASE Reply(c)
  <2>1. at'[c] \in {"idle"}
    BY <1>35 DEF Reply
  <2> QED BY <2>1 DEF CallAnswers
<1>36. CASE Abort(c)
  <2>1. at'[c] \in {"idle"}
    BY <1>36 DEF Abort
  <2> QED BY <2>1 DEF CallAnswers
<1> QED
  BY <1>1, <1>2, <1>3, <1>4, <1>5, <1>6, <1>7, <1>8, <1>9, <1>10, <1>11, <1>12, <1>13,
     <1>14, <1>15, <1>16, <1>17, <1>18, <1>19, <1>20, <1>21, <1>22, <1>23, <1>24, <1>25,
     <1>26, <1>27, <1>28, <1>29, <1>30, <1>31, <1>32, <1>33, <1>34, <1>35, <1>36 DEF
     Arrive, Keys, Request

(* LookupIsLinearizable: authentication answers for one moment of the        *)
(* request, although it reads the index, the owner's document or all the     *)
(* documents at different times, and the index may lag behind both.          *)
THEOREM LookupsAreLinearizable == Spec => []LookupIsLinearizable
<1> DEFINE Inv == IssueInv /\ \A c \in Calls : CallAnswers(c)
<1>1. Init => Inv
  BY DEF Init, IssueInv, StoredIssued, OwnsKeys, CallIssued, CallAnswers
<1>2. TypeInv /\ Inv /\ [Next]_vars => Inv'
  <2> SUFFICES ASSUME TypeInv, Inv, [Next]_vars
               PROVE  Inv'
    OBVIOUS
  <2>1. ASSUME Watch, NEW c \in Calls,
               Arrive(c) \/ Keys(c) \/ Request(c) \/ Reply(c) \/ Abort(c)
        PROVE  Inv'
    <3>1. StoredIssued' /\ CallIssued(c)'
      BY <2>1, StoredIssuedKept, CallIssuedKept
    <3>2. \A d \in Calls \ {c} : CallIssued(d)'
      BY <2>1, OthersIssued
    <3>3. CallAnswers(c)'
      BY <2>1, AnswersKept
    <3>4. \A d \in Calls \ {c} : CallAnswers(d)'
      <4>1. \A d \in Calls \ {c} : at'[d] = at[d] /\ arg'[d] = arg[d] /\ seen[d] \subseteq seen'[d]
        BY <2>1, CallsMove, Watched
      <4> QED BY <4>1 DEF CallAnswers
    <3> QED BY <3>1, <3>2, <3>3, <3>4 DEF IssueInv
  <2>2. CASE Watch /\ Midnight
    <3>1. \A d \in Calls : CallAnswers(d)'
      <4>1. \A d \in Calls : at'[d] = at[d] /\ arg'[d] = arg[d] /\ seen[d] \subseteq seen'[d]
        BY <2>2, Watched DEF Midnight
      <4> QED BY <4>1 DEF CallAnswers
    <3>2. IssueInv'
      BY <2>2 DEF Midnight, IssueInv, StoredIssued, OwnsKeys, CallIssued, storage, history
    <3> QED BY <3>1, <3>2
  <2>3. CASE Watch /\ ChangeTier
    <3>1. \A d \in Calls : CallAnswers(d)'
      <4>1. \A d \in Calls : at'[d] = at[d] /\ arg'[d] = arg[d] /\ seen[d] \subseteq seen'[d]
        BY <2>3, Watched DEF ChangeTier
      <4> QED BY <4>1 DEF CallAnswers
    <3>2. PICK u \in Uids, t \in Tiers :
            /\ users[u] # None /\ users' = [users EXCEPT ![u].tier = t]
            /\ UNCHANGED <<index, at, arg, copy, issued>>
      BY <2>3 DEF ChangeTier
    <3>3. \A w \in Uids : /\ users'[w] # None => users[w] # None
                          /\ users[w] # None => users'[w].keys = users[w].keys
      BY <3>2, AccountsAssumption DEF TypeInv, TypeOK, User
    <3>4. IssueInv'
      BY <3>2, <3>3 DEF IssueInv, StoredIssued, OwnsKeys, CallIssued
    <3> QED BY <3>1, <3>4
  <2>4. CASE UNCHANGED vars
    BY <2>4 DEF vars, IssueInv, StoredIssued, OwnsKeys, CallIssued, CallAnswers
  <2> QED BY <2>1, <2>2, <2>3, <2>4 DEF Next
<1>3. Inv => LookupIsLinearizable
  BY DEF CallAnswers, LookupIsLinearizable
<1> QED BY <1>1, <1>2, <1>3, TypeCorrect, PTL DEF Spec

-----------------------------------------------------------------------------
(* A counter, or the copy of it about to be written, never claims more units *)
(* of its day than were charged on that day (counted up to the highest       *)
(* limit).                                                                   *)
AtLeast(ch, u, n, d) == ch[u][d] >= n \/ ~BelowSome(ch[u][d])

UsersCharged ==
    \A u \in Uids : users[u] # None => AtLeast(charged, u, users[u].usage.today, users[u].usage.date)

CallCharged(c) ==
    at[c] = "inc_write" =>
        /\ copy[c].usage.today >= 1
        /\ AtLeast(charged, arg[c].uid, copy[c].usage.today - 1, copy[c].usage.date)

ChargedInv == UsersCharged /\ \A c \in Calls : CallCharged(c)

(* What was charged stays charged. *)
LEMMA ChargesGrow ==
    ASSUME TypeInv, NEW o \in Uids \cup Addresses, NEW e \in Days, Charge(o, e),
           NEW u \in Uids, NEW n \in Int, NEW d \in Days, AtLeast(charged, u, n, d)
    PROVE  AtLeast(charged', u, n, d)
<1>1. /\ charged' = [charged EXCEPT ![o][e] = IF BelowSome(@) THEN @ + 1 ELSE @]
      /\ charged \in [Uids \cup Addresses -> [Days -> Nat]]
  BY DEF Charge, TypeInv, TypeOK
<1>2. CASE u = o /\ d = e
  <2>1. charged'[u][d] = (IF BelowSome(charged[u][d]) THEN charged[u][d] + 1 ELSE charged[u][d])
        /\ charged[u][d] \in Nat
    BY <1>1, <1>2
  <2> QED BY <2>1, AccountsAssumption DEF AtLeast
<1>3. CASE ~(u = o /\ d = e)
  <2>1. charged'[u][d] = charged[u][d]
    BY <1>1, <1>3
  <2> QED BY <2>1 DEF AtLeast
<1> QED BY <1>2, <1>3

(* A step of a call charges at least what it writes. *)
LEMMA ChargedKept ==
    ASSUME TypeInv, ChargedInv, NEW c \in Calls,
           Arrive(c) \/ Keys(c) \/ Request(c) \/ Reply(c) \/ Abort(c)
    PROVE  UsersCharged' /\ CallCharged(c)'
<1> USE DEF TypeInv, TypeOK, CallOK, ChargedInv, Step, End, Begin, Read, storage, history, OfUser
<1>1. CASE Signup(c)
  <2>1. at'[c] \in {"signup"} /\ users' = users /\ charged' = charged
    BY <1>1 DEF Signup
  <2> QED BY <2>1 DEF UsersCharged, CallCharged
<1>2. CASE SignupCheck(c)
  <2>1. at'[c] \in {"idle", "create"} /\ users' = users /\ charged' = charged
    BY <1>2 DEF SignupCheck
  <2> QED BY <2>1 DEF UsersCharged, CallCharged
<1>3. CASE create_user(c)
  <2>1. PICK u \in Uids : users' = [users EXCEPT ![u] = NewUser] /\ at'[c] = "add_read" /\ charged' = charged
    BY <1>3 DEF create_user
  <2>2. NewUser.usage.today = 0 /\ NewUser.usage.date \in Days
    BY DEF NewUser
  <2>3. AtLeast(charged, u, NewUser.usage.today, NewUser.usage.date)
    BY <2>2, AccountsAssumption DEF AtLeast
  <2>4. users'[u] = NewUser /\ \A w \in Uids \ {u} : users'[w] = users[w]
    BY <2>1
  <2> QED BY <2>1, <2>3, <2>4 DEF UsersCharged, CallCharged
<1>4. CASE Generate(c)
  <2>1. at'[c] \in {"generate"} /\ users' = users /\ charged' = charged
    BY <1>4 DEF Generate
  <2> QED BY <2>1 DEF UsersCharged, CallCharged
<1>5. CASE GenerateCheck(c)
  <2>1. at'[c] \in {"idle", "add_read"} /\ users' = users /\ charged' = charged
    BY <1>5 DEF GenerateCheck, Generated, FreshHash
  <2> QED BY <2>1 DEF UsersCharged, CallCharged
<1>6. CASE AddRead(c)
  <2>1. at'[c] \in {"idle", "add_write"} /\ users' = users /\ charged' = charged
    BY <1>6 DEF AddRead, HasRoom
  <2> QED BY <2>1 DEF UsersCharged, CallCharged
<1>7. CASE AddWrite(c)
  <2> DEFINE u == arg[c].uid
  <2>1. \/ users' = users /\ at'[c] = "idle" /\ charged' = charged
        \/ /\ u \in Uids /\ users[u] \in User /\ users[u] # None /\ at'[c] = "add_index" /\ charged' = charged
           /\ \E keys : users' = [users EXCEPT ![u] = [users[u] EXCEPT !.keys = keys]]
    BY <1>7 DEF AddWrite, UpdateUser, WithKeys
  <2>2. CASE users' = users /\ at'[c] = "idle" /\ charged' = charged
    BY <2>2 DEF UsersCharged, CallCharged
  <2>3. CASE /\ u \in Uids /\ users[u] \in User /\ users[u] # None /\ at'[c] = "add_index" /\ charged' = charged
             /\ \E keys : users' = [users EXCEPT ![u] = [users[u] EXCEPT !.keys = keys]]
    <3>1. users'[u].usage = users[u].usage /\ \A w \in Uids \ {u} : users'[w] = users[w]
      BY <2>3 DEF User
    <3> QED BY <2>3, <3>1 DEF UsersCharged, CallCharged
  <2> QED BY <2>1, <2>2, <2>3
<1>8. CASE AddIndex(c)
  <2>1. at'[c] \in {"idle"} /\ users' = users /\ charged' = charged
    BY <1>8 DEF AddIndex
  <2> QED BY <2>1 DEF UsersCharged, CallCharged
<1>9. CASE Revoke(c)
  <2>1. at'[c] \in {"revoke"} /\ users' = users /\ charged' = charged
    BY <1>9 DEF Revoke
  <2> QED BY <2>1 DEF UsersCharged, CallCharged
<1>10. CASE RevokeRead(c)
  <2>1. at'[c] \in {"idle", "rev_index"} /\ users' = users /\ charged' = charged
    BY <1>10 DEF RevokeRead, WithPrefix
  <2> QED BY <2>1 DEF UsersCharged, CallCharged
<1>11. CASE RevokeIndex(c)
  <2>1. at'[c] \in {"rev_index"} /\ users' = users /\ charged' = charged
    BY <1>11 DEF RevokeIndex, DeleteEntry
  <2> QED BY <2>1 DEF UsersCharged, CallCharged
<1>12. CASE RevokeWrite(c)
  <2> DEFINE u == arg[c].uid
  <2>1. \/ users' = users /\ at'[c] = "idle" /\ charged' = charged
        \/ /\ u \in Uids /\ users[u] \in User /\ users[u] # None /\ at'[c] = "leave" /\ charged' = charged
           /\ \E keys : users' = [users EXCEPT ![u] = [users[u] EXCEPT !.keys = keys]]
    BY <1>12 DEF RevokeWrite, UpdateUser, WithKeys
  <2>2. CASE users' = users /\ at'[c] = "idle" /\ charged' = charged
    BY <2>2 DEF UsersCharged, CallCharged
  <2>3. CASE /\ u \in Uids /\ users[u] \in User /\ users[u] # None /\ at'[c] = "leave" /\ charged' = charged
             /\ \E keys : users' = [users EXCEPT ![u] = [users[u] EXCEPT !.keys = keys]]
    <3>1. users'[u].usage = users[u].usage /\ \A w \in Uids \ {u} : users'[w] = users[w]
      BY <2>3 DEF User
    <3> QED BY <2>3, <3>1 DEF UsersCharged, CallCharged
  <2> QED BY <2>1, <2>2, <2>3
<1>13. CASE RequestWithKey(c)
  <2>1. at'[c] \in {"index"} /\ users' = users /\ charged' = charged
    BY <1>13 DEF RequestWithKey
  <2> QED BY <2>1 DEF UsersCharged, CallCharged
<1>14. CASE Poll(c)
  <2>1. at'[c] \in {"index"} /\ users' = users /\ charged' = charged
    BY <1>14 DEF Poll
  <2> QED BY <2>1 DEF UsersCharged, CallCharged
<1>15. CASE RequestWithToken(c)
  <2>1. at'[c] \in {"token"} /\ users' = users /\ charged' = charged
    BY <1>15 DEF RequestWithToken
  <2> QED BY <2>1 DEF UsersCharged, CallCharged
<1>16. CASE RequestFree(c)
  <2>1. at'[c] \in {"free"} /\ users' = users /\ charged' = charged
    BY <1>16 DEF RequestFree
  <2> QED BY <2>1 DEF UsersCharged, CallCharged
<1>17. CASE LookupIndex(c)
  <2>1. at'[c] \in {"owner", "scan"} /\ users' = users /\ charged' = charged
    BY <1>17 DEF LookupIndex
  <2> QED BY <2>1 DEF UsersCharged, CallCharged
<1>18. CASE LookupOwner(c)
  <2>1. at'[c] \in {"limit", "denied"} /\ users' = users /\ charged' = charged
    BY <1>18 DEF LookupOwner
  <2> QED BY <2>1 DEF UsersCharged, CallCharged
<1>19. CASE LookupScan(c)
  <2>1. at'[c] \in {"denied", "backfill"} /\ users' = users /\ charged' = charged
    BY <1>19 DEF LookupScan
  <2> QED BY <2>1 DEF UsersCharged, CallCharged
<1>20. CASE Backfill(c)
  <2>1. at'[c] \in {"limit"} /\ users' = users /\ charged' = charged
    BY <1>20 DEF Backfill
  <2> QED BY <2>1 DEF UsersCharged, CallCharged
<1>21. CASE LookupToken(c)
  <2>1. at'[c] \in {"limit", "free"} /\ users' = users /\ charged' = charged
    BY <1>21 DEF LookupToken
  <2> QED BY <2>1 DEF UsersCharged, CallCharged
<1>22. CASE CheckUsage(c)
  <2>1. at'[c] \in {"gone", "work", "refused"} /\ users' = users /\ charged' = charged
    BY <1>22 DEF CheckUsage
  <2> QED BY <2>1 DEF UsersCharged, CallCharged
<1>23. CASE CheckFree(c)
  <2>1. at'[c] \in {"work", "refused"} /\ users' = users /\ charged' = charged
    BY <1>23 DEF CheckFree
  <2> QED BY <2>1 DEF UsersCharged, CallCharged
<1>24. CASE Serve(c)
  <2>1. at'[c] \in {"leave", "inc_read", "ip_read"} /\ users' = users /\ charged' = charged
    BY <1>24 DEF Serve
  <2> QED BY <2>1 DEF UsersCharged, CallCharged
<1>25. CASE IncrementRead(c)
  <2> DEFINE u == arg[c].uid
             new == [users[u] EXCEPT !.usage = Raised(users[u].usage)]
  <2>1. CASE at'[c] = "idle" /\ users' = users /\ charged' = charged
    BY <2>1 DEF UsersCharged, CallCharged
  <2>2. CASE /\ users' = users /\ at'[c] = "inc_write" /\ u \in Uids /\ users[u] # None
             /\ copy'[c] = new /\ arg' = arg /\ charged' = charged
    <3>1. /\ users[u] \in User /\ users[u].usage.today \in Nat /\ users[u].usage.date \in Days
          /\ AtLeast(charged, u, users[u].usage.today, users[u].usage.date)
      BY <2>2 DEF User, Usage, UsersCharged
    <3>2. copy'[c].usage = Raised(users[u].usage)
      BY <2>2, <3>1 DEF User
    <3>3. /\ Raised(users[u].usage).date = day
          /\ Raised(users[u].usage).today = UsedToday(users[u].usage) + 1
      BY DEF Raised
    <3>4. UsedToday(users[u].usage) \in Nat /\ AtLeast(charged, u, UsedToday(users[u].usage), day)
      BY <2>2, <3>1, AccountsAssumption DEF UsedToday, AtLeast
    <3>5. /\ copy'[c].usage.today >= 1
          /\ AtLeast(charged', arg'[c].uid, copy'[c].usage.today - 1, copy'[c].usage.date)
      <4>1. copy'[c].usage.today = UsedToday(users[u].usage) + 1 /\ copy'[c].usage.date = day
        BY <3>2, <3>3
      <4>2. PICK m \in Nat : copy'[c].usage.today = m + 1 /\ AtLeast(charged, u, m, day)
        BY <3>4, <4>1
      <4>3. copy'[c].usage.today - 1 = m /\ copy'[c].usage.today >= 1
        BY <4>2
      <4> QED BY <2>2, <4>1, <4>2, <4>3 DEF AtLeast
    <3>6. UsersCharged'
      BY <2>2 DEF UsersCharged, AtLeast
    <3> QED BY <3>5, <3>6 DEF CallCharged
  <2> QED BY <1>25, <2>1, <2>2 DEF IncrementRead
<1>26. CASE IncrementWrite(c)
  <2> DEFINE u == arg[c].uid
             n == copy[c].usage.today
             d == copy[c].usage.date
  <2>1. CASE at'[c] = "idle" /\ users' = users /\ charged' = charged
    BY <2>1 DEF UsersCharged, CallCharged
  <2>2. CASE /\ u \in Uids /\ users[u] # None /\ at'[c] \in {"inc_read", "consumed"}
             /\ users' = [users EXCEPT ![u].usage = copy[c].usage]
             /\ Charge(u, d)
    <3>1. users[u] \in User /\ copy[c] \in User /\ n \in Nat /\ d \in Days
      BY <1>26, <2>2 DEF IncrementWrite, HoldsUser, User, Usage
    <3>2. n >= 1 /\ AtLeast(charged, u, n - 1, d)
      BY <1>26 DEF IncrementWrite, CallCharged
    <3>3. /\ charged' = [charged EXCEPT ![u][d] = IF BelowSome(@) THEN @ + 1 ELSE @]
          /\ charged[u][d] \in Nat /\ charged[u] \in [Days -> Nat]
      BY <2>2, <3>1 DEF Charge
    <3>4. charged'[u][d] = IF BelowSome(charged[u][d]) THEN charged[u][d] + 1 ELSE charged[u][d]
      BY <2>2, <3>1, <3>3
    <3>5. AtLeast(charged', u, n, d)
      BY <3>1, <3>2, <3>3, <3>4, AccountsAssumption, SMTT(30) DEF AtLeast
    <3>6. \A w \in Uids : users[w] # None =>
            AtLeast(charged', w, users[w].usage.today, users[w].usage.date)
      <4>1. ASSUME NEW w \in Uids, users[w] # None
            PROVE  AtLeast(charged', w, users[w].usage.today, users[w].usage.date)
        <5>1. /\ users[w].usage.today \in Nat /\ users[w].usage.date \in Days
              /\ AtLeast(charged, w, users[w].usage.today, users[w].usage.date)
          BY <4>1 DEF User, Usage, UsersCharged
        <5> QED BY <2>2, <3>1, <5>1, ChargesGrow
      <4> QED BY <4>1
    <3>7. users'[u].usage = copy[c].usage /\ \A w \in Uids \ {u} : users'[w] = users[w]
      BY <2>2, <3>1 DEF User
    <3> QED BY <2>2, <3>5, <3>6, <3>7 DEF UsersCharged, CallCharged
  <2> QED BY <1>26, <2>1, <2>2 DEF IncrementWrite, NextUnit
<1>27. CASE FreeRead(c)
  <2>1. at'[c] \in {"ip_count", "ip_reset"} /\ users' = users /\ charged' = charged
    BY <1>27 DEF FreeRead
  <2> QED BY <2>1 DEF UsersCharged, CallCharged
<1>28. CASE FreeWrite(c)
  <2>1. /\ at'[c] \in {"ip_read", "consumed"} /\ users' = users
        /\ arg[c].uid \in Addresses /\ copy[c].date \in Days /\ Charge(arg[c].uid, copy[c].date)
    BY <1>28 DEF FreeWrite, NextUnit, OfAddress, HoldsUsage, Usage
  <2>2. \A w \in Uids : users[w] # None =>
            AtLeast(charged', w, users[w].usage.today, users[w].usage.date)
    <3>1. ASSUME NEW w \in Uids, users[w] # None
          PROVE  AtLeast(charged', w, users[w].usage.today, users[w].usage.date)
      <4>1. /\ users[w].usage.today \in Nat /\ users[w].usage.date \in Days
            /\ AtLeast(charged, w, users[w].usage.today, users[w].usage.date)
        BY <3>1 DEF User, Usage, UsersCharged
      <4> QED BY <2>1, <4>1, ChargesGrow
    <3> QED BY <3>1
  <2> QED BY <2>1, <2>2 DEF UsersCharged, CallCharged
<1>29. CASE LastUsedRead(c)
  <2>1. at'[c] \in {"idle", "use_write"} /\ users' = users /\ charged' = charged
    BY <1>29 DEF LastUsedRead, WithLiveKey
  <2> QED BY <2>1 DEF UsersCharged, CallCharged
<1>30. CASE LastUsedWrite(c)
  <2> DEFINE u == arg[c].uid
  <2>1. \/ users' = users /\ at'[c] = "idle" /\ charged' = charged
        \/ /\ u \in Uids /\ users[u] \in User /\ users[u] # None /\ at'[c] = "leave" /\ charged' = charged
           /\ \E keys : users' = [users EXCEPT ![u] = [users[u] EXCEPT !.keys = keys]]
    BY <1>30 DEF LastUsedWrite, UpdateUser, WithKeys
  <2>2. CASE users' = users /\ at'[c] = "idle" /\ charged' = charged
    BY <2>2 DEF UsersCharged, CallCharged
  <2>3. CASE /\ u \in Uids /\ users[u] \in User /\ users[u] # None /\ at'[c] = "leave" /\ charged' = charged
             /\ \E keys : users' = [users EXCEPT ![u] = [users[u] EXCEPT !.keys = keys]]
    <3>1. users'[u].usage = users[u].usage /\ \A w \in Uids \ {u} : users'[w] = users[w]
      BY <2>3 DEF User
    <3> QED BY <2>3, <3>1 DEF UsersCharged, CallCharged
  <2> QED BY <2>1, <2>2, <2>3
<1>31. CASE DeleteAccount(c)
  <2>1. at'[c] \in {"del_read"} /\ users' = users /\ charged' = charged
    BY <1>31 DEF DeleteAccount
  <2> QED BY <2>1 DEF UsersCharged, CallCharged
<1>32. CASE DeleteRead(c)
  <2>1. at'[c] \in {"del_index"} /\ users' = users /\ charged' = charged
    BY <1>32 DEF DeleteRead
  <2> QED BY <2>1 DEF UsersCharged, CallCharged
<1>33. CASE DeleteIndex(c)
  <2>1. at'[c] \in {"del_index"} /\ users' = users /\ charged' = charged
    BY <1>33 DEF DeleteIndex, DeleteEntry
  <2> QED BY <2>1 DEF UsersCharged, CallCharged
<1>34. CASE DeleteUser(c)
  <2>1. PICK u \in Uids : users' = [users EXCEPT ![u] = None] /\ at'[c] = "idle" /\ charged' = charged
    BY <1>34 DEF DeleteUser
  <2> QED BY <2>1 DEF UsersCharged, CallCharged
<1>35. CASE Reply(c)
  <2>1. at'[c] \in {"idle"} /\ users' = users /\ charged' = charged
    BY <1>35 DEF Reply
  <2> QED BY <2>1 DEF UsersCharged, CallCharged
<1>36. CASE Abort(c)
  <2>1. at'[c] \in {"idle"} /\ users' = users /\ charged' = charged
    BY <1>36 DEF Abort
  <2> QED BY <2>1 DEF UsersCharged, CallCharged
<1> QED
  BY <1>1, <1>2, <1>3, <1>4, <1>5, <1>6, <1>7, <1>8, <1>9, <1>10, <1>11, <1>12, <1>13,
     <1>14, <1>15, <1>16, <1>17, <1>18, <1>19, <1>20, <1>21, <1>22, <1>23, <1>24, <1>25,
     <1>26, <1>27, <1>28, <1>29, <1>30, <1>31, <1>32, <1>33, <1>34, <1>35, <1>36 DEF
     Arrive, Keys, Request

(* A step charges nobody, or one account or address for one day. *)
LEMMA ChargedByOne ==
    ASSUME TypeInv, NEW c \in Calls,
           Arrive(c) \/ Keys(c) \/ Request(c) \/ Reply(c) \/ Abort(c)
    PROVE  \/ charged' = charged
           \/ \E o \in Uids \cup Addresses, e \in Days : Charge(o, e)
<1> USE DEF TypeInv, CallOK, Step, End, Begin, Read, storage, history, OfUser
<1>1. CASE Signup(c)
  BY <1>1 DEF Signup
<1>2. CASE SignupCheck(c)
  BY <1>2 DEF SignupCheck
<1>3. CASE create_user(c)
  BY <1>3 DEF create_user, Generated, FreshHash
<1>4. CASE Generate(c)
  BY <1>4 DEF Generate
<1>5. CASE GenerateCheck(c)
  BY <1>5 DEF GenerateCheck, Generated, FreshHash
<1>6. CASE AddRead(c)
  BY <1>6 DEF AddRead, HasRoom
<1>7. CASE AddWrite(c)
  BY <1>7 DEF AddWrite, UpdateUser
<1>8. CASE AddIndex(c)
  BY <1>8 DEF AddIndex
<1>9. CASE Revoke(c)
  BY <1>9 DEF Revoke
<1>10. CASE RevokeRead(c)
  BY <1>10 DEF RevokeRead, WithPrefix
<1>11. CASE RevokeIndex(c)
  BY <1>11 DEF RevokeIndex, DeleteEntry
<1>12. CASE RevokeWrite(c)
  BY <1>12 DEF RevokeWrite, UpdateUser
<1>13. CASE RequestWithKey(c)
  BY <1>13 DEF RequestWithKey
<1>14. CASE Poll(c)
  BY <1>14 DEF Poll
<1>15. CASE RequestWithToken(c)
  BY <1>15 DEF RequestWithToken
<1>16. CASE RequestFree(c)
  BY <1>16 DEF RequestFree
<1>17. CASE LookupIndex(c)
  BY <1>17 DEF LookupIndex
<1>18. CASE LookupOwner(c)
  BY <1>18 DEF LookupOwner
<1>19. CASE LookupScan(c)
  BY <1>19 DEF LookupScan
<1>20. CASE Backfill(c)
  BY <1>20 DEF Backfill
<1>21. CASE LookupToken(c)
  BY <1>21 DEF LookupToken
<1>22. CASE CheckUsage(c)
  BY <1>22 DEF CheckUsage
<1>23. CASE CheckFree(c)
  BY <1>23 DEF CheckFree
<1>24. CASE Serve(c)
  BY <1>24 DEF Serve
<1>25. CASE IncrementRead(c)
  BY <1>25 DEF IncrementRead
<1>26. CASE IncrementWrite(c)
  <2>1. CASE charged' = charged
    BY <2>1
  <2>2. CASE Charge(arg[c].uid, copy[c].usage.date)
    <3>1. arg[c].uid \in Uids /\ copy[c].usage.date \in Days
      BY <1>26 DEF IncrementWrite, HoldsUser, User, Usage
    <3> QED BY <2>2, <3>1
  <2> QED BY <1>26, <2>1, <2>2 DEF IncrementWrite
<1>27. CASE FreeRead(c)
  BY <1>27 DEF FreeRead
<1>28. CASE FreeWrite(c)
  <2>1. arg[c].uid \in Addresses /\ copy[c].date \in Days /\ Charge(arg[c].uid, copy[c].date)
    BY <1>28 DEF FreeWrite, OfAddress, HoldsUsage, Usage
  <2> QED BY <2>1
<1>29. CASE LastUsedRead(c)
  BY <1>29 DEF LastUsedRead, WithLiveKey
<1>30. CASE LastUsedWrite(c)
  BY <1>30 DEF LastUsedWrite, UpdateUser
<1>31. CASE DeleteAccount(c)
  BY <1>31 DEF DeleteAccount
<1>32. CASE DeleteRead(c)
  BY <1>32 DEF DeleteRead
<1>33. CASE DeleteIndex(c)
  BY <1>33 DEF DeleteIndex, DeleteEntry
<1>34. CASE DeleteUser(c)
  BY <1>34 DEF DeleteUser
<1>35. CASE Reply(c)
  BY <1>35 DEF Reply
<1>36. CASE Abort(c)
  BY <1>36 DEF Abort
<1> QED
  BY <1>1, <1>2, <1>3, <1>4, <1>5, <1>6, <1>7, <1>8, <1>9, <1>10, <1>11, <1>12, <1>13,
     <1>14, <1>15, <1>16, <1>17, <1>18, <1>19, <1>20, <1>21, <1>22, <1>23, <1>24, <1>25,
     <1>26, <1>27, <1>28, <1>29, <1>30, <1>31, <1>32, <1>33, <1>34, <1>35, <1>36 DEF
     Arrive, Keys, Request

(* Charging one call's unit takes nothing from what another counts on. *)
LEMMA OthersCharged ==
    ASSUME TypeInv, ChargedInv, NEW c \in Calls,
           Arrive(c) \/ Keys(c) \/ Request(c) \/ Reply(c) \/ Abort(c),
           NEW d \in Calls \ {c}
    PROVE  CallCharged(d)'
<1>1. at'[d] = at[d] /\ arg'[d] = arg[d] /\ copy'[d] = copy[d]
  BY CallsMove
<1>2. \/ charged' = charged
      \/ \E o \in Uids \cup Addresses, e \in Days : Charge(o, e)
  BY ChargedByOne
<1>3. CASE at[d] = "inc_write"
  <2>1. /\ arg[d].uid \in Uids /\ copy[d].usage.today \in Nat /\ copy[d].usage.date \in Days
        /\ copy[d].usage.today >= 1
        /\ AtLeast(charged, arg[d].uid, copy[d].usage.today - 1, copy[d].usage.date)
    BY <1>3 DEF TypeInv, CallOK, OfUser, HoldsUser, User, Usage, ChargedInv, CallCharged
  <2>2. copy[d].usage.today - 1 \in Int
    BY <2>1
  <2>3. AtLeast(charged', arg[d].uid, copy[d].usage.today - 1, copy[d].usage.date)
    <3>1. CASE charged' = charged
      BY <2>1, <3>1 DEF AtLeast
    <3>2. CASE \E o \in Uids \cup Addresses, e \in Days : Charge(o, e)
      BY <2>1, <2>2, <3>2, ChargesGrow
    <3> QED BY <1>2, <3>1, <3>2
  <2> QED BY <1>1, <2>1, <2>3 DEF CallCharged
<1> QED BY <1>1, <1>3 DEF CallCharged

(* RefusedMeansUsedUp: a user told that the daily limit is reached was       *)
(* charged that many units on that day; the updates that racing requests     *)
(* lose are never lost to the customer's harm.                               *)
THEOREM RefusalIsEarned == Spec => []RefusedMeansUsedUp
<1>1. Init => ChargedInv
  BY DEF Init, ChargedInv, UsersCharged, CallCharged
<1>2. TypeInv /\ ChargedInv /\ [Next]_vars => ChargedInv'
  <2> SUFFICES ASSUME TypeInv, ChargedInv, [Next]_vars
               PROVE  ChargedInv'
    OBVIOUS
  <2>1. ASSUME NEW c \in Calls,
               Arrive(c) \/ Keys(c) \/ Request(c) \/ Reply(c) \/ Abort(c)
        PROVE  ChargedInv'
    BY <2>1, ChargedKept, OthersCharged DEF ChargedInv
  <2>2. CASE Midnight
    BY <2>2 DEF Midnight, ChargedInv, UsersCharged, CallCharged, AtLeast, storage, history
  <2>3. CASE ChangeTier
    <3>1. PICK u \in Uids, t \in Tiers :
            /\ users[u] # None /\ users' = [users EXCEPT ![u].tier = t]
            /\ UNCHANGED <<at, arg, copy, charged>>
      BY <2>3 DEF ChangeTier
    <3>2. \A w \in Uids : /\ users'[w] # None => users[w] # None
                          /\ users[w] # None => users'[w].usage = users[w].usage
      BY <3>1 DEF TypeInv, TypeOK, User
    <3> QED BY <3>1, <3>2 DEF ChargedInv, UsersCharged, CallCharged, AtLeast
  <2>4. CASE UNCHANGED vars
    BY <2>4 DEF vars, ChargedInv, UsersCharged, CallCharged, AtLeast
  <2> QED BY <2>1, <2>2, <2>3, <2>4 DEF Next
<1>3. TypeInv /\ ChargedInv => RefusedMeansUsedUp
  <2> SUFFICES ASSUME TypeInv, ChargedInv, NEW u \in Uids, NEW t \in Tiers,
                      users[u] # None, UsedUp(users[u].usage, Limit[t])
               PROVE  charged[u][day] >= Limit[t]
    BY DEF RefusedMeansUsedUp
  <2>1. /\ users[u].usage.today \in Nat /\ charged[u][day] \in Nat /\ Limit[t] \in Nat
        /\ AtLeast(charged, u, users[u].usage.today, users[u].usage.date)
    BY AccountsAssumption DEF TypeInv, TypeOK, User, Usage, ChargedInv, UsersCharged
  <2>2. ~BelowSome(charged[u][day]) => charged[u][day] >= Limit[t]
    BY <2>1 DEF BelowSome
  <2> QED BY <2>1, <2>2, AccountsAssumption DEF UsedUp, UsedToday, AtLeast
<1> QED BY <1>1, <1>2, <1>3, TypeCorrect, PTL DEF Spec
=============================================================================
