---------------------------- MODULE TokenStoreProofs ----------------------------
(***************************************************************************)
(* Theorems about TokenStore, for all processes, accounts and requests and *)
(* any number of tokens.                                                   *)
(***************************************************************************)
EXTENDS TokenStore, TLAPS

-----------------------------------------------------------------------------
(* The inductive invariant *)

\* A token of the account of a process, of those that Avito has issued.
IsOwn(t, p) == t # NoToken => t.account = account[p] /\ t.id <= issued

\* What a process and its requests hold is of its account.
OwnedInv ==
    /\ file # NoToken => file.id <= issued
    /\ \A p \in Proc : IsOwn(cache[p], p) /\ IsOwn(result[p], p)
    /\ \A c \in Call : IsOwn(token[c], Home[c]) /\ IsOwn(rejected[c], Home[c])

\* Whoever fetches or writes a token holds the lease.
LeaseInv == \A p \in Proc : refresh[p] \in {"fetch", "write"} => lease = p

\* What is about to be written is the newest token.
WriteInv ==
    \A p \in Proc : refresh[p] = "write" => result[p] # NoToken /\ result[p].id = issued

\* Between the removal of the file and its end a request knows its token refused.
Invalidated(c) == rejected[c] # NoToken /\ pc[c] \notin {"rejected", "invalidating"}

\* Nobody is about to write a token that was invalidated.
NotWrittenInv ==
    \A c \in Call, p \in Proc : Invalidated(c) /\ refresh[p] = "write" => result[p] # rejected[c]

StoreInv ==
    TypeOK /\ OwnedInv /\ LeaseInv /\ WriteInv /\ NoNeedlessFetch
        /\ RejectedOffDisk /\ NotWrittenInv

-----------------------------------------------------------------------------
(* Every step keeps the invariant, one part at a time *)

\* Every step keeps the types.
LEMMA TypeStep ==
  ASSUME TypeOK, [Next]_vars
  PROVE  TypeOK'
  <1>1. ASSUME NEW c \in Call, GetToken(c) PROVE TypeOK'
    BY <1>1, TokenAssumption DEF TypeOK, Token, GetToken, Join, Goto, Asked, Usable, stored
  <1>2. ASSUME NEW c \in Call, ReadFile(c) PROVE TypeOK'
    BY <1>2, TokenAssumption DEF TypeOK, Token, ReadFile, OwnRecord, Goto, stored
  <1>3. ASSUME NEW c \in Call, UseFile(c) PROVE TypeOK'
    BY <1>3, TokenAssumption DEF TypeOK, Token, UseFile, End, Goto, Usable, stored
  <1>4. ASSUME NEW c \in Call, RefreshInstead(c) PROVE TypeOK'
    BY <1>4, TokenAssumption DEF TypeOK, Token, RefreshInstead, Join, Goto, Usable, stored
  <1>5. ASSUME NEW c \in Call, Answered(c) PROVE TypeOK'
    BY <1>5, TokenAssumption DEF TypeOK, Token, Answered, End, Goto, stored
  <1>6. ASSUME NEW c \in Call, Unauthorized(c) PROVE TypeOK'
    BY <1>6, TokenAssumption DEF TypeOK, Token, Unauthorized, End, Goto, stored
  <1>7. ASSUME NEW c \in Call, Invalidate(c) PROVE TypeOK'
    BY <1>7, TokenAssumption DEF TypeOK, Token, Invalidate, Goto, stored
  <1>8. ASSUME NEW c \in Call, RemoveFile(c) PROVE TypeOK'
    BY <1>8, TokenAssumption DEF TypeOK, Token, RemoveFile, Goto, OwnRecord, stored
  <1>9. ASSUME NEW c \in Call, RemoveFails(c) PROVE TypeOK'
    BY <1>9, TokenAssumption DEF TypeOK, Token, RemoveFails, End, Goto, stored
  <1>10. ASSUME NEW c \in Call, RefreshAfter401(c) PROVE TypeOK'
    BY <1>10, TokenAssumption DEF TypeOK, Token, RefreshAfter401, Join, Goto, stored
  <1>11. ASSUME NEW c \in Call, Deadline(c) PROVE TypeOK'
    BY <1>11, TokenAssumption DEF TypeOK, Token, Deadline, End, Goto, stored
  <1>12. ASSUME NEW p \in Proc, ReadAgain(p) PROVE TypeOK'
    BY <1>12, TokenAssumption DEF TypeOK, Token, ReadAgain, Settles, Usable, OwnRecord,
       stored
  <1>13. ASSUME NEW p \in Proc, RefreshTimesOut(p) PROVE TypeOK'
    BY <1>13, TokenAssumption DEF TypeOK, Token, RefreshTimesOut, Settles, stored
  <1>14. ASSUME NEW p \in Proc, Fetch(p) PROVE TypeOK'
    BY <1>14, TokenAssumption DEF TypeOK, Token, Fetch, stored
  <1>15. ASSUME NEW p \in Proc, FetchFails(p) PROVE TypeOK'
    BY <1>15, TokenAssumption DEF TypeOK, Token, FetchFails, Settles, stored
  <1>16. ASSUME NEW p \in Proc, WriteFile(p) PROVE TypeOK'
    BY <1>16, TokenAssumption DEF TypeOK, Token, WriteFile, stored
  <1>17. ASSUME NEW p \in Proc, Settle(p) PROVE TypeOK'
    BY <1>17, TokenAssumption DEF TypeOK, Token, Settle, Asked, Usable, stored
  <1>18. ASSUME NEW p \in Proc, Crash(p) PROVE TypeOK'
    BY <1>18, TokenAssumption DEF TypeOK, Token, Crash, stored
  <1>19. ASSUME Revoke PROVE TypeOK'
    BY <1>19, TokenAssumption DEF TypeOK, Token, Revoke, stored
  <1>20. ASSUME Expire PROVE TypeOK'
    BY <1>20, TokenAssumption DEF TypeOK, Token, Expire, stored
  <1>21. ASSUME UNCHANGED vars PROVE TypeOK'
    BY <1>21 DEF TypeOK, Token, vars
  <1> QED  BY <1>1, <1>2, <1>3, <1>4, <1>5, <1>6, <1>7, <1>8, <1>9, <1>10, <1>11, <1>12,
     <1>13, <1>14, <1>15, <1>16, <1>17, <1>18, <1>19, <1>20, <1>21 DEF Next, Progress,
     Refresh

\* Tokens stay with their account, and none is newer than the last issued.
LEMMA OwnedStep ==
  ASSUME TypeOK, OwnedInv, [Next]_vars
  PROVE  OwnedInv'
  <1>u. CASE UNCHANGED <<account, file, issued, cache, result, token, rejected>>
    BY <1>u DEF TypeOK, OwnedInv, IsOwn
  <1>1. ASSUME NEW c \in Call,
                RefreshAfter401(c)
         PROVE  OwnedInv'
    BY <1>1, <1>u DEF RefreshAfter401, stored
  <1>2. ASSUME Revoke \/ Expire
         PROVE  OwnedInv'
    BY <1>2, <1>u DEF Revoke, Expire, stored
  <1>3. ASSUME NEW c \in Call, GetToken(c) PROVE OwnedInv'
    BY <1>3, TokenAssumption DEF TypeOK, Token, OwnedInv, IsOwn, GetToken, Join, Goto,
       Asked, Usable, stored
  <1>4. ASSUME NEW c \in Call, ReadFile(c) PROVE OwnedInv'
    BY <1>4, TokenAssumption DEF TypeOK, Token, OwnedInv, IsOwn, ReadFile, OwnRecord, Goto,
       stored
  <1>5. ASSUME NEW c \in Call, UseFile(c) PROVE OwnedInv'
    BY <1>5, TokenAssumption DEF TypeOK, Token, OwnedInv, IsOwn, UseFile, End, Goto, Usable,
       stored
  <1>6. ASSUME NEW c \in Call, RefreshInstead(c) PROVE OwnedInv'
    BY <1>6, TokenAssumption DEF TypeOK, Token, OwnedInv, IsOwn, RefreshInstead, Join, Goto,
       Usable, stored
  <1>7. ASSUME NEW c \in Call, Answered(c) PROVE OwnedInv'
    BY <1>7, TokenAssumption DEF TypeOK, Token, OwnedInv, IsOwn, Answered, End, Goto, stored
  <1>8. ASSUME NEW c \in Call, Unauthorized(c) PROVE OwnedInv'
    BY <1>8, TokenAssumption DEF TypeOK, Token, OwnedInv, IsOwn, Unauthorized, End, Goto,
       stored
  <1>9. ASSUME NEW c \in Call, Invalidate(c) PROVE OwnedInv'
    BY <1>9, TokenAssumption DEF TypeOK, Token, OwnedInv, IsOwn, Invalidate, Goto, stored
  <1>10. ASSUME NEW c \in Call, RemoveFile(c) PROVE OwnedInv'
    BY <1>10, TokenAssumption DEF TypeOK, Token, OwnedInv, IsOwn, RemoveFile, Goto,
       OwnRecord, stored
  <1>11. ASSUME NEW c \in Call, RemoveFails(c) PROVE OwnedInv'
    BY <1>11, TokenAssumption DEF TypeOK, Token, OwnedInv, IsOwn, RemoveFails, End, Goto,
       stored
  <1>12. ASSUME NEW c \in Call, Deadline(c) PROVE OwnedInv'
    BY <1>12, TokenAssumption DEF TypeOK, Token, OwnedInv, IsOwn, Deadline, End, Goto,
       stored
  <1>13. ASSUME NEW p \in Proc, ReadAgain(p) PROVE OwnedInv'
    BY <1>13, TokenAssumption DEF TypeOK, Token, OwnedInv, IsOwn, ReadAgain, Settles,
       Usable, OwnRecord, stored
  <1>14. ASSUME NEW p \in Proc, RefreshTimesOut(p) PROVE OwnedInv'
    BY <1>14, TokenAssumption DEF TypeOK, Token, OwnedInv, IsOwn, RefreshTimesOut, Settles,
       stored
  <1>15. ASSUME NEW p \in Proc, Fetch(p) PROVE OwnedInv'
    BY <1>15, TokenAssumption DEF TypeOK, Token, OwnedInv, IsOwn, Fetch, stored
  <1>16. ASSUME NEW p \in Proc, FetchFails(p) PROVE OwnedInv'
    BY <1>16, TokenAssumption DEF TypeOK, Token, OwnedInv, IsOwn, FetchFails, Settles,
       stored
  <1>17. ASSUME NEW p \in Proc, WriteFile(p) PROVE OwnedInv'
    BY <1>17, TokenAssumption DEF TypeOK, Token, OwnedInv, IsOwn, WriteFile, stored
  <1>18. ASSUME NEW p \in Proc, Settle(p) PROVE OwnedInv'
    BY <1>18, TokenAssumption DEF TypeOK, Token, OwnedInv, IsOwn, Settle, Asked, Usable,
       stored
  <1>19. ASSUME NEW p \in Proc, Crash(p) PROVE OwnedInv'
    BY <1>19, TokenAssumption DEF TypeOK, Token, OwnedInv, IsOwn, Crash, stored
  <1>20. ASSUME UNCHANGED vars PROVE OwnedInv'
    BY <1>20, <1>u DEF vars
  <1> QED  BY <1>1, <1>2, <1>3, <1>4, <1>5, <1>6, <1>7, <1>8, <1>9, <1>10, <1>11, <1>12,
     <1>13, <1>14, <1>15, <1>16, <1>17, <1>18, <1>19, <1>20 DEF Next, Progress, Refresh

\* The lease is taken before a fetch and given back after the write.
LEMMA LeaseStep ==
  ASSUME TypeOK, LeaseInv, [Next]_vars
  PROVE  LeaseInv'
  <1>u. CASE UNCHANGED <<lease, refresh>>
    BY <1>u DEF LeaseInv
  <1>1. ASSUME NEW c \in Call,
                ReadFile(c) \/ UseFile(c) \/ Answered(c) \/ Unauthorized(c) \/
                 Invalidate(c) \/ RemoveFile(c) \/ RemoveFails(c) \/
                 Deadline(c)
         PROVE  LeaseInv'
    BY <1>1, <1>u DEF ReadFile, UseFile, Answered, Unauthorized, Invalidate, RemoveFile,
       RemoveFails, Deadline, stored
  <1>2. ASSUME Revoke \/ Expire
         PROVE  LeaseInv'
    BY <1>2, <1>u DEF Revoke, Expire, stored
  <1>3. ASSUME NEW c \in Call, GetToken(c) PROVE LeaseInv'
    BY <1>3, TokenAssumption DEF TypeOK, LeaseInv, GetToken, Join, Goto, stored
  <1>4. ASSUME NEW c \in Call, RefreshInstead(c) PROVE LeaseInv'
    BY <1>4, TokenAssumption DEF TypeOK, LeaseInv, RefreshInstead, Join, Goto, stored
  <1>5. ASSUME NEW c \in Call, RefreshAfter401(c) PROVE LeaseInv'
    BY <1>5, TokenAssumption DEF TypeOK, LeaseInv, RefreshAfter401, Join, Goto, stored
  <1>6. ASSUME NEW p \in Proc, ReadAgain(p) PROVE LeaseInv'
    BY <1>6, TokenAssumption DEF TypeOK, LeaseInv, ReadAgain, Settles, stored
  <1>7. ASSUME NEW p \in Proc, RefreshTimesOut(p) PROVE LeaseInv'
    BY <1>7, TokenAssumption DEF TypeOK, LeaseInv, RefreshTimesOut, Settles, stored
  <1>8. ASSUME NEW p \in Proc, Fetch(p) PROVE LeaseInv'
    BY <1>8, TokenAssumption DEF TypeOK, LeaseInv, Fetch, stored
  <1>9. ASSUME NEW p \in Proc, FetchFails(p) PROVE LeaseInv'
    BY <1>9, TokenAssumption DEF TypeOK, LeaseInv, FetchFails, Settles, stored
  <1>10. ASSUME NEW p \in Proc, WriteFile(p) PROVE LeaseInv'
    BY <1>10, TokenAssumption DEF TypeOK, LeaseInv, WriteFile, stored
  <1>11. ASSUME NEW p \in Proc, Settle(p) PROVE LeaseInv'
    BY <1>11, TokenAssumption DEF TypeOK, LeaseInv, Settle, stored
  <1>12. ASSUME NEW p \in Proc, Crash(p) PROVE LeaseInv'
    BY <1>12, TokenAssumption DEF TypeOK, LeaseInv, Crash, stored
  <1>13. ASSUME UNCHANGED vars PROVE LeaseInv'
    BY <1>13, <1>u DEF vars
  <1> QED  BY <1>1, <1>2, <1>3, <1>4, <1>5, <1>6, <1>7, <1>8, <1>9, <1>10, <1>11, <1>12,
     <1>13 DEF Next, Progress, Refresh

\* No token is issued while another is written.
LEMMA WriteStep ==
  ASSUME TypeOK, LeaseInv, WriteInv, [Next]_vars
  PROVE  WriteInv'
  <1>u. CASE UNCHANGED <<issued, refresh, result>>
    BY <1>u DEF WriteInv
  <1>1. ASSUME NEW c \in Call,
                ReadFile(c) \/ UseFile(c) \/ Answered(c) \/ Unauthorized(c) \/
                 Invalidate(c) \/ RemoveFile(c) \/ RemoveFails(c) \/
                 Deadline(c)
         PROVE  WriteInv'
    BY <1>1, <1>u DEF ReadFile, UseFile, Answered, Unauthorized, Invalidate, RemoveFile,
       RemoveFails, Deadline, stored
  <1>2. ASSUME Revoke \/ Expire
         PROVE  WriteInv'
    BY <1>2, <1>u DEF Revoke, Expire, stored
  <1>3. ASSUME NEW c \in Call, GetToken(c) PROVE WriteInv'
    BY <1>3, TokenAssumption DEF TypeOK, Token, LeaseInv, WriteInv, GetToken, Join, Goto,
       stored
  <1>4. ASSUME NEW c \in Call, RefreshInstead(c) PROVE WriteInv'
    BY <1>4, TokenAssumption DEF TypeOK, Token, LeaseInv, WriteInv, RefreshInstead, Join,
       Goto, stored
  <1>5. ASSUME NEW c \in Call, RefreshAfter401(c) PROVE WriteInv'
    BY <1>5, TokenAssumption DEF TypeOK, Token, LeaseInv, WriteInv, RefreshAfter401, Join,
       Goto, stored
  <1>6. ASSUME NEW p \in Proc, ReadAgain(p) PROVE WriteInv'
    BY <1>6, TokenAssumption DEF TypeOK, Token, LeaseInv, WriteInv, ReadAgain, Settles,
       stored
  <1>7. ASSUME NEW p \in Proc, RefreshTimesOut(p) PROVE WriteInv'
    BY <1>7, TokenAssumption DEF TypeOK, Token, LeaseInv, WriteInv, RefreshTimesOut,
       Settles, stored
  <1>8. ASSUME NEW p \in Proc, Fetch(p) PROVE WriteInv'
    BY <1>8, TokenAssumption DEF TypeOK, Token, LeaseInv, WriteInv, Fetch, stored
  <1>9. ASSUME NEW p \in Proc, FetchFails(p) PROVE WriteInv'
    BY <1>9, TokenAssumption DEF TypeOK, Token, LeaseInv, WriteInv, FetchFails, Settles,
       stored
  <1>10. ASSUME NEW p \in Proc, WriteFile(p) PROVE WriteInv'
    BY <1>10, TokenAssumption DEF TypeOK, Token, LeaseInv, WriteInv, WriteFile, stored
  <1>11. ASSUME NEW p \in Proc, Settle(p) PROVE WriteInv'
    BY <1>11, TokenAssumption DEF TypeOK, Token, LeaseInv, WriteInv, Settle, stored
  <1>12. ASSUME NEW p \in Proc, Crash(p) PROVE WriteInv'
    BY <1>12, TokenAssumption DEF TypeOK, Token, LeaseInv, WriteInv, Crash, stored
  <1>13. ASSUME UNCHANGED vars PROVE WriteInv'
    BY <1>13, <1>u DEF vars
  <1> QED  BY <1>1, <1>2, <1>3, <1>4, <1>5, <1>6, <1>7, <1>8, <1>9, <1>10, <1>11, <1>12,
     <1>13 DEF Next, Progress, Refresh

\* No token comes to the file while one is fetched.
LEMMA FetchStep ==
  ASSUME TypeOK, LeaseInv, NoNeedlessFetch, [Next]_vars
  PROVE  NoNeedlessFetch'
  <1>u. CASE UNCHANGED <<account, file, expired, refresh>>
    BY <1>u DEF NoNeedlessFetch, Usable, OwnRecord
  <1>1. ASSUME NEW c \in Call,
                ReadFile(c) \/ UseFile(c) \/ Answered(c) \/ Unauthorized(c) \/
                 Invalidate(c) \/ RemoveFails(c) \/ Deadline(c)
         PROVE  NoNeedlessFetch'
    BY <1>1, <1>u DEF ReadFile, UseFile, Answered, Unauthorized, Invalidate, RemoveFails,
       Deadline, stored
  <1>2. ASSUME Revoke
         PROVE  NoNeedlessFetch'
    BY <1>2, <1>u DEF Revoke, stored
  <1>3. ASSUME NEW c \in Call, GetToken(c) PROVE NoNeedlessFetch'
    BY <1>3, TokenAssumption DEF TypeOK, LeaseInv, NoNeedlessFetch, Usable, OwnRecord,
       GetToken, Join, Goto, stored
  <1>4. ASSUME NEW c \in Call, RefreshInstead(c) PROVE NoNeedlessFetch'
    BY <1>4, TokenAssumption DEF TypeOK, LeaseInv, NoNeedlessFetch, Usable, OwnRecord,
       RefreshInstead, Join, Goto, stored
  <1>5. ASSUME NEW c \in Call, RemoveFile(c) PROVE NoNeedlessFetch'
    BY <1>5, TokenAssumption DEF TypeOK, LeaseInv, NoNeedlessFetch, Usable, OwnRecord,
       RemoveFile, Goto, stored
  <1>6. ASSUME NEW c \in Call, RefreshAfter401(c) PROVE NoNeedlessFetch'
    BY <1>6, TokenAssumption DEF TypeOK, LeaseInv, NoNeedlessFetch, Usable, OwnRecord,
       RefreshAfter401, Join, Goto, stored
  <1>7. ASSUME NEW p \in Proc, ReadAgain(p) PROVE NoNeedlessFetch'
    BY <1>7, TokenAssumption DEF TypeOK, LeaseInv, NoNeedlessFetch, Usable, OwnRecord,
       ReadAgain, Settles, stored
  <1>8. ASSUME NEW p \in Proc, RefreshTimesOut(p) PROVE NoNeedlessFetch'
    BY <1>8, TokenAssumption DEF TypeOK, LeaseInv, NoNeedlessFetch, Usable, OwnRecord,
       RefreshTimesOut, Settles, stored
  <1>9. ASSUME NEW p \in Proc, Fetch(p) PROVE NoNeedlessFetch'
    BY <1>9, TokenAssumption DEF TypeOK, LeaseInv, NoNeedlessFetch, Usable, OwnRecord,
       Fetch, stored
  <1>10. ASSUME NEW p \in Proc, FetchFails(p) PROVE NoNeedlessFetch'
    BY <1>10, TokenAssumption DEF TypeOK, LeaseInv, NoNeedlessFetch, Usable, OwnRecord,
       FetchFails, Settles, stored
  <1>11. ASSUME NEW p \in Proc, WriteFile(p) PROVE NoNeedlessFetch'
    BY <1>11, TokenAssumption DEF TypeOK, LeaseInv, NoNeedlessFetch, Usable, OwnRecord,
       WriteFile, stored
  <1>12. ASSUME NEW p \in Proc, Settle(p) PROVE NoNeedlessFetch'
    BY <1>12, TokenAssumption DEF TypeOK, LeaseInv, NoNeedlessFetch, Usable, OwnRecord,
       Settle, stored
  <1>13. ASSUME NEW p \in Proc, Crash(p) PROVE NoNeedlessFetch'
    BY <1>13, TokenAssumption DEF TypeOK, LeaseInv, NoNeedlessFetch, Usable, OwnRecord,
       Crash, stored
  <1>14. ASSUME Expire PROVE NoNeedlessFetch'
    BY <1>14, TokenAssumption DEF TypeOK, LeaseInv, NoNeedlessFetch, Usable, OwnRecord,
       Expire, stored
  <1>15. ASSUME UNCHANGED vars PROVE NoNeedlessFetch'
    BY <1>15, <1>u DEF vars
  <1> QED  BY <1>1, <1>2, <1>3, <1>4, <1>5, <1>6, <1>7, <1>8, <1>9, <1>10, <1>11, <1>12,
     <1>13, <1>14, <1>15 DEF Next, Progress, Refresh

\* Nobody brings an invalidated token back to the file.
LEMMA OffDiskStep ==
  ASSUME StoreInv, [Next]_vars
  PROVE  RejectedOffDisk'
  <1>u. CASE UNCHANGED <<file, pc, rejected>>
    BY <1>u DEF StoreInv, RejectedOffDisk
  <1>1. ASSUME NEW p \in Proc,
                ReadAgain(p) \/ RefreshTimesOut(p) \/ Fetch(p) \/
                 FetchFails(p)
         PROVE  RejectedOffDisk'
    BY <1>1, <1>u DEF ReadAgain, RefreshTimesOut, Fetch, FetchFails, stored, Settles
  <1>2. ASSUME Revoke \/ Expire
         PROVE  RejectedOffDisk'
    BY <1>2, <1>u DEF Revoke, Expire, stored
  <1>3. ASSUME NEW c \in Call, GetToken(c) PROVE RejectedOffDisk'
    BY <1>3, TokenAssumption DEF StoreInv, TypeOK, OwnedInv, IsOwn, NotWrittenInv,
       Invalidated, RejectedOffDisk, GetToken, Join, Goto, Asked, Usable, stored
  <1>4. ASSUME NEW c \in Call, ReadFile(c) PROVE RejectedOffDisk'
    BY <1>4, TokenAssumption DEF StoreInv, TypeOK, OwnedInv, IsOwn, NotWrittenInv,
       Invalidated, RejectedOffDisk, ReadFile, OwnRecord, Goto, stored
  <1>5. ASSUME NEW c \in Call, UseFile(c) PROVE RejectedOffDisk'
    BY <1>5, TokenAssumption DEF StoreInv, TypeOK, OwnedInv, IsOwn, NotWrittenInv,
       Invalidated, RejectedOffDisk, UseFile, End, Goto, Usable, stored
  <1>6. ASSUME NEW c \in Call, RefreshInstead(c) PROVE RejectedOffDisk'
    BY <1>6, TokenAssumption DEF StoreInv, TypeOK, OwnedInv, IsOwn, NotWrittenInv,
       Invalidated, RejectedOffDisk, RefreshInstead, Join, Goto, Usable, stored
  <1>7. ASSUME NEW c \in Call, Answered(c) PROVE RejectedOffDisk'
    BY <1>7, TokenAssumption DEF StoreInv, TypeOK, OwnedInv, IsOwn, NotWrittenInv,
       Invalidated, RejectedOffDisk, Answered, End, Goto, stored
  <1>8. ASSUME NEW c \in Call, Unauthorized(c) PROVE RejectedOffDisk'
    BY <1>8, TokenAssumption DEF StoreInv, TypeOK, OwnedInv, IsOwn, NotWrittenInv,
       Invalidated, RejectedOffDisk, Unauthorized, End, Goto, stored
  <1>9. ASSUME NEW c \in Call, Invalidate(c) PROVE RejectedOffDisk'
    BY <1>9, TokenAssumption DEF StoreInv, TypeOK, OwnedInv, IsOwn, NotWrittenInv,
       Invalidated, RejectedOffDisk, Invalidate, Goto, stored
  <1>10. ASSUME NEW c \in Call, RemoveFile(c) PROVE RejectedOffDisk'
    BY <1>10, TokenAssumption DEF StoreInv, TypeOK, OwnedInv, IsOwn, NotWrittenInv,
       Invalidated, RejectedOffDisk, RemoveFile, Goto, OwnRecord, stored
  <1>11. ASSUME NEW c \in Call, RemoveFails(c) PROVE RejectedOffDisk'
    BY <1>11, TokenAssumption DEF StoreInv, TypeOK, OwnedInv, IsOwn, NotWrittenInv,
       Invalidated, RejectedOffDisk, RemoveFails, End, Goto, stored
  <1>12. ASSUME NEW c \in Call, RefreshAfter401(c) PROVE RejectedOffDisk'
    BY <1>12, TokenAssumption DEF StoreInv, TypeOK, OwnedInv, IsOwn, NotWrittenInv,
       Invalidated, RejectedOffDisk, RefreshAfter401, Join, Goto, stored
  <1>13. ASSUME NEW c \in Call, Deadline(c) PROVE RejectedOffDisk'
    BY <1>13, TokenAssumption DEF StoreInv, TypeOK, OwnedInv, IsOwn, NotWrittenInv,
       Invalidated, RejectedOffDisk, Deadline, End, Goto, stored
  <1>14. ASSUME NEW p \in Proc, WriteFile(p) PROVE RejectedOffDisk'
    BY <1>14, TokenAssumption DEF StoreInv, TypeOK, OwnedInv, IsOwn, NotWrittenInv,
       Invalidated, RejectedOffDisk, WriteFile, stored
  <1>15. ASSUME NEW p \in Proc, Settle(p) PROVE RejectedOffDisk'
    BY <1>15, TokenAssumption DEF StoreInv, TypeOK, OwnedInv, IsOwn, NotWrittenInv,
       Invalidated, RejectedOffDisk, Settle, Asked, Usable, stored
  <1>16. ASSUME NEW p \in Proc, Crash(p) PROVE RejectedOffDisk'
    BY <1>16, TokenAssumption DEF StoreInv, TypeOK, OwnedInv, IsOwn, NotWrittenInv,
       Invalidated, RejectedOffDisk, Crash, stored
  <1>17. ASSUME UNCHANGED vars PROVE RejectedOffDisk'
    BY <1>17, <1>u DEF vars
  <1> QED  BY <1>1, <1>2, <1>3, <1>4, <1>5, <1>6, <1>7, <1>8, <1>9, <1>10, <1>11, <1>12,
     <1>13, <1>14, <1>15, <1>16, <1>17 DEF Next, Progress, Refresh

\* A token that is fetched is newer than those that were invalidated.
LEMMA NotWrittenStep ==
  ASSUME StoreInv, [Next]_vars
  PROVE  NotWrittenInv'
  <1>u. CASE UNCHANGED <<pc, refresh, result, rejected>>
    BY <1>u DEF StoreInv, NotWrittenInv, Invalidated
  <1>1. ASSUME Revoke \/ Expire
         PROVE  NotWrittenInv'
    BY <1>1, <1>u DEF Revoke, Expire, stored
  <1>2. ASSUME NEW c \in Call, GetToken(c) PROVE NotWrittenInv'
    BY <1>2, TokenAssumption DEF StoreInv, TypeOK, Token, OwnedInv, IsOwn, LeaseInv,
       NotWrittenInv, Invalidated, GetToken, Join, Goto, Asked, Usable, stored
  <1>3. ASSUME NEW c \in Call, ReadFile(c) PROVE NotWrittenInv'
    BY <1>3, TokenAssumption DEF StoreInv, TypeOK, Token, OwnedInv, IsOwn, LeaseInv,
       NotWrittenInv, Invalidated, ReadFile, OwnRecord, Goto, stored
  <1>4. ASSUME NEW c \in Call, UseFile(c) PROVE NotWrittenInv'
    BY <1>4, TokenAssumption DEF StoreInv, TypeOK, Token, OwnedInv, IsOwn, LeaseInv,
       NotWrittenInv, Invalidated, UseFile, End, Goto, Usable, stored
  <1>5. ASSUME NEW c \in Call, RefreshInstead(c) PROVE NotWrittenInv'
    BY <1>5, TokenAssumption DEF StoreInv, TypeOK, Token, OwnedInv, IsOwn, LeaseInv,
       NotWrittenInv, Invalidated, RefreshInstead, Join, Goto, Usable, stored
  <1>6. ASSUME NEW c \in Call, Answered(c) PROVE NotWrittenInv'
    BY <1>6, TokenAssumption DEF StoreInv, TypeOK, Token, OwnedInv, IsOwn, LeaseInv,
       NotWrittenInv, Invalidated, Answered, End, Goto, stored
  <1>7. ASSUME NEW c \in Call, Unauthorized(c) PROVE NotWrittenInv'
    BY <1>7, TokenAssumption DEF StoreInv, TypeOK, Token, OwnedInv, IsOwn, LeaseInv,
       NotWrittenInv, Invalidated, Unauthorized, End, Goto, stored
  <1>8. ASSUME NEW c \in Call, Invalidate(c) PROVE NotWrittenInv'
    BY <1>8, TokenAssumption DEF StoreInv, TypeOK, Token, OwnedInv, IsOwn, LeaseInv,
       NotWrittenInv, Invalidated, Invalidate, Goto, stored
  <1>9. ASSUME NEW c \in Call, RemoveFile(c) PROVE NotWrittenInv'
    BY <1>9, TokenAssumption DEF StoreInv, TypeOK, Token, OwnedInv, IsOwn, LeaseInv,
       NotWrittenInv, Invalidated, RemoveFile, Goto, OwnRecord, stored
  <1>10. ASSUME NEW c \in Call, RemoveFails(c) PROVE NotWrittenInv'
    BY <1>10, TokenAssumption DEF StoreInv, TypeOK, Token, OwnedInv, IsOwn, LeaseInv,
       NotWrittenInv, Invalidated, RemoveFails, End, Goto, stored
  <1>11. ASSUME NEW c \in Call, RefreshAfter401(c) PROVE NotWrittenInv'
    BY <1>11, TokenAssumption DEF StoreInv, TypeOK, Token, OwnedInv, IsOwn, LeaseInv,
       NotWrittenInv, Invalidated, RefreshAfter401, Join, Goto, stored
  <1>12. ASSUME NEW c \in Call, Deadline(c) PROVE NotWrittenInv'
    BY <1>12, TokenAssumption DEF StoreInv, TypeOK, Token, OwnedInv, IsOwn, LeaseInv,
       NotWrittenInv, Invalidated, Deadline, End, Goto, stored
  <1>13. ASSUME NEW p \in Proc, ReadAgain(p) PROVE NotWrittenInv'
    BY <1>13, TokenAssumption DEF StoreInv, TypeOK, Token, OwnedInv, IsOwn, LeaseInv,
       NotWrittenInv, Invalidated, ReadAgain, Settles, Usable, OwnRecord, stored
  <1>14. ASSUME NEW p \in Proc, RefreshTimesOut(p) PROVE NotWrittenInv'
    BY <1>14, TokenAssumption DEF StoreInv, TypeOK, Token, OwnedInv, IsOwn, LeaseInv,
       NotWrittenInv, Invalidated, RefreshTimesOut, Settles, stored
  <1>15. ASSUME NEW p \in Proc, Fetch(p) PROVE NotWrittenInv'
    BY <1>15, TokenAssumption DEF StoreInv, TypeOK, Token, OwnedInv, IsOwn, LeaseInv,
       NotWrittenInv, Invalidated, Fetch, stored
  <1>16. ASSUME NEW p \in Proc, FetchFails(p) PROVE NotWrittenInv'
    BY <1>16, TokenAssumption DEF StoreInv, TypeOK, Token, OwnedInv, IsOwn, LeaseInv,
       NotWrittenInv, Invalidated, FetchFails, Settles, stored
  <1>17. ASSUME NEW p \in Proc, WriteFile(p) PROVE NotWrittenInv'
    BY <1>17, TokenAssumption DEF StoreInv, TypeOK, Token, OwnedInv, IsOwn, LeaseInv,
       NotWrittenInv, Invalidated, WriteFile, stored
  <1>18. ASSUME NEW p \in Proc, Settle(p) PROVE NotWrittenInv'
    BY <1>18, TokenAssumption DEF StoreInv, TypeOK, Token, OwnedInv, IsOwn, LeaseInv,
       NotWrittenInv, Invalidated, Settle, Asked, Usable, stored
  <1>19. ASSUME NEW p \in Proc, Crash(p) PROVE NotWrittenInv'
    BY <1>19, TokenAssumption DEF StoreInv, TypeOK, Token, OwnedInv, IsOwn, LeaseInv,
       NotWrittenInv, Invalidated, Crash, stored
  <1>20. ASSUME UNCHANGED vars PROVE NotWrittenInv'
    BY <1>20, <1>u DEF vars
  <1> QED  BY <1>1, <1>2, <1>3, <1>4, <1>5, <1>6, <1>7, <1>8, <1>9, <1>10, <1>11, <1>12,
     <1>13, <1>14, <1>15, <1>16, <1>17, <1>18, <1>19, <1>20 DEF Next, Progress, Refresh

\* A refresh that ends leaves nobody waiting.
LEMMA WaitStep ==
  ASSUME TypeOK, NobodyWaitsInVain, [Next]_vars
  PROVE  NobodyWaitsInVain'
  <1>u. CASE UNCHANGED <<pc, refresh>>
    BY <1>u DEF NobodyWaitsInVain
  <1>1. ASSUME Revoke \/ Expire
         PROVE  NobodyWaitsInVain'
    BY <1>1, <1>u DEF Revoke, Expire, stored
  <1>2. ASSUME NEW c \in Call, GetToken(c) PROVE NobodyWaitsInVain'
    <2>1. Home[c] \in Proc
      BY TokenAssumption
    <2>2. CASE Asked(Home[c]) = "joined"
      <3>1. refresh'[Home[c]] # "none" /\ \A p \in Proc : refresh[p] # "none" => refresh'[p] # "none"
        BY <1>2, <2>1, <2>2 DEF TypeOK, GetToken, Join
      <3>2. \A d \in Call : d # c => pc'[d] = pc[d]
        BY <1>2 DEF TypeOK, GetToken, Goto
      <3> QED  BY <3>1, <3>2, TokenAssumption DEF NobodyWaitsInVain
    <2>3. CASE Asked(Home[c]) # "joined"
      <3>1. Asked(Home[c]) \in {"send", "read"}
        BY <2>3 DEF Asked
      <3> QED  BY <1>2, <2>3, <3>1 DEF TypeOK, NobodyWaitsInVain, GetToken, Goto
    <2> QED  BY <2>2, <2>3
  <1>3. ASSUME NEW c \in Call, ReadFile(c) PROVE NobodyWaitsInVain'
    BY <1>3, TokenAssumption DEF TypeOK, NobodyWaitsInVain, ReadFile, Goto, stored
  <1>4. ASSUME NEW c \in Call, UseFile(c) PROVE NobodyWaitsInVain'
    BY <1>4, TokenAssumption DEF TypeOK, NobodyWaitsInVain, UseFile, End, Goto, stored
  <1>5. ASSUME NEW c \in Call, RefreshInstead(c) PROVE NobodyWaitsInVain'
    BY <1>5, TokenAssumption DEF TypeOK, NobodyWaitsInVain, RefreshInstead, Join, Goto,
       stored
  <1>6. ASSUME NEW c \in Call, Answered(c) PROVE NobodyWaitsInVain'
    BY <1>6, TokenAssumption DEF TypeOK, NobodyWaitsInVain, Answered, End, Goto, stored
  <1>7. ASSUME NEW c \in Call, Unauthorized(c) PROVE NobodyWaitsInVain'
    BY <1>7, TokenAssumption DEF TypeOK, NobodyWaitsInVain, Unauthorized, End, Goto, stored
  <1>8. ASSUME NEW c \in Call, Invalidate(c) PROVE NobodyWaitsInVain'
    BY <1>8, TokenAssumption DEF TypeOK, NobodyWaitsInVain, Invalidate, Goto, stored
  <1>9. ASSUME NEW c \in Call, RemoveFile(c) PROVE NobodyWaitsInVain'
    BY <1>9, TokenAssumption DEF TypeOK, NobodyWaitsInVain, RemoveFile, Goto, stored
  <1>10. ASSUME NEW c \in Call, RemoveFails(c) PROVE NobodyWaitsInVain'
    BY <1>10, TokenAssumption DEF TypeOK, NobodyWaitsInVain, RemoveFails, End, Goto, stored
  <1>11. ASSUME NEW c \in Call, RefreshAfter401(c) PROVE NobodyWaitsInVain'
    BY <1>11, TokenAssumption DEF TypeOK, NobodyWaitsInVain, RefreshAfter401, Join, Goto,
       stored
  <1>12. ASSUME NEW c \in Call, Deadline(c) PROVE NobodyWaitsInVain'
    BY <1>12, TokenAssumption DEF TypeOK, NobodyWaitsInVain, Deadline, End, Goto, stored
  <1>13. ASSUME NEW p \in Proc, ReadAgain(p) PROVE NobodyWaitsInVain'
    BY <1>13, TokenAssumption DEF TypeOK, NobodyWaitsInVain, ReadAgain, Settles, stored
  <1>14. ASSUME NEW p \in Proc, RefreshTimesOut(p) PROVE NobodyWaitsInVain'
    BY <1>14, TokenAssumption DEF TypeOK, NobodyWaitsInVain, RefreshTimesOut, Settles,
       stored
  <1>15. ASSUME NEW p \in Proc, Fetch(p) PROVE NobodyWaitsInVain'
    BY <1>15, TokenAssumption DEF TypeOK, NobodyWaitsInVain, Fetch, stored
  <1>16. ASSUME NEW p \in Proc, FetchFails(p) PROVE NobodyWaitsInVain'
    BY <1>16, TokenAssumption DEF TypeOK, NobodyWaitsInVain, FetchFails, Settles, stored
  <1>17. ASSUME NEW p \in Proc, WriteFile(p) PROVE NobodyWaitsInVain'
    BY <1>17, TokenAssumption DEF TypeOK, NobodyWaitsInVain, WriteFile, stored
  <1>18. ASSUME NEW p \in Proc, Settle(p) PROVE NobodyWaitsInVain'
    BY <1>18, TokenAssumption DEF TypeOK, NobodyWaitsInVain, Settle, Asked, stored
  <1>19. ASSUME NEW p \in Proc, Crash(p) PROVE NobodyWaitsInVain'
    BY <1>19, TokenAssumption DEF TypeOK, NobodyWaitsInVain, Crash, stored
  <1>20. ASSUME UNCHANGED vars PROVE NobodyWaitsInVain'
    BY <1>20, <1>u DEF vars
  <1> QED  BY <1>1, <1>2, <1>3, <1>4, <1>5, <1>6, <1>7, <1>8, <1>9, <1>10, <1>11, <1>12,
     <1>13, <1>14, <1>15, <1>16, <1>17, <1>18, <1>19, <1>20 DEF Next, Progress, Refresh

-----------------------------------------------------------------------------
(* The initial states *)

\* The invariant holds at the start: nothing is in flight, and a file that an
\* earlier run left has the only token.
LEMMA StoreInit == Init => StoreInv
  <1> SUFFICES ASSUME Init PROVE StoreInv
    OBVIOUS
  <1>1. file \in Token \cup {NoToken} /\ issued \in 0 .. MaxTokens
    BY TokenAssumption DEF Init, Token
  <1>2. TypeOK
    BY <1>1 DEF Init, TypeOK
  <1>3. OwnedInv
    BY TokenAssumption DEF Init, OwnedInv, IsOwn
  <1>4. LeaseInv /\ WriteInv /\ NoNeedlessFetch
    BY DEF Init, LeaseInv, WriteInv, NoNeedlessFetch
  <1>5. RejectedOffDisk /\ NotWrittenInv
    BY DEF Init, RejectedOffDisk, NotWrittenInv, Invalidated
  <1> QED  BY <1>2, <1>3, <1>4, <1>5 DEF StoreInv

-----------------------------------------------------------------------------
(* Theorems *)

\* The inductive invariant: who fetches or writes holds the lease, and what it
\* writes is the newest token and one that no request has invalidated
\* (token-store.ts:125-199).
THEOREM StoreInvariant == Spec => []StoreInv
  <1>1. StoreInv /\ [Next]_vars => StoreInv'
    BY TypeStep, OwnedStep, LeaseStep, WriteStep, FetchStep, OffDiskStep, NotWrittenStep
    DEF StoreInv
  <1> QED  BY StoreInit, <1>1, PTL DEF Spec

\* Every variable of the store and its requests keeps its type.
THEOREM TokenTypeCorrect == Spec => []TypeOK
  <1>1. StoreInv => TypeOK
    BY DEF StoreInv
  <1> QED  BY StoreInvariant, <1>1, PTL

\* Avito is asked for a token only while the file has none to offer
\* (token-store.ts:154-162).
THEOREM FetchesWhenNeeded == Spec => []NoNeedlessFetch
  <1>1. StoreInv => NoNeedlessFetch
    BY DEF StoreInv
  <1> QED  BY StoreInvariant, <1>1, PTL

\* A process sends the tokens of its own account (token-store.ts:205-222).
THEOREM AlwaysApart == Spec => []AccountsApart
  <1>1. StoreInv => AccountsApart
    BY DEF StoreInv, OwnedInv, IsOwn, AccountsApart
  <1> QED  BY StoreInvariant, <1>1, PTL

\* A token that a request has invalidated does not come back to the file while
\* the request goes on (token-store.ts:120-124).
THEOREM AlwaysOffDisk == Spec => []RejectedOffDisk
  <1>1. StoreInv => RejectedOffDisk
    BY DEF StoreInv
  <1> QED  BY StoreInvariant, <1>1, PTL

\* What is written to the file is the newest of all tokens
\* (token-store.ts:181-190).
THEOREM AlwaysNewest == Spec => WritesNewest
  <1> DEFINE Newest == file' \notin {file, NoToken} => file'.id = issued
  <1>1. StoreInv /\ [Next]_vars => [Newest]_vars
    <2> SUFFICES ASSUME StoreInv, [Next]_vars PROVE Newest
      OBVIOUS
    <2>1. CASE file' \in {file, NoToken}
      BY <2>1
    <2>2. ASSUME NEW p \in Proc, WriteFile(p) PROVE Newest
      BY <2>2 DEF WriteFile, StoreInv, WriteInv
    <2>3. ASSUME NEW c \in Call, GetToken(c) \/ Progress(c) \/ Deadline(c)
          PROVE  file' \in {file, NoToken}
      BY <2>3 DEF Progress, GetToken, Deadline, ReadFile, UseFile, RefreshInstead, Answered,
         Unauthorized, Invalidate, RemoveFile, RemoveFails, RefreshAfter401, stored
    <2>4. ASSUME NEW p \in Proc,
                 ReadAgain(p) \/ RefreshTimesOut(p) \/ Fetch(p) \/ FetchFails(p) \/
                 Settle(p) \/ Crash(p)
          PROVE  file' \in {file, NoToken}
      BY <2>4 DEF ReadAgain, RefreshTimesOut, Fetch, FetchFails, Settle, Crash, stored
    <2>5. ASSUME Revoke \/ Expire \/ UNCHANGED vars PROVE file' \in {file, NoToken}
      BY <2>5 DEF Revoke, Expire, vars
    <2> QED  BY <2>1, <2>2, <2>3, <2>4, <2>5 DEF Next, Refresh
  <1> QED  BY StoreInvariant, <1>1, PTL DEF Spec, WritesNewest

\* Who waits for the shared refresh waits for one that is in flight
\* (token-store.ts:163-199).
THEOREM AlwaysServed == Spec => []NobodyWaitsInVain
  <1>1. Init => NobodyWaitsInVain
    BY DEF Init, NobodyWaitsInVain
  <1>2. TypeOK /\ NobodyWaitsInVain /\ [Next]_vars => NobodyWaitsInVain'
    BY WaitStep
  <1> QED  BY TokenTypeCorrect, <1>1, <1>2, PTL DEF Spec
=============================================================================
