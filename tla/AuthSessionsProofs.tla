------------------------- MODULE AuthSessionsProofs -------------------------
(***************************************************************************)
(* Proofs about AuthSessions, for any number of accounts, passwords and    *)
(* requests.  One lemma per part of the inductive invariant IndInv says    *)
(* that every step preserves it, with one case per statement of the code;  *)
(* the theorems follow from IndInv.                                        *)
(***************************************************************************)
EXTENDS AuthSessionsInv, TLAPS

-----------------------------------------------------------------------------
(* Types, and the shape of a request on its way *)

\* Every step leaves every variable in its type.
LEMMA TypeStep ==
  ASSUME TypeOK, [Next]_vars
  PROVE  TypeOK'
<1> USE DEF TypeOK, Id, Op, Answer, Running, InTransaction, tables, payload
<1>1. ASSUME NEW r \in Req, Request(r) PROVE TypeOK'
  BY <1>1 DEF Request, Arrive, Register, Login, Refresh, Logout,
     ForgotPassword, ResetPassword, Answered, SessionsOf, Redeemable,
     LinksOf
<1>2. ASSUME NEW r \in Req, InsertUser(r) PROVE TypeOK'
  BY <1>2 DEF InsertUser, Go, Deny
<1>3. ASSUME NEW r \in Req, FindUser(r) PROVE TypeOK'
  BY <1>3 DEF FindUser, Go, Deny
<1>4. ASSUME NEW r \in Req, FindSession(r) PROVE TypeOK'
  BY <1>4 DEF FindSession, Go, Deny
<1>5. ASSUME NEW r \in Req, Rotate(r) PROVE TypeOK'
  BY <1>5 DEF Rotate, Go
<1>6. ASSUME NEW r \in Req, Mint(r) PROVE TypeOK'
  BY <1>6 DEF Mint, Go
<1>7. ASSUME NEW r \in Req, Drop(r) PROVE TypeOK'
  BY <1>7 DEF Drop, Go, Deny
<1>8. ASSUME NEW r \in Req, FindEmail(r) PROVE TypeOK'
  BY <1>8 DEF FindEmail, Go
<1>9. ASSUME NEW r \in Req, ClearLinks(r) PROVE TypeOK'
  BY <1>9 DEF ClearLinks, Go, Answered, SessionsOf, Redeemable, LinksOf
<1>10. ASSUME NEW r \in Req, ClearWait(r) PROVE TypeOK'
  BY <1>10 DEF ClearWait, Go
<1>11. ASSUME NEW r \in Req, AddLink(r) PROVE TypeOK'
  BY <1>11 DEF AddLink, Go
<1>12. ASSUME NEW r \in Req, SendMail(r) PROVE TypeOK'
  BY <1>12 DEF SendMail, Go
<1>13. ASSUME NEW r \in Req, FindLink(r) PROVE TypeOK'
  BY <1>13 DEF FindLink, Go, Deny, Redeemable
<1>14. ASSUME NEW r \in Req, SetPassword(r) PROVE TypeOK'
  BY <1>14 DEF SetPassword, Go
<1>15. ASSUME NEW r \in Req, MarkUsed(r) PROVE TypeOK'
  BY <1>15 DEF MarkUsed, Go
<1>16. ASSUME NEW r \in Req, Evict(r) PROVE TypeOK'
  BY <1>16 DEF Evict, Go, Answered, SessionsOf, Redeemable, LinksOf
<1>17. ASSUME NEW r \in Req, Commit(r) PROVE TypeOK'
  <2>1. account' \in [User -> Password \cup {NoPassword}]
    BY <1>17 DEF Commit
  <2>2. live' \subseteq Id /\ used' \subseteq Id
    BY <1>17 DEF Commit
  <2> QED
    BY <1>17, <2>1, <2>2 DEF Commit, Go
<1>18. ASSUME NEW r \in Req, Abort(r) PROVE TypeOK'
  BY <1>18 DEF Abort, Go
<1>19. CASE UNCHANGED vars
  BY <1>19 DEF vars
<1> QED
  BY <1>1, <1>2, <1>3, <1>4, <1>5, <1>6, <1>7, <1>8, <1>9, <1>10, <1>11,
     <1>12, <1>13, <1>14, <1>15, <1>16, <1>17, <1>18, <1>19
  DEF Next, Step, Finished

\* A handler moves along the statements of its own endpoint.
LEMMA OwnStepsStep ==
  ASSUME TypeOK, OwnSteps, [Next]_vars
  PROVE  OwnSteps'
<1> USE DEF TypeOK, Id, Op, Answer, Running, InTransaction, tables, payload
<1>1. ASSUME NEW r \in Req, Request(r) PROVE OwnSteps'
  BY <1>1 DEF Request, Arrive, Register, Login, Refresh, Logout,
     ForgotPassword, ResetPassword, OwnSteps, StepsOf
<1>2. ASSUME NEW r \in Req, InsertUser(r) PROVE OwnSteps'
  BY <1>2 DEF InsertUser, Go, Deny, OwnSteps, StepsOf, Redeeming
<1>3. ASSUME NEW r \in Req, FindUser(r) PROVE OwnSteps'
  BY <1>3 DEF FindUser, Go, Deny, OwnSteps, StepsOf, Redeeming
<1>4. ASSUME NEW r \in Req, FindSession(r) PROVE OwnSteps'
  BY <1>4 DEF FindSession, Go, Deny, OwnSteps, StepsOf, Redeeming
<1>5. ASSUME NEW r \in Req, Rotate(r) PROVE OwnSteps'
  BY <1>5 DEF Rotate, Go, OwnSteps, StepsOf, Redeeming
<1>6. ASSUME NEW r \in Req, Mint(r) PROVE OwnSteps'
  BY <1>6 DEF Mint, Go, OwnSteps
<1>7. ASSUME NEW r \in Req, Drop(r) PROVE OwnSteps'
  BY <1>7 DEF Drop, Go, Deny, OwnSteps
<1>8. ASSUME NEW r \in Req, FindEmail(r) PROVE OwnSteps'
  BY <1>8 DEF FindEmail, Go, OwnSteps, StepsOf, Redeeming
<1>9. ASSUME NEW r \in Req, ClearLinks(r) PROVE OwnSteps'
  BY <1>9 DEF ClearLinks, Go, OwnSteps, StepsOf, Redeeming
<1>10. ASSUME NEW r \in Req, ClearWait(r) PROVE OwnSteps'
  BY <1>10 DEF ClearWait, Go, OwnSteps, StepsOf, Redeeming
<1>11. ASSUME NEW r \in Req, AddLink(r) PROVE OwnSteps'
  BY <1>11 DEF AddLink, Go, OwnSteps, StepsOf, Redeeming
<1>12. ASSUME NEW r \in Req, SendMail(r) PROVE OwnSteps'
  BY <1>12 DEF SendMail, Go, OwnSteps
<1>13. ASSUME NEW r \in Req, FindLink(r) PROVE OwnSteps'
  BY <1>13 DEF FindLink, Go, Deny, Redeemable, OwnSteps, StepsOf, Redeeming
<1>14. ASSUME NEW r \in Req, SetPassword(r) PROVE OwnSteps'
  BY <1>14 DEF SetPassword, Go, OwnSteps, StepsOf, Redeeming
<1>15. ASSUME NEW r \in Req, MarkUsed(r) PROVE OwnSteps'
  BY <1>15 DEF MarkUsed, Go, OwnSteps, StepsOf, Redeeming
<1>16. ASSUME NEW r \in Req, Evict(r) PROVE OwnSteps'
  BY <1>16 DEF Evict, Go, OwnSteps, StepsOf, Redeeming
<1>17. ASSUME NEW r \in Req, Commit(r) PROVE OwnSteps'
  BY <1>17 DEF Commit, Go, OwnSteps
<1>18. ASSUME NEW r \in Req, Abort(r) PROVE OwnSteps'
  BY <1>18 DEF Abort, Go, OwnSteps
<1>19. CASE UNCHANGED vars
  BY <1>19 DEF vars, OwnSteps
<1> QED
  BY <1>1, <1>2, <1>3, <1>4, <1>5, <1>6, <1>7, <1>8, <1>9, <1>10, <1>11,
     <1>12, <1>13, <1>14, <1>15, <1>16, <1>17, <1>18, <1>19
  DEF Next, Step, Finished

\* Rows stay with accounts that exist.
LEMMA RowsStep ==
  ASSUME TypeOK, Shape, [Next]_vars
  PROVE  RowsHaveAccounts'
<1> USE DistinctValues DEF TypeOK, Id, tables, payload
<1>1. ASSUME NEW r \in Req, Request(r) PROVE RowsHaveAccounts'
  BY <1>1 DEF Request, Arrive, Register, Login, Refresh, Logout,
     ForgotPassword, ResetPassword, Shape, RowsHaveAccounts
<1>2. ASSUME NEW r \in Req, InsertUser(r) PROVE RowsHaveAccounts'
  BY <1>2 DEF InsertUser, Go, Deny, Shape, RowsHaveAccounts
<1>3. ASSUME NEW r \in Req, FindUser(r) PROVE RowsHaveAccounts'
  BY <1>3 DEF FindUser, Go, Deny, Shape, RowsHaveAccounts
<1>4. ASSUME NEW r \in Req, FindSession(r) PROVE RowsHaveAccounts'
  BY <1>4 DEF FindSession, Go, Deny, Shape, RowsHaveAccounts
<1>5. ASSUME NEW r \in Req, Rotate(r) PROVE RowsHaveAccounts'
  BY <1>5 DEF Rotate, Go, Shape, RowsHaveAccounts
<1>6. ASSUME NEW r \in Req, Mint(r) PROVE RowsHaveAccounts'
  BY <1>6 DEF Mint, Go, Shape, RowsHaveAccounts, ActsForAccount
<1>7. ASSUME NEW r \in Req, Drop(r) PROVE RowsHaveAccounts'
  BY <1>7 DEF Drop, Go, Deny, Shape, RowsHaveAccounts
<1>8. ASSUME NEW r \in Req, FindEmail(r) PROVE RowsHaveAccounts'
  BY <1>8 DEF FindEmail, Go, Shape, RowsHaveAccounts
<1>9. ASSUME NEW r \in Req, ClearLinks(r) PROVE RowsHaveAccounts'
  BY <1>9 DEF ClearLinks, Go, Shape, RowsHaveAccounts
<1>10. ASSUME NEW r \in Req, ClearWait(r) PROVE RowsHaveAccounts'
  BY <1>10 DEF ClearWait, Go, Shape, RowsHaveAccounts
<1>11. ASSUME NEW r \in Req, AddLink(r) PROVE RowsHaveAccounts'
  BY <1>11 DEF AddLink, Go, Shape, RowsHaveAccounts, ActsForAccount
<1>12. ASSUME NEW r \in Req, SendMail(r) PROVE RowsHaveAccounts'
  BY <1>12 DEF SendMail, Go, Shape, RowsHaveAccounts
<1>13. ASSUME NEW r \in Req, FindLink(r) PROVE RowsHaveAccounts'
  BY <1>13 DEF FindLink, Go, Deny, Redeemable, Shape, RowsHaveAccounts
<1>14. ASSUME NEW r \in Req, SetPassword(r) PROVE RowsHaveAccounts'
  BY <1>14 DEF SetPassword, Go, Shape, RowsHaveAccounts
<1>15. ASSUME NEW r \in Req, MarkUsed(r) PROVE RowsHaveAccounts'
  BY <1>15 DEF MarkUsed, Go, Shape, RowsHaveAccounts
<1>16. ASSUME NEW r \in Req, Evict(r) PROVE RowsHaveAccounts'
  BY <1>16 DEF Evict, Go, Shape, RowsHaveAccounts
<1>17. ASSUME NEW r \in Req, Commit(r) PROVE RowsHaveAccounts'
  BY <1>17 DEF Commit, Go, Shape, RowsHaveAccounts, ActsForAccount,
     FreshIds, OwnSteps, StepsOf, Redeeming, Answer
<1>18. ASSUME NEW r \in Req, Abort(r) PROVE RowsHaveAccounts'
  BY <1>18 DEF Abort, Go, Shape, RowsHaveAccounts
<1>19. CASE UNCHANGED vars
  BY <1>19 DEF vars, Shape, RowsHaveAccounts
<1> QED
  BY <1>1, <1>2, <1>3, <1>4, <1>5, <1>6, <1>7, <1>8, <1>9, <1>10, <1>11,
     <1>12, <1>13, <1>14, <1>15, <1>16, <1>17, <1>18, <1>19
  DEF Next, Step, Finished

\* A UUID names no row before its request has inserted one.
LEMMA FreshStep ==
  ASSUME TypeOK, Shape, [Next]_vars
  PROVE  FreshIds'
<1> USE DistinctValues DEF TypeOK, Id, tables, payload
<1>1. ASSUME NEW r \in Req, Request(r) PROVE FreshIds'
  BY <1>1 DEF Request, Arrive, Register, Login, Refresh, Logout,
     ForgotPassword, ResetPassword, Shape, FreshIds
<1>2. ASSUME NEW r \in Req, InsertUser(r) PROVE FreshIds'
  BY <1>2 DEF InsertUser, Go, Deny, Shape, FreshIds
<1>3. ASSUME NEW r \in Req, FindUser(r) PROVE FreshIds'
  BY <1>3 DEF FindUser, Go, Deny, Shape, FreshIds
<1>4. ASSUME NEW r \in Req, FindSession(r) PROVE FreshIds'
  BY <1>4 DEF FindSession, Go, Deny, Shape, FreshIds
<1>5. ASSUME NEW r \in Req, Rotate(r) PROVE FreshIds'
  BY <1>5 DEF Rotate, Go, Shape, FreshIds
<1>6. ASSUME NEW r \in Req, Mint(r) PROVE FreshIds'
  BY <1>6 DEF Mint, Go, Shape, FreshIds, Minting, ActsForAccount,
     RowsHaveAccounts, OwnSteps, StepsOf, Redeeming, Answer
<1>7. ASSUME NEW r \in Req, Drop(r) PROVE FreshIds'
  BY <1>7 DEF Drop, Go, Deny, Shape, FreshIds
<1>8. ASSUME NEW r \in Req, FindEmail(r) PROVE FreshIds'
  BY <1>8 DEF FindEmail, Go, Shape, FreshIds
<1>9. ASSUME NEW r \in Req, ClearLinks(r) PROVE FreshIds'
  BY <1>9 DEF ClearLinks, Go, Shape, FreshIds
<1>10. ASSUME NEW r \in Req, ClearWait(r) PROVE FreshIds'
  BY <1>10 DEF ClearWait, Go, Shape, FreshIds
<1>11. ASSUME NEW r \in Req, AddLink(r) PROVE FreshIds'
  BY <1>11 DEF AddLink, Go, Shape, FreshIds, Minting, ActsForAccount,
     RowsHaveAccounts, OwnSteps, StepsOf, Redeeming, Answer
<1>12. ASSUME NEW r \in Req, SendMail(r) PROVE FreshIds'
  BY <1>12 DEF SendMail, Go, Shape, FreshIds
<1>13. ASSUME NEW r \in Req, FindLink(r) PROVE FreshIds'
  BY <1>13 DEF FindLink, Go, Deny, Redeemable, Shape, FreshIds
<1>14. ASSUME NEW r \in Req, SetPassword(r) PROVE FreshIds'
  BY <1>14 DEF SetPassword, Go, Shape, FreshIds
<1>15. ASSUME NEW r \in Req, MarkUsed(r) PROVE FreshIds'
  BY <1>15 DEF MarkUsed, Go, Shape, FreshIds
<1>16. ASSUME NEW r \in Req, Evict(r) PROVE FreshIds'
  BY <1>16 DEF Evict, Go, Shape, FreshIds
<1>17. ASSUME NEW r \in Req, Commit(r) PROVE FreshIds'
  BY <1>17 DEF Commit, Go, Shape, FreshIds
<1>18. ASSUME NEW r \in Req, Abort(r) PROVE FreshIds'
  BY <1>18 DEF Abort, Go, Shape, FreshIds
<1>19. CASE UNCHANGED vars
  BY <1>19 DEF vars, Shape, FreshIds
<1> QED
  BY <1>1, <1>2, <1>3, <1>4, <1>5, <1>6, <1>7, <1>8, <1>9, <1>10, <1>11,
     <1>12, <1>13, <1>14, <1>15, <1>16, <1>17, <1>18, <1>19
  DEF Next, Step, Finished

\* A request keeps acting for the account its credential belongs to.
LEMMA ActsStep ==
  ASSUME TypeOK, Shape, [Next]_vars
  PROVE  ActsForAccount'
<1> USE DistinctValues DEF TypeOK, Id, tables, payload
<1>1. ASSUME NEW r \in Req, Request(r) PROVE ActsForAccount'
  BY <1>1 DEF Request, Arrive, Register, Login, Refresh, Logout,
     ForgotPassword, ResetPassword, Shape, ActsForAccount, Redeeming
<1>2. ASSUME NEW r \in Req, InsertUser(r) PROVE ActsForAccount'
  BY <1>2 DEF InsertUser, Go, Deny, Shape, ActsForAccount, Redeeming
<1>3. ASSUME NEW r \in Req, FindUser(r) PROVE ActsForAccount'
  BY <1>3 DEF FindUser, Go, Deny, Shape, ActsForAccount, Redeeming
<1>4. ASSUME NEW r \in Req, FindSession(r) PROVE ActsForAccount'
  BY <1>4 DEF FindSession, Go, Deny, Shape, ActsForAccount, Redeeming
<1>5. ASSUME NEW r \in Req, Rotate(r) PROVE ActsForAccount'
  BY <1>5 DEF Rotate, Go, Shape, ActsForAccount, Redeeming, FreshIds,
     RowsHaveAccounts, OwnSteps, StepsOf, Answer
<1>6. ASSUME NEW r \in Req, Mint(r) PROVE ActsForAccount'
  BY <1>6 DEF Mint, Go, Shape, ActsForAccount, Redeeming, FreshIds,
     RowsHaveAccounts, OwnSteps, StepsOf, Answer
<1>7. ASSUME NEW r \in Req, Drop(r) PROVE ActsForAccount'
  BY <1>7 DEF Drop, Go, Deny, Shape, ActsForAccount, Redeeming, FreshIds,
     RowsHaveAccounts, OwnSteps, StepsOf, Answer
<1>8. ASSUME NEW r \in Req, FindEmail(r) PROVE ActsForAccount'
  BY <1>8 DEF FindEmail, Go, Shape, ActsForAccount, Redeeming, FreshIds,
     RowsHaveAccounts, OwnSteps, StepsOf, Answer
<1>9. ASSUME NEW r \in Req, ClearLinks(r) PROVE ActsForAccount'
  BY <1>9 DEF ClearLinks, Go, Shape, ActsForAccount, Redeeming
<1>10. ASSUME NEW r \in Req, ClearWait(r) PROVE ActsForAccount'
  BY <1>10 DEF ClearWait, Go, Shape, ActsForAccount, Redeeming
<1>11. ASSUME NEW r \in Req, AddLink(r) PROVE ActsForAccount'
  BY <1>11 DEF AddLink, Go, Shape, ActsForAccount, Redeeming, FreshIds,
     RowsHaveAccounts
<1>12. ASSUME NEW r \in Req, SendMail(r) PROVE ActsForAccount'
  BY <1>12 DEF SendMail, Go, Shape, ActsForAccount, Redeeming, FreshIds,
     RowsHaveAccounts, OwnSteps, StepsOf, Answer
<1>13. ASSUME NEW r \in Req, FindLink(r) PROVE ActsForAccount'
  BY <1>13 DEF FindLink, Go, Deny, Redeemable, Shape, ActsForAccount,
     Redeeming
<1>14. ASSUME NEW r \in Req, SetPassword(r) PROVE ActsForAccount'
  BY <1>14 DEF SetPassword, Go, Shape, ActsForAccount, Redeeming
<1>15. ASSUME NEW r \in Req, MarkUsed(r) PROVE ActsForAccount'
  BY <1>15 DEF MarkUsed, Go, Shape, ActsForAccount, Redeeming
<1>16. ASSUME NEW r \in Req, Evict(r) PROVE ActsForAccount'
  BY <1>16 DEF Evict, Go, Shape, ActsForAccount, Redeeming
<1>17. ASSUME NEW r \in Req, Commit(r) PROVE ActsForAccount'
  BY <1>17 DEF Commit, Go, Shape, ActsForAccount, Redeeming, FreshIds,
     RowsHaveAccounts, OwnSteps, StepsOf, Answer
<1>18. ASSUME NEW r \in Req, Abort(r) PROVE ActsForAccount'
  BY <1>18 DEF Abort, Go, Shape, ActsForAccount, Redeeming
<1>19. CASE UNCHANGED vars
  BY <1>19 DEF vars, Shape, ActsForAccount
<1> QED
  BY <1>1, <1>2, <1>3, <1>4, <1>5, <1>6, <1>7, <1>8, <1>9, <1>10, <1>11,
     <1>12, <1>13, <1>14, <1>15, <1>16, <1>17, <1>18, <1>19
  DEF Next, Step, Finished

\* The rows a DELETE has locked are rows of the account it works on.
LEMMA DoomedStep ==
  ASSUME TypeOK, Shape, [Next]_vars
  PROVE  DoomedIsOwn'
<1> USE DistinctValues DEF TypeOK, Id, tables, payload
<1>1. ASSUME NEW r \in Req, Request(r) PROVE DoomedIsOwn'
  BY <1>1 DEF Request, Arrive, Register, Login, Refresh, Logout,
     ForgotPassword, ResetPassword, Shape, DoomedIsOwn
<1>2. ASSUME NEW r \in Req, InsertUser(r) PROVE DoomedIsOwn'
  BY <1>2 DEF InsertUser, Go, Deny, Shape, DoomedIsOwn
<1>3. ASSUME NEW r \in Req, FindUser(r) PROVE DoomedIsOwn'
  BY <1>3 DEF FindUser, Go, Deny, Shape, DoomedIsOwn
<1>4. ASSUME NEW r \in Req, FindSession(r) PROVE DoomedIsOwn'
  BY <1>4 DEF FindSession, Go, Deny, Shape, DoomedIsOwn
<1>5. ASSUME NEW r \in Req, Rotate(r) PROVE DoomedIsOwn'
  BY <1>5 DEF Rotate, Go, Shape, DoomedIsOwn
<1>6. ASSUME NEW r \in Req, Mint(r) PROVE DoomedIsOwn'
  BY <1>6 DEF Mint, Go, Shape, DoomedIsOwn, SessionsOf, LinksOf, FreshIds,
     ActsForAccount, OwnSteps, StepsOf, Redeeming, Answer
<1>7. ASSUME NEW r \in Req, Drop(r) PROVE DoomedIsOwn'
  BY <1>7 DEF Drop, Go, Deny, Shape, DoomedIsOwn
<1>8. ASSUME NEW r \in Req, FindEmail(r) PROVE DoomedIsOwn'
  BY <1>8 DEF FindEmail, Go, Shape, DoomedIsOwn
<1>9. ASSUME NEW r \in Req, ClearLinks(r) PROVE DoomedIsOwn'
  BY <1>9 DEF ClearLinks, Go, Shape, DoomedIsOwn, SessionsOf, LinksOf
<1>10. ASSUME NEW r \in Req, ClearWait(r) PROVE DoomedIsOwn'
  BY <1>10 DEF ClearWait, Go, Shape, DoomedIsOwn
<1>11. ASSUME NEW r \in Req, AddLink(r) PROVE DoomedIsOwn'
  BY <1>11 DEF AddLink, Go, Shape, DoomedIsOwn, SessionsOf, LinksOf,
     FreshIds, ActsForAccount
<1>12. ASSUME NEW r \in Req, SendMail(r) PROVE DoomedIsOwn'
  BY <1>12 DEF SendMail, Go, Shape, DoomedIsOwn
<1>13. ASSUME NEW r \in Req, FindLink(r) PROVE DoomedIsOwn'
  BY <1>13 DEF FindLink, Go, Deny, Redeemable, Shape, DoomedIsOwn
<1>14. ASSUME NEW r \in Req, SetPassword(r) PROVE DoomedIsOwn'
  BY <1>14 DEF SetPassword, Go, Shape, DoomedIsOwn
<1>15. ASSUME NEW r \in Req, MarkUsed(r) PROVE DoomedIsOwn'
  BY <1>15 DEF MarkUsed, Go, Shape, DoomedIsOwn
<1>16. ASSUME NEW r \in Req, Evict(r) PROVE DoomedIsOwn'
  BY <1>16 DEF Evict, Go, Shape, DoomedIsOwn, SessionsOf
<1>17. ASSUME NEW r \in Req, Commit(r) PROVE DoomedIsOwn'
  BY <1>17 DEF Commit, Go, Shape, DoomedIsOwn
<1>18. ASSUME NEW r \in Req, Abort(r) PROVE DoomedIsOwn'
  BY <1>18 DEF Abort, Go, Shape, DoomedIsOwn
<1>19. CASE UNCHANGED vars
  BY <1>19 DEF vars, Shape, DoomedIsOwn
<1> QED
  BY <1>1, <1>2, <1>3, <1>4, <1>5, <1>6, <1>7, <1>8, <1>9, <1>10, <1>11,
     <1>12, <1>13, <1>14, <1>15, <1>16, <1>17, <1>18, <1>19
  DEF Next, Step, Finished

\* Requests recorded as earlier have been answered.
LEMMA BeforeStep ==
  ASSUME TypeOK, Shape, [Next]_vars
  PROVE  BeforeIsAnswered'
<1> USE DistinctValues DEF TypeOK, Id, tables, payload
<1>1. ASSUME NEW r \in Req, Request(r) PROVE BeforeIsAnswered'
  BY <1>1 DEF Request, Arrive, Register, Login, Refresh, Logout,
     ForgotPassword, ResetPassword, Shape, BeforeIsAnswered, Answered,
     Answer
<1>2. ASSUME NEW r \in Req, InsertUser(r) PROVE BeforeIsAnswered'
  BY <1>2 DEF InsertUser, Go, Deny, Shape, BeforeIsAnswered, Answered,
     Answer
<1>3. ASSUME NEW r \in Req, FindUser(r) PROVE BeforeIsAnswered'
  BY <1>3 DEF FindUser, Go, Deny, Shape, BeforeIsAnswered, Answered, Answer
<1>4. ASSUME NEW r \in Req, FindSession(r) PROVE BeforeIsAnswered'
  BY <1>4 DEF FindSession, Go, Deny, Shape, BeforeIsAnswered, Answered,
     Answer
<1>5. ASSUME NEW r \in Req, Rotate(r) PROVE BeforeIsAnswered'
  BY <1>5 DEF Rotate, Go, Shape, BeforeIsAnswered, Answered, Answer
<1>6. ASSUME NEW r \in Req, Mint(r) PROVE BeforeIsAnswered'
  BY <1>6 DEF Mint, Go, Shape, BeforeIsAnswered, Answered, Answer
<1>7. ASSUME NEW r \in Req, Drop(r) PROVE BeforeIsAnswered'
  BY <1>7 DEF Drop, Go, Deny, Shape, BeforeIsAnswered, Answered, Answer
<1>8. ASSUME NEW r \in Req, FindEmail(r) PROVE BeforeIsAnswered'
  BY <1>8 DEF FindEmail, Go, Shape, BeforeIsAnswered, Answered, Answer
<1>9. ASSUME NEW r \in Req, ClearLinks(r) PROVE BeforeIsAnswered'
  BY <1>9 DEF ClearLinks, Go, Shape, BeforeIsAnswered, Answered, Answer
<1>10. ASSUME NEW r \in Req, ClearWait(r) PROVE BeforeIsAnswered'
  BY <1>10 DEF ClearWait, Go, Shape, BeforeIsAnswered, Answered, Answer
<1>11. ASSUME NEW r \in Req, AddLink(r) PROVE BeforeIsAnswered'
  BY <1>11 DEF AddLink, Go, Shape, BeforeIsAnswered, Answered, Answer
<1>12. ASSUME NEW r \in Req, SendMail(r) PROVE BeforeIsAnswered'
  BY <1>12 DEF SendMail, Go, Shape, BeforeIsAnswered, Answered, Answer
<1>13. ASSUME NEW r \in Req, FindLink(r) PROVE BeforeIsAnswered'
  BY <1>13 DEF FindLink, Go, Deny, Redeemable, Shape, BeforeIsAnswered,
     Answered, Answer
<1>14. ASSUME NEW r \in Req, SetPassword(r) PROVE BeforeIsAnswered'
  BY <1>14 DEF SetPassword, Go, Shape, BeforeIsAnswered, Answered, Answer
<1>15. ASSUME NEW r \in Req, MarkUsed(r) PROVE BeforeIsAnswered'
  BY <1>15 DEF MarkUsed, Go, Shape, BeforeIsAnswered, Answered, Answer
<1>16. ASSUME NEW r \in Req, Evict(r) PROVE BeforeIsAnswered'
  BY <1>16 DEF Evict, Go, Shape, BeforeIsAnswered, Answered, Answer
<1>17. ASSUME NEW r \in Req, Commit(r) PROVE BeforeIsAnswered'
  BY <1>17 DEF Commit, Go, Shape, BeforeIsAnswered, Answered, Answer
<1>18. ASSUME NEW r \in Req, Abort(r) PROVE BeforeIsAnswered'
  BY <1>18 DEF Abort, Go, Shape, BeforeIsAnswered, Answered, Answer
<1>19. CASE UNCHANGED vars
  BY <1>19 DEF vars, Shape, BeforeIsAnswered, Answered
<1> QED
  BY <1>1, <1>2, <1>3, <1>4, <1>5, <1>6, <1>7, <1>8, <1>9, <1>10, <1>11,
     <1>12, <1>13, <1>14, <1>15, <1>16, <1>17, <1>18, <1>19
  DEF Next, Step, Finished

\* Every step keeps the shape of the tables and of the requests.
LEMMA ShapeStep == TypeOK /\ Shape /\ [Next]_vars => Shape'
BY OwnStepsStep, RowsStep, FreshStep, ActsStep, DoomedStep, BeforeStep
DEF Shape

-----------------------------------------------------------------------------
(* The parts of the invariant the promises follow from *)

\* A credential that was spent stays spent, and requests that arrive later do
\* not get past reading it.
LEMMA SpentStep ==
  ASSUME TypeOK, Shape, Spent, [Next]_vars
  PROVE  Spent'
<1> USE DistinctValues DEF TypeOK, Id, tables, payload
<1>1. ASSUME NEW r \in Req, Request(r) PROVE Spent'
  BY <1>1 DEF Request, Arrive, Register, Login, Refresh, Logout,
     ForgotPassword, ResetPassword, Spent, Redeemable
<1>2. ASSUME NEW r \in Req, InsertUser(r) PROVE Spent'
  BY <1>2 DEF InsertUser, Go, Deny, Spent, Redeemable, Shape, OwnSteps,
     FreshIds, StepsOf, Redeeming, Answer
<1>3. ASSUME NEW r \in Req, FindUser(r) PROVE Spent'
  BY <1>3 DEF FindUser, Go, Deny, Spent, Redeemable, Shape, OwnSteps,
     FreshIds, StepsOf, Redeeming, Answer
<1>4. ASSUME NEW r \in Req, FindSession(r) PROVE Spent'
  BY <1>4 DEF FindSession, Go, Deny, Spent, Redeemable
<1>5. ASSUME NEW r \in Req, Rotate(r) PROVE Spent'
  BY <1>5 DEF Rotate, Go, Spent, Redeemable
<1>6. ASSUME NEW r \in Req, Mint(r) PROVE Spent'
  BY <1>6 DEF Mint, Go, Spent, Redeemable, Shape, OwnSteps, FreshIds,
     StepsOf, Redeeming, Answer, BeforeIsAnswered, Answered
<1>7. ASSUME NEW r \in Req, Drop(r) PROVE Spent'
  BY <1>7 DEF Drop, Go, Deny, Spent, Redeemable, Shape, OwnSteps, FreshIds,
     StepsOf, Redeeming, Answer, BeforeIsAnswered, Answered
<1>8. ASSUME NEW r \in Req, FindEmail(r) PROVE Spent'
  BY <1>8 DEF FindEmail, Go, Spent, Redeemable, Shape, OwnSteps, FreshIds,
     StepsOf, Redeeming, Answer
<1>9. ASSUME NEW r \in Req, ClearLinks(r) PROVE Spent'
  BY <1>9 DEF ClearLinks, Go, Spent, Redeemable
<1>10. ASSUME NEW r \in Req, ClearWait(r) PROVE Spent'
  BY <1>10 DEF ClearWait, Go, Spent, Redeemable
<1>11. ASSUME NEW r \in Req, AddLink(r) PROVE Spent'
  BY <1>11 DEF AddLink, Go, Spent, Redeemable, Shape, OwnSteps, FreshIds
<1>12. ASSUME NEW r \in Req, SendMail(r) PROVE Spent'
  BY <1>12 DEF SendMail, Go, Spent, Redeemable, Shape, OwnSteps, FreshIds,
     StepsOf, Redeeming, Answer
<1>13. ASSUME NEW r \in Req, FindLink(r) PROVE Spent'
  BY <1>13 DEF FindLink, Go, Deny, Redeemable, Spent
<1>14. ASSUME NEW r \in Req, SetPassword(r) PROVE Spent'
  BY <1>14 DEF SetPassword, Go, Spent, Redeemable
<1>15. ASSUME NEW r \in Req, MarkUsed(r) PROVE Spent'
  BY <1>15 DEF MarkUsed, Go, Spent, Redeemable
<1>16. ASSUME NEW r \in Req, Evict(r) PROVE Spent'
  BY <1>16 DEF Evict, Go, Spent, Redeemable
<1>17. ASSUME NEW r \in Req, Commit(r) PROVE Spent'
  BY <1>17 DEF Commit, Go, Spent, Redeemable, Shape, OwnSteps, FreshIds,
     StepsOf, Redeeming, Answer, BeforeIsAnswered, Answered
<1>18. ASSUME NEW r \in Req, Abort(r) PROVE Spent'
  BY <1>18 DEF Abort, Go, Spent, Redeemable
<1>19. CASE UNCHANGED vars
  BY <1>19 DEF vars, Spent, Redeemable
<1> QED
  BY <1>1, <1>2, <1>3, <1>4, <1>5, <1>6, <1>7, <1>8, <1>9, <1>10, <1>11,
     <1>12, <1>13, <1>14, <1>15, <1>16, <1>17, <1>18, <1>19
  DEF Next, Step, Finished

\* A reset that commits has evicted every older session.
LEMMA EvictedStep ==
  ASSUME TypeOK, Shape, Evicted, [Next]_vars
  PROVE  Evicted'
<1> USE DistinctValues DEF TypeOK, Id, tables, payload
<1>1. ASSUME NEW r \in Req, Request(r) PROVE Evicted'
  BY <1>1 DEF Request, Arrive, Register, Login, Refresh, Logout,
     ForgotPassword, ResetPassword, Evicted, ResetEvicts, SessionsOf
<1>2. ASSUME NEW r \in Req, InsertUser(r) PROVE Evicted'
  BY <1>2 DEF InsertUser, Go, Deny, Evicted, ResetEvicts, SessionsOf
<1>3. ASSUME NEW r \in Req, FindUser(r) PROVE Evicted'
  BY <1>3 DEF FindUser, Go, Deny, Evicted, ResetEvicts, SessionsOf
<1>4. ASSUME NEW r \in Req, FindSession(r) PROVE Evicted'
  BY <1>4 DEF FindSession, Go, Deny, Evicted, ResetEvicts, SessionsOf
<1>5. ASSUME NEW r \in Req, Rotate(r) PROVE Evicted'
  BY <1>5 DEF Rotate, Go, Evicted, ResetEvicts, SessionsOf
<1>6. ASSUME NEW r \in Req, Mint(r) PROVE Evicted'
  BY <1>6 DEF Mint, Go, Evicted, ResetEvicts, SessionsOf, Shape,
     BeforeIsAnswered, Answered, Answer, FreshIds, OwnSteps, StepsOf,
     Redeeming
<1>7. ASSUME NEW r \in Req, Drop(r) PROVE Evicted'
  BY <1>7 DEF Drop, Go, Deny, Evicted, ResetEvicts, SessionsOf, Shape,
     BeforeIsAnswered, Answered, Answer, FreshIds, OwnSteps, StepsOf,
     Redeeming
<1>8. ASSUME NEW r \in Req, FindEmail(r) PROVE Evicted'
  BY <1>8 DEF FindEmail, Go, Evicted, ResetEvicts, SessionsOf, Shape,
     BeforeIsAnswered, Answered, Answer, FreshIds, OwnSteps, StepsOf,
     Redeeming
<1>9. ASSUME NEW r \in Req, ClearLinks(r) PROVE Evicted'
  BY <1>9 DEF ClearLinks, Go, Evicted, ResetEvicts, SessionsOf
<1>10. ASSUME NEW r \in Req, ClearWait(r) PROVE Evicted'
  BY <1>10 DEF ClearWait, Go, Evicted, ResetEvicts, SessionsOf
<1>11. ASSUME NEW r \in Req, AddLink(r) PROVE Evicted'
  BY <1>11 DEF AddLink, Go, Evicted, ResetEvicts, SessionsOf
<1>12. ASSUME NEW r \in Req, SendMail(r) PROVE Evicted'
  BY <1>12 DEF SendMail, Go, Evicted, ResetEvicts, SessionsOf, Shape,
     BeforeIsAnswered, Answered, Answer, FreshIds, OwnSteps, StepsOf,
     Redeeming
<1>13. ASSUME NEW r \in Req, FindLink(r) PROVE Evicted'
  BY <1>13 DEF FindLink, Go, Deny, Redeemable, Evicted, ResetEvicts,
     SessionsOf
<1>14. ASSUME NEW r \in Req, SetPassword(r) PROVE Evicted'
  BY <1>14 DEF SetPassword, Go, Evicted, ResetEvicts, SessionsOf
<1>15. ASSUME NEW r \in Req, MarkUsed(r) PROVE Evicted'
  BY <1>15 DEF MarkUsed, Go, Evicted, ResetEvicts, SessionsOf
<1>16. ASSUME NEW r \in Req, Evict(r) PROVE Evicted'
  BY <1>16 DEF Evict, Go, Evicted, ResetEvicts, SessionsOf
<1>17. ASSUME NEW r \in Req, Commit(r) PROVE Evicted'
  BY <1>17 DEF Commit, Go, Evicted, ResetEvicts, SessionsOf
<1>18. ASSUME NEW r \in Req, Abort(r) PROVE Evicted'
  BY <1>18 DEF Abort, Go, Evicted, ResetEvicts, SessionsOf
<1>19. CASE UNCHANGED vars
  BY <1>19 DEF vars, Evicted, ResetEvicts, SessionsOf
<1> QED
  BY <1>1, <1>2, <1>3, <1>4, <1>5, <1>6, <1>7, <1>8, <1>9, <1>10, <1>11,
     <1>12, <1>13, <1>14, <1>15, <1>16, <1>17, <1>18, <1>19
  DEF Next, Step, Finished

\* A forgot_password adds its link once the older ones are gone.
LEMMA LinksStep ==
  ASSUME TypeOK, Shape, LinksSuperseded, [Next]_vars
  PROVE  LinksSuperseded'
<1> USE DistinctValues DEF TypeOK, Id, tables, payload
<1>1. ASSUME NEW r \in Req, Request(r) PROVE LinksSuperseded'
  BY <1>1 DEF Request, Arrive, Register, Login, Refresh, Logout,
     ForgotPassword, ResetPassword, LinksSuperseded, ForgotSupersedes,
     LinksOf, Shape, BeforeIsAnswered, Answered, Answer, FreshIds, OwnSteps,
     StepsOf, Redeeming, ActsForAccount, RowsHaveAccounts, DoomedIsOwn, Op
<1>2. ASSUME NEW r \in Req, InsertUser(r) PROVE LinksSuperseded'
  BY <1>2 DEF InsertUser, Go, Deny, LinksSuperseded, ForgotSupersedes,
     LinksOf
<1>3. ASSUME NEW r \in Req, FindUser(r) PROVE LinksSuperseded'
  BY <1>3 DEF FindUser, Go, Deny, LinksSuperseded, ForgotSupersedes, LinksOf
<1>4. ASSUME NEW r \in Req, FindSession(r) PROVE LinksSuperseded'
  BY <1>4 DEF FindSession, Go, Deny, LinksSuperseded, ForgotSupersedes,
     LinksOf
<1>5. ASSUME NEW r \in Req, Rotate(r) PROVE LinksSuperseded'
  BY <1>5 DEF Rotate, Go, LinksSuperseded, ForgotSupersedes, LinksOf
<1>6. ASSUME NEW r \in Req, Mint(r) PROVE LinksSuperseded'
  BY <1>6 DEF Mint, Go, LinksSuperseded, ForgotSupersedes, LinksOf
<1>7. ASSUME NEW r \in Req, Drop(r) PROVE LinksSuperseded'
  BY <1>7 DEF Drop, Go, Deny, LinksSuperseded, ForgotSupersedes, LinksOf
<1>8. ASSUME NEW r \in Req, FindEmail(r) PROVE LinksSuperseded'
  BY <1>8 DEF FindEmail, Go, LinksSuperseded, ForgotSupersedes, LinksOf
<1>9. ASSUME NEW r \in Req, ClearLinks(r) PROVE LinksSuperseded'
  BY <1>9 DEF ClearLinks, Go, LinksSuperseded, ForgotSupersedes, LinksOf
<1>10. ASSUME NEW r \in Req, ClearWait(r) PROVE LinksSuperseded'
  BY <1>10 DEF ClearWait, Go, LinksSuperseded, ForgotSupersedes, LinksOf
<1>11. ASSUME NEW r \in Req, AddLink(r) PROVE LinksSuperseded'
  BY <1>11 DEF AddLink, Go, LinksSuperseded, ForgotSupersedes, LinksOf,
     Shape, BeforeIsAnswered, Answered, Answer
<1>12. ASSUME NEW r \in Req, SendMail(r) PROVE LinksSuperseded'
  BY <1>12 DEF SendMail, Go, LinksSuperseded, ForgotSupersedes, LinksOf
<1>13. ASSUME NEW r \in Req, FindLink(r) PROVE LinksSuperseded'
  BY <1>13 DEF FindLink, Go, Deny, Redeemable, LinksSuperseded,
     ForgotSupersedes, LinksOf
<1>14. ASSUME NEW r \in Req, SetPassword(r) PROVE LinksSuperseded'
  BY <1>14 DEF SetPassword, Go, LinksSuperseded, ForgotSupersedes, LinksOf
<1>15. ASSUME NEW r \in Req, MarkUsed(r) PROVE LinksSuperseded'
  BY <1>15 DEF MarkUsed, Go, LinksSuperseded, ForgotSupersedes, LinksOf
<1>16. ASSUME NEW r \in Req, Evict(r) PROVE LinksSuperseded'
  BY <1>16 DEF Evict, Go, LinksSuperseded, ForgotSupersedes, LinksOf
<1>17. ASSUME NEW r \in Req, Commit(r) PROVE LinksSuperseded'
  BY <1>17 DEF Commit, Go, LinksSuperseded, ForgotSupersedes, LinksOf
<1>18. ASSUME NEW r \in Req, Abort(r) PROVE LinksSuperseded'
  BY <1>18 DEF Abort, Go, LinksSuperseded, ForgotSupersedes, LinksOf
<1>19. CASE UNCHANGED vars
  BY <1>19 DEF vars, LinksSuperseded, ForgotSupersedes, LinksOf
<1> QED
  BY <1>1, <1>2, <1>3, <1>4, <1>5, <1>6, <1>7, <1>8, <1>9, <1>10, <1>11,
     <1>12, <1>13, <1>14, <1>15, <1>16, <1>17, <1>18, <1>19
  DEF Next, Step, Finished

\* A token that goes leaves the request behind that ended it.
LEMMA CauseStep ==
  ASSUME TypeOK, Shape, EvictionHasCause, [Next]_vars
  PROVE  EvictionHasCause'
<1> USE DistinctValues DEF TypeOK, Id, tables, payload
<1>1. ASSUME NEW r \in Req, Request(r) PROVE EvictionHasCause'
  BY <1>1 DEF Request, Arrive, Register, Login, Refresh, Logout,
     ForgotPassword, ResetPassword, EvictionHasCause
<1>2. ASSUME NEW r \in Req, InsertUser(r) PROVE EvictionHasCause'
  BY <1>2 DEF InsertUser, Go, Deny, EvictionHasCause
<1>3. ASSUME NEW r \in Req, FindUser(r) PROVE EvictionHasCause'
  BY <1>3 DEF FindUser, Go, Deny, EvictionHasCause
<1>4. ASSUME NEW r \in Req, FindSession(r) PROVE EvictionHasCause'
  BY <1>4 DEF FindSession, Go, Deny, EvictionHasCause
<1>5. ASSUME NEW r \in Req, Rotate(r) PROVE EvictionHasCause'
  BY <1>5 DEF Rotate, Go, EvictionHasCause, Shape, DoomedIsOwn, FreshIds,
     OwnSteps, StepsOf, Redeeming, Answer
<1>6. ASSUME NEW r \in Req, Mint(r) PROVE EvictionHasCause'
  BY <1>6 DEF Mint, Go, EvictionHasCause
<1>7. ASSUME NEW r \in Req, Drop(r) PROVE EvictionHasCause'
  BY <1>7 DEF Drop, Go, Deny, EvictionHasCause, Shape, DoomedIsOwn,
     FreshIds, OwnSteps, StepsOf, Redeeming, Answer
<1>8. ASSUME NEW r \in Req, FindEmail(r) PROVE EvictionHasCause'
  BY <1>8 DEF FindEmail, Go, EvictionHasCause
<1>9. ASSUME NEW r \in Req, ClearLinks(r) PROVE EvictionHasCause'
  BY <1>9 DEF ClearLinks, Go, EvictionHasCause
<1>10. ASSUME NEW r \in Req, ClearWait(r) PROVE EvictionHasCause'
  BY <1>10 DEF ClearWait, Go, EvictionHasCause
<1>11. ASSUME NEW r \in Req, AddLink(r) PROVE EvictionHasCause'
  BY <1>11 DEF AddLink, Go, EvictionHasCause
<1>12. ASSUME NEW r \in Req, SendMail(r) PROVE EvictionHasCause'
  BY <1>12 DEF SendMail, Go, EvictionHasCause
<1>13. ASSUME NEW r \in Req, FindLink(r) PROVE EvictionHasCause'
  BY <1>13 DEF FindLink, Go, Deny, Redeemable, EvictionHasCause
<1>14. ASSUME NEW r \in Req, SetPassword(r) PROVE EvictionHasCause'
  BY <1>14 DEF SetPassword, Go, EvictionHasCause
<1>15. ASSUME NEW r \in Req, MarkUsed(r) PROVE EvictionHasCause'
  BY <1>15 DEF MarkUsed, Go, EvictionHasCause
<1>16. ASSUME NEW r \in Req, Evict(r) PROVE EvictionHasCause'
  BY <1>16 DEF Evict, Go, EvictionHasCause
<1>17. ASSUME NEW r \in Req, Commit(r) PROVE EvictionHasCause'
  BY <1>17 DEF Commit, Go, EvictionHasCause, Shape, DoomedIsOwn, FreshIds,
     OwnSteps, StepsOf, Redeeming, Answer
<1>18. ASSUME NEW r \in Req, Abort(r) PROVE EvictionHasCause'
  BY <1>18 DEF Abort, Go, EvictionHasCause
<1>19. CASE UNCHANGED vars
  BY <1>19 DEF vars, EvictionHasCause
<1> QED
  BY <1>1, <1>2, <1>3, <1>4, <1>5, <1>6, <1>7, <1>8, <1>9, <1>10, <1>11,
     <1>12, <1>13, <1>14, <1>15, <1>16, <1>17, <1>18, <1>19
  DEF Next, Step, Finished

\* An answer is final, and an answered request keeps its payload.
LEMMA AnswerIsFinal ==
  ASSUME TypeOK, [Next]_vars, NEW q \in Req, pc[q] \in Answer
  PROVE  /\ pc'[q] = pc[q] /\ op'[q] = op[q] /\ user'[q] = user[q]
         /\ pass'[q] = pass[q] /\ cred'[q] = cred[q] /\ before'[q] = before[q]
<1> USE DEF TypeOK, Answer, Running, InTransaction, tables, payload
<1>1. ASSUME NEW r \in Req, Request(r) PROVE pc[q] # "idle" /\ r # q
  BY <1>1 DEF Request, Arrive, Register, Login, Refresh, Logout,
     ForgotPassword, ResetPassword
<1>2. ASSUME NEW r \in Req, Request(r)
      PROVE  /\ pc'[q] = pc[q] /\ op'[q] = op[q] /\ user'[q] = user[q]
             /\ pass'[q] = pass[q] /\ cred'[q] = cred[q] /\ before'[q] = before[q]
  BY <1>1, <1>2 DEF Request, Arrive, Register, Login, Refresh, Logout,
     ForgotPassword, ResetPassword
<1>3. ASSUME NEW r \in Req, Step(r) \/ Abort(r)
      PROVE  /\ pc'[q] = pc[q] /\ op'[q] = op[q] /\ user'[q] = user[q]
             /\ pass'[q] = pass[q] /\ cred'[q] = cred[q] /\ before'[q] = before[q]
  <2>1. r # q
    BY <1>3 DEF Step, InsertUser, FindUser, FindSession, Rotate, Mint, Drop,
     FindEmail, ClearLinks, ClearWait, AddLink, SendMail, FindLink,
     SetPassword, MarkUsed, Evict, Commit, Abort, Go, Deny
  <2>2. QED
    BY <1>3, <2>1 DEF Step, InsertUser, FindUser, FindSession, Rotate, Mint, Drop,
     FindEmail, ClearLinks, ClearWait, AddLink, SendMail, FindLink,
     SetPassword, MarkUsed, Evict, Commit, Abort, Go, Deny
<1>4. CASE UNCHANGED vars
  BY <1>4 DEF vars
<1> QED
  BY <1>2, <1>3, <1>4 DEF Next, Finished

\* A reset that is no older than an answered request stays so.
LEMMA NotOlderStable ==
  ASSUME TypeOK, [Next]_vars, NEW r \in Req, pc[r] \in Answer,
         NEW s \in Req, NotOlder(s, r)
  PROVE  NotOlder(s, r)' /\ pass'[s] = pass[s]
<1>1. pc[s] \in Answer
  BY DEF NotOlder, Answer
<1> QED
  BY <1>1, AnswerIsFinal DEF NotOlder

\* The password of an account that exists is replaced by a commit only.
LEMMA OnlyCommitReplaces ==
  ASSUME TypeOK, [Next]_vars, NEW u \in User,
         account[u] # NoPassword, account'[u] # account[u]
  PROVE  \E s \in Req : /\ Commit(s) /\ user[s] = u
                        /\ account'[u] = pass[s]
<1> USE DEF TypeOK, tables
<1>1. ASSUME NEW r \in Req, Request(r) PROVE FALSE
  BY <1>1 DEF Request, Arrive, Register, Login, Refresh, Logout,
     ForgotPassword, ResetPassword
<1>2. ASSUME NEW r \in Req, Step(r) \/ Abort(r) PROVE Commit(r)
  BY <1>2 DEF Step, InsertUser, FindUser, FindSession, Rotate, Mint, Drop,
     FindEmail, ClearLinks, ClearWait, AddLink, SendMail, FindLink,
     SetPassword, MarkUsed, Evict, Abort, Deny
<1>3. ASSUME NEW r \in Req, Commit(r) PROVE user[r] = u /\ account'[u] = pass[r]
  BY <1>3 DEF Commit
<1>4. ~UNCHANGED vars
  BY DEF vars
<1> QED
  BY <1>1, <1>2, <1>3, <1>4 DEF Next, Finished

\* A reset becomes successful by committing.
LEMMA OnlyCommitSucceeds ==
  ASSUME TypeOK, Shape, [Next]_vars, NEW r \in Req,
         op'[r] = "reset", pc'[r] = "ok", pc[r] # "ok"
  PROVE  Commit(r)
<1> USE DEF TypeOK, Shape, OwnSteps, StepsOf, Redeeming, Answer, payload
<1>1. ASSUME NEW q \in Req, Request(q) PROVE FALSE
  BY <1>1 DEF Request, Arrive, Register, Login, Refresh, Logout,
     ForgotPassword, ResetPassword
<1>2. ASSUME NEW q \in Req, Step(q) \/ Abort(q) PROVE q = r /\ op[r] = "reset"
  BY <1>2 DEF Step, InsertUser, FindUser, FindSession, Rotate, Mint, Drop,
     FindEmail, ClearLinks, ClearWait, AddLink, SendMail, FindLink,
     SetPassword, MarkUsed, Evict, Commit, Abort, Go, Deny
<1>3. ASSUME Step(r) \/ Abort(r), op[r] = "reset" PROVE Commit(r)
  BY <1>3 DEF Step, InsertUser, FindUser, FindSession, Rotate, Mint, Drop,
     FindEmail, ClearLinks, ClearWait, AddLink, SendMail, FindLink,
     SetPassword, MarkUsed, Evict, Abort, Go, Deny
<1>4. ~UNCHANGED vars
  BY DEF vars
<1> QED
  BY <1>1, <1>2, <1>3, <1>4 DEF Next, Finished

\* A login is past its password check because it was, or because the password
\* it presents is the account's.
LEMMA LoginChecks ==
  ASSUME TypeOK, Shape, [Next]_vars, NEW q \in Req,
         op'[q] = "login", pc'[q] \in {"mint", "ok"}
  PROVE  /\ op[q] = "login" /\ user'[q] = user[q] /\ pass'[q] = pass[q]
         /\ before'[q] = before[q]
         /\ pc[q] \in {"mint", "ok"} \/ pass[q] = account[user[q]]
<1> USE DEF TypeOK, Shape, OwnSteps, StepsOf, Redeeming, Answer, payload
<1>1. ASSUME NEW r \in Req, Request(r) PROVE r # q
  BY <1>1 DEF Request, Arrive, Register, Login, Refresh, Logout,
     ForgotPassword, ResetPassword
<1>2. CASE \E r \in Req : Request(r)
  BY <1>1, <1>2 DEF Request, Arrive, Register, Login, Refresh, Logout,
     ForgotPassword, ResetPassword
<1>3. ASSUME NEW r \in Req, Step(r) \/ Abort(r), r # q
      PROVE  pc'[q] = pc[q] /\ op'[q] = op[q] /\ user'[q] = user[q]
             /\ pass'[q] = pass[q] /\ before'[q] = before[q]
  BY <1>3 DEF Step, InsertUser, FindUser, FindSession, Rotate, Mint, Drop,
     FindEmail, ClearLinks, ClearWait, AddLink, SendMail, FindLink,
     SetPassword, MarkUsed, Evict, Commit, Abort, Go, Deny
<1>4. ASSUME Step(q) \/ Abort(q)
      PROVE  op[q] = "login" /\ pass'[q] = pass[q] /\ before'[q] = before[q]
             /\ (pc[q] = "mint" \/ FindUser(q))
  BY <1>4 DEF Step, InsertUser, FindUser, FindSession, Rotate, Mint, Drop,
     FindEmail, ClearLinks, ClearWait, AddLink, SendMail, FindLink,
     SetPassword, MarkUsed, Evict, Commit, Abort, Go, Deny
<1>5. ASSUME Step(q) \/ Abort(q), op[q] = "login" PROVE user'[q] = user[q]
  BY <1>5 DEF Step, InsertUser, FindUser, FindSession, Rotate, Mint, Drop,
     FindEmail, ClearLinks, ClearWait, AddLink, SendMail, FindLink,
     SetPassword, MarkUsed, Evict, Commit, Abort, Go, Deny
<1>6. ASSUME FindUser(q) PROVE pass[q] = account[user[q]]
  BY <1>6 DEF FindUser, Go, Deny
<1>7. CASE UNCHANGED vars
  BY <1>7 DEF vars
<1> QED
  BY <1>2, <1>3, <1>4, <1>5, <1>6, <1>7 DEF Next, Finished

\* After a reset the account's password, and the password of every login that
\* arrived since and passed its check, is that of a reset no older.
LEMMA PasswordStep ==
  ASSUME TypeOK, Shape, PasswordIsCurrent, [Next]_vars
  PROVE  PasswordIsCurrent'
<1> DEFINE Holds(r, p) == \E s \in Req : NotOlder(s, r) /\ pass[s] = p
<1> SUFFICES ASSUME NEW r \in Req, op'[r] = "reset", pc'[r] = "ok"
             PROVE  /\ Holds(r, account[user[r]])'
                    /\ \A q \in Req :
                         /\ r \in before'[q] /\ op'[q] = "login"
                         /\ pc'[q] \in {"mint", "ok"} /\ user'[q] = user'[r]
                         => Holds(r, pass[q])'
  BY DEF PasswordIsCurrent
<1>1. BeforeIsAnswered'
  BY BeforeStep DEF Shape
<1>2. CASE pc[r] # "ok"
  <2>1. Commit(r)
    BY <1>2, OnlyCommitSucceeds
  <2>2. user[r] \in User
    <3>1. op[r] = "reset" /\ pc[r] = "commit"
      BY <2>1 DEF Commit, Go, payload
    <3>2. cred[r] \in Id /\ linkOwner[cred[r]] # NoUser
          /\ user[r] = linkOwner[cred[r]]
      BY <3>1 DEF Shape, FreshIds, ActsForAccount, Redeeming
    <3> QED
      BY <3>2 DEF TypeOK
  <2>3. NotOlder(r, r)' /\ pass'[r] = account'[user'[r]]
    BY <1>1, <2>1, <2>2 DEF Commit, Go, payload, TypeOK, NotOlder, BeforeIsAnswered
  <2>4. ASSUME NEW q \in Req PROVE r \notin before'[q]
    BY <1>2, <2>1, DistinctValues
       DEF Commit, Go, payload, Shape, BeforeIsAnswered, Answered, Answer
  <2> QED
    BY <2>3, <2>4
<1>3. CASE pc[r] = "ok"
  <2>1. /\ op[r] = "reset" /\ user'[r] = user[r] /\ before'[r] = before[r]
        /\ pc[r] \in Answer
    BY <1>3, AnswerIsFinal DEF Answer
  <2>2. PICK s \in Req : NotOlder(s, r) /\ pass[s] = account[user[r]]
    BY <1>3, <2>1 DEF PasswordIsCurrent
  <2>3. NotOlder(s, r)' /\ pass'[s] = account[user[r]]
    BY <2>1, <2>2, NotOlderStable
  <2>4. Holds(r, account[user[r]])'
    <3>1. user[r] \in User /\ account[user[r]] # NoPassword
      BY <1>3, <2>1 DEF Shape, FreshIds, ActsForAccount, RowsHaveAccounts, TypeOK
    <3>2. CASE account'[user[r]] = account[user[r]]
      BY <2>1, <2>3, <3>2
    <3>3. CASE account'[user[r]] # account[user[r]]
      <4>1. PICK c \in Req : /\ Commit(c) /\ user[c] = user[r]
                             /\ account'[user[r]] = pass[c]
        BY <3>1, <3>3, OnlyCommitReplaces
      <4>2. op[c] = "reset" /\ c \notin before[r]
        BY <4>1, DistinctValues
           DEF Commit, Shape, OwnSteps, StepsOf, Redeeming, Answer,
               BeforeIsAnswered, Answered, TypeOK, Op
      <4>3. NotOlder(c, r)' /\ pass'[c] = pass[c]
        BY <2>1, <4>1, <4>2 DEF Commit, Go, payload, NotOlder, TypeOK
      <4> QED
        BY <2>1, <4>1, <4>3
    <3> QED
      BY <3>2, <3>3
  <2>5. ASSUME NEW q \in Req, r \in before'[q], op'[q] = "login",
               pc'[q] \in {"mint", "ok"}, user'[q] = user'[r]
        PROVE  Holds(r, pass[q])'
    <3>1. /\ op[q] = "login" /\ user[q] = user[r] /\ r \in before[q]
          /\ pass'[q] = pass[q]
          /\ pc[q] \in {"mint", "ok"} \/ pass[q] = account[user[q]]
      BY <2>1, <2>5, LoginChecks
    <3>2. CASE pc[q] \in {"mint", "ok"}
      <4>1. PICK c \in Req : NotOlder(c, r) /\ pass[c] = pass[q]
        BY <1>3, <2>1, <3>1, <3>2 DEF PasswordIsCurrent
      <4> QED
        BY <2>1, <3>1, <4>1, NotOlderStable
    <3>3. CASE pass[q] = account[user[q]]
      BY <2>3, <3>1, <3>3
    <3> QED
      BY <3>1, <3>2, <3>3
  <2> QED
    BY <2>4, <2>5
<1> QED
  BY <1>2, <1>3

-----------------------------------------------------------------------------
(* The invariant and what follows from it *)

\* The invariant holds before the first request: only Past rows exist.
LEMMA InitIndInv == Init => IndInv
<1> SUFFICES ASSUME Init PROVE IndInv
  OBVIOUS
<1> USE DistinctValues DEF Init, Answer
<1>1. TypeOK
  BY DEF TypeOK, Id, Op
<1>2. OwnSteps /\ FreshIds /\ ActsForAccount
  BY <1>1 DEF TypeOK, Id, OwnSteps, StepsOf, FreshIds, ActsForAccount, Redeeming
<1>3. RowsHaveAccounts /\ DoomedIsOwn /\ BeforeIsAnswered
  BY <1>1 DEF TypeOK, RowsHaveAccounts, DoomedIsOwn, BeforeIsAnswered
<1>4. Spent /\ Evicted /\ PasswordIsCurrent
  BY DEF Spent, Evicted, ResetEvicts, PasswordIsCurrent
<1>5. LinksSuperseded /\ EvictionHasCause
  BY DEF LinksSuperseded, ForgotSupersedes, EvictionHasCause, Id
<1> QED
  BY <1>1, <1>2, <1>3, <1>4, <1>5 DEF IndInv, Shape

\* Every statement, arrival and failure keeps the invariant.
LEMMA IndInvStep == IndInv /\ [Next]_vars => IndInv'
BY TypeStep, ShapeStep, SpentStep, EvictedStep, PasswordStep, LinksStep,
   CauseStep DEF IndInv

\* The inductive invariant holds in every reachable state, for any sets of
\* accounts, passwords and requests.
THEOREM Inductive == Spec => []IndInv
BY InitIndInv, IndInvStep, PTL DEF Spec

\* The types of the tables and of the requests' local state hold always.
THEOREM TypeCorrect == Spec => []TypeOK
<1>1. IndInv => TypeOK
  BY DEF IndInv
<1> QED
  BY <1>1, Inductive, PTL

\* Two successful requests with the same refresh token, or the same reset
\* link, overlap.
THEOREM CredentialsAreSingleUse == Spec => []SingleUse
<1>1. IndInv => SingleUse
  BY DEF IndInv, Spent, SingleUse
<1> QED
  BY <1>1, Inductive, PTL

\* A successful reset_password leaves no session older than itself.
THEOREM ResetEndsSessions == Spec => []ResetEvicts
<1>1. IndInv => ResetEvicts
  BY DEF IndInv, Evicted
<1> QED
  BY <1>1, Inductive, PTL

\* After a reset no login succeeds with a password older than the reset.
THEOREM ResetReplacesPassword == Spec => []OldPasswordRefused
<1>1. IndInv => OldPasswordRefused
  BY DEF IndInv, PasswordIsCurrent, OldPasswordRefused, NotOlder
<1> QED
  BY <1>1, Inductive, PTL

\* A new reset link removes the links whose requests were answered before.
THEOREM NewLinkSupersedes == Spec => []ForgotSupersedes
<1>1. IndInv => ForgotSupersedes
  BY DEF IndInv, LinksSuperseded
<1> QED
  BY <1>1, Inductive, PTL

\* A session ends only by its own token or by a reset of its account.
THEOREM SessionsEndForCause == Spec => []EvictionHasCause
<1>1. IndInv => EvictionHasCause
  BY DEF IndInv
<1> QED
  BY <1>1, Inductive, PTL

\* A password changes together with its link and the sessions it evicts.
THEOREM ResetIsAtomic == Spec => ResetAllOrNothing
<1> DEFINE A == \A u \in User : account[u] \notin {NoPassword, account'[u]} =>
       \E r \in Req : /\ op[r] = "reset" /\ user[r] = u
                      /\ ~Redeemable(cred[r])'
                      /\ live' \cap doomed[r] = {} /\ doomed'[r] = {}
<1>1. ASSUME IndInv, [Next]_vars PROVE [A]_vars
  <2> SUFFICES ASSUME NEW u \in User, account[u] # NoPassword,
                      account'[u] # account[u]
               PROVE  \E r \in Req :
                         /\ op[r] = "reset" /\ user[r] = u
                         /\ ~Redeemable(cred[r])'
                         /\ live' \cap doomed[r] = {} /\ doomed'[r] = {}
    OBVIOUS
  <2>1. PICK r \in Req : Commit(r) /\ user[r] = u
    BY <1>1, OnlyCommitReplaces DEF IndInv
  <2>2. op[r] = "reset"
    BY <1>1, <2>1 DEF Commit, IndInv, Shape, OwnSteps, StepsOf, Redeeming,
       Answer, TypeOK, Op
  <2> QED
    BY <1>1, <2>1, <2>2 DEF Commit, Go, payload, IndInv, TypeOK, Redeemable
<1>2. QED
  BY <1>1, Inductive, PTL DEF Spec, ResetAllOrNothing

-----------------------------------------------------------------------------
(* Refinement *)

\* The tables a server starts with are those of a ledger.
LEMMA LedgerInit == Init => Ledger!Init
BY DEF Init, Ledger!Init, Ledger!HasAccount, Id

\* The statements that leave the tables alone are stuttering steps.
LEMMA LedgerStep ==
  ASSUME IndInv, [Next]_vars
  PROVE  [Ledger!Next]_(Ledger!ledger)
<1> USE DistinctValues DEF IndInv, TypeOK, tables, Ledger!ledger
<1>1. ASSUME NEW r \in Req, Request(r) PROVE UNCHANGED Ledger!ledger
  BY <1>1 DEF Request, Arrive, Register, Login, Refresh, Logout,
     ForgotPassword, ResetPassword
<1>2. ASSUME NEW r \in Req, Step(r) \/ Abort(r)
      PROVE  Ledger!Next \/ UNCHANGED Ledger!ledger
  <2>1. CASE InsertUser(r)
    <3>1. CASE UNCHANGED tables
      BY <3>1
    <3>2. CASE ~UNCHANGED tables
      <4>1. user[r] \in User /\ pass[r] \in Password
        BY <2>1 DEF InsertUser, Shape, ActsForAccount
      <4>2. Ledger!OpenAccount(user[r], pass[r])
        BY <2>1, <3>2 DEF InsertUser, Deny, Ledger!OpenAccount, Ledger!HasAccount
      <4> QED
        BY <4>1, <4>2 DEF Ledger!Next
    <3> QED
      BY <3>1, <3>2
  <2>2. CASE Rotate(r)
    <3>1. cred[r] \in Id /\ Ledger!Revoke(cred[r])
      BY <2>2 DEF Rotate, Ledger!Revoke, Shape, FreshIds, OwnSteps, StepsOf,
         Redeeming, Answer, Op
    <3> QED
      BY <3>1 DEF Ledger!Next
  <2>3. CASE Mint(r)
    <3>1. user[r] \in User /\ account[user[r]] # NoPassword
      BY <2>3 DEF Mint, Shape, ActsForAccount
    <3>2. owner[r] = NoUser
      BY <2>3 DEF Mint, Shape, FreshIds
    <3>3. Ledger!Grant(user[r], r)
      BY <2>3, <3>1, <3>2 DEF Mint, Ledger!Grant, Ledger!HasAccount
    <3> QED
      BY <3>1, <3>3 DEF Ledger!Next, Id
  <2>4. CASE Drop(r)
    <3>1. CASE UNCHANGED tables
      BY <3>1
    <3>2. CASE cred[r] \in live
      BY <2>4, <3>2 DEF Drop, Deny, Go, Ledger!Revoke, Ledger!Next
    <3> QED
      BY <2>4, <3>1, <3>2 DEF Drop, Deny
  <2>5. CASE ClearLinks(r) \/ ClearWait(r)
    <3>1. user[r] \in User
      BY <2>5 DEF ClearLinks, ClearWait, Shape, ActsForAccount
    <3>2. LinksOf(user[r]) \in SUBSET {k \in Id : linkOwner[k] = user[r]}
      BY DEF LinksOf
    <3>3. pc[r] = "clear_wait" =>
            doomed[r] \in SUBSET {k \in Id : linkOwner[k] = user[r]}
      BY DEF Shape, DoomedIsOwn
    <3>4. CASE UNCHANGED tables
      BY <3>4
    <3>5. CASE ~UNCHANGED tables
      <4>1. Ledger!Withdraw(user[r])
        BY <2>5, <3>2, <3>3, <3>5 DEF ClearLinks, ClearWait, Ledger!Withdraw
      <4> QED
        BY <3>1, <4>1 DEF Ledger!Next
    <3> QED
      BY <3>4, <3>5
  <2>6. CASE AddLink(r)
    <3>1. user[r] \in User /\ account[user[r]] # NoPassword
      BY <2>6 DEF AddLink, Shape, ActsForAccount
    <3>2. linkOwner[r] = NoUser
      BY <2>6 DEF AddLink, Shape, FreshIds
    <3>3. Ledger!SendLink(user[r], r)
      BY <2>6, <3>1, <3>2 DEF AddLink, Ledger!SendLink, Ledger!HasAccount
    <3> QED
      BY <3>1, <3>3 DEF Ledger!Next, Id
  <2>7. CASE Commit(r)
    <3>1. op[r] = "reset"
      BY <2>7 DEF Commit, Shape, OwnSteps, StepsOf, Redeeming, Answer, Op
    <3>2. /\ cred[r] \in Id /\ linkOwner[cred[r]] = user[r]
          /\ user[r] \in User /\ pass[r] \in Password
      BY <2>7, <3>1 DEF Commit, Shape, FreshIds, ActsForAccount, Redeeming
    <3>3. doomed[r] \in SUBSET {t \in Id : owner[t] = user[r]}
      BY <2>7 DEF Commit, Shape, DoomedIsOwn
    <3>4. Ledger!Recover(user[r], pass[r], cred[r])
      BY <2>7, <3>2, <3>3 DEF Commit, Ledger!Recover
    <3> QED
      BY <3>2, <3>4 DEF Ledger!Next
  <2>8. CASE \/ FindUser(r) \/ FindSession(r) \/ FindEmail(r) \/ SendMail(r)
             \/ FindLink(r) \/ SetPassword(r) \/ MarkUsed(r) \/ Evict(r)
             \/ Abort(r)
    BY <2>8 DEF FindUser, FindSession, FindEmail, SendMail, FindLink,
       SetPassword, MarkUsed, Evict, Abort, Deny
  <2> QED
    BY <1>2, <2>1, <2>2, <2>3, <2>4, <2>5, <2>6, <2>7, <2>8 DEF Step
<1>3. CASE UNCHANGED vars
  BY <1>3 DEF vars
<1> QED
  BY <1>1, <1>2, <1>3 DEF Next, Finished

\* The service implements the ledger: whatever the requests do, its tables
\* change only by the atomic steps that CredentialLedger allows.
THEOREM ImplementsLedger == Spec => LedgerSpec
<1>1. IndInv /\ [Next]_vars => [Ledger!Next]_(Ledger!ledger)
  BY LedgerStep
<1> QED
  BY <1>1, LedgerInit, Inductive, PTL DEF Spec, LedgerSpec, Ledger!Spec
=============================================================================
