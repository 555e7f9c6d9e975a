---------------------------- MODULE ServerProofs ----------------------------
(***************************************************************************)
(* Theorems of four parts of the server that know nothing of each other:   *)
(* the access codes and signatures of the lenders (LenderAccess), for any  *)
(* codes, wallets, e-mails, nonces and requests in progress; the fees for  *)
(* unused credit (CreditMaintenance), for any borrowers, charges and       *)
(* calculations; the queue of JSON-RPC requests (RpcThrottle), for any     *)
(* requests and slots; and the application of a borrower (Onboarding),     *)
(* for any staff and tabs.                                                 *)
(***************************************************************************)
EXTENDS LenderAccess, CreditMaintenance, RpcThrottle, Onboarding, SumTheorems,
        FiniteSetTheorems, TLAPS

-----------------------------------------------------------------------------
(* Lender access: the invariant *)

\* The handler has claimed the code, for its lender.
holds(h, c) ==
    /\ calls[h].op \in {"redeem", "create"} /\ calls[h].code = c
    /\ calls[h].op = "redeem" => calls[h].step > 2

holder(h) == IF calls[h].op = "create" THEN calls[h].email ELSE calls[h].wallet

\* A code that may still be claimed is held by nobody and has let nobody in.
UnclaimedInv ==
    \A c \in Codes :
        code[c].state \in {"none", "minted"} =>
            /\ code[c].lender = Nobody
            /\ \A h \in Handlers : ~holds(h, c)
            /\ \A l \in Lenders : <<l, c>> \notin admitted

\* One that was claimed is held, and lets in, for whom it was claimed.
ClaimedInv ==
    \A c \in Codes :
        /\ \A h \in Handlers : holds(h, c) => code[c].usedBy = holder(h)
        /\ \A l \in Lenders : <<l, c>> \in admitted => code[c].usedBy = l

AdmittedInv == lenders = {a[1] : a \in admitted}

\* A nonce that a signature was taken with is spent.
SpentInv == \A n \in Nonces : accepted[n] # 0 => nonce[n].state = "consumed"

AccessInv ==
    AccessTypeOK /\ UnclaimedInv /\ ClaimedInv /\ AdmittedInv /\ SpentInv /\ CodeNotWasted

RedeemCall ==
    [op : {"redeem"}, code : Codes, wallet : Wallets, nonce : Nonces, genuine : BOOLEAN,
     step : 1 .. 5, known : BOOLEAN]

SignUpCall == [op : {"claim", "create"}, code : Codes, email : Emails]

others(h) == \A k \in Handlers \ {h} : calls'[k] = calls[k]

-----------------------------------------------------------------------------
(* Lender access: calls *)

\* What a call in progress is, by its name.
LEMMA CallShapes ==
    ASSUME AccessTypeOK, NEW h \in Handlers
    PROVE  /\ calls[h].op = "redeem" => calls[h] \in RedeemCall
           /\ calls[h].op \in {"claim", "create"} => calls[h] \in SignUpCall
           /\ calls[h].op = "delete" => calls[h].code \in Codes
           /\ calls[h].op = "login" => calls[h].nonce \in Nonces /\ calls[h].genuine \in BOOLEAN
<1>1. calls[h] \in Call /\ DOMAIN redeemSteps = 1 .. 5  BY DEF AccessTypeOK, redeemSteps
<1> QED  BY <1>1 DEF Call, NoCall, RedeemCall, SignUpCall

\* The steps of a redemption are the numbers one to five.
LEMMA RedeemStepsAre ==
    ASSUME NEW h, calls[h] \in RedeemCall
    PROVE  /\ redeeming(h, "verify") => calls[h].step = 1
           /\ redeeming(h, "claim")  => calls[h].step = 2
           /\ redeeming(h, "find")   <=> calls[h].step = 3
           /\ redeeming(h, "lender") <=> calls[h].step = 4
           /\ redeeming(h, "attach") => calls[h].step = 5
  BY DEF redeeming, redeemSteps, RedeemCall

\* A redemption that goes on keeps its code and its wallet.
LEMMA OnwardCall ==
    ASSUME AccessTypeOK, NEW h \in Handlers, NEW call \in RedeemCall, call.step < 5, onward(h, call)
    PROVE  /\ calls' \in [Handlers -> Call] /\ others(h)
           /\ calls'[h] \in RedeemCall
           /\ calls'[h].step = call.step + 1
           /\ calls'[h].code = call.code /\ calls'[h].wallet = call.wallet
<1> DEFINE next == [call EXCEPT !.step = @ + 1]
<1>1. Len(redeemSteps) = 5 /\ DOMAIN redeemSteps = 1 .. 5  BY DEF redeemSteps
<1>2. calls' = [calls EXCEPT ![h] = next]  BY <1>1 DEF onward, continue, RedeemCall
<1>3. /\ next \in RedeemCall
      /\ next.step = call.step + 1 /\ next.code = call.code /\ next.wallet = call.wallet
  BY DEF RedeemCall
<1>4. next \in Call  BY <1>1, <1>3 DEF RedeemCall, Call
<1>5. calls \in [Handlers -> Call]  BY DEF AccessTypeOK
<1> QED  BY <1>2, <1>3, <1>4, <1>5 DEF others

LEMMA FinishedCall ==
    ASSUME AccessTypeOK, NEW h \in Handlers, finish(h)
    PROVE  calls' \in [Handlers -> Call] /\ others(h) /\ calls'[h] = NoCall
  BY DEF finish, continue, AccessTypeOK, Call, others

-----------------------------------------------------------------------------
(* What a call may do to the invariant *)

\* What another handler has claimed is still in use.
LEMMA InUseKept ==
    ASSUME AccessTypeOK, NEW h \in Handlers, others(h), NEW c \in Codes, ~holds(h, c), inUse(c)
    PROVE  inUse(c)'
<1>1. PICK k \in Handlers :
          \/ calls[k].op = "create" /\ calls[k].code = c
          \/ (redeeming(k, "find") \/ redeeming(k, "lender")) /\ calls[k].code = c
  BY DEF inUse
<1>2. redeeming(k, "find") \/ redeeming(k, "lender") => calls[k].step > 2
  BY CallShapes, RedeemStepsAre DEF redeeming
<1>3. k # h  BY <1>1, <1>2 DEF holds, redeeming
<1> QED  BY <1>1, <1>3 DEF inUse, redeeming, others

\* One that holds no code, and whose handler held none, disturbs nothing but its own type.
LEMMA IdleCall ==
    ASSUME AccessInv, NEW h \in Handlers, calls' \in [Handlers -> Call], others(h),
           \A c \in Codes : ~holds(h, c) /\ ~holds(h, c)',
           UNCHANGED <<code, lenders, restarts, admitted>>
    PROVE  UnclaimedInv' /\ ClaimedInv' /\ AdmittedInv' /\ CodeNotWasted'
<1> USE DEF AccessInv
<1>1. \A k \in Handlers \ {h}, c \in Codes :
          (holds(k, c)' <=> holds(k, c)) /\ holder(k)' = holder(k)
  BY DEF others, holds, holder
<1>2. UnclaimedInv'  BY <1>1 DEF UnclaimedInv
<1>3. ClaimedInv'  BY <1>1 DEF ClaimedInv
<1>4. AdmittedInv'  BY DEF AdmittedInv
<1>5. CodeNotWasted'  BY InUseKept DEF CodeNotWasted
<1> QED  BY <1>2, <1>3, <1>4, <1>5

LEMMA BeginInv ==
    ASSUME AccessInv, NEW h \in Handlers, NEW call \in Call, begin(h, call),
           call.op # "create", call.op = "redeem" => call.step = 1,
           UNCHANGED <<code, nonce, lenders, restarts, admitted, accepted>>
    PROVE  AccessInv'
<1>1. calls' \in [Handlers -> Call] /\ others(h) /\ calls'[h] = call
  BY DEF begin, AccessInv, AccessTypeOK, others
<1>2. \A c \in Codes : ~holds(h, c) /\ ~holds(h, c)'
  BY <1>1 DEF begin, holds, NoCall
<1>3. AccessTypeOK'  BY <1>1 DEF AccessInv, AccessTypeOK
<1>4. SpentInv'  BY DEF AccessInv, SpentInv
<1> QED  BY <1>1, <1>2, <1>3, <1>4, IdleCall DEF AccessInv

\* A signature is taken with a nonce that no other was taken with.
LEMMA SignatureInv ==
    ASSUME AccessTypeOK, SpentInv, NEW c, c.nonce \in Nonces, verifySignature(c)
    PROVE  nonce' \in [Nonces -> NonceDoc] /\ accepted' \in [Nonces -> 0 .. 1] /\ SpentInv'
<1>1. CASE claimableNonce(c.nonce, c.wallet)
  <2>1. accepted[c.nonce] = 0  BY <1>1 DEF claimableNonce, SpentInv
  <2>2. nonce' = [nonce EXCEPT ![c.nonce].state = "consumed"]  BY <1>1 DEF verifySignature
  <2>3. accepted' = accepted \/ accepted' = [accepted EXCEPT ![c.nonce] = @ + 1]
    BY <1>1 DEF verifySignature
  <2>4. nonce' \in [Nonces -> NonceDoc]  BY <2>2 DEF AccessTypeOK, NonceDoc
  <2>5. accepted' \in [Nonces -> 0 .. 1]  BY <2>1, <2>3 DEF AccessTypeOK
  <2>6. SpentInv'  BY <2>1, <2>2, <2>3 DEF AccessTypeOK, SpentInv
  <2> QED  BY <2>4, <2>5, <2>6
<1>2. CASE ~claimableNonce(c.nonce, c.wallet)
  BY <1>2 DEF verifySignature, AccessTypeOK, SpentInv
<1> QED  BY <1>1, <1>2

-----------------------------------------------------------------------------
(* The administrator *)

LEMMA CreateCodeInv ==
    ASSUME AccessInv, NEW c \in Codes, CreateCode(c)
    PROVE  AccessInv'
<1> USE DEF AccessInv, CreateCode
<1>1. AccessTypeOK'  BY DEF AccessTypeOK, CodeDoc
<1>2. UnclaimedInv'  BY DEF UnclaimedInv, AccessTypeOK, holds
<1>3. ClaimedInv'  BY DEF ClaimedInv, AccessTypeOK, holds, holder
<1>4. AdmittedInv' /\ SpentInv'  BY DEF AdmittedInv, SpentInv
<1>5. CodeNotWasted'  BY DEF CodeNotWasted, inUse, redeeming, AccessTypeOK
<1> QED  BY <1>1, <1>2, <1>3, <1>4, <1>5

LEMMA CodeExpiresInv ==
    ASSUME AccessInv, NEW c \in Codes, CodeExpires(c)
    PROVE  AccessInv'
<1> USE DEF AccessInv, CodeExpires
<1>1. AccessTypeOK'  BY DEF AccessTypeOK, CodeDoc
<1>2. UnclaimedInv'  BY DEF UnclaimedInv, AccessTypeOK, holds
<1>3. ClaimedInv'  BY DEF ClaimedInv, AccessTypeOK, holds, holder
<1>4. AdmittedInv' /\ SpentInv'  BY DEF AdmittedInv, SpentInv
<1>5. CodeNotWasted'  BY DEF CodeNotWasted, inUse, redeeming, AccessTypeOK
<1> QED  BY <1>1, <1>2, <1>3, <1>4, <1>5

LEMMA DeleteInv ==
    ASSUME AccessInv, NEW h \in Handlers, Delete(h)
    PROVE  AccessInv'
<1> USE DEF AccessInv, Delete
<1>1. calls' \in [Handlers -> Call] /\ others(h) /\ calls'[h] = NoCall  BY FinishedCall
<1>2. calls[h].code \in Codes  BY CallShapes
<1>3. \A k \in Handlers, c \in Codes : holds(k, c)' => holds(k, c) /\ holder(k)' = holder(k)
  BY <1>1 DEF others, holds, holder, NoCall
<1>4. AccessTypeOK'  BY <1>1, <1>2 DEF AccessTypeOK, CodeDoc
<1>5. UnclaimedInv'  BY <1>2, <1>3 DEF UnclaimedInv, AccessTypeOK
<1>6. ClaimedInv'  BY <1>2, <1>3 DEF ClaimedInv, AccessTypeOK
<1>7. AdmittedInv' /\ SpentInv'  BY DEF AdmittedInv, SpentInv
<1>8. CodeNotWasted'
  BY <1>1, <1>2 DEF CodeNotWasted, inUse, redeeming, others, AccessTypeOK
<1> QED  BY <1>4, <1>5, <1>6, <1>7, <1>8

-----------------------------------------------------------------------------
(* Nonces and signing in *)

LEMMA IssueNonceInv ==
    ASSUME AccessInv, NEW n \in Nonces, NEW w \in Wallets, IssueNonce(n, w)
    PROVE  AccessInv'
<1> USE DEF AccessInv, IssueNonce
<1>1. AccessTypeOK'  BY DEF AccessTypeOK, NonceDoc, NoNonce
<1>2. SpentInv'  BY DEF SpentInv, AccessTypeOK
<1>3. UnclaimedInv' /\ ClaimedInv' /\ AdmittedInv'
  BY DEF UnclaimedInv, ClaimedInv, AdmittedInv, holds, holder
<1>4. CodeNotWasted'  BY DEF CodeNotWasted, inUse, redeeming
<1> QED  BY <1>1, <1>2, <1>3, <1>4

LEMMA NonceExpiresInv ==
    ASSUME AccessInv, NEW n \in Nonces, NonceExpires(n)
    PROVE  AccessInv'
<1> USE DEF AccessInv, NonceExpires
<1>1. AccessTypeOK'  BY DEF AccessTypeOK, NonceDoc
<1>2. SpentInv'  BY DEF SpentInv, AccessTypeOK
<1>3. UnclaimedInv' /\ ClaimedInv' /\ AdmittedInv'
  BY DEF UnclaimedInv, ClaimedInv, AdmittedInv, holds, holder
<1>4. CodeNotWasted'  BY DEF CodeNotWasted, inUse, redeeming
<1> QED  BY <1>1, <1>2, <1>3, <1>4

LEMMA LoginVerifyInv ==
    ASSUME AccessInv, NEW h \in Handlers, LoginVerify(h)
    PROVE  AccessInv'
<1> USE DEF AccessInv, LoginVerify
<1>1. calls' \in [Handlers -> Call] /\ others(h) /\ calls'[h] = NoCall  BY FinishedCall
<1>2. \A c \in Codes : ~holds(h, c) /\ ~holds(h, c)'  BY <1>1 DEF holds, NoCall
<1>3. nonce' \in [Nonces -> NonceDoc] /\ accepted' \in [Nonces -> 0 .. 1] /\ SpentInv'
  BY CallShapes, SignatureInv
<1>4. AccessTypeOK'  BY <1>1, <1>3 DEF AccessTypeOK
<1> QED  BY <1>1, <1>2, <1>3, <1>4, IdleCall

-----------------------------------------------------------------------------
(* Redemptions *)

LEMMA RedeemVerifyInv ==
    ASSUME AccessInv, NEW h \in Handlers, RedeemVerify(h)
    PROVE  AccessInv'
<1> USE DEF AccessInv, RedeemVerify
<1>1. calls[h] \in RedeemCall /\ calls[h].step = 1
  BY CallShapes, RedeemStepsAre DEF redeeming
<1>2. calls' \in [Handlers -> Call] /\ others(h) /\ \A c \in Codes : ~holds(h, c)'
  <2>1. CASE verified(calls[h])
    <3>1. onward(h, calls[h])  BY <2>1
    <3>2. calls'[h] \in RedeemCall /\ calls'[h].step = 2  BY <1>1, <3>1, OnwardCall
    <3> QED  BY <1>1, <3>1, <3>2, OnwardCall DEF holds, RedeemCall
  <2>2. CASE ~verified(calls[h])  BY <2>2, FinishedCall DEF holds, NoCall
  <2> QED  BY <2>1, <2>2
<1>3. \A c \in Codes : ~holds(h, c)  BY <1>1 DEF holds, RedeemCall
<1>4. nonce' \in [Nonces -> NonceDoc] /\ accepted' \in [Nonces -> 0 .. 1] /\ SpentInv'
  <2>1. calls[h].nonce \in Nonces  BY <1>1 DEF RedeemCall
  <2> QED  BY <2>1, SignatureInv
<1>5. AccessTypeOK'  BY <1>2, <1>4 DEF AccessTypeOK
<1> QED  BY <1>2, <1>3, <1>4, <1>5, IdleCall

\* Claiming a code, for a redemption or a sign-up.
LEMMA ClaimInv ==
    ASSUME AccessInv, NEW h \in Handlers, NEW c \in Codes, NEW l \in Lenders,
           claimableCode(c), code' = claimed(c, l),
           calls' \in [Handlers -> Call], others(h), \A d \in Codes : ~holds(h, d),
           \A d \in Codes : holds(h, d)' => d = c, holder(h)' = l, inUse(c)',
           UNCHANGED <<nonce, lenders, restarts, admitted, accepted>>
    PROVE  AccessInv'
<1> USE DEF AccessInv, claimableCode, claimed
<1>1. \A k \in Handlers \ {h}, d \in Codes :
          (holds(k, d)' <=> holds(k, d)) /\ holder(k)' = holder(k)
  BY DEF others, holds, holder
<1>2. AccessTypeOK'  BY DEF AccessTypeOK, CodeDoc, UnclaimedInv
<1>3. UnclaimedInv'  BY <1>1 DEF UnclaimedInv, AccessTypeOK
<1>4. ClaimedInv'  BY <1>1 DEF ClaimedInv, UnclaimedInv, AccessTypeOK
<1>5. AdmittedInv' /\ SpentInv'  BY DEF AdmittedInv, SpentInv
<1>6. CodeNotWasted'  BY InUseKept DEF CodeNotWasted, AccessTypeOK
<1> QED  BY <1>2, <1>3, <1>4, <1>5, <1>6

LEMMA RedeemClaimInv ==
    ASSUME AccessInv, NEW h \in Handlers, RedeemClaim(h)
    PROVE  AccessInv'
<1> USE DEF AccessInv
<1>1. calls[h] \in RedeemCall /\ calls[h].step = 2
  BY CallShapes, RedeemStepsAre DEF RedeemClaim, redeeming
<1>2. \A c \in Codes : ~holds(h, c)  BY <1>1 DEF holds, RedeemCall
<1>3. UNCHANGED <<nonce, lenders, restarts, admitted, accepted>>  BY DEF RedeemClaim
<1>4. CASE claimableCode(calls[h].code)
  <2>1. code' = claimed(calls[h].code, calls[h].wallet) /\ onward(h, calls[h])
    BY <1>4 DEF RedeemClaim
  <2>2. /\ calls' \in [Handlers -> Call] /\ others(h)
        /\ calls'[h] \in RedeemCall /\ calls'[h].step = 3
        /\ calls'[h].code = calls[h].code /\ calls'[h].wallet = calls[h].wallet
    BY <1>1, <2>1, OnwardCall
  <2>3. /\ \A d \in Codes : holds(h, d)' => d = calls[h].code
        /\ holder(h)' = calls[h].wallet
    BY <2>2 DEF holds, holder, RedeemCall
  <2>4. inUse(calls[h].code)'
    <3>1. redeeming(h, "find")'  BY <2>2 DEF redeeming, redeemSteps, RedeemCall
    <3> QED  BY <2>2, <3>1 DEF inUse
  <2>5. calls[h].code \in Codes /\ calls[h].wallet \in Lenders  BY <1>1 DEF RedeemCall, Lenders
  <2> QED  BY <1>2, <1>3, <1>4, <2>1, <2>2, <2>3, <2>4, <2>5, ClaimInv
<1>5. CASE ~claimableCode(calls[h].code)
  <2>1. finish(h) /\ UNCHANGED code  BY <1>5 DEF RedeemClaim
  <2>2. calls' \in [Handlers -> Call] /\ others(h) /\ calls'[h] = NoCall  BY <2>1, FinishedCall
  <2>3. \A c \in Codes : ~holds(h, c)'  BY <2>2 DEF holds, NoCall
  <2>4. AccessTypeOK' /\ SpentInv'  BY <1>3, <2>1, <2>2 DEF AccessTypeOK, SpentInv
  <2> QED  BY <1>2, <1>3, <2>1, <2>2, <2>3, <2>4, IdleCall
<1> QED  BY <1>4, <1>5

\* A redemption that holds its code goes on.
LEMMA HoldingOnward ==
    ASSUME AccessInv, NEW h \in Handlers, NEW call \in RedeemCall, calls[h] \in RedeemCall,
           calls[h].step > 2, call.step = calls[h].step, call.step < 5,
           call.code = calls[h].code, call.wallet = calls[h].wallet, onward(h, call)
    PROVE  /\ calls' \in [Handlers -> Call] /\ others(h)
           /\ \A k \in Handlers, c \in Codes :
                  (holds(k, c)' <=> holds(k, c)) /\ (holds(k, c) => holder(k)' = holder(k))
<1>1. /\ calls' \in [Handlers -> Call] /\ others(h)
      /\ calls'[h] \in RedeemCall /\ calls'[h].step = calls[h].step + 1
      /\ calls'[h].code = calls[h].code /\ calls'[h].wallet = calls[h].wallet
  BY OnwardCall DEF AccessInv
<1>2. \A c \in Codes : (holds(h, c)' <=> holds(h, c)) /\ holder(h)' = holder(h)
  BY <1>1 DEF holds, holder, RedeemCall
<1> QED  BY <1>1, <1>2 DEF others, holds, holder

LEMMA RedeemFindInv ==
    ASSUME AccessInv, NEW h \in Handlers, RedeemFind(h)
    PROVE  AccessInv'
<1> DEFINE call == [calls[h] EXCEPT !.known = calls[h].wallet \in lenders]
<1> USE DEF AccessInv
<1>1. calls[h] \in RedeemCall /\ calls[h].step = 3
  BY CallShapes, RedeemStepsAre DEF RedeemFind, redeeming
<1>2. /\ call \in RedeemCall /\ call.step = calls[h].step
      /\ call.code = calls[h].code /\ call.wallet = calls[h].wallet
  <2>1. (calls[h].wallet \in lenders) \in BOOLEAN  OBVIOUS
  <2> QED  BY <1>1, <2>1 DEF RedeemCall
<1>3. onward(h, call) /\ UNCHANGED <<code, nonce, lenders, restarts, admitted, accepted>>
  BY DEF RedeemFind
<1> HIDE DEF call
<1>4. /\ calls' \in [Handlers -> Call] /\ others(h)
      /\ \A k \in Handlers, c \in Codes :
             (holds(k, c)' <=> holds(k, c)) /\ (holds(k, c) => holder(k)' = holder(k))
  BY <1>1, <1>2, <1>3, HoldingOnward
<1>5. AccessTypeOK'  BY <1>3, <1>4 DEF AccessTypeOK
<1>6. UnclaimedInv'  BY <1>3, <1>4 DEF UnclaimedInv
<1>7. ClaimedInv'  BY <1>3, <1>4 DEF ClaimedInv
<1>8. AdmittedInv' /\ SpentInv'  BY <1>3 DEF AdmittedInv, SpentInv
<1>9. CodeNotWasted'
  <2>1. inUse(calls[h].code)'
    <3>1. calls'[h] \in RedeemCall /\ calls'[h].step = 4 /\ calls'[h].code = calls[h].code
      BY <1>1, <1>2, <1>3, OnwardCall
    <3>2. redeeming(h, "lender")'  BY <3>1 DEF redeeming, redeemSteps, RedeemCall
    <3> QED  BY <3>1, <3>2 DEF inUse
  <2>2. \A c \in Codes : inUse(c) => inUse(c)'
    BY <1>4, <2>1, InUseKept DEF holds
  <2> QED  BY <1>3, <2>2 DEF CodeNotWasted
<1> QED  BY <1>5, <1>6, <1>7, <1>8, <1>9

\* Whoever holds a code, for a redemption or a sign-up, lets its lender in with it.
LEMMA AdmitInv ==
    ASSUME AccessInv, NEW h \in Handlers, NEW c \in Codes, NEW l \in Lenders,
           holds(h, c), holder(h) = l,
           lenders' = lenders \cup {l}, admitted' = admitted \cup {<<l, c>>},
           calls' \in [Handlers -> Call], others(h),
           \A d \in Codes : holds(h, d)' => d = c /\ holder(h)' = l,
           UNCHANGED <<code, nonce, restarts, accepted>>
    PROVE  AccessInv'
<1> USE DEF AccessInv
<1>1. \A k \in Handlers \ {h}, d \in Codes :
          (holds(k, d)' <=> holds(k, d)) /\ holder(k)' = holder(k)
  BY DEF others, holds, holder
<1>2. code[c].usedBy = l  BY DEF ClaimedInv
<1>3. AccessTypeOK'  BY DEF AccessTypeOK
<1>4. UnclaimedInv'  BY <1>1 DEF UnclaimedInv
<1>5. ClaimedInv'  BY <1>1, <1>2 DEF ClaimedInv
<1>6. AdmittedInv'
  <2>1. <<l, c>>[1] = l  OBVIOUS
  <2> QED  BY <2>1 DEF AdmittedInv
<1>7. SpentInv'  BY DEF SpentInv
<1>8. CodeNotWasted'
  <2> SUFFICES ASSUME NEW d \in Codes, code[d].state = "used"
               PROVE  \/ inUse(d)'
                      \/ \E a \in admitted' : a[2] = d
                      \/ restarts > 0
                      \/ \E a \in admitted' : a[1] = code[d].usedBy /\ a[2] # d
    BY DEF CodeNotWasted
  <2>1. CASE d = c
    <3>1. <<l, c>> \in admitted' /\ <<l, c>>[2] = c  OBVIOUS
    <3> QED  BY <2>1, <3>1
  <2>2. CASE d # c
    <3>1. ~holds(h, d)  BY <2>2 DEF holds
    <3>2. inUse(d) => inUse(d)'  BY <3>1, InUseKept
    <3> QED  BY <3>2 DEF CodeNotWasted
  <2> QED  BY <2>1, <2>2
<1> QED  BY <1>3, <1>4, <1>5, <1>6, <1>7, <1>8

\* One whose lender was let in by another request meanwhile uses its code up.
LEMMA ClashInv ==
    ASSUME AccessInv, NEW h \in Handlers, NEW c \in Codes, holds(h, c), holder(h) \in lenders,
           finish(h), UNCHANGED <<code, nonce, lenders, restarts, admitted, accepted>>
    PROVE  AccessInv'
<1> USE DEF AccessInv
<1>1. calls' \in [Handlers -> Call] /\ others(h) /\ calls'[h] = NoCall  BY FinishedCall
<1>2. \A k \in Handlers, d \in Codes : holds(k, d)' => holds(k, d) /\ holder(k)' = holder(k)
  BY <1>1 DEF others, holds, holder, NoCall
<1>3. AccessTypeOK'  BY <1>1 DEF AccessTypeOK
<1>4. UnclaimedInv'  BY <1>2 DEF UnclaimedInv
<1>5. ClaimedInv'  BY <1>2 DEF ClaimedInv
<1>6. AdmittedInv' /\ SpentInv'  BY DEF AdmittedInv, SpentInv
<1>7. CodeNotWasted'
  <2>1. PICK a \in admitted : a[1] = holder(h)  BY DEF AdmittedInv
  <2>2. code[c].usedBy = a[1]  BY <2>1 DEF ClaimedInv
  <2>3. \A d \in Codes \ {c} : inUse(d) => inUse(d)'
    BY <1>1, InUseKept DEF holds
  <2> QED  BY <2>2, <2>3 DEF CodeNotWasted
<1> QED  BY <1>3, <1>4, <1>5, <1>6, <1>7

LEMMA RedeemLenderInv ==
    ASSUME AccessInv, NEW h \in Handlers, RedeemLender(h)
    PROVE  AccessInv'
<1> DEFINE c == calls[h].code
           l == calls[h].wallet
<1>1. calls[h] \in RedeemCall /\ calls[h].step = 4
  BY CallShapes, RedeemStepsAre DEF AccessInv, RedeemLender, redeeming
<1>2. c \in Codes /\ l \in Lenders /\ holds(h, c) /\ holder(h) = l
  BY <1>1 DEF RedeemCall, Lenders, holds, holder
<1>3. UNCHANGED <<code, nonce, restarts, accepted>>  BY DEF RedeemLender
<1>4. CASE ~calls[h].known /\ l \in lenders
  <2>1. finish(h) /\ UNCHANGED <<lenders, admitted>>  BY <1>4 DEF RedeemLender
  <2> QED  BY <1>2, <1>3, <1>4, <2>1, ClashInv
<1>5. CASE ~(~calls[h].known /\ l \in lenders)
  <2>1. /\ onward(h, calls[h])
        /\ lenders' = lenders \cup {l} /\ admitted' = admitted \cup {<<l, c>>}
    BY <1>5 DEF RedeemLender
  <2>2. /\ calls' \in [Handlers -> Call] /\ others(h)
        /\ calls'[h] \in RedeemCall
        /\ calls'[h].code = c /\ calls'[h].wallet = l
    BY <1>1, <2>1, OnwardCall DEF AccessInv
  <2>3. \A d \in Codes : holds(h, d)' => d = c /\ holder(h)' = l
    BY <2>2 DEF holds, holder, RedeemCall
  <2> QED  BY <1>2, <1>3, <2>1, <2>2, <2>3, AdmitInv
<1> QED  BY <1>4, <1>5

LEMMA RedeemAttachInv ==
    ASSUME AccessInv, NEW h \in Handlers, RedeemAttach(h)
    PROVE  AccessInv'
<1> DEFINE c == calls[h].code
           l == calls[h].wallet
<1> USE DEF AccessInv
<1>1. calls[h] \in RedeemCall /\ calls[h].step = 5
  BY CallShapes, RedeemStepsAre DEF RedeemAttach, redeeming
<1>2. c \in Codes /\ l \in Lenders /\ holds(h, c) /\ holder(h) = l
  BY <1>1 DEF RedeemCall, Lenders, holds, holder
<1>3. code[c].usedBy = l /\ code[c].state \notin {"none", "minted"}
  BY <1>2 DEF ClaimedInv, UnclaimedInv
<1>4. /\ code' = code \/ code' = [code EXCEPT ![c].lender = l]
      /\ finish(h) /\ UNCHANGED <<nonce, lenders, restarts, admitted, accepted>>
  BY DEF RedeemAttach
<1>5. calls' \in [Handlers -> Call] /\ others(h) /\ calls'[h] = NoCall  BY <1>4, FinishedCall
<1>6. \A k \in Handlers, d \in Codes : holds(k, d)' => holds(k, d) /\ holder(k)' = holder(k)
  BY <1>5 DEF others, holds, holder, NoCall
<1>7. /\ code' \in [Codes -> CodeDoc]
      /\ \A d \in Codes : code'[d].state = code[d].state /\ code'[d].usedBy = code[d].usedBy
      /\ \A d \in Codes : code'[d].lender = code[d].lender \/ (d = c /\ code'[d].lender = l)
  <2>1. code \in [Codes -> CodeDoc]  BY DEF AccessTypeOK
  <2>2. CASE code' = code  BY <2>1, <2>2
  <2>3. CASE code' = [code EXCEPT ![c].lender = l]  BY <1>2, <2>1, <2>3 DEF CodeDoc
  <2> QED  BY <1>4, <2>2, <2>3
<1>8. AccessTypeOK'  BY <1>3, <1>4, <1>5, <1>7 DEF AccessTypeOK
<1>9. UnclaimedInv'  BY <1>3, <1>4, <1>6, <1>7 DEF UnclaimedInv
<1>10. ClaimedInv'  BY <1>4, <1>6, <1>7 DEF ClaimedInv
<1>11. AdmittedInv' /\ SpentInv'  BY <1>4 DEF AdmittedInv, SpentInv
<1>12. CodeNotWasted'
  <2>1. \A k \in Handlers : redeeming(k, "find") \/ redeeming(k, "lender") => k # h
    BY <1>1, RedeemStepsAre
  <2>2. \A d \in Codes : inUse(d) => inUse(d)'
    BY <1>1, <1>5, <2>1 DEF inUse, redeeming, others, RedeemCall
  <2> QED  BY <1>4, <1>7, <2>2 DEF CodeNotWasted
<1> QED  BY <1>8, <1>9, <1>10, <1>11, <1>12

-----------------------------------------------------------------------------
(* Sign-ups *)

LEMMA SignUpClaimInv ==
    ASSUME AccessInv, NEW h \in Handlers, SignUpClaim(h)
    PROVE  AccessInv'
<1> DEFINE c == calls[h].code
           e == calls[h].email
<1> USE DEF AccessInv
<1>1. calls[h] \in SignUpCall /\ calls[h].op = "claim"  BY CallShapes DEF SignUpClaim
<1>2. c \in Codes /\ e \in Lenders /\ \A d \in Codes : ~holds(h, d)
  BY <1>1 DEF SignUpCall, Lenders, holds
<1>3. UNCHANGED <<nonce, lenders, restarts, admitted, accepted>>  BY DEF SignUpClaim
<1>4. CASE claimableCode(c)
  <2> DEFINE call == [calls[h] EXCEPT !.op = "create"]
  <2>1. code' = claimed(c, e) /\ calls' = [calls EXCEPT ![h] = call]
    BY <1>4 DEF SignUpClaim, continue
  <2>2. call \in SignUpCall /\ call.op = "create" /\ call.code = c /\ call.email = e
    BY <1>1 DEF SignUpCall
  <2>3. call \in Call  BY <2>2 DEF SignUpCall, Call
  <2> HIDE DEF call
  <2>4. calls' \in [Handlers -> Call] /\ others(h) /\ calls'[h] = call
    BY <2>1, <2>3 DEF AccessTypeOK, others
  <2>5. \A d \in Codes : holds(h, d)' => d = c  BY <2>2, <2>4 DEF holds
  <2>6. holder(h)' = e  BY <2>2, <2>4 DEF holder
  <2>7. inUse(c)' /\ calls'[h].code = c
    <3>1. calls'[h].op = "create" /\ calls'[h].code = c  BY <2>2, <2>4
    <3> QED  BY <3>1 DEF inUse
  <2> QED  BY <1>2, <1>3, <1>4, <2>1, <2>4, <2>5, <2>6, <2>7, ClaimInv
<1>5. CASE ~claimableCode(c)
  <2>1. finish(h) /\ UNCHANGED code  BY <1>5 DEF SignUpClaim
  <2>2. calls' \in [Handlers -> Call] /\ others(h) /\ calls'[h] = NoCall  BY <2>1, FinishedCall
  <2>3. \A d \in Codes : ~holds(h, d)'  BY <2>2 DEF holds, NoCall
  <2>4. AccessTypeOK' /\ SpentInv'  BY <1>3, <2>1, <2>2 DEF AccessTypeOK, SpentInv
  <2> QED  BY <1>2, <1>3, <2>1, <2>2, <2>3, <2>4, IdleCall
<1> QED  BY <1>4, <1>5

LEMMA SignUpCreateInv ==
    ASSUME AccessInv, NEW h \in Handlers, SignUpCreate(h)
    PROVE  AccessInv'
<1> DEFINE c == calls[h].code
           e == calls[h].email
<1>1. calls[h] \in SignUpCall /\ calls[h].op = "create"
  BY CallShapes DEF AccessInv, SignUpCreate
<1>2. c \in Codes /\ e \in Lenders /\ holds(h, c) /\ holder(h) = e
  BY <1>1 DEF SignUpCall, Lenders, holds, holder
<1>3. finish(h) /\ UNCHANGED <<code, nonce, restarts, accepted>>  BY DEF SignUpCreate
<1>4. CASE e \in lenders
  BY <1>2, <1>3, <1>4, ClashInv DEF SignUpCreate
<1>5. CASE e \notin lenders
  <2>1. lenders' = lenders \cup {e} /\ admitted' = admitted \cup {<<e, c>>}
    BY <1>5 DEF SignUpCreate
  <2>2. calls' \in [Handlers -> Call] /\ others(h) /\ calls'[h] = NoCall
    BY <1>3, FinishedCall DEF AccessInv
  <2>3. \A d \in Codes : ~holds(h, d)'  BY <2>2 DEF holds, NoCall
  <2> QED  BY <1>2, <1>3, <2>1, <2>2, <2>3, AdmitInv
<1> QED  BY <1>4, <1>5

-----------------------------------------------------------------------------
(* The specification *)

LEMMA RestartInv == ASSUME AccessInv, Restart PROVE AccessInv'
<1> USE DEF AccessInv, Restart
<1>1. \A h \in Handlers : calls'[h] = NoCall  OBVIOUS
<1>2. AccessTypeOK'  BY AccessAssumption DEF AccessTypeOK, Call
<1>3. UnclaimedInv'  BY <1>1 DEF UnclaimedInv, holds, NoCall
<1>4. ClaimedInv'  BY <1>1 DEF ClaimedInv, holds, NoCall
<1>5. AdmittedInv' /\ SpentInv'  BY DEF AdmittedInv, SpentInv
<1>6. CodeNotWasted'  BY AccessAssumption DEF CodeNotWasted, AccessTypeOK
<1> QED  BY <1>2, <1>3, <1>4, <1>5, <1>6

LEMMA InitAccessInv == Init => AccessInv
<1> SUFFICES ASSUME Init PROVE AccessInv
  OBVIOUS
<1>1. AccessTypeOK
  BY AccessAssumption DEF Init, AccessTypeOK, NoCode, CodeDoc, NoNonce, NonceDoc, Call
<1>2. \A h \in Handlers, c \in Codes : ~holds(h, c)  BY DEF Init, holds, NoCall
<1>3. UnclaimedInv /\ ClaimedInv  BY <1>2 DEF Init, UnclaimedInv, ClaimedInv, NoCode
<1>4. AdmittedInv /\ SpentInv /\ CodeNotWasted
  BY DEF Init, AdmittedInv, SpentInv, CodeNotWasted, NoCode
<1> QED  BY <1>1, <1>3, <1>4 DEF AccessInv

LEMMA NextAccessInv == AccessInv /\ [Next]_vars => AccessInv'
<1> SUFFICES ASSUME AccessInv, [Next]_vars PROVE AccessInv'
  OBVIOUS
<1>1. ASSUME NEW h \in Handlers, HandlerNext(h) PROVE AccessInv'
  <2>1. ASSUME NEW c \in Codes, DeleteRead(h, c) PROVE AccessInv'
    <3>1. [op |-> "delete", code |-> c] \in Call  BY DEF Call
    <3> QED  BY <2>1, <3>1, BeginInv DEF DeleteRead
  <2>2. ASSUME NEW c \in Codes, NEW e \in Emails, SignUpRead(h, c, e) PROVE AccessInv'
    <3>1. [op |-> "claim", code |-> c, email |-> e] \in Call  BY DEF Call
    <3> QED  BY <2>2, <3>1, BeginInv DEF SignUpRead
  <2>3. ASSUME NEW w \in Wallets, NEW n \in Nonces, NEW genuine \in BOOLEAN,
               LoginStart(h, w, n, genuine)
        PROVE  AccessInv'
    <3>1. [op |-> "login", wallet |-> w, nonce |-> n, genuine |-> genuine] \in Call  BY DEF Call
    <3> QED  BY <2>3, <3>1, BeginInv DEF LoginStart
  <2>4. ASSUME NEW w \in Wallets, NEW n \in Nonces, NEW genuine \in BOOLEAN, NEW c \in Codes,
               RedeemStart(h, c, w, n, genuine)
        PROVE  AccessInv'
    <3> DEFINE call == [op |-> "redeem", code |-> c, wallet |-> w, nonce |-> n,
                        genuine |-> genuine, step |-> 1, known |-> FALSE]
    <3>1. call \in RedeemCall /\ call.step = 1 /\ call.op = "redeem"  BY DEF RedeemCall
    <3>2. call \in Call  BY <3>1 DEF RedeemCall, Call, redeemSteps
    <3> QED  BY <2>4, <3>1, <3>2, BeginInv DEF RedeemStart
  <2>5. CASE Delete(h)  BY <2>5, DeleteInv
  <2>6. CASE RedeemVerify(h)  BY <2>6, RedeemVerifyInv
  <2>7. CASE RedeemClaim(h)  BY <2>7, RedeemClaimInv
  <2>8. CASE RedeemFind(h)  BY <2>8, RedeemFindInv
  <2>9. CASE RedeemLender(h)  BY <2>9, RedeemLenderInv
  <2>10. CASE RedeemAttach(h)  BY <2>10, RedeemAttachInv
  <2>11. CASE SignUpClaim(h)  BY <2>11, SignUpClaimInv
  <2>12. CASE SignUpCreate(h)  BY <2>12, SignUpCreateInv
  <2>13. CASE LoginVerify(h)  BY <2>13, LoginVerifyInv
  <2> QED  BY <1>1, <2>1, <2>2, <2>3, <2>4, <2>5, <2>6, <2>7, <2>8, <2>9, <2>10, <2>11, <2>12,
              <2>13 DEF HandlerNext
<1>2. ASSUME NEW c \in Codes, CreateCode(c) \/ CodeExpires(c) PROVE AccessInv'
  BY <1>2, CreateCodeInv, CodeExpiresInv
<1>3. ASSUME NEW n \in Nonces, NonceExpires(n) \/ \E w \in Wallets : IssueNonce(n, w)
      PROVE  AccessInv'
  BY <1>3, NonceExpiresInv, IssueNonceInv
<1>4. CASE Restart  BY <1>4, RestartInv
<1>5. CASE UNCHANGED vars
  BY <1>5 DEF vars, AccessInv, AccessTypeOK, UnclaimedInv, ClaimedInv, AdmittedInv, SpentInv,
              CodeNotWasted, inUse, redeeming, holds, holder
<1> QED  BY <1>1, <1>2, <1>3, <1>4, <1>5 DEF Next

\* A code that is still free is held by nobody, one that was claimed is held and lets in for
\* whom it was claimed, and a nonce that was taken is spent: for any codes, wallets, e-mails,
\* nonces and requests in progress.
THEOREM AccessInvariance == Spec => []AccessInv
  BY InitAccessInv, NextAccessInv, PTL DEF Spec

\* A signature is good for one request, and the account on a code is the one that claimed it.
THEOREM AccessTypeCorrect == Spec => []AccessTypeOK
  BY AccessInvariance, PTL DEF AccessInv

\* However redemptions, sign-ups, retries, revocations and restarts meet, a code lets in one
\* lender and every lender was let in by one.
THEOREM OneLenderLetIn == Spec => []OneLenderPerCode
<1>1. AccessInv => OneLenderPerCode
  <2> SUFFICES ASSUME AccessInv PROVE OneLenderPerCode
    OBVIOUS
  <2>1. \A a \in admitted : a = <<a[1], a[2]>> /\ a[1] \in Lenders /\ a[2] \in Codes
    BY DEF AccessInv, AccessTypeOK
  <2>2. \A a \in admitted : code[a[2]].usedBy = a[1]
    BY <2>1 DEF AccessInv, ClaimedInv
  <2>3. \A a, b \in admitted : a[2] = b[2] => a = b  BY <2>1, <2>2
  <2> QED  BY <2>3 DEF AccessInv, AdmittedInv, OneLenderPerCode
<1> QED  BY <1>1, AccessInvariance, PTL

\* No interleaving of requests uses a code up for nobody, but for a restart or another request
\* that registers the same wallet or e-mail.
THEOREM NoCodeWasted == Spec => []CodeNotWasted
  BY AccessInvariance, PTL DEF AccessInv

-----------------------------------------------------------------------------
(* Maintenance: the invariant *)

Loaded(S) == UNION {[D -> S] : D \in SUBSET Psps}

RunDoc ==
    [at : {"idle", "next", "charge"}, docs : Loaded(PspDoc), utilized : Loaded(Utilizations),
     current : SUBSET Psps, fee : Nat, step : {1, 2}]

\* A calculation holds the borrowers it has still to go through; the one it charges has been
\* charged last on an earlier day.
RunOK(r) ==
    /\ r \in RunDoc
    /\ DOMAIN r.utilized = DOMAIN r.docs
    /\ r.current \subseteq DOMAIN r.docs
    /\ r.at # "charge" => r.current = {} /\ r.step = 1
    /\ r.at = "idle" => DOMAIN r.docs = {}
    /\ \A p, q \in r.current : p = q
    /\ \A p \in r.current : r.docs[p].last \in Nat /\ r.docs[p].last < day

PaymentOK ==
    /\ payment = [at |-> payment.at, charge |-> payment.charge, loaded |-> payment.loaded]
    /\ payment.charge \subseteq {c \in Charges : charge[c].status # "none"}
    /\ payment.loaded \subseteq PspDoc
    /\ \A c, d \in payment.charge : c = d
    /\ payment.at = "profile" => \A c \in payment.charge : charge[c].psp \in paid

JobsInv ==
    /\ MaintenanceTypeOK
    /\ failures \in Nat /\ overlaps \in Nat
    /\ run = [k \in Workers |-> run[k]]
    /\ \A k \in Workers : RunOK(run[k])
    /\ PaymentOK
    /\ \A c \in Charges : charge[c].status # "none" => charge[c].start < day

\* The charges of a borrower for the period that starts on a day.
billed(p, s) == {c \in chargesOf(p) : charge[c].start = s}

\* The calculation has loaded the borrower in that period,
loadedIn(k, p, s) == p \in DOMAIN run[k].docs /\ run[k].docs[p].last = s

\* and has not stored a charge since.
mayBill(p, s) ==
    {k \in Workers :
        /\ loadedIn(k, p, s)
        /\ ~(run[k].at = "charge" /\ p \in run[k].current /\ run[k].step = 2)}

\* The period is open, and nobody is at it.
open(p, s) ==
    IF psp[p].last = s /\ \A k \in Workers : ~loadedIn(k, p, s) THEN 1 ELSE 0

\* What is billed and what may be is once, and once more for each mishap.
billing(p, s) == Cardinality(billed(p, s)) + Cardinality(mayBill(p, s)) + open(p, s)

BillInv == \A p \in Psps, s \in 0 .. MaxDay : billing(p, s) <= 1 + failures + overlaps

billedFees(p) == SumOf([c \in chargesOf(p) |-> charge[c].amount], chargesOf(p))

\* While no calculation overlaps another, what it has loaded is what is stored; once it has
\* stored its charge, the charges alone make up for what was earned.
FeeInv ==
    overlaps = 0 =>
        /\ \A j, k \in Workers : run[j].at # "idle" /\ run[k].at # "idle" => j = k
        /\ \A p \in Psps \ paid : psp[p].accumulated + billedFees(p) >= earned[p]
        /\ \A k \in Workers, p \in Psps \ paid :
               p \in DOMAIN run[k].docs => run[k].docs[p].accumulated = psp[p].accumulated
        /\ \A k \in Workers, p \in Psps \ paid :
               p \in run[k].current /\ run[k].step = 2 => billedFees(p) >= earned[p]

MaintenanceInv == JobsInv /\ BillInv /\ FeeInv

-----------------------------------------------------------------------------
(* Maintenance: documents *)

\* A save of a borrower writes what the code has changed of what it loaded.
LEMMA SavedPsp ==
    ASSUME NEW stored \in PspDoc, NEW loaded \in PspDoc, NEW doc \in PspDoc
    PROVE  LET e == saved(stored, loaded, doc)
           IN  /\ e \in PspDoc
               /\ e.accumulated = IF doc.accumulated # loaded.accumulated THEN doc.accumulated
                                  ELSE stored.accumulated
               /\ e.last = IF doc.last # loaded.last THEN doc.last ELSE stored.last
<1> DEFINE e == saved(stored, loaded, doc)
<1>1. e = [f \in {"approved", "accumulated", "last"} |->
               IF doc[f] # loaded[f] THEN doc[f] ELSE stored[f]]
  BY DEF saved, PspDoc
<1>2. e \in PspDoc
  BY <1>1 DEF PspDoc
<1> QED
  BY <1>1, <1>2

\* What the calculation and the charge make of a borrower.
LEMMA AccruedDoc ==
    ASSUME NEW doc \in PspDoc, NEW fee \in Nat, day \in 0 .. MaxDay
    PROVE  /\ accrued(doc, fee) \in PspDoc
           /\ accrued(doc, fee).accumulated = doc.accumulated + fee
           /\ accrued(doc, fee).last = IF doc.last = Never THEN day ELSE doc.last
           /\ charged(doc) \in PspDoc /\ charged(doc).accumulated = 0 /\ charged(doc).last = day
           /\ [doc EXCEPT !.accumulated = 0] \in PspDoc
           /\ [doc EXCEPT !.accumulated = 0].accumulated = 0
           /\ [doc EXCEPT !.accumulated = 0].last = doc.last
<1>1. /\ doc.accumulated \in Nat /\ doc.accumulated + fee \in Nat
      /\ doc.last \in (0 .. MaxDay) \cup {Never}
  BY DEF PspDoc
<1>2. ASSUME NEW n \in Nat, NEW l \in (0 .. MaxDay) \cup {Never}
      PROVE  LET e == [doc EXCEPT !.accumulated = n, !.last = l]
             IN  e \in PspDoc /\ e.accumulated = n /\ e.last = l
  BY DEF PspDoc
<1>3. /\ [doc EXCEPT !.accumulated = 0] \in PspDoc
      /\ [doc EXCEPT !.accumulated = 0].accumulated = 0
      /\ [doc EXCEPT !.accumulated = 0].last = doc.last
  BY DEF PspDoc
<1> DEFINE n == doc.accumulated + fee
           l == IF doc.last = Never THEN day ELSE doc.last
<1>4. accrued(doc, fee) = [doc EXCEPT !.accumulated = n, !.last = l]
  BY DEF accrued
<1>5. n \in Nat /\ l \in (0 .. MaxDay) \cup {Never}
  BY <1>1
<1> HIDE DEF n, l
<1>6. accrued(doc, fee) \in PspDoc /\ accrued(doc, fee).accumulated = n
      /\ accrued(doc, fee).last = l
  <2>1. LET e == [doc EXCEPT !.accumulated = n, !.last = l]
        IN  e \in PspDoc /\ e.accumulated = n /\ e.last = l
    BY <1>2, <1>5, Zenon
  <2> QED
    BY <1>4, <2>1, Zenon
<1>7. charged(doc) \in PspDoc /\ charged(doc).accumulated = 0 /\ charged(doc).last = day
  BY <1>2 DEF charged
<1> QED
  BY <1>3, <1>6, <1>7 DEF n, l

\* A fee is never negative, though more may be utilized than was approved.
LEMMA FeeNat ==
    ASSUME NEW used \in Utilizations
    PROVE  calculateDailyMaintenanceFee(used) \in Nat
<1>1. used \in Nat /\ Approved \in Nat
  BY MaintenanceAssumption
<1> QED
  BY <1>1 DEF calculateDailyMaintenanceFee

\* Whoever is billed was met by the calculation on an earlier day.
LEMMA BilledLater ==
    ASSUME NEW doc \in PspDoc, NEW fee \in Nat, NEW shortOfDay \in {0, 1}, day \in 0 .. MaxDay,
           shouldCreateMaintenanceCharge(accrued(doc, fee), shortOfDay)
    PROVE  doc.last \in Nat /\ doc.last < day
<1>1. Period \in Nat \ {0} /\ MaxDay \in Nat
  BY MaintenanceAssumption
<1>2. doc.last \in (0 .. MaxDay) \cup {Never}
  BY DEF PspDoc
<1>3. accrued(doc, fee).last = IF doc.last = Never THEN day ELSE doc.last
  BY AccruedDoc
<1>4. day - accrued(doc, fee).last - shortOfDay >= Period
  BY DEF shouldCreateMaintenanceCharge
<1>5. CASE doc.last = Never
  BY <1>1, <1>3, <1>4, <1>5
<1>6. CASE doc.last # Never
  BY <1>1, <1>2, <1>3, <1>4, <1>6
<1> QED
  BY <1>5, <1>6

\* A charge that does not exist yet.
LEMMA NoChargeDoc == NoCharge \in ChargeDoc /\ NoCharge.status = "none"
<1>1. (CHOOSE p \in Psps : TRUE) \in Psps
  BY MaintenanceAssumption
<1>2. 0 \in 0 .. MaxDay /\ 0 \in 0 .. (MaxDay + PaymentDays)
  BY MaintenanceAssumption
<1> QED
  BY <1>1, <1>2 DEF NoCharge, ChargeDoc

\* Nothing is under way.
LEMMA NoRunOK == RunOK(NoRun) /\ NoRun.at = "idle" /\ DOMAIN NoRun.docs = {}
<1> DEFINE none == [p \in {} |-> 0]
<1>1. DOMAIN none = {} /\ none \in [{} -> PspDoc] /\ none \in [{} -> Utilizations]
  OBVIOUS
<1>2. none \in Loaded(PspDoc) /\ none \in Loaded(Utilizations)
  BY <1>1 DEF Loaded
<1>3. NoRun = [at |-> "idle", docs |-> none, utilized |-> none, current |-> {}, fee |-> 0,
               step |-> 1]
  BY DEF NoRun
<1> HIDE DEF none
<1>4. NoRun \in RunDoc
  BY <1>2, <1>3 DEF RunDoc
<1> QED
  BY <1>1, <1>3, <1>4 DEF RunOK

\* A calculation between two borrowers.
between(docs, used) == [NoRun EXCEPT !.at = "next", !.docs = docs, !.utilized = used]

\* It holds the borrowers that are left, and nobody is being charged.
LEMMA NextRunOK ==
    ASSUME NEW D, D \subseteq Psps, NEW docs \in [D -> PspDoc], NEW used \in [D -> Utilizations]
    PROVE  /\ RunOK(between(docs, used)) /\ between(docs, used).at = "next"
           /\ between(docs, used).docs = docs /\ DOMAIN between(docs, used).docs = D
           /\ between(docs, used).current = {} /\ between(docs, used).step = 1
<1> DEFINE r == between(docs, used)
<1>1. docs \in Loaded(PspDoc) /\ used \in Loaded(Utilizations)
      /\ DOMAIN docs = D /\ DOMAIN used = D
  BY DEF Loaded
<1>2. NoRun \in RunDoc /\ NoRun.current = {} /\ NoRun.step = 1
  BY NoRunOK DEF RunOK, NoRun
<1>3. r \in RunDoc /\ r.at = "next" /\ r.docs = docs /\ r.utilized = used
      /\ r.current = {} /\ r.step = 1
  BY <1>1, <1>2 DEF RunDoc, between
<1> HIDE DEF r
<1>4. RunOK(r)
  BY <1>1, <1>3 DEF RunOK
<1> QED
  BY <1>1, <1>3, <1>4 DEF r

\* A step of one calculation.
LEMMA RunsKept ==
    ASSUME JobsInv, UNCHANGED day, NEW k \in Workers, NEW r, goOn(k, r), RunOK(r)
    PROVE  /\ run' = [j \in Workers |-> run'[j]]
           /\ \A j \in Workers : RunOK(run[j])'
           /\ \A j \in Workers : run'[j] = IF j = k THEN r ELSE run[j]
<1>1. run' = [j \in Workers |-> IF j = k THEN r ELSE run[j]]
  BY DEF goOn, JobsInv
<1>2. ASSUME NEW j \in Workers PROVE RunOK(run[j])'
  BY <1>1 DEF JobsInv, RunOK
<1> QED
  BY <1>1, <1>2

\* The calculation goes on to the borrowers other than one.
LEMMA NextKeeps ==
    ASSUME JobsInv, UNCHANGED day, NEW k \in Workers, NEW p, doneWith(k, p)
    PROVE  /\ run' = [j \in Workers |-> run'[j]]
           /\ \A j \in Workers : RunOK(run[j])'
           /\ \A j \in Workers : j # k => run'[j] = run[j]
           /\ run'[k].at = "next" /\ run'[k].current = {} /\ run'[k].step = 1
           /\ DOMAIN run'[k].docs = DOMAIN run[k].docs \ {p}
           /\ \A q \in DOMAIN run[k].docs \ {p} : run'[k].docs[q] = run[k].docs[q]
<1> DEFINE D == DOMAIN run[k].docs \ {p}
           docs == [q \in D |-> run[k].docs[q]]
           used == [q \in D |-> run[k].utilized[q]]
           r == between(docs, used)
<1>1. run[k] \in RunDoc /\ DOMAIN run[k].utilized = DOMAIN run[k].docs
  BY DEF JobsInv, RunOK
<1>2. /\ DOMAIN run[k].docs \subseteq Psps
      /\ \A q \in DOMAIN run[k].docs : run[k].docs[q] \in PspDoc
      /\ \A q \in DOMAIN run[k].docs : run[k].utilized[q] \in Utilizations
  BY <1>1 DEF RunDoc, Loaded
<1>3. D \subseteq Psps /\ docs \in [D -> PspDoc] /\ used \in [D -> Utilizations]
  BY <1>2
<1>4. goOn(k, r)
  BY DEF doneWith, between
<1>5. \A q \in D : docs[q] = run[k].docs[q]
  OBVIOUS
<1> HIDE DEF D, docs, used
<1>6. /\ RunOK(r) /\ r.at = "next" /\ r.docs = docs /\ DOMAIN r.docs = D
      /\ r.current = {} /\ r.step = 1
  BY <1>3, NextRunOK
<1> HIDE DEF r
<1>7. /\ run' = [j \in Workers |-> run'[j]]
      /\ \A j \in Workers : RunOK(run[j])'
      /\ \A j \in Workers : run'[j] = IF j = k THEN r ELSE run[j]
  BY <1>4, <1>6, RunsKept
<1> QED
  BY <1>5, <1>6, <1>7 DEF D

\* What a save makes of the borrowers.
saves(p, loaded, doc) == psp' = [psp EXCEPT ![p] = saved(@, loaded, doc)]

\* A save changes one borrower, and of him what the code has changed.
LEMMA PspWritten ==
    ASSUME psp \in [Psps -> PspDoc], NEW p \in Psps, NEW loaded \in PspDoc, NEW doc \in PspDoc,
           saves(p, loaded, doc)
    PROVE  /\ psp' \in [Psps -> PspDoc]
           /\ \A q \in Psps : q # p => psp'[q] = psp[q]
           /\ psp'[p].accumulated = IF doc.accumulated # loaded.accumulated
                                    THEN doc.accumulated ELSE psp[p].accumulated
           /\ psp'[p].last = IF doc.last # loaded.last THEN doc.last ELSE psp[p].last
<1> DEFINE e == saved(psp[p], loaded, doc)
<1>1. /\ e \in PspDoc
      /\ e.accumulated = IF doc.accumulated # loaded.accumulated THEN doc.accumulated
                         ELSE psp[p].accumulated
      /\ e.last = IF doc.last # loaded.last THEN doc.last ELSE psp[p].last
  BY SavedPsp
<1>2. psp' = [psp EXCEPT ![p] = e]
  BY DEF saves
<1> HIDE DEF e
<1> QED
  BY <1>1, <1>2

\* The charges that are stored keep their borrower, their fees and their period.
KeepsCharges ==
    /\ charge' \in [Charges -> ChargeDoc]
    /\ \A c \in Charges :
           charge[c].status # "none" =>
               /\ charge'[c].status # "none" /\ charge'[c].psp = charge[c].psp
               /\ charge'[c].amount = charge[c].amount /\ charge'[c].start = charge[c].start

\* A step of a calculation keeps what it leaves to the other jobs.
LEMMA JobsRun ==
    ASSUME JobsInv, UNCHANGED <<utilized, marking, payment, day, paid>>,
           psp' \in [Psps -> PspDoc], earned' \in [Psps -> Nat], runs' \in 0 .. MaxRuns,
           failures' \in Nat, overlaps' \in Nat, failures' + overlaps' <= MaxMishaps,
           KeepsCharges, \A c \in Charges : charge'[c].status # "none" => charge'[c].start < day,
           run' = [k \in Workers |-> run'[k]], \A k \in Workers : RunOK(run[k])'
    PROVE  JobsInv'
<1>1. failures' + overlaps' \in 0 .. MaxMishaps
  BY MaintenanceAssumption
<1>2. marking' \subseteq {c \in Charges : charge'[c].status # "none"}
  BY DEF JobsInv, MaintenanceTypeOK, KeepsCharges
<1>3. \A k \in Workers : DOMAIN run'[k].docs \subseteq Psps
                         /\ run'[k].current \subseteq DOMAIN run'[k].docs
  BY DEF RunOK, RunDoc, Loaded
<1>4. MaintenanceTypeOK'
  BY <1>1, <1>2, <1>3 DEF JobsInv, MaintenanceTypeOK, KeepsCharges
<1>5. PaymentOK'
  BY DEF JobsInv, PaymentOK, KeepsCharges
<1> QED
  BY <1>4, <1>5 DEF JobsInv

\* So does a step of another job.
LEMMA JobsOther ==
    ASSUME JobsInv, UNCHANGED <<run, runs, failures, overlaps, earned>>,
           psp' \in [Psps -> PspDoc], utilized' \in [Psps -> Utilizations], KeepsCharges,
           \A c \in Charges : charge[c].status = "none" => charge'[c].status = "none",
           marking' \subseteq {c \in Charges : charge[c].status # "none"},
           PaymentOK', paid' \subseteq Psps, day' \in 0 .. MaxDay, day <= day'
    PROVE  JobsInv'
<1>1. day \in 0 .. MaxDay /\ MaxDay \in Nat
  BY MaintenanceAssumption DEF JobsInv, MaintenanceTypeOK
<1>2. ASSUME NEW k \in Workers PROVE RunOK(run[k])'
  <2>1. RunOK(run[k])
    BY DEF JobsInv
  <2>2. \A p \in run[k].current : run[k].docs[p].last \in Nat /\ run[k].docs[p].last < day'
    BY <1>1, <2>1 DEF RunOK
  <2> QED
    BY <2>1, <2>2 DEF RunOK
<1>3. marking' \subseteq {c \in Charges : charge'[c].status # "none"}
  BY DEF KeepsCharges
<1>4. MaintenanceTypeOK'
  BY <1>3 DEF JobsInv, MaintenanceTypeOK, KeepsCharges
<1>5. ASSUME NEW c \in Charges, charge'[c].status # "none" PROVE charge'[c].start < day'
  <2>1. charge[c].start < day /\ charge'[c].start = charge[c].start
    BY <1>5 DEF JobsInv, KeepsCharges
  <2>2. charge[c].start \in 0 .. MaxDay
    BY DEF JobsInv, MaintenanceTypeOK, ChargeDoc
  <2> QED
    BY <1>1, <2>1, <2>2
<1> QED
  BY <1>2, <1>4, <1>5 DEF JobsInv

-----------------------------------------------------------------------------
(* Maintenance: what the steps do *)

\* A calculation that starts has loaded the borrowers as they are stored.
LEMMA RunStartStep ==
    ASSUME JobsInv, NEW k \in Workers, RunStart(k)
    PROVE  /\ JobsInv'
           /\ run[k].at = "idle" /\ \A j \in Workers : j # k => run'[j] = run[j]
           /\ \A p \in DOMAIN run'[k].docs : p \in Psps /\ run'[k].docs[p] = psp[p]
           /\ run'[k].at = "next" /\ run'[k].current = {} /\ run'[k].step = 1
           /\ UNCHANGED <<psp, charge, failures, earned, paid>>
           /\ overlaps' = IF \E j \in Workers : run[j].at # "idle" THEN overlaps + 1 ELSE overlaps
<1> DEFINE D == {p \in Psps : psp[p].approved}
           docs == [p \in D |-> psp[p]]
           used == [p \in D |-> utilized[p]]
           r == between(docs, used)
<1>1. /\ run[k].at = "idle" /\ runs < MaxRuns /\ runs' = runs + 1
      /\ overlaps' = IF \E j \in Workers : run[j].at # "idle" THEN overlaps + 1 ELSE overlaps
      /\ failures + overlaps' <= MaxMishaps
      /\ UNCHANGED <<psp, utilized, charge, marking, payment, day, failures, earned, paid>>
      /\ goOn(k, r)
  BY DEF RunStart, between, ghosts
<1>2. D \subseteq Psps /\ docs \in [D -> PspDoc] /\ used \in [D -> Utilizations]
      /\ \A p \in D : docs[p] = psp[p]
  BY DEF JobsInv, MaintenanceTypeOK
<1> HIDE DEF D, docs, used
<1>3. /\ RunOK(r) /\ r.at = "next" /\ r.docs = docs /\ DOMAIN r.docs = D
      /\ r.current = {} /\ r.step = 1
  BY <1>2, NextRunOK
<1> HIDE DEF r
<1>4. /\ run' = [j \in Workers |-> run'[j]] /\ \A j \in Workers : RunOK(run[j])'
      /\ \A j \in Workers : run'[j] = IF j = k THEN r ELSE run[j]
  BY <1>1, <1>3, RunsKept
<1>5. JobsInv'
  <2>1. runs' \in 0 .. MaxRuns /\ overlaps' \in Nat /\ failures' \in Nat
    <3>1. runs \in 0 .. MaxRuns /\ MaxRuns \in Nat /\ overlaps \in Nat /\ failures \in Nat
      BY MaintenanceAssumption DEF JobsInv, MaintenanceTypeOK
    <3> QED
      BY <1>1, <3>1
  <2>2. KeepsCharges /\ psp' \in [Psps -> PspDoc] /\ earned' \in [Psps -> Nat]
        /\ \A c \in Charges : charge'[c].status # "none" => charge'[c].start < day
    BY <1>1 DEF JobsInv, MaintenanceTypeOK, KeepsCharges
  <2> QED
    BY <1>1, <1>4, <2>1, <2>2, JobsRun
<1> QED
  BY <1>1, <1>2, <1>3, <1>4, <1>5

\* A borrower is accrued a fee, on top of what was loaded.
LEMMA AccrueStep ==
    ASSUME JobsInv, NEW k \in Workers, Accrue(k)
    PROVE  /\ JobsInv' /\ run[k].at = "next" /\ run[k].current = {}
           /\ UNCHANGED <<charge, day, failures, overlaps, paid>>
           /\ \E p \in DOMAIN run[k].docs, fee \in Nat :
                  LET loaded == run[k].docs[p]
                      doc == accrued(loaded, fee)
                  IN  /\ p \in Psps /\ doneWith(k, p)
                      /\ earned' = [earned EXCEPT ![p] = @ + fee]
                      /\ \A q \in Psps : q # p => psp'[q] = psp[q]
                      /\ psp'[p].accumulated = IF doc.accumulated # loaded.accumulated
                                               THEN doc.accumulated ELSE psp[p].accumulated
                      /\ psp'[p].last = IF doc.last # loaded.last THEN doc.last ELSE psp[p].last
<1>1. PICK p \in DOMAIN run[k].docs, shortOfDay \in {0, 1} :
          LET fee == calculateDailyMaintenanceFee(run[k].utilized[p])
              doc == accrued(run[k].docs[p], fee)
          IN  /\ psp' = [psp EXCEPT ![p] = saved(@, run[k].docs[p], doc)]
              /\ earn(p, fee)
              /\ doneWith(k, p)
  BY DEF Accrue
<1>2. /\ run[k].at = "next"
      /\ UNCHANGED <<utilized, charge, marking, payment, paid, day, runs, failures, overlaps>>
  BY DEF Accrue, bounds
<1> DEFINE fee == calculateDailyMaintenanceFee(run[k].utilized[p])
           loaded == run[k].docs[p]
           doc == accrued(loaded, fee)
<1>3. /\ run[k] \in RunDoc /\ DOMAIN run[k].utilized = DOMAIN run[k].docs /\ run[k].current = {}
  BY <1>2 DEF JobsInv, RunOK
<1>4. p \in Psps /\ loaded \in PspDoc /\ run[k].utilized[p] \in Utilizations
  BY <1>3 DEF RunDoc, Loaded
<1>5. fee \in Nat
  BY <1>4, FeeNat
<1>6. saves(p, loaded, doc) /\ doneWith(k, p) /\ earned' = [earned EXCEPT ![p] = @ + fee]
  BY <1>1 DEF earn, saves
<1> HIDE DEF fee
<1>7. doc \in PspDoc /\ psp \in [Psps -> PspDoc] /\ earned \in [Psps -> Nat]
  BY <1>4, <1>5, AccruedDoc DEF JobsInv, MaintenanceTypeOK
<1> HIDE DEF doc, loaded
<1>8. /\ psp' \in [Psps -> PspDoc] /\ \A q \in Psps : q # p => psp'[q] = psp[q]
      /\ psp'[p].accumulated = IF doc.accumulated # loaded.accumulated
                               THEN doc.accumulated ELSE psp[p].accumulated
      /\ psp'[p].last = IF doc.last # loaded.last THEN doc.last ELSE psp[p].last
  BY <1>4, <1>6, <1>7, PspWritten
<1>9. JobsInv'
  <2>1. run' = [j \in Workers |-> run'[j]] /\ \A j \in Workers : RunOK(run[j])'
    BY <1>2, <1>6, NextKeeps
  <2>2. earned' \in [Psps -> Nat]
    <3>1. earned[p] + fee \in Nat
      BY <1>4, <1>5, <1>7
    <3> QED
      BY <1>6, <1>7, <3>1
  <2>3. /\ runs' \in 0 .. MaxRuns /\ failures' \in Nat /\ overlaps' \in Nat
        /\ failures' + overlaps' <= MaxMishaps
    BY <1>2 DEF JobsInv, MaintenanceTypeOK
  <2>4. KeepsCharges /\ \A c \in Charges : charge'[c].status # "none" => charge'[c].start < day
    BY <1>2 DEF JobsInv, MaintenanceTypeOK, KeepsCharges
  <2> QED
    BY <1>2, <1>8, <2>1, <2>2, <2>3, <2>4, JobsRun
<1> QED
  BY <1>2, <1>3, <1>4, <1>5, <1>6, <1>8, <1>9 DEF doc, loaded

\* A borrower is picked to be billed, for a period that began on an earlier day.
LEMMA ChargeStartStep ==
    ASSUME JobsInv, NEW k \in Workers, ChargeStart(k)
    PROVE  /\ JobsInv' /\ run[k].at = "next" /\ run[k].current = {}
           /\ UNCHANGED <<psp, charge, failures, overlaps, earned, paid>>
           /\ run'[k].at = "charge" /\ run'[k].step = 1 /\ run'[k].docs = run[k].docs
           /\ \A j \in Workers : j # k => run'[j] = run[j]
<1>1. PICK p \in DOMAIN run[k].docs, shortOfDay \in {0, 1} :
          LET fee == calculateDailyMaintenanceFee(run[k].utilized[p])
          IN  /\ shouldCreateMaintenanceCharge(accrued(run[k].docs[p], fee), shortOfDay)
              /\ goOn(k, [run[k] EXCEPT !.at = "charge", !.current = {p}, !.fee = fee])
  BY DEF ChargeStart
<1> DEFINE fee == calculateDailyMaintenanceFee(run[k].utilized[p])
           r == [run[k] EXCEPT !.at = "charge", !.current = {p}, !.fee = fee]
<1>2. /\ run[k].at = "next"
      /\ UNCHANGED <<psp, utilized, charge, marking, payment, day, runs, failures, overlaps,
                     earned, paid>>
  BY DEF ChargeStart, bounds, ghosts
<1>3. /\ run[k] \in RunDoc /\ DOMAIN run[k].utilized = DOMAIN run[k].docs /\ run[k].current = {}
      /\ run[k].step = 1
  BY <1>2 DEF JobsInv, RunOK
<1>4. p \in Psps /\ run[k].docs[p] \in PspDoc /\ run[k].utilized[p] \in Utilizations
  BY <1>3 DEF RunDoc, Loaded
<1>5. fee \in Nat
  BY <1>4, FeeNat
<1>6. shouldCreateMaintenanceCharge(accrued(run[k].docs[p], fee), shortOfDay) /\ goOn(k, r)
  BY <1>1
<1> HIDE DEF fee
<1>7. run[k].docs[p].last \in Nat /\ run[k].docs[p].last < day
  BY <1>4, <1>5, <1>6, BilledLater DEF JobsInv, MaintenanceTypeOK
<1>8. /\ r \in RunDoc /\ r.at = "charge" /\ r.current = {p} /\ r.step = 1
      /\ r.docs = run[k].docs /\ r.utilized = run[k].utilized
  BY <1>3, <1>4, <1>5 DEF RunDoc
<1> HIDE DEF r
<1>9. RunOK(r)
  BY <1>3, <1>7, <1>8 DEF RunOK
<1>10. /\ run' = [j \in Workers |-> run'[j]] /\ \A j \in Workers : RunOK(run[j])'
       /\ \A j \in Workers : run'[j] = IF j = k THEN r ELSE run[j]
  BY <1>2, <1>6, <1>9, RunsKept
<1>11. JobsInv'
  <2>1. /\ runs' \in 0 .. MaxRuns /\ failures' \in Nat /\ overlaps' \in Nat
        /\ failures' + overlaps' <= MaxMishaps /\ psp' \in [Psps -> PspDoc]
        /\ earned' \in [Psps -> Nat]
    BY <1>2 DEF JobsInv, MaintenanceTypeOK
  <2>2. KeepsCharges /\ \A c \in Charges : charge'[c].status # "none" => charge'[c].start < day
    BY <1>2 DEF JobsInv, MaintenanceTypeOK, KeepsCharges
  <2> QED
    BY <1>2, <1>10, <2>1, <2>2, JobsRun
<1> QED
  BY <1>2, <1>3, <1>8, <1>10, <1>11

\* The charge is stored first, with what was loaded and the fee of the day.
LEMMA ChargeStoreStep ==
    ASSUME JobsInv, NEW k \in Workers, ChargeStore(k)
    PROVE  /\ JobsInv' /\ run[k].at = "charge" /\ run[k].step = 1
           /\ UNCHANGED <<psp, failures, overlaps, paid>>
           /\ \A j \in Workers : j # k => run'[j] = run[j]
           /\ run'[k].at = "charge" /\ run'[k].step = 2
           /\ run'[k].docs = run[k].docs /\ run'[k].current = run[k].current
           /\ \E p \in run[k].current, c \in Charges :
                  /\ charge[c].status = "none"
                  /\ \A d \in Charges : d # c => charge'[d] = charge[d]
                  /\ charge'[c].status = "Pending" /\ charge'[c].psp = p
                  /\ charge'[c].amount = run[k].docs[p].accumulated + run[k].fee
                  /\ charge'[c].start = run[k].docs[p].last
                  /\ earn(p, run[k].fee)
<1>1. PICK p \in Psps, c \in Charges :
          /\ chargeStep(k, p, "charge")
          /\ charge[c].status = "none"
          /\ LET doc == accrued(run[k].docs[p], run[k].fee)
             IN  charge' = [charge EXCEPT ![c] =
                     [status |-> "Pending", psp |-> p, amount |-> doc.accumulated,
                      start |-> doc.last, due |-> day + PaymentDays]]
  BY DEF ChargeStore
<1> DEFINE r == [run[k] EXCEPT !.step = @ + 1]
           doc == accrued(run[k].docs[p], run[k].fee)
           new == [status |-> "Pending", psp |-> p, amount |-> doc.accumulated,
                   start |-> doc.last, due |-> day + PaymentDays]
<1>2. UNCHANGED <<utilized, psp, marking, payment, paid, day, runs, failures, overlaps>>
  BY DEF ChargeStore, bounds
<1>3. RunOK(run[k]) /\ run[k] \in RunDoc /\ run[k].step \in {1, 2} /\ run[k].fee \in Nat
  BY DEF JobsInv, RunOK, RunDoc
<1>4. run[k].at = "charge" /\ p \in run[k].current /\ run[k].step = 1 /\ goOn(k, r)
      /\ earn(p, run[k].fee)
  BY <1>1, <1>3 DEF chargeStep, chargeSteps
<1>5. p \in Psps /\ run[k].docs[p] \in PspDoc /\ run[k].docs[p].last \in Nat
      /\ run[k].docs[p].last < day /\ run[k].docs[p].accumulated \in Nat
  BY <1>3, <1>4 DEF RunOK, RunDoc, Loaded, PspDoc
<1>6. doc.accumulated = run[k].docs[p].accumulated + run[k].fee /\ doc.last = run[k].docs[p].last
      /\ day \in 0 .. MaxDay
  <2>1. run[k].docs[p].last # Never
    BY <1>5 DEF Never
  <2>2. day \in 0 .. MaxDay
    BY DEF JobsInv, MaintenanceTypeOK
  <2> QED
    BY <1>3, <1>5, <2>1, <2>2, AccruedDoc
<1>7. charge' = [charge EXCEPT ![c] = new]
  BY <1>1
<1>8. charge[c].status = "none"
  BY <1>1
<1> HIDE DEF doc
<1>9. new \in ChargeDoc /\ new.status = "Pending" /\ new.psp = p
      /\ new.amount = run[k].docs[p].accumulated + run[k].fee
      /\ new.start = run[k].docs[p].last
  <2>1. PaymentDays \in Nat /\ MaxDay \in Nat
    BY MaintenanceAssumption
  <2>2. doc.accumulated \in Nat /\ doc.last \in 0 .. MaxDay
        /\ day + PaymentDays \in 0 .. (MaxDay + PaymentDays)
    BY <1>3, <1>5, <1>6, <2>1
  <2> QED
    BY <1>5, <1>6, <2>2 DEF ChargeDoc
<1> HIDE DEF new
<1>10. charge \in [Charges -> ChargeDoc] /\ earned \in [Psps -> Nat] /\ psp \in [Psps -> PspDoc]
  BY DEF JobsInv, MaintenanceTypeOK
<1>11. /\ charge' \in [Charges -> ChargeDoc] /\ charge'[c] = new
       /\ \A d \in Charges : d # c => charge'[d] = charge[d]
  BY <1>7, <1>9, <1>10
<1>12. /\ r \in RunDoc /\ r.at = "charge" /\ r.step = 2 /\ r.current = run[k].current
       /\ r.docs = run[k].docs /\ r.utilized = run[k].utilized
  BY <1>3, <1>4 DEF RunDoc
<1> HIDE DEF r
<1>13. RunOK(r)
  BY <1>3, <1>4, <1>12 DEF RunOK
<1>14. /\ run' = [j \in Workers |-> run'[j]] /\ \A j \in Workers : RunOK(run[j])'
       /\ \A j \in Workers : run'[j] = IF j = k THEN r ELSE run[j]
  BY <1>2, <1>4, <1>13, RunsKept
<1>15. JobsInv'
  <2>1. KeepsCharges
    <3>1. \A d \in Charges : charge[d].status # "none" => charge'[d] = charge[d]
      BY <1>8, <1>11
    <3>2. charge' \in [Charges -> ChargeDoc]
      BY <1>11
    <3> QED
      BY <3>1, <3>2 DEF KeepsCharges
  <2>2. \A d \in Charges : charge'[d].status # "none" => charge'[d].start < day
    BY <1>5, <1>9, <1>11 DEF JobsInv
  <2>3. earned' \in [Psps -> Nat]
    <3>1. earned[p] + run[k].fee \in Nat
      BY <1>3, <1>5, <1>10
    <3> QED
      BY <1>4, <1>10, <3>1 DEF earn
  <2>4. /\ runs' \in 0 .. MaxRuns /\ failures' \in Nat /\ overlaps' \in Nat
        /\ failures' + overlaps' <= MaxMishaps /\ psp' \in [Psps -> PspDoc]
    BY <1>2, <1>10 DEF JobsInv, MaintenanceTypeOK
  <2> QED
    BY <1>2, <1>14, <2>1, <2>2, <2>3, <2>4, JobsRun
<1> QED
  BY <1>2, <1>4, <1>8, <1>9, <1>11, <1>12, <1>14, <1>15

\* Then the borrower is saved with nothing accumulated and a new period.
LEMMA ChargeResetStep ==
    ASSUME JobsInv, NEW k \in Workers, ChargeReset(k)
    PROVE  /\ JobsInv' /\ run[k].at = "charge" /\ run[k].step = 2
           /\ UNCHANGED <<charge, day, earned, failures, overlaps, paid>>
           /\ \E p \in run[k].current :
                  /\ doneWith(k, p)
                  /\ \A q \in Psps : q # p => psp'[q] = psp[q]
                  /\ psp'[p].accumulated = IF 0 # run[k].docs[p].accumulated THEN 0
                                           ELSE psp[p].accumulated
                  /\ psp'[p].last = day
<1>1. PICK p \in Psps :
          /\ chargeStep(k, p, "profile")
          /\ psp' = [psp EXCEPT ![p] = saved(@, run[k].docs[p], charged(run[k].docs[p]))]
  BY DEF ChargeReset
<1>2. UNCHANGED <<utilized, charge, marking, payment, paid, day, runs, failures, overlaps>>
  BY DEF ChargeReset, bounds
<1>3. RunOK(run[k]) /\ run[k] \in RunDoc /\ run[k].step \in {1, 2} /\ run[k].fee \in Nat
  BY DEF JobsInv, RunOK, RunDoc
<1>4. run[k].at = "charge" /\ p \in run[k].current /\ run[k].step = 2 /\ doneWith(k, p)
      /\ earned' = earned
  BY <1>1, <1>3 DEF chargeStep, chargeSteps
<1> DEFINE loaded == run[k].docs[p]
           doc == charged(loaded)
<1>5. p \in Psps /\ loaded \in PspDoc /\ loaded.last \in Nat /\ loaded.last < day
      /\ day \in 0 .. MaxDay
  BY <1>3, <1>4 DEF RunOK, RunDoc, Loaded, JobsInv, MaintenanceTypeOK
<1>6. doc \in PspDoc /\ doc.accumulated = 0 /\ doc.last = day
  BY <1>3, <1>5, AccruedDoc
<1>7. saves(p, loaded, doc) /\ psp \in [Psps -> PspDoc]
  BY <1>1 DEF saves, JobsInv, MaintenanceTypeOK
<1> HIDE DEF doc, loaded
<1>8. /\ psp' \in [Psps -> PspDoc] /\ \A q \in Psps : q # p => psp'[q] = psp[q]
      /\ psp'[p].accumulated = IF doc.accumulated # loaded.accumulated
                               THEN doc.accumulated ELSE psp[p].accumulated
      /\ psp'[p].last = IF doc.last # loaded.last THEN doc.last ELSE psp[p].last
  BY <1>5, <1>6, <1>7, PspWritten
<1>9. psp'[p].last = day
  BY <1>5, <1>6, <1>8
<1>10. JobsInv'
  <2>1. run' = [j \in Workers |-> run'[j]] /\ \A j \in Workers : RunOK(run[j])'
    BY <1>2, <1>4, NextKeeps
  <2>2. /\ runs' \in 0 .. MaxRuns /\ failures' \in Nat /\ overlaps' \in Nat
        /\ failures' + overlaps' <= MaxMishaps /\ earned' \in [Psps -> Nat]
    BY <1>2, <1>4 DEF JobsInv, MaintenanceTypeOK
  <2>3. KeepsCharges /\ \A c \in Charges : charge'[c].status # "none" => charge'[c].start < day
    BY <1>2 DEF JobsInv, MaintenanceTypeOK, KeepsCharges
  <2> QED
    BY <1>2, <1>8, <2>1, <2>2, <2>3, JobsRun
<1> QED
  BY <1>2, <1>4, <1>6, <1>8, <1>9, <1>10 DEF loaded

\* A calculation that ends or is cut off lets go of the borrowers.
LEMMA RunOverStep ==
    ASSUME JobsInv, NEW k \in Workers, RunEnd(k) \/ RunFails(k)
    PROVE  /\ JobsInv' /\ run'[k] = NoRun
           /\ \A j \in Workers : j # k => run'[j] = run[j]
           /\ UNCHANGED <<psp, charge, earned, overlaps, paid>>
           /\ IF RunEnd(k) THEN failures' = failures /\ DOMAIN run[k].docs = {}
              ELSE failures' = failures + 1
<1>1. /\ goOn(k, NoRun)
      /\ UNCHANGED <<psp, utilized, charge, marking, payment, day, runs, overlaps, earned, paid>>
      /\ IF RunEnd(k) THEN failures' = failures /\ DOMAIN run[k].docs = {}
         ELSE failures' = failures + 1 /\ failures + overlaps < MaxMishaps
  BY DEF RunEnd, RunFails, bounds, ghosts
<1>2. /\ run' = [j \in Workers |-> run'[j]] /\ \A j \in Workers : RunOK(run[j])'
      /\ \A j \in Workers : run'[j] = IF j = k THEN NoRun ELSE run[j]
  BY <1>1, NoRunOK, RunsKept
<1>3. failures \in Nat /\ overlaps \in Nat /\ failures + overlaps <= MaxMishaps
      /\ MaxMishaps \in Nat /\ runs \in 0 .. MaxRuns
  BY MaintenanceAssumption DEF JobsInv, MaintenanceTypeOK
<1>4. failures' \in Nat /\ overlaps' \in Nat /\ failures' + overlaps' <= MaxMishaps
      /\ runs' \in 0 .. MaxRuns
  BY <1>1, <1>3
<1>5. KeepsCharges /\ psp' \in [Psps -> PspDoc] /\ earned' \in [Psps -> Nat]
      /\ \A c \in Charges : charge'[c].status # "none" => charge'[c].start < day
  BY <1>1 DEF JobsInv, MaintenanceTypeOK, KeepsCharges
<1>6. JobsInv'
  BY <1>1, <1>2, <1>4, <1>5, JobsRun
<1> QED
  BY <1>1, <1>2, <1>6

\* The other jobs and routes leave the charges as billed and the borrowers as accrued, but for
\* those who have paid.
OtherNext ==
    MarkNext \/ PayStart \/ PayCharge \/ PayReset \/ Utilize \/ Expire \/ Tick

KeepsBills ==
    /\ UNCHANGED <<run, failures, overlaps, earned>> /\ KeepsCharges
    /\ paid \subseteq paid'
    /\ \A c \in Charges : charge[c].status = "none" => charge'[c].status = "none"
    /\ \A p \in Psps :
           /\ psp'[p].last = psp[p].last
           /\ p \in paid \/ psp'[p].accumulated = psp[p].accumulated

\* No charge is written.
LEMMA ChargesSame ==
    ASSUME JobsInv, UNCHANGED charge
    PROVE  /\ KeepsCharges
           /\ \A c \in Charges : charge[c].status = "none" => charge'[c].status = "none"
BY DEF JobsInv, MaintenanceTypeOK, KeepsCharges

\* A charge that exists gets another status.
LEMMA ChargesStatus ==
    ASSUME JobsInv, NEW c \in Charges, charge[c].status # "none",
           NEW s \in {"Paid", "Overdue"}, charge' = [charge EXCEPT ![c].status = s]
    PROVE  /\ KeepsCharges
           /\ \A d \in Charges : charge[d].status = "none" => charge'[d].status = "none"
<1>1. charge \in [Charges -> ChargeDoc]
  BY DEF JobsInv, MaintenanceTypeOK
<1> DEFINE new == [charge[c] EXCEPT !.status = s]
<1>2. charge[c] \in ChargeDoc
  BY <1>1
<1>3. /\ new \in ChargeDoc /\ new.status = s /\ new.psp = charge[c].psp
      /\ new.amount = charge[c].amount /\ new.start = charge[c].start
  BY <1>2 DEF ChargeDoc
<1>4. charge' = [charge EXCEPT ![c] = new]
  OBVIOUS
<1> HIDE DEF new
<1>5. /\ charge' \in [Charges -> ChargeDoc] /\ charge'[c] = new
      /\ \A d \in Charges : d # c => charge'[d] = charge[d]
  BY <1>1, <1>3, <1>4
<1> QED
  BY <1>3, <1>5 DEF KeepsCharges

\* A payment under way stays one of a charge that exists.
LEMMA PaymentSame ==
    ASSUME JobsInv, UNCHANGED payment, KeepsCharges, paid \subseteq paid'
    PROVE  PaymentOK'
BY DEF JobsInv, PaymentOK, KeepsCharges

\* Marking a charge changes its status alone.
LEMMA MarkStep ==
    ASSUME JobsInv, MarkNext
    PROVE  JobsInv' /\ KeepsBills
<1>1. UNCHANGED <<psp, utilized, run, payment, day, runs, failures, overlaps, earned, paid>>
  BY DEF MarkNext, MarkStart, MarkOverdue, bounds, ghosts
<1>2. /\ KeepsCharges
      /\ \A c \in Charges : charge[c].status = "none" => charge'[c].status = "none"
      /\ marking' \subseteq {c \in Charges : charge[c].status # "none"}
  <2>1. CASE MarkStart
    BY <2>1, ChargesSame DEF MarkStart, overdueCharges
  <2>2. CASE MarkOverdue
    <3>1. PICK c \in marking :
              charge' = [charge EXCEPT ![c].status = "Overdue"] /\ marking' = marking \ {c}
      BY <2>2 DEF MarkOverdue
    <3>2. c \in Charges /\ charge[c].status # "none"
          /\ marking \subseteq {d \in Charges : charge[d].status # "none"}
      BY DEF JobsInv, MaintenanceTypeOK
    <3> QED
      BY <3>1, <3>2, ChargesStatus
  <2> QED
    BY <2>1, <2>2 DEF MarkNext
<1>3. PaymentOK'
  BY <1>1, <1>2, PaymentSame
<1>4. /\ psp' \in [Psps -> PspDoc] /\ utilized' \in [Psps -> Utilizations] /\ paid' \subseteq Psps
      /\ day' \in 0 .. MaxDay /\ day <= day'
  BY <1>1 DEF JobsInv, MaintenanceTypeOK
<1> QED
  BY <1>1, <1>2, <1>3, <1>4, JobsOther DEF KeepsBills

\* A payment wipes what has accumulated for the borrower who has paid.
LEMMA PayStep ==
    ASSUME JobsInv, PayStart \/ PayCharge \/ PayReset
    PROVE  JobsInv' /\ KeepsBills
<1>1. UNCHANGED <<utilized, run, marking, day, runs, failures, overlaps, earned>>
  BY DEF PayStart, PayCharge, PayReset, bounds, ghosts
<1>2. /\ psp \in [Psps -> PspDoc] /\ utilized' \in [Psps -> Utilizations] /\ paid \subseteq Psps
      /\ day' \in 0 .. MaxDay /\ day <= day' /\ charge \in [Charges -> ChargeDoc]
      /\ marking' \subseteq {c \in Charges : charge[c].status # "none"}
  BY <1>1 DEF JobsInv, MaintenanceTypeOK
<1>3. /\ payment = [at |-> payment.at, charge |-> payment.charge, loaded |-> payment.loaded]
      /\ payment.charge \subseteq {c \in Charges : charge[c].status # "none"}
      /\ payment.loaded \subseteq PspDoc
      /\ \A c, d \in payment.charge : c = d
      /\ payment.at = "profile" => \A c \in payment.charge : charge[c].psp \in paid
  BY DEF JobsInv, PaymentOK
<1>4. CASE PayStart
  <2>1. PICK c \in Charges :
            /\ payable(charge[c])
            /\ payment' = [at |-> "charge", charge |-> {c}, loaded |-> {psp[charge[c].psp]}]
    BY <1>4 DEF PayStart
  <2>2. UNCHANGED <<psp, charge, paid>>
    BY <1>4 DEF PayStart, ghosts
  <2>3. charge[c].status # "none" /\ psp[charge[c].psp] \in PspDoc
    BY <1>2, <2>1 DEF payable, ChargeDoc
  <2>4. PaymentOK'
    BY <2>1, <2>2, <2>3 DEF PaymentOK
  <2>5. /\ KeepsCharges
        /\ \A d \in Charges : charge[d].status = "none" => charge'[d].status = "none"
    BY <2>2, ChargesSame
  <2> QED
    BY <1>1, <1>2, <2>2, <2>4, <2>5, JobsOther DEF KeepsBills
<1>5. CASE PayCharge
  <2>1. PICK c \in payment.charge :
            /\ charge' = [charge EXCEPT ![c].status = "Paid"]
            /\ paid' = paid \cup {charge[c].psp}
    BY <1>5 DEF PayCharge
  <2>2. UNCHANGED psp /\ payment' = [payment EXCEPT !.at = "profile"]
    BY <1>5 DEF PayCharge
  <2>3. c \in Charges /\ charge[c].status # "none" /\ charge[c].psp \in Psps
    BY <1>2, <1>3 DEF ChargeDoc
  <2>4. /\ KeepsCharges
        /\ \A d \in Charges : charge[d].status = "none" => charge'[d].status = "none"
    BY <2>1, <2>3, ChargesStatus
  <2>5. PaymentOK'
    <3>1. \A d \in payment.charge : charge'[d].psp \in paid'
      BY <1>3, <2>1, <2>3, <2>4 DEF KeepsCharges
    <3> QED
      BY <1>3, <2>2, <2>4, <3>1 DEF PaymentOK, KeepsCharges
  <2> QED
    BY <1>1, <1>2, <2>1, <2>2, <2>3, <2>4, <2>5, JobsOther DEF KeepsBills
<1>6. CASE PayReset
  <2>1. PICK c \in payment.charge, loaded \in payment.loaded :
            psp' = [psp EXCEPT ![charge[c].psp] =
                       saved(@, loaded, [loaded EXCEPT !.accumulated = 0])]
    BY <1>6 DEF PayReset
  <2>2. UNCHANGED <<charge, paid>> /\ payment.at = "profile" /\ payment' = NoPayment
    BY <1>6 DEF PayReset, ghosts
  <2> DEFINE p == charge[c].psp
             doc == [loaded EXCEPT !.accumulated = 0]
  <2>3. loaded \in PspDoc /\ p \in Psps /\ p \in paid
    BY <1>2, <1>3, <2>2
  <2>4. doc \in PspDoc /\ doc.last = loaded.last
    BY <2>3 DEF PspDoc
  <2>5. saves(p, loaded, doc)
    BY <2>1 DEF saves
  <2> HIDE DEF p, doc
  <2>6. /\ psp' \in [Psps -> PspDoc] /\ \A q \in Psps : q # p => psp'[q] = psp[q]
        /\ psp'[p].last = IF doc.last # loaded.last THEN doc.last ELSE psp[p].last
    BY <1>2, <2>3, <2>4, <2>5, PspWritten
  <2>7. /\ KeepsCharges
        /\ \A d \in Charges : charge[d].status = "none" => charge'[d].status = "none"
    BY <2>2, ChargesSame
  <2>8. PaymentOK'
    BY <2>2 DEF PaymentOK, NoPayment
  <2> QED
    BY <1>1, <1>2, <2>2, <2>3, <2>4, <2>6, <2>7, <2>8, JobsOther DEF KeepsBills
<1> QED
  BY <1>4, <1>5, <1>6

\* Neither the use of a line nor its expiry nor the day touches a fee.
LEMMA ElsewhereStep ==
    ASSUME JobsInv, Utilize \/ Expire \/ Tick
    PROVE  JobsInv' /\ KeepsBills
<1>1. UNCHANGED <<charge, run, marking, payment, runs, failures, overlaps, earned, paid>>
  BY DEF Utilize, Expire, Tick, jobs, bounds, ghosts
<1>2. /\ psp \in [Psps -> PspDoc] /\ utilized \in [Psps -> Utilizations] /\ paid \subseteq Psps
      /\ day \in 0 .. MaxDay /\ MaxDay \in Nat
      /\ marking' \subseteq {c \in Charges : charge[c].status # "none"}
  BY <1>1, MaintenanceAssumption DEF JobsInv, MaintenanceTypeOK
<1>3. /\ KeepsCharges
      /\ \A d \in Charges : charge[d].status = "none" => charge'[d].status = "none"
  BY <1>1, ChargesSame
<1>4. PaymentOK'
  BY <1>1, <1>3, PaymentSame
<1>5. /\ psp' \in [Psps -> PspDoc]
      /\ \A p \in Psps : psp'[p].last = psp[p].last /\ psp'[p].accumulated = psp[p].accumulated
  <2>1. CASE UNCHANGED psp
    BY <1>2, <2>1
  <2>2. CASE Expire
    <3>1. PICK p \in Psps : psp' = [psp EXCEPT ![p].approved = FALSE]
      BY <2>2 DEF Expire
    <3> DEFINE e == [psp[p] EXCEPT !.approved = FALSE]
    <3>2. psp[p] \in PspDoc
      BY <1>2
    <3>3. e \in PspDoc /\ e.last = psp[p].last /\ e.accumulated = psp[p].accumulated
      BY <3>2 DEF PspDoc
    <3>4. psp' = [psp EXCEPT ![p] = e]
      BY <3>1
    <3> HIDE DEF e
    <3> QED
      BY <1>2, <3>3, <3>4
  <2> QED
    BY <2>1, <2>2 DEF Utilize, Tick
<1>6. utilized' \in [Psps -> Utilizations] /\ day' \in 0 .. MaxDay /\ day <= day'
  <2>1. CASE Utilize
    BY <1>2, <2>1 DEF Utilize, bounds
  <2>2. CASE Expire
    BY <1>2, <2>2 DEF Expire, bounds
  <2>3. CASE Tick
    BY <1>2, <2>3 DEF Tick
  <2> QED
    BY <2>1, <2>2, <2>3
<1> QED
  BY <1>1, <1>2, <1>3, <1>4, <1>5, <1>6, JobsOther DEF KeepsBills

\* What is not a calculation bills and accrues nothing.
LEMMA OtherStep ==
    ASSUME JobsInv, OtherNext
    PROVE  JobsInv' /\ KeepsBills
BY MarkStep, PayStep, ElsewhereStep DEF OtherNext

\* Nothing has been calculated, charged or paid to begin with.
LEMMA JobsInit == MaintenanceInit => JobsInv
<1> SUFFICES ASSUME MaintenanceInit PROVE JobsInv
  OBVIOUS
<1>1. \A k \in Workers : run[k] = NoRun
  BY DEF MaintenanceInit
<1>2. \A k \in Workers : RunOK(run[k])
  BY <1>1, NoRunOK
<1>3. \A k \in Workers : DOMAIN run[k].docs \subseteq Psps
                         /\ run[k].current \subseteq DOMAIN run[k].docs
  BY <1>2 DEF RunOK, RunDoc, Loaded
<1>4. psp \in [Psps -> PspDoc]
  BY MaintenanceAssumption DEF MaintenanceInit, PspDoc
<1>5. charge \in [Charges -> ChargeDoc] /\ \A c \in Charges : charge[c].status = "none"
  BY NoChargeDoc DEF MaintenanceInit
<1>6. PaymentOK
  BY DEF MaintenanceInit, NoPayment, PaymentOK
<1>7. /\ marking = {} /\ day = 0 /\ runs = 0 /\ failures = 0 /\ overlaps = 0 /\ paid = {}
      /\ utilized \in [Psps -> Utilizations] /\ earned \in [Psps -> Nat]
      /\ run = [k \in Workers |-> run[k]]
  BY MaintenanceAssumption DEF MaintenanceInit
<1>8. 0 \in 0 .. MaxDay /\ 0 \in 0 .. MaxRuns /\ 0 + 0 \in 0 .. MaxMishaps
  BY MaintenanceAssumption
<1>9. MaintenanceTypeOK
  BY <1>3, <1>4, <1>5, <1>7, <1>8 DEF MaintenanceTypeOK
<1> QED
  BY <1>2, <1>5, <1>6, <1>7, <1>9 DEF JobsInv

\* Every step is one of those above, or changes nothing.
LEMMA MaintenanceSteps ==
    ASSUME [MaintenanceNext]_maintenanceVars
    PROVE  \/ \E k \in Workers :
                  \/ RunStart(k) \/ Accrue(k) \/ ChargeStart(k) \/ ChargeStore(k)
                  \/ ChargeReset(k) \/ RunEnd(k) \/ RunFails(k)
           \/ OtherNext
           \/ UNCHANGED maintenanceVars
BY DEF MaintenanceNext, RunNext, OtherNext

\* Every step keeps the jobs in order.
LEMMA JobsStep ==
    ASSUME JobsInv, [MaintenanceNext]_maintenanceVars
    PROVE  JobsInv'
<1>1. ASSUME NEW k \in Workers,
             \/ RunStart(k) \/ Accrue(k) \/ ChargeStart(k) \/ ChargeStore(k)
             \/ ChargeReset(k) \/ RunEnd(k) \/ RunFails(k)
      PROVE  JobsInv'
  BY <1>1, RunStartStep, AccrueStep, ChargeStartStep, ChargeStoreStep, ChargeResetStep,
     RunOverStep
<1>2. CASE UNCHANGED maintenanceVars
  BY <1>2 DEF maintenanceVars, JobsInv, MaintenanceTypeOK, PaymentOK, RunOK
<1> QED
  BY <1>1, <1>2, MaintenanceSteps, OtherStep

-----------------------------------------------------------------------------
(* Maintenance: a period is billed once *)

\* What is counted is finite, in a state
LEMMA BillFinite ==
    ASSUME NEW p, NEW s
    PROVE  /\ IsFiniteSet(billed(p, s)) /\ Cardinality(billed(p, s)) \in Nat
           /\ IsFiniteSet(mayBill(p, s)) /\ Cardinality(mayBill(p, s)) \in Nat
           /\ open(p, s) \in {0, 1}
<1>1. billed(p, s) \subseteq Charges /\ mayBill(p, s) \subseteq Workers
  BY DEF billed, chargesOf, mayBill
<1>2. IsFiniteSet(billed(p, s)) /\ IsFiniteSet(mayBill(p, s))
  BY <1>1, MaintenanceAssumption, FS_Subset
<1> QED
  BY <1>2, FS_CardinalityType DEF open

\* and in the next.
LEMMA BillFinitePrimed ==
    ASSUME NEW p, NEW s
    PROVE  /\ IsFiniteSet(billed(p, s)') /\ Cardinality(billed(p, s)') \in Nat
           /\ IsFiniteSet(mayBill(p, s)') /\ Cardinality(mayBill(p, s)') \in Nat
           /\ open(p, s)' \in {0, 1}
<1>1. billed(p, s)' \subseteq Charges /\ mayBill(p, s)' \subseteq Workers
  BY DEF billed, chargesOf, mayBill
<1>2. IsFiniteSet(billed(p, s)') /\ IsFiniteSet(mayBill(p, s)')
  BY <1>1, MaintenanceAssumption, FS_Subset
<1> QED
  BY <1>2, FS_CardinalityType DEF open

\* Nothing more is billed or may be.
LEMMA BillLess ==
    ASSUME NEW p, NEW s, billed(p, s)' = billed(p, s),
           mayBill(p, s)' \subseteq mayBill(p, s), open(p, s)' <= open(p, s)
    PROVE  billing(p, s)' <= billing(p, s)
<1>1. Cardinality(mayBill(p, s)') <= Cardinality(mayBill(p, s))
  BY BillFinite, FS_Subset
<1>2. Cardinality(billed(p, s)') = Cardinality(billed(p, s))
  OBVIOUS
<1> QED
  BY <1>1, <1>2, BillFinite, BillFinitePrimed DEF billing

\* A calculation has done with the borrower, and at most the period is open again.
LEMMA BillReleased ==
    ASSUME NEW p, NEW s, NEW k \in mayBill(p, s), billed(p, s)' = billed(p, s),
           mayBill(p, s)' \subseteq mayBill(p, s) \ {k}
    PROVE  billing(p, s)' <= billing(p, s)
<1>1. /\ Cardinality(mayBill(p, s) \ {k}) = Cardinality(mayBill(p, s)) - 1
      /\ IsFiniteSet(mayBill(p, s) \ {k})
  BY BillFinite, FS_RemoveElement
<1>2. Cardinality(mayBill(p, s)') <= Cardinality(mayBill(p, s) \ {k})
  BY <1>1, FS_Subset
<1>3. Cardinality(billed(p, s)') = Cardinality(billed(p, s))
  OBVIOUS
<1> QED
  BY <1>1, <1>2, <1>3, BillFinite, BillFinitePrimed DEF billing

\* A period that begins today has not been billed.
LEMMA BillFresh ==
    ASSUME JobsInv, UNCHANGED <<charge, day>>, NEW p, mayBill(p, day)' = {}
    PROVE  billing(p, day)' <= 1
<1>1. billed(p, day)' = {}
  <2>1. day \in Nat
    BY MaintenanceAssumption DEF JobsInv, MaintenanceTypeOK
  <2>2. \A c \in Charges : charge[c].status # "none" => charge[c].start < day
    BY DEF JobsInv
  <2>3. \A c \in Charges : charge[c].status # "none" => charge[c].start # day
    BY <2>1, <2>2
  <2> QED
    BY <2>3 DEF billed, chargesOf
<1>2. Cardinality(billed(p, day)') = 0 /\ Cardinality(mayBill(p, day)') = 0
  BY <1>1, FS_EmptySet
<1> QED
  BY <1>2, BillFinitePrimed DEF billing

\* What is left of a calculation when it has done with a borrower.
LEMMA BillNext ==
    ASSUME JobsInv, NEW k \in Workers, NEW p, UNCHANGED <<charge, day>>, doneWith(k, p),
           run[k].at = "next" \/ p \in run[k].current, NEW q, NEW s
    PROVE  /\ billed(q, s)' = billed(q, s)
           /\ \A j \in Workers :
                  loadedIn(j, q, s)' <=> loadedIn(j, q, s) /\ ~(j = k /\ q = p)
           /\ mayBill(q, s)' = mayBill(q, s) \ (IF q = p THEN {k} ELSE {})
<1>1. /\ \A j \in Workers : j # k => run'[j] = run[j]
      /\ run'[k].at = "next" /\ run'[k].current = {} /\ run'[k].step = 1
      /\ DOMAIN run'[k].docs = DOMAIN run[k].docs \ {p}
      /\ \A r \in DOMAIN run[k].docs \ {p} : run'[k].docs[r] = run[k].docs[r]
  BY NextKeeps
<1>2. billed(q, s)' = billed(q, s)
  BY DEF billed, chargesOf
<1>3. ASSUME NEW j \in Workers
      PROVE  loadedIn(j, q, s)' <=> loadedIn(j, q, s) /\ ~(j = k /\ q = p)
  BY <1>1 DEF loadedIn
<1>4. ASSUME NEW j \in Workers
      PROVE  j \in mayBill(q, s)' <=> j \in mayBill(q, s) /\ ~(j = k /\ q = p)
  <2>1. CASE j # k
    <3>1. j \in mayBill(q, s)' <=>
              loadedIn(j, q, s)'
              /\ ~(run'[j].at = "charge" /\ q \in run'[j].current /\ run'[j].step = 2)
      BY DEF mayBill
    <3> QED
      BY <1>1, <1>3, <2>1, <3>1 DEF mayBill
  <2>2. CASE j = k
    <3>1. j \in mayBill(q, s)' <=> loadedIn(j, q, s)'
      BY <1>1, <2>2 DEF mayBill
    <3>2. ASSUME q # p PROVE ~(run[k].at = "charge" /\ q \in run[k].current)
      <4>1. run[k].at # "charge" => run[k].current = {}
        BY DEF JobsInv, RunOK
      <4>2. \A a, b \in run[k].current : a = b
        BY DEF JobsInv, RunOK
      <4> QED
        BY <3>2, <4>1, <4>2
    <3>3. q # p => (j \in mayBill(q, s) <=> loadedIn(j, q, s))
      BY <2>2, <3>2 DEF mayBill
    <3> QED
      BY <1>3, <2>2, <3>1, <3>3
  <2> QED
    BY <2>1, <2>2
<1>5. mayBill(q, s)' \subseteq Workers /\ mayBill(q, s) \subseteq Workers
  BY DEF mayBill
<1>6. mayBill(q, s)' = mayBill(q, s) \ (IF q = p THEN {k} ELSE {})
  BY <1>4, <1>5
<1> QED
  BY <1>2, <1>3, <1>6

\* A start takes up an open period, or overlaps a calculation that has.
LEMMA BillStart ==
    ASSUME JobsInv, NEW k \in Workers, RunStart(k), NEW p \in Psps, NEW s
    PROVE  billing(p, s)' <= billing(p, s) + (overlaps' - overlaps)
<1>1. /\ run[k].at = "idle" /\ \A j \in Workers : j # k => run'[j] = run[j]
  BY RunStartStep
<1>2. /\ \A q \in DOMAIN run'[k].docs : q \in Psps /\ run'[k].docs[q] = psp[q]
      /\ run'[k].at = "next" /\ UNCHANGED <<psp, charge>>
      /\ overlaps' = IF \E j \in Workers : run[j].at # "idle" THEN overlaps + 1 ELSE overlaps
  BY RunStartStep
<1>3. overlaps \in Nat /\ DOMAIN run[k].docs = {}
      /\ (\A j \in Workers : run[j].at = "idle" => DOMAIN run[j].docs = {})
  BY <1>1 DEF JobsInv, RunOK
<1>4. billed(p, s)' = billed(p, s)
  BY <1>2 DEF billed, chargesOf
<1>5. \A j \in Workers : j # k => (loadedIn(j, p, s)' <=> loadedIn(j, p, s))
  BY <1>1 DEF loadedIn
<1>6. \A j \in Workers : j # k => (j \in mayBill(p, s)' <=> j \in mayBill(p, s))
  BY <1>1, <1>5 DEF mayBill
<1>7. ~loadedIn(k, p, s) /\ k \notin mayBill(p, s)
  BY <1>3 DEF loadedIn, mayBill
<1>8. open(p, s)' <= open(p, s)
  BY <1>2, <1>5, <1>7 DEF open
<1>9. CASE k \notin mayBill(p, s)'
  <2>1. mayBill(p, s)' \subseteq mayBill(p, s)
    <3>1. mayBill(p, s)' \subseteq Workers
      BY DEF mayBill
    <3> QED
      BY <1>6, <1>9, <3>1
  <2>2. billing(p, s)' <= billing(p, s)
    BY <1>4, <1>8, <2>1, BillLess
  <2>3. billing(p, s) \in Nat /\ billing(p, s)' \in Nat
    BY BillFinite, BillFinitePrimed DEF billing
  <2> QED
    BY <1>2, <1>3, <2>2, <2>3
<1>10. CASE k \in mayBill(p, s)'
  <2>1. loadedIn(k, p, s)' /\ psp[p].last = s
    BY <1>2, <1>10 DEF mayBill, loadedIn
  <2>2. open(p, s)' = 0
    BY <2>1 DEF open
  <2>3. mayBill(p, s)' = mayBill(p, s) \cup {k}
    <3>1. mayBill(p, s)' \subseteq Workers /\ mayBill(p, s) \subseteq Workers
      BY DEF mayBill
    <3> QED
      BY <1>6, <1>10, <3>1
  <2>4. Cardinality(mayBill(p, s)') = Cardinality(mayBill(p, s)) + 1
    BY <1>7, <2>3, BillFinite, FS_AddElement
  <2>5. open(p, s) = 1 \/ overlaps' = overlaps + 1
    BY <1>2, <1>3, <2>1 DEF open, loadedIn
  <2>6. overlaps' - overlaps \in {0, 1}
    BY <1>2, <1>3
  <2>7. Cardinality(billed(p, s)') = Cardinality(billed(p, s))
    BY <1>4
  <2> QED
    BY <1>3, <2>2, <2>4, <2>5, <2>6, <2>7, BillFinite, BillFinitePrimed DEF billing
<1> QED
  BY <1>9, <1>10

\* A fee that is accrued leaves the period open, or begins one.
LEMMA BillAccrue ==
    ASSUME JobsInv, NEW k \in Workers, Accrue(k), NEW q \in Psps, NEW s \in 0 .. MaxDay
    PROVE  billing(q, s)' <= billing(q, s) \/ billing(q, s)' <= 1
<1>1. run[k].at = "next" /\ UNCHANGED <<charge, day>>
  BY AccrueStep
<1>2. PICK p \in DOMAIN run[k].docs, fee \in Nat :
          LET loaded == run[k].docs[p]
              doc == accrued(loaded, fee)
          IN  /\ p \in Psps /\ doneWith(k, p)
              /\ \A r \in Psps : r # p => psp'[r] = psp[r]
              /\ psp'[p].last = IF doc.last # loaded.last THEN doc.last ELSE psp[p].last
  BY AccrueStep
<1> DEFINE loaded == run[k].docs[p]
           doc == accrued(loaded, fee)
<1>3. /\ p \in Psps /\ doneWith(k, p) /\ \A r \in Psps : r # p => psp'[r] = psp[r]
  BY <1>2
<1>4. psp'[p].last = IF doc.last # loaded.last THEN doc.last ELSE psp[p].last
  BY <1>2
<1>5. loaded \in PspDoc /\ day \in 0 .. MaxDay
  BY DEF JobsInv, RunOK, RunDoc, Loaded, MaintenanceTypeOK
<1>6. doc.last = IF loaded.last = Never THEN day ELSE loaded.last
  BY <1>5, AccruedDoc
<1> HIDE DEF loaded, doc
<1>7. /\ billed(q, s)' = billed(q, s)
      /\ \A j \in Workers : loadedIn(j, q, s)' <=> loadedIn(j, q, s) /\ ~(j = k /\ q = p)
  BY <1>1, <1>3, BillNext
<1>8. mayBill(q, s)' = mayBill(q, s) \ (IF q = p THEN {k} ELSE {})
  BY <1>1, <1>3, BillNext
<1>9. CASE q # p
  <2>1. mayBill(q, s)' \subseteq mayBill(q, s) /\ open(q, s)' = open(q, s)
    BY <1>3, <1>7, <1>8, <1>9 DEF open
  <2>2. open(q, s)' <= open(q, s)
    BY <2>1, BillFinite
  <2> QED
    BY <1>7, <2>1, <2>2, BillLess
<1>10. CASE q = p /\ loadedIn(k, p, s)
  <2>1. k \in mayBill(q, s)
    BY <1>1, <1>10 DEF mayBill
  <2>2. mayBill(q, s)' \subseteq mayBill(q, s) \ {k}
    BY <1>8, <1>10
  <2> QED
    BY <1>7, <2>1, <2>2, BillReleased
<1>11. CASE q = p /\ ~loadedIn(k, p, s) /\ open(q, s)' <= open(q, s)
  <2>1. mayBill(q, s)' \subseteq mayBill(q, s)
    BY <1>8
  <2> QED
    BY <1>7, <1>11, <2>1, BillLess
<1>12. CASE q = p /\ ~loadedIn(k, p, s) /\ ~(open(q, s)' <= open(q, s))
  <2>1. open(q, s)' = 1 /\ open(q, s) = 0
    BY <1>12 DEF open
  <2>2. psp'[p].last = s /\ \A j \in Workers : ~loadedIn(j, q, s)'
    BY <1>12, <2>1 DEF open
  <2>3. \A j \in Workers : ~loadedIn(j, q, s)
    BY <1>7, <1>12, <2>2
  <2>4. psp[p].last # s
    BY <1>12, <2>1, <2>3 DEF open
  <2>5. s = day
    BY <1>4, <1>6, <2>2, <2>4
  <2>6. mayBill(q, s)' = {}
    BY <2>2 DEF mayBill
  <2> QED
    BY <1>1, <2>5, <2>6, BillFresh
<1> QED
  BY <1>9, <1>10, <1>11, <1>12

\* A charge that is started has not been stored.
LEMMA BillChargeStart ==
    ASSUME JobsInv, NEW k \in Workers, ChargeStart(k), NEW q \in Psps, NEW s
    PROVE  billing(q, s)' <= billing(q, s)
<1>1. /\ run[k].at = "next" /\ UNCHANGED <<psp, charge>>
      /\ run'[k].at = "charge" /\ run'[k].step = 1 /\ run'[k].docs = run[k].docs
      /\ \A j \in Workers : j # k => run'[j] = run[j]
  BY ChargeStartStep
<1>2. billed(q, s)' = billed(q, s)
  BY <1>1 DEF billed, chargesOf
<1>3. \A j \in Workers : loadedIn(j, q, s)' <=> loadedIn(j, q, s)
  BY <1>1 DEF loadedIn
<1>4. mayBill(q, s)' \subseteq mayBill(q, s)
  BY <1>1, <1>3 DEF mayBill
<1>5. open(q, s)' = open(q, s)
  BY <1>1, <1>3 DEF open
<1>6. open(q, s)' <= open(q, s)
  BY <1>5, BillFinite
<1> QED
  BY <1>2, <1>4, <1>6, BillLess

\* A charge that is stored is the one its calculation might have stored.
LEMMA BillStore ==
    ASSUME JobsInv, NEW k \in Workers, ChargeStore(k), NEW q \in Psps, NEW s
    PROVE  billing(q, s)' <= billing(q, s)
<1>1. /\ run[k].at = "charge" /\ run[k].step = 1 /\ UNCHANGED psp
      /\ \A j \in Workers : j # k => run'[j] = run[j]
      /\ run'[k].at = "charge" /\ run'[k].step = 2
      /\ run'[k].docs = run[k].docs /\ run'[k].current = run[k].current
  BY ChargeStoreStep
<1>2. PICK p \in run[k].current, c \in Charges :
          /\ charge[c].status = "none"
          /\ \A d \in Charges : d # c => charge'[d] = charge[d]
          /\ charge'[c].status = "Pending" /\ charge'[c].psp = p
          /\ charge'[c].start = run[k].docs[p].last
  BY ChargeStoreStep
<1>3. p \in DOMAIN run[k].docs /\ \A r \in run[k].current : r = p
  BY DEF JobsInv, RunOK
<1>4. \A j \in Workers : loadedIn(j, q, s)' <=> loadedIn(j, q, s)
  BY <1>1 DEF loadedIn
<1>5. open(q, s)' = open(q, s)
  BY <1>1, <1>4 DEF open
<1>6. CASE q = p /\ s = run[k].docs[p].last
  <2>1. k \in mayBill(q, s)
    BY <1>1, <1>3, <1>6 DEF mayBill, loadedIn
  <2>2. k \notin mayBill(q, s)' /\ mayBill(q, s)' \subseteq mayBill(q, s)
    BY <1>1, <1>4, <1>6 DEF mayBill
  <2>3. mayBill(q, s)' \subseteq mayBill(q, s) \ {k}
    BY <2>2
  <2>4. /\ Cardinality(mayBill(q, s) \ {k}) = Cardinality(mayBill(q, s)) - 1
        /\ IsFiniteSet(mayBill(q, s) \ {k})
    BY <2>1, BillFinite, FS_RemoveElement
  <2>5. Cardinality(mayBill(q, s)') <= Cardinality(mayBill(q, s)) - 1
    BY <2>3, <2>4, FS_Subset
  <2>6. billed(q, s)' = billed(q, s) \cup {c} /\ c \notin billed(q, s)
    BY <1>2, <1>6 DEF billed, chargesOf
  <2>7. Cardinality(billed(q, s)') = Cardinality(billed(q, s)) + 1
    BY <2>6, BillFinite, FS_AddElement
  <2> QED
    BY <1>5, <2>5, <2>7, BillFinite, BillFinitePrimed DEF billing
<1>7. CASE ~(q = p /\ s = run[k].docs[p].last)
  <2>1. billed(q, s)' = billed(q, s)
    BY <1>2, <1>7 DEF billed, chargesOf
  <2>2. ~loadedIn(k, q, s) \/ q \notin run[k].current
    BY <1>3, <1>7 DEF loadedIn
  <2>3. mayBill(q, s)' \subseteq mayBill(q, s)
    BY <1>1, <1>4 DEF mayBill
  <2>4. open(q, s)' <= open(q, s)
    BY <1>5, BillFinite
  <2> QED
    BY <2>1, <2>3, <2>4, BillLess
<1> QED
  BY <1>6, <1>7

\* The period that begins with a charge has not been billed.
LEMMA BillReset ==
    ASSUME JobsInv, NEW k \in Workers, ChargeReset(k), NEW q \in Psps, NEW s \in 0 .. MaxDay
    PROVE  billing(q, s)' <= billing(q, s) \/ billing(q, s)' <= 1
<1>1. run[k].at = "charge" /\ UNCHANGED <<charge, day>>
  BY ChargeResetStep
<1>2. PICK p \in run[k].current :
          /\ doneWith(k, p)
          /\ \A r \in Psps : r # p => psp'[r] = psp[r]
          /\ psp'[p].last = day
  BY ChargeResetStep
<1>3. /\ billed(q, s)' = billed(q, s)
      /\ \A j \in Workers : loadedIn(j, q, s)' <=> loadedIn(j, q, s) /\ ~(j = k /\ q = p)
      /\ mayBill(q, s)' = mayBill(q, s) \ (IF q = p THEN {k} ELSE {})
  BY <1>1, <1>2, BillNext
<1>4. mayBill(q, s)' \subseteq mayBill(q, s)
  BY <1>3
<1>5. CASE open(q, s)' <= open(q, s)
  BY <1>3, <1>4, <1>5, BillLess
<1>6. CASE ~(open(q, s)' <= open(q, s))
  <2>1. open(q, s)' = 1 /\ open(q, s) = 0
    BY <1>6 DEF open
  <2>2. psp'[q].last = s /\ \A j \in Workers : ~loadedIn(j, q, s)'
    BY <2>1 DEF open
  <2>3. mayBill(q, s)' = {}
    BY <2>2 DEF mayBill
  <2>4. CASE q = p
    <3>1. s = day
      BY <1>2, <2>2, <2>4
    <3> QED
      BY <1>1, <2>3, <3>1, BillFresh
  <2>5. CASE q # p
    <3>1. open(q, s)' = open(q, s)
      BY <1>2, <1>3, <2>5 DEF open
    <3> QED
      BY <2>1, <3>1
  <2> QED
    BY <2>4, <2>5
<1> QED
  BY <1>5, <1>6

\* A calculation that is cut off may leave its periods open for one more.
LEMMA BillOver ==
    ASSUME JobsInv, NEW k \in Workers, RunEnd(k) \/ RunFails(k), NEW q \in Psps, NEW s
    PROVE  billing(q, s)' <= billing(q, s) + (failures' - failures)
<1>1. /\ run'[k] = NoRun /\ \A j \in Workers : j # k => run'[j] = run[j]
  BY RunOverStep
<1>2. /\ UNCHANGED <<psp, charge>>
      /\ IF RunEnd(k) THEN failures' = failures /\ DOMAIN run[k].docs = {}
         ELSE failures' = failures + 1
  BY RunOverStep
<1>3. billed(q, s)' = billed(q, s)
  BY <1>2 DEF billed, chargesOf
<1>4. \A j \in Workers : loadedIn(j, q, s)' <=> loadedIn(j, q, s) /\ j # k
  BY <1>1, NoRunOK DEF loadedIn
<1>5. mayBill(q, s)' \subseteq mayBill(q, s)
  BY <1>1, <1>4 DEF mayBill
<1>6. failures \in Nat /\ billing(q, s) \in Nat /\ billing(q, s)' \in Nat
  BY BillFinite, BillFinitePrimed DEF billing, JobsInv
<1>7. CASE RunEnd(k)
  <2>1. ~loadedIn(k, q, s)
    BY <1>2, <1>7 DEF loadedIn
  <2>2. open(q, s)' = open(q, s)
    BY <1>2, <1>4, <2>1 DEF open
  <2>3. open(q, s)' <= open(q, s)
    BY <2>2, BillFinite
  <2>4. billing(q, s)' <= billing(q, s)
    BY <1>3, <1>5, <2>3, BillLess
  <2> QED
    BY <1>2, <1>6, <1>7, <2>4
<1>8. CASE ~RunEnd(k)
  <2>1. Cardinality(mayBill(q, s)') <= Cardinality(mayBill(q, s))
    BY <1>5, BillFinite, FS_Subset
  <2>2. Cardinality(billed(q, s)') = Cardinality(billed(q, s))
    BY <1>3
  <2>3. failures' - failures = 1
    BY <1>2, <1>6, <1>8
  <2> QED
    BY <2>1, <2>2, <2>3, BillFinite, BillFinitePrimed DEF billing
<1> QED
  BY <1>7, <1>8

\* The other jobs and routes bill nothing.
LEMMA BillOther ==
    ASSUME JobsInv, KeepsBills, NEW q \in Psps, NEW s
    PROVE  billing(q, s)' <= billing(q, s)
<1>1. billed(q, s)' = billed(q, s)
  BY DEF KeepsBills, KeepsCharges, billed, chargesOf
<1>2. \A j \in Workers : loadedIn(j, q, s)' <=> loadedIn(j, q, s)
  BY DEF KeepsBills, loadedIn
<1>3. mayBill(q, s)' \subseteq mayBill(q, s)
  BY <1>2 DEF KeepsBills, mayBill
<1>4. open(q, s)' = open(q, s)
  BY <1>2 DEF KeepsBills, open
<1>5. open(q, s)' <= open(q, s)
  BY <1>4, BillFinite
<1> QED
  BY <1>1, <1>3, <1>5, BillLess

\* A step bills a period once more only where a calculation is cut off or overlaps another.
LEMMA BillStep ==
    ASSUME JobsInv, BillInv, [MaintenanceNext]_maintenanceVars
    PROVE  BillInv'
<1> SUFFICES ASSUME NEW p \in Psps, NEW s \in 0 .. MaxDay
             PROVE  billing(p, s)' <= 1 + failures' + overlaps'
  BY DEF BillInv
<1>1. billing(p, s) <= 1 + failures + overlaps
  BY DEF BillInv
<1>2. /\ billing(p, s) \in Nat /\ billing(p, s)' \in Nat
      /\ failures \in Nat /\ overlaps \in Nat
  BY BillFinite, BillFinitePrimed DEF billing, JobsInv
<1>3. ASSUME NEW k \in Workers, RunStart(k) PROVE billing(p, s)' <= 1 + failures' + overlaps'
  <2>1. billing(p, s)' <= billing(p, s) + (overlaps' - overlaps)
    BY <1>3, BillStart
  <2>2. failures' = failures /\ overlaps' \in {overlaps, overlaps + 1}
    BY <1>3, RunStartStep
  <2> QED
    BY <1>1, <1>2, <2>1, <2>2
<1>4. ASSUME NEW k \in Workers, Accrue(k) PROVE billing(p, s)' <= 1 + failures' + overlaps'
  <2>1. billing(p, s)' <= billing(p, s) \/ billing(p, s)' <= 1
    BY <1>4, BillAccrue
  <2>2. failures' = failures /\ overlaps' = overlaps
    BY <1>4, AccrueStep
  <2> QED
    BY <1>1, <1>2, <2>1, <2>2
<1>5. ASSUME NEW k \in Workers, ChargeStart(k)
      PROVE  billing(p, s)' <= 1 + failures' + overlaps'
  <2>1. billing(p, s)' <= billing(p, s)
    BY <1>5, BillChargeStart
  <2>2. failures' = failures /\ overlaps' = overlaps
    BY <1>5, ChargeStartStep
  <2> QED
    BY <1>1, <1>2, <2>1, <2>2
<1>6. ASSUME NEW k \in Workers, ChargeStore(k)
      PROVE  billing(p, s)' <= 1 + failures' + overlaps'
  <2>1. billing(p, s)' <= billing(p, s)
    BY <1>6, BillStore
  <2>2. failures' = failures /\ overlaps' = overlaps
    BY <1>6, ChargeStoreStep
  <2> QED
    BY <1>1, <1>2, <2>1, <2>2
<1>7. ASSUME NEW k \in Workers, ChargeReset(k)
      PROVE  billing(p, s)' <= 1 + failures' + overlaps'
  <2>1. billing(p, s)' <= billing(p, s) \/ billing(p, s)' <= 1
    BY <1>7, BillReset
  <2>2. failures' = failures /\ overlaps' = overlaps
    BY <1>7, ChargeResetStep
  <2> QED
    BY <1>1, <1>2, <2>1, <2>2
<1>8. ASSUME NEW k \in Workers, RunEnd(k) \/ RunFails(k)
      PROVE  billing(p, s)' <= 1 + failures' + overlaps'
  <2>1. billing(p, s)' <= billing(p, s) + (failures' - failures)
    BY <1>8, BillOver
  <2>2. overlaps' = overlaps /\ failures' \in {failures, failures + 1}
    BY <1>8, RunOverStep
  <2> QED
    BY <1>1, <1>2, <2>1, <2>2
<1>9. CASE OtherNext
  <2>1. billing(p, s)' <= billing(p, s)
    BY <1>9, OtherStep, BillOther
  <2>2. failures' = failures /\ overlaps' = overlaps
    BY <1>9, OtherStep DEF KeepsBills
  <2> QED
    BY <1>1, <1>2, <2>1, <2>2
<1>10. CASE UNCHANGED maintenanceVars
  <2>1. billing(p, s)' = billing(p, s)
    BY <1>10 DEF maintenanceVars, billing, billed, chargesOf, mayBill, loadedIn, open
  <2> QED
    BY <1>1, <1>10, <2>1 DEF maintenanceVars
<1> QED
  BY <1>3, <1>4, <1>5, <1>6, <1>7, <1>8, <1>9, <1>10, MaintenanceSteps

\* Nothing is billed to begin with.
LEMMA BillInit == MaintenanceInit => BillInv
<1> SUFFICES ASSUME MaintenanceInit, NEW p \in Psps, NEW s \in 0 .. MaxDay
             PROVE  billing(p, s) <= 1 + failures + overlaps
  BY DEF BillInv
<1>1. billed(p, s) = {}
  BY NoChargeDoc DEF MaintenanceInit, billed, chargesOf
<1>2. mayBill(p, s) = {}
  BY NoRunOK DEF MaintenanceInit, mayBill, loadedIn
<1>3. failures = 0 /\ overlaps = 0
  BY DEF MaintenanceInit
<1> QED
  BY <1>1, <1>2, <1>3, FS_EmptySet, BillFinite DEF billing

-----------------------------------------------------------------------------
(* Maintenance: no fee is lost *)

\* What is billed is a natural number.
LEMMA FeesNat ==
    ASSUME JobsInv, NEW p
    PROVE  billedFees(p) \in Nat
<1>1. IsFiniteSet(chargesOf(p))
  BY MaintenanceAssumption, FS_Subset DEF chargesOf
<1>2. \A c \in chargesOf(p) : [d \in chargesOf(p) |-> charge[d].amount][c] \in Nat
  BY DEF JobsInv, MaintenanceTypeOK, ChargeDoc, chargesOf
<1> QED
  BY <1>1, <1>2, SumNat DEF billedFees

\* Fees that are billed stay billed.
LEMMA FeesKept ==
    ASSUME JobsInv, KeepsCharges,
           \A c \in Charges : charge[c].status = "none" => charge'[c].status = "none", NEW p
    PROVE  billedFees(p)' = billedFees(p)
<1> DEFINE f == [c \in chargesOf(p) |-> charge[c].amount]
<1>1. chargesOf(p)' = chargesOf(p)
  BY DEF KeepsCharges, chargesOf
<1>2. \A c \in chargesOf(p) : f'[c] = f[c]
  BY <1>1 DEF KeepsCharges, chargesOf
<1>3. SumOf(f', chargesOf(p)) = SumOf(f, chargesOf(p))
  BY <1>2, SumSame
<1> QED
  BY <1>1, <1>3 DEF billedFees

\* A charge that is stored adds its amount to what is billed.
LEMMA FeesAdded ==
    ASSUME JobsInv, JobsInv', NEW c \in Charges, charge[c].status = "none",
           \A d \in Charges : d # c => charge'[d] = charge[d],
           charge'[c].status = "Pending", NEW p
    PROVE  billedFees(p)' = billedFees(p) + (IF charge'[c].psp = p THEN charge'[c].amount ELSE 0)
<1> DEFINE S == chargesOf(p)
           f == [d \in chargesOf(p) |-> charge[d].amount]
<1>1. IsFiniteSet(S')
  BY MaintenanceAssumption, FS_Subset DEF chargesOf
<1>2. \A d \in S' : f'[d] \in Nat
  BY DEF JobsInv, MaintenanceTypeOK, ChargeDoc, chargesOf
<1>3. c \notin S /\ S' = IF charge'[c].psp = p THEN S \cup {c} ELSE S
  BY DEF chargesOf
<1>4. \A d \in S : f'[d] = f[d]
  BY <1>3 DEF chargesOf
<1>5. SumOf(f', S) = SumOf(f, S)
  BY <1>4, SumSame
<1>6. billedFees(p)' = SumOf(f', S') /\ billedFees(p) = SumOf(f, S)
  BY DEF billedFees
<1>7. billedFees(p) \in Nat
  BY FeesNat
<1>8. c \in S' => f'[c] = charge'[c].amount
  OBVIOUS
<1> HIDE DEF S, f
<1>9. CASE charge'[c].psp = p
  <2>1. c \in S' /\ S' \ {c} = S
    BY <1>3, <1>9
  <2>2. SumOf(f', S') = SumOf(f', S' \ {c}) + f'[c]
    BY <1>1, <1>2, <2>1, SumPart
  <2> QED
    BY <1>5, <1>6, <1>8, <1>9, <2>1, <2>2
<1>10. CASE charge'[c].psp # p
  BY <1>3, <1>5, <1>6, <1>7, <1>10
<1> QED
  BY <1>9, <1>10

\* Nothing has been earned to begin with.
LEMMA FeeInit == MaintenanceInit => FeeInv
<1> SUFFICES ASSUME MaintenanceInit PROVE FeeInv
  OBVIOUS
<1>1. \A k \in Workers : run[k].at = "idle" /\ DOMAIN run[k].docs = {} /\ run[k].current = {}
  BY NoRunOK DEF MaintenanceInit, NoRun
<1>2. ASSUME NEW p \in Psps PROVE psp[p].accumulated + billedFees(p) >= earned[p]
  <2>1. psp[p].accumulated = 0 /\ earned[p] = 0
    BY DEF MaintenanceInit
  <2> QED
    BY <2>1, JobsInit, FeesNat
<1> QED
  BY <1>1, <1>2 DEF FeeInv

\* A step of a calculation that is alone.
LEMMA FeeAlone ==
    ASSUME JobsInv, FeeInv, overlaps = 0, NEW k \in Workers, run[k].at # "idle",
           \A j \in Workers : j # k => run'[j] = run[j]
    PROVE  /\ \A j \in Workers : j # k => /\ run'[j].at = "idle" /\ DOMAIN run'[j].docs = {}
                                          /\ run'[j].current = {}
           /\ \A i, j \in Workers : run'[i].at # "idle" /\ run'[j].at # "idle" => i = j
<1>1. \A j \in Workers : j # k => run[j].at = "idle"
  BY DEF FeeInv
<1>2. \A j \in Workers : j # k => DOMAIN run[j].docs = {} /\ run[j].current = {}
  BY <1>1 DEF JobsInv, RunOK
<1> QED
  BY <1>1, <1>2

\* A calculation that starts alone has loaded what is stored.
LEMMA FeeStart ==
    ASSUME JobsInv, JobsInv', FeeInv, NEW k \in Workers, RunStart(k)
    PROVE  FeeInv'
<1> SUFFICES ASSUME overlaps' = 0 PROVE FeeInv'
  BY DEF FeeInv
<1>1. /\ run[k].at = "idle" /\ \A j \in Workers : j # k => run'[j] = run[j]
  BY RunStartStep
<1>2. /\ \A p \in DOMAIN run'[k].docs : p \in Psps /\ run'[k].docs[p] = psp[p]
      /\ run'[k].current = {} /\ UNCHANGED <<psp, charge, earned, paid>>
      /\ overlaps' = IF \E j \in Workers : run[j].at # "idle" THEN overlaps + 1 ELSE overlaps
  BY RunStartStep
<1>3. overlaps = 0 /\ \A j \in Workers : run[j].at = "idle"
  BY <1>2 DEF JobsInv
<1>4. \A j \in Workers : DOMAIN run[j].docs = {} /\ run[j].current = {}
  BY <1>3 DEF JobsInv, RunOK
<1>5. \A j \in Workers : j # k => /\ run'[j].at = "idle" /\ DOMAIN run'[j].docs = {}
                                  /\ run'[j].current = {}
  BY <1>1, <1>3, <1>4
<1>6. \A p \in Psps \ paid' : psp'[p].accumulated + billedFees(p)' >= earned'[p]
  <2>1. \A p : billedFees(p)' = billedFees(p)
    BY <1>2, ChargesSame, FeesKept
  <2> QED
    BY <1>2, <1>3, <2>1 DEF FeeInv
<1> QED
  BY <1>2, <1>5, <1>6 DEF FeeInv

\* What is earned for a day is accumulated.
LEMMA FeeAccrue ==
    ASSUME JobsInv, JobsInv', FeeInv, NEW k \in Workers, Accrue(k)
    PROVE  FeeInv'
<1> SUFFICES ASSUME overlaps' = 0 PROVE FeeInv'
  BY DEF FeeInv
<1>1. run[k].at = "next" /\ UNCHANGED <<charge, day, overlaps, paid>>
  BY AccrueStep
<1>2. PICK p \in DOMAIN run[k].docs, fee \in Nat :
          LET loaded == run[k].docs[p]
              doc == accrued(loaded, fee)
          IN  /\ p \in Psps /\ doneWith(k, p)
              /\ earned' = [earned EXCEPT ![p] = @ + fee]
              /\ \A r \in Psps : r # p => psp'[r] = psp[r]
              /\ psp'[p].accumulated = IF doc.accumulated # loaded.accumulated
                                       THEN doc.accumulated ELSE psp[p].accumulated
  BY AccrueStep
<1> DEFINE loaded == run[k].docs[p]
           doc == accrued(loaded, fee)
<1>3. /\ p \in Psps /\ doneWith(k, p)
      /\ earned' = [earned EXCEPT ![p] = @ + fee]
      /\ \A r \in Psps : r # p => psp'[r] = psp[r]
  BY <1>2
<1>4. psp'[p].accumulated = IF doc.accumulated # loaded.accumulated
                            THEN doc.accumulated ELSE psp[p].accumulated
  BY <1>2
<1>5. loaded \in PspDoc /\ day \in 0 .. MaxDay
  BY DEF JobsInv, RunOK, RunDoc, Loaded, MaintenanceTypeOK
<1>6. doc.accumulated = loaded.accumulated + fee /\ loaded.accumulated \in Nat
  BY <1>5, AccruedDoc DEF PspDoc
<1> HIDE DEF doc
<1>7. /\ \A j \in Workers : j # k => run'[j] = run[j]
      /\ run'[k].current = {} /\ DOMAIN run'[k].docs = DOMAIN run[k].docs \ {p}
      /\ \A q \in DOMAIN run[k].docs \ {p} : run'[k].docs[q] = run[k].docs[q]
  BY <1>1, <1>3, NextKeeps
<1>8. /\ \A j \in Workers : j # k => /\ run'[j].at = "idle" /\ DOMAIN run'[j].docs = {}
                                     /\ run'[j].current = {}
      /\ \A i, j \in Workers : run'[i].at # "idle" /\ run'[j].at # "idle" => i = j
  <2>1. run[k].at # "idle"
    BY <1>1
  <2> QED
    BY <1>1, <1>7, <2>1, FeeAlone
<1>9. ASSUME NEW q \in Psps \ paid'
      PROVE  psp'[q].accumulated + billedFees(q)' >= earned'[q]
  <2>1. billedFees(q)' = billedFees(q) /\ billedFees(q) \in Nat
    BY <1>1, ChargesSame, FeesKept, FeesNat
  <2>2. psp[q].accumulated + billedFees(q) >= earned[q]
    BY <1>1 DEF FeeInv
  <2>3. psp[q].accumulated \in Nat /\ earned[q] \in Nat /\ earned \in [Psps -> Nat]
    BY DEF JobsInv, MaintenanceTypeOK, PspDoc
  <2>4. CASE q # p
    BY <1>3, <2>1, <2>2, <2>3, <2>4
  <2>5. CASE q = p
    <3>1. loaded.accumulated = psp[p].accumulated
      BY <1>1, <2>5 DEF FeeInv
    <3>2. psp'[p].accumulated = psp[p].accumulated + fee
      BY <1>4, <1>6, <3>1
    <3>3. earned'[p] = earned[p] + fee
      BY <1>3, <2>3
    <3> QED
      BY <2>1, <2>2, <2>3, <2>5, <3>2, <3>3
  <2> QED
    BY <2>4, <2>5
<1>10. ASSUME NEW j \in Workers, NEW q \in Psps \ paid', q \in DOMAIN run'[j].docs
       PROVE  run'[j].docs[q].accumulated = psp'[q].accumulated
  <2>1. j = k
    BY <1>8, <1>10
  <2>2. q # p /\ q \in DOMAIN run[k].docs /\ run'[k].docs[q] = run[k].docs[q]
    BY <1>7, <1>10, <2>1
  <2>3. run[k].docs[q].accumulated = psp[q].accumulated
    BY <1>1, <2>2 DEF FeeInv
  <2> QED
    BY <1>3, <2>1, <2>2, <2>3
<1>11. \A j \in Workers : run'[j].current = {}
  BY <1>7, <1>8
<1> QED
  BY <1>8, <1>9, <1>10, <1>11 DEF FeeInv

\* Picking the borrower to bill changes no fee.
LEMMA FeeChargeStart ==
    ASSUME JobsInv, JobsInv', FeeInv, NEW k \in Workers, ChargeStart(k)
    PROVE  FeeInv'
<1> SUFFICES ASSUME overlaps' = 0 PROVE FeeInv'
  BY DEF FeeInv
<1>1. /\ run[k].at = "next" /\ UNCHANGED <<psp, charge, overlaps, earned, paid>>
      /\ run'[k].step = 1 /\ run'[k].docs = run[k].docs
      /\ \A j \in Workers : j # k => run'[j] = run[j]
  BY ChargeStartStep
<1>2. run[k].at # "idle" /\ overlaps = 0
  BY <1>1
<1>3. /\ \A j \in Workers : j # k => /\ run'[j].at = "idle" /\ DOMAIN run'[j].docs = {}
                                     /\ run'[j].current = {}
      /\ \A i, j \in Workers : run'[i].at # "idle" /\ run'[j].at # "idle" => i = j
  BY <1>1, <1>2, FeeAlone
<1>4. \A p \in Psps \ paid' : psp'[p].accumulated + billedFees(p)' >= earned'[p]
  <2>1. \A p : billedFees(p)' = billedFees(p)
    BY <1>1, ChargesSame, FeesKept
  <2> QED
    BY <1>1, <1>2, <2>1 DEF FeeInv
<1>5. \A j \in Workers, p \in Psps \ paid' :
          p \in DOMAIN run'[j].docs => run'[j].docs[p].accumulated = psp'[p].accumulated
  BY <1>1, <1>2, <1>3 DEF FeeInv
<1>6. \A j \in Workers, p \in Psps \ paid' :
          p \in run'[j].current /\ run'[j].step = 2 => billedFees(p)' >= earned'[p]
  BY <1>1, <1>3
<1> QED
  BY <1>3, <1>4, <1>5, <1>6 DEF FeeInv

\* The charge takes over all that has accumulated, and the fee of the day.
LEMMA FeeStore ==
    ASSUME JobsInv, JobsInv', FeeInv, NEW k \in Workers, ChargeStore(k)
    PROVE  FeeInv'
<1> SUFFICES ASSUME overlaps' = 0 PROVE FeeInv'
  BY DEF FeeInv
<1>1. /\ run[k].at = "charge" /\ UNCHANGED <<psp, overlaps, paid>>
      /\ run'[k].docs = run[k].docs /\ run'[k].current = run[k].current
      /\ \A j \in Workers : j # k => run'[j] = run[j]
  BY ChargeStoreStep
<1>2. PICK p \in run[k].current, c \in Charges :
          /\ charge[c].status = "none"
          /\ \A d \in Charges : d # c => charge'[d] = charge[d]
          /\ charge'[c].status = "Pending" /\ charge'[c].psp = p
          /\ charge'[c].amount = run[k].docs[p].accumulated + run[k].fee
          /\ earn(p, run[k].fee)
  BY ChargeStoreStep
<1>3. /\ p \in DOMAIN run[k].docs /\ p \in Psps /\ \A r \in run[k].current : r = p
      /\ run[k].fee \in Nat
  BY DEF JobsInv, RunOK, RunDoc, Loaded
<1>4. run[k].at # "idle" /\ overlaps = 0
  BY <1>1
<1>5. /\ \A j \in Workers : j # k => /\ run'[j].at = "idle" /\ DOMAIN run'[j].docs = {}
                                     /\ run'[j].current = {}
      /\ \A i, j \in Workers : run'[i].at # "idle" /\ run'[j].at # "idle" => i = j
  BY <1>1, <1>4, FeeAlone
<1>6. \A q : billedFees(q)' = billedFees(q) + (IF p = q THEN charge'[c].amount ELSE 0)
  BY <1>2, FeesAdded
<1>7. earned \in [Psps -> Nat] /\ earned' = [earned EXCEPT ![p] = @ + run[k].fee]
      /\ \A q \in Psps : psp[q].accumulated \in Nat
  BY <1>2 DEF earn, JobsInv, MaintenanceTypeOK, PspDoc
<1>8. ASSUME p \notin paid PROVE billedFees(p)' >= earned'[p]
  <2>1. run[k].docs[p].accumulated = psp[p].accumulated
        /\ psp[p].accumulated + billedFees(p) >= earned[p]
    BY <1>3, <1>4, <1>8 DEF FeeInv
  <2>2. billedFees(p)' = billedFees(p) + (psp[p].accumulated + run[k].fee)
    BY <1>2, <1>6, <2>1
  <2>3. earned'[p] = earned[p] + run[k].fee /\ earned[p] \in Nat /\ psp[p].accumulated \in Nat
        /\ billedFees(p) \in Nat
    BY <1>3, <1>7, FeesNat
  <2> QED
    BY <1>3, <2>1, <2>2, <2>3
<1>9. ASSUME NEW q \in Psps \ paid'
      PROVE  psp'[q].accumulated + billedFees(q)' >= earned'[q]
  <2>1. CASE q = p
    <3>1. billedFees(p)' \in Nat /\ earned'[p] \in Nat /\ psp'[p].accumulated \in Nat
      <4>1. earned' \in [Psps -> Nat]
        BY DEF JobsInv, MaintenanceTypeOK
      <4>2. billedFees(p)' \in Nat
        <5>1. charge'[c].amount \in Nat
          BY DEF JobsInv, MaintenanceTypeOK, ChargeDoc
        <5> QED
          BY <1>6, <5>1, FeesNat
      <4> QED
        BY <1>1, <1>3, <1>7, <4>1, <4>2
    <3> QED
      BY <1>1, <1>8, <1>9, <2>1, <3>1
  <2>2. CASE q # p
    <3>1. billedFees(q)' = billedFees(q)
      BY <1>6, <2>2, FeesNat
    <3> QED
      BY <1>1, <1>4, <1>7, <1>9, <2>2, <3>1 DEF FeeInv
  <2> QED
    BY <2>1, <2>2
<1>10. \A j \in Workers, q \in Psps \ paid' :
           q \in DOMAIN run'[j].docs => run'[j].docs[q].accumulated = psp'[q].accumulated
  BY <1>1, <1>4, <1>5 DEF FeeInv
<1>11. \A j \in Workers, q \in Psps \ paid' :
           q \in run'[j].current /\ run'[j].step = 2 => billedFees(q)' >= earned'[q]
  <2>1. ASSUME NEW j \in Workers, NEW q \in Psps \ paid', q \in run'[j].current
        PROVE  q = p
    BY <1>1, <1>3, <1>5, <2>1
  <2> QED
    BY <1>1, <1>8, <2>1
<1> QED
  BY <1>5, <1>9, <1>10, <1>11 DEF FeeInv

\* What is wiped is in the charge.
LEMMA FeeReset ==
    ASSUME JobsInv, JobsInv', FeeInv, NEW k \in Workers, ChargeReset(k)
    PROVE  FeeInv'
<1> SUFFICES ASSUME overlaps' = 0 PROVE FeeInv'
  BY DEF FeeInv
<1>1. run[k].at = "charge" /\ run[k].step = 2 /\ UNCHANGED <<charge, day, earned, overlaps, paid>>
  BY ChargeResetStep
<1>2. PICK p \in run[k].current :
          /\ doneWith(k, p)
          /\ \A r \in Psps : r # p => psp'[r] = psp[r]
  BY ChargeResetStep
<1>3. p \in Psps /\ run[k].at # "idle" /\ overlaps = 0
  BY <1>1 DEF JobsInv, RunOK, RunDoc, Loaded
<1>4. /\ \A j \in Workers : j # k => run'[j] = run[j]
      /\ run'[k].current = {} /\ DOMAIN run'[k].docs = DOMAIN run[k].docs \ {p}
      /\ \A q \in DOMAIN run[k].docs \ {p} : run'[k].docs[q] = run[k].docs[q]
  BY <1>1, <1>2, NextKeeps
<1>5. /\ \A j \in Workers : j # k => /\ run'[j].at = "idle" /\ DOMAIN run'[j].docs = {}
                                     /\ run'[j].current = {}
      /\ \A i, j \in Workers : run'[i].at # "idle" /\ run'[j].at # "idle" => i = j
  BY <1>3, <1>4, FeeAlone
<1>6. ASSUME NEW q \in Psps \ paid'
      PROVE  psp'[q].accumulated + billedFees(q)' >= earned'[q]
  <2>1. billedFees(q)' = billedFees(q) /\ billedFees(q) \in Nat
    BY <1>1, ChargesSame, FeesKept, FeesNat
  <2>2. CASE q = p
    <3>1. billedFees(p) >= earned[p]
      BY <1>1, <1>3, <1>6, <2>2 DEF FeeInv
    <3>2. psp'[p].accumulated \in Nat /\ earned[p] \in Nat
      BY <1>3 DEF JobsInv, MaintenanceTypeOK, PspDoc
    <3> QED
      BY <1>1, <2>1, <2>2, <3>1, <3>2
  <2>3. CASE q # p
    BY <1>1, <1>2, <1>3, <1>6, <2>1, <2>3 DEF FeeInv
  <2> QED
    BY <2>2, <2>3
<1>7. ASSUME NEW j \in Workers, NEW q \in Psps \ paid', q \in DOMAIN run'[j].docs
      PROVE  run'[j].docs[q].accumulated = psp'[q].accumulated
  <2>1. j = k
    BY <1>5, <1>7
  <2>2. q # p /\ q \in DOMAIN run[k].docs /\ run'[k].docs[q] = run[k].docs[q]
    BY <1>4, <1>7, <2>1
  <2>3. run[k].docs[q].accumulated = psp[q].accumulated
    BY <1>1, <1>3, <2>2 DEF FeeInv
  <2> QED
    BY <1>2, <2>1, <2>2, <2>3
<1>8. \A j \in Workers : run'[j].current = {}
  BY <1>4, <1>5
<1> QED
  BY <1>5, <1>6, <1>7, <1>8 DEF FeeInv

\* A calculation that ends or is cut off changes no fee.
LEMMA FeeOver ==
    ASSUME JobsInv, JobsInv', FeeInv, NEW k \in Workers, RunEnd(k) \/ RunFails(k)
    PROVE  FeeInv'
<1> SUFFICES ASSUME overlaps' = 0 PROVE FeeInv'
  BY DEF FeeInv
<1>1. /\ UNCHANGED <<psp, charge, earned, overlaps, paid>> /\ run'[k] = NoRun
      /\ \A j \in Workers : j # k => run'[j] = run[j]
  BY RunOverStep
<1>2. overlaps = 0 /\ run'[k].at = "idle" /\ DOMAIN run'[k].docs = {} /\ run'[k].current = {}
  BY <1>1, NoRunOK DEF NoRun
<1>3. \A p \in Psps \ paid' : psp'[p].accumulated + billedFees(p)' >= earned'[p]
  <2>1. \A p : billedFees(p)' = billedFees(p)
    BY <1>1, ChargesSame, FeesKept
  <2> QED
    BY <1>1, <1>2, <2>1 DEF FeeInv
<1>4. \A i, j \in Workers : run'[i].at # "idle" /\ run'[j].at # "idle" => i = j
  BY <1>1, <1>2 DEF FeeInv
<1>5. \A j \in Workers, q \in Psps \ paid' :
          q \in DOMAIN run'[j].docs => run'[j].docs[q].accumulated = psp'[q].accumulated
  BY <1>1, <1>2 DEF FeeInv
<1>6. \A j \in Workers, q \in Psps \ paid' :
          q \in run'[j].current /\ run'[j].step = 2 => billedFees(q)' >= earned'[q]
  <2>1. \A p : billedFees(p)' = billedFees(p)
    BY <1>1, ChargesSame, FeesKept
  <2> QED
    BY <1>1, <1>2, <2>1 DEF FeeInv
<1> QED
  BY <1>3, <1>4, <1>5, <1>6 DEF FeeInv

\* Nor does anything but a calculation, for those who have not paid.
LEMMA FeeOther ==
    ASSUME JobsInv, JobsInv', FeeInv, KeepsBills
    PROVE  FeeInv'
<1> SUFFICES ASSUME overlaps' = 0 PROVE FeeInv'
  BY DEF FeeInv
<1>1. UNCHANGED <<run, overlaps, earned>> /\ paid \subseteq paid' /\ overlaps = 0
  BY DEF KeepsBills
<1>2. \A p : billedFees(p)' = billedFees(p)
  BY FeesKept DEF KeepsBills
<1>3. \A p \in Psps \ paid' : p \notin paid /\ psp'[p].accumulated = psp[p].accumulated
  BY DEF KeepsBills
<1> QED
  BY <1>1, <1>2, <1>3 DEF FeeInv

\* Every step keeps the fees.
LEMMA FeeStep ==
    ASSUME JobsInv, FeeInv, [MaintenanceNext]_maintenanceVars
    PROVE  FeeInv'
<1>1. JobsInv'
  BY JobsStep
<1>2. CASE UNCHANGED maintenanceVars
  <2>1. \A p : billedFees(p)' = billedFees(p)
    BY <1>2 DEF maintenanceVars, billedFees, chargesOf
  <2> QED
    BY <1>2, <2>1 DEF maintenanceVars, FeeInv
<1> QED
  BY <1>1, <1>2, MaintenanceSteps, FeeStart, FeeAccrue, FeeChargeStart, FeeStore, FeeReset,
     FeeOver, OtherStep, FeeOther

-----------------------------------------------------------------------------
(* Maintenance: theorems *)

\* The invariant holds in every state of every behaviour.
THEOREM MaintenanceInvariance == MaintenanceSpec => []MaintenanceInv
<1>1. MaintenanceInit => MaintenanceInv
  BY JobsInit, BillInit, FeeInit DEF MaintenanceInv
<1>2. MaintenanceInv /\ [MaintenanceNext]_maintenanceVars => MaintenanceInv'
  BY JobsStep, BillStep, FeeStep DEF MaintenanceInv
<1> QED
  BY <1>1, <1>2, PTL DEF MaintenanceSpec

\* No accumulated fee and no charge is negative, whatever is utilized, and the jobs and the
\* payment only hold documents that exist.
THEOREM MaintenanceTypeCorrect == MaintenanceSpec => []MaintenanceTypeOK
<1>1. MaintenanceInv => MaintenanceTypeOK
  BY DEF MaintenanceInv, JobsInv
<1> QED
  BY <1>1, MaintenanceInvariance, PTL

\* Any number of calculations, whether they are cut off or overlap, bill a period once, and
\* once more for each such mishap at most.
THEOREM PeriodBilledOnce == MaintenanceSpec => []BilledOncePerPeriod
<1>1. MaintenanceInv => BilledOncePerPeriod
  <2> SUFFICES ASSUME MaintenanceInv, NEW p \in Psps, NEW c \in chargesOf(p)
               PROVE  Cardinality({d \in chargesOf(p) : charge[d].start = charge[c].start})
                          <= 1 + failures + overlaps
    BY DEF BilledOncePerPeriod
  <2> DEFINE s == charge[c].start
  <2>1. s \in 0 .. MaxDay
    BY DEF MaintenanceInv, JobsInv, MaintenanceTypeOK, ChargeDoc, chargesOf
  <2>2. billing(p, s) <= 1 + failures + overlaps
    BY <2>1 DEF MaintenanceInv, BillInv
  <2>3. Cardinality(billed(p, s)) <= billing(p, s) /\ Cardinality(billed(p, s)) \in Nat
        /\ billing(p, s) \in Nat
    BY BillFinite DEF billing
  <2>4. 1 + failures + overlaps \in Nat
    BY DEF MaintenanceInv, JobsInv
  <2>5. Cardinality(billed(p, s)) <= 1 + failures + overlaps
    BY <2>2, <2>3, <2>4
  <2> QED
    BY <2>5 DEF billed
<1> QED
  BY <1>1, MaintenanceInvariance, PTL

\* Wherever a calculation is cut off, what a borrower who has not paid was charged by the day
\* is accumulated or billed.
THEOREM FeesNotLost == MaintenanceSpec => []NoFeeLost
<1>1. MaintenanceInv => NoFeeLost
  BY DEF MaintenanceInv, FeeInv, NoFeeLost, billedFees
<1> QED
  BY <1>1, MaintenanceInvariance, PTL

-----------------------------------------------------------------------------
(* The throttle *)

USE ThrottleAssumption

SentIn(ph) == {r \in Requests : ph[r] = "sent"}

\* The queue holds requests that are queued, each of them once.
QueueOK(q, ph) ==
    /\ \A i \in 1 .. Len(q) : ph[q[i]] = "queued"
    /\ \A i, j \in 1 .. Len(q) : q[i] = q[j] => i = j

\* What a pump may be run on: one pump or slot may be missing, the one it makes up for.
PumpReady(q, a, t, ph) ==
    /\ q \in Seq(Requests)
    /\ a \in 0 .. MAX_CONCURRENT
    /\ t \in Nat
    /\ ph \in [Requests -> Phases]
    /\ QueueOK(q, ph)
    /\ a = Cardinality(SentIn(ph))
    /\ a + t + 1 >= MAX_CONCURRENT \/ t + 1 >= Len(q)

\* Kept by every step: the types, the queue, and the two properties of the runs.
ThrottleInv ==
    /\ ThrottleTypeOK
    /\ QueueOK(waiting, phase)
    /\ SlotsAreHeld
    /\ NoIdleSlot

ThrottleInvButAttempt ==
    /\ active \in 0 .. MAX_CONCURRENT
    /\ gap \in 0 .. MIN_GAP
    /\ waiting \in Seq(Requests)
    /\ timers \in Nat
    /\ phase \in [Requests -> Phases]
    /\ QueueOK(waiting, phase)
    /\ SlotsAreHeld
    /\ NoIdleSlot

\* One more request in flight is one more slot.
LEMMA OneMoreSent ==
    ASSUME NEW ph \in [Requests -> Phases], NEW r \in Requests, ph[r] # "sent"
    PROVE  /\ Cardinality(SentIn([ph EXCEPT ![r] = "sent"])) = Cardinality(SentIn(ph)) + 1
           /\ Cardinality(SentIn(ph)) \in Nat
<1>1. SentIn([ph EXCEPT ![r] = "sent"]) = SentIn(ph) \cup {r}
  BY DEF SentIn
<1>2. IsFiniteSet(SentIn(ph))
  BY FS_Subset DEF SentIn
<1>3. r \notin SentIn(ph)
  BY DEF SentIn
<1>4. QED
  BY <1>1, <1>2, <1>3, FS_AddElement, FS_CardinalityType

\* One request less in flight is one slot less.
LEMMA OneLessSent ==
    ASSUME NEW ph \in [Requests -> Phases], NEW r \in Requests, ph[r] = "sent",
           NEW p \in Phases, p # "sent"
    PROVE  /\ Cardinality(SentIn([ph EXCEPT ![r] = p])) = Cardinality(SentIn(ph)) - 1
           /\ Cardinality(SentIn(ph)) \in Nat \ {0}
<1>1. SentIn([ph EXCEPT ![r] = p]) = SentIn(ph) \ {r}
  BY DEF SentIn
<1>2. IsFiniteSet(SentIn(ph))
  BY FS_Subset DEF SentIn
<1>3. r \in SentIn(ph)
  BY DEF SentIn
<1>4. /\ Cardinality(SentIn(ph) \ {r}) = Cardinality(SentIn(ph)) - 1
      /\ Cardinality(SentIn(ph)) \in Nat
  BY <1>2, <1>3, FS_RemoveElement, FS_CardinalityType
<1>5. Cardinality(SentIn(ph)) # 0
  BY <1>2, <1>3, FS_EmptySet
<1>6. QED
  BY <1>1, <1>4, <1>5

\* A phase that is neither sent before nor after leaves the slots alone.
LEMMA SameSent ==
    ASSUME NEW ph \in [Requests -> Phases], NEW r \in Requests, ph[r] # "sent",
           NEW p \in Phases, p # "sent"
    PROVE  SentIn([ph EXCEPT ![r] = p]) = SentIn(ph)
BY DEF SentIn

\* What the pump leaves behind, whichever of its three outcomes it has.
LEMMA PumpKeeps ==
    ASSUME NEW q, NEW a, NEW t, NEW ph,
           PumpReady(q, a, t, ph), gap \in 0 .. MIN_GAP,
           pump(q, a, t, ph)
    PROVE  ThrottleInvButAttempt'
<1>1. CASE Rest(q, a, t, ph)
  <2>1. SlotsAreHeld'
    BY <1>1 DEF Rest, PumpReady, SlotsAreHeld, Sent, SentIn
  <2>2. NoIdleSlot'
    BY <1>1 DEF Rest, PumpReady, NoIdleSlot
  <2>3. QED
    BY <1>1, <2>1, <2>2 DEF Rest, PumpReady, ThrottleInvButAttempt, QueueOK
<1>2. CASE Rearm(q, a, t, ph)
  <2>1. SlotsAreHeld'
    BY <1>2 DEF Rearm, PumpReady, SlotsAreHeld, Sent, SentIn
  <2>2. NoIdleSlot'
    BY <1>2 DEF Rearm, PumpReady, NoIdleSlot
  <2>3. QED
    BY <1>2, <2>1, <2>2 DEF Rearm, PumpReady, ThrottleInvButAttempt, QueueOK
<1>3. CASE Send(q, a, t, ph)
  <2> DEFINE r == Head(q)
  <2>1. /\ q # <<>> /\ Len(q) \in Nat \ {0}
        /\ r \in Requests /\ r = q[1] /\ ph[r] = "queued"
        /\ waiting' = Tail(q) /\ active' = a + 1 /\ timers' = t /\ gap' = 0
        /\ phase' = [ph EXCEPT ![r] = "sent"]
        /\ a < MAX_CONCURRENT
    BY <1>3 DEF Send, PumpReady, QueueOK
  <2>2. /\ Tail(q) \in Seq(Requests) /\ Len(Tail(q)) = Len(q) - 1
        /\ \A i \in 1 .. Len(Tail(q)) : Tail(q)[i] = q[i + 1]
    BY <2>1 DEF PumpReady
  <2>3. QueueOK(waiting, phase)'
    <3>1. \A i \in 1 .. Len(Tail(q)) : Tail(q)[i] # r /\ ph[Tail(q)[i]] = "queued"
      BY <2>1, <2>2 DEF PumpReady, QueueOK
    <3>2. \A i \in 1 .. Len(Tail(q)) : [ph EXCEPT ![r] = "sent"][Tail(q)[i]] = "queued"
      BY <3>1, <2>1, <2>2 DEF PumpReady
    <3>3. \A i, j \in 1 .. Len(Tail(q)) : Tail(q)[i] = Tail(q)[j] => i = j
      BY <2>1, <2>2 DEF PumpReady, QueueOK
    <3>4. QED
      BY <3>2, <3>3, <2>1 DEF QueueOK
  <2>4. SlotsAreHeld'
    <3>1. Cardinality(SentIn([ph EXCEPT ![r] = "sent"])) = a + 1
      BY <2>1, OneMoreSent DEF PumpReady
    <3>2. QED
      BY <3>1, <2>1 DEF SlotsAreHeld, Sent, SentIn
  <2>5. NoIdleSlot'
    BY <2>1, <2>2 DEF PumpReady, NoIdleSlot
  <2>6. phase' \in [Requests -> Phases]
    BY <2>1 DEF PumpReady, Phases
  <2>7. QED
    BY <2>1, <2>2, <2>3, <2>4, <2>5, <2>6 DEF PumpReady, ThrottleInvButAttempt
<1>4. QED
  BY <1>1, <1>2, <1>3 DEF pump

\* A request that enters the queue makes the queue longer by one, and runs a pump for it.
LEMMA AcquireKeeps ==
    ASSUME ThrottleInv, NEW r \in Requests, phase[r] \notin {"queued", "sent"}, acquire(r)
    PROVE  ThrottleInvButAttempt'
<1> DEFINE q == Append(waiting, r)
           ph == [phase EXCEPT ![r] = "queued"]
<1>1. /\ q \in Seq(Requests) /\ Len(q) = Len(waiting) + 1
      /\ \A i \in 1 .. Len(waiting) : q[i] = waiting[i]
      /\ q[Len(q)] = r
  BY DEF ThrottleInv, ThrottleTypeOK
<1>2. /\ ph \in [Requests -> Phases] /\ ph[r] = "queued"
      /\ \A s \in Requests : s # r => ph[s] = phase[s]
  BY DEF ThrottleInv, ThrottleTypeOK, Phases
<1>3. \A i \in 1 .. Len(waiting) : waiting[i] \in Requests /\ waiting[i] # r
  BY DEF ThrottleInv, ThrottleTypeOK, QueueOK
<1>4. QueueOK(q, ph)
  <2>1. \A i \in 1 .. Len(q) : ph[q[i]] = "queued"
    BY <1>1, <1>2, <1>3 DEF ThrottleInv, ThrottleTypeOK, QueueOK
  <2>2. \A i, j \in 1 .. Len(q) : q[i] = q[j] => i = j
    BY <1>1, <1>3 DEF ThrottleInv, ThrottleTypeOK, QueueOK
  <2>3. QED
    BY <2>1, <2>2 DEF QueueOK
<1>5. active = Cardinality(SentIn(ph))
  <2>1. SentIn(ph) = SentIn(phase)
    BY SameSent DEF ThrottleInv, ThrottleTypeOK, Phases
  <2>2. QED
    BY <2>1 DEF ThrottleInv, SlotsAreHeld, Sent, SentIn
<1>6. active + timers + 1 >= MAX_CONCURRENT \/ timers + 1 >= Len(q)
  BY <1>1 DEF ThrottleInv, ThrottleTypeOK, NoIdleSlot
<1>7. PumpReady(q, active, timers, ph)
  BY <1>1, <1>2, <1>4, <1>5, <1>6 DEF PumpReady, ThrottleInv, ThrottleTypeOK
<1>8. gap \in 0 .. MIN_GAP /\ pump(q, active, timers, ph)
  BY DEF ThrottleInv, ThrottleTypeOK, acquire
<1>9. QED
  BY <1>7, <1>8, PumpKeeps

\* A slot that is given back runs a pump in the place of the one that was busy.
LEMMA ReleaseKeeps ==
    ASSUME ThrottleInv, NEW r \in Requests, phase[r] = "sent",
           NEW p \in Phases \ {"queued", "sent"}, release(r, p)
    PROVE  ThrottleInvButAttempt'
<1> DEFINE ph == [phase EXCEPT ![r] = p]
<1>1. /\ ph \in [Requests -> Phases]
      /\ \A s \in Requests : s # r => ph[s] = phase[s]
  BY DEF ThrottleInv, ThrottleTypeOK
<1>2. \A i \in 1 .. Len(waiting) : waiting[i] \in Requests /\ waiting[i] # r
  BY DEF ThrottleInv, ThrottleTypeOK, QueueOK
<1>3. QueueOK(waiting, ph)
  BY <1>1, <1>2 DEF ThrottleInv, QueueOK
<1>4. active - 1 = Cardinality(SentIn(ph)) /\ active - 1 \in 0 .. MAX_CONCURRENT
  <2>1. active = Cardinality(SentIn(phase))
    BY DEF ThrottleInv, SlotsAreHeld, Sent, SentIn
  <2>2. phase \in [Requests -> Phases] /\ active \in 0 .. MAX_CONCURRENT
    BY DEF ThrottleInv, ThrottleTypeOK
  <2>3. /\ Cardinality(SentIn(ph)) = Cardinality(SentIn(phase)) - 1
        /\ Cardinality(SentIn(phase)) \in Nat \ {0}
    BY <2>2, OneLessSent
  <2>4. QED
    BY <2>1, <2>2, <2>3
<1>5. PumpReady(waiting, active - 1, timers, ph)
  BY <1>1, <1>3, <1>4 DEF PumpReady, ThrottleInv, ThrottleTypeOK, NoIdleSlot
<1>6. gap \in 0 .. MIN_GAP /\ pump(waiting, active - 1, timers, ph)
  BY DEF ThrottleInv, ThrottleTypeOK, release
<1>7. QED
  BY <1>5, <1>6, PumpKeeps

\* The invariant of the throttle, on which its theorems rest.
THEOREM ThrottleInvariance == ThrottleSpec => []ThrottleInv
<1>1. ThrottleInit => ThrottleInv
  <2> SUFFICES ASSUME ThrottleInit PROVE ThrottleInv
    OBVIOUS
  <2>1. ThrottleTypeOK /\ QueueOK(waiting, phase) /\ NoIdleSlot
    BY DEF ThrottleInit, ThrottleTypeOK, Phases, QueueOK, NoIdleSlot
  <2>2. Sent = {}
    BY DEF ThrottleInit, Sent
  <2>3. SlotsAreHeld
    BY <2>2, FS_EmptySet DEF ThrottleInit, SlotsAreHeld
  <2>4. QED
    BY <2>1, <2>3 DEF ThrottleInv
<1>2. ThrottleInv /\ [ThrottleNext]_throttleVars => ThrottleInv'
  <2> SUFFICES ASSUME ThrottleInv, [ThrottleNext]_throttleVars PROVE ThrottleInv'
    OBVIOUS
  <2>0. attempt \in [Requests -> 0 .. MAX_RETRIES]
    BY DEF ThrottleInv, ThrottleTypeOK
  <2>1. ASSUME NEW r \in Requests, Request(r) PROVE ThrottleInv'
    <3>1. ThrottleInvButAttempt'
      BY <2>1, AcquireKeeps DEF Request
    <3>2. QED
      BY <2>0, <2>1, <3>1 DEF Request, ThrottleInv, ThrottleInvButAttempt, ThrottleTypeOK
  <2>2. ASSUME NEW r \in Requests, Retry(r) PROVE ThrottleInv'
    <3>1. ThrottleInvButAttempt'
      BY <2>2, AcquireKeeps DEF Retry
    <3>2. QED
      BY <2>0, <2>2, <3>1 DEF Retry, ThrottleInv, ThrottleInvButAttempt, ThrottleTypeOK
  <2>3. ASSUME NEW r \in Requests, Answer(r) PROVE ThrottleInv'
    <3>1. ThrottleInvButAttempt'
      BY <2>3, ReleaseKeeps DEF Answer, Phases
    <3>2. QED
      BY <2>0, <2>3, <3>1 DEF Answer, ThrottleInv, ThrottleInvButAttempt, ThrottleTypeOK
  <2>4. ASSUME NEW r \in Requests, Revert(r) PROVE ThrottleInv'
    <3>1. ThrottleInvButAttempt'
      BY <2>4, ReleaseKeeps DEF Revert, Phases
    <3>2. QED
      BY <2>0, <2>4, <3>1 DEF Revert, ThrottleInv, ThrottleInvButAttempt, ThrottleTypeOK
  <2>5. ASSUME NEW r \in Requests, Refuse(r) PROVE ThrottleInv'
    <3>1. ThrottleInvButAttempt'
      BY <2>5, ReleaseKeeps DEF Refuse, Phases
    <3>2. attempt' \in [Requests -> 0 .. MAX_RETRIES]
      BY <2>0, <2>5 DEF Refuse
    <3>3. QED
      BY <3>1, <3>2 DEF ThrottleInv, ThrottleInvButAttempt, ThrottleTypeOK
  <2>6. CASE FireTimer
    <3>1. PumpReady(waiting, active, timers - 1, phase) /\ gap \in 0 .. MIN_GAP
      BY <2>6 DEF FireTimer, PumpReady, ThrottleInv, ThrottleTypeOK, NoIdleSlot,
                  SlotsAreHeld, Sent, SentIn
    <3>2. ThrottleInvButAttempt'
      BY <2>6, <3>1, PumpKeeps DEF FireTimer
    <3>3. QED
      BY <2>0, <2>6, <3>2 DEF FireTimer, ThrottleInv, ThrottleInvButAttempt, ThrottleTypeOK
  <2>7. CASE GapTick
    BY <2>7 DEF GapTick, ThrottleInv, ThrottleTypeOK, QueueOK, SlotsAreHeld, Sent, NoIdleSlot
  <2>8. CASE UNCHANGED throttleVars
    BY <2>8 DEF throttleVars, ThrottleInv, ThrottleTypeOK, QueueOK, SlotsAreHeld, Sent,
                NoIdleSlot
  <2>9. QED
    BY <2>1, <2>2, <2>3, <2>4, <2>5, <2>6, <2>7, <2>8 DEF ThrottleNext, Reply
<1>3. QED
  BY <1>1, <1>2, PTL DEF ThrottleSpec

\* No slot is given out beyond the limit or given back twice, and no request is tried more
\* often than the limit of retries.
THEOREM ThrottleTypeCorrect == ThrottleSpec => []ThrottleTypeOK
BY ThrottleInvariance, PTL DEF ThrottleInv

\* However requests are refused, retried and reverted, the slots taken are the requests the
\* endpoint has not answered yet.
THEOREM SlotPerRequest == ThrottleSpec => []SlotsAreHeld
BY ThrottleInvariance, PTL DEF ThrottleInv

\* No slot is idle while a request waits and no pump is on its way.
THEOREM NoSlotForgotten == ThrottleSpec => []NoIdleSlot
BY ThrottleInvariance, PTL DEF ThrottleInv

-----------------------------------------------------------------------------
(* Onboarding: what has been signed off wherever something is possible *)

AfterKam       == {"forwardToCad"}
AfterTermShare == AfterKam \cup {"shareTermSheet"}
AfterTerms     == AfterTermShare \cup {"acceptTermSheet"}
AfterTechShare == AfterTerms \cup {"shareTechAgreement"}
AfterTech      == AfterTechShare \cup {"acceptTechAgreement"}
AfterCro       == AfterTech \cup {"croApproveToLegal"}
AfterLegal     == AfterCro \cup {"shareFacility"}
AfterCad       == AfterLegal \cup {"approveFacility"}
AfterFacility  == AfterCad \cup {"acceptFacility"}
AfterDraft     == AfterFacility \cup {"forwardToCro"}

\* An application is at the step.
atStep(s) ==
    CASE s = "TERM_SHEET_STAGE"       -> AfterKam
      [] s = "TECH_INTEGRATION_STAGE" -> AfterTerms
      [] s = "CRO_REVIEW"             -> AfterTech
      [] s = "LEGAL_REVIEW"           -> AfterCro
      [] s = "CAD_FACILITY_REVIEW"    -> AfterLegal
      [] s = "PSP_FACILITY_APPROVAL"  -> AfterCad
      [] s = "CAD_FINAL_APPROVAL"     -> AfterFacility
      [] s = "CRO_FINAL_CONFIRMATION" -> AfterDraft
      [] s = "AWAITING_POOL_INIT"     -> SignOffs
      [] OTHER                        -> {}

\* A page has had a button for the request.
onPage(r) ==
    CASE r = "shareTermSheet"                                   -> AfterKam
      [] r \in {"acceptTermSheet", "negotiateTermSheet"}         -> AfterTermShare
      [] r = "shareTechAgreement"                               -> AfterTerms
      [] r \in {"acceptTechAgreement", "negotiateTechAgreement"} -> AfterTechShare
      [] r = "croApproveToLegal"                                -> AfterTech
      [] r = "shareFacility"                                    -> AfterCro
      [] r \in {"approveCadToKam", "negotiateToLegal", "acceptFacility", "negotiateFacility"} ->
             AfterLegal
      [] r = "forwardToCro"                                     -> AfterFacility
      [] r = "approve"                                          -> AfterDraft
      [] OTHER                                                  -> {}

\* A handler has accepted the request.
inHandler(r) ==
    CASE r = "approveFacility" -> AfterLegal
      [] r = "acceptFacility"  -> AfterCad
      [] OTHER                 -> onPage(r)

\* The approval of the KAM is of a step that is never stored.
offeredSound(o, t) ==
    /\ o \subseteq ProfileRequests \ {"kamApproveToPsp"}
    /\ \A r \in o : onPage(r) \subseteq t

profileSound(p, t) ==
    /\ p \in Profile
    /\ atStep(p.step) \subseteq t
    /\ p.status = "Approved" => SignOffs \subseteq t
    /\ p.termSheet = "Shared" => AfterTermShare \subseteq t
    /\ p.techAgreement = "Shared" => AfterTechShare \subseteq t
    /\ p.facility = "Shared" => AfterLegal \subseteq t

callSound(h, c, t) ==
    /\ c.request \in from(h) \ {"kamApproveToPsp"}
    /\ isWrite(c.request, c.write)
    /\ inHandler(c.request) \subseteq t

\* What pages, handlers and the stored profile can each rely on.
StageInv ==
    /\ profileSound(profile, trail)
    /\ offeredSound(offered, trail)
    /\ saving = [h \in Actors |-> saving[h]]
    /\ \A h \in Actors : saving[h] # NoRequest => callSound(h, saving[h], trail)
    /\ trail \subseteq SignOffs

-----------------------------------------------------------------------------
(* Onboarding: the requests, one by one *)

\* The sign-offs that are stored once the request has been.
signed(r) == inHandler(r) \cup ({r} \cap SignOffs)

\* What a request may write, and that whatever it makes possible comes after its sign-off.
writeSound(r, doc) ==
    /\ replaced(r) \subseteq DOMAIN doc
    /\ DOMAIN doc \subseteq {"step", "status", "termSheet", "techAgreement", "facility", "draft"}
    /\ "step" \in DOMAIN doc => atStep(doc["step"]) \subseteq signed(r)
    /\ "status" \in DOMAIN doc =>
           /\ doc["status"] \in CreditLineStatuses
           /\ doc["status"] = "Approved" => SignOffs \subseteq signed(r)
    /\ "termSheet" \in DOMAIN doc =>
           /\ doc["termSheet"] \in AgreementStatuses
           /\ doc["termSheet"] = "Shared" => AfterTermShare \subseteq signed(r)
    /\ "techAgreement" \in DOMAIN doc =>
           /\ doc["techAgreement"] \in AgreementStatuses
           /\ doc["techAgreement"] = "Shared" => AfterTechShare \subseteq signed(r)
    /\ "facility" \in DOMAIN doc =>
           /\ doc["facility"] \in AgreementStatuses
           /\ doc["facility"] = "Shared" => AfterLegal \subseteq signed(r)
    /\ "draft" \in DOMAIN doc => doc["draft"] \in BOOLEAN

\* What each request assigns, may replace, and finds signed off.
LEMMA Sharing ==
    /\ assigned("shareTermSheet") = [termSheet |-> "Shared"]
    /\ assigned("shareTechAgreement") = [techAgreement |-> "Shared"]
    /\ assigned("shareFacility") = [facility |-> "Shared", step |-> "CAD_FACILITY_REVIEW"]
  BY DEF assigned, BorrowerRequests, shareAgreement

LEMMA Moving ==
    /\ assigned("croApproveToLegal") = [step |-> "LEGAL_REVIEW"]
    /\ assigned("negotiateToLegal") = [facility |-> "Negotiating", step |-> "LEGAL_REVIEW"]
    /\ assigned("approveCadToKam") = [step |-> "KAM_FACILITY_REVIEW"]
  BY DEF assigned, BorrowerRequests, moveStep

LEMMA Agreeing ==
    /\ assigned("acceptTermSheet") =
           [termSheet |-> "Accepted", step |-> "TECH_INTEGRATION_STAGE"]
    /\ assigned("negotiateTermSheet") = [termSheet |-> "Negotiating"]
    /\ assigned("acceptTechAgreement") = [techAgreement |-> "Accepted", step |-> "CRO_REVIEW"]
    /\ assigned("negotiateTechAgreement") = [techAgreement |-> "Negotiating"]
    /\ assigned("acceptFacility") = [facility |-> "Accepted", step |-> "CAD_FINAL_APPROVAL"]
    /\ assigned("negotiateFacility") = [facility |-> "Negotiating", step |-> "LEGAL_REVIEW"]
  BY DEF assigned, BorrowerRequests, clAction

LEMMA Deciding ==
    /\ assigned("saveProfile") = saveProfile
    /\ assigned("applyLimit") = applyLimit
    /\ assigned("forwardToCad") = forwardToCad
    /\ assigned("forwardToCro") = forwardToCro
    /\ assigned("requestInfo") = requestInfo
    /\ assigned("approve") = approve
    /\ assigned("approveFacility") = [step |-> "PSP_FACILITY_APPROVAL"]
    /\ assigned("reject") = reject
  BY DEF assigned, BorrowerRequests

LEMMA SharingSound ==
    ASSUME NEW r \in {"shareTermSheet", "shareTechAgreement", "shareFacility"}
    PROVE  writeSound(r, assigned(r))
<1> USE Sharing DEF signed, inHandler, onPage, SignOffs, replaced, writeSound, AgreementStatuses
<1>1. CASE r = "shareTermSheet"  BY <1>1 DEF AfterTermShare
<1>2. CASE r = "shareTechAgreement"  BY <1>2 DEF AfterTechShare
<1>3. CASE r = "shareFacility"  BY <1>3 DEF AfterLegal, atStep
<1> QED  BY <1>1, <1>2, <1>3

LEMMA MovingSound ==
    ASSUME NEW r \in {"croApproveToLegal", "negotiateToLegal", "approveCadToKam"}
    PROVE  writeSound(r, assigned(r))
<1> USE Moving DEF signed, inHandler, onPage, SignOffs, replaced, writeSound, AgreementStatuses
<1>1. CASE r = "croApproveToLegal"  BY <1>1 DEF AfterCro, atStep
<1>2. CASE r = "negotiateToLegal"  BY <1>2 DEF AfterLegal, atStep
<1>3. CASE r = "approveCadToKam"  BY <1>3 DEF atStep
<1> QED  BY <1>1, <1>2, <1>3

LEMMA AgreeingSound ==
    ASSUME NEW r \in {"acceptTermSheet", "negotiateTermSheet", "acceptTechAgreement",
                      "negotiateTechAgreement", "acceptFacility", "negotiateFacility"}
    PROVE  writeSound(r, assigned(r))
<1> USE Agreeing DEF signed, inHandler, onPage, SignOffs, replaced, writeSound, AgreementStatuses
<1>1. CASE r = "acceptTermSheet"  BY <1>1 DEF AfterTerms, atStep
<1>2. CASE r = "negotiateTermSheet"  BY <1>2
<1>3. CASE r = "acceptTechAgreement"  BY <1>3 DEF AfterTech, atStep
<1>4. CASE r = "negotiateTechAgreement"  BY <1>4
<1>5. CASE r = "acceptFacility"  BY <1>5 DEF AfterFacility, atStep
<1>6. CASE r = "negotiateFacility"  BY <1>6 DEF AfterLegal, atStep
<1> QED  BY <1>1, <1>2, <1>3, <1>4, <1>5, <1>6

LEMMA DecidingSound ==
    ASSUME NEW r \in {"saveProfile", "applyLimit", "forwardToCad", "forwardToCro", "requestInfo",
                      "approve", "approveFacility", "reject"}
    PROVE  writeSound(r, assigned(r))
<1> USE Deciding
    DEF signed, inHandler, onPage, SignOffs, replaced, writeSound, CreditLineStatuses
<1>1. CASE r = "saveProfile"  BY <1>1 DEF saveProfile
<1>2. CASE r = "applyLimit"  BY <1>2 DEF applyLimit, atStep
<1>3. CASE r = "forwardToCad"  BY <1>3 DEF forwardToCad, AfterKam, atStep
<1>4. CASE r = "forwardToCro"
  <2>1. forwardToCro["draft"] \in BOOLEAN  BY DEF forwardToCro
  <2>2. /\ DOMAIN forwardToCro = {"draft", "step"}
        /\ forwardToCro["step"] = "CRO_FINAL_CONFIRMATION"
    BY DEF forwardToCro
  <2> QED  BY <1>4, <2>1, <2>2 DEF AfterDraft, atStep
<1>5. CASE r = "requestInfo"  BY <1>5 DEF requestInfo
<1>6. CASE r = "approve"
  <2>1. AfterDraft \cup {"approve"} = SignOffs
    BY DEF AfterKam, AfterTermShare, AfterTerms, AfterTechShare, AfterTech, AfterCro, AfterLegal,
           AfterCad, AfterFacility, AfterDraft
  <2> QED  BY <1>6, <2>1 DEF approve, atStep
<1>7. CASE r = "approveFacility"  BY <1>7 DEF AfterCad, atStep
<1>8. CASE r = "reject"  BY <1>8 DEF reject, atStep
<1> QED  BY <1>1, <1>2, <1>3, <1>4, <1>5, <1>6, <1>7, <1>8

LEMMA WritesSound ==
    ASSUME NEW r \in ProfileRequests \ {"kamApproveToPsp"}
    PROVE  writeSound(r, assigned(r))
  BY SharingSound, MovingSound, AgreeingSound, DecidingSound
  DEF ProfileRequests, BorrowerRequests, StaffRequests, DirectRequests

-----------------------------------------------------------------------------
(* Onboarding: pages *)

\* A page has buttons for what may follow the profile as it is.
LEMMA ButtonsSound ==
    ASSUME NEW p, NEW t, profileSound(p, t)
    PROVE  offeredSound(buttons(p), t)
<1>1. ASSUME NEW r \in borrowerButtons(p)
      PROVE  r \in ProfileRequests \ {"kamApproveToPsp"} /\ onPage(r) \subseteq t
  BY <1>1 DEF borrowerButtons, noteRequest, BorrowerRequests, ProfileRequests, onPage, profileSound
<1>2. ASSUME NEW r \in staffButtons(p)
      PROVE  r \in ProfileRequests \ {"kamApproveToPsp"} /\ onPage(r) \subseteq t
  <2> USE DEF staffButtons, StaffRequests, ProfileRequests, onPage, profileSound, Profile, atStep
  <2>1. CASE p.step = "KAM_REVIEW"  BY <1>2, <2>1
  <2>2. CASE p.step = "TERM_SHEET_STAGE"  BY <1>2, <2>2
  <2>3. CASE p.step = "TECH_INTEGRATION_STAGE"  BY <1>2, <2>3
  <2>4. CASE p.step = "CRO_REVIEW"  BY <1>2, <2>4
  <2>5. CASE p.step = "LEGAL_REVIEW"  BY <1>2, <2>5
  <2>6. CASE p.step = "CAD_FACILITY_REVIEW"  BY <1>2, <2>6
  <2>7. CASE p.step = "CAD_FINAL_APPROVAL"  BY <1>2, <2>7
  <2>8. CASE p.step = "CRO_FINAL_CONFIRMATION"  BY <1>2, <2>8
  <2>9. CASE p.step \in {"CAD_REVIEW", "PSP_FACILITY_APPROVAL", "AWAITING_POOL_INIT", "FINALIZED"}
    BY <1>2, <2>9
  <2> QED  BY <2>1, <2>2, <2>3, <2>4, <2>5, <2>6, <2>7, <2>8, <2>9 DEF Steps
<1> QED  BY <1>1, <1>2 DEF offeredSound, buttons

-----------------------------------------------------------------------------
(* Onboarding: handlers *)

\* What a handler has taken on, it may rely on until it saves.
LEMMA AcceptedSound ==
    ASSUME StageInv, NEW h \in Actors, NEW r \in from(h), r \in offered \/ r \in DirectRequests,
           accepts(r, profile)
    PROVE  LET request == meant(r, profile)
           IN  callSound(h, [request |-> request, write |-> modified(request, profile)], trail)
<1> DEFINE request == meant(r, profile)
           write == modified(request, profile)
<1>1. request \in from(h) \ {"kamApproveToPsp"}
  BY DEF StageInv, offeredSound, meant, from, StaffRequests, DirectRequests, BorrowerRequests
<1>2. inHandler(request) \subseteq trail
  <2>1. CASE r = "approve" /\ profile.step = "CRO_REVIEW"
    BY <2>1 DEF StageInv, profileSound, meant, inHandler, onPage, atStep
  <2>2. CASE r = "approveFacility"
    BY <2>2 DEF StageInv, profileSound, meant, inHandler, accepts, atStep
  <2>3. CASE r = "acceptFacility"
    BY <2>3 DEF StageInv, profileSound, meant, inHandler, accepts, atStep
  <2>4. CASE r = "reject"
    BY <2>4 DEF meant, inHandler, onPage
  <2>5. CASE r \notin DirectRequests \cup {"acceptFacility"}
             /\ ~(r = "approve" /\ profile.step = "CRO_REVIEW")
    BY <2>5 DEF StageInv, offeredSound, meant, inHandler, DirectRequests
  <2> QED  BY <2>1, <2>2, <2>3, <2>4, <2>5 DEF DirectRequests
<1>3. isWrite(request, write)
  <2>1. request \in ProfileRequests \ {"kamApproveToPsp"}
    BY <1>1 DEF from, ProfileRequests, StaffRequests, DirectRequests, BorrowerRequests
  <2>2. replaced(request) \subseteq DOMAIN assigned(request)
    BY <2>1, WritesSound DEF writeSound
  <2> QED  BY <2>2 DEF isWrite, modified
<1> QED  BY <1>1, <1>2, <1>3 DEF callSound

\* What it saves is sound with its sign-off, whatever is stored by then.
LEMMA StoredSound ==
    ASSUME NEW p, NEW t, profileSound(p, t), NEW r \in ProfileRequests \ {"kamApproveToPsp"},
           inHandler(r) \subseteq t, NEW write, isWrite(r, write), valid(write)
    PROVE  profileSound(merged(p, write), t \cup ({r} \cap SignOffs))
<1> DEFINE q == merged(p, write)
           u == t \cup ({r} \cap SignOffs)
<1>1. signed(r) \subseteq u  BY DEF signed
<1>2. writeSound(r, assigned(r))  BY WritesSound
<1>3. DOMAIN p = {"step", "status", "termSheet", "techAgreement", "facility", "draft"}
  BY DEF profileSound, Profile
<1>4. q.step = IF "step" \in DOMAIN write THEN assigned(r)["step"] ELSE p.step
  BY <1>3 DEF merged, isWrite
<1>5. q.status = IF "status" \in DOMAIN write THEN assigned(r)["status"] ELSE p.status
  BY <1>3 DEF merged, isWrite
<1>6. q.termSheet = IF "termSheet" \in DOMAIN write THEN assigned(r)["termSheet"] ELSE p.termSheet
  BY <1>3 DEF merged, isWrite
<1>7. q.techAgreement =
          IF "techAgreement" \in DOMAIN write THEN assigned(r)["techAgreement"] ELSE p.techAgreement
  BY <1>3 DEF merged, isWrite
<1>8. q.facility = IF "facility" \in DOMAIN write THEN assigned(r)["facility"] ELSE p.facility
  BY <1>3 DEF merged, isWrite
<1>9. q.draft = IF "draft" \in DOMAIN write THEN assigned(r)["draft"] ELSE p.draft
  BY <1>3 DEF merged, isWrite
<1> USE DEF writeSound, profileSound, isWrite
<1>10. q.step \in Steps /\ atStep(q.step) \subseteq u
  <2>1. p.step \in Steps  BY DEF Profile
  <2>2. "step" \in DOMAIN write => assigned(r)["step"] \in Steps  BY DEF valid
  <2> QED  BY <1>1, <1>2, <1>4, <2>1, <2>2
<1>11. q.status \in CreditLineStatuses /\ (q.status = "Approved" => SignOffs \subseteq u)
  <2>1. p.status \in CreditLineStatuses  BY DEF Profile
  <2> QED  BY <1>1, <1>2, <1>5, <2>1
<1>12. q.termSheet \in AgreementStatuses /\ (q.termSheet = "Shared" => AfterTermShare \subseteq u)
  <2>1. p.termSheet \in AgreementStatuses  BY DEF Profile
  <2> QED  BY <1>1, <1>2, <1>6, <2>1
<1>13. /\ q.techAgreement \in AgreementStatuses
       /\ q.techAgreement = "Shared" => AfterTechShare \subseteq u
  <2>1. p.techAgreement \in AgreementStatuses  BY DEF Profile
  <2> QED  BY <1>1, <1>2, <1>7, <2>1
<1>14. q.facility \in AgreementStatuses /\ (q.facility = "Shared" => AfterLegal \subseteq u)
  <2>1. p.facility \in AgreementStatuses  BY DEF Profile
  <2> QED  BY <1>1, <1>2, <1>8, <2>1
<1>15. q.draft \in BOOLEAN
  <2>1. p.draft \in BOOLEAN  BY DEF Profile
  <2> QED  BY <1>2, <1>9, <2>1
<1>16. q \in Profile
  <2>1. q = [f \in DOMAIN p |-> q[f]]  BY DEF merged
  <2> QED  BY <1>3, <1>10, <1>11, <1>12, <1>13, <1>14, <1>15, <2>1 DEF Profile
<1> QED  BY <1>10, <1>11, <1>12, <1>13, <1>14, <1>16

-----------------------------------------------------------------------------
(* Onboarding: the invariant and its theorems *)

\* Sign-offs are only added, so what was sound stays so.
LEMMA SoundGrows ==
    ASSUME NEW t, NEW u, t \subseteq u
    PROVE  /\ \A o : offeredSound(o, t) => offeredSound(o, u)
           /\ \A h, c : callSound(h, c, t) => callSound(h, c, u)
  BY DEF offeredSound, callSound

LEMMA InitStageInv == OnboardingInit => StageInv
<1> SUFFICES ASSUME OnboardingInit PROVE StageInv
  OBVIOUS
<1>1. profileSound(Admitted, {})
  BY DEF profileSound, Admitted, Profile, Steps, CreditLineStatuses, AgreementStatuses, atStep
<1>2. offeredSound(buttons(Admitted), {})  BY <1>1, ButtonsSound
<1> QED  BY <1>1, <1>2 DEF OnboardingInit, StageInv

LEMMA NextStageInv == StageInv /\ [OnboardingNext]_onboardingVars => StageInv'
<1> SUFFICES ASSUME StageInv, [OnboardingNext]_onboardingVars PROVE StageInv'
  OBVIOUS
<1>1. ASSUME NEW h \in Actors, NEW r \in ProfileRequests, Receive(h, r)
      PROVE  StageInv'
  <2>1. callSound(h, saving'[h], trail)
    <3>1. r \in from(h) /\ (r \in offered \/ r \in DirectRequests) /\ accepts(r, profile)
      BY <1>1 DEF Receive
    <3>2. saving'[h] = [request |-> meant(r, profile),
                       write |-> modified(meant(r, profile), profile)]
      BY <1>1 DEF Receive, StageInv
    <3> QED  BY <3>1, <3>2, AcceptedSound
  <2>2. /\ saving' = [k \in Actors |-> saving'[k]]
        /\ \A k \in Actors \ {h} : saving'[k] = saving[k]
    BY <1>1 DEF Receive, StageInv
  <2>3. UNCHANGED <<profile, offered, trail>>  BY <1>1 DEF Receive
  <2> QED  BY <2>1, <2>2, <2>3 DEF StageInv
<1>2. ASSUME NEW h \in Actors, Save(h)
      PROVE  StageInv'
  <2> DEFINE r == saving[h].request
  <2>1. callSound(h, saving[h], trail) /\ valid(saving[h].write)  BY <1>2 DEF Save, StageInv
  <2>2. r \in ProfileRequests \ {"kamApproveToPsp"}
    BY <2>1 DEF callSound, from, ProfileRequests
  <2>3. profileSound(profile', trail')
    BY <1>2, <2>1, <2>2, StoredSound DEF Save, StageInv, callSound
  <2>4. trail \subseteq trail' /\ trail' \subseteq SignOffs  BY <1>2 DEF Save, StageInv
  <2>5. offeredSound(offered', trail')
    <3>1. offeredSound(buttons(profile'), trail')  BY <2>3, ButtonsSound
    <3>2. offeredSound(offered, trail')  BY <2>4, SoundGrows DEF StageInv
    <3> QED  BY <1>2, <3>1, <3>2 DEF Save, offeredSound
  <2>6. /\ saving' = [k \in Actors |-> saving'[k]]
        /\ saving'[h] = NoRequest
        /\ \A k \in Actors \ {h} : saving'[k] = saving[k]
    BY <1>2 DEF Save, StageInv
  <2>7. \A k \in Actors : saving'[k] # NoRequest => callSound(k, saving'[k], trail')
    BY <2>4, <2>6, SoundGrows DEF StageInv
  <2> QED  BY <2>3, <2>4, <2>5, <2>6, <2>7 DEF StageInv
<1>3. ASSUME NEW h \in Actors, SaveFails(h)
      PROVE  StageInv'
  <2>1. /\ saving' = [k \in Actors |-> saving'[k]]
        /\ saving'[h] = NoRequest
        /\ \A k \in Actors \ {h} : saving'[k] = saving[k]
    BY <1>3 DEF SaveFails, StageInv
  <2>2. UNCHANGED <<profile, offered, trail>>  BY <1>3 DEF SaveFails
  <2> QED  BY <2>1, <2>2 DEF StageInv
<1>4. CASE UNCHANGED onboardingVars
  BY <1>4 DEF onboardingVars, StageInv
<1> QED  BY <1>1, <1>2, <1>3, <1>4 DEF OnboardingNext

\* The stored profile, every open page and every handler in progress can rely on the sign-offs
\* that come before what they show, offer or write.
THEOREM StageInvariance == OnboardingSpec => []StageInv
  BY InitStageInv, NextStageInv, PTL DEF OnboardingSpec

\* What is stored keeps within the schema of PSPProfile, and a handler is known by its write.
THEOREM OnboardingTypeCorrect == OnboardingSpec => []OnboardingTypeOK
<1>1. StageInv => OnboardingTypeOK
  BY DEF StageInv, OnboardingTypeOK, profileSound, offeredSound, callSound
<1> QED  BY <1>1, StageInvariance, PTL

\* However many of the staff and of the borrower's tabs there are, and however old, no
\* application is approved without every sign-off.
THEOREM EveryStageSigned == OnboardingSpec => []NoStageSkipped
<1>1. StageInv => NoStageSkipped
  BY DEF StageInv, NoStageSkipped, profileSound, atStep
<1> QED  BY <1>1, StageInvariance, PTL
=============================================================================
