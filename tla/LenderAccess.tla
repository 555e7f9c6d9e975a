--------------------------- MODULE LenderAccess ---------------------------
(***************************************************************************)
(* How lenders are let in.  An administrator mints one-time access codes   *)
(* (server/routes/accessCode.js); a code is redeemed with a wallet, which  *)
(* proves itself by signing a nonce (server/services/walletAuthEvm.js), or *)
(* by signing up with an e-mail (server/routes/legacyAuth.js); a lender    *)
(* that is known signs in with its wallet (server/routes/walletAuth.js).   *)
(*                                                                         *)
(* Every await of a handler is a point where others run, so a handler is a *)
(* record in calls.  Time is what has expired by now.                      *)
(***************************************************************************)
EXTENDS Integers, Sequences, FiniteSets

CONSTANTS
    Codes,
    Wallets,           \* of prospective lenders
    Emails,
    Nonces,
    Handlers,          \* as many requests are in progress
    MaxRestarts

ASSUME AccessAssumption == MaxRestarts \in Nat

VARIABLES
    code,              \* [Codes -> CodeDoc]
    nonce,             \* [Nonces -> NonceDoc]
    lenders,           \* the Lender documents: a wallet or an e-mail, which are unique
    calls,             \* [Handlers -> Call]
    restarts,
    admitted,          \* the lenders with the code that let them in
    accepted           \* [Nonces -> how many requests were taken as signed with it]

vars == <<code, nonce, lenders, calls, restarts, admitted, accepted>>

Lenders == Wallets \cup Emails

Nobody == "nobody"

\* usedBy is the wallet or the e-mail the claim was stored with, lender is usedByLenderId.
CodeDoc ==
    [state : {"none", "minted", "used", "deleted"}, expired : BOOLEAN,
     usedBy : Lenders \cup {Nobody}, lender : Lenders \cup {Nobody}]

NoCode == [state |-> "none", expired |-> FALSE, usedBy |-> Nobody, lender |-> Nobody]

NonceDoc ==
    [state : {"none", "issued", "consumed"}, expired : BOOLEAN, wallet : Wallets \cup {Nobody}]

NoNonce == [state |-> "none", expired |-> FALSE, wallet |-> Nobody]

\* What a redemption goes through, in this order: the signature, the code, the account that
\* the wallet may have, the account it has then, and the account on the code.
\* Mutant: the code is claimed before the signature is looked at.
redeemStepsClaimFirst == <<"claim", "verify", "find", "lender", "attach">>

redeemSteps == <<"verify", "claim", "find", "lender", "attach">>

NoCall == [op |-> "none"]

Call ==
    [op : {"redeem"}, code : Codes, wallet : Wallets, nonce : Nonces, genuine : BOOLEAN,
     step : DOMAIN redeemSteps, known : BOOLEAN]
        \cup [op : {"claim", "create"}, code : Codes, email : Emails]
        \cup [op : {"delete"}, code : Codes]
        \cup [op : {"login"}, wallet : Wallets, nonce : Nonces, genuine : BOOLEAN]
        \cup {NoCall}

Init ==
    /\ code = [c \in Codes |-> NoCode]
    /\ nonce = [n \in Nonces |-> NoNonce]
    /\ lenders = {}
    /\ calls = [h \in Handlers |-> NoCall]
    /\ restarts = 0
    /\ admitted = {}
    /\ accepted = [n \in Nonces |-> 0]

begin(h, call) ==
    /\ calls[h] = NoCall
    /\ calls' = [calls EXCEPT ![h] = call]

continue(h, call) == calls' = [calls EXCEPT ![h] = call]

finish(h) == continue(h, NoCall)

-----------------------------------------------------------------------------
(* Codes of the administrator *)

\* POST /access-code/create
CreateCode(c) ==
    /\ code[c].state = "none"
    /\ code' = [code EXCEPT ![c].state = "minted"]
    /\ UNCHANGED <<nonce, lenders, calls, restarts, admitted, accepted>>

CodeExpires(c) ==
    /\ code[c].state = "minted" /\ ~code[c].expired
    /\ code' = [code EXCEPT ![c].expired = TRUE]
    /\ UNCHANGED <<nonce, lenders, calls, restarts, admitted, accepted>>

\* DELETE /access-code/:code refuses a code that was redeemed when it was read.
DeleteRead(h, c) ==
    /\ code[c].state = "minted"
    /\ begin(h, [op |-> "delete", code |-> c])
    /\ UNCHANGED <<code, nonce, lenders, restarts, admitted, accepted>>

Delete(h) ==
    /\ calls[h].op = "delete"
    /\ code' = [code EXCEPT ![calls[h].code].state = "deleted"]
    /\ finish(h)
    /\ UNCHANGED <<nonce, lenders, restarts, admitted, accepted>>

-----------------------------------------------------------------------------
(* Nonces and signatures *)

\* POST /auth/wallet/nonce: issueNonce.  A wallet may have several.
IssueNonce(n, w) ==
    /\ nonce[n].state = "none"
    /\ nonce' = [nonce EXCEPT ![n] = [NoNonce EXCEPT !.state = "issued", !.wallet = w]]
    /\ UNCHANGED <<code, lenders, calls, restarts, admitted, accepted>>

NonceExpires(n) ==
    /\ nonce[n].state = "issued" /\ ~nonce[n].expired
    /\ nonce' = [nonce EXCEPT ![n].expired = TRUE]
    /\ UNCHANGED <<code, lenders, calls, restarts, admitted, accepted>>

\* Mutant: a nonce that was consumed is found again.
claimableNonceAgain(n, w) ==
    nonce[n].wallet = w /\ nonce[n].state \in {"issued", "consumed"} /\ ~nonce[n].expired

claimableNonce(n, w) == nonce[n].wallet = w /\ nonce[n].state = "issued" /\ ~nonce[n].expired

\* verifySignature claims the nonce first, so one that is claimed for a bad signature is gone.
verifySignature(c) ==
    IF claimableNonce(c.nonce, c.wallet)
    THEN /\ nonce' = [nonce EXCEPT ![c.nonce].state = "consumed"]
         /\ accepted' = IF c.genuine THEN [accepted EXCEPT ![c.nonce] = @ + 1] ELSE accepted
    ELSE UNCHANGED <<nonce, accepted>>

verified(c) == c.genuine /\ claimableNonce(c.nonce, c.wallet)

-----------------------------------------------------------------------------
(* POST /access-code/redeem *)

\* A submission may be sent again, with the same code and nonce.
RedeemStart(h, c, w, n, genuine) ==
    /\ begin(h, [op |-> "redeem", code |-> c, wallet |-> w, nonce |-> n, genuine |-> genuine,
                 step |-> 1, known |-> FALSE])
    /\ UNCHANGED <<code, nonce, lenders, restarts, admitted, accepted>>

redeeming(h, step) == calls[h].op = "redeem" /\ redeemSteps[calls[h].step] = step

onward(h, call) ==
    IF call.step = Len(redeemSteps) THEN finish(h)
    ELSE continue(h, [call EXCEPT !.step = @ + 1])

RedeemVerify(h) ==
    /\ redeeming(h, "verify")
    /\ verifySignature(calls[h])
    /\ IF verified(calls[h]) THEN onward(h, calls[h]) ELSE finish(h)
    /\ UNCHANGED <<code, lenders, restarts, admitted>>

\* Mutant: whether the code is used is not part of the update.
claimableCodeAgain(c) == code[c].state \in {"minted", "used"} /\ ~code[c].expired

claimableCode(c) == code[c].state = "minted" /\ ~code[c].expired

\* Mutant: the claim does not say whose it is.
claimedByNobody(c, by) == [code EXCEPT ![c].state = "used"]

claimed(c, by) == [code EXCEPT ![c].state = "used", ![c].usedBy = by]

RedeemClaim(h) ==
    /\ redeeming(h, "claim")
    /\ LET c == calls[h]
       IN  IF claimableCode(c.code)
           THEN code' = claimed(c.code, c.wallet) /\ onward(h, c)
           ELSE finish(h) /\ UNCHANGED code
    /\ UNCHANGED <<nonce, lenders, restarts, admitted, accepted>>

RedeemFind(h) ==
    /\ redeeming(h, "find")
    /\ onward(h, [calls[h] EXCEPT !.known = calls[h].wallet \in lenders])
    /\ UNCHANGED <<code, nonce, lenders, restarts, admitted, accepted>>

\* Lender.create of a wallet that was not found and is there by now fails.
RedeemLender(h) ==
    /\ redeeming(h, "lender")
    /\ LET c == calls[h]
       IN  IF ~c.known /\ c.wallet \in lenders
           THEN finish(h) /\ UNCHANGED <<lenders, admitted>>
           ELSE /\ onward(h, c)
                /\ lenders' = lenders \cup {c.wallet}
                /\ admitted' = admitted \cup {<<c.wallet, c.code>>}
    /\ UNCHANGED <<code, nonce, restarts, accepted>>

\* claimed.save() of a code that was deleted meanwhile fails.
RedeemAttach(h) ==
    /\ redeeming(h, "attach")
    /\ LET c == calls[h]
       IN  code' = IF code[c.code].state = "deleted" THEN code
                   ELSE [code EXCEPT ![c.code].lender = c.wallet]
    /\ finish(h)
    /\ UNCHANGED <<nonce, lenders, restarts, admitted, accepted>>

-----------------------------------------------------------------------------
(* POST /users/create-user, and signing in *)

SignUpRead(h, c, e) ==
    /\ e \notin lenders
    /\ begin(h, [op |-> "claim", code |-> c, email |-> e])
    /\ UNCHANGED <<code, nonce, lenders, restarts, admitted, accepted>>

SignUpClaim(h) ==
    /\ calls[h].op = "claim"
    /\ LET c == calls[h]
       IN  IF claimableCode(c.code)
           THEN code' = claimed(c.code, c.email) /\ continue(h, [c EXCEPT !.op = "create"])
           ELSE finish(h) /\ UNCHANGED code
    /\ UNCHANGED <<nonce, lenders, restarts, admitted, accepted>>

\* The password is hashed, and Lender.create fails if the e-mail is registered by now.
SignUpCreate(h) ==
    /\ calls[h].op = "create"
    /\ LET c == calls[h]
       IN  IF c.email \in lenders THEN UNCHANGED <<lenders, admitted>>
           ELSE /\ lenders' = lenders \cup {c.email}
                /\ admitted' = admitted \cup {<<c.email, c.code>>}
    /\ finish(h)
    /\ UNCHANGED <<code, nonce, restarts, accepted>>

\* POST /auth/wallet/login.  What follows the signature changes nothing that is modelled.
LoginStart(h, w, n, genuine) ==
    /\ begin(h, [op |-> "login", wallet |-> w, nonce |-> n, genuine |-> genuine])
    /\ UNCHANGED <<code, nonce, lenders, restarts, admitted, accepted>>

LoginVerify(h) ==
    /\ calls[h].op = "login"
    /\ verifySignature(calls[h])
    /\ finish(h)
    /\ UNCHANGED <<code, lenders, restarts, admitted>>

\* Whatever was between two awaits is gone.
Restart ==
    /\ restarts < MaxRestarts
    /\ restarts' = restarts + 1
    /\ calls' = [h \in Handlers |-> NoCall]
    /\ UNCHANGED <<code, nonce, lenders, admitted, accepted>>

-----------------------------------------------------------------------------
HandlerNext(h) ==
    \/ \E c \in Codes : DeleteRead(h, c) \/ \E e \in Emails : SignUpRead(h, c, e)
    \/ \E w \in Wallets, n \in Nonces, genuine \in BOOLEAN :
           \/ LoginStart(h, w, n, genuine)
           \/ \E c \in Codes : RedeemStart(h, c, w, n, genuine)
    \/ Delete(h)
    \/ RedeemVerify(h) \/ RedeemClaim(h) \/ RedeemFind(h) \/ RedeemLender(h) \/ RedeemAttach(h)
    \/ SignUpClaim(h) \/ SignUpCreate(h)
    \/ LoginVerify(h)

Next ==
    \/ \E c \in Codes : CreateCode(c) \/ CodeExpires(c)
    \/ \E n \in Nonces : NonceExpires(n) \/ \E w \in Wallets : IssueNonce(n, w)
    \/ \E h \in Handlers : HandlerNext(h)
    \/ Restart

Spec == Init /\ [][Next]_vars

-----------------------------------------------------------------------------
(* Properties *)

\* Types; that a signature is good for one request, so that a second tab or a retry needs a
\* nonce of its own; and that the account on a code is the one that has claimed it.
AccessTypeOK ==
    /\ code \in [Codes -> CodeDoc]
    /\ \A c \in Codes : code[c].lender \in {Nobody, code[c].usedBy}
    /\ nonce \in [Nonces -> NonceDoc]
    /\ lenders \subseteq Lenders
    /\ calls \in [Handlers -> Call]
    /\ restarts \in 0 .. MaxRestarts
    /\ admitted \subseteq Lenders \X Codes
    /\ accepted \in [Nonces -> 0 .. 1]

\* A code lets in one lender, and every lender was let in by one, however redemptions,
\* sign-ups, retries, revocations and restarts meet.
OneLenderPerCode ==
    /\ \A a, b \in admitted : a[2] = b[2] => a = b
    /\ lenders = {a[1] : a \in admitted}

\* The redemption or the sign-up that has claimed the code and has still to use it.
inUse(c) ==
    \E h \in Handlers :
        \/ calls[h].op = "create" /\ calls[h].code = c
        \/ (redeeming(h, "find") \/ redeeming(h, "lender")) /\ calls[h].code = c

\* A code is not used up in vain: it has let somebody in, unless the server was restarted, or
\* the wallet or the e-mail was registered by another request meanwhile.
CodeNotWasted ==
    \A c \in Codes :
        code[c].state = "used" =>
            \/ inUse(c)
            \/ \E a \in admitted : a[2] = c
            \/ restarts > 0
            \/ \E a \in admitted : a[1] = code[c].usedBy /\ a[2] # c
=============================================================================
