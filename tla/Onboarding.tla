----------------------------- MODULE Onboarding -----------------------------
(***************************************************************************)
(* The application of a registered borrower on its way to a credit line:   *)
(* the handlers under /admin/applications and /psp that change its         *)
(* profile, composed with the portal pages that send them their requests.  *)
(* The model follows it up to the CRO's final confirmation.                *)
(*                                                                         *)
(* A page shows buttons for the application as it was when the page was    *)
(* loaded, and may stay open in any number of tabs: offered holds every    *)
(* request that some page has had a button for so far, and whoever has     *)
(* such a page may still press it.                                         *)
(*                                                                         *)
(* A handler reads the profile, checks it, and saves it after an await.    *)
(* Document.save() writes the paths whose values were changed since the    *)
(* profile was read, so a handler in progress is known by its write.       *)
(***************************************************************************)
CONSTANTS
    Staff, Borrower    \* handlers: as many requests of either are in progress

Actors == Staff \cup Borrower

VARIABLES
    profile,
    offered,           \* the requests that some open page has a button for
    saving,            \* [Actors -> Call]
    trail              \* history: the sign-offs that were saved

onboardingVars == <<profile, offered, saving, trail>>

-----------------------------------------------------------------------------
(* PSPProfile *)

\* The enumeration of workflowStep: a document with another value is not saved.
Steps ==
    {"KAM_REVIEW", "TERM_SHEET_STAGE", "CAD_REVIEW", "TECH_INTEGRATION_STAGE", "CRO_REVIEW",
     "LEGAL_REVIEW", "PSP_FACILITY_APPROVAL", "CAD_FACILITY_REVIEW", "CAD_FINAL_APPROVAL",
     "CRO_FINAL_CONFIRMATION", "AWAITING_POOL_INIT", "FINALIZED"}

\* Values of creditLineStatus that these handlers store.
CreditLineStatuses == {"UnderReview", "NeedMoreInfo", "Approved", "Rejected"}

AgreementStatuses == {"none", "Shared", "Negotiating", "Accepted"}

\* draft: there is a draftApproval.
Profile ==
    [step : Steps, status : CreditLineStatuses, termSheet : AgreementStatuses,
     techAgreement : AgreementStatuses, facility : AgreementStatuses, draft : BOOLEAN]

\* The borrower has bound a wallet, submitted the registration and was admitted to onboarding.
Admitted ==
    [step |-> "KAM_REVIEW", status |-> "UnderReview", termSheet |-> "none",
     techAgreement |-> "none", facility |-> "none", draft |-> FALSE]

-----------------------------------------------------------------------------
(* The portal *)

BorrowerRequests ==
    {"saveProfile", "applyLimit", "acceptTermSheet", "negotiateTermSheet", "acceptTechAgreement",
     "negotiateTechAgreement", "acceptFacility", "negotiateFacility"}

\* request-info is sent by three roles, to the same effect.
StaffRequests ==
    {"forwardToCad", "requestInfo", "shareTermSheet", "shareTechAgreement", "croApproveToLegal",
     "shareFacility", "negotiateToLegal", "approveCadToKam", "kamApproveToPsp", "forwardToCro",
     "approve"}

\* The CAD's approval of a facility agreement and the CRO's rejection: the server has them, and
\* the only buttons for them are on the page of a step that is never stored.
DirectRequests == {"approveFacility", "reject"}

ProfileRequests == BorrowerRequests \cup StaffRequests \cup DirectRequests

\* AgreementOnboarding: what a note to the relationship manager is about is the first agreement
\* that is shared.
noteRequest(p) ==
    IF p.termSheet = "Shared" THEN "negotiateTermSheet"
    ELSE IF p.techAgreement = "Shared" THEN "negotiateTechAgreement" ELSE "negotiateFacility"

borrowerButtons(p) ==
    {"saveProfile", "applyLimit"}
    \cup {r \in BorrowerRequests :
            \/ r = "acceptTermSheet" /\ p.termSheet = "Shared"
            \/ r = "acceptTechAgreement" /\ p.techAgreement = "Shared"
            \/ r = "acceptFacility" /\ p.facility = "Shared"
            \/ r = noteRequest(p) /\ "Shared" \in {p.termSheet, p.techAgreement, p.facility}}

\* ApplicationReview, as each role sees it.
staffButtons(p) ==
    CASE p.step = "KAM_REVIEW"             -> {"forwardToCad", "requestInfo"}
      [] p.step = "TERM_SHEET_STAGE"       -> {"shareTermSheet", "requestInfo"}
      [] p.step = "TECH_INTEGRATION_STAGE" -> {"shareTechAgreement"}
      [] p.step = "CRO_REVIEW"             -> {"croApproveToLegal", "requestInfo"}
      [] p.step = "LEGAL_REVIEW"           -> {"shareFacility"}
      [] p.step = "CAD_FACILITY_REVIEW"    -> {"approveCadToKam", "negotiateToLegal"}
      [] p.step = "KAM_FACILITY_REVIEW"    -> {"kamApproveToPsp", "negotiateToLegal"}
      [] p.step = "CAD_FINAL_APPROVAL"     -> IF p.draft THEN {} ELSE {"forwardToCro"}
      [] p.step = "CRO_FINAL_CONFIRMATION" -> {"approve"}
      [] OTHER                             -> {}

buttons(p) == borrowerButtons(p) \cup staffButtons(p)

-----------------------------------------------------------------------------
(* The server *)

\* Mutant: an agreement is accepted at any step.
acceptsAnywhere(r, p) ==
    CASE r = "saveProfile"     -> p.status # "Approved"
      [] r = "forwardToCad"    -> p.step = "KAM_REVIEW"
      [] r = "approveFacility" -> p.step = "CAD_FACILITY_REVIEW"
      [] r = "forwardToCro"    -> p.step \notin {"CRO_FINAL_CONFIRMATION", "FINALIZED"}
      [] r = "approve"         -> p.step \in {"CRO_REVIEW", "CRO_FINAL_CONFIRMATION"}
      [] OTHER                 -> TRUE

\* Whatever a handler does not answer with an error.  Most of them check nothing.
accepts(r, p) ==
    CASE r = "saveProfile"     -> p.status # "Approved"
      [] r = "forwardToCad"    -> p.step = "KAM_REVIEW"
      [] r = "approveFacility" -> p.step = "CAD_FACILITY_REVIEW"
      [] r = "acceptFacility"  -> p.step = "PSP_FACILITY_APPROVAL"
      [] r = "forwardToCro"    -> p.step \notin {"CRO_FINAL_CONFIRMATION", "FINALIZED"}
      [] r = "approve"         -> p.step \in {"CRO_REVIEW", "CRO_FINAL_CONFIRMATION"}
      [] OTHER                 -> TRUE

\* An approval of the CRO means what the step that the server finds makes of it.
meant(r, p) ==
    IF r = "approve" /\ p.step = "CRO_REVIEW" THEN "croApproveToLegal" ELSE r

\* What each handler assigns.
shareAgreement(r) ==
    CASE r = "shareTermSheet"     -> [termSheet |-> "Shared"]
      [] r = "shareTechAgreement" -> [techAgreement |-> "Shared"]
      [] r = "shareFacility"      -> [facility |-> "Shared", step |-> "CAD_FACILITY_REVIEW"]

moveStep(r) ==
    CASE r = "croApproveToLegal" -> [step |-> "LEGAL_REVIEW"]
      [] r = "negotiateToLegal"  -> [facility |-> "Negotiating", step |-> "LEGAL_REVIEW"]
      [] r = "approveCadToKam"   -> [step |-> "KAM_FACILITY_REVIEW"]
      [] r = "kamApproveToPsp"   -> [step |-> "PSP_FACILITY_APPROVAL"]

clAction(r) ==
    CASE r = "acceptTermSheet"        -> [termSheet |-> "Accepted",
                                          step |-> "TECH_INTEGRATION_STAGE"]
      [] r = "negotiateTermSheet"     -> [termSheet |-> "Negotiating"]
      [] r = "acceptTechAgreement"    -> [techAgreement |-> "Accepted", step |-> "CRO_REVIEW"]
      [] r = "negotiateTechAgreement" -> [techAgreement |-> "Negotiating"]
      [] r = "acceptFacility"         -> [facility |-> "Accepted", step |-> "CAD_FINAL_APPROVAL"]
      [] r = "negotiateFacility"      -> [facility |-> "Negotiating", step |-> "LEGAL_REVIEW"]

saveProfile  == [status |-> "UnderReview"]
applyLimit   == [status |-> "UnderReview", step |-> "KAM_REVIEW"]
forwardToCad == [status |-> "UnderReview", step |-> "TERM_SHEET_STAGE"]
forwardToCro == [draft |-> TRUE, step |-> "CRO_FINAL_CONFIRMATION"]
requestInfo  == [status |-> "NeedMoreInfo"]
approve      == [status |-> "Approved", step |-> "AWAITING_POOL_INIT"]
reject       == [status |-> "Rejected", step |-> "FINALIZED"]

assigned(r) ==
    CASE r \in {"shareTermSheet", "shareTechAgreement", "shareFacility"} -> shareAgreement(r)
      [] r \in {"croApproveToLegal", "negotiateToLegal", "approveCadToKam", "kamApproveToPsp"} ->
             moveStep(r)
      [] r \in BorrowerRequests \ {"saveProfile", "applyLimit"} -> clAction(r)
      [] r = "saveProfile"     -> saveProfile
      [] r = "applyLimit"      -> applyLimit
      [] r = "forwardToCad"    -> forwardToCad
      [] r = "forwardToCro"    -> forwardToCro
      [] r = "requestInfo"     -> requestInfo
      [] r = "approve"         -> approve
      [] r = "approveFacility" -> [step |-> "PSP_FACILITY_APPROVAL"]
      [] r = "reject"          -> reject

\* A shared agreement is a new document, with its own address and date.
replaced(r) ==
    CASE r = "shareTermSheet"     -> {"termSheet"}
      [] r = "shareTechAgreement" -> {"techAgreement"}
      [] r = "shareFacility"      -> {"facility"}
      [] OTHER                    -> {}

\* The modified paths of a profile that was read as p.
modified(r, p) ==
    LET doc == assigned(r)
    IN  [f \in {g \in DOMAIN doc : doc[g] # p[g]} \cup replaced(r) |-> doc[f]]

NoRequest == [request |-> "none"]

isWrite(r, write) ==
    /\ replaced(r) \subseteq DOMAIN write /\ DOMAIN write \subseteq DOMAIN assigned(r)
    /\ \A f \in DOMAIN write : write[f] = assigned(r)[f]

OnboardingInit ==
    /\ profile = Admitted
    /\ offered = buttons(Admitted)
    /\ saving = [h \in Actors |-> NoRequest]
    /\ trail = {}

from(h) == IF h \in Borrower THEN BorrowerRequests ELSE StaffRequests \cup DirectRequests

\* Bound: what the server is asked after the final confirmation is left out.
Receive(h, r) ==
    /\ saving[h] = NoRequest /\ "approve" \notin trail
    /\ r \in from(h) /\ (r \in offered \/ r \in DirectRequests)
    /\ accepts(r, profile)
    /\ LET request == meant(r, profile)
       IN  saving' = [saving EXCEPT ![h] =
               [request |-> request, write |-> modified(request, profile)]]
    /\ UNCHANGED <<profile, offered, trail>>

\* Mutant: the paths are stored as they are.
validAlways(write) == "step" \in DOMAIN write => write.step \in STRING

\* Mongoose validates the paths that it is to write.
valid(write) == "step" \in DOMAIN write => write.step \in Steps

SignOffs ==
    {"forwardToCad", "shareTermSheet", "acceptTermSheet", "shareTechAgreement",
     "acceptTechAgreement", "croApproveToLegal", "shareFacility", "approveFacility",
     "acceptFacility", "forwardToCro", "approve"}

merged(stored, write) ==
    [f \in DOMAIN stored |-> IF f \in DOMAIN write THEN write[f] ELSE stored[f]]

Save(h) ==
    /\ saving[h] # NoRequest /\ valid(saving[h].write)
    /\ profile' = merged(profile, saving[h].write)
    /\ offered' = offered \cup buttons(profile')
    /\ saving' = [saving EXCEPT ![h] = NoRequest]
    /\ trail' = trail \cup ({saving[h].request} \cap SignOffs)

\* The handler's catch answers 500.
SaveFails(h) ==
    /\ saving[h] # NoRequest /\ ~valid(saving[h].write)
    /\ saving' = [saving EXCEPT ![h] = NoRequest]
    /\ UNCHANGED <<profile, offered, trail>>

OnboardingNext ==
    \E h \in Actors :
        \/ \E r \in ProfileRequests : Receive(h, r)
        \/ Save(h)
        \/ SaveFails(h)

OnboardingSpec == OnboardingInit /\ [][OnboardingNext]_onboardingVars

-----------------------------------------------------------------------------
(* Properties *)

\* Types: what is stored is within the schema, and a handler in progress is known by its write.
OnboardingTypeOK ==
    /\ profile \in Profile
    /\ offered \subseteq ProfileRequests
    /\ \A h \in Actors :
           saving[h] # NoRequest =>
               saving[h].request \in from(h) /\ isWrite(saving[h].request, saving[h].write)
    /\ trail \subseteq SignOffs

\* However old the pages are that the staff and the borrower act on, and however their
\* requests cross, an application is approved, or awaits its pool, only after every one of
\* them has signed it off: relationship, risk, both agreements, the CRO, legal, the facility
\* agreement twice, and the draft of the terms.
NoStageSkipped ==
    (profile.status = "Approved" \/ profile.step = "AWAITING_POOL_INIT") => trail = SignOffs

\* A step that a button moves an application to is stored: "Must cover every value the routes
\* assign" (server/models/PSPProfile.js:345).
MoveIsStored ==
    [][\A h \in Actors :
           saving[h] # NoRequest /\ saving'[h] = NoRequest /\ "step" \in DOMAIN saving[h].write
               => profile'.step = saving[h].write.step]_onboardingVars
=============================================================================
