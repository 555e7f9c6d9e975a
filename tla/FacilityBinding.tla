-------------------------- MODULE FacilityBinding --------------------------
(***************************************************************************)
(* How the facilities of one borrower are requested, reviewed and bound to *)
(* the pools created for them: server/routes/facility.js, the pool-init    *)
(* routes of server/routes/poolTx.js, walletAuth's bind, and the first     *)
(* steps of server/workers/evmIndexer.js.                                  *)
(*                                                                         *)
(* Every await of a handler is a point where others run, so a handler is a *)
(* record in calls that carries what it has read.  Document.save() writes  *)
(* the paths the handler changed, on top of whatever is stored by then.    *)
(* The chain is external: a wallet has one slot, and a pool that ends      *)
(* leaves it.                                                              *)
(***************************************************************************)
EXTENDS Integers, Sequences, FiniteSets

CONSTANTS
    Facilities,
    Wallets,
    Seeded,            \* the wallet the profile was seeded with, not proved by anybody
    Owned,             \* the wallets the borrower can sign with
    Handlers,          \* as many requests are in progress
    MaxPools,          \* pools created
    MaxFailures        \* ticks of the indexer that fail

ASSUME BindingAssumption ==
    /\ Seeded \in Wallets /\ Owned \subseteq Wallets
    /\ MaxPools \in Nat /\ MaxFailures \in Nat

VARIABLES
    profile,           \* [primary, proved]: the PSPProfile
    facility,          \* [Facilities -> FacilityDoc]
    calls,             \* [Handlers -> Call]
    created,           \* PoolCreated events, the i-th for pool i
    window,            \* the pools whose event the indexer still sees
    slots,             \* [Wallets -> active pool]
    indexer,           \* the tick in progress
    failures

vars == <<profile, facility, calls, created, window, slots, indexer, failures>>

NoPool == 0
Pools  == 1 .. MaxPools

Roles == {"KAM", "CAD", "CRO"}

NEXT_AFTER == [KAM_REVIEW |-> "CAD_REVIEW", CAD_REVIEW |-> "CRO_REVIEW",
               CRO_REVIEW |-> "AWAITING_POOL_INIT"]

ROLE_FOR_STATE == [KAM_REVIEW |-> "KAM", CAD_REVIEW |-> "CAD", CRO_REVIEW |-> "CRO"]

InReview == DOMAIN NEXT_AFTER

\* What the server stores: REQUESTED, ACTIVE and CLOSED are in the schema and never written.
Statuses == InReview \cup {"NONE", "AWAITING_POOL_INIT", "FUNDING", "CANCELLED"}

\* by is not stored: who bound the pool.
FacilityDoc ==
    [status : Statuses, wallet : Wallets, pool : Pools \cup {NoPool}, stamps : SUBSET Roles,
     first : BOOLEAN, by : {"indexer", "admin"}]

NoCall == [op |-> "none"]

\* A handler between two awaits, with what it still uses of what it has read.
Call ==
    [op : {"request"}, facility : Facilities, wallet : Wallets, first : BOOLEAN]
        \cup [op : {"approve"}, facility : Facilities, at : InReview, pool : Pools \cup {NoPool}]
        \cup [op : {"resolve", "stamp", "check"}, facility : Facilities, wallet : Wallets,
              hasPool : BOOLEAN]
        \cup [op : {"send", "psps"}, facility : Facilities, wallet : Wallets]
        \cup [op : {"reject", "confirm"}, facility : Facilities]
        \cup [op : {"save"}, facility : Facilities, pool : Pools]
        \cup {NoCall}

\* current is the facility of unbound under reconciliation, if there is one.
IndexerTick ==
    [at : {"idle", "event", "bind", "unbound", "holder", "update"}, events : SUBSET Pools,
     unbound : SUBSET (Facilities \X Wallets), current : SUBSET (Facilities \X Wallets),
     pool : Pools \cup {NoPool}]

NoDoc == [status |-> "NONE", wallet |-> Seeded, pool |-> NoPool, stamps |-> {},
          first |-> TRUE, by |-> "indexer"]

Awaiting(f) == facility[f].status = "AWAITING_POOL_INIT" /\ facility[f].pool = NoPool

Claimants(p) == {f \in Facilities : facility[f].pool = p}

Idle == [at |-> "idle", events |-> {}, unbound |-> {}, current |-> {}, pool |-> NoPool]

Init ==
    /\ profile = [primary |-> Seeded, proved |-> {}]
    /\ facility = [f \in Facilities |-> NoDoc]
    /\ calls = [h \in Handlers |-> NoCall]
    /\ created = <<>> /\ window = {}
    /\ slots = [w \in Wallets |-> NoPool]
    /\ indexer = Idle /\ failures = 0

-----------------------------------------------------------------------------
(* Handlers *)

begin(h, call) ==
    /\ calls[h] = NoCall
    /\ calls' = [calls EXCEPT ![h] = call]

continue(h, next) == calls' = [calls EXCEPT ![h] = next]

finish(h) == calls' = [calls EXCEPT ![h] = NoCall]

serverUnchanged == UNCHANGED <<created, window, slots, indexer, failures>>

\* POST /auth/wallet/bind.  The field that is to stop it, assignedPoolAddress, is not in the
\* schema of the profile and always absent.
Bind(w) ==
    /\ w \in Owned
    /\ profile' = [primary |-> w, proved |-> profile.proved \cup {w}]
    /\ UNCHANGED <<facility, calls>> /\ serverUnchanged

\* POST /facility/request: the wallet of the profile and the count of approved facilities.
RequestRead(h, f) ==
    /\ facility[f].status = "NONE"
    /\ \A g \in Handlers : calls[g].op = "request" => calls[g].facility # f
    /\ begin(h, [op |-> "request", facility |-> f, wallet |-> profile.primary,
              first |-> \A g \in Facilities : "CRO" \notin facility[g].stamps])
    /\ UNCHANGED <<profile, facility>> /\ serverUnchanged

requested(c) ==
    [NoDoc EXCEPT !.status = IF c.first THEN "KAM_REVIEW" ELSE "CRO_REVIEW",
                  !.wallet = c.wallet, !.first = c.first]

RequestCreate(h) ==
    /\ calls[h].op = "request"
    /\ facility' = [facility EXCEPT ![calls[h].facility] = requested(calls[h])]
    /\ finish(h)
    /\ UNCHANGED profile /\ serverUnchanged

\* POST /facility/:id/approve, by the role of the status that was read.
ApproveRead(h, f) ==
    /\ facility[f].status \in InReview
    /\ begin(h, [op |-> "approve", facility |-> f, at |-> facility[f].status,
              pool |-> facility[f].pool])
    /\ UNCHANGED <<profile, facility>> /\ serverUnchanged

\* Mutant: the status advances from what it is by now, with the role that was checked before.
approvedByNow(doc, c) ==
    [doc EXCEPT !.status = IF doc.status \in InReview THEN NEXT_AFTER[doc.status] ELSE @,
                !.stamps = doc.stamps \cup {ROLE_FOR_STATE[c.at]}]

\* The CRO blanks the pool, which is a change only of a document that had one.
approved(doc, c) ==
    [doc EXCEPT !.status = NEXT_AFTER[c.at],
                !.stamps = doc.stamps \cup {ROLE_FOR_STATE[c.at]},
                !.pool   = IF c.at = "CRO_REVIEW" /\ c.pool # NoPool THEN NoPool ELSE doc.pool]

ApproveSave(h) ==
    /\ calls[h].op = "approve"
    /\ facility' = [facility EXCEPT ![calls[h].facility] = approved(@, calls[h])]
    /\ finish(h)
    /\ UNCHANGED profile /\ serverUnchanged

\* POST /facility/:id/reject
RejectRead(h, f) ==
    /\ facility[f].status \in InReview
    /\ begin(h, [op |-> "reject", facility |-> f])
    /\ UNCHANGED <<profile, facility>> /\ serverUnchanged

RejectSave(h) ==
    /\ calls[h].op = "reject"
    /\ facility' = [facility EXCEPT ![calls[h].facility].status = "CANCELLED"]
    /\ finish(h)
    /\ UNCHANGED profile /\ serverUnchanged

-----------------------------------------------------------------------------
(* The administrator deploys a facility of the queue: initialize-pool builds the call, the *)
(* wallet of the administrator sends it, and confirm-pool-init binds the pool.             *)

\* The queue the administrator works from may be old: no status is asked for.
InitRead(h, f) ==
    /\ "CRO" \in facility[f].stamps
    /\ begin(h, [op |-> "resolve", facility |-> f, wallet |-> facility[f].wallet,
              hasPool |-> facility[f].pool # NoPool])
    /\ UNCHANGED <<profile, facility>> /\ serverUnchanged

\* pickBorrowerWallet, on the profile as it is now.
ResolveRead(h) ==
    /\ calls[h].op = "resolve"
    /\ LET changed == ~calls[h].hasPool /\ profile.primary # calls[h].wallet
       IN  continue(h, [op       |-> IF changed THEN "stamp" ELSE "check",
                        facility |-> calls[h].facility, hasPool |-> calls[h].hasPool,
                        wallet   |-> IF changed THEN profile.primary ELSE calls[h].wallet])
    /\ UNCHANGED <<profile, facility>> /\ serverUnchanged

\* Mutant: the facility is corrected whether or not it has a pool by now.
StampUnguarded(h) ==
    /\ calls[h].op = "stamp"
    /\ facility' = [facility EXCEPT ![calls[h].facility].wallet = calls[h].wallet]
    /\ continue(h, [calls[h] EXCEPT !.op = "check"])
    /\ UNCHANGED profile /\ serverUnchanged

Stamp(h) ==
    /\ calls[h].op = "stamp"
    /\ facility' = [facility EXCEPT
           ![calls[h].facility].wallet =
               IF facility[calls[h].facility].pool = NoPool THEN calls[h].wallet ELSE @]
    /\ continue(h, [calls[h] EXCEPT !.op = "check"])
    /\ UNCHANGED profile /\ serverUnchanged

\* hasConfirmedBinding reads the profile again; the dry run meets the chain as it is now.
CheckBinding(h) ==
    /\ calls[h].op = "check"
    /\ IF (calls[h].hasPool \/ profile.primary \in profile.proved) /\ slots[calls[h].wallet] = NoPool
       THEN continue(h, [op |-> "send", facility |-> calls[h].facility, wallet |-> calls[h].wallet])
       ELSE finish(h)
    /\ UNCHANGED <<profile, facility>> /\ serverUnchanged

\* createPool succeeds, after which the browser asks for the confirmation if it still can; or
\* it reverts, or is not signed.
SendCreatePool(h) ==
    /\ calls[h].op = "send"
    /\ \/ /\ slots[calls[h].wallet] = NoPool /\ Len(created) < MaxPools
          /\ created' = Append(created, calls[h].wallet)
          /\ window' = window \cup {Len(created')}
          /\ slots' = [slots EXCEPT ![calls[h].wallet] = Len(created')]
          /\ \/ continue(h, [op |-> "confirm", facility |-> calls[h].facility])
             \/ finish(h)
       \/ finish(h) /\ UNCHANGED <<created, window, slots>>
    /\ UNCHANGED <<profile, facility, indexer, failures>>

ConfirmRead(h) ==
    /\ calls[h].op = "confirm"
    /\ IF facility[calls[h].facility].pool # NoPool THEN finish(h)
       ELSE continue(h, [op |-> "psps", facility |-> calls[h].facility,
                         wallet |-> facility[calls[h].facility].wallet])
    /\ UNCHANGED <<profile, facility>> /\ serverUnchanged

\* Mutant: the answer of the factory is stored as it is.
ConfirmSlotUnchecked(h) ==
    /\ calls[h].op = "psps"
    /\ continue(h, [op |-> "save", facility |-> calls[h].facility, pool |-> slots[calls[h].wallet]])
    /\ UNCHANGED <<profile, facility>> /\ serverUnchanged

ConfirmSlot(h) ==
    /\ calls[h].op = "psps"
    /\ IF slots[calls[h].wallet] = NoPool THEN finish(h)
       ELSE continue(h, [op |-> "save", facility |-> calls[h].facility, pool |-> slots[calls[h].wallet]])
    /\ UNCHANGED <<profile, facility>> /\ serverUnchanged

bound(doc, pool, by) ==
    [doc EXCEPT !.pool = pool, !.status = "FUNDING", !.by = by]

ConfirmSave(h) ==
    /\ calls[h].op = "save"
    /\ facility' = [facility EXCEPT ![calls[h].facility] = bound(@, calls[h].pool, "admin")]
    /\ finish(h)
    /\ UNCHANGED profile /\ serverUnchanged

-----------------------------------------------------------------------------
(* The indexer: one tick at a time *)

indexerOnly == UNCHANGED <<profile, facility, calls, created, window, slots, failures>>

TickStart ==
    /\ indexer.at = "idle"
    /\ indexer' = [Idle EXCEPT !.at = "event", !.events = window]
    /\ indexerOnly

\* Mutant: whether somebody holds the pool is not asked.
canClaimPoolAlways(p, claimants) == TRUE

\* A pool may be claimed that nobody holds, or by the one that holds it.
canClaimPool(p, claimants) == Claimants(p) \subseteq claimants

\* Events come in the order of the chain.
EventClaimant ==
    /\ indexer.at = "event"
    /\ \E p \in indexer.events :
           /\ \A q \in indexer.events : p <= q
           /\ indexer' = IF canClaimPool(p, {})
                         THEN [indexer EXCEPT !.at = "bind", !.events = @ \ {p}, !.pool = p]
                         ELSE [indexer EXCEPT !.events = @ \ {p}]
    /\ indexerOnly

\* findOneAndUpdate: one facility of the wallet that waits, if there is any.
EventBind ==
    /\ indexer.at = "bind"
    /\ LET matches == {f \in Facilities :
                           Awaiting(f) /\ facility[f].wallet = created[indexer.pool]}
       IN  \/ matches = {} /\ UNCHANGED facility
           \/ \E f \in matches :
                  facility' = [facility EXCEPT ![f] = bound(@, indexer.pool, "indexer")]
    /\ indexer' = [indexer EXCEPT !.at = "event", !.pool = NoPool]
    /\ UNCHANGED <<profile, calls, created, window, slots, failures>>

\* Mutant: only the events of the window are looked at.
FindNoUnbound ==
    /\ indexer.at = "event" /\ indexer.events = {}
    /\ indexer' = Idle
    /\ indexerOnly

FindUnbound ==
    /\ indexer.at = "event" /\ indexer.events = {}
    /\ indexer' = [indexer EXCEPT !.at = "unbound",
           !.unbound = {<<f, facility[f].wallet>> : f \in {g \in Facilities : Awaiting(g)}}]
    /\ indexerOnly

\* factory.psps() of one of them.
ReadSlot ==
    /\ indexer.at = "unbound"
    /\ \E u \in indexer.unbound :
           indexer' = IF slots[u[2]] = NoPool
                      THEN [indexer EXCEPT !.unbound = @ \ {u}]
                      ELSE [indexer EXCEPT !.at = "holder", !.unbound = @ \ {u},
                                           !.current = {u}, !.pool = slots[u[2]]]
    /\ indexerOnly

nextUnbound == [indexer EXCEPT !.at = "unbound", !.current = {}, !.pool = NoPool]

ReadHolder ==
    /\ indexer.at = "holder"
    /\ \E u \in indexer.current :
           indexer' = IF canClaimPool(indexer.pool, {u[1]})
                      THEN [indexer EXCEPT !.at = "update"] ELSE nextUnbound
    /\ indexerOnly

\* updateOne of a facility that has no pool; its status is not asked again.
SlotBind ==
    /\ indexer.at = "update"
    /\ \E u \in indexer.current :
           facility' = IF facility[u[1]].pool # NoPool THEN facility
                       ELSE [facility EXCEPT ![u[1]] = bound(@, indexer.pool, "indexer")]
    /\ indexer' = nextUnbound
    /\ UNCHANGED <<profile, calls, created, window, slots, failures>>

TickEnd ==
    /\ indexer.at = "unbound" /\ indexer.unbound = {}
    /\ indexer' = Idle
    /\ indexerOnly

\* The endpoint refuses, or the server restarts: the tick is gone.
TickFails ==
    /\ indexer.at # "idle" /\ failures < MaxFailures
    /\ indexer' = Idle /\ failures' = failures + 1
    /\ UNCHANGED <<profile, facility, calls, created, window, slots>>

-----------------------------------------------------------------------------
(* The chain *)

PoolEnds(w) ==
    /\ slots[w] # NoPool
    /\ slots' = [slots EXCEPT ![w] = NoPool]
    /\ UNCHANGED <<profile, facility, calls, created, window, indexer, failures>>

\* WINDOW_BLOCKS later.
EventExpires(p) ==
    /\ p \in window
    /\ window' = window \ {p}
    /\ UNCHANGED <<profile, facility, calls, created, slots, indexer, failures>>

-----------------------------------------------------------------------------
BorrowerNext ==
    \/ \E w \in Wallets : Bind(w)
    \/ \E h \in Handlers, f \in Facilities : RequestRead(h, f)

StaffNext ==
    \E h \in Handlers, f \in Facilities : ApproveRead(h, f) \/ RejectRead(h, f) \/ InitRead(h, f)

HandlerNext(h) ==
    \/ RequestCreate(h) \/ ApproveSave(h) \/ RejectSave(h)
    \/ ResolveRead(h) \/ Stamp(h) \/ CheckBinding(h) \/ SendCreatePool(h)
    \/ ConfirmRead(h) \/ ConfirmSlot(h) \/ ConfirmSave(h)

IndexerNext ==
    \/ TickStart \/ EventClaimant \/ EventBind
    \/ FindUnbound \/ ReadSlot \/ ReadHolder \/ SlotBind \/ TickEnd

ChainNext == (\E w \in Wallets : PoolEnds(w)) \/ (\E p \in Pools : EventExpires(p))

Next ==
    \/ BorrowerNext
    \/ StaffNext
    \/ \E h \in Handlers : HandlerNext(h)
    \/ IndexerNext
    \/ TickFails
    \/ ChainNext

Spec == Init /\ [][Next]_vars

\* setInterval keeps the indexer going; nobody else has to do anything.
FairSpec == Spec /\ WF_vars(IndexerNext)

-----------------------------------------------------------------------------
(* Properties *)

\* Types; and a facility that is out for funding has its pool, which drawdowns are sent to.
BindingTypeOK ==
    /\ profile \in [primary : Wallets, proved : SUBSET Wallets]
    /\ facility \in [Facilities -> FacilityDoc]
    /\ \A f \in Facilities : facility[f].status = "FUNDING" => facility[f].pool # NoPool
    /\ calls \in [Handlers -> Call]
    /\ indexer \in IndexerTick
    /\ created \in Seq(Wallets) /\ Len(created) <= MaxPools
    /\ window \subseteq DOMAIN created
    /\ slots \in [Wallets -> Pools \cup {NoPool}]
    /\ \A w \in Wallets : slots[w] # NoPool => slots[w] \in DOMAIN created /\ created[slots[w]] = w
    /\ failures \in 0 .. MaxFailures

\* Whatever approvals and rejections overlap, a facility comes before the administrator only
\* with the CRO's approval, a first one with all three, and one that skipped two of them
\* only because another of the borrower was approved before it.
ReviewTrail ==
    \A f \in Facilities :
        LET fac == facility[f]
        IN  /\ fac.status \in {"AWAITING_POOL_INIT", "FUNDING"} =>
                   (IF fac.first THEN Roles ELSE {"CRO"}) \subseteq fac.stamps
            /\ ~fac.first => \E g \in Facilities \ {f} : "CRO" \in facility[g].stamps

\* The wallet a facility is stamped with does not change any more once it has a pool, even
\* when the pool is bound while the route that corrects the wallet is under way.
WalletSettled ==
    [][\A f \in Facilities :
           facility[f].pool # NoPool => facility[f].wallet' = facility[f].wallet]_vars

\* Two facilities never share a pool by the indexer's doing alone, although it learns of a
\* pool in two ways and binds on what it read before.
IndexerClaimsOnce ==
    \A f, g \in Facilities :
        f # g /\ facility[f].pool = facility[g].pool /\ facility[f].pool # NoPool
            => "admin" \in {facility[f].by, facility[g].by}

\* A live pool whose borrower waits for one is claimed, also when its event was missed,
\* unless the pool ends or the facility stops waiting.
PoolIsClaimed ==
    \A w \in Wallets, p \in Pools :
        (slots[w] = p /\ \E f \in Facilities : Awaiting(f) /\ facility[f].wallet = w)
            ~> (\/ Claimants(p) # {}
                \/ slots[w] # p
                \/ ~ \E f \in Facilities : Awaiting(f) /\ facility[f].wallet = w)
=============================================================================
