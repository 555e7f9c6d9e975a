---------------------------- MODULE PoolFactory ----------------------------
(***************************************************************************)
(* contracts/src/PoolFactory.sol: who may have a pool, on which terms, and *)
(* how the one slot of a PSP follows the life of its pool.                 *)
(*                                                                         *)
(* The pools are the clones the factory deployed, reduced to what the two  *)
(* contracts tell each other: a pool's status, the wallet it knows as its  *)
(* PSP, the terms and bounds it was given, and the time of its creation.   *)
(* Between its creation and its end a pool moves as CreditLine allows,     *)
(* and what may be proved of PoolContract is that it makes no other move.  *)
(***************************************************************************)
EXTENDS MathLib, PoolLifecycle

CONSTANTS
    Wallets,           \* addresses of PSPs
    PoolIds,           \* addresses of clones
    ZeroAddress,
    Terms,             \* CreatePoolParams that a deployer submits
    Bounds,            \* settings of the global bounds
    Envelopes,         \* settings of the economic envelope
    CreationTimes,     \* block times at which pools are created
    DirectWallets      \* wallets the multisig writes into a pool without the factory

RateFields == {"aprAnnual", "tenure", "penaltyGraceDays", "idleRateDaily",
               "utilizedRateDaily", "penaltyRateDaily"}

TermsType ==
    [fundingDurationSecs : Nat, softCap : Nat, hardCap : Nat, tenure : Nat,
     idleRateDaily : Nat, utilizedRateDaily : Nat, penaltyRateDaily : Nat,
     penaltyGraceDays : Nat, aprAnnual : Nat]

\* fundingExecBuffer is in seconds here; minDdDays and maxDdDays do not meet the factory.
BoundsType ==
    [maxFundingDurationSecs : Nat, fundingExecBuffer : Nat, maxGracePeriodDays : Nat]

ASSUME FactoryAssumption ==
    /\ ZeroAddress \notin Wallets \cup PoolIds
    /\ Terms \subseteq TermsType
    /\ Bounds \subseteq BoundsType
    /\ Envelopes \subseteq [min : [RateFields -> Nat], max : [RateFields -> Nat],
                            hardCapCeiling : Nat]
    /\ Bounds # {} /\ Envelopes # {}
    /\ CreationTimes \subseteq Nat
    /\ DirectWallets \subseteq Wallets

VARIABLES
    psps,              \* [Wallets -> PspRecord]
    pools,             \* the deployed clones: a function on a subset of PoolIds
    bounds, envelope

factoryVars == <<psps, pools, bounds, envelope>>

NoPsp == [approved |-> FALSE, activePool |-> ZeroAddress]

PspRecord == [approved : BOOLEAN, activePool : PoolIds \cup {ZeroAddress}]

PoolRecord ==
    [status : LiveStatuses \cup EndStatuses, pspWallet : Wallets, terms : Terms,
     bounds : Bounds, createdAt : CreationTimes,
     direct : BOOLEAN]     \* history: the multisig has written the pool's wallet itself

\* The pools that hold their PSP.
LivePools == {id \in DOMAIN pools : pools[id].status \in LiveStatuses}

Init ==
    /\ psps = [w \in Wallets |-> NoPsp]
    /\ pools = <<>>
    /\ bounds \in Bounds
    /\ envelope \in Envelopes

-----------------------------------------------------------------------------
(* PSPs *)

approvePsp(w) ==
    /\ psps' = [psps EXCEPT ![w].approved = TRUE]
    /\ UNCHANGED <<pools, bounds, envelope>>

\* A revoked PSP keeps its pool.
revokePsp(w) ==
    /\ psps' = [psps EXCEPT ![w].approved = FALSE]
    /\ UNCHANGED <<pools, bounds, envelope>>

\* Mutant: the pool is not told of its new wallet.
reassignUntold(old, new) ==
    /\ psps[old].approved
    /\ psps[new].activePool = ZeroAddress
    /\ psps' = [psps EXCEPT ![new] = [approved |-> TRUE, activePool |-> psps[old].activePool],
                            ![old] = NoPsp]
    /\ UNCHANGED <<pools, bounds, envelope>>

\* The approval and the pool move to a new wallet, and nothing is left of the old record.
reassignPspWallet(old, new) ==
    LET activePool == psps[old].activePool
    IN  /\ psps[old].approved
        /\ psps[new].activePool = ZeroAddress
        /\ psps' = [psps EXCEPT ![new] = [approved |-> TRUE, activePool |-> activePool],
                                ![old] = NoPsp]
        /\ pools' = IF activePool = ZeroAddress THEN pools
                    ELSE [pools EXCEPT ![activePool].pspWallet = new]
        /\ UNCHANGED <<bounds, envelope>>

\* The multisig may also call the pool itself, which does not tell the factory.
setPspWallet(id, w) ==
    /\ pools' = [pools EXCEPT ![id] = [@ EXCEPT !.pspWallet = w, !.direct = TRUE]]
    /\ UNCHANGED <<psps, bounds, envelope>>

-----------------------------------------------------------------------------
(* Creation *)

snapSecs(terms, t) ==
    LET rem == (t + terms.fundingDurationSecs) % SECONDS_PER_DAY
    IN  IF rem = 0 THEN 0 ELSE SECONDS_PER_DAY - rem

\* Mutant: the snap to midnight is forgotten.
maxTenureSecsUnsnapped(terms, b, t) ==
    terms.fundingDurationSecs + b.fundingExecBuffer
        + (terms.tenure + terms.penaltyGraceDays) * SECONDS_PER_DAY

maxTenureSecs(terms, b, t) ==
    terms.fundingDurationSecs + snapSecs(terms, t) + b.fundingExecBuffer
        + (terms.tenure + terms.penaltyGraceDays) * SECONDS_PER_DAY

\* The invariants of the terms that are always on.
sound(terms, b, t) ==
    /\ terms.fundingDurationSecs > 0
    /\ terms.fundingDurationSecs <= b.maxFundingDurationSecs
    /\ terms.softCap > 0 /\ terms.hardCap >= terms.softCap
    /\ terms.tenure > 0
    /\ terms.idleRateDaily <= terms.utilizedRateDaily
    /\ terms.utilizedRateDaily < terms.penaltyRateDaily
    /\ terms.penaltyGraceDays <= b.maxGracePeriodDays
    /\ terms.aprAnnual * maxTenureSecs(terms, b, t)
           <= terms.utilizedRateDaily * DAYS_PER_YEAR * terms.tenure * SECONDS_PER_DAY

enveloped(terms, e) ==
    /\ \A f \in RateFields : e.min[f] <= terms[f] /\ terms[f] <= e.max[f]
    /\ terms.hardCap <= e.hardCapCeiling

register(id, w) == psps' = [psps EXCEPT ![w].activePool = id]

\* The new clone copies the bounds of the moment and is entered in its PSP's slot.
createPool(id, w, terms, t) ==
    /\ id \notin DOMAIN pools
    /\ sound(terms, bounds, t) /\ enveloped(terms, envelope)
    /\ psps[w].approved
    /\ psps[w].activePool = ZeroAddress
    /\ pools' = [i \in DOMAIN pools \cup {id} |->
                    IF i = id THEN [status |-> "Funding", pspWallet |-> w, terms |-> terms,
                                    bounds |-> bounds, createdAt |-> t, direct |-> FALSE]
                    ELSE pools[i]]
    /\ register(id, w)
    /\ UNCHANGED <<bounds, envelope>>

setBounds(b) ==
    /\ bounds' = b
    /\ UNCHANGED <<psps, pools, envelope>>

setEnvelope(e) ==
    /\ envelope' = e
    /\ UNCHANGED <<psps, pools, bounds>>

-----------------------------------------------------------------------------
(* The life of a pool *)

\* Only the pool in the slot of that wallet may empty the slot.
releasePsp(id, w) ==
    /\ psps[w].activePool = id
    /\ psps' = [psps EXCEPT ![w].activePool = ZeroAddress]

\* Mutant: a pool ends without letting go of its PSP.
poolMovesUnreleased(id, s) ==
    /\ <<pools[id].status, s>> \in Moves
    /\ pools' = [pools EXCEPT ![id].status = s]
    /\ UNCHANGED <<psps, bounds, envelope>>

\* A call that ends a pool reverts when the factory does not release its PSP.
poolMoves(id, s) ==
    /\ <<pools[id].status, s>> \in Moves
    /\ pools' = [pools EXCEPT ![id].status = s]
    /\ IF s \in EndStatuses THEN releasePsp(id, pools[id].pspWallet) ELSE UNCHANGED psps
    /\ UNCHANGED <<bounds, envelope>>

-----------------------------------------------------------------------------
MultisigNext ==
    \/ \E w \in Wallets : approvePsp(w) \/ revokePsp(w)
    \/ \E old, new \in Wallets : reassignPspWallet(old, new)
    \/ \E id \in DOMAIN pools, w \in DirectWallets : setPspWallet(id, w)
    \/ \E b \in Bounds : setBounds(b)
    \/ \E e \in Envelopes : setEnvelope(e)

DeployerNext ==
    \E id \in PoolIds, w \in Wallets, terms \in Terms, t \in CreationTimes :
        createPool(id, w, terms, t)

PoolNext == \E id \in DOMAIN pools, s \in LiveStatuses \cup EndStatuses : poolMoves(id, s)

Next == MultisigNext \/ DeployerNext \/ PoolNext

Spec == Init /\ [][Next]_factoryVars

-----------------------------------------------------------------------------
(* Properties *)

FactoryTypeOK ==
    /\ psps \in [Wallets -> PspRecord]
    /\ DOMAIN pools \subseteq PoolIds
    /\ \A id \in DOMAIN pools : pools[id] \in PoolRecord
    /\ bounds \in Bounds /\ envelope \in Envelopes

\* Each live pool is in the slot of exactly one PSP and an ended pool in none, however
\* often approvals are revoked and moved while pools end, and even when the multisig
\* changes the wallet a pool knows behind the back of the factory.
OneHolder ==
    /\ \A w \in Wallets : psps[w].activePool # ZeroAddress => psps[w].activePool \in LivePools
    /\ \A v, w \in Wallets :
           psps[v].activePool = psps[w].activePool /\ psps[v].activePool # ZeroAddress => v = w
    /\ \A id \in LivePools : \E w \in Wallets : psps[w].activePool = id

\* A live pool is in the slot of the wallet it knows as its PSP, so the call that ends it
\* cannot fail on the release; an ended pool is not. Only a pool whose own wallet the
\* multisig has written is excepted, and it does not spoil the slots of the others.
SlotLifecycle ==
    \A id \in DOMAIN pools :
        ~pools[id].direct
            => (psps[pools[id].pspWallet].activePool = id <=> id \in LivePools)

\* A full pool that is drawn throughout earns its coupon, even when it locks at the end of
\* the buffer and its funding window was snapped to the next midnight.
CouponCoverable ==
    \A id \in DOMAIN pools :
        LET p       == pools[id]
            term    == p.terms.tenure * SECONDS_PER_DAY
            latest  == p.terms.fundingDurationSecs + snapSecs(p.terms, p.createdAt)
                           + p.bounds.fundingExecBuffer
        IN  mulDiv(p.terms.hardCap * (latest + term), p.terms.aprAnnual,
                   WAD * SECONDS_PER_YEAR)
                <= mulDiv(p.terms.hardCap, p.terms.utilizedRateDaily * p.terms.tenure, WAD)
=============================================================================
