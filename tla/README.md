# DeFa: models and proofs

TLA+ modules of DeFa's credit pool, of the server around it and of what watches it, TLC
configurations that check them on small instances, and TLAPS proofs for every
value of the constants. The source is the reference throughout; where a document
or comment says otherwise, the model follows the code (see *Divergences*).

Run `tlc -config X.cfg M` for a row of the table of runs, `tlapm M.tla` for a
proof module. Paths below are relative to the repository.

## 1. The system

| Component | State it keeps | Operations | Interacts by | What makes it correct |
|---|---|---|---|---|
| `contracts/src/PoolContract.sol` | one credit line: status, capital, streams of yield, positions of LPs, drawdowns, whitelist, idle-fee exemption | deposit, withdraw, finalize, draw, repay, pay fees, default, settle, claim, sweep, whitelist, breaker | calls the reserve, the factory's `releasePsp`, the token; emits events | capital conserved, solvent, shares fair, closed only when whole |
| `contracts/src/TreasuryReserve.sol` | reserve and IM-fee balances, risk parameters | top up, draw, deposit fees, owner withdrawals | called by pools and its owner | balances never negative, backed by tokens |
| `contracts/src/PoolFactory.sol` | PSP records with one slot each, bounds, rate envelope | approve, revoke, reassign, create, release | creates pools, is called by them when they end | a live pool in exactly one slot; terms whose coupon can be earned |
| `contracts/src/MathLib.sol` | none | `mulDiv`, `dayOf` | | |
| `subgraph/src/factory.ts`, `pool.ts` | facilities, positions, drawdowns | one handler per event | events in the order of the chain | the picture is the pool's |
| `agent/src/rules.js` | none between runs | rules over a snapshot | reads the subgraph | no alarm without a cause, none missing |
| `server/config/rpcThrottle.js` | slots, waiting requests, timers | send, retry | in front of every JSON-RPC request | no slot lost, every request settles |
| `server/routes/facility.js`, `poolTx.js`, `walletAuth.js` | `Facility` and `PSPProfile` documents | request, approve, reject, initialize, confirm, bind | MongoDB, the chain, the indexer | no review skipped, one pool per facility |
| `server/workers/evmIndexer.js` | the tick in progress; writes facilities and drawdowns | poll events, reconcile slots, mirror drawdowns | the same documents | a pool claimed once, and eventually |
| `server/routes/admin.js`, `psp.js`, the review and agreement pages of `web/portal` | the workflow of `PSPProfile` | share, accept, negotiate, move, approve, reject | staff and borrower at pages of any age | no sign-off skipped |
| `server/routes/psp.js`, `admin.js`, `workers/repaymentAgent.js`, `overdueWatcher.js` | `FinancingRequest`, `EfficientDeposit`, `PSPProfile.currentlyUtilized` | request, confirm, announce and process a repayment, mark overdue | documents shared with routes | the books agree, what is late is marked |
| `server/workers/creditMaintenanceWorker.js`, `routes/maintenance.js`, `config/scheduler.js` | `CreditMaintenanceCharge`, the accumulator of `PSPProfile` | accrue, bill, pay, mark overdue | cron and the borrower's requests | each period billed once, no fee lost |
| `server/routes/accessCode.js`, `legacyAuth.js`, `walletAuth.js`, `services/walletAuthEvm.js` | `AccessCode`, `AuthNonce`, `Lender` | mint, redeem, sign up, sign in, revoke | MongoDB's conditional updates | a code lets one lender in |
| observer API, mail, signers, seeds, the rest of the web applications | plain storage or none | | | not modelled |

Where it is hard:

- *Long sequences of legal calls.* The pool has one lazy checkpoint per stream and
  every call brings some of them up to date. Nothing runs concurrently inside the
  contract; what matters is who calls what after how much time. Seven calls may
  close a pool and two may make a funding pool fail.
- *Rounding.* Every share is a floor; sums of floors are compared with totals.
- *Overlapping handlers.* In the server every `await` is a point where other
  handlers and workers run, and `Document.save()` writes the paths changed since an
  earlier read.
- *Writes in a row.* What MongoDB stores is never one transaction: a restart or an
  error between two saves leaves the first.
- *Stale pages.* A button acts for the application as its page was loaded; most
  handlers take it whatever the application is by now.
- *Lost ticks and missed events.* The indexer polls a window of blocks; a tick
  that fails is not resumed.
- *Refusals and retries.* The RPC throttle hands out slots while requests are
  answered, refused, put to sleep and tried again; a code or a signature is sent twice.

`PROJECT.json` lists every such hazard at its line, with the properties that are
for it, or the reason why there is none yet.

## 2. Modules

    MathLib <- TreasuryReserve <- PoolContract <- PoolProperties <- MCPool
                                                  PoolProperties!Line = CreditLine (INSTANCE)
    PoolContract <- Subgraph <- RiskMonitor       MCPool, RiskMonitor <- MCPoolIndexed
    PoolLifecycle <- CreditLine, PoolFactory <- MCFactory
    RpcThrottle                      FacilityBinding   <- MCFacility
    Financing    <- MCFinancing      CreditMaintenance <- MCMaintenance
    LenderAccess <- MCAccess         Onboarding        <- MCOnboarding
    Sums <- PoolProperties, Financing, CreditMaintenance, SumTheorems

    PoolProperties <- PoolContractProofs;  PoolContractProofs, SumTheorems <- PoolMoneyProofs
    RiskMonitor, PoolMoneyProofs <- PoolGraphProofs
    LenderAccess, CreditMaintenance, RpcThrottle, Onboarding, SumTheorems <- ServerProofs
    Financing, SumTheorems <- FinancingProofs

PoolFactoryProofs and FacilityBindingProofs extend the module they are named for.
ServerProofs has one section per component; Onboarding, CreditMaintenance and RpcThrottle
name their definitions so that they can stand beside LenderAccess's. **Sums** defines the sum of natural numbers over a finite set as the cardinality
of the set of their units, so that what is true of sums follows from what is true of
finite sets; **SumTheorems** proves what the other proofs need of them.

**PoolContract** is one pool with its reserve. An action is one external call,
atomic as the EVM makes it; a failing `require` anywhere in the call disables the
action. The scalar storage is one record, `pool`; mappings are functions
(`lpPositions`, `drawDowns`, `receiverActiveDrawdowns`); `drawDownRefs`/`refIndex`
keep the swap-and-pop array and its index. An internal function (`_accrueIdleFees`,
`_allocate`, `_mature`, `_settleTerminalSplit`, ...) is an operator from the storage
and the time to the storage it leaves, composed in the code's order.
Time is `now`, which `Tick` advances by one.
Money is in units, rates in fractions of a small `WAD`; the quotients of `mulDiv`
are exact floors. `setPspWallet` is in PoolFactory, since the wallet gates nothing
inside the pool. Roles, the token and signatures are external.

**TreasuryReserve** is the reserve with the owner's withdrawals and risk parameters.

**CreditLine** is the abstract specification: committed capital is undrawn,
lent or recovered; the line fails while it is being funded, or ends when everything
is back; the PSP is held from the start to the end. `PoolProperties!IsCreditLine`
is the refinement, with the mapping `status, principal, availableToDd, outstanding,
collectedPrincipal, pspReleased`.

**Subgraph** composes the contract with its indexer: each step of the pool is mapped
to the event of its new status, if it has one, and the event of the call; the handlers
write `graph` one after the other. The two events write different fields, so their order
makes no difference. Indexing lags, but the picture and the time of its block lag
together, so `graph` and `now` are a pair that some block has had, and
`GraphFollowsPool` compares the picture with the storage of that block.
**RiskMonitor** has the agent's rules about one pool as operators on the picture.

**PoolFactory** has all pools at once, each with a status that moves as CreditLine's
moves; a move to an end calls `releasePsp` and is impossible when the factory
refuses. `DirectWallets` are the wallets the multisig may write into a pool by
`setPspWallet` without the factory; `direct` is history, the pools it did that to.

**RpcThrottle** is the queue of one process. An action is one turn of the event
loop. `pump` takes the queue, slots, timers and phases it is run with, since it is
called from three places after different changes.

The modules of the server have one shape. A handler or a job is a record that holds
what it has read and will use after its next await; a save writes the paths that
differ from what was loaded onto whatever is stored by then (`saved`, `merged`); a
restart drops the records and keeps the documents. Where a handler saves several
documents, the order of the saves is a sequence of names (`confirmSteps`,
`redeemSteps`, `chargeSteps`) it goes through.

**FacilityBinding** has the facilities of one borrower; the indexer is one record
`indexer` with the phase of its tick. The chain is reduced to what these parts see:
`created` (the events), `window` (the events still polled), `slots` (the factory's
`activePool` per wallet). The statuses REQUESTED, ACTIVE and CLOSED of the schema
are never written by the server and are absent.

**Onboarding** follows an application from its admission to the CRO's final
confirmation. `offered` holds every request that some page has had a button for,
computed by the button conditions of `ApplicationReview.jsx` and
`AgreementOnboarding.jsx`, since a page may stay open in any number of tabs; a
handler in progress is known by its request and its write. `accepts` is what the
server checks, which for most requests is nothing.

**Financing** has the orders of one borrower. `FinancingRequest` has no
`interestDays`, so what the repayment code computes of interest is not a number and
saving it fails: `ProcessRepayment` records a failure and changes nothing else. The
validation and disbursement agents are started by nothing that runs and are absent;
a request goes from Pending to Disbursed by the CAD's confirmation.

**CreditMaintenance** has the fees for unused credit. A calculation goes through the
borrowers it loaded at its start; `failures`, `overlaps`, `earned` and `paid` are
history, which the properties need to say how much may go wrong and when.

**LenderAccess** has the codes, nonces and accounts of lenders. The conditional
updates of MongoDB (`findOneAndUpdate`) are one step; everything around them is
several. `admitted` and `accepted` are history.

**MCPool, MCFactory, MCFacility, ...** define the values and symmetries of the
instances. Runs with symmetry check invariants only, and in one case
(`EntitlementGrows`) an action property that quantifies over the symmetric set.
Definitions preceded by *Mutant:* are plausible bugs; nothing in the specifications
uses them. They show, substituted for the definition after them, that a run notices.

## 3. Runs

| Run | Question | Instance and why it is enough |
|---|---|---|
| `pool_lending` (MCPoolLending) | Do the drawdown book, the idle exemption and the whitelist stay consistent in any order of draws and repayments? | two references, so swap-and-pop moves an element; two wallets, one removed and added; days of two ticks, so a repayment can be early, on the day, late and after finality; breaker on and off. 172 thousand states |
| `pool_investors` (MCPoolInvestors) | Is any LP ever paid at another's expense? | two LPs with unequal amounts who join, leave and claim at any time, through maturity or default. `WAD` 100 against deposits of 4 and 8 makes shares that do not divide. 113 thousand states |
| `pool_recovery` (MCPoolRecovery) | Do default, rescue, partial settlement and the terminal split conserve principal and money, is the pool a CreditLine, and do the subgraph and the monitor tell the truth about it? | one drawdown of all or half the capital, drawn again under the same reference; payments of nothing, one unit and everything; a reserve that covers some of the loss; owner withdrawals in between. 164 thousand states |
| `factory` (MCFactory) | Do slots and pools stay in step, and can every pool earn its coupon? | two pools for two wallets, so a slot is reused and moved; terms that are coverable only with the right snap to midnight; bounds that change after creation; wallets written past the factory. 105 thousand states |
| `throttle` (MCThrottle) | Is a slot lost, or a request forgotten? | three requests for two slots, one retry, a gap of two ticks: a request waits for a slot, for the gap and for a retry. 11 thousand states |
| `facility` (MCFacility) | Can overlapping approvals, rejections, deployments and ticks skip a review or let the indexer share out a pool? | two facilities of one wallet, two handlers at once, one lost tick. 1.7 million states |
| `facility_wallets` (MCFacilityLive) | Does a facility keep the wallet its pool was made for, and is a live pool claimed? | two wallets bound in turn, one handler against the indexer. 396 thousand states |
| `onboarding` (MCOnboarding) | Can stale pages and crossing requests skip a sign-off? | a request of the staff and one of the borrower at once, each from a page as old as it may be; every request repeated at will. 949 thousand states |
| `financing` (MCFinancing) | Do profile, requests and deposits agree, and is what is late marked without taking back an announcement? | two requests for one order, the CAD's confirmation against the borrower and the watcher, three days around a due date, one restart anywhere. 305 thousand states |
| `maintenance` (MCMaintenance) | Is a period billed once and every fee billed or kept? | one borrower, a line that may be overdrawn, three calculations by two workers, one cut off or overlapping, with payments and marking in between. 648 thousand states |
| `access` (MCAccess) | Does a code let in one lender, and is it used up in vain? | two codes, two nonces, two wallets and an e-mail, two requests at once, one restart: two redemptions of one code, of one wallet, and of one nonce cross. 903 thousand states |
| `doc_move` (DocMove) | A statement of the repository that the code violates. | the instance of `onboarding` |

The properties are commented where they are stated (PoolProperties, Subgraph,
RiskMonitor and the modules of the other components).

Bounds. `MaxTime` stops the pool's clock after funding, tenure, the longest drawdown,
grace and default have all had time to happen. `MaxFees` allows no new drawdown
once that much has been collected, which bounds the revolving; it never forbids a
repayment, a settlement or a claim. `MaxPools` bounds creations on the chain,
`MaxFailures` the ticks that are lost. `MaxDay`, `MaxFailed`, `MaxRestarts` in
Financing, `MaxDay`, `MaxRuns`, `MaxMishaps` in CreditMaintenance and `MaxRestarts` in
LenderAccess bound days, useless repayments, restarts, calculations, and those of them
that go wrong. `Requests`, `Charges`, `Codes` and `Nonces` are finite sets of documents
that are made at most once. Onboarding takes no request after the final confirmation. Deadlock is
not checked: clocks stop at their bounds, a pool ends, a facility is cancelled, an
application is approved, all requests settle.

Three restrictions are of substance. In Financing the instance has one confirming
handler: two confirmations at once read the same `currentlyUtilized` and one
amount is lost, and a request is disbursed again that may have been marked meanwhile, so `BooksAgree`,
`FinancingTypeOK` and `NoticeKept` are false of two. In CreditMaintenance one
payment is under way at a time. In PoolContract's instances `WAD` and the day are
scaled down; what is lost is the size of rounding errors relative to amounts, not
the places where they happen. Integer overflow is not modelled: Solidity 0.8 reverts
on it, and `NoUnderflow` says that subtraction never does.

Fairness. *RpcThrottle*: weak fairness of a reply for each request sent (the
endpoint answers or the transport times out), of each retry (its `setTimeout` fires),
of the timers and of the clock; no fairness for new requests. *FacilityBinding*:
weak fairness of the indexer's steps, since `start()` sets an interval that outlives
every tick and a tick that throws is followed by another; the run of the liveness
property has no failing ticks, as a property that must hold against an endpoint that
fails for ever is not what the code promises. *Financing*: weak fairness of the
watcher's steps, which `setInterval` starts every hour and which catches what a
check throws. *CreditMaintenance*: weak fairness of the marking, which cron starts
every day. No handler, borrower or administrator is fair. `PoolIsClaimed` therefore
says nothing of pools whose slot was emptied or whose facility stopped waiting, and
`LateIsMarked` and `LateChargeMarked` hold of what nobody repays or pays in between.
The contracts have no fairness: nobody is obliged to call them, and no liveness is
claimed for them.

## 4. Proofs

| Module | Proves | Argument |
|---|---|---|
| PoolContractProofs | `Invariance`, and from it `TypeCorrect`, `DrawdownIndexCorrect`, `PrincipalConserved`, `ExemptionSound`, `CouponCoveredFirst`; `Implements`: `Spec => IsCreditLine` | `IInv == TypeOK /\ DrawdownIndex /\ LedgerInv(pool)`; a lemma per internal function on the storage it leaves, then one per action; under `IInv`, every action maps to an action of CreditLine or a stutter |
| PoolMoneyProofs | `MoneyInvariance`, and from it `PoolSolvent`, `PoolNoUnderflow`, `PoolClaims`, `PoolCredit`, `PoolClosed`, `PoolReceivers` | `IInv` with `BookSound` and `MoneyInv`, *money* below |
| | `ShareInvariance`, and from it `PoolEntitlement`, `PoolNoLpStarved` | `ShareInv` beside them, *shares* below |
| PoolGraphProofs | `PictureInvariance`, and from it `SubgraphFollowsPool`, `MonitorCorrect` | `PictureInv` beside the invariants of the contract, *the picture* below |
| SumTheorems | what a sum over a finite set is, keeps and bounds | bijections and partitions of finite sets |
| PoolFactoryProofs | `FactoryTypeCorrect`, `OnePoolPerSlot`, `SlotsFollowPools`, `CouponAlwaysCoverable` | one lemma per action; the coupon from `TermsSound`, that each pool's terms pass `sound` with the bounds and date it was created with |
| FacilityBindingProofs | `BindingTypeCorrect`, `ReviewTrailComplete`, `WalletStaysSettled`, `IndexerNeverClaimsTwice` | `BindingInv`, `TrailInv` and `ClaimInv`, below |
| ServerProofs, *Onboarding* | `StageInvariance`, and from it `OnboardingTypeCorrect`, `EveryStageSigned` | `StageInv`: what the profile, the pages and the handlers each rely on |
| FinancingProofs | `FinancingInvariance`, and from it `FinancingTypeCorrect`, `FinancingBooksAgree`, `FinancingNoticeKept` | `FinancingInv`, assuming `OneConfirmer`, below |
| ServerProofs, *Access* | `AccessInvariance`, and from it `AccessTypeCorrect`, `OneLenderLetIn`, `NoCodeWasted` | `AccessInv`, with a lemma per effect (claim, admit, clash, nothing) and one per action |
| ServerProofs, *Maintenance* | `MaintenanceInvariance`, and from it `MaintenanceTypeCorrect`, `PeriodBilledOnce`, `FeesNotLost` | `MaintenanceInv`, below |
| ServerProofs, *Throttle* | `ThrottleTypeCorrect`, `SlotPerRequest`, `NoSlotForgotten` | a pump is run in states where one slot or one pump may be missing (`PumpReady`) and makes up for it |

*The pool.* `PrincipalConservation` alone is not inductive: default and maturity
move undrawn capital to `collectedPrincipal`, which conserves the sum only when
nothing has moved it before, and a repayment adds to `availableToDd` or to
`collectedPrincipal` depending on what maturity did. `LedgerInv` says what the other
fields are in each status: capital is conserved once locked, nothing is lent before,
the exemption is within what is undrawn, nothing is reserved as surplus before the
coupon is covered (`ReservedOnlyAfterYield`, which only the proof states), and a pool
past its wind-down has nothing undrawn.
`DrawdownIndex` is needed beside it because a repayment removes a reference by index.

*Money.* `Solvency` and `NoUnderflow` need that no claim ever takes more than was collected,
and that is a sum over LPs of shares rounded down. `MoneyInv` says of each LP that
`claimedPrincipal * principal <= its principal * collectedPrincipal`, and alike for overrun and
bonus; `SumShares` adds these up: since the principals of the LPs sum to the pool's,
their claims sum to no more than what was collected. The checkpoints of the funding
credit sum exactly, because a deposit or a withdrawal first brings both the pool and the LP
to the same instant. `PoolSound` has the signs, the clock of the lock, what a closed pool is, and that the PSP is
free exactly when the pool has ended. `BookSound` counts the live drawdowns of each wallet and adds up what they
lent, which is what makes each repayment's subtraction possible. `SumOf` being a cardinality,
none of this needs an induction.

*Shares.* The yield an LP is due is a floor of a floor, and both the coupon and the
total of dollar-seconds change under it. `TermStep` has two kinds of step: a call
keeps the term and only collects more (`TermKept`), or a default or an early close cuts
it once, at a time before finality (`TermCut`). In both, what each LP is due (`Due`)
does not shrink, because before the cut the cap on its elapsed time makes it what it
would be due if the pool were cut now. `ShareInv` adds that nobody has claimed more
than that. `NoLpStarved` follows since the rounded-down shares of all LPs sum to at
most `WAD`.

*The picture.* `GraphFollowsPool` compares a few fields and is not inductive: a claim, for
one, stores the principal the subgraph last knew, which the contract must not have changed
meanwhile. `PictureInv` has four parts, each over the fields one kind of event
writes: the status and its times (`TermPicture`), the LPs (`LenderPicture`), the drawdowns, live
and repaid (`DrawPicture`), and what is out (`OutPicture`, an equality until a default or the close
writes off without an event). There is one lemma per handler on the fields it writes
and one per part on the storage it compares; a step of the contract then disturbs the parts of its events only. The indexed
specification takes steps of the contract (`IndexedPool`), so `FullInv` and `ShareInv` hold of it as
they stand. `MonitorCorrect` needs a fifth fact, `DrawTerms`: no live drawdown started after
today or runs for longer than the tenure, so an age past the tenure and the grace, in
whole days, is one at which the contract, in calendar days and by the drawdown's own
term, already charges (`DaysBetween`, `AlarmIsDue`).

*The factory.* `OneHolder` is inductive with the types. `SlotLifecycle` says of a pool
whose wallet only the factory has written that it is in its wallet's slot exactly
while it lives; a pool in `direct` keeps `OneHolder`. `CouponCoverable` compares two
floors; the inequality of `createPool` is scaled down to them by lemmas on quotients.

*The throttle.* Each reply gives back a slot and runs one pump, which sends one
request, or sets a timer, or finds nothing to do. `NoIdleSlot` (taken slots plus
owed pumps suffice for the slots or for the queue) survives because every step
makes at most one unit missing before the pump it runs.

*The facilities.* `ReviewTrail` is about stored documents and the hazard is in
handlers that save on old reads, so `TrailInv` says what a call may still rely on
at each await: a request's document does not exist yet and no other request has it;
an approval's document has the approvals that come before the status that was read;
everything after the CRO's approval, handler or indexer, is about a document with
that approval. The two facts that make this stable are that a step never takes an
approval back and never undoes the creation of a document (`Grows`).

*The indexer's claims.* `ClaimInv` is about the tick under way: from when it has found no holder
of a pool until it writes the facility it found, every facility with that pool has it from the administrator. Handlers
keep a pool, drop it or bind it for the administrator (`NoNewClaim`), and there is one tick at a time.

*Financing.* A confirmation reads the request and the profile, then saves profile, request and deposit
one after the other. `CallOK` says at each await that the request still waits, that
the profile is as it was read, and after its save that it has the amount
counted: so a restart in between leaves more utilized than drawn and never less. `LoadedOK` says what a poll of the
watcher may rely on: its documents may be old, their due dates are not, and what it has
marked is marked. Saves write changed paths only, so most steps touch neither (`Quiet`).
All of it assumes `OneConfirmer`. Of two confirmations of one request the second
disburses again what the watcher may have marked by then, and of any two the later overwrites
`currentlyUtilized`; then neither `BooksAgree` nor `FinancingTypeOK` nor `NoticeKept` is true.

*Maintenance.* `BilledOncePerPeriod` counts charges per borrower and day a period starts. A period
is open until a calculation loads its borrower; from then on some calculation may bill it, until it has. `BillInv`
says that charges stored, calculations that may still store one (`mayBill`) and the open period
(`open`) are together at most one, and one more for each calculation that failed or overlapped another.
What a calculation bills started before today, so the period it opens by
resetting the profile has no charge yet. `FeeInv` follows one borrower's fees through
the two saves of a charge: before the first, what is stored and billed makes up for what was earned; after it, what is billed
alone does, so that resetting what is stored loses nothing.

*Onboarding.* `NoStageSkipped` is about the stored profile, but a stale page or a handler
in progress may write any step it was once right about. `StageInv` gives each step, each
button and each request in progress the sign-offs that come before it (`atStep`, `onPage`,
`inHandler`). Sign-offs are only added, so what was sound when a page was loaded stays so
(`SoundGrows`), and whatever a request writes is sound with its own sign-off
(`WritesSound`, request by request). What pages offer is not enough for `approveFacility`, which none offers, and for
`acceptFacility`, which is offered too early: there the proof needs the server's checks.

*Access.* `OneLenderPerCode` follows from the code's `usedBy`, which is written by the
conditional update only: whoever holds a code past its claim, and whoever it has let in,
is its `usedBy` (`ClaimedInv`), and nobody holds, or was let in by, a code that can still
be claimed (`UnclaimedInv`). `CodeNotWasted` is itself part of the invariant: a request
that fails with a code in its hands finds its lender among those already let in.

Assumptions: `MathLibAssumption`, `PoolAssumption`, `BindingAssumption`,
`ThrottleAssumption` and the like, each stated where the constants are declared and
evaluated by TLC for every instance. They say what the factory checks of the terms, that
bounds are naturals, that the seeded wallet is a wallet, that sets are finite where
something is counted or summed, and that there is something to choose from. `OneConfirmer` is the only
hypothesis of a theorem besides these; `financing` runs with it.

Every invariant and every action property that a passing run checks is a theorem.
Model-checked only: the four liveness properties `EveryRequestSettles`, `PoolIsClaimed`,
`LateIsMarked` and `LateChargeMarked`, since liveness and ENABLED are out of the
prover's reach. No module declares a RECURSIVE operator, and none of the theorems needs
an induction over data.

## 5. Divergences

Shown by a run, `doc_move`: "Must cover every value the routes assign"
(`server/models/PSPProfile.js:345`). The CAD's button sends `KAM_FACILITY_REVIEW`
(`ApplicationReview.jsx:276`), `admin.js:725` assigns it, the schema does not list it and
the save throws: the application stays where it is. What goes on is the CAD's
`approve` (`admin.js:910`), for which no page has a button at that step.

Seen while modelling, without a run:

*Contracts.*

- A pool with its soft cap met that is first touched after the buffer fails
  (`_finalizeFunding`); `docs/PROTOCOL.md:168` has it activate.
- `docs/PROTOCOL.md:164` ends revolving at finality; a draw passes later on that day,
  since `executeDrawdown` compares days.
- The view of claimable yield says it returns what `claimYield` would pay at the same
  instant (`contracts/src/PoolContract.sol:1181`); a claim that closes the pool pays a
  bonus the view does not show.
- Grace is capped at the longest term, which `docs/PROTOCOL.md:49` does not mention.
- `_projectIdleFees` goes on for a pool that closed out of default, where the accrual
  it projects has stopped.
- Turning the overdue check off stores whether a drawdown was overdue at that moment
  (`PoolContract.sol:848`), which stays until an agent calls `setPaused`;
  `claimPrincipal` does not accrue the extension yield that `claimYield` does (line 618).
- `declareDefault` and the settlements reduce what is outstanding without an event the
  subgraph handles, which goes on showing it (`GraphFollowsPool` says so).
- `setPspWallet` called on a pool directly makes its end revert until it is undone;
  `contracts/test/MultipoolInvariants.t.sol:101` only tests the way through the factory.

*Facilities and wallets.*

- "One pool belongs to exactly one facility" (`server/workers/evmIndexer.js:187`) holds
  of the indexer (`IndexerClaimsOnce`) and not of confirm-pool-init (`poolTx.js:924`).
- `server/routes/walletAuth.js:174` blocks rebinding while a pool is live, on a field no
  schema has.

*Onboarding.*

- Sharing an agreement leaves the step as it is, so it may be shared again at any
  time; an acceptance names its type and not the document (`psp.js:981`).
- Pages that are left open move an approved application back, approve it twice, or
  save the borrower's profile as UnderReview over a rejection (`PUT /psp/profile`);
  `apply-limit` restarts the review with the agreements and the draft it had (`psp.js:399`).
- The AI scan may be started twice, and a crash leaves it SCANNING (`admin.js:376`).

*Financing.*

- `FinancingRequest` has no `interestDays` (`models/FinancingRequest.js:174`) and
  `repaymentAgent.js:54` computes with it: no repayment is ever recorded as made.
- The webhook that would start the validation looks an order up under the profile's id
  (`webhook.js:122`), which no order is stored under, so neither the validation nor the
  disbursement agent runs. The credit that `validate` shows the CAD binds nobody.
- Two submissions of one order both pass (`psp.js:601`), and two confirmations at once
  lose one amount of `currentlyUtilized`.

*Maintenance.*

- A borrower's trigger beside cron's calculation bills a period twice, or the later of
  the two overwrites what the other accumulated; running it twice a day accrues twice.
- Paying wipes what has accumulated since the charge was made; a charge paid while
  charges are being marked becomes Overdue again.

*Access.*

- "Atomic" (`legacyAuth.js:16`): the claim of the code is, the sign-up is not. A crash, or an
  e-mail registered meanwhile, uses the code up; signing up never sets `usedByLenderId`.
- A deletion that crosses a redemption removes the code of a lender who was let in.

*Subgraph and agent.*

- A reference that is drawn again replaces the entity of its former drawdown.
- The picture has no term of a drawdown, so the agent holds its age against the tenure
  and is late for shorter ones; it keeps CRITICAL alarms for drawdowns of a defaulted or
  closed pool, says *past finality* on the last day already, and *call finalizeFunding to
  activate* also after the buffer, when the call makes the pool fail.
- The agent's nested query of drawdowns has no `first` and returns a hundred of them.

## 6. What is left out, and the plan

Left out for good: the web applications but for the buttons above, mail, signatures and
tokens, the remote signer, seeds and deployment scripts, read-only routes and views,
the order book's demo data. They store or show what others compute, or are external
services behind one call; together they are most of the repository's lines.
`confirm-pool-init` and the indexer store a vault address beside the pool's; it is
always the same and is not modelled. Terms of a facility, notes and overrides are
data nothing here tells apart. Of the subgraph the totals that only grow and the
immutable entities are left out, of the agent the share of one borrower in all
facilities and unclaimed yield: nothing in a pool says whether they are right.

Next, in this order:

1. *Drawdown mirror*: the indexer's drawdown part and the exec route's retry against
   the contract (`evmIndexer.js:281`, `poolTx.js:677`).
2. *Proofs*: that coverability in the factory implies a full pool covers `yieldOwed` in
   PoolContract.
3. *Financing*: two confirmations at once, once the code serializes them; repayments,
   once their record can be saved.
4. *Pool*: no surplus in default, `collectedYield <= yieldOwed`, the idle window
   equals the tenure; the entitlement of an LP who claims principal before yield;
   idle fees billed lazily as a refinement of an eager ledger; the factory's
   pools as instances of CreditLine.
