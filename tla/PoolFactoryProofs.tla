------------------------- MODULE PoolFactoryProofs -------------------------
(***************************************************************************)
(* Theorems of PoolFactory: the slots of the PSPs follow the pools, and a  *)
(* pool that was created earns its coupon when it is drawn.                *)
(***************************************************************************)
EXTENDS PoolFactory, TLAPS

-----------------------------------------------------------------------------
(* Slots *)

\* approvePsp and revokePsp write a flag, and no slot.
LEMMA ApprovalStep ==
    ASSUME FactoryTypeOK, OneHolder, NEW w \in Wallets, approvePsp(w) \/ revokePsp(w)
    PROVE  /\ FactoryTypeOK' /\ OneHolder' /\ UNCHANGED <<pools, bounds, envelope>>
           /\ \A v \in Wallets : psps'[v].activePool = psps[v].activePool
<1>1. /\ UNCHANGED <<pools, bounds, envelope>>
      /\ \/ psps' = [psps EXCEPT ![w].approved = TRUE]
         \/ psps' = [psps EXCEPT ![w].approved = FALSE]
    BY DEF approvePsp, revokePsp
<1>2. psps' \in [Wallets -> PspRecord]
    BY <1>1 DEF FactoryTypeOK, PspRecord
<1>3. \A v \in Wallets : psps'[v].activePool = psps[v].activePool
    BY <1>1 DEF FactoryTypeOK, PspRecord
<1> QED
    BY <1>1, <1>2, <1>3 DEF FactoryTypeOK, OneHolder, LivePools

\* What reassignPspWallet does to the slots and to the wallets of the pools.
LEMMA Reassigned ==
    ASSUME FactoryTypeOK, OneHolder, NEW old \in Wallets, NEW new \in Wallets,
           reassignPspWallet(old, new)
    PROVE  /\ psps' \in [Wallets -> PspRecord]
           /\ psps[new].activePool = ZeroAddress
           /\ psps'[old].activePool = ZeroAddress
           /\ old # new => psps'[new].activePool = psps[old].activePool
           /\ \A v \in Wallets \ {old, new} : psps'[v] = psps[v]
           /\ DOMAIN pools' = DOMAIN pools
           /\ \A id \in DOMAIN pools :
                  pools'[id] = IF id = psps[old].activePool
                               THEN [pools[id] EXCEPT !.pspWallet = new] ELSE pools[id]
           /\ UNCHANGED <<bounds, envelope>>
<1> DEFINE a == psps[old].activePool
<1>1. /\ psps[new].activePool = ZeroAddress
      /\ psps' = [psps EXCEPT ![new] = [approved |-> TRUE, activePool |-> a],
                              ![old] = NoPsp]
      /\ pools' = IF a = ZeroAddress THEN pools ELSE [pools EXCEPT ![a].pspWallet = new]
      /\ UNCHANGED <<bounds, envelope>>
    BY DEF reassignPspWallet
<1>2. a \in PoolIds \cup {ZeroAddress} /\ (a # ZeroAddress => a \in DOMAIN pools)
    BY DEF FactoryTypeOK, PspRecord, OneHolder, LivePools
<1> HIDE DEF a
<1>3. /\ [approved |-> TRUE, activePool |-> a] \in PspRecord /\ NoPsp \in PspRecord
      /\ NoPsp.activePool = ZeroAddress
    BY <1>2 DEF PspRecord, NoPsp
<1>4. /\ psps' \in [Wallets -> PspRecord]
      /\ psps'[old] = NoPsp
      /\ old # new => psps'[new].activePool = a
      /\ \A v \in Wallets \ {old, new} : psps'[v] = psps[v]
    BY <1>1, <1>3 DEF FactoryTypeOK
<1>5. ZeroAddress \notin DOMAIN pools
    BY FactoryAssumption DEF FactoryTypeOK
<1>6. /\ DOMAIN pools' = DOMAIN pools
      /\ \A id \in DOMAIN pools :
             pools'[id] = IF id = a THEN [pools[id] EXCEPT !.pspWallet = new] ELSE pools[id]
    BY <1>1, <1>2, <1>5
<1> QED
    BY <1>1, <1>3, <1>4, <1>6 DEF a

\* A pool whose wallet the multisig writes itself.
DirectlyWritten(r, w) == [r EXCEPT !.pspWallet = w, !.direct = TRUE]

\* A step that only writes wallets of pools.
LEMMA WalletsWritten ==
    ASSUME FactoryTypeOK, NEW w \in Wallets,
           DOMAIN pools' = DOMAIN pools,
           \A id \in DOMAIN pools :
               \/ pools'[id] = pools[id]
               \/ pools'[id] = [pools[id] EXCEPT !.pspWallet = w]
               \/ pools'[id] = DirectlyWritten(pools[id], w)
    PROVE  /\ \A id \in DOMAIN pools' : pools'[id] \in PoolRecord
           /\ LivePools' = LivePools
<1>1. \A r \in PoolRecord : /\ [r EXCEPT !.pspWallet = w] \in PoolRecord
                            /\ [r EXCEPT !.pspWallet = w].status = r.status
                            /\ DirectlyWritten(r, w) \in PoolRecord
                            /\ DirectlyWritten(r, w).status = r.status
    BY DEF PoolRecord, DirectlyWritten
<1>2. \A id \in DOMAIN pools : pools[id] \in PoolRecord
    BY DEF FactoryTypeOK
<1>3. \A id \in DOMAIN pools : pools'[id] \in PoolRecord /\ pools'[id].status = pools[id].status
    BY <1>1, <1>2
<1> QED
    BY <1>3 DEF LivePools

\* The pool of the old wallet is in the slot of the new one, and nowhere else.
LEMMA ReassignStep ==
    ASSUME FactoryTypeOK, OneHolder, NEW old \in Wallets, NEW new \in Wallets,
           reassignPspWallet(old, new)
    PROVE  FactoryTypeOK' /\ OneHolder'
<1>1. LivePools' = LivePools /\ \A id \in DOMAIN pools' : pools'[id] \in PoolRecord
  <2>1. \A id \in DOMAIN pools :
            pools'[id] = pools[id] \/ pools'[id] = [pools[id] EXCEPT !.pspWallet = new]
      BY Reassigned
  <2> QED
      BY <2>1, Reassigned, WalletsWritten
<1>2. FactoryTypeOK'
    BY <1>1, Reassigned DEF FactoryTypeOK
<1>3. OneHolder'
    BY <1>1, Reassigned DEF OneHolder
<1> QED
    BY <1>2, <1>3

\* A direct write of a wallet moves no slot.
LEMMA DirectStep ==
    ASSUME FactoryTypeOK, OneHolder, NEW id \in DOMAIN pools, NEW w \in DirectWallets,
           setPspWallet(id, w)
    PROVE  FactoryTypeOK' /\ OneHolder'
<1>1. /\ DOMAIN pools' = DOMAIN pools
      /\ \A i \in DOMAIN pools :
             pools'[i] = IF i = id THEN DirectlyWritten(pools[i], w) ELSE pools[i]
      /\ UNCHANGED <<psps, bounds, envelope>>
    BY DEF setPspWallet, DirectlyWritten
<1>2. w \in Wallets
    BY FactoryAssumption
<1> QED
    BY <1>1, <1>2, WalletsWritten DEF FactoryTypeOK, OneHolder

\* What createPool does to the slots and to the pools.
LEMMA Created ==
    ASSUME FactoryTypeOK, NEW id \in PoolIds, NEW w \in Wallets, NEW terms \in Terms,
           NEW t \in CreationTimes, createPool(id, w, terms, t)
    PROVE  /\ id \notin DOMAIN pools
           /\ sound(terms, bounds, t)
           /\ psps[w].activePool = ZeroAddress
           /\ psps' \in [Wallets -> PspRecord]
           /\ psps'[w].activePool = id
           /\ \A v \in Wallets \ {w} : psps'[v] = psps[v]
           /\ DOMAIN pools' = DOMAIN pools \cup {id}
           /\ \A i \in DOMAIN pools : pools'[i] = pools[i]
           /\ pools'[id] \in PoolRecord
           /\ pools'[id].status = "Funding" /\ pools'[id].pspWallet = w
           /\ pools'[id].terms = terms /\ pools'[id].bounds = bounds
           /\ pools'[id].createdAt = t /\ ~pools'[id].direct
           /\ UNCHANGED <<bounds, envelope>>
BY DEF createPool, register, FactoryTypeOK, PspRecord, PoolRecord, LiveStatuses

\* A new pool enters the slot of its PSP, which was empty.
LEMMA CreateStep ==
    ASSUME FactoryTypeOK, OneHolder, NEW id \in PoolIds, NEW w \in Wallets,
           NEW terms \in Terms, NEW t \in CreationTimes, createPool(id, w, terms, t)
    PROVE  FactoryTypeOK' /\ OneHolder'
<1>1. /\ id \notin DOMAIN pools
      /\ psps[w].activePool = ZeroAddress
      /\ psps' \in [Wallets -> PspRecord]
      /\ psps'[w].activePool = id
      /\ \A v \in Wallets \ {w} : psps'[v] = psps[v]
      /\ DOMAIN pools' = DOMAIN pools \cup {id}
      /\ \A i \in DOMAIN pools : pools'[i] = pools[i]
      /\ pools'[id].status = "Funding" /\ pools'[id] \in PoolRecord
      /\ UNCHANGED <<bounds, envelope>>
    BY Created
<1>2. FactoryTypeOK'
    BY <1>1 DEF FactoryTypeOK
<1>3. LivePools' = LivePools \cup {id}
    BY <1>1 DEF LivePools, LiveStatuses
<1>4. ZeroAddress # id /\ id \notin LivePools
    BY <1>1, FactoryAssumption DEF LivePools
<1>5. OneHolder'
  <2>1. \A v \in Wallets : psps'[v].activePool # ZeroAddress
                               => psps'[v].activePool \in LivePools'
      BY <1>1, <1>3 DEF OneHolder
  <2>2. \A u, v \in Wallets :
            psps'[u].activePool = psps'[v].activePool /\ psps'[u].activePool # ZeroAddress
                => u = v
      BY <1>1, <1>4 DEF OneHolder
  <2>3. \A i \in LivePools' : \E v \in Wallets : psps'[v].activePool = i
    <3>1. \A i \in LivePools : i # ZeroAddress
        BY FactoryAssumption DEF LivePools, FactoryTypeOK
    <3> QED
        BY <1>1, <1>3, <3>1 DEF OneHolder
  <2> QED
      BY <2>1, <2>2, <2>3 DEF OneHolder
<1> QED
    BY <1>2, <1>5

\* What a move of a pool does to its status and to the slot it is released from.
LEMMA Moved ==
    ASSUME FactoryTypeOK, NEW id \in DOMAIN pools, NEW s \in LiveStatuses \cup EndStatuses,
           poolMoves(id, s)
    PROVE  LET w == pools[id].pspWallet
           IN  /\ w \in Wallets /\ id \in LivePools
               /\ DOMAIN pools' = DOMAIN pools
               /\ \A i \in DOMAIN pools \ {id} : pools'[i] = pools[i]
               /\ pools'[id] = [pools[id] EXCEPT !.status = s]
               /\ pools'[id] \in PoolRecord
               /\ LivePools' = IF s \in EndStatuses THEN LivePools \ {id} ELSE LivePools
               /\ UNCHANGED <<bounds, envelope>>
               /\ IF s \in EndStatuses
                  THEN /\ psps[w].activePool = id
                       /\ psps' \in [Wallets -> PspRecord]
                       /\ psps'[w].activePool = ZeroAddress
                       /\ \A v \in Wallets \ {w} : psps'[v] = psps[v]
                  ELSE UNCHANGED psps
<1> DEFINE w == pools[id].pspWallet
<1>1. pools[id] \in PoolRecord /\ w \in Wallets
    BY DEF FactoryTypeOK, PoolRecord
<1>2. id \in LivePools
    BY DEF poolMoves, Moves, LivePools, LiveStatuses
<1>3. /\ DOMAIN pools' = DOMAIN pools
      /\ \A i \in DOMAIN pools \ {id} : pools'[i] = pools[i]
      /\ pools'[id] = [pools[id] EXCEPT !.status = s]
    BY DEF poolMoves
<1>4. pools'[id] \in PoolRecord /\ pools'[id].status = s
    BY <1>1, <1>3 DEF PoolRecord
<1>5. LivePools' = IF s \in EndStatuses THEN LivePools \ {id} ELSE LivePools
    BY <1>2, <1>3, <1>4 DEF LivePools, LiveStatuses, EndStatuses
<1>6. IF s \in EndStatuses
      THEN psps[w].activePool = id /\ psps' = [psps EXCEPT ![w].activePool = ZeroAddress]
      ELSE UNCHANGED psps
    BY DEF poolMoves, releasePsp
<1> HIDE DEF w
<1>7. s \in EndStatuses => /\ psps' \in [Wallets -> PspRecord]
                           /\ psps'[w].activePool = ZeroAddress
                           /\ \A v \in Wallets \ {w} : psps'[v] = psps[v]
    BY <1>1, <1>6 DEF FactoryTypeOK, PspRecord
<1> QED
    BY <1>1, <1>2, <1>3, <1>4, <1>5, <1>6, <1>7 DEF w, poolMoves

\* A pool that ends leaves the one slot it was in.
LEMMA MoveStep ==
    ASSUME FactoryTypeOK, OneHolder, NEW id \in DOMAIN pools,
           NEW s \in LiveStatuses \cup EndStatuses, poolMoves(id, s)
    PROVE  FactoryTypeOK' /\ OneHolder'
<1> DEFINE w == pools[id].pspWallet
<1>1. /\ w \in Wallets /\ id \in LivePools
      /\ DOMAIN pools' = DOMAIN pools
      /\ \A i \in DOMAIN pools \ {id} : pools'[i] = pools[i]
      /\ pools'[id] \in PoolRecord
      /\ LivePools' = IF s \in EndStatuses THEN LivePools \ {id} ELSE LivePools
      /\ UNCHANGED <<bounds, envelope>>
    BY Moved
<1>2. IF s \in EndStatuses
      THEN /\ psps[w].activePool = id
           /\ psps' \in [Wallets -> PspRecord]
           /\ psps'[w].activePool = ZeroAddress
           /\ \A v \in Wallets \ {w} : psps'[v] = psps[v]
      ELSE UNCHANGED psps
    BY Moved
<1> HIDE DEF w
<1>3. FactoryTypeOK'
    BY <1>1, <1>2 DEF FactoryTypeOK
<1>4. OneHolder'
    BY <1>1, <1>2 DEF OneHolder
<1> QED
    BY <1>3, <1>4

\* No call of the factory, of its pools or past them empties a slot of a live pool.
LEMMA FactoryNext ==
    FactoryTypeOK /\ OneHolder /\ [Next]_factoryVars => FactoryTypeOK' /\ OneHolder'
<1> SUFFICES ASSUME FactoryTypeOK, OneHolder, [Next]_factoryVars
             PROVE  FactoryTypeOK' /\ OneHolder'
    OBVIOUS
<1>1. CASE MultisigNext
  <2>1. ASSUME NEW b \in Bounds, setBounds(b) PROVE FactoryTypeOK' /\ OneHolder'
      BY <2>1 DEF setBounds, FactoryTypeOK, OneHolder, LivePools
  <2>2. ASSUME NEW e \in Envelopes, setEnvelope(e) PROVE FactoryTypeOK' /\ OneHolder'
      BY <2>2 DEF setEnvelope, FactoryTypeOK, OneHolder, LivePools
  <2> QED
      BY <1>1, <2>1, <2>2, ApprovalStep, ReassignStep, DirectStep DEF MultisigNext
<1>2. CASE DeployerNext
    BY <1>2, CreateStep DEF DeployerNext
<1>3. CASE PoolNext
    BY <1>3, MoveStep DEF PoolNext
<1>4. CASE UNCHANGED factoryVars
    BY <1>4 DEF factoryVars, FactoryTypeOK, OneHolder, LivePools
<1> QED
    BY <1>1, <1>2, <1>3, <1>4 DEF Next

-----------------------------------------------------------------------------
(* The wallet a pool knows *)

\* The pool that reassignPspWallet moves learns of its new wallet in the same step.
LEMMA ReassignKeepsSlots ==
    ASSUME FactoryTypeOK, OneHolder, SlotLifecycle, NEW old \in Wallets, NEW new \in Wallets,
           reassignPspWallet(old, new)
    PROVE  SlotLifecycle'
<1> DEFINE a == psps[old].activePool
<1>1. /\ psps[new].activePool = ZeroAddress
      /\ psps'[old].activePool = ZeroAddress
      /\ old # new => psps'[new].activePool = a
      /\ \A v \in Wallets \ {old, new} : psps'[v] = psps[v]
      /\ DOMAIN pools' = DOMAIN pools
      /\ \A id \in DOMAIN pools :
             pools'[id] = IF id = a THEN [pools[id] EXCEPT !.pspWallet = new] ELSE pools[id]
    BY Reassigned
<1>2. LivePools' = LivePools
  <2>1. \A id \in DOMAIN pools :
            pools'[id] = pools[id] \/ pools'[id] = [pools[id] EXCEPT !.pspWallet = new]
      BY <1>1
  <2> QED
      BY <1>1, <2>1, WalletsWritten
<1>3. a # ZeroAddress => a \in LivePools
    BY DEF OneHolder
<1> HIDE DEF a
<1>4. \A id \in DOMAIN pools :
          /\ id # ZeroAddress
          /\ pools[id].pspWallet \in Wallets
          /\ [pools[id] EXCEPT !.pspWallet = new].pspWallet = new
          /\ [pools[id] EXCEPT !.pspWallet = new].direct = pools[id].direct
    BY FactoryAssumption DEF FactoryTypeOK, PoolRecord
<1> SUFFICES ASSUME NEW id \in DOMAIN pools, ~pools[id].direct
             PROVE  psps'[pools'[id].pspWallet].activePool = id <=> id \in LivePools
    BY <1>1, <1>2, <1>4 DEF SlotLifecycle
<1> DEFINE v == pools[id].pspWallet
<1>5. psps[v].activePool = id <=> id \in LivePools
    BY DEF SlotLifecycle
<1>6. CASE id = a
  <2>1. old # new
      BY <1>1, <1>4, <1>6 DEF a
  <2> QED
      BY <1>1, <1>3, <1>4, <1>6, <2>1
<1>7. CASE id # a
  <2>1. pools'[id].pspWallet = v /\ v \in Wallets /\ id # ZeroAddress
      BY <1>1, <1>4, <1>7
  <2> HIDE DEF v
  <2>2. CASE v \in Wallets \ {old, new}
      BY <1>1, <1>5, <2>1, <2>2
  <2>3. CASE v = old
      BY <1>1, <1>5, <1>7, <2>1, <2>3 DEF a
  <2>4. CASE v = new /\ v # old
      BY <1>1, <1>5, <1>7, <2>1, <2>4
  <2> QED
      BY <2>1, <2>2, <2>3, <2>4
<1> QED
    BY <1>6, <1>7

\* The wallet of a new pool is the one whose slot it enters.
LEMMA CreateKeepsSlots ==
    ASSUME FactoryTypeOK, OneHolder, SlotLifecycle, NEW id \in PoolIds, NEW w \in Wallets,
           NEW terms \in Terms, NEW t \in CreationTimes, createPool(id, w, terms, t)
    PROVE  SlotLifecycle'
<1>1. /\ id \notin DOMAIN pools
      /\ psps[w].activePool = ZeroAddress
      /\ psps'[w].activePool = id
      /\ \A v \in Wallets \ {w} : psps'[v] = psps[v]
      /\ DOMAIN pools' = DOMAIN pools \cup {id}
      /\ \A i \in DOMAIN pools : pools'[i] = pools[i]
      /\ pools'[id].status = "Funding" /\ pools'[id].pspWallet = w
    BY Created
<1>2. LivePools' = LivePools \cup {id}
    BY <1>1 DEF LivePools, LiveStatuses
<1>3. \A i \in DOMAIN pools : i # ZeroAddress /\ pools[i].pspWallet \in Wallets
    BY FactoryAssumption DEF FactoryTypeOK, PoolRecord
<1>4. \A i \in DOMAIN pools :
          ~pools'[i].direct
              => (psps'[pools'[i].pspWallet].activePool = i <=> i \in LivePools')
    BY <1>1, <1>2, <1>3 DEF SlotLifecycle
<1> QED
    BY <1>1, <1>2, <1>4 DEF SlotLifecycle

\* A pool that ends leaves the slot of the wallet it knows.
LEMMA MoveKeepsSlots ==
    ASSUME FactoryTypeOK, OneHolder, SlotLifecycle, NEW id \in DOMAIN pools,
           NEW s \in LiveStatuses \cup EndStatuses, poolMoves(id, s)
    PROVE  SlotLifecycle'
<1> DEFINE w == pools[id].pspWallet
<1>1. /\ w \in Wallets /\ id \in LivePools
      /\ DOMAIN pools' = DOMAIN pools
      /\ \A i \in DOMAIN pools \ {id} : pools'[i] = pools[i]
      /\ pools'[id] = [pools[id] EXCEPT !.status = s]
      /\ LivePools' = IF s \in EndStatuses THEN LivePools \ {id} ELSE LivePools
    BY Moved
<1>2. IF s \in EndStatuses
      THEN /\ psps[w].activePool = id
           /\ psps'[w].activePool = ZeroAddress
           /\ \A v \in Wallets \ {w} : psps'[v] = psps[v]
      ELSE UNCHANGED psps
    BY Moved
<1>3. \A i \in DOMAIN pools :
          /\ pools'[i].pspWallet = pools[i].pspWallet /\ pools[i].pspWallet \in Wallets
          /\ pools'[i].direct = pools[i].direct
    BY <1>1 DEF FactoryTypeOK, PoolRecord
<1>4. \A i \in DOMAIN pools : i # ZeroAddress
    BY FactoryAssumption DEF FactoryTypeOK
<1> HIDE DEF w
<1> SUFFICES ASSUME NEW i \in DOMAIN pools, ~pools[i].direct
             PROVE  psps'[pools[i].pspWallet].activePool = i <=> i \in LivePools'
    BY <1>1, <1>3 DEF SlotLifecycle
<1>5. psps[pools[i].pspWallet].activePool = i <=> i \in LivePools
    BY DEF SlotLifecycle
<1>6. CASE i = id
    BY <1>1, <1>2, <1>4, <1>5, <1>6 DEF w
<1>7. CASE i # id
    BY <1>1, <1>2, <1>3, <1>4, <1>5, <1>7
<1> QED
    BY <1>6, <1>7

\* A direct write excepts the pool it writes, and moves no slot of another.
LEMMA DirectKeepsSlots ==
    ASSUME FactoryTypeOK, SlotLifecycle, NEW id \in DOMAIN pools, NEW w \in DirectWallets,
           setPspWallet(id, w)
    PROVE  SlotLifecycle'
<1>1. /\ DOMAIN pools' = DOMAIN pools
      /\ \A i \in DOMAIN pools :
             pools'[i] = IF i = id THEN DirectlyWritten(pools[i], w) ELSE pools[i]
      /\ UNCHANGED psps
    BY DEF setPspWallet, DirectlyWritten
<1>2. w \in Wallets
    BY FactoryAssumption
<1>3. LivePools' = LivePools
    BY <1>1, <1>2, WalletsWritten
<1>4. pools'[id].direct
    BY <1>1 DEF DirectlyWritten, FactoryTypeOK, PoolRecord
<1> QED
    BY <1>1, <1>3, <1>4 DEF SlotLifecycle

\* While the multisig leaves the wallet of a pool to the factory, the wallet the pool knows
\* is the one whose slot it holds.
LEMMA SlotsNext ==
    ASSUME FactoryTypeOK, OneHolder, SlotLifecycle, [Next]_factoryVars
    PROVE  SlotLifecycle'
<1>1. CASE MultisigNext
  <2>1. ASSUME NEW w \in Wallets, approvePsp(w) \/ revokePsp(w) PROVE SlotLifecycle'
    <3>1. /\ pools' = pools
          /\ \A v \in Wallets : psps'[v].activePool = psps[v].activePool
        BY <2>1, ApprovalStep
    <3>2. \A id \in DOMAIN pools : pools[id].pspWallet \in Wallets
        BY DEF FactoryTypeOK, PoolRecord
    <3> QED
        BY <3>1, <3>2 DEF SlotLifecycle, LivePools
  <2>2. ASSUME NEW b \in Bounds, setBounds(b) PROVE SlotLifecycle'
      BY <2>2 DEF setBounds, SlotLifecycle, LivePools
  <2>3. ASSUME NEW e \in Envelopes, setEnvelope(e) PROVE SlotLifecycle'
      BY <2>3 DEF setEnvelope, SlotLifecycle, LivePools
  <2> QED
      BY <1>1, <2>1, <2>2, <2>3, ReassignKeepsSlots, DirectKeepsSlots DEF MultisigNext
<1>2. CASE DeployerNext
    BY <1>2, CreateKeepsSlots DEF DeployerNext
<1>3. CASE PoolNext
    BY <1>3, MoveKeepsSlots DEF PoolNext
<1>4. CASE UNCHANGED factoryVars
    BY <1>4 DEF factoryVars, SlotLifecycle, LivePools
<1> QED
    BY <1>1, <1>2, <1>3, <1>4 DEF Next

-----------------------------------------------------------------------------
(* The coupon *)

\* A quotient is the largest factor that fits.
LEMMA Quotient ==
    ASSUME NEW x \in Nat, NEW d \in Nat \ {0}
    PROVE  /\ x \div d \in Nat /\ d * (x \div d) <= x
           /\ \A q \in Nat : d * q <= x => q <= x \div d
<1>1. x \div d \in Int /\ x % d \in 0 .. d - 1 /\ x = d * (x \div d) + (x % d)
    BY Z3
<1> DEFINE p == x \div d
           r == x % d
<1>2. p \in Int /\ r \in 0 .. d - 1 /\ x = d * p + r
    BY <1>1
<1> HIDE DEF p, r
<1>3. p \in Nat
    BY <1>2, SMTT(30)
<1>4. d * p <= x
    BY <1>2, SMTT(30)
<1>5. ASSUME NEW q \in Nat, d * q <= x PROVE q <= p
  <2>1. CASE q > p
    <3>1. PICK k \in Nat : q = p + 1 + k
        BY <1>2, <1>3, <2>1
    <3>2. d * q = d * p + d + d * k
        BY <1>3, <3>1, SMTT(30)
    <3>3. d * k >= 0 /\ d * p \in Int /\ d * k \in Int
        BY <1>3, SMTT(30)
    <3> QED
        BY <1>2, <1>5, <3>2, <3>3
  <2> QED
      BY <1>3, <2>1
<1> QED
    BY <1>3, <1>4, <1>5 DEF p

\* A ratio of at most one survives the scaling by WAD and by the year, and the rounding.
LEMMA ScaledDown ==
    ASSUME NEW x \in Nat, NEW z \in Nat, NEW W \in Nat \ {0}, NEW Y \in Nat \ {0}, x <= z * Y
    PROVE  x \div (W * Y) <= z \div W
<1>1. W * Y \in Nat \ {0}
    BY Z3
<1> DEFINE d == W * Y
           q == x \div d
<1>2. q \in Nat /\ d * q <= x
    BY <1>1, Quotient
<1> HIDE DEF q
<1>3. W * q <= z
  <2>1. (W * q) * Y <= z * Y
    <3>1. d * q = (W * q) * Y
        BY <1>2, Z3
    <3> QED
        BY <1>2, <3>1, SMTT(30) DEF d
  <2>2. W * q \in Nat
      BY <1>2, Z3
  <2> DEFINE u == W * q
  <2> HIDE DEF u
  <2>3. \A i, j \in Nat : i * Y <= j * Y => i <= j
      BY Z3
  <2>4. u \in Nat /\ u * Y <= z * Y
      BY <2>1, <2>2 DEF u
  <2>5. u <= z
      BY <2>3, <2>4
  <2> QED
      BY <2>5 DEF u
<1>4. q <= z \div W
    BY <1>2, <1>3, Quotient
<1> QED
    BY <1>4 DEF q

\* The terms a pool was created on were sound at the time of its creation.
TermsSound == \A id \in DOMAIN pools : sound(pools[id].terms, pools[id].bounds, pools[id].createdAt)

\* After creation the terms of a pool, its bounds and its date are never written.
LEMMA TermsNext ==
    ASSUME FactoryTypeOK, OneHolder, TermsSound, [Next]_factoryVars
    PROVE  TermsSound'
<1> DEFINE SameTerms(q, r) ==
               q.terms = r.terms /\ q.bounds = r.bounds /\ q.createdAt = r.createdAt
           Kept == /\ DOMAIN pools' = DOMAIN pools
                   /\ \A id \in DOMAIN pools : SameTerms(pools'[id], pools[id])
<1>1. \A r \in PoolRecord : /\ \A w : SameTerms([r EXCEPT !.pspWallet = w], r)
                            /\ \A w : SameTerms(DirectlyWritten(r, w), r)
                            /\ \A s : SameTerms([r EXCEPT !.status = s], r)
    BY DEF PoolRecord, DirectlyWritten
<1>2. Kept => TermsSound'
    BY DEF TermsSound
<1>3. \A id \in DOMAIN pools : pools[id] \in PoolRecord
    BY DEF FactoryTypeOK
<1>4. CASE MultisigNext
  <2>1. ASSUME NEW w \in Wallets, approvePsp(w) \/ revokePsp(w) PROVE Kept
      BY <2>1 DEF approvePsp, revokePsp
  <2>2. ASSUME NEW old \in Wallets, NEW new \in Wallets, reassignPspWallet(old, new) PROVE Kept
    <3>1. /\ DOMAIN pools' = DOMAIN pools
          /\ \A id \in DOMAIN pools :
                 pools'[id] = IF id = psps[old].activePool
                              THEN [pools[id] EXCEPT !.pspWallet = new] ELSE pools[id]
        BY <2>2, Reassigned
    <3> HIDE DEF SameTerms
    <3>2. \A id \in DOMAIN pools : SameTerms(pools'[id], pools[id])
      <4>1. \A r : SameTerms(r, r)
          BY DEF SameTerms
      <4> QED
          BY <1>1, <1>3, <3>1, <4>1
    <3> QED
        BY <3>1, <3>2
  <2>3. ASSUME NEW id \in DOMAIN pools, NEW w \in DirectWallets, setPspWallet(id, w) PROVE Kept
    <3>1. /\ DOMAIN pools' = DOMAIN pools
          /\ \A i \in DOMAIN pools :
                 pools'[i] = IF i = id THEN DirectlyWritten(pools[i], w) ELSE pools[i]
        BY <2>3 DEF setPspWallet, DirectlyWritten
    <3> HIDE DEF SameTerms
    <3>2. \A i \in DOMAIN pools : SameTerms(pools'[i], pools[i])
      <4>1. \A r : SameTerms(r, r)
          BY DEF SameTerms
      <4> QED
          BY <1>1, <1>3, <3>1, <4>1
    <3> QED
        BY <3>1, <3>2
  <2>4. ASSUME NEW b \in Bounds, setBounds(b) PROVE Kept
      BY <2>4 DEF setBounds
  <2>5. ASSUME NEW e \in Envelopes, setEnvelope(e) PROVE Kept
      BY <2>5 DEF setEnvelope
  <2> HIDE DEF Kept
  <2> QED
      BY <1>2, <1>4, <2>1, <2>2, <2>3, <2>4, <2>5 DEF MultisigNext
<1>5. CASE DeployerNext
  <2>1. PICK id \in PoolIds, w \in Wallets, terms \in Terms, t \in CreationTimes :
            createPool(id, w, terms, t)
      BY <1>5 DEF DeployerNext
  <2>2. /\ sound(terms, bounds, t) /\ id \notin DOMAIN pools
        /\ DOMAIN pools' = DOMAIN pools \cup {id}
        /\ \A i \in DOMAIN pools : pools'[i] = pools[i]
        /\ pools'[id].terms = terms /\ pools'[id].bounds = bounds
        /\ pools'[id].createdAt = t
      BY <2>1, Created
  <2>3. sound(pools'[id].terms, pools'[id].bounds, pools'[id].createdAt)
      BY <2>2
  <2> QED
      BY <2>2, <2>3 DEF TermsSound
<1>6. CASE PoolNext
  <2>1. PICK id \in DOMAIN pools, s \in LiveStatuses \cup EndStatuses : poolMoves(id, s)
      BY <1>6 DEF PoolNext
  <2>2. Kept
    <3>1. /\ DOMAIN pools' = DOMAIN pools
          /\ \A i \in DOMAIN pools \ {id} : pools'[i] = pools[i]
          /\ pools'[id] = [pools[id] EXCEPT !.status = s]
        BY <2>1, Moved
    <3> HIDE DEF SameTerms
    <3>2. \A i \in DOMAIN pools : SameTerms(pools'[i], pools[i])
      <4>1. \A r : SameTerms(r, r)
          BY DEF SameTerms
      <4> QED
          BY <1>1, <1>3, <3>1, <4>1
    <3> QED
        BY <3>1, <3>2
  <2> QED
      BY <1>2, <2>2
<1>7. CASE UNCHANGED factoryVars
    BY <1>7 DEF factoryVars, TermsSound
<1> QED
    BY <1>4, <1>5, <1>6, <1>7 DEF Next

\* Sound terms are coverable: the APR check of createPool is taken over the latest lock and
\* the grace days, and the coupon over the latest lock only.
LEMMA SoundIsCoverable ==
    ASSUME NEW p \in TermsType, NEW b \in BoundsType, NEW t \in Nat, sound(p, b, t)
    PROVE  LET term   == p.tenure * SECONDS_PER_DAY
               latest == p.fundingDurationSecs + snapSecs(p, t) + b.fundingExecBuffer
           IN  mulDiv(p.hardCap * (latest + term), p.aprAnnual, WAD * SECONDS_PER_YEAR)
                   <= mulDiv(p.hardCap, p.utilizedRateDaily * p.tenure, WAD)
<1> DEFINE D      == SECONDS_PER_DAY
           n      == p.tenure
           g      == p.penaltyGraceDays
           apr    == p.aprAnnual
           u      == p.utilizedRateDaily
           cap    == p.hardCap
           term   == n * D
           latest == p.fundingDurationSecs + snapSecs(p, t) + b.fundingExecBuffer
           Y      == SECONDS_PER_YEAR
<1>1. /\ n \in Nat /\ g \in Nat /\ apr \in Nat /\ u \in Nat /\ cap \in Nat
      /\ D \in Nat \ {0} /\ DAYS_PER_YEAR \in Nat \ {0} /\ WAD \in Nat \ {0}
    BY MathLibAssumption DEF TermsType
<1>2. snapSecs(p, t) \in Nat
  <2>1. (t + p.fundingDurationSecs) % D \in 0 .. D - 1
      BY MathLibAssumption DEF TermsType
  <2> QED
      BY <1>1, <2>1 DEF snapSecs
<1>3. latest \in Nat
    BY <1>2 DEF TermsType, BoundsType
<1>4. maxTenureSecs(p, b, t) = latest + (n + g) * D
    BY DEF maxTenureSecs
<1>5. apr * (latest + (n + g) * D) <= u * DAYS_PER_YEAR * n * D
    BY <1>4 DEF sound
<1>6. Y = DAYS_PER_YEAR * D /\ Y \in Nat \ {0}
  <2>1. \A i, j \in Nat \ {0} : i * j \in Nat \ {0}
      BY Z3
  <2> QED
      BY <1>1, <2>1 DEF SECONDS_PER_YEAR
<1> HIDE DEF D, n, g, apr, u, cap, latest, Y
<1>7. apr * (latest + term) <= (u * n) * Y
  <2>1. apr * (latest + term) <= apr * (latest + (n + g) * D)
      BY <1>1, <1>3, Z3
  <2>2. u * DAYS_PER_YEAR * n * D = (u * n) * Y
      BY <1>1, <1>6, Z3
  <2>3. apr * (latest + term) \in Nat /\ apr * (latest + (n + g) * D) \in Nat
            /\ (u * n) * Y \in Nat
      BY <1>1, <1>3, <1>6, Z3
  <2> QED
      BY <1>5, <2>1, <2>2, <2>3
<1>8. (cap * (latest + term)) * apr <= (cap * (u * n)) * Y
  <2>1. (cap * (latest + term)) * apr = cap * (apr * (latest + term))
      BY <1>1, <1>3, Z3
  <2>2. (cap * (u * n)) * Y = cap * ((u * n) * Y)
      BY <1>1, <1>6, Z3
  <2>3. \A i, j, k \in Nat : i <= j => k * i <= k * j
      BY Z3
  <2>4. apr * (latest + term) \in Nat /\ (u * n) * Y \in Nat
      BY <1>1, <1>3, <1>6, Z3
  <2> DEFINE i == apr * (latest + term)
             j == (u * n) * Y
  <2> HIDE DEF i, j
  <2>5. cap * i <= cap * j
    <3>1. i \in Nat /\ j \in Nat /\ i <= j
        BY <1>7, <2>4 DEF i, j
    <3> QED
        BY <1>1, <2>3, <3>1
  <2> QED
      BY <2>1, <2>2, <2>5 DEF i, j
<1>9. (cap * (latest + term)) * apr \in Nat /\ cap * (u * n) \in Nat
    BY <1>1, <1>3, Z3
<1>10. ((cap * (latest + term)) * apr) \div (WAD * Y) <= (cap * (u * n)) \div WAD
    BY <1>1, <1>6, <1>8, <1>9, ScaledDown
<1> QED
    BY <1>10 DEF mulDiv, cap, latest, apr, u, n, D, Y

-----------------------------------------------------------------------------
(* Invariance *)

\* A factory starts without PSPs and without pools.
LEMMA FactoryInit == Init => FactoryTypeOK /\ OneHolder /\ SlotLifecycle
BY DEF Init, NoPsp, PspRecord, FactoryTypeOK, OneHolder, SlotLifecycle, LivePools

\* The records of the factory keep their types: every slot names a clone or nothing, and
\* every pool a PSP, terms and bounds.
THEOREM FactoryTypeCorrect == Spec => []FactoryTypeOK
BY FactoryInit, FactoryNext, PTL DEF Spec

\* However createPool, reassignPspWallet, setPspWallet and the ends of pools interleave,
\* each live pool is in the slot of exactly one PSP and an ended pool in none.
THEOREM OnePoolPerSlot == Spec => []OneHolder
<1>1. FactoryTypeOK /\ OneHolder => OneHolder
    OBVIOUS
<1> QED
    BY <1>1, FactoryInit, FactoryNext, PTL DEF Spec

\* Unless the multisig has written the wallet of that very pool past the factory, the
\* release at the end of a pool always finds it in the slot of the wallet it knows.
THEOREM SlotsFollowPools == Spec => []SlotLifecycle
<1>1. FactoryTypeOK /\ OneHolder /\ SlotLifecycle /\ [Next]_factoryVars
          => FactoryTypeOK' /\ OneHolder' /\ SlotLifecycle'
    BY FactoryNext, SlotsNext
<1> QED
    BY <1>1, FactoryInit, PTL DEF Spec

\* A full pool that is drawn throughout earns its coupon, whatever the multisig does to the
\* bounds and the envelope after createPool has checked its terms.
THEOREM CouponAlwaysCoverable == Spec => []CouponCoverable
<1>1. Init => TermsSound
    BY DEF Init, TermsSound
<1>2. FactoryTypeOK /\ OneHolder /\ TermsSound /\ [Next]_factoryVars
          => FactoryTypeOK' /\ OneHolder' /\ TermsSound'
    BY FactoryNext, TermsNext
<1>3. FactoryTypeOK /\ TermsSound => CouponCoverable
  <2> SUFFICES ASSUME FactoryTypeOK, TermsSound, NEW id \in DOMAIN pools
               PROVE  CouponCoverable!(id)
      BY DEF CouponCoverable
  <2>1. /\ pools[id].terms \in TermsType /\ pools[id].bounds \in BoundsType
        /\ pools[id].createdAt \in Nat
      BY FactoryAssumption DEF FactoryTypeOK, PoolRecord
  <2>2. sound(pools[id].terms, pools[id].bounds, pools[id].createdAt)
      BY DEF TermsSound
  <2> QED
      BY <2>1, <2>2, SoundIsCoverable
<1> QED
    BY <1>1, <1>2, <1>3, FactoryInit, PTL DEF Spec
=============================================================================
