----------------------- MODULE FacilityBindingProofs -----------------------
(***************************************************************************)
(* Proofs about the binding of facilities, for any facilities, wallets,    *)
(* handlers and pools.                                                     *)
(***************************************************************************)
EXTENDS FacilityBinding, TLAPS

-----------------------------------------------------------------------------
(* Types *)

\* The type invariant, and that a tick that is about to bind has a pool.
BindingInv ==
    /\ BindingTypeOK
    /\ indexer.at \in {"bind", "holder", "update"} => indexer.pool \in Pools

\* What a call of each kind carries.
LEMMA CallFields ==
    ASSUME NEW c \in Call
    PROVE  /\ c = NoCall => c.op = "none"
           /\ c.op = "request" => /\ c.facility \in Facilities /\ c.wallet \in Wallets
                                  /\ c.first \in BOOLEAN
           /\ c.op = "approve" => /\ c.facility \in Facilities /\ c.at \in InReview
                                  /\ c.pool \in Pools \cup {NoPool}
           /\ c.op \in {"resolve", "stamp", "check"} =>
                  /\ c.facility \in Facilities /\ c.wallet \in Wallets /\ c.hasPool \in BOOLEAN
                  /\ c = [op |-> c.op, facility |-> c.facility, wallet |-> c.wallet,
                          hasPool |-> c.hasPool]
           /\ c.op \in {"send", "psps"} => c.facility \in Facilities /\ c.wallet \in Wallets
           /\ c.op \in {"reject", "confirm"} => c.facility \in Facilities
           /\ c.op = "save" => c.facility \in Facilities /\ c.pool \in Pools
  BY DEF Call, NoCall

\* A document keeps its type under each of the updates, and what the update does to it.
LEMMA DocStatus ==
    ASSUME NEW d \in FacilityDoc, NEW s \in Statuses
    PROVE  LET e == [d EXCEPT !.status = s]
           IN  /\ e \in FacilityDoc /\ e.status = s /\ e.wallet = d.wallet /\ e.pool = d.pool
               /\ e.stamps = d.stamps /\ e.first = d.first
  BY DEF FacilityDoc

LEMMA DocWallet ==
    ASSUME NEW d \in FacilityDoc, NEW w \in Wallets
    PROVE  LET e == [d EXCEPT !.wallet = w]
           IN  /\ e \in FacilityDoc /\ e.status = d.status /\ e.wallet = w /\ e.pool = d.pool
               /\ e.stamps = d.stamps /\ e.first = d.first
  BY DEF FacilityDoc

LEMMA DocApproved ==
    ASSUME NEW d \in FacilityDoc, NEW c \in Call, c.op = "approve"
    PROVE  LET e == approved(d, c)
           IN  /\ e \in FacilityDoc /\ e.status = NEXT_AFTER[c.at] /\ e.wallet = d.wallet
               /\ e.stamps = d.stamps \cup {ROLE_FOR_STATE[c.at]} /\ e.first = d.first
  <1>1. c.at \in InReview
    BY CallFields
  <1>2. NEXT_AFTER[c.at] \in Statuses /\ ROLE_FOR_STATE[c.at] \in Roles
    BY <1>1 DEF InReview, NEXT_AFTER, ROLE_FOR_STATE, Statuses, Roles
  <1> QED
    BY <1>2 DEF FacilityDoc, approved

LEMMA DocBound ==
    ASSUME NEW d \in FacilityDoc, NEW p \in Pools, NEW b \in {"indexer", "admin"}
    PROVE  LET e == bound(d, p, b)
           IN  /\ e \in FacilityDoc /\ e.status = "FUNDING" /\ e.wallet = d.wallet
               /\ e.pool = p /\ e.stamps = d.stamps /\ e.first = d.first
  BY DEF FacilityDoc, bound, Statuses

LEMMA DocNew ==
    ASSUME NEW c \in Call, c.op = "request"
    PROVE  LET e == requested(c)
           IN  /\ e \in FacilityDoc /\ e.wallet = c.wallet /\ e.pool = NoPool
               /\ e.status = IF c.first THEN "KAM_REVIEW" ELSE "CRO_REVIEW"
               /\ e.stamps = {} /\ e.first = c.first
  <1>1. c.wallet \in Wallets /\ c.first \in BOOLEAN
    BY CallFields
  <1> QED
    BY <1>1, BindingAssumption
    DEF FacilityDoc, NoDoc, requested, Roles, Statuses, InReview, NEXT_AFTER

LEMMA PoolsAreNot == NoPool \notin Pools
  BY BindingAssumption DEF Pools, NoPool

LEMMA InitBinding == Init => BindingInv
  <1> SUFFICES ASSUME Init PROVE BindingInv
    OBVIOUS
  <1>1. NoDoc \in FacilityDoc /\ NoDoc.status = "NONE"
    BY BindingAssumption DEF NoDoc, FacilityDoc, Statuses, InReview, NEXT_AFTER, Roles, NoPool
  <1>2. Idle \in IndexerTick /\ Idle.at = "idle"
    BY DEF Idle, IndexerTick, NoPool
  <1>3. NoCall \in Call
    BY DEF Call
  <1> QED
    BY <1>1, <1>2, <1>3, BindingAssumption DEF Init, BindingInv, BindingTypeOK, NoPool

\* The handlers, which never touch the chain or the indexer, but for the deployment.
LEMMA HandlerBinding ==
    ASSUME BindingInv, NEW h \in Handlers, HandlerNext(h)
    PROVE  BindingInv'
  <1> USE DEF BindingInv, BindingTypeOK
  <1> DEFINE c == calls[h]
             f == c.facility
  <1>0. c \in Call
    OBVIOUS
  <1>1. CASE RequestCreate(h)
    <2>1. /\ f \in Facilities /\ c.wallet \in Wallets /\ c.first \in BOOLEAN
      BY <1>1, <1>0, CallFields DEF RequestCreate
    <2> DEFINE d == requested(c)
    <2>2. d \in FacilityDoc /\ d.status # "FUNDING"
      <3>1. c.op = "request"
        BY <1>1 DEF RequestCreate
      <3> QED
        BY <3>1, <1>0, DocNew
    <2>3. facility' = [facility EXCEPT ![f] = d]
      BY <1>1 DEF RequestCreate
    <2> HIDE DEF d
    <2> QED
      BY <1>1, <2>1, <2>2, <2>3 DEF RequestCreate, finish, Call, serverUnchanged
  <1>2. CASE ApproveSave(h)
    <2>1. f \in Facilities /\ c.at \in InReview /\ c.pool \in Pools \cup {NoPool}
      BY <1>2, <1>0, CallFields DEF ApproveSave
    <2> DEFINE d == approved(facility[f], c)
    <2>2. d \in FacilityDoc /\ d.status = NEXT_AFTER[c.at]
      <3>1. facility[f] \in FacilityDoc /\ c.op = "approve"
        BY <1>2, <2>1 DEF ApproveSave
      <3> QED
        BY <3>1, <1>0, DocApproved
    <2>3. NEXT_AFTER[c.at] # "FUNDING"
      BY <2>1 DEF InReview, NEXT_AFTER
    <2>4. facility' = [facility EXCEPT ![f] = d]
      BY <1>2 DEF ApproveSave
    <2> HIDE DEF d
    <2> QED
      BY <1>2, <2>1, <2>2, <2>3, <2>4 DEF ApproveSave, finish, Call, serverUnchanged
  <1>3. CASE RejectSave(h)
    <2>1. f \in Facilities
      BY <1>3, <1>0, CallFields DEF RejectSave
    <2> DEFINE d == [facility[f] EXCEPT !.status = "CANCELLED"]
    <2>2. d \in FacilityDoc /\ d.status = "CANCELLED"
      <3>1. "CANCELLED" \in Statuses
        BY DEF Statuses
      <3> QED
        BY <2>1, <3>1, DocStatus
    <2>3. facility' = [facility EXCEPT ![f] = d]
      BY <1>3 DEF RejectSave
    <2> HIDE DEF d
    <2> QED
      BY <1>3, <2>1, <2>2, <2>3 DEF RejectSave, finish, Call, serverUnchanged
  <1>4. CASE ResolveRead(h)
    BY <1>4, <1>0, CallFields DEF ResolveRead, continue, Call, serverUnchanged
  <1>5. CASE Stamp(h)
    <2>1. /\ f \in Facilities /\ c.wallet \in Wallets /\ c.hasPool \in BOOLEAN
          /\ c = [op |-> c.op, facility |-> f, wallet |-> c.wallet, hasPool |-> c.hasPool]
      BY <1>5, <1>0, CallFields DEF Stamp
    <2> DEFINE w == IF facility[f].pool = NoPool THEN c.wallet ELSE facility[f].wallet
               d == [facility[f] EXCEPT !.wallet = w]
    <2>2. d \in FacilityDoc /\ d.status = facility[f].status /\ d.pool = facility[f].pool
      <3>1. w \in Wallets
        BY <2>1 DEF FacilityDoc
      <3> HIDE DEF w
      <3> QED
        BY <2>1, <3>1, DocWallet
    <2>3. facility' = [facility EXCEPT ![f] = d]
      BY <1>5, <2>1 DEF Stamp, FacilityDoc
    <2>4. [c EXCEPT !.op = "check"] \in Call
      BY <2>1 DEF Call
    <2>5. calls' = [calls EXCEPT ![h] = [c EXCEPT !.op = "check"]]
      BY <1>5 DEF Stamp, continue
    <2> HIDE DEF d
    <2> QED
      <3>1. facility' \in [Facilities -> FacilityDoc]
        BY <2>1, <2>2, <2>3
      <3>2. \A g \in Facilities : facility'[g].status = "FUNDING" => facility'[g].pool # NoPool
        BY <2>1, <2>2, <2>3
      <3>3. calls' \in [Handlers -> Call]
        BY <2>4, <2>5
      <3> QED
        BY <1>5, <3>1, <3>2, <3>3 DEF Stamp, serverUnchanged
  <1>6. CASE CheckBinding(h)
    BY <1>6, <1>0, CallFields DEF CheckBinding, continue, finish, Call, serverUnchanged
  <1>7. CASE SendCreatePool(h)
    <2>1. c.facility \in Facilities /\ c.wallet \in Wallets
      BY <1>7, <1>0, CallFields DEF SendCreatePool
    <2>2. calls' \in [Handlers -> Call]
      BY <1>7, <2>1 DEF SendCreatePool, continue, finish, Call
    <2>3. CASE UNCHANGED <<created, window, slots>>
      BY <1>7, <2>2, <2>3 DEF SendCreatePool
    <2>4. CASE /\ slots[c.wallet] = NoPool /\ Len(created) < MaxPools
               /\ created' = Append(created, c.wallet)
               /\ window' = window \cup {Len(created')}
               /\ slots' = [slots EXCEPT ![c.wallet] = Len(created')]
      <3>1. /\ created' \in Seq(Wallets) /\ Len(created') = Len(created) + 1
            /\ Len(created') <= MaxPools /\ Len(created') \in Pools
            /\ \A i \in 1 .. Len(created) : created'[i] = created[i]
            /\ created'[Len(created')] = c.wallet
        BY <2>1, <2>4, BindingAssumption DEF Pools
      <3>2. window' \subseteq DOMAIN created'
        BY <3>1, <2>4
      <3>3. slots' \in [Wallets -> Pools \cup {NoPool}]
        BY <3>1, <2>4
      <3>4. ASSUME NEW w \in Wallets, slots'[w] # NoPool
            PROVE  slots'[w] \in DOMAIN created' /\ created'[slots'[w]] = w
        BY <3>1, <3>4, <2>4
      <3> QED
        BY <1>7, <2>2, <3>1, <3>2, <3>3, <3>4 DEF SendCreatePool
    <2> QED
      BY <1>7, <2>3, <2>4 DEF SendCreatePool
  <1>8. CASE ConfirmRead(h)
    BY <1>8, <1>0, CallFields DEF ConfirmRead, continue, finish, Call, FacilityDoc, serverUnchanged
  <1>9. CASE ConfirmSlot(h)
    BY <1>9, <1>0, CallFields DEF ConfirmSlot, continue, finish, Call, serverUnchanged
  <1>10. CASE ConfirmSave(h)
    <2>1. f \in Facilities /\ c.pool \in Pools
      BY <1>10, <1>0, CallFields DEF ConfirmSave
    <2> DEFINE d == bound(facility[f], c.pool, "admin")
    <2>2. d \in FacilityDoc /\ d.status = "FUNDING" /\ d.pool = c.pool
      <3>1. facility[f] \in FacilityDoc
        BY <2>1
      <3> QED
        BY <3>1, <2>1, DocBound
    <2>3. c.pool # NoPool
      BY <2>1, PoolsAreNot
    <2>4. facility' = [facility EXCEPT ![f] = d]
      BY <1>10 DEF ConfirmSave
    <2> HIDE DEF d
    <2> QED
      BY <1>10, <2>1, <2>2, <2>3, <2>4 DEF ConfirmSave, finish, Call, serverUnchanged
  <1> QED
    BY <1>1, <1>2, <1>3, <1>4, <1>5, <1>6, <1>7, <1>8, <1>9, <1>10 DEF HandlerNext

\* The indexer, whose tick may be lost between any two steps.
LEMMA IndexerBinding ==
    ASSUME BindingInv, IndexerNext \/ TickFails
    PROVE  BindingInv'
  <1> USE DEF BindingInv, BindingTypeOK
  <1>0. /\ indexer.events \subseteq Pools /\ indexer.pool \in Pools \cup {NoPool}
        /\ indexer.unbound \subseteq Facilities \X Wallets
        /\ indexer.current \subseteq Facilities \X Wallets
    BY DEF IndexerTick
  <1>1. window \subseteq Pools
    BY BindingAssumption DEF Pools
  <1>2. Idle \in IndexerTick /\ Idle.at = "idle"
    BY DEF Idle, IndexerTick
  <1>3. CASE TickStart
    BY <1>1, <1>2, <1>3 DEF TickStart, IndexerTick, indexerOnly
  <1>4. CASE EventClaimant
    <2>1. PICK p \in indexer.events :
              \/ indexer' = [indexer EXCEPT !.at = "bind", !.events = @ \ {p}, !.pool = p]
              \/ indexer' = [indexer EXCEPT !.events = @ \ {p}]
      BY <1>4 DEF EventClaimant
    <2>2. p \in Pools
      BY <1>0, <2>1
    <2>3. CASE indexer' = [indexer EXCEPT !.at = "bind", !.events = @ \ {p}, !.pool = p]
      <3>1. indexer' \in IndexerTick /\ indexer'.pool \in Pools
        BY <2>2, <2>3 DEF IndexerTick
      <3> QED
        BY <1>4, <3>1 DEF EventClaimant, indexerOnly
    <2>4. CASE indexer' = [indexer EXCEPT !.events = @ \ {p}]
      <3>1. indexer' \in IndexerTick /\ indexer'.at = "event"
        BY <1>4, <2>4 DEF EventClaimant, IndexerTick
      <3> QED
        BY <1>4, <3>1 DEF EventClaimant, indexerOnly
    <2> QED
      BY <2>1, <2>3, <2>4
  <1>5. CASE EventBind
    <2>1. indexer.pool \in Pools
      BY <1>5 DEF EventBind
    <2>2. indexer' \in IndexerTick /\ indexer'.at = "event"
      BY <1>0, <1>5 DEF EventBind, IndexerTick
    <2>3. CASE UNCHANGED facility
      BY <1>5, <2>2, <2>3 DEF EventBind
    <2>4. ASSUME NEW f \in Facilities,
                 facility' = [facility EXCEPT ![f] = bound(@, indexer.pool, "indexer")]
          PROVE  BindingInv'
      <3> DEFINE d == bound(facility[f], indexer.pool, "indexer")
      <3>1. d \in FacilityDoc /\ d.status = "FUNDING" /\ d.pool = indexer.pool
        BY <2>1, DocBound
      <3>2. facility' = [facility EXCEPT ![f] = d]
        BY <2>4
      <3> HIDE DEF d
      <3> QED
        BY <1>5, <2>1, <2>2, <3>1, <3>2, PoolsAreNot DEF EventBind
    <2> QED
      BY <1>5, <2>3, <2>4 DEF EventBind
  <1>6. CASE FindUnbound
    <2> DEFINE waiting == {<<f, facility[f].wallet>> : f \in {g \in Facilities : Awaiting(g)}}
    <2>1. waiting \in SUBSET (Facilities \X Wallets)
      BY DEF FacilityDoc
    <2>2. indexer' = [indexer EXCEPT !.at = "unbound", !.unbound = waiting]
      BY <1>6 DEF FindUnbound
    <2> HIDE DEF waiting
    <2>3. indexer' \in IndexerTick /\ indexer'.at = "unbound"
      BY <2>1, <2>2 DEF IndexerTick
    <2> QED
      BY <1>6, <2>3 DEF FindUnbound, indexerOnly
  <1>7. CASE ReadSlot
    <2>1. PICK u \in indexer.unbound :
              indexer' = IF slots[u[2]] = NoPool
                         THEN [indexer EXCEPT !.unbound = @ \ {u}]
                         ELSE [indexer EXCEPT !.at = "holder", !.unbound = @ \ {u},
                                              !.current = {u}, !.pool = slots[u[2]]]
      BY <1>7 DEF ReadSlot
    <2>2. u \in Facilities \X Wallets /\ slots[u[2]] \in Pools \cup {NoPool}
      BY <1>0, <2>1
    <2>3. CASE slots[u[2]] = NoPool
      <3>1. indexer' = [indexer EXCEPT !.unbound = @ \ {u}]
        BY <2>1, <2>3
      <3>2. indexer' \in IndexerTick /\ indexer'.at = "unbound"
        BY <1>7, <3>1 DEF IndexerTick, ReadSlot
      <3> QED
        BY <1>7, <3>2 DEF ReadSlot, indexerOnly
    <2>4. CASE slots[u[2]] # NoPool
      <3>1. indexer' = [indexer EXCEPT !.at = "holder", !.unbound = @ \ {u},
                                       !.current = {u}, !.pool = slots[u[2]]]
        BY <2>1, <2>4
      <3>2. slots[u[2]] \in Pools /\ {u} \in SUBSET (Facilities \X Wallets)
        BY <2>2, <2>4
      <3>3. indexer' \in IndexerTick /\ indexer'.pool \in Pools
        BY <3>1, <3>2 DEF IndexerTick
      <3> QED
        BY <1>7, <3>3 DEF ReadSlot, indexerOnly
    <2> QED
      BY <2>3, <2>4
  <1>8. CASE ReadHolder
    <2>1. \/ indexer' = [indexer EXCEPT !.at = "update"]
          \/ indexer' = nextUnbound
      BY <1>8 DEF ReadHolder
    <2>2. indexer.pool \in Pools
      BY <1>8 DEF ReadHolder
    <2>3. CASE indexer' = [indexer EXCEPT !.at = "update"]
      <3>1. indexer' \in IndexerTick /\ indexer'.pool \in Pools
        BY <2>2, <2>3 DEF IndexerTick
      <3> QED
        BY <1>8, <3>1 DEF ReadHolder, indexerOnly
    <2>4. CASE indexer' = nextUnbound
      <3>1. indexer' \in IndexerTick /\ indexer'.at = "unbound"
        BY <2>4 DEF IndexerTick, nextUnbound
      <3> QED
        BY <1>8, <3>1 DEF ReadHolder, indexerOnly
    <2> QED
      BY <2>1, <2>3, <2>4
  <1>9. CASE SlotBind
    <2>1. indexer.pool \in Pools
      BY <1>9 DEF SlotBind
    <2>2. indexer' \in IndexerTick /\ indexer'.at = "unbound"
      BY <1>0, <1>9 DEF SlotBind, nextUnbound, IndexerTick
    <2>3. CASE UNCHANGED facility
      BY <1>9, <2>2, <2>3 DEF SlotBind
    <2>4. ASSUME NEW f \in Facilities,
                 facility' = [facility EXCEPT ![f] = bound(@, indexer.pool, "indexer")]
          PROVE  BindingInv'
      <3> DEFINE d == bound(facility[f], indexer.pool, "indexer")
      <3>1. d \in FacilityDoc /\ d.status = "FUNDING" /\ d.pool = indexer.pool
        BY <2>1, DocBound
      <3>2. facility' = [facility EXCEPT ![f] = d]
        BY <2>4
      <3> HIDE DEF d
      <3> QED
        BY <1>9, <2>1, <2>2, <3>1, <3>2, PoolsAreNot DEF SlotBind
    <2> QED
      BY <1>0, <1>9, <2>3, <2>4 DEF SlotBind
  <1>10. CASE TickEnd
    BY <1>2, <1>10 DEF TickEnd, indexerOnly
  <1>11. CASE TickFails
    BY <1>2, <1>11, BindingAssumption DEF TickFails
  <1> QED
    BY <1>3, <1>4, <1>5, <1>6, <1>7, <1>8, <1>9, <1>10, <1>11 DEF IndexerNext

LEMMA BindingStep == BindingInv /\ [Next]_vars => BindingInv'
  <1> SUFFICES ASSUME BindingInv, [Next]_vars PROVE BindingInv'
    OBVIOUS
  <1>1. CASE \E w \in Wallets : Bind(w)
    BY <1>1 DEF BindingInv, BindingTypeOK, Bind, serverUnchanged
  <1>2. ASSUME NEW h \in Handlers, NEW f \in Facilities,
               RequestRead(h, f) \/ ApproveRead(h, f) \/ RejectRead(h, f) \/ InitRead(h, f)
        PROVE  BindingInv'
    <2>1. calls' \in [Handlers -> Call]
      <3>1. /\ facility[f].wallet \in Wallets /\ facility[f].pool \in Pools \cup {NoPool}
            /\ profile.primary \in Wallets
        BY DEF BindingInv, BindingTypeOK, FacilityDoc
      <3>2. PICK call \in Call : calls' = [calls EXCEPT ![h] = call]
        <4>1. CASE RequestRead(h, f)
          <5> DEFINE first == \A g \in Facilities : "CRO" \notin facility[g].stamps
                     call == [op |-> "request", facility |-> f, wallet |-> profile.primary,
                              first |-> first]
          <5>1. first \in BOOLEAN
            OBVIOUS
          <5>2. calls' = [calls EXCEPT ![h] = call]
            BY <4>1 DEF RequestRead, begin
          <5> HIDE DEF first
          <5>3. call \in Call
            BY <3>1, <5>1 DEF Call
          <5> QED
            BY <5>2, <5>3
        <4>2. CASE ApproveRead(h, f)
          BY <3>1, <4>2 DEF ApproveRead, begin, Call
        <4>3. CASE RejectRead(h, f)
          BY <4>3 DEF RejectRead, begin, Call
        <4>4. CASE InitRead(h, f)
          BY <3>1, <4>4 DEF InitRead, begin, Call
        <4> QED
          BY <1>2, <4>1, <4>2, <4>3, <4>4
      <3> QED
        BY <3>2 DEF BindingInv, BindingTypeOK
    <2> QED
      BY <1>2, <2>1 DEF BindingInv, BindingTypeOK, RequestRead, ApproveRead, RejectRead, InitRead,
                        serverUnchanged
  <1>3. CASE \E h \in Handlers : HandlerNext(h)
    BY <1>3, HandlerBinding
  <1>4. CASE IndexerNext \/ TickFails
    BY <1>4, IndexerBinding
  <1>5. CASE ChainNext
    BY <1>5 DEF ChainNext, PoolEnds, EventExpires, BindingInv, BindingTypeOK, NoPool
  <1>6. CASE UNCHANGED vars
    BY <1>6 DEF vars, BindingInv, BindingTypeOK, Awaiting
  <1> QED
    BY <1>1, <1>2, <1>3, <1>4, <1>5, <1>6 DEF Next, BorrowerNext, StaffNext

LEMMA BindingInvariance == Spec => []BindingInv
  <1> QED
    BY InitBinding, BindingStep, PTL DEF Spec

\* Every document, handler, slot and tick keeps its type, and a facility that is out for
\* funding has a pool, whatever handlers and ticks interleave.
THEOREM BindingTypeCorrect == Spec => []BindingTypeOK
  <1>1. BindingInv => BindingTypeOK
    BY DEF BindingInv
  <1> QED
    BY <1>1, BindingInvariance, PTL

-----------------------------------------------------------------------------
(* The trail of approvals *)

\* The approvals a first facility has when it gets to a review.
Before == [KAM_REVIEW |-> {}, CAD_REVIEW |-> {"KAM"}, CRO_REVIEW |-> {"KAM", "CAD"}]

Approved(f) == "CRO" \in facility[f].stamps

OtherApproved(f) == \E g \in Facilities \ {f} : Approved(g)

\* A facility on its own.
DocTrail(d) ==
    /\ d.status = "NONE" => d.stamps = {} /\ d.pool = NoPool
    /\ d.status \in InReview /\ d.first => Before[d.status] \subseteq d.stamps
    /\ "CRO" \in d.stamps /\ d.first => Roles \subseteq d.stamps
    /\ d.status \in {"AWAITING_POOL_INIT", "FUNDING"} => "CRO" \in d.stamps

\* What a handler has read stays true enough of the facility it will write.
CallTrail(c) ==
    /\ c.op = "request" => /\ facility[c.facility].status = "NONE"
                           /\ ~c.first => OtherApproved(c.facility)
    /\ c.op \in {"approve", "reject"} => facility[c.facility].status # "NONE"
    /\ c.op = "approve" /\ facility[c.facility].first =>
           Before[c.at] \subseteq facility[c.facility].stamps
    /\ c.op \in {"resolve", "stamp", "check", "send", "confirm", "psps", "save"} =>
           Approved(c.facility)

\* No two requests create the same facility.
OneRequest ==
    \A h, k \in Handlers :
        calls[h].op = "request" /\ calls[k].op = "request"
            /\ calls[h].facility = calls[k].facility => h = k

TrailInv ==
    /\ \A f \in Facilities : DocTrail(facility[f])
    /\ \A f \in Facilities : ~facility[f].first => OtherApproved(f)
    /\ \A h \in Handlers : CallTrail(calls[h])
    /\ OneRequest
    /\ \A u \in indexer.unbound \cup indexer.current : Approved(u[1])

\* A step may add approvals and never takes one back, nor the document.
Grows ==
    \A f \in Facilities :
        /\ facility[f].stamps \subseteq facility'[f].stamps
        /\ facility[f].status # "NONE" =>
               facility'[f].status # "NONE" /\ facility'[f].first = facility[f].first

LEMMA ApprovedKept ==
    ASSUME Grows
    PROVE  \A f \in Facilities : /\ Approved(f) => Approved(f)'
                                 /\ OtherApproved(f) => OtherApproved(f)'
  BY DEF Grows, Approved, OtherApproved

LEMMA CallKept ==
    ASSUME Grows
    PROVE  \A c \in Call :
               CallTrail(c) /\ (c.op = "request" => facility'[c.facility].status = "NONE")
                   => CallTrail(c)'
  <1> SUFFICES ASSUME NEW c \in Call, CallTrail(c),
                      c.op = "request" => facility'[c.facility].status = "NONE"
               PROVE  CallTrail(c)'
    OBVIOUS
  <1>1. c.op # "none" => c.facility \in Facilities
    BY CallFields DEF Call, NoCall
  <1>2. CASE c.op = "request"
    BY <1>1, <1>2, ApprovedKept DEF CallTrail
  <1>3. CASE c.op = "approve"
    BY <1>1, <1>3 DEF CallTrail, Grows
  <1>4. CASE c.op = "reject"
    BY <1>1, <1>4 DEF CallTrail, Grows
  <1>5. CASE c.op \in {"resolve", "stamp", "check", "send", "confirm", "psps", "save"}
    BY <1>1, <1>5, ApprovedKept DEF CallTrail
  <1> QED
    BY <1>2, <1>3, <1>4, <1>5 DEF CallTrail

\* A step that leaves the facilities alone, and gives at most one handler a sound call.
LEMMA ReadTrail ==
    ASSUME BindingInv, TrailInv, NEW h \in Handlers, UNCHANGED <<facility, indexer>>,
           NEW call \in Call, calls' = [calls EXCEPT ![h] = call],
           CallTrail(call),
           call.op = "request" =>
               \A k \in Handlers : calls[k].op = "request" => calls[k].facility # call.facility
    PROVE  TrailInv'
  <1>1. calls \in [Handlers -> Call]
    BY DEF BindingInv, BindingTypeOK
  <1>2. \A k \in Handlers : calls'[k] = IF k = h THEN call ELSE calls[k]
    BY <1>1
  <1>3. \A f \in Facilities : OtherApproved(f)' = OtherApproved(f) /\ Approved(f)' = Approved(f)
    BY DEF OtherApproved, Approved
  <1>4. \A k \in Handlers : CallTrail(calls'[k])
    BY <1>2 DEF TrailInv
  <1>5. (\A k \in Handlers : CallTrail(calls[k]))'
    BY <1>4 DEF CallTrail, OtherApproved, Approved
  <1>6. OneRequest'
    BY <1>2 DEF TrailInv, OneRequest
  <1>7. (\A f \in Facilities : DocTrail(facility[f]) /\ (~facility[f].first => OtherApproved(f)))'
    BY <1>3 DEF TrailInv, DocTrail
  <1>8. (\A u \in indexer.unbound \cup indexer.current : Approved(u[1]))'
    BY DEF TrailInv, Approved
  <1> QED
    BY <1>5, <1>6, <1>7, <1>8 DEF TrailInv

\* A step that writes one facility, which has been created or is by this step.
WritesDoc(f, d) ==
    /\ facility' = [facility EXCEPT ![f] = d]
    /\ DocTrail(d)
    /\ facility[f].stamps \subseteq d.stamps
    /\ facility[f].status # "NONE" => d.status # "NONE" /\ d.first = facility[f].first
    /\ ~d.first => OtherApproved(f)

LEMMA WritesGrow ==
    ASSUME BindingInv, TrailInv, NEW f \in Facilities, NEW d \in FacilityDoc, WritesDoc(f, d)
    PROVE  /\ Grows
           /\ \A g \in Facilities : g # f => facility'[g] = facility[g]
           /\ (\A g \in Facilities : DocTrail(facility[g]))'
           /\ (\A g \in Facilities : ~facility[g].first => OtherApproved(g))'
  <1>1. \A g \in Facilities : facility'[g] = IF g = f THEN d ELSE facility[g]
    BY DEF WritesDoc, BindingInv, BindingTypeOK
  <1>2. Grows
    BY <1>1 DEF Grows, WritesDoc
  <1>3. (\A g \in Facilities : DocTrail(facility[g]))'
    BY <1>1 DEF WritesDoc, TrailInv, DocTrail
  <1>4. (\A g \in Facilities : ~facility[g].first => OtherApproved(g))'
    <2> SUFFICES ASSUME NEW g \in Facilities, ~facility'[g].first
                 PROVE  OtherApproved(g)'
      OBVIOUS
    <2>1. OtherApproved(g)
      BY <1>1 DEF WritesDoc, TrailInv
    <2> QED
      BY <2>1, <1>2, ApprovedKept
  <1> QED
    BY <1>1, <1>2, <1>3, <1>4

LEMMA HandlerWrites ==
    ASSUME BindingInv, TrailInv, NEW f \in Facilities, NEW d \in FacilityDoc, WritesDoc(f, d),
           NEW h \in Handlers, NEW call \in Call, calls' = [calls EXCEPT ![h] = call],
           UNCHANGED indexer, call.op # "request",
           CallTrail(call)',
           facility[f].status # "NONE" \/ (calls[h].op = "request" /\ calls[h].facility = f)
    PROVE  TrailInv'
  <1>1. /\ Grows
        /\ \A g \in Facilities : g # f => facility'[g] = facility[g]
        /\ (\A g \in Facilities : DocTrail(facility[g]))'
        /\ (\A g \in Facilities : ~facility[g].first => OtherApproved(g))'
    BY WritesGrow
  <1>2. calls \in [Handlers -> Call]
    BY DEF BindingInv, BindingTypeOK
  <1>3. \A k \in Handlers : calls'[k] = IF k = h THEN call ELSE calls[k]
    BY <1>2
  <1>4. ASSUME NEW k \in Handlers, k # h
        PROVE  CallTrail(calls[k])'
    <2>1. PICK c \in Call : c = calls[k]
      BY <1>2
    <2>2. CallTrail(c)
      BY <2>1 DEF TrailInv
    <2>3. c.op = "request" => c.facility \in Facilities /\ facility'[c.facility].status = "NONE"
      <3> HAVE c.op = "request"
      <3>1. c.facility \in Facilities /\ facility[c.facility].status = "NONE"
        BY <2>2, CallFields DEF CallTrail
      <3>2. c.facility # f
        BY <1>4, <2>1, <3>1 DEF TrailInv, OneRequest
      <3> QED
        BY <1>1, <3>1, <3>2
    <2>4. CallTrail(c)'
      BY <1>1, <2>2, <2>3, CallKept
    <2> QED
      BY <1>3, <1>4, <2>1, <2>4
  <1>5. (\A k \in Handlers : CallTrail(calls[k]))'
    <2> SUFFICES ASSUME NEW k \in Handlers PROVE CallTrail(calls[k])'
      OBVIOUS
    <2>1. CASE k = h
      BY <1>3, <2>1
    <2> QED
      BY <1>4, <2>1
  <1>6. OneRequest'
    BY <1>3 DEF TrailInv, OneRequest
  <1>7. (\A u \in indexer.unbound \cup indexer.current : Approved(u[1]))'
    BY <1>1, ApprovedKept DEF TrailInv, BindingInv, BindingTypeOK, IndexerTick
  <1> QED
    BY <1>1, <1>5, <1>6, <1>7 DEF TrailInv

LEMMA IndexerWrites ==
    ASSUME BindingInv, TrailInv, NEW f \in Facilities, NEW d \in FacilityDoc, WritesDoc(f, d),
           UNCHANGED calls, facility[f].status # "NONE",
           indexer'.unbound \cup indexer'.current \subseteq indexer.unbound \cup indexer.current
    PROVE  TrailInv'
  <1>1. /\ Grows
        /\ \A g \in Facilities : g # f => facility'[g] = facility[g]
        /\ (\A g \in Facilities : DocTrail(facility[g]))'
        /\ (\A g \in Facilities : ~facility[g].first => OtherApproved(g))'
    BY WritesGrow
  <1>2. ASSUME NEW k \in Handlers
        PROVE  CallTrail(calls[k])'
    <2>1. PICK c \in Call : c = calls[k]
      BY DEF BindingInv, BindingTypeOK
    <2>2. CallTrail(c)
      BY <2>1 DEF TrailInv
    <2>3. c.op = "request" => c.facility \in Facilities /\ facility'[c.facility].status = "NONE"
      BY <1>1, <2>2, CallFields DEF CallTrail
    <2>4. CallTrail(c)'
      BY <1>1, <2>2, <2>3, CallKept
    <2> QED
      BY <2>1, <2>4
  <1>3. OneRequest'
    BY DEF TrailInv, OneRequest
  <1>4. (\A u \in indexer.unbound \cup indexer.current : Approved(u[1]))'
    BY <1>1, ApprovedKept DEF TrailInv, BindingInv, BindingTypeOK, IndexerTick
  <1> QED
    BY <1>1, <1>2, <1>3, <1>4 DEF TrailInv

LEMMA InitTrail == Init => TrailInv
  BY DEF Init, TrailInv, NoDoc, NoCall, Idle, DocTrail, CallTrail, OneRequest, InReview, NEXT_AFTER

LEMMA NoCallTrail == NoCall \in Call /\ NoCall.op = "none" /\ CallTrail(NoCall) /\ CallTrail(NoCall)'
  BY DEF NoCall, Call, CallTrail

\* The requests that begin, and what they read.
LEMMA BeginTrail ==
    ASSUME BindingInv, TrailInv, NEW h \in Handlers, NEW f \in Facilities,
           RequestRead(h, f) \/ ApproveRead(h, f) \/ RejectRead(h, f) \/ InitRead(h, f)
    PROVE  TrailInv'
  <1>1. /\ facility[f].wallet \in Wallets /\ facility[f].pool \in Pools \cup {NoPool}
        /\ profile.primary \in Wallets /\ DocTrail(facility[f])
    BY DEF BindingInv, BindingTypeOK, FacilityDoc, TrailInv
  <1>2. CASE RequestRead(h, f)
    <2> DEFINE none == \A g \in Facilities : "CRO" \notin facility[g].stamps
    <2>1. PICK call \in Call :
              /\ call.op = "request" /\ call.facility = f
              /\ call.first = none
              /\ calls' = [calls EXCEPT ![h] = call]
      <3>1. none \in BOOLEAN
        OBVIOUS
      <3>2. calls' = [calls EXCEPT ![h] = [op |-> "request", facility |-> f,
                                          wallet |-> profile.primary, first |-> none]]
        BY <1>2 DEF RequestRead, begin
      <3> HIDE DEF none
      <3>3. [op |-> "request", facility |-> f, wallet |-> profile.primary, first |-> none] \in Call
        BY <1>1, <3>1 DEF Call
      <3> QED
        BY <3>2, <3>3
    <2>2. ~call.first => OtherApproved(f)
      BY <1>1, <1>2, <2>1 DEF RequestRead, DocTrail, OtherApproved, Approved
    <2>3. CallTrail(call)
      BY <1>2, <2>1, <2>2 DEF CallTrail, RequestRead
    <2>4. \A k \in Handlers : calls[k].op = "request" => calls[k].facility # call.facility
      BY <1>2, <2>1 DEF RequestRead
    <2> QED
      BY <1>2, <2>1, <2>3, <2>4, ReadTrail DEF RequestRead, serverUnchanged
  <1>3. CASE ApproveRead(h, f)
    <2>1. PICK call \in Call :
              /\ call = [op |-> "approve", facility |-> f, at |-> facility[f].status,
                         pool |-> facility[f].pool]
              /\ calls' = [calls EXCEPT ![h] = call]
      BY <1>1, <1>3 DEF ApproveRead, begin, Call
    <2>2. CallTrail(call)
      BY <1>1, <1>3, <2>1 DEF CallTrail, ApproveRead, DocTrail, InReview, NEXT_AFTER
    <2> QED
      BY <1>3, <2>1, <2>2, ReadTrail DEF ApproveRead, serverUnchanged
  <1>4. CASE RejectRead(h, f)
    <2>1. PICK call \in Call : /\ call = [op |-> "reject", facility |-> f]
                               /\ calls' = [calls EXCEPT ![h] = call]
      BY <1>4 DEF RejectRead, begin, Call
    <2>2. CallTrail(call)
      BY <1>4, <2>1 DEF CallTrail, RejectRead, InReview, NEXT_AFTER
    <2> QED
      BY <1>4, <2>1, <2>2, ReadTrail DEF RejectRead, serverUnchanged
  <1>5. CASE InitRead(h, f)
    <2>1. PICK call \in Call :
              /\ call = [op |-> "resolve", facility |-> f, wallet |-> facility[f].wallet,
                         hasPool |-> facility[f].pool # NoPool]
              /\ calls' = [calls EXCEPT ![h] = call]
      BY <1>1, <1>5 DEF InitRead, begin, Call
    <2>2. CallTrail(call)
      BY <1>5, <2>1 DEF CallTrail, InitRead, Approved
    <2> QED
      BY <1>5, <2>1, <2>2, ReadTrail DEF InitRead, serverUnchanged
  <1> QED
    BY <1>2, <1>3, <1>4, <1>5

\* The steps of a deployment that only read, or that only change the chain.
LEMMA DeployTrail ==
    ASSUME BindingInv, TrailInv, NEW h \in Handlers,
           ResolveRead(h) \/ CheckBinding(h) \/ SendCreatePool(h) \/ ConfirmRead(h) \/ ConfirmSlot(h)
    PROVE  TrailInv'
  <1>1. calls[h] \in Call /\ CallTrail(calls[h])
    BY DEF BindingInv, BindingTypeOK, TrailInv
  <1>2. calls[h].op \in {"resolve", "check", "send", "confirm", "psps"}
    BY DEF ResolveRead, CheckBinding, SendCreatePool, ConfirmRead, ConfirmSlot
  <1>3. calls[h].facility \in Facilities /\ Approved(calls[h].facility)
    BY <1>1, <1>2, CallFields DEF CallTrail
  <1>4. UNCHANGED <<facility, indexer>>
    BY DEF ResolveRead, CheckBinding, SendCreatePool, ConfirmRead, ConfirmSlot, serverUnchanged
  <1>5. PICK call \in Call :
            /\ calls' = [calls EXCEPT ![h] = call]
            /\ \/ call.op \in {"stamp", "check", "send", "confirm", "psps", "save"}
                  /\ call.facility = calls[h].facility
               \/ call.op = "none"
    <2>1. BindingInv'
      BY HandlerBinding DEF HandlerNext
    <2>2. \E call : /\ calls' = [calls EXCEPT ![h] = call]
                    /\ \/ call.op \in {"stamp", "check", "send", "confirm", "psps", "save"}
                          /\ call.facility = calls[h].facility
                       \/ call.op = "none"
      <3>1. CASE ResolveRead(h)
        <4> DEFINE changed == ~calls[h].hasPool /\ profile.primary # calls[h].wallet
                   to == IF changed THEN "stamp" ELSE "check"
                   paid == IF changed THEN profile.primary ELSE calls[h].wallet
                   call == [op |-> to, facility |-> calls[h].facility,
                            hasPool |-> calls[h].hasPool, wallet |-> paid]
        <4>1. calls' = [calls EXCEPT ![h] = call]
          BY <3>1 DEF ResolveRead, continue
        <4>2. to \in {"stamp", "check"}
          OBVIOUS
        <4> HIDE DEF to, paid
        <4>3. call.op = to /\ call.facility = calls[h].facility
          OBVIOUS
        <4> HIDE DEF call
        <4> QED
          BY <4>1, <4>2, <4>3
      <3>2. CASE CheckBinding(h)
        BY <3>2 DEF CheckBinding, continue, finish, NoCall
      <3>3. CASE SendCreatePool(h)
        BY <3>3 DEF SendCreatePool, continue, finish, NoCall
      <3>4. CASE ConfirmRead(h)
        BY <3>4 DEF ConfirmRead, continue, finish, NoCall
      <3>5. CASE ConfirmSlot(h)
        BY <3>5 DEF ConfirmSlot, continue, finish, NoCall
      <3> QED
        BY <3>1, <3>2, <3>3, <3>4, <3>5
    <2>3. calls \in [Handlers -> Call] /\ calls' \in [Handlers -> Call]
      BY <2>1 DEF BindingInv, BindingTypeOK
    <2>4. calls'[h] \in Call
      BY <2>3
    <2>5. PICK call : /\ calls' = [calls EXCEPT ![h] = call]
                      /\ \/ call.op \in {"stamp", "check", "send", "confirm", "psps", "save"}
                            /\ call.facility = calls[h].facility
                         \/ call.op = "none"
      BY <2>2
    <2>6. call = calls'[h]
      BY <2>3, <2>5
    <2> QED
      BY <2>4, <2>5, <2>6
  <1>6. CallTrail(call) /\ call.op # "request"
    BY <1>3, <1>5 DEF CallTrail
  <1> QED
    BY <1>4, <1>5, <1>6, ReadTrail

\* The handlers that save a facility.
LEMMA SaveTrail ==
    ASSUME BindingInv, TrailInv, NEW h \in Handlers,
           RequestCreate(h) \/ ApproveSave(h) \/ RejectSave(h) \/ ConfirmSave(h)
    PROVE  TrailInv'
  <1>1. PICK c \in Call : c = calls[h]
    BY DEF BindingInv, BindingTypeOK
  <1>2. PICK f \in Facilities : f = c.facility
    BY <1>1, CallFields DEF RequestCreate, ApproveSave, RejectSave, ConfirmSave
  <1>3. CallTrail(c) /\ DocTrail(facility[f]) /\ facility[f] \in FacilityDoc
    BY <1>1 DEF TrailInv, BindingInv, BindingTypeOK
  <1>4. calls' = [calls EXCEPT ![h] = NoCall] /\ UNCHANGED indexer
    BY DEF RequestCreate, ApproveSave, RejectSave, ConfirmSave, finish, serverUnchanged
  <1>5. ~facility[f].first => OtherApproved(f)
    BY DEF TrailInv
  <1> DEFINE written(d) == /\ WritesDoc(f, d)
                           /\ facility[f].status # "NONE" \/ c.op = "request"
  <1>6. \E d \in FacilityDoc : written(d)
    <2>1. CASE RequestCreate(h)
      <3>1. PICK d \in FacilityDoc :
                /\ d = requested(c) /\ d.pool = NoPool /\ d.stamps = {} /\ d.first = c.first
                /\ d.status = IF c.first THEN "KAM_REVIEW" ELSE "CRO_REVIEW"
        BY <1>1, <2>1, DocNew DEF RequestCreate
      <3>2. facility' = [facility EXCEPT ![f] = d] /\ c.op = "request"
        BY <1>1, <1>2, <2>1, <3>1 DEF RequestCreate
      <3>3. facility[f].status = "NONE" /\ facility[f].stamps = {}
            /\ (~c.first => OtherApproved(f))
        BY <1>2, <1>3, <3>2 DEF CallTrail, DocTrail
      <3>4. c.first \in BOOLEAN
        BY <3>2, CallFields
      <3>5. DocTrail(d)
        BY <3>1, <3>4 DEF DocTrail, Before, InReview, NEXT_AFTER
      <3> QED
        BY <3>1, <3>2, <3>3, <3>5 DEF WritesDoc
    <2>2. CASE ApproveSave(h)
      <3>0. c.op = "approve" /\ c.at \in InReview
        BY <1>1, <2>2, CallFields DEF ApproveSave
      <3>1. PICK d \in FacilityDoc :
                /\ d = approved(facility[f], c) /\ d.status = NEXT_AFTER[c.at]
                /\ d.stamps = facility[f].stamps \cup {ROLE_FOR_STATE[c.at]}
                /\ d.first = facility[f].first
        BY <1>3, <3>0, DocApproved
      <3>2. facility' = [facility EXCEPT ![f] = d]
        BY <1>1, <1>2, <2>2, <3>1 DEF ApproveSave
      <3>3. /\ facility[f].status # "NONE"
            /\ facility[f].first => Before[c.at] \subseteq facility[f].stamps
        BY <1>2, <1>3, <3>0 DEF CallTrail
      <3>4. d.status # "NONE"
        BY <3>0, <3>1 DEF InReview, NEXT_AFTER
      <3>5. DocTrail(d)
        BY <1>3, <3>0, <3>1, <3>3
        DEF DocTrail, Before, InReview, NEXT_AFTER, ROLE_FOR_STATE, Roles
      <3> QED
        BY <1>5, <3>1, <3>2, <3>3, <3>4, <3>5 DEF WritesDoc
    <2>3. CASE RejectSave(h)
      <3>1. PICK d \in FacilityDoc :
                /\ d = [facility[f] EXCEPT !.status = "CANCELLED"] /\ d.status = "CANCELLED"
                /\ d.stamps = facility[f].stamps /\ d.first = facility[f].first
        <4>1. "CANCELLED" \in Statuses
          BY DEF Statuses
        <4> QED
          BY <1>3, <4>1, DocStatus
      <3>2. facility' = [facility EXCEPT ![f] = d]
        BY <1>1, <1>2, <2>3, <3>1 DEF RejectSave
      <3>3. facility[f].status # "NONE"
        BY <1>1, <1>2, <1>3, <2>3 DEF CallTrail, RejectSave
      <3>4. DocTrail(d)
        BY <1>3, <3>1 DEF DocTrail, InReview, NEXT_AFTER
      <3> QED
        BY <1>5, <3>1, <3>2, <3>3, <3>4 DEF WritesDoc
    <2>4. CASE ConfirmSave(h)
      <3>0. c.op = "save" /\ c.pool \in Pools
        BY <1>1, <2>4, CallFields DEF ConfirmSave
      <3>1. PICK d \in FacilityDoc :
                /\ d = bound(facility[f], c.pool, "admin") /\ d.status = "FUNDING"
                /\ d.stamps = facility[f].stamps /\ d.first = facility[f].first
        BY <1>3, <3>0, DocBound
      <3>2. facility' = [facility EXCEPT ![f] = d]
        BY <1>1, <1>2, <2>4, <3>1 DEF ConfirmSave
      <3>3. "CRO" \in facility[f].stamps
        BY <1>2, <1>3, <3>0 DEF CallTrail, Approved
      <3>4. facility[f].status # "NONE"
        BY <1>3, <3>3 DEF DocTrail
      <3>5. DocTrail(d)
        BY <1>3, <3>1, <3>3 DEF DocTrail, InReview, NEXT_AFTER
      <3> QED
        BY <1>5, <3>1, <3>2, <3>4, <3>5 DEF WritesDoc
    <2> QED
      BY <2>1, <2>2, <2>3, <2>4
  <1>7. PICK d \in FacilityDoc : written(d)
    BY <1>6
  <1> QED
    BY <1>1, <1>2, <1>4, <1>7, NoCallTrail, HandlerWrites

LEMMA StampTrail ==
    ASSUME BindingInv, TrailInv, NEW h \in Handlers, Stamp(h)
    PROVE  TrailInv'
  <1>1. PICK c \in Call : c = calls[h] /\ c.op = "stamp"
    BY DEF BindingInv, BindingTypeOK, Stamp
  <1>2. PICK f \in Facilities : f = c.facility /\ c.wallet \in Wallets
    BY <1>1, CallFields
  <1>3. /\ DocTrail(facility[f]) /\ facility[f] \in FacilityDoc /\ "CRO" \in facility[f].stamps
        /\ ~facility[f].first => OtherApproved(f)
    BY <1>1, <1>2 DEF TrailInv, BindingInv, BindingTypeOK, CallTrail, Approved
  <1>4. PICK w \in Wallets :
            w = IF facility[f].pool = NoPool THEN c.wallet ELSE facility[f].wallet
    BY <1>2, <1>3 DEF FacilityDoc
  <1>5. PICK d \in FacilityDoc :
            /\ d = [facility[f] EXCEPT !.wallet = w]
            /\ d.status = facility[f].status /\ d.pool = facility[f].pool
            /\ d.stamps = facility[f].stamps /\ d.first = facility[f].first
    BY <1>3, DocWallet
  <1>6. facility' = [facility EXCEPT ![f] = d]
    BY <1>1, <1>2, <1>4, <1>5 DEF Stamp
  <1>7. WritesDoc(f, d) /\ facility[f].status # "NONE"
    BY <1>3, <1>5, <1>6 DEF WritesDoc, DocTrail
  <1>8. PICK call \in Call : /\ call = [c EXCEPT !.op = "check"]
                             /\ call.op = "check" /\ call.facility = f
    <2>1. /\ c = [op |-> c.op, facility |-> f, wallet |-> c.wallet, hasPool |-> c.hasPool]
          /\ c.hasPool \in BOOLEAN
      BY <1>1, <1>2, CallFields
    <2> DEFINE call == [op |-> "check", facility |-> f, wallet |-> c.wallet, hasPool |-> c.hasPool]
    <2>2. call \in Call
      BY <1>2, <2>1 DEF Call
    <2>3. [c EXCEPT !.op = "check"] = call
      BY <2>1
    <2> QED
      BY <2>2, <2>3
  <1>9. calls' = [calls EXCEPT ![h] = call] /\ UNCHANGED indexer
    BY <1>1, <1>8 DEF Stamp, continue, serverUnchanged
  <1>10. Grows
    BY <1>7, WritesGrow
  <1>11. CallTrail(call)'
    <2>1. Approved(f)
      BY <1>3 DEF Approved
    <2>2. Approved(f)'
      BY <1>10, <2>1, ApprovedKept
    <2> QED
      BY <1>8, <2>2 DEF CallTrail
  <1> QED
    BY <1>7, <1>8, <1>9, <1>11, HandlerWrites

\* The indexer binds the facility of an event only while it waits, and one it has seen
\* waiting only if it still has no pool.
LEMMA BindTrail ==
    ASSUME BindingInv, TrailInv, NEW f \in Facilities, "CRO" \in facility[f].stamps,
           NEW p \in Pools, facility' = [facility EXCEPT ![f] = bound(@, p, "indexer")],
           UNCHANGED calls,
           indexer'.unbound \cup indexer'.current \subseteq indexer.unbound \cup indexer.current
    PROVE  TrailInv'
  <1>1. /\ facility[f] \in FacilityDoc /\ DocTrail(facility[f])
        /\ ~facility[f].first => OtherApproved(f)
    BY DEF BindingInv, BindingTypeOK, TrailInv
  <1>2. PICK d \in FacilityDoc :
            /\ d = bound(facility[f], p, "indexer") /\ d.status = "FUNDING"
            /\ d.stamps = facility[f].stamps /\ d.first = facility[f].first
    BY <1>1, DocBound
  <1>3. facility' = [facility EXCEPT ![f] = d]
    BY <1>2
  <1>4. DocTrail(d) /\ facility[f].status # "NONE"
    BY <1>1, <1>2 DEF DocTrail, InReview, NEXT_AFTER
  <1>5. WritesDoc(f, d)
    BY <1>1, <1>2, <1>3, <1>4 DEF WritesDoc
  <1> QED
    BY <1>4, <1>5, IndexerWrites

\* A tick that reads, and remembers only facilities that are approved.
LEMMA TickTrail ==
    ASSUME TrailInv, UNCHANGED <<facility, calls>>,
           \A u \in indexer'.unbound \cup indexer'.current : Approved(u[1])
    PROVE  TrailInv'
  BY DEF TrailInv, DocTrail, CallTrail, OneRequest, OtherApproved, Approved

LEMMA IndexerTrail ==
    ASSUME BindingInv, TrailInv, IndexerNext \/ TickFails
    PROVE  TrailInv'
  <1>1. /\ indexer \in IndexerTick
        /\ \A u \in indexer.unbound \cup indexer.current : u \in Facilities \X Wallets /\ Approved(u[1])
    BY DEF BindingInv, BindingTypeOK, TrailInv, IndexerTick
  <1>2. Idle.unbound \cup Idle.current = {}
    BY DEF Idle
  <1>3. CASE TickStart \/ TickEnd \/ TickFails
    <2>1. indexer'.unbound \cup indexer'.current = {} /\ UNCHANGED <<facility, calls>>
      BY <1>2, <1>3 DEF TickStart, TickEnd, TickFails, indexerOnly, Idle
    <2> QED
      BY <2>1, TickTrail
  <1>4. CASE EventClaimant \/ ReadSlot \/ ReadHolder
    <2>1. indexer'.unbound \cup indexer'.current \subseteq indexer.unbound \cup indexer.current
      <3>1. CASE EventClaimant
        BY <1>1, <3>1 DEF EventClaimant, IndexerTick
      <3>2. CASE ReadSlot
        <4>1. PICK u \in indexer.unbound :
                  \/ indexer' = [indexer EXCEPT !.unbound = @ \ {u}]
                  \/ indexer' = [indexer EXCEPT !.at = "holder", !.unbound = @ \ {u},
                                                !.current = {u}, !.pool = slots[u[2]]]
          BY <3>2 DEF ReadSlot
        <4>2. {u} \subseteq indexer.unbound /\ indexer.unbound \ {u} \subseteq indexer.unbound
          OBVIOUS
        <4>3. CASE indexer' = [indexer EXCEPT !.unbound = @ \ {u}]
          BY <1>1, <4>3 DEF IndexerTick
        <4>4. CASE indexer' = [indexer EXCEPT !.at = "holder", !.unbound = @ \ {u},
                                             !.current = {u}, !.pool = slots[u[2]]]
          <5>1. indexer'.unbound = indexer.unbound \ {u} /\ indexer'.current = {u}
            BY <1>1, <4>4 DEF IndexerTick
          <5> QED
            BY <4>2, <5>1
        <4> QED
          BY <4>1, <4>3, <4>4
      <3>3. CASE ReadHolder
        <4>1. indexer' = [indexer EXCEPT !.at = "update"] \/ indexer' = nextUnbound
          BY <3>3 DEF ReadHolder
        <4> QED
          BY <1>1, <4>1 DEF nextUnbound, IndexerTick
      <3> QED
        BY <1>4, <3>1, <3>2, <3>3
    <2>2. UNCHANGED <<facility, calls>>
      BY <1>4 DEF EventClaimant, ReadSlot, ReadHolder, indexerOnly
    <2> QED
      BY <1>1, <2>1, <2>2, TickTrail
  <1>5. CASE FindUnbound
    <2> DEFINE waiting == {<<f, facility[f].wallet>> : f \in {g \in Facilities : Awaiting(g)}}
    <2>1. \A u \in waiting : Approved(u[1])
      BY DEF TrailInv, DocTrail, Awaiting, Approved
    <2>2. indexer' = [indexer EXCEPT !.at = "unbound", !.unbound = waiting]
      BY <1>5 DEF FindUnbound
    <2> HIDE DEF waiting
    <2>3. indexer'.unbound = waiting /\ indexer'.current = indexer.current
      BY <1>1, <2>2 DEF IndexerTick
    <2> QED
      BY <1>1, <1>5, <2>1, <2>3, TickTrail DEF FindUnbound, indexerOnly
  <1>6. CASE EventBind
    <2>0. /\ indexer'.unbound = indexer.unbound /\ indexer'.current = indexer.current
          /\ UNCHANGED calls
      BY <1>1, <1>6 DEF EventBind, IndexerTick
    <2>1. CASE UNCHANGED facility
      BY <1>1, <2>0, <2>1, TickTrail
    <2>2. ASSUME NEW f \in Facilities, Awaiting(f),
                 facility' = [facility EXCEPT ![f] = bound(@, indexer.pool, "indexer")]
          PROVE  TrailInv'
      <3>1. PICK p \in Pools : p = indexer.pool
        BY <1>6 DEF EventBind, BindingInv
      <3>2. "CRO" \in facility[f].stamps
        BY <2>2 DEF TrailInv, DocTrail, Awaiting
      <3> QED
        BY <2>0, <2>2, <3>1, <3>2, BindTrail
    <2> QED
      BY <1>6, <2>1, <2>2 DEF EventBind
  <1>7. CASE SlotBind
    <2>0. /\ indexer'.unbound \cup indexer'.current \subseteq indexer.unbound \cup indexer.current
          /\ UNCHANGED calls
      BY <1>1, <1>7 DEF SlotBind, nextUnbound, IndexerTick
    <2>1. CASE UNCHANGED facility
      BY <1>1, <2>0, <2>1, TickTrail
    <2>2. ASSUME NEW u \in indexer.current,
                 facility' = [facility EXCEPT ![u[1]] = bound(@, indexer.pool, "indexer")]
          PROVE  TrailInv'
      <3>1. PICK p \in Pools : p = indexer.pool
        BY <1>7 DEF SlotBind, BindingInv
      <3>2. PICK f \in Facilities : f = u[1] /\ "CRO" \in facility[f].stamps
        BY <1>1 DEF Approved
      <3> QED
        BY <2>0, <2>2, <3>1, <3>2, BindTrail
    <2> QED
      BY <1>7, <2>1, <2>2 DEF SlotBind
  <1> QED
    BY <1>3, <1>4, <1>5, <1>6, <1>7 DEF IndexerNext

LEMMA TrailStep == BindingInv /\ TrailInv /\ [Next]_vars => TrailInv'
  <1> SUFFICES ASSUME BindingInv, TrailInv, [Next]_vars PROVE TrailInv'
    OBVIOUS
  <1>1. ASSUME UNCHANGED <<facility, calls, indexer>> PROVE TrailInv'
    BY <1>1, TickTrail DEF TrailInv
  <1>2. CASE \E w \in Wallets : Bind(w)
    BY <1>1, <1>2 DEF Bind, serverUnchanged
  <1>3. CASE \E h \in Handlers, f \in Facilities :
                 RequestRead(h, f) \/ ApproveRead(h, f) \/ RejectRead(h, f) \/ InitRead(h, f)
    BY <1>3, BeginTrail
  <1>4. CASE \E h \in Handlers : HandlerNext(h)
    BY <1>4, DeployTrail, SaveTrail, StampTrail DEF HandlerNext
  <1>5. CASE IndexerNext \/ TickFails
    BY <1>5, IndexerTrail
  <1>6. CASE ChainNext
    BY <1>1, <1>6 DEF ChainNext, PoolEnds, EventExpires
  <1>7. CASE UNCHANGED vars
    BY <1>1, <1>7 DEF vars
  <1> QED
    BY <1>2, <1>3, <1>4, <1>5, <1>6, <1>7 DEF Next, BorrowerNext, StaffNext

LEMMA TrailInvariance == Spec => []TrailInv
  <1> QED
    BY InitTrail, BindingInvariance, TrailStep, PTL DEF Spec

\* However approvals, rejections and requests overlap, no facility comes before the
\* administrator without the approvals its kind needs.
THEOREM ReviewTrailComplete == Spec => []ReviewTrail
  <1>1. TrailInv => ReviewTrail
    <2> SUFFICES ASSUME TrailInv, NEW f \in Facilities
                 PROVE  /\ facility[f].status \in {"AWAITING_POOL_INIT", "FUNDING"} =>
                               (IF facility[f].first THEN Roles ELSE {"CRO"})
                                   \subseteq facility[f].stamps
                        /\ ~facility[f].first => OtherApproved(f)
      BY DEF ReviewTrail, OtherApproved, Approved
    <2> QED
      BY DEF TrailInv, DocTrail
  <1> QED
    BY <1>1, TrailInvariance, PTL

\* Only the route that corrects a wallet changes one after the request, and it asks for the
\* pool in the same update.
THEOREM WalletStaysSettled == Spec => WalletSettled
  <1>1. BindingInv /\ TrailInv /\ [Next]_vars =>
            [\A f \in Facilities :
                 facility[f].pool # NoPool => facility[f].wallet' = facility[f].wallet]_vars
    <2> SUFFICES ASSUME BindingInv, TrailInv, Next,
                        NEW f \in Facilities, facility[f].pool # NoPool
                 PROVE  facility'[f].wallet = facility[f].wallet
      OBVIOUS
    <2>1. facility \in [Facilities -> FacilityDoc] /\ facility[f] \in FacilityDoc
      BY DEF BindingInv, BindingTypeOK
    <2>2. CASE UNCHANGED facility
      BY <2>2
    <2>3. ASSUME NEW h \in Handlers, RequestCreate(h) PROVE facility'[f] = facility[f]
      <3>1. calls[h].facility # f
        BY <2>3 DEF RequestCreate, TrailInv, CallTrail, DocTrail
      <3> QED
        BY <2>1, <2>3, <3>1 DEF RequestCreate
    <2>4. ASSUME NEW h \in Handlers, ApproveSave(h) PROVE facility'[f].wallet = facility[f].wallet
      BY <2>1, <2>4 DEF ApproveSave, approved, FacilityDoc
    <2>5. ASSUME NEW h \in Handlers, RejectSave(h) PROVE facility'[f].wallet = facility[f].wallet
      BY <2>1, <2>5 DEF RejectSave, FacilityDoc
    <2>6. ASSUME NEW h \in Handlers, Stamp(h) PROVE facility'[f].wallet = facility[f].wallet
      BY <2>1, <2>6 DEF Stamp, FacilityDoc
    <2>7. ASSUME NEW h \in Handlers, ConfirmSave(h) PROVE facility'[f].wallet = facility[f].wallet
      BY <2>1, <2>7 DEF ConfirmSave, bound, FacilityDoc
    <2>8. ASSUME EventBind \/ SlotBind PROVE facility'[f].wallet = facility[f].wallet
      <3>1. facility' = facility \/ \E g \in Facilities :
                facility' = [facility EXCEPT ![g] = bound(@, indexer.pool, "indexer")]
        <4>1. CASE EventBind
          BY <4>1 DEF EventBind
        <4>2. CASE SlotBind
          <5>1. PICK u \in indexer.current :
                    facility' = IF facility[u[1]].pool # NoPool THEN facility
                                ELSE [facility EXCEPT ![u[1]] = bound(@, indexer.pool, "indexer")]
            BY <4>2 DEF SlotBind
          <5>2. PICK g \in Facilities : g = u[1]
            BY DEF BindingInv, BindingTypeOK, IndexerTick
          <5> QED
            BY <5>1, <5>2
        <4> QED
          BY <2>8, <4>1, <4>2
      <3> QED
        <4>1. CASE facility' = facility
          BY <4>1
        <4>2. ASSUME NEW g \in Facilities,
                     facility' = [facility EXCEPT ![g] = bound(@, indexer.pool, "indexer")]
              PROVE  facility'[f].wallet = facility[f].wallet
          <5>1. facility'[f] = IF f = g THEN bound(facility[f], indexer.pool, "indexer")
                               ELSE facility[f]
            BY <2>1, <4>2
          <5>2. bound(facility[f], indexer.pool, "indexer").wallet = facility[f].wallet
            BY <2>1 DEF bound, FacilityDoc
          <5> QED
            BY <5>1, <5>2
        <4> QED
          BY <3>1, <4>1, <4>2
    <2> QED
      BY <2>2, <2>3, <2>4, <2>5, <2>6, <2>7, <2>8
      DEF Next, BorrowerNext, StaffNext, HandlerNext, IndexerNext, ChainNext, Bind, RequestRead,
          ApproveRead, RejectRead, InitRead, ResolveRead, CheckBinding, SendCreatePool, ConfirmRead,
          ConfirmSlot, TickStart, EventClaimant, FindUnbound, ReadSlot, ReadHolder, TickEnd,
          TickFails, PoolEnds, EventExpires, serverUnchanged, indexerOnly
  <1> QED
    BY <1>1, BindingInvariance, TrailInvariance, PTL DEF Spec, WalletSettled
-----------------------------------------------------------------------------
(* Who binds a pool *)

\* Whoever holds the pool that the tick is about to bind got it from the administrator, but
\* for the facility it is about to be bound to.
ClaimInv ==
    /\ IndexerClaimsOnce
    /\ indexer.at \in {"holder", "update"} =>
           \E u \in Facilities \X Wallets : indexer.current = {u}
    /\ indexer.at = "bind" =>
           \A f \in Facilities : facility[f].pool = indexer.pool => facility[f].by = "admin"
    /\ indexer.at = "update" =>
           \A u \in indexer.current, f \in Facilities :
               f # u[1] /\ facility[f].pool = indexer.pool => facility[f].by = "admin"

\* A write of a handler: the facility keeps its pool, loses it, or has it from the
\* administrator.
NoNewClaim(f, d) ==
    /\ facility' = [facility EXCEPT ![f] = d]
    /\ \/ d.pool = NoPool
       \/ d.by = "admin"
       \/ d.pool = facility[f].pool /\ d.by = facility[f].by

\* Such a write leaves the tick what it has read.
LEMMA HandlerClaims ==
    ASSUME BindingInv, ClaimInv, NEW f \in Facilities, NEW d, NoNewClaim(f, d),
           UNCHANGED indexer
    PROVE  ClaimInv'
  <1>1. /\ facility \in [Facilities -> FacilityDoc]
        /\ indexer.at \in {"bind", "update"} => indexer.pool # NoPool
    BY PoolsAreNot DEF BindingInv, BindingTypeOK
  <1>2. \A g \in Facilities : facility'[g] = IF g = f THEN d ELSE facility[g]
    BY <1>1 DEF NoNewClaim
  <1>3. IndexerClaimsOnce'
    <2> SUFFICES ASSUME NEW g1 \in Facilities, NEW g2 \in Facilities, g1 # g2,
                        facility'[g1].pool = facility'[g2].pool, facility'[g1].pool # NoPool
                 PROVE  "admin" \in {facility'[g1].by, facility'[g2].by}
      BY DEF IndexerClaimsOnce
    <2> QED
      BY <1>2 DEF NoNewClaim, ClaimInv, IndexerClaimsOnce
  <1> QED
    BY <1>1, <1>2, <1>3 DEF NoNewClaim, ClaimInv

\* The indexer binds a pool that nobody holds but by the administrator.
LEMMA BindClaims ==
    ASSUME BindingInv, ClaimInv, NEW f \in Facilities,
           facility' = [facility EXCEPT ![f] = bound(@, indexer.pool, "indexer")],
           \A g \in Facilities :
               g # f /\ facility[g].pool = indexer.pool => facility[g].by = "admin",
           indexer'.at \in {"event", "unbound"}
    PROVE  ClaimInv'
  <1>1. facility \in [Facilities -> FacilityDoc]
    BY DEF BindingInv, BindingTypeOK
  <1>2. bound(facility[f], indexer.pool, "indexer").pool = indexer.pool
    BY <1>1 DEF bound, FacilityDoc
  <1>3. \A g \in Facilities :
            facility'[g] = IF g = f THEN bound(facility[f], indexer.pool, "indexer")
                           ELSE facility[g]
    BY <1>1
  <1>4. IndexerClaimsOnce'
    <2> SUFFICES ASSUME NEW g1 \in Facilities, NEW g2 \in Facilities, g1 # g2,
                        facility'[g1].pool = facility'[g2].pool, facility'[g1].pool # NoPool
                 PROVE  "admin" \in {facility'[g1].by, facility'[g2].by}
      BY DEF IndexerClaimsOnce
    <2> QED
      BY <1>2, <1>3 DEF ClaimInv, IndexerClaimsOnce
  <1> QED
    BY <1>4 DEF ClaimInv

\* The steps of a tick, whichever way it learnt of the pool.
LEMMA IndexerClaims ==
    ASSUME BindingInv, ClaimInv, IndexerNext \/ TickFails
    PROVE  ClaimInv'
  <1>1. /\ indexer \in IndexerTick
        /\ indexer.unbound \cup indexer.current \subseteq Facilities \X Wallets
    BY DEF BindingInv, BindingTypeOK, IndexerTick
  <1>2. ASSUME UNCHANGED facility, indexer'.at \in {"idle", "event", "unbound"} PROVE ClaimInv'
    BY <1>2 DEF ClaimInv, IndexerClaimsOnce
  <1>3. CASE TickStart \/ TickEnd \/ TickFails
    <2>1. [Idle EXCEPT !.at = "event", !.events = window].at = "event" /\ Idle.at = "idle"
      BY DEF Idle
    <2>2. UNCHANGED facility /\ indexer'.at \in {"idle", "event"}
      BY <1>3, <2>1 DEF TickStart, TickEnd, TickFails, indexerOnly
    <2> QED
      BY <1>2, <2>2
  <1>4. CASE FindUnbound
    <2>1. PICK waiting :
              UNCHANGED facility /\ indexer' = [indexer EXCEPT !.at = "unbound", !.unbound = waiting]
      BY <1>4 DEF FindUnbound, indexerOnly
    <2> QED
      BY <1>1, <1>2, <2>1 DEF IndexerTick
  <1>5. CASE EventClaimant
    <2>1. PICK p \in indexer.events :
              indexer' = IF canClaimPool(p, {})
                         THEN [indexer EXCEPT !.at = "bind", !.events = @ \ {p}, !.pool = p]
                         ELSE [indexer EXCEPT !.events = @ \ {p}]
      BY <1>5 DEF EventClaimant
    <2>2. UNCHANGED facility /\ indexer.at = "event"
      BY <1>5 DEF EventClaimant, indexerOnly
    <2>3. CASE canClaimPool(p, {})
      <3>1. indexer'.at = "bind" /\ indexer'.pool = p
        BY <1>1, <2>1, <2>3 DEF IndexerTick
      <3>2. \A f \in Facilities : facility[f].pool # p
        BY <2>3 DEF canClaimPool, Claimants
      <3> QED
        BY <2>2, <3>1, <3>2 DEF ClaimInv, IndexerClaimsOnce
    <2>4. CASE ~canClaimPool(p, {})
      BY <1>1, <1>2, <2>1, <2>2, <2>4 DEF IndexerTick
    <2> QED
      BY <2>3, <2>4
  <1>6. CASE EventBind
    <2>1. indexer'.at = "event" /\ indexer.at = "bind"
      BY <1>1, <1>6 DEF EventBind, IndexerTick
    <2>2. CASE UNCHANGED facility
      BY <1>2, <2>1, <2>2
    <2>3. ASSUME NEW f \in Facilities,
                 facility' = [facility EXCEPT ![f] = bound(@, indexer.pool, "indexer")]
          PROVE  ClaimInv'
      BY <2>1, <2>3, BindClaims DEF ClaimInv
    <2> QED
      BY <1>6, <2>2, <2>3 DEF EventBind
  <1>7. CASE ReadSlot
    <2>1. PICK u \in indexer.unbound :
              indexer' = IF slots[u[2]] = NoPool
                         THEN [indexer EXCEPT !.unbound = @ \ {u}]
                         ELSE [indexer EXCEPT !.at = "holder", !.unbound = @ \ {u},
                                              !.current = {u}, !.pool = slots[u[2]]]
      BY <1>7 DEF ReadSlot
    <2>2. UNCHANGED facility /\ indexer.at = "unbound" /\ u \in Facilities \X Wallets
      BY <1>1, <1>7 DEF ReadSlot, indexerOnly
    <2>3. CASE slots[u[2]] = NoPool
      BY <1>1, <1>2, <2>1, <2>2, <2>3 DEF IndexerTick
    <2>4. CASE slots[u[2]] # NoPool
      <3>1. indexer'.at = "holder" /\ indexer'.current = {u}
        BY <1>1, <2>1, <2>4 DEF IndexerTick
      <3> QED
        BY <2>2, <3>1 DEF ClaimInv, IndexerClaimsOnce
    <2> QED
      BY <2>3, <2>4
  <1>8. CASE ReadHolder
    <2>1. PICK u \in indexer.current :
              indexer' = IF canClaimPool(indexer.pool, {u[1]})
                         THEN [indexer EXCEPT !.at = "update"] ELSE nextUnbound
      BY <1>8 DEF ReadHolder
    <2>2. UNCHANGED facility /\ indexer.at = "holder" /\ indexer.current = {u}
      BY <1>8, <2>1 DEF ReadHolder, indexerOnly, ClaimInv
    <2>3. CASE canClaimPool(indexer.pool, {u[1]})
      <3>1. /\ indexer'.at = "update" /\ indexer'.pool = indexer.pool
            /\ indexer'.current = indexer.current
        BY <1>1, <2>1, <2>3 DEF IndexerTick
      <3>2. \A f \in Facilities : facility[f].pool = indexer.pool => f = u[1]
        BY <2>3 DEF canClaimPool, Claimants
      <3> QED
        BY <2>2, <3>1, <3>2 DEF ClaimInv, IndexerClaimsOnce
    <2>4. CASE ~canClaimPool(indexer.pool, {u[1]})
      BY <1>1, <1>2, <2>1, <2>2, <2>4 DEF IndexerTick, nextUnbound
    <2> QED
      BY <2>3, <2>4
  <1>9. CASE SlotBind
    <2>1. indexer'.at = "unbound" /\ indexer.at = "update"
      BY <1>1, <1>9 DEF SlotBind, nextUnbound, IndexerTick
    <2>2. PICK u \in indexer.current :
              facility' = IF facility[u[1]].pool # NoPool THEN facility
                          ELSE [facility EXCEPT ![u[1]] = bound(@, indexer.pool, "indexer")]
      BY <1>9 DEF SlotBind
    <2>3. u[1] \in Facilities
      BY <1>1
    <2>4. CASE facility' = facility
      BY <1>2, <2>1, <2>4
    <2>5. CASE facility' = [facility EXCEPT ![u[1]] = bound(@, indexer.pool, "indexer")]
      <3>1. \A g \in Facilities :
                g # u[1] /\ facility[g].pool = indexer.pool => facility[g].by = "admin"
        BY <2>1 DEF ClaimInv
      <3> QED
        BY <2>1, <2>3, <2>5, <3>1, BindClaims
    <2> QED
      BY <2>2, <2>4, <2>5
  <1> QED
    BY <1>3, <1>4, <1>5, <1>6, <1>7, <1>8, <1>9 DEF IndexerNext

\* The handlers that write a facility.
LEMMA SaveClaims ==
    ASSUME BindingInv, ClaimInv, NEW h \in Handlers,
           RequestCreate(h) \/ ApproveSave(h) \/ RejectSave(h) \/ Stamp(h) \/ ConfirmSave(h)
    PROVE  ClaimInv'
  <1> DEFINE c == calls[h]
             f == c.facility
  <1>1. c \in Call /\ c.op \in {"request", "approve", "reject", "stamp", "save"}
    BY DEF BindingInv, BindingTypeOK, RequestCreate, ApproveSave, RejectSave, Stamp, ConfirmSave
  <1>2. f \in Facilities
    BY <1>1, CallFields
  <1>3. facility[f] \in FacilityDoc /\ UNCHANGED indexer
    BY <1>2 DEF BindingInv, BindingTypeOK, RequestCreate, ApproveSave, RejectSave, Stamp,
                ConfirmSave, serverUnchanged
  <1>4. \E d : NoNewClaim(f, d)
    <2>1. CASE RequestCreate(h)
      <3>1. requested(c).pool = NoPool
        BY <1>1, <2>1, DocNew DEF RequestCreate
      <3>2. facility' = [facility EXCEPT ![f] = requested(c)]
        BY <2>1 DEF RequestCreate
      <3> QED
        BY <3>1, <3>2 DEF NoNewClaim
    <2>2. CASE ApproveSave(h)
      <3>1. LET d == approved(facility[f], c)
            IN  (d.pool = NoPool \/ d.pool = facility[f].pool) /\ d.by = facility[f].by
        BY <1>3 DEF approved, FacilityDoc
      <3> QED
        BY <2>2, <3>1 DEF ApproveSave, NoNewClaim
    <2>3. CASE RejectSave(h)
      <3> DEFINE d == [facility[f] EXCEPT !.status = "CANCELLED"]
      <3>1. d.pool = facility[f].pool /\ d.by = facility[f].by
        BY <1>3 DEF FacilityDoc
      <3>2. facility' = [facility EXCEPT ![f] = d]
        BY <2>3 DEF RejectSave
      <3> QED
        BY <3>1, <3>2 DEF NoNewClaim
    <2>4. CASE Stamp(h)
      <3> DEFINE w == IF facility[f].pool = NoPool THEN c.wallet ELSE facility[f].wallet
                 d == [facility[f] EXCEPT !.wallet = w]
      <3>1. d.pool = facility[f].pool /\ d.by = facility[f].by
        BY <1>3 DEF FacilityDoc
      <3>2. facility' = [facility EXCEPT ![f] = d]
        BY <1>2, <1>3, <2>4 DEF Stamp, FacilityDoc
      <3> QED
        BY <3>1, <3>2 DEF NoNewClaim
    <2>5. CASE ConfirmSave(h)
      <3>1. bound(facility[f], c.pool, "admin").by = "admin"
        BY <1>3 DEF bound, FacilityDoc
      <3> QED
        BY <2>5, <3>1 DEF ConfirmSave, NoNewClaim
    <2> QED
      BY <2>1, <2>2, <2>3, <2>4, <2>5
  <1> HIDE DEF c, f
  <1> QED
    BY <1>2, <1>3, <1>4, HandlerClaims

LEMMA ClaimStep == BindingInv /\ ClaimInv /\ [Next]_vars => ClaimInv'
  <1> SUFFICES ASSUME BindingInv, ClaimInv, [Next]_vars PROVE ClaimInv'
    OBVIOUS
  <1>1. ASSUME UNCHANGED <<facility, indexer>> PROVE ClaimInv'
    BY <1>1 DEF ClaimInv, IndexerClaimsOnce
  <1>2. ASSUME NEW h \in Handlers, HandlerNext(h) PROVE ClaimInv'
    BY <1>1, <1>2, SaveClaims
    DEF HandlerNext, ResolveRead, CheckBinding, SendCreatePool, ConfirmRead, ConfirmSlot,
        serverUnchanged
  <1>3. CASE IndexerNext \/ TickFails
    BY <1>3, IndexerClaims
  <1>4. CASE BorrowerNext \/ StaffNext \/ ChainNext \/ UNCHANGED vars
    BY <1>1, <1>4
    DEF BorrowerNext, StaffNext, ChainNext, Bind, RequestRead, ApproveRead, RejectRead,
        InitRead, PoolEnds, EventExpires, serverUnchanged, vars
  <1> QED
    BY <1>2, <1>3, <1>4 DEF Next

\* The indexer learns of a pool by its event and by the slot, and binds on what it read
\* before: still no two facilities share a pool unless the administrator bound one of them.
THEOREM IndexerNeverClaimsTwice == Spec => []IndexerClaimsOnce
  <1>1. Init => ClaimInv
    BY DEF Init, ClaimInv, IndexerClaimsOnce, NoDoc, Idle
  <1> QED
    BY <1>1, BindingInvariance, ClaimStep, PTL DEF Spec, ClaimInv
=============================================================================
