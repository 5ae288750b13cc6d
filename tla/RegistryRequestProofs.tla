----------------------- MODULE RegistryRequestProofs ------------------------
(***************************************************************************)
(* reserve_request preserves the registry's invariant: its answers without *)
(* a transfer, with a free, a drained or a staged destination, and with a  *)
(* demotion; so does an attached destination.                              *)
(***************************************************************************)
EXTENDS RegistryInvariant

(* The type of the fields every new transfer sets. *)
LEMMA LaunchTypes ==
  ASSUME TypeOK, NEW g \in Expert, NEW s \in VSlot \cup {NoSlot}, Launch(g, s)
  PROVE  /\ leases' \in [Expert -> Nat]
         /\ pendingSlot' \in [Expert -> VSlot \cup {NoSlot}]
         /\ warmShadow' \in [Expert -> BOOLEAN]
         /\ vramRes' \in [VSlot -> Nat]
         /\ nextOp' \in Nat \ {0}
<1> USE DEF TypeOK, Launch, Lease
<1>1. leases' \in [Expert -> Nat]
  OBVIOUS
<1>2. pendingSlot' \in [Expert -> VSlot \cup {NoSlot}]
  OBVIOUS
<1>3. warmShadow' \in [Expert -> BOOLEAN]
  BY DEF Shadowing
<1>4. vramRes' \in [VSlot -> Nat]
  OBVIOUS
<1> QED BY <1>1, <1>2, <1>3, <1>4

(* A new transfer takes an unreserved slot under a fresh id. *)
LEMMA LaunchClaims ==
  ASSUME IInv, NEW g \in Expert, NEW s \in VSlot \cup {NoSlot}, Launch(g, s),
         s # NoSlot => vramRes[s] = 0,
         IsIncoming(g)', operationId'[g] = nextOp,
         \A e \in Expert \ {g} : /\ IsIncoming(e)' <=> IsIncoming(e)
                                 /\ IsIncoming(e) => operationId'[e] = operationId[e]
  PROVE  ClaimInv'
<1> USE DEF IInv, TypeOK, VramInv, ClaimInv, EntryInv, EntryOK, Claims
<1>1. /\ ~IsIncoming(g)
      /\ pendingSlot'[g] = s
      /\ \A e \in Expert \ {g} : pendingSlot'[e] = pendingSlot[e]
      /\ \A t \in VSlot : vramRes'[t] = IF t = s THEN nextOp ELSE vramRes[t]
  BY DEF Launch, NeedsTransfer, IsIncoming, VSlot, NoSlot
<1>2. ASSUME NEW t \in VSlot, vramRes'[t] # 0
      PROVE  \E e \in Expert : Claims(e, t)' /\ operationId'[e] = vramRes'[t]
  <2>1. CASE t = s
    BY <2>1, <1>1
  <2>2. CASE t # s
    <3>1. PICK e \in Expert : Claims(e, t) /\ operationId[e] = vramRes[t]
      BY <2>2, <1>1, <1>2
    <3>2. e # g /\ IsIncoming(e) /\ pendingSlot[e] = t
      BY <3>1, <1>1
    <3>3. IsIncoming(e)' /\ pendingSlot'[e] = t /\ operationId'[e] = vramRes'[t]
      BY <2>2, <3>1, <3>2, <1>1
    <3> QED BY <3>3, Zenon
  <2> QED BY <2>1, <2>2
<1>3. ASSUME NEW e \in Expert, IsIncoming(e)', pendingSlot'[e] # NoSlot
      PROVE  vramRes'[pendingSlot'[e]] = operationId'[e]
  <2>1. CASE e = g
    BY <2>1, <1>1, <1>3, Zenon
  <2>2. CASE e # g
    <3>1. IsIncoming(e) /\ vramRes[pendingSlot[e]] = operationId[e] /\ pendingSlot[e] \in VSlot
      BY <2>2, <1>1, <1>3
    <3>2. pendingSlot[e] # s
      <4>1. operationId[e] # 0
        BY <3>1, Zenon DEF IsIncoming
      <4> QED BY <3>1, <4>1 DEF VSlot, NoSlot
    <3> QED BY <2>2, <3>1, <3>2, <1>1
  <2> QED BY <2>1, <2>2
<1>4. ASSUME NEW e \in Expert, NEW f \in Expert,
             IsIncoming(e)', IsIncoming(f)', operationId'[e] = operationId'[f]
      PROVE  e = f
  <2>1. \A x \in Expert \ {g} : IsIncoming(x)' => operationId'[x] < nextOp
    BY Zenon
  <2>2. CASE e = g \/ f = g
    BY <2>1, <2>2, <1>4
  <2>3. CASE e # g /\ f # g
    BY <2>3, <1>4
  <2> QED BY <2>2, <2>3
<1> QED BY <1>2, <1>3, <1>4, Zenon

(* An expert with no shadow residency is in no slot but its own. *)
LEMMA OneSlotHeld ==
  ASSUME HolderInv, NEW v \in Expert, NEW d \in VSlot, slotIdx[v] = d, shadowSlot[v] = NoSlot
  PROVE  \A s \in VSlot : vramSlots[s] = v => s = d
<1> SUFFICES ASSUME NEW s \in VSlot, vramSlots[s] = v PROVE s = d
  OBVIOUS
<1>1. Holds(v, s)
  BY DEF HolderInv
<1>2. shadowSlot[v] # s
  BY DEF VSlot, NoSlot
<1> QED BY <1>1, <1>2 DEF Holds

(* A transfer with no victim, into an unreserved slot s that the same call
   empties if it was held. *)
LEMMA LaunchAloneStep ==
  ASSUME IInv, NEW g \in Expert, NEW s \in VSlot \cup {NoSlot}, LaunchAlone(g, s),
         s # NoSlot => vramRes[s] = 0 /\ vramSlots'[s] = NoExpert,
         owner' \in [Expert -> Tier], slotIdx' \in [Expert -> Nat \cup {NoSlot}],
         shadowSlot' \in [Expert -> VSlot \cup {NoSlot}],
         vramSlots' \in [VSlot -> Expert \cup {NoExpert}], freeVram' \in Seq(VSlot),
         hotLru' \in Seq(Expert), shadowLru' \in Seq(Expert),
         \A t \in VSlot \ {s} : vramSlots'[t] = vramSlots[t],
         Stays(g), \A e \in Expert \ {g} : Stays(e) \/ Released(e)
  PROVE  /\ TypeOK' /\ CountInv' /\ EntryInv' /\ ClaimInv' /\ VictimInv'
         /\ WarmLruInv'
         /\ vramRes' = IF s = NoSlot THEN vramRes ELSE [vramRes EXCEPT ![s] = nextOp]
<1>1. ListOver(warmLru', Expert) /\ Range(warmLru') = Range(warmLru) \ {g}
  BY RemoveList DEF IInv, LruInv, WarmLruInv, LaunchAlone
<1>2. Launched(g) /\ Launch(g, s)
  BY LaunchAloneEntry, Zenon DEF LaunchAlone
<1>21. WarmLruInv'
  BY <1>1, <1>2 DEF IInv, LruInv, WarmLruInv, Launched, SameOperation, Stays, Released
<1>3. TypeOK'
  <2> USE DEF IInv, LaunchAlone, TypeOK
  <2>1. operation' \in [Expert -> Operation] /\ gpuTransfer' \in [Expert -> GpuTransfer]
    BY Zenon DEF Operation, GpuTransfer
  <2>2. hostRes' \in [HSlot -> Nat]
    BY Zenon
  <2>3. operationId' \in [Expert -> Nat]
    OBVIOUS
  <2> QED BY <1>1, <2>1, <2>2, <2>3, LaunchTypes, Zenon DEF ListOver, modeVars
<1>4. CountInv'
  <2>1. {v \in Expert : gpuTransfer'[v] = "D2H"} = {v \in Expert : gpuTransfer[v] = "D2H"}
    BY Zenon DEF IInv, LaunchAlone, TypeOK, EntryInv, EntryOK, Launch, NeedsTransfer
  <2> QED BY <2>1, Zenon DEF IInv, CountInv, LaunchAlone
<1>5. EntryInv'
  <2>0. nextOp \in Nat \ {0} /\ \A e \in Expert : EntryOK(e) /\ operationId[e] \in Nat
    BY DEF IInv, TypeOK, EntryInv
  <2>1. EntryOK(g)'
    <3>1. nextOp' = nextOp + 1 /\ operationId'[g] = nextOp
      BY ONLY <1>2 DEF Launched
    <3>2. operationId'[g] # 0 /\ operationId'[g] < nextOp'
      BY ONLY <2>0, <3>1
    <3>3. EntryOK(g) /\ Stays(g)
      BY ONLY <2>0, Stays(g), g \in Expert
    <3> QED BY ONLY <1>2, <3>2, <3>3 DEF EntryOK, IsIncoming, Launched, Stays
  <2>2. ASSUME NEW e \in Expert \ {g} PROVE EntryOK(e)'
    <3>1. SameOperation(e) /\ frozen' = frozen /\ nextOp' = nextOp + 1
      BY ONLY <1>2, Zenon DEF Launched
    <3>2. /\ nextOp' \in Nat /\ nextOp <= nextOp'
          /\ EntryOK(e) /\ operationId[e] \in Nat /\ nextOp \in Nat
      BY ONLY <2>0, <3>1
    <3>3. Stays(e) \/ Released(e)
      OBVIOUS
    <3> QED BY ONLY <3>1, <3>2, <3>3, EntryFrame
  <2> QED BY <1>2, <2>1, <2>2, Zenon DEF IInv, EntryInv, Launched
<1>6. ClaimInv'
  BY <1>2, LaunchClaims, Zenon DEF IsIncoming, Launched, SameOperation
<1>7. vramRes' = (IF s = NoSlot THEN vramRes ELSE [vramRes EXCEPT ![s] = nextOp])
      /\ pendingSlot'[g] = s
  BY <1>2, Zenon DEF Launch, IInv, TypeOK
<1>71. /\ s # NoSlot => vramSlots'[s] = NoExpert /\ vramRes[s] = 0
       /\ \A t \in VSlot \ {s} : vramSlots'[t] = vramSlots[t]
       /\ \A t \in VSlot : t # NoSlot
  BY DEF VSlot, NoSlot
<1>8. VictimInv'
  <2> USE DEF IInv, TypeOK, VramInv, VictimInv
  <2>1. ASSUME NEW e \in Expert, operation'[e] = "DEMOTION"
        PROVE  vramRes'[slotIdx'[e]] = operationId'[e]
    <3>1. e # g /\ operation[e] = "DEMOTION" /\ operationId'[e] = operationId[e]
      BY <1>2, <2>1, Zenon DEF Launched, IsIncoming, SameOperation
    <3>2. slotIdx'[e] = slotIdx[e] /\ slotIdx[e] \in VSlot /\ operationId[e] # 0
      BY <3>1, Zenon DEF Stays, Released, EntryInv, EntryOK
    <3>3. vramRes[slotIdx[e]] = operationId[e] /\ slotIdx[e] # s
      <4>1. vramRes[slotIdx[e]] = operationId[e]
        BY ONLY <3>1, e \in Expert, IInv, Zenon DEF IInv, VramInv, VictimInv
      <4> QED BY ONLY <3>2, <4>1, <1>71, Zenon
    <3> QED BY <1>7, <3>1, <3>2, <3>3, Zenon
  <2>2. ASSUME NEW t \in VSlot, vramRes'[t] # 0, vramSlots'[t] # NoExpert
        PROVE  operation'[vramSlots'[t]] = "DEMOTION"
    <3>1. t # s /\ vramSlots'[t] = vramSlots[t] /\ vramRes[t] # 0
      <4>1. t # s /\ vramSlots'[t] = vramSlots[t]
        BY ONLY <1>71, <2>2, t \in VSlot, Zenon
      <4>2. vramRes'[t] = vramRes[t]
        BY ONLY <1>7, <4>1, t \in VSlot, IInv, Zenon DEF IInv, TypeOK
      <4> QED BY ONLY <2>2, <4>1, <4>2, Zenon
    <3>2. operation[vramSlots[t]] = "DEMOTION" /\ vramSlots[t] \in Expert
      BY ONLY <2>2, <3>1, t \in VSlot, IInv, Zenon DEF IInv, TypeOK, VramInv, VictimInv
    <3>3. PICK x \in Expert : x = vramSlots[t] /\ operation[x] = "DEMOTION"
      BY ONLY <3>2
    <3>4. operation'[x] = "DEMOTION"
      BY ONLY <1>2, <3>3 DEF Launched, SameOperation
    <3> QED BY ONLY <3>1, <3>3, <3>4
  <2>3. ASSUME NEW e \in Expert, warmShadow'[e], pendingSlot'[e] # NoSlot
        PROVE  vramSlots'[pendingSlot'[e]] = NoExpert
    <3>1. CASE e = g
      BY <1>7, <2>3, <3>1, Zenon
    <3>2. CASE e # g
      <4>1. pendingSlot'[e] = pendingSlot[e] /\ pendingSlot[e] \in VSlot
            /\ vramSlots[pendingSlot[e]] = NoExpert
        <5>1. pendingSlot'[e] = pendingSlot[e] /\ warmShadow[e] /\ pendingSlot[e] # NoSlot
          BY ONLY <1>2, <2>3, <3>2, e \in Expert, Zenon DEF Launched, SameOperation
        <5> QED BY ONLY <5>1, e \in Expert, IInv, Zenon DEF IInv, TypeOK, VramInv, VictimInv
      <4>2. CASE pendingSlot[e] = s
        BY ONLY <1>71, <4>1, <4>2, Zenon
      <4>3. CASE pendingSlot[e] # s
        BY ONLY <1>71, <4>1, <4>3, Zenon
      <4> QED BY <4>2, <4>3, Zenon
    <3> QED BY <3>1, <3>2, Zenon
  <2> QED BY <2>1, <2>2, <2>3, Zenon
<1> QED BY <1>21, <1>3, <1>4, <1>5, <1>6, <1>7, <1>8, Zenon

(* Into a free slot. *)
LEMMA ReserveFreeStep ==
  ASSUME IInv, NEW g \in Expert, ReserveFree(g)
  PROVE  IInv'
<1> DEFINE d == Last(freeVram)
<1>1. /\ d \in Range(freeVram) /\ d \in VSlot
      /\ ListOver(freeVram', VSlot) /\ Range(freeVram') = Range(freeVram) \ {d}
  BY FrontList DEF IInv, VramInv, FreeInv, ReserveFree
<1>2. LaunchAlone(g, d)
      /\ UNCHANGED <<owner, slotIdx, shadowSlot, vramSlots, hotLru, shadowLru>>
  BY DEF ReserveFree
<1> HIDE DEF d
<1>3. vramSlots[d] = NoExpert /\ vramRes[d] = 0 /\ d # NoSlot
  BY <1>1 DEF IInv, VramInv, FreeInv, VSlot, NoSlot
<1>4. /\ TypeOK' /\ CountInv' /\ EntryInv' /\ ClaimInv' /\ VictimInv'
      /\ WarmLruInv' /\ vramRes' = [vramRes EXCEPT ![d] = nextOp]
  BY <1>1, <1>2, <1>3, LaunchAloneStep, Zenon DEF IInv, TypeOK, ListOver, Stays
<1>5. Launched(g)
  BY <1>1, <1>2, LaunchAloneEntry
<1>6. LruInv'
  BY <1>2, <1>4, <1>5, Zenon DEF IInv, LruInv, Launched, SameOperation
<1>7. FreeInv'
  <2>1. vramRes \in [VSlot -> Nat] /\ nextOp # 0
    BY Zenon DEF IInv, TypeOK
  <2> QED BY <1>1, <1>2, <1>4, <2>1 DEF IInv, VramInv, FreeInv
<1>8. HolderInv'
  BY <1>2, Zenon DEF IInv, VramInv, HolderInv, Holds
<1> QED BY <1>4, <1>6, <1>7, <1>8 DEF IInv, VramInv

(* With no slot at all. *)
LEMMA ReserveStagedStep ==
  ASSUME IInv, NEW g \in Expert, ReserveStaged(g)
  PROVE  IInv'
<1>1. /\ LaunchAlone(g, NoSlot)
      /\ UNCHANGED <<owner, slotIdx, shadowSlot, vramSlots, freeVram, hotLru, shadowLru>>
  BY DEF ReserveStaged
<1>2. /\ TypeOK' /\ CountInv' /\ EntryInv' /\ ClaimInv' /\ VictimInv'
      /\ WarmLruInv' /\ vramRes' = vramRes
  BY <1>1, LaunchAloneStep, Zenon DEF IInv, TypeOK, ListOver, Stays
<1>3. Launched(g)
  BY <1>1, LaunchAloneEntry
<1>4. LruInv'
  BY <1>1, <1>2, <1>3, Zenon DEF IInv, LruInv, Launched, SameOperation
<1>5. FreeInv' /\ HolderInv'
  BY <1>1, <1>2, Zenon DEF IInv, VramInv, FreeInv, HolderInv, Holds
<1> QED BY <1>2, <1>4, <1>5 DEF IInv, VramInv

(* Into the slot of a shadow, which Warm still holds. *)
LEMMA ReserveEvictShadowStep ==
  ASSUME IInv, NEW g \in Expert, ReserveEvictShadow(g)
  PROVE  IInv'
<1>1. PICK v \in ShadowVictim :
        /\ LaunchAlone(g, shadowSlot[v])
        /\ vramSlots' = [vramSlots EXCEPT ![shadowSlot[v]] = NoExpert]
        /\ shadowSlot' = [shadowSlot EXCEPT ![v] = NoSlot]
        /\ shadowLru' = RemoveFirst(shadowLru, v)
  BY Zenon DEF ReserveEvictShadow
<1>2. UNCHANGED <<owner, slotIdx, freeVram, hotLru>>
  BY DEF ReserveEvictShadow
<1>3. v \in Expert /\ shadowSlot[v] # NoSlot /\ operation[v] = "NONE"
  BY OldestListed DEF ShadowVictim
<1>4. PICK d \in VSlot : d = shadowSlot[v]
  BY <1>3, Zenon DEF IInv, TypeOK
<1>5. vramSlots[d] = v /\ vramRes[d] = 0 /\ v # NoExpert
  BY <1>3, <1>4, IdleSlot, Zenon DEF Holds
<1>6. Launched(g) /\ g # v
  BY <1>1, <1>3, <1>4, LaunchAloneEntry, Zenon DEF Launched
<1>7. ListOver(shadowLru', Expert) /\ Range(shadowLru') = Range(shadowLru) \ {v}
  BY <1>1, RemoveList, Zenon DEF IInv, LruInv
<1>8. /\ TypeOK' /\ CountInv' /\ EntryInv' /\ ClaimInv' /\ VictimInv'
      /\ WarmLruInv' /\ vramRes' = [vramRes EXCEPT ![d] = nextOp]
  <2>1. shadowSlot' \in [Expert -> VSlot \cup {NoSlot}] /\ shadowLru' \in Seq(Expert)
        /\ vramSlots' \in [VSlot -> Expert \cup {NoExpert}] /\ vramSlots'[d] = NoExpert
        /\ \A t \in VSlot \ {d} : vramSlots'[t] = vramSlots[t]
    BY <1>1, <1>4, <1>7, Zenon DEF IInv, TypeOK, ListOver
  <2>2. Stays(g) /\ \A e \in Expert \ {g} : Stays(e) \/ Released(e)
    BY <1>1, <1>2, <1>3, <1>6, Zenon DEF Stays, Released, IInv, TypeOK
  <2>3. d # NoSlot
    BY DEF VSlot, NoSlot
  <2> QED BY <1>1, <1>2, <1>4, <1>5, <2>1, <2>2, <2>3, LaunchAloneStep, Zenon DEF IInv, TypeOK
<1>9. LruInv'
  <2>1. \A e \in Expert : shadowSlot'[e] = IF e = v THEN NoSlot ELSE shadowSlot[e]
    BY <1>1, Zenon DEF IInv, TypeOK
  <2> QED BY <1>2, <1>6, <1>7, <1>8, <2>1, Zenon DEF IInv, LruInv, Launched, SameOperation
<1>10. FreeInv'
  <2>1. nextOp # 0 /\ vramRes \in [VSlot -> Nat] /\ vramSlots \in [VSlot -> Expert \cup {NoExpert}]
    BY Zenon DEF IInv, TypeOK
  <2> QED BY <1>1, <1>2, <1>4, <1>5, <1>8, <2>1, Zenon DEF IInv, VramInv, FreeInv
<1>11. HolderInv'
  <2>1. \A s \in VSlot : vramSlots[s] = v => s = d
    BY <1>3, <1>4, Zenon DEF IInv, VramInv, HolderInv, Holds, EntryInv, EntryOK
  <2>2. \A s \in VSlot : vramSlots'[s] = IF vramSlots[s] \in {v} THEN NoExpert ELSE vramSlots[s]
    BY <1>1, <1>4, <1>5, <2>1, Zenon DEF IInv, TypeOK
  <2>3. {v} \in SUBSET Expert /\ \A e \in {v} : owner'[e] # "HOT" /\ shadowSlot'[e] = NoSlot
    BY <1>1, <1>2, <1>3, Zenon DEF IInv, TypeOK, EntryInv, EntryOK
  <2>4. \A e \in Expert \ {v} : Stays(e)
    BY <1>1, <1>2, Zenon DEF IInv, TypeOK, Stays
  <2>5. vramSlots' \in [VSlot -> Expert \cup {NoExpert}]
    BY <1>8, Zenon DEF TypeOK
  <2> QED BY <2>2, <2>3, <2>4, <2>5, ReleaseHolders, Zenon
<1> QED BY <1>8, <1>9, <1>10, <1>11 DEF IInv, VramInv

(* Into the slot of a Hot resident that becomes Cold. *)
LEMMA ReserveEvictHotStep ==
  ASSUME IInv, NEW g \in Expert, ReserveEvictHot(g)
  PROVE  IInv'
<1>1. PICK v \in PrefillVictim(g) :
        /\ LaunchAlone(g, slotIdx[v])
        /\ vramSlots' = [vramSlots EXCEPT ![slotIdx[v]] = NoExpert]
        /\ owner' = [owner EXCEPT ![v] = "COLD"]
        /\ slotIdx' = [slotIdx EXCEPT ![v] = NoSlot]
        /\ hotLru' = RemoveFirst(hotLru, v)
  BY Zenon DEF ReserveEvictHot
<1>2. UNCHANGED <<shadowSlot, freeVram, shadowLru>>
  BY Zenon DEF ReserveEvictHot
<1>3. v \in Expert /\ owner[v] = "HOT" /\ operation[v] = "NONE" /\ v # g
  BY OldestListed DEF PrefillVictim, Unused, IInv, LruInv
<1>4. PICK d \in VSlot : d = slotIdx[v]
  BY <1>3, Zenon DEF IInv, EntryInv, EntryOK
<1>5. vramSlots[d] = v /\ vramRes[d] = 0 /\ v # NoExpert /\ shadowSlot[v] = NoSlot
  <2>1. Holds(v, d) /\ shadowSlot[v] = NoSlot
    BY ONLY <1>3, <1>4, IInv, Zenon DEF Holds, IInv, EntryInv, EntryOK
  <2> QED BY ONLY <1>3, <2>1, IInv, d \in VSlot, IdleSlot, Zenon
<1>6. Launched(g)
  BY <1>1, <1>3, <1>4, LaunchAloneEntry, Zenon
<1>7. ListOver(hotLru', Expert) /\ Range(hotLru') = Range(hotLru) \ {v}
  BY <1>1, RemoveList, Zenon DEF IInv, LruInv
<1>8. /\ TypeOK' /\ CountInv' /\ EntryInv' /\ ClaimInv' /\ VictimInv'
      /\ WarmLruInv' /\ vramRes' = [vramRes EXCEPT ![d] = nextOp]
  <2>1. owner' \in [Expert -> Tier] /\ slotIdx' \in [Expert -> Nat \cup {NoSlot}]
        /\ hotLru' \in Seq(Expert)
    BY <1>1, <1>7, Zenon DEF IInv, TypeOK, ListOver, Tier
  <2>2. vramSlots' \in [VSlot -> Expert \cup {NoExpert}] /\ vramSlots'[d] = NoExpert
        /\ \A t \in VSlot \ {d} : vramSlots'[t] = vramSlots[t]
    BY <1>1, <1>4, Zenon DEF IInv, TypeOK
  <2>3. Stays(g) /\ \A e \in Expert \ {g} : Stays(e) \/ Released(e)
    BY <1>1, <1>2, <1>3, Zenon DEF Stays, Released, IInv, TypeOK
  <2>4. d # NoSlot
    BY DEF VSlot, NoSlot
  <2> QED BY <1>1, <1>2, <1>4, <1>5, <2>1, <2>2, <2>3, <2>4, LaunchAloneStep, Zenon DEF IInv, TypeOK
<1>9. LruInv'
  <2>1. \A e \in Expert : e # v => owner'[e] = owner[e]
    BY <1>1, Zenon DEF IInv, TypeOK
  <2> QED BY <1>2, <1>6, <1>7, <1>8, <2>1, Zenon DEF IInv, LruInv, Launched, SameOperation
<1>10. FreeInv'
  <2>1. nextOp # 0 /\ vramRes \in [VSlot -> Nat] /\ vramSlots \in [VSlot -> Expert \cup {NoExpert}]
    BY Zenon DEF IInv, TypeOK
  <2> QED BY <1>1, <1>2, <1>4, <1>5, <1>8, <2>1, Zenon DEF IInv, VramInv, FreeInv
<1>11. HolderInv'
  <2>1. \A s \in VSlot : vramSlots[s] = v => s = d
    <3>1. HolderInv
      BY DEF IInv, VramInv
    <3>2. v \in Expert /\ slotIdx[v] = d /\ shadowSlot[v] = NoSlot
      BY ONLY <1>3, <1>4, <1>5, Zenon
    <3> QED BY ONLY <3>1, <3>2, OneSlotHeld, Zenon
  <2>2. \A s \in VSlot : vramSlots'[s] = IF vramSlots[s] \in {v} THEN NoExpert ELSE vramSlots[s]
    BY <1>1, <1>4, <1>5, <2>1, Zenon DEF IInv, TypeOK
  <2>3. {v} \in SUBSET Expert /\ \A e \in {v} : owner'[e] # "HOT" /\ shadowSlot'[e] = NoSlot
    BY <1>1, <1>2, <1>3, <1>5 DEF IInv, TypeOK
  <2>4. \A e \in Expert \ {v} : Stays(e)
    BY <1>1, <1>2, Zenon DEF IInv, TypeOK, Stays
  <2>5. vramSlots' \in [VSlot -> Expert \cup {NoExpert}]
    BY <1>8, Zenon DEF TypeOK
  <2> QED BY <2>2, <2>3, <2>4, <2>5, ReleaseHolders, Zenon
<1> QED BY <1>8, <1>9, <1>10, <1>11 DEF IInv, VramInv

-----------------------------------------------------------------------------
(* The answers without a transfer, and the mode switches. *)

(* A Hot hit only reorders Hot's list. *)
LEMMA HotHitStep ==
  ASSUME IInv, NEW g \in Expert, HotHit(g)
  PROVE  IInv'
<1>1. EntryInv' /\ VramInv' /\ CountInv'
  BY SameEntries, Zenon DEF HotHit, modeVars
<1>2. ListOver(hotLru', Expert) /\ Range(hotLru') = Range(hotLru) \cup {g}
  BY TouchList, Zenon DEF HotHit, IInv, LruInv
<1>3. LruInv'
  BY <1>2, Zenon DEF HotHit, IInv, LruInv, WarmLruInv
<1>4. leases' \in [Expert -> Nat]
  BY ONLY IInv, HotHit(g), g \in Expert DEF HotHit, Lease, IInv, TypeOK
<1>5. TypeOK'
  BY <1>2, <1>4, Zenon DEF HotHit, IInv, TypeOK, ListOver, vramVars, hostVars, modeVars
<1> QED BY <1>1, <1>3, <1>5 DEF IInv

(* A shadow hit only reorders the shadow list. *)
LEMMA ShadowHitStep ==
  ASSUME IInv, NEW g \in Expert, ShadowHit(g)
  PROVE  IInv'
<1>1. EntryInv' /\ VramInv' /\ CountInv'
  BY SameEntries, Zenon DEF ShadowHit, modeVars
<1>2. ListOver(shadowLru', Expert) /\ Range(shadowLru') = Range(shadowLru) \cup {g}
  BY TouchList, Zenon DEF ShadowHit, IInv, LruInv
<1>3. LruInv'
  BY <1>2, Zenon DEF ShadowHit, IInv, LruInv, WarmLruInv
<1>4. leases' \in [Expert -> Nat]
  BY ONLY IInv, ShadowHit(g), g \in Expert DEF ShadowHit, Lease, IInv, TypeOK
<1>5. TypeOK'
  BY <1>2, <1>4, Zenon DEF ShadowHit, IInv, TypeOK, ListOver, vramVars, hostVars, modeVars
<1> QED BY <1>1, <1>3, <1>5 DEF IInv

(* Joining an operation and releasing a lease change one count. *)
LEMMA LeaseOnlyStep ==
  ASSUME IInv, NEW g \in Expert, JoinPending(g) \/ ReleaseLease(g)
  PROVE  IInv'
<1>1. leases' \in [Expert -> Nat]
  <2>1. CASE JoinPending(g)
    BY <2>1 DEF JoinPending, Lease, IInv, TypeOK
  <2>2. CASE ReleaseLease(g)
    <3>1. leases \in [Expert -> Nat] /\ leases[g] - 1 \in Nat
      BY <2>2 DEF ReleaseLease, IInv, TypeOK
    <3> QED BY <2>2, <3>1 DEF ReleaseLease
  <2> QED BY <2>1, <2>2
<1> QED BY <1>1, LeaseStep DEF JoinPending, ReleaseLease

-----------------------------------------------------------------------------
(* Starting a transfer that demotes a Hot resident. *)

(* An idle Warm resident that is dropped for a demotion. *)
WarmLost(e) ==
  /\ operation[e] = "NONE" /\ owner[e] = "WARM"
  /\ owner'[e] = "COLD" /\ slotIdx'[e] = NoSlot

(* A demotion keeps the invariant, whatever the host side does to idle Warm
   residents in the same call. *)
LEMMA DemoteStep ==
  ASSUME IInv, NEW g \in Expert, NEW v \in DecodeVictim(g), NEW gpu \in {"NONE", "D2H"},
         Demote(g, v, gpu),
         owner' \in [Expert -> Tier], slotIdx' \in [Expert -> Nat \cup {NoSlot}],
         hostSlots' \in [HSlot -> Expert \cup {NoExpert}], hostRes' \in [HSlot -> Nat],
         freeHost' \in Seq(HSlot), WarmLruInv',
         \A e \in Expert : Stays(e) \/ WarmLost(e), Stays(g),
         demotions' = demotions + (IF gpu = "D2H" THEN 1 ELSE 0)
  PROVE  IInv'
<1>1. v \in Expert /\ Demoted(g, v, gpu)
  BY DemoteEntry
<1>2. PICK d \in VSlot : d = slotIdx[v]
  BY <1>1, Zenon DEF Demoted
<1>3. vramSlots[d] = v /\ vramRes[d] = 0 /\ v # NoExpert /\ Stays(v) /\ d # NoSlot
  <2>1. Holds(v, d) /\ operation[v] = "NONE" /\ owner[v] = "HOT"
    BY ONLY <1>1, <1>2 DEF Holds, Demoted
  <2>2. vramSlots[d] = v /\ vramRes[d] = 0 /\ v # NoExpert
    BY ONLY <1>1, <2>1, IInv, d \in VSlot, IdleSlot
  <2>3. Stays(v)
    BY ONLY <1>1, <2>1, \A e \in Expert : Stays(e) \/ WarmLost(e) DEF WarmLost
  <2> QED BY ONLY <2>2, <2>3, d \in VSlot DEF VSlot, NoSlot
<1>4. ListOver(hotLru', Expert) /\ Range(hotLru') = Range(hotLru) \ {v}
  BY <1>1, RemoveList, Zenon DEF IInv, LruInv, Demote
<1>5. TypeOK'
  <2> USE DEF IInv, Demote, TypeOK
  <2>1. operation' \in [Expert -> Operation] /\ gpuTransfer' \in [Expert -> GpuTransfer]
    BY Zenon DEF Operation, GpuTransfer
  <2>2. operationId' \in [Expert -> Nat]
    BY Zenon
  <2>3. demotions' \in Nat
    <3>1. demotions \in Nat /\ (IF gpu = "D2H" THEN 1 ELSE 0) \in Nat
      BY Zenon
    <3> QED BY ONLY <3>1, demotions' = demotions + (IF gpu = "D2H" THEN 1 ELSE 0)
  <2>4. Launch(g, d)
    BY <1>2, Zenon
  <2>5. hotLru' \in Seq(Expert) /\ warmLru' \in Seq(Expert)
    BY <1>4, Zenon DEF ListOver, WarmLruInv
  <2>6. /\ leases' \in [Expert -> Nat] /\ pendingSlot' \in [Expert -> VSlot \cup {NoSlot}]
        /\ warmShadow' \in [Expert -> BOOLEAN] /\ vramRes' \in [VSlot -> Nat]
        /\ nextOp' \in Nat \ {0}
    BY <2>4, LaunchTypes, Zenon
  <2> QED BY <2>1, <2>2, <2>3, <2>5, <2>6, Zenon DEF modeVars
<1>6. CountInv'
  <2> DEFINE d2h == {e \in Expert : gpuTransfer[e] = "D2H"}
  <2>1. v \notin d2h /\ g \notin d2h
    BY <1>1, Zenon DEF IInv, EntryInv, EntryOK, Demoted
  <2>2. {e \in Expert : gpuTransfer'[e] = "D2H"} = IF gpu = "D2H" THEN d2h \cup {v} ELSE d2h
    BY <1>1, <2>1, Zenon DEF Demoted, SameOperation
  <2>3. Cardinality(d2h \cup {v}) = demotions + 1 /\ Cardinality(d2h) = demotions
    BY <1>1, <2>1, DemotionCount, Zenon DEF IInv, CountInv
  <2>4. demotions + 0 = demotions
    BY DEF IInv, TypeOK
  <2> QED BY <2>2, <2>3, <2>4, Zenon DEF CountInv
<1>7. LruInv'
  <2>1. LruInv /\ UNCHANGED <<shadowSlot, shadowLru>>
    BY ONLY <1>1, IInv DEF IInv, Demoted
  <2>2. ASSUME NEW e \in Expert, e \in Range(hotLru')
        PROVE  owner'[e] = "HOT" /\ operation'[e] = "NONE"
    <3>1. e # v /\ owner[e] = "HOT" /\ operation[e] = "NONE"
      BY ONLY <1>4, <2>1, <2>2 DEF LruInv
    <3>2. e # g
      BY ONLY <1>1, <3>1 DEF Demoted
    <3>3. SameOperation(e)
      BY ONLY <1>1, <3>1, <3>2, e \in Expert DEF Demoted
    <3>4. Stays(e)
      BY ONLY <3>1, e \in Expert, \A f \in Expert : Stays(f) \/ WarmLost(f) DEF WarmLost
    <3> QED BY ONLY <3>1, <3>3, <3>4 DEF Stays, SameOperation
  <2> QED BY ONLY <1>4, <2>1, <2>2, WarmLruInv' DEF LruInv
<1>8. EntryInv'
  <2>0. nextOp \in Nat \ {0} /\ \A e \in Expert : EntryOK(e) /\ operationId[e] \in Nat
    BY Zenon DEF IInv, TypeOK, EntryInv
  <2>1. EntryOK(g)'
    <3>1. /\ EntryOK(g) /\ nextOp' = nextOp + 1 /\ shadowSlot'[g] = NoSlot
          /\ owner'[g] = owner[g] /\ slotIdx'[g] = slotIdx[g] /\ owner[g] # "HOT"
      BY <1>1, <2>0, Zenon DEF Demoted, EntryOK, Stays
    <3>2. /\ operation'[g] \in {"IO", "PROMOTION"} /\ gpuTransfer'[g] = "H2D"
          /\ operation'[g] = "IO" => owner[g] = "COLD"
          /\ operation'[g] = "PROMOTION" => owner[g] = "WARM"
          /\ ~warmShadow'[g] /\ operationId'[g] = nextOp
      BY ONLY <1>1, Zenon DEF Demoted, IsIncoming
    <3>3. operationId'[g] # 0 /\ operationId'[g] < nextOp'
      BY ONLY <2>0, <3>1, <3>2
    <3> QED BY ONLY <3>1, <3>2, <3>3, Zenon DEF EntryOK, IsIncoming
  <2>2. EntryOK(v)'
    <3>1. /\ EntryOK(v) /\ nextOp' = nextOp + 1 /\ shadowSlot'[v] = NoSlot
          /\ owner'[v] = "HOT" /\ slotIdx'[v] \in VSlot
          /\ pendingSlot'[v] = NoSlot /\ ~warmShadow'[v]
      BY <1>1, <1>3, <2>0, Zenon DEF Demoted, EntryOK, Stays
    <3>2. operation'[v] = "DEMOTION" /\ gpuTransfer'[v] # "H2D" /\ operationId'[v] = nextOp
      BY <1>1, Zenon DEF Demoted
    <3>3. operationId'[v] # 0 /\ operationId'[v] < nextOp'
      BY ONLY <2>0, <3>1, <3>2
    <3> QED BY ONLY <3>1, <3>2, <3>3, Zenon DEF EntryOK, IsIncoming
  <2>3. ASSUME NEW e \in Expert \ {g, v} PROVE EntryOK(e)'
    <3>a. SameOperation(e) /\ frozen' = frozen /\ shadowSlot' = shadowSlot /\ nextOp' = nextOp + 1
      BY ONLY <1>1, e \in Expert \ {g, v} DEF Demoted
    <3>b. EntryOK(e) /\ operationId[e] \in Nat /\ nextOp \in Nat
      BY ONLY <2>0, e \in Expert
    <3>c. operationId[e] < nextOp
      BY ONLY <3>b DEF EntryOK
    <3>0. /\ SameOperation(e) /\ frozen' = frozen /\ shadowSlot'[e] = shadowSlot[e]
          /\ nextOp' \in Nat /\ nextOp <= nextOp' /\ operationId[e] < nextOp'
          /\ EntryOK(e) /\ operationId[e] \in Nat /\ nextOp \in Nat
      BY ONLY <3>a, <3>b, <3>c
    <3>1. CASE Stays(e)
      BY <3>0, <3>1, EntryFrame, Zenon
    <3>2. CASE WarmLost(e)
      <4>1. shadowSlot[e] = NoSlot
        BY <1>1, <3>0, Zenon DEF EntryOK, Demoted
      <4> QED BY <3>0, <3>2, <4>1, Zenon DEF EntryOK, IsIncoming, WarmLost, SameOperation
    <3> QED BY <3>1, <3>2
  <2> QED BY <1>1, <2>1, <2>2, <2>3, Zenon DEF IInv, EntryInv, Demoted
<1>9. ClaimInv'
  <2>1. Launch(g, d)
    BY <1>2, Zenon DEF Demote
  <2> QED BY <1>1, <1>3, <2>1, LaunchClaims, ZenonT(30) DEF IsIncoming, Demoted, SameOperation
<1>10. FreeInv'
  <2>1. nextOp # 0
    BY Zenon DEF IInv, TypeOK
  <2> QED BY <1>1, <1>2, <1>3, <2>1, Zenon DEF IInv, VramInv, FreeInv, Demoted
<1>11. HolderInv'
  <2>1. HolderInv /\ UNCHANGED <<vramSlots, shadowSlot>>
    BY ONLY <1>1, IInv DEF IInv, VramInv, Demoted
  <2>2. ASSUME NEW s \in VSlot, NEW e \in Expert PROVE Holds(e, s)' <=> Holds(e, s)
    BY ONLY <2>1, e \in Expert, \A f \in Expert : Stays(f) \/ WarmLost(f)
       DEF Holds, Stays, WarmLost
  <2> QED BY ONLY <2>1, <2>2 DEF HolderInv
<1>12. VictimInv'
  <2> USE DEF IInv, TypeOK, VramInv, VictimInv
  <2>1. ASSUME NEW e \in Expert, operation'[e] = "DEMOTION"
        PROVE  vramRes'[slotIdx'[e]] = operationId'[e]
    <3>1. CASE e = v
      BY <1>1, <1>2, <1>3, <3>1, Zenon DEF Demoted, Stays
    <3>2. CASE e # v
      <4>1. e # g /\ operation[e] = "DEMOTION" /\ operationId'[e] = operationId[e] /\ Stays(e)
        BY <1>1, <2>1, <3>2, Zenon DEF Demoted, IsIncoming, WarmLost, SameOperation
      <4>2. slotIdx[e] \in VSlot /\ operationId[e] # 0 /\ slotIdx[e] # d
        <5>1. slotIdx[e] \in VSlot /\ operationId[e] # 0 /\ vramRes[slotIdx[e]] = operationId[e]
          BY ONLY <4>1, IInv, e \in Expert, Zenon DEF IInv, EntryInv, EntryOK, VramInv, VictimInv
        <5> QED BY ONLY <1>3, <5>1, Zenon
      <4> QED BY <1>1, <1>2, <4>1, <4>2, Zenon DEF Demoted, Stays
    <3> QED BY <3>1, <3>2, Zenon
  <2>2. ASSUME NEW t \in VSlot, vramRes'[t] # 0, vramSlots'[t] # NoExpert
        PROVE  operation'[vramSlots'[t]] = "DEMOTION"
    <3>1. vramSlots' = vramSlots
      BY <1>1, Zenon DEF Demoted
    <3>2. CASE t = d
      BY <1>1, <1>3, <3>1, <3>2, Zenon DEF Demoted
    <3>3. CASE t # d
      <4>1. vramRes'[t] = vramRes[t]
        BY <1>1, <1>2, <3>3, Zenon DEF Demoted
      <4>2. PICK x \in Expert : x = vramSlots[t] /\ operation[x] = "DEMOTION"
        BY <2>2, <3>1, <4>1, Zenon
      <4>3. x # g /\ x # v
        BY <1>1, <4>2, Zenon DEF Demoted
      <4>4. SameOperation(x)
        BY <1>1, <4>3, Zenon DEF Demoted
      <4> QED BY <3>1, <4>2, <4>4, Zenon DEF SameOperation
    <3> QED BY <3>2, <3>3, Zenon
  <2>3. ASSUME NEW e \in Expert, warmShadow'[e], pendingSlot'[e] # NoSlot
        PROVE  vramSlots'[pendingSlot'[e]] = NoExpert
    <3>1. e # g /\ e # v
      BY <1>1, <2>3, Zenon DEF Demoted, EntryInv, EntryOK
    <3> QED BY <1>1, <2>3, <3>1, Zenon DEF Demoted, SameOperation
  <2> QED BY <2>1, <2>2, <2>3, Zenon
<1> QED BY <1>5, <1>6, <1>7, <1>8, <1>9, <1>10, <1>11, <1>12 DEF IInv, VramInv

(* Warm's list when an idle expert leaves it. *)
LEMMA LeaveWarm ==
  ASSUME IInv, NEW g \in Expert
  PROVE  /\ ListOver(RemoveFirst(warmLru, g), Expert)
         /\ Range(RemoveFirst(warmLru, g)) = Range(warmLru) \ {g}
BY RemoveList DEF IInv, LruInv, WarmLruInv

(* A dropped demotion takes no host slot. *)
LEMMA ReserveDropVictimStep ==
  ASSUME IInv, NEW g \in Expert, ReserveDropVictim(g)
  PROVE  IInv'
<1>1. PICK v \in DecodeVictim(g) : Demote(g, v, "NONE")
  BY DEF ReserveDropVictim
<1>2. v \in Expert /\ Demoted(g, v, "NONE")
  BY <1>1, DemoteEntry
<1>3. hostRes' = SourceHostRes(g) /\ warmLru' = RemoveFirst(warmLru, g)
      /\ UNCHANGED <<owner, slotIdx, hostSlots, freeHost, demotions>> /\ shadowSlot' = shadowSlot
  BY <1>2, Zenon DEF ReserveDropVictim, Demoted
<1>4. WarmLruInv'
  BY <1>2, <1>3, LeaveWarm, ZenonT(30) DEF IInv, LruInv, WarmLruInv, Demoted, SameOperation
<1>5. hostRes' \in [HSlot -> Nat] /\ demotions' = demotions + 0
  <2>1. demotions \in Nat /\ SourceHostRes(g) \in [HSlot -> Nat]
    BY SourceHostResType, Zenon DEF IInv, TypeOK
  <2> QED BY ONLY <1>3, <2>1
<1>6. \A e \in Expert : Stays(e)
  BY <1>3, Zenon DEF Stays
<1> QED BY <1>1, <1>3, <1>4, <1>5, <1>6, DemoteStep, Zenon DEF IInv, TypeOK

(* A demotion into a free host slot. *)
LEMMA ReserveDemoteToFreeStep ==
  ASSUME IInv, NEW g \in Expert, ReserveDemoteToFree(g)
  PROVE  IInv'
<1>1. PICK v \in DecodeVictim(g) : Demote(g, v, "D2H")
  BY DEF ReserveDemoteToFree
<1>2. v \in Expert /\ Demoted(g, v, "D2H")
  BY <1>1, DemoteEntry
<1>3. /\ hostRes' = [SourceHostRes(g) EXCEPT ![Last(freeHost)] = nextOp]
      /\ warmLru' = RemoveFirst(warmLru, g) /\ freeHost # <<>> /\ freeHost' = Front(freeHost)
      /\ UNCHANGED <<owner, slotIdx, hostSlots, shadowSlot>> /\ demotions' = demotions + 1
  BY <1>2, Zenon DEF ReserveDemoteToFree, Demoted
<1>4. WarmLruInv'
  BY <1>2, <1>3, LeaveWarm, ZenonT(30) DEF IInv, LruInv, WarmLruInv, Demoted, SameOperation
<1>5. hostRes' \in [HSlot -> Nat]
  BY <1>3, SourceHostResType, Zenon DEF IInv, TypeOK
<1>6. freeHost' \in Seq(HSlot)
  <2>1. freeHost \in Seq(HSlot)
    BY ONLY IInv, Zenon DEF IInv, TypeOK
  <2> QED BY ONLY <1>3, <2>1 DEF Front
<1>7. \A e \in Expert : Stays(e)
  BY <1>3, Zenon DEF Stays
<1> QED BY <1>1, <1>3, <1>4, <1>5, <1>6, <1>7, DemoteStep, Zenon DEF IInv, TypeOK

(* A demotion into the slot of the oldest Warm resident, which becomes Cold. *)
LEMMA ReserveDemoteOverWarmStep ==
  ASSUME IInv, NEW g \in Expert, ReserveDemoteOverWarm(g)
  PROVE  IInv'
<1>1. PICK v \in DecodeVictim(g) : Demote(g, v, "D2H")
  BY DEF ReserveDemoteOverWarm
<1>2. v \in Expert /\ Demoted(g, v, "D2H")
  BY <1>1, DemoteEntry
<1>3. PICK w \in WarmVictim(g) :
        /\ hostRes' = [SourceHostRes(g) EXCEPT ![slotIdx[w]] = nextOp]
        /\ hostSlots' = [hostSlots EXCEPT ![slotIdx[w]] = NoExpert]
        /\ owner' = [owner EXCEPT ![w] = "COLD"]
        /\ slotIdx' = [slotIdx EXCEPT ![w] = NoSlot]
        /\ warmLru' = RemoveFirst(RemoveFirst(warmLru, w), g)
  BY Zenon DEF ReserveDemoteOverWarm
<1>4. demotions' = demotions + 1 /\ freeHost' = freeHost /\ shadowSlot' = shadowSlot
  BY <1>2, Zenon DEF ReserveDemoteOverWarm, Demoted
<1>5. w \in Expert /\ w # g /\ operation[w] = "NONE" /\ owner[w] = "WARM"
  <2>1. w \in Range(warmLru) /\ w \in {c \in Expert : c # g /\ Unused(c)}
    BY ONLY w \in WarmVictim(g), OldestListed DEF WarmVictim
  <2> QED BY ONLY <2>1, IInv, Zenon DEF Unused, IInv, LruInv, WarmLruInv
<1>6. ListOver(warmLru', Expert) /\ Range(warmLru') = (Range(warmLru) \ {w}) \ {g}
  BY <1>3, <1>5, LeaveWarm, RemoveList
<1>7. owner' \in [Expert -> Tier] /\ slotIdx' \in [Expert -> Nat \cup {NoSlot}]
  BY <1>3, Zenon DEF IInv, TypeOK, Tier
<1>8. hostSlots' \in [HSlot -> Expert \cup {NoExpert}] /\ hostRes' \in [HSlot -> Nat]
  BY <1>3, SourceHostResType, Zenon DEF IInv, TypeOK
<1>9. /\ \A e \in Expert \ {w} : Stays(e)
      /\ WarmLost(w)
  BY <1>3, <1>4, <1>5, Zenon DEF Stays, WarmLost, IInv, TypeOK
<1>10. WarmLruInv'
  <2>1. WarmLruInv
    BY Zenon DEF IInv, LruInv
  <2>2. \A e \in Expert \ {w, g} : owner[e] = "WARM" /\ operation[e] = "NONE" =>
                                 owner'[e] = "WARM" /\ operation'[e] = "NONE"
    BY ONLY <1>2, <1>9, IInv, Zenon DEF IInv, EntryInv, EntryOK, Demoted, SameOperation, Stays
  <2> QED BY ONLY <1>6, <2>1, <2>2, Zenon DEF WarmLruInv
<1>11. freeHost' \in Seq(HSlot)
  BY <1>4, Zenon DEF IInv, TypeOK
<1> QED BY <1>1, <1>4, <1>5, <1>7, <1>8, <1>9, <1>10, <1>11, DemoteStep, Zenon

-----------------------------------------------------------------------------
(* A destination for a transfer that was staged without one. *)
LEMMA AttachDestinationStep ==
  ASSUME IInv, NEW g \in Expert, AttachDestination(g)
  PROVE  IInv'
<1> DEFINE d == Last(freeVram)
<1>1. /\ d \in Range(freeVram) /\ d \in VSlot
      /\ ListOver(freeVram', VSlot) /\ Range(freeVram') = Range(freeVram) \ {d}
  BY FrontList, Zenon DEF IInv, VramInv, FreeInv, AttachDestination
<1>2. /\ IsIncoming(g) /\ pendingSlot[g] = NoSlot
      /\ pendingSlot' = [pendingSlot EXCEPT ![g] = d]
      /\ vramRes' = [vramRes EXCEPT ![d] = operationId[g]]
      /\ UNCHANGED <<owner, slotIdx, operation, operationId, gpuTransfer, leases, shadowSlot,
                     warmShadow, marked, vramSlots, hostVars, lruVars, nextOp, demotions, modeVars>>
  BY Zenon DEF AttachDestination
<1> HIDE DEF d
<1>3. /\ vramSlots[d] = NoExpert /\ vramRes[d] = 0 /\ d # NoSlot
      /\ operationId[g] # 0 /\ operationId[g] \in Nat
  <2>1. FreeInv /\ EntryOK(g) /\ operationId[g] \in Nat
    BY ONLY IInv, Zenon DEF IInv, VramInv, EntryInv, TypeOK
  <2>2. operationId[g] # 0
    BY ONLY <1>2, <2>1, Zenon DEF EntryOK, IsIncoming
  <2>3. vramSlots[d] = NoExpert /\ vramRes[d] = 0
    BY ONLY <1>1, <2>1, Zenon DEF FreeInv
  <2>4. d # NoSlot
    BY ONLY <1>1 DEF VSlot, NoSlot
  <2> QED BY ONLY <2>1, <2>2, <2>3, <2>4, Zenon
<1>4. /\ pendingSlot'[g] = d /\ \A e \in Expert \ {g} : pendingSlot'[e] = pendingSlot[e]
      /\ \A s \in VSlot : vramRes'[s] = IF s = d THEN operationId[g] ELSE vramRes[s]
  BY <1>1, <1>2, Zenon DEF IInv, TypeOK
<1>5. TypeOK'
  <2>1. pendingSlot' \in [Expert -> VSlot \cup {NoSlot}] /\ vramRes' \in [VSlot -> Nat]
    BY <1>1, <1>2, <1>3, Zenon DEF IInv, TypeOK
  <2> QED BY <1>1, <1>2, <2>1, Zenon DEF IInv, TypeOK, ListOver, hostVars, lruVars, modeVars
<1>6. LruInv' /\ CountInv'
  BY <1>2, Zenon DEF IInv, LruInv, WarmLruInv, CountInv, lruVars
<1>7. EntryInv'
  <2>1. EntryInv /\ UNCHANGED <<owner, slotIdx, operation, operationId, gpuTransfer, shadowSlot,
                               warmShadow, nextOp, frozen, stream>>
    BY ONLY <1>2, IInv, Zenon DEF IInv, modeVars
  <2>2. operation[g] # "NONE" /\ operation[g] # "DEMOTION"
    BY ONLY <1>2, Zenon DEF IsIncoming
  <2> QED BY ONLY <1>4, <2>1, <2>2, Zenon DEF EntryInv, EntryOK, IsIncoming
<1>8. FreeInv' /\ HolderInv'
  <2>1. FreeInv /\ HolderInv
    BY DEF IInv, VramInv
  <2>2. UNCHANGED <<owner, slotIdx, shadowSlot, vramSlots>>
    BY <1>2
  <2>3. FreeInv'
    BY ONLY <1>1, <1>3, <1>4, <2>1, <2>2, Zenon DEF FreeInv
  <2>4. HolderInv'
    BY ONLY <2>1, <2>2, Zenon DEF HolderInv, Holds
  <2> QED BY <2>3, <2>4
<1>9. ClaimInv'
  <2> USE DEF IInv, VramInv, ClaimInv, Claims, TypeOK
  <2>1. ASSUME NEW t \in VSlot, vramRes'[t] # 0
        PROVE  \E e \in Expert : Claims(e, t)' /\ operationId'[e] = vramRes'[t]
    <3>1. CASE t = d
      BY <1>2, <1>4, <3>1, Zenon DEF IsIncoming
    <3>2. CASE t # d
      <4>1. PICK e \in Expert : Claims(e, t) /\ operationId[e] = vramRes[t]
        BY <1>4, <2>1, <3>2, Zenon
      <4>2. e # g
        <5>1. t # NoSlot
          BY ONLY CapacityAssumption, t \in VSlot DEF VSlot, NoSlot
        <5> QED BY ONLY <1>2, <4>1, <5>1, Zenon DEF Claims
      <4> QED BY <1>2, <1>4, <3>2, <4>1, <4>2, Zenon DEF IsIncoming
    <3> QED BY <3>1, <3>2, Zenon
  <2>2. ASSUME NEW e \in Expert, IsIncoming(e)', pendingSlot'[e] # NoSlot
        PROVE  vramRes'[pendingSlot'[e]] = operationId'[e]
    <3>1. CASE e = g
      BY ONLY <1>1, <1>2, <1>4, <3>1, Zenon
    <3>2. CASE e # g
      <4>1. IsIncoming(e) /\ pendingSlot[e] \in VSlot /\ vramRes[pendingSlot[e]] = operationId[e]
            /\ operationId[e] # 0
        <5>1. IsIncoming(e) /\ pendingSlot'[e] = pendingSlot[e] /\ pendingSlot[e] # NoSlot
          BY ONLY <1>2, <1>4, <2>2, <3>2, Zenon DEF IsIncoming
        <5>2. /\ EntryOK(e) /\ ClaimInv /\ pendingSlot[e] \in VSlot \cup {NoSlot}
          BY ONLY IInv, Zenon DEF IInv, EntryInv, VramInv, TypeOK
        <5>3. operationId[e] # 0
          BY ONLY <5>1, <5>2, Zenon DEF EntryOK, IsIncoming
        <5>4. vramRes[pendingSlot[e]] = operationId[e]
          BY ONLY <5>1, <5>2, Zenon DEF ClaimInv
        <5> QED BY ONLY <5>1, <5>2, <5>3, <5>4, Zenon
      <4> QED BY ONLY <1>2, <1>3, <1>4, <3>2, <4>1, Zenon
    <3> QED BY <3>1, <3>2, Zenon
  <2>3. \A e, f \in Expert :
          IsIncoming(e)' /\ IsIncoming(f)' /\ operationId'[e] = operationId'[f] => e = f
    BY <1>2, Zenon DEF IsIncoming
  <2> QED BY <2>1, <2>2, <2>3, Zenon
<1>10. VictimInv'
  <2> USE DEF IInv, VramInv, VictimInv, TypeOK
  <2>1. ASSUME NEW e \in Expert, operation'[e] = "DEMOTION"
        PROVE  vramRes'[slotIdx'[e]] = operationId'[e]
    <3>1. slotIdx[e] \in VSlot /\ vramRes[slotIdx[e]] = operationId[e] /\ operationId[e] # 0
      BY <1>2, <2>1, Zenon DEF EntryInv, EntryOK
    <3> QED BY <1>2, <1>3, <1>4, <3>1, Zenon
  <2>2. \A t \in VSlot : vramRes'[t] # 0 /\ vramSlots'[t] # NoExpert =>
          operation'[vramSlots'[t]] = "DEMOTION"
    BY <1>2, <1>3, <1>4, Zenon
  <2>3. \A e \in Expert : warmShadow'[e] /\ pendingSlot'[e] # NoSlot =>
          vramSlots'[pendingSlot'[e]] = NoExpert
    BY <1>2, <1>3, <1>4, Zenon
  <2> QED BY <2>1, <2>2, <2>3, Zenon
<1> QED BY <1>5, <1>6, <1>7, <1>8, <1>9, <1>10 DEF IInv, VramInv
=============================================================================
